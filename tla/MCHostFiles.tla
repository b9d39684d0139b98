----------------------------- MODULE MCHostFiles -----------------------------
(* taskowners.yaml is replaced once, torn in between and for good if git is  *)
(* killed; workflows.yaml stays as it is.                                    *)
EXTENDS HostFiles

MCLast == << 6, 3 >>
=============================================================================
