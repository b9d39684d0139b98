---------------------------- MODULE MCReadCache ----------------------------
(* Instances of ReadCache for TLC. *)
EXTENDS ReadCache

\* The row is yet to be created.
NoRow == [k \in Keys |-> 0]
=============================================================================
