----------------------------- MODULE MCRecords -----------------------------
(* Instances of Records for TLC. *)
EXTENDS Records, TLC

\* Of the ids that are asked for, 9 has no task.
MCScopes == { {}, {1, 2}, {2, 9} }

NeitherOrTwo == { "neither", "a", "b" }

ProcSymmetry == Permutations(Procs)
=============================================================================
