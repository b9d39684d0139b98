---------------------------- MODULE MCTaskGraph ----------------------------
(* Instances of TaskGraph for TLC. *)
EXTENDS TaskGraph, TLC

OpenRow(blockers) == [ status |-> "open", blockedBy |-> blockers ]

\* 3 waits for 1 and for 2.
ForkRow ==
  [i \in Ids |-> IF i = 3 THEN OpenRow({1, 2}) ELSE IF i < 3 THEN OpenRow({}) ELSE Nil]

\* 1 waits for 2: they may be merged all the same.
PairRow == [i \in Ids |-> IF i = 1 THEN OpenRow({2}) ELSE IF i = 2 THEN OpenRow({}) ELSE Nil]

NoneOrFirst == { {}, {1} }

ProcSymmetry == Permutations(Procs)
=============================================================================
