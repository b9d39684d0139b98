------------------------------ MODULE MCScoring ------------------------------
(* Three tasks that wait for each other in every way, cycles and loops     *)
(* included, or for the closed 9 and for 10, which is not created yet;     *)
(* 1.5 makes ties, 40 moves most.  Then one agent who owns all three, or   *)
(* two of them, the closed one and the one that may be created, asks what  *)
(* is next.                                                                *)
EXTENDS NextRanking

MCTasks == 1 .. 3
MCLists == SUBSET MCTasks \cup { {9, 10} }
MCBases == { 15, 400 }

MCPast    == [t \in {9} |-> [ score |-> -24, waits |-> {3} ]]
MCUnborn  == { 10 }
MCMovesTo == [t \in 1 .. 10 |->
  CASE t = 1 -> { "IN_REVIEW", "CANCELLED" } [] t = 2 -> { "IN_PROGRESS", "CANCELLED" }
    [] t = 3 -> { "CANCELLED" } [] t = 9 -> { "REOPENED" } [] OTHER -> { "PLANNING" }]
MCStartPlan == [t \in 1 .. 3 \cup {9, 10} |->
  CASE t = 1 -> { "task_plan" } [] t = 3 -> { "done_when", "refs" } [] OTHER -> {}]
MCOwned   == { {1, 2, 3}, {2, 3, 9, 10} }
MCLimits  == { 2 }
=============================================================================
