----------------------------- MODULE NextRanking -----------------------------
(***************************************************************************)
(* GET /next/{agent}: computeNextForAgent, on the scores that the last     *)
(* rescoring has stored and on all other columns as they are today.  In    *)
(* between, commands that do not rescore move tasks, edit and merge them   *)
(* and create new ones; merges that overtake each other are TaskGraph's.   *)
(*                                                                         *)
(* Scores and readiness are tenths; a rank is rounded to tenths, and half  *)
(* a tenth goes either way because the code multiplies float64.  sort.Slice*)
(* is not stable: equal ranks may come in any order.                       *)
(***************************************************************************)
EXTENDS Scoring, Sequences, FiniteSetsExt, SequencesExt

CONSTANTS
  Past,      \* of the tasks closed before the rescoring, the score and the list
  Unborn,    \* ids that have no row yet
  MovesTo,   \* the statuses that commands move each task to
  StartPlan, \* the fields of each task that count as preparation
  Owned,     \* the sets of tasks that agents own in this instance
  Limits,    \* the code has 5 unless the request says otherwise
  MaxMoves   \* bound: how many commands come between rescoring and request

All == Tasks \cup DOMAIN Past \cup Unborn

Fields == { "task_plan", "done_when", "spec", "refs" }

ASSUME RankingAssumption ==
  /\ IsFiniteSet(Unborn) /\ IsFiniteSet(DOMAIN Past)
  /\ Past \in [DOMAIN Past -> [ score : Int, waits : SUBSET All ]]
  /\ StartPlan \in [All -> SUBSET Fields]
  /\ Owned \subseteq SUBSET All
  /\ Limits \subseteq Nat \ {0}
  /\ MaxMoves \in Nat

VARIABLES
  status,    \* the columns of every task today: its status,
  waits,     \* its blocked_by,
  plan,      \* which preparation fields are not empty
  moves,     \* how many commands there have been since the rescoring
  next       \* what is asked and answered

rankVars == << vars, status, waits, plan, moves, next >>

NoRow == "no row"

Active   == { "TODO", "IN_PROGRESS", "REOPENED", "READY", "PLANNING" }
Terminal == { "DONE", "CANCELLED", "SUPERSEDED" }

NotAsked == [ asked |-> FALSE ]

RankInit ==
  /\ Init
  /\ status = [t \in All |->
       IF t \in Tasks THEN "TODO" ELSE IF t \in DOMAIN Past THEN "DONE" ELSE NoRow]
  /\ waits = [t \in All |->
       IF t \in Tasks THEN blockedBy[t]
       ELSE IF t \in DOMAIN Past THEN Past[t].waits ELSE {}]
  /\ plan = StartPlan
  /\ moves = 0
  /\ next = NotAsked

Weight == [ task_plan |-> 3, done_when |-> 2, spec |-> 2, refs |-> 1 ]

StatusWeight(st) ==
  CASE st = "REOPENED" -> 2 [] st = "IN_PROGRESS" -> 3 [] OTHER -> 0

Smaller(x, y) == IF x < y THEN x ELSE y

computeReadiness(t) ==
  Smaller(10, SumFunctionOnSet(Weight, plan[t]) + StatusWeight(status[t]))

\* With a tenth for every task that waits for t, whatever its status.
Readiness(t) ==
  Smaller(10, computeReadiness(t) + Cardinality({ u \in All : t \in waits[u] }))

\* effective_score: a task that no rescoring has seen has what it had.
Effective(t) ==
  IF t \in Tasks THEN score[t].effective
  ELSE IF t \in DOMAIN Past THEN Past[t].score ELSE 0

\* EffectiveScore * (1 + readiness), in hundredths.
Value(t) == Effective(t) * (10 + Readiness(t))

\* int64(x*10 + 0.5) cuts off towards zero, which for a negative x (a negative
\* priority_override) rounds the wrong way.
round1(n) ==
  LET q == (n + 5) \div 10
      r == (n + 5) % 10
  IN IF n > -5 THEN Rounded(n)
     ELSE { v \in { q, q + 1 } : v <= 0 /\ (v = q + 1 \/ r = 0) }

\* Ids that are no task are skipped.
ActiveBlockers(t) ==
  { b \in waits[t] \cap All : status[b] \notin Terminal \cup { NoRow } }

Eligible(mine) == { t \in mine : status[t] \in Active /\ ActiveBlockers(t) = {} }

\* Mutant: the list is cut before it is sorted.
CutFirst(cands, limit) ==
  UNION { SetToSeqs(S) : S \in kSubset(Smaller(limit, Cardinality(cands)), cands) }

\* sort.Slice by rank, and the first ones of it.
SortedAndCut(cands, limit) ==
  { SubSeq(s, 1, Smaller(limit, Len(s))) : s \in
      { q \in SetToSeqs(cands) :
          \A i, j \in 1 .. Len(q) : i < j => q[i].rank >= q[j].rank } }

\* A command after the rescoring and before the request; none of these rescores.
Command ==
  /\ pc = "done" /\ next = NotAsked
  /\ moves < MaxMoves /\ moves' = moves + 1
  /\ UNCHANGED << vars, next >>

\* Neither side of a merge may be in these, and hardly a command leads out of them.
Gone(t) == status[t] \in { "CANCELLED", "SUPERSEDED", NoRow }

Move(t) ==
  /\ Command /\ ~Gone(t)
  /\ \E st \in MovesTo[t] : st # status[t] /\ status' = [status EXCEPT ![t] = st]
  /\ UNCHANGED << waits, plan >>

\* update sets or clears task_plan or spec.
Edit(t) ==
  /\ Command /\ status[t] # NoRow
  /\ \E f \in { "task_plan", "spec" } :
       plan' = [plan EXCEPT ![t] = IF f \in @ THEN @ \ {f} ELSE @ \cup {f}]
  /\ UNCHANGED << status, waits >>

\* a absorbs b: its list and its preparation become the union, whoever else waits
\* for b waits for a instead.
MergeTasks(a, b) ==
  /\ Command /\ a # b /\ ~Gone(a) /\ ~Gone(b)
  /\ status' = [status EXCEPT ![b] = "SUPERSEDED"]
  /\ waits' = [d \in All |->
       IF d = a THEN (waits[a] \cup waits[b]) \ {a}
       ELSE IF d # b /\ b \in waits[d] THEN (waits[d] \ {b}) \cup {a}
       ELSE waits[d]]
  /\ plan' = [plan EXCEPT ![a] = @ \cup (plan[b] \cap { "done_when", "refs" })]

\* The rescore after a create is not written yet: the row has its default score.
CreateTask(t) ==
  /\ Command /\ t \in Unborn /\ status[t] = NoRow
  /\ status' = [status EXCEPT ![t] = "BACKLOG"]
  /\ \E list \in Lists : waits' = [waits EXCEPT ![t] = list]
  /\ \E fields \in SUBSET { "refs" } : plan' = [plan EXCEPT ![t] = fields]

computeNextForAgent(mine, limit) ==
  /\ pc = "done" /\ next = NotAsked
  /\ \E ranks \in { f \in [Eligible(mine) -> UNION { round1(Value(t)) : t \in Eligible(mine) }] :
                      \A t \in Eligible(mine) : f[t] \in round1(Value(t)) } :
       \E shown \in SortedAndCut({ [ id |-> t, rank |-> ranks[t] ] : t \in Eligible(mine) }, limit) :
         next' = [ asked |-> TRUE, mine |-> mine, limit |-> limit, candidates |-> shown,
                   blocked |-> { t \in mine : status[t] \in Active /\ ActiveBlockers(t) # {} } ]
  /\ UNCHANGED << vars, status, waits, plan, moves >>

RankNext ==
  \/ /\ Next
     /\ UNCHANGED << status, waits, plan, moves, next >>
  \/ \E t \in All : Move(t) \/ Edit(t) \/ CreateTask(t)
  \/ \E a, b \in All : MergeTasks(a, b)
  \/ \E mine \in Owned, limit \in Limits : computeNextForAgent(mine, limit)

RankSpec == RankInit /\ [][RankNext]_rankVars

-----------------------------------------------------------------------------
(* Properties. *)

Shown == { next.candidates[i].id : i \in DOMAIN next.candidates }

\* No task that its owner could work on is forgotten, whatever has moved, merged
\* or been created since the scores were stored: it is shown once, or it is listed
\* as blocked by something that is still going on, or as many others as the limit
\* allows are shown that are worth as much up to the rounding, which is off by
\* half a tenth, and by one and a half where the rank is negative.
NobodyForgotten ==
  next.asked =>
    /\ Cardinality(Shown) = Len(next.candidates) /\ Shown \cap next.blocked = {}
    /\ Shown \cup next.blocked \subseteq next.mine
    /\ \A t \in next.mine \ (Shown \cup next.blocked) :
         status[t] \in Active =>
           /\ Len(next.candidates) = next.limit
           /\ \A u \in Shown :
                Value(t) <= Value(u) + (IF Value(u) < 0 THEN 20 ELSE 10)
=============================================================================
