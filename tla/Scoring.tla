------------------------------ MODULE Scoring ------------------------------
(***************************************************************************)
(* RecalculateAll: a task is worth its own base score and three tenths of  *)
(* what the tasks that wait for it are worth.  The values are computed in  *)
(* place, in rounds over a Go map, whose order is another one every time;  *)
(* edges that lie on a cycle are skipped.                                  *)
(*                                                                         *)
(* Scores are counted in tenths.  The code computes with float64, which    *)
(* decides two things one way or the other: what a value half way between  *)
(* two tenths is rounded to, and whether a difference of a tenth is larger *)
(* than 0.1.  Both are the same whenever the same potentials are summed.   *)
(*                                                                         *)
(* The base score (impact, penalty of the agent, bonuses, override) does   *)
(* not depend on other tasks and is an input here.                         *)
(***************************************************************************)
EXTENDS Integers, FiniteSets, Functions

CONSTANTS
  Tasks,      \* the open tasks that are scored
  Lists,      \* the blocked_by lists of this instance; may name other ids too
  Bases,      \* the base scores of this instance, in tenths
  MaxRounds   \* the code has 10

ASSUME ScoringAssumption ==
  /\ IsFiniteSet(Tasks)
  /\ Bases \subseteq Int
  /\ MaxRounds \in Nat \ {0}

VARIABLES
  blockedBy,  \* [Tasks -> Lists], as the transaction has read and scrubbed it
  base,       \* [Tasks -> Bases]
  reach,      \* what a task reaches by blocking, computed once
  pot,        \* potentials
  left,       \* the tasks that this round's range loop has yet to visit
  round,
  changed,    \* has this round adopted a value
  fed,        \* the potentials that a task was last given a value from
  pc,         \* "rounds", "done"
  score       \* the results, potential and effective

vars == << blockedBy, base, reach, pot, left, round, changed, fed, pc, score >>

\* blocksMap: the tasks that wait for t.
Blocks(t) == { u \in Tasks : t \in blockedBy[u] }

\* blocksReachability: the depth-first search from one node.
Reachable(waiting, start) ==
  LET seen[n \in Nat] ==
        IF n = 0 THEN waiting[start]
        ELSE LET s == seen[n - 1] IN s \cup UNION { waiting[m] : m \in s }
  IN seen[Cardinality(Tasks)]

Init ==
  /\ blockedBy \in [Tasks -> Lists]
  /\ base \in [Tasks -> Bases]
  /\ reach = LET waiting == [t \in Tasks |-> Blocks(t)]
             IN [t \in Tasks |-> Reachable(waiting, t)]
  /\ pot = base
  /\ left = Tasks
  /\ round = 0
  /\ changed = FALSE
  /\ fed = [t \in Tasks |-> [u \in {} |-> 0]]
  /\ pc = "rounds"
  /\ score = [t \in Tasks |-> [ potential |-> 0, effective |-> 0 ]]

\* Mutant: no cycle guard.
FeedsAll(t) == Blocks(t)

\* The waiting tasks that count: a back-edge does not.
Feeds(t) == { u \in Blocks(t) : t \notin reach[u] }

Inputs(t) == [u \in Feeds(t) |-> pot[u]]

\* base + 0.3 * sum, in hundredths.
Worth(t) == 10 * base[t] + 3 * SumFunctionOnSet(pot, Feeds(t))

\* Mutant: the hundredths are cut off.
RoundedDown(n) == { n \div 10 }

\* roundHalfEven of a number of hundredths to tenths, as float64 may do it.
Rounded(n) ==
  LET q == n \div 10
      r == n % 10
  IN { v \in { q, q + 1 } : (v = q /\ r <= 5) \/ (v = q + 1 /\ r >= 5) }

Gap(x, y) == IF x < y THEN y - x ELSE x - y

\* |newPot - potential| > 0.1 may hold, and may not hold.
MayAdopt(new, old) == Gap(new, old) >= 1

\* Mutant: the difference is compared with 1.0.
MayKeepWhole(new, old) == Gap(new, old) <= 10

MayKeep(new, old) == Gap(new, old) <= 1

\* Mutant: the rounds are over after the first.
OverAny == TRUE

\* The break when a round has adopted nothing, or the cap.
Over == ~changed \/ round + 1 = MaxRounds

-----------------------------------------------------------------------------
\* One step of the range loop over potentials.  A task that is computed from
\* what it was computed from before has by then adopted or kept what it has.
Visit(t) ==
  /\ pc = "rounds" /\ t \in left
  /\ left' = left \ {t}
  /\ \/ /\ Blocks(t) = {} \/ fed[t] = Inputs(t)
        /\ UNCHANGED << pot, changed, fed >>
     \/ /\ Blocks(t) # {} /\ fed[t] # Inputs(t)
        /\ fed' = [fed EXCEPT ![t] = Inputs(t)]
        /\ \E new \in Rounded(Worth(t)) :
             \/ /\ MayAdopt(new, pot[t])
                /\ pot' = [pot EXCEPT ![t] = new]
                /\ changed' = TRUE
             \/ /\ MayKeep(new, pot[t])
                /\ UNCHANGED << pot, changed >>
  /\ UNCHANGED << blockedBy, base, reach, round, pc, score >>

NextRound ==
  /\ pc = "rounds" /\ left = {}
  /\ ~Over
  /\ round' = round + 1
  /\ left' = Tasks
  /\ changed' = FALSE
  /\ UNCHANGED << blockedBy, base, reach, pot, fed, pc, score >>

\* A task whose list names anything, be it a task that is no longer open, has
\* the effective score 0.
Results ==
  /\ pc = "rounds" /\ left = {}
  /\ Over
  /\ score' = [t \in Tasks |->
       [ potential |-> pot[t],
         effective |-> IF blockedBy[t] # {} THEN 0 ELSE pot[t] ]]
  /\ pc' = "done"
  /\ UNCHANGED << blockedBy, base, reach, pot, left, round, changed, fed >>

Next == (\E t \in Tasks : Visit(t)) \/ NextRound \/ Results

Spec == Init /\ [][Next]_vars

-----------------------------------------------------------------------------
(* The reference: the same values without rounding, in units of a tenth      *)
(* divided by Scale.                                                         *)

Tens[n \in Nat] == IF n = 0 THEN 1 ELSE 10 * Tens[n - 1]

Scale == Tens[Cardinality(Tasks)]

\* Does a task that waits for u, or for such a one, ..., come to t?
ComesTo(u, t) ==
  \A S \in SUBSET Tasks :
    Blocks(u) \subseteq S /\ (\A x \in S : Blocks(x) \subseteq S) => t \in S

ForwardOnly(t) == { u \in Blocks(t) : ~ComesTo(u, t) }

\* own[t], and three tenths of what the waiting tasks have, all the way down.
PassedOn(own) ==
  LET feeds == [t \in Tasks |-> ForwardOnly(t)]
      upTo[d \in Nat] ==
        IF d = 0 THEN own
        ELSE LET deeper == upTo[d - 1] IN
             [t \in Tasks |-> own[t] + (3 * SumFunctionOnSet(deeper, feeds[t])) \div 10]
  IN upTo[Cardinality(Tasks)]

Exact == PassedOn([t \in Tasks |-> Scale * base[t]])

\* Half a tenth that rounding may add, and the tenth that is not worth adopting.
Tolerance ==
  PassedOn([t \in Tasks |-> IF Blocks(t) = {} THEN 0 ELSE (3 * Scale) \div 2])

-----------------------------------------------------------------------------
(* Properties. *)

\* Every variable has its type, and a potential is what the sum of its inputs
\* of then makes it: half a tenth for rounding, a tenth for the threshold.
TypeOK ==
  /\ blockedBy \in [Tasks -> Lists] /\ base \in [Tasks -> Bases]
  /\ reach \in [Tasks -> SUBSET Tasks]
  /\ pot \in [Tasks -> Int] /\ DOMAIN fed = Tasks
  /\ \A t \in Tasks :
       \/ fed[t] = [u \in {} |-> 0] /\ pot[t] = base[t]
       \/ /\ fed[t] \in [Feeds(t) -> Int]
          /\ Gap(10 * pot[t], 10 * base[t] + 3 * SumFunctionOnSet(fed[t], Feeds(t))) <= 15
  /\ left \subseteq Tasks /\ round \in 0 .. MaxRounds - 1 /\ changed \in BOOLEAN
  /\ pc \in { "rounds", "done" }
  /\ score \in [Tasks -> [ potential : Int, effective : Int ]]

\* Unless a task reaches, by blocking, as many others as there are rounds, the cap
\* is never what ends the loop: in whatever order the map is ranged over, cycles
\* included, the values stop moving before.
StopsByItself ==
  pc = "done" /\ (\A t \in Tasks : Cardinality(reach[t]) < MaxRounds) => ~changed

\* When a round has adopted nothing, every potential is the value of its own
\* equation to a tenth and a rounding, those visited before a neighbour moved
\* included.
NearItsEquation ==
  pc = "done" /\ ~changed =>
    \A t \in Tasks : Gap(10 * pot[t], Worth(t)) <= 15

\* Whatever the order of the map, the scores that are stored when a round has
\* adopted nothing are those of the exact sums without the edges that lie on a
\* cycle, up to what rounding and the threshold allow: nothing is passed round a
\* cycle, nothing is left out.
ScoresAreExact ==
  pc = "done" /\ ~changed =>
    \A t \in Tasks : Gap(Scale * score[t].potential, Exact[t]) <= Tolerance[t]
=============================================================================
