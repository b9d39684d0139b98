-------------------------- MODULE TaskGraph_proofs --------------------------
(***************************************************************************)
(* Proofs about TaskGraph for any number of goroutines, ids, phases and    *)
(* requests and any tasks table the server may start on.                   *)
(***************************************************************************)
EXTENDS TaskGraph, FiniteSetTheorems, WellFoundedInduction, TLAPS

-----------------------------------------------------------------------------
(* Largest and smallest ids. *)

\* A set of naturals that is not empty has a smallest member.
LEMMA SmallestOf ==
  ASSUME NEW S, S \subseteq Nat, S # {}
  PROVE  \E x \in S : \A y \in S : x <= y
<1>1. PICK x \in S : \A y \in S : << y, x >> \notin OpToRel(<, Nat)
  BY NatLessThanWellFounded, WFMin
<1>2. ASSUME NEW y \in S
      PROVE  x <= y
  <2>1. x \in Nat /\ y \in Nat
    OBVIOUS
  <2>2. ~(y < x)
    BY <1>1, <2>1 DEF OpToRel
  <2>. QED
    BY <2>1, <2>2
<1>. QED
  BY <1>2

\* What MAX(id) returns.
LEMMA MaxOfIds ==
  ASSUME NEW S, S \subseteq Ids, S # {}
  PROVE  Max(S) \in S /\ \A i \in S : i <= Max(S)
<1>. DEFINE T == { MaxId - i : i \in S }
<1>0. MaxId \in Nat
  BY GraphAssumption
<1>1. T \subseteq Nat /\ T # {}
  <2>1. \A i \in S : MaxId - i \in Nat
    BY <1>0 DEF Ids
  <2>. QED
    BY <2>1
<1>2. PICK x \in T : \A y \in T : x <= y
  BY <1>1, SmallestOf
<1>3. PICK m \in S : x = MaxId - m
  OBVIOUS
<1>4. \A i \in S : m >= i
  <2>1. ASSUME NEW i \in S
        PROVE  m >= i
    <3>1. MaxId - m <= MaxId - i
      BY <1>2, <1>3
    <3>. QED
      BY <1>0, <3>1 DEF Ids
  <2>. QED
    BY <2>1
<1>5. Max(S) \in S /\ \A i \in S : Max(S) >= i
  BY <1>4 DEF Max
<1>. QED
  BY <1>5 DEF Ids

\* The id at which ORDER BY id begins.
LEMMA MinOfIds ==
  ASSUME NEW S, S \subseteq Ids, S # {}
  PROVE  Min(S) \in S
<1>1. S \subseteq Nat
  BY GraphAssumption DEF Ids
<1>2. \E x \in S : \A y \in S : x <= y
  BY <1>1, SmallestOf
<1>. QED
  BY <1>2 DEF Min

-----------------------------------------------------------------------------
(* Partial functions over the ids. *)

PartialTo(S) == UNION { [D -> S] : D \in SUBSET Ids }

LEMMA PartialEmpty ==
  ASSUME NEW S
  PROVE  << >> \in PartialTo(S)
<1>1. << >> \in [{} -> S]
  OBVIOUS
<1>. QED
  BY <1>1 DEF PartialTo

LEMMA PartialAdd ==
  ASSUME NEW S, NEW f \in PartialTo(S), NEW i \in Ids, NEW r \in S
  PROVE  /\ With(f, i, r) \in PartialTo(S)
         /\ DOMAIN With(f, i, r) = DOMAIN f \cup {i}
         /\ With(f, i, r)[i] = r
         /\ \A j \in DOMAIN f : j # i => With(f, i, r)[j] = f[j]
<1>1. PICK D \in SUBSET Ids : f \in [D -> S]
  BY DEF PartialTo
<1>2. With(f, i, r) \in [D \cup {i} -> S]
  BY <1>1 DEF With
<1>. QED
  BY <1>1, <1>2 DEF PartialTo, With
-----------------------------------------------------------------------------
(* Type correctness.  Rows are never deleted, so the tasks that a request    *)
(* names stay there; what a goroutine is about to write has been read.       *)

Types ==
  /\ Typed
  /\ draft \in [Procs -> PartialTo(Row)]
  /\ read \in [Procs -> PartialTo(SUBSET Ids)]

ClosePcs == { "read", "update", "scan", "rescore" }
MergePcs == { "readA", "readB", "deps", "mergeA", "mergeDeps", "mergeB" }

Serving(p) ==
  pc[p] # "idle" =>
    /\ req[p] \in Request
    /\ req[p].kind \notin CreateKinds => row[req[p].task] # Nil /\ row[req[p].by] # Nil
    /\ pc[p] \in ClosePcs => req[p].kind \in CloseKinds
    /\ pc[p] \in { "scan", "rescore" } => req[p].kind = "finish"
    /\ pc[p] \in MergePcs => req[p].kind = "merge" /\ req[p].task # req[p].by

Reading(p) ==
  /\ pc[p] \in { "readB", "deps", "mergeA", "mergeDeps" } => req[p].task \in DOMAIN read[p]
  /\ pc[p] \in { "deps", "mergeA", "mergeDeps" } => req[p].by \in DOMAIN read[p]
  /\ pc[p] \in { "mergeA", "mergeDeps" } => todo[p] \subseteq DOMAIN read[p]

Todo(p) ==
  /\ pc[p] \in { "rescore", "mergeA", "mergeDeps" } => \A i \in todo[p] : row[i] # Nil
  /\ pc[p] \in { "rescore", "mergeDeps" } => todo[p] # {}

Drawn(p) == pc[p] = "insert" => want[p] \in Ids

Local(p) == Serving(p) /\ Reading(p) /\ Todo(p) /\ Drawn(p)

TypeInv == Types /\ \A p \in Procs : Local(p)

LEMMA TypeInit == Init => TypeInv
<1>. SUFFICES ASSUME Init
              PROVE  TypeInv
  OBVIOUS
<1>1. MaxId \in Nat /\ StartSeq \in 0 .. MaxId
  BY GraphAssumption
<1>2. draft \in [Procs -> PartialTo(Row)] /\ read \in [Procs -> PartialTo(SUBSET Ids)]
  BY PartialEmpty DEF Init
<1>3. Types
  <2>1. row \in [Ids -> Row \cup {Nil}] /\ seq \in 0 .. MaxId
    BY <1>1, GraphAssumption DEF Init
  <2>2. want \in [Procs -> 0 .. MaxId] /\ served \in Nat
    BY <1>1 DEF Init
  <2>3. /\ lock \in [Ids -> Procs \cup {Nil}] /\ req \in [Procs -> Request \cup {Nil}]
        /\ ids \in [Procs -> SUBSET Ids] /\ todo \in [Procs -> SUBSET Ids]
        /\ before \in [Procs -> SUBSET Ids] /\ crossed \in [Procs -> BOOLEAN]
        /\ scanned \in [Procs -> SUBSET Ids] /\ rescored \in [Ids -> SUBSET Ids]
        /\ merged \subseteq Ids
    BY DEF Init
  <2>. QED
    BY <1>2, <2>1, <2>2, <2>3 DEF Init, Types, Typed
<1>4. \A p \in Procs : pc[p] = "idle"
  BY DEF Init
<1>5. \A p \in Procs : Local(p)
  BY <1>4 DEF Local, Serving, Reading, Todo, Drawn, ClosePcs, MergePcs
<1>. QED
  BY <1>3, <1>5 DEF TypeInv

\* What GetTask and the scan find is a row.
LEMMA RowOf ==
  ASSUME TypeInv, NEW i \in Ids, row[i] # Nil
  PROVE  row[i] \in Row /\ row[i].status \in TaskStatuses /\ row[i].blockedBy \in SUBSET Ids
BY DEF TypeInv, Types, Typed, Row

LEMMA RequestOf ==
  ASSUME TypeInv, NEW p \in Procs, pc[p] # "idle"
  PROVE  /\ req[p] \in Request
         /\ req[p].kind \in AllKinds /\ req[p].task \in Ids /\ req[p].by \in Ids
         /\ req[p].blockers \in SUBSET Ids
BY DEF TypeInv, Local, Serving, Request

\* What a transaction has written is a row of some of the ids.
LEMMA DraftOf ==
  ASSUME TypeInv, NEW p \in Procs
  PROVE  /\ DOMAIN draft[p] \subseteq Ids
         /\ \A i \in DOMAIN draft[p] : draft[p][i] \in Row
         /\ DOMAIN read[p] \subseteq Ids
         /\ \A i \in DOMAIN read[p] : read[p][i] \in SUBSET Ids
BY DEF TypeInv, Types, Typed, PartialTo

LEMMA WriteType ==
  ASSUME TypeInv, NEW p \in Procs, NEW i \in Ids, NEW r \in Row, Write(p, i, r)
  PROVE  /\ lock' \in [Ids -> Procs \cup {Nil}]
         /\ draft' \in [Procs -> PartialTo(Row)]
<1>1. With(draft[p], i, r) \in PartialTo(Row)
  BY PartialAdd DEF TypeInv, Types, Typed
<1>. QED
  BY <1>1 DEF TypeInv, Types, Typed, Write

LEMMA RollbackType ==
  ASSUME TypeInv, NEW p \in Procs
  PROVE  /\ ReleaseLocks(p) => lock' \in [Ids -> Procs \cup {Nil}]
         /\ [draft EXCEPT ![p] = << >>] \in [Procs -> PartialTo(Row)]
<1>1. << >> \in PartialTo(Row)
  BY PartialEmpty
<1>. QED
  BY <1>1 DEF TypeInv, Types, Typed, ReleaseLocks

\* COMMIT puts rows in the place of rows or of nothing.
LEMMA PersistType ==
  ASSUME TypeInv, NEW p \in Procs, pc[p] # "idle", Persist(p)
  PROVE  /\ row' \in [Ids -> Row \cup {Nil}]
         /\ \A i \in Ids : row[i] # Nil => row'[i] # Nil
         /\ lock' \in [Ids -> Procs \cup {Nil}]
         /\ draft' \in [Procs -> PartialTo(Row)]
<1>1. \A i \in Ids : row'[i] = IF i \in DOMAIN draft[p] THEN draft[p][i] ELSE row[i]
  BY DEF Persist
<1>2. row' \in [Ids -> Row \cup {Nil}]
  BY DraftOf DEF Persist, TypeInv, Types, Typed
<1>3. Nil \notin Row
  BY GraphAssumption
<1>. QED
  BY <1>1, <1>2, <1>3, DraftOf, RollbackType DEF Persist

\* A goroutine that neither moves nor loses a row it relies on keeps its facts.
LEMMA OthersKeepTheirs ==
  ASSUME TypeInv, NEW q \in Procs,
         pc'[q] = pc[q], req'[q] = req[q], read'[q] = read[q],
         todo'[q] = todo[q], want'[q] = want[q],
         \A i \in Ids : row[i] # Nil => row'[i] # Nil
  PROVE  Local(q)'
<1>1. Local(q) /\ todo[q] \subseteq Ids
  BY DEF TypeInv, Types, Typed
<1>2. Serving(q)'
  BY <1>1 DEF Local, Serving, Request
<1>3. Reading(q)' /\ Drawn(q)'
  BY <1>1 DEF Local, Reading, Drawn
<1>4. Todo(q)'
  BY <1>1 DEF Local, Todo
<1>. QED
  BY <1>2, <1>3, <1>4 DEF Local

\* A step that moves one goroutine only.
Moves(p) == \A q \in Procs \ {p} :
  /\ pc'[q] = pc[q] /\ req'[q] = req[q] /\ read'[q] = read[q]
  /\ todo'[q] = todo[q] /\ want'[q] = want[q]

LEMMA OneMoves ==
  ASSUME TypeInv, NEW p \in Procs, Moves(p), Types', Local(p)',
         \A i \in Ids : row[i] # Nil => row'[i] # Nil
  PROVE  TypeInv'
<1>1. ASSUME NEW q \in Procs \ {p}
      PROVE  Local(q)'
  BY OthersKeepTheirs DEF Moves
<1>. QED
  BY <1>1 DEF TypeInv

\* The facts of a goroutine that is at none of the guarded places.
LEMMA AtEase ==
  ASSUME TypeInv, NEW p \in Procs, pc[p] # "idle",
         pc'[p] \in { "idle", "guard", "setval", "draw", "edges", "aborted", "commit", "answer" },
         pc'[p] = "idle" \/ req'[p] = req[p],
         \A i \in Ids : row[i] # Nil => row'[i] # Nil
  PROVE  Local(p)'
<1>1. Serving(p) /\ req[p].task \in Ids /\ req[p].by \in Ids
  BY RequestOf DEF TypeInv, Local
<1>2. Serving(p)'
  BY <1>1 DEF Serving, ClosePcs, MergePcs
<1>. QED
  BY <1>2 DEF Local, Reading, Todo, Drawn

LEMMA TypeStep == TypeInv /\ [Next]_vars => TypeInv'
<1>. SUFFICES ASSUME TypeInv, [Next]_vars
              PROVE  TypeInv'
  OBVIOUS
<1>. USE DEF Goto, Reply
<1>0. MaxId \in Nat /\ MaxId # 0
  BY GraphAssumption
<1>t. Types /\ \A p \in Procs : Local(p)
  BY DEF TypeInv
<1>1. ASSUME NEW p \in Procs, Receive(p)
      PROVE  TypeInv'
  <2>1. PICK r \in Sent :
          /\ r.kind \in Kinds
          /\ r.kind \notin CreateKinds => {r.task, r.by} \subseteq Committed
          /\ r.kind = "merge" => r.task # r.by
          /\ req' = [req EXCEPT ![p] = r]
          /\ Goto(p, IF r.kind \in CreateKinds THEN "guard"
                     ELSE IF r.kind = "merge" THEN "readA" ELSE "read")
    BY <1>1 DEF Receive
  <2>2. r \in Request
    <3>1. 1 \in Ids /\ 1 \in 1 .. MaxPhases
      BY GraphAssumption DEF Ids
    <3>2. CreateKinds \subseteq AllKinds /\ CloseKinds \subseteq AllKinds /\ "merge" \in AllKinds
      BY DEF AllKinds
    <3>3. SentBlockers \subseteq SUBSET Ids
      BY GraphAssumption
    <3>4. \A k \in AllKinds : \A t, u \in Ids : \A b \in SUBSET Ids : \A n \in 1 .. MaxPhases :
            [ kind |-> k, task |-> t, by |-> u, blockers |-> b, phases |-> n ] \in Request
      BY DEF Request
    <3>. QED
      BY <3>1, <3>2, <3>3, <3>4 DEF Sent, CreateKinds
  <2>3. /\ UNCHANGED << row, lock, seq, tx, code, history >>
        /\ served' = served + 1 /\ served \in Nat /\ pc[p] = "idle"
    BY <1>1, <1>t DEF Receive, Types, Typed
  <2>4. Types'
    <3>1. req' \in [Procs -> Request \cup {Nil}] /\ served' \in Nat
      BY <2>1, <2>2, <2>3, <1>t DEF Types, Typed
    <3>. QED
      BY <2>1, <2>3, <3>1, <1>t DEF Types, Typed, tx, history
  <2>5. Local(p)'
    <3>1. r.kind \in CreateKinds \/ r.kind = "merge" \/ r.kind \in CloseKinds
      BY <2>2 DEF Request, AllKinds
    <3>2. pc'[p] = IF r.kind \in CreateKinds THEN "guard"
                   ELSE IF r.kind = "merge" THEN "readA" ELSE "read"
      BY <2>1, <1>t DEF Types, Typed
    <3>3. req'[p] = r /\ row' = row
      BY <2>1, <2>3, <1>t DEF Types, Typed
    <3>4. Serving(p)'
      BY <2>1, <2>2, <3>1, <3>2, <3>3 DEF Serving, Committed, ClosePcs, MergePcs
    <3>. QED
      BY <3>2, <3>4 DEF Local, Reading, Todo, Drawn
  <2>. QED
    BY <2>1, <2>3, <2>4, <2>5, <1>t, OneMoves DEF Moves, tx, Types, Typed
<1>2. ASSUME NEW p \in Procs, GuardRead(p)
      PROVE  TypeInv'
  <2>1. before' \in [Procs -> SUBSET Ids] /\ pc[p] = "guard"
    BY <1>2, <1>t DEF GuardRead, Types, Typed, Committed
  <2>2. Types'
    BY <1>2, <2>1, <1>t DEF GuardRead, Types, Typed, tx
  <2>. QED
    BY <1>2, <2>1, <2>2, <1>t, AtEase, OneMoves DEF GuardRead, tx, Moves, Types, Typed
<1>3. ASSUME NEW p \in Procs, GuardSet(p)
      PROVE  TypeInv'
  <2>1. GuardedSeq(p) \in 0 .. MaxId
    <3>1. before[p] # {} => Max(before[p]) \in Ids
      BY MaxOfIds, <1>t DEF Types, Typed
    <3>. QED
      BY <1>0, <3>1 DEF GuardedSeq, Ids
  <2>2. Types'
    BY <1>3, <2>1, <1>t DEF GuardSet, Types, Typed, tx
  <2>. QED
    BY <1>3, <2>2, <1>t, AtEase, OneMoves DEF GuardSet, tx, Moves, Types, Typed
<1>4. ASSUME NEW p \in Procs, Draw(p)
      PROVE  TypeInv'
  <2>1. seq + 1 \in 0 .. MaxId /\ seq + 1 \in Ids
    BY <1>0, <1>4, <1>t DEF Draw, Types, Typed, Ids
  <2>2. Types'
    BY <1>4, <2>1, <1>t DEF Draw, Types, Typed, history
  <2>3. Local(p)'
    <3>1. Serving(p) /\ want'[p] \in Ids /\ pc[p] = "draw" /\ pc'[p] = "insert"
      BY <1>4, <2>1, <1>t DEF Draw, Local, Types, Typed
    <3>. QED
      BY <1>4, <3>1 DEF Draw, Local, Serving, Reading, Todo, Drawn, ClosePcs, MergePcs
  <2>. QED
    BY <1>4, <2>2, <2>3, <1>t, OneMoves DEF Draw, Moves, Types, Typed
<1>5. ASSUME NEW p \in Procs, InsertTask(p)
      PROVE  TypeInv'
  <2>1. pc[p] = "insert" /\ want[p] \in Ids /\ req[p].blockers \in SUBSET Ids
    BY <1>5, <1>t, RequestOf DEF InsertTask, Local, Drawn
  <2>2. [ status |-> "open", blockedBy |-> req[p].blockers ] \in Row
    BY <2>1 DEF Row, TaskStatuses
  <2>3. PICK l \in { "draw", "edges", "commit" } : pc' = [pc EXCEPT ![p] = l]
    BY <1>5 DEF InsertTask
  <2>4. /\ Write(p, want[p], [ status |-> "open", blockedBy |-> req[p].blockers ])
        /\ ids' = [ids EXCEPT ![p] = @ \cup {want[p]}]
        /\ UNCHANGED << row, seq, req, want, todo, read, code, served, history >>
    BY <1>5 DEF InsertTask
  <2>5. lock' \in [Ids -> Procs \cup {Nil}] /\ draft' \in [Procs -> PartialTo(Row)]
    BY <2>1, <2>2, <2>4, WriteType
  <2>6. Types'
    BY <2>1, <2>3, <2>4, <2>5, <1>t DEF Types, Typed, history
  <2>. QED
    BY <2>1, <2>3, <2>4, <2>6, <1>t, AtEase, OneMoves DEF Moves, Types, Typed
<1>6. ASSUME NEW p \in Procs, pc[p] # "idle", Rollback(p), UNCHANGED seq
      PROVE  TypeInv'
  <2>1. lock' \in [Ids -> Procs \cup {Nil}] /\ draft' \in [Procs -> PartialTo(Row)]
    BY <1>6, RollbackType DEF Rollback
  <2>2. Types'
    BY <1>6, <2>1, <1>t DEF Rollback, Types, Typed, history
  <2>. QED
    BY <1>6, <2>2, <1>t, AtEase, OneMoves DEF Rollback, Moves, Types, Typed
<1>7. ASSUME NEW p \in Procs, InsertDuplicate(p) \/ Fail(p)
      PROVE  TypeInv'
  BY <1>6, <1>7 DEF InsertDuplicate, Fail
<1>8. ASSUME NEW p \in Procs, EdgesFail(p)
      PROVE  TypeInv'
  <2>1. lock' \in [Ids -> Procs \cup {Nil}] /\ draft' \in [Procs -> PartialTo(Row)]
    BY <1>8, RollbackType DEF EdgesFail
  <2>2. Types'
    BY <1>8, <2>1, <1>t DEF EdgesFail, Types, Typed, history
  <2>. QED
    BY <1>8, <2>2, <1>t, AtEase, OneMoves DEF EdgesFail, Moves, Types, Typed
<1>9. ASSUME NEW p \in Procs, InsertEdges(p) \/ CommitAborted(p) \/ DryRun(p)
      PROVE  TypeInv'
  <2>1. PICK l \in { "commit", "answer" } : pc' = [pc EXCEPT ![p] = l]
    BY <1>9 DEF InsertEdges, CommitAborted, DryRun
  <2>2. /\ pc[p] # "idle" /\ code' \in [Procs -> { "200", "dry", "422", "500", Nil }]
        /\ UNCHANGED << row, lock, seq, req, tx, served, history >>
    BY <1>9, <1>t DEF InsertEdges, CommitAborted, AbortedReply, DryRun, Types, Typed
  <2>3. Types'
    BY <2>1, <2>2, <1>t DEF Types, Typed, tx, history
  <2>. QED
    BY <2>1, <2>2, <2>3, <1>t, AtEase, OneMoves DEF Moves, tx, Types, Typed
<1>10. ASSUME NEW p \in Procs, ReadTask(p)
       PROVE  TypeInv'
  <2>1. PICK l \in { "update", "answer" } : pc' = [pc EXCEPT ![p] = l]
    BY <1>10 DEF ReadTask
  <2>2. /\ pc[p] = "read" /\ code' \in [Procs -> { "200", "dry", "422", "500", Nil }]
        /\ UNCHANGED << row, lock, seq, req, tx, served, history >>
    BY <1>10, <1>t DEF ReadTask, Types, Typed
  <2>3. Types'
    BY <2>1, <2>2, <1>t DEF Types, Typed, tx, history
  <2>4. Local(p)'
    <3>1. Serving(p) /\ pc'[p] = l
      BY <2>1, <1>t DEF Local, Types, Typed
    <3>2. Serving(p)'
      BY <2>2, <3>1 DEF Serving, ClosePcs, MergePcs
    <3>. QED
      BY <3>1, <3>2 DEF Local, Reading, Todo, Drawn
  <2>. QED
    BY <2>1, <2>2, <2>3, <2>4, <1>t, OneMoves DEF Moves, tx, Types, Typed
<1>11. ASSUME NEW p \in Procs, UpdateStatus(p)
       PROVE  TypeInv'
  <2>1. /\ pc[p] = "update" /\ req[p].kind \in CloseKinds /\ req[p].task \in Ids
        /\ row[req[p].task] # Nil
    BY <1>11, <1>t, RequestOf DEF UpdateStatus, Local, Serving, ClosePcs, CloseKinds, CreateKinds
  <2>2. [row[req[p].task] EXCEPT !.status = ClosedStatus(req[p].kind)] \in Row
    BY <2>1, RowOf DEF Row, ClosedStatus, TaskStatuses
  <2>3. PICK l \in { "scan", "commit" } :
          /\ pc' = [pc EXCEPT ![p] = l]
          /\ l = "scan" => req[p].kind = "finish"
    BY <1>11 DEF UpdateStatus
  <2>4. UNCHANGED << row, seq, req, want, ids, todo, read, code, served, history >>
    BY <1>11 DEF UpdateStatus
  <2>5. lock' \in [Ids -> Procs \cup {Nil}] /\ draft' \in [Procs -> PartialTo(Row)]
    BY <1>11, <2>1, <2>2, WriteType DEF UpdateStatus
  <2>6. Types'
    BY <2>3, <2>4, <2>5, <1>t DEF Types, Typed, history
  <2>7. Local(p)'
    <3>1. Serving(p) /\ pc'[p] = l
      BY <2>3, <1>t DEF Local, Types, Typed
    <3>2. Serving(p)'
      BY <2>1, <2>3, <2>4, <3>1 DEF Serving, ClosePcs, MergePcs, CloseKinds, CreateKinds
    <3>. QED
      BY <3>1, <3>2 DEF Local, Reading, Todo, Drawn
  <2>. QED
    BY <2>3, <2>4, <2>6, <2>7, <1>t, OneMoves DEF Moves, Types, Typed
<1>12. ASSUME NEW p \in Procs, Scan(p)
       PROVE  TypeInv'
  <2>. DEFINE open == Open \ {req[p].task}
  <2>1. /\ pc[p] = "scan" /\ todo' = [todo EXCEPT ![p] = open]
        /\ scanned' = [scanned EXCEPT ![p] = open]
        /\ UNCHANGED << row, lock, seq, req, want, ids, draft, read, code, served,
                        before, crossed, rescored, merged >>
    BY <1>12 DEF Scan
  <2>2. PICK l \in { "commit", "rescore" } :
          pc' = [pc EXCEPT ![p] = l] /\ (l = "rescore" => open # {})
    BY <1>12 DEF Scan
  <2>3. open \subseteq Ids /\ \A i \in open : row[i] # Nil
    BY DEF Open, Committed
  <2>4. Types'
    BY <2>1, <2>2, <2>3, <1>t DEF Types, Typed
  <2>5. Local(p)'
    <3>1. Serving(p) /\ pc'[p] = l /\ todo'[p] = open
      BY <2>1, <2>2, <1>t DEF Local, Types, Typed
    <3>2. Serving(p)'
      BY <2>1, <3>1 DEF Serving, ClosePcs, MergePcs
    <3>. QED
      BY <2>1, <2>2, <2>3, <3>1, <3>2 DEF Local, Reading, Todo, Drawn
  <2>. QED
    BY <2>1, <2>2, <2>4, <2>5, <1>t, OneMoves DEF Moves, Types, Typed
<1>13. ASSUME NEW p \in Procs, RescoreRow(p)
       PROVE  TypeInv'
  <2>. DEFINE i == Min(todo[p])
  <2>1. /\ pc[p] = "rescore" /\ todo[p] \subseteq Ids /\ i \in todo[p] /\ i \in Ids /\ row[i] # Nil
    <3>1. pc[p] = "rescore" /\ todo[p] \subseteq Ids /\ todo[p] # {}
      BY <1>13, <1>t DEF RescoreRow, Local, Todo, Types, Typed
    <3>2. i \in todo[p]
      BY <3>1, MinOfIds
    <3>. QED
      BY <3>1, <3>2, <1>t DEF Local, Todo
  <2>2. [row[i] EXCEPT !.blockedBy = Scrub(@, req[p].task)] \in Row
    BY <2>1, RowOf DEF Row, Scrub
  <2>3. PICK l \in { "commit", "rescore" } :
          pc' = [pc EXCEPT ![p] = l] /\ (l = "rescore" => todo[p] # {i})
    BY <1>13 DEF RescoreRow
  <2>4. /\ todo' = [todo EXCEPT ![p] = @ \ {i}]
        /\ UNCHANGED << row, seq, req, want, ids, read, code, served, history >>
    BY <1>13 DEF RescoreRow
  <2>5. lock' \in [Ids -> Procs \cup {Nil}] /\ draft' \in [Procs -> PartialTo(Row)]
    BY <1>13, <1>t, <2>1, <2>2, WriteType DEF RescoreRow, Types, Typed
  <2>6. Types'
    BY <2>1, <2>3, <2>4, <2>5, <1>t DEF Types, Typed, history
  <2>7. Local(p)'
    <3>1. Serving(p) /\ Todo(p) /\ pc'[p] = l /\ todo'[p] = todo[p] \ {i}
      BY <2>3, <2>4, <1>t DEF Local, Types, Typed
    <3>2. Serving(p)'
      BY <2>1, <2>4, <3>1 DEF Serving, ClosePcs, MergePcs
    <3>. QED
      BY <2>1, <2>3, <2>4, <3>1, <3>2 DEF Local, Reading, Todo, Drawn
  <2>. QED
    BY <2>3, <2>4, <2>6, <2>7, <1>t, OneMoves DEF Moves, Types, Typed
<1>14. ASSUME NEW p \in Procs, NEW i \in Ids, NEW l \in { "readB", "deps" },
              pc[p] = "readA" \/ pc[p] = "readB", row[i] # Nil,
              ReadMerged(p, i, l),
              l = "readB" => i = req[p].task,
              l = "deps" => i = req[p].by /\ req[p].task \in DOMAIN read[p]
       PROVE  TypeInv'
  <2>1. row[i].blockedBy \in SUBSET Ids /\ read[p] \in PartialTo(SUBSET Ids)
    BY <1>14, <1>t, RowOf DEF Types, Typed
  <2>2. UNCHANGED << row, lock, seq, req, want, ids, draft, todo, served, history >>
    BY <1>14 DEF ReadMerged
  <2>3. Serving(p)
    BY <1>t DEF Local
  <2>4. CASE row[i].status \in mergeTerminalStatuses
    <3>1. /\ pc' = [pc EXCEPT ![p] = "answer"] /\ UNCHANGED read
          /\ code' = [code EXCEPT ![p] = "422"]
      BY <1>14, <2>4 DEF ReadMerged
    <3>2. Types'
      BY <2>2, <3>1, <1>t DEF Types, Typed, history
    <3>. QED
      BY <1>14, <2>2, <3>1, <3>2, <1>t, AtEase, OneMoves DEF Moves, Types, Typed
  <2>5. CASE row[i].status \notin mergeTerminalStatuses
    <3>1. /\ pc' = [pc EXCEPT ![p] = l] /\ UNCHANGED code
          /\ read' = [read EXCEPT ![p] = With(read[p], i, row[i].blockedBy)]
      BY <1>14, <2>5 DEF ReadMerged
    <3>2. /\ With(read[p], i, row[i].blockedBy) \in PartialTo(SUBSET Ids)
          /\ DOMAIN With(read[p], i, row[i].blockedBy) = DOMAIN read[p] \cup {i}
      <4>1. \A f \in PartialTo(SUBSET Ids) : \A r \in SUBSET Ids :
              With(f, i, r) \in PartialTo(SUBSET Ids) /\ DOMAIN With(f, i, r) = DOMAIN f \cup {i}
        BY PartialAdd
      <4>. QED
        BY <2>1, <4>1
    <3>3. Types'
      BY <2>2, <3>1, <3>2, <1>t DEF Types, Typed, history
    <3>4. Local(p)'
      <4>1. pc'[p] = l /\ DOMAIN read'[p] = DOMAIN read[p] \cup {i} /\ req' = req /\ row' = row
        BY <2>2, <3>1, <3>2, <1>t DEF Types, Typed
      <4>2. Serving(p)'
        BY <1>14, <2>3, <4>1 DEF Serving, ClosePcs, MergePcs
      <4>3. Reading(p)'
        BY <1>14, <4>1 DEF Reading
      <4>. QED
        BY <4>1, <4>2, <4>3 DEF Local, Todo, Drawn
    <3>. QED
      BY <2>2, <3>1, <3>3, <3>4, <1>t, OneMoves DEF Moves, Types, Typed
  <2>. QED
    BY <2>4, <2>5
<1>m. ASSUME NEW p \in Procs, pc[p] \in MergePcs
      PROVE  /\ req[p] \in Request /\ req[p].task \in Ids /\ req[p].by \in Ids
             /\ row[req[p].task] # Nil /\ row[req[p].by] # Nil
  <2>1. pc[p] # "idle" /\ req[p].kind = "merge"
    BY <1>m, <1>t DEF Local, Serving, MergePcs
  <2>. QED
    BY <2>1, <1>t, RequestOf DEF Local, Serving, CreateKinds
<1>15. ASSUME NEW p \in Procs, ReadA(p) \/ ReadB(p)
       PROVE  TypeInv'
  <2>1. CASE ReadA(p)
    <3>1. pc[p] = "readA" /\ ReadMerged(p, req[p].task, "readB")
      BY <2>1 DEF ReadA
    <3>2. req[p].task \in Ids /\ row[req[p].task] # Nil
      BY <3>1, <1>m DEF MergePcs
    <3>. QED
      BY <3>1, <3>2, <1>14
  <2>2. CASE ReadB(p)
    <3>1. pc[p] = "readB" /\ ReadMerged(p, req[p].by, "deps")
      BY <2>2 DEF ReadB
    <3>2. req[p].by \in Ids /\ row[req[p].by] # Nil
      BY <3>1, <1>m DEF MergePcs
    <3>3. req[p].task \in DOMAIN read[p]
      BY <3>1, <1>t DEF Local, Reading
    <3>. QED
      BY <3>1, <3>2, <3>3, <1>14
  <2>. QED
    BY <1>15, <2>1, <2>2
<1>16. ASSUME NEW p \in Procs, FindDependents(p)
       PROVE  TypeInv'
  <2>. DEFINE deps == { i \in Committed \ {req[p].task, req[p].by} : req[p].by \in row[i].blockedBy }
              found == [i \in DOMAIN read[p] \cup deps |->
                          IF i \in deps THEN row[i].blockedBy ELSE read[p][i]]
  <2>1. /\ pc[p] = "deps" /\ pc' = [pc EXCEPT ![p] = "mergeA"]
        /\ todo' = [todo EXCEPT ![p] = deps]
        /\ UNCHANGED << row, lock, seq, req, want, ids, draft, code, served, history >>
    BY <1>16 DEF FindDependents
  <2>2. read' = [read EXCEPT ![p] = found]
    BY <1>16 DEF FindDependents
  <2>3. deps \subseteq Ids /\ \A i \in deps : row[i] # Nil
    BY DEF Committed
  <2>4. found \in PartialTo(SUBSET Ids) /\ DOMAIN found = DOMAIN read[p] \cup deps
    <3>1. DOMAIN read[p] \cup deps \in SUBSET Ids
      BY <2>3, DraftOf
    <3>2. found \in [DOMAIN read[p] \cup deps -> SUBSET Ids]
      BY <2>3, DraftOf, RowOf
    <3>. QED
      BY <3>1, <3>2 DEF PartialTo
  <2>. HIDE DEF found, deps
  <2>5. Types'
    BY <2>1, <2>2, <2>3, <2>4, <1>t DEF Types, Typed, history
  <2>6. Local(p)'
    <3>1. /\ pc'[p] = "mergeA" /\ todo'[p] = deps /\ req' = req /\ row' = row
          /\ DOMAIN read'[p] = DOMAIN read[p] \cup deps
      BY <2>1, <2>2, <2>4, <1>t DEF Types, Typed
    <3>2. Serving(p) /\ Reading(p)
      BY <1>t DEF Local
    <3>3. Serving(p)'
      BY <2>1, <3>1, <3>2 DEF Serving, ClosePcs, MergePcs
    <3>4. Reading(p)' /\ Todo(p)'
      BY <2>1, <2>3, <3>1, <3>2 DEF Reading, Todo
    <3>. QED
      BY <3>1, <3>3, <3>4 DEF Local, Drawn
  <2>. QED
    BY <2>1, <2>2, <2>5, <2>6, <1>t, OneMoves DEF Moves, Types, Typed
<1>17. ASSUME NEW p \in Procs, MergeA(p)
       PROVE  TypeInv'
  <2>1. pc[p] = "mergeA" /\ req[p].task \in Ids /\ row[req[p].task] # Nil
    BY <1>17, <1>m DEF MergeA, MergePcs
  <2>2. UnionForA(p) \in SUBSET Ids
    <3>1. req[p].task \in DOMAIN read[p] /\ req[p].by \in DOMAIN read[p]
      BY <2>1, <1>t DEF Local, Reading
    <3>. QED
      BY <3>1, DraftOf DEF UnionForA
  <2>3. [row[req[p].task] EXCEPT !.blockedBy = UnionForA(p)] \in Row
    BY <2>1, <2>2, RowOf DEF Row
  <2>4. PICK l \in { "mergeB", "mergeDeps" } :
          pc' = [pc EXCEPT ![p] = l] /\ (l = "mergeDeps" => todo[p] # {})
    BY <1>17 DEF MergeA
  <2>5. UNCHANGED << row, seq, req, want, ids, todo, read, code, served,
                     before, crossed, scanned, rescored >>
    BY <1>17 DEF MergeA
  <2>6. lock' \in [Ids -> Procs \cup {Nil}] /\ draft' \in [Procs -> PartialTo(Row)]
    BY <1>17, <2>1, <2>3, WriteType DEF MergeA
  <2>7. Types'
    <3>1. merged' \subseteq Ids
      BY <1>17, <2>1, <1>t DEF MergeA, Types, Typed
    <3>. QED
      BY <2>4, <2>5, <2>6, <3>1, <1>t DEF Types, Typed
  <2>8. Local(p)'
    <3>1. Serving(p) /\ Reading(p) /\ Todo(p) /\ pc'[p] = l
      BY <2>4, <1>t DEF Local, Types, Typed
    <3>2. Serving(p)'
      BY <2>1, <2>5, <3>1 DEF Serving, ClosePcs, MergePcs
    <3>3. Reading(p)' /\ Todo(p)'
      BY <2>1, <2>4, <2>5, <3>1 DEF Reading, Todo
    <3>. QED
      BY <3>1, <3>2, <3>3 DEF Local, Drawn
  <2>. QED
    BY <2>4, <2>5, <2>7, <2>8, <1>t, OneMoves DEF Moves, Types, Typed
<1>18. ASSUME NEW p \in Procs, MergeDependent(p)
       PROVE  TypeInv'
  <2>. DEFINE A == req[p].task
              B == req[p].by
  <2>1. PICK i \in todo[p] :
          /\ Write(p, i, [row[i] EXCEPT !.blockedBy = (read[p][i] \ {B}) \cup {A}])
          /\ merged' = merged \cup {i}
          /\ todo' = [todo EXCEPT ![p] = @ \ {i}]
          /\ Goto(p, IF todo[p] = {i} THEN "mergeB" ELSE "mergeDeps")
    BY <1>18 DEF MergeDependent
  <2>2. /\ pc[p] = "mergeDeps"
        /\ UNCHANGED << row, seq, req, want, ids, read, code, served,
                        before, crossed, scanned, rescored >>
    BY <1>18 DEF MergeDependent
  <2>3. /\ i \in Ids /\ row[i] # Nil /\ A \in Ids /\ B \in Ids
        /\ i \in DOMAIN read[p] /\ todo[p] \subseteq Ids
    BY <2>2, <1>t, <1>m DEF Local, Reading, Todo, Types, Typed, MergePcs
  <2>4. [row[i] EXCEPT !.blockedBy = (read[p][i] \ {B}) \cup {A}] \in Row
    <3>1. (read[p][i] \ {B}) \cup {A} \in SUBSET Ids
      BY <2>3, DraftOf
    <3>. QED
      BY <2>3, <3>1, RowOf DEF Row
  <2>5. PICK l \in { "mergeB", "mergeDeps" } :
          pc' = [pc EXCEPT ![p] = l] /\ (l = "mergeDeps" => todo[p] # {i})
    BY <2>1
  <2>6. lock' \in [Ids -> Procs \cup {Nil}] /\ draft' \in [Procs -> PartialTo(Row)]
    BY <2>1, <2>3, <2>4, WriteType
  <2>7. Types'
    <3>1. merged' \subseteq Ids /\ todo' \in [Procs -> SUBSET Ids]
      BY <2>1, <2>3, <1>t DEF Types, Typed
    <3>. QED
      BY <2>2, <2>5, <2>6, <3>1, <1>t DEF Types, Typed
  <2>8. Local(p)'
    <3>1. Serving(p) /\ Reading(p) /\ Todo(p) /\ pc'[p] = l /\ todo'[p] = todo[p] \ {i}
      BY <2>1, <2>5, <1>t DEF Local, Types, Typed
    <3>2. Serving(p)'
      BY <2>2, <3>1 DEF Serving, ClosePcs, MergePcs
    <3>3. Reading(p)' /\ Todo(p)'
      BY <2>2, <2>5, <3>1 DEF Reading, Todo
    <3>. QED
      BY <3>1, <3>2, <3>3 DEF Local, Drawn
  <2>. QED
    BY <2>1, <2>2, <2>5, <2>7, <2>8, <1>t, OneMoves DEF Moves, Types, Typed
<1>19. ASSUME NEW p \in Procs, MergeB(p)
       PROVE  TypeInv'
  <2>1. pc[p] = "mergeB" /\ req[p].by \in Ids /\ row[req[p].by] # Nil
    BY <1>19, <1>m DEF MergeB, MergePcs
  <2>2. [row[req[p].by] EXCEPT !.status = "SUPERSEDED"] \in Row
    BY <2>1, RowOf DEF Row, TaskStatuses
  <2>3. lock' \in [Ids -> Procs \cup {Nil}] /\ draft' \in [Procs -> PartialTo(Row)]
    BY <1>19, <2>1, <2>2, WriteType DEF MergeB
  <2>4. Types'
    BY <1>19, <2>3, <1>t DEF MergeB, Types, Typed, history
  <2>. QED
    BY <1>19, <2>1, <2>4, <1>t, AtEase, OneMoves DEF MergeB, Moves, Types, Typed
<1>20. ASSUME NEW p \in Procs, Commit(p) \/ CommitUnacked(p)
       PROVE  TypeInv'
  <2>1. PICK c \in { "200", "500" } : CommitAs(p, c)
    BY <1>20 DEF Commit, CommitUnacked
  <2>2. /\ pc[p] = "commit" /\ Persist(p)
        /\ pc' = [pc EXCEPT ![p] = "answer"] /\ code' = [code EXCEPT ![p] = c]
        /\ UNCHANGED << seq, req, want, ids, todo, read, served, before, crossed, scanned, merged >>
    BY <2>1 DEF CommitAs
  <2>3. /\ row' \in [Ids -> Row \cup {Nil}]
        /\ \A i \in Ids : row[i] # Nil => row'[i] # Nil
        /\ lock' \in [Ids -> Procs \cup {Nil}]
        /\ draft' \in [Procs -> PartialTo(Row)]
    BY <2>2, PersistType
  <2>4. rescored' \in [Ids -> SUBSET Ids]
    <3>1. req[p].task \in Ids /\ scanned[p] \in SUBSET Ids
      BY <2>2, <1>t, RequestOf DEF Types, Typed
    <3>. QED
      BY <2>2, <3>1, <1>t DEF Persist, Types, Typed
  <2>5. Types'
    BY <2>2, <2>3, <2>4, <1>t DEF Types, Typed
  <2>. QED
    BY <2>2, <2>3, <2>5, <1>t, AtEase, OneMoves DEF Moves, Types, Typed
<1>21. ASSUME NEW p \in Procs, Answer(p)
       PROVE  TypeInv'
  <2>1. pc[p] = "answer" /\ pc' = [pc EXCEPT ![p] = "idle"] /\ row' = row
    BY <1>21 DEF Answer
  <2>2. read' \in [Procs -> PartialTo(SUBSET Ids)]
    <3>1. << >> \in PartialTo(SUBSET Ids)
      BY PartialEmpty
    <3>. QED
      BY <1>21, <1>t, <3>1 DEF Answer, Types, Typed
  <2>3. Types'
    <3>1. want' \in [Procs -> 0 .. MaxId]
      BY <1>0, <1>21, <1>t DEF Answer, Types, Typed
    <3>2. /\ pc' \in [Procs -> { "idle", "guard", "setval", "draw", "insert", "edges",
                        "aborted", "read", "update", "scan", "rescore", "readA",
                        "readB", "deps", "mergeA", "mergeDeps", "mergeB",
                        "commit", "answer" }]
          /\ req' \in [Procs -> Request \cup {Nil}] /\ ids' \in [Procs -> SUBSET Ids]
          /\ todo' \in [Procs -> SUBSET Ids] /\ before' \in [Procs -> SUBSET Ids]
          /\ crossed' \in [Procs -> BOOLEAN] /\ scanned' \in [Procs -> SUBSET Ids]
          /\ code' \in [Procs -> { "200", "dry", "422", "500", Nil }]
      BY <1>21, <1>t DEF Answer, Types, Typed
    <3>. QED
      BY <1>21, <2>2, <3>1, <3>2, <1>t DEF Answer, Types, Typed
  <2>. QED
    BY <1>21, <2>1, <2>3, <1>t, AtEase, OneMoves DEF Answer, Moves, Types, Typed
<1>22. ASSUME PythonInsert
       PROVE  TypeInv'
  <2>. DEFINE i == IF Committed = {} THEN 1 ELSE Max(Committed) + 1
  <2>1. /\ i \in Ids
        /\ row' = [row EXCEPT ![i] = [ status |-> "open", blockedBy |-> {} ]]
        /\ UNCHANGED << lock, seq, pc, req, tx, code, served, history >>
    BY <1>22 DEF PythonInsert
  <2>2. [ status |-> "open", blockedBy |-> {} ] \in Row
    BY DEF Row, TaskStatuses
  <2>. HIDE DEF i
  <2>3. Types'
    BY <2>1, <2>2, <1>t DEF Types, Typed, tx, history
  <2>4. \A j \in Ids : row[j] # Nil => row'[j] # Nil
    BY <2>1, <2>2, <1>t, GraphAssumption DEF Types, Typed
  <2>5. ASSUME NEW p \in Procs
        PROVE  Local(p)'
    BY <2>1, <2>4, OthersKeepTheirs DEF tx
  <2>. QED
    BY <2>3, <2>5 DEF TypeInv
<1>23. ASSUME UNCHANGED vars
       PROVE  TypeInv'
  <2>1. Types'
    BY <1>23, <1>t DEF vars, Types, Typed, tx, history
  <2>2. ASSUME NEW p \in Procs
        PROVE  Local(p)'
    BY <1>23, OthersKeepTheirs DEF vars, tx
  <2>. QED
    BY <2>1, <2>2 DEF TypeInv
<1>. QED
  BY <1>1, <1>2, <1>3, <1>4, <1>5, <1>7, <1>8, <1>9, <1>10, <1>11, <1>12, <1>13, <1>15,
     <1>16, <1>17, <1>18, <1>19, <1>20, <1>21, <1>22, <1>23 DEF Next, Quiescent

\* Every variable has its type, and what a request relies on stays there: the
\* tasks it names, the rows it is going to write, the lists it has read.
THEOREM TypeCorrect == Spec => []TypeOK
<1>1. Spec => []TypeInv
  BY TypeInit, TypeStep, PTL DEF Spec
<1>2. TypeInv => TypeOK
  BY DEF TypeInv, Types, TypeOK, PartialTo
<1>. QED
  BY <1>1, <1>2, PTL

-----------------------------------------------------------------------------
(* The serial guard.  While no other guard has set the sequence since its    *)
(* own did, everything a goroutine saw when it read MAX(id) is behind the    *)
(* sequence, and behind the id it has drawn.                                 *)

BehindAt(p) ==
  pc[p] \in { "draw", "insert" } /\ ~crossed[p] =>
    \A i \in before[p] : i <= seq /\ (pc[p] = "insert" => i < want[p])

Behind == \A p \in Procs : BehindAt(p)

\* The steps that leave the sequence alone and bring nobody to draw or insert.
LEMMA BehindKept ==
  ASSUME TypeInv, Behind, NEW p \in Procs, seq' = seq,
         pc'[p] \in { "draw", "insert" } =>
           /\ pc[p] \in { "draw", "insert" } /\ (pc'[p] = "insert" => pc[p] = "insert")
           /\ before'[p] = before[p] /\ crossed'[p] = crossed[p] /\ want'[p] = want[p]
  PROVE  BehindAt(p)'
BY DEF Behind, BehindAt

LEMMA BehindStep == TypeInv /\ Behind /\ [Next]_vars => Behind'
<1>. SUFFICES ASSUME TypeInv, Behind, [Next]_vars
              PROVE  Behind'
  OBVIOUS
<1>. USE DEF Goto, Reply
<1>t. Types /\ MaxId \in Nat
  BY GraphAssumption DEF TypeInv
<1>1. ASSUME NEW p \in Procs, GuardSet(p)
      PROVE  Behind'
  <2>1. /\ pc' = [pc EXCEPT ![p] = "draw"] /\ before' = before
        /\ crossed' = [q \in Procs |-> q # p] /\ seq' = GuardedSeq(p)
    BY <1>1 DEF GuardSet
  <2>2. ASSUME NEW q \in Procs, ~crossed'[q]
        PROVE  BehindAt(q)'
    <3>1. q = p /\ pc'[q] = "draw"
      BY <2>1, <2>2, <1>t DEF Types, Typed
    <3>2. before[p] # {} => \A i \in before[p] : i <= Max(before[p])
      BY <1>t, MaxOfIds DEF Types, Typed
    <3>3. \A i \in before[p] : i <= seq'
      BY <2>1, <3>2 DEF GuardedSeq
    <3>. QED
      BY <2>1, <3>1, <3>3 DEF BehindAt
  <2>. QED
    BY <2>2 DEF Behind, BehindAt
<1>2. ASSUME NEW p \in Procs, Draw(p)
      PROVE  Behind'
  <2>1. /\ pc[p] = "draw" /\ pc' = [pc EXCEPT ![p] = "insert"] /\ seq' = seq + 1
        /\ want' = [want EXCEPT ![p] = seq + 1] /\ before' = before /\ crossed' = crossed
    BY <1>2 DEF Draw, history
  <2>2. ASSUME NEW q \in Procs
        PROVE  BehindAt(q)'
    <3>1. \A i \in before[q] : i \in Nat
      BY <1>t DEF Types, Typed, Ids
    <3>2. seq \in Nat
      BY <1>t DEF Types, Typed
    <3>3. BehindAt(q)
      BY DEF Behind
    <3>4. CASE q = p
      <4>1. pc'[q] = "insert" /\ want'[q] = seq + 1
        BY <2>1, <3>4, <1>t DEF Types, Typed
      <4>. QED
        BY <2>1, <3>1, <3>2, <3>3, <3>4, <4>1 DEF BehindAt
    <3>5. CASE q # p
      <4>1. pc'[q] = pc[q] /\ want'[q] = want[q]
        BY <2>1, <3>5, <1>t DEF Types, Typed
      <4>. QED
        BY <2>1, <3>1, <3>2, <3>3, <4>1 DEF BehindAt
    <3>. QED
      BY <3>4, <3>5
  <2>. QED
    BY <2>2 DEF Behind
<1>3. ASSUME NEW p \in Procs, GuardRead(p)
      PROVE  Behind'
  BY <1>3, <1>t, BehindKept DEF GuardRead, tx, Behind, Types, Typed
<1>4. ASSUME NEW p \in Procs, InsertTask(p)
      PROVE  Behind'
  <2>1. PICK l \in { "draw", "edges", "commit" } : pc' = [pc EXCEPT ![p] = l]
    BY <1>4 DEF InsertTask
  <2>2. pc[p] = "insert" /\ UNCHANGED << seq, want, history >>
    BY <1>4 DEF InsertTask
  <2>. QED
    BY <2>1, <2>2, <1>t, BehindKept DEF history, Behind, Types, Typed
<1>5. ASSUME NEW p \in Procs, NEW l \in { "commit", "aborted", "answer", "update", "scan",
                "rescore", "readB", "deps", "mergeA", "mergeDeps", "mergeB" },
             pc' = [pc EXCEPT ![p] = l], UNCHANGED << seq, want, before, crossed >>
      PROVE  Behind'
  BY <1>5, <1>t, BehindKept DEF Behind, Types, Typed
<1>6. ASSUME NEW p \in Procs, Receive(p)
      PROVE  Behind'
  <2>1. PICK l \in { "guard", "readA", "read" } : pc' = [pc EXCEPT ![p] = l]
    BY <1>6 DEF Receive
  <2>. QED
    BY <1>6, <2>1, <1>t, BehindKept DEF Receive, tx, history, Behind, Types, Typed
<1>7. ASSUME NEW p \in Procs, InsertDuplicate(p) \/ Fail(p)
      PROVE  Behind'
  <2>1. Rollback(p) /\ UNCHANGED seq
    BY <1>7 DEF InsertDuplicate, Fail
  <2>. QED
    BY <1>5, <2>1 DEF Rollback, history
<1>8. ASSUME NEW p \in Procs, EdgesFail(p) \/ InsertEdges(p) \/ CommitAborted(p) \/ DryRun(p)
      PROVE  Behind'
  <2>1. CASE EdgesFail(p)
    BY <1>5, <2>1 DEF EdgesFail, history
  <2>2. CASE InsertEdges(p)
    BY <1>5, <2>2 DEF InsertEdges, tx, history
  <2>3. CASE CommitAborted(p)
    BY <1>5, <2>3 DEF CommitAborted, tx, history
  <2>4. CASE DryRun(p)
    BY <1>5, <2>4 DEF DryRun, tx, history
  <2>. QED
    BY <1>8, <2>1, <2>2, <2>3, <2>4
<1>9. ASSUME NEW p \in Procs, ReadTask(p) \/ UpdateStatus(p) \/ Scan(p) \/ RescoreRow(p)
      PROVE  Behind'
  <2>1. PICK l \in { "update", "answer", "scan", "commit", "rescore" } : pc' = [pc EXCEPT ![p] = l]
    BY <1>9 DEF ReadTask, UpdateStatus, Scan, RescoreRow
  <2>2. UNCHANGED << seq, want, before, crossed >>
    BY <1>9 DEF ReadTask, UpdateStatus, Scan, RescoreRow, tx, history
  <2>. QED
    BY <1>5, <2>1, <2>2
<1>10. ASSUME NEW p \in Procs, ReadA(p) \/ ReadB(p) \/ FindDependents(p)
       PROVE  Behind'
  <2>1. PICK l \in { "answer", "readB", "deps", "mergeA" } : pc' = [pc EXCEPT ![p] = l]
    BY <1>10 DEF ReadA, ReadB, ReadMerged, FindDependents
  <2>2. UNCHANGED << seq, want, before, crossed >>
    BY <1>10 DEF ReadA, ReadB, ReadMerged, FindDependents, history
  <2>. QED
    BY <1>5, <2>1, <2>2
<1>11. ASSUME NEW p \in Procs, MergeA(p) \/ MergeDependent(p) \/ MergeB(p)
       PROVE  Behind'
  <2>1. PICK l \in { "mergeB", "mergeDeps", "commit" } : pc' = [pc EXCEPT ![p] = l]
    BY <1>11 DEF MergeA, MergeDependent, MergeB
  <2>2. UNCHANGED << seq, want, before, crossed >>
    BY <1>11 DEF MergeA, MergeDependent, MergeB, history
  <2>. QED
    BY <1>5, <2>1, <2>2
<1>12. ASSUME NEW p \in Procs, Commit(p) \/ CommitUnacked(p)
       PROVE  Behind'
  BY <1>5, <1>12 DEF Commit, CommitUnacked, CommitAs
<1>13. ASSUME NEW p \in Procs, Answer(p)
       PROVE  Behind'
  <2>1. /\ pc' = [pc EXCEPT ![p] = "idle"] /\ seq' = seq
        /\ want' = [want EXCEPT ![p] = 0] /\ before' = [before EXCEPT ![p] = {}]
        /\ crossed' = [crossed EXCEPT ![p] = FALSE]
    BY <1>13 DEF Answer
  <2>. QED
    BY <2>1, <1>t, BehindKept DEF Behind, Types, Typed
<1>14. ASSUME PythonInsert \/ UNCHANGED vars
       PROVE  Behind'
  BY <1>14, BehindKept DEF PythonInsert, vars, tx, history, Behind
<1>. QED
  BY <1>1, <1>2, <1>3, <1>4, <1>6, <1>7, <1>8, <1>9, <1>10, <1>11, <1>12, <1>13, <1>14
     DEF Next, Quiescent

\* An id that was there when the serial guard read MAX(id) is drawn only by a
\* request that another guard has overtaken: a lone create never collides with
\* what Python has inserted.
THEOREM NoLoneCollision == Spec => CollisionNeedsOverlap
<1>. DEFINE Overlap == \A p \in Procs : InsertDuplicate(p) => want[p] \notin before[p] \/ crossed[p]
<1>1. Init => Behind
  BY DEF Init, Behind, BehindAt
<1>2. Spec => [](TypeInv /\ Behind)
  BY <1>1, TypeInit, TypeStep, BehindStep, PTL DEF Spec
<1>3. TypeInv /\ Behind => Overlap
  <2>. SUFFICES ASSUME TypeInv, Behind, NEW p \in Procs, InsertDuplicate(p), ~crossed[p],
                       want[p] \in before[p]
                PROVE  FALSE
    OBVIOUS
  <2>1. pc[p] = "insert" /\ crossed[p] \in BOOLEAN /\ want[p] \in Nat
    BY GraphAssumption DEF InsertDuplicate, TypeInv, Types, Typed
  <2>2. want[p] < want[p]
    BY <2>1 DEF Behind, BehindAt
  <2>. QED
    BY <2>1, <2>2
<1>4. TypeInv /\ Behind /\ [Next]_vars => [Overlap]_vars
  BY <1>3
<1>5. Spec => [][Overlap]_vars
  BY <1>2, <1>4, PTL DEF Spec
<1>. QED
  BY <1>5 DEF CollisionNeedsOverlap

-----------------------------------------------------------------------------
(* Rescoring.  A transaction that has written a row holds its lock until it   *)
(* ends, so what it wrote still is what was committed but for its own change; *)
(* a scan has scrubbed, or found closed, every row it no longer has to do.    *)

Locked == \A p \in Procs : \A i \in DOMAIN draft[p] : lock[i] = p

\* Apart from merges, a transaction only shortens lists and never reopens.
Narrower ==
  \A p \in Procs : \A i \in DOMAIN draft[p] :
    i \notin merged /\ row[i] # Nil =>
      /\ draft[p][i].blockedBy \subseteq row[i].blockedBy
      /\ draft[p][i].status = "open" => row[i].status = "open"

Scrubbed ==
  \A b \in Ids :
    /\ rescored[b] \subseteq Committed
    /\ \A i \in Open : i \in rescored[b] /\ i \notin merged => b \notin row[i].blockedBy

Settled(p, i) ==
  \/ row[i].status # "open"
  \/ i \in merged
  \/ i \in DOMAIN draft[p] /\ req[p].task \notin draft[p][i].blockedBy

CreatePcs == { "guard", "setval", "draw", "insert", "edges", "aborted" }

ScannedAt(p) ==
  /\ scanned[p] \subseteq Committed
  /\ pc[p] \in { "rescore", "commit" } /\ req[p].kind = "finish" =>
       \A i \in scanned[p] \ todo[p] : Settled(p, i)
  /\ pc[p] = "commit" /\ req[p].kind = "finish" => todo[p] = {}
  /\ pc[p] \in CreatePcs => req[p].kind \in CreateKinds

Shared == Locked /\ Narrower /\ Scrubbed

CascadeInv == Shared /\ \A p \in Procs : ScannedAt(p)

\* A row that is there stays there, and closed unless a merge has its hand in it.
Stays == \A i \in Ids : row[i] # Nil =>
           /\ row'[i] # Nil
           /\ row[i].status # "open" => row'[i].status # "open" \/ i \in merged

LEMMA OthersStaySettled ==
  ASSUME TypeInv, CascadeInv, NEW q \in Procs, Stays, merged \subseteq merged',
         pc'[q] = pc[q], req'[q] = req[q], todo'[q] = todo[q],
         scanned'[q] = scanned[q], draft'[q] = draft[q]
  PROVE  ScannedAt(q)'
<1>1. ScannedAt(q) /\ scanned[q] \subseteq Ids
  BY DEF CascadeInv, TypeInv, Types, Typed
<1>2. \A i \in scanned[q] : row[i] # Nil
  BY <1>1 DEF ScannedAt, Committed
<1>3. \A i \in scanned[q] : Settled(q, i) => Settled(q, i)'
  BY <1>1, <1>2 DEF Settled, Stays
<1>4. scanned'[q] \subseteq Committed'
  BY <1>1, <1>2 DEF Stays, Committed
<1>. QED
  BY <1>1, <1>3, <1>4 DEF ScannedAt

\* The others' part of a step of p.
Others(p) == \A q \in Procs \ {p} :
  /\ pc'[q] = pc[q] /\ req'[q] = req[q] /\ todo'[q] = todo[q]
  /\ scanned'[q] = scanned[q] /\ draft'[q] = draft[q]

LEMMA OneSettles ==
  ASSUME TypeInv, CascadeInv, NEW p \in Procs, Others(p), Stays, merged \subseteq merged',
         Shared', ScannedAt(p)'
  PROVE  CascadeInv'
<1>1. ASSUME NEW q \in Procs \ {p}
      PROVE  ScannedAt(q)'
  BY OthersStaySettled DEF Others
<1>. QED
  BY <1>1 DEF CascadeInv

\* Steps that touch neither the table nor a transaction's rows.
LEMMA QuietStep ==
  ASSUME TypeInv, CascadeInv, UNCHANGED << row, lock, draft, rescored, merged >>
  PROVE  Shared' /\ Stays
<1>1. Locked' /\ Narrower'
  BY DEF CascadeInv, Shared, Locked, Narrower
<1>2. Scrubbed'
  BY DEF CascadeInv, Shared, Scrubbed, Committed, Open
<1>. QED
  BY <1>1, <1>2 DEF Shared, Stays

\* One more row written, by a transaction that found it unlocked.
LEMMA WriteStep ==
  ASSUME TypeInv, CascadeInv, NEW p \in Procs, NEW i \in Ids, NEW r \in Row,
         Write(p, i, r), lock[i] = Nil, UNCHANGED << row, rescored >>, merged \subseteq merged',
         row[i] # Nil /\ i \notin merged' =>
           /\ r.blockedBy \subseteq row[i].blockedBy
           /\ r.status = "open" => row[i].status = "open"
  PROVE  Shared' /\ Stays /\ draft'[p] = With(draft[p], i, r)
<1>1. /\ lock' = [lock EXCEPT ![i] = p]
      /\ draft' = [draft EXCEPT ![p] = With(draft[p], i, r)]
      /\ lock \in [Ids -> Procs \cup {Nil}] /\ draft \in [Procs -> PartialTo(Row)]
  BY DEF Write, TypeInv, Types, Typed
<1>2. /\ DOMAIN With(draft[p], i, r) = DOMAIN draft[p] \cup {i}
      /\ With(draft[p], i, r)[i] = r
      /\ \A j \in DOMAIN draft[p] : j # i => With(draft[p], i, r)[j] = draft[p][j]
  <2>1. draft[p] \in PartialTo(Row)
    BY <1>1
  <2>2. \A f \in PartialTo(Row) :
          /\ DOMAIN With(f, i, r) = DOMAIN f \cup {i}
          /\ With(f, i, r)[i] = r
          /\ \A j \in DOMAIN f : j # i => With(f, i, r)[j] = f[j]
    BY PartialAdd
  <2>. QED
    BY <2>1, <2>2
<1>3. \A q \in Procs : DOMAIN draft[q] \subseteq Ids /\ i \notin DOMAIN draft[q]
  <2>1. Nil \notin Procs
    BY GraphAssumption
  <2>. QED
    BY <2>1, DraftOf DEF CascadeInv, Shared, Locked
<1>4. Locked'
  <2>1. ASSUME NEW q \in Procs, NEW j \in DOMAIN draft'[q]
        PROVE  lock'[j] = q
    <3>1. CASE q = p /\ j = i
      BY <1>1, <3>1
    <3>2. CASE q # p \/ j # i
      <4>1. j \in DOMAIN draft[q] /\ j # i
        BY <1>1, <1>2, <1>3, <2>1, <3>2
      <4>. QED
        BY <1>1, <1>3, <4>1 DEF CascadeInv, Shared, Locked
    <3>. QED
      BY <3>1, <3>2
  <2>. QED
    BY <2>1 DEF Locked
<1>5. Narrower'
  <2>1. ASSUME NEW q \in Procs, NEW j \in DOMAIN draft'[q], j \notin merged', row[j] # Nil
        PROVE  /\ draft'[q][j].blockedBy \subseteq row[j].blockedBy
               /\ draft'[q][j].status = "open" => row[j].status = "open"
    <3>1. CASE q = p /\ j = i
      BY <1>1, <1>2, <2>1, <3>1
    <3>2. CASE q # p \/ j # i
      <4>1. j \in DOMAIN draft[q] /\ j # i /\ draft'[q][j] = draft[q][j]
        BY <1>1, <1>2, <1>3, <2>1, <3>2
      <4>. QED
        BY <2>1, <4>1 DEF CascadeInv, Shared, Narrower
    <3>. QED
      BY <3>1, <3>2
  <2>. QED
    BY <2>1 DEF Narrower
<1>6. Scrubbed'
  BY DEF CascadeInv, Shared, Scrubbed, Committed, Open
<1>. QED
  BY <1>1, <1>4, <1>5, <1>6 DEF Shared, Stays

\* A transaction that ends without a trace.
LEMMA RollbackStep ==
  ASSUME TypeInv, CascadeInv, NEW p \in Procs, ReleaseLocks(p),
         draft' = [draft EXCEPT ![p] = << >>], UNCHANGED << row, rescored, merged >>
  PROVE  Shared' /\ Stays
<1>1. draft \in [Procs -> PartialTo(Row)]
  BY DEF TypeInv, Types, Typed
<1>2. \A q \in Procs : \A j \in DOMAIN draft'[q] : q # p /\ draft'[q] = draft[q]
  BY <1>1
<1>3. \A q \in Procs : DOMAIN draft[q] \subseteq Ids
  BY DraftOf
<1>4. Locked'
  BY <1>2, <1>3 DEF CascadeInv, Shared, Locked, ReleaseLocks
<1>5. Narrower'
  BY <1>2 DEF CascadeInv, Shared, Narrower
<1>6. Scrubbed'
  BY DEF CascadeInv, Shared, Scrubbed, Committed, Open
<1>. QED
  BY <1>4, <1>5, <1>6 DEF Shared, Stays

\* COMMIT: what was written was written under lock, from the row it replaces.
LEMMA CommitStep ==
  ASSUME TypeInv, CascadeInv, NEW p \in Procs, pc[p] = "commit", Persist(p),
         UNCHANGED merged
  PROVE  Shared' /\ Stays
<1>1. /\ \A i \in Ids : row'[i] = IF i \in DOMAIN draft[p] THEN draft[p][i] ELSE row[i]
      /\ draft' = [draft EXCEPT ![p] = << >>] /\ ReleaseLocks(p)
      /\ draft \in [Procs -> PartialTo(Row)]
  BY DEF Persist, TypeInv, Types, Typed
<1>2. \A q \in Procs : \A j \in DOMAIN draft'[q] : q # p /\ draft'[q] = draft[q]
  BY <1>1
<1>3. \A q \in Procs : DOMAIN draft[q] \subseteq Ids
  BY DraftOf
<1>4. \A i \in DOMAIN draft[p] : draft[p][i] # Nil
  BY DraftOf, GraphAssumption
<1>5. Stays
  BY <1>1, <1>4 DEF Stays, CascadeInv, Shared, Narrower
<1>6. Locked'
  BY <1>1, <1>2, <1>3 DEF CascadeInv, Shared, Locked, ReleaseLocks
<1>7. Narrower'
  <2>1. ASSUME NEW q \in Procs, NEW j \in DOMAIN draft'[q]
        PROVE  row'[j] = row[j] /\ j \in DOMAIN draft[q] /\ draft'[q] = draft[q]
    <3>1. q # p /\ draft'[q] = draft[q] /\ j \in DOMAIN draft[q] /\ j \in Ids
      BY <1>2, <1>3, <2>1
    <3>2. j \notin DOMAIN draft[p]
      BY <3>1 DEF CascadeInv, Shared, Locked
    <3>. QED
      BY <1>1, <3>1, <3>2
  <2>. QED
    BY <2>1 DEF CascadeInv, Shared, Narrower
<1>8. Scrubbed'
  <2>1. /\ ScannedAt(p) /\ req[p].task \in Ids
        /\ rescored' = IF req[p].kind = "finish"
                         THEN [rescored EXCEPT ![req[p].task] = @ \cup scanned[p]]
                         ELSE rescored
        /\ rescored \in [Ids -> SUBSET Ids]
    BY RequestOf DEF CascadeInv, Persist, TypeInv, Types, Typed
  <2>2. Committed \subseteq Committed'
    BY <1>5 DEF Stays, Committed
  <2>3. ASSUME NEW b \in Ids, NEW i \in rescored'[b]
        PROVE  \/ i \in rescored[b]
               \/ /\ req[p].kind = "finish" /\ b = req[p].task
                  /\ i \in scanned[p] /\ Settled(p, i)
    <3>1. CASE req[p].kind = "finish" /\ b = req[p].task /\ i \notin rescored[b]
      <4>1. i \in scanned[p] /\ todo[p] = {}
        BY <2>1, <2>3, <3>1 DEF ScannedAt
      <4>. QED
        BY <2>1, <3>1, <4>1 DEF ScannedAt
    <3>2. CASE ~(req[p].kind = "finish" /\ b = req[p].task)
      BY <2>1, <2>3, <3>2
    <3>. QED
      BY <3>1, <3>2
  <2>4. \A b \in Ids : rescored[b] \subseteq Committed /\ scanned[p] \subseteq Committed
    BY <2>1 DEF CascadeInv, Shared, Scrubbed, ScannedAt
  <2>5. \A b \in Ids : rescored'[b] \subseteq Committed'
    BY <2>2, <2>3, <2>4
  <2>6. ASSUME NEW b \in Ids, NEW i \in Open', i \in rescored'[b], i \notin merged
        PROVE  b \notin row'[i].blockedBy
    <3>1. i \in Ids /\ i \in Committed /\ row[i] # Nil /\ row'[i].status = "open"
      BY <2>3, <2>4, <2>6 DEF Open, Committed
    <3>2. /\ row[i].status = "open"
          /\ i \in DOMAIN draft[p] => draft[p][i].blockedBy \subseteq row[i].blockedBy
      BY <1>1, <2>6, <3>1 DEF CascadeInv, Shared, Narrower
    <3>3. row'[i].blockedBy \subseteq row[i].blockedBy
      BY <1>1, <3>1, <3>2
    <3>4. CASE i \in rescored[b]
      BY <2>6, <3>1, <3>2, <3>3, <3>4 DEF CascadeInv, Shared, Scrubbed, Open
    <3>5. CASE b = req[p].task /\ Settled(p, i)
      <4>1. i \in DOMAIN draft[p] /\ b \notin draft[p][i].blockedBy
        BY <2>6, <3>2, <3>5 DEF Settled
      <4>. QED
        BY <1>1, <3>1, <4>1
    <3>. QED
      BY <2>3, <2>6, <3>4, <3>5
  <2>. QED
    BY <2>5, <2>6 DEF Scrubbed
<1>. QED
  BY <1>5, <1>6, <1>7, <1>8 DEF Shared

LEMMA CascadeStep == TypeInv /\ CascadeInv /\ [Next]_vars => CascadeInv'
<1>. SUFFICES ASSUME TypeInv, CascadeInv, [Next]_vars
              PROVE  CascadeInv'
  OBVIOUS
<1>. USE DEF Goto, Reply
<1>t. Types /\ \A p \in Procs : ScannedAt(p)
  BY DEF TypeInv, CascadeInv
<1>1. ASSUME NEW p \in Procs, Others(p), ScannedAt(p)',
             UNCHANGED << row, lock, draft, rescored, merged >>
      PROVE  CascadeInv'
  BY <1>1, QuietStep, OneSettles
<1>2. ASSUME NEW p \in Procs, Receive(p)
      PROVE  CascadeInv'
  <2>1. PICK r \in Sent : /\ req' = [req EXCEPT ![p] = r]
                          /\ Goto(p, IF r.kind \in CreateKinds THEN "guard"
                                     ELSE IF r.kind = "merge" THEN "readA" ELSE "read")
    BY <1>2 DEF Receive
  <2>2. UNCHANGED << row, lock, seq, tx, code, history >>
    BY <1>2 DEF Receive
  <2>3. ScannedAt(p)'
    <3>1. /\ req'[p] = r /\ scanned'[p] = scanned[p] /\ row' = row
          /\ pc'[p] = IF r.kind \in CreateKinds THEN "guard"
                      ELSE IF r.kind = "merge" THEN "readA" ELSE "read"
      BY <2>1, <2>2, <1>t DEF history, Types, Typed
    <3>2. scanned[p] \subseteq Committed /\ Committed' = Committed
      BY <3>1, <1>t DEF ScannedAt, Committed
    <3>. QED
      BY <3>1, <3>2 DEF ScannedAt, CreatePcs
  <2>. QED
    BY <2>1, <2>2, <2>3, <1>1, <1>t DEF Others, tx, history, Types, Typed
<1>3. ASSUME NEW p \in Procs, NEW l, pc' = [pc EXCEPT ![p] = l],
             pc[p] # "idle", l # "rescore",
             l \in CreatePcs => pc[p] \in CreatePcs,
             l = "commit" => req[p].kind # "finish",
             UNCHANGED << row, lock, req, draft, scanned, rescored, merged >>,
             \A q \in Procs \ {p} : todo'[q] = todo[q]
      PROVE  CascadeInv'
  <2>1. pc'[p] = l /\ \A q \in Procs \ {p} : pc'[q] = pc[q]
    BY <1>3, <1>t DEF Types, Typed
  <2>2. scanned[p] \subseteq Committed /\ Committed' = Committed
    BY <1>3, <1>t DEF ScannedAt, Committed
  <2>3. ScannedAt(p)'
    BY <1>3, <2>1, <2>2, <1>t DEF ScannedAt
  <2>. QED
    BY <1>3, <2>1, <2>3, <1>1 DEF Others
<1>4. ASSUME NEW p \in Procs, GuardRead(p) \/ GuardSet(p) \/ Draw(p)
      PROVE  CascadeInv'
  <2>1. PICK l \in { "setval", "draw", "insert" } : pc' = [pc EXCEPT ![p] = l]
    BY <1>4 DEF GuardRead, GuardSet, Draw
  <2>2. /\ pc[p] \in { "guard", "setval", "draw" }
        /\ UNCHANGED << row, lock, req, draft, todo, scanned, rescored, merged >>
    BY <1>4 DEF GuardRead, GuardSet, Draw, tx, history
  <2>. QED
    BY <2>1, <2>2, <1>3 DEF CreatePcs
<1>5. ASSUME NEW p \in Procs, InsertEdges(p) \/ CommitAborted(p) \/ DryRun(p)
      PROVE  CascadeInv'
  <2>1. PICK l \in { "commit", "answer" } :
          pc' = [pc EXCEPT ![p] = l] /\ (l = "commit" => pc[p] = "edges")
    BY <1>5 DEF InsertEdges, CommitAborted, DryRun
  <2>2. /\ pc[p] \in { "edges", "aborted", "mergeA" }
        /\ UNCHANGED << row, lock, req, draft, todo, scanned, rescored, merged >>
    BY <1>5 DEF InsertEdges, CommitAborted, DryRun, tx, history
  <2>3. l = "commit" => req[p].kind # "finish"
    BY <2>1, <1>t DEF ScannedAt, CreatePcs, CreateKinds
  <2>. QED
    BY <2>1, <2>2, <2>3, <1>3 DEF CreatePcs
<1>6. ASSUME NEW p \in Procs, ReadTask(p) \/ ReadA(p) \/ ReadB(p) \/ FindDependents(p)
      PROVE  CascadeInv'
  <2>1. PICK l \in { "update", "answer", "readB", "deps", "mergeA" } : pc' = [pc EXCEPT ![p] = l]
    BY <1>6 DEF ReadTask, ReadA, ReadB, ReadMerged, FindDependents
  <2>2. /\ pc[p] \in { "read", "readA", "readB", "deps" }
        /\ UNCHANGED << row, lock, req, draft, scanned, rescored, merged >>
    BY <1>6 DEF ReadTask, ReadA, ReadB, ReadMerged, FindDependents, tx, history
  <2>3. \A q \in Procs \ {p} : todo'[q] = todo[q]
    BY <1>6, <1>t DEF ReadTask, ReadA, ReadB, ReadMerged, FindDependents, tx, Types, Typed
  <2>. QED
    BY <2>1, <2>2, <2>3, <1>3 DEF CreatePcs
<1>7. ASSUME NEW p \in Procs, Scan(p)
      PROVE  CascadeInv'
  <2>. DEFINE open == Open \ {req[p].task}
  <2>1. /\ todo' = [todo EXCEPT ![p] = open] /\ scanned' = [scanned EXCEPT ![p] = open]
        /\ UNCHANGED << row, lock, req, draft, rescored, merged >>
    BY <1>7 DEF Scan
  <2>2. PICK l \in { "commit", "rescore" } :
          pc' = [pc EXCEPT ![p] = l] /\ (l = "commit" => open = {})
    BY <1>7 DEF Scan
  <2>3. ScannedAt(p)'
    <3>1. pc'[p] = l /\ todo'[p] = open /\ scanned'[p] = open /\ Committed' = Committed
      BY <2>1, <2>2, <1>t DEF Types, Typed, Committed
    <3>2. open \subseteq Committed
      BY DEF Open
    <3>. QED
      BY <2>1, <2>2, <3>1, <3>2 DEF ScannedAt, CreatePcs
  <2>. QED
    BY <2>1, <2>2, <2>3, <1>1, <1>t DEF Others, Types, Typed
<1>8. ASSUME NEW p \in Procs, NEW i \in Ids, NEW r \in Row, NEW l,
             Write(p, i, r), lock[i] = Nil, pc[p] # "idle",
             pc' = [pc EXCEPT ![p] = l], merged \subseteq merged',
             UNCHANGED << row, req, scanned, rescored >>,
             row[i] # Nil /\ i \notin merged' =>
               /\ r.blockedBy \subseteq row[i].blockedBy
               /\ r.status = "open" => row[i].status = "open",
             \A q \in Procs \ {p} : todo'[q] = todo[q],
             ScannedAt(p)'
      PROVE  CascadeInv'
  <2>1. Shared' /\ Stays
    BY <1>8, WriteStep
  <2>2. Others(p)
    BY <1>8, <1>t DEF Others, Write, Types, Typed
  <2>. QED
    BY <1>8, <2>1, <2>2, OneSettles
<1>9. ASSUME NEW p \in Procs, NEW l,
             pc' = [pc EXCEPT ![p] = l], l # "rescore",
             UNCHANGED << row, req, scanned >>,
             l \in CreatePcs => pc[p] \in CreatePcs /\ pc[p] # "idle",
             l = "commit" => req[p].kind # "finish"
      PROVE  ScannedAt(p)'
  <2>1. pc'[p] = l
    BY <1>9, <1>t DEF Types, Typed
  <2>2. scanned[p] \subseteq Committed /\ Committed' = Committed
    BY <1>9, <1>t DEF ScannedAt, Committed
  <2>. QED
    BY <1>9, <2>1, <2>2, <1>t DEF ScannedAt
<1>10. ASSUME NEW p \in Procs, InsertTask(p)
       PROVE  CascadeInv'
  <2>. DEFINE r == [ status |-> "open", blockedBy |-> req[p].blockers ]
  <2>1. pc[p] = "insert" /\ want[p] \in Ids /\ r \in Row
    <3>1. pc[p] = "insert" /\ want[p] \in Ids /\ req[p].blockers \in SUBSET Ids
      BY <1>10, RequestOf DEF InsertTask, TypeInv, Local, Drawn
    <3>. QED
      BY <3>1 DEF Row, TaskStatuses
  <2>2. PICK l \in { "draw", "edges", "commit" } : pc' = [pc EXCEPT ![p] = l]
    BY <1>10 DEF InsertTask
  <2>3. /\ Write(p, want[p], r) /\ lock[want[p]] = Nil /\ row[want[p]] = Nil
        /\ UNCHANGED << row, seq, req, want, todo, read, code, served, history >>
    BY <1>10 DEF InsertTask
  <2>4. req[p].kind # "finish"
    BY <2>1, <1>t DEF ScannedAt, CreatePcs, CreateKinds
  <2>5. ScannedAt(p)'
    BY <2>1, <2>2, <2>3, <2>4, <1>9 DEF history, CreatePcs
  <2>. HIDE DEF r
  <2>. QED
    BY <2>1, <2>2, <2>3, <2>5, <1>8 DEF history
<1>11. ASSUME NEW p \in Procs, pc[p] # "idle", ReleaseLocks(p),
              draft' = [draft EXCEPT ![p] = << >>],
              NEW l \in { "answer", "aborted" }, pc' = [pc EXCEPT ![p] = l],
              l = "aborted" => pc[p] = "edges",
              UNCHANGED << row, req, todo, scanned, rescored, merged >>
       PROVE  CascadeInv'
  <2>1. Shared' /\ Stays
    BY <1>11, RollbackStep
  <2>2. ScannedAt(p)'
    BY <1>11, <1>9 DEF CreatePcs
  <2>3. Others(p)
    BY <1>11, <1>t DEF Others, Types, Typed
  <2>. QED
    BY <1>11, <2>1, <2>2, <2>3, OneSettles
<1>12. ASSUME NEW p \in Procs, InsertDuplicate(p) \/ Fail(p)
       PROVE  CascadeInv'
  <2>1. Rollback(p) /\ pc[p] # "idle"
    BY <1>12 DEF InsertDuplicate, Fail
  <2>. QED
    BY <2>1, <1>11 DEF Rollback, history
<1>13. ASSUME NEW p \in Procs, EdgesFail(p)
       PROVE  CascadeInv'
  BY <1>13, <1>11 DEF EdgesFail, history
<1>14. ASSUME NEW p \in Procs, UpdateStatus(p)
       PROVE  CascadeInv'
  <2>. DEFINE t == req[p].task
              r == [row[t] EXCEPT !.status = ClosedStatus(req[p].kind)]
  <2>1. /\ pc[p] = "update" /\ t \in Ids /\ row[t] # Nil
    BY <1>14, RequestOf DEF UpdateStatus, TypeInv, Local, Serving, ClosePcs, CloseKinds, CreateKinds
  <2>2. /\ r \in Row /\ r.status # "open" /\ r.blockedBy = row[t].blockedBy
    BY <2>1, RowOf DEF Row, ClosedStatus, TaskStatuses
  <2>3. PICK l \in { "scan", "commit" } :
          /\ pc' = [pc EXCEPT ![p] = l]
          /\ l = "commit" => req[p].kind # "finish"
    BY <1>14 DEF UpdateStatus
  <2>4. /\ Write(p, t, r) /\ lock[t] = Nil
        /\ UNCHANGED << row, seq, req, want, ids, todo, read, code, served, history >>
    BY <1>14 DEF UpdateStatus
  <2>5. ScannedAt(p)'
    BY <2>3, <2>4, <1>9 DEF history, CreatePcs
  <2>. HIDE DEF r, t
  <2>. QED
    BY <2>1, <2>2, <2>3, <2>4, <2>5, <1>8 DEF history
<1>15. ASSUME NEW p \in Procs, RescoreRow(p)
       PROVE  CascadeInv'
  <2>0. PICK i \in todo[p] : i = Min(todo[p]) /\ pc[p] = "rescore" /\ i \in Ids
                             /\ todo[p] \subseteq Ids /\ row[i] # Nil
    <3>1. pc[p] = "rescore" /\ todo[p] \subseteq Ids /\ todo[p] # {} /\ Todo(p)
      BY <1>15, <1>t DEF RescoreRow, TypeInv, Local, Todo, Types, Typed
    <3>2. Min(todo[p]) \in todo[p]
      BY <3>1, MinOfIds
    <3>. QED
      BY <3>1, <3>2 DEF Todo
  <2>. DEFINE t == req[p].task
              r == [row[i] EXCEPT !.blockedBy = Scrub(@, t)]
  <2>1. pc[p] = "rescore" /\ todo[p] \subseteq Ids /\ i \in todo[p] /\ i \in Ids /\ row[i] # Nil
    BY <2>0
  <2>2. /\ r \in Row /\ r.blockedBy = row[i].blockedBy \ {t} /\ r.status = row[i].status
    BY <2>1, RowOf DEF Row, Scrub
  <2>3. PICK l \in { "commit", "rescore" } :
          pc' = [pc EXCEPT ![p] = l] /\ (l = "commit" => todo[p] = {i})
    BY <1>15, <2>0 DEF RescoreRow
  <2>4. /\ todo' = [todo EXCEPT ![p] = @ \ {i}] /\ lock[i] = Nil
        /\ UNCHANGED << row, seq, req, want, ids, read, code, served, history >>
    BY <1>15, <2>0 DEF RescoreRow, ScanMayTake
  <2>5. \/ row[i].status = "open" /\ Write(p, i, r)
        \/ row[i].status # "open" /\ UNCHANGED << lock, draft >>
    BY <1>15, <2>0 DEF RescoreRow
  <2>. HIDE DEF r, t
  <2>6. ASSUME Settled(p, i)',
               \A j \in DOMAIN draft[p] : j # i =>
                 j \in DOMAIN draft'[p] /\ draft'[p][j] = draft[p][j]
        PROVE  ScannedAt(p)'
    <3>1. pc'[p] = l /\ todo'[p] = todo[p] \ {i} /\ req' = req /\ scanned' = scanned
      BY <2>3, <2>4, <1>t DEF Types, Typed, history
    <3>2. scanned'[p] \subseteq Committed'
      BY <2>4, <1>t DEF ScannedAt, Committed, history
    <3>3. ASSUME req[p].kind = "finish", NEW j \in scanned[p] \ todo'[p]
          PROVE  Settled(p, j)'
      <4>1. CASE j = i
        BY <2>6, <4>1
      <4>2. CASE j # i
        <5>1. Settled(p, j)
          BY <2>1, <3>1, <3>3, <4>2, <1>t DEF ScannedAt
        <5>. QED
          BY <2>4, <2>6, <4>2, <5>1 DEF Settled, history
      <4>. QED
        BY <4>1, <4>2
    <3>. QED
      BY <2>3, <3>1, <3>2, <3>3 DEF ScannedAt, CreatePcs
  <2>7. CASE row[i].status = "open" /\ Write(p, i, r)
    <3>1. draft'[p] = With(draft[p], i, r)
      BY <2>7, <1>t DEF Write, Types, Typed
    <3>2. /\ DOMAIN draft'[p] = DOMAIN draft[p] \cup {i} /\ draft'[p][i] = r
          /\ \A j \in DOMAIN draft[p] : j # i => draft'[p][j] = draft[p][j]
      BY <3>1 DEF With
    <3>3. Settled(p, i)'
      BY <2>2, <2>4, <3>2 DEF Settled, t
    <3>4. ScannedAt(p)'
      BY <2>6, <3>2, <3>3
    <3>. QED
      BY <2>1, <2>2, <2>3, <2>4, <2>7, <3>4, <1>8, <1>t DEF history, Types, Typed
  <2>8. CASE row[i].status # "open" /\ UNCHANGED << lock, draft >>
    <3>1. ScannedAt(p)'
      BY <2>4, <2>6, <2>8 DEF Settled
    <3>. QED
      BY <2>3, <2>4, <2>8, <3>1, <1>1, <1>t DEF Others, history, Types, Typed
  <2>. QED
    BY <2>5, <2>7, <2>8
<1>16. ASSUME NEW p \in Procs, MergeA(p) \/ MergeDependent(p) \/ MergeB(p)
       PROVE  CascadeInv'
  <2>1. /\ pc[p] \in MergePcs /\ pc[p] # "idle" /\ req[p].kind # "finish"
        /\ req[p].task \in Ids /\ req[p].by \in Ids
        /\ row[req[p].task] # Nil /\ row[req[p].by] # Nil
    <3>1. pc[p] \in MergePcs /\ pc[p] # "idle"
      BY <1>16 DEF MergeA, MergeDependent, MergeB, MergePcs
    <3>2. Serving(p) /\ Reading(p) /\ Todo(p) /\ todo[p] \subseteq Ids
      BY <1>t DEF TypeInv, Local, Types, Typed
    <3>. QED
      BY <3>1, <3>2, RequestOf DEF Serving, CreateKinds
  <2>2. ASSUME NEW l \in { "mergeDeps", "mergeB", "commit" }, pc' = [pc EXCEPT ![p] = l],
               UNCHANGED << row, req, scanned >>
        PROVE  ScannedAt(p)'
    BY <2>1, <2>2, <1>9 DEF CreatePcs
  <2>3. CASE MergeA(p)
    <3>. DEFINE r == [row[req[p].task] EXCEPT !.blockedBy = UnionForA(p)]
    <3>1. r \in Row
      <4>1. req[p].task \in DOMAIN read[p] /\ req[p].by \in DOMAIN read[p]
        BY <2>3 DEF MergeA, TypeInv, Local, Reading
      <4>2. UnionForA(p) \in SUBSET Ids
        BY <4>1, DraftOf DEF UnionForA
      <4>. QED
        BY <2>1, <4>2, RowOf DEF Row
    <3>2. PICK l \in { "mergeDeps", "mergeB" } : pc' = [pc EXCEPT ![p] = l]
      BY <2>3 DEF MergeA
    <3>3. /\ Write(p, req[p].task, r) /\ lock[req[p].task] = Nil
          /\ merged' = merged \cup {req[p].task}
          /\ UNCHANGED << row, seq, req, want, ids, todo, read, code, served,
                          before, crossed, scanned, rescored >>
      BY <2>3 DEF MergeA
    <3>4. ScannedAt(p)'
      BY <2>2, <3>2, <3>3
    <3>. HIDE DEF r
    <3>. QED
      BY <2>1, <3>1, <3>2, <3>3, <3>4, <1>8
  <2>4. CASE MergeDependent(p)
    <3>1. PICK i \in todo[p] :
            /\ lock[i] = Nil
            /\ Write(p, i, [row[i] EXCEPT !.blockedBy = (read[p][i] \ {req[p].by}) \cup {req[p].task}])
            /\ merged' = merged \cup {i}
            /\ todo' = [todo EXCEPT ![p] = @ \ {i}]
            /\ Goto(p, IF todo[p] = {i} THEN "mergeB" ELSE "mergeDeps")
      BY <2>4 DEF MergeDependent
    <3>. DEFINE r == [row[i] EXCEPT !.blockedBy = (read[p][i] \ {req[p].by}) \cup {req[p].task}]
    <3>2. i \in Ids /\ row[i] # Nil /\ i \in DOMAIN read[p]
      BY <2>4, <1>t DEF MergeDependent, TypeInv, Local, Reading, Todo, Types, Typed
    <3>3. r \in Row
      <4>1. (read[p][i] \ {req[p].by}) \cup {req[p].task} \in SUBSET Ids
        BY <2>1, <3>2, DraftOf
      <4>. QED
        BY <3>2, <4>1, RowOf DEF Row
    <3>4. PICK l \in { "mergeDeps", "mergeB" } : pc' = [pc EXCEPT ![p] = l]
      BY <3>1
    <3>5. UNCHANGED << row, seq, req, want, ids, read, code, served,
                       before, crossed, scanned, rescored >>
      BY <2>4 DEF MergeDependent
    <3>6. ScannedAt(p)'
      BY <2>2, <3>4, <3>5
    <3>7. \A q \in Procs \ {p} : todo'[q] = todo[q]
      BY <3>1, <1>t DEF Types, Typed
    <3>8. Write(p, i, r)
      BY <3>1
    <3>. HIDE DEF r
    <3>. QED
      BY <2>1, <3>1, <3>2, <3>3, <3>4, <3>5, <3>6, <3>7, <3>8, <1>8
  <2>5. CASE MergeB(p)
    <3>. DEFINE r == [row[req[p].by] EXCEPT !.status = "SUPERSEDED"]
    <3>1. r \in Row /\ r.status # "open" /\ r.blockedBy = row[req[p].by].blockedBy
      BY <2>1, RowOf DEF Row, TaskStatuses
    <3>2. /\ Write(p, req[p].by, r) /\ lock[req[p].by] = Nil
          /\ pc' = [pc EXCEPT ![p] = "commit"]
          /\ UNCHANGED << row, seq, req, want, ids, todo, read, code, served, history >>
      BY <2>5 DEF MergeB
    <3>3. ScannedAt(p)'
      BY <2>2, <3>2 DEF history
    <3>. HIDE DEF r
    <3>. QED
      BY <2>1, <3>1, <3>2, <3>3, <1>8 DEF history
  <2>. QED
    BY <1>16, <2>3, <2>4, <2>5
<1>17. ASSUME NEW p \in Procs, Commit(p) \/ CommitUnacked(p)
       PROVE  CascadeInv'
  <2>1. /\ pc[p] = "commit" /\ Persist(p) /\ pc' = [pc EXCEPT ![p] = "answer"]
        /\ UNCHANGED << seq, req, want, ids, todo, read, served, before, crossed, scanned, merged >>
    BY <1>17 DEF Commit, CommitUnacked, CommitAs
  <2>2. Shared' /\ Stays
    BY <2>1, CommitStep
  <2>3. ScannedAt(p)'
    <3>1. scanned[p] \subseteq Committed /\ Committed \subseteq Committed' /\ pc'[p] = "answer"
      BY <2>1, <2>2, <1>t DEF ScannedAt, Committed, Stays, Types, Typed
    <3>. QED
      BY <2>1, <3>1 DEF ScannedAt, CreatePcs
  <2>4. Others(p)
    BY <2>1, <1>t DEF Others, Persist, Types, Typed
  <2>. QED
    BY <2>1, <2>2, <2>3, <2>4, OneSettles
<1>18. ASSUME NEW p \in Procs, Answer(p)
       PROVE  CascadeInv'
  <2>1. /\ pc' = [pc EXCEPT ![p] = "idle"] /\ scanned' = [scanned EXCEPT ![p] = {}]
        /\ req' = [req EXCEPT ![p] = Nil] /\ todo' = [todo EXCEPT ![p] = {}]
        /\ UNCHANGED << row, lock, seq, draft, served, rescored, merged >>
    BY <1>18 DEF Answer
  <2>2. ScannedAt(p)'
    <3>1. pc'[p] = "idle" /\ scanned'[p] = {}
      BY <2>1, <1>t DEF Types, Typed
    <3>. QED
      BY <3>1 DEF ScannedAt, CreatePcs
  <2>. QED
    BY <2>1, <2>2, <1>1, <1>t DEF Others, Types, Typed
<1>19. ASSUME PythonInsert
       PROVE  CascadeInv'
  <2>. DEFINE i == IF Committed = {} THEN 1 ELSE Max(Committed) + 1
  <2>1. /\ i \in Ids /\ lock[i] = Nil
        /\ row' = [row EXCEPT ![i] = [ status |-> "open", blockedBy |-> {} ]]
        /\ UNCHANGED << lock, seq, pc, req, tx, code, served, history >>
    BY <1>19 DEF PythonInsert
  <2>2. i \notin Committed
    <3>1. CASE Committed # {}
      <4>1. \A j \in Committed : j <= Max(Committed)
        BY <3>1, MaxOfIds DEF Committed
      <4>2. Max(Committed) \in Nat
        BY <3>1, MaxOfIds, GraphAssumption DEF Committed, Ids
      <4>. QED
        BY <3>1, <4>1, <4>2
    <3>. QED
      BY <3>1
  <2>. HIDE DEF i
  <2>3. /\ \A j \in Ids : row[j] # Nil => row'[j] = row[j]
        /\ row'[i].blockedBy = {} /\ row' \in [Ids -> Row \cup {Nil}]
    <3>1. [ status |-> "open", blockedBy |-> {} ] \in Row
      BY DEF Row, TaskStatuses
    <3>. QED
      BY <2>1, <2>2, <3>1, <1>t DEF Committed, Types, Typed
  <2>4. Stays
    BY <2>3 DEF Stays
  <2>5. \A q \in Procs : i \notin DOMAIN draft[q] /\ DOMAIN draft[q] \subseteq Ids
    BY <2>1, DraftOf, GraphAssumption DEF CascadeInv, Shared, Locked
  <2>6. \A j \in Ids : j # i => row'[j] = row[j]
    BY <2>1, <1>t DEF Types, Typed
  <2>7. Locked' /\ Narrower'
    BY <2>1, <2>5, <2>6 DEF CascadeInv, Shared, Locked, Narrower, tx, history
  <2>8. Scrubbed'
    <3>1. Committed \subseteq Committed'
      BY <2>3 DEF Committed, CascadeInv
    <3>2. \A j \in Open' : j = i \/ j \in Open
      BY <2>6 DEF Open, Committed
    <3>. QED
      BY <2>1, <2>2, <2>3, <2>6, <3>1, <3>2 DEF CascadeInv, Shared, Scrubbed, Open, Committed, history
  <2>9. ASSUME NEW q \in Procs
        PROVE  ScannedAt(q)'
    BY <2>1, <2>4, OthersStaySettled DEF tx, history
  <2>. QED
    BY <2>7, <2>8, <2>9 DEF CascadeInv, Shared
<1>20. ASSUME UNCHANGED vars
       PROVE  CascadeInv'
  <2>1. Shared' /\ Stays
    BY <1>20, QuietStep DEF vars, tx, history
  <2>2. ASSUME NEW q \in Procs
        PROVE  ScannedAt(q)'
    BY <1>20, <2>1, OthersStaySettled DEF vars, tx, history
  <2>. QED
    BY <2>1, <2>2 DEF CascadeInv
<1>. QED
  BY <1>2, <1>4, <1>5, <1>6, <1>7, <1>10, <1>12, <1>13, <1>14, <1>15, <1>16, <1>17, <1>18,
     <1>19, <1>20 DEF Next, Quiescent

\* No scrub is lost: two finishing advances, closing writers, merges and
\* rollbacks in whatever order never leave an open task waiting for a DONE one
\* that was rescored while it was open, unless a merge has rewritten its list.
THEOREM NoScrubIsLost == Spec => []CascadeComplete
<1>1. Init => CascadeInv
  BY DEF Init, CascadeInv, Shared, Locked, Narrower, Scrubbed, ScannedAt, CreatePcs
<1>2. Spec => []CascadeInv
  BY <1>1, TypeInit, TypeStep, CascadeStep, PTL DEF Spec
<1>3. CascadeInv => CascadeComplete
  BY DEF CascadeInv, Shared, Scrubbed, CascadeComplete, Committed
<1>. QED
  BY <1>2, <1>3, PTL
-----------------------------------------------------------------------------
(* What vanishes from a list.  A draft drops nothing from the list it will    *)
(* replace but the task that its finishing advance has just closed.           *)

\* The places of a goroutine without an open transaction.
NoTx == { "idle", "guard", "setval", "read", "update", "readA", "readB", "deps", "mergeA",
          "aborted", "answer" }

Kept(r, old, new) ==
  r.kind # "merge" /\ old # Nil =>
    \A b \in old.blockedBy \ new.blockedBy : r.kind = "finish" /\ b = r.task

KeptAt(p) ==
  /\ pc[p] \in NoTx => DOMAIN draft[p] = {}
  /\ \A i \in DOMAIN draft[p] : Kept(req[p], row[i], draft[p][i])

KeptInv == \A p \in Procs : KeptAt(p)

\* A step of p as the others see it: their rows are locked.
Aside(p) == \A q \in Procs \ {p} :
  /\ pc'[q] = pc[q] /\ req'[q] = req[q] /\ draft'[q] = draft[q] /\ ids'[q] = ids[q]
  /\ code'[q] = code[q]
  /\ \A i \in DOMAIN draft[q] : row'[i] = row[i]

Acts(p) ==
  \/ Receive(p)
  \/ GuardRead(p) \/ GuardSet(p) \/ Draw(p) \/ InsertTask(p)
  \/ InsertDuplicate(p) \/ InsertEdges(p) \/ EdgesFail(p) \/ CommitAborted(p)
  \/ ReadTask(p) \/ UpdateStatus(p) \/ Scan(p) \/ RescoreRow(p)
  \/ ReadA(p) \/ ReadB(p) \/ FindDependents(p) \/ DryRun(p)
  \/ MergeA(p) \/ MergeDependent(p) \/ MergeB(p)
  \/ Commit(p) \/ CommitUnacked(p) \/ Fail(p) \/ Answer(p)

LEMMA ActsAside ==
  ASSUME TypeInv, CascadeInv, NEW p \in Procs, Acts(p)
  PROVE  Aside(p)
<1>. USE DEF Goto, Reply, Write, Rollback, tx, history
<1>1. ASSUME NEW q \in Procs \ {p}
      PROVE  /\ pc'[q] = pc[q] /\ req'[q] = req[q] /\ draft'[q] = draft[q]
             /\ ids'[q] = ids[q] /\ code'[q] = code[q]
  <2>. USE DEF TypeInv, Types, Typed
  <2>1. CASE \/ Receive(p) \/ GuardRead(p) \/ GuardSet(p) \/ Draw(p) \/ InsertTask(p)
             \/ InsertDuplicate(p) \/ InsertEdges(p) \/ EdgesFail(p) \/ CommitAborted(p)
    BY <2>1 DEF Receive, GuardRead, GuardSet, Draw, InsertTask, InsertDuplicate, InsertEdges,
       EdgesFail, CommitAborted
  <2>2. CASE ReadTask(p) \/ UpdateStatus(p) \/ Scan(p) \/ RescoreRow(p)
    BY <2>2 DEF ReadTask, UpdateStatus, Scan, RescoreRow
  <2>3. CASE \/ ReadA(p) \/ ReadB(p) \/ FindDependents(p) \/ DryRun(p)
             \/ MergeA(p) \/ MergeDependent(p) \/ MergeB(p)
    BY <2>3 DEF ReadA, ReadB, ReadMerged, FindDependents, DryRun, MergeA, MergeDependent, MergeB
  <2>4. CASE Commit(p) \/ CommitUnacked(p) \/ Fail(p) \/ Answer(p)
    BY <2>4 DEF Commit, CommitUnacked, CommitAs, Persist, Fail, Answer
  <2>. QED
    BY <2>1, <2>2, <2>3, <2>4 DEF Acts
<1>2. ASSUME NEW q \in Procs \ {p}, NEW i \in DOMAIN draft[q]
      PROVE  row'[i] = row[i]
  <2>1. i \in Ids /\ i \notin DOMAIN draft[p]
    BY DraftOf DEF CascadeInv, Shared, Locked
  <2>2. CASE Commit(p) \/ CommitUnacked(p)
    BY <2>1, <2>2 DEF Commit, CommitUnacked, CommitAs, Persist
  <2>3. CASE ~(Commit(p) \/ CommitUnacked(p))
    BY <2>3 DEF Acts, Receive, GuardRead, GuardSet, Draw, InsertTask, InsertDuplicate,
       InsertEdges, EdgesFail, CommitAborted, ReadTask, UpdateStatus, Scan, RescoreRow, ReadA,
       ReadB, ReadMerged, FindDependents, DryRun, MergeA, MergeDependent, MergeB, Fail, Answer
  <2>. QED
    BY <2>2, <2>3
<1>. QED
  BY <1>1, <1>2 DEF Aside

\* Python inserts an id that nobody has locked.
LEMMA PythonAside ==
  ASSUME TypeInv, CascadeInv, PythonInsert
  PROVE  /\ UNCHANGED << pc, req, draft, ids, code >>
         /\ \A q \in Procs : \A i \in DOMAIN draft[q] : row'[i] = row[i]
         /\ \A i \in Ids : row[i] # Nil => row'[i] = row[i]
<1>. DEFINE i == IF Committed = {} THEN 1 ELSE Max(Committed) + 1
<1>1. /\ i \in Ids /\ lock[i] = Nil
      /\ row' = [row EXCEPT ![i] = [ status |-> "open", blockedBy |-> {} ]]
      /\ UNCHANGED << pc, req, draft, ids, code >>
  BY DEF PythonInsert, tx
<1>2. i \notin Committed
  <2>1. CASE Committed # {}
    <3>1. \A j \in Committed : j <= Max(Committed)
      BY <2>1, MaxOfIds DEF Committed
    <3>2. Max(Committed) \in Nat
      BY <2>1, MaxOfIds, GraphAssumption DEF Committed, Ids
    <3>. QED
      BY <2>1, <3>1, <3>2
  <2>. QED
    BY <2>1
<1>. HIDE DEF i
<1>3. \A q \in Procs : i \notin DOMAIN draft[q] /\ DOMAIN draft[q] \subseteq Ids
  BY <1>1, DraftOf, GraphAssumption DEF CascadeInv, Shared, Locked
<1>4. \A j \in Ids : j # i => row'[j] = row[j]
  BY <1>1 DEF TypeInv, Types, Typed
<1>. QED
  BY <1>1, <1>2, <1>3, <1>4 DEF Committed

LEMMA KeptStep ==
  ASSUME TypeInv, CascadeInv, KeptInv, NEW p \in Procs, Acts(p)
  PROVE  KeptInv'
<1>. USE DEF Goto, Reply
<1>1. ASSUME NEW q \in Procs \ {p} PROVE KeptAt(q)'
  BY ActsAside DEF Aside, KeptInv, KeptAt
<1>. SUFFICES KeptAt(p)'
  BY <1>1 DEF KeptInv
<1>2. ASSUME NEW i \in Ids, NEW r, Write(p, i, r), UNCHANGED << row, req >>, pc'[p] \notin NoTx,
             Kept(req[p], row[i], r)
      PROVE  KeptAt(p)'
  <2>1. /\ DOMAIN draft'[p] = DOMAIN draft[p] \cup {i} /\ draft'[p][i] = r
        /\ \A j \in DOMAIN draft[p] : j # i => draft'[p][j] = draft[p][j]
    BY <1>2 DEF Write, With, TypeInv, Types, Typed
  <2>. QED
    BY <1>2, <2>1 DEF KeptInv, KeptAt
<1>3. CASE InsertTask(p)
  <2>1. want[p] \in Ids /\ Kept(req[p], row[want[p]], [ status |-> "open", blockedBy |-> req[p].blockers ])
    BY <1>3 DEF InsertTask, Kept, TypeInv, Local, Drawn
  <2>2. pc'[p] \notin NoTx
    BY <1>3 DEF InsertTask, NoTx, TypeInv, Types, Typed
  <2>. QED
    BY <1>2, <1>3, <2>1, <2>2 DEF InsertTask
<1>4. CASE UpdateStatus(p)
  <2>1. /\ req[p].task \in Ids /\ row[req[p].task] # Nil
    BY <1>4, RequestOf DEF UpdateStatus, TypeInv, Local, Serving, ClosePcs, CloseKinds, CreateKinds
  <2>2. Kept(req[p], row[req[p].task],
             [row[req[p].task] EXCEPT !.status = ClosedStatus(req[p].kind)])
    BY <2>1, RowOf DEF Kept, Row
  <2>3. pc'[p] \notin NoTx
    BY <1>4 DEF UpdateStatus, NoTx, TypeInv, Types, Typed
  <2>. QED
    BY <1>2, <1>4, <2>1, <2>2, <2>3 DEF UpdateStatus
<1>5. CASE RescoreRow(p)
  <2>1. /\ Min(todo[p]) \in Ids /\ req[p].kind = "finish" /\ row[Min(todo[p])] # Nil
    <3>1. todo[p] \subseteq Ids /\ todo[p] # {} /\ Todo(p) /\ Serving(p) /\ pc[p] = "rescore"
      BY <1>5 DEF RescoreRow, TypeInv, Local, Todo, Types, Typed
    <3>2. Min(todo[p]) \in todo[p]
      BY <3>1, MinOfIds
    <3>. QED
      BY <3>1, <3>2 DEF Todo, Serving
  <2>2. Kept(req[p], row[Min(todo[p])],
             [row[Min(todo[p])] EXCEPT !.blockedBy = Scrub(@, req[p].task)])
    BY <2>1, RowOf DEF Kept, Row, Scrub
  <2>3. pc'[p] \notin NoTx /\ UNCHANGED << row, req >>
    BY <1>5 DEF RescoreRow, NoTx, TypeInv, Types, Typed
  <2>4. CASE UNCHANGED << lock, draft >>
    BY <2>3, <2>4 DEF KeptInv, KeptAt
  <2>. QED
    BY <1>2, <1>5, <2>1, <2>2, <2>3, <2>4 DEF RescoreRow
<1>6. CASE MergeA(p) \/ MergeDependent(p) \/ MergeB(p)
  <2>1. /\ req[p].kind = "merge" /\ req' = req /\ pc'[p] \notin NoTx
    BY <1>6 DEF MergeA, MergeDependent, MergeB, NoTx, MergePcs, TypeInv, Local, Serving, Types, Typed
  <2>. QED
    BY <2>1 DEF KeptAt, Kept
<1>7. CASE Commit(p) \/ CommitUnacked(p) \/ InsertDuplicate(p) \/ Fail(p) \/ EdgesFail(p)
  <2>1. DOMAIN draft'[p] = {}
    BY <1>7 DEF Commit, CommitUnacked, CommitAs, Persist, InsertDuplicate, Fail, EdgesFail, Rollback,
       TypeInv, Types, Typed
  <2>. QED
    BY <2>1 DEF KeptAt
<1>8. CASE \/ Receive(p) \/ GuardRead(p) \/ GuardSet(p) \/ Draw(p) \/ InsertEdges(p)
           \/ CommitAborted(p) \/ ReadTask(p) \/ Scan(p) \/ ReadA(p) \/ ReadB(p)
           \/ FindDependents(p) \/ DryRun(p) \/ Answer(p)
  <2>1. row' = row /\ draft' = draft
    BY <1>8 DEF Receive, GuardRead, GuardSet, Draw, InsertEdges, CommitAborted, ReadTask, Scan,
       ReadA, ReadB, ReadMerged, FindDependents, DryRun, Answer, tx
  <2>2. \/ pc[p] \in NoTx
        \/ pc'[p] \in { "insert", "commit", "rescore" } /\ req' = req
    BY <1>8 DEF Receive, GuardRead, GuardSet, Draw, InsertEdges, CommitAborted, ReadTask, Scan,
       ReadA, ReadB, FindDependents, DryRun, Answer, NoTx, TypeInv, Types, Typed
  <2>. QED
    BY <2>1, <2>2 DEF KeptInv, KeptAt, NoTx
<1>. QED
  BY <1>3, <1>4, <1>5, <1>6, <1>7, <1>8 DEF Acts

LEMMA KeptAlways == Spec => [](TypeInv /\ CascadeInv /\ KeptInv)
<1>1. Init => CascadeInv
  BY DEF Init, CascadeInv, Shared, Locked, Narrower, Scrubbed, ScannedAt, CreatePcs
<1>2. Init => KeptInv
  BY DEF Init, KeptInv, KeptAt
<1>3. ASSUME TypeInv, CascadeInv, KeptInv, [Next]_vars PROVE KeptInv'
  <2>1. CASE PythonInsert
    BY <1>3, <2>1, PythonAside DEF KeptInv, KeptAt
  <2>2. CASE UNCHANGED vars
    BY <1>3, <2>2 DEF vars, tx, KeptInv, KeptAt
  <2>3. CASE \E p \in Procs : Acts(p)
    BY <1>3, <2>3, KeptStep
  <2>. QED
    BY <1>3, <2>1, <2>2, <2>3 DEF Next, Quiescent, Acts
<1>. QED
  BY <1>1, <1>2, <1>3, TypeInit, TypeStep, CascadeStep, PTL DEF Spec

\* Whoever commits, an id leaves a list only by a merge or because the commit
\* is the one that makes it DONE.
THEOREM NothingElseVanishes == Spec => OnlyTheFinishedVanish
<1>. DEFINE Leaves ==
       \A i \in Committed :
         \A b \in row[i].blockedBy \ row'[i].blockedBy :
           \E p \in Procs : /\ pc[p] = "commit"
                            /\ \/ req[p].kind = "merge"
                               \/ req[p].kind = "finish" /\ req[p].task = b
<1>1. ASSUME TypeInv, CascadeInv, KeptInv, Next PROVE Leaves
  <2>1. CASE PythonInsert
    BY <1>1, <2>1, PythonAside DEF Committed
  <2>2. ASSUME NEW p \in Procs, Commit(p) \/ CommitUnacked(p) PROVE Leaves
    <3>1. /\ pc[p] = "commit"
          /\ \A i \in Ids : row'[i] = IF i \in DOMAIN draft[p] THEN draft[p][i] ELSE row[i]
      BY <2>2 DEF Commit, CommitUnacked, CommitAs, Persist
    <3>2. KeptAt(p)
      BY <1>1 DEF KeptInv
    <3>3. ASSUME NEW i \in Committed, NEW b \in row[i].blockedBy \ row'[i].blockedBy
          PROVE  req[p].kind = "merge" \/ (req[p].kind = "finish" /\ req[p].task = b)
      <4>1. i \in Ids /\ row[i] # Nil
        BY DEF Committed
      <4>2. CASE i \in DOMAIN draft[p]
        <5>1. Kept(req[p], row[i], draft[p][i]) /\ row'[i] = draft[p][i]
          BY <3>1, <3>2, <4>1, <4>2 DEF KeptAt
        <5>. QED
          BY <3>3, <4>1, <5>1 DEF Kept
      <4>3. CASE i \notin DOMAIN draft[p]
        BY <3>1, <3>3, <4>1, <4>3
      <4>. QED
        BY <4>2, <4>3
    <3>. QED
      BY <3>1, <3>3
  <2>3. CASE row' = row
    BY <2>3
  <2>4. ASSUME NEW p \in Procs, Acts(p), ~(Commit(p) \/ CommitUnacked(p)) PROVE row' = row
    BY <2>4 DEF Acts, Receive, GuardRead, GuardSet, Draw, InsertTask, InsertDuplicate, Rollback,
       InsertEdges, EdgesFail, CommitAborted, ReadTask, UpdateStatus, Scan, RescoreRow, ReadA,
       ReadB, ReadMerged, FindDependents, DryRun, MergeA, MergeDependent, MergeB, Fail, Answer
  <2>5. CASE Quiescent
    BY <2>5, <2>3 DEF Quiescent, vars
  <2>. HIDE DEF Leaves
  <2>. QED
    BY <1>1, <2>1, <2>2, <2>3, <2>4, <2>5 DEF Next, Acts
<1>2. TypeInv /\ CascadeInv /\ KeptInv /\ [Next]_vars => [Leaves]_vars
  BY <1>1
<1>3. Spec => [][Leaves]_vars
  BY <1>2, KeptAlways, PTL DEF Spec
<1>. QED
  BY <1>3 DEF OnlyTheFinishedVanish
-----------------------------------------------------------------------------
(* What a create has inserted.  The ids of its transaction are in its draft   *)
(* until it commits, as many as the phases that it has been through.          *)

MadeAt(p) ==
  /\ pc[p] \in { "idle", "guard", "setval" } => ids[p] = {}
  /\ req[p] \in Request /\ req[p].kind \in CreateKinds =>
       /\ pc[p] \in { "draw", "insert" } => Cardinality(ids[p]) < req[p].phases
       /\ pc[p] \in { "edges", "commit" } => Cardinality(ids[p]) = req[p].phases
       /\ pc[p] \in { "draw", "insert", "edges", "commit" } => ids[p] \subseteq DOMAIN draft[p]
       /\ pc[p] = "answer" /\ code[p] = "200" =>
            ids[p] \subseteq Committed /\ Cardinality(ids[p]) = req[p].phases

MadeInv == \A p \in Procs : MadeAt(p)

LEMMA MadeStep ==
  ASSUME TypeInv, CascadeInv, MadeInv, NEW p \in Procs, Acts(p)
  PROVE  MadeInv'
<1>. USE DEF Goto, Reply
<1>1. Committed \subseteq Committed'
  <2>1. CASE Commit(p) \/ CommitUnacked(p)
    <3>1. pc[p] # "idle" /\ Persist(p)
      BY <2>1 DEF Commit, CommitUnacked, CommitAs
    <3>. QED
      BY <3>1, PersistType DEF Committed
  <2>2. CASE ~(Commit(p) \/ CommitUnacked(p))
    BY <2>2 DEF Acts, Receive, GuardRead, GuardSet, Draw, InsertTask, InsertDuplicate, Rollback,
       InsertEdges, EdgesFail, CommitAborted, ReadTask, UpdateStatus, Scan, RescoreRow, ReadA,
       ReadB, ReadMerged, FindDependents, DryRun, MergeA, MergeDependent, MergeB, Fail, Answer,
       Committed
  <2>. QED
    BY <2>1, <2>2
<1>2. ASSUME NEW q \in Procs \ {p} PROVE MadeAt(q)'
  <2>1. /\ pc'[q] = pc[q] /\ req'[q] = req[q] /\ draft'[q] = draft[q] /\ ids'[q] = ids[q]
        /\ code'[q] = code[q]
    BY ActsAside DEF Aside
  <2>. QED
    BY <1>1, <2>1 DEF MadeInv, MadeAt, Request
<1>. SUFFICES MadeAt(p)'
  BY <1>2 DEF MadeInv
<1>3. CASE Receive(p)
  <2>1. pc'[p] \in { "guard", "readA", "read" } /\ ids'[p] = {}
    BY <1>3 DEF Receive, tx, MadeInv, MadeAt, TypeInv, Types, Typed
  <2>. QED
    BY <2>1 DEF MadeAt
<1>4. CASE GuardRead(p) \/ GuardSet(p)
  <2>1. ids'[p] = {} /\ req' = req /\ pc'[p] \in { "setval", "draw" }
    BY <1>4 DEF GuardRead, GuardSet, tx, MadeInv, MadeAt, TypeInv, Types, Typed
  <2>2. Cardinality({}) = 0 /\ \A r \in Request : r.phases \in Nat /\ r.phases > 0
    BY FS_EmptySet, GraphAssumption DEF Request
  <2>. QED
    BY <2>1, <2>2 DEF MadeAt
<1>5. CASE Draw(p) \/ InsertEdges(p)
  <2>1. /\ UNCHANGED << req, ids, draft >>
        /\ \/ pc[p] = "draw" /\ pc'[p] = "insert"
           \/ pc[p] = "edges" /\ pc'[p] = "commit"
    BY <1>5 DEF Draw, InsertEdges, tx, TypeInv, Types, Typed
  <2>. QED
    BY <2>1 DEF MadeInv, MadeAt
<1>6. CASE InsertTask(p)
  <2>. DEFINE i == want[p]
  <2>1. /\ pc[p] = "insert" /\ lock[i] = Nil /\ i \in Ids /\ req' = req
        /\ ids'[p] = ids[p] \cup {i} /\ req[p] \in Request
        /\ pc'[p] = IF Cardinality(ids[p]) + 1 < req[p].phases THEN "draw"
                    ELSE IF req[p].blockers # {} THEN "edges" ELSE "commit"
    BY <1>6, RequestOf DEF InsertTask, TypeInv, Local, Drawn, Types, Typed
  <2>2. req[p].kind \in CreateKinds
    BY <2>1 DEF CascadeInv, ScannedAt, CreatePcs
  <2>3. ids[p] \subseteq DOMAIN draft[p] /\ Cardinality(ids[p]) < req[p].phases
    BY <2>1, <2>2 DEF MadeInv, MadeAt
  <2>4. i \notin ids[p]
    BY <2>1, <2>3, GraphAssumption DEF CascadeInv, Shared, Locked
  <2>5. DOMAIN draft'[p] = DOMAIN draft[p] \cup {i}
    BY <1>6 DEF InsertTask, Write, With, TypeInv, Types, Typed
  <2>6. IsFiniteSet(ids[p])
    <3>1. IsFiniteSet(Ids) /\ ids[p] \subseteq Ids
      BY FS_Interval, GraphAssumption DEF Ids, TypeInv, Types, Typed
    <3>. QED
      BY <3>1, FS_Subset
  <2>7. Cardinality(ids'[p]) = Cardinality(ids[p]) + 1 /\ Cardinality(ids[p]) \in Nat
    BY <2>1, <2>4, <2>6, FS_AddElement, FS_CardinalityType
  <2>8. req[p].phases \in Nat
    BY <2>1, GraphAssumption DEF Request
  <2>. HIDE DEF i
  <2>. QED
    BY <2>1, <2>2, <2>3, <2>5, <2>7, <2>8 DEF MadeAt
<1>7. CASE Commit(p) \/ CommitUnacked(p)
  <2>1. /\ pc[p] = "commit" /\ pc'[p] = "answer" /\ UNCHANGED << req, ids >>
        /\ \A i \in Ids : row'[i] = IF i \in DOMAIN draft[p] THEN draft[p][i] ELSE row[i]
    BY <1>7 DEF Commit, CommitUnacked, CommitAs, Persist, TypeInv, Types, Typed
  <2>2. \A i \in DOMAIN draft[p] : i \in Ids /\ draft[p][i] # Nil
    BY DraftOf, GraphAssumption
  <2>3. DOMAIN draft[p] \subseteq Committed'
    BY <2>1, <2>2 DEF Committed
  <2>. QED
    BY <2>1, <2>3 DEF MadeInv, MadeAt
<1>8. CASE InsertDuplicate(p) \/ Fail(p) \/ EdgesFail(p) \/ CommitAborted(p)
  <2>1. \/ pc'[p] = "aborted"
        \/ pc'[p] = "answer" /\ code'[p] = "500"
    BY <1>8 DEF InsertDuplicate, Fail, EdgesFail, CommitAborted, AbortedReply, Rollback,
       TypeInv, Types, Typed
  <2>. QED
    BY <2>1 DEF MadeAt
<1>9. CASE Answer(p)
  <2>1. pc'[p] = "idle" /\ ids'[p] = {}
    BY <1>9 DEF Answer, TypeInv, Types, Typed
  <2>. QED
    BY <2>1 DEF MadeAt
<1>10. CASE \/ ReadTask(p) \/ UpdateStatus(p) \/ Scan(p) \/ RescoreRow(p) \/ ReadA(p)
            \/ ReadB(p) \/ FindDependents(p) \/ DryRun(p) \/ MergeA(p) \/ MergeDependent(p)
            \/ MergeB(p)
  <2>1. pc[p] \in ClosePcs \cup MergePcs /\ req' = req
    BY <1>10 DEF ReadTask, UpdateStatus, Scan, RescoreRow, ReadA, ReadB, ReadMerged,
       FindDependents, DryRun, MergeA, MergeDependent, MergeB, ClosePcs, MergePcs
  <2>2. req[p].kind \notin CreateKinds
    BY <2>1 DEF TypeInv, Local, Serving, ClosePcs, MergePcs, CreateKinds, CloseKinds
  <2>3. pc'[p] \notin { "idle", "guard", "setval" }
    BY <1>10 DEF ReadTask, UpdateStatus, Scan, RescoreRow, ReadA, ReadB, ReadMerged,
       FindDependents, DryRun, MergeA, MergeDependent, MergeB, TypeInv, Types, Typed
  <2>. QED
    BY <2>1, <2>2, <2>3 DEF MadeAt
<1>. QED
  BY <1>3, <1>4, <1>5, <1>6, <1>7, <1>8, <1>9, <1>10 DEF Acts

\* A create or a subtasks-from-plan that answers 200 has committed a row for
\* every task it was asked for, whichever of its statements failed, aborted the
\* transaction or waited for another one.
THEOREM CreatedMeansCommitted == Spec => []CreatedIsThere
<1>1. Init => MadeInv
  BY DEF Init, MadeInv, MadeAt
<1>2. ASSUME TypeInv, CascadeInv, MadeInv, [Next]_vars PROVE MadeInv'
  <2>1. CASE PythonInsert
    BY <1>2, <2>1, PythonAside DEF MadeInv, MadeAt, Committed
  <2>2. CASE UNCHANGED vars
    BY <1>2, <2>2 DEF vars, tx, MadeInv, MadeAt, Committed
  <2>3. CASE \E p \in Procs : Acts(p)
    BY <1>2, <2>3, MadeStep
  <2>. QED
    BY <1>2, <2>1, <2>2, <2>3 DEF Next, Quiescent, Acts
<1>3. ASSUME TypeInv, MadeInv PROVE CreatedIsThere
  <2>. SUFFICES ASSUME NEW p \in Procs, pc[p] = "answer", code[p] = "200",
                       req[p].kind \in CreateKinds
                PROVE  ids[p] \subseteq Committed /\ Cardinality(ids[p]) = req[p].phases
    BY DEF CreatedIsThere
  <2>1. req[p] \in Request
    BY <1>3, RequestOf
  <2>. QED
    BY <1>3, <2>1 DEF MadeInv, MadeAt
<1>. QED
  BY <1>1, <1>2, <1>3, KeptAlways, PTL DEF Spec
-----------------------------------------------------------------------------
(* Merge.  What is left waiting for the absorbed task is the one that absorbs *)
(* it, or what others commit while the merge is under way.                    *)

Merging == (MergePcs \ { "readA" }) \cup { "commit", "answer" }

\* Nobody else commits from the first look of a merge to its reply.
MergesAlone ==
  \A p, q \in Procs :
    p # q /\ pc[p] \in Merging /\ req[p].kind = "merge" => pc[q] # "commit"

\* Neither of the two tasks of a merge waits for the one that is absorbed.
NeitherWaits ==
  \A p \in Procs :
    pc[p] = "deps" => req[p].by \notin read[p][req[p].task] \cup read[p][req[p].by]

\* Each list with the absorbed task in it is to be replaced by one without.
MergedAt(p) ==
  LET A == req[p].task
      B == req[p].by
  IN
  req[p].kind = "merge" =>
    /\ pc[p] = "deps" => read[p][B] = row[B].blockedBy
    /\ pc[p] \in { "mergeA", "mergeDeps", "mergeB", "commit" } =>
         /\ B \notin row[B].blockedBy
         /\ \A i \in DOMAIN draft[p] : B \notin draft[p][i].blockedBy
         /\ \A i \in Committed \ {A} :
              B \in row[i].blockedBy => i \in DOMAIN draft[p] \cup todo[p]
    /\ pc[p] = "mergeA" => B \notin UnionForA(p)
    /\ pc[p] \in { "mergeDeps", "mergeB", "commit" } => A \in DOMAIN draft[p]
    /\ pc[p] \in { "mergeB", "commit" } => todo[p] = {}
    /\ pc[p] = "answer" /\ code[p] = "200" =>
         \A i \in Committed : B \notin row[i].blockedBy

MergedInv == \A p \in Procs : MergedAt(p)

\* A step that commits nothing writes no row.
LEMMA RowsStay ==
  ASSUME NEW p \in Procs, Acts(p), pc[p] # "commit"
  PROVE  row' = row
BY DEF Acts, Receive, GuardRead, GuardSet, Draw, InsertTask, InsertDuplicate, Rollback,
   InsertEdges, EdgesFail, CommitAborted, ReadTask, UpdateStatus, Scan, RescoreRow, ReadA,
   ReadB, ReadMerged, FindDependents, DryRun, MergeA, MergeDependent, MergeB, Fail, Answer,
   Commit, CommitUnacked, CommitAs

LEMMA ListsApart ==
  ASSUME TypeInv, NEW p \in Procs, Acts(p), NEW q \in Procs \ {p}
  PROVE  read'[q] = read[q] /\ todo'[q] = todo[q]
<1>. USE DEF Goto, Reply, Write, Rollback, tx, history, TypeInv, Types, Typed
<1>1. CASE \/ Receive(p) \/ GuardRead(p) \/ GuardSet(p) \/ Draw(p) \/ InsertTask(p)
           \/ InsertDuplicate(p) \/ InsertEdges(p) \/ EdgesFail(p) \/ CommitAborted(p)
  BY <1>1 DEF Receive, GuardRead, GuardSet, Draw, InsertTask, InsertDuplicate, InsertEdges,
     EdgesFail, CommitAborted
<1>2. CASE ReadTask(p) \/ UpdateStatus(p) \/ Scan(p) \/ RescoreRow(p)
  BY <1>2 DEF ReadTask, UpdateStatus, Scan, RescoreRow
<1>3. CASE \/ ReadA(p) \/ ReadB(p) \/ FindDependents(p) \/ DryRun(p)
           \/ MergeA(p) \/ MergeDependent(p) \/ MergeB(p)
  BY <1>3 DEF ReadA, ReadB, ReadMerged, FindDependents, DryRun, MergeA, MergeDependent, MergeB
<1>4. CASE Commit(p) \/ CommitUnacked(p) \/ Fail(p) \/ Answer(p)
  BY <1>4 DEF Commit, CommitUnacked, CommitAs, Persist, Fail, Answer
<1>. QED
  BY <1>1, <1>2, <1>3, <1>4 DEF Acts

\* The row of one more id without the absorbed task in its list.
LEMMA MergedWrite ==
  ASSUME TypeInv, MergedInv, NEW p \in Procs, NEW i \in Ids, NEW r \in Row, Write(p, i, r),
         UNCHANGED << row, req >>, req[p].kind = "merge",
         pc[p] \in { "mergeA", "mergeDeps", "mergeB" },
         pc'[p] \in { "mergeDeps", "mergeB", "commit" },
         req[p].by \notin r.blockedBy, i = req[p].task \/ req[p].task \in DOMAIN draft[p],
         todo[p] \subseteq todo'[p] \cup {i}, pc'[p] # "mergeDeps" => todo'[p] = {}
  PROVE  MergedAt(p)'
<1>1. /\ DOMAIN draft'[p] = DOMAIN draft[p] \cup {i} /\ draft'[p][i] = r
      /\ \A j \in DOMAIN draft[p] : j # i => draft'[p][j] = draft[p][j]
  BY DEF Write, With, TypeInv, Types, Typed
<1>2. Committed' = Committed
  BY DEF Committed
<1>. QED
  BY <1>1, <1>2 DEF MergedInv, MergedAt

LEMMA MergedStep ==
  ASSUME TypeInv, CascadeInv, KeptInv, MergedInv, MergesAlone, NeitherWaits,
         NEW p \in Procs, Acts(p)
  PROVE  MergedInv'
<1>. USE DEF Goto, Reply
<1>1. ASSUME NEW q \in Procs \ {p} PROVE MergedAt(q)'
  <2>1. /\ pc'[q] = pc[q] /\ req'[q] = req[q] /\ draft'[q] = draft[q] /\ code'[q] = code[q]
        /\ read'[q] = read[q] /\ todo'[q] = todo[q]
    BY ActsAside, ListsApart DEF Aside
  <2>2. CASE pc[q] \in Merging /\ req[q].kind = "merge"
    <3>1. row' = row /\ Committed' = Committed
      BY <2>2, RowsStay DEF MergesAlone, Committed
    <3>. QED
      BY <2>1, <3>1 DEF MergedInv, MergedAt, UnionForA
  <2>3. CASE ~(pc[q] \in Merging /\ req[q].kind = "merge")
    BY <2>1, <2>3 DEF MergedAt, Merging, MergePcs
  <2>. QED
    BY <2>2, <2>3
<1>. SUFFICES MergedAt(p)'
  BY <1>1 DEF MergedInv
<1>. DEFINE A == req[p].task
            B == req[p].by
<1>2. CASE pc[p] \in MergePcs
  <2>1. /\ req[p].kind = "merge" /\ A # B /\ A \in Ids /\ B \in Ids
        /\ row[A] # Nil /\ row[B] # Nil /\ Reading(p) /\ todo[p] \subseteq Ids
    BY <1>2, RequestOf DEF TypeInv, Local, Serving, MergePcs, CreateKinds, Types, Typed
  <2>2. row[A] \in Row /\ row[B] \in Row
    BY <2>1, RowOf
  <2>3. CASE ReadA(p)
    <3>1. pc'[p] = "readB" \/ (pc'[p] = "answer" /\ code'[p] = "422")
      BY <2>3 DEF ReadA, ReadMerged, TypeInv, Types, Typed
    <3>. QED
      BY <3>1 DEF MergedAt
  <2>4. CASE ReadB(p)
    <3>1. \/ pc'[p] = "answer" /\ code'[p] = "422"
          \/ /\ pc'[p] = "deps" /\ UNCHANGED << row, req >>
             /\ read'[p] = With(read[p], B, row[B].blockedBy)
      BY <2>4 DEF ReadB, ReadMerged, TypeInv, Types, Typed
    <3>. QED
      BY <3>1 DEF MergedAt, With
  <2>5. CASE FindDependents(p)
    <3>. DEFINE deps == { i \in Committed \ {A, B} : B \in row[i].blockedBy }
    <3>1. /\ pc[p] = "deps" /\ pc'[p] = "mergeA" /\ UNCHANGED << row, req, draft >>
          /\ todo'[p] = deps
          /\ read'[p] = [i \in DOMAIN read[p] \cup deps |->
                           IF i \in deps THEN row[i].blockedBy ELSE read[p][i]]
      BY <2>5 DEF FindDependents, TypeInv, Types, Typed
    <3>2. /\ B \notin read[p][A] /\ B \notin read[p][B] /\ read[p][B] = row[B].blockedBy
          /\ A \in DOMAIN read[p] /\ B \in DOMAIN read[p]
      BY <2>1, <3>1 DEF NeitherWaits, MergedInv, MergedAt, Reading
    <3>3. read'[p][A] = read[p][A] /\ read'[p][B] = read[p][B]
      BY <3>1, <3>2
    <3>4. DOMAIN draft[p] = {} /\ Committed' = Committed
      BY <3>1 DEF KeptInv, KeptAt, NoTx, Committed
    <3>5. \A i \in Committed \ {A} : B \in row[i].blockedBy => i \in deps
      BY <3>2
    <3>. HIDE DEF deps
    <3>. QED
      BY <3>1, <3>2, <3>3, <3>4, <3>5 DEF MergedAt, UnionForA
  <2>6. CASE DryRun(p)
    BY <2>6 DEF DryRun, MergedAt, TypeInv, Types, Typed
  <2>7. CASE MergeA(p)
    <3>. DEFINE r == [row[A] EXCEPT !.blockedBy = UnionForA(p)]
    <3>1. /\ pc[p] = "mergeA" /\ Write(p, A, r) /\ UNCHANGED << row, req, todo >>
          /\ pc'[p] = IF todo[p] = {} THEN "mergeB" ELSE "mergeDeps"
      BY <2>7 DEF MergeA, TypeInv, Types, Typed
    <3>2. B \notin UnionForA(p)
      BY <2>1, <3>1 DEF MergedInv, MergedAt
    <3>3. r \in Row /\ r.blockedBy = UnionForA(p)
      <4>1. UnionForA(p) \in SUBSET Ids
        BY <2>1, <3>1, DraftOf DEF UnionForA, Reading
      <4>. QED
        BY <2>2, <4>1 DEF Row
    <3>. HIDE DEF r
    <3>. QED
      BY <2>1, <3>1, <3>2, <3>3, MergedWrite
  <2>8. CASE MergeDependent(p)
    <3>1. PICK i \in todo[p] :
            /\ Write(p, i, [row[i] EXCEPT !.blockedBy = (read[p][i] \ {B}) \cup {A}])
            /\ todo' = [todo EXCEPT ![p] = @ \ {i}]
            /\ pc' = [pc EXCEPT ![p] = IF todo[p] = {i} THEN "mergeB" ELSE "mergeDeps"]
      BY <2>8 DEF MergeDependent
    <3>. DEFINE r == [row[i] EXCEPT !.blockedBy = (read[p][i] \ {B}) \cup {A}]
    <3>2. pc[p] = "mergeDeps" /\ UNCHANGED << row, req >>
      BY <2>8 DEF MergeDependent
    <3>3. row[i] # Nil /\ i \in Ids /\ read[p][i] \in SUBSET Ids
      BY <2>1, <3>2, DraftOf DEF Reading, TypeInv, Local, Todo
    <3>4. r \in Row /\ B \notin r.blockedBy
      BY <2>1, <3>3, RowOf DEF Row
    <3>5. A \in DOMAIN draft[p]
      BY <2>1, <3>2 DEF MergedInv, MergedAt
    <3>6. /\ todo'[p] = todo[p] \ {i}
          /\ pc'[p] = IF todo[p] = {i} THEN "mergeB" ELSE "mergeDeps"
      BY <3>1 DEF TypeInv, Types, Typed
    <3>. HIDE DEF r
    <3>. QED
      BY <2>1, <3>1, <3>2, <3>3, <3>4, <3>5, <3>6, MergedWrite DEF r
  <2>9. CASE MergeB(p)
    <3>. DEFINE r == [row[B] EXCEPT !.status = "SUPERSEDED"]
    <3>1. /\ pc[p] = "mergeB" /\ pc'[p] = "commit" /\ Write(p, B, r) /\ UNCHANGED << row, req, todo >>
      BY <2>9 DEF MergeB, TypeInv, Types, Typed
    <3>2. r \in Row /\ r.blockedBy = row[B].blockedBy
      BY <2>2 DEF Row, TaskStatuses
    <3>3. A \in DOMAIN draft[p] /\ todo[p] = {} /\ B \notin row[B].blockedBy
      BY <2>1, <3>1 DEF MergedInv, MergedAt
    <3>. HIDE DEF r
    <3>. QED
      BY <2>1, <3>1, <3>2, <3>3, MergedWrite
  <2>10. CASE Fail(p)
    BY <2>10 DEF Fail, Rollback, MergedAt, TypeInv, Types, Typed
  <2>. QED
    BY <1>2, <2>3, <2>4, <2>5, <2>6, <2>7, <2>8, <2>9, <2>10 DEF Acts, MergePcs, Receive,
       GuardRead, GuardSet, Draw, InsertTask, InsertDuplicate, InsertEdges, EdgesFail,
       CommitAborted, ReadTask, UpdateStatus, Scan, RescoreRow, Commit, CommitUnacked, CommitAs,
       Answer
<1>3. CASE pc[p] = "commit"
  <2>1. CASE Fail(p) \/ CommitUnacked(p)
    BY <2>1 DEF Fail, Rollback, CommitUnacked, CommitAs, MergedAt, TypeInv, Types, Typed
  <2>2. CASE Commit(p) /\ req[p].kind = "merge"
    <3>1. /\ pc'[p] = "answer" /\ req' = req
          /\ \A i \in Ids : row'[i] = IF i \in DOMAIN draft[p] THEN draft[p][i] ELSE row[i]
      BY <2>2 DEF Commit, CommitAs, Persist, TypeInv, Types, Typed
    <3>2. ASSUME NEW i \in Ids, row'[i] # Nil PROVE B \notin row'[i].blockedBy
      <4>1. CASE i \in DOMAIN draft[p]
        BY <1>3, <2>2, <3>1, <4>1 DEF MergedInv, MergedAt
      <4>2. CASE i \notin DOMAIN draft[p]
        <5>1. i \in Committed \ {A} /\ todo[p] = {} /\ row'[i] = row[i]
          BY <1>3, <2>2, <3>1, <3>2, <4>2 DEF Committed, MergedInv, MergedAt
        <5>. QED
          BY <1>3, <2>2, <4>2, <5>1 DEF MergedInv, MergedAt
      <4>. QED
        BY <4>1, <4>2
    <3>. QED
      BY <3>1, <3>2 DEF MergedAt, Committed
  <2>3. CASE Commit(p) /\ req[p].kind # "merge"
    BY <2>3 DEF Commit, CommitAs, MergedAt
  <2>. QED
    BY <1>3, <2>1, <2>2, <2>3 DEF Acts, Receive,
       GuardRead, GuardSet, Draw, InsertTask, InsertDuplicate, InsertEdges, EdgesFail,
       CommitAborted, ReadTask, UpdateStatus, Scan, RescoreRow, ReadA, ReadB, FindDependents,
       DryRun, MergeA, MergeDependent, MergeB, Answer
<1>4. CASE pc[p] \notin MergePcs \cup { "commit" }
  <2>1. CASE Receive(p)
    BY <2>1 DEF Receive, MergedAt, TypeInv, Types, Typed
  <2>2. CASE Answer(p)
    BY <2>2 DEF Answer, MergedAt, TypeInv, Types, Typed
  <2>3. CASE Fail(p) \/ InsertDuplicate(p)
    BY <2>3 DEF Fail, InsertDuplicate, Rollback, MergedAt, TypeInv, Types, Typed
  <2>4. CASE \/ GuardRead(p) \/ GuardSet(p) \/ Draw(p) \/ InsertTask(p) \/ InsertEdges(p)
             \/ EdgesFail(p) \/ CommitAborted(p) \/ ReadTask(p) \/ UpdateStatus(p) \/ Scan(p)
             \/ RescoreRow(p)
    <3>1. req' = req /\ pc[p] \in CreatePcs \cup ClosePcs
      BY <2>4 DEF GuardRead, GuardSet, Draw, InsertTask, InsertEdges, EdgesFail, CommitAborted,
         ReadTask, UpdateStatus, Scan, RescoreRow, CreatePcs, ClosePcs
    <3>2. req[p].kind # "merge"
      BY <3>1 DEF TypeInv, Local, Serving, CascadeInv, ScannedAt, CreatePcs, ClosePcs,
         CreateKinds, CloseKinds
    <3>. QED
      BY <3>1, <3>2 DEF MergedAt
  <2>. QED
    BY <1>4, <2>1, <2>2, <2>3, <2>4 DEF Acts, MergePcs, ReadA, ReadB, FindDependents, DryRun,
       MergeA, MergeDependent, MergeB, Commit, CommitUnacked, CommitAs
<1>. QED
  BY <1>2, <1>3, <1>4

\* MergeTasks: a merge that has answered 200 leaves nobody waiting for the
\* absorbed task, unless one of the two waited for it or another transaction
\* committed meanwhile.
THEOREM LoneMergesFreeDependents ==
  Spec /\ []MergesAlone /\ []NeitherWaits => []MergedBlocksNobody
<1>1. Init => MergedInv
  BY DEF Init, MergedInv, MergedAt
<1>2. ASSUME TypeInv, CascadeInv, KeptInv, MergedInv, MergesAlone, NeitherWaits, [Next]_vars
      PROVE  MergedInv'
  <2>1. CASE PythonInsert
    <3>1. /\ UNCHANGED << pc, req, draft, code, read, todo >>
          /\ \A i \in Ids : row[i] # Nil => row'[i] = row[i]
          /\ \A i \in Ids : row'[i] = row[i] \/ row'[i].blockedBy = {}
      BY <1>2, <2>1, PythonAside DEF PythonInsert, tx, TypeInv, Types, Typed
    <3>2. \A p \in Procs : pc[p] \in MergePcs \cup { "commit" } /\ req[p].kind = "merge" =>
            req[p].by \in Ids /\ row[req[p].by] # Nil
      BY <1>2, RequestOf DEF TypeInv, Local, Serving, MergePcs, CreateKinds
    <3>. QED
      BY <1>2, <3>1, <3>2 DEF MergedInv, MergedAt, UnionForA, Committed, MergePcs
  <2>2. CASE UNCHANGED vars
    BY <1>2, <2>2 DEF vars, tx, MergedInv, MergedAt, UnionForA, Committed
  <2>3. CASE \E p \in Procs : Acts(p)
    BY <1>2, <2>3, MergedStep
  <2>. QED
    BY <1>2, <2>1, <2>2, <2>3 DEF Next, Quiescent, Acts
<1>3. MergedInv => MergedBlocksNobody
  BY DEF MergedInv, MergedAt, MergedBlocksNobody
<1>. QED
  BY <1>1, <1>2, <1>3, KeptAlways, PTL DEF Spec
=============================================================================
