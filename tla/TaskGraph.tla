----------------------------- MODULE TaskGraph -----------------------------
(***************************************************************************)
(* Task ids and blocked_by: the transactions that insert tasks, finish     *)
(* them, drop them and merge them, run by several request goroutines.      *)
(*                                                                         *)
(*   create, subtasks   setval of the id sequence to MAX(id) (guard,       *)
(*                      setval), INSERT with nextval and the unique index  *)
(*                      (draw, insert), task_edges rows (edges), COMMIT    *)
(*   finish             advance to DONE: UPDATE of the own row (update),   *)
(*                      SELECT of the open tasks ORDER BY id FOR UPDATE    *)
(*                      (scan, rescore), their blocked_by written, COMMIT  *)
(*   cancel, supersede  UPDATE of the own row (update), COMMIT             *)
(*   merge              two GetTasks (readA, readB) and a query for the    *)
(*                      dependents (deps), all outside the transaction;    *)
(*                      UPDATE of A, of each dependent and of B (mergeA,   *)
(*                      mergeDeps, mergeB), COMMIT                         *)
(*                                                                         *)
(* The database runs READ COMMITTED.  A sequence is not transactional, an  *)
(* INSERT of a key somebody else has inserted waits for that transaction,  *)
(* and SELECT FOR UPDATE re-reads a row it had to wait for.                *)
(*                                                                         *)
(* The gates of a command, its audit rows, the read cache and the parent   *)
(* that a new child reopens are in TaskLifecycle.tla and left out here.    *)
(***************************************************************************)
EXTENDS Naturals, FiniteSets, FiniteSetsExt

CONSTANTS
  Procs,         \* request goroutines
  Nil,           \* no row, no lock holder, no request, no reply
  StartRow,      \* [Ids -> Row \cup {Nil}], the tasks table when the model starts
  StartSeq,      \* the id sequence then; Python's inserts do not advance it
  Kinds,         \* the commands this instance receives
  SentBlockers,  \* the blocked_by lists its create calls carry
  MaxId,         \* bound: the largest task id
  MaxPhases,     \* bound: how many phases a plan has
  MaxRequests    \* bound: how many requests are received in all

Ids == 1 .. MaxId

\* "open" stands for every status that rescoring looks at.
TaskStatuses == { "open", "DONE", "CANCELLED", "SUPERSEDED" }

Row == [ status : TaskStatuses, blockedBy : SUBSET Ids ]

mergeTerminalStatuses == { "CANCELLED", "SUPERSEDED" }

CreateKinds == { "create", "subtasks" }
CloseKinds == { "finish", "cancel", "supersede" }
AllKinds == CreateKinds \cup CloseKinds \cup { "merge" }

\* task is the task to close or the one that absorbs, by the absorbed one.
Request == [ kind : AllKinds, task : Ids, by : Ids,
             blockers : SUBSET Ids, phases : 1 .. MaxPhases ]

ASSUME GraphAssumption ==
  /\ MaxId \in Nat \ {0} /\ MaxPhases \in Nat \ {0} /\ MaxRequests \in Nat
  /\ Nil \notin Procs \cup Row \cup Request
  /\ StartRow \in [Ids -> Row \cup {Nil}]
  /\ StartSeq \in 0 .. MaxId
  /\ Kinds \subseteq AllKinds
  /\ SentBlockers \subseteq SUBSET Ids

VARIABLES
  row,      \* tasks, committed: [Ids -> Row \cup {Nil}]
  lock,     \* who has locked, or inserted, the row of an id
  seq,      \* last value of the id sequence, not part of any transaction
  pc, req,  \* per goroutine: where it is and what it serves
  want,     \* the id its nextval has drawn
  ids,      \* the ids its transaction has inserted
  draft,    \* the rows its transaction has written, by id
  todo,     \* the ids it has yet to write, in the scan or among the dependents
  read,     \* merge: the blocked_by lists it has read, by id
  code,     \* the reply: "200", "dry" (a dry run), "422", "500"
  served,   \* how many requests have been received
  before,   \* history: the committed ids when its guard read MAX(id)
  crossed,  \* history: has another guard set the sequence since its own did
  scanned,  \* history: the open ids when its scan began
  rescored, \* history: the ids that the scan of a DONE task began with
  merged    \* history: the ids whose blocked_by a merge has written

tx == << want, ids, draft, todo, read >>
history == << before, crossed, scanned, rescored, merged >>
vars == << row, lock, seq, pc, req, tx, code, served, history >>

\* The partial function f with the value v at i.
With(f, i, v) == [j \in DOMAIN f \cup {i} |-> IF j = i THEN v ELSE f[j]]

Committed == { i \in Ids : row[i] # Nil }
Open == { i \in Committed : row[i].status = "open" }

-----------------------------------------------------------------------------
Init ==
  /\ row = StartRow
  /\ lock = [i \in Ids |-> Nil]
  /\ seq = StartSeq
  /\ pc = [p \in Procs |-> "idle"]
  /\ req = [p \in Procs |-> Nil]
  /\ want = [p \in Procs |-> 0]
  /\ ids = [p \in Procs |-> {}]
  /\ draft = [p \in Procs |-> << >>]
  /\ todo = [p \in Procs |-> {}]
  /\ read = [p \in Procs |-> << >>]
  /\ code = [p \in Procs |-> Nil]
  /\ served = 0
  /\ before = [p \in Procs |-> {}]
  /\ crossed = [p \in Procs |-> FALSE]
  /\ scanned = [p \in Procs |-> {}]
  /\ rescored = [i \in Ids |-> {}]
  /\ merged = {}

Goto(p, l) == pc' = [pc EXCEPT ![p] = l]

Reply(p, c) == Goto(p, "answer") /\ code' = [code EXCEPT ![p] = c]

\* UPDATE ... WHERE id = i, whose row nobody else has locked.
Write(p, i, r) ==
  /\ lock' = [lock EXCEPT ![i] = p]
  /\ draft' = [draft EXCEPT ![p] = With(@, i, r)]

ReleaseLocks(p) == lock' = [i \in Ids |-> IF lock[i] = p THEN Nil ELSE lock[i]]

Rollback(p) ==
  /\ ReleaseLocks(p)
  /\ draft' = [draft EXCEPT ![p] = << >>]
  /\ Reply(p, "500")
  /\ UNCHANGED << row, req, want, ids, todo, read, served, history >>

\* What the callers may send; a create's blockers need not exist.
Sent ==
  LET Req(k, t, u, b, n) ==
        [ kind |-> k, task |-> t, by |-> u, blockers |-> b, phases |-> n ]
  IN { Req("create", 1, 1, b, 1) : b \in SentBlockers }
       \cup { Req("subtasks", 1, 1, {}, n) : n \in 1 .. MaxPhases }
       \cup { Req(k, t, t, {}, 1) : k \in CloseKinds, t \in Ids }
       \cup { Req("merge", t, u, {}, 1) : t \in Ids, u \in Ids }

Receive(p) ==
  /\ pc[p] = "idle" /\ served < MaxRequests
  /\ \E r \in Sent :
       /\ r.kind \in Kinds
       /\ r.kind \notin CreateKinds => {r.task, r.by} \subseteq Committed
       /\ r.kind = "merge" => r.task # r.by
       /\ req' = [req EXCEPT ![p] = r]
       /\ Goto(p, IF r.kind \in CreateKinds THEN "guard"
                  ELSE IF r.kind = "merge" THEN "readA" ELSE "read")
  /\ served' = served + 1
  /\ UNCHANGED << row, lock, seq, tx, code, history >>

-----------------------------------------------------------------------------
(* create and subtasks-from-plan. *)

\* SELECT setval(..., (SELECT MAX(id) FROM tasks)): the MAX is that of the
\* statement's snapshot, the sequence is set when it has been computed.
GuardRead(p) ==
  /\ pc[p] = "guard"
  /\ before' = [before EXCEPT ![p] = Committed]
  /\ Goto(p, "setval")
  /\ UNCHANGED << row, lock, seq, req, tx, code, served, crossed, scanned, rescored, merged >>

\* Mutant: the guard is left out.
GuardedSeqNone(p) == seq

\* Mutant: the next id and not the last one.
GuardedSeqNext(p) == IF before[p] = {} THEN 1 ELSE Max(before[p]) + 1

\* COALESCE(MAX(id), 1)
GuardedSeq(p) == IF before[p] = {} THEN 1 ELSE Max(before[p])

GuardSet(p) ==
  /\ pc[p] = "setval"
  /\ seq' = GuardedSeq(p)
  /\ crossed' = [q \in Procs |-> q # p]
  /\ Goto(p, "draw")
  /\ UNCHANGED << row, lock, req, tx, code, served, before, scanned, rescored, merged >>

\* nextval, not undone by a rollback.
Draw(p) ==
  /\ pc[p] = "draw" /\ seq < MaxId
  /\ seq' = seq + 1
  /\ want' = [want EXCEPT ![p] = seq + 1]
  /\ Goto(p, "insert")
  /\ UNCHANGED << row, lock, req, ids, draft, todo, read, code, served, history >>

\* The primary key: an id that another open transaction has inserted makes
\* this one wait for its end.
InsertTask(p) ==
  LET i == want[p] IN
  /\ pc[p] = "insert" /\ row[i] = Nil /\ lock[i] = Nil
  /\ Write(p, i, [ status |-> "open", blockedBy |-> req[p].blockers ])
  /\ ids' = [ids EXCEPT ![p] = @ \cup {i}]
  /\ Goto(p, IF Cardinality(ids[p]) + 1 < req[p].phases THEN "draw"
             ELSE IF req[p].blockers # {} THEN "edges" ELSE "commit")
  /\ UNCHANGED << row, seq, req, want, todo, read, code, served, history >>

\* duplicate key value violates unique constraint: the id is a committed row's,
\* or this transaction's own, drawn a second time.
InsertDuplicate(p) ==
  /\ pc[p] = "insert"
  /\ row[want[p]] # Nil \/ want[p] \in ids[p]
  /\ Rollback(p)
  /\ UNCHANGED seq

InsertEdges(p) ==
  /\ pc[p] = "edges"
  /\ Goto(p, "commit")
  /\ UNCHANGED << row, lock, seq, req, tx, code, served, history >>

\* A failed task_edges INSERT is only noted as an advisory, but the statement
\* has aborted the transaction and everything after it.
EdgesFail(p) ==
  /\ pc[p] = "edges"
  /\ ReleaseLocks(p)
  /\ draft' = [draft EXCEPT ![p] = << >>]
  /\ Goto(p, "aborted")
  /\ UNCHANGED << row, seq, req, want, ids, todo, read, code, served, history >>

\* Mutant: the outcome of Commit is not looked at.
AbortedReplyIgnored(p) == "200"

\* COMMIT of an aborted transaction is a ROLLBACK, which pgx reports.
AbortedReply(p) == "500"

CommitAborted(p) ==
  /\ pc[p] = "aborted"
  /\ Reply(p, AbortedReply(p))
  /\ UNCHANGED << row, lock, seq, req, tx, served, history >>

-----------------------------------------------------------------------------
(* finish (advance to DONE), cancel, supersede. *)

\* The statuses from which each of them may start.
MayClose(kind, status) ==
  \/ status = "open"
  \/ kind = "supersede" /\ status = "DONE"

ClosedStatus(kind) ==
  CASE kind = "finish" -> "DONE"
    [] kind = "cancel" -> "CANCELLED"
    [] OTHER           -> "SUPERSEDED"

\* A cached row would be the same read at an earlier time.
ReadTask(p) ==
  /\ pc[p] = "read"
  /\ IF MayClose(req[p].kind, row[req[p].task].status)
       THEN Goto(p, "update") /\ UNCHANGED code
       ELSE Reply(p, "422")
  /\ UNCHANGED << row, lock, seq, req, tx, served, history >>

UpdateStatus(p) ==
  LET t == req[p].task IN
  /\ pc[p] = "update" /\ lock[t] = Nil
  /\ Write(p, t, [row[t] EXCEPT !.status = ClosedStatus(req[p].kind)])
  /\ Goto(p, IF req[p].kind = "finish" THEN "scan" ELSE "commit")
  /\ UNCHANGED << row, seq, req, want, ids, todo, read, code, served, history >>

\* SELECT ... WHERE status NOT IN (...) AND id != $1: the rows of the
\* statement's snapshot, locked one after the other by RescoreRow.
Scan(p) ==
  LET open == Open \ {req[p].task} IN
  /\ pc[p] = "scan"
  /\ todo' = [todo EXCEPT ![p] = open]
  /\ scanned' = [scanned EXCEPT ![p] = open]
  /\ Goto(p, IF open = {} THEN "commit" ELSE "rescore")
  /\ UNCHANGED << row, lock, seq, req, want, ids, draft, read, code, served,
                  before, crossed, rescored, merged >>

\* Mutant: the scan does not say FOR UPDATE.
ScanMayTakeUnlocked(i) == TRUE

ScanMayTake(i) == lock[i] = Nil

\* RecalculateUnblocked takes the finished task out of the list.
Scrub(blockedBy, closed) == blockedBy \ {closed}

\* ORDER BY id FOR UPDATE: a row that had to be waited for is read again, and
\* left out when it no longer satisfies the WHERE clause.
RescoreRow(p) ==
  LET i == Min(todo[p]) IN
  /\ pc[p] = "rescore" /\ ScanMayTake(i)
  /\ IF row[i].status = "open"
       THEN Write(p, i, [row[i] EXCEPT !.blockedBy = Scrub(@, req[p].task)])
       ELSE UNCHANGED << lock, draft >>
  /\ todo' = [todo EXCEPT ![p] = @ \ {i}]
  /\ Goto(p, IF todo[p] = {i} THEN "commit" ELSE "rescore")
  /\ UNCHANGED << row, seq, req, want, ids, read, code, served, history >>

-----------------------------------------------------------------------------
(* merge of B (by) into A (task). *)

\* What GetTask returns of a task; a terminal A or B is refused.
ReadMerged(p, i, next) ==
  /\ IF row[i].status \in mergeTerminalStatuses
       THEN Reply(p, "422") /\ UNCHANGED read
       ELSE /\ read' = [read EXCEPT ![p] = With(@, i, row[i].blockedBy)]
            /\ Goto(p, next) /\ UNCHANGED code
  /\ UNCHANGED << row, lock, seq, req, want, ids, draft, todo, served, history >>

ReadA(p) == pc[p] = "readA" /\ ReadMerged(p, req[p].task, "readB")

ReadB(p) == pc[p] = "readB" /\ ReadMerged(p, req[p].by, "deps")

\* One query for the rows of any status with B in blocked_by; A is skipped.
FindDependents(p) ==
  LET A == req[p].task
      B == req[p].by
      deps == { i \in Committed \ {A, B} : B \in row[i].blockedBy }
  IN
  /\ pc[p] = "deps"
  /\ read' = [read EXCEPT ![p] =
       [i \in DOMAIN @ \cup deps |-> IF i \in deps THEN row[i].blockedBy ELSE @[i]]]
  /\ todo' = [todo EXCEPT ![p] = deps]
  /\ Goto(p, "mergeA")
  /\ UNCHANGED << row, lock, seq, req, want, ids, draft, code, served, history >>

DryRun(p) ==
  /\ pc[p] = "mergeA"
  /\ Reply(p, "dry")
  /\ UNCHANGED << row, lock, seq, req, tx, served, history >>

\* The sorted union of both lists as they were read, without A itself.
UnionForA(p) ==
  (read[p][req[p].task] \cup read[p][req[p].by]) \ {req[p].task}

MergeA(p) ==
  LET A == req[p].task IN
  /\ pc[p] = "mergeA" /\ lock[A] = Nil
  /\ Write(p, A, [row[A] EXCEPT !.blockedBy = UnionForA(p)])
  /\ merged' = merged \cup {A}
  /\ Goto(p, IF todo[p] = {} THEN "mergeB" ELSE "mergeDeps")
  /\ UNCHANGED << row, seq, req, want, ids, todo, read, code, served,
                  before, crossed, scanned, rescored >>

\* The list that was read, with A in the place of B; in the order of the query,
\* which names none.
MergeDependent(p) ==
  LET A == req[p].task
      B == req[p].by
  IN
  /\ pc[p] = "mergeDeps"
  /\ \E i \in todo[p] :
       /\ lock[i] = Nil
       /\ Write(p, i, [row[i] EXCEPT !.blockedBy = (read[p][i] \ {B}) \cup {A}])
       /\ merged' = merged \cup {i}
       /\ todo' = [todo EXCEPT ![p] = @ \ {i}]
       /\ Goto(p, IF todo[p] = {i} THEN "mergeB" ELSE "mergeDeps")
  /\ UNCHANGED << row, seq, req, want, ids, read, code, served,
                  before, crossed, scanned, rescored >>

\* No predicate on the status, and closed_at is not set.
MergeB(p) ==
  LET B == req[p].by IN
  /\ pc[p] = "mergeB" /\ lock[B] = Nil
  /\ Write(p, B, [row[B] EXCEPT !.status = "SUPERSEDED"])
  /\ Goto(p, "commit")
  /\ UNCHANGED << row, seq, req, want, ids, todo, read, code, served, history >>

-----------------------------------------------------------------------------
(* The end of a transaction. *)

\* What COMMIT makes visible; rescored remembers the scan of a DONE.
Persist(p) ==
  /\ row' = [i \in Ids |-> IF i \in DOMAIN draft[p] THEN draft[p][i] ELSE row[i]]
  /\ ReleaseLocks(p)
  /\ draft' = [draft EXCEPT ![p] = << >>]
  /\ rescored' = IF req[p].kind = "finish"
                   THEN [rescored EXCEPT ![req[p].task] = @ \cup scanned[p]]
                   ELSE rescored

CommitAs(p, c) ==
  /\ pc[p] = "commit"
  /\ Persist(p)
  /\ Reply(p, c)
  /\ UNCHANGED << seq, req, want, ids, todo, read, served, before, crossed, scanned, merged >>

Commit(p) == CommitAs(p, "200")

\* Postgres commits, the acknowledgement does not arrive.
CommitUnacked(p) == CommitAs(p, "500")

\* The 10 s request timeout, a lost connection, a statement that fails or the
\* victim of a deadlock: the deferred Rollback undoes an open transaction.
Fail(p) ==
  /\ pc[p] \notin { "idle", "answer", "aborted" }
  /\ Rollback(p)
  /\ UNCHANGED seq

Answer(p) ==
  /\ pc[p] = "answer"
  /\ Goto(p, "idle")
  /\ req' = [req EXCEPT ![p] = Nil]
  /\ want' = [want EXCEPT ![p] = 0]
  /\ ids' = [ids EXCEPT ![p] = {}]
  /\ todo' = [todo EXCEPT ![p] = {}]
  /\ read' = [read EXCEPT ![p] = << >>]
  /\ code' = [code EXCEPT ![p] = Nil]
  /\ before' = [before EXCEPT ![p] = {}]
  /\ crossed' = [crossed EXCEPT ![p] = FALSE]
  /\ scanned' = [scanned EXCEPT ![p] = {}]
  /\ UNCHANGED << row, lock, seq, draft, served, rescored, merged >>

\* Python's next_id: INSERT of MAX(id) + 1, which leaves the sequence alone.
PythonInsert ==
  LET i == IF Committed = {} THEN 1 ELSE Max(Committed) + 1 IN
  /\ i \in Ids /\ lock[i] = Nil
  /\ row' = [row EXCEPT ![i] = [ status |-> "open", blockedBy |-> {} ]]
  /\ UNCHANGED << lock, seq, pc, req, tx, code, served, history >>

Quiescent ==
  /\ served = MaxRequests /\ \A p \in Procs : pc[p] = "idle"
  /\ UNCHANGED vars

Next ==
  \/ \E p \in Procs :
       \/ Receive(p)
       \/ GuardRead(p) \/ GuardSet(p) \/ Draw(p) \/ InsertTask(p)
       \/ InsertDuplicate(p) \/ InsertEdges(p) \/ EdgesFail(p) \/ CommitAborted(p)
       \/ ReadTask(p) \/ UpdateStatus(p) \/ Scan(p) \/ RescoreRow(p)
       \/ ReadA(p) \/ ReadB(p) \/ FindDependents(p) \/ DryRun(p)
       \/ MergeA(p) \/ MergeDependent(p) \/ MergeB(p)
       \/ Commit(p) \/ CommitUnacked(p) \/ Fail(p) \/ Answer(p)
  \/ PythonInsert
  \/ Quiescent

Spec == Init /\ [][Next]_vars

-----------------------------------------------------------------------------
(* Properties. *)

Typed ==
  /\ row \in [Ids -> Row \cup {Nil}]
  /\ lock \in [Ids -> Procs \cup {Nil}]
  /\ seq \in 0 .. MaxId
  /\ pc \in [Procs -> { "idle", "guard", "setval", "draw", "insert", "edges",
                        "aborted", "read", "update", "scan", "rescore", "readA",
                        "readB", "deps", "mergeA", "mergeDeps", "mergeB",
                        "commit", "answer" }]
  /\ req \in [Procs -> Request \cup {Nil}]
  /\ want \in [Procs -> 0 .. MaxId]
  /\ ids \in [Procs -> SUBSET Ids]
  /\ todo \in [Procs -> SUBSET Ids]
  /\ code \in [Procs -> { "200", "dry", "422", "500", Nil }]
  /\ served \in Nat
  /\ before \in [Procs -> SUBSET Ids]
  /\ crossed \in [Procs -> BOOLEAN]
  /\ scanned \in [Procs -> SUBSET Ids]
  /\ rescored \in [Ids -> SUBSET Ids]
  /\ merged \subseteq Ids

\* Every variable has its type; what is written and read are partial functions.
TypeOK ==
  /\ Typed
  /\ DOMAIN draft = Procs /\ DOMAIN read = Procs
  /\ \A p \in Procs :
       /\ \E D \in SUBSET Ids : draft[p] \in [D -> Row]
       /\ \E D \in SUBSET Ids : read[p] \in [D -> SUBSET Ids]

\* An open task that is blocked by a DONE one was not there when that task's
\* rescore began, or a merge has written its list: two finishing advances,
\* closing writers and rollbacks in between never lose a scrub.
CascadeComplete ==
  \A i \in Open : \A b \in row[i].blockedBy \cap Committed :
    row[b].status = "DONE" => i \notin rescored[b] \/ i \in merged

\* A blocker leaves the list of a task only because it is finished or by a
\* merge: a finishing advance never writes back a list that another one, or a
\* merge that gave the task new blockers, has changed since it read it.
OnlyTheFinishedVanish ==
  [][ \A i \in Committed :
        \A b \in row[i].blockedBy \ row'[i].blockedBy :
          \E p \in Procs : /\ pc[p] = "commit"
                           /\ \/ req[p].kind = "merge"
                              \/ req[p].kind = "finish" /\ req[p].task = b ]_vars

\* An INSERT hits an id that was taken when its own serial guard read MAX(id)
\* only if another guard has set the sequence since: without a second create,
\* ids that Python inserted past the sequence never make a create fail.
CollisionNeedsOverlap ==
  [][ \A p \in Procs :
        InsertDuplicate(p) => want[p] \notin before[p] \/ crossed[p] ]_vars

\* A create or a subtasks-from-plan that answers 200 has committed one row for
\* every task it was asked for, whatever its statements met on the way.
CreatedIsThere ==
  \A p \in Procs :
    pc[p] = "answer" /\ code[p] = "200" /\ req[p].kind \in CreateKinds =>
      ids[p] \subseteq Committed /\ Cardinality(ids[p]) = req[p].phases

-----------------------------------------------------------------------------
\* The doc of MergeTasks: "dependents of B (T.blocked_by contains B) get B
\* replaced with A": when a merge answers 200 nobody waits for B any more.
MergedBlocksNobody ==
  \A p \in Procs :
    pc[p] = "answer" /\ code[p] = "200" /\ req[p].kind = "merge" =>
      \A i \in Committed : req[p].by \notin row[i].blockedBy
=============================================================================
