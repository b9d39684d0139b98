------------------------ MODULE TaskLifecycle_proofs ------------------------
(***************************************************************************)
(* Proofs about TaskLifecycle for any number of tasks, goroutines and      *)
(* requests, any workflows, any custom reviewers and any database the      *)
(* server may start on.                                                    *)
(***************************************************************************)
EXTENDS TaskLifecycle, FiniteSetTheorems, TLAPS

-----------------------------------------------------------------------------
(* The pure rules. *)

\* The three maps, move by move.
LEMMA AdvanceMaps ==
  /\ \A s \in DOMAIN codeTaskAdvanceMap :
       << s, codeTaskAdvanceMap[s] >> \in
         { << "BACKLOG", "PLANNING" >>, << "PLANNING", "READY" >>,
           << "READY", "IN_PROGRESS" >>, << "IN_PROGRESS", "IN_REVIEW" >>,
           << "IN_REVIEW", "AWAITING_APPROVAL" >>, << "AWAITING_APPROVAL", "DONE" >> }
  /\ \A s \in DOMAIN fixAdvanceMap :
       << s, fixAdvanceMap[s] >> \in
         { << "BACKLOG", "SCOPED" >>, << "SCOPED", "IN_PROGRESS" >>,
           << "IN_PROGRESS", "IN_REVIEW" >>, << "IN_REVIEW", "AWAITING_APPROVAL" >>,
           << "AWAITING_APPROVAL", "DONE" >> }
  /\ \A s \in DOMAIN thinkTaskAdvanceMap :
       << s, thinkTaskAdvanceMap[s] >> \in
         { << "BACKLOG", "PLANNING" >>, << "PLANNING", "READY" >>,
           << "READY", "IN_PROGRESS" >>, << "IN_PROGRESS", "REVIEW" >>,
           << "REVIEW", "AWAITING_APPROVAL" >>, << "AWAITING_APPROVAL", "DONE" >> }
<1>1. ASSUME NEW s \in DOMAIN codeTaskAdvanceMap
      PROVE  << s, codeTaskAdvanceMap[s] >> \in
         { << "BACKLOG", "PLANNING" >>, << "PLANNING", "READY" >>,
           << "READY", "IN_PROGRESS" >>, << "IN_PROGRESS", "IN_REVIEW" >>,
           << "IN_REVIEW", "AWAITING_APPROVAL" >>, << "AWAITING_APPROVAL", "DONE" >> }
  BY DEF codeTaskAdvanceMap
<1>2. ASSUME NEW s \in DOMAIN fixAdvanceMap
      PROVE  << s, fixAdvanceMap[s] >> \in
         { << "BACKLOG", "SCOPED" >>, << "SCOPED", "IN_PROGRESS" >>,
           << "IN_PROGRESS", "IN_REVIEW" >>, << "IN_REVIEW", "AWAITING_APPROVAL" >>,
           << "AWAITING_APPROVAL", "DONE" >> }
  BY DEF fixAdvanceMap
<1>3. ASSUME NEW s \in DOMAIN thinkTaskAdvanceMap
      PROVE  << s, thinkTaskAdvanceMap[s] >> \in
         { << "BACKLOG", "PLANNING" >>, << "PLANNING", "READY" >>,
           << "READY", "IN_PROGRESS" >>, << "IN_PROGRESS", "REVIEW" >>,
           << "REVIEW", "AWAITING_APPROVAL" >>, << "AWAITING_APPROVAL", "DONE" >> }
  BY DEF thinkTaskAdvanceMap
<1>. QED
  BY <1>1, <1>2, <1>3

\* advance leads to a status or nowhere, into the reviewed statuses only from
\* the status before, and nowhere from a status that closes.
LEMMA AdvanceTarget ==
  ASSUME NEW s, NEW w
  PROVE  /\ ComputeAdvanceTarget(s, w) \in Statuses \cup {NoTarget}
         /\ ComputeAdvanceTarget(s, w) \in {"IN_REVIEW", "REVIEW"} => s = "IN_PROGRESS"
         /\ ComputeAdvanceTarget(s, w) = "DONE" => s = "AWAITING_APPROVAL"
         /\ ComputeAdvanceTarget(s, w) # NoTarget =>
              s \notin { "DONE", "CANCELLED", "SUPERSEDED", "INVESTIGATING" }
<1>1. CASE w \in { "", "code_task" } /\ s \in DOMAIN codeTaskAdvanceMap
  BY <1>1, AdvanceMaps DEF ComputeAdvanceTarget, Statuses, NoTarget
<1>2. CASE w = "fix" /\ s \in DOMAIN fixAdvanceMap
  BY <1>2, AdvanceMaps DEF ComputeAdvanceTarget, Statuses, NoTarget
<1>3. CASE w = "think_task" /\ s \in DOMAIN thinkTaskAdvanceMap
  BY <1>3, AdvanceMaps DEF ComputeAdvanceTarget, Statuses, NoTarget
<1>4. CASE ComputeAdvanceTarget(s, w) = NoTarget
  BY <1>4 DEF NoTarget
<1>5. \/ w \in { "", "code_task" } /\ s \in DOMAIN codeTaskAdvanceMap
      \/ w = "fix" /\ s \in DOMAIN fixAdvanceMap
      \/ w = "think_task" /\ s \in DOMAIN thinkTaskAdvanceMap
      \/ ComputeAdvanceTarget(s, w) = NoTarget
  BY DEF ComputeAdvanceTarget
<1>. QED
  BY <1>1, <1>2, <1>3, <1>4, <1>5

\* The reviewers a gate may ask are reviewers.
LEMMA GatesType ==
  ASSUME NEW r \in Request, NEW s \in Row
  PROVE  Gates(r, s) \in SUBSET Reviewers
<1>1. Required(r.task, s.mode) \in SUBSET Reviewers
  BY ConfigAssumption DEF Required, getRequiredReviews, defaultReviewers, Reviewers,
     Request, Workflows, Modes
<1>. QED
  BY <1>1 DEF Gates, GateReviewers, Reviewers

\* What the handlers write is a status, or nothing.
LEMMA StatusWrittenType ==
  ASSUME NEW r \in Request, NEW s \in Row
  PROVE  StatusWritten(r, s) \in Statuses \cup {NoTarget}
<1>1. ComputeAdvanceTarget(s.status, WorkflowOf[r.task]) \in Statuses \cup {NoTarget}
  BY AdvanceTarget
<1>. QED
  BY <1>1 DEF StatusWritten, Statuses

\* A review writes a verdict and leaves the task alone.
LEMMA ReviewWritesNoRow ==
  ASSUME NEW r, NEW s, r.kind \in ReviewKinds
  PROVE  StatusWritten(r, s) = NoTarget /\ ~WritesRow(r, s)
<1>1. StatusWritten(r, s) = NoTarget
  BY DEF StatusWritten, ReviewKinds, ParentKinds
<1>. QED
  BY <1>1 DEF WritesRow, RefetchKinds, StatusKinds, ReviewKinds

\* Reviews, and only reviews, open their transaction with the un-marking.
LEMMA ReviewsMark ==
  ASSUME NEW r, NEW s
  PROVE  /\ TxStart(r, s) \in { "mark", "update", "commit" }
         /\ TxStart(r, s) = "mark" <=> r.kind \in ReviewKinds
<1>1. CASE r.kind \in ReviewKinds
  BY <1>1, ReviewWritesNoRow DEF TxStart
<1>2. CASE r.kind \notin ReviewKinds
  BY <1>2 DEF TxStart
<1>. QED
  BY <1>1, <1>2

-----------------------------------------------------------------------------
(* What a status earns. *)

\* Verdict rows and modes are only ever added, so what was earned stays earned.
LEMMA EarnedMonotone ==
  ASSUME NEW V, NEW W, V \subseteq W, NEW M, NEW N, M \subseteq N,
         NEW t, NEW s, EarnedIn(V, M, t, s)
  PROVE  EarnedIn(W, N, t, s)
BY DEF EarnedIn, PassedIn

\* A decision taken on an earned status, behind its gates, is itself earned.
LEMMA DecisionEarned ==
  ASSUME NEW V, NEW M, NEW r \in Request, NEW s \in Row, s.mode \in M,
         EarnedIn(V, M, r.task, s.status),
         \A w \in Gates(r, s) : PassedIn(V, r.task, w)
  PROVE  EarnedIn(V, M, r.task, StatusWritten(r, s))
<1>1. CASE r.kind = "advance"
  <2>. DEFINE to == ComputeAdvanceTarget(s.status, WorkflowOf[r.task])
  <2>1. StatusWritten(r, s) = to
    BY <1>1 DEF StatusWritten, ParentKinds
  <2>2. /\ to \in {"IN_REVIEW", "REVIEW"} => s.status = "IN_PROGRESS"
        /\ to = "DONE" => s.status = "AWAITING_APPROVAL"
    BY AdvanceTarget DEF to
  <2>3. \A w \in GateReviewers(s.status, to, Required(r.task, s.mode)) : PassedIn(V, r.task, w)
    BY <1>1, <2>1 DEF Gates
  <2>4. CASE to \in {"IN_REVIEW", "REVIEW"}
    BY <2>1, <2>2, <2>3, <2>4 DEF GateReviewers, EarnedIn, OnTheWay
  <2>5. CASE to = "AWAITING_APPROVAL"
    BY <2>1, <2>3, <2>5 DEF GateReviewers, EarnedIn, OnTheWay
  <2>6. CASE to = "DONE"
    <3>1. s.status = "AWAITING_APPROVAL" /\ PassedIn(V, r.task, "task-closure-reviewer")
      BY <2>2, <2>3, <2>6 DEF GateReviewers
    <3>2. PICK m \in M : \A w \in Required(r.task, m) \ Missing(r.task) : PassedIn(V, r.task, w)
      BY <3>1 DEF EarnedIn, OnTheWay
    <3>. QED
      BY <2>1, <2>6, <3>1, <3>2 DEF EarnedIn, OnTheWay
  <2>7. CASE to \notin {"IN_REVIEW", "REVIEW", "AWAITING_APPROVAL", "DONE"}
    BY <2>1, <2>7 DEF EarnedIn, OnTheWay
  <2>. QED
    BY <2>4, <2>5, <2>6, <2>7
<1>2. CASE r.kind # "advance"
  <2>1. StatusWritten(r, s) \notin {"IN_REVIEW", "REVIEW", "AWAITING_APPROVAL", "DONE"}
    BY <1>2 DEF StatusWritten, NoTarget
  <2>. QED
    BY <2>1 DEF EarnedIn, OnTheWay
<1>. QED
  BY <1>1, <1>2

-----------------------------------------------------------------------------
(* Type correctness.  TypeOK alone is not inductive: a handler that writes   *)
(* holds a request and a row, one that audits has a status to write, one     *)
(* that commits a verdict has inserted it, and whoever is past the checks    *)
(* has passed them.                                                          *)

\* Where a goroutine holds the row that its GetTask returned.
Decided == { "fill", "check", "gate", "update", "audit", "rescore", "mark",
             "insert", "commit", "bump", "reread", "refill" }

WellFormed ==
  \A p \in Procs :
    /\ pc[p] # "idle" => req[p] \in Request
    /\ pc[p] = "parent" => req[p].kind = "create-child"
    /\ pc[p] \in { "mark", "insert" } => req[p].kind \in ReviewKinds
    /\ pc[p] = "gate" => req[p].kind = "advance"
    /\ pc[p] \in { "update", "audit", "rescore" } => req[p].kind \notin ReviewKinds
    /\ pc[p] = "commit" /\ req[p].kind \in ReviewKinds
         => fresh[p] # 0 /\ req[p].verdict # "ACCEPT"
    /\ pc[p] \in Decided => snap[p] \in Row
    /\ pc[p] \in { "audit", "rescore" } => StatusWritten(req[p], snap[p]) # NoTarget
    /\ pc[p] \in { "gate", "update", "audit", "rescore", "mark", "insert", "commit" }
         => Accepts(req[p], snap[p])

TypeInv == TypeOK /\ WellFormed

\* What an instance sends is a request.
LEMMA RequestsType ==
  ASSUME served \in Nat
  PROVE  Requests \subseteq Request
<1>. SUFFICES ASSUME NEW r \in Requests
              PROVE  r \in Request
  OBVIOUS
<1>1. PICK k \in Kinds : r \in Asked(k)
  BY DEF Requests
<1>2. k \in AllKinds
  BY ConfigAssumption
<1>3. r.task \in Tasks
  BY <1>1 DEF Asked
<1>4. SomeAgent \in Agents
  BY <1>3, StartAssumption DEF SomeAgent, Row
<1>5. /\ r.agent \in Agents /\ r.mode \in Modes /\ r.approve \in BOOLEAN /\ r.byExists \in BOOLEAN
      /\ r.reviewer \in Reviewers /\ r.verdict \in SubmittedVerdicts
  BY <1>1, <1>4, ConfigAssumption DEF Asked, Reviewers, SubmittedVerdicts, StoredVerdicts, Modes
<1>6. r.no \in Nat \ {0} /\ r.kind \in AllKinds
  BY <1>1, <1>2 DEF Asked
<1>7. r = [ no |-> r.no, kind |-> r.kind, task |-> r.task, agent |-> r.agent,
            mode |-> r.mode, approve |-> r.approve, byExists |-> r.byExists,
            reviewer |-> r.reviewer, verdict |-> r.verdict ]
  BY <1>1 DEF Asked
<1>. QED
  BY <1>3, <1>5, <1>6, <1>7 DEF Request

\* A row that a handler writes is a row.
LEMMA RowAfterType ==
  ASSUME NEW r \in Request, NEW s \in Row, NEW old \in Row
  PROVE  RowAfter(r, s, old) \in Row
<1>1. StatusWritten(r, s) \in Statuses \cup {NoTarget}
  BY StatusWrittenType
<1>. QED
  BY <1>1 DEF RowAfter, Row, Request, ClosedAfter

LEMMA TypeInit == Init => TypeInv
<1>1. Cardinality(StartVerdicts) \in Nat
  BY StartAssumption, FS_CardinalityType
<1>2. \A v \in StartVerdicts : v.id \in Nat \ {0}
  BY StartAssumption DEF Verdict
<1>. QED
  BY <1>1, <1>2, StartAssumption DEF Init, TypeInv, TypeOK, WellFormed, Decided, Row

LEMMA TypeStep == TypeInv /\ [Next]_vars => TypeInv'
<1>. SUFFICES ASSUME TypeInv, [Next]_vars
              PROVE  TypeInv'
  OBVIOUS
<1>. USE DEF TypeInv, TypeOK, WellFormed, Decided, Goto, Reply, db, locals
<1>1. ASSUME NEW p \in Procs, Receive(p)
      PROVE  TypeInv'
  BY <1>1, RequestsType DEF Receive
<1>2. ASSUME NEW p \in Procs, ReadHit(p)
      PROVE  TypeInv'
  <2>1. cached[req[p].task] \in Row
    BY <1>2 DEF ReadHit, Request
  <2>. QED
    BY <1>2, <2>1 DEF ReadHit
<1>3. ASSUME NEW p \in Procs, RereadHit(p)
      PROVE  TypeInv'
  <2>1. cached[req[p].task] \in Row
    BY <1>3 DEF RereadHit, Request
  <2>. QED
    BY <1>3, <2>1 DEF RereadHit
<1>4. ASSUME NEW p \in Procs, ReadMiss(p)
      PROVE  TypeInv'
  <2>1. row[req[p].task] \in Row
    BY <1>4 DEF ReadMiss, Request
  <2>. QED
    BY <1>4, <2>1 DEF ReadMiss
<1>5. ASSUME NEW p \in Procs, Fill(p)
      PROVE  TypeInv'
  BY <1>5 DEF Fill
<1>6. ASSUME NEW p \in Procs, Refuse(p)
      PROVE  TypeInv'
  BY <1>6 DEF Refuse
<1>7. ASSUME NEW p \in Procs, Decline(p)
      PROVE  TypeInv'
  BY <1>7 DEF Decline
<1>8. ASSUME NEW p \in Procs, Proceed(p)
      PROVE  TypeInv'
  <2>1. Gates(req[p], snap[p]) \in SUBSET Reviewers
    BY <1>8, GatesType DEF Proceed
  <2>2. /\ TxStart(req[p], snap[p]) \in { "mark", "update", "commit" }
        /\ TxStart(req[p], snap[p]) = "mark" <=> req[p].kind \in ReviewKinds
    BY ReviewsMark
  <2>3. Gates(req[p], snap[p]) # {} => req[p].kind = "advance"
    BY DEF Gates
  <2>. QED
    BY <1>8, <2>1, <2>2, <2>3 DEF Proceed
<1>9. ASSUME NEW p \in Procs, NEW w \in Reviewers, GatePass(p, w)
      PROVE  TypeInv'
  BY <1>9 DEF GatePass, ReviewKinds
<1>10. ASSUME NEW p \in Procs, NEW w \in Reviewers, GateFail(p, w)
       PROVE  TypeInv'
  BY <1>10 DEF GateFail
<1>11. ASSUME NEW p \in Procs, ReadParent(p)
       PROVE  TypeInv'
  <2>1. row[req[p].task] \in Row
    BY <1>11 DEF ReadParent, Request
  <2>2. /\ TxStart(req[p], row[req[p].task]) \in { "mark", "update", "commit" }
        /\ TxStart(req[p], row[req[p].task]) = "mark" <=> req[p].kind \in ReviewKinds
    BY ReviewsMark
  <2>3. Accepts(req[p], row[req[p].task])
    BY <1>11 DEF ReadParent, Accepts
  <2>. QED
    BY <1>11, <2>1, <2>2, <2>3 DEF ReadParent
<1>12. ASSUME NEW p \in Procs, UpdateRow(p)
       PROVE  TypeInv'
  BY <1>12 DEF UpdateRow
<1>13. ASSUME NEW p \in Procs, InsertAudit(p)
       PROVE  TypeInv'
  <2>. DEFINE e == [ id |-> nextAudit, req |-> req[p].no, task |-> req[p].task,
                     old |-> snap[p].status, new |-> StatusWritten(req[p], snap[p]) ]
  <2>1. StatusWritten(req[p], snap[p]) \in Statuses
    BY <1>13, StatusWrittenType DEF InsertAudit
  <2>2. e \in AuditEntry
    BY <1>13, <2>1 DEF InsertAudit, AuditEntry, Request, Row
  <2>. QED
    BY <1>13, <2>2 DEF InsertAudit, AuditOld
<1>14. ASSUME NEW p \in Procs, Rescore(p)
       PROVE  TypeInv'
  BY <1>14 DEF Rescore
<1>15. ASSUME NEW p \in Procs, MarkPrior(p)
       PROVE  TypeInv'
  BY <1>15 DEF MarkPrior, Verdict
<1>25. ASSUME NEW p \in Procs, InsertReview(p)
       PROVE  TypeInv'
  BY <1>25 DEF InsertReview
<1>16. ASSUME NEW p \in Procs, pc[p] = "commit", Persist(p)
       PROVE  /\ row' \in [Tasks -> Row] /\ modes' \in [Tasks -> SUBSET Modes]
              /\ lock' \in [Tasks -> Procs \cup {Nil}]
              /\ audit' \subseteq AuditEntry
              /\ verdicts' \subseteq Verdict
              /\ latest' \subseteq Nat \ {0}
              /\ draft' \in [Procs -> SUBSET AuditEntry]
  <2>1. req[p] \in Request /\ snap[p] \in Row /\ req[p].task \in Tasks
    BY <1>16 DEF Request
  <2>2. row' \in [Tasks -> Row]
    BY <1>16, <2>1, RowAfterType DEF Persist
  <2>7. modes' \in [Tasks -> SUBSET Modes]
    BY <1>16, <2>2 DEF Persist, Row
  <2>3. lock' \in [Tasks -> Procs \cup {Nil}]
    BY <1>16 DEF Persist, ReleaseLocks
  <2>4. audit' \subseteq AuditEntry /\ draft' \in [Procs -> SUBSET AuditEntry]
    BY <1>16 DEF Persist, AuditAfter
  <2>5. CASE req[p].kind \in ReviewKinds
    <3>1. [ id |-> fresh[p], task |-> req[p].task, reviewer |-> req[p].reviewer,
            verdict |-> StoredVerdict(req[p].verdict) ] \in Verdict
      BY <1>16, <2>1, <2>5 DEF Persist, Verdict, Request, StoredVerdict,
         SubmittedVerdicts, StoredVerdicts
    <3>2. fresh[p] \in Nat \ {0}
      BY <1>16, <2>5
    <3>. QED
      BY <1>16, <2>2, <2>3, <2>4, <2>5, <2>7, <3>1, <3>2 DEF Persist, LatestAfter
  <2>6. CASE req[p].kind \notin ReviewKinds
    BY <1>16, <2>2, <2>3, <2>4, <2>6, <2>7 DEF Persist
  <2>. QED
    BY <2>5, <2>6
<1>17. ASSUME NEW p \in Procs, Commit(p)
       PROVE  TypeInv'
  <2>1. row[req[p].task].rev + 1 \in Nat
    BY <1>17 DEF Commit, Request, Row
  <2>. QED
    BY <1>16, <1>17, <2>1 DEF Commit
<1>18. ASSUME NEW p \in Procs, CommitUnacked(p)
       PROVE  TypeInv'
  BY <1>16, <1>18 DEF CommitUnacked, ErrorReply
<1>19. ASSUME NEW p \in Procs, pc[p] # "idle", Rollback(p)
       PROVE  TypeInv'
  BY <1>19 DEF Rollback, ReleaseLocks, ErrorReply
<1>20. ASSUME NEW p \in Procs, Bump(p)
       PROVE  TypeInv'
  BY <1>20 DEF Bump
<1>21. ASSUME NEW p \in Procs, RefetchFails(p)
       PROVE  TypeInv'
  <2>1. req[p] \in Request /\ snap[p] \in Row
    BY <1>21 DEF RefetchFails
  <2>2. snap'[p] \in Row
    BY <1>21, <2>1, StatusWrittenType DEF RefetchFails, Row, Request
  <2>. QED
    BY <1>21, <2>2 DEF RefetchFails
<1>22. ASSUME NEW p \in Procs, Answer(p)
       PROVE  TypeInv'
  BY <1>22 DEF Answer
<1>23. ASSUME NEW t \in Tasks, Forget(t)
       PROVE  TypeInv'
  BY <1>23 DEF Forget
<1>24. ASSUME UNCHANGED vars
       PROVE  TypeInv'
  BY <1>24 DEF vars
<1>. HIDE DEF TypeInv
<1>. QED
  BY <1>1, <1>2, <1>3, <1>4, <1>5, <1>6, <1>7, <1>8, <1>9, <1>10, <1>11, <1>12,
     <1>13, <1>14, <1>15, <1>25, <1>17, <1>18, <1>19, <1>20, <1>21, <1>22, <1>23, <1>24
  DEF Next, Step, Fail, RejectVerdict, DeadlockVictim, Quiescent

\* Every reachable state has the types the model says.
THEOREM TypeCorrect == Spec => []TypeOK
<1>1. TypeInv => TypeOK
  BY DEF TypeInv
<1>. QED
  BY TypeInit, TypeStep, <1>1, PTL DEF Spec

-----------------------------------------------------------------------------
(* The gates.  DoneWasReviewed is made inductive by saying the same of every *)
(* place a status waits in before it is written: a cache entry, however old, *)
(* the snapshot of a handler that is deciding, and the reviewers it has      *)
(* already asked.  Each of them also holds a mode that the task has had: the *)
(* gates are those of that mode, while an update may have written another.   *)

\* Where a goroutine may still decide on, or store, the row it has read.
Deciding == { "fill", "check", "gate", "update", "audit", "rescore", "mark",
              "insert", "commit", "refill" }

\* A row that was read: its mode is one the task has had, its status is earned.
Trusted(t, s) == s.mode \in modes[t] /\ EarnedIn(verdicts, modes[t], t, s.status)

RowTrusted == \A t \in Tasks : Trusted(t, row[t])

CachedTrusted == \A t \in Tasks : cached[t] # Nil => Trusted(t, cached[t])

SnapTrusted ==
  \A p \in Procs : pc[p] \in Deciding => Trusted(req[p].task, snap[p])

\* The reviewers struck off todo have passed the task.
AskedPassed ==
  \A p \in Procs :
    pc[p] = "gate" =>
      \A w \in Gates(req[p], snap[p]) \ todo[p] : PassedIn(verdicts, req[p].task, w)

\* Nobody enters the transaction before every gate has passed.
GatesPassed ==
  \A p \in Procs :
    pc[p] \in { "update", "audit", "rescore", "mark", "insert", "commit" } =>
      \A w \in Gates(req[p], snap[p]) : PassedIn(verdicts, req[p].task, w)

GateInv == RowTrusted /\ CachedTrusted /\ SnapTrusted /\ AskedPassed /\ GatesPassed

LEMMA GateInit == Init => GateInv
<1>1. \A t \in Tasks : EarnedIn(StartVerdicts, {StartRow[t].mode}, t, StartRow[t].status)
  BY DEF EarnedIn, Missing
<1>. SUFFICES ASSUME Init
              PROVE  GateInv
  OBVIOUS
<1>2. RowTrusted
  <2>1. \A t \in Tasks :
          row[t] = StartRow[t] /\ modes[t] = {StartRow[t].mode} /\ verdicts = StartVerdicts
    BY DEF Init
  <2>. QED
    BY <1>1, <2>1 DEF RowTrusted, Trusted
<1>3. CachedTrusted
  BY DEF Init, CachedTrusted
<1>4. SnapTrusted /\ AskedPassed /\ GatesPassed
  BY DEF Init, SnapTrusted, AskedPassed, GatesPassed, Deciding
<1>. QED
  BY <1>2, <1>3, <1>4 DEF GateInv

\* A verdict that the query finds is a PASS that was given.
LEMMA FoundIsPassed ==
  ASSUME NEW t, NEW w, HasLatestVerdict(t, w, "PASS")
  PROVE  PassedIn(verdicts, t, w)
BY DEF HasLatestVerdict, PassedIn

LEMMA GateStep == TypeInv /\ GateInv /\ [Next]_vars => GateInv'
<1>. SUFFICES ASSUME TypeInv, GateInv, [Next]_vars
              PROVE  GateInv'
  OBVIOUS
<1>. USE DEF GateInv, Trusted, RowTrusted, CachedTrusted, SnapTrusted, AskedPassed,
             GatesPassed, Deciding, Goto, Reply, db, locals
<1>1. ASSUME NEW p \in Procs, Receive(p)
      PROVE  GateInv'
  BY <1>1 DEF Receive, TypeInv, TypeOK
<1>2. ASSUME NEW p \in Procs, ReadHit(p)
      PROVE  GateInv'
  <2>1. req[p].task \in Tasks /\ cached[req[p].task] # Nil
    BY <1>2 DEF ReadHit, TypeInv, WellFormed, Request
  <2>. QED
    BY <1>2, <2>1 DEF ReadHit, TypeInv, TypeOK
<1>3. ASSUME NEW p \in Procs, RereadHit(p)
      PROVE  GateInv'
  BY <1>3 DEF RereadHit, TypeInv, TypeOK
<1>4. ASSUME NEW p \in Procs, ReadMiss(p)
      PROVE  GateInv'
  <2>1. req[p].task \in Tasks
    BY <1>4 DEF ReadMiss, TypeInv, WellFormed, Request
  <2>. QED
    BY <1>4, <2>1 DEF ReadMiss, TypeInv, TypeOK
<1>5. ASSUME NEW p \in Procs, Fill(p)
      PROVE  GateInv'
  <2>1. CachedTrusted'
    BY <1>5 DEF Fill, TypeInv, TypeOK
  <2>. QED
    BY <1>5, <2>1 DEF Fill, TypeInv, TypeOK
<1>6. ASSUME NEW p \in Procs, Refuse(p) \/ Decline(p)
      PROVE  GateInv'
  <2>1. CASE Refuse(p)
    BY <2>1 DEF Refuse, TypeInv, TypeOK
  <2>2. CASE Decline(p)
    BY <2>2 DEF Decline, TypeInv, TypeOK
  <2>. QED
    BY <1>6, <2>1, <2>2
<1>7. ASSUME NEW p \in Procs, Proceed(p)
      PROVE  GateInv'
  <2>1. CASE Gates(req[p], snap[p]) # {}
    BY <1>7, <2>1 DEF Proceed, TypeInv, TypeOK
  <2>2. CASE Gates(req[p], snap[p]) = {}
    BY <1>7, <2>2 DEF Proceed, TypeInv, TypeOK, TxStart
  <2>. QED
    BY <2>1, <2>2
<1>8. ASSUME NEW p \in Procs, NEW w \in Reviewers, GatePass(p, w)
      PROVE  GateInv'
  <2>1. PassedIn(verdicts, req[p].task, w)
    BY <1>8, FoundIsPassed DEF GatePass
  <2>2. \A x \in Gates(req[p], snap[p]) \ (todo[p] \ {w}) : PassedIn(verdicts, req[p].task, x)
    BY <1>8, <2>1 DEF GatePass
  <2>. QED
    BY <1>8, <2>2 DEF GatePass, TypeInv, TypeOK
<1>9. ASSUME NEW p \in Procs, NEW w \in Reviewers, GateFail(p, w)
      PROVE  GateInv'
  BY <1>9 DEF GateFail, TypeInv, TypeOK
<1>10. ASSUME NEW p \in Procs, ReadParent(p)
       PROVE  GateInv'
  <2>1. req[p].task \in Tasks
    BY <1>10 DEF ReadParent, TypeInv, WellFormed, Request
  <2>2. Gates(req[p], row[req[p].task]) = {}
    BY <1>10 DEF ReadParent, TypeInv, WellFormed, Gates
  <2>. QED
    BY <1>10, <2>1, <2>2 DEF ReadParent, TypeInv, TypeOK, TxStart
<1>11. ASSUME NEW p \in Procs,
              \/ UpdateRow(p) \/ InsertAudit(p) \/ Rescore(p)
              \/ MarkPrior(p) \/ InsertReview(p)
       PROVE  GateInv'
  <2>1. CASE UpdateRow(p)
    BY <2>1 DEF UpdateRow, TypeInv, TypeOK
  <2>2. CASE InsertAudit(p) \/ Rescore(p)
    BY <2>2 DEF InsertAudit, Rescore, TypeInv, TypeOK
  <2>3. CASE MarkPrior(p) \/ InsertReview(p)
    BY <2>3 DEF MarkPrior, InsertReview, TypeInv, TypeOK
  <2>. QED
    BY <1>11, <2>1, <2>2, <2>3
<1>12. ASSUME NEW p \in Procs, pc[p] = "commit", Persist(p)
       PROVE  /\ verdicts \subseteq verdicts'
              /\ \A t \in Tasks : modes[t] \subseteq modes'[t]
              /\ RowTrusted'
  <2>1. verdicts \subseteq verdicts' /\ \A t \in Tasks : modes[t] \subseteq modes'[t]
    BY <1>12 DEF Persist
  <2>2. /\ req[p] \in Request /\ snap[p] \in Row /\ req[p].task \in Tasks
    BY <1>12 DEF TypeInv, WellFormed, Decided, Request
  <2>3. EarnedIn(verdicts, modes[req[p].task], req[p].task, StatusWritten(req[p], snap[p]))
    BY <1>12, <2>2, DecisionEarned
  <2>4. ASSUME NEW t \in Tasks
        PROVE  EarnedIn(verdicts, modes[t], t, row'[t].status)
    <3>1. CASE row'[t] = row[t]
      BY <3>1
    <3>2. CASE t = req[p].task /\ row'[t] = RowAfter(req[p], snap[p], row[t])
      BY <2>3, <3>2 DEF RowAfter
    <3>. QED
      BY <1>12, <2>2, <3>1, <3>2 DEF Persist, TypeInv, TypeOK
  <2>5. \A t \in Tasks : row'[t].mode \in modes'[t]
    BY <1>12 DEF Persist
  <2>6. \A t \in Tasks : EarnedIn(verdicts', modes'[t], t, row'[t].status)
    BY <2>1, <2>4, EarnedMonotone
  <2>. QED
    BY <2>1, <2>5, <2>6
<1>13. ASSUME NEW p \in Procs, Commit(p) \/ CommitUnacked(p)
       PROVE  GateInv'
  <2>1. /\ verdicts \subseteq verdicts' /\ RowTrusted'
        /\ \A t \in Tasks : modes[t] \subseteq modes'[t]
    BY <1>12, <1>13 DEF Commit, CommitUnacked
  <2>2. ASSUME NEW t \in Tasks, NEW s, Trusted(t, s)
        PROVE  s.mode \in modes'[t] /\ EarnedIn(verdicts', modes'[t], t, s.status)
    BY <2>1, <2>2, EarnedMonotone
  <2>3. CachedTrusted'
    BY <1>13, <2>2 DEF Commit, CommitUnacked
  <2>4. \A q \in Procs : pc'[q] \in Deciding \cup {"gate"} => pc'[q] = pc[q]
    BY <1>13 DEF Commit, CommitUnacked, TypeInv, TypeOK
  <2>5. UNCHANGED << req, snap, todo >>
    BY <1>13 DEF Commit, CommitUnacked
  <2>6. SnapTrusted'
    <3>1. \A q \in Procs : pc[q] \in Deciding => req[q].task \in Tasks
      BY DEF TypeInv, WellFormed, Request
    <3>. QED
      BY <2>4, <2>5, <2>2, <3>1
  <2>7. \A t, w : PassedIn(verdicts, t, w) => PassedIn(verdicts', t, w)
    BY <2>1 DEF PassedIn
  <2>8. AskedPassed' /\ GatesPassed'
    BY <2>4, <2>5, <2>7
  <2>. QED
    BY <2>1, <2>3, <2>6, <2>8
<1>14. ASSUME NEW p \in Procs, Rollback(p)
       PROVE  GateInv'
  BY <1>14 DEF Rollback, TypeInv, TypeOK
<1>15. ASSUME NEW p \in Procs, Bump(p) \/ RefetchFails(p) \/ Answer(p)
       PROVE  GateInv'
  <2>1. CASE Bump(p)
    BY <2>1 DEF Bump, TypeInv, TypeOK
  <2>2. CASE RefetchFails(p)
    BY <2>2 DEF RefetchFails, TypeInv, TypeOK
  <2>3. CASE Answer(p)
    BY <2>3 DEF Answer, TypeInv, TypeOK
  <2>. QED
    BY <1>15, <2>1, <2>2, <2>3
<1>16. ASSUME NEW t \in Tasks, Forget(t)
       PROVE  GateInv'
  BY <1>16 DEF Forget, TypeInv, TypeOK
<1>17. ASSUME UNCHANGED vars
       PROVE  GateInv'
  BY <1>17 DEF vars
<1>. HIDE DEF GateInv
<1>. QED
  BY <1>1, <1>2, <1>3, <1>4, <1>5, <1>6, <1>7, <1>8, <1>9, <1>10, <1>11, <1>13,
     <1>14, <1>15, <1>16, <1>17
  DEF Next, Step, Fail, RejectVerdict, DeadlockVictim, Quiescent

\* No interleaving, stale snapshot or stale cache entry brings a task past a
\* gate that no reviewer ever passed, whatever its workflow or one of the modes
\* it has had asks for, and whatever rows the server found when it came up.
THEOREM ReviewedBeforeDone == Spec => []DoneWasReviewed
<1>1. GateInv => DoneWasReviewed
  BY DEF GateInv, RowTrusted, Trusted, DoneWasReviewed
<1>. QED
  BY TypeInit, TypeStep, GateInit, GateStep, <1>1, PTL DEF Spec

-----------------------------------------------------------------------------
(* Consent.                                                                  *)

\* A handler past its checks that is about to write DONE carries an approval.
Consenting ==
  \A p \in Procs :
    /\ pc[p] \in { "gate", "update", "audit", "rescore", "commit" }
    /\ StatusWritten(req[p], snap[p]) = "DONE"
    => req[p].kind = "advance" /\ req[p].approve

\* Only advance writes DONE.
LEMMA OnlyAdvanceFinishes ==
  ASSUME NEW r, NEW s, StatusWritten(r, s) = "DONE"
  PROVE  r.kind = "advance"
BY DEF StatusWritten, ParentKinds, NoTarget

LEMMA ConsentStep == TypeInv /\ Consenting /\ [Next]_vars => Consenting'
<1>. SUFFICES ASSUME TypeInv, Consenting, [Next]_vars
              PROVE  Consenting'
  OBVIOUS
<1>. USE DEF Consenting, Goto, Reply, db, locals
<1>1. ASSUME NEW p \in Procs, Proceed(p)
      PROVE  Consenting'
  <2>1. StatusWritten(req[p], snap[p]) = "DONE" => req[p].kind = "advance" /\ req[p].approve
    BY <1>1, OnlyAdvanceFinishes DEF Proceed, Accepts, AdvanceAccepts
  <2>. QED
    BY <1>1, <2>1 DEF Proceed, TypeInv, TypeOK
<1>2. ASSUME NEW p \in Procs, ReadParent(p)
      PROVE  Consenting'
  <2>1. StatusWritten(req[p], row[req[p].task]) # "DONE"
    BY <1>2, OnlyAdvanceFinishes DEF ReadParent, TypeInv, WellFormed
  <2>. QED
    BY <1>2, <2>1 DEF ReadParent, TypeInv, TypeOK
<1>3. ASSUME NEW p \in Procs,
             \/ Receive(p) \/ ReadHit(p) \/ RereadHit(p) \/ ReadMiss(p) \/ Fill(p)
             \/ Refuse(p) \/ Decline(p) \/ Bump(p) \/ RefetchFails(p) \/ Answer(p)
      PROVE  Consenting'
  BY <1>3 DEF Receive, ReadHit, RereadHit, ReadMiss, Fill, Refuse, Decline, Bump,
     RefetchFails, Answer, TypeInv, TypeOK
<1>4. ASSUME NEW p \in Procs, NEW w \in Reviewers, GatePass(p, w) \/ GateFail(p, w)
      PROVE  Consenting'
  BY <1>4 DEF GatePass, GateFail, TypeInv, TypeOK
<1>5. ASSUME NEW p \in Procs,
             \/ UpdateRow(p) \/ InsertAudit(p) \/ Rescore(p)
             \/ MarkPrior(p) \/ InsertReview(p)
      PROVE  Consenting'
  <2>1. CASE MarkPrior(p) \/ InsertReview(p)
    <3>1. StatusWritten(req[p], snap[p]) # "DONE"
      BY <2>1, OnlyAdvanceFinishes
      DEF MarkPrior, InsertReview, TypeInv, WellFormed, ReviewKinds
    <3>. QED
      BY <2>1, <3>1 DEF MarkPrior, InsertReview, TypeInv, TypeOK
  <2>2. CASE UpdateRow(p) \/ InsertAudit(p) \/ Rescore(p)
    BY <2>2 DEF UpdateRow, InsertAudit, Rescore, TypeInv, TypeOK
  <2>. QED
    BY <1>5, <2>1, <2>2
<1>6. ASSUME NEW p \in Procs, Commit(p) \/ CommitUnacked(p) \/ Rollback(p)
      PROVE  Consenting'
  BY <1>6 DEF Commit, CommitUnacked, Rollback, TypeInv, TypeOK
<1>7. ASSUME NEW t \in Tasks, Forget(t)
      PROVE  Consenting'
  BY <1>7 DEF Forget
<1>8. ASSUME UNCHANGED vars
      PROVE  Consenting'
  BY <1>8 DEF vars
<1>. HIDE DEF Consenting
<1>. QED
  BY <1>1, <1>2, <1>3, <1>4, <1>5, <1>6, <1>7, <1>8
  DEF Next, Step, Fail, RejectVerdict, DeadlockVictim, Quiescent

\* The step that makes a task DONE is the commit of a consenting advance.
LEMMA ConsentAction ==
  TypeInv /\ Consenting /\ [Next]_vars =>
    [ \A t \in Tasks :
        row[t].status # "DONE" /\ row'[t].status = "DONE" =>
          \E p \in Procs : /\ pc[p] = "commit" /\ req[p].task = t
                           /\ req[p].kind = "advance" /\ req[p].approve ]_vars
<1>. SUFFICES ASSUME TypeInv, Consenting, [Next]_vars, NEW t \in Tasks,
                     row[t].status # "DONE", row'[t].status = "DONE"
              PROVE  \E p \in Procs : /\ pc[p] = "commit" /\ req[p].task = t
                                      /\ req[p].kind = "advance" /\ req[p].approve
  OBVIOUS
<1>1. row' # row
  OBVIOUS
<1>2. PICK p \in Procs : pc[p] = "commit" /\ Persist(p)
  <2>1. ASSUME NEW p \in Procs,
               \/ Receive(p) \/ ReadHit(p) \/ RereadHit(p) \/ ReadMiss(p) \/ Fill(p)
               \/ Refuse(p) \/ Decline(p) \/ Proceed(p) \/ ReadParent(p)
               \/ \E w \in Reviewers : GatePass(p, w) \/ GateFail(p, w)
        PROVE  row' = row
    BY <2>1 DEF Receive, ReadHit, RereadHit, ReadMiss, Fill, Refuse, Decline,
       Proceed, ReadParent, GatePass, GateFail, db
  <2>2. ASSUME NEW p \in Procs,
               \/ UpdateRow(p) \/ InsertAudit(p) \/ Rescore(p) \/ MarkPrior(p)
               \/ InsertReview(p) \/ Rollback(p) \/ Bump(p) \/ RefetchFails(p)
               \/ Answer(p)
        PROVE  row' = row
    BY <2>2 DEF UpdateRow, InsertAudit, Rescore, MarkPrior, InsertReview,
       Rollback, Bump, RefetchFails, Answer, db
  <2>3. ASSUME NEW u \in Tasks, Forget(u)
        PROVE  row' = row
    BY <2>3 DEF Forget, db
  <2>4. ASSUME NEW p \in Procs, Commit(p) \/ CommitUnacked(p)
        PROVE  pc[p] = "commit" /\ Persist(p)
    BY <2>4 DEF Commit, CommitUnacked
  <2>. QED
    BY <1>1, <2>1, <2>2, <2>3, <2>4
    DEF Next, Step, Fail, RejectVerdict, DeadlockVictim, Quiescent, vars, db
<1>3. req[p].task = t /\ StatusWritten(req[p], snap[p]) = "DONE"
  BY <1>2 DEF Persist, RowAfter, TypeInv, TypeOK
<1>. QED
  BY <1>2, <1>3 DEF Consenting

\* A task becomes DONE only with the operator's --approve, whatever else runs.
THEOREM DoneNeedsConsent == Spec => DoneByConsent
<1>1. Init => Consenting
  BY DEF Init, Consenting
<1>. QED
  BY TypeInit, TypeStep, <1>1, ConsentStep, ConsentAction, PTL DEF Spec, DoneByConsent

-----------------------------------------------------------------------------
(* The audit trail.  Ids are drawn under the row lock, so whoever holds the  *)
(* lock of a task with a drafted audit row has the largest id of that task.  *)

\* A transaction that has a status to commit went through UpdateRow.
HoldsLock ==
  \A p \in Procs :
    \/ pc[p] \in { "audit", "rescore" }
    \/ pc[p] = "commit" /\ StatusWritten(req[p], snap[p]) # NoTarget
    => lock[req[p].task] = p

\* Ids come from the sequence.
IdsDrawn ==
  /\ \A e \in audit : e.id < nextAudit
  /\ \A p \in Procs : \A e \in draft[p] : e.id < nextAudit

\* The drafted row of a status about to be committed: exactly one, the newest of
\* its task.  Nobody else has one.
Drafted ==
  \A p \in Procs :
    IF /\ pc[p] \in { "rescore", "commit" }
       /\ StatusWritten(req[p], snap[p]) # NoTarget
      THEN \E e \in draft[p] :
             /\ draft[p] = {e}
             /\ e.task = req[p].task /\ e.new = StatusWritten(req[p], snap[p])
             /\ e.old = snap[p].status
             /\ \A f \in audit : f.task = req[p].task => f.id < e.id
      ELSE draft[p] = {}

AuditInv == AuditEndsAtStatus /\ HoldsLock /\ IdsDrawn /\ Drafted

LEMMA AuditInit == Init => AuditInv
BY DEF Init, AuditInv, AuditEndsAtStatus, HoldsLock, IdsDrawn, Drafted

\* A step that leaves the trail, the rows and the drafts alone, and moves no
\* goroutine to the end of a transaction.
LEMMA AuditFrame ==
  ASSUME AuditInv,
         UNCHANGED << row, lock, audit, nextAudit, draft >>,
         NEW p \in Procs,
         \A q \in Procs \ {p} : pc'[q] = pc[q] /\ req'[q] = req[q] /\ snap'[q] = snap[q],
         pc'[p] \notin { "audit", "rescore" },
         pc'[p] = "commit" => StatusWritten(req'[p], snap'[p]) = NoTarget,
         draft[p] = {}
  PROVE  AuditInv'
<1>1. AuditEndsAtStatus'
  BY DEF AuditInv, AuditEndsAtStatus
<1>2. HoldsLock'
  BY DEF AuditInv, HoldsLock
<1>3. IdsDrawn'
  BY DEF AuditInv, IdsDrawn
<1>4. Drafted'
  <2>. SUFFICES ASSUME NEW q \in Procs
                PROVE  IF /\ pc'[q] \in { "rescore", "commit" }
                          /\ StatusWritten(req'[q], snap'[q]) # NoTarget
                         THEN \E e \in draft[q] :
                                /\ draft[q] = {e}
                                /\ e.task = req'[q].task
                                /\ e.new = StatusWritten(req'[q], snap'[q])
                                /\ e.old = snap'[q].status
                                /\ \A f \in audit : f.task = req'[q].task => f.id < e.id
                         ELSE draft[q] = {}
    BY DEF Drafted
  <2>1. CASE q = p
    BY <2>1
  <2>2. CASE q # p
    <3>1. pc'[q] = pc[q] /\ req'[q] = req[q] /\ snap'[q] = snap[q]
      BY <2>2
    <3>. QED
      BY <3>1 DEF AuditInv, Drafted
  <2>. QED
    BY <2>1, <2>2
<1>. QED
  BY <1>1, <1>2, <1>3, <1>4 DEF AuditInv

\* Only Commit and CommitUnacked make a draft visible.
LEMMA AuditPersist ==
  ASSUME TypeInv, AuditInv, NEW p \in Procs, pc[p] = "commit", Persist(p),
         pc'[p] \in { "bump", "answer" },
         \A q \in Procs \ {p} : pc'[q] = pc[q],
         UNCHANGED << nextAudit, req, snap >>
  PROVE  AuditInv'
<1>. DEFINE t  == req[p].task
            to == StatusWritten(req[p], snap[p])
<1>. USE DEF AuditInv
<1>1. req[p] \in Request /\ snap[p] \in Row /\ t \in Tasks
  BY DEF TypeInv, WellFormed, Decided, Request
<1>2. audit' = audit \cup draft[p] /\ draft' = [draft EXCEPT ![p] = {}]
  BY DEF Persist, AuditAfter
<1>3. \A u \in Tasks \ {t} : row'[u] = row[u]
  BY DEF Persist, TypeInv, TypeOK
<1>4. HoldsLock'
  <2>. SUFFICES ASSUME NEW q \in Procs,
                       \/ pc'[q] \in { "audit", "rescore" }
                       \/ pc'[q] = "commit" /\ StatusWritten(req[q], snap[q]) # NoTarget
                PROVE  lock'[req[q].task] = q
    BY DEF HoldsLock
  <2>1. q # p /\ lock[req[q].task] = q
    BY DEF HoldsLock
  <2>2. req[q].task \in Tasks
    BY <2>1 DEF TypeInv, WellFormed, Request
  <2>. QED
    BY <2>1, <2>2 DEF Persist, ReleaseLocks
<1>5. CASE to = NoTarget
  <2>1. draft[p] = {}
    BY <1>5 DEF Drafted
  <2>2. audit' = audit
    BY <1>2, <2>1
  <2>3. row'[t].status = row[t].status
    BY <1>1, <1>5 DEF Persist, RowAfter, TypeInv, TypeOK
  <2>4. AuditEndsAtStatus'
    BY <1>1, <1>3, <2>2, <2>3 DEF AuditEndsAtStatus
  <2>5. IdsDrawn'
    BY <1>2, <2>2 DEF IdsDrawn, TypeInv, TypeOK
  <2>6. Drafted'
    BY <1>2, <1>5, <2>2 DEF Drafted, TypeInv, TypeOK
  <2>. QED
    BY <1>4, <2>4, <2>5, <2>6
<1>6. CASE to # NoTarget
  <2>1. PICK e \in draft[p] : /\ draft[p] = {e} /\ e.task = t /\ e.new = to
                              /\ \A f \in audit : f.task = t => f.id < e.id
    BY <1>6 DEF Drafted
  <2>2. e \in AuditEntry /\ audit \subseteq AuditEntry
    BY DEF TypeInv, TypeOK
  <2>3. audit' = audit \cup {e}
    BY <1>2, <2>1
  <2>4. row'[t].status = to
    BY <1>1, <1>6 DEF Persist, RowAfter, WritesRow, TypeInv, TypeOK
  <2>5. AuditEndsAtStatus'
    <3>. SUFFICES ASSUME NEW u \in Tasks
                  PROVE  LET mine == { f \in audit' : f.task = u } IN
                         IF mine = {}
                           THEN row'[u].status = StartRow[u].status
                           ELSE \E x \in mine : /\ \A f \in mine : f.id <= x.id
                                                /\ x.new = row'[u].status
      BY DEF AuditEndsAtStatus
    <3>1. CASE u = t
      <4>1. \A f \in audit' : f.task = t => f.id <= e.id
        BY <2>1, <2>2, <2>3 DEF AuditEntry
      <4>. QED
        BY <2>1, <2>3, <2>4, <3>1, <4>1
    <3>2. CASE u # t
      <4>1. { f \in audit' : f.task = u } = { f \in audit : f.task = u }
        BY <2>1, <2>3, <3>2
      <4>2. row'[u] = row[u]
        BY <1>3, <3>2
      <4>. QED
        BY <4>1, <4>2 DEF AuditEndsAtStatus
    <3>. QED
      BY <3>1, <3>2
  <2>6. \A q \in Procs \ {p} :
          /\ pc[q] \in { "audit", "rescore" }
             \/ (pc[q] = "commit" /\ StatusWritten(req[q], snap[q]) # NoTarget)
          => req[q].task # t
    BY <1>6 DEF HoldsLock
  <2>7. IdsDrawn'
    BY <1>2 DEF IdsDrawn, TypeInv, TypeOK
  <2>8. Drafted'
    <3>. SUFFICES ASSUME NEW q \in Procs
                  PROVE  IF /\ pc'[q] \in { "rescore", "commit" }
                            /\ StatusWritten(req[q], snap[q]) # NoTarget
                           THEN \E x \in draft'[q] :
                                  /\ draft'[q] = {x}
                                  /\ x.task = req[q].task
                                  /\ x.new = StatusWritten(req[q], snap[q])
                                  /\ x.old = snap[q].status
                                  /\ \A f \in audit' : f.task = req[q].task => f.id < x.id
                           ELSE draft'[q] = {}
      BY DEF Drafted
    <3>1. CASE q = p
      BY <1>2, <3>1 DEF TypeInv, TypeOK
    <3>2. CASE q # p
      <4>1. draft'[q] = draft[q] /\ pc'[q] = pc[q]
        BY <1>2, <3>2 DEF TypeInv, TypeOK
      <4>. QED
        BY <2>1, <2>3, <2>6, <3>2, <4>1 DEF Drafted
    <3>. QED
      BY <3>1, <3>2
  <2>. QED
    BY <1>4, <2>5, <2>7, <2>8
<1>. QED
  BY <1>5, <1>6

LEMMA AuditStep == TypeInv /\ TypeInv' /\ AuditInv /\ [Next]_vars => AuditInv'
<1>. SUFFICES ASSUME TypeInv, TypeInv', AuditInv, [Next]_vars
              PROVE  AuditInv'
  OBVIOUS
<1>. USE DEF Goto, Reply, db, locals
\* Outside the last steps of a transaction nothing is drafted.
<1>0. \A p \in Procs : pc[p] \notin { "rescore", "commit" } => draft[p] = {}
  BY DEF AuditInv, Drafted
<1>1. ASSUME NEW p \in Procs,
             \/ Receive(p) \/ ReadHit(p) \/ RereadHit(p) \/ ReadMiss(p) \/ Fill(p)
             \/ Refuse(p) \/ Decline(p) \/ Bump(p) \/ RefetchFails(p) \/ Answer(p)
      PROVE  AuditInv'
  <2>1. /\ UNCHANGED << row, lock, audit, nextAudit, draft >>
        /\ \A q \in Procs \ {p} : pc'[q] = pc[q] /\ req'[q] = req[q] /\ snap'[q] = snap[q]
        /\ pc'[p] \notin { "audit", "rescore", "commit" }
        /\ pc[p] \notin { "rescore", "commit" }
    BY <1>1 DEF Receive, ReadHit, RereadHit, ReadMiss, Fill, Refuse, Decline, Bump,
       RefetchFails, Answer, TypeInv, TypeOK
  <2>. QED
    BY <1>0, <2>1, AuditFrame
<1>2. ASSUME NEW p \in Procs, NEW w \in Reviewers, GatePass(p, w) \/ GateFail(p, w)
      PROVE  AuditInv'
  <2>1. /\ UNCHANGED << row, lock, audit, nextAudit, draft >>
        /\ \A q \in Procs \ {p} : pc'[q] = pc[q] /\ req'[q] = req[q] /\ snap'[q] = snap[q]
        /\ pc'[p] \notin { "audit", "rescore", "commit" }
        /\ pc[p] \notin { "rescore", "commit" }
    BY <1>2 DEF GatePass, GateFail, TypeInv, TypeOK
  <2>. QED
    BY <1>0, <2>1, AuditFrame
<1>3. ASSUME NEW p \in Procs,
             Proceed(p) \/ ReadParent(p) \/ MarkPrior(p) \/ InsertReview(p)
      PROVE  AuditInv'
  <2>1. /\ UNCHANGED << row, lock, audit, nextAudit, draft >>
        /\ \A q \in Procs \ {p} : pc'[q] = pc[q] /\ req'[q] = req[q] /\ snap'[q] = snap[q]
        /\ pc[p] \notin { "rescore", "commit" }
    BY <1>3 DEF Proceed, ReadParent, MarkPrior, InsertReview, TypeInv, TypeOK
  <2>2. /\ pc'[p] \notin { "audit", "rescore" }
        /\ pc'[p] = "commit" => StatusWritten(req'[p], snap'[p]) = NoTarget
    <3>1. CASE Proceed(p)
      BY <3>1 DEF Proceed, TxStart, WritesRow, ReviewKinds, StatusWritten,
         NoTarget, ParentKinds, TypeInv, TypeOK
    <3>2. CASE ReadParent(p)
      BY <3>2 DEF ReadParent, TxStart, WritesRow, TypeInv, TypeOK, WellFormed, ReviewKinds
    <3>3. CASE MarkPrior(p) \/ InsertReview(p)
      <4>1. req[p].kind \in ReviewKinds
        BY <3>3 DEF MarkPrior, InsertReview, TypeInv, WellFormed
      <4>2. StatusWritten(req[p], snap[p]) = NoTarget
        BY <4>1, ReviewWritesNoRow
      <4>. QED
        BY <3>3, <4>2 DEF MarkPrior, InsertReview, TypeInv, TypeOK
    <3>. QED
      BY <1>3, <3>1, <3>2, <3>3
  <2>. QED
    BY <1>0, <2>1, <2>2, AuditFrame
<1>4. ASSUME NEW p \in Procs, UpdateRow(p)
      PROVE  AuditInv'
  <2>1. req[p].task \in Tasks
    BY <1>4 DEF UpdateRow, TypeInv, WellFormed, Request
  <2>2. AuditEndsAtStatus' /\ IdsDrawn'
    BY <1>4 DEF UpdateRow, AuditInv, AuditEndsAtStatus, IdsDrawn
  <2>3. HoldsLock'
    <3>. SUFFICES ASSUME NEW q \in Procs,
                         \/ pc'[q] \in { "audit", "rescore" }
                         \/ pc'[q] = "commit" /\ StatusWritten(req[q], snap[q]) # NoTarget
                  PROVE  lock'[req[q].task] = q
      BY <1>4 DEF HoldsLock, UpdateRow
    <3>1. CASE q = p
      BY <1>4, <2>1, <3>1 DEF UpdateRow, TypeInv, TypeOK
    <3>2. CASE q # p
      <4>1. lock[req[q].task] = q
        BY <1>4, <3>2 DEF UpdateRow, AuditInv, HoldsLock, TypeInv, TypeOK
      <4>2. req[q].task # req[p].task
        BY <1>4, <4>1, ConfigAssumption DEF UpdateRow
      <4>3. req[q].task \in Tasks
        BY <1>4, <3>2 DEF UpdateRow, TypeInv, TypeOK, WellFormed, Request
      <4>. QED
        BY <1>4, <4>1, <4>2, <4>3 DEF UpdateRow, TypeInv, TypeOK
    <3>. QED
      BY <3>1, <3>2
  <2>4. Drafted'
    BY <1>4 DEF UpdateRow, AuditInv, Drafted, TypeInv, TypeOK
  <2>. QED
    BY <2>2, <2>3, <2>4 DEF AuditInv
<1>5. ASSUME NEW p \in Procs, InsertAudit(p)
      PROVE  AuditInv'
  <2>. DEFINE e == [ id |-> nextAudit, req |-> req[p].no, task |-> req[p].task,
                     old |-> AuditOld(req[p], snap[p]),
                     new |-> StatusWritten(req[p], snap[p]) ]
  <2>1. /\ draft' = [draft EXCEPT ![p] = {e}] /\ nextAudit' = nextAudit + 1
        /\ pc'[p] \in { "rescore", "commit" }
        /\ \A q \in Procs \ {p} : pc'[q] = pc[q]
        /\ UNCHANGED << row, lock, audit, req, snap >>
    BY <1>5 DEF InsertAudit, TypeInv, TypeOK
  <2>2. AuditEndsAtStatus'
    BY <2>1 DEF AuditInv, AuditEndsAtStatus
  <2>3. HoldsLock'
    BY <1>5, <2>1 DEF InsertAudit, AuditInv, HoldsLock
  <2>4. IdsDrawn'
    <3>1. \A f \in audit \cup UNION { draft[q] : q \in Procs } : f.id \in Nat
      BY DEF TypeInv, TypeOK, AuditEntry
    <3>2. nextAudit \in Nat /\ e.id = nextAudit
      BY DEF TypeInv, TypeOK
    <3>3. \A q \in Procs : draft'[q] = IF q = p THEN {e} ELSE draft[q]
      BY <2>1 DEF TypeInv, TypeOK
    <3>4. \A f \in audit : f.id < nextAudit + 1
      BY <3>1, <3>2 DEF AuditInv, IdsDrawn
    <3>5. \A q \in Procs : \A f \in draft'[q] : f.id < nextAudit + 1
      BY <3>1, <3>2, <3>3 DEF AuditInv, IdsDrawn
    <3>. QED
      BY <2>1, <3>4, <3>5 DEF IdsDrawn
  <2>5. Drafted'
    <3>. SUFFICES ASSUME NEW q \in Procs
                  PROVE  IF /\ pc'[q] \in { "rescore", "commit" }
                            /\ StatusWritten(req[q], snap[q]) # NoTarget
                           THEN \E x \in draft'[q] :
                                  /\ draft'[q] = {x}
                                  /\ x.task = req[q].task
                                  /\ x.new = StatusWritten(req[q], snap[q])
                                  /\ x.old = snap[q].status
                                  /\ \A f \in audit : f.task = req[q].task => f.id < x.id
                           ELSE draft'[q] = {}
      BY <2>1 DEF Drafted
    <3>1. CASE q = p
      <4>1. StatusWritten(req[p], snap[p]) # NoTarget
        BY <1>5 DEF InsertAudit, TypeInv, WellFormed
      <4>2. draft'[p] = {e}
        BY <2>1 DEF TypeInv, TypeOK
      <4>3. \A f \in audit : f.id < e.id
        BY DEF AuditInv, IdsDrawn
      <4>. QED
        BY <2>1, <3>1, <4>1, <4>2, <4>3 DEF AuditOld
    <3>2. CASE q # p
      <4>1. draft'[q] = draft[q] /\ pc'[q] = pc[q]
        BY <2>1, <3>2 DEF TypeInv, TypeOK
      <4>. QED
        BY <4>1 DEF AuditInv, Drafted
    <3>. QED
      BY <3>1, <3>2
  <2>. QED
    BY <2>2, <2>3, <2>4, <2>5 DEF AuditInv
<1>6. ASSUME NEW p \in Procs, Rescore(p)
      PROVE  AuditInv'
  <2>1. AuditEndsAtStatus' /\ IdsDrawn'
    BY <1>6 DEF Rescore, AuditInv, AuditEndsAtStatus, IdsDrawn
  <2>2. Drafted'
    BY <1>6 DEF Rescore, AuditInv, Drafted, TypeInv, TypeOK
  <2>3. HoldsLock'
    <3>. SUFFICES ASSUME NEW q \in Procs,
                         \/ pc'[q] \in { "audit", "rescore" }
                         \/ pc'[q] = "commit" /\ StatusWritten(req[q], snap[q]) # NoTarget
                  PROVE  lock'[req[q].task] = q
      BY <1>6 DEF HoldsLock, Rescore
    <3>1. lock[req[q].task] = q
      BY <1>6 DEF Rescore, AuditInv, HoldsLock, TypeInv, TypeOK
    <3>2. req[q].task \in Tasks
      BY <1>6 DEF Rescore, TypeInv, TypeOK, WellFormed, Request
    <3>3. req[q].task \notin Rescored(p)
      BY <1>6, <3>1, ConfigAssumption DEF Rescore
    <3>. QED
      BY <1>6, <3>1, <3>2, <3>3 DEF Rescore
  <2>. QED
    BY <2>1, <2>2, <2>3 DEF AuditInv
<1>7. ASSUME NEW p \in Procs, Commit(p) \/ CommitUnacked(p)
      PROVE  AuditInv'
  <2>1. /\ pc[p] = "commit" /\ Persist(p) /\ pc'[p] \in { "bump", "answer" }
        /\ \A q \in Procs \ {p} : pc'[q] = pc[q]
        /\ UNCHANGED << nextAudit, req, snap >>
    BY <1>7 DEF Commit, CommitUnacked, TypeInv, TypeOK
  <2>. QED
    BY <2>1, AuditPersist
<1>8. ASSUME NEW p \in Procs, Rollback(p)
      PROVE  AuditInv'
  <2>1. /\ draft' = [draft EXCEPT ![p] = {}] /\ pc'[p] = "answer"
        /\ \A q \in Procs \ {p} : pc'[q] = pc[q]
        /\ UNCHANGED << row, audit, nextAudit, req, snap >>
    BY <1>8 DEF Rollback, TypeInv, TypeOK
  <2>2. AuditEndsAtStatus'
    BY <2>1 DEF AuditInv, AuditEndsAtStatus
  <2>3. IdsDrawn' /\ Drafted'
    BY <2>1 DEF AuditInv, IdsDrawn, Drafted, TypeInv, TypeOK
  <2>4. HoldsLock'
    <3>. SUFFICES ASSUME NEW q \in Procs,
                         \/ pc'[q] \in { "audit", "rescore" }
                         \/ pc'[q] = "commit" /\ StatusWritten(req[q], snap[q]) # NoTarget
                  PROVE  lock'[req[q].task] = q
      BY <2>1 DEF HoldsLock
    <3>1. q # p /\ lock[req[q].task] = q
      BY <2>1 DEF AuditInv, HoldsLock
    <3>2. req[q].task \in Tasks
      BY <2>1, <3>1 DEF TypeInv, WellFormed, Request
    <3>. QED
      BY <1>8, <3>1, <3>2 DEF Rollback, ReleaseLocks
  <2>. QED
    BY <2>2, <2>3, <2>4 DEF AuditInv
<1>9. ASSUME UNCHANGED << db, pc, locals >>
      PROVE  AuditInv'
  BY <1>9 DEF AuditInv, AuditEndsAtStatus, HoldsLock, IdsDrawn, Drafted
<1>. QED
  BY <1>1, <1>2, <1>3, <1>4, <1>5, <1>6, <1>7, <1>8, <1>9
  DEF Next, Step, Fail, RejectVerdict, DeadlockVictim, Quiescent, Forget, vars

\* However ids, locks and rollbacks interleave, the trail of a task ends at the
\* status the task has.
THEOREM AuditTrailEndsAtStatus == Spec => []AuditEndsAtStatus
<1>1. AuditInv => AuditEndsAtStatus
  BY DEF AuditInv
<1>. QED
  BY TypeInit, TypeStep, AuditInit, AuditStep, <1>1, PTL DEF Spec

-----------------------------------------------------------------------------
(* Who moves, and what it leaves alone. *)

Acts(p) ==
  Receive(p) \/ Step(p) \/ CommitUnacked(p) \/ Fail(p) \/ RefetchFails(p)

Apart(p) ==
  \A q \in Procs \ {p} :
    /\ pc'[q] = pc[q] /\ req'[q] = req[q] /\ snap'[q] = snap[q]
    /\ marked'[q] = marked[q] /\ fresh'[q] = fresh[q]
    /\ draft'[q] = draft[q] /\ code'[q] = code[q]

\* A step that commits nothing.
Quiet == UNCHANGED << row, audit, verdicts, latest >>

\* A commit, acknowledged or not.
Persists(p) ==
  /\ pc[p] = "commit" /\ Persist(p)
  /\ \/ pc'[p] = "bump" /\ UNCHANGED code
     \/ pc'[p] = "answer" /\ code'[p] = "500"
  /\ UNCHANGED << nextAudit, nextReview, req, snap, marked, fresh, served >>

LEMMA OneActs ==
  ASSUME TypeInv, [Next]_vars
  PROVE  \/ /\ UNCHANGED << db, pc, locals, served >>
            /\ \A t \in Tasks : cached'[t] \in { cached[t], Nil }
         \/ \E p \in Procs : Acts(p) /\ Apart(p)
<1>. USE DEF Goto, Reply, db, locals
<1>1. ASSUME NEW p \in Procs, Acts(p) PROVE Apart(p)
  <2>1. CASE \/ Receive(p) \/ ReadHit(p) \/ RereadHit(p) \/ ReadMiss(p) \/ Fill(p)
             \/ Refuse(p) \/ Decline(p) \/ Proceed(p) \/ ReadParent(p)
    BY <2>1 DEF Apart, Receive, ReadHit, RereadHit, ReadMiss, Fill, Refuse, Decline, Proceed,
       ReadParent, TypeInv, TypeOK
  <2>2. ASSUME NEW w \in Reviewers, GatePass(p, w) \/ GateFail(p, w) PROVE Apart(p)
    BY <2>2 DEF Apart, GatePass, GateFail, TypeInv, TypeOK
  <2>3. CASE \/ UpdateRow(p) \/ InsertAudit(p) \/ Rescore(p) \/ MarkPrior(p) \/ InsertReview(p)
    BY <2>3 DEF Apart, UpdateRow, InsertAudit, Rescore, MarkPrior, InsertReview, TypeInv, TypeOK
  <2>4. CASE Commit(p) \/ CommitUnacked(p) \/ Bump(p) \/ Answer(p) \/ RefetchFails(p)
    BY <2>4 DEF Apart, Commit, CommitUnacked, Persist, Bump, Answer, RefetchFails, TypeInv, TypeOK
  <2>5. CASE Fail(p) \/ RejectVerdict(p) \/ DeadlockVictim(p)
    BY <2>5 DEF Apart, Fail, RejectVerdict, DeadlockVictim, Rollback, TypeInv, TypeOK
  <2>. QED
    BY <1>1, <2>1, <2>2, <2>3, <2>4, <2>5 DEF Acts, Step
<1>. QED
  BY <1>1 DEF Next, Acts, Forget, Quiescent, vars, TypeInv, TypeOK

LEMMA QuietOrPersists ==
  ASSUME TypeInv, NEW p \in Procs, Acts(p)
  PROVE  Quiet \/ Persists(p)
<1>. USE DEF Goto, Reply, db, locals, Quiet
<1>1. CASE Commit(p) \/ CommitUnacked(p)
  BY <1>1 DEF Commit, CommitUnacked, Persists, ErrorReply, TypeInv, TypeOK
<1>2. CASE ~(Commit(p) \/ CommitUnacked(p))
  BY <1>2 DEF Acts, Step, Receive, ReadHit, RereadHit, ReadMiss, Fill, Refuse, Decline, Proceed,
     GatePass, GateFail, ReadParent, UpdateRow, InsertAudit, Rescore, MarkPrior, InsertReview,
     Bump, Answer, RefetchFails, Fail, RejectVerdict, DeadlockVictim, Rollback
<1>. QED
  BY <1>1, <1>2

-----------------------------------------------------------------------------
(* Lost closings.  What a command finds acceptable is what it read, and what *)
(* it may leave open it cannot have found closed: when the row is closed, the *)
(* status it audits as the old one is not the one that the trail ends at.     *)

ClosingStatuses == { "DONE", "CANCELLED", "SUPERSEDED", "INVESTIGATING" }

\* A command that leaves a task open has found it open, or reopens it.
LEMMA OpenFoundOpen ==
  ASSUME NEW r \in Request, NEW s \in Row, Accepts(r, s),
         StatusWritten(r, s) \notin ClosingStatuses \cup { "REOPENED", NoTarget }
  PROVE  s.status \notin ClosingStatuses
<1>1. r.kind \in { "advance", "take", "release", "revision" }
  BY DEF StatusWritten, ClosingStatuses, NoTarget
<1>2. CASE r.kind = "advance"
  <2>1. StatusWritten(r, s) = ComputeAdvanceTarget(s.status, WorkflowOf[r.task])
    BY <1>2 DEF StatusWritten
  <2>. QED
    BY <2>1, AdvanceTarget DEF ClosingStatuses
<1>3. CASE r.kind = "take"
  BY <1>3 DEF Accepts, takeableStatuses, ClosingStatuses
<1>4. CASE r.kind = "release"
  BY <1>4 DEF Accepts, releaseableStatuses, ClosingStatuses
<1>5. CASE r.kind = "revision"
  BY <1>5 DEF Accepts, ClosingStatuses
<1>. QED
  BY <1>1, <1>2, <1>3, <1>4, <1>5

\* What a commit adds to the trail is newer than what the task has there.
LEMMA BreakStays ==
  ASSUME TypeInv, AuditInv, NEW p \in Procs, Persists(p), NEW e \in audit, Breaks(e)
  PROVE  e \in audit' /\ Breaks(e)'
<1>. DEFINE before == { f \in audit : f.task = e.task /\ f.id < e.id }
<1>1. audit' = audit \cup draft[p]
  BY DEF Persists, Persist, AuditAfter
<1>2. ASSUME NEW d \in draft[p], d.task = e.task
      PROVE  ~(d.id < e.id)
  <2>1. e.id < d.id
    BY <1>2 DEF AuditInv, Drafted
  <2>2. e.id \in Nat /\ d.id \in Nat
    BY <1>2 DEF TypeInv, TypeOK, AuditEntry
  <2>. QED
    BY <2>1, <2>2
<1>3. { f \in audit' : f.task = e.task /\ f.id < e.id } = before
  BY <1>1, <1>2
<1>. QED
  BY <1>1, <1>3 DEF Breaks

LEMMA ClosingPersist ==
  ASSUME TypeInv, AuditInv, OverwrittenClosingShows, NEW p \in Procs, Persists(p)
  PROVE  OverwrittenClosingShows'
<1>. DEFINE t == req[p].task
            to == StatusWritten(req[p], snap[p])
<1>1. /\ pc[p] = "commit" /\ req[p] \in Request /\ snap[p] \in Row /\ t \in Tasks
      /\ Accepts(req[p], snap[p])
  BY DEF Persists, TypeInv, WellFormed, Decided, Request
<1>2. \A u \in Tasks \ {t} : row'[u] = row[u]
  BY DEF Persists, Persist, TypeInv, TypeOK
<1>3. row'[t] = row[t] \/ row'[t] = RowAfter(req[p], snap[p], row[t])
  BY <1>1 DEF Persists, Persist, TypeInv, TypeOK
<1>4. ASSUME NEW u \in Tasks, ClosedWhileOpen(row[u])
      PROVE  ClosedWhileOpen(StartRow[u]) \/ \E e \in audit' : e.task = u /\ Breaks(e)'
  BY <1>4, BreakStays DEF OverwrittenClosingShows
<1>5. ASSUME ClosedWhileOpen(row'[t]), ~ClosedWhileOpen(row[t])
      PROVE  \E e \in audit' : e.task = t /\ Breaks(e)'
  <2>1. row'[t] = RowAfter(req[p], snap[p], row[t])
    BY <1>3, <1>5
  <2>2. ClosedAfter(req[p], snap[p], row[t].closed) /\ row'[t].status \notin ClosingStatuses
    BY <1>5, <2>1 DEF ClosedWhileOpen, RowAfter, ClosingStatuses
  <2>3. to # NoTarget
    <3>1. ASSUME to = NoTarget
          PROVE  row'[t].status = row[t].status /\ row[t].closed
      <4>1. req[p].kind \notin { "cancel", "supersede" } /\ to # "DONE"
        BY <3>1 DEF StatusWritten, NoTarget
      <4>. QED
        BY <2>1, <2>2, <3>1, <4>1 DEF RowAfter, ClosedAfter
    <3>. QED
      BY <1>5, <2>2, <3>1 DEF ClosedWhileOpen, ClosingStatuses
  <2>4. row'[t].status = to /\ to \notin ClosingStatuses \cup { "REOPENED" }
    BY <2>1, <2>2, <2>3 DEF RowAfter, ClosedAfter
  <2>5. req[p].kind \notin { "cancel", "supersede" } /\ to # "DONE"
    BY <2>4 DEF StatusWritten, ClosingStatuses
  <2>6. row[t].closed /\ row[t].status \in ClosingStatuses
    BY <1>5, <2>2, <2>5 DEF ClosedAfter, ClosedWhileOpen, ClosingStatuses
  <2>7. snap[p].status # row[t].status
    BY <1>1, <2>3, <2>4, <2>6, OpenFoundOpen
  <2>8. PICK e \in draft[p] :
          /\ draft[p] = {e} /\ e.task = t /\ e.old = snap[p].status
          /\ \A f \in audit : f.task = t => f.id < e.id
    BY <1>1, <2>3 DEF AuditInv, Drafted
  <2>9. audit' = audit \cup {e}
    BY <2>8 DEF Persists, Persist, AuditAfter
  <2>10. e.id \in Nat
    BY DEF TypeInv, TypeOK, AuditEntry
  <2>. DEFINE mine == { f \in audit : f.task = t }
  <2>11. { f \in audit' : f.task = e.task /\ f.id < e.id } = mine
    BY <2>8, <2>9, <2>10
  <2>12. CASE mine = {}
    <3>1. row[t].status = StartRow[t].status
      BY <1>1, <2>12 DEF AuditInv, AuditEndsAtStatus
    <3>. QED
      BY <2>7, <2>8, <2>9, <2>11, <2>12, <3>1 DEF Breaks
  <2>13. CASE mine # {}
    <3>1. PICK f \in mine : (\A g \in mine : g.id <= f.id) /\ f.new = row[t].status
      BY <1>1, <2>13 DEF AuditInv, AuditEndsAtStatus
    <3>. HIDE DEF mine
    <3>2. Breaks(e)'
      BY <2>7, <2>8, <2>11, <2>13, <3>1 DEF Breaks
    <3>. QED
      BY <2>8, <2>9, <3>2
  <2>. QED
    BY <2>12, <2>13
<1>. QED
  BY <1>2, <1>4, <1>5 DEF OverwrittenClosingShows

LEMMA ClosingStep ==
  ASSUME TypeInv, AuditInv, OverwrittenClosingShows, [Next]_vars
  PROVE  OverwrittenClosingShows'
<1>1. CASE UNCHANGED << row, audit >>
  BY <1>1 DEF OverwrittenClosingShows, Breaks
<1>2. ASSUME NEW p \in Procs, Persists(p)
      PROVE  OverwrittenClosingShows'
  BY <1>2, ClosingPersist
<1>. QED
  BY <1>1, <1>2, OneActs, QuietOrPersists DEF Quiet, db

\* Whatever requests race: a DONE, a cancel or a supersede that was overwritten by
\* a command that never saw it stands in the audit trail as a break.
THEOREM LostClosingsShow == Spec => []OverwrittenClosingShows
<1>1. Init => OverwrittenClosingShows
  BY DEF Init, OverwrittenClosingShows
<1>. QED
  BY TypeInit, TypeStep, AuditInit, AuditStep, <1>1, ClosingStep, PTL DEF Spec

-----------------------------------------------------------------------------
(* The newest verdict.  What a submit un-marks was there before it drew its  *)
(* id, so it never un-marks a row that is newer than its own.                *)

\* Committed rows have ids of their own from the sequence.
RowsApart ==
  /\ \A v \in verdicts : v.id < nextReview
  /\ \A v, w \in verdicts : v.id = w.id => v = w

Submits(p) == pc[p] = "commit" /\ req[p].kind \in ReviewKinds

\* So have the rows that are still to be committed.
FreshApart ==
  \A p \in Procs : Submits(p) =>
    /\ fresh[p] < nextReview /\ \A v \in verdicts : v.id # fresh[p]
    /\ \A q \in Procs \ {p} : Submits(q) => fresh[q] # fresh[p]

\* What is to be un-marked are older rows of the same task and reviewer.
MarkedPrior ==
  \A p \in Procs : pc[p] = "insert" \/ Submits(p) =>
    \A i \in marked[p] :
      /\ \E v \in verdicts : v.id = i /\ v.task = req[p].task /\ v.reviewer = req[p].reviewer
      /\ pc[p] = "commit" => i < fresh[p]

VerdictInv == RowsApart /\ FreshApart /\ MarkedPrior /\ NewestVerdictIsLatest

LEMMA VerdictInit == Init => VerdictInv
<1>1. Cardinality(StartVerdicts) \in Nat
  BY StartAssumption, FS_CardinalityType
<1>2. \A v \in StartVerdicts : v.id \in Nat /\ v.id <= Cardinality(StartVerdicts)
  BY StartAssumption DEF Verdict
<1>. QED
  BY <1>1, <1>2, StartAssumption DEF Init, VerdictInv, RowsApart, FreshApart, MarkedPrior,
     Submits, NewestVerdictIsLatest

\* A step that commits nothing and neither marks nor draws.
LEMMA VerdictFrame ==
  ASSUME VerdictInv, UNCHANGED << verdicts, latest, nextReview >>, NEW p \in Procs, Apart(p),
         pc'[p] # "insert", ~Submits(p)'
  PROVE  VerdictInv'
BY DEF Apart, VerdictInv, RowsApart, FreshApart, MarkedPrior, Submits, NewestVerdictIsLatest

LEMMA VerdictPersist ==
  ASSUME TypeInv, VerdictInv, NEW p \in Procs, Apart(p), Persists(p), req[p].kind \in ReviewKinds
  PROVE  VerdictInv'
<1>. DEFINE v0 == [ id |-> fresh[p], task |-> req[p].task, reviewer |-> req[p].reviewer,
                    verdict |-> StoredVerdict(req[p].verdict) ]
<1>1. /\ verdicts' = verdicts \cup {v0} /\ latest' = (latest \ marked[p]) \cup {fresh[p]}
      /\ nextReview' = nextReview /\ pc[p] = "commit" /\ pc'[p] \in { "bump", "answer" }
      /\ UNCHANGED << req, marked, fresh >>
  BY DEF Persists, Persist, LatestAfter
<1>2. /\ \A v \in verdicts : v.id \in Nat
      /\ fresh[p] \in Nat /\ nextReview \in Nat /\ \A i \in marked[p] : i \in Nat
  BY DEF TypeInv, TypeOK, Verdict
<1>3. Submits(p) /\ fresh[p] < nextReview /\ \A v \in verdicts : v.id # fresh[p]
  BY <1>1 DEF Submits, VerdictInv, FreshApart
<1>4. RowsApart'
  BY <1>1, <1>2, <1>3 DEF VerdictInv, RowsApart
<1>5. \A q \in Procs : Submits(q)' => q # p /\ Submits(q)
  BY <1>1 DEF Submits, Apart
<1>6. FreshApart'
  BY <1>1, <1>3, <1>5 DEF VerdictInv, FreshApart
<1>7. MarkedPrior'
  BY <1>1, <1>5 DEF VerdictInv, MarkedPrior, Apart, Submits
<1>8. ASSUME NEW v \in verdicts',
             \A w \in verdicts' : w.task = v.task /\ w.reviewer = v.reviewer => w.id <= v.id
      PROVE  v.id \in latest'
  <2>1. CASE v = v0
    BY <1>1, <2>1
  <2>2. CASE v \in verdicts
    <3>1. v.id \in latest
      BY <1>1, <1>8, <2>2 DEF VerdictInv, NewestVerdictIsLatest
    <3>2. ASSUME v.id \in marked[p] PROVE FALSE
      <4>1. v.id < fresh[p]
        BY <1>1, <1>3, <3>2 DEF VerdictInv, MarkedPrior
      <4>2. PICK w \in verdicts : w.id = v.id /\ w.task = req[p].task /\ w.reviewer = req[p].reviewer
        BY <1>3, <3>2 DEF VerdictInv, MarkedPrior
      <4>3. v.task = req[p].task /\ v.reviewer = req[p].reviewer
        BY <2>2, <4>2 DEF VerdictInv, RowsApart
      <4>4. fresh[p] <= v.id
        <5>1. /\ v0 \in verdicts' /\ v0.id = fresh[p]
              /\ v0.task = req[p].task /\ v0.reviewer = req[p].reviewer
          BY <1>1
        <5>. HIDE DEF v0
        <5>. QED
          BY <5>1, <1>8, <4>3
      <4>. QED
        BY <1>2, <2>2, <4>1, <4>4
    <3>. QED
      BY <1>1, <3>1, <3>2
  <2>. QED
    BY <1>1, <2>1, <2>2
<1>. QED
  BY <1>4, <1>6, <1>7, <1>8 DEF VerdictInv, NewestVerdictIsLatest

LEMMA VerdictStep ==
  ASSUME TypeInv, VerdictInv, NEW p \in Procs, Acts(p), Apart(p)
  PROVE  VerdictInv'
<1>. USE DEF Goto, Reply, db, locals
<1>1. CASE MarkPrior(p)
  BY <1>1 DEF MarkPrior, Apart, VerdictInv, RowsApart, FreshApart, MarkedPrior, Submits,
     NewestVerdictIsLatest, TypeInv, TypeOK, Verdict
<1>2. CASE InsertReview(p)
  <2>1. /\ UNCHANGED << verdicts, latest, req, marked >> /\ pc[p] = "insert" /\ pc'[p] = "commit"
        /\ nextReview' = nextReview + 1 /\ fresh'[p] = nextReview
    BY <1>2 DEF InsertReview, TypeInv, TypeOK
  <2>2. /\ nextReview \in Nat /\ \A v \in verdicts : v.id \in Nat
        /\ \A q \in Procs : fresh[q] \in Nat
    BY DEF TypeInv, TypeOK, Verdict
  <2>3. RowsApart' /\ NewestVerdictIsLatest'
    BY <2>1, <2>2 DEF VerdictInv, RowsApart, NewestVerdictIsLatest
  <2>4. \A q \in Procs \ {p} : Submits(q)' = Submits(q) /\ fresh'[q] = fresh[q]
    BY DEF Apart, Submits
  <2>5. FreshApart'
    BY <2>1, <2>2, <2>4 DEF VerdictInv, RowsApart, FreshApart
  <2>6. MarkedPrior'
    <3>1. \A i \in marked[p] : i < nextReview
      BY <2>1 DEF VerdictInv, MarkedPrior, RowsApart
    <3>. QED
      BY <2>1, <2>4, <3>1 DEF VerdictInv, MarkedPrior, Apart
  <2>. QED
    BY <2>3, <2>5, <2>6 DEF VerdictInv
<1>3. CASE Persists(p) /\ req[p].kind \in ReviewKinds
  BY <1>3, VerdictPersist
<1>4. CASE Persists(p) /\ req[p].kind \notin ReviewKinds
  BY <1>4, VerdictFrame DEF Persists, Persist, Submits
<1>5. CASE Proceed(p) \/ ReadParent(p)
  <2>1. TxStart(req[p], snap[p]) # "mark" \/ req[p].kind \in ReviewKinds
    BY ReviewsMark
  <2>2. pc'[p] # "insert" /\ ~Submits(p)'
    BY <1>5, <2>1 DEF Proceed, ReadParent, TxStart, Submits, TypeInv, TypeOK, WellFormed,
       ReviewKinds
  <2>. QED
    BY <1>5, <2>2, VerdictFrame DEF Proceed, ReadParent
<1>6. CASE UpdateRow(p) \/ InsertAudit(p) \/ Rescore(p)
  <2>1. req[p].kind \notin ReviewKinds
    BY <1>6 DEF UpdateRow, InsertAudit, Rescore, TypeInv, WellFormed
  <2>2. pc'[p] # "insert" /\ ~Submits(p)' /\ UNCHANGED << verdicts, latest, nextReview >>
    BY <1>6, <2>1 DEF UpdateRow, InsertAudit, Rescore, Submits, TypeInv, TypeOK
  <2>. QED
    BY <2>2, VerdictFrame
<1>7. ASSUME \/ Receive(p) \/ ReadHit(p) \/ RereadHit(p) \/ ReadMiss(p) \/ Fill(p)
             \/ Refuse(p) \/ Decline(p) \/ Bump(p) \/ RefetchFails(p) \/ Answer(p)
             \/ Fail(p) \/ RejectVerdict(p) \/ DeadlockVictim(p)
             \/ \E w \in Reviewers : GatePass(p, w) \/ GateFail(p, w)
      PROVE  VerdictInv'
  <2>1. pc'[p] \notin { "insert", "commit" } /\ UNCHANGED << verdicts, latest, nextReview >>
    BY <1>7 DEF Receive, ReadHit, RereadHit, ReadMiss, Fill, Refuse, Decline, Bump, RefetchFails,
       Answer, Fail, RejectVerdict, DeadlockVictim, Rollback, GatePass, GateFail, TypeInv, TypeOK
  <2>. QED
    BY <2>1, VerdictFrame DEF Submits
<1>8. CASE Commit(p) \/ CommitUnacked(p)
  BY <1>3, <1>4, <1>8 DEF Commit, CommitUnacked, Persists, ErrorReply, TypeInv, TypeOK
<1>. QED
  BY <1>1, <1>2, <1>5, <1>6, <1>7, <1>8 DEF Acts, Step

LEMMA VerdictNext == TypeInv /\ VerdictInv /\ [Next]_vars => VerdictInv'
<1>. SUFFICES ASSUME TypeInv, VerdictInv, [Next]_vars
              PROVE  VerdictInv'
  OBVIOUS
<1>1. CASE UNCHANGED << db, pc, locals, served >>
  BY <1>1 DEF db, locals, VerdictInv, RowsApart, FreshApart, MarkedPrior, Submits,
     NewestVerdictIsLatest
<1>. QED
  BY <1>1, OneActs, VerdictStep

\* However submits of one reviewer race, the newest verdict is a latest one.
THEOREM NewestCounts == Spec => []NewestVerdictIsLatest
<1>1. VerdictInv => NewestVerdictIsLatest
  BY DEF VerdictInv
<1>. QED
  BY TypeInit, TypeStep, VerdictInit, VerdictNext, <1>1, PTL DEF Spec

-----------------------------------------------------------------------------
(* old_value.  Whatever a handler has read, from the table or the cache, is  *)
(* a status that the task started with or that a committed audit row names.  *)

Seen(t, status) ==
  status = StartRow[t].status \/ \E f \in audit : f.task = t /\ f.new = status

CachedSeen == \A t \in Tasks : cached[t] # Nil => Seen(t, cached[t].status)

SnapSeen == \A p \in Procs : pc[p] \in Deciding => Seen(req[p].task, snap[p].status)

\* The old value of an audit row is one that was seen before its id was drawn.
WasReal(e) ==
  \/ e.old = StartRow[e.task].status
  \/ \E f \in audit : f.task = e.task /\ f.id < e.id /\ f.new = e.old

DraftReal == \A p \in Procs : \A e \in draft[p] : WasReal(e)

OldInv == CachedSeen /\ SnapSeen /\ DraftReal /\ OldValueWasReal

LEMMA OldInit == Init => OldInv
BY DEF Init, OldInv, CachedSeen, SnapSeen, DraftReal, OldValueWasReal, Deciding

LEMMA RowSeen ==
  ASSUME AuditEndsAtStatus, NEW t \in Tasks
  PROVE  Seen(t, row[t].status)
BY DEF AuditEndsAtStatus, Seen

LEMMA OldStep ==
  ASSUME TypeInv, AuditInv, OldInv, NEW p \in Procs, Acts(p), Apart(p)
  PROVE  OldInv'
<1>. USE DEF Goto, Reply, db, locals
<1>1. audit' = audit \/ (Persists(p) /\ audit' = audit \cup draft[p])
  BY QuietOrPersists DEF Quiet, Persists, Persist, AuditAfter
<1>2. /\ \A t, s : Seen(t, s) => Seen(t, s)'
      /\ \A e : WasReal(e) => WasReal(e)'
  BY <1>1 DEF Seen, WasReal
<1>3. req[p].task \in Tasks \/ pc[p] = "idle"
  BY DEF TypeInv, WellFormed, Request
<1>4. CachedSeen'
  <2>1. ASSUME NEW t \in Tasks, cached'[t] # Nil, cached'[t] # cached[t]
        PROVE  Seen(t, cached'[t].status)
    <3>1. Fill(p) /\ t = req[p].task /\ cached'[t] = snap[p]
      BY <2>1 DEF Acts, Step, Receive, ReadHit, RereadHit, ReadMiss, Fill, Refuse, Decline,
         Proceed, GatePass, GateFail, ReadParent, UpdateRow, InsertAudit, Rescore, MarkPrior,
         InsertReview, Commit, CommitUnacked, Bump, Answer, RefetchFails, Fail, RejectVerdict,
         DeadlockVictim, Rollback, TypeInv, TypeOK
    <3>. QED
      BY <3>1 DEF Fill, OldInv, SnapSeen, Deciding
  <2>. QED
    BY <1>2, <2>1 DEF OldInv, CachedSeen
<1>5. SnapSeen'
  <2>1. pc'[p] \in Deciding => Seen(req'[p].task, snap'[p].status)
    <3>1. CASE ReadHit(p)
      BY <1>3, <3>1 DEF ReadHit, OldInv, CachedSeen, TypeInv, TypeOK
    <3>2. CASE ReadMiss(p) \/ ReadParent(p)
      BY <1>3, <3>2, RowSeen DEF ReadMiss, ReadParent, AuditInv, TypeInv, TypeOK
    <3>3. CASE Receive(p) \/ RereadHit(p) \/ Refuse(p) \/ Decline(p) \/ Bump(p) \/ Answer(p)
               \/ RefetchFails(p) \/ Commit(p) \/ CommitUnacked(p)
               \/ Fail(p) \/ RejectVerdict(p) \/ DeadlockVictim(p)
      BY <3>3 DEF Deciding, Receive, RereadHit, Refuse, Decline, Bump, Answer, RefetchFails,
         Commit, CommitUnacked, Fail, RejectVerdict, DeadlockVictim, Rollback, TypeInv, TypeOK
    <3>4. CASE Fill(p) \/ Proceed(p) \/ UpdateRow(p) \/ InsertAudit(p) \/ Rescore(p)
               \/ MarkPrior(p) \/ InsertReview(p)
               \/ \E w \in Reviewers : GatePass(p, w) \/ GateFail(p, w)
      <4>1. pc[p] \in Deciding /\ UNCHANGED << req, snap >>
        BY <3>4 DEF Deciding, Fill, Proceed, UpdateRow, InsertAudit, Rescore, MarkPrior,
           InsertReview, GatePass, GateFail
      <4>. QED
        BY <4>1 DEF OldInv, SnapSeen
    <3>. QED
      BY <3>1, <3>2, <3>3, <3>4 DEF Acts, Step
  <2>. QED
    BY <1>2, <2>1 DEF Apart, OldInv, SnapSeen
<1>6. DraftReal'
  <2>1. ASSUME NEW e \in draft'[p], e \notin draft[p] PROVE WasReal(e)
    <3>1. InsertAudit(p)
      BY <2>1 DEF Acts, Step, Receive, ReadHit, RereadHit, ReadMiss, Fill, Refuse, Decline,
         Proceed, GatePass, GateFail, ReadParent, UpdateRow, InsertAudit, Rescore, MarkPrior,
         InsertReview, Commit, CommitUnacked, Persist, Bump, Answer, RefetchFails, Fail,
         RejectVerdict, DeadlockVictim, Rollback, TypeInv, TypeOK
    <3>2. e.id = nextAudit /\ e.task = req[p].task /\ e.old = snap[p].status
      BY <2>1, <3>1 DEF InsertAudit, AuditOld, TypeInv, TypeOK
    <3>3. Seen(req[p].task, snap[p].status)
      BY <3>1 DEF InsertAudit, OldInv, SnapSeen, Deciding
    <3>. QED
      BY <3>2, <3>3 DEF Seen, WasReal, AuditInv, IdsDrawn
  <2>. QED
    BY <1>2, <2>1 DEF OldInv, DraftReal, Apart
<1>7. OldValueWasReal'
  <2>1. \A e \in audit' : WasReal(e)
    BY <1>1 DEF OldInv, DraftReal, OldValueWasReal, WasReal
  <2>. QED
    BY <1>2, <2>1 DEF OldValueWasReal, WasReal
<1>. QED
  BY <1>4, <1>5, <1>6, <1>7 DEF OldInv

\* Every old_value in the trail was the task's status at some earlier time,
\* however old the snapshot is that it was taken from.
THEOREM OldValuesAreReal == Spec => []OldValueWasReal
<1>1. ASSUME TypeInv, AuditInv, OldInv, [Next]_vars PROVE OldInv'
  <2>1. CASE /\ UNCHANGED << db, pc, locals, served >>
             /\ \A t \in Tasks : cached'[t] \in { cached[t], Nil }
    <3>1. UNCHANGED << audit, pc, req, snap, draft >>
      BY <2>1 DEF db, locals
    <3>. QED
      BY <1>1, <2>1, <3>1 DEF OldInv, CachedSeen, SnapSeen, DraftReal, OldValueWasReal, Seen, WasReal
  <2>. QED
    BY <1>1, <2>1, OneActs, OldStep
<1>2. OldInv => OldValueWasReal
  BY DEF OldInv
<1>. QED
  BY TypeInit, TypeStep, AuditInit, AuditStep, OldInit, <1>1, <1>2, PTL DEF Spec

-----------------------------------------------------------------------------
(* What an answer says.  Requests have numbers of their own, and the trail   *)
(* has a row with the number of a request from its commit on, never before.  *)

Traces(p) == { e \in audit : e.req = req[p].no }

Numbered ==
  /\ \A p \in Procs : pc[p] # "idle" => req[p].no <= served
  /\ \A p, q \in Procs : pc[p] # "idle" /\ pc[q] # "idle" /\ req[p].no = req[q].no => p = q
  /\ \A e \in audit : e.req <= served

\* A drafted row is the drafter's own.
DraftOwn == \A p \in Procs : \A e \in draft[p] : e.req = req[p].no

BeforeCommit == { "read", "fill", "check", "gate", "parent", "update", "audit", "rescore",
                  "mark", "insert", "commit" }

Accepted == { "gate", "update", "audit", "rescore", "mark", "insert", "commit" }

\* A command that moves a task goes into its transaction with a status to write.
Targeted ==
  \A p \in Procs : pc[p] \in Accepted /\ req[p].kind \in StatusKinds =>
    StatusWritten(req[p], snap[p]) # NoTarget

Truth(p) ==
  /\ pc[p] \in BeforeCommit => Traces(p) = {}
  /\ pc[p] \in { "bump", "reread", "refill" } /\ req[p].kind \in StatusKinds => Traces(p) # {}
  /\ pc[p] = "answer" =>
       /\ code[p] \in { "200", "200mem" } /\ req[p].kind \in StatusKinds => Traces(p) # {}
       /\ code[p] = "422" => Traces(p) = {}

TruthInv == Numbered /\ DraftOwn /\ Targeted /\ \A p \in Procs : Truth(p)

LEMMA TruthInit == Init => TruthInv
BY DEF Init, TruthInv, Numbered, DraftOwn, Targeted, Truth, BeforeCommit, Accepted

\* Statuses that need no advance map.
LEMMA PlainTargets ==
  ASSUME NEW r, NEW s, r.kind \in StatusKinds, Accepts(r, s)
  PROVE  StatusWritten(r, s) # NoTarget
BY DEF StatusKinds, Accepts, AdvanceAccepts, StatusWritten, NoTarget, ParentKinds

LEMMA TruthStep ==
  ASSUME TypeInv, AuditInv, TruthInv, NEW p \in Procs, Acts(p), Apart(p)
  PROVE  TruthInv'
<1>. USE DEF Goto, Reply, db, locals
<1>1. \/ audit' = audit /\ ~Persists(p)
      \/ Persists(p) /\ audit' = audit \cup draft[p]
  BY QuietOrPersists DEF Quiet, Persists, Persist, AuditAfter
<1>2. /\ served \in Nat /\ served' \in { served, served + 1 }
      /\ \A e \in audit : e.req \in Nat
      /\ \A q \in Procs : pc[q] # "idle" => req[q].no \in Nat
  <2>1. served' \in { served, served + 1 }
    BY DEF Acts, Step, Receive, ReadHit, RereadHit, ReadMiss, Fill, Refuse, Decline,
       Proceed, GatePass, GateFail, ReadParent, UpdateRow, InsertAudit, Rescore, MarkPrior,
       InsertReview, Commit, CommitUnacked, Bump, Answer, RefetchFails, Fail, RejectVerdict,
       DeadlockVictim, Rollback
  <2>. QED
    BY <2>1 DEF TypeInv, TypeOK, WellFormed, AuditEntry, Request
<1>3. CASE Receive(p)
  <2>1. /\ req'[p].no = served + 1 /\ served' = served + 1 /\ pc[p] = "idle"
        /\ pc'[p] \in { "read", "parent" } /\ UNCHANGED << audit, draft >>
    <3>1. PICK r \in Requests :
            /\ req' = [req EXCEPT ![p] = r]
            /\ pc' = [pc EXCEPT ![p] = IF r.kind = "create-child" THEN "parent" ELSE "read"]
      BY <1>3 DEF Receive
    <3>2. r.no = served + 1
      <4>1. PICK k \in Kinds : r \in Asked(k)
        BY <3>1 DEF Requests
      <4>. QED
        BY <4>1 DEF Asked
    <3>3. /\ pc[p] = "idle" /\ served' = served + 1 /\ UNCHANGED << audit, draft >>
      BY <1>3 DEF Receive
    <3>. QED
      BY <3>1, <3>2, <3>3 DEF TypeInv, TypeOK
  <2>2. draft[p] = {}
    BY <2>1 DEF AuditInv, Drafted
  <2>3. Numbered' /\ DraftOwn'
    BY <1>2, <2>1, <2>2 DEF TruthInv, Numbered, DraftOwn, Apart
  <2>4. Targeted'
    BY <2>1 DEF TruthInv, Targeted, Accepted, Apart
  <2>5. Traces(p)' = {}
    BY <1>2, <2>1 DEF TruthInv, Numbered, Traces
  <2>. QED
    BY <2>1, <2>3, <2>4, <2>5 DEF TruthInv, Truth, Traces, BeforeCommit, Apart
<1>4. CASE ~Receive(p)
  <2>1. /\ pc[p] # "idle" /\ served' = served
        /\ pc'[p] # "idle" => UNCHANGED req
    BY <1>4 DEF Acts, Step, ReadHit, RereadHit, ReadMiss, Fill, Refuse, Decline,
       Proceed, GatePass, GateFail, ReadParent, UpdateRow, InsertAudit, Rescore, MarkPrior,
       InsertReview, Commit, CommitUnacked, Bump, Answer, RefetchFails, Fail, RejectVerdict,
       DeadlockVictim, Rollback, TypeInv, TypeOK
  <2>2. Numbered'
    BY <1>1, <1>2, <2>1 DEF TruthInv, Numbered, DraftOwn, Apart
  <2>3. DraftOwn'
    <3>1. \A e \in draft'[p] : e.req = req'[p].no
      <4>1. CASE InsertAudit(p)
        BY <4>1 DEF InsertAudit, TypeInv, TypeOK
      <4>2. CASE Answer(p)
        <5>1. draft'[p] = {}
          BY <4>2 DEF Answer, AuditInv, Drafted
        <5>. QED
          BY <5>1
      <4>3. CASE ~InsertAudit(p) /\ ~Answer(p)
        <5>1. draft'[p] \in { draft[p], {} } /\ UNCHANGED req
          BY <1>4, <4>3 DEF Acts, Step, ReadHit, RereadHit, ReadMiss, Fill, Refuse, Decline,
             Proceed, GatePass, GateFail, ReadParent, UpdateRow, Rescore, MarkPrior,
             InsertReview, Commit, CommitUnacked, Persist, Bump, RefetchFails, Fail,
             RejectVerdict, DeadlockVictim, Rollback, TypeInv, TypeOK
        <5>. QED
          BY <5>1 DEF TruthInv, DraftOwn
      <4>. QED
        BY <4>1, <4>2, <4>3
    <3>. QED
      BY <3>1 DEF TruthInv, DraftOwn, Apart
  <2>4. Targeted'
    <3>1. pc'[p] \in Accepted /\ req'[p].kind \in StatusKinds =>
            StatusWritten(req'[p], snap'[p]) # NoTarget
      <4>1. CASE Proceed(p)
        BY <4>1, PlainTargets DEF Proceed
      <4>2. CASE ReadParent(p)
        BY <4>2 DEF ReadParent, TypeInv, WellFormed, StatusKinds
      <4>3. CASE ~Proceed(p) /\ ~ReadParent(p)
        <5>1. pc'[p] \in Accepted => pc[p] \in Accepted /\ UNCHANGED << req, snap >>
          BY <1>4, <4>3 DEF Accepted, Acts, Step, ReadHit, RereadHit, ReadMiss, Fill, Refuse,
             Decline, GatePass, GateFail, UpdateRow, InsertAudit, Rescore, MarkPrior,
             InsertReview, Commit, CommitUnacked, Bump, Answer, RefetchFails, Fail,
             RejectVerdict, DeadlockVictim, Rollback, TypeInv, TypeOK
        <5>. QED
          BY <5>1 DEF TruthInv, Targeted
      <4>. QED
        BY <4>1, <4>2, <4>3
    <3>. QED
      BY <3>1 DEF TruthInv, Targeted, Apart
  <2>5. ASSUME NEW q \in Procs, q # p, pc[q] # "idle" PROVE Traces(q)' = Traces(q)
    <3>1. \A e \in draft[p] : e.req # req[q].no
      BY <2>1, <2>5 DEF TruthInv, Numbered, DraftOwn
    <3>2. req'[q] = req[q]
      BY <2>5 DEF Apart
    <3>. QED
      BY <1>1, <3>1, <3>2 DEF Traces
  <2>6. ASSUME NEW q \in Procs, q # p PROVE Truth(q)'
    <3>1. pc'[q] = pc[q] /\ req'[q] = req[q] /\ code'[q] = code[q] /\ Truth(q)
      BY <2>6 DEF Apart, TruthInv
    <3>. QED
      BY <2>5, <2>6, <3>1 DEF Truth, BeforeCommit
  <2>7. Truth(p)'
    <3>1. CASE Persists(p)
      <4>1. pc[p] = "commit" /\ audit' = audit \cup draft[p] /\ UNCHANGED req
        BY <1>1, <3>1 DEF Persists
      <4>2. req[p].kind \in StatusKinds => Traces(p)' # {}
        <5>1. req[p].kind \in StatusKinds => \E e \in draft[p] : TRUE
          BY <4>1 DEF TruthInv, Targeted, Accepted, AuditInv, Drafted
        <5>. QED
          BY <4>1, <5>1 DEF TruthInv, DraftOwn, Traces
      <4>3. \/ pc'[p] = "bump"
            \/ pc'[p] = "answer" /\ code'[p] = "500"
        BY <3>1 DEF Persists
      <4>. QED
        BY <4>1, <4>2, <4>3 DEF Truth, BeforeCommit
    <3>2. CASE ~Persists(p) /\ ~Answer(p)
      <4>1. Traces(p)' = Traces(p) /\ req'[p] = req[p] /\ Truth(p)
        BY <1>1, <1>4, <3>2 DEF Traces, TruthInv, Acts, Step, ReadHit, RereadHit, ReadMiss,
           Fill, Refuse, Decline, Proceed, GatePass, GateFail, ReadParent, UpdateRow, InsertAudit,
           Rescore, MarkPrior, InsertReview, Commit, CommitUnacked, Bump, RefetchFails, Fail,
           RejectVerdict, DeadlockVictim, Rollback
      <4>2. CASE ReadHit(p) \/ ReadMiss(p) \/ ReadParent(p) \/ Proceed(p) \/ UpdateRow(p)
                 \/ InsertAudit(p) \/ Rescore(p) \/ MarkPrior(p) \/ InsertReview(p)
        <5>1. \/ pc[p] \in BeforeCommit /\ pc'[p] \in BeforeCommit
              \/ pc[p] = "reread" /\ pc'[p] = "refill"
          BY <4>2, ReviewsMark DEF ReadHit, ReadMiss, ReadParent, Proceed, UpdateRow, InsertAudit,
             Rescore, MarkPrior, InsertReview, BeforeCommit, TypeInv, TypeOK
        <5>. QED
          BY <4>1, <5>1 DEF Truth, BeforeCommit
      <4>3. ASSUME NEW w \in Reviewers, GatePass(p, w) PROVE Truth(p)'
        BY <4>1, <4>3 DEF GatePass, Truth, BeforeCommit, TypeInv, TypeOK
      <4>4. ASSUME NEW w \in Reviewers, GateFail(p, w) PROVE Truth(p)'
        BY <4>1, <4>4 DEF GateFail, Truth, BeforeCommit, TypeInv, TypeOK
      <4>5. CASE Fill(p) \/ RereadHit(p) \/ RefetchFails(p) \/ Bump(p)
        BY <4>1, <4>5 DEF Fill, RereadHit, RefetchFails, Bump, Truth, BeforeCommit, RefetchKinds,
           TypeInv, TypeOK
      <4>6. CASE Refuse(p)
        BY <4>1, <4>6 DEF Refuse, Truth, BeforeCommit, TypeInv, TypeOK
      <4>7. CASE Decline(p)
        BY <4>1, <4>7 DEF Decline, MayDecline, StatusKinds, Truth, BeforeCommit, TypeInv, TypeOK
      <4>8. CASE Fail(p) \/ RejectVerdict(p) \/ DeadlockVictim(p)
        BY <4>8 DEF Fail, RejectVerdict, DeadlockVictim, Rollback, ErrorReply, Truth, BeforeCommit,
           TypeInv, TypeOK
      <4>9. CASE Commit(p) \/ CommitUnacked(p)
        BY <3>2, <4>9 DEF Commit, CommitUnacked, Persists, ErrorReply, TypeInv, TypeOK
      <4>. QED
        BY <1>4, <3>2, <4>2, <4>3, <4>4, <4>5, <4>6, <4>7, <4>8, <4>9 DEF Acts, Step
    <3>3. CASE Answer(p)
      BY <3>3 DEF Answer, Truth, BeforeCommit, TypeInv, TypeOK
    <3>. QED
      BY <3>1, <3>2, <3>3
  <2>. QED
    BY <2>2, <2>3, <2>4, <2>6, <2>7 DEF TruthInv
<1>. QED
  BY <1>3, <1>4

\* A 200 to a command that moves a task is behind its commit, and a 422 has
\* written nothing, whatever failed, raced or was taken from the cache.
THEOREM AnswersAreTrue == Spec => []AnswerTellsTheTruth
<1>1. ASSUME TypeInv, AuditInv, TruthInv, [Next]_vars PROVE TruthInv'
  <2>1. CASE UNCHANGED << db, pc, locals, served >>
    BY <1>1, <2>1 DEF db, locals, TruthInv, Numbered, DraftOwn, Targeted, Truth, Traces
  <2>. QED
    BY <1>1, <2>1, OneActs, TruthStep
<1>2. TruthInv => AnswerTellsTheTruth
  BY DEF TruthInv, Truth, Traces, AnswerTellsTheTruth
<1>. QED
  BY TypeInit, TypeStep, AuditInit, AuditStep, TruthInit, <1>1, <1>2, PTL DEF Spec

-----------------------------------------------------------------------------
(* What the comments say, and what it takes to break it.  Three comments do  *)
(* not hold of all interleavings; each holds of all but one kind.            *)

\* Nobody is about to store a row from before the write that another's reply to
\* the same task is being refetched for.
NoLateFill ==
  \A p, q \in Procs :
    pc[p] = "reread" /\ pc[q] \in { "fill", "refill" } /\ req[q].task = req[p].task
      => snap[q].rev >= wrote[p]

\* From the commit to the reply, row and cache are as new as the write.
FreshInv ==
  \A p \in Procs :
    /\ pc[p] \in { "bump", "reread" } => row[req[p].task].rev >= wrote[p]
    /\ pc[p] = "reread" /\ cached[req[p].task] # Nil => cached[req[p].task].rev >= wrote[p]
    /\ pc[p] = "refill" => snap[p].rev >= wrote[p]
    /\ pc[p] = "answer" /\ code[p] = "200" /\ wrote[p] > 0 /\ req[p].kind \in RefetchKinds
         => snap[p].rev >= wrote[p]
    /\ pc[p] \notin { "bump", "reread", "refill", "answer" } => wrote[p] = 0

\* Rows only get newer.
LEMMA RevGrows ==
  ASSUME TypeInv, NEW p \in Procs, Acts(p), NEW t \in Tasks
  PROVE  row'[t].rev >= row[t].rev
<1>. USE DEF TypeInv, TypeOK
<1>1. row[t] \in Row /\ row[t].rev \in Nat
  BY DEF Row
<1>2. CASE Quiet
  BY <1>1, <1>2 DEF Quiet
<1>3. CASE Persists(p)
  <2>. DEFINE u == req[p].task
              new == RowAfter(req[p], snap[p], row[u])
  <2>1. row' = row \/ row' = [row EXCEPT ![u] = new]
    BY <1>3 DEF Persists, Persist
  <2>2. new.rev = row[u].rev + 1
    BY DEF RowAfter
  <2>. HIDE DEF new
  <2>. QED
    BY <1>1, <2>1, <2>2
<1>. QED
  BY <1>2, <1>3, QuietOrPersists

LEMMA FreshStep ==
  ASSUME TypeInv, TypeInv', FreshInv, NoLateFill, NEW p \in Procs, Acts(p), Apart(p)
  PROVE  FreshInv'
<1>. USE DEF Goto, Reply, db, locals
<1>1. \A q \in Procs \ {p} : wrote'[q] = wrote[q]
  BY DEF Acts, Step, Receive, ReadHit, RereadHit, ReadMiss, Fill, Refuse, Decline,
     Proceed, GatePass, GateFail, ReadParent, UpdateRow, InsertAudit, Rescore, MarkPrior,
     InsertReview, Commit, CommitUnacked, Bump, Answer, RefetchFails, Fail, RejectVerdict,
     DeadlockVictim, Rollback, TypeInv, TypeOK
<1>2. \A q \in Procs : pc[q] # "idle" => req[q].task \in Tasks
  BY DEF TypeInv, WellFormed, Request
<1>3. /\ \A t \in Tasks : row[t].rev \in Nat /\ row'[t].rev \in Nat /\ row'[t].rev >= row[t].rev
      /\ \A q \in Procs : wrote[q] \in Nat
  BY RevGrows DEF TypeInv, TypeOK, Row
<1>4. \A t \in Tasks :
        \/ cached'[t] \in { cached[t], Nil }
        \/ pc[p] \in { "fill", "refill" } /\ req[p].task = t /\ cached'[t] = snap[p]
  <2>1. CASE Fill(p)
    BY <1>2, <2>1 DEF Fill, TypeInv, TypeOK
  <2>2. CASE Bump(p)
    BY <2>2 DEF Bump
  <2>3. CASE ~Fill(p) /\ ~Bump(p)
    BY <2>3 DEF Acts, Step, Receive, ReadHit, RereadHit, ReadMiss, Refuse, Decline,
     Proceed, GatePass, GateFail, ReadParent, UpdateRow, InsertAudit, Rescore, MarkPrior,
     InsertReview, Commit, CommitUnacked, Answer, RefetchFails, Fail, RejectVerdict,
     DeadlockVictim, Rollback
  <2>. QED
    BY <2>1, <2>2, <2>3
<1>5. ASSUME NEW q \in Procs, q # p
      PROVE  /\ pc'[q] \in { "bump", "reread" } => row'[req'[q].task].rev >= wrote'[q]
             /\ pc'[q] = "reread" /\ cached'[req'[q].task] # Nil
                  => cached'[req'[q].task].rev >= wrote'[q]
             /\ pc'[q] = "refill" => snap'[q].rev >= wrote'[q]
             /\ pc'[q] = "answer" /\ code'[q] = "200" /\ wrote'[q] > 0
                  /\ req'[q].kind \in RefetchKinds => snap'[q].rev >= wrote'[q]
             /\ pc'[q] \notin { "bump", "reread", "refill", "answer" } => wrote'[q] = 0
  <2>1. /\ pc'[q] = pc[q] /\ req'[q] = req[q] /\ snap'[q] = snap[q] /\ code'[q] = code[q]
        /\ wrote'[q] = wrote[q]
    BY <1>1, <1>5 DEF Apart
  <2>2. pc[q] \in { "bump", "reread" } => row'[req[q].task].rev >= wrote[q]
    BY <1>2, <1>3 DEF FreshInv
  <2>3. pc[q] = "reread" /\ cached'[req[q].task] # Nil => cached'[req[q].task].rev >= wrote[q]
    BY <1>2, <1>4 DEF FreshInv, NoLateFill
  <2>. QED
    BY <2>1, <2>2, <2>3 DEF FreshInv
<1>6. /\ pc'[p] \in { "bump", "reread" } => row'[req'[p].task].rev >= wrote'[p]
      /\ pc'[p] = "reread" /\ cached'[req'[p].task] # Nil
           => cached'[req'[p].task].rev >= wrote'[p]
      /\ pc'[p] = "refill" => snap'[p].rev >= wrote'[p]
      /\ pc'[p] = "answer" /\ code'[p] = "200" /\ wrote'[p] > 0
           /\ req'[p].kind \in RefetchKinds => snap'[p].rev >= wrote'[p]
      /\ pc'[p] \notin { "bump", "reread", "refill", "answer" } => wrote'[p] = 0
  <2>1. CASE Commit(p)
    <3>1. /\ pc[p] = "commit" /\ pc'[p] = "bump" /\ req' = req
          /\ wrote'[p] = IF WritesRow(req[p], snap[p]) THEN row[req[p].task].rev + 1 ELSE 0
          /\ row' = IF WritesRow(req[p], snap[p])
                      THEN [row EXCEPT ![req[p].task] = RowAfter(req[p], snap[p], row[req[p].task])]
                      ELSE row
      BY <2>1 DEF Commit, Persist, TypeInv, TypeOK
    <3>2. RowAfter(req[p], snap[p], row[req[p].task]).rev = row[req[p].task].rev + 1
      BY DEF RowAfter
    <3>3. row'[req[p].task].rev >= wrote'[p]
      BY <1>2, <1>3, <3>1, <3>2 DEF TypeInv, TypeOK
    <3>. QED
      BY <3>1, <3>3
  <2>2. CASE Bump(p)
    BY <1>2, <2>2 DEF Bump, FreshInv, TypeInv, TypeOK
  <2>3. CASE ReadMiss(p)
    BY <1>2, <1>3, <2>3 DEF ReadMiss, FreshInv, TypeInv, TypeOK
  <2>4. CASE RereadHit(p)
    BY <1>2, <2>4 DEF RereadHit, FreshInv, TypeInv, TypeOK
  <2>5. CASE Fill(p)
    BY <2>5 DEF Fill, FreshInv, TypeInv, TypeOK
  <2>6. CASE \/ Receive(p) \/ ReadHit(p) \/ Refuse(p) \/ Decline(p)
             \/ Proceed(p) \/ ReadParent(p) \/ UpdateRow(p) \/ InsertAudit(p) \/ Rescore(p)
             \/ MarkPrior(p) \/ InsertReview(p)
    <3>1. CASE Receive(p) \/ ReadHit(p) \/ Refuse(p) \/ Decline(p)
      BY <3>1 DEF Receive, ReadHit, Refuse, Decline, FreshInv, TypeInv, TypeOK
    <3>2. CASE Proceed(p)
      BY <3>2, ReviewsMark DEF Proceed, FreshInv, TypeInv, TypeOK
    <3>3. CASE ReadParent(p)
      BY <3>3, ReviewsMark DEF ReadParent, FreshInv, TypeInv, TypeOK
    <3>4. CASE UpdateRow(p) \/ InsertAudit(p) \/ Rescore(p)
      BY <3>4 DEF UpdateRow, InsertAudit, Rescore, FreshInv, TypeInv, TypeOK
    <3>5. CASE MarkPrior(p) \/ InsertReview(p)
      BY <3>5 DEF MarkPrior, InsertReview, FreshInv, TypeInv, TypeOK
    <3>. QED
      BY <2>6, <3>1, <3>2, <3>3, <3>4, <3>5
  <2>7. CASE \/ CommitUnacked(p) \/ Fail(p) \/ RejectVerdict(p) \/ DeadlockVictim(p)
             \/ \E w \in Reviewers : GatePass(p, w) \/ GateFail(p, w)
    <3>1. pc'[p] \notin { "bump", "reread", "refill" } /\ wrote'[p] = wrote[p]
          /\ pc[p] \notin { "bump", "reread", "refill", "answer" }
      BY <2>7 DEF CommitUnacked, Fail, RejectVerdict, DeadlockVictim, Rollback, GatePass,
         GateFail, TypeInv, TypeOK
    <3>. QED
      BY <3>1 DEF FreshInv
  <2>8. CASE Answer(p)
    BY <2>8 DEF Answer, TypeInv, TypeOK
  <2>9. CASE RefetchFails(p)
    BY <2>9 DEF RefetchFails, TypeInv, TypeOK
  <2>. QED
    BY <2>1, <2>2, <2>3, <2>4, <2>5, <2>6, <2>7, <2>8, <2>9 DEF Acts, Step
<1>. QED
  BY <1>5, <1>6 DEF FreshInv

\* AdvanceTask's "fresh read": a reply older than the write it answers takes a
\* fill from before that write, which is still under way after the Bump.
THEOREM StaleReplyNeedsLateFill == Spec /\ []NoLateFill => []ReplyIsFresh
<1>1. Init => FreshInv
  BY DEF Init, FreshInv
<1>2. ASSUME TypeInv, TypeInv', FreshInv, NoLateFill, [Next]_vars PROVE FreshInv'
  <2>1. CASE /\ UNCHANGED << db, pc, locals, served >>
             /\ \A t \in Tasks : cached'[t] \in { cached[t], Nil }
    <3>1. \A q \in Procs : pc[q] = "reread" => req[q].task \in Tasks
      BY <1>2 DEF TypeInv, WellFormed, Request
    <3>. QED
      BY <1>2, <2>1, <3>1 DEF db, locals, FreshInv
  <2>. QED
    BY <1>2, <2>1, OneActs, FreshStep
<1>3. FreshInv => ReplyIsFresh
  BY DEF FreshInv, ReplyIsFresh
<1>. QED
  BY TypeInit, TypeStep, <1>1, <1>2, <1>3, PTL DEF Spec

-----------------------------------------------------------------------------
\* Where an advance has asked reviewers, and where it has asked all of them.
Relying == { "gate", "update", "audit", "rescore", "commit" }
PastGates == Relying \ { "gate" }

\* Nobody commits anything but a PASS of a reviewer whom an advance of the same
\* task has asked, and on whose PASS it is about to act.
NoLateVerdict ==
  \A p, q \in Procs :
    /\ pc[p] \in Relying /\ Submits(q) /\ req[q].task = req[p].task
    /\ req[q].reviewer \in Gates(req[p], snap[p]) \ todo[p]
    => StoredVerdict(req[q].verdict) = "PASS"

\* Whoever an advance has asked still stands by the PASS, and past the gates
\* all have been asked.
LookedUp ==
  \A p \in Procs :
    /\ pc[p] \in Relying =>
         \A w \in Gates(req[p], snap[p]) \ todo[p] : HasLatestVerdict(req[p].task, w, "PASS")
    /\ pc[p] \in PastGates => Gates(req[p], snap[p]) \cap todo[p] = {}

\* A committed verdict takes a PASS away from its own reviewer only.
LEMMA PassStays ==
  ASSUME TypeInv, VerdictInv, NEW q \in Procs, Persists(q), NEW t, NEW w,
         HasLatestVerdict(t, w, "PASS"),
         Submits(q) /\ req[q].task = t /\ req[q].reviewer = w
           => StoredVerdict(req[q].verdict) = "PASS"
  PROVE  HasLatestVerdict(t, w, "PASS")'
<1>. DEFINE v0 == [ id |-> fresh[q], task |-> req[q].task, reviewer |-> req[q].reviewer,
                    verdict |-> StoredVerdict(req[q].verdict) ]
<1>1. CASE req[q].kind \notin ReviewKinds
  BY <1>1 DEF Persists, Persist, HasLatestVerdict
<1>2. CASE req[q].kind \in ReviewKinds
  <2>1. /\ verdicts' = verdicts \cup {v0} /\ latest' = (latest \ marked[q]) \cup {fresh[q]}
        /\ Submits(q)
    BY <1>2 DEF Persists, Persist, LatestAfter, Submits
  <2>2. CASE req[q].task = t /\ req[q].reviewer = w
    <3>1. /\ v0 \in verdicts' /\ v0.task = t /\ v0.reviewer = w /\ v0.verdict = "PASS"
          /\ v0.id \in latest'
      BY <2>1, <2>2
    <3>. HIDE DEF v0
    <3>. QED
      BY <3>1 DEF HasLatestVerdict
  <2>3. CASE ~(req[q].task = t /\ req[q].reviewer = w)
    <3>1. PICK v \in verdicts : v.task = t /\ v.reviewer = w /\ v.verdict = "PASS" /\ v.id \in latest
      BY DEF HasLatestVerdict
    <3>2. v.id \notin marked[q]
      BY <2>1, <2>3, <3>1 DEF VerdictInv, MarkedPrior, RowsApart
    <3>3. v \in verdicts' /\ v.id \in latest'
      BY <2>1, <3>1, <3>2
    <3>. QED
      BY <3>1, <3>3 DEF HasLatestVerdict
  <2>. QED
    BY <2>2, <2>3
<1>. QED
  BY <1>1, <1>2

LEMMA LookedUpStep ==
  ASSUME TypeInv, VerdictInv, LookedUp, NoLateVerdict, NEW p \in Procs, Acts(p), Apart(p)
  PROVE  LookedUp'
<1>. USE DEF Goto, Reply, db, locals, Relying, PastGates
<1>1. \A q \in Procs \ {p} :
        todo'[q] = todo[q] /\ pc'[q] = pc[q] /\ req'[q] = req[q] /\ snap'[q] = snap[q]
  <2>1. \A q \in Procs \ {p} : todo'[q] = todo[q]
    BY DEF Acts, Step, Receive, ReadHit, RereadHit, ReadMiss, Fill, Refuse, Decline,
       Proceed, GatePass, GateFail, ReadParent, UpdateRow, InsertAudit, Rescore, MarkPrior,
       InsertReview, Commit, CommitUnacked, Bump, Answer, RefetchFails, Fail, RejectVerdict,
       DeadlockVictim, Rollback, TypeInv, TypeOK
  <2>. QED
    BY <2>1 DEF Apart
<1>2. ASSUME NEW q \in Procs, q # p, pc[q] \in Relying,
             NEW w \in Gates(req[q], snap[q]) \ todo[q]
      PROVE  \E v \in verdicts' : /\ v.task = req[q].task /\ v.reviewer = w
                                  /\ v.verdict = "PASS" /\ v.id \in latest'
  <2>1. PICK t : t = req[q].task
    OBVIOUS
  <2>2. HasLatestVerdict(t, w, "PASS")
    BY <1>2, <2>1 DEF LookedUp
  <2>3. CASE Quiet
    BY <2>1, <2>2, <2>3 DEF Quiet, HasLatestVerdict
  <2>4. CASE Persists(p)
    <3>1. Submits(p) /\ req[p].task = t /\ req[p].reviewer = w
            => StoredVerdict(req[p].verdict) = "PASS"
      BY <1>2, <2>1 DEF NoLateVerdict
    <3>2. HasLatestVerdict(t, w, "PASS")'
      BY <2>2, <2>4, <3>1, PassStays
    <3>. QED
      BY <2>1, <3>2 DEF HasLatestVerdict
  <2>. QED
    BY <2>3, <2>4, QuietOrPersists
<1>3. CASE Proceed(p)
  <2>1. /\ UNCHANGED << verdicts, latest, req, snap >>
        /\ todo'[p] = Gates(req[p], snap[p])
        /\ pc'[p] # "gate" => Gates(req[p], snap[p]) = {}
    BY <1>3 DEF Proceed, TypeInv, TypeOK
  <2>. QED
    BY <1>1, <1>2, <2>1 DEF LookedUp, HasLatestVerdict
<1>4. CASE ReadParent(p)
  <2>1. Gates(req'[p], snap'[p]) = {}
    BY <1>4 DEF ReadParent, Gates, TypeInv, WellFormed
  <2>. QED
    BY <1>1, <1>2, <2>1 DEF LookedUp, HasLatestVerdict
<1>5. ASSUME NEW w \in Reviewers, GatePass(p, w) PROVE LookedUp'
  <2>1. /\ UNCHANGED << verdicts, latest, req, snap >>
        /\ pc[p] = "gate" /\ HasLatestVerdict(req[p].task, w, "PASS")
        /\ todo'[p] = todo[p] \ {w}
        /\ pc'[p] = "gate" \/ (pc'[p] = "update" /\ todo[p] = {w})
    BY <1>5 DEF GatePass, TypeInv, TypeOK
  <2>. QED
    BY <1>1, <1>2, <2>1 DEF LookedUp, HasLatestVerdict
<1>6. CASE InsertReview(p)
  <2>1. Gates(req'[p], snap'[p]) = {}
    BY <1>6 DEF InsertReview, Gates, TypeInv, WellFormed, ReviewKinds
  <2>. QED
    BY <1>1, <1>2, <2>1 DEF LookedUp, HasLatestVerdict
<1>7. CASE UpdateRow(p) \/ InsertAudit(p) \/ Rescore(p)
  <2>1. /\ UNCHANGED << verdicts, latest, req, snap, todo >>
        /\ pc[p] \in PastGates
    BY <1>7 DEF UpdateRow, InsertAudit, Rescore
  <2>. QED
    BY <1>1, <1>2, <2>1 DEF LookedUp, HasLatestVerdict
<1>8. ASSUME \/ Receive(p) \/ ReadHit(p) \/ RereadHit(p) \/ ReadMiss(p) \/ Fill(p)
             \/ Refuse(p) \/ Decline(p) \/ MarkPrior(p) \/ Bump(p) \/ RefetchFails(p) \/ Answer(p)
             \/ Fail(p) \/ RejectVerdict(p) \/ DeadlockVictim(p)
             \/ Commit(p) \/ CommitUnacked(p) \/ \E w \in Reviewers : GateFail(p, w)
      PROVE  LookedUp'
  <2>1. pc'[p] \notin Relying
    BY <1>8 DEF Receive, ReadHit, RereadHit, ReadMiss, Fill, Refuse, Decline, MarkPrior, Bump,
       RefetchFails, Answer, Fail, RejectVerdict, DeadlockVictim, Rollback, Commit,
       CommitUnacked, GateFail, TypeInv, TypeOK
  <2>. QED
    BY <1>1, <1>2, <2>1 DEF LookedUp, HasLatestVerdict
<1>. QED
  BY <1>3, <1>4, <1>5, <1>6, <1>7, <1>8 DEF Acts, Step

\* The step that makes a task DONE finds the verdict that it was let through by.
LEMMA LatestPassAction ==
  TypeInv /\ Consenting /\ VerdictInv /\ LookedUp /\ [Next]_vars =>
    [ \A t \in Tasks :
        row[t].status # "DONE" /\ row'[t].status = "DONE" =>
          HasLatestVerdict(t, "task-closure-reviewer", "PASS") ]_vars
<1>. SUFFICES ASSUME TypeInv, Consenting, VerdictInv, LookedUp, [Next]_vars, NEW t \in Tasks,
                     row[t].status # "DONE", row'[t].status = "DONE"
              PROVE  HasLatestVerdict(t, "task-closure-reviewer", "PASS")
  OBVIOUS
<1>1. PICK p \in Procs : Persists(p)
  BY OneActs, QuietOrPersists DEF Quiet, db
<1>2. /\ pc[p] = "commit" /\ req[p].task = t
      /\ WritesRow(req[p], snap[p]) /\ StatusWritten(req[p], snap[p]) = "DONE"
  BY <1>1 DEF Persists, Persist, RowAfter, TypeInv, TypeOK
<1>3. "task-closure-reviewer" \in Gates(req[p], snap[p])
  <2>1. req[p].kind = "advance"
    BY <1>2 DEF Consenting
  <2>2. ComputeAdvanceTarget(snap[p].status, WorkflowOf[t]) = "DONE"
    BY <1>2, <2>1 DEF StatusWritten, ParentKinds
  <2>3. snap[p].status = "AWAITING_APPROVAL"
    BY <2>2, AdvanceTarget
  <2>. QED
    BY <1>2, <2>1, <2>3 DEF Gates, GateReviewers
<1>. QED
  BY <1>2, <1>3 DEF LookedUp, Relying, PastGates

\* The closure gate: a DONE that no longer has the PASS of the closure reviewer
\* takes a verdict that was committed between the lookup and the commit.
THEOREM LostPassNeedsLateVerdict == Spec /\ []NoLateVerdict => DoneOnLatestPass
<1>1. Init => LookedUp
  BY DEF Init, LookedUp, Relying, PastGates
<1>2. Init => Consenting
  BY DEF Init, Consenting
<1>3. ASSUME TypeInv, VerdictInv, LookedUp, NoLateVerdict, [Next]_vars PROVE LookedUp'
  <2>1. CASE UNCHANGED << db, pc, locals, served >>
    BY <1>3, <2>1 DEF db, locals, LookedUp, Relying, PastGates, HasLatestVerdict
  <2>. QED
    BY <1>3, <2>1, OneActs, LookedUpStep
<1>. QED
  BY TypeInit, TypeStep, VerdictInit, VerdictNext, <1>1, <1>2, <1>3, ConsentStep, LatestPassAction, PTL
  DEF Spec, DoneOnLatestPass

-----------------------------------------------------------------------------
\* No two submits for one task and reviewer are both between their un-marking
\* and their commit.
SubmitsApart ==
  \A p, q \in Procs :
    /\ p # q /\ req[p].task = req[q].task /\ req[p].reviewer = req[q].reviewer
    => ~((pc[p] = "insert" \/ Submits(p)) /\ (pc[q] = "insert" \/ Submits(q)))

\* What a submit is to un-mark is all that is there of its task and reviewer.
MarkedAll ==
  \A p \in Procs : pc[p] = "insert" \/ Submits(p) =>
    \A v \in verdicts :
      v.task = req[p].task /\ v.reviewer = req[p].reviewer => v.id \in marked[p]

LEMMA MarkedPersist ==
  ASSUME TypeInv, VerdictInv, OneLatestVerdict, MarkedAll, SubmitsApart,
         NEW p \in Procs, Apart(p), Persists(p), req[p].kind \in ReviewKinds
  PROVE  OneLatestVerdict' /\ MarkedAll'
<1>. DEFINE v0 == [ id |-> fresh[p], task |-> req[p].task, reviewer |-> req[p].reviewer,
                    verdict |-> StoredVerdict(req[p].verdict) ]
<1>1. /\ verdicts' = verdicts \cup {v0} /\ latest' = (latest \ marked[p]) \cup {fresh[p]}
      /\ pc[p] = "commit" /\ pc'[p] \in { "bump", "answer" } /\ Submits(p)
      /\ UNCHANGED << req, marked >>
  BY DEF Persists, Persist, LatestAfter, Submits
<1>2. \A v \in verdicts : v.id # fresh[p]
  BY <1>1 DEF VerdictInv, FreshApart
<1>3. v0.id = fresh[p] /\ v0.task = req[p].task /\ v0.reviewer = req[p].reviewer
  OBVIOUS
<1>. HIDE DEF v0
<1>4. \A v \in verdicts : v.id \in latest' => v.id \in latest /\ v.id \notin marked[p]
  BY <1>1, <1>2
<1>5. OneLatestVerdict'
  BY <1>1, <1>3, <1>4 DEF OneLatestVerdict, MarkedAll
<1>6. ASSUME NEW q \in Procs, (pc[q] = "insert" \/ Submits(q))', NEW v \in verdicts',
             v.task = req'[q].task, v.reviewer = req'[q].reviewer
      PROVE  v.id \in marked'[q]
  <2>1. q # p /\ (pc[q] = "insert" \/ Submits(q))
    BY <1>1, <1>6 DEF Submits, Apart
  <2>2. ~(req[p].task = req[q].task /\ req[p].reviewer = req[q].reviewer)
    BY <1>1, <2>1 DEF SubmitsApart
  <2>3. v \in verdicts
    BY <1>1, <1>3, <1>6, <2>2
  <2>. QED
    BY <1>1, <1>6, <2>1, <2>3 DEF MarkedAll
<1>. QED
  BY <1>5, <1>6 DEF MarkedAll

LEMMA MarkedStep ==
  ASSUME TypeInv, VerdictInv, OneLatestVerdict, MarkedAll, SubmitsApart,
         NEW p \in Procs, Acts(p), Apart(p)
  PROVE  OneLatestVerdict' /\ MarkedAll'
<1>. USE DEF Goto, Reply, db, locals
<1>1. CASE Persists(p) /\ req[p].kind \in ReviewKinds
  BY <1>1, MarkedPersist
<1>2. CASE ~(Persists(p) /\ req[p].kind \in ReviewKinds)
  <2>1. UNCHANGED << verdicts, latest >>
    BY <1>2, QuietOrPersists DEF Quiet, Persists, Persist
  <2>2. OneLatestVerdict'
    BY <2>1 DEF OneLatestVerdict
  <2>3. (pc[p] = "insert" \/ Submits(p))' =>
          \A v \in verdicts : v.task = req'[p].task /\ v.reviewer = req'[p].reviewer
                                => v.id \in marked'[p]
    <3>1. CASE MarkPrior(p)
      BY <3>1 DEF MarkPrior, TypeInv, TypeOK
    <3>2. CASE InsertReview(p)
      BY <3>2 DEF InsertReview, MarkedAll
    <3>3. CASE Proceed(p) \/ ReadParent(p)
      <4>1. TxStart(req[p], snap[p]) # "mark" \/ req[p].kind \in ReviewKinds
        BY ReviewsMark
      <4>. QED
        BY <3>3, <4>1 DEF Proceed, ReadParent, TxStart, Submits, TypeInv, TypeOK, WellFormed,
           ReviewKinds
    <3>4. CASE UpdateRow(p) \/ InsertAudit(p) \/ Rescore(p)
      <4>1. req[p].kind \notin ReviewKinds
        BY <3>4 DEF UpdateRow, InsertAudit, Rescore, TypeInv, WellFormed
      <4>. QED
        BY <3>4, <4>1 DEF UpdateRow, InsertAudit, Rescore, Submits, TypeInv, TypeOK
    <3>5. ASSUME \/ Receive(p) \/ ReadHit(p) \/ RereadHit(p) \/ ReadMiss(p) \/ Fill(p)
                 \/ Refuse(p) \/ Decline(p) \/ Bump(p) \/ RefetchFails(p) \/ Answer(p)
                 \/ Fail(p) \/ RejectVerdict(p) \/ DeadlockVictim(p)
                 \/ Commit(p) \/ CommitUnacked(p)
                 \/ \E w \in Reviewers : GatePass(p, w) \/ GateFail(p, w)
          PROVE  pc'[p] \notin { "insert", "commit" }
      BY <3>5 DEF Receive, ReadHit, RereadHit, ReadMiss, Fill, Refuse, Decline, Bump,
         RefetchFails, Answer, Fail, RejectVerdict, DeadlockVictim, Rollback, Commit,
         CommitUnacked, GatePass, GateFail, TypeInv, TypeOK
    <3>. QED
      BY <3>1, <3>2, <3>3, <3>4, <3>5 DEF Acts, Step, Submits
  <2>4. MarkedAll'
    BY <2>1, <2>3 DEF MarkedAll, Submits, Apart
  <2>. QED
    BY <2>2, <2>4
<1>. QED
  BY <1>1, <1>2

\* SubmitReview's "marks all prior rows": on a database with one latest verdict
\* per reviewer, a second one takes two submits that overlap.
THEOREM SecondLatestNeedsOverlap ==
  Spec /\ OneLatestVerdict /\ []SubmitsApart => []OneLatestVerdict
<1>1. Init => MarkedAll
  BY DEF Init, MarkedAll, Submits
<1>2. ASSUME TypeInv, VerdictInv, OneLatestVerdict, MarkedAll, SubmitsApart, [Next]_vars
      PROVE  OneLatestVerdict' /\ MarkedAll'
  <2>1. CASE UNCHANGED << db, pc, locals, served >>
    BY <1>2, <2>1 DEF db, locals, OneLatestVerdict, MarkedAll, Submits
  <2>. QED
    BY <1>2, <2>1, OneActs, MarkedStep
<1>. QED
  BY TypeInit, TypeStep, VerdictInit, VerdictNext, <1>1, <1>2, PTL DEF Spec
=============================================================================
