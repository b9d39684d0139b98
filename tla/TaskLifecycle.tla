--------------------------- MODULE TaskLifecycle ---------------------------
(***************************************************************************)
(* The write handlers of internal/store/store.go that move a task through  *)
(* its life, run by several request goroutines over one Postgres.  Every   *)
(* handler has the same shape and every arrow is a place where another     *)
(* goroutine may run:                                                      *)
(*                                                                         *)
(*   GetTask, from the read cache or from the table (read, fill)           *)
(*     -> the decision, taken on that snapshot (check)                     *)
(*     -> advance only: one verdict lookup per reviewer (gate)             *)
(*     -> a READ COMMITTED transaction: UPDATE tasks ... WHERE id, which   *)
(*        takes the row lock (update); INSERT audit_trail (audit); after   *)
(*        DONE, a FOR UPDATE over the active tasks (rescore); COMMIT       *)
(*     -> cache.Bump() (bump) -> GetTask again for the reply (reread,      *)
(*        refill) -> the reply (answer).                                   *)
(*                                                                         *)
(* The UPDATE has no predicate on the status that was checked, so the      *)
(* transaction applies a decision taken on a row that may be gone.         *)
(*                                                                         *)
(* The read cache is what ReadCache.tla shows of it: an entry may appear   *)
(* from any fetch, whenever that fetch happened, and may vanish at any     *)
(* time.  Of audit_trail only the rows with field_changed = 'status' are   *)
(* kept; of a child task created here only what it does to its parent; of  *)
(* a merge only what it does to the absorbed task (the absorber's row and  *)
(* the dependents', which TaskGraph.tla has, only delay it further).       *)
(***************************************************************************)
EXTENDS Workflow, Integers, FiniteSets

CONSTANTS
  Tasks,          \* task ids
  Agents,         \* values of tasks.owner and audit_trail.agent
  Procs,          \* request goroutines
  Nil,            \* no row, no lock holder
  WorkflowOf,     \* [Tasks -> Workflows], the column tasks.workflow
  CustomReviews,  \* [Tasks -> SUBSET Reviewers], custom_fields.required_reviews
  DoneWhen,       \* [Tasks -> BOOLEAN], is tasks.done_when non-empty
  StartRow,       \* [Tasks -> Row], the rows when the server comes up
  StartVerdicts,  \* the review_results rows at that time, ids 1 .. their number
  Kinds,          \* the commands this instance receives
  SentVerdicts,   \* the verdicts its review-submit calls carry
  SentReviewers,  \* the reviewers they carry
  SentModes,      \* the modes its update calls carry
  MaxRequests     \* bound: how many requests are received in all

-----------------------------------------------------------------------------
(* Rows and requests. *)

\* The columns of a tasks row that a handler here writes.  rev counts the
\* committed writes of the row: it stands for updated_at.
Row == [ status : Statuses, owner : Agents, mode : Modes, closed : BOOLEAN,
         verified : BOOLEAN, rev : Nat ]

Verdict == [ id : Nat \ {0}, task : Tasks, reviewer : Reviewers,
             verdict : StoredVerdicts ]

AuditEntry == [ id : Nat \ {0}, req : Nat \ {0}, task : Tasks,
                old : Statuses, new : Statuses ]

StatusKinds ==      \* a success of one of these always writes a status
  { "advance", "take", "cancel", "supersede", "release", "revision",
    "verify-failed" }
RefetchKinds == StatusKinds \cup { "verify", "postmortem", "update" }
ReviewKinds == { "review", "aggregate" }
ParentKinds == { "create-child", "subtasks" }
AllKinds == RefetchKinds \cup ReviewKinds \cup ParentKinds \cup { "get", "merge" }

\* approve is advance's flag, byExists says whether supersede's replacement
\* is there, agent and mode are what `update owner:` and `update mode:` set.
Request == [ no : Nat \ {0}, kind : AllKinds, task : Tasks, agent : Agents,
             mode : Modes, approve : BOOLEAN, byExists : BOOLEAN,
             reviewer : Reviewers, verdict : SubmittedVerdicts ]

\* Whose PASS task t needs while its mode is m.
Required(t, m) == getRequiredReviews(CustomReviews[t], WorkflowOf[t], m)

\* Some row of V is a PASS of reviewer r for task t, the latest one or not.
PassedIn(V, t, r) ==
  \E v \in V : v.task = t /\ v.reviewer = r /\ v.verdict = "PASS"

\* The reviewers whose gates lie on the way of task t to status s in mode m.
OnTheWay(t, m, s) ==
  CASE s = "IN_REVIEW"         -> { "code-reviewer" }
    [] s = "REVIEW"            -> { "content-reviewer" }
    [] s = "AWAITING_APPROVAL" -> Required(t, m)
    [] s = "DONE"              -> Required(t, m) \cup { "task-closure-reviewer" }
    [] OTHER                   -> {}

\* Those whom the server found missing when it came up: an operator of the
\* Python CLI can write any status.
Missing(t) ==
  { r \in OnTheWay(t, StartRow[t].mode, StartRow[t].status) :
      ~PassedIn(StartVerdicts, t, r) }

\* Task t in status s has been passed by all others, for one of the modes M.
EarnedIn(V, M, t, s) ==
  \E m \in M : \A r \in OnTheWay(t, m, s) \ Missing(t) : PassedIn(V, t, r)

ASSUME ConfigAssumption ==
  /\ WorkflowOf \in [Tasks -> Workflows]
  /\ CustomReviews \in [Tasks -> SUBSET Reviewers]
  /\ DoneWhen \in [Tasks -> BOOLEAN]
  /\ Kinds \subseteq AllKinds
  /\ SentVerdicts \subseteq SubmittedVerdicts
  /\ SentReviewers \subseteq Reviewers
  /\ SentModes \subseteq Modes
  /\ MaxRequests \in Nat
  /\ Nil \notin Procs \cup Row

\* The database the server starts on: any rows, review ids 1 .. their number.
ASSUME StartAssumption ==
  /\ StartRow \in [Tasks -> Row]
  /\ StartVerdicts \subseteq Verdict
  /\ IsFiniteSet(StartVerdicts)
  /\ \A v \in StartVerdicts : v.id <= Cardinality(StartVerdicts)
  /\ \A v, w \in StartVerdicts : v.id = w.id => v = w

VARIABLES
  row,         \* tasks, committed: [Tasks -> Row]
  modes,       \* history variable: the modes each task has had since Init
  lock,        \* tasks, who holds the row lock: [Tasks -> Procs \cup {Nil}]
  audit,       \* audit_trail, committed status rows
  nextAudit,   \* its id sequence; a rollback leaves a gap
  verdicts,    \* review_results, committed rows
  latest,      \* the ids of those with is_latest = TRUE
  nextReview,  \* its id sequence
  cached,      \* the entry a GetTask would hit: [Tasks -> Row \cup {Nil}]
  pc, req,     \* per goroutine: where it is and what it serves
  snap,        \* the row its last GetTask returned
  todo,        \* advance: reviewers whose verdict is still to be looked up
  draft,       \* the audit rows its open transaction has inserted
  marked,      \* the review rows its open transaction has un-marked
  fresh,       \* the id of the review row it has inserted, 0 for none
  wrote,       \* the rev its commit produced, 0 for none
  code,        \* the reply: "200", "200mem" (refetch failed), "422", "500"
  served       \* how many requests have been received

db == << row, modes, lock, audit, nextAudit, verdicts, latest, nextReview >>
locals == << req, snap, todo, draft, marked, fresh, wrote, code >>
vars == << db, cached, pc, locals, served >>

-----------------------------------------------------------------------------
(* What a handler decides and writes: r its request, s the row it read. *)

\* The status the handler's UPDATE writes, NoTarget if it writes none.
StatusWritten(r, s) ==
  CASE r.kind = "advance"       -> ComputeAdvanceTarget(s.status, WorkflowOf[r.task])
    [] r.kind = "take"          -> "IN_PROGRESS"
    [] r.kind = "cancel"        -> "CANCELLED"
    [] r.kind \in { "supersede", "merge" } -> "SUPERSEDED"
    [] r.kind = "release"       -> "READY"
    [] r.kind = "revision"      -> "REVISION"
    [] r.kind = "verify-failed" -> "INVESTIGATING"
    [] r.kind \in ParentKinds /\ s.status = "DONE" -> "REOPENED"
    [] OTHER                    -> NoTarget

\* A merge appends the absorbed task's done_when to the absorber's.
MayBeFilled(t) == DoneWhen[t] \/ "merge" \in Kinds

\* Mutant: the approve flag is not looked at.
AdvanceAcceptsUnapproved(r, s) ==
  LET to == StatusWritten(r, s) IN
  /\ to # NoTarget
  /\ NeedsDoneWhen(s.status, to) => MayBeFilled(r.task)

\* The checks that need no query: status maps, done_when, --approve.
AdvanceAccepts(r, s) ==
  LET to == StatusWritten(r, s) IN
  /\ to # NoTarget
  /\ NeedsDoneWhen(s.status, to) => MayBeFilled(r.task)
  /\ to = "DONE" => r.approve

Accepts(r, s) ==
  CASE r.kind = "advance"   -> AdvanceAccepts(r, s)
    [] r.kind = "take"      -> s.status \in takeableStatuses
    [] r.kind = "cancel"    -> s.status \notin cancelTerminalStatuses
    [] r.kind = "supersede" -> s.status \notin supersedeTerminalStatuses /\ r.byExists
    [] r.kind = "release"   -> s.status \in releaseableStatuses
    [] r.kind = "revision"  -> s.status = "AWAITING_APPROVAL"
    [] r.kind = "merge"     -> s.status \notin mergeTerminalStatuses
    [] r.kind = "get"       -> FALSE
    [] OTHER                -> TRUE

\* Success without a transaction: a plain GET, an update that changes nothing,
\* an aggregate review that is not trivial, a plan without phases, a dry run.
MayDecline(r, s) ==
  \/ r.kind = "update" /\ s.owner = r.agent /\ s.mode = r.mode
  \/ r.kind \in { "get", "aggregate", "subtasks" }
  \/ r.kind = "merge" /\ Accepts(r, s)

\* Refused whatever this row is: a plan file that is not there, a field that
\* update does not take, an absorber that is closed or the absorbed task itself.
MayRefuse(r, s) ==
  \/ r.kind \in { "subtasks", "update", "merge" }
  \/ ~Accepts(r, s) /\ ~MayDecline(r, s)
  \/ /\ r.kind = "advance" /\ ~DoneWhen[r.task]
     /\ NeedsDoneWhen(s.status, StatusWritten(r, s))

WritesRow(r, s) == r.kind \in RefetchKinds \/ StatusWritten(r, s) # NoTarget

\* Mutant: a reopening leaves closed_at as it is.
ClosedAfterNotCleared(r, s, was) ==
  was \/ r.kind \in { "cancel", "supersede" } \/ StatusWritten(r, s) = "DONE"

\* closed_at: set with DONE and by cancel and supersede, not by a merge;
\* cleared by a reopening; left as it is by every other command.
ClosedAfter(r, s, was) ==
  LET to == StatusWritten(r, s) IN
  /\ was \/ r.kind \in { "cancel", "supersede" } \/ to = "DONE"
  /\ to # "REOPENED"

\* The UPDATE sets these columns of the row as it is when the lock is granted;
\* update those in which its request and the row it read differ.
RowAfter(r, s, old) ==
  LET to == StatusWritten(r, s) IN
  [ status   |-> IF to = NoTarget THEN old.status ELSE to,
    owner    |-> IF r.kind = "take" \/ (r.kind = "update" /\ r.agent # s.owner)
                   THEN r.agent ELSE old.owner,
    mode     |-> IF r.kind = "update" /\ r.mode # s.mode THEN r.mode ELSE old.mode,
    closed   |-> ClosedAfter(r, s, old.closed),
    verified |-> r.kind = "verify" \/ (old.verified /\ r.kind # "verify-failed"),
    rev      |-> old.rev + 1 ]

\* The gates of an advance: whose latest PASS the move waits for.
Gates(r, s) ==
  IF r.kind = "advance"
    THEN GateReviewers(s.status, StatusWritten(r, s), Required(r.task, s.mode))
    ELSE {}

\* Mutant: the audit row is inserted before the UPDATE takes the row lock.
TxStartAuditFirst(r, s) ==
  CASE r.kind \in ReviewKinds            -> "mark"
    [] StatusWritten(r, s) # NoTarget     -> "audit"
    [] WritesRow(r, s)                    -> "update"
    [] OTHER                              -> "commit"

\* Where an accepted request goes after its checks and gates.
TxStart(r, s) ==
  CASE r.kind \in ReviewKinds -> "mark"
    [] WritesRow(r, s)        -> "update"
    [] OTHER                  -> "commit"

\* SELECT EXISTS(... is_latest = true): PASS is the only verdict asked for.
HasLatestVerdict(t, reviewer, verdict) ==
  \E v \in verdicts : /\ v.task = t /\ v.reviewer = reviewer
                      /\ v.verdict = verdict /\ v.id \in latest

-----------------------------------------------------------------------------
(* Steps of one goroutine. *)

Init ==
  /\ row = StartRow
  /\ modes = [t \in Tasks |-> {StartRow[t].mode}]
  /\ lock = [t \in Tasks |-> Nil]
  /\ audit = {} /\ nextAudit = 1
  /\ verdicts = StartVerdicts
  /\ latest = { v.id : v \in StartVerdicts }
  /\ nextReview = Cardinality(StartVerdicts) + 1
  /\ cached = [t \in Tasks |-> Nil]
  /\ pc = [p \in Procs |-> "idle"]
  /\ req = [p \in Procs |-> Nil]
  /\ snap = [p \in Procs |-> Nil]
  /\ todo = [p \in Procs |-> {}]
  /\ draft = [p \in Procs |-> {}]
  /\ marked = [p \in Procs |-> {}]
  /\ fresh = [p \in Procs |-> 0]
  /\ wrote = [p \in Procs |-> 0]
  /\ code = [p \in Procs |-> Nil]
  /\ served = 0

Goto(p, l) == pc' = [pc EXCEPT ![p] = l]

\* The handler returns: its reply is on the wire.
Reply(p, c) == Goto(p, "answer") /\ code' = [code EXCEPT ![p] = c]

\* Mutant: the error of a failed statement is swallowed.
ErrorReplySwallowed == "200"

\* Any error but "not found" is a 500.
ErrorReply == "500"

SomeAgent == CHOOSE a \in Agents : TRUE

\* The requests of kind k; a field that a command does not have is fixed.
Asked(k) ==
  [ no : {served + 1}, kind : {k}, task : Tasks,
    agent    : IF k \in { "take", "update" } THEN Agents ELSE {SomeAgent},
    mode     : IF k = "update" THEN SentModes ELSE {"none"},
    approve  : IF k = "advance" THEN BOOLEAN ELSE {FALSE},
    byExists : IF k = "supersede" THEN BOOLEAN ELSE {TRUE},
    reviewer : IF k = "review" THEN SentReviewers ELSE {"task-closure-reviewer"},
    verdict  : IF k = "review" THEN SentVerdicts ELSE {"PASS"} ]

Requests == UNION { Asked(k) : k \in Kinds }

\* The router hands a well-formed request to a handler.  create does not read
\* its parent through GetTask, it looks at it inside its transaction.
Receive(p) ==
  /\ pc[p] = "idle" /\ served < MaxRequests
  /\ \E r \in Requests :
       /\ req' = [req EXCEPT ![p] = r]
       /\ Goto(p, IF r.kind = "create-child" THEN "parent" ELSE "read")
  /\ served' = served + 1
  /\ UNCHANGED << db, cached, snap, todo, draft, marked, fresh, wrote, code >>

\* GetTask hits the cache: the row is what some fetch found, some time ago.
ReadHit(p) ==
  LET t == req[p].task IN
  /\ pc[p] = "read" /\ cached[t] # Nil
  /\ snap' = [snap EXCEPT ![p] = cached[t]]
  /\ Goto(p, "check")
  /\ UNCHANGED << db, cached, req, todo, draft, marked, fresh, wrote, code, served >>

RereadHit(p) ==
  LET t == req[p].task IN
  /\ pc[p] = "reread" /\ cached[t] # Nil
  /\ snap' = [snap EXCEPT ![p] = cached[t]]
  /\ Reply(p, "200")
  /\ UNCHANGED << db, cached, req, todo, draft, marked, fresh, wrote, served >>

\* GetTask misses, or Redis fails, and fetches the committed row ...
ReadMiss(p) ==
  LET t == req[p].task IN
  /\ pc[p] \in { "read", "reread" }
  /\ snap' = [snap EXCEPT ![p] = row[t]]
  /\ Goto(p, IF pc[p] = "read" THEN "fill" ELSE "refill")
  /\ UNCHANGED << db, cached, req, todo, draft, marked, fresh, wrote, code, served >>

\* ... and then stores it, under whatever cache version is current by now.
\* An error of Set is ignored.
Fill(p) ==
  /\ pc[p] \in { "fill", "refill" }
  /\ \/ cached' = [cached EXCEPT ![req[p].task] = snap[p]]
     \/ UNCHANGED cached
  /\ IF pc[p] = "fill"
       THEN Goto(p, "check") /\ UNCHANGED code
       ELSE Reply(p, "200")
  /\ UNCHANGED << db, req, snap, todo, draft, marked, fresh, wrote, served >>

\* The status checks fail: 422 with the failures, nothing written.
Refuse(p) ==
  /\ pc[p] = "check" /\ MayRefuse(req[p], snap[p])
  /\ Reply(p, "422")
  /\ UNCHANGED << db, cached, req, snap, todo, draft, marked, fresh, wrote, served >>

Decline(p) ==
  /\ pc[p] = "check" /\ MayDecline(req[p], snap[p])
  /\ Reply(p, "200")
  /\ UNCHANGED << db, cached, req, snap, todo, draft, marked, fresh, wrote, served >>

Proceed(p) ==
  LET gates == Gates(req[p], snap[p]) IN
  /\ pc[p] = "check" /\ Accepts(req[p], snap[p])
  /\ todo' = [todo EXCEPT ![p] = gates]
  /\ Goto(p, IF gates # {} THEN "gate" ELSE TxStart(req[p], snap[p]))
  /\ UNCHANGED << db, cached, req, snap, draft, marked, fresh, wrote, code, served >>

\* One verdict lookup, a query of its own on the pool.  After a missing PASS
\* the code goes on looking only to list every failure.
GatePass(p, w) ==
  LET t == req[p].task IN
  /\ pc[p] = "gate" /\ w \in todo[p]
  /\ HasLatestVerdict(t, w, "PASS")
  /\ todo' = [todo EXCEPT ![p] = @ \ {w}]
  /\ Goto(p, IF todo[p] = {w} THEN "update" ELSE "gate")
  /\ UNCHANGED << db, cached, req, snap, draft, marked, fresh, wrote, code, served >>

GateFail(p, w) ==
  /\ pc[p] = "gate" /\ w \in todo[p]
  /\ ~HasLatestVerdict(req[p].task, w, "PASS")
  /\ todo' = [todo EXCEPT ![p] = {}]
  /\ Reply(p, "422")
  /\ UNCHANGED << db, cached, req, snap, draft, marked, fresh, wrote, served >>

\* create's transaction reads the parent's status without locking the row.
ReadParent(p) ==
  LET t == req[p].task IN
  /\ pc[p] = "parent"
  /\ snap' = [snap EXCEPT ![p] = row[t]]
  /\ Goto(p, TxStart(req[p], row[t]))
  /\ UNCHANGED << db, cached, req, todo, draft, marked, fresh, wrote, code, served >>

-----------------------------------------------------------------------------
(* The transaction. *)

\* UPDATE tasks ... WHERE id = $n waits for the row lock, and for nothing else.
UpdateRow(p) ==
  LET t == req[p].task IN
  /\ pc[p] = "update" /\ lock[t] = Nil
  /\ lock' = [lock EXCEPT ![t] = p]
  /\ Goto(p, IF StatusWritten(req[p], snap[p]) = NoTarget THEN "commit" ELSE "audit")
  /\ UNCHANGED << row, modes, audit, nextAudit, verdicts, latest, nextReview, cached,
                  locals, served >>

\* Mutant: old_value is read back after the UPDATE.
AuditOldReread(r, s) == StatusWritten(r, s)

\* old_value is the status that was decided on, not the one overwritten.
AuditOld(r, s) == s.status

\* INSERT INTO audit_trail takes the next id now, it becomes visible at COMMIT.
InsertAudit(p) ==
  LET to == StatusWritten(req[p], snap[p]) IN
  /\ pc[p] = "audit"
  /\ draft' = [draft EXCEPT ![p] =
       { [ id |-> nextAudit, req |-> req[p].no, task |-> req[p].task,
           old |-> AuditOld(req[p], snap[p]), new |-> to ] }]
  /\ nextAudit' = nextAudit + 1
  /\ Goto(p, IF to = "DONE" THEN "rescore" ELSE "commit")
  /\ UNCHANGED << row, modes, lock, audit, verdicts, latest, nextReview, cached, req,
                  snap, todo, marked, fresh, wrote, code, served >>

\* rescoreAfterDone locks every other active task; TaskGraph.tla has what
\* it writes there.
Rescored(p) ==
  { u \in Tasks \ {req[p].task} : row[u].status \in ScoredStatuses }

Rescore(p) ==
  /\ pc[p] = "rescore"
  /\ \A u \in Rescored(p) : lock[u] = Nil
  /\ lock' = [u \in Tasks |-> IF u \in Rescored(p) THEN p ELSE lock[u]]
  /\ Goto(p, "commit")
  /\ UNCHANGED << row, modes, audit, nextAudit, verdicts, latest, nextReview, cached,
                  locals, served >>

\* UPDATE review_results SET is_latest = FALSE: the statement sees the rows
\* committed before it began, not one that a concurrent submit is inserting.
\* Its locks on them delay another submit and show it nothing new.
MarkPrior(p) ==
  /\ pc[p] = "mark"
  /\ marked' = [marked EXCEPT ![p] =
       { v.id : v \in { w \in verdicts : w.task = req[p].task
                                          /\ w.reviewer = req[p].reviewer } }]
  /\ Goto(p, "insert")
  /\ UNCHANGED << db, cached, req, snap, todo, draft, fresh, wrote, code, served >>

\* INSERT INTO review_results takes the next id now; the row's verdict has to
\* satisfy the schema, which ACCEPT does not.
InsertReview(p) ==
  /\ pc[p] = "insert" /\ req[p].verdict # "ACCEPT"
  /\ fresh' = [fresh EXCEPT ![p] = nextReview]
  /\ nextReview' = nextReview + 1
  /\ Goto(p, "commit")
  /\ UNCHANGED << row, modes, lock, audit, nextAudit, verdicts, latest, cached, req, snap,
                  todo, draft, marked, wrote, code, served >>

\* Mutant: a transaction that ends keeps its row locks.
KeepLocks(p) == lock' = lock

ReleaseLocks(p) == lock' = [t \in Tasks |-> IF lock[t] = p THEN Nil ELSE lock[t]]

\* Mutant: the new row is inserted first and un-marked with the others.
LatestAfterLateMark(p) == latest \ marked[p]

\* is_latest after a submit: its own row, and what it did not un-mark.
LatestAfter(p) == (latest \ marked[p]) \cup {fresh[p]}

\* Mutant: the audit row is written outside the transaction and lost.
AuditLost(p) == audit

AuditAfter(p) == audit \cup draft[p]

\* What becomes visible at COMMIT.
Persist(p) ==
  LET r == req[p]
      t == req[p].task IN
  /\ row' = IF WritesRow(r, snap[p])
              THEN [row EXCEPT ![t] = RowAfter(r, snap[p], row[t])] ELSE row
  /\ modes' = [u \in Tasks |-> modes[u] \cup {row'[u].mode}]
  /\ audit' = AuditAfter(p)
  /\ IF r.kind \in ReviewKinds
       THEN /\ verdicts' = verdicts \cup
                 { [ id |-> fresh[p], task |-> t, reviewer |-> r.reviewer,
                     verdict |-> StoredVerdict(r.verdict) ] }
            /\ latest' = LatestAfter(p)
       ELSE UNCHANGED << verdicts, latest >>
  /\ ReleaseLocks(p)
  /\ draft' = [draft EXCEPT ![p] = {}]

Commit(p) ==
  /\ pc[p] = "commit"
  /\ Persist(p)
  /\ wrote' = [wrote EXCEPT ![p] =
       IF WritesRow(req[p], snap[p]) THEN row[req[p].task].rev + 1 ELSE 0]
  /\ Goto(p, "bump")
  /\ UNCHANGED << nextAudit, nextReview, cached, req, snap, todo, marked, fresh, code, served >>

\* Postgres commits, the acknowledgement does not arrive: 500, and no Bump.
CommitUnacked(p) ==
  /\ pc[p] = "commit"
  /\ Persist(p)
  /\ Reply(p, ErrorReply)
  /\ UNCHANGED << nextAudit, nextReview, cached, req, snap, todo, marked, fresh, wrote, served >>

Rollback(p) ==
  /\ ReleaseLocks(p)
  /\ draft' = [draft EXCEPT ![p] = {}]
  /\ Reply(p, ErrorReply)
  /\ UNCHANGED << row, modes, audit, nextAudit, verdicts, latest, nextReview, cached,
                  req, snap, todo, marked, fresh, wrote, served >>

\* The 10 s request timeout, a lost client or a failed query; the deferred
\* Rollback undoes an open transaction.
Fail(p) ==
  /\ pc[p] \in { "read", "gate", "parent", "update", "audit", "rescore", "mark",
                 "insert", "commit" }
  /\ Rollback(p)

\* ACCEPT passes the handler's own check and hits the schema's.
RejectVerdict(p) ==
  /\ pc[p] = "insert" /\ req[p].verdict = "ACCEPT"
  /\ Rollback(p)

\* Two requests on their way to DONE each hold their own row and wait for the
\* other's: Postgres aborts one of them after deadlock_timeout.
DeadlockVictim(p) ==
  /\ pc[p] = "rescore"
  /\ \E q \in Procs \ {p} :
       /\ pc[q] = "rescore"
       /\ req[q].task \in Rescored(p) /\ req[p].task \in Rescored(q)
  /\ Rollback(p)

\* cache.Bump(): a new version prefix, no earlier entry can be hit any more.
Bump(p) ==
  /\ pc[p] = "bump"
  /\ cached' = [t \in Tasks |-> Nil]
  /\ IF req[p].kind \in RefetchKinds
       THEN Goto(p, "reread") /\ UNCHANGED code
       ELSE Reply(p, "200")
  /\ UNCHANGED << db, req, snap, todo, draft, marked, fresh, wrote, served >>

\* The refetch fails: the reply is the old snapshot with the new status in it
\* (verify returns the snapshot as it was).
RefetchFails(p) ==
  LET to == StatusWritten(req[p], snap[p]) IN
  /\ pc[p] = "reread"
  /\ snap' = [snap EXCEPT ![p].status =
                            IF to = NoTarget \/ req[p].kind = "verify-failed"
                              THEN @ ELSE to,
                          ![p].owner = IF req[p].kind \in { "take", "update" }
                                         THEN req[p].agent ELSE @,
                          ![p].mode = IF req[p].kind = "update"
                                        THEN req[p].mode ELSE @]
  /\ Reply(p, "200mem")
  /\ UNCHANGED << db, cached, req, todo, draft, marked, fresh, wrote, served >>

Answer(p) ==
  /\ pc[p] = "answer"
  /\ Goto(p, "idle")
  /\ req' = [req EXCEPT ![p] = Nil]
  /\ snap' = [snap EXCEPT ![p] = Nil]
  /\ todo' = [todo EXCEPT ![p] = {}]
  /\ marked' = [marked EXCEPT ![p] = {}]
  /\ fresh' = [fresh EXCEPT ![p] = 0]
  /\ wrote' = [wrote EXCEPT ![p] = 0]
  /\ code' = [code EXCEPT ![p] = Nil]
  /\ UNCHANGED << db, cached, draft, served >>

\* An entry goes: its TTL ends, another request bumps, a NOTIFY arrives.
Forget(t) ==
  /\ cached[t] # Nil
  /\ cached' = [cached EXCEPT ![t] = Nil]
  /\ UNCHANGED << db, pc, locals, served >>

\* Nothing to do: the bound is used up and every goroutine has answered.
Quiescent ==
  /\ served = MaxRequests /\ \A p \in Procs : pc[p] = "idle"
  /\ UNCHANGED vars

\* Everything the goroutine p does of its own accord once it has a request.
Step(p) ==
  \/ ReadHit(p) \/ RereadHit(p) \/ ReadMiss(p) \/ Fill(p)
  \/ Refuse(p) \/ Decline(p) \/ Proceed(p)
  \/ \E w \in Reviewers : GatePass(p, w) \/ GateFail(p, w)
  \/ ReadParent(p) \/ UpdateRow(p) \/ InsertAudit(p) \/ Rescore(p)
  \/ MarkPrior(p) \/ InsertReview(p) \/ Commit(p) \/ RejectVerdict(p) \/ DeadlockVictim(p)
  \/ Bump(p) \/ Answer(p)

Next ==
  \/ \E p \in Procs : Receive(p) \/ Step(p) \/ CommitUnacked(p) \/ Fail(p)
                      \/ RefetchFails(p)
  \/ \E t \in Tasks : Forget(t)
  \/ Quiescent

Spec == Init /\ [][Next]_vars

\* A goroutine is scheduled again and again; Postgres grants row locks in the
\* order they were asked for and breaks a cycle of waiters.
Fairness ==
  \A p \in Procs : /\ WF_vars(Step(p))
                   /\ SF_vars(UpdateRow(p)) /\ SF_vars(Rescore(p))

FairSpec == Spec /\ Fairness

-----------------------------------------------------------------------------
(* Properties. *)

\* Every variable has its type.
TypeOK ==
  /\ row \in [Tasks -> Row]
  /\ modes \in [Tasks -> SUBSET Modes]
  /\ lock \in [Tasks -> Procs \cup {Nil}]
  /\ audit \subseteq AuditEntry /\ nextAudit \in Nat \ {0}
  /\ verdicts \subseteq Verdict /\ nextReview \in Nat \ {0}
  /\ latest \subseteq Nat \ {0}
  /\ cached \in [Tasks -> Row \cup {Nil}]
  /\ pc \in [Procs -> { "idle", "read", "fill", "check", "gate", "parent",
                        "update", "audit", "rescore", "mark", "insert",
                        "commit", "bump", "reread", "refill", "answer" }]
  /\ req \in [Procs -> Request \cup {Nil}]
  /\ snap \in [Procs -> Row \cup {Nil}]
  /\ todo \in [Procs -> SUBSET Reviewers]
  /\ draft \in [Procs -> SUBSET AuditEntry]
  /\ marked \in [Procs -> SUBSET (Nat \ {0})]
  /\ fresh \in [Procs -> Nat]
  /\ wrote \in [Procs -> Nat]
  /\ code \in [Procs -> { "200", "200mem", "422", "500", Nil }]
  /\ served \in Nat

\* However requests race, a task in IN_REVIEW, REVIEW, AWAITING_APPROVAL or
\* DONE has at some time been passed by every reviewer whose gate lies on the
\* way there: no stale snapshot or cache entry lets AdvanceTask skip a gate
\* that nobody ever passed.  Where the mode decides who they are, it may be one
\* the task had before an update: the gate is that of the snapshot.  Excused
\* is only what the rows the server found already lacked.
DoneWasReviewed ==
  \A t \in Tasks : EarnedIn(verdicts, modes[t], t, row[t].status)

\* The audit row of a task with the highest id tells the status the task has:
\* the UPDATE's row lock makes ids follow the order of the commits, although
\* an id is drawn before the commit and a rollback leaves gaps.
AuditEndsAtStatus ==
  \A t \in Tasks :
    LET mine == { e \in audit : e.task = t } IN
    IF mine = {}
      THEN row[t].status = StartRow[t].status
      ELSE \E e \in mine : /\ \A f \in mine : f.id <= e.id
                           /\ e.new = row[t].status

\* An old_value may be out of date, but it is a status the task really had
\* before: one it started with or one that a smaller audit id brought.
OldValueWasReal ==
  \A e \in audit :
    \/ e.old = StartRow[e.task].status
    \/ \E f \in audit : f.task = e.task /\ f.id < e.id /\ f.new = e.old

\* The verdict submitted last by a reviewer always counts as latest: the race
\* of two submits can leave an older row latest too, never unseat the newest.
NewestVerdictIsLatest ==
  \A v \in verdicts :
    (\A w \in verdicts : w.task = v.task /\ w.reviewer = v.reviewer => w.id <= v.id)
      => v.id \in latest

\* A closed_at on a task that is open again: no command leaves one by itself.
ClosedWhileOpen(r) ==
  /\ r.closed
  /\ r.status \notin { "DONE", "CANCELLED", "SUPERSEDED", "INVESTIGATING" }

\* The old_value of audit row e is not where the trail of its task had got to.
Breaks(e) ==
  LET before == { f \in audit : f.task = e.task /\ f.id < e.id } IN
  IF before = {}
    THEN e.old # StartRow[e.task].status
    ELSE \E f \in before : (\A g \in before : g.id <= f.id) /\ f.new # e.old

\* A DONE, a cancel or a supersede that a command decided on an older row has
\* overwritten is never lost without a trace: the closed_at it leaves on an
\* open task comes with a break in that task's audit trail, for good.
OverwrittenClosingShows ==
  \A t \in Tasks :
    ClosedWhileOpen(row[t]) =>
      \/ ClosedWhileOpen(StartRow[t])
      \/ \E e \in audit : e.task = t /\ Breaks(e)

\* A 200 to a command that moves a task means that its audit row is committed;
\* a 422 means that it left no trace.
AnswerTellsTheTruth ==
  \A p \in Procs :
    LET traces == { e \in audit : e.req = req[p].no } IN
    pc[p] = "answer" =>
      /\ code[p] \in { "200", "200mem" } /\ req[p].kind \in StatusKinds
           => traces # {}
      /\ code[p] = "422" => traces = {}

\* A task becomes DONE only by an advance that carries the operator's approval.
DoneByConsent ==
  [][ \A t \in Tasks :
        row[t].status # "DONE" /\ row'[t].status = "DONE" =>
          \E p \in Procs : /\ pc[p] = "commit" /\ req[p].task = t
                           /\ req[p].kind = "advance" /\ req[p].approve ]_vars

\* Every request is answered, also when two of them deadlock in Postgres.
EveryRequestAnswered ==
  \A p \in Procs : pc[p] # "idle" ~> pc[p] = "answer"

-----------------------------------------------------------------------------
(* What comments of the code say and its interleavings do not keep; each has *)
(* a run that shows how.                                                     *)

\* Reply freshness (comment in AdvanceTask: "the response the client sees
\* immediately after advance is a fresh read"): a refetched reply is at least
\* as new as the write it answers.
ReplyIsFresh ==
  \A p \in Procs :
    pc[p] = "answer" /\ code[p] = "200" /\ wrote[p] > 0
      /\ req[p].kind \in RefetchKinds => snap[p].rev >= wrote[p]

\* The closure gate (doc of AdvanceTask: "task must have a latest
\* task-closure-reviewer PASS verdict"): it holds when DONE is committed.
DoneOnLatestPass ==
  [][ \A t \in Tasks :
        row[t].status # "DONE" /\ row'[t].status = "DONE" =>
          HasLatestVerdict(t, "task-closure-reviewer", "PASS") ]_vars

\* One latest verdict (doc of SubmitReview: "Marks all prior (task_id,
\* reviewer_model) rows in review_results as is_latest=FALSE").
OneLatestVerdict ==
  \A v, w \in verdicts :
    v.task = w.task /\ v.reviewer = w.reviewer /\ {v.id, w.id} \subseteq latest
      => v = w
=============================================================================
