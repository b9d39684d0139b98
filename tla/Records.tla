------------------------------ MODULE Records ------------------------------
(***************************************************************************)
(* Sprints and frozen intents: the record-keeping commands that look at a  *)
(* row, and write it in a later statement, run by request goroutines.      *)
(*                                                                         *)
(*   sprint create   BEGIN, SELECT of an OPEN sprint (check), INSERT       *)
(*                   (sprint), its scope (members), COMMIT                 *)
(*   sprint add      SELECT of the sprint (exists), then in a transaction  *)
(*                   its tasks (members), COMMIT                           *)
(*   sprint close    SELECT of the status (look), UPDATE (shut), each a    *)
(*                   transaction of its own                                *)
(*   freeze-update   SELECT of texts, intent and version (read), then in a *)
(*                   transaction the history row (archive), UPDATE of the  *)
(*                   task (freeze), COMMIT                                 *)
(*                                                                         *)
(* READ COMMITTED: a SELECT sees what is committed; an INSERT of a member  *)
(* that another open transaction has inserted waits for its end, and so    *)
(* does an UPDATE of a row that it has written.                            *)
(***************************************************************************)
EXTENDS Naturals, FiniteSets

CONSTANTS
  Procs,        \* request goroutines
  Nil,          \* no sprint, no lock holder, no request, no intent
  Tasks,        \* the tasks that exist
  Scopes,       \* the lists of task ids this instance asks for
  Texts,        \* what note and why of the task may say; "neither" when both are empty
  Kinds,        \* the commands this instance receives
  MaxSprints,   \* bound: how many sprint ids are drawn
  MaxRequests   \* bound: how many requests are received in all

Sprints == 1 .. MaxSprints

AllKinds == { "create", "add", "close", "freeze", "update" }

Request == [ kind : AllKinds, sprint : Sprints, scope : Scopes, text : Texts ]

ASSUME RecordsAssumption ==
  /\ Nil \notin Procs \cup Texts /\ Nil \notin Request
  /\ MaxSprints \in Nat \ {0} /\ MaxRequests \in Nat
  /\ "neither" \in Texts
  /\ Kinds \subseteq AllKinds

VARIABLES
  sprint,     \* sprints, committed: [Sprints -> Nil, or status and closedAt]
  members,    \* sprint_tasks, committed: pairs of sprint and task
  nextId,     \* the sequence of sprint ids
  clock,      \* what NOW() returns, one tick per close
  text,       \* note and why of the task, as freeze-update joins them
  intent,     \* frozen_intent (Nil: NULL) and intent_version of the task
  history,    \* tasks_intent_history: the archived versions, a set
  lock,       \* who has an uncommitted UPDATE of the task's row
  pc, req,    \* per goroutine: where it is and what it serves
  todo,       \* the ids of its scope it has yet to insert
  adding,     \* the pairs its transaction has inserted
  newSprint,  \* the id of the sprint its transaction has inserted, or 0
  seen,       \* freeze: the text, intent and version it has read
  code,       \* the reply: "200", "closed" (AlreadyClosed), "400", "404", "422", "500"
  served,     \* how many requests have been received
  overtaken   \* history: has another write of its kind landed since it looked

database == << sprint, members, nextId, clock, text, intent, history >>
locals == << todo, adding, newSprint, seen >>
vars == << database, lock, pc, req, locals, code, served, overtaken >>

Open(s) == sprint[s] # Nil /\ sprint[s].status = "OPEN"

Unfrozen == [ version |-> 1, intent |-> Nil ]

Init ==
  /\ sprint = [s \in Sprints |-> Nil]
  /\ members = {} /\ nextId = 1 /\ clock = 1
  /\ text \in Texts
  /\ intent = Unfrozen
  /\ history = {}
  /\ lock = Nil
  /\ pc = [p \in Procs |-> "idle"]
  /\ req = [p \in Procs |-> Nil]
  /\ todo = [p \in Procs |-> {}]
  /\ adding = [p \in Procs |-> {}]
  /\ newSprint = [p \in Procs |-> 0]
  /\ seen = [p \in Procs |-> [ text |-> "neither", now |-> Unfrozen ]]
  /\ code = [p \in Procs |-> Nil]
  /\ served = 0
  /\ overtaken = [p \in Procs |-> FALSE]

Goto(p, l) == pc' = [pc EXCEPT ![p] = l]

Reply(p, c) == Goto(p, "answer") /\ code' = [code EXCEPT ![p] = c]

\* p's write lands: whoever is to write the same thing has looked too early.
Overtake(p) ==
  overtaken' = [q \in Procs |->
    \/ overtaken[q]
    \/ /\ q # p /\ req[q] # Nil
       /\ req[q].kind = req[p].kind /\ req[q].sprint = req[p].sprint]

FirstStep(kind) ==
  CASE kind = "create" -> "check"
    [] kind = "add"    -> "exists"
    [] kind = "close"  -> "look"
    [] kind = "freeze" -> "read"
    [] kind = "update" -> "write"

Receive(p) ==
  /\ pc[p] = "idle" /\ served < MaxRequests
  /\ \E r \in Request :
       /\ r.kind \in Kinds
       /\ r.kind \notin { "create", "add" } => r.scope = CHOOSE s \in Scopes : TRUE
       /\ r.kind \notin { "add", "close" } => r.sprint = 1
       /\ r.kind # "update" => r.text = "neither"
       /\ req' = [req EXCEPT ![p] = r]
       /\ Goto(p, FirstStep(r.kind))
  /\ served' = served + 1
  /\ UNCHANGED << database, lock, locals, code, overtaken >>

-----------------------------------------------------------------------------
(* sprint create and sprint add. *)

\* Mutant: the check is left out.
NoneOpenAny == TRUE

\* SELECT ... WHERE status = 'OPEN' LIMIT 1
NoneOpen == \A s \in Sprints : ~Open(s)

CheckOpen(p) ==
  /\ pc[p] = "check"
  /\ IF NoneOpen THEN Goto(p, "sprint") /\ UNCHANGED code ELSE Reply(p, "400")
  /\ overtaken' = [overtaken EXCEPT ![p] = FALSE]
  /\ UNCHANGED << database, lock, req, locals, served >>

\* The id is drawn from a sequence; the row is not visible before the COMMIT.
InsertSprint(p) ==
  /\ pc[p] = "sprint" /\ nextId \in Sprints
  /\ newSprint' = [newSprint EXCEPT ![p] = nextId]
  /\ nextId' = nextId + 1
  /\ todo' = [todo EXCEPT ![p] = req[p].scope]
  /\ Goto(p, IF req[p].scope = {} THEN "commit" ELSE "members")
  /\ UNCHANGED << sprint, members, clock, text, intent, history, lock, req,
                  adding, seen, code, served, overtaken >>

SprintExists(p) ==
  /\ pc[p] = "exists"
  /\ IF sprint[req[p].sprint] = Nil
       THEN Reply(p, "404") /\ UNCHANGED todo
       ELSE /\ todo' = [todo EXCEPT ![p] = req[p].scope]
            /\ Goto(p, IF req[p].scope = {} THEN "commit" ELSE "members")
            /\ UNCHANGED code
  /\ UNCHANGED << database, lock, req, adding, newSprint, seen, served, overtaken >>

\* Mutant: the id that RETURNING gives is not handed on.
TargetOfUnset(p) == IF req[p].kind = "create" THEN 0 ELSE req[p].sprint

TargetOf(p) == IF req[p].kind = "create" THEN newSprint[p] ELSE req[p].sprint

\* Mutant: the pair that another transaction has inserted is inserted again.
HeldUpNever(p, pair) == FALSE

\* Another open transaction has inserted the pair.
HeldUp(p, pair) == \E q \in Procs \ {p} : pair \in adding[q]

\* Mutant: an id without a task ends the loop.
LeftAfterBreak(p, t) == IF t \in Tasks THEN todo[p] \ {t} ELSE {}

LeftAfter(p, t) == todo[p] \ {t}

\* insertSprintTasksTx: ids without a task are skipped, and pairs that are there
\* (ON CONFLICT DO NOTHING); every order of the ids is a request.
InsertMember(p) ==
  /\ pc[p] = "members"
  /\ \E t \in todo[p] :
       LET pair == << TargetOf(p), t >> IN
       /\ t \in Tasks => ~HeldUp(p, pair)
       /\ adding' = [adding EXCEPT ![p] =
            IF t \notin Tasks \/ pair \in members THEN @ ELSE @ \cup { pair }]
       /\ todo' = [todo EXCEPT ![p] = LeftAfter(p, t)]
       /\ Goto(p, IF LeftAfter(p, t) = {} THEN "commit" ELSE "members")
  /\ UNCHANGED << database, lock, req, newSprint, seen, code, served, overtaken >>

\* COMMIT and what becomes of the answer to it.
CommitSprint(p, c) ==
  /\ pc[p] = "commit" /\ req[p].kind \in { "create", "add" }
  /\ members' = members \cup adding[p]
  /\ IF req[p].kind = "create"
       THEN /\ sprint' = [sprint EXCEPT ![newSprint[p]] = [ status |-> "OPEN", closedAt |-> 0 ]]
            /\ Overtake(p)
       ELSE UNCHANGED << sprint, overtaken >>
  /\ adding' = [adding EXCEPT ![p] = {}]
  /\ Reply(p, c)
  /\ UNCHANGED << nextId, clock, text, intent, history, lock, req, todo,
                  newSprint, seen, served >>

-----------------------------------------------------------------------------
(* sprint close. *)

\* Mutant: CloseSprint does not look at the status it has read.
StillOpenAny(s) == TRUE

StillOpen(s) == sprint[s].status # "CLOSED"

LookAtSprint(p) ==
  LET s == req[p].sprint IN
  /\ pc[p] = "look"
  /\ IF sprint[s] = Nil THEN Reply(p, "404")
     ELSE IF StillOpen(s) THEN Goto(p, "shut") /\ UNCHANGED code
     ELSE Reply(p, "closed")
  /\ overtaken' = [overtaken EXCEPT ![p] = FALSE]
  /\ UNCHANGED << database, lock, req, locals, served >>

\* No predicate on the status; c is what becomes of the answer.
ShutSprint(p, c) ==
  /\ pc[p] = "shut"
  /\ sprint' = [sprint EXCEPT ![req[p].sprint] = [ status |-> "CLOSED", closedAt |-> clock ]]
  /\ clock' = clock + 1
  /\ Overtake(p)
  /\ Reply(p, c)
  /\ UNCHANGED << members, nextId, text, intent, history, lock, req, locals, served >>

-----------------------------------------------------------------------------
(* freeze-update, and the update of note or why that goes before it. *)

ReadIntent(p) ==
  /\ pc[p] = "read"
  /\ seen' = [seen EXCEPT ![p] = [ text |-> text, now |-> intent ]]
  /\ IF text = "neither" THEN Reply(p, "422")
     ELSE /\ Goto(p, IF intent.intent = Nil THEN "freeze" ELSE "archive")
          /\ UNCHANGED code
  /\ overtaken' = [overtaken EXCEPT ![p] = FALSE]
  /\ UNCHANGED << database, lock, req, todo, adding, newSprint, served >>

\* The INSERT of what was read into the history waits for nobody.
ArchiveIntent(p) ==
  /\ pc[p] = "archive"
  /\ Goto(p, "freeze")
  /\ UNCHANGED << database, lock, req, locals, code, served, overtaken >>

RowIsFree == lock = Nil

FreezeIntent(p) ==
  /\ pc[p] = "freeze" /\ RowIsFree
  /\ lock' = p
  /\ Goto(p, "commit")
  /\ UNCHANGED << database, req, locals, code, served, overtaken >>

\* Mutant: the version that was read and not its successor.
NextVersionSame(p) == IF seen[p].now.intent = Nil THEN 1 ELSE intent.version

\* An initialisation writes 1, everything else intent_version + 1 of the row.
NextVersion(p) == IF seen[p].now.intent = Nil THEN 1 ELSE intent.version + 1

CommitFreeze(p, c) ==
  /\ pc[p] = "commit" /\ req[p].kind = "freeze"
  /\ intent' = [ version |-> NextVersion(p), intent |-> seen[p].text ]
  /\ history' = history \cup (IF seen[p].now.intent = Nil THEN {} ELSE { seen[p].now })
  /\ lock' = Nil
  /\ Overtake(p)
  /\ Reply(p, c)
  /\ UNCHANGED << sprint, members, nextId, clock, text, req, locals, served >>

UpdateText(p, c) ==
  /\ pc[p] = "write" /\ RowIsFree
  /\ text' = req[p].text
  /\ Reply(p, c)
  /\ UNCHANGED << sprint, members, nextId, clock, intent, history, lock, req, locals,
                  served, overtaken >>

-----------------------------------------------------------------------------
Land(p, c) ==
  CommitSprint(p, c) \/ ShutSprint(p, c) \/ CommitFreeze(p, c) \/ UpdateText(p, c)

Commit(p) == Land(p, "200")

\* Postgres commits, the acknowledgement does not arrive.
CommitUnacked(p) == Land(p, "500")

\* A timeout, a lost connection or a deadlock victim: the deferred Rollback.
Fail(p) ==
  /\ pc[p] \notin { "idle", "answer" }
  /\ adding' = [adding EXCEPT ![p] = {}]
  /\ lock' = IF lock = p THEN Nil ELSE lock
  /\ Reply(p, "500")
  /\ UNCHANGED << database, req, todo, newSprint, seen, served, overtaken >>

Answer(p) ==
  /\ pc[p] = "answer"
  /\ Goto(p, "idle")
  /\ req' = [req EXCEPT ![p] = Nil]
  /\ todo' = [todo EXCEPT ![p] = {}]
  /\ newSprint' = [newSprint EXCEPT ![p] = 0]
  /\ seen' = [seen EXCEPT ![p] = [ text |-> "neither", now |-> Unfrozen ]]
  /\ code' = [code EXCEPT ![p] = Nil]
  /\ overtaken' = [overtaken EXCEPT ![p] = FALSE]
  /\ UNCHANGED << database, lock, adding, served >>

Quiescent ==
  /\ served = MaxRequests /\ \A p \in Procs : pc[p] = "idle"
  /\ UNCHANGED vars

Next ==
  \/ \E p \in Procs :
       \/ Receive(p)
       \/ CheckOpen(p) \/ InsertSprint(p) \/ SprintExists(p) \/ InsertMember(p)
       \/ LookAtSprint(p)
       \/ ReadIntent(p) \/ ArchiveIntent(p) \/ FreezeIntent(p)
       \/ Commit(p) \/ CommitUnacked(p) \/ Fail(p) \/ Answer(p)
  \/ Quiescent

Spec == Init /\ [][Next]_vars

-----------------------------------------------------------------------------
(* Properties. *)

\* Every variable has its type.
TypeOK ==
  /\ sprint \in [Sprints -> [ status : { "OPEN", "CLOSED" }, closedAt : Nat ] \cup {Nil}]
  /\ members \subseteq Sprints \X Tasks
  /\ nextId \in 1 .. MaxSprints + 1 /\ clock \in Nat /\ text \in Texts
  /\ intent \in [ version : Nat, intent : Texts \cup {Nil} ]
  /\ history \subseteq [ version : Nat, intent : Texts ]
  /\ lock \in Procs \cup {Nil}
  /\ pc \in [Procs -> { "idle", "check", "sprint", "exists", "members", "look", "shut",
                        "read", "archive", "freeze", "write", "commit", "answer" }]
  /\ req \in [Procs -> Request \cup {Nil}]
  /\ todo \in [Procs -> SUBSET UNION Scopes]
  /\ adding \in [Procs -> SUBSET (Sprints \X Tasks)]
  /\ newSprint \in [Procs -> 0 .. MaxSprints]
  /\ seen \in [Procs -> [ text : Texts, now : [ version : Nat, intent : Texts \cup {Nil} ] ]]
  /\ code \in [Procs -> { "200", "closed", "400", "404", "422", "500", Nil }]
  /\ served \in 0 .. MaxRequests
  /\ overtaken \in [Procs -> BOOLEAN]

\* A create or add that answers 200 leaves every task of its scope that exists
\* in the sprint, the ones it reports as skipped too: whoever it skipped them
\* for has committed.
ScopeIsIn ==
  \A p \in Procs :
    pc[p] = "answer" /\ code[p] = "200" /\ req[p].kind \in { "create", "add" } =>
      \A t \in req[p].scope \cap Tasks : << TargetOf(p), t >> \in members

\* A task is reported as added to a sprint by one request only.
AddedOnce == \A p, q \in Procs : adding[p] \cap (members \cup (IF p = q THEN {} ELSE adding[q])) = {}

\* A sprint is opened beside an OPEN one only by a create that another has
\* overtaken after it looked: one after the other, creates keep the rule.
TwoOpenNeedOverlap ==
  [][ \A p \in Procs : \A s, u \in Sprints :
        Open(s) /\ ~Open(u) /\ Open(u)' /\ newSprint[p] = u => overtaken[p] ]_vars

\* closed_at is written a second time only by a close that another close of the
\* sprint has overtaken; every other one reports the original.
ClosedAtNeedsOverlap ==
  [][ \A p \in Procs : \A s \in Sprints :
        /\ sprint[s] # Nil /\ sprint[s].status = "CLOSED" /\ sprint'[s] # sprint[s]
        /\ pc[p] = "shut" /\ pc'[p] = "answer"
        => overtaken[p] ]_vars

\* Unless another freeze has overtaken it, a freeze-update archives what it
\* replaces and moves to the next version: nothing is lost and no number skipped.
FreezeLosesNothing ==
  [][ \A p \in Procs :
        pc[p] = "commit" /\ intent' # intent /\ ~overtaken[p] /\ pc'[p] = "answer" =>
          IF intent.intent = Nil THEN intent'.version = 1
          ELSE intent \in history' /\ intent'.version = intent.version + 1 ]_vars
=============================================================================
