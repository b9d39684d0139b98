------------------------------ MODULE Workflow ------------------------------
(***************************************************************************)
(* The pure rules of a task's life: which statuses exist, where `advance`  *)
(* leads from each of them, which reviewers a transition waits for and     *)
(* which statuses each command refuses.  internal/store/store.go keeps     *)
(* them as package-level maps and as the gate blocks of AdvanceTask; every *)
(* other module of this project takes them from here.                      *)
(***************************************************************************)

\* Every status a row of `tasks` can hold.  TODO, WONT-DO and MERGED are only
\* written by the Python CLI; the Go server reads them in its guards.
Statuses ==
  { "BACKLOG", "PLANNING", "READY", "SCOPED", "IN_PROGRESS", "IN_REVIEW",
    "REVIEW", "AWAITING_APPROVAL", "DONE", "REVISION", "INVESTIGATING",
    "REOPENED", "CANCELLED", "SUPERSEDED", "TODO", "WONT-DO", "MERGED" }

\* "" is a row that predates workflows; "other" is every workflow the server
\* does not drive itself (marketing, research_task, ...).
Workflows == { "", "code_task", "fix", "think_task", "other" }

Modes == { "code", "think", "none" }

Reviewers ==
  { "spec-reviewer", "code-reviewer", "content-reviewer",
    "task-closure-reviewer" }

\* What review_results.verdict may hold (a schema CHECK constraint).
StoredVerdicts == { "PASS", "FAIL", "NEEDS_WORK" }

\* What a caller of review-submit may send.
SubmittedVerdicts == StoredVerdicts \cup { "ACCEPT", "REOPEN" }

-----------------------------------------------------------------------------
(* The three linear life cycles.  A record is a function from status names. *)

codeTaskAdvanceMap ==
  [ BACKLOG           |-> "PLANNING",
    PLANNING          |-> "READY",
    READY             |-> "IN_PROGRESS",
    IN_PROGRESS       |-> "IN_REVIEW",
    IN_REVIEW         |-> "AWAITING_APPROVAL",
    AWAITING_APPROVAL |-> "DONE" ]

fixAdvanceMap ==
  [ BACKLOG           |-> "SCOPED",
    SCOPED            |-> "IN_PROGRESS",
    IN_PROGRESS       |-> "IN_REVIEW",
    IN_REVIEW         |-> "AWAITING_APPROVAL",
    AWAITING_APPROVAL |-> "DONE" ]

thinkTaskAdvanceMap ==
  [ BACKLOG           |-> "PLANNING",
    PLANNING          |-> "READY",
    READY             |-> "IN_PROGRESS",
    IN_PROGRESS       |-> "REVIEW",
    REVIEW            |-> "AWAITING_APPROVAL",
    AWAITING_APPROVAL |-> "DONE" ]

\* The empty string of the Go code: no server-side advance from here.
NoTarget == "none"

ComputeAdvanceTarget(status, workflow) ==
  CASE workflow \in { "", "code_task" } /\ status \in DOMAIN codeTaskAdvanceMap
         -> codeTaskAdvanceMap[status]
    [] workflow = "fix" /\ status \in DOMAIN fixAdvanceMap
         -> fixAdvanceMap[status]
    [] workflow = "think_task" /\ status \in DOMAIN thinkTaskAdvanceMap
         -> thinkTaskAdvanceMap[status]
    [] OTHER -> NoTarget

-----------------------------------------------------------------------------
(* Gates. *)

defaultReviewers(workflow, mode) ==
  CASE workflow = "think_task"
         -> { "content-reviewer", "task-closure-reviewer" }
    [] workflow \in { "fix", "code_task" }
         -> { "code-reviewer", "task-closure-reviewer" }
    [] workflow \in { "", "other" } /\ mode = "code"
         -> { "code-reviewer", "task-closure-reviewer" }
    [] workflow \in { "", "other" } /\ mode = "think"
         -> { "content-reviewer", "task-closure-reviewer" }
    [] OTHER -> { "task-closure-reviewer" }

\* custom_fields.required_reviews wins over the defaults when it names anyone.
getRequiredReviews(custom, workflow, mode) ==
  IF custom # {} THEN custom ELSE defaultReviewers(workflow, mode)

\* Mutant: nobody asks the closure reviewer before DONE.
GateReviewersNoClosure(from, to, required) ==
  CASE from = "PLANNING" /\ to = "READY"         -> { "spec-reviewer" }
    [] from = "IN_PROGRESS" /\ to = "IN_REVIEW"  -> { "code-reviewer" }
    [] from = "IN_PROGRESS" /\ to = "REVIEW"     -> { "content-reviewer" }
    [] to = "AWAITING_APPROVAL"                  -> required
    [] OTHER                                     -> {}

\* Mutant: a think_task reaches REVIEW ungated.
GateReviewersNoContent(from, to, required) ==
  CASE from = "PLANNING" /\ to = "READY"         -> { "spec-reviewer" }
    [] from = "IN_PROGRESS" /\ to = "IN_REVIEW"  -> { "code-reviewer" }
    [] to = "AWAITING_APPROVAL"                  -> required
    [] to = "DONE"                               -> { "task-closure-reviewer" }
    [] OTHER                                     -> {}

\* The reviewers whose latest verdict must be PASS before the move from -> to.
GateReviewers(from, to, required) ==
  CASE from = "PLANNING" /\ to = "READY"         -> { "spec-reviewer" }
    [] from = "IN_PROGRESS" /\ to = "IN_REVIEW"  -> { "code-reviewer" }
    [] from = "IN_PROGRESS" /\ to = "REVIEW"     -> { "content-reviewer" }
    [] to = "AWAITING_APPROVAL"                  -> required
    [] to = "DONE"                               -> { "task-closure-reviewer" }
    [] OTHER                                     -> {}

\* The moves that ask for a non-empty done_when.
NeedsDoneWhen(from, to) ==
  \/ from = "PLANNING" /\ to = "READY"
  \/ from = "BACKLOG" /\ to = "SCOPED"

-----------------------------------------------------------------------------
(* What the other commands accept. *)

takeableStatuses ==
  { "BACKLOG", "PLANNING", "READY", "REOPENED", "IN_PROGRESS", "TODO" }

releaseableStatuses == { "IN_PROGRESS", "REOPENED" }

cancelTerminalStatuses ==
  { "DONE", "CANCELLED", "SUPERSEDED", "WONT-DO", "MERGED" }

\* Not DONE: a finished task may still be superseded.
supersedeTerminalStatuses == { "CANCELLED", "SUPERSEDED", "WONT-DO", "MERGED" }

\* Neither task of a merge may be in one of these; a finished one may.
mergeTerminalStatuses == { "CANCELLED", "SUPERSEDED" }

\* The rows a rescore after DONE locks and rewrites.
ScoredStatuses == Statuses \ cancelTerminalStatuses

\* Mutant: REOPEN is stored as it was sent.
StoredVerdictVerbatim(verdict) == verdict

\* A submitted REOPEN is stored as NEEDS_WORK; every other verdict as it is.
StoredVerdict(verdict) ==
  IF verdict = "REOPEN" THEN "NEEDS_WORK" ELSE verdict
=============================================================================
