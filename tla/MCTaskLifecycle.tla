-------------------------- MODULE MCTaskLifecycle --------------------------
(* Instances of TaskLifecycle for TLC. *)
EXTENDS TaskLifecycle, TLC

CONSTANTS t1, t2, t3, a1

RowIn(s) == [ status |-> s, owner |-> a1, mode |-> "code", closed |-> s = "DONE",
              verified |-> FALSE, rev |-> 0 ]

Stored(i, t, w, v) == [ id |-> i, task |-> t, reviewer |-> w, verdict |-> v ]

HasDoneWhen == [t \in Tasks |-> TRUE]
CodeTask == [t \in Tasks |-> "code_task"]
DefaultReviews == [t \in Tasks |-> {}]

\* A code_task waits for approval; its custom_fields ask for a code review
\* only, the closure reviewer has said FAIL so far.
CodeReviewOnly == [t \in Tasks |-> {"code-reviewer"}]
WaitingRow == [t \in Tasks |-> RowIn("AWAITING_APPROVAL")]
WaitingVerdicts ==
  { Stored(1, t1, "code-reviewer", "PASS"),
    Stored(2, t1, "task-closure-reviewer", "FAIL") }

\* Three workflows at three stages: a finished fix, a think_task being written
\* and a task without a workflow in review, whose mode decides the reviewers.
MixedWorkflow == t1 :> "fix" @@ t2 :> "think_task" @@ t3 :> ""
MixedRow == t1 :> RowIn("DONE") @@ t2 :> RowIn("IN_PROGRESS") @@ t3 :> RowIn("IN_REVIEW")
MixedDoneWhen == t1 :> FALSE @@ t2 :> TRUE @@ t3 :> TRUE
MixedVerdicts ==
  { Stored(1, t1, "code-reviewer", "PASS"),
    Stored(2, t1, "task-closure-reviewer", "PASS"),
    Stored(3, t3, "code-reviewer", "PASS"),
    Stored(4, t3, "task-closure-reviewer", "PASS") }

\* Two code_tasks, each one approval away from DONE.
ApprovedRow == [t \in Tasks |-> RowIn("AWAITING_APPROVAL")]
ApprovedVerdicts ==
  { Stored(1, t1, "code-reviewer", "PASS"),
    Stored(2, t1, "task-closure-reviewer", "PASS"),
    Stored(3, t2, "code-reviewer", "PASS"),
    Stored(4, t2, "task-closure-reviewer", "PASS") }

ProcSymmetry == Permutations(Procs)
=============================================================================
