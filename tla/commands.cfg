SPECIFICATION Spec
CONSTANTS
  t1 = t1
  t2 = t2
  t3 = t3
  a1 = a1
  Nil = Nil
  Tasks = {t1, t2, t3}
  Agents = {a1, a2}
  Procs = {p1, p2}
  WorkflowOf <- MixedWorkflow
  CustomReviews <- DefaultReviews
  DoneWhen <- MixedDoneWhen
  StartRow <- MixedRow
  StartVerdicts <- MixedVerdicts
  Kinds = {"get", "advance", "take", "cancel", "supersede", "release", "revision", "verify-failed", "verify", "postmortem", "update", "review", "aggregate", "create-child", "subtasks", "merge"}
  SentVerdicts = {"PASS", "NEEDS_WORK"}
  SentReviewers = {"task-closure-reviewer", "content-reviewer"}
  SentModes = {"code", "think"}
  MaxRequests = 2
SYMMETRY ProcSymmetry
INVARIANTS
  DoneWasReviewed
  AuditEndsAtStatus
  AnswerTellsTheTruth
