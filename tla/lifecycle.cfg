SPECIFICATION Spec
CONSTANTS
  t1 = t1
  t2 = t2
  t3 = t3
  a1 = a1
  Nil = Nil
  Tasks = {t1}
  Agents = {a1}
  Procs = {p1, p2}
  WorkflowOf <- CodeTask
  CustomReviews <- CodeReviewOnly
  DoneWhen <- HasDoneWhen
  StartRow <- WaitingRow
  StartVerdicts <- WaitingVerdicts
  Kinds = {"advance", "take", "cancel", "supersede", "merge", "revision", "verify-failed", "review", "create-child"}
  SentVerdicts = {"PASS", "REOPEN"}
  SentReviewers = {"task-closure-reviewer"}
  SentModes = {"code"}
  MaxRequests = 3
SYMMETRY ProcSymmetry
INVARIANTS
  TypeOK
  DoneWasReviewed
  AuditEndsAtStatus
  OldValueWasReal
  NewestVerdictIsLatest
  OverwrittenClosingShows
  AnswerTellsTheTruth
PROPERTY DoneByConsent
