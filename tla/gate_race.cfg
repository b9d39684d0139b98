SPECIFICATION Spec
CONSTANTS
  t1 = t1
  t2 = t2
  t3 = t3
  a1 = a1
  Nil = Nil
  Tasks = {t1, t2}
  Agents = {a1}
  Procs = {p1, p2}
  WorkflowOf <- CodeTask
  CustomReviews <- DefaultReviews
  DoneWhen <- HasDoneWhen
  StartRow <- ApprovedRow
  StartVerdicts <- ApprovedVerdicts
  Kinds = {"advance", "review"}
  SentVerdicts = {"PASS", "FAIL"}
  SentReviewers = {"task-closure-reviewer"}
  SentModes = {"code"}
  MaxRequests = 2
PROPERTY DoneOnLatestPass
