SPECIFICATION Spec
CONSTANTS
  Nil = Nil
  Procs = {p1, p2}
  StartRow <- ForkRow
  StartSeq = 1
  Kinds = {"create", "subtasks", "finish", "cancel", "supersede", "merge"}
  SentBlockers <- NoneOrFirst
  MaxId = 4
  MaxPhases = 2
  MaxRequests = 3
SYMMETRY ProcSymmetry
INVARIANTS
  TypeOK
  CascadeComplete
  CreatedIsThere
PROPERTIES
  OnlyTheFinishedVanish
  CollisionNeedsOverlap
