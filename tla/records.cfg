SPECIFICATION Spec
CONSTANTS
  Nil = Nil
  Procs = {p1, p2}
  Tasks = {1, 2}
  Scopes <- MCScopes
  Texts <- NeitherOrTwo
  Kinds <- AllKinds
  MaxSprints = 2
  MaxRequests = 4
SYMMETRY ProcSymmetry
INVARIANTS
  TypeOK
  ScopeIsIn
  AddedOnce
PROPERTIES
  TwoOpenNeedOverlap
  ClosedAtNeedsOverlap
  FreezeLosesNothing
