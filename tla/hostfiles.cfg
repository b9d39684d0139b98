SPECIFICATION HostSpec
CONSTANTS
  Procs = {p1, p2}
  Main = main
  None = none
  NumRegs = 2
  Last <- MCLast
  Broken = {}
  MaxRestarts = 2
  Runs = {r1}
INVARIANTS
  HostTypeOK
  NothingIsMissed
  FreshRulesApply
  LastWordStands
PROPERTIES
  CatchesUp
  RunEnds
