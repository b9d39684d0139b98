SPECIFICATION RankSpec
CONSTANTS
  Tasks <- MCTasks
  Lists <- MCLists
  Bases <- MCBases
  MaxRounds = 10
  Past <- MCPast
  Unborn <- MCUnborn
  MovesTo <- MCMovesTo
  StartPlan <- MCStartPlan
  Owned <- MCOwned
  Limits <- MCLimits
  MaxMoves = 1
INVARIANTS
  TypeOK
  StopsByItself
  NearItsEquation
  ScoresAreExact
  NobodyForgotten
CHECK_DEADLOCK FALSE
