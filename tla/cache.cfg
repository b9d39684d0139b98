SPECIFICATION FairSpec
CONSTANTS
  None = None
  Keys = {k1}
  Clients = {c1, c2}
  StartDb <- NoRow
  MaxRev = 2
  MaxRestarts = 1
  MaxEntries = 2
INVARIANTS
  TypeOK
  NoEntryFromTheFuture
  StaleIsExcused
PROPERTIES
  PromiseKept
  StaleGoesAway
