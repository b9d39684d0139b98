SPECIFICATION Spec
CONSTANTS
  Nil = Nil
  Procs = {p1}
  StartRow <- PairRow
  StartSeq = 2
  Kinds = {"merge"}
  SentBlockers <- NoneOrFirst
  MaxId = 2
  MaxPhases = 1
  MaxRequests = 1
INVARIANT MergedBlocksNobody
