CONSTANTS
  p1 = p1
  p2 = p2
  MemoryCount = 2
  Process = {p1, p2}
  Limit = 1
  Feature = {"crash", "rollback", "loss"}
  MaxOps = 2
SPECIFICATION FairSpec
INVARIANTS TypeOK DebtCoversDifference
PROPERTIES NeverPublishesStale IndexCatchesUp
CHECK_DEADLOCK FALSE
