CONSTANTS
  p1 = p1
  p2 = p2
  p3 = p3
  A = A
  B = B
  MemoryCount = 2
  Process = {p1, p2, p3}
  Space = {A, B}
  SpaceOf <- MCSpaceOf
  Degraded = {B}
  Batch = 1
  MaxOps = 2
SPECIFICATION FairSpec
INVARIANTS TypeOK PublishedSpaceIsUniform
PROPERTIES RebuildEnds
CHECK_DEADLOCK FALSE
