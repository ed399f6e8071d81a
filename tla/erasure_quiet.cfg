CONSTANTS
  m1 = m1
  m2 = m2
  c1 = c1
  c2 = c2
  DeviceCount = 2
  Memory = {m1, m2}
  Id = {m1, m2, c1, c2}
  Successor <- MCSuccessor
  Origin <- MCOrigin
  Captured <- FirstUnreviewed
  Digest = {m1}
  Poisoned = {}
  Trusted <- AllTrusted
  Feature <- Quiet
SPECIFICATION FairSpec
PROPERTIES ErasureArrives
CHECK_DEADLOCK FALSE
