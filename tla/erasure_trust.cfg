CONSTANTS
  m1 = m1
  m2 = m2
  c1 = c1
  c2 = c2
  DeviceCount = 2
  Memory = {m1}
  Id = {m1, c1}
  Successor <- MCSuccessor
  Origin <- MCOrigin
  Captured <- FirstUnreviewed
  Digest = {m1}
  Poisoned = {c1}
  Trusted <- SecondTrusted
  Feature <- Busy
SPECIFICATION Spec
INVARIANTS ErasuresHaveAuthority NeverExportNeverSent
PROPERTIES  PushedRowsAreLive ErasedStaysErased
CHECK_DEADLOCK FALSE
