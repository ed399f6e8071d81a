CONSTANTS
  Label <- MCLabels
  Envelope = {"local", "peer"}
  PayloadHash <- MCHash
  IngestedAt <- MCZero
  ValidFrom <- MCZero
  Absent = Absent
  DeviceCount = 3
  Origin = 1
  Base = 1
  ClosePoints = {5}
  Skew <- NoSkew
  LegacyPin = TRUE
  MaxClosures = 2
  ReservedLocal = 1
  MaxLogical = 1
  MaxOps = 2
SPECIFICATION Spec
INVARIANTS SameHistorySameState ReplayIsNoOp PeerNeverStarvesLocal
 
CHECK_DEADLOCK FALSE
