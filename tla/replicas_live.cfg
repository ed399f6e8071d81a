CONSTANTS
  Label <- MCLabels
  Envelope = {"local", "peer"}
  PayloadHash <- MCHash
  IngestedAt <- MCZero
  ValidFrom <- MCZero
  Absent = Absent
  DeviceCount = 2
  Origin = 1
  Base = 1
  ClosePoints = {5}
  Skew <- FirstAhead
  LegacyPin = TRUE
  MaxClosures = 8
  ReservedLocal = 2
  MaxLogical = 1
  MaxOps = 2
SPECIFICATION FairSpec
INVARIANT EditSurvivesReplay
PROPERTY EventuallyConverged
CHECK_DEADLOCK FALSE
