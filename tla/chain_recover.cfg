CONSTANTS
  A = A
  B = B
  a1 = a1
  a2 = a2
  b1 = b1
  Device = {A, B}
  Proc = {a1, b1}
  Owner <- MCOwner
  Item = {"x"}
  Fault = {"crash", "restore"}
  MaxFaults = 2
  MaxSnapshots = 3
SPECIFICATION Spec
SYMMETRY MCSymmetry
INVARIANTS OneSnapshotPerGeneration
PROPERTIES AcceptsOnlyExtensions FileNeverLosesRows
CHECK_DEADLOCK FALSE
