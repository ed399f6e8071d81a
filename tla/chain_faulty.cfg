CONSTANTS
  A = A
  B = B
  a1 = a1
  a2 = a2
  b1 = b1
  Device = {A, B}
  Proc = {a1, a2, b1}
  Owner <- MCOwner
  Item = {"x"}
  Fault = {"crash", "pull", "stale", "apply", "push"}
  MaxFaults = 2
  MaxSnapshots = 2
SPECIFICATION Spec
SYMMETRY OverlapSymmetry
INVARIANTS CheckpointCovered
CHECK_DEADLOCK FALSE
