CONSTANTS
  c1 = c1
  c2 = c2
  r1 = r1
  r2 = r2
  w1 = w1
  w2 = w2
  o1 = o1
  MemoryCount = 4
  Workspace = {w1, w2}
  Request = {r1, r2}
  Name = {o1}
  Client = {c1, c2}
  InitialTrust <- MCInitialTrust
  MaxOps = 2
SPECIFICATION Spec
INVARIANTS TypeOK OneSuccessor AnswersTheRequest ReceiptsFollowMemories
PROPERTIES NoLostUpdate TrustIsEarned
SYMMETRY Symmetry
CHECK_DEADLOCK FALSE
