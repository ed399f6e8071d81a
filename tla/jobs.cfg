CONSTANTS
  p1 = p1
  p2 = p2
  w1 = w1
  w2 = w2
  Process = {p1, p2}
  Workspace = {w1, w2}
  Job = {1, 2}
  Items = 1
  MaxWorkers = 1
  MaxEvents = 2
SPECIFICATION FairSpec
INVARIANTS ClosedWhileRebuilt WorkersBounded NoWorkerOutlivesClose
PROPERTIES EveryJobEnds ImplementsIndexJobs
CHECK_DEADLOCK FALSE
