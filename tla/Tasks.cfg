SPECIFICATION TasksSpec
CONSTANTS
  Files = {"f", "g"}
  MaxDirs = 2
  QueueCap = 1
  Requests = {r1, r2}
  MaxSwaps = 2
  Neighbour = TRUE
  MaxInFlight = 2
INVARIANTS AwaitMeansUnloaded
PROPERTIES LeftoversSettle StageEnds CloseReturns SilentSessionEnds
CHECK_DEADLOCK FALSE
