SPECIFICATION LiveSpec
CONSTANTS
  Tabs = {tab}
  Switcher = TRUE
  QueueCap = 1
  Mod = 8
  WrapLimit = 2
  MaxInFlight = 2
  WriteSizes = {1, 2}
  MaxSpan = 2
  MaxChunks = 4
  MaxAge = 1
  MaxOvertake = 2
INVARIANTS StateIsHonest StoppedIsDark
PROPERTIES ContractHolds ShutdownEndsLoop WantedIsRetried VideoFlows BlockedReturns EverythingArrives
CHECK_DEADLOCK FALSE
