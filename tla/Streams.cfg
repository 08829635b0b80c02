SPECIFICATION StreamsSpec
CONSTANTS
  Mod = 8
  WrapLimit = 2
  MaxInFlight = 2
  WriteSizes = {1, 2}
  MaxSpan = 2
  MaxChunks = 10
  MaxAge = 2
  MaxOvertake = 2
  Bodies <- MCBodies
  MaxPictures = 3
  ChunkSize = 4
  MaxBuffer = 5
  ChanCap = 1
  QueueCap = 1
  Full = 3
  Interval = 1
  MaxValue = 2
  Cap = 3
  Limits = {0, 1, 5}
  DefaultLimit = 2
  MaxLimit = 4
  MaxLines = 8
  Requests = {r1, r2}
  Storages = {onboard, usb}
  MaxCommands = 1
SYMMETRY MCSymmetry
INVARIANTS FramesAreWhole 
PROPERTIES IsReliableStream NoticesMakeSense LogIsWhole
CHECK_DEADLOCK FALSE
