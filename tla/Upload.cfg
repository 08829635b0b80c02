SPECIFICATION UploadSpec
CONSTANTS
  Blocks = 2
  MaxDataRetries = 2
  MaxRetries = 1
  MaxPowerCycles = 1
  MaxUploads = 2
  MaxDrops = 2
  Transfers = {r1, r2}
  NoTransfer = NoTransfer
  ReqCap = 1
  MaxRestarts = 2
INVARIANTS PrintsOnce
PROPERTIES SuccessIsTrue NeverPrintsPart UploadReturns WaitersAreAnswered
CHECK_DEADLOCK FALSE
