SPECIFICATION Spec
CONSTANTS
  Blocks = 1
  MaxDataRetries = 2
  MaxRetries = 1
  MaxPowerCycles = 1
  MaxUploads = 1
  MaxDrops = 0
INVARIANTS SuccessIsDelivery
CHECK_DEADLOCK FALSE
