SPECIFICATION Spec
CONSTANTS
  Requests = {r1, r2}
  Storages = {onboard, usb}
  MaxCommands = 1
PROPERTIES PendingIsInFlight
CHECK_DEADLOCK FALSE
