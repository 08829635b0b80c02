SPECIFICATION HomeSpec
CONSTANTS
  QueueCap = 1
  MaxCountdowns = 2
  PowerCap = 2
  UpdateCap = 1
  CommandCap = 1
PROPERTIES CutsWhatIsShown ChecksGoOn KnownPrintKeepsPower IdleSocketGoesOff StatusIsShown
CHECK_DEADLOCK FALSE
