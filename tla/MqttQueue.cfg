SPECIFICATION FairSpec
CONSTANTS
  Files = {a, b, unnamed}
  Placeholders = {unnamed}
  Unnamed = unnamed
  Tasks = {}
  NoTask = NoTask
  Archives = {x}
  NoArchive = NoArchive
  MaxEntries = 2
  MaxInserts = 5
  Reports <- MCReports
  MaxPrints = 2
  MaxResets = 1
  MaxRequests = 1
INVARIANTS StartIsNeverLost OneRowPerPrint
PROPERTIES  PrintIsSeen EndIsSeen
CHECK_DEADLOCK FALSE
