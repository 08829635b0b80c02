SPECIFICATION Spec
CONSTANTS
  Files = {a, b, unnamed}
  Placeholders = {unnamed}
  Unnamed = unnamed
  Tasks = {}
  NoTask = NoTask
  Archives = {x}
  NoArchive = NoArchive
  MaxEntries = 2
  MaxInserts = 4
  Reports <- MCReports
  MaxPrints = 1
  MaxResets = 0
  MaxRequests = 1
PROPERTIES BackfillIsOwn
CHECK_DEADLOCK FALSE
