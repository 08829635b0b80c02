SPECIFICATION WebSpec
CONSTANTS
  pppp = pppp
  video = video
  Services <- MCServices
  Order <- MCOrder
  Video <- MCVideo
  Clients = {c1, c2}
  Files = {a, b, unnamed}
  Placeholders = {unnamed}
  Tasks = {t}
  NoTask = NoTask
  Archives = {x, y}
  NoArchive = NoArchive
  MaxEntries = 2
  MaxInserts = 4
  Lists <- MCLists
  Heights = {0, 1}
  Nudges <- MCNudges
  MaxMoves = 1
  MaxReports = 2
PROPERTIES ServicesFollowSwitch
CHECK_DEADLOCK FALSE
