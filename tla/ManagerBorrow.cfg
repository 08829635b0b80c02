SPECIFICATION Spec
CONSTANTS
  pppp = pppp
  video = video
  Services <- MCServices
  Order <- MCOrder
  Video <- MCVideo
  Clients = {c1, c2}
INVARIANTS BorrowedIsWanted
