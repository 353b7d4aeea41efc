CONSTANTS
  TileCells = 1
  Branching = 2
  Edge = 4
  MaxRouteTiles = 2
  MaxRequestTiles = 4
  Walls = {1, 2}
  Bad = {}
  Torn = Torn
  Outputs = {o1}
  Targets = {2}
  Actions = {"next"}
  UserOptions <- Nothing
  Jobs = {j1}
  Fallback = FALSE
  MaxAutoTiles = 2
  NearTileLimit = 4
  DedupeTtl = 2
  MaxTroubles = 1
  MaxComputes = 0
SPECIFICATION FairSpec
INVARIANTS WarmupWarms ManifestHasSnapshot
PROPERTIES AcceptedIsRendered RetriesSucceed
CHECK_DEADLOCK FALSE
