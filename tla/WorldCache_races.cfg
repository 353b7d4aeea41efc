CONSTANTS
  TileCells = 2
  Branching = 2
  Edge = 4
  MaxRouteTiles = 4
  MaxRequestTiles = 8
  Walls = {1, 2}
  Bad = {}
  Torn = Torn
  Outputs = {o1}
  Targets = {2}
  Actions = {"next", "quarantine"}
  UserOptions <- WholeWorld
  Jobs = {j1, j2}
  Fallback = TRUE
  MaxAutoTiles = 4
  NearTileLimit = 4
  DedupeTtl = 1
  MaxTroubles = 0
  MaxComputes = 1
SPECIFICATION Spec
INVARIANTS TilesShowTheirWalls
SYMMETRY JobSymmetry
CHECK_DEADLOCK FALSE
