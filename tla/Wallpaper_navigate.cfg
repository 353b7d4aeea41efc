SPECIFICATION Spec
CONSTANTS
  k1 = k1
  k2 = k2
  Walls = {a, b}
  NoWall = NoWall
  Keys = {k1, k2}
  OutCount <- BothCounts
  FavoriteWeight = 1
  MaxHistory = 2
  AttemptFloor = 1
  MaxAttempts = 8
  Actions = {"next", "back", "shift_forward", "current", "shift_back", "replace"}
  Faults = {}
SYMMETRY WallSymmetry
INVARIANTS WindowMovesAsAsked ShownIsCurrent
PROPERTIES ImplementsTransaction
