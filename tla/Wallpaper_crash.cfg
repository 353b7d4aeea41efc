SPECIFICATION Spec
CONSTANTS
  k1 = k1
  k2 = k2
  Walls = {a, b}
  NoWall = NoWall
  Keys = {k1}
  OutCount <- TwoOutputs
  FavoriteWeight = 1
  MaxHistory = 2
  AttemptFloor = 1
  MaxAttempts = 12
  Actions = {"next", "back", "shift_forward", "shift_back", "quarantine", "startup"}
  Faults = {"crash", "io"}
SYMMETRY WallSymmetry
INVARIANTS DurableCursorInHistory CachedLayoutIsDurable QuarantineSettled
