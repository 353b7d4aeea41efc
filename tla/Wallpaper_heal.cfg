SPECIFICATION Spec
CONSTANTS
  k1 = k1
  k2 = k2
  Walls = {a, b}
  NoWall = NoWall
  Keys = {k1}
  OutCount <- TwoOutputs
  FavoriteWeight = 1
  MaxHistory = 2
  AttemptFloor = 1
  MaxAttempts = 6
  Actions = {"shift_forward", "back", "add"}
  Faults = {"churn"}
SYMMETRY WallSymmetry
INVARIANTS Inductive StagedIsWindow BagHoldsLibrary
