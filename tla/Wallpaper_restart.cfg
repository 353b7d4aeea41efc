SPECIFICATION FairSpec
CONSTANTS
  k1 = k1
  k2 = k2
  Walls = {a, b}
  NoWall = NoWall
  Keys = {k1}
  OutCount <- OneOutput
  FavoriteWeight = 2
  MaxHistory = 2
  AttemptFloor = 1
  MaxAttempts = 12
  Actions = {"next", "quarantine", "favorite", "unfavorite", "rescan"}
  Faults = {"restart"}
INVARIANTS QuarantineSettled BagHoldsLibrary
PROPERTIES EveryRequestAnswered
