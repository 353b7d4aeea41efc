SPECIFICATION FairSpec
CONSTANTS
  Walls = {1, 2}
  Broken = {}
  Backends = {"internal"}
  Default = "internal"
  WarmScopes <- Scopes
  Size <- Bytes
  MaxBytes = 4
  Batches = {1, 2}
  Workers = {1}
  UsesCanvas = TRUE
  MaxWarms = 1
  MaxDisturbances = 1
  MaxVersion = 2
INVARIANTS MemoryAccounted OneJobPerKey ThumbnailsAreWhole PendingIsWorked
PROPERTIES WarmSettles
CHECK_DEADLOCK FALSE
