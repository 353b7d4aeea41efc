SPECIFICATION Spec
CONSTANTS
  Images = {a, b}
  NoImage = NoImage
  Sizes = {1}
  MaxPrepared = 2
  Faults = {"load", "upload", "create", "draw", "swap"}
  Outputs = {x}
  Requests = {"pairwise"}
  Events = {"power", "unmanaged", "configure"}
  MaxQueue = 2
  MaxJobs = 3
SYMMETRY Symmetric
INVARIANTS NothingStalls ScreenIsCurrent
PROPERTIES OffIsUntouched
