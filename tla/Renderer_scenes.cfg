SPECIFICATION Spec
CONSTANTS
  Images = {a, b}
  NoImage = NoImage
  Sizes = {1}
  MaxPrepared = 1
  Faults = {"load", "upload"}
  Outputs = {x}
  Requests = {"pairwise", "canvas", "world", "cut", "clear"}
  Events = {"unplug"}
  MaxQueue = 2
  MaxJobs = 2
SYMMETRY Symmetric
INVARIANTS TexturesOwned DecodedIsRequested
PROPERTIES QueueIsFifo
