SPECIFICATION FairSpec
CONSTANTS
  Images = {a}
  NoImage = NoImage
  Sizes = {1}
  MaxPrepared = 2
  Faults = {"draw"}
  Outputs = {x, y}
  Requests = {"pairwise"}
  Events = {"exit"}
  MaxQueue = 1
  MaxJobs = 1
PROPERTIES RefusalPreserves QueueDrains
