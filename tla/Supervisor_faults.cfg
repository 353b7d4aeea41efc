SPECIFICATION FairSpec
CONSTANTS
  c1 = c1
  a = a
  b = b
  Clients = {c1}
  Commands = {"ping", "health", "next", "set", "stop"}
  Images = {a, b}
  NoImage = NoImage
  Faults = {"die", "timeout", "spawn", "refuse", "files", "unplug", "power"}
  MaxFaults <- TwoThenSpawn
CHECK_DEADLOCK FALSE
INVARIANTS OneRendererDraws RestartsAreCaused
PROPERTIES CommitsAreAccepted EveryClientAnswered BlankIsRestored
