SPECIFICATION Spec
CONSTANTS
  i1 = i1
  i2 = i2
  d1 = d1
  Ids = {i1}
  Dirs = {d1}
  TombstoneLimit = 2
  Faults = {}
  Commands = {"js", "cancel", "reset"}
  Pipelined = {}
  MaxCalls = 2
  MaxFaults = 1
  MaxCancels = 1
INVARIANTS
  NoPoison
CHECK_DEADLOCK FALSE
