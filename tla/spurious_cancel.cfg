SPECIFICATION Spec
CONSTANTS
  i1 = i1
  i2 = i2
  d1 = d1
  Ids = {i1, i2}
  Dirs = {d1}
  TombstoneLimit = 2
  Faults = {}
  Commands = {"js", "cancel"}
  Pipelined = {}
  MaxCalls = 2
  MaxFaults = 1
  MaxCancels = 1
INVARIANTS
  NextCallUsable
CHECK_DEADLOCK FALSE
