SPECIFICATION Spec
CONSTANTS
  i1 = i1
  i2 = i2
  d1 = d1
  Ids = {i1}
  Dirs = {d1}
  TombstoneLimit = 2
  Faults = {"idle_crash"}
  Commands = {"js", "dir"}
  Pipelined = {}
  MaxCalls = 3
  MaxFaults = 1
  MaxCancels = 1
INVARIANTS
  DirsStay
CHECK_DEADLOCK FALSE
