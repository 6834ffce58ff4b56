SPECIFICATION Spec
CONSTANTS
  i1 = i1
  i2 = i2
  d1 = d1
  Ids = {i1}
  Dirs = {d1}
  TombstoneLimit = 2
  Faults = {"idle_protocol"}
  Commands = {"js", "cancel"}
  Pipelined = {}
  MaxCalls = 3
  MaxFaults = 1
  MaxCancels = 1
INVARIANTS
  OneKernel
CHECK_DEADLOCK FALSE
