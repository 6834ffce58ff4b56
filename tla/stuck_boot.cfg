SPECIFICATION Spec
CONSTANTS
  i1 = i1
  i2 = i2
  d1 = d1
  Ids = {i1, i2}
  Dirs = {d1}
  TombstoneLimit = 2
  Faults = {"protocol", "stuck"}
  Commands = {"js"}
  Pipelined = {}
  MaxCalls = 3
  MaxFaults = 2
  MaxCancels = 0
INVARIANTS
  OneKernel
CHECK_DEADLOCK FALSE
