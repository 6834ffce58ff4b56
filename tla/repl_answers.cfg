SPECIFICATION LiveSpec
CONSTANTS
  i1 = i1
  i2 = i2
  d1 = d1
  Ids = {i1}
  Dirs = {d1}
  TombstoneLimit = 2
  Faults = {"crash"}
  Commands = {"js", "reset", "dir", "close"}
  Pipelined = {"js", "dir", "close"}
  MaxCalls = 3
  MaxFaults = 1
  MaxCancels = 1
INVARIANTS
  NothingLeft
  DirsStay
PROPERTIES
  EveryCallAnswered
CHECK_DEADLOCK FALSE
