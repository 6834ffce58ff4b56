SPECIFICATION Spec
CONSTANTS
  i1 = i1
  i2 = i2
  d1 = d1
  Ids = {i1, i2}
  Dirs = {d1}
  TombstoneLimit = 1
  Faults = {"crash", "protocol", "stuck", "idle_crash", "metadata"}
  Commands = {"js", "cancel", "reset", "suspend"}
  Pipelined = {}
  MaxCalls = 3
  MaxFaults = 1
  MaxCancels = 1
INVARIANTS
  TypeOK
  OneKernel
  ResetFresh
  SlotHeld
PROPERTIES
  NothingRunsLate
CHECK_DEADLOCK FALSE
