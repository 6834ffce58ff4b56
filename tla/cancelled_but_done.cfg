SPECIFICATION Spec
CONSTANTS
  r1 = r1
  r2 = r2
  Reqs = {r1}
  NoReq = NoReq
  Mutations = {r1}
  Contextual = {r1}
  Faults = {"abort"}
  MaxFaults = 2
PROPERTIES
  CancelledMeansStopped
CHECK_DEADLOCK FALSE
