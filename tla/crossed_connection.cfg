SPECIFICATION Spec
CONSTANTS
  r1 = r1
  r2 = r2
  Reqs = {r1, r2}
  NoReq = NoReq
  Mutations = {r1, r2}
  Contextual = {r1, r2}
  Faults = {"deadline"}
  MaxFaults = 2
INVARIANTS
  NeverBusy
CHECK_DEADLOCK FALSE
