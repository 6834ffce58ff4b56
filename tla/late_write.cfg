SPECIFICATION Spec
CONSTANTS
  r1 = r1
  r2 = r2
  Reqs = {r1}
  NoReq = NoReq
  Mutations = {r1}
  Contextual = {r1}
  Faults = {"deadline"}
  MaxFaults = 2
PROPERTIES
  NothingWrittenLate
CHECK_DEADLOCK FALSE
