SPECIFICATION Spec
CONSTANTS
  r1 = r1
  r2 = r2
  Reqs = {r1, r2}
  NoReq = NoReq
  Mutations = {r1, r2}
  Contextual = {r1}
  Faults = {"refused", "broken", "unfit", "garbled", "reconnect", "close"}
  MaxFaults = 5
INVARIANTS
  NoLeak
PROPERTIES
  KeepsWord
CHECK_DEADLOCK FALSE
