SPECIFICATION LiveSpec
CONSTANTS
  r1 = r1
  r2 = r2
  Reqs = {r1, r2}
  NoReq = NoReq
  Mutations = {r1}
  Contextual = {r1, r2}
  Faults = {"refused", "broken", "unfit", "garbled", "reconnect", "close", "abort", "deadline"}
  MaxFaults = 1
INVARIANTS
  TypeOK
PROPERTIES
  KeepsWord
  EveryRequestSettled
CHECK_DEADLOCK FALSE
