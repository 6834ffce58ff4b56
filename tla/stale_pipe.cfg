SPECIFICATION Spec
CONSTANTS
  MaxProcs = 2
  MaxCells = 2
  MaxConns = 1
  MaxRequests = 3
  MaxData = 2
  Faults = {"exit", "slow"}
INVARIANTS
  OwnConnections
CHECK_DEADLOCK FALSE
