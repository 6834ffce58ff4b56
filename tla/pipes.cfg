SPECIFICATION LiveSpec
CONSTANTS
  MaxProcs = 2
  MaxCells = 2
  MaxConns = 1
  MaxRequests = 3
  MaxData = 2
  Faults = {"exit", "invalid", "unreachable", "lost"}
INVARIANTS
  TypeOK
  InOrder
  OwnConnections
  LossReported
PROPERTIES
  EveryRequestAnswered
CHECK_DEADLOCK FALSE
