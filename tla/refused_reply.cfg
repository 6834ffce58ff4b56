SPECIFICATION Spec
CONSTANTS
  MaxProcs = 1
  MaxCells = 2
  MaxConns = 1
  MaxRequests = 3
  MaxData = 2
  Faults = {}
PROPERTIES
  NeverRefused
CHECK_DEADLOCK FALSE
