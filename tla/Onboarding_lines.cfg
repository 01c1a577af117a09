SPECIFICATION Spec
CONSTANTS
  Retries = 1
  MaxRequests = 1
  MaxLines = 2
  MaxFaults = 0
  MaxCrashes = 0
INVARIANTS
  LinesIndependent
CHECK_DEADLOCK FALSE
