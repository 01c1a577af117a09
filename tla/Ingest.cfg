SPECIFICATION IngestFairSpec
CONSTANTS
  Messages = {m1, m2, m3}
  Unstorable = {m3}
  MaxSubscribes = 2
  MaxArrivals = 4
  MaxFaults = 3
  MaxCrashes = 1
INVARIANTS
  IngestTypeOK
  EvaluatedOnceStored
  StoredIsEvaluated
  TransientFaultsTolerated
  

  
CHECK_DEADLOCK FALSE
