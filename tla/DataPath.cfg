SPECIFICATION FairSpec
CONSTANTS
  Devices = {d1}
  MaxReadings = 1
  MaxConnects = 2
  MaxStalls = 1
  MaxHangs = 1
  MaxRestarts = 1
  BatchLimit = 2
  Unstorable = {}
  MaxSubscribes = 2
  MaxArrivals = 3
  MaxFaults = 1
  MaxCrashes = 1
INVARIANTS
  EveryReadingAccountedFor
  
PROPERTIES
  ReplayReachesStore
CHECK_DEADLOCK FALSE
