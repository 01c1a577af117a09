SPECIFICATION LoopFairSpec
CONSTANTS
  MaxConnections = 2
  MaxTests = 2
  MaxTroubles = 1
  MaxArrivals = 1
INVARIANTS
  FeedTypeOK
  TestTypeOK
  NobodyTwice
  OwnAnswer
  
PROPERTIES
  MissedOnlyByDepartures
  EachTestEnds
  OnlyStalledDashboardsBlock
CHECK_DEADLOCK FALSE
