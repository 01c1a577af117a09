SPECIFICATION FairSpec
CONSTANTS
  Retries = 2
  MaxRequests = 2
  MaxLines = 2
  MaxFaults = 3
  MaxCrashes = 1
INVARIANTS
  OnboardingTypeOK
  SeedNeverRefused
  SeedAllOrNothing
  ConfigComplete
  AnswerTruthful
PROPERTIES
  ServesInTheEnd
CHECK_DEADLOCK FALSE
