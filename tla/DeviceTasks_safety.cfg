SPECIFICATION DeviceSpec
CONSTANTS
  Devices = {d1, d2}
  Unknown = {}
  Slow = {}
  MaxTasks = 2
  MaxRuns = 2
  MaxChanges = 2
  MaxStalls = 2
  MaxFailures = 0
INVARIANTS
  DeviceTypeOK
  PollersOwned
  FirstWatchdogSurvives
PROPERTIES
  HealthyNotRecycled
SYMMETRY DeviceSymmetry
CHECK_DEADLOCK FALSE
