SPECIFICATION DeviceFairSpec
CONSTANTS
  Devices = {d1}
  Unknown = {}
  Slow = {}
  MaxTasks = 1
  MaxRuns = 1
  MaxChanges = 1
  MaxStalls = 2
  MaxFailures = 0
PROPERTIES
  StalledIsRecycled
CHECK_DEADLOCK FALSE
