SPECIFICATION DeviceFairSpec
CONSTANTS
  Devices = {d1, d2}
  Unknown = {}
  Slow = {}
  MaxTasks = 2
  MaxRuns = 1
  MaxChanges = 2
  MaxStalls = 1
  MaxFailures = 2
PROPERTIES
  TasksFollowAssignment
CHECK_DEADLOCK FALSE
