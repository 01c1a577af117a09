SPECIFICATION AlertSpec
CONSTANTS
  RuleIds = {r1}
  Tags = {t1}
  RuleConditions = {"gt", "lte"}
  Thresholds = {0}
  Unborn = Unborn
  Deleted = Deleted
  Values = {0, 1}
  Clients = {c1}
  MaxReadings = 3
  MaxEvents = 2
  MaxEdits = 1
  MaxFaults = 0
INVARIANTS
  ClearedByLaterReading
CHECK_DEADLOCK FALSE
