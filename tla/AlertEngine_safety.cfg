SPECIFICATION AlertSpec
CONSTANTS
  RuleIds = {r1, r2}
  Tags = {t1}
  RuleConditions = {"gt", "lte"}
  Thresholds = {0}
  Unborn = Unborn
  Deleted = Deleted
  Values = {0, 1}
  Clients = {c1}
  MaxReadings = 3
  MaxEvents = 2
  MaxEdits = 3
  MaxFaults = 1
INVARIANTS
  AlertTypeOK
  AlertFollowsReadings
  EventsKeepTheirRule
  NotifiedOnce
PROPERTIES
  MarksAreFinal
SYMMETRY RuleSymmetry
CHECK_DEADLOCK FALSE
