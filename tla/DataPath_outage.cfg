SPECIFICATION RunningSpec
CONSTANTS
  Devices = {d1}
  MaxReadings = 1
  MaxConnects = 2
  MaxStalls = 0
  MaxHangs = 0
  MaxRestarts = 0
  BatchLimit = 2
  Unstorable = {}
  MaxSubscribes = 2
  MaxArrivals = 3
  MaxFaults = 0
  MaxCrashes = 0
PROPERTIES
  BufferedReadingSurvives
CHECK_DEADLOCK FALSE
