SPECIFICATION FairSpec
CONSTANTS
  Devices = {d1}
  MaxReadings = 3
  MaxConnects = 2
  MaxStalls = 1
  MaxHangs = 1
  MaxRestarts = 1
  BatchLimit = 2
INVARIANTS
  TypeOK
  NoReadingDropped
  IInv
PROPERTIES
  RemovedOnlyIfAccepted
  ImplementsOutbox
  DrainsUnlessHung
CHECK_DEADLOCK FALSE
