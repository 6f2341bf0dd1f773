SPECIFICATION Spec
CONSTANTS
  MaxFd = 4
  MaxStops = 3
  MaxLost = 4
INVARIANTS
  TypeOK
  LeaksBounded
  StoppedForGood
PROPERTIES
  Reconnects
  StopReturnsWhenLeft
CHECK_DEADLOCK FALSE
