SPECIFICATION Spec
CONSTANTS
  MaxFd = 4
  MaxStops = 3
  MaxLost = 4
PROPERTY
  StopReturns
CHECK_DEADLOCK FALSE
