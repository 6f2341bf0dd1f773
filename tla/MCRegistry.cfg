SPECIFICATION ServedSpec
CONSTANTS
  Peers = {p1, p2}
  Flaky = {p1}
  Torn = {p2}
  MaxFd = 5
  Limits = {1, 4, 5}
  MaxQueued = 1
INVARIANTS
  TypeOK
  DescriptorsCurrent
  NoDescriptorLeaks
PROPERTIES
  HungUpRemoved
  StopReturns
CHECK_DEADLOCK FALSE
