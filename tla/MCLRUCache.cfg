SPECIFICATION Spec
CONSTANTS
  k1 = k1
  k2 = k2
  k3 = k3
  n1 = n1
  n2 = n2
  n3 = n3
  Keys <- MCKeys
  Values <- MCValues
  Nodes <- MCNodes
  Null = Null
  Nil = Nil
  Capacities <- MCCapacities
  MaxGets = 2
CHECK_DEADLOCK FALSE
INVARIANTS
  CacheWellFormed
  PositiveCapacityRespected
  DestructorExact
PROPERTIES
  EvictionTerminates
  ImplementsLRU
