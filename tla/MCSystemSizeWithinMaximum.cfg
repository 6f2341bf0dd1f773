SPECIFICATION Spec
CONSTANTS
  Clients = {a}
  NumTiers = 4
  ShrinkPct <- DefaultPct
  MaxCapacity = 4
  EntryBytes = 3
  NumKeys = 5
  MaxInFlight = 2
INVARIANT SizeWithinMaximum
