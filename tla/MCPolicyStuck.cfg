SPECIFICATION StreakSpec
CONSTANTS
  NumTiers = 4
  Config <- default_configs
  Samples <- DefaultSamples
  MaxRun = 4
INVARIANT SustainedCalmDemotes
