SPECIFICATION Spec
CONSTANTS
  NumTiers = 4
  Config <- default_configs
  Contents <- PollContents
  Malformed = Malformed
PROPERTY TierComesToRest
