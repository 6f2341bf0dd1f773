SPECIFICATION Spec
CONSTANTS
  NumTiers = 4
  Config <- default_configs
  Contents <- PollContents
  Malformed = Malformed
INVARIANTS
  TypeOK
  EvaluatesOnlyWhatWasRead
  OnlyBadNumbersTerminate
PROPERTIES
  QuietAfterStop
  StopReturns
  ConvergesWhenUnambiguous
