SPECIFICATION Spec
CONSTANTS
  k1 = k1
  Keys = {k1}
  NoKey = NoKey
  Never = Never
  Macros <- MCMacros
  Blocks <- MCBlocks
  MaxItems = 2
  MaxRuns = 1
  MaxLines = 3
  MaxNow = 1
INVARIANTS
  TypeOK
  GrantCoversUnattended
  FailuresCount
  KeyedInputGoesInOnce
PROPERTIES
  RunsEnd
CHECK_DEADLOCK FALSE
