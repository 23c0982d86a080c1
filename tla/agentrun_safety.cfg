SPECIFICATION Spec
CONSTANTS
  Readers = {r1}
  MaxTries = 2
  BatchSize = 2
  MaxChunks = 1
  MaxCancels = 0
  MaxTroubles = 2
INVARIANT
  DoneSettled
INVARIANT
  ContentComplete
INVARIANT
  CompletedHasOutput
CHECK_DEADLOCK FALSE
