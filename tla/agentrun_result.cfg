SPECIFICATION Spec
CONSTANTS
  Readers = {}
  MaxTries = 2
  BatchSize = 2
  MaxChunks = 0
  MaxCancels = 0
  MaxTroubles = 0
INVARIANT
  ResultReady
CHECK_DEADLOCK FALSE
