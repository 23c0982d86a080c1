SPECIFICATION Spec
CONSTANTS
  Readers = {}
  MaxTries = 2
  BatchSize = 2
  MaxChunks = 0
  MaxCancels = 1
  MaxTroubles = 0
PROPERTY
  SettledForGood
CHECK_DEADLOCK FALSE
