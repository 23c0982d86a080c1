SPECIFICATION FairSpec
CONSTANTS
  Readers = {}
  MaxTries = 2
  BatchSize = 2
  MaxChunks = 0
  MaxCancels = 0
  MaxTroubles = 1
PROPERTY
  RetryTriggered
CHECK_DEADLOCK FALSE
