SPECIFICATION FairSpec
CONSTANTS
  Readers = {r1}
  MaxTries = 2
  BatchSize = 2
  MaxChunks = 0
  MaxCancels = 1
  MaxTroubles = 1
INVARIANT
  EndBacked
INVARIANT
  VerdictAgrees
PROPERTY
  ImplementsLifecycle
PROPERTY
  ReadersAnswered
PROPERTY
  Settles
PROPERTY
  CancelStopsWorker
CHECK_DEADLOCK FALSE
