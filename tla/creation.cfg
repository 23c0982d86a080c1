SPECIFICATION FirstFairSpec
CONSTANTS
  Requests = {q1, q2}
  Threads = {t1, t2}
  MaxCalls = 3
  MaxFails = 1
  MaxCancels = 1
INVARIANT
  MessagesOwned
INVARIANT
  LatestSpeaks
INVARIANT
  ActiveServed
PROPERTY
  ImplementsThreadRuns
PROPERTY
  RunsKeepLifecycle
PROPERTY
  RunsSettle
CHECK_DEADLOCK FALSE
