SPECIFICATION FairSpec
CONSTANTS
  Requests = {q1}
  Threads = {t1}
  MaxCalls = 1
  MaxFails = 1
  MaxCancels = 1
PROPERTY
  CancelFreesThread
CHECK_DEADLOCK FALSE
