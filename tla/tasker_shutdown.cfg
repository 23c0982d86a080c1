SPECIFICATION FairSpec
CONSTANTS
  Workers = {w1}
  Keys = {k1}
  NoKey = none
  Nobody = nobody
  MaxTerminal = 1
  MaxTasks = 1
  MaxFails = 0
  MaxStops = 1
PROPERTY
  ShutdownEnds
CHECK_DEADLOCK FALSE
