SPECIFICATION FairSpec
CONSTANTS
  Workers = {w1, w2}
  Keys = {k1}
  NoKey = none
  Nobody = nobody
  MaxTerminal = 1
  MaxTasks = 2
  MaxFails = 0
  MaxStops = 1
PROPERTY
  TasksEnd
CHECK_DEADLOCK FALSE
