SPECIFICATION Spec
CONSTANTS
  Workers = {w1, w2}
  Keys = {k1}
  NoKey = none
  Nobody = nobody
  MaxTerminal = 1
  MaxTasks = 2
  MaxFails = 1
  MaxStops = 1
INVARIANT
  RowAgrees
INVARIANT
  UniqueExecution
INVARIANT
  NoneForgotten
INVARIANT
  CancelObeyed
PROPERTY
  SettledOnce
PROPERTY
  ImplementsTaskRecords
CHECK_DEADLOCK FALSE
SYMMETRY Loops
