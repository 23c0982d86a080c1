SPECIFICATION FairPoolSpec
CONSTANTS
  Procs = {"api", "worker"}
  Closing = {"api"}
  Callers = {"api1", "api2", "w1"}
  Home <- McHome
  Exec = 2
  Keepalive = 1
  Configured = 2
  Margin = 2
  Latency = 1
  MaxBoxes = 3
  MaxUses = 3
  MaxPoolFaults = 1
INVARIANT
  CommandsKept
INVARIANT
  Tracked
PROPERTY
  IdleReaped
CHECK_DEADLOCK FALSE
