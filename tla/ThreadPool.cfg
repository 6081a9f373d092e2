\* Three nodes, two threads at a time, spurious wakeups allowed.
SPECIFICATION FairSpec
CONSTANTS
  Job = {j1, j2, j3}
  Main = main
  NoThread = none
  PrioArg = {0, 1, 3}
  MaxThread = 2
  Spurious = TRUE
INVARIANTS TypeOK CurThreadExact JoinListExact NoLostWakeup
PROPERTY QueuedRuns
\* Nothing is left to do once every node has been used.
CHECK_DEADLOCK FALSE
