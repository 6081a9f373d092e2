\* Four nodes, two threads at a time, no spurious wakeups.
SPECIFICATION FairSpec
CONSTANTS
  Job = {j1, j2, j3, j4}
  Main = main
  NoThread = none
  PrioArg = {0, 2}
  MaxThread = 2
  Spurious = FALSE
INVARIANT ThreadLimit
PROPERTY ImplementsTaskPool
CHECK_DEADLOCK FALSE
