\* Three requests of any kind, and a close at any moment.
SPECIFICATION FairSpec
CONSTANTS
  Request = {r1, r2, r3}
  Main = main
  Close = close
  Nothing = nothing
INVARIANTS TypeOK NoSleepOnWork EndsDrained AnswersWithLater
PROPERTY ImplementsChannel
\* A session that has ended, or whose client is silent, does nothing.
CHECK_DEADLOCK FALSE
