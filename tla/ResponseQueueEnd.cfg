SPECIFICATION FairSpec
CONSTANTS
  Request = {r1, r2}
  Main = main
  Close = close
  Nothing = nothing
PROPERTY SessionEnds
CHECK_DEADLOCK FALSE
