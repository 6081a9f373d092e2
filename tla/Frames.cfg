SPECIFICATION Spec
CONSTANTS
  Message <- MCMessage
  SaveHead = 2
  Header = 2
  Control = 1
  MaxPackage = 5
  Word = 64
  Claimed = {0, 3}
  MaxMessages = 2
INVARIANTS TypeOK InStep SavedAsSent
CHECK_DEADLOCK FALSE
