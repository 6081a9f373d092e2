\* Two files, each below the other or itself; chunks of two sizes on two cloud
\* drives.  The cdid in the logical drive is no larger than a chunk: 0x29 gives
\* back the cdid, and with a larger one alloc_size would sink for ever.
SPECIFICATION Spec
CONSTANTS
  Cloud = {1, 3}
  InDrive = {1}
  MaxFile = 2
  Parents = {0, 1, 2}
  Seqnum = {0}
  Size = {0, 1, 2}
  LdSize = 4
  CdSize = 3
INVARIANTS LdExact
PROPERTIES DriftsOnlyKnownWays NoOrphanMade
