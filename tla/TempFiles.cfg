\* Three transfers; chunks of nothing, of half the quota and of all of it; the last
\* is negative as an int.
SPECIFICATION FairSpec
CONSTANTS
  Transfer = {t1, t2, t3}
  Empty = empty
  Size = {0, 1, 2}
  MaxAllocate = 2
  IntRange = 4
INVARIANTS TypeOK ExclusiveTemps OwnData QuotaExact NoStrandedWaiter
PROPERTY WaitersProgress
