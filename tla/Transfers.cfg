SPECIFICATION TransfersSpec
CONSTANTS
  u1 = u1
  d1 = d1
  d2 = d2
  Upload = {u1}
  Download = {d1, d2}
  ChunkSize <- MCChunkSize
  Empty = Empty
  Main = Main
  MaxAllocate = 3
  IntRange = 8
  Limit = 2
  Attempts = 2
  Unreliable = {u1, d1}
PROPERTIES AnsweredUnlessJam JamLasts
CHECK_DEADLOCK FALSE
