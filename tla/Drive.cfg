\* Any four requests, in any order of their transfers; one file and its id used again.
SPECIFICATION DriveSpec
CONSTANTS
  Cloud = {1, 3}
  InDrive = {1}
  MaxFile = 1
  Parents = {0}
  Seqnum = {0}
  Size = {0, 2}
  LdSize = 3
  CdSize = 9
  MaxOps = 4
  MaxGetTry = 0
INVARIANTS DriveTypeOK AnsweredOnceAtEnd AnnouncedChunks Durable
PROPERTY AttemptsEnd
CHECK_DEADLOCK FALSE
