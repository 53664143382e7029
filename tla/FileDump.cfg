SPECIFICATION Spec
CONSTANTS
  Count = 3
  MaxSize = 2
  OldFiles <- MCOldFiles
  CrashOverOld = FALSE
  HalfDone = FALSE
  ReadsOn = FALSE
INVARIANTS TypeOK Complete
PROPERTIES ImplementsChunkLog
CHECK_DEADLOCK FALSE
