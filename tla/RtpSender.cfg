SPECIFICATION FairSpec
CONSTANTS
  BufSize = 8  HdrSize = 2  Word = 4
  TicksPerMS = 2  MaxTime = 6
  Streams <- MCStreams
  Memory <- MCMemory
INVARIANTS TypeOK InOrder Complete ThreadOutlived
PROPERTIES EarlyByFirstGap OwnerReturns
\* The task is deleted in the end.
CHECK_DEADLOCK FALSE
