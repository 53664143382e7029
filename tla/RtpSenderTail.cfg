SPECIFICATION Spec
CONSTANTS
  BufSize = 8  HdrSize = 2  Word = 4
  TicksPerMS = 2  MaxTime = 6
  Streams <- MCStreams
  Memory <- MCMemory
INVARIANTS NothingAfterEnd
CHECK_DEADLOCK FALSE
