SPECIFICATION Spec
\* Four bytes of two values, a work space of two, two threads.
CONSTANTS
  Bytes <- MCBytes
  Chunks <- MCChunks
  BufSz = 4
  WkSpace = 2
  Threads = {t1, t2}
  NoOne = NoOne
  Word = 16
  CopyBackward = FALSE
INVARIANTS TypeOK Layout CallbackHasData
PROPERTIES WindowStable ImplementsFifo
