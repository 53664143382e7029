\* One application thread, two clients, two caller's and two own buffers.
SPECIFICATION FairSpec
CONSTANTS
  app = app  t1 = t1  t2 = t2
  u1 = u1  u2 = u2  o1 = o1  o2 = o2
  Buffers <- MCBuffers
  UserBufs <- MCUserBufs
  Threads <- MCThreads
  App <- app
  UserArrays <- MCUserArrays
  OwnArrays <- MCOwnArrays
  SpuriousWakeups = TRUE
  EmptyReInit = FALSE
  LateSelfAlloc = FALSE
INVARIANTS TypeOK OnePlace NoLostWakeup NoUseAfterFree
PROPERTIES DestructorEnds ImplementsPool
\* The list's life ends with its destructor, and clients may all wait for a buffer.
CHECK_DEADLOCK FALSE
