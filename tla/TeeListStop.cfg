\* One buffer, one output: does a teardown end?
SPECIFICATION FairSpec
CONSTANTS
  b1 = b1  b2 = b2
  NoBuf = NoBuf
  Parked <- OneBuf
  TeeCount = 1
  MaxFrames = 1
  AnyRelease = FALSE
PROPERTY StopJoins
\* The pipeline may stop for good, and its threads may all be at rest.
CHECK_DEADLOCK FALSE
