\* Two buffers, one output, three frames, under fairness.
SPECIFICATION FairSpec
CONSTANTS
  b1 = b1  b2 = b2
  NoBuf = NoBuf
  Parked <- TwoBufs
  TeeCount = 1
  MaxFrames = 3
  AnyRelease = FALSE
PROPERTIES EveryFrameTeed ReturnsIfSeen StopsIfSeen
\* The pipeline may stop for good, and its threads may all be at rest.
CHECK_DEADLOCK FALSE
