\* Two buffers, two outputs, three frames: a buffer is used again.
SPECIFICATION Spec
CONSTANTS
  b1 = b1  b2 = b2
  NoBuf = NoBuf
  Parked <- TwoBufs
  TeeCount = 2
  MaxFrames = 3
  AnyRelease = FALSE
INVARIANTS TypeOK CountExact PictureKept NoLostWakeup NoCloneLeft
PROPERTY ImplementsPool
\* The pipeline may stop for good, and its threads may all be at rest.
CHECK_DEADLOCK FALSE
