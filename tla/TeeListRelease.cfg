\* One buffer, one output, which may be released and taken again while the upstream sends.
SPECIFICATION Spec
CONSTANTS
  b1 = b1  b2 = b2
  NoBuf = NoBuf
  Parked <- OneBuf
  TeeCount = 1
  MaxFrames = 3
  AnyRelease = TRUE
INVARIANT PictureKept
\* The pipeline may stop for good, and its threads may all be at rest.
CHECK_DEADLOCK FALSE
