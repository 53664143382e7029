SPECIFICATION FairSpec
CONSTANTS
  b0 = b0  b1 = b1
  NoBuf = NoBuf
  Buffers <- TwoBufs
INVARIANTS TypeOK OneOwner NoLostWakeup
PROPERTIES ImplementsPool JoinsIfStarted ReleasedIfAsleep
\* The object's life ends; without streaming(true) its destructor may wait for ever.
CHECK_DEADLOCK FALSE
