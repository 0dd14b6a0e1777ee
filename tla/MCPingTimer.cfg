CONSTANTS
  USEC_PER_SEC = 2
  Span = 2
  MaxTime = 18
  MaxTicks = 5
SPECIFICATION FairSpec
INVARIANTS TypeOK NoDrift CheckWithinSpan StopWakes
PROPERTIES StopEndsPing
CHECK_DEADLOCK FALSE
