\* A picture refused by the driver leaves its frame mapped.
CONSTANTS
  LookaheadDepth = 0
  ExtraOutputDelay = 1
  FlushEachFrame = TRUE
  MaxFrames = 3
  MaxFailures = 1
SPECIFICATION Spec
INVARIANT CopiesToUnmapped
\* A session that is over takes no further step.
CHECK_DEADLOCK FALSE
