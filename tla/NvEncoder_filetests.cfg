\* A file test's session under a preset that looks ahead: 5 device frames.
CONSTANTS
  LookaheadDepth = 2
  ExtraOutputDelay = 2
  FlushEachFrame = FALSE
  MaxFrames = 12
  MaxFailures = 1
SPECIFICATION Spec
INVARIANTS EveryFrameReturned NeverWaitsForUnfinished
PROPERTY ExactlyOnceInOrder
\* A session that is over takes no further step.
CHECK_DEADLOCK FALSE
