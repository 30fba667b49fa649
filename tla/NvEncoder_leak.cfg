\* CreateEncoder fails half way and the session is destroyed.
CONSTANTS
  LookaheadDepth = 0
  ExtraOutputDelay = 2
  FlushEachFrame = TRUE
  MaxFrames = 2
  MaxFailures = 1
SPECIFICATION Spec
INVARIANT DestroyFreesFrames
\* A session that is over takes no further step.
CHECK_DEADLOCK FALSE
