\* nvenc_encode's session: 4 device frames, EndEncode after each picture, and
\* failures enough for EncodeFrame itself to fail to fetch, twice.
CONSTANTS
  LookaheadDepth = 0
  ExtraOutputDelay = 3
  FlushEachFrame = TRUE
  MaxFrames = 7
  MaxFailures = 6
SPECIFICATION Spec
INVARIANTS TypeOK EveryFrameReturned MappingsReleased RoomForNextFrame QueuedFramesIntact
PROPERTY ExactlyOnceInOrder
\* A session that is over takes no further step.
CHECK_DEADLOCK FALSE
