CONSTANTS
  Bitmaps <- SmallBitmaps
  Sizes <- SmallSizes
SPECIFICATION Spec
INVARIANT BufferIsFrame
CHECK_DEADLOCK FALSE
