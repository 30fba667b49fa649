CONSTANTS
  Bitmaps <- SmallBitmaps
  Sizes <- SmallSizes
SPECIFICATION Spec
INVARIANTS
  PlanesApart
  LumaIntact
  FileIsReceived
\* A picture that has been saved goes no further.
CHECK_DEADLOCK FALSE
