SPECIFICATION Spec
CONSTANTS
  MaxFrames = 4
  MaxHalves = 4
INVARIANTS
  DeliveredInOrder
  ReaderReleased
PROPERTIES
  AbortEndsTheStream
CHECK_DEADLOCK FALSE
