SPECIFICATION Spec
CONSTANTS
  Arrivals <- MCArrivals
  Absent = Absent
  IntervalMs = 2
  MinChunkSize = 3
  MaxEvents = 4
INVARIANTS
  TypeOK NothingLostOrReordered MetadataSurvives HeldIsTimed HeldTextIsShort
PROPERTIES
  HeldEventsAreDelivered
CHECK_DEADLOCK FALSE
