SPECIFICATION FairSpec
CONSTANTS
  c1 = c1
  c2 = c2
  d1 = d1
  m1 = m1
  m2 = m2
  i1 = i1
  None = None
  Calls = {c1, c2}
  Detachers = {d1}
  Messages = {}
  Interrupts = {}
  MaxInFlight = 2
  MaxQueued = 2
  LateEdits = FALSE
  StartupMayThrow = TRUE
INVARIANTS
  ReceivedIsApplied
PROPERTIES
  DetachReturns
CHECK_DEADLOCK FALSE
