SPECIFICATION Spec
CONSTANTS
  c1 = c1
  c2 = c2
  d1 = d1
  m1 = m1
  m2 = m2
  i1 = i1
  None = None
  Calls = {c1, c2}
  Detachers = {d1}
  Messages = {m1, m2}
  Interrupts = {}
  MaxInFlight = 1
  MaxQueued = 2
  LateEdits = TRUE
  StartupMayThrow = TRUE
PROPERTIES
  ResultMissesNothing
CHECK_DEADLOCK FALSE
