SPECIFICATION Spec
CONSTANTS
  t1 = t1
  m1 = m1
  None = None
  Runs = {1, 2, 3}
  Threads = {t1}
  Messages = {m1}
  Interrupts = {1, 2}
  Answers = {"yes", "no"}
INVARIANTS
  OneRunPerThread
  BindingsFollowTheRun
  SettledOnce
  OneOutcome
PROPERTIES
  AbortedRunEnds
CHECK_DEADLOCK FALSE
