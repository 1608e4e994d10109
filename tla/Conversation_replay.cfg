SPECIFICATION ConversationSpec
CONSTANTS
  m1 = m1
  m2 = m2
  c1 = c1
  t1 = t1
  a1 = a1
  r1 = r1
  s1 = s1
  Ids = {m1, m2, c1, t1, a1, r1}
  SubagentIds = {s1}
  StepNames = {}
  Absent = Absent
  Null = Null
  Unowned = Unowned
  Histories <- SomeHistories
  Types = {}
  Repertoires <- SomeRepertoires
  Hooks = {"stop", "veto"}
  MaxEvents = 6
  MaxHooks = 1
INVARIANTS
  OwnersAgree
  PendingAreUnanswered
  ReplayAgrees
PROPERTIES
  CallsNotDoubled
  ResultsFollowTheirCalls
CHECK_DEADLOCK FALSE
