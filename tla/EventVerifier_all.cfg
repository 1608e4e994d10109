SPECIFICATION Spec
CONSTANTS
  x = x
  s1 = s1
  step = step
  Ids = {x}
  SubagentIds = {s1}
  StepNames = {step}
  Absent = Absent
  Null = Null
  Unowned = Unowned
  Histories <- OneIdHistories
  Types <- AllTypes
INVARIANTS
  TypeOK
  OpenHasOwner
  FinishedMeansClosed
PROPERTIES
  FreshRun
  NoSubagentRestarts
  OwnersSettled
  ImplementsRunProtocol
CHECK_DEADLOCK FALSE
