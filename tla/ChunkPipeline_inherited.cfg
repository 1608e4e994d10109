SPECIFICATION PipelineSpec
CONSTANTS
  x = x
  s1 = s1
  s2 = s2
  Ids = {x}
  SubagentIds = {s1}
  StepNames = {}
  Absent = Absent
  Null = Null
  Unowned = Unowned
  Histories <- SomeHistories
  Types <- AllChunkTypes
PROPERTIES
  ToolCallsEndWithTheirOwner
CHECK_DEADLOCK FALSE
