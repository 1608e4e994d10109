SPECIFICATION PipelineSpec
CONSTANTS
  x = x
  s2 = s2
  s1 = s1
  Ids = {x}
  SubagentIds = {s1, s2}
  StepNames = {}
  Absent = Absent
  Null = Null
  Unowned = Unowned
  Histories <- SomeHistories
  Types <- AllChunkTypes
INVARIANTS
  PipelineTypeOK
  LanesDisjoint
  LanesAreTheOpenStreams
  ContinuationsNeverRefused
PROPERTIES
  StreamsSurviveOtherLanes
  StreamsEndWithTheirSubagent
CHECK_DEADLOCK FALSE

CONSTRAINT SecondIsLater
