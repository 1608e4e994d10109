--------------------------- MODULE ChunkTransform ---------------------------
(***************************************************************************)
(* transformChunks (client/src/chunks/transform.ts): expands the compact   *)
(* *_CHUNK events into start / content / end events.                       *)
(*                                                                         *)
(* A lane is the producer its chunks are attributed to (Absent: the parent *)
(* agent) and assembles at most one stream at a time.  What the handler    *)
(* returns for one source event is the sequence emitted.                   *)
(***************************************************************************)
EXTENDS AGUIEvents, SequencesExt

VARIABLES
    lanes,         \* the pending streams, in the order they opened
    emitted,       \* events returned by the handler, not yet taken downstream
    expansion      \* "live" until the source completes or the handler throws

ChunkKinds == {"text", "tool", "reasoning"}

(* A pending stream of one lane: what the chunk that opened it established *)
Stream ==
  [lane : Tags, kind : ChunkKinds, id : Ids, subagentRunId : WireTags,
   parentMessageId : Ids \cup {Absent}]

(* A chunk.  carries tells a delta (or a provider payload) from metadata   *)
(* alone and from nothing; named is whether a tool chunk has its tool's    *)
(* name; differs is whether a repeated role, name or tool name disagrees   *)
(* with what the opener said.                                              *)
Chunk ==
  {c \in [type : {"TEXT_MESSAGE_CHUNK", "TOOL_CALL_CHUNK", "REASONING_MESSAGE_CHUNK"},
          id : Ids \cup {Absent}, subagentRunId : WireTags,
          parentMessageId : Ids \cup {Absent}, named : BOOLEAN, differs : BOOLEAN,
          carries : {"delta", "metadata", "nothing"}] :
     /\ c.type \in Types
     /\ c.type # "TOOL_CALL_CHUNK" => c.parentMessageId = Absent /\ c.named
     /\ c.type = "REASONING_MESSAGE_CHUNK" => ~c.differs}

CTypeOK ==
  /\ lanes \in Seq(Stream)
  /\ emitted \in Seq(EveryEvent)
  /\ expansion \in {"live", "complete", "failed"}

CInit == lanes = << >> /\ emitted = << >> /\ expansion = "live"

-----------------------------------------------------------------------------
KindOf(c) ==
  CASE c.type = "TEXT_MESSAGE_CHUNK" -> "text"
    [] c.type = "TOOL_CALL_CHUNK" -> "tool"
    [] c.type = "REASONING_MESSAGE_CHUNK" -> "reasoning"

(* Mutant: a null tag makes a lane of its own.                             *)
RawLaneTag(e) == e.subagentRunId

(* subagentRunId ?? undefined                                              *)
LaneTag(e) == IF e.subagentRunId = Null THEN Absent ELSE e.subagentRunId

StartEvent(st) ==
  CASE st.kind = "text" ->
         [type |-> "TEXT_MESSAGE_START", messageId |-> st.id,
          subagentRunId |-> st.subagentRunId]
    [] st.kind = "tool" ->
         [type |-> "TOOL_CALL_START", toolCallId |-> st.id,
          parentMessageId |-> st.parentMessageId, subagentRunId |-> st.subagentRunId]
    [] st.kind = "reasoning" ->
         [type |-> "REASONING_MESSAGE_START", messageId |-> st.id,
          subagentRunId |-> st.subagentRunId]

ContentEvent(st, tag) ==
  CASE st.kind = "text" ->
         [type |-> "TEXT_MESSAGE_CONTENT", messageId |-> st.id, subagentRunId |-> tag]
    [] st.kind = "tool" ->
         [type |-> "TOOL_CALL_ARGS", toolCallId |-> st.id, subagentRunId |-> tag]
    [] st.kind = "reasoning" ->
         [type |-> "REASONING_MESSAGE_CONTENT", messageId |-> st.id, subagentRunId |-> tag]

EndEvent(st) ==
  CASE st.kind = "text" ->
         [type |-> "TEXT_MESSAGE_END", messageId |-> st.id,
          subagentRunId |-> st.subagentRunId]
    [] st.kind = "tool" ->
         [type |-> "TOOL_CALL_END", toolCallId |-> st.id,
          subagentRunId |-> st.subagentRunId]
    [] st.kind = "reasoning" ->
         [type |-> "REASONING_MESSAGE_END", messageId |-> st.id,
          subagentRunId |-> st.subagentRunId]

Assembling(l) == \E i \in DOMAIN lanes : lanes[i].lane = l
PositionOf(l) == CHOOSE i \in DOMAIN lanes : lanes[i].lane = l

(* closeLane: the end of what lane l has open, and the lanes that are left *)
Ends(l) == IF Assembling(l) THEN << EndEvent(lanes[PositionOf(l)]) >> ELSE << >>

(* Mutant: closing a lane leaves its stream pending.                       *)
WithoutNone(l) == lanes

Without(l) == IF Assembling(l) THEN RemoveAt(lanes, PositionOf(l)) ELSE lanes

(* closeAllLanes: the ends of all streams, in the order they opened.       *)
AllEnds == [i \in DOMAIN lanes |-> EndEvent(lanes[i])]

(* The lanes with a stream of a kind, and those with a given stream.       *)
LanesOfKind(kind) == {st.lane : st \in {t \in ToSet(lanes) : t.kind = kind}}
LanesHolding(kind, id) ==
  {st.lane : st \in {t \in ToSet(lanes) : t.kind = kind /\ t.id = id}}

(* Mutant: the tag alone decides, whoever holds the id.                    *)
ResolveByTag(c) == {LaneTag(c)}

(* resolveLane, as the set of lanes the chunk may belong to: empty when    *)
(* the handler throws.  An id that is open goes to the lane that holds it, *)
(* unless the chunk's tag says otherwise; a chunk with neither id nor tag  *)
(* continues the parent's stream of its kind, or else the only one.        *)
ResolveLane(c) ==
  LET tag     == LaneTag(c)
      holders == LanesHolding(KindOf(c), c.id)
      ofKind  == LanesOfKind(KindOf(c)) IN
  IF c.id # Absent
    THEN IF holders = {} THEN {tag} ELSE {l \in holders : tag \in {Absent, l}}
  ELSE IF tag # Absent THEN {tag}
  ELSE IF Absent \in ofKind \/ ofKind = {} THEN {Absent}
  ELSE IF Cardinality(ofKind) = 1 THEN ofKind
  ELSE {}

(* The stream that chunk c continues when it belongs to lane l.            *)
Continues(c, st, l) ==
  /\ st.lane = l /\ st.kind = KindOf(c)
  /\ c.id \in {Absent, st.id}

(* requireOpenerAgreement, for every field the chunk repeats.              *)
AgreesWithOpener(c, st) ==
  ~c.differs /\ c.parentMessageId \in {Absent, st.parentMessageId}

(* What a first chunk must bring.                                          *)
CanOpen(c) == c.id # Absent /\ c.named

-----------------------------------------------------------------------------
Live == expansion = "live" /\ emitted = << >>

(* A chunk of a stream that is being assembled: its delta, or an empty one *)
(* to carry metadata or a null tag on.  The chunk's own tag wins over the  *)
(* opener's.                                                               *)
ContinueStream(c) ==
  /\ Live
  /\ \E l \in ResolveLane(c) : \E st \in ToSet(lanes) :
       /\ Continues(c, st, l) /\ AgreesWithOpener(c, st)
       /\ emitted' = IF c.carries = "nothing" /\ c.subagentRunId # Null THEN << >>
                     ELSE << ContentEvent(st, IF c.subagentRunId = Absent
                                              THEN st.subagentRunId ELSE c.subagentRunId) >>
  /\ UNCHANGED <<lanes, expansion>>

(* A chunk that names a stream its lane is not assembling: whatever else   *)
(* the lane had open ends before the new stream begins.                    *)
OpenStream(c) ==
  /\ Live /\ CanOpen(c)
  /\ \E l \in ResolveLane(c) :
       LET st == [lane |-> l, kind |-> KindOf(c), id |-> c.id,
                  subagentRunId |-> c.subagentRunId,
                  parentMessageId |-> c.parentMessageId] IN
       /\ ~\E t \in ToSet(lanes) : Continues(c, t, l)
       /\ lanes' = Append(Without(l), st)
       /\ emitted' = Ends(l) \o << StartEvent(st) >>
                     \o (IF c.carries = "delta"
                           THEN << ContentEvent(st, st.subagentRunId) >> ELSE << >>)
  /\ UNCHANGED expansion

(* The handler throws; finalize then drops the lanes.                      *)
RejectChunk(c) ==
  /\ Live
  /\ \A l \in ResolveLane(c) :
       LET held == {st \in ToSet(lanes) : Continues(c, st, l)} IN
       IF held = {} THEN ~CanOpen(c)
       ELSE \A st \in held : ~AgreesWithOpener(c, st)
  /\ expansion' = "failed" /\ lanes' = << >>
  /\ UNCHANGED emitted

(* Mutant: an explicit event ends the streams of all lanes.                *)
ExplicitEventEndsAll(e) ==
  /\ Live
  /\ e.type \in TextTypes \cup ReasoningTypes \cup
       {"TOOL_CALL_START", "TOOL_CALL_ARGS", "TOOL_CALL_END", "TOOL_CALL_RESULT",
        "STATE_SNAPSHOT", "STATE_DELTA", "CUSTOM", "STEP_STARTED", "STEP_FINISHED"}
  /\ emitted' = Append(AllEnds, e)
  /\ lanes' = << >>
  /\ UNCHANGED expansion

(* An explicit event ends the stream of its own lane.                      *)
ExplicitEvent(e) ==
  /\ Live
  /\ e.type \in TextTypes \cup ReasoningTypes \cup
       {"TOOL_CALL_START", "TOOL_CALL_ARGS", "TOOL_CALL_END", "TOOL_CALL_RESULT",
        "STATE_SNAPSHOT", "STATE_DELTA", "CUSTOM", "STEP_STARTED", "STEP_FINISHED"}
  /\ emitted' = Append(Ends(LaneTag(e)), e)
  /\ lanes' = Without(LaneTag(e))
  /\ UNCHANGED expansion

(* A run-level event ends the streams of all lanes.                        *)
RunLevelEvent(e) ==
  /\ Live
  /\ e.type \in {"RUN_STARTED", "RUN_FINISHED", "RUN_ERROR", "MESSAGES_SNAPSHOT"}
  /\ emitted' = Append(AllEnds, e)
  /\ lanes' = << >>
  /\ UNCHANGED expansion

(* Mutant: a subagent's terminal event passes through untouched.           *)
SubagentTerminalPasses(e) ==
  /\ Live
  /\ e.type \in {"SUBAGENT_FINISHED", "SUBAGENT_ERROR"}
  /\ emitted' = << e >>
  /\ UNCHANGED <<lanes, expansion>>

(* A subagent's terminal event ends the stream of that subagent; a         *)
(* malformed one may be one that names no subagent, which ends none.       *)
SubagentTerminal(e) ==
  /\ Live
  /\ e.type \in {"SUBAGENT_FINISHED", "SUBAGENT_ERROR"}
  /\ \/ /\ emitted' = Append(Ends(e.subagentRunId), e)
        /\ lanes' = Without(e.subagentRunId)
     \/ ~e.wellFormed /\ emitted' = << e >> /\ UNCHANGED lanes
  /\ UNCHANGED expansion

StandAside(e) ==
  /\ Live
  /\ e.type \in {"RAW", "ACTIVITY_SNAPSHOT", "ACTIVITY_DELTA",
                 "REASONING_ENCRYPTED_VALUE", "SUBAGENT_STARTED"}
  /\ emitted' = << e >>
  /\ UNCHANGED <<lanes, expansion>>

(* The source completes: finalize discards what is mid-assembly, without   *)
(* an end for it.                                                          *)
Complete ==
  /\ Live
  /\ expansion' = "complete" /\ lanes' = << >>
  /\ UNCHANGED emitted

Expand ==
  \/ \E c \in Chunk : ContinueStream(c) \/ OpenStream(c) \/ RejectChunk(c)
  \/ \E e \in Event : \/ ExplicitEvent(e) \/ RunLevelEvent(e)
                      \/ SubagentTerminal(e) \/ StandAside(e)
  \/ Complete
=============================================================================
