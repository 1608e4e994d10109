---------------------------- MODULE ChunkPipeline ----------------------------
(***************************************************************************)
(* transformChunks piped into verifyEvents, as the pipelines of            *)
(* agent/agent.ts compose them.  The operators are synchronous: the        *)
(* verifier takes everything one source event expanded into before the     *)
(* next source event is looked at, and its error unsubscribes the source.  *)
(***************************************************************************)
EXTENDS EventVerifier, ChunkTransform

chunkVars == <<lanes, emitted, expansion>>
pipelineVars == <<vars, chunkVars>>

PipelineInit == Init /\ CInit

Receive == ~streamFailed /\ Expand /\ UNCHANGED vars

(* The verifier takes the next event.  A rejected one stays at the head of *)
(* emitted, as the error that the pipeline reports.                        *)
Deliver ==
  /\ emitted # << >>
  /\ Accept(Head(emitted))
  /\ emitted' = Tail(emitted)
  /\ UNCHANGED <<lanes, expansion>>

Break ==
  /\ emitted # << >>
  /\ Reject(Head(emitted))
  /\ lanes' = << >>
  /\ UNCHANGED <<emitted, expansion>>

PipelineNext == Receive \/ Deliver \/ Break

PipelineSpec == PipelineInit /\ [][PipelineNext]_pipelineVars

-----------------------------------------------------------------------------
PipelineTypeOK == TypeOK /\ CTypeOK

(* No two lanes assemble the same stream, and no lane two streams: the     *)
(* lane of a chunk that names an open id is never in doubt.                *)
LanesDisjoint ==
  \A i, j \in DOMAIN lanes : i # j =>
    /\ lanes[i].lane # lanes[j].lane
    /\ <<lanes[i].kind, lanes[i].id>> # <<lanes[j].kind, lanes[j].id>>

Idle == emitted = << >> /\ expansion = "live" /\ ~streamFailed

Assembled(kind) == {st.id : st \in {t \in ToSet(lanes) : t.kind = kind}}

(* When streams are sent as chunks only, the verifier's open sets and the  *)
(* lanes are two records of the same thing: between source events exactly  *)
(* the streams being assembled are open.  So no stream leaks past a        *)
(* terminal event, and no end is owed or sent twice.                       *)
LanesAreTheOpenStreams ==
  Idle => /\ activeMessages = Assembled("text")
          /\ activeToolCalls = Assembled("tool")
          /\ activeReasoningMessages = Assembled("reasoning")

(* What the expansion synthesizes to continue or to end a stream is never  *)
(* what breaks the pipeline: only an opener can be refused (an id that     *)
(* another producer owns), or an event that the producer sent itself.      *)
ContinuationsNeverRefused ==
  streamFailed =>
    Head(emitted).type \notin
      {"TEXT_MESSAGE_CONTENT", "TEXT_MESSAGE_END", "TOOL_CALL_ARGS", "TOOL_CALL_END",
       "REASONING_MESSAGE_CONTENT", "REASONING_MESSAGE_END"}

(* A chunk stream does not outlive the subagent it is attributed to: the   *)
(* subagent's terminal event finds it ended.                               *)
StreamsEndWithTheirSubagent ==
  [][\A s \in closedSubagents' \ closedSubagents :
       \A i \in DOMAIN lanes : lanes[i].subagentRunId # s]_pipelineVars

(* One producer's events never end another producer's stream: what ends is *)
(* the stream of the lane the event is attributed to, or whose open id or  *)
(* place the chunk takes.                                                  *)
StreamsSurviveOtherLanes ==
  [][\A i \in DOMAIN lanes :
       lanes[i] \notin ToSet(lanes') /\ expansion' = "live" /\ ~streamFailed' =>
         \/ \E e \in Event : RunLevelEvent(e)
         \/ \E e \in Event : /\ ExplicitEvent(e) \/ SubagentTerminal(e)
                             /\ LaneTag(e) = lanes[i].lane
         \/ \E c \in Chunk : /\ OpenStream(c)
                             /\ LaneTag(c) = lanes[i].lane]_pipelineVars

(* The specification's words, taken at the owner the verifier records: an  *)
(* untagged tool call inherits the owner of the message that holds it, so  *)
(* its stream too should end no later than that subagent's terminal event. *)
ToolCallsEndWithTheirOwner ==
  [][\A s \in closedSubagents' \ closedSubagents :
       \A i \in DOMAIN lanes :
         lanes[i].kind = "tool" => owners.toolCall[lanes[i].id] # s]_pipelineVars
=============================================================================
