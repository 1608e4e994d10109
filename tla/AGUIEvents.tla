----------------------------- MODULE AGUIEvents -----------------------------
(***************************************************************************)
(* The vocabulary of the AG-UI event stream, as far as the client pipeline *)
(* (chunks/transform.ts, verify/verify.ts, apply/default.ts) tells events  *)
(* apart.  Identifiers are opaque; payloads (text deltas, arguments, state *)
(* documents, timestamps) are left out.                                    *)
(*                                                                         *)
(* An optional field that is not on the event is Absent.  An event whose   *)
(* subagentRunId is Absent comes from the parent agent.  Null is the JSON  *)
(* null that in-process producers can put where the schemas want a string. *)
(***************************************************************************)
EXTENDS Sequences

CONSTANTS
    Ids,          \* message, tool call, activity and reasoning ids
    SubagentIds,  \* values of subagentRunId
    StepNames,    \* values of stepName
    Absent,       \* an optional field that was not sent (undefined)
    Null,         \* an optional field sent as null
    Histories,    \* message lists carried by snapshots and input echoes
    Types         \* the event types that the producers of an instance send

(* Who an event may be attributed to: a subagent or (Absent) the parent.   *)
Tags == SubagentIds \cup {Absent}

(* What the subagentRunId field may hold before the verifier normalises it *)
WireTags == Tags \cup {Null}

(* A message of a snapshot or of an input echo.  Only an assistant has     *)
(* tool calls, and a tool message names the call that it answers.          *)
Message ==
  {m \in [id : Ids, role : {"assistant", "tool", "reasoning", "activity"},
          subagentRunId : WireTags, toolCalls : SUBSET Ids, toolCallId : Ids \cup {Absent}] :
     /\ m.role = "assistant" \/ m.toolCalls = {}
     /\ m.role = "tool" <=> m.toolCallId # Absent}

ASSUME AbsentIsNoSubagent == Absent \notin SubagentIds /\ Absent \notin Ids
ASSUME NullIsNoTag == Null \notin Tags
ASSUME HistoriesType == Histories \subseteq Seq(Message)

TextTypes == {"TEXT_MESSAGE_START", "TEXT_MESSAGE_CONTENT", "TEXT_MESSAGE_END"}
ReasoningTypes ==
  {"REASONING_START", "REASONING_MESSAGE_START", "REASONING_MESSAGE_CONTENT",
   "REASONING_MESSAGE_END", "REASONING_END"}
SubagentTypes == {"SUBAGENT_STARTED", "SUBAGENT_FINISHED", "SUBAGENT_ERROR"}

MessageEvent ==
  [type : TextTypes \cup ReasoningTypes \cup {"ACTIVITY_DELTA", "TOOL_CALL_RESULT"},
   messageId : Ids, subagentRunId : WireTags]
ToolCallStartEvent ==
  [type : {"TOOL_CALL_START"}, toolCallId : Ids,
   parentMessageId : Ids \cup {Absent}, subagentRunId : WireTags]
ToolCallEvent ==
  [type : {"TOOL_CALL_ARGS", "TOOL_CALL_END"}, toolCallId : Ids,
   subagentRunId : WireTags]
StepEvent ==
  [type : {"STEP_STARTED", "STEP_FINISHED"}, stepName : StepNames,
   subagentRunId : WireTags]
ActivitySnapshotEvent ==
  [type : {"ACTIVITY_SNAPSHOT"}, messageId : Ids, replace : BOOLEAN,
   subagentRunId : WireTags]
EncryptedEvent ==
  [type : {"REASONING_ENCRYPTED_VALUE"}, entityId : Ids,
   subtype : {"tool-call", "message"}, subagentRunId : WireTags]

(* The lifecycle events of subagents carry required strings and optionals  *)
(* that must not be null; wellFormed says whether this event's are in      *)
(* order.                                                                  *)
SubagentEvent ==
  [type : SubagentTypes, subagentRunId : SubagentIds,
   parentSubagentRunId : Tags, wellFormed : BOOLEAN]

(* Run events.  wellFormed is FALSE for a RUN_FINISHED with a null owner   *)
(* on one of its interrupts.                                               *)
RunEvent ==
  [type : {"RUN_STARTED", "MESSAGES_SNAPSHOT"}, messages : Histories]
  \cup [type : {"RUN_FINISHED"}, wellFormed : BOOLEAN]
  \cup [type : {"RUN_ERROR"}]

(* Events the verifier only passes on: STATE_*, CUSTOM, RAW.               *)
OtherEvent == [type : {"STATE_SNAPSHOT", "STATE_DELTA", "CUSTOM", "RAW"},
               subagentRunId : WireTags]

EveryEvent ==
  MessageEvent \cup ToolCallStartEvent \cup ToolCallEvent \cup StepEvent
    \cup ActivitySnapshotEvent \cup EncryptedEvent \cup SubagentEvent
    \cup RunEvent \cup OtherEvent

Event == {e \in EveryEvent : e.type \in Types}
=============================================================================
