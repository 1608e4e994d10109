--------------------------- MODULE MCChunkPipeline ---------------------------
(* Instances of ChunkPipeline for TLC.  Producers send their streams as    *)
(* chunks; every class of other event that bears on the lanes is present.  *)
EXTENDS ChunkPipeline

CONSTANTS x, s1, s2

Msg(id, role, tag, calls) ==
  [id |-> id, role |-> role, subagentRunId |-> tag, toolCalls |-> calls,
   toolCallId |-> Absent]

SomeHistories == { << >>, << Msg(x, "assistant", s1, {x}) >> }

RunTypes == {"RUN_STARTED", "RUN_FINISHED", "RUN_ERROR"}

(* Every kind of stream: tool calls inside messages, reasoning, and        *)
(* snapshots that restate the conversation.                                *)
AllChunkTypes ==
  RunTypes \cup SubagentTypes \cup
    {"TEXT_MESSAGE_CHUNK", "TOOL_CALL_CHUNK", "REASONING_MESSAGE_CHUNK",
     "MESSAGES_SNAPSHOT", "CUSTOM", "RAW"}

(* Bound: the second subagent starts after the first, sends nothing before *)
(* it starts, and nobody reasons while there are two.                      *)
SecondIsLater ==
  IF s2 \in activeSubagents \cup closedSubagents
    THEN s1 \in activeSubagents \cup closedSubagents /\ owners.reasoning[x] = Unowned
    ELSE /\ \A kind \in Kinds : owners[kind][x] # s2
         /\ \A i \in DOMAIN lanes : lanes[i].lane # s2
=============================================================================
