--------------------------- MODULE MCConversation ---------------------------
(* Instances of Conversation for TLC: two text messages, a tool call with  *)
(* a result, an activity and a reasoning message, each with an id of its   *)
(* own, by the parent or one subagent, which may contradict each other.    *)
EXTENDS Conversation

CONSTANTS m1, m2, c1, t1, a1, r1, s1

Streamed(type, id, delta, meta) ==
  [type |-> type, messageId |-> id, subagentRunId |-> Absent, delta |-> delta, meta |-> meta]
Opened(type, id, tag, meta) ==
  [type |-> type, messageId |-> id, subagentRunId |-> tag, meta |-> meta]
Call(type, delta, meta) ==
  [type |-> type, toolCallId |-> c1, subagentRunId |-> Absent, delta |-> delta, meta |-> meta]
Started(parent, tag) ==
  [type |-> "TOOL_CALL_START", toolCallId |-> c1, parentMessageId |-> parent,
   subagentRunId |-> tag, meta |-> Absent]
Activity(tag, replace, delta) ==
  [type |-> "ACTIVITY_SNAPSHOT", messageId |-> a1, subagentRunId |-> tag,
   replace |-> replace, delta |-> delta, meta |-> Absent]
Msg(id, role, tag, calls, answers) ==
  [id |-> id, role |-> role, subagentRunId |-> tag, toolCalls |-> calls,
   toolCallId |-> answers]

SomeHistories ==
  { << >>, << Msg(m1, "assistant", s1, {c1}, Absent), Msg(m2, "assistant", Absent, {}, Absent) >> }

RunEvents ==
  { [type |-> "RUN_STARTED", messages |-> h] : h \in SomeHistories }
  \cup { [type |-> "RUN_FINISHED", wellFormed |-> TRUE] }

TextEvents ==
  { Opened("TEXT_MESSAGE_START", m1, s1, "meta1"), Opened("TEXT_MESSAGE_START", m1, Absent, Absent),
    Streamed("TEXT_MESSAGE_CONTENT", m1, <<"a">>, "meta2"),
    Streamed("TEXT_MESSAGE_END", m1, <<>>, Absent) }

ToolEvents(parent) ==
  { Started(Absent, Absent), Started(parent, s1),
    Call("TOOL_CALL_ARGS", <<"b">>, "meta3"), Call("TOOL_CALL_END", <<>>, Absent),
    [type |-> "TOOL_CALL_RESULT", messageId |-> t1, toolCallId |-> c1,
     subagentRunId |-> s1, meta |-> Absent] }

ActivityEvents ==
  { Activity(Absent, TRUE, <<"x">>), Activity(s1, TRUE, <<>>), Activity(s1, FALSE, <<"y">>),
    Streamed("ACTIVITY_DELTA", a1, <<"z">>, "meta4") }

ReasoningEvents ==
  { Opened("REASONING_START", r1, s1, Absent), Opened("REASONING_START", r1, Absent, Absent),
    Opened("REASONING_MESSAGE_START", r1, s1, Absent),
    Opened("REASONING_MESSAGE_START", r1, Absent, Absent),
    Streamed("REASONING_MESSAGE_CONTENT", r1, <<"c">>, Absent),
    Streamed("REASONING_MESSAGE_END", r1, <<>>, Absent) }

Sealing ==
  { [type |-> "REASONING_ENCRYPTED_VALUE", entityId |-> id, subtype |-> kind,
     subagentRunId |-> Absent] : <<id, kind>> \in {<<c1, "tool-call">>, <<m1, "message">>} }

StateEvents ==
  { [type |-> "STATE_SNAPSHOT", subagentRunId |-> Absent, snapshot |-> {"p"}],
    [type |-> "STATE_DELTA", subagentRunId |-> Absent, patch |-> [op |-> "add", member |-> "q"]],
    [type |-> "STATE_DELTA", subagentRunId |-> Absent, patch |-> [op |-> "remove", member |-> "p"]] }

Snapshot ==
  [type |-> "MESSAGES_SNAPSHOT",
   messages |-> << Msg(m2, "assistant", s1, {c1}, Absent), Msg(t1, "tool", Absent, {}, c1),
                   Msg(r1, "reasoning", Absent, {}, Absent) >>]

(* A chat that shows activities; one that calls tools and talks meanwhile, *)
(* in a message that a call has made too; one that reasons and is          *)
(* restated; one that patches the state and fails.                         *)
SomeRepertoires ==
  { RunEvents \cup TextEvents \cup ActivityEvents,
    RunEvents \cup TextEvents \cup ToolEvents(m1),
    RunEvents \cup ReasoningEvents \cup ToolEvents(m2) \cup Sealing \cup {Snapshot},
    RunEvents \cup TextEvents \cup StateEvents
      \cup { [type |-> "RUN_ERROR"], [type |-> "CUSTOM", subagentRunId |-> Absent] } }

ASSUME SomeIdsAreUnique == \A R \in SomeRepertoires : IdsAreUnique(R)

(* What it takes for a hook to move messages under an activity's feet.     *)
ActivityRepertoire == { RunEvents \cup TextEvents \cup ActivityEvents }
=============================================================================
