---------------------------- MODULE Conversation ----------------------------
(***************************************************************************)
(* verifyEvents piped into defaultApplyEvents, as agent/agent.ts composes  *)
(* them, with the same stream recorded and compacted on the side: the      *)
(* compacted list is replayed into a second conversation as it grows.      *)
(*                                                                         *)
(* concatMap applies one event at a time, so an event is one step; the     *)
(* subscribers' answer to it is the step's hook.                           *)
(***************************************************************************)
EXTENDS EventVerifier, CompactEvents, FiniteSets

CONSTANTS
    Repertoires,   \* sets of events, payloads included; a producer has one
    Hooks,         \* how subscribers may answer besides "none"
    MaxEvents,     \* bound: events on the stream
    MaxHooks       \* bound: events that subscribers answer

MessageTypes ==
  TextTypes \cup ReasoningTypes \cup {"ACTIVITY_SNAPSHOT", "ACTIVITY_DELTA", "TOOL_CALL_RESULT"}
ToolCallTypes == {"TOOL_CALL_START", "TOOL_CALL_ARGS", "TOOL_CALL_END"}

(* What the schemas require of the events that reach the reducer.          *)
HasShape(e) ==
  /\ e.type \in MessageTypes \cup ToolCallTypes =>
       {"type", "subagentRunId", "meta"} \subseteq DOMAIN e /\ e.subagentRunId \in WireTags
  /\ e.type \in MessageTypes => "messageId" \in DOMAIN e /\ e.messageId \in Ids
  /\ e.type \in ToolCallTypes => "messageId" \notin DOMAIN e /\ "toolCallId" \in DOMAIN e
  /\ e.type \in ToolCallTypes \cup {"TOOL_CALL_RESULT"} => e.toolCallId \in Ids
  /\ e.type = "TOOL_CALL_START" => e.parentMessageId \in Ids \cup {Absent}
  /\ e.type \in {"TEXT_MESSAGE_CONTENT", "REASONING_MESSAGE_CONTENT", "TOOL_CALL_ARGS",
                 "ACTIVITY_SNAPSHOT", "ACTIVITY_DELTA"} => e.delta \in Seq(ToSet(e.delta))
  /\ e.type = "ACTIVITY_SNAPSHOT" => e.replace \in BOOLEAN
  /\ e.type \in {"RUN_STARTED", "MESSAGES_SNAPSHOT"} =>
       /\ e.messages \in Seq(Message)
       /\ \A i \in DOMAIN e.messages : IsFiniteSet(e.messages[i].toolCalls)

ASSUME RepertoiresType == \A R \in Repertoires : \A e \in R : HasShape(e)

(* The messages that an event may bring: id, role, and the call answered.  *)
Minted(e) ==
  CASE e.type = "TEXT_MESSAGE_START" -> {<<e.messageId, "assistant", Absent>>}
    [] e.type = "REASONING_MESSAGE_START" -> {<<e.messageId, "reasoning", Absent>>}
    [] e.type = "ACTIVITY_SNAPSHOT" -> {<<e.messageId, "activity", Absent>>}
    [] e.type = "TOOL_CALL_START" ->
         {<<id, "assistant", Absent>> : id \in {e.toolCallId, e.parentMessageId} \ {Absent}}
    [] e.type = "TOOL_CALL_RESULT" -> {<<e.messageId, "tool", e.toolCallId>>}
    [] e.type \in {"RUN_STARTED", "MESSAGES_SNAPSHOT"} ->
         {<<m.id, m.role, m.toolCallId>> : m \in ToSet(e.messages)}
    [] OTHER -> {}

(* "Message ids are unique across the conversation": the producer's part.  *)
(* An id stands for one message, whoever names it.                         *)
IdsAreUnique(R) ==
  /\ \A e, f \in R : \A x \in Minted(e), y \in Minted(f) : x[1] = y[1] => x = y
  /\ \A e \in R : e.type \in {"RUN_STARTED", "MESSAGES_SNAPSHOT"} =>
       \A i, j \in DOMAIN e.messages : e.messages[i].id = e.messages[j].id => i = j

VARIABLES
    repertoire,  \* the events that the producer sends
    conv,        \* the reducer's messages, state and tallies
    compactor,   \* what compactEvents holds back
    replayed,    \* the conversation that the compacted list gives so far
    calm,        \* history: replay is promised to agree (see below)
    hooked,      \* history: number of events that subscribers answered
    suppressed,  \* history: ids with an event that a subscriber stopped,
                 \* or whose message a snapshot has removed
    last,        \* history: the type of the last event
    steps        \* number of events so far

conversationVars == 
  <<repertoire, conv, compactor, replayed, calm, hooked, suppressed, last, steps>>
streamVars == <<vars, conversationVars>>

Replay(c, events) == FoldLeft(LAMBDA r, e : Reduce(r, e, "none"), c, events)

ConversationInit ==
  /\ Init
  /\ repertoire \in Repertoires
  /\ conv = EmptyConversation /\ replayed = EmptyConversation
  /\ compactor = EmptyCompactor
  /\ calm = TRUE /\ hooked = 0 /\ suppressed = {} /\ last = "" /\ steps = 0

OpenStreams == Cardinality(activeMessages) + Cardinality(activeToolCalls)

(* The documentation of compactEvents takes snapshots in the middle of a   *)
(* stream, and parallel streams, out of its promise; a stream that an      *)
(* error cut off is flushed out of its place too.                          *)
Disturbs(e) == e.type \in {"MESSAGES_SNAPSHOT", "RUN_ERROR"} /\ OpenStreams > 0

TargetOf(e) ==
  IF "messageId" \in DOMAIN e THEN {e.messageId}
  ELSE IF "toolCallId" \in DOMAIN e THEN {e.toolCallId} ELSE {}

MessageIds(messages) == {messages[i].id : i \in DOMAIN messages}

(* A snapshot and the bounds of a run are about every message.             *)
NamedBy(e) ==
  IF e.type \in {"RUN_STARTED", "RUN_FINISHED", "MESSAGES_SNAPSHOT"} THEN Ids ELSE TargetOf(e)

Receive(e, hook) ==
  LET taken == Take(compactor, e) IN
  /\ steps < MaxEvents
  /\ hook # "none" => hooked < MaxHooks
  /\ Accept(e)
  /\ conv' = Reduce(conv, e, hook)
  /\ compactor' = taken.next
  /\ replayed' = Replay(replayed, taken.out)
  /\ calm' = (calm /\ ~Disturbs(e) /\ OpenStreams' <= 1)
  /\ hooked' = IF hook = "none" THEN hooked ELSE hooked + 1
  /\ suppressed' = (IF e.type = "RUN_STARTED" THEN {} ELSE suppressed)
                     \cup (IF hook \in {"stop", "veto"} THEN NamedBy(e) ELSE {})
                     \cup (MessageIds(conv.messages) \ MessageIds(conv'.messages))
  /\ last' = e.type
  /\ UNCHANGED repertoire
  /\ steps' = steps + 1

ConversationNext == \E e \in repertoire, hook \in Hooks \cup {"none"} : Receive(e, hook)

ConversationSpec == ConversationInit /\ [][ConversationNext]_streamVars

-----------------------------------------------------------------------------
KindOfMessage(m) == IF m.role \in {"reasoning", "activity"} THEN m.role ELSE "message"

(* A producer with events R opens reasoning span id for this owner.        *)
Spanned(R, id, owner) ==
  \E e \in R : e.type = "REASONING_START" /\ e.messageId = id /\ OwnerOf(e) = owner

(* The reducer and the verifier keep separate records of who owns what.    *)
(* For every message that an event of this run opened or restated, the     *)
(* owner that the application sees is the one that continuations are       *)
(* checked against.  Of results, only where no second one was sent under   *)
(* their id.  One difference the verifier lets pass: an untagged message   *)
(* in a reasoning span that a subagent opened.  Nothing is said of a       *)
(* message that TOOL_CALL_START made, which the verifier does not record,  *)
(* not even after TEXT_MESSAGE_START has opened it.                        *)
OwnersAgree ==
  \A i \in DOMAIN conv.messages :
    LET m == conv.messages[i]
        recorded == owners[KindOfMessage(m)][m.id]
    IN /\ m.by \in {"opener", "history"} /\ m.id \notin suppressed
       /\ m.role = "tool" => \A j \in DOMAIN conv.messages \ {i} : conv.messages[j].id # m.id
       => \/ recorded = m.owner
          \/ m.role = "reasoning" /\ m.owner = Absent /\ Spanned(repertoire, m.id, recorded)

(* Where the list holds a call: the message and the place among its calls. *)
Places(messages, call) ==
  UNION {{<<i, j>> : j \in {k \in DOMAIN messages[i].calls : messages[i].calls[k].id = call}}
           : i \in DOMAIN messages}
Times(messages, call) == Cardinality(Places(messages, call))

Restates == last' \in {"RUN_STARTED", "MESSAGES_SNAPSHOT"}

(* However often a start is replayed, in this run or in a later one, and   *)
(* whatever parent it names, a call that the conversation holds is not     *)
(* added a second time.                                                    *)
CallsNotDoubled ==
  [][~Restates => \A c \in Ids : Times(conv.messages', c) <=
                     IF Times(conv.messages, c) = 0 THEN 1 ELSE Times(conv.messages, c)
    ]_streamVars

(* Between an assistant message and the results of its calls there are     *)
(* only other results.                                                     *)
ResultsAdjacent(messages) ==
  \A j \in DOMAIN messages :
    LET i == FindHolder(messages, messages[j].answers)
    IN messages[j].answers # Absent /\ i > 0 /\ i < j
         => \A k \in i + 1 .. j - 1 : messages[k].role = "tool"
Orphaned(messages) ==
  \E j \in DOMAIN messages :
    messages[j].answers # Absent /\ FindHolder(messages, messages[j].answers) = 0

(* The provider's contract: whatever is streamed between a call and its    *)
(* result, or between the results of parallel calls, no event of a run     *)
(* separates them, unless a result came before the start of its call.      *)
ResultsFollowTheirCalls ==
  [][ResultsAdjacent(conv.messages) /\ ~Restates /\ ~Orphaned(conv.messages)
       => ResultsAdjacent(conv.messages')]_streamVars

AnsweredIn(messages, call, by) ==
  \E i \in DOMAIN messages : messages[i].answers = call /\ messages[i].by \in by

(* The calls that RUN_FINISHED reports as pending, of those the run        *)
(* started, got no result in the run; and for every other one the          *)
(* conversation shows the result, as it arrived or as a snapshot restated  *)
(* it.                                                                     *)
PendingAreUnanswered ==
  last = "RUN_FINISHED" /\ suppressed = {} =>
    \A c \in conv.started :
      /\ c \in conv.reported => ~AnsweredIn(conv.messages, c, {"opener"})
      /\ c \notin conv.reported => AnsweredIn(conv.messages, c, {"opener", "history"})

Contents(messages) == [i \in DOMAIN messages |-> [messages[i] EXCEPT !.by = "opener"]]

(* Storing a stream compacted and replaying it gives the application the   *)
(* same conversation, message by message, with its order, owners, metadata *)
(* and calls, when streams do not overlap; and always the same state.      *)
ReplayAgrees ==
  LET final == Replay(replayed, Remaining(compactor)) IN
  hooked = 0 =>
    /\ final.state = conv.state
    /\ calm => Contents(final.messages) = Contents(conv.messages)

(* "ACTIVITY_SNAPSHOT creates or replaces one activity message": whatever  *)
(* list the subscribers hand back, an event about one message leaves every *)
(* other message of that list as it is.                                    *)
OnlyTheTargetChanges ==
  [][\A e \in repertoire, hook \in Hooks \cup {"none"} :
       Receive(e, hook) /\ ~Restates =>
         \A m \in ToSet(Hooked(conv.messages, hook)) :
           m.id \notin TargetOf(e) /\ m.calls = <<>> => m \in ToSet(conv.messages')
    ]_streamVars
=============================================================================
