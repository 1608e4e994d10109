------------------------------- MODULE Reducer -------------------------------
(***************************************************************************)
(* defaultApplyEvents (client/src/apply/default.ts) as functions on the    *)
(* conversation: what each case of its switch does to the list of messages *)
(* and to the state document once the subscribers have had their say.      *)
(*                                                                         *)
(* A message's content and a call's arguments are the sequence of the      *)
(* deltas they were built from; `meta` is the value of one metadata key;   *)
(* the state document is the set of its members.  `by` records, for the    *)
(* properties only, what kind of event made the message.                   *)
(***************************************************************************)
EXTENDS AGUIEvents, Integers, SequencesExt

OwnerOf(e) == IF e.subagentRunId = Null THEN Absent ELSE e.subagentRunId

(* mergeMetadata of one key: the last write wins.                          *)
MergeMeta(old, new) == IF new = Absent THEN old ELSE new

NewMessage(id, role, owner, meta, by) ==
  [id |-> id, role |-> role, owner |-> owner, content |-> <<>>, calls |-> <<>>,
   answers |-> Absent, meta |-> meta, sealed |-> FALSE, by |-> by]

NewCall(id, meta) == [id |-> id, args |-> <<>>, meta |-> meta, sealed |-> FALSE]

(* messages.find: the index of the first match, 0 if there is none.        *)
Find(messages, id) == SelectInSeq(messages, LAMBDA m : m.id = id)
CallAt(m, call) == SelectInSeq(m.calls, LAMBDA tc : tc.id = call)
FindHolder(messages, call) == SelectInSeq(messages, LAMBDA m : CallAt(m, call) > 0)
FindCaller(messages, call) ==
  SelectInSeq(messages, LAMBDA m : m.role = "assistant" /\ CallAt(m, call) > 0)

-----------------------------------------------------------------------------
(* TEXT_MESSAGE_START and REASONING_MESSAGE_START: an existing message of  *)
(* the id is streamed into, unless it is an activity.                      *)
OpenMessage(messages, e, role) ==
  LET i == Find(messages, e.messageId) IN
  IF i = 0
    THEN Append(messages, NewMessage(e.messageId, role, OwnerOf(e), e.meta, "opener"))
  ELSE IF messages[i].role = "activity" THEN messages
  ELSE [messages EXCEPT ![i].meta = MergeMeta(@, e.meta)]

(* The handlers that looked their target up before the subscribers ran     *)
(* write to what they found: `i` is that index, 0 when there was nothing   *)
(* to write to or the subscribers have replaced the list meanwhile.        *)
AppendContent(messages, i, e) ==
  IF i = 0 \/ messages[i].role = "activity" THEN messages
  ELSE [messages EXCEPT ![i].content = @ \o e.delta, ![i].meta = MergeMeta(@, e.meta)]

CloseMessage(messages, i, e) ==
  IF i = 0 \/ messages[i].role = "activity" THEN messages
  ELSE [messages EXCEPT ![i].meta = MergeMeta(@, e.meta)]

AppendArgs(messages, i, e) ==
  IF i = 0 THEN messages
  ELSE LET j == CallAt(messages[i], e.toolCallId)
           call == messages[i].calls[j]
       IN [messages EXCEPT ![i].calls[j] =
             [call EXCEPT !.args = @ \o e.delta, !.meta = MergeMeta(@, e.meta)]]

CloseToolCall(messages, i, e) ==
  IF i = 0 THEN messages
  ELSE LET j == CallAt(messages[i], e.toolCallId)
       IN [messages EXCEPT ![i].calls[j].meta = MergeMeta(@, e.meta)]

(* resolveOrCreateAssistantMessage: the message list, made to hold the     *)
(* message for the call, and that message's index.                         *)
ResolveAssistant(messages, e) ==
  LET i == IF e.parentMessageId = Absent THEN 0 ELSE Find(messages, e.parentMessageId)
      taken == i > 0 /\ messages[i].role # "assistant"
      id == IF e.parentMessageId = Absent \/ taken THEN e.toolCallId ELSE e.parentMessageId
  IN IF i > 0 /\ ~taken THEN [list |-> messages, at |-> i]
     ELSE [list |-> Append(messages, NewMessage(id, "assistant",
                      IF Find(messages, id) = 0 THEN OwnerOf(e) ELSE Absent, Absent, "call")),
           at |-> Len(messages) + 1]

(* Mutant: a replayed start appends the call again.                        *)
OpenToolCallAgain(messages, e) ==
  LET r == ResolveAssistant(messages, e)
  IN [r.list EXCEPT ![r.at].calls =
        Append(@, NewCall(e.toolCallId, e.meta))]

(* TOOL_CALL_START is idempotent: a call that is there already is updated. *)
OpenToolCall(messages, e) ==
  LET held == FindHolder(messages, e.toolCallId)
      r == ResolveAssistant(messages, e)
  IN IF held > 0
       THEN [messages EXCEPT ![held].calls[CallAt(messages[held], e.toolCallId)].meta =
               MergeMeta(@, e.meta)]
       ELSE [r.list EXCEPT ![r.at].calls =
               Append(@, NewCall(e.toolCallId, e.meta))]

(* Mutant: the result is appended.                                         *)
AddResultLast(messages, e) ==
  Append(messages, [NewMessage(e.messageId, "tool", OwnerOf(e), e.meta, "opener")
                      EXCEPT !.answers = e.toolCallId])

(* TOOL_CALL_RESULT goes behind the assistant message that made the call   *)
(* and the results already there, or to the end if nobody holds the call.  *)
AddResult(messages, e) ==
  LET result == [NewMessage(e.messageId, "tool", OwnerOf(e), e.meta, "opener")
                   EXCEPT !.answers = e.toolCallId]
      holder == FindCaller(messages, e.toolCallId)
      behind == {i \in holder + 1 .. Len(messages) + 1 :
                   \A k \in holder + 1 .. i - 1 : messages[k].role = "tool"}
      at == CHOOSE i \in behind : \A j \in behind : j <= i
  IN IF holder = 0 THEN Append(messages, result) ELSE InsertAt(messages, at, result)

-----------------------------------------------------------------------------
(* A message of a snapshot or an echo, a null owner read as absent.        *)
Imported(m) ==
  [NewMessage(m.id, m.role, OwnerOf(m), Absent, "history")
     EXCEPT !.answers = m.toolCallId,
            !.calls = LET ids == SetToSeq(m.toolCalls)
                      IN [i \in DOMAIN ids |-> NewCall(ids[i], Absent)]]

(* The elements of a list at the given positions, in their order.          *)
ElementsAt(list, positions) ==
  LET taken[n \in 0..Len(list)] ==
        IF n = 0 THEN <<>>
        ELSE IF n \in positions THEN Append(taken[n - 1], list[n])
        ELSE taken[n - 1]
  IN taken[Len(list)]

(* MESSAGES_SNAPSHOT: messages of the same id are replaced in place, the   *)
(* rest of the list goes (activities and reasoning only when the snapshot  *)
(* has some of its own), new messages follow.  Without activityTypes.      *)
MergeSnapshot(messages, snapshot) ==
  LET new == [i \in DOMAIN snapshot |-> Imported(snapshot[i])]
      Named(id) == \E i \in DOMAIN new : new[i].id = id
      LastOf(id) == CHOOSE i \in DOMAIN new : new[i].id = id
                      /\ \A j \in DOMAIN new : new[j].id = id => j <= i
      Has(role) == \E i \in DOMAIN new : new[i].role = role
      ClientOnly(m) == m.role \in {"activity", "reasoning"} /\ ~Has(m.role)
      kept == ElementsAt(messages, {i \in DOMAIN messages : Named(messages[i].id)
                                                              \/ ClientOnly(messages[i])})
  IN [i \in DOMAIN kept |-> IF Named(kept[i].id) THEN new[LastOf(kept[i].id)] ELSE kept[i]]
       \o ElementsAt(new, {i \in DOMAIN new : Find(kept, new[i].id) = 0})

(* RUN_STARTED: the messages of the echoed input that are not there yet.   *)
AddEcho(messages, echo) ==
  LET added[n \in 0..Len(echo)] ==
        IF n = 0 THEN messages
        ELSE IF Find(added[n - 1], echo[n].id) = 0
          THEN Append(added[n - 1], Imported(echo[n]))
        ELSE added[n - 1]
  IN added[Len(echo)]

-----------------------------------------------------------------------------
(* Array assignment at an index that was valid before the subscribers ran. *)
WriteAt(messages, i, m) ==
  IF i > Len(messages) THEN Append(messages, m) ELSE [messages EXCEPT ![i] = m]

MergeMetaAt(messages, i, meta) ==
  IF i \in DOMAIN messages THEN [messages EXCEPT ![i].meta = MergeMeta(@, meta)] ELSE messages

(* ACTIVITY_SNAPSHOT: the index and the message it found are those of      *)
(* `before`, the list the subscribers were given; the writes go to         *)
(* `messages`, the list they left.                                         *)
ApplyActivitySnapshot(messages, before, e) ==
  LET i == Find(before, e.messageId)
      activity == [NewMessage(e.messageId, "activity", OwnerOf(e), Absent, "opener")
                     EXCEPT !.content = e.delta]
      replaced == [before[i] EXCEPT !.content = e.delta, !.owner = OwnerOf(e), !.by = "opener"]
  IN IF i = 0
       THEN Append(messages, [activity EXCEPT !.meta = e.meta])
     ELSE IF before[i].role = "activity"
       THEN MergeMetaAt(IF e.replace THEN WriteAt(messages, i, replaced) ELSE messages,
                        i, e.meta)
     ELSE IF e.replace THEN WriteAt(messages, i, [activity EXCEPT !.meta = e.meta])
     ELSE messages

(* ACTIVITY_DELTA: metadata is kept although the patch fails, as one does  *)
(* that refers to content the activity does not have.                      *)
ApplyActivityDelta(messages, before, e) ==
  LET i == Find(before, e.messageId)
      found == [before[i] EXCEPT !.meta = MergeMeta(@, e.meta)]
  IN IF i = 0 \/ before[i].role # "activity" THEN messages
     ELSE IF found.content # <<>>
       THEN WriteAt(messages, i, [found EXCEPT !.content = @ \o e.delta])
     ELSE IF messages = before THEN [messages EXCEPT ![i] = found]
     ELSE messages

(* REASONING_ENCRYPTED_VALUE on a call or on a message.                    *)
Seal(messages, e) ==
  LET holder == FindCaller(messages, e.entityId)
      i == Find(messages, e.entityId)
  IN IF e.subtype = "tool-call"
       THEN IF holder = 0 THEN messages
            ELSE [messages EXCEPT ![holder].calls[CallAt(messages[holder], e.entityId)].sealed = TRUE]
     ELSE IF i = 0 \/ messages[i].role = "activity" THEN messages
     ELSE [messages EXCEPT ![i].sealed = TRUE]

(* applyPatch with validation: the removal of a member that is not there   *)
(* throws, the handler warns and the document stays as it is.              *)
Patch(document, patch) ==
  IF patch.op = "add" THEN document \cup {patch.member} ELSE document \ {patch.member}

-----------------------------------------------------------------------------
(* One event on a conversation.  A hook is what the subscribers answer to  *)
(* the event: nothing; stopPropagation, from onEvent ("veto") or from the  *)
(* event's own hook ("stop"); or, from its own hook, another list of       *)
(* messages, here the list without its first message ("drop").  What       *)
(* onEvent puts in place of the list is there before anything is looked    *)
(* up, so it is no different from a list that was there before.            *)
EmptyConversation ==
  [messages |-> <<>>, state |-> {}, started |-> {}, answered |-> {}, reported |-> {}]

Hooked(messages, hook) ==
  IF hook = "drop" /\ messages # <<>> THEN Tail(messages) ELSE messages

(* The target that a handler found in `before` is out of reach once the    *)
(* subscribers have returned a list of their own, cloned message by        *)
(* message.                                                                *)
Reachable(i, before, after) == IF before = after THEN i ELSE 0

WithEffect(before, list, e) ==
  LET target == Reachable(Find(before, e.messageId), before, list)
      holder == Reachable(FindHolder(before, e.toolCallId), before, list)
  IN CASE e.type = "TEXT_MESSAGE_START" -> OpenMessage(list, e, "assistant")
       [] e.type = "REASONING_MESSAGE_START" -> OpenMessage(list, e, "reasoning")
       [] e.type \in {"TEXT_MESSAGE_CONTENT", "REASONING_MESSAGE_CONTENT"} ->
            AppendContent(list, target, e)
       [] e.type \in {"TEXT_MESSAGE_END", "REASONING_MESSAGE_END"} ->
            CloseMessage(list, target, e)
       [] e.type = "TOOL_CALL_START" -> OpenToolCall(list, e)
       [] e.type = "TOOL_CALL_ARGS" -> AppendArgs(list, holder, e)
       [] e.type = "TOOL_CALL_END" -> CloseToolCall(list, holder, e)
       [] e.type = "TOOL_CALL_RESULT" -> AddResult(list, e)
       [] e.type = "MESSAGES_SNAPSHOT" -> MergeSnapshot(list, e.messages)
       [] e.type = "ACTIVITY_SNAPSHOT" -> ApplyActivitySnapshot(list, before, e)
       [] e.type = "ACTIVITY_DELTA" -> ApplyActivityDelta(list, before, e)
       [] e.type = "REASONING_ENCRYPTED_VALUE" -> Seal(list, e)
       [] e.type = "RUN_STARTED" -> AddEcho(list, e.messages)
       [] OTHER -> list

(* A continuation whose target is missing, or is an activity, returns      *)
(* before any subscriber is asked.                                         *)
Skipped(messages, e) ==
  \/ /\ e.type \in {"TEXT_MESSAGE_CONTENT", "TEXT_MESSAGE_END",
                     "REASONING_MESSAGE_CONTENT", "REASONING_MESSAGE_END"}
     /\ LET i == Find(messages, e.messageId) IN i = 0 \/ messages[i].role = "activity"
  \/ /\ e.type \in {"TOOL_CALL_ARGS", "TOOL_CALL_END"}
     /\ FindHolder(messages, e.toolCallId) = 0
  \/ /\ e.type = "ACTIVITY_DELTA"
     /\ LET i == Find(messages, e.messageId) IN i = 0 \/ messages[i].role # "activity"

(* For the properties: what was there before this run.                     *)
Aged(messages) == [i \in DOMAIN messages |-> [messages[i] EXCEPT !.by = "earlier"]]

(* Mutant: a result is tallied under its own id.                           *)
TallyByMessage(conv, e, runs) ==
  CASE e.type = "RUN_STARTED" -> [conv EXCEPT !.started = {}, !.answered = {}]
    [] runs /\ e.type = "TOOL_CALL_START" -> [conv EXCEPT !.started = @ \cup {e.toolCallId}]
    [] runs /\ e.type = "TOOL_CALL_RESULT" -> [conv EXCEPT !.answered = @ \cup {e.messageId}]
    [] e.type = "RUN_FINISHED" -> [conv EXCEPT !.reported = conv.started \ conv.answered]
    [] OTHER -> conv

(* runToolCallIds, answeredToolCallIds, and what a successful RUN_FINISHED *)
(* that names no pending calls tells its subscribers.                      *)
Tally(conv, e, runs) ==
  CASE e.type = "RUN_STARTED" -> [conv EXCEPT !.started = {}, !.answered = {}]
    [] runs /\ e.type = "TOOL_CALL_START" -> [conv EXCEPT !.started = @ \cup {e.toolCallId}]
    [] runs /\ e.type = "TOOL_CALL_RESULT" -> [conv EXCEPT !.answered = @ \cup {e.toolCallId}]
    [] e.type = "RUN_FINISHED" -> [conv EXCEPT !.reported = conv.started \ conv.answered]
    [] OTHER -> conv

Reduce(conv, e, hook) ==
  LET before == IF e.type = "RUN_STARTED" THEN Aged(conv.messages) ELSE conv.messages
      list == IF Skipped(before, e) THEN before ELSE Hooked(before, hook)
      runs == hook # "stop"
  IN IF hook = "veto" THEN [conv EXCEPT !.messages = before]
     ELSE [Tally(conv, e, runs) EXCEPT
             !.messages = IF runs THEN WithEffect(before, list, e) ELSE list,
             !.state = CASE runs /\ e.type = "STATE_SNAPSHOT" -> e.snapshot
                         [] runs /\ e.type = "STATE_DELTA" -> Patch(@, e.patch)
                         [] OTHER -> @]
=============================================================================
