---------------------------- MODULE CompactEvents ----------------------------
(***************************************************************************)
(* compactEvents (client/src/compact/compact.ts) as functions: one         *)
(* iteration of its loop takes an event and adds to the compacted list, so *)
(* compaction can be followed event by event.                              *)
(*                                                                         *)
(* A stream is what is pending of one text message or one tool call; both  *)
(* Maps are kept in insertion order.                                       *)
(***************************************************************************)
EXTENDS Reducer

EmptyCompactor == [text |-> <<>>, tool |-> <<>>, state |-> <<>>]

TextStreamTypes == {"TEXT_MESSAGE_START", "TEXT_MESSAGE_CONTENT", "TEXT_MESSAGE_END"}
ToolStreamTypes == {"TOOL_CALL_START", "TOOL_CALL_ARGS", "TOOL_CALL_END"}
StateTypes == {"STATE_SNAPSHOT", "STATE_DELTA"}
BoundaryTypes == {"RUN_STARTED", "RUN_FINISHED", "RUN_ERROR"}

StreamKind(e) == IF e.type \in TextStreamTypes THEN "text" ELSE "tool"
StreamId(e) == IF e.type \in TextStreamTypes THEN e.messageId ELSE e.toolCallId

NewStream(id) ==
  [id |-> id, start |-> <<>>, contents |-> <<>>, meta |-> Absent, others |-> <<>>]

(* All the deltas of a stream as one event; it carries no subagentRunId.   *)
Collapsed(kind, stream) ==
  LET delta == FlattenSeq([i \in DOMAIN stream.contents |-> stream.contents[i].delta])
  IN IF kind = "text"
       THEN [type |-> "TEXT_MESSAGE_CONTENT", messageId |-> stream.id,
             subagentRunId |-> Absent, delta |-> delta, meta |-> stream.meta]
       ELSE [type |-> "TOOL_CALL_ARGS", toolCallId |-> stream.id,
             subagentRunId |-> Absent, delta |-> delta, meta |-> stream.meta]

(* flushTextMessage, flushToolCall: what interrupted the stream comes      *)
(* behind it.                                                              *)
Flushed(kind, stream, end) ==
  stream.start
    \o (IF stream.contents = <<>> THEN <<>> ELSE <<Collapsed(kind, stream)>>)
    \o end \o stream.others

(* Mutant: a window of deltas becomes a snapshot of its own.               *)
FlushedStateAlways(events) ==
  IF events = <<>> THEN <<>>
  ELSE <<[type |-> "STATE_SNAPSHOT", subagentRunId |-> Absent,
          snapshot |-> FoldLeft(LAMBDA doc, e : IF e.type = "STATE_SNAPSHOT" THEN e.snapshot
                                                ELSE Patch(doc, e.patch), {}, events)]>>

(* flushState: a window with a snapshot in it becomes one snapshot, folded *)
(* from the last one on; deltas alone pass unchanged.                      *)
FlushedState(events) ==
  LET at == SelectLastInSeq(events, LAMBDA e : e.type = "STATE_SNAPSHOT")
      document == FoldLeft(LAMBDA doc, e : Patch(doc, e.patch), events[at].snapshot,
                           SubSeq(events, at + 1, Len(events)))
  IN IF at = 0 THEN events
     ELSE <<[type |-> "STATE_SNAPSHOT", subagentRunId |-> Absent, snapshot |-> document]>>

-----------------------------------------------------------------------------
(* carryStartMetadata and replaceStartFields: a start that is replayed     *)
(* keeps its fields; its metadata joins the start's, or after deltas that  *)
(* of the deltas.                                                          *)
WithStart(stream, e) ==
  LET earlier == IF stream.start = <<>> THEN Absent ELSE stream.start[1].meta
  IN IF stream.contents = <<>>
       THEN [stream EXCEPT !.start = <<[e EXCEPT !.meta = MergeMeta(earlier, @)]>>]
       ELSE [stream EXCEPT !.start = <<[e EXCEPT !.meta = earlier]>>,
                           !.meta = MergeMeta(@, e.meta)]

WithContent(stream, e) ==
  [stream EXCEPT !.contents = Append(@, e), !.meta = MergeMeta(@, e.meta)]

(* The loop body.  Answers the compactor and what it added to the list.    *)
TakeStreamed(c, e) ==
  LET kind == StreamKind(e)
      found == SelectInSeq(c[kind], LAMBDA s : s.id = StreamId(e))
      at == IF found = 0 THEN Len(c[kind]) + 1 ELSE found
      pending == IF found = 0 THEN Append(c[kind], NewStream(StreamId(e))) ELSE c[kind]
  IN CASE e.type \in {"TEXT_MESSAGE_START", "TOOL_CALL_START"} ->
            [next |-> [c EXCEPT ![kind] = [pending EXCEPT ![at] = WithStart(@, e)]],
             out |-> <<>>]
       [] e.type \in {"TEXT_MESSAGE_CONTENT", "TOOL_CALL_ARGS"} ->
            [next |-> [c EXCEPT ![kind] = [pending EXCEPT ![at] = WithContent(@, e)]],
             out |-> <<>>]
       [] OTHER -> [next |-> [c EXCEPT ![kind] = RemoveAt(pending, at)],
                    out |-> Flushed(kind, pending[at], <<e>>)]

(* Any other event waits behind the first stream that has started, text    *)
(* streams before tool calls.                                              *)
TakeOther(c, e) ==
  LET Started(s) == s.start # <<>>
      t == SelectInSeq(c.text, Started)
      k == SelectInSeq(c.tool, Started)
  IN CASE t > 0 -> [next |-> [c EXCEPT !.text[t].others = Append(@, e)], out |-> <<>>]
       [] t = 0 /\ k > 0 ->
            [next |-> [c EXCEPT !.tool[k].others = Append(@, e)], out |-> <<>>]
       [] OTHER -> [next |-> c, out |-> <<e>>]

Take(c, e) ==
  CASE e.type \in TextStreamTypes \cup ToolStreamTypes -> TakeStreamed(c, e)
    [] e.type \in BoundaryTypes ->
         [next |-> [c EXCEPT !.state = <<>>], out |-> Append(FlushedState(c.state), e)]
    [] e.type \in StateTypes -> [next |-> [c EXCEPT !.state = Append(@, e)], out |-> <<>>]
    [] OTHER -> TakeOther(c, e)

(* After the loop: streams without an end, then the state.                 *)
Remaining(c) ==
  FlattenSeq([i \in DOMAIN c.text |-> Flushed("text", c.text[i], <<>>)])
    \o FlattenSeq([i \in DOMAIN c.tool |-> Flushed("tool", c.tool[i], <<>>)])
    \o FlushedState(c.state)
=============================================================================
