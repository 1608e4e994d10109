---------------------------- MODULE EventThrottle ----------------------------
(***************************************************************************)
(* EventThrottleMiddleware (middlewares/event-throttle-middleware): holds  *)
(* bufferable events back for a time window or until enough text has       *)
(* arrived, and coalesces the chunks of one stream into one.               *)
(*                                                                         *)
(* One subscription of the observable that run() returns.  The source, the *)
(* clock and the timer are the actors; the callbacks run to completion one *)
(* at a time.  A delta is the sequence of its characters; `meta` stands    *)
(* for the value of one metadata key.                                      *)
(***************************************************************************)
EXTENDS Integers, SequencesExt

CONSTANTS
    Arrivals,      \* the events the source may send
    IntervalMs,    \* config.intervalMs, in ticks of the clock
    MinChunkSize,  \* config.minChunkSize
    Absent,        \* an optional field that was not sent
    MaxEvents      \* bound: events the source sends

ChunkTypes == {"TEXT_MESSAGE_CHUNK", "TOOL_CALL_CHUNK", "REASONING_MESSAGE_CHUNK"}
BufferableTypes ==
  ChunkTypes \cup {"TEXT_MESSAGE_CONTENT", "STATE_SNAPSHOT", "STATE_DELTA",
    "MESSAGES_SNAPSHOT", "ACTIVITY_SNAPSHOT", "ACTIVITY_DELTA",
    "REASONING_MESSAGE_CONTENT", "RAW"}

(* The constructor rejects negative numbers, and with both thresholds zero *)
(* run() returns the source untouched.                                     *)
ASSUME ThrottleConfig ==
  IntervalMs \in Nat /\ MinChunkSize \in Nat /\ IntervalMs + MinChunkSize > 0

(* What the chunks that arrive are made of, and the chunks that merging    *)
(* them can make.                                                          *)
ChunkArrivals == {e \in Arrivals : e.type \in ChunkTypes}
Characters == UNION {ToSet(e.delta) : e \in ChunkArrivals}
Chunks ==
  [type : ChunkTypes, owner : {e.owner : e \in ChunkArrivals},
   id : {e.id : e \in ChunkArrivals}, delta : Seq(Characters),
   meta : {e.meta : e \in ChunkArrivals}]

ASSUME ArrivalsType == ChunkArrivals \subseteq Chunks
ASSUME EventBound == MaxEvents \in Nat

Off == -1   \* timerId === null

VARIABLES
    buffer,               \* events held back
    leading,              \* lastFlushTime === 0
    elapsed,              \* Date.now() - lastFlushTime, up to the interval
    charsSinceFlush, lastTrackedMessageId,
    timer,                \* Off, or the time left until it is due
    stream,               \* "open", "completed", "errored", "unsubscribed"
    received, delivered   \* history: what came in, what went out

vars == <<buffer, leading, elapsed, charsSinceFlush, lastTrackedMessageId,
          timer, stream, received, delivered>>

-----------------------------------------------------------------------------
(* What two neighbours must share to be merged; <<>> merges with nothing.  *)
ChunkKey(e) ==
  IF e.type \in ChunkTypes /\ e.id # Absent
    THEN <<e.type, e.owner, e.id>> ELSE <<>>

(* Mutant: the first chunk's metadata is kept.                             *)
FirstMetadata(previous, next) == previous

MergeChunkMetadata(previous, next) == IF next = Absent THEN previous ELSE next

(* One more event of a batch: a chunk with the key of the last one becomes *)
(* part of that one, which keeps its other fields.                         *)
Merge(out, e) ==
  IF out # <<>> /\ ChunkKey(e) # <<>> /\ ChunkKey(Last(out)) = ChunkKey(e)
    THEN Append(Front(out),
                [Last(out) EXCEPT !.delta = @ \o e.delta,
                                  !.meta = MergeChunkMetadata(@, e.meta)])
    ELSE Append(out, e)

Coalesce(batch) ==
  LET out[n \in 0..Len(batch)] == IF n = 0 THEN <<>> ELSE Merge(out[n - 1], batch[n])
  IN out[Len(batch)]

-----------------------------------------------------------------------------
Init ==
  /\ buffer = <<>> /\ leading = TRUE /\ elapsed = IntervalMs
  /\ charsSinceFlush = 0 /\ lastTrackedMessageId = Absent
  /\ timer = Off /\ stream = "open"
  /\ received = <<>> /\ delivered = <<>>

(* flush(), with `pending` for the buffer: it stops the timer in any case, *)
(* and restarts the window if there was something to send.                 *)
Flush(pending, chars) ==
  /\ timer' = Off
  /\ buffer' = <<>>
  /\ delivered' = delivered \o Coalesce(pending)
  /\ IF pending = <<>>
       THEN UNCHANGED <<leading, elapsed>> /\ charsSinceFlush' = chars
       ELSE leading' = FALSE /\ elapsed' = 0 /\ charsSinceFlush' = 0

(* Mutant: an immediate event overtakes what is held back.                 *)
ImmediateOvertakes(e) ==
  /\ e.type \notin BufferableTypes
  /\ delivered' = Append(delivered, e)
  /\ leading' = FALSE /\ elapsed' = 0
  /\ UNCHANGED <<buffer, timer, charsSinceFlush, lastTrackedMessageId>>

(* Any event that is not bufferable: flush, pass it on, restart the window *)
Immediate(e) ==
  /\ e.type \notin BufferableTypes
  /\ delivered' = delivered \o Coalesce(buffer) \o <<e>>
  /\ buffer' = <<>> /\ timer' = Off
  /\ leading' = FALSE /\ elapsed' = 0
  /\ charsSinceFlush' = IF buffer = <<>> THEN charsSinceFlush ELSE 0
  /\ UNCHANGED lastTrackedMessageId

Counted(e) == MinChunkSize > 0 /\ e.type = "TEXT_MESSAGE_CHUNK"

(* Mutant: the count starts over with every chunk.                         *)
CharsOfChunk(e) == IF Counted(e) THEN Len(e.delta) ELSE charsSinceFlush

(* The characters counted towards minChunkSize, of one text message at a   *)
(* time.                                                                   *)
CharsWith(e) ==
  IF ~Counted(e) THEN charsSinceFlush
  ELSE Len(e.delta) + (IF e.id = lastTrackedMessageId THEN charsSinceFlush ELSE 0)

ThresholdMet(e) ==
  \/ leading
  \/ IntervalMs > 0 /\ elapsed >= IntervalMs
  \/ MinChunkSize > 0 /\ CharsWith(e) >= MinChunkSize

(* Mutant: the time already waited is added.                               *)
ScheduleAfreshLong ==
  timer' = IF timer # Off \/ IntervalMs = 0 THEN timer ELSE IntervalMs + elapsed

(* Mutant: every held event restarts the timer.                            *)
ScheduleAfresh == timer' = IF IntervalMs > 0 THEN IntervalMs ELSE timer

(* Mutant: what is held waits for the next event.                          *)
ScheduleNever == timer' = timer

(* scheduleTrailing: one timer at a time, due when the window ends.        *)
ScheduleTrailing ==
  timer' = IF timer # Off \/ IntervalMs = 0 THEN timer ELSE IntervalMs - elapsed

Buffered(e) ==
  /\ e.type \in BufferableTypes
  /\ lastTrackedMessageId' = IF Counted(e) THEN e.id ELSE lastTrackedMessageId
  /\ IF ThresholdMet(e)
       THEN Flush(Append(buffer, e), CharsWith(e))
       ELSE /\ buffer' = Append(buffer, e)
            /\ charsSinceFlush' = CharsWith(e)
            /\ ScheduleTrailing
            /\ UNCHANGED <<leading, elapsed, delivered>>

(* The source's next().                                                    *)
SourceNext(e) ==
  /\ stream = "open" /\ Len(received) < MaxEvents
  /\ received' = Append(received, e)
  /\ Immediate(e) \/ Buffered(e)
  /\ UNCHANGED stream

SourceCompletes ==
  /\ stream = "open"
  /\ stream' = "completed"
  /\ Flush(buffer, charsSinceFlush)
  /\ UNCHANGED <<lastTrackedMessageId, received>>

(* What is held back is dropped.                                           *)
SourceFails ==
  /\ stream = "open"
  /\ stream' = "errored"
  /\ buffer' = <<>> /\ timer' = Off
  /\ UNCHANGED <<leading, elapsed, charsSinceFlush, lastTrackedMessageId,
                 received, delivered>>

(* The teardown: the timer is cleared, the buffer is left to the collector *)
Unsubscribe ==
  /\ stream = "open"
  /\ stream' = "unsubscribed"
  /\ timer' = Off
  /\ UNCHANGED <<buffer, leading, elapsed, charsSinceFlush,
                 lastTrackedMessageId, received, delivered>>

(* setTimeout's callback, at the earliest when it is due.                  *)
TimerFires ==
  /\ timer = 0
  /\ Flush(buffer, charsSinceFlush)
  /\ UNCHANGED <<lastTrackedMessageId, stream, received>>

Tick ==
  /\ elapsed < IntervalMs
  /\ elapsed' = elapsed + 1
  /\ timer' = IF timer > 0 THEN timer - 1 ELSE timer
  /\ UNCHANGED <<buffer, leading, charsSinceFlush, lastTrackedMessageId,
                 stream, received, delivered>>

Next ==
  \/ \E e \in Arrivals : SourceNext(e)
  \/ SourceCompletes \/ SourceFails \/ Unsubscribe
  \/ TimerFires \/ Tick

(* The clock runs and an event loop gets to its due timers; nothing is     *)
(* assumed of the source or of the subscriber.                             *)
Spec == Init /\ [][Next]_vars /\ WF_vars(TimerFires) /\ WF_vars(Tick)
-----------------------------------------------------------------------------
TypeOK ==
  /\ Len(buffer) <= MaxEvents /\ Len(delivered) <= MaxEvents
  /\ leading \in BOOLEAN /\ elapsed \in 0..IntervalMs
  /\ charsSinceFlush \in Nat
  /\ timer \in {Off} \cup 0..IntervalMs
  /\ stream \in {"open", "completed", "errored", "unsubscribed"}
  /\ received \in Seq(Arrivals)

(* A sequence of events as the reader of the text sees it: characters,     *)
(* each with the stream and the owner it belongs to, between the events    *)
(* that are not chunks.                                                    *)
Atoms(e) ==
  IF e.type \in ChunkTypes /\ e.id # Absent
    THEN [i \in DOMAIN e.delta |-> <<e.type, e.owner, e.id, e.delta[i]>>]
    ELSE <<<<e>>>>
Text(events) ==
  LET text[n \in 0..Len(events)] == IF n = 0 THEN <<>> ELSE text[n - 1] \o Atoms(events[n])
  IN text[Len(events)]

(* Coalescing, the timer, immediate events and the end of the source never *)
(* lose, repeat or reorder a character or an event, nor move one to        *)
(* another owner; after an error or an unsubscribe what has been delivered *)
(* is a prefix of what was sent.                                           *)
NothingLostOrReordered ==
  /\ stream \in {"open", "completed"} => Text(delivered \o buffer) = Text(received)
  /\ stream = "completed" => buffer = <<>>
  /\ IsPrefix(Text(delivered), Text(received))

(* The metadata a consumer ends up with for a stream, the last write       *)
(* winning, is what it would be without the middleware.                    *)
Writes(e, key) == e.type \in ChunkTypes /\ <<e.type, e.owner, e.id>> = key /\ e.meta # Absent
FinalMeta(events, key) ==
  LET writes == {i \in DOMAIN events : Writes(events[i], key)}
  IN IF writes = {} THEN Absent
     ELSE events[CHOOSE i \in writes : \A j \in writes : i >= j].meta
MetadataSurvives ==
  stream \in {"open", "completed"} =>
    \A e \in {a \in Arrivals : a.type \in ChunkTypes} :
      LET key == <<e.type, e.owner, e.id>>
      IN FinalMeta(delivered \o buffer, key) = FinalMeta(received, key)

(* With a time window, something is held exactly while a timer is armed,   *)
(* and the timer is due when the window that began with the last delivery  *)
(* ends, however many events arrived since.                                *)
HeldIsTimed ==
  IntervalMs > 0 =>
    /\ stream = "open" => (buffer # <<>> <=> timer # Off)
    /\ stream # "open" => timer = Off
    /\ timer # Off => timer + elapsed = IntervalMs

(* The text held of the message that is streaming stays below minChunkSize *)
TextOfLast(events, id) ==
  LET chars[n \in 0..Len(events)] ==
        IF n = 0 THEN 0
        ELSE IF events[n].type # "TEXT_MESSAGE_CHUNK" THEN chars[n - 1]
        ELSE IF events[n].id # id THEN 0
        ELSE chars[n - 1] + Len(events[n].delta)
  IN chars[Len(events)]
HeldTextIsShort ==
  stream = "open" /\ MinChunkSize > 0 =>
    TextOfLast(buffer, lastTrackedMessageId) < MinChunkSize

(* What is held back is delivered even if the source falls silent.         *)
HeldEventsAreDelivered == buffer # <<>> ~> (buffer = <<>> \/ stream # "open")
=============================================================================
