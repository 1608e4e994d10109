------------------------ MODULE ChunkPipeline_proofs ------------------------
(***************************************************************************)
(* Proofs about transformChunks piped into verifyEvents, for any number of *)
(* producers, ids, histories and event types.                              *)
(*                                                                         *)
(* The lanes and the verifier's open sets are compared while the verifier  *)
(* has not yet taken what one source event expanded into: what is emitted  *)
(* is the difference between them.                                         *)
(***************************************************************************)
EXTENDS ChunkPipeline, EventVerifier_proofs

EndType(kind) ==
  CASE kind = "text" -> "TEXT_MESSAGE_END"
    [] kind = "tool" -> "TOOL_CALL_END"
    [] kind = "reasoning" -> "REASONING_MESSAGE_END"
StartType(kind) ==
  CASE kind = "text" -> "TEXT_MESSAGE_START"
    [] kind = "tool" -> "TOOL_CALL_START"
    [] kind = "reasoning" -> "REASONING_MESSAGE_START"
ContentType(kind) ==
  CASE kind = "text" -> "TEXT_MESSAGE_CONTENT"
    [] kind = "tool" -> "TOOL_CALL_ARGS"
    [] kind = "reasoning" -> "REASONING_MESSAGE_CONTENT"

IdOf(kind, e) == IF kind = "tool" THEN e.toolCallId ELSE e.messageId

OpenIds(kind) ==
  CASE kind = "text" -> activeMessages
    [] kind = "tool" -> activeToolCalls
    [] kind = "reasoning" -> activeReasoningMessages

OwnerOf(kind, id) ==
  CASE kind = "text" -> owners.message[id]
    [] kind = "tool" -> owners.toolCall[id]
    [] kind = "reasoning" -> owners.reasoning[id]

-----------------------------------------------------------------------------
(* A lane bears the tag of the chunk that opened its stream.               *)
LanesAreTags ==
  \A i \in DOMAIN lanes :
    lanes[i].lane = IF lanes[i].subagentRunId = Null THEN Absent ELSE lanes[i].subagentRunId

(* A subagent's terminal event on its way to the verifier has ended its    *)
(* lane.                                                                   *)
TerminalsEndTheirLane ==
  \A i \in DOMAIN emitted :
    emitted[i].type \in {"SUBAGENT_FINISHED", "SUBAGENT_ERROR"} /\ emitted[i].wellFormed =>
      \A j \in DOMAIN lanes : lanes[j].lane # emitted[i].subagentRunId

LaneInv == IInv /\ CTypeOK /\ LanesDisjoint /\ LanesAreTags /\ TerminalsEndTheirLane

-----------------------------------------------------------------------------
(* No producer sends the events that chunks are expanded into.             *)
ChunksOnly ==
  Types \cap {"TEXT_MESSAGE_START", "TEXT_MESSAGE_CONTENT", "TEXT_MESSAGE_END",
              "TOOL_CALL_START", "TOOL_CALL_ARGS", "TOOL_CALL_END",
              "REASONING_MESSAGE_START", "REASONING_MESSAGE_CONTENT",
              "REASONING_MESSAGE_END"} = {}

Started(kind, id) ==
  \E i \in DOMAIN emitted : emitted[i].type = StartType(kind) /\ IdOf(kind, emitted[i]) = id
Ended(kind, id) ==
  \E i \in DOMAIN emitted : emitted[i].type = EndType(kind) /\ IdOf(kind, emitted[i]) = id

(* The lanes hold what is open, less what is about to end, and what is     *)
(* about to start.                                                         *)
Balanced ==
  \A kind \in ChunkKinds, id \in Ids :
    id \in Assembled(kind) <=> (id \in OpenIds(kind) /\ ~Ended(kind, id)) \/ Started(kind, id)

(* What starts is not open; nothing is ended twice, nor ended and started. *)
EmittedOnce ==
  \A kind \in ChunkKinds :
    /\ \A i, j \in DOMAIN emitted :
         emitted[i].type = EndType(kind) /\ emitted[j].type = EndType(kind)
           /\ IdOf(kind, emitted[i]) = IdOf(kind, emitted[j]) => i = j
    /\ \A id \in Ids : ~(Started(kind, id) /\ Ended(kind, id))

RunLevel == {"RUN_STARTED", "RUN_FINISHED", "RUN_ERROR", "MESSAGES_SNAPSHOT"}

(* A run-level event comes last and leaves no lane.                        *)
RunLevelIsLast ==
  \A i \in DOMAIN emitted : emitted[i].type \in RunLevel => i = Len(emitted) /\ lanes = << >>

BalanceInv ==
  expansion = "live" /\ ~streamFailed => Balanced /\ EmittedOnce /\ RunLevelIsLast

-----------------------------------------------------------------------------
(* Who the verifier thinks owns a stream agrees with the lane that has it, *)
(* and with what is emitted to continue or to end it.                      *)
Accounted(kind, e) ==
  IdOf(kind, e) \in OpenIds(kind) /\ TagAgrees(Tag(e), OwnerOf(kind, IdOf(kind, e)))

LanesAgree ==
  \A i \in DOMAIN lanes :
    lanes[i].id \in OpenIds(lanes[i].kind) =>
      TagAgrees(lanes[i].lane, OwnerOf(lanes[i].kind, lanes[i].id))

EndsAgree ==
  \A kind \in ChunkKinds : \A i \in DOMAIN emitted :
    emitted[i].type = EndType(kind) => Accounted(kind, emitted[i])

StartsAgree ==
  \A kind \in ChunkKinds : \A i \in DOMAIN emitted :
    emitted[i].type = StartType(kind) =>
      \E j \in DOMAIN lanes :
        /\ lanes[j].kind = kind /\ lanes[j].id = IdOf(kind, emitted[i])
        /\ lanes[j].lane = Tag(emitted[i])

ContentAgrees ==
  \A kind \in ChunkKinds : \A i \in DOMAIN emitted :
    emitted[i].type = ContentType(kind) =>
      \/ i = 1 /\ Accounted(kind, emitted[i])
      \/ /\ i > 1 /\ emitted[i - 1].type = StartType(kind)
         /\ IdOf(kind, emitted[i - 1]) = IdOf(kind, emitted[i])
         /\ Tag(emitted[i - 1]) = Tag(emitted[i])

ErrorsCloseAll == runError => \A kind \in ChunkKinds : OpenIds(kind) = {}

(* Nothing gives a message another owner while its stream is in assembly.  *)
NoResults == \A i \in DOMAIN emitted : emitted[i].type # "TOOL_CALL_RESULT"

AgreementInv ==
  /\ expansion = "live" /\ ~streamFailed =>
       /\ LanesAgree /\ EndsAgree /\ StartsAgree /\ ContentAgrees
       /\ ErrorsCloseAll /\ NoResults
  /\ expansion # "live" => emitted = << >>
  /\ ContinuationsNeverRefused

-----------------------------------------------------------------------------
(* Operators on sequences and on the state of the chunk expansion.         *)
LEMMA RemoveAtFacts ==
  ASSUME NEW S, NEW s \in Seq(S), NEW k \in DOMAIN s
  PROVE  /\ RemoveAt(s, k) \in Seq(S)
         /\ Len(RemoveAt(s, k)) = Len(s) - 1
         /\ \A i \in 1 .. Len(s) - 1 : RemoveAt(s, k)[i] = IF i < k THEN s[i] ELSE s[i + 1]
<1> DEFINE a == SubSeq(s, 1, k - 1)
           b == SubSeq(s, k + 1, Len(s))
<1>0. k \in 1 .. Len(s) /\ Len(s) \in Nat
  OBVIOUS
<1>1. a \in Seq(S) /\ Len(a) = k - 1 /\ \A i \in 1 .. k - 1 : a[i] = s[i]
  BY <1>0
<1>2. b \in Seq(S) /\ Len(b) = Len(s) - k /\ \A i \in 1 .. Len(s) - k : b[i] = s[i + k]
  BY <1>0
<1>3. RemoveAt(s, k) = a \o b
  BY DEF RemoveAt
<1> HIDE DEF a, b
<1> QED
  BY <1>0, <1>1, <1>2, <1>3

LEMMA TailFacts ==
  ASSUME NEW S, NEW s \in Seq(S), s # << >>
  PROVE  /\ Tail(s) \in Seq(S) /\ Head(s) = s[1] /\ Head(s) \in S
         /\ Len(s) \in Nat \ {0} /\ DOMAIN s = 1 .. Len(s) /\ 1 \in DOMAIN s
         /\ Len(Tail(s)) = Len(s) - 1 /\ DOMAIN Tail(s) = 1 .. Len(s) - 1
         /\ \A i \in 1 .. Len(s) - 1 : Tail(s)[i] = s[i + 1]
  OBVIOUS

(* What closeLane leaves: every stream but that of the lane.               *)
LEMMA WithoutFacts ==
  ASSUME CTypeOK, LanesDisjoint, NEW l
  PROVE  /\ Without(l) \in Seq(Stream)
         /\ \A i \in DOMAIN Without(l) :
              \E j \in DOMAIN lanes : Without(l)[i] = lanes[j] /\ lanes[j].lane # l
         /\ \A j \in DOMAIN lanes :
              lanes[j].lane # l => \E i \in DOMAIN Without(l) : Without(l)[i] = lanes[j]
         /\ \A i, j \in DOMAIN Without(l) : i # j =>
              \E m, n \in DOMAIN lanes :
                m # n /\ Without(l)[i] = lanes[m] /\ Without(l)[j] = lanes[n]
<1>1. lanes \in Seq(Stream) /\ DOMAIN lanes = 1 .. Len(lanes) /\ Len(lanes) \in Nat
  BY DEF CTypeOK
<1>2. CASE ~Assembling(l)
  <2>1. Without(l) = lanes
    BY <1>2 DEF Without
  <2> QED
    BY <1>1, <1>2, <2>1 DEF Assembling
<1>3. CASE Assembling(l)
  <2> DEFINE k == PositionOf(l)
             rest == Without(l)
  <2>1. k \in DOMAIN lanes /\ lanes[k].lane = l
    BY <1>3 DEF Assembling, PositionOf
  <2>2. rest = RemoveAt(lanes, k)
    BY <1>3 DEF Without
  <2> HIDE DEF k, rest
  <2>3. /\ rest \in Seq(Stream) /\ DOMAIN rest = 1 .. Len(lanes) - 1
        /\ \A i \in 1 .. Len(lanes) - 1 : rest[i] = IF i < k THEN lanes[i] ELSE lanes[i + 1]
    BY <1>1, <2>1, <2>2, RemoveAtFacts
  <2>4. \A i \in DOMAIN rest : \E j \in DOMAIN lanes : rest[i] = lanes[j] /\ lanes[j].lane # l
    <3> TAKE i \in DOMAIN rest
    <3> DEFINE j == IF i < k THEN i ELSE i + 1
    <3>1. j \in DOMAIN lanes /\ j # k /\ rest[i] = lanes[j]
      BY <1>1, <2>1, <2>3
    <3>2. lanes[j].lane # l
      BY <2>1, <3>1 DEF LanesDisjoint
    <3> QED
      BY <3>1, <3>2
  <2>5. \A j \in DOMAIN lanes : lanes[j].lane # l => \E i \in DOMAIN rest : rest[i] = lanes[j]
    <3> TAKE j \in DOMAIN lanes
    <3> HAVE lanes[j].lane # l
    <3> DEFINE i == IF j < k THEN j ELSE j - 1
    <3>1. i \in DOMAIN rest /\ rest[i] = lanes[j]
      BY <1>1, <2>1, <2>3
    <3> QED
      BY <3>1
  <2>6. \A i, j \in DOMAIN rest : i # j =>
          \E m, n \in DOMAIN lanes : m # n /\ rest[i] = lanes[m] /\ rest[j] = lanes[n]
    <3> TAKE i, j \in DOMAIN rest
    <3> HAVE i # j
    <3> DEFINE m == IF i < k THEN i ELSE i + 1
               n == IF j < k THEN j ELSE j + 1
    <3>1. m \in DOMAIN lanes /\ n \in DOMAIN lanes /\ m # n /\ rest[i] = lanes[m] /\ rest[j] = lanes[n]
      BY <1>1, <2>1, <2>3
    <3> QED
      BY <3>1
  <2> QED
    BY <2>3, <2>4, <2>5, <2>6 DEF rest
<1> QED
  BY <1>2, <1>3

(* What the expansion synthesizes for a stream is an event of its kind,    *)
(* with the stream's id.                                                   *)
LEMMA SynthesizedEvents ==
  ASSUME NEW st \in Stream, NEW tag \in WireTags
  PROVE  /\ StartEvent(st) \in EveryEvent
         /\ StartEvent(st).type = StartType(st.kind)
         /\ IdOf(st.kind, StartEvent(st)) = st.id
         /\ StartEvent(st).subagentRunId = st.subagentRunId
         /\ ContentEvent(st, tag) \in EveryEvent
         /\ ContentEvent(st, tag).type = ContentType(st.kind)
         /\ IdOf(st.kind, ContentEvent(st, tag)) = st.id
         /\ ContentEvent(st, tag).subagentRunId = tag
         /\ EndEvent(st) \in EveryEvent
         /\ EndEvent(st).type = EndType(st.kind)
         /\ IdOf(st.kind, EndEvent(st)) = st.id
         /\ EndEvent(st).subagentRunId = st.subagentRunId
<1> USE DEF EveryEvent, MessageEvent, ToolCallStartEvent, ToolCallEvent, TextTypes,
        ReasoningTypes, StartType, ContentType, EndType, IdOf
<1>1. /\ st.kind \in ChunkKinds /\ st.id \in Ids /\ st.subagentRunId \in WireTags
      /\ st.parentMessageId \in Ids \cup {Absent}
  BY DEF Stream
<1>2. CASE st.kind = "text"
  BY <1>1, <1>2 DEF StartEvent, ContentEvent, EndEvent
<1>3. CASE st.kind = "tool"
  BY <1>1, <1>3 DEF StartEvent, ContentEvent, EndEvent
<1>4. CASE st.kind = "reasoning"
  BY <1>1, <1>4 DEF StartEvent, ContentEvent, EndEvent
<1> QED
  BY <1>1, <1>2, <1>3, <1>4 DEF ChunkKinds

LEMMA StreamTypes ==
  \A kind \in ChunkKinds :
    /\ StartType(kind) \in {"TEXT_MESSAGE_START", "TOOL_CALL_START", "REASONING_MESSAGE_START"}
    /\ ContentType(kind) \in {"TEXT_MESSAGE_CONTENT", "TOOL_CALL_ARGS", "REASONING_MESSAGE_CONTENT"}
    /\ EndType(kind) \in {"TEXT_MESSAGE_END", "TOOL_CALL_END", "REASONING_MESSAGE_END"}
  BY DEF ChunkKinds, StartType, ContentType, EndType

(* The fields of a chunk.                                                  *)
LEMMA ChunkFields ==
  ASSUME NEW c \in Chunk
  PROVE  /\ KindOf(c) \in ChunkKinds /\ c.id \in Ids \cup {Absent}
         /\ c.subagentRunId \in WireTags /\ c.parentMessageId \in Ids \cup {Absent}
         /\ LaneTag(c) \in Tags
  BY DEF Chunk, KindOf, ChunkKinds, LaneTag, WireTags, Tags

(* A chunk that opens a stream opens it in the lane of its tag, and nobody *)
(* holds the stream: resolveLane sends the chunk to the holder.            *)
LEMMA OpenersAreNew ==
  ASSUME CTypeOK, NEW c \in Chunk, CanOpen(c), NEW l \in ResolveLane(c),
         ~\E t \in ToSet(lanes) : Continues(c, t, l)
  PROVE  /\ l = LaneTag(c)
         /\ \A j \in DOMAIN lanes : <<lanes[j].kind, lanes[j].id>> # <<KindOf(c), c.id>>
<1> DEFINE holders == LanesHolding(KindOf(c), c.id)
<1>1. c.id # Absent
  BY DEF CanOpen
<1>2. holders = {}
  <2> SUFFICES ASSUME holders # {} PROVE FALSE
    OBVIOUS
  <2>1. l \in holders
    BY <1>1 DEF ResolveLane
  <2>2. PICK st \in ToSet(lanes) : st.kind = KindOf(c) /\ st.id = c.id /\ st.lane = l
    BY <2>1 DEF LanesHolding
  <2> QED
    BY <2>2 DEF Continues
<1>3. l = LaneTag(c)
  BY <1>1, <1>2 DEF ResolveLane
<1>4. \A j \in DOMAIN lanes : lanes[j] \in ToSet(lanes)
  BY DEF ToSet
<1> QED
  BY <1>2, <1>3, <1>4 DEF LanesHolding

(* The end of the lane's stream, if it has one, comes first.               *)
LEMMA EndsFacts ==
  ASSUME CTypeOK, NEW l
  PROVE  /\ ~Assembling(l) => Ends(l) = << >>
         /\ Assembling(l) => /\ PositionOf(l) \in DOMAIN lanes /\ lanes[PositionOf(l)].lane = l
                             /\ lanes[PositionOf(l)] \in Stream
                             /\ Ends(l) = << EndEvent(lanes[PositionOf(l)]) >>
  BY DEF Ends, Assembling, PositionOf, CTypeOK

(* What is emitted when an event ends the stream of one lane, or of all.   *)
LEMMA EmittedByClose ==
  ASSUME CTypeOK, NEW l, NEW e \in EveryEvent
  PROVE  LET sent == Append(Ends(l), e)
             a == IF Assembling(l) THEN 1 ELSE 0 IN
         /\ sent \in Seq(EveryEvent) /\ Len(sent) = a + 1 /\ DOMAIN sent = 1 .. a + 1
         /\ sent[a + 1] = e
         /\ a = 1 => sent[1] = EndEvent(lanes[PositionOf(l)])
<1>1. CASE Assembling(l)
  <2>1. Ends(l) = << EndEvent(lanes[PositionOf(l)]) >> /\ EndEvent(lanes[PositionOf(l)]) \in EveryEvent
    BY <1>1, EndsFacts, SynthesizedEvents DEF WireTags
  <2> QED
    BY <1>1, <2>1
<1>2. CASE ~Assembling(l)
  <2>1. Ends(l) = << >>
    BY <1>2, EndsFacts
  <2> QED
    BY <1>2, <2>1
<1> QED
  BY <1>1, <1>2

LEMMA EmittedByCloseAll ==
  ASSUME CTypeOK, NEW e \in EveryEvent
  PROVE  LET sent == Append(AllEnds, e) IN
         /\ sent \in Seq(EveryEvent) /\ Len(sent) = Len(lanes) + 1
         /\ DOMAIN sent = 1 .. Len(lanes) + 1 /\ sent[Len(lanes) + 1] = e
         /\ \A i \in DOMAIN lanes : i \in DOMAIN sent /\ sent[i] = EndEvent(lanes[i])
<1>1. lanes \in Seq(Stream) /\ Len(lanes) \in Nat /\ DOMAIN lanes = 1 .. Len(lanes)
  BY DEF CTypeOK
<1>2. \A i \in DOMAIN lanes : EndEvent(lanes[i]) \in EveryEvent
  BY <1>1, SynthesizedEvents DEF WireTags
<1>3. AllEnds \in Seq(EveryEvent) /\ Len(AllEnds) = Len(lanes)
      /\ \A i \in DOMAIN lanes : AllEnds[i] = EndEvent(lanes[i])
  BY <1>1, <1>2 DEF AllEnds
<1> QED
  BY <1>1, <1>3

(* What is emitted when a chunk opens a stream.                            *)
LEMMA EmittedByOpen ==
  ASSUME CTypeOK, NEW l, NEW st \in Stream, NEW content \in BOOLEAN
  PROVE  LET sent == Ends(l) \o << StartEvent(st) >> \o
                     (IF content THEN << ContentEvent(st, st.subagentRunId) >> ELSE << >>)
             a == IF Assembling(l) THEN 1 ELSE 0
             b == IF content THEN 1 ELSE 0 IN
         /\ sent \in Seq(EveryEvent) /\ Len(sent) = a + b + 1 /\ DOMAIN sent = 1 .. a + b + 1
         /\ sent[a + 1] = StartEvent(st)
         /\ a = 1 => sent[1] = EndEvent(lanes[PositionOf(l)])
         /\ b = 1 => sent[a + 2] = ContentEvent(st, st.subagentRunId)
<1>1. st.subagentRunId \in WireTags
  BY DEF Stream
<1>2. /\ StartEvent(st) \in EveryEvent /\ ContentEvent(st, st.subagentRunId) \in EveryEvent
      /\ Assembling(l) => EndEvent(lanes[PositionOf(l)]) \in EveryEvent
  BY <1>1, EndsFacts, SynthesizedEvents
<1>3. CASE Assembling(l)
  <2>1. Ends(l) = << EndEvent(lanes[PositionOf(l)]) >>
    BY <1>3, EndsFacts
  <2> QED
    BY <1>2, <1>3, <2>1
<1>4. CASE ~Assembling(l)
  <2>1. Ends(l) = << >>
    BY <1>4, EndsFacts
  <2> QED
    BY <1>2, <1>4, <2>1
<1> QED
  BY <1>3, <1>4

-----------------------------------------------------------------------------
(* The lanes.                                                              *)
LEMMA ClosingKeepsLanes ==
  ASSUME CTypeOK, LanesDisjoint, LanesAreTags, NEW l, lanes' = Without(l)
  PROVE  LanesDisjoint' /\ LanesAreTags'
<1>1. LanesDisjoint'
  <2> SUFFICES ASSUME NEW i \in DOMAIN lanes', NEW j \in DOMAIN lanes', i # j
               PROVE  /\ lanes'[i].lane # lanes'[j].lane
                      /\ <<lanes'[i].kind, lanes'[i].id>> # <<lanes'[j].kind, lanes'[j].id>>
    BY DEF LanesDisjoint
  <2>1. PICK m, n \in DOMAIN lanes : m # n /\ lanes'[i] = lanes[m] /\ lanes'[j] = lanes[n]
    BY WithoutFacts
  <2> QED
    BY <2>1 DEF LanesDisjoint
<1>2. LanesAreTags'
  BY WithoutFacts DEF LanesAreTags
<1> QED
  BY <1>1, <1>2

(* A chunk opens stream st: what becomes of the lanes and what is emitted. *)
Opens(st, content) ==
  LET l == st.lane
      a == IF Assembling(l) THEN 1 ELSE 0
      b == IF content THEN 1 ELSE 0 IN
  /\ l = IF st.subagentRunId = Null THEN Absent ELSE st.subagentRunId
  /\ \A j \in DOMAIN lanes : ~(lanes[j].kind = st.kind /\ lanes[j].id = st.id)
  /\ lanes' = Append(Without(l), st)
  /\ emitted' \in Seq(EveryEvent) /\ Len(emitted') = a + b + 1 /\ DOMAIN emitted' = 1 .. a + b + 1
  /\ a = 1 => emitted'[1] = EndEvent(lanes[PositionOf(l)])
  /\ emitted'[a + 1] = StartEvent(st)
  /\ b = 1 => emitted'[a + 2] = ContentEvent(st, st.subagentRunId)
  /\ expansion' = expansion

LEMMA OpenStreamOpens ==
  ASSUME CTypeOK, NEW c \in Chunk, OpenStream(c)
  PROVE  \E st \in Stream, content \in BOOLEAN : st.lane = LaneTag(c) /\ Opens(st, content)
<1>1. PICK l \in ResolveLane(c) :
        LET st == [lane |-> l, kind |-> KindOf(c), id |-> c.id,
                   subagentRunId |-> c.subagentRunId,
                   parentMessageId |-> c.parentMessageId] IN
        /\ ~\E t \in ToSet(lanes) : Continues(c, t, l)
        /\ lanes' = Append(Without(l), st)
        /\ emitted' = Ends(l) \o << StartEvent(st) >>
                      \o (IF c.carries = "delta"
                            THEN << ContentEvent(st, st.subagentRunId) >> ELSE << >>)
  BY DEF OpenStream
<1> DEFINE st == [lane |-> l, kind |-> KindOf(c), id |-> c.id,
                  subagentRunId |-> c.subagentRunId,
                  parentMessageId |-> c.parentMessageId]
           content == c.carries = "delta"
<1>2. CanOpen(c) /\ expansion' = expansion
  BY DEF OpenStream
<1>3. /\ l = LaneTag(c)
      /\ \A j \in DOMAIN lanes : <<lanes[j].kind, lanes[j].id>> # <<KindOf(c), c.id>>
  BY <1>1, <1>2, OpenersAreNew
<1>4. st \in Stream /\ content \in BOOLEAN
  BY <1>2, <1>3, ChunkFields DEF Stream, CanOpen
<1>5. /\ st.lane = l /\ l = IF st.subagentRunId = Null THEN Absent ELSE st.subagentRunId
      /\ \A j \in DOMAIN lanes : ~(lanes[j].kind = st.kind /\ lanes[j].id = st.id)
  BY <1>3 DEF LaneTag
<1>6. /\ lanes' = Append(Without(l), st)
      /\ emitted' = Ends(l) \o << StartEvent(st) >>
                    \o (IF content THEN << ContentEvent(st, st.subagentRunId) >> ELSE << >>)
  BY <1>1
<1> HIDE DEF st, content
<1>7. Opens(st, content)
  BY <1>2, <1>4, <1>5, <1>6, EmittedByOpen DEF Opens
<1> QED
  BY <1>3, <1>4, <1>5, <1>7

(* The lanes after a stream has opened.                                    *)
LEMMA OpenedLanes ==
  ASSUME CTypeOK, LanesDisjoint, NEW st \in Stream, NEW content, Opens(st, content)
  PROVE  LET rest == Without(st.lane) IN
         /\ rest \in Seq(Stream) /\ Len(rest) \in Nat /\ DOMAIN rest = 1 .. Len(rest)
         /\ lanes' \in Seq(Stream) /\ DOMAIN lanes' = 1 .. Len(rest) + 1
         /\ lanes'[Len(rest) + 1] = st
         /\ \A i \in DOMAIN rest : lanes'[i] = rest[i]
<1>1. Without(st.lane) \in Seq(Stream) /\ lanes' = Append(Without(st.lane), st)
  BY WithoutFacts DEF Opens
<1> QED
  BY <1>1

LEMMA EndsAreEnds ==
  ASSUME CTypeOK, NEW l, Assembling(l)
  PROVE  LET old == lanes[PositionOf(l)] IN
         /\ old \in Stream /\ old.kind \in ChunkKinds /\ old.lane = l
         /\ EndEvent(old).type = EndType(old.kind) /\ IdOf(old.kind, EndEvent(old)) = old.id
         /\ EndEvent(old).subagentRunId = old.subagentRunId
         /\ PositionOf(l) \in DOMAIN lanes
<1>1. PositionOf(l) \in DOMAIN lanes /\ lanes[PositionOf(l)] \in Stream /\ lanes[PositionOf(l)].lane = l
  BY EndsFacts
<1> QED
  BY <1>1, SynthesizedEvents DEF Stream, WireTags

LEMMA OpeningKeepsLanes ==
  ASSUME LaneInv, UNCHANGED vars, NEW c \in Chunk, OpenStream(c)
  PROVE  LaneInv'
<1> USE DEF LaneInv
<1>1. PICK st \in Stream, content \in BOOLEAN : Opens(st, content)
  BY OpenStreamOpens
<1> DEFINE l == st.lane
           rest == Without(l)
<1>2. /\ rest \in Seq(Stream) /\ Len(rest) \in Nat /\ DOMAIN rest = 1 .. Len(rest)
      /\ lanes' \in Seq(Stream) /\ DOMAIN lanes' = 1 .. Len(rest) + 1
      /\ lanes'[Len(rest) + 1] = st
      /\ \A i \in DOMAIN rest : lanes'[i] = rest[i]
  BY <1>1, OpenedLanes
<1>3. /\ \A i \in DOMAIN rest : \E j \in DOMAIN lanes : rest[i] = lanes[j] /\ lanes[j].lane # l
      /\ \A i, j \in DOMAIN rest : i # j =>
           \E m, n \in DOMAIN lanes : m # n /\ rest[i] = lanes[m] /\ rest[j] = lanes[n]
  BY WithoutFacts
<1> HIDE DEF rest
<1>4. CTypeOK'
  BY <1>1, <1>2 DEF CTypeOK, Opens
<1>5. LanesDisjoint'
  <2>1. \A i \in DOMAIN rest :
          rest[i].lane # st.lane /\ ~(rest[i].kind = st.kind /\ rest[i].id = st.id)
    BY <1>1, <1>3 DEF Opens
  <2>2. \A i, j \in DOMAIN rest : i # j =>
          rest[i].lane # rest[j].lane /\ ~(rest[i].kind = rest[j].kind /\ rest[i].id = rest[j].id)
    <3> TAKE i, j \in DOMAIN rest
    <3> HAVE i # j
    <3>1. PICK m, n \in DOMAIN lanes : m # n /\ rest[i] = lanes[m] /\ rest[j] = lanes[n]
      BY <1>3
    <3> QED
      BY <3>1 DEF LanesDisjoint
  <2> SUFFICES ASSUME NEW i \in DOMAIN lanes', NEW j \in DOMAIN lanes', i # j
               PROVE  /\ lanes'[i].lane # lanes'[j].lane
                      /\ ~(lanes'[i].kind = lanes'[j].kind /\ lanes'[i].id = lanes'[j].id)
    BY DEF LanesDisjoint
  <2>3. CASE i \in DOMAIN rest /\ j \in DOMAIN rest
    BY <1>2, <2>2, <2>3
  <2>4. CASE i = Len(rest) + 1
    BY <1>2, <2>1, <2>4
  <2>5. CASE j = Len(rest) + 1
    BY <1>2, <2>1, <2>5
  <2> QED
    BY <1>2, <2>3, <2>4, <2>5
<1>6. LanesAreTags'
  <2>1. \A i \in DOMAIN rest :
          rest[i].lane = IF rest[i].subagentRunId = Null THEN Absent ELSE rest[i].subagentRunId
    BY <1>3 DEF LanesAreTags
  <2>2. st.lane = IF st.subagentRunId = Null THEN Absent ELSE st.subagentRunId
    BY <1>1 DEF Opens
  <2> SUFFICES ASSUME NEW i \in DOMAIN lanes'
               PROVE  lanes'[i].lane = IF lanes'[i].subagentRunId = Null
                                         THEN Absent ELSE lanes'[i].subagentRunId
    BY DEF LanesAreTags
  <2> QED
    BY <1>2, <2>1, <2>2
<1>7. \A i \in DOMAIN emitted' :
        emitted'[i].type \notin {"SUBAGENT_FINISHED", "SUBAGENT_ERROR"}
  <2>1. st.subagentRunId \in WireTags /\ st.kind \in ChunkKinds
    BY DEF Stream
  <2>2. /\ StartEvent(st).type \notin {"SUBAGENT_FINISHED", "SUBAGENT_ERROR"}
        /\ ContentEvent(st, st.subagentRunId).type \notin {"SUBAGENT_FINISHED", "SUBAGENT_ERROR"}
    BY <2>1, SynthesizedEvents, StreamTypes
  <2>3. Assembling(l) =>
          EndEvent(lanes[PositionOf(l)]).type \notin {"SUBAGENT_FINISHED", "SUBAGENT_ERROR"}
    BY EndsAreEnds, StreamTypes
  <2> QED
    BY <1>1, <2>2, <2>3 DEF Opens
<1>8. TerminalsEndTheirLane'
  BY <1>7 DEF TerminalsEndTheirLane
<1>9. IInv'
  BY NextIInv
<1> QED
  BY <1>4, <1>5, <1>6, <1>8, <1>9

(* An event ends the stream of its own lane.                               *)
LEMMA ClosingStep ==
  ASSUME LaneInv, UNCHANGED vars, NEW e \in EveryEvent, NEW l,
         emitted' = Append(Ends(l), e), lanes' = Without(l), UNCHANGED expansion,
         e.type \in {"SUBAGENT_FINISHED", "SUBAGENT_ERROR"} => l = e.subagentRunId
  PROVE  LaneInv'
<1> USE DEF LaneInv
<1>1. CTypeOK'
  BY WithoutFacts, EmittedByClose DEF CTypeOK
<1>2. LanesDisjoint' /\ LanesAreTags'
  BY ClosingKeepsLanes
<1>3. \A j \in DOMAIN lanes' : lanes'[j].lane # l
  BY WithoutFacts
<1>4. \A i \in DOMAIN emitted' :
        emitted'[i] = e \/ emitted'[i].type \notin {"SUBAGENT_FINISHED", "SUBAGENT_ERROR"}
  <2>1. CASE Assembling(l)
    <3>1. EndEvent(lanes[PositionOf(l)]).type \notin {"SUBAGENT_FINISHED", "SUBAGENT_ERROR"}
      BY <2>1, EndsAreEnds, StreamTypes
    <3>2. DOMAIN emitted' = 1 .. 2 /\ emitted'[1] = EndEvent(lanes[PositionOf(l)]) /\ emitted'[2] = e
      BY <2>1, EmittedByClose
    <3> QED
      BY <3>1, <3>2
  <2>2. CASE ~Assembling(l)
    BY <2>2, EmittedByClose
  <2> QED
    BY <2>1, <2>2
<1>5. TerminalsEndTheirLane'
  BY <1>3, <1>4 DEF TerminalsEndTheirLane
<1>6. IInv'
  BY NextIInv
<1> QED
  BY <1>1, <1>2, <1>5, <1>6

(* The lanes are dropped, with or without ends for them.                   *)
LEMMA DroppingStep ==
  ASSUME LaneInv, IInv', emitted' \in Seq(EveryEvent), lanes' = << >>,
         expansion' \in {"live", "complete", "failed"}
  PROVE  LaneInv'
<1>1. CTypeOK'
  BY DEF CTypeOK
<1>2. LanesDisjoint' /\ LanesAreTags' /\ TerminalsEndTheirLane'
  BY DEF LanesDisjoint, LanesAreTags, TerminalsEndTheirLane
<1> QED
  BY <1>1, <1>2 DEF LaneInv

(* An event, if any, is passed on, and no lane is touched.                 *)
LEMMA PassingStep ==
  ASSUME LaneInv, UNCHANGED <<vars, lanes, expansion>>,
         \/ emitted' = << >>
         \/ \E e \in EveryEvent :
              /\ emitted' = << e >>
              /\ e.type \in {"SUBAGENT_FINISHED", "SUBAGENT_ERROR"} => ~e.wellFormed
  PROVE  LaneInv'
<1> USE DEF LaneInv
<1>1. CTypeOK'
  <2>1. emitted' \in Seq(EveryEvent)
    <3>1. << >> \in Seq(EveryEvent) /\ \A e \in EveryEvent : << e >> \in Seq(EveryEvent)
      OBVIOUS
    <3> QED
      BY <3>1
  <2> QED
    BY <2>1 DEF CTypeOK
<1>2. LanesDisjoint' /\ LanesAreTags'
  BY DEF LanesDisjoint, LanesAreTags
<1>3. TerminalsEndTheirLane'
  <2>1. CASE emitted' = << >>
    BY <2>1 DEF TerminalsEndTheirLane
  <2>2. ASSUME NEW e \in EveryEvent, emitted' = << e >>,
               e.type \in {"SUBAGENT_FINISHED", "SUBAGENT_ERROR"} => ~e.wellFormed
        PROVE  TerminalsEndTheirLane'
    <3>1. \A i \in DOMAIN emitted' : emitted'[i] = e
      BY <2>2
    <3> QED
      BY <2>2, <3>1 DEF TerminalsEndTheirLane
  <2> QED
    BY <2>1, <2>2
<1>4. IInv'
  BY NextIInv
<1> QED
  BY <1>1, <1>2, <1>3, <1>4

LEMMA ContinueEmits ==
  ASSUME CTypeOK, NEW c \in Chunk, ContinueStream(c)
  PROVE  \/ emitted' = << >>
         \/ \E l \in ResolveLane(c), st \in Stream : \E tag \in {st.subagentRunId, c.subagentRunId} :
              /\ \E j \in DOMAIN lanes : lanes[j] = st
              /\ Continues(c, st, l)
              /\ tag # st.subagentRunId => c.subagentRunId # Absent
              /\ tag \in WireTags
              /\ emitted' = << ContentEvent(st, tag) >>
<1>1. PICK l \in ResolveLane(c), st \in ToSet(lanes) :
        /\ Continues(c, st, l)
        /\ emitted' = IF c.carries = "nothing" /\ c.subagentRunId # Null THEN << >>
                      ELSE << ContentEvent(st, IF c.subagentRunId = Absent
                                               THEN st.subagentRunId ELSE c.subagentRunId) >>
  BY DEF ContinueStream
<1>2. PICK j \in DOMAIN lanes : lanes[j] = st
  BY DEF ToSet
<1>3. st \in Stream
  BY <1>2 DEF CTypeOK
<1>4. st.subagentRunId \in WireTags /\ c.subagentRunId \in WireTags
  BY <1>3, ChunkFields DEF Stream
<1> QED
  BY <1>1, <1>2, <1>3, <1>4

LEMMA ReceiveKeepsLanes == ASSUME LaneInv, Receive PROVE LaneInv'
<1> USE DEF LaneInv
<1>1. UNCHANGED vars /\ Expand /\ CTypeOK /\ IInv'
  BY NextIInv DEF Receive
<1>2. ASSUME NEW c \in Chunk, ContinueStream(c) PROVE LaneInv'
  <2>1. UNCHANGED <<lanes, expansion>>
    BY <1>2 DEF ContinueStream
  <2>2. ASSUME NEW st \in Stream, NEW tag \in WireTags, emitted' = << ContentEvent(st, tag) >>
        PROVE  LaneInv'
    <3>1. ContentEvent(st, tag) \in EveryEvent /\ ContentEvent(st, tag).type = ContentType(st.kind)
      BY SynthesizedEvents
    <3>2. st.kind \in ChunkKinds
      BY DEF Stream
    <3> QED
      BY <1>1, <2>1, <2>2, <3>1, <3>2, StreamTypes, PassingStep
  <2>3. CASE emitted' = << >>
    BY <1>1, <2>1, <2>3, PassingStep
  <2> QED
    BY <1>2, <2>2, <2>3, ContinueEmits
<1>3. ASSUME NEW c \in Chunk, OpenStream(c) PROVE LaneInv'
  BY <1>1, <1>3, OpeningKeepsLanes
<1>4. ASSUME NEW c \in Chunk, RejectChunk(c) PROVE LaneInv'
  BY <1>1, <1>4, DroppingStep DEF RejectChunk, CTypeOK
<1>5. ASSUME NEW e \in Event, ExplicitEvent(e) PROVE LaneInv'
  <2>1. /\ emitted' = Append(Ends(LaneTag(e)), e) /\ lanes' = Without(LaneTag(e))
        /\ UNCHANGED expansion /\ e \in EveryEvent
        /\ e.type \notin {"SUBAGENT_FINISHED", "SUBAGENT_ERROR"}
    BY <1>5, EventsAreEvents DEF ExplicitEvent, TextTypes, ReasoningTypes
  <2> QED
    BY <1>1, <2>1, ClosingStep
<1>6. ASSUME NEW e \in Event, RunLevelEvent(e) PROVE LaneInv'
  <2>1. emitted' = Append(AllEnds, e) /\ lanes' = << >> /\ UNCHANGED expansion /\ e \in EveryEvent
    BY <1>6, EventsAreEvents DEF RunLevelEvent
  <2> QED
    BY <1>1, <2>1, DroppingStep, EmittedByCloseAll DEF CTypeOK
<1>7. ASSUME NEW e \in Event, SubagentTerminal(e) PROVE LaneInv'
  <2>1. e \in EveryEvent /\ UNCHANGED expansion
    BY <1>7, EventsAreEvents DEF SubagentTerminal
  <2>2. CASE emitted' = Append(Ends(e.subagentRunId), e) /\ lanes' = Without(e.subagentRunId)
    BY <1>1, <2>1, <2>2, ClosingStep
  <2>3. CASE ~e.wellFormed /\ emitted' = << e >> /\ UNCHANGED lanes
    BY <1>1, <2>1, <2>3, PassingStep
  <2> QED
    BY <1>7, <2>2, <2>3 DEF SubagentTerminal
<1>8. ASSUME NEW e \in Event, StandAside(e) PROVE LaneInv'
  BY <1>1, <1>8, EventsAreEvents, PassingStep DEF StandAside
<1>9. CASE Complete
  BY <1>1, <1>9, DroppingStep DEF Complete, CTypeOK
<1> QED
  BY <1>1, <1>2, <1>3, <1>4, <1>5, <1>6, <1>7, <1>8, <1>9 DEF Expand

LEMMA DeliverKeepsLanes == ASSUME LaneInv, Deliver PROVE LaneInv'
<1> USE DEF LaneInv
<1>1. emitted \in Seq(EveryEvent) /\ emitted # << >> /\ emitted' = Tail(emitted)
      /\ UNCHANGED <<lanes, expansion>> /\ Accept(Head(emitted))
  BY DEF CTypeOK, Deliver
<1>2. /\ Head(emitted) \in EveryEvent /\ emitted' \in Seq(EveryEvent)
      /\ \A i \in DOMAIN emitted' : i + 1 \in DOMAIN emitted /\ emitted'[i] = emitted[i + 1]
  BY <1>1, TailFacts
<1>3. IInv'
  BY <1>1, <1>2, EventIInv
<1>4. CTypeOK' /\ LanesDisjoint' /\ LanesAreTags'
  BY <1>1, <1>2 DEF CTypeOK, LanesDisjoint, LanesAreTags
<1>5. TerminalsEndTheirLane'
  BY <1>1, <1>2 DEF TerminalsEndTheirLane
<1> QED
  BY <1>3, <1>4, <1>5

LEMMA BreakKeepsLanes == ASSUME LaneInv, Break PROVE LaneInv'
<1>1. emitted \in Seq(EveryEvent) /\ emitted # << >> /\ Reject(Head(emitted))
      /\ lanes' = << >> /\ UNCHANGED <<emitted, expansion>>
  BY DEF CTypeOK, Break, LaneInv
<1>2. Head(emitted) \in EveryEvent
  BY <1>1, TailFacts
<1>3. IInv'
  BY <1>1, <1>2, EventIInv DEF LaneInv
<1> QED
  BY <1>1, <1>3, DroppingStep DEF LaneInv, CTypeOK

LEMMA LaneInvInit == PipelineInit => LaneInv
<1> SUFFICES ASSUME PipelineInit PROVE LaneInv
  OBVIOUS
<1>1. IInv
  BY InitIInv DEF PipelineInit
<1>2. lanes = << >> /\ emitted = << >> /\ expansion = "live"
  BY DEF PipelineInit, CInit
<1> QED
  BY <1>1, <1>2 DEF LaneInv, CTypeOK, LanesDisjoint, LanesAreTags, TerminalsEndTheirLane

LEMMA LaneInvNext == LaneInv /\ [PipelineNext]_pipelineVars => LaneInv'
<1> SUFFICES ASSUME LaneInv, [PipelineNext]_pipelineVars PROVE LaneInv'
  OBVIOUS
<1>1. CASE UNCHANGED pipelineVars
  <2>1. UNCHANGED <<vars, lanes, emitted, expansion>>
    BY <1>1 DEF pipelineVars, chunkVars
  <2>2. IInv'
    BY <2>1, NextIInv DEF LaneInv
  <2> QED
    BY <2>1, <2>2 DEF LaneInv, CTypeOK, LanesDisjoint, LanesAreTags, TerminalsEndTheirLane
<1> QED
  BY <1>1, ReceiveKeepsLanes, DeliverKeepsLanes, BreakKeepsLanes DEF PipelineNext

LEMMA LaneInvHolds == PipelineSpec => []LaneInv
  BY LaneInvInit, LaneInvNext, PTL DEF PipelineSpec

(* Whatever the chunks and the other events, in any order: the lanes hold  *)
(* streams, what the expansion emits is events, and the verifier behind it *)
(* keeps its types on the events that no producer sent.                    *)
THEOREM PipelineTypesHold == PipelineSpec => []PipelineTypeOK
<1>1. LaneInv => PipelineTypeOK
  BY DEF LaneInv, IInv, PipelineTypeOK
<1> QED
  BY <1>1, LaneInvHolds, PTL

(* For any number of producers whose chunks interleave, no lane assembles  *)
(* two streams and no stream is in two lanes.                              *)
THEOREM LanesStayDisjoint == PipelineSpec => []LanesDisjoint
<1>1. LaneInv => LanesDisjoint
  BY DEF LaneInv
<1> QED
  BY <1>1, LaneInvHolds, PTL

-----------------------------------------------------------------------------
(* The only step that closes a subagent delivers its terminal event.       *)
LEMMA ClosedByTerminal ==
  ASSUME LaneInv, [PipelineNext]_pipelineVars, NEW s \in closedSubagents' \ closedSubagents
  PROVE  /\ Deliver /\ s \in SubagentIds
         /\ Head(emitted).type \in {"SUBAGENT_FINISHED", "SUBAGENT_ERROR"}
         /\ Head(emitted).wellFormed /\ Head(emitted).subagentRunId = s
<1> DEFINE e == Head(emitted)
<1>1. closedSubagents' # closedSubagents
  OBVIOUS
<1>2. Deliver
  BY <1>1 DEF PipelineNext, pipelineVars, vars, subagentVars, Receive, Break, Reject
<1>3. e \in EveryEvent /\ Accept(e)
  BY <1>2, TailFacts DEF LaneInv, CTypeOK, Deliver
<1> HIDE DEF e
<1>4. CASE RunStarted(e)
  BY <1>3, <1>4, RunStartedIsFresh DEF LaneInv
<1>5. CASE SubagentClosed(e)
  <2>1. e.type \in {"SUBAGENT_FINISHED", "SUBAGENT_ERROR"} /\ e.subagentRunId \in SubagentIds
    BY <1>3, <1>5, EventFields DEF SubagentClosed, SubagentTypes
  <2>2. e.wellFormed
    BY <1>5, <2>1 DEF SubagentClosed, Accepted, Accepts, CaseAllows, MayCloseSubagent
  <2>3. e.subagentRunId = s
    BY <1>5 DEF SubagentClosed
  <2> QED
    BY <1>2, <2>1, <2>2, <2>3 DEF e
<1> QED
  BY <1>1, <1>3, <1>4, <1>5 DEF Accept, TextMessageStart, TextMessageEnd, ToolCallStart, ToolCallEnd,
     ToolCallResult, StepStarted, StepFinished, ActivitySnapshot, ReasoningStart, ReasoningEnd,
     PassThrough, SubagentStarted, MessagesSnapshot, RunFinished, RunError, subagentVars

(* The verifier sees a subagent end only when the chunk stream attributed  *)
(* to it has been ended, however chunks and terminal events interleave.    *)
THEOREM SubagentsEndTheirStreams == PipelineSpec => StreamsEndWithTheirSubagent
<1>1. ASSUME LaneInv, [PipelineNext]_pipelineVars
      PROVE  [\A s \in closedSubagents' \ closedSubagents :
                \A i \in DOMAIN lanes : lanes[i].subagentRunId # s]_pipelineVars
  <2> SUFFICES ASSUME NEW s \in closedSubagents' \ closedSubagents, NEW i \in DOMAIN lanes
               PROVE  lanes[i].subagentRunId # s
    OBVIOUS
  <2>1. s # Null
    BY <1>1, ClosedByTerminal, NullIsNoTag DEF Tags
  <2>2. emitted # << >> /\ emitted \in Seq(EveryEvent)
    BY <1>1, ClosedByTerminal DEF Deliver, LaneInv, CTypeOK
  <2>3. lanes[i].lane # s
    BY <1>1, <2>2, ClosedByTerminal, TailFacts DEF LaneInv, TerminalsEndTheirLane
  <2> QED
    BY <1>1, <2>1, <2>3 DEF LaneInv, LanesAreTags
<1> QED
  BY <1>1, LaneInvHolds, PTL DEF PipelineSpec, StreamsEndWithTheirSubagent

(* What ends a stream, over all the steps of the pipeline.                 *)
LEMMA WhatEndsAStream ==
  ASSUME LaneInv, PipelineNext, NEW i \in DOMAIN lanes,
         lanes[i] \notin ToSet(lanes'), expansion' = "live", ~streamFailed'
  PROVE  \/ \E e \in Event : RunLevelEvent(e)
         \/ \E e \in Event : /\ ExplicitEvent(e) \/ SubagentTerminal(e)
                             /\ LaneTag(e) = lanes[i].lane
         \/ \E c \in Chunk : OpenStream(c) /\ LaneTag(c) = lanes[i].lane
<1>0. CTypeOK /\ LanesDisjoint
  BY DEF LaneInv
<1>1. ~UNCHANGED lanes
  BY DEF ToSet
<1>2. ~Break
  BY DEF Break, Reject
<1>3. Expand
  BY <1>1, <1>2 DEF PipelineNext, Receive, Deliver
<1>4. \A l : lanes' = Without(l) => lanes[i].lane = l
  BY <1>0, WithoutFacts DEF ToSet
<1>5. ASSUME NEW c \in Chunk, OpenStream(c) PROVE LaneTag(c) = lanes[i].lane
  <2>1. PICK st \in Stream, content \in BOOLEAN : st.lane = LaneTag(c) /\ Opens(st, content)
    BY <1>0, <1>5, OpenStreamOpens
  <2>2. \A j \in DOMAIN Without(st.lane) : Without(st.lane)[j] \in ToSet(lanes')
    BY <1>0, <2>1, OpenedLanes DEF ToSet
  <2> QED
    BY <1>0, <2>1, <2>2, WithoutFacts
<1>6. ASSUME NEW e \in Event, SubagentTerminal(e) PROVE LaneTag(e) = lanes[i].lane
  <2>1. e.subagentRunId \in SubagentIds
    BY <1>6, EventFields, EventsAreEvents DEF SubagentTerminal, SubagentTypes
  <2>2. LaneTag(e) = e.subagentRunId
    BY <2>1, NullIsNoTag DEF LaneTag, Tags
  <2> QED
    BY <1>1, <1>4, <1>6, <2>2 DEF SubagentTerminal
<1>7. ASSUME NEW e \in Event, ExplicitEvent(e) PROVE LaneTag(e) = lanes[i].lane
  BY <1>4, <1>7 DEF ExplicitEvent
<1>8. \A c \in Chunk : ~ContinueStream(c) /\ ~RejectChunk(c)
  BY <1>1 DEF ContinueStream, RejectChunk
<1>9. ~Complete /\ \A e \in Event : ~StandAside(e)
  BY <1>1 DEF Complete, StandAside
<1> QED
  BY <1>3, <1>5, <1>6, <1>7, <1>8, <1>9 DEF Expand

(* For any number of producers: a stream in assembly ends by an event of   *)
(* its own lane, by a new stream there or by a run-level event, and by no  *)
(* other producer's doing.                                                 *)
THEOREM StreamsKeepTheirLane == PipelineSpec => StreamsSurviveOtherLanes
<1>1. ASSUME LaneInv, [PipelineNext]_pipelineVars
      PROVE  [\A i \in DOMAIN lanes :
                lanes[i] \notin ToSet(lanes') /\ expansion' = "live" /\ ~streamFailed' =>
                  \/ \E e \in Event : RunLevelEvent(e)
                  \/ \E e \in Event : /\ ExplicitEvent(e) \/ SubagentTerminal(e)
                                      /\ LaneTag(e) = lanes[i].lane
                  \/ \E c \in Chunk : /\ OpenStream(c)
                                      /\ LaneTag(c) = lanes[i].lane]_pipelineVars
  BY <1>1, WhatEndsAStream
<1> QED
  BY <1>1, LaneInvHolds, PTL DEF PipelineSpec, StreamsSurviveOtherLanes

-----------------------------------------------------------------------------
(* The lanes and the open sets.                                            *)
LEMMA AssembledIn ==
  ASSUME NEW kind, NEW id
  PROVE  id \in Assembled(kind) <=> \E j \in DOMAIN lanes : lanes[j].kind = kind /\ lanes[j].id = id
  BY DEF Assembled, ToSet

LEMMA TypesTellKinds ==
  \A k, kind \in ChunkKinds :
    /\ StartType(k) = StartType(kind) => k = kind
    /\ EndType(k) = EndType(kind) => k = kind
    /\ ContentType(k) = ContentType(kind) => k = kind
    /\ StartType(k) # EndType(kind) /\ StartType(k) # ContentType(kind)
    /\ EndType(k) # ContentType(kind)
  BY DEF ChunkKinds, StartType, ContentType, EndType

(* The events of streams that chunks are expanded into.                    *)
Streamed == {"TEXT_MESSAGE_START", "TEXT_MESSAGE_CONTENT", "TEXT_MESSAGE_END",
             "TOOL_CALL_START", "TOOL_CALL_ARGS", "TOOL_CALL_END",
             "REASONING_MESSAGE_START", "REASONING_MESSAGE_CONTENT", "REASONING_MESSAGE_END"}

LEMMA StreamedTypes ==
  \A kind \in ChunkKinds :
    /\ StartType(kind) \in Streamed \ RunLevel
    /\ ContentType(kind) \in Streamed \ RunLevel
    /\ EndType(kind) \in Streamed \ RunLevel
  BY DEF ChunkKinds, StartType, ContentType, EndType, Streamed, RunLevel

LEMMA ProducersSendNone ==
  ASSUME ChunksOnly, NEW e \in Event
  PROVE  e.type \notin Streamed
  BY DEF ChunksOnly, Event, Streamed

(* What an accepted event does to the open sets.                           *)
LEMMA OpenIdsStep ==
  ASSUME IInv, NEW e \in EveryEvent, Accept(e), NEW kind \in ChunkKinds
  PROVE  OpenIds(kind)' =
           IF e.type = "RUN_STARTED" THEN {}
           ELSE IF e.type = StartType(kind) THEN OpenIds(kind) \cup {IdOf(kind, e)}
           ELSE IF e.type = EndType(kind) THEN OpenIds(kind) \ {IdOf(kind, e)}
           ELSE OpenIds(kind)
<1> USE DEF ChunkKinds, StartType, EndType, OpenIds, IdOf, openVars
<1>1. CASE TextMessageStart(e) \/ TextMessageEnd(e)
  BY <1>1 DEF TextMessageStart, TextMessageEnd
<1>2. CASE ToolCallStart(e) \/ ToolCallEnd(e)
  BY <1>2 DEF ToolCallStart, ToolCallEnd
<1>3. CASE ReasoningStart(e) \/ ReasoningEnd(e)
  BY <1>3 DEF ReasoningStart, ReasoningEnd
<1>4. CASE RunStarted(e)
  BY <1>4, RunStartedIsFresh DEF RunStarted, NothingOpen
<1>5. CASE ToolCallResult(e) \/ StepStarted(e) \/ StepFinished(e) \/ ActivitySnapshot(e)
  BY <1>5 DEF ToolCallResult, StepStarted, StepFinished, ActivitySnapshot
<1>6. CASE PassThrough(e) \/ SubagentStarted(e) \/ SubagentClosed(e)
  BY <1>6 DEF PassThrough, SubagentStarted, SubagentClosed
<1>7. CASE MessagesSnapshot(e) \/ RunFinished(e) \/ RunError(e)
  BY <1>7 DEF MessagesSnapshot, RunFinished, RunError
<1> QED
  BY <1>1, <1>2, <1>3, <1>4, <1>5, <1>6, <1>7 DEF Accept

(* Between source events the lanes hold exactly what is open.              *)
LEMMA BalancedAtRest ==
  ASSUME BalanceInv, Live, ~streamFailed
  PROVE  \A kind \in ChunkKinds, id \in Ids : id \in Assembled(kind) <=> id \in OpenIds(kind)
<1>1. Balanced /\ emitted = << >>
  BY DEF BalanceInv, Live
<1>2. \A kind, id : ~Started(kind, id) /\ ~Ended(kind, id)
  BY <1>1 DEF Started, Ended
<1> QED
  BY <1>1, <1>2 DEF Balanced

(* A step that emits nothing of a stream but its content, and keeps the    *)
(* lanes.                                                                  *)
LEMMA ContentIsBalanced ==
  ASSUME LaneInv, BalanceInv, Live, ~streamFailed, UNCHANGED <<vars, lanes>>,
         \A i \in DOMAIN emitted' :
           /\ emitted'[i].type \notin RunLevel
           /\ \A kind \in ChunkKinds : emitted'[i].type \notin {StartType(kind), EndType(kind)}
  PROVE  BalanceInv'
<1>1. \A kind \in ChunkKinds : \A id : ~Started(kind, id)' /\ ~Ended(kind, id)'
  BY DEF Started, Ended
<1>2. \A kind \in ChunkKinds : OpenIds(kind)' = OpenIds(kind) /\ Assembled(kind)' = Assembled(kind)
  BY DEF OpenIds, Assembled, ChunkKinds, vars, openVars
<1>3. Balanced'
  BY <1>1, <1>2, BalancedAtRest DEF Balanced
<1>4. EmittedOnce'
  BY <1>1 DEF EmittedOnce
<1>5. RunLevelIsLast'
  BY DEF RunLevelIsLast
<1> QED
  BY <1>3, <1>4, <1>5 DEF BalanceInv

(* A new stream: what its lane had open is about to end, it is about to    *)
(* start.                                                                  *)
LEMMA OpeningIsBalanced ==
  ASSUME LaneInv, BalanceInv, Live, ~streamFailed, UNCHANGED vars,
         NEW st \in Stream, NEW content \in BOOLEAN, Opens(st, content)
  PROVE  BalanceInv'
<1> DEFINE l == st.lane
           old == lanes[PositionOf(l)]
           rest == Without(l)
<1>0. CTypeOK /\ LanesDisjoint
  BY DEF LaneInv
<1>1. st.kind \in ChunkKinds /\ st.id \in Ids /\ st.subagentRunId \in WireTags
  BY DEF Stream
<1>2. Assembling(l) => /\ old.kind \in ChunkKinds /\ old.lane = l /\ PositionOf(l) \in DOMAIN lanes
                       /\ EndEvent(old).type = EndType(old.kind)
                       /\ IdOf(old.kind, EndEvent(old)) = old.id
  BY <1>0, EndsAreEnds
<1>3. /\ StartEvent(st).type = StartType(st.kind) /\ IdOf(st.kind, StartEvent(st)) = st.id
      /\ ContentEvent(st, st.subagentRunId).type = ContentType(st.kind)
  BY <1>1, SynthesizedEvents
<1>4. \A kind \in ChunkKinds : \A id : Started(kind, id)' <=> kind = st.kind /\ id = st.id
  <2> TAKE kind \in ChunkKinds
  <2> TAKE id
  <2>1. \A i \in DOMAIN emitted' :
          emitted'[i].type = StartType(kind) => kind = st.kind /\ emitted'[i] = StartEvent(st)
    BY <1>1, <1>2, <1>3, TypesTellKinds DEF Opens
  <2>2. \E i \in DOMAIN emitted' : emitted'[i] = StartEvent(st)
    BY DEF Opens
  <2> HIDE DEF old
  <2> QED
    BY <1>3, <2>1, <2>2 DEF Started
<1>5. \A i \in DOMAIN emitted', kind \in ChunkKinds :
        emitted'[i].type = EndType(kind) =>
          i = 1 /\ Assembling(l) /\ kind = old.kind /\ emitted'[i] = EndEvent(old)
  BY <1>1, <1>2, <1>3, TypesTellKinds DEF Opens
<1>6. \A kind \in ChunkKinds : \A id :
        Ended(kind, id)' <=> Assembling(l) /\ kind = old.kind /\ id = old.id
  <2> TAKE kind \in ChunkKinds
  <2> TAKE id
  <2>1. Assembling(l) => 1 \in DOMAIN emitted' /\ emitted'[1] = EndEvent(old)
    BY DEF Opens
  <2> HIDE DEF old
  <2> QED
    BY <1>2, <1>5, <2>1 DEF Ended
<1>7. /\ \A i \in DOMAIN rest : \E j \in DOMAIN lanes : rest[i] = lanes[j] /\ lanes[j].lane # l
      /\ \A j \in DOMAIN lanes : lanes[j].lane # l => \E i \in DOMAIN rest : rest[i] = lanes[j]
  BY <1>0, WithoutFacts
<1>8. /\ rest \in Seq(Stream) /\ Len(rest) \in Nat /\ DOMAIN rest = 1 .. Len(rest)
      /\ DOMAIN lanes' = 1 .. Len(rest) + 1
      /\ lanes'[Len(rest) + 1] = st
      /\ \A i \in DOMAIN rest : lanes'[i] = rest[i]
  BY <1>0, OpenedLanes
<1>9. \A kind, id : id \in Assembled(kind)' <=>
        \/ kind = st.kind /\ id = st.id
        \/ \E j \in DOMAIN lanes : lanes[j].lane # l /\ lanes[j].kind = kind /\ lanes[j].id = id
  <2> HIDE DEF rest, l
  <2> TAKE kind, id
  <2>1. id \in Assembled(kind)' <=> \E j \in DOMAIN lanes' : lanes'[j].kind = kind /\ lanes'[j].id = id
    BY DEF Assembled, ToSet
  <2>2. (\E j \in DOMAIN lanes' : lanes'[j].kind = kind /\ lanes'[j].id = id) <=>
          \/ kind = st.kind /\ id = st.id
          \/ \E j \in DOMAIN rest : rest[j].kind = kind /\ rest[j].id = id
    BY <1>8
  <2> QED
    BY <1>7, <2>1, <2>2
<1>10. \A kind \in ChunkKinds : \A id :
         (\E j \in DOMAIN lanes : lanes[j].lane # l /\ lanes[j].kind = kind /\ lanes[j].id = id) <=>
           id \in Assembled(kind) /\ ~Ended(kind, id)'
  <2> TAKE kind \in ChunkKinds
  <2> TAKE id
  <2>1. \A j \in DOMAIN lanes : lanes[j].lane = l => Assembling(l) /\ lanes[j] = old
    BY <1>0, <1>2 DEF Assembling, LanesDisjoint
  <2>2. \A j \in DOMAIN lanes : Assembling(l) /\ lanes[j].kind = old.kind /\ lanes[j].id = old.id => lanes[j] = old
    BY <1>0, <1>2 DEF LanesDisjoint
  <2> HIDE DEF old, l
  <2> QED
    BY <1>2, <1>6, <2>1, <2>2, AssembledIn
<1>11. Balanced'
  <2>1. \A kind \in ChunkKinds : OpenIds(kind)' = OpenIds(kind)
    BY DEF OpenIds, ChunkKinds, vars, openVars
  <2> QED
    BY <1>4, <1>9, <1>10, <2>1, BalancedAtRest DEF Balanced
<1>12. EmittedOnce'
  <2>1. Assembling(l) => ~(old.kind = st.kind /\ old.id = st.id)
    BY <1>2 DEF Opens
  <2> QED
    BY <1>4, <1>5, <1>6, <2>1 DEF EmittedOnce
<1>13. RunLevelIsLast'
  <2>1. \A i \in DOMAIN emitted' : emitted'[i].type \notin RunLevel
    BY <1>1, <1>2, <1>3, StreamedTypes DEF Opens
  <2> QED
    BY <2>1 DEF RunLevelIsLast
<1> QED
  BY <1>11, <1>12, <1>13 DEF BalanceInv

(* An event that is no part of a stream ends the stream of its lane.       *)
LEMMA ClosingIsBalanced ==
  ASSUME LaneInv, BalanceInv, Live, ~streamFailed, UNCHANGED vars,
         NEW e \in EveryEvent, e.type \notin Streamed, e.type \notin RunLevel, NEW l,
         emitted' = Append(Ends(l), e), lanes' = Without(l)
  PROVE  BalanceInv'
<1> DEFINE old == lanes[PositionOf(l)]
<1>0. CTypeOK /\ LanesDisjoint
  BY DEF LaneInv
<1>1. Assembling(l) => /\ old.kind \in ChunkKinds /\ old.lane = l /\ PositionOf(l) \in DOMAIN lanes
                       /\ EndEvent(old).type = EndType(old.kind)
                       /\ IdOf(old.kind, EndEvent(old)) = old.id
                       /\ DOMAIN emitted' = 1 .. 2 /\ emitted'[1] = EndEvent(old) /\ emitted'[2] = e
  BY <1>0, EndsAreEnds, EmittedByClose
<1>2. ~Assembling(l) => DOMAIN emitted' = 1 .. 1 /\ emitted'[1] = e
  BY <1>0, EmittedByClose
<1>3. \A kind \in ChunkKinds : \A id : ~Started(kind, id)'
  BY <1>1, <1>2, StreamedTypes, TypesTellKinds DEF Started
<1>4. \A i \in DOMAIN emitted', kind \in ChunkKinds :
        emitted'[i].type = EndType(kind) =>
          i = 1 /\ Assembling(l) /\ kind = old.kind /\ emitted'[i] = EndEvent(old)
  BY <1>1, <1>2, StreamedTypes, TypesTellKinds
<1>5. \A kind \in ChunkKinds : \A id :
        Ended(kind, id)' <=> Assembling(l) /\ kind = old.kind /\ id = old.id
  <2> HIDE DEF old
  <2> QED
    BY <1>1, <1>4 DEF Ended
<1>6. \A kind, id : id \in Assembled(kind)' <=>
        \E j \in DOMAIN lanes : lanes[j].lane # l /\ lanes[j].kind = kind /\ lanes[j].id = id
  <2> TAKE kind, id
  <2>1. id \in Assembled(kind)' <=> \E j \in DOMAIN lanes' : lanes'[j].kind = kind /\ lanes'[j].id = id
    BY DEF Assembled, ToSet
  <2> QED
    BY <1>0, <2>1, WithoutFacts
<1>7. \A kind \in ChunkKinds : \A id :
         (\E j \in DOMAIN lanes : lanes[j].lane # l /\ lanes[j].kind = kind /\ lanes[j].id = id) <=>
           id \in Assembled(kind) /\ ~Ended(kind, id)'
  <2> TAKE kind \in ChunkKinds
  <2> TAKE id
  <2>1. \A j \in DOMAIN lanes : lanes[j].lane = l => Assembling(l) /\ lanes[j] = old
    BY <1>0, <1>1 DEF Assembling, LanesDisjoint
  <2>2. \A j \in DOMAIN lanes : Assembling(l) /\ lanes[j].kind = old.kind /\ lanes[j].id = old.id => lanes[j] = old
    BY <1>0, <1>1 DEF LanesDisjoint
  <2> HIDE DEF old
  <2> QED
    BY <1>1, <1>5, <2>1, <2>2, AssembledIn
<1>8. Balanced'
  <2>1. \A kind \in ChunkKinds : OpenIds(kind)' = OpenIds(kind)
    BY DEF OpenIds, ChunkKinds, vars, openVars
  <2> QED
    BY <1>3, <1>6, <1>7, <2>1, BalancedAtRest DEF Balanced
<1>9. EmittedOnce'
  BY <1>3, <1>4 DEF EmittedOnce
<1>10. RunLevelIsLast'
  <2>1. \A i \in DOMAIN emitted' : emitted'[i].type \notin RunLevel
    BY <1>1, <1>2, StreamedTypes
  <2> QED
    BY <2>1 DEF RunLevelIsLast
<1> QED
  BY <1>8, <1>9, <1>10 DEF BalanceInv

(* A run-level event ends all streams.                                     *)
LEMMA ClosingAllIsBalanced ==
  ASSUME LaneInv, BalanceInv, Live, ~streamFailed, UNCHANGED vars,
         NEW e \in EveryEvent, e.type \in RunLevel,
         emitted' = Append(AllEnds, e), lanes' = << >>
  PROVE  BalanceInv'
<1>0. CTypeOK /\ LanesDisjoint /\ lanes \in Seq(Stream) /\ DOMAIN lanes = 1 .. Len(lanes) /\ Len(lanes) \in Nat
  BY DEF LaneInv, CTypeOK
<1>1. \A j \in DOMAIN lanes :
        /\ lanes[j].kind \in ChunkKinds /\ EndEvent(lanes[j]).type = EndType(lanes[j].kind)
        /\ IdOf(lanes[j].kind, EndEvent(lanes[j])) = lanes[j].id
  <2> TAKE j \in DOMAIN lanes
  <2>1. lanes[j] \in Stream
    BY <1>0
  <2> QED
    BY <2>1, SynthesizedEvents DEF Stream, WireTags
<1>2. /\ DOMAIN emitted' = 1 .. Len(lanes) + 1 /\ Len(emitted') = Len(lanes) + 1
      /\ emitted'[Len(lanes) + 1] = e
      /\ \A j \in DOMAIN lanes : emitted'[j] = EndEvent(lanes[j])
  BY <1>0, EmittedByCloseAll
<1>3. \A i \in DOMAIN emitted' : i \in DOMAIN lanes \/ (i = Len(lanes) + 1 /\ emitted'[i] = e)
  BY <1>0, <1>2
<1>4. \A kind \in ChunkKinds : \A id : ~Started(kind, id)'
  <2>1. \A kind \in ChunkKinds, i \in DOMAIN emitted' : emitted'[i].type # StartType(kind)
    BY <1>1, <1>2, <1>3, StreamedTypes, TypesTellKinds
  <2> QED
    BY <2>1 DEF Started
<1>5. \A kind \in ChunkKinds, i \in DOMAIN emitted' :
        emitted'[i].type = EndType(kind) =>
          i \in DOMAIN lanes /\ lanes[i].kind = kind /\ IdOf(kind, emitted'[i]) = lanes[i].id
  BY <1>1, <1>2, <1>3, StreamedTypes, TypesTellKinds
<1>6. \A kind \in ChunkKinds : \A id : id \in Assembled(kind) => Ended(kind, id)'
  <2> TAKE kind \in ChunkKinds
  <2> TAKE id
  <2> HAVE id \in Assembled(kind)
  <2>1. PICK j \in DOMAIN lanes : lanes[j].kind = kind /\ lanes[j].id = id
    BY AssembledIn
  <2>2. j \in DOMAIN emitted' /\ emitted'[j].type = EndType(kind) /\ IdOf(kind, emitted'[j]) = id
    BY <1>0, <1>1, <1>2, <2>1
  <2> QED
    BY <2>2 DEF Ended
<1>7. \A kind : Assembled(kind)' = {}
  BY DEF Assembled, ToSet
<1>8. Balanced'
  <2>1. \A kind \in ChunkKinds : OpenIds(kind)' = OpenIds(kind)
    BY DEF OpenIds, ChunkKinds, vars, openVars
  <2> QED
    BY <1>4, <1>6, <1>7, <2>1, BalancedAtRest DEF Balanced
<1>9. EmittedOnce'
  BY <1>0, <1>4, <1>5 DEF EmittedOnce, LanesDisjoint
<1>10. RunLevelIsLast'
  <2>1. \A i \in DOMAIN lanes : emitted'[i].type \notin RunLevel
    BY <1>1, <1>2, StreamedTypes
  <2> QED
    BY <1>2, <1>3, <2>1 DEF RunLevelIsLast
<1> QED
  BY <1>8, <1>9, <1>10 DEF BalanceInv

LEMMA ReceiveIsBalanced == ASSUME ChunksOnly, LaneInv, BalanceInv, Receive PROVE BalanceInv'
<1>1. /\ UNCHANGED vars /\ Expand /\ CTypeOK /\ ~streamFailed
  BY DEF Receive, LaneInv
<1>2. ASSUME NEW c \in Chunk, ContinueStream(c) PROVE BalanceInv'
  <2>1. UNCHANGED <<lanes, expansion>> /\ Live
    BY <1>2 DEF ContinueStream
  <2>2. ASSUME NEW st \in Stream, NEW tag \in WireTags, emitted' = << ContentEvent(st, tag) >>
        PROVE  BalanceInv'
    <3>1. ContentEvent(st, tag).type = ContentType(st.kind) /\ st.kind \in ChunkKinds
      BY SynthesizedEvents DEF Stream
    <3>2. \A i \in DOMAIN emitted' : emitted'[i].type = ContentType(st.kind)
      BY <2>2, <3>1
    <3> QED
      BY <1>1, <2>1, <3>1, <3>2, StreamedTypes, TypesTellKinds, ContentIsBalanced
  <2>3. CASE emitted' = << >>
    BY <1>1, <2>1, <2>3, ContentIsBalanced
  <2> QED
    BY <1>1, <1>2, <2>2, <2>3, ContinueEmits
<1>3. ASSUME NEW c \in Chunk, OpenStream(c) PROVE BalanceInv'
  BY <1>1, <1>3, OpenStreamOpens, OpeningIsBalanced DEF OpenStream
<1>4. ASSUME NEW c \in Chunk, RejectChunk(c) PROVE BalanceInv'
  BY <1>4 DEF RejectChunk, BalanceInv
<1>5. ASSUME NEW e \in Event, ExplicitEvent(e) PROVE BalanceInv'
  <2>1. /\ emitted' = Append(Ends(LaneTag(e)), e) /\ lanes' = Without(LaneTag(e)) /\ Live
        /\ e \in EveryEvent /\ e.type \notin Streamed
    BY <1>5, EventsAreEvents, ProducersSendNone DEF ExplicitEvent
  <2>2. e.type \notin RunLevel
    BY <1>5 DEF ExplicitEvent, TextTypes, ReasoningTypes, RunLevel
  <2> QED
    BY <1>1, <2>1, <2>2, ClosingIsBalanced
<1>6. ASSUME NEW e \in Event, RunLevelEvent(e) PROVE BalanceInv'
  <2>1. /\ emitted' = Append(AllEnds, e) /\ lanes' = << >> /\ Live
        /\ e \in EveryEvent /\ e.type \in RunLevel
    BY <1>6, EventsAreEvents DEF RunLevelEvent, RunLevel
  <2> QED
    BY <1>1, <2>1, ClosingAllIsBalanced
<1>7. ASSUME NEW e \in Event, e.type \notin RunLevel, emitted' = << e >>, UNCHANGED lanes, Live
      PROVE  BalanceInv'
  <2>1. e.type \notin Streamed /\ \A i \in DOMAIN emitted' : emitted'[i] = e
    BY <1>7, ProducersSendNone
  <2> QED
    BY <1>1, <1>7, <2>1, StreamedTypes, ContentIsBalanced
<1>8. ASSUME NEW e \in Event, SubagentTerminal(e) PROVE BalanceInv'
  <2>1. e \in EveryEvent /\ Live /\ e.type \notin RunLevel /\ e.type \notin Streamed
    BY <1>8, EventsAreEvents, ProducersSendNone DEF SubagentTerminal, RunLevel
  <2>2. CASE emitted' = Append(Ends(e.subagentRunId), e) /\ lanes' = Without(e.subagentRunId)
    BY <1>1, <2>1, <2>2, ClosingIsBalanced
  <2>3. CASE emitted' = << e >> /\ UNCHANGED lanes
    BY <1>7, <2>1, <2>3
  <2> QED
    BY <1>8, <2>2, <2>3 DEF SubagentTerminal
<1>9. ASSUME NEW e \in Event, StandAside(e) PROVE BalanceInv'
  BY <1>7, <1>9 DEF StandAside, RunLevel
<1>10. CASE Complete
  BY <1>10 DEF Complete, BalanceInv
<1> QED
  BY <1>1, <1>2, <1>3, <1>4, <1>5, <1>6, <1>8, <1>9, <1>10 DEF Expand

(* The verifier takes the first of what is emitted.                        *)
LEMMA EmittedShrinks ==
  ASSUME LaneInv, Deliver
  PROVE  /\ Head(emitted) = emitted[1] /\ emitted[1] \in EveryEvent /\ 1 \in DOMAIN emitted
         /\ Accept(emitted[1]) /\ UNCHANGED <<lanes, expansion>>
         /\ DOMAIN emitted = 1 .. Len(emitted) /\ Len(emitted) \in Nat
         /\ DOMAIN emitted' = 1 .. Len(emitted) - 1 /\ Len(emitted') = Len(emitted) - 1
         /\ \A i \in DOMAIN emitted' : i + 1 \in DOMAIN emitted /\ emitted'[i] = emitted[i + 1]
         /\ \A i \in DOMAIN emitted : i = 1 \/ (i - 1 \in DOMAIN emitted' /\ emitted'[i - 1] = emitted[i])
<1>1. emitted \in Seq(EveryEvent) /\ emitted # << >> /\ emitted' = Tail(emitted)
      /\ UNCHANGED <<lanes, expansion>> /\ Accept(Head(emitted))
  BY DEF LaneInv, CTypeOK, Deliver
<1> QED
  BY <1>1, TailFacts

LEMMA DeliverIsBalanced == ASSUME LaneInv, BalanceInv, Deliver PROVE BalanceInv'
<1> SUFFICES ASSUME expansion' = "live", ~streamFailed'
             PROVE  Balanced' /\ EmittedOnce' /\ RunLevelIsLast'
  BY DEF BalanceInv
<1> DEFINE e == emitted[1]
<1>1. /\ e \in EveryEvent /\ Accept(e) /\ UNCHANGED <<lanes, expansion>> /\ 1 \in DOMAIN emitted
      /\ DOMAIN emitted = 1 .. Len(emitted) /\ Len(emitted) \in Nat
      /\ DOMAIN emitted' = 1 .. Len(emitted) - 1 /\ Len(emitted') = Len(emitted) - 1
      /\ \A i \in DOMAIN emitted' : i + 1 \in DOMAIN emitted /\ emitted'[i] = emitted[i + 1]
      /\ \A i \in DOMAIN emitted : i = 1 \/ (i - 1 \in DOMAIN emitted' /\ emitted'[i - 1] = emitted[i])
  BY EmittedShrinks
<1>2. ~streamFailed
  BY <1>1 DEF Accept, TextMessageStart, TextMessageEnd, ToolCallStart, ToolCallEnd,
     ToolCallResult, StepStarted, StepFinished, ActivitySnapshot, ReasoningStart, ReasoningEnd,
     PassThrough, SubagentStarted, SubagentClosed, MessagesSnapshot, RunStarted, RunFinished,
     RunError, Accepted
<1>3. Balanced /\ EmittedOnce /\ RunLevelIsLast
  BY <1>1, <1>2 DEF BalanceInv
<1> HIDE DEF e
<1>4. \A kind \in ChunkKinds : \A id :
        /\ Started(kind, id) <=> Started(kind, id)' \/ (e.type = StartType(kind) /\ IdOf(kind, e) = id)
        /\ Ended(kind, id) <=> Ended(kind, id)' \/ (e.type = EndType(kind) /\ IdOf(kind, e) = id)
  BY <1>1 DEF Started, Ended, e
<1>5. \A kind \in ChunkKinds : \A id : e.type = EndType(kind) /\ IdOf(kind, e) = id => ~Ended(kind, id)'
  <2> SUFFICES ASSUME NEW kind \in ChunkKinds, e.type = EndType(kind),
                      NEW i \in DOMAIN emitted', emitted'[i].type = EndType(kind),
                      IdOf(kind, emitted'[i]) = IdOf(kind, e)
               PROVE  FALSE
    BY DEF Ended
  <2>1. i + 1 \in DOMAIN emitted /\ emitted'[i] = emitted[i + 1] /\ i + 1 # 1
    BY <1>1
  <2> QED
    BY <1>1, <1>3, <2>1 DEF EmittedOnce, e
<1>6. EmittedOnce'
  BY <1>1, <1>3, <1>4 DEF EmittedOnce
<1>7. RunLevelIsLast'
  <2> SUFFICES ASSUME NEW i \in DOMAIN emitted', emitted'[i].type \in RunLevel
               PROVE  i = Len(emitted') /\ lanes' = << >>
    BY DEF RunLevelIsLast
  <2>1. i + 1 = Len(emitted) /\ lanes = << >>
    BY <1>1, <1>3 DEF RunLevelIsLast
  <2> QED
    BY <1>1, <2>1
<1>8. \A kind : Assembled(kind)' = Assembled(kind)
  BY <1>1 DEF Assembled
<1>9. CASE e.type = "RUN_STARTED"
  <2>1. lanes = << >> /\ Len(emitted) = 1
    BY <1>1, <1>3, <1>9 DEF RunLevelIsLast, RunLevel, e
  <2>2. \A kind \in ChunkKinds : \A id : ~Started(kind, id)'
    BY <1>1, <2>1 DEF Started
  <2>3. \A kind : Assembled(kind) = {}
    BY <2>1 DEF Assembled, ToSet
  <2>4. \A kind \in ChunkKinds : OpenIds(kind)' = {}
    BY <1>1, <1>9, OpenIdsStep DEF LaneInv
  <2>5. Balanced'
    BY <1>8, <2>2, <2>3, <2>4 DEF Balanced
  <2> QED
    BY <1>6, <1>7, <2>5
<1>10. CASE e.type # "RUN_STARTED"
  <2>1. \A kind \in ChunkKinds :
          OpenIds(kind)' = IF e.type = StartType(kind) THEN OpenIds(kind) \cup {IdOf(kind, e)}
                           ELSE IF e.type = EndType(kind) THEN OpenIds(kind) \ {IdOf(kind, e)}
                           ELSE OpenIds(kind)
    BY <1>1, <1>10, OpenIdsStep DEF LaneInv
  <2>2. ASSUME NEW kind \in ChunkKinds, NEW id \in Ids
        PROVE  id \in Assembled(kind)' <=>
                 (id \in OpenIds(kind)' /\ ~Ended(kind, id)') \/ Started(kind, id)'
    <3>1. id \in Assembled(kind)' <=> (id \in OpenIds(kind) /\ ~Ended(kind, id)) \/ Started(kind, id)
      BY <1>3, <1>8 DEF Balanced
    <3>2. ~(Started(kind, id) /\ Ended(kind, id))
      BY <1>3 DEF EmittedOnce
    <3>3. CASE e.type = StartType(kind)
      BY <1>4, <2>1, <3>1, <3>2, <3>3, TypesTellKinds
    <3>4. CASE e.type = EndType(kind)
      BY <1>4, <1>5, <2>1, <3>1, <3>2, <3>4, TypesTellKinds
    <3>5. CASE e.type # StartType(kind) /\ e.type # EndType(kind)
      BY <1>4, <2>1, <3>1, <3>5
    <3> QED
      BY <3>3, <3>4, <3>5
  <2>3. Balanced'
    BY <2>2 DEF Balanced
  <2> QED
    BY <1>6, <1>7, <2>3
<1> QED
  BY <1>9, <1>10

LEMMA BalanceInit == PipelineInit => BalanceInv
<1> SUFFICES ASSUME PipelineInit PROVE BalanceInv
  OBVIOUS
<1>1. lanes = << >> /\ emitted = << >>
  BY DEF PipelineInit, CInit
<1>2. \A kind \in ChunkKinds : OpenIds(kind) = {} /\ Assembled(kind) = {}
  BY <1>1 DEF PipelineInit, Init, OpenIds, ChunkKinds, Assembled, ToSet
<1>3. \A kind, id : ~Started(kind, id)
  BY <1>1 DEF Started
<1> QED
  BY <1>1, <1>2, <1>3 DEF BalanceInv, Balanced, EmittedOnce, RunLevelIsLast, Started, Ended

LEMMA BalanceNext ==
  ASSUME ChunksOnly, LaneInv, BalanceInv, [PipelineNext]_pipelineVars
  PROVE  BalanceInv'
<1>1. CASE Break
  BY <1>1 DEF Break, Reject, BalanceInv
<1>2. CASE UNCHANGED pipelineVars
  BY <1>2 DEF pipelineVars, chunkVars, vars, openVars, BalanceInv, Balanced, EmittedOnce,
     RunLevelIsLast, Started, Ended, OpenIds, Assembled
<1> QED
  BY <1>1, <1>2, ReceiveIsBalanced, DeliverIsBalanced DEF PipelineNext

(* When all streams come as chunks: between source events the verifier has *)
(* open exactly what the lanes assemble, for any number of producers, ids  *)
(* and runs, whatever other events come in between.                        *)
THEOREM OpenStreamsAreTheLanes ==
  ASSUME ChunksOnly
  PROVE  PipelineSpec => []LanesAreTheOpenStreams
<1>1. ASSUME LaneInv, BalanceInv, Idle PROVE LanesAreTheOpenStreams
  <2>1. \A kind \in ChunkKinds, id \in Ids : id \in Assembled(kind) <=> id \in OpenIds(kind)
    BY <1>1, BalancedAtRest DEF Idle, Live
  <2>2. \A kind \in ChunkKinds : Assembled(kind) \subseteq Ids /\ OpenIds(kind) \subseteq Ids
    <3>1. \A j \in DOMAIN lanes : lanes[j] \in Stream
      BY <1>1 DEF LaneInv, CTypeOK
    <3>2. \A j \in DOMAIN lanes : lanes[j].id \in Ids
      BY <3>1 DEF Stream
    <3>3. \A kind \in ChunkKinds : OpenIds(kind) \subseteq Ids
      BY <1>1 DEF LaneInv, IInv, TypeOK, OpenIds, ChunkKinds
    <3> QED
      BY <3>2, <3>3, AssembledIn
  <2>3. \A kind \in ChunkKinds : Assembled(kind) = OpenIds(kind)
    BY <2>1, <2>2
  <2> QED
    BY <2>3 DEF LanesAreTheOpenStreams, OpenIds, ChunkKinds
<1>2. LaneInv /\ BalanceInv => LanesAreTheOpenStreams
  BY <1>1 DEF LanesAreTheOpenStreams
<1>3. LaneInv /\ BalanceInv /\ [PipelineNext]_pipelineVars => BalanceInv'
  BY BalanceNext
<1> QED
  BY <1>2, <1>3, BalanceInit, LaneInvHolds, PTL DEF PipelineSpec

-----------------------------------------------------------------------------
(* Continuations are not refused.                                          *)

(* A chunk goes to a lane that its tag does not contradict.                *)
LEMMA ResolvedTag ==
  ASSUME NEW c, NEW l \in ResolveLane(c)
  PROVE  LaneTag(c) \in {Absent, l}
  BY DEF ResolveLane

(* An owner on record is not replaced while streams are in assembly.       *)
LEMMA OwnerKept ==
  ASSUME IInv, NEW e \in EveryEvent, Accept(e),
         e.type \notin {"RUN_STARTED", "MESSAGES_SNAPSHOT", "TOOL_CALL_RESULT"},
         NEW kind \in ChunkKinds, NEW id \in Ids, OwnerOf(kind, id) # Unowned
  PROVE  OwnerOf(kind, id)' = OwnerOf(kind, id)
<1>0. owners \in OwnerMap /\ Unowned \notin Tags
  BY UnownedIsNoTag DEF IInv, TypeOK, OwnerMap, WireTags
<1>1. ASSUME NEW k \in Kinds, NEW i \in Ids, NEW tag \in Tags, owners' = Claim(k, i, tag)
      PROVE  OwnerOf(kind, id)' = OwnerOf(kind, id)
  BY <1>0, <1>1, ClaimFacts DEF OwnerOf, ChunkKinds, Kinds
<1>2. CASE UNCHANGED owners
  BY <1>2 DEF OwnerOf, ChunkKinds
<1>3. CASE TextMessageStart(e)
  BY <1>1, <1>3, EventFields DEF TextMessageStart, TextTypes, Kinds
<1>4. CASE ToolCallStart(e)
  <2> DEFINE owner == IF Tag(e) = Absent /\ Inherited(e) # Unowned THEN Inherited(e) ELSE Tag(e)
  <2>1. e.toolCallId \in Ids /\ owner \in Tags /\ "toolCall" \in Kinds
    BY <1>0, <1>4, EventFields DEF ToolCallStart, Kinds, Inherited, OwnerMap
  <2>2. owners' = Claim("toolCall", e.toolCallId, owner)
    BY <1>4 DEF ToolCallStart
  <2> HIDE DEF owner
  <2> QED
    BY <1>1, <2>1, <2>2
<1>5. CASE ReasoningStart(e)
  BY <1>1, <1>5, EventFields DEF ReasoningStart, ReasoningTypes, Kinds
<1>6. CASE ActivitySnapshot(e)
  <2>1. e.messageId \in Ids /\ Tag(e) \in Tags /\ "activity" \in Kinds
    BY <1>6, EventFields DEF ActivitySnapshot, Kinds
  <2>2. CASE e.replace
    BY <1>0, <1>6, <2>1, <2>2 DEF ActivitySnapshot, OwnerOf, ChunkKinds, OwnerMap, Kinds
  <2>3. CASE ~e.replace
    BY <1>1, <1>6, <2>1, <2>3 DEF ActivitySnapshot
  <2> QED
    BY <2>2, <2>3
<1> QED
  BY <1>2, <1>3, <1>4, <1>5, <1>6 DEF Accept, TextMessageEnd, ToolCallEnd, ToolCallResult,
     StepStarted, StepFinished, ReasoningEnd, PassThrough, SubagentStarted, SubagentClosed,
     MessagesSnapshot, RunStarted, RunFinished, RunError

(* An opener that is accepted leaves an owner that agrees with its tag.    *)
LEMMA OpenerAgrees ==
  ASSUME IInv, NEW e \in EveryEvent, Accept(e), NEW kind \in ChunkKinds, e.type = StartType(kind)
  PROVE  TagAgrees(Tag(e), OwnerOf(kind, IdOf(kind, e))')
<1>0. owners \in OwnerMap
  BY DEF IInv, TypeOK, OwnerMap
<1>1. ASSUME NEW k \in Kinds, NEW i \in Ids, NEW tag, owners' = Claim(k, i, tag),
             TagAgrees(Tag(e), owners[k][i]), TagAgrees(Tag(e), tag)
      PROVE  TagAgrees(Tag(e), owners'[k][i])
  BY <1>0, <1>1 DEF Claim, OwnerMap
<1>2. CASE kind = "text"
  <2>1. TextMessageStart(e) /\ e.messageId \in Ids
    BY <1>2, EventFields DEF StartType, Accept, TextMessageStart, TextMessageEnd, ToolCallStart, ToolCallEnd,
       ToolCallResult, StepStarted, StepFinished, ActivitySnapshot, ReasoningStart, ReasoningEnd,
       PassThrough, SubagentStarted, SubagentClosed, MessagesSnapshot, RunStarted, RunFinished,
       RunError, TextTypes
  <2>2. TagAgrees(Tag(e), owners.message[e.messageId])
    BY <2>1 DEF TextMessageStart, Accepted, Accepts, CaseAllows, MayOpenMessage
  <2>3. TagAgrees(Tag(e), owners'["message"][e.messageId])
    BY <1>1, <2>1, <2>2 DEF TextMessageStart, Kinds, TagAgrees
  <2> QED
    BY <1>2, <2>3 DEF OwnerOf, IdOf
<1>3. CASE kind = "tool"
  <2>1. ToolCallStart(e) /\ e.toolCallId \in Ids
    BY <1>3, EventFields DEF StartType, Accept, TextMessageStart, TextMessageEnd, ToolCallStart, ToolCallEnd,
       ToolCallResult, StepStarted, StepFinished, ActivitySnapshot, ReasoningStart, ReasoningEnd,
       PassThrough, SubagentStarted, SubagentClosed, MessagesSnapshot, RunStarted, RunFinished,
       RunError
  <2>2. TagAgrees(Tag(e), owners.toolCall[e.toolCallId])
    BY <2>1 DEF ToolCallStart, Accepted, Accepts, CaseAllows, MayOpenToolCall
  <2>3. TagAgrees(Tag(e), owners'["toolCall"][e.toolCallId])
    BY <1>1, <2>1, <2>2 DEF ToolCallStart, Kinds, TagAgrees
  <2> QED
    BY <1>3, <2>3 DEF OwnerOf, IdOf
<1>4. CASE kind = "reasoning"
  <2>1. ReasoningStart(e) /\ e.messageId \in Ids
    BY <1>4, EventFields DEF StartType, Accept, TextMessageStart, TextMessageEnd, ToolCallStart, ToolCallEnd,
       ToolCallResult, StepStarted, StepFinished, ActivitySnapshot, ReasoningStart, ReasoningEnd,
       PassThrough, SubagentStarted, SubagentClosed, MessagesSnapshot, RunStarted, RunFinished,
       RunError, ReasoningTypes
  <2>2. TagAgrees(Tag(e), owners.reasoning[e.messageId])
    BY <2>1 DEF ReasoningStart, Accepted, Accepts, CaseAllows, MayOpenReasoning
  <2>3. TagAgrees(Tag(e), owners'["reasoning"][e.messageId])
    BY <1>1, <2>1, <2>2 DEF ReasoningStart, Kinds, TagAgrees
  <2> QED
    BY <1>4, <2>3 DEF OwnerOf, IdOf
<1> QED
  BY <1>2, <1>3, <1>4 DEF ChunkKinds

(* A continuation or an end that is accounted for is accepted.             *)
LEMMA AccountedAccepted ==
  ASSUME IInv, ErrorsCloseAll, NEW kind \in ChunkKinds, NEW e \in EveryEvent,
         e.type \in {ContentType(kind), EndType(kind)}, Accounted(kind, e)
  PROVE  Accepts(e)
<1>1. ~NothingOpen /\ ~runError
  BY DEF Accounted, OpenIds, ChunkKinds, NothingOpen, ErrorsCloseAll
<1>2. runStarted /\ ~runFinished /\ firstEventReceived
  BY <1>1 DEF IInv, FlagsAgree, FinishedMeansClosed
<1>3. e.type \notin {"RUN_STARTED", "RUN_ERROR"}
  BY DEF ChunkKinds, ContentType, EndType
<1>4. RunAllows(e)
  BY <1>1, <1>2, <1>3 DEF RunAllows
<1>5. CASE kind = "text"
  BY <1>4, <1>5 DEF Accounted, IdOf, OpenIds, OwnerOf, ContentType, EndType, Accepts, CaseAllows,
     MayContinueMessage
<1>6. CASE kind = "tool"
  BY <1>4, <1>6 DEF Accounted, IdOf, OpenIds, OwnerOf, ContentType, EndType, Accepts, CaseAllows,
     MayContinueToolCall
<1>7. CASE kind = "reasoning"
  BY <1>4, <1>7 DEF Accounted, IdOf, OpenIds, OwnerOf, ContentType, EndType, Accepts, CaseAllows,
     MayContinueReasoning, OpenReasoning
<1> QED
  BY <1>5, <1>6, <1>7 DEF ChunkKinds

(* runError is set by RUN_ERROR and cleared by RUN_STARTED.                *)
LEMMA ErrorStep ==
  ASSUME IInv, NEW e \in EveryEvent, Accept(e), runError'
  PROVE  e.type = "RUN_ERROR"
<1>1. CASE RunStarted(e)
  BY <1>1, RunStartedIsFresh
<1>2. CASE RunError(e)
  BY <1>2 DEF RunError
<1>3. CASE ~RunStarted(e) /\ ~RunError(e)
  <2>1. e.type \notin {"RUN_STARTED", "RUN_ERROR"} /\ Accepted(e) /\ runError' = runError
    BY <1>3 DEF Accept, TextMessageStart, TextMessageEnd, ToolCallStart, ToolCallEnd,
       ToolCallResult, StepStarted, StepFinished, ActivitySnapshot, ReasoningStart, ReasoningEnd,
       PassThrough, SubagentStarted, SubagentClosed, MessagesSnapshot, RunFinished, runVars
  <2> QED
    BY <2>1, OnlyInRun
<1> QED
  BY <1>1, <1>2, <1>3

(* A source event leaves the verifier alone: the owners of the streams in  *)
(* assembly agree with their lanes, so the ends emitted for them do.       *)
LEMMA AtRest ==
  ASSUME LaneInv, BalanceInv, AgreementInv, Live, ~streamFailed, UNCHANGED vars
  PROVE  /\ \A kind \in ChunkKinds : \A id :
              OpenIds(kind)' = OpenIds(kind) /\ OwnerOf(kind, id)' = OwnerOf(kind, id)
         /\ \A j \in DOMAIN lanes :
              LET st == lanes[j] IN
              /\ st \in Stream /\ st.kind \in ChunkKinds /\ st.id \in OpenIds(st.kind)
              /\ TagAgrees(st.lane, OwnerOf(st.kind, st.id))
              /\ EndEvent(st).type = EndType(st.kind) /\ IdOf(st.kind, EndEvent(st)) = st.id
              /\ Tag(EndEvent(st)) = st.lane
<1>1. \A kind \in ChunkKinds : \A id :
        OpenIds(kind)' = OpenIds(kind) /\ OwnerOf(kind, id)' = OwnerOf(kind, id)
  BY DEF OpenIds, OwnerOf, ChunkKinds, vars, openVars
<1>2. ASSUME NEW j \in DOMAIN lanes
      PROVE  LET st == lanes[j] IN
             /\ st \in Stream /\ st.kind \in ChunkKinds /\ st.id \in OpenIds(st.kind)
             /\ TagAgrees(st.lane, OwnerOf(st.kind, st.id))
             /\ EndEvent(st).type = EndType(st.kind) /\ IdOf(st.kind, EndEvent(st)) = st.id
             /\ Tag(EndEvent(st)) = st.lane
  <2> DEFINE st == lanes[j]
  <2>1. st \in Stream
    BY DEF LaneInv, CTypeOK
  <2>2. st.kind \in ChunkKinds /\ st.id \in Ids /\ st.subagentRunId \in WireTags
    BY <2>1 DEF Stream
  <2>3. st.id \in OpenIds(st.kind)
    BY <2>2, AssembledIn, BalancedAtRest
  <2>4. TagAgrees(st.lane, OwnerOf(st.kind, st.id))
    BY <2>3 DEF AgreementInv, LanesAgree, Live
  <2>5. st.lane = IF st.subagentRunId = Null THEN Absent ELSE st.subagentRunId
    BY DEF LaneInv, LanesAreTags
  <2> HIDE DEF st
  <2>6. /\ EndEvent(st).type = EndType(st.kind) /\ IdOf(st.kind, EndEvent(st)) = st.id
        /\ EndEvent(st).subagentRunId = st.subagentRunId
    BY <2>1, <2>2, SynthesizedEvents
  <2> QED
    BY <2>1, <2>2, <2>3, <2>4, <2>5, <2>6 DEF Tag, st
<1> QED
  BY <1>1, <1>2

(* What a source event must expand into.                                   *)
LEMMA ExpansionAgrees ==
  ASSUME LaneInv, BalanceInv, AgreementInv, Live, ~streamFailed, UNCHANGED <<vars, expansion>>,
         \A j \in DOMAIN lanes' :
           \/ \E m \in DOMAIN lanes : lanes'[j] = lanes[m]
           \/ lanes'[j].kind \in ChunkKinds /\ lanes'[j].id \notin OpenIds(lanes'[j].kind),
         \A kind \in ChunkKinds, i \in DOMAIN emitted' :
           emitted'[i].type = EndType(kind) =>
             \E m \in DOMAIN lanes : lanes[m].kind = kind /\ emitted'[i] = EndEvent(lanes[m]),
         StartsAgree', ContentAgrees', NoResults'
  PROVE  AgreementInv'
<1>1. LanesAgree'
  <2> SUFFICES ASSUME NEW j \in DOMAIN lanes',
                      (lanes[j].id \in OpenIds(lanes[j].kind))'
               PROVE  TagAgrees(lanes[j].lane, OwnerOf(lanes[j].kind, lanes[j].id))'
    BY DEF LanesAgree
  <2>1. CASE \E m \in DOMAIN lanes : lanes'[j] = lanes[m]
    <3>1. PICK m \in DOMAIN lanes : lanes'[j] = lanes[m]
      BY <2>1
    <3>2. /\ OpenIds(lanes[j].kind)' = OpenIds(lanes[m].kind)
          /\ OwnerOf(lanes[j].kind, lanes[j].id)' = OwnerOf(lanes[m].kind, lanes[m].id)
      BY <3>1, AtRest DEF OpenIds, OwnerOf, vars, openVars
    <3> QED
      BY <3>1, <3>2, AtRest DEF TagAgrees
  <2>2. CASE lanes'[j].kind \in ChunkKinds /\ lanes'[j].id \notin OpenIds(lanes'[j].kind)
    BY <2>2 DEF OpenIds, vars, openVars
  <2> QED
    BY <2>1, <2>2
<1>2. EndsAgree'
  <2> SUFFICES ASSUME NEW kind \in ChunkKinds, NEW i \in DOMAIN emitted',
                      emitted'[i].type = EndType(kind)
               PROVE  Accounted(kind, emitted[i])'
    BY DEF EndsAgree
  <2>1. PICK m \in DOMAIN lanes : lanes[m].kind = kind /\ emitted'[i] = EndEvent(lanes[m])
    OBVIOUS
  <2> QED
    BY <2>1, AtRest DEF Accounted, TagAgrees, Tag
<1>3. ErrorsCloseAll'
  <2>1. ErrorsCloseAll
    BY DEF AgreementInv, Live
  <2> QED
    BY <2>1, AtRest DEF ErrorsCloseAll, vars, runVars
<1>4. ~streamFailed' /\ expansion' = "live"
  BY DEF vars, Live
<1> QED
  BY <1>1, <1>2, <1>3, <1>4 DEF AgreementInv, ContinuationsNeverRefused

LEMMA OpeningAgrees ==
  ASSUME LaneInv, BalanceInv, AgreementInv, Live, ~streamFailed, UNCHANGED vars,
         NEW st \in Stream, NEW content \in BOOLEAN, Opens(st, content)
  PROVE  AgreementInv'
<1> DEFINE l == st.lane
           old == lanes[PositionOf(l)]
           rest == Without(l)
           a == IF Assembling(l) THEN 1 ELSE 0
           start == StartEvent(st)
           delta == ContentEvent(st, st.subagentRunId)
<1>0. CTypeOK /\ LanesDisjoint
  BY DEF LaneInv
<1>1. st.kind \in ChunkKinds /\ st.id \in Ids /\ st.subagentRunId \in WireTags
  BY DEF Stream
<1>2. Assembling(l) => /\ old.kind \in ChunkKinds /\ PositionOf(l) \in DOMAIN lanes
                       /\ EndEvent(old).type = EndType(old.kind)
  BY <1>0, EndsAreEnds
<1>3. /\ start.type = StartType(st.kind) /\ IdOf(st.kind, start) = st.id
      /\ start.subagentRunId = st.subagentRunId
      /\ delta.type = ContentType(st.kind) /\ IdOf(st.kind, delta) = st.id
      /\ delta.subagentRunId = st.subagentRunId
  BY <1>1, SynthesizedEvents
<1>4. Tag(start) = l /\ Tag(delta) = l
  BY <1>3 DEF Opens, Tag
<1>5. /\ a \in {0, 1} /\ a + 1 \in DOMAIN emitted' /\ emitted'[a + 1] = start
      /\ \A i \in DOMAIN emitted' :
           \/ i = 1 /\ Assembling(l) /\ emitted'[i] = EndEvent(old)
           \/ i = a + 1 /\ emitted'[i] = start
           \/ i = a + 2 /\ emitted'[i] = delta
  BY DEF Opens
<1> HIDE DEF old, start, delta, a
<1>6. /\ \A j \in DOMAIN lanes' : (\E m \in DOMAIN lanes : lanes'[j] = lanes[m]) \/ lanes'[j] = st
      /\ \E j \in DOMAIN lanes' : lanes'[j] = st
  <2>1. \A i \in DOMAIN rest : \E j \in DOMAIN lanes : rest[i] = lanes[j]
    BY <1>0, WithoutFacts
  <2>2. /\ Len(rest) \in Nat /\ DOMAIN rest = 1 .. Len(rest) /\ DOMAIN lanes' = 1 .. Len(rest) + 1
        /\ lanes'[Len(rest) + 1] = st /\ \A i \in DOMAIN rest : lanes'[i] = rest[i]
    BY <1>0, OpenedLanes
  <2> HIDE DEF rest
  <2> QED
    BY <2>1, <2>2
<1>7. st.id \notin OpenIds(st.kind)
  BY <1>1, AssembledIn, BalancedAtRest DEF Opens
<1>8. ASSUME NEW kind \in ChunkKinds, NEW i \in DOMAIN emitted', emitted'[i].type = EndType(kind)
      PROVE  \E m \in DOMAIN lanes : lanes[m].kind = kind /\ emitted'[i] = EndEvent(lanes[m])
  BY <1>1, <1>2, <1>3, <1>5, <1>8, TypesTellKinds DEF old
<1>9. StartsAgree'
  <2> SUFFICES ASSUME NEW kind \in ChunkKinds, NEW i \in DOMAIN emitted', emitted'[i].type = StartType(kind)
               PROVE  \E j \in DOMAIN lanes' :
                        /\ lanes'[j].kind = kind /\ lanes'[j].id = IdOf(kind, emitted'[i])
                        /\ lanes'[j].lane = Tag(emitted'[i])
    BY DEF StartsAgree, Tag, IdOf
  <2>1. emitted'[i] = start /\ kind = st.kind
    BY <1>1, <1>2, <1>3, <1>5, TypesTellKinds
  <2> QED
    BY <1>3, <1>4, <1>6, <2>1
<1>10. ContentAgrees'
  <2> SUFFICES ASSUME NEW kind \in ChunkKinds, NEW i \in DOMAIN emitted', emitted'[i].type = ContentType(kind)
               PROVE  /\ i > 1 /\ emitted'[i - 1].type = StartType(kind)
                      /\ IdOf(kind, emitted'[i - 1]) = IdOf(kind, emitted'[i])
                      /\ Tag(emitted'[i - 1]) = Tag(emitted'[i])
    BY DEF ContentAgrees, Tag, IdOf
  <2>1. emitted'[i] = delta /\ kind = st.kind /\ i = a + 2
    BY <1>1, <1>2, <1>3, <1>5, TypesTellKinds
  <2>2. i - 1 = a + 1 /\ i > 1
    BY <1>5, <2>1
  <2> QED
    BY <1>3, <1>4, <1>5, <2>1, <2>2
<1>11. NoResults'
  <2>1. \A i \in DOMAIN emitted' : emitted'[i].type \in Streamed
    BY <1>1, <1>2, <1>3, <1>5, StreamedTypes
  <2> QED
    BY <2>1 DEF NoResults, Streamed
<1>12. UNCHANGED expansion
  BY DEF Opens
<1> QED
  BY <1>1, <1>6, <1>7, <1>8, <1>9, <1>10, <1>11, <1>12, ExpansionAgrees

(* Events that end streams: what is emitted are ends of lanes, and the     *)
(* event.                                                                  *)
LEMMA EndingAgrees ==
  ASSUME LaneInv, BalanceInv, AgreementInv, Live, ~streamFailed, UNCHANGED <<vars, expansion>>,
         NEW e \in EveryEvent, e.type \notin Streamed, e.type # "TOOL_CALL_RESULT",
         \A j \in DOMAIN lanes' : \E m \in DOMAIN lanes : lanes'[j] = lanes[m],
         \A i \in DOMAIN emitted' :
           emitted'[i] = e \/ \E m \in DOMAIN lanes : emitted'[i] = EndEvent(lanes[m])
  PROVE  AgreementInv'
<1>1. \A m \in DOMAIN lanes :
        lanes[m].kind \in ChunkKinds /\ EndEvent(lanes[m]).type = EndType(lanes[m].kind)
  BY AtRest
<1>2. ASSUME NEW kind \in ChunkKinds, NEW i \in DOMAIN emitted'
      PROVE  /\ emitted'[i].type = EndType(kind) =>
                  \E m \in DOMAIN lanes : lanes[m].kind = kind /\ emitted'[i] = EndEvent(lanes[m])
             /\ emitted'[i].type \notin {StartType(kind), ContentType(kind)}
  <2>1. CASE emitted'[i] = e
    BY <2>1, StreamedTypes
  <2>2. ASSUME NEW m \in DOMAIN lanes, emitted'[i] = EndEvent(lanes[m])
        PROVE  /\ emitted'[i].type = EndType(kind) => lanes[m].kind = kind
               /\ emitted'[i].type \notin {StartType(kind), ContentType(kind)}
    BY <1>1, <2>2, TypesTellKinds
  <2> QED
    BY <2>1, <2>2
<1>3. StartsAgree'
  BY <1>2 DEF StartsAgree
<1>4. ContentAgrees'
  BY <1>2 DEF ContentAgrees
<1>5. NoResults'
  <2>1. \A i \in DOMAIN emitted' : emitted'[i] = e \/ emitted'[i].type \in Streamed
    BY <1>1, StreamedTypes
  <2> QED
    BY <2>1 DEF NoResults, Streamed
<1> QED
  BY <1>2, <1>3, <1>4, <1>5, ExpansionAgrees

(* A chunk that continues a stream.                                        *)
LEMMA ContinuingAgrees ==
  ASSUME LaneInv, BalanceInv, AgreementInv, Live, ~streamFailed, UNCHANGED vars,
         NEW c \in Chunk, ContinueStream(c)
  PROVE  AgreementInv'
<1>0. CTypeOK /\ UNCHANGED <<lanes, expansion>>
  BY DEF LaneInv, ContinueStream
<1>1. CASE emitted' = << >>
  <2>1. StartsAgree' /\ ContentAgrees' /\ NoResults'
    BY <1>1 DEF StartsAgree, ContentAgrees, NoResults
  <2> QED
    BY <1>0, <1>1, <2>1, ExpansionAgrees
<1>2. ASSUME NEW l \in ResolveLane(c), NEW st \in Stream, NEW tag \in {st.subagentRunId, c.subagentRunId},
             NEW m \in DOMAIN lanes, lanes[m] = st, Continues(c, st, l),
             tag \in WireTags, emitted' = << ContentEvent(st, tag) >>
      PROVE  AgreementInv'
  <2> DEFINE e == ContentEvent(st, tag)
  <2>1. e.type = ContentType(st.kind) /\ IdOf(st.kind, e) = st.id /\ e.subagentRunId = tag
    BY <1>2, SynthesizedEvents
  <2>2. st.kind \in ChunkKinds /\ st.id \in OpenIds(st.kind) /\ TagAgrees(st.lane, OwnerOf(st.kind, st.id))
    BY <1>2, AtRest
  <2>3. DOMAIN emitted' = {1} /\ emitted'[1] = e
    BY <1>2
  <2> HIDE DEF e
  <2>4. Tag(e) \in {Absent, st.lane}
    <3>1. LaneTag(c) \in {Absent, l} /\ l = st.lane
      BY <1>2, ResolvedTag DEF Continues
    <3>2. st.lane = IF st.subagentRunId = Null THEN Absent ELSE st.subagentRunId
      BY <1>2 DEF LaneInv, LanesAreTags
    <3> QED
      BY <2>1, <3>1, <3>2 DEF Tag, LaneTag
  <2>5. TagAgrees(Tag(e), OwnerOf(st.kind, st.id))
    BY <2>2, <2>4 DEF TagAgrees
  <2>6. ContentAgrees'
    <3> SUFFICES ASSUME NEW kind \in ChunkKinds, NEW i \in DOMAIN emitted', emitted'[i].type = ContentType(kind)
                 PROVE  i = 1 /\ Accounted(kind, emitted[i])'
      BY DEF ContentAgrees
    <3>1. i = 1 /\ emitted'[i] = e /\ kind = st.kind
      BY <2>1, <2>2, <2>3, TypesTellKinds
    <3>2. OpenIds(kind)' = OpenIds(kind) /\ \A id : OwnerOf(kind, id)' = OwnerOf(kind, id)
      BY AtRest
    <3> QED
      BY <2>1, <2>2, <2>5, <3>1, <3>2 DEF Accounted, TagAgrees, Tag, IdOf
  <2>7. StartsAgree' /\ NoResults'
    BY <2>1, <2>2, <2>3, StreamTypes, TypesTellKinds DEF StartsAgree, NoResults
  <2>8. \A kind \in ChunkKinds, i \in DOMAIN emitted' : emitted'[i].type # EndType(kind)
    BY <2>1, <2>2, <2>3, TypesTellKinds
  <2> QED
    BY <1>0, <2>6, <2>7, <2>8, ExpansionAgrees
<1> QED
  BY <1>0, <1>1, <1>2, ContinueEmits

LEMMA ReceiveAgrees ==
  ASSUME ChunksOnly, "TOOL_CALL_RESULT" \notin Types, LaneInv, BalanceInv, AgreementInv, Receive
  PROVE  AgreementInv'
<1>1. UNCHANGED vars /\ Expand /\ CTypeOK /\ LanesDisjoint /\ ~streamFailed /\ ~streamFailed'
  BY DEF Receive, LaneInv, vars
<1>2. \A e \in Event : e \in EveryEvent /\ e.type \notin Streamed /\ e.type # "TOOL_CALL_RESULT"
  BY EventsAreEvents, ProducersSendNone DEF Event
<1>3. ASSUME NEW c \in Chunk, ContinueStream(c) PROVE AgreementInv'
  BY <1>1, <1>3, ContinuingAgrees DEF ContinueStream
<1>4. ASSUME NEW c \in Chunk, OpenStream(c) PROVE AgreementInv'
  BY <1>1, <1>4, OpenStreamOpens, OpeningAgrees DEF OpenStream
<1>5. ASSUME Live, expansion' # "live", UNCHANGED emitted PROVE AgreementInv'
  BY <1>1, <1>5 DEF AgreementInv, ContinuationsNeverRefused, Live
<1>6. ASSUME NEW e \in Event, NEW l, Live, UNCHANGED expansion,
             emitted' = Append(Ends(l), e), lanes' = Without(l)
      PROVE  AgreementInv'
  <2>1. \A j \in DOMAIN lanes' : \E m \in DOMAIN lanes : lanes'[j] = lanes[m]
    BY <1>1, <1>6, WithoutFacts
  <2>2. \A i \in DOMAIN emitted' :
          emitted'[i] = e \/ \E m \in DOMAIN lanes : emitted'[i] = EndEvent(lanes[m])
    <3>1. CASE Assembling(l)
      <4>1. /\ DOMAIN emitted' = 1 .. 2 /\ emitted'[2] = e
            /\ emitted'[1] = EndEvent(lanes[PositionOf(l)]) /\ PositionOf(l) \in DOMAIN lanes
        BY <1>1, <1>2, <1>6, <3>1, EmittedByClose, EndsFacts
      <4> QED
        BY <4>1
    <3>2. CASE ~Assembling(l)
      BY <1>1, <1>2, <1>6, <3>2, EmittedByClose
    <3> QED
      BY <3>1, <3>2
  <2> QED
    BY <1>1, <1>2, <1>6, <2>1, <2>2, EndingAgrees
<1>7. ASSUME NEW e \in Event, RunLevelEvent(e) PROVE AgreementInv'
  <2>1. Live /\ UNCHANGED expansion /\ emitted' = Append(AllEnds, e) /\ lanes' = << >>
    BY <1>7 DEF RunLevelEvent
  <2>2. /\ DOMAIN emitted' = 1 .. Len(lanes) + 1 /\ emitted'[Len(lanes) + 1] = e
        /\ \A i \in DOMAIN lanes : emitted'[i] = EndEvent(lanes[i])
    BY <1>1, <1>2, <2>1, EmittedByCloseAll
  <2>3. DOMAIN lanes = 1 .. Len(lanes) /\ Len(lanes) \in Nat
    BY <1>1 DEF CTypeOK
  <2>4. \A i \in DOMAIN emitted' :
          emitted'[i] = e \/ \E m \in DOMAIN lanes : emitted'[i] = EndEvent(lanes[m])
    BY <2>2, <2>3
  <2>5. DOMAIN lanes' = {}
    BY <2>1
  <2> QED
    BY <1>1, <1>2, <2>1, <2>4, <2>5, EndingAgrees
<1>8. ASSUME NEW e \in Event, Live, UNCHANGED <<lanes, expansion>>, emitted' = << e >>
      PROVE  AgreementInv'
  <2>1. \A i \in DOMAIN emitted' : emitted'[i] = e
    BY <1>8
  <2> QED
    BY <1>1, <1>2, <1>8, <2>1, EndingAgrees
<1> QED
  BY <1>1, <1>3, <1>4, <1>5, <1>6, <1>7, <1>8 DEF Expand, RejectChunk, ExplicitEvent,
     SubagentTerminal, StandAside, Complete

LEMMA DeliverAgrees ==
  ASSUME LaneInv, BalanceInv, AgreementInv, Deliver
  PROVE  AgreementInv'
<1>0. PICK e \in EveryEvent : e = emitted[1]
  BY EmittedShrinks
<1>1. /\ Accept(e) /\ UNCHANGED <<lanes, expansion>> /\ 1 \in DOMAIN emitted
      /\ DOMAIN emitted = 1 .. Len(emitted) /\ Len(emitted) \in Nat
      /\ DOMAIN emitted' = 1 .. Len(emitted) - 1 /\ Len(emitted') = Len(emitted) - 1
      /\ \A i \in DOMAIN emitted' : i + 1 \in DOMAIN emitted /\ emitted'[i] = emitted[i + 1]
  BY <1>0, EmittedShrinks
<1>2. ~streamFailed /\ ~streamFailed'
  <2>1. Accepted(e)
    BY <1>1 DEF Accept, TextMessageStart, TextMessageEnd, ToolCallStart, ToolCallEnd,
       ToolCallResult, StepStarted, StepFinished, ActivitySnapshot, ReasoningStart, ReasoningEnd,
       PassThrough, SubagentStarted, SubagentClosed, MessagesSnapshot, RunStarted, RunFinished,
       RunError
  <2>2. ~streamFailed /\ streamFailed' = streamFailed
    BY <2>1 DEF Accepted
  <2> QED
    BY <2>2
<1>3. expansion = "live"
  BY DEF AgreementInv, Deliver
<1>4. /\ Balanced /\ EmittedOnce /\ RunLevelIsLast /\ Balanced'
      /\ LanesAgree /\ EndsAgree /\ StartsAgree /\ ContentAgrees /\ NoResults /\ ErrorsCloseAll
      /\ IInv /\ IInv' /\ LanesDisjoint
  BY <1>1, <1>2, <1>3, DeliverIsBalanced, DeliverKeepsLanes DEF BalanceInv, AgreementInv, LaneInv
<1> SUFFICES LanesAgree' /\ EndsAgree' /\ StartsAgree' /\ ContentAgrees' /\ ErrorsCloseAll' /\ NoResults'
  BY <1>1, <1>2, <1>3 DEF AgreementInv, ContinuationsNeverRefused
<1>5. \A kind \in ChunkKinds : OpenIds(kind) \subseteq Ids /\ OpenIds(kind)' \subseteq Ids
  BY <1>4 DEF IInv, TypeOK, OpenIds, ChunkKinds
<1>6. CASE e.type \in RunLevel
  <2>1. lanes = << >> /\ Len(emitted) = 1
    BY <1>0, <1>1, <1>4, <1>6 DEF RunLevelIsLast
  <2>2. DOMAIN lanes' = {} /\ DOMAIN emitted' = {}
    BY <1>1, <2>1
  <2>3. \A kind \in ChunkKinds : OpenIds(kind)' = {}
    <3>1. \A kind \in ChunkKinds : \A id : ~(Started(kind, id)') /\ ~(Ended(kind, id)')
      BY <2>2 DEF Started, Ended
    <3>2. \A kind : Assembled(kind)' = {}
      BY <2>2 DEF Assembled, ToSet
    <3> QED
      BY <1>4, <1>5, <3>1, <3>2 DEF Balanced
  <2> QED
    BY <2>2, <2>3 DEF LanesAgree, EndsAgree, StartsAgree, ContentAgrees, ErrorsCloseAll, NoResults
<1>7. CASE e.type \notin RunLevel
  <2>1. \A kind \in ChunkKinds :
          OpenIds(kind)' = IF e.type = StartType(kind) THEN OpenIds(kind) \cup {IdOf(kind, e)}
                           ELSE IF e.type = EndType(kind) THEN OpenIds(kind) \ {IdOf(kind, e)}
                           ELSE OpenIds(kind)
    BY <1>1, <1>4, <1>7, OpenIdsStep DEF RunLevel
  <2>2. \A kind \in ChunkKinds : \A id : id \in OpenIds(kind) => OwnerOf(kind, id)' = OwnerOf(kind, id)
    <3> SUFFICES ASSUME NEW kind \in ChunkKinds, NEW id \in OpenIds(kind)
                 PROVE  OwnerOf(kind, id)' = OwnerOf(kind, id)
      OBVIOUS
    <3>1. OwnerOf(kind, id) # Unowned
      BY <1>4 DEF IInv, OpenHasOwner, OpenIds, OwnerOf, ChunkKinds
    <3>2. e.type # "TOOL_CALL_RESULT"
      BY <1>0, <1>1, <1>4 DEF NoResults
    <3>3. id \in Ids
      BY <1>5
    <3> QED
      BY <1>1, <1>4, <1>7, <3>1, <3>2, <3>3, OwnerKept DEF RunLevel
  <2>3. LanesAgree'
    <3> SUFFICES ASSUME NEW st \in Stream, NEW j \in DOMAIN lanes, lanes[j] = st,
                        st.id \in OpenIds(st.kind)'
                 PROVE  TagAgrees(st.lane, OwnerOf(st.kind, st.id)')
      <4>1. lanes' = lanes /\ \A j \in DOMAIN lanes : lanes[j] \in Stream
        BY <1>1 DEF LaneInv, CTypeOK
      <4> SUFFICES ASSUME NEW j \in DOMAIN lanes', (lanes[j].id \in OpenIds(lanes[j].kind))'
                   PROVE  TagAgrees(lanes[j].lane, OwnerOf(lanes[j].kind, lanes[j].id))'
        BY DEF LanesAgree
      <4>2. PICK st \in Stream : st = lanes[j]
        BY <4>1
      <4>3. st.id \in OpenIds(st.kind)'
        BY <4>1, <4>2 DEF OpenIds
      <4>4. TagAgrees(st.lane, OwnerOf(st.kind, st.id)')
        BY <4>1, <4>2, <4>3
      <4> QED
        BY <4>1, <4>2, <4>4 DEF TagAgrees, OwnerOf
    <3>0. st.kind \in ChunkKinds
      BY DEF Stream
    <3>1. CASE st.id \in OpenIds(st.kind)
      BY <1>4, <2>2, <3>0, <3>1 DEF LanesAgree
    <3>2. CASE st.id \notin OpenIds(st.kind)
      <4>1. e.type = StartType(st.kind) /\ st.id = IdOf(st.kind, e)
        BY <2>1, <3>0, <3>2
      <4>2. PICK m \in DOMAIN lanes :
              lanes[m].kind = st.kind /\ lanes[m].id = st.id /\ lanes[m].lane = Tag(e)
        BY <1>0, <1>1, <1>4, <3>0, <4>1 DEF StartsAgree
      <4>3. st.lane = Tag(e)
        BY <1>4, <4>2 DEF LanesDisjoint
      <4>4. TagAgrees(Tag(e), OwnerOf(st.kind, IdOf(st.kind, e))')
        BY <1>1, <1>4, <3>0, <4>1, OpenerAgrees
      <4> QED
        BY <4>1, <4>3, <4>4
    <3> QED
      BY <3>1, <3>2
  <2>4. EndsAgree'
    <3> SUFFICES ASSUME NEW kind \in ChunkKinds, NEW i \in DOMAIN emitted', emitted'[i].type = EndType(kind)
                 PROVE  Accounted(kind, emitted[i])'
      BY DEF EndsAgree
    <3>0. PICK f : f = emitted[i + 1]
      OBVIOUS
    <3>1. i + 1 \in DOMAIN emitted /\ emitted'[i] = f /\ i + 1 # 1 /\ f.type = EndType(kind)
      BY <1>1, <3>0
    <3>2. Accounted(kind, f)
      BY <1>4, <3>0, <3>1 DEF EndsAgree
    <3>3. ~(e.type = EndType(kind) /\ IdOf(kind, e) = IdOf(kind, f))
      BY <1>0, <1>1, <1>4, <3>0, <3>1 DEF EmittedOnce
    <3>4. IdOf(kind, f) \in OpenIds(kind)' /\ TagAgrees(Tag(f), OwnerOf(kind, IdOf(kind, f))')
      BY <2>1, <2>2, <3>2, <3>3 DEF Accounted
    <3> QED
      BY <3>1, <3>4 DEF Accounted, IdOf, Tag, TagAgrees
  <2>5. StartsAgree'
    <3> SUFFICES ASSUME NEW kind \in ChunkKinds, NEW i \in DOMAIN emitted', emitted'[i].type = StartType(kind)
                 PROVE  \E j \in DOMAIN lanes' :
                          /\ lanes'[j].kind = kind /\ lanes'[j].id = IdOf(kind, emitted'[i])
                          /\ lanes'[j].lane = Tag(emitted'[i])
      BY DEF StartsAgree, Tag, IdOf
    <3>1. i + 1 \in DOMAIN emitted /\ emitted'[i] = emitted[i + 1] /\ lanes' = lanes
      BY <1>1
    <3> QED
      BY <1>4, <3>1 DEF StartsAgree
  <2>6. ContentAgrees'
    <3> SUFFICES ASSUME NEW kind \in ChunkKinds, NEW i \in DOMAIN emitted', emitted'[i].type = ContentType(kind)
                 PROVE  \/ i = 1 /\ Accounted(kind, emitted[i])'
                        \/ /\ i > 1 /\ emitted'[i - 1].type = StartType(kind)
                           /\ IdOf(kind, emitted'[i - 1]) = IdOf(kind, emitted'[i])
                           /\ Tag(emitted'[i - 1]) = Tag(emitted'[i])
      BY DEF ContentAgrees, Tag, IdOf
    <3>0. PICK f : f = emitted[i + 1]
      OBVIOUS
    <3>1. /\ i + 1 \in DOMAIN emitted /\ emitted'[i] = f /\ f.type = ContentType(kind)
          /\ i \in 1 .. Len(emitted) - 1 /\ i + 1 # 1 /\ i + 1 - 1 = i
      BY <1>1, <3>0
    <3>2. /\ emitted[i].type = StartType(kind)
          /\ IdOf(kind, emitted[i]) = IdOf(kind, f) /\ Tag(emitted[i]) = Tag(f)
      BY <1>4, <3>0, <3>1 DEF ContentAgrees
    <3>3. CASE i = 1
      <4>1. e.type = StartType(kind) /\ IdOf(kind, e) = IdOf(kind, f) /\ Tag(e) = Tag(f)
        BY <1>0, <3>2, <3>3
      <4>2. TagAgrees(Tag(e), OwnerOf(kind, IdOf(kind, e))')
        BY <1>1, <1>4, <4>1, OpenerAgrees
      <4>3. IdOf(kind, f) \in OpenIds(kind)' /\ TagAgrees(Tag(f), OwnerOf(kind, IdOf(kind, f))')
        BY <2>1, <4>1, <4>2
      <4> QED
        BY <3>1, <3>3, <4>3 DEF Accounted, IdOf, Tag, TagAgrees
    <3>4. CASE i > 1
      <4>1. i - 1 \in DOMAIN emitted' /\ emitted'[i - 1] = emitted[i]
        BY <1>1, <3>1, <3>4
      <4> QED
        BY <3>1, <3>2, <3>4, <4>1
    <3> QED
      BY <3>1, <3>3, <3>4
  <2>7. NoResults'
    BY <1>1, <1>4 DEF NoResults
  <2>8. ErrorsCloseAll'
    BY <1>1, <1>4, <1>7, ErrorStep DEF ErrorsCloseAll, RunLevel
  <2> QED
    BY <2>3, <2>4, <2>5, <2>6, <2>7, <2>8
<1> QED
  BY <1>6, <1>7

(* The event the verifier refuses is none that it has on its accounts.     *)
LEMMA BreakAgrees ==
  ASSUME LaneInv, AgreementInv, Break
  PROVE  AgreementInv'
<1>1. /\ emitted \in Seq(EveryEvent) /\ emitted # << >> /\ UNCHANGED <<emitted, expansion>>
      /\ ~streamFailed /\ ~Accepts(Head(emitted)) /\ streamFailed'
  BY DEF LaneInv, CTypeOK, Break, Reject
<1>2. expansion = "live"
  BY <1>1 DEF AgreementInv
<1>3. EndsAgree /\ ContentAgrees /\ ErrorsCloseAll /\ IInv
  BY <1>1, <1>2 DEF AgreementInv, LaneInv
<1>4. PICK e \in EveryEvent : e = Head(emitted) /\ e = emitted[1] /\ 1 \in DOMAIN emitted
  BY <1>1, TailFacts
<1>5. \A kind \in ChunkKinds : e.type \notin {ContentType(kind), EndType(kind)}
  <2> SUFFICES ASSUME NEW kind \in ChunkKinds, e.type \in {ContentType(kind), EndType(kind)}
               PROVE  FALSE
    OBVIOUS
  <2>1. Accounted(kind, e)
    BY <1>3, <1>4 DEF EndsAgree, ContentAgrees
  <2> QED
    BY <1>1, <1>3, <1>4, <2>1, AccountedAccepted
<1>6. e.type \notin {"TEXT_MESSAGE_CONTENT", "TEXT_MESSAGE_END", "TOOL_CALL_ARGS", "TOOL_CALL_END",
                     "REASONING_MESSAGE_CONTENT", "REASONING_MESSAGE_END"}
  BY <1>5 DEF ChunkKinds, ContentType, EndType
<1> QED
  BY <1>1, <1>2, <1>4, <1>6 DEF AgreementInv, ContinuationsNeverRefused

LEMMA AgreementInit == PipelineInit => AgreementInv
<1> SUFFICES ASSUME PipelineInit PROVE AgreementInv
  OBVIOUS
<1>1. lanes = << >> /\ emitted = << >> /\ ~runError /\ ~streamFailed
  BY DEF PipelineInit, CInit, Init
<1> QED
  BY <1>1 DEF AgreementInv, LanesAgree, EndsAgree, StartsAgree, ContentAgrees, ErrorsCloseAll,
     NoResults, ContinuationsNeverRefused

LEMMA AgreementNext ==
  ASSUME ChunksOnly, "TOOL_CALL_RESULT" \notin Types,
         LaneInv, BalanceInv, AgreementInv, [PipelineNext]_pipelineVars
  PROVE  AgreementInv'
<1>1. CASE UNCHANGED pipelineVars
  <2>1. /\ UNCHANGED <<lanes, emitted, expansion, openVars, owners, runError, streamFailed>>
        /\ \A kind : OpenIds(kind)' = OpenIds(kind)
    BY <1>1 DEF pipelineVars, chunkVars, vars, openVars, runVars, OpenIds
  <2>2. \A kind, id : OwnerOf(kind, id)' = OwnerOf(kind, id)
    BY <2>1 DEF OwnerOf
  <2>3. LanesAgree => LanesAgree'
    BY <2>1 DEF LanesAgree, TagAgrees, OwnerOf, OpenIds, openVars
  <2>4. \A kind : \A i \in DOMAIN emitted : Accounted(kind, emitted[i])' = Accounted(kind, emitted[i])
    BY <2>1 DEF Accounted, IdOf, Tag, TagAgrees, OwnerOf, OpenIds, openVars
  <2>5. (EndsAgree => EndsAgree') /\ (ContentAgrees => ContentAgrees')
    BY <2>1, <2>4 DEF EndsAgree, ContentAgrees
  <2>6. (StartsAgree => StartsAgree') /\ (NoResults => NoResults')
    BY <2>1 DEF StartsAgree, NoResults
  <2>7. ErrorsCloseAll => ErrorsCloseAll'
    BY <2>1 DEF ErrorsCloseAll
  <2>8. ContinuationsNeverRefused => ContinuationsNeverRefused'
    BY <2>1 DEF ContinuationsNeverRefused
  <2> QED
    BY <2>1, <2>3, <2>5, <2>6, <2>7, <2>8 DEF AgreementInv
<1> QED
  BY <1>1, ReceiveAgrees, DeliverAgrees, BreakAgrees DEF PipelineNext

(* When all streams come as chunks and no tool results come between them   *)
(* (the newest mint of an id owns it, so one that reused the id of a       *)
(* message in assembly would change its owner): what the expansion adds to *)
(* continue or to end a stream is accepted, for any number of producers,   *)
(* ids and runs.                                                           *)
THEOREM ContinuationsAreAccepted ==
  ASSUME ChunksOnly, "TOOL_CALL_RESULT" \notin Types
  PROVE  PipelineSpec => []ContinuationsNeverRefused
<1>1. LaneInv /\ BalanceInv /\ AgreementInv /\ [PipelineNext]_pipelineVars => AgreementInv'
  BY AgreementNext
<1>2. LaneInv /\ BalanceInv /\ [PipelineNext]_pipelineVars => BalanceInv'
  BY BalanceNext
<1>3. AgreementInv => ContinuationsNeverRefused
  BY DEF AgreementInv
<1> QED
  BY <1>1, <1>2, <1>3, BalanceInit, AgreementInit, LaneInvHolds, PTL DEF PipelineSpec
=============================================================================
