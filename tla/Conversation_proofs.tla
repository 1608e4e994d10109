------------------------- MODULE Conversation_proofs -------------------------
(***************************************************************************)
(* Proofs about Conversation.                                              *)
(***************************************************************************)
EXTENDS Conversation, FiniteSetTheorems, SequenceTheorems, NaturalLemmas

Sent == UNION Repertoires
Roles == {"assistant", "tool", "reasoning", "activity"}
Metas == {e.meta : e \in Sent} \cup {Absent}
Pieces == UNION {ToSet(e.delta) : e \in Sent}

CallRecord == [id : Ids, args : Seq(Pieces), meta : Metas, sealed : BOOLEAN]
MessageRecord ==
  [id : Ids, role : Roles, owner : Tags, content : Seq(Pieces), calls : Seq(CallRecord),
   answers : Ids \cup {Absent}, meta : Metas, sealed : BOOLEAN,
   by : {"opener", "call", "history", "earlier"}]
Lists == Seq(MessageRecord)

(* What the searches find: the first element that fits.                    *)
IsFirst(n, s, I) ==
  /\ I \subseteq DOMAIN s
  /\ n = 0 => I = {}
  /\ n # 0 => n \in I /\ \A i \in I : n <= i

LEMMA MinIsFirst ==
  ASSUME NEW S, NEW s \in Seq(S), NEW I, I \subseteq 1..Len(s)
  PROVE  IsFirst(IF I # {} THEN Min(I) ELSE 0, s, I)
<1>0. I \subseteq DOMAIN s /\ I \subseteq Nat /\ 0 \notin I
  OBVIOUS
<1>1. CASE I = {}
  BY <1>1 DEF IsFirst
<1>2. CASE I # {}
  <2>1. PICK i \in I : \A j \in I : i <= j
    BY <1>0, <1>2, LeastExists
  <2>2. Min(I) \in I /\ \A j \in I : Min(I) <= j
    BY <2>1 DEF Min
  <2>3. Min(I) # 0
    BY <1>0, <2>2
  <2> QED
    BY <1>0, <1>2, <2>2, <2>3 DEF IsFirst
<1> QED
  BY <1>1, <1>2

LEMMA FindIsFirst ==
  ASSUME NEW s \in Lists, NEW id
  PROVE  IsFirst(Find(s, id), s, {i \in DOMAIN s : s[i].id = id})
<1> DEFINE I == {i \in 1..Len(s) : s[i].id = id}
<1>1. Find(s, id) = IF I # {} THEN Min(I) ELSE 0
  BY DEF Find, SelectInSeq
<1>2. I = {i \in DOMAIN s : s[i].id = id} /\ I \subseteq 1..Len(s)
  BY DEF Lists
<1> HIDE DEF I
<1> QED
  BY <1>1, <1>2, MinIsFirst DEF Lists

LEMMA CallAtIsFirst ==
  ASSUME NEW m \in MessageRecord, NEW call
  PROVE  IsFirst(CallAt(m, call), m.calls, {j \in DOMAIN m.calls : m.calls[j].id = call})
<1> DEFINE I == {j \in 1..Len(m.calls) : m.calls[j].id = call}
<1>0. m.calls \in Seq(CallRecord)
  BY DEF MessageRecord
<1>1. CallAt(m, call) = IF I # {} THEN Min(I) ELSE 0
  BY DEF CallAt, SelectInSeq
<1>2. I = {j \in DOMAIN m.calls : m.calls[j].id = call} /\ I \subseteq 1..Len(m.calls)
  BY <1>0
<1> HIDE DEF I
<1> QED
  BY <1>0, <1>1, <1>2, MinIsFirst

(* Which messages hold a call, and where the first of them stands.         *)
Holds(m, call) == \E j \in DOMAIN m.calls : m.calls[j].id = call

LEMMA CallAtFacts ==
  ASSUME NEW m \in MessageRecord, NEW call
  PROVE  /\ CallAt(m, call) > 0 <=> Holds(m, call)
         /\ Holds(m, call) => /\ CallAt(m, call) \in DOMAIN m.calls
                             /\ m.calls[CallAt(m, call)].id = call
<1>0. m.calls \in Seq(CallRecord)
  BY DEF MessageRecord
<1>1. DOMAIN m.calls = 1..Len(m.calls) /\ Len(m.calls) \in Nat
  BY <1>0
<1>2. IsFirst(CallAt(m, call), m.calls, {j \in DOMAIN m.calls : m.calls[j].id = call})
  BY CallAtIsFirst
<1> QED
  BY <1>1, <1>2 DEF IsFirst, Holds

LEMMA FindHolderIsFirst ==
  ASSUME NEW s \in Lists, NEW call
  PROVE  IsFirst(FindHolder(s, call), s, {i \in DOMAIN s : Holds(s[i], call)})
<1> DEFINE I == {i \in 1..Len(s) : CallAt(s[i], call) > 0}
<1>1. FindHolder(s, call) = IF I # {} THEN Min(I) ELSE 0
  BY DEF FindHolder, SelectInSeq
<1>2. I \subseteq 1..Len(s)
  OBVIOUS
<1>3. I = {i \in DOMAIN s : Holds(s[i], call)}
  <2>1. DOMAIN s = 1..Len(s) /\ \A i \in DOMAIN s : s[i] \in MessageRecord
    BY DEF Lists
  <2> QED
    BY <2>1, CallAtFacts
<1> HIDE DEF I
<1> QED
  BY <1>1, <1>2, <1>3, MinIsFirst DEF Lists

LEMMA FindCallerIsFirst ==
  ASSUME NEW s \in Lists, NEW call
  PROVE  IsFirst(FindCaller(s, call), s,
                 {i \in DOMAIN s : s[i].role = "assistant" /\ Holds(s[i], call)})
<1> DEFINE I == {i \in 1..Len(s) : s[i].role = "assistant" /\ CallAt(s[i], call) > 0}
<1>1. FindCaller(s, call) = IF I # {} THEN Min(I) ELSE 0
  BY DEF FindCaller, SelectInSeq
<1>2. I \subseteq 1..Len(s)
  OBVIOUS
<1>3. I = {i \in DOMAIN s : s[i].role = "assistant" /\ Holds(s[i], call)}
  <2>1. DOMAIN s = 1..Len(s) /\ \A i \in DOMAIN s : s[i] \in MessageRecord
    BY DEF Lists
  <2> QED
    BY <2>1, CallAtFacts
<1> HIDE DEF I
<1> QED
  BY <1>1, <1>2, <1>3, MinIsFirst DEF Lists

-----------------------------------------------------------------------------
(* What an effect leaves of a message that it only writes to: everything   *)
(* but content, arguments, metadata and seals.                             *)
Same(m, n) ==
  /\ n.id = m.id /\ n.role = m.role /\ n.owner = m.owner
  /\ n.answers = m.answers /\ n.by = m.by
  /\ DOMAIN n.calls = DOMAIN m.calls
  /\ \A j \in DOMAIN m.calls : n.calls[j].id = m.calls[j].id

Touched(s, t) ==
  /\ t \in Lists /\ DOMAIN t = DOMAIN s
  /\ \A i \in DOMAIN s : Same(s[i], t[i])

LEMMA TouchedAt ==
  ASSUME NEW s \in Lists, NEW i \in DOMAIN s, NEW m \in MessageRecord, Same(s[i], m)
  PROVE  Touched(s, [s EXCEPT ![i] = m])
<1>1. [s EXCEPT ![i] = m] \in Lists
  BY DEF Lists
<1>2. \A k \in DOMAIN s : Same(s[k], s[k])
  BY DEF Same
<1> QED
  BY <1>1, <1>2 DEF Touched, Lists

LEMMA TouchedSelf ==
  ASSUME NEW s \in Lists
  PROVE  Touched(s, s)
  BY DEF Touched, Same

LEMMA EventFacts ==
  ASSUME NEW e \in Sent
  PROVE  /\ HasShape(e)
         /\ e.meta \in Metas /\ Absent \in Metas
         /\ e.subagentRunId \in WireTags => OwnerOf(e) \in Tags
         /\ e.delta \in Seq(ToSet(e.delta)) => e.delta \in Seq(Pieces)
<1>1. HasShape(e)
  BY RepertoiresType DEF Sent
<1>2. e.meta \in Metas /\ Absent \in Metas
  BY DEF Metas
<1>3. e.subagentRunId \in WireTags => OwnerOf(e) \in Tags
  BY DEF OwnerOf, WireTags, Tags
<1>4. ToSet(e.delta) \subseteq Pieces
  BY DEF Pieces
<1> QED
  BY <1>1, <1>2, <1>3, <1>4, SeqMonotonic

LEMMA MetaType ==
  ASSUME NEW old \in Metas, NEW new \in Metas
  PROVE  MergeMeta(old, new) \in Metas
  BY DEF MergeMeta

LEMMA FreshMessages ==
  ASSUME NEW id \in Ids, NEW role \in Roles, NEW owner \in Tags, NEW meta \in Metas,
         NEW by \in {"opener", "call", "history", "earlier"}
  PROVE  /\ NewMessage(id, role, owner, meta, by) \in MessageRecord
         /\ \A call : ~Holds(NewMessage(id, role, owner, meta, by), call)
<1>1. NewMessage(id, role, owner, meta, by) \in MessageRecord
  BY DEF NewMessage, MessageRecord, Roles
<1>2. DOMAIN NewMessage(id, role, owner, meta, by).calls = {}
  BY DEF NewMessage
<1> QED
  BY <1>1, <1>2 DEF Holds

(* The ways to write to a message that is there.                           *)
WithMeta(s, i, meta) == [s EXCEPT ![i].meta = MergeMeta(@, meta)]
WithCall(s, i, j, c) == [s EXCEPT ![i].calls[j] = c]
WithCallMeta(s, i, j, meta) == [s EXCEPT ![i].calls[j].meta = MergeMeta(@, meta)]

LEMMA MetaWritten ==
  ASSUME NEW s \in Lists, NEW i \in DOMAIN s, NEW meta \in Metas
  PROVE  Touched(s, WithMeta(s, i, meta))
<1>1. s[i] \in MessageRecord
  BY DEF Lists
<1> DEFINE m == [s[i] EXCEPT !.meta = MergeMeta(@, meta)]
<1>2. MergeMeta(s[i].meta, meta) \in Metas
  BY <1>1, MetaType DEF MessageRecord
<1>3. m \in MessageRecord /\ Same(s[i], m)
  BY <1>1, <1>2 DEF MessageRecord, Same
<1>4. WithMeta(s, i, meta) = [s EXCEPT ![i] = m]
  BY DEF WithMeta
<1> HIDE DEF m
<1> QED
  BY <1>3, <1>4, TouchedAt

LEMMA MessageOpened ==
  ASSUME NEW s \in Lists, NEW e \in Sent, NEW role \in Roles, e.type \in MessageTypes
  PROVE  \/ Touched(s, OpenMessage(s, e, role))
         \/ /\ \A i \in DOMAIN s : s[i].id # e.messageId
            /\ OpenMessage(s, e, role) =
                 Append(s, NewMessage(e.messageId, role, OwnerOf(e), e.meta, "opener"))
<1>1. IsFirst(Find(s, e.messageId), s, {i \in DOMAIN s : s[i].id = e.messageId})
  BY FindIsFirst
<1>2. CASE Find(s, e.messageId) = 0
  BY <1>1, <1>2 DEF OpenMessage, IsFirst
<1>3. CASE Find(s, e.messageId) # 0
  <2>1. PICK i \in DOMAIN s : i = Find(s, e.messageId)
    BY <1>1, <1>3 DEF IsFirst
  <2>2. OpenMessage(s, e, role) = s \/
        OpenMessage(s, e, role) = WithMeta(s, i, e.meta)
    BY <1>3, <2>1 DEF OpenMessage, WithMeta
  <2> QED
    BY <2>2, TouchedSelf, MetaWritten, EventFacts
<1> QED
  BY <1>2, <1>3

LEMMA ContentAppended ==
  ASSUME NEW s \in Lists, NEW e \in Sent, e.delta \in Seq(Pieces), NEW i \in DOMAIN s \cup {0}
  PROVE  Touched(s, AppendContent(s, i, e))
<1>1. CASE AppendContent(s, i, e) = s
  BY <1>1, TouchedSelf
<1>2. CASE AppendContent(s, i, e) # s
  <2>1. i \in DOMAIN s
    BY <1>2 DEF AppendContent
  <2>2. s[i] \in MessageRecord
    BY <2>1 DEF Lists
  <2> DEFINE m == [s[i] EXCEPT !.content = @ \o e.delta, !.meta = MergeMeta(@, e.meta)]
  <2>3. MergeMeta(s[i].meta, e.meta) \in Metas
    BY <2>2, MetaType, EventFacts DEF MessageRecord
  <2>4. s[i].content \o e.delta \in Seq(Pieces)
    BY <2>2 DEF MessageRecord
  <2>5. m \in MessageRecord /\ Same(s[i], m)
    BY <2>2, <2>3, <2>4 DEF MessageRecord, Same
  <2>6. AppendContent(s, i, e) = [s EXCEPT ![i] = m]
    BY <1>2, <2>1, <2>2 DEF AppendContent, MessageRecord
  <2> HIDE DEF m
  <2> QED
    BY <2>1, <2>5, <2>6, TouchedAt
<1> QED
  BY <1>1, <1>2

LEMMA MessageClosed ==
  ASSUME NEW s \in Lists, NEW e \in Sent, NEW i \in DOMAIN s \cup {0}
  PROVE  Touched(s, CloseMessage(s, i, e))
<1>1. CASE CloseMessage(s, i, e) = s
  BY <1>1, TouchedSelf
<1>2. CASE CloseMessage(s, i, e) # s
  <2>1. i \in DOMAIN s /\ CloseMessage(s, i, e) = WithMeta(s, i, e.meta)
    BY <1>2 DEF CloseMessage, WithMeta
  <2>2. e.meta \in Metas
    BY EventFacts
  <2> QED
    BY <2>1, <2>2, MetaWritten
<1> QED
  BY <1>1, <1>2

(* Writing to one call of one message.                                     *)
LEMMA CallWritten ==
  ASSUME NEW s \in Lists, NEW i \in DOMAIN s, NEW j \in DOMAIN s[i].calls,
         NEW c \in CallRecord, c.id = s[i].calls[j].id
  PROVE  Touched(s, WithCall(s, i, j, c))
<1>1. s[i] \in MessageRecord
  BY DEF Lists
<1>2. s[i].calls \in Seq(CallRecord)
  BY <1>1 DEF MessageRecord
<1> DEFINE m == [s[i] EXCEPT !.calls = [s[i].calls EXCEPT ![j] = c]]
<1>3. [s[i].calls EXCEPT ![j] = c] \in Seq(CallRecord)
  BY <1>2
<1>4. m \in MessageRecord /\ Same(s[i], m)
  BY <1>1, <1>2, <1>3 DEF MessageRecord, Same
<1>5. WithCall(s, i, j, c) = [s EXCEPT ![i] = m]
  BY <1>1 DEF WithCall, MessageRecord
<1> HIDE DEF m
<1> QED
  BY <1>4, <1>5, TouchedAt

LEMMA ArgsAppended ==
  ASSUME NEW s \in Lists, NEW e \in Sent, e.delta \in Seq(Pieces), NEW i \in DOMAIN s,
         Holds(s[i], e.toolCallId)
  PROVE  Touched(s, AppendArgs(s, i, e))
<1>1. s[i] \in MessageRecord /\ i # 0
  BY DEF Lists
<1>2. PICK j \in DOMAIN s[i].calls : j = CallAt(s[i], e.toolCallId)
  BY <1>1, CallAtFacts
<1>3. PICK c \in CallRecord : c = s[i].calls[j]
  BY <1>1, <1>2 DEF MessageRecord
<1> DEFINE d == [c EXCEPT !.args = @ \o e.delta, !.meta = MergeMeta(@, e.meta)]
<1>4. MergeMeta(c.meta, e.meta) \in Metas
  BY <1>3, MetaType, EventFacts DEF CallRecord
<1>5. c.args \o e.delta \in Seq(Pieces)
  BY <1>3 DEF CallRecord
<1>6. d \in CallRecord /\ d.id = c.id
  BY <1>3, <1>4, <1>5 DEF CallRecord
<1>7. AppendArgs(s, i, e) = WithCall(s, i, j, d)
  BY <1>1, <1>2, <1>3 DEF AppendArgs, WithCall
<1> HIDE DEF d
<1> QED
  BY <1>3, <1>6, <1>7, CallWritten

LEMMA CallMetaWritten ==
  ASSUME NEW s \in Lists, NEW i \in DOMAIN s, NEW call, Holds(s[i], call), NEW meta \in Metas
  PROVE  Touched(s, WithCallMeta(s, i, CallAt(s[i], call), meta))
<1>1. s[i] \in MessageRecord
  BY DEF Lists
<1>2. PICK j \in DOMAIN s[i].calls : j = CallAt(s[i], call)
  BY <1>1, CallAtFacts
<1>3. PICK c \in CallRecord : c = s[i].calls[j]
  BY <1>1, <1>2 DEF MessageRecord
<1> DEFINE d == [c EXCEPT !.meta = MergeMeta(@, meta)]
<1>4. MergeMeta(c.meta, meta) \in Metas
  BY <1>3, MetaType DEF CallRecord
<1>5. d \in CallRecord /\ d.id = c.id
  BY <1>3, <1>4 DEF CallRecord
<1>6. WithCallMeta(s, i, j, meta) = WithCall(s, i, j, d)
  BY <1>2, <1>3 DEF WithCall, WithCallMeta
<1> HIDE DEF d
<1> QED
  BY <1>2, <1>3, <1>5, <1>6, CallWritten

LEMMA Sealed ==
  ASSUME NEW s \in Lists, NEW e \in Sent
  PROVE  Touched(s, Seal(s, e))
<1>1. CASE Seal(s, e) = s
  BY <1>1, TouchedSelf
<1>2. CASE Seal(s, e) # s /\ e.subtype = "tool-call"
  <2>1. FindCaller(s, e.entityId) # 0
    BY <1>2 DEF Seal
  <2>2. PICK i \in DOMAIN s : i = FindCaller(s, e.entityId) /\ Holds(s[i], e.entityId)
    BY <2>1, FindCallerIsFirst DEF IsFirst
  <2>3. s[i] \in MessageRecord
    BY DEF Lists
  <2>4. PICK j \in DOMAIN s[i].calls : j = CallAt(s[i], e.entityId)
    BY <2>2, <2>3, CallAtFacts
  <2>5. PICK c \in CallRecord : c = s[i].calls[j]
    BY <2>3, <2>4 DEF MessageRecord
  <2> DEFINE d == [c EXCEPT !.sealed = TRUE]
  <2>6. d \in CallRecord /\ d.id = c.id
    BY <2>5 DEF CallRecord
  <2>7. Seal(s, e) = WithCall(s, i, j, d)
    BY <1>2, <2>1, <2>2, <2>4, <2>5 DEF Seal, WithCall
  <2> HIDE DEF d
  <2> QED
    BY <2>5, <2>6, <2>7, CallWritten
<1>3. CASE Seal(s, e) # s /\ e.subtype # "tool-call"
  <2> DEFINE i == Find(s, e.entityId)
             m == [s[i] EXCEPT !.sealed = TRUE]
  <2>1. i \in DOMAIN s
    BY <1>3, FindIsFirst DEF Seal, IsFirst
  <2>2. s[i] \in MessageRecord
    BY <2>1 DEF Lists
  <2>3. m \in MessageRecord /\ Same(s[i], m)
    BY <2>2 DEF MessageRecord, Same
  <2>4. Seal(s, e) = [s EXCEPT ![i] = m]
    BY <1>3, <2>1 DEF Seal
  <2> HIDE DEF i, m
  <2> QED
    BY <2>1, <2>3, <2>4, TouchedAt
<1> QED
  BY <1>1, <1>2, <1>3

LEMMA ToolCallClosed ==
  ASSUME NEW s \in Lists, NEW e \in Sent, NEW i \in DOMAIN s, Holds(s[i], e.toolCallId)
  PROVE  Touched(s, CloseToolCall(s, i, e))
<1>1. CloseToolCall(s, i, e) = WithCallMeta(s, i, CallAt(s[i], e.toolCallId), e.meta)
  BY DEF CloseToolCall, WithCallMeta, Lists
<1>2. e.meta \in Metas
  BY EventFacts
<1> QED
  BY <1>1, <1>2, CallMetaWritten

-----------------------------------------------------------------------------
(* The ways to add: a message at a place, and a call to a message.         *)
Inserted(s, t, p, m) ==
  /\ t \in Lists /\ Len(t) = Len(s) + 1
  /\ p \in 1..Len(s) + 1 /\ m \in MessageRecord /\ t[p] = m
  /\ \A k \in 1..Len(s) : IF k < p THEN t[k] = s[k] ELSE t[k + 1] = s[k]

WithNewCall(m, c) == [m EXCEPT !.calls = Append(@, c)]

CallAdded(s, t, i, c) ==
  /\ t \in Lists /\ DOMAIN t = DOMAIN s
  /\ i \in DOMAIN s /\ s[i].role = "assistant"
  /\ t[i] = WithNewCall(s[i], c)
  /\ \A k \in DOMAIN s \ {i} : t[k] = s[k]

LEMMA ElementTyped ==
  ASSUME NEW s \in Lists, NEW i \in DOMAIN s
  PROVE  s[i] \in MessageRecord /\ s[i].calls \in Seq(CallRecord)
<1>1. s[i] \in MessageRecord
  BY DEF Lists
<1> QED
  BY <1>1 DEF MessageRecord

LEMMA AppendInserts ==
  ASSUME NEW s \in Lists, NEW m \in MessageRecord
  PROVE  Inserted(s, Append(s, m), Len(s) + 1, m)
<1>1. Append(s, m) \in Lists /\ Len(s) \in Nat /\ Len(Append(s, m)) = Len(s) + 1
  BY DEF Lists
<1>2. Append(s, m)[Len(s) + 1] = m
  BY DEF Lists
<1>3. \A k \in 1..Len(s) : Append(s, m)[k] = s[k]
  BY DEF Lists
<1> QED
  BY <1>1, <1>2, <1>3 DEF Inserted

LEMMA InsertAtInserts ==
  ASSUME NEW s \in Lists, NEW m \in MessageRecord, NEW p \in 1..Len(s) + 1
  PROVE  Inserted(s, InsertAt(s, p, m), p, m)
<1>1. Len(s) \in Nat /\ p \in Nat /\ p >= 1 /\ p <= Len(s) + 1
  BY DEF Lists
<1> DEFINE u == SubSeq(s, 1, p - 1)
           v == SubSeq(s, p, Len(s))
           w == u \o <<m>>
<1>2. u \in Lists /\ Len(u) = p - 1 /\ \A k \in 1..p - 1 : u[k] = s[k]
  <2>1. \A k \in 1..p - 1 : s[k] \in MessageRecord
    BY <1>1 DEF Lists
  <2> QED
    BY <1>1, <2>1, SubSeqProperties DEF Lists
<1>3. /\ v \in Lists /\ Len(v) = Len(s) + 1 - p
      /\ \A k \in 1..Len(s) + 1 - p : v[k] = s[p + k - 1]
  <2>1. \A k \in p..Len(s) : s[k] \in MessageRecord
    BY <1>1 DEF Lists
  <2>2. Len(s) - p + 1 = Len(s) + 1 - p
    BY <1>1
  <2>3. v \in Lists /\ Len(v) = Len(s) + 1 - p
    BY <1>1, <2>1, <2>2, SubSeqProperties DEF Lists
  <2>4. \A k \in 1..Len(s) - p + 1 : v[k] = s[p + k - 1]
    BY <1>1, <2>1, SubSeqProperties
  <2> QED
    BY <2>2, <2>3, <2>4
<1> HIDE DEF u, v
<1>4. <<m>> \in Lists /\ Len(<<m>>) = 1 /\ <<m>>[1] = m
  BY DEF Lists
<1>5. /\ w \in Lists /\ Len(w) = p /\ w[p] = m
      /\ \A k \in 1..p - 1 : w[k] = s[k]
  <2>1. /\ w \in Lists /\ Len(w) = Len(u) + Len(<<m>>)
        /\ \A k \in 1..Len(u) + Len(<<m>>) :
             w[k] = IF k <= Len(u) THEN u[k] ELSE <<m>>[k - Len(u)]
    BY <1>2, <1>4, ConcatProperties DEF Lists
  <2>2. Len(u) + Len(<<m>>) = p /\ p - Len(u) = 1 /\ ~(p <= Len(u))
    BY <1>1, <1>2, <1>4
  <2> HIDE DEF w
  <2> QED
    BY <1>1, <1>2, <1>4, <2>1, <2>2
<1> HIDE DEF w
<1>6. /\ w \o v \in Lists /\ Len(w \o v) = Len(s) + 1
      /\ \A k \in 1..Len(s) + 1 : (w \o v)[k] = IF k <= p THEN w[k] ELSE v[k - p]
  <2>1. /\ w \o v \in Lists /\ Len(w \o v) = Len(w) + Len(v)
        /\ \A k \in 1..Len(w) + Len(v) :
             (w \o v)[k] = IF k <= Len(w) THEN w[k] ELSE v[k - Len(w)]
    BY <1>3, <1>5, ConcatProperties DEF Lists
  <2>2. Len(w) + Len(v) = Len(s) + 1
    BY <1>1, <1>3, <1>5
  <2> QED
    BY <1>5, <2>1, <2>2
<1>7. InsertAt(s, p, m) = w \o v
  BY DEF InsertAt, u, v, w
<1> DEFINE t == w \o v
<1>8. t[p] = m
  BY <1>1, <1>5, <1>6
<1>9. ASSUME NEW k \in 1..Len(s)
      PROVE  IF k < p THEN t[k] = s[k] ELSE t[k + 1] = s[k]
  <2>1. CASE k < p
    BY <1>1, <1>5, <1>6, <2>1
  <2>2. CASE ~(k < p)
    <3>1. k + 1 \in 1..Len(s) + 1 /\ ~(k + 1 <= p) /\ (k + 1) - p \in 1..Len(s) + 1 - p
          /\ p + ((k + 1) - p) - 1 = k
      BY <1>1, <2>2
    <3> QED
      BY <1>3, <1>6, <2>2, <3>1
  <2> QED
    BY <2>1, <2>2
<1> HIDE DEF t
<1>10. InsertAt(s, p, m) = t
  BY <1>7 DEF t
<1> QED
  BY <1>6, <1>8, <1>9, <1>10 DEF Inserted, t

LEMMA NewCallTyped ==
  ASSUME NEW m \in MessageRecord, NEW c \in CallRecord
  PROVE  /\ WithNewCall(m, c) \in MessageRecord
         /\ WithNewCall(m, c).calls = Append(m.calls, c)
         /\ \A call : Holds(WithNewCall(m, c), call) <=> Holds(m, call) \/ call = c.id
<1>1. m.calls \in Seq(CallRecord)
  BY DEF MessageRecord
<1>2. Append(m.calls, c) \in Seq(CallRecord)
  BY <1>1
<1>3. WithNewCall(m, c).calls = Append(m.calls, c)
  BY DEF WithNewCall, MessageRecord
<1>4. WithNewCall(m, c) \in MessageRecord
  BY <1>2 DEF WithNewCall, MessageRecord
<1>5. ASSUME NEW call
      PROVE  Holds(WithNewCall(m, c), call) <=> Holds(m, call) \/ call = c.id
  <2>1. \A j \in DOMAIN m.calls : j \in DOMAIN Append(m.calls, c) /\ Append(m.calls, c)[j] = m.calls[j]
    BY <1>1
  <2>2. \A j \in DOMAIN Append(m.calls, c) :
          \/ j \in DOMAIN m.calls /\ Append(m.calls, c)[j] = m.calls[j]
          \/ Append(m.calls, c)[j] = c
    BY <1>1
  <2>3. \E j \in DOMAIN Append(m.calls, c) : Append(m.calls, c)[j] = c
    <3>1. Len(m.calls) + 1 \in DOMAIN Append(m.calls, c)
          /\ Append(m.calls, c)[Len(m.calls) + 1] = c
      BY <1>1
    <3> QED
      BY <3>1
  <2> QED
    BY <1>3, <2>1, <2>2, <2>3 DEF Holds
<1> QED
  BY <1>3, <1>4, <1>5

LEMMA CallOpened ==
  ASSUME NEW s \in Lists, NEW e \in Sent, e.type = "TOOL_CALL_START",
         NEW t, t = OpenToolCall(s, e)
  PROVE  \/ Touched(s, t)
         \/ /\ \A i \in DOMAIN s : ~Holds(s[i], e.toolCallId)
            /\ NewCall(e.toolCallId, e.meta) \in CallRecord
            /\ \/ \E i \in DOMAIN s : CallAdded(s, t, i, NewCall(e.toolCallId, e.meta))
               \/ \E id \in {e.toolCallId, e.parentMessageId} \ {Absent}, owner \in Tags :
                    Inserted(s, t, Len(s) + 1,
                      WithNewCall(NewMessage(id, "assistant", owner, Absent, "call"),
                                  NewCall(e.toolCallId, e.meta)))
<1> DEFINE c == NewCall(e.toolCallId, e.meta)
           held == FindHolder(s, e.toolCallId)
           r == ResolveAssistant(s, e)
<1>0. e.meta \in Metas /\ OwnerOf(e) \in Tags /\ e.toolCallId \in Ids /\ Absent \in Metas
      /\ e.parentMessageId \in Ids \cup {Absent}
  BY EventFacts DEF HasShape, ToolCallTypes
<1>1. IsFirst(held, s, {i \in DOMAIN s : Holds(s[i], e.toolCallId)})
  BY FindHolderIsFirst
<1>2. CASE held > 0
  <2>1. PICK i \in DOMAIN s : i = held /\ Holds(s[i], e.toolCallId)
    BY <1>1, <1>2 DEF IsFirst
  <2>2. t = WithCallMeta(s, i, CallAt(s[i], e.toolCallId), e.meta)
    BY <1>2, <2>1 DEF OpenToolCall, WithCallMeta
  <2> QED
    BY <1>0, <2>1, <2>2, CallMetaWritten
<1>3. CASE ~(held > 0)
  <2>1. \A i \in DOMAIN s : ~Holds(s[i], e.toolCallId)
    <3>1. held = 0
      BY <1>1, <1>3 DEF IsFirst, Lists
    <3> QED
      BY <1>1, <3>1 DEF IsFirst
  <2>2. c \in CallRecord
    BY <1>0 DEF NewCall, CallRecord
  <2>3. t = [r.list EXCEPT ![r.at].calls = Append(@, c)]
    BY <1>3 DEF OpenToolCall
  <2>4. \/ \E i \in DOMAIN s : s[i].role = "assistant" /\ r = [list |-> s, at |-> i]
        \/ \E id \in {e.toolCallId, e.parentMessageId} \ {Absent}, owner \in Tags :
             r = [list |-> Append(s, NewMessage(id, "assistant", owner, Absent, "call")),
                  at |-> Len(s) + 1]
    <3> DEFINE i == IF e.parentMessageId = Absent THEN 0 ELSE Find(s, e.parentMessageId)
               taken == i > 0 /\ s[i].role # "assistant"
               id == IF e.parentMessageId = Absent \/ taken THEN e.toolCallId ELSE e.parentMessageId
               owner == IF Find(s, id) = 0 THEN OwnerOf(e) ELSE Absent
    <3>1. r = IF i > 0 /\ ~taken THEN [list |-> s, at |-> i]
              ELSE [list |-> Append(s, NewMessage(id, "assistant", owner, Absent, "call")),
                    at |-> Len(s) + 1]
      BY DEF ResolveAssistant
    <3>2. i > 0 => i \in DOMAIN s
      BY FindIsFirst DEF IsFirst
    <3>3. id \in {e.toolCallId, e.parentMessageId} \ {Absent}
      BY <1>0, AbsentIsNoSubagent
    <3>4. owner \in Tags
      BY <1>0 DEF Tags
    <3> HIDE DEF r, i, id, owner
    <3> QED
      BY <3>1, <3>2, <3>3, <3>4
  <2>5. CASE \E i \in DOMAIN s : s[i].role = "assistant" /\ r = [list |-> s, at |-> i]
    <3>1. PICK i \in DOMAIN s : s[i].role = "assistant" /\ r = [list |-> s, at |-> i]
      BY <2>5
    <3>2. t = [s EXCEPT ![i] = WithNewCall(s[i], c)]
      BY <2>3, <3>1 DEF WithNewCall
    <3>3. s[i] \in MessageRecord
      BY DEF Lists
    <3>4. WithNewCall(s[i], c) \in MessageRecord
      BY <2>2, <3>3, NewCallTyped
    <3>5. CallAdded(s, t, i, c)
      BY <3>1, <3>2, <3>4 DEF CallAdded, Lists
    <3> QED
      BY <2>1, <2>2, <3>5
  <2>6. CASE \E id \in {e.toolCallId, e.parentMessageId} \ {Absent}, owner \in Tags :
               r = [list |-> Append(s, NewMessage(id, "assistant", owner, Absent, "call")),
                    at |-> Len(s) + 1]
    <3>1. PICK id \in {e.toolCallId, e.parentMessageId} \ {Absent}, owner \in Tags :
               r = [list |-> Append(s, NewMessage(id, "assistant", owner, Absent, "call")),
                    at |-> Len(s) + 1]
      BY <2>6
    <3>2. PICK m \in MessageRecord : m = NewMessage(id, "assistant", owner, Absent, "call")
      BY <1>0, FreshMessages DEF Roles
    <3>3. WithNewCall(m, c) \in MessageRecord
      BY <2>2, NewCallTyped
    <3>4. t = [Append(s, m) EXCEPT ![Len(s) + 1].calls = Append(@, c)]
      BY <2>3, <3>1, <3>2
    <3>5. t = Append(s, WithNewCall(m, c))
      <4> DEFINE a == Append(s, m)
                 b == Append(s, WithNewCall(m, c))
      <4>1. /\ DOMAIN a = 1..Len(s) + 1 /\ DOMAIN b = 1..Len(s) + 1
            /\ a[Len(s) + 1] = m /\ b[Len(s) + 1] = WithNewCall(m, c)
            /\ (\A k \in 1..Len(s) : a[k] = s[k] /\ b[k] = s[k])
            /\ b = [k \in DOMAIN b |-> b[k]] /\ Len(s) + 1 \in 1..Len(s) + 1
            /\ \A k \in 1..Len(s) + 1 : k = Len(s) + 1 \/ k \in 1..Len(s)
        BY <3>3 DEF Lists
      <4>2. t = [a EXCEPT ![Len(s) + 1] = WithNewCall(m, c)]
        BY <3>4, <4>1 DEF WithNewCall
      <4> HIDE DEF a, b
      <4> QED
        BY <4>1, <4>2 DEF b
    <3>6. Inserted(s, t, Len(s) + 1, WithNewCall(m, c))
      BY <3>3, <3>5, AppendInserts
    <3> QED
      BY <2>1, <2>2, <3>2, <3>6
  <2> QED
    BY <2>4, <2>5, <2>6
<1> QED
  BY <1>2, <1>3

(* The message that a TOOL_CALL_RESULT mints, and where it goes.           *)
ResultOf(e) ==
  [NewMessage(e.messageId, "tool", OwnerOf(e), e.meta, "opener") EXCEPT !.answers = e.toolCallId]

LEMMA ResultFacts ==
  ASSUME NEW e \in Sent, e.type = "TOOL_CALL_RESULT"
  PROVE  /\ ResultOf(e) \in MessageRecord
         /\ ResultOf(e).id = e.messageId /\ ResultOf(e).role = "tool"
         /\ ResultOf(e).owner = OwnerOf(e) /\ ResultOf(e).answers = e.toolCallId
         /\ ResultOf(e).by = "opener" /\ ResultOf(e).calls = <<>>
         /\ e.messageId \in Ids /\ e.toolCallId \in Ids /\ OwnerOf(e) \in Tags
<1>1. e.meta \in Metas /\ OwnerOf(e) \in Tags /\ e.toolCallId \in Ids /\ e.messageId \in Ids
  BY EventFacts DEF HasShape, MessageTypes
<1>2. PICK m \in MessageRecord : m = NewMessage(e.messageId, "tool", OwnerOf(e), e.meta, "opener")
  BY <1>1, FreshMessages DEF Roles
<1>3. /\ m.id = e.messageId /\ m.role = "tool" /\ m.owner = OwnerOf(e)
      /\ m.by = "opener" /\ m.calls = <<>>
  BY <1>2 DEF NewMessage
<1>4. ResultOf(e) = [m EXCEPT !.answers = e.toolCallId]
  BY <1>2 DEF ResultOf
<1> QED
  BY <1>1, <1>3, <1>4 DEF MessageRecord

LEMMA ResultAdded ==
  ASSUME NEW s \in Lists, NEW e \in Sent, e.type = "TOOL_CALL_RESULT"
  PROVE  \E p \in 1..Len(s) + 1 :
           /\ Inserted(s, AddResult(s, e), p, ResultOf(e))
           /\ FindCaller(s, e.toolCallId) # 0 =>
                /\ FindCaller(s, e.toolCallId) < p
                /\ \A k \in FindCaller(s, e.toolCallId) + 1 .. p - 1 : s[k].role = "tool"
<1>0. ResultOf(e) \in MessageRecord /\ Len(s) \in Nat /\ DOMAIN s = 1..Len(s)
  BY ResultFacts DEF Lists
<1>1. CASE FindCaller(s, e.toolCallId) = 0
  <2>1. AddResult(s, e) = Append(s, ResultOf(e))
    BY <1>1 DEF AddResult, ResultOf
  <2>2. Len(s) + 1 \in 1..Len(s) + 1
    BY <1>0
  <2> QED
    BY <1>0, <1>1, <2>1, <2>2, AppendInserts
<1>2. CASE FindCaller(s, e.toolCallId) # 0
  <2>1. PICK h \in 1..Len(s) : h = FindCaller(s, e.toolCallId)
    BY <1>0, <1>2, FindCallerIsFirst DEF IsFirst
  <2> DEFINE behind == {i \in h + 1 .. Len(s) + 1 : \A k \in h + 1 .. i - 1 : s[k].role = "tool"}
             at == CHOOSE i \in behind : \A j \in behind : j <= i
  <2>2. h + 1 \in behind
    BY <1>0
  <2>3. PICK i \in behind : \A j \in behind : i >= j
    <3>1. behind \subseteq h + 1 .. Len(s) + 1
      OBVIOUS
    <3>2. h + 1 .. Len(s) + 1 \subseteq 1..Len(s) + 1 /\ Len(s) + 1 \in Nat
      BY <1>0
    <3> HIDE DEF behind
    <3>3. behind # {}
      BY <2>2
    <3> QED
      BY <3>1, <3>2, <3>3, GreatestExists
  <2>4. at \in behind
    <3>1. \A j \in behind : j <= i
      BY <1>0, <2>3
    <3> HIDE DEF behind
    <3> QED
      BY <2>3, <3>1
  <2>5. AddResult(s, e) = InsertAt(s, at, ResultOf(e))
    BY <1>2, <2>1 DEF AddResult, ResultOf
  <2>6. at \in 1..Len(s) + 1 /\ h < at /\ \A k \in h + 1 .. at - 1 : s[k].role = "tool"
    <3>1. \A j \in behind :
            j \in 1..Len(s) + 1 /\ h < j /\ \A k \in h + 1 .. j - 1 : s[k].role = "tool"
      BY <1>0
    <3> HIDE DEF at, behind
    <3> QED
      BY <2>4, <3>1
  <2> HIDE DEF at
  <2> QED
    BY <1>0, <2>1, <2>5, <2>6, InsertAtInserts
<1> QED
  BY <1>1, <1>2

-----------------------------------------------------------------------------
(* Activities.                                                             *)
LEMMA MergedAt ==
  ASSUME NEW s \in Lists, NEW i, NEW meta \in Metas
  PROVE  Touched(s, MergeMetaAt(s, i, meta))
<1>1. CASE i \in DOMAIN s
  <2>1. MergeMetaAt(s, i, meta) = WithMeta(s, i, meta)
    BY <1>1 DEF MergeMetaAt, WithMeta
  <2> QED
    BY <1>1, <2>1, MetaWritten
<1>2. CASE i \notin DOMAIN s
  <2>1. MergeMetaAt(s, i, meta) = s
    BY <1>2 DEF MergeMetaAt
  <2> QED
    BY <2>1, TouchedSelf
<1> QED
  BY <1>1, <1>2

LEMMA WrittenAt ==
  ASSUME NEW s \in Lists, NEW i \in Nat \ {0}, NEW m \in MessageRecord
  PROVE  \/ Inserted(s, WriteAt(s, i, m), Len(s) + 1, m)
         \/ i \in DOMAIN s /\ WriteAt(s, i, m) = [s EXCEPT ![i] = m]
  BY AppendInserts DEF WriteAt, Lists

(* A message that takes the place of another, metadata aside.              *)
Overwritten(s, t, i, m) ==
  /\ t \in Lists /\ DOMAIN t = DOMAIN s /\ i \in DOMAIN s
  /\ Same(m, t[i]) /\ \A k \in DOMAIN s \ {i} : t[k] = s[k]

LEMMA OverwrittenAt ==
  ASSUME NEW s \in Lists, NEW i \in DOMAIN s, NEW m \in MessageRecord, NEW meta \in Metas
  PROVE  /\ Overwritten(s, [s EXCEPT ![i] = m], i, m)
         /\ Overwritten(s, MergeMetaAt([s EXCEPT ![i] = m], i, meta), i, m)
<1> DEFINE u == [s EXCEPT ![i] = m]
<1>1. u \in Lists /\ DOMAIN u = DOMAIN s /\ u[i] = m /\ \A k \in DOMAIN s \ {i} : u[k] = s[k]
  BY DEF Lists
<1>2. Same(m, m)
  BY DEF Same
<1>3. Overwritten(s, u, i, m)
  <2> HIDE DEF u
  <2> QED
    BY <1>1, <1>2 DEF Overwritten
<1> HIDE DEF u
<1>4. Touched(u, MergeMetaAt(u, i, meta))
  BY <1>1, MergedAt
<1>5. \A k \in DOMAIN s \ {i} : MergeMetaAt(u, i, meta)[k] = s[k]
  BY <1>1 DEF MergeMetaAt
<1>6. Overwritten(s, MergeMetaAt(u, i, meta), i, m)
  BY <1>1, <1>4, <1>5 DEF Touched, Overwritten
<1> QED
  BY <1>3, <1>6 DEF u

(* The activity as a snapshot creates it, and one that it replaces.        *)
ActivityOf(e) ==
  [[NewMessage(e.messageId, "activity", OwnerOf(e), Absent, "opener")
      EXCEPT !.content = e.delta] EXCEPT !.meta = e.meta]
Reowned(m, e) == [m EXCEPT !.content = e.delta, !.owner = OwnerOf(e), !.by = "opener"]

LEMMA ActivityFacts ==
  ASSUME NEW e \in Sent, e.type = "ACTIVITY_SNAPSHOT"
  PROVE  /\ ActivityOf(e) \in MessageRecord
         /\ ActivityOf(e).id = e.messageId /\ ActivityOf(e).role = "activity"
         /\ ActivityOf(e).owner = OwnerOf(e) /\ ActivityOf(e).answers = Absent
         /\ ActivityOf(e).by = "opener" /\ ActivityOf(e).calls = <<>>
         /\ e.messageId \in Ids /\ OwnerOf(e) \in Tags /\ e.delta \in Seq(Pieces)
<1>1. e.meta \in Metas /\ OwnerOf(e) \in Tags /\ e.messageId \in Ids /\ e.delta \in Seq(Pieces)
      /\ Absent \in Metas
  BY EventFacts DEF HasShape, MessageTypes
<1>2. PICK m \in MessageRecord : m = NewMessage(e.messageId, "activity", OwnerOf(e), Absent, "opener")
  BY <1>1, FreshMessages DEF Roles
<1>3. /\ m.id = e.messageId /\ m.role = "activity" /\ m.owner = OwnerOf(e)
      /\ m.by = "opener" /\ m.calls = <<>> /\ m.answers = Absent
  BY <1>2 DEF NewMessage
<1>4. ActivityOf(e) = [[m EXCEPT !.content = e.delta] EXCEPT !.meta = e.meta]
  BY <1>2 DEF ActivityOf
<1> QED
  BY <1>1, <1>3, <1>4 DEF MessageRecord

LEMMA ReownedFacts ==
  ASSUME NEW e \in Sent, e.type = "ACTIVITY_SNAPSHOT", NEW m \in MessageRecord
  PROVE  /\ Reowned(m, e) \in MessageRecord
         /\ Reowned(m, e).id = m.id /\ Reowned(m, e).role = m.role
         /\ Reowned(m, e).owner = OwnerOf(e) /\ Reowned(m, e).answers = m.answers
         /\ Reowned(m, e).by = "opener" /\ Reowned(m, e).calls = m.calls
  BY ActivityFacts DEF Reowned, MessageRecord

LEMMA ActivityShown ==
  ASSUME NEW s \in Lists, NEW e \in Sent, e.type = "ACTIVITY_SNAPSHOT",
         NEW t, t = ApplyActivitySnapshot(s, s, e)
  PROVE  \/ /\ \A i \in DOMAIN s : s[i].id # e.messageId
            /\ Inserted(s, t, Len(s) + 1, ActivityOf(e))
         \/ Touched(s, t) /\ ~e.replace
         \/ \E i \in DOMAIN s : /\ s[i].id = e.messageId /\ s[i].role = "activity" /\ e.replace
                                /\ Overwritten(s, t, i, Reowned(s[i], e))
         \/ \E i \in DOMAIN s : s[i].id = e.messageId /\ s[i].role # "activity"
<1> DEFINE i == Find(s, e.messageId)
<1>0. IsFirst(i, s, {k \in DOMAIN s : s[k].id = e.messageId})
  BY FindIsFirst
<1>1. e.meta \in Metas
  BY EventFacts
<1>2. CASE i = 0
  <2>1. t = Append(s, ActivityOf(e))
    BY <1>2 DEF ApplyActivitySnapshot, ActivityOf
  <2>2. \A k \in DOMAIN s : s[k].id # e.messageId
    BY <1>0, <1>2 DEF IsFirst
  <2> QED
    BY <2>1, <2>2, ActivityFacts, AppendInserts
<1>3. CASE i # 0 /\ s[i].role = "activity"
  <2>1. PICK k \in DOMAIN s : k = i /\ s[k].id = e.messageId
    BY <1>0, <1>3 DEF IsFirst
  <2>2. s[k] \in MessageRecord /\ ~(k > Len(s))
    BY DEF Lists
  <2>3. CASE e.replace
    <3>1. t = MergeMetaAt([s EXCEPT ![k] = Reowned(s[k], e)], k, e.meta)
      BY <1>3, <2>1, <2>2, <2>3 DEF ApplyActivitySnapshot, WriteAt, Reowned
    <3> QED
      BY <1>1, <1>3, <2>1, <2>2, <2>3, <3>1, ReownedFacts, OverwrittenAt
  <2>4. CASE ~e.replace
    <3>1. t = MergeMetaAt(s, k, e.meta)
      BY <1>3, <2>1, <2>4 DEF ApplyActivitySnapshot
    <3> QED
      BY <1>1, <2>4, <3>1, MergedAt
  <2> QED
    BY <2>3, <2>4
<1>4. CASE i # 0 /\ s[i].role # "activity"
  BY <1>0, <1>4 DEF IsFirst
<1> QED
  BY <1>2, <1>3, <1>4

LEMMA ActivityPatched ==
  ASSUME NEW s \in Lists, NEW e \in Sent, e.type = "ACTIVITY_DELTA"
  PROVE  Touched(s, ApplyActivityDelta(s, s, e))
<1> DEFINE i == Find(s, e.messageId)
           t == ApplyActivityDelta(s, s, e)
<1>0. e.meta \in Metas /\ e.delta \in Seq(Pieces)
  BY EventFacts DEF HasShape, MessageTypes
<1>1. CASE i = 0 \/ s[i].role # "activity"
  <2>1. t = s
    BY <1>1 DEF ApplyActivityDelta
  <2> QED
    BY <2>1, TouchedSelf
<1>2. CASE ~(i = 0 \/ s[i].role # "activity")
  <2>1. PICK k \in DOMAIN s : k = i
    BY <1>2, FindIsFirst DEF IsFirst
  <2>2. s[k] \in MessageRecord /\ ~(k > Len(s))
    BY DEF Lists
  <2> DEFINE found == [s[k] EXCEPT !.meta = MergeMeta(@, e.meta)]
             patched == [found EXCEPT !.content = @ \o e.delta]
  <2>3. MergeMeta(s[k].meta, e.meta) \in Metas
    BY <1>0, <2>2, MetaType DEF MessageRecord
  <2>4. found \in MessageRecord /\ Same(s[k], found)
    BY <2>2, <2>3 DEF MessageRecord, Same
  <2>5. found.content \o e.delta \in Seq(Pieces)
    BY <1>0, <2>4 DEF MessageRecord
  <2>6. patched \in MessageRecord /\ Same(s[k], patched)
    BY <2>4, <2>5 DEF MessageRecord, Same
  <2>7. t = [s EXCEPT ![k] = patched] \/ t = [s EXCEPT ![k] = found]
    BY <1>2, <2>1, <2>2 DEF ApplyActivityDelta, WriteAt
  <2> HIDE DEF found, patched, t
  <2> QED
    BY <2>4, <2>6, <2>7, TouchedAt DEF t
<1> QED
  BY <1>1, <1>2

-----------------------------------------------------------------------------
(* The elements of a list at some positions: each of them once.            *)
Drawn(s, r, P) ==
  /\ r \in Lists
  /\ \E g \in [DOMAIN r -> P] :
       /\ \A a \in DOMAIN r : r[a] = s[g[a]]
       /\ \A a, b \in DOMAIN r : g[a] = g[b] => a = b
       /\ \A p \in P : \E a \in DOMAIN r : g[a] = p

LEMMA DrawOne ==
  ASSUME NEW s \in Lists, NEW r, NEW P, Drawn(s, r, P), NEW n \in DOMAIN s, n \notin P
  PROVE  Drawn(s, Append(r, s[n]), P \cup {n})
<1>1. PICK g \in [DOMAIN r -> P] :
         /\ \A a \in DOMAIN r : r[a] = s[g[a]]
         /\ \A a, b \in DOMAIN r : g[a] = g[b] => a = b
         /\ \A p \in P : \E a \in DOMAIN r : g[a] = p
  BY DEF Drawn
<1>2. r \in Lists /\ s[n] \in MessageRecord /\ Len(r) \in Nat /\ DOMAIN r = 1..Len(r)
  BY DEF Drawn, Lists
<1> DEFINE t == Append(r, s[n])
           h == [a \in 1..Len(r) + 1 |-> IF a <= Len(r) THEN g[a] ELSE n]
<1>3. /\ t \in Lists /\ DOMAIN t = 1..Len(r) + 1 /\ t[Len(r) + 1] = s[n]
      /\ \A a \in 1..Len(r) : t[a] = r[a]
  BY <1>2 DEF Lists
<1>4. h \in [DOMAIN t -> P \cup {n}]
  BY <1>2, <1>3
<1>5. h[Len(r) + 1] = n /\ \A a \in DOMAIN r : h[a] = g[a] /\ h[a] \in P
  BY <1>2
<1>6. \A a \in DOMAIN t : a \in DOMAIN r \/ a = Len(r) + 1
  BY <1>2, <1>3
<1>7. \A a \in DOMAIN r : a \in DOMAIN t
  BY <1>2, <1>3
<1>8. Len(r) + 1 \in DOMAIN t
  BY <1>2, <1>3
<1> HIDE DEF t, h
<1>9. \A a \in DOMAIN t : t[a] = s[h[a]]
  BY <1>1, <1>2, <1>3, <1>5, <1>6
<1>10. \A a, b \in DOMAIN t : h[a] = h[b] => a = b
  BY <1>1, <1>5, <1>6
<1>11. \A p \in P \cup {n} : \E a \in DOMAIN t : h[a] = p
  BY <1>1, <1>5, <1>7, <1>8
<1>12. Drawn(s, t, P \cup {n})
  BY <1>3, <1>4, <1>9, <1>10, <1>11 DEF Drawn
<1> QED
  BY <1>12 DEF t

LEMMA ElementsAreDrawn ==
  ASSUME NEW s \in Lists, NEW P, P \subseteq DOMAIN s
  PROVE  Drawn(s, ElementsAt(s, P), P)
<1> DEFINE F == CHOOSE f : f = [n \in 0..Len(s) |->
                  IF n = 0 THEN <<>>
                  ELSE IF n \in P THEN Append(f[n - 1], s[n]) ELSE f[n - 1]]
           step == [n \in 1..Len(s) |-> [v \in Lists |-> IF n \in P THEN Append(v, s[n]) ELSE v]]
<1>1. ElementsAt(s, P) = F[Len(s)]
  BY DEF ElementsAt
<1>2. \A n \in 1..Len(s), v \in Lists : step[n][v] = IF n \in P THEN Append(v, s[n]) ELSE v
  OBVIOUS
<1>3. Len(s) \in Nat /\ <<>> \in Lists /\ DOMAIN s = 1..Len(s)
      /\ \A n \in 1..Len(s) : s[n] \in MessageRecord
  BY DEF Lists
<1> HIDE DEF step
<1>4. IsStep(step, Len(s), Lists)
  <2>1. \A v \in Lists, m \in MessageRecord : Append(v, m) \in Lists
    BY DEF Lists
  <2> QED
    BY <1>2, <1>3, <2>1 DEF IsStep
<1>5. PICK f \in [0..Len(s) -> Lists] :
        f[0] = <<>> /\ \A n \in 1..Len(s) : f[n] = step[n][f[n - 1]]
  <2>1. PICK f : IsRecursion(f, Len(s), Lists, <<>>, step)
    BY <1>3, <1>4, RecursionExists
  <2> QED
    BY <2>1 DEF IsRecursion
<1>6. ASSUME NEW n \in 0..Len(s)
      PROVE  f[n] = IF n = 0 THEN <<>>
                    ELSE IF n \in P THEN Append(f[n - 1], s[n]) ELSE f[n - 1]
  <2>1. CASE n = 0
    BY <1>5, <2>1
  <2>2. CASE n # 0
    <3>1. n \in 1..Len(s) /\ f[n - 1] \in Lists
      BY <1>3, <2>2
    <3> QED
      BY <1>2, <1>5, <2>2, <3>1
  <2> QED
    BY <2>1, <2>2
<1>7. f = [n \in 0..Len(s) |->
             IF n = 0 THEN <<>> ELSE IF n \in P THEN Append(f[n - 1], s[n]) ELSE f[n - 1]]
  <2>1. f = [n \in 0..Len(s) |-> f[n]]
    OBVIOUS
  <2> QED
    BY <1>6, <2>1
<1>8. F = [n \in 0..Len(s) |->
             IF n = 0 THEN <<>> ELSE IF n \in P THEN Append(F[n - 1], s[n]) ELSE F[n - 1]]
  BY <1>7
<1> HIDE DEF F
<1>9. \A n \in 0..Len(s) :
        F[n] = IF n = 0 THEN <<>> ELSE IF n \in P THEN Append(F[n - 1], s[n]) ELSE F[n - 1]
  BY <1>8
<1> DEFINE S == {n \in Nat : n <= Len(s) => Drawn(s, F[n], P \cap 1..n)}
<1>10. 0 \in S
  <2>1. F[0] = <<>> /\ P \cap 1..0 = {} /\ DOMAIN <<>> = {}
    BY <1>3, <1>9
  <2>2. [a \in {} |-> a] \in [DOMAIN <<>> -> {}]
    BY <2>1
  <2>3. Drawn(s, <<>>, {})
    BY <1>3, <2>1, <2>2 DEF Drawn
  <2> QED
    BY <2>1, <2>3
<1>11. ASSUME NEW n \in Nat, n \in S PROVE n + 1 \in S
  <2> SUFFICES ASSUME n + 1 <= Len(s) PROVE Drawn(s, F[n + 1], P \cap 1..n + 1)
    BY <1>3
  <2>1. Drawn(s, F[n], P \cap 1..n)
    BY <1>3, <1>11
  <2>2. n + 1 \in 0..Len(s) /\ n + 1 # 0 /\ (n + 1) - 1 = n /\ n + 1 \in DOMAIN s
        /\ n + 1 \notin P \cap 1..n
    BY <1>3
  <2>3. CASE n + 1 \in P
    <3>1. F[n + 1] = Append(F[n], s[n + 1])
      BY <1>9, <2>2, <2>3
    <3>2. P \cap 1..n + 1 = (P \cap 1..n) \cup {n + 1}
      BY <2>3
    <3>3. Drawn(s, Append(F[n], s[n + 1]), (P \cap 1..n) \cup {n + 1})
      BY <2>1, <2>2, DrawOne
    <3> QED
      BY <3>1, <3>2, <3>3
  <2>4. CASE n + 1 \notin P
    <3>1. F[n + 1] = F[n]
      BY <1>9, <2>2, <2>4
    <3>2. P \cap 1..n + 1 = P \cap 1..n
      <4>1. 1..n + 1 = 1..n \cup {n + 1}
        OBVIOUS
      <4> QED
        BY <2>4, <4>1
    <3> QED
      BY <2>1, <3>1, <3>2
  <2> QED
    BY <2>3, <2>4
<1>12. Len(s) \in S
  <2> HIDE DEF S
  <2> QED
    BY <1>3, <1>10, <1>11, InductionFrom
<1>13. Drawn(s, F[Len(s)], P \cap 1..Len(s)) /\ P \cap 1..Len(s) = P
  BY <1>3, <1>12
<1> QED
  BY <1>1, <1>13

(* The messages of a snapshot or an echo.                                  *)
WellTyped(h) ==
  h \in Seq(Message) /\ \A i \in DOMAIN h : IsFiniteSet(h[i].toolCalls)

LEMMA ImportedFacts ==
  ASSUME NEW m \in Message, IsFiniteSet(m.toolCalls)
  PROVE  /\ Imported(m) \in MessageRecord
         /\ Imported(m).id = m.id /\ Imported(m).role = m.role
         /\ Imported(m).owner = OwnerOf(m) /\ Imported(m).answers = m.toolCallId
         /\ Imported(m).by = "history"
         /\ m.role # "assistant" => Imported(m).calls = <<>>
<1> DEFINE ids == SetToSeq(m.toolCalls)
           calls == [i \in DOMAIN ids |-> NewCall(ids[i], Absent)]
<1>0. /\ m.id \in Ids /\ m.role \in Roles /\ m.subagentRunId \in WireTags
      /\ m.toolCalls \subseteq Ids /\ m.toolCallId \in Ids \cup {Absent}
      /\ m.role # "assistant" => m.toolCalls = {}
  BY DEF Message, Roles
<1>1. OwnerOf(m) \in Tags /\ Absent \in Metas
  BY <1>0 DEF OwnerOf, WireTags, Tags, Metas
<1>2. Cardinality(m.toolCalls) \in Nat /\ ids \in [1..Cardinality(m.toolCalls) -> m.toolCalls]
  <2>1. Cardinality(m.toolCalls) \in Nat /\ ExistsBijection(1..Cardinality(m.toolCalls), m.toolCalls)
    BY FS_CardinalityType
  <2>2. \E f \in [1..Cardinality(m.toolCalls) -> m.toolCalls] : IsInjective(f)
    BY <2>1 DEF ExistsBijection, Bijection, Injection
  <2> QED
    BY <2>1, <2>2 DEF SetToSeq
<1> HIDE DEF ids
<1>3. \A i \in DOMAIN ids : NewCall(ids[i], Absent) \in CallRecord
  BY <1>0, <1>1, <1>2 DEF NewCall, CallRecord
<1>4. calls \in Seq(CallRecord)
  BY <1>2, <1>3
<1>5. m.role # "assistant" => calls = <<>>
  <2> SUFFICES ASSUME m.role # "assistant" PROVE calls = <<>>
    OBVIOUS
  <2>1. Cardinality(m.toolCalls) = 0
    BY <1>0, FS_EmptySet
  <2>2. DOMAIN calls = {}
    BY <1>2, <2>1
  <2> HIDE DEF calls
  <2> QED
    BY <1>4, <2>2
<1> DEFINE n == NewMessage(m.id, m.role, OwnerOf(m), Absent, "history")
<1>6. n \in MessageRecord
  BY <1>0, <1>1, FreshMessages
<1>7. /\ n.id = m.id /\ n.role = m.role /\ n.owner = OwnerOf(m) /\ n.by = "history"
  BY DEF NewMessage
<1>8. Imported(m) = [n EXCEPT !.answers = m.toolCallId, !.calls = calls]
  BY DEF Imported, ids
<1> HIDE DEF calls, n
<1> QED
  BY <1>0, <1>4, <1>5, <1>6, <1>7, <1>8 DEF MessageRecord

LEMMA SnapshotMerged ==
  ASSUME NEW s \in Lists, NEW h, WellTyped(h), NEW t, t = MergeSnapshot(s, h)
  PROVE  /\ t \in Lists
         /\ \A a \in DOMAIN t :
              \/ \E k \in DOMAIN h : t[a] = Imported(h[k])
              \/ \E i \in DOMAIN s : /\ t[a] = s[i] /\ s[i].role \in {"activity", "reasoning"}
                                     /\ \A k \in DOMAIN h : h[k].id # s[i].id
         /\ \A k \in DOMAIN h : \E a \in DOMAIN t : t[a].id = h[k].id
         /\ (\A k, l \in DOMAIN h : h[k].id = h[l].id => k = l) =>
              \A a, b \in DOMAIN t : a # b /\ t[a].id = t[b].id =>
                \E i, j \in DOMAIN s : i # j /\ s[i].id = t[a].id /\ s[j].id = t[a].id
<1> DEFINE new == [i \in DOMAIN h |-> Imported(h[i])]
           Named(id) == \E i \in DOMAIN new : new[i].id = id
           LastOf(id) == CHOOSE i \in DOMAIN new : new[i].id = id
                           /\ \A j \in DOMAIN new : new[j].id = id => j <= i
           Has(role) == \E i \in DOMAIN new : new[i].role = role
           ClientOnly(m) == m.role \in {"activity", "reasoning"} /\ ~Has(m.role)
           P == {i \in DOMAIN s : Named(s[i].id) \/ ClientOnly(s[i])}
           kept == ElementsAt(s, P)
           u == [i \in DOMAIN kept |-> IF Named(kept[i].id) THEN new[LastOf(kept[i].id)] ELSE kept[i]]
           Q == {i \in DOMAIN new : Find(kept, new[i].id) = 0}
           rest == ElementsAt(new, Q)
<1>1. t = u \o rest
  BY DEF MergeSnapshot
<1>2. DOMAIN h = 1..Len(h) /\ Len(h) \in Nat /\ \A k \in DOMAIN h : h[k] \in Message /\ IsFiniteSet(h[k].toolCalls)
  BY DEF WellTyped
<1>3. DOMAIN new = 1..Len(h) /\ \A k \in 1..Len(h) : new[k] = Imported(h[k]) /\ new[k] \in MessageRecord /\ new[k].id = h[k].id
  BY <1>2, ImportedFacts
<1>4. new \in Lists
  BY <1>2, <1>3 DEF Lists
<1> HIDE DEF new
<1>5. ASSUME NEW id, Named(id) PROVE LastOf(id) \in 1..Len(h) /\ new[LastOf(id)].id = id
  <2> DEFINE I == {i \in 1..Len(h) : new[i].id = id}
  <2>1. I \subseteq 1..Len(h) /\ I # {}
    BY <1>3, <1>5
  <2>2. PICK i \in I : \A j \in I : i >= j
    BY <1>2, <2>1, GreatestExists
  <2>3. i \in DOMAIN new /\ new[i].id = id /\ \A j \in DOMAIN new : new[j].id = id => j <= i
    BY <1>2, <1>3, <2>2
  <2>4. LastOf(id) \in DOMAIN new /\ new[LastOf(id)].id = id
    BY <2>3
  <2> QED
    BY <1>3, <2>4
<1>6. P \subseteq DOMAIN s /\ \A i \in P : ~Named(s[i].id) => s[i].role \in {"activity", "reasoning"}
  OBVIOUS
<1>7. Drawn(s, kept, P)
  <2> HIDE DEF P
  <2> QED
    BY <1>6, ElementsAreDrawn
<1>8. Q \subseteq DOMAIN new /\ \A i \in DOMAIN new : i \in Q <=> Find(kept, new[i].id) = 0
  OBVIOUS
<1>9. Drawn(new, rest, Q)
  <2> HIDE DEF Q
  <2> QED
    BY <1>4, <1>8, ElementsAreDrawn
<1> HIDE DEF P, Q, LastOf
<1>10. PICK g \in [DOMAIN kept -> P] :
         /\ \A a \in DOMAIN kept : kept[a] = s[g[a]]
         /\ \A a, b \in DOMAIN kept : g[a] = g[b] => a = b
         /\ \A p \in P : \E a \in DOMAIN kept : g[a] = p
  BY <1>7 DEF Drawn
<1>11. PICK f \in [DOMAIN rest -> Q] :
         /\ \A a \in DOMAIN rest : rest[a] = new[f[a]]
         /\ \A a, b \in DOMAIN rest : f[a] = f[b] => a = b
         /\ \A p \in Q : \E a \in DOMAIN rest : f[a] = p
  BY <1>9 DEF Drawn
<1>12. kept \in Lists /\ rest \in Lists
  BY <1>7, <1>9 DEF Drawn
<1> HIDE DEF kept, rest
<1>13. ASSUME NEW a \in DOMAIN kept
       PROVE  /\ u[a] \in MessageRecord /\ u[a].id = kept[a].id
              /\ \/ \E k \in DOMAIN h : u[a] = Imported(h[k])
                 \/ u[a] = kept[a] /\ ~Named(kept[a].id)
  <2>1. kept[a] \in MessageRecord
    BY <1>12 DEF Lists
  <2>2. CASE Named(kept[a].id)
    <3>1. u[a] = new[LastOf(kept[a].id)]
      BY <2>2
    <3>2. LastOf(kept[a].id) \in 1..Len(h) /\ new[LastOf(kept[a].id)].id = kept[a].id
      <4> HIDE DEF Named
      <4> QED
        BY <1>5, <2>2
    <3> HIDE DEF u, Named
    <3> QED
      BY <1>2, <1>3, <3>1, <3>2
  <2>3. CASE ~Named(kept[a].id)
    <3>1. u[a] = kept[a]
      BY <2>3
    <3> HIDE DEF u, Named
    <3> QED
      BY <2>1, <2>3, <3>1
  <2> HIDE DEF u, Named
  <2> QED
    BY <2>2, <2>3
<1>14. DOMAIN u = DOMAIN kept /\ u \in Lists
  <2>1. DOMAIN u = DOMAIN kept /\ DOMAIN kept = 1..Len(kept) /\ Len(kept) \in Nat
    BY <1>12 DEF Lists
  <2>2. u = [i \in 1..Len(kept) |-> u[i]]
    BY <2>1
  <2> HIDE DEF u, Named
  <2> QED
    BY <1>13, <2>1, <2>2 DEF Lists
<1> HIDE DEF u
<1>15. /\ t \in Lists /\ DOMAIN t = 1..Len(kept) + Len(rest)
       /\ Len(kept) \in Nat /\ Len(rest) \in Nat
       /\ DOMAIN kept = 1..Len(kept) /\ DOMAIN rest = 1..Len(rest)
       /\ \A a \in 1..Len(kept) + Len(rest) :
            t[a] = IF a <= Len(kept) THEN u[a] ELSE rest[a - Len(kept)]
  <2>1. Len(u) = Len(kept)
    BY <1>12, <1>14 DEF Lists
  <2>2. /\ u \o rest \in Lists /\ Len(u \o rest) = Len(u) + Len(rest)
        /\ \A a \in 1..Len(u) + Len(rest) :
             (u \o rest)[a] = IF a <= Len(u) THEN u[a] ELSE rest[a - Len(u)]
    BY <1>12, <1>14, ConcatProperties DEF Lists
  <2> QED
    BY <1>1, <1>12, <2>1, <2>2 DEF Lists
<1>16. ASSUME NEW a \in DOMAIN t
       PROVE  \/ a \in DOMAIN kept /\ t[a] = u[a]
              \/ a - Len(kept) \in DOMAIN rest /\ t[a] = rest[a - Len(kept)]
  BY <1>15
<1>17. ASSUME NEW a \in DOMAIN t
       PROVE  \/ \E k \in DOMAIN h : t[a] = Imported(h[k])
              \/ \E i \in DOMAIN s : /\ t[a] = s[i] /\ s[i].role \in {"activity", "reasoning"}
                                     /\ \A k \in DOMAIN h : h[k].id # s[i].id
  <2>1. CASE a \in DOMAIN kept /\ t[a] = u[a]
    <3>1. CASE u[a] = kept[a] /\ ~Named(kept[a].id)
      <4>1. g[a] \in P /\ g[a] \in DOMAIN s /\ kept[a] = s[g[a]]
        BY <1>6, <1>10, <2>1
      <4>2. s[g[a]].role \in {"activity", "reasoning"}
        <5> HIDE DEF Named
        <5> QED
          BY <1>6, <3>1, <4>1
      <4>3. \A k \in DOMAIN h : h[k].id # s[g[a]].id
        BY <1>2, <1>3, <3>1, <4>1
      <4> QED
        BY <2>1, <3>1, <4>1, <4>2, <4>3
    <3> QED
      BY <1>13, <2>1, <3>1
  <2>2. CASE a - Len(kept) \in DOMAIN rest /\ t[a] = rest[a - Len(kept)]
    <3>1. t[a] = new[f[a - Len(kept)]] /\ f[a - Len(kept)] \in 1..Len(h)
      BY <1>3, <1>8, <1>11, <2>2
    <3> QED
      BY <1>2, <1>3, <3>1
  <2> QED
    BY <1>16, <2>1, <2>2
<1>18. ASSUME NEW k \in DOMAIN h PROVE \E a \in DOMAIN t : t[a].id = h[k].id
  <2>1. IsFirst(Find(kept, h[k].id), kept, {i \in DOMAIN kept : kept[i].id = h[k].id})
    BY <1>12, FindIsFirst
  <2>2. CASE Find(kept, h[k].id) = 0
    <3>1. k \in Q
      BY <1>2, <1>3, <1>8, <2>2
    <3>2. PICK b \in DOMAIN rest : f[b] = k
      BY <1>11, <3>1
    <3>3. b + Len(kept) \in DOMAIN t /\ t[b + Len(kept)] = rest[b]
      BY <1>15
    <3>4. rest[b].id = h[k].id
      BY <1>2, <1>3, <1>11, <3>2
    <3> QED
      BY <3>3, <3>4
  <2>3. CASE Find(kept, h[k].id) # 0
    <3>1. PICK b \in DOMAIN kept : kept[b].id = h[k].id
      BY <2>1, <2>3 DEF IsFirst
    <3>2. b \in DOMAIN t /\ t[b] = u[b]
      BY <1>15
    <3> QED
      BY <1>13, <3>1, <3>2
  <2> QED
    BY <2>2, <2>3
<1>19. ASSUME \A k, l \in DOMAIN h : h[k].id = h[l].id => k = l,
              NEW a \in DOMAIN t, NEW b \in DOMAIN t, a # b, t[a].id = t[b].id
       PROVE  \E i, j \in DOMAIN s : i # j /\ s[i].id = t[a].id /\ s[j].id = t[a].id
  <2>1. \A x \in DOMAIN rest : /\ f[x] \in DOMAIN h /\ rest[x].id = h[f[x]].id
                               /\ \A y \in DOMAIN kept : kept[y].id # rest[x].id
    <3> SUFFICES ASSUME NEW x \in DOMAIN rest
                 PROVE  /\ f[x] \in DOMAIN h /\ rest[x].id = h[f[x]].id
                        /\ \A y \in DOMAIN kept : kept[y].id # rest[x].id
      OBVIOUS
    <3>1. f[x] \in Q /\ f[x] \in DOMAIN h /\ rest[x] = new[f[x]] /\ rest[x].id = h[f[x]].id
      BY <1>2, <1>3, <1>8, <1>11
    <3>2. Find(kept, rest[x].id) = 0
      BY <1>8, <3>1
    <3>3. IsFirst(Find(kept, rest[x].id), kept, {i \in DOMAIN kept : kept[i].id = rest[x].id})
      BY <1>12, FindIsFirst
    <3> QED
      BY <3>1, <3>2, <3>3 DEF IsFirst
  <2>2. CASE a \in DOMAIN kept /\ t[a] = u[a] /\ b \in DOMAIN kept /\ t[b] = u[b]
    <3>1. g[a] # g[b] /\ g[a] \in DOMAIN s /\ g[b] \in DOMAIN s
      BY <1>6, <1>10, <1>19, <2>2
    <3>2. s[g[a]].id = t[a].id /\ s[g[b]].id = t[a].id
      BY <1>10, <1>13, <1>19, <2>2
    <3> QED
      BY <3>1, <3>2
  <2>3. ~(a \in DOMAIN kept /\ t[a] = u[a] /\ b - Len(kept) \in DOMAIN rest
            /\ t[b] = rest[b - Len(kept)])
    BY <1>13, <1>19, <2>1
  <2>4. ~(b \in DOMAIN kept /\ t[b] = u[b] /\ a - Len(kept) \in DOMAIN rest
            /\ t[a] = rest[a - Len(kept)])
    BY <1>13, <1>19, <2>1
  <2>5. ~(/\ a - Len(kept) \in DOMAIN rest /\ t[a] = rest[a - Len(kept)]
          /\ b - Len(kept) \in DOMAIN rest /\ t[b] = rest[b - Len(kept)])
    <3> SUFFICES ASSUME a - Len(kept) \in DOMAIN rest, t[a] = rest[a - Len(kept)],
                        b - Len(kept) \in DOMAIN rest, t[b] = rest[b - Len(kept)]
                 PROVE  FALSE
      OBVIOUS
    <3>1. f[a - Len(kept)] = f[b - Len(kept)]
      BY <1>19, <2>1
    <3>2. a - Len(kept) = b - Len(kept)
      BY <1>11, <3>1
    <3> QED
      BY <1>15, <1>19, <3>2
  <2> QED
    BY <1>16, <2>2, <2>3, <2>4, <2>5
<1> QED
  BY <1>15, <1>17, <1>18, <1>19

(* What the echo of a run's input adds to a list: messages with new ids.   *)
Echoed(s, r, h, n) ==
  /\ r \in Lists /\ DOMAIN s \subseteq DOMAIN r /\ \A i \in DOMAIN s : r[i] = s[i]
  /\ \A a \in DOMAIN r : a \in DOMAIN s \/ \E k \in 1..n : r[a] = Imported(h[k])
  /\ \A k \in 1..n : \E a \in DOMAIN r : r[a].id = h[k].id
  /\ \A a, b \in DOMAIN r : r[a].id = r[b].id => a = b \/ {a, b} \subseteq DOMAIN s

LEMMA EchoOne ==
  ASSUME NEW s \in Lists, NEW h, WellTyped(h), NEW r, NEW n \in Nat, n + 1 \in DOMAIN h,
         Echoed(s, r, h, n)
  PROVE  Echoed(s, IF Find(r, h[n + 1].id) = 0 THEN Append(r, Imported(h[n + 1])) ELSE r, h, n + 1)
<1>0. r \in Lists
  BY DEF Echoed
<1>1. IsFirst(Find(r, h[n + 1].id), r, {i \in DOMAIN r : r[i].id = h[n + 1].id})
  BY <1>0, FindIsFirst
<1>2. \A k \in 1..n + 1 : k \in 1..n \/ k = n + 1
  OBVIOUS
<1>3. \A k \in 1..n : k \in 1..n + 1
  OBVIOUS
<1>4. n + 1 \in 1..n + 1
  OBVIOUS
<1>5. CASE Find(r, h[n + 1].id) = 0
  <2>1. PICK m \in MessageRecord : m = Imported(h[n + 1]) /\ m.id = h[n + 1].id
    BY ImportedFacts DEF WellTyped
  <2>2. \A i \in DOMAIN r : r[i].id # m.id
    BY <1>1, <1>5, <2>1 DEF IsFirst
  <2> DEFINE t == Append(r, m)
             z == Len(r) + 1
  <2>3. /\ t \in Lists /\ z \in DOMAIN t /\ t[z] = m /\ z \notin DOMAIN r
        /\ (\A i \in DOMAIN r : i \in DOMAIN t /\ t[i] = r[i])
        /\ (\A i \in DOMAIN t : i \in DOMAIN r \/ i = z)
    BY <1>0 DEF Lists
  <2> HIDE DEF t, z
  <2>4. DOMAIN s \subseteq DOMAIN t /\ \A i \in DOMAIN s : t[i] = s[i]
    BY <2>3 DEF Echoed
  <2>5. \A a \in DOMAIN t : a \in DOMAIN s \/ \E k \in 1..n + 1 : t[a] = Imported(h[k])
    BY <1>3, <1>4, <2>1, <2>3 DEF Echoed
  <2>6. \A k \in 1..n + 1 : \E a \in DOMAIN t : t[a].id = h[k].id
    BY <1>2, <2>1, <2>3 DEF Echoed
  <2>7. \A a, b \in DOMAIN t : t[a].id = t[b].id => a = b \/ {a, b} \subseteq DOMAIN s
    BY <2>2, <2>3 DEF Echoed
  <2>8. Echoed(s, t, h, n + 1)
    BY <2>3, <2>4, <2>5, <2>6, <2>7 DEF Echoed
  <2> QED
    BY <1>5, <2>1, <2>8 DEF t
<1>6. CASE Find(r, h[n + 1].id) # 0
  <2>1. \E a \in DOMAIN r : r[a].id = h[n + 1].id
    BY <1>1, <1>6 DEF IsFirst
  <2>2. \A a \in DOMAIN r : a \in DOMAIN s \/ \E k \in 1..n + 1 : r[a] = Imported(h[k])
    BY <1>3 DEF Echoed
  <2>3. \A k \in 1..n + 1 : \E a \in DOMAIN r : r[a].id = h[k].id
    BY <1>2, <2>1 DEF Echoed
  <2>4. Echoed(s, r, h, n + 1)
    BY <2>2, <2>3 DEF Echoed
  <2> QED
    BY <1>6, <2>4
<1> QED
  BY <1>5, <1>6

LEMMA EchoAdded ==
  ASSUME NEW s \in Lists, NEW h, WellTyped(h)
  PROVE  Echoed(s, AddEcho(s, h), h, Len(h))
<1> DEFINE Add(v, n) == IF Find(v, h[n].id) = 0 THEN Append(v, Imported(h[n])) ELSE v
           F == CHOOSE f : f = [n \in 0..Len(h) |-> IF n = 0 THEN s ELSE
                  IF Find(f[n - 1], h[n].id) = 0 THEN Append(f[n - 1], Imported(h[n]))
                  ELSE f[n - 1]]
           step == [n \in 1..Len(h) |-> [v \in Lists |-> Add(v, n)]]
<1>1. AddEcho(s, h) = F[Len(h)]
  BY DEF AddEcho
<1>2. \A n \in 1..Len(h), v \in Lists : step[n][v] = Add(v, n)
  OBVIOUS
<1>3. Len(h) \in Nat /\ DOMAIN h = 1..Len(h)
      /\ \A n \in 1..Len(h) : Imported(h[n]) \in MessageRecord
  BY ImportedFacts DEF WellTyped
<1> HIDE DEF step
<1>4. IsStep(step, Len(h), Lists)
  <2>1. \A v \in Lists, m \in MessageRecord : Append(v, m) \in Lists
    BY DEF Lists
  <2> QED
    BY <1>2, <1>3, <2>1 DEF IsStep
<1>5. PICK f \in [0..Len(h) -> Lists] :
        f[0] = s /\ \A n \in 1..Len(h) : f[n] = step[n][f[n - 1]]
  <2>1. PICK f : IsRecursion(f, Len(h), Lists, s, step)
    BY <1>3, <1>4, RecursionExists
  <2> QED
    BY <2>1 DEF IsRecursion
<1>6. ASSUME NEW n \in 0..Len(h)
      PROVE  f[n] = IF n = 0 THEN s ELSE Add(f[n - 1], n)
  <2>1. CASE n = 0
    BY <1>5, <2>1
  <2>2. CASE n # 0
    <3>1. n \in 1..Len(h) /\ f[n - 1] \in Lists
      BY <1>3, <2>2
    <3> HIDE DEF Add
    <3> QED
      BY <1>2, <1>5, <2>2, <3>1
  <2> QED
    BY <2>1, <2>2
<1>7. f = [n \in 0..Len(h) |-> IF n = 0 THEN s ELSE Add(f[n - 1], n)]
  <2>1. f = [n \in 0..Len(h) |-> f[n]]
    OBVIOUS
  <2> HIDE DEF Add
  <2> QED
    BY <1>6, <2>1
<1>8. F = [n \in 0..Len(h) |-> IF n = 0 THEN s ELSE Add(F[n - 1], n)]
  BY <1>7
<1> HIDE DEF F
<1>9. \A n \in 0..Len(h) : F[n] = IF n = 0 THEN s ELSE Add(F[n - 1], n)
  <2> HIDE DEF Add
  <2> QED
    BY <1>8
<1> DEFINE S == {n \in Nat : n <= Len(h) => Echoed(s, F[n], h, n)}
<1>10. 0 \in S
  <2>1. F[0] = s /\ 1..0 = {}
    BY <1>3, <1>9
  <2>2. Echoed(s, s, h, 0)
    BY <2>1 DEF Echoed
  <2> QED
    BY <2>1, <2>2
<1>11. ASSUME NEW n \in Nat, n \in S PROVE n + 1 \in S
  <2> SUFFICES ASSUME n + 1 <= Len(h) PROVE Echoed(s, F[n + 1], h, n + 1)
    BY <1>3
  <2>1. Echoed(s, F[n], h, n)
    BY <1>3, <1>11
  <2>2. n + 1 \in 0..Len(h) /\ n + 1 # 0 /\ (n + 1) - 1 = n /\ n + 1 \in DOMAIN h
    BY <1>3
  <2>3. F[n + 1] = Add(F[n], n + 1)
    <3> HIDE DEF Add
    <3> QED
      BY <1>9, <2>2
  <2> QED
    BY <2>1, <2>2, <2>3, EchoOne
<1>12. Len(h) \in S
  <2> HIDE DEF S
  <2> QED
    BY <1>3, <1>10, <1>11, InductionFrom
<1> QED
  BY <1>1, <1>3, <1>12

-----------------------------------------------------------------------------
(* How often a list holds a call.                                          *)
LEMMA PlacesAre ==
  ASSUME NEW s, NEW c, NEW x
  PROVE  x \in Places(s, c) <=>
           \E i \in DOMAIN s : \E j \in DOMAIN s[i].calls : s[i].calls[j].id = c /\ x = <<i, j>>
  BY DEF Places

LEMMA PlacesAreFinite ==
  ASSUME NEW s \in Lists, NEW c
  PROVE  IsFiniteSet(Places(s, c))
<1> DEFINE At(i) == {<<i, j>> : j \in {k \in DOMAIN s[i].calls : s[i].calls[k].id = c}}
           S == {At(i) : i \in DOMAIN s}
<1>1. \A T \in S : IsFiniteSet(T)
  <2> SUFFICES ASSUME NEW i \in DOMAIN s PROVE IsFiniteSet(At(i))
    OBVIOUS
  <2> DEFINE J == {k \in DOMAIN s[i].calls : s[i].calls[k].id = c}
             f == [j \in J |-> <<i, j>>]
  <2>1. s[i].calls \in Seq(CallRecord)
    BY ElementTyped
  <2>2. IsFiniteSet(DOMAIN s[i].calls)
    BY <2>1, FS_Interval
  <2>3. IsFiniteSet(J)
    <3>1. J \in SUBSET DOMAIN s[i].calls
      OBVIOUS
    <3> HIDE DEF J
    <3> QED
      BY <2>2, <3>1, FS_Subset
  <2>4. f \in Surjection(J, At(i))
    BY DEF Surjection
  <2> QED
    BY <2>3, <2>4, FS_Surjection
<1>2. IsFiniteSet(S)
  <2> DEFINE f == [i \in DOMAIN s |-> At(i)]
  <2>1. IsFiniteSet(DOMAIN s)
    BY FS_Interval DEF Lists
  <2>2. f \in Surjection(DOMAIN s, S)
    BY DEF Surjection
  <2> QED
    BY <2>1, <2>2, FS_Surjection
<1>3. Places(s, c) = UNION S
  BY DEF Places
<1> HIDE DEF S
<1> QED
  BY <1>1, <1>2, <1>3, FS_UNION

(* Every place of the call in one list comes from a place in the other.    *)
Carried(s, t, c, f) ==
  /\ \A a \in DOMAIN t : Holds(t[a], c) =>
       /\ f[a] \in DOMAIN s
       /\ \A j \in DOMAIN t[a].calls : t[a].calls[j].id = c =>
            j \in DOMAIN s[f[a]].calls /\ s[f[a]].calls[j].id = c
  /\ \A a, b \in DOMAIN t : Holds(t[a], c) /\ Holds(t[b], c) /\ f[a] = f[b] => a = b

NoMore(s, t, c) == Times(t, c) <= Times(s, c)

LEMMA CarriedIsNoMore ==
  ASSUME NEW s \in Lists, NEW t \in Lists, NEW c, NEW f, Carried(s, t, c, f)
  PROVE  NoMore(s, t, c)
<1> DEFINE F == [x \in Places(t, c) |-> <<f[x[1]], x[2]>>]
<1>1. \A x \in Places(t, c) : <<f[x[1]], x[2]>> \in Places(s, c)
  <2> SUFFICES ASSUME NEW x \in Places(t, c) PROVE <<f[x[1]], x[2]>> \in Places(s, c)
    OBVIOUS
  <2>1. PICK i \in DOMAIN t : \E j \in DOMAIN t[i].calls : t[i].calls[j].id = c /\ x = <<i, j>>
    BY PlacesAre
  <2>2. PICK j \in DOMAIN t[i].calls : t[i].calls[j].id = c /\ x = <<i, j>>
    BY <2>1
  <2>3. f[i] \in DOMAIN s /\ j \in DOMAIN s[f[i]].calls /\ s[f[i]].calls[j].id = c
    BY <2>2 DEF Carried, Holds
  <2>4. x[1] = i /\ x[2] = j
    BY <2>2
  <2> QED
    BY <2>3, <2>4, PlacesAre
<1>2. ASSUME NEW x \in Places(t, c), NEW y \in Places(t, c), F[x] = F[y]
      PROVE  x = y
  <2>1. PICK i \in DOMAIN t : \E j \in DOMAIN t[i].calls : t[i].calls[j].id = c /\ x = <<i, j>>
    BY PlacesAre
  <2>2. PICK j \in DOMAIN t[i].calls : t[i].calls[j].id = c /\ x = <<i, j>>
    BY <2>1
  <2>3. PICK k \in DOMAIN t : \E l \in DOMAIN t[k].calls : t[k].calls[l].id = c /\ y = <<k, l>>
    BY PlacesAre
  <2>4. PICK l \in DOMAIN t[k].calls : t[k].calls[l].id = c /\ y = <<k, l>>
    BY <2>3
  <2>5. f[i] = f[k] /\ j = l
    BY <1>2, <2>2, <2>4
  <2>6. i = k
    BY <2>2, <2>4, <2>5 DEF Carried, Holds
  <2> QED
    BY <2>2, <2>4, <2>5, <2>6
<1>3. F \in [Places(t, c) -> Places(s, c)]
  BY <1>1
<1>4. DOMAIN F = Places(t, c)
  OBVIOUS
<1> HIDE DEF F
<1>5. F \in Injection(Places(t, c), Places(s, c))
  BY <1>2, <1>3, <1>4 DEF Injection, IsInjective
<1> QED
  BY <1>5, PlacesAreFinite, FS_Injection DEF NoMore, Times

LEMMA NoMoreTransitive ==
  ASSUME NEW s \in Lists, NEW t \in Lists, NEW u \in Lists, NEW c,
         NoMore(s, t, c), NoMore(t, u, c)
  PROVE  NoMore(s, u, c)
<1>1. Times(s, c) \in Nat /\ Times(t, c) \in Nat /\ Times(u, c) \in Nat
  BY PlacesAreFinite, FS_CardinalityType DEF Times
<1> QED
  BY <1>1 DEF NoMore

LEMMA TouchedIsNoMore ==
  ASSUME NEW s \in Lists, NEW t, Touched(s, t), NEW c
  PROVE  NoMore(s, t, c)
<1> DEFINE f == [a \in DOMAIN t |-> a]
<1>1. Carried(s, t, c, f)
  BY DEF Touched, Same, Carried
<1> QED
  BY <1>1, CarriedIsNoMore DEF Touched

LEMMA InsertedIsNoMore ==
  ASSUME NEW s \in Lists, NEW t, NEW p, NEW m, Inserted(s, t, p, m), NEW c, ~Holds(m, c)
  PROVE  NoMore(s, t, c)
<1> DEFINE f == [a \in DOMAIN t |-> IF a < p THEN a ELSE a - 1]
<1>1. /\ t \in Lists /\ DOMAIN t = 1..Len(s) + 1 /\ DOMAIN s = 1..Len(s) /\ Len(s) \in Nat
      /\ p \in 1..Len(s) + 1 /\ t[p] = m
      /\ \A k \in 1..Len(s) : IF k < p THEN t[k] = s[k] ELSE t[k + 1] = s[k]
  BY DEF Inserted, Lists
<1>2. ASSUME NEW a \in DOMAIN t, a # p PROVE f[a] \in DOMAIN s /\ t[a] = s[f[a]]
  <2>1. CASE a < p
    BY <1>1, <2>1
  <2>2. CASE ~(a < p)
    <3>1. a - 1 \in 1..Len(s) /\ ~(a - 1 < p) /\ (a - 1) + 1 = a
      BY <1>1, <1>2, <2>2
    <3> QED
      BY <1>1, <2>2, <3>1
  <2> QED
    BY <2>1, <2>2
<1>3. \A a \in DOMAIN t : Holds(t[a], c) => a # p
  BY <1>1
<1>4. \A a, b \in DOMAIN t : a # p /\ b # p /\ f[a] = f[b] => a = b
  BY <1>1
<1> HIDE DEF f
<1>5. Carried(s, t, c, f)
  BY <1>2, <1>3, <1>4 DEF Carried, Holds
<1> QED
  BY <1>1, <1>5, CarriedIsNoMore

LEMMA OverwrittenIsNoMore ==
  ASSUME NEW s \in Lists, NEW t, NEW i, NEW m, Overwritten(s, t, i, m), NEW c, ~Holds(m, c)
  PROVE  NoMore(s, t, c)
<1> DEFINE f == [a \in DOMAIN t |-> a]
<1>1. ~Holds(t[i], c)
  BY DEF Overwritten, Same, Holds
<1>2. Carried(s, t, c, f)
  BY <1>1 DEF Overwritten, Carried
<1> QED
  BY <1>2, CarriedIsNoMore DEF Overwritten

LEMMA HookedFacts ==
  ASSUME NEW s \in Lists, NEW hook
  PROVE  /\ Hooked(s, hook) \in Lists
         /\ \A a \in DOMAIN Hooked(s, hook) : \E i \in DOMAIN s : Hooked(s, hook)[a] = s[i]
         /\ \A c : NoMore(s, Hooked(s, hook), c)
<1> DEFINE t == Tail(s)
           f == [a \in DOMAIN t |-> a + 1]
<1>1. CASE Hooked(s, hook) = s
  BY <1>1, TouchedSelf, TouchedIsNoMore
<1>2. CASE Hooked(s, hook) # s
  <2>1. Hooked(s, hook) = t /\ s # <<>>
    BY <1>2 DEF Hooked
  <2>2. /\ t \in Lists /\ DOMAIN t = 1..Len(s) - 1 /\ DOMAIN s = 1..Len(s) /\ Len(s) \in Nat
        /\ \A a \in 1..Len(s) - 1 : t[a] = s[a + 1]
    BY <2>1 DEF Lists
  <2> HIDE DEF t
  <2>3. \A a \in DOMAIN t : f[a] \in DOMAIN s /\ t[a] = s[f[a]]
    BY <2>2
  <2>4. \A a, b \in DOMAIN t : f[a] = f[b] => a = b
    BY <2>2
  <2> HIDE DEF f
  <2>5. \A c : Carried(s, t, c, f)
    BY <2>3, <2>4 DEF Carried
  <2> QED
    BY <2>1, <2>2, <2>3, <2>5, CarriedIsNoMore
<1> QED
  BY <1>1, <1>2

(* A call that nobody held is there once when it has been added.           *)
LEMMA CallAddedOnce ==
  ASSUME NEW s \in Lists, NEW t, NEW i, NEW c \in CallRecord, CallAdded(s, t, i, c), NEW call
  PROVE  /\ call # c.id => NoMore(s, t, call)
         /\ (\A k \in DOMAIN s : ~Holds(s[k], c.id)) => Times(t, c.id) <= 1
<1>1. t \in Lists /\ DOMAIN t = DOMAIN s /\ i \in DOMAIN s /\ t[i] = WithNewCall(s[i], c)
      /\ \A k \in DOMAIN s \ {i} : t[k] = s[k]
  BY DEF CallAdded
<1>2. s[i] \in MessageRecord /\ s[i].calls \in Seq(CallRecord)
  BY <1>1, ElementTyped
<1>3. t[i].calls = Append(s[i].calls, c)
  BY <1>1, <1>2, NewCallTyped
<1> DEFINE z == Len(s[i].calls) + 1
<1>4. /\ t[i].calls[z] = c /\ z \in DOMAIN t[i].calls
      /\ \A j \in DOMAIN t[i].calls : j = z \/ (j \in DOMAIN s[i].calls /\ t[i].calls[j] = s[i].calls[j])
  <2>1. \A q \in Seq(CallRecord) :
          /\ Append(q, c)[Len(q) + 1] = c /\ Len(q) + 1 \in DOMAIN Append(q, c)
          /\ \A j \in DOMAIN Append(q, c) :
               j = Len(q) + 1 \/ (j \in DOMAIN q /\ Append(q, c)[j] = q[j])
    OBVIOUS
  <2> QED
    BY <1>2, <1>3, <2>1
<1> HIDE DEF z
<1>5. ASSUME call # c.id PROVE NoMore(s, t, call)
  <2> DEFINE f == [a \in DOMAIN t |-> a]
  <2>1. Carried(s, t, call, f)
    BY <1>1, <1>4, <1>5 DEF Carried
  <2> QED
    BY <1>1, <2>1, CarriedIsNoMore
<1>6. ASSUME \A k \in DOMAIN s : ~Holds(s[k], c.id) PROVE Times(t, c.id) <= 1
  <2>1. Places(t, c.id) \subseteq {<<i, z>>}
    <3> SUFFICES ASSUME NEW x \in Places(t, c.id) PROVE x = <<i, z>>
      OBVIOUS
    <3>1. PICK k \in DOMAIN t : \E j \in DOMAIN t[k].calls : t[k].calls[j].id = c.id /\ x = <<k, j>>
      BY PlacesAre
    <3>2. PICK j \in DOMAIN t[k].calls : t[k].calls[j].id = c.id /\ x = <<k, j>>
      BY <3>1
    <3>3. k = i
      BY <1>1, <1>6, <3>2 DEF Holds
    <3>4. j = z
      BY <1>1, <1>4, <1>6, <3>2, <3>3 DEF Holds
    <3> QED
      BY <3>2, <3>3, <3>4
  <2>2. IsFiniteSet({<<i, z>>}) /\ Cardinality({<<i, z>>}) = 1
    BY FS_Singleton
  <2>3. Cardinality(Places(t, c.id)) <= Cardinality({<<i, z>>})
    BY <2>1, <2>2, FS_Subset
  <2> QED
    BY <2>2, <2>3 DEF Times
<1> QED
  BY <1>5, <1>6

LEMMA CallInsertedOnce ==
  ASSUME NEW s \in Lists, NEW t, NEW p, NEW n \in MessageRecord, n.calls = <<>>,
         NEW c \in CallRecord, Inserted(s, t, p, WithNewCall(n, c)), NEW call
  PROVE  /\ call # c.id => NoMore(s, t, call)
         /\ (\A k \in DOMAIN s : ~Holds(s[k], c.id)) => Times(t, c.id) <= 1
<1> DEFINE m == WithNewCall(n, c)
<1>1. m.calls = Append(<<>>, c)
  BY NewCallTyped
<1>2. \A j \in DOMAIN m.calls : j = 1 /\ m.calls[j] = c
  BY <1>1
<1> HIDE DEF m
<1>3. ASSUME call # c.id PROVE NoMore(s, t, call)
  <2>1. ~Holds(m, call)
    BY <1>2, <1>3 DEF Holds
  <2> QED
    BY <2>1, InsertedIsNoMore DEF m
<1>4. ASSUME \A k \in DOMAIN s : ~Holds(s[k], c.id) PROVE Times(t, c.id) <= 1
  <2>1. /\ t \in Lists /\ DOMAIN t = 1..Len(s) + 1 /\ DOMAIN s = 1..Len(s) /\ Len(s) \in Nat
        /\ p \in 1..Len(s) + 1 /\ t[p] = m
        /\ \A k \in 1..Len(s) : IF k < p THEN t[k] = s[k] ELSE t[k + 1] = s[k]
    BY DEF Inserted, Lists, m
  <2>2. ASSUME NEW k \in DOMAIN t, Holds(t[k], c.id) PROVE k = p
    <3>1. CASE k < p
      BY <1>4, <2>1, <2>2, <3>1
    <3>2. CASE k > p
      <4>1. k - 1 \in 1..Len(s) /\ ~(k - 1 < p) /\ (k - 1) + 1 = k
        BY <2>1, <3>2
      <4> QED
        BY <1>4, <2>1, <2>2, <4>1
    <3> QED
      BY <2>1, <3>1, <3>2
  <2>3. Places(t, c.id) \subseteq {<<p, 1>>}
    <3> SUFFICES ASSUME NEW x \in Places(t, c.id) PROVE x = <<p, 1>>
      OBVIOUS
    <3>1. PICK k \in DOMAIN t : \E j \in DOMAIN t[k].calls : t[k].calls[j].id = c.id /\ x = <<k, j>>
      BY PlacesAre
    <3>2. PICK j \in DOMAIN t[k].calls : t[k].calls[j].id = c.id /\ x = <<k, j>>
      BY <3>1
    <3>3. k = p
      BY <2>2, <3>2 DEF Holds
    <3>4. j = 1
      BY <1>2, <2>1, <3>2, <3>3
    <3> QED
      BY <3>2, <3>3, <3>4
  <2>4. IsFiniteSet({<<p, 1>>}) /\ Cardinality({<<p, 1>>}) = 1
    BY FS_Singleton
  <2>5. Cardinality(Places(t, c.id)) <= Cardinality({<<p, 1>>})
    BY <2>3, <2>4, FS_Subset
  <2> QED
    BY <2>4, <2>5 DEF Times
<1> QED
  BY <1>3, <1>4

-----------------------------------------------------------------------------
(* The effect of an event on the list, whatever list the subscribers left. *)
Openers ==
  {"TEXT_MESSAGE_START", "REASONING_MESSAGE_START", "TOOL_CALL_START", "TOOL_CALL_RESULT",
   "ACTIVITY_SNAPSHOT", "ACTIVITY_DELTA", "RUN_STARTED", "MESSAGES_SNAPSHOT"}

LEMMA QuietEffect ==
  ASSUME NEW before \in Lists, NEW s \in Lists, NEW e \in Sent, e.type \notin Openers
  PROVE  Touched(s, WithEffect(before, s, e))
<1> DEFINE target == Reachable(Find(before, e.messageId), before, s)
           holder == Reachable(FindHolder(before, e.toolCallId), before, s)
           t == WithEffect(before, s, e)
<1>1. target \in DOMAIN s \cup {0}
  BY FindIsFirst DEF Reachable, IsFirst
<1>2. holder # 0 => holder \in DOMAIN s /\ Holds(s[holder], e.toolCallId)
  BY FindHolderIsFirst DEF Reachable, IsFirst
<1>3. HasShape(e) /\ (e.delta \in Seq(ToSet(e.delta)) => e.delta \in Seq(Pieces))
  BY EventFacts
<1> HIDE DEF target, holder
<1>4. CASE e.type \in {"TEXT_MESSAGE_CONTENT", "REASONING_MESSAGE_CONTENT"}
  <2>1. t = AppendContent(s, target, e)
    BY <1>4 DEF WithEffect, target
  <2>2. e.delta \in Seq(Pieces)
    BY <1>3, <1>4 DEF HasShape
  <2> QED
    BY <1>1, <2>1, <2>2, ContentAppended
<1>5. CASE e.type \in {"TEXT_MESSAGE_END", "REASONING_MESSAGE_END"}
  <2>1. t = CloseMessage(s, target, e)
    BY <1>5 DEF WithEffect, target
  <2> QED
    BY <1>1, <2>1, MessageClosed
<1>6. CASE e.type = "TOOL_CALL_ARGS"
  <2>1. t = AppendArgs(s, holder, e)
    BY <1>6 DEF WithEffect, holder
  <2>2. e.delta \in Seq(Pieces)
    BY <1>3, <1>6 DEF HasShape
  <2>3. holder = 0 => AppendArgs(s, holder, e) = s
    BY DEF AppendArgs
  <2> QED
    BY <1>2, <2>1, <2>2, <2>3, ArgsAppended, TouchedSelf
<1>7. CASE e.type = "TOOL_CALL_END"
  <2>1. t = CloseToolCall(s, holder, e)
    BY <1>7 DEF WithEffect, holder
  <2>2. holder = 0 => CloseToolCall(s, holder, e) = s
    BY DEF CloseToolCall
  <2> QED
    BY <1>2, <2>1, <2>2, ToolCallClosed, TouchedSelf
<1>8. CASE e.type = "REASONING_ENCRYPTED_VALUE"
  <2>1. t = Seal(s, e)
    BY <1>8 DEF WithEffect
  <2> QED
    BY <2>1, Sealed
<1>9. CASE e.type \notin {"TEXT_MESSAGE_CONTENT", "REASONING_MESSAGE_CONTENT",
                          "TEXT_MESSAGE_END", "REASONING_MESSAGE_END", "TOOL_CALL_ARGS",
                          "TOOL_CALL_END", "REASONING_ENCRYPTED_VALUE"}
  <2>1. t = s
    BY <1>9 DEF WithEffect, Openers
  <2> QED
    BY <2>1, TouchedSelf
<1> QED
  BY <1>4, <1>5, <1>6, <1>7, <1>8, <1>9

LEMMA OpenerEffect ==
  ASSUME NEW before, NEW s, NEW e
  PROVE  /\ e.type = "TEXT_MESSAGE_START" => WithEffect(before, s, e) = OpenMessage(s, e, "assistant")
         /\ e.type = "REASONING_MESSAGE_START" =>
              WithEffect(before, s, e) = OpenMessage(s, e, "reasoning")
         /\ e.type = "TOOL_CALL_START" => WithEffect(before, s, e) = OpenToolCall(s, e)
         /\ e.type = "TOOL_CALL_RESULT" => WithEffect(before, s, e) = AddResult(s, e)
         /\ e.type = "ACTIVITY_SNAPSHOT" =>
              WithEffect(before, s, e) = ApplyActivitySnapshot(s, before, e)
         /\ e.type = "ACTIVITY_DELTA" => WithEffect(before, s, e) = ApplyActivityDelta(s, before, e)
         /\ e.type = "MESSAGES_SNAPSHOT" => WithEffect(before, s, e) = MergeSnapshot(s, e.messages)
         /\ e.type = "RUN_STARTED" => WithEffect(before, s, e) = AddEcho(s, e.messages)
  BY DEF WithEffect

(* A list in which only assistants hold calls.                             *)
Sound(s) == s \in Lists /\ \A i \in DOMAIN s : s[i].role = "assistant" \/ s[i].calls = <<>>

(* An activity that is written where the handler found it.                 *)
LEMMA ActivityWritten ==
  ASSUME NEW before, NEW s \in Lists, NEW e \in Sent, Sound(before),
         e.type \in {"ACTIVITY_SNAPSHOT", "ACTIVITY_DELTA"}, NEW t, t = WithEffect(before, s, e)
  PROVE  \E u \in Lists :
           /\ Touched(u, t)
           /\ \/ u = s
              \/ \E m \in MessageRecord : m.calls = <<>> /\ Inserted(s, u, Len(s) + 1, m)
              \/ \E m \in MessageRecord, i \in DOMAIN s : m.calls = <<>> /\ Overwritten(s, u, i, m)
<1>0. before \in Lists /\ \A i \in DOMAIN before : i \in Nat \ {0} /\ before[i] \in MessageRecord
  BY ElementTyped DEF Sound, Lists
<1>1. e.meta \in Metas /\ e.delta \in Seq(Pieces)
  BY EventFacts DEF HasShape, MessageTypes
<1> DEFINE i == Find(before, e.messageId)
<1>2. i # 0 => i \in DOMAIN before
  BY <1>0, FindIsFirst DEF IsFirst
<1>3. Touched(s, s) /\ (t = s => Touched(s, t))
  BY TouchedSelf
<1>4. ASSUME NEW m \in MessageRecord, m.calls = <<>>, i # 0,
             t = WriteAt(s, i, m) \/ t = MergeMetaAt(WriteAt(s, i, m), i, e.meta)
      PROVE  \E u \in Lists :
               /\ Touched(u, t)
               /\ \/ Inserted(s, u, Len(s) + 1, m)
                  \/ \E k \in DOMAIN s : Overwritten(s, u, k, m)
  <2> DEFINE u == WriteAt(s, i, m)
  <2>1. \/ Inserted(s, u, Len(s) + 1, m)
        \/ i \in DOMAIN s /\ u = [s EXCEPT ![i] = m]
    BY <1>0, <1>2, <1>4, WrittenAt
  <2>2. \/ Inserted(s, u, Len(s) + 1, m)
        \/ \E k \in DOMAIN s : Overwritten(s, u, k, m)
    BY <1>1, <2>1, OverwrittenAt
  <2> HIDE DEF u
  <2>3. u \in Lists
    BY <2>2 DEF Inserted, Overwritten
  <2>4. Touched(u, t)
    BY <1>1, <1>4, <2>3, MergedAt, TouchedSelf DEF u
  <2> QED
    BY <2>2, <2>3, <2>4
<1>5. CASE e.type = "ACTIVITY_SNAPSHOT"
  <2>0. t = ApplyActivitySnapshot(s, before, e)
    BY <1>5, OpenerEffect
  <2>1. CASE i = 0
    <3>1. t = Append(s, ActivityOf(e))
      BY <2>0, <2>1 DEF ApplyActivitySnapshot, ActivityOf
    <3>2. Inserted(s, t, Len(s) + 1, ActivityOf(e)) /\ ActivityOf(e).calls = <<>>
          /\ ActivityOf(e) \in MessageRecord
      BY <1>5, <3>1, ActivityFacts, AppendInserts
    <3>3. t \in Lists /\ Touched(t, t)
      BY <3>2, TouchedSelf DEF Inserted
    <3> QED
      BY <3>2, <3>3
  <2>2. CASE i # 0 /\ before[i].role = "activity"
    <3>1. CASE e.replace
      <4>1. t = MergeMetaAt(WriteAt(s, i, Reowned(before[i], e)), i, e.meta)
        BY <2>0, <2>2, <3>1 DEF ApplyActivitySnapshot, Reowned
      <4>2. before[i].calls = <<>>
        BY <1>2, <2>2 DEF Sound
      <4>3. PICK m \in MessageRecord : m = Reowned(before[i], e) /\ m.calls = <<>>
        BY <1>0, <1>2, <1>5, <2>2, <4>2, ReownedFacts
      <4> QED
        BY <1>4, <2>2, <4>1, <4>3
    <3>2. CASE ~e.replace
      <4>1. t = MergeMetaAt(s, i, e.meta)
        BY <2>0, <2>2, <3>2 DEF ApplyActivitySnapshot
      <4> QED
        BY <1>1, <4>1, MergedAt
    <3> QED
      BY <3>1, <3>2
  <2>3. CASE i # 0 /\ before[i].role # "activity"
    <3>1. t = s \/ t = WriteAt(s, i, ActivityOf(e))
      BY <2>0, <2>3 DEF ApplyActivitySnapshot, ActivityOf
    <3>2. PICK m \in MessageRecord : m = ActivityOf(e) /\ m.calls = <<>>
      BY <1>5, ActivityFacts
    <3> QED
      BY <1>3, <1>4, <2>3, <3>1, <3>2
  <2> QED
    BY <2>1, <2>2, <2>3
<1>6. CASE e.type = "ACTIVITY_DELTA"
  <2>0. t = ApplyActivityDelta(s, before, e)
    BY <1>6, OpenerEffect
  <2>1. CASE t = s
    BY <1>3, <2>1
  <2>2. CASE t # s /\ s = before
    <3>1. Touched(s, t)
      BY <1>6, <2>0, <2>2, ActivityPatched
    <3> QED
      BY <3>1
  <2>3. CASE t # s /\ s # before
    <3> DEFINE found == [before[i] EXCEPT !.meta = MergeMeta(@, e.meta)]
               patched == [found EXCEPT !.content = @ \o e.delta]
    <3>1. i # 0 /\ before[i].role = "activity" /\ t = WriteAt(s, i, patched)
      <4>1. t = IF i = 0 \/ before[i].role # "activity" THEN s
                ELSE IF found.content # <<>> THEN WriteAt(s, i, patched)
                ELSE IF s = before THEN [s EXCEPT ![i] = found] ELSE s
        BY <2>0 DEF ApplyActivityDelta
      <4> HIDE DEF found, patched, i
      <4> QED
        BY <2>3, <4>1
    <3>2. before[i] \in MessageRecord /\ before[i].calls = <<>>
      BY <1>0, <1>2, <3>1 DEF Sound
    <3>3. MergeMeta(before[i].meta, e.meta) \in Metas
      BY <1>1, <3>2, MetaType DEF MessageRecord
    <3>4. found \in MessageRecord /\ found.calls = <<>>
      BY <3>2, <3>3 DEF MessageRecord
    <3>5. found.content \o e.delta \in Seq(Pieces)
      BY <1>1, <3>4 DEF MessageRecord
    <3> HIDE DEF found
    <3>6. patched \in MessageRecord /\ patched.calls = <<>>
      BY <3>4, <3>5 DEF MessageRecord
    <3> HIDE DEF patched
    <3> QED
      BY <1>4, <3>1, <3>6
  <2> QED
    BY <2>1, <2>2, <2>3
<1> QED
  BY <1>5, <1>6

LEMMA SoundKept ==
  ASSUME NEW s \in Lists, Sound(s)
  PROVE  /\ \A t : Touched(s, t) => Sound(t)
         /\ \A t, p, m : Inserted(s, t, p, m) /\ (m.role = "assistant" \/ m.calls = <<>>) => Sound(t)
         /\ \A t, i, c : CallAdded(s, t, i, c) /\ c \in CallRecord => Sound(t)
         /\ \A t, i, m : Overwritten(s, t, i, m) /\ m \in MessageRecord /\ m.calls = <<>> => Sound(t)
<1>0. \A t \in Lists : \A i \in DOMAIN t : t[i].calls \in Seq(CallRecord)
  BY ElementTyped
<1>1. \A q \in Seq(CallRecord) : DOMAIN q = {} => q = <<>>
  OBVIOUS
<1>2. ASSUME NEW t, Touched(s, t) PROVE Sound(t)
  <2>1. DOMAIN <<>> = {}
    OBVIOUS
  <2> QED
    BY <1>0, <1>1, <1>2, <2>1 DEF Touched, Same, Sound
<1>3. ASSUME NEW t, NEW p, NEW m, Inserted(s, t, p, m), m.role = "assistant" \/ m.calls = <<>>
      PROVE  Sound(t)
  <2>1. /\ t \in Lists /\ DOMAIN t = 1..Len(s) + 1 /\ DOMAIN s = 1..Len(s) /\ Len(s) \in Nat
        /\ p \in 1..Len(s) + 1 /\ t[p] = m
        /\ \A k \in 1..Len(s) : IF k < p THEN t[k] = s[k] ELSE t[k + 1] = s[k]
    BY <1>3 DEF Inserted, Lists
  <2>2. ASSUME NEW a \in DOMAIN t PROVE a = p \/ \E k \in DOMAIN s : t[a] = s[k]
    <3>1. CASE a < p
      BY <2>1, <3>1
    <3>2. CASE a > p
      <4>1. a - 1 \in 1..Len(s) /\ ~(a - 1 < p) /\ (a - 1) + 1 = a
        BY <2>1, <3>2
      <4> QED
        BY <2>1, <4>1
    <3> QED
      BY <2>1, <3>1, <3>2
  <2> QED
    BY <1>3, <2>1, <2>2 DEF Sound
<1>4. ASSUME NEW t, NEW i, NEW c \in CallRecord, CallAdded(s, t, i, c) PROVE Sound(t)
  <2>1. t[i].role = "assistant"
    <3>1. s[i] \in MessageRecord /\ t[i] = WithNewCall(s[i], c) /\ s[i].role = "assistant"
      BY <1>4, ElementTyped DEF CallAdded
    <3> QED
      BY <3>1 DEF WithNewCall, MessageRecord
  <2> QED
    BY <1>4, <2>1 DEF CallAdded, Sound
<1>5. ASSUME NEW t, NEW i, NEW m \in MessageRecord, Overwritten(s, t, i, m), m.calls = <<>>
      PROVE  Sound(t)
  <2>1. DOMAIN t[i].calls = {} /\ t \in Lists /\ i \in DOMAIN t
    BY <1>5 DEF Overwritten, Same
  <2>2. t[i].calls = <<>>
    BY <1>0, <1>1, <2>1
  <2> QED
    BY <1>5, <2>2 DEF Overwritten, Sound
<1> QED
  BY <1>2, <1>3, <1>4, <1>5

LEMMA OpenedMessageFacts ==
  ASSUME NEW e \in Sent, e.type \in MessageTypes, NEW role \in Roles,
         NEW m, m = NewMessage(e.messageId, role, OwnerOf(e), e.meta, "opener")
  PROVE  /\ m \in MessageRecord /\ m.calls = <<>>
         /\ m.id = e.messageId /\ m.role = role /\ m.owner = OwnerOf(e) /\ m.answers = Absent
         /\ m.by = "opener" /\ e.messageId \in Ids /\ OwnerOf(e) \in Tags
<1>1. e.messageId \in Ids /\ OwnerOf(e) \in Tags /\ e.meta \in Metas
  BY EventFacts DEF HasShape
<1>2. m \in MessageRecord
  BY <1>1, FreshMessages
<1> QED
  BY <1>1, <1>2 DEF NewMessage

LEMMA HistoryTyped ==
  ASSUME NEW e \in Sent, e.type \in {"RUN_STARTED", "MESSAGES_SNAPSHOT"}
  PROVE  WellTyped(e.messages)
  BY EventFacts DEF HasShape, WellTyped

(* Every effect keeps the calls with the assistants, and within a run adds *)
(* a call only where there was none.                                       *)
LEMMA EffectIsSound ==
  ASSUME NEW before, Sound(before), NEW s, Sound(s), NEW e \in Sent,
         NEW t, t = WithEffect(before, s, e)
  PROVE  /\ Sound(t)
         /\ e.type \notin {"RUN_STARTED", "MESSAGES_SNAPSHOT"} =>
              \A c \in Ids : NoMore(s, t, c) \/ (Times(s, c) = 0 /\ Times(t, c) <= 1)
<1>0. s \in Lists /\ before \in Lists
  BY DEF Sound
<1>1. CASE e.type \notin Openers
  BY <1>0, <1>1, QuietEffect, SoundKept, TouchedIsNoMore
<1>2. CASE e.type \in {"TEXT_MESSAGE_START", "REASONING_MESSAGE_START"}
  <2>1. PICK role \in Roles : t = OpenMessage(s, e, role)
    BY <1>2, OpenerEffect DEF Roles
  <2>2. e.type \in MessageTypes
    BY <1>2 DEF MessageTypes, TextTypes, ReasoningTypes
  <2>3. CASE Touched(s, t)
    BY <1>0, <2>3, SoundKept, TouchedIsNoMore
  <2>4. CASE ~Touched(s, t)
    <3>1. PICK m \in MessageRecord : m.calls = <<>> /\ t = Append(s, m)
      BY <1>0, <2>1, <2>2, <2>4, MessageOpened, OpenedMessageFacts
    <3>2. Inserted(s, t, Len(s) + 1, m)
      BY <1>0, <3>1, AppendInserts
    <3>3. \A c : ~Holds(m, c)
      BY <3>1 DEF Holds
    <3> QED
      BY <1>0, <3>1, <3>2, <3>3, SoundKept, InsertedIsNoMore
  <2> QED
    BY <2>3, <2>4
<1>3. CASE e.type = "TOOL_CALL_START"
  <2>1. t = OpenToolCall(s, e)
    BY <1>3, OpenerEffect
  <2>2. CASE Touched(s, t)
    BY <1>0, <2>2, SoundKept, TouchedIsNoMore
  <2>3. CASE ~Touched(s, t)
    <3> DEFINE c == NewCall(e.toolCallId, e.meta)
    <3>1. /\ \A i \in DOMAIN s : ~Holds(s[i], e.toolCallId)
          /\ c \in CallRecord
          /\ \/ \E i \in DOMAIN s : CallAdded(s, t, i, c)
             \/ \E id \in {e.toolCallId, e.parentMessageId} \ {Absent}, owner \in Tags :
                  Inserted(s, t, Len(s) + 1,
                    WithNewCall(NewMessage(id, "assistant", owner, Absent, "call"), c))
      BY <1>0, <1>3, <2>1, <2>3, CallOpened
    <3>2. c.id = e.toolCallId
      BY DEF NewCall
    <3> HIDE DEF c
    <3>3. Times(s, c.id) = 0
      <4>1. Places(s, c.id) = {}
        BY <3>1, <3>2, PlacesAre DEF Holds
      <4> QED
        BY <4>1, FS_EmptySet DEF Times
    <3>4. CASE \E i \in DOMAIN s : CallAdded(s, t, i, c)
      BY <1>0, <3>1, <3>2, <3>3, <3>4, SoundKept, CallAddedOnce
    <3>5. CASE \E id \in {e.toolCallId, e.parentMessageId} \ {Absent}, owner \in Tags :
                 Inserted(s, t, Len(s) + 1,
                   WithNewCall(NewMessage(id, "assistant", owner, Absent, "call"), c))
      <4>1. PICK id \in {e.toolCallId, e.parentMessageId} \ {Absent}, owner \in Tags :
                 Inserted(s, t, Len(s) + 1,
                   WithNewCall(NewMessage(id, "assistant", owner, Absent, "call"), c))
        BY <3>5
      <4>2. id \in Ids
        BY <1>3, EventFacts DEF HasShape, ToolCallTypes
      <4>3. PICK n \in MessageRecord : n = NewMessage(id, "assistant", owner, Absent, "call")
        BY <4>2, FreshMessages, EventFacts DEF Roles
      <4>4. n.calls = <<>> /\ n.role = "assistant"
        BY <4>3 DEF NewMessage
      <4>5. WithNewCall(n, c).role = "assistant"
        BY <4>4 DEF WithNewCall, MessageRecord
      <4> QED
        BY <1>0, <3>1, <3>2, <3>3, <4>1, <4>3, <4>4, <4>5, SoundKept, CallInsertedOnce
    <3> QED
      BY <3>1, <3>4, <3>5
  <2> QED
    BY <2>2, <2>3
<1>4. CASE e.type = "TOOL_CALL_RESULT"
  <2>1. PICK p : Inserted(s, t, p, ResultOf(e))
    BY <1>0, <1>4, OpenerEffect, ResultAdded
  <2>2. ResultOf(e).calls = <<>>
    BY <1>4, ResultFacts
  <2>3. \A c : ~Holds(ResultOf(e), c)
    BY <2>2 DEF Holds
  <2> QED
    BY <1>0, <2>1, <2>2, <2>3, SoundKept, InsertedIsNoMore
<1>5. CASE e.type \in {"ACTIVITY_SNAPSHOT", "ACTIVITY_DELTA"}
  <2>1. PICK u \in Lists :
           /\ Touched(u, t)
           /\ \/ u = s
              \/ \E m \in MessageRecord : m.calls = <<>> /\ Inserted(s, u, Len(s) + 1, m)
              \/ \E m \in MessageRecord, i \in DOMAIN s : m.calls = <<>> /\ Overwritten(s, u, i, m)
    BY <1>0, <1>5, ActivityWritten
  <2>2. \A m : m.calls = <<>> => \A c : ~Holds(m, c)
    BY DEF Holds
  <2>3. Sound(u) /\ \A c : NoMore(s, u, c)
    <3>1. CASE u = s
      BY <1>0, <3>1, TouchedSelf, TouchedIsNoMore
    <3>2. CASE \E m \in MessageRecord : m.calls = <<>> /\ Inserted(s, u, Len(s) + 1, m)
      BY <1>0, <2>2, <3>2, SoundKept, InsertedIsNoMore
    <3>3. CASE \E m \in MessageRecord, i \in DOMAIN s : m.calls = <<>> /\ Overwritten(s, u, i, m)
      BY <1>0, <2>2, <3>3, SoundKept, OverwrittenIsNoMore
    <3> QED
      BY <2>1, <3>1, <3>2, <3>3
  <2>4. Sound(t) /\ \A c : NoMore(u, t, c)
    BY <2>1, <2>3, SoundKept, TouchedIsNoMore
  <2> QED
    BY <1>0, <2>1, <2>3, <2>4, NoMoreTransitive DEF Sound
<1>6. CASE e.type = "MESSAGES_SNAPSHOT"
  <2>1. t = MergeSnapshot(s, e.messages) /\ WellTyped(e.messages)
    BY <1>6, OpenerEffect, HistoryTyped
  <2>2. /\ t \in Lists
        /\ \A a \in DOMAIN t :
              \/ \E k \in DOMAIN e.messages : t[a] = Imported(e.messages[k])
              \/ \E i \in DOMAIN s : t[a] = s[i]
    BY <1>0, <2>1, SnapshotMerged
  <2>3. \A k \in DOMAIN e.messages : \/ Imported(e.messages[k]).role = "assistant"
                                     \/ Imported(e.messages[k]).calls = <<>>
    BY <2>1, ImportedFacts DEF WellTyped
  <2> QED
    BY <1>6, <2>2, <2>3 DEF Sound
<1>7. CASE e.type = "RUN_STARTED"
  <2>1. t = AddEcho(s, e.messages) /\ WellTyped(e.messages)
    BY <1>7, OpenerEffect, HistoryTyped
  <2>2. Echoed(s, t, e.messages, Len(e.messages)) /\ DOMAIN e.messages = 1..Len(e.messages)
    BY <1>0, <2>1, EchoAdded DEF WellTyped
  <2>3. \A k \in DOMAIN e.messages : \/ Imported(e.messages[k]).role = "assistant"
                                     \/ Imported(e.messages[k]).calls = <<>>
    BY <2>1, ImportedFacts DEF WellTyped
  <2> QED
    BY <1>7, <2>2, <2>3 DEF Sound, Echoed
<1> QED
  BY <1>1, <1>2, <1>3, <1>4, <1>5, <1>6, <1>7 DEF Openers

-----------------------------------------------------------------------------
(* One event on a conversation.                                            *)
Fields == {"messages", "state", "started", "answered", "reported"}
Before(c, e) == IF e.type = "RUN_STARTED" THEN Aged(c.messages) ELSE c.messages

LEMMA TallyFacts ==
  ASSUME NEW c, DOMAIN c = Fields, NEW e, NEW runs
  PROVE  /\ DOMAIN Tally(c, e, runs) = Fields
         /\ Tally(c, e, runs).started =
              IF e.type = "RUN_STARTED" THEN {}
              ELSE IF runs /\ e.type = "TOOL_CALL_START" THEN c.started \cup {e.toolCallId}
              ELSE c.started
         /\ Tally(c, e, runs).answered =
              IF e.type = "RUN_STARTED" THEN {}
              ELSE IF runs /\ e.type = "TOOL_CALL_RESULT" THEN c.answered \cup {e.toolCallId}
              ELSE c.answered
         /\ Tally(c, e, runs).reported =
              IF e.type = "RUN_FINISHED" THEN c.started \ c.answered ELSE c.reported
<1>1. CASE e.type = "RUN_STARTED"
  <2>1. Tally(c, e, runs) = [c EXCEPT !.started = {}, !.answered = {}]
    BY <1>1 DEF Tally
  <2> QED
    BY <1>1, <2>1 DEF Fields
<1>2. CASE runs /\ e.type = "TOOL_CALL_START"
  <2>1. Tally(c, e, runs) = [c EXCEPT !.started = @ \cup {e.toolCallId}]
    BY <1>2 DEF Tally
  <2> QED
    BY <1>2, <2>1 DEF Fields
<1>3. CASE runs /\ e.type = "TOOL_CALL_RESULT"
  <2>1. Tally(c, e, runs) = [c EXCEPT !.answered = @ \cup {e.toolCallId}]
    BY <1>3 DEF Tally
  <2> QED
    BY <1>3, <2>1 DEF Fields
<1>4. CASE e.type = "RUN_FINISHED"
  <2>1. Tally(c, e, runs) = [c EXCEPT !.reported = c.started \ c.answered]
    BY <1>4 DEF Tally
  <2> QED
    BY <1>4, <2>1 DEF Fields
<1>5. CASE /\ e.type # "RUN_STARTED" /\ ~(runs /\ e.type = "TOOL_CALL_START")
           /\ ~(runs /\ e.type = "TOOL_CALL_RESULT") /\ e.type # "RUN_FINISHED"
  <2>1. Tally(c, e, runs) = c
    BY <1>5 DEF Tally
  <2> QED
    BY <1>5, <2>1
<1> QED
  BY <1>1, <1>2, <1>3, <1>4, <1>5

LEMMA ReduceFacts ==
  ASSUME NEW c, DOMAIN c = Fields, NEW e, NEW hook,
         NEW r, r = Reduce(c, e, hook), NEW before, before = Before(c, e)
  PROVE  /\ DOMAIN r = Fields
         /\ hook = "veto" => /\ r.messages = before /\ r.started = c.started
                             /\ r.answered = c.answered /\ r.reported = c.reported
         /\ hook = "stop" => r.messages = before
         /\ hook \notin {"veto", "stop"} =>
              \E list \in {before, Hooked(before, hook)} : r.messages = WithEffect(before, list, e)
         /\ hook # "veto" =>
              /\ r.started = Tally(c, e, hook # "stop").started
              /\ r.answered = Tally(c, e, hook # "stop").answered
              /\ r.reported = Tally(c, e, hook # "stop").reported
<1> DEFINE list == IF Skipped(before, e) THEN before ELSE Hooked(before, hook)
           runs == hook # "stop"
           tallied == Tally(c, e, runs)
           doc == CASE runs /\ e.type = "STATE_SNAPSHOT" -> e.snapshot
                    [] runs /\ e.type = "STATE_DELTA" -> Patch(tallied.state, e.patch)
                    [] OTHER -> tallied.state
<1>1. CASE hook = "veto"
  <2>1. r = [c EXCEPT !.messages = before]
    BY <1>1 DEF Reduce, Before
  <2> QED
    BY <1>1, <2>1 DEF Fields
<1>2. CASE hook # "veto"
  <2>1. r = [tallied EXCEPT !.messages = IF runs THEN WithEffect(before, list, e) ELSE list,
                            !.state = doc]
    BY <1>2 DEF Reduce, Before
  <2>2. DOMAIN tallied = Fields
    BY TallyFacts
  <2>3. hook = "stop" => list = before
    BY DEF Hooked
  <2> HIDE DEF tallied, doc, list
  <2>4. /\ DOMAIN r = Fields /\ r.started = tallied.started
        /\ r.answered = tallied.answered /\ r.reported = tallied.reported
        /\ r.messages = IF runs THEN WithEffect(before, list, e) ELSE list
    BY <2>1, <2>2 DEF Fields
  <2>5. list \in {before, Hooked(before, hook)}
    BY DEF list
  <2> QED
    BY <1>2, <2>3, <2>4, <2>5 DEF tallied
<1> QED
  BY <1>1, <1>2

LEMMA AgedFacts ==
  ASSUME NEW s \in Lists
  PROVE  /\ Aged(s) \in Lists /\ DOMAIN Aged(s) = DOMAIN s
         /\ \A i \in DOMAIN s :
              /\ Aged(s)[i].id = s[i].id /\ Aged(s)[i].role = s[i].role
              /\ Aged(s)[i].calls = s[i].calls /\ Aged(s)[i].answers = s[i].answers
              /\ Aged(s)[i].by = "earlier"
<1>1. DOMAIN Aged(s) = DOMAIN s /\ DOMAIN s = 1..Len(s) /\ Len(s) \in Nat
  BY DEF Aged, Lists
<1>2. ASSUME NEW i \in DOMAIN s
      PROVE  /\ Aged(s)[i] \in MessageRecord
             /\ Aged(s)[i].id = s[i].id /\ Aged(s)[i].role = s[i].role
             /\ Aged(s)[i].calls = s[i].calls /\ Aged(s)[i].answers = s[i].answers
             /\ Aged(s)[i].by = "earlier"
  <2>1. Aged(s)[i] = [s[i] EXCEPT !.by = "earlier"] /\ s[i] \in MessageRecord
    BY ElementTyped DEF Aged
  <2> QED
    BY <2>1 DEF MessageRecord
<1>3. Aged(s) = [i \in 1..Len(s) |-> Aged(s)[i]]
  BY <1>1 DEF Aged
<1>4. Aged(s) \in Lists
  BY <1>1, <1>2, <1>3 DEF Lists
<1> QED
  BY <1>1, <1>2, <1>4

(* Only assistants hold calls, in every list that the reducer keeps.       *)
CallsInv ==
  /\ repertoire \in Repertoires
  /\ DOMAIN conv = Fields
  /\ Sound(conv.messages)

LEMMA ReduceIsSound ==
  ASSUME CallsInv, NEW e \in repertoire, NEW hook, NEW r, r = Reduce(conv, e, hook)
  PROVE  /\ DOMAIN r = Fields /\ Sound(r.messages)
         /\ e.type \notin {"RUN_STARTED", "MESSAGES_SNAPSHOT"} =>
              \A c \in Ids : Times(r.messages, c) <=
                IF Times(conv.messages, c) = 0 THEN 1 ELSE Times(conv.messages, c)
<1> DEFINE before == Before(conv, e)
<1>0. e \in Sent /\ DOMAIN conv = Fields /\ Sound(conv.messages) /\ conv.messages \in Lists
  BY DEF CallsInv, Sent, Sound
<1>1. Sound(before)
  BY <1>0, AgedFacts DEF Before, Sound
<1> HIDE DEF before
<1>2. before \in Lists
  BY <1>1 DEF Sound
<1>3. Hooked(before, hook) \in Lists /\ \A c : NoMore(before, Hooked(before, hook), c)
  BY <1>2, HookedFacts
<1>4. Sound(Hooked(before, hook))
  <2>1. \A a \in DOMAIN Hooked(before, hook) : \E i \in DOMAIN before : Hooked(before, hook)[a] = before[i]
    BY <1>2, HookedFacts
  <2> QED
    BY <1>1, <1>3, <2>1 DEF Sound
<1>5. \A c : NoMore(before, before, c)
  BY <1>2, TouchedSelf, TouchedIsNoMore
<1>6. \A s \in Lists, c \in Ids : Times(s, c) \in Nat
  BY PlacesAreFinite, FS_CardinalityType DEF Times
<1>7. CASE r.messages = before
  <2>1. DOMAIN r = Fields
    BY <1>0, ReduceFacts DEF before
  <2>2. e.type # "RUN_STARTED" => before = conv.messages
    BY DEF before, Before
  <2> QED
    BY <1>0, <1>1, <1>2, <1>6, <1>7, <2>1, <2>2
<1>8. CASE \E list \in {before, Hooked(before, hook)} : r.messages = WithEffect(before, list, e)
  <2>1. PICK list \in {before, Hooked(before, hook)} : r.messages = WithEffect(before, list, e)
    BY <1>8
  <2>2. Sound(list) /\ list \in Lists /\ \A c : NoMore(before, list, c)
    BY <1>1, <1>2, <1>3, <1>4, <1>5
  <2>3. DOMAIN r = Fields
    BY <1>0, ReduceFacts DEF before
  <2>4. /\ Sound(r.messages)
        /\ e.type \notin {"RUN_STARTED", "MESSAGES_SNAPSHOT"} =>
             \A c \in Ids : NoMore(list, r.messages, c)
                              \/ (Times(list, c) = 0 /\ Times(r.messages, c) <= 1)
    BY <1>0, <1>1, <2>1, <2>2, EffectIsSound
  <2>5. e.type # "RUN_STARTED" => before = conv.messages
    BY DEF before, Before
  <2>6. ASSUME e.type \notin {"RUN_STARTED", "MESSAGES_SNAPSHOT"}, NEW c \in Ids
        PROVE  Times(r.messages, c) <=
                 IF Times(conv.messages, c) = 0 THEN 1 ELSE Times(conv.messages, c)
    <3>1. /\ Times(before, c) \in Nat /\ Times(list, c) \in Nat /\ Times(r.messages, c) \in Nat
          /\ before = conv.messages /\ Times(list, c) <= Times(before, c)
      BY <1>2, <1>6, <2>2, <2>4, <2>5, <2>6 DEF Sound, NoMore
    <3>2. \/ Times(r.messages, c) <= Times(list, c)
          \/ (Times(list, c) = 0 /\ Times(r.messages, c) <= 1)
      BY <2>4, <2>6 DEF NoMore
    <3> QED
      BY <3>1, <3>2
  <2> QED
    BY <2>3, <2>4, <2>6
<1> QED
  BY <1>0, <1>7, <1>8, ReduceFacts DEF before

LEMMA CallsInvHolds == ConversationSpec => []CallsInv
<1>1. ConversationInit => CallsInv
  <2>1. <<>> \in Lists /\ DOMAIN <<>> = {}
    BY DEF Lists
  <2>2. EmptyConversation.messages = <<>> /\ DOMAIN EmptyConversation = Fields
    BY DEF EmptyConversation, Fields
  <2> QED
    BY <2>1, <2>2 DEF ConversationInit, CallsInv, Sound
<1>2. CallsInv /\ [ConversationNext]_streamVars => CallsInv'
  <2> SUFFICES ASSUME CallsInv, [ConversationNext]_streamVars PROVE CallsInv'
    OBVIOUS
  <2>1. CASE UNCHANGED streamVars
    BY <2>1 DEF streamVars, conversationVars, CallsInv
  <2>2. CASE ConversationNext
    <3>1. PICK e \in repertoire, hook \in Hooks \cup {"none"} : Receive(e, hook)
      BY <2>2 DEF ConversationNext
    <3>2. conv' = Reduce(conv, e, hook) /\ repertoire' = repertoire
      BY <3>1 DEF Receive
    <3>3. DOMAIN conv' = Fields /\ Sound(conv'.messages)
      BY <3>2, ReduceIsSound
    <3> QED
      BY <3>2, <3>3 DEF CallsInv
  <2> QED
    BY <2>1, <2>2
<1> QED
  BY <1>1, <1>2, PTL DEF ConversationSpec

(* However often TOOL_CALL_START is sent for a call, and whatever the      *)
(* subscribers do to the list in between, no event of a run adds a call    *)
(* that the list holds already.                                            *)
THEOREM CallsAreNotDoubled == ConversationSpec => CallsNotDoubled
<1> DEFINE Step == ~Restates => \A c \in Ids : Times(conv.messages', c) <=
                     IF Times(conv.messages, c) = 0 THEN 1 ELSE Times(conv.messages, c)
<1>1. CallsInv /\ [ConversationNext]_streamVars => [Step]_streamVars
  <2> SUFFICES ASSUME CallsInv, ConversationNext PROVE Step
    OBVIOUS
  <2>1. PICK e \in repertoire, hook \in Hooks \cup {"none"} : Receive(e, hook)
    BY DEF ConversationNext
  <2>2. conv' = Reduce(conv, e, hook) /\ last' = e.type
    BY <2>1 DEF Receive
  <2> QED
    BY <2>2, ReduceIsSound DEF Restates
<1> QED
  BY <1>1, CallsInvHolds, PTL DEF ConversationSpec, CallsNotDoubled

-----------------------------------------------------------------------------
(* What follows is about conversations of producers that keep their ids    *)
(* apart, with subscribers that leave the list to the reducer.             *)
IdsAreKept == \A R \in Repertoires : IdsAreUnique(R)
ListIsKept == "drop" \notin Hooks

Sig(m) == <<m.id, m.role, m.answers>>
Rooted(s, R) == \A i \in DOMAIN s : \E e \in R : Sig(s[i]) \in Minted(e)

LEMMA SigsAgree ==
  ASSUME NEW R, IdsAreUnique(R), NEW m, NEW n,
         \E e \in R : Sig(m) \in Minted(e), \E e \in R : Sig(n) \in Minted(e), m.id = n.id
  PROVE  m.role = n.role /\ m.answers = n.answers
<1>1. PICK e \in R : Sig(m) \in Minted(e)
  OBVIOUS
<1>2. PICK f \in R : Sig(n) \in Minted(f)
  OBVIOUS
<1>3. \A x \in Minted(e), y \in Minted(f) : x[1] = y[1] => x = y
  BY DEF IdsAreUnique
<1>4. Sig(m)[1] = m.id /\ Sig(n)[1] = n.id
  BY DEF Sig
<1>5. Sig(m) = Sig(n)
  BY <1>1, <1>2, <1>3, <1>4
<1> QED
  BY <1>5 DEF Sig

LEMMA MintedBy ==
  ASSUME NEW e
  PROVE  /\ e.type = "TEXT_MESSAGE_START" => <<e.messageId, "assistant", Absent>> \in Minted(e)
         /\ e.type = "REASONING_MESSAGE_START" => <<e.messageId, "reasoning", Absent>> \in Minted(e)
         /\ e.type = "ACTIVITY_SNAPSHOT" => <<e.messageId, "activity", Absent>> \in Minted(e)
         /\ e.type = "TOOL_CALL_START" =>
              \A id \in {e.toolCallId, e.parentMessageId} \ {Absent} :
                <<id, "assistant", Absent>> \in Minted(e)
         /\ e.type = "TOOL_CALL_RESULT" => <<e.messageId, "tool", e.toolCallId>> \in Minted(e)
<1>1. CASE e.type = "TOOL_CALL_START"
  <2>1. Minted(e) = {<<id, "assistant", Absent>> : id \in {e.toolCallId, e.parentMessageId} \ {Absent}}
    BY <1>1 DEF Minted
  <2> QED
    BY <1>1, <2>1
<1>2. CASE e.type # "TOOL_CALL_START"
  BY <1>2 DEF Minted
<1> QED
  BY <1>1, <1>2

LEMMA MintedByHistory ==
  ASSUME NEW e, e.type \in {"RUN_STARTED", "MESSAGES_SNAPSHOT"}, WellTyped(e.messages),
         NEW k \in DOMAIN e.messages
  PROVE  Sig(Imported(e.messages[k])) \in Minted(e)
<1>1. Minted(e) = {<<m.id, m.role, m.toolCallId>> : m \in ToSet(e.messages)}
  BY DEF Minted
<1>2. e.messages[k] \in ToSet(e.messages)
  BY DEF ToSet, Range
<1>3. Sig(Imported(e.messages[k])) =
        <<e.messages[k].id, e.messages[k].role, e.messages[k].toolCallId>>
  BY ImportedFacts DEF WellTyped, Sig
<1> QED
  BY <1>1, <1>2, <1>3

(* Where the elements of a list are once another has been inserted.        *)
Shift(p, k) == IF k < p THEN k ELSE k + 1

LEMMA InsertedFacts ==
  ASSUME NEW s \in Lists, NEW t, NEW p, NEW m, Inserted(s, t, p, m)
  PROVE  /\ t \in Lists /\ p \in DOMAIN t /\ t[p] = m
         /\ \A k \in DOMAIN s : Shift(p, k) \in DOMAIN t /\ t[Shift(p, k)] = s[k] /\ Shift(p, k) # p
         /\ \A a \in DOMAIN t : a = p \/ \E k \in DOMAIN s : a = Shift(p, k)
         /\ \A k, l \in DOMAIN s : (k < l <=> Shift(p, k) < Shift(p, l))
                                   /\ (Shift(p, k) = Shift(p, l) => k = l)
<1>1. /\ t \in Lists /\ DOMAIN t = 1..Len(s) + 1 /\ DOMAIN s = 1..Len(s) /\ Len(s) \in Nat
      /\ p \in 1..Len(s) + 1 /\ t[p] = m
      /\ \A k \in 1..Len(s) : IF k < p THEN t[k] = s[k] ELSE t[k + 1] = s[k]
  BY DEF Inserted, Lists
<1>2. \A k \in DOMAIN s : Shift(p, k) \in DOMAIN t /\ t[Shift(p, k)] = s[k] /\ Shift(p, k) # p
  BY <1>1 DEF Shift
<1>3. ASSUME NEW a \in DOMAIN t, a # p PROVE \E k \in DOMAIN s : a = Shift(p, k)
  <2>1. CASE a < p
    <3>1. a \in DOMAIN s /\ Shift(p, a) = a
      BY <1>1, <2>1 DEF Shift
    <3> QED
      BY <3>1
  <2>2. CASE a > p
    <3>1. a - 1 \in DOMAIN s /\ Shift(p, a - 1) = a
      BY <1>1, <2>2 DEF Shift
    <3> QED
      BY <3>1
  <2> QED
    BY <1>1, <1>3, <2>1, <2>2
<1>4. \A k, l \in DOMAIN s : (k < l <=> Shift(p, k) < Shift(p, l))
                             /\ (Shift(p, k) = Shift(p, l) => k = l)
  BY <1>1 DEF Shift
<1> QED
  BY <1>1, <1>2, <1>3, <1>4

(* The kinds of effects that an event has within a run.                    *)
OpenedRole(e) == CASE e.type = "TEXT_MESSAGE_START" -> "assistant"
                   [] e.type = "REASONING_MESSAGE_START" -> "reasoning"
                   [] e.type = "ACTIVITY_SNAPSHOT" -> "activity"

IsQuiet(s, t, e) ==
  /\ Touched(s, t) /\ e.type # "TOOL_CALL_RESULT"
  /\ ~(e.type = "ACTIVITY_SNAPSHOT" /\ e.replace)
IsOpened(s, t, e) ==
  /\ e.type \in {"TEXT_MESSAGE_START", "REASONING_MESSAGE_START", "ACTIVITY_SNAPSHOT"}
  /\ \A i \in DOMAIN s : s[i].id # e.messageId
  /\ \E m \in MessageRecord :
       /\ Inserted(s, t, Len(s) + 1, m) /\ m.calls = <<>>
       /\ Sig(m) = <<e.messageId, OpenedRole(e), Absent>>
       /\ m.owner = OwnerOf(e) /\ m.by = "opener"
IsCallAdded(s, t, e) ==
  /\ e.type = "TOOL_CALL_START" /\ \A i \in DOMAIN s : ~Holds(s[i], e.toolCallId)
  /\ \E i \in DOMAIN s, c \in CallRecord : CallAdded(s, t, i, c) /\ c.id = e.toolCallId
IsCallerAdded(s, t, e) ==
  /\ e.type = "TOOL_CALL_START" /\ \A i \in DOMAIN s : ~Holds(s[i], e.toolCallId)
  /\ \E m \in MessageRecord, id \in {e.toolCallId, e.parentMessageId} \ {Absent} :
       /\ Inserted(s, t, Len(s) + 1, m) /\ m.by = "call"
       /\ Sig(m) = <<id, "assistant", Absent>>
       /\ \A c : Holds(m, c) <=> c = e.toolCallId
IsResultAdded(s, t, e) ==
  /\ e.type = "TOOL_CALL_RESULT"
  /\ \E p \in 1..Len(s) + 1 :
       /\ Inserted(s, t, p, ResultOf(e))
       /\ FindCaller(s, e.toolCallId) # 0 =>
            /\ FindCaller(s, e.toolCallId) < p
            /\ \A k \in FindCaller(s, e.toolCallId) + 1 .. p - 1 : s[k].role = "tool"
IsReowned(s, t, e) ==
  /\ e.type = "ACTIVITY_SNAPSHOT" /\ e.replace
  /\ \E i \in DOMAIN s :
       /\ s[i].id = e.messageId /\ s[i].role = "activity"
       /\ Overwritten(s, t, i, Reowned(s[i], e))

LEMMA Effects ==
  ASSUME NEW R \in Repertoires, IdsAreUnique(R), NEW s \in Lists, Rooted(s, R),
         NEW e \in R, e.type \notin {"RUN_STARTED", "MESSAGES_SNAPSHOT"},
         NEW t, t = WithEffect(s, s, e)
  PROVE  \/ IsQuiet(s, t, e) \/ IsOpened(s, t, e) \/ IsCallAdded(s, t, e)
         \/ IsCallerAdded(s, t, e) \/ IsResultAdded(s, t, e) \/ IsReowned(s, t, e)
<1>0. e \in Sent
  BY DEF Sent
<1>1. CASE e.type \notin Openers
  BY <1>0, <1>1, QuietEffect DEF IsQuiet, Openers
<1>2. CASE e.type \in {"TEXT_MESSAGE_START", "REASONING_MESSAGE_START"}
  <2>1. OpenedRole(e) \in Roles /\ t = OpenMessage(s, e, OpenedRole(e))
    BY <1>2, OpenerEffect DEF Roles, OpenedRole
  <2>2. e.type \in MessageTypes
    BY <1>2 DEF MessageTypes, TextTypes, ReasoningTypes
  <2>3. CASE Touched(s, t)
    BY <1>2, <2>3 DEF IsQuiet
  <2>4. CASE ~Touched(s, t)
    <3> DEFINE m == NewMessage(e.messageId, OpenedRole(e), OwnerOf(e), e.meta, "opener")
    <3>1. t = Append(s, m) /\ \A i \in DOMAIN s : s[i].id # e.messageId
      BY <1>0, <2>1, <2>2, <2>4, MessageOpened
    <3>2. /\ m \in MessageRecord /\ m.calls = <<>>
          /\ m.id = e.messageId /\ m.role = OpenedRole(e) /\ m.owner = OwnerOf(e)
          /\ m.answers = Absent /\ m.by = "opener"
      BY <1>0, <2>1, <2>2, OpenedMessageFacts
    <3> HIDE DEF m
    <3>3. Inserted(s, t, Len(s) + 1, m)
      BY <3>1, <3>2, AppendInserts
    <3> QED
      BY <1>2, <3>1, <3>2, <3>3 DEF IsOpened, Sig
  <2> QED
    BY <2>3, <2>4
<1>3. CASE e.type = "TOOL_CALL_START"
  <2>1. t = OpenToolCall(s, e)
    BY <1>3, OpenerEffect
  <2>2. CASE Touched(s, t)
    BY <1>3, <2>2 DEF IsQuiet
  <2>3. CASE ~Touched(s, t)
    <3> DEFINE c == NewCall(e.toolCallId, e.meta)
    <3>1. /\ \A i \in DOMAIN s : ~Holds(s[i], e.toolCallId)
          /\ c \in CallRecord
          /\ \/ \E i \in DOMAIN s : CallAdded(s, t, i, c)
             \/ \E id \in {e.toolCallId, e.parentMessageId} \ {Absent}, owner \in Tags :
                  Inserted(s, t, Len(s) + 1,
                    WithNewCall(NewMessage(id, "assistant", owner, Absent, "call"), c))
      BY <1>0, <1>3, <2>1, <2>3, CallOpened
    <3>2. c.id = e.toolCallId
      BY DEF NewCall
    <3> HIDE DEF c
    <3>3. CASE \E i \in DOMAIN s : CallAdded(s, t, i, c)
      BY <1>3, <3>1, <3>2, <3>3 DEF IsCallAdded
    <3>4. CASE \E id \in {e.toolCallId, e.parentMessageId} \ {Absent}, owner \in Tags :
                 Inserted(s, t, Len(s) + 1,
                   WithNewCall(NewMessage(id, "assistant", owner, Absent, "call"), c))
      <4>1. PICK id \in {e.toolCallId, e.parentMessageId} \ {Absent}, owner \in Tags :
                 Inserted(s, t, Len(s) + 1,
                   WithNewCall(NewMessage(id, "assistant", owner, Absent, "call"), c))
        BY <3>4
      <4>2. id \in Ids
        BY <1>0, <1>3, EventFacts DEF HasShape, ToolCallTypes
      <4>3. PICK n \in MessageRecord : n = NewMessage(id, "assistant", owner, Absent, "call")
        BY <1>0, <4>2, FreshMessages, EventFacts DEF Roles
      <4>4. /\ n.calls = <<>> /\ n.role = "assistant" /\ n.id = id /\ n.answers = Absent
            /\ n.by = "call"
        BY <4>3 DEF NewMessage
      <4>5. PICK m : m = WithNewCall(n, c)
        OBVIOUS
      <4>6. /\ m \in MessageRecord /\ m.role = "assistant" /\ m.id = id /\ m.answers = Absent
            /\ m.by = "call"
        BY <3>1, <4>4, <4>5, NewCallTyped DEF WithNewCall, MessageRecord
      <4>7. \A x : Holds(m, x) <=> x = e.toolCallId
        BY <3>1, <3>2, <4>4, <4>5, NewCallTyped DEF Holds
      <4>8. Inserted(s, t, Len(s) + 1, m)
        BY <4>1, <4>3, <4>5
      <4> QED
        BY <1>3, <3>1, <4>6, <4>7, <4>8 DEF IsCallerAdded, Sig
    <3> QED
      BY <3>1, <3>3, <3>4
  <2> QED
    BY <2>2, <2>3
<1>4. CASE e.type = "TOOL_CALL_RESULT"
  BY <1>0, <1>4, OpenerEffect, ResultAdded DEF IsResultAdded
<1>5. CASE e.type = "ACTIVITY_DELTA"
  BY <1>0, <1>5, OpenerEffect, ActivityPatched DEF IsQuiet
<1>6. CASE e.type = "ACTIVITY_SNAPSHOT"
  <2>1. \/ /\ \A i \in DOMAIN s : s[i].id # e.messageId
           /\ Inserted(s, t, Len(s) + 1, ActivityOf(e))
        \/ Touched(s, t) /\ ~e.replace
        \/ \E i \in DOMAIN s : /\ s[i].id = e.messageId /\ s[i].role = "activity" /\ e.replace
                               /\ Overwritten(s, t, i, Reowned(s[i], e))
        \/ \E i \in DOMAIN s : s[i].id = e.messageId /\ s[i].role # "activity"
    BY <1>0, <1>6, OpenerEffect, ActivityShown
  <2>2. /\ ActivityOf(e) \in MessageRecord /\ ActivityOf(e).calls = <<>>
        /\ Sig(ActivityOf(e)) = <<e.messageId, OpenedRole(e), Absent>>
        /\ ActivityOf(e).id = e.messageId /\ ActivityOf(e).role = "activity"
        /\ ActivityOf(e).owner = OwnerOf(e) /\ ActivityOf(e).by = "opener"
    BY <1>0, <1>6, ActivityFacts DEF OpenedRole, Sig
  <2>3. ASSUME NEW i \in DOMAIN s, s[i].id = e.messageId PROVE s[i].role = "activity"
    <3>1. Sig(ActivityOf(e)) \in Minted(e)
      BY <1>6, <2>2, MintedBy DEF OpenedRole
    <3>2. \E f \in R : Sig(s[i]) \in Minted(f)
      BY DEF Rooted
    <3> QED
      BY <2>2, <2>3, <3>1, <3>2, SigsAgree
  <2>4. CASE /\ \A i \in DOMAIN s : s[i].id # e.messageId
             /\ Inserted(s, t, Len(s) + 1, ActivityOf(e))
    BY <1>6, <2>2, <2>4 DEF IsOpened
  <2>5. CASE Touched(s, t) /\ ~e.replace
    BY <1>6, <2>5 DEF IsQuiet
  <2>6. CASE \E i \in DOMAIN s : /\ s[i].id = e.messageId /\ s[i].role = "activity" /\ e.replace
                                 /\ Overwritten(s, t, i, Reowned(s[i], e))
    BY <1>6, <2>6 DEF IsReowned
  <2> QED
    BY <2>1, <2>3, <2>4, <2>5, <2>6
<1> QED
  BY <1>1, <1>2, <1>3, <1>4, <1>5, <1>6 DEF Openers

-----------------------------------------------------------------------------
(* An activity has its id for itself.                                      *)
SingleActivities(s) ==
  \A i, j \in DOMAIN s : s[i].role = "activity" /\ s[i].id = s[j].id => i = j

SameSigs(s, t) ==
  /\ t \in Lists /\ DOMAIN t = DOMAIN s
  /\ \A i \in DOMAIN s : Sig(t[i]) = Sig(s[i])

LEMMA SigsKept ==
  ASSUME NEW s \in Lists
  PROVE  /\ \A t : Touched(s, t) => SameSigs(s, t)
         /\ \A t, i, c : CallAdded(s, t, i, c) => SameSigs(s, t)
         /\ \A t, i, m : Overwritten(s, t, i, m) /\ Sig(m) = Sig(s[i]) => SameSigs(s, t)
<1>1. ASSUME NEW t, Touched(s, t) PROVE SameSigs(s, t)
  BY <1>1 DEF Touched, SameSigs, Sig, Same
<1>2. ASSUME NEW t, NEW i, NEW c, CallAdded(s, t, i, c) PROVE SameSigs(s, t)
  <2>1. s[i] \in MessageRecord
    BY <1>2, ElementTyped DEF CallAdded
  <2>2. Sig(t[i]) = Sig(s[i])
    BY <1>2, <2>1 DEF CallAdded, Sig, WithNewCall, MessageRecord
  <2> QED
    BY <1>2, <2>2 DEF CallAdded, SameSigs
<1>3. ASSUME NEW t, NEW i, NEW m, Overwritten(s, t, i, m), Sig(m) = Sig(s[i])
      PROVE  SameSigs(s, t)
  <2>1. Sig(t[i]) = Sig(s[i])
    BY <1>3 DEF Overwritten, Sig, Same
  <2> QED
    BY <1>3, <2>1 DEF Overwritten, SameSigs
<1> QED
  BY <1>1, <1>2, <1>3

LEMMA RootsKept ==
  ASSUME NEW R, IdsAreUnique(R), NEW s \in Lists, Rooted(s, R), SingleActivities(s)
  PROVE  /\ \A t : SameSigs(s, t) => Rooted(t, R) /\ SingleActivities(t)
         /\ \A t, p, m : /\ Inserted(s, t, p, m) /\ \E e \in R : Sig(m) \in Minted(e)
                         /\ m.role = "activity" => \A i \in DOMAIN s : s[i].id # m.id
                         => Rooted(t, R) /\ SingleActivities(t)
<1>1. ASSUME NEW t, SameSigs(s, t) PROVE Rooted(t, R) /\ SingleActivities(t)
  <2>1. \A i \in DOMAIN s : t[i].id = s[i].id /\ t[i].role = s[i].role
    BY <1>1 DEF SameSigs, Sig
  <2> QED
    BY <1>1, <2>1 DEF SameSigs, Rooted, SingleActivities
<1>2. ASSUME NEW t, NEW p, NEW m, Inserted(s, t, p, m), \E e \in R : Sig(m) \in Minted(e),
             m.role = "activity" => \A i \in DOMAIN s : s[i].id # m.id
      PROVE  Rooted(t, R) /\ SingleActivities(t)
  <2>1. t \in Lists /\ p \in DOMAIN t /\ t[p] = m
    BY <1>2, InsertedFacts
  <2>2. \A a \in DOMAIN t : a = p \/ \E k \in DOMAIN s : a = Shift(p, k) /\ t[a] = s[k]
    BY <1>2, InsertedFacts
  <2>3. Rooted(t, R)
    BY <1>2, <2>1, <2>2 DEF Rooted
  <2>4. ASSUME NEW a \in DOMAIN t, NEW b \in DOMAIN t, t[a].role = "activity", t[a].id = t[b].id
        PROVE  a = b
    <3>1. t[b].role = "activity"
      BY <2>3, <2>4, SigsAgree DEF Rooted
    <3>2. CASE a = p
      BY <1>2, <2>1, <2>2, <2>4, <3>2
    <3>3. CASE b = p
      BY <1>2, <2>1, <2>2, <2>4, <3>1, <3>3
    <3>4. CASE a # p /\ b # p
      BY <2>2, <2>4, <3>4 DEF SingleActivities
    <3> QED
      BY <3>2, <3>3, <3>4
  <2> QED
    BY <2>3, <2>4 DEF SingleActivities
<1> QED
  BY <1>1, <1>2

LEMMA EffectIsRooted ==
  ASSUME NEW R \in Repertoires, IdsAreUnique(R), NEW s \in Lists, Rooted(s, R),
         SingleActivities(s), NEW e \in R, NEW t, t = WithEffect(s, s, e)
  PROVE  Rooted(t, R) /\ SingleActivities(t)
<1>0. e \in Sent
  BY DEF Sent
<1>1. CASE IsQuiet(s, t, e)
  BY <1>1, SigsKept, RootsKept DEF IsQuiet
<1>2. CASE IsOpened(s, t, e)
  <2>1. PICK m \in MessageRecord :
          Inserted(s, t, Len(s) + 1, m) /\ Sig(m) = <<e.messageId, OpenedRole(e), Absent>>
    BY <1>2 DEF IsOpened
  <2>2. Sig(m) \in Minted(e)
    BY <1>2, <2>1, MintedBy DEF IsOpened, OpenedRole
  <2>3. \A i \in DOMAIN s : s[i].id # m.id
    BY <1>2, <2>1 DEF IsOpened, Sig
  <2> QED
    BY <2>1, <2>2, <2>3, RootsKept
<1>3. CASE IsCallAdded(s, t, e)
  BY <1>3, SigsKept, RootsKept DEF IsCallAdded
<1>4. CASE IsCallerAdded(s, t, e)
  <2>1. PICK m \in MessageRecord, id \in {e.toolCallId, e.parentMessageId} \ {Absent} :
          Inserted(s, t, Len(s) + 1, m) /\ Sig(m) = <<id, "assistant", Absent>>
    BY <1>4 DEF IsCallerAdded
  <2>2. Sig(m) \in Minted(e)
    BY <1>4, <2>1, MintedBy DEF IsCallerAdded
  <2>3. m.role = "assistant"
    BY <2>1 DEF Sig
  <2> QED
    BY <2>1, <2>2, <2>3, RootsKept
<1>5. CASE IsResultAdded(s, t, e)
  <2>1. PICK p : Inserted(s, t, p, ResultOf(e))
    BY <1>5 DEF IsResultAdded
  <2>2. ResultOf(e).role = "tool" /\ Sig(ResultOf(e)) = <<e.messageId, "tool", e.toolCallId>>
    BY <1>0, <1>5, ResultFacts DEF IsResultAdded, Sig
  <2>3. Sig(ResultOf(e)) \in Minted(e)
    BY <1>5, <2>2, MintedBy DEF IsResultAdded
  <2> QED
    BY <2>1, <2>2, <2>3, RootsKept
<1>6. CASE IsReowned(s, t, e)
  <2>1. PICK i \in DOMAIN s : Overwritten(s, t, i, Reowned(s[i], e))
    BY <1>6 DEF IsReowned
  <2>2. Sig(Reowned(s[i], e)) = Sig(s[i])
    BY <1>0, <1>6, ElementTyped, ReownedFacts DEF IsReowned, Sig
  <2> QED
    BY <2>1, <2>2, SigsKept, RootsKept
<1>7. CASE e.type = "MESSAGES_SNAPSHOT"
  <2> DEFINE h == e.messages
  <2>1. WellTyped(h) /\ t = MergeSnapshot(s, h)
    BY <1>0, <1>7, HistoryTyped, OpenerEffect
  <2>2. \A k, l \in DOMAIN h : h[k].id = h[l].id => k = l
    BY <1>7 DEF IdsAreUnique
  <2>3. t \in Lists
        /\ \A a, b \in DOMAIN t : a # b /\ t[a].id = t[b].id =>
             \E i, j \in DOMAIN s : i # j /\ s[i].id = t[a].id /\ s[j].id = t[a].id
    BY <2>1, <2>2, SnapshotMerged
  <2>4. Rooted(t, R)
    <3>1. SUFFICES ASSUME NEW a \in DOMAIN t PROVE \E f \in R : Sig(t[a]) \in Minted(f)
      BY DEF Rooted
    <3>2. \/ \E k \in DOMAIN h : t[a] = Imported(h[k])
          \/ \E i \in DOMAIN s : t[a] = s[i]
      BY <2>1, SnapshotMerged
    <3>3. CASE \E k \in DOMAIN h : t[a] = Imported(h[k])
      BY <1>7, <2>1, <3>3, MintedByHistory
    <3> QED
      BY <3>2, <3>3 DEF Rooted
  <2>5. ASSUME NEW a \in DOMAIN t, NEW b \in DOMAIN t, t[a].role = "activity",
               t[a].id = t[b].id, a # b
        PROVE  FALSE
    <3>1. PICK i \in DOMAIN s, j \in DOMAIN s : i # j /\ s[i].id = t[a].id /\ s[j].id = t[a].id
      BY <2>3, <2>5
    <3>2. s[i].role = "activity"
      BY <2>4, <2>5, <3>1, SigsAgree DEF Rooted
    <3> QED
      BY <3>1, <3>2 DEF SingleActivities
  <2> QED
    BY <2>4, <2>5 DEF SingleActivities
<1>8. CASE e.type = "RUN_STARTED"
  <2> DEFINE h == e.messages
  <2>1. WellTyped(h) /\ Echoed(s, t, h, Len(h))
    BY <1>0, <1>8, HistoryTyped, OpenerEffect, EchoAdded
  <2>2. DOMAIN h = 1..Len(h)
    BY <2>1 DEF WellTyped
  <2>3. \A i \in DOMAIN s : t[i] = s[i]
    BY <2>1 DEF Echoed
  <2>4. Rooted(t, R)
    <3>1. SUFFICES ASSUME NEW a \in DOMAIN t PROVE \E f \in R : Sig(t[a]) \in Minted(f)
      BY DEF Rooted
    <3>2. a \in DOMAIN s \/ \E k \in DOMAIN h : t[a] = Imported(h[k])
      BY <2>1, <2>2 DEF Echoed
    <3>3. CASE \E k \in DOMAIN h : t[a] = Imported(h[k])
      BY <1>8, <2>1, <3>3, MintedByHistory
    <3> QED
      BY <2>3, <3>2, <3>3 DEF Rooted
  <2>5. \A a, b \in DOMAIN t : t[a].id = t[b].id => a = b \/ {a, b} \subseteq DOMAIN s
    BY <2>1 DEF Echoed
  <2> QED
    BY <2>3, <2>4, <2>5 DEF SingleActivities
<1> QED
  BY <1>1, <1>2, <1>3, <1>4, <1>5, <1>6, <1>7, <1>8, Effects

(* With the list left to the reducer, a step applies the event to the list *)
(* or leaves the list.                                                     *)
LEMMA ReduceKept ==
  ASSUME ListIsKept, NEW c, DOMAIN c = Fields, NEW e, NEW hook \in Hooks \cup {"none"},
         NEW r, r = Reduce(c, e, hook)
  PROVE  /\ DOMAIN r = Fields
         /\ hook \in {"veto", "stop"} => r.messages = Before(c, e)
         /\ hook \notin {"veto", "stop"} =>
              r.messages = WithEffect(Before(c, e), Before(c, e), e)
<1>1. hook # "drop"
  BY DEF ListIsKept
<1>2. Hooked(Before(c, e), hook) = Before(c, e)
  BY <1>1 DEF Hooked
<1> QED
  BY <1>2, ReduceFacts

KeptInv ==
  /\ CallsInv
  /\ Rooted(conv.messages, repertoire)
  /\ SingleActivities(conv.messages)

LEMMA BeforeIsRooted ==
  ASSUME KeptInv, IdsAreKept, NEW e \in repertoire, NEW s, s = Before(conv, e)
  PROVE  /\ s \in Lists /\ Sound(s) /\ Rooted(s, repertoire) /\ SingleActivities(s)
         /\ repertoire \in Repertoires /\ IdsAreUnique(repertoire)
<1>1. /\ repertoire \in Repertoires /\ IdsAreUnique(repertoire)
      /\ conv.messages \in Lists /\ Sound(conv.messages)
      /\ Rooted(conv.messages, repertoire) /\ SingleActivities(conv.messages)
  BY DEF KeptInv, CallsInv, Sound, IdsAreKept
<1>2. CASE e.type = "RUN_STARTED"
  <2>1. /\ s \in Lists /\ DOMAIN s = DOMAIN conv.messages
        /\ \A i \in DOMAIN s : /\ s[i].id = conv.messages[i].id
                               /\ s[i].role = conv.messages[i].role
                               /\ s[i].calls = conv.messages[i].calls
                               /\ s[i].answers = conv.messages[i].answers
    BY <1>1, <1>2, AgedFacts DEF Before
  <2>2. SameSigs(conv.messages, s)
    BY <2>1 DEF SameSigs, Sig
  <2>3. Sound(s)
    BY <1>1, <2>1 DEF Sound
  <2> QED
    BY <1>1, <2>1, <2>2, <2>3, RootsKept
<1> QED
  BY <1>1, <1>2 DEF Before

LEMMA KeptInvHolds ==
  ASSUME IdsAreKept, ListIsKept
  PROVE  ConversationSpec => []KeptInv
<1>1. ConversationInit => KeptInv
  <2> SUFFICES ASSUME ConversationInit PROVE KeptInv
    OBVIOUS
  <2>0. EmptyConversation.messages = <<>> /\ DOMAIN EmptyConversation = Fields
    BY DEF EmptyConversation, Fields
  <2>1. repertoire \in Repertoires /\ conv.messages = <<>> /\ DOMAIN conv = Fields
    BY <2>0, Zenon DEF ConversationInit
  <2>2. conv.messages \in Lists /\ DOMAIN conv.messages = {}
    BY <2>1 DEF Lists
  <2> QED
    BY <2>1, <2>2 DEF KeptInv, CallsInv, Sound, Rooted, SingleActivities
<1>2. KeptInv /\ CallsInv' /\ [ConversationNext]_streamVars => KeptInv'
  <2> SUFFICES ASSUME KeptInv, CallsInv', [ConversationNext]_streamVars PROVE KeptInv'
    OBVIOUS
  <2>1. CASE UNCHANGED streamVars
    BY <2>1 DEF streamVars, conversationVars, KeptInv, CallsInv
  <2>2. CASE ConversationNext
    <3>1. PICK e \in repertoire, hook \in Hooks \cup {"none"} : Receive(e, hook)
      BY <2>2 DEF ConversationNext
    <3>2. conv' = Reduce(conv, e, hook) /\ repertoire' = repertoire
      BY <3>1 DEF Receive
    <3> DEFINE s == Before(conv, e)
    <3>3. \/ conv'.messages = s
          \/ conv'.messages = WithEffect(s, s, e)
      BY <3>2, ReduceKept DEF KeptInv, CallsInv
    <3> QED
      BY <3>2, <3>3, BeforeIsRooted, EffectIsRooted DEF KeptInv
  <2> QED
    BY <2>1, <2>2
<1> QED
  BY <1>1, <1>2, CallsInvHolds, PTL DEF ConversationSpec

-----------------------------------------------------------------------------
(* Results and their calls.                                                *)
FirstHolder(s, i, call) ==
  /\ i \in DOMAIN s /\ Holds(s[i], call)
  /\ \A k \in DOMAIN s : Holds(s[k], call) => i <= k

Adjacent(s) ==
  \A i, j, k \in DOMAIN s :
    /\ s[j].answers # Absent /\ FirstHolder(s, i, s[j].answers)
    /\ i < k /\ k < j
    => s[k].role = "tool"

LEMMA HolderFacts ==
  ASSUME NEW s \in Lists, NEW call
  PROVE  /\ FindHolder(s, call) \in Nat
         /\ FindHolder(s, call) > 0 => FirstHolder(s, FindHolder(s, call), call)
         /\ FindHolder(s, call) = 0 => \A i \in DOMAIN s : ~Holds(s[i], call)
         /\ \A i : FirstHolder(s, i, call) => i = FindHolder(s, call)
<1> DEFINE n == FindHolder(s, call)
<1>0. DOMAIN s = 1..Len(s) /\ Len(s) \in Nat
  BY DEF Lists
<1>1. IsFirst(n, s, {i \in DOMAIN s : Holds(s[i], call)})
  BY FindHolderIsFirst
<1>2. n # 0 => FirstHolder(s, n, call)
  BY <1>1 DEF IsFirst, FirstHolder
<1>3. n = 0 => \A i \in DOMAIN s : ~Holds(s[i], call)
  BY <1>1 DEF IsFirst
<1>4. n \in Nat
  BY <1>0, <1>2 DEF FirstHolder
<1>5. ASSUME NEW i, FirstHolder(s, i, call) PROVE i = n
  <2>1. n # 0
    BY <1>3, <1>5 DEF FirstHolder
  <2>2. i <= n /\ n <= i /\ i \in Nat
    BY <1>0, <1>2, <1>5, <2>1 DEF FirstHolder
  <2> QED
    BY <1>4, <2>2
<1> QED
  BY <1>2, <1>3, <1>4, <1>5

LEMMA AdjacentMeans ==
  ASSUME NEW s \in Lists
  PROVE  /\ ResultsAdjacent(s) <=> Adjacent(s)
         /\ ~Orphaned(s) => \A j \in DOMAIN s : s[j].answers # Absent =>
                              \E k \in DOMAIN s : Holds(s[k], s[j].answers)
<1>0. DOMAIN s = 1..Len(s) /\ Len(s) \in Nat
  BY DEF Lists
<1>1. ASSUME ResultsAdjacent(s), NEW i \in DOMAIN s, NEW j \in DOMAIN s, NEW k \in DOMAIN s,
             s[j].answers # Absent, FirstHolder(s, i, s[j].answers), i < k, k < j
      PROVE  s[k].role = "tool"
  <2>1. i = FindHolder(s, s[j].answers)
    BY <1>1, HolderFacts
  <2>2. i > 0 /\ i < j /\ k \in i + 1 .. j - 1
    BY <1>0, <1>1
  <2> QED
    BY <1>1, <2>1, <2>2 DEF ResultsAdjacent
<1>2. ASSUME Adjacent(s), NEW j \in DOMAIN s, s[j].answers # Absent,
             NEW i, i = FindHolder(s, s[j].answers), i > 0, i < j, NEW k \in i + 1 .. j - 1
      PROVE  s[k].role = "tool"
  <2>1. FirstHolder(s, i, s[j].answers)
    BY <1>2, HolderFacts
  <2>2. i \in DOMAIN s /\ k \in DOMAIN s /\ i < k /\ k < j
    BY <1>0, <1>2, <2>1 DEF FirstHolder
  <2> QED
    BY <1>2, <2>1, <2>2 DEF Adjacent
<1>3. ResultsAdjacent(s) => Adjacent(s)
  BY <1>1 DEF Adjacent
<1>4. Adjacent(s) => ResultsAdjacent(s)
  BY <1>2 DEF ResultsAdjacent
<1>5. ASSUME ~Orphaned(s), NEW j \in DOMAIN s, s[j].answers # Absent
      PROVE  \E k \in DOMAIN s : Holds(s[k], s[j].answers)
  <2>1. FindHolder(s, s[j].answers) # 0
    BY <1>5 DEF Orphaned
  <2>2. FirstHolder(s, FindHolder(s, s[j].answers), s[j].answers)
    BY <2>1, HolderFacts
  <2> QED
    BY <2>2 DEF FirstHolder
<1> QED
  BY <1>3, <1>4, <1>5

LEMMA AdjacentInPlace ==
  ASSUME NEW s \in Lists, Adjacent(s), NEW t, SameSigs(s, t),
         \A j \in DOMAIN s : s[j].answers # Absent =>
           \A k \in DOMAIN s : Holds(t[k], s[j].answers) <=> Holds(s[k], s[j].answers)
  PROVE  Adjacent(t)
<1>1. /\ t \in Lists /\ DOMAIN t = DOMAIN s
      /\ \A i \in DOMAIN s : t[i].role = s[i].role /\ t[i].answers = s[i].answers
  BY DEF SameSigs, Sig
<1>2. \A i, j \in DOMAIN s : s[j].answers # Absent /\ FirstHolder(t, i, s[j].answers)
                               => FirstHolder(s, i, s[j].answers)
  BY <1>1 DEF FirstHolder
<1> QED
  BY <1>1, <1>2 DEF Adjacent

LEMMA AdjacentInserted ==
  ASSUME NEW s \in Lists, Adjacent(s), NEW t, NEW p, NEW m, Inserted(s, t, p, m),
         \A j \in DOMAIN s : s[j].answers # Absent => ~Holds(m, s[j].answers),
         p = Len(s) + 1 \/ m.role = "tool",
         m.answers # Absent =>
           /\ ~Holds(m, m.answers)
           /\ \A i, k \in DOMAIN s :
                FirstHolder(s, i, m.answers) /\ i < k /\ k < p => s[k].role = "tool"
  PROVE  Adjacent(t)
<1>0. /\ DOMAIN s = 1..Len(s) /\ Len(s) \in Nat /\ p \in 1..Len(s) + 1
      /\ DOMAIN t = 1..Len(s) + 1
  BY DEF Lists, Inserted
<1>1. /\ t \in Lists /\ p \in DOMAIN t /\ t[p] = m
      /\ \A k \in DOMAIN s : Shift(p, k) \in DOMAIN t /\ t[Shift(p, k)] = s[k] /\ Shift(p, k) # p
      /\ \A a \in DOMAIN t : a = p \/ \E k \in DOMAIN s : a = Shift(p, k)
      /\ \A k, l \in DOMAIN s : k < l <=> Shift(p, k) < Shift(p, l)
  BY InsertedFacts
<1>2. ASSUME NEW a \in DOMAIN t, NEW call, ~Holds(m, call), FirstHolder(t, a, call)
      PROVE  \E i \in DOMAIN s : a = Shift(p, i) /\ FirstHolder(s, i, call)
  <2>1. PICK i \in DOMAIN s : a = Shift(p, i)
    BY <1>1, <1>2 DEF FirstHolder
  <2>2. ASSUME NEW k \in DOMAIN s, Holds(s[k], call) PROVE i <= k
    <3>1. Shift(p, i) <= Shift(p, k)
      BY <1>1, <1>2, <2>1, <2>2 DEF FirstHolder
    <3> QED
      BY <1>0, <3>1 DEF Shift
  <2> QED
    BY <1>1, <1>2, <2>1, <2>2 DEF FirstHolder
<1>3. SUFFICES ASSUME NEW a \in DOMAIN t, NEW b \in DOMAIN t, NEW d \in DOMAIN t,
                      t[b].answers # Absent, FirstHolder(t, a, t[b].answers), a < d, d < b
               PROVE  t[d].role = "tool"
  BY DEF Adjacent
<1>4. CASE b = p
  <2>1. PICK i \in DOMAIN s : a = Shift(p, i) /\ FirstHolder(s, i, m.answers)
    BY <1>1, <1>2, <1>3, <1>4
  <2>2. PICK k \in DOMAIN s : d = Shift(p, k)
    BY <1>0, <1>1, <1>3, <1>4
  <2>3. i < k /\ k < p
    BY <1>0, <1>1, <1>3, <1>4, <2>1, <2>2 DEF Shift
  <2> QED
    BY <1>1, <1>3, <1>4, <2>1, <2>2, <2>3
<1>5. CASE b # p
  <2>1. PICK j \in DOMAIN s : b = Shift(p, j) /\ t[b] = s[j]
    BY <1>1, <1>5
  <2>2. PICK i \in DOMAIN s : a = Shift(p, i) /\ FirstHolder(s, i, s[j].answers)
    BY <1>2, <1>3, <2>1
  <2>3. CASE d = p
    <3>1. p # Len(s) + 1
      BY <1>0, <1>3, <2>3
    <3> QED
      BY <1>1, <2>3, <3>1
  <2>4. CASE d # p
    <3>1. PICK k \in DOMAIN s : d = Shift(p, k)
      BY <1>1, <2>4
    <3>2. i < k /\ k < j
      BY <1>1, <1>3, <2>1, <2>2, <3>1
    <3> QED
      BY <1>1, <1>3, <2>1, <2>2, <3>1, <3>2 DEF Adjacent
  <2> QED
    BY <2>3, <2>4
<1> QED
  BY <1>4, <1>5

LEMMA HoldsKept ==
  ASSUME NEW s \in Lists
  PROVE  /\ \A t : Touched(s, t) =>
              \A k \in DOMAIN s : \A c : Holds(t[k], c) <=> Holds(s[k], c)
         /\ \A t, i, m : Overwritten(s, t, i, m) /\ m.calls = s[i].calls =>
              \A k \in DOMAIN s : \A c : Holds(t[k], c) <=> Holds(s[k], c)
         /\ \A t, i, c : CallAdded(s, t, i, c) /\ c \in CallRecord =>
              \A k \in DOMAIN s : \A d : d # c.id => (Holds(t[k], d) <=> Holds(s[k], d))
<1>1. ASSUME NEW t, Touched(s, t), NEW k \in DOMAIN s, NEW c
      PROVE  Holds(t[k], c) <=> Holds(s[k], c)
  BY <1>1 DEF Touched, Same, Holds
<1>2. ASSUME NEW t, NEW i, NEW m, Overwritten(s, t, i, m), m.calls = s[i].calls,
             NEW k \in DOMAIN s, NEW c
      PROVE  Holds(t[k], c) <=> Holds(s[k], c)
  BY <1>2 DEF Overwritten, Same, Holds
<1>3. ASSUME NEW t, NEW i, NEW c, CallAdded(s, t, i, c), c \in CallRecord, NEW k \in DOMAIN s,
             NEW d, d # c.id
      PROVE  Holds(t[k], d) <=> Holds(s[k], d)
  <2>1. CASE k # i
    BY <1>3, <2>1 DEF CallAdded
  <2>2. CASE k = i
    BY <1>3, <2>2, ElementTyped, NewCallTyped DEF CallAdded
  <2> QED
    BY <2>1, <2>2
<1> QED
  BY <1>1, <1>2, <1>3

LEMMA EffectKeepsResults ==
  ASSUME NEW R \in Repertoires, IdsAreUnique(R), NEW s \in Lists, Rooted(s, R), Sound(s),
         NEW e \in R, e.type \notin {"RUN_STARTED", "MESSAGES_SNAPSHOT"},
         NEW t, t = WithEffect(s, s, e), Adjacent(s),
         \A j \in DOMAIN s : s[j].answers # Absent => \E k \in DOMAIN s : Holds(s[k], s[j].answers)
  PROVE  Adjacent(t)
<1>0. e \in Sent
  BY DEF Sent
<1>1. CASE IsQuiet(s, t, e)
  BY <1>1, SigsKept, HoldsKept, AdjacentInPlace DEF IsQuiet
<1>2. CASE IsOpened(s, t, e)
  <2>1. PICK m \in MessageRecord :
          /\ Inserted(s, t, Len(s) + 1, m) /\ m.calls = <<>>
          /\ Sig(m) = <<e.messageId, OpenedRole(e), Absent>>
    BY <1>2 DEF IsOpened
  <2>2. m.answers = Absent /\ \A c : ~Holds(m, c)
    BY <2>1 DEF Sig, Holds
  <2> QED
    BY <2>1, <2>2, AdjacentInserted
<1>3. CASE IsCallAdded(s, t, e)
  <2>1. PICK i \in DOMAIN s, c \in CallRecord : CallAdded(s, t, i, c) /\ c.id = e.toolCallId
    BY <1>3 DEF IsCallAdded
  <2>2. \A j \in DOMAIN s : s[j].answers # Absent => s[j].answers # c.id
    BY <1>3, <2>1 DEF IsCallAdded
  <2> QED
    BY <2>1, <2>2, SigsKept, HoldsKept, AdjacentInPlace
<1>4. CASE IsCallerAdded(s, t, e)
  <2>1. PICK m \in MessageRecord, id \in {e.toolCallId, e.parentMessageId} \ {Absent} :
          /\ Inserted(s, t, Len(s) + 1, m) /\ Sig(m) = <<id, "assistant", Absent>>
          /\ \A c : Holds(m, c) <=> c = e.toolCallId
    BY <1>4 DEF IsCallerAdded
  <2>2. \A j \in DOMAIN s : s[j].answers # Absent => ~Holds(m, s[j].answers)
    BY <1>4, <2>1 DEF IsCallerAdded
  <2>3. m.answers = Absent
    BY <2>1 DEF Sig
  <2> QED
    BY <2>1, <2>2, <2>3, AdjacentInserted
<1>5. CASE IsResultAdded(s, t, e)
  <2>1. PICK p \in 1..Len(s) + 1 :
          /\ Inserted(s, t, p, ResultOf(e))
          /\ FindCaller(s, e.toolCallId) # 0 =>
               /\ FindCaller(s, e.toolCallId) < p
               /\ \A k \in FindCaller(s, e.toolCallId) + 1 .. p - 1 : s[k].role = "tool"
    BY <1>5 DEF IsResultAdded
  <2>2. /\ ResultOf(e).role = "tool" /\ ResultOf(e).answers = e.toolCallId
        /\ \A c : ~Holds(ResultOf(e), c)
    BY <1>0, <1>5, ResultFacts DEF IsResultAdded, Holds
  <2>3. ASSUME NEW i \in DOMAIN s, NEW k \in DOMAIN s, FirstHolder(s, i, e.toolCallId),
               i < k, k < p
        PROVE  s[k].role = "tool"
    <3> DEFINE n == FindCaller(s, e.toolCallId)
    <3>0. DOMAIN s = 1..Len(s) /\ Len(s) \in Nat
      BY DEF Lists
    <3>1. s[i].calls # <<>>
      BY <2>3 DEF FirstHolder, Holds
    <3>2. s[i].role = "assistant"
      BY <3>1 DEF Sound
    <3>3. IsFirst(n, s, {a \in DOMAIN s : s[a].role = "assistant" /\ Holds(s[a], e.toolCallId)})
      BY FindCallerIsFirst
    <3>4. n # 0 /\ n \in DOMAIN s /\ n <= i
      BY <2>3, <3>2, <3>3 DEF IsFirst, FirstHolder
    <3>5. k \in n + 1 .. p - 1
      BY <2>1, <2>3, <3>0, <3>4
    <3> QED
      BY <2>1, <3>4, <3>5
  <2> QED
    BY <2>1, <2>2, <2>3, AdjacentInserted
<1>6. CASE IsReowned(s, t, e)
  <2>1. PICK i \in DOMAIN s : Overwritten(s, t, i, Reowned(s[i], e))
    BY <1>6 DEF IsReowned
  <2>2. Sig(Reowned(s[i], e)) = Sig(s[i]) /\ Reowned(s[i], e).calls = s[i].calls
    BY <1>0, <1>6, ElementTyped, ReownedFacts DEF IsReowned, Sig
  <2> QED
    BY <2>1, <2>2, SigsKept, HoldsKept, AdjacentInPlace
<1> QED
  BY <1>1, <1>2, <1>3, <1>4, <1>5, <1>6, Effects

(* The provider's contract, for producers that keep message ids apart and  *)
(* subscribers that do not return a list of their own: whatever an event   *)
(* of a run opens, adds or inserts, it goes nowhere between a call and the *)
(* results of the calls that follow it.                                    *)
THEOREM ResultsStayWithTheirCalls ==
  ASSUME IdsAreKept, ListIsKept
  PROVE  ConversationSpec => ResultsFollowTheirCalls
<1>1. KeptInv /\ [ConversationNext]_streamVars =>
        [ResultsAdjacent(conv.messages) /\ ~Restates /\ ~Orphaned(conv.messages)
           => ResultsAdjacent(conv.messages')]_streamVars
  <2> SUFFICES ASSUME KeptInv, ConversationNext, ResultsAdjacent(conv.messages), ~Restates,
                      ~Orphaned(conv.messages)
               PROVE  ResultsAdjacent(conv.messages')
    OBVIOUS
  <2>1. PICK e \in repertoire, hook \in Hooks \cup {"none"} : Receive(e, hook)
    BY DEF ConversationNext
  <2>2. conv' = Reduce(conv, e, hook) /\ e.type \notin {"RUN_STARTED", "MESSAGES_SNAPSHOT"}
    BY <2>1 DEF Receive, Restates
  <2> DEFINE s == conv.messages
  <2>3. Before(conv, e) = s
    BY <2>2 DEF Before
  <2>4. \/ conv'.messages = s
        \/ conv'.messages = WithEffect(s, s, e)
    BY <2>2, <2>3, ReduceKept DEF KeptInv, CallsInv
  <2>5. CASE conv'.messages = s
    BY <2>5
  <2>6. CASE conv'.messages = WithEffect(s, s, e)
    <3>1. /\ s \in Lists /\ Sound(s) /\ Rooted(s, repertoire) /\ SingleActivities(s)
          /\ repertoire \in Repertoires /\ IdsAreUnique(repertoire)
      BY <2>3, BeforeIsRooted
    <3>2. e \in Sent
      BY <3>1 DEF Sent
    <3>3. conv'.messages \in Lists
      BY <2>6, <3>1, <3>2, EffectIsSound DEF Sound
    <3>4. Adjacent(conv'.messages)
      BY <2>2, <2>6, <3>1, AdjacentMeans, EffectKeepsResults
    <3> QED
      BY <3>3, <3>4, AdjacentMeans
  <2> QED
    BY <2>4, <2>5, <2>6
<1> QED
  BY <1>1, KeptInvHolds, PTL DEF ConversationSpec, ResultsFollowTheirCalls

-----------------------------------------------------------------------------
(* The owners that the verifier records.                                   *)
MessageKinds == {"message", "activity", "reasoning"}
OwnersType == owners \in [Kinds -> [Ids -> Tags \cup {Unowned}]]

(* Only within a run is anything on record.                                *)
Flags ==
  /\ ~firstEventReceived => ~runStarted
  /\ firstEventReceived => runStarted \/ runError
  /\ ~runStarted => owners = NoOwners

(* What a step may do to the owners of messages: write one, write one that *)
(* is not on record, or none.                                              *)
Written(w, v, kind, id, tag) ==
  /\ kind \in MessageKinds /\ id \in Ids /\ v[kind][id] = tag
  /\ \A k \in MessageKinds, d \in Ids : k # kind \/ d # id => v[k][d] = w[k][d]
Recorded(w, v, kind, id, tag) ==
  Written(w, v, kind, id, IF w[kind][id] = Unowned THEN tag ELSE w[kind][id])
Unwritten(w, v) == \A k \in MessageKinds : v[k] = w[k]

LEMMA UpdateWrites ==
  ASSUME OwnersType, NEW kind \in Kinds, NEW id \in Ids, NEW tag \in Tags \cup {Unowned},
         NEW v, v = [owners EXCEPT ![kind][id] = tag]
  PROVE  /\ v \in [Kinds -> [Ids -> Tags \cup {Unowned}]]
         /\ kind \in MessageKinds => Written(owners, v, kind, id, tag)
         /\ kind = "toolCall" => Unwritten(owners, v)
<1>1. v \in [Kinds -> [Ids -> Tags \cup {Unowned}]]
  BY DEF OwnersType
<1>2. v[kind][id] = tag
  BY DEF OwnersType
<1>3. \A k \in Kinds, d \in Ids : k # kind \/ d # id => v[k][d] = owners[k][d]
  BY DEF OwnersType
<1>4. \A k \in Kinds : k # kind => v[k] = owners[k]
  BY DEF OwnersType
<1>5. MessageKinds \subseteq Kinds /\ "toolCall" \notin MessageKinds
  BY DEF MessageKinds, Kinds
<1> QED
  BY <1>1, <1>2, <1>3, <1>4, <1>5 DEF Written, Unwritten

LEMMA ClaimRecords ==
  ASSUME OwnersType, NEW kind \in Kinds, NEW id \in Ids, NEW tag \in Tags \cup {Unowned},
         NEW v, v = Claim(kind, id, tag)
  PROVE  /\ v \in [Kinds -> [Ids -> Tags \cup {Unowned}]]
         /\ kind \in MessageKinds => Recorded(owners, v, kind, id, tag)
         /\ kind = "toolCall" => Unwritten(owners, v)
<1>1. CASE owners[kind][id] = Unowned
  BY <1>1, UpdateWrites DEF Claim, Recorded
<1>2. CASE owners[kind][id] # Unowned
  BY <1>2 DEF Claim, Recorded, Written, Unwritten, OwnersType
<1> QED
  BY <1>1, <1>2

LEMMA SeedTyped ==
  ASSUME NEW w \in [Kinds -> [Ids -> Tags \cup {Unowned}]], NEW h \in Seq(Message),
         NoNullTags(h), NEW a \in BOOLEAN
  PROVE  SeedOwners(w, h, a) \in [Kinds -> [Ids -> Tags \cup {Unowned}]]
<1>1. SUFFICES ASSUME NEW k \in Kinds, NEW id \in Ids
               PROVE  SeedOwners(w, h, a)[k][id] \in Tags \cup {Unowned}
  BY DEF SeedOwners
<1> DEFINE I == Claimants(h, k, id)
           n == IF a THEN Latest(I) ELSE Earliest(I)
<1>2. SeedOwners(w, h, a)[k][id] =
        IF I = {} \/ (~a /\ w[k][id] # Unowned) THEN w[k][id] ELSE h[n].subagentRunId
  BY DEF SeedOwners
<1>3. ASSUME I # {} PROVE n \in DOMAIN h
  <2>1. I \subseteq DOMAIN h /\ DOMAIN h \subseteq 1..Len(h) /\ Len(h) \in Nat
    BY DEF Claimants
  <2>2. I \subseteq 1..Len(h) /\ I \subseteq Nat
    BY <2>1
  <2> HIDE DEF I
  <2>3. PICK i \in I : \A j \in I : i <= j
    BY <1>3, <2>2, LeastExists
  <2>4. PICK m \in I : \A j \in I : m >= j
    BY <1>3, <2>1, <2>2, GreatestExists
  <2>5. Earliest(I) \in I
    BY <2>3 DEF Earliest
  <2>6. Latest(I) \in I
    BY <2>4 DEF Latest
  <2> QED
    BY <2>1, <2>5, <2>6
<1>4. \A i \in DOMAIN h : h[i].subagentRunId \in Tags
  BY DEF Message, NoNullTags, WireTags
<1> HIDE DEF n, I
<1> QED
  BY <1>2, <1>3, <1>4

Claiming ==
  {"TEXT_MESSAGE_START", "REASONING_START", "REASONING_MESSAGE_START", "ACTIVITY_SNAPSHOT",
   "TOOL_CALL_RESULT", "RUN_STARTED", "MESSAGES_SNAPSHOT"}

LEMMA OwnersOnAccept ==
  ASSUME NEW e, Accept(e)
  PROVE  /\ e.type = "TEXT_MESSAGE_START" => owners' = Claim("message", e.messageId, Tag(e))
         /\ e.type \in {"REASONING_START", "REASONING_MESSAGE_START"} =>
              owners' = Claim("reasoning", e.messageId, Tag(e))
         /\ e.type = "ACTIVITY_SNAPSHOT" =>
              owners' = IF e.replace THEN [owners EXCEPT !["activity"][e.messageId] = Tag(e)]
                        ELSE Claim("activity", e.messageId, Tag(e))
         /\ e.type = "TOOL_CALL_RESULT" =>
              owners' = [owners EXCEPT !["message"][e.messageId] = Tag(e)]
         /\ e.type = "TOOL_CALL_START" =>
              owners' = Claim("toolCall", e.toolCallId,
                          IF Tag(e) = Absent /\ Inherited(e) # Unowned
                            THEN Inherited(e) ELSE Tag(e))
         /\ e.type = "MESSAGES_SNAPSHOT" => owners' = SeedOwners(owners, e.messages, TRUE)
         /\ e.type = "RUN_STARTED" => RunStarted(e)
         /\ e.type \notin Claiming \cup {"TOOL_CALL_START"} => owners' = owners
<1> USE DEF Claiming
<1>1. CASE TextMessageStart(e)
  BY <1>1 DEF TextMessageStart
<1>2. CASE TextMessageEnd(e)
  BY <1>2 DEF TextMessageEnd
<1>3. CASE ToolCallStart(e)
  BY <1>3 DEF ToolCallStart
<1>4. CASE ToolCallEnd(e)
  BY <1>4 DEF ToolCallEnd
<1>5. CASE ToolCallResult(e)
  BY <1>5 DEF ToolCallResult
<1>6. CASE StepStarted(e)
  BY <1>6 DEF StepStarted
<1>7. CASE StepFinished(e)
  BY <1>7 DEF StepFinished
<1>8. CASE ActivitySnapshot(e)
  BY <1>8 DEF ActivitySnapshot
<1>9. CASE ReasoningStart(e)
  BY <1>9 DEF ReasoningStart
<1>10. CASE ReasoningEnd(e)
  BY <1>10 DEF ReasoningEnd
<1>11. CASE PassThrough(e)
  BY <1>11 DEF PassThrough
<1>12. CASE SubagentStarted(e)
  BY <1>12 DEF SubagentStarted
<1>13. CASE SubagentClosed(e)
  BY <1>13 DEF SubagentClosed
<1>14. CASE MessagesSnapshot(e)
  BY <1>14 DEF MessagesSnapshot
<1>15. CASE RunStarted(e)
  <2>1. e.type = "RUN_STARTED"
    BY <1>15 DEF RunStarted
  <2> QED
    BY <1>15, <2>1
<1>16. CASE RunFinished(e)
  BY <1>16 DEF RunFinished
<1>17. CASE RunError(e)
  BY <1>17 DEF RunError
<1> QED
  BY <1>1, <1>2, <1>3, <1>4, <1>5, <1>6, <1>7, <1>8, <1>9, <1>10, <1>11, <1>12, <1>13, <1>14,
     <1>15, <1>16, <1>17 DEF Accept

LEMMA FlagsOnAccept ==
  ASSUME NEW e, Accept(e)
  PROVE  /\ RunAllows(e) /\ CaseAllows(e) /\ firstEventReceived'
         /\ e.type \notin {"RUN_STARTED", "RUN_ERROR"} => runStarted' = runStarted
         /\ e.type = "RUN_STARTED" => runStarted'
         /\ e.type = "RUN_ERROR" => runError' /\ runStarted' = runStarted
<1>1. Accepted(e)
  BY DEF Accept, TextMessageStart, TextMessageEnd, ToolCallStart, ToolCallEnd, ToolCallResult,
         StepStarted, StepFinished, ActivitySnapshot, ReasoningStart, ReasoningEnd, PassThrough,
         SubagentStarted, SubagentClosed, MessagesSnapshot, RunStarted, RunFinished, RunError
<1>2. /\ e.type = "RUN_STARTED" => runStarted'
      /\ e.type = "RUN_ERROR" => runError' /\ runStarted' = runStarted
      /\ e.type \notin {"RUN_STARTED", "RUN_ERROR"} => runStarted' = runStarted
  BY DEF Accept, TextMessageStart, TextMessageEnd, ToolCallStart, ToolCallEnd, ToolCallResult,
         StepStarted, StepFinished, ActivitySnapshot, ReasoningStart, ReasoningEnd, PassThrough,
         SubagentStarted, SubagentClosed, MessagesSnapshot, RunStarted, RunFinished, RunError,
         runVars
<1> QED
  BY <1>1, <1>2 DEF Accepted, Accepts

LEMMA OwnersChange ==
  ASSUME OwnersType, Flags, NEW e \in Sent, Accept(e)
  PROVE  /\ OwnersType' /\ Flags'
         /\ e.type = "TEXT_MESSAGE_START" =>
              Recorded(owners, owners', "message", e.messageId, OwnerOf(e))
         /\ e.type \in {"REASONING_START", "REASONING_MESSAGE_START"} =>
              Recorded(owners, owners', "reasoning", e.messageId, OwnerOf(e))
         /\ e.type = "ACTIVITY_SNAPSHOT" =>
              IF e.replace THEN Written(owners, owners', "activity", e.messageId, OwnerOf(e))
              ELSE Recorded(owners, owners', "activity", e.messageId, OwnerOf(e))
         /\ e.type = "TOOL_CALL_RESULT" =>
              Written(owners, owners', "message", e.messageId, OwnerOf(e))
         /\ e.type = "MESSAGES_SNAPSHOT" =>
              NoNullTags(e.messages) /\ owners' = SeedOwners(owners, e.messages, TRUE)
         /\ e.type = "RUN_STARTED" =>
              NoNullTags(e.messages) /\ owners' = SeedOwners(NoOwners, e.messages, FALSE)
         /\ e.type \notin Claiming => Unwritten(owners, owners')
<1>0. HasShape(e) /\ Tag(e) = OwnerOf(e) /\ (e.subagentRunId \in WireTags => Tag(e) \in Tags)
  BY EventFacts DEF Tag, OwnerOf
<1>1. ASSUME e.type \in {"TEXT_MESSAGE_START", "REASONING_START", "REASONING_MESSAGE_START",
                         "ACTIVITY_SNAPSHOT", "TOOL_CALL_RESULT"}
      PROVE  e.messageId \in Ids /\ OwnerOf(e) \in Tags \cup {Unowned}
  BY <1>0, <1>1 DEF HasShape, MessageTypes, TextTypes, ReasoningTypes
<1>2. "message" \in Kinds /\ "activity" \in Kinds /\ "reasoning" \in Kinds /\ "toolCall" \in Kinds
      /\ "message" \in MessageKinds /\ "activity" \in MessageKinds /\ "reasoning" \in MessageKinds
  BY DEF Kinds, MessageKinds
<1>3. CASE e.type = "TEXT_MESSAGE_START"
  <2>1. OwnersType' /\ Recorded(owners, owners', "message", e.messageId, OwnerOf(e))
    <3>1. owners' = Claim("message", e.messageId, OwnerOf(e))
      BY <1>0, <1>3, OwnersOnAccept
    <3>2. e.messageId \in Ids /\ OwnerOf(e) \in Tags \cup {Unowned}
      BY <1>1, <1>3
    <3> QED
      BY <1>2, <3>1, <3>2, ClaimRecords DEF OwnersType
  <2>2. Flags'
    BY <1>3, FlagsOnAccept DEF Flags, RunAllows
  <2> QED
    BY <1>3, <2>1, <2>2 DEF Claiming
<1>4. CASE e.type \in {"REASONING_START", "REASONING_MESSAGE_START"}
  <2>1. OwnersType' /\ Recorded(owners, owners', "reasoning", e.messageId, OwnerOf(e))
    <3>1. owners' = Claim("reasoning", e.messageId, OwnerOf(e))
      BY <1>0, <1>4, OwnersOnAccept
    <3>2. e.messageId \in Ids /\ OwnerOf(e) \in Tags \cup {Unowned}
      BY <1>1, <1>4
    <3> QED
      BY <1>2, <3>1, <3>2, ClaimRecords DEF OwnersType
  <2>2. Flags'
    BY <1>4, FlagsOnAccept DEF Flags, RunAllows
  <2> QED
    BY <1>4, <2>1, <2>2 DEF Claiming
<1>5. CASE e.type = "ACTIVITY_SNAPSHOT"
  <2>0. e.messageId \in Ids /\ OwnerOf(e) \in Tags \cup {Unowned}
    BY <1>1, <1>5
  <2>3. Flags'
    BY <1>5, FlagsOnAccept DEF Flags, RunAllows
  <2>1. CASE e.replace
    <3>1. owners' = [owners EXCEPT !["activity"][e.messageId] = OwnerOf(e)]
      BY <1>0, <1>5, <2>1, OwnersOnAccept
    <3>2. OwnersType' /\ Written(owners, owners', "activity", e.messageId, OwnerOf(e))
      BY <1>2, <2>0, <3>1, UpdateWrites DEF OwnersType
    <3> QED
      BY <1>5, <2>1, <2>3, <3>2 DEF Claiming
  <2>2. CASE ~e.replace
    <3>1. owners' = Claim("activity", e.messageId, OwnerOf(e))
      BY <1>0, <1>5, <2>2, OwnersOnAccept
    <3>2. OwnersType' /\ Recorded(owners, owners', "activity", e.messageId, OwnerOf(e))
      BY <1>2, <2>0, <3>1, ClaimRecords DEF OwnersType
    <3> QED
      BY <1>5, <2>2, <2>3, <3>2 DEF Claiming
  <2> QED
    BY <2>1, <2>2
<1>6. CASE e.type = "TOOL_CALL_RESULT"
  <2>1. OwnersType' /\ Written(owners, owners', "message", e.messageId, OwnerOf(e))
    <3>1. owners' = [owners EXCEPT !["message"][e.messageId] = OwnerOf(e)]
      BY <1>0, <1>6, OwnersOnAccept
    <3>2. e.messageId \in Ids /\ OwnerOf(e) \in Tags \cup {Unowned}
      BY <1>1, <1>6
    <3> QED
      BY <1>2, <3>1, <3>2, UpdateWrites DEF OwnersType
  <2>2. Flags'
    BY <1>6, FlagsOnAccept DEF Flags, RunAllows
  <2> QED
    BY <1>6, <2>1, <2>2 DEF Claiming
<1>7. CASE e.type = "TOOL_CALL_START"
  <2>1. e.toolCallId \in Ids /\ Tag(e) \in Tags /\ e.parentMessageId \in Ids \cup {Absent}
    BY <1>0, <1>7 DEF HasShape, ToolCallTypes
  <2>2. Inherited(e) \in Tags \cup {Unowned}
    BY <1>2, <2>1 DEF Inherited, OwnersType
  <2>3. OwnersType' /\ Unwritten(owners, owners')
    <3>1. PICK tag \in Tags \cup {Unowned} : owners' = Claim("toolCall", e.toolCallId, tag)
      BY <1>7, <2>1, <2>2, OwnersOnAccept
    <3> QED
      BY <1>2, <2>1, <3>1, ClaimRecords DEF OwnersType
  <2>4. Flags'
    BY <1>7, FlagsOnAccept DEF Flags, RunAllows
  <2> QED
    BY <1>7, <2>3, <2>4 DEF Claiming
<1>8. CASE e.type = "MESSAGES_SNAPSHOT"
  <2>1. e.messages \in Seq(Message) /\ NoNullTags(e.messages)
    BY <1>0, <1>8, FlagsOnAccept DEF HasShape, CaseAllows
  <2>2. owners' = SeedOwners(owners, e.messages, TRUE)
    BY <1>8, OwnersOnAccept
  <2>3. OwnersType'
    BY <2>1, <2>2, SeedTyped DEF OwnersType
  <2>4. Flags'
    BY <1>8, FlagsOnAccept DEF Flags, RunAllows
  <2> QED
    BY <1>8, <2>1, <2>2, <2>3, <2>4 DEF Claiming
<1>9. CASE e.type = "RUN_STARTED"
  <2>1. e.messages \in Seq(Message) /\ NoNullTags(e.messages)
    BY <1>0, <1>9, FlagsOnAccept DEF HasShape, CaseAllows
  <2>2. owners' = SeedOwners(NoOwners, e.messages, FALSE)
    <3>1. RunStarted(e) /\ RunAllows(e)
      BY <1>9, OwnersOnAccept, FlagsOnAccept
    <3>2. CASE firstEventReceived /\ (runFinished \/ runError)
      BY <3>1, <3>2 DEF RunStarted
    <3>3. CASE ~(firstEventReceived /\ (runFinished \/ runError))
      <4>1. owners = NoOwners
        BY <1>9, <3>1, <3>3 DEF Flags, RunAllows
      <4> QED
        BY <3>1, <3>3, <4>1 DEF RunStarted
    <3> QED
      BY <3>2, <3>3
  <2>3. NoOwners \in [Kinds -> [Ids -> Tags \cup {Unowned}]]
    BY DEF NoOwners
  <2>4. OwnersType'
    BY <2>1, <2>2, <2>3, SeedTyped DEF OwnersType
  <2>5. Flags'
    BY <1>9, FlagsOnAccept DEF Flags
  <2> QED
    BY <1>9, <2>1, <2>2, <2>4, <2>5 DEF Claiming
<1>10. CASE e.type \notin Claiming \cup {"TOOL_CALL_START"}
  <2>1. owners' = owners
    BY <1>10, OwnersOnAccept
  <2>2. OwnersType' /\ Unwritten(owners, owners')
    BY <2>1 DEF OwnersType, Unwritten
  <2>3. Flags'
    BY <1>10, <2>1, FlagsOnAccept DEF Flags, RunAllows, Claiming
  <2> QED
    BY <1>10, <2>2, <2>3 DEF Claiming
<1> QED
  BY <1>3, <1>4, <1>5, <1>6, <1>7, <1>8, <1>9, <1>10 DEF Claiming

-----------------------------------------------------------------------------
(* OwnersAgree, as a relation of the list, the suppressed ids and the      *)
(* owners on record.                                                       *)
Constrained(s, X, i) ==
  /\ s[i].by \in {"opener", "history"} /\ s[i].id \notin X
  /\ s[i].role = "tool" => \A j \in DOMAIN s \ {i} : s[j].id # s[i].id
Agreed(m, w, R) ==
  \/ w[KindOfMessage(m)][m.id] = m.owner
  \/ m.role = "reasoning" /\ m.owner = Absent /\ Spanned(R, m.id, w[KindOfMessage(m)][m.id])
Agree(s, X, w, R) == \A i \in DOMAIN s : Constrained(s, X, i) => Agreed(s[i], w, R)

(* Behind every owner on record there is a message, or the REASONING_START *)
(* of one to come.  Without this an opener might add a message whose id    *)
(* has another owner on record already.                                    *)
Backed(s, X, w, R) ==
  \A k \in MessageKinds, id \in Ids :
    id \notin X /\ w[k][id] # Unowned =>
      id \in MessageIds(s) \/ (k = "reasoning" /\ Spanned(R, id, w[k][id]))

LEMMA ElementKind ==
  ASSUME NEW s \in Lists, NEW i \in DOMAIN s
  PROVE  /\ KindOfMessage(s[i]) \in MessageKinds /\ s[i].id \in Ids
         /\ s[i].owner \in Tags /\ s[i].owner # Unowned
<1>1. s[i] \in MessageRecord
  BY ElementTyped
<1> QED
  BY <1>1, UnownedIsNoTag DEF MessageRecord, KindOfMessage, MessageKinds, WireTags

LEMMA BackedKept ==
  ASSUME NEW s, NEW t, NEW X, NEW Y, NEW w, NEW v, NEW R, Backed(s, X, w, R), X \subseteq Y,
         MessageIds(s) \ MessageIds(t) \subseteq Y,
         \A k \in MessageKinds, id \in Ids :
           id \notin Y => \/ v[k][id] = w[k][id] \/ id \in MessageIds(t)
                          \/ k = "reasoning" /\ Spanned(R, id, v[k][id])
  PROVE  Backed(t, Y, v, R)
  BY DEF Backed

LEMMA AgreedKept ==
  ASSUME NEW m, NEW n, n.id = m.id, n.role = m.role, n.owner = m.owner, NEW w, NEW v, NEW R,
         Agreed(m, w, R), v[KindOfMessage(m)][m.id] = w[KindOfMessage(m)][m.id]
  PROVE  Agreed(n, v, R)
<1>1. KindOfMessage(n) = KindOfMessage(m)
  BY DEF KindOfMessage
<1> QED
  BY <1>1 DEF Agreed

LEMMA AgreedIsOwned ==
  ASSUME NEW R \in Repertoires, NEW s \in Lists, NEW i \in DOMAIN s, NEW w, Agreed(s[i], w, R)
  PROVE  w[KindOfMessage(s[i])][s[i].id] # Unowned
<1>1. ASSUME NEW f \in R, f.type = "REASONING_START" PROVE OwnerOf(f) # Unowned
  <2>1. f \in Sent
    BY DEF Sent
  <2>2. OwnerOf(f) \in Tags
    BY <1>1, <2>1, EventFacts DEF HasShape, MessageTypes, ReasoningTypes
  <2> QED
    BY <2>2, UnownedIsNoTag DEF WireTags
<1> QED
  BY <1>1, ElementKind DEF Agreed, Spanned

(* An event that a subscriber stops.                                       *)
LEMMA AgreeWhenStopped ==
  ASSUME NEW s \in Lists, NEW X, NEW Y, X \subseteq Y, NEW w, NEW v, NEW R,
         Agree(s, X, w, R), Backed(s, X, w, R),
         \A k \in MessageKinds, id \in Ids : id \notin Y => v[k][id] = w[k][id]
  PROVE  Agree(s, Y, v, R) /\ Backed(s, Y, v, R)
<1>1. Backed(s, Y, v, R)
  BY BackedKept
<1>2. ASSUME NEW i \in DOMAIN s, Constrained(s, Y, i)
      PROVE  Agreed(s[i], v, R)
  <2>1. Constrained(s, X, i) /\ s[i].id \notin Y
    BY <1>2 DEF Constrained
  <2>2. Agreed(s[i], w, R) /\ v[KindOfMessage(s[i])][s[i].id] = w[KindOfMessage(s[i])][s[i].id]
    BY <2>1, ElementKind DEF Agree
  <2> QED
    BY <2>2, AgreedKept
<1> QED
  BY <1>1, <1>2 DEF Agree

LEMMA OpenerLeavesAMessage ==
  ASSUME NEW R \in Repertoires, IdsAreUnique(R), NEW s \in Lists, Rooted(s, R), NEW e \in R,
         e.type \in {"TEXT_MESSAGE_START", "REASONING_MESSAGE_START", "ACTIVITY_SNAPSHOT",
                     "TOOL_CALL_RESULT"},
         NEW t, t = WithEffect(s, s, e)
  PROVE  e.messageId \in MessageIds(t)
<1>0. e \in Sent
  BY DEF Sent
<1>1. CASE IsQuiet(s, t, e)
  <2>1. CASE \E i \in DOMAIN s : s[i].id = e.messageId
    BY <1>1, <2>1 DEF IsQuiet, Touched, Same, MessageIds
  <2>2. CASE \A i \in DOMAIN s : s[i].id # e.messageId
    <3>1. Find(s, e.messageId) = 0
      <4>1. IsFirst(Find(s, e.messageId), s, {i \in DOMAIN s : s[i].id = e.messageId})
        BY FindIsFirst
      <4> QED
        BY <2>2, <4>1 DEF IsFirst
    <3>2. PICK m \in MessageRecord : t = Append(s, m)
      <4>1. CASE e.type = "ACTIVITY_SNAPSHOT"
        <5>1. t = ApplyActivitySnapshot(s, s, e)
          BY <4>1, OpenerEffect
        <5>2. t = Append(s, ActivityOf(e))
          BY <3>1, <5>1 DEF ApplyActivitySnapshot, ActivityOf
        <5> QED
          BY <1>0, <4>1, <5>2, ActivityFacts
      <4>2. ASSUME e.type \in {"TEXT_MESSAGE_START", "REASONING_MESSAGE_START"},
                   NEW role \in Roles, t = OpenMessage(s, e, role)
            PROVE  \E n \in MessageRecord : t = Append(s, n)
        <5>1. t = Append(s, NewMessage(e.messageId, role, OwnerOf(e), e.meta, "opener"))
          BY <3>1, <4>2 DEF OpenMessage
        <5>2. e.type \in MessageTypes
          BY <4>2 DEF MessageTypes, TextTypes, ReasoningTypes
        <5> QED
          BY <1>0, <4>2, <5>1, <5>2, OpenedMessageFacts
      <4> QED
        BY <1>1, <4>1, <4>2, OpenerEffect DEF IsQuiet, Roles
    <3>3. DOMAIN t = 1..Len(s) + 1 /\ DOMAIN s = 1..Len(s) /\ Len(s) \in Nat
      <4>1. t \in Lists /\ Len(t) = Len(s) + 1
        BY <3>2, AppendInserts DEF Inserted
      <4> QED
        BY <4>1 DEF Lists
    <3>4. Len(s) + 1 \in DOMAIN t /\ Len(s) + 1 \notin DOMAIN s
      BY <3>3
    <3> QED
      BY <1>1, <3>4 DEF IsQuiet, Touched
  <2> QED
    BY <2>1, <2>2
<1>2. CASE IsOpened(s, t, e)
  <2>1. PICK m, p : Inserted(s, t, p, m) /\ Sig(m) = <<e.messageId, OpenedRole(e), Absent>>
    BY <1>2 DEF IsOpened
  <2>2. p \in DOMAIN t /\ t[p].id = e.messageId
    BY <2>1, InsertedFacts DEF Sig
  <2> QED
    BY <2>2 DEF MessageIds
<1>3. CASE IsResultAdded(s, t, e)
  <2>1. PICK p : Inserted(s, t, p, ResultOf(e))
    BY <1>3 DEF IsResultAdded
  <2>2. p \in DOMAIN t /\ t[p].id = e.messageId
    BY <1>0, <1>3, <2>1, InsertedFacts, ResultFacts DEF IsResultAdded
  <2> QED
    BY <2>2 DEF MessageIds
<1>4. CASE IsReowned(s, t, e)
  <2>1. PICK i \in DOMAIN s : s[i].id = e.messageId /\ Overwritten(s, t, i, Reowned(s[i], e))
    BY <1>4 DEF IsReowned
  <2>2. Reowned(s[i], e).id = e.messageId
    BY <1>0, <1>4, <2>1, ElementTyped, ReownedFacts DEF IsReowned
  <2>3. i \in DOMAIN t /\ t[i].id = e.messageId
    BY <2>1, <2>2 DEF Overwritten, Same
  <2> QED
    BY <2>3 DEF MessageIds
<1> QED
  BY <1>1, <1>2, <1>3, <1>4, Effects DEF IsCallAdded, IsCallerAdded

LEMMA AgreeInPlace ==
  ASSUME NEW R \in Repertoires, NEW s \in Lists, NEW t \in Lists, DOMAIN t = DOMAIN s, NEW X, NEW Y, X \subseteq Y,
         \A i \in DOMAIN s : /\ t[i].id = s[i].id /\ t[i].role = s[i].role
                             /\ t[i].by = s[i].by /\ t[i].owner = s[i].owner,
         NEW w, NEW v, Agree(s, X, w, R),
         \A k \in MessageKinds, id \in Ids : w[k][id] # Unowned => v[k][id] = w[k][id]
  PROVE  Agree(t, Y, v, R)
<1> SUFFICES ASSUME NEW i \in DOMAIN s, Constrained(t, Y, i)
             PROVE  Agreed(t[i], v, R)
  BY DEF Agree
<1>1. Constrained(s, X, i)
  BY DEF Constrained
<1>2. Agreed(s[i], w, R)
  BY <1>1 DEF Agree
<1>3. v[KindOfMessage(s[i])][s[i].id] = w[KindOfMessage(s[i])][s[i].id]
  BY <1>2, ElementKind, AgreedIsOwned
<1> QED
  BY <1>2, <1>3, AgreedKept

LEMMA AgreeInserted ==
  ASSUME NEW s \in Lists, NEW t, NEW p, NEW m, Inserted(s, t, p, m), NEW X, NEW Y, X \subseteq Y,
         NEW w, NEW v, NEW R, Agree(s, X, w, R),
         m.by = "call" \/ m.id \in Y \/ Agreed(m, v, R),
         \A i \in DOMAIN s :
           Constrained(s, X, i) /\ s[i].id \notin Y /\ (s[i].role = "tool" => s[i].id # m.id)
             => v[KindOfMessage(s[i])][s[i].id] = w[KindOfMessage(s[i])][s[i].id]
  PROVE  Agree(t, Y, v, R)
<1>1. /\ t \in Lists /\ p \in DOMAIN t /\ t[p] = m
      /\ \A k \in DOMAIN s : Shift(p, k) \in DOMAIN t /\ t[Shift(p, k)] = s[k] /\ Shift(p, k) # p
      /\ \A a \in DOMAIN t : a = p \/ \E k \in DOMAIN s : a = Shift(p, k)
      /\ \A k, l \in DOMAIN s : Shift(p, k) = Shift(p, l) => k = l
  BY InsertedFacts
<1> SUFFICES ASSUME NEW a \in DOMAIN t, Constrained(t, Y, a)
             PROVE  Agreed(t[a], v, R)
  BY DEF Agree
<1>2. CASE a = p
  BY <1>1, <1>2 DEF Constrained
<1>3. CASE a # p
  <2>1. PICK i \in DOMAIN s : a = Shift(p, i) /\ t[a] = s[i]
    BY <1>1, <1>3
  <2>2. s[i].role = "tool" => s[i].id # m.id
    BY <1>1, <1>3, <2>1 DEF Constrained
  <2>3. ASSUME s[i].role = "tool", NEW j \in DOMAIN s \ {i} PROVE s[j].id # s[i].id
    <3>1. Shift(p, j) \in DOMAIN t \ {a} /\ t[Shift(p, j)] = s[j]
      BY <1>1, <2>1
    <3> QED
      BY <2>1, <2>3, <3>1 DEF Constrained
  <2>4. Constrained(s, X, i) /\ s[i].id \notin Y
    BY <2>1, <2>3 DEF Constrained
  <2>5. Agreed(s[i], w, R)
    BY <2>4 DEF Agree
  <2>6. v[KindOfMessage(s[i])][s[i].id] = w[KindOfMessage(s[i])][s[i].id]
    BY <2>2, <2>4
  <2> QED
    BY <2>1, <2>5, <2>6, AgreedKept
<1> QED
  BY <1>2, <1>3

LEMMA RecordedKeeps ==
  ASSUME NEW w, NEW v, NEW tag,
         Unwritten(w, v) \/ \E kind \in MessageKinds, id \in Ids : Recorded(w, v, kind, id, tag)
  PROVE  \A k \in MessageKinds, id \in Ids : w[k][id] # Unowned => v[k][id] = w[k][id]
<1>1. CASE Unwritten(w, v)
  BY <1>1 DEF Unwritten
<1>2. ASSUME NEW kind \in MessageKinds, NEW id \in Ids, Recorded(w, v, kind, id, tag)
      PROVE  \A k \in MessageKinds, d \in Ids : w[k][d] # Unowned => v[k][d] = w[k][d]
  BY <1>2 DEF Recorded, Written
<1> QED
  BY <1>1, <1>2

(* The second opener of a reasoning id has no tag or the owner's.          *)
LEMMA ReasoningOpenerAgrees ==
  ASSUME NEW e, Accept(e), e.type = "REASONING_MESSAGE_START"
  PROVE  TagAgrees(OwnerOf(e), owners["reasoning"][e.messageId])
<1>1. CaseAllows(e)
  BY FlagsOnAccept
<1>2. MayOpenReasoning(e)
  BY <1>1 DEF CaseAllows
<1> QED
  BY <1>2 DEF MayOpenReasoning, Tag, OwnerOf

LEMMA EffectKeepsOwners ==
  ASSUME NEW R \in Repertoires, IdsAreUnique(R), NEW s \in Lists, Rooted(s, R),
         SingleActivities(s), NEW e \in R, e.type \notin {"RUN_STARTED", "MESSAGES_SNAPSHOT"},
         NEW t, t = WithEffect(s, s, e), OwnersType, Flags, Accept(e),
         NEW X, NEW Y, X \subseteq Y, Agree(s, X, owners, R), Backed(s, X, owners, R)
  PROVE  Agree(t, Y, owners', R)
<1>0. e \in Sent
  BY DEF Sent
<1> DEFINE w == owners
           v == owners'
           id == e.messageId
<1>1. CASE IsQuiet(s, t, e)
  <2>1. \/ Unwritten(w, v)
        \/ \E kind \in MessageKinds, d \in Ids : Recorded(w, v, kind, d, OwnerOf(e))
    <3>1. e.type \in {"TEXT_MESSAGE_START", "REASONING_START", "REASONING_MESSAGE_START",
                      "ACTIVITY_SNAPSHOT"}
            => \E kind \in MessageKinds, d \in Ids : Recorded(w, v, kind, d, OwnerOf(e))
      BY <1>0, <1>1, OwnersChange DEF IsQuiet, Recorded, Written
    <3> QED
      BY <1>0, <1>1, <3>1, OwnersChange DEF IsQuiet, Claiming
  <2>2. \A k \in MessageKinds, d \in Ids : w[k][d] # Unowned => v[k][d] = w[k][d]
    BY <2>1, RecordedKeeps
  <2>3. /\ t \in Lists /\ DOMAIN t = DOMAIN s
        /\ \A i \in DOMAIN s : /\ t[i].id = s[i].id /\ t[i].role = s[i].role
                               /\ t[i].by = s[i].by /\ t[i].owner = s[i].owner
    BY <1>1 DEF IsQuiet, Touched, Same
  <2> QED
    BY <2>2, <2>3, AgreeInPlace
<1>2. CASE IsOpened(s, t, e)
  <2>1. PICK m \in MessageRecord :
          /\ Inserted(s, t, Len(s) + 1, m) /\ Sig(m) = <<e.messageId, OpenedRole(e), Absent>>
          /\ m.owner = OwnerOf(e)
    BY <1>2 DEF IsOpened
  <2>2. m.id = id /\ m.role = OpenedRole(e)
    BY <2>1 DEF Sig
  <2> DEFINE kind == KindOfMessage(m)
  <2>3. \/ Written(w, v, kind, id, OwnerOf(e))
        \/ Recorded(w, v, kind, id, OwnerOf(e))
    BY <1>0, <1>2, <2>2, OwnersChange DEF IsOpened, OpenedRole, KindOfMessage
  <2>4. \A i \in DOMAIN s : s[i].id # id
    BY <1>2 DEF IsOpened
  <2>5. kind \in MessageKinds /\ id \in Ids
    BY <2>3 DEF Written, Recorded
  <2>6. kind = "reasoning" => e.type = "REASONING_MESSAGE_START"
    BY <1>2, <2>2 DEF KindOfMessage, IsOpened, OpenedRole
  <2>10. kind = "reasoning" => m.role = "reasoning"
    BY DEF KindOfMessage
  <2> HIDE DEF kind
  <2>7. \/ id \in Y
        \/ v[kind][id] = m.owner
        \/ m.role = "reasoning" /\ m.owner = Absent /\ Spanned(R, id, v[kind][id])
    <3>1. CASE v[kind][id] = OwnerOf(e)
      BY <2>1, <3>1
    <3>2. CASE v[kind][id] # OwnerOf(e) /\ id \notin Y
      <4>1. w[kind][id] # Unowned /\ v[kind][id] = w[kind][id]
        BY <2>3, <3>2 DEF Recorded, Written
      <4>2. id \notin MessageIds(s)
        BY <2>4 DEF MessageIds
      <4>3. kind = "reasoning" /\ Spanned(R, id, w[kind][id])
        BY <2>5, <3>2, <4>1, <4>2 DEF Backed
      <4>4. TagAgrees(OwnerOf(e), w[kind][id])
        BY <2>6, <4>3, ReasoningOpenerAgrees
      <4>5. OwnerOf(e) = Absent
        BY <3>2, <4>1, <4>4 DEF TagAgrees
      <4> QED
        BY <2>1, <2>10, <4>1, <4>3, <4>5
    <3> QED
      BY <3>1, <3>2
  <2>8. ASSUME NEW i \in DOMAIN s
        PROVE  v[KindOfMessage(s[i])][s[i].id] = w[KindOfMessage(s[i])][s[i].id]
    BY <2>3, <2>4, ElementKind DEF Recorded, Written
  <2>9. id \in Y \/ Agreed(m, v, R)
    BY <2>2, <2>7 DEF Agreed, kind
  <2> HIDE DEF v, w
  <2> QED
    BY <2>1, <2>2, <2>8, <2>9, AgreeInserted DEF v, w
<1>3. CASE IsCallAdded(s, t, e)
  <2>1. PICK i \in DOMAIN s, c \in CallRecord : CallAdded(s, t, i, c)
    BY <1>3 DEF IsCallAdded
  <2>2. Unwritten(w, v)
    BY <1>0, <1>3, OwnersChange DEF IsCallAdded, Claiming
  <2>3. s[i] \in MessageRecord
    BY ElementTyped
  <2>4. /\ t[i].id = s[i].id /\ t[i].role = s[i].role
        /\ t[i].by = s[i].by /\ t[i].owner = s[i].owner
    BY <2>1, <2>3 DEF CallAdded, WithNewCall, MessageRecord
  <2>5. \A k \in MessageKinds, d \in Ids : w[k][d] # Unowned => v[k][d] = w[k][d]
    BY <2>2, RecordedKeeps
  <2>6. /\ t \in Lists /\ DOMAIN t = DOMAIN s
        /\ \A k \in DOMAIN s : /\ t[k].id = s[k].id /\ t[k].role = s[k].role
                               /\ t[k].by = s[k].by /\ t[k].owner = s[k].owner
    BY <2>1, <2>4 DEF CallAdded
  <2> QED
    BY <2>5, <2>6, AgreeInPlace
<1>4. CASE IsCallerAdded(s, t, e)
  <2>1. PICK m \in MessageRecord : Inserted(s, t, Len(s) + 1, m) /\ m.by = "call"
    BY <1>4 DEF IsCallerAdded
  <2>2. Unwritten(w, v)
    BY <1>0, <1>4, OwnersChange DEF IsCallerAdded, Claiming
  <2>3. ASSUME NEW i \in DOMAIN s
        PROVE  v[KindOfMessage(s[i])][s[i].id] = w[KindOfMessage(s[i])][s[i].id]
    BY <2>2, ElementKind DEF Unwritten
  <2> QED
    BY <2>1, <2>3, AgreeInserted
<1>5. CASE IsResultAdded(s, t, e)
  <2>1. PICK p : Inserted(s, t, p, ResultOf(e))
    BY <1>5 DEF IsResultAdded
  <2> DEFINE m == ResultOf(e)
  <2>2. /\ m.id = id /\ m.role = "tool" /\ m.owner = OwnerOf(e) /\ m.answers = e.toolCallId
    BY <1>0, <1>5, ResultFacts DEF IsResultAdded
  <2>3. Sig(m) \in Minted(e)
    BY <1>5, <2>2, MintedBy DEF IsResultAdded, Sig
  <2>4. Written(w, v, "message", id, OwnerOf(e))
    BY <1>0, <1>5, OwnersChange DEF IsResultAdded
  <2> HIDE DEF m
  <2>5. Agreed(m, v, R)
    BY <2>2, <2>4 DEF Agreed, KindOfMessage, Written
  <2>6. ASSUME NEW i \in DOMAIN s, s[i].role = "tool" => s[i].id # m.id
        PROVE  v[KindOfMessage(s[i])][s[i].id] = w[KindOfMessage(s[i])][s[i].id]
    <3>1. s[i].id # id
      BY <2>2, <2>3, <2>6, SigsAgree DEF Rooted
    <3> QED
      BY <2>4, <3>1, ElementKind DEF Written
  <2> HIDE DEF v, w
  <2> QED
    BY <2>1, <2>5, <2>6, AgreeInserted DEF m, v, w
<1>6. CASE IsReowned(s, t, e)
  <2>1. PICK i \in DOMAIN s : /\ s[i].id = id /\ s[i].role = "activity"
                              /\ Overwritten(s, t, i, Reowned(s[i], e))
    BY <1>6 DEF IsReowned
  <2>2. /\ t[i].id = id /\ t[i].role = "activity" /\ t[i].owner = OwnerOf(e)
    BY <1>0, <1>6, <2>1, ElementTyped, ReownedFacts DEF IsReowned, Overwritten, Same
  <2>3. Written(w, v, "activity", id, OwnerOf(e))
    BY <1>0, <1>6, OwnersChange DEF IsReowned
  <2>4. DOMAIN t = DOMAIN s /\ \A k \in DOMAIN s \ {i} : t[k] = s[k]
    BY <2>1 DEF Overwritten
  <2>5. ASSUME NEW k \in DOMAIN s, Constrained(t, Y, k)
        PROVE  Agreed(t[k], v, R)
    <3>1. CASE k = i
      BY <2>2, <2>3, <3>1 DEF Agreed, KindOfMessage, Written
    <3>2. CASE k # i
      <4>1. t[k] = s[k] /\ s[k].id # id
        BY <2>1, <2>4, <3>2 DEF SingleActivities
      <4>2. s[k].role # "tool" \/ \A j \in DOMAIN s \ {k} : s[j].id # s[k].id
        BY <2>1, <2>2, <2>4, <2>5, <4>1 DEF Constrained
      <4>3. Constrained(s, X, k)
        BY <2>5, <4>1, <4>2 DEF Constrained
      <4>4. Agreed(s[k], w, R)
        BY <4>3 DEF Agree
      <4>5. v[KindOfMessage(s[k])][s[k].id] = w[KindOfMessage(s[k])][s[k].id]
        BY <2>3, <4>1, ElementKind DEF Written
      <4> QED
        BY <4>1, <4>4, <4>5, AgreedKept
    <3> QED
      BY <3>1, <3>2
  <2> QED
    BY <2>4, <2>5 DEF Agree
<1> QED
  BY <1>1, <1>2, <1>3, <1>4, <1>5, <1>6, Effects

LEMMA EffectIsBacked ==
  ASSUME NEW R \in Repertoires, IdsAreUnique(R), NEW s \in Lists, Rooted(s, R),
         NEW e \in R, e.type \notin {"RUN_STARTED", "MESSAGES_SNAPSHOT"},
         NEW t, t = WithEffect(s, s, e), OwnersType, Flags, Accept(e), NEW X, NEW Y, X \subseteq Y,
         MessageIds(s) \ MessageIds(t) \subseteq Y, Backed(s, X, owners, R)
  PROVE  Backed(t, Y, owners', R)
<1>0. e \in Sent
  BY DEF Sent
<1>1. SUFFICES ASSUME NEW k \in MessageKinds, NEW id \in Ids, owners'[k][id] # owners[k][id],
                      id \notin MessageIds(t)
               PROVE  k = "reasoning" /\ Spanned(R, id, owners'[k][id])
  BY BackedKept
<1>2. CASE e.type \in {"TEXT_MESSAGE_START", "REASONING_MESSAGE_START", "ACTIVITY_SNAPSHOT",
                       "TOOL_CALL_RESULT"}
  <2>1. e.messageId \in MessageIds(t)
    BY <1>2, OpenerLeavesAMessage
  <2>2. id # e.messageId
    BY <1>1, <2>1
  <2> QED
    <3>1. \E kind \in MessageKinds : \E tag : Written(owners, owners', kind, e.messageId, tag)
      BY <1>0, <1>2, OwnersChange DEF Recorded, MessageKinds
    <3> QED
      BY <1>1, <2>2, <3>1 DEF Written
<1>3. CASE e.type = "REASONING_START"
  <2>1. Recorded(owners, owners', "reasoning", e.messageId, OwnerOf(e))
    BY <1>0, <1>3, OwnersChange
  <2>2. k = "reasoning" /\ id = e.messageId /\ owners'[k][id] = OwnerOf(e)
    BY <1>1, <2>1 DEF Recorded, Written
  <2> QED
    BY <1>3, <2>2 DEF Spanned
<1>4. CASE e.type \notin Claiming
  BY <1>0, <1>1, <1>4, OwnersChange DEF Unwritten
<1> QED
  BY <1>2, <1>3, <1>4 DEF Claiming

(* What the messages of a list put on record, when their ids differ.       *)
Seeds(h, w, v) ==
  \A k \in MessageKinds, id \in Ids :
    /\ (\A i \in DOMAIN h : h[i].id # id) => v[k][id] = w[k][id]
    /\ \A i \in DOMAIN h :
         h[i].id = id /\ KindOfRole(h[i].role) = k => v[k][id] = OwnerOf(h[i])

LEMMA SeedFacts ==
  ASSUME NEW h \in Seq(Message), NoNullTags(h), \A i, j \in DOMAIN h : h[i].id = h[j].id => i = j
  PROVE  /\ \A w, v : v = SeedOwners(w, h, TRUE) => Seeds(h, w, v)
         /\ \A v : v = SeedOwners(NoOwners, h, FALSE) => Seeds(h, NoOwners, v)
<1> DEFINE I(k, id) == Claimants(h, k, id)
<1>1. ASSUME NEW k \in MessageKinds, NEW id \in Ids, NEW i \in DOMAIN h,
             h[i].id = id, KindOfRole(h[i].role) = k
      PROVE  /\ I(k, id) # {} /\ Latest(I(k, id)) = i /\ Earliest(I(k, id)) = i
             /\ h[i].subagentRunId = OwnerOf(h[i])
  <2>1. I(k, id) = {i}
    BY <1>1 DEF Claimants, MessageKinds
  <2>2. i \in Int
    OBVIOUS
  <2> HIDE DEF I
  <2>3. Latest(I(k, id)) = i
    BY <2>1, <2>2 DEF Latest
  <2>4. Earliest(I(k, id)) = i
    BY <2>1, <2>2 DEF Earliest
  <2> QED
    BY <2>1, <2>3, <2>4 DEF NoNullTags, OwnerOf
<1>2. ASSUME NEW k \in MessageKinds, NEW id \in Ids, \A i \in DOMAIN h : h[i].id # id
      PROVE  I(k, id) = {}
  BY <1>2 DEF Claimants, MessageKinds
<1>3. ASSUME NEW w, NEW v, v = SeedOwners(w, h, TRUE) PROVE Seeds(h, w, v)
  <2>1. ASSUME NEW k \in MessageKinds, NEW id \in Ids PROVE
          v[k][id] = IF I(k, id) = {} THEN w[k][id] ELSE h[Latest(I(k, id))].subagentRunId
    BY <1>3 DEF SeedOwners, MessageKinds, Kinds
  <2> HIDE DEF I
  <2> QED
    BY <1>1, <1>2, <2>1 DEF Seeds
<1>4. ASSUME NEW v, v = SeedOwners(NoOwners, h, FALSE) PROVE Seeds(h, NoOwners, v)
  <2>1. \A k \in MessageKinds, id \in Ids : NoOwners[k][id] = Unowned
    BY DEF NoOwners, MessageKinds, Kinds
  <2>2. ASSUME NEW k \in MessageKinds, NEW id \in Ids PROVE
          v[k][id] = IF I(k, id) = {} THEN NoOwners[k][id] ELSE h[Earliest(I(k, id))].subagentRunId
    BY <1>4, <2>1 DEF SeedOwners, MessageKinds, Kinds
  <2> HIDE DEF I
  <2> QED
    BY <1>1, <1>2, <2>2 DEF Seeds
<1> QED
  BY <1>3, <1>4, Zenon

LEMMA KindOfImported ==
  ASSUME NEW h, WellTyped(h), NEW k \in DOMAIN h
  PROVE  /\ KindOfMessage(Imported(h[k])) = KindOfRole(h[k].role)
         /\ KindOfRole(h[k].role) \in MessageKinds
         /\ Imported(h[k]).id = h[k].id /\ h[k].id \in Ids
         /\ Imported(h[k]).owner = OwnerOf(h[k])
<1>1. h[k] \in Message /\ IsFiniteSet(h[k].toolCalls)
  BY DEF WellTyped
<1>2. /\ Imported(h[k]).role = h[k].role /\ Imported(h[k]).id = h[k].id
      /\ Imported(h[k]).owner = OwnerOf(h[k])
  BY <1>1, ImportedFacts
<1>3. h[k].id \in Ids
  BY <1>1 DEF Message
<1> QED
  BY <1>2, <1>3 DEF KindOfMessage, KindOfRole, MessageKinds

LEMMA SnapshotKeepsOwners ==
  ASSUME NEW R \in Repertoires, IdsAreUnique(R), NEW s \in Lists,
         NEW e \in R, e.type = "MESSAGES_SNAPSHOT",
         NEW t, t = WithEffect(s, s, e), OwnersType, Flags, Accept(e), NEW X, NEW Y, X \subseteq Y,
         MessageIds(s) \ MessageIds(t) \subseteq Y, Agree(s, X, owners, R), Backed(s, X, owners, R)
  PROVE  Agree(t, Y, owners', R) /\ Backed(t, Y, owners', R)
<1>0. e \in Sent
  BY DEF Sent
<1> DEFINE h == e.messages
<1>1. WellTyped(h) /\ h \in Seq(Message) /\ t = MergeSnapshot(s, h)
  BY <1>0, HistoryTyped, OpenerEffect DEF WellTyped
<1>2. NoNullTags(h) /\ owners' = SeedOwners(owners, h, TRUE)
  BY <1>0, OwnersChange
<1>3. \A i, j \in DOMAIN h : h[i].id = h[j].id => i = j
  BY DEF IdsAreUnique
<1>4. Seeds(h, owners, owners')
  BY <1>1, <1>2, <1>3, SeedFacts
<1>8. t \in Lists /\ \A k \in DOMAIN h : \E a \in DOMAIN t : t[a].id = h[k].id
  BY <1>1, SnapshotMerged
<1>5. ASSUME NEW a \in DOMAIN t, Constrained(t, Y, a)
      PROVE  Agreed(t[a], owners', R)
  <2>1. \/ \E k \in DOMAIN h : t[a] = Imported(h[k])
        \/ \E i \in DOMAIN s : /\ t[a] = s[i] /\ s[i].role \in {"activity", "reasoning"}
                               /\ \A k \in DOMAIN h : h[k].id # s[i].id
    BY <1>1, SnapshotMerged
  <2>2. CASE \E k \in DOMAIN h : t[a] = Imported(h[k])
    <3>1. PICK k \in DOMAIN h : t[a] = Imported(h[k])
      BY <2>2
    <3>2. /\ KindOfMessage(t[a]) = KindOfRole(h[k].role) /\ KindOfRole(h[k].role) \in MessageKinds
          /\ t[a].id = h[k].id /\ h[k].id \in Ids /\ t[a].owner = OwnerOf(h[k])
      BY <1>1, <3>1, KindOfImported
    <3> QED
      BY <1>4, <3>2 DEF Seeds, Agreed
  <2>3. ASSUME NEW i \in DOMAIN s, t[a] = s[i], s[i].role \in {"activity", "reasoning"},
               \A k \in DOMAIN h : h[k].id # s[i].id
        PROVE  Agreed(t[a], owners', R)
    <3>1. Constrained(s, X, i)
      BY <1>5, <2>3 DEF Constrained
    <3>2. Agreed(s[i], owners, R)
      BY <3>1 DEF Agree
    <3>3. KindOfMessage(s[i]) \in MessageKinds /\ s[i].id \in Ids
      BY ElementKind
    <3>4. owners'[KindOfMessage(s[i])][s[i].id] = owners[KindOfMessage(s[i])][s[i].id]
      BY <1>4, <2>3, <3>3 DEF Seeds
    <3> QED
      BY <2>3, <3>2, <3>4, AgreedKept
  <2> QED
    BY <2>1, <2>2, <2>3
<1>6. ASSUME NEW k \in MessageKinds, NEW id \in Ids, id \notin MessageIds(t)
      PROVE  owners'[k][id] = owners[k][id]
  <2>1. \A i \in DOMAIN h : h[i].id # id
    BY <1>6, <1>8 DEF MessageIds
  <2> QED
    BY <1>6, <1>4, <2>1 DEF Seeds
<1>7. Backed(t, Y, owners', R)
  BY <1>6, BackedKept
<1> QED
  BY <1>5, <1>7 DEF Agree

LEMMA EchoSetsOwners ==
  ASSUME NEW R \in Repertoires, IdsAreUnique(R), NEW s \in Lists,
         \A i \in DOMAIN s : s[i].by = "earlier", NEW e \in R, e.type = "RUN_STARTED",
         NEW t, t = WithEffect(s, s, e), OwnersType, Flags, Accept(e), NEW Y
  PROVE  Agree(t, Y, owners', R) /\ Backed(t, Y, owners', R)
<1>0. e \in Sent
  BY DEF Sent
<1> DEFINE h == e.messages
<1>1. WellTyped(h) /\ h \in Seq(Message) /\ Echoed(s, t, h, Len(h)) /\ DOMAIN h = 1..Len(h)
  BY <1>0, HistoryTyped, OpenerEffect, EchoAdded DEF WellTyped
<1>2. NoNullTags(h) /\ owners' = SeedOwners(NoOwners, h, FALSE)
  BY <1>0, OwnersChange
<1>3. \A i, j \in DOMAIN h : h[i].id = h[j].id => i = j
  BY DEF IdsAreUnique
<1>4. \A k \in MessageKinds, id \in Ids : NoOwners[k][id] = Unowned
  BY DEF NoOwners, MessageKinds, Kinds
<1>7. Seeds(h, NoOwners, owners')
  BY <1>1, <1>2, <1>3, SeedFacts
<1>5. ASSUME NEW a \in DOMAIN t, Constrained(t, Y, a)
      PROVE  Agreed(t[a], owners', R)
  <2>1. a \notin DOMAIN s
    BY <1>1, <1>5 DEF Echoed, Constrained
  <2>2. PICK k \in DOMAIN h : t[a] = Imported(h[k])
    BY <1>1, <2>1 DEF Echoed
  <2>3. /\ KindOfMessage(t[a]) = KindOfRole(h[k].role) /\ KindOfRole(h[k].role) \in MessageKinds
        /\ t[a].id = h[k].id /\ h[k].id \in Ids /\ t[a].owner = OwnerOf(h[k])
    BY <1>1, <2>2, KindOfImported
  <2> QED
    BY <1>7, <2>3 DEF Seeds, Agreed
<1>6. ASSUME NEW k \in MessageKinds, NEW id \in Ids, id \notin MessageIds(t)
      PROVE  owners'[k][id] = Unowned
  <2>1. \A i \in DOMAIN h : h[i].id # id
    BY <1>1, <1>6 DEF MessageIds, Echoed
  <2> QED
    BY <1>4, <1>6, <1>7, <2>1 DEF Seeds
<1> QED
  BY <1>5, <1>6 DEF Agree, Backed

OwnersInv ==
  /\ OwnersType /\ Flags
  /\ Agree(conv.messages, suppressed, owners, repertoire)
  /\ Backed(conv.messages, suppressed, owners, repertoire)

(* An event puts owners on record only for the ids that it names.          *)
LEMMA OnlyNamedAreWritten ==
  ASSUME OwnersType, Flags, NEW e \in Sent, Accept(e), e.type # "RUN_STARTED",
         NEW k \in MessageKinds, NEW id \in Ids, id \notin NamedBy(e)
  PROVE  owners'[k][id] = owners[k][id]
<1>0. e.type # "MESSAGES_SNAPSHOT"
  BY DEF NamedBy
<1>1. CASE e.type \in {"TEXT_MESSAGE_START", "REASONING_START", "REASONING_MESSAGE_START",
                       "ACTIVITY_SNAPSHOT", "TOOL_CALL_RESULT"}
  <2>1. HasShape(e) /\ e.type \in MessageTypes
    BY <1>1, EventFacts DEF MessageTypes, TextTypes, ReasoningTypes
  <2>2. NamedBy(e) = {e.messageId}
    BY <1>1, <2>1 DEF NamedBy, TargetOf, HasShape
  <2>3. \E kind \in MessageKinds : \E tag : Written(owners, owners', kind, e.messageId, tag)
    BY <1>1, OwnersChange DEF Recorded, MessageKinds
  <2> QED
    BY <2>2, <2>3 DEF Written
<1>2. CASE e.type \notin Claiming
  BY <1>2, OwnersChange DEF Unwritten
<1> QED
  BY <1>0, <1>1, <1>2 DEF Claiming

LEMMA OwnersInvKept ==
  ASSUME IdsAreKept, ListIsKept, KeptInv, OwnersInv,
         NEW e \in repertoire, NEW hook \in Hooks \cup {"none"}, Receive(e, hook)
  PROVE  OwnersInv'
<1> DEFINE R == repertoire
           X == suppressed
           Y == suppressed'
           s == Before(conv, e)
           t == conv'.messages
<1>1. conv' = Reduce(conv, e, hook) /\ R' = R /\ Accept(e)
  BY DEF Receive
<1>2. /\ s \in Lists /\ Rooted(s, R) /\ SingleActivities(s)
      /\ R \in Repertoires /\ IdsAreUnique(R)
  BY BeforeIsRooted
<1>3. /\ hook \in {"veto", "stop"} => t = s
      /\ hook \notin {"veto", "stop"} => t = WithEffect(s, s, e)
  BY <1>1, ReduceKept DEF KeptInv, CallsInv
<1>4. /\ e.type # "RUN_STARTED" => X \subseteq Y
      /\ hook \in {"veto", "stop"} => NamedBy(e) \subseteq Y
      /\ MessageIds(conv.messages) \ MessageIds(t) \subseteq Y
  BY DEF Receive
<1>5. e \in Sent /\ OwnersType /\ Flags
  BY <1>2 DEF Sent, OwnersInv
<1>6. OwnersType' /\ Flags'
  BY <1>1, <1>5, OwnersChange
<1>7. e.type # "RUN_STARTED" =>
        s = conv.messages /\ Agree(s, X, owners, R) /\ Backed(s, X, owners, R)
  BY DEF Before, OwnersInv
<1>8. e.type = "RUN_STARTED" => \A i \in DOMAIN s : s[i].by = "earlier"
  BY AgedFacts DEF Before, KeptInv, CallsInv, Sound
<1>9. Agree(t, Y, owners', R) /\ Backed(t, Y, owners', R)
  <2> HIDE DEF R, X, Y, s, t
  <2>1. CASE hook \in {"veto", "stop"} /\ e.type # "RUN_STARTED"
    <3>1. \A k \in MessageKinds, id \in Ids : id \notin Y => owners'[k][id] = owners[k][id]
      BY <1>1, <1>4, <1>5, <2>1, OnlyNamedAreWritten
    <3> QED
      BY <1>2, <1>3, <1>4, <1>7, <2>1, <3>1, AgreeWhenStopped
  <2>2. CASE hook \in {"veto", "stop"} /\ e.type = "RUN_STARTED"
    <3>1. Ids \subseteq Y
      BY <1>4, <2>2 DEF NamedBy
    <3> QED
      BY <1>3, <1>8, <2>2, <3>1 DEF Agree, Constrained, Backed
  <2>3. CASE hook \notin {"veto", "stop"} /\ e.type = "RUN_STARTED"
    BY <1>1, <1>2, <1>3, <1>5, <1>8, <2>3, EchoSetsOwners DEF R
  <2>4. CASE hook \notin {"veto", "stop"} /\ e.type = "MESSAGES_SNAPSHOT"
    BY <1>1, <1>2, <1>3, <1>4, <1>5, <1>7, <2>4, SnapshotKeepsOwners DEF R
  <2>5. CASE hook \notin {"veto", "stop"} /\ e.type \notin {"RUN_STARTED", "MESSAGES_SNAPSHOT"}
    BY <1>1, <1>2, <1>3, <1>4, <1>5, <1>7, <2>5, EffectKeepsOwners, EffectIsBacked DEF R
  <2> QED
    BY <2>1, <2>2, <2>3, <2>4, <2>5
<1> QED
  BY <1>1, <1>6, <1>9 DEF OwnersInv

(* For producers that keep message ids apart and subscribers that do not   *)
(* return a list of their own, the two records of who owns a message that  *)
(* an event of the run opened or restated never come apart: neither        *)
(* reopening, replacing, restating nor stopping an event leaves the        *)
(* application with an owner that the verifier does not check              *)
(* continuations against, but for an untagged message in a reasoning span. *)
THEOREM OwnersNeverDisagree ==
  ASSUME IdsAreKept, ListIsKept
  PROVE  ConversationSpec => []OwnersAgree
<1>1. ConversationInit => OwnersInv
  <2> SUFFICES ASSUME ConversationInit PROVE OwnersInv
    OBVIOUS
  <2>1. Init /\ conv = EmptyConversation
    BY Zenon DEF ConversationInit
  <2>2. DOMAIN conv.messages = {}
    BY <2>1 DEF EmptyConversation
  <2>3. owners = NoOwners /\ ~firstEventReceived /\ ~runStarted
    BY <2>1 DEF Init
  <2>4. OwnersType /\ \A k \in MessageKinds, id \in Ids : owners[k][id] = Unowned
    BY <2>3 DEF OwnersType, NoOwners, MessageKinds, Kinds
  <2> QED
    BY <2>2, <2>3, <2>4 DEF OwnersInv, Flags, Agree, Backed
<1>2. KeptInv /\ OwnersInv /\ [ConversationNext]_streamVars => OwnersInv'
  <2> SUFFICES ASSUME KeptInv, OwnersInv, [ConversationNext]_streamVars PROVE OwnersInv'
    OBVIOUS
  <2>1. CASE UNCHANGED streamVars
    BY <2>1 DEF streamVars, conversationVars, vars, runVars, OwnersInv, OwnersType, Flags
  <2>2. CASE ConversationNext
    BY <2>2, OwnersInvKept DEF ConversationNext
  <2> QED
    BY <2>1, <2>2
<1>3. OwnersInv => OwnersAgree
  BY DEF OwnersInv, Agree, Agreed, Constrained, OwnersAgree
<1> QED
  BY <1>1, <1>2, <1>3, KeptInvHolds, PTL DEF ConversationSpec

-----------------------------------------------------------------------------
(* The tallies of a run and the results in the list.                       *)
Tallied(s, answered) ==
  \A c \in Ids :
    /\ c \in answered => AnsweredIn(s, c, {"opener", "history"})
    /\ AnsweredIn(s, c, {"opener"}) => c \in answered

LEMMA OnlyToolsAnswer ==
  ASSUME NEW R \in Repertoires, NEW m, \E e \in R : Sig(m) \in Minted(e), m.answers # Absent
  PROVE  m.role = "tool"
<1>1. PICK e \in R : Sig(m) \in Minted(e)
  OBVIOUS
<1>2. e \in Sent
  BY DEF Sent
<1>3. CASE e.type \in {"RUN_STARTED", "MESSAGES_SNAPSHOT"}
  <2>1. Minted(e) = {<<n.id, n.role, n.toolCallId>> : n \in ToSet(e.messages)}
    BY <1>3 DEF Minted
  <2>2. PICK n \in ToSet(e.messages) : Sig(m) = <<n.id, n.role, n.toolCallId>>
    BY <1>1, <2>1
  <2>3. e.messages \in Seq(Message)
    BY <1>2, <1>3, HistoryTyped DEF WellTyped
  <2>4. n \in Message
    BY <2>3 DEF ToSet
  <2> QED
    BY <2>2, <2>4 DEF Sig, Message
<1>4. CASE e.type = "TOOL_CALL_RESULT"
  BY <1>1, <1>4 DEF Minted, Sig
<1>5. CASE e.type \notin {"RUN_STARTED", "MESSAGES_SNAPSHOT", "TOOL_CALL_RESULT"}
  <2>1. \A x \in Minted(e) : x[3] = Absent
    BY <1>5 DEF Minted
  <2> QED
    BY <1>1, <2>1 DEF Sig
<1> QED
  BY <1>3, <1>4, <1>5

LEMMA TalliedInPlace ==
  ASSUME NEW s, NEW t, DOMAIN t = DOMAIN s, NEW A, Tallied(s, A),
         \A i \in DOMAIN s : /\ t[i].answers = s[i].answers
                             /\ t[i].by = s[i].by \/ s[i].answers = Absent
  PROVE  Tallied(t, A)
<1>1. ASSUME NEW c \in Ids, NEW by PROVE AnsweredIn(t, c, by) <=> AnsweredIn(s, c, by)
  <2>1. c # Absent
    BY AbsentIsNoSubagent
  <2> QED
    BY <2>1 DEF AnsweredIn
<1> QED
  BY <1>1, Zenon DEF Tallied

LEMMA TalliedInserted ==
  ASSUME NEW s \in Lists, NEW t, NEW p, NEW m, Inserted(s, t, p, m), NEW A, Tallied(s, A)
  PROVE  /\ m.answers = Absent => Tallied(t, A)
         /\ m.by = "opener" => Tallied(t, A \cup {m.answers})
<1>1. /\ p \in DOMAIN t /\ t[p] = m
      /\ \A k \in DOMAIN s : \E a \in DOMAIN t : t[a] = s[k]
      /\ \A a \in DOMAIN t : a = p \/ \E k \in DOMAIN s : t[a] = s[k]
  BY InsertedFacts
<1>2. \A c, by : AnsweredIn(t, c, by) <=> AnsweredIn(s, c, by) \/ (m.answers = c /\ m.by \in by)
  BY <1>1 DEF AnsweredIn
<1>3. Absent \notin Ids
  BY AbsentIsNoSubagent
<1> QED
  BY <1>2, <1>3 DEF Tallied

LEMMA EffectIsTallied ==
  ASSUME NEW R \in Repertoires, IdsAreUnique(R), NEW s \in Lists, Rooted(s, R),
         NEW e \in R, e.type \notin {"RUN_STARTED", "MESSAGES_SNAPSHOT"},
         NEW t, t = WithEffect(s, s, e), NEW A, Tallied(s, A)
  PROVE  Tallied(t, IF e.type = "TOOL_CALL_RESULT" THEN A \cup {e.toolCallId} ELSE A)
<1>0. e \in Sent
  BY DEF Sent
<1>1. CASE IsQuiet(s, t, e)
  <2>1. DOMAIN t = DOMAIN s /\ \A i \in DOMAIN s : t[i].answers = s[i].answers /\ t[i].by = s[i].by
    BY <1>1 DEF IsQuiet, Touched, Same
  <2> QED
    BY <1>1, <2>1, TalliedInPlace DEF IsQuiet
<1>2. CASE IsOpened(s, t, e)
  <2>1. PICK m \in MessageRecord :
          Inserted(s, t, Len(s) + 1, m) /\ Sig(m) = <<e.messageId, OpenedRole(e), Absent>>
    BY <1>2 DEF IsOpened
  <2>2. m.answers = Absent /\ e.type # "TOOL_CALL_RESULT"
    BY <1>2, <2>1 DEF Sig, IsOpened
  <2> QED
    BY <2>1, <2>2, TalliedInserted
<1>3. CASE IsCallAdded(s, t, e)
  <2>1. PICK i \in DOMAIN s, c \in CallRecord : CallAdded(s, t, i, c)
    BY <1>3 DEF IsCallAdded
  <2>2. s[i] \in MessageRecord
    BY ElementTyped
  <2>3. t[i].answers = s[i].answers /\ t[i].by = s[i].by
    BY <2>1, <2>2 DEF CallAdded, WithNewCall, MessageRecord
  <2>4. DOMAIN t = DOMAIN s /\ \A k \in DOMAIN s : t[k].answers = s[k].answers /\ t[k].by = s[k].by
    BY <2>1, <2>3 DEF CallAdded
  <2> QED
    BY <1>3, <2>4, TalliedInPlace DEF IsCallAdded
<1>4. CASE IsCallerAdded(s, t, e)
  <2>1. PICK m \in MessageRecord, id \in {e.toolCallId, e.parentMessageId} \ {Absent} :
          Inserted(s, t, Len(s) + 1, m) /\ Sig(m) = <<id, "assistant", Absent>>
    BY <1>4 DEF IsCallerAdded
  <2>2. m.answers = Absent /\ e.type # "TOOL_CALL_RESULT"
    BY <1>4, <2>1 DEF Sig, IsCallerAdded
  <2> QED
    BY <2>1, <2>2, TalliedInserted
<1>5. CASE IsResultAdded(s, t, e)
  <2>1. PICK p : Inserted(s, t, p, ResultOf(e))
    BY <1>5 DEF IsResultAdded
  <2>2. ResultOf(e).answers = e.toolCallId /\ ResultOf(e).by = "opener"
    BY <1>0, <1>5, ResultFacts DEF IsResultAdded
  <2> QED
    BY <1>5, <2>1, <2>2, TalliedInserted DEF IsResultAdded
<1>6. CASE IsReowned(s, t, e)
  <2>1. PICK i \in DOMAIN s : s[i].role = "activity" /\ Overwritten(s, t, i, Reowned(s[i], e))
    BY <1>6 DEF IsReowned
  <2>2. s[i].answers = Absent
    BY <2>1, OnlyToolsAnswer DEF Rooted
  <2>3. t[i].answers = s[i].answers
    BY <1>0, <1>6, <2>1, ElementTyped, ReownedFacts DEF IsReowned, Overwritten, Same
  <2>4. DOMAIN t = DOMAIN s /\ \A k \in DOMAIN s \ {i} : t[k] = s[k]
    BY <2>1 DEF Overwritten
  <2> QED
    BY <1>6, <2>2, <2>3, <2>4, TalliedInPlace DEF IsReowned
<1> QED
  BY <1>1, <1>2, <1>3, <1>4, <1>5, <1>6, Effects

LEMMA SnapshotIsTallied ==
  ASSUME NEW R \in Repertoires, IdsAreUnique(R), NEW s \in Lists, Rooted(s, R),
         SingleActivities(s), NEW e \in R, e.type = "MESSAGES_SNAPSHOT",
         NEW t, t = WithEffect(s, s, e), MessageIds(s) \subseteq MessageIds(t),
         NEW A, Tallied(s, A)
  PROVE  Tallied(t, A)
<1>0. e \in Sent
  BY DEF Sent
<1> DEFINE h == e.messages
<1>1. WellTyped(h) /\ t = MergeSnapshot(s, h)
  BY <1>0, HistoryTyped, OpenerEffect
<1>2. \A a \in DOMAIN t : \/ t[a].by = "history"
                          \/ \E i \in DOMAIN s : t[a] = s[i] /\ s[i].role # "tool"
  <2>1. \A k \in DOMAIN h : Imported(h[k]).by = "history"
    BY <1>1, ImportedFacts DEF WellTyped
  <2> QED
    BY <1>1, <2>1, SnapshotMerged
<1>3. Rooted(t, R)
  BY EffectIsRooted
<1>4. ASSUME NEW c \in Ids, c \in A PROVE AnsweredIn(t, c, {"opener", "history"})
  <2>1. PICK i \in DOMAIN s : s[i].answers = c
    BY <1>4 DEF Tallied, AnsweredIn
  <2>2. PICK a \in DOMAIN t : t[a].id = s[i].id
    BY DEF MessageIds
  <2>3. t[a].answers = c
    BY <1>3, <2>1, <2>2, SigsAgree DEF Rooted
  <2>4. t[a].role = "tool"
    BY <1>3, <2>3, AbsentIsNoSubagent, OnlyToolsAnswer DEF Rooted
  <2> QED
    BY <1>2, <2>3, <2>4 DEF AnsweredIn
<1>5. ASSUME NEW c \in Ids, AnsweredIn(t, c, {"opener"}) PROVE c \in A
  <2>1. AnsweredIn(s, c, {"opener"})
    BY <1>2, <1>5 DEF AnsweredIn
  <2> QED
    BY <2>1 DEF Tallied
<1> QED
  BY <1>4, <1>5, Zenon DEF Tallied

PendingInv ==
  /\ conv.started \subseteq Ids
  /\ suppressed = {} => Tallied(conv.messages, conv.answered)
  /\ last = "RUN_FINISHED" /\ suppressed = {} =>
       \A c \in conv.started : c \in conv.reported <=> c \notin conv.answered

(* A step that suppresses nothing: it names nothing, or is not stopped.    *)
LEMMA NothingSuppressed ==
  ASSUME NEW e \in Sent, NEW hook, Receive(e, hook), suppressed' = {}
  PROVE  /\ e.type # "RUN_STARTED" => suppressed = {}
         /\ MessageIds(conv.messages) \subseteq MessageIds(conv'.messages)
         /\ hook \in {"veto", "stop"} =>
              /\ e.type \notin {"TOOL_CALL_START", "TOOL_CALL_RESULT"}
              /\ e.type \in {"RUN_STARTED", "RUN_FINISHED", "MESSAGES_SNAPSHOT"} => Ids = {}
<1>1. /\ e.type # "RUN_STARTED" => suppressed = {}
      /\ MessageIds(conv.messages) \subseteq MessageIds(conv'.messages)
      /\ hook \in {"veto", "stop"} => NamedBy(e) = {}
  BY DEF Receive
<1>2. HasShape(e)
  BY EventFacts
<1>3. e.type = "TOOL_CALL_START" => e.toolCallId \in NamedBy(e)
  BY <1>2 DEF HasShape, NamedBy, TargetOf, ToolCallTypes
<1>4. e.type = "TOOL_CALL_RESULT" => e.messageId \in NamedBy(e)
  BY <1>2 DEF HasShape, NamedBy, TargetOf, MessageTypes
<1>5. e.type \in {"RUN_STARTED", "RUN_FINISHED", "MESSAGES_SNAPSHOT"} => NamedBy(e) = Ids
  BY DEF NamedBy
<1> QED
  BY <1>1, <1>3, <1>4, <1>5

LEMMA PendingInvKept ==
  ASSUME IdsAreKept, ListIsKept, KeptInv, PendingInv,
         NEW e \in repertoire, NEW hook \in Hooks \cup {"none"}, Receive(e, hook)
  PROVE  PendingInv'
<1> DEFINE R == repertoire
           s == Before(conv, e)
           t == conv'.messages
           runs == hook # "stop"
           tally == Tally(conv, e, runs)
<1>1. conv' = Reduce(conv, e, hook) /\ last' = e.type
  BY DEF Receive
<1>2. /\ s \in Lists /\ Rooted(s, R) /\ SingleActivities(s)
      /\ R \in Repertoires /\ IdsAreUnique(R) /\ e \in Sent /\ DOMAIN conv = Fields
  BY BeforeIsRooted DEF Sent, KeptInv, CallsInv
<1>3. /\ hook \in {"veto", "stop"} => t = s
      /\ hook \notin {"veto", "stop"} => t = WithEffect(s, s, e)
  BY <1>1, <1>2, ReduceKept
<1>4. /\ hook = "veto" => /\ conv'.started = conv.started /\ conv'.answered = conv.answered
                          /\ conv'.reported = conv.reported
      /\ hook # "veto" => /\ conv'.started = tally.started /\ conv'.answered = tally.answered
                          /\ conv'.reported = tally.reported
  BY <1>1, <1>2, ReduceFacts
<1>5. /\ tally.started = IF e.type = "RUN_STARTED" THEN {}
                         ELSE IF runs /\ e.type = "TOOL_CALL_START"
                           THEN conv.started \cup {e.toolCallId}
                         ELSE conv.started
      /\ tally.answered = IF e.type = "RUN_STARTED" THEN {}
                          ELSE IF runs /\ e.type = "TOOL_CALL_RESULT"
                            THEN conv.answered \cup {e.toolCallId}
                          ELSE conv.answered
      /\ tally.reported = IF e.type = "RUN_FINISHED" THEN conv.started \ conv.answered
                          ELSE conv.reported
  <2> HIDE DEF runs
  <2> QED
    BY <1>2, TallyFacts
<1> HIDE DEF tally
<1>6. conv'.started \subseteq Ids
  <2>1. e.type = "TOOL_CALL_START" => e.toolCallId \in Ids
    BY <1>2, EventFacts DEF HasShape, ToolCallTypes
  <2> QED
    BY <1>4, <1>5, <2>1 DEF PendingInv
<1>7. ASSUME suppressed' = {}
      PROVE  /\ Tallied(t, conv'.answered)
             /\ e.type = "RUN_FINISHED" =>
                  \A c \in conv'.started : c \in conv'.reported <=> c \notin conv'.answered
  <2>1. /\ e.type # "RUN_STARTED" => suppressed = {}
        /\ MessageIds(conv.messages) \subseteq MessageIds(t)
        /\ hook \in {"veto", "stop"} =>
             /\ e.type \notin {"TOOL_CALL_START", "TOOL_CALL_RESULT"}
             /\ e.type \in {"RUN_STARTED", "RUN_FINISHED", "MESSAGES_SNAPSHOT"} => Ids = {}
    BY <1>2, <1>7, NothingSuppressed
  <2>2. e.type # "RUN_STARTED" => s = conv.messages /\ Tallied(s, conv.answered)
    BY <2>1 DEF Before, PendingInv
  <2> HIDE DEF R, s, t
  <2>3. CASE hook \in {"veto", "stop"} /\ e.type \in {"RUN_STARTED", "RUN_FINISHED"}
    BY <1>6, <2>1, <2>3 DEF Tallied
  <2>4. CASE hook \in {"veto", "stop"} /\ e.type \notin {"RUN_STARTED", "RUN_FINISHED"}
    BY <1>3, <1>4, <1>5, <2>1, <2>2, <2>4
  <2>5. CASE hook \notin {"veto", "stop"} /\ e.type = "RUN_STARTED"
    <3>1. conv'.answered = {}
      BY <1>4, <1>5, <2>5
    <3>2. \A i \in DOMAIN s : s[i].by = "earlier"
      BY <2>5, AgedFacts DEF s, Before, KeptInv, CallsInv, Sound
    <3>3. WellTyped(e.messages) /\ t = AddEcho(s, e.messages)
      BY <1>2, <1>3, <2>5, HistoryTyped, OpenerEffect
    <3>4. Echoed(s, t, e.messages, Len(e.messages)) /\ DOMAIN e.messages = 1..Len(e.messages)
      BY <1>2, <3>3, EchoAdded DEF WellTyped
    <3>5. \A k \in DOMAIN e.messages : Imported(e.messages[k]).by = "history"
      BY <3>3, ImportedFacts DEF WellTyped
    <3>6. \A a \in DOMAIN t : t[a].by # "opener"
      BY <3>2, <3>4, <3>5 DEF Echoed
    <3> QED
      BY <2>5, <3>1, <3>6 DEF Tallied, AnsweredIn
  <2>6. CASE hook \notin {"veto", "stop"} /\ e.type = "MESSAGES_SNAPSHOT"
    <3>1. Tallied(t, conv.answered)
      BY <1>2, <1>3, <2>1, <2>2, <2>6, SnapshotIsTallied DEF R
    <3> QED
      BY <1>4, <1>5, <2>6, <3>1
  <2>7. CASE hook \notin {"veto", "stop"} /\ e.type \notin {"RUN_STARTED", "MESSAGES_SNAPSHOT"}
    <3>1. Tallied(t, IF e.type = "TOOL_CALL_RESULT" THEN conv.answered \cup {e.toolCallId}
                     ELSE conv.answered)
      BY <1>2, <1>3, <2>2, <2>7, EffectIsTallied DEF R
    <3>2. Tallied(t, conv'.answered)
      BY <1>4, <1>5, <2>7, <3>1
    <3> QED
      BY <1>4, <1>5, <2>7, <3>2
  <2> QED
    BY <2>3, <2>4, <2>5, <2>6, <2>7
<1> QED
  BY <1>1, <1>6, <1>7 DEF PendingInv

(* For the same producers and subscribers, what RUN_FINISHED tells the     *)
(* application about pending calls is what the conversation shows, across  *)
(* runs, snapshots, stopped events and results that came before their      *)
(* calls: no call with a result of this run is reported, and each call     *)
(* that is not reported has its result in the list.                        *)
THEOREM PendingCallsAreUnanswered ==
  ASSUME IdsAreKept, ListIsKept
  PROVE  ConversationSpec => []PendingAreUnanswered
<1>1. ConversationInit => PendingInv
  <2> SUFFICES ASSUME ConversationInit PROVE PendingInv
    OBVIOUS
  <2>1. conv = EmptyConversation
    BY Zenon DEF ConversationInit
  <2>2. DOMAIN conv.messages = {} /\ conv.started = {} /\ conv.answered = {}
    BY <2>1 DEF EmptyConversation
  <2> QED
    BY <2>2 DEF PendingInv, Tallied, AnsweredIn
<1>2. KeptInv /\ PendingInv /\ [ConversationNext]_streamVars => PendingInv'
  <2> SUFFICES ASSUME KeptInv, PendingInv, [ConversationNext]_streamVars PROVE PendingInv'
    OBVIOUS
  <2>1. CASE UNCHANGED streamVars
    BY <2>1 DEF streamVars, conversationVars, PendingInv
  <2>2. CASE ConversationNext
    BY <2>2, PendingInvKept DEF ConversationNext
  <2> QED
    BY <2>1, <2>2
<1>3. PendingInv => PendingAreUnanswered
  BY Zenon DEF PendingInv, Tallied, PendingAreUnanswered
<1> QED
  BY <1>1, <1>2, <1>3, KeptInvHolds, PTL DEF ConversationSpec
=============================================================================
