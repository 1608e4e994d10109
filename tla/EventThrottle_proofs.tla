-------------------------- MODULE EventThrottle_proofs --------------------------
(***************************************************************************)
(* The throttling middleware, for every window, threshold and set of       *)
(* events.  First the timer (HeldIsTimed), which needs only the ranges of  *)
(* the clock, the timer and the buffer.  Then what Coalesce, Text,         *)
(* TextOfLast and FinalMeta compute, by induction over sequences: merging  *)
(* keeps the characters and the last metadata.  From these the contents of *)
(* the stream (StreamInv) and the text held back (CountInv).               *)
(***************************************************************************)
EXTENDS EventThrottle, SequenceTheorems, NaturalLemmas

Ranges ==
  /\ buffer \in Seq(Arrivals)
  /\ elapsed \in Nat /\ elapsed <= IntervalMs
  /\ timer = Off \/ (timer \in Nat /\ timer <= IntervalMs)
  /\ stream \in {"open", "completed", "errored", "unsubscribed"}

IInv == Ranges /\ HeldIsTimed

LEMMA InitEstablishes == Init => IInv
  BY ThrottleConfig DEF Init, IInv, Ranges, HeldIsTimed, Off

(* A held event makes the buffer a non-empty sequence.                     *)
LEMMA AppendHolds ==
  ASSUME NEW s \in Seq(Arrivals), NEW e \in Arrivals
  PROVE  Append(s, e) \in Seq(Arrivals) /\ Append(s, e) # <<>>
<1>1. Append(s, e) \in Seq(Arrivals) /\ Len(Append(s, e)) = Len(s) + 1
  OBVIOUS
<1>2. Len(s) \in Nat /\ Len(<<>>) = 0
  OBVIOUS
<1> QED
  BY <1>1, <1>2

(* Whatever a flush sends, nothing is held and no timer is armed after it. *)
LEMMA FlushPreserves ==
  ASSUME IInv, NEW pending, NEW chars, Flush(pending, chars),
         stream' \in {"open", "completed", "errored", "unsubscribed"}
  PROVE  IInv'
<1>1. /\ timer' = Off /\ buffer' = <<>>
      /\ elapsed' = elapsed \/ elapsed' = 0
  BY DEF Flush
<1> QED
  BY <1>1, ThrottleConfig DEF IInv, Ranges, HeldIsTimed, Off

LEMMA SourceNextPreserves ==
  ASSUME IInv, NEW e \in Arrivals, SourceNext(e)
  PROVE  IInv'
<1>1. stream = "open" /\ stream' = "open"
  BY DEF SourceNext
<1>2. CASE Immediate(e)
  BY <1>1, <1>2, ThrottleConfig DEF Immediate, IInv, Ranges, HeldIsTimed, Off
<1>3. CASE Buffered(e) /\ ThresholdMet(e)
  BY <1>1, <1>3, FlushPreserves DEF Buffered
<1>4. CASE Buffered(e) /\ ~ThresholdMet(e)
  <2>1. /\ buffer' = Append(buffer, e) /\ elapsed' = elapsed
        /\ timer' = IF timer # Off \/ IntervalMs = 0 THEN timer ELSE IntervalMs - elapsed
    BY <1>4 DEF Buffered, ScheduleTrailing
  <2>2. buffer' \in Seq(Arrivals) /\ buffer' # <<>>
    BY <2>1, AppendHolds DEF IInv, Ranges
  <2>3. Ranges'
    BY <1>1, <2>1, <2>2, ThrottleConfig DEF IInv, Ranges, Off
  <2>4. HeldIsTimed'
    BY <1>1, <2>1, <2>2, ThrottleConfig DEF IInv, Ranges, HeldIsTimed, Off
  <2> QED
    BY <2>3, <2>4 DEF IInv
<1> QED
  BY <1>2, <1>3, <1>4 DEF SourceNext

LEMMA NextPreserves == IInv /\ [Next]_vars => IInv'
<1> SUFFICES ASSUME IInv, [Next]_vars PROVE IInv'
  OBVIOUS
<1>1. ASSUME NEW e \in Arrivals, SourceNext(e) PROVE IInv'
  BY <1>1, SourceNextPreserves
<1>2. CASE SourceCompletes
  BY <1>2, FlushPreserves DEF SourceCompletes
<1>3. CASE SourceFails
  BY <1>3, ThrottleConfig DEF SourceFails, IInv, Ranges, HeldIsTimed, Off
<1>4. CASE Unsubscribe
  BY <1>4, ThrottleConfig DEF Unsubscribe, IInv, Ranges, HeldIsTimed, Off
<1>5. CASE TimerFires
  BY <1>5, FlushPreserves DEF TimerFires, IInv, Ranges
<1>6. CASE Tick
  BY <1>6, ThrottleConfig DEF Tick, IInv, Ranges, HeldIsTimed, Off
<1>7. CASE UNCHANGED vars
  BY <1>7 DEF vars, IInv, Ranges, HeldIsTimed
<1> QED
  BY <1>1, <1>2, <1>3, <1>4, <1>5, <1>6, <1>7 DEF Next

(* For every window and threshold, whatever arrives when: events are held  *)
(* exactly while a timer is armed, which is due when the window ends, and  *)
(* no timer outlives the stream.                                           *)
THEOREM HeldEventsAreTimed == Spec => []HeldIsTimed
<1>1. Init /\ [][Next]_vars => []IInv
  BY InitEstablishes, NextPreserves, PTL
<1>2. IInv => HeldIsTimed
  BY DEF IInv
<1> QED
  BY <1>1, <1>2, PTL DEF Spec

-----------------------------------------------------------------------------
(* Sequences of events, and induction over them, as a set of sequences.    *)
Events == Arrivals \cup Chunks

LEMMA ChunkEvents ==
  ASSUME NEW e \in Events, e.type \in ChunkTypes
  PROVE  e \in Chunks
  BY ArrivalsType DEF Events, ChunkArrivals

LEMMA AppendFacts ==
  ASSUME NEW S, NEW s \in Seq(S), NEW e \in S
  PROVE  /\ Append(s, e) \in Seq(S)
         /\ Len(s) \in Nat /\ Len(Append(s, e)) = Len(s) + 1
         /\ Append(s, e)[Len(s) + 1] = e
         /\ \A n \in 1..Len(s) : Append(s, e)[n] = s[n]
         /\ Append(s, e) # <<>>
<1>1. /\ Append(s, e) \in Seq(S)
      /\ Len(s) \in Nat /\ Len(Append(s, e)) = Len(s) + 1
      /\ Append(s, e)[Len(s) + 1] = e
      /\ \A n \in 1..Len(s) : Append(s, e)[n] = s[n]
  OBVIOUS
<1>2. Len(<<>>) = 0
  OBVIOUS
<1> QED
  BY <1>1, <1>2

(* A sequence that is not empty is its front with its last element.        *)
LEMMA FrontAndLast ==
  ASSUME NEW S, NEW s \in Seq(S), s # <<>>
  PROVE  /\ Front(s) \in Seq(S) /\ Last(s) \in S
         /\ s = Append(Front(s), Last(s)) /\ Len(Front(s)) + 1 = Len(s)
<1>1. Len(s) \in Nat \ {0}
  BY EmptySeq
<1>2. \A i \in 1..Len(s) - 1 : s[i] \in S
  BY <1>1
<1>3. Last(s) \in S
  BY <1>1 DEF Last
<1>4. /\ Front(s) \in Seq(S) /\ Len(Front(s)) = Len(s) - 1
      /\ \A i \in 1..Len(s) - 1 : Front(s)[i] = s[i]
  <2>1. PICK k \in Nat : k = Len(s) - 1
    BY <1>1
  <2>2. /\ SubSeq(s, 1, k) \in Seq(S)
        /\ Len(SubSeq(s, 1, k)) = IF 1 <= k THEN k - 1 + 1 ELSE 0
        /\ \A i \in 1..(k - 1 + 1) : SubSeq(s, 1, k)[i] = s[1 + i - 1]
    BY <1>2, <2>1, SubSeqProperties
  <2>3. Len(SubSeq(s, 1, k)) = k
    BY <2>2
  <2>4. ASSUME NEW i \in 1..k PROVE SubSeq(s, 1, k)[i] = s[i]
    <3>1. i \in 1..(k - 1 + 1) /\ 1 + i - 1 = i
      OBVIOUS
    <3> QED
      BY <2>2, <3>1
  <2> QED
    BY <2>1, <2>2, <2>3, <2>4 DEF Front
<1>5. /\ Append(Front(s), Last(s)) \in Seq(S)
      /\ Len(Append(Front(s), Last(s))) = Len(s)
      /\ \A i \in 1..Len(s) : Append(Front(s), Last(s))[i] = s[i]
  <2>1. PICK f \in Seq(S) : f = Front(s)
    BY <1>4
  <2>2. PICK l \in S : l = s[Len(s)]
    BY <1>1
  <2>3. /\ Append(f, l) \in Seq(S)
        /\ Len(Append(f, l)) = Len(f) + 1
        /\ Append(f, l)[Len(f) + 1] = l
        /\ \A n \in 1..Len(f) : Append(f, l)[n] = f[n]
    BY AppendFacts
  <2>4. Len(f) = Len(s) - 1 /\ \A i \in 1..Len(s) - 1 : f[i] = s[i]
    BY <1>4, <2>1
  <2>5. /\ Append(f, l) \in Seq(S)
        /\ Len(Append(f, l)) = Len(s)
        /\ \A i \in 1..Len(s) : Append(f, l)[i] = s[i]
    BY <1>1, <2>2, <2>3, <2>4
  <2> QED
    BY <2>1, <2>2, <2>5 DEF Last
<1>6. s = Append(Front(s), Last(s))
  BY <1>5, SeqEqual
<1> QED
  BY <1>1, <1>3, <1>4, <1>6

LEMMA SequenceInduction ==
  ASSUME NEW S, NEW P, <<>> \in P,
         \A s \in Seq(S), e \in S : s \in P => Append(s, e) \in P
  PROVE  Seq(S) \subseteq P
<1> DEFINE N == {n \in Nat : \A s \in Seq(S) : Len(s) = n => s \in P}
<1>1. 0 \in N
  BY EmptySeq
<1>2. ASSUME NEW n \in Nat, n \in N PROVE n + 1 \in N
  <2> SUFFICES ASSUME NEW s \in Seq(S), Len(s) = n + 1 PROVE s \in P
    OBVIOUS
  <2>1. s # <<>>
    <3>1. Len(<<>>) = 0
      OBVIOUS
    <3> QED
      BY <3>1
  <2>2. /\ Front(s) \in Seq(S) /\ Last(s) \in S
        /\ s = Append(Front(s), Last(s)) /\ Len(Front(s)) + 1 = Len(s)
    BY <2>1, FrontAndLast
  <2>3. Front(s) \in P
    <3>1. Len(Front(s)) = n
      BY <2>2
    <3> QED
      BY <1>2, <2>2, <3>1
  <2> QED
    BY <2>2, <2>3
<1>3. ASSUME NEW n \in Nat PROVE n \in N
  <2> HIDE DEF N
  <2> QED
    BY <1>1, <1>2, InductionFrom
<1>4. ASSUME NEW s \in Seq(S) PROVE s \in P
  <2>1. Len(s) \in Nat
    OBVIOUS
  <2> QED
    BY <1>3, <2>1
<1> QED
  BY <1>4

-----------------------------------------------------------------------------
(* Merging either appends the event or makes one chunk of the last one and *)
(* it: of the same stream, with the text of both and the later metadata.   *)
Merged(last, e, m) ==
  /\ last \in Chunks /\ e \in Chunks /\ m \in Chunks /\ e.id # Absent
  /\ last.type = e.type /\ last.owner = e.owner /\ last.id = e.id
  /\ m.type = e.type /\ m.owner = e.owner /\ m.id = e.id
  /\ m.delta = last.delta \o e.delta
  /\ m.meta = IF e.meta = Absent THEN last.meta ELSE e.meta

LEMMA MergeCases ==
  ASSUME NEW out \in Seq(Events), NEW e \in Events
  PROVE  \/ Merge(out, e) = Append(out, e)
         \/ \E front \in Seq(Events), last, m \in Events :
              /\ out = Append(front, last) /\ Merge(out, e) = Append(front, m)
              /\ Merged(last, e, m)
<1> SUFFICES ASSUME out # <<>>, ChunkKey(e) # <<>>, ChunkKey(Last(out)) = ChunkKey(e)
             PROVE  \E front \in Seq(Events), last, m \in Events :
                      /\ out = Append(front, last) /\ Merge(out, e) = Append(front, m)
                      /\ Merged(last, e, m)
  BY DEF Merge
<1>1. /\ Front(out) \in Seq(Events) /\ Last(out) \in Events
      /\ out = Append(Front(out), Last(out))
  BY FrontAndLast
<1>2. PICK last \in Events : last = Last(out)
  BY <1>1
<1>3. e.type \in ChunkTypes /\ e.id # Absent /\ ChunkKey(e) = <<e.type, e.owner, e.id>>
  BY DEF ChunkKey
<1>4. ChunkKey(last) = <<last.type, last.owner, last.id>> /\ last.type \in ChunkTypes
  BY <1>2 DEF ChunkKey
<1>5. last.type = e.type /\ last.owner = e.owner /\ last.id = e.id
  BY <1>2, <1>3, <1>4
<1>6. last \in Chunks /\ e \in Chunks
  BY <1>3, <1>4, ChunkEvents
<1> DEFINE m == [last EXCEPT !.delta = @ \o e.delta, !.meta = MergeChunkMetadata(@, e.meta)]
<1>7. /\ m \in Chunks
      /\ m.type = last.type /\ m.owner = last.owner /\ m.id = last.id
      /\ m.delta = last.delta \o e.delta
      /\ m.meta = IF e.meta = Absent THEN last.meta ELSE e.meta
  <2>1. last.delta \o e.delta \in Seq(Characters)
    BY <1>6 DEF Chunks
  <2>2. MergeChunkMetadata(last.meta, e.meta) \in {a.meta : a \in ChunkArrivals}
    BY <1>6 DEF Chunks, MergeChunkMetadata
  <2> QED
    BY <1>6, <2>1, <2>2 DEF Chunks, MergeChunkMetadata
<1>8. Merge(out, e) = Append(Front(out), m)
  BY <1>2 DEF Merge
<1> HIDE DEF m
<1>9. Merged(last, e, m)
  BY <1>3, <1>5, <1>6, <1>7 DEF Merged
<1>10. m \in Events
  BY <1>7 DEF Events
<1> QED
  BY <1>1, <1>2, <1>8, <1>9, <1>10

LEMMA MergeType ==
  ASSUME NEW out \in Seq(Events), NEW e \in Events
  PROVE  Merge(out, e) \in Seq(Events) /\ Len(Merge(out, e)) <= Len(out) + 1
<1>1. CASE Merge(out, e) = Append(out, e)
  BY <1>1, AppendFacts
<1>2. ASSUME NEW front \in Seq(Events), NEW last \in Events, NEW m \in Events,
             out = Append(front, last), Merge(out, e) = Append(front, m)
      PROVE  Merge(out, e) \in Seq(Events) /\ Len(Merge(out, e)) <= Len(out) + 1
  <2>1. Len(Append(front, m)) = Len(front) + 1 /\ Len(Append(front, last)) = Len(front) + 1
    BY AppendFacts
  <2>2. Append(front, m) \in Seq(Events) /\ Len(front) \in Nat
    BY AppendFacts
  <2> QED
    BY <1>2, <2>1, <2>2
<1> QED
  BY <1>1, <1>2, MergeCases

(* The recursive definitions: each has a value for every sequence, and the *)
(* value for a longer one follows from that for its front.                 *)
LEMMA CoalesceFacts ==
  /\ Coalesce(<<>>) = <<>>
  /\ \A s \in Seq(Events), e \in Events : Coalesce(Append(s, e)) = Merge(Coalesce(s), e)
<1> DEFINE F(batch) == CHOOSE f :
             f = [n \in 0..Len(batch) |-> IF n = 0 THEN <<>> ELSE Merge(f[n - 1], batch[n])]
<1>1. ASSUME NEW b \in Seq(Events)
      PROVE  /\ Coalesce(b) = F(b)[Len(b)]
             /\ F(b)[0] = <<>>
             /\ \A n \in 1..Len(b) : F(b)[n] = Merge(F(b)[n - 1], b[n])
  <2>1. Coalesce(b) = F(b)[Len(b)]
    BY DEF Coalesce
  <2> DEFINE step == [n \in 1..Len(b) |-> [v \in Seq(Events) |-> Merge(v, b[n])]]
  <2>2. \A n \in 1..Len(b), v \in Seq(Events) : step[n][v] = Merge(v, b[n])
    OBVIOUS
  <2>3. Len(b) \in Nat /\ <<>> \in Seq(Events)
    OBVIOUS
  <2> HIDE DEF step
  <2>4. IsStep(step, Len(b), Seq(Events))
    <3>1. \A n \in 1..Len(b) : b[n] \in Events
      BY ElementOfSeq
    <3> QED
      BY <2>2, <3>1, MergeType DEF IsStep
  <2>5. PICK f \in [0..Len(b) -> Seq(Events)] :
          f[0] = <<>> /\ \A n \in 1..Len(b) : f[n] = step[n][f[n - 1]]
    <3>1. PICK f : IsRecursion(f, Len(b), Seq(Events), <<>>, step)
      BY <2>3, <2>4, RecursionExists
    <3> QED
      BY <3>1 DEF IsRecursion
  <2>6. ASSUME NEW n \in 0..Len(b)
        PROVE  f[n] = IF n = 0 THEN <<>> ELSE Merge(f[n - 1], b[n])
    <3>1. CASE n = 0
      BY <2>5, <3>1
    <3>2. CASE n # 0
      <4>1. n \in 1..Len(b) /\ f[n - 1] \in Seq(Events)
        BY <2>3, <3>2
      <4> QED
        BY <2>2, <2>5, <3>2, <4>1
    <3> QED
      BY <3>1, <3>2
  <2>7. f = [n \in 0..Len(b) |-> IF n = 0 THEN <<>> ELSE Merge(f[n - 1], b[n])]
    <3>1. f = [n \in 0..Len(b) |-> f[n]]
      OBVIOUS
    <3> QED
      BY <2>6, <3>1
  <2>8. F(b) = [n \in 0..Len(b) |-> IF n = 0 THEN <<>> ELSE Merge(F(b)[n - 1], b[n])]
    BY <2>7
  <2> HIDE DEF F
  <2>9. \A n \in 0..Len(b) : F(b)[n] = IF n = 0 THEN <<>> ELSE Merge(F(b)[n - 1], b[n])
    BY <2>8
  <2> QED
    BY <2>1, <2>3, <2>9
<1> HIDE DEF F
<1>2. Coalesce(<<>>) = <<>>
  <2>1. <<>> \in Seq(Events) /\ Len(<<>>) = 0
    OBVIOUS
  <2>2. Coalesce(<<>>) = F(<<>>)[Len(<<>>)] /\ F(<<>>)[0] = <<>>
    BY <1>1, <2>1
  <2> QED
    BY <2>1, <2>2
<1>3. ASSUME NEW s \in Seq(Events), NEW e \in Events
      PROVE  Coalesce(Append(s, e)) = Merge(Coalesce(s), e)
  <2>1. PICK t \in Seq(Events) : t = Append(s, e)
    BY AppendFacts
  <2>2. /\ Len(s) \in Nat /\ Len(t) = Len(s) + 1 /\ t[Len(s) + 1] = e
        /\ \A n \in 1..Len(s) : t[n] = s[n]
    BY <2>1, AppendFacts
  <2>3. /\ F(t)[0] = F(s)[0]
        /\ \A n \in 1..Len(t) : F(t)[n] = Merge(F(t)[n - 1], t[n])
        /\ \A n \in 1..Len(s) : F(s)[n] = Merge(F(s)[n - 1], s[n])
    BY <1>1
  <2>4. ASSUME NEW n \in 1..Len(s), F(t)[n - 1] = F(s)[n - 1] PROVE F(t)[n] = F(s)[n]
    BY <2>2, <2>3, <2>4
  <2>5. F(t)[Len(s)] = F(s)[Len(s)]
    BY <2>2, <2>3, <2>4, AgreeUpTo
  <2>6. Coalesce(t) = Merge(F(t)[(Len(s) + 1) - 1], e)
    BY <1>1, <2>2, <2>3
  <2>7. (Len(s) + 1) - 1 = Len(s)
    BY <2>2
  <2> QED
    BY <1>1, <2>1, <2>5, <2>6, <2>7
<1> QED
  BY <1>2, <1>3

LEMMA CoalesceType ==
  ASSUME NEW b \in Seq(Events)
  PROVE  Coalesce(b) \in Seq(Events) /\ Len(Coalesce(b)) <= Len(b)
<1> DEFINE P == {s \in Seq(Events) :
                   Coalesce(s) \in Seq(Events) /\ Len(Coalesce(s)) <= Len(s)}
<1>1. <<>> \in P
  <2>1. <<>> \in Seq(Events) /\ Len(<<>>) <= Len(<<>>)
    OBVIOUS
  <2> QED
    BY <2>1, CoalesceFacts
<1>2. ASSUME NEW s \in Seq(Events), NEW e \in Events, s \in P PROVE Append(s, e) \in P
  <2>1. PICK c \in Seq(Events) : c = Coalesce(s) /\ Len(c) <= Len(s)
    BY <1>2
  <2>2. Coalesce(Append(s, e)) = Merge(c, e)
    BY <2>1, CoalesceFacts
  <2>3. Merge(c, e) \in Seq(Events) /\ Len(Merge(c, e)) <= Len(c) + 1
    BY MergeType
  <2>4. Append(s, e) \in Seq(Events) /\ Len(Append(s, e)) = Len(s) + 1 /\ Len(s) \in Nat
    BY AppendFacts
  <2>5. Len(c) \in Nat /\ Len(Merge(c, e)) \in Nat
    BY <2>3
  <2>6. Len(Merge(c, e)) <= Len(Append(s, e))
    BY <2>1, <2>3, <2>4, <2>5
  <2> QED
    BY <2>2, <2>3, <2>4, <2>6
<1>3. Seq(Events) \subseteq P
  <2> HIDE DEF P
  <2> QED
    BY <1>1, <1>2, SequenceInduction
<1> QED
  BY <1>3

(* The characters and the other events that a reader can see.              *)
AtomSet == UNION {{Atoms(e)[i] : i \in DOMAIN Atoms(e)} : e \in Events}

(* Texts put together one after the other may be grouped either way.       *)
LEMMA TextsAssociate ==
  ASSUME NEW x \in Seq(AtomSet), NEW y \in Seq(AtomSet), NEW z \in Seq(AtomSet)
  PROVE  (x \o y) \o z = x \o (y \o z)
BY ConcatAssociative

(* What a reader can see of an event is a sequence of them.                *)
LEMMA AtomsType ==
  ASSUME NEW e \in Events
  PROVE  Atoms(e) \in Seq(AtomSet)
<1>1. \A i \in DOMAIN Atoms(e) : Atoms(e)[i] \in AtomSet
  BY DEF AtomSet
<1>2. CASE e.type \in ChunkTypes /\ e.id # Absent
  <2>1. e.delta \in Seq(Characters)
    BY <1>2, ChunkEvents DEF Chunks
  <2>2. PICK n \in Nat : DOMAIN e.delta = 1..n
    BY <2>1
  <2>3. Atoms(e) = [i \in 1..n |-> Atoms(e)[i]] /\ DOMAIN Atoms(e) = 1..n
    BY <1>2, <2>2 DEF Atoms
  <2>4. Atoms(e) \in [1..n -> AtomSet]
    BY <1>1, <2>3
  <2> QED
    BY <2>4, SeqDef
<1>3. CASE ~(e.type \in ChunkTypes /\ e.id # Absent)
  <2>1. Atoms(e) = <<<<e>>>>
    BY <1>3 DEF Atoms
  <2>2. DOMAIN Atoms(e) = 1..1 /\ Atoms(e)[1] = <<e>>
    BY <2>1
  <2>3. <<e>> \in AtomSet
    BY <1>1, <2>2
  <2> QED
    BY <2>1, <2>3
<1> QED
  BY <1>2, <1>3

TextAfter(text, e) == text \o Atoms(e)

LEMMA TextAfterType ==
  ASSUME NEW text \in Seq(AtomSet), NEW e \in Events
  PROVE  TextAfter(text, e) \in Seq(AtomSet)
  BY AtomsType, ConcatProperties DEF TextAfter

LEMMA TextFacts ==
  /\ Text(<<>>) = <<>>
  /\ \A s \in Seq(Events), e \in Events : Text(Append(s, e)) = TextAfter(Text(s), e)
<1> DEFINE F(batch) == CHOOSE f :
             f = [n \in 0..Len(batch) |-> IF n = 0 THEN <<>> ELSE TextAfter(f[n - 1], batch[n])]
<1>1. ASSUME NEW b \in Seq(Events)
      PROVE  /\ Text(b) = F(b)[Len(b)]
             /\ F(b)[0] = <<>>
             /\ \A n \in 1..Len(b) : F(b)[n] = TextAfter(F(b)[n - 1], b[n])
  <2>1. Text(b) = F(b)[Len(b)]
    BY DEF Text, TextAfter
  <2> DEFINE step == [n \in 1..Len(b) |-> [v \in Seq(AtomSet) |-> TextAfter(v, b[n])]]
  <2>2. \A n \in 1..Len(b), v \in Seq(AtomSet) : step[n][v] = TextAfter(v, b[n])
    OBVIOUS
  <2>3. Len(b) \in Nat /\ <<>> \in Seq(AtomSet)
    OBVIOUS
  <2> HIDE DEF step
  <2>4. IsStep(step, Len(b), Seq(AtomSet))
    <3>1. \A n \in 1..Len(b) : b[n] \in Events
      BY ElementOfSeq
    <3>2. \A n \in 1..Len(b), v \in Seq(AtomSet) : TextAfter(v, b[n]) \in Seq(AtomSet)
      BY <3>1, TextAfterType
    <3> QED
      BY <2>2, <3>2 DEF IsStep
  <2>5. PICK f \in [0..Len(b) -> Seq(AtomSet)] :
          f[0] = <<>> /\ \A n \in 1..Len(b) : f[n] = step[n][f[n - 1]]
    <3>1. PICK f : IsRecursion(f, Len(b), Seq(AtomSet), <<>>, step)
      BY <2>3, <2>4, RecursionExists
    <3> QED
      BY <3>1 DEF IsRecursion
  <2>6. ASSUME NEW n \in 0..Len(b)
        PROVE  f[n] = IF n = 0 THEN <<>> ELSE TextAfter(f[n - 1], b[n])
    <3>1. CASE n = 0
      BY <2>5, <3>1
    <3>2. CASE n # 0
      <4>1. n \in 1..Len(b) /\ f[n - 1] \in Seq(AtomSet)
        BY <2>3, <3>2
      <4> QED
        BY <2>2, <2>5, <3>2, <4>1
    <3> QED
      BY <3>1, <3>2
  <2>7. f = [n \in 0..Len(b) |-> IF n = 0 THEN <<>> ELSE TextAfter(f[n - 1], b[n])]
    <3>1. f = [n \in 0..Len(b) |-> f[n]]
      OBVIOUS
    <3> QED
      BY <2>6, <3>1
  <2>8. F(b) = [n \in 0..Len(b) |-> IF n = 0 THEN <<>> ELSE TextAfter(F(b)[n - 1], b[n])]
    BY <2>7
  <2> HIDE DEF F
  <2>9. \A n \in 0..Len(b) : F(b)[n] = IF n = 0 THEN <<>> ELSE TextAfter(F(b)[n - 1], b[n])
    BY <2>8
  <2> QED
    BY <2>1, <2>3, <2>9
<1> HIDE DEF F
<1>2. Text(<<>>) = <<>>
  <2>1. <<>> \in Seq(Events) /\ Len(<<>>) = 0
    OBVIOUS
  <2>2. Text(<<>>) = F(<<>>)[Len(<<>>)] /\ F(<<>>)[0] = <<>>
    BY <1>1, <2>1
  <2> QED
    BY <2>1, <2>2
<1>3. ASSUME NEW s \in Seq(Events), NEW e \in Events
      PROVE  Text(Append(s, e)) = TextAfter(Text(s), e)
  <2>1. PICK t \in Seq(Events) : t = Append(s, e)
    BY AppendFacts
  <2>2. /\ Len(s) \in Nat /\ Len(t) = Len(s) + 1 /\ t[Len(s) + 1] = e
        /\ \A n \in 1..Len(s) : t[n] = s[n]
    BY <2>1, AppendFacts
  <2>3. /\ F(t)[0] = F(s)[0]
        /\ \A n \in 1..Len(t) : F(t)[n] = TextAfter(F(t)[n - 1], t[n])
        /\ \A n \in 1..Len(s) : F(s)[n] = TextAfter(F(s)[n - 1], s[n])
    BY <1>1
  <2>4. ASSUME NEW n \in 1..Len(s), F(t)[n - 1] = F(s)[n - 1] PROVE F(t)[n] = F(s)[n]
    BY <2>2, <2>3, <2>4
  <2>5. F(t)[Len(s)] = F(s)[Len(s)]
    BY <2>2, <2>3, <2>4, AgreeUpTo
  <2>6. Text(t) = TextAfter(F(t)[(Len(s) + 1) - 1], e)
    BY <1>1, <2>2, <2>3
  <2>7. (Len(s) + 1) - 1 = Len(s)
    BY <2>2
  <2> QED
    BY <1>1, <2>1, <2>5, <2>6, <2>7
<1> QED
  BY <1>2, <1>3

LEMMA TextLength ==
  ASSUME NEW e \in Events, e.type = "TEXT_MESSAGE_CHUNK"
  PROVE  Len(e.delta) \in Nat
<1>1. e \in Chunks
  BY ChunkEvents DEF ChunkTypes
<1>2. e.delta \in Seq(Characters)
  BY <1>1 DEF Chunks
<1> QED
  BY <1>2

(* What TextOfLast counts after one more event.                            *)
CharsAfter(chars, e, id) ==
  IF e.type # "TEXT_MESSAGE_CHUNK" THEN chars
  ELSE IF e.id # id THEN 0
  ELSE chars + Len(e.delta)

LEMMA CharsAfterType ==
  ASSUME NEW id, NEW chars \in Nat, NEW e \in Events
  PROVE  CharsAfter(chars, e, id) \in Nat
  BY TextLength DEF CharsAfter

LEMMA TextOfLastFacts ==
  ASSUME NEW id
  PROVE  /\ TextOfLast(<<>>, id) = 0
         /\ \A s \in Seq(Events), e \in Events : TextOfLast(Append(s, e), id) = CharsAfter(TextOfLast(s, id), e, id)
<1> DEFINE F(batch) == CHOOSE f :
             f = [n \in 0..Len(batch) |-> IF n = 0 THEN 0 ELSE CharsAfter(f[n - 1], batch[n], id)]
<1>1. ASSUME NEW b \in Seq(Events)
      PROVE  /\ TextOfLast(b, id) = F(b)[Len(b)]
             /\ F(b)[0] = 0
             /\ \A n \in 1..Len(b) : F(b)[n] = CharsAfter(F(b)[n - 1], b[n], id)
  <2>1. TextOfLast(b, id) = F(b)[Len(b)]
    BY DEF TextOfLast, CharsAfter
  <2> DEFINE step == [n \in 1..Len(b) |-> [v \in Nat |-> CharsAfter(v, b[n], id)]]
  <2>2. \A n \in 1..Len(b), v \in Nat : step[n][v] = CharsAfter(v, b[n], id)
    OBVIOUS
  <2>3. Len(b) \in Nat /\ 0 \in Nat
    OBVIOUS
  <2> HIDE DEF step
  <2>4. IsStep(step, Len(b), Nat)
    <3>1. \A n \in 1..Len(b) : b[n] \in Events
      BY ElementOfSeq
    <3>2. \A n \in 1..Len(b), v \in Nat : CharsAfter(v, b[n], id) \in Nat
      BY <3>1, CharsAfterType
    <3> QED
      BY <2>2, <3>2 DEF IsStep
  <2>5. PICK f \in [0..Len(b) -> Nat] :
          f[0] = 0 /\ \A n \in 1..Len(b) : f[n] = step[n][f[n - 1]]
    <3>1. PICK f : IsRecursion(f, Len(b), Nat, 0, step)
      BY <2>3, <2>4, RecursionExists
    <3> QED
      BY <3>1 DEF IsRecursion
  <2>6. ASSUME NEW n \in 0..Len(b)
        PROVE  f[n] = IF n = 0 THEN 0 ELSE CharsAfter(f[n - 1], b[n], id)
    <3>1. CASE n = 0
      BY <2>5, <3>1
    <3>2. CASE n # 0
      <4>1. n \in 1..Len(b) /\ f[n - 1] \in Nat
        BY <2>3, <3>2
      <4> QED
        BY <2>2, <2>5, <3>2, <4>1
    <3> QED
      BY <3>1, <3>2
  <2>7. f = [n \in 0..Len(b) |-> IF n = 0 THEN 0 ELSE CharsAfter(f[n - 1], b[n], id)]
    <3>1. f = [n \in 0..Len(b) |-> f[n]]
      OBVIOUS
    <3> QED
      BY <2>6, <3>1
  <2>8. F(b) = [n \in 0..Len(b) |-> IF n = 0 THEN 0 ELSE CharsAfter(F(b)[n - 1], b[n], id)]
    BY <2>7
  <2> HIDE DEF F
  <2>9. \A n \in 0..Len(b) : F(b)[n] = IF n = 0 THEN 0 ELSE CharsAfter(F(b)[n - 1], b[n], id)
    BY <2>8
  <2> QED
    BY <2>1, <2>3, <2>9
<1> HIDE DEF F
<1>2. TextOfLast(<<>>, id) = 0
  <2>1. <<>> \in Seq(Events) /\ Len(<<>>) = 0
    OBVIOUS
  <2>2. TextOfLast(<<>>, id) = F(<<>>)[Len(<<>>)] /\ F(<<>>)[0] = 0
    BY <1>1, <2>1
  <2> QED
    BY <2>1, <2>2
<1>3. ASSUME NEW s \in Seq(Events), NEW e \in Events
      PROVE  TextOfLast(Append(s, e), id) = CharsAfter(TextOfLast(s, id), e, id)
  <2>1. PICK t \in Seq(Events) : t = Append(s, e)
    BY AppendFacts
  <2>2. /\ Len(s) \in Nat /\ Len(t) = Len(s) + 1 /\ t[Len(s) + 1] = e
        /\ \A n \in 1..Len(s) : t[n] = s[n]
    BY <2>1, AppendFacts
  <2>3. /\ F(t)[0] = F(s)[0]
        /\ \A n \in 1..Len(t) : F(t)[n] = CharsAfter(F(t)[n - 1], t[n], id)
        /\ \A n \in 1..Len(s) : F(s)[n] = CharsAfter(F(s)[n - 1], s[n], id)
    BY <1>1
  <2>4. ASSUME NEW n \in 1..Len(s), F(t)[n - 1] = F(s)[n - 1] PROVE F(t)[n] = F(s)[n]
    BY <2>2, <2>3, <2>4
  <2>5. F(t)[Len(s)] = F(s)[Len(s)]
    BY <2>2, <2>3, <2>4, AgreeUpTo
  <2>6. TextOfLast(t, id) = CharsAfter(F(t)[(Len(s) + 1) - 1], e, id)
    BY <1>1, <2>2, <2>3
  <2>7. (Len(s) + 1) - 1 = Len(s)
    BY <2>2
  <2> QED
    BY <1>1, <2>1, <2>5, <2>6, <2>7
<1> QED
  BY <1>2, <1>3

LEMMA TextOfLastType ==
  ASSUME NEW id, NEW b \in Seq(Events)
  PROVE  TextOfLast(b, id) \in Nat
<1> DEFINE P == {s \in Seq(Events) : TextOfLast(s, id) \in Nat}
<1>1. <<>> \in P
  BY TextOfLastFacts, EmptySeq
<1>2. ASSUME NEW s \in Seq(Events), NEW e \in Events, s \in P PROVE Append(s, e) \in P
  <2>1. TextOfLast(Append(s, e), id) = CharsAfter(TextOfLast(s, id), e, id)
    BY TextOfLastFacts
  <2>2. TextOfLast(Append(s, e), id) \in Nat
    BY <1>2, <2>1, CharsAfterType
  <2> QED
    BY <2>2, AppendFacts
<1>3. Seq(Events) \subseteq P
  <2> HIDE DEF P
  <2> QED
    BY <1>1, <1>2, SequenceInduction
<1> QED
  BY <1>3

LEMMA TextType ==
  ASSUME NEW b \in Seq(Events)
  PROVE  Text(b) \in Seq(AtomSet)
<1> DEFINE P == {s \in Seq(Events) : Text(s) \in Seq(AtomSet)}
<1>1. <<>> \in P
  <2>1. <<>> \in Seq(Events) /\ <<>> \in Seq(AtomSet)
    OBVIOUS
  <2> QED
    BY <2>1, TextFacts
<1>2. ASSUME NEW s \in Seq(Events), NEW e \in Events, s \in P PROVE Append(s, e) \in P
  <2>1. Text(Append(s, e)) = TextAfter(Text(s), e)
    BY TextFacts
  <2>2. Text(Append(s, e)) \in Seq(AtomSet)
    BY <1>2, <2>1, TextAfterType
  <2> QED
    BY <2>2, AppendFacts
<1>3. Seq(Events) \subseteq P
  <2> HIDE DEF P
  <2> QED
    BY <1>1, <1>2, SequenceInduction
<1> QED
  BY <1>3

LEMMA ConcatAppend ==
  ASSUME NEW S, NEW a \in Seq(S), NEW b \in Seq(S), NEW e \in S
  PROVE  a \o Append(b, e) = Append(a \o b, e)
<1>1. a \o Append(b, e) \in Seq(S) /\ Append(a \o b, e) \in Seq(S)
  BY AppendFacts, ConcatProperties
<1>2. Len(a \o Append(b, e)) = Len(Append(a \o b, e))
  OBVIOUS
<1>3. \A i \in 1..Len(a \o Append(b, e)) : (a \o Append(b, e))[i] = Append(a \o b, e)[i]
  OBVIOUS
<1> QED
  BY <1>1, <1>2, <1>3, SeqEqual

(* The text of two parts is the text of the one and then of the other.     *)
LEMMA TextOfConcat ==
  ASSUME NEW a \in Seq(Events), NEW b \in Seq(Events)
  PROVE  Text(a \o b) = Text(a) \o Text(b)
<1> DEFINE P == {s \in Seq(Events) : Text(a \o s) = Text(a) \o Text(s)}
<1>1. <<>> \in P
  <2>1. PICK t \in Seq(AtomSet) : t = Text(a)
    BY TextType
  <2>2. a \o <<>> = a /\ t \o <<>> = t /\ <<>> \in Seq(Events)
    BY ConcatEmptySeq, EmptySeq
  <2>3. Text(<<>>) = <<>>
    BY TextFacts
  <2>4. Text(a \o <<>>) = Text(a) \o Text(<<>>)
    BY <2>1, <2>2, <2>3
  <2> QED
    BY <2>2, <2>4
<1>2. ASSUME NEW s \in Seq(Events), NEW e \in Events, s \in P PROVE Append(s, e) \in P
  <2>1. Text(a \o Append(s, e)) = TextAfter(Text(a \o s), e)
    <3>1. a \o Append(s, e) = Append(a \o s, e) /\ a \o s \in Seq(Events)
      BY ConcatAppend, ConcatProperties
    <3> QED
      BY <3>1, TextFacts
  <2>2. Text(Append(s, e)) = TextAfter(Text(s), e)
    BY TextFacts
  <2>3. (Text(a) \o Text(s)) \o Atoms(e) = Text(a) \o (Text(s) \o Atoms(e))
    <3>1. PICK t \in Seq(AtomSet) : t = Text(a)
      BY TextType
    <3>2. PICK u \in Seq(AtomSet) : u = Text(s)
      BY TextType
    <3>3. PICK v \in Seq(AtomSet) : v = Atoms(e)
      BY AtomsType
    <3>4. (t \o u) \o v = t \o (u \o v)
      BY TextsAssociate
    <3> QED
      BY <3>1, <3>2, <3>3, <3>4
  <2>4. Text(a \o Append(s, e)) = Text(a) \o Text(Append(s, e))
    BY <1>2, <2>1, <2>2, <2>3 DEF TextAfter
  <2> QED
    BY <2>4, AppendFacts
<1>3. Seq(Events) \subseteq P
  <2> HIDE DEF P
  <2> QED
    BY <1>1, <1>2, SequenceInduction
<1> QED
  BY <1>3

LEMMA LengthOfDomain ==
  ASSUME NEW S, NEW s \in Seq(S), NEW n \in Nat, DOMAIN s = 1..n
  PROVE  Len(s) = n
<1>1. DOMAIN s = 1..Len(s) /\ Len(s) \in Nat
  OBVIOUS
<1>2. n \in 1..n <=> n \in 1..Len(s)
  BY <1>1
<1>3. Len(s) \in 1..Len(s) <=> Len(s) \in 1..n
  BY <1>1
<1> QED
  BY <1>1, <1>2, <1>3

(* A merged chunk has the characters of the two it was made of.            *)
LEMMA MergedText ==
  ASSUME NEW last \in Events, NEW e \in Events, NEW m \in Events, Merged(last, e, m)
  PROVE  Atoms(m) = Atoms(last) \o Atoms(e)
<1>1. PICK d \in Seq(Characters) : d = last.delta
  BY DEF Merged, Chunks
<1>2. PICK c \in Seq(Characters) : c = e.delta
  BY DEF Merged, Chunks
<1>3. e.type \in ChunkTypes
  BY DEF Merged, Chunks
<1> DEFINE Atom(ch) == <<e.type, e.owner, e.id, ch>>
<1>4. PICK x, y, z \in Seq(AtomSet) : x = Atoms(m) /\ y = Atoms(last) /\ z = Atoms(e)
  BY AtomsType
<1>5. /\ x = [i \in DOMAIN (d \o c) |-> Atom((d \o c)[i])]
      /\ y = [i \in DOMAIN d |-> Atom(d[i])]
      /\ z = [i \in DOMAIN c |-> Atom(c[i])]
  BY <1>1, <1>2, <1>3, <1>4 DEF Merged, Atoms
<1> HIDE DEF Atom
<1>6. /\ d \o c \in Seq(Characters) /\ Len(d \o c) = Len(d) + Len(c)
      /\ \A i \in 1..Len(d) + Len(c) :
           (d \o c)[i] = IF i <= Len(d) THEN d[i] ELSE c[i - Len(d)]
  BY ConcatProperties
<1>7. /\ DOMAIN d = 1..Len(d) /\ DOMAIN c = 1..Len(c) /\ DOMAIN (d \o c) = 1..Len(d) + Len(c)
      /\ Len(d) \in Nat /\ Len(c) \in Nat
  BY <1>6, LenProperties
<1>8. Len(x) = Len(d) + Len(c) /\ Len(y) = Len(d) /\ Len(z) = Len(c)
  <2>1. DOMAIN x = 1..Len(d) + Len(c) /\ DOMAIN y = 1..Len(d) /\ DOMAIN z = 1..Len(c)
    BY <1>5, <1>7
  <2>2. Len(d) + Len(c) \in Nat
    BY <1>7
  <2>3. Len(x) = Len(d) + Len(c)
    BY <2>1, <2>2, LengthOfDomain
  <2>4. Len(y) = Len(d)
    BY <1>7, <2>1, LengthOfDomain
  <2>5. Len(z) = Len(c)
    BY <1>7, <2>1, LengthOfDomain
  <2> QED
    BY <2>3, <2>4, <2>5
<1>9. /\ y \o z \in Seq(AtomSet)
      /\ Len(y \o z) = Len(d) + Len(c)
      /\ \A i \in 1..Len(d) + Len(c) : (y \o z)[i] =
           IF i <= Len(d) THEN y[i] ELSE z[i - Len(d)]
  <2>1. /\ y \o z \in Seq(AtomSet)
        /\ Len(y \o z) = Len(y) + Len(z)
        /\ \A i \in 1..Len(y) + Len(z) : (y \o z)[i] =
             IF i <= Len(y) THEN y[i] ELSE z[i - Len(y)]
    BY ConcatProperties
  <2>2. Len(y) = Len(d) /\ Len(z) = Len(c)
    BY <1>8
  <2> QED
    BY <2>1, <2>2
<1>10. ASSUME NEW i \in 1..Len(d) + Len(c)
       PROVE  x[i] = (y \o z)[i]
  <2>1. x[i] = Atom(IF i <= Len(d) THEN d[i] ELSE c[i - Len(d)])
    BY <1>5, <1>6, <1>7
  <2>2. CASE i <= Len(d)
    <3>1. i \in 1..Len(d)
      BY <1>7, <2>2
    <3>2. y[i] = Atom(d[i])
      BY <1>5, <1>7, <3>1
    <3> QED
      BY <1>9, <2>1, <2>2, <3>2
  <2>3. CASE ~(i <= Len(d))
    <3>1. i - Len(d) \in 1..Len(c)
      BY <1>7, <2>3
    <3>2. z[i - Len(d)] = Atom(c[i - Len(d)])
      BY <1>5, <1>7, <3>1
    <3> QED
      BY <1>9, <2>1, <2>3, <3>2
  <2> QED
    BY <2>2, <2>3
<1>11. x = y \o z
  BY <1>8, <1>9, <1>10, SeqEqual
<1> QED
  BY <1>4, <1>11

(* Coalescing a batch keeps its characters and its other events, in order. *)
LEMMA CoalesceKeepsText ==
  ASSUME NEW b \in Seq(Events)
  PROVE  Text(Coalesce(b)) = Text(b)
<1> DEFINE P == {s \in Seq(Events) : Text(Coalesce(s)) = Text(s)}
<1>1. <<>> \in P
  BY CoalesceFacts, EmptySeq
<1>2. ASSUME NEW s \in Seq(Events), NEW e \in Events, s \in P PROVE Append(s, e) \in P
  <2>1. PICK c \in Seq(Events) : c = Coalesce(s)
    BY CoalesceType
  <2>2. Coalesce(Append(s, e)) = Merge(c, e)
    BY <2>1, CoalesceFacts
  <2>3. Text(Append(s, e)) = TextAfter(Text(c), e)
    BY <1>2, <2>1, TextFacts
  <2>4. CASE Merge(c, e) = Append(c, e)
    BY <2>2, <2>3, <2>4, TextFacts, AppendFacts
  <2>5. ASSUME NEW front \in Seq(Events), NEW last \in Events, NEW m \in Events,
               c = Append(front, last), Merge(c, e) = Append(front, m), Merged(last, e, m)
        PROVE  Text(Merge(c, e)) = TextAfter(Text(c), e)
    <3>1. PICK t \in Seq(AtomSet) : t = Text(front)
      BY TextType
    <3>2. PICK x, y \in Seq(AtomSet) : x = Atoms(last) /\ y = Atoms(e)
      BY AtomsType
    <3>3. Text(Append(front, m)) = t \o (x \o y)
      <4>1. Text(Append(front, m)) = TextAfter(t, m)
        BY <3>1, TextFacts
      <4>2. Atoms(m) = x \o y
        BY <2>5, <3>2, MergedText
      <4> QED
        BY <4>1, <4>2 DEF TextAfter
    <3>4. TextAfter(Text(c), e) = (t \o x) \o y
      BY <2>5, <3>1, <3>2, TextFacts DEF TextAfter
    <3>5. (t \o x) \o y = t \o (x \o y)
      BY TextsAssociate
    <3> QED
      BY <2>5, <3>3, <3>4, <3>5
  <2>6. Text(Merge(c, e)) = TextAfter(Text(c), e)
    BY <2>4, <2>5, MergeCases, TextFacts
  <2> QED
    BY <2>2, <2>3, <2>6, AppendFacts
<1>3. Seq(Events) \subseteq P
  <2> HIDE DEF P
  <2> QED
    BY <1>1, <1>2, SequenceInduction
<1> QED
  BY <1>3

-----------------------------------------------------------------------------
(* The last write of a longer sequence is its last event or the last write *)
(* before that.                                                            *)
LEMMA FinalMetaOfAppend ==
  ASSUME NEW s \in Seq(Events), NEW e \in Events, NEW key
  PROVE  FinalMeta(Append(s, e), key) =
           IF Writes(e, key) THEN e.meta ELSE FinalMeta(s, key)
<1>1. PICK t \in Seq(Events) : t = Append(s, e)
  BY AppendFacts
<1>2. /\ Len(s) \in Nat /\ Len(t) = Len(s) + 1 /\ t[Len(s) + 1] = e
      /\ \A n \in 1..Len(s) : t[n] = s[n]
      /\ DOMAIN t = 1..Len(s) + 1 /\ DOMAIN s = 1..Len(s)
  BY <1>1, AppendFacts, LenProperties
<1> DEFINE W(q) == {i \in DOMAIN q : Writes(q[i], key)}
           Latest(I) == CHOOSE i \in I : \A j \in I : i >= j
<1>3. \A q : FinalMeta(q, key) = IF W(q) = {} THEN Absent ELSE q[Latest(W(q))].meta
  BY DEF FinalMeta
<1>4. CASE Writes(e, key)
  <2>1. Len(s) + 1 \in W(t) /\ \A j \in W(t) : j \in 1..Len(s) + 1
    BY <1>2, <1>4
  <2> HIDE DEF W
  <2>2. \A i \in W(t) : (\A j \in W(t) : i >= j) => i = Len(s) + 1
    BY <1>2, <2>1
  <2>3. \A j \in W(t) : Len(s) + 1 >= j
    BY <1>2, <2>1
  <2>4. Latest(W(t)) = Len(s) + 1
    BY <2>1, <2>2, <2>3
  <2> QED
    BY <1>1, <1>2, <1>3, <1>4, <2>1, <2>4
<1>5. CASE ~Writes(e, key)
  <2>1. W(t) = W(s)
    BY <1>2, <1>5
  <2>2. W(s) \subseteq 1..Len(s)
    BY <1>2
  <2> HIDE DEF W
  <2>3. CASE W(s) = {}
    BY <1>1, <1>3, <1>5, <2>1, <2>3
  <2>4. CASE W(s) # {}
    <3>1. \E i \in W(s) : \A j \in W(s) : i >= j
      BY <1>2, <2>2, <2>4, GreatestExists
    <3>2. Latest(W(s)) \in W(s)
      BY <3>1
    <3> HIDE DEF Latest
    <3>3. t[Latest(W(s))] = s[Latest(W(s))]
      BY <1>2, <2>2, <3>2
    <3> QED
      BY <1>1, <1>3, <1>5, <2>1, <2>4, <3>3
  <2> QED
    BY <2>3, <2>4
<1> QED
  BY <1>4, <1>5

(* Coalescing a batch keeps the metadata each stream ends up with.         *)
LEMMA CoalesceKeepsMeta ==
  ASSUME NEW a \in Seq(Events), NEW b \in Seq(Events), NEW key
  PROVE  FinalMeta(a \o Coalesce(b), key) = FinalMeta(a \o b, key)
<1> DEFINE P == {s \in Seq(Events) : FinalMeta(a \o Coalesce(s), key) = FinalMeta(a \o s, key)}
<1>1. <<>> \in P
  BY CoalesceFacts, EmptySeq
<1>2. ASSUME NEW s \in Seq(Events), NEW e \in Events, s \in P PROVE Append(s, e) \in P
  <2>1. PICK c \in Seq(Events) : c = Coalesce(s)
    BY CoalesceType
  <2>2. Coalesce(Append(s, e)) = Merge(c, e)
    BY <2>1, CoalesceFacts
  <2>3. ASSUME NEW q \in Seq(Events), NEW x \in Events
        PROVE  FinalMeta(a \o Append(q, x), key) =
                 IF Writes(x, key) THEN x.meta ELSE FinalMeta(a \o q, key)
    <3>1. PICK u \in Seq(Events) : u = a \o q
      BY ConcatProperties
    <3>2. a \o Append(q, x) = Append(u, x)
      BY <3>1, ConcatAppend
    <3>3. FinalMeta(Append(u, x), key) = IF Writes(x, key) THEN x.meta ELSE FinalMeta(u, key)
      BY FinalMetaOfAppend
    <3> QED
      BY <3>1, <3>2, <3>3
  <2>4. FinalMeta(a \o Append(s, e), key) =
          IF Writes(e, key) THEN e.meta ELSE FinalMeta(a \o c, key)
    BY <1>2, <2>1, <2>3
  <2>5. ASSUME Merge(c, e) = Append(c, e)
        PROVE  FinalMeta(a \o Merge(c, e), key) = FinalMeta(a \o Append(s, e), key)
    <3>1. FinalMeta(a \o Append(c, e), key) =
            IF Writes(e, key) THEN e.meta ELSE FinalMeta(a \o c, key)
      BY <2>3
    <3> QED
      BY <2>4, <2>5, <3>1
  <2>6. ASSUME NEW front \in Seq(Events), NEW last \in Events, NEW m \in Events,
               c = Append(front, last), Merge(c, e) = Append(front, m), Merged(last, e, m)
        PROVE  FinalMeta(a \o Merge(c, e), key) = FinalMeta(a \o Append(s, e), key)
    <3>1. FinalMeta(a \o Append(front, m), key) =
            IF Writes(m, key) THEN m.meta ELSE FinalMeta(a \o front, key)
      BY <2>3
    <3>2. FinalMeta(a \o c, key) =
            IF Writes(last, key) THEN last.meta ELSE FinalMeta(a \o front, key)
      BY <2>3, <2>6
    <3>3. /\ Writes(m, key) <=> Writes(last, key) \/ Writes(e, key)
          /\ Writes(e, key) => m.meta = e.meta
          /\ Writes(last, key) /\ ~Writes(e, key) => m.meta = last.meta
      BY <2>6 DEF Merged, Writes, Chunks
    <3> QED
      BY <2>4, <2>6, <3>1, <3>2, <3>3
  <2>7. FinalMeta(a \o Merge(c, e), key) = FinalMeta(a \o Append(s, e), key)
    <3>1. \/ Merge(c, e) = Append(c, e)
          \/ \E front \in Seq(Events), last, m \in Events :
               /\ c = Append(front, last) /\ Merge(c, e) = Append(front, m)
               /\ Merged(last, e, m)
      BY MergeCases
    <3> QED
      BY <2>5, <2>6, <3>1, Zenon
  <2> QED
    BY <2>2, <2>7, AppendFacts
<1>3. Seq(Events) \subseteq P
  <2> HIDE DEF P
  <2> QED
    BY <1>1, <1>2, SequenceInduction
<1> QED
  BY <1>3

-----------------------------------------------------------------------------
(* What has been delivered, followed by what is held, says what was sent.  *)
Carried(d, b, r) ==
  Text(d \o b) = Text(r) /\ \A key : FinalMeta(d \o b, key) = FinalMeta(r, key)

LEMMA HoldingCarries ==
  ASSUME NEW d \in Seq(Events), NEW b \in Seq(Events), NEW r \in Seq(Events),
         NEW e \in Events, Carried(d, b, r)
  PROVE  Carried(d, Append(b, e), Append(r, e))
<1>1. PICK u \in Seq(Events) : u = d \o b
  BY ConcatProperties
<1>2. d \o Append(b, e) = Append(u, e)
  BY <1>1, ConcatAppend
<1>3. Text(Append(u, e)) = TextAfter(Text(u), e) /\ Text(Append(r, e)) = TextAfter(Text(r), e)
  BY TextFacts
<1>4. ASSUME NEW key PROVE FinalMeta(Append(u, e), key) = FinalMeta(Append(r, e), key)
  <2>1. FinalMeta(u, key) = FinalMeta(r, key)
    BY <1>1 DEF Carried
  <2>2. FinalMeta(Append(u, e), key) = IF Writes(e, key) THEN e.meta ELSE FinalMeta(u, key)
    BY FinalMetaOfAppend
  <2>3. FinalMeta(Append(r, e), key) = IF Writes(e, key) THEN e.meta ELSE FinalMeta(r, key)
    BY FinalMetaOfAppend
  <2> QED
    BY <2>1, <2>2, <2>3
<1>5. Text(u) = Text(r)
  BY <1>1 DEF Carried
<1> QED
  BY <1>2, <1>3, <1>4, <1>5 DEF Carried

LEMMA DeliveringCarries ==
  ASSUME NEW d \in Seq(Events), NEW b \in Seq(Events), NEW r \in Seq(Events),
         Carried(d, b, r)
  PROVE  d \o Coalesce(b) \in Seq(Events) /\ Carried(d \o Coalesce(b), <<>>, r)
<1>1. PICK c \in Seq(Events) : c = Coalesce(b)
  BY CoalesceType
<1>2. PICK u \in Seq(Events) : u = d \o c
  BY ConcatProperties
<1>3. u \o <<>> = u
  BY ConcatEmptySeq
<1>4. Text(u) = Text(d) \o Text(c) /\ Text(d \o b) = Text(d) \o Text(b)
  BY <1>2, TextOfConcat
<1>5. Text(c) = Text(b)
  BY <1>1, CoalesceKeepsText
<1>6. ASSUME NEW key PROVE FinalMeta(u, key) = FinalMeta(d \o b, key)
  BY <1>1, <1>2, CoalesceKeepsMeta
<1>7. Carried(u, <<>>, r)
  BY <1>3, <1>4, <1>5, <1>6 DEF Carried
<1> QED
  BY <1>1, <1>2, <1>7

LEMMA PassingOnCarries ==
  ASSUME NEW d \in Seq(Events), NEW b \in Seq(Events), NEW r \in Seq(Events),
         NEW e \in Events, Carried(d, b, r)
  PROVE  /\ d \o Coalesce(b) \o <<e>> \in Seq(Events)
         /\ Carried(d \o Coalesce(b) \o <<e>>, <<>>, Append(r, e))
<1>1. PICK u \in Seq(Events) : u = d \o Coalesce(b) /\ Carried(u, <<>>, r)
  BY DeliveringCarries
<1>2. <<>> \in Seq(Events) /\ Append(<<>>, e) = <<e>> /\ <<e>> \in Seq(Events)
  OBVIOUS
<1>3. Carried(u, <<e>>, Append(r, e))
  BY <1>1, <1>2, HoldingCarries
<1>4. PICK v \in Seq(Events) : v = u \o <<e>>
  BY <1>2, ConcatProperties
<1>5. v \o <<>> = v
  BY ConcatEmptySeq
<1>6. Carried(v, <<>>, Append(r, e))
  BY <1>3, <1>4, <1>5 DEF Carried
<1> QED
  BY <1>1, <1>4, <1>6

LEMMA CarriedIsPrefix ==
  ASSUME NEW d \in Seq(Events), NEW b \in Seq(Events), NEW r, Carried(d, b, r)
  PROVE  IsPrefix(Text(d), Text(r))
<1>1. PICK t \in Seq(AtomSet) : t = Text(d)
  BY TextType
<1>2. PICK u \in Seq(AtomSet) : u = Text(b)
  BY TextType
<1>3. Text(r) = t \o u
  BY <1>1, <1>2, TextOfConcat DEF Carried
<1>4. /\ t \o u \in Seq(AtomSet) /\ Len(t \o u) = Len(t) + Len(u)
      /\ \A i \in 1..Len(t) + Len(u) : (t \o u)[i] = IF i <= Len(t) THEN t[i] ELSE u[i - Len(t)]
  BY ConcatProperties
<1>5. Len(t) \in Nat /\ Len(u) \in Nat
  OBVIOUS
<1>6. SubSeq(t \o u, 1, Len(t)) = SubSeq(t, 1, Len(t))
  <2>1. \A i \in 1..Len(t) : (t \o u)[i] = t[i] /\ t[i] \in AtomSet
    BY <1>4, <1>5, ElementOfSeq
  <2>2. PICK n \in Nat : n = Len(t)
    BY <1>5
  <2>3. /\ SubSeq(t, 1, n) \in Seq(AtomSet)
        /\ Len(SubSeq(t, 1, n)) = IF 1 <= n THEN n - 1 + 1 ELSE 0
        /\ \A i \in 1..(n - 1 + 1) : SubSeq(t, 1, n)[i] = t[1 + i - 1]
    BY <2>1, <2>2, SubSeqProperties
  <2>4. /\ SubSeq(t \o u, 1, n) \in Seq(AtomSet)
        /\ Len(SubSeq(t \o u, 1, n)) = IF 1 <= n THEN n - 1 + 1 ELSE 0
        /\ \A i \in 1..(n - 1 + 1) : SubSeq(t \o u, 1, n)[i] = (t \o u)[1 + i - 1]
    BY <2>1, <2>2, SubSeqProperties
  <2>5. Len(SubSeq(t, 1, n)) = n /\ Len(SubSeq(t \o u, 1, n)) = n
    BY <2>3, <2>4
  <2>6. ASSUME NEW i \in 1..n PROVE SubSeq(t \o u, 1, n)[i] = SubSeq(t, 1, n)[i]
    <3>1. i \in 1..(n - 1 + 1) /\ 1 + i - 1 = i
      OBVIOUS
    <3> QED
      BY <2>1, <2>2, <2>3, <2>4, <3>1
  <2>7. SubSeq(t \o u, 1, n) = SubSeq(t, 1, n)
    BY <2>3, <2>4, <2>5, <2>6, SeqEqual
  <2> QED
    BY <2>2, <2>7
<1> QED
  BY <1>1, <1>3, <1>4, <1>5, <1>6 DEF IsPrefix

-----------------------------------------------------------------------------
(* The history variables: the stream so far, and how much of it has gone   *)
(* out.  A timer runs only while the stream is open, which is what keeps a *)
(* dropped buffer from being delivered after all.                          *)
Sizes ==
  /\ received \in Seq(Arrivals) /\ delivered \in Seq(Events)
  /\ Len(received) <= MaxEvents /\ Len(delivered) + Len(buffer) <= Len(received)
  /\ leading \in BOOLEAN /\ charsSinceFlush \in Nat
  /\ IntervalMs = 0 => timer = Off

Contents ==
  /\ stream \in {"open", "completed"} => Carried(delivered, buffer, received)
  /\ stream = "completed" => buffer = <<>>
  /\ IsPrefix(Text(delivered), Text(received))

StreamInv == IInv /\ Sizes /\ Contents

LEMMA ArrivalsAreEvents == Seq(Arrivals) \subseteq Seq(Events)
  BY SeqMonotonic DEF Events

LEMMA StreamInit == Init => StreamInv
<1> SUFFICES ASSUME Init PROVE StreamInv
  OBVIOUS
<1>1. /\ buffer = <<>> /\ delivered = <<>> /\ received = <<>> /\ timer = Off
      /\ leading = TRUE /\ charsSinceFlush = 0 /\ stream = "open"
  BY DEF Init
<1>2. <<>> \in Seq(Events) /\ <<>> \in Seq(Arrivals) /\ Len(<<>>) = 0 /\ <<>> \o <<>> = <<>>
  OBVIOUS
<1>3. Sizes
  BY <1>1, <1>2, EventBound DEF Sizes
<1>4. Carried(<<>>, <<>>, <<>>)
  BY <1>2 DEF Carried
<1>5. Contents
  BY <1>1, <1>2, <1>4, CarriedIsPrefix DEF Contents
<1> QED
  BY <1>3, <1>5, InitEstablishes DEF StreamInv

(* Sending what is pending, which is at most as long as it was.            *)
LEMMA DeliveredLength ==
  ASSUME NEW d \in Seq(Events), NEW p \in Seq(Events)
  PROVE  /\ d \o Coalesce(p) \in Seq(Events)
         /\ Len(d \o Coalesce(p)) <= Len(d) + Len(p)
<1>1. PICK c \in Seq(Events) : c = Coalesce(p) /\ Len(c) <= Len(p)
  BY CoalesceType
<1>2. d \o c \in Seq(Events) /\ Len(d \o c) = Len(d) + Len(c)
  BY ConcatProperties
<1>3. Len(d) \in Nat /\ Len(c) \in Nat /\ Len(p) \in Nat
  OBVIOUS
<1> QED
  BY <1>1, <1>2, <1>3

LEMMA FlushEffects ==
  ASSUME Sizes, NEW pending, NEW chars \in Nat, Flush(pending, chars)
  PROVE  /\ timer' = Off /\ buffer' = <<>>
         /\ delivered' = delivered \o Coalesce(pending)
         /\ leading' \in BOOLEAN /\ charsSinceFlush' \in Nat
<1>1. timer' = Off /\ buffer' = <<>> /\ delivered' = delivered \o Coalesce(pending)
  BY DEF Flush
<1>2. leading' = leading \/ leading' = FALSE
  BY DEF Flush
<1>3. leading' \in BOOLEAN
  BY <1>2, Zenon DEF Sizes
<1>4. charsSinceFlush' = chars \/ charsSinceFlush' = 0
  BY DEF Flush
<1>5. charsSinceFlush' \in Nat
  BY <1>4
<1> QED
  BY <1>1, <1>3, <1>5

LEMMA StreamSourceNext ==
  ASSUME StreamInv, NEW e \in Arrivals, SourceNext(e)
  PROVE  Sizes' /\ Contents'
<1>1. /\ stream = "open" /\ stream' = "open"
      /\ received' = Append(received, e) /\ Len(received) < MaxEvents
  BY DEF SourceNext
<1>2. PICK d \in Seq(Events), b \in Seq(Arrivals), r \in Seq(Arrivals) :
        d = delivered /\ b = buffer /\ r = received
  BY DEF StreamInv, IInv, Ranges, Sizes
<1>3. b \in Seq(Events) /\ r \in Seq(Events) /\ e \in Events
  BY ArrivalsAreEvents DEF Events
<1>4. Carried(d, b, r)
  BY <1>1, <1>2 DEF StreamInv, Contents
<1>5. /\ Append(r, e) \in Seq(Arrivals) /\ Len(Append(r, e)) = Len(r) + 1
      /\ Append(b, e) \in Seq(Events) /\ Len(Append(b, e)) = Len(b) + 1
      /\ Append(r, e) \in Seq(Events)
      /\ Len(b) \in Nat /\ Len(r) \in Nat /\ Len(d) \in Nat
      /\ Len(r) < MaxEvents /\ Len(d) + Len(b) <= Len(r)
  BY <1>1, <1>2, <1>3, AppendFacts DEF StreamInv, Sizes
<1>6. Carried(d, Append(b, e), Append(r, e))
  BY <1>3, <1>4, HoldingCarries
<1>7. Len(<<>>) = 0 /\ <<>> \in Seq(Events)
  OBVIOUS
<1>8. CASE Immediate(e)
  <2>1. PICK u \in Seq(Events) : u = d \o Coalesce(b) /\ Len(u) <= Len(d) + Len(b)
    BY <1>3, DeliveredLength
  <2>2. PICK v \in Seq(Events) : v = u \o <<e>> /\ Len(v) = Len(u) + 1
    <3>1. PICK w \in Seq(Events) : w = Append(<<>>, e) /\ Len(w) = 1
      <4>1. Append(<<>>, e) \in Seq(Events) /\ Len(Append(<<>>, e)) = Len(<<>>) + 1
        BY <1>3, <1>7, AppendFacts
      <4>2. Len(Append(<<>>, e)) = 1
        BY <1>7, <4>1
      <4> QED
        BY <4>1, <4>2
    <3>2. u \o w \in Seq(Events) /\ Len(u \o w) = Len(u) + Len(w)
      BY ConcatProperties
    <3>3. Append(<<>>, e) = <<e>>
      OBVIOUS
    <3> QED
      BY <3>1, <3>2, <3>3
  <2>3. /\ delivered' = v /\ buffer' = <<>> /\ timer' = Off /\ leading' \in BOOLEAN
        /\ charsSinceFlush' \in Nat
    <3>1. leading' \in BOOLEAN
      BY <1>8, Zenon DEF Immediate
    <3> QED
      BY <1>2, <1>8, <2>1, <2>2, <3>1 DEF Immediate, StreamInv, Sizes
  <2>4. Carried(v, <<>>, Append(r, e))
    BY <1>3, <1>4, <2>1, <2>2, PassingOnCarries
  <2>5. Sizes'
    BY <1>1, <1>2, <1>5, <1>7, <2>1, <2>2, <2>3, EventBound DEF Sizes
  <2>6. IsPrefix(Text(v), Text(Append(r, e)))
    BY <1>7, <2>4, CarriedIsPrefix
  <2>7. Contents'
    BY <1>1, <1>2, <2>3, <2>4, <2>6 DEF Contents
  <2> QED
    BY <2>5, <2>7
<1>9. CASE Buffered(e)
  <2>1. CharsWith(e) \in Nat
    <3>1. Counted(e) => Len(e.delta) \in Nat
      BY <1>3, TextLength DEF Counted
    <3>2. charsSinceFlush \in Nat
      BY DEF StreamInv, Sizes
    <3>3. \/ CharsWith(e) = charsSinceFlush
          \/ Counted(e) /\ CharsWith(e) = Len(e.delta) + charsSinceFlush
          \/ Counted(e) /\ CharsWith(e) = Len(e.delta) + 0
      BY DEF CharsWith
    <3> QED
      BY <3>1, <3>2, <3>3
  <2>2. CASE ThresholdMet(e)
    <3>1. PICK v \in Seq(Events) :
            v = d \o Coalesce(Append(b, e)) /\ Len(v) <= Len(d) + Len(Append(b, e))
      BY <1>5, DeliveredLength
    <3>2. Flush(Append(buffer, e), CharsWith(e))
      BY <1>9, <2>2 DEF Buffered
    <3>3. /\ delivered' = v /\ buffer' = <<>> /\ timer' = Off
          /\ leading' \in BOOLEAN /\ charsSinceFlush' \in Nat
      BY <1>2, <2>1, <3>1, <3>2, FlushEffects DEF StreamInv
    <3>4. Carried(v, <<>>, Append(r, e))
      BY <1>5, <1>6, <3>1, DeliveringCarries
    <3>5. Sizes'
      BY <1>1, <1>2, <1>5, <1>7, <3>1, <3>3, EventBound DEF Sizes
    <3>6. IsPrefix(Text(v), Text(Append(r, e)))
      BY <1>7, <3>4, CarriedIsPrefix
    <3>7. Contents'
      BY <1>1, <1>2, <3>3, <3>4, <3>6 DEF Contents
    <3> QED
      BY <3>5, <3>7
  <2>3. CASE ~ThresholdMet(e)
    <3>1. /\ delivered' = d /\ buffer' = Append(b, e) /\ leading' = leading
          /\ charsSinceFlush' \in Nat /\ (IntervalMs = 0 => timer' = timer)
      BY <1>2, <1>9, <2>1, <2>3 DEF Buffered, ScheduleTrailing
    <3>2. Sizes'
      BY <1>1, <1>2, <1>5, <3>1, EventBound DEF StreamInv, Sizes
    <3>3. IsPrefix(Text(d), Text(Append(r, e)))
      BY <1>5, <1>6, CarriedIsPrefix
    <3>4. Contents'
      BY <1>1, <1>2, <1>6, <3>1, <3>3 DEF Contents
    <3> QED
      BY <3>2, <3>4
  <2> QED
    BY <2>2, <2>3
<1> QED
  BY <1>8, <1>9 DEF SourceNext

(* Sending what is held while the stream is open, at its end or when the   *)
(* timer fires.                                                            *)
LEMMA StreamFlush ==
  ASSUME StreamInv, stream = "open", Flush(buffer, charsSinceFlush), received' = received,
         stream' \in {"open", "completed"}
  PROVE  Sizes' /\ Contents'
<1>1. PICK d \in Seq(Events), b \in Seq(Events), r \in Seq(Events) :
        d = delivered /\ b = buffer /\ r = received
  BY ArrivalsAreEvents DEF StreamInv, IInv, Ranges, Sizes
<1>2. Carried(d, b, r)
  BY <1>1 DEF StreamInv, Contents
<1>3. PICK v \in Seq(Events) : v = d \o Coalesce(b) /\ Len(v) <= Len(d) + Len(b)
  BY DeliveredLength
<1>4. Carried(v, <<>>, r)
  BY <1>2, <1>3, DeliveringCarries
<1>5. /\ delivered' = v /\ buffer' = <<>> /\ timer' = Off
      /\ leading' \in BOOLEAN /\ charsSinceFlush' \in Nat
  <2>1. charsSinceFlush \in Nat
    BY DEF StreamInv, Sizes
  <2> QED
    BY <1>1, <1>3, <2>1, FlushEffects DEF StreamInv
<1>6. Len(<<>>) = 0 /\ <<>> \in Seq(Events) /\ Len(d) \in Nat /\ Len(b) \in Nat /\ Len(v) \in Nat
  OBVIOUS
<1>7. Sizes'
  BY <1>1, <1>3, <1>5, <1>6 DEF StreamInv, Sizes
<1>8. IsPrefix(Text(v), Text(r))
  BY <1>4, <1>6, CarriedIsPrefix
<1>9. Contents'
  BY <1>1, <1>4, <1>5, <1>8 DEF Contents
<1> QED
  BY <1>7, <1>9

LEMMA StreamNext == StreamInv /\ [Next]_vars => StreamInv'
<1> SUFFICES ASSUME StreamInv, [Next]_vars PROVE Sizes' /\ Contents'
  BY NextPreserves DEF StreamInv
<1>1. ASSUME NEW e \in Arrivals, SourceNext(e) PROVE Sizes' /\ Contents'
  BY <1>1, StreamSourceNext
<1>2. CASE SourceCompletes
  BY <1>2, StreamFlush DEF SourceCompletes
<1>3. CASE SourceFails
  <2>1. /\ stream' = "errored" /\ buffer' = <<>> /\ timer' = Off
        /\ UNCHANGED <<leading, charsSinceFlush, received, delivered>>
    BY <1>3 DEF SourceFails
  <2>2. Len(<<>>) = 0 /\ Len(buffer) \in Nat /\ Len(delivered) \in Nat /\ Len(received) \in Nat
    BY DEF StreamInv, IInv, Ranges, Sizes
  <2>3. Sizes'
    BY <2>1, <2>2 DEF StreamInv, Sizes
  <2>4. Contents'
    BY <2>1 DEF StreamInv, Contents
  <2> QED
    BY <2>3, <2>4
<1>4. CASE Unsubscribe
  <2>1. Sizes'
    BY <1>4 DEF Unsubscribe, StreamInv, Sizes
  <2>2. Contents'
    BY <1>4 DEF Unsubscribe, StreamInv, Contents
  <2> QED
    BY <2>1, <2>2
<1>5. CASE TimerFires
  <2>1. timer # Off
    BY <1>5 DEF TimerFires, Off
  <2>2. stream = "open"
    BY <2>1, ThrottleConfig DEF StreamInv, IInv, HeldIsTimed, Sizes
  <2> QED
    BY <1>5, <2>2, StreamFlush DEF TimerFires
<1>6. CASE Tick
  <2>1. /\ IntervalMs # 0
        /\ UNCHANGED <<buffer, leading, charsSinceFlush, stream, received, delivered>>
    BY <1>6, ThrottleConfig DEF Tick, StreamInv, IInv, Ranges
  <2>2. Sizes'
    BY <2>1 DEF StreamInv, Sizes
  <2>3. Contents'
    BY <2>1 DEF StreamInv, Contents
  <2> QED
    BY <2>2, <2>3
<1>7. CASE UNCHANGED vars
  BY <1>7 DEF vars, StreamInv, Sizes, Contents
<1> QED
  BY <1>1, <1>2, <1>3, <1>4, <1>5, <1>6, <1>7 DEF Next

LEMMA StreamAlways == Spec => []StreamInv
  BY StreamInit, StreamNext, PTL DEF Spec

(* The middleware holds back and delivers no more events than it received, *)
(* its counter is a number and its clock and timer stay within the window, *)
(* for every window, threshold and set of events.                          *)
THEOREM ThrottleTypesHold == Spec => []TypeOK
<1>1. StreamInv => TypeOK
  <2> SUFFICES ASSUME StreamInv PROVE TypeOK
    OBVIOUS
  <2>1. Len(buffer) \in Nat /\ Len(delivered) \in Nat /\ Len(received) \in Nat
    BY DEF StreamInv, IInv, Ranges, Sizes
  <2>2. Len(buffer) <= MaxEvents /\ Len(delivered) <= MaxEvents
    BY <2>1, EventBound DEF StreamInv, Sizes
  <2>3. elapsed \in 0..IntervalMs /\ timer \in {Off} \cup 0..IntervalMs
    BY ThrottleConfig DEF StreamInv, IInv, Ranges
  <2>4. leading \in BOOLEAN
    BY Zenon DEF StreamInv, Sizes
  <2> QED
    BY <2>2, <2>3, <2>4 DEF TypeOK, StreamInv, IInv, Ranges, Sizes
<1> QED
  BY <1>1, StreamAlways, PTL

(* Whatever is coalesced, timed, passed on or cut short: no character and  *)
(* no event is lost, repeated, reordered or given to another owner, and    *)
(* after an error or an unsubscribe what was delivered is a prefix.        *)
THEOREM NothingIsLostOrReordered == Spec => []NothingLostOrReordered
<1>1. StreamInv => NothingLostOrReordered
  BY DEF StreamInv, Contents, Carried, NothingLostOrReordered
<1> QED
  BY <1>1, StreamAlways, PTL

(* Merging chunks never changes the metadata a stream ends up with.        *)
THEOREM MetadataIsKept == Spec => []MetadataSurvives
<1>1. StreamInv => MetadataSurvives
  BY DEF StreamInv, Contents, Carried, MetadataSurvives
<1> QED
  BY <1>1, StreamAlways, PTL

-----------------------------------------------------------------------------
(* The counter is of the text held of the last message counted, and of no  *)
(* other is any text held at the end of the buffer.                        *)
CountInv ==
  MinChunkSize > 0 =>
    /\ charsSinceFlush < MinChunkSize
    /\ TextOfLast(buffer, lastTrackedMessageId) <= charsSinceFlush
    /\ \A id : id # lastTrackedMessageId => TextOfLast(buffer, id) = 0

(* Nothing held is nothing counted.                                        *)
LEMMA CountOfEmpty ==
  ASSUME charsSinceFlush' \in Nat, buffer' = <<>>,
         MinChunkSize > 0 => charsSinceFlush' < MinChunkSize
  PROVE  CountInv'
<1>1. \A id : TextOfLast(<<>>, id) = 0
  BY TextOfLastFacts
<1>2. \A id : TextOfLast(buffer', id) = 0
  BY <1>1
<1> QED
  BY <1>2 DEF CountInv

LEMMA CountNext == StreamInv /\ CountInv /\ [Next]_vars => CountInv'
<1> SUFFICES ASSUME StreamInv, CountInv, [Next]_vars PROVE CountInv'
  OBVIOUS
<1>1. charsSinceFlush \in Nat /\ MinChunkSize \in Nat /\ buffer \in Seq(Events)
  BY ThrottleConfig, ArrivalsAreEvents DEF StreamInv, Sizes, IInv, Ranges
<1>2. charsSinceFlush' \in Nat
  BY StreamNext DEF StreamInv, Sizes
<1>3. MinChunkSize > 0 => charsSinceFlush < MinChunkSize
  BY DEF CountInv
<1>4. ASSUME Flush(buffer, charsSinceFlush) PROVE CountInv'
  <2>1. buffer' = <<>> /\ (charsSinceFlush' = charsSinceFlush \/ charsSinceFlush' = 0)
    BY <1>4 DEF Flush
  <2> QED
    BY <1>2, <1>3, <2>1, CountOfEmpty
<1>5. ASSUME UNCHANGED <<buffer, charsSinceFlush, lastTrackedMessageId>> PROVE CountInv'
  BY <1>5 DEF CountInv
<1>6. ASSUME NEW e \in Arrivals, SourceNext(e), Immediate(e) PROVE CountInv'
  <2>1. buffer' = <<>> /\ (charsSinceFlush' = charsSinceFlush \/ charsSinceFlush' = 0)
    BY <1>6 DEF Immediate
  <2> QED
    BY <1>2, <1>3, <2>1, CountOfEmpty
<1>7. ASSUME NEW e \in Arrivals, Buffered(e), ThresholdMet(e) PROVE CountInv'
  <2>1. Append(buffer, e) # <<>>
    BY AppendHolds DEF StreamInv, IInv, Ranges
  <2>2. buffer' = <<>> /\ charsSinceFlush' = 0
    BY <1>7, <2>1 DEF Buffered, Flush
  <2> QED
    BY <1>2, <2>2, CountOfEmpty
<1>8. ASSUME NEW e \in Arrivals, Buffered(e), ~ThresholdMet(e), MinChunkSize > 0 PROVE CountInv'
  <2>1. /\ buffer' = Append(buffer, e) /\ charsSinceFlush' = CharsWith(e)
        /\ lastTrackedMessageId' = IF Counted(e) THEN e.id ELSE lastTrackedMessageId
    BY <1>8 DEF Buffered
  <2>2. charsSinceFlush' < MinChunkSize
    BY <1>1, <1>2, <1>8, <2>1 DEF ThresholdMet
  <2>3. PICK b \in Seq(Events) : b = buffer
    BY <1>1
  <2>4. e \in Events
    BY DEF Events
  <2>5. \A id : TextOfLast(buffer', id) = CharsAfter(TextOfLast(b, id), e, id)
    BY <2>1, <2>3, <2>4, TextOfLastFacts
  <2>6. /\ TextOfLast(b, lastTrackedMessageId) <= charsSinceFlush
        /\ \A id : id # lastTrackedMessageId => TextOfLast(b, id) = 0
    BY <1>8, <2>3 DEF CountInv
  <2>7. CASE ~Counted(e)
    <3>1. e.type # "TEXT_MESSAGE_CHUNK"
      BY <1>8, <2>7 DEF Counted
    <3>2. \A id : TextOfLast(buffer', id) = TextOfLast(b, id)
      BY <2>5, <3>1 DEF CharsAfter
    <3>3. charsSinceFlush' = charsSinceFlush /\ lastTrackedMessageId' = lastTrackedMessageId
      BY <2>1, <2>7 DEF CharsWith
    <3> QED
      BY <2>2, <2>6, <3>2, <3>3 DEF CountInv
  <2>8. CASE Counted(e)
    <3>1. e.type = "TEXT_MESSAGE_CHUNK" /\ lastTrackedMessageId' = e.id
      BY <2>1, <2>8 DEF Counted
    <3>2. Len(e.delta) \in Nat
      BY <2>4, <3>1, TextLength
    <3>3. \A id : id # e.id => TextOfLast(buffer', id) = 0
      BY <2>5, <3>1 DEF CharsAfter
    <3>4. TextOfLast(buffer', e.id) = TextOfLast(b, e.id) + Len(e.delta)
      BY <2>5, <3>1 DEF CharsAfter
    <3>5. TextOfLast(b, e.id) \in Nat
      BY TextOfLastType
    <3>6. PICK held \in Nat : held = IF e.id = lastTrackedMessageId THEN charsSinceFlush ELSE 0
      BY <1>1
    <3>7. charsSinceFlush' = Len(e.delta) + held
      BY <2>1, <2>8, <3>6 DEF CharsWith
    <3>8. TextOfLast(b, e.id) <= held
      BY <2>6, <3>6
    <3>9. TextOfLast(buffer', e.id) <= charsSinceFlush'
      BY <3>2, <3>4, <3>5, <3>7, <3>8
    <3> QED
      BY <2>2, <3>1, <3>3, <3>9 DEF CountInv
  <2> QED
    BY <2>7, <2>8
<1>9. CASE ~(MinChunkSize > 0)
  BY <1>9 DEF CountInv
<1>10. ASSUME NEW e \in Arrivals, SourceNext(e) PROVE CountInv'
  BY <1>6, <1>7, <1>8, <1>9, <1>10 DEF SourceNext
<1>11. CASE SourceFails
  <2>1. buffer' = <<>> /\ charsSinceFlush' = charsSinceFlush
    BY <1>11 DEF SourceFails
  <2> QED
    BY <1>2, <1>3, <2>1, CountOfEmpty
<1> QED
  BY <1>4, <1>5, <1>10, <1>11
  DEF Next, vars, SourceCompletes, Unsubscribe, TimerFires, Tick

(* The text held of the message that is streaming stays below the minimum  *)
(* chunk size, however the messages and the other events interleave.       *)
THEOREM HeldTextStaysShort == Spec => []HeldTextIsShort
<1>1. Init => CountInv
  <2> SUFFICES ASSUME Init PROVE CountInv
    OBVIOUS
  <2>1. buffer = <<>> /\ charsSinceFlush = 0
    BY DEF Init
  <2>2. \A id : TextOfLast(<<>>, id) = 0
    BY TextOfLastFacts
  <2> QED
    BY <2>1, <2>2, ThrottleConfig DEF CountInv
<1>2. StreamInv /\ CountInv => HeldTextIsShort
  <2> SUFFICES ASSUME StreamInv, CountInv, MinChunkSize > 0
               PROVE  TextOfLast(buffer, lastTrackedMessageId) < MinChunkSize
    BY DEF HeldTextIsShort
  <2>1. buffer \in Seq(Events) /\ charsSinceFlush \in Nat
    BY ArrivalsAreEvents DEF StreamInv, Sizes, IInv, Ranges
  <2>2. TextOfLast(buffer, lastTrackedMessageId) \in Nat
    BY <2>1, TextOfLastType
  <2> QED
    BY <2>1, <2>2, ThrottleConfig DEF CountInv
<1> QED
  BY <1>1, <1>2, CountNext, StreamInit, StreamNext, PTL DEF Spec
=============================================================================
