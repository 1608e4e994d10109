------------------------ MODULE HttpTransport_proofs ------------------------
(***************************************************************************)
(* Proofs about HttpTransport for bodies of any length, whatever the       *)
(* parsers make of them.                                                   *)
(***************************************************************************)
EXTENDS HttpTransport, NaturalLemmas

(* The request is over exactly when its stream has ended, and there is a   *)
(* reader only after the headers: without the first, a response could      *)
(* arrive for a stream that has ended and bring a live reader.             *)
Coupled ==
  /\ (phase = "over") <=> (end # "open")
  /\ phase \in {"fetching", "refused"} => reader = "none"

IInv == Coupled /\ ReaderReleased

(* All ways to end the stream go through EndsWith, which keeps the         *)
(* coupling and releases the reader, whatever the result and the reader.   *)
LEMMA EndingReleases ==
  ASSUME NEW r, NEW readerNow,
         EndsWith(r, readerNow), end = "open", phase # "over",
         phase \in {"fetching", "refused"} => r.end # "open"
  PROVE  IInv'
<1>1. CASE r.end = "open"
  BY <1>1 DEF EndsWith, IInv, Coupled, ReaderReleased
<1>2. CASE r.end # "open"
  <2>1. phase' = "over" /\ end' # "open"
    BY <1>2 DEF EndsWith
  <2>2. reader' # "live"
    BY <1>2 DEF EndsWith
  <2> QED BY <2>1, <2>2 DEF IInv, Coupled, ReaderReleased
<1> QED BY <1>1, <1>2

LEMMA InitEstablishes == Init => IInv
BY DEF Init, IInv, Coupled, ReaderReleased

LEMMA NextPreserves == IInv /\ [Next]_vars => IInv'
<1> SUFFICES ASSUME IInv, [Next]_vars PROVE IInv'
  OBVIOUS
<1>1. CASE FetchFails
  <2>1. Result(out, "error").end = "error"
    BY DEF Result
  <2>2. end = "open"
    BY <1>1 DEF FetchFails, IInv, Coupled
  <2> QED BY <1>1, <2>1, <2>2, EndingReleases DEF FetchFails
<1>2. CASE RespondsWithError
  BY <1>2 DEF RespondsWithError, IInv, Coupled, ReaderReleased
<1>3. CASE ErrorBodyRead
  <2>1. Result(out, "error").end = "error"
    BY DEF Result
  <2>2. end = "open"
    BY <1>3 DEF ErrorBodyRead, IInv, Coupled
  <2> QED BY <1>3, <2>1, <2>2, EndingReleases DEF ErrorBodyRead
<1>4. ASSUME NEW contentType \in {"sse", "proto"}, Responds(contentType) PROVE IInv'
  BY <1>4 DEF Responds, IInv, Coupled, ReaderReleased
<1>5. ASSUME NEW n \in 1..MaxHalves, Read(n) PROVE IInv'
  <2>1. end = "open" /\ phase = "reading"
    BY <1>5 DEF Read, IInv, Coupled
  <2>2. PICK r \in ParseRead(n) : EndsWith(r, "live")
    BY <1>5 DEF Read
  <2> QED BY <2>1, <2>2, EndingReleases
<1>6. CASE Done
  <2>1. end = "open" /\ phase = "reading"
    BY <1>6 DEF Done, IInv, Coupled
  <2>2. PICK r \in ParseEnd : EndsWith(r, "settled")
    BY <1>6 DEF Done
  <2> QED BY <2>1, <2>2, EndingReleases
<1>7. CASE ReadFails
  <2>1. end = "open" /\ phase = "reading"
    BY <1>7 DEF ReadFails, IInv, Coupled
  <2>2. EndsWith(Result(out, "error"), "settled")
    BY <1>7 DEF ReadFails
  <2> QED BY <2>1, <2>2, EndingReleases
<1>8. CASE Abort
  BY <1>8 DEF Abort, IInv, Coupled, ReaderReleased
<1>9. CASE AbortRejects
  <2>1. end = "open" /\ phase # "over"
    BY <1>9 DEF AbortRejects, IInv, Coupled
  <2>2. Rejected.end # "open"
    BY DEF Rejected, Result
  <2>3. PICK readerNow : EndsWith(Rejected, readerNow)
    BY <1>9 DEF AbortRejects
  <2> QED BY <2>1, <2>2, <2>3, EndingReleases
<1>10. CASE UNCHANGED vars
  BY <1>10 DEF vars, IInv, Coupled, ReaderReleased
<1> QED BY <1>1, <1>2, <1>3, <1>4, <1>5, <1>6, <1>7, <1>8, <1>9, <1>10 DEF Next

(* However the stream of a request ends (a parser's verdict, the end of    *)
(* the body, a failed read, an abort), its reader is released.             *)
THEOREM ReaderIsReleased == Spec => []ReaderReleased
<1>1. Init => IInv
  BY InitEstablishes
<1>2. IInv /\ [Next]_vars => IInv'
  BY NextPreserves
<1>3. IInv => ReaderReleased
  BY DEF IInv
<1> QED BY <1>1, <1>2, <1>3, PTL DEF Spec

-----------------------------------------------------------------------------
(* What is delivered.                                                      *)

(* A sequence of frame numbers in order, and a set of them.                *)
Increasing(s) == \A j \in DOMAIN s : \A i \in 1..j - 1 : s[i] < s[j]

(* What eventSubject has been given when n frames are parsed, as long as   *)
(* the stream has not ended otherwise.                                     *)
ParsedTo(r, n) ==
  /\ r.out \in Seq(1..n) /\ Increasing(r.out)
  /\ ToSet(r.out) = EventsOf(n)
  /\ r.end \in {"open", "error"}
  /\ r.end = "open" <=> \A i \in 1..n : ~Fails(i)

LEMMA Verdicts == \A kind : Verdict(kind) \in {"emit", "skip", "fail"}
  BY DEF Verdict, SseVerdict, ProtoVerdict

LEMMA AppendFacts ==
  ASSUME NEW S, NEW s \in Seq(S), NEW x
  PROVE  /\ Len(Append(s, x)) = Len(s) + 1 /\ DOMAIN Append(s, x) = 1..Len(s) + 1
         /\ \A i \in DOMAIN s : Append(s, x)[i] = s[i]
         /\ Append(s, x)[Len(s) + 1] = x
         /\ ToSet(Append(s, x)) = ToSet(s) \cup {x}
         /\ DOMAIN s = 1..Len(s) /\ Len(s) \in Nat
<1>1. /\ Len(Append(s, x)) = Len(s) + 1 /\ DOMAIN Append(s, x) = 1..Len(s) + 1
      /\ \A i \in DOMAIN s : Append(s, x)[i] = s[i]
      /\ Append(s, x)[Len(s) + 1] = x
      /\ DOMAIN s = 1..Len(s) /\ Len(s) \in Nat
  OBVIOUS
<1>2. ToSet(Append(s, x)) = ToSet(s) \cup {x}
  BY <1>1 DEF ToSet
<1> QED
  BY <1>1, <1>2

(* One frame more.                                                         *)
LEMMA ParseStep ==
  ASSUME NEW n \in Nat, NEW r, ParsedTo(r, n)
  PROVE  ParsedTo(Parse(r, n + 1), n + 1)
<1> DEFINE s == r.out
           v == Verdict(body[n + 1])
<1>1. s \in Seq(1..n) /\ s \in Seq(1..n + 1) /\ Increasing(s) /\ ToSet(s) = EventsOf(n)
  <2>1. s \in Seq(1..n)
    BY DEF ParsedTo
  <2>2. 1..n \subseteq 1..n + 1
    OBVIOUS
  <2> QED
    BY <2>1, <2>2 DEF ParsedTo
<1>2. v \in {"emit", "skip", "fail"} /\ (Fails(n + 1) <=> v = "fail")
  BY Verdicts DEF Fails
<1>3. /\ (\A i \in 1..n + 1 : ~Fails(i)) <=> (\A i \in 1..n : ~Fails(i)) /\ v # "fail"
  BY <1>2
<1>4. EventsOf(n + 1) = EventsOf(n) \cup
        (IF v = "emit" /\ \A i \in 1..n : ~Fails(i) THEN {n + 1} ELSE {})
  <2>1. \A i \in 1..n + 1 : i \in 1..n \/ i = n + 1
    OBVIOUS
  <2>2. n + 1 \in EventsOf(n + 1) <=> v = "emit" /\ \A i \in 1..n : ~Fails(i)
    BY <1>2, <1>3 DEF EventsOf
  <2>3. \A i \in 1..n : i \in EventsOf(n + 1) <=> i \in EventsOf(n)
    BY DEF EventsOf
  <2>4. EventsOf(n + 1) \subseteq 1..n + 1 /\ EventsOf(n) \subseteq 1..n
    BY DEF EventsOf
  <2> HIDE DEF v
  <2> QED
    BY <2>1, <2>2, <2>3, <2>4
<1> HIDE DEF s, v
<1>5. CASE r.end # "open"
  <2>1. Parse(r, n + 1) = r /\ r.end = "error" /\ ~\A i \in 1..n : ~Fails(i)
    BY <1>5 DEF Parse, ParsedTo
  <2> QED
    BY <1>1, <1>3, <1>4, <2>1 DEF ParsedTo, s
<1>6. CASE r.end = "open" /\ v = "emit"
  <2>1. Parse(r, n + 1) = [out |-> Append(s, n + 1), end |-> "open"]
    BY <1>6 DEF Parse, Result, s, v
  <2>2. \A i \in 1..n : ~Fails(i)
    BY <1>6 DEF ParsedTo
  <2>3. ToSet(Append(s, n + 1)) = EventsOf(n + 1)
    <3>1. ToSet(Append(s, n + 1)) = ToSet(s) \cup {n + 1}
      BY <1>1, AppendFacts
    <3>2. EventsOf(n + 1) = EventsOf(n) \cup {n + 1}
      BY <1>4, <1>6, <2>2
    <3> QED
      BY <1>1, <3>1, <3>2
  <2>4. Append(s, n + 1) \in Seq(1..n + 1)
    BY <1>1
  <2>5. Increasing(Append(s, n + 1))
    <3>1. \A i \in DOMAIN s : s[i] \in 1..n
      BY <1>1
    <3>2. /\ DOMAIN Append(s, n + 1) = 1..Len(s) + 1 /\ DOMAIN s = 1..Len(s) /\ Len(s) \in Nat
          /\ \A i \in DOMAIN s : Append(s, n + 1)[i] = s[i]
          /\ Append(s, n + 1)[Len(s) + 1] = n + 1
      BY <1>1, AppendFacts
    <3> QED
      BY <1>1, <3>1, <3>2 DEF Increasing
  <2>6. Parse(r, n + 1).out = Append(s, n + 1) /\ Parse(r, n + 1).end = "open"
    BY <2>1
  <2>7. \A i \in 1..n + 1 : ~Fails(i)
    BY <1>3, <1>6, <2>2
  <2> QED
    BY <2>3, <2>4, <2>5, <2>6, <2>7 DEF ParsedTo
<1>7. CASE r.end = "open" /\ v = "fail"
  <2>1. Parse(r, n + 1) = [out |-> s, end |-> "error"]
    BY <1>7 DEF Parse, Result, s, v
  <2> QED
    BY <1>1, <1>3, <1>4, <1>7, <2>1 DEF ParsedTo
<1>8. CASE r.end = "open" /\ v = "skip"
  <2>1. Parse(r, n + 1) = r
    BY <1>8 DEF Parse, v
  <2> QED
    BY <1>1, <1>3, <1>4, <1>8, <2>1 DEF ParsedTo, s
<1> QED
  BY <1>2, <1>5, <1>6, <1>7, <1>8

(* The loop over the frames that a read completes.                         *)
LEMMA ParsingIsDefined ==
  ASSUME NEW first \in Nat, NEW last \in Nat, last >= first
  PROVE  \E f : f = [i \in first..last |-> IF i = first THEN Current ELSE Parse(f[i - 1], i)]
<1> DEFINE S == {m \in Nat :
                   \E f : f = [i \in first..m |-> IF i = first THEN Current ELSE Parse(f[i - 1], i)]}
<1>1. first \in S
  <2> DEFINE f == [i \in first..first |-> Current]
  <2>1. f = [i \in first..first |-> IF i = first THEN Current ELSE Parse(f[i - 1], i)]
    OBVIOUS
  <2> QED
    BY <2>1
<1>2. ASSUME NEW m \in Nat, m >= first, m \in S PROVE m + 1 \in S
  <2>1. PICK f : f = [i \in first..m |-> IF i = first THEN Current ELSE Parse(f[i - 1], i)]
    BY <1>2
  <2> DEFINE g == [i \in first..m + 1 |-> IF i <= m THEN f[i] ELSE Parse(f[m], m + 1)]
  <2>2. ASSUME NEW i \in first..m + 1
        PROVE  g[i] = IF i = first THEN Current ELSE Parse(g[i - 1], i)
    <3>1. CASE i <= m
      <4>1. i \in first..m /\ g[i] = f[i] /\ (i # first => g[i - 1] = f[i - 1])
        BY <1>2, <3>1
      <4>2. f[i] = IF i = first THEN Current ELSE Parse(f[i - 1], i)
        BY <2>1, <4>1
      <4> HIDE DEF g
      <4> QED
        BY <4>1, <4>2
    <3>2. CASE i = m + 1
      <4>1. i # first /\ g[i] = Parse(f[m], m + 1) /\ g[i - 1] = f[m]
        BY <1>2, <3>2
      <4> HIDE DEF g
      <4> QED
        BY <3>2, <4>1
    <3> QED
      BY <3>1, <3>2
  <2>3. g = [i \in first..m + 1 |-> g[i]]
    OBVIOUS
  <2> HIDE DEF g
  <2>4. g = [i \in first..m + 1 |-> IF i = first THEN Current ELSE Parse(g[i - 1], i)]
    BY <2>2, <2>3
  <2> QED
    BY <2>4
<1>3. last \in S
  <2> HIDE DEF S
  <2> QED
    BY <1>1, <1>2, InductionFrom
<1> QED
  BY <1>3

(* What a read leaves: the frames it completed are parsed, and the tail    *)
(* may have failed the stream.                                             *)
Delivered(r, n) ==
  /\ r.out \in Seq(1..n) /\ Increasing(r.out)
  /\ ToSet(r.out) = EventsOf(n)
  /\ r.end \in {"open", "error"}
  /\ r.end = "open" => \A i \in 1..n : ~Fails(i)

LEMMA ParseReadFacts ==
  ASSUME NEW n \in Nat, got \in Nat, ParsedTo(Current, got \div 2)
  PROVE  \A r \in ParseRead(n) : Delivered(r, (got + n) \div 2)
<1> DEFINE first == got \div 2
           last == (got + n) \div 2
           after == CHOOSE f :
                      f = [i \in first..last |-> IF i = first THEN Current ELSE Parse(f[i - 1], i)]
           parsed == after[last]
<1>1. \A r \in ParseRead(n) : r \in {parsed, Result(parsed.out, "error")}
  BY DEF ParseRead
<1>2. first \in Nat /\ last \in Nat /\ last >= first
  OBVIOUS
<1> HIDE DEF first, last
<1>3. after = [i \in first..last |-> IF i = first THEN Current ELSE Parse(after[i - 1], i)]
  <2>1. \E f : f = [i \in first..last |-> IF i = first THEN Current ELSE Parse(f[i - 1], i)]
    BY <1>2, ParsingIsDefined
  <2> QED
    BY <2>1
<1> HIDE DEF after, parsed
<1>4. \A i \in first..last : after[i] = IF i = first THEN Current ELSE Parse(after[i - 1], i)
  BY <1>3
<1>5. ParsedTo(after[last], last)
  <2> DEFINE S == {m \in Nat : m <= last => ParsedTo(after[m], m)}
  <2>1. first \in S
    BY <1>2, <1>4 DEF first
  <2>2. ASSUME NEW m \in Nat, m >= first, m \in S PROVE m + 1 \in S
    <3> SUFFICES ASSUME m + 1 <= last PROVE ParsedTo(after[m + 1], m + 1)
      OBVIOUS
    <3>1. ParsedTo(after[m], m)
      BY <1>2, <2>2
    <3>2. after[m + 1] = Parse(after[m], m + 1)
      BY <1>2, <1>4, <2>2
    <3> QED
      BY <3>1, <3>2, ParseStep
  <2>3. last \in S
    <3> HIDE DEF S
    <3> QED
      BY <1>2, <2>1, <2>2, InductionFrom
  <2> QED
    BY <1>2, <2>3
<1>6. \A r \in ParseRead(n) : r.out = parsed.out /\ r.end \in {parsed.end, "error"}
  BY <1>1 DEF Result
<1> QED
  BY <1>5, <1>6 DEF ParsedTo, Delivered, last, parsed

(* DeliveredInOrder says of a stream that has ended what it got; while the *)
(* stream is open, nothing in error and no abort has been passed over, and *)
(* before the headers nothing has come at all.                             *)
OrderInv ==
  /\ IInv
  /\ got \in Nat
  /\ end = "open" => Delivered(Current, got \div 2)
  /\ phase \in {"fetching", "refused"} => got = 0 /\ out = <<>>
  /\ phase = "reading" => parser \in {"sse", "proto"}
  /\ DeliveredInOrder

LEMMA FramesKept ==
  ASSUME UNCHANGED <<body, parser>>
  PROVE  /\ \A i : Fails(i)' <=> Fails(i)
         /\ \A n : EventsOf(n)' = EventsOf(n)
         /\ \A r, n : Delivered(r, n) => Delivered(r, n)'
<1>1. \A i : Verdict(body[i])' = Verdict(body[i])
  BY DEF Verdict
<1>2. \A i : Fails(i)' <=> Fails(i)
  BY <1>1 DEF Fails
<1>3. \A n : EventsOf(n)' = EventsOf(n)
  BY <1>1, <1>2 DEF EventsOf
<1> QED
  BY <1>2, <1>3 DEF Delivered, Increasing

(* What a stream without an abort event must have got.                     *)
LEMMA InOrder ==
  ASSUME NEW n \in Nat, n = got' \div 2, out' \in Seq(1..n), Increasing(out'),
         ToSet(out') = EventsOf(n)',
         end' = "complete" => (\A i \in 1..n : ~(Fails(i)')) /\ (parser' = "proto" => got' % 2 = 0)
  PROVE  DeliveredInOrder'
<1>1. DOMAIN out' = 1..Len(out') /\ Len(out') \in Nat /\ \A i \in DOMAIN out' : out'[i] \in 1..n
  OBVIOUS
<1>2. 0 \notin ToSet(out')
  BY <1>1 DEF ToSet
<1>3. \A j \in DOMAIN out' : \A i \in 1..j - 1 : out'[i] > 0 /\ (out'[i] < out'[j] \/ out'[j] = 0)
  BY <1>1 DEF Increasing
<1>4. ToSet(out') \ {0} = EventsOf(n)'
  BY <1>2
<1>5. (ToSet(out) \ {0} = EventsOf(got \div 2))'
  BY <1>4 DEF EventsOf
<1>6. (end = "complete" => \A i \in 1..got \div 2 : ~Fails(i))'
  OBVIOUS
<1> QED
  BY <1>2, <1>3, <1>5, <1>6 DEF DeliveredInOrder

LEMMA CurrentFields == Current.out = out /\ Current.end = end
  BY DEF Current, Result

LEMMA WholeFrames == \A g \in Nat : g \div 2 \in Nat /\ g % 2 \in {0, 1}
  OBVIOUS

(* The stream goes on or ends with the events of the frames it got.        *)
LEMMA ResultKeepsOrder ==
  ASSUME UNCHANGED <<body, parser>>, IInv', got' \in Nat, NEW r, NEW readerNow,
         r.out \in Seq(1..got' \div 2), Increasing(r.out), ToSet(r.out) = EventsOf(got' \div 2),
         r.end \in {"open", "complete"} => \A i \in 1..got' \div 2 : ~Fails(i),
         r.end = "complete" /\ parser = "proto" => got' % 2 = 0,
         r.end \in {"open", "complete", "error"}, EndsWith(r, readerNow),
         r.end = "open" => phase = "reading" /\ parser \in {"sse", "proto"}
  PROVE  OrderInv'
<1> DEFINE n == got' \div 2
<1>0. n \in Nat
  BY WholeFrames
<1>1. n \in Nat /\ out' = r.out /\ end' = r.end
  BY <1>0 DEF EndsWith
<1>2. phase' = "over" \/ (phase' = "reading" /\ parser' \in {"sse", "proto"})
  BY DEF EndsWith
<1>3. PICK k \in Nat : k = n
  BY <1>1
<1>4. EventsOf(k)' = EventsOf(k) /\ \A i : Fails(i)' <=> Fails(i)
  BY FramesKept
<1>5. DeliveredInOrder'
  BY <1>1, <1>3, <1>4, InOrder
<1>6. (end = "open" => Delivered(Current, got \div 2))'
  <2> SUFFICES ASSUME end' = "open" PROVE Delivered(Current, got \div 2)'
    OBVIOUS
  <2>1. /\ out' \in Seq(1..k) /\ Increasing(out') /\ ToSet(out') = EventsOf(k)'
        /\ \A i \in 1..k : ~(Fails(i)')
    BY <1>1, <1>3, <1>4
  <2>2. Current.out' = out' /\ Current.end' = "open"
    BY DEF Current, Result
  <2> QED
    BY <1>3, <2>1, <2>2 DEF Delivered, EventsOf, Increasing
<1> QED
  BY <1>2, <1>5, <1>6 DEF OrderInv

(* The body is over: what is left of it may be an event of its own.        *)
LEMMA DoneKeepsOrder ==
  ASSUME OrderInv, IInv', Done
  PROVE  OrderInv'
<1>1. /\ end = "open" /\ phase = "reading" /\ got \in Nat /\ got' = got
      /\ UNCHANGED <<body, parser, aborted>> /\ Delivered(Current, got \div 2)
  BY DEF OrderInv, IInv, Coupled, Done
<1>2. PICK n \in Nat : n = got \div 2
  BY <1>1
<1>3. /\ out \in Seq(1..n) /\ Increasing(out) /\ ToSet(out) = EventsOf(n)
      /\ \A i \in 1..n : ~Fails(i)
  BY <1>1, <1>2, CurrentFields DEF Delivered
<1>4. PICK r \in ParseEnd : EndsWith(r, "settled")
  BY DEF Done
<1>5. \/ r = Result(out, "complete") /\ (got % 2 = 0 \/ parser # "proto")
      \/ r = Result(out, "error")
      \/ r = Result(Append(out, n + 1), "complete") /\ got % 2 = 1 /\ parser # "proto"
  <2>1. CASE got % 2 = 0
    BY <1>4, <2>1 DEF ParseEnd
  <2>2. CASE got % 2 # 0
    <3>1. PICK v \in Leftover : r = CASE v = "emit" -> Result(Append(out, got \div 2 + 1), "complete")
                                      [] v = "skip" -> Result(out, "complete")
                                      [] OTHER -> Result(out, "error")
      BY <1>4, <2>2 DEF ParseEnd
    <3>2. parser = "proto" => v = "fail"
      BY DEF Leftover
    <3>3. got % 2 = 1
      BY <1>1, <2>2, WholeFrames
    <3>4. CASE v = "emit"
      BY <1>2, <3>1, <3>2, <3>3, <3>4
    <3>5. CASE v = "skip"
      BY <3>1, <3>2, <3>5
    <3>6. CASE v # "emit" /\ v # "skip"
      BY <3>1, <3>6
    <3> QED
      BY <3>4, <3>5, <3>6
  <2> QED
    BY <2>1, <2>2
<1>6. CASE r = Result(out, "complete") /\ (got % 2 = 0 \/ parser # "proto")
  <2>1. r.out = out /\ r.end = "complete"
    BY <1>6 DEF Result
  <2> QED
    BY <1>1, <1>2, <1>3, <1>4, <1>6, <2>1, ResultKeepsOrder
<1>7. CASE r = Result(out, "error")
  <2>1. r.out = out /\ r.end = "error"
    BY <1>7 DEF Result
  <2> QED
    BY <1>1, <1>2, <1>3, <1>4, <2>1, ResultKeepsOrder
<1>8. CASE r = Result(Append(out, n + 1), "complete") /\ got % 2 = 1 /\ parser # "proto"
  <2> DEFINE s == Append(out, n + 1)
  <2>1. out' = s /\ end' = "complete" /\ phase' = "over"
    BY <1>4, <1>8 DEF Result, EndsWith
  <2>2. /\ DOMAIN out' = 1..Len(out) + 1 /\ DOMAIN out = 1..Len(out) /\ Len(out) \in Nat
        /\ \A i \in DOMAIN out : out'[i] = out[i] /\ out[i] \in 1..n
        /\ out'[Len(out) + 1] = n + 1
        /\ ToSet(out') = ToSet(out) \cup {n + 1}
    BY <1>3, <2>1, AppendFacts
  <2> HIDE DEF s
  <2>3. 0 \notin ToSet(out')
    BY <2>2 DEF ToSet
  <2>4. \A j \in DOMAIN out' : \A i \in 1..j - 1 : out'[i] > 0 /\ out'[i] < out'[j]
    <3> TAKE j \in DOMAIN out'
    <3> TAKE i \in 1..j - 1
    <3>1. i \in DOMAIN out /\ out'[i] = out[i] /\ out[i] \in 1..n
      BY <2>2
    <3>2. CASE j \in DOMAIN out
      BY <1>3, <2>2, <3>1, <3>2 DEF Increasing
    <3>3. CASE j = Len(out) + 1
      BY <2>2, <3>1, <3>3
    <3> QED
      BY <2>2, <3>2, <3>3
  <2>5. EventsOf(n)' = EventsOf(n) /\ \A i : Fails(i)' <=> Fails(i)
    BY <1>1, FramesKept
  <2>6. parser' = "sse" /\ got' % 2 = 1
    <3>1. parser \in {"sse", "proto"}
      BY <1>1 DEF OrderInv
    <3> QED
      BY <1>1, <1>8, <3>1
  <2>7. (ToSet(out) = EventsOf(got \div 2) \cup {got \div 2 + 1})'
    BY <1>1, <1>2, <1>3, <2>2, <2>5 DEF EventsOf
  <2>8. (\A i \in 1..got \div 2 : ~Fails(i))'
    BY <1>1, <1>2, <1>3, <2>5
  <2>9. DeliveredInOrder'
    BY <2>1, <2>3, <2>4, <2>6, <2>7, <2>8 DEF DeliveredInOrder
  <2> QED
    BY <1>1, <2>1, <2>9 DEF OrderInv
<1> QED
  BY <1>5, <1>6, <1>7, <1>8

(* An abort ends the stream without an event of its own (an error), or     *)
(* with one that comes last.                                               *)
LEMMA AbortKeepsOrder ==
  ASSUME OrderInv, IInv', AbortRejects
  PROVE  OrderInv'
<1>1. /\ end = "open" /\ got \in Nat /\ got' = got /\ aborted
      /\ UNCHANGED <<body, parser, aborted>> /\ Delivered(Current, got \div 2)
  BY DEF OrderInv, IInv, Coupled, AbortRejects
<1>2. PICK n \in Nat : n = got \div 2
  BY <1>1, WholeFrames
<1>3. /\ out \in Seq(1..n) /\ Increasing(out) /\ ToSet(out) = EventsOf(n)
      /\ \A i \in 1..n : ~Fails(i)
  BY <1>1, <1>2, CurrentFields DEF Delivered
<1>4. PICK r, readerNow : r = Rejected /\ EndsWith(r, readerNow)
  BY DEF AbortRejects
<1>5. CASE parser # "sse"
  <2>1. r.out = out /\ r.end = "error"
    BY <1>4, <1>5 DEF Rejected, Result
  <2> QED
    BY <1>1, <1>2, <1>3, <1>4, <2>1, ResultKeepsOrder
<1>6. CASE parser = "sse"
  <2>1. out' = Append(out, 0) /\ end' = "complete" /\ phase' = "over"
    BY <1>4, <1>6 DEF Rejected, Result, EndsWith
  <2>2. /\ DOMAIN out' = 1..Len(out) + 1 /\ DOMAIN out = 1..Len(out) /\ Len(out) \in Nat
        /\ \A i \in DOMAIN out : out'[i] = out[i] /\ out[i] \in 1..n
        /\ out'[Len(out) + 1] = 0
        /\ ToSet(out') = ToSet(out) \cup {0}
    BY <1>3, <2>1, AppendFacts
  <2>3. \A j \in DOMAIN out' : \A i \in 1..j - 1 : out'[i] > 0 /\ (out'[i] < out'[j] \/ out'[j] = 0)
    BY <1>3, <2>2 DEF Increasing
  <2>4. EventsOf(n)' = EventsOf(n) /\ \A i : Fails(i)' <=> Fails(i)
    BY <1>1, FramesKept
  <2>5. 0 \notin ToSet(out)
    BY <2>2 DEF ToSet
  <2>6. (ToSet(out) \ {0} = EventsOf(got \div 2))'
    BY <1>1, <1>2, <1>3, <2>2, <2>4, <2>5 DEF EventsOf
  <2>7. (\A i \in 1..got \div 2 : ~Fails(i))'
    BY <1>1, <1>2, <1>3, <2>4
  <2>8. 0 \in ToSet(out') /\ aborted'
    BY <1>1, <2>2
  <2>9. DeliveredInOrder'
    BY <2>1, <2>3, <2>6, <2>7, <2>8 DEF DeliveredInOrder
  <2> QED
    BY <1>1, <2>1, <2>9 DEF OrderInv
<1> QED
  BY <1>5, <1>6

LEMMA OrderNext == OrderInv /\ [Next]_vars => OrderInv'
<1> SUFFICES ASSUME OrderInv, [Next]_vars PROVE OrderInv'
  OBVIOUS
<1>0. IInv'
  BY NextPreserves DEF OrderInv
<1>1. got \in Nat /\ (end = "open" => Delivered(Current, got \div 2)) /\ IInv
  BY DEF OrderInv
<1>2. ASSUME NEW readerNow, end = "open", EndsWith(Result(out, "error"), readerNow),
             UNCHANGED <<body, got, parser>>
      PROVE  OrderInv'
  <2>1. PICK r : r = Result(out, "error")
    OBVIOUS
  <2>2. r.out = out /\ r.end = "error" /\ EndsWith(r, readerNow)
    BY <1>2, <2>1 DEF Result
  <2> QED
    BY <1>0, <1>1, <1>2, <2>2, CurrentFields, ResultKeepsOrder DEF Delivered
<1>3. CASE FetchFails \/ ErrorBodyRead \/ ReadFails
  BY <1>1, <1>2, <1>3 DEF FetchFails, ErrorBodyRead, ReadFails, IInv, Coupled
<1>4. CASE RespondsWithError \/ Abort
  <2>1. /\ UNCHANGED <<body, got, parser, out, end>>
        /\ phase' \in {phase, "refused"} /\ (phase' = "refused" => phase \in {"fetching", "refused"})
    BY <1>4 DEF RespondsWithError, Abort
  <2>2. PICK n : n = got \div 2
    OBVIOUS
  <2>3. EventsOf(n)' = EventsOf(n) /\ \A i : Fails(i)' <=> Fails(i)
    BY <2>1, FramesKept
  <2>4. DeliveredInOrder'
    BY <1>4, <2>1, <2>2, <2>3 DEF OrderInv, DeliveredInOrder, RespondsWithError, Abort
  <2>5. end' = "open" => Delivered(Current, got \div 2)'
    BY <1>1, <2>1, <2>2, <2>3 DEF Delivered, Current, Result, Increasing
  <2> QED
    BY <1>0, <1>1, <2>1, <2>4, <2>5 DEF OrderInv
<1>5. ASSUME NEW contentType \in {"sse", "proto"}, Responds(contentType) PROVE OrderInv'
  <2>1. got' = 0 /\ out' = <<>> /\ phase' = "reading" /\ parser' = contentType /\ end' = "open"
    BY <1>1, <1>5 DEF Responds, OrderInv, IInv, Coupled
  <2>2. EventsOf(0)' = {} /\ ToSet(out') = {} /\ out' \in Seq(1..0) /\ Increasing(out')
    BY <2>1 DEF EventsOf, ToSet, Increasing
  <2>3. PICK k \in Nat : k = 0 /\ k = got' \div 2
    BY <2>1
  <2>4. DeliveredInOrder'
    BY <2>1, <2>2, <2>3, InOrder
  <2>5. Delivered(Current, got \div 2)'
    BY <2>1, <2>2, <2>3 DEF Delivered, Current, Result, Increasing, EventsOf
  <2> QED
    BY <1>0, <2>1, <2>4, <2>5 DEF OrderInv
<1>6. ASSUME NEW n \in 1..MaxHalves, Read(n) PROVE OrderInv'
  <2>1. /\ phase = "reading" /\ end = "open" /\ got' = got + n /\ UNCHANGED <<body, parser>>
        /\ parser \in {"sse", "proto"}
    BY <1>1, <1>6 DEF Read, IInv, Coupled, OrderInv
  <2>2. n \in Nat /\ got' \in Nat
    BY <1>1, <2>1, BoundsAreNat
  <2>3. ParsedTo(Current, got \div 2)
    BY <1>1, <2>1, CurrentFields DEF Delivered, ParsedTo
  <2>4. PICK r \in ParseRead(n) : EndsWith(r, "live")
    BY <1>6 DEF Read
  <2>5. Delivered(r, got' \div 2)
    BY <1>1, <2>1, <2>2, <2>3, <2>4, ParseReadFacts
  <2> QED
    BY <1>0, <2>1, <2>2, <2>4, <2>5, ResultKeepsOrder DEF Delivered
<1>7. CASE UNCHANGED vars
  <2>1. UNCHANGED <<body, got, parser, out, end, phase, aborted>>
    BY <1>7 DEF vars
  <2>2. PICK n : n = got \div 2
    OBVIOUS
  <2>3. EventsOf(n)' = EventsOf(n) /\ \A i : Fails(i)' <=> Fails(i)
    BY <2>1, FramesKept
  <2>4. DeliveredInOrder'
    BY <2>1, <2>2, <2>3 DEF OrderInv, DeliveredInOrder
  <2>5. end' = "open" => Delivered(Current, got \div 2)'
    BY <1>1, <2>1, <2>2, <2>3 DEF Delivered, Current, Result, Increasing
  <2> QED
    BY <1>0, <2>1, <2>4, <2>5 DEF OrderInv
<1> QED
  BY <1>0, <1>3, <1>4, <1>5, <1>6, <1>7, DoneKeepsOrder, AbortKeepsOrder DEF Next

LEMMA OrderInit == Init => OrderInv
<1> SUFFICES ASSUME Init PROVE OrderInv
  OBVIOUS
<1>1. got = 0 /\ out = <<>> /\ phase = "fetching" /\ end = "open" /\ 0 \div 2 = 0
  BY DEF Init
<1>2. EventsOf(0) = {} /\ ToSet(out) = {} /\ out \in Seq(1..0) /\ Increasing(out)
  BY <1>1 DEF EventsOf, ToSet, Increasing
<1>3. Delivered(Current, 0)
  <2>1. Current.out = out /\ Current.end = "open"
    BY <1>1, CurrentFields
  <2>2. \A i \in 1..0 : ~Fails(i)
    OBVIOUS
  <2> QED
    BY <1>2, <2>1, <2>2 DEF Delivered
<1>4. DeliveredInOrder
  BY <1>1, <1>2 DEF DeliveredInOrder
<1> QED
  BY <1>1, <1>3, <1>4, InitEstablishes DEF OrderInv

(* For a body of any length, cut into reads in any way, ended, failed or   *)
(* aborted at any point: the consumer gets the events of the frames that   *)
(* arrived, in order, each once, up to the first frame in error.           *)
THEOREM EventsAreDeliveredInOrder == Spec => []DeliveredInOrder
<1>1. OrderInv => DeliveredInOrder
  BY DEF OrderInv
<1> QED
  BY <1>1, OrderInit, OrderNext, PTL DEF Spec
=============================================================================
