---------------------------- MODULE HttpTransport ----------------------------
(***************************************************************************)
(* One request of HttpAgent: runHttpRequest (run/http-request.ts), whose   *)
(* reads are turned into events by transformHttpEventStream                *)
(* (transform/http.ts) with the parser of the response's content type      *)
(* (transform/sse.ts, transform/proto.ts).                                 *)
(*                                                                         *)
(* The response body is a sequence of frames; each arrives in two halves,  *)
(* and one read brings any number of halves.  RxJS delivers synchronously, *)
(* so a read, with all that it sets off, is one step.                      *)
(***************************************************************************)
EXTENDS Integers, SequencesExt

CONSTANTS
    MaxFrames,  \* bound: frames in the body
    MaxHalves   \* bound: half-frames in one read

ASSUME BoundsAreNat == MaxFrames \in Nat /\ MaxHalves \in Nat

(* What a frame holds: an event; an event longer than MAX_BUFFER_SIZE; JSON *)
(* that is no object with a type; something undecodable; and what is passed *)
(* over (a comment, an event that the binary decoder does not know).        *)
FrameKinds == {"event", "large", "shapeless", "garbage", "silent"}
Bodies == UNION {[1..n -> FrameKinds] : n \in 0..MaxFrames}

VARIABLES
    body,     \* what the server has to send
    got,      \* half-frames that have been read
    phase,    \* of the request: "fetching", "refused", "reading", "over"
    parser,   \* "none" before the headers, then "sse" or "proto"
    reader,   \* of the response: "none", "live", "settled", "cancelled"
    out,      \* what eventSubject emitted: frame numbers, 0 for RUN_ERROR(abort)
    end,      \* how eventSubject ended: "open", "complete", "error"
    aborted   \* the AbortController's signal

vars == <<body, got, phase, parser, reader, out, end, aborted>>

TypeOK ==
  /\ body \in Bodies
  /\ got \in 0..2 * Len(body)
  /\ phase \in {"fetching", "refused", "reading", "over"}
  /\ parser \in {"none", "sse", "proto"}
  /\ reader \in {"none", "live", "settled", "cancelled"}
  /\ out \in Seq(0..MaxFrames)
  /\ end \in {"open", "complete", "error"}
  /\ aborted \in BOOLEAN

Init ==
  /\ body \in Bodies
  /\ got = 0
  /\ phase = "fetching" /\ parser = "none" /\ reader = "none"
  /\ out = <<>> /\ end = "open"
  /\ aborted = FALSE

-----------------------------------------------------------------------------
(* A result is what eventSubject has emitted and how it ended, if it has.  *)
Result(o, e) == [out |-> o, end |-> e]
Current == Result(out, end)

(* The parsers' verdict on a frame that is there in full.  The size limit  *)
(* of the text parser is on the incomplete tail, that of the binary parser *)
(* on the declared length.                                                 *)
SseVerdict(kind) ==
  CASE kind \in {"event", "large"} -> "emit"
    [] kind = "silent" -> "skip"
    [] OTHER -> "fail"
ProtoVerdict(kind) ==
  CASE kind = "event" -> "emit"
    [] kind = "silent" -> "skip"
    [] OTHER -> "fail"
Verdict(kind) == IF parser = "sse" THEN SseVerdict(kind) ELSE ProtoVerdict(kind)

(* Mutant: a frame that is no event is passed over.                        *)
ParseLeniently(r, i) ==
  CASE r.end # "open" -> r
    [] r.end = "open" /\ Verdict(body[i]) = "emit" -> Result(Append(r.out, i), "open")
    [] OTHER -> r

(* Frame i: eventSubject is a Subject, deaf once it has ended.             *)
Parse(r, i) ==
  CASE r.end # "open" -> r
    [] r.end = "open" /\ Verdict(body[i]) = "emit" -> Result(Append(r.out, i), "open")
    [] r.end = "open" /\ Verdict(body[i]) = "fail" -> Result(r.out, "error")
    [] OTHER -> r

(* The frames that n more halves complete, then the tail they leave.  Half *)
(* of a large frame may exceed the text parser's limit or still be below   *)
(* it, and may or may not hold the whole length prefix of the binary one.  *)
ParseRead(n) ==
  LET first == got \div 2
      last == (got + n) \div 2
      after[i \in first..last] == IF i = first THEN Current ELSE Parse(after[i - 1], i)
      parsed == after[last]
      cut == parsed.end = "open" /\ (got + n) % 2 = 1 /\ body[last + 1] = "large"
  IN {parsed} \cup (IF cut THEN {Result(parsed.out, "error")} ELSE {})

(* The end of the body.  The text parser reads what is left as a frame: it *)
(* may be complete but for the blank line, be cut within its JSON, or end  *)
(* before there is any data.  The binary parser fails on anything left.    *)
Leftover ==
  IF parser = "proto" THEN {"fail"}
  ELSE CASE body[got \div 2 + 1] = "event" -> {"emit", "fail", "skip"}
         [] body[got \div 2 + 1] = "silent" -> {"skip"}
         [] OTHER -> {"fail", "skip"}

ParseEnd ==
  IF got % 2 = 0 THEN {Result(out, "complete")}
  ELSE {CASE v = "emit" -> Result(Append(out, got \div 2 + 1), "complete")
          [] v = "skip" -> Result(out, "complete")
          [] OTHER -> Result(out, "error") : v \in Leftover}

-----------------------------------------------------------------------------
(* Mutant: the output is ended, the reading goes on.                       *)
EndsWithoutRelease(r, readerNow) ==
  /\ out' = r.out /\ end' = r.end
  /\ reader' = readerNow
  /\ phase' = IF r.end = "open" THEN phase ELSE "over"

(* failStream and finishStream release the source, whose teardown cancels  *)
(* the reader unless it has settled.                                       *)
EndsWith(r, readerNow) ==
  /\ out' = r.out /\ end' = r.end
  /\ reader' = IF r.end # "open" /\ readerNow = "live" THEN "cancelled" ELSE readerNow
  /\ phase' = IF r.end = "open" THEN phase ELSE "over"

(* The request cannot be made (enforceOutgoingInput and fetch may throw),  *)
(* is rejected by the network, or its response has no body to read.        *)
FetchFails ==
  /\ phase = "fetching"
  /\ EndsWith(Result(out, "error"), reader)
  /\ UNCHANGED <<body, got, parser, aborted>>

(* A status other than 2xx; its body is read before the stream fails.      *)
RespondsWithError ==
  /\ phase = "fetching" /\ ~aborted
  /\ phase' = "refused"
  /\ UNCHANGED <<body, got, parser, reader, out, end, aborted>>

ErrorBodyRead ==
  /\ phase = "refused"
  /\ EndsWith(Result(out, "error"), reader)
  /\ UNCHANGED <<body, got, parser, aborted>>

(* The HEADERS event chooses the parser.                                   *)
Responds(contentType) ==
  /\ phase = "fetching" /\ ~aborted
  /\ phase' = "reading" /\ reader' = "live"
  /\ parser' = contentType
  /\ UNCHANGED <<body, got, out, end, aborted>>

Read(n) ==
  /\ phase = "reading" /\ got + n <= 2 * Len(body)
  /\ \E r \in ParseRead(n) : EndsWith(r, "live")
  /\ got' = got + n
  /\ UNCHANGED <<body, parser, aborted>>

(* The body ends, where it should or, the connection cut, anywhere.        *)
Done ==
  /\ phase = "reading"
  /\ \E r \in ParseEnd : EndsWith(r, "settled")
  /\ UNCHANGED <<body, got, parser, aborted>>

ReadFails ==
  /\ phase = "reading"
  /\ EndsWith(Result(out, "error"), "settled")
  /\ UNCHANGED <<body, got, parser, aborted>>

(* abortRun, or the controller that the caller passed.  Reads that have    *)
(* been answered are still delivered; after the end it has no effect.      *)
Abort ==
  /\ ~aborted
  /\ aborted' = TRUE
  /\ UNCHANGED <<body, got, phase, parser, reader, out, end>>

(* Mutant: the error of the source is left to the parser.                  *)
RejectedByParserOnly ==
  IF parser = "none" THEN Current
  ELSE IF parser = "sse" THEN Result(Append(out, 0), "complete") ELSE Result(out, "error")

(* AbortError: the text parser's error handler makes it an event and ends  *)
(* the stream; before the headers, and for the binary parser, it is an     *)
(* error like any other.                                                   *)
Rejected ==
  IF parser = "sse" THEN Result(Append(out, 0), "complete") ELSE Result(out, "error")

(* The signal rejects the fetch, or the read that is under way.            *)
AbortRejects ==
  /\ aborted /\ phase # "over"
  /\ EndsWith(Rejected, IF phase = "reading" THEN "settled" ELSE reader)
  /\ UNCHANGED <<body, got, parser, aborted>>

Next ==
  \/ FetchFails \/ RespondsWithError \/ ErrorBodyRead
  \/ \E contentType \in {"sse", "proto"} : Responds(contentType)
  \/ \E n \in 1..MaxHalves : Read(n)
  \/ Done \/ ReadFails
  \/ Abort \/ AbortRejects

(* A fetch or a read whose signal is aborted is rejected.                  *)
Spec == Init /\ [][Next]_vars /\ WF_vars(AbortRejects)

-----------------------------------------------------------------------------
Fails(i) == Verdict(body[i]) = "fail"

(* The events of the first n frames, up to the first frame in error.       *)
EventsOf(n) == {i \in 1..n : Verdict(body[i]) = "emit" /\ \A j \in 1..i : ~Fails(j)}

(* The consumer gets the events that arrived, in order, each once, up to   *)
(* the first frame that is in error, however the reads cut the body; a     *)
(* stream that completes has skipped no frame in error, and one in binary  *)
(* no part of a frame.  The event that reports an abort comes last.        *)
DeliveredInOrder ==
  LET whole == got \div 2
      reported == 0 \in ToSet(out)
  IN /\ \A j \in DOMAIN out : \A i \in 1..j - 1 :
          out[i] > 0 /\ (out[i] < out[j] \/ out[j] = 0)
     /\ \/ ToSet(out) \ {0} = EventsOf(whole)
        \/ /\ end = "complete" /\ ~reported /\ got % 2 = 1 /\ parser = "sse"
           /\ ToSet(out) = EventsOf(whole) \cup {whole + 1}
     /\ end = "complete" => \A i \in 1..whole : ~Fails(i)
     /\ end = "complete" /\ ~reported /\ parser = "proto" => got % 2 = 0
     /\ reported => aborted /\ end = "complete"

(* Whatever ended the stream, nothing is left reading the response: a live *)
(* reader would go on taking a body that nobody consumes.                  *)
ReaderReleased == end # "open" => reader # "live"

(* A run that is aborted ends, at whatever point of the request the abort  *)
(* comes and whatever the server does.                                     *)
AbortEndsTheStream == aborted ~> end # "open"
=============================================================================
