-------------------------------- MODULE ADKRun --------------------------------
(***************************************************************************)
(* The runs of an ADKJSAgent and its clones (integrations/adk-middleware/  *)
(* js/src): agent.ts starts and aborts them, run-coordinator.ts carries    *)
(* them out, session-bridge.ts and interrupt-bridge.ts decide from the     *)
(* thread's session what an input means, run-marker.ts records a run       *)
(* there.  Subagents are off, the user is always the same, history is not  *)
(* preloaded, and what ADK asks for is input (not a confirmation or a      *)
(* credential); a resume has a payload that its request allows and brings  *)
(* no new message, and names requests that ADK has made.  The ADK runner   *)
(* and its session service are external.                                   *)
(*                                                                         *)
(* A step is what happens between two awaits.                              *)
(***************************************************************************)
EXTENDS Integers, SequencesExt

CONSTANTS
    Runs,        \* calls of run() that are subscribed to, as they start
    Threads,     \* threadIds, which name ADK sessions
    Messages,    \* ids of user messages
    Interrupts,  \* ids that ADK gives its requests for input, as it does
    Answers,     \* payloads of a resume
    None         \* no run

ASSUME NoneIsNoRun == None \notin Runs
ASSUME Numbered == Runs \subseteq Nat /\ Interrupts \subseteq Nat

Inputs ==
  [kind : {"message"}, thread : Threads, id : Messages]
  \cup [kind : {"resume"}, thread : Threads, ids : SUBSET Interrupts \ {{}}, answer : Answers]

VARIABLES
    input,          \* of each run, None before it starts
    phase,          \* where the run is
    fed,            \* ADK has been given and has stored the run's input
    speaking,       \* the translator has a message open
    aborted,        \* the run's controller is in activeControllers, aborted
    closed,         \* the client has unsubscribed
    outcome,        \* terminal events that the client received
    activeThreads,  \* threads with a run in flight, shared by the clones
    bindings,       \* run whose tools are bound to a thread
    session         \* the events of each thread, persistent

runVars == <<input, phase, fed, speaking, aborted, closed, outcome>>
vars == <<runVars, activeThreads, bindings, session>>

Phases == {"idle", "resolving", "opening", "replying", "streaming", "sealing",
           "marking", "closing", "done", "dead"}
Over == {"done", "dead"}

(* From the check of activeThreads to the finally block.                   *)
Held == {"opening", "replying", "streaming", "sealing", "marking", "closing"}

(* The part of it in which boundToolsets is not empty.                     *)
Bound == {"streaming", "sealing", "marking", "closing"}

ThreadOf(r) == input[r].thread

Init ==
  /\ input = [r \in Runs |-> None]
  /\ phase = [r \in Runs |-> "idle"]
  /\ fed = [r \in Runs |-> FALSE]
  /\ speaking = [r \in Runs |-> FALSE]
  /\ aborted = [r \in Runs |-> FALSE]
  /\ closed = [r \in Runs |-> FALSE]
  /\ outcome = [r \in Runs |-> <<>>]
  /\ activeThreads = {}
  /\ bindings = [t \in Threads |-> None]
  /\ session = [t \in Threads |-> <<>>]

-----------------------------------------------------------------------------
(* Events of a session: user messages, requests for input, their answers,  *)
(* replies that repeat an answer as text, and run markers.                 *)
Entry(kind, ids, fingerprint, result) ==
  [kind |-> kind, ids |-> ids, fingerprint |-> fingerprint, result |-> result]

Holds(events, kind, id) ==
  \E k \in DOMAIN events : events[k].kind = kind /\ id \in events[k].ids

(* getPendingUserInputRequests.                                            *)
Pending(events) ==
  {i \in Interrupts : Holds(events, "request", i) /\ ~Holds(events, "answer", i)}

Fingerprint(in) == IF in.kind = "resume" THEN <<in.ids, in.answer>> ELSE <<>>

MarkedWith(e, fingerprint) == e.kind = "marker" /\ e.fingerprint = fingerprint

(* completedReplay: the newest event is the marker of this very resume.    *)
Replayed(events, in) ==
  in.kind = "resume" /\ events # <<>> /\ MarkedWith(Last(events), Fingerprint(in))

(* STALE_RESUME, UNKNOWN_INTERRUPT_ID, PARTIAL_RESUME, PENDING_INTERRUPTS, *)
(* NO_NEW_INPUT.                                                           *)
Refused(events, in) ==
  IF in.kind = "resume"
    THEN \/ \E k \in DOMAIN events : MarkedWith(events[k], Fingerprint(in))
         \/ in.ids # Pending(events)
    ELSE Pending(events) # {} \/ Holds(events, "message", in.id)

(* Mutant: every attempt appends a reply.                                  *)
RepliesAgain(events, in) == in.kind = "resume"

(* appendResumeReplyOnce.                                                  *)
NeedsReply(events, in) ==
  in.kind = "resume"
    /\ ~\E k \in DOMAIN events : events[k].kind = "reply" /\ events[k].ids = in.ids

-----------------------------------------------------------------------------
(* What the client of run r is told, if it is still there.                 *)
Tell(r, result) ==
  outcome' = IF closed[r] THEN outcome ELSE [outcome EXCEPT ![r] = Append(@, result)]

(* run() is through with the run and drops its controller.                 *)
Dismiss(r) ==
  /\ phase' = [phase EXCEPT ![r] = "done"]
  /\ aborted' = [aborted EXCEPT ![r] = FALSE]

(* Mutant: the tools of a run that fails stay bound.                       *)
EndKeepsTools(r, result) ==
  /\ Dismiss(r)
  /\ speaking' = [speaking EXCEPT ![r] = FALSE]
  /\ activeThreads' = activeThreads \ {ThreadOf(r)}
  /\ UNCHANGED bindings
  /\ Tell(r, result)

(* The finally block: unbindTools, and the thread is free.                 *)
Finally(r) ==
  /\ Dismiss(r)
  /\ bindings' = IF phase[r] \in Bound THEN [bindings EXCEPT ![ThreadOf(r)] = None] ELSE bindings
  /\ activeThreads' = activeThreads \ {ThreadOf(r)}

(* A replay or a cancelled run: the terminal event goes out, the function  *)
(* returns.  A failure: it throws, and run() makes the event.              *)
End(r, result) ==
  /\ Finally(r)
  /\ speaking' = [speaking EXCEPT ![r] = FALSE]
  /\ Tell(r, result)

(* The end of finalize: RUN_FINISHED is out, execute has yet to resume.    *)
Finish(r, result) ==
  /\ phase' = [phase EXCEPT ![r] = "closing"]
  /\ Tell(r, result)
  /\ UNCHANGED <<speaking, aborted, bindings, activeThreads>>

(* The catch block: a deliberate stop is told as cancelled.                *)
Catch(r, protocolError) ==
  End(r, IF aborted[r] /\ ~protocolError THEN "cancelled" ELSE "error")

Goto(r, p) ==
  /\ phase' = [phase EXCEPT ![r] = p]
  /\ UNCHANGED <<speaking, aborted, bindings, activeThreads, outcome>>

(* bindClientToolsets, and then ADK's runAsync.                            *)
Stream(r) ==
  /\ phase' = [phase EXCEPT ![r] = "streaming"]
  /\ bindings' = [bindings EXCEPT ![ThreadOf(r)] = r]
  /\ UNCHANGED <<speaking, aborted, activeThreads, outcome>>

(* Or the toolsets or the run's configuration do not allow it:             *)
(* CLIENT_TOOLSET_NOT_PLACED, STREAMING_MODE_UNSUPPORTED and the like.     *)
Launch(r) == Stream(r) \/ Catch(r, TRUE)

Store(r, entry) == session' = [session EXCEPT ![ThreadOf(r)] = Append(@, entry)]

-----------------------------------------------------------------------------
(* run: RUN_STARTED and the state go out; execute awaits resolveUserId.    *)
Start(r, in) ==
  /\ phase[r] = "idle" /\ \A s \in Runs : s < r => phase[s] # "idle"
  /\ in.kind = "resume" => \A i \in in.ids : \E t \in Threads : Holds(session[t], "request", i)
  /\ input' = [input EXCEPT ![r] = in]
  /\ phase' = [phase EXCEPT ![r] = "resolving"]
  /\ UNCHANGED <<fed, speaking, aborted, closed, outcome, activeThreads, bindings, session>>

(* No user id, or THREAD_BUSY: thrown before the try block, so there is    *)
(* nothing to give back.                                                   *)
TurnedAway(r) ==
  /\ phase[r] = "resolving"
  /\ Dismiss(r)
  /\ Tell(r, "error")
  /\ UNCHANGED <<input, fed, speaking, closed, activeThreads, bindings, session>>

(* Mutant: the thread is claimed whoever has it.                           *)
EnterUnchecked(r) ==
  /\ phase[r] = "resolving"
  /\ activeThreads' = activeThreads \cup {ThreadOf(r)}
  /\ IF aborted[r]
       THEN Dismiss(r) /\ Tell(r, "cancelled")
       ELSE phase' = [phase EXCEPT ![r] = "opening"] /\ UNCHANGED <<aborted, outcome>>
  /\ UNCHANGED <<input, fed, speaking, closed, bindings, session>>

(* The thread is claimed; an abort that came first is noticed at once.     *)
Enter(r) ==
  /\ phase[r] = "resolving" /\ ThreadOf(r) \notin activeThreads
  /\ IF aborted[r]
       THEN /\ Dismiss(r)
            /\ Tell(r, "cancelled")
            /\ UNCHANGED activeThreads
       ELSE /\ phase' = [phase EXCEPT ![r] = "opening"]
            /\ activeThreads' = activeThreads \cup {ThreadOf(r)}
            /\ UNCHANGED <<aborted, outcome>>
  /\ UNCHANGED <<input, fed, speaking, closed, bindings, session>>

(* getOrCreateSession answers; prepareRunInput decides from its events.    *)
OpenSession(r) ==
  LET events == session[ThreadOf(r)]
      in == input[r]
  IN
  /\ phase[r] = "opening"
  /\ \/ aborted[r] /\ Catch(r, FALSE)
     \/ ~aborted[r] /\ Replayed(events, in) /\ End(r, Last(events).result)
     \/ ~aborted[r] /\ ~Replayed(events, in) /\ Refused(events, in) /\ Catch(r, TRUE)
     \/ /\ ~aborted[r] /\ ~Replayed(events, in) /\ ~Refused(events, in)
        /\ IF NeedsReply(events, in) THEN Goto(r, "replying") ELSE Launch(r)
  /\ UNCHANGED <<input, fed, closed, session>>

(* The reply has been appended to the session.                             *)
AppendReply(r) ==
  /\ phase[r] = "replying"
  /\ Store(r, Entry("reply", input[r].ids, Fingerprint(input[r]), ""))
  /\ IF aborted[r] THEN Catch(r, FALSE) ELSE Launch(r)
  /\ UNCHANGED <<input, fed, closed>>

(* The session service rejects a call.                                     *)
ServiceFails(r) ==
  /\ phase[r] \in {"opening", "replying", "sealing", "marking"}
  /\ Catch(r, FALSE)
  /\ UNCHANGED <<input, fed, closed, session>>

-----------------------------------------------------------------------------
(* ADK at work: it stores its input, streams text, and asks for input.     *)
Feed(r) ==
  /\ phase[r] = "streaming" /\ ~fed[r]
  /\ Store(r, IF input[r].kind = "resume"
                THEN Entry("answer", input[r].ids, Fingerprint(input[r]), "")
                ELSE Entry("message", {input[r].id}, <<>>, ""))
  /\ fed' = [fed EXCEPT ![r] = TRUE]
  /\ UNCHANGED <<input, phase, speaking, aborted, closed, outcome, activeThreads, bindings>>

Say(r) ==
  /\ phase[r] = "streaming" /\ fed[r] /\ ~speaking[r]
  /\ speaking' = [speaking EXCEPT ![r] = TRUE]
  /\ UNCHANGED <<input, phase, fed, aborted, closed, outcome, activeThreads, bindings, session>>

Ask(r, i) ==
  /\ phase[r] = "streaming" /\ fed[r]
  /\ \A j \in Interrupts : (j < i) <=> \E t \in Threads : Holds(session[t], "request", j)
  /\ Store(r, Entry("request", {i}, <<>>, ""))
  /\ speaking' = [speaking EXCEPT ![r] = FALSE]
  /\ UNCHANGED <<input, phase, fed, aborted, closed, outcome, activeThreads, bindings>>

(* runAsync throws, or yields an event with an errorCode, which translate  *)
(* turns into a protocol error.                                            *)
AdkFails(r, errorCode) ==
  /\ phase[r] = "streaming"
  /\ Catch(r, errorCode)
  /\ UNCHANGED <<input, fed, closed, session>>

(* Mutant: runAsync is not given the signal and ends when ADK is through.  *)
AdkReturnsUnaborted(r) ==
  /\ phase[r] = "streaming" /\ fed[r]
  /\ IF aborted[r] THEN Catch(r, FALSE)
     ELSE /\ phase' = [phase EXCEPT ![r] = "sealing"]
          /\ speaking' = [speaking EXCEPT ![r] = FALSE]
          /\ UNCHANGED <<aborted, bindings, activeThreads, outcome>>
  /\ UNCHANGED <<input, fed, closed, session>>

(* runAsync ends, silently too when it is aborted.  finish closes what is  *)
(* open; finalize asks for the session.                                    *)
AdkReturns(r) ==
  /\ phase[r] = "streaming" /\ (fed[r] \/ aborted[r])
  /\ IF aborted[r] THEN Catch(r, FALSE)
     ELSE /\ phase' = [phase EXCEPT ![r] = "sealing"]
          /\ speaking' = [speaking EXCEPT ![r] = FALSE]
          /\ UNCHANGED <<aborted, bindings, activeThreads, outcome>>
  /\ UNCHANGED <<input, fed, closed, session>>

Result(r) == IF Pending(session[ThreadOf(r)]) # {} THEN "interrupt" ELSE "success"

(* finalize has the session.  A run that streamed nothing and resumed      *)
(* nothing leaves no marker.                                               *)
Seal(r) ==
  /\ phase[r] = "sealing"
  /\ \/ aborted[r] /\ Catch(r, FALSE)
     \/ ~aborted[r] /\ Goto(r, "marking")
     \/ ~aborted[r] /\ input[r].kind = "message" /\ Finish(r, Result(r))
  /\ UNCHANGED <<input, fed, closed, session>>

(* Mutant: the marker has no place for the interrupts of the run.          *)
MarkWithoutInterrupts(r) ==
  /\ phase[r] = "marking"
  /\ Store(r, Entry("marker", {}, Fingerprint(input[r]), "success"))
  /\ Finish(r, Result(r))
  /\ UNCHANGED <<input, fed, closed>>

(* The marker has been appended; an abort comes too late.                  *)
Mark(r) ==
  /\ phase[r] = "marking"
  /\ Store(r, Entry("marker", {}, Fingerprint(input[r]), Result(r)))
  /\ Finish(r, Result(r))
  /\ UNCHANGED <<input, fed, closed>>

(* execute resumes after finalize.                                         *)
GiveBack(r) ==
  /\ phase[r] = "closing"
  /\ Finally(r)
  /\ UNCHANGED <<input, fed, speaking, closed, outcome, session>>

-----------------------------------------------------------------------------
(* abortRun.                                                               *)
Abort(r) ==
  /\ phase[r] \notin Over \cup {"idle"} /\ ~aborted[r]
  /\ aborted' = [aborted EXCEPT ![r] = TRUE]
  /\ UNCHANGED <<input, phase, fed, speaking, closed, outcome, activeThreads, bindings, session>>

(* The client unsubscribes, which aborts the run.                          *)
Leave(r) ==
  /\ phase[r] \notin Over \cup {"idle"} /\ ~closed[r]
  /\ closed' = [closed EXCEPT ![r] = TRUE]
  /\ aborted' = [aborted EXCEPT ![r] = TRUE]
  /\ UNCHANGED <<input, phase, fed, speaking, outcome, activeThreads, bindings, session>>

(* The process dies and comes back: the sessions are all that is left.     *)
Crash ==
  /\ \E r \in Runs : phase[r] \notin Over \cup {"idle"}
  /\ phase' = [r \in Runs |-> IF phase[r] \in Over \cup {"idle"} THEN phase[r] ELSE "dead"]
  /\ activeThreads' = {}
  /\ bindings' = [t \in Threads |-> None]
  /\ speaking' = [r \in Runs |-> FALSE] /\ aborted' = [r \in Runs |-> FALSE]
  /\ UNCHANGED <<input, fed, closed, outcome, session>>

Proceeds(r) ==
  \/ TurnedAway(r) \/ Enter(r) \/ OpenSession(r) \/ AppendReply(r) \/ Seal(r) \/ Mark(r)
  \/ GiveBack(r)

Next ==
  \/ \E r \in Runs :
       \/ \E in \in Inputs : Start(r, in)
       \/ Proceeds(r) \/ ServiceFails(r)
       \/ Feed(r) \/ Say(r) \/ AdkReturns(r)
       \/ \E i \in Interrupts : Ask(r, i)
       \/ \E errorCode \in BOOLEAN : AdkFails(r, errorCode)
       \/ Abort(r) \/ Leave(r)
  \/ Crash

(* The user id resolver and the session service answer; ADK returns from a *)
(* run that is aborted.                                                    *)
Fairness ==
  \A r \in Runs : WF_vars(Proceeds(r)) /\ WF_vars(aborted[r] /\ AdkReturns(r))

Spec == Init /\ [][Next]_vars /\ Fairness

-----------------------------------------------------------------------------
TypeOK ==
  /\ input \in [Runs -> Inputs \cup {None}]
  /\ phase \in [Runs -> Phases]
  /\ \A r \in Runs : phase[r] # "idle" => input[r] \in Inputs
  /\ fed \in [Runs -> BOOLEAN] /\ speaking \in [Runs -> BOOLEAN]
  /\ aborted \in [Runs -> BOOLEAN] /\ closed \in [Runs -> BOOLEAN]
  /\ activeThreads \subseteq Threads
  /\ bindings \in [Threads -> Runs \cup {None}]

(* One run at a time works on a thread, across all clones, and the set     *)
(* that guards it is neither early nor late: a thread is in it exactly     *)
(* while a run is between the check and its finally block, whether it      *)
(* ends well, fails, is aborted, or dies with the process.                 *)
OneRunPerThread ==
  /\ \A r, s \in Runs :
       phase[r] \in Held /\ phase[s] \in Held /\ ThreadOf(r) = ThreadOf(s) => r = s
  /\ activeThreads = {ThreadOf(r) : r \in {r \in Runs : phase[r] \in Held}}

(* "Bindings are scoped by ADK user/session and are removed after every    *)
(* run": the tools that ADK finds on a thread are those of the run that is *)
(* using it, never those of one before.                                    *)
BindingsFollowTheRun ==
  /\ \A t \in Threads : bindings[t] # None =>
       /\ phase[bindings[t]] \in Bound
       /\ ThreadOf(bindings[t]) = t
  /\ \A r \in Runs : phase[r] = "streaming" => bindings[ThreadOf(r)] = r

Positions(events, kind, id) ==
  {k \in DOMAIN events : events[k].kind = kind /\ id \in events[k].ids}

AtMostOne(S) == \A j, k \in S : j = k

SettledIn(events) ==
  /\ \A m \in Messages : AtMostOne(Positions(events, "message", m))
  /\ \A i \in Interrupts :
       /\ AtMostOne(Positions(events, "answer", i))
       /\ AtMostOne(Positions(events, "reply", i))
       /\ \A k \in Positions(events, "answer", i) :
            \E j \in Positions(events, "reply", i) : j < k

(* Retried, doubled, aborted or cut off by a crash: a message or an answer *)
(* reaches ADK at most once, and the reply that goes with an answer comes  *)
(* before it, once.                                                        *)
SettledOnce == \A t \in Threads : SettledIn(session[t])

(* What run r was told is how its resume came out.                         *)
Settles(r) ==
  input[r] # None /\ input[r].kind = "resume" /\ outcome[r] \in {<<"interrupt">>, <<"success">>}

(* "Exactly one terminal RUN_FINISHED or RUN_ERROR", when the run is       *)
(* through and not before, unless the client has gone or the process has   *)
(* died; and a resume that is sent again, after a crash too, is never told *)
(* another type of outcome (success, interrupt) than the one it had.       *)
OneOutcome ==
  /\ \A r \in Runs :
       /\ Len(outcome[r]) <= 1
       /\ outcome[r] # <<>> => phase[r] \in {"closing"} \cup Over
       /\ phase[r] \in {"closing", "done"} => closed[r] \/ outcome[r] # <<>>
  /\ \A r, s \in Runs :
       Settles(r) /\ Settles(s) /\ input[r] = input[s] => outcome[r] = outcome[s]

(* A run that is aborted, or whose client has gone, ends and gives its     *)
(* thread back, wherever the abort finds it: as each of finitely many runs *)
(* is aborted once, there is always again a time when all those that were  *)
(* aborted are over.                                                       *)
AbortedRunEnds == []<>(\A r \in Runs : aborted[r] => phase[r] \in Over)
=============================================================================
