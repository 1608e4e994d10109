---------------------------- MODULE ADKRun_proofs ----------------------------
(***************************************************************************)
(* OneRunPerThread, BindingsFollowTheRun, SettledOnce and OneOutcome for   *)
(* any number of runs, threads, messages and interrupts.                   *)
(*                                                                         *)
(* None is inductive alone.  A run may bind its tools without looking who  *)
(* is there because it alone holds the thread; a run that ends may         *)
(* clear the thread's bindings because whoever is bound holds the thread;  *)
(* and what a run's input says of its thread must not change on the way.   *)
(* What a run decided from the session still holds when it writes there    *)
(* because nobody else writes in between (HistoryInv, second half).  A     *)
(* resume that is sent again meets the marker of the run that settled it,  *)
(* which says what that run's client was told (OutcomeInv).                *)
(***************************************************************************)
EXTENDS ADKRun, TLAPS

ControlOK ==
  /\ input \in [Runs -> Inputs \cup {None}]
  /\ phase \in [Runs -> Phases]
  /\ \A r \in Runs : phase[r] # "idle" => ThreadOf(r) \in Threads
  /\ activeThreads \subseteq Threads
  /\ bindings \in [Threads -> Runs \cup {None}]

Exclusive ==
  \A r, s \in Runs :
    phase[r] \in Held /\ phase[s] \in Held /\ ThreadOf(r) = ThreadOf(s) => r = s

ActiveAreHeld ==
  \A t \in Threads :
    t \in activeThreads <=> \E r \in Runs : phase[r] \in Held /\ ThreadOf(r) = t

IInv == ControlOK /\ Exclusive /\ ActiveAreHeld /\ BindingsFollowTheRun

(* The thread of an input is a thread.                                     *)
LEMMA InputsNameThreads == \A in \in Inputs : in.thread \in Threads
  BY DEF Inputs

(* The set of active threads as the invariant of the runs states it.       *)
LEMMA InvariantImpliesOneRun == IInv => OneRunPerThread
<1> SUFFICES ASSUME IInv PROVE OneRunPerThread
  OBVIOUS
<1>1. \A r \in Runs : phase[r] \in Held => ThreadOf(r) \in Threads
  BY DEF IInv, ControlOK, Held
<1>2. activeThreads = {ThreadOf(r) : r \in {r \in Runs : phase[r] \in Held}}
  BY <1>1 DEF IInv, ControlOK, ActiveAreHeld
<1> QED
  BY <1>2 DEF IInv, Exclusive, OneRunPerThread

LEMMA InitEstablishes == Init => IInv
  BY DEF Init, IInv, ControlOK, Exclusive, ActiveAreHeld, BindingsFollowTheRun, Phases, Held

-----------------------------------------------------------------------------
(* The finally block of a run that holds its thread gives back the thread  *)
(* and the bindings, and no one else's.                                    *)
LEMMA EndPreserves ==
  ASSUME IInv, NEW r \in Runs, phase[r] \in Held, UNCHANGED input,
         Finally(r)
  PROVE  IInv'
<1> DEFINE t == ThreadOf(r)
<1>1. t \in Threads
  BY DEF IInv, ControlOK, Held
<1>2. /\ phase' = [phase EXCEPT ![r] = "done"]
      /\ bindings' = IF phase[r] \in Bound THEN [bindings EXCEPT ![t] = None] ELSE bindings
      /\ activeThreads' = activeThreads \ {t}
      /\ \A s \in Runs : ThreadOf(s)' = ThreadOf(s)
  BY DEF Finally, Dismiss, ThreadOf
<1>3. /\ phase'[r] = "done"
      /\ \A s \in Runs : s # r => phase'[s] = phase[s]
      /\ \A s \in Runs : phase'[s] \in Held => s # r /\ phase[s] \in Held
  BY <1>2 DEF IInv, ControlOK, Held
<1>4. ControlOK'
  BY <1>1, <1>2 DEF IInv, ControlOK, Phases, Held
<1>5. Exclusive'
  BY <1>2, <1>3 DEF IInv, Exclusive
<1>6. ActiveAreHeld'
  BY <1>1, <1>2, <1>3 DEF IInv, ActiveAreHeld, Exclusive
<1>7. BindingsFollowTheRun'
  <2>0. phase[r] \notin Bound => bindings[t] = None
    <3>1. ASSUME bindings[t] # None PROVE bindings[t] = r /\ phase[r] \in Bound
      BY <1>1, <3>1 DEF IInv, ControlOK, BindingsFollowTheRun, Exclusive, Bound, Held
    <3> QED
      BY <3>1
  <2>1. \A u \in Threads : bindings'[u] # None => u # t /\ bindings'[u] = bindings[u]
    BY <1>1, <1>2, <2>0 DEF IInv, ControlOK
  <2>2. \A u \in Threads : bindings'[u] # None =>
           /\ bindings[u] \in Runs /\ bindings[u] # r
           /\ phase[bindings[u]] \in Bound
           /\ ThreadOf(bindings[u]) = u
    BY <2>1 DEF IInv, ControlOK, BindingsFollowTheRun
  <2>3. \A s \in Runs : phase'[s] = "streaming" => bindings'[ThreadOf(s)] = s
    <3> TAKE s \in Runs
    <3> HAVE phase'[s] = "streaming"
    <3>1. s # r /\ phase[s] = "streaming" /\ bindings[ThreadOf(s)] = s
      BY <1>3 DEF IInv, BindingsFollowTheRun, Held
    <3>2. ThreadOf(s) # t /\ ThreadOf(s) \in Threads
      BY <3>1 DEF IInv, Exclusive, ControlOK, Held
    <3> QED
      BY <3>1, <3>2, <1>2 DEF IInv, ControlOK
  <2> QED
    BY <2>1, <2>2, <2>3, <1>2, <1>3 DEF BindingsFollowTheRun
<1> QED
  BY <1>4, <1>5, <1>6, <1>7 DEF IInv

(* A run that holds its thread goes on to a later await.                   *)
LEMMA MovePreserves ==
  ASSUME IInv, NEW r \in Runs, phase[r] \in Held, UNCHANGED <<input, bindings, activeThreads>>,
         NEW p \in {"replying", "sealing", "marking", "closing"},
         phase[r] \in Bound => p \in Bound,
         phase' = [phase EXCEPT ![r] = p]
  PROVE  IInv'
<1>1. /\ phase'[r] = p
      /\ \A s \in Runs : s # r => phase'[s] = phase[s]
      /\ \A s \in Runs : phase'[s] \in Held <=> phase[s] \in Held
      /\ \A s \in Runs : ThreadOf(s)' = ThreadOf(s)
  BY DEF IInv, ControlOK, Held, ThreadOf
<1>2. ControlOK'
  BY <1>1 DEF IInv, ControlOK, Phases, Held
<1>3. Exclusive' /\ ActiveAreHeld'
  BY <1>1 DEF IInv, Exclusive, ActiveAreHeld
<1>4. BindingsFollowTheRun'
  BY <1>1 DEF IInv, ControlOK, BindingsFollowTheRun, Held, Bound
<1> QED
  BY <1>2, <1>3, <1>4 DEF IInv

(* A run binds its tools on the thread that it holds.                      *)
LEMMA StreamPreserves ==
  ASSUME IInv, NEW r \in Runs, phase[r] \in {"opening", "replying"}, UNCHANGED input, Stream(r)
  PROVE  IInv'
<1> DEFINE t == ThreadOf(r)
<1>1. t \in Threads
  BY DEF IInv, ControlOK
<1>2. /\ phase' = [phase EXCEPT ![r] = "streaming"]
      /\ bindings' = [bindings EXCEPT ![t] = r]
      /\ activeThreads' = activeThreads
      /\ \A s \in Runs : ThreadOf(s)' = ThreadOf(s)
  BY DEF Stream, ThreadOf
<1>3. /\ phase'[r] = "streaming" /\ bindings'[t] = r
      /\ \A s \in Runs : s # r => phase'[s] = phase[s]
      /\ \A s \in Runs : phase'[s] \in Held <=> phase[s] \in Held
      /\ \A u \in Threads : u # t => bindings'[u] = bindings[u]
  BY <1>1, <1>2 DEF IInv, ControlOK, Held
<1>4. ControlOK'
  BY <1>1, <1>2 DEF IInv, ControlOK, Phases
<1>5. Exclusive' /\ ActiveAreHeld'
  BY <1>2, <1>3 DEF IInv, Exclusive, ActiveAreHeld
<1>6. BindingsFollowTheRun'
  <2>1. \A s \in Runs : s # r /\ phase[s] = "streaming" => ThreadOf(s) # t /\ ThreadOf(s) \in Threads
    BY DEF IInv, Exclusive, ControlOK, Held
  <2>2. \A u \in Threads : u # t /\ bindings[u] # None =>
           bindings[u] \in Runs /\ bindings[u] # r
    BY DEF IInv, ControlOK, BindingsFollowTheRun
  <2> QED
    BY <1>2, <1>3, <2>1, <2>2 DEF IInv, BindingsFollowTheRun, Bound
<1> QED
  BY <1>4, <1>5, <1>6 DEF IInv

(* A step that touches neither phases, inputs, threads nor bindings.       *)
LEMMA IdlePreserves ==
  ASSUME IInv, UNCHANGED <<input, phase, activeThreads, bindings>>
  PROVE  IInv'
  BY DEF IInv, ControlOK, Exclusive, ActiveAreHeld, BindingsFollowTheRun, ThreadOf

(* A run that does not hold its thread ends.                               *)
LEMMA AwayPreserves ==
  ASSUME IInv, NEW r \in Runs, phase[r] = "resolving",
         UNCHANGED <<input, activeThreads, bindings>>,
         phase' = [phase EXCEPT ![r] = "done"]
  PROVE  IInv'
<1>1. /\ phase'[r] = "done"
      /\ \A s \in Runs : s # r => phase'[s] = phase[s]
      /\ \A s \in Runs : phase'[s] \in Held <=> phase[s] \in Held
      /\ \A s \in Runs : ThreadOf(s)' = ThreadOf(s)
  BY DEF IInv, ControlOK, Held, ThreadOf
<1>2. ControlOK'
  BY <1>1 DEF IInv, ControlOK, Phases
<1>3. Exclusive' /\ ActiveAreHeld'
  BY <1>1 DEF IInv, Exclusive, ActiveAreHeld
<1>4. BindingsFollowTheRun'
  BY <1>1 DEF IInv, ControlOK, BindingsFollowTheRun, Bound
<1> QED
  BY <1>2, <1>3, <1>4 DEF IInv

-----------------------------------------------------------------------------
(* run(), and the claim of a thread that nobody holds.                     *)
LEMMA StartPreserves ==
  ASSUME IInv, NEW r \in Runs, NEW in \in Inputs, Start(r, in)
  PROVE  IInv'
<1>1. /\ input' = [input EXCEPT ![r] = in]
      /\ phase' = [phase EXCEPT ![r] = "resolving"]
      /\ UNCHANGED <<activeThreads, bindings>>
      /\ phase[r] = "idle"
  BY DEF Start
<1>2. /\ phase'[r] = "resolving" /\ ThreadOf(r)' \in Threads
      /\ \A s \in Runs : s # r => phase'[s] = phase[s] /\ ThreadOf(s)' = ThreadOf(s)
      /\ \A s \in Runs : phase'[s] \in Held => s # r /\ phase[s] \in Held
      /\ \A s \in Runs : phase[s] \in Held => s # r /\ phase'[s] \in Held
  BY <1>1, InputsNameThreads DEF IInv, ControlOK, Held, ThreadOf
<1>3. ControlOK'
  BY <1>1, <1>2 DEF IInv, ControlOK, Phases
<1>4. Exclusive' /\ ActiveAreHeld'
  BY <1>1, <1>2 DEF IInv, Exclusive, ActiveAreHeld
<1>5. BindingsFollowTheRun'
  BY <1>1, <1>2 DEF IInv, ControlOK, BindingsFollowTheRun, Bound
<1> QED
  BY <1>3, <1>4, <1>5 DEF IInv

LEMMA EnterPreserves ==
  ASSUME IInv, NEW r \in Runs, Enter(r)
  PROVE  IInv'
<1>1. CASE aborted[r]
  BY <1>1, AwayPreserves DEF Enter, Dismiss
<1>2. CASE ~aborted[r]
  <2>1. /\ phase[r] = "resolving" /\ ThreadOf(r) \notin activeThreads
        /\ phase' = [phase EXCEPT ![r] = "opening"]
        /\ activeThreads' = activeThreads \cup {ThreadOf(r)}
        /\ UNCHANGED <<input, bindings>>
    BY <1>2 DEF Enter
  <2>2. /\ ThreadOf(r) \in Threads
        /\ phase'[r] = "opening"
        /\ \A s \in Runs : s # r => phase'[s] = phase[s]
        /\ \A s \in Runs : phase'[s] \in Held <=> s = r \/ phase[s] \in Held
        /\ \A s \in Runs : ThreadOf(s)' = ThreadOf(s)
    BY <2>1 DEF IInv, ControlOK, Held, ThreadOf
  <2>3. \A s \in Runs : phase[s] \in Held => ThreadOf(s) # ThreadOf(r)
    BY <2>1, <2>2 DEF IInv, ActiveAreHeld
  <2>4. ControlOK'
    BY <2>1, <2>2 DEF IInv, ControlOK, Phases
  <2>5. Exclusive'
    BY <2>2, <2>3 DEF IInv, Exclusive
  <2>6. ActiveAreHeld'
    BY <2>1, <2>2 DEF IInv, ActiveAreHeld
  <2>7. BindingsFollowTheRun'
    BY <2>1, <2>2 DEF IInv, ControlOK, BindingsFollowTheRun, Bound
  <2> QED
    BY <2>4, <2>5, <2>6, <2>7 DEF IInv
<1> QED
  BY <1>1, <1>2

(* A crash leaves no run, no thread and no binding.                        *)
LEMMA CrashPreserves == ASSUME IInv, Crash PROVE IInv'
<1>1. /\ phase' \in [Runs -> Phases]
      /\ \A r \in Runs : phase'[r] \notin Held
      /\ \A r \in Runs : phase'[r] # "idle" => phase[r] # "idle"
  BY DEF Crash, IInv, ControlOK, Phases, Over, Held
<1>2. /\ \A r \in Runs : ThreadOf(r)' = ThreadOf(r)
      /\ input' = input /\ activeThreads' = {} /\ bindings' = [t \in Threads |-> None]
  BY DEF Crash, ThreadOf
<1>3. ControlOK'
  BY <1>1, <1>2 DEF IInv, ControlOK
<1>4. Exclusive' /\ ActiveAreHeld' /\ BindingsFollowTheRun'
  BY <1>1, <1>2 DEF Exclusive, ActiveAreHeld, BindingsFollowTheRun, Held
<1> QED
  BY <1>3, <1>4 DEF IInv

(* The steps between a run's claim of its thread and its finally block.    *)
LEMMA HolderPreserves ==
  ASSUME IInv, NEW r \in Runs, phase[r] \in Held,
         \/ OpenSession(r) \/ AppendReply(r) \/ Seal(r) \/ Mark(r) \/ GiveBack(r)
         \/ ServiceFails(r) \/ AdkReturns(r) \/ \E errorCode \in BOOLEAN : AdkFails(r, errorCode)
  PROVE  IInv'
<1>1. UNCHANGED input
  BY DEF OpenSession, AppendReply, Seal, Mark, GiveBack, ServiceFails, AdkReturns, AdkFails
<1>2. ASSUME NEW protocolError, Catch(r, protocolError) PROVE IInv'
  BY <1>1, <1>2, EndPreserves DEF Catch, End
<1>3. ASSUME phase[r] \in {"opening", "replying"}, Launch(r) PROVE IInv'
  BY <1>1, <1>2, <1>3, StreamPreserves DEF Launch
<1>4. CASE OpenSession(r)
  <2>1. phase[r] = "opening"
    BY <1>4 DEF OpenSession
  <2>2. CASE Goto(r, "replying")
    BY <1>1, <2>1, <2>2, MovePreserves DEF Goto, Bound
  <2>3. CASE Launch(r)
    BY <1>3, <2>1, <2>3
  <2>4. CASE Catch(r, FALSE) \/ Catch(r, TRUE)
    BY <1>2, <2>4
  <2>5. CASE End(r, Last(session[ThreadOf(r)]).result)
    BY <1>1, <2>5, EndPreserves DEF End
  <2> QED
    BY <1>4, <2>2, <2>3, <2>4, <2>5 DEF OpenSession
<1>5. CASE AppendReply(r)
  BY <1>2, <1>3, <1>5 DEF AppendReply
<1>6. CASE Seal(r)
  <2>1. phase[r] = "sealing"
    BY <1>6 DEF Seal
  <2>2. CASE Goto(r, "marking")
    BY <1>1, <2>1, <2>2, MovePreserves DEF Goto, Bound
  <2>3. CASE Catch(r, FALSE)
    BY <1>2, <2>3
  <2>4. CASE Finish(r, Result(r))
    BY <1>1, <2>1, <2>4, MovePreserves DEF Finish, Bound
  <2> QED
    BY <1>6, <2>2, <2>3, <2>4 DEF Seal
<1>7. CASE Mark(r)
  BY <1>1, <1>7, MovePreserves DEF Mark, Finish, Bound
<1>8. CASE ServiceFails(r)
  BY <1>2, <1>8 DEF ServiceFails
<1>9. CASE AdkReturns(r)
  <2>1. CASE aborted[r]
    BY <1>2, <1>9, <2>1 DEF AdkReturns
  <2>2. CASE ~aborted[r]
    <3>1. phase[r] = "streaming" /\ phase' = [phase EXCEPT ![r] = "sealing"]
            /\ UNCHANGED <<input, bindings, activeThreads>>
      BY <1>9, <2>2 DEF AdkReturns
    <3> QED
      BY <3>1, MovePreserves DEF Bound
  <2> QED
    BY <2>1, <2>2
<1>10. CASE \E errorCode \in BOOLEAN : AdkFails(r, errorCode)
  BY <1>2, <1>10 DEF AdkFails
<1>11. CASE GiveBack(r)
  BY <1>1, <1>11, EndPreserves DEF GiveBack
<1> QED
  BY <1>4, <1>5, <1>6, <1>7, <1>8, <1>9, <1>10, <1>11

LEMMA NextPreserves == IInv /\ [Next]_vars => IInv'
<1> SUFFICES ASSUME IInv, [Next]_vars PROVE IInv'
  OBVIOUS
<1>1. CASE Crash
  BY <1>1, CrashPreserves
<1>2. CASE UNCHANGED vars
  BY <1>2, IdlePreserves DEF vars, runVars
<1>3. ASSUME NEW r \in Runs, NEW in \in Inputs, Start(r, in) PROVE IInv'
  BY <1>3, StartPreserves
<1>4. ASSUME NEW r \in Runs, TurnedAway(r) PROVE IInv'
  BY <1>4, AwayPreserves DEF TurnedAway, Dismiss
<1>5. ASSUME NEW r \in Runs, Enter(r) PROVE IInv'
  BY <1>5, EnterPreserves
<1>6. ASSUME NEW r \in Runs,
             \/ OpenSession(r) \/ AppendReply(r) \/ Seal(r) \/ Mark(r) \/ GiveBack(r)
             \/ ServiceFails(r) \/ AdkReturns(r) \/ \E errorCode \in BOOLEAN : AdkFails(r, errorCode)
      PROVE  IInv'
  <2>1. phase[r] \in Held
    BY <1>6 DEF OpenSession, AppendReply, Seal, Mark, GiveBack, ServiceFails, AdkReturns,
                AdkFails, Held
  <2> QED
    BY <1>6, <2>1, HolderPreserves
<1>7. ASSUME NEW r \in Runs,
             \/ Feed(r) \/ Say(r) \/ Abort(r) \/ Leave(r)
             \/ \E i \in Interrupts : Ask(r, i)
      PROVE  IInv'
  <2>1. UNCHANGED <<input, phase, activeThreads, bindings>>
    BY <1>7 DEF Feed, Say, Abort, Leave, Ask
  <2> QED
    BY <2>1, IdlePreserves
<1> QED
  BY <1>1, <1>2, <1>3, <1>4, <1>5, <1>6, <1>7 DEF Next, Proceeds

(* Whatever the number of runs and clones, of threads and of messages, and *)
(* whatever fails, is aborted or dies: a thread has at most one run at     *)
(* work, and activeThreads says exactly which threads have one.            *)
THEOREM ThreadsAreExclusive == Spec => []OneRunPerThread
<1>1. Init /\ [][Next]_vars => []IInv
  BY InitEstablishes, NextPreserves, PTL
<1> QED
  BY <1>1, InvariantImpliesOneRun, PTL DEF Spec

(* The tools bound on a thread are those of the run at work there: a run   *)
(* that streams finds its own, and none outlive their run.                 *)
THEOREM ToolsFollowTheRun == Spec => []BindingsFollowTheRun
<1>1. Init /\ [][Next]_vars => []IInv
  BY InitEstablishes, NextPreserves, PTL
<1>2. IInv => BindingsFollowTheRun
  BY DEF IInv
<1> QED
  BY <1>1, <1>2, PTL DEF Spec

-----------------------------------------------------------------------------
(* What a thread's session says, and what a run that is about to write it  *)
(* has made sure of.  A reply covers all the requests that are pending or  *)
(* none of them, because a resume must answer them all; so a retry that    *)
(* finds no reply with its ids finds none that shares one.                 *)
Entries ==
  [kind : {"message", "request", "answer", "reply", "marker"},
   ids : SUBSET (Messages \cup Interrupts),
   fingerprint : ((SUBSET Interrupts) \X Answers) \cup {<<>>},
   result : {"", "interrupt", "success"}]

Replies(events) == {k \in DOMAIN events : events[k].kind = "reply"}

RepliesAreToRequests(events) ==
  \A k \in Replies(events) :
    /\ events[k].ids \in SUBSET Interrupts \ {{}}
    /\ \A i \in events[k].ids : Holds(events, "request", i)

RepliesCoverPending(events) ==
  \A k \in Replies(events) :
    events[k].ids = Pending(events) \/ events[k].ids \cap Pending(events) = {}

NoReplyPending(events) ==
  \A k \in Replies(events) : events[k].ids \cap Pending(events) = {}

(* Before the reply, before ADK stores its input, and after.               *)
MayReply(events, in) ==
  /\ in.kind = "resume" /\ in.ids = Pending(events)
  /\ ~\E k \in Replies(events) : events[k].ids = in.ids

MayFeed(events, in) ==
  IF in.kind = "resume"
    THEN in.ids = Pending(events) /\ \E k \in Replies(events) : events[k].ids = in.ids
    ELSE Pending(events) = {} /\ ~Holds(events, "message", in.id)

RunPrepared(r) ==
  LET events == session[ThreadOf(r)] IN
  /\ phase[r] # "idle" => input[r] \in Inputs
  /\ phase[r] \in {"idle", "resolving", "opening", "replying"} => ~fed[r]
  /\ phase[r] = "replying" => MayReply(events, input[r])
  /\ phase[r] = "streaming" => IF fed[r] THEN NoReplyPending(events) ELSE MayFeed(events, input[r])

HistoryOK(events) ==
  /\ events \in Seq(Entries)
  /\ RepliesAreToRequests(events) /\ RepliesCoverPending(events)
  /\ SettledIn(events)

HistoryInv ==
  /\ fed \in [Runs -> BOOLEAN]
  /\ session = [t \in Threads |-> session[t]]
  /\ \A t \in Threads : HistoryOK(session[t])
  /\ \A r \in Runs : RunPrepared(r)

(* What one more event adds to a session.                                  *)
LEMMA AppendEntry ==
  ASSUME NEW events \in Seq(Entries), NEW e \in Entries
  PROVE  /\ Append(events, e) \in Seq(Entries)
         /\ Len(events) \in Nat
         /\ DOMAIN events = 1 .. Len(events)
         /\ DOMAIN Append(events, e) = 1 .. (Len(events) + 1)
         /\ \A k \in DOMAIN events : Append(events, e)[k] = events[k]
         /\ Append(events, e)[Len(events) + 1] = e
  OBVIOUS

LEMMA AppendPositions ==
  ASSUME NEW events \in Seq(Entries), NEW e \in Entries, NEW kind, NEW id
  PROVE  Positions(Append(events, e), kind, id) =
           IF e.kind = kind /\ id \in e.ids
             THEN Positions(events, kind, id) \cup {Len(events) + 1}
             ELSE Positions(events, kind, id)
  BY AppendEntry DEF Positions

LEMMA AppendHolds ==
  ASSUME NEW events \in Seq(Entries), NEW e \in Entries, NEW kind, NEW id
  PROVE  Holds(Append(events, e), kind, id) <=>
           Holds(events, kind, id) \/ (e.kind = kind /\ id \in e.ids)
  BY AppendEntry DEF Holds

LEMMA AppendReplies ==
  ASSUME NEW events \in Seq(Entries), NEW e \in Entries
  PROVE  Replies(Append(events, e)) =
           IF e.kind = "reply" THEN Replies(events) \cup {Len(events) + 1} ELSE Replies(events)
  BY AppendEntry DEF Replies

(* Only a request and an answer change what is pending.                    *)
LEMMA AppendPending ==
  ASSUME NEW events \in Seq(Entries), NEW e \in Entries
  PROVE  /\ e.kind \in {"message", "reply", "marker"} => Pending(Append(events, e)) = Pending(events)
         /\ e.kind = "answer" => Pending(Append(events, e)) = Pending(events) \ e.ids
         /\ e.kind = "request" /\ (\A i \in e.ids : ~Holds(events, "answer", i)) =>
              Pending(Append(events, e)) = Pending(events) \cup (e.ids \cap Interrupts)
  BY AppendHolds DEF Pending

(* A position of an event is held, and before any later one.               *)
LEMMA PositionsAndHolds ==
  ASSUME NEW events \in Seq(Entries), NEW kind, NEW id
  PROVE  /\ Holds(events, kind, id) <=> Positions(events, kind, id) # {}
         /\ \A k \in Positions(events, kind, id) : k \in 1 .. Len(events)
  BY DEF Holds, Positions

(* A reply to all that is pending, where there is none yet.                *)
LEMMA ReplyKeepsHistory ==
  ASSUME NEW events, HistoryOK(events), NEW in \in Inputs, MayReply(events, in),
         NEW e \in Entries, e.kind = "reply", e.ids = in.ids
  PROVE  /\ HistoryOK(Append(events, e))
         /\ MayFeed(Append(events, e), in)
<1> DEFINE after == Append(events, e)
<1> USE DEF HistoryOK
<1>1. e.ids = Pending(events) /\ Pending(after) = Pending(events)
  BY AppendPending DEF MayReply
<1>2. in.ids \in SUBSET Interrupts \ {{}}
  BY DEF MayReply, Inputs
<1>3. NoReplyPending(events)
  BY <1>1 DEF MayReply, RepliesCoverPending, NoReplyPending
<1>4. /\ Replies(after) = Replies(events) \cup {Len(events) + 1}
      /\ after[Len(events) + 1] = e
      /\ \A k \in Replies(events) : after[k] = events[k]
  BY AppendReplies, AppendEntry DEF Replies
<1>5. RepliesAreToRequests(after)
  <2>1. \A i : Holds(events, "request", i) => Holds(after, "request", i)
    BY AppendHolds
  <2>2. \A i \in e.ids : Holds(events, "request", i)
    BY <1>1 DEF Pending
  <2> QED
    BY <1>2, <1>4, <2>1, <2>2 DEF RepliesAreToRequests, MayReply
<1>6. RepliesCoverPending(after)
  BY <1>1, <1>4 DEF RepliesCoverPending
<1>7. \A i \in e.ids : Positions(events, "reply", i) = {}
  BY <1>1, <1>3 DEF NoReplyPending, Replies, Positions
<1>8. SettledIn(after)
  <2>1. \A m : Positions(after, "message", m) = Positions(events, "message", m)
    BY AppendPositions
  <2>2. \A i : Positions(after, "answer", i) = Positions(events, "answer", i)
    BY AppendPositions
  <2>3. \A i : Positions(after, "reply", i) =
                 IF i \in e.ids THEN {Len(events) + 1} ELSE Positions(events, "reply", i)
    BY <1>7, AppendPositions
  <2>4. \A i \in Interrupts : Positions(events, "answer", i) # {} => i \notin e.ids
    BY <1>7 DEF SettledIn
  <2> QED
    BY <2>1, <2>2, <2>3, <2>4 DEF SettledIn, AtMostOne
<1>9. MayFeed(after, in)
  BY <1>1, <1>4 DEF MayFeed, MayReply
<1> QED
  BY <1>5, <1>6, <1>8, <1>9, AppendEntry

(* ADK stores an answer to all that is pending, or a new message.          *)
LEMMA FeedKeepsHistory ==
  ASSUME NEW events, HistoryOK(events), NEW in \in Inputs, MayFeed(events, in),
         NEW e \in Entries,
         IF in.kind = "resume" THEN e.kind = "answer" /\ e.ids = in.ids
                               ELSE e.kind = "message" /\ e.ids = {in.id}
  PROVE  /\ HistoryOK(Append(events, e))
         /\ NoReplyPending(Append(events, e))
<1> DEFINE after == Append(events, e)
<1> USE DEF HistoryOK
<1>1. Pending(after) = {}
  BY AppendPending DEF MayFeed
<1>2. /\ Replies(after) = Replies(events)
      /\ \A k \in Replies(events) : after[k] = events[k]
  BY AppendReplies, AppendEntry DEF Replies
<1>3. RepliesAreToRequests(after)
  <2>1. \A i : Holds(events, "request", i) => Holds(after, "request", i)
    BY AppendHolds
  <2> QED
    BY <1>2, <2>1 DEF RepliesAreToRequests
<1>4. RepliesCoverPending(after) /\ NoReplyPending(after)
  BY <1>1 DEF RepliesCoverPending, NoReplyPending
<1>5. \A i : Positions(after, "reply", i) = Positions(events, "reply", i)
  BY AppendPositions
<1>6. CASE in.kind = "resume"
  <2>1. \A i \in e.ids : Positions(events, "answer", i) = {}
    BY <1>6, PositionsAndHolds DEF MayFeed, Pending
  <2>2. \A i \in e.ids : \E j \in Positions(events, "reply", i) : j < Len(events) + 1
    <3>1. PICK k \in Replies(events) : events[k].ids = e.ids
      BY <1>6 DEF MayFeed
    <3>2. \A i \in e.ids : k \in Positions(events, "reply", i)
      BY <3>1 DEF Positions, Replies
    <3>3. k < Len(events) + 1
      BY AppendEntry DEF Replies
    <3> QED
      BY <3>2, <3>3
  <2>3. \A m : Positions(after, "message", m) = Positions(events, "message", m)
    BY <1>6, AppendPositions
  <2>4. \A i : Positions(after, "answer", i) =
                 IF i \in e.ids THEN {Len(events) + 1} ELSE Positions(events, "answer", i)
    BY <1>6, <2>1, AppendPositions
  <2>5. SettledIn(after)
    BY <1>5, <2>2, <2>3, <2>4 DEF SettledIn, AtMostOne
  <2> QED
    BY <1>3, <1>4, <2>5, AppendEntry
<1>7. CASE in.kind # "resume"
  <2>1. Positions(events, "message", in.id) = {}
    BY <1>7, PositionsAndHolds DEF MayFeed
  <2>2. \A m : Positions(after, "message", m) =
                 IF m = in.id THEN {Len(events) + 1} ELSE Positions(events, "message", m)
    BY <1>7, <2>1, AppendPositions
  <2>3. \A i : Positions(after, "answer", i) = Positions(events, "answer", i)
    BY <1>7, AppendPositions
  <2>4. SettledIn(after)
    BY <1>5, <2>2, <2>3 DEF SettledIn, AtMostOne
  <2> QED
    BY <1>3, <1>4, <2>4, AppendEntry
<1> QED
  BY <1>6, <1>7

(* ADK asks for what no session has been asked before.                     *)
LEMMA AskKeepsHistory ==
  ASSUME NEW events, HistoryOK(events), NoReplyPending(events),
         NEW i \in Interrupts, ~Holds(events, "request", i),
         NEW e \in Entries, e.kind = "request", e.ids = {i}
  PROVE  /\ HistoryOK(Append(events, e))
         /\ NoReplyPending(Append(events, e))
<1> DEFINE after == Append(events, e)
<1> USE DEF HistoryOK
<1>1. \A k \in Replies(events) : i \notin events[k].ids
  BY DEF RepliesAreToRequests
<1>2. \A j : Holds(after, "answer", j) <=> Holds(events, "answer", j)
  BY AppendHolds
<1>3. \A j \in Pending(after) : j = i \/ j \in Pending(events)
  BY <1>2, AppendHolds DEF Pending
<1>4. /\ Replies(after) = Replies(events)
      /\ \A k \in Replies(events) : after[k] = events[k]
  BY AppendReplies, AppendEntry DEF Replies
<1>5. NoReplyPending(after) /\ RepliesCoverPending(after)
  <2> HIDE DEF after
  <2>1. \A k \in Replies(after) : \A j \in after[k].ids : j \notin Pending(after)
    BY <1>1, <1>3, <1>4 DEF NoReplyPending
  <2> QED
    BY <2>1 DEF NoReplyPending, RepliesCoverPending
<1>6. RepliesAreToRequests(after)
  <2>1. \A j : Holds(events, "request", j) => Holds(after, "request", j)
    BY AppendHolds
  <2> QED
    BY <1>4, <2>1 DEF RepliesAreToRequests
<1>7. SettledIn(after)
  <2>1. \A kind \in {"message", "answer", "reply"} : \A id :
           Positions(after, kind, id) = Positions(events, kind, id)
    BY AppendPositions
  <2> QED
    BY <2>1 DEF SettledIn
<1> QED
  BY <1>5, <1>6, <1>7, AppendEntry

(* A run marker settles nothing.                                           *)
LEMMA MarkKeepsHistory ==
  ASSUME NEW events, HistoryOK(events), NEW e \in Entries, e.kind = "marker"
  PROVE  HistoryOK(Append(events, e))
<1> DEFINE after == Append(events, e)
<1> USE DEF HistoryOK
<1>1. Pending(after) = Pending(events)
  BY AppendPending
<1>2. /\ Replies(after) = Replies(events)
      /\ \A k \in Replies(events) : after[k] = events[k]
  BY AppendReplies, AppendEntry DEF Replies
<1>3. RepliesAreToRequests(after) /\ RepliesCoverPending(after)
  <2>1. \A j : Holds(events, "request", j) => Holds(after, "request", j)
    BY AppendHolds
  <2> QED
    BY <1>1, <1>2, <2>1 DEF RepliesAreToRequests, RepliesCoverPending
<1>4. SettledIn(after)
  <2>1. \A kind \in {"message", "answer", "reply"} : \A id :
           Positions(after, kind, id) = Positions(events, kind, id)
    BY AppendPositions
  <2> QED
    BY <2>1 DEF SettledIn
<1> QED
  BY <1>3, <1>4, AppendEntry

-----------------------------------------------------------------------------
(* Nobody but the run that holds a thread is prepared to write its         *)
(* session, so a step of that run leaves the others prepared.              *)
LEMMA OthersStayPrepared ==
  ASSUME IInv, HistoryInv, NEW r \in Runs,
         phase[r] \in Held \/ UNCHANGED session,
         \A t \in Threads : t # ThreadOf(r) => session'[t] = session[t],
         \A s \in Runs : s # r =>
           phase'[s] = phase[s] /\ fed'[s] = fed[s] /\ input'[s] = input[s]
  PROVE  \A s \in Runs : s # r => RunPrepared(s)'
<1> TAKE s \in Runs
<1> HAVE s # r
<1>1. RunPrepared(s) /\ ThreadOf(s)' = ThreadOf(s)
  BY DEF HistoryInv, ThreadOf
<1>2. phase[s] \in {"replying", "streaming"} => session'[ThreadOf(s)] = session[ThreadOf(s)]
  BY DEF IInv, ControlOK, Exclusive, Held
<1> QED
  BY <1>1, <1>2 DEF RunPrepared

(* A step that writes no session.                                          *)
LEMMA QuietStepKeepsHistory ==
  ASSUME IInv, HistoryInv, NEW r \in Runs, UNCHANGED <<session, fed>>,
         \A s \in Runs : s # r => phase'[s] = phase[s] /\ input'[s] = input[s],
         RunPrepared(r)'
  PROVE  HistoryInv'
<1>1. \A s \in Runs : s # r => RunPrepared(s)'
  BY OthersStayPrepared
<1> QED
  BY <1>1 DEF HistoryInv

(* A step that appends to the session of the run's thread.                 *)
LEMMA WriteKeepsHistory ==
  ASSUME IInv, HistoryInv, NEW r \in Runs, phase[r] \in Held, NEW e, Store(r, e),
         HistoryOK(Append(session[ThreadOf(r)], e)),
         UNCHANGED input, fed' \in [Runs -> BOOLEAN],
         \A s \in Runs : s # r => phase'[s] = phase[s] /\ fed'[s] = fed[s],
         RunPrepared(r)'
  PROVE  HistoryInv'
<1>1. ThreadOf(r) \in Threads
  BY DEF IInv, ControlOK, Held
<1>2. /\ session' = [t \in Threads |-> session'[t]]
      /\ session'[ThreadOf(r)] = Append(session[ThreadOf(r)], e)
      /\ \A t \in Threads : t # ThreadOf(r) => session'[t] = session[t]
  BY <1>1 DEF Store, HistoryInv
<1>3. \A t \in Threads : HistoryOK(session'[t])
  BY <1>2 DEF HistoryInv
<1>4. \A s \in Runs : s # r => RunPrepared(s)'
  BY <1>2, OthersStayPrepared
<1> QED
  BY <1>2, <1>3, <1>4 DEF HistoryInv

(* What End, Finish, Catch, Goto and Launch do to the phase of the run.    *)
LEMMA PhaseSteps ==
  ASSUME IInv, NEW r \in Runs
  PROVE  /\ \A result : End(r, result) =>
              phase'[r] = "done" /\ \A s \in Runs : s # r => phase'[s] = phase[s]
         /\ \A result : Finish(r, result) =>
              phase'[r] = "closing" /\ \A s \in Runs : s # r => phase'[s] = phase[s]
         /\ \A protocolError : Catch(r, protocolError) =>
              phase'[r] = "done" /\ \A s \in Runs : s # r => phase'[s] = phase[s]
         /\ \A p : Goto(r, p) =>
              phase'[r] = p /\ \A s \in Runs : s # r => phase'[s] = phase[s]
         /\ Launch(r) =>
              phase'[r] \in {"streaming", "done"} /\ \A s \in Runs : s # r => phase'[s] = phase[s]
<1>1. phase \in [Runs -> Phases]
  BY DEF IInv, ControlOK
<1>2. \A result : End(r, result) =>
        phase'[r] = "done" /\ \A s \in Runs : s # r => phase'[s] = phase[s]
  BY <1>1 DEF End, Finally, Dismiss
<1>3. \A protocolError : Catch(r, protocolError) =>
        phase'[r] = "done" /\ \A s \in Runs : s # r => phase'[s] = phase[s]
  BY <1>2 DEF Catch
<1>4. \A p : Goto(r, p) =>
        phase'[r] = p /\ \A s \in Runs : s # r => phase'[s] = phase[s]
  BY <1>1 DEF Goto
<1>5. Stream(r) =>
        phase'[r] = "streaming" /\ \A s \in Runs : s # r => phase'[s] = phase[s]
  BY <1>1 DEF Stream
<1>6. \A result : Finish(r, result) =>
        phase'[r] = "closing" /\ \A s \in Runs : s # r => phase'[s] = phase[s]
  BY <1>1 DEF Finish
<1> QED
  BY <1>2, <1>3, <1>4, <1>5, <1>6 DEF Launch

LEMMA HistoryInit == Init => HistoryInv
<1> SUFFICES ASSUME Init PROVE HistoryInv
  OBVIOUS
<1>1. HistoryOK(<<>>)
  BY DEF HistoryOK, RepliesAreToRequests, RepliesCoverPending, Replies, SettledIn,
         AtMostOne, Positions
<1>2. \A r \in Runs : RunPrepared(r)
  BY DEF Init, RunPrepared
<1> QED
  BY <1>1, <1>2 DEF Init, HistoryInv

(* prepareRunInput lets through what is new and answers what is pending.   *)
LEMMA OpenSessionKeepsHistory ==
  ASSUME IInv, HistoryInv, NEW r \in Runs, OpenSession(r)
  PROVE  HistoryInv'
<1> DEFINE events == session[ThreadOf(r)]
<1>1. /\ phase[r] = "opening" /\ UNCHANGED <<input, fed, session>>
      /\ input[r] \in Inputs /\ ~fed[r] /\ ThreadOf(r)' = ThreadOf(r)
  BY DEF OpenSession, HistoryInv, RunPrepared, ThreadOf
<1>2. /\ \A s \in Runs : s # r => phase'[s] = phase[s]
      /\ \/ phase'[r] = "done"
         \/ phase'[r] = "replying" /\ ~Refused(events, input[r]) /\ NeedsReply(events, input[r])
         \/ phase'[r] = "streaming" /\ ~Refused(events, input[r]) /\ ~NeedsReply(events, input[r])
  BY PhaseSteps DEF OpenSession
<1>3. RunPrepared(r)'
  <2>1. CASE phase'[r] = "done"
    BY <1>1, <2>1 DEF RunPrepared
  <2>2. CASE phase'[r] = "replying" /\ ~Refused(events, input[r]) /\ NeedsReply(events, input[r])
    <3>1. MayReply(events, input[r])
      BY <2>2 DEF Refused, NeedsReply, MayReply, Replies
    <3> QED
      BY <1>1, <2>2, <3>1 DEF RunPrepared
  <2>3. CASE phase'[r] = "streaming" /\ ~Refused(events, input[r]) /\ ~NeedsReply(events, input[r])
    <3>1. MayFeed(events, input[r])
      BY <2>3 DEF Refused, NeedsReply, MayFeed, Replies
    <3> QED
      BY <1>1, <2>3, <3>1 DEF RunPrepared
  <2> QED
    BY <1>2, <2>1, <2>2, <2>3
<1> QED
  BY <1>1, <1>2, <1>3, QuietStepKeepsHistory

LEMMA AppendReplyKeepsHistory ==
  ASSUME IInv, HistoryInv, NEW r \in Runs, AppendReply(r)
  PROVE  HistoryInv'
<1> DEFINE events == session[ThreadOf(r)]
           e == Entry("reply", input[r].ids, Fingerprint(input[r]), "")
<1>1. /\ phase[r] = "replying" /\ UNCHANGED <<input, fed>> /\ Store(r, e)
      /\ input[r] \in Inputs /\ ~fed[r] /\ ThreadOf(r)' = ThreadOf(r)
      /\ MayReply(events, input[r]) /\ fed \in [Runs -> BOOLEAN]
  BY DEF AppendReply, HistoryInv, RunPrepared, ThreadOf
<1>2. HistoryOK(events) /\ ThreadOf(r) \in Threads
  BY <1>1 DEF HistoryInv, IInv, ControlOK
<1>3. e \in Entries /\ e.kind = "reply" /\ e.ids = input[r].ids
  <2>1. input[r].kind = "resume"
    BY <1>1 DEF MayReply
  <2>2. input[r].ids \in SUBSET Interrupts /\ Fingerprint(input[r]) \in (SUBSET Interrupts) \X Answers
    BY <1>1, <2>1 DEF Inputs, Fingerprint
  <2> QED
    BY <2>2 DEF Entry, Entries
<1>4. HistoryOK(Append(events, e)) /\ MayFeed(Append(events, e), input[r])
  <2> HIDE DEF events, e
  <2> QED
    BY <1>1, <1>2, <1>3, ReplyKeepsHistory
<1>5. session'[ThreadOf(r)] = Append(events, e)
  BY <1>1, <1>2 DEF Store, HistoryInv
<1>6. phase'[r] \in {"streaming", "done"} /\ \A s \in Runs : s # r => phase'[s] = phase[s]
  BY PhaseSteps DEF AppendReply
<1>7. RunPrepared(r)'
  <2> HIDE DEF events, e
  <2> QED
    BY <1>1, <1>4, <1>5, <1>6 DEF RunPrepared
<1> QED
  <2> HIDE DEF e
  <2> QED
    BY <1>1, <1>4, <1>6, <1>7, WriteKeepsHistory DEF Held

LEMMA FeedStepKeepsHistory ==
  ASSUME IInv, HistoryInv, NEW r \in Runs, Feed(r)
  PROVE  HistoryInv'
<1> DEFINE events == session[ThreadOf(r)]
           e == IF input[r].kind = "resume"
                  THEN Entry("answer", input[r].ids, Fingerprint(input[r]), "")
                  ELSE Entry("message", {input[r].id}, <<>>, "")
<1>1. /\ phase[r] = "streaming" /\ UNCHANGED <<input, phase>> /\ Store(r, e)
      /\ input[r] \in Inputs /\ ~fed[r] /\ ThreadOf(r)' = ThreadOf(r)
      /\ MayFeed(events, input[r]) /\ fed \in [Runs -> BOOLEAN]
      /\ fed' = [fed EXCEPT ![r] = TRUE]
  BY DEF Feed, HistoryInv, RunPrepared, ThreadOf
<1>2. HistoryOK(events) /\ ThreadOf(r) \in Threads
  BY <1>1 DEF HistoryInv, IInv, ControlOK
<1>3. /\ e \in Entries
      /\ IF input[r].kind = "resume" THEN e.kind = "answer" /\ e.ids = input[r].ids
                                     ELSE e.kind = "message" /\ e.ids = {input[r].id}
  <2>1. input[r].kind = "resume" => Fingerprint(input[r]) \in (SUBSET Interrupts) \X Answers
                                    /\ input[r].ids \in SUBSET Interrupts
    BY <1>1 DEF Inputs, Fingerprint
  <2>2. input[r].kind # "resume" => input[r].id \in Messages
    BY <1>1 DEF Inputs
  <2> QED
    BY <2>1, <2>2 DEF Entry, Entries
<1>4. HistoryOK(Append(events, e)) /\ NoReplyPending(Append(events, e))
  <2> HIDE DEF events, e
  <2> QED
    BY <1>1, <1>2, <1>3, FeedKeepsHistory
<1>5. session'[ThreadOf(r)] = Append(events, e)
  BY <1>1, <1>2 DEF Store, HistoryInv
<1>6. fed'[r] = TRUE /\ fed' \in [Runs -> BOOLEAN] /\ \A s \in Runs : s # r => fed'[s] = fed[s]
  BY <1>1
<1>7. RunPrepared(r)'
  <2> HIDE DEF events, e
  <2> QED
    BY <1>1, <1>4, <1>5, <1>6 DEF RunPrepared
<1> QED
  <2> HIDE DEF e
  <2> QED
    BY <1>1, <1>4, <1>6, <1>7, WriteKeepsHistory DEF Held

LEMMA AskStepKeepsHistory ==
  ASSUME IInv, HistoryInv, NEW r \in Runs, NEW i \in Interrupts, Ask(r, i)
  PROVE  HistoryInv'
<1> DEFINE events == session[ThreadOf(r)]
           e == Entry("request", {i}, <<>>, "")
<1>1. /\ phase[r] = "streaming" /\ UNCHANGED <<input, phase, fed>> /\ Store(r, e)
      /\ input[r] \in Inputs /\ fed[r] /\ ThreadOf(r)' = ThreadOf(r)
      /\ NoReplyPending(events) /\ fed \in [Runs -> BOOLEAN]
  BY DEF Ask, HistoryInv, RunPrepared, ThreadOf
<1>2. HistoryOK(events) /\ ThreadOf(r) \in Threads /\ ~Holds(events, "request", i)
  <2>1. HistoryOK(events) /\ ThreadOf(r) \in Threads
    BY <1>1 DEF HistoryInv, IInv, ControlOK
  <2>2. i \in Nat /\ ~(i < i)
    BY Numbered
  <2> QED
    BY <2>1, <2>2 DEF Ask
<1>3. e \in Entries /\ e.kind = "request" /\ e.ids = {i}
  BY DEF Entry, Entries
<1>4. HistoryOK(Append(events, e)) /\ NoReplyPending(Append(events, e))
  <2> HIDE DEF events, e
  <2> QED
    BY <1>1, <1>2, <1>3, AskKeepsHistory
<1>5. session'[ThreadOf(r)] = Append(events, e)
  BY <1>1, <1>2 DEF Store, HistoryInv
<1>7. RunPrepared(r)'
  <2> HIDE DEF events, e
  <2> QED
    BY <1>1, <1>4, <1>5 DEF RunPrepared
<1> QED
  <2> HIDE DEF e
  <2> QED
    BY <1>1, <1>4, <1>7, WriteKeepsHistory DEF Held

LEMMA MarkStepKeepsHistory ==
  ASSUME IInv, HistoryInv, NEW r \in Runs, Mark(r)
  PROVE  HistoryInv'
<1> DEFINE events == session[ThreadOf(r)]
           e == Entry("marker", {}, Fingerprint(input[r]), Result(r))
<1>1. /\ phase[r] = "marking" /\ UNCHANGED <<input, fed>> /\ Store(r, e) /\ phase'[r] = "closing"
      /\ input[r] \in Inputs /\ fed \in [Runs -> BOOLEAN]
      /\ \A s \in Runs : s # r => phase'[s] = phase[s]
  BY PhaseSteps DEF Mark, HistoryInv, RunPrepared
<1>2. HistoryOK(events)
  BY <1>1 DEF HistoryInv, IInv, ControlOK
<1>3. e \in Entries /\ e.kind = "marker"
  <2>1. Fingerprint(input[r]) \in ((SUBSET Interrupts) \X Answers) \cup {<<>>}
    BY <1>1 DEF Inputs, Fingerprint
  <2>2. Result(r) \in {"interrupt", "success"}
    BY DEF Result
  <2> QED
    BY <2>1, <2>2 DEF Entry, Entries
<1>4. HistoryOK(Append(events, e))
  <2> HIDE DEF events, e
  <2> QED
    BY <1>2, <1>3, MarkKeepsHistory
<1>5. RunPrepared(r)'
  BY <1>1 DEF RunPrepared
<1> QED
  <2> HIDE DEF e
  <2> QED
    BY <1>1, <1>4, <1>5, WriteKeepsHistory DEF Held

LEMMA HistoryNext == IInv /\ HistoryInv /\ [Next]_vars => HistoryInv'
<1> SUFFICES ASSUME IInv, HistoryInv, [Next]_vars PROVE HistoryInv'
  OBVIOUS
<1>1. CASE Crash
  <2>1. /\ UNCHANGED <<input, fed, session>>
        /\ \A r \in Runs : ThreadOf(r)' = ThreadOf(r)
        /\ \A r \in Runs : /\ phase'[r] \in Over \cup {"idle"}
                           /\ phase'[r] \in {"idle", "resolving", "opening", "replying"} => phase[r] = "idle"
                           /\ phase'[r] # "idle" => phase[r] # "idle"
    BY <1>1 DEF Crash, ThreadOf, Over
  <2>2. \A r \in Runs : RunPrepared(r)'
    BY <2>1 DEF HistoryInv, RunPrepared, Over
  <2> QED
    BY <2>1, <2>2 DEF HistoryInv
<1>2. CASE UNCHANGED vars
  BY <1>2 DEF vars, runVars, HistoryInv, RunPrepared, ThreadOf
<1>3. ASSUME NEW r \in Runs, NEW in \in Inputs, Start(r, in) PROVE HistoryInv'
  <2>1. /\ phase[r] = "idle" /\ UNCHANGED <<fed, session>>
        /\ phase'[r] = "resolving" /\ input'[r] = in
        /\ \A s \in Runs : s # r => phase'[s] = phase[s] /\ input'[s] = input[s]
    BY <1>3 DEF Start, IInv, ControlOK
  <2>2. RunPrepared(r)'
    BY <2>1 DEF HistoryInv, RunPrepared
  <2> QED
    BY <2>1, <2>2, QuietStepKeepsHistory
<1>4. ASSUME NEW r \in Runs, UNCHANGED <<input, fed, session>>, phase[r] # "idle",
             phase'[r] \in {"done", "opening", "sealing", "marking", "closing"},
             phase'[r] = "opening" => phase[r] = "resolving",
             \A s \in Runs : s # r => phase'[s] = phase[s]
      PROVE  HistoryInv'
  <2>1. RunPrepared(r)'
    BY <1>4 DEF HistoryInv, RunPrepared
  <2> QED
    BY <1>4, <2>1, QuietStepKeepsHistory
<1>5. ASSUME NEW r \in Runs, TurnedAway(r) \/ Enter(r) PROVE HistoryInv'
  <2>1. /\ UNCHANGED <<input, fed, session>> /\ phase[r] = "resolving"
        /\ phase'[r] \in {"done", "opening"}
        /\ \A s \in Runs : s # r => phase'[s] = phase[s]
    BY <1>5 DEF TurnedAway, Enter, Dismiss, IInv, ControlOK
  <2> QED
    BY <1>4, <2>1
<1>6. ASSUME NEW r \in Runs,
             \/ Seal(r) \/ GiveBack(r) \/ ServiceFails(r) \/ AdkReturns(r)
             \/ \E errorCode \in BOOLEAN : AdkFails(r, errorCode)
      PROVE  HistoryInv'
  <2>1. UNCHANGED <<input, fed, session>> /\ phase[r] # "idle"
    BY <1>6 DEF Seal, GiveBack, ServiceFails, AdkReturns, AdkFails
  <2>2. /\ phase'[r] \in {"done", "sealing", "marking", "closing"}
        /\ \A s \in Runs : s # r => phase'[s] = phase[s]
    <3>1. CASE Seal(r)
      BY <3>1, PhaseSteps DEF Seal
    <3>2. CASE ServiceFails(r)
      BY <3>2, PhaseSteps DEF ServiceFails
    <3>3. CASE AdkReturns(r)
      <4>1. CASE aborted[r]
        BY <3>3, <4>1, PhaseSteps DEF AdkReturns
      <4>2. CASE ~aborted[r]
        BY <3>3, <4>2 DEF AdkReturns, IInv, ControlOK
      <4> QED
        BY <4>1, <4>2
    <3>4. CASE \E errorCode \in BOOLEAN : AdkFails(r, errorCode)
      BY <3>4, PhaseSteps DEF AdkFails
    <3>5. CASE GiveBack(r)
      BY <3>5 DEF GiveBack, Finally, Dismiss, IInv, ControlOK
    <3> QED
      BY <1>6, <3>1, <3>2, <3>3, <3>4, <3>5
  <2> QED
    BY <1>4, <2>1, <2>2
<1>7. ASSUME NEW r \in Runs, Say(r) \/ Abort(r) \/ Leave(r) PROVE HistoryInv'
  <2>1. UNCHANGED <<input, fed, session, phase>>
    BY <1>7 DEF Say, Abort, Leave
  <2> QED
    BY <2>1 DEF HistoryInv, RunPrepared, ThreadOf
<1> QED
  BY <1>1, <1>2, <1>3, <1>5, <1>6, <1>7, OpenSessionKeepsHistory, AppendReplyKeepsHistory,
     FeedStepKeepsHistory, AskStepKeepsHistory, MarkStepKeepsHistory DEF Next, Proceeds

(* However often a message or an answer is sent again, by runs that fail,  *)
(* are aborted or die with the process at any step, ADK is given it at     *)
(* most once, and an answer has one reply, before it.                      *)
THEOREM InputsAreSettledOnce == Spec => []SettledOnce
<1>1. Init /\ [][Next]_vars => []IInv
  BY InitEstablishes, NextPreserves, PTL
<1>2. Init /\ [][Next]_vars => []HistoryInv
  BY <1>1, HistoryInit, HistoryNext, PTL
<1>3. HistoryInv => SettledOnce
  BY DEF HistoryInv, HistoryOK, SettledOnce
<1> QED
  BY <1>2, <1>3, PTL DEF Spec

-----------------------------------------------------------------------------
(* What the clients are told.  A resume that comes out well leaves a       *)
(* marker with its outcome, and while a resume is at work its thread has   *)
(* none with its fingerprint, so a marker is never contradicted.           *)
Recorded(events, fingerprint) ==
  {events[k].result : k \in {k \in DOMAIN events : MarkedWith(events[k], fingerprint)}}

Working == {"replying", "streaming", "sealing", "marking"}
Silent == {"idle", "resolving", "opening"} \cup Working

Voiced(r) ==
  /\ outcome[r] = <<>> \/ \E result : outcome[r] = <<result>>
  /\ phase[r] \in Silent => outcome[r] = <<>>
  /\ phase[r] \in {"closing", "done"} => closed[r] \/ outcome[r] # <<>>

RecordIn(r) == Recorded(session[ThreadOf(r)], Fingerprint(input[r]))

Unmarked(r) == phase[r] \in Working /\ input[r].kind = "resume" => RecordIn(r) = {}

ToldAsRecorded(r) == Settles(r) => \E result \in RecordIn(r) : outcome[r] = <<result>>

OneRecord(events) ==
  \A fingerprint : fingerprint # <<>> => AtMostOne(Recorded(events, fingerprint))

OutcomeInv ==
  /\ closed \in [Runs -> BOOLEAN]
  /\ outcome = [r \in Runs |-> outcome[r]]
  /\ \A r \in Runs : Voiced(r)
  /\ \A t \in Threads : OneRecord(session[t])
  /\ \A r \in Runs : Unmarked(r)
  /\ \A r \in Runs : ToldAsRecorded(r)

LEMMA AppendRecorded ==
  ASSUME NEW events \in Seq(Entries), NEW e \in Entries, NEW fingerprint
  PROVE  Recorded(Append(events, e), fingerprint) =
           IF MarkedWith(e, fingerprint) THEN Recorded(events, fingerprint) \cup {e.result}
                                         ELSE Recorded(events, fingerprint)
  BY AppendEntry DEF Recorded

(* Tell, when nothing has been told before and the run is through.         *)
LEMMA TellOnce ==
  ASSUME IInv, OutcomeInv, NEW r \in Runs, phase[r] \in Silent, phase'[r] \in {"closing", "done"},
         \A s \in Runs : s # r => phase'[s] = phase[s],
         UNCHANGED closed, NEW result, Tell(r, result)
  PROVE  /\ outcome' = [s \in Runs |-> outcome'[s]]
         /\ outcome'[r] \in {<<>>, <<result>>}
         /\ \A s \in Runs : s # r => outcome'[s] = outcome[s]
         /\ \A s \in Runs : Voiced(s)'
<1>1. outcome[r] = <<>> /\ outcome = [s \in Runs |-> outcome[s]]
  BY DEF OutcomeInv, Voiced
<1>2. Append(<<>>, result) = <<result>> /\ <<result>> # <<>>
  OBVIOUS
<1>3. /\ outcome' = [s \in Runs |-> outcome'[s]]
      /\ outcome'[r] = IF closed[r] THEN <<>> ELSE <<result>>
      /\ \A s \in Runs : s # r => outcome'[s] = outcome[s]
  BY <1>1, <1>2 DEF Tell
<1>4. Voiced(r)'
  BY <1>2, <1>3 DEF Voiced, Silent, Working
<1>5. \A s \in Runs : s # r => Voiced(s)'
  BY <1>3 DEF OutcomeInv, Voiced
<1> QED
  BY <1>3, <1>4, <1>5

(* A step of run r: the other runs keep what they rely on.                 *)
LEMMA RunKeepsOutcomes ==
  ASSUME IInv, HistoryInv, OutcomeInv, NEW r \in Runs,
         UNCHANGED <<input, closed>>, outcome' = [s \in Runs |-> outcome'[s]],
         phase[r] \in Held \/ UNCHANGED session,
         \A t \in Threads : t # ThreadOf(r) => session'[t] = session[t],
         \A t \in Threads : OneRecord(session'[t]),
         \A fingerprint : Recorded(session[ThreadOf(r)], fingerprint)
                             \subseteq Recorded(session'[ThreadOf(r)], fingerprint),
         \A s \in Runs : s # r => phase'[s] = phase[s] /\ outcome'[s] = outcome[s],
         \A s \in Runs : Voiced(s)',
         Unmarked(r)', ToldAsRecorded(r)'
  PROVE  OutcomeInv'
<1>1. \A s \in Runs : ThreadOf(s)' = ThreadOf(s) /\ (Settles(s)' <=> input[s] # None /\ input[s].kind = "resume"
                                                       /\ outcome'[s] \in {<<"interrupt">>, <<"success">>})
  BY DEF ThreadOf, Settles
<1>2. \A s \in Runs : RecordIn(s)' = Recorded(session'[ThreadOf(s)], Fingerprint(input[s]))
  BY <1>1 DEF RecordIn, Recorded
<1>3. ASSUME NEW s \in Runs, s # r PROVE Unmarked(s)'
  <2> SUFFICES ASSUME phase[s] \in Working, input[s].kind = "resume" PROVE RecordIn(s)' = {}
    BY <1>3 DEF Unmarked
  <2>1. session'[ThreadOf(s)] = session[ThreadOf(s)]
    BY <1>3 DEF IInv, ControlOK, Exclusive, Held, Working
  <2> QED
    BY <1>2, <2>1 DEF OutcomeInv, Unmarked, RecordIn
<1>4. ASSUME NEW s \in Runs, s # r PROVE ToldAsRecorded(s)'
  <2> SUFFICES ASSUME Settles(s)' PROVE \E result \in RecordIn(s)' : outcome'[s] = <<result>>
    BY DEF ToldAsRecorded
  <2>1. Settles(s)
    BY <1>1, <1>4 DEF Settles
  <2>2. PICK result \in RecordIn(s) : outcome[s] = <<result>>
    BY <2>1 DEF OutcomeInv, ToldAsRecorded
  <2>3. phase[s] # "idle"
    <3>1. outcome[s] # <<>>
      BY <2>2
    <3> QED
      BY <3>1 DEF OutcomeInv, Voiced, Silent
  <2>4. ThreadOf(s) \in Threads
    BY <2>3 DEF IInv, ControlOK
  <2>5. RecordIn(s) \subseteq RecordIn(s)'
    BY <1>2, <2>4 DEF RecordIn
  <2> QED
    BY <1>4, <2>2, <2>5
<1> QED
  BY <1>3, <1>4 DEF OutcomeInv

(* A result that is not how a resume came out.                             *)
LEMMA Unsettled ==
  ASSUME NEW r \in Runs, outcome'[r] \in {<<>>, <<"error">>, <<"cancelled">>}
  PROVE  ToldAsRecorded(r)'
<1>1. outcome'[r] \notin {<<"interrupt">>, <<"success">>}
  OBVIOUS
<1> QED
  BY <1>1 DEF ToldAsRecorded, Settles

LEMMA OutcomeInit == Init => OutcomeInv
<1> SUFFICES ASSUME Init PROVE OutcomeInv
  OBVIOUS
<1>1. \A fingerprint : Recorded(<<>>, fingerprint) = {}
  BY DEF Recorded
<1>2. \A t \in Threads : OneRecord(session[t])
  BY <1>1 DEF Init, OneRecord, AtMostOne
<1>3. \A r \in Runs : Voiced(r) /\ Unmarked(r) /\ ToldAsRecorded(r)
  BY DEF Init, Voiced, Unmarked, ToldAsRecorded, Settles, Silent, Working
<1>4. outcome = [r \in Runs |-> outcome[r]] /\ closed \in [Runs -> BOOLEAN]
  BY DEF Init
<1> QED
  BY <1>2, <1>3, <1>4 DEF OutcomeInv

(* A step that writes no session and tells nothing.                        *)
LEMMA QuietKeepsOutcomes ==
  ASSUME IInv, HistoryInv, OutcomeInv, NEW r \in Runs,
         UNCHANGED <<input, closed, session, outcome>>,
         \A s \in Runs : s # r => phase'[s] = phase[s],
         Voiced(r)', phase'[r] \in Working => phase[r] \in Working \/ Unmarked(r)'
  PROVE  OutcomeInv'
<1>1. \A s \in Runs : RecordIn(s)' = RecordIn(s) /\ (Settles(s)' <=> Settles(s))
  BY DEF RecordIn, ThreadOf, Settles
<1>2. \A s \in Runs : s # r => Voiced(s)' /\ Unmarked(s)'
  BY <1>1 DEF OutcomeInv, Voiced, Unmarked
<1>3. Unmarked(r)'
  BY <1>1 DEF OutcomeInv, Unmarked
<1>4. \A s \in Runs : ToldAsRecorded(s)'
  BY <1>1 DEF OutcomeInv, ToldAsRecorded
<1> QED
  BY <1>2, <1>3, <1>4 DEF OutcomeInv

(* A step that writes no session and after which the run is through.       *)
LEMMA TellingKeepsOutcomes ==
  ASSUME IInv, HistoryInv, OutcomeInv, NEW r \in Runs, phase[r] \in Silent,
         phase'[r] \in {"closing", "done"},
         \A s \in Runs : s # r => phase'[s] = phase[s],
         UNCHANGED <<input, closed, session>>, NEW result, Tell(r, result),
         \/ result \in {"error", "cancelled"}
         \/ input[r].kind = "message"
         \/ result \in RecordIn(r)
  PROVE  OutcomeInv'
<1>1. /\ outcome' = [s \in Runs |-> outcome'[s]]
      /\ outcome'[r] \in {<<>>, <<result>>}
      /\ \A s \in Runs : s # r => outcome'[s] = outcome[s]
      /\ \A s \in Runs : Voiced(s)'
  BY TellOnce
<1>2. Unmarked(r)'
  BY DEF Unmarked, Working
<1>3. ToldAsRecorded(r)'
  <2>1. CASE result \in {"error", "cancelled"}
    BY <1>1, <2>1, Unsettled
  <2>2. CASE input[r].kind = "message"
    BY <2>2 DEF ToldAsRecorded, Settles
  <2>3. CASE result \in RecordIn(r)
    <3>1. RecordIn(r)' = RecordIn(r)
      BY DEF RecordIn, ThreadOf
    <3>2. CASE outcome'[r] = <<>>
      BY <3>2, Unsettled
    <3>3. CASE outcome'[r] = <<result>>
      BY <2>3, <3>1, <3>3 DEF ToldAsRecorded
    <3> QED
      BY <1>1, <3>2, <3>3
  <2> QED
    BY <2>1, <2>2, <2>3
<1>4. \A t \in Threads : OneRecord(session'[t])
  BY DEF OutcomeInv
<1> QED
  BY <1>1, <1>2, <1>3, <1>4, RunKeepsOutcomes

(* End and Catch tell, Goto and Stream do not.                             *)
LEMMA CatchTells ==
  ASSUME NEW r \in Runs, NEW protocolError, Catch(r, protocolError)
  PROVE  \E result \in {"error", "cancelled"} : Tell(r, result)
<1>1. CASE aborted[r] /\ ~protocolError
  BY <1>1 DEF Catch, End
<1>2. CASE ~(aborted[r] /\ ~protocolError)
  BY <1>2 DEF Catch, End
<1> QED
  BY <1>1, <1>2

LEMMA CatchKeepsOutcomes ==
  ASSUME IInv, HistoryInv, OutcomeInv, NEW r \in Runs, phase[r] \in Silent,
         UNCHANGED <<input, closed, session>>, NEW protocolError, Catch(r, protocolError)
  PROVE  OutcomeInv'
<1>1. PICK result \in {"error", "cancelled"} : Tell(r, result)
  BY CatchTells
<1>2. phase'[r] = "done" /\ \A s \in Runs : s # r => phase'[s] = phase[s]
  BY PhaseSteps
<1> QED
  BY <1>1, <1>2, TellingKeepsOutcomes

LEMMA OpenSessionKeepsOutcomes ==
  ASSUME IInv, HistoryInv, OutcomeInv, NEW r \in Runs, OpenSession(r)
  PROVE  OutcomeInv'
<1> DEFINE events == session[ThreadOf(r)]
<1>1. /\ phase[r] = "opening" /\ phase[r] \in Silent /\ UNCHANGED <<input, closed, session>>
      /\ ThreadOf(r) \in Threads
  BY DEF OpenSession, Silent, IInv, ControlOK
<1>2. CASE Catch(r, FALSE) \/ Catch(r, TRUE)
  BY <1>1, <1>2, CatchKeepsOutcomes
<1>3. CASE Replayed(events, input[r]) /\ End(r, Last(events).result)
  <2>1. events \in Seq(Entries) /\ events # <<>>
    BY <1>1, <1>3 DEF HistoryInv, HistoryOK, Replayed
  <2>2. Len(events) \in DOMAIN events /\ Last(events) = events[Len(events)]
    BY <2>1 DEF Last
  <2>3. Last(events).result \in RecordIn(r)
    BY <1>3, <2>2 DEF Replayed, RecordIn, Recorded
  <2>4. Tell(r, Last(events).result) /\ phase'[r] = "done"
        /\ \A s \in Runs : s # r => phase'[s] = phase[s]
    BY <1>3, PhaseSteps DEF End
  <2> QED
    BY <1>1, <2>3, <2>4, TellingKeepsOutcomes
<1>4. CASE ~Refused(events, input[r]) /\ (Goto(r, "replying") \/ Stream(r))
  <2>1. /\ UNCHANGED outcome /\ phase'[r] \in {"replying", "streaming"}
        /\ \A s \in Runs : s # r => phase'[s] = phase[s]
    BY <1>4 DEF Goto, Stream, IInv, ControlOK
  <2>2. outcome[r] = <<>>
    BY <1>1 DEF OutcomeInv, Voiced
  <2>3. Voiced(r)'
    BY <2>1, <2>2 DEF Voiced
  <2>4. Unmarked(r)'
    <3>1. input[r].kind = "resume" => RecordIn(r) = {}
      BY <1>4 DEF Refused, RecordIn, Recorded
    <3>2. RecordIn(r)' = RecordIn(r)
      BY <1>1 DEF RecordIn, ThreadOf
    <3> QED
      BY <1>1, <3>1, <3>2 DEF Unmarked
  <2> QED
    BY <1>1, <2>1, <2>3, <2>4, QuietKeepsOutcomes
<1> QED
  BY <1>2, <1>3, <1>4 DEF OpenSession, Launch

(* An entry that is no marker leaves the records alone.                    *)
LEMMA EntryKeepsRecords ==
  ASSUME IInv, HistoryInv, OutcomeInv, NEW r \in Runs, phase[r] \in Held,
         NEW e \in Entries, e.kind # "marker", Store(r, e)
  PROVE  /\ \A t \in Threads : t # ThreadOf(r) => session'[t] = session[t]
         /\ \A fingerprint : Recorded(session'[ThreadOf(r)], fingerprint) =
                               Recorded(session[ThreadOf(r)], fingerprint)
         /\ \A t \in Threads : OneRecord(session'[t])
<1>1. ThreadOf(r) \in Threads /\ session[ThreadOf(r)] \in Seq(Entries)
  BY DEF IInv, ControlOK, Held, HistoryInv, HistoryOK
<1>2. /\ session'[ThreadOf(r)] = Append(session[ThreadOf(r)], e)
      /\ \A t \in Threads : t # ThreadOf(r) => session'[t] = session[t]
  BY <1>1 DEF Store, HistoryInv
<1>3. \A fingerprint : Recorded(session'[ThreadOf(r)], fingerprint) =
                        Recorded(session[ThreadOf(r)], fingerprint)
  BY <1>1, <1>2, AppendRecorded DEF MarkedWith
<1>4. \A t \in Threads : OneRecord(session'[t])
  <2> TAKE t \in Threads
  <2>1. OneRecord(session[t])
    BY DEF OutcomeInv
  <2> QED
    BY <1>2, <1>3, <2>1 DEF OneRecord
<1> QED
  BY <1>2, <1>3, <1>4

LEMMA AppendReplyKeepsOutcomes ==
  ASSUME IInv, HistoryInv, OutcomeInv, NEW r \in Runs, AppendReply(r)
  PROVE  OutcomeInv'
<1> DEFINE e == Entry("reply", input[r].ids, Fingerprint(input[r]), "")
<1>1. /\ phase[r] = "replying" /\ phase[r] \in Held /\ phase[r] \in Silent
      /\ Store(r, e) /\ UNCHANGED <<input, closed>>
      /\ input[r] \in Inputs /\ input[r].kind = "resume" /\ ThreadOf(r)' = ThreadOf(r)
  BY DEF AppendReply, Held, Silent, Working, HistoryInv, RunPrepared, MayReply, ThreadOf
<1>2. e \in Entries /\ e.kind # "marker"
  <2>1. input[r].ids \in SUBSET Interrupts /\ Fingerprint(input[r]) \in (SUBSET Interrupts) \X Answers
    BY <1>1 DEF Inputs, Fingerprint
  <2> QED
    BY <2>1 DEF Entry, Entries
<1> HIDE DEF e
<1>3. /\ \A t \in Threads : t # ThreadOf(r) => session'[t] = session[t]
      /\ \A fingerprint : Recorded(session'[ThreadOf(r)], fingerprint) =
                            Recorded(session[ThreadOf(r)], fingerprint)
      /\ \A t \in Threads : OneRecord(session'[t])
  BY <1>1, <1>2, EntryKeepsRecords
<1>4. CASE \E protocolError \in BOOLEAN : Catch(r, protocolError)
  <2>1. PICK result \in {"error", "cancelled"} : Tell(r, result)
    BY <1>4, CatchTells
  <2>2. phase'[r] = "done" /\ \A s \in Runs : s # r => phase'[s] = phase[s]
    BY <1>4, PhaseSteps
  <2>3. /\ outcome' = [s \in Runs |-> outcome'[s]]
        /\ outcome'[r] \in {<<>>, <<result>>}
        /\ \A s \in Runs : s # r => outcome'[s] = outcome[s]
        /\ \A s \in Runs : Voiced(s)'
    BY <1>1, <2>1, <2>2, TellOnce
  <2>4. ToldAsRecorded(r)'
    BY <2>3, Unsettled
  <2>5. Unmarked(r)'
    BY <2>2 DEF Unmarked, Working
  <2> QED
    BY <1>1, <1>3, <2>2, <2>3, <2>4, <2>5, RunKeepsOutcomes
<1>5. CASE Stream(r)
  <2>1. /\ UNCHANGED outcome /\ phase'[r] = "streaming"
        /\ \A s \in Runs : s # r => phase'[s] = phase[s]
    BY <1>5 DEF Stream, IInv, ControlOK
  <2>2. outcome[r] = <<>> /\ \A s \in Runs : Voiced(s)'
    BY <1>1, <2>1 DEF OutcomeInv, Voiced, Silent
  <2>3. ToldAsRecorded(r)'
    BY <2>1, <2>2, Unsettled
  <2>4. Unmarked(r)'
    <3>0. RecordIn(r)' = Recorded(session'[ThreadOf(r)], Fingerprint(input[r]))
      BY <1>1 DEF RecordIn, Recorded
    <3>1. RecordIn(r)' = RecordIn(r)
      BY <1>3, <3>0 DEF RecordIn
    <3> QED
      BY <1>1, <3>1 DEF OutcomeInv, Unmarked, Working
  <2>5. outcome' = [s \in Runs |-> outcome'[s]]
    BY <2>1 DEF OutcomeInv
  <2> QED
    BY <1>1, <1>3, <2>1, <2>2, <2>3, <2>4, <2>5, RunKeepsOutcomes
<1> QED
  BY <1>4, <1>5 DEF AppendReply, Launch

(* ADK writes while the run says nothing.                                  *)
LEMMA WritingKeepsOutcomes ==
  ASSUME IInv, HistoryInv, OutcomeInv, NEW r \in Runs, phase[r] = "streaming",
         NEW e \in Entries, e.kind # "marker", Store(r, e),
         UNCHANGED <<input, phase, closed, outcome>>
  PROVE  OutcomeInv'
<1>1. /\ \A t \in Threads : t # ThreadOf(r) => session'[t] = session[t]
      /\ \A fingerprint : Recorded(session'[ThreadOf(r)], fingerprint) =
                            Recorded(session[ThreadOf(r)], fingerprint)
      /\ \A t \in Threads : OneRecord(session'[t])
  BY EntryKeepsRecords DEF Held
<1>2. outcome[r] = <<>> /\ \A s \in Runs : Voiced(s)'
  BY DEF OutcomeInv, Voiced, Silent, Working
<1>3. ToldAsRecorded(r)'
  BY <1>2, Unsettled
<1>4. Unmarked(r)'
  <2>0. RecordIn(r)' = Recorded(session'[ThreadOf(r)], Fingerprint(input[r]))
    BY DEF RecordIn, Recorded, ThreadOf
  <2>1. RecordIn(r)' = RecordIn(r)
    BY <1>1, <2>0 DEF RecordIn
  <2> QED
    BY <2>1 DEF OutcomeInv, Unmarked
<1>5. outcome' = [s \in Runs |-> outcome'[s]]
  BY DEF OutcomeInv
<1> QED
  BY <1>1, <1>2, <1>3, <1>4, <1>5, RunKeepsOutcomes DEF Held

LEMMA AdkKeepsOutcomes ==
  ASSUME IInv, HistoryInv, OutcomeInv, NEW r \in Runs,
         Feed(r) \/ \E i \in Interrupts : Ask(r, i)
  PROVE  OutcomeInv'
<1>1. CASE Feed(r)
  <2> DEFINE e == IF input[r].kind = "resume"
                    THEN Entry("answer", input[r].ids, Fingerprint(input[r]), "")
                    ELSE Entry("message", {input[r].id}, <<>>, "")
  <2>1. /\ phase[r] = "streaming" /\ Store(r, e) /\ UNCHANGED <<input, phase, closed, outcome>>
        /\ input[r] \in Inputs
    BY <1>1 DEF Feed, HistoryInv, RunPrepared
  <2>2. e \in Entries /\ e.kind # "marker"
    <3>1. input[r].kind = "resume" => Fingerprint(input[r]) \in (SUBSET Interrupts) \X Answers
                                      /\ input[r].ids \in SUBSET Interrupts
      BY <2>1 DEF Inputs, Fingerprint
    <3>2. input[r].kind # "resume" => input[r].id \in Messages
      BY <2>1 DEF Inputs
    <3> QED
      BY <3>1, <3>2 DEF Entry, Entries
  <2> HIDE DEF e
  <2> QED
    BY <2>1, <2>2, WritingKeepsOutcomes
<1>2. ASSUME NEW i \in Interrupts, Ask(r, i) PROVE OutcomeInv'
  <2> DEFINE e == Entry("request", {i}, <<>>, "")
  <2>1. phase[r] = "streaming" /\ Store(r, e) /\ UNCHANGED <<input, phase, closed, outcome>>
    BY <1>2 DEF Ask
  <2>2. e \in Entries /\ e.kind # "marker"
    BY DEF Entry, Entries
  <2> HIDE DEF e
  <2> QED
    BY <2>1, <2>2, WritingKeepsOutcomes
<1> QED
  BY <1>1, <1>2

(* The marker and the terminal event say the same, and no marker that is   *)
(* there already says otherwise.                                           *)
LEMMA MarkKeepsOutcomes ==
  ASSUME IInv, HistoryInv, OutcomeInv, NEW r \in Runs, Mark(r)
  PROVE  OutcomeInv'
<1> DEFINE events == session[ThreadOf(r)]
           fp == Fingerprint(input[r])
           result == Result(r)
           e == Entry("marker", {}, fp, result)
<1>1. /\ phase[r] = "marking" /\ phase[r] \in Held /\ phase[r] \in Silent
      /\ Store(r, e) /\ Tell(r, result) /\ UNCHANGED <<input, closed>>
      /\ input[r] \in Inputs /\ ThreadOf(r)' = ThreadOf(r)
      /\ phase'[r] = "closing" /\ \A s \in Runs : s # r => phase'[s] = phase[s]
  BY PhaseSteps DEF Mark, Finish, Held, Silent, Working, HistoryInv, RunPrepared, ThreadOf
<1>2. /\ e \in Entries /\ \A fingerprint : MarkedWith(e, fingerprint) <=> fingerprint = fp
      /\ e.result = result
  <2>1. fp \in ((SUBSET Interrupts) \X Answers) \cup {<<>>}
    BY <1>1 DEF Inputs, Fingerprint
  <2>2. result \in {"interrupt", "success"}
    BY DEF Result
  <2> HIDE DEF fp, result
  <2> QED
    BY <2>1, <2>2 DEF Entry, Entries, MarkedWith
<1>3. fp # <<>> => Recorded(events, fp) = {}
  <2>1. fp # <<>> => input[r].kind = "resume"
    BY DEF Fingerprint
  <2> QED
    BY <1>1, <2>1 DEF OutcomeInv, Unmarked, Working, RecordIn
<1>4. ThreadOf(r) \in Threads /\ events \in Seq(Entries)
  BY <1>1 DEF IInv, ControlOK, HistoryInv, HistoryOK
<1>5. /\ session'[ThreadOf(r)] = Append(events, e)
      /\ \A t \in Threads : t # ThreadOf(r) => session'[t] = session[t]
  BY <1>1, <1>4 DEF Store, HistoryInv
<1>6. \A fingerprint : Recorded(session'[ThreadOf(r)], fingerprint) =
         IF fingerprint = fp THEN Recorded(events, fp) \cup {result} ELSE Recorded(events, fingerprint)
  <2> HIDE DEF events, e, fp, result
  <2> QED
    BY <1>2, <1>4, <1>5, AppendRecorded
<1>7. \A t \in Threads : OneRecord(session'[t])
  <2> TAKE t \in Threads
  <2>1. OneRecord(session[t])
    BY DEF OutcomeInv
  <2>2. CASE t # ThreadOf(r)
    BY <1>5, <2>1, <2>2
  <2>3. CASE t = ThreadOf(r)
    <3> HIDE DEF fp, result
    <3> QED
      BY <1>3, <1>6, <2>1, <2>3 DEF OneRecord, AtMostOne
  <2> QED
    BY <2>2, <2>3
<1> HIDE DEF e
<1>8. /\ outcome' = [s \in Runs |-> outcome'[s]]
      /\ outcome'[r] \in {<<>>, <<result>>}
      /\ \A s \in Runs : s # r => outcome'[s] = outcome[s]
      /\ \A s \in Runs : Voiced(s)'
  <2> HIDE DEF result
  <2> QED
    BY <1>1, TellOnce
<1>9. ToldAsRecorded(r)'
  <2>1. result \in RecordIn(r)'
    <3>1. RecordIn(r)' = Recorded(session'[ThreadOf(r)], fp)
      BY <1>1 DEF RecordIn, Recorded
    <3> HIDE DEF fp, result
    <3> QED
      BY <1>6, <3>1
  <2>2. CASE outcome'[r] = <<>>
    BY <2>2, Unsettled
  <2>3. CASE outcome'[r] = <<result>>
    <3> HIDE DEF result
    <3> QED
      BY <2>1, <2>3 DEF ToldAsRecorded
  <2> QED
    BY <1>8, <2>2, <2>3
<1>10. Unmarked(r)'
  BY <1>1 DEF Unmarked, Working
<1>11. \A fingerprint : Recorded(session[ThreadOf(r)], fingerprint)
                           \subseteq Recorded(session'[ThreadOf(r)], fingerprint)
  <2> HIDE DEF fp, result
  <2> QED
    BY <1>6
<1> QED
  BY <1>1, <1>5, <1>7, <1>8, <1>9, <1>10, <1>11, RunKeepsOutcomes

LEMMA OutcomeNext == IInv /\ HistoryInv /\ OutcomeInv /\ [Next]_vars => OutcomeInv'
<1> SUFFICES ASSUME IInv, HistoryInv, OutcomeInv, [Next]_vars PROVE OutcomeInv'
  OBVIOUS
<1>1. CASE Crash
  <2>1. /\ UNCHANGED <<input, closed, outcome, session>>
        /\ \A r \in Runs : phase'[r] \in {phase[r], "dead"} /\ phase'[r] \in Over \cup {"idle"}
    BY <1>1 DEF Crash, Over
  <2>2. \A r \in Runs : Voiced(r)' /\ Unmarked(r)'
    BY <2>1 DEF OutcomeInv, Voiced, Unmarked, Working, Silent, Over
  <2>3. \A r \in Runs : ToldAsRecorded(r)'
    BY <2>1 DEF OutcomeInv, ToldAsRecorded, Settles, RecordIn, ThreadOf
  <2> QED
    BY <2>1, <2>2, <2>3 DEF OutcomeInv
<1>2. CASE UNCHANGED vars
  BY <1>2 DEF vars, runVars, OutcomeInv, Voiced, Unmarked, ToldAsRecorded, Settles, RecordIn,
              ThreadOf
<1>3. ASSUME NEW r \in Runs, NEW in \in Inputs, Start(r, in) PROVE OutcomeInv'
  <2>1. /\ phase[r] = "idle" /\ UNCHANGED <<closed, outcome, session>> /\ phase'[r] = "resolving"
        /\ \A s \in Runs : s # r => phase'[s] = phase[s] /\ input'[s] = input[s]
    BY <1>3 DEF Start, IInv, ControlOK
  <2>2. \A s \in Runs : Voiced(s)'
    BY <2>1 DEF OutcomeInv, Voiced, Silent
  <2>3. outcome'[r] = <<>> /\ Unmarked(r)'
    BY <2>1 DEF OutcomeInv, Voiced, Unmarked, Silent, Working
  <2>4. ToldAsRecorded(r)'
    BY <2>3, Unsettled
  <2>5. \A s \in Runs : s # r => Unmarked(s)' /\ ToldAsRecorded(s)'
    BY <2>1 DEF OutcomeInv, Unmarked, ToldAsRecorded, Settles, RecordIn, ThreadOf
  <2> QED
    BY <2>1, <2>2, <2>3, <2>4, <2>5 DEF OutcomeInv
<1>4. ASSUME NEW r \in Runs, TurnedAway(r) \/ (Enter(r) /\ aborted[r]) PROVE OutcomeInv'
  <2>1. /\ phase[r] \in Silent /\ UNCHANGED <<input, closed, session>>
        /\ phase'[r] = "done" /\ \A s \in Runs : s # r => phase'[s] = phase[s]
        /\ \E result \in {"error", "cancelled"} : Tell(r, result)
    BY <1>4 DEF TurnedAway, Enter, Dismiss, Silent, IInv, ControlOK
  <2> QED
    BY <2>1, TellingKeepsOutcomes
<1>5. ASSUME NEW r \in Runs, UNCHANGED <<input, closed, session, outcome>>,
             \A s \in Runs : s # r => phase'[s] = phase[s],
             \/ phase[r] = "resolving" /\ phase'[r] = "opening"
             \/ phase[r] \in Working /\ phase'[r] \in Working
             \/ phase[r] = "closing" /\ phase'[r] = "done"
             \/ phase'[r] = phase[r]
      PROVE  OutcomeInv'
  <2>1. Voiced(r)'
    BY <1>5 DEF OutcomeInv, Voiced, Silent, Working
  <2> QED
    BY <1>5, <2>1, QuietKeepsOutcomes DEF Working
<1>6. ASSUME NEW r \in Runs, Enter(r) /\ ~aborted[r] PROVE OutcomeInv'
  BY <1>5, <1>6 DEF Enter, IInv, ControlOK
<1>7. ASSUME NEW r \in Runs, NEW protocolError, Catch(r, protocolError), phase[r] \in Silent,
             UNCHANGED <<input, closed, session>>
      PROVE  OutcomeInv'
  BY <1>7, CatchKeepsOutcomes
<1>8. ASSUME NEW r \in Runs, ServiceFails(r) PROVE OutcomeInv'
  BY <1>7, <1>8 DEF ServiceFails, Silent, Working
<1>9. ASSUME NEW r \in Runs, NEW errorCode \in BOOLEAN, AdkFails(r, errorCode) PROVE OutcomeInv'
  BY <1>7, <1>9 DEF AdkFails, Silent, Working
<1>10. ASSUME NEW r \in Runs, AdkReturns(r) PROVE OutcomeInv'
  <2>1. CASE aborted[r]
    BY <1>7, <1>10, <2>1 DEF AdkReturns, Silent, Working
  <2>2. CASE ~aborted[r]
    BY <1>5, <1>10, <2>2 DEF AdkReturns, Working, IInv, ControlOK
  <2> QED
    BY <2>1, <2>2
<1>11. ASSUME NEW r \in Runs, Seal(r) PROVE OutcomeInv'
  <2>1. phase[r] = "sealing" /\ phase[r] \in Silent /\ UNCHANGED <<input, closed, session>>
    BY <1>11 DEF Seal, Silent, Working
  <2>2. CASE Catch(r, FALSE)
    BY <1>7, <2>1, <2>2
  <2>3. CASE Goto(r, "marking")
    BY <1>5, <2>1, <2>3 DEF Goto, Working, IInv, ControlOK
  <2>4. CASE input[r].kind = "message" /\ Finish(r, Result(r))
    <3>1. Tell(r, Result(r)) /\ phase'[r] = "closing" /\ \A s \in Runs : s # r => phase'[s] = phase[s]
      BY <2>4, PhaseSteps DEF Finish
    <3> QED
      BY <2>1, <2>4, <3>1, TellingKeepsOutcomes
  <2> QED
    BY <1>11, <2>2, <2>3, <2>4 DEF Seal
<1>12. ASSUME NEW r \in Runs, GiveBack(r) PROVE OutcomeInv'
  BY <1>5, <1>12 DEF GiveBack, Finally, Dismiss, IInv, ControlOK
<1>13. ASSUME NEW r \in Runs, Say(r) \/ Abort(r) PROVE OutcomeInv'
  BY <1>5, <1>13 DEF Say, Abort
<1>14. ASSUME NEW r \in Runs, Leave(r) PROVE OutcomeInv'
  <2>1. /\ UNCHANGED <<input, phase, outcome, session>>
        /\ closed' \in [Runs -> BOOLEAN] /\ \A s \in Runs : closed[s] => closed'[s]
    BY <1>14 DEF Leave, OutcomeInv
  <2>2. \A s \in Runs : Voiced(s)' /\ Unmarked(s)'
    BY <2>1 DEF OutcomeInv, Voiced, Unmarked, RecordIn, ThreadOf
  <2>3. \A s \in Runs : ToldAsRecorded(s)'
    BY <2>1 DEF OutcomeInv, ToldAsRecorded, Settles, RecordIn, ThreadOf
  <2> QED
    BY <2>1, <2>2, <2>3 DEF OutcomeInv
<1> QED
  BY <1>1, <1>2, <1>3, <1>4, <1>6, <1>8, <1>9, <1>10, <1>11, <1>12, <1>13, <1>14,
     OpenSessionKeepsOutcomes, AppendReplyKeepsOutcomes, AdkKeepsOutcomes, MarkKeepsOutcomes
     DEF Next, Proceeds

(* Each client gets one terminal event, and however often a resume is sent *)
(* again, before or after a crash, whoever is told how it came out is told *)
(* the same.                                                               *)
THEOREM OutcomesAreToldOnce == Spec => []OneOutcome
<1>1. Init /\ [][Next]_vars => []IInv
  BY InitEstablishes, NextPreserves, PTL
<1>2. Init /\ [][Next]_vars => []HistoryInv
  BY <1>1, HistoryInit, HistoryNext, PTL
<1>3. Init /\ [][Next]_vars => []OutcomeInv
  BY <1>1, <1>2, OutcomeInit, OutcomeNext, PTL
<1>4. IInv /\ OutcomeInv => OneOutcome
  <2> SUFFICES ASSUME IInv, OutcomeInv PROVE OneOutcome
    OBVIOUS
  <2>1. ASSUME NEW r \in Runs
        PROVE  /\ Len(outcome[r]) <= 1
               /\ outcome[r] # <<>> => phase[r] \in {"closing"} \cup Over
               /\ phase[r] \in {"closing", "done"} => closed[r] \/ outcome[r] # <<>>
    <3>1. Voiced(r) /\ phase[r] \in Phases
      BY DEF OutcomeInv, IInv, ControlOK
    <3>2. Len(outcome[r]) <= 1
      <4>1. CASE outcome[r] = <<>>
        BY <4>1
      <4>2. ASSUME NEW result, outcome[r] = <<result>> PROVE Len(outcome[r]) <= 1
        BY <4>2
      <4> QED
        BY <3>1, <4>1, <4>2 DEF Voiced
    <3> QED
      BY <3>1, <3>2 DEF Voiced, Phases, Silent, Working, Over
  <2>2. ASSUME NEW r \in Runs, NEW s \in Runs, Settles(r), Settles(s), input[r] = input[s]
        PROVE  outcome[r] = outcome[s]
    <3>1. PICK x \in RecordIn(r) : outcome[r] = <<x>>
      BY <2>2 DEF OutcomeInv, ToldAsRecorded
    <3>2. PICK y \in RecordIn(s) : outcome[s] = <<y>>
      BY <2>2 DEF OutcomeInv, ToldAsRecorded
    <3>3. RecordIn(s) = RecordIn(r) /\ Fingerprint(input[r]) # <<>>
      BY <2>2 DEF RecordIn, ThreadOf, Fingerprint, Settles
    <3>4. ThreadOf(r) \in Threads
      <4>1. outcome[r] # <<>>
        BY <3>1
      <4>2. phase[r] # "idle"
        BY <4>1 DEF OutcomeInv, Voiced, Silent
      <4> QED
        BY <4>2 DEF IInv, ControlOK
    <3>5. x = y
      BY <3>1, <3>2, <3>3, <3>4 DEF OutcomeInv, OneRecord, AtMostOne, RecordIn
    <3> QED
      BY <3>1, <3>2, <3>5
  <2> QED
    BY <2>1, <2>2 DEF OneOutcome
<1> QED
  BY <1>1, <1>3, <1>4, PTL DEF Spec
=============================================================================
