--------------------------- MODULE AgentRun_proofs ---------------------------
(***************************************************************************)
(* Proofs about AgentRun for any number of calls, detaching calls,         *)
(* messages and interrupts.                                                *)
(***************************************************************************)
EXTENDS AgentRun, FiniteSetTheorems, TLAPS

(* Events wait, and the source can send, only while the call streams.      *)
OnlyStreamsQueue ==
  \A c \in Calls : stage[c] # "streaming" => queue[c] = << >> /\ source[c] # "open"

Inv == TypeOK /\ OnlyStreamsQueue

LEMMA InitInv == Init => Inv
<1> SUFFICES ASSUME Init PROVE Inv
  OBVIOUS
<1>1. [i \in Interrupts |-> "none"] \in ResumeEntries /\ << >> \in Seq(Event)
  BY DEF ResumeEntries
<1>2. resume \in [Calls -> ResumeEntries] /\ queue \in [Calls -> Seq(Event)]
  BY <1>1 DEF Init
<1>3. TypeOK
  BY <1>2 DEF Init, TypeOK
<1>4. OnlyStreamsQueue
  BY DEF Init, OnlyStreamsQueue
<1> QED BY <1>3, <1>4 DEF Inv

LEMMA HookResultsType ==
  ASSUME TypeOK, NEW h \in SUBSET Messages, NEW res \in HookResults(h)
  PROVE  res.messages \in SUBSET Messages /\ res.added \in SUBSET Messages
  BY DEF HookResults, TypeOK

(* The beginning of a call.                                                *)
LEMMA CallPreserves ==
  ASSUME Inv, NEW c \in Calls,
         \/ ConnectAgent(c) \/ Refused(c)
         \/ \E r \in ResumeEntries, expired \in SUBSET Interrupts : RunAgent(c, r, expired)
  PROVE  Inv'
<1>1. CASE ConnectAgent(c)
  BY <1>1 DEF ConnectAgent, Inv, TypeOK, OnlyStreamsQueue, historyVars
<1>2. CASE Refused(c)
  BY <1>2 DEF Refused, Inv, TypeOK, OnlyStreamsQueue, historyVars, hookVars
<1>3. ASSUME NEW r \in ResumeEntries, NEW expired \in SUBSET Interrupts, RunAgent(c, r, expired)
      PROVE  Inv'
  <2>1. stage'[c] \in {"initializing", "refused"} 
    BY <1>3 DEF RunAgent, Inv, TypeOK
  <2>2. TypeOK'
    BY <1>3 DEF RunAgent, Inv, TypeOK, historyVars
  <2>3. OnlyStreamsQueue'
    BY <1>3 DEF RunAgent, Inv, TypeOK, OnlyStreamsQueue
  <2> QED BY <2>2, <2>3 DEF Inv
<1> QED BY <1>1, <1>2, <1>3

LEMMA StartPreserves ==
  ASSUME Inv, NEW c \in Calls, Start(c) \/ StartThrows(c)
  PROVE  Inv'
<1>1. PICK h \in HookResults(handed[c]) : Initialized(c, h)
  BY DEF Start, StartThrows
<1>2. h.messages \in SUBSET Messages /\ h.added \in SUBSET Messages
  BY <1>1, HookResultsType DEF Inv, TypeOK
<1>3. CASE Start(c)
  <2>1. PICK g \in HookResults(handed[c]) :
          /\ Initialized(c, g)
          /\ view' = [view EXCEPT ![c] = g.messages]
          /\ contributed' = [contributed EXCEPT ![c] = g.added]
    BY <1>3 DEF Start
  <2>2. g.messages \in SUBSET Messages /\ g.added \in SUBSET Messages
    BY <2>1, HookResultsType DEF Inv, TypeOK
  <2>3. TypeOK'
    BY <1>3, <2>1, <2>2 DEF Start, Initialized, Inv, TypeOK
  <2>4. OnlyStreamsQueue'
    BY <1>3 DEF Start, Inv, TypeOK, OnlyStreamsQueue
  <2> QED BY <2>3, <2>4 DEF Inv
<1>4. CASE StartThrows(c)
  <2>1. TypeOK'
    BY <1>1, <1>2, <1>4 DEF StartThrows, Initialized, Inv, TypeOK, historyVars, hookVars
  <2>2. OnlyStreamsQueue'
    BY <1>1, <1>4 DEF StartThrows, Initialized, Inv, TypeOK, OnlyStreamsQueue
  <2> QED BY <2>1, <2>2 DEF Inv
<1> QED BY <1>3, <1>4

(* What arrives waits in a queue, and is taken from it.                    *)
LEMMA SourcePreserves ==
  ASSUME Inv, NEW c \in Calls,
         \/ \E e \in Event : EventArrives(c, e)
         \/ \E how \in {"complete", "failed", "aborted"} : SourceEnds(c, how)
  PROVE  Inv'
<1>1. ASSUME NEW e \in Event, EventArrives(c, e) PROVE Inv'
  <2>1. stage[c] = "streaming" /\ Append(queue[c], e) \in Seq(Event)
    BY <1>1 DEF EventArrives, Inv, TypeOK, OnlyStreamsQueue
  <2> QED
    BY <1>1, <2>1 DEF EventArrives, Inv, TypeOK, OnlyStreamsQueue, agentVars, hookVars,
      historyVars
<1>2. ASSUME NEW how \in {"complete", "failed", "aborted"}, SourceEnds(c, how) PROVE Inv'
  BY <1>2 DEF SourceEnds, Inv, TypeOK, OnlyStreamsQueue, agentVars, hookVars, historyVars
<1> QED BY <1>1, <1>2

LEMMA ApplyPreserves ==
  ASSUME Inv, NEW c \in Calls, ApplyEvent(c)
  PROVE  Inv'
<1>1. Head(queue[c]) \in Event /\ Tail(queue[c]) \in Seq(Event)
  BY DEF ApplyEvent, Inv, TypeOK
<1>2. CASE Head(queue[c]).type = "MESSAGE"
  <2>1. Head(queue[c]).id \in Messages
    BY <1>1, <1>2 DEF Event, MessageEvent, FinishedEvent
  <2>2. /\ view' = [view EXCEPT ![c] = @ \cup {Head(queue[c]).id}]
        /\ messages' = view'[c]
        /\ contributed' = [contributed EXCEPT ![c] = @ \cup {Head(queue[c]).id}]
        /\ queue' = [queue EXCEPT ![c] = Tail(@)]
        /\ UNCHANGED <<pendingInterrupts, reporter, isRunning, activeRun, stage, kind,
                        before, resume, source, handed, finalizer, outcome, detaching>>
    BY <1>2 DEF ApplyEvent, hookVars
  <2>4. TypeOK'
    BY <1>1, <2>1, <2>2 DEF Inv, TypeOK
  <2>3. OnlyStreamsQueue'
    BY DEF ApplyEvent, Inv, TypeOK, OnlyStreamsQueue
  <2> QED BY <2>3, <2>4 DEF Inv
<1>3. CASE Head(queue[c]).type # "MESSAGE"
  <2>1. Head(queue[c]).interrupts \in SUBSET Interrupts
    BY <1>1, <1>3 DEF Event, MessageEvent, FinishedEvent
  <2>2. /\ pendingInterrupts' = Head(queue[c]).interrupts
        /\ reporter' = [i \in Interrupts |->
                           IF i \in Head(queue[c]).interrupts THEN c ELSE reporter[i]]
        /\ queue' = [queue EXCEPT ![c] = Tail(@)]
        /\ UNCHANGED <<view, messages, contributed, isRunning, activeRun, stage, kind,
                        before, resume, source, handed, finalizer, outcome, detaching>>
    BY <1>3 DEF ApplyEvent, hookVars
  <2>4. TypeOK'
    BY <1>1, <2>1, <2>2 DEF Inv, TypeOK
  <2>3. OnlyStreamsQueue'
    BY DEF ApplyEvent, Inv, TypeOK, OnlyStreamsQueue
  <2> QED BY <2>3, <2>4 DEF Inv
<1> QED BY <1>2, <1>3

(* The ways a call ends.                                                   *)
LEMMA EndPreserves ==
  ASSUME Inv, NEW c \in Calls,
         \/ Drained(c) \/ Errored(c) \/ FailureHandled(c) \/ Settle(c) \/ FinalizerReturns(c)
  PROVE  Inv'
<1>1. CASE Drained(c)
  BY <1>1 DEF Drained, Finalize, Inv, TypeOK, OnlyStreamsQueue, historyVars
<1>2. CASE Errored(c)
  BY <1>2 DEF Errored, Inv, TypeOK, OnlyStreamsQueue, historyVars
<1>3. CASE FailureHandled(c)
  <2>1. PICK h \in HookResults(handed[c]) :
          /\ messages' = h.messages
          /\ contributed' = [contributed EXCEPT ![c] = @ \cup h.added]
    BY <1>3 DEF FailureHandled
  <2>2. h.messages \in SUBSET Messages /\ h.added \in SUBSET Messages
    BY <2>1, HookResultsType DEF Inv, TypeOK
  <2>3. PICK how \in {"resolved", "rejected"} : Finalize(c, how)
    BY <1>3 DEF FailureHandled
  <2>4. TypeOK'
    BY <1>3, <2>1, <2>2, <2>3 DEF FailureHandled, Finalize, Inv, TypeOK
  <2>5. OnlyStreamsQueue'
    BY <1>3, <2>3 DEF FailureHandled, Finalize, Inv, TypeOK, OnlyStreamsQueue
  <2> QED BY <2>4, <2>5 DEF Inv
<1>4. CASE Settle(c)
  BY <1>4 DEF Settle, Inv, TypeOK, OnlyStreamsQueue, hookVars, ResumeEntries
<1>5. CASE FinalizerReturns(c)
  <2>1. PICK h \in HookResults(handed[c]) : messages' = h.messages
    BY <1>5 DEF FinalizerReturns
  <2>2. h.messages \in SUBSET Messages
    BY <2>1, HookResultsType DEF Inv, TypeOK
  <2> QED
    BY <1>5, <2>1, <2>2 DEF FinalizerReturns, Inv, TypeOK, OnlyStreamsQueue, historyVars
<1> QED BY <1>1, <1>2, <1>3, <1>4, <1>5

LEMMA DetachPreserves ==
  ASSUME Inv, NEW d \in Detachers, DetachActiveRun(d) \/ Detached(d)
  PROVE  Inv'
<1>1. CASE DetachActiveRun(d)
  <2>0. PICK v \in Calls \cup {"idle", "returned"} :
          detaching' = [detaching EXCEPT ![d] = v]
    <3>1. activeRun = None => detaching' = [detaching EXCEPT ![d] = "returned"]
      BY <1>1 DEF DetachActiveRun
    <3>2. activeRun # None => detaching' = [detaching EXCEPT ![d] = activeRun]
      BY <1>1 DEF DetachActiveRun
    <3>3. activeRun # None => activeRun \in Calls
      BY DEF Inv, TypeOK
    <3> QED BY <3>1, <3>2, <3>3
  <2>1. detaching' \in [Detachers -> Calls \cup {"idle", "returned"}]
    BY <2>0 DEF Inv, TypeOK
  <2>2. \/ source' = source
        \/ activeRun \in Calls /\ source' = [source EXCEPT ![activeRun] = "detached"]
    <3>1. CASE activeRun = None
      BY <1>1, <3>1 DEF DetachActiveRun
    <3>2. CASE activeRun # None
      <4>1. activeRun \in Calls
        BY <3>2 DEF Inv, TypeOK
      <4>2. source' = [source EXCEPT ![activeRun] = IF @ = "open" THEN "detached" ELSE @]
        BY <1>1, <3>2 DEF DetachActiveRun
      <4>3. source \in [Calls -> {"none", "open", "complete", "failed", "aborted", "detached"}]
        BY DEF Inv, TypeOK
      <4>4. CASE source[activeRun] = "open"
        BY <4>1, <4>2, <4>4
      <4>5. CASE source[activeRun] # "open"
        BY <4>1, <4>2, <4>3, <4>5
      <4> QED BY <4>4, <4>5
    <3> QED BY <3>1, <3>2
  <2>3. \A c \in Calls : source'[c] = "open" => source[c] = "open"
    BY <2>2 DEF Inv, TypeOK
  <2>4. TypeOK'
    BY <1>1, <2>1, <2>2 DEF DetachActiveRun, Inv, TypeOK, agentVars, hookVars, historyVars
  <2>5. OnlyStreamsQueue'
    BY <1>1, <2>3 DEF DetachActiveRun, Inv, OnlyStreamsQueue
  <2> QED BY <2>4, <2>5 DEF Inv
<1>2. CASE Detached(d)
  BY <1>2 DEF Detached, Inv, TypeOK, OnlyStreamsQueue, agentVars, hookVars, historyVars
<1> QED BY <1>1, <1>2

LEMMA NextPreserves == Inv /\ [Next]_vars => Inv'
<1> SUFFICES ASSUME Inv, [Next]_vars PROVE Inv'
  OBVIOUS
<1>1. ASSUME NEW c \in Calls, Turn(c) \/ StartThrows(c) \/ ConnectAgent(c) PROVE Inv'
  BY <1>1, CallPreserves, StartPreserves, ApplyPreserves, EndPreserves DEF Turn
<1>2. ASSUME NEW c \in Calls, NEW r \in ResumeEntries, NEW expired \in SUBSET Interrupts,
             RunAgent(c, r, expired)
      PROVE  Inv'
  BY <1>2, CallPreserves
<1>3. ASSUME NEW c \in Calls, \/ \E e \in Event : EventArrives(c, e)
                              \/ \E how \in {"complete", "failed", "aborted"} : SourceEnds(c, how)
      PROVE  Inv'
  BY <1>3, SourcePreserves
<1>4. ASSUME NEW d \in Detachers, DetachActiveRun(d) \/ Detached(d) PROVE Inv'
  BY <1>4, DetachPreserves
<1>5. ASSUME NEW S \in SUBSET Messages, EditConversation(S) PROVE Inv'
  BY <1>5 DEF EditConversation, Inv, TypeOK, OnlyStreamsQueue, hookVars, historyVars
<1>6. CASE UNCHANGED vars
  BY <1>6 DEF vars, agentVars, hookVars, historyVars, Inv, TypeOK, OnlyStreamsQueue
<1> QED BY <1>1, <1>2, <1>3, <1>4, <1>5, <1>6 DEF Next

(* Whatever calls overlap, every field of the agent and every local of a   *)
(* call keeps its type.                                                    *)
THEOREM TypeCorrect == Spec => []TypeOK
<1>1. Init => Inv
  BY InitInv
<1>2. Inv /\ [Next]_vars => Inv'
  BY NextPreserves
<1>3. Inv => TypeOK
  BY DEF Inv
<1> QED BY <1>1, <1>2, <1>3, PTL DEF Spec

(* However calls overlap and end (completed, failed, aborted, detached, or *)
(* thrown out at the start), no event that was received is left unapplied. *)
THEOREM ReceivedEventsAreApplied == Spec => []ReceivedIsApplied
<1>1. Init => Inv
  BY InitInv
<1>2. Inv /\ [Next]_vars => Inv'
  BY NextPreserves
<1>3. Inv => ReceivedIsApplied
  BY DEF Inv, OnlyStreamsQueue, ReceivedIsApplied
<1> QED BY <1>1, <1>2, <1>3, PTL DEF Spec

-----------------------------------------------------------------------------
(* One call at a time.                                                     *)

OneAtATime ==
  \A c, d \in Calls : c \in InFlight /\ d \in InFlight => c = d

(* The call under way was let in because it answers every interrupt that   *)
(* was pending, and what is pending since then it reported itself.         *)
CallAnswers ==
  \A c \in Calls :
    /\ stage[c] = "idle" => kind[c] = "run"
    /\ stage[c] \in {"initializing", "streaming"} /\ kind[c] = "run"
         => \A i \in pendingInterrupts : resume[c][i] # "none" \/ reporter[i] = c

SequentialInv == OneAtATime /\ RunningFlag /\ RunsCanBeDetached /\ CallAnswers

LEMMA SequentialInit == Init => SequentialInv
  BY DEF Init, SequentialInv, OneAtATime, RunningFlag, RunsCanBeDetached, CallAnswers, InFlight

(* An application that makes one call at a time makes it when none is      *)
(* under way.                                                              *)
LEMMA NoneInFlight ==
  ASSUME OneAtATime, MaxInFlight = 1, Cardinality(InFlight) < MaxInFlight
  PROVE  InFlight = {}
<1> SUFFICES ASSUME NEW c \in InFlight PROVE FALSE
  OBVIOUS
<1>1. InFlight = {c}
  BY DEF OneAtATime, InFlight
<1>2. Cardinality({c}) = 1
  BY FS_Singleton
<1> QED BY <1>1, <1>2

LEMMA SequentialCall ==
  ASSUME Inv, SequentialInv, MaxInFlight = 1, NEW c \in Calls,
         \/ ConnectAgent(c)
         \/ \E r \in ResumeEntries, expired \in SUBSET Interrupts : RunAgent(c, r, expired)
  PROVE  SequentialInv'
<1>1. InFlight = {}
  BY NoneInFlight DEF ConnectAgent, RunAgent, SequentialInv
<1>2. \A d \in Calls : stage[d] \in {"idle", "settled"}
  BY <1>1 DEF InFlight, Inv, TypeOK
<1>3. CASE ConnectAgent(c)
  <2>1. /\ stage' = [stage EXCEPT ![c] = "initializing"]
        /\ kind' = [kind EXCEPT ![c] = "connect"]
        /\ isRunning' = TRUE /\ stage[c] = "idle"
        /\ UNCHANGED <<pendingInterrupts, activeRun, resume, reporter>>
    BY <1>3 DEF ConnectAgent, historyVars
  <2>2. OneAtATime'
    BY <1>2, <2>1 DEF OneAtATime, InFlight, Inv, TypeOK
  <2>3. RunningFlag'
    BY <1>2, <2>1 DEF RunningFlag, InFlight, Inv, TypeOK
  <2>4. RunsCanBeDetached'
    BY <1>2, <2>1 DEF RunsCanBeDetached, Inv, TypeOK
  <2>5. CallAnswers'
    BY <1>2, <2>1 DEF CallAnswers, SequentialInv, Inv, TypeOK
  <2> QED BY <2>2, <2>3, <2>4, <2>5 DEF SequentialInv
<1>4. ASSUME NEW r \in ResumeEntries, NEW expired \in SUBSET Interrupts, RunAgent(c, r, expired)
      PROVE  SequentialInv'
  <2>1. /\ stage' = [stage EXCEPT ![c] = IF Answers(r, expired) THEN "initializing" ELSE "refused"]
        /\ resume' = [resume EXCEPT ![c] = r]
        /\ isRunning' = TRUE /\ stage[c] = "idle"
        /\ UNCHANGED <<pendingInterrupts, activeRun, kind, reporter>>
    BY <1>4 DEF RunAgent, historyVars
  <2>2. /\ stage'[c] \in {"initializing", "refused"}
        /\ stage'[c] = "initializing" => Answers(r, expired)
        /\ \A d \in Calls : d # c => stage'[d] = stage[d]
    BY <2>1 DEF Inv, TypeOK
  <2>3. OneAtATime'
    BY <1>2, <2>2 DEF OneAtATime, InFlight
  <2>4. RunningFlag'
    BY <1>2, <2>1, <2>2 DEF RunningFlag, InFlight
  <2>5. RunsCanBeDetached'
    BY <1>2, <2>2 DEF RunsCanBeDetached
  <2>6. CallAnswers'
    BY <1>2, <2>1, <2>2 DEF CallAnswers, SequentialInv, Inv, TypeOK, Answers
  <2> QED BY <2>3, <2>4, <2>5, <2>6 DEF SequentialInv
<1> QED BY <1>3, <1>4

(* A call that is under way is alone, so a step that moves it on need not  *)
(* mind the others.                                                        *)
LEMMA SequentialMove ==
  ASSUME Inv, SequentialInv, NEW c \in Calls, c \in InFlight,
         NEW to \in {"streaming", "failing", "finalized", "settled"},
         stage' = [stage EXCEPT ![c] = to],
         to = "streaming" => isRunning' /\ activeRun' = c,
         to = "failing" => activeRun' = c,
         to = "settled" => ~isRunning',
         to = "streaming" => stage[c] = "initializing",
         UNCHANGED <<kind, pendingInterrupts, reporter>>,
         to # "settled" => UNCHANGED resume
  PROVE  SequentialInv'
<1>1. \A d \in Calls : d # c => stage[d] \in {"idle", "settled"} /\ stage'[d] = stage[d]
  BY DEF SequentialInv, OneAtATime, InFlight, Inv, TypeOK
<1>2. stage'[c] = to /\ stage[c] \notin {"idle", "settled"}
  BY DEF Inv, TypeOK, InFlight
<1>3. OneAtATime'
  BY <1>1 DEF OneAtATime, InFlight
<1>4. RunningFlag'
  BY <1>1, <1>2 DEF RunningFlag, InFlight
<1>5. RunsCanBeDetached'
  BY <1>1, <1>2 DEF RunsCanBeDetached
<1>6. CallAnswers'
  BY <1>1, <1>2 DEF CallAnswers, SequentialInv
<1> QED BY <1>3, <1>4, <1>5, <1>6 DEF SequentialInv

LEMMA SequentialTurn ==
  ASSUME Inv, SequentialInv, NEW c \in Calls, Turn(c) \/ StartThrows(c)
  PROVE  SequentialInv'
<1>1. CASE Refused(c)
  <2>1. c \in InFlight
    BY <1>1 DEF Refused, InFlight
  <2> QED BY <1>1, <2>1, SequentialMove DEF Refused, historyVars
<1>2. CASE Start(c)
  <2>1. stage[c] = "initializing" /\ c \in InFlight
    BY <1>2 DEF Start, Initialized, InFlight
  <2>2. isRunning
    BY <2>1 DEF SequentialInv, RunningFlag
  <2> QED BY <1>2, <2>1, <2>2, SequentialMove DEF Start
<1>3. CASE StartThrows(c)
  <2>1. c \in InFlight
    BY <1>3 DEF StartThrows, Initialized, InFlight
  <2> QED BY <1>3, <2>1, SequentialMove DEF StartThrows, historyVars
<1>4. CASE ApplyEvent(c)
  <2>1. /\ stage[c] = "streaming" /\ c \in InFlight
        /\ UNCHANGED <<stage, isRunning, activeRun, kind, resume>>
    BY <1>4 DEF ApplyEvent, InFlight
  <2>2. \A d \in Calls : d # c => stage[d] \in {"idle", "settled"}
    BY <2>1 DEF SequentialInv, OneAtATime, InFlight
  <2>3. \/ UNCHANGED <<pendingInterrupts, reporter>>
        \/ \A i \in pendingInterrupts' : i \in Interrupts => reporter'[i] = c
    BY <1>4 DEF ApplyEvent
  <2>4. pendingInterrupts' \subseteq Interrupts
    BY <1>4, ApplyPreserves DEF Inv, TypeOK
  <2>5. CallAnswers'
    BY <2>1, <2>2, <2>3, <2>4 DEF CallAnswers, SequentialInv
  <2> QED
    BY <2>1, <2>5 DEF SequentialInv, OneAtATime, RunningFlag, RunsCanBeDetached, InFlight
<1>5. CASE Drained(c)
  <2>1. c \in InFlight
    BY <1>5 DEF Drained, InFlight
  <2> QED BY <1>5, <2>1, SequentialMove DEF Drained, Finalize, historyVars
<1>6. CASE Errored(c)
  <2>1. stage[c] = "streaming" /\ c \in InFlight
    BY <1>6 DEF Errored, InFlight
  <2>2. activeRun = c
    BY <2>1 DEF SequentialInv, RunsCanBeDetached
  <2> QED BY <1>6, <2>1, <2>2, SequentialMove DEF Errored, historyVars
<1>7. CASE FailureHandled(c)
  <2>1. c \in InFlight
    BY <1>7 DEF FailureHandled, InFlight
  <2> QED BY <1>7, <2>1, SequentialMove DEF FailureHandled, Finalize
<1>8. CASE Settle(c)
  <2>1. c \in InFlight
    BY <1>8 DEF Settle, InFlight
  <2> QED BY <1>8, <2>1, SequentialMove DEF Settle
<1>9. CASE FinalizerReturns(c)
  BY <1>9 DEF FinalizerReturns, historyVars, SequentialInv, OneAtATime, RunningFlag,
    RunsCanBeDetached, CallAnswers, InFlight
<1> QED BY <1>1, <1>2, <1>3, <1>4, <1>5, <1>6, <1>7, <1>8, <1>9 DEF Turn

LEMMA SequentialNext ==
  ASSUME MaxInFlight = 1
  PROVE  Inv /\ SequentialInv /\ [Next]_vars => SequentialInv'
<1> SUFFICES ASSUME Inv, SequentialInv, [Next]_vars PROVE SequentialInv'
  OBVIOUS
<1>1. ASSUME NEW c \in Calls, Turn(c) \/ StartThrows(c) \/ ConnectAgent(c) PROVE SequentialInv'
  BY <1>1, SequentialTurn, SequentialCall
<1>2. ASSUME NEW c \in Calls, NEW r \in ResumeEntries, NEW expired \in SUBSET Interrupts,
             RunAgent(c, r, expired)
      PROVE  SequentialInv'
  BY <1>2, SequentialCall
<1>3. ASSUME UNCHANGED <<isRunning, activeRun, stage, kind, resume, pendingInterrupts, reporter>>
      PROVE  SequentialInv'
  BY <1>3 DEF SequentialInv, OneAtATime, RunningFlag, RunsCanBeDetached, CallAnswers, InFlight
<1>4. ASSUME NEW c \in Calls, NEW e \in Event, EventArrives(c, e) PROVE SequentialInv'
  BY <1>3, <1>4 DEF EventArrives, agentVars, historyVars
<1>5. ASSUME NEW c \in Calls, NEW how \in {"complete", "failed", "aborted"}, SourceEnds(c, how)
      PROVE  SequentialInv'
  BY <1>3, <1>5 DEF SourceEnds, agentVars, historyVars
<1>6. ASSUME NEW d \in Detachers, DetachActiveRun(d) \/ Detached(d) PROVE SequentialInv'
  BY <1>3, <1>6 DEF DetachActiveRun, Detached, agentVars, historyVars
<1>7. ASSUME NEW S \in SUBSET Messages, EditConversation(S) PROVE SequentialInv'
  BY <1>3, <1>7 DEF EditConversation, historyVars
<1>8. CASE UNCHANGED vars
  BY <1>3, <1>8 DEF vars, agentVars, historyVars
<1> QED BY <1>1, <1>2, <1>4, <1>5, <1>6, <1>7, <1>8 DEF Next

-----------------------------------------------------------------------------
(* Where the messages of the call under way are on record: until it        *)
(* streams the conversation is the one it found, and from then on what it  *)
(* found with what it contributed.                                         *)
Accounted ==
  \A c \in Calls :
    /\ stage[c] = "initializing" => handed[c] = messages /\ before[c] = messages
    /\ stage[c] \in {"streaming", "failing", "finalized"}
         => messages = before[c] \cup contributed[c]
    /\ stage[c] = "streaming" => view[c] = messages
    /\ stage[c] = "failing" => handed[c] = messages

LEMMA AccountedInit == Init => Accounted
  BY DEF Init, Accounted

(* What one call under way writes concerns nobody else.                    *)
LEMMA AccountedTurn ==
  ASSUME Inv, SequentialInv, Accounted, ~LateEdits, NEW c \in Calls,
         Turn(c) \/ StartThrows(c)
  PROVE  Accounted'
<1>1. ASSUME c \in InFlight PROVE \A d \in Calls : d # c => stage[d] \in {"idle", "settled"}
  BY <1>1 DEF SequentialInv, OneAtATime, InFlight
<1>2. CASE Refused(c)
  <2>1. stage' = [stage EXCEPT ![c] = "settled"] /\ c \in InFlight
    BY <1>2 DEF Refused, InFlight
  <2>2. \A d \in Calls : stage'[d] \in {"idle", "settled"}
    BY <1>1, <2>1 DEF Inv, TypeOK
  <2> QED BY <2>2 DEF Accounted
<1>3. CASE Start(c)
  <2>1. PICK h \in HookResults(handed[c]) :
          /\ Initialized(c, h)
          /\ view' = [view EXCEPT ![c] = h.messages]
          /\ contributed' = [contributed EXCEPT ![c] = h.added]
    BY <1>3 DEF Start
  <2>2. stage[c] = "initializing" /\ messages' = h.messages /\ c \in InFlight
    BY <2>1 DEF Initialized, InFlight
  <2>3. handed[c] = messages /\ before[c] = messages
    BY <2>2 DEF Accounted
  <2>4. h.messages = before[c] \cup h.added
    BY <2>3 DEF HookResults
  <2>5. stage' = [stage EXCEPT ![c] = "streaming"] /\ UNCHANGED before
    BY <1>3 DEF Start
  <2>6. \A d \in Calls : d # c => stage'[d] \in {"idle", "settled"}
    BY <1>1, <2>2, <2>5 DEF Inv, TypeOK
  <2>7. /\ stage'[c] = "streaming" /\ view'[c] = messages'
        /\ messages' = before'[c] \cup contributed'[c]
    BY <2>1, <2>2, <2>4, <2>5 DEF Inv, TypeOK
  <2> QED BY <2>6, <2>7 DEF Accounted
<1>4. CASE StartThrows(c)
  <2>1. stage' = [stage EXCEPT ![c] = "settled"] /\ c \in InFlight
    BY <1>4 DEF StartThrows, Initialized, InFlight
  <2>2. \A d \in Calls : stage'[d] \in {"idle", "settled"}
    BY <1>1, <2>1 DEF Inv, TypeOK
  <2> QED BY <2>2 DEF Accounted
<1>5. CASE ApplyEvent(c)
  <2>1. stage[c] = "streaming" /\ c \in InFlight /\ UNCHANGED <<stage, before, handed>>
    BY <1>5 DEF ApplyEvent, InFlight, hookVars
  <2>2. view[c] = messages /\ messages = before[c] \cup contributed[c]
    BY <2>1 DEF Accounted
  <2>3. \/ UNCHANGED <<view, messages, contributed>>
        \/ \E m : /\ view' = [view EXCEPT ![c] = @ \cup {m}]
                  /\ messages' = view'[c]
                  /\ contributed' = [contributed EXCEPT ![c] = @ \cup {m}]
    BY <1>5 DEF ApplyEvent
  <2>4. view'[c] = messages' /\ messages' = before'[c] \cup contributed'[c]
    BY <2>1, <2>2, <2>3 DEF Inv, TypeOK
  <2> QED BY <1>1, <2>1, <2>4 DEF Accounted
<1>6. CASE Drained(c) \/ Errored(c)
  <2>1. /\ stage[c] = "streaming" /\ c \in InFlight
        /\ UNCHANGED <<messages, before, contributed, view>>
    BY <1>6 DEF Drained, Errored, InFlight, historyVars
  <2>2. PICK to \in {"finalized", "failing"} : stage' = [stage EXCEPT ![c] = to]
    BY <1>6 DEF Drained, Errored, Finalize
  <2>3. handed' = [handed EXCEPT ![c] = messages]
    BY <1>6 DEF Drained, Errored, Finalize
  <2>4. stage'[c] = to /\ \A d \in Calls : d # c => stage'[d] \in {"idle", "settled"}
    BY <1>1, <2>1, <2>2 DEF Inv, TypeOK
  <2>5. handed'[c] = messages' /\ messages' = before'[c] \cup contributed'[c]
    BY <2>1, <2>3 DEF Accounted, Inv, TypeOK
  <2> QED BY <2>4, <2>5 DEF Accounted
<1>7. CASE FailureHandled(c)
  <2>1. stage[c] = "failing" /\ c \in InFlight /\ UNCHANGED before
    BY <1>7 DEF FailureHandled, InFlight
  <2>2. PICK h \in HookResults(handed[c]) :
          /\ messages' = h.messages
          /\ contributed' = [contributed EXCEPT ![c] = @ \cup h.added]
    BY <1>7 DEF FailureHandled
  <2>3. stage' = [stage EXCEPT ![c] = "finalized"]
    BY <1>7 DEF FailureHandled, Finalize
  <2>4. handed[c] = messages /\ messages = before[c] \cup contributed[c]
    BY <2>1 DEF Accounted
  <2>5. h.messages = messages \cup h.added
    BY <2>4 DEF HookResults
  <2>6. messages' = before'[c] \cup contributed'[c]
    BY <2>1, <2>2, <2>4, <2>5 DEF Inv, TypeOK
  <2>7. stage'[c] = "finalized" /\ \A d \in Calls : d # c => stage'[d] \in {"idle", "settled"}
    BY <1>1, <2>1, <2>3 DEF Inv, TypeOK
  <2> QED BY <2>6, <2>7 DEF Accounted
<1>8. CASE Settle(c)
  <2>1. stage' = [stage EXCEPT ![c] = "settled"] /\ c \in InFlight
    BY <1>8 DEF Settle, InFlight
  <2>2. \A d \in Calls : stage'[d] \in {"idle", "settled"}
    BY <1>1, <2>1 DEF Inv, TypeOK
  <2> QED BY <2>2 DEF Accounted
<1>9. CASE FinalizerReturns(c)
  <2>1. PICK h \in HookResults(handed[c]) : (h.added # {} => LateEdits) /\ messages' = h.messages
    BY <1>9 DEF FinalizerReturns
  <2>2. messages' = messages
    BY <2>1 DEF HookResults
  <2>3. /\ stage[c] = "settled" /\ UNCHANGED <<stage, before, view, contributed>>
        /\ handed' = [handed EXCEPT ![c] = {}]
    BY <1>9 DEF FinalizerReturns, historyVars
  <2> QED BY <2>2, <2>3 DEF Accounted, Inv, TypeOK
<1> QED BY <1>2, <1>3, <1>4, <1>5, <1>6, <1>7, <1>8, <1>9 DEF Turn

LEMMA AccountedNext ==
  ASSUME MaxInFlight = 1, ~LateEdits
  PROVE  Inv /\ SequentialInv /\ Accounted /\ [Next]_vars => Accounted'
<1> SUFFICES ASSUME Inv, SequentialInv, Accounted, [Next]_vars PROVE Accounted'
  OBVIOUS
<1>1. ASSUME NEW c \in Calls, Turn(c) \/ StartThrows(c) PROVE Accounted'
  BY <1>1, AccountedTurn
<1>2. ASSUME NEW c \in Calls,
             \/ ConnectAgent(c)
             \/ \E r \in ResumeEntries, expired \in SUBSET Interrupts : RunAgent(c, r, expired)
      PROVE  Accounted'
  <2>1. InFlight = {}
    BY <1>2, NoneInFlight DEF ConnectAgent, RunAgent, SequentialInv
  <2>2. \A d \in Calls : stage[d] \in {"idle", "settled"}
    BY <2>1 DEF InFlight
  <2>3. PICK to \in {"initializing", "refused"} : stage' = [stage EXCEPT ![c] = to]
    BY <1>2 DEF ConnectAgent, RunAgent
  <2>4. /\ before' = [before EXCEPT ![c] = messages]
        /\ handed' = [handed EXCEPT ![c] = messages]
        /\ messages' = messages
    BY <1>2 DEF ConnectAgent, RunAgent
  <2>5. /\ stage'[c] = to /\ handed'[c] = messages /\ before'[c] = messages
        /\ \A d \in Calls : d # c => stage'[d] = stage[d]
    BY <2>3, <2>4 DEF Inv, TypeOK
  <2> QED BY <2>2, <2>4, <2>5 DEF Accounted
<1>3. ASSUME UNCHANGED <<messages, stage, before, handed, view, contributed>>
      PROVE  Accounted'
  BY <1>3 DEF Accounted
<1>4. ASSUME NEW c \in Calls, NEW e \in Event, EventArrives(c, e) PROVE Accounted'
  BY <1>3, <1>4 DEF EventArrives, agentVars, hookVars, historyVars
<1>5. ASSUME NEW c \in Calls, NEW how \in {"complete", "failed", "aborted"}, SourceEnds(c, how)
      PROVE  Accounted'
  BY <1>3, <1>5 DEF SourceEnds, agentVars, hookVars, historyVars
<1>6. ASSUME NEW d \in Detachers, DetachActiveRun(d) \/ Detached(d) PROVE Accounted'
  BY <1>3, <1>6 DEF DetachActiveRun, Detached, agentVars, hookVars, historyVars
<1>7. ASSUME NEW S \in SUBSET Messages, EditConversation(S) PROVE Accounted'
  <2>1. \A d \in Calls : stage[d] \in {"idle", "settled"} /\ stage'[d] = stage[d]
    BY <1>7 DEF EditConversation, InFlight
  <2> QED BY <2>1 DEF Accounted
<1>8. CASE UNCHANGED vars
  BY <1>3, <1>8 DEF vars, agentVars, hookVars, historyVars
<1> QED BY <1>1, <1>2, <1>4, <1>5, <1>6, <1>7, <1>8 DEF Next

-----------------------------------------------------------------------------
(* In an application that makes one call at a time, isRunning is up from a *)
(* call to the end of its stream and down when none is under way, however  *)
(* the calls end: refused, thrown out, failed, aborted or detached.        *)
THEOREM RunningFlagIsReliable ==
  ASSUME MaxInFlight = 1
  PROVE  Spec => []RunningFlag
<1>1. Init => Inv /\ SequentialInv
  BY InitInv, SequentialInit
<1>2. Inv /\ SequentialInv /\ [Next]_vars => (Inv /\ SequentialInv)'
  BY NextPreserves, SequentialNext
<1>3. SequentialInv => RunningFlag
  BY DEF SequentialInv
<1> QED BY <1>1, <1>2, <1>3, PTL DEF Spec

(* In such an application a run can be detached for as long as it streams, *)
(* whatever hooks of earlier runs are still to return.                     *)
THEOREM RunsStayDetachable ==
  ASSUME MaxInFlight = 1
  PROVE  Spec => []RunsCanBeDetached
<1>1. Init => Inv /\ SequentialInv
  BY InitInv, SequentialInit
<1>2. Inv /\ SequentialInv /\ [Next]_vars => (Inv /\ SequentialInv)'
  BY NextPreserves, SequentialNext
<1>3. SequentialInv => RunsCanBeDetached
  BY DEF SequentialInv
<1> QED BY <1>1, <1>2, <1>3, PTL DEF Spec

(* In such an application an interrupt stops being pending only when a run *)
(* that answers it, or that reported it, or a connection finishes; never   *)
(* by a run that fails, is detached, or answers something else.            *)
THEOREM InterruptsStayPending ==
  ASSUME MaxInFlight = 1
  PROVE  Spec => InterruptsNotDropped
<1> DEFINE A == \A i \in pendingInterrupts \ pendingInterrupts' :
                  \E c \in Calls :
                    /\ ApplyEvent(c)
                    /\ resume[c][i] # "none" \/ reporter[i] = c \/ kind[c] = "connect"
<1>1. Init => Inv /\ SequentialInv
  BY InitInv, SequentialInit
<1>2. Inv /\ SequentialInv /\ [Next]_vars => (Inv /\ SequentialInv)'
  BY NextPreserves, SequentialNext
<1>3. Inv /\ SequentialInv /\ [Next]_vars => [A]_vars
  <2> SUFFICES ASSUME Inv, SequentialInv, Next, NEW i \in pendingInterrupts \ pendingInterrupts'
               PROVE  \E c \in Calls :
                        /\ ApplyEvent(c)
                        /\ resume[c][i] # "none" \/ reporter[i] = c \/ kind[c] = "connect"
    OBVIOUS
  <2>1. PICK c \in Calls : ApplyEvent(c)
    BY DEF Next, Turn, Refused, Start, Drained, Errored, FailureHandled, Settle, FinalizerReturns,
      StartThrows, ConnectAgent, RunAgent, EventArrives, SourceEnds, DetachActiveRun, Detached,
      EditConversation, agentVars
  <2>2. stage[c] = "streaming" /\ kind[c] \in {"run", "connect"}
    BY <2>1 DEF ApplyEvent, Inv, TypeOK
  <2> QED BY <2>1, <2>2 DEF SequentialInv, CallAnswers
<1> QED BY <1>1, <1>2, <1>3, PTL DEF Spec, InterruptsNotDropped

(* In such an application, and when no onRunFinalized hook hands back      *)
(* messages, what a call returns as newMessages is what its run and its    *)
(* hooks added, and all of it, also after a failure that a subscriber      *)
(* stopped, an abort or a detach.                                          *)
THEOREM ResultsAreComplete ==
  ASSUME MaxInFlight = 1, ~LateEdits
  PROVE  Spec => ResultHasTheRunsMessages
<1> DEFINE All == Inv /\ SequentialInv /\ Accounted
           A == \A c \in Calls :
                  Settle(c) /\ outcome[c] = "resolved"
                    => NewMessages(c) = contributed[c] \ before[c]
<1>1. Init => All
  BY InitInv, SequentialInit, AccountedInit
<1>2. All /\ [Next]_vars => All'
  BY NextPreserves, SequentialNext, AccountedNext
<1>3. All /\ [Next]_vars => [A]_vars
  <2> SUFFICES ASSUME All, NEW c \in Calls, Settle(c)
               PROVE  NewMessages(c) = contributed[c] \ before[c]
    OBVIOUS
  <2>1. messages = before[c] \cup contributed[c]
    BY DEF Settle, Accounted
  <2> QED BY <2>1 DEF NewMessages
<1> HIDE DEF All, A
<1>4. Init /\ [][Next]_vars => [][A]_vars
  BY <1>1, <1>2, <1>3, PTL
<1> QED BY <1>4 DEF Spec, ResultHasTheRunsMessages, A
=============================================================================
