------------------------------ MODULE AgentRun ------------------------------
(***************************************************************************)
(* AbstractAgent (client/src/agent/agent.ts): the life of the runAgent and *)
(* connectAgent calls made on one agent object, the detachActiveRun calls  *)
(* that cut them short, and the subscribers' hooks, which may take their   *)
(* time.                                                                   *)
(*                                                                         *)
(* JavaScript runs one task at a time: a step is what happens between two  *)
(* awaits.  The conversation is the set of its message ids; state is       *)
(* written wherever messages are, by the same statements, and left out.    *)
(* A hook that throws is logged and skipped; the notifications             *)
(* (onMessagesChanged, onStateChanged, onNewMessage, onNewToolCall) are    *)
(* taken not to throw.                                                     *)
(***************************************************************************)
EXTENDS Integers, Sequences, FiniteSets

CONSTANTS
    Calls,            \* the runAgent and connectAgent calls of the application
    Detachers,        \* its detachActiveRun calls
    Messages,         \* message ids
    Interrupts,       \* interrupt ids
    None,
    MaxInFlight,      \* calls the application lets overlap
    MaxQueued,        \* bound: events of one call that wait to be applied
    LateEdits,        \* onRunFinalized subscribers hand back messages
    StartupMayThrow   \* a middleware's or the subclass's run() may throw

ASSUME NoneIsSpecial == None \notin Calls \cup Messages
ASSUME BoundsAssumption == MaxInFlight \in Nat \ {0} /\ MaxQueued \in Nat
ASSUME SwitchesAssumption ==
  LateEdits \in BOOLEAN /\ StartupMayThrow \in BOOLEAN

VARIABLES
    \* fields of the agent
    isRunning, messages, pendingInterrupts,
    activeRun,     \* whose activeRunDetach$ and activeRunCompletionPromise these are
    \* locals of a call
    stage, kind,
    before,        \* currentMessageIds
    resume,        \* the resume entries of its input
    source,        \* what became of its event source
    queue,         \* events that concatMap holds back
    view,          \* the reducer's copy of the conversation
    handed,        \* the conversation that its pending hook was handed
    outcome, finalizer,
    \* what a detachActiveRun call waits for
    detaching,
    \* history
    contributed,   \* what a call added to the conversation
    reporter       \* the call whose stream reported an interrupt last

agentVars == <<isRunning, messages, pendingInterrupts, activeRun>>
hookVars == <<handed, finalizer>>
historyVars == <<contributed, reporter>>
vars == <<agentVars, stage, kind, before, resume, source, queue, view, hookVars,
          outcome, detaching, historyVars>>

MessageEvent == [type : {"MESSAGE"}, id : Messages]
FinishedEvent == [type : {"RUN_FINISHED"}, interrupts : SUBSET Interrupts]
Event == MessageEvent \cup FinishedEvent

ResumeEntries == [Interrupts -> {"none", "resolved", "cancelled"}]

TypeOK ==
  /\ isRunning \in BOOLEAN
  /\ messages \subseteq Messages
  /\ pendingInterrupts \subseteq Interrupts
  /\ activeRun \in Calls \cup {None}
  /\ stage \in [Calls -> {"idle", "refused", "initializing", "streaming", "failing",
                          "finalized", "settled"}]
  /\ kind \in [Calls -> {"run", "connect"}]
  /\ before \in [Calls -> SUBSET Messages]
  /\ resume \in [Calls -> ResumeEntries]
  /\ source \in [Calls -> {"none", "open", "complete", "failed", "aborted", "detached"}]
  /\ queue \in [Calls -> Seq(Event)]
  /\ view \in [Calls -> SUBSET Messages]
  /\ handed \in [Calls -> SUBSET Messages]
  /\ finalizer \in [Calls -> {"none", "running", "done"}]
  /\ outcome \in [Calls -> {"none", "resolved", "rejected"}]
  /\ detaching \in [Detachers -> Calls \cup {"idle", "returned"}]
  /\ contributed \in [Calls -> SUBSET Messages]
  /\ reporter \in [Interrupts -> Calls \cup {None}]

Init ==
  /\ isRunning = FALSE /\ messages = {} /\ pendingInterrupts = {} /\ activeRun = None
  /\ stage = [c \in Calls |-> "idle"]
  /\ kind = [c \in Calls |-> "run"]
  /\ before = [c \in Calls |-> {}]
  /\ resume = [c \in Calls |-> [i \in Interrupts |-> "none"]]
  /\ source = [c \in Calls |-> "none"]
  /\ queue = [c \in Calls |-> << >>]
  /\ view = [c \in Calls |-> {}]
  /\ handed = [c \in Calls |-> {}]
  /\ finalizer = [c \in Calls |-> "none"]
  /\ outcome = [c \in Calls |-> "none"]
  /\ detaching = [d \in Detachers |-> "idle"]
  /\ contributed = [c \in Calls |-> {}]
  /\ reporter = [i \in Interrupts |-> None]

-----------------------------------------------------------------------------
InFlight == {c \in Calls : stage[c] \notin {"idle", "settled"}}

(* Mutant: coverage of the pending interrupts is not asked for.            *)
AnswersExpiredOnly(r, expired) ==
  \A i \in pendingInterrupts \cap expired : r[i] = "cancelled"

(* onInitialize: every pending interrupt is answered, and an expired one   *)
(* can only be cancelled.                                                  *)
Answers(r, expired) ==
  \A i \in pendingInterrupts :
    r[i] # "none" /\ (i \in expired => r[i] = "cancelled")

(* What a hook that was handed the conversation h may make of messages:    *)
(* nothing, or h with one message more, whatever happened in between.      *)
HookResults(h) ==
  {[messages |-> messages, added |-> {}]}
    \cup {[messages |-> h \cup {m}, added |-> {m}] : m \in Messages}

(* The end of onInitialize: its hooks are through, with result h.          *)
Initialized(c, h) ==
  /\ stage[c] = "initializing"
  /\ messages' = h.messages

(* The synchronous part of runAgent, up to the hooks of onInitialize;      *)
(* expired are the interrupts whose expiresAt the clock has passed.        *)
RunAgent(c, r, expired) ==
  /\ stage[c] = "idle" /\ Cardinality(InFlight) < MaxInFlight
  /\ isRunning' = TRUE
  /\ before' = [before EXCEPT ![c] = messages]
  /\ resume' = [resume EXCEPT ![c] = r]
  /\ handed' = [handed EXCEPT ![c] = messages]
  /\ stage' = [stage EXCEPT ![c] = IF Answers(r, expired) THEN "initializing" ELSE "refused"]
  /\ UNCHANGED <<messages, pendingInterrupts, activeRun, kind, source, queue, view,
                 finalizer, outcome, detaching, historyVars>>

(* connectAgent: its input is not in runInputs, so interrupts do not stop  *)
(* it.                                                                     *)
ConnectAgent(c) ==
  /\ stage[c] = "idle" /\ Cardinality(InFlight) < MaxInFlight
  /\ isRunning' = TRUE
  /\ before' = [before EXCEPT ![c] = messages]
  /\ kind' = [kind EXCEPT ![c] = "connect"]
  /\ handed' = [handed EXCEPT ![c] = messages]
  /\ stage' = [stage EXCEPT ![c] = "initializing"]
  /\ UNCHANGED <<messages, pendingInterrupts, activeRun, resume, source, queue, view,
                 finalizer, outcome, detaching, historyVars>>

(* Mutant: no finally clause.                                              *)
RefusedKeepsFlag(c) ==
  /\ stage[c] = "refused"
  /\ stage' = [stage EXCEPT ![c] = "settled"]
  /\ UNCHANGED <<agentVars, kind, before, resume, source, queue, view,
                 hookVars, outcome, detaching, historyVars>>

(* onInitialize threw: the call rejects.                                   *)
Refused(c) ==
  /\ stage[c] = "refused"
  /\ stage' = [stage EXCEPT ![c] = "settled"]
  /\ isRunning' = FALSE
  /\ UNCHANGED <<messages, pendingInterrupts, activeRun, kind, before, resume,
                 source, queue, view, hookVars, outcome, detaching, historyVars>>

(* Mutant: the reducer copies the conversation as it was before the hooks. *)
StartFromInput(c) ==
  /\ \E h \in HookResults(handed[c]) :
       /\ Initialized(c, h)
       /\ contributed' = [contributed EXCEPT ![c] = h.added]
  /\ view' = [view EXCEPT ![c] = before[c]]
  /\ activeRun' = c
  /\ stage' = [stage EXCEPT ![c] = "streaming"]
  /\ source' = [source EXCEPT ![c] = "open"]
  /\ handed' = [handed EXCEPT ![c] = {}]
  /\ UNCHANGED <<isRunning, pendingInterrupts, kind, before, resume, queue, finalizer,
                 outcome, detaching, reporter>>

(* onRunInitialized's hooks are through: the pipeline is put together and  *)
(* subscribed to, with a copy of the conversation for the reducer.         *)
Start(c) ==
  /\ \E h \in HookResults(handed[c]) :
       /\ Initialized(c, h)
       /\ view' = [view EXCEPT ![c] = h.messages]
       /\ contributed' = [contributed EXCEPT ![c] = h.added]
  /\ activeRun' = c
  /\ stage' = [stage EXCEPT ![c] = "streaming"]
  /\ source' = [source EXCEPT ![c] = "open"]
  /\ handed' = [handed EXCEPT ![c] = {}]
  /\ UNCHANGED <<isRunning, pendingInterrupts, kind, before, resume, queue, finalizer,
                 outcome, detaching, reporter>>

(* run() throws while the pipeline is put together, ahead of its           *)
(* catchError and finalize.  connectAgent defers connect(), so there the   *)
(* throw becomes an error of the source.                                   *)
StartThrows(c) ==
  /\ StartupMayThrow
  /\ kind[c] = "run"
  /\ \E h \in HookResults(handed[c]) : Initialized(c, h)
  /\ activeRun' = c
  /\ isRunning' = FALSE
  /\ stage' = [stage EXCEPT ![c] = "settled"]
  /\ UNCHANGED <<pendingInterrupts, kind, before, resume, source, queue, view,
                 hookVars, outcome, detaching, historyVars>>

-----------------------------------------------------------------------------
(* The source, as the verifier lets its events through; takeUntil has cut  *)
(* it off once the run is detached.                                        *)
EventArrives(c, e) ==
  /\ source[c] = "open"
  /\ Len(queue[c]) < MaxQueued
  /\ queue' = [queue EXCEPT ![c] = Append(@, e)]
  /\ UNCHANGED <<agentVars, stage, kind, before, resume, source, view, hookVars,
                 outcome, detaching, historyVars>>

(* It completes, errors, or is aborted.  A connect() that is not           *)
(* implemented is caught and counts as an empty stream.                    *)
SourceEnds(c, how) ==
  /\ source[c] = "open"
  /\ source' = [source EXCEPT ![c] = how]
  /\ UNCHANGED <<agentVars, stage, kind, before, resume, queue, view, hookVars,
                 outcome, detaching, historyVars>>

(* One turn of concatMap, subscribers and processApplyEvents included.     *)
ApplyEvent(c) ==
  /\ stage[c] = "streaming" /\ queue[c] # << >>
  /\ LET e == Head(queue[c]) IN
     IF e.type = "MESSAGE"
       THEN /\ view' = [view EXCEPT ![c] = @ \cup {e.id}]
            /\ messages' = view'[c]
            /\ contributed' = [contributed EXCEPT ![c] = @ \cup {e.id}]
            /\ UNCHANGED <<pendingInterrupts, reporter>>
       ELSE /\ pendingInterrupts' = e.interrupts
            /\ reporter' = [i \in Interrupts |->
                              IF i \in e.interrupts THEN c ELSE reporter[i]]
            /\ UNCHANGED <<view, messages, contributed>>
  /\ queue' = [queue EXCEPT ![c] = Tail(@)]
  /\ UNCHANGED <<isRunning, activeRun, stage, kind, before, resume, source, hookVars,
                 outcome, detaching>>

(* finalize: the hooks of onRunFinalized are set off and not waited for.   *)
Finalize(c, how) ==
  /\ isRunning' = FALSE
  /\ stage' = [stage EXCEPT ![c] = "finalized"]
  /\ outcome' = [outcome EXCEPT ![c] = how]
  /\ finalizer' = [finalizer EXCEPT ![c] = "running"]
  /\ handed' = [handed EXCEPT ![c] = messages']
  /\ activeRun' = None

(* The source is done, and so is all that it sent.                         *)
Drained(c) ==
  /\ stage[c] = "streaming" /\ queue[c] = << >>
  /\ source[c] \in {"complete", "detached"}
  /\ UNCHANGED messages
  /\ Finalize(c, "resolved")
  /\ UNCHANGED <<pendingInterrupts, kind, before, resume, source, queue, view,
                 detaching, historyVars>>

(* Mutant: the error overtakes the queue.                                  *)
ErrorOvertakes(c) ==
  /\ stage[c] = "streaming"
  /\ source[c] \in {"failed", "aborted"}
  /\ isRunning' = FALSE
  /\ stage' = [stage EXCEPT ![c] = "failing"]
  /\ handed' = [handed EXCEPT ![c] = messages]
  /\ UNCHANGED <<messages, pendingInterrupts, activeRun, kind, before, resume, source,
                 queue, view, finalizer, outcome, detaching, historyVars>>

(* applyBeforeSourceError rethrows, catchError calls the hooks of          *)
(* onRunFailed.                                                            *)
Errored(c) ==
  /\ stage[c] = "streaming" /\ queue[c] = << >>
  /\ source[c] \in {"failed", "aborted"}
  /\ isRunning' = FALSE
  /\ stage' = [stage EXCEPT ![c] = "failing"]
  /\ handed' = [handed EXCEPT ![c] = messages]
  /\ UNCHANGED <<messages, pendingInterrupts, activeRun, kind, before, resume, source,
                 queue, view, finalizer, outcome, detaching, historyVars>>

(* onError's hooks are through.  An abort is no failure of the call, and a *)
(* subscriber may stop the propagation of any error.                       *)
FailureHandled(c) ==
  /\ stage[c] = "failing"
  /\ \E h \in HookResults(handed[c]) :
       /\ messages' = h.messages
       /\ contributed' = [contributed EXCEPT ![c] = @ \cup h.added]
  /\ \E how \in {"resolved", "rejected"} :
       /\ source[c] = "aborted" => how = "resolved"
       /\ Finalize(c, how)
  /\ UNCHANGED <<pendingInterrupts, kind, before, resume, source, queue, view,
                 detaching, reporter>>

(* What a call that resolves returns: this.messages, without those that    *)
(* were there when it was made.                                            *)
NewMessages(c) == messages \ before[c]

(* The call goes on after lastValueFrom: it returns NewMessages or         *)
(* rejects, its finally clause runs and its locals are gone.  This turn    *)
(* was queued before that of any hook of onRunFinalized and of any waiting *)
(* detachActiveRun.                                                        *)
Settle(c) ==
  /\ stage[c] = "finalized"
  /\ isRunning' = FALSE
  /\ stage' = [stage EXCEPT ![c] = "settled"]
  /\ before' = [before EXCEPT ![c] = {}]
  /\ resume' = [resume EXCEPT ![c] = [i \in Interrupts |-> "none"]]
  /\ source' = [source EXCEPT ![c] = "none"]
  /\ view' = [view EXCEPT ![c] = {}]
  /\ outcome' = [outcome EXCEPT ![c] = "none"]
  /\ contributed' = [contributed EXCEPT ![c] = {}]
  /\ UNCHANGED <<messages, pendingInterrupts, activeRun, kind, queue, hookVars,
                 detaching, reporter>>

(* Mutant: the fields of the active run are cleared with the last hook.    *)
FinalizerClearsActiveRun(c) ==
  /\ finalizer[c] = "running" /\ stage[c] = "settled"
  /\ \E h \in HookResults(handed[c]) :
       /\ h.added # {} => LateEdits
       /\ messages' = h.messages
  /\ finalizer' = [finalizer EXCEPT ![c] = "done"]
  /\ activeRun' = None
  /\ UNCHANGED <<isRunning, pendingInterrupts, stage, kind, before, resume, source,
                 queue, view, handed, outcome, detaching, historyVars>>

(* The hooks of onRunFinalized are through, some time after the call.      *)
FinalizerReturns(c) ==
  /\ finalizer[c] = "running" /\ stage[c] = "settled"
  /\ \E h \in HookResults(handed[c]) :
       /\ h.added # {} => LateEdits
       /\ messages' = h.messages
  /\ finalizer' = [finalizer EXCEPT ![c] = "done"]
  /\ handed' = [handed EXCEPT ![c] = {}]
  /\ UNCHANGED <<isRunning, pendingInterrupts, activeRun, stage, kind, before, resume,
                 source, queue, view, outcome, detaching, historyVars>>

-----------------------------------------------------------------------------
(* Mutant: the subject is completed without having emitted.                *)
DetachCompletesOnly(d) ==
  /\ detaching[d] = "idle"
  /\ detaching' = [detaching EXCEPT ![d] = IF activeRun = None THEN "returned" ELSE activeRun]
  /\ UNCHANGED <<agentVars, source, stage, kind, before, resume, queue, view, hookVars,
                 outcome, historyVars>>

(* Mutant: no early return when nothing is active.                         *)
DetachUnguarded(d) ==
  /\ detaching[d] = "idle"
  /\ detaching' = [detaching EXCEPT ![d] = activeRun]
  /\ source' = IF activeRun = None THEN source
               ELSE [source EXCEPT ![activeRun] = IF @ = "open" THEN "detached" ELSE @]
  /\ UNCHANGED <<agentVars, stage, kind, before, resume, queue, view, hookVars, outcome,
                 historyVars>>

(* detachActiveRun: takes the active run's source away and waits for its   *)
(* completion promise, which finalize resolves.                            *)
DetachActiveRun(d) ==
  /\ detaching[d] = "idle"
  /\ IF activeRun = None
       THEN /\ detaching' = [detaching EXCEPT ![d] = "returned"]
            /\ UNCHANGED source
       ELSE /\ detaching' = [detaching EXCEPT ![d] = activeRun]
            /\ source' = [source EXCEPT ![activeRun] = IF @ = "open" THEN "detached" ELSE @]
  /\ UNCHANGED <<agentVars, stage, kind, before, resume, queue, view, hookVars, outcome,
                 historyVars>>

Detached(d) ==
  /\ detaching[d] \in Calls
  /\ stage[detaching[d]] = "settled" /\ finalizer[detaching[d]] # "none"
  /\ detaching' = [detaching EXCEPT ![d] = "returned"]
  /\ UNCHANGED <<agentVars, stage, kind, before, resume, source, queue, view, hookVars,
                 outcome, historyVars>>

(* addMessage, addMessages, setMessages.  The code asks for no run to be   *)
(* over; an application that makes one call at a time waits for it.        *)
EditConversation(S) ==
  /\ MaxInFlight > 1 \/ InFlight = {}
  /\ \/ messages' = messages \cup S
     \/ messages' = S
  /\ UNCHANGED <<isRunning, pendingInterrupts, activeRun, stage, kind, before, resume,
                 source, queue, view, hookVars, outcome, detaching, historyVars>>

(* The turns that the microtask queue owes: promises that are settled, or  *)
(* that subscribers settle.                                                *)
Turn(c) ==
  \/ Refused(c) \/ Start(c) \/ ApplyEvent(c) \/ Drained(c) \/ Errored(c)
  \/ FailureHandled(c) \/ Settle(c) \/ FinalizerReturns(c)

Next ==
  \/ \E c \in Calls : Turn(c) \/ StartThrows(c) \/ ConnectAgent(c)
  \/ \E c \in Calls, r \in ResumeEntries, expired \in SUBSET Interrupts :
       RunAgent(c, r, expired)
  \/ \E c \in Calls, e \in Event : EventArrives(c, e)
  \/ \E c \in Calls, how \in {"complete", "failed", "aborted"} : SourceEnds(c, how)
  \/ \E d \in Detachers : DetachActiveRun(d) \/ Detached(d)
  \/ \E S \in SUBSET Messages : EditConversation(S)

Spec == Init /\ [][Next]_vars

(* Subscribers return and queued turns are taken.  Nothing is assumed of   *)
(* the source, which may hang, or of the application.                      *)
FairSpec ==
  /\ Spec
  /\ \A c \in Calls : WF_vars(Turn(c))
  /\ \A d \in Detachers : WF_vars(Detached(d))
-----------------------------------------------------------------------------
(* One call at a time.                                                     *)

(* isRunning can be relied on: it is up from the call to the end of its    *)
(* stream, and down again once no call is unsettled, however calls end.    *)
RunningFlag ==
  /\ (\E c \in Calls : stage[c] \in {"initializing", "streaming"}) => isRunning
  /\ isRunning => InFlight # {}

(* A run can be detached for as long as it streams: nothing that an        *)
(* earlier call left behind, its late hooks included, takes that away.     *)
RunsCanBeDetached ==
  \A c \in Calls : stage[c] \in {"streaming", "failing"} => activeRun = c

(* What runAgent returns as newMessages is what the run added to the       *)
(* conversation, and all of it.                                            *)
ResultHasTheRunsMessages ==
  [][\A c \in Calls :
       Settle(c) /\ outcome[c] = "resolved"
         => NewMessages(c) = contributed[c] \ before[c]]_vars

(* No message that the run added during it is missing from newMessages.    *)
ResultMissesNothing ==
  [][\A c \in Calls :
       Settle(c) /\ outcome[c] = "resolved"
         => contributed[c] \ before[c] \subseteq NewMessages(c)]_vars

(* An interrupt that was reported stays pending until a run that answers   *)
(* it finishes; a failed or detached run does not use the answer up.  A    *)
(* stream may also revise what it reported itself, and a connection        *)
(* replays the thread.                                                     *)
InterruptsNotDropped ==
  [][\A i \in pendingInterrupts \ pendingInterrupts' :
       \E c \in Calls :
         /\ ApplyEvent(c)
         /\ resume[c][i] # "none" \/ reporter[i] = c \/ kind[c] = "connect"]_vars

(* Overlapping calls too.                                                  *)

(* A call never ends, nor are its subscribers told that it failed, while   *)
(* an event it received waits to be applied: the error of a source is held *)
(* back, and a detached run applies what it had received.                  *)
ReceivedIsApplied ==
  \A c \in Calls :
    stage[c] \in {"failing", "finalized", "settled"}
      => queue[c] = << >>

(* detachActiveRun returns when it caught a run that was subscribed to,    *)
(* even if the source hangs and another call has taken the fields over.    *)
DetachReturns ==
  \A d \in Detachers, c \in Calls :
    (detaching[d] = c /\ stage[c] \in {"streaming", "failing", "finalized"})
      ~> detaching[d] = "returned"

(* onRunFinalized is called for every run that began, regardless of        *)
(* success or failure.                                                     *)
FinalizedRegardless ==
  \A c \in Calls : stage[c] = "settled" /\ activeRun = c => finalizer[c] # "none"
=============================================================================
