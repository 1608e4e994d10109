# A TLA+ verification of the AG-UI client and its TypeScript neighbours

AG-UI is an event protocol between agents and applications. A producer (an agent
framework, a service behind HTTP, an in-process `AbstractAgent`) sends one stream
of typed events per run; the client rebuilds messages, tool calls, reasoning,
activities and state from it and reports to subscribers. The repository holds the
protocol, SDKs in several languages, adapters for agent frameworks and a demo.
This project is about the TypeScript client, `sdks/typescript/packages/client/src`
(file names below are relative to it unless they begin with another directory),
which is where the protocol's rules are enforced and where the concurrency is; the
throttling middleware that can be put in front of it; and, of the producers, the bridge
to Google's ADK (`integrations/adk-middleware/js`), whose runs share persistent
sessions.

## 1. Inventory

Every run goes through one pipeline of RxJS operators, built in `runAgent`
(`agent/agent.ts`):

    run() or connect()  ->  enforce  ->  compatibility, middlewares
        ->  transformChunks  ->  verifyEvents  ->  takeUntil(detach)
        ->  apply (reducer + subscribers)  ->  processApplyEvents  ->  finalize

Up to `verifyEvents` the operators are synchronous. From `apply` on, each event
is a turn of `concatMap` that awaits the subscribers, so events queue up.

| Component | State it keeps | Operations | Hard about it | What makes it correct |
|---|---|---|---|---|
| Event verifier, `verify/verify.ts` | sets of open messages, tool calls, reasoning spans and messages, steps, subagents; terminated subagents; four owner maps; run flags | one case per event type, reset at RUN_STARTED | several producers share ids; many runs on one stream; snapshots rewrite owners | nothing stays open past RUN_FINISHED; attribution is checked against a record that exists and does not drift; runs are independent |
| Chunk expansion, `chunks/transform.ts` | one pending stream per lane (producer) | resolve the lane of a chunk, open, continue, end; end on other events | continuations carry neither id nor tag; lanes run concurrently; agrees with the verifier only implicitly | lanes do not mix; every synthesized end is due, and comes in time |
| Agent lifecycle, `agent/agent.ts`, `agent/subscriber.ts` | `isRunning`, `messages`, `pendingInterrupts`, `activeRunDetach$` and its promise; locals of each call | `runAgent`, `connectAgent`, `detachActiveRun`, `addMessage(s)`, `setMessages`, hooks | async hooks, late finalizers, hanging sources, overlapping calls, startup errors | events received are applied; results are complete; detaching returns; interrupts are answered |
| Reducer, `apply/default.ts` | its copies of messages and state | one case per event type | looks up, awaits, writes | the conversation equals what the stream describes |
| Interrupts, `interrupts/index.ts` | none | `isInterruptExpired`, `buildResumeArray` | the clock | every pending interrupt is answered once |
| Compaction, `compact/compact.ts` | open streams while it scans | `compactEvents` | moves events | replaying the result gives the same conversation |
| HTTP transport, `run/http-request.ts`, `transform/*.ts`, `agent/http.ts` | reader, parser buffer, abort controller | headers, data, end, abort, teardown | abort, parser failure and end race | one terminal signal, reader released |
| Event throttling, `middlewares/event-throttle-middleware` | buffer, timer, last snapshot | flush, coalesce, teardown | the timer races immediate events and the end | order kept, nothing lost or doubled |
| Tool-call filter, `middleware/filter-tool-calls.ts` | blocked ids | filter | ids reused across runs | a blocked call is blocked whole |
| Compatibility, enforcement, activity history, core types, encoders | little or none | rewrite one event | - | per-event conversions |
| ADK bridge, `integrations/adk-middleware/js/src` | `activeThreads` and tool bindings, shared by clones; the session of each thread, persistent | `run`, `abortRun`, unsubscribe; per run: resolve the user, claim the thread, read the session, append the reply, drive ADK, append the marker, give back | aborts at every await, doubled and retried resumes, crashes between two writes to the session | one run per thread; what the user said reaches ADK once; every run ends and gives back what it holds |
| Bridges (MCP, A2A, A2UI), other SDKs, other adapters, demo | - | - | protocols outside this repository | - |

`PROJECT.json` lists each component with its status, and under `hazards` the
places, line by line, that tests hardly reach.

## 2. Plan

The order in which the modules were written, the most important behaviour first:

1. `AGUIEvents`, `EventVerifier`, `RunProtocol`: the rules of the stream, and proofs.
2. `ChunkTransform`, and `ChunkPipeline`, which composes it with the verifier.
3. `AgentRun`: the life of calls on one agent.
4. `Reducer` and `CompactEvents`, and `Conversation`, which composes both with the
   verifier.
5. `EventThrottle`, `HttpTransport`, each with proofs.
6. `ADKRun`, with proofs: a producer, with a crash model.
7. Proofs for `AgentRun` and `ChunkPipeline`, and of what the throttle, the transport and
   the ADK bridge do to the contents of a stream.

8. Proofs for `Conversation`: calls and results, owners, pending calls.

What is worth doing next:

1. A proof of `ReplayAgrees`.
2. Two requests that share one `HttpAgent`, `AgentRun` composed with `HttpTransport`.
3. The tool-call filter, and the ADK bridge's translator and subagent tracker.

## 3. Modules

| Module | Role |
|---|---|
| `AGUIEvents` | the events, as far as the client tells them apart |
| `EventVerifier` | `verifyEvents`, its properties, and its mapping to `RunProtocol` |
| `RunProtocol` | abstract: runs that open and close things and finish with all closed |
| `EventVerifier_proofs` | theorems about the verifier |
| `ChunkTransform` | `transformChunks` |
| `ChunkPipeline`, `ChunkPipeline_proofs` | `transformChunks` piped into `verifyEvents` |
| `AgentRun`, `AgentRun_proofs` | `AbstractAgent`: runs, connections, detaching, hooks, interrupts |
| `Reducer` | `defaultApplyEvents`, as functions on a conversation |
| `CompactEvents` | `compactEvents`, as functions that take one event at a time |
| `Conversation`, `Conversation_proofs` | `verifyEvents` piped into the reducer, with the stream compacted and replayed beside it |
| `EventThrottle`, `EventThrottle_proofs` | `EventThrottleMiddleware` |
| `HttpTransport`, `HttpTransport_proofs` | one request of `HttpAgent` and its parsers |
| `ADKRun`, `ADKRun_proofs` | runs of `ADKJSAgent` on shared threads and sessions |
| `NaturalLemmas` | induction over the naturals, and recursive functions, for the proofs |
| `MC...` | constants for TLC |

### 3.1 Events

The records follow the generated types of `packages/core/src/generated/types.ts`; each
carries the fields that some stage of the client reads. Ids are opaque; payloads are
left out (`Conversation` adds those that the reducer needs). An optional field that is not there is
`Absent` (JavaScript's `undefined`); `Null` is kept apart from it, because
`verify.ts` and `transform.ts` treat `subagentRunId: null` explicitly and nested
nulls are an error. Two conditions on payloads are one Boolean each: `wellFormed`
stands for the checks on the fields of subagent events and of the interrupts of
RUN_FINISHED, which lead to the same refusal whichever field is wrong.
`Histories` are the message lists that snapshots and input echoes may carry.
An echo carries the application's own list, so the same ids may occur there.

### 3.2 `EventVerifier`

A variable per map or set of the closure, under its name in the code. The four
owner maps are one function of the kind; `Map.get` of a missing id is `Unowned`,
which is not the same as being owned by the parent (`Absent`): `subagentTagError`
checks nothing for the former. `RunAllows` is the part before the switch,
`CaseAllows` the conditions of the switch, and there is an action per case (content
events, which change nothing, share `PassThrough`). A refused event errors the
observable (`Reject`), after which the closure sees nothing. What steps,
subagents and open messages leave behind on RUN_ERROR stays in the maps until
RUN_STARTED resets them, as in the code; the reset is conditional on an earlier
event having ended a run, exactly as `verify.ts` has it, and that the other case
has nothing to reset is proved, not assumed (`FlagsAgree`).

`RunProtocol` is what a consumer relies on: a phase and a set of open things.
The mapping collects all six kinds of open entities in `openEntities` and derives
the phase from the flags.

### 3.3 `ChunkTransform` and `ChunkPipeline`

The code has three arms, for text, tool-call and reasoning chunks, which differ in
names and in what may be repeated; the model has one set of definitions over the
stream's kind. `lanes` is a sequence because `closeAllLanes` ends streams in the
order of the `Map`; `Ends(l)` and `Without(l)` are what `closeLane` returns and leaves,
`AllEnds` what `closeAllLanes` returns. `ResolveLane` returns the set of lanes that a chunk may
belong to and is empty where `resolveLane` throws. What the handler returns for
one source event is `emitted`; `ChunkPipeline` hands these events to the verifier
one at a time (`Deliver`) before the expansion sees the next source event, since
`mergeMap` over an array is synchronous. A refusal (`Break`) unsubscribes the
source, which runs the expansion's `finalize`. The carrying of fields that the SDK
does not know, and texts of errors, are left out.

### 3.4 `AgentRun`

A step is what JavaScript runs between two awaits. A call goes through `stage`
from `initializing` (onInitialize awaits its hooks) over `streaming`, `failing`
(catchError awaits onRunFailed's hooks) and `finalized` to `settled`; `refused` is
the throw of onInitialize for unanswered interrupts.

* The conversation is the set of its message ids. The state document is written by
  the same statements as the messages and is left out.
* A hook is handed a copy of the conversation and may return it with one message
  more; whatever happened in between is overwritten, as
  `this.messages = mutation.messages` does (`HookResults`).
* `activeRun` is the call whose `activeRunDetach$` and completion promise the
  fields hold. `Finalize` clears them whoever set them, as the code does.
* `SourceEnds` and `Drained` are two steps although an idle `concatMap` passes a
  completion on at once. The model has more interleavings than the code.
* `Settle` comes before `FinalizerReturns` and `Detached` of the same call: the
  continuation of `lastValueFrom` is queued when the stream completes, in `finalize`
  or before, and the others only afterwards and behind further awaits.
* `StartThrows`: the argument of `pipeline(of(null))` calls `run()` before there is
  a subscription. It fires only in calls of `runAgent`; `connectAgent` wraps
  `connect()` in `defer`.
* A hook that throws counts as one that returns nothing, which is what
  `runSubscribersWithMutation` makes of it outside tests. The notifications are called
  without such protection, `onMessagesChanged` and `onStateChanged` inside a `tap`,
  `onNewMessage` and `onNewToolCall` inside the reducer (`apply/default.ts:369`, `:591`,
  `:663`); they are assumed not to throw, and `ReceivedIsApplied` is claimed under that assumption only.
* `EventArrives` stands for the whole pipeline before `apply`.
* What a call adds, and who reported an interrupt last, are history variables.

Switches say what an instance explores: `MaxInFlight` calls at once, `LateEdits`
(onRunFinalized hooks that return messages), `StartupMayThrow`.

### 3.5 `Reducer`, `CompactEvents` and `Conversation`

`concatMap` applies an event only when the one before is done, so one event is one
step, and the awaits inside a handler matter only through what the subscribers
answer. `Reduce(conv, e, hook)` is a turn: `hook` is stopPropagation from `onEvent`
("veto") or from the event's own hook ("stop"), or another list of messages ("drop",
the list without its first message). A handler that looks its target up before
the subscribers run keeps a reference into the old list; `Reachable` says when a write
through it still counts. `ACTIVITY_SNAPSHOT` and `ACTIVITY_DELTA` keep an *index*
instead, and write to the new list at that index (`ApplyActivitySnapshot`).
Contents are sequences of deltas, metadata is one key, the state document is a set of
members that patches add or remove; removing a member that is missing makes
`applyPatch` throw and changes nothing. The sequence that `Imported` gives a history
message's calls, and `activityTypes` on snapshots, are simplified: no property depends
on the first, and the second is taken as absent. A tool message carries the call that it
answers (`answers`), also in a history; the loops over lists (`ElementsAt`, `AddEcho`) are
recursive functions.

`compactEvents` is a loop over an array. `Take` is one turn of it and answers what
the turn appended, so that the compacted list can be replayed while it grows;
`Remaining` is what follows the loop. `Conversation.Receive` gives an event that the
verifier accepts to the reducer and to the compactor, and what the compactor emits
to a second reducer. A producer sends from one of four repertoires (an initial choice):
text and activities; text and tool calls; reasoning, tool calls and snapshots; text,
state and errors. `HasShape` is what the event schemas require of the fields that the
reducer reads, and every repertoire is assumed to keep it (`RepertoiresType`).
`IdsAreUnique` is the producer's side of "Message ids are unique across the conversation"
(`apply/default.ts:239` and `:1248`): what a repertoire's events may make of one id is one
message, with one role and answering one call. Producers may contradict each other: the
openers of a text message, of a reasoning span and of the message in it come with and without
a tag, and a call is started inside a message that a text opener names too. The four
repertoires have unique ids, which TLC evaluates; the proofs need it (section 5).

### 3.6 `EventThrottle`

A variable per `let` of `run()`. `lastFlushTime` is represented by the time `elapsed`
since then, which is enough because the code only ever subtracts it from `Date.now()`;
it stops at the interval, beyond which nothing is different. `Merge` is one turn of the
loop in `flush` that coalesces a batch. `timer` is the time left.
A due timer need not fire at once, so it races arrivals, the end of the source and
unsubscription. With `IntervalMs` the size threshold also applies, as in the code.

### 3.7 `HttpTransport`

The body is a sequence of frames of five kinds, each arriving in two halves; a read
brings any number of halves, and `Done` may come anywhere, a connection that was cut.
Delivery through the subjects is synchronous, so a read with everything it sets off
(parsing, failing, releasing the source, cancelling the reader) is one step. The two
parsers differ where the code does: what is too large, what an unfinished tail means,
and what an abort is turned into. The binary parser judges a frame by its declared length.
The text parser judges the tail that a read leaves (`transform/sse.ts:62`): a large frame
that one read brings whole is emitted; one that is cut fails if its tail is over the limit and
is emitted later if it was still below, which `ParseRead` leaves open. One request is modelled.

### 3.8 `ADKRun`

A step is what happens between two awaits of `execute`: `resolving` (the user id),
`opening` (the session), `replying` (the reply of a resume is appended), `streaming`
(ADK runs), `sealing` (the session is read again), `marking` (the marker is appended),
`closing` (`finalize` has emitted RUN_FINISHED, `execute` has yet to resume). `Finally` is the
`finally` block, after which `run()` drops the run's controller (`Dismiss`). A run that ends
well leaves in two steps, `Finish` and `GiveBack`, because `await this.finalize` lies between;
one that replays, fails or is cancelled emits its event and leaves in one (`End`). `Catch` is
the `catch` block, which tells an abort as cancelled unless the error is the bridge's own.
`aborted` says that the run's controller is in `activeControllers` and aborted. The clones of
an agent share `activeThreads`, so any two runs may be of different clones. A session
is a sequence of entries: messages, requests, replies, answers, markers. `Feed`, `Say`
and `Ask` are ADK at work, `Crash` the death of the process, both external: a crash
keeps the sessions and nothing else. Not distinguished: several users, preloaded history,
confirmations and credentials, subagents. A resume is refused when its payload is
malformed, brings new messages or names requests that ADK never made; such inputs are
left out, since they change nothing. Runs and requests are numbered (`Numbered`) and come in
that order, which names them and restricts nothing.

## 4. Runs

`CHECK_DEADLOCK FALSE` is set throughout: a stream that failed, a source that
completed and an application that makes no more calls are legitimate ends.

| Run | Instance | Shows |
|---|---|---|
| `verifier_all` | every event type, 1 id, 1 subagent, 1 step, 4 histories | all verifier properties and the refinement of `RunProtocol`, over any number of runs on a stream |
| `chunks_all` | every kind of chunk, 1 id, 2 subagents and the parent, run and subagent events, snapshots | lanes do not mix, damage each other or drift from the verifier; streams end with their subagent |
| `chunks_inherited_owner` | as before | violation, finding 1 |
| `agent_sequential` | 2 calls one after the other, 1 detacher, 2 messages, 1 interrupt, 2 queued events | detachable while streaming; received is applied; `newMessages` is exact; `isRunning` is reliable; interrupts are not dropped |
| `agent_overlapping` | 2 calls at once, no messages, fairness | received is applied; a detacher returns |
| `agent_late_hook` | as `agent_sequential`, with `LateEdits` | violation, finding 2 |
| `agent_startup_failure` | as `agent_sequential` | violation, finding 3 |
| `conversation_replay` | 4 repertoires, 6 ids, 1 subagent, streams of 6 events, 1 event stopped by a subscriber | reducer and verifier agree; calls, results and pending calls are right; compaction is faithful |
| `conversation_hooks` | text and activities, 6 events, 1 event whose hook returns another list | violation, finding 4 |
| `throttle_window` | window 2, threshold 3, streams of 4 out of 9 events | order, owners and metadata are kept; what is held is timed, short and delivered |
| `http_transport` | bodies of up to 4 frames, reads of up to 4 halves, both parsers | events arrive once and in order; the reader is released; an abort ends the stream |
| `adk_thread` | 3 runs on 1 thread, 1 message, 2 requests, 2 answers | one run per thread; answers settle once, through retries and crashes; one outcome per client, the same for a retry; aborted runs end |

### Properties

Of the verifier:

* `OpenHasOwner`: an open entity has an owner on record, so the attribution check
  of its continuations is never vacuous.
* `FinishedMeansClosed`: after RUN_FINISHED nothing is open, and stays so.
* `NoSubagentRestarts`: within a run, a subagent that has terminated stays so and no
  subagent is lost.
* `FreshRun`: a run inherits nothing from earlier runs on the stream.
* `OwnersSettled`: a recorded owner moves only with an event that replaces the
  entity (snapshot, tool result, replacing activity snapshot).
* `ImplementsRunProtocol`: refinement.

Of chunk expansion and verifier together:

* `LanesDisjoint`: no lane assembles two streams, no stream is in two lanes.
* `LanesAreTheOpenStreams`: when streams are sent as chunks only, lanes and open
  sets agree between source events.
* `ContinuationsNeverRefused`: what breaks the pipeline is never a synthesized
  content or end event.
* `StreamsSurviveOtherLanes`: a producer's event ends only its own stream.
* `StreamsEndWithTheirSubagent`: a subagent's stream has ended at its terminal event.

Of the agent:

* `RunsCanBeDetached`, `RunningFlag`, `ResultHasTheRunsMessages`,
  `InterruptsNotDropped`: for an application that makes one call at a time. With
  overlapping calls the first to end clears the fields and copies that the other
  uses; the repository does not promise otherwise, so nothing is claimed there.
* `ReceivedIsApplied`, `DetachReturns`: overlapping calls too.

Of the conversation:

* `OwnersAgree`: the owner that the application sees on a message that an event of the run
  opened by itself or restated is the one that the verifier checks continuations against.
  The one exception it names is an untagged message in a reasoning span that a subagent
  opened. It does not speak of messages that TOOL_CALL_START made, even if
  TEXT_MESSAGE_START opens them later (for both see section 6), nor of those of an earlier
  run; an id whose event a subscriber stopped, or whose message a snapshot removed, is excluded
  too; and of several results sent under one id, the verifier keeps the owner of the last.
* `CallsNotDoubled`, `ResultsFollowTheirCalls`: what the next request to a model
  provider would be refused for.
* `PendingAreUnanswered`: the tally behind RUN_FINISHED against the messages: a call that
  is reported got no result in the run, and of one that is not reported the conversation shows the result,
  as it arrived or as a snapshot restated it.
* `ReplayAgrees`: the state always; the messages as long as streams do not overlap and no
  snapshot or error falls into one. The comment on `compactEvents` excludes the snapshot;
  overlapping streams and errors are excluded here because compaction moves what they
  interleave (section 6).
* `OnlyTheTargetChanges`: finding 4.

Of the throttle: `NothingLostOrReordered` compares what the reader of the text sees,
character by character, with its stream and owner; `MetadataSurvives` the last write per
stream; `HeldIsTimed` and `HeldTextIsShort` what bounds the delay, and
`HeldEventsAreDelivered` that the delay ends.

Of the transport: `DeliveredInOrder` says what is delivered as a function of the halves
that have arrived, not of how they were read, but for a large text frame that is cut;
`ReaderReleased` holds for every end; `AbortEndsTheStream` is liveness.

Of the ADK bridge: `OneRunPerThread` (both that the lock excludes and that it is neither
leaked nor dropped early), `BindingsFollowTheRun`, `SettledOnce`, and `AbortedRunEnds`.
`OneOutcome` is the "exactly one terminal `RUN_FINISHED` or `RUN_ERROR`" of
`integrations/adk-middleware/js/README.md:86`, which a run owes unless its client has left or
the process has died, and that a retried resume is told the type of outcome (success,
interrupt) that it had, whatever came between; it does not compare the rest of a replay.

### Bounds

* Verifier: one id shared by all kinds (as message, call, reasoning and activity) shows
  that kinds do not interfere; a subagent and the parent give tags that are equal,
  different and absent. There is no bound on the length of a stream or on the number of
  runs. Competition of several ids and subagents is left to the theorems below, which
  drop all of these bounds.
* Chunks: `resolveLane` tells no stream, one, several, and the parent's apart. With one id
  there is at most one open stream of a kind, so the run reaches all but "several", where
  the theorems `LanesStayDisjoint` and `StreamsKeepTheirLane` are for any number of ids. Two
  subagents and the parent give every stream lanes that are not its own. The
  constraint `SecondIsLater` keeps the instance small: the second subagent starts after
  the first (they are interchangeable), sends nothing before, and nobody reasons while
  there are two (reasoning streams are handled as text streams are).
* Agent: two calls are an earlier and a later, or two overlapping ones; two queued
  events let one wait behind another when the source ends (`MaxQueued`); two
  messages let one survive where another is lost.
* The overlapping instance has no messages: neither of its properties depends on
  what an event does to the conversation.

* Conversation: six events are a run, a stream with content and its end, and an event
  before, inside or behind it; or a run, the next one, and what the second repeats. The verifier is in front, so no event is wasted on a stream that
  the client would refuse.
* Throttle: a window of two ticks has a moment inside; four events are one that passes at
  once, two that are merged and one that ends the batch.
* Transport: a read of four halves can complete two frames, or one between two parts.
* ADK: three runs are a run that asks, an answer, and its retry, double or change, any
  of them cut short; two requests let an answer end in another interrupt, which its retry
  must be told again. One thread, since sessions do not share anything; the theorems are
  for any number of runs and threads.

### Fairness

`agent_overlapping` assumes weak fairness of the turns that the microtask
queue owes (`Turn(c)`, a promise that is settled, or a hook that a subscriber
eventually returns from) and of the return of a detacher whose promise is resolved.
JavaScript's event loop grants the first kind; that subscribers return is what the
agent awaits. Nothing is assumed of the source, which may hang for ever, nor of the
application. `StartThrows` is not fair, and a detacher that caught a call before its
`run()` threw is excluded from `DetachReturns` by its premise; see finding 3.

`throttle_window`: the clock advances and a due `setTimeout` callback is run, which the
event loop grants. `http_transport`: an aborted signal rejects the fetch or the read under
way, which the fetch standard requires; nothing is assumed of the server. `adk_thread`: the
user id resolver and the session service answer, and ADK returns from a run whose signal is
aborted (`run-coordinator.ts` relies on it); nothing is assumed of ADK otherwise, so that
`AbortedRunEnds` is not owed to a model that happens to finish.

## 5. Proofs

### Verifier

`EventVerifier_proofs` proves for every set of ids, subagents, step names, event
types and histories:

| Theorem | Statement |
|---|---|
| `InvariantHolds` | `Spec => []IInv` |
| `TypeCorrect` | `Spec => []TypeOK` |
| `OpenEntitiesOwned` | `Spec => []OpenHasOwner` |
| `FinishedRunsClosed` | `Spec => []FinishedMeansClosed` |
| `RunsStartFresh` | `Spec => FreshRun` |
| `SubagentsNeverRestart` | `Spec => NoSubagentRestarts` |
| `OwnersSettle` | `Spec => OwnersSettled` |
| `VerifierImplementsRunProtocol` | `Spec => ImplementsRunProtocol` |

Assumptions on the constants, from `AGUIEvents` and `EventVerifier`: `Absent`, `Null`
and `Unowned` are different from each other and from every id and subagent, and
histories are finite lists of messages. All runs evaluate them.

The inductive invariant `IInv` is `TypeOK`, `OpenHasOwner`, `FinishedMeansClosed`,
`SubagentsRunOnce` (no subagent is both running and terminated) and `FlagsAgree`. The last is the strengthening that the code's
order of checks makes necessary: `RUN_STARTED` resets the maps only if a run has
finished or errored, and a reset that is skipped must have had nothing to do. That
holds because a first event is either RUN_STARTED or RUN_ERROR, so before the first
run nothing can be on record. `OpenHasOwner` needs no strengthening beyond types:
openers claim, snapshots and tool results overwrite with a tag, and only a reset, which
also empties the open sets, forgets. The types of `owners` after a snapshot rest on
`SeedOwnersType`, which needs that a non-empty set of positions of a list has a least and
a greatest element (`LeastExists`, `GreatestExists`); null tags are kept out by
`NoNullTags`. The step lemmas treat each action (`OwnerWriters`, `RunStartedStep`,
`OtherSteps`). Action properties and the refinement take the invariant as given; each
step of the verifier is shown to open or close one element of `openEntities`, or to
leave the phase and the set alone.

### Chunk expansion and verifier

`ChunkPipeline_proofs`, for any number of producers, ids, kinds and event types:

| Theorem | Statement |
|---|---|
| `PipelineTypesHold` | `PipelineSpec => []PipelineTypeOK` |
| `LanesStayDisjoint` | `PipelineSpec => []LanesDisjoint` |
| `SubagentsEndTheirStreams` | `PipelineSpec => StreamsEndWithTheirSubagent` |
| `StreamsKeepTheirLane` | `PipelineSpec => StreamsSurviveOtherLanes` |
| `OpenStreamsAreTheLanes` | `ChunksOnly` implies `PipelineSpec => []LanesAreTheOpenStreams` |
| `ContinuationsAreAccepted` | `ChunksOnly` and no TOOL_CALL_RESULT imply `PipelineSpec => []ContinuationsNeverRefused` |

* The first four rest on `LaneInv`: the verifier's `IInv`, the types of the expansion,
  `LanesDisjoint`, that a stream's lane is its tag, a null one read as absent
  (`LanesAreTags`), and that a subagent's terminal event on its way to the verifier
  finds the lane closed (`TerminalsEndTheirLane`).
* `LanesAreTheOpenStreams` speaks of the moments between source events; in between, some
  ends and starts are on their way. `BalanceInv` says what then holds: the lanes are what
  the verifier has open, less what is about to end, and what is about to start, each
  emitted once, a run-level event behind them all.
* `AgreementInv` adds that the owner on the verifier's record agrees with the lane and with
  every event emitted for it. It is claimed for streams sent as chunks only (`ChunksOnly`),
  which is the case the property is about: a producer that mixes chunks with explicit events
  for the same stream may end it behind the expansion's back. TOOL_CALL_RESULT is excluded
  because a result may name the id of a message that is open, and the verifier then records
  the result's tag as the owner of that id. The instance of `chunks_all` has neither.

### Agent

`AgentRun_proofs`, for any number of calls, detachers, messages and interrupts:

| Theorem | Assumes | Statement |
|---|---|---|
| `TypeCorrect` | - | `Spec => []TypeOK` |
| `ReceivedEventsAreApplied` | - | `Spec => []ReceivedIsApplied` |
| `RunningFlagIsReliable` | one call at a time | `Spec => []RunningFlag` |
| `RunsStayDetachable` | one call at a time | `Spec => []RunsCanBeDetached` |
| `InterruptsStayPending` | one call at a time | `Spec => InterruptsNotDropped` |
| `ResultsAreComplete` | one call at a time, `~LateEdits` | `Spec => ResultHasTheRunsMessages` |

`ReceivedIsApplied` is inductive with the types once it is known that only a streaming
call has a queue (`OnlyStreamsQueue`): a source that ends or fails waits until its queue is
empty. `MaxInFlight = 1` is the promise that an application makes, not a bound
of the proof; with two calls at once the properties are false, as section 4 says. With
one, `SequentialInv` ties the agent's fields to the only call under way:
that there is at most one (`OneAtATime`), that `isRunning` and `activeRun` are its own
(`RunningFlag`, `RunsCanBeDetached`), that it was let in because it answers every interrupt
that was pending, and that it reported itself what is pending since (`CallAnswers`). `Accounted` says that a
call's conversation is what was there before, and what the call added. `~LateEdits` is
what finding 2 shows to be necessary.

### Throttle, transport and ADK bridge

| Theorem | Statement |
|---|---|
| `HeldEventsAreTimed` (`EventThrottle_proofs`) | `Spec => []HeldIsTimed` |
| `ThrottleTypesHold` | `Spec => []TypeOK` |
| `NothingIsLostOrReordered` | `Spec => []NothingLostOrReordered` |
| `MetadataIsKept` | `Spec => []MetadataSurvives` |
| `HeldTextStaysShort` | `Spec => []HeldTextIsShort` |
| `ReaderIsReleased` (`HttpTransport_proofs`) | `Spec => []ReaderReleased` |
| `EventsAreDeliveredInOrder` | `Spec => []DeliveredInOrder` |
| `ThreadsAreExclusive` (`ADKRun_proofs`) | `Spec => []OneRunPerThread` |
| `ToolsFollowTheRun` | `Spec => []BindingsFollowTheRun` |
| `InputsAreSettledOnce` | `Spec => []SettledOnce` |
| `OutcomesAreToldOnce` | `Spec => []OneOutcome` |

* `HeldIsTimed` is inductive with the ranges of buffer, clock and timer (`Ranges`). The
  timer and the elapsed time always add up to the window, so a due timer stops the
  clock at the window's end, and a new timer is only armed while there is time left,
  because an event that finds the window over is flushed. It assumes what the constructor
  checks (`ThrottleConfig`).
* The contents of the throttled stream take induction over the batch: merging a chunk into
  the last one concatenates their characters (`MergedText`) and keeps the later metadata, so
  coalescing keeps the text of a batch (`CoalesceKeepsText`) and the last write of every
  stream (`CoalesceKeepsMeta`). `Carried` says that what was delivered, followed by what is
  held, says what was received; holding, delivering and passing on keep it. `StreamInv` needs
  `HeldIsTimed` once more: without it a timer could outlive the stream and deliver what an
  error had dropped. `HeldTextIsShort` needs that the counter bounds the text held of the
  message last counted and that no other message has text at the end of the buffer
  (`CountInv`). The chunks that arrive are assumed to be records of sequences of
  characters (`ArrivalsType`).
* `ReaderReleased` needs that a reader is live only while the request is being read and
  that a request which has ended its stream is over; `EndingReleases` says it of
  `EndsWith`, through which every end goes.
* `DeliveredInOrder` is a function of the halves that have arrived. `OrderInv` says that an
  open stream has delivered the events of all whole frames so far and met none that fails
  (`Delivered`). A read parses its frames one after the other, and `ParsedTo`, by induction
  over the frames of the read, is the same statement in the middle of it.
* `OneRunPerThread` and `BindingsFollowTheRun` are inductive only together (`IInv`): a
  run binds its tools without looking because it alone holds the thread, and the
  finally block may clear the thread's bindings because whoever is bound there holds
  it. `ControlOK` adds the types and that a run's thread is one. The step lemmas follow the
  code's own shape: leaving through the finally block (`EndPreserves`), going on to the
  next await (`MovePreserves`), binding (`StreamPreserves`), being turned away
  (`AwayPreserves`), claiming (`EnterPreserves`), crashing (`CrashPreserves`).
* `SettledOnce` rests on exclusion: what a run found when it opened the session is still so
  when it writes, because nobody else writes to that session meanwhile. `HistoryInv` keeps for
  every session that requests precede replies and replies answers, each once (`HistoryOK`), and for every
  run under way that what it is about to append is not there yet (`RunPrepared`).
* `OneOutcome` needs that a resume whose outcome was told has left its marker, with that
  outcome, and that markers of one resume agree (`OutcomeInv`): a run with the same input then
  finds the marker and is either told what it says or refused.

### Conversation

`Conversation_proofs`, for any ids, events, bounds and lengths of the list:

| Theorem | Assumes | Statement |
|---|---|---|
| `CallsAreNotDoubled` | - | `ConversationSpec => CallsNotDoubled` |
| `ResultsStayWithTheirCalls` | `IdsAreKept`, `ListIsKept` | `ConversationSpec => ResultsFollowTheirCalls` |
| `OwnersNeverDisagree` | `IdsAreKept`, `ListIsKept` | `ConversationSpec => []OwnersAgree` |
| `PendingCallsAreUnanswered` | `IdsAreKept`, `ListIsKept` | `ConversationSpec => []PendingAreUnanswered` |

* `IdsAreKept` is `IdsAreUnique` of every repertoire (section 3.5). Without it a text message and an
  activity may share an id, and whose message it is depends on the order. `ListIsKept`
  says that no subscriber hands back a list of its own; subscribers may still stop any
  event in both ways. A list that is replaced may hold anything, and finding 4 shows
  that one shorter by a message is enough to spoil another one. The first theorem
  needs neither, because the reducer looks for the call in the whole list.
* What the searches return is `IsFirst`, by which the operators are
  characterised one after the other: which positions keep their identity (`Touched`, `Same`), where
  one is added (`Inserted`), which are drawn from a snapshot (`Drawn`) or an echo (`Echoed`).
  `Effects` sums up: of a list whose messages come from the producer's events (`Rooted`),
  an event is quiet, opens one message, adds a call or a caller, adds a result, or replaces an activity.
* `KeptInv` (types, calls only on assistants, `Rooted`, no two activities of one id) is what
  makes these kinds disjoint. Adjacency (`Adjacent`) is then kept by each of them; that a
  result goes behind the *first* holder of its call, where the reducer looks, is
  the case that needs `CallsInv`.
* `OwnersInv` strengthens `OwnersAgree` by `Backed`: behind each owner on record there is a
  message, or a REASONING_START of one to come. Without it an opener could add a
  message under an id that has another owner on record. Where a span is on record, the
  verifier's check of the second opener leaves the untagged message as the only way to differ
  (`ReasoningOpenerAgrees`). The
  steps are pairs of what the verifier writes (`Recorded`, `Claiming`, `Seeds`) and what
  the reducer makes of the same event.
* `PendingInv` says that an answered call shows a result of this run or of a snapshot, and
  that a result of this run is tallied (`Tallied`), as long as nothing was suppressed; a run
  starts with an empty tally because `Aged` gives the messages that are there to an earlier one.

### Induction

The library's induction theorems take an operator as parameter, which the provers cannot
instantiate. `NaturalLemmas` states induction about *sets* of numbers (`InductionFrom`, from
the well-foundedness of `<`), and `SequenceInduction` about sets of sequences. Recursive
definitions of the model are recursive functions on `0..n`, whose existence
`RecursionExists` gives and whose agreement on a common part is `AgreeUpTo`; from these each has
a lemma that says what it is of the empty sequence and of a sequence with one element more
(`CoalesceFacts`, `TextFacts`, `TextOfLastFacts`).

### Only model-checked

* Liveness under fairness (`DetachReturns`, `HeldEventsAreDelivered`, `AbortEndsTheStream`,
  `AbortedRunEnds`): beyond the provers.
* `ReplayAgrees` compares two folds over different streams, one of them over events
  that compaction has moved; the invariant would have to say which events commute.
* For producers that mix chunks and explicit events, `ContinuationsNeverRefused` and
  `LanesAreTheOpenStreams` are not claimed; see above.

## 6. Findings

1. **Inherited owners and chunk lanes** (`chunks_inherited_owner`,
   `chunks/transform.ts:455`). An untagged TOOL_CALL_CHUNK whose `parentMessageId` is a
   subagent's message, or whose call an echoed history gives to a subagent, is assembled in
   the parent lane, while for the verifier it is the subagent's. (In the run, where there is
   one id, both are so.) The subagent's terminal event ends only the lane of its own
   tag, so the call outlives its owner, which `docs/spec/draft/basic/patterns/streaming.mdx:152`
   excludes.
2. **Late finalizer hooks** (`agent_late_hook`, `agent/agent.ts:388`). onRunFinalized's
   hooks are not awaited. One that returns messages after the next run has begun puts
   an old conversation back, and `newMessages` of the next run lacks what was added.
   `docs/sdk/js/client/subscriber.mdx:25` says hooks are awaited.
3. **Startup failures are not finalized** (`agent_startup_failure`, `agent/agent.ts:396`).
   A `run()` that throws synchronously escapes `catchError` and `finalize`: no
   onRunFailed, no onRunFinalized, and the fields of the active run stay set.
   `docs/sdk/js/client/subscriber.mdx:131` says "regardless of success or failure".
4. **Activity snapshots and replaced lists** (`conversation_hooks`, `apply/default.ts:888`).
   The index of the activity is taken before the subscribers run and used afterwards on
   the list they returned. When that list is shorter, the snapshot overwrites another
   message. `docs/spec/draft/events/activity.mdx:22` says the event "Creates or replaces one
   activity message."; the comment at `apply/default.ts:113` knows of lost writes, not of
   writes to another message.

Met while modelling, without a run of their own:

* `session-bridge.ts:161` recognises the reply of a resume by its interrupt ids. After a crash
  or an abort between the reply and ADK's own append, a retry with a *different* answer keeps
  the first answer's text, which is the only form the model is shown, while the function
  response carries the new answer.
* A reasoning span opened by a subagent puts its id on record (`verify/verify.ts:736`), and the
  message of the same id may then be started without a tag. The verifier keeps the subagent as
  the owner and checks continuations against it, while the reducer (`apply/default.ts:1267`) makes
  a message of the parent. The comment at `verify/verify.ts:733` says that "an untagged reopen after
  REASONING_END does not hand the reasoning back to the parent either". It is the exception
  that `OwnersAgree` names; a second opener with a *different tag* is refused, and the run and
  the theorem show that nothing else gets past.
* TOOL_CALL_START with a `parentMessageId` that is not there makes a message of that id, owned by
  the event's subagent (`apply/default.ts:443`). The verifier records an owner for the call only, so
  a TEXT_MESSAGE_START of another producer under that id is accepted, and its content
  lands in the first one's message: what the comment at `verify/verify.ts:397` calls a contradiction.
  Example: TOOL_CALL_START (parent `m`, tag `s1`), then TEXT_MESSAGE_START (`m`, no tag). The
  conversation shows `m` as `s1`'s, the verifier has the parent on record.
* An ADK run emits RUN_FINISHED inside `finalize` (`run-coordinator.ts:349`) and frees its thread
  only when `execute` resumes. A client that starts its next run while it handles RUN_FINISHED
  may get THREAD_BUSY, whose message says "Wait for RUN_FINISHED before starting a new run"
  (`run-coordinator.ts:157`). The model takes the two steps apart (`Finish`, `GiveBack`).
* What a replayed resume repeats (`ResumeReplayArtifact`, `run-marker.ts:10`) has no place for
  the `pendingToolCallIds` of a success, so the retry's RUN_FINISHED goes without them.
* Compaction moves what other streams interleave: with overlapping streams, messages can come
  out in another order, and an untagged tool call inside a subagent's message loses its owner,
  since the message is emitted behind it.
* The verifier keeps the owner of an id whose message a MESSAGES_SNAPSHOT has removed.
* An SSE body cut before any `data:` line of its last frame completes without an error, while a
  binary body that ends in a frame does not.

## 7. Not modelled

The map covers a small share of the repository's lines. Most of those lines are generated
types and encoders, a dozen framework adapters, SDKs in other languages and a demo: they
have no shared state, or repeat for a framework outside the repository what the client
already defines. The stateful core of the TypeScript client, one middleware and one adapter are
covered.

* The tool-call filter (`middleware/filter-tool-calls.ts`): one set of blocked ids.
* The ADK bridge's translator and subagent tracker, and the adapters for other frameworks (AWS
  Strands, Mastra, LangGraph and more): event-by-event translation of external streams.
* Several requests on one `HttpAgent`: the signal is read from the agent when the deferred
  fetch runs, and an overlapping `runAgent` replaces the controller before that. A consumer that
  unsubscribes does not release the reader either; only the end of the stream does.
* `clone`, `use`, `subscribe`, and the legacy bridge of `AbstractAgent`: construction,
  or the same run behind another interface.
* Enforcement, compatibility, activity history, encoders and schemas: conversions of one
  event at a time, or generated.
* Middlewares that bridge to MCP, A2A and A2UI, other SDKs and the demo: they depend on services outside the repository or repeat the protocol.
* Fields the SDK does not know, error texts, logging, timestamps.

## 8. Running

    tlc -workers 2 -config EventVerifier_all.cfg MCEventVerifier
    tlapm EventVerifier_proofs.tla

and likewise for the other runs in `PROJECT.json`. The longest runs
(`chunks_all`, `conversation_replay`, `adk_thread`) take one to three minutes.
