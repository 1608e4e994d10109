---------------------------- MODULE EventVerifier ----------------------------
(***************************************************************************)
(* verifyEvents (client/src/verify/verify.ts): the operator of the client  *)
(* pipeline that sees every event of every run on one stream and lets it   *)
(* through or fails the stream.                                            *)
(*                                                                         *)
(* An accepted event is emitted downstream in the same step; the first     *)
(* rejected one errors the observable, after which nothing is processed.   *)
(***************************************************************************)
EXTENDS AGUIEvents, Integers

CONSTANT Unowned   \* what Map.get answers for an id that is not on record

ASSUME UnownedIsNoTag == Unowned \notin WireTags

VARIABLES
    activeMessages,           \* open text messages
    activeToolCalls,          \* open tool calls
    activeReasoningSpans,     \* open REASONING_START ids
    activeReasoningMessages,  \* open REASONING_MESSAGE_START ids
    owners,                   \* per kind of entity: id -> its owner
    activeSteps,              \* open steps, as <<owner, name>>
    activeSubagents,          \* started, not yet terminated
    closedSubagents,          \* terminated in this run
    runStarted, runFinished, runError, firstEventReceived,
    streamFailed              \* the observable has errored

openVars == <<activeMessages, activeToolCalls, activeReasoningSpans,
              activeReasoningMessages>>
subagentVars == <<activeSubagents, closedSubagents>>
runVars == <<runStarted, runFinished, runError>>
vars == <<openVars, owners, activeSteps, subagentVars, runVars,
          firstEventReceived, streamFailed>>

(* Ids are unique within a kind only, so each kind has owners of its own.  *)
Kinds == {"message", "toolCall", "activity", "reasoning"}
NoOwners == [k \in Kinds |-> [id \in Ids |-> Unowned]]

TypeOK ==
  /\ activeMessages \subseteq Ids
  /\ activeToolCalls \subseteq Ids
  /\ activeReasoningSpans \subseteq Ids
  /\ activeReasoningMessages \subseteq Ids
  /\ owners \in [Kinds -> [Ids -> Tags \cup {Unowned}]]
  /\ activeSteps \subseteq Tags \X StepNames
  /\ activeSubagents \subseteq SubagentIds
  /\ closedSubagents \subseteq SubagentIds
  /\ runStarted \in BOOLEAN /\ runFinished \in BOOLEAN /\ runError \in BOOLEAN
  /\ firstEventReceived \in BOOLEAN /\ streamFailed \in BOOLEAN

Init ==
  /\ activeMessages = {} /\ activeToolCalls = {}
  /\ activeReasoningSpans = {} /\ activeReasoningMessages = {}
  /\ owners = NoOwners
  /\ activeSteps = {}
  /\ activeSubagents = {} /\ closedSubagents = {}
  /\ runStarted = FALSE /\ runFinished = FALSE /\ runError = FALSE
  /\ firstEventReceived = FALSE /\ streamFailed = FALSE

-----------------------------------------------------------------------------
(* The event's attribution, after `subagentRunId: null` has been removed.  *)
Tag(e) == IF e.subagentRunId = Null THEN Absent ELSE e.subagentRunId

(* subagentTagError: an absent tag never disagrees, and neither does any   *)
(* tag when nothing is recorded for the entity.                            *)
TagAgrees(tag, owner) == tag = Absent \/ owner = Unowned \/ tag = owner

(* Mutant: an untagged opener leaves no record.                            *)
ClaimTaggedOnly(kind, id, tag) ==
  IF owners[kind][id] = Unowned /\ tag # Absent
    THEN [owners EXCEPT ![kind][id] = tag] ELSE owners

(* Mutant: the last opener wins.                                           *)
ClaimAlways(kind, id, tag) == [owners EXCEPT ![kind][id] = tag]

(* First writer wins: record tag for id unless an owner is on record.      *)
Claim(kind, id, tag) ==
  IF owners[kind][id] = Unowned
    THEN [owners EXCEPT ![kind][id] = tag] ELSE owners

(* seedOwnersFromMessages.  Messages are recorded in order, each under the *)
(* kind its role streams through, and the tool calls of a message under    *)
(* that message's owner; an authoritative list overwrites what is on       *)
(* record, an echo only fills the gaps.                                    *)
KindOfRole(role) == IF role \in {"reasoning", "activity"} THEN role ELSE "message"
Claimants(messages, kind, id) ==
  {i \in DOMAIN messages :
     \/ KindOfRole(messages[i].role) = kind /\ messages[i].id = id
     \/ kind = "toolCall" /\ id \in messages[i].toolCalls}
Earliest(I) == CHOOSE i \in I : \A j \in I : i <= j
Latest(I) == CHOOSE i \in I : \A j \in I : i >= j

SeedOwners(recorded, messages, authoritative) ==
  [k \in Kinds |-> [id \in Ids |->
     LET I == Claimants(messages, k, id) IN
     IF I = {} \/ (~authoritative /\ recorded[k][id] # Unowned)
       THEN recorded[k][id]
       ELSE messages[IF authoritative THEN Latest(I) ELSE Earliest(I)].subagentRunId]]

(* Mutant: nested nulls go unchecked.                                      *)
AnyTags(messages) == TRUE

NoNullTags(messages) == \A i \in DOMAIN messages : messages[i].subagentRunId # Null

-----------------------------------------------------------------------------
(* Mutant: a finished run takes further events.                            *)
RunAllowsAfterFinish(e) ==
  /\ runError => e.type = "RUN_STARTED"
  /\ ~firstEventReceived => e.type \in {"RUN_STARTED", "RUN_ERROR"}
  /\ firstEventReceived /\ e.type = "RUN_STARTED"
       => ~(runStarted /\ ~runFinished /\ ~runError)

(* What is asked of every event before its own case is looked at.          *)
RunAllows(e) ==
  /\ runError => e.type = "RUN_STARTED"
  /\ runFinished => e.type \in {"RUN_ERROR", "RUN_STARTED"}
  /\ ~firstEventReceived => e.type \in {"RUN_STARTED", "RUN_ERROR"}
  /\ firstEventReceived /\ e.type = "RUN_STARTED"
       => ~(runStarted /\ ~runFinished /\ ~runError)

(* The openers' and continuations' own conditions.                         *)
MayOpenMessage(e) ==
  /\ e.messageId \notin activeMessages
  /\ TagAgrees(Tag(e), owners.message[e.messageId])

MayContinueMessage(e) ==
  /\ e.messageId \in activeMessages
  /\ TagAgrees(Tag(e), owners.message[e.messageId])

(* The owner a tool call takes over from the message that carries it.      *)
Inherited(e) ==
  IF e.parentMessageId = Absent THEN Unowned ELSE owners.message[e.parentMessageId]

MayOpenToolCall(e) ==
  LET existing == owners.toolCall[e.toolCallId]
      inherited == Inherited(e) IN
  /\ e.toolCallId \notin activeToolCalls
  /\ TagAgrees(Tag(e), inherited)
  /\ TagAgrees(Tag(e), existing)
  /\ Tag(e) = Absent /\ existing # Unowned /\ inherited # Unowned
       => inherited = existing

MayContinueToolCall(e) ==
  /\ e.toolCallId \in activeToolCalls
  /\ TagAgrees(Tag(e), owners.toolCall[e.toolCallId])

(* A span and the message inside it may share an id: each opener is        *)
(* checked against its own set, both against one owner.                    *)
OpenReasoning(e) ==
  IF e.type \in {"REASONING_START", "REASONING_END"}
    THEN activeReasoningSpans ELSE activeReasoningMessages

(* Mutant: the second opener of a span and its message goes unchecked.     *)
MayOpenReasoningUnchecked(e) == e.messageId \notin OpenReasoning(e)

MayOpenReasoning(e) ==
  /\ e.messageId \notin OpenReasoning(e)
  /\ TagAgrees(Tag(e), owners.reasoning[e.messageId])

MayContinueReasoning(e) ==
  /\ e.messageId \in OpenReasoning(e)
  /\ TagAgrees(Tag(e), owners.reasoning[e.messageId])

EncryptedOwner(e) ==
  IF e.subtype = "tool-call" THEN owners.toolCall[e.entityId]
  ELSE IF owners.message[e.entityId] # Unowned THEN owners.message[e.entityId]
  ELSE owners.reasoning[e.entityId]

(* Mutant: only the active ids count as used.                              *)
MayStartInactiveSubagent(e) ==
  /\ e.wellFormed
  /\ e.subagentRunId \notin activeSubagents
  /\ e.parentSubagentRunId \in activeSubagents \cup closedSubagents \cup {Absent}

MayStartSubagent(e) ==
  /\ e.wellFormed
  /\ e.subagentRunId \notin activeSubagents \cup closedSubagents
  /\ e.parentSubagentRunId \in activeSubagents \cup closedSubagents \cup {Absent}

MayCloseSubagent(e) == e.wellFormed /\ e.subagentRunId \in activeSubagents

(* Mutant: reasoning spans may stay open.                                  *)
NothingButSpansOpen ==
  /\ activeSteps = {} /\ activeMessages = {} /\ activeReasoningMessages = {}
  /\ activeToolCalls = {} /\ activeSubagents = {}

NothingOpen ==
  /\ activeSteps = {}
  /\ activeMessages = {}
  /\ activeReasoningMessages = {}
  /\ activeReasoningSpans = {}
  /\ activeToolCalls = {}
  /\ activeSubagents = {}

(* The switch over the event type: does this event's case let it through?  *)
CaseAllows(e) ==
  CASE e.type = "TEXT_MESSAGE_START" -> MayOpenMessage(e)
    [] e.type \in {"TEXT_MESSAGE_CONTENT", "TEXT_MESSAGE_END"} -> MayContinueMessage(e)
    [] e.type = "TOOL_CALL_START" -> MayOpenToolCall(e)
    [] e.type \in {"TOOL_CALL_ARGS", "TOOL_CALL_END"} -> MayContinueToolCall(e)
    [] e.type = "STEP_STARTED" -> <<Tag(e), e.stepName>> \notin activeSteps
    [] e.type = "STEP_FINISHED" -> <<Tag(e), e.stepName>> \in activeSteps
    [] e.type \in {"REASONING_START", "REASONING_MESSAGE_START"} -> MayOpenReasoning(e)
    [] e.type \in {"REASONING_MESSAGE_CONTENT", "REASONING_MESSAGE_END",
                   "REASONING_END"} -> MayContinueReasoning(e)
    [] e.type = "REASONING_ENCRYPTED_VALUE" -> TagAgrees(Tag(e), EncryptedOwner(e))
    [] e.type = "ACTIVITY_DELTA" -> TagAgrees(Tag(e), owners.activity[e.messageId])
    [] e.type = "SUBAGENT_STARTED" -> MayStartSubagent(e)
    [] e.type \in {"SUBAGENT_FINISHED", "SUBAGENT_ERROR"} -> MayCloseSubagent(e)
    [] e.type \in {"RUN_STARTED", "MESSAGES_SNAPSHOT"} -> NoNullTags(e.messages)
    [] e.type = "RUN_FINISHED" -> e.wellFormed /\ NothingOpen
    [] OTHER -> TRUE

Accepts(e) == RunAllows(e) /\ CaseAllows(e)

Accepted(e) ==
  /\ ~streamFailed
  /\ Accepts(e)
  /\ firstEventReceived' = TRUE
  /\ UNCHANGED streamFailed

-----------------------------------------------------------------------------
(* One action per case of the switch.                                      *)
TextMessageStart(e) ==
  /\ e.type = "TEXT_MESSAGE_START" /\ Accepted(e)
  /\ activeMessages' = activeMessages \cup {e.messageId}
  /\ owners' = Claim("message", e.messageId, Tag(e))
  /\ UNCHANGED <<activeToolCalls, activeReasoningSpans, activeReasoningMessages,
                 activeSteps, subagentVars, runVars>>

TextMessageEnd(e) ==
  /\ e.type = "TEXT_MESSAGE_END" /\ Accepted(e)
  /\ activeMessages' = activeMessages \ {e.messageId}
  /\ UNCHANGED <<activeToolCalls, activeReasoningSpans, activeReasoningMessages,
                 owners, activeSteps, subagentVars, runVars>>

ToolCallStart(e) ==
  /\ e.type = "TOOL_CALL_START" /\ Accepted(e)
  /\ activeToolCalls' = activeToolCalls \cup {e.toolCallId}
  /\ owners' = Claim("toolCall", e.toolCallId,
                 IF Tag(e) = Absent /\ Inherited(e) # Unowned
                   THEN Inherited(e) ELSE Tag(e))
  /\ UNCHANGED <<activeMessages, activeReasoningSpans, activeReasoningMessages,
                 activeSteps, subagentVars, runVars>>

ToolCallEnd(e) ==
  /\ e.type = "TOOL_CALL_END" /\ Accepted(e)
  /\ activeToolCalls' = activeToolCalls \ {e.toolCallId}
  /\ UNCHANGED <<activeMessages, activeReasoningSpans, activeReasoningMessages,
                 owners, activeSteps, subagentVars, runVars>>

(* A creation event: the newest mint of the id owns it.                    *)
ToolCallResult(e) ==
  /\ e.type = "TOOL_CALL_RESULT" /\ Accepted(e)
  /\ owners' = [owners EXCEPT !["message"][e.messageId] = Tag(e)]
  /\ UNCHANGED <<openVars, activeSteps, subagentVars, runVars>>

StepStarted(e) ==
  /\ e.type = "STEP_STARTED" /\ Accepted(e)
  /\ activeSteps' = activeSteps \cup {<<Tag(e), e.stepName>>}
  /\ UNCHANGED <<openVars, owners, subagentVars, runVars>>

StepFinished(e) ==
  /\ e.type = "STEP_FINISHED" /\ Accepted(e)
  /\ activeSteps' = activeSteps \ {<<Tag(e), e.stepName>>}
  /\ UNCHANGED <<openVars, owners, subagentVars, runVars>>

(* Only a snapshot that replaces, or the first one, owns the activity.     *)
ActivitySnapshot(e) ==
  /\ e.type = "ACTIVITY_SNAPSHOT" /\ Accepted(e)
  /\ owners' = IF e.replace
                 THEN [owners EXCEPT !["activity"][e.messageId] = Tag(e)]
                 ELSE Claim("activity", e.messageId, Tag(e))
  /\ UNCHANGED <<openVars, activeSteps, subagentVars, runVars>>

ReasoningStart(e) ==
  /\ e.type \in {"REASONING_START", "REASONING_MESSAGE_START"} /\ Accepted(e)
  /\ owners' = Claim("reasoning", e.messageId, Tag(e))
  /\ IF e.type = "REASONING_START"
       THEN /\ activeReasoningSpans' = activeReasoningSpans \cup {e.messageId}
            /\ UNCHANGED activeReasoningMessages
       ELSE /\ activeReasoningMessages' = activeReasoningMessages \cup {e.messageId}
            /\ UNCHANGED activeReasoningSpans
  /\ UNCHANGED <<activeMessages, activeToolCalls, activeSteps, subagentVars, runVars>>

ReasoningEnd(e) ==
  /\ e.type \in {"REASONING_END", "REASONING_MESSAGE_END"} /\ Accepted(e)
  /\ IF e.type = "REASONING_END"
       THEN /\ activeReasoningSpans' = activeReasoningSpans \ {e.messageId}
            /\ UNCHANGED activeReasoningMessages
       ELSE /\ activeReasoningMessages' = activeReasoningMessages \ {e.messageId}
            /\ UNCHANGED activeReasoningSpans
  /\ UNCHANGED <<activeMessages, activeToolCalls, owners, activeSteps,
                 subagentVars, runVars>>

(* Events that are checked, or only passed on, and change no state.        *)
PassThrough(e) ==
  /\ e.type \in {"TEXT_MESSAGE_CONTENT", "TOOL_CALL_ARGS", "REASONING_MESSAGE_CONTENT",
                 "REASONING_ENCRYPTED_VALUE", "ACTIVITY_DELTA", "STATE_SNAPSHOT",
                 "STATE_DELTA", "CUSTOM", "RAW"}
  /\ Accepted(e)
  /\ UNCHANGED <<openVars, owners, activeSteps, subagentVars, runVars>>

SubagentStarted(e) ==
  /\ e.type = "SUBAGENT_STARTED" /\ Accepted(e)
  /\ activeSubagents' = activeSubagents \cup {e.subagentRunId}
  /\ UNCHANGED <<openVars, owners, activeSteps, closedSubagents, runVars>>

SubagentClosed(e) ==
  /\ e.type \in {"SUBAGENT_FINISHED", "SUBAGENT_ERROR"} /\ Accepted(e)
  /\ activeSubagents' = activeSubagents \ {e.subagentRunId}
  /\ closedSubagents' = closedSubagents \cup {e.subagentRunId}
  /\ UNCHANGED <<openVars, owners, activeSteps, runVars>>

MessagesSnapshot(e) ==
  /\ e.type = "MESSAGES_SNAPSHOT" /\ Accepted(e)
  /\ owners' = SeedOwners(owners, e.messages, TRUE)
  /\ UNCHANGED <<openVars, activeSteps, subagentVars, runVars>>

(* Mutant: the used-up subagent ids outlive the run.                       *)
ResetAllButClosed ==
  /\ activeMessages' = {} /\ activeToolCalls' = {}
  /\ activeReasoningSpans' = {} /\ activeReasoningMessages' = {}
  /\ activeSteps' = {} /\ activeSubagents' = {} /\ UNCHANGED closedSubagents
  /\ runFinished' = FALSE /\ runError' = FALSE

ResetRunState ==
  /\ activeMessages' = {} /\ activeToolCalls' = {}
  /\ activeReasoningSpans' = {} /\ activeReasoningMessages' = {}
  /\ activeSteps' = {} /\ activeSubagents' = {} /\ closedSubagents' = {}
  /\ runFinished' = FALSE /\ runError' = FALSE

(* The reset, then the echo of the run's input.  The first event of the    *)
(* stream finds nothing to reset.                                          *)
RunStarted(e) ==
  LET reset == firstEventReceived /\ (runFinished \/ runError) IN
  /\ e.type = "RUN_STARTED" /\ Accepted(e)
  /\ owners' = SeedOwners(IF reset THEN NoOwners ELSE owners, e.messages, FALSE)
  /\ IF reset
       THEN ResetRunState
       ELSE UNCHANGED <<openVars, activeSteps, subagentVars, runFinished, runError>>
  /\ runStarted' = TRUE

RunFinished(e) ==
  /\ e.type = "RUN_FINISHED" /\ Accepted(e)
  /\ runFinished' = TRUE
  /\ UNCHANGED <<openVars, owners, activeSteps, subagentVars, runStarted, runError>>

RunError(e) ==
  /\ e.type = "RUN_ERROR" /\ Accepted(e)
  /\ runError' = TRUE
  /\ UNCHANGED <<openVars, owners, activeSteps, subagentVars, runStarted, runFinished>>

(* throwError: the observable errors and the operator's closure is dead.   *)
Reject(e) ==
  /\ ~streamFailed
  /\ ~Accepts(e)
  /\ streamFailed' = TRUE
  /\ UNCHANGED <<openVars, owners, activeSteps, subagentVars, runVars,
                 firstEventReceived>>

Accept(e) ==
  \/ TextMessageStart(e) \/ TextMessageEnd(e)
  \/ ToolCallStart(e) \/ ToolCallEnd(e) \/ ToolCallResult(e)
  \/ StepStarted(e) \/ StepFinished(e)
  \/ ActivitySnapshot(e)
  \/ ReasoningStart(e) \/ ReasoningEnd(e)
  \/ PassThrough(e)
  \/ SubagentStarted(e) \/ SubagentClosed(e)
  \/ MessagesSnapshot(e)
  \/ RunStarted(e) \/ RunFinished(e) \/ RunError(e)

Next == \E e \in Event : Accept(e) \/ Reject(e)

Spec == Init /\ [][Next]_vars
-----------------------------------------------------------------------------
(* Safety.                                                                 *)

(* Every open text message, tool call and reasoning entity has an owner on *)
(* record.  subagentTagError lets any tag through when the map has no      *)
(* entry, so without this the attribution check of a continuation would    *)
(* silently check nothing.                                                 *)
OpenHasOwner ==
  /\ \A id \in activeMessages : owners.message[id] # Unowned
  /\ \A id \in activeToolCalls : owners.toolCall[id] # Unowned
  /\ \A id \in activeReasoningSpans \cup activeReasoningMessages :
       owners.reasoning[id] # Unowned

(* A run that has reported RUN_FINISHED has nothing open, and nothing can  *)
(* be opened in it afterwards: messages, tool calls, reasoning, steps and  *)
(* subagents are all closed until the next RUN_STARTED.                    *)
FinishedMeansClosed == runFinished => NothingOpen

(* How the flags of the closure hang together: the first event settles     *)
(* that a run has started or an error was reported, only a started run     *)
(* finishes, and until the first run starts nothing at all is on record.   *)
FlagsAgree ==
  /\ firstEventReceived <=> (runStarted \/ runError)
  /\ runFinished => runStarted
  /\ ~runStarted => /\ NothingOpen /\ closedSubagents = {}
                    /\ owners = NoOwners

(* The step that starts a run, the first or a later one on the stream.     *)
RunBegins ==
  /\ runStarted' /\ ~runFinished' /\ ~runError'
  /\ ~runStarted \/ runFinished \/ runError

(* A new run inherits nothing from an earlier run on the stream, however   *)
(* that one ended: no open entity, no used-up subagent id, and no owner    *)
(* that the RUN_STARTED echo does not itself bring.                        *)
FreshRun ==
  [][RunBegins =>
       /\ NothingOpen' /\ closedSubagents' = {}
       /\ \E h \in Histories : owners' = SeedOwners(NoOwners, h, FALSE)]_vars

(* Within a run a subagent that has started is active until its terminal   *)
(* event and closed ever after: none is lost between the two maps, and no  *)
(* step makes a closed one active.                                         *)
NoSubagentRestarts ==
  [][~RunBegins => /\ closedSubagents \subseteq closedSubagents'
                   /\ activeSubagents \subseteq activeSubagents' \cup closedSubagents'
                   /\ activeSubagents' \cap closedSubagents = {}]_vars

(* The events that may give an entity with an owner on record another one: *)
(* the ones for which the reducer replaces the entity.                     *)
Reowns(e, kind, id) ==
  \/ e.type = "MESSAGES_SNAPSHOT"
  \/ kind = "message" /\ e.type = "TOOL_CALL_RESULT" /\ e.messageId = id
  \/ kind = "activity" /\ e.type = "ACTIVITY_SNAPSHOT" /\ e.replace /\ e.messageId = id

(* Within a run an owner, once recorded, survives the closing, the         *)
(* reopening and every continuation of its entity: it is never forgotten,  *)
(* and moves only with an event that replaces the entity.                  *)
OwnersSettled ==
  [][~RunBegins =>
       \A k \in Kinds, id \in Ids :
         owners[k][id] # Unowned /\ owners'[k][id] # owners[k][id]
           => /\ owners'[k][id] # Unowned
              /\ \E e \in Event : Accept(e) /\ Reowns(e, k, id)]_vars
-----------------------------------------------------------------------------
(* The verifier as an implementation of RunProtocol.                       *)
Entities ==
  ({"message", "toolCall", "span", "reasoning"} \X Ids)
    \cup ({"step"} \X (Tags \X StepNames))
    \cup ({"subagent"} \X SubagentIds)

openEntities ==
  ({"message"} \X activeMessages)
    \cup ({"toolCall"} \X activeToolCalls)
    \cup ({"span"} \X activeReasoningSpans)
    \cup ({"reasoning"} \X activeReasoningMessages)
    \cup ({"step"} \X activeSteps)
    \cup ({"subagent"} \X activeSubagents)

phase ==
  IF streamFailed THEN "failed"
  ELSE IF runError THEN "errored"
  ELSE IF runFinished THEN "finished"
  ELSE IF runStarted THEN "running"
  ELSE "idle"

Protocol == INSTANCE RunProtocol WITH open <- openEntities

(* Every step of the verifier is a step of RunProtocol or leaves its state *)
(* alone: across all the maps of verify.ts, an accepted event opens or     *)
(* closes at most one entity, and only in a run.                           *)
ImplementsRunProtocol == Protocol!PSpec
=============================================================================
