------------------------ MODULE EventVerifier_proofs ------------------------
(***************************************************************************)
(* Proofs about EventVerifier, for any sets of ids, subagents, step names, *)
(* histories and event types.                                              *)
(***************************************************************************)
EXTENDS EventVerifier, NaturalLemmas

OwnerMap == [Kinds -> [Ids -> Tags \cup {Unowned}]]

(* seedOwnersFromMessages: the index that SeedOwners picks is one of the   *)
(* messages that claim the id.                                             *)
LEMMA ClaimantPicked ==
  ASSUME NEW messages \in Seq(Message), NEW k, NEW id,
         Claimants(messages, k, id) # {}
  PROVE  /\ Earliest(Claimants(messages, k, id)) \in DOMAIN messages
         /\ Latest(Claimants(messages, k, id)) \in DOMAIN messages
<1> DEFINE I == Claimants(messages, k, id)
<1>1. I \subseteq DOMAIN messages
  BY DEF Claimants
<1>2. DOMAIN messages = 1 .. Len(messages) /\ Len(messages) \in Nat
  OBVIOUS
<1> HIDE DEF I
<1>3. I \subseteq 1 .. Len(messages) /\ I \subseteq Nat /\ I # {}
  BY <1>1, <1>2 DEF I
<1>4. \E i \in I : \A j \in I : i <= j
  BY <1>3, LeastExists
<1>5. \E i \in I : \A j \in I : i >= j
  BY <1>2, <1>3, GreatestExists
<1>6. Earliest(I) \in I /\ Latest(I) \in I
  BY <1>4, <1>5 DEF Earliest, Latest
<1> QED BY <1>1, <1>6 DEF I

(* Seeding yields a well-typed owner map and forgets no owner.             *)
LEMMA SeedOwnersType ==
  ASSUME NEW recorded \in OwnerMap, NEW messages \in Seq(Message),
         NoNullTags(messages), NEW authoritative \in BOOLEAN
  PROVE  /\ SeedOwners(recorded, messages, authoritative) \in OwnerMap
         /\ \A k \in Kinds, id \in Ids : recorded[k][id] # Unowned =>
              SeedOwners(recorded, messages, authoritative)[k][id] # Unowned
<1>1. ASSUME NEW i \in DOMAIN messages
      PROVE  messages[i].subagentRunId \in Tags
  <2>1. messages[i] \in Message
    OBVIOUS
  <2>2. messages[i].subagentRunId \in WireTags
    BY <2>1 DEF Message
  <2> QED BY <2>2 DEF NoNullTags, WireTags
<1>2. Unowned \notin Tags
  BY UnownedIsNoTag DEF WireTags
<1>3. ASSUME NEW k \in Kinds, NEW id \in Ids
      PROVE  LET v == SeedOwners(recorded, messages, authoritative)[k][id] IN
             v = recorded[k][id] \/ v \in Tags
  <2> DEFINE I == Claimants(messages, k, id)
             v == SeedOwners(recorded, messages, authoritative)[k][id]
  <2>1. v = IF I = {} \/ (~authoritative /\ recorded[k][id] # Unowned)
              THEN recorded[k][id]
              ELSE messages[IF authoritative THEN Latest(I) ELSE Earliest(I)].subagentRunId
    BY DEF SeedOwners
  <2>2. I # {} => Latest(I) \in DOMAIN messages /\ Earliest(I) \in DOMAIN messages
    BY ClaimantPicked
  <2> QED BY <1>1, <2>1, <2>2
<1>4. ASSUME NEW k \in Kinds, NEW id \in Ids
      PROVE  recorded[k][id] \in Tags \cup {Unowned}
  BY DEF OwnerMap
<1>5. SeedOwners(recorded, messages, authoritative)
        = [k \in Kinds |-> [id \in Ids |->
             SeedOwners(recorded, messages, authoritative)[k][id]]]
  BY DEF SeedOwners
<1> HIDE DEF SeedOwners
<1>6. \A k \in Kinds, id \in Ids :
        SeedOwners(recorded, messages, authoritative)[k][id] \in Tags \cup {Unowned}
  BY <1>3, <1>4
<1>7. SeedOwners(recorded, messages, authoritative) \in OwnerMap
  BY <1>5, <1>6 DEF OwnerMap
<1> QED BY <1>2, <1>3, <1>7

-----------------------------------------------------------------------------
(* The fields that the verifier reads of an event, by its type.            *)
LEMMA EventFields ==
  ASSUME NEW e \in EveryEvent
  PROVE  /\ e.type \in TextTypes \cup ReasoningTypes \cup
                {"ACTIVITY_DELTA", "TOOL_CALL_RESULT", "ACTIVITY_SNAPSHOT"}
              => e.messageId \in Ids /\ Tag(e) \in Tags
         /\ e.type \in {"TOOL_CALL_START", "TOOL_CALL_ARGS", "TOOL_CALL_END"}
              => e.toolCallId \in Ids /\ Tag(e) \in Tags
         /\ e.type = "TOOL_CALL_START" => e.parentMessageId \in Ids \cup {Absent}
         /\ e.type \in {"STEP_STARTED", "STEP_FINISHED"}
              => e.stepName \in StepNames /\ Tag(e) \in Tags
         /\ e.type = "ACTIVITY_SNAPSHOT" => e.replace \in BOOLEAN
         /\ e.type \in SubagentTypes => e.subagentRunId \in SubagentIds
         /\ e.type \in {"RUN_STARTED", "MESSAGES_SNAPSHOT"}
              => e.messages \in Histories /\ e.messages \in Seq(Message)
<1> USE DEF EveryEvent, TextTypes, ReasoningTypes, SubagentTypes, Tag, Tags,
        WireTags
<1>1. CASE e \in MessageEvent
  BY <1>1 DEF MessageEvent
<1>2. CASE e \in ToolCallStartEvent
  BY <1>2 DEF ToolCallStartEvent
<1>3. CASE e \in ToolCallEvent
  BY <1>3 DEF ToolCallEvent
<1>4. CASE e \in StepEvent
  BY <1>4 DEF StepEvent
<1>5. CASE e \in ActivitySnapshotEvent
  BY <1>5 DEF ActivitySnapshotEvent
<1>6. CASE e \in EncryptedEvent
  BY <1>6 DEF EncryptedEvent
<1>7. CASE e \in SubagentEvent
  BY <1>7 DEF SubagentEvent
<1>8. CASE e \in RunEvent
  BY <1>8, HistoriesType DEF RunEvent
<1>9. CASE e \in OtherEvent
  BY <1>9 DEF OtherEvent
<1> QED
  BY <1>1, <1>2, <1>3, <1>4, <1>5, <1>6, <1>7, <1>8, <1>9

(* Claim keeps the owner map well typed, records the id and forgets none.  *)
LEMMA ClaimFacts ==
  ASSUME owners \in OwnerMap, NEW kind \in Kinds, NEW id \in Ids, NEW tag \in Tags
  PROVE  /\ Claim(kind, id, tag) \in OwnerMap
         /\ Claim(kind, id, tag)[kind][id] # Unowned
         /\ \A k \in Kinds, i \in Ids :
              owners[k][i] # Unowned => Claim(kind, id, tag)[k][i] = owners[k][i]
<1>1. Unowned \notin Tags
  BY UnownedIsNoTag DEF WireTags
<1>2. CASE owners[kind][id] = Unowned
  <2>1. Claim(kind, id, tag) = [owners EXCEPT ![kind][id] = tag]
    BY <1>2 DEF Claim
  <2>2. [owners EXCEPT ![kind][id] = tag] \in OwnerMap
    BY DEF OwnerMap
  <2> QED BY <1>1, <1>2, <2>1, <2>2 DEF OwnerMap
<1>3. CASE owners[kind][id] # Unowned
  BY <1>3 DEF Claim
<1> QED BY <1>2, <1>3

-----------------------------------------------------------------------------
(* No subagent is both running and terminated.                             *)
SubagentsRunOnce == activeSubagents \cap closedSubagents = {}

(* The inductive invariant.  FinishedMeansClosed needs FlagsAgree (an      *)
(* event that opens something finds the run unfinished), OpenHasOwner the  *)
(* type of the owner map, and FlagsAgree the knowledge that nothing is on  *)
(* record before the first run.                                            *)
IInv ==
  TypeOK /\ OpenHasOwner /\ FinishedMeansClosed /\ SubagentsRunOnce /\ FlagsAgree

(* An event other than RUN_STARTED and RUN_ERROR is accepted only while a  *)
(* run is going on.                                                        *)
LEMMA OnlyInRun ==
  ASSUME IInv, NEW e, Accepted(e), e.type \notin {"RUN_STARTED", "RUN_ERROR"}
  PROVE  /\ firstEventReceived = TRUE /\ runStarted = TRUE
         /\ runFinished = FALSE /\ runError = FALSE
  BY DEF IInv, TypeOK, FlagsAgree, Accepted, Accepts, RunAllows

(* The accepted openers and the other events that write the owner map.     *)
LEMMA OwnerWriters ==
  ASSUME IInv, NEW e \in EveryEvent
  PROVE  /\ TextMessageStart(e) => IInv'
         /\ ToolCallStart(e) => IInv'
         /\ ToolCallResult(e) => IInv'
         /\ ActivitySnapshot(e) => IInv'
         /\ ReasoningStart(e) => IInv'
         /\ MessagesSnapshot(e) => IInv'
<1> USE DEF IInv, FinishedMeansClosed, SubagentsRunOnce, NothingOpen
<1>0. owners \in OwnerMap /\ Unowned \notin Tags
  BY UnownedIsNoTag DEF TypeOK, OwnerMap, WireTags
<1>1. ASSUME TextMessageStart(e) PROVE IInv'
  <2>1. Accepted(e) /\ e.messageId \in Ids /\ Tag(e) \in Tags /\ "message" \in Kinds
    BY <1>1, EventFields DEF TextMessageStart, TextTypes, Kinds
  <2>2. firstEventReceived /\ runStarted /\ ~runFinished /\ ~runError
    BY <1>1, <2>1, OnlyInRun DEF TextMessageStart
  <2>3. owners' \in OwnerMap /\ owners'["message"][e.messageId] # Unowned
        /\ \A k \in Kinds, i \in Ids :
             owners[k][i] # Unowned => owners'[k][i] # Unowned
    BY <1>0, <1>1, <2>1, ClaimFacts DEF TextMessageStart
  <2>4. TypeOK'
    BY <1>1, <2>1, <2>3 DEF TextMessageStart, Accepted, TypeOK, OwnerMap,
         subagentVars, runVars
  <2>5. OpenHasOwner'
    BY <1>1, <2>1, <2>3 DEF TextMessageStart, OpenHasOwner, TypeOK, Kinds
  <2> QED BY <1>1, <2>2, <2>4, <2>5 DEF TextMessageStart, Accepted, FlagsAgree,
               subagentVars, runVars
<1>2. ASSUME ToolCallStart(e) PROVE IInv'
  <2> DEFINE owner == IF Tag(e) = Absent /\ Inherited(e) # Unowned
                        THEN Inherited(e) ELSE Tag(e)
  <2>1. Accepted(e) /\ e.toolCallId \in Ids /\ owner \in Tags /\ "toolCall" \in Kinds
    BY <1>0, <1>2, EventFields DEF ToolCallStart, Kinds, Inherited, OwnerMap
  <2>2. firstEventReceived /\ runStarted /\ ~runFinished /\ ~runError
    BY <1>2, <2>1, OnlyInRun DEF ToolCallStart
  <2>3. owners' \in OwnerMap /\ owners'["toolCall"][e.toolCallId] # Unowned
        /\ \A k \in Kinds, i \in Ids :
             owners[k][i] # Unowned => owners'[k][i] # Unowned
    BY <1>0, <1>2, <2>1, ClaimFacts DEF ToolCallStart
  <2>4. TypeOK'
    BY <1>2, <2>1, <2>3 DEF ToolCallStart, Accepted, TypeOK, OwnerMap,
         subagentVars, runVars
  <2>5. OpenHasOwner'
    BY <1>2, <2>1, <2>3 DEF ToolCallStart, OpenHasOwner, TypeOK, Kinds
  <2> QED BY <1>2, <2>2, <2>4, <2>5 DEF ToolCallStart, Accepted, FlagsAgree,
               subagentVars, runVars
<1>3. ASSUME ToolCallResult(e) PROVE IInv'
  <2>1. Accepted(e) /\ e.messageId \in Ids /\ Tag(e) \in Tags /\ "message" \in Kinds
    BY <1>3, EventFields DEF ToolCallResult, Kinds
  <2>2. firstEventReceived /\ runStarted /\ ~runFinished /\ ~runError
    BY <1>3, <2>1, OnlyInRun DEF ToolCallResult
  <2>3. owners' \in OwnerMap
        /\ \A k \in Kinds, i \in Ids :
             owners[k][i] # Unowned => owners'[k][i] # Unowned
    BY <1>0, <1>3, <2>1 DEF ToolCallResult, OwnerMap
  <2>4. TypeOK' /\ OpenHasOwner'
    BY <1>3, <2>1, <2>3 DEF ToolCallResult, Accepted, TypeOK, OwnerMap, OpenHasOwner,
         Kinds, openVars, subagentVars, runVars
  <2> QED BY <1>3, <2>2, <2>4 DEF ToolCallResult, Accepted, FlagsAgree,
               openVars, subagentVars, runVars
<1>4. ASSUME ActivitySnapshot(e) PROVE IInv'
  <2>1. Accepted(e) /\ e.messageId \in Ids /\ Tag(e) \in Tags /\ "activity" \in Kinds
    BY <1>4, EventFields DEF ActivitySnapshot, Kinds
  <2>2. firstEventReceived /\ runStarted /\ ~runFinished /\ ~runError
    BY <1>4, <2>1, OnlyInRun DEF ActivitySnapshot
  <2>3. owners' \in OwnerMap
        /\ \A k \in Kinds, i \in Ids :
             owners[k][i] # Unowned => owners'[k][i] # Unowned
    <3>1. CASE e.replace
      BY <1>0, <1>4, <2>1, <3>1 DEF ActivitySnapshot, OwnerMap
    <3>2. CASE ~e.replace
      BY <1>0, <1>4, <2>1, <3>2, ClaimFacts DEF ActivitySnapshot
    <3> QED BY <3>1, <3>2
  <2>4. TypeOK' /\ OpenHasOwner'
    BY <1>4, <2>1, <2>3 DEF ActivitySnapshot, Accepted, TypeOK, OwnerMap, OpenHasOwner,
         Kinds, openVars, subagentVars, runVars
  <2> QED BY <1>4, <2>2, <2>4 DEF ActivitySnapshot, Accepted, FlagsAgree,
               openVars, subagentVars, runVars
<1>5. ASSUME ReasoningStart(e) PROVE IInv'
  <2>1. Accepted(e) /\ e.messageId \in Ids /\ Tag(e) \in Tags /\ "reasoning" \in Kinds
    BY <1>5, EventFields DEF ReasoningStart, ReasoningTypes, Kinds
  <2>2. firstEventReceived /\ runStarted /\ ~runFinished /\ ~runError
    BY <1>5, <2>1, OnlyInRun DEF ReasoningStart
  <2>3. owners' \in OwnerMap /\ owners'["reasoning"][e.messageId] # Unowned
        /\ \A k \in Kinds, i \in Ids :
             owners[k][i] # Unowned => owners'[k][i] # Unowned
    BY <1>0, <1>5, <2>1, ClaimFacts DEF ReasoningStart
  <2>4. TypeOK'
    BY <1>5, <2>1, <2>3 DEF ReasoningStart, Accepted, TypeOK, OwnerMap,
         subagentVars, runVars
  <2>5. OpenHasOwner'
    BY <1>5, <2>1, <2>3 DEF ReasoningStart, OpenHasOwner, TypeOK, Kinds
  <2> QED BY <1>5, <2>2, <2>4, <2>5 DEF ReasoningStart, Accepted, FlagsAgree,
               subagentVars, runVars
<1>6. ASSUME MessagesSnapshot(e) PROVE IInv'
  <2>1. Accepted(e) /\ e.messages \in Seq(Message) /\ NoNullTags(e.messages)
    BY <1>6, EventFields DEF MessagesSnapshot, Accepted, Accepts, CaseAllows
  <2>2. firstEventReceived /\ runStarted /\ ~runFinished /\ ~runError
    BY <1>6, <2>1, OnlyInRun DEF MessagesSnapshot
  <2>3. owners' \in OwnerMap
        /\ \A k \in Kinds, i \in Ids :
             owners[k][i] # Unowned => owners'[k][i] # Unowned
    BY <1>0, <1>6, <2>1, SeedOwnersType DEF MessagesSnapshot
  <2>4. TypeOK' /\ OpenHasOwner'
    BY <1>6, <2>1, <2>3 DEF MessagesSnapshot, Accepted, TypeOK, OwnerMap, OpenHasOwner,
         Kinds, openVars, subagentVars, runVars
  <2> QED BY <1>6, <2>2, <2>4 DEF MessagesSnapshot, Accepted, FlagsAgree,
               openVars, subagentVars, runVars
<1> QED BY <1>1, <1>2, <1>3, <1>4, <1>5, <1>6

(* RUN_STARTED: whether it is the first event or follows a run that ended, *)
(* the state it leaves depends on its own echo alone.                      *)
LEMMA RunStartedIsFresh ==
  ASSUME IInv, NEW e \in EveryEvent, RunStarted(e)
  PROVE  /\ NothingOpen' /\ closedSubagents' = {}
         /\ runStarted' = TRUE /\ runFinished' = FALSE /\ runError' = FALSE
         /\ firstEventReceived' = TRUE
         /\ owners' = SeedOwners(NoOwners, e.messages, FALSE)
         /\ ~runStarted \/ runFinished \/ runError
<1>1. Accepts(e) /\ e.type = "RUN_STARTED" /\ firstEventReceived' = TRUE
  BY DEF RunStarted, Accepted
<1>2. CASE firstEventReceived
  <2>1. runFinished \/ runError
    BY <1>1, <1>2 DEF IInv, FlagsAgree, Accepts, RunAllows
  <2> QED BY <1>1, <1>2, <2>1 DEF RunStarted, ResetRunState, NothingOpen
<1>3. CASE ~firstEventReceived
  <2>1. ~runStarted /\ ~runError /\ ~runFinished
    BY <1>3 DEF IInv, FlagsAgree
  <2>2. NothingOpen /\ closedSubagents = {} /\ owners = NoOwners
    BY <2>1 DEF IInv, FlagsAgree
  <2> QED BY <1>1, <1>3, <2>1, <2>2 DEF RunStarted, ResetRunState, NothingOpen, openVars, subagentVars,
               IInv, TypeOK
<1> QED BY <1>2, <1>3

(* resetRunState leaves a well-typed owner map.                            *)
LEMMA NoOwnersType == NoOwners \in OwnerMap
  BY DEF NoOwners, OwnerMap

(* RUN_STARTED establishes the invariant anew.                             *)
LEMMA RunStartedStep ==
  ASSUME IInv, NEW e \in EveryEvent, RunStarted(e)
  PROVE  IInv'
<1>1. e.messages \in Seq(Message) /\ NoNullTags(e.messages)
  BY EventFields DEF RunStarted, Accepted, Accepts, CaseAllows
<1>2. owners' \in OwnerMap
  BY <1>1, RunStartedIsFresh, SeedOwnersType, NoOwnersType
<1>3. streamFailed' \in BOOLEAN
  BY DEF RunStarted, Accepted, IInv, TypeOK
<1>4. TypeOK'
  BY <1>2, <1>3, RunStartedIsFresh DEF TypeOK, OwnerMap, NothingOpen
<1> QED BY <1>4, RunStartedIsFresh DEF IInv, OpenHasOwner, FinishedMeansClosed,
             SubagentsRunOnce, FlagsAgree, NothingOpen

(* The events that write no owner.                                         *)
LEMMA OtherSteps ==
  ASSUME IInv, NEW e \in EveryEvent
  PROVE  /\ TextMessageEnd(e) => IInv'
         /\ ToolCallEnd(e) => IInv'
         /\ StepStarted(e) => IInv'
         /\ StepFinished(e) => IInv'
         /\ ReasoningEnd(e) => IInv'
         /\ PassThrough(e) => IInv'
         /\ SubagentStarted(e) => IInv'
         /\ SubagentClosed(e) => IInv'
         /\ RunFinished(e) => IInv'
         /\ RunError(e) => IInv'
         /\ Reject(e) => IInv'
<1> USE DEF IInv, TypeOK, OpenHasOwner, FinishedMeansClosed, SubagentsRunOnce,
        FlagsAgree, NothingOpen, openVars, subagentVars, runVars
<1>1. ASSUME TextMessageEnd(e) PROVE IInv'
  <2>1. /\ firstEventReceived = TRUE /\ runStarted = TRUE
        /\ runFinished = FALSE /\ runError = FALSE
    BY <1>1, OnlyInRun DEF TextMessageEnd
  <2> QED BY <1>1, <2>1 DEF TextMessageEnd, Accepted
<1>2. ASSUME ToolCallEnd(e) PROVE IInv'
  <2>1. /\ firstEventReceived = TRUE /\ runStarted = TRUE
        /\ runFinished = FALSE /\ runError = FALSE
    BY <1>2, OnlyInRun DEF ToolCallEnd
  <2> QED BY <1>2, <2>1 DEF ToolCallEnd, Accepted
<1>3. ASSUME StepStarted(e) PROVE IInv'
  <2>1. /\ firstEventReceived = TRUE /\ runStarted = TRUE
        /\ runFinished = FALSE /\ runError = FALSE
        /\ e.stepName \in StepNames /\ Tag(e) \in Tags
    BY <1>3, OnlyInRun, EventFields DEF StepStarted
  <2> QED BY <1>3, <2>1 DEF StepStarted, Accepted
<1>4. ASSUME StepFinished(e) PROVE IInv'
  <2>1. /\ firstEventReceived = TRUE /\ runStarted = TRUE
        /\ runFinished = FALSE /\ runError = FALSE
    BY <1>4, OnlyInRun DEF StepFinished
  <2> QED BY <1>4, <2>1 DEF StepFinished, Accepted
<1>5. ASSUME ReasoningEnd(e) PROVE IInv'
  <2>1. /\ firstEventReceived = TRUE /\ runStarted = TRUE
        /\ runFinished = FALSE /\ runError = FALSE
    BY <1>5, OnlyInRun DEF ReasoningEnd
  <2> QED BY <1>5, <2>1 DEF ReasoningEnd, Accepted
<1>6. ASSUME PassThrough(e) PROVE IInv'
  <2>1. /\ firstEventReceived = TRUE /\ runStarted = TRUE
        /\ runFinished = FALSE /\ runError = FALSE
    BY <1>6, OnlyInRun DEF PassThrough
  <2> QED BY <1>6, <2>1 DEF PassThrough, Accepted
<1>7. ASSUME SubagentStarted(e) PROVE IInv'
  <2>1. /\ firstEventReceived = TRUE /\ runStarted = TRUE
        /\ runFinished = FALSE /\ runError = FALSE
        /\ e.subagentRunId \in SubagentIds
    BY <1>7, OnlyInRun, EventFields DEF SubagentStarted, SubagentTypes
  <2>2. e.subagentRunId \notin closedSubagents
    BY <1>7 DEF SubagentStarted, Accepted, Accepts, CaseAllows, MayStartSubagent
  <2> QED BY <1>7, <2>1, <2>2 DEF SubagentStarted, Accepted
<1>8. ASSUME SubagentClosed(e) PROVE IInv'
  <2>1. /\ firstEventReceived = TRUE /\ runStarted = TRUE
        /\ runFinished = FALSE /\ runError = FALSE
        /\ e.subagentRunId \in SubagentIds
    BY <1>8, OnlyInRun, EventFields DEF SubagentClosed, SubagentTypes
  <2> QED BY <1>8, <2>1 DEF SubagentClosed, Accepted
<1>9. ASSUME RunFinished(e) PROVE IInv'
  <2>1. /\ firstEventReceived = TRUE /\ runStarted = TRUE
        /\ runFinished = FALSE /\ runError = FALSE
    BY <1>9, OnlyInRun DEF RunFinished
  <2>2. NothingOpen
    BY <1>9 DEF RunFinished, Accepted, Accepts, CaseAllows
  <2> QED BY <1>9, <2>1, <2>2 DEF RunFinished, Accepted
<1>10. ASSUME RunError(e) PROVE IInv'
  BY <1>10 DEF RunError, Accepted
<1>11. ASSUME Reject(e) PROVE IInv'
  BY <1>11 DEF Reject
<1> QED BY <1>1, <1>2, <1>3, <1>4, <1>5, <1>6, <1>7, <1>8, <1>9, <1>10, <1>11

(* The invariant holds of the fresh closure of verifyEvents.               *)
LEMMA InitIInv == Init => IInv
  BY NoOwnersType DEF Init, IInv, TypeOK, OwnerMap, OpenHasOwner, FinishedMeansClosed,
     SubagentsRunOnce, FlagsAgree, NothingOpen

(* Every event, accepted or refused, preserves the invariant, also one     *)
(* that no producer sent but the chunk expansion synthesized.              *)
LEMMA EventIInv ==
  ASSUME IInv, NEW e \in EveryEvent, Accept(e) \/ Reject(e)
  PROVE  IInv'
  BY OwnerWriters, RunStartedStep, OtherSteps DEF Accept

LEMMA EventsAreEvents == Event \subseteq EveryEvent
  BY DEF Event

LEMMA NextIInv == IInv /\ [Next]_vars => IInv'
<1> SUFFICES ASSUME IInv, [Next]_vars PROVE IInv'
  OBVIOUS
<1>1. CASE Next
  <2>1. PICK e \in Event : Accept(e) \/ Reject(e)
    BY <1>1 DEF Next
  <2> QED BY <2>1, EventIInv, EventsAreEvents
<1>2. CASE UNCHANGED vars
  BY <1>2 DEF vars, openVars, subagentVars, runVars, IInv, TypeOK, OpenHasOwner,
     FinishedMeansClosed, SubagentsRunOnce, FlagsAgree, NothingOpen
<1> QED BY <1>1, <1>2

(* The inductive invariant: types, owners of what is open, a finished run  *)
(* closed, subagent ids used once and the run flags of verifyEvents in     *)
(* agreement, at every point of every stream.                              *)
THEOREM InvariantHolds == Spec => []IInv
  BY InitIInv, NextIInv, PTL DEF Spec

(* The state of verifyEvents keeps its types: owner maps hold tags of the  *)
(* stream only (never the null that history may carry), steps are keyed by *)
(* owner and name, and every open id is an id.                             *)
THEOREM TypeCorrect == Spec => []TypeOK
<1>1. IInv => TypeOK
  BY DEF IInv
<1> QED BY <1>1, InvariantHolds, PTL

(* Every open entity has a recorded owner, so the attribution check of a   *)
(* continuation is never vacuous.                                          *)
THEOREM OpenEntitiesOwned == Spec => []OpenHasOwner
<1>1. IInv => OpenHasOwner
  BY DEF IInv
<1> QED BY <1>1, InvariantHolds, PTL

(* A finished run has nothing open, for any interleaving of producers and  *)
(* any number of runs on the stream.                                       *)
THEOREM FinishedRunsClosed == Spec => []FinishedMeansClosed
<1>1. IInv => FinishedMeansClosed
  BY DEF IInv
<1> QED BY <1>1, InvariantHolds, PTL

-----------------------------------------------------------------------------
(* Action properties.                                                      *)

(* Only RUN_STARTED begins a run: no other event lowers runFinished or     *)
(* runError or raises runStarted.                                          *)
LEMMA OnlyRunStartedBegins ==
  ASSUME IInv, NEW e \in EveryEvent, Accept(e) \/ Reject(e)
  PROVE  RunBegins <=> RunStarted(e)
<1>1. RunStarted(e) => RunBegins
  BY RunStartedIsFresh DEF RunBegins
<1>2. ASSUME ~RunStarted(e) PROVE ~RunBegins
  <2>1. /\ runStarted' = runStarted
        /\ runFinished' = runFinished \/ runFinished' = TRUE
        /\ runError' = runError \/ runError' = TRUE
    BY <1>2 DEF Accept, Reject, TextMessageStart, TextMessageEnd, ToolCallStart,
       ToolCallEnd, ToolCallResult, StepStarted, StepFinished, ActivitySnapshot,
       ReasoningStart, ReasoningEnd, PassThrough, SubagentStarted, SubagentClosed,
       MessagesSnapshot, RunFinished, RunError, runVars
  <2> QED BY <2>1, Zenon DEF RunBegins
<1> QED BY <1>1, <1>2

(* The step behind FreshRun: RUN_STARTED leaves nothing of earlier runs.   *)
LEMMA FreshRunStep ==
  ASSUME IInv, [Next]_vars, RunBegins
  PROVE  /\ NothingOpen' /\ closedSubagents' = {}
         /\ \E h \in Histories : owners' = SeedOwners(NoOwners, h, FALSE)
<1>1. ~UNCHANGED vars
  <2> SUFFICES ASSUME runStarted' = runStarted, runFinished' = runFinished,
                      runError' = runError
               PROVE  FALSE
    BY DEF vars, runVars
  <2>1. CASE runStarted = TRUE /\ runFinished = FALSE /\ runError = FALSE
    BY <2>1 DEF RunBegins
  <2>2. CASE runStarted = FALSE \/ runFinished = TRUE \/ runError = TRUE
    BY <2>2 DEF RunBegins
  <2> QED BY <2>1, <2>2 DEF IInv, TypeOK
<1>2. PICK e \in Event : Accept(e) \/ Reject(e)
  BY <1>1 DEF Next
<1> e \in EveryEvent
  BY EventsAreEvents
<1>3. RunStarted(e)
  BY <1>2, OnlyRunStartedBegins
<1>4. e.messages \in Histories
  BY <1>3, EventFields DEF RunStarted
<1> QED BY <1>3, <1>4, RunStartedIsFresh

(* A run started after any earlier run, finished or errored, inherits no   *)
(* open entity, no used-up subagent id and no owner from it: resetRunState *)
(* forgets nothing, and the first run has nothing to forget.               *)
THEOREM RunsStartFresh == Spec => FreshRun
<1>1. IInv /\ [Next]_vars =>
        [RunBegins => /\ NothingOpen' /\ closedSubagents' = {}
                      /\ \E h \in Histories :
                           owners' = SeedOwners(NoOwners, h, FALSE)]_vars
  BY FreshRunStep
<1> QED BY <1>1, InvariantHolds, PTL DEF Spec, FreshRun

(* The step behind NoSubagentRestarts.                                     *)
LEMMA SubagentStep ==
  ASSUME IInv, [Next]_vars, ~RunBegins
  PROVE  /\ closedSubagents \subseteq closedSubagents'
         /\ activeSubagents \subseteq activeSubagents' \cup closedSubagents'
         /\ activeSubagents' \cap closedSubagents = {}
<1>0. activeSubagents \cap closedSubagents = {}
  BY DEF IInv, SubagentsRunOnce
<1>1. CASE UNCHANGED vars
  BY <1>0, <1>1 DEF vars, subagentVars
<1>2. CASE Next
  <2>1. PICK e \in Event : Accept(e) \/ Reject(e)
    BY <1>2 DEF Next
  <2> e \in EveryEvent
    BY EventsAreEvents
  <2>2. ~RunStarted(e)
    BY <2>1, OnlyRunStartedBegins
  <2>3. CASE SubagentStarted(e)
    <3>1. e.subagentRunId \notin closedSubagents
      BY <2>3 DEF SubagentStarted, Accepted, Accepts, CaseAllows, MayStartSubagent
    <3> QED BY <1>0, <2>3, <3>1 DEF SubagentStarted
  <2>4. CASE SubagentClosed(e)
    BY <1>0, <2>4 DEF SubagentClosed
  <2>5. CASE ~SubagentStarted(e) /\ ~SubagentClosed(e)
    <3>1. UNCHANGED subagentVars
      BY <2>1, <2>2, <2>5 DEF Accept, Reject, TextMessageStart, TextMessageEnd,
         ToolCallStart, ToolCallEnd, ToolCallResult, StepStarted, StepFinished,
         ActivitySnapshot, ReasoningStart, ReasoningEnd, PassThrough,
         MessagesSnapshot, RunFinished, RunError
    <3> QED BY <1>0, <3>1 DEF subagentVars
  <2> QED BY <2>3, <2>4, <2>5
<1> QED BY <1>1, <1>2

(* Within a run no subagent id is started twice, and none is lost: it is   *)
(* active until it has terminated, and terminated for good.                *)
THEOREM SubagentsNeverRestart == Spec => NoSubagentRestarts
<1>1. IInv /\ [Next]_vars =>
        [~RunBegins => /\ closedSubagents \subseteq closedSubagents'
                       /\ activeSubagents \subseteq activeSubagents' \cup closedSubagents'
                       /\ activeSubagents' \cap closedSubagents = {}]_vars
  BY SubagentStep
<1> QED BY <1>1, InvariantHolds, PTL DEF Spec, NoSubagentRestarts

(* The step behind OwnersSettled.                                          *)
LEMMA OwnerStep ==
  ASSUME IInv, [Next]_vars, ~RunBegins, NEW k \in Kinds, NEW id \in Ids,
         owners[k][id] # Unowned, owners'[k][id] # owners[k][id]
  PROVE  /\ owners'[k][id] # Unowned
         /\ \E e \in Event : Accept(e) /\ Reowns(e, k, id)
<1>0. owners \in OwnerMap /\ Unowned \notin Tags
  BY UnownedIsNoTag DEF IInv, TypeOK, OwnerMap, WireTags
<1>1. ~UNCHANGED vars
  BY DEF vars
<1>2. PICK e \in Event : Accept(e) \/ Reject(e)
  BY <1>1 DEF Next
<1> e \in EveryEvent
  BY EventsAreEvents
<1>3. ~RunStarted(e)
  BY <1>2, OnlyRunStartedBegins
<1>4. ~UNCHANGED owners
  OBVIOUS
<1>5. \/ TextMessageStart(e) \/ ToolCallStart(e) \/ ToolCallResult(e)
      \/ ActivitySnapshot(e) \/ ReasoningStart(e) \/ MessagesSnapshot(e)
  BY <1>2, <1>3, <1>4 DEF Accept, Reject, TextMessageEnd, ToolCallEnd, StepStarted,
     StepFinished, ReasoningEnd, PassThrough, SubagentStarted, SubagentClosed,
     RunFinished, RunError
<1>6. ~TextMessageStart(e)
  BY <1>0, EventFields, ClaimFacts DEF TextMessageStart, TextTypes, Kinds
<1>7. ~ReasoningStart(e)
  BY <1>0, EventFields, ClaimFacts DEF ReasoningStart, ReasoningTypes, Kinds
<1>8. ~ToolCallStart(e)
  <2> SUFFICES ASSUME ToolCallStart(e) PROVE FALSE
    OBVIOUS
  <2> DEFINE owner == IF Tag(e) = Absent /\ Inherited(e) # Unowned
                        THEN Inherited(e) ELSE Tag(e)
  <2>1. e.toolCallId \in Ids /\ owner \in Tags /\ "toolCall" \in Kinds
    BY <1>0, EventFields DEF ToolCallStart, Kinds, Inherited, OwnerMap
  <2>2. owners' = Claim("toolCall", e.toolCallId, owner)
    BY DEF ToolCallStart
  <2> QED BY <1>0, <2>1, <2>2, ClaimFacts
<1>9. CASE ToolCallResult(e)
  <2>1. e.messageId \in Ids /\ Tag(e) \in Tags /\ e.type = "TOOL_CALL_RESULT"
    BY <1>9, EventFields DEF ToolCallResult
  <2>2. k = "message" /\ id = e.messageId /\ owners'[k][id] = Tag(e)
    BY <1>0, <1>9, <2>1 DEF ToolCallResult, OwnerMap, Kinds
  <2> QED BY <1>0, <1>9, <2>1, <2>2 DEF Accept, Reowns
<1>10. CASE ActivitySnapshot(e)
  <2>1. e.messageId \in Ids /\ Tag(e) \in Tags /\ e.type = "ACTIVITY_SNAPSHOT"
        /\ "activity" \in Kinds
    BY <1>10, EventFields DEF ActivitySnapshot, Kinds
  <2>2. e.replace
    BY <1>0, <1>10, <2>1, ClaimFacts DEF ActivitySnapshot
  <2>3. k = "activity" /\ id = e.messageId /\ owners'[k][id] = Tag(e)
    BY <1>0, <1>10, <2>1, <2>2 DEF ActivitySnapshot, OwnerMap
  <2> QED BY <1>0, <1>10, <2>1, <2>2, <2>3 DEF Accept, Reowns
<1>11. CASE MessagesSnapshot(e)
  <2>1. e.messages \in Seq(Message) /\ NoNullTags(e.messages)
        /\ e.type = "MESSAGES_SNAPSHOT"
    BY <1>11, EventFields DEF MessagesSnapshot, Accepted, Accepts, CaseAllows
  <2>2. owners'[k][id] # Unowned
    BY <1>0, <1>11, <2>1, SeedOwnersType DEF MessagesSnapshot
  <2> QED BY <1>11, <2>1, <2>2 DEF Accept, Reowns
<1> QED BY <1>5, <1>6, <1>7, <1>8, <1>9, <1>10, <1>11

(* Owners settle with the first writer: within a run only a messages       *)
(* snapshot, a tool result or a replacing activity snapshot moves one, and *)
(* none is ever forgotten.                                                 *)
THEOREM OwnersSettle == Spec => OwnersSettled
<1>1. IInv /\ [Next]_vars =>
        [~RunBegins =>
           \A k \in Kinds, id \in Ids :
             owners[k][id] # Unowned /\ owners'[k][id] # owners[k][id]
               => /\ owners'[k][id] # Unowned
                  /\ \E e \in Event : Accept(e) /\ Reowns(e, k, id)]_vars
  BY OwnerStep
<1> QED BY <1>1, InvariantHolds, PTL DEF Spec, OwnersSettled

-----------------------------------------------------------------------------
(* Refinement.                                                             *)

(* While a run is going on and stays so, the mapped phase is running.      *)
LEMMA RunningPhase ==
  ASSUME IInv, NEW e \in EveryEvent, Accepted(e),
         e.type \notin {"RUN_STARTED", "RUN_ERROR"}
  PROVE  phase = "running" /\ (UNCHANGED runVars => phase' = "running")
<1>1. streamFailed = FALSE /\ streamFailed' = FALSE
  BY DEF Accepted, IInv, TypeOK
<1>2. runStarted = TRUE /\ runFinished = FALSE /\ runError = FALSE
  BY OnlyInRun
<1>3. phase = "running"
  BY <1>1, <1>2 DEF phase
<1>4. ASSUME UNCHANGED runVars PROVE phase' = "running"
  <2>1. runStarted' = TRUE /\ runFinished' = FALSE /\ runError' = FALSE
    BY <1>2, <1>4 DEF runVars
  <2> QED BY <1>1, <2>1 DEF phase
<1> QED BY <1>3, <1>4

(* Opening or closing one entity, in the terms of the abstract protocol.   *)
LEMMA OpenOne ==
  ASSUME NEW x \in Entities, phase = "running", phase' = "running",
         x \notin openEntities, openEntities' = openEntities \cup {x}
  PROVE  Protocol!PNext
  BY DEF Protocol!PNext, Protocol!Open

(* The same for an event that closes an entity.                            *)
LEMMA CloseOne ==
  ASSUME NEW x \in Entities, phase = "running", phase' = "running",
         x \in openEntities, openEntities' = openEntities \ {x}
  PROVE  Protocol!PNext
  BY DEF Protocol!PNext, Protocol!Close

(* Each opener and each closer moves exactly one entity.                   *)
LEMMA BracketSteps ==
  ASSUME IInv, NEW e \in EveryEvent
  PROVE  /\ TextMessageStart(e) => Protocol!PNext
         /\ TextMessageEnd(e) => Protocol!PNext
         /\ ToolCallStart(e) => Protocol!PNext
         /\ ToolCallEnd(e) => Protocol!PNext
         /\ StepStarted(e) => Protocol!PNext
         /\ StepFinished(e) => Protocol!PNext
         /\ SubagentStarted(e) => Protocol!PNext
         /\ SubagentClosed(e) => Protocol!PNext
         /\ ReasoningStart(e) => Protocol!PNext
         /\ ReasoningEnd(e) => Protocol!PNext
<1> USE DEF openVars, subagentVars
<1>1. ASSUME TextMessageStart(e) PROVE Protocol!PNext
  <2> DEFINE x == <<"message", e.messageId>>
  <2>1. x \in Entities
    BY <1>1, EventFields DEF TextMessageStart, Entities, TextTypes
  <2>2. e.messageId \notin activeMessages /\ activeMessages' = activeMessages \cup {e.messageId}
    BY <1>1 DEF TextMessageStart, Accepted, Accepts, CaseAllows, MayOpenMessage
  <2>3. x \notin openEntities /\ openEntities' = openEntities \cup {x}
    BY <1>1, <2>2 DEF TextMessageStart, openEntities
  <2>4. phase = "running" /\ phase' = "running"
    BY <1>1, RunningPhase DEF TextMessageStart
  <2> QED BY <2>1, <2>3, <2>4, OpenOne
<1>2. ASSUME TextMessageEnd(e) PROVE Protocol!PNext
  <2> DEFINE x == <<"message", e.messageId>>
  <2>1. x \in Entities
    BY <1>2, EventFields DEF TextMessageEnd, Entities, TextTypes
  <2>2. e.messageId \in activeMessages /\ activeMessages' = activeMessages \ {e.messageId}
    BY <1>2 DEF TextMessageEnd, Accepted, Accepts, CaseAllows, MayContinueMessage
  <2>3. x \in openEntities /\ openEntities' = openEntities \ {x}
    BY <1>2, <2>2 DEF TextMessageEnd, openEntities
  <2>4. phase = "running" /\ phase' = "running"
    BY <1>2, RunningPhase DEF TextMessageEnd
  <2> QED BY <2>1, <2>3, <2>4, CloseOne
<1>3. ASSUME ToolCallStart(e) PROVE Protocol!PNext
  <2> DEFINE x == <<"toolCall", e.toolCallId>>
  <2>1. x \in Entities
    BY <1>3, EventFields DEF ToolCallStart, Entities
  <2>2. e.toolCallId \notin activeToolCalls /\ activeToolCalls' = activeToolCalls \cup {e.toolCallId}
    BY <1>3 DEF ToolCallStart, Accepted, Accepts, CaseAllows, MayOpenToolCall
  <2>3. x \notin openEntities /\ openEntities' = openEntities \cup {x}
    BY <1>3, <2>2 DEF ToolCallStart, openEntities
  <2>4. phase = "running" /\ phase' = "running"
    BY <1>3, RunningPhase DEF ToolCallStart
  <2> QED BY <2>1, <2>3, <2>4, OpenOne
<1>4. ASSUME ToolCallEnd(e) PROVE Protocol!PNext
  <2> DEFINE x == <<"toolCall", e.toolCallId>>
  <2>1. x \in Entities
    BY <1>4, EventFields DEF ToolCallEnd, Entities
  <2>2. e.toolCallId \in activeToolCalls /\ activeToolCalls' = activeToolCalls \ {e.toolCallId}
    BY <1>4 DEF ToolCallEnd, Accepted, Accepts, CaseAllows, MayContinueToolCall
  <2>3. x \in openEntities /\ openEntities' = openEntities \ {x}
    BY <1>4, <2>2 DEF ToolCallEnd, openEntities
  <2>4. phase = "running" /\ phase' = "running"
    BY <1>4, RunningPhase DEF ToolCallEnd
  <2> QED BY <2>1, <2>3, <2>4, CloseOne
<1>5. ASSUME StepStarted(e) PROVE Protocol!PNext
  <2> DEFINE x == <<"step", <<Tag(e), e.stepName>>>>
  <2>1. x \in Entities
    BY <1>5, EventFields DEF StepStarted, Entities
  <2>2. <<Tag(e), e.stepName>> \notin activeSteps /\ activeSteps' = activeSteps \cup {<<Tag(e), e.stepName>>}
    BY <1>5 DEF StepStarted, Accepted, Accepts, CaseAllows
  <2>3. x \notin openEntities /\ openEntities' = openEntities \cup {x}
    BY <1>5, <2>2 DEF StepStarted, openEntities
  <2>4. phase = "running" /\ phase' = "running"
    BY <1>5, RunningPhase DEF StepStarted
  <2> QED BY <2>1, <2>3, <2>4, OpenOne
<1>6. ASSUME StepFinished(e) PROVE Protocol!PNext
  <2> DEFINE x == <<"step", <<Tag(e), e.stepName>>>>
  <2>1. x \in Entities
    BY <1>6, EventFields DEF StepFinished, Entities
  <2>2. <<Tag(e), e.stepName>> \in activeSteps /\ activeSteps' = activeSteps \ {<<Tag(e), e.stepName>>}
    BY <1>6 DEF StepFinished, Accepted, Accepts, CaseAllows
  <2>3. x \in openEntities /\ openEntities' = openEntities \ {x}
    BY <1>6, <2>2 DEF StepFinished, openEntities
  <2>4. phase = "running" /\ phase' = "running"
    BY <1>6, RunningPhase DEF StepFinished
  <2> QED BY <2>1, <2>3, <2>4, CloseOne
<1>7. ASSUME SubagentStarted(e) PROVE Protocol!PNext
  <2> DEFINE x == <<"subagent", e.subagentRunId>>
  <2>1. x \in Entities
    BY <1>7, EventFields DEF SubagentStarted, Entities, SubagentTypes
  <2>2. e.subagentRunId \notin activeSubagents /\ activeSubagents' = activeSubagents \cup {e.subagentRunId}
    BY <1>7 DEF SubagentStarted, Accepted, Accepts, CaseAllows, MayStartSubagent
  <2>3. x \notin openEntities /\ openEntities' = openEntities \cup {x}
    BY <1>7, <2>2 DEF SubagentStarted, openEntities
  <2>4. phase = "running" /\ phase' = "running"
    BY <1>7, RunningPhase DEF SubagentStarted
  <2> QED BY <2>1, <2>3, <2>4, OpenOne
<1>8. ASSUME SubagentClosed(e) PROVE Protocol!PNext
  <2> DEFINE x == <<"subagent", e.subagentRunId>>
  <2>1. x \in Entities
    BY <1>8, EventFields DEF SubagentClosed, Entities, SubagentTypes
  <2>2. e.subagentRunId \in activeSubagents /\ activeSubagents' = activeSubagents \ {e.subagentRunId}
    BY <1>8 DEF SubagentClosed, Accepted, Accepts, CaseAllows, MayCloseSubagent
  <2>3. x \in openEntities /\ openEntities' = openEntities \ {x}
    BY <1>8, <2>2 DEF SubagentClosed, openEntities
  <2>4. phase = "running" /\ phase' = "running"
    BY <1>8, RunningPhase DEF SubagentClosed
  <2> QED BY <2>1, <2>3, <2>4, CloseOne
<1>9. ASSUME ReasoningStart(e) PROVE Protocol!PNext
  <2> DEFINE span == <<"span", e.messageId>>
             msg == <<"reasoning", e.messageId>>
  <2>1. span \in Entities /\ msg \in Entities
    BY <1>9, EventFields DEF ReasoningStart, Entities, ReasoningTypes
  <2>2. e.messageId \notin OpenReasoning(e)
    BY <1>9 DEF ReasoningStart, Accepted, Accepts, CaseAllows, MayOpenReasoning
  <2>3. phase = "running" /\ phase' = "running"
    BY <1>9, RunningPhase DEF ReasoningStart
  <2>4. CASE e.type = "REASONING_START"
    <3>1. span \notin openEntities /\ openEntities' = openEntities \cup {span}
      BY <1>9, <2>2, <2>4 DEF ReasoningStart, OpenReasoning, openEntities
    <3> QED BY <2>1, <2>3, <3>1, OpenOne
  <2>5. CASE e.type # "REASONING_START"
    <3>1. msg \notin openEntities /\ openEntities' = openEntities \cup {msg}
      BY <1>9, <2>2, <2>5 DEF ReasoningStart, OpenReasoning, openEntities
    <3> QED BY <2>1, <2>3, <3>1, OpenOne
  <2> QED BY <2>4, <2>5
<1>10. ASSUME ReasoningEnd(e) PROVE Protocol!PNext
  <2> DEFINE span == <<"span", e.messageId>>
             msg == <<"reasoning", e.messageId>>
  <2>1. span \in Entities /\ msg \in Entities
    BY <1>10, EventFields DEF ReasoningEnd, Entities, ReasoningTypes
  <2>2. e.messageId \in OpenReasoning(e)
    BY <1>10 DEF ReasoningEnd, Accepted, Accepts, CaseAllows, MayContinueReasoning
  <2>3. phase = "running" /\ phase' = "running"
    BY <1>10, RunningPhase DEF ReasoningEnd
  <2>4. CASE e.type = "REASONING_END"
    <3>1. span \in openEntities /\ openEntities' = openEntities \ {span}
      BY <1>10, <2>2, <2>4 DEF ReasoningEnd, OpenReasoning, openEntities
    <3> QED BY <2>1, <2>3, <3>1, CloseOne
  <2>5. CASE e.type # "REASONING_END"
    <3>1. msg \in openEntities /\ openEntities' = openEntities \ {msg}
      BY <1>10, <2>2, <2>5 DEF ReasoningEnd, OpenReasoning, openEntities
    <3> QED BY <2>1, <2>3, <3>1, CloseOne
  <2> QED BY <2>4, <2>5
<1> QED BY <1>1, <1>2, <1>3, <1>4, <1>5, <1>6, <1>7, <1>8, <1>9, <1>10

(* The events that neither open nor close anything.                        *)
LEMMA QuietSteps ==
  ASSUME IInv, NEW e \in EveryEvent,
         \/ ToolCallResult(e) \/ ActivitySnapshot(e) \/ PassThrough(e)
         \/ MessagesSnapshot(e)
  PROVE  UNCHANGED <<phase, openEntities>>
<1>1. /\ UNCHANGED <<openVars, activeSteps, subagentVars, runVars>>
      /\ Accepted(e) /\ e.type \notin {"RUN_STARTED", "RUN_ERROR"}
  BY DEF ToolCallResult, ActivitySnapshot, PassThrough, MessagesSnapshot
<1>2. UNCHANGED phase
  BY <1>1, RunningPhase
<1>3. UNCHANGED openEntities
  BY <1>1 DEF openEntities, openVars, subagentVars
<1> QED BY <1>2, <1>3

(* The events that move the run, and the failure of the stream.            *)
LEMMA RunSteps ==
  ASSUME IInv, NEW e \in EveryEvent,
         RunStarted(e) \/ RunFinished(e) \/ RunError(e) \/ Reject(e)
  PROVE  Protocol!PNext
<1>1. CASE RunStarted(e)
  <2>1. openEntities' = {}
    BY <1>1, RunStartedIsFresh DEF openEntities, NothingOpen
  <2>2. streamFailed = FALSE /\ streamFailed' = FALSE
    BY <1>1 DEF RunStarted, Accepted, IInv, TypeOK
  <2>3. phase' = "running" /\ phase \in {"idle", "finished", "errored"}
    BY <1>1, <2>2, RunStartedIsFresh DEF phase
  <2> QED BY <2>1, <2>3 DEF Protocol!PNext, Protocol!Start
<1>2. CASE RunFinished(e)
  <2>1. phase = "running"
    BY <1>2, RunningPhase DEF RunFinished
  <2>2. NothingOpen /\ runError = FALSE
    BY <1>2, OnlyInRun DEF RunFinished, Accepted, Accepts, CaseAllows
  <2>3. streamFailed = FALSE /\ streamFailed' = FALSE /\ runError' = FALSE
    BY <1>2, <2>2 DEF RunFinished, Accepted, IInv, TypeOK
  <2>4. phase' = "finished"
    BY <1>2, <2>3 DEF RunFinished, phase
  <2>5. openEntities = {} /\ openEntities' = openEntities
    BY <1>2, <2>2 DEF RunFinished, openEntities, NothingOpen, openVars, subagentVars
  <2> QED BY <2>1, <2>4, <2>5 DEF Protocol!PNext, Protocol!Finish
<1>3. CASE RunError(e)
  <2>1. streamFailed = FALSE /\ streamFailed' = FALSE /\ runError = FALSE /\ runError' = TRUE
    BY <1>3 DEF RunError, Accepted, Accepts, RunAllows, IInv, TypeOK
  <2>2. phase' = "errored" /\ phase \in {"idle", "running", "finished"}
    BY <2>1 DEF phase
  <2>3. openEntities' = openEntities
    BY <1>3 DEF RunError, openEntities, openVars, subagentVars
  <2> QED BY <2>2, <2>3 DEF Protocol!PNext, Protocol!Error
<1>4. CASE Reject(e)
  <2>1. phase # "failed" /\ phase' = "failed"
    BY <1>4 DEF Reject, phase
  <2>2. openEntities' = openEntities
    BY <1>4 DEF Reject, openEntities, openVars, subagentVars
  <2> QED BY <2>1, <2>2 DEF Protocol!PNext, Protocol!Fail
<1> QED BY <1>1, <1>2, <1>3, <1>4

(* The verifier implements RunProtocol: whatever the producers send, the   *)
(* stream it lets through consists of runs that do not overlap, open and   *)
(* close one entity at a time, and finish with everything closed.          *)
THEOREM VerifierImplementsRunProtocol == Spec => ImplementsRunProtocol
<1>1. Init => Protocol!PInit
  BY DEF Init, Protocol!PInit, phase, openEntities
<1>2. IInv /\ [Next]_vars => [Protocol!PNext]_<<phase, openEntities>>
  <2> SUFFICES ASSUME IInv, [Next]_vars
               PROVE  Protocol!PNext \/ UNCHANGED <<phase, openEntities>>
    OBVIOUS
  <2>1. CASE UNCHANGED vars
    BY <2>1 DEF vars, openVars, subagentVars, runVars, phase, openEntities
  <2>2. CASE Next
    <3>1. PICK e \in Event : Accept(e) \/ Reject(e)
      BY <2>2 DEF Next
    <3> e \in EveryEvent
      BY EventsAreEvents
    <3> QED BY <3>1, BracketSteps, QuietSteps, RunSteps DEF Accept
  <2> QED BY <2>1, <2>2
<1> QED BY <1>1, <1>2, InvariantHolds, PTL DEF Spec, ImplementsRunProtocol,
           Protocol!PSpec
=============================================================================
