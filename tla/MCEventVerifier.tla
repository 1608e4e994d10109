--------------------------- MODULE MCEventVerifier ---------------------------
(* Instances of EventVerifier for TLC.                                     *)
EXTENDS EventVerifier

CONSTANTS x, s1, step

AllTypes == {e.type : e \in EveryEvent}

Msg(id, role, tag, calls) ==
  [id |-> id, role |-> role, subagentRunId |-> tag, toolCalls |-> calls,
   toolCallId |-> Absent]

(* A list that names every kind, one that names an id twice, one that a    *)
(* producer spoilt with a null.                                            *)
OneIdHistories ==
  { << >>,
    << Msg(x, "assistant", s1, {x}), Msg(x, "reasoning", s1, {}),
       Msg(x, "activity", s1, {}) >>,
    << Msg(x, "assistant", s1, {}), Msg(x, "assistant", Absent, {x}) >>,
    << Msg(x, "assistant", Null, {}) >> }
=============================================================================
