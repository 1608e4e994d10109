----------------------------- MODULE RunProtocol -----------------------------
(***************************************************************************)
(* What a consumer of a verified stream may rely on, whatever the kinds of *)
(* entities are: runs follow each other without overlapping, things are    *)
(* opened and closed only while a run is going on, a run reports success   *)
(* only when everything it opened is closed, and a run starts clean.       *)
(***************************************************************************)
CONSTANT Entities   \* whatever can be open: messages, calls, steps, ...

VARIABLES phase, open

Phases == {"idle", "running", "finished", "errored", "failed"}

PTypeOK == phase \in Phases /\ open \subseteq Entities

PInit == phase = "idle" /\ open = {}

(* A run may follow one that finished and one that errored.                *)
Start ==
  /\ phase \in {"idle", "finished", "errored"}
  /\ phase' = "running" /\ open' = {}

Open(x) ==
  /\ phase = "running" /\ x \notin open
  /\ open' = open \cup {x} /\ UNCHANGED phase

Close(x) ==
  /\ phase = "running" /\ x \in open
  /\ open' = open \ {x} /\ UNCHANGED phase

Finish ==
  /\ phase = "running" /\ open = {}
  /\ phase' = "finished" /\ UNCHANGED open

(* An error is reported at any time, even of a run that has finished, and  *)
(* leaves open what was open.                                              *)
Error ==
  /\ phase \in {"idle", "running", "finished"}
  /\ phase' = "errored" /\ UNCHANGED open

(* The stream breaks off at an event that is out of order.                 *)
Fail ==
  /\ phase # "failed"
  /\ phase' = "failed" /\ UNCHANGED open

PNext ==
  \/ Start \/ Finish \/ Error \/ Fail
  \/ \E x \in Entities : Open(x) \/ Close(x)

PSpec == PInit /\ [][PNext]_<<phase, open>>
=============================================================================
