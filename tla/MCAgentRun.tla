----------------------------- MODULE MCAgentRun -----------------------------
(* Instances of AgentRun for TLC.                                          *)
EXTENDS AgentRun

CONSTANTS c1, c2, d1, m1, m2, i1
=============================================================================
