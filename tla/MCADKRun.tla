------------------------------ MODULE MCADKRun ------------------------------
(* Instances of ADKRun for TLC.                                            *)
EXTENDS ADKRun

CONSTANTS t1, m1
=============================================================================
