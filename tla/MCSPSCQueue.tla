----------------------------- MODULE MCSPSCQueue -----------------------------
(* Instances of SPSCQueue for TLC.  The ring's indices wrap, so the state   *)
(* space is finite without any bound on the number of calls.                *)
EXTENDS SPSCQueue

CONSTANTS a, b

MCValue == {a, b}
=============================================================================
