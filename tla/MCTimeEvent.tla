----------------------------- MODULE MCTimeEvent -----------------------------
(* Instances of TimeEvent for TLC.                                           *)
EXTENDS TimeEvent

CONSTANTS h1, h2

TwoHandles == {h1, h2}
BackAndForth == {-1, 2}
==============================================================================
