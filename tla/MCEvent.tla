------------------------------- MODULE MCEvent -------------------------------
(* Instances of Event for TLC.                                               *)
EXTENDS Event

CONSTANTS w1, w2, w3, s1, s2

ThreeWaiters == {w1, w2, w3}
TwoSignalers == {s1, s2}
==============================================================================
