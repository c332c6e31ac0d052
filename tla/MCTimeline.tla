----------------------------- MODULE MCTimeline -----------------------------
(* Instances of Timeline for TLC.                                            *)
EXTENDS Timeline

CONSTANTS t1, t2

OneThread == {t1}
TwoThreads == {t1, t2}
==============================================================================
