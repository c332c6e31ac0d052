----------------------------- MODULE MCThreadPool -----------------------------
(* Instances of ThreadPool for TLC.                                           *)
EXTENDS ThreadPool, TLC

CONSTANTS w1, w2, c1, c2, t1, t2, t3

OneWorker  == {w1}
TwoWorkers == {w1, w2}
TwoClients == {c1, c2}
OneTask    == {t1}
ThreeTasks == {t1, t2, t3}
================================================================================
