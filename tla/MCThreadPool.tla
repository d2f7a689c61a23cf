----------------------------- MODULE MCThreadPool -----------------------------
(* Instances of ThreadPool for TLC. *)
EXTENDS ThreadPool

CONSTANTS w1, w2, t1, t2

TwoWorkers == {w1, w2}
OneWorker  == {w1}
TwoTasks   == {t1, t2}
===============================================================================
