---------------------------- MODULE MCWorkerPool ----------------------------
(* Instances of WorkerPool for TLC. *)
EXTENDS WorkerPool, TLC

CONSTANTS w1, w2, s1, s2, s3, s4, s5

TwoWorkers   == {w1, w2}
OneWorker    == {w1}
NoWorker     == {}
UnluckyW2    == {w2}
ThreeSockets == {s1, s2, s3}
FourSockets  == {s1, s2, s3, s4}
FiveSockets  == {s1, s2, s3, s4, s5}
=============================================================================
