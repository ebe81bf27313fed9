---------------------------- MODULE MCWorkerPool ----------------------------
(* Small instances of WorkerPool for TLC. *)
EXTENDS WorkerPool

CONSTANTS r1, r2, w1, w2

TwoRequests == {r1, r2}
OneWorker == {w1}
TwoWorkers == {w1, w2}
AnyAnswer == {"good", "bad", "error"}

=============================================================================
