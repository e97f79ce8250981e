---------------------------- MODULE MCWorkerQueue ----------------------------
(* Small instances of WorkerQueue for TLC. *)
EXTENDS WorkerQueue

CONSTANTS v, w

OneWorker  == {w}
TwoWorkers == {v, w}
=============================================================================
