---------------------------- MODULE MCWorkerPool ----------------------------
(* Two or three functions, up to two workers (hw = 2). *)
EXTENDS WorkerPool
=============================================================================
