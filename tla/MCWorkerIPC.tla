---------------------------- MODULE MCWorkerIPC ----------------------------
(* Instances of the worker protocol: rank 0 and two workers. *)
EXTENDS WorkerIPC
=============================================================================
