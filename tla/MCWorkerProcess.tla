-------------------------- MODULE MCWorkerProcess --------------------------
(***************************************************************************)
(* WorkerProcess for TLC: the configuration names the outputs.             *)
(***************************************************************************)
EXTENDS WorkerProcess
=============================================================================
