---------------------------- MODULE MCAttemptRun ----------------------------
(***************************************************************************)
(* AttemptRun alone for TLC: the configuration names the outputs.          *)
(***************************************************************************)
EXTENDS AttemptRun
=============================================================================
