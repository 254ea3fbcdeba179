------------------------- MODULE MCReaperLeadership -------------------------
(***************************************************************************)
(* ReaperLeadership for TLC: the configurations choose reapers, period and *)
(* faults.                                                                 *)
(***************************************************************************)
EXTENDS ReaperLeadership

\* Bound on the steps of a run: the lock is lost by expiry only.
RedisKeepsData == ~ LoseLock
=============================================================================
