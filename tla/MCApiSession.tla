---------------------------- MODULE MCApiSession ----------------------------
(***************************************************************************)
(* ApiSession for TLC: the job Mine alone, two valid priorities and one    *)
(* beyond each bound.                                                      *)
(***************************************************************************)
EXTENDS ApiSession
=============================================================================
