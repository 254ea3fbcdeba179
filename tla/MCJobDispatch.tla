---------------------------- MODULE MCJobDispatch ---------------------------
(***************************************************************************)
(* JobDispatch for TLC: the job Urgent has a higher priority than the      *)
(* others, which are interchangeable.                                      *)
(***************************************************************************)
EXTENDS JobDispatch, TLC

CONSTANT Urgent

Column == [j \in Jobs |-> IF j = Urgent THEN MaxPriority ELSE MinPriority]

Symmetry == Permutations(Jobs \ {Urgent}) \cup Permutations(Attempts)

\* Bound: at most one queued row is old enough for the reaper at a time.
OneOldRow == Cardinality({j \in Jobs : jobs[j].quiet}) <= 1
=============================================================================
