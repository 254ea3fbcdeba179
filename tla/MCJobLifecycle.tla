--------------------------- MODULE MCJobLifecycle ---------------------------
(***************************************************************************)
(* Instances of JobLifecycle for TLC.                                      *)
(***************************************************************************)
EXTENDS JobLifecycle, FiniteSets, TLC

\* Ids are interchangeable: nothing in the code orders them.
Symmetry == Permutations(Jobs) \cup Permutations(Workers) \cup Permutations(Reapers)
              \cup Permutations(Attempts)

\* Bound: two reapers sweep at once only while one of two workers has not registered;
\* it may register, and claim the job, between two steps of the slower sweep.
ThreeActors ==
    Cardinality({w \in Workers : workers[w].status # "none"})
      + Cardinality({r \in Reapers : sweep[r] # Resting}) <= 3

\* For liveness, where TLC's symmetry is unsound: ids are numbers, and the lowest
\* unused one is taken first.  Every behaviour has a renaming that does so.
IdsInOrder ==
    /\ \A a, b \in Attempts :
         a < b /\ attempts[b].status # "none" => attempts[a].status # "none"
    /\ \A v, w \in Workers :
         v < w /\ workers[w].status # "none" => workers[v].status # "none"

\* Bound on the steps of a run: the only faults are that the Enqueue after the commit of
\* a requeue fails, or that the worker or the reaper ends before it.  Nothing else is cut,
\* so fairness is not affected.
FaultsInRequeue ==
    \/ faults' = faults
    \/ \E w \in Workers : proc[w].pc = "retry" /\ (EnqueueRetryFails(w) \/ Stop(w))
    \/ \E r \in Reapers : sweep[r].pc \in {"deathEnqueue", "leaseEnqueue"} /\ AbortSweep(r)
=============================================================================
