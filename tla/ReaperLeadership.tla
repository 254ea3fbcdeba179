-------------------------- MODULE ReaperLeadership --------------------------
(***************************************************************************)
(* The lock that elects the sweeping reaper: SET NX with a time to live,   *)
(* refreshed every third of it by a goroutine while the sweep runs, and    *)
(* deleted after the sweep.  Refresh and release act only on a lock that   *)
(* still carries the reaper's own id, but nobody tells the sweep that the  *)
(* lock is gone.                                                           *)
(*                                                                         *)
(* Time goes in ticks.  Period ticks are a third of the time to live (the  *)
(* configuration makes it whole seconds, so EXPIRE loses nothing).  A      *)
(* refresh that comes late is one that failed: the ticker drops it.        *)
(***************************************************************************)
EXTENDS Naturals

CONSTANTS
    Reapers,        \* reaper ids; a restarted process has a new one
    None,           \* no lock key
    Period,         \* refresh period in ticks
    MaxFaults       \* bound on failed calls, crashes and Redis losses

ASSUME PeriodAssumption == Period \in Nat \ {0}
ASSUME LockFaultsAssumption == MaxFaults \in Nat
ASSUME NoneNotReaper == None \notin Reapers

LockTTL == 3 * Period

VARIABLES
    lock,           \* the value of the lock key
    left,           \* ticks until it expires; 0 without a lock
    pc,             \* where each reaper is in sweepWithLeadership
    refreshing,     \* the reapers whose refresh goroutine runs
    age,            \* ticks since each goroutine's ticker last fired
    missed,         \* refreshes in a row that did not keep the lock; 2 is "or more"
    faults

lvars == <<lock, left, pc, refreshing, age, missed, faults>>

LInit ==
    /\ lock = None
    /\ left = 0
    /\ pc = [r \in Reapers |-> "rest"]
    /\ refreshing = {}
    /\ age = [r \in Reapers |-> 0]
    /\ missed = [r \in Reapers |-> 0]
    /\ faults = 0

LockFault == faults < MaxFaults /\ faults' = faults + 1

\* acquireLeadership; SETNX finds no lock.
SetNX(r) ==
    /\ lock = None
    /\ lock' = r
    /\ left' = LockTTL

\* The lock is taken and the refresh goroutine started.  A reaper that finds a
\* lock, even one of its own, skips this sweep and sleeps on.
Acquire(r) ==
    /\ pc[r] = "rest"
    /\ SetNX(r)
    /\ pc' = [pc EXCEPT ![r] = "sweep"]
    /\ refreshing' = refreshing \cup {r}
    /\ age' = [age EXCEPT ![r] = 0]
    /\ missed' = [missed EXCEPT ![r] = 0]
    /\ UNCHANGED faults

\* SETNX took effect and its reply is lost: the sweep is skipped, the lock stays.
AcquireUncertain(r) ==
    /\ pc[r] = "rest"
    /\ SetNX(r)
    /\ LockFault
    /\ UNCHANGED <<pc, refreshing, age, missed>>

\* Mutant of RefreshedTTL: the time to live is given in milliseconds.
MillisecondTTL == 1000 * LockTTL

\* The script's argument, in seconds.
RefreshedTTL == LockTTL

\* refreshLeadershipUntilDone, one tick of its ticker.  The script returns 0, not
\* an error, for a lock that is gone or another's.
Refresh(r) ==
    /\ r \in refreshing
    /\ age[r] = Period
    /\ age' = [age EXCEPT ![r] = 0]
    /\ IF lock = r
       THEN left' = RefreshedTTL /\ missed' = [missed EXCEPT ![r] = 0]
       ELSE UNCHANGED <<left, missed>>
    /\ UNCHANGED <<lock, pc, refreshing, faults>>

\* The error is logged and nothing else: the sweep goes on.
RefreshFails(r) ==
    /\ r \in refreshing
    /\ age[r] = Period
    /\ age' = [age EXCEPT ![r] = 0]
    /\ missed' = [missed EXCEPT ![r] = IF @ < 2 THEN @ + 1 ELSE 2]
    /\ LockFault
    /\ UNCHANGED <<lock, left, pc, refreshing>>

\* Sweep returns, with or without an error, or because SIGTERM cancelled it.
EndSweep(r) ==
    /\ pc[r] = "sweep"
    /\ pc' = [pc EXCEPT ![r] = "release"]
    /\ UNCHANGED <<lock, left, refreshing, age, missed, faults>>

\* Mutant of DeleteOwn: DEL without the GET.
DeleteAny(r) == lock' = None /\ left' = 0

\* The script of releaseLeadership.
DeleteOwn(r) ==
    IF lock = r THEN lock' = None /\ left' = 0 ELSE UNCHANGED <<lock, left>>

\* The deferred releaseLeadership, which runs before the deferred stopRefresh.
Release(r) ==
    /\ pc[r] = "release"
    /\ DeleteOwn(r)
    /\ pc' = [pc EXCEPT ![r] = "stop"]
    /\ UNCHANGED <<refreshing, age, missed, faults>>

\* Only logged: the lock stays until it expires.
ReleaseFails(r) ==
    /\ pc[r] = "release"
    /\ pc' = [pc EXCEPT ![r] = "stop"]
    /\ LockFault
    /\ UNCHANGED <<lock, left, refreshing, age, missed>>

\* Mutant of StopRefresh: the goroutine is never stopped.
KeepRefreshing(r) ==
    /\ pc[r] = "stop"
    /\ pc' = [pc EXCEPT ![r] = "rest"]
    /\ UNCHANGED <<lock, left, refreshing, age, missed, faults>>

\* close(done) ends the goroutine; Run sleeps until the next round.
StopRefresh(r) ==
    /\ pc[r] = "stop"
    /\ pc' = [pc EXCEPT ![r] = "rest"]
    /\ refreshing' = refreshing \ {r}
    /\ UNCHANGED <<lock, left, age, missed, faults>>

\* The process ends; its lock stays until it expires.
Crash(r) ==
    /\ pc[r] # "down"
    /\ pc' = [pc EXCEPT ![r] = "down"]
    /\ refreshing' = refreshing \ {r}
    /\ LockFault
    /\ UNCHANGED <<lock, left, age, missed>>

\* Redis: one tick less to live, and a key at 0 is gone.  Tickers fire in time.
Tick ==
    /\ \A r \in refreshing : age[r] < Period
    /\ age' = [r \in Reapers |-> IF r \in refreshing THEN age[r] + 1 ELSE age[r]]
    /\ left' = IF left > 0 THEN left - 1 ELSE 0
    /\ lock' = IF left > 1 THEN lock ELSE None
    /\ UNCHANGED <<pc, refreshing, missed, faults>>

\* Redis restarts without its data.
LoseLock ==
    /\ lock # None
    /\ lock' = None
    /\ left' = 0
    /\ missed' = [missed EXCEPT ![lock] = 2]
    /\ LockFault
    /\ UNCHANGED <<pc, refreshing, age>>

ReaperStep(r) ==
    Acquire(r) \/ Refresh(r) \/ EndSweep(r) \/ Release(r) \/ StopRefresh(r)

ReaperFault(r) ==
    AcquireUncertain(r) \/ RefreshFails(r) \/ ReleaseFails(r) \/ Crash(r)

LNext ==
    \/ \E r \in Reapers : ReaperStep(r) \/ ReaperFault(r)
    \/ Tick
    \/ LoseLock

LSpec == LInit /\ [][LNext]_lvars

\* Time passes and every step of a running reaper is taken in the end.  A sweep
\* ends because each of its calls does; SETNX is retried at every round.
LFairSpec ==
    /\ LSpec
    /\ WF_lvars(Tick)
    /\ \A r \in Reapers :
         /\ WF_lvars(Acquire(r)) /\ WF_lvars(Refresh(r)) /\ WF_lvars(EndSweep(r))
         /\ WF_lvars(Release(r)) /\ WF_lvars(StopRefresh(r))

-----------------------------------------------------------------------------
\* The lock, the clocks and the reapers have their types.
LTypeOK ==
    /\ lock \in Reapers \cup {None}
    /\ left \in 0 .. LockTTL
    /\ pc \in [Reapers -> {"rest", "sweep", "release", "stop", "down"}]
    /\ refreshing \in SUBSET Reapers
    /\ age \in [Reapers -> 0 .. Period]
    /\ missed \in [Reapers -> 0 .. 2]
    /\ faults \in 0 .. MaxFaults

\* A sweeping reaper holds the lock as long as no two refreshes in a row were missed
\* and Redis kept its data: nobody takes it, no former leader's release deletes it,
\* and one missed refresh leaves time for the next.  So two such reapers never sweep
\* at once.
SweeperHoldsLock ==
    \A r \in Reapers : pc[r] = "sweep" /\ missed[r] <= 1 => lock = r

\* Whatever fails, some reaper sweeps again: a lock left behind by a crash, a failed
\* release or a lost reply lapses, and the next SETNX finds none.
SweepsGoOn == []<>(\E r \in Reapers : pc[r] = "sweep")

\* "The Redis leadership lock allows only one active sweep."
OneActiveSweep ==
    \A r, s \in Reapers : pc[r] = "sweep" /\ pc[s] = "sweep" => r = s
=============================================================================
