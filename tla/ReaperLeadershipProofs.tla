----------------------- MODULE ReaperLeadershipProofs -----------------------
(***************************************************************************)
(* Proofs about ReaperLeadership, for any reapers, any period and any      *)
(* bound on the faults.                                                    *)
(***************************************************************************)
EXTENDS ReaperLeadership, TLAPS

\* A reaper between taking and releasing the lock, whose lock was not disturbed.
Leads(r) == pc[r] \in {"sweep", "release"} /\ missed[r] <= 1

\* Such a reaper's goroutine runs, and its lock has at least the time left that the
\* last successful refresh gave it, less the periods missed and the ticks since.
TimeLeft ==
    \A r \in Reapers : Leads(r) =>
        /\ r \in refreshing
        /\ lock = r
        /\ left + missed[r] * Period + age[r] >= LockTTL

LInv == LTypeOK /\ TimeLeft

LEMMA LInitInv == LInit => LInv
  BY PeriodAssumption, LockFaultsAssumption DEF LInit, LInv, LTypeOK, TimeLeft, Leads, LockTTL

LEMMA StepTypes ==
    ASSUME LTypeOK, [LNext]_lvars
    PROVE  LTypeOK'
  <1> USE PeriodAssumption, LockFaultsAssumption DEF LTypeOK, LockTTL
  <1>1. ASSUME NEW r \in Reapers, ReaperStep(r)
        PROVE  LTypeOK'
    <2>1. CASE Acquire(r)
      BY <2>1 DEF Acquire, SetNX
    <2>2. CASE Refresh(r)
      BY <2>2 DEF Refresh, RefreshedTTL
    <2>3. CASE EndSweep(r)
      BY <2>3 DEF EndSweep
    <2>4. CASE Release(r)
      BY <2>4 DEF Release, DeleteOwn
    <2>5. CASE StopRefresh(r)
      BY <2>5 DEF StopRefresh
    <2> QED BY <1>1, <2>1, <2>2, <2>3, <2>4, <2>5 DEF ReaperStep
  <1>2. ASSUME NEW r \in Reapers, ReaperFault(r)
        PROVE  LTypeOK'
    <2>1. CASE AcquireUncertain(r)
      BY <2>1 DEF AcquireUncertain, SetNX, LockFault
    <2>2. CASE RefreshFails(r)
      BY <2>2 DEF RefreshFails, LockFault
    <2>3. CASE ReleaseFails(r)
      BY <2>3 DEF ReleaseFails, LockFault
    <2>4. CASE Crash(r)
      BY <2>4 DEF Crash, LockFault
    <2> QED BY <1>2, <2>1, <2>2, <2>3, <2>4 DEF ReaperFault
  <1>3. CASE Tick
    BY <1>3 DEF Tick
  <1>4. CASE LoseLock
    BY <1>4 DEF LoseLock, LockFault
  <1>5. CASE UNCHANGED lvars
    BY <1>5 DEF lvars
  <1> QED BY <1>1, <1>2, <1>3, <1>4, <1>5 DEF LNext

LEMMA StepTimeLeft ==
    ASSUME LTypeOK, TimeLeft, [LNext]_lvars
    PROVE  TimeLeft'
  <1> USE PeriodAssumption DEF LTypeOK, LockTTL
  <1> SUFFICES ASSUME NEW s \in Reapers, Leads(s)'
               PROVE  (s \in refreshing /\ lock = s
                         /\ left + missed[s] * Period + age[s] >= LockTTL)'
    BY DEF TimeLeft
  <1>0. Leads(s) => /\ s \in refreshing
                    /\ lock = s
                    /\ left + missed[s] * Period + age[s] >= LockTTL
    BY DEF TimeLeft
  <1>1. ASSUME NEW r \in Reapers, ReaperStep(r)
        PROVE  (s \in refreshing /\ lock = s
                  /\ left + missed[s] * Period + age[s] >= LockTTL)'
    <2>1. CASE Acquire(r)
      BY <1>0, <2>1, NoneNotReaper DEF Acquire, SetNX, Leads
    <2>2. CASE Refresh(r)
      BY <1>0, <2>2 DEF Refresh, RefreshedTTL, Leads
    <2>3. CASE EndSweep(r)
      BY <1>0, <2>3 DEF EndSweep, Leads
    <2>4. CASE Release(r)
      BY <1>0, <2>4 DEF Release, DeleteOwn, Leads
    <2>5. CASE StopRefresh(r)
      BY <1>0, <2>5 DEF StopRefresh, Leads
    <2> QED BY <1>1, <2>1, <2>2, <2>3, <2>4, <2>5 DEF ReaperStep
  <1>2. ASSUME NEW r \in Reapers, ReaperFault(r)
        PROVE  (s \in refreshing /\ lock = s
                  /\ left + missed[s] * Period + age[s] >= LockTTL)'
    <2>1. CASE AcquireUncertain(r)
      BY <1>0, <2>1, NoneNotReaper DEF AcquireUncertain, SetNX, Leads
    <2>2. CASE RefreshFails(r)
      BY <1>0, <2>2 DEF RefreshFails, Leads
    <2>3. CASE ReleaseFails(r)
      BY <1>0, <2>3 DEF ReleaseFails, Leads
    <2>4. CASE Crash(r)
      BY <1>0, <2>4 DEF Crash, Leads
    <2> QED BY <1>2, <2>1, <2>2, <2>3, <2>4 DEF ReaperFault
  <1>3. CASE Tick
    \* One missed period and less than one more leave at least one period.
    <2>1. Leads(s)
      BY <1>3 DEF Tick, Leads
    <2>2. missed[s] \in {0, 1} /\ age[s] < Period
      BY <1>0, <1>3, <2>1 DEF Tick, Leads
    <2>3. missed[s] * Period <= Period
      BY <2>2
    <2>4. left > 1
      BY <1>0, <2>1, <2>2, <2>3
    <2> QED BY <1>0, <1>3, <2>1, <2>4 DEF Tick
  <1>4. CASE LoseLock
    BY <1>0, <1>4 DEF LoseLock, Leads
  <1>5. CASE UNCHANGED lvars
    BY <1>0, <1>5 DEF lvars, Leads
  <1> QED BY <1>1, <1>2, <1>3, <1>4, <1>5 DEF LNext

\* The remaining time to live never exceeds the configured one, and the clocks, the
\* lock and the reapers keep their types.
THEOREM LeadershipTypes == LSpec => []LTypeOK
  <1>1. LInit => LTypeOK
    BY LInitInv DEF LInv
  <1>2. LTypeOK /\ [LNext]_lvars => LTypeOK'
    BY StepTypes
  <1> QED BY <1>1, <1>2, PTL DEF LSpec

\* A sweeping reaper holds the lock unless two refreshes in a row were missed or
\* Redis lost its data.
THEOREM LeadershipTheorem == LSpec => []SweeperHoldsLock
  <1>1. LInv /\ [LNext]_lvars => LInv'
    BY StepTypes, StepTimeLeft DEF LInv
  <1>2. LInv => SweeperHoldsLock
    BY DEF LInv, TimeLeft, Leads, SweeperHoldsLock
  <1> QED BY LInitInv, <1>1, <1>2, PTL DEF LSpec
=============================================================================
