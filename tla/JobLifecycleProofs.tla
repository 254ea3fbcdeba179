------------------------- MODULE JobLifecycleProofs -------------------------
(***************************************************************************)
(* Proofs about JobLifecycle, for any sets of jobs, workers, reapers and   *)
(* attempt ids and any bounds.                                             *)
(***************************************************************************)
EXTENDS JobLifecycle, FiniteSetTheorems, TLAPS

\* What a process has in hand exists: the job and the attempt of a worker inside
\* processJob, the job and the attempts of a sweep; and a used attempt has a job.
ProcHolds(p) ==
    /\ p.pc \notin {"off", "poll"} => p.job \in Jobs
    /\ p.pc \notin {"off", "poll", "claim"} => p.attempt \in Attempts
    /\ p.renewing => p.pc \notin {"off", "poll", "claim"}

SweepHolds(s) ==
    /\ s.pc \in {"death", "deathEnqueue", "leaseEnqueue", "restore"} => s.job \in Jobs
    /\ \A a \in s.expired : Used(a)

InHandExists ==
    /\ \A a \in Attempts : Used(a) => attempts[a].job \in Jobs
    /\ \A w \in Workers : ProcHolds(proc[w])
    /\ \A r \in Reapers : SweepHolds(sweep[r])

TInv == TypeOK /\ InHandExists

-----------------------------------------------------------------------------
(***************************************************************************)
(* Lemmas about the operators that compute rows and locals.                *)
(***************************************************************************)

LEMMA RetryOrBuryFacts ==
    ASSUME NEW row \in JobRow
    PROVE  /\ RetryOrBury(row) \in JobRow
           /\ RetryOrBury(row).current = None
           /\ RetryOrBury(row).completedBy = row.completedBy
           /\ \/ /\ row.retries = MaxRetries
                 /\ RetryOrBury(row).status = "dead"
                 /\ RetryOrBury(row).retries = row.retries
              \/ /\ row.retries < MaxRetries
                 /\ RetryOrBury(row).status = "queued"
                 /\ RetryOrBury(row).retries = row.retries + 1
  <1>1. CASE row.retries >= MaxRetries
    <2>1. row.retries = MaxRetries
      BY <1>1, RetriesAssumption DEF JobRow
    <2>2. RetryOrBury(row) = [row EXCEPT !.status = "dead", !.current = None, !.quiet = FALSE]
      BY <1>1 DEF RetryOrBury, RetriesUsed
    <2> QED BY <2>1, <2>2 DEF JobRow
  <1>2. CASE ~ (row.retries >= MaxRetries)
    <2>1. row.retries \in 0 .. MaxRetries /\ row.retries + 1 \in 0 .. MaxRetries
      BY <1>2, RetriesAssumption DEF JobRow
    <2>2. RetryOrBury(row) = [row EXCEPT !.status = "queued", !.current = None,
                                         !.quiet = FALSE, !.retries = row.retries + 1]
      BY <1>2 DEF RetryOrBury, RetriesUsed, Requeued
    <2>3. row.retries < MaxRetries
      BY <1>2, <2>1, RetriesAssumption
    <2> QED BY <2>1, <2>2, <2>3 DEF JobRow
  <1> QED BY <1>1, <1>2

LEMMA VerdictFacts ==
    ASSUME NEW row \in AttemptRow, NEW v \in {"completed", "failed", "expired"}
    PROVE  /\ Verdict(row, v) \in AttemptRow
           /\ Verdict(row, v).job = row.job
           /\ Verdict(row, v).number = row.number
           /\ Verdict(row, v).worker = row.worker
           /\ row.status = "running" => Verdict(row, v).status = v
           /\ row.status # "running" => Verdict(row, v) = row
  BY DEF Verdict, AttemptRow

LEMMA PollingType == Polling \in WorkerProc /\ Off \in WorkerProc
  BY DEF Polling, Off, WorkerProc

LEMMA ProcAtExitFacts ==
    ASSUME TInv, NEW w \in Workers, proc[w].pc \notin {"off", "poll", "claim"}
    PROVE  /\ ProcAtExit(w) \in WorkerProc
           /\ \/ ProcAtExit(w).pc = "poll" /\ ~ ProcAtExit(w).renewing
                   /\ ProcAtExit(w).attempt = None /\ ProcAtExit(w).job = None
              \/ /\ ProcAtExit(w).pc = "idle"
                 /\ ProcAtExit(w).job = proc[w].job
                 /\ ProcAtExit(w).attempt = proc[w].attempt
  <1>1. proc[w] \in WorkerProc
    BY DEF TInv, TypeOK
  <1>2. CASE proc[w].setIdle
    BY <1>1, <1>2 DEF ProcAtExit, WorkerProc
  <1>3. CASE ~ proc[w].setIdle
    BY <1>3, PollingType DEF ProcAtExit, Polling, Off, WorkerProc
  <1> QED BY <1>2, <1>3

LEMMA RestingType == Resting \in SweepProc
  BY DEF Resting, SweepProc

LEMMA LookUpFacts ==
    ASSUME NEW S \in SUBSET Jobs
    PROVE  /\ LookUp(S) \in SweepProc
           /\ LookUp(S).pc \in {"rest", "jobs"}
           /\ LookUp(S).expired = {}
  <1>1. CASE S = {}
    BY <1>1, RestingType DEF LookUp, Resting, SweepProc
  <1>2. CASE S # {}
    BY <1>2, RestingType DEF LookUp, Resting, SweepProc
  <1> QED BY <1>1, <1>2

-----------------------------------------------------------------------------
(***************************************************************************)
(* Type correctness.                                                       *)
(***************************************************************************)

LEMMA InitTInv == Init => TInv
  BY RetriesAssumption, FaultsAssumption, NoneAssumption
  DEF Init, TInv, TypeOK, InHandExists, ProcHolds, SweepHolds, JobRow, AttemptRow, WorkerRow, WorkerProc, SweepProc,
      Off, Resting, Used

LEMMA FaultType ==
    ASSUME TInv, Fault \/ NoFault
    PROVE  faults' \in 0 .. MaxFaults
  BY FaultsAssumption DEF TInv, TypeOK, Fault, NoFault

\* A step that changes no attempt and no process.
LEMMA TableFrame ==
    ASSUME TInv, UNCHANGED <<attempts, outputs, proc, sweep>>, Fault \/ NoFault,
           jobs' \in [Jobs -> JobRow], workers' \in [Workers -> WorkerRow],
           queue' \in SUBSET Jobs, api' \in SUBSET Jobs
    PROVE  TInv'
  <1>1. TypeOK'
    BY FaultType DEF TInv, TypeOK
  <1>2. InHandExists'
    BY DEF TInv, InHandExists, ProcHolds, SweepHolds, Used
  <1> QED BY <1>1, <1>2 DEF TInv

\* A step of worker w that changes neither jobs nor attempts.
LEMMA WorkerFrame ==
    ASSUME TInv, NEW w \in Workers, NEW p \in WorkerProc, ProcHolds(p),
           proc' = [proc EXCEPT ![w] = p],
           UNCHANGED <<jobs, attempts, outputs, api, sweep>>, Fault \/ NoFault,
           workers' \in [Workers -> WorkerRow], queue' \in SUBSET Jobs
    PROVE  TInv'
  <1>1. proc' \in [Workers -> WorkerProc]
    BY DEF TInv, TypeOK
  <1>2. TypeOK'
    BY <1>1, FaultType DEF TInv, TypeOK
  <1>3. \A v \in Workers : ProcHolds(proc'[v])
    BY DEF TInv, TypeOK, InHandExists
  <1>4. InHandExists'
    BY <1>3 DEF TInv, InHandExists, ProcHolds, SweepHolds, Used
  <1> QED BY <1>2, <1>4 DEF TInv

\* A step of worker w that changes jobs and attempts, and forgets no attempt.
LEMMA WorkerTableFrame ==
    ASSUME TInv, NEW w \in Workers, NEW p \in WorkerProc, ProcHolds(p),
           proc' = [proc EXCEPT ![w] = p],
           UNCHANGED <<workers, queue, api, sweep>>, Fault \/ NoFault,
           jobs' \in [Jobs -> JobRow], attempts' \in [Attempts -> AttemptRow],
           outputs' \in [Jobs -> Attempts \cup {None}],
           \A a \in Attempts : Used(a) => Used(a)',
           \A a \in Attempts : Used(a)' => attempts'[a].job \in Jobs
    PROVE  TInv'
  <1>1. proc' \in [Workers -> WorkerProc]
    BY DEF TInv, TypeOK
  <1>2. TypeOK'
    BY <1>1, FaultType DEF TInv, TypeOK
  <1>3. \A v \in Workers : ProcHolds(proc'[v])
    BY DEF TInv, TypeOK, InHandExists
  <1>4. \A r \in Reapers : \A a \in sweep[r].expired : a \in Attempts
    BY DEF TInv, TypeOK, SweepProc
  <1>5. \A r \in Reapers : SweepHolds(sweep[r])'
    BY <1>4 DEF TInv, InHandExists, SweepHolds
  <1>6. InHandExists'
    BY <1>3, <1>5 DEF InHandExists, ProcHolds
  <1> QED BY <1>2, <1>6 DEF TInv

\* A step of reaper r.
LEMMA SweepFrame ==
    ASSUME TInv, NEW r \in Reapers, NEW s \in SweepProc, SweepHolds(s),
           sweep' = [sweep EXCEPT ![r] = s],
           UNCHANGED <<outputs, api, proc>>, Fault \/ NoFault,
           jobs' \in [Jobs -> JobRow], attempts' \in [Attempts -> AttemptRow],
           workers' \in [Workers -> WorkerRow], queue' \in SUBSET Jobs,
           \A a \in Attempts : Used(a) => Used(a)',
           \A a \in Attempts : Used(a)' => attempts'[a].job \in Jobs
    PROVE  TInv'
  <1>1. sweep' \in [Reapers -> SweepProc]
    BY DEF TInv, TypeOK
  <1>2. TypeOK'
    BY <1>1, FaultType DEF TInv, TypeOK
  <1>3. \A q \in Reapers : SweepHolds(sweep'[q])
    BY DEF TInv, TypeOK, InHandExists
  <1>4. \A q \in Reapers : \A a \in sweep'[q].expired : a \in Attempts
    BY <1>1 DEF SweepProc
  <1>5. \A q \in Reapers : SweepHolds(sweep[q])'
    BY <1>3, <1>4 DEF SweepHolds
  <1>6. InHandExists'
    BY <1>5 DEF TInv, InHandExists, ProcHolds
  <1> QED BY <1>2, <1>6 DEF TInv

LEMMA ApiTInv ==
    ASSUME TInv, NEW j \in Jobs, ApiNext(j)
    PROVE  TInv'
  <1>1. CASE CreateQueuedJob(j)
    <2>1. jobs' \in [Jobs -> JobRow]
      <3>1. jobs \in [Jobs -> JobRow] /\ jobs' = [jobs EXCEPT ![j].status = "queued"]
        BY <1>1 DEF TInv, TypeOK, CreateQueuedJob
      <3> QED BY <3>1 DEF JobRow
    <2> QED BY <1>1, <2>1, TableFrame DEF TInv, TypeOK, CreateQueuedJob
  <1>2. CASE EnqueueNewJob(j)
    BY <1>2, TableFrame DEF TInv, TypeOK, EnqueueNewJob
  <1>3. CASE EnqueueNewJobFails(j)
    BY <1>3, TableFrame DEF TInv, TypeOK, EnqueueNewJobFails
  <1> QED BY <1>1, <1>2, <1>3 DEF ApiNext

\* The tables after a claim.
LEMMA ClaimTables ==
    ASSUME TInv, NEW w \in Workers, NEW j \in Jobs, NEW a \in Attempts, Claim(w, j, a)
    PROVE  /\ jobs' \in [Jobs -> JobRow]
           /\ attempts' \in [Attempts -> AttemptRow]
           /\ \A b \in Attempts : Used(b) => Used(b)'
           /\ \A b \in Attempts : Used(b)' => attempts'[b].job \in Jobs
  <1>1. jobs[j] \in JobRow /\ attempts[a] \in AttemptRow
    BY DEF TInv, TypeOK
  <1>2. jobs' \in [Jobs -> JobRow]
    BY <1>1 DEF TInv, TypeOK, Claim, JobRow
  <1>3. attempts' \in [Attempts -> AttemptRow]
    BY <1>1, RetriesAssumption DEF TInv, TypeOK, Claim, JobRow, AttemptRow
  <1>4. \A b \in Attempts : (Used(b) => Used(b)') /\ (Used(b)' => attempts'[b].job \in Jobs)
    BY <1>1 DEF TInv, TypeOK, InHandExists, Claim, Used
  <1> QED BY <1>2, <1>3, <1>4

\* The tables after a verdict on attempt a, whatever happens to job j.
LEMMA VerdictTables ==
    ASSUME TInv, NEW a \in Attempts, NEW v \in {"completed", "failed", "expired"},
           attempts' = [attempts EXCEPT ![a] = Verdict(@, v)]
    PROVE  /\ attempts' \in [Attempts -> AttemptRow]
           /\ \A b \in Attempts : Used(b) => Used(b)'
           /\ \A b \in Attempts : Used(b)' => attempts'[b].job \in Jobs
  <1>1. attempts[a] \in AttemptRow
    BY DEF TInv, TypeOK
  <1>2. attempts' \in [Attempts -> AttemptRow]
    BY <1>1, VerdictFacts DEF TInv, TypeOK
  <1>3. attempts'[a] = Verdict(attempts[a], v)
          /\ \A b \in Attempts \ {a} : attempts'[b] = attempts[b]
    BY DEF TInv, TypeOK
  <1>4. Used(a) <=> Used(a)'
    BY <1>1, <1>3, VerdictFacts DEF Used
  <1> QED BY <1>1, <1>2, <1>3, <1>4, VerdictFacts DEF TInv, InHandExists, Used

\* A worker that stays inside processJob, or returns to polling.
LEMMA GotoFacts ==
    ASSUME TInv, NEW w \in Workers, proc[w].pc \notin {"off", "poll", "claim"},
           NEW pc \in {"busy", "run", "fail", "retry", "idle"}
    PROVE  /\ [proc[w] EXCEPT !.pc = pc] \in WorkerProc
           /\ ProcHolds([proc[w] EXCEPT !.pc = pc])
           /\ Goto(w, pc) => proc' = [proc EXCEPT ![w] = [proc[w] EXCEPT !.pc = pc]]
  <1>1. proc[w] \in WorkerProc /\ ProcHolds(proc[w])
    BY DEF TInv, TypeOK, InHandExists
  <1> QED BY <1>1 DEF Goto, ProcHolds, WorkerProc, TInv, TypeOK

LEMMA ReturnFacts ==
    ASSUME TInv, NEW w \in Workers, proc[w].pc \notin {"off", "poll", "claim"}
    PROVE  ProcAtExit(w) \in WorkerProc /\ ProcHolds(ProcAtExit(w))
  <1>1. proc[w] \in WorkerProc /\ ProcHolds(proc[w])
    BY DEF TInv, TypeOK, InHandExists
  <1> QED BY <1>1, ProcAtExitFacts DEF ProcHolds

LEMMA PollingHolds == ProcHolds(Polling) /\ ProcHolds(Off)
  BY DEF ProcHolds, Polling, Off

LEMMA WorkerStepTInv ==
    ASSUME TInv, NEW w \in Workers, WorkerStep(w)
    PROVE  TInv'
  <1>0. proc[w] \in WorkerProc /\ ProcHolds(proc[w]) /\ workers[w] \in WorkerRow
    BY DEF TInv, TypeOK, InHandExists
  <1>1. CASE Register(w)
    <2>1. workers' \in [Workers -> WorkerRow]
      BY <1>1 DEF TInv, TypeOK, Register, WorkerRow
    <2> QED BY <1>1, <2>1, WorkerFrame, PollingType, PollingHolds DEF TInv, TypeOK, Register
  <1>2. ASSUME NEW j \in Jobs, Poll(w, j) PROVE TInv'
    <2> DEFINE p == [Polling EXCEPT !.pc = "claim", !.job = j]
    <2>1. p \in WorkerProc /\ ProcHolds(p)
      BY DEF Polling, Off, WorkerProc, ProcHolds
    <2> HIDE DEF p
    <2>2. proc' = [proc EXCEPT ![w] = p]
      BY <1>2 DEF Poll, p
    <2> QED BY <1>2, <2>1, <2>2, WorkerFrame DEF TInv, TypeOK, Poll
  <1>3. ASSUME NEW a \in Attempts, MarkProcessing(w, a) PROVE TInv'
    <2> DEFINE p == [proc[w] EXCEPT !.pc = "busy", !.attempt = a, !.renewing = TRUE]
    <2>1. p \in WorkerProc /\ ProcHolds(p) /\ proc[w].job \in Jobs
      BY <1>0, <1>3 DEF WorkerProc, ProcHolds, MarkProcessing
    <2>2. proc' = [proc EXCEPT ![w] = p]
      BY <1>3 DEF MarkProcessing
    <2> HIDE DEF p
    <2> QED BY <1>3, <2>1, <2>2, ClaimTables, WorkerTableFrame
            DEF TInv, TypeOK, MarkProcessing, Claim
  <1>4. CASE ClaimRefused(w)
    BY <1>4, WorkerFrame, PollingType, PollingHolds DEF TInv, TypeOK, ClaimRefused
  <1>5. CASE SetWorkerBusy(w)
    <2> DEFINE p == [proc[w] EXCEPT !.pc = "run", !.setIdle = TRUE]
    <2>1. p \in WorkerProc /\ ProcHolds(p)
      BY <1>0, <1>5 DEF WorkerProc, ProcHolds, SetWorkerBusy
    <2>2. proc' = [proc EXCEPT ![w] = p]
      BY <1>5 DEF SetWorkerBusy
    <2>3. workers' \in [Workers -> WorkerRow]
      BY <1>0, <1>5 DEF TInv, TypeOK, SetWorkerBusy, BusyRow, WorkerRow, WorkerProc
    <2> HIDE DEF p
    <2> QED BY <1>5, <2>1, <2>2, <2>3, WorkerFrame DEF TInv, TypeOK, SetWorkerBusy
  <1>6. CASE RunJobFails(w)
    BY <1>6, GotoFacts, WorkerFrame DEF TInv, TypeOK, RunJobFails
  <1>7. CASE CompleteJob(w)
    <2>1. PICK j \in Jobs, a \in Attempts : j = proc[w].job /\ a = proc[w].attempt
      BY <1>0, <1>7 DEF CompleteJob, ProcHolds
    <2>2. jobs[j] \in JobRow
      BY DEF TInv, TypeOK
    <2>3. jobs' \in [Jobs -> JobRow]
      BY <1>7, <2>1, <2>2 DEF TInv, TypeOK, CompleteJob, Complete, JobRow
    <2>4. outputs' \in [Jobs -> Attempts \cup {None}]
      BY <1>7, <2>1 DEF TInv, TypeOK, CompleteJob, Complete
    <2>5. attempts' = [attempts EXCEPT ![a] = Verdict(@, "completed")]
      BY <1>7, <2>1 DEF CompleteJob, Complete
    <2>6. proc' = [proc EXCEPT ![w] = ProcAtExit(w)] /\ proc[w].pc = "run"
            /\ UNCHANGED <<workers, queue, api, sweep>> /\ NoFault
      BY <1>7 DEF CompleteJob, Complete, Return
    <2> QED BY <2>3, <2>4, <2>5, <2>6, VerdictTables, ReturnFacts, WorkerTableFrame
  <1>8. CASE CompleteStale(w)
    BY <1>8, ReturnFacts, WorkerFrame DEF TInv, TypeOK, CompleteStale, Return
  <1>9. CASE HandleFailure(w)
    <2>1. PICK j \in Jobs, a \in Attempts : j = proc[w].job /\ a = proc[w].attempt
      BY <1>0, <1>9 DEF HandleFailure, ProcHolds
    <2>2. jobs[j] \in JobRow
      BY DEF TInv, TypeOK
    <2>3. jobs' \in [Jobs -> JobRow]
      BY <1>9, <2>1, <2>2, RetryOrBuryFacts DEF TInv, TypeOK, HandleFailure
    <2>4. attempts' = [attempts EXCEPT ![a] = Verdict(@, "failed")]
      BY <1>9, <2>1 DEF HandleFailure
    <2>5. \E p \in WorkerProc : ProcHolds(p) /\ proc' = [proc EXCEPT ![w] = p]
      BY <1>9, GotoFacts, ReturnFacts DEF HandleFailure, Return
    <2>6. UNCHANGED <<outputs, workers, queue, api, sweep>> /\ NoFault
      BY <1>9 DEF HandleFailure
    <2> QED BY <2>3, <2>4, <2>5, <2>6, VerdictTables, WorkerTableFrame DEF TInv, TypeOK
  <1>10. CASE FailureIgnored(w)
    BY <1>10, ReturnFacts, WorkerFrame DEF TInv, TypeOK, FailureIgnored, Return
  <1>11. CASE EnqueueRetry(w)
    <2>1. proc[w].job \in Jobs
      BY <1>0, <1>11 DEF EnqueueRetry, ProcHolds
    <2> QED BY <1>11, <2>1, ReturnFacts, WorkerFrame DEF TInv, TypeOK, EnqueueRetry, Return
  <1>12. CASE SetWorkerIdle(w)
    <2>1. workers' \in [Workers -> WorkerRow]
      BY <1>12 DEF TInv, TypeOK, SetWorkerIdle, WorkerRow
    <2> QED BY <1>12, <2>1, WorkerFrame, PollingType, PollingHolds DEF TInv, TypeOK, SetWorkerIdle
  <1> QED BY <1>1, <1>2, <1>3, <1>4, <1>5, <1>6, <1>7, <1>8, <1>9, <1>10, <1>11, <1>12
          DEF WorkerStep

LEMMA WorkerFaultTInv ==
    ASSUME TInv, NEW w \in Workers, WorkerFault(w)
    PROVE  TInv'
  <1>0. proc[w] \in WorkerProc /\ ProcHolds(proc[w]) /\ workers[w] \in WorkerRow
    BY DEF TInv, TypeOK, InHandExists
  <1>1. ASSUME NEW j \in Jobs, PollLosesEntry(w, j) PROVE TInv'
    BY <1>1, TableFrame DEF TInv, TypeOK, PollLosesEntry
  <1>2. CASE ClaimFails(w)
    BY <1>2, WorkerFrame, PollingType, PollingHolds DEF TInv, TypeOK, ClaimFails
  <1>3. ASSUME NEW a \in Attempts, ClaimUncertain(w, a) PROVE TInv'
    <2>1. proc[w].job \in Jobs
      BY <1>0, <1>3 DEF ProcHolds, ClaimUncertain
    <2> QED BY <1>3, <2>1, ClaimTables, WorkerTableFrame, PollingType, PollingHolds
            DEF TInv, TypeOK, ClaimUncertain, Claim
  <1>4. CASE SetWorkerBusyFails(w)
    <2>1. BusyRow(w) \in WorkerRow
      BY <1>0 DEF BusyRow, WorkerRow, WorkerProc
    <2>2. workers' \in [Workers -> WorkerRow]
      BY <1>0, <1>4, <2>1 DEF TInv, TypeOK, SetWorkerBusyFails
    <2> QED BY <1>4, <2>2, GotoFacts, WorkerFrame DEF TInv, TypeOK, SetWorkerBusyFails
  <1>5. CASE RenewalFails(w)
    <2> DEFINE p == [proc[w] EXCEPT !.renewing = FALSE]
    <2>1. p \in WorkerProc /\ ProcHolds(p)
      BY <1>0 DEF WorkerProc, ProcHolds
    <2>2. proc' = [proc EXCEPT ![w] = p]
      BY <1>5 DEF RenewalFails
    <2> HIDE DEF p
    <2> QED BY <1>5, <2>1, <2>2, WorkerFrame DEF TInv, TypeOK, RenewalFails
  <1>6. CASE CompleteUncertain(w)
    <2>1. PICK j \in Jobs, a \in Attempts : j = proc[w].job /\ a = proc[w].attempt
      BY <1>0, <1>6 DEF CompleteUncertain, ProcHolds
    <2>2. jobs[j] \in JobRow
      BY DEF TInv, TypeOK
    <2>3. jobs' \in [Jobs -> JobRow]
      BY <1>6, <2>1, <2>2 DEF TInv, TypeOK, CompleteUncertain, Complete, JobRow
    <2>4. outputs' \in [Jobs -> Attempts \cup {None}]
      BY <1>6, <2>1 DEF TInv, TypeOK, CompleteUncertain, Complete
    <2>5. attempts' = [attempts EXCEPT ![a] = Verdict(@, "completed")]
      BY <1>6, <2>1 DEF CompleteUncertain, Complete
    <2>6. Goto(w, "fail") /\ proc[w].pc = "run"
            /\ UNCHANGED <<workers, queue, api, sweep>> /\ Fault
      BY <1>6 DEF CompleteUncertain, Complete
    <2> QED BY <2>3, <2>4, <2>5, <2>6, VerdictTables, GotoFacts, WorkerTableFrame
  <1>7. CASE HandleFailureFails(w)
    BY <1>7, ReturnFacts, WorkerFrame DEF TInv, TypeOK, HandleFailureFails, Return
  <1>8. CASE EnqueueRetryFails(w)
    BY <1>8, ReturnFacts, WorkerFrame DEF TInv, TypeOK, EnqueueRetryFails, Return
  <1>9. CASE SetWorkerIdleFails(w)
    BY <1>9, WorkerFrame, PollingType, PollingHolds DEF TInv, TypeOK, SetWorkerIdleFails
  <1>10. CASE Stop(w)
    BY <1>10, WorkerFrame, PollingType, PollingHolds DEF TInv, TypeOK, Stop
  <1> QED BY <1>1, <1>2, <1>3, <1>4, <1>5, <1>6, <1>7, <1>8, <1>9, <1>10 DEF WorkerFault

LEMMA WorkerTInv ==
    ASSUME TInv, NEW w \in Workers, WorkerNext(w)
    PROVE  TInv'
  <1>0. proc[w] \in WorkerProc /\ ProcHolds(proc[w]) /\ workers[w] \in WorkerRow
    BY DEF TInv, TypeOK, InHandExists
  <1>1. CASE RenewLease(w)
    <2>1. PICK a \in Attempts : a = proc[w].attempt
      BY <1>0, <1>1 DEF RenewLease, ProcHolds
    <2>2. attempts' = [attempts EXCEPT ![a].lapsed = FALSE]
      BY <1>1, <2>1 DEF RenewLease
    <2>t. attempts \in [Attempts -> AttemptRow]
      BY DEF TInv, TypeOK
    <2>3. attempts' \in [Attempts -> AttemptRow]
      <3>1. [attempts[a] EXCEPT !.lapsed = FALSE] \in AttemptRow
        BY <2>t DEF AttemptRow
      <3> QED BY <2>2, <2>t, <3>1
    <2>4. \A b \in Attempts : attempts'[b].status = attempts[b].status
                               /\ attempts'[b].job = attempts[b].job
      BY <2>2, <2>t DEF AttemptRow
    <2>5. proc' = [proc EXCEPT ![w] = proc[w]] /\ NoFault
            /\ UNCHANGED <<jobs, outputs, workers, queue, api, sweep>>
      BY <1>1 DEF RenewLease, TInv, TypeOK
    <2> QED BY <1>0, <2>3, <2>4, <2>5, WorkerTableFrame DEF TInv, TypeOK, InHandExists, Used
  <1>2. CASE LeaseLost(w)
    <2> DEFINE p == [proc[w] EXCEPT !.renewing = FALSE]
    <2>1. p \in WorkerProc /\ ProcHolds(p)
      BY <1>0 DEF WorkerProc, ProcHolds
    <2>2. proc' = [proc EXCEPT ![w] = p]
      BY <1>2 DEF LeaseLost
    <2> HIDE DEF p
    <2> QED BY <1>2, <2>1, <2>2, WorkerFrame DEF TInv, TypeOK, LeaseLost
  <1>3. CASE Heartbeat(w)
    <2>1. workers' \in [Workers -> WorkerRow]
      <3>1. workers \in [Workers -> WorkerRow] /\ workers' = [workers EXCEPT ![w].lost = FALSE]
        BY <1>3 DEF TInv, TypeOK, Heartbeat
      <3> QED BY <3>1 DEF WorkerRow
    <2> QED BY <1>3, <2>1, TableFrame DEF TInv, TypeOK, Heartbeat
  <1> QED BY <1>1, <1>2, <1>3, WorkerStepTInv, WorkerFaultTInv DEF WorkerNext

\* The tables after a verdict on the current attempt of j and a retry.
LEMMA ExpireTables ==
    ASSUME TInv, NEW j \in Jobs, Requeueable(j), ExpireCurrent(j)
    PROVE  /\ jobs' \in [Jobs -> JobRow]
           /\ attempts' \in [Attempts -> AttemptRow]
           /\ \A b \in Attempts : Used(b) => Used(b)'
           /\ \A b \in Attempts : Used(b)' => attempts'[b].job \in Jobs
  <1>1. jobs[j] \in JobRow
    BY DEF TInv, TypeOK
  <1>2. PICK a \in Attempts : a = jobs[j].current
    BY <1>1 DEF Requeueable, JobRow
  <1>3. attempts' = [attempts EXCEPT ![a] = Verdict(@, "expired")]
    BY <1>2 DEF ExpireCurrent
  <1>4. jobs' \in [Jobs -> JobRow]
    BY <1>1, RetryOrBuryFacts DEF TInv, TypeOK, ExpireCurrent
  <1> QED BY <1>3, <1>4, VerdictTables

LEMMA AfterRequeueFacts ==
    ASSUME TInv, NEW r \in Reapers, NEW j \in Jobs,
           NEW e \in {"deathEnqueue", "leaseEnqueue"}, NEW d \in {"workers", "attempts"}
    PROVE  /\ AfterRequeue(r, j, e, d) \in SweepProc
           /\ AfterRequeue(r, j, e, d).expired = sweep[r].expired
           /\ AfterRequeue(r, j, e, d).pc \in {e, d}
           /\ AfterRequeue(r, j, e, d).pc = e => AfterRequeue(r, j, e, d).job = j
  <1>1. sweep[r] \in SweepProc
    BY DEF TInv, TypeOK
  <1>2. CASE jobs[j].retries < MaxRetries
    BY <1>1, <1>2 DEF AfterRequeue, SweepProc
  <1>3. CASE ~ (jobs[j].retries < MaxRetries)
    BY <1>1, <1>3 DEF AfterRequeue, SweepProc
  <1> QED BY <1>2, <1>3

LEMMA SweepTInv ==
    ASSUME TInv, NEW r \in Reapers, SweepStep(r) \/ AbortSweep(r)
    PROVE  TInv'
  <1>0. sweep[r] \in SweepProc /\ SweepHolds(sweep[r])
    BY DEF TInv, TypeOK, InHandExists
  <1>u. ASSUME UNCHANGED attempts
        PROVE  /\ attempts' \in [Attempts -> AttemptRow]
               /\ \A a \in Attempts : Used(a) => Used(a)'
               /\ \A a \in Attempts : Used(a)' => attempts'[a].job \in Jobs
    BY <1>u DEF TInv, TypeOK, InHandExists, Used
  <1>1. CASE StartSweep(r)
    <2> DEFINE d == {<<w, workers[w].job>> : w \in
                       {x \in Workers : workers[x].status = "busy" /\ workers[x].lost}}
               s == [Resting EXCEPT !.pc = "workers", !.dead = d]
    <2>1. d \in SUBSET (Workers \X (Jobs \cup {None}))
      BY DEF TInv, TypeOK, WorkerRow
    <2>2. sweep' = [sweep EXCEPT ![r] = s]
      BY <1>1 DEF StartSweep
    <2> HIDE DEF d
    <2>3. s \in SweepProc /\ SweepHolds(s)
      BY <2>1 DEF Resting, SweepProc, SweepHolds
    <2> HIDE DEF s
    <2> QED BY <1>1, <1>u, <2>2, <2>3, SweepFrame DEF StartSweep, TInv, TypeOK
  <1>2. CASE MarkWorkerDead(r)
    <2>1. PICK d \in sweep[r].dead :
            /\ workers' = [workers EXCEPT ![d[1]] =
                             [status |-> "dead", job |-> None, lost |-> FALSE]]
            /\ sweep' = [sweep EXCEPT ![r] =
                 IF d[2] = None
                 THEN [sweep[r] EXCEPT !.dead = @ \ {d}]
                 ELSE [sweep[r] EXCEPT !.dead = @ \ {d}, !.pc = "death",
                                       !.worker = d[1], !.job = d[2]]]
      BY <1>2 DEF MarkWorkerDead
    <2>2. d[1] \in Workers /\ d[2] \in Jobs \cup {None}
      BY <1>0, <2>1 DEF SweepProc
    <2>3. workers' \in [Workers -> WorkerRow]
      BY <2>1, <2>2 DEF TInv, TypeOK, WorkerRow
    <2> DEFINE s == IF d[2] = None
                    THEN [sweep[r] EXCEPT !.dead = @ \ {d}]
                    ELSE [sweep[r] EXCEPT !.dead = @ \ {d}, !.pc = "death",
                                          !.worker = d[1], !.job = d[2]]
    <2>4. s \in SweepProc /\ SweepHolds(s)
      <3>1. CASE d[2] = None
        BY <1>0, <3>1 DEF SweepProc, SweepHolds
      <3>2. CASE d[2] # None
        <4>1. s = [sweep[r] EXCEPT !.dead = sweep[r].dead \ {d}, !.pc = "death",
                                   !.worker = d[1], !.job = d[2]]
          BY <3>2
        <4>2. s.expired = sweep[r].expired /\ s.job = d[2] /\ s.pc = "death"
          BY <1>0, <4>1 DEF SweepProc
        <4>3. s \in SweepProc
          BY <1>0, <2>2, <4>1 DEF SweepProc
        <4> QED BY <1>0, <2>2, <3>2, <4>2, <4>3 DEF SweepHolds
      <3> QED BY <3>1, <3>2
    <2>5. sweep' = [sweep EXCEPT ![r] = s]
      BY <2>1
    <2> HIDE DEF s
    <2> QED BY <1>2, <1>u, <2>3, <2>4, <2>5, SweepFrame DEF MarkWorkerDead, TInv, TypeOK
  <1>3. CASE RequeueDeadWorkersJob(r)
    <2>1. PICK j \in Jobs : j = sweep[r].job
      BY <1>0, <1>3 DEF RequeueDeadWorkersJob, SweepHolds
    <2> DEFINE s == AfterRequeue(r, j, "deathEnqueue", "workers")
    <2>2. s \in SweepProc /\ SweepHolds(s)
      BY <1>0, AfterRequeueFacts DEF SweepHolds
    <2>3. sweep' = [sweep EXCEPT ![r] = s] /\ Requeueable(j) /\ ExpireCurrent(j)
            /\ NoFault /\ UNCHANGED <<outputs, workers, queue, api, proc>>
      BY <1>3, <2>1 DEF RequeueDeadWorkersJob
    <2> HIDE DEF s
    <2> QED BY <2>2, <2>3, ExpireTables, SweepFrame DEF TInv, TypeOK
  <1>4. CASE DeadWorkersJobSettled(r)
    <2> DEFINE s == [sweep[r] EXCEPT !.pc = "workers", !.job = None, !.worker = None]
    <2>1. s \in SweepProc /\ SweepHolds(s)
      BY <1>0 DEF SweepProc, SweepHolds
    <2>2. sweep' = [sweep EXCEPT ![r] = s]
      BY <1>4 DEF DeadWorkersJobSettled
    <2> HIDE DEF s
    <2> QED BY <1>4, <1>u, <2>1, <2>2, SweepFrame DEF DeadWorkersJobSettled, TInv, TypeOK
  <1>5. CASE SelectLapsedLeases(r)
    <2> DEFINE e == {a \in Attempts : attempts[a].status = "running" /\ attempts[a].lapsed}
               s == [sweep[r] EXCEPT !.pc = "attempts", !.expired = e]
    <2>1. e \in SUBSET Attempts /\ \A a \in e : Used(a)
      BY DEF Used
    <2>2. sweep' = [sweep EXCEPT ![r] = s]
      BY <1>5 DEF SelectLapsedLeases, Lapsed
    <2> HIDE DEF e
    <2>3. s \in SweepProc /\ SweepHolds(s)
      BY <1>0, <2>1 DEF SweepProc, SweepHolds
    <2> HIDE DEF s
    <2> QED BY <1>5, <1>u, <2>2, <2>3, SweepFrame DEF SelectLapsedLeases, TInv, TypeOK
  <1>6. CASE RequeueLapsed(r)
    <2>1. PICK a \in sweep[r].expired :
            /\ Requeueable(attempts[a].job)
            /\ ExpireCurrent(attempts[a].job)
            /\ sweep' = [sweep EXCEPT ![r] =
                 [AfterRequeue(r, attempts[a].job, "leaseEnqueue", "attempts")
                    EXCEPT !.expired = @ \ {a}]]
      BY <1>6 DEF RequeueLapsed
    <2>2. PICK j \in Jobs : j = attempts[a].job
      BY <1>0, <2>1 DEF SweepProc, SweepHolds, TInv, InHandExists
    <2> DEFINE s == [AfterRequeue(r, j, "leaseEnqueue", "attempts") EXCEPT !.expired = @ \ {a}]
    <2>3. s \in SweepProc /\ SweepHolds(s)
      BY <1>0, AfterRequeueFacts DEF SweepHolds, SweepProc
    <2>4. sweep' = [sweep EXCEPT ![r] = s]
      BY <2>1, <2>2
    <2>5. NoFault /\ UNCHANGED <<outputs, workers, queue, api, proc>>
      BY <1>6 DEF RequeueLapsed
    <2> HIDE DEF s
    <2> QED BY <2>1, <2>2, <2>3, <2>4, <2>5, ExpireTables, SweepFrame DEF TInv, TypeOK
  <1>7. CASE LapsedSettled(r)
    <2>1. PICK a \in sweep[r].expired : sweep' = [sweep EXCEPT ![r].expired = @ \ {a}]
      BY <1>7 DEF LapsedSettled
    <2> DEFINE s == [sweep[r] EXCEPT !.expired = @ \ {a}]
    <2>2. s \in SweepProc /\ SweepHolds(s)
      BY <1>0 DEF SweepProc, SweepHolds
    <2>3. sweep' = [sweep EXCEPT ![r] = s]
      BY <2>1
    <2> HIDE DEF s
    <2> QED BY <1>7, <1>u, <2>2, <2>3, SweepFrame DEF LapsedSettled, TInv, TypeOK
  <1>8. CASE EnqueueRequeued(r)
    <2> DEFINE s == [sweep[r] EXCEPT
                      !.pc = IF sweep[r].pc = "deathEnqueue" THEN "workers" ELSE "attempts",
                      !.job = None, !.worker = None]
    <2>1. s \in SweepProc /\ SweepHolds(s)
      BY <1>0 DEF SweepProc, SweepHolds
    <2>2. sweep' = [sweep EXCEPT ![r] = s] /\ sweep[r].job \in Jobs
      BY <1>0, <1>8 DEF EnqueueRequeued, SweepHolds
    <2> HIDE DEF s
    <2> QED BY <1>8, <1>u, <2>1, <2>2, SweepFrame DEF EnqueueRequeued, TInv, TypeOK
  <1>9. CASE SelectQuietJobs(r)
    <2> DEFINE m == {j \in Jobs : jobs[j].status = "queued" /\ jobs[j].quiet}
    <2>1. LookUp(m) \in SweepProc /\ SweepHolds(LookUp(m))
      BY LookUpFacts DEF SweepHolds
    <2>2. sweep' = [sweep EXCEPT ![r] = LookUp(m)]
      BY <1>9 DEF SelectQuietJobs
    <2> HIDE DEF m
    <2> QED BY <1>9, <1>u, <2>1, <2>2, SweepFrame DEF SelectQuietJobs, TInv, TypeOK
  <1>10. CASE CheckMembership(r)
    <2>1. PICK j \in sweep[r].missing :
            sweep' = [sweep EXCEPT ![r] =
              IF j \in queue
              THEN LookUp(sweep[r].missing \ {j})
              ELSE [sweep[r] EXCEPT !.missing = @ \ {j}, !.pc = "restore", !.job = j]]
      BY <1>10 DEF CheckMembership, QueueContainsJob
    <2>2. j \in Jobs /\ sweep[r].missing \ {j} \in SUBSET Jobs
      BY <1>0 DEF SweepProc
    <2>3. LookUp(sweep[r].missing \ {j}) \in SweepProc
            /\ SweepHolds(LookUp(sweep[r].missing \ {j}))
      BY <2>2, LookUpFacts DEF SweepHolds
    <2> DEFINE s == [sweep[r] EXCEPT !.missing = @ \ {j}, !.pc = "restore", !.job = j]
    <2>4. s \in SweepProc /\ SweepHolds(s)
      BY <1>0, <2>2 DEF SweepProc, SweepHolds
    <2>5. \E t \in SweepProc : SweepHolds(t) /\ sweep' = [sweep EXCEPT ![r] = t]
      <3>1. CASE j \in queue
        BY <2>1, <2>3, <3>1
      <3>2. CASE j \notin queue
        BY <2>1, <2>4, <3>2
      <3> QED BY <3>1, <3>2
    <2> HIDE DEF s
    <2> QED BY <1>10, <1>u, <2>5, SweepFrame DEF CheckMembership, TInv, TypeOK
  <1>11. CASE RestoreEntry(r)
    <2>1. LookUp(sweep[r].missing) \in SweepProc /\ SweepHolds(LookUp(sweep[r].missing))
      BY <1>0, LookUpFacts DEF SweepProc, SweepHolds
    <2>2. sweep[r].job \in Jobs
      BY <1>0, <1>11 DEF RestoreEntry, SweepHolds
    <2> QED BY <1>11, <1>u, <2>1, <2>2, SweepFrame DEF RestoreEntry, TInv, TypeOK
  <1>12. CASE AbortSweep(r)
    <2>1. SweepHolds(Resting)
      BY DEF SweepHolds, Resting
    <2> QED BY <1>12, <1>u, <2>1, RestingType, SweepFrame DEF AbortSweep, TInv, TypeOK
  <1> QED BY <1>1, <1>2, <1>3, <1>4, <1>5, <1>6, <1>7, <1>8, <1>9, <1>10, <1>11, <1>12
          DEF SweepStep

LEMMA EnvironmentTInv ==
    ASSUME TInv, Environment
    PROVE  TInv'
  <1>1. ASSUME NEW a \in Attempts, LeaseLapses(a) PROVE TInv'
    <2>t. /\ attempts \in [Attempts -> AttemptRow]
          /\ attempts' = [attempts EXCEPT ![a].lapsed = TRUE]
      BY <1>1 DEF TInv, TypeOK, LeaseLapses
    <2>1. attempts' \in [Attempts -> AttemptRow]
      <3>1. [attempts[a] EXCEPT !.lapsed = TRUE] \in AttemptRow
        BY <2>t DEF AttemptRow
      <3> QED BY <2>t, <3>1
    <2>2. \A b \in Attempts : attempts'[b].status = attempts[b].status
                               /\ attempts'[b].job = attempts[b].job
      BY <2>t DEF AttemptRow
    <2>3. TypeOK'
      BY <1>1, <2>1, FaultType DEF TInv, TypeOK, LeaseLapses
    <2>4. \A r \in Reapers : \A b \in sweep[r].expired : b \in Attempts
      BY DEF TInv, TypeOK, SweepProc
    <2>5. InHandExists'
      BY <1>1, <2>2, <2>4 DEF TInv, InHandExists, LeaseLapses, Used, ProcHolds, SweepHolds
    <2> QED BY <2>3, <2>5 DEF TInv
  <1>2. ASSUME NEW w \in Workers, HeartbeatLapses(w) PROVE TInv'
    <2>1. workers' \in [Workers -> WorkerRow]
      <3>1. workers \in [Workers -> WorkerRow] /\ workers' = [workers EXCEPT ![w].lost = TRUE]
        BY <1>2 DEF TInv, TypeOK, HeartbeatLapses
      <3> QED BY <3>1 DEF WorkerRow
    <2> QED BY <1>2, <2>1, TableFrame DEF TInv, TypeOK, HeartbeatLapses
  <1>3. ASSUME NEW j \in Jobs, JobGoesQuiet(j) PROVE TInv'
    <2>1. jobs' \in [Jobs -> JobRow]
      <3>1. jobs \in [Jobs -> JobRow] /\ jobs' = [jobs EXCEPT ![j].quiet = TRUE]
        BY <1>3 DEF TInv, TypeOK, JobGoesQuiet
      <3> QED BY <3>1 DEF JobRow
    <2> QED BY <1>3, <2>1, TableFrame DEF TInv, TypeOK, JobGoesQuiet
  <1>4. CASE RedisLoses
    BY <1>4, TableFrame DEF TInv, TypeOK, RedisLoses
  <1> QED BY <1>1, <1>2, <1>3, <1>4 DEF Environment

LEMMA NextTInv == TInv /\ [Next]_vars => TInv'
  <1> SUFFICES ASSUME TInv, [Next]_vars PROVE TInv'
    OBVIOUS
  <1>1. CASE Next
    BY <1>1, ApiTInv, WorkerTInv, SweepTInv, EnvironmentTInv DEF Next
  <1>2. CASE UNCHANGED vars
    BY <1>2 DEF vars, TInv, TypeOK, InHandExists, ProcHolds, SweepHolds, Used
  <1> QED BY <1>1, <1>2

\* Type correctness: in every reachable state the tables, the queue and the
\* processes' locals have their types.
THEOREM TypeCorrect == Spec => []TypeOK
  <1>1. Spec => []TInv
    BY InitTInv, NextTInv, PTL DEF Spec
  <1>2. TInv => TypeOK
    BY DEF TInv
  <1> QED BY <1>1, <1>2, PTL

-----------------------------------------------------------------------------
(***************************************************************************)
(* Safety.  The invariants speak of a few columns of jobs, job_attempts    *)
(* and job_outputs, and every action does one of five things to those      *)
(* columns: nothing, create a job, claim one, complete one, or give its    *)
(* current attempt up.  CoreStep shows that; the invariants, the action    *)
(* properties and the refinement are then shown for the five.              *)
(***************************************************************************)

SameJob(k) ==
    /\ jobs'[k].status = jobs[k].status
    /\ jobs'[k].retries = jobs[k].retries
    /\ jobs'[k].current = jobs[k].current
    /\ jobs'[k].completedBy = jobs[k].completedBy

SameAttempt(b) ==
    /\ attempts'[b].status = attempts[b].status
    /\ attempts'[b].job = attempts[b].job
    /\ attempts'[b].number = attempts[b].number

SameOthers(j, a) ==
    /\ \A k \in Jobs \ {j} : SameJob(k)
    /\ \A b \in Attempts \ {a} : SameAttempt(b)

CoreStill ==
    /\ \A k \in Jobs : SameJob(k)
    /\ \A b \in Attempts : SameAttempt(b)
    /\ outputs' = outputs

CoreCreate(j) ==
    /\ jobs[j].status = "none" /\ jobs'[j].status = "queued"
    /\ jobs'[j].retries = jobs[j].retries
    /\ jobs'[j].current = jobs[j].current
    /\ jobs'[j].completedBy = jobs[j].completedBy
    /\ SameOthers(j, None)
    /\ outputs' = outputs

CoreClaim(j, a) ==
    /\ jobs[j].status = "queued" /\ jobs'[j].status = "processing"
    /\ jobs[j].current = None /\ jobs'[j].current = a
    /\ jobs'[j].retries = jobs[j].retries
    /\ jobs'[j].completedBy = jobs[j].completedBy
    /\ attempts[a].status = "none" /\ attempts'[a].status = "running"
    /\ attempts'[a].job = j
    /\ attempts'[a].number = jobs[j].retries + 1
    /\ SameOthers(j, a)
    /\ outputs' = outputs

CoreComplete(j, a) ==
    /\ jobs[j].status = "processing" /\ jobs'[j].status = "completed"
    /\ jobs[j].current = a /\ jobs'[j].current = None
    /\ jobs'[j].retries = jobs[j].retries
    /\ jobs'[j].completedBy = a
    /\ attempts[a].status = "running" /\ attempts'[a].status = "completed"
    /\ attempts'[a].job = attempts[a].job
    /\ attempts'[a].number = attempts[a].number
    /\ SameOthers(j, a)
    /\ outputs' = [outputs EXCEPT ![j] = a]

CoreGiveUp(j, a) ==
    /\ jobs[j].status = "processing"
    /\ jobs[j].current = a /\ jobs'[j].current = None
    /\ jobs'[j].completedBy = jobs[j].completedBy
    /\ \/ /\ jobs[j].retries = MaxRetries
          /\ jobs'[j].status = "dead"
          /\ jobs'[j].retries = jobs[j].retries
       \/ /\ jobs[j].retries < MaxRetries
          /\ jobs'[j].status = "queued"
          /\ jobs'[j].retries = jobs[j].retries + 1
    /\ attempts[a].status = "running" /\ attempts'[a].status \in {"failed", "expired"}
    /\ attempts'[a].job = attempts[a].job
    /\ attempts'[a].number = attempts[a].number
    /\ SameOthers(j, a)
    /\ outputs' = outputs

Core ==
    \/ CoreStill
    \/ \E j \in Jobs : CoreCreate(j)
    \/ \E j \in Jobs, a \in Attempts : CoreClaim(j, a) \/ CoreComplete(j, a) \/ CoreGiveUp(j, a)

LEMMA StillCore ==
    ASSUME UNCHANGED <<jobs, attempts, outputs>>
    PROVE  CoreStill
  BY DEF CoreStill, SameJob, SameAttempt

LEMMA ClaimCore ==
    ASSUME TInv, OneRunningAttempt, NEW w \in Workers, NEW j \in Jobs, NEW a \in Attempts,
           Claim(w, j, a)
    PROVE  CoreClaim(j, a)
  <1>1. jobs[j] \in JobRow /\ jobs[j].current = None
    BY DEF TInv, TypeOK, OneRunningAttempt, Claim, JobRow
  <1>2. jobs' = [jobs EXCEPT ![j] = [jobs[j] EXCEPT !.status = "processing", !.current = a,
                                                    !.quiet = FALSE]]
    BY <1>1 DEF Claim
  <1>3. jobs'[j] = [jobs[j] EXCEPT !.status = "processing", !.current = a, !.quiet = FALSE]
          /\ \A k \in Jobs \ {j} : jobs'[k] = jobs[k]
    BY <1>2 DEF TInv, TypeOK
  <1>4. attempts'[a] = [status |-> "running", job |-> j, number |-> jobs[j].retries + 1,
                        worker |-> w, lapsed |-> FALSE]
          /\ \A b \in Attempts \ {a} : attempts'[b] = attempts[b]
    BY DEF Claim, TInv, TypeOK
  <1>5. SameOthers(j, a)
    BY <1>3, <1>4 DEF SameOthers, SameJob, SameAttempt
  <1>6. jobs'[j].status = "processing" /\ jobs'[j].current = a
          /\ jobs'[j].retries = jobs[j].retries /\ jobs'[j].completedBy = jobs[j].completedBy
    BY <1>1, <1>3 DEF JobRow
  <1> QED BY <1>1, <1>4, <1>5, <1>6 DEF CoreClaim, Claim

LEMMA CompleteCore ==
    ASSUME TInv, OneRunningAttempt, NEW j \in Jobs, NEW a \in Attempts, Complete(j, a)
    PROVE  CoreComplete(j, a)
  <1>1. jobs[j] \in JobRow /\ attempts[a] \in AttemptRow /\ attempts[a].status = "running"
          /\ jobs[j].status = "processing" /\ jobs[j].current = a
    BY DEF TInv, TypeOK, OneRunningAttempt, Complete, IsCurrent
  <1>2. jobs'[j] = [jobs[j] EXCEPT !.status = "completed", !.completedBy = a,
                                   !.current = None, !.quiet = FALSE]
          /\ \A k \in Jobs \ {j} : jobs'[k] = jobs[k]
    BY DEF Complete, TInv, TypeOK
  <1>3. attempts'[a] = Verdict(attempts[a], "completed")
          /\ \A b \in Attempts \ {a} : attempts'[b] = attempts[b]
    BY DEF Complete, TInv, TypeOK
  <1>4. attempts'[a].status = "completed" /\ attempts'[a].job = attempts[a].job
          /\ attempts'[a].number = attempts[a].number
    BY <1>1, <1>3, VerdictFacts
  <1>5. SameOthers(j, a)
    BY <1>2, <1>3 DEF SameOthers, SameJob, SameAttempt
  <1>6. jobs'[j].status = "completed" /\ jobs'[j].current = None
          /\ jobs'[j].retries = jobs[j].retries /\ jobs'[j].completedBy = a
    BY <1>1, <1>2 DEF JobRow
  <1> QED BY <1>1, <1>4, <1>5, <1>6 DEF CoreComplete, Complete

LEMMA GiveUpCore ==
    ASSUME TInv, OneRunningAttempt, NEW j \in Jobs, NEW a \in Attempts, IsCurrent(j, a),
           NEW v \in {"failed", "expired"},
           attempts' = [attempts EXCEPT ![a] = Verdict(@, v)],
           jobs' = [jobs EXCEPT ![j] = RetryOrBury(@)],
           UNCHANGED outputs
    PROVE  CoreGiveUp(j, a)
  <1>1. jobs[j] \in JobRow /\ attempts[a] \in AttemptRow /\ attempts[a].status = "running"
          /\ jobs[j].status = "processing" /\ jobs[j].current = a
    BY NoneAssumption DEF TInv, TypeOK, OneRunningAttempt, IsCurrent
  <1>2. jobs'[j] = RetryOrBury(jobs[j]) /\ \A k \in Jobs \ {j} : jobs'[k] = jobs[k]
    BY DEF TInv, TypeOK
  <1>3. attempts'[a] = Verdict(attempts[a], v)
          /\ \A b \in Attempts \ {a} : attempts'[b] = attempts[b]
    BY DEF TInv, TypeOK
  <1>4. attempts'[a].status = v /\ attempts'[a].job = attempts[a].job
          /\ attempts'[a].number = attempts[a].number
    BY <1>1, <1>3, VerdictFacts
  <1>5. SameOthers(j, a)
    BY <1>2, <1>3 DEF SameOthers, SameJob, SameAttempt
  <1> QED BY <1>1, <1>2, <1>4, <1>5, RetryOrBuryFacts DEF CoreGiveUp

LEMMA CoreStep ==
    ASSUME TInv, OneRunningAttempt, [Next]_vars
    PROVE  Core
  <1> USE DEF Core
  <1>1. ASSUME NEW j \in Jobs, ApiNext(j) PROVE Core
    <2>1. CASE CreateQueuedJob(j)
      <3>1. jobs[j] \in JobRow /\ jobs'[j] = [jobs[j] EXCEPT !.status = "queued"]
              /\ \A k \in Jobs \ {j} : jobs'[k] = jobs[k]
        BY <2>1 DEF CreateQueuedJob, TInv, TypeOK
      <3>2. SameOthers(j, None)
        BY <2>1, <3>1 DEF CreateQueuedJob, SameOthers, SameJob, SameAttempt
      <3>3. CoreCreate(j)
        BY <2>1, <3>1, <3>2 DEF CreateQueuedJob, CoreCreate, JobRow
      <3> QED BY <3>3
    <2>2. CASE EnqueueNewJob(j) \/ EnqueueNewJobFails(j)
      BY <2>2, StillCore DEF EnqueueNewJob, EnqueueNewJobFails
    <2> QED BY <1>1, <2>1, <2>2 DEF ApiNext
  <1>2. ASSUME NEW w \in Workers, WorkerNext(w) PROVE Core
    <2>0. ProcHolds(proc[w])
      BY DEF TInv, InHandExists
    <2>1. ASSUME NEW a \in Attempts, MarkProcessing(w, a) \/ ClaimUncertain(w, a) PROVE Core
      <3>1. proc[w].job \in Jobs /\ Claim(w, proc[w].job, a)
        BY <2>0, <2>1 DEF MarkProcessing, ClaimUncertain, ProcHolds
      <3> QED BY <3>1, ClaimCore
    <2>2. CASE CompleteJob(w) \/ CompleteUncertain(w)
      <3>1. proc[w].job \in Jobs /\ proc[w].attempt \in Attempts
              /\ Complete(proc[w].job, proc[w].attempt)
        BY <2>0, <2>2 DEF CompleteJob, CompleteUncertain, ProcHolds
      <3> QED BY <3>1, CompleteCore
    <2>3. CASE HandleFailure(w)
      <3>1. proc[w].job \in Jobs /\ proc[w].attempt \in Attempts
        BY <2>0, <2>3 DEF HandleFailure, ProcHolds
      <3>2. CoreGiveUp(proc[w].job, proc[w].attempt)
        BY <2>3, <3>1, GiveUpCore DEF HandleFailure
      <3> QED BY <3>1, <3>2
    <2>4. CASE RenewLease(w)
      <3>1. attempts' = [attempts EXCEPT ![proc[w].attempt].lapsed = FALSE]
              /\ UNCHANGED <<jobs, outputs>>
        BY <2>4 DEF RenewLease
      <3>2. \A b \in Attempts : SameAttempt(b)
        BY <3>1 DEF TInv, TypeOK, AttemptRow, SameAttempt
      <3> QED BY <3>1, <3>2 DEF CoreStill, SameJob
    <2>5. CASE UNCHANGED <<jobs, attempts, outputs>>
      BY <2>5, StillCore
    <2> QED
      BY <1>2, <2>1, <2>2, <2>3, <2>4, <2>5
      DEF WorkerNext, WorkerStep, WorkerFault, Register, Poll, PollLosesEntry, ClaimRefused,
          ClaimFails, SetWorkerBusy, SetWorkerBusyFails, LeaseLost, RenewalFails, RunJobFails,
          CompleteStale, FailureIgnored, HandleFailureFails, EnqueueRetry, EnqueueRetryFails,
          SetWorkerIdle, SetWorkerIdleFails, Heartbeat, Stop
  <1>3. ASSUME NEW r \in Reapers, SweepStep(r) \/ AbortSweep(r) PROVE Core
    <2>0. sweep[r] \in SweepProc /\ SweepHolds(sweep[r])
      BY DEF TInv, TypeOK, InHandExists
    <2>1. ASSUME NEW j \in Jobs, Requeueable(j), ExpireCurrent(j), UNCHANGED outputs
          PROVE  Core
      <3>1. jobs[j].current \in Attempts /\ IsCurrent(j, jobs[j].current)
        BY <2>1 DEF Requeueable, TInv, TypeOK, JobRow, IsCurrent
      <3>2. CoreGiveUp(j, jobs[j].current)
        BY <2>1, <3>1, GiveUpCore DEF ExpireCurrent
      <3> QED BY <3>1, <3>2
    <2>2. CASE RequeueDeadWorkersJob(r)
      <3>1. sweep[r].job \in Jobs
        BY <2>0, <2>2 DEF RequeueDeadWorkersJob, SweepHolds
      <3> QED BY <2>1, <2>2, <3>1 DEF RequeueDeadWorkersJob
    <2>3. CASE RequeueLapsed(r)
      <3>1. PICK a \in sweep[r].expired : Requeueable(attempts[a].job)
                                           /\ ExpireCurrent(attempts[a].job)
        BY <2>3 DEF RequeueLapsed
      <3>2. attempts[a].job \in Jobs
        BY <2>0, <3>1 DEF SweepProc, SweepHolds, TInv, InHandExists
      <3> QED BY <2>1, <2>3, <3>1, <3>2 DEF RequeueLapsed
    <2>4. CASE UNCHANGED <<jobs, attempts, outputs>>
      BY <2>4, StillCore
    <2> QED
      BY <1>3, <2>2, <2>3, <2>4
      DEF SweepStep, AbortSweep, StartSweep, MarkWorkerDead, DeadWorkersJobSettled,
          SelectLapsedLeases, LapsedSettled, EnqueueRequeued, SelectQuietJobs, CheckMembership,
          RestoreEntry
  <1>4. CASE Environment
    <2>1. ASSUME NEW a \in Attempts, LeaseLapses(a) PROVE Core
      <3>1. attempts' = [attempts EXCEPT ![a].lapsed = TRUE] /\ UNCHANGED <<jobs, outputs>>
        BY <2>1 DEF LeaseLapses
      <3>2. \A b \in Attempts : SameAttempt(b)
        BY <3>1 DEF TInv, TypeOK, AttemptRow, SameAttempt
      <3> QED BY <3>1, <3>2 DEF CoreStill, SameJob
    <2>2. ASSUME NEW j \in Jobs, JobGoesQuiet(j) PROVE Core
      <3>1. jobs' = [jobs EXCEPT ![j].quiet = TRUE] /\ UNCHANGED <<attempts, outputs>>
        BY <2>2 DEF JobGoesQuiet
      <3>2. \A k \in Jobs : SameJob(k)
        BY <3>1 DEF TInv, TypeOK, JobRow, SameJob
      <3> QED BY <3>1, <3>2 DEF CoreStill, SameAttempt
    <2>3. CASE UNCHANGED <<jobs, attempts, outputs>>
      BY <2>3, StillCore
    <2> QED BY <1>4, <2>1, <2>2, <2>3 DEF Environment, HeartbeatLapses, RedisLoses
  <1>5. CASE UNCHANGED vars
    BY <1>5, StillCore DEF vars
  <1> QED BY <1>1, <1>2, <1>3, <1>4, <1>5 DEF Next

-----------------------------------------------------------------------------
(***************************************************************************)
(* The inductive invariant.  CurrentNumber is what the numbering and the   *)
(* accounting of retries need of each other: the attempt in progress is    *)
(* the one that the next verdict will charge.                              *)
(***************************************************************************)

CurrentNumber ==
    \A j \in Jobs : jobs[j].current # None =>
        attempts[jobs[j].current].number = jobs[j].retries + 1

IInv ==
    /\ TInv
    /\ OneRunningAttempt
    /\ OneVisibleCompletion
    /\ CurrentNumber
    /\ AttemptsNumbered
    /\ RetriesAccounted

LEMMA JobTypes ==
    ASSUME TInv
    PROVE  /\ \A j \in Jobs : /\ jobs[j].retries \in 0 .. MaxRetries
                              /\ jobs[j].current \in Attempts \cup {None}
                              /\ jobs[j].completedBy \in Attempts \cup {None}
                              /\ outputs[j] \in Attempts \cup {None}
           /\ \A a \in Attempts : attempts[a].number \in 0 .. MaxRetries + 1
           /\ outputs \in [Jobs -> Attempts \cup {None}]
  BY DEF TInv, TypeOK, JobRow, AttemptRow

LEMMA InitIInv == Init => IInv
  <1> SUFFICES ASSUME Init PROVE IInv
    OBVIOUS
  <1>1. TInv
    BY InitTInv
  <1>2. OneRunningAttempt /\ OneVisibleCompletion /\ CurrentNumber
    BY DEF Init, OneRunningAttempt, OneVisibleCompletion, CurrentNumber
  <1>r. \A j \in Jobs : jobs[j].status = "none" /\ jobs[j].retries = 0
    BY DEF Init
  <1>3. \A j \in Jobs : jobs[j].status = "none" /\ jobs[j].retries = 0 /\ Given(j) = 0
    <2> SUFFICES ASSUME NEW j \in Jobs PROVE Given(j) = 0
      BY <1>r
    <2>1. jobs[j].status \in {"none", "queued"} /\ jobs[j].retries = 0
      BY <1>r
    <2>2. Given(j) = 0 + 0
      BY <2>1 DEF Given
    <2> QED BY <2>2
  <1>4. \A a \in Attempts : ~ Used(a)
    BY DEF Init, Used
  <1>5. 1 .. 0 = {}
    OBVIOUS
  <1>6. AttemptsNumbered
    BY <1>3, <1>4, <1>5 DEF AttemptsNumbered
  <1>7. RetriesAccounted
    BY <1>3, <1>5 DEF RetriesAccounted
  <1> QED BY <1>1, <1>2, <1>6, <1>7 DEF IInv

LEMMA OneRunningStep ==
    ASSUME IInv, Core
    PROVE  OneRunningAttempt'
  <1> USE NoneAssumption
  <1>t. /\ \A k \in Jobs : jobs[k].current \in Attempts \cup {None}
        /\ OneRunningAttempt
    BY JobTypes DEF IInv
  <1>1. CASE CoreStill
    BY <1>1, <1>t DEF CoreStill, SameJob, SameAttempt, OneRunningAttempt
  <1>2. ASSUME NEW j \in Jobs, CoreCreate(j) PROVE OneRunningAttempt'
    BY <1>2, <1>t DEF CoreCreate, SameOthers, SameJob, SameAttempt, OneRunningAttempt
  <1>3. ASSUME NEW j \in Jobs, NEW a \in Attempts, CoreClaim(j, a) PROVE OneRunningAttempt'
    BY <1>3, <1>t DEF CoreClaim, SameOthers, SameJob, SameAttempt, OneRunningAttempt
  <1>4. ASSUME NEW j \in Jobs, NEW a \in Attempts, CoreComplete(j, a) PROVE OneRunningAttempt'
    BY <1>4, <1>t DEF CoreComplete, SameOthers, SameJob, SameAttempt, OneRunningAttempt
  <1>5. ASSUME NEW j \in Jobs, NEW a \in Attempts, CoreGiveUp(j, a) PROVE OneRunningAttempt'
    BY <1>5, <1>t DEF CoreGiveUp, SameOthers, SameJob, SameAttempt, OneRunningAttempt
  <1> QED BY <1>1, <1>2, <1>3, <1>4, <1>5 DEF Core

LEMMA OneVisibleStep ==
    ASSUME IInv, Core
    PROVE  OneVisibleCompletion'
  <1> USE NoneAssumption
  <1>t. /\ \A k \in Jobs : outputs[k] \in Attempts \cup {None}
        /\ outputs \in [Jobs -> Attempts \cup {None}]
        /\ OneRunningAttempt /\ OneVisibleCompletion
    BY JobTypes DEF IInv
  <1>1. CASE CoreStill
    BY <1>1, <1>t DEF CoreStill, SameJob, SameAttempt, OneVisibleCompletion
  <1>2. ASSUME NEW j \in Jobs, CoreCreate(j) PROVE OneVisibleCompletion'
    BY <1>2, <1>t DEF CoreCreate, SameOthers, SameJob, SameAttempt, OneVisibleCompletion
  <1>3. ASSUME NEW j \in Jobs, NEW a \in Attempts, CoreClaim(j, a) PROVE OneVisibleCompletion'
    BY <1>3, <1>t DEF CoreClaim, SameOthers, SameJob, SameAttempt, OneVisibleCompletion
  <1>4. ASSUME NEW j \in Jobs, NEW a \in Attempts, CoreComplete(j, a) PROVE OneVisibleCompletion'
    <2>1. attempts[a].job = j /\ outputs'[j] = a
            /\ \A k \in Jobs \ {j} : outputs'[k] = outputs[k]
      BY <1>4, <1>t DEF CoreComplete, OneRunningAttempt
    <2> QED BY <1>4, <1>t, <2>1
            DEF CoreComplete, SameOthers, SameJob, SameAttempt, OneVisibleCompletion
  <1>5. ASSUME NEW j \in Jobs, NEW a \in Attempts, CoreGiveUp(j, a) PROVE OneVisibleCompletion'
    BY <1>5, <1>t DEF CoreGiveUp, SameOthers, SameJob, SameAttempt, OneVisibleCompletion
  <1> QED BY <1>1, <1>2, <1>3, <1>4, <1>5 DEF Core

LEMMA CurrentNumberStep ==
    ASSUME IInv, Core
    PROVE  CurrentNumber'
  <1> USE NoneAssumption
  <1>t. /\ \A k \in Jobs : jobs[k].current \in Attempts \cup {None}
        /\ OneRunningAttempt /\ CurrentNumber
    BY JobTypes DEF IInv
  <1>1. CASE CoreStill
    BY <1>1, <1>t DEF CoreStill, SameJob, SameAttempt, CurrentNumber
  <1>2. ASSUME NEW j \in Jobs, CoreCreate(j) PROVE CurrentNumber'
    BY <1>2, <1>t DEF CoreCreate, SameOthers, SameJob, SameAttempt, CurrentNumber
  <1>3. ASSUME NEW j \in Jobs, NEW a \in Attempts,
               CoreClaim(j, a) \/ CoreComplete(j, a) \/ CoreGiveUp(j, a)
        PROVE  CurrentNumber'
    <2>1. CASE CoreClaim(j, a)
      <3>1. \A k \in Jobs : jobs[k].current # a
        BY <1>t, <2>1 DEF CoreClaim, OneRunningAttempt
      <3> QED BY <1>t, <2>1, <3>1
              DEF CoreClaim, SameOthers, SameJob, SameAttempt, CurrentNumber
    <2>2. CASE CoreComplete(j, a) \/ CoreGiveUp(j, a)
      <3>1. /\ jobs'[j].current = None
            /\ \A k \in Jobs \ {j} : SameJob(k)
            /\ \A b \in Attempts : attempts'[b].number = attempts[b].number
        BY <2>2 DEF CoreComplete, CoreGiveUp, SameOthers, SameAttempt
      <3> QED BY <1>t, <3>1 DEF SameJob, CurrentNumber
    <2> QED BY <1>3, <2>1, <2>2
  <1> QED BY <1>1, <1>2, <1>3 DEF Core

\* Numbers and verdicts, once given, stay; only a claim gives a number.
LEMMA NumberedStep ==
    ASSUME IInv, Core
    PROVE  AttemptsNumbered'
  <1> USE NoneAssumption, RetriesAssumption
  <1>t. /\ \A k \in Jobs : jobs[k].retries \in 0 .. MaxRetries
        /\ \A b \in Attempts : attempts[b].number \in 0 .. MaxRetries + 1
        /\ AttemptsNumbered
    BY JobTypes DEF IInv
  <1>0. ASSUME \A b \in Attempts : attempts'[b].status = "none" <=> attempts[b].status = "none",
               \A b \in Attempts : attempts'[b].job = attempts[b].job
                                   /\ attempts'[b].number = attempts[b].number,
               \A k \in Jobs : Given(k)' = Given(k)
        PROVE  AttemptsNumbered'
    BY <1>0, <1>t DEF AttemptsNumbered, Used
  <1>1. CASE CoreStill
    <2>1. \A k \in Jobs : Given(k)' = Given(k)
      BY <1>1 DEF CoreStill, SameJob, Given
    <2> QED BY <1>0, <1>1, <2>1 DEF CoreStill, SameAttempt
  <1>2. ASSUME NEW j \in Jobs, CoreCreate(j) PROVE AttemptsNumbered'
    <2>1. \A k \in Jobs : Given(k)' = Given(k)
      BY <1>2 DEF CoreCreate, SameOthers, SameJob, Given
    <2>2. \A b \in Attempts : SameAttempt(b)
      BY <1>2 DEF CoreCreate, SameOthers
    <2> QED BY <1>0, <2>1, <2>2 DEF SameAttempt
  <1>3. ASSUME NEW j \in Jobs, NEW a \in Attempts, CoreClaim(j, a) PROVE AttemptsNumbered'
    <2>1. Given(j) = jobs[j].retries /\ Given(j)' = jobs[j].retries + 1
      BY <1>3, <1>t DEF CoreClaim, Given
    <2>2. \A k \in Jobs \ {j} : Given(k)' = Given(k)
      BY <1>3 DEF CoreClaim, SameOthers, SameJob, Given
    <2>3. /\ ~ Used(a) /\ Used(a)' /\ attempts'[a].job = j
          /\ attempts'[a].number = jobs[j].retries + 1
      BY <1>3 DEF CoreClaim, Used
    <2>4. \A b \in Attempts \ {a} : /\ Used(b)' <=> Used(b)
                                    /\ attempts'[b].job = attempts[b].job
                                    /\ attempts'[b].number = attempts[b].number
      BY <1>3 DEF CoreClaim, SameOthers, SameAttempt, Used
    <2>5. \A b \in Attempts \ {a} : Used(b)' /\ attempts'[b].job = j =>
             attempts'[b].number \in 1 .. jobs[j].retries
      BY <1>t, <2>1, <2>4 DEF AttemptsNumbered
    <2>6. ASSUME NEW k \in Jobs, NEW b \in Attempts, Used(b)', attempts'[b].job = k
          PROVE  /\ attempts'[b].number \in 1 .. Given(k)'
                 /\ \A c \in Attempts : Used(c)' /\ attempts'[c].job = k
                                       /\ attempts'[c].number = attempts'[b].number => b = c
      <3>1. CASE k = j
        <4>1. attempts'[b].number \in 1 .. jobs[j].retries + 1
          BY <1>t, <2>3, <2>5, <2>6, <3>1
        <4>2. ASSUME NEW c \in Attempts, Used(c)', attempts'[c].job = j,
                     attempts'[c].number = attempts'[b].number
              PROVE  b = c
          <5>1. CASE b = a \/ c = a
            BY <1>t, <2>3, <2>5, <2>6, <3>1, <4>2, <5>1
          <5>2. CASE b # a /\ c # a
            BY <1>t, <2>4, <2>6, <3>1, <4>2, <5>2 DEF AttemptsNumbered
          <5> QED BY <5>1, <5>2
        <4> QED BY <2>1, <3>1, <4>1, <4>2
      <3>2. CASE k # j
        BY <1>t, <2>2, <2>3, <2>4, <2>6, <3>2 DEF AttemptsNumbered
      <3> QED BY <3>1, <3>2
    <2>7. ASSUME NEW k \in Jobs, NEW n \in 1 .. Given(k)'
          PROVE  \E b \in Attempts : Used(b)' /\ attempts'[b].job = k /\ attempts'[b].number = n
      <3>1. CASE k = j /\ n = jobs[j].retries + 1
        BY <2>3, <3>1
      <3>2. CASE ~ (k = j /\ n = jobs[j].retries + 1)
        <4>1. n \in 1 .. Given(k)
          BY <1>t, <2>1, <2>2, <2>7, <3>2
        <4>2. PICK b \in Attempts : Used(b) /\ attempts[b].job = k /\ attempts[b].number = n
          BY <1>t, <4>1 DEF AttemptsNumbered
        <4> QED BY <2>3, <2>4, <4>2
      <3> QED BY <3>1, <3>2
    <2> QED BY <2>6, <2>7 DEF AttemptsNumbered
  <1>4. ASSUME NEW j \in Jobs, NEW a \in Attempts, CoreComplete(j, a) \/ CoreGiveUp(j, a)
        PROVE  AttemptsNumbered'
    <2>1. \A k \in Jobs : Given(k)' = Given(k)
      BY <1>4, <1>t DEF CoreComplete, CoreGiveUp, SameOthers, SameJob, Given
    <2>2. \A b \in Attempts : /\ attempts'[b].status = "none" <=> attempts[b].status = "none"
                              /\ attempts'[b].job = attempts[b].job
                              /\ attempts'[b].number = attempts[b].number
      BY <1>4 DEF CoreComplete, CoreGiveUp, SameOthers, SameAttempt
    <2> QED BY <1>0, <2>1, <2>2
  <1> QED BY <1>1, <1>2, <1>3, <1>4 DEF Core

LEMMA AccountedStep ==
    ASSUME IInv, Core
    PROVE  RetriesAccounted'
  <1> USE NoneAssumption, RetriesAssumption
  <1>t. /\ \A k \in Jobs : jobs[k].retries \in 0 .. MaxRetries
        /\ OneRunningAttempt /\ CurrentNumber /\ RetriesAccounted
    BY JobTypes DEF IInv
  <1>0. ASSUME NEW k \in Jobs, jobs'[k].retries = jobs[k].retries,
               jobs'[k].status = "dead" => jobs[k].status = "dead",
               \A b \in Attempts : Retired(b) => Retired(b)' /\ attempts'[b].job = attempts[b].job
                                   /\ attempts'[b].number = attempts[b].number
        PROVE  /\ \A n \in 1 .. jobs'[k].retries : \E b \in Attempts :
                    Retired(b)' /\ attempts'[b].job = k /\ attempts'[b].number = n
               /\ jobs'[k].status = "dead" =>
                    \A n \in 1 .. MaxRetries + 1 : \E b \in Attempts :
                        Retired(b)' /\ attempts'[b].job = k /\ attempts'[b].number = n
    BY <1>0, <1>t DEF RetriesAccounted
  <1>1. CASE CoreStill
    BY <1>0, <1>1 DEF CoreStill, SameJob, SameAttempt, Retired, RetriesAccounted
  <1>2. ASSUME NEW j \in Jobs, CoreCreate(j) PROVE RetriesAccounted'
    BY <1>0, <1>2 DEF CoreCreate, SameOthers, SameJob, SameAttempt, Retired, RetriesAccounted
  <1>3. ASSUME NEW j \in Jobs, NEW a \in Attempts, CoreClaim(j, a) \/ CoreComplete(j, a)
        PROVE  RetriesAccounted'
    BY <1>0, <1>3 DEF CoreClaim, CoreComplete, SameOthers, SameJob, SameAttempt, Retired,
                      RetriesAccounted
  <1>4. ASSUME NEW j \in Jobs, NEW a \in Attempts, CoreGiveUp(j, a) PROVE RetriesAccounted'
    <2>1. \A b \in Attempts : Retired(b) => Retired(b)' /\ attempts'[b].job = attempts[b].job
                                            /\ attempts'[b].number = attempts[b].number
      BY <1>4 DEF CoreGiveUp, SameOthers, SameAttempt, Retired
    <2>2. /\ Retired(a)' /\ attempts'[a].job = j
          /\ attempts'[a].number = jobs[j].retries + 1
      BY <1>4, <1>t DEF CoreGiveUp, Retired, OneRunningAttempt, CurrentNumber
    <2>3. \A n \in 1 .. jobs[j].retries + 1 : \E b \in Attempts :
             Retired(b)' /\ attempts'[b].job = j /\ attempts'[b].number = n
      <3> SUFFICES ASSUME NEW n \in 1 .. jobs[j].retries + 1
                   PROVE  \E b \in Attempts : Retired(b)' /\ attempts'[b].job = j
                                               /\ attempts'[b].number = n
        OBVIOUS
      <3>1. CASE n = jobs[j].retries + 1
        BY <2>2, <3>1
      <3>2. CASE n # jobs[j].retries + 1
        <4>1. n \in 1 .. jobs[j].retries
          BY <1>t, <3>2
        <4>2. PICK b \in Attempts : Retired(b) /\ attempts[b].job = j /\ attempts[b].number = n
          BY <1>t, <4>1 DEF RetriesAccounted
        <4> QED BY <2>1, <4>2
      <3> QED BY <3>1, <3>2
    <2>4. \A k \in Jobs \ {j} : jobs'[k].retries = jobs[k].retries
                                /\ jobs'[k].status = jobs[k].status
      BY <1>4 DEF CoreGiveUp, SameOthers, SameJob
    <2>5. /\ jobs'[j].retries \in {jobs[j].retries, jobs[j].retries + 1}
          /\ jobs'[j].status = "dead" => jobs[j].retries = MaxRetries
      BY <1>4 DEF CoreGiveUp
    <2>6. \A n \in 1 .. jobs'[j].retries : n \in 1 .. jobs[j].retries + 1
      BY <1>t, <2>5
    <2> QED BY <1>0, <2>1, <2>3, <2>4, <2>5, <2>6 DEF RetriesAccounted
  <1> QED BY <1>1, <1>2, <1>3, <1>4 DEF Core

LEMMA NextIInv == IInv /\ [Next]_vars => IInv'
  <1> SUFFICES ASSUME IInv, [Next]_vars PROVE IInv'
    OBVIOUS
  <1>1. TInv'
    BY NextTInv DEF IInv
  <1>2. Core
    BY CoreStep DEF IInv
  <1> QED BY <1>1, <1>2, OneRunningStep, OneVisibleStep, CurrentNumberStep, NumberedStep,
             AccountedStep DEF IInv

LEMMA Inductive == Spec => []IInv
  BY InitIInv, NextIInv, PTL DEF Spec

\* Claims, completions, failures and recoveries, interleaved in any way and
\* interrupted anywhere, leave exactly the current attempts running.
THEOREM CurrentAttemptTheorem == Spec => []OneRunningAttempt
  <1>1. IInv => OneRunningAttempt
    BY DEF IInv
  <1> QED BY <1>1, Inductive, PTL

\* What clients see of a job is the output of the one attempt that completed it.
THEOREM VisibleCompletionTheorem == Spec => []OneVisibleCompletion
  <1>1. IInv => OneVisibleCompletion
    BY DEF IInv
  <1> QED BY <1>1, Inductive, PTL

\* Attempt numbers are consecutive and unique, and every retry that is charged,
\* the last one included, is an attempt that failed or expired.
THEOREM RetryAccountingTheorem == Spec => [](AttemptsNumbered /\ RetriesAccounted)
  <1>1. IInv => AttemptsNumbered /\ RetriesAccounted
    BY DEF IInv
  <1> QED BY <1>1, Inductive, PTL

\* The attempts a job was given are as many as it was charged for, and never more than
\* its retries allow.
AttemptsOf(j) == {a \in Attempts : Used(a) /\ attempts[a].job = j}
AttemptsCounted ==
    \A j \in Jobs : /\ IsFiniteSet(AttemptsOf(j))
                    /\ Cardinality(AttemptsOf(j)) = Given(j)
                    /\ Given(j) <= MaxRetries + 1

\* However many workers, reapers, faults and spare ids there are, a job is tried at most
\* MaxRetries + 1 times, and retry_count says how often.
THEOREM AttemptCountTheorem == Spec => []AttemptsCounted
  <1>1. ASSUME IInv, NEW j \in Jobs
        PROVE  /\ IsFiniteSet(AttemptsOf(j))
               /\ Cardinality(AttemptsOf(j)) = Given(j)
               /\ Given(j) <= MaxRetries + 1
    <2> DEFINE A == AttemptsOf(j)
               N == Given(j)
               f == [a \in A |-> attempts[a].number]
    <2>1. N \in Nat /\ N <= MaxRetries + 1
      <3>1. jobs[j].retries \in 0 .. MaxRetries
        BY <1>1, JobTypes DEF IInv
      <3> QED BY <3>1, RetriesAssumption DEF Given
    <2>2. \A a \in A : /\ attempts[a].number \in 1 .. N
                       /\ \A b \in A : attempts[b].number = attempts[a].number => a = b
      BY <1>1 DEF IInv, AttemptsNumbered, AttemptsOf
    <2>3. \A n \in 1 .. N : \E a \in A : attempts[a].number = n
      BY <1>1 DEF IInv, AttemptsNumbered, AttemptsOf
    <2> HIDE DEF A, N
    <2>4. f \in Injection(A, 1 .. N) /\ f \in Surjection(A, 1 .. N)
      BY <2>2, <2>3 DEF Injection, IsInjective, Surjection
    <2>5. IsFiniteSet(1 .. N) /\ Cardinality(1 .. N) = N
      BY <2>1, FS_Interval
    <2>6. IsFiniteSet(A) /\ Cardinality(A) = Cardinality(1 .. N)
      BY <2>4, <2>5, FS_Injection
    <2> QED BY <2>1, <2>5, <2>6 DEF A, N
  <1>2. IInv => AttemptsCounted
    BY <1>1 DEF AttemptsCounted
  <1> QED BY <1>2, Inductive, PTL

-----------------------------------------------------------------------------
(***************************************************************************)
(* Queued jobs stay reachable as long as nothing fails.                    *)
(***************************************************************************)

AtWorker(w, j) == proc[w].job = j /\ proc[w].pc \in {"claim", "retry"}
AtReaper(r, j) == sweep[r].job = j /\ sweep[r].pc \in {"deathEnqueue", "leaseEnqueue"}
Reachable(j) == jobs[j].status = "queued" => j \in queue \/ InHand(j)

\* What a process gives up, it puts into the queue; what leaves the queue, a worker
\* takes.
LEMMA HandedOn ==
    ASSUME NEW j, j \in queue \/ InHand(j),
           j \in queue => j \in queue' \/ \E w \in Workers : AtWorker(w, j)',
           j \in api => j \in queue' \/ j \in api',
           \A w \in Workers : AtWorker(w, j) => j \in queue' \/ AtWorker(w, j)',
           \A r \in Reapers : AtReaper(r, j) => j \in queue' \/ AtReaper(r, j)'
    PROVE  j \in queue' \/ InHand(j)'
  BY DEF InHand, AtWorker, AtReaper

\* A step of worker w that leaves queue and rows alone and gives up no entry.
LEMMA WorkerKeepsHands ==
    ASSUME TInv, NEW j \in Jobs, Reachable(j), jobs'[j].status = "queued",
           jobs[j].status = "queued",
           NEW w \in Workers, NEW p \in WorkerProc, proc' = [proc EXCEPT ![w] = p],
           AtWorker(w, j) => j \in queue' \/ (p.job = j /\ p.pc \in {"claim", "retry"}),
           queue \subseteq queue', UNCHANGED <<api, sweep>>
    PROVE  j \in queue' \/ InHand(j)'
  <1>1. \A v \in Workers : AtWorker(v, j) => j \in queue' \/ AtWorker(v, j)'
    BY DEF AtWorker, TInv, TypeOK
  <1> QED BY <1>1, HandedOn DEF Reachable, AtReaper

LEMMA WorkerReachable ==
    ASSUME IInv, NEW w \in Workers, WorkerNext(w), NoFault,
           NEW j \in Jobs, Reachable(j), jobs'[j].status = "queued"
    PROVE  j \in queue' \/ InHand(j)'
  <1>0. /\ TInv /\ OneRunningAttempt /\ AttemptsNumbered
        /\ proc \in [Workers -> WorkerProc] /\ proc[w] \in WorkerProc /\ ProcHolds(proc[w])
        /\ jobs \in [Jobs -> JobRow]
    BY DEF IInv, TInv, TypeOK, InHandExists
  <1>1. ASSUME NEW k \in Jobs, Poll(w, k) PROVE j \in queue' \/ InHand(j)'
    <2>1. AtWorker(w, k)' /\ ~ AtWorker(w, j)
      BY <1>0, <1>1 DEF Poll, AtWorker, Polling, Off
    <2>2. \A v \in Workers \ {w} : proc'[v] = proc[v]
      BY <1>0, <1>1 DEF Poll
    <2> QED BY <1>1, <2>1, <2>2, HandedOn DEF Poll, AtWorker, AtReaper, Reachable
  <1>2. ASSUME NEW a \in Attempts, MarkProcessing(w, a) PROVE j \in queue' \/ InHand(j)'
    <2>1. PICK k \in Jobs : k = proc[w].job
      BY <1>0, <1>2 DEF MarkProcessing, ProcHolds
    <2>2. jobs'[k].status = "processing" /\ jobs'[j] = jobs[j]
      <3>1. jobs[k].current = None
        BY <1>0, <1>2, <2>1 DEF MarkProcessing, Claim, OneRunningAttempt
      <3>2. jobs' = [jobs EXCEPT ![k] = [@ EXCEPT !.status = "processing", !.current = a,
                                                   !.quiet = FALSE]]
        BY <1>2, <2>1, <3>1 DEF MarkProcessing, Claim
      <3>3. jobs'[k].status = "processing"
        BY <1>0, <3>2 DEF JobRow
      <3> QED BY <1>0, <3>2, <3>3
    <2>3. j # k
      BY <2>2
    <2> DEFINE p == [proc[w] EXCEPT !.pc = "busy", !.attempt = a, !.renewing = TRUE]
    <2>4. p \in WorkerProc /\ proc' = [proc EXCEPT ![w] = p]
      BY <1>0, <1>2 DEF MarkProcessing, WorkerProc
    <2>5. ~ AtWorker(w, j)
      BY <2>1, <2>3 DEF AtWorker
    <2> HIDE DEF p
    <2> QED BY <1>0, <1>2, <2>2, <2>4, <2>5, WorkerKeepsHands DEF MarkProcessing, Claim
  <1>3. CASE ClaimRefused(w)
    <2>1. PICK k \in Jobs : k = proc[w].job
      BY <1>0, <1>3 DEF ClaimRefused, ProcHolds
    <2>2. jobs[k].status = "queued" => NumberFree(k, jobs[k].retries + 1)
      <3> SUFFICES ASSUME jobs[k].status = "queued", NEW a \in Attempts, Used(a),
                          attempts[a].job = k
                   PROVE  attempts[a].number # jobs[k].retries + 1
        BY DEF NumberFree, Used
      <3>1. attempts[a].number \in 1 .. jobs[k].retries /\ jobs[k].retries \in Nat
        BY <1>0 DEF AttemptsNumbered, Given, JobRow
      <3> QED BY <3>1
    <2>3. j # k /\ jobs'[j] = jobs[j]
      BY <1>3, <2>1, <2>2 DEF ClaimRefused
    <2>4. ~ AtWorker(w, j)
      BY <2>1, <2>3 DEF AtWorker
    <2> QED BY <1>0, <1>3, <2>3, <2>4, PollingType, WorkerKeepsHands DEF ClaimRefused
  <1>4. CASE HandleFailure(w)
    <2>1. PICK k \in Jobs, a \in Attempts : k = proc[w].job /\ a = proc[w].attempt
      BY <1>0, <1>4 DEF HandleFailure, ProcHolds
    <2>2. jobs' = [jobs EXCEPT ![k] = RetryOrBury(jobs[k])]
      BY <1>4, <2>1 DEF HandleFailure
    <2>3. PICK p \in WorkerProc : proc' = [proc EXCEPT ![w] = p]
                                  /\ (jobs[k].retries < MaxRetries =>
                                        p.job = k /\ p.pc = "retry")
      <3>1. CASE jobs[k].retries < MaxRetries
        <4>1. proc' = [proc EXCEPT ![w] = [proc[w] EXCEPT !.pc = "retry"]]
          BY <1>0, <1>4, <2>1, <3>1, GotoFacts DEF HandleFailure
        <4>2. /\ [proc[w] EXCEPT !.pc = "retry"] \in WorkerProc
              /\ [proc[w] EXCEPT !.pc = "retry"].job = k
              /\ [proc[w] EXCEPT !.pc = "retry"].pc = "retry"
          BY <1>0, <2>1 DEF WorkerProc
        <4> QED BY <4>1, <4>2
      <3>2. CASE ~ (jobs[k].retries < MaxRetries)
        BY <1>0, <1>4, <2>1, <3>2, ReturnFacts DEF HandleFailure, Return
      <3> QED BY <3>1, <3>2
    <2>4. CASE j = k
      <3>1. jobs[k] \in JobRow /\ jobs'[k] = RetryOrBury(jobs[k])
        BY <1>0, <2>2
      <3>2. jobs[k].retries < MaxRetries
        BY <2>4, <3>1, RetryOrBuryFacts
      <3> QED BY <1>0, <2>3, <2>4, <3>2 DEF InHand
    <2>5. CASE j # k
      <3>1. jobs'[j] = jobs[j] /\ ~ AtWorker(w, j)
        BY <1>0, <1>4, <2>2, <2>5 DEF HandleFailure, AtWorker
      <3> QED BY <1>0, <1>4, <2>3, <3>1, WorkerKeepsHands DEF HandleFailure
    <2> QED BY <2>4, <2>5
  <1>5. CASE EnqueueRetry(w)
    <2>1. AtWorker(w, j) => j \in queue'
      BY <1>5 DEF EnqueueRetry, AtWorker
    <2>2. ProcAtExit(w) \in WorkerProc
      BY <1>0, <1>5, ReturnFacts DEF EnqueueRetry
    <2> QED BY <1>0, <1>5, <2>1, <2>2, WorkerKeepsHands DEF EnqueueRetry, Return
  \* The other steps of a worker have no entry in hand, or keep it.
  <1>6. CASE Register(w) \/ SetWorkerBusy(w) \/ RunJobFails(w) \/ CompleteStale(w)
             \/ FailureIgnored(w) \/ SetWorkerIdle(w)
    <2>1. ~ AtWorker(w, j) /\ UNCHANGED <<jobs, queue, api, sweep>>
      BY <1>6 DEF AtWorker, Register, SetWorkerBusy, RunJobFails, CompleteStale,
                  FailureIgnored, SetWorkerIdle
    <2>2. \E p \in WorkerProc : proc' = [proc EXCEPT ![w] = p]
      <3>1. CASE Register(w) \/ SetWorkerIdle(w)
        BY <3>1, PollingType DEF Register, SetWorkerIdle
      <3>2. CASE SetWorkerBusy(w)
        <4>1. [proc[w] EXCEPT !.pc = "run", !.setIdle = TRUE] \in WorkerProc
          BY <1>0 DEF WorkerProc
        <4> QED BY <3>2, <4>1 DEF SetWorkerBusy
      <3>3. CASE RunJobFails(w)
        BY <1>0, <3>3, GotoFacts DEF RunJobFails
      <3>4. CASE CompleteStale(w) \/ FailureIgnored(w)
        BY <1>0, <3>4, ReturnFacts DEF CompleteStale, FailureIgnored, Return
      <3> QED BY <1>6, <3>1, <3>2, <3>3, <3>4
    <2> QED BY <1>0, <2>1, <2>2, WorkerKeepsHands
  <1>7. CASE CompleteJob(w)
    <2>1. PICK k \in Jobs : k = proc[w].job
      BY <1>0, <1>7 DEF CompleteJob, ProcHolds
    <2>2. jobs'[k].status = "completed" /\ (j # k => jobs'[j] = jobs[j])
      BY <1>0, <1>7, <2>1 DEF CompleteJob, Complete, JobRow
    <2>3. ~ AtWorker(w, j) /\ ProcAtExit(w) \in WorkerProc
      BY <1>0, <1>7, ReturnFacts DEF AtWorker, CompleteJob
    <2> QED BY <1>0, <1>7, <2>2, <2>3, WorkerKeepsHands DEF CompleteJob, Complete, Return
  <1>8. CASE LeaseLost(w)
    <2> DEFINE p == [proc[w] EXCEPT !.renewing = FALSE]
    <2>1. p \in WorkerProc /\ p.job = proc[w].job /\ p.pc = proc[w].pc
      BY <1>0 DEF WorkerProc
    <2>2. proc' = [proc EXCEPT ![w] = p]
      BY <1>8 DEF LeaseLost
    <2>3. UNCHANGED <<jobs, queue, api, sweep>>
      BY <1>8 DEF LeaseLost
    <2>4. AtWorker(w, j) => p.job = j /\ p.pc \in {"claim", "retry"}
      BY <2>1 DEF AtWorker
    <2> HIDE DEF p
    <2> QED BY <1>0, <2>1, <2>2, <2>3, <2>4, WorkerKeepsHands
  <1>9. CASE RenewLease(w) \/ Heartbeat(w)
    BY <1>9 DEF RenewLease, Heartbeat, Reachable, InHand
  <1>10. ~ WorkerFault(w)
    <2>1. ~ Fault
      BY <1>0, FaultsAssumption DEF NoFault, Fault, TInv, TypeOK
    <2> QED BY <2>1 DEF WorkerFault, PollLosesEntry, ClaimFails, ClaimUncertain,
              SetWorkerBusyFails, RenewalFails, CompleteUncertain, HandleFailureFails,
              EnqueueRetryFails, SetWorkerIdleFails, Stop
  <1> QED BY <1>1, <1>2, <1>3, <1>4, <1>5, <1>6, <1>7, <1>8, <1>9, <1>10
          DEF WorkerNext, WorkerStep

\* A step of reaper r that leaves the row of j alone and gives up no entry.
LEMMA SweepKeepsHands ==
    ASSUME TInv, NEW j \in Jobs, Reachable(j), jobs[j].status = "queued",
           NEW r \in Reapers, NEW s, sweep' = [sweep EXCEPT ![r] = s],
           AtReaper(r, j) => j \in queue', queue \subseteq queue', UNCHANGED <<api, proc>>
    PROVE  j \in queue' \/ InHand(j)'
  <1>1. \A q \in Reapers : AtReaper(q, j) => j \in queue' \/ AtReaper(q, j)'
    BY DEF AtReaper, TInv, TypeOK
  <1> QED BY <1>1, HandedOn DEF Reachable, AtWorker

\* requeueJob: the job it requeues stays in the reaper's hands.
LEMMA RequeueReachable ==
    ASSUME TInv, NEW r \in Reapers, NEW k \in Jobs, Requeueable(k), ExpireCurrent(k),
           NEW e \in {"deathEnqueue", "leaseEnqueue"}, NEW d \in {"workers", "attempts"},
           NEW s, sweep' = [sweep EXCEPT ![r] = s],
           s.pc = AfterRequeue(r, k, e, d).pc, s.job = AfterRequeue(r, k, e, d).job,
           sweep[r].pc \notin {"deathEnqueue", "leaseEnqueue"},
           UNCHANGED <<queue, api, proc>>,
           NEW j \in Jobs, Reachable(j), jobs'[j].status = "queued"
    PROVE  j \in queue' \/ InHand(j)'
  <1>0. jobs \in [Jobs -> JobRow] /\ sweep \in [Reapers -> SweepProc] /\ jobs[k] \in JobRow
    BY DEF TInv, TypeOK
  <1>1. jobs'[k] = RetryOrBury(jobs[k]) /\ (j # k => jobs'[j] = jobs[j])
    BY <1>0 DEF ExpireCurrent
  <1>2. CASE j = k
    <2>1. jobs[k].retries < MaxRetries
      BY <1>0, <1>1, <1>2, RetryOrBuryFacts
    <2>2. s.pc = e /\ s.job = k
      BY <1>0, <2>1 DEF AfterRequeue, SweepProc
    <2> QED BY <1>0, <1>2, <2>2 DEF InHand
  <1>3. CASE j # k
    BY <1>1, <1>3, SweepKeepsHands DEF AtReaper
  <1> QED BY <1>2, <1>3

LEMMA SweepReachable ==
    ASSUME IInv, NEW r \in Reapers, SweepStep(r),
           NEW j \in Jobs, Reachable(j), jobs'[j].status = "queued"
    PROVE  j \in queue' \/ InHand(j)'
  <1>0. /\ TInv /\ sweep \in [Reapers -> SweepProc] /\ sweep[r] \in SweepProc
        /\ SweepHolds(sweep[r])
    BY DEF IInv, TInv, TypeOK, InHandExists
  <1>1. CASE RequeueDeadWorkersJob(r)
    <2>1. PICK k \in Jobs : k = sweep[r].job
      BY <1>0, <1>1 DEF RequeueDeadWorkersJob, SweepHolds
    <2> DEFINE s == AfterRequeue(r, k, "deathEnqueue", "workers")
    <2>2. sweep' = [sweep EXCEPT ![r] = s] /\ Requeueable(k) /\ ExpireCurrent(k)
            /\ sweep[r].pc = "death" /\ UNCHANGED <<queue, api, proc>>
      BY <1>1, <2>1 DEF RequeueDeadWorkersJob
    <2> QED BY <1>0, <2>2, RequeueReachable
  <1>2. CASE RequeueLapsed(r)
    <2>1. PICK a \in sweep[r].expired :
            /\ Requeueable(attempts[a].job) /\ ExpireCurrent(attempts[a].job)
            /\ sweep' = [sweep EXCEPT ![r] =
                 [AfterRequeue(r, attempts[a].job, "leaseEnqueue", "attempts")
                    EXCEPT !.expired = @ \ {a}]]
      BY <1>2 DEF RequeueLapsed
    <2>2. PICK k \in Jobs : k = attempts[a].job
      BY <1>0 DEF SweepHolds, TInv, InHandExists, SweepProc
    <2> DEFINE t == AfterRequeue(r, k, "leaseEnqueue", "attempts")
               s == [t EXCEPT !.expired = @ \ {a}]
    <2>3. t \in SweepProc
      BY <1>0, AfterRequeueFacts
    <2>4. s.pc = t.pc /\ s.job = t.job
      BY <2>3 DEF SweepProc
    <2>5. sweep' = [sweep EXCEPT ![r] = s] /\ sweep[r].pc = "attempts"
            /\ UNCHANGED <<queue, api, proc>>
      BY <1>2, <2>1, <2>2 DEF RequeueLapsed
    <2>6. Requeueable(k) /\ ExpireCurrent(k)
      BY <2>1, <2>2
    <2>7. /\ s.pc = AfterRequeue(r, k, "leaseEnqueue", "attempts").pc
          /\ s.job = AfterRequeue(r, k, "leaseEnqueue", "attempts").job
      BY <2>4
    <2> HIDE DEF s, t
    <2> QED BY <1>0, <2>5, <2>6, <2>7, RequeueReachable
  <1>3. CASE EnqueueRequeued(r)
    <2>1. AtReaper(r, j) => j \in queue'
      BY <1>3 DEF EnqueueRequeued, AtReaper
    <2> QED BY <1>0, <1>3, <2>1, SweepKeepsHands DEF EnqueueRequeued
  \* The other steps of a sweep have no entry in hand.
  <1>4. CASE StartSweep(r) \/ MarkWorkerDead(r) \/ DeadWorkersJobSettled(r)
             \/ SelectLapsedLeases(r) \/ LapsedSettled(r) \/ SelectQuietJobs(r)
             \/ CheckMembership(r) \/ RestoreEntry(r)
    <2>1. ~ AtReaper(r, j) /\ UNCHANGED <<jobs, api, proc>> /\ queue \subseteq queue'
      BY <1>4 DEF AtReaper, StartSweep, MarkWorkerDead, DeadWorkersJobSettled,
         SelectLapsedLeases, LapsedSettled, SelectQuietJobs, CheckMembership, RestoreEntry
    <2>2. \E s : sweep' = [sweep EXCEPT ![r] = s]
      <3>1. CASE StartSweep(r)
        BY <3>1 DEF StartSweep
      <3>2. CASE MarkWorkerDead(r)
        BY <3>2 DEF MarkWorkerDead
      <3>3. CASE DeadWorkersJobSettled(r)
        BY <3>3 DEF DeadWorkersJobSettled
      <3>4. CASE SelectLapsedLeases(r)
        BY <3>4 DEF SelectLapsedLeases
      <3>5. CASE LapsedSettled(r)
        BY <3>5 DEF LapsedSettled
      <3>6. CASE SelectQuietJobs(r)
        BY <3>6 DEF SelectQuietJobs
      <3>7. CASE CheckMembership(r)
        BY <3>7 DEF CheckMembership
      <3>8. CASE RestoreEntry(r)
        BY <3>8 DEF RestoreEntry
      <3> QED BY <1>4, <3>1, <3>2, <3>3, <3>4, <3>5, <3>6, <3>7, <3>8
    <2> QED BY <1>0, <2>1, <2>2, SweepKeepsHands
  <1> QED BY <1>1, <1>2, <1>3, <1>4 DEF SweepStep

\* Without a fault no interleaving of workers and reapers strands a queued job.
THEOREM ReachableTheorem == Spec => []QueuedIsReachable
  <1>1. Init => QueuedIsReachable
    BY DEF Init, QueuedIsReachable
  <1>2. IInv /\ QueuedIsReachable /\ [Next]_vars => QueuedIsReachable'
    <2> SUFFICES ASSUME IInv, QueuedIsReachable, [Next]_vars, faults' = 0,
                        NEW j \in Jobs, jobs'[j].status = "queued"
                 PROVE  j \in queue' \/ InHand(j)'
      BY DEF QueuedIsReachable
    <2>0. faults \in Nat /\ TInv /\ jobs \in [Jobs -> JobRow]
      BY FaultsAssumption DEF IInv, TInv, TypeOK
    <2>1. ~ Fault
      BY <2>0 DEF Fault
    <2>2. CASE UNCHANGED vars
      BY <2>2 DEF vars, QueuedIsReachable, InHand
    <2>3. CASE Next
      <3>1. NoFault => faults = 0 /\ Reachable(j)
        BY DEF NoFault, QueuedIsReachable, Reachable
      <3>2. ASSUME NEW k \in Jobs, ApiNext(k) PROVE j \in queue' \/ InHand(j)'
        <4>1. CASE CreateQueuedJob(k)
          <5>1. j # k => jobs'[j] = jobs[j]
            BY <2>0, <4>1 DEF CreateQueuedJob
          <5> QED BY <3>1, <4>1, <5>1 DEF CreateQueuedJob, Reachable, InHand
        <4>2. CASE EnqueueNewJob(k)
          BY <3>1, <4>2 DEF EnqueueNewJob, Reachable, InHand
        <4> QED BY <2>1, <3>2, <4>1, <4>2 DEF ApiNext, EnqueueNewJobFails
      <3>3. ASSUME NEW w \in Workers, WorkerNext(w) PROVE j \in queue' \/ InHand(j)'
        <4>1. NoFault
          BY <2>1, <3>3 DEF WorkerNext, WorkerStep, WorkerFault, Register, Poll,
             MarkProcessing, ClaimRefused, SetWorkerBusy, RunJobFails, CompleteJob,
             CompleteStale, HandleFailure, FailureIgnored, EnqueueRetry, SetWorkerIdle,
             PollLosesEntry, ClaimFails, ClaimUncertain, SetWorkerBusyFails, RenewalFails,
             CompleteUncertain, HandleFailureFails, EnqueueRetryFails, SetWorkerIdleFails,
             Stop, RenewLease, LeaseLost, Heartbeat
        <4> QED BY <3>1, <3>3, <4>1, WorkerReachable
      <3>4. ASSUME NEW r \in Reapers, SweepStep(r) PROVE j \in queue' \/ InHand(j)'
        <4>1. NoFault
          BY <3>4 DEF SweepStep, StartSweep, MarkWorkerDead, RequeueDeadWorkersJob,
             DeadWorkersJobSettled, SelectLapsedLeases, RequeueLapsed, LapsedSettled,
             EnqueueRequeued, SelectQuietJobs, CheckMembership, RestoreEntry
        <4> QED BY <3>1, <3>4, <4>1, SweepReachable
      <3>5. CASE Environment
        <4>1. NoFault /\ jobs'[j].status = jobs[j].status /\ UNCHANGED <<queue, api, proc, sweep>>
          BY <2>0, <2>1, <3>5 DEF Environment, LeaseLapses, HeartbeatLapses, JobGoesQuiet,
             RedisLoses, JobRow
        <4> QED BY <3>1, <4>1 DEF Reachable, InHand
      <3> QED BY <2>1, <2>3, <3>2, <3>3, <3>4, <3>5 DEF Next, AbortSweep
    <2> QED BY <2>2, <2>3
  <1> QED BY <1>1, <1>2, Inductive, PTL DEF Spec

-----------------------------------------------------------------------------
(***************************************************************************)
(* Action properties and the refinement, from the same five core steps.    *)
(***************************************************************************)

LEMMA StepIsCore == IInv /\ [Next]_vars => Core
  BY CoreStep DEF IInv

\* A completed or dead job keeps its status, its retries and its outputs for ever.
THEOREM TerminalTheorem == Spec => TerminalIsFinal
  <1>1. ASSUME IInv, Core PROVE \A j \in Jobs : KeepsTerminal(j)
    <2>0. outputs \in [Jobs -> Attempts \cup {None}]
      BY <1>1, JobTypes DEF IInv
    <2>1. CASE CoreStill
      BY <2>1 DEF CoreStill, SameJob, KeepsTerminal
    <2>2. ASSUME NEW j \in Jobs, CoreCreate(j) PROVE \A k \in Jobs : KeepsTerminal(k)
      BY <2>2 DEF CoreCreate, SameOthers, SameJob, KeepsTerminal
    <2>3. ASSUME NEW j \in Jobs, NEW a \in Attempts, CoreClaim(j, a) \/ CoreGiveUp(j, a)
          PROVE  \A k \in Jobs : KeepsTerminal(k)
      BY <2>3 DEF CoreClaim, CoreGiveUp, SameOthers, SameJob, KeepsTerminal
    <2>4. ASSUME NEW j \in Jobs, NEW a \in Attempts, CoreComplete(j, a)
          PROVE  \A k \in Jobs : KeepsTerminal(k)
      BY <2>0, <2>4 DEF CoreComplete, SameOthers, SameJob, KeepsTerminal
    <2> QED BY <1>1, <2>1, <2>2, <2>3, <2>4 DEF Core
  <1>2. IInv /\ [Next]_vars => [\A j \in Jobs : KeepsTerminal(j)]_vars
    BY <1>1, StepIsCore
  <1> QED BY <1>2, Inductive, PTL DEF Spec, TerminalIsFinal

\* However many processes recover a job, one retry is charged per verdict.
THEOREM RetryTheorem == Spec => RetryRetiresAttempt
  <1>1. ASSUME IInv, Core PROVE \A j \in Jobs : ChargesForVerdict(j)
    <2>0. /\ \A k \in Jobs : jobs[k].retries \in 0 .. MaxRetries
          /\ OneRunningAttempt
      BY <1>1, JobTypes DEF IInv
    <2>1. CASE CoreStill
      BY <2>1 DEF CoreStill, SameJob, ChargesForVerdict, GivesUp
    <2>2. ASSUME NEW j \in Jobs, CoreCreate(j) PROVE \A k \in Jobs : ChargesForVerdict(k)
      BY <2>2 DEF CoreCreate, SameOthers, SameJob, ChargesForVerdict, GivesUp
    <2>3. ASSUME NEW j \in Jobs, NEW a \in Attempts, CoreClaim(j, a) \/ CoreComplete(j, a)
          PROVE  \A k \in Jobs : ChargesForVerdict(k)
      BY <2>3 DEF CoreClaim, CoreComplete, SameOthers, SameJob, ChargesForVerdict, GivesUp
    <2>4. ASSUME NEW j \in Jobs, NEW a \in Attempts, CoreGiveUp(j, a)
          PROVE  \A k \in Jobs : ChargesForVerdict(k)
      BY <2>0, <2>4 DEF CoreGiveUp, SameOthers, SameJob, ChargesForVerdict, GivesUp
    <2> QED BY <1>1, <2>1, <2>2, <2>3, <2>4 DEF Core
  <1>2. IInv /\ [Next]_vars => [\A j \in Jobs : ChargesForVerdict(j)]_vars
    BY <1>1, StepIsCore
  <1> QED BY <1>2, Inductive, PTL DEF Spec, RetryRetiresAttempt

\* The attempts that have a verdict, as the contract counts them.
SpentSet == {a \in Attempts : attempts[a].status \in {"completed", "failed", "expired"}}

\* Refinement: the initial state is the contract's, and each core step is a step
\* of the contract or leaves its variables alone.
THEOREM ContractTheorem == Spec => ImplementsContract
  <1>1. Init => Contract!CInit
    BY DEF Init, Contract!CInit
  <1>2. ASSUME IInv, Core PROVE [Contract!CNext]_(Contract!cvars)
    <2>0. /\ OneRunningAttempt /\ TInv /\ outputs \in [Jobs -> Attempts \cup {None}]
          /\ \A k \in Jobs : jobs[k].retries \in 0 .. MaxRetries
      BY <1>2, JobTypes DEF IInv
    <2>1. CASE CoreStill
      <3>1. /\ [j \in Jobs |-> jobs'[j].status] = [j \in Jobs |-> jobs[j].status]
            /\ [j \in Jobs |-> jobs'[j].retries] = [j \in Jobs |-> jobs[j].retries]
            /\ [j \in Jobs |-> jobs'[j].current] = [j \in Jobs |-> jobs[j].current]
            /\ outputs' = outputs
            /\ SpentSet' = SpentSet
        BY <2>1 DEF CoreStill, SameJob, SameAttempt, SpentSet
      <3> QED BY <3>1 DEF Contract!cvars, SpentSet
    <2>2. ASSUME NEW j \in Jobs, CoreCreate(j) PROVE Contract!CNext
      <3>1. SpentSet' = SpentSet
        BY <2>2, NoneAssumption DEF CoreCreate, SameOthers, SameAttempt, SpentSet
      <3>2. Contract!Accept(j)
        BY <2>2, <3>1 DEF CoreCreate, SameOthers, SameJob, Contract!Accept, SpentSet
      <3> QED BY <3>2 DEF Contract!CNext
    <2>3. ASSUME NEW j \in Jobs, NEW a \in Attempts, CoreClaim(j, a) PROVE Contract!CNext
      <3>1. SpentSet' = SpentSet /\ a \notin SpentSet
        BY <2>3 DEF CoreClaim, SameOthers, SameAttempt, SpentSet
      <3>2. \A k \in Jobs : jobs[k].current # a
        BY <2>0, <2>3, NoneAssumption DEF CoreClaim, OneRunningAttempt
      <3>3. /\ [k \in Jobs |-> jobs'[k].status]
                 = [[k \in Jobs |-> jobs[k].status] EXCEPT ![j] = "processing"]
            /\ [k \in Jobs |-> jobs'[k].current]
                 = [[k \in Jobs |-> jobs[k].current] EXCEPT ![j] = a]
            /\ [k \in Jobs |-> jobs'[k].retries] = [k \in Jobs |-> jobs[k].retries]
        BY <2>3 DEF CoreClaim, SameOthers, SameJob
      <3>4. Contract!Begin(j, a)
        BY <2>3, <3>1, <3>2, <3>3 DEF CoreClaim, Contract!Begin, SpentSet
      <3> QED BY <3>4 DEF Contract!CNext
    <2>4. ASSUME NEW j \in Jobs, NEW a \in Attempts, CoreComplete(j, a) PROVE Contract!CNext
      <3>1. SpentSet' = SpentSet \cup {a}
        BY <2>4 DEF CoreComplete, SameOthers, SameAttempt, SpentSet
      <3>2. /\ [k \in Jobs |-> jobs'[k].status]
                 = [[k \in Jobs |-> jobs[k].status] EXCEPT ![j] = "completed"]
            /\ [k \in Jobs |-> jobs'[k].current]
                 = [[k \in Jobs |-> jobs[k].current] EXCEPT ![j] = None]
            /\ [k \in Jobs |-> jobs'[k].retries] = [k \in Jobs |-> jobs[k].retries]
        BY <2>4 DEF CoreComplete, SameOthers, SameJob
      <3>3. /\ jobs[j].status = "processing" /\ jobs[j].current = a /\ a # None
            /\ outputs' = [outputs EXCEPT ![j] = a]
        BY <2>4, NoneAssumption DEF CoreComplete
      <3>4. Contract!Release(j)
        BY <3>1, <3>2, <3>3 DEF Contract!Release, SpentSet
      <3>5. Contract!Finish(j)
        BY <3>2, <3>3, <3>4 DEF Contract!Finish
      <3> QED BY <3>5 DEF Contract!CNext
    <2>5. ASSUME NEW j \in Jobs, NEW a \in Attempts, CoreGiveUp(j, a) PROVE Contract!CNext
      <3>1. SpentSet' = SpentSet \cup {a}
        BY <2>5 DEF CoreGiveUp, SameOthers, SameAttempt, SpentSet
      <3>2. Contract!Release(j)
        <4>1. [k \in Jobs |-> jobs'[k].current]
                = [[k \in Jobs |-> jobs[k].current] EXCEPT ![j] = None]
          BY <2>5 DEF CoreGiveUp, SameOthers, SameJob
        <4>2. jobs[j].status = "processing" /\ jobs[j].current = a /\ a # None
          BY <2>5, NoneAssumption DEF CoreGiveUp
        <4> QED BY <3>1, <4>1, <4>2 DEF Contract!Release, SpentSet
      <3>3. CASE jobs[j].retries = MaxRetries
        <4>1. jobs'[j].status = "dead" /\ jobs'[j].retries = jobs[j].retries
          BY <2>0, <2>5, <3>3, RetriesAssumption DEF CoreGiveUp
        <4>2. /\ [k \in Jobs |-> jobs'[k].status]
                   = [[k \in Jobs |-> jobs[k].status] EXCEPT ![j] = "dead"]
              /\ [k \in Jobs |-> jobs'[k].retries] = [k \in Jobs |-> jobs[k].retries]
          BY <2>5, <4>1 DEF CoreGiveUp, SameOthers, SameJob
        <4>3. Contract!Bury(j)
          BY <2>5, <3>2, <3>3, <4>2 DEF CoreGiveUp, Contract!Bury
        <4> QED BY <4>3 DEF Contract!CNext
      <3>4. CASE jobs[j].retries < MaxRetries
        <4>1. jobs'[j].status = "queued" /\ jobs'[j].retries = jobs[j].retries + 1
          BY <2>0, <2>5, <3>4, RetriesAssumption DEF CoreGiveUp
        <4>2. /\ [k \in Jobs |-> jobs'[k].status]
                   = [[k \in Jobs |-> jobs[k].status] EXCEPT ![j] = "queued"]
              /\ [k \in Jobs |-> jobs'[k].retries]
                   = [[k \in Jobs |-> jobs[k].retries] EXCEPT ![j] = jobs[j].retries + 1]
          BY <2>5, <4>1 DEF CoreGiveUp, SameOthers, SameJob
        <4>3. Contract!GiveBack(j)
          BY <2>5, <3>2, <3>4, <4>2 DEF CoreGiveUp, Contract!GiveBack
        <4> QED BY <4>3 DEF Contract!CNext
      <3> QED BY <2>5, <3>3, <3>4 DEF CoreGiveUp
    <2> QED BY <1>2, <2>1, <2>2, <2>3, <2>4, <2>5 DEF Core
  <1>3. IInv /\ [Next]_vars => [Contract!CNext]_(Contract!cvars)
    BY <1>2, StepIsCore
  <1> QED BY <1>1, <1>3, Inductive, PTL DEF Spec, ImplementsContract, Contract!CSpec
=============================================================================
