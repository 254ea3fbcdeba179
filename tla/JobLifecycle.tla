---------------------------- MODULE JobLifecycle ----------------------------
(***************************************************************************)
(* The life of a transcoding job: the rows of jobs, job_attempts, workers  *)
(* and job_outputs in PostgreSQL, the Redis queue, and the three kinds of  *)
(* process that act on them: the API (createQueuedJob), the workers (poll, *)
(* processJob, the lease and heartbeat goroutines) and the reapers (the    *)
(* three passes of Sweep).                                                 *)
(*                                                                         *)
(* A PostgreSQL transaction and a Redis script are one step each; a        *)
(* handler is split wherever it makes such a call, so that any other       *)
(* process may act, or the handler's own process may stop, in between.     *)
(* The rows of a transaction that ends early because of the state it reads *)
(* (not queued, not current) are a step of their own, "refused" or "stale".*)
(*                                                                         *)
(* Time is abstracted to what the code compares it with: a lease past its  *)
(* expiry, a heartbeat older than the dead-worker threshold, a queued row  *)
(* older than the stale-queue threshold.  Each becomes true at any moment  *)
(* (a slow process, a pause, an outage) and is reset by the write that     *)
(* refreshes it.                                                           *)
(*                                                                         *)
(* The reaper's leadership lock is left to ReaperLeadership: two sweeps    *)
(* can overlap when the lock lapses, so here they always may.              *)
(***************************************************************************)
EXTENDS Naturals

CONSTANTS
    Jobs,           \* ids of the uploads the API accepts
    Workers,        \* ids of worker processes; a restarted process has a new one
    Reapers,        \* reaper processes
    Attempts,       \* ids of attempts: uuid.NewString draws an unused one
    None,           \* SQL NULL
    MaxRetries,     \* jobs.max_retries
    MaxFaults       \* bound on failed calls, crashes and Redis losses

ASSUME RetriesAssumption == MaxRetries \in Nat
ASSUME FaultsAssumption  == MaxFaults \in Nat
ASSUME NoneAssumption    == None \notin Jobs \cup Workers \cup Attempts

VARIABLES
    jobs,       \* table jobs; status "none" is a row not inserted yet
    attempts,   \* table job_attempts; status "none" is an unused id
    outputs,    \* table job_outputs: the attempt whose four rows are visible
    workers,    \* table workers; status "none" is a row not inserted yet
    queue,      \* members of the Redis queue (refined by PriorityQueue)
    api,        \* jobs committed by createQueuedJob and not yet enqueued by it
    proc,       \* each worker process: program counter and locals
    sweep,      \* each reaper process: program counter and locals
    faults      \* how many faults have happened

vars == <<jobs, attempts, outputs, workers, queue, api, proc, sweep, faults>>

-----------------------------------------------------------------------------
(***************************************************************************)
(* The types of the rows and of the processes.                             *)
(***************************************************************************)

\* jobs: quiet says that the row is queued and updated_at is older than
\* STALE_QUEUE_THRESHOLD.
JobRow == [status : {"none", "queued", "processing", "completed", "dead"},
           retries : 0 .. MaxRetries,
           current : Attempts \cup {None},
           completedBy : Attempts \cup {None},
           quiet : BOOLEAN]

\* job_attempts: lapsed says that the attempt is running and lease_expires_at is
\* past by more than LEASE_EXPIRY_GRACE.
AttemptRow == [status : {"none", "running", "completed", "failed", "expired"},
               job : Jobs \cup {None},
               number : 0 .. MaxRetries + 1,
               worker : Workers \cup {None},
               lapsed : BOOLEAN]

\* workers: lost says that the row is busy and last_heartbeat is older than
\* DEAD_WORKER_THRESHOLD.
WorkerRow == [status : {"none", "idle", "busy", "dead"},
              job : Jobs \cup {None},
              lost : BOOLEAN]

\* A worker process.  pc names the next call of poll or processJob; renewing,
\* that renewLeaseUntilDone has not returned; setIdle, that the deferred
\* setWorkerIdle is registered.
WorkerProc == [pc : {"off", "poll", "claim", "busy", "run", "fail", "retry", "idle"},
               job : Jobs \cup {None},
               attempt : Attempts \cup {None},
               renewing : BOOLEAN,
               setIdle : BOOLEAN]

\* A reaper process.  dead, expired and missing are what the three queries of a
\* sweep returned and is not yet handled; worker and job, the ones in hand.
SweepProc == [pc : {"rest", "workers", "death", "deathEnqueue", "attempts",
                    "leaseEnqueue", "jobs", "restore"},
              dead : SUBSET (Workers \X (Jobs \cup {None})),
              expired : SUBSET Attempts,
              missing : SUBSET Jobs,
              worker : Workers \cup {None},
              job : Jobs \cup {None}]

Off == [pc |-> "off", job |-> None, attempt |-> None,
        renewing |-> FALSE, setIdle |-> FALSE]

Polling == [Off EXCEPT !.pc = "poll"]

Resting == [pc |-> "rest", dead |-> {}, expired |-> {}, missing |-> {},
            worker |-> None, job |-> None]

Init ==
    /\ jobs = [j \in Jobs |-> [status |-> "none", retries |-> 0, current |-> None,
                               completedBy |-> None, quiet |-> FALSE]]
    /\ attempts = [a \in Attempts |-> [status |-> "none", job |-> None, number |-> 0,
                                       worker |-> None, lapsed |-> FALSE]]
    /\ outputs = [j \in Jobs |-> None]
    /\ workers = [w \in Workers |-> [status |-> "none", job |-> None, lost |-> FALSE]]
    /\ queue = {}
    /\ api = {}
    /\ proc = [w \in Workers |-> Off]
    /\ sweep = [r \in Reapers |-> Resting]
    /\ faults = 0

\* A call that fails, a process that stops, data that Redis loses.
Fault == faults < MaxFaults /\ faults' = faults + 1
NoFault == UNCHANGED faults

-----------------------------------------------------------------------------
(***************************************************************************)
(* API: createQueuedJob commits the row, then enqueues it; a failed        *)
(* Enqueue is only logged.                                                 *)
(***************************************************************************)

CreateQueuedJob(j) ==
    /\ jobs[j].status = "none"
    /\ jobs' = [jobs EXCEPT ![j].status = "queued"]
    /\ api' = api \cup {j}
    /\ NoFault
    /\ UNCHANGED <<attempts, outputs, workers, queue, proc, sweep>>

EnqueueNewJob(j) ==
    /\ j \in api
    /\ queue' = queue \cup {j}
    /\ api' = api \ {j}
    /\ NoFault
    /\ UNCHANGED <<jobs, attempts, outputs, workers, proc, sweep>>

\* Redis refuses, or the API process stops between commit and Enqueue.
EnqueueNewJobFails(j) ==
    /\ j \in api
    /\ api' = api \ {j}
    /\ Fault
    /\ UNCHANGED <<jobs, attempts, outputs, workers, queue, proc, sweep>>

-----------------------------------------------------------------------------
(***************************************************************************)
(* Worker: New, poll and processJob.                                       *)
(***************************************************************************)

Goto(w, pc) == proc' = [proc EXCEPT ![w].pc = pc]

\* Where processJob goes when it returns: through the deferred setWorkerIdle
\* when setWorkerBusy succeeded, straight back to polling when it did not.
ProcAtExit(w) ==
    IF proc[w].setIdle THEN [proc[w] EXCEPT !.pc = "idle"] ELSE Polling

Return(w) == proc' = [proc EXCEPT ![w] = ProcAtExit(w)]

\* Mutants of IsCurrent: the fence checks only the status, or nothing.
ProcessingOnly(j, a) == jobs[j].status = "processing"
NoFence(j, a) == TRUE

\* The fence of every write an attempt makes to its job.
IsCurrent(j, a) == jobs[j].status = "processing" /\ jobs[j].current = a

\* New: a process starts under a new uuid and registers.
Register(w) ==
    /\ proc[w].pc = "off"
    /\ workers[w].status = "none"
    /\ workers' = [workers EXCEPT ![w] = [status |-> "idle", job |-> None, lost |-> FALSE]]
    /\ proc' = [proc EXCEPT ![w] = Polling]
    /\ NoFault
    /\ UNCHANGED <<jobs, attempts, outputs, queue, api, sweep>>

\* poll: Pop, then fetchJob, which reads only columns that never change.
Poll(w, j) ==
    /\ proc[w].pc = "poll"
    /\ j \in queue
    /\ queue' = queue \ {j}
    /\ proc' = [proc EXCEPT ![w] = [Polling EXCEPT !.pc = "claim", !.job = j]]
    /\ NoFault
    /\ UNCHANGED <<jobs, attempts, outputs, workers, api, sweep>>

\* Pop removed the entry, but its reply or fetchJob failed: Run backs off and
\* polls again, and the entry is gone.
PollLosesEntry(w, j) ==
    /\ proc[w].pc = "poll"
    /\ j \in queue
    /\ queue' = queue \ {j}
    /\ Fault
    /\ UNCHANGED <<jobs, attempts, outputs, workers, api, proc, sweep>>

\* UNIQUE (job_id, attempt_number): the INSERT of the claim must not collide.
NumberFree(j, n) ==
    \A a \in Attempts : ~ (attempts[a].status # "none" /\ attempts[a].job = j
                             /\ attempts[a].number = n)

\* The transaction of markProcessing: INSERT the attempt, then UPDATE the job
\* where it is queued and has no current attempt (RowsAffected is not checked).
Claim(w, j, a) ==
    /\ jobs[j].status = "queued"
    /\ NumberFree(j, jobs[j].retries + 1)
    /\ attempts[a].status = "none"
    /\ attempts' = [attempts EXCEPT ![a] =
                      [status |-> "running", job |-> j, number |-> jobs[j].retries + 1,
                       worker |-> w, lapsed |-> FALSE]]
    /\ jobs' = IF jobs[j].current = None
               THEN [jobs EXCEPT ![j] = [@ EXCEPT !.status = "processing", !.current = a,
                                                  !.quiet = FALSE]]
               ELSE jobs
    /\ UNCHANGED <<outputs, workers, queue, api, sweep>>

MarkProcessing(w, a) ==
    /\ proc[w].pc = "claim"
    /\ Claim(w, proc[w].job, a)
    /\ proc' = [proc EXCEPT ![w] = [@ EXCEPT !.pc = "busy", !.attempt = a, !.renewing = TRUE]]
    /\ NoFault

\* The job is not queued any more (a stale or duplicate entry), or the INSERT
\* violates the unique constraint.
ClaimRefused(w) ==
    /\ proc[w].pc = "claim"
    /\ \/ jobs[proc[w].job].status # "queued"
       \/ ~ NumberFree(proc[w].job, jobs[proc[w].job].retries + 1)
    /\ proc' = [proc EXCEPT ![w] = Polling]
    /\ NoFault
    /\ UNCHANGED <<jobs, attempts, outputs, workers, queue, api, sweep>>

\* markProcessing returns an error and nothing was committed.
ClaimFails(w) ==
    /\ proc[w].pc = "claim"
    /\ proc' = [proc EXCEPT ![w] = Polling]
    /\ Fault
    /\ UNCHANGED <<jobs, attempts, outputs, workers, queue, api, sweep>>

\* markProcessing returns the error of Commit although the commit took effect:
\* the job is processing under an attempt that no process works on.
ClaimUncertain(w, a) ==
    /\ proc[w].pc = "claim"
    /\ Claim(w, proc[w].job, a)
    /\ proc' = [proc EXCEPT ![w] = Polling]
    /\ Fault

BusyRow(w) == [status |-> "busy", job |-> proc[w].job, lost |-> FALSE]

SetWorkerBusy(w) ==
    /\ proc[w].pc = "busy"
    /\ workers' = [workers EXCEPT ![w] = BusyRow(w)]
    /\ proc' = [proc EXCEPT ![w] = [@ EXCEPT !.pc = "run", !.setIdle = TRUE]]
    /\ NoFault
    /\ UNCHANGED <<jobs, attempts, outputs, queue, api, sweep>>

\* An error from setWorkerBusy, with or without effect, goes to handleFailure
\* before the deferred setWorkerIdle is registered.
SetWorkerBusyFails(w) ==
    /\ proc[w].pc = "busy"
    /\ \E row \in {workers[w], BusyRow(w)} : workers' = [workers EXCEPT ![w] = row]
    /\ Goto(w, "fail")
    /\ Fault
    /\ UNCHANGED <<jobs, attempts, outputs, queue, api, sweep>>

\* renewLeaseUntilDone, one tick: the lease is extended while the attempt is
\* running and current ...
Renewable(a) ==
    /\ attempts[a].status = "running"
    /\ IsCurrent(attempts[a].job, a)

RenewLease(w) ==
    /\ proc[w].renewing
    /\ Renewable(proc[w].attempt)
    /\ attempts[proc[w].attempt].lapsed
    /\ attempts' = [attempts EXCEPT ![proc[w].attempt].lapsed = FALSE]
    /\ NoFault
    /\ UNCHANGED <<jobs, outputs, workers, queue, api, proc, sweep>>

\* ... and otherwise the goroutine cancels jobCtx and returns.
LeaseLost(w) ==
    /\ proc[w].renewing
    /\ ~ Renewable(proc[w].attempt)
    /\ proc' = [proc EXCEPT ![w].renewing = FALSE]
    /\ NoFault
    /\ UNCHANGED <<jobs, attempts, outputs, workers, queue, api, sweep>>

\* A failed renewal cancels jobCtx too, though the attempt may still be current.
RenewalFails(w) ==
    /\ proc[w].renewing
    /\ proc' = [proc EXCEPT ![w].renewing = FALSE]
    /\ Fault
    /\ UNCHANGED <<jobs, attempts, outputs, workers, queue, api, sweep>>

\* runJob returns an error other than errStaleAttempt: the download, FFmpeg, the
\* upload, a statement of completeJob, or the cancellation of jobCtx.
RunJobFails(w) ==
    /\ proc[w].pc = "run"
    /\ Goto(w, "fail")
    /\ NoFault
    /\ UNCHANGED <<jobs, attempts, outputs, workers, queue, api, sweep>>

\* UPDATE job_attempts SET status = ... WHERE id = $1 AND status = 'running'.
Verdict(row, status) ==
    IF row.status = "running" THEN [row EXCEPT !.status = status, !.lapsed = FALSE] ELSE row

\* The transaction of completeJob: the job, its four outputs and the attempt.
Complete(j, a) ==
    /\ IsCurrent(j, a)
    /\ jobs' = [jobs EXCEPT ![j] = [@ EXCEPT !.status = "completed", !.completedBy = a,
                                             !.current = None, !.quiet = FALSE]]
    /\ outputs' = [outputs EXCEPT ![j] = a]
    /\ attempts' = [attempts EXCEPT ![a] = Verdict(@, "completed")]
    /\ UNCHANGED <<workers, queue, api, sweep>>

\* completeJob succeeds only while jobCtx is not cancelled.
CompleteJob(w) ==
    /\ proc[w].pc = "run"
    /\ proc[w].renewing
    /\ Complete(proc[w].job, proc[w].attempt)
    /\ Return(w)
    /\ NoFault

\* RowsAffected # 1: errStaleAttempt, and processJob returns without a failure.
CompleteStale(w) ==
    /\ proc[w].pc = "run"
    /\ proc[w].renewing
    /\ ~ IsCurrent(proc[w].job, proc[w].attempt)
    /\ Return(w)
    /\ NoFault
    /\ UNCHANGED <<jobs, attempts, outputs, workers, queue, api, sweep>>

\* completeJob returns the error of a Commit that took effect: the worker goes on
\* to handleFailure for a job that is completed.
CompleteUncertain(w) ==
    /\ proc[w].pc = "run"
    /\ Complete(proc[w].job, proc[w].attempt)
    /\ Goto(w, "fail")
    /\ Fault

\* Mutants of RetriesUsed: one retry too many, one too few.
BuryLate(row) == row.retries > MaxRetries
BuryEarly(row) == row.retries + 1 >= MaxRetries

RetriesUsed(row) == row.retries >= MaxRetries

\* Mutants of Requeued: a retry that is not counted, a current attempt left in place.
RetryUncounted(row) == [row EXCEPT !.status = "queued", !.current = None, !.quiet = FALSE]
RetryKeepsCurrent(row) == [row EXCEPT !.status = "queued", !.quiet = FALSE, !.retries = @ + 1]

Requeued(row) ==
    [row EXCEPT !.status = "queued", !.current = None, !.quiet = FALSE, !.retries = @ + 1]

\* The row of a job whose current attempt is given up: back to the queue with one
\* retry more, or dead when the retries are used up.
RetryOrBury(row) ==
    IF RetriesUsed(row)
    THEN [row EXCEPT !.status = "dead", !.current = None, !.quiet = FALSE]
    ELSE Requeued(row)

\* handleFailure's transaction.  Afterwards the job is enqueued again (pc "retry")
\* unless it is dead.  A Commit that takes effect and still returns an error skips
\* the Enqueue: the same as EnqueueRetryFails.
HandleFailure(w) ==
    LET j == proc[w].job
        a == proc[w].attempt
    IN  /\ proc[w].pc = "fail"
        /\ IsCurrent(j, a)
        /\ attempts' = [attempts EXCEPT ![a] = Verdict(@, "failed")]
        /\ jobs' = [jobs EXCEPT ![j] = RetryOrBury(@)]
        /\ IF jobs[j].retries < MaxRetries THEN Goto(w, "retry") ELSE Return(w)
        /\ NoFault
        /\ UNCHANGED <<outputs, workers, queue, api, sweep>>

\* SELECT ... AND current_attempt_id = $2 finds no row: someone else recovered it.
FailureIgnored(w) ==
    /\ proc[w].pc = "fail"
    /\ ~ IsCurrent(proc[w].job, proc[w].attempt)
    /\ Return(w)
    /\ NoFault
    /\ UNCHANGED <<jobs, attempts, outputs, workers, queue, api, sweep>>

\* handleFailure gives up (its context is cancelled at the drain timeout, or a
\* statement fails): the job stays processing until its lease lapses.
HandleFailureFails(w) ==
    /\ proc[w].pc = "fail"
    /\ Return(w)
    /\ Fault
    /\ UNCHANGED <<jobs, attempts, outputs, workers, queue, api, sweep>>

EnqueueRetry(w) ==
    /\ proc[w].pc = "retry"
    /\ queue' = queue \cup {proc[w].job}
    /\ Return(w)
    /\ NoFault
    /\ UNCHANGED <<jobs, attempts, outputs, workers, api, sweep>>

EnqueueRetryFails(w) ==
    /\ proc[w].pc = "retry"
    /\ Return(w)
    /\ Fault
    /\ UNCHANGED <<jobs, attempts, outputs, workers, queue, api, sweep>>

\* The deferred setWorkerIdle, then the deferred cancel of the lease goroutine.
SetWorkerIdle(w) ==
    /\ proc[w].pc = "idle"
    /\ workers' = [workers EXCEPT ![w] = [status |-> "idle", job |-> None, lost |-> FALSE]]
    /\ proc' = [proc EXCEPT ![w] = Polling]
    /\ NoFault
    /\ UNCHANGED <<jobs, attempts, outputs, queue, api, sweep>>

\* Only logged: the row goes on naming a job this worker no longer processes.
SetWorkerIdleFails(w) ==
    /\ proc[w].pc = "idle"
    /\ proc' = [proc EXCEPT ![w] = Polling]
    /\ Fault
    /\ UNCHANGED <<jobs, attempts, outputs, workers, queue, api, sweep>>

\* runHeartbeat: refreshes last_heartbeat and nothing else (without effect on the
\* model unless it is old).
Heartbeat(w) ==
    /\ proc[w].pc # "off"
    /\ workers[w].lost
    /\ workers' = [workers EXCEPT ![w].lost = FALSE]
    /\ NoFault
    /\ UNCHANGED <<jobs, attempts, outputs, queue, api, proc, sweep>>

\* The process is killed, or leaves Run after SIGTERM; its row stays as it is.
Stop(w) ==
    /\ proc[w].pc # "off"
    /\ proc' = [proc EXCEPT ![w] = Off]
    /\ Fault
    /\ UNCHANGED <<jobs, attempts, outputs, workers, queue, api, sweep>>

-----------------------------------------------------------------------------
(***************************************************************************)
(* Reaper: the three passes of Sweep.                                      *)
(***************************************************************************)

\* recoverDeadWorkers: the SELECT.
StartSweep(r) ==
    /\ sweep[r].pc = "rest"
    /\ sweep' = [sweep EXCEPT ![r] =
         [Resting EXCEPT !.pc = "workers",
                         !.dead = {<<w, workers[w].job>> : w \in
                             {x \in Workers : workers[x].status = "busy" /\ workers[x].lost}}]]
    /\ NoFault
    /\ UNCHANGED <<jobs, attempts, outputs, workers, queue, api, proc>>

\* recoverDeadWorkers: the UPDATE of one worker, which is not re-checked.
MarkWorkerDead(r) ==
    /\ sweep[r].pc = "workers"
    /\ \E d \in sweep[r].dead :
         /\ workers' = [workers EXCEPT ![d[1]] = [status |-> "dead", job |-> None, lost |-> FALSE]]
         /\ sweep' = [sweep EXCEPT ![r] =
              IF d[2] = None
              THEN [sweep[r] EXCEPT !.dead = @ \ {d}]
              ELSE [sweep[r] EXCEPT !.dead = @ \ {d}, !.pc = "death",
                                    !.worker = d[1], !.job = d[2]]]
    /\ NoFault
    /\ UNCHANGED <<jobs, attempts, outputs, queue, api, proc>>

\* Mutant of ExpireCurrent: the job is requeued, its attempt left running.
ExpireJobOnly(j) ==
    /\ UNCHANGED attempts
    /\ jobs' = [jobs EXCEPT ![j] = RetryOrBury(@)]

\* The transaction of requeueJob for a job that has a current attempt.
ExpireCurrent(j) ==
    /\ attempts' = [attempts EXCEPT ![jobs[j].current] = Verdict(@, "expired")]
    /\ jobs' = [jobs EXCEPT ![j] = RetryOrBury(@)]

Requeueable(j) == jobs[j].status = "processing" /\ jobs[j].current # None

\* Mutant of AfterRequeue: the requeued job is never enqueued.
AfterRequeueNoEnqueue(r, j, enqueuePc, donePc) ==
    [sweep[r] EXCEPT !.pc = donePc, !.job = None, !.worker = None]

\* The reaper's locals after requeueJob: Enqueue is next unless the job is dead.
AfterRequeue(r, j, enqueuePc, donePc) ==
    IF jobs[j].retries < MaxRetries
    THEN [sweep[r] EXCEPT !.pc = enqueuePc, !.job = j]
    ELSE [sweep[r] EXCEPT !.pc = donePc, !.job = None, !.worker = None]

\* requeueJob(job, "", "worker_death"): whatever attempt is current is expired.
RequeueDeadWorkersJob(r) ==
    LET j == sweep[r].job
    IN  /\ sweep[r].pc = "death"
        /\ Requeueable(j)
        /\ ExpireCurrent(j)
        /\ sweep' = [sweep EXCEPT ![r] = AfterRequeue(r, j, "deathEnqueue", "workers")]
        /\ NoFault
        /\ UNCHANGED <<outputs, workers, queue, api, proc>>

DeadWorkersJobSettled(r) ==
    /\ sweep[r].pc = "death"
    /\ ~ Requeueable(sweep[r].job)
    /\ sweep' = [sweep EXCEPT ![r] = [@ EXCEPT !.pc = "workers", !.job = None, !.worker = None]]
    /\ NoFault
    /\ UNCHANGED <<jobs, attempts, outputs, workers, queue, api, proc>>

\* Mutant of Lapsed: only leases of workers already declared dead.
LapsedOfDead(a) ==
    attempts[a].status = "running" /\ attempts[a].lapsed
      /\ workers[attempts[a].worker].status = "dead"

Lapsed(a) == attempts[a].status = "running" /\ attempts[a].lapsed

\* recoverOrphanedJobs: the SELECT, once every dead worker is handled.
SelectLapsedLeases(r) ==
    /\ sweep[r].pc = "workers"
    /\ sweep[r].dead = {}
    /\ sweep' = [sweep EXCEPT ![r] =
         [@ EXCEPT !.pc = "attempts", !.expired = {a \in Attempts : Lapsed(a)}]]
    /\ NoFault
    /\ UNCHANGED <<jobs, attempts, outputs, workers, queue, api, proc>>

\* requeueJob(job, attempt, "lease_expired"), fenced on the attempt, though the
\* lease itself is not read again.
RequeueLapsed(r) ==
    /\ sweep[r].pc = "attempts"
    /\ \E a \in sweep[r].expired :
         LET j == attempts[a].job
         IN  /\ Requeueable(j)
             /\ jobs[j].current = a
             /\ ExpireCurrent(j)
             /\ sweep' = [sweep EXCEPT ![r] =
                  [AfterRequeue(r, j, "leaseEnqueue", "attempts") EXCEPT !.expired = @ \ {a}]]
    /\ NoFault
    /\ UNCHANGED <<outputs, workers, queue, api, proc>>

LapsedSettled(r) ==
    /\ sweep[r].pc = "attempts"
    /\ \E a \in sweep[r].expired :
         LET j == attempts[a].job
         IN  /\ ~ Requeueable(j) \/ jobs[j].current # a
             /\ sweep' = [sweep EXCEPT ![r].expired = @ \ {a}]
    /\ NoFault
    /\ UNCHANGED <<jobs, attempts, outputs, workers, queue, api, proc>>

\* The Enqueue at the end of requeueJob, in either of the first two passes.
EnqueueRequeued(r) ==
    /\ sweep[r].pc \in {"deathEnqueue", "leaseEnqueue"}
    /\ queue' = queue \cup {sweep[r].job}
    /\ sweep' = [sweep EXCEPT ![r] =
         [sweep[r] EXCEPT
            !.pc = IF sweep[r].pc = "deathEnqueue" THEN "workers" ELSE "attempts",
            !.job = None, !.worker = None]]
    /\ NoFault
    /\ UNCHANGED <<jobs, attempts, outputs, workers, api, proc>>

\* The locals of a reaper with these jobs still to look up; none ends the sweep.
LookUp(missing) ==
    IF missing = {} THEN Resting ELSE [Resting EXCEPT !.pc = "jobs", !.missing = missing]

\* recoverMissingQueueMessages: the SELECT.
SelectQuietJobs(r) ==
    /\ sweep[r].pc = "attempts"
    /\ sweep[r].expired = {}
    /\ sweep' = [sweep EXCEPT ![r] =
         LookUp({j \in Jobs : jobs[j].status = "queued" /\ jobs[j].quiet})]
    /\ NoFault
    /\ UNCHANGED <<jobs, attempts, outputs, workers, queue, api, proc>>

\* Mutant of QueueContainsJob: the test is inverted.
QueueLacksJob(j) == j \notin queue

QueueContainsJob(j) == j \in queue

\* One job of the list: present jobs are skipped, absent ones restored.
CheckMembership(r) ==
    /\ sweep[r].pc = "jobs"
    /\ \E j \in sweep[r].missing :
         sweep' = [sweep EXCEPT ![r] =
             IF QueueContainsJob(j)
             THEN LookUp(sweep[r].missing \ {j})
             ELSE [sweep[r] EXCEPT !.missing = @ \ {j}, !.pc = "restore", !.job = j]]
    /\ NoFault
    /\ UNCHANGED <<jobs, attempts, outputs, workers, queue, api, proc>>

\* enqueueJob: enqueues whatever the job's status is by now.
RestoreEntry(r) ==
    /\ sweep[r].pc = "restore"
    /\ queue' = queue \cup {sweep[r].job}
    /\ sweep' = [sweep EXCEPT ![r] = LookUp(@.missing)]
    /\ NoFault
    /\ UNCHANGED <<jobs, attempts, outputs, workers, api, proc>>

\* Any error ends the whole sweep; so does the end of the reaper's process.
AbortSweep(r) ==
    /\ sweep[r].pc # "rest"
    /\ sweep' = [sweep EXCEPT ![r] = Resting]
    /\ Fault
    /\ UNCHANGED <<jobs, attempts, outputs, workers, queue, api, proc>>

-----------------------------------------------------------------------------
(***************************************************************************)
(* Time and Redis.                                                         *)
(***************************************************************************)

LeaseLapses(a) ==
    /\ attempts[a].status = "running"
    /\ ~ attempts[a].lapsed
    /\ attempts' = [attempts EXCEPT ![a].lapsed = TRUE]
    /\ NoFault
    /\ UNCHANGED <<jobs, outputs, workers, queue, api, proc, sweep>>

\* Only the heartbeat of a busy row is ever compared with the threshold.
HeartbeatLapses(w) ==
    /\ workers[w].status = "busy"
    /\ ~ workers[w].lost
    /\ workers' = [workers EXCEPT ![w].lost = TRUE]
    /\ NoFault
    /\ UNCHANGED <<jobs, attempts, outputs, queue, api, proc, sweep>>

JobGoesQuiet(j) ==
    /\ jobs[j].status = "queued"
    /\ ~ jobs[j].quiet
    /\ jobs' = [jobs EXCEPT ![j].quiet = TRUE]
    /\ NoFault
    /\ UNCHANGED <<attempts, outputs, workers, queue, api, proc, sweep>>

\* Redis restarts without its data.
RedisLoses ==
    /\ queue # {}
    /\ queue' = {}
    /\ Fault
    /\ UNCHANGED <<jobs, attempts, outputs, workers, api, proc, sweep>>

-----------------------------------------------------------------------------
ApiNext(j) ==
    CreateQueuedJob(j) \/ EnqueueNewJob(j) \/ EnqueueNewJobFails(j)

\* What a worker does next in poll and processJob when nothing goes wrong with
\* its calls.
WorkerStep(w) ==
    \/ Register(w)
    \/ \E j \in Jobs : Poll(w, j)
    \/ \E a \in Attempts : MarkProcessing(w, a)
    \/ ClaimRefused(w)
    \/ SetWorkerBusy(w)
    \/ RunJobFails(w) \/ CompleteJob(w) \/ CompleteStale(w)
    \/ HandleFailure(w) \/ FailureIgnored(w) \/ EnqueueRetry(w)
    \/ SetWorkerIdle(w)

WorkerFault(w) ==
    \/ \E j \in Jobs : PollLosesEntry(w, j)
    \/ ClaimFails(w)
    \/ \E a \in Attempts : ClaimUncertain(w, a)
    \/ SetWorkerBusyFails(w) \/ RenewalFails(w) \/ CompleteUncertain(w)
    \/ HandleFailureFails(w) \/ EnqueueRetryFails(w) \/ SetWorkerIdleFails(w)
    \/ Stop(w)

WorkerNext(w) ==
    WorkerStep(w) \/ WorkerFault(w) \/ RenewLease(w) \/ LeaseLost(w) \/ Heartbeat(w)

SweepStep(r) ==
    \/ StartSweep(r)
    \/ MarkWorkerDead(r) \/ RequeueDeadWorkersJob(r) \/ DeadWorkersJobSettled(r)
    \/ SelectLapsedLeases(r) \/ RequeueLapsed(r) \/ LapsedSettled(r)
    \/ EnqueueRequeued(r)
    \/ SelectQuietJobs(r) \/ CheckMembership(r) \/ RestoreEntry(r)

Environment ==
    \/ \E a \in Attempts : LeaseLapses(a)
    \/ \E w \in Workers : HeartbeatLapses(w)
    \/ \E j \in Jobs : JobGoesQuiet(j)
    \/ RedisLoses

Next ==
    \/ \E j \in Jobs : ApiNext(j)
    \/ \E w \in Workers : WorkerNext(w)
    \/ \E r \in Reapers : SweepStep(r) \/ AbortSweep(r)
    \/ Environment

Spec == Init /\ [][Next]_vars

\* No live goroutine renews the lease of a.
Unrenewed(a) == \A w \in Workers : ~ (proc[w].attempt = a /\ proc[w].renewing)

(***************************************************************************)
(* Fairness: a worker's loop and a reaper's sweep go on as long as their   *)
(* processes run (Run never blocks: every call has an outcome), processes  *)
(* are started, and time passes: a lease that nobody renews lapses and a   *)
(* queued row gets old.  Nothing is assumed of the API's Enqueue, of       *)
(* renewals or of heartbeats.                                              *)
(***************************************************************************)
Fairness ==
    /\ \A w \in Workers : WF_vars(WorkerStep(w))
    /\ \A r \in Reapers : WF_vars(SweepStep(r))
    /\ \A a \in Attempts : WF_vars(Unrenewed(a) /\ LeaseLapses(a))
    /\ \A j \in Jobs : WF_vars(JobGoesQuiet(j))

FairSpec == Spec /\ Fairness

-----------------------------------------------------------------------------
(***************************************************************************)
(* Properties.                                                             *)
(***************************************************************************)

\* Every table, the queue and every process state has its type.
TypeOK ==
    /\ jobs \in [Jobs -> JobRow]
    /\ attempts \in [Attempts -> AttemptRow]
    /\ outputs \in [Jobs -> Attempts \cup {None}]
    /\ workers \in [Workers -> WorkerRow]
    /\ queue \in SUBSET Jobs
    /\ api \in SUBSET Jobs
    /\ proc \in [Workers -> WorkerProc]
    /\ sweep \in [Reapers -> SweepProc]
    /\ faults \in 0 .. MaxFaults

Used(a) == attempts[a].status # "none"
Retired(a) == attempts[a].status \in {"failed", "expired"}

\* A job is processing exactly while it has a current attempt, that attempt is a
\* running one of this job, and no other attempt of any job is left running:
\* claims, completions, failures and the two recoveries of the reaper never leave
\* a running attempt behind, nor two for one job.
OneRunningAttempt ==
    /\ \A j \in Jobs :
         /\ jobs[j].status = "processing" <=> jobs[j].current # None
         /\ jobs[j].current # None => attempts[jobs[j].current].status = "running"
                                        /\ attempts[jobs[j].current].job = j
    /\ \A a \in Attempts : attempts[a].status = "running" =>
         attempts[a].job \in Jobs /\ jobs[attempts[a].job].current = a

\* The outputs a client sees are those of the attempt recorded as the completing
\* one; only a completed job has any, and an attempt is completed only if its job
\* was completed by it (completeJob commits the three tables together, fenced).
OneVisibleCompletion ==
    /\ \A j \in Jobs :
         /\ outputs[j] = jobs[j].completedBy
         /\ jobs[j].status = "completed" <=> outputs[j] # None
         /\ outputs[j] # None => attempts[outputs[j]].status = "completed"
                                   /\ attempts[outputs[j]].job = j
    /\ \A a \in Attempts : attempts[a].status = "completed" =>
         attempts[a].job \in Jobs /\ outputs[attempts[a].job] = a

\* How many attempts a job has been given so far.
Given(j) == jobs[j].retries + (IF jobs[j].status \in {"none", "queued"} THEN 0 ELSE 1)

\* The attempts of a job are numbered 1, 2, ... without gap or repetition, up to
\* the retries used: retry_count + 1 of a queued job is always a fresh number, so
\* the unique constraint never refuses a claim.
AttemptsNumbered ==
    \A j \in Jobs :
        /\ \A a \in Attempts : Used(a) /\ attempts[a].job = j =>
             /\ attempts[a].number \in 1 .. Given(j)
             /\ \A b \in Attempts : Used(b) /\ attempts[b].job = j
                                      /\ attempts[b].number = attempts[a].number => a = b
        /\ \A n \in 1 .. Given(j) : \E a \in Attempts :
             Used(a) /\ attempts[a].job = j /\ attempts[a].number = n

\* Every retry a job has used is one attempt that failed or expired, and a job is
\* dead only after MaxRetries + 1 of them: no recovery charges a retry twice for
\* one attempt, or buries a job that has a retry left.
RetriesAccounted ==
    \A j \in Jobs :
        /\ \A n \in 1 .. jobs[j].retries : \E a \in Attempts :
             Retired(a) /\ attempts[a].job = j /\ attempts[a].number = n
        /\ jobs[j].status = "dead" =>
             \A n \in 1 .. MaxRetries + 1 : \E a \in Attempts :
                 Retired(a) /\ attempts[a].job = j /\ attempts[a].number = n

\* Some process has taken j out of the queue, or is about to put it in.
InHand(j) ==
    \/ j \in api
    \/ \E w \in Workers : proc[w].job = j /\ proc[w].pc \in {"claim", "retry"}
    \/ \E r \in Reapers : sweep[r].job = j /\ sweep[r].pc \in {"deathEnqueue", "leaseEnqueue"}

\* As long as no call fails and nothing crashes, a queued job is in the queue or
\* in the hands of a process that claims or enqueues it next: leases that lapse,
\* late enqueues and stale entries alone never strand a job, so the pass over
\* missing entries is needed for faults only.
QueuedIsReachable ==
    faults = 0 =>
        \A j \in Jobs : jobs[j].status = "queued" => j \in queue \/ InHand(j)

KeepsTerminal(j) ==
    jobs[j].status \in {"completed", "dead"} =>
        /\ jobs'[j].status = jobs[j].status
        /\ jobs'[j].retries = jobs[j].retries
        /\ jobs'[j].completedBy = jobs[j].completedBy
        /\ outputs'[j] = outputs[j]

\* A completed or dead job never changes again: no late worker, failed commit or
\* stale sweep completes it twice, revives it or replaces its outputs.
TerminalIsFinal == [][\A j \in Jobs : KeepsTerminal(j)]_vars

\* The attempt that held j in this step's first state is given up in it.
GivesUp(j) == jobs[j].status = "processing" /\ jobs'[j].status \in {"queued", "dead"}

ChargesForVerdict(j) ==
    /\ GivesUp(j) => /\ attempts[jobs[j].current].status = "running"
                     /\ attempts'[jobs[j].current].status \in {"failed", "expired"}
    /\ jobs'[j].retries # jobs[j].retries =>
          GivesUp(j) /\ jobs'[j].retries = jobs[j].retries + 1

\* A job is taken from an attempt, and a retry charged for it, only together with
\* the verdict on that attempt, one at a time, however many workers and reapers
\* try to recover the job.
RetryRetiresAttempt == [][\A j \in Jobs : ChargesForVerdict(j)]_vars

Contract == INSTANCE JobContract WITH
    status  <- [j \in Jobs |-> jobs[j].status],
    retries <- [j \in Jobs |-> jobs[j].retries],
    holder  <- [j \in Jobs |-> jobs[j].current],
    visible <- outputs,
    spent   <- {a \in Attempts : attempts[a].status \in {"completed", "failed", "expired"}}

\* The processes, the tables and the queue together implement the contract.
ImplementsContract == Contract!CSpec

\* Every accepted job is completed or buried, whatever happens to its queue
\* entries, its workers and the sweeps (finitely many faults).
EveryJobSettles ==
    \A j \in Jobs : jobs[j].status = "queued" ~> jobs[j].status \in {"completed", "dead"}

\* A queued job whose entry is lost gets it back, or is claimed.
LostEntryRestored ==
    \A j \in Jobs : jobs[j].status = "queued" /\ j \notin queue
                      ~> jobs[j].status # "queued" \/ j \in queue

\* Declaring dead a worker that really stopped costs a job a retry only through the
\* attempt of that worker ("marking a worker dead does not independently consume
\* another retry if its current attempt has already been recovered").
DeathSparesOtherAttempts ==
    [][\A r \in Reapers :
          RequeueDeadWorkersJob(r) /\ proc[sweep[r].worker].pc = "off" =>
              attempts[jobs[sweep[r].job].current].worker = sweep[r].worker]_vars
=============================================================================
