# TransCodeX: a TLA+ verification project

This directory holds TLA+ specifications of TransCodeX (the Go services under `src/`), the
TLC configurations that check them on small instances, and TLAPS proofs of the main
properties for every instance. `PROJECT.json` lists components, runs, mutants, the map from
definitions to source lines, findings, hazards and theorems.

## 1. The system

| Component | State it keeps | Operations | Interacts with |
|---|---|---|---|
| API (`api/internal/server`) | none of its own | `upload` → `storeUpload`, `createQueuedJob`; `getJob`, `getJobOutputs`, `collectStats` | object storage, PostgreSQL, Redis queue |
| PostgreSQL (`migrations/`) | `jobs`, `job_attempts`, `job_outputs`, `workers` | the transactions of all services | the source of truth |
| Queue (`pkg/queue`) | three kinds of Redis key: priorities in use, one list per priority, set of queued ids | `Enqueue`, `Pop`, membership test | a hint where work is; may be lost or stale |
| Worker (`worker/internal/worker`) | worker id, current job and attempt, lease goroutine, work directory | `poll`, `processJob` (claim, run, complete, fail), lease renewal, heartbeat; `main`: start, signal, drain, close | PostgreSQL, queue, storage, FFmpeg |
| Reaper (`reaper/internal/reaper`) | snapshot of a sweep; the leadership lock in Redis | `sweepWithLeadership`, three passes of `Sweep` | PostgreSQL, queue |
| Benchmark client (`cmd/benchmark`) | ids it submitted | `submit`, `waitForJob` | the API |

The API commits a job row and then enqueues its id. A worker pops an id and claims the job
in a transaction, which creates an *attempt* and makes it the job's current one. Every later
write of the worker is fenced on that attempt. A goroutine renews the attempt's lease; if
the attempt is no longer current, it cancels the run. Reapers return the jobs of silent
workers and of expired leases to the queue, and put back queue entries that were lost.

What is hard here:

* PostgreSQL and Redis (and storage) share no transaction: every handler can stop between
  them, and a commit can take effect and still report an error.
* Two workers may work on one job: a lease lapses under a worker that is only slow.
* Sweeps act on snapshots; two reapers can sweep at once after the lock lapsed.
* Queue entries are duplicated, stale or missing.
* One attempt is many goroutines with three contexts; FFmpeg has no timeout.
* A worker that is told to stop has a loop, a heartbeat, a lease goroutine and a job in
  hand, two contexts and a timer, and must neither drop the job nor hang.
* A client chooses the order of the parts of an upload, and the storage client the size of
  the chunks it reads.
* An answer of the API is put together from several statements while jobs go on.

The correctness properties per component are in section 3; the hazards in `PROJECT.json`
name the source line where each one bites and the properties that cover it.

## 2. The modules

| Module | Models |
|---|---|
| `JobContract` | abstract: what the system promises about each job |
| `JobLifecycle` | tables, queue as a set, API, workers, reapers, time and faults; implements `JobContract` |
| `PriorityLine` | abstract: one line ordered by priority, then arrival |
| `PriorityQueue` | the Lua scripts of `pkg/queue`; implements `PriorityLine` |
| `JobDispatch` | composes `JobLifecycle` and `PriorityQueue`: every caller of the queue, with the scripts |
| `ReaperLeadership` | the lock: acquire, refresh, release, expiry |
| `AttemptRun` | one `processJob`: goroutines, contexts, deferred calls |
| `WorkerProcess` | a worker process from `main` to exit; composes `AttemptRun` with `Run`, the heartbeat and the shutdown |
| `Upload` | one multipart form through `upload`, `sizeLimitedReader` and `createQueuedJob` |
| `JobReads` | `getJob`, `getJobOutputs`, `collectStats` and the benchmark's `waitForJob`, over the store of `JobContract` |
| `ApiSession` | composes `Upload` and `JobReads`: a client from its upload to its last read |
| `*Proofs` | theorems about the module of that name; those about `AttemptRun` are in `WorkerProcessProofs` |
| `MC*` | TLC instances: symmetry, constraints, values of constants |

**JobLifecycle.** A variable per table (`jobs`, `attempts`, `outputs`, `workers`), the queue's
members, `api` (jobs committed but not yet enqueued), and for each worker and reaper its
program counter and locals. A transaction or a Redis script is one step; a handler is
split at each such call. So `processJob` is `MarkProcessing`, `SetWorkerBusy`, then `CompleteJob`
or `RunJobFails`, `HandleFailure`, `EnqueueRetry`, `SetWorkerIdle`, with one action for each way
the call can fail: no effect, or effect with an error (`ClaimUncertain`, `CompleteUncertain`).
A sweep is `StartSweep` (the SELECT over workers, kept as a snapshot), one pair of steps for
each dead worker, `SelectLapsedLeases`, a step for each lapsed attempt, `SelectQuietJobs`, and
a membership test and an `Enqueue` for each job. Time is reduced to the comparisons the code
makes: `lapsed` (lease past expiry and grace), `lost` (heartbeat older than the threshold),
`quiet` (queued row older than the threshold). They may become true at any time, since a
process may be arbitrarily slow, and are reset by the writes that refresh them. A restarted worker is a
new worker id, as in `New`. Leadership is not assumed: sweeps may always overlap.

**ReaperLeadership.** Discrete ticks; the refresh period is a third of the time to live.
`missed[r]` counts refreshes in a row that did not keep r's lock.

**AttemptRun.** `pc` is the main goroutine, `task` the goroutines of the errgroup that is
running, `cancelled` the contexts, `files` what is in the work directory. The directory is
named after the job, so `files` starts as any set (a killed attempt, or a `RemoveAll` that failed,
left them); `made` tells apart what this attempt's FFmpeg produced. It refines, informally, what
`JobLifecycle` shows between `busy` and `idle`; a reaper's recovery appears as `ReaperTakes`.

**WorkerProcess.** Extends `AttemptRun` with `main` (the steps of `New`, then `serve`, `drain`,
`await`, `close`), `run` (the loop of `Run`: `top`, `pop`, `fetch`, `claim`, `job`, `sleep`, `leave`,
`join`), the heartbeat goroutine and the open connections. `stopping` is `stopPollingCtx`;
`processCtx` is `"process"` in `cancelled`. `AttemptStep` is taken while `run = "job"`, and
`GraceOver` is `AttemptRun`'s `DrainTimeout`, so a behaviour of the process, seen through
`avars`, is a behaviour of `AttemptRun` (proved, section 5). `clean` records that no call failed of
itself. The queue offers one entry. `Run` returns only after the signal, so the first
`<-done` of `main` is never taken, and the metrics listener touches nothing else; both are left out.

**Upload.** `UNext` reads any parts in any order. A file part is a number of bytes, which
`ReadChunk` hands on in chunks of any size; the probe at the limit decides between `Stored` and
`TooLarge`. `faulty` records that a call to storage, PostgreSQL or Redis failed, to separate
what clients cause from what outages cause.

**JobReads.** The store is `JobContract`, which `JobLifecycle` implements, plus `recorded`, the
attempts whose durations are written (`recordAttemptDuration` has no guard, so stale attempts
write too). Each SQL statement is one step: `FetchRow` and `FetchTimings` for `getJob`,
`FetchJob` and `FetchOutputs` for `getJobOutputs`, one `QueryDone` or `QueryFails` for each
goroutine of `collectStats`. `seen` is the last answer about each job, `event` the last
statistics sent, `verdict` what `waitForJob` concluded. One client has one request under way at a time;
several clients do not affect one another, since reads change nothing.

**ApiSession.** `UploadStep` takes a step of `Upload`; if it writes the row, the same step is
`Accept` in the store.

**PriorityQueue.** `Enqueue` includes `ValidatePriority`. `popped` is the last reply, so that
the refinement constrains what callers are given, not only what is stored. The mapping to
`PriorityLine` is by places: a slot `<<priority, index>>` of the lists has as its place one
more than the number of slots served before it, and `ServiceOrder` lists the entries by place.

**JobDispatch.** The queue of `JobLifecycle` is the set `members` of `PriorityQueue`
(`INSTANCE JobLifecycle WITH queue <- members`). Each call of `Enqueue` that adds an entry
(`createQueuedJob`, `handleFailure`, `requeueJob`, `enqueueJob`) is a step of both
(`PutInQueue`), and so is each `Pop` (`TakeFromQueue`, which includes a reply or a `fetchJob`
that fails) and the loss of the data. An `Enqueue` of a job that is queued already changes
no key and is a step of `Elsewhere`, with all other steps. `Priority` is the column
`jobs.priority`, which no statement updates; every caller reads it from there
(`QueuePriority`).

## 3. The runs

| Run | Question | Instance |
|---|---|---|
| `lifecycle` | Do the tables stay consistent, is a finished job final, can two sweeps, or a sweep and a worker, charge one attempt twice or strand a job, and is the contract implemented? | 1 job, 2 workers, 2 reapers, 1 retry, any 1 fault |
| `settles_faults` | Does every accepted job end, and does a lost entry come back, after any 2 faults? | 1 job, 3 workers, 1 reaper, no retry |
| `settles_retries` | Does a failing or lapsing attempt lead to a retry and then to an end, also when the requeue is cut short after its commit? | 1 job, 2 workers, 1 reaper, 1 retry, 1 fault, in the middle of a requeue |
| `priority_queue` | Do the keys agree, and is service by priority, then arrival? | 3 jobs, 3 priorities, requests one beyond each bound |
| `dispatch` | With every caller, do workers take jobs by priority, then waiting time, and does only a higher priority overtake? | 3 jobs in 2 tiers, 1 worker, 1 reaper, 1 attempt id, 1 retry, any 1 fault |
| `leadership` | Is a sweeping reaper's lock its own, and does sweeping go on? | 3 reapers, period 2, 2 faults |
| `worker_process` | Does nothing outlive its owner, is completion whole, does a draining worker stay alive, settle its job and exit, does a stale or failing attempt end? | 3 outputs, both modes, any left-over files, one queue entry |
| `api_session` | Is what is accepted durable and found, is the size limit exact, what does a refusal leave behind, and are answers whole and never going back? | every form of up to 4 parts, files up to one byte beyond a limit of 2, 1 job, 2 attempts, 1 retry, 2 of the queries |
| `worker_death`, `one_active_sweep`, `stale_artifacts`, `upload_durable` | findings, section 6 | smallest that show them |

Why the bounds are enough. No statement of the code relates two jobs, except the queue's
order, which has its own modules with three of them; so one job carries the interleavings.
Two workers and two attempt ids give a late attempt beside a new one, and one
retry reaches both branches of the retry limit, and numbers 1 and 2. `ThreeActors` lets the
sweeps of the two reapers overlap while one of the two workers has not registered; the second
worker may still claim the job between two steps of the slower sweep, whose snapshot is then stale. For safety
after more faults, or with more processes at once, there are the theorems. The two faults
of `settles_faults` allow a commit with an unknown outcome followed by a crash, or a crash and the loss of the queue.
Two dead workers of that run leave a third. In `settles_retries` the action constraint `FaultsInRequeue`
admits only the faults that `settles_faults`, without a retry, cannot show: the Enqueue after a committed requeue, of
a worker or a reaper, fails or never runs. Faults carry no fairness, so leaving the others out leaves
the fairness conditions as they are. Three priorities
give a tier between two others, three jobs two entries in one tier beside
another. In `dispatch` one attempt id is enough: whichever job fails or lapses first is
put back by its worker or the reaper while the two others wait in its tier and in the other; a queued
row that grew old, or the one fault, restores others. `OneOldRow` bounds the queued rows
that are old enough for the reaper to one at a time, which still lets a second be restored after
the first. Two faults miss two refreshes, the number that matters; three reapers leave one
after two crashes. `one_active_sweep` has the action constraint `RedisKeepsData`, so that its counterexample is an
expiry and not a loss of the key. Three outputs give a failing, a finished and a running task at once. Four
parts give each pair of parts before and after the file. A limit of two bytes gives chunks
that end before, at and beyond it. One job with two attempts has every change of its row
between any two statements of a read; two queries give one that is done beside one that
fails or is still out, and the "jobs" query is the only one whose number is told apart. The proofs of section 5 do
not have these bounds.

`MaxFaults` bounds failed calls, crashes and losses; a liveness property can only hold when
faults end. Lapsing leases, late heartbeats and failing transcodes are no faults:
they are unbounded. `MaxParts` bounds the parts of a form, `Limit` the bytes of a file (sizes go to `Limit + 1`).

Symmetry is used in the safety runs only (in `dispatch`, of the jobs of one priority). The liveness runs use `IdsInOrder` instead: worker and
attempt ids are used in increasing order. Ids are opaque to the code (fresh UUIDs), so every behaviour has a
renaming that satisfies it, and the constraint cuts no behaviour short.

Deadlock is checked everywhere; the modules of one run, one process or one form end in an explicit
stutter (`Returned`, `Exited`, `Answered`).

### Fairness

* `FairSpec` (JobLifecycle): worker loops and sweeps go on (every call they make returns in
  the end; faults are finitely many, so an error that ends a sweep does not recur for ever, and the loops of `Run` have no exit but shutdown, which is a fault);
  a lease that no live goroutine renews lapses; a queued row grows old. Nothing is
  assumed of the API's `Enqueue`, of renewals or of heartbeats. It includes that `runJob` returns: FFmpeg has
  no timeout, so a transcode that hangs in a live worker is outside these
  liveness results (a hazard with that note).
* `LFairSpec`: ticks go on, and so does each step of a reaper that runs; a sweep ends because
  its calls do.
* `AFairSpec`: the Go scheduler runs every goroutine, the lease ticker fires, statements
  return, and a cancelled call returns (`CommandContext`, the clients' contexts). The
  download, FFmpeg and the uploads may hang as long as they are not cancelled.
* `WFairSpec`: the same inside the process, and for `main`, the loop of `Run` and the heartbeat;
  the drain timer fires. Nothing forces a signal.

## 4. Properties

* **JobLifecycle**: `OneRunningAttempt` (processing ⇔ one running attempt, its own);
  `OneVisibleCompletion` (visible outputs are of the one completing attempt);
  `AttemptsNumbered`, `RetriesAccounted` (numbers without gaps; each retry is one attempt
  that failed or expired; dead only after all of them); `TerminalIsFinal`; `RetryRetiresAttempt` (no
  retry without the verdict on the attempt); `QueuedIsReachable` (without faults a queued job is in
  the queue or in some process's hand); `ImplementsContract`; `EveryJobSettles`;
  `LostEntryRestored`.
* **PriorityQueue**: `IndexesAgree`, `ImplementsLine`.
* **JobDispatch**: `BestFirst` (the job a worker takes has the highest priority in the queue
  and has waited longest in its tier), `OnlyHigherOvertake` (a retried, recovered or restored job
  goes behind those of its priority that wait; docs/Tasks.md:62: "retries preserve queue
  ordering").
* **ReaperLeadership**: `SweeperHoldsLock`, `SweepsGoOn`.
* **AttemptRun**: `NothingOutlives`, `CompletedIsWhole` (every output was produced by this
  attempt, not left by another), `StaleStops`, `FirstErrorStops`.
* **WorkerProcess**: `ClosedLast` (connections outlive their users), `BeatsWhileDraining` (no
  reaper has a reason to take the job of a draining worker), `CleanDrainSettles` (a clean drain
  leaves no claimed job unsettled), `StopEnds` (a signal leads to exit although the
  download, FFmpeg or an upload hangs; statements are assumed to return, which for `setWorkerIdle`
  and its `context.Background()` no timeout enforces).
* **Upload**: `AcceptedIsDurable`, `OrphansKnown`, `LimitIsExact`.
* **JobReads**: `AnswerIsWhole` (no answer of `getJob` mixes two states of a job into a false
  one, nor shows a stale attempt's durations), `ReadsMoveForward`, `OutputsAgree` (the two
  endpoints do not contradict each other), `EventsMoveForward`, `VerdictIsTrue`.
* **ApiSession**: `AcceptedIsFound`.

What `AnswerIsWhole` leaves open is real: an answer that says "processing" can carry a
total time, when the job completed between the two statements. `ReadsMoveForward` says
that the next answer is then the completed one.

The type invariants are `TypeOK`, `QTypeOK` and `LTypeOK`, one for each of the first three modules.

Each is paired with a mutant, defined just above the definition it replaces: a fence that
checks the status only, a retry that is not counted or leaves the current attempt, a requeue
that leaves the attempt running, a membership test inverted, a release without the GET, an errgroup whose
error is dropped, a heartbeat under the wrong context, a drain that does not wait, a second read of the status. TLC finds the property violated under each.

## 5. What is proved

All theorems hold for any sets of jobs, workers, reapers and attempt ids, and any bounds,
from the named assumptions of the modules (the bounds are naturals; `None` is no id; the
priority bounds are ordered; the period is positive).

* `TypeCorrect`. `TypeOK` is not inductive: a step uses the job and attempt a process
  has in hand. `TInv` adds `InHandExists`: they exist. Frame lemmas treat the many actions
  that change one process or one table.
* `CurrentAttemptTheorem`, `VisibleCompletionTheorem`, `RetryAccountingTheorem`. `CoreStep`
  shows that each of the forty-odd actions does one of five things to the columns that matter:
  nothing, create, claim, complete, or give up the current attempt. The inductive invariant
  `IInv` is then shown for the five. Besides the three properties and the numbering it
  contains `CurrentNumber`: the current attempt has number `retries + 1`. Without it the numbering and
  the accounting do not support each other, since the next verdict must charge
  that number. `OneRunningAttempt` is also what makes the claim's unchecked
  UPDATE safe: a queued job never has a current attempt.
* `TerminalTheorem`, `RetryTheorem`: action properties, from the same five cases.
* `ContractTheorem`: `JobLifecycle` implements `JobContract`; each of the five cases is a step of
  the contract or a stutter.
* `ReachableTheorem`: `QueuedIsReachable`, inductive on top of `IInv`: what a process gives up it
  puts into the queue, and what leaves the queue a worker takes (`HandedOn`). The numbering
  excludes a claim that is refused by the unique constraint and drops the entry.
* `AttemptCountTheorem`: from the same `IInv`, the attempts of a job are finite in number, as
  many as its row accounts for (`Given`), and at most `MaxRetries + 1`: the numbering is a
  bijection from the attempts of a job to `1 .. Given(j)`.
* `QueueTheorem`: types and agreement of the indexes, for any priorities and jobs.
* `LineTheorem`: `PriorityQueue` implements `PriorityLine`. The order of service on slots is a
  strict total order on a finite set, so places are a bijection to `1 .. n` (`PlaceInjective`,
  `PlaceOnto`). RPUSH adds one slot, which leaves the places of the slots of its own and higher
  tiers and moves the others by one (`InsertPlaces`); that is `Join` (`EnqueueJoins`). LPOP of the top
  tier takes the slot at place 1 and moves all others down by one (`TopPlaces`, `RemovePlaces`);
  that is `Serve` (`PopServes`). `IndexesAgree` is needed throughout: the head of the top tier
  is the head of the line only because no tier without a list is on record.
* `DispatchUsesQueue` (`DSpec => QSpec /\ ImplementsLine`) and `DispatchLifecycle`
  (`DSpec => J!Spec`): the composed system is a behaviour of both parts. What is proved of
  `JobLifecycle` therefore holds of it with `queue` read as `members`; this last step is
  by substitution and not a theorem of its own, because this version of tlapm cannot cite a theorem of an
  instantiated module.
* `BestFirstTheorem`, `OvertakeTheorem`, from `DInv`: the queue's invariant and
  `TierIsPriority`, that each entry is in the list of its row's priority. Without the latter,
  nothing relates the order of the lists to the rows the properties speak of.
* `LeadershipTypes`, `LeadershipTheorem`: `SweeperHoldsLock`, from `TimeLeft`: for a leader,
  `left + missed * Period + age >= LockTTL`. With at most one refresh missed, at least one tick is left
  when the next one is due.
* `OutlivesTheorem`, `WholeTheorem`: for any set of outputs and both modes, from what the main
  goroutine knows of the uploads (`UploadsKnown`) and of the directory (`DirKnown`) at each point.
* `ProcessRunsAttempt`: `WSpec => ASpec`; hence `ProcessAttemptTheorem`: `NothingOutlives` and
  `CompletedIsWhole` hold of the process.
  `ClosedTheorem`, `DrainTheorem`, `SettledTheorem`, from `WInv`: which connections are open
  and which goroutines run at each point of `main` (`WOpen`, `WBeats`, `WEntry`), and that
  without a failed call the job is no longer "mine" once failure handling or completion is over
  (`JobKnown`); the properties speak of the exit only, so the points before must be known.
* `DurableTheorem`, `OrphansTheorem`, `LimitTheorem`, from `UInv`: what the handler's locals say of
  storage and row at each point, and `read <= size`, `read <= Limit` while the file is stored.
* `WholeAnswerTheorem`, `OutputsTheorem`, `VerdictTheorem`, `ForwardTheorem`, from `RInv`: what a
  client has in hand is a *past* state of the job (`RowPast`, `TimingsPast`), the job only moves
  on (`Later`), and the row of a second answer is not older than the first (`Newer`).
  `EventsTheorem`, from `EInv`: a number read is at most the present one.
* `SessionUploads` (`SSpec => USpec`) and `SessionReads` (`SSpec => RSpec`); hence
  `SessionUploadTheorem` and `SessionReadTheorem`, the properties of `Upload` and `JobReads` in a session;
  and `FoundTheorem`, from
  `Linked`: the handler's row exists exactly when the job does.

Only model-checked: liveness (`EveryJobSettles`, `LostEntryRestored`, `SweepsGoOn`, `StaleStops`,
`FirstErrorStops`, `StopEnds`), since fairness and ENABLED are beyond this prover. Every invariant,
action property and refinement of a passing run is a theorem.

## 6. Findings

Four statements of the documentation that the code does not keep; each has a run whose
counterexample shows it, and the quotation is in `PROJECT.json`.

1. `worker_death` (`DeathSparesOtherAttempts`): a worker that requeued its job and died before `setWorkerIdle` is recovered by
   job, not by attempt; another worker's healthy attempt is expired and a second retry
   charged. The tables stay consistent (`lifecycle`); only the retry is wasted.
2. `one_active_sweep` (`OneActiveSweep`): two refreshes in a row fail, the lock expires, another reaper takes it, and both sweep.
   `lifecycle`, `RetryTheorem` and `ReachableTheorem` show that this charges no attempt twice and
   strands no job.
3. `stale_artifacts` (`StaleLeavesNothing`): objects uploaded by a stale attempt are never removed.
4. `upload_durable` (`DurableIsAccepted`): a commit that takes effect but reports an error makes the API remove the
   input of a durable job and answer 500; the job is then picked up and fails.

## 7. What is not modelled

* `getInternalJobs` and `getWorkers`: one SELECT each, without state. The numbers of the
  statistics other than the completed jobs, and the formatting of metrics and events.
* Configuration, wiring, client construction: their values are constants here.
* The benchmark's summary and reports, frontends, infrastructure, scripts: outside the job protocol.
* Rows that migration `000002` found: they have no attempt references, retries without attempts, and
  no durations, and are outside `Init`, which starts with empty tables. Of such rows a queued one is claimed like any other, with its
  numbering from `retry_count + 1`; a completed one has outputs without an attempt; one that was
  processing has no current attempt, and no pass of the sweep recovers it.
* A sweep step that fails in every sweep. The first error ends the sweep, so the passes behind it would never
  run again; liveness is claimed for finitely many faults only.
* What FFmpeg computes; the values of durations and sizes (no guard reads them).
* `markDead`, the worker's `requeueJob` and `failureActionFor`: dead code or used by tests only.
* Two attempts of one job that run at once on one host share the work directory. Deployed
  workers have a file system each; a model would need the contents of the files (a hazard
  with that note). What an earlier attempt left behind is modelled.

## 8. Plan

Done: the life of a job and its contract, queue, leadership, attempt, worker process, upload,
reads and the session that joins them, the queue joined with the lifecycle, with the proofs
above. What is left:

1. `WorkerProcess` with a second queue entry, and as a refinement of one worker of `JobLifecycle`.
2. Pure operators against reference definitions: `parseLimit`, `percentile`, the lock's time to
   live from the configuration.
