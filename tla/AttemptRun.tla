----------------------------- MODULE AttemptRun -----------------------------
(***************************************************************************)
(* One run of processJob, from the claim to its return: the main goroutine *)
(* (runJob and the deferred calls), the goroutines of the two errgroups,   *)
(* the lease goroutine, and the contexts that stop them: processCtx, which *)
(* the drain timeout cancels; jobCtx, which the lease goroutine cancels;   *)
(* and the errgroup's own, which the first failing task cancels.           *)
(* JobLifecycle sees all this as one attempt between "busy" and "idle";    *)
(* WorkerProcess puts it into the process that runs it.                    *)
(*                                                                         *)
(* The work directory is named after the job, not the attempt: an earlier  *)
(* attempt on this host that was killed, or whose RemoveAll failed, may    *)
(* have left files in it.                                                  *)
(***************************************************************************)

CONSTANTS
    Outputs         \* the output types, one FFmpeg task and one upload each

VARIABLES
    parallel,       \* WORKER_PROCESSING_MODE, which never changes
    pc,             \* the main goroutine
    task,           \* each task of the running errgroup (or sequential loop)
    files,          \* outputs in the work directory, whoever wrote them
    made,           \* outputs whose FFmpeg process, run by this attempt, succeeded
    dir,            \* "none", "made", "removed", or "stays": RemoveAll failed
    objects,        \* outputs in object storage under this attempt's keys
    urls,           \* outputs whose ObjectKey and CDNURL are set
    cancelled,      \* which of the contexts "process", "job", "group" are
    lease,          \* the lease goroutine: "running" or "ended"
    job,            \* what PostgreSQL says: "mine", "taken", "completed", "failed"
    result          \* what runJob returns

avars == <<parallel, pc, task, files, made, dir, objects, urls, cancelled, lease, job, result>>

Idle == [t \in Outputs |-> "idle"]

\* markProcessing has committed and the lease goroutine runs.
AInit ==
    /\ parallel \in BOOLEAN
    /\ pc = "busy"
    /\ task = Idle
    /\ files \in SUBSET Outputs
    /\ made = {} /\ objects = {} /\ urls = {}
    /\ dir = "none"
    /\ cancelled = {}
    /\ lease = "running"
    /\ job = "mine"
    /\ result = "none"

\* A call made under jobCtx succeeds only while it is not cancelled.
Live == "job" \notin cancelled

-----------------------------------------------------------------------------
(***************************************************************************)
(* The main goroutine.                                                     *)
(***************************************************************************)

\* Mutant of SetBusy: when setWorkerBusy fails, processJob just returns.
SetBusyReturns ==
    /\ pc = "busy"
    /\ \/ pc' = "mkdir" /\ UNCHANGED result
       \/ pc' = "stop" /\ result' = "error"
    /\ UNCHANGED <<parallel, task, files, made, dir, objects, urls, cancelled, lease, job>>

\* setWorkerBusy; its failure goes straight to handleFailure, and no setWorkerIdle
\* is registered.
SetBusy ==
    /\ pc = "busy"
    /\ \/ pc' = "mkdir" /\ UNCHANGED result
       \/ pc' = "failBusy" /\ result' = "error"
    /\ UNCHANGED <<parallel, task, files, made, dir, objects, urls, cancelled, lease, job>>

\* MkdirAll; when it fails, RemoveAll is not registered yet.
MakeDir ==
    /\ pc = "mkdir"
    /\ \/ pc' = "download" /\ dir' = "made" /\ UNCHANGED result
       \/ pc' = "fail" /\ result' = "error" /\ UNCHANGED dir
    /\ UNCHANGED <<parallel, task, files, made, objects, urls, cancelled, lease, job>>

\* The download and the statements around it succeed; the tasks are next.
Download ==
    /\ pc = "download"
    /\ Live
    /\ pc' = "transcode"
    /\ UNCHANGED <<parallel, task, files, made, dir, objects, urls, cancelled, lease, job, result>>

\* One of those calls fails: runJob returns.
DownloadFails ==
    /\ pc = "download"
    /\ pc' = "cleanup"
    /\ result' = "error"
    /\ UNCHANGED <<parallel, task, files, made, dir, objects, urls, cancelled, lease, job>>

\* A task starts: all at once in a group, one after the other in the loop.
StartTask(t) ==
    /\ pc \in {"transcode", "upload"}
    /\ task[t] = "idle"
    /\ pc = "transcode" /\ ~ parallel => \A u \in Outputs : task[u] \in {"idle", "done"}
    /\ task' = [task EXCEPT ![t] = "busy"]
    /\ UNCHANGED <<parallel, pc, files, made, dir, objects, urls, cancelled, lease, job, result>>

\* runFFmpeg (with -y, over what is there) and Stat succeed.
Transcoded(t) ==
    /\ pc = "transcode"
    /\ task[t] = "busy"
    /\ task' = [task EXCEPT ![t] = "done"]
    /\ files' = files \cup {t}
    /\ made' = made \cup {t}
    /\ UNCHANGED <<parallel, pc, dir, objects, urls, cancelled, lease, job, result>>

\* PutObject succeeds.
Uploaded(t) ==
    /\ pc = "upload"
    /\ task[t] = "busy"
    /\ t \in files
    /\ task' = [task EXCEPT ![t] = "done"]
    /\ objects' = objects \cup {t}
    /\ urls' = urls \cup {t}
    /\ UNCHANGED <<parallel, pc, files, made, dir, cancelled, lease, job, result>>

\* Mutant of GroupError: the first error does not cancel the siblings.
GroupGoesOn == UNCHANGED cancelled

\* errgroup: the first error cancels the group's context (the sequential loop has
\* no siblings to cancel).
GroupError == cancelled' = cancelled \cup {"group"}

\* FFmpeg may leave part of a file when it fails or is killed.
LeavesPart(t) ==
    \/ UNCHANGED files
    \/ pc = "transcode" /\ files' = files \cup {t}

\* A task fails by itself; an upload may have stored its object all the same.
TaskFails(t) ==
    /\ task[t] = "busy"
    /\ task' = [task EXCEPT ![t] = "failed"]
    /\ LeavesPart(t)
    /\ \/ UNCHANGED objects
       \/ pc = "upload" /\ objects' = objects \cup {t}
    /\ GroupError
    /\ UNCHANGED <<parallel, pc, made, dir, urls, lease, job, result>>

\* CommandContext kills the subprocess, PutObject returns: a context is cancelled.
TaskStopped(t) ==
    /\ task[t] = "busy"
    /\ cancelled # {}
    /\ task' = [task EXCEPT ![t] = "failed"]
    /\ LeavesPart(t)
    /\ GroupError
    /\ UNCHANGED <<parallel, pc, made, dir, objects, urls, lease, job, result>>

Failed == \E t \in Outputs : task[t] = "failed"

\* Mutant of Joined: the first failure ends the wait.
JoinedAtFirstError ==
    Failed \/ \A t \in Outputs : task[t] \in {"done", "failed"}

\* group.Wait returns when every task has; the loop returns at the first error.
Joined ==
    \/ \A t \in Outputs : task[t] \in {"done", "failed"}
    \/ pc = "transcode" /\ ~ parallel /\ Failed /\ \A t \in Outputs : task[t] # "busy"

\* Mutant of Proceed: the error of Wait is dropped.
ProceedAnyway(next) ==
    /\ pc' = next
    /\ task' = Idle
    /\ cancelled' = cancelled \ {"group"}
    /\ UNCHANGED result

\* No task failed, and the statements between the phases succeed ...
Proceed(next) ==
    /\ ~ Failed
    /\ Live
    /\ pc' = next
    /\ task' = Idle
    /\ cancelled' = cancelled \ {"group"}
    /\ UNCHANGED result

\* ... or runJob returns the first error.
GiveUp ==
    /\ pc' = "cleanup"
    /\ result' = "error"
    /\ UNCHANGED <<task, cancelled>>

Join ==
    /\ pc \in {"transcode", "upload"}
    /\ Joined
    /\ Proceed(IF pc = "transcode" THEN "upload" ELSE "complete") \/ GiveUp
    /\ UNCHANGED <<parallel, files, made, dir, objects, urls, lease, job>>

\* completeJob, fenced; its Commit may take effect and still return an error.
CompleteJob ==
    /\ pc = "complete"
    /\ Live
    /\ pc' = "cleanup"
    /\ \/ job = "mine" /\ job' = "completed" /\ result' \in {"ok", "error"}
       \/ job # "mine" /\ result' = "stale" /\ UNCHANGED job
    /\ UNCHANGED <<parallel, task, files, made, dir, objects, urls, cancelled, lease>>

\* A statement of completeJob fails, or its context is cancelled.
CompleteFails ==
    /\ pc = "complete"
    /\ pc' = "cleanup"
    /\ result' = "error"
    /\ UNCHANGED <<parallel, task, files, made, dir, objects, urls, cancelled, lease, job>>

\* The deferred RemoveAll; an error is only logged.
Cleanup ==
    /\ pc = "cleanup"
    /\ dir' \in {"removed", "stays"}
    /\ files' \in SUBSET files
    /\ dir' = "removed" => files' = {}
    /\ pc' = IF result = "error" THEN "fail" ELSE "idle"
    /\ UNCHANGED <<parallel, task, made, objects, urls, cancelled, lease, job, result>>

AfterFailure == IF pc = "fail" THEN "idle" ELSE "stop"

\* handleFailure, under processCtx: the attempt is failed if it is still current ...
HandleFailure ==
    /\ pc \in {"fail", "failBusy"}
    /\ "process" \notin cancelled
    /\ pc' = AfterFailure
    /\ job' = IF job = "mine" THEN "failed" ELSE job
    /\ UNCHANGED <<parallel, task, files, made, dir, objects, urls, cancelled, lease, result>>

\* ... and nothing happens when a statement fails, as all do once the context is
\* cancelled.
HandleFailureFails ==
    /\ pc \in {"fail", "failBusy"}
    /\ pc' = AfterFailure
    /\ UNCHANGED <<parallel, task, files, made, dir, objects, urls, cancelled, lease, job, result>>

\* The deferred setWorkerIdle.
SetIdle ==
    /\ pc = "idle"
    /\ pc' = "stop"
    /\ UNCHANGED <<parallel, task, files, made, dir, objects, urls, cancelled, lease, job, result>>

\* The deferred cancel of jobCtx; then <-leaseDone.
CancelJob ==
    /\ pc = "stop"
    /\ pc' = "wait"
    /\ cancelled' = cancelled \cup {"job", "group"}
    /\ UNCHANGED <<parallel, task, files, made, dir, objects, urls, lease, job, result>>

WaitLease ==
    /\ pc = "wait"
    /\ lease = "ended"
    /\ pc' = "returned"
    /\ UNCHANGED <<parallel, task, files, made, dir, objects, urls, cancelled, lease, job, result>>

-----------------------------------------------------------------------------
(***************************************************************************)
(* The lease goroutine and the world.                                      *)
(***************************************************************************)

\* Mutant of LeaseGone: the goroutine stops without cancelling jobCtx.
LeaseGoneQuietly ==
    /\ lease = "running"
    /\ job # "mine"
    /\ lease' = "ended"
    /\ UNCHANGED <<parallel, pc, task, files, made, dir, objects, urls, cancelled, job, result>>

\* renewAttemptLease updates no row: the goroutine cancels jobCtx (and with it the
\* group's) and returns.
LeaseGone ==
    /\ lease = "running"
    /\ job # "mine"
    /\ lease' = "ended"
    /\ cancelled' = cancelled \cup {"job", "group"}
    /\ UNCHANGED <<parallel, pc, task, files, made, dir, objects, urls, job, result>>

\* renewAttemptLease returns an error: the same.
RenewalError ==
    /\ lease = "running"
    /\ lease' = "ended"
    /\ cancelled' = cancelled \cup {"job", "group"}
    /\ UNCHANGED <<parallel, pc, task, files, made, dir, objects, urls, job, result>>

\* jobCtx is cancelled: the goroutine returns.
LeaseEnds ==
    /\ lease = "running"
    /\ ~ Live
    /\ lease' = "ended"
    /\ UNCHANGED <<parallel, pc, task, files, made, dir, objects, urls, cancelled, job, result>>

\* A reaper expires the attempt.
ReaperTakes ==
    /\ job = "mine"
    /\ job' = "taken"
    /\ UNCHANGED <<parallel, pc, task, files, made, dir, objects, urls, cancelled, lease, result>>

\* The drain timeout of a worker that was told to stop: cancelProcessing.
DrainTimeout ==
    /\ "process" \notin cancelled
    /\ cancelled' = {"process", "job", "group"}
    /\ UNCHANGED <<parallel, pc, task, files, made, dir, objects, urls, lease, job, result>>

Returned == pc = "returned" /\ UNCHANGED avars

MainStep ==
    \/ SetBusy \/ MakeDir \/ Join \/ CompleteJob \/ CompleteFails
    \/ Cleanup \/ HandleFailure \/ HandleFailureFails \/ SetIdle \/ CancelJob \/ WaitLease
    \/ \E t \in Outputs : StartTask(t)

\* Every step of the run but the drain timeout.
AttemptStep ==
    \/ MainStep
    \/ Download \/ DownloadFails
    \/ \E t \in Outputs : Transcoded(t) \/ Uploaded(t) \/ TaskFails(t) \/ TaskStopped(t)
    \/ LeaseGone \/ RenewalError \/ LeaseEnds
    \/ ReaperTakes

ANext == AttemptStep \/ DrainTimeout \/ Returned

ASpec == AInit /\ [][ANext]_avars

\* The scheduler runs every goroutine, the lease ticker fires, statements return, and
\* so does a cancelled call.  The download, an FFmpeg process or an upload may go on
\* for ever unless cancelled.
AFairSpec ==
    /\ ASpec
    /\ WF_avars(MainStep)
    /\ WF_avars(~ Live /\ DownloadFails)
    /\ WF_avars(LeaseGone)
    /\ WF_avars(LeaseEnds)
    /\ \A t \in Outputs : WF_avars(TaskStopped(t))

-----------------------------------------------------------------------------
\* The goroutines, the contexts and the files have their types.
ATypeOK ==
    /\ parallel \in BOOLEAN
    /\ pc \in {"busy", "mkdir", "download", "transcode", "upload", "complete", "cleanup",
               "fail", "failBusy", "idle", "stop", "wait", "returned"}
    /\ task \in [Outputs -> {"idle", "busy", "done", "failed"}]
    /\ files \subseteq Outputs /\ made \subseteq Outputs /\ objects \subseteq Outputs /\ urls \subseteq Outputs
    /\ dir \in {"none", "made", "removed", "stays"}
    /\ cancelled \subseteq {"process", "job", "group"}
    /\ lease \in {"running", "ended"}
    /\ job \in {"mine", "taken", "completed", "failed"}
    /\ result \in {"none", "ok", "stale", "error"}

\* Nothing outlives its owner: no FFmpeg process or upload is left when runJob
\* removes the work directory and returns, however it ends, and no lease goroutine
\* when processJob returns ("the attempt fails after all subprocesses have exited").
NothingOutlives ==
    /\ pc \notin {"transcode", "upload"} => \A t \in Outputs : task[t] # "busy"
    /\ pc = "returned" => lease = "ended" /\ dir # "made"

\* A job is completed only when every output was produced by this very attempt, then
\* stored and given its URL, whatever failed, was cancelled or raced in the two
\* groups, and whatever an earlier attempt left in the work directory.
CompletedIsWhole ==
    job = "completed" => made = Outputs /\ objects = Outputs /\ urls = Outputs

\* An attempt that lost its job stops, even if the download, FFmpeg or an upload hangs.
StaleStops == job = "taken" ~> pc = "returned"

\* In parallel mode one failed task is enough for the attempt to end.
FirstErrorStops == Failed ~> pc \notin {"transcode", "upload"}

\* "Best-effort cleanup of stale attempt artifacts": a stale attempt whose calls all
\* succeeded leaves no object behind.
StaleLeavesNothing == pc = "returned" /\ result = "stale" => objects = {}
=============================================================================
