--------------------------- MODULE WorkerProcess ---------------------------
(***************************************************************************)
(* A worker process from its start to its exit: main, which opens the      *)
(* connections, waits for a signal, and then for Run or for the drain      *)
(* timer; the goroutine of Run, which polls and calls processJob; and the  *)
(* heartbeat goroutine.  processJob is AttemptRun: its steps are taken     *)
(* while Run is inside it.  Two contexts stop the process: stopPollingCtx  *)
(* at the signal, processCtx ("process" in cancelled) at the end of the    *)
(* grace period.  The queue offers one job (the bound of this module).     *)
(***************************************************************************)
EXTENDS AttemptRun

VARIABLES
    main,       \* the goroutine of main
    open,       \* connections that are open
    run,        \* the goroutine of Run
    beat,       \* the heartbeat goroutine: "off", "running" or "ended"
    stopping,   \* stopPollingCtx is cancelled
    entry,      \* the queue entry: "queued", "in hand", "claimed" or "gone"
    clean       \* no call has failed of itself

pvars == <<main, open, run, beat, stopping, entry, clean>>
wvars == <<avars, pvars>>

WInit ==
    /\ AInit
    /\ main = "db"
    /\ open = {}
    /\ run = "off"
    /\ beat = "off"
    /\ stopping = FALSE
    /\ entry = "queued"
    /\ clean = TRUE

-----------------------------------------------------------------------------
(***************************************************************************)
(* main.                                                                   *)
(***************************************************************************)

Starting == main \in {"db", "redis", "storage", "register"}

\* New opens the connections one after the other, the last step registers the
\* worker; then main starts Run, which starts the heartbeat.
StartStep ==
    /\ \/ main = "db" /\ main' = "redis" /\ open' = {"db"} /\ UNCHANGED <<run, beat>>
       \/ main = "redis" /\ main' = "storage" /\ open' = {"db", "redis"} /\ UNCHANGED <<run, beat>>
       \/ main = "storage" /\ main' = "register" /\ UNCHANGED <<open, run, beat>>
       \/ main = "register" /\ main' = "serve" /\ run' = "top" /\ beat' = "running"
            /\ UNCHANGED open
    /\ UNCHANGED <<avars, stopping, entry, clean>>

\* A step of New fails: it closes what it opened, and main exits.
StartFails ==
    /\ Starting
    /\ main' = "exited"
    /\ open' = {}
    /\ clean' = FALSE
    /\ UNCHANGED <<avars, run, beat, stopping, entry>>

\* The first signal; later ones are not read.
Signal ==
    /\ main = "serve"
    /\ main' = "drain"
    /\ stopping' = TRUE
    /\ UNCHANGED <<avars, open, run, beat, entry, clean>>

\* Mutants of GraceOver: processing is not cancelled, or its end not awaited.
GraceOverNoCancel ==
    /\ main = "drain"
    /\ main' = "await"
    /\ UNCHANGED <<avars, open, run, beat, stopping, entry, clean>>
GraceOverNoWait ==
    /\ main = "drain"
    /\ main' = "close"
    /\ DrainTimeout
    /\ UNCHANGED <<open, run, beat, stopping, entry, clean>>

\* The drain timer fires first: cancelProcessing, then <-done.
GraceOver ==
    /\ main = "drain"
    /\ main' = "await"
    /\ DrainTimeout
    /\ UNCHANGED <<open, run, beat, stopping, entry, clean>>

\* Run has returned.
Drained ==
    /\ main \in {"drain", "await"}
    /\ run = "done"
    /\ main' = "close"
    /\ UNCHANGED <<avars, open, run, beat, stopping, entry, clean>>

\* The deferred Close.
CloseAll ==
    /\ main = "close"
    /\ main' = "exited"
    /\ open' = {}
    /\ UNCHANGED <<avars, run, beat, stopping, entry, clean>>

-----------------------------------------------------------------------------
(***************************************************************************)
(* Run and the heartbeat.                                                  *)
(***************************************************************************)

\* The head of the loop looks at stopPollingCtx.
LoopTop ==
    /\ run = "top"
    /\ run' = IF stopping THEN "leave" ELSE "pop"
    /\ UNCHANGED <<avars, main, open, beat, stopping, entry, clean>>

PopEntry ==
    /\ run = "pop"
    /\ entry = "queued"
    /\ entry' = "in hand"
    /\ run' = "fetch"
    /\ UNCHANGED <<avars, main, open, beat, stopping, clean>>

\* The queue is empty, or Pop fails, perhaps after the script ran: by itself, or
\* because the signal cancels it.
PopNothing ==
    /\ run = "pop"
    /\ run' = "sleep"
    /\ \/ entry # "queued" /\ UNCHANGED <<entry, clean>>
       \/ entry = "queued" /\ entry' \in {"queued", "gone"} /\ clean' = (clean /\ stopping)
    /\ UNCHANGED <<avars, main, open, beat, stopping>>

FetchJob ==
    /\ run = "fetch"
    /\ run' = "claim"
    /\ UNCHANGED <<avars, main, open, beat, stopping, entry, clean>>

\* fetchJob also runs under stopPollingCtx: the signal, or an error, drops the
\* entry that was popped.
FetchFails ==
    /\ run = "fetch"
    /\ run' = "sleep"
    /\ entry' = "gone"
    /\ clean' = (clean /\ stopping)
    /\ UNCHANGED <<avars, main, open, beat, stopping>>

SleepOrDone ==
    /\ run = "sleep"
    /\ run' = "top"
    /\ UNCHANGED <<avars, main, open, beat, stopping, entry, clean>>

\* processJob: markProcessing, under processCtx.
ClaimJob ==
    /\ run = "claim"
    /\ "process" \notin cancelled
    /\ run' = "job"
    /\ entry' = "claimed"
    /\ UNCHANGED <<avars, main, open, beat, stopping, clean>>

\* The claim is refused, fails or is cancelled.
ClaimDropped ==
    /\ run = "claim"
    /\ run' = "top"
    /\ entry' = "gone"
    /\ clean' = (clean /\ "process" \in cancelled)
    /\ UNCHANGED <<avars, main, open, beat, stopping>>

\* The rest of processJob.
ProcessJob ==
    /\ run = "job"
    /\ AttemptStep
    /\ clean' = (clean /\ (HandleFailureFails => "process" \in cancelled))
    /\ UNCHANGED <<main, open, run, beat, stopping, entry>>

JobReturns ==
    /\ run = "job"
    /\ pc = "returned"
    /\ run' = "top"
    /\ UNCHANGED <<avars, main, open, beat, stopping, entry, clean>>

\* The deferred stopHeartbeat, then <-heartbeatDone.
StopHeartbeat ==
    /\ run = "leave"
    /\ run' = "join"
    /\ UNCHANGED <<avars, main, open, beat, stopping, entry, clean>>

RunReturns ==
    /\ run = "join"
    /\ beat = "ended"
    /\ run' = "done"
    /\ UNCHANGED <<avars, main, open, beat, stopping, entry, clean>>

\* Mutant of BeatCancelled: the heartbeat's context derives from stopPollingCtx.
BeatStopsPolling == run = "join" \/ stopping

\* heartbeatCtx derives from processCtx.
BeatCancelled == run = "join" \/ "process" \in cancelled

BeatEnds ==
    /\ beat = "running"
    /\ BeatCancelled
    /\ beat' = "ended"
    /\ UNCHANGED <<avars, main, open, run, stopping, entry, clean>>

Exited == main = "exited" /\ UNCHANGED wvars

MainGoroutine == StartStep \/ GraceOver \/ Drained \/ CloseAll

RunGoroutine ==
    \/ LoopTop \/ PopEntry \/ PopNothing \/ FetchJob \/ FetchFails \/ SleepOrDone
    \/ ClaimJob \/ ClaimDropped \/ JobReturns
    \/ StopHeartbeat \/ RunReturns

WNext ==
    \/ MainGoroutine \/ StartFails \/ Signal
    \/ RunGoroutine \/ BeatEnds
    \/ ProcessJob
    \/ Exited

WSpec == WInit /\ [][WNext]_wvars

\* AttemptRun's fairness inside Run, and the scheduler and the drain timer for the
\* rest.  Nothing forces a signal, nor a download, transcode or upload to end unless
\* it is cancelled.
WFairSpec ==
    /\ WSpec
    /\ WF_wvars(MainGoroutine)
    /\ WF_wvars(RunGoroutine)
    /\ WF_wvars(BeatEnds)
    /\ WF_wvars(MainStep /\ ProcessJob)
    /\ WF_wvars(~ Live /\ DownloadFails /\ ProcessJob)
    /\ WF_wvars(LeaseGone /\ ProcessJob)
    /\ WF_wvars(LeaseEnds /\ ProcessJob)
    /\ \A t \in Outputs : WF_wvars(TaskStopped(t) /\ ProcessJob)

-----------------------------------------------------------------------------
InRun == run \notin {"off", "done"}

\* The connections outlive everyone who uses them, whichever of Run, the timer and
\* the heartbeat is last; at exit they are closed and no goroutine is left.
ClosedLast ==
    /\ InRun \/ beat = "running" => open = {"db", "redis"}
    /\ main = "exited" =>
         /\ open = {}
         /\ ~ InRun
         /\ beat # "running"
         /\ entry = "claimed" => pc = "returned"

\* A draining worker stays alive in the eyes of the reapers: until processCtx is
\* cancelled, heartbeats go on during the whole of processJob, and so does the
\* renewal of the lease unless the attempt itself is being stopped.
BeatsWhileDraining ==
    run = "job" /\ "process" \notin cancelled =>
        /\ beat = "running"
        /\ lease = "ended" => ~ Live

\* A worker that drained within the grace period, and none of whose calls failed,
\* has settled the job it had claimed.
CleanDrainSettles ==
    main = "exited" /\ clean /\ entry = "claimed" /\ "process" \notin cancelled =>
        job # "mine"

\* After a signal the process exits, even if the download, FFmpeg or an upload hangs.
StopEnds == stopping ~> main = "exited"
=============================================================================
