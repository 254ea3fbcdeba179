------------------------- MODULE WorkerProcessProofs -------------------------
(***************************************************************************)
(* Proofs about a worker's attempts (AttemptRun) and about the process     *)
(* they run in (WorkerProcess), for any set of outputs and either mode.    *)
(***************************************************************************)
EXTENDS WorkerProcess, TLAPS

(***************************************************************************)
(* The attempt.                                                            *)
(***************************************************************************)

\* What the main goroutine knows of the outputs where it stands.
UploadsKnown ==
    /\ pc \in {"busy", "mkdir", "download"} => task = Idle
    /\ pc = "transcode" => \A t \in Outputs : task[t] = "done" => t \in made
    /\ pc = "upload" => \A t \in Outputs : task[t] = "done" => t \in objects /\ t \in urls
    /\ pc \in {"upload", "complete"} => made = Outputs
    /\ pc = "complete" => objects = Outputs /\ urls = Outputs

\* Where the work directory can exist.
DirKnown ==
    /\ pc \in {"busy", "mkdir", "failBusy"} => dir = "none"
    /\ pc \in {"fail", "idle", "stop", "wait", "returned"} => dir # "made"

AInv ==
    /\ ATypeOK
    /\ NothingOutlives
    /\ CompletedIsWhole
    /\ UploadsKnown
    /\ DirKnown

LEMMA AInitInv == AInit => AInv
  BY DEF AInit, Idle, AInv, ATypeOK, NothingOutlives, CompletedIsWhole, UploadsKnown, DirKnown

LEMMA GroupInv ==
    ASSUME AInv, NEW t \in Outputs,
           StartTask(t) \/ Transcoded(t) \/ Uploaded(t) \/ TaskFails(t) \/ TaskStopped(t)
    PROVE  AInv'
  <1> USE DEF AInv, ATypeOK, NothingOutlives, CompletedIsWhole, UploadsKnown, DirKnown, Idle
  <1>1. CASE StartTask(t)
    BY <1>1 DEF StartTask
  <1>2. CASE Transcoded(t)
    BY <1>2 DEF Transcoded
  <1>3. CASE Uploaded(t)
    BY <1>3 DEF Uploaded
  <1>4. CASE TaskFails(t)
    BY <1>4 DEF TaskFails, LeavesPart, GroupError
  <1>5. CASE TaskStopped(t)
    BY <1>5 DEF TaskStopped, LeavesPart, GroupError
  <1> QED BY <1>1, <1>2, <1>3, <1>4, <1>5

LEMMA JoinInv ==
    ASSUME AInv, Join
    PROVE  AInv'
  <1> USE DEF AInv, ATypeOK, NothingOutlives, CompletedIsWhole, UploadsKnown, DirKnown, Idle
  <1>1. \A t \in Outputs : task[t] # "busy"
    BY DEF Join, Joined
  <1>2. CASE GiveUp
    BY <1>1, <1>2 DEF Join, GiveUp
  <1>3. CASE pc = "transcode" /\ Proceed("upload")
    <2>1. \A t \in Outputs : task[t] = "done"
      BY <1>3 DEF Join, Joined, Proceed, Failed
    <2>2. made = Outputs
      BY <1>3, <2>1
    <2> QED BY <1>3, <2>2 DEF Join, Proceed
  <1>4. CASE pc = "upload" /\ Proceed("complete")
    <2>1. \A t \in Outputs : task[t] = "done"
      BY <1>4 DEF Join, Joined, Proceed, Failed
    <2>2. objects = Outputs /\ urls = Outputs
      BY <1>4, <2>1
    <2> QED BY <1>4, <2>2 DEF Join, Proceed
  <1> QED BY <1>2, <1>3, <1>4 DEF Join

LEMMA MainInv ==
    ASSUME AInv,
           \/ SetBusy \/ MakeDir \/ Download \/ DownloadFails \/ CompleteJob \/ CompleteFails
           \/ Cleanup \/ HandleFailure \/ HandleFailureFails \/ SetIdle \/ CancelJob \/ WaitLease
    PROVE  AInv'
  <1> USE DEF AInv, ATypeOK, NothingOutlives, CompletedIsWhole, UploadsKnown, DirKnown, Idle
  <1>1. CASE SetBusy
    BY <1>1 DEF SetBusy
  <1>2. CASE MakeDir
    BY <1>2 DEF MakeDir
  <1>3. CASE Download
    BY <1>3 DEF Download
  <1>4. CASE CompleteJob
    BY <1>4 DEF CompleteJob
  <1>5. CASE CompleteFails
    BY <1>5 DEF CompleteFails
  <1>6. CASE Cleanup
    BY <1>6 DEF Cleanup
  <1>7. CASE HandleFailure
    BY <1>7 DEF HandleFailure, AfterFailure
  <1>8. CASE SetIdle
    BY <1>8 DEF SetIdle
  <1>9. CASE CancelJob
    BY <1>9 DEF CancelJob
  <1>10. CASE WaitLease
    BY <1>10 DEF WaitLease
  <1>11. CASE DownloadFails
    BY <1>11 DEF DownloadFails
  <1>12. CASE HandleFailureFails
    BY <1>12 DEF HandleFailureFails, AfterFailure
  <1> QED BY <1>1, <1>2, <1>3, <1>4, <1>5, <1>6, <1>7, <1>8, <1>9, <1>10, <1>11, <1>12

LEMMA OthersInv ==
    ASSUME AInv,
           \/ LeaseGone \/ RenewalError \/ LeaseEnds \/ ReaperTakes \/ DrainTimeout
           \/ UNCHANGED avars
    PROVE  AInv'
  <1> USE DEF AInv, ATypeOK, NothingOutlives, CompletedIsWhole, UploadsKnown, DirKnown, Idle
  <1>1. CASE LeaseGone
    BY <1>1 DEF LeaseGone
  <1>2. CASE RenewalError
    BY <1>2 DEF RenewalError
  <1>3. CASE LeaseEnds
    BY <1>3 DEF LeaseEnds
  <1>4. CASE ReaperTakes
    BY <1>4 DEF ReaperTakes
  <1>5. CASE DrainTimeout
    BY <1>5 DEF DrainTimeout
  <1>6. CASE UNCHANGED avars
    BY <1>6 DEF avars
  <1> QED BY <1>1, <1>2, <1>3, <1>4, <1>5, <1>6

LEMMA ANextInv == AInv /\ [ANext]_avars => AInv'
  BY GroupInv, JoinInv, MainInv, OthersInv DEF ANext, AttemptStep, MainStep, Returned

\* However the groups, the lease and the drain race, nothing outlives its owner.
THEOREM OutlivesTheorem == ASpec => []NothingOutlives
  <1>1. AInv => NothingOutlives
    BY DEF AInv
  <1> QED BY AInitInv, ANextInv, <1>1, PTL DEF ASpec

\* A completed job has all its outputs, for any number of them.
THEOREM WholeTheorem == ASpec => []CompletedIsWhole
  <1>1. AInv => CompletedIsWhole
    BY DEF AInv
  <1> QED BY AInitInv, ANextInv, <1>1, PTL DEF ASpec

-----------------------------------------------------------------------------
(***************************************************************************)
(* The process.                                                            *)
(***************************************************************************)

\* Every step of the process is a step of its attempt, or leaves it alone.
LEMMA ProcessStep == WNext => ANext \/ UNCHANGED avars
  BY DEF WNext, MainGoroutine, RunGoroutine, StartStep, StartFails, Signal, GraceOver, Drained,
         CloseAll, LoopTop, PopEntry, PopNothing, FetchJob, FetchFails, SleepOrDone, ClaimJob,
         ClaimDropped, ProcessJob, JobReturns, StopHeartbeat, RunReturns, BeatEnds, Exited,
         ANext, wvars

\* The process, however it is started, signalled and drained, runs its attempt as
\* AttemptRun says: what holds of AttemptRun holds in the process.
THEOREM ProcessRunsAttempt == WSpec => ASpec
  <1>1. WInit => AInit
    BY DEF WInit
  <1>2. [WNext]_wvars => [ANext]_avars
    BY ProcessStep DEF wvars
  <1> QED BY <1>1, <1>2, PTL DEF WSpec, ASpec

\* Between a worker's start and its exit, nothing outlives runJob or processJob, and
\* no partial or left-over set of outputs is completed.
THEOREM ProcessAttemptTheorem == WSpec => [](NothingOutlives /\ CompletedIsWhole)
  BY ProcessRunsAttempt, OutlivesTheorem, WholeTheorem, PTL

-----------------------------------------------------------------------------
\* What the three goroutines know of each other: where each may be, which connections
\* are open, and when the heartbeat runs and the queue entry is claimed.
WTypes ==
    /\ main \in {"db", "redis", "storage", "register", "serve", "drain", "await", "close", "exited"}
    /\ run \in {"off", "top", "pop", "fetch", "sleep", "claim", "job", "leave", "join", "done"}
    /\ beat \in {"off", "running", "ended"}
    /\ entry \in {"queued", "in hand", "claimed", "gone"}

WOpen ==
    /\ main = "db" => open = {}
    /\ main = "redis" => open = {"db"}
    /\ main \in {"storage", "register", "serve", "drain", "await", "close"} => open = {"db", "redis"}
    /\ main = "exited" => open = {} /\ run \in {"off", "done"}
    /\ Starting => run = "off"
    /\ main \in {"serve", "drain", "await"} => run # "off"
    /\ main = "close" => run = "done"

WBeats ==
    /\ run = "off" <=> beat = "off"
    /\ run = "done" => beat = "ended"
    /\ run \notin {"off", "join", "done"} /\ "process" \notin cancelled => beat = "running"

WEntry ==
    /\ run = "off" => entry = "queued"
    /\ run \in {"pop", "fetch", "claim"} => entry # "claimed" \/ pc = "returned"
    /\ run = "job" => entry = "claimed"
    /\ entry = "claimed" => run = "job" \/ pc = "returned"

WPhases == WTypes /\ WOpen /\ WBeats /\ WEntry

\* How far the attempt is from its end, and what that says about the job.
JobKnown ==
    /\ cancelled \subseteq {"process", "job", "group"}
    /\ lease = "ended" => "job" \in cancelled
    /\ pc \in {"cleanup", "fail", "failBusy", "idle", "stop", "wait", "returned"}
         /\ result # "error" => job # "mine"
    /\ clean /\ "process" \notin cancelled /\ pc \in {"idle", "stop", "wait", "returned"} =>
         job # "mine"

WInv == WPhases /\ JobKnown

LEMMA WInitInv == WInit => WInv
  BY DEF WInit, AInit, WInv, WPhases, WTypes, WOpen, WBeats, WEntry, JobKnown, Starting

\* The goroutines other than the attempt's can only make clean false.
LEMMA JobKnownKept ==
    ASSUME JobKnown, UNCHANGED avars, clean' => clean
    PROVE  JobKnown'
  BY DEF JobKnown, avars

LEMMA MainGoroutineInv ==
    ASSUME WInv, MainGoroutine \/ StartFails \/ Signal
    PROVE  WInv'
  <1> USE DEF WInv, WPhases, WTypes, WOpen, WBeats, WEntry, Starting
  <1>1. CASE StartStep
    <2>1. JobKnown'
      BY <1>1, JobKnownKept DEF StartStep
    <2>2. WPhases'
      BY <1>1 DEF StartStep, avars
    <2> QED BY <2>1, <2>2
  <1>2. CASE StartFails
    <2>1. JobKnown'
      BY <1>2, JobKnownKept DEF StartFails
    <2>2. WPhases'
      BY <1>2 DEF StartFails, avars
    <2> QED BY <2>1, <2>2
  <1>3. CASE Signal
    <2>1. JobKnown'
      BY <1>3, JobKnownKept DEF Signal
    <2>2. WPhases'
      BY <1>3 DEF Signal, avars
    <2> QED BY <2>1, <2>2
  <1>4. CASE Drained
    <2>1. JobKnown'
      BY <1>4, JobKnownKept DEF Drained
    <2>2. WPhases'
      BY <1>4 DEF Drained, avars
    <2> QED BY <2>1, <2>2
  <1>5. CASE CloseAll
    <2>1. JobKnown'
      BY <1>5, JobKnownKept DEF CloseAll
    <2>2. WPhases'
      BY <1>5 DEF CloseAll, avars
    <2> QED BY <2>1, <2>2
  <1>6. CASE GraceOver
    <2>1. JobKnown'
      BY <1>6 DEF GraceOver, DrainTimeout, JobKnown
    <2>2. WPhases'
      BY <1>6 DEF GraceOver, DrainTimeout
    <2> QED BY <2>1, <2>2
  <1> QED BY <1>1, <1>2, <1>3, <1>4, <1>5, <1>6 DEF MainGoroutine

LEMMA RunGoroutineInv ==
    ASSUME WInv, RunGoroutine \/ BeatEnds
    PROVE  WInv'
  <1> USE DEF WInv, WPhases, WTypes, WOpen, WBeats, WEntry, Starting
  <1>0. JobKnown'
    <2> USE DEF RunGoroutine, LoopTop, PopEntry, PopNothing, FetchJob, FetchFails, SleepOrDone,
                ClaimJob, ClaimDropped, JobReturns, StopHeartbeat, RunReturns, BeatEnds
    <2>1. UNCHANGED avars
      OBVIOUS
    <2>2. clean' = clean \/ clean' = (clean /\ stopping)
            \/ clean' = (clean /\ "process" \in cancelled)
      OBVIOUS
    <2>3. clean' => clean
      BY <2>2, Zenon
    <2> QED BY <2>1, <2>3, JobKnownKept DEF WInv
  <1>1. CASE LoopTop
    BY <1>0, <1>1 DEF LoopTop, avars
  <1>2. CASE PopEntry
    BY <1>0, <1>2 DEF PopEntry, avars
  <1>3. CASE PopNothing
    BY <1>0, <1>3 DEF PopNothing, avars
  <1>4. CASE FetchJob
    BY <1>0, <1>4 DEF FetchJob, avars
  <1>5. CASE FetchFails
    BY <1>0, <1>5 DEF FetchFails, avars
  <1>6. CASE SleepOrDone
    BY <1>0, <1>6 DEF SleepOrDone, avars
  <1>7. CASE ClaimJob
    BY <1>0, <1>7 DEF ClaimJob, avars
  <1>8. CASE ClaimDropped
    BY <1>0, <1>8 DEF ClaimDropped, avars
  <1>9. CASE JobReturns
    BY <1>0, <1>9 DEF JobReturns, avars
  <1>10. CASE StopHeartbeat
    BY <1>0, <1>10 DEF StopHeartbeat, avars
  <1>11. CASE RunReturns
    BY <1>0, <1>11 DEF RunReturns, avars
  <1>12. CASE BeatEnds
    BY <1>0, <1>12 DEF BeatEnds, avars, BeatCancelled
  <1> QED BY <1>1, <1>2, <1>3, <1>4, <1>5, <1>6, <1>7, <1>8, <1>9, <1>10, <1>11, <1>12
          DEF RunGoroutine

\* Inside processJob only the attempt moves; processCtx is left alone.
LEMMA AttemptKeeps ==
    ASSUME JobKnown, AttemptStep
    PROVE  /\ "process" \in cancelled' <=> "process" \in cancelled
           /\ cancelled' \subseteq {"process", "job", "group"}
           /\ lease' = "ended" => "job" \in cancelled'
  <1> USE DEF JobKnown
  <1>1. CASE MainStep
    BY <1>1 DEF MainStep, SetBusy, MakeDir, Join, Proceed, GiveUp, CompleteJob, CompleteFails,
           Cleanup, HandleFailure, HandleFailureFails, SetIdle, CancelJob, WaitLease, StartTask
  <1>2. CASE Download \/ DownloadFails
    BY <1>2 DEF Download, DownloadFails
  <1>3. CASE \E t \in Outputs : Transcoded(t) \/ Uploaded(t) \/ TaskFails(t) \/ TaskStopped(t)
    BY <1>3 DEF Transcoded, Uploaded, TaskFails, TaskStopped, GroupError
  <1>4. CASE LeaseGone \/ RenewalError \/ LeaseEnds \/ ReaperTakes
    BY <1>4 DEF LeaseGone, RenewalError, LeaseEnds, ReaperTakes, Live
  <1> QED BY <1>1, <1>2, <1>3, <1>4 DEF AttemptStep

LEMMA AttemptSettles ==
    ASSUME JobKnown, AttemptStep,
           clean' = (clean /\ (HandleFailureFails => "process" \in cancelled))
    PROVE  JobKnown'
  <1>1. SUFFICES
          /\ pc' \in {"cleanup", "fail", "failBusy", "idle", "stop", "wait", "returned"}
               /\ result' # "error" => job' # "mine"
          /\ clean' /\ "process" \notin cancelled' /\ pc' \in {"idle", "stop", "wait", "returned"} =>
               job' # "mine"
    BY AttemptKeeps DEF JobKnown
  <1>2. clean' => clean
    OBVIOUS
  <1>3. "process" \in cancelled' <=> "process" \in cancelled
    BY AttemptKeeps
  <1> USE DEF JobKnown
  <1>4. CASE SetBusy \/ MakeDir \/ Join \/ Download \/ DownloadFails
    BY <1>2, <1>3, <1>4 DEF SetBusy, MakeDir, Join, Proceed, GiveUp, Download, DownloadFails
  <1>5. CASE CompleteJob \/ CompleteFails \/ Cleanup
    BY <1>2, <1>3, <1>5 DEF CompleteJob, CompleteFails, Cleanup
  <1>6. CASE HandleFailure
    BY <1>2, <1>3, <1>6 DEF HandleFailure, AfterFailure
  <1>7. CASE HandleFailureFails
    <2>1. clean' => "process" \in cancelled'
      BY <1>3, <1>7
    <2> QED BY <2>1, <1>7 DEF HandleFailureFails, AfterFailure
  <1>8. CASE SetIdle \/ CancelJob \/ WaitLease
    BY <1>2, <1>3, <1>8 DEF SetIdle, CancelJob, WaitLease
  <1>9. CASE \E t \in Outputs : \/ StartTask(t) \/ Transcoded(t) \/ Uploaded(t)
                                \/ TaskFails(t) \/ TaskStopped(t)
    BY <1>2, <1>3, <1>9 DEF StartTask, Transcoded, Uploaded, TaskFails, TaskStopped
  <1>10. CASE LeaseGone \/ RenewalError \/ LeaseEnds \/ ReaperTakes
    BY <1>2, <1>3, <1>10 DEF LeaseGone, RenewalError, LeaseEnds, ReaperTakes
  <1> QED BY <1>4, <1>5, <1>6, <1>7, <1>8, <1>9, <1>10 DEF AttemptStep, MainStep

LEMMA ProcessJobInv ==
    ASSUME WInv, ProcessJob
    PROVE  WInv'
  <1>1. JobKnown'
    BY AttemptSettles DEF WInv, ProcessJob
  <1>2. "process" \in cancelled' <=> "process" \in cancelled
    BY AttemptKeeps DEF WInv, ProcessJob
  <1>3. WPhases'
    BY <1>2 DEF WInv, WPhases, WTypes, WOpen, WBeats, WEntry, ProcessJob, Starting
  <1> QED BY <1>1, <1>3 DEF WInv

LEMMA PhasesKept ==
    ASSUME WPhases,
           "process" \in cancelled' <=> "process" \in cancelled,
           UNCHANGED <<pc, main, open, run, beat, entry>>
    PROVE  WPhases'
  <1>1. WTypes'
    BY DEF WPhases, WTypes
  <1>2. WOpen'
    BY DEF WPhases, WOpen, Starting
  <1>3. WBeats'
    BY DEF WPhases, WBeats
  <1>4. WEntry'
    BY DEF WPhases, WEntry
  <1> QED BY <1>1, <1>2, <1>3, <1>4 DEF WPhases

LEMMA WNextInv == WInv /\ [WNext]_wvars => WInv'
  <1> SUFFICES ASSUME WInv, [WNext]_wvars
               PROVE  WInv'
    OBVIOUS
  <1>1. CASE UNCHANGED wvars
    <2>1. JobKnown'
      <3>1. UNCHANGED avars
        BY <1>1 DEF wvars
      <3>2. clean' = clean
        BY <1>1 DEF wvars, pvars
      <3>3. clean' => clean
        BY <3>2, Zenon
      <3> QED BY <3>1, <3>3, JobKnownKept DEF WInv
    <2>2. WPhases'
      <3>1. UNCHANGED <<cancelled, pc, main, open, run, beat, entry>>
        BY <1>1 DEF wvars, pvars, avars
      <3>2. WPhases
        BY DEF WInv
      <3> QED BY <3>1, <3>2, PhasesKept
    <2> QED BY <2>1, <2>2 DEF WInv
  <1> QED BY <1>1, MainGoroutineInv, RunGoroutineInv, ProcessJobInv DEF WNext, Exited

LEMMA WInvHolds == WSpec => []WInv
  BY WInitInv, WNextInv, PTL DEF WSpec

\* The connections outlive their users and nothing outlives main.
THEOREM ClosedTheorem == WSpec => []ClosedLast
  <1>1. WInv => ClosedLast
    BY DEF WInv, WPhases, WTypes, WOpen, WBeats, WEntry, ClosedLast, InRun, Starting
  <1> QED BY WInvHolds, <1>1, PTL

\* Heartbeats and lease renewals go on while the worker drains.
THEOREM DrainTheorem == WSpec => []BeatsWhileDraining
  <1>1. WInv => BeatsWhileDraining
    BY DEF WInv, WPhases, WTypes, WOpen, WBeats, WEntry, JobKnown, BeatsWhileDraining, Live
  <1> QED BY WInvHolds, <1>1, PTL

\* A worker that drains in time, none of whose calls failed, leaves no job behind.
THEOREM SettledTheorem == WSpec => []CleanDrainSettles
  <1>1. WInv => CleanDrainSettles
    BY DEF WInv, WPhases, WTypes, WOpen, WBeats, WEntry, JobKnown, CleanDrainSettles
  <1> QED BY WInvHolds, <1>1, PTL
=============================================================================
