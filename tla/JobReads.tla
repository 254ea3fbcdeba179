------------------------------ MODULE JobReads ------------------------------
(***************************************************************************)
(* What a client of the API reads while jobs go on: getJob, whose answer   *)
(* is put together from two statements, getJobOutputs, which checks the    *)
(* job in one statement and reads its outputs in another, the statistics,  *)
(* collected by one goroutine per query, and the benchmark client, which   *)
(* polls getJob and draws its verdict.  The store is the job contract,     *)
(* which JobLifecycle implements; the durations a worker writes with each  *)
(* attempt are added.  A stream of statistics is one collection after      *)
(* another; one client has one request under way.                          *)
(***************************************************************************)
EXTENDS JobContract, FiniteSets

CONSTANT Queries        \* the goroutines of collectStats; "jobs" counts by status

ASSUME NoneNotAttempt == None \notin Attempts
ASSUME JobsAssumption == IsFiniteSet(Jobs)
ASSUME QueriesAssumption == "jobs" \in Queries
ASSUME RetriesAssumption == MaxRetries \in Nat

VARIABLES
    recorded,   \* attempts whose durations are written
    rpc,        \* the request: "idle", "row", "timings", "fetch", "outputs" or "collect"
    about,      \* the job it asks for
    got,        \* what the first statement of getJob returned
    reply,      \* the last reply about a job
    seen,       \* the last answer of getJob about each job
    pending,    \* queries of collectStats that have not ended
    stats,      \* what the others have written into stats
    failed,     \* one of them has failed
    event,      \* the last statistics sent
    verdict     \* of the benchmark client on each job

reads == <<rpc, about, got, reply, seen>>
collect == <<pending, stats, failed, event>>
rvars == <<cvars, recorded, reads, collect, verdict>>

Unread == [status |-> "none", retries |-> 0, outputs |-> None]
Nothing ==
    [status |-> "none", retries |-> 0, outputs |-> None, total |-> FALSE, durations |-> None,
     count |-> 0]
Awaited == [code |-> 0, outputs |-> None]

RInit ==
    /\ CInit
    /\ recorded = {}
    /\ rpc = "idle"
    /\ about \in Jobs
    /\ got = Unread
    /\ reply = Awaited
    /\ seen = [j \in Jobs |-> Nothing]
    /\ pending = {}
    /\ stats = [filled |-> {}, completed |-> 0]
    /\ failed = FALSE
    /\ event = [filled |-> Queries, completed |-> 0]
    /\ verdict = [j \in Jobs |-> "none"]

-----------------------------------------------------------------------------
(***************************************************************************)
(* The store.                                                              *)
(***************************************************************************)

\* recordAttemptDuration has no guard: an attempt that was given up writes too.
RecordDurations(a) ==
    /\ a \in spent \/ \E j \in Jobs : holder[j] = a
    /\ a \notin recorded
    /\ recorded' = recorded \cup {a}
    /\ UNCHANGED <<cvars, reads, collect, verdict>>

NewJob(j) ==
    /\ Accept(j)
    /\ UNCHANGED <<recorded, reads, collect, verdict>>

\* runJob writes the durations before it completes the job.
JobStep(j) ==
    /\ \/ \E a \in Attempts : Begin(j, a)
       \/ holder[j] \in recorded /\ Finish(j)
       \/ GiveBack(j)
       \/ Bury(j)
    /\ UNCHANGED <<recorded, reads, collect, verdict>>

-----------------------------------------------------------------------------
(***************************************************************************)
(* getJob and getJobOutputs.                                               *)
(***************************************************************************)

\* The rows of job_attempts: one for each retry charged, and the last one.
AttemptCount(j) ==
    retries[j] + (IF status[j] \in {"processing", "completed", "dead"} THEN 1 ELSE 0)

Ask(j) ==
    /\ rpc = "idle"
    /\ rpc' \in {"row", "fetch"}
    /\ about' = j
    /\ reply' = Awaited
    /\ UNCHANGED <<cvars, recorded, got, seen, collect, verdict>>

Reply(code, outputs) ==
    /\ rpc' = "idle"
    /\ got' = Unread
    /\ reply' = [code |-> code, outputs |-> outputs]

\* The first statement of fetchJobWithOutputs joins the job with its outputs.
FetchRow ==
    /\ rpc = "row"
    /\ IF status[about] = "none"
       THEN Reply(404, None)
       ELSE /\ rpc' = "timings"
            /\ got' = [status |-> status[about], retries |-> retries[about],
                       outputs |-> visible[about]]
            /\ UNCHANGED reply
    /\ UNCHANGED <<cvars, recorded, about, seen, collect, verdict>>

\* Mutant of Total: the time since the upload, from the moment the job is claimed.
TotalSoFar(j) == status[j] \in {"processing", "completed"}

Total(j) == status[j] = "completed"

\* Mutant of RowStatus: the second statement reads the status again.
StatusAgain == status[about]

RowStatus == got.status

\* The second one joins it with its completing attempt and counts its attempts.
Timed ==
    [status |-> RowStatus, retries |-> got.retries, outputs |-> got.outputs,
     total |-> Total(about),
     durations |-> IF visible[about] \in recorded THEN visible[about] ELSE None,
     count |-> AttemptCount(about)]

FetchTimings ==
    /\ rpc = "timings"
    /\ Reply(200, got.outputs)
    /\ seen' = [seen EXCEPT ![about] = Timed]
    /\ UNCHANGED <<cvars, recorded, about, collect, verdict>>

\* Mutant of NotYetCompleted: only a job at work is not yet completed.
StillProcessing(s) == s = "processing"

NotYetCompleted(s) == s # "completed"

FetchJob ==
    /\ rpc = "fetch"
    /\ \/ status[about] = "none" /\ Reply(404, None)
       \/ status[about] # "none" /\ NotYetCompleted(status[about]) /\ Reply(409, None)
       \/ status[about] # "none" /\ ~ NotYetCompleted(status[about])
            /\ rpc' = "outputs" /\ UNCHANGED <<got, reply>>
    /\ UNCHANGED <<cvars, recorded, about, seen, collect, verdict>>

FetchOutputs ==
    /\ rpc = "outputs"
    /\ Reply(200, visible[about])
    /\ UNCHANGED <<cvars, recorded, about, seen, collect, verdict>>

\* Any of the statements fails.
ReadFails ==
    /\ rpc \in {"row", "timings", "fetch", "outputs"}
    /\ Reply(500, None)
    /\ UNCHANGED <<cvars, recorded, about, seen, collect, verdict>>

-----------------------------------------------------------------------------
(***************************************************************************)
(* collectStats, for getStats, metrics and each event of streamStats.      *)
(***************************************************************************)

StartCollect ==
    /\ rpc = "idle"
    /\ rpc' = "collect"
    /\ pending' = Queries
    /\ stats' = [filled |-> {}, completed |-> 0]
    /\ failed' = FALSE
    /\ UNCHANGED <<cvars, recorded, about, got, reply, seen, event, verdict>>

QueryDone(q) ==
    /\ q \in pending
    /\ pending' = pending \ {q}
    /\ stats' = [filled |-> stats.filled \cup {q},
                 completed |-> IF q = "jobs"
                               THEN Cardinality({j \in Jobs : status[j] = "completed"})
                               ELSE stats.completed]
    /\ UNCHANGED <<cvars, recorded, reads, failed, event, verdict>>

\* A query fails, or the group's context is cancelled after another one failed.
QueryFails(q) ==
    /\ q \in pending
    /\ pending' = pending \ {q}
    /\ failed' = TRUE
    /\ UNCHANGED <<cvars, recorded, reads, stats, event, verdict>>

\* Mutant of Waited: stats is copied before Wait returns.
NotWaited == TRUE

\* The build at hand evaluates group.Wait() before it copies stats; the language does
\* not say so.
Waited == pending = {}

\* The statistics are sent; after an error they are not, and a stream ends.
Collected ==
    /\ rpc = "collect"
    /\ Waited
    /\ rpc' = "idle"
    /\ event' = IF failed THEN event ELSE stats
    /\ pending' = {}
    /\ stats' = [filled |-> {}, completed |-> 0]
    /\ failed' = FALSE
    /\ UNCHANGED <<cvars, recorded, about, got, reply, seen, verdict>>

-----------------------------------------------------------------------------
(***************************************************************************)
(* waitForJob of the benchmark client.                                     *)
(***************************************************************************)

\* Mutant of Ended: a job with a total time has ended.
EndedByTotal(answer) == answer.total \/ answer.status = "dead"

Ended(answer) == answer.status \in {"completed", "dead"}

\* The outputs of a completed job are stored together, one of each type.
CompleteOutputSet(outputs) == outputs # None

\* A reply that is no answer (404, 500) has no status and is asked for again.
Conclude(j) ==
    /\ verdict[j] = "none"
    /\ Ended(seen[j])
    /\ verdict' = [verdict EXCEPT ![j] =
                     IF seen[j].status = "completed" /\ ~ CompleteOutputSet(seen[j].outputs)
                     THEN "failed" ELSE seen[j].status]
    /\ UNCHANGED <<cvars, recorded, reads, collect>>

Deadline(j) ==
    /\ verdict[j] = "none"
    /\ verdict' = [verdict EXCEPT ![j] = "timeout"]
    /\ UNCHANGED <<cvars, recorded, reads, collect>>

-----------------------------------------------------------------------------
ClientStep ==
    \/ \E j \in Jobs : Ask(j)
    \/ FetchRow \/ FetchTimings \/ FetchJob \/ FetchOutputs \/ ReadFails
    \/ StartCollect
    \/ \E q \in Queries : QueryDone(q) \/ QueryFails(q)
    \/ Collected
    \/ \E j \in Jobs : Conclude(j) \/ Deadline(j)

StoreStep ==
    \/ \E a \in Attempts : RecordDurations(a)
    \/ \E j \in Jobs : JobStep(j)

RNext == ClientStep \/ StoreStep \/ \E j \in Jobs : NewJob(j)

RSpec == RInit /\ [][RNext]_rvars

-----------------------------------------------------------------------------
\* Every answer of getJob, put together from two statements between which the job may
\* move on, is whole: a completed job comes with its outputs, its total time and the
\* durations of the very attempt that made the outputs, never those of a stale one; no
\* other job comes with outputs; and no attempt that the row tells of is missing from
\* the count.
AnswerIsWhole ==
    \A j \in Jobs :
        LET a == seen[j] IN
        /\ a.status = "completed" => a.outputs # None /\ a.total /\ a.durations = a.outputs
        /\ a.outputs # None => a.status = "completed"
        /\ a.count >= a.retries + (IF a.status \in {"processing", "completed", "dead"}
                                   THEN 1 ELSE 0)

Forward(a, b) ==
    /\ b.retries >= a.retries /\ b.count >= a.count
    /\ a.status = "completed" => b = a
    /\ a.status = "dead" => b.status = "dead" /\ b.count = a.count
    /\ a.total => b.status = "completed"

\* Answers to one client never go back: retries and attempts only grow, an end stays an
\* end, and an answer that shows a total time with a job still at work (the job completed
\* between the statements) is followed by the completed one.
ReadsMoveForward ==
    [][\A j \in Jobs : seen'[j] # seen[j] => Forward(seen[j], seen'[j])]_rvars

\* getJobOutputs answers with outputs, the same as getJob has shown; it never refuses or
\* fails to find a job that getJob has shown completed, though it asks anew.
OutputsAgree ==
    /\ reply.code = 404 => seen[about].status = "none"
    /\ reply.code = 409 => seen[about].status # "completed" /\ ~ seen[about].total
    /\ reply.code = 200 /\ seen[about].status = "completed" => reply.outputs = seen[about].outputs
    /\ rpc = "outputs" => visible[about] # None

\* Statistics are sent whole or not at all, and the number of completed jobs never falls
\* from one event to the next.
EventsMoveForward ==
    [][event'.filled = Queries /\ event'.completed >= event.completed]_rvars

\* The benchmark's verdict is the job's end, for good, and its check of the output set
\* never fails.
VerdictIsTrue ==
    \A j \in Jobs :
        /\ verdict[j] # "failed"
        /\ verdict[j] \notin {"none", "timeout"} => status[j] = verdict[j]
=============================================================================
