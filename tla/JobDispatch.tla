---------------------------- MODULE JobDispatch -----------------------------
(***************************************************************************)
(* The life of a job with the queue it really waits in: PriorityQueue      *)
(* joined with JobLifecycle, whose queue is the set of queued job ids.     *)
(* Each Enqueue of the API, of a worker and of a reaper, and each Pop, is  *)
(* one step of both.                                                       *)
(***************************************************************************)
EXTENDS PriorityQueue

CONSTANTS
    Workers, Reapers, Attempts, MaxRetries, MaxFaults,  \* as in JobLifecycle
    Priority        \* column jobs.priority: set by createQueuedJob, never updated

ASSUME ColumnAssumption == Priority \in [Jobs -> Priorities]

VARIABLES jobs, attempts, outputs, workers, api, proc, sweep, faults    \* as in JobLifecycle

J == INSTANCE JobLifecycle WITH queue <- members

dvars == <<jobs, attempts, outputs, workers, api, proc, sweep, faults, qvars>>

DInit == J!Init /\ QInit

\* Mutant of QueuePriority: a retry is enqueued in the lowest tier.
RetryInLowestTier(j) == IF jobs[j].retries = 0 THEN Priority[j] ELSE MinPriority

\* The priority given to Enqueue: the API's is the one it has just inserted, the worker's
\* and the reaper's come from the row.
QueuePriority(j) == Priority[j]

\* Everyone who calls Enqueue.  For a job that is queued already the script does nothing,
\* and the caller's step is one of Elsewhere.
PutInQueue(j) ==
    /\ \/ J!EnqueueNewJob(j)
       \/ \E w \in Workers : proc[w].job = j /\ J!EnqueueRetry(w)
       \/ \E r \in Reapers : sweep[r].job = j /\ (J!EnqueueRequeued(r) \/ J!RestoreEntry(r))
    /\ Enqueue(j, QueuePriority(j))

\* poll; the entry is gone also when the reply or fetchJob fails.
TakeFromQueue(w, j) ==
    /\ J!Poll(w, j) \/ J!PollLosesEntry(w, j)
    /\ Pop
    /\ popped' = j

\* poll gets redis.Nil, and Run sleeps.
FindNothing(w) ==
    /\ proc[w].pc = "poll"
    /\ PopNothing
    /\ UNCHANGED <<jobs, attempts, outputs, workers, api, proc, sweep, faults>>

LoseQueue == J!RedisLoses /\ LoseData

\* Every step that leaves the queue alone.
Elsewhere == J!Next /\ UNCHANGED qvars

DNext ==
    \/ \E j \in Jobs : PutInQueue(j)
    \/ \E w \in Workers, j \in Jobs : TakeFromQueue(w, j)
    \/ \E w \in Workers : FindNothing(w)
    \/ LoseQueue
    \/ Elsewhere

DSpec == DInit /\ [][DNext]_dvars

-----------------------------------------------------------------------------
\* Of two jobs in one tier, i is in front of k.
InFront(i, k) ==
    \E m, n \in DOMAIN lists[Priority[k]] :
        m < n /\ lists[Priority[k]][m] = i /\ lists[Priority[k]][n] = k

\* i is served before k as the queue stands.
ServedBefore(i, k) ==
    {i, k} \subseteq members /\ (Priority[i] > Priority[k] \/ InFront(i, k))

\* A worker takes the job that waits longest among those of the highest priority in the
\* queue, however often each was tried, requeued by a worker or a reaper, or restored.
BestFirst ==
    [][\A w \in Workers, j \in Jobs :
          TakeFromQueue(w, j) => \A i \in members \ {j} : ServedBefore(j, i)]_dvars

\* While a job waits, only jobs of a higher priority get in front of it: a retried or
\* restored job goes behind those that wait already.
OnlyHigherOvertake ==
    [][\A i, k \in members' : k \in members /\ ServedBefore(i, k)' =>
          ServedBefore(i, k) \/ Priority[i] > Priority[k]]_dvars
=============================================================================
