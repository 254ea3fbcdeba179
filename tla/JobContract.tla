----------------------------- MODULE JobContract -----------------------------
(***************************************************************************)
(* What the job store promises about each job, without saying who does it: *)
(* an accepted job waits until an attempt holds it; the attempt either     *)
(* finishes it, and its outputs become the visible ones, or gives it back  *)
(* at the price of one retry, or, with no retry left, buries it.  An       *)
(* attempt gets one verdict and is never used again.  JobLifecycle, with   *)
(* its processes, queue, leases and faults, implements this.               *)
(***************************************************************************)
EXTENDS Naturals

CONSTANTS Jobs, Attempts, None, MaxRetries

VARIABLES
    status,     \* of each job, as a client of the API sees it
    retries,    \* retries each job has used
    holder,     \* the attempt that holds each job, or None
    visible,    \* the attempt whose outputs are visible, or None
    spent       \* the attempts that have a verdict

cvars == <<status, retries, holder, visible, spent>>

CInit ==
    /\ status = [j \in Jobs |-> "none"]
    /\ retries = [j \in Jobs |-> 0]
    /\ holder = [j \in Jobs |-> None]
    /\ visible = [j \in Jobs |-> None]
    /\ spent = {}

Accept(j) ==
    /\ status[j] = "none"
    /\ status' = [status EXCEPT ![j] = "queued"]
    /\ UNCHANGED <<retries, holder, visible, spent>>

Begin(j, a) ==
    /\ status[j] = "queued"
    /\ a \notin spent
    /\ \A k \in Jobs : holder[k] # a
    /\ status' = [status EXCEPT ![j] = "processing"]
    /\ holder' = [holder EXCEPT ![j] = a]
    /\ UNCHANGED <<retries, visible, spent>>

\* The holder's verdict is spent and the job is free again.
Release(j) ==
    /\ status[j] = "processing"
    /\ holder[j] # None
    /\ spent' = spent \cup {holder[j]}
    /\ holder' = [holder EXCEPT ![j] = None]

Finish(j) ==
    /\ Release(j)
    /\ status' = [status EXCEPT ![j] = "completed"]
    /\ visible' = [visible EXCEPT ![j] = holder[j]]
    /\ UNCHANGED retries

GiveBack(j) ==
    /\ Release(j)
    /\ retries[j] < MaxRetries
    /\ retries' = [retries EXCEPT ![j] = @ + 1]
    /\ status' = [status EXCEPT ![j] = "queued"]
    /\ UNCHANGED visible

Bury(j) ==
    /\ Release(j)
    /\ retries[j] = MaxRetries
    /\ status' = [status EXCEPT ![j] = "dead"]
    /\ UNCHANGED <<retries, visible>>

CNext ==
    \E j \in Jobs :
        \/ Accept(j)
        \/ \E a \in Attempts : Begin(j, a)
        \/ Finish(j) \/ GiveBack(j) \/ Bury(j)

CSpec == CInit /\ [][CNext]_cvars
=============================================================================
