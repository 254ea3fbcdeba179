---------------------------- MODULE PriorityQueue ----------------------------
(***************************************************************************)
(* pkg/queue: the job queue in Redis.  Three kinds of key hold it: a       *)
(* sorted set of the priorities in use, one list of job ids for each       *)
(* priority, and the set of all queued job ids.  Redis runs a script       *)
(* without interleaving, so each script is one step.                       *)
(***************************************************************************)
EXTENDS Integers, Sequences, FiniteSets

CONSTANTS
    Jobs,
    MinPriority, MaxPriority,
    None            \* redis.Nil

ASSUME PriorityAssumption ==
    MinPriority \in Int /\ MaxPriority \in Int /\ MinPriority <= MaxPriority
ASSUME NoneNotJob == None \notin Jobs

Priorities == MinPriority .. MaxPriority

VARIABLES
    tiers,      \* sorted set job_queue:priorities
    lists,      \* lists job_queue:priority:<p>; a list that is <<>> has no key
    members,    \* set queued_jobs
    popped      \* what the last Pop returned

qvars == <<tiers, lists, members, popped>>

QInit ==
    /\ tiers = {}
    /\ lists = [p \in Priorities |-> <<>>]
    /\ members = {}
    /\ popped = None

\* Mutant of ValidatePriority: no bounds.
AnyPriority(p) == TRUE

\* ValidatePriority: nothing outside the bounds reaches Redis.
ValidatePriority(p) == MinPriority <= p /\ p <= MaxPriority

\* Mutant of EnqueueScript: LPUSH instead of RPUSH.
PushInFront(j, p) ==
    /\ j \notin members
    /\ members' = members \cup {j}
    /\ lists' = [lists EXCEPT ![p] = <<j>> \o @]
    /\ tiers' = tiers \cup {p}

\* enqueueScript, when SADD added the job (otherwise it does nothing).
EnqueueScript(j, p) ==
    /\ j \notin members
    /\ members' = members \cup {j}
    /\ lists' = [lists EXCEPT ![p] = Append(@, j)]
    /\ tiers' = tiers \cup {p}

Enqueue(j, p) ==
    /\ ValidatePriority(p)
    /\ EnqueueScript(j, p)
    /\ UNCHANGED popped

\* Mutant of PopTop: the tier is kept when its list becomes empty.
PopTopKeepsTier(t) ==
    /\ \A u \in tiers : u <= t
    /\ IF lists[t] = <<>>
       THEN /\ tiers' = tiers \ {t}
            /\ popped' = None
            /\ UNCHANGED <<lists, members>>
       ELSE /\ popped' = Head(lists[t])
            /\ lists' = [lists EXCEPT ![t] = Tail(@)]
            /\ members' = members \ {Head(lists[t])}
            /\ UNCHANGED tiers

\* popScript for the highest tier t: LPOP its list; a tier without a list is
\* dropped and nothing returned; a tier whose list becomes empty is dropped.
PopTop(t) ==
    /\ \A u \in tiers : u <= t
    /\ IF lists[t] = <<>>
       THEN /\ tiers' = tiers \ {t}
            /\ popped' = None
            /\ UNCHANGED <<lists, members>>
       ELSE /\ popped' = Head(lists[t])
            /\ lists' = [lists EXCEPT ![t] = Tail(@)]
            /\ members' = members \ {Head(lists[t])}
            /\ tiers' = IF Len(lists[t]) = 1 THEN tiers \ {t} ELSE tiers

Pop == \E t \in tiers : PopTop(t)

\* ZREVRANGE finds no tier: Pop returns redis.Nil.
PopNothing ==
    /\ tiers = {}
    /\ popped' = None
    /\ UNCHANGED <<tiers, lists, members>>

\* Redis restarts without its data.
LoseData ==
    /\ tiers' = {}
    /\ lists' = [p \in Priorities |-> <<>>]
    /\ members' = {}
    /\ UNCHANGED popped

\* Callers may ask for any priority; one beyond each bound is enough to matter.
QNext ==
    \/ \E j \in Jobs, p \in MinPriority - 1 .. MaxPriority + 1 : Enqueue(j, p)
    \/ Pop
    \/ PopNothing
    \/ LoseData

QSpec == QInit /\ [][QNext]_qvars

-----------------------------------------------------------------------------
\* The keys and the last reply have their types; no tier is out of bounds.
QTypeOK ==
    /\ tiers \in SUBSET Priorities
    /\ lists \in [Priorities -> Seq(Jobs)]
    /\ members \in SUBSET Jobs
    /\ popped \in Jobs \cup {None}

\* The three kinds of key agree after every script: the tiers are those with a
\* list, so popScript never meets a tier without one; the set holds exactly the
\* listed jobs, so that Enqueue and the reaper's membership test can trust it; and
\* no job is listed twice, in one tier or in two.
IndexesAgree ==
    /\ tiers = {p \in Priorities : lists[p] # <<>>}
    /\ \A p \in Priorities : \A i \in DOMAIN lists[p] : lists[p][i] \in members
    /\ \A j \in members : \E p \in Priorities : \E i \in DOMAIN lists[p] : lists[p][i] = j
    /\ \A p, q \in Priorities : \A i \in DOMAIN lists[p], k \in DOMAIN lists[q] :
         lists[p][i] = lists[q][k] => p = q /\ i = k

\* The entries of the lists ls as slots <<priority, index>>, and the order of service:
\* the higher tier first, the lower index within a tier.
Slots(ls) == UNION {{p} \X DOMAIN ls[p] : p \in Priorities}
Before(s, u) == s[1] > u[1] \/ (s[1] = u[1] /\ s[2] < u[2])

\* The place of a slot among the slots S: one more than the number of those before it.
Place(S, s) == Cardinality({u \in S : Before(u, s)}) + 1
SlotAt(S, n) == CHOOSE s \in S : Place(S, s) = n

\* All entries <<job, priority>> in the order of service.
EntryIn(ls, s) == <<ls[s[1]][s[2]], s[1]>>
ServiceOrder(ls) == [n \in 1 .. Cardinality(Slots(ls)) |-> EntryIn(ls, SlotAt(Slots(ls), n))]

Line == INSTANCE PriorityLine WITH line <- ServiceOrder(lists)

\* To its callers the queue is one line in order of priority, then of arrival.
ImplementsLine == Line!LSpec
=============================================================================
