------------------------- MODULE JobDispatchProofs -------------------------
(***************************************************************************)
(* Proofs about JobDispatch, for any jobs, workers, reapers, priorities,   *)
(* retries and faults.                                                     *)
(***************************************************************************)
EXTENDS JobDispatch, PriorityQueueProofs

\* Every step of the system is a script of the queue or leaves it alone.
LEMMA StepOfQueue == [DNext]_dvars => [QNext]_qvars
  <1> SUFFICES ASSUME DNext PROVE [QNext]_qvars
    BY DEF dvars
  <1>1. ASSUME NEW j \in Jobs, PutInQueue(j)
        PROVE  QNext
    <2>1. Priority[j] \in MinPriority - 1 .. MaxPriority + 1
      BY ColumnAssumption, PriorityAssumption DEF Priorities
    <2> QED BY <1>1, <2>1 DEF PutInQueue, QueuePriority, QNext
  <1>2. ASSUME NEW w \in Workers, NEW j \in Jobs, TakeFromQueue(w, j)
        PROVE  QNext
    BY <1>2 DEF TakeFromQueue, QNext
  <1>3. ASSUME NEW w \in Workers, FindNothing(w)
        PROVE  QNext
    BY <1>3 DEF FindNothing, QNext
  <1>4. CASE LoseQueue
    BY <1>4 DEF LoseQueue, QNext
  <1>5. CASE Elsewhere
    BY <1>5 DEF Elsewhere
  <1> QED BY <1>1, <1>2, <1>3, <1>4, <1>5 DEF DNext

\* Whatever the processes do, the keys in Redis are those of a priority queue: its
\* indexes agree, and to its callers it is one line.
THEOREM DispatchUsesQueue == DSpec => QSpec /\ ImplementsLine
  <1>1. DInit => QInit
    BY DEF DInit
  <1>2. DSpec => QSpec
    BY <1>1, StepOfQueue, PTL DEF DSpec, QSpec
  <1> QED BY <1>2, LineTheorem, PTL

\* With the real queue in the place of the set, the processes still behave as
\* JobLifecycle says.
THEOREM DispatchLifecycle == DSpec => J!Spec
  <1>1. DInit => J!Init
    BY DEF DInit
  <1>2. [DNext]_dvars => [J!Next]_(J!vars)
    <2> SUFFICES ASSUME DNext PROVE [J!Next]_(J!vars)
      BY DEF dvars, qvars, J!vars
    <2>1. ASSUME NEW j \in Jobs, PutInQueue(j)
          PROVE  J!Next
      BY <2>1 DEF PutInQueue, J!Next, J!ApiNext, J!WorkerNext, J!WorkerStep, J!SweepStep
    <2>2. ASSUME NEW w \in Workers, NEW j \in Jobs, TakeFromQueue(w, j)
          PROVE  J!Next
      BY <2>2 DEF TakeFromQueue, J!Next, J!WorkerNext, J!WorkerStep, J!WorkerFault
    <2>3. ASSUME NEW w \in Workers, FindNothing(w)
          PROVE  UNCHANGED J!vars
      BY <2>3 DEF FindNothing, PopNothing, J!vars
    <2>4. CASE LoseQueue
      BY <2>4 DEF LoseQueue, J!Next, J!Environment
    <2>5. CASE Elsewhere
      BY <2>5 DEF Elsewhere
    <2> QED BY <2>1, <2>2, <2>3, <2>4, <2>5 DEF DNext
  <1> QED BY <1>1, <1>2, PTL DEF DSpec, J!Spec

-----------------------------------------------------------------------------
\* Every entry waits in the tier of its job's priority.
TierIsPriority ==
    \A p \in Priorities : \A i \in DOMAIN lists[p] : Priority[lists[p][i]] = p

DInv == QInv /\ TierIsPriority

LEMMA DInitInv == DInit => DInv
  <1> SUFFICES ASSUME QInit PROVE DInv
    BY DEF DInit
  <1>1. \A p \in Priorities : lists[p] = <<>>
    BY DEF QInit
  <1> QED BY <1>1, QInitInv DEF DInv, TierIsPriority

\* What RPUSH and LPOP do to the lists of the tiers.
LEMMA PushedLists ==
    ASSUME QInv, NEW j \in Jobs, NEW p \in Priorities, Enqueue(j, p)
    PROVE  /\ j \notin members /\ members' = members \cup {j}
           /\ \A q \in Priorities \ {p} : lists'[q] = lists[q]
           /\ Len(lists[p]) \in Nat
           /\ DOMAIN lists[p] = 1 .. Len(lists[p])
           /\ DOMAIN lists'[p] = 1 .. Len(lists[p]) + 1
           /\ lists'[p][Len(lists[p]) + 1] = j
           /\ \A i \in DOMAIN lists[p] : lists'[p][i] = lists[p][i]
  <1>1. lists \in [Priorities -> Seq(Jobs)] /\ lists[p] \in Seq(Jobs)
    BY DEF QInv, QTypeOK
  <1>2. /\ j \notin members
        /\ members' = members \cup {j}
        /\ lists' = [lists EXCEPT ![p] = Append(lists[p], j)]
    BY DEF Enqueue, EnqueueScript
  <1>3. /\ lists'[p] = Append(lists[p], j)
        /\ \A q \in Priorities \ {p} : lists'[q] = lists[q]
    BY <1>1, <1>2
  <1> QED BY <1>1, <1>2, <1>3

LEMMA PoppedLists ==
    ASSUME QInv, NEW t \in tiers, PopTop(t)
    PROVE  /\ t \in Priorities
           /\ \A q \in Priorities : lists[q] # <<>> => q <= t
           /\ \A q \in Priorities \ {t} : lists'[q] = lists[q]
           /\ Len(lists[t]) \in Nat \ {0}
           /\ DOMAIN lists[t] = 1 .. Len(lists[t])
           /\ popped' = lists[t][1]
           /\ members' = members \ {lists[t][1]}
           /\ DOMAIN lists'[t] = 1 .. Len(lists[t]) - 1
           /\ \A i \in 1 .. Len(lists[t]) - 1 : lists'[t][i] = lists[t][i + 1]
  <1>1. /\ t \in Priorities /\ lists[t] # <<>> /\ lists[t] \in Seq(Jobs)
        /\ lists \in [Priorities -> Seq(Jobs)]
    BY DEF QInv, QTypeOK, IndexesAgree
  <1>2. \A q \in Priorities : lists[q] # <<>> => q <= t
    BY DEF QInv, IndexesAgree, PopTop
  <1>3. /\ popped' = Head(lists[t])
        /\ lists' = [lists EXCEPT ![t] = Tail(lists[t])]
        /\ members' = members \ {Head(lists[t])}
    BY <1>1 DEF PopTop
  <1>4. lists'[t] = Tail(lists[t]) /\ \A q \in Priorities \ {t} : lists'[q] = lists[q]
    BY <1>1, <1>3
  <1>5. Head(lists[t]) = lists[t][1] /\ DOMAIN lists[t] = 1 .. Len(lists[t])
    BY <1>1
  <1> QED BY <1>1, <1>2, <1>3, <1>4, <1>5, TailFacts

LEMMA TierStep ==
    ASSUME DInv, [DNext]_dvars
    PROVE  TierIsPriority'
  <1>0. QInv /\ TierIsPriority
    BY DEF DInv
  <1>1. ASSUME NEW j \in Jobs, PutInQueue(j)
        PROVE  TierIsPriority'
    <2>1. Priority[j] \in Priorities /\ Enqueue(j, Priority[j])
      BY <1>1, ColumnAssumption DEF PutInQueue, QueuePriority
    <2> DEFINE p == Priority[j]
    <2>2. /\ \A q \in Priorities \ {p} : lists'[q] = lists[q]
          /\ Len(lists[p]) \in Nat
          /\ DOMAIN lists[p] = 1 .. Len(lists[p])
          /\ DOMAIN lists'[p] = 1 .. Len(lists[p]) + 1
          /\ lists'[p][Len(lists[p]) + 1] = j
          /\ \A i \in DOMAIN lists[p] : lists'[p][i] = lists[p][i]
      BY <1>0, <2>1, PushedLists
    <2> SUFFICES ASSUME NEW q \in Priorities, NEW i \in DOMAIN lists'[q]
                 PROVE  Priority[lists'[q][i]] = q
      BY DEF TierIsPriority
    <2>3. CASE q = p /\ i = Len(lists[p]) + 1
      BY <2>2, <2>3
    <2>4. CASE ~ (q = p /\ i = Len(lists[p]) + 1)
      <3>1. i \in DOMAIN lists[q] /\ lists'[q][i] = lists[q][i]
        BY <2>2, <2>4
      <3> QED BY <1>0, <3>1 DEF TierIsPriority
    <2> QED BY <2>3, <2>4
  <1>2. ASSUME NEW t \in tiers, PopTop(t)
        PROVE  TierIsPriority'
    <2>1. /\ t \in Priorities
          /\ \A q \in Priorities \ {t} : lists'[q] = lists[q]
          /\ Len(lists[t]) \in Nat \ {0}
          /\ DOMAIN lists[t] = 1 .. Len(lists[t])
          /\ DOMAIN lists'[t] = 1 .. Len(lists[t]) - 1
          /\ \A i \in 1 .. Len(lists[t]) - 1 : lists'[t][i] = lists[t][i + 1]
      BY <1>0, <1>2, PoppedLists
    <2> SUFFICES ASSUME NEW q \in Priorities, NEW i \in DOMAIN lists'[q]
                 PROVE  Priority[lists'[q][i]] = q
      BY DEF TierIsPriority
    <2>2. \E k \in DOMAIN lists[q] : lists'[q][i] = lists[q][k]
      <3>1. CASE q = t
        <4>1. i + 1 \in DOMAIN lists[t] /\ lists'[t][i] = lists[t][i + 1]
          BY <2>1, <3>1
        <4> QED BY <3>1, <4>1
      <3>2. CASE q # t
        BY <2>1, <3>2
      <3> QED BY <3>1, <3>2
    <2> QED BY <1>0, <2>2 DEF TierIsPriority
  <1>3. CASE LoseData
    BY <1>3 DEF LoseData, TierIsPriority
  <1>4. CASE UNCHANGED lists
    BY <1>0, <1>4 DEF TierIsPriority
  <1>5. \/ \E j \in Jobs : PutInQueue(j)
        \/ \E t \in tiers : PopTop(t)
        \/ LoseData
        \/ UNCHANGED lists
    BY DEF DNext, TakeFromQueue, Pop, FindNothing, PopNothing, LoseQueue, Elsewhere, qvars, dvars
  <1> QED BY <1>1, <1>2, <1>3, <1>4, <1>5

LEMMA DInvHolds == DSpec => []DInv
  <1>1. DInv /\ [DNext]_dvars => DInv'
    BY StepOfQueue, QNextInv, TierStep DEF DInv
  <1> QED BY DInitInv, <1>1, PTL DEF DSpec

\* A queued job has an entry in the tier of its priority.
LEMMA EntryOf ==
    ASSUME DInv, NEW k \in members
    PROVE  /\ k \in Jobs /\ Priority[k] \in Priorities
           /\ \E n \in DOMAIN lists[Priority[k]] : lists[Priority[k]][n] = k
  <1>1. PICK p \in Priorities : \E n \in DOMAIN lists[p] : lists[p][n] = k
    BY DEF DInv, QInv, IndexesAgree
  <1>2. PICK n \in DOMAIN lists[p] : lists[p][n] = k
    BY <1>1
  <1>3. Priority[k] = p
    BY <1>2 DEF DInv, TierIsPriority
  <1>4. k \in Jobs
    BY DEF DInv, QInv, QTypeOK
  <1> QED BY <1>2, <1>3, <1>4

\* A worker takes the first job of the highest tier, which is the tier of its priority.
THEOREM BestFirstTheorem == DSpec => BestFirst
  <1>1. ASSUME DInv, NEW w \in Workers, NEW j \in Jobs, TakeFromQueue(w, j),
               NEW i \in members \ {j}
        PROVE  ServedBefore(j, i)
    <2>1. PICK t \in tiers : PopTop(t)
      BY <1>1 DEF TakeFromQueue, Pop
    <2>2. QInv /\ TierIsPriority
      BY <1>1 DEF DInv
    <2>3. /\ t \in Priorities
          /\ \A q \in Priorities : lists[q] # <<>> => q <= t
          /\ Len(lists[t]) \in Nat \ {0}
          /\ DOMAIN lists[t] = 1 .. Len(lists[t])
          /\ popped' = lists[t][1]
      BY <2>1, <2>2, PoppedLists
    <2>4. 1 \in DOMAIN lists[t] /\ lists[t][1] = j
      BY <1>1, <2>3 DEF TakeFromQueue
    <2>5. Priority[j] = t /\ j \in members
      BY <2>2, <2>3, <2>4 DEF TierIsPriority, QInv, IndexesAgree
    <2>6. PICK n \in DOMAIN lists[Priority[i]] : lists[Priority[i]][n] = i
      BY <1>1, EntryOf
    <2>7. Priority[i] \in Priorities /\ Priority[i] \in Int /\ t \in Int
      BY <1>1, <2>3, EntryOf, PriorityAssumption DEF Priorities
    <2>8. lists[Priority[i]] # <<>>
      BY <2>2, <2>6, <2>7 DEF QInv, QTypeOK
    <2>9. Priority[i] <= t
      BY <2>3, <2>7, <2>8
    <2>10. CASE Priority[i] = t
      <3>1. n \in 1 .. Len(lists[t]) /\ n # 1
        BY <2>3, <2>4, <2>6, <2>10
      <3>2. 1 < n
        BY <2>3, <3>1
      <3>3. InFront(j, i)
        BY <2>4, <2>6, <2>10, <3>2 DEF InFront
      <3> QED BY <2>5, <3>3 DEF ServedBefore
    <2>11. CASE Priority[i] # t
      <3>1. Priority[j] > Priority[i]
        BY <2>5, <2>7, <2>9, <2>11
      <3> QED BY <2>5, <3>1 DEF ServedBefore
    <2> QED BY <2>10, <2>11
  <1>2. DInv /\ [DNext]_dvars =>
          [\A w \in Workers, j \in Jobs :
              TakeFromQueue(w, j) => \A i \in members \ {j} : ServedBefore(j, i)]_dvars
    BY <1>1
  <1> QED BY DInvHolds, <1>2, PTL DEF DSpec, BestFirst

\* RPUSH puts a job behind its tier, and LPOP keeps the order of the others.
THEOREM OvertakeTheorem == DSpec => OnlyHigherOvertake
  <1>1. ASSUME DInv, [DNext]_dvars, NEW i \in members', NEW k \in members', k \in members,
               ServedBefore(i, k)', ~ (Priority[i] > Priority[k])
        PROVE  ServedBefore(i, k)
    <2> DEFINE p == Priority[k]
    <2>0. QInv /\ TierIsPriority /\ k \in Jobs /\ p \in Priorities
      BY <1>1, EntryOf DEF DInv
    <2>1. InFront(i, k)'
      BY <1>1 DEF ServedBefore
    <2>2. PICK m \in DOMAIN lists'[p], n \in DOMAIN lists'[p] :
            m < n /\ lists'[p][m] = i /\ lists'[p][n] = k
      BY <2>1 DEF InFront
    <2>3. ASSUME NEW u \in DOMAIN lists[p], NEW v \in DOMAIN lists[p], u < v,
                 lists[p][u] = i, lists[p][v] = k
          PROVE  ServedBefore(i, k)
      <3>1. InFront(i, k)
        BY <2>3 DEF InFront
      <3>2. i \in members
        BY <2>0, <2>3 DEF QInv, IndexesAgree
      <3> QED BY <1>1, <3>1, <3>2 DEF ServedBefore
    <2>4. CASE UNCHANGED lists
      BY <2>2, <2>3, <2>4
    <2>5. CASE LoseData
      BY <1>1, <2>5 DEF LoseData
    <2>6. ASSUME NEW j \in Jobs, PutInQueue(j)
          PROVE  ServedBefore(i, k)
      <3>1. Priority[j] \in Priorities /\ Enqueue(j, Priority[j])
        BY <2>6, ColumnAssumption DEF PutInQueue, QueuePriority
      <3> DEFINE q == Priority[j]
      <3>2. /\ j \notin members
            /\ \A x \in Priorities \ {q} : lists'[x] = lists[x]
            /\ Len(lists[q]) \in Nat
            /\ DOMAIN lists[q] = 1 .. Len(lists[q])
            /\ DOMAIN lists'[q] = 1 .. Len(lists[q]) + 1
            /\ lists'[q][Len(lists[q]) + 1] = j
            /\ \A x \in DOMAIN lists[q] : lists'[q][x] = lists[q][x]
        BY <2>0, <3>1, PushedLists
      <3>3. CASE p # q
        BY <2>0, <2>2, <2>3, <3>2, <3>3
      <3>4. CASE p = q
        <4>1. n # Len(lists[p]) + 1
          BY <1>1, <2>2, <3>2, <3>4
        <4>2. n \in DOMAIN lists[p] /\ m \in DOMAIN lists[p]
          BY <2>2, <3>2, <3>4, <4>1
        <4> QED BY <2>2, <2>3, <3>2, <3>4, <4>2
      <3> QED BY <3>3, <3>4
    <2>7. ASSUME NEW t \in tiers, PopTop(t)
          PROVE  ServedBefore(i, k)
      <3>1. /\ t \in Priorities
            /\ \A x \in Priorities \ {t} : lists'[x] = lists[x]
            /\ Len(lists[t]) \in Nat \ {0}
            /\ DOMAIN lists[t] = 1 .. Len(lists[t])
            /\ DOMAIN lists'[t] = 1 .. Len(lists[t]) - 1
            /\ \A x \in 1 .. Len(lists[t]) - 1 : lists'[t][x] = lists[t][x + 1]
        BY <2>0, <2>7, PoppedLists
      <3>2. CASE p # t
        BY <2>0, <2>2, <2>3, <3>1, <3>2
      <3>3. CASE p = t
        <4>1. /\ m + 1 \in DOMAIN lists[p] /\ n + 1 \in DOMAIN lists[p]
              /\ m + 1 < n + 1
          BY <2>2, <3>1, <3>3
        <4>2. lists[p][m + 1] = i /\ lists[p][n + 1] = k
          BY <2>2, <3>1, <3>3
        <4> QED BY <2>3, <4>1, <4>2
      <3> QED BY <3>2, <3>3
    <2>8. \/ \E j \in Jobs : PutInQueue(j)
          \/ \E t \in tiers : PopTop(t)
          \/ LoseData
          \/ UNCHANGED lists
      BY <1>1 DEF DNext, TakeFromQueue, Pop, FindNothing, PopNothing, LoseQueue, Elsewhere,
                  qvars, dvars
    <2> QED BY <2>4, <2>5, <2>6, <2>7, <2>8
  <1>2. DInv /\ [DNext]_dvars =>
          [\A i, k \in members' : k \in members /\ ServedBefore(i, k)' =>
              ServedBefore(i, k) \/ Priority[i] > Priority[k]]_dvars
    BY <1>1
  <1> QED BY DInvHolds, <1>2, PTL DEF DSpec, OnlyHigherOvertake
=============================================================================
