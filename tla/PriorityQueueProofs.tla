------------------------- MODULE PriorityQueueProofs -------------------------
(***************************************************************************)
(* Proofs about PriorityQueue, for any jobs and any priority bounds.       *)
(***************************************************************************)
EXTENDS PriorityQueue, SequenceTheorems, FiniteSetTheorems, TLAPS

QInv == QTypeOK /\ IndexesAgree

LEMMA QInitInv == QInit => QInv
  BY PriorityAssumption DEF QInit, QInv, QTypeOK, IndexesAgree, Priorities

LEMMA EnqueueInv ==
    ASSUME QInv, NEW j \in Jobs, NEW p \in MinPriority - 1 .. MaxPriority + 1, Enqueue(j, p)
    PROVE  QInv'
  <1>1. p \in Priorities
    BY PriorityAssumption DEF Enqueue, ValidatePriority, Priorities
  <1>2. lists \in [Priorities -> Seq(Jobs)] /\ lists[p] \in Seq(Jobs)
    BY <1>1 DEF QInv, QTypeOK
  <1>3. /\ j \notin members
        /\ members' = members \cup {j}
        /\ lists' = [lists EXCEPT ![p] = Append(lists[p], j)]
        /\ tiers' = tiers \cup {p}
        /\ popped' = popped
    BY DEF Enqueue, EnqueueScript
  <1>4. QTypeOK'
    BY <1>1, <1>2, <1>3 DEF QInv, QTypeOK
  <1>5. /\ lists'[p] = Append(lists[p], j)
        /\ \A q \in Priorities \ {p} : lists'[q] = lists[q]
    BY <1>1, <1>2, <1>3
  <1>6. /\ DOMAIN lists'[p] = 1 .. Len(lists[p]) + 1
        /\ DOMAIN lists[p] = 1 .. Len(lists[p])
        /\ Len(lists[p]) \in Nat
        /\ lists'[p][Len(lists[p]) + 1] = j
        /\ \A i \in DOMAIN lists[p] : lists'[p][i] = lists[p][i]
        /\ lists'[p] # <<>>
    BY <1>2, <1>5
  <1>7. (tiers = {q \in Priorities : lists[q] # <<>>})'
    BY <1>1, <1>3, <1>5, <1>6 DEF QInv, IndexesAgree
  <1>8. \A q \in Priorities : \A i \in DOMAIN lists'[q] :
          \/ q = p /\ i = Len(lists[p]) + 1 /\ lists'[q][i] = j
          \/ i \in DOMAIN lists[q] /\ lists'[q][i] = lists[q][i]
    BY <1>1, <1>5, <1>6
  <1>9. \A q \in Priorities : \A i \in DOMAIN lists'[q] : lists'[q][i] \in members'
    BY <1>3, <1>8 DEF QInv, IndexesAgree
  <1>10. \A k \in members' : \E q \in Priorities : \E i \in DOMAIN lists'[q] : lists'[q][i] = k
    <2> SUFFICES ASSUME NEW k \in members'
                 PROVE  \E q \in Priorities : \E i \in DOMAIN lists'[q] : lists'[q][i] = k
      OBVIOUS
    <2>1. CASE k = j
      BY <1>1, <1>6, <2>1
    <2>2. CASE k # j
      <3>0. PICK q \in Priorities : \E i \in DOMAIN lists[q] : lists[q][i] = k
        BY <1>3, <2>2 DEF QInv, IndexesAgree
      <3>1. PICK i \in DOMAIN lists[q] : lists[q][i] = k
        BY <3>0
      <3>2. i \in DOMAIN lists'[q] /\ lists'[q][i] = k
        BY <1>5, <1>6, <3>1
      <3> QED BY <3>2
    <2> QED BY <2>1, <2>2
  <1>11. \A q, t \in Priorities : \A i \in DOMAIN lists'[q], k \in DOMAIN lists'[t] :
           lists'[q][i] = lists'[t][k] => q = t /\ i = k
    BY <1>3, <1>8 DEF QInv, IndexesAgree
  <1> QED BY <1>4, <1>7, <1>9, <1>10, <1>11 DEF QInv, IndexesAgree

\* What LPOP leaves of a list.
LEMMA TailFacts ==
    ASSUME NEW s \in Seq(Jobs), s # <<>>
    PROVE  /\ Len(s) \in Nat \ {0}
           /\ Tail(s) \in Seq(Jobs)
           /\ DOMAIN Tail(s) = 1 .. Len(s) - 1
           /\ \A i \in 1 .. Len(s) - 1 : Tail(s)[i] = s[i + 1]
           /\ Tail(s) = <<>> <=> Len(s) = 1
  <1>1. Len(s) \in Nat \ {0} /\ Tail(s) \in Seq(Jobs) /\ Len(Tail(s)) = Len(s) - 1
    OBVIOUS
  <1>2. DOMAIN Tail(s) = 1 .. Len(s) - 1
    BY <1>1
  <1>3. \A i \in 1 .. Len(s) - 1 : Tail(s)[i] = s[i + 1]
    OBVIOUS
  <1>4. Tail(s) = <<>> <=> Len(s) = 1
    <2>1. Len(<<>>) = 0 /\ (Tail(s) # <<>> => Len(Tail(s)) # 0)
      BY <1>1, EmptySeq
    <2>2. Tail(s) = <<>> => Len(Tail(s)) = 0
      BY <2>1, Zenon
    <2>3. Len(Tail(s)) = 0 <=> Len(s) = 1
      BY <1>1
    <2> QED BY <2>1, <2>2, <2>3, Zenon
  <1> QED BY <1>1, <1>2, <1>3, <1>4

LEMMA PopInv ==
    ASSUME QInv, NEW t \in tiers, PopTop(t)
    PROVE  QInv'
  <1>1. t \in Priorities /\ lists[t] # <<>> /\ lists[t] \in Seq(Jobs)
          /\ lists \in [Priorities -> Seq(Jobs)]
    BY DEF QInv, QTypeOK, IndexesAgree
  <1> DEFINE j == Head(lists[t])
  <1>2. /\ popped' = j
        /\ lists' = [lists EXCEPT ![t] = Tail(lists[t])]
        /\ members' = members \ {j}
        /\ tiers' = IF Len(lists[t]) = 1 THEN tiers \ {t} ELSE tiers
    BY <1>1 DEF PopTop
  <1>3. /\ Len(lists[t]) \in Nat \ {0}
        /\ DOMAIN lists[t] = 1 .. Len(lists[t])
        /\ j \in Jobs /\ j = lists[t][1]
        /\ Tail(lists[t]) \in Seq(Jobs)
    BY <1>1
  <1>4. /\ lists'[t] = Tail(lists[t])
        /\ \A q \in Priorities \ {t} : lists'[q] = lists[q]
    BY <1>1, <1>2
  <1>5. /\ DOMAIN lists'[t] = 1 .. Len(lists[t]) - 1
        /\ \A i \in 1 .. Len(lists[t]) - 1 : lists'[t][i] = lists[t][i + 1]
        /\ lists'[t] = <<>> <=> Len(lists[t]) = 1
    BY <1>1, <1>4, TailFacts
  <1> HIDE DEF j
  <1>6. QTypeOK'
    <2>1. lists' \in [Priorities -> Seq(Jobs)]
      BY <1>1, <1>2, <1>3
    <2>2. tiers' \in SUBSET Priorities /\ members' \in SUBSET Jobs /\ popped' \in Jobs
      BY <1>2, <1>3 DEF QInv, QTypeOK
    <2> QED BY <2>1, <2>2 DEF QTypeOK
  <1>7. (tiers = {q \in Priorities : lists[q] # <<>>})'
    BY <1>1, <1>2, <1>4, <1>5 DEF QInv, IndexesAgree
  <1>8. ASSUME NEW q \in Priorities, NEW i \in DOMAIN lists'[q]
        PROVE  \E k \in DOMAIN lists[q] : /\ k = (IF q = t THEN i + 1 ELSE i)
                                          /\ lists'[q][i] = lists[q][k]
                                          /\ q = t => k # 1
    <2>1. CASE q = t
      <3>1. i \in 1 .. Len(lists[t]) - 1
        BY <1>5, <2>1
      <3>2. i + 1 \in DOMAIN lists[t] /\ i + 1 # 1
        BY <1>3, <3>1
      <3>3. lists'[t][i] = lists[t][i + 1]
        BY <1>5, <3>1
      <3> QED BY <2>1, <3>2, <3>3
    <2>2. CASE q # t
      BY <1>4, <2>2
    <2> QED BY <2>1, <2>2
  <1>9. \A q \in Priorities : \A i \in DOMAIN lists'[q] : lists'[q][i] \in members'
    BY <1>1, <1>2, <1>3, <1>8 DEF QInv, IndexesAgree
  <1>10. \A k \in members' : \E q \in Priorities : \E i \in DOMAIN lists'[q] : lists'[q][i] = k
    <2> SUFFICES ASSUME NEW k \in members'
                 PROVE  \E q \in Priorities : \E i \in DOMAIN lists'[q] : lists'[q][i] = k
      OBVIOUS
    <2>0. PICK q \in Priorities : \E i \in DOMAIN lists[q] : lists[q][i] = k
      BY <1>2 DEF QInv, IndexesAgree
    <2>1. PICK i \in DOMAIN lists[q] : lists[q][i] = k
      BY <2>0
    <2>2. CASE q = t
      <3>1. i \in 2 .. Len(lists[t]) /\ i - 1 \in 1 .. Len(lists[t]) - 1
        BY <1>2, <1>3, <2>1, <2>2
      <3>2. lists'[t][i - 1] = k
        BY <1>5, <2>1, <2>2, <3>1
      <3> QED BY <1>1, <1>5, <3>1, <3>2
    <2>3. CASE q # t
      BY <1>4, <2>1, <2>3
    <2> QED BY <2>2, <2>3
  <1>11. \A q, u \in Priorities : \A i \in DOMAIN lists'[q], k \in DOMAIN lists'[u] :
           lists'[q][i] = lists'[u][k] => q = u /\ i = k
    <2> SUFFICES ASSUME NEW q \in Priorities, NEW u \in Priorities,
                        NEW i \in DOMAIN lists'[q], NEW k \in DOMAIN lists'[u],
                        lists'[q][i] = lists'[u][k]
                 PROVE  q = u /\ i = k
      OBVIOUS
    <2>1. PICK m \in DOMAIN lists[q] : m = (IF q = t THEN i + 1 ELSE i)
                                         /\ lists'[q][i] = lists[q][m]
      BY <1>8
    <2>2. PICK n \in DOMAIN lists[u] : n = (IF u = t THEN k + 1 ELSE k)
                                         /\ lists'[u][k] = lists[u][n]
      BY <1>8
    <2>3. q = u /\ m = n
      <3>1. lists[q][m] = lists[u][n]
        BY <2>1, <2>2
      <3> QED BY <3>1 DEF QInv, IndexesAgree
    <2>4. q = t => i \in Nat /\ k \in Nat
      BY <1>3, <1>5, <2>3
    <2> QED BY <2>1, <2>2, <2>3, <2>4
  <1> QED BY <1>6, <1>7, <1>9, <1>10, <1>11 DEF QInv, IndexesAgree

LEMMA QNextInv == QInv /\ [QNext]_qvars => QInv'
  <1> SUFFICES ASSUME QInv, [QNext]_qvars PROVE QInv'
    OBVIOUS
  <1>1. CASE Pop
    BY <1>1, PopInv DEF Pop
  <1>2. CASE PopNothing \/ UNCHANGED qvars
    BY <1>2 DEF PopNothing, qvars, QInv, QTypeOK, IndexesAgree
  <1>3. CASE LoseData
    BY <1>3, PriorityAssumption DEF LoseData, QInv, QTypeOK, IndexesAgree, Priorities
  <1> QED BY <1>1, <1>2, <1>3, EnqueueInv DEF QNext

\* The three indexes of the queue agree whatever is enqueued and popped.
THEOREM QueueTheorem == QSpec => [](QTypeOK /\ IndexesAgree)
  <1>1. QSpec => []QInv
    BY QInitInv, QNextInv, PTL DEF QSpec
  <1> QED BY <1>1, PTL DEF QInv

-----------------------------------------------------------------------------
(***************************************************************************)
(* The order of service: places in a finite set of slots.                  *)
(***************************************************************************)

\* The slots before a slot are finitely many of the others.
LEMMA SlotsBefore ==
    ASSUME NEW S \in SUBSET (Int \X Nat), IsFiniteSet(S), NEW s \in S
    PROVE  LET A == {u \in S : Before(u, s)}
           IN  /\ IsFiniteSet(A)
               /\ Cardinality(A) \in Nat
               /\ Cardinality(A) < Cardinality(S)
               /\ Cardinality(S) \in Nat
  <1> DEFINE A == {u \in S : Before(u, s)}
  <1>1. A \in SUBSET (S \ {s})
    BY DEF Before
  <1>2. IsFiniteSet(S \ {s}) /\ Cardinality(S \ {s}) = Cardinality(S) - 1
    BY FS_RemoveElement
  <1>3. IsFiniteSet(A) /\ Cardinality(A) <= Cardinality(S \ {s})
    BY <1>1, <1>2, FS_Subset
  <1>4. Cardinality(A) \in Nat /\ Cardinality(S) \in Nat
    BY <1>3, FS_CardinalityType
  <1> QED BY <1>2, <1>3, <1>4

LEMMA PlaceBounds ==
    ASSUME NEW S \in SUBSET (Int \X Nat), IsFiniteSet(S), NEW s \in S
    PROVE  Place(S, s) \in 1 .. Cardinality(S)
  BY SlotsBefore DEF Place

\* A slot that is served earlier has the smaller place.
LEMMA PlaceOrder ==
    ASSUME NEW S \in SUBSET (Int \X Nat), IsFiniteSet(S), NEW s \in S, NEW u \in S, Before(s, u)
    PROVE  Place(S, s) < Place(S, u)
  <1> DEFINE A == {x \in S : Before(x, s)}
             B == {x \in S : Before(x, u)}
  <1>1. IsFiniteSet(A) /\ IsFiniteSet(B) /\ Cardinality(A) \in Nat /\ Cardinality(B) \in Nat
    BY SlotsBefore
  <1>2. s \notin A
    BY DEF Before
  <1>3. A \cup {s} \in SUBSET B
    BY DEF Before
  <1>4. Cardinality(A \cup {s}) = Cardinality(A) + 1
    BY <1>1, <1>2, FS_AddElement
  <1>5. Cardinality(A \cup {s}) <= Cardinality(B)
    BY <1>1, <1>3, FS_Subset
  <1> QED BY <1>1, <1>4, <1>5 DEF Place

LEMMA PlaceInjective ==
    ASSUME NEW S \in SUBSET (Int \X Nat), IsFiniteSet(S), NEW s \in S, NEW u \in S,
           Place(S, s) = Place(S, u)
    PROVE  s = u
  <1>1. Place(S, s) \in Int /\ Place(S, u) \in Int
    BY PlaceBounds
  <1>2. ~ Before(s, u) /\ ~ Before(u, s)
    BY <1>1, PlaceOrder
  <1> QED BY <1>2 DEF Before

\* Every place up to the number of slots is taken.
LEMMA PlaceOnto ==
    ASSUME NEW S \in SUBSET (Int \X Nat), IsFiniteSet(S), NEW n \in 1 .. Cardinality(S)
    PROVE  \E s \in S : Place(S, s) = n
  <1> DEFINE N == Cardinality(S)
             f == [s \in S |-> Place(S, s)]
  <1>1. N \in Nat
    BY FS_CardinalityType
  <1>2. IsFiniteSet(1 .. N) /\ Cardinality(1 .. N) = N
    BY <1>1, FS_Interval
  <1>3. f \in Injection(S, 1 .. N)
    BY PlaceBounds, PlaceInjective DEF Injection, IsInjective
  <1>4. f \in Surjection(S, 1 .. N)
    BY <1>2, <1>3, FS_Injection
  <1> QED BY <1>4 DEF Surjection

\* SlotAt and Place are inverse to each other.
LEMMA SlotAtPlace ==
    ASSUME NEW S \in SUBSET (Int \X Nat), IsFiniteSet(S)
    PROVE  /\ \A n \in 1 .. Cardinality(S) : SlotAt(S, n) \in S /\ Place(S, SlotAt(S, n)) = n
           /\ \A s \in S : SlotAt(S, Place(S, s)) = s
  <1>1. ASSUME NEW n \in 1 .. Cardinality(S)
        PROVE  SlotAt(S, n) \in S /\ Place(S, SlotAt(S, n)) = n
    BY PlaceOnto DEF SlotAt
  <1>2. ASSUME NEW s \in S
        PROVE  SlotAt(S, Place(S, s)) = s
    <2>1. Place(S, s) \in 1 .. Cardinality(S)
      BY PlaceBounds
    <2>2. SlotAt(S, Place(S, s)) \in S /\ Place(S, SlotAt(S, Place(S, s))) = Place(S, s)
      BY <1>1, <2>1
    <2> QED BY <2>2, PlaceInjective
  <1> QED BY <1>1, <1>2

NotBelow(S, p) == {u \in S : u[1] >= p}

\* A new last slot of tier p: the slots of higher and equal tiers keep their places,
\* the others move back by one.
LEMMA InsertPlaces ==
    ASSUME NEW S \in SUBSET (Int \X Nat), IsFiniteSet(S), NEW p \in Int, NEW k \in Nat,
           \A s \in S : s[1] = p => s[2] < k
    PROVE  /\ Cardinality(NotBelow(S, p)) \in 0 .. Cardinality(S)
           /\ Place(S \cup {<<p, k>>}, <<p, k>>) = Cardinality(NotBelow(S, p)) + 1
           /\ \A s \in S : s[1] >= p =>
                /\ Place(S \cup {<<p, k>>}, s) = Place(S, s)
                /\ Place(S, s) <= Cardinality(NotBelow(S, p))
           /\ \A s \in S : s[1] < p =>
                /\ Place(S \cup {<<p, k>>}, s) = Place(S, s) + 1
                /\ Place(S, s) > Cardinality(NotBelow(S, p))
  <1> DEFINE new == <<p, k>>
             T == S \cup {new}
             U == NotBelow(S, p)
  <1>0. U = {u \in S : u[1] >= p}
    BY DEF NotBelow
  <1> HIDE DEF U
  <1>1. \A s \in S : s[1] \in Int /\ s[2] \in Nat
    OBVIOUS
  <1>2. IsFiniteSet(U) /\ Cardinality(U) \in Nat /\ Cardinality(U) <= Cardinality(S)
          /\ Cardinality(S) \in Nat
    <2>1. U \in SUBSET S
      BY <1>0
    <2>2. IsFiniteSet(U) /\ Cardinality(U) <= Cardinality(S)
      BY <2>1, FS_Subset
    <2> QED BY <2>2, FS_CardinalityType
  <1>3. \A s \in S : (Before(s, new) <=> s[1] >= p) /\ (Before(new, s) <=> s[1] < p)
    BY <1>1 DEF Before
  <1>4. ~ Before(new, new)
    BY DEF Before
  <1>5. Place(T, new) = Cardinality(U) + 1
    <2>1. {u \in T : Before(u, new)} = U
      BY <1>0, <1>3, <1>4
    <2> QED BY <2>1 DEF Place
  <1>6. ASSUME NEW s \in S, s[1] >= p
        PROVE  Place(T, s) = Place(S, s) /\ Place(S, s) <= Cardinality(U)
    <2> DEFINE A == {u \in S : Before(u, s)}
    <2>1. {u \in T : Before(u, s)} = A
      BY <1>1, <1>3, <1>6
    <2>2. A \in SUBSET (U \ {s}) /\ s \in U
      BY <1>0, <1>1, <1>6 DEF Before
    <2>3. IsFiniteSet(U \ {s}) /\ Cardinality(U \ {s}) = Cardinality(U) - 1
      BY <1>2, <2>2, FS_RemoveElement
    <2>4. Cardinality(A) <= Cardinality(U) - 1
      BY <2>2, <2>3, FS_Subset
    <2>5. Cardinality(A) \in Nat
      BY SlotsBefore
    <2>6. Place(T, s) = Cardinality(A) + 1 /\ Place(S, s) = Cardinality(A) + 1
      BY <2>1 DEF Place
    <2> HIDE DEF A
    <2> QED BY <1>2, <2>4, <2>5, <2>6
  <1>7. ASSUME NEW s \in S, s[1] < p
        PROVE  Place(T, s) = Place(S, s) + 1 /\ Place(S, s) > Cardinality(U)
    <2> DEFINE A == {u \in S : Before(u, s)}
    <2>1. {u \in T : Before(u, s)} = A \cup {new}
      BY <1>3, <1>7
    <2>2. new \notin A
      BY <1>1
    <2>3. IsFiniteSet(A) /\ Cardinality(A) \in Nat
      BY SlotsBefore
    <2>4. Cardinality(A \cup {new}) = Cardinality(A) + 1
      BY <2>2, <2>3, FS_AddElement
    <2>5. U \in SUBSET A
      BY <1>0, <1>1, <1>7 DEF Before
    <2>6. Cardinality(U) <= Cardinality(A)
      BY <2>3, <2>5, FS_Subset
    <2>7. Place(T, s) = Cardinality(A \cup {new}) + 1
      BY <2>1 DEF Place
    <2>8. Place(S, s) = Cardinality(A) + 1
      BY DEF Place
    <2> HIDE DEF A, new
    <2> QED BY <1>2, <2>3, <2>4, <2>6, <2>7, <2>8
  <1>8. Cardinality(U) \in 0 .. Cardinality(S)
    BY <1>2
  <1> QED BY <1>5, <1>6, <1>7, <1>8, Zenon DEF U

\* The slots of the highest tier have the first places.
LEMMA TopPlaces ==
    ASSUME NEW S \in SUBSET (Int \X Nat), IsFiniteSet(S), NEW t \in Int, NEW L \in Nat,
           \A s \in S : s[1] <= t,
           \A i \in Nat : <<t, i>> \in S <=> i \in 1 .. L,
           NEW i \in 1 .. L
    PROVE  Place(S, <<t, i>>) = i
  <1>1. {u \in S : Before(u, <<t, i>>)} = {t} \X (1 .. i - 1)
    <2>1. ASSUME NEW u \in S, Before(u, <<t, i>>)
          PROVE  u \in {t} \X (1 .. i - 1)
      <3>1. u = <<u[1], u[2]>> /\ u[1] \in Int /\ u[2] \in Nat /\ u[1] <= t
        OBVIOUS
      <3>2. u[1] = t /\ u[2] < i
        BY <2>1, <3>1 DEF Before
      <3>3. u[2] \in 1 .. L
        BY <3>1, <3>2
      <3> QED BY <3>1, <3>2, <3>3
    <2>2. ASSUME NEW k \in 1 .. i - 1
          PROVE  <<t, k>> \in S /\ Before(<<t, k>>, <<t, i>>)
      BY DEF Before
    <2>3. \A u \in {t} \X (1 .. i - 1) : u = <<t, u[2]>> /\ u[2] \in 1 .. i - 1
      OBVIOUS
    <2> QED BY <2>1, <2>2, <2>3
  <1>2. IsFiniteSet({t}) /\ Cardinality({t}) = 1
    BY FS_Singleton
  <1>3. IsFiniteSet(1 .. i - 1) /\ Cardinality(1 .. i - 1) = i - 1
    BY FS_Interval
  <1>4. Cardinality({t} \X (1 .. i - 1)) = Cardinality({t}) * Cardinality(1 .. i - 1)
    BY <1>2, <1>3, FS_Product, Zenon
  <1>5. Place(S, <<t, i>>) = Cardinality({t} \X (1 .. i - 1)) + 1
    BY <1>1 DEF Place
  <1> QED BY <1>2, <1>3, <1>4, <1>5

\* Without the last slot of the highest tier the slots of the lower tiers move up by one.
LEMMA RemovePlaces ==
    ASSUME NEW S \in SUBSET (Int \X Nat), IsFiniteSet(S), NEW top \in S,
           NEW s \in S, s[1] < top[1]
    PROVE  Place(S \ {top}, s) = Place(S, s) - 1
  <1> DEFINE A == {u \in S : Before(u, s)}
  <1>1. top \in A /\ {u \in S \ {top} : Before(u, s)} = A \ {top}
    BY DEF Before
  <1>2. IsFiniteSet(A) /\ Cardinality(A) \in Nat
    BY SlotsBefore
  <1>3. Cardinality(A \ {top}) = Cardinality(A) - 1
    BY <1>1, <1>2, FS_RemoveElement
  <1>4. Place(S \ {top}, s) = Cardinality(A \ {top}) + 1
    BY <1>1 DEF Place
  <1>5. Place(S, s) = Cardinality(A) + 1
    BY DEF Place
  <1> HIDE DEF A
  <1> QED BY <1>2, <1>3, <1>4, <1>5

-----------------------------------------------------------------------------
(***************************************************************************)
(* The line that the lists ls stand for.                                   *)
(***************************************************************************)

LEMMA SlotFacts ==
    ASSUME NEW ls \in [Priorities -> Seq(Jobs)]
    PROVE  /\ Slots(ls) \in SUBSET (Int \X Nat)
           /\ IsFiniteSet(Slots(ls))
           /\ \A s \in Slots(ls) : /\ s = <<s[1], s[2]>>
                                   /\ s[1] \in Priorities
                                   /\ s[2] \in DOMAIN ls[s[1]]
                                   /\ ls[s[1]][s[2]] \in Jobs
           /\ \A p \in Priorities : \A i \in DOMAIN ls[p] : <<p, i>> \in Slots(ls)
  <1> DEFINE S == Slots(ls)
  <1>1. ASSUME NEW p \in Priorities
        PROVE  /\ p \in Int
               /\ DOMAIN ls[p] = 1 .. Len(ls[p])
               /\ Len(ls[p]) \in Nat
    BY PriorityAssumption DEF Priorities
  <1>2. \A s \in S : s = <<s[1], s[2]>> /\ s[1] \in Priorities /\ s[2] \in DOMAIN ls[s[1]]
    BY DEF Slots
  <1>3. \A p \in Priorities : \A i \in DOMAIN ls[p] : <<p, i>> \in S
    BY DEF Slots
  <1>4. S \in SUBSET (Int \X Nat)
    <2> SUFFICES ASSUME NEW s \in S PROVE s \in Int \X Nat
      OBVIOUS
    <2>1. s[1] \in Priorities /\ s[1] \in Int /\ s[2] \in 1 .. Len(ls[s[1]]) /\ Len(ls[s[1]]) \in Nat
      BY <1>1, <1>2
    <2>2. s[2] \in Nat
      BY <2>1
    <2> QED BY <1>2, <2>1, <2>2
  <1>5. IsFiniteSet(S)
    <2> DEFINE T(p) == {p} \X DOMAIN ls[p]
               R == {T(p) : p \in Priorities}
               f == [p \in Priorities |-> T(p)]
    <2>1. IsFiniteSet(Priorities)
      BY PriorityAssumption, FS_Interval DEF Priorities
    <2>2. f \in Surjection(Priorities, R)
      BY DEF Surjection
    <2>3. IsFiniteSet(R)
      BY <2>1, <2>2, FS_Surjection
    <2>4. ASSUME NEW p \in Priorities
          PROVE  IsFiniteSet(T(p))
      <3>1. IsFiniteSet(1 .. Len(ls[p]))
        BY <1>1, FS_Interval
      <3>2. IsFiniteSet({p}) /\ IsFiniteSet(DOMAIN ls[p])
        BY <1>1, <3>1, FS_Singleton
      <3> QED BY <3>2, FS_Product
    <2>5. \A Q \in R : IsFiniteSet(Q)
      BY <2>4
    <2>6. S = UNION R
      BY DEF Slots
    <2> HIDE DEF R
    <2> QED BY <2>3, <2>5, <2>6, FS_UNION
  <1>6. \A s \in S : ls[s[1]][s[2]] \in Jobs
    BY <1>2
  <1> QED BY <1>2, <1>3, <1>4, <1>5, <1>6

LEMMA FunctionIsSeq ==
    ASSUME NEW E, NEW n \in Nat, NEW f \in [1 .. n -> E]
    PROVE  f \in Seq(E) /\ Len(f) = n
  <1>1. f \in Seq(E)
    BY SeqDef
  <1>2. Len(f) \in Nat /\ 1 .. Len(f) = 1 .. n
    BY <1>1, LenProperties
  <1> QED BY <1>1, <1>2

\* Each slot's entry stands at its place, and nothing else is in line.
LEMMA LineFacts ==
    ASSUME NEW ls \in [Priorities -> Seq(Jobs)], NEW S, S = Slots(ls)
    PROVE  /\ Cardinality(S) \in Nat
           /\ ServiceOrder(ls) \in Seq(Jobs \X Priorities)
           /\ Len(ServiceOrder(ls)) = Cardinality(S)
           /\ \A s \in S : /\ Place(S, s) \in 1 .. Cardinality(S)
                           /\ ServiceOrder(ls)[Place(S, s)] = EntryIn(ls, s)
           /\ \A n \in 1 .. Cardinality(S) :
                \E s \in S : Place(S, s) = n /\ ServiceOrder(ls)[n] = EntryIn(ls, s)
  <1> DEFINE ln == ServiceOrder(ls)
  <1>1. /\ S \in SUBSET (Int \X Nat) /\ IsFiniteSet(S)
        /\ \A s \in S : s[1] \in Priorities /\ ls[s[1]][s[2]] \in Jobs
    BY SlotFacts
  <1>2. Cardinality(S) \in Nat
    BY <1>1, FS_CardinalityType
  <1>3. \A n \in 1 .. Cardinality(S) : SlotAt(S, n) \in S /\ Place(S, SlotAt(S, n)) = n
    BY <1>1, SlotAtPlace
  <1>4. \A s \in S : SlotAt(S, Place(S, s)) = s /\ Place(S, s) \in 1 .. Cardinality(S)
    BY <1>1, SlotAtPlace, PlaceBounds
  <1>5. \A s \in S : EntryIn(ls, s) \in Jobs \X Priorities
    BY <1>1 DEF EntryIn
  <1>6. ln = [n \in 1 .. Cardinality(S) |-> EntryIn(ls, SlotAt(S, n))]
    BY DEF ServiceOrder
  <1> HIDE DEF ln
  <1>7. ln \in [1 .. Cardinality(S) -> Jobs \X Priorities]
    BY <1>3, <1>5, <1>6
  <1>8. ln \in Seq(Jobs \X Priorities) /\ Len(ln) = Cardinality(S)
    BY <1>2, <1>7, FunctionIsSeq
  <1>9. \A s \in S : ln[Place(S, s)] = EntryIn(ls, s)
    BY <1>4, <1>6
  <1>10. \A n \in 1 .. Cardinality(S) : \E s \in S : Place(S, s) = n /\ ln[n] = EntryIn(ls, s)
    BY <1>3, <1>6
  <1> QED BY <1>2, <1>4, <1>8, <1>9, <1>10 DEF ln

\* A sequence with one more element at place n + 1.
LEMMA InsertAt ==
    ASSUME NEW E, NEW old \in Seq(E), NEW e \in E, NEW n \in 0 .. Len(old),
           NEW new \in Seq(E), Len(new) = Len(old) + 1,
           \A i \in 1 .. n : new[i] = old[i],
           new[n + 1] = e,
           \A i \in n + 1 .. Len(old) : new[i + 1] = old[i]
    PROVE  new = SubSeq(old, 1, n) \o <<e>> \o SubSeq(old, n + 1, Len(old))
  <1> DEFINE a == SubSeq(old, 1, n)
             b == SubSeq(old, n + 1, Len(old))
             c == a \o <<e>>
  <1>0. Len(old) \in Nat /\ n \in Nat /\ \A i \in 1 .. Len(old) : old[i] \in E
    BY ElementOfSeq
  <1>1. a \in Seq(E) /\ Len(a) = n /\ \A i \in 1 .. n : a[i] = old[i]
    <2>1. \A i \in 1 .. n : old[i] \in E
      BY <1>0
    <2>2. /\ a \in Seq(E)
          /\ Len(a) = IF 1 <= n THEN n - 1 + 1 ELSE 0
          /\ \A i \in 1 .. n - 1 + 1 : a[i] = old[1 + i - 1]
      BY <1>0, <2>1, SubSeqProperties
    <2> HIDE DEF a
    <2> QED BY <1>0, <2>2
  <1>2. /\ b \in Seq(E) /\ Len(b) = Len(old) - n
        /\ \A i \in 1 .. Len(old) - n : b[i] = old[n + i]
    <2>1. \A i \in n + 1 .. Len(old) : old[i] \in E
      BY <1>0
    <2>2. /\ b \in Seq(E)
          /\ Len(b) = IF n + 1 <= Len(old) THEN Len(old) - (n + 1) + 1 ELSE 0
          /\ \A i \in 1 .. Len(old) - (n + 1) + 1 : b[i] = old[n + 1 + i - 1]
      BY <1>0, <2>1, SubSeqProperties
    <2> HIDE DEF b
    <2> QED BY <1>0, <2>2
  <1> HIDE DEF a, b
  <1>3. <<e>> \in Seq(E) /\ Len(<<e>>) = 1 /\ <<e>>[1] = e
    OBVIOUS
  <1>4. /\ c \in Seq(E) /\ Len(c) = n + 1
        /\ \A i \in 1 .. n + 1 : c[i] = IF i <= n THEN a[i] ELSE e
    <2>1. /\ c \in Seq(E) /\ Len(c) = Len(a) + Len(<<e>>)
          /\ \A i \in 1 .. Len(a) + Len(<<e>>) :
               c[i] = IF i <= Len(a) THEN a[i] ELSE <<e>>[i - Len(a)]
      BY <1>1, <1>3, ConcatProperties
    <2> HIDE DEF c
    <2> QED BY <1>0, <1>1, <1>3, <2>1
  <1> HIDE DEF c
  <1>5. /\ c \o b \in Seq(E) /\ Len(c \o b) = Len(c) + Len(b)
        /\ \A i \in 1 .. Len(c) + Len(b) : (c \o b)[i] = IF i <= Len(c) THEN c[i] ELSE b[i - Len(c)]
    BY <1>2, <1>4, ConcatProperties
  <1>6. Len(c \o b) = Len(new)
    BY <1>0, <1>2, <1>4, <1>5
  <1>7. ASSUME NEW i \in 1 .. Len(new)
        PROVE  new[i] = (c \o b)[i]
    <2>0. i \in 1 .. Len(c) + Len(b)
      BY <1>5, <1>6
    <2>1. CASE i <= n
      <3>1. (c \o b)[i] = a[i] /\ a[i] = old[i] /\ new[i] = old[i]
        BY <1>0, <1>1, <1>4, <1>5, <2>0, <2>1
      <3> QED BY <3>1
    <2>2. CASE i = n + 1
      BY <1>0, <1>4, <1>5, <2>0, <2>2
    <2>3. CASE i > n + 1
      <3>1. i - 1 \in n + 1 .. Len(old) /\ i - (n + 1) \in 1 .. Len(old) - n
        BY <1>0, <2>3
      <3>2. (c \o b)[i] = b[i - (n + 1)]
        BY <1>0, <1>4, <1>5, <2>0, <2>3
      <3>3. b[i - (n + 1)] = old[n + (i - (n + 1))]
        BY <1>2, <3>1
      <3>4. new[(i - 1) + 1] = old[i - 1]
        BY <3>1
      <3>5. n + (i - (n + 1)) = i - 1 /\ (i - 1) + 1 = i
        BY <1>0
      <3> QED BY <3>2, <3>3, <3>4, <3>5
    <2>4. i <= n \/ i = n + 1 \/ i > n + 1
      BY <1>0
    <2> QED BY <2>1, <2>2, <2>3, <2>4, Zenon
  <1>8. new = c \o b
    BY <1>5, <1>6, <1>7, SeqEqual
  <1> QED BY <1>8 DEF a, b, c

-----------------------------------------------------------------------------
(***************************************************************************)
(* Every script is a step of the line.                                     *)
(***************************************************************************)

\* RPUSH to the list of tier p puts the job behind everyone of its own or a higher
\* priority.
LEMMA EnqueueJoins ==
    ASSUME QInv, NEW j \in Jobs, NEW p \in MinPriority - 1 .. MaxPriority + 1, Enqueue(j, p)
    PROVE  p \in Priorities /\ Line!Join(j, p)
  <1> DEFINE S == Slots(lists)
             T == Slots(lists')
             k == Len(lists[p]) + 1
             old == ServiceOrder(lists)
             new == ServiceOrder(lists')
             n == Cardinality(NotBelow(S, p))
             N == Cardinality(S)
  <1>1. p \in Priorities /\ p \in Int
    BY PriorityAssumption DEF Enqueue, ValidatePriority, Priorities
  <1>2. lists \in [Priorities -> Seq(Jobs)] /\ lists' \in [Priorities -> Seq(Jobs)]
    BY EnqueueInv DEF QInv, QTypeOK
  <1>3. j \notin members /\ popped' = popped /\ lists' = [lists EXCEPT ![p] = Append(lists[p], j)]
    BY DEF Enqueue, EnqueueScript
  <1>4. /\ lists'[p] = Append(lists[p], j)
        /\ \A q \in Priorities \ {p} : lists'[q] = lists[q]
        /\ lists[p] \in Seq(Jobs)
    BY <1>1, <1>2, <1>3
  <1>5. /\ DOMAIN lists[p] = 1 .. k - 1 /\ DOMAIN lists'[p] = 1 .. k /\ k \in Nat \ {0}
        /\ lists'[p][k] = j
        /\ \A i \in 1 .. k - 1 : lists'[p][i] = lists[p][i]
    BY <1>4
  <1> HIDE DEF k
  <1>6. /\ S \in SUBSET (Int \X Nat) /\ IsFiniteSet(S)
        /\ \A s \in S : s = <<s[1], s[2]>> /\ s[1] \in Priorities /\ s[2] \in DOMAIN lists[s[1]]
        /\ \A q \in Priorities : \A i \in DOMAIN lists[q] : <<q, i>> \in S
    BY <1>2, SlotFacts
  <1>7. /\ \A s \in T : s = <<s[1], s[2]>> /\ s[1] \in Priorities /\ s[2] \in DOMAIN lists'[s[1]]
        /\ \A q \in Priorities : \A i \in DOMAIN lists'[q] : <<q, i>> \in T
    BY <1>2, SlotFacts
  <1>8. /\ N \in Nat
        /\ old \in Seq(Jobs \X Priorities) /\ Len(old) = N
        /\ \A s \in S : Place(S, s) \in 1 .. N /\ old[Place(S, s)] = EntryIn(lists, s)
        /\ \A m \in 1 .. N : \E s \in S : Place(S, s) = m /\ old[m] = EntryIn(lists, s)
    BY <1>2, LineFacts
  <1>9. /\ new \in Seq(Jobs \X Priorities) /\ Len(new) = Cardinality(T)
        /\ \A s \in T : new[Place(T, s)] = EntryIn(lists', s)
    BY <1>2, LineFacts
  <1> HIDE DEF S, T, old, new
  <1>10. T = S \cup {<<p, k>>} /\ <<p, k>> \notin S
    <2>1. ASSUME NEW s \in T
          PROVE  s \in S \cup {<<p, k>>}
      <3>1. s = <<s[1], s[2]>> /\ s[1] \in Priorities /\ s[2] \in DOMAIN lists'[s[1]]
        BY <1>7
      <3>2. CASE s[1] # p
        BY <1>4, <1>6, <3>1, <3>2
      <3>3. CASE s[1] = p /\ s[2] # k
        <4>1. s[2] \in DOMAIN lists[p]
          BY <1>5, <3>1, <3>3
        <4> QED BY <1>1, <1>6, <3>1, <3>3, <4>1
      <3>4. CASE s[1] = p /\ s[2] = k
        BY <3>1, <3>4
      <3> QED BY <3>2, <3>3, <3>4
    <2>2. ASSUME NEW s \in S
          PROVE  s \in T
      <3>1. s = <<s[1], s[2]>> /\ s[1] \in Priorities /\ s[2] \in DOMAIN lists[s[1]]
        BY <1>6
      <3>2. s[2] \in DOMAIN lists'[s[1]]
        BY <1>4, <1>5, <3>1
      <3> QED BY <1>7, <3>1, <3>2
    <2>3. <<p, k>> \in T
      BY <1>1, <1>5, <1>7
    <2>4. <<p, k>> \notin S
      BY <1>5, <1>6
    <2> QED BY <2>1, <2>2, <2>3, <2>4
  <1>11. \A s \in S : s[1] = p => s[2] < k
    BY <1>5, <1>6
  <1>12. /\ n \in 0 .. N
         /\ Place(T, <<p, k>>) = n + 1
         /\ \A s \in S : s[1] >= p => Place(T, s) = Place(S, s) /\ Place(S, s) <= n
         /\ \A s \in S : s[1] < p => Place(T, s) = Place(S, s) + 1 /\ Place(S, s) > n
    <2>1. k \in Nat
      BY <1>5
    <2>2. /\ Cardinality(NotBelow(S, p)) \in 0 .. Cardinality(S)
          /\ Place(S \cup {<<p, k>>}, <<p, k>>) = Cardinality(NotBelow(S, p)) + 1
          /\ \A s \in S : s[1] >= p =>
               /\ Place(S \cup {<<p, k>>}, s) = Place(S, s)
               /\ Place(S, s) <= Cardinality(NotBelow(S, p))
          /\ \A s \in S : s[1] < p =>
               /\ Place(S \cup {<<p, k>>}, s) = Place(S, s) + 1
               /\ Place(S, s) > Cardinality(NotBelow(S, p))
      BY <1>1, <1>6, <1>11, <2>1, InsertPlaces
    <2> QED BY <1>10, <2>2
  <1>13. Cardinality(T) = N + 1
    BY <1>6, <1>10, FS_AddElement
  <1> HIDE DEF n, N
  <1>14. \A s \in S : EntryIn(lists', s) = EntryIn(lists, s)
    <2> SUFFICES ASSUME NEW s \in S PROVE lists'[s[1]][s[2]] = lists[s[1]][s[2]]
      BY DEF EntryIn
    <2> QED BY <1>4, <1>5, <1>6
  <1>15. EntryIn(lists', <<p, k>>) = <<j, p>>
    BY <1>5 DEF EntryIn
  <1>16. \A s \in S : s[1] \in Int /\ EntryIn(lists, s)[2] = s[1]
    BY <1>6 DEF EntryIn
  <1>17. ASSUME NEW m \in 1 .. N
         PROVE  /\ old[m][2] >= p <=> m <= n
                /\ m <= n => new[m] = old[m]
                /\ m > n => new[m + 1] = old[m]
    <2>1. PICK s \in S : Place(S, s) = m /\ old[m] = EntryIn(lists, s)
      BY <1>8
    <2>2. old[m][2] = s[1] /\ s[1] \in Int
      BY <1>16, <2>1
    <2>3. new[Place(T, s)] = old[m]
      BY <1>9, <1>10, <1>14, <2>1
    <2>4. CASE s[1] >= p
      BY <1>8, <1>12, <2>1, <2>2, <2>3, <2>4
    <2>5. CASE s[1] < p
      BY <1>8, <1>12, <2>1, <2>2, <2>3, <2>5
    <2> QED BY <1>1, <2>2, <2>4, <2>5
  <1>18. new[n + 1] = <<j, p>>
    BY <1>9, <1>10, <1>12, <1>15
  <1>19. new = SubSeq(old, 1, n) \o << <<j, p>> >> \o SubSeq(old, n + 1, Len(old))
    <2>1. <<j, p>> \in Jobs \X Priorities
      BY <1>1
    <2>2. \A i \in 1 .. n : new[i] = old[i]
      BY <1>8, <1>12, <1>17
    <2>3. \A i \in n + 1 .. Len(old) : new[i + 1] = old[i]
      BY <1>8, <1>12, <1>17
    <2>4. n \in 0 .. Len(old) /\ Len(new) = Len(old) + 1
      BY <1>8, <1>9, <1>12, <1>13
    <2> DEFINE E == Jobs \X Priorities
               e == <<j, p>>
    <2>5. old \in Seq(E) /\ new \in Seq(E) /\ e \in E /\ new[n + 1] = e
      BY <1>8, <1>9, <1>18, <2>1
    <2> HIDE DEF E, e
    <2>6. new = SubSeq(old, 1, n) \o <<e>> \o SubSeq(old, n + 1, Len(old))
      BY <2>2, <2>3, <2>4, <2>5, InsertAt
    <2> QED BY <2>6 DEF e
  <1>20. \A i \in DOMAIN old : old[i][1] # j
    <2> SUFFICES ASSUME NEW i \in 1 .. N PROVE old[i][1] # j
      BY <1>8, LenProperties
    <2>1. PICK s \in S : old[i] = EntryIn(lists, s)
      BY <1>8
    <2>2. old[i][1] = lists[s[1]][s[2]]
      BY <2>1 DEF EntryIn
    <2>3. lists[s[1]][s[2]] \in members
      BY <1>6 DEF QInv, IndexesAgree
    <2> QED BY <1>3, <2>2, <2>3
  <1>21. n \in 0 .. Len(old) /\ \A i \in DOMAIN old : old[i][2] >= p <=> i <= n
    BY <1>8, <1>12, <1>17, LenProperties
  <1> QED BY <1>1, <1>3, <1>19, <1>20, <1>21, Zenon DEF Line!Join, Line!InLine, old, new

\* LPOP from the list of the highest tier serves the head of the line.
LEMMA PopServes ==
    ASSUME QInv, NEW t \in tiers, PopTop(t)
    PROVE  Line!Serve
  <1> DEFINE S == Slots(lists)
             T == Slots(lists')
             L == Len(lists[t])
             old == ServiceOrder(lists)
             new == ServiceOrder(lists')
             N == Cardinality(S)
  <1>1. /\ t \in Priorities /\ t \in Int /\ lists[t] # <<>> /\ lists[t] \in Seq(Jobs)
        /\ \A u \in tiers : u <= t
    BY PriorityAssumption DEF QInv, QTypeOK, IndexesAgree, Priorities, PopTop
  <1>2. lists \in [Priorities -> Seq(Jobs)] /\ lists' \in [Priorities -> Seq(Jobs)]
    BY PopInv DEF QInv, QTypeOK
  <1>3. popped' = Head(lists[t]) /\ lists' = [lists EXCEPT ![t] = Tail(lists[t])]
    BY <1>1 DEF PopTop
  <1>4. /\ lists'[t] = Tail(lists[t])
        /\ \A q \in Priorities \ {t} : lists'[q] = lists[q]
    BY <1>1, <1>2, <1>3
  <1>5. /\ L \in Nat \ {0}
        /\ DOMAIN lists[t] = 1 .. L /\ DOMAIN lists'[t] = 1 .. L - 1
        /\ \A i \in 1 .. L - 1 : lists'[t][i] = lists[t][i + 1]
        /\ Head(lists[t]) = lists[t][1]
    BY <1>1, <1>4, TailFacts
  <1> HIDE DEF L
  <1>6. /\ S \in SUBSET (Int \X Nat) /\ IsFiniteSet(S)
        /\ \A s \in S : s = <<s[1], s[2]>> /\ s[1] \in Priorities /\ s[2] \in DOMAIN lists[s[1]]
        /\ \A q \in Priorities : \A i \in DOMAIN lists[q] : <<q, i>> \in S
    BY <1>2, SlotFacts
  <1>7. /\ T \in SUBSET (Int \X Nat) /\ IsFiniteSet(T)
        /\ \A s \in T : s = <<s[1], s[2]>> /\ s[1] \in Priorities /\ s[2] \in DOMAIN lists'[s[1]]
        /\ \A q \in Priorities : \A i \in DOMAIN lists'[q] : <<q, i>> \in T
    BY <1>2, SlotFacts
  <1>8. /\ N \in Nat
        /\ old \in Seq(Jobs \X Priorities) /\ Len(old) = N
        /\ \A s \in S : Place(S, s) \in 1 .. N /\ old[Place(S, s)] = EntryIn(lists, s)
        /\ \A m \in 1 .. N : \E s \in S : Place(S, s) = m /\ old[m] = EntryIn(lists, s)
    BY <1>2, LineFacts
  <1>9. /\ new \in Seq(Jobs \X Priorities) /\ Len(new) = Cardinality(T)
        /\ \A s \in T : new[Place(T, s)] = EntryIn(lists', s)
        /\ \A m \in 1 .. Cardinality(T) :
             \E s \in T : Place(T, s) = m /\ new[m] = EntryIn(lists', s)
    BY <1>2, LineFacts
  <1> HIDE DEF S, T, old, new
  <1>10. <<t, L>> \in S /\ T = S \ {<<t, L>>}
    <2>1. ASSUME NEW s \in T
          PROVE  s \in S /\ s # <<t, L>>
      <3>1. s = <<s[1], s[2]>> /\ s[1] \in Priorities /\ s[2] \in DOMAIN lists'[s[1]]
        BY <1>7
      <3>2. CASE s[1] # t
        BY <1>4, <1>6, <3>1, <3>2
      <3>3. CASE s[1] = t
        <4>1. s[2] \in 1 .. L - 1
          BY <1>5, <3>1, <3>3
        <4>2. s[2] \in DOMAIN lists[t] /\ s[2] # L
          BY <1>5, <4>1
        <4> QED BY <1>1, <1>6, <3>1, <3>3, <4>2
      <3> QED BY <3>2, <3>3
    <2>2. ASSUME NEW s \in S, s # <<t, L>>
          PROVE  s \in T
      <3>1. s = <<s[1], s[2]>> /\ s[1] \in Priorities /\ s[2] \in DOMAIN lists[s[1]]
        BY <1>6
      <3>2. s[2] \in DOMAIN lists'[s[1]]
        <4>1. CASE s[1] = t
          BY <1>5, <2>2, <3>1, <4>1
        <4> QED BY <1>4, <3>1, <4>1
      <3> QED BY <1>7, <3>1, <3>2
    <2>3. <<t, L>> \in S
      BY <1>1, <1>5, <1>6
    <2> QED BY <2>1, <2>2, <2>3
  <1>11. \A s \in S : s[1] \in Int /\ s[1] <= t
    <2> SUFFICES ASSUME NEW s \in S PROVE s[1] \in Int /\ s[1] <= t
      OBVIOUS
    <2>1. s[1] \in Priorities /\ s[2] \in DOMAIN lists[s[1]] /\ lists[s[1]] \in Seq(Jobs)
      BY <1>2, <1>6
    <2>2. lists[s[1]] # <<>>
      BY <2>1
    <2>3. s[1] \in tiers
      BY <2>1, <2>2 DEF QInv, IndexesAgree
    <2> QED BY <1>1, <1>6, <2>3
  <1>12. Cardinality(T) = N - 1
    BY <1>6, <1>10, FS_RemoveElement
  <1>13. \A i \in 1 .. L : Place(S, <<t, i>>) = i
    <2>1. \A i \in Nat : <<t, i>> \in S <=> i \in 1 .. L
      BY <1>1, <1>5, <1>6
    <2> QED BY <1>1, <1>5, <1>6, <1>11, <2>1, TopPlaces
  <1>14. \A i \in 1 .. L - 1 : Place(T, <<t, i>>) = i
    <2>1. \A i \in Nat : <<t, i>> \in T <=> i \in 1 .. L - 1
      BY <1>1, <1>5, <1>7
    <2>2. \A s \in T : s[1] <= t
      BY <1>10, <1>11
    <2>3. L - 1 \in Nat
      BY <1>5
    <2> QED BY <1>1, <1>7, <2>1, <2>2, <2>3, TopPlaces
  <1>15. \A s \in S : s[1] < t => Place(T, s) = Place(S, s) - 1
    BY <1>6, <1>10, RemovePlaces
  <1>16. \A s \in S : s[1] < t => EntryIn(lists', s) = EntryIn(lists, s)
    BY <1>1, <1>4, <1>6 DEF EntryIn
  <1> HIDE DEF N
  <1>17. ASSUME NEW m \in 1 .. N - 1
         PROVE  new[m] = old[m + 1]
    <2>1. PICK s \in T : Place(T, s) = m /\ new[m] = EntryIn(lists', s)
      BY <1>9, <1>12
    <2>2. s \in S /\ s[1] \in Int /\ s = <<s[1], s[2]>> /\ s[2] \in DOMAIN lists'[s[1]]
      BY <1>7, <1>10, <1>11
    <2>3. CASE s[1] = t
      <3>1. s[2] \in 1 .. L - 1 /\ s[2] + 1 \in 1 .. L /\ s = <<t, s[2]>>
        BY <1>5, <2>2, <2>3
      <3>2. m = s[2]
        BY <1>14, <2>1, <3>1
      <3>3. <<t, m + 1>> \in S /\ Place(S, <<t, m + 1>>) = m + 1
        BY <1>1, <1>5, <1>6, <1>13, <3>1, <3>2
      <3>4. old[m + 1] = EntryIn(lists, <<t, m + 1>>)
        BY <1>8, <3>3
      <3>5. new[m] = <<lists'[t][m], t>>
        BY <2>1, <3>1, <3>2 DEF EntryIn
      <3>6. lists'[t][m] = lists[t][m + 1]
        BY <1>5, <3>1, <3>2
      <3> QED BY <3>4, <3>5, <3>6 DEF EntryIn
    <2>4. CASE s[1] # t
      <3>1. s[1] < t
        BY <1>1, <1>11, <2>2, <2>4
      <3>2. Place(S, s) \in 1 .. N /\ Place(S, s) - 1 = m
        BY <1>8, <1>15, <2>1, <2>2, <3>1
      <3>3. Place(S, s) = m + 1
        BY <1>8, <3>2
      <3>4. old[m + 1] = EntryIn(lists, s)
        BY <1>8, <2>2, <3>3
      <3> QED BY <1>16, <2>1, <2>2, <3>1, <3>4
    <2> QED BY <2>3, <2>4
  <1>18. N # 0 /\ old[1] = <<lists[t][1], t>>
    <2>1. <<t, 1>> \in S /\ Place(S, <<t, 1>>) = 1
      BY <1>1, <1>5, <1>6, <1>13
    <2>2. old[1] = EntryIn(lists, <<t, 1>>) /\ 1 \in 1 .. N
      BY <1>8, <2>1
    <2> QED BY <1>8, <2>2 DEF EntryIn
  <1>19. old # <<>> /\ Head(old) = <<lists[t][1], t>>
    <2> DEFINE E == Jobs \X Priorities
    <2>1. old \in Seq(E)
      BY <1>8
    <2> HIDE DEF E
    <2>2. old # <<>>
      BY <1>8, <1>18, <2>1, EmptySeq
    <2> QED BY <1>18, <2>1, <2>2
  <1>20. new = Tail(old)
    <2> DEFINE E == Jobs \X Priorities
    <2>1. old \in Seq(E) /\ new \in Seq(E)
      BY <1>8, <1>9
    <2> HIDE DEF E
    <2>2. /\ Tail(old) \in Seq(E) /\ Len(Tail(old)) = N - 1
          /\ \A i \in 1 .. N - 1 : Tail(old)[i] = old[i + 1]
      BY <1>8, <1>19, <2>1
    <2>3. Len(new) = N - 1
      BY <1>9, <1>12
    <2>4. \A i \in 1 .. Len(new) : new[i] = Tail(old)[i]
      BY <1>17, <2>2, <2>3
    <2> QED BY <2>1, <2>2, <2>3, <2>4, SeqEqual
  <1>21. popped' = Head(old)[1]
    BY <1>3, <1>5, <1>19
  <1> QED BY <1>19, <1>20, <1>21, Zenon DEF Line!Serve, old, new

\* Empty lists stand for an empty line.
LEMMA EmptyLine ==
    ASSUME NEW ls, \A p \in Priorities : ls[p] = <<>>
    PROVE  ServiceOrder(ls) = <<>>
  <1>1. Slots(ls) = {}
    BY DEF Slots
  <1>2. Cardinality(Slots(ls)) = 0
    BY <1>1, FS_EmptySet
  <1>3. 1 .. Cardinality(Slots(ls)) = {}
    BY <1>2
  <1> QED BY <1>3 DEF ServiceOrder

LEMMA InitLine == QInit => Line!LInit
  <1> SUFFICES ASSUME QInit PROVE Line!LInit
    OBVIOUS
  <1>1. ServiceOrder(lists) = <<>>
    BY EmptyLine DEF QInit
  <1> QED BY <1>1 DEF QInit, Line!LInit

LEMMA NextLine == QInv /\ [QNext]_qvars => [Line!LNext]_(Line!lvars)
  <1> SUFFICES ASSUME QInv, [QNext]_qvars PROVE [Line!LNext]_(Line!lvars)
    OBVIOUS
  <1>1. ASSUME NEW j \in Jobs, NEW p \in MinPriority - 1 .. MaxPriority + 1, Enqueue(j, p)
        PROVE  Line!LNext
    BY <1>1, EnqueueJoins DEF Line!LNext
  <1>2. CASE Pop
    BY <1>2, PopServes DEF Pop, Line!LNext
  <1>3. CASE PopNothing
    <2>1. \A p \in Priorities : lists[p] = <<>>
      BY <1>3 DEF PopNothing, QInv, IndexesAgree
    <2>2. ServiceOrder(lists) = <<>> /\ ServiceOrder(lists') = ServiceOrder(lists)
      BY <1>3, <2>1, EmptyLine DEF PopNothing
    <2>3. Line!ServeNobody
      BY <1>3, <2>2, Zenon DEF PopNothing, Line!ServeNobody
    <2> QED BY <2>3 DEF Line!LNext
  <1>4. CASE LoseData
    <2>1. \A p \in Priorities : lists'[p] = <<>>
      BY <1>4 DEF LoseData
    <2>2. ServiceOrder(lists') = <<>>
      BY <2>1, EmptyLine
    <2>3. Line!LoseLine
      BY <1>4, <2>2, Zenon DEF LoseData, Line!LoseLine
    <2> QED BY <2>3 DEF Line!LNext
  <1>5. CASE UNCHANGED qvars
    BY <1>5, Zenon DEF qvars, Line!lvars
  <1> QED BY <1>1, <1>2, <1>3, <1>4, <1>5 DEF QNext

\* To its callers the three kinds of key are one line: enqueueScript puts a job behind
\* everyone of its own or a higher priority, and popScript serves the head.
THEOREM LineTheorem == QSpec => ImplementsLine
  <1>1. QSpec => []QInv
    BY QInitInv, QNextInv, PTL DEF QSpec
  <1>2. QInit => Line!LInit
    BY InitLine
  <1>3. QInv /\ [QNext]_qvars => [Line!LNext]_(Line!lvars)
    BY NextLine
  <1> QED BY <1>1, <1>2, <1>3, PTL DEF QSpec, ImplementsLine, Line!LSpec
=============================================================================
