--------------------------- MODULE JobReadsProofs ---------------------------
(***************************************************************************)
(* Proofs about JobReads, for any jobs, attempts and retries.              *)
(***************************************************************************)
EXTENDS JobReads, FiniteSetTheorems, TLAPS

Statuses == {"none", "queued", "processing", "completed", "dead"}
Answers ==
    [status : Statuses, retries : Nat, outputs : Attempts \cup {None}, total : BOOLEAN,
     durations : Attempts \cup {None}, count : Nat]

Rows == [status : Statuses, retries : Nat, outputs : Attempts \cup {None}]

StoreTypes ==
    /\ status \in [Jobs -> Statuses]
    /\ retries \in [Jobs -> Nat]
    /\ holder \in [Jobs -> Attempts \cup {None}]
    /\ visible \in [Jobs -> Attempts \cup {None}]
    /\ recorded \subseteq Attempts

ReadTypes ==
    /\ about \in Jobs
    /\ got \in Rows
    /\ seen \in [Jobs -> Answers]
    /\ verdict \in [Jobs -> {"none", "completed", "dead", "timeout"}]

\* Outputs are visible exactly when the job is completed, and their attempt has recorded
\* its durations.
StoreKnown ==
    \A j \in Jobs :
        /\ visible[j] # None <=> status[j] = "completed"
        /\ status[j] = "completed" => visible[j] \in recorded

Begun(s) == IF s \in {"processing", "completed", "dead"} THEN 1 ELSE 0

\* The row part of an answer was once the row of the job.
RowPast(a, j) ==
    /\ a.retries <= retries[j]
    /\ a.retries + Begun(a.status) <= AttemptCount(j)
    /\ a.status # "none" => status[j] # "none"
    /\ a.status \in {"completed", "dead"} => status[j] = a.status /\ retries[j] = a.retries
    /\ a.outputs # None <=> a.status = "completed"
    /\ a.status = "completed" => a.outputs = visible[j]

\* The timings were read after the row.
TimingsPast(a, j) ==
    /\ a.count <= AttemptCount(j)
    /\ a.count >= a.retries + Begun(a.status)
    /\ a.total => status[j] = "completed"
    /\ a.status = "completed" => a.total /\ a.durations = visible[j]

\* The row in hand is later than the answer given before.
Newer(b, a) ==
    /\ b.retries >= a.retries
    /\ a.total => b.status = "completed"
    /\ a.status = "dead" => b.status = "dead"
    /\ a.status = "completed" => b.status = "completed"

GotPast == rpc = "timings" => RowPast(got, about) /\ Newer(got, seen[about])
SeenPast == \A j \in Jobs : RowPast(seen[j], j) /\ TimingsPast(seen[j], j)

\* A request is answered once, and what it was told stays true.
ReplyKnown ==
    /\ rpc \in {"row", "timings", "fetch", "outputs"} => reply.code = 0
    /\ OutputsAgree

RInv == StoreTypes /\ ReadTypes /\ StoreKnown /\ GotPast /\ SeenPast /\ ReplyKnown /\ VerdictIsTrue

\* What a step of the store may do to a job.
Later(j) ==
    /\ retries'[j] >= retries[j]
    /\ AttemptCount(j)' >= AttemptCount(j)
    /\ status[j] # "none" => status'[j] # "none"
    /\ status[j] \in {"completed", "dead"} =>
         status'[j] = status[j] /\ retries'[j] = retries[j] /\ visible'[j] = visible[j]

-----------------------------------------------------------------------------
LEMMA UnreadIsRow == Unread \in Rows
  BY DEF Unread, Rows, Statuses

LEMMA RInitInv == RInit => RInv
  <1> SUFFICES ASSUME RInit PROVE RInv
    OBVIOUS
  <1>1. StoreTypes
    BY DEF RInit, CInit, StoreTypes, Statuses
  <1>2. Nothing \in Answers
    BY DEF Nothing, Answers, Statuses
  <1>3. ReadTypes
    BY <1>2, UnreadIsRow DEF RInit, ReadTypes
  <1>4. StoreKnown
    BY DEF RInit, CInit, StoreKnown
  <1>5. GotPast
    BY DEF RInit, GotPast
  <1>6. SeenPast
    <2> SUFFICES ASSUME NEW j \in Jobs PROVE RowPast(seen[j], j) /\ TimingsPast(seen[j], j)
      BY DEF SeenPast
    <2>1. seen[j] = Nothing /\ status[j] = "none" /\ retries[j] = 0
      BY DEF RInit, CInit
    <2>2. AttemptCount(j) = 0
      BY <2>1 DEF AttemptCount
    <2>3. RowPast(seen[j], j)
      BY <2>1, <2>2 DEF RowPast, Begun, Nothing
    <2>4. TimingsPast(seen[j], j)
      BY <2>1, <2>2 DEF TimingsPast, Begun, Nothing
    <2> QED BY <2>3, <2>4
  <1>7. ReplyKnown
    BY DEF RInit, ReplyKnown, OutputsAgree, Awaited
  <1>8. VerdictIsTrue
    BY DEF RInit, VerdictIsTrue
  <1> QED BY <1>1, <1>3, <1>4, <1>5, <1>6, <1>7, <1>8 DEF RInv

-----------------------------------------------------------------------------
(***************************************************************************)
(* Steps of the store.                                                     *)
(***************************************************************************)
LEMMA BeginLater ==
    ASSUME StoreTypes, StoreKnown, NEW j \in Jobs, NEW a \in Attempts, Begin(j, a), UNCHANGED recorded
    PROVE  StoreTypes' /\ StoreKnown' /\ \A i \in Jobs : Later(i)
  <1>1. StoreTypes'
    BY DEF StoreTypes, Begin, Statuses
  <1>2. StoreKnown'
    BY DEF StoreTypes, StoreKnown, Begin
  <1>3. \A i \in Jobs : Later(i)
    BY DEF StoreTypes, Begin, Later, AttemptCount
  <1> QED BY <1>1, <1>2, <1>3

LEMMA FinishLater ==
    ASSUME StoreTypes, StoreKnown, NEW j \in Jobs, holder[j] \in recorded, Finish(j),
           UNCHANGED recorded
    PROVE  StoreTypes' /\ StoreKnown' /\ \A i \in Jobs : Later(i)
  <1>1. StoreTypes'
    BY DEF StoreTypes, Finish, Release, Statuses
  <1>2. StoreKnown'
    BY DEF StoreTypes, StoreKnown, Finish, Release
  <1>3. \A i \in Jobs : Later(i)
    BY DEF StoreTypes, Finish, Release, Later, AttemptCount
  <1> QED BY <1>1, <1>2, <1>3

LEMMA GiveUpLater ==
    ASSUME StoreTypes, StoreKnown, NEW j \in Jobs, GiveBack(j) \/ Bury(j), UNCHANGED recorded
    PROVE  StoreTypes' /\ StoreKnown' /\ \A i \in Jobs : Later(i)
  <1>1. StoreTypes'
    BY DEF StoreTypes, GiveBack, Bury, Release, Statuses
  <1>2. StoreKnown'
    BY DEF StoreTypes, StoreKnown, GiveBack, Bury, Release
  <1>3. \A i \in Jobs : Later(i)
    BY DEF StoreTypes, GiveBack, Bury, Release, Later, AttemptCount
  <1> QED BY <1>1, <1>2, <1>3

LEMMA AcceptLater ==
    ASSUME StoreTypes, StoreKnown, NEW j \in Jobs, Accept(j), UNCHANGED recorded
    PROVE  StoreTypes' /\ StoreKnown' /\ \A i \in Jobs : Later(i)
  <1>1. StoreTypes'
    BY DEF StoreTypes, Accept, Statuses
  <1>2. StoreKnown'
    BY DEF StoreTypes, StoreKnown, Accept
  <1>3. \A i \in Jobs : Later(i)
    BY DEF StoreTypes, Accept, Later, AttemptCount
  <1> QED BY <1>1, <1>2, <1>3

LEMMA RecordLater ==
    ASSUME StoreTypes, StoreKnown, NEW a \in Attempts, RecordDurations(a)
    PROVE  StoreTypes' /\ StoreKnown' /\ \A i \in Jobs : Later(i)
  <1>1. StoreTypes'
    BY DEF StoreTypes, RecordDurations, cvars
  <1>2. StoreKnown'
    BY DEF StoreTypes, StoreKnown, RecordDurations, cvars
  <1>3. \A i \in Jobs : Later(i)
    BY DEF StoreTypes, RecordDurations, cvars, Later, AttemptCount
  <1> QED BY <1>1, <1>2, <1>3

\* What was past stays past.
LEMMA PastKept ==
    ASSUME StoreTypes, StoreTypes', NEW j \in Jobs, Later(j)
    PROVE  /\ \A a \in Answers \cup Rows : RowPast(a, j) => RowPast(a, j)'
           /\ \A a \in Answers : TimingsPast(a, j) => TimingsPast(a, j)'
  <1>1. AttemptCount(j) \in Nat /\ AttemptCount(j)' \in Nat
    BY DEF StoreTypes, AttemptCount
  <1>2. retries[j] \in Nat /\ retries'[j] \in Nat
    BY DEF StoreTypes
  <1>3. ASSUME NEW a \in Answers \cup Rows, RowPast(a, j) PROVE RowPast(a, j)'
    <2>1. a.retries \in Nat
      BY DEF Answers, Rows
    <2> QED BY <1>1, <1>2, <1>3, <2>1 DEF RowPast, Later, Begun
  <1>4. ASSUME NEW a \in Answers, TimingsPast(a, j) PROVE TimingsPast(a, j)'
    <2>1. a.count \in Nat
      BY DEF Answers
    <2> QED BY <1>1, <1>2, <1>4, <2>1 DEF TimingsPast, Later, Begun
  <1> QED BY <1>3, <1>4

LEMMA StoreInv ==
    ASSUME RInv, StoreTypes', StoreKnown', \A i \in Jobs : Later(i),
           UNCHANGED <<reads, verdict>>
    PROVE  RInv'
  <1> USE DEF reads
  <1>1. ReadTypes'
    BY DEF RInv, ReadTypes
  <1>2. \A j \in Jobs : seen[j] \in Answers
    BY DEF RInv, ReadTypes
  <1>3. SeenPast'
    <2> SUFFICES ASSUME NEW j \in Jobs PROVE RowPast(seen[j], j)' /\ TimingsPast(seen[j], j)'
      BY DEF SeenPast
    <2>1. RowPast(seen[j], j) /\ TimingsPast(seen[j], j)
      BY DEF RInv, SeenPast
    <2>2. seen' = seen
      OBVIOUS
    <2> QED BY <1>2, <2>1, <2>2, PastKept DEF RInv, RowPast, TimingsPast
  <1>4. GotPast'
    <2> SUFFICES ASSUME rpc = "timings" PROVE (RowPast(got, about) /\ Newer(got, seen[about]))'
      BY DEF GotPast
    <2>1. RowPast(got, about) /\ Newer(got, seen[about]) /\ about \in Jobs /\ got \in Rows
      BY DEF RInv, GotPast, ReadTypes
    <2>2. got' = got /\ about' = about /\ seen' = seen
      OBVIOUS
    <2>3. RowPast(got, about)'
      BY <2>1, <2>2, PastKept DEF RInv, RowPast
    <2> QED BY <2>1, <2>2, <2>3 DEF Newer
  <1>5. ReplyKnown'
    <2>1. about \in Jobs
      BY DEF RInv, ReadTypes
    <2>2. rpc = "outputs" => visible'[about] # None
      BY <2>1 DEF RInv, ReplyKnown, OutputsAgree, StoreKnown, Later
    <2> QED BY <2>2 DEF RInv, ReplyKnown, OutputsAgree
  <1>6. VerdictIsTrue'
    BY DEF RInv, VerdictIsTrue, ReadTypes, Later
  <1> QED BY <1>1, <1>3, <1>4, <1>5, <1>6 DEF RInv

-----------------------------------------------------------------------------
(***************************************************************************)
(* Steps of the client, which leave the store alone.                       *)
(***************************************************************************)
\* A step that gives no answer.
LEMMA NoAnswer ==
    ASSUME RInv, UNCHANGED <<cvars, recorded, seen>>,
           about' \in Jobs, got' \in Rows,
           verdict' \in [Jobs -> {"none", "completed", "dead", "timeout"}],
           GotPast', ReplyKnown', VerdictIsTrue'
    PROVE  RInv'
  <1>1. ReadTypes'
    BY DEF RInv, ReadTypes
  <1>2. \A j \in Jobs : seen[j] \in Answers
    BY DEF RInv, ReadTypes
  <1>3. SeenPast'
    <2> SUFFICES ASSUME NEW j \in Jobs PROVE RowPast(seen[j], j)' /\ TimingsPast(seen[j], j)'
      BY DEF SeenPast
    <2>1. RowPast(seen[j], j) /\ TimingsPast(seen[j], j)
      BY DEF RInv, SeenPast
    <2> QED BY <1>2, <2>1 DEF RowPast, TimingsPast, AttemptCount, cvars
  <1>4. StoreTypes' /\ StoreKnown'
    BY DEF RInv, StoreTypes, StoreKnown, cvars
  <1> QED BY <1>1, <1>3, <1>4 DEF RInv

\* A step that leaves the request alone.
LEMMA ReadsStay ==
    ASSUME RInv, UNCHANGED <<cvars, recorded, reads>>,
           verdict' \in [Jobs -> {"none", "completed", "dead", "timeout"}], VerdictIsTrue'
    PROVE  RInv'
  <1>1. GotPast'
    <2> SUFFICES ASSUME rpc = "timings" PROVE (RowPast(got, about) /\ Newer(got, seen[about]))'
      BY DEF GotPast, reads
    <2>1. RowPast(got, about) /\ Newer(got, seen[about])
      BY DEF RInv, GotPast
    <2> QED BY <2>1 DEF RowPast, Newer, AttemptCount, cvars, reads
  <1>2. ReplyKnown'
    BY DEF RInv, ReplyKnown, OutputsAgree, cvars, reads
  <1> QED BY <1>1, <1>2, NoAnswer DEF RInv, ReadTypes, reads

LEMMA AskInv == ASSUME RInv, NEW j \in Jobs, Ask(j) PROVE RInv'
  <1>1. about' \in Jobs /\ got' \in Rows
        /\ verdict' \in [Jobs -> {"none", "completed", "dead", "timeout"}]
    BY DEF Ask, RInv, ReadTypes
  <1>2. GotPast'
    BY DEF Ask, GotPast
  <1>3. ReplyKnown'
    BY DEF Ask, ReplyKnown, OutputsAgree, Awaited
  <1>4. VerdictIsTrue'
    BY DEF Ask, RInv, VerdictIsTrue, cvars
  <1> QED BY <1>1, <1>2, <1>3, <1>4, NoAnswer DEF Ask

\* The first statement sees a row that is later than every answer before.
LEMMA FetchRowInv == ASSUME RInv, FetchRow PROVE RInv'
  <1>1. about \in Jobs /\ seen[about] \in Answers /\ status[about] \in Statuses
        /\ retries[about] \in Nat /\ visible[about] \in Attempts \cup {None}
    BY DEF RInv, ReadTypes, StoreTypes
  <1>2. RowPast(seen[about], about) /\ TimingsPast(seen[about], about)
    BY <1>1 DEF RInv, SeenPast
  <1>3. about' = about /\ verdict' = verdict /\ seen' = seen
    BY DEF FetchRow
  <1>4. VerdictIsTrue'
    BY DEF FetchRow, RInv, VerdictIsTrue, cvars
  <1>5. CASE status[about] = "none"
    <2>1. GotPast' /\ got' = Unread
      BY <1>5 DEF FetchRow, Reply, GotPast
    <2>2. seen[about].status = "none"
      BY <1>2, <1>5 DEF RowPast
    <2>3. ReplyKnown'
      BY <1>3, <1>5, <2>2 DEF FetchRow, Reply, ReplyKnown, OutputsAgree
    <2> QED BY <1>1, <1>3, <1>4, <2>1, <2>3, UnreadIsRow, NoAnswer
            DEF FetchRow, RInv, ReadTypes
  <1>6. CASE status[about] # "none"
    <2>1. rpc' = "timings" /\ reply' = reply
          /\ got' = [status |-> status[about], retries |-> retries[about],
                     outputs |-> visible[about]]
      BY <1>6 DEF FetchRow
    <2>2. got' \in Rows
      BY <1>1, <2>1 DEF Rows
    <2>3. got'.status = status[about] /\ got'.retries = retries[about]
          /\ got'.outputs = visible[about]
      BY <2>1
    <2>4. status' = status /\ retries' = retries /\ visible' = visible
      BY DEF FetchRow, cvars
    <2>5. RowPast(got, about)'
      <3>1. visible[about] # None <=> status[about] = "completed"
        BY <1>1 DEF RInv, StoreKnown
      <3>2. AttemptCount(about)' = retries[about] + Begun(status[about])
        BY <1>3, <2>4 DEF AttemptCount, Begun
      <3>3. retries[about] + Begun(status[about]) \in Nat
        BY <1>1 DEF Begun
      <3> QED BY <1>1, <1>3, <2>3, <2>4, <3>1, <3>2, <3>3 DEF RowPast
    <2>6. Newer(got, seen[about])'
      BY <1>1, <1>2, <1>3, <2>3 DEF Newer, RowPast, TimingsPast, Answers
    <2>7. GotPast'
      BY <2>5, <2>6 DEF GotPast
    <2>8. ReplyKnown'
      BY <1>3, <2>1 DEF FetchRow, RInv, ReplyKnown, OutputsAgree
    <2> QED BY <1>1, <1>3, <1>4, <2>2, <2>7, <2>8, NoAnswer DEF FetchRow, RInv, ReadTypes
  <1> QED BY <1>5, <1>6

\* What the answer is made of.
LEMMA TimedFacts ==
    ASSUME RInv, rpc = "timings"
    PROVE  /\ about \in Jobs /\ Timed \in Answers
           /\ Timed.status = got.status /\ Timed.retries = got.retries
           /\ Timed.outputs = got.outputs /\ Timed.count = AttemptCount(about)
           /\ Timed.total <=> status[about] = "completed"
           /\ Timed.durations = IF visible[about] \in recorded THEN visible[about] ELSE None
           /\ RowPast(Timed, about) /\ TimingsPast(Timed, about)
  <1>1. about \in Jobs /\ got \in Rows
    BY DEF RInv, ReadTypes
  <1>2. RowPast(got, about)
    BY DEF RInv, GotPast
  <1>3. AttemptCount(about) \in Nat
    BY <1>1 DEF RInv, StoreTypes, AttemptCount
  <1>4. Total(about) \in BOOLEAN
    BY DEF Total
  <1>5. (IF visible[about] \in recorded THEN visible[about] ELSE None) \in Attempts \cup {None}
    BY DEF RInv, StoreTypes
  <1>6. Timed \in Answers
    BY <1>1, <1>3, <1>4, <1>5 DEF Timed, RowStatus, Answers, Rows
  <1>7. /\ Timed.status = got.status /\ Timed.retries = got.retries
        /\ Timed.outputs = got.outputs /\ Timed.count = AttemptCount(about)
        /\ Timed.durations = IF visible[about] \in recorded THEN visible[about] ELSE None
    BY DEF Timed, RowStatus
  <1>8. Timed.total <=> status[about] = "completed"
    BY DEF Timed, Total
  <1>9. RowPast(Timed, about)
    BY <1>2, <1>7 DEF RowPast
  <1>10. TimingsPast(Timed, about)
    <2>1. Timed.count <= AttemptCount(about)
      BY <1>3, <1>7
    <2>2. Timed.count >= Timed.retries + Begun(Timed.status)
      <3>1. got.retries + Begun(got.status) \in Nat
        BY <1>1 DEF Rows, Begun
      <3>2. got.retries + Begun(got.status) <= AttemptCount(about)
        BY <1>2 DEF RowPast
      <3> QED BY <1>3, <1>7, <3>1, <3>2
    <2>3. Timed.status = "completed" => Timed.total /\ Timed.durations = visible[about]
      BY <1>1, <1>2, <1>7, <1>8 DEF RowPast, RInv, StoreKnown
    <2> QED BY <1>8, <2>1, <2>2, <2>3 DEF TimingsPast
  <1> QED BY <1>1, <1>6, <1>7, <1>8, <1>9, <1>10

LEMMA FetchTimingsInv == ASSUME RInv, FetchTimings PROVE RInv'
  <1>1. rpc = "timings" /\ about' = about /\ verdict' = verdict /\ got' = Unread /\ rpc' = "idle"
    BY DEF FetchTimings, Reply
  <1>2. status' = status /\ retries' = retries /\ visible' = visible /\ holder' = holder
        /\ recorded' = recorded
    BY DEF FetchTimings, cvars
  <1>3. about \in Jobs /\ seen \in [Jobs -> Answers]
    BY DEF RInv, ReadTypes
  <1>4. seen' = [seen EXCEPT ![about] = Timed] /\ reply' = [code |-> 200, outputs |-> got.outputs]
    BY DEF FetchTimings, Reply
  <1>5. Timed \in Answers /\ RowPast(Timed, about) /\ TimingsPast(Timed, about)
        /\ Timed.outputs = got.outputs
    BY <1>1, TimedFacts
  <1>6. StoreTypes' /\ StoreKnown'
    BY <1>2 DEF RInv, StoreTypes, StoreKnown
  <1>7. ReadTypes'
    BY <1>1, <1>3, <1>4, <1>5, UnreadIsRow DEF RInv, ReadTypes
  <1>8. SeenPast'
    <2> SUFFICES ASSUME NEW j \in Jobs PROVE RowPast(seen[j], j)' /\ TimingsPast(seen[j], j)'
      BY DEF SeenPast
    <2>1. RowPast(seen'[j], j) /\ TimingsPast(seen'[j], j)
      <3>1. CASE j = about
        BY <1>3, <1>4, <1>5, <3>1
      <3>2. CASE j # about
        BY <1>3, <1>4, <3>2 DEF RInv, SeenPast
      <3> QED BY <3>1, <3>2
    <2> QED BY <1>2, <2>1 DEF RowPast, TimingsPast, AttemptCount
  <1>9. GotPast'
    BY <1>1 DEF GotPast
  <1>10. ReplyKnown'
    BY <1>1, <1>3, <1>4, <1>5 DEF ReplyKnown, OutputsAgree
  <1>11. VerdictIsTrue'
    BY <1>1, <1>2 DEF RInv, VerdictIsTrue
  <1> QED BY <1>6, <1>7, <1>8, <1>9, <1>10, <1>11 DEF RInv

\* The other replies.
LEMMA OtherReplyInv == ASSUME RInv, FetchJob \/ FetchOutputs \/ ReadFails PROVE RInv'
  <1>1. about \in Jobs /\ seen[about] \in Answers
    BY DEF RInv, ReadTypes
  <1>2. RowPast(seen[about], about) /\ TimingsPast(seen[about], about)
    BY <1>1 DEF RInv, SeenPast
  <1>3. UNCHANGED <<cvars, recorded, seen, about, verdict>>
    BY DEF FetchJob, FetchOutputs, ReadFails
  <1>4. got' \in Rows /\ rpc' # "timings"
    BY UnreadIsRow DEF FetchJob, FetchOutputs, ReadFails, Reply, RInv, ReadTypes
  <1>5. GotPast'
    BY <1>4 DEF GotPast
  <1>6. VerdictIsTrue'
    BY <1>3 DEF RInv, VerdictIsTrue, cvars
  <1>7. status[about] = "completed" <=> visible[about] # None
    BY <1>1 DEF RInv, StoreKnown
  <1>8. visible' = visible
    BY <1>3 DEF cvars
  <1>9. ReplyKnown'
    <2>1. CASE FetchJob
      BY <1>2, <1>3, <1>7, <1>8, <2>1
      DEF FetchJob, Reply, NotYetCompleted, RInv, ReplyKnown, OutputsAgree, RowPast, TimingsPast
    <2>2. CASE FetchOutputs
      BY <1>2, <1>3, <1>8, <2>2 DEF FetchOutputs, Reply, ReplyKnown, OutputsAgree, RowPast
    <2>3. CASE ReadFails
      BY <1>3, <2>3 DEF ReadFails, Reply, ReplyKnown, OutputsAgree
    <2> QED BY <2>1, <2>2, <2>3
  <1> QED BY <1>1, <1>3, <1>4, <1>5, <1>6, <1>9, NoAnswer DEF RInv, ReadTypes

\* collectStats touches nothing of a read.
LEMMA CollectInv ==
    ASSUME RInv, StartCollect \/ Collected \/ \E q \in Queries : QueryDone(q) \/ QueryFails(q)
    PROVE  RInv'
  <1>1. UNCHANGED <<cvars, recorded, about, got, reply, seen, verdict>>
    BY DEF StartCollect, Collected, QueryDone, QueryFails, reads
  <1>2. rpc' = rpc \/ rpc' \in {"idle", "collect"}
    BY DEF StartCollect, Collected, QueryDone, QueryFails, reads
  <1>3. GotPast'
    <2> SUFFICES ASSUME rpc = "timings" PROVE (RowPast(got, about) /\ Newer(got, seen[about]))'
      BY <1>2 DEF GotPast
    <2>1. RowPast(got, about) /\ Newer(got, seen[about])
      BY DEF RInv, GotPast
    <2> QED BY <1>1, <2>1 DEF RowPast, Newer, AttemptCount, cvars
  <1>4. ReplyKnown'
    BY <1>1, <1>2 DEF RInv, ReplyKnown, OutputsAgree, cvars
  <1>5. VerdictIsTrue'
    BY <1>1 DEF RInv, VerdictIsTrue, cvars
  <1> QED BY <1>1, <1>3, <1>4, <1>5, NoAnswer DEF RInv, ReadTypes

\* A verdict is drawn from an answer, and an answer that tells the end stays true.
LEMMA VerdictInv == ASSUME RInv, NEW j \in Jobs, Conclude(j) \/ Deadline(j) PROVE RInv'
  <1>1. UNCHANGED <<cvars, recorded, reads>>
    BY DEF Conclude, Deadline
  <1>2. RowPast(seen[j], j)
    BY DEF RInv, SeenPast
  <1>3. CASE Conclude(j)
    <2>1. seen[j].status \in {"completed", "dead"}
      BY <1>3 DEF Conclude, Ended
    <2>2. verdict' = [verdict EXCEPT ![j] = seen[j].status] /\ status[j] = seen[j].status
      BY <1>2, <1>3, <2>1 DEF Conclude, CompleteOutputSet, RowPast
    <2>3. verdict' \in [Jobs -> {"none", "completed", "dead", "timeout"}]
      BY <2>1, <2>2 DEF RInv, ReadTypes
    <2>4. VerdictIsTrue'
      BY <1>1, <2>1, <2>2 DEF RInv, ReadTypes, VerdictIsTrue, cvars
    <2> QED BY <1>1, <2>3, <2>4, ReadsStay
  <1>4. CASE Deadline(j)
    <2>1. verdict' = [verdict EXCEPT ![j] = "timeout"]
      BY <1>4 DEF Deadline
    <2>2. verdict' \in [Jobs -> {"none", "completed", "dead", "timeout"}]
      BY <2>1 DEF RInv, ReadTypes
    <2>3. VerdictIsTrue'
      BY <1>1, <2>1 DEF RInv, ReadTypes, VerdictIsTrue, cvars
    <2> QED BY <1>1, <2>2, <2>3, ReadsStay
  <1> QED BY <1>3, <1>4

LEMMA RNextInv == RInv /\ [RNext]_rvars => RInv'
  <1> SUFFICES ASSUME RInv, [RNext]_rvars PROVE RInv'
    OBVIOUS
  <1>1. CASE UNCHANGED rvars
    <2>1. UNCHANGED <<cvars, recorded, reads>> /\ verdict' = verdict
      BY <1>1 DEF rvars
    <2>2. VerdictIsTrue'
      BY <2>1 DEF RInv, VerdictIsTrue, cvars
    <2> QED BY <2>1, <2>2, ReadsStay DEF RInv, ReadTypes
  <1>2. CASE ClientStep
    BY <1>2, AskInv, FetchRowInv, FetchTimingsInv, OtherReplyInv, CollectInv, VerdictInv
    DEF ClientStep
  <1>3. CASE StoreStep
    <2>1. ASSUME NEW a \in Attempts, RecordDurations(a) PROVE RInv'
      <3>1. StoreTypes' /\ StoreKnown' /\ \A i \in Jobs : Later(i)
        BY <2>1, RecordLater DEF RInv
      <3>2. UNCHANGED <<reads, verdict>>
        BY <2>1 DEF RecordDurations
      <3> QED BY <3>1, <3>2, StoreInv
    <2>2. ASSUME NEW j \in Jobs, JobStep(j) PROVE RInv'
      <3>1. UNCHANGED recorded /\ UNCHANGED <<reads, verdict>>
        BY <2>2 DEF JobStep
      <3>2. StoreTypes' /\ StoreKnown' /\ \A i \in Jobs : Later(i)
        BY <2>2, <3>1, BeginLater, FinishLater, GiveUpLater DEF JobStep, RInv
      <3> QED BY <3>1, <3>2, StoreInv
    <2> QED BY <1>3, <2>1, <2>2 DEF StoreStep
  <1>4. ASSUME NEW j \in Jobs, NewJob(j) PROVE RInv'
    <2>1. UNCHANGED recorded /\ UNCHANGED <<reads, verdict>>
      BY <1>4 DEF NewJob
    <2>2. StoreTypes' /\ StoreKnown' /\ \A i \in Jobs : Later(i)
      BY <1>4, <2>1, AcceptLater DEF NewJob, RInv
    <2> QED BY <2>1, <2>2, StoreInv
  <1> QED BY <1>1, <1>2, <1>3, <1>4 DEF RNext

LEMMA RInvHolds == RSpec => []RInv
  BY RInitInv, RNextInv, PTL DEF RSpec

-----------------------------------------------------------------------------
\* Every answer of getJob is whole, whatever happens between its statements.
THEOREM WholeAnswerTheorem == RSpec => []AnswerIsWhole
  <1>1. RInv => AnswerIsWhole
    BY DEF RInv, SeenPast, RowPast, TimingsPast, Begun, AnswerIsWhole
  <1> QED BY RInvHolds, <1>1, PTL

\* getJobOutputs and getJob never contradict each other.
THEOREM OutputsTheorem == RSpec => []OutputsAgree
  BY RInvHolds, PTL DEF RInv, ReplyKnown

\* The benchmark's verdict is the end of the job.
THEOREM VerdictTheorem == RSpec => []VerdictIsTrue
  BY RInvHolds, PTL DEF RInv

LEMMA TimedIsForward ==
    ASSUME RInv, rpc = "timings"
    PROVE  Forward(seen[about], Timed)
  <1> DEFINE a == seen[about]
  <1>1. about \in Jobs /\ a \in Answers /\ AttemptCount(about) \in Nat /\ got \in Rows
    BY DEF RInv, ReadTypes, StoreTypes, AttemptCount
  <1>2. RowPast(a, about) /\ TimingsPast(a, about)
    BY <1>1 DEF RInv, SeenPast
  <1>3. Newer(got, a)
    BY DEF RInv, GotPast
  <1> HIDE DEF a
  <1>4. Timed.retries >= a.retries /\ Timed.count >= a.count
    BY <1>2, <1>3, TimedFacts DEF Newer, TimingsPast
  <1>5. a.total => Timed.status = "completed"
    BY <1>3, TimedFacts DEF Newer
  <1>6. ASSUME a.status \in {"completed", "dead"}
        PROVE  Timed.status = a.status /\ Timed.retries = a.retries /\ Timed.count = a.count
    <2>1. Timed.status = a.status
      BY <1>3, <1>6, TimedFacts DEF Newer
    <2>2. Timed.retries = a.retries
      BY <1>2, <1>6, <2>1, TimedFacts DEF RowPast
    <2>3. AttemptCount(about) = a.retries + 1
      BY <1>2, <1>6 DEF RowPast, AttemptCount
    <2>4. a.count = AttemptCount(about)
      BY <1>1, <1>2, <1>6, <2>3 DEF TimingsPast, Begun, Answers
    <2> QED BY <2>1, <2>2, <2>4, TimedFacts
  <1>7. ASSUME a.status = "completed"
        PROVE  Timed = a
    <2>1. Timed.outputs = a.outputs /\ Timed.durations = a.durations
      BY <1>2, <1>6, <1>7, TimedFacts DEF RowPast, TimingsPast
    <2>2. Timed.total /\ a.total
      BY <1>2, <1>6, <1>7, TimedFacts DEF RowPast, TimingsPast
    <2>3. Timed.total = a.total
      BY <1>1, <2>2, TimedFacts DEF Answers
    <2> QED BY <1>1, <1>6, <1>7, <2>1, <2>3, TimedFacts DEF Answers
  <1> QED BY <1>4, <1>5, <1>6, <1>7 DEF Forward, a

\* Answers to one client never go back.
THEOREM ForwardTheorem == RSpec => ReadsMoveForward
  <1>1. ASSUME RInv, [RNext]_rvars, NEW j \in Jobs, seen'[j] # seen[j]
        PROVE  Forward(seen[j], seen'[j])
    <2>1. CASE FetchTimings
      <3>1. seen \in [Jobs -> Answers]
        BY <1>1 DEF RInv, ReadTypes
      <3>2. seen' = [seen EXCEPT ![about] = Timed] /\ rpc = "timings"
        BY <2>1 DEF FetchTimings
      <3>3. j = about /\ seen'[j] = Timed
        BY <1>1, <3>1, <3>2
      <3> QED BY <1>1, <3>2, <3>3, TimedIsForward
    <2>2. CASE ~ FetchTimings
      <3>1. seen' = seen
        BY <1>1, <2>2
        DEF RNext, ClientStep, StoreStep, rvars, reads, Ask, FetchRow, FetchJob, FetchOutputs,
            ReadFails, StartCollect, QueryDone, QueryFails, Collected, Conclude, Deadline,
            RecordDurations, JobStep, NewJob
      <3> QED BY <1>1, <3>1
    <2> QED BY <2>1, <2>2
  <1>2. RInv /\ [RNext]_rvars =>
          [\A j \in Jobs : seen'[j] # seen[j] => Forward(seen[j], seen'[j])]_rvars
    BY <1>1
  <1> QED BY RInvHolds, <1>2, PTL DEF RSpec, ReadsMoveForward

-----------------------------------------------------------------------------
(***************************************************************************)
(* Statistics.                                                             *)
(***************************************************************************)
Completed == {j \in Jobs : status[j] = "completed"}

\* A collection without an error accounts for every query; what it has counted is no
\* less than what was sent before.
EInv ==
    /\ pending \subseteq Queries
    /\ rpc # "collect" => pending = {}
    /\ rpc = "collect" /\ failed = FALSE => stats.filled \cup pending = Queries
    /\ event.filled = Queries
    /\ stats.completed \in Nat /\ event.completed \in Nat
    /\ event.completed <= Cardinality(Completed) /\ stats.completed <= Cardinality(Completed)
    /\ "jobs" \in stats.filled => event.completed <= stats.completed

LEMMA CountType == Cardinality(Completed) \in Nat
  BY JobsAssumption, FS_Subset, FS_CardinalityType DEF Completed

\* The completed jobs never become fewer.
LEMMA CountGrows ==
    ASSUME RInv, [RNext]_rvars
    PROVE  Cardinality(Completed) <= Cardinality(Completed')
  <1>1. \A j \in Jobs : status[j] = "completed" => status'[j] = "completed"
    <2>1. CASE UNCHANGED status
      BY <2>1
    <2>2. ASSUME NEW j \in Jobs, Accept(j) \/ (\E a \in Attempts : Begin(j, a)) \/ Finish(j)
                                 \/ GiveBack(j) \/ Bury(j)
          PROVE  \A i \in Jobs : status[i] = "completed" => status'[i] = "completed"
      BY <2>2 DEF RInv, StoreTypes, Accept, Begin, Finish, GiveBack, Bury, Release
    <2>3. UNCHANGED status \/ \E j \in Jobs : Accept(j) \/ (\E a \in Attempts : Begin(j, a))
                                 \/ Finish(j) \/ GiveBack(j) \/ Bury(j)
      BY DEF RNext, ClientStep, StoreStep, rvars, cvars, Ask, FetchRow, FetchTimings, FetchJob,
             FetchOutputs, ReadFails, StartCollect, QueryDone, QueryFails, Collected, Conclude,
             Deadline, RecordDurations, JobStep, NewJob
    <2> QED BY <2>1, <2>2, <2>3
  <1>2. Completed \subseteq Completed'
    BY <1>1 DEF Completed
  <1>3. IsFiniteSet(Completed')
    BY JobsAssumption, FS_Subset DEF Completed
  <1> QED BY <1>2, <1>3, FS_Subset

LEMMA EInitInv == RInit => EInv
  <1> SUFFICES ASSUME RInit PROVE EInv
    OBVIOUS
  <1>1. Cardinality(Completed) \in Nat
    BY CountType
  <1> QED BY <1>1 DEF RInit, EInv

LEMMA ENextInv ==
    ASSUME RInv, EInv, [RNext]_rvars
    PROVE  EInv' /\ event'.filled = Queries /\ event'.completed >= event.completed
  <1>1. Cardinality(Completed) \in Nat /\ Cardinality(Completed') \in Nat
        /\ Cardinality(Completed) <= Cardinality(Completed')
    <2>1. Cardinality(Completed') \in Nat
      BY JobsAssumption, FS_Subset, FS_CardinalityType DEF Completed
    <2> QED BY <2>1, CountType, CountGrows
  <1> DEFINE Goal == EInv' /\ event'.filled = Queries /\ event'.completed >= event.completed
  <1>2. CASE UNCHANGED collect /\ (rpc' = "collect" <=> rpc = "collect")
    BY <1>1, <1>2 DEF EInv, collect
  <1>3. CASE StartCollect
    BY <1>1, <1>3 DEF EInv, StartCollect
  <1>4. ASSUME NEW q \in Queries, QueryDone(q)
        PROVE  Goal
    <2>1. Completed' = Completed
      BY <1>4 DEF QueryDone, cvars, Completed
    <2>2. CASE q = "jobs"
      <3>1. stats'.completed = Cardinality(Completed) /\ stats'.filled = stats.filled \cup {q}
        BY <1>4, <2>2 DEF QueryDone, Completed
      <3> QED BY <1>1, <1>4, <2>1, <3>1 DEF EInv, QueryDone, reads
    <2>3. CASE q # "jobs"
      <3>1. stats'.completed = stats.completed /\ stats'.filled = stats.filled \cup {q}
        BY <1>4, <2>3 DEF QueryDone
      <3> QED BY <1>1, <1>4, <2>1, <2>3, <3>1 DEF EInv, QueryDone, reads
    <2> QED BY <2>2, <2>3
  <1>5. ASSUME NEW q \in Queries, QueryFails(q)
        PROVE  Goal
    BY <1>1, <1>5 DEF EInv, QueryFails, reads
  <1>6. CASE Collected
    <2>1. pending = {} /\ rpc = "collect" /\ rpc' = "idle" /\ pending' = {}
          /\ stats' = [filled |-> {}, completed |-> 0]
      BY <1>6 DEF Collected, Waited
    <2>2. CASE failed
      BY <1>1, <1>6, <2>1, <2>2 DEF EInv, Collected
    <2>3. CASE ~ failed
      <3>1. event' = stats /\ failed = FALSE
        BY <1>6, <2>3 DEF Collected
      <3>2. stats.filled = Queries /\ event.completed <= stats.completed
        BY <2>1, <3>1, QueriesAssumption DEF EInv
      <3> QED BY <1>1, <2>1, <3>1, <3>2 DEF EInv
    <2> QED BY <2>2, <2>3
  <1>7. CASE ~ (\/ StartCollect \/ Collected
                \/ \E q \in Queries : QueryDone(q) \/ QueryFails(q))
    <2>1. UNCHANGED collect /\ (rpc' = "collect" <=> rpc = "collect")
      BY <1>7 DEF RNext, ClientStep, StoreStep, rvars, reads, Ask, FetchRow, FetchTimings, FetchJob,
             FetchOutputs, ReadFails, Reply, Conclude, Deadline, RecordDurations, JobStep, NewJob
    <2> QED BY <1>2, <2>1
  <1> QED BY <1>3, <1>4, <1>5, <1>6, <1>7

\* Statistics are sent whole, and completed jobs are never counted down.
THEOREM EventsTheorem == RSpec => EventsMoveForward
  <1>1. RSpec => []EInv
    BY RInvHolds, EInitInv, ENextInv, PTL DEF RSpec
  <1>2. RInv /\ EInv /\ [RNext]_rvars =>
          [event'.filled = Queries /\ event'.completed >= event.completed]_rvars
    BY ENextInv
  <1> QED BY RInvHolds, <1>1, <1>2, PTL DEF RSpec, EventsMoveForward
=============================================================================
