-------------------------- MODULE ApiSessionProofs --------------------------
(***************************************************************************)
(* Proofs about ApiSession: the upload and the reads keep, together, what  *)
(* each was shown to keep alone, and what they keep between them.          *)
(***************************************************************************)
EXTENDS ApiSession, UploadProofs, JobReadsProofs

\* The session's upload is an upload.
THEOREM SessionUploads == SSpec => USpec
  <1>1. SInit => UInit
    BY DEF SInit
  <1>2. [SNext]_svars => [UNext]_uvars
    BY DEF SNext, UploadStep, OtherStep, svars
  <1> QED BY <1>1, <1>2, PTL DEF SSpec, USpec

\* The session's reads, with the upload as the source of the job, are reads of the
\* job store.
THEOREM SessionReads == SSpec => RSpec
  <1>1. SInit => RInit
    BY DEF SInit
  <1>2. [SNext]_svars => [RNext]_rvars
    BY MineAssumption DEF SNext, UploadStep, OtherStep, RNext, svars
  <1> QED BY <1>1, <1>2, PTL DEF SSpec, RSpec

\* While workers and readers act on the same row, what an upload stores, leaves behind
\* and refuses is what it is without them.
THEOREM SessionUploadTheorem == SSpec => [](AcceptedIsDurable /\ OrphansKnown /\ LimitIsExact)
  BY SessionUploads, DurableTheorem, OrphansTheorem, LimitTheorem, PTL

\* While the upload creates the job it reads about, a client gets whole answers that
\* agree with each other and never go back, and draws the right verdict.
THEOREM SessionReadTheorem ==
    SSpec => /\ [](AnswerIsWhole /\ OutputsAgree /\ VerdictIsTrue)
             /\ ReadsMoveForward
             /\ EventsMoveForward
  BY SessionReads, WholeAnswerTheorem, OutputsTheorem, VerdictTheorem, ForwardTheorem,
     EventsTheorem, PTL

\* The row that the upload has inserted is the job that readers find.
Linked == row # NoRow <=> status[Mine] # "none"

LEMMA LinkedInit == SInit => Linked
  BY MineAssumption DEF SInit, UInit, RInit, CInit, Linked

\* Only createQueuedJob writes the row, and it writes the priority.
LEMMA RowWritten ==
    ASSUME UInv, UNext
    PROVE  row' = row \/ (row = NoRow /\ row' # NoRow)
  <1>1. row' = row \/ CreateQueuedJob \/ CreateFails
    BY DEF UNext, PriorityPart, BadPriorityPart, FilePart, ReadChunk, NotVideo, Stored, TooLarge,
           StoreFails, SecondFilePart, OtherPart, BrokenForm, EndOfForm, EnqueueJob, Answered, uvars
  <1>2. CASE CreateQueuedJob \/ CreateFails
    <2>1. row = NoRow /\ priority \in Int
      BY <1>2 DEF UInv, Good, UTypes, UHandler, CreateQueuedJob, CreateFails
    <2>2. row' \in {NoRow, priority}
      BY <1>2 DEF CreateQueuedJob, CreateFails
    <2> QED BY <2>1, <2>2, NoRowAssumption
  <1> QED BY <1>1, <1>2

LEMMA LinkedStep ==
    ASSUME UInv, RInv, Linked, [SNext]_svars
    PROVE  Linked'
  <1>1. CASE UNCHANGED svars
    BY <1>1 DEF Linked, svars, uvars, rvars, cvars
  <1>2. CASE UploadStep
    <2>1. CASE row' = row
      BY <1>2, <2>1 DEF UploadStep, Linked, rvars, cvars
    <2>2. CASE row' # row
      <3>1. row' # NoRow
        BY <1>2, <2>2, RowWritten DEF UploadStep
      <3>2. status' = [status EXCEPT ![Mine] = "queued"]
        BY <1>2, <2>2 DEF UploadStep, NewJob, Accept
      <3>3. status'[Mine] = "queued"
        BY <3>2, MineAssumption DEF RInv, StoreTypes
      <3> QED BY <3>1, <3>3 DEF Linked
    <2> QED BY <2>1, <2>2
  <1>3. CASE OtherStep
    <2>1. row' = row
      BY <1>3 DEF OtherStep, uvars
    <2>2. status'[Mine] # "none" <=> status[Mine] # "none"
      <3>1. CASE UNCHANGED status
        BY <3>1
      <3>2. ASSUME NEW j \in Jobs, (\E a \in Attempts : Begin(j, a)) \/ Finish(j) \/ GiveBack(j)
                                   \/ Bury(j)
            PROVE  status'[Mine] # "none" <=> status[Mine] # "none"
        BY <3>2, MineAssumption DEF RInv, StoreTypes, Begin, Finish, GiveBack, Bury, Release
      <3>3. UNCHANGED status \/ \E j \in Jobs : (\E a \in Attempts : Begin(j, a)) \/ Finish(j)
                                   \/ GiveBack(j) \/ Bury(j)
        BY <1>3 DEF OtherStep, ClientStep, StoreStep, cvars, Ask, FetchRow, FetchTimings, FetchJob,
               FetchOutputs, ReadFails, StartCollect, QueryDone, QueryFails, Collected, Conclude,
               Deadline, RecordDurations, JobStep
      <3> QED BY <3>1, <3>2, <3>3
    <2> QED BY <2>1, <2>2 DEF Linked
  <1> QED BY <1>1, <1>2, <1>3 DEF SNext

\* An accepted upload is found by every later read.
THEOREM FoundTheorem == SSpec => AcceptedIsFound
  <1>1. SSpec => []UInv
    BY SessionUploads, UInvHolds, PTL
  <1>2. SSpec => []RInv
    BY SessionReads, RInvHolds, PTL
  <1>3. SSpec => []Linked
    BY <1>1, <1>2, LinkedInit, LinkedStep, PTL DEF SSpec
  <1>4. ASSUME UInv, RInv, Linked, [SNext]_svars, answer = "accepted", about = Mine,
               reply' # reply
        PROVE  reply'.code # 404
    <2>1. status[Mine] # "none"
      BY <1>4, NoRowAssumption
      DEF UInv, Good, UTypes, AcceptedIsDurable, Linked
    <2>2. ClientStep
      BY <1>4 DEF SNext, UploadStep, OtherStep, StoreStep, svars, rvars, reads, NewJob,
                  RecordDurations, JobStep
    <2>3. CASE FetchRow \/ FetchJob
      BY <1>4, <2>1, <2>3 DEF FetchRow, FetchJob, Reply
    <2>4. CASE FetchTimings \/ FetchOutputs \/ ReadFails \/ \E j \in Jobs : Ask(j)
      BY <2>4 DEF FetchTimings, FetchOutputs, ReadFails, Reply, Ask, Awaited
    <2>5. CASE \/ StartCollect \/ Collected
               \/ \E q \in Queries : QueryDone(q) \/ QueryFails(q)
               \/ \E j \in Jobs : Conclude(j) \/ Deadline(j)
      BY <1>4, <2>5 DEF StartCollect, Collected, QueryDone, QueryFails, Conclude, Deadline, reads
    <2> QED BY <2>2, <2>3, <2>4, <2>5 DEF ClientStep
  <1>5. UInv /\ RInv /\ Linked /\ [SNext]_svars =>
          [answer = "accepted" /\ about = Mine /\ reply' # reply => reply'.code # 404]_svars
    BY <1>4
  <1> QED BY <1>1, <1>2, <1>3, <1>5, PTL DEF SSpec, AcceptedIsFound
=============================================================================
