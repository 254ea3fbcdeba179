---------------------------- MODULE UploadProofs ----------------------------
(***************************************************************************)
(* Proofs about Upload, for any priority bounds, size limit and number of  *)
(* parts.                                                                  *)
(***************************************************************************)
EXTENDS Upload, TLAPS

UTypes ==
    /\ upc \in {"read", "store", "create", "enqueue", "answered"}
    /\ priority \in Int
    /\ size \in Nat /\ read \in Nat

\* The file part: what has been read never exceeds the limit nor the file.
UFile ==
    /\ upc = "store" => ~ fileUploaded /\ read <= size /\ read <= Limit
    /\ fileUploaded => read = size /\ size <= Limit
    /\ answer = "too large" => size > Limit

\* Before the answer, the object is there exactly when the handler knows it, and the row
\* only after the commit.
UHandler ==
    /\ Valid(priority)
    /\ upc # "answered" => answer = "none" /\ object = fileUploaded
    /\ upc \in {"read", "store", "create"} => row = NoRow
    /\ upc \in {"create", "enqueue"} => fileUploaded
    /\ upc = "enqueue" => row = priority

Good == UFile /\ UHandler /\ AcceptedIsDurable /\ OrphansKnown
UInv == UTypes /\ Good

LEMMA UInitInv == UInit => UInv
  <1> SUFFICES ASSUME UInit PROVE UInv
    OBVIOUS
  <1>1. UTypes
    BY DEF UInit, UTypes
  <1>2. UFile
    BY LimitAssumption DEF UInit, UFile
  <1>3. UHandler
    BY BoundsAssumption DEF UInit, UHandler, Valid
  <1>4. AcceptedIsDurable /\ OrphansKnown
    BY DEF UInit, AcceptedIsDurable, OrphansKnown
  <1> QED BY <1>1, <1>2, <1>3, <1>4 DEF UInv, Good

LEMMA UTypesKept == ASSUME UTypes, UNext PROVE UTypes'
  <1> USE DEF UTypes
  <1>1. ASSUME NEW p \in MinPriority - 1 .. MaxPriority + 1, PriorityPart(p) \/ BadPriorityPart(p)
        PROVE  UTypes'
    <2>1. p \in Int
      BY BoundsAssumption
    <2>2. CASE PriorityPart(p)
      BY <2>1, <2>2 DEF PriorityPart, file
    <2>3. CASE BadPriorityPart(p)
      BY <2>3 DEF BadPriorityPart, Answer, file
    <2> QED BY <1>1, <2>2, <2>3
  <1>2. ASSUME NEW n \in 1 .. Limit + 1, FilePart(n)
        PROVE  UTypes'
    BY <1>2, LimitAssumption DEF FilePart, NextPart
  <1>3. ASSUME NEW n \in 1 .. Limit + 1, NEW k \in 1 .. Limit + 1, ReadChunk(n, k)
        PROVE  UTypes'
    BY <1>3, LimitAssumption DEF ReadChunk
  <1>4. CASE NotVideo \/ Stored \/ TooLarge \/ StoreFails \/ SecondFilePart \/ OtherPart
    BY <1>4 DEF NotVideo, Stored, TooLarge, StoreFails, SecondFilePart, OtherPart, NextPart,
                Answer, file
  <1>5. CASE BrokenForm \/ EndOfForm \/ CreateQueuedJob \/ CreateFails \/ EnqueueJob \/ Answered
    BY <1>5 DEF BrokenForm, EndOfForm, CreateQueuedJob, CreateFails, EnqueueJob, Answered,
                Answer, file, uvars
  <1> QED BY <1>1, <1>2, <1>3, <1>4, <1>5 DEF UNext

LEMMA UStep == ASSUME UInv, [UNext]_uvars PROVE UInv'
  <1>1. UTypes'
    <2>1. CASE UNext
      BY <2>1, UTypesKept DEF UInv
    <2>2. CASE UNCHANGED uvars
      BY <2>2 DEF UInv, UTypes, uvars, file
    <2> QED BY <2>1, <2>2
  <1> SUFFICES Good'
    BY <1>1 DEF UInv, Good
  <1> USE DEF UInv, Good, UTypes
  <1>2. ASSUME NEW p \in MinPriority - 1 .. MaxPriority + 1, PriorityPart(p)
        PROVE  Good'
    BY <1>2
    DEF PriorityPart, NextPart, UFile, UHandler, AcceptedIsDurable, OrphansKnown, Valid, file
  <1>3. ASSUME NEW n \in 1 .. Limit + 1, FilePart(n)
        PROVE  Good'
    BY <1>3, LimitAssumption
    DEF FilePart, NextPart, UFile, UHandler, AcceptedIsDurable, OrphansKnown, Valid, file
  <1>4. ASSUME NEW n \in 1 .. Limit + 1, NEW k \in 1 .. Limit + 1, ReadChunk(n, k)
        PROVE  Good'
    BY <1>4, LimitAssumption
    DEF ReadChunk, Clipped, UFile, UHandler, AcceptedIsDurable, OrphansKnown, Valid, file
  <1>5. CASE Stored
    BY <1>5
    DEF Stored, UFile, UHandler, AcceptedIsDurable, OrphansKnown, Valid, file
  <1>6. CASE StoreFails
    BY <1>6
    DEF StoreFails, Answer, UFile, UHandler, AcceptedIsDurable, OrphansKnown, Valid, file
  <1>7. CASE OtherPart
    BY <1>7
    DEF OtherPart, NextPart, UFile, UHandler, AcceptedIsDurable, OrphansKnown, Valid, file
  <1>8. CASE CreateQueuedJob
    BY <1>8
    DEF CreateQueuedJob, UFile, UHandler, AcceptedIsDurable, OrphansKnown, Valid, file
  <1>9. CASE CreateFails
    BY <1>9
    DEF CreateFails, Answer, UFile, UHandler, AcceptedIsDurable, OrphansKnown, Valid, file
  <1>10. CASE EnqueueJob
    BY <1>10
    DEF EnqueueJob, Answer, UFile, UHandler, AcceptedIsDurable, OrphansKnown, Valid, file
  <1>11. ASSUME NEW p \in MinPriority - 1 .. MaxPriority + 1, BadPriorityPart(p)
        PROVE  Good'
    <2>1. UFile'
      BY <1>11 DEF BadPriorityPart, NextPart, Answer, UFile, UHandler, file
    <2>2. UHandler'
      BY <1>11 DEF BadPriorityPart, NextPart, Answer, UHandler, Valid
    <2>3. AcceptedIsDurable'
      BY <1>11 DEF BadPriorityPart, NextPart, Answer, AcceptedIsDurable, Valid
    <2>4. OrphansKnown'
      <3>1. CASE fileUploaded
        BY <1>11, <3>1 DEF BadPriorityPart, NextPart, Answer, RemoveStoredObject, OrphansKnown, UHandler
      <3>2. CASE ~ fileUploaded
        <4>1. object = fileUploaded /\ row = NoRow
          BY <1>11 DEF BadPriorityPart, NextPart, UHandler
        <4>2. object' = object /\ row' = row
          BY <1>11, <3>2 DEF BadPriorityPart
        <4>3. ~ object'
          BY <3>2, <4>1, <4>2
        <4> QED BY <4>1, <4>2, <4>3 DEF OrphansKnown
      <3> QED BY <3>1, <3>2
    <2> QED BY <2>1, <2>2, <2>3, <2>4
  <1>12. CASE NotVideo
    <2>1. UFile'
      BY <1>12 DEF NotVideo, NextPart, Answer, UFile, UHandler, file
    <2>2. UHandler'
      BY <1>12 DEF NotVideo, NextPart, Answer, UHandler, Valid
    <2>3. AcceptedIsDurable'
      BY <1>12 DEF NotVideo, NextPart, Answer, AcceptedIsDurable, Valid
    <2>4. OrphansKnown'
      BY <1>12 DEF NotVideo, NextPart, Answer, OrphansKnown, UHandler, UFile
    <2> QED BY <2>1, <2>2, <2>3, <2>4
  <1>13. CASE TooLarge
    <2>1. UFile'
      <3>1. read >= Limit /\ read < size
        BY <1>13 DEF TooLarge
      <3>2. size' > Limit
        <4>1. size' = size
          BY <1>13 DEF TooLarge, file
        <4>2. size \in Nat /\ read \in Nat
          OBVIOUS
        <4> QED BY <3>1, <4>1, <4>2, LimitAssumption
      <3>3. ~ fileUploaded' /\ upc' = "answered"
        BY <1>13 DEF TooLarge, Answer, UFile
      <3> QED BY <3>2, <3>3 DEF UFile
    <2>2. UHandler'
      BY <1>13 DEF TooLarge, Answer, UHandler, Valid
    <2>3. AcceptedIsDurable'
      BY <1>13 DEF TooLarge, Answer, AcceptedIsDurable, Valid
    <2>4. OrphansKnown'
      BY <1>13 DEF TooLarge, Answer, OrphansKnown, UHandler, UFile
    <2> QED BY <2>1, <2>2, <2>3, <2>4
  <1>14. CASE SecondFilePart
    <2>1. UFile'
      BY <1>14 DEF SecondFilePart, NextPart, Answer, UFile, UHandler, file
    <2>2. UHandler'
      BY <1>14 DEF SecondFilePart, NextPart, Answer, UHandler, Valid
    <2>3. AcceptedIsDurable'
      BY <1>14 DEF SecondFilePart, NextPart, Answer, AcceptedIsDurable, Valid
    <2>4. OrphansKnown'
      BY <1>14 DEF SecondFilePart, NextPart, Answer, OrphansKnown, UHandler, UFile
    <2> QED BY <2>1, <2>2, <2>3, <2>4
  <1>15. CASE BrokenForm
    <2>1. UFile'
      BY <1>15 DEF BrokenForm, Answer, UFile, UHandler, file
    <2>2. UHandler'
      BY <1>15 DEF BrokenForm, Answer, UHandler, Valid
    <2>3. AcceptedIsDurable'
      BY <1>15 DEF BrokenForm, Answer, AcceptedIsDurable, Valid
    <2>4. OrphansKnown'
      BY <1>15 DEF BrokenForm, Answer, OrphansKnown, UHandler, UFile
    <2> QED BY <2>1, <2>2, <2>3, <2>4
  <1>16. CASE EndOfForm
    <2>1. UFile'
      BY <1>16 DEF EndOfForm, Answer, UFile, UHandler, file
    <2>2. UHandler'
      BY <1>16 DEF EndOfForm, Answer, UHandler, Valid
    <2>3. AcceptedIsDurable'
      BY <1>16 DEF EndOfForm, Answer, AcceptedIsDurable, Valid
    <2>4. OrphansKnown'
      BY <1>16 DEF EndOfForm, Answer, OrphansKnown, UHandler, UFile
    <2> QED BY <2>1, <2>2, <2>3, <2>4
  <1>17. CASE UNCHANGED uvars
    <2>1. UFile'
      BY <1>17 DEF uvars, UFile, UHandler, file
    <2>2. UHandler'
      BY <1>17 DEF uvars, UHandler, Valid
    <2>3. AcceptedIsDurable'
      BY <1>17 DEF uvars, AcceptedIsDurable, Valid
    <2>4. OrphansKnown'
      BY <1>17 DEF uvars, OrphansKnown, UHandler, UFile
    <2> QED BY <2>1, <2>2, <2>3, <2>4
  <1> QED BY <1>2, <1>3, <1>4, <1>5, <1>6, <1>7, <1>8, <1>9, <1>10, <1>11, <1>12, <1>13, <1>14, <1>15, <1>16, <1>17
         DEF UNext, Answered

LEMMA UInvHolds == USpec => []UInv
  BY UInitInv, UStep, PTL DEF USpec

\* An accepted upload has its object and a row with a priority the queue accepts.
THEOREM DurableTheorem == USpec => []AcceptedIsDurable
  BY UInvHolds, PTL DEF UInv, Good

\* What a refused upload leaves behind is known, as long as no call fails.
THEOREM OrphansTheorem == USpec => []OrphansKnown
  BY UInvHolds, PTL DEF UInv, Good

\* For any limit and any chunks, the size limit is exact.
THEOREM LimitTheorem == USpec => []LimitIsExact
  <1>1. UInv => LimitIsExact
    BY DEF UInv, Good, UFile, LimitIsExact
  <1> QED BY UInvHolds, <1>1, PTL
=============================================================================
