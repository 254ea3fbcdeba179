------------------------------- MODULE Upload -------------------------------
(***************************************************************************)
(* The upload handler of the API: it reads the parts of one multipart form *)
(* in the order the client sends them, streams the file to object storage, *)
(* commits the job and enqueues it.  Object storage and PostgreSQL share   *)
(* no transaction, so what an error leaves behind depends on when it comes.*)
(*                                                                         *)
(* A file part is a number of bytes, and a video or not; sizeLimitedReader *)
(* hands its bytes to object storage.  A priority part is a number or not. *)
(***************************************************************************)
EXTENDS Integers

CONSTANTS
    MinPriority, MaxPriority,
    NoRow,          \* no job row
    Limit,          \* UploadSizeLimit, in bytes
    MaxParts        \* bound on the parts of a form

ASSUME BoundsAssumption ==
    MinPriority \in Int /\ MaxPriority \in Int /\ MinPriority <= 0 /\ 0 <= MaxPriority
ASSUME NoRowAssumption == NoRow \notin Int
ASSUME LimitAssumption == Limit \in Nat
ASSUME PartsAssumption == MaxParts \in Nat

VARIABLES
    upc,            \* the handler: "read", "store", "create", "enqueue" or "answered"
    parts,          \* parts read so far
    priority,       \* local
    fileUploaded,   \* local
    object,         \* the raw object of this job id is in storage
    row,            \* the priority in the job's row, or NoRow
    inQueue,        \* the job is in the queue
    size,           \* bytes of the file part
    read,           \* bytes sizeLimitedReader has handed on
    answer,         \* the response
    faulty          \* a call to storage, PostgreSQL or Redis has failed

file == <<size, read>>
uvars == <<upc, parts, priority, fileUploaded, object, row, inQueue, file, answer, faulty>>

UInit ==
    /\ upc = "read"
    /\ parts = 0
    /\ priority = 0
    /\ fileUploaded = FALSE
    /\ object = FALSE
    /\ row = NoRow
    /\ inQueue = FALSE
    /\ size = 0
    /\ read = 0
    /\ answer = "none"
    /\ faulty = FALSE

Answer(text) ==
    /\ upc' = "answered"
    /\ answer' = text

\* removeStoredObject ignores its error.
RemoveStoredObject ==
    \/ object' = FALSE /\ UNCHANGED faulty
    \/ UNCHANGED object /\ faulty' = TRUE

NextPart ==
    /\ upc = "read"
    /\ parts < MaxParts
    /\ parts' = parts + 1

Valid(p) == MinPriority <= p /\ p <= MaxPriority

PriorityPart(p) ==
    /\ NextPart
    /\ Valid(p)
    /\ priority' = p
    /\ UNCHANGED <<upc, fileUploaded, object, row, file, inQueue, answer, faulty>>

\* Mutant of BadPriorityPart: the stored file is forgotten.
BadPriorityKeepsObject(p) ==
    /\ NextPart
    /\ ~ Valid(p)
    /\ Answer("bad priority")
    /\ UNCHANGED <<priority, fileUploaded, object, row, file, inQueue, faulty>>

\* Out of bounds, or not an integer at all: a file stored before is removed.
BadPriorityPart(p) ==
    /\ NextPart
    /\ ~ Valid(p)
    /\ IF fileUploaded THEN RemoveStoredObject ELSE UNCHANGED <<object, faulty>>
    /\ Answer("bad priority")
    /\ UNCHANGED <<priority, fileUploaded, row, file, inQueue>>

\* storeUpload has seen a video in the first bytes; a file without bytes is none.
FilePart(n) ==
    /\ NextPart
    /\ ~ fileUploaded
    /\ upc' = "store"
    /\ size' = n
    /\ read' = 0
    /\ UNCHANGED <<priority, fileUploaded, object, row, inQueue, answer, faulty>>

NotVideo ==
    /\ NextPart
    /\ ~ fileUploaded
    /\ Answer("not a video")
    /\ UNCHANGED <<priority, fileUploaded, object, row, inQueue, file, faulty>>

\* Mutant of Clipped: the buffer is not cut to what the limit leaves.
Whole(n) == n

\* What a Read for n bytes may fetch.
Clipped(n) == IF n > Limit - read THEN Limit - read ELSE n

\* PutObject asks for n bytes and the part has k of them at hand.
ReadChunk(n, k) ==
    /\ upc = "store"
    /\ read < Limit
    /\ read < size
    /\ k <= Clipped(n) /\ k <= size - read
    /\ read' = read + k
    /\ UNCHANGED <<upc, parts, priority, fileUploaded, object, row, inQueue, size, answer, faulty>>

\* Read returns EOF, below the limit or from the probe at it: the object is stored.
Stored ==
    /\ upc = "store"
    /\ read = size
    /\ object' = TRUE
    /\ fileUploaded' = TRUE
    /\ upc' = "read"
    /\ UNCHANGED <<parts, priority, row, inQueue, file, answer, faulty>>

\* The probe at the limit finds a byte: the reader's error ends PutObject, which has
\* stored nothing, and storeUpload removes what is not there.
TooLarge ==
    /\ upc = "store"
    /\ read >= Limit
    /\ read < size
    /\ Answer("too large")
    /\ UNCHANGED <<parts, priority, fileUploaded, object, row, inQueue, file, faulty>>

\* PutObject fails, perhaps after storing the object, or the body breaks off;
\* storeUpload removes the object if it can.
StoreFails ==
    /\ upc = "store"
    /\ object' \in BOOLEAN
    /\ faulty' = TRUE
    /\ Answer("store failed")
    /\ UNCHANGED <<parts, priority, fileUploaded, row, inQueue, file>>

SecondFilePart ==
    /\ NextPart
    /\ fileUploaded
    /\ Answer("only one file")
    /\ UNCHANGED <<priority, fileUploaded, object, row, file, inQueue, faulty>>

\* A part with another name is read and dropped.
OtherPart ==
    /\ NextPart
    /\ UNCHANGED <<upc, priority, fileUploaded, object, row, file, inQueue, answer, faulty>>

\* NextPart fails: no multipart form, a malformed one, one beyond the body limit, or a
\* lost client.
BrokenForm ==
    /\ upc = "read"
    /\ Answer("invalid form")
    /\ UNCHANGED <<parts, priority, fileUploaded, object, row, file, inQueue, faulty>>

\* Mutant of EndOfForm: a form without a file makes a job.
EndOfAnyForm ==
    /\ upc = "read"
    /\ upc' = "create"
    /\ UNCHANGED <<answer, parts, priority, fileUploaded, object, row, file, inQueue, faulty>>

EndOfForm ==
    /\ upc = "read"
    /\ IF fileUploaded
       THEN upc' = "create" /\ UNCHANGED answer
       ELSE Answer("file is required")
    /\ UNCHANGED <<parts, priority, fileUploaded, object, row, file, inQueue, faulty>>

\* createQueuedJob: the transaction ...
CreateQueuedJob ==
    /\ upc = "create"
    /\ row' = priority
    /\ upc' = "enqueue"
    /\ UNCHANGED <<parts, priority, fileUploaded, object, inQueue, file, answer, faulty>>

\* Mutant of CreateFails: the error is only logged, like that of the Enqueue.
CreateFailureLogged ==
    /\ upc = "create"
    /\ row' \in {NoRow, priority}
    /\ faulty' = TRUE
    /\ Answer("accepted")
    /\ UNCHANGED <<parts, priority, fileUploaded, object, inQueue, file>>

\* ... which fails, or whose Commit takes effect and still returns an error.
CreateFails ==
    /\ upc = "create"
    /\ row' \in {NoRow, priority}
    /\ object' \in BOOLEAN
    /\ faulty' = TRUE
    /\ Answer("create failed")
    /\ UNCHANGED <<parts, priority, fileUploaded, inQueue, file>>

\* ... and the Enqueue, whose error is only logged.
EnqueueJob ==
    /\ upc = "enqueue"
    /\ \/ inQueue' = TRUE /\ UNCHANGED faulty
       \/ inQueue' = FALSE /\ faulty' = TRUE
    /\ Answer("accepted")
    /\ UNCHANGED <<parts, priority, fileUploaded, object, row, file>>

Answered == upc = "answered" /\ UNCHANGED uvars

UNext ==
    \/ \E p \in MinPriority - 1 .. MaxPriority + 1 : PriorityPart(p) \/ BadPriorityPart(p)
    \/ \E n \in 1 .. Limit + 1 : FilePart(n)
    \/ \E n, k \in 1 .. Limit + 1 : ReadChunk(n, k)
    \/ NotVideo \/ Stored \/ TooLarge \/ StoreFails \/ SecondFilePart \/ OtherPart
    \/ BrokenForm \/ EndOfForm
    \/ CreateQueuedJob \/ CreateFails \/ EnqueueJob
    \/ Answered

USpec == UInit /\ [][UNext]_uvars

-----------------------------------------------------------------------------
\* An accepted upload has its raw object and a durable row with the priority of the
\* form's last priority part, and the row's priority is one the queue accepts: the
\* later Enqueue of a worker or a reaper cannot be refused.
AcceptedIsDurable ==
    answer = "accepted" => object /\ row = priority /\ Valid(row)

\* While storage and PostgreSQL work, an upload that is not accepted leaves no job,
\* and leaves its object only when the client sends a second file or breaks the form
\* off after the file.
OrphansKnown ==
    upc = "answered" /\ answer # "accepted" /\ ~ faulty =>
        /\ row = NoRow
        /\ object => answer \in {"only one file", "invalid form"}

\* The size limit is exact whatever the chunks the storage client asks for: a stored
\* file is whole and within the limit, and only a file beyond it is refused for its size.
LimitIsExact ==
    /\ fileUploaded => read = size /\ size <= Limit
    /\ answer = "too large" => size > Limit

\* "Once the PostgreSQL job commit succeeds, the API returns 202 Accepted."
DurableIsAccepted == upc = "answered" /\ row # NoRow => answer = "accepted"
=============================================================================
