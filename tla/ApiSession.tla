----------------------------- MODULE ApiSession -----------------------------
(***************************************************************************)
(* A client of the API from its upload to its last read: the upload of the *)
(* job Mine, step by step (Upload), while reads and statistics (JobReads)  *)
(* go on.  The two meet in the job's row, which createQueuedJob inserts:   *)
(* the same step makes the job exist for the workers and the readers.      *)
(***************************************************************************)
EXTENDS Upload, JobReads

CONSTANT Mine

ASSUME MineAssumption == Mine \in Jobs

svars == <<uvars, rvars>>

SInit == UInit /\ RInit

\* The commit of createQueuedJob is the contract's Accept.
UploadStep ==
    /\ UNext
    /\ IF row' = row THEN UNCHANGED rvars ELSE NewJob(Mine)

OtherStep ==
    /\ ClientStep \/ StoreStep
    /\ UNCHANGED uvars

SNext == UploadStep \/ OtherStep

SSpec == SInit /\ [][SNext]_svars

-----------------------------------------------------------------------------
\* Once the upload has been answered 202, no read answers that the job is not found,
\* whether or not its queue entry was written.
AcceptedIsFound ==
    [][answer = "accepted" /\ about = Mine /\ reply' # reply => reply'.code # 404]_svars
=============================================================================
