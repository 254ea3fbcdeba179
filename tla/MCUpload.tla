------------------------------ MODULE MCUpload ------------------------------
(***************************************************************************)
(* Upload for TLC.                                                         *)
(***************************************************************************)
EXTENDS Upload

\* The priority bounds of the small instance.
LowestPriority == -1
HighestPriority == 1

=============================================================================
