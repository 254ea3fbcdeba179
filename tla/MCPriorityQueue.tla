--------------------------- MODULE MCPriorityQueue ---------------------------
(***************************************************************************)
(* PriorityQueue for TLC; the constants are in the configuration.          *)
(***************************************************************************)
EXTENDS PriorityQueue
=============================================================================
