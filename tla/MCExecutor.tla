---------------------------- MODULE MCExecutor ----------------------------
(***************************************************************************)
(* Executor for TLC.  Limits and row counts are scaled down together: the  *)
(* thresholds stay reachable from both sides (limits and matching rows go  *)
(* from 0 to beyond DefaultLimit and StreamingThreshold), a result spans   *)
(* several chunks with and without a short last one, and the event channel *)
(* is small enough to fill up.                                             *)
(***************************************************************************)
EXTENDS Executor
=============================================================================
