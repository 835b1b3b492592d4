------------------------------ MODULE MCAgent ------------------------------
(***************************************************************************)
(* Agent for TLC with the real durations in units of five seconds: tests   *)
(* every 30 s that take up to 5 s, probes every 30 s after 10 s, and the   *)
(* orchestrator's default of three failures.                               *)
(***************************************************************************)
EXTENDS Agent
=============================================================================
