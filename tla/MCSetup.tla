------------------------------ MODULE MCSetup ------------------------------
(***************************************************************************)
(* Setup for TLC.  Three runs of the wizard: each may change part of what  *)
(* the ones before it left.                                                *)
(***************************************************************************)
EXTENDS Setup
=============================================================================
