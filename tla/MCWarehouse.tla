---------------------------- MODULE MCWarehouse ----------------------------
(***************************************************************************)
(* Warehouse for TLC.  The units of time are coarse: a key-pair JWT lives  *)
(* as long as a poll may last, a token from the authorisation server three *)
(* units, of which the last one is the buffer.                             *)
(***************************************************************************)
EXTENDS Warehouse
=============================================================================
