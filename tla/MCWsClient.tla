----------------------------- MODULE MCWsClient -----------------------------
(***************************************************************************)
(* WsClient for TLC.  The channel has one or two slots instead of 64 so    *)
(* that it fills up.                                                       *)
(***************************************************************************)
EXTENDS WsClient
=============================================================================
