------------------------------- MODULE MCTds -------------------------------
(***************************************************************************)
(* Tds for TLC: two calls, each free to make any of these requests again   *)
(* and again.  They page below, at and past the limit, and past 2^32 - 1.  *)
(***************************************************************************)
EXTENDS Tds

Request(kind, shape, matching, limit, offset, total) ==
  [kind |-> kind, shape |-> shape, matching |-> matching, limit |-> limit,
   offset |-> offset, total |-> total]

MCRequests ==
  {Request("query", "plain", 3, 1, 1, TRUE),
   Request("query", "ordered", 2, NoLimit, 0, FALSE),
   Request("query", "plain", 2, U32 - 1, 1, FALSE),
   Request("stream", "plain", 5, NoLimit, 1, FALSE),
   Request("list", "top", 2, NoLimit, 0, FALSE),
   Request("dry_run", "other", 0, NoLimit, 0, FALSE)}
=============================================================================
