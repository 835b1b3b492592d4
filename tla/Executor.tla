------------------------------ MODULE Executor ------------------------------
(***************************************************************************)
(* QueryExecutor::execute (crates/kyomi-connect/src/executor.rs) for one   *)
(* request: dispatch on the operation, the buffered query path, and the    *)
(* streaming path that collects the events of module ArrowStream.  The     *)
(* request task may be aborted while it collects (module WsClient).        *)
(***************************************************************************)
EXTENDS ArrowStream

CONSTANT
  StreamingThreshold  \* 1000

ASSUME ThresholdAssumption == StreamingThreshold \in Nat

VARIABLES
  op,         \* ConnectOp
  format,     \* QueryFormat
  pc,         \* "start", "collecting", "returned", "cancelled"
  responses   \* the Vec<ConnectResponse> that is returned

vars == <<streamVars, op, format, pc, responses>>

Ops == {"test_connection", "execute_query", "dry_run", "discover_catalog"}

(***************************************************************************)
(* ConnectResponseBody.  The Arrow variants carry the fields of the stream *)
(* events and are identified with them.  A Result of a query carries what  *)
(* QueryResult serialises; record_batch is #[serde(skip)], so `rows` is    *)
(* the number of rows the server can read from it.  `fetched` is a history *)
(* field: how many rows the provider had in its Arrow batch.               *)
(***************************************************************************)
Result == [type |-> "result"]
QueryResult(status, more, n, sent) ==
  [type |-> "query_result", status |-> status, has_more |-> more, fetched |-> n, rows |-> sent]

Init ==
  /\ StreamInit
  /\ op \in Ops
  /\ format \in {"json", "arrow"}
  /\ pc = "start"
  /\ responses = <<>>

Return(rs) ==
  /\ pc' = "returned"
  /\ responses' = rs
  /\ UNCHANGED <<streamVars, op, format>>

\* Every operation but execute_query returns one response.
HandleOther ==
  /\ pc = "start"
  /\ op # "execute_query"
  /\ \/ Return(<<Result>>)
     \/ Return(<<ErrorEvent>>)

\* execute_query whose params are missing or malformed, or whose provider
\* reports an error.
HandleError ==
  /\ pc = "start"
  /\ op = "execute_query"
  /\ Return(<<ErrorEvent>>)

UseStreaming(limit) == ~(limit # NoLimit /\ limit <= StreamingThreshold)

HasMore(n) == n = EffectiveLimit(query)

\* What serde makes of QueryResult: record_batch is skipped.
SerialisedRows(n) == 0

\* The provider's execute_query returned Ok: an error status, or n rows.  An
\* Arrow batch is built if there is a row and Arrow accepts it; its rows are
\* sent as header, batch, complete when the request asked for Arrow.
HandleBuffered ==
  /\ pc = "start"
  /\ op = "execute_query"
  /\ ~UseStreaming(query.limit)
  /\ \/ Return(<<QueryResult("error", FALSE, 0, SerialisedRows(0))>>)
     \/ \E n \in {0, Fetched(query)} :
          IF format = "arrow" /\ n > 0
          THEN Return(<<SchemaEvent, BatchEvent(0, 1, n), CompleteEvent(1, n)>>)
          ELSE Return(<<QueryResult("success", HasMore(n), n, SerialisedRows(n))>>)

\* Limit above the threshold or none: open the stream.
HandleStreaming ==
  /\ pc = "start"
  /\ op = "execute_query"
  /\ UseStreaming(query.limit)
  /\ Spawn
  /\ pc' = "collecting"
  /\ UNCHANGED <<op, format, responses>>

\* stream.next() yields an event: push its response; an error ends the loop
\* and drops the stream.
Collect ==
  /\ pc = "collecting"
  /\ EventReady
  /\ received' = received + 1
  /\ responses' = Append(responses, events[received + 1])
  /\ IF events[received + 1] = ErrorEvent
     THEN pc' = "returned" /\ rx' = "dropped"
     ELSE UNCHANGED <<pc, rx>>
  /\ UNCHANGED <<query, producerVars, events, op, format>>

\* stream.next() yields None: return what has been collected.
CollectEnd ==
  /\ pc = "collecting"
  /\ EndOfStream
  /\ pc' = "returned"
  /\ rx' = "dropped"
  /\ UNCHANGED <<query, producerVars, events, received, op, format, responses>>

\* The session ends and the request task is aborted: a stream it holds is
\* dropped, the producer is not told.
Abort ==
  /\ pc \in {"start", "collecting"}
  /\ pc' = "cancelled"
  /\ rx' = IF pc = "collecting" THEN "dropped" ELSE rx
  /\ UNCHANGED <<query, producerVars, events, received, op, format, responses>>

ProducerStep == Producer /\ UNCHANGED <<op, format, pc, responses>>

Next ==
  \/ HandleOther
  \/ HandleError
  \/ HandleBuffered
  \/ HandleStreaming
  \/ Collect
  \/ CollectEnd
  \/ Abort
  \/ ProducerStep

Spec == Init /\ [][Next]_vars

(***************************************************************************)
(* Fairness.  Both tasks are polled while they can run; row_stream.next()  *)
(* is bounded by a timeout, so the producer never waits for ever.          *)
(***************************************************************************)
FairSpec == Spec /\ WF_vars(ProducerStep) /\ WF_vars(Collect) /\ WF_vars(CollectEnd)

-----------------------------------------------------------------------------
(* Properties *)

Last(s) == s[Len(s)]
Terminal == {"result", "query_result", "complete", "error"}

\* Whatever path a request takes, the responses returned for it end with the
\* one response that tells the server it is over, and none comes before: the
\* server never waits for more and never reads past the end.
OneTerminal ==
  pc = "returned" =>
    /\ responses # <<>>
    /\ \A i \in DOMAIN responses : responses[i].type \in Terminal <=> i = Len(responses)

\* An answer that ends in complete carries every fetched row exactly once and
\* in order, on the buffered and on the streaming path alike.
CompleteMeansEveryRow ==
  pc = "returned" /\ Last(responses).type = "complete" =>
    LET n == Len(responses) - 2 IN
    /\ responses[1] = SchemaEvent
    /\ Last(responses) = CompleteEvent(n, Fetched(query))
    /\ \A c \in 1..n :
         /\ responses[c + 1].chunk_index = c - 1
         /\ responses[c + 1].first = IF c = 1 THEN 1 ELSE responses[c].last + 1
    /\ IF n = 0 THEN Fetched(query) = 0 ELSE responses[n + 1].last = Fetched(query)

\* The stream of the sqlx providers implements what every stream promises.
Contract == INSTANCE ResultStream WITH total <- Fetched(query)
StreamContract == Contract!Spec

\* The agent's request task finishes unless it is aborted.
Finishes == (pc = "collecting") ~> (pc \in {"returned", "cancelled"})

\* A producer whose request was aborted, or whose collector stopped at an
\* error, ends: no orphan keeps a database connection for ever.
OrphanStops == (rx = "dropped") ~> (producer # "running")

-----------------------------------------------------------------------------
(* What the documentation says *)

\* docs: "None for no limit" - a stream without a limit returns every row.
NoLimitMeansAllRows ==
  pc = "returned" /\ query.limit = NoLimit /\ Last(responses).type = "complete" =>
    Last(responses).total_rows = query.matching
=============================================================================
