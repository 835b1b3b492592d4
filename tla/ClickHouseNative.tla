-------------------------- MODULE ClickHouseNative --------------------------
(***************************************************************************)
(* DataFusionClickHouseProvider (providers/clickhouse_datafusion.rs), the  *)
(* provider of ClickHouse with the feature datafusion-providers.  It has   *)
(* no stream of its own: the default method of the trait (provider.rs)     *)
(* makes one of a buffered result (stream.rs).                             *)
(***************************************************************************)
EXTENDS StatementApi

frame == <<request, token, rx>>

\* A query is made to see that the connection works.
New ==
  /\ pc' \in {"ready", "unmade"}
  /\ UNCHANGED <<frame, waited, statement, got, out, answer, misread>>

\* LIMIT is added to whatever text there is, so that one with a LIMIT of its
\* own is refused.
QueryArrow ==
  IF call \in {"query", "stream"} /\ limit # NoLimit /\ text # "plain"
  THEN Replies \ {"answer"}
  ELSE Replies

Fetched == IF limit = NoLimit THEN matching ELSE Min2(limit, matching)
HasMore(n) == limit # NoLimit /\ n = limit

ExecuteQuery ==
  /\ \E r \in QueryArrow :
       IF r = "answer"
       THEN /\ stmt' = "succeeded" /\ UNCHANGED pages
            /\ Return(CASE call = "test" -> Ok
                        [] call = "list" -> Listing(Fetched)
                        [] OTHER -> QueryResult(Fetched, HasMore(Fetched)))
       ELSE Return(Error) /\ UNCHANGED statement
  /\ UNCHANGED frame

\* The text is parsed here, the server is not asked.
DryRun ==
  /\ Return(Ok) \/ Return(Error)
  /\ UNCHANGED <<frame, statement>>

\* The result is fetched before there is a stream; it may have no batch at all.
StreamQuery ==
  /\ \E r \in QueryArrow :
       IF r = "answer"
       THEN /\ stmt' = "succeeded"
            /\ pages' \in {<<Fetched>>} \cup (IF Fetched = 0 THEN {<<>>} ELSE {})
            /\ Emit(SchemaEvent, "rows")
            /\ UNCHANGED <<waited, answer, got, misread>>
       ELSE Return(Error) /\ UNCHANGED statement
  /\ UNCHANGED frame

QueryResultToArrowStream ==
  /\ IF pages = <<>> THEN pc' = "complete" /\ UNCHANGED out ELSE Emit(BatchEvent(0, 1, pages[1]), "complete")
  /\ UNCHANGED <<frame, statement, waited, answer, got, misread>>

StreamComplete ==
  /\ Finish(CompleteEvent(Batches, RowsSent))
  /\ UNCHANGED <<frame, statement>>

Next ==
  \/ pc = "connect" /\ New
  \/ pc = "submit" /\ call \in {"test", "query", "list"} /\ ExecuteQuery
  \/ pc = "submit" /\ call = "dry_run" /\ DryRun
  \/ pc = "submit" /\ call = "stream" /\ StreamQuery
  \/ pc = "rows" /\ QueryResultToArrowStream
  \/ pc = "complete" /\ StreamComplete
=============================================================================
