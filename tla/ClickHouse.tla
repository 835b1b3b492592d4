----------------------------- MODULE ClickHouse -----------------------------
(***************************************************************************)
(* ClickHouseProvider (providers/clickhouse.rs): one HTTP request for a    *)
(* call, and a stream that asks for page after page with LIMIT and OFFSET. *)
(***************************************************************************)
EXTENDS StatementApi

frame == <<request, token, rx>>

\* The tunnel or a header may be wrong; the server's time zone may not be.
New ==
  /\ pc' \in {"ready", "unmade"}
  /\ UNCHANGED <<frame, waited, statement, got, out, answer, misread>>

EffectiveLimit == IF limit = NoLimit THEN DefaultLimit ELSE limit

\* list_databases drops the error execute_query reports in its Ok.
Failed == IF call = "list" THEN Listing(0) ELSE Error

ExecuteQuery ==
  LET n == Paged(EffectiveLimit, matching) IN
  /\ \E r \in Replies :
       IF r = "answer"
       THEN /\ stmt' = "succeeded" /\ UNCHANGED pages
            /\ Return(CASE call \in {"test", "dry_run"} -> Ok
                        [] call = "list" -> Listing(n)
                        [] OTHER -> QueryResult(n, n = EffectiveLimit))
       ELSE Return(Failed) /\ UNCHANGED statement
  /\ UNCHANGED frame

\* A page from OFFSET got on.  The first one gives the columns, and a later one
\* may have others.
StreamPage ==
  /\ \E r \in Replies :
       IF r = "answer"
       THEN /\ stmt' = "succeeded"
            /\ pages' = Append(pages, got + Paged(PageSize, matching - got))
            /\ \/ pages = <<>> /\ Emit(SchemaEvent, "rows") /\ UNCHANGED <<waited, answer, got, misread>>
               \/ pages # <<>> /\ Goto("rows")
               \/ pages # <<>> /\ Finish(ErrorEvent)
       ELSE Finish(ErrorEvent) /\ UNCHANGED statement
  /\ UNCHANGED frame

\* A page that is not full, or not a page, is the last.
StreamRows ==
  LET n == Rows(Len(pages)) - got
      next == IF n < PageSize \/ text # "plain" THEN "complete" ELSE "submit"
  IN /\ IF n = 0 THEN pc' = next /\ UNCHANGED out ELSE Emit(BatchEvent(Batches, got + 1, got + n), next)
     /\ got' = got + n
     /\ UNCHANGED <<frame, statement, waited, answer, misread>>

StreamComplete ==
  /\ Finish(CompleteEvent(Batches, RowsSent))
  /\ UNCHANGED <<frame, statement>>

Next ==
  \/ pc = "connect" /\ New
  \/ pc = "submit" /\ call # "stream" /\ ExecuteQuery
  \/ pc = "submit" /\ call = "stream" /\ StreamPage
  \/ pc = "rows" /\ StreamRows
  \/ pc = "complete" /\ StreamComplete
=============================================================================
