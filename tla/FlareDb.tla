------------------------------ MODULE FlareDb ------------------------------
(***************************************************************************)
(* FlareDbProvider (providers/flaredb.rs), Arrow Flight SQL: execute names *)
(* the endpoints of a result, do_get reads the batches of each.  `pages`   *)
(* are these batches in the order they are read; a batch may be empty.     *)
(***************************************************************************)
EXTENDS StatementApi

frame == <<request, token, rx>>

New ==
  /\ pc' \in {"ready", "unmade"}
  /\ UNCHANGED <<frame, waited, statement, got, out, answer, misread>>

EffectiveLimit == IF limit = NoLimit THEN DefaultLimit ELSE limit

\* list_schemas drops the error execute_query reports in its Ok.
Failed == IF call = "list" THEN Listing(0) ELSE Error

Flight(n) == Splits(n) \cup (IF n = 0 THEN {<<>>} ELSE {})

\* client.execute; a dry run ends here.
Execute ==
  /\ \E r \in Replies :
       IF r = "answer"
       THEN /\ stmt' = "succeeded"
            /\ pages' \in Flight(Paged(EffectiveLimit, matching))
            /\ IF call = "dry_run" THEN Return(Ok) ELSE Goto("fetch")
       ELSE Return(Failed) /\ UNCHANGED statement
  /\ UNCHANGED frame

\* Nothing is returned of a result that cannot be read to its end.  A test
\* reads the first ticket.
DoGet ==
  LET n == Rows(got) IN
  /\ IF got = Len(pages) \/ (call = "test" /\ got = 1)
     THEN Return(CASE call = "test" -> Ok
                   [] call = "list" -> Listing(n)
                   [] OTHER -> QueryResult(n, n = EffectiveLimit))
     ELSE \E r \in Replies :
            IF r = "answer"
            THEN got' = got + 1 /\ UNCHANGED <<pc, waited, out, answer, misread>>
            ELSE Return(Failed)
  /\ UNCHANGED <<frame, statement>>

StreamExecute ==
  /\ \E r \in Replies :
       IF r = "answer"
       THEN stmt' = "succeeded" /\ pages' \in Flight(matching) /\ Goto("fetch")
       ELSE Finish(ErrorEvent) /\ UNCHANGED statement
  /\ UNCHANGED frame

\* The schema of the first batch goes out before it, an empty one if none comes.
StreamBatch ==
  /\ IF got = Len(pages)
     THEN out = <<>> /\ Emit(SchemaEvent, "complete") /\ UNCHANGED <<waited, answer, got, misread>>
     ELSE \E r \in Replies :
            IF r = "answer"
            THEN /\ IF out = <<>> THEN Emit(SchemaEvent, "rows") ELSE pc' = "rows" /\ UNCHANGED out
                 /\ UNCHANGED <<waited, answer, got, misread>>
            ELSE Finish(ErrorEvent)
  /\ UNCHANGED <<frame, statement>>

StreamRows ==
  /\ Emit(BatchEvent(Batches, RowsSent + 1, RowsSent + PageRows(got + 1)), "fetch")
  /\ got' = got + 1
  /\ UNCHANGED <<frame, statement, waited, answer, misread>>

StreamComplete ==
  /\ Finish(CompleteEvent(Batches, RowsSent))
  /\ UNCHANGED <<frame, statement>>

Next ==
  \/ pc = "connect" /\ New
  \/ pc = "submit" /\ call # "stream" /\ Execute
  \/ pc = "fetch" /\ call # "stream" /\ DoGet
  \/ pc = "submit" /\ call = "stream" /\ StreamExecute
  \/ pc = "fetch" /\ call = "stream" /\ StreamBatch
  \/ pc = "fetch" /\ call = "stream" /\ got = Len(pages) /\ out # <<>> /\ StreamComplete
  \/ pc = "rows" /\ StreamRows
  \/ pc = "complete" /\ StreamComplete
=============================================================================
