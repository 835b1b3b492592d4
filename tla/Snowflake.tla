------------------------------ MODULE Snowflake ------------------------------
(***************************************************************************)
(* SnowflakeProvider (providers/snowflake.rs).                             *)
(***************************************************************************)
EXTENDS StatementApi

frame == <<request, token, rx>>

Secrets == {"static", "oauth", "keypair"}

\* The JWT of a key pair is signed once, when the provider is made.
GenerateKeypairJwt == life' = JwtLifetime

\* The login request returns a session token or fails.
LoginPassword ==
  /\ pc' \in {"ready", "unmade"}
  /\ UNCHANGED life

New ==
  /\ CASE auth = "oauth" -> pc' = "ready" /\ UNCHANGED life
       [] auth = "keypair" -> \/ pc' = "ready" /\ GenerateKeypairJwt
                              \/ pc' = "unmade" /\ UNCHANGED life
       [] auth = "static" -> LoginPassword
  /\ UNCHANGED <<request, auth, access, expiry, refresh, revoked, tokenless, waited, statement,
                 got, out, answer, rx, misread>>

EffectiveLimit == IF limit = NoLimit THEN DefaultLimit ELSE limit

\* list_databases and list_warehouses go through execute_query, which reports
\* an Err of submit_statement in an Ok.
Failed == IF call = "list" THEN Listing(0) ELSE Error

\* A statement that fails at once is refused with its message.
SubmitStatement ==
  /\ \E r \in Replies :
       IF r = "answer"
       THEN /\ Accept(IF call = "query" THEN Paged(EffectiveLimit, matching) ELSE matching)
            /\ CASE stmt' = "succeeded" -> Goto("result")
                 [] stmt' = "failed" -> Return(Failed)
                 [] stmt' = "running" -> StartPolling
       ELSE Return(Failed) /\ UNCHANGED statement
  /\ UNCHANGED frame

PollStatement ==
  /\ IF Expired THEN Return(Failed) ELSE Goto("asked")
  /\ UNCHANGED <<frame, statement>>

\* The HTTP status of a poll is not looked at: a refusal is neither "still
\* running" nor "failed with error", and counts as the result.
Misread ==
  /\ pc' = "result"
  /\ misread' = TRUE
  /\ UNCHANGED <<waited, out, answer, got>>

PollStatementUrl ==
  /\ \E r \in Replies :
       CASE r = "answer" /\ stmt = "succeeded" -> Goto("result")
         [] r = "answer" /\ stmt = "running" -> Goto("polling")
         [] r = "refused" -> Misread
         [] OTHER -> Return(Failed)
  /\ UNCHANGED <<frame, statement>>

\* Only the first partition is read; a misread body has no columns and no data.
ExecuteQuery ==
  LET n == IF misread THEN 0 ELSE Rows(1)
  IN /\ Return(CASE call \in {"test", "dry_run"} -> Ok
                 [] call = "list" -> Listing(n)
                 [] OTHER -> QueryResult(n, n = EffectiveLimit))
     /\ UNCHANGED <<frame, statement>>

StreamSubmit ==
  /\ \E r \in Replies :
       IF r = "answer"
       THEN /\ Accept(matching)
            /\ CASE stmt' = "succeeded" -> Goto("result")
                 [] stmt' = "failed" -> Finish(ErrorEvent)
                 [] stmt' = "running" -> StartPolling
       ELSE Finish(ErrorEvent) /\ UNCHANGED statement
  /\ UNCHANGED frame

StreamPoll ==
  /\ IF Expired THEN Finish(ErrorEvent) ELSE Goto("asked")
  /\ UNCHANGED <<frame, statement>>

StreamPollReply ==
  /\ \E r \in Replies :
       CASE r = "answer" /\ stmt = "succeeded" -> Goto("result")
         [] r = "answer" /\ stmt = "running" -> Goto("polling")
         [] r = "refused" -> Misread
         [] OTHER -> Finish(ErrorEvent)
  /\ UNCHANGED <<frame, statement>>

StreamSchema ==
  /\ Emit(SchemaEvent, "inline")
  /\ UNCHANGED <<frame, statement, waited, got, answer, misread>>

SendPartition(k) ==
  IF misread \/ PageRows(k) = 0
  THEN pc' = "fetch" /\ UNCHANGED out
  ELSE Emit(BatchEvent(Batches, RowsSent + 1, RowsSent + PageRows(k)), "fetch")

StreamInline ==
  /\ SendPartition(1)
  /\ got' = 1
  /\ UNCHANGED <<frame, statement, waited, answer, misread>>

PartitionCount == IF misread THEN 1 ELSE Len(pages)

\* A partition with other columns than the first is an error.
StreamPartition ==
  /\ got < PartitionCount
  /\ \E r \in Replies :
       IF r = "answer"
       THEN \/ SendPartition(got + 1) /\ got' = got + 1 /\ UNCHANGED <<waited, answer, misread>>
            \/ Finish(ErrorEvent)
       ELSE Finish(ErrorEvent)
  /\ UNCHANGED <<frame, statement>>

StreamComplete ==
  /\ got = PartitionCount
  /\ Finish(CompleteEvent(Batches, RowsSent))
  /\ UNCHANGED <<frame, statement>>

Buffered == call # "stream"

Next ==
  \/ pc = "connect" /\ New
  \/ pc = "submit" /\ Buffered /\ SubmitStatement
  \/ pc = "polling" /\ Buffered /\ PollStatement
  \/ pc = "asked" /\ Buffered /\ PollStatementUrl
  \/ pc = "result" /\ Buffered /\ ExecuteQuery
  \/ pc = "submit" /\ ~Buffered /\ StreamSubmit
  \/ pc = "polling" /\ ~Buffered /\ StreamPoll
  \/ pc = "asked" /\ ~Buffered /\ StreamPollReply
  \/ pc = "result" /\ ~Buffered /\ StreamSchema
  \/ pc = "inline" /\ ~Buffered /\ StreamInline
  \/ pc = "fetch" /\ ~Buffered /\ (StreamPartition \/ StreamComplete)
=============================================================================
