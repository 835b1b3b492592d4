----------------------------- MODULE Databricks -----------------------------
(***************************************************************************)
(* DatabricksProvider (providers/databricks.rs).                           *)
(***************************************************************************)
EXTENDS StatementApi

frame == <<request, token, rx>>

\* A personal access token, an OAuth token, or a client secret that is
\* exchanged for a token.  The token is kept for the provider's life.
Secrets == {"static", "oauth", "m2m"}

\* POST of the client credentials: a token, or any failure.
ExchangeM2mToken(next) ==
  \/ pc' = next /\ life' = MaxLife
  \/ pc' = "unmade" /\ UNCHANGED life

New ==
  /\ IF auth = "m2m" /\ ~access
     THEN ExchangeM2mToken("ready")
     ELSE pc' = "ready" /\ UNCHANGED life
  /\ UNCHANGED <<request, auth, access, expiry, refresh, revoked, tokenless, waited, statement,
                 got, out, answer, rx, misread>>

Prepared == IF limit = NoLimit THEN matching ELSE Paged(limit, matching)

\* What a buffered call returns for an Err of submit_statement.  list_catalogs
\* goes through execute_query, which reports it in an Ok.
Failed == IF call = "list" THEN Listing(0) ELSE Error

SubmitStatement ==
  /\ \E r \in Replies :
       IF r = "answer"
       THEN /\ Accept(IF call = "query" THEN Prepared ELSE matching)
            /\ CASE stmt' = "succeeded" -> Goto("result")
                 [] stmt' = "failed" -> Return(Failed)
                 [] stmt' = "running" -> StartPolling
       ELSE Return(Failed) /\ UNCHANGED statement
  /\ UNCHANGED frame

\* The deadline is read before the sleep, the state after the request.
PollStatement ==
  IF Expired
  THEN Return(Failed) /\ UNCHANGED <<frame, statement>>
  ELSE Goto("asked") /\ UNCHANGED <<frame, statement>>

\* Mutant: a failed statement goes on to its result.
PollReplyUnchecked ==
  /\ \E r \in Replies :
       CASE r = "answer" /\ stmt # "running" -> Goto("result")
         [] r = "answer" /\ stmt = "running" -> Goto("polling")
         [] OTHER -> Return(Failed)
  /\ UNCHANGED <<frame, statement>>
PollReply ==
  /\ \E r \in Replies :
       CASE r = "answer" /\ stmt = "succeeded" -> Goto("result")
         [] r = "answer" /\ stmt = "running" -> Goto("polling")
         [] OTHER -> Return(Failed)
  /\ UNCHANGED <<frame, statement>>

\* The manifest of a result gives the columns; the first chunk comes inline.
Result ==
  /\ CASE call \in {"test", "dry_run"} -> Return(Ok)
       [] OTHER -> /\ pc' = "fetch" /\ got' = 1
                   /\ UNCHANGED <<waited, out, answer, misread>>
  /\ UNCHANGED <<frame, statement>>

HasMore(n) == limit # NoLimit /\ n = limit

ExecuteQuery ==
  LET n == Rows(got)
  IN Return(IF call = "list" THEN Listing(n) ELSE QueryResult(n, HasMore(n)))

\* A chunk that cannot be fetched ends the loop and keeps the rows so far;
\* the body of a refusal has neither rows nor a next chunk.
FetchAllChunks ==
  /\ IF got = Len(pages)
     THEN ExecuteQuery
     ELSE \E r \in Replies :
            IF r = "answer"
            THEN pc' = "fetch" /\ got' = got + 1 /\ UNCHANGED <<waited, out, answer, misread>>
            ELSE ExecuteQuery
  /\ UNCHANGED <<frame, statement>>

StreamSubmit ==
  /\ \E r \in Replies :
       IF r = "answer"
       THEN /\ Accept(matching)
            /\ CASE stmt' = "succeeded" -> Goto("result")
                 [] stmt' = "failed" -> Finish(ErrorEvent)
                 [] stmt' = "running" -> StartPolling
       ELSE Finish(ErrorEvent) /\ UNCHANGED statement
  /\ UNCHANGED frame

StreamPoll ==
  /\ IF Expired THEN Finish(ErrorEvent) ELSE Goto("asked")
  /\ UNCHANGED <<frame, statement>>

StreamPollReply ==
  /\ \E r \in Replies :
       CASE r = "answer" /\ stmt = "succeeded" -> Goto("result")
         [] r = "answer" /\ stmt = "running" -> Goto("polling")
         [] OTHER -> Finish(ErrorEvent)
  /\ UNCHANGED <<frame, statement>>

StreamSchema ==
  /\ Emit(SchemaEvent, "inline")
  /\ UNCHANGED <<frame, statement, waited, got, answer, misread>>

\* Send the page just received, unless it is empty.
SendPage(k, next) ==
  IF PageRows(k) = 0
  THEN pc' = next /\ UNCHANGED out
  ELSE Emit(BatchEvent(Batches, RowsSent + 1, RowsSent + PageRows(k)), next)

StreamInline ==
  /\ SendPage(1, "fetch")
  /\ got' = 1
  /\ UNCHANGED <<frame, statement, waited, answer, misread>>

\* Mutant: a chunk that is lost ends the loop, as in fetch_all_chunks.
StreamChunkBreaks ==
  /\ got < Len(pages)
  /\ \E r \in Replies :
       IF r = "answer"
       THEN SendPage(got + 1, "fetch") /\ got' = got + 1 /\ UNCHANGED <<waited, answer, misread>>
       ELSE Finish(CompleteEvent(Batches, RowsSent))
  /\ UNCHANGED <<frame, statement>>
StreamChunk ==
  /\ got < Len(pages)
  /\ \E r \in Replies :
       IF r = "answer"
       THEN SendPage(got + 1, "fetch") /\ got' = got + 1 /\ UNCHANGED <<waited, answer, misread>>
       ELSE Finish(ErrorEvent)
  /\ UNCHANGED <<frame, statement>>

StreamComplete ==
  /\ got = Len(pages)
  /\ Finish(CompleteEvent(Batches, RowsSent))
  /\ UNCHANGED <<frame, statement>>

Buffered == call # "stream"

Next ==
  \/ pc = "connect" /\ New
  \/ pc = "submit" /\ Buffered /\ SubmitStatement
  \/ pc = "polling" /\ Buffered /\ PollStatement
  \/ pc = "asked" /\ Buffered /\ PollReply
  \/ pc = "result" /\ Buffered /\ Result
  \/ pc = "fetch" /\ Buffered /\ FetchAllChunks
  \/ pc = "submit" /\ ~Buffered /\ StreamSubmit
  \/ pc = "polling" /\ ~Buffered /\ StreamPoll
  \/ pc = "asked" /\ ~Buffered /\ StreamPollReply
  \/ pc = "result" /\ ~Buffered /\ StreamSchema
  \/ pc = "inline" /\ ~Buffered /\ StreamInline
  \/ pc = "fetch" /\ ~Buffered /\ (StreamChunk \/ StreamComplete)
=============================================================================
