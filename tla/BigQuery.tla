------------------------------ MODULE BigQuery ------------------------------
(***************************************************************************)
(* BigQueryProvider (providers/bigquery.rs).  The job keeps the whole      *)
(* result; a page is asked for by startIndex and maxResults, and `pages`   *)
(* grows with the pages received.                                          *)
(***************************************************************************)
EXTENDS StatementApi

frame == <<request, token, rx>>

\* kyomi_oauth and service_account tokens are "static", enterprise_oauth
\* tokens are the ones OAuthRefresh renews.
Secrets == {"static", "oauth"}

\* The signed JWT of a service account is exchanged for an access token.
ExchangeServiceAccountJwt == pc' \in {"ready", "unmade"}

\* resolve_billing_project finds a project or the provider is not made.
ResolveBillingProject == pc' \in {"ready", "unmade"}

New ==
  /\ CASE auth = "static" -> ExchangeServiceAccountJwt
       [] auth = "oauth" -> ResolveBillingProject
  /\ UNCHANGED <<request, token, waited, statement, got, out, answer, rx, misread>>

\* jobs.query; a dry run and a connection test end here.
SubmitQueryJob ==
  /\ \E r \in Replies :
       IF r = "answer"
       THEN IF call \in {"test", "dry_run"}
            THEN Return(Ok) /\ UNCHANGED statement
            ELSE /\ stmt' \in {"running", "succeeded", "failed"}
                 /\ pages' = <<>>
                 /\ CASE stmt' = "succeeded" -> Goto("result")
                      [] stmt' = "failed" -> Return(Error)
                      [] stmt' = "running" -> StartPolling
       ELSE Return(Error) /\ UNCHANGED statement
  /\ UNCHANGED frame

PollJob ==
  /\ IF Expired THEN Return(Error) ELSE Goto("asked")
  /\ UNCHANGED <<frame, statement>>

\* A refusal has no state: it is polled again until the deadline.
PollJobReply ==
  /\ \E r \in Replies :
       CASE r = "answer" /\ stmt = "succeeded" -> Goto("result")
         [] r = "answer" /\ stmt = "failed" -> Return(Error)
         [] r = "lost" -> Return(Error)
         [] OTHER -> Goto("polling")
  /\ UNCHANGED <<frame, statement>>

\* The service returns at most max of the n rows left, and maybe none of them.
PageSizes(n, max) == 0..Min2(n, max)

EffectiveLimit == IF limit = NoLimit THEN DefaultLimit ELSE limit

GetQueryResults ==
  /\ \E r \in Replies :
       IF r = "answer"
       THEN \E n \in PageSizes(matching, EffectiveLimit) : Return(QueryResult(n, n = EffectiveLimit))
       ELSE Return(Error)
  /\ UNCHANGED <<frame, statement>>

\* The Resource Manager's pages of projects, until there is no next token.
ListActiveProjects ==
  /\ \E r \in Replies :
       IF r = "answer"
       THEN \E n \in PageSizes(matching - got, PageSize) :
              IF got + n = matching
              THEN Return(Listing(matching))
              ELSE /\ got' = got + n
                   /\ UNCHANGED <<pc, waited, out, answer, misread>>
       ELSE Return(Error)
  /\ UNCHANGED <<frame, statement>>

StreamSubmit ==
  /\ \E r \in Replies :
       IF r = "answer"
       THEN /\ stmt' \in {"running", "succeeded", "failed"}
            /\ pages' = <<>>
            /\ CASE stmt' = "succeeded" -> Goto("result")
                 [] stmt' = "failed" -> Finish(ErrorEvent)
                 [] stmt' = "running" -> StartPolling
       ELSE Finish(ErrorEvent) /\ UNCHANGED statement
  /\ UNCHANGED frame

StreamPoll ==
  /\ IF Expired THEN Finish(ErrorEvent) ELSE Goto("asked")
  /\ UNCHANGED <<frame, statement>>

\* Mutant: every poll starts the deadline anew.
StreamPollReplyRearmed ==
  /\ \E r \in Replies :
       CASE r = "answer" /\ stmt = "succeeded" -> Goto("result")
         [] r = "answer" /\ stmt = "failed" -> Finish(ErrorEvent)
         [] r = "lost" -> Finish(ErrorEvent)
         [] OTHER -> StartPolling
  /\ UNCHANGED <<frame, statement>>
StreamPollReply ==
  /\ \E r \in Replies :
       CASE r = "answer" /\ stmt = "succeeded" -> Goto("result")
         [] r = "answer" /\ stmt = "failed" -> Finish(ErrorEvent)
         [] r = "lost" -> Finish(ErrorEvent)
         [] OTHER -> Goto("polling")
  /\ UNCHANGED <<frame, statement>>

\* A page from startIndex = got; its columns go out before the first rows, and
\* a later page with other columns is an error.
StreamPage ==
  /\ \E r \in Replies :
       IF r = "answer"
       THEN \/ \E n \in PageSizes(matching - got, PageSize) :
                 /\ pages' = Append(pages, got + n)
                 /\ IF pages = <<>> THEN Emit(SchemaEvent, "rows") ELSE pc' = "rows" /\ UNCHANGED out
                 /\ UNCHANGED <<stmt, waited, answer, got, misread>>
            \/ pages # <<>> /\ Finish(ErrorEvent) /\ UNCHANGED statement
       ELSE Finish(ErrorEvent) /\ UNCHANGED statement
  /\ UNCHANGED frame

\* offset += rows_in_page, and on with the next page while there is a token,
\* as there is if rows are left.  A page without rows ends the loop in any
\* case: with a token, the rest of the result is given up.
StreamRows ==
  LET n == Rows(Len(pages)) - got
  IN /\ \E token_left \in (IF got + n < matching THEN {TRUE} ELSE BOOLEAN) :
          LET next == IF n > 0 /\ token_left THEN "result" ELSE "complete"
          IN IF n = 0 THEN pc' = next /\ UNCHANGED out ELSE Emit(BatchEvent(Batches, got + 1, got + n), next)
     /\ got' = got + n
     /\ misread' = (n = 0 /\ got < matching)
     /\ UNCHANGED <<frame, statement, waited, answer>>

StreamComplete ==
  /\ Finish(CompleteEvent(Batches, got))
  /\ UNCHANGED <<frame, statement>>

Buffered == call # "stream"

Next ==
  \/ pc = "connect" /\ New
  \/ pc = "submit" /\ call \in {"query", "test", "dry_run"} /\ SubmitQueryJob
  \/ pc = "submit" /\ call = "resume" /\ GetQueryResults
  \/ pc = "submit" /\ call = "list" /\ ListActiveProjects
  \/ pc = "polling" /\ Buffered /\ PollJob
  \/ pc = "asked" /\ Buffered /\ PollJobReply
  \/ pc = "result" /\ Buffered /\ GetQueryResults
  \/ pc = "submit" /\ ~Buffered /\ StreamSubmit
  \/ pc = "polling" /\ ~Buffered /\ StreamPoll
  \/ pc = "asked" /\ ~Buffered /\ StreamPollReply
  \/ pc = "result" /\ ~Buffered /\ StreamPage
  \/ pc = "rows" /\ ~Buffered /\ StreamRows
  \/ pc = "complete" /\ ~Buffered /\ StreamComplete
=============================================================================
