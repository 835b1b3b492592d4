-------------------------- MODULE WarehouseProofs --------------------------
(***************************************************************************)
(* Proofs about Warehouse, for every number of rows and pages and all      *)
(* lifetimes: no row and no success is reported of a submitted statement   *)
(* that has not succeeded, but for a misread refusal; credentials whose    *)
(* last token response had a token are fresh when they pass the check; and *)
(* every stream implements ResultStream.                                   *)
(***************************************************************************)
EXTENDS Warehouse, Functions, FiniteSetTheorems, TLAPS

(***************************************************************************)
(* The inductive invariant.  Of the providers that submit a statement and  *)
(* poll it: success is reported with the step that ends a call, and rows   *)
(* are sent only in its late steps (SilentInv); these are reached with a   *)
(* statement that has succeeded or with a misread refusal (EarnedInv),     *)
(* which has no rows (RowsInv).  Only two providers misread an answer, and *)
(* only at some points of a call (MisreadInv).  The stored expiry never    *)
(* promises more than the token has left, unless the last token response   *)
(* had no token (TokenInv).                                                *)
(***************************************************************************)
Polled == provider \in {"databricks", "snowflake", "bigquery"}

Late == {"result", "fetch", "inline", "rows", "complete"}

HasSent(type) == \E i \in DOMAIN out : out[i].type = type

Earned == stmt = "succeeded" \/ misread

SilentInv ==
  Polled =>
    /\ pc # "returned" => answer.status \notin {"success", "ok", "items"} /\ ~HasSent("complete")
    /\ pc \notin Late \cup {"returned"} => ~HasSent("batch")

EarnedInv == Polled /\ pc \in Late => Earned

RowsInv == Polled /\ HasSent("batch") => stmt = "succeeded"

MisreadInv ==
  misread => \/ provider = "snowflake" /\ pc \in {"result", "inline", "fetch", "returned"}
             \/ provider = "bigquery" /\ pc \in {"complete", "returned"}

SeqInv == out \in Seq(Range(out))

TokenInv ==
  /\ auth \in SecretsOf(provider)
  /\ refresh => auth = "oauth" /\ provider \in {"databricks", "snowflake", "bigquery"}
  /\ auth = "m2m" => provider = "databricks" /\ ~refresh
  /\ auth \in {"oauth", "m2m"} => life \in Nat
  /\ auth \notin {"oauth", "m2m"} => expiry = Unknown
  /\ expiry # Unknown => expiry \in Nat /\ expiry <= MaxLife /\ (~tokenless => expiry <= life)

ReportInv ==
  SilentInv /\ EarnedInv /\ RowsInv /\ MisreadInv /\ SeqInv /\ SuccessMeansSucceeded

IInv == ReportInv /\ TokenInv

(***************************************************************************)
(* What every step of a call comes down to: it may send an event and set   *)
(* an answer, but a batch only of a statement that has succeeded, and a    *)
(* summary or a success only with the step that ends the call, and only if *)
(* it is earned.                                                           *)
(***************************************************************************)
Sends ==
  \/ out' = out
  \/ \E e : /\ out' = Append(out, e)
            /\ e.type = "batch" => pc \in Late /\ stmt = "succeeded"
            /\ e.type = "complete" => pc' = "returned" /\ Earned'

Answers ==
  \/ answer' = answer
  \/ answer'.status \notin {"success", "ok", "items"}
  \/ /\ pc' = "returned"
     /\ RunsStatement =>
          /\ answer'.status \in {"success", "items"} /\ answer'.rows > 0 => stmt' = "succeeded"
          /\ answer'.status \in {"success", "ok"} => Earned'

CallStep ==
  /\ pc # "returned"
  /\ UNCHANGED <<provider, call>>
  /\ Sends
  /\ Answers
  /\ pc \in Late => pc' \in Late \cup {"returned"} /\ stmt' = stmt
  /\ EarnedInv' /\ MisreadInv'

\* The providers whose request is their statement: no more is asked of them.
PlainStep ==
  /\ ~Polled /\ provider' = provider
  /\ misread' = misread
  /\ out' = out \/ \E e : out' = Append(out, e)

-----------------------------------------------------------------------------

\* What a sequence is after an event has been appended to it.
LEMMA Appended ==
  ASSUME NEW s, s \in Seq(Range(s)), NEW e
  PROVE  /\ Append(s, e) \in Seq(Range(Append(s, e)))
         /\ \A i \in DOMAIN Append(s, e) :
              (i \in DOMAIN s /\ Append(s, e)[i] = s[i]) \/ Append(s, e)[i] = e
<1> DEFINE S == Range(s) \cup {e}
<1> DEFINE t == Append(s, e)
<1>1. s \in Seq(S) /\ e \in S
  OBVIOUS
<1>2. /\ t \in Seq(S) /\ Len(t) = Len(s) + 1 /\ Len(s) \in Nat
      /\ DOMAIN s = 1..Len(s) /\ DOMAIN t = 1..Len(t)
      /\ \A i \in 1..Len(s) : t[i] = s[i]
      /\ t[Len(s) + 1] = e
  BY <1>1
<1> HIDE DEF t, S
<1>3. \A i \in DOMAIN t : (i \in DOMAIN s /\ t[i] = s[i]) \/ t[i] = e
  <2> SUFFICES ASSUME NEW i \in 1..(Len(s) + 1)
               PROVE  (i \in 1..Len(s) /\ t[i] = s[i]) \/ t[i] = e
    BY <1>2
  <2>1. CASE i \in 1..Len(s)
    BY <1>2, <2>1
  <2>2. CASE i = Len(s) + 1
    BY <1>2, <2>2
  <2> QED BY <1>2, <2>1, <2>2
<1>4. t \in Seq(Range(t))
  <2>1. \A i \in 1..Len(t) : t[i] \in Range(t)
    BY <1>2 DEF Range
  <2> QED BY <1>2, <2>1
<1> QED BY <1>3, <1>4 DEF t

\* What has been sent after a step that sends an event.
LEMMA SentAfter ==
  ASSUME SeqInv, out' = out \/ \E e : out' = Append(out, e)
  PROVE  SeqInv'
<1>1. CASE out' = out
  BY <1>1 DEF SeqInv
<1>2. CASE \E e : out' = Append(out, e)
  BY <1>2, Appended DEF SeqInv
<1> QED BY <1>1, <1>2

\* A step of a polled call preserves what is known about reports.
LEMMA CallStepInv ==
  ASSUME ReportInv, Polled, CallStep
  PROVE  ReportInv'
<1>0. Polled' /\ (RunsStatement' <=> RunsStatement)
  BY DEF CallStep, Polled, RunsStatement
<1>1. /\ answer.status \notin {"success", "ok", "items"} /\ ~HasSent("complete")
      /\ pc \notin Late => ~HasSent("batch")
      /\ HasSent("batch") => stmt = "succeeded"
      /\ out \in Seq(Range(out))
  BY DEF ReportInv, SilentInv, RowsInv, SeqInv, CallStep
<1>2. SeqInv'
  BY SentAfter DEF ReportInv, CallStep, Sends
<1>3. HasSent("complete")' => pc' = "returned" /\ Earned'
  <2>1. CASE out' = out
    BY <1>1, <2>1 DEF HasSent
  <2>2. ASSUME NEW e, out' = Append(out, e), e.type = "complete" => pc' = "returned" /\ Earned'
        PROVE  HasSent("complete")' => pc' = "returned" /\ Earned'
    BY <1>1, <2>2, Appended DEF HasSent
  <2> QED BY <2>1, <2>2 DEF CallStep, Sends
<1>4. HasSent("batch")' => HasSent("batch") \/ (pc \in Late /\ stmt = "succeeded")
  <2>1. CASE out' = out
    BY <2>1 DEF HasSent
  <2>2. ASSUME NEW e, out' = Append(out, e), e.type = "batch" => pc \in Late /\ stmt = "succeeded"
        PROVE  HasSent("batch")' => HasSent("batch") \/ (pc \in Late /\ stmt = "succeeded")
    BY <1>1, <2>2, Appended DEF HasSent
  <2> QED BY <2>1, <2>2 DEF CallStep, Sends
<1>5. HasSent("batch")' => pc' \in Late \cup {"returned"} /\ stmt' = "succeeded"
  BY <1>1, <1>4 DEF CallStep
<1>6. /\ pc' # "returned" => answer'.status \notin {"success", "ok", "items"}
      /\ RunsStatement =>
           /\ answer'.status \in {"success", "items"} /\ answer'.rows > 0 => stmt' = "succeeded"
           /\ answer'.status \in {"success", "ok"} => Earned'
  BY <1>1 DEF CallStep, Answers
<1>7. SilentInv' /\ RowsInv'
  BY <1>3, <1>5, <1>6 DEF SilentInv, RowsInv
<1>8. SuccessMeansSucceeded'
  BY <1>0, <1>3, <1>5, <1>6 DEF SuccessMeansSucceeded, ReportsRows, ReportsSuccess, HasSent, Earned
<1> QED BY <1>2, <1>7, <1>8 DEF ReportInv, CallStep

\* A step of the other providers.
LEMMA PlainStepInv ==
  ASSUME ReportInv, PlainStep
  PROVE  ReportInv'
<1>1. SeqInv'
  BY SentAfter DEF ReportInv, PlainStep
<1>2. ~Polled' /\ ~misread'
  BY DEF ReportInv, PlainStep, Polled, MisreadInv
<1> QED BY <1>1, <1>2 DEF ReportInv, SilentInv, EarnedInv, RowsInv, MisreadInv, SuccessMeansSucceeded,
           RunsStatement, Polled

\* Steps that leave the reports and the statement alone.
LEMMA ReportFrame ==
  ASSUME ReportInv, UNCHANGED <<provider, call, pc, stmt, out, answer, misread>>
  PROVE  ReportInv'
BY DEF ReportInv, SilentInv, EarnedInv, RowsInv, MisreadInv, SeqInv, SuccessMeansSucceeded,
   RunsStatement, ReportsRows, ReportsSuccess, Polled, HasSent, Earned

\* The steps of the Databricks provider.
LEMMA DatabricksStep ==
  ASSUME ReportInv, provider = "databricks", DB!Next
  PROVE  CallStep
<1> USE DEF CallStep, Sends, Answers, EarnedInv, MisreadInv, Late, Earned, DB!frame, DB!request,
       DB!statement
<1>0. (pc \in Late => stmt = "succeeded") /\ ~misread
  BY DEF ReportInv, Polled
<1>f. DB!Failed.status = "error" \/ (DB!Failed.status = "items" /\ DB!Failed.rows = 0)
  BY DEF DB!Failed, DB!Error, DB!Listing
<1>1. CASE pc = "connect" /\ DB!New
  BY <1>0, <1>1 DEF DB!New, DB!ExchangeM2mToken
<1>2. CASE pc = "submit" /\ DB!SubmitStatement
  <2>1. UNCHANGED <<provider, call>>
    BY <1>2 DEF DB!SubmitStatement
  <2>2. \/ stmt' = "succeeded" /\ DB!Goto("result")
        \/ DB!Return(DB!Failed)
        \/ DB!StartPolling
    BY <1>2 DEF DB!SubmitStatement, DB!Accept
  <2> QED BY <1>0, <1>2, <1>f, <2>1, <2>2 DEF DB!Goto, DB!Return, DB!StartPolling
<1>3. CASE pc = "polling" /\ DB!PollStatement
  BY <1>0, <1>3, <1>f DEF DB!PollStatement, DB!Goto, DB!Return
<1>4. CASE pc = "asked" /\ DB!PollReply
  BY <1>0, <1>4, <1>f DEF DB!PollReply, DB!Goto, DB!Return
<1>5. CASE pc = "result" /\ DB!Result
  BY <1>0, <1>5 DEF DB!Result, DB!Return
<1>6. CASE pc = "fetch" /\ DB!FetchAllChunks
  BY <1>0, <1>6 DEF DB!FetchAllChunks, DB!ExecuteQuery, DB!Return
<1>7. CASE pc = "submit" /\ DB!StreamSubmit
  <2>1. UNCHANGED <<provider, call>>
    BY <1>7 DEF DB!StreamSubmit
  <2>2. \/ stmt' = "succeeded" /\ DB!Goto("result")
        \/ DB!Finish(DB!ErrorEvent)
        \/ DB!StartPolling
    BY <1>7 DEF DB!StreamSubmit, DB!Accept
  <2> QED BY <1>0, <1>7, <2>1, <2>2 DEF DB!Goto, DB!Finish, DB!ErrorEvent, DB!StartPolling
<1>8. CASE pc = "polling" /\ DB!StreamPoll
  BY <1>0, <1>8 DEF DB!StreamPoll, DB!Goto, DB!Finish, DB!ErrorEvent
<1>9. CASE pc = "asked" /\ DB!StreamPollReply
  BY <1>0, <1>9 DEF DB!StreamPollReply, DB!Goto, DB!Finish, DB!ErrorEvent
<1>10. CASE pc = "result" /\ DB!StreamSchema
  BY <1>0, <1>10 DEF DB!StreamSchema, DB!Emit, DB!SchemaEvent
<1>11. CASE pc = "inline" /\ DB!StreamInline
  BY <1>0, <1>11 DEF DB!StreamInline, DB!SendPage, DB!Emit, DB!BatchEvent
<1>12. CASE pc = "fetch" /\ DB!StreamChunk
  BY <1>0, <1>12 DEF DB!StreamChunk, DB!SendPage, DB!Emit, DB!BatchEvent, DB!Finish, DB!ErrorEvent
<1>13. CASE pc = "fetch" /\ DB!StreamComplete
  BY <1>0, <1>13 DEF DB!StreamComplete, DB!Finish
<1> QED BY <1>1, <1>2, <1>3, <1>4, <1>5, <1>6, <1>7, <1>8, <1>9, <1>10, <1>11, <1>12, <1>13 DEF
     DB!Next

\* The steps of the Snowflake provider.
LEMMA SnowflakeStep ==
  ASSUME ReportInv, provider = "snowflake", auth \in SF!Secrets, SF!Next
  PROVE  CallStep
<1> USE DEF CallStep, Sends, Answers, EarnedInv, MisreadInv, Late, Earned, SF!frame, SF!request,
       SF!statement
<1>0. /\ pc \in Late => stmt = "succeeded" \/ misread
      /\ misread => pc \in {"result", "inline", "fetch", "returned"}
  BY DEF ReportInv, Polled
<1>f. SF!Failed.status = "error" \/ (SF!Failed.status = "items" /\ SF!Failed.rows = 0)
  BY DEF SF!Failed, SF!Error, SF!Listing
<1>1. CASE pc = "connect" /\ SF!New
  BY <1>0, <1>1 DEF SF!Secrets, SF!New, SF!GenerateKeypairJwt, SF!LoginPassword
<1>2. CASE pc = "submit" /\ SF!SubmitStatement
  <2>1. UNCHANGED <<provider, call>>
    BY <1>2 DEF SF!SubmitStatement
  <2>2. \/ stmt' = "succeeded" /\ SF!Goto("result")
        \/ SF!Return(SF!Failed)
        \/ SF!StartPolling
    BY <1>2 DEF SF!SubmitStatement, SF!Accept
  <2> QED BY <1>0, <1>2, <1>f, <2>1, <2>2 DEF SF!Goto, SF!Return, SF!StartPolling
<1>3. CASE pc = "polling" /\ SF!PollStatement
  BY <1>0, <1>3, <1>f DEF SF!PollStatement, SF!Goto, SF!Return
<1>4. CASE pc = "asked" /\ SF!PollStatementUrl
  BY <1>0, <1>4, <1>f DEF SF!PollStatementUrl, SF!Goto, SF!Misread, SF!Return
<1>5. CASE pc = "result" /\ SF!ExecuteQuery
  <2> DEFINE n == IF misread THEN 0 ELSE SF!Rows(1)
  <2>1. /\ SF!Return(answer') /\ UNCHANGED <<provider, call, stmt>>
        /\ answer' \in {SF!Ok, SF!Listing(n), SF!QueryResult(n, n = SF!EffectiveLimit)}
    BY <1>5 DEF SF!ExecuteQuery, SF!Return
  <2>2. misread => n = 0
    OBVIOUS
  <2> HIDE DEF n
  <2>3. answer'.status = "ok" \/ answer'.rows = n
    BY <2>1 DEF SF!Ok, SF!Listing, SF!QueryResult
  <2> QED BY <1>0, <1>5, <2>1, <2>2, <2>3 DEF SF!Return
<1>6. CASE pc = "submit" /\ SF!StreamSubmit
  <2>1. UNCHANGED <<provider, call>>
    BY <1>6 DEF SF!StreamSubmit
  <2>2. \/ stmt' = "succeeded" /\ SF!Goto("result")
        \/ SF!Finish(SF!ErrorEvent)
        \/ SF!StartPolling
    BY <1>6 DEF SF!StreamSubmit, SF!Accept
  <2> QED BY <1>0, <1>6, <2>1, <2>2 DEF SF!Goto, SF!Finish, SF!ErrorEvent, SF!StartPolling
<1>7. CASE pc = "polling" /\ SF!StreamPoll
  BY <1>0, <1>7 DEF SF!StreamPoll, SF!Goto, SF!Finish, SF!ErrorEvent
<1>8. CASE pc = "asked" /\ SF!StreamPollReply
  BY <1>0, <1>8 DEF SF!StreamPollReply, SF!Goto, SF!Misread, SF!Finish, SF!ErrorEvent
<1>9. CASE pc = "result" /\ SF!StreamSchema
  BY <1>0, <1>9 DEF SF!StreamSchema, SF!Emit, SF!SchemaEvent
<1>10. CASE pc = "inline" /\ SF!StreamInline
  BY <1>0, <1>10 DEF SF!StreamInline, SF!SendPartition, SF!Emit, SF!BatchEvent
<1>11. CASE pc = "fetch" /\ SF!StreamPartition
BY <1>0, <1>11 DEF SF!StreamPartition, SF!SendPartition, SF!Emit, SF!BatchEvent, SF!Finish,
       SF!ErrorEvent
<1>12. CASE pc = "fetch" /\ SF!StreamComplete
  BY <1>0, <1>12 DEF SF!StreamComplete, SF!Finish, SF!CompleteEvent
<1> QED BY <1>1, <1>2, <1>3, <1>4, <1>5, <1>6, <1>7, <1>8, <1>9, <1>10, <1>11, <1>12 DEF SF!Next

\* The steps of the BigQuery provider.
LEMMA BigQueryStep ==
  ASSUME ReportInv, provider = "bigquery", auth \in BQ!Secrets, BQ!Next
  PROVE  CallStep
<1> USE DEF CallStep, Sends, Answers, EarnedInv, MisreadInv, Late, Earned, BQ!frame, BQ!request,
       BQ!statement
<1>0. /\ pc \in Late => stmt = "succeeded" \/ misread
      /\ misread => pc \in {"complete", "returned"}
  BY DEF ReportInv, Polled
<1>r. RunsStatement => call \in {"query", "stream"}
  BY DEF RunsStatement
<1>1. CASE pc = "connect" /\ BQ!New
  BY <1>0, <1>1 DEF BQ!Secrets, BQ!New, BQ!ExchangeServiceAccountJwt, BQ!ResolveBillingProject
<1>2. CASE pc = "submit" /\ BQ!SubmitQueryJob
  <2>1. UNCHANGED <<provider, call>>
    BY <1>2 DEF BQ!SubmitQueryJob
  <2>2. \/ stmt' = "succeeded" /\ BQ!Goto("result")
        \/ BQ!Return(BQ!Error)
        \/ BQ!StartPolling
        \/ BQ!Return(BQ!Ok) /\ call \in {"test", "dry_run"}
    BY <1>2 DEF BQ!SubmitQueryJob
  <2>3. BQ!Error.status = "error"
    BY DEF BQ!Error
  <2> QED BY <1>0, <1>2, <1>r, <2>1, <2>2, <2>3 DEF BQ!Goto, BQ!Return, BQ!StartPolling
<1>3. CASE pc = "submit" /\ call = "resume" /\ BQ!GetQueryResults
  BY <1>0, <1>3, <1>r DEF BQ!GetQueryResults, BQ!Return, BQ!Error
<1>4. CASE pc = "submit" /\ call = "list" /\ BQ!ListActiveProjects
  BY <1>0, <1>4, <1>r DEF BQ!ListActiveProjects, BQ!Return, BQ!Error
<1>5. CASE pc = "polling" /\ BQ!PollJob
  BY <1>0, <1>5 DEF BQ!PollJob, BQ!Goto, BQ!Return, BQ!Error
<1>6. CASE pc = "asked" /\ BQ!PollJobReply
  BY <1>0, <1>6 DEF BQ!PollJobReply, BQ!Goto, BQ!Return, BQ!Error
<1>7. CASE pc = "result" /\ BQ!GetQueryResults
  BY <1>0, <1>7 DEF BQ!GetQueryResults, BQ!Return, BQ!Error
<1>8. CASE pc = "submit" /\ BQ!StreamSubmit
  <2>1. UNCHANGED <<provider, call>>
    BY <1>8 DEF BQ!StreamSubmit
  <2>2. \/ stmt' = "succeeded" /\ BQ!Goto("result")
        \/ BQ!Finish(BQ!ErrorEvent)
        \/ BQ!StartPolling
    BY <1>8 DEF BQ!StreamSubmit
  <2> QED BY <1>0, <1>8, <2>1, <2>2 DEF BQ!Goto, BQ!Finish, BQ!ErrorEvent, BQ!StartPolling
<1>9. CASE pc = "polling" /\ BQ!StreamPoll
  BY <1>0, <1>9 DEF BQ!StreamPoll, BQ!Goto, BQ!Finish, BQ!ErrorEvent
<1>10. CASE pc = "asked" /\ BQ!StreamPollReply
  BY <1>0, <1>10 DEF BQ!StreamPollReply, BQ!Goto, BQ!Finish, BQ!ErrorEvent
<1>11. CASE pc = "result" /\ BQ!StreamPage
  BY <1>0, <1>11 DEF BQ!StreamPage, BQ!Emit, BQ!SchemaEvent, BQ!Finish, BQ!ErrorEvent
<1>12. CASE pc = "rows" /\ BQ!StreamRows
  <2> DEFINE n == BQ!Rows(Len(pages)) - got
  <2>1. /\ UNCHANGED <<provider, call, stmt, answer>> /\ misread' = (n = 0 /\ got < matching)
        /\ \E next \in {"result", "complete"} :
             /\ n = 0 => next = "complete"
             /\ IF n = 0 THEN pc' = next /\ UNCHANGED out
                ELSE BQ!Emit(BQ!BatchEvent(BQ!Batches, got + 1, got + n), next)
    BY <1>12 DEF BQ!StreamRows
  <2> HIDE DEF n
  <2>2. stmt = "succeeded" /\ (n # 0 => ~misread')
    BY <1>0, <1>12, <2>1
  <2> QED BY <1>12, <2>1, <2>2 DEF BQ!Emit, BQ!BatchEvent
<1>13. CASE pc = "complete" /\ BQ!StreamComplete
  BY <1>0, <1>13 DEF BQ!StreamComplete, BQ!Finish, BQ!CompleteEvent
<1> QED BY <1>1, <1>2, <1>3, <1>4, <1>5, <1>6, <1>7, <1>8, <1>9, <1>10, <1>11, <1>12, <1>13 DEF
     BQ!Next

\* The steps of the ClickHouse provider over HTTP.
LEMMA ClickHouseStep ==
  ASSUME ~Polled, CH!Next
  PROVE  PlainStep
<1> USE DEF PlainStep, CH!frame, CH!request
<1>1. CASE pc = "connect" /\ CH!New
  BY <1>1 DEF CH!New
<1>2. CASE pc = "submit" /\ CH!ExecuteQuery
  BY <1>2 DEF CH!ExecuteQuery, CH!Return
<1>3. CASE pc = "submit" /\ CH!StreamPage
  BY <1>3 DEF CH!StreamPage, CH!Emit, CH!Goto, CH!Finish
<1>4. CASE pc = "rows" /\ CH!StreamRows
  BY <1>4 DEF CH!StreamRows, CH!Emit
<1>5. CASE pc = "complete" /\ CH!StreamComplete
  BY <1>5 DEF CH!StreamComplete, CH!Finish
<1> QED BY <1>1, <1>2, <1>3, <1>4, <1>5 DEF CH!Next

\* The steps of the native ClickHouse provider.
LEMMA ClickHouseNativeStep ==
  ASSUME ~Polled, CN!Next
  PROVE  PlainStep
<1> USE DEF PlainStep, CN!frame, CN!request
<1>1. CASE pc = "connect" /\ CN!New
  BY <1>1 DEF CN!New
<1>2. CASE pc = "submit" /\ CN!ExecuteQuery
  BY <1>2 DEF CN!ExecuteQuery, CN!Return
<1>3. CASE pc = "submit" /\ CN!DryRun
  BY <1>3 DEF CN!DryRun, CN!Return
<1>4. CASE pc = "submit" /\ CN!StreamQuery
  BY <1>4 DEF CN!StreamQuery, CN!Emit, CN!Return
<1>5. CASE pc = "rows" /\ CN!QueryResultToArrowStream
  BY <1>5 DEF CN!QueryResultToArrowStream, CN!Emit
<1>6. CASE pc = "complete" /\ CN!StreamComplete
  BY <1>6 DEF CN!StreamComplete, CN!Finish
<1> QED BY <1>1, <1>2, <1>3, <1>4, <1>5, <1>6 DEF CN!Next

\* The steps of the FlareDB provider.
LEMMA FlareDbStep ==
  ASSUME ~Polled, FD!Next
  PROVE  PlainStep
<1> USE DEF PlainStep, FD!frame, FD!request
<1>1. CASE pc = "connect" /\ FD!New
  BY <1>1 DEF FD!New
<1>2. CASE pc = "submit" /\ FD!Execute
  BY <1>2 DEF FD!Execute, FD!Return, FD!Goto
<1>3. CASE pc = "fetch" /\ FD!DoGet
  BY <1>3 DEF FD!DoGet, FD!Return
<1>4. CASE pc = "submit" /\ FD!StreamExecute
  BY <1>4 DEF FD!StreamExecute, FD!Goto, FD!Finish
<1>5. CASE pc = "fetch" /\ FD!StreamBatch
  BY <1>5 DEF FD!StreamBatch, FD!Emit, FD!Finish
<1>6. CASE pc = "fetch" /\ FD!StreamComplete
  BY <1>6 DEF FD!StreamComplete, FD!Finish
<1>7. CASE pc = "rows" /\ FD!StreamRows
  BY <1>7 DEF FD!StreamRows, FD!Emit
<1>8. CASE pc = "complete" /\ FD!StreamComplete
  BY <1>8 DEF FD!StreamComplete, FD!Finish
<1> QED BY <1>1, <1>2, <1>3, <1>4, <1>5, <1>6, <1>7, <1>8 DEF FD!Next

\* The steps of the providers over a pool of sqlx.
LEMMA SqlxStep ==
  ASSUME ~Polled, SQ!Next
  PROVE  PlainStep
<1> USE DEF PlainStep, SQ!frame, SQ!request
<1>1. CASE pc = "connect" /\ SQ!PostgresNew
  BY <1>1 DEF SQ!PostgresNew, SQ!Unmade, SQ!ConnectPool
<1>2. CASE pc = "connect" /\ SQ!MySqlNew
  BY <1>2 DEF SQ!MySqlNew, SQ!Unmade, SQ!ConnectPool
<1>3. CASE pc = "connect" /\ SQ!RedshiftNew
  BY <1>3 DEF SQ!RedshiftNew, SQ!ResolveIamCredentials, SQ!ResolveStandardCredentials,
       SQ!GetClusterCredentials, SQ!Unmade, SQ!ConnectPool
<1>4. CASE pc = "submit" /\ SQ!TestConnection
  BY <1>4 DEF SQ!TestConnection, SQ!Return
<1>5. CASE pc = "submit" /\ SQ!ExecuteQuery
  BY <1>5 DEF SQ!ExecuteQuery, SQ!Return
<1>6. CASE pc = "submit" /\ SQ!DryRun
  BY <1>6 DEF SQ!DryRun, SQ!Return
<1> QED BY <1>1, <1>2, <1>3, <1>4, <1>5, <1>6 DEF SQ!Next

-----------------------------------------------------------------------------

\* A step of the provider preserves what is known about reports.
LEMMA ProviderReports ==
  ASSUME IInv, Provider
  PROVE  ReportInv'
<1>1. ReportInv /\ auth \in SecretsOf(provider)
  BY DEF IInv, TokenInv
<1>2. CASE provider = "databricks" /\ DB!Next
  BY <1>1, <1>2, DatabricksStep, CallStepInv DEF Polled
<1>3. CASE provider = "snowflake" /\ SF!Next
  BY <1>1, <1>3, SnowflakeStep, CallStepInv DEF SecretsOf, Polled
<1>4. CASE provider = "bigquery" /\ BQ!Next
  BY <1>1, <1>4, BigQueryStep, CallStepInv DEF SecretsOf, Polled
<1>5. CASE provider = "clickhouse" /\ CH!Next
  BY <1>1, <1>5, ClickHouseStep, PlainStepInv DEF Polled
<1>6. CASE provider = "clickhouse_native" /\ CN!Next
  BY <1>1, <1>6, ClickHouseNativeStep, PlainStepInv DEF Polled
<1>7. CASE provider = "flaredb" /\ FD!Next
  BY <1>1, <1>7, FlareDbStep, PlainStepInv DEF Polled
<1>8. CASE provider \in Pooled /\ SQ!Next
  BY <1>1, <1>8, SqlxStep, PlainStepInv DEF Polled, Pooled
<1> QED BY <1>2, <1>3, <1>4, <1>5, <1>6, <1>7, <1>8 DEF Provider

\* The ways in which the check of the credentials ends: refused, with what the
\* authorisation server sends, or with the token there is, which is left alone
\* only if its stored expiry outlives the buffer.
LEMMA EnsureCases ==
  ASSUME TokenInv, Ensure
  PROVE  /\ pc = "ensure"
         /\ \/ \E a : OAuth!Reject(a) /\ a.status \notin {"success", "ok", "items"}
            \/ OAuth!ApplyRefreshResponse /\ auth = "oauth"
            \/ OAuth!StoreM2mToken /\ auth = "m2m"
            \/ /\ OAuth!Unchanged
               /\ refresh \/ auth = "m2m" => expiry # Unknown /\ ~(expiry <= TokenBuffer)
<1> DEFINE Refused == \E a : OAuth!Reject(a) /\ a.status \notin {"success", "ok", "items"}
<1>1. pc = "ensure" /\ OAuth!EnsureValidOauthCredentials
  BY DEF Ensure
<1>2. OAuth!Reject(OAuth!Error) => Refused
  BY DEF OAuth!Error
<1>3. OAuth!Reject([status |-> "reauthorize"]) => Refused
  OBVIOUS
<1> HIDE DEF Refused
<1>4. OAuth!PostTokenRequest => Refused \/ OAuth!ApplyRefreshResponse
  BY <1>2, <1>3 DEF OAuth!PostTokenRequest
<1>5. CASE ~refresh /\ provider = "databricks"
  <2>1. OAuth!HandleDatabricksM2m
    BY <1>1, <1>5 DEF OAuth!EnsureValidOauthCredentials
  <2>2. CASE auth # "m2m"
    BY <1>1, <1>5, <2>1, <2>2 DEF OAuth!HandleDatabricksM2m
  <2>3. CASE auth = "m2m"
    BY <1>1, <1>2, <2>1, <2>3 DEF OAuth!HandleDatabricksM2m, OAuth!IsTokenExpired, Refused
  <2> QED BY <2>2, <2>3
<1>6. CASE ~refresh /\ provider # "databricks"
  <2>1. OAuth!Unchanged /\ auth # "m2m"
    BY <1>1, <1>6 DEF OAuth!EnsureValidOauthCredentials, TokenInv
  <2> QED BY <1>1, <1>6, <2>1
<1>7. CASE refresh /\ ~OAuth!IsTokenExpired
  <2>1. OAuth!Unchanged
    BY <1>1, <1>7 DEF OAuth!EnsureValidOauthCredentials
  <2> QED BY <1>1, <1>7, <2>1 DEF OAuth!IsTokenExpired
<1>8. CASE refresh /\ OAuth!IsTokenExpired
  <2>1. auth = "oauth" /\ provider \in {"databricks", "snowflake", "bigquery"}
    BY <1>8 DEF TokenInv
  <2>2. OAuth!Reject(OAuth!Error) \/ OAuth!PostTokenRequest
    BY <1>1, <1>8, <2>1 DEF OAuth!EnsureValidOauthCredentials,
       OAuth!RefreshBigqueryEnterprise, OAuth!RefreshSnowflake, OAuth!RefreshDatabricks
  <2> QED BY <1>1, <1>2, <1>4, <2>1, <2>2 DEF Refused
<1> QED BY <1>5, <1>6, <1>7, <1>8

\* Every step of the system preserves what is known about reports.
LEMMA NextReports ==
  ASSUME IInv, [Next]_vars
  PROVE  ReportInv'
<1>0. ReportInv
  BY DEF IInv
<1>1. CASE Ensure
  <2>1. /\ UNCHANGED <<provider, call, out, stmt, misread>>
        /\ pc = "ensure" /\ pc' \in {"connect", "unmade"}
        /\ answer' = answer \/ answer'.status \notin {"success", "ok", "items"}
    BY <1>1, EnsureCases DEF IInv, OAuth!Reject, OAuth!ApplyRefreshResponse, OAuth!StoreM2mToken,
       OAuth!Unchanged, OAuth!Accepted, OAuth!others, OAuth!request, OAuth!statement
  <2>2. CASE Polled
    <3>1. CallStep
      BY <1>0, <2>1 DEF ReportInv, CallStep, Sends, Answers, EarnedInv, MisreadInv, Late
    <3> QED BY <1>0, <2>2, <3>1, CallStepInv
  <2>3. CASE ~Polled
    BY <1>0, <2>1, <2>3, PlainStepInv DEF PlainStep
  <2> QED BY <2>2, <2>3
<1>2. CASE StartCall
  <2>1. pc = "ready" /\ pc' = "submit" /\ UNCHANGED <<provider, stmt, out, answer, misread>>
    BY <1>2 DEF StartCall, statement
  <2>2. SilentInv' /\ RowsInv' /\ EarnedInv' /\ MisreadInv' /\ SeqInv'
    BY <1>0, <2>1 DEF ReportInv, SilentInv, RowsInv, EarnedInv, MisreadInv, SeqInv, HasSent, Polled, Late
  <2>3. SuccessMeansSucceeded'
    BY <2>1, <2>2 DEF SilentInv, Polled, Late, HasSent, SuccessMeansSucceeded, RunsStatement,
       ReportsRows, ReportsSuccess
  <2> QED BY <2>2, <2>3 DEF ReportInv
<1>3. CASE NextCall
  <2>1. /\ pc' \in {"ensure", "connect", "ready"} /\ misread' = FALSE
        /\ out' = <<>> /\ answer' = [status |-> "none"]
    BY <1>3 DEF NextCall, NoAnswer
  <2>2. ~HasSent("batch")' /\ ~HasSent("complete")' /\ SeqInv'
    BY <2>1 DEF HasSent, SeqInv
  <2> QED BY <2>1, <2>2 DEF ReportInv, SilentInv, RowsInv, EarnedInv, MisreadInv, Late, HasSent,
          SuccessMeansSucceeded, ReportsRows, ReportsSuccess
<1>4. CASE Provider
  BY <1>4, ProviderReports
<1>5. CASE OAuth!Revoke
  BY <1>0, <1>5, ReportFrame DEF OAuth!Revoke, OAuth!others, OAuth!request, OAuth!statement
<1>6. CASE StatementEnds
  <2>1. /\ stmt = "running" /\ stmt' \in {"succeeded", "failed"}
        /\ UNCHANGED <<provider, call, pc, out, answer, misread>>
    BY <1>6 DEF StatementEnds, request
  <2> QED BY <1>0, <2>1 DEF ReportInv, SilentInv, EarnedInv, RowsInv, MisreadInv, SeqInv, HasSent,
          SuccessMeansSucceeded, RunsStatement, ReportsRows, ReportsSuccess, Polled, Earned
<1>7. CASE Tick
  BY <1>0, <1>7, ReportFrame DEF Tick, request, statement
<1>8. CASE DropStream
  BY <1>0, <1>8, ReportFrame DEF DropStream, request, statement
<1>9. CASE UNCHANGED vars
  BY <1>0, <1>9, ReportFrame DEF vars, request, statement
<1> QED BY <1>1, <1>2, <1>3, <1>4, <1>5, <1>6, <1>7, <1>8, <1>9 DEF Next

-----------------------------------------------------------------------------

\* Steps that leave the credentials alone.
LEMMA TokenFrame ==
  ASSUME TokenInv, UNCHANGED <<provider, auth, life, expiry, refresh, tokenless>>
  PROVE  TokenInv'
BY DEF TokenInv, SecretsOf

\* A provider touches the token only when it is made: Databricks exchanges a
\* client secret, Snowflake signs a JWT.
LEMMA ProviderToken ==
  ASSUME TokenInv, Provider
  PROVE  TokenInv'
<1> DEFINE Credentials == <<provider, auth, life, expiry, refresh, tokenless>>
<1>1. CASE provider = "databricks" /\ DB!Next
  <2>1. DB!New \/ UNCHANGED Credentials
    BY <1>1 DEF DB!Next, DB!SubmitStatement, DB!PollStatement, DB!PollReply, DB!Result,
       DB!FetchAllChunks, DB!StreamSubmit, DB!StreamPoll, DB!StreamPollReply, DB!StreamSchema,
       DB!StreamInline, DB!StreamChunk, DB!StreamComplete, DB!frame, DB!request, DB!token
  <2>2. CASE DB!New
    BY <2>2, StatementAssumption DEF TokenInv, SecretsOf, DB!New, DB!ExchangeM2mToken, DB!request
  <2> QED BY <2>1, <2>2, TokenFrame DEF Credentials
<1>2. CASE provider = "snowflake" /\ SF!Next
  <2>1. SF!New \/ UNCHANGED Credentials
    BY <1>2 DEF SF!Next, SF!SubmitStatement, SF!PollStatement, SF!PollStatementUrl,
       SF!ExecuteQuery, SF!StreamSubmit, SF!StreamPoll, SF!StreamPollReply, SF!StreamSchema,
       SF!StreamInline, SF!StreamPartition, SF!StreamComplete, SF!frame, SF!request, SF!token
  <2>2. CASE SF!New
    <3>1. /\ UNCHANGED <<provider, auth, expiry, refresh, tokenless>>
          /\ UNCHANGED life \/ auth = "keypair"
      BY <1>2, <2>2 DEF TokenInv, SecretsOf, SF!Secrets, SF!New, SF!LoginPassword, SF!request
    <3> QED BY <3>1 DEF TokenInv, SecretsOf
  <2> QED BY <2>1, <2>2, TokenFrame DEF Credentials
<1>3. CASE BQ!Next
  BY <1>3, TokenFrame DEF Credentials, BQ!Next, BQ!New, BQ!SubmitQueryJob, BQ!GetQueryResults,
     BQ!ListActiveProjects, BQ!PollJob, BQ!PollJobReply, BQ!StreamSubmit, BQ!StreamPoll,
     BQ!StreamPollReply, BQ!StreamPage, BQ!StreamRows, BQ!StreamComplete, BQ!frame,
     BQ!request, BQ!token
<1>4. CASE CH!Next
  BY <1>4, TokenFrame DEF Credentials, CH!Next, CH!New, CH!ExecuteQuery, CH!StreamPage, CH!StreamRows,
     CH!StreamComplete, CH!frame, CH!request, CH!token
<1>5. CASE CN!Next
  BY <1>5, TokenFrame DEF Credentials, CN!Next, CN!New, CN!ExecuteQuery, CN!DryRun, CN!StreamQuery,
     CN!QueryResultToArrowStream, CN!StreamComplete, CN!frame, CN!request, CN!token
<1>6. CASE FD!Next
  BY <1>6, TokenFrame DEF Credentials, FD!Next, FD!New, FD!Execute, FD!DoGet, FD!StreamExecute, FD!StreamBatch,
     FD!StreamRows, FD!StreamComplete, FD!frame, FD!request, FD!token
<1>7. CASE SQ!Next
  BY <1>7, TokenFrame DEF Credentials, SQ!Next, SQ!PostgresNew, SQ!MySqlNew, SQ!RedshiftNew,
     SQ!ResolveIamCredentials, SQ!ResolveStandardCredentials, SQ!GetClusterCredentials,
     SQ!Unmade, SQ!ConnectPool, SQ!TestConnection, SQ!ExecuteQuery, SQ!DryRun, SQ!frame,
     SQ!request, SQ!token
<1> QED BY <1>1, <1>2, <1>3, <1>4, <1>5, <1>6, <1>7 DEF Provider

\* Time takes as much from the stored expiry as from the token.
LEMMA TickToken ==
  ASSUME TokenInv, Tick
  PROVE  TokenInv'
<1>1. /\ UNCHANGED <<provider, auth, refresh, tokenless>>
      /\ life' = IF life \in Nat \ {0} THEN life - 1 ELSE life
      /\ expiry' = IF expiry \in Nat \ {0} THEN expiry - 1 ELSE expiry
  BY DEF Tick, Less, request
<1>2. expiry # Unknown => /\ expiry' \in Nat /\ expiry' <= MaxLife
                          /\ ~tokenless' => expiry' <= life'
  BY <1>1, StatementAssumption DEF TokenInv
<1>3. expiry = Unknown => expiry' = Unknown
  BY <1>1, StatementAssumption
<1>4. life \in Nat => life' \in Nat
  BY <1>1
<1> QED BY <1>1, <1>2, <1>3, <1>4 DEF TokenInv, SecretsOf

\* The check of the credentials renews the token or leaves it alone.
LEMMA EnsureToken ==
  ASSUME TokenInv, Ensure
  PROVE  TokenInv'
<1>1. CASE \E a : OAuth!Reject(a)
  BY <1>1, TokenFrame DEF OAuth!Reject, OAuth!others, OAuth!request, OAuth!token
<1>2. CASE OAuth!Unchanged
  BY <1>2, TokenFrame DEF OAuth!Unchanged, OAuth!Accepted, OAuth!others, OAuth!request
<1>3. CASE (OAuth!ApplyRefreshResponse /\ auth = "oauth") \/ (OAuth!StoreM2mToken /\ auth = "m2m")
  <2>1. /\ UNCHANGED <<provider, auth, refresh>> /\ auth \in {"oauth", "m2m"}
        /\ life' = MaxLife \/ (life' = life /\ tokenless')
        /\ expiry' \in {MaxLife, expiry}
    BY <1>3 DEF OAuth!ApplyRefreshResponse, OAuth!StoreM2mToken, OAuth!Accepted, OAuth!others,
       OAuth!request
  <2>2. expiry' # Unknown => /\ expiry' \in Nat /\ expiry' <= MaxLife
                             /\ ~tokenless' => expiry' <= life'
    BY <2>1, StatementAssumption DEF TokenInv
  <2> QED BY <2>1, <2>2, StatementAssumption DEF TokenInv, SecretsOf
<1> QED BY <1>1, <1>2, <1>3, EnsureCases

\* Every step preserves what is known about the token.
LEMMA NextToken ==
  ASSUME TokenInv, [Next]_vars
  PROVE  TokenInv'
<1>1. CASE StartCall \/ NextCall \/ StatementEnds \/ DropStream \/ UNCHANGED vars
  <2>1. UNCHANGED <<provider, auth, life, expiry, refresh, tokenless>>
    BY <1>1 DEF StartCall, NextCall, StatementEnds, DropStream, vars, request, token
  <2> QED BY <2>1, TokenFrame
<1>2. CASE OAuth!Revoke
  BY <1>2, TokenFrame DEF OAuth!Revoke, OAuth!others, OAuth!request
<1> QED BY <1>1, <1>2, EnsureToken, ProviderToken, TickToken DEF Next

\* The invariant holds initially.
LEMMA InitIInv == Init => IInv
<1> SUFFICES ASSUME Init PROVE IInv
  OBVIOUS
<1>1. /\ out = <<>> /\ answer = [status |-> "none"] /\ pc \in {"ensure", "connect"}
      /\ misread = FALSE
  BY DEF Init, NoAnswer
<1>2. ReportInv
  BY <1>1 DEF ReportInv, SilentInv, EarnedInv, RowsInv, MisreadInv, Late, SeqInv, HasSent,
     SuccessMeansSucceeded, ReportsRows, ReportsSuccess
<1>3. provider \in Providers /\ auth \in SecretsOf(provider)
  BY DEF Init
<1>4. /\ auth = "oauth" => provider \in {"databricks", "snowflake", "bigquery"}
      /\ auth = "m2m" => provider = "databricks"
  BY <1>3 DEF SecretsOf, DB!Secrets, SF!Secrets, BQ!Secrets
<1>5. /\ life = (CASE auth = "oauth" -> MaxLife [] auth = "m2m" -> 0 [] OTHER -> Forever)
      /\ expiry \in (IF auth = "oauth" THEN {MaxLife, Unknown} ELSE {Unknown})
      /\ refresh \in (IF auth = "oauth" THEN BOOLEAN ELSE {FALSE})
  BY DEF Init
<1>6. TokenInv
  <2>1. CASE auth = "oauth"
    BY <1>3, <1>4, <1>5, <2>1, StatementAssumption DEF TokenInv
  <2>2. CASE auth # "oauth"
    <3>1. refresh = FALSE /\ expiry = Unknown /\ (auth = "m2m" => life = 0)
      BY <1>5, <2>2
    <3> QED BY <1>3, <1>4, <2>2, <3>1 DEF TokenInv
  <2> QED BY <2>1, <2>2
<1> QED BY <1>2, <1>6 DEF IInv

\* IInv holds in every reachable state.
LEMMA Invariance == Spec => []IInv
<1>1. IInv /\ [Next]_vars => IInv'
  BY NextReports, NextToken DEF IInv
<1> QED BY InitIInv, <1>1, PTL DEF Spec

(***************************************************************************)
(* However they are polled, paged and refused: Databricks, Snowflake and   *)
(* BigQuery report rows of a statement they submitted only if it has       *)
(* succeeded, and the success of a query, a stream, a test or a dry run    *)
(* only if it has or if a refusal was misread.                             *)
(***************************************************************************)
THEOREM SuccessMeansSucceededHolds == Spec => []SuccessMeansSucceeded
<1>1. IInv => SuccessMeansSucceeded
  BY DEF IInv, ReportInv
<1> QED BY Invariance, <1>1, PTL

(***************************************************************************)
(* Whenever ensure_valid_oauth_credentials lets credentials pass that can  *)
(* be renewed, and the last token response had an access token, it         *)
(* outlives the buffer, even if no response ever told when it expires.     *)
(***************************************************************************)
THEOREM FreshWhenCheckedHolds == Spec => FreshWhenChecked
<1> DEFINE Fresh ==
      pc = "ensure" /\ pc' = "connect" /\ (refresh \/ auth = "m2m") /\ ~tokenless'
        => life' > TokenBuffer
<1>1. ASSUME IInv, [Next]_vars
      PROVE  [Fresh]_vars
  <2> SUFFICES ASSUME pc = "ensure", pc' = "connect", refresh \/ auth = "m2m", ~tokenless'
               PROVE  life' > TokenBuffer
    OBVIOUS
  <2>1. Ensure
    <3>1. ~Provider
      BY DEF Provider, DB!Next, SF!Next, BQ!Next, CH!Next, CN!Next, FD!Next, SQ!Next
    <3>2. ~(StartCall \/ NextCall \/ OAuth!Revoke \/ StatementEnds \/ Tick \/ DropStream \/ UNCHANGED vars)
      BY DEF StartCall, NextCall, OAuth!Revoke, StatementEnds, Tick, DropStream, vars
    <3> QED BY <1>1, <3>1, <3>2 DEF Next
  <2>2. CASE \E a : OAuth!Reject(a)
    BY <2>2 DEF OAuth!Reject
  <2>3. CASE OAuth!ApplyRefreshResponse \/ OAuth!StoreM2mToken
    BY <2>3, StatementAssumption DEF OAuth!ApplyRefreshResponse, OAuth!StoreM2mToken
  <2>4. CASE OAuth!Unchanged /\ expiry # Unknown /\ ~(expiry <= TokenBuffer)
    BY <1>1, <2>4, StatementAssumption DEF OAuth!Unchanged, IInv, TokenInv
  <2> QED BY <1>1, <2>1, <2>2, <2>3, <2>4, EnsureCases DEF IInv
<1> QED BY Invariance, <1>1, PTL DEF Spec, FreshWhenChecked

-----------------------------------------------------------------------------

(***************************************************************************)
(* Streams.  What a stream has sent so far is a schema followed by batches *)
(* (Shape), the last of which ends with row LastSent; Total is the row     *)
(* that a summary must have reached, as long as no answer is misread.      *)
(***************************************************************************)
Total == IF provider = "clickhouse_native" THEN CN!Fetched ELSE matching

LastSent == IF Len(out) > 1 THEN out[Len(out)].last ELSE 0

Shape == \A i \in DOMAIN out : out[i].type = IF i = 1 THEN "schema" ELSE "batch"

Clean == out = <<>> /\ pages = <<>> /\ got = 0

\* The pages divide n rows.
Paging(n) ==
  /\ pages \in Seq(Nat) /\ Rows(Len(pages)) = n
  /\ \A i \in 1..Len(pages) : Rows(i - 1) <= Rows(i) /\ Rows(i) <= n

PageEnd == Rows(Len(pages))

(***************************************************************************)
(* Where each provider is in its result.  Databricks and Snowflake know    *)
(* the pages from the start and count the ones they have, FlareDB reads    *)
(* them one by one, BigQuery and ClickHouse ask for the next page at an    *)
(* offset, which is the last row sent, and the native ClickHouse provider  *)
(* has the whole result before it sends the first event.                   *)
(***************************************************************************)
PartitionPos ==
  /\ pc \in {"submit", "polling", "asked", "result"} => out = <<>>
  /\ pc \in {"polling", "asked", "result", "inline", "fetch"} => Paging(matching) /\ pages # <<>>
  /\ pc \in {"inline", "fetch"} => out # <<>>
  /\ pc = "inline" => LastSent = 0
  /\ pc = "fetch" => got \in 1..Len(pages) /\ LastSent = Rows(got)

OffsetPos ==
  /\ got = LastSent /\ got <= matching
  /\ pages \in Seq(Nat) /\ (pages = <<>> <=> out = <<>>)

BigQueryPos ==
  /\ pc \in {"submit", "polling", "asked"} => Clean
  /\ pc \in {"result", "rows", "complete"} => OffsetPos
  /\ pc = "rows" => /\ pages # <<>>
                    /\ got <= PageEnd /\ PageEnd <= matching
  /\ pc = "complete" => out # <<>> /\ got = matching

ClickHousePos ==
  /\ pc \in {"submit", "rows", "complete"} => OffsetPos
  /\ pc = "rows" => pages # <<>> /\ PageEnd = got + Paged(PageSize, matching - got)
  /\ pc = "complete" => out # <<>> /\ got = matching

NativePos ==
  /\ pc = "submit" => Clean
  /\ pc = "rows" => Len(out) = 1 /\ (pages = <<Total>> \/ (pages = <<>> /\ Total = 0))
  /\ pc = "complete" => out # <<>> /\ LastSent = Total

FlightPos ==
  /\ pc = "submit" => Clean
  /\ pc \in {"fetch", "rows"} =>
       /\ Paging(matching) /\ got \in 0..Len(pages) /\ LastSent = Rows(got)
       /\ out = <<>> => got = 0
  /\ pc = "rows" => got < Len(pages) /\ out # <<>>
  /\ pc = "complete" => out # <<>> /\ LastSent = matching

StreamPos ==
  /\ provider \in {"databricks", "snowflake"} => PartitionPos
  /\ provider = "bigquery" => BigQueryPos
  /\ provider = "clickhouse" => ClickHousePos
  /\ provider = "clickhouse_native" => NativePos
  /\ provider = "flaredb" => FlightPos
  /\ provider \notin Pooled

Pos ==
  /\ matching \in Nat /\ limit \in Nat \cup {NoLimit}
  /\ call # "stream" => out = <<>> /\ pc \notin {"rows", "complete"}
  /\ pc \in {"ensure", "connect", "ready", "unmade"} => Clean
  /\ pc # "returned" => Shape /\ LastSent \in Nat
  /\ call = "stream" => StreamPos

\* After a misread answer no more rows are sent: where the stream ends is known
\* all the same.
MisreadPos ==
  /\ call # "stream" => out = <<>>
  /\ pc # "returned" => Shape
  /\ pc = "result" => out = <<>>
  /\ call = "stream" /\ pc \in {"inline", "fetch", "complete"} => out # <<>>
  /\ provider = "bigquery" /\ pc = "complete" => got = LastSent

PosInv == IF misread THEN MisreadPos ELSE Pos

(***************************************************************************)
(* What a step of the system may do to a stream.                           *)
(***************************************************************************)
StreamStep ==
  \/ out' = out
  \/ out = <<>> /\ out' = Append(out, SchemaEvent)
  \/ \E n \in Nat :
       /\ out # <<>> /\ LastSent + n <= Total
       /\ out' = Append(out, BatchEvent(Len(out) - 1, LastSent + 1, LastSent + n))
  \/ /\ out # <<>> /\ LastSent = Total
     /\ out' = Append(out, CompleteEvent(Len(out) - 1, Total))
  \/ out' = Append(out, ErrorEvent)

MisreadStep ==
  \/ out' = out
  \/ out = <<>> /\ out' = Append(out, SchemaEvent)
  \/ out # <<>> /\ out' = Append(out, CompleteEvent(Batches, RowsSent))
  \/ out' = Append(out, ErrorEvent)

\* A stream of the right shape: its numbers of batches and rows.
LEMMA Sent ==
  ASSUME SeqInv, Shape, out # <<>>
  PROVE  Batches = Len(out) - 1 /\ RowsSent = LastSent
<1>1. Len(out) \in Nat /\ Len(out) >= 1 /\ DOMAIN out = 1..Len(out)
  BY DEF SeqInv
<1> DEFINE b == {i \in DOMAIN out : out[i].type = "batch"}
<1>2. b = 2..Len(out)
  BY <1>1 DEF Shape
<1>3. Batches = Len(out) - 1
  <2>1. Cardinality(2..Len(out)) = IF 2 > Len(out) THEN 0 ELSE Len(out) - 2 + 1
    BY <1>1, FS_Interval
  <2>2. Batches = Cardinality(2..Len(out))
    BY <1>2 DEF Batches
  <2> QED BY <1>1, <2>1, <2>2
<1>4. RowsSent = LastSent
  <2> DEFINE m == CHOOSE i \in b : \A j \in b : j <= i
  <2>1. RowsSent = IF b = {} THEN 0 ELSE out[m].last
    BY DEF RowsSent
  <2> HIDE DEF b, m
  <2>2. CASE Len(out) = 1
    BY <1>2, <2>1, <2>2 DEF LastSent
  <2>3. CASE Len(out) > 1
    <3>1. Len(out) \in b /\ \A j \in b : j <= Len(out)
      BY <1>1, <1>2, <2>3
    <3>2. m \in b /\ \A j \in b : j <= m
      BY <3>1 DEF m
    <3>3. m \in 2..Len(out)
      BY <1>2, <3>2
    <3>4. m = Len(out)
      <4>1. Len(out) <= m
        BY <3>1, <3>2
      <4>2. m \in Int /\ m <= Len(out)
        BY <1>1, <3>3
      <4>3. Len(out) \in Int
        BY <1>1
      <4> QED BY <4>1, <4>2, <4>3
    <3>5. b # {}
      BY <3>1
    <3> QED BY <2>1, <2>3, <3>4, <3>5 DEF LastSent
  <2> QED BY <1>1, <2>2, <2>3
<1> QED BY <1>3, <1>4

\* What is known after the schema has been sent, or could not be.
LEMMA SchemaSent ==
  ASSUME SeqInv, out = <<>>, NEW next, Emit(SchemaEvent, next)
  PROVE  /\ StreamStep
         /\ pc' \in {next, "returned"}
         /\ pc' # "returned" => Shape' /\ LastSent' = 0 /\ Len(out') = 1 /\ out' # <<>>
<1>1. CASE rx = "open"
  <2>1. out' = <<SchemaEvent>> /\ pc' = next /\ out' = Append(out, SchemaEvent)
    BY <1>1 DEF Emit
  <2>2. Shape'
    BY <2>1 DEF Shape, SchemaEvent
  <2>3. Len(out') = 1 /\ out' # <<>> /\ LastSent' = 0
    BY <2>1 DEF LastSent
  <2> QED BY <2>1, <2>2, <2>3 DEF StreamStep
<1>2. CASE rx # "open"
  BY <1>2 DEF Emit, StreamStep
<1> QED BY <1>1, <1>2

\* What is known after a batch of n rows has been sent, or could not be.
LEMMA BatchSent ==
  ASSUME SeqInv, Shape, LastSent \in Nat, Total \in Nat, out # <<>>,
         NEW n \in Nat, LastSent + n <= Total,
         NEW next, Emit(BatchEvent(Batches, RowsSent + 1, RowsSent + n), next)
  PROVE  /\ StreamStep
         /\ pc' \in {next, "returned"}
         /\ pc' # "returned" => Shape' /\ LastSent' = LastSent + n /\ out' # <<>>
<1>1. CASE rx = "open"
  <2> DEFINE e == BatchEvent(Len(out) - 1, LastSent + 1, LastSent + n)
  <2>1. out' = Append(out, e) /\ pc' = next
    BY <1>1, Sent DEF Emit
  <2>2. e.type = "batch" /\ e.last = LastSent + n
    BY DEF BatchEvent
  <2> HIDE DEF e
  <2>3. /\ Len(out) \in Nat /\ Len(out) >= 1 /\ DOMAIN out = 1..Len(out)
        /\ Len(out') = Len(out) + 1 /\ DOMAIN out' = 1..(Len(out) + 1)
        /\ \A i \in 1..Len(out) : out'[i] = out[i]
        /\ out'[Len(out) + 1] = e
    <3>1. out \in Seq(Range(out) \cup {e}) /\ e \in Range(out) \cup {e}
      BY DEF SeqInv
    <3> QED BY <2>1, <3>1
  <2>4. Shape'
    BY <2>2, <2>3 DEF Shape
  <2>5. LastSent' = LastSent + n /\ out' # <<>>
    BY <2>2, <2>3 DEF LastSent
  <2>6. StreamStep
    BY <2>1 DEF StreamStep, e
  <2> QED BY <2>1, <2>4, <2>5, <2>6
<1>2. CASE rx # "open"
  BY <1>2 DEF Emit, StreamStep
<1> QED BY <1>1, <1>2

\* What is known after the last event of a stream.
LEMMA ErrorSent ==
  ASSUME Finish(ErrorEvent)
  PROVE  StreamStep /\ pc' = "returned"
BY DEF Finish, StreamStep

LEMMA SummarySent ==
  ASSUME SeqInv, Shape, out # <<>>, LastSent = Total,
         Finish(CompleteEvent(Batches, RowsSent))
  PROVE  StreamStep /\ pc' = "returned"
<1>1. Batches = Len(out) - 1 /\ RowsSent = Total
  BY Sent
<1> QED BY <1>1 DEF Finish, StreamStep

\* The row to reach is a number.
LEMMA TotalNat ==
  ASSUME Pos
  PROVE  Total \in Nat
BY DEF Pos, Total, CN!Fetched, CN!Min2

\* Nothing is asked of the position of a call that has returned.
LEMMA Ended ==
  ASSUME Pos, call = "stream", UNCHANGED request, pc' = "returned"
  PROVE  Pos'
<1>1. StreamPos'
  BY DEF Pos, StreamPos, PartitionPos, BigQueryPos, ClickHousePos, NativePos, FlightPos, request
<1> QED BY <1>1 DEF Pos, request

\* A buffered call sends nothing.
LEMMA BufferedStep ==
  ASSUME Pos, call # "stream", UNCHANGED <<request, out>>,
         pc' \in {"submit", "polling", "asked", "result", "fetch", "returned"}
  PROVE  StreamStep /\ Pos'
<1>1. out = <<>> /\ out' = <<>> /\ call' # "stream"
  BY DEF Pos, request
<1>2. Shape' /\ LastSent' = 0
  BY <1>1 DEF Shape, LastSent
<1> QED BY <1>1, <1>2 DEF Pos, StreamStep, request

\* Making a provider, or failing to, leaves nothing behind.
LEMMA CleanStep ==
  ASSUME Pos, Clean, UNCHANGED <<request, pages, got, out>>,
         pc' \in {"ensure", "connect", "ready", "unmade"}
  PROVE  StreamStep /\ Pos'
<1>1. Clean' /\ Shape' /\ LastSent' = 0
  BY DEF Clean, Shape, LastSent
<1>2. call' = "stream" => StreamPos'
  BY DEF Pos, StreamPos, PartitionPos, BigQueryPos, ClickHousePos, NativePos, FlightPos, request
<1> QED BY <1>1, <1>2 DEF Pos, StreamStep, Clean, request

\* What the contract sees of a stream of the right shape.
LEMMA Seen ==
  ASSUME SeqInv, Shape
  PROVE  /\ Contract!Open
         /\ out # <<>> => Contract!LastRow = LastSent
<1> DEFINE last == out[Len(out)]
<1>1. Len(out) \in Nat /\ DOMAIN out = 1..Len(out) /\ (out # <<>> => Len(out) >= 1)
  BY DEF SeqInv
<1>2. out # <<>> => /\ last.type \in {"schema", "batch"}
                    /\ LastSent = IF last.type = "batch" THEN last.last ELSE 0
  BY <1>1 DEF Shape, LastSent
<1> QED BY <1>2 DEF Contract!Open, Contract!LastRow, Contract!Last

\* A step of the system is a step that the contract allows.
LEMMA StepAllowed ==
  ASSUME SeqInv, Pos, pc # "returned", ~misread, StreamStep
  PROVE  Contract!Next \/ out' = out
<1>1. Shape /\ LastSent \in Nat /\ Total \in Nat
  BY TotalNat DEF Pos
<1>2. (CASE misread -> RowsSent
         [] ~misread /\ provider = "clickhouse_native" -> CN!Fetched
         [] OTHER -> matching) = Total
  BY DEF Total
<1>3. Contract!Open /\ (out # <<>> => Contract!LastRow = LastSent)
  BY <1>1, Seen
<1>4. CASE out = <<>> /\ out' = Append(out, SchemaEvent)
  <2>1. out' = <<[type |-> "schema"]>>
    BY <1>4 DEF SchemaEvent
  <2> QED BY <1>4, <2>1 DEF Contract!Next, Contract!Schema
<1>5. ASSUME NEW n \in Nat, out # <<>>, LastSent + n <= Total,
             out' = Append(out, BatchEvent(Len(out) - 1, LastSent + 1, LastSent + n))
      PROVE  Contract!Batch
  <2>1. n \in 0..(Total - LastSent)
    BY <1>1, <1>5
  <2> QED BY <1>2, <1>3, <1>5, <2>1 DEF Contract!Batch, BatchEvent
<1>6. CASE /\ out # <<>> /\ LastSent = Total
           /\ out' = Append(out, CompleteEvent(Len(out) - 1, Total))
  BY <1>2, <1>3, <1>6 DEF Contract!Next, Contract!Complete, CompleteEvent
<1>7. CASE out' = Append(out, ErrorEvent)
  BY <1>3, <1>7 DEF Contract!Next, Contract!Fail, ErrorEvent
<1> QED BY <1>4, <1>5, <1>6, <1>7 DEF StreamStep, Contract!Next

\* The same after a misread answer: what the summary must have reached is then
\* what has been sent.
LEMMA MisreadAllowed ==
  ASSUME SeqInv, Shape, misread, MisreadStep
  PROVE  Contract!Next \/ out' = out
<1>1. Contract!Open /\ (out # <<>> => Contract!LastRow = LastSent)
  BY Seen
<1>2. (CASE misread -> RowsSent
         [] ~misread /\ provider = "clickhouse_native" -> CN!Fetched
         [] OTHER -> matching) = RowsSent
  OBVIOUS
<1>3. CASE out = <<>> /\ out' = Append(out, SchemaEvent)
  <2>1. out' = <<[type |-> "schema"]>>
    BY <1>3 DEF SchemaEvent
  <2> QED BY <1>3, <2>1 DEF Contract!Next, Contract!Schema
<1>4. CASE out # <<>> /\ out' = Append(out, CompleteEvent(Batches, RowsSent))
  <2>1. Batches = Len(out) - 1 /\ RowsSent = LastSent
    BY <1>4, Sent
  <2> QED BY <1>1, <1>2, <1>4, <2>1 DEF Contract!Next, Contract!Complete, CompleteEvent
<1>5. CASE out' = Append(out, ErrorEvent)
  BY <1>1, <1>5 DEF Contract!Next, Contract!Fail, ErrorEvent
<1> QED BY <1>3, <1>4, <1>5 DEF MisreadStep

\* The pages of a result divide its rows.
LEMMA SplitPages ==
  ASSUME NEW n \in Nat, pages' \in Splits(n)
  PROVE  Paging(n)' /\ pages' # <<>>
<1> DEFINE s == pages'
<1>1. PICK k \in 1..MaxPages : s \in [1..k -> 0..n]
  BY DEF Splits
<1>2. k \in Nat /\ k >= 1 /\ 0..n \subseteq Nat
  BY <1>1, StatementAssumption
<1>3. s \in Seq(Nat) /\ Len(s) = k /\ s # <<>>
  BY <1>1, <1>2
<1>4. s[k] = n /\ \A i \in 2..k : s[i - 1] <= s[i]
  BY <1>3 DEF Splits
<1>5. \A i \in 1..k : s[i] \in 0..n
  BY <1>1
<1>6. \A i \in 1..k : Rows(i - 1)' <= Rows(i)' /\ Rows(i)' <= n
  <2> SUFFICES ASSUME NEW i \in 1..k
               PROVE  Rows(i - 1)' <= Rows(i)' /\ Rows(i)' <= n
    OBVIOUS
  <2>1. CASE i = 1
    BY <1>2, <1>5, <2>1 DEF Rows
  <2>2. CASE i # 1
    BY <1>2, <1>4, <1>5, <2>2 DEF Rows
  <2> QED BY <2>1, <2>2
<1>7. Rows(k)' = n
  BY <1>2, <1>4 DEF Rows
<1> QED BY <1>3, <1>6, <1>7 DEF Paging

\* Page k brings the rows sent from the end of page k - 1 to its own.
LEMMA PageStep ==
  ASSUME Paging(matching), matching \in Nat, NEW k \in 1..Len(pages)
  PROVE  /\ PageRows(k) \in Nat
         /\ Rows(k - 1) \in Nat /\ Rows(k) \in Nat
         /\ Rows(k - 1) + PageRows(k) = Rows(k) /\ Rows(k) <= matching
<1>1. pages \in Seq(Nat) /\ Len(pages) \in Nat /\ \A i \in 1..Len(pages) : pages[i] \in Nat
  BY DEF Paging
<1>2. Rows(k) \in Nat /\ Rows(k - 1) \in Nat
  BY <1>1 DEF Rows
<1>3. Rows(k - 1) <= Rows(k) /\ Rows(k) <= matching
  BY DEF Paging
<1> QED BY <1>2, <1>3 DEF PageRows

\* A stream goes on or ends.
LEMMA StreamOn ==
  ASSUME Pos, call = "stream", UNCHANGED request,
         pc' \in {"submit", "polling", "asked", "result", "fetch", "inline", "rows", "complete", "returned"},
         pc' # "returned" => Shape' /\ LastSent' \in Nat /\ StreamPos'
  PROVE  Pos'
<1>1. CASE pc' = "returned"
  BY <1>1, Ended
<1>2. CASE pc' # "returned"
  BY <1>2 DEF Pos, request
<1> QED BY <1>1, <1>2

\* A stream that fails.
LEMMA StreamFails ==
  ASSUME Pos, call = "stream", UNCHANGED request, Finish(ErrorEvent)
  PROVE  StreamStep /\ Pos'
BY ErrorSent, Ended

-----------------------------------------------------------------------------

(***************************************************************************)
(* Databricks and Snowflake.                                               *)
(***************************************************************************)
Partitioned ==
  Pos /\ provider \in {"databricks", "snowflake"} /\ call = "stream" /\ pc # "returned"

\* The statement is accepted or polled again.
LEMMA PartitionsPolled ==
  ASSUME Partitioned, UNCHANGED <<request, out>>, out = <<>>,
         Paging(matching)', pages' # <<>>,
         pc' \in {"polling", "asked", "result"}
  PROVE  StreamStep /\ Pos'
<1>1. Shape' /\ LastSent' = 0
  BY DEF Shape, LastSent
<1>2. PartitionPos'
  BY DEF PartitionPos
<1>3. StreamPos'
  BY <1>2 DEF Partitioned, StreamPos, Pooled, request
<1> QED BY <1>1, <1>3, StreamOn DEF Partitioned, StreamStep

\* The schema goes out before the first partition.
LEMMA PartitionsSchema ==
  ASSUME SeqInv, Partitioned, pc = "result", Emit(SchemaEvent, "inline"),
         UNCHANGED <<request, pages>>
  PROVE  StreamStep /\ Pos'
<1>1. out = <<>> /\ Paging(matching) /\ pages # <<>>
  BY DEF Partitioned, Pos, StreamPos, PartitionPos
<1>2. /\ StreamStep /\ pc' \in {"inline", "returned"}
      /\ pc' # "returned" => Shape' /\ LastSent' = 0 /\ Len(out') = 1 /\ out' # <<>>
  BY <1>1, SchemaSent
<1>3. Paging(matching)' /\ pages' # <<>>
  BY <1>1 DEF Paging, Rows, request
<1>4. pc' # "returned" => StreamPos'
  BY <1>2, <1>3 DEF Partitioned, StreamPos, PartitionPos, Pooled, request
<1> QED BY <1>2, <1>4, StreamOn DEF Partitioned

\* Partition k is sent, unless it is empty.
LEMMA PartitionSent ==
  ASSUME SeqInv, Partitioned, UNCHANGED <<request, pages>>,
         Paging(matching), pages # <<>>, out # <<>>,
         NEW k \in 1..Len(pages), LastSent = Rows(k - 1), got' = k,
         IF PageRows(k) = 0
         THEN pc' = "fetch" /\ UNCHANGED out
         ELSE Emit(BatchEvent(Batches, RowsSent + 1, RowsSent + PageRows(k)), "fetch")
  PROVE  StreamStep /\ Pos'
<1>1. /\ matching \in Nat /\ Shape /\ LastSent \in Nat /\ Total \in Nat /\ Total = matching
  BY TotalNat DEF Partitioned, Pos, Total
<1>2. /\ PageRows(k) \in Nat /\ Rows(k) \in Nat
      /\ LastSent + PageRows(k) = Rows(k) /\ Rows(k) <= Total
  BY <1>1, PageStep
<1>3. /\ StreamStep /\ pc' \in {"fetch", "returned"}
      /\ pc' # "returned" => Shape' /\ LastSent' = Rows(k) /\ out' # <<>>
  <2>1. CASE PageRows(k) = 0
    BY <1>1, <1>2, <2>1 DEF StreamStep, Shape, LastSent
  <2>2. CASE PageRows(k) # 0
    <3>1. LastSent + PageRows(k) <= Total
      BY <1>2
    <3>2. Emit(BatchEvent(Batches, RowsSent + 1, RowsSent + PageRows(k)), "fetch")
      BY <2>2
    <3> QED BY <1>1, <1>2, <3>1, <3>2, BatchSent
  <2> QED BY <2>1, <2>2
<1>4. Paging(matching)' /\ pages' # <<>> /\ Rows(k)' = Rows(k)
  BY DEF Paging, Rows, request
<1>5. pc' # "returned" => PartitionPos'
  BY <1>3, <1>4 DEF PartitionPos, Rows
<1>6. pc' # "returned" => StreamPos'
  BY <1>5 DEF Partitioned, StreamPos, Pooled, request
<1> QED BY <1>2, <1>3, <1>6, StreamOn DEF Partitioned

\* The summary follows the last partition.
LEMMA PartitionsComplete ==
  ASSUME SeqInv, Partitioned, UNCHANGED request, pc = "fetch", got = Len(pages),
         Finish(CompleteEvent(Batches, RowsSent))
  PROVE  StreamStep /\ Pos'
<1>1. Shape /\ out # <<>> /\ LastSent = Total
  BY DEF Partitioned, Pos, StreamPos, PartitionPos, Paging, Total
<1> QED BY <1>1, SummarySent, Ended DEF Partitioned

\* Every step of the Databricks provider.
LEMMA DatabricksStream ==
  ASSUME SeqInv, Pos, provider = "databricks", DB!Next
  PROVE  StreamStep /\ Pos'
<1> USE DEF DB!frame, DB!request, DB!statement, request
<1>0. pc # "returned"
  BY DEF DB!Next
<1>1. CASE pc = "connect" /\ DB!New
  <2>1. Clean /\ UNCHANGED <<request, pages, got, out>> /\ pc' \in {"ready", "unmade"}
    BY <1>1 DEF Pos, DB!New, DB!ExchangeM2mToken
  <2> QED BY <2>1, CleanStep
<1>2. CASE DB!Buffered /\ pc # "connect"
  <2>1. call # "stream"
    BY <1>2 DEF DB!Buffered
  <2>2. CASE DB!SubmitStatement
    <3>1. DB!Goto("result") \/ DB!Return(DB!Failed) \/ DB!StartPolling
      BY <2>2 DEF DB!SubmitStatement, DB!Accept
    <3>2. UNCHANGED request
      BY <2>2 DEF DB!SubmitStatement
    <3> QED BY <2>1, <3>1, <3>2, BufferedStep DEF DB!Goto, DB!Return, DB!StartPolling
  <2>3. CASE DB!PollStatement
    BY <2>1, <2>3, BufferedStep DEF DB!PollStatement, DB!Goto, DB!Return
  <2>4. CASE DB!PollReply
    BY <2>1, <2>4, BufferedStep DEF DB!PollReply, DB!Goto, DB!Return
  <2>5. CASE DB!Result
    BY <2>1, <2>5, BufferedStep DEF DB!Result, DB!Return
  <2>6. CASE DB!FetchAllChunks
    BY <2>1, <2>6, BufferedStep DEF DB!FetchAllChunks, DB!ExecuteQuery, DB!Return
  <2> QED BY <1>2, <2>2, <2>3, <2>4, <2>5, <2>6 DEF DB!Next
<1>3. CASE ~DB!Buffered /\ pc # "connect"
  <2>0. call = "stream" /\ Partitioned /\ PartitionPos /\ matching \in Nat
    BY <1>0, <1>3 DEF DB!Buffered, Partitioned, Pos, StreamPos
  <2>e. DB!Finish(DB!ErrorEvent) /\ UNCHANGED request => StreamStep /\ Pos'
    BY <2>0, StreamFails DEF DB!Finish, DB!ErrorEvent, Finish, ErrorEvent
  <2>1. CASE pc = "submit" /\ DB!StreamSubmit
    <3>1. UNCHANGED request /\ out = <<>>
      BY <2>0, <2>1 DEF DB!StreamSubmit, PartitionPos
    <3>2. \/ DB!Finish(DB!ErrorEvent)
          \/ pages' \in Splits(matching) /\ (DB!Goto("result") \/ DB!StartPolling)
      BY <2>1 DEF DB!StreamSubmit, DB!Accept, DB!Splits, Splits
    <3>3. CASE pages' \in Splits(matching) /\ (DB!Goto("result") \/ DB!StartPolling)
      <4>1. Paging(matching)' /\ pages' # <<>>
        BY <2>0, <3>1, <3>3, SplitPages
      <4> QED BY <2>0, <3>1, <3>3, <4>1, PartitionsPolled DEF DB!Goto, DB!StartPolling
    <3> QED BY <2>e, <3>1, <3>2, <3>3
  <2>2. CASE pc = "polling" /\ DB!StreamPoll
    BY <2>0, <2>e, <2>2, PartitionsPolled DEF DB!StreamPoll, DB!Goto, PartitionPos, Paging, Rows
  <2>3. CASE pc = "asked" /\ DB!StreamPollReply
    BY <2>0, <2>e, <2>3, PartitionsPolled DEF DB!StreamPollReply, DB!Goto, PartitionPos, Paging, Rows
  <2>4. CASE pc = "result" /\ DB!StreamSchema
    BY <2>0, <2>4, PartitionsSchema DEF DB!StreamSchema, DB!Emit, DB!SchemaEvent, Emit, SchemaEvent
  <2>s. DB!Batches = Batches /\ DB!RowsSent = RowsSent
    BY Zenon DEF DB!Batches, DB!RowsSent, Batches, RowsSent, DB!Cardinality, Cardinality
  <2>p. ASSUME NEW k, DB!SendPage(k, "fetch")
        PROVE  IF PageRows(k) = 0
               THEN pc' = "fetch" /\ UNCHANGED out
               ELSE Emit(BatchEvent(Batches, RowsSent + 1, RowsSent + PageRows(k)), "fetch")
    <3>1. DB!PageRows(k) = PageRows(k)
      BY DEF DB!PageRows, DB!Rows, PageRows, Rows
    <3> QED BY <2>s, <2>p, <3>1 DEF DB!SendPage, DB!Emit, DB!BatchEvent, Emit, BatchEvent
  <2>5. CASE pc = "inline" /\ DB!StreamInline
    <3>1. DB!SendPage(1, "fetch") /\ got' = 1 /\ UNCHANGED <<request, pages>>
      BY <2>5 DEF DB!StreamInline
    <3>2. Paging(matching) /\ pages # <<>> /\ out # <<>> /\ LastSent = Rows(1 - 1)
      BY <2>0, <2>5 DEF PartitionPos, Rows
    <3>3. 1 \in 1..Len(pages)
      BY <3>2 DEF Paging
    <3> QED BY <2>0, <2>p, <3>1, <3>2, <3>3, PartitionSent
  <2>6. CASE pc = "fetch" /\ DB!StreamChunk
    <3>1. UNCHANGED <<request, pages>> /\ got < Len(pages)
      BY <2>6 DEF DB!StreamChunk
    <3>2. DB!Finish(DB!ErrorEvent) \/ (DB!SendPage(got + 1, "fetch") /\ got' = got + 1)
      BY <2>6 DEF DB!StreamChunk
    <3>3. Paging(matching) /\ pages # <<>> /\ out # <<>> /\ got \in 1..Len(pages) /\ LastSent = Rows(got)
      BY <2>0, <2>6 DEF PartitionPos
    <3>4. got + 1 \in 1..Len(pages) /\ (got + 1) - 1 = got
      BY <3>1, <3>3 DEF Paging
    <3> QED BY <2>0, <2>e, <2>p, <3>1, <3>2, <3>3, <3>4, PartitionSent
  <2>7. CASE pc = "fetch" /\ DB!StreamComplete
    <3>1. /\ UNCHANGED request /\ got = Len(pages)
          /\ Finish(CompleteEvent(Batches, RowsSent))
      BY <2>s, <2>7 DEF DB!StreamComplete, DB!Finish, DB!CompleteEvent, Finish, CompleteEvent
    <3> QED BY <2>0, <2>7, <3>1, PartitionsComplete
  <2> QED BY <1>3, <2>1, <2>2, <2>3, <2>4, <2>5, <2>6, <2>7 DEF DB!Next
<1> QED BY <1>1, <1>2, <1>3 DEF DB!Next

\* Every step of the Snowflake provider that does not misread a refusal.
LEMMA SnowflakeStream ==
  ASSUME SeqInv, Pos, ~misread, ~misread', auth \in SF!Secrets, provider = "snowflake", SF!Next
  PROVE  StreamStep /\ Pos'
<1> USE DEF SF!frame, SF!request, SF!statement, request
<1>0. pc # "returned"
  BY DEF SF!Next
<1>1. CASE pc = "connect" /\ SF!New
  <2>1. Clean /\ UNCHANGED <<request, pages, got, out>> /\ pc' \in {"ready", "unmade"}
    BY <1>1 DEF Pos, SF!Secrets, SF!New, SF!GenerateKeypairJwt, SF!LoginPassword
  <2> QED BY <2>1, CleanStep
<1>2. CASE SF!Buffered /\ pc # "connect"
  <2>1. call # "stream"
    BY <1>2 DEF SF!Buffered
  <2>2. CASE SF!SubmitStatement
    <3>1. SF!Goto("result") \/ SF!Return(SF!Failed) \/ SF!StartPolling
      BY <2>2 DEF SF!SubmitStatement, SF!Accept
    <3>2. UNCHANGED request
      BY <2>2 DEF SF!SubmitStatement
    <3> QED BY <2>1, <3>1, <3>2, BufferedStep DEF SF!Goto, SF!Return, SF!StartPolling
  <2>3. CASE SF!PollStatement
    BY <2>1, <2>3, BufferedStep DEF SF!PollStatement, SF!Goto, SF!Return
  <2>4. CASE SF!PollStatementUrl
    BY <2>1, <2>4, BufferedStep DEF SF!PollStatementUrl, SF!Misread, SF!Goto, SF!Return
  <2>5. CASE SF!ExecuteQuery
    BY <2>1, <2>5, BufferedStep DEF SF!ExecuteQuery, SF!Return
  <2> QED BY <1>2, <2>2, <2>3, <2>4, <2>5 DEF SF!Next
<1>3. CASE ~SF!Buffered /\ pc # "connect"
  <2>0. call = "stream" /\ Partitioned /\ PartitionPos /\ matching \in Nat
    BY <1>0, <1>3 DEF SF!Buffered, Partitioned, Pos, StreamPos
  <2>e. SF!Finish(SF!ErrorEvent) /\ UNCHANGED request => StreamStep /\ Pos'
    BY <2>0, StreamFails DEF SF!Finish, SF!ErrorEvent, Finish, ErrorEvent
  <2>1. CASE pc = "submit" /\ SF!StreamSubmit
    <3>1. UNCHANGED request /\ out = <<>>
      BY <2>0, <2>1 DEF SF!StreamSubmit, PartitionPos
    <3>2. \/ SF!Finish(SF!ErrorEvent)
          \/ pages' \in Splits(matching) /\ (SF!Goto("result") \/ SF!StartPolling)
      BY <2>1 DEF SF!StreamSubmit, SF!Accept, SF!Splits, Splits
    <3>3. CASE pages' \in Splits(matching) /\ (SF!Goto("result") \/ SF!StartPolling)
      <4>1. Paging(matching)' /\ pages' # <<>>
        BY <2>0, <3>1, <3>3, SplitPages
      <4> QED BY <2>0, <3>1, <3>3, <4>1, PartitionsPolled DEF SF!Goto, SF!StartPolling
    <3> QED BY <2>e, <3>1, <3>2, <3>3
  <2>2. CASE pc = "polling" /\ SF!StreamPoll
    BY <2>0, <2>e, <2>2, PartitionsPolled DEF SF!StreamPoll, SF!Goto, PartitionPos, Paging, Rows
  <2>3. CASE pc = "asked" /\ SF!StreamPollReply
    BY <2>0, <2>e, <2>3, PartitionsPolled
       DEF SF!StreamPollReply, SF!Misread, SF!Goto, PartitionPos, Paging, Rows
  <2>4. CASE pc = "result" /\ SF!StreamSchema
    BY <2>0, <2>4, PartitionsSchema DEF SF!StreamSchema, SF!Emit, SF!SchemaEvent, Emit, SchemaEvent
  <2>s. SF!Batches = Batches /\ SF!RowsSent = RowsSent
    BY Zenon DEF SF!Batches, SF!RowsSent, Batches, RowsSent, SF!Cardinality, Cardinality
  <2>p. ASSUME NEW k, SF!SendPartition(k)
        PROVE  IF PageRows(k) = 0
               THEN pc' = "fetch" /\ UNCHANGED out
               ELSE Emit(BatchEvent(Batches, RowsSent + 1, RowsSent + PageRows(k)), "fetch")
    <3>1. SF!PageRows(k) = PageRows(k)
      BY DEF SF!PageRows, SF!Rows, PageRows, Rows
    <3> QED BY <2>s, <2>p, <3>1 DEF SF!SendPartition, SF!Emit, SF!BatchEvent, Emit, BatchEvent
  <2>5. CASE pc = "inline" /\ SF!StreamInline
    <3>1. SF!SendPartition(1) /\ got' = 1 /\ UNCHANGED <<request, pages>>
      BY <2>5 DEF SF!StreamInline
    <3>2. Paging(matching) /\ pages # <<>> /\ out # <<>> /\ LastSent = Rows(1 - 1)
      BY <2>0, <2>5 DEF PartitionPos, Rows
    <3>3. 1 \in 1..Len(pages)
      BY <3>2 DEF Paging
    <3> QED BY <2>0, <2>p, <3>1, <3>2, <3>3, PartitionSent
  <2>6. CASE pc = "fetch" /\ SF!StreamPartition
    <3>1. UNCHANGED <<request, pages>> /\ got < Len(pages)
      BY <2>6 DEF SF!StreamPartition, SF!PartitionCount
    <3>2. SF!Finish(SF!ErrorEvent) \/ (SF!SendPartition(got + 1) /\ got' = got + 1)
      BY <2>6 DEF SF!StreamPartition
    <3>3. Paging(matching) /\ pages # <<>> /\ out # <<>> /\ got \in 1..Len(pages) /\ LastSent = Rows(got)
      BY <2>0, <2>6 DEF PartitionPos
    <3>4. got + 1 \in 1..Len(pages) /\ (got + 1) - 1 = got
      BY <3>1, <3>3 DEF Paging
    <3> QED BY <2>0, <2>e, <2>p, <3>1, <3>2, <3>3, <3>4, PartitionSent
  <2>7. CASE pc = "fetch" /\ SF!StreamComplete
    <3>1. /\ UNCHANGED request /\ got = Len(pages)
          /\ Finish(CompleteEvent(Batches, RowsSent))
      BY <2>s, <2>7 DEF SF!StreamComplete, SF!PartitionCount, SF!Finish, SF!CompleteEvent, Finish,
         CompleteEvent
    <3> QED BY <2>0, <2>7, <3>1, PartitionsComplete
  <2> QED BY <1>3, <2>1, <2>2, <2>3, <2>4, <2>5, <2>6, <2>7 DEF SF!Next
<1> QED BY <1>1, <1>2, <1>3 DEF SF!Next

-----------------------------------------------------------------------------

(***************************************************************************)
(* BigQuery and ClickHouse: the offset of the next page is the last row    *)
(* sent.                                                                   *)
(***************************************************************************)
Offset(p) == Pos /\ provider = p /\ call = "stream" /\ pc # "returned"

\* The rows of a page are sent, unless there are none.
LEMMA PageSent ==
  ASSUME SeqInv, NEW p \in {"bigquery", "clickhouse"}, Offset(p), OffsetPos, UNCHANGED <<request, pages>>,
         pages # <<>>, NEW n \in Nat, got + n <= matching, got' = got + n, NEW next,
         IF n = 0
         THEN pc' = next /\ UNCHANGED out
         ELSE Emit(BatchEvent(Batches, got + 1, got + n), next)
  PROVE  /\ StreamStep
         /\ pc' \in {next, "returned"}
         /\ pc' # "returned" => Shape' /\ LastSent' \in Nat /\ OffsetPos' /\ out' # <<>>
<1>1. /\ matching \in Nat /\ Shape /\ LastSent \in Nat /\ Total \in Nat /\ Total = matching
      /\ got = LastSent /\ out # <<>> /\ pages \in Seq(Nat)
  BY TotalNat DEF Offset, OffsetPos, Pos, Total
<1>2. CASE n = 0
  BY <1>1, <1>2 DEF StreamStep, Shape, LastSent, OffsetPos, request
<1>3. CASE n # 0
  <2>1. Emit(BatchEvent(Batches, RowsSent + 1, RowsSent + n), next)
    BY <1>1, <1>3, Sent
  <2>2. /\ StreamStep
        /\ pc' \in {next, "returned"}
        /\ pc' # "returned" => Shape' /\ LastSent' = LastSent + n /\ out' # <<>>
    BY <1>1, <2>1, BatchSent
  <2> QED BY <1>1, <2>2 DEF OffsetPos, request
<1> QED BY <1>2, <1>3

\* Every step of the BigQuery provider that does not misread an empty page.
LEMMA BigQueryStream ==
  ASSUME SeqInv, Pos, ~misread, ~misread', auth \in BQ!Secrets, provider = "bigquery", BQ!Next
  PROVE  StreamStep /\ Pos'
<1> USE DEF BQ!frame, BQ!request, BQ!statement, request
<1>0. pc # "returned"
  BY DEF BQ!Next
<1>1. CASE pc = "connect" /\ BQ!New
  <2>1. Clean /\ UNCHANGED <<request, pages, got, out>> /\ pc' \in {"ready", "unmade"}
    BY <1>1 DEF Pos, BQ!Secrets, BQ!New, BQ!ExchangeServiceAccountJwt, BQ!ResolveBillingProject
  <2> QED BY <2>1, CleanStep
<1>2. CASE BQ!Buffered /\ pc # "connect"
  <2>1. call # "stream"
    BY <1>2 DEF BQ!Buffered
  <2>2. CASE BQ!SubmitQueryJob
    <3>1. BQ!Goto("result") \/ BQ!Return(BQ!Error) \/ BQ!Return(BQ!Ok) \/ BQ!StartPolling
      BY <2>2 DEF BQ!SubmitQueryJob
    <3>2. UNCHANGED request
      BY <2>2 DEF BQ!SubmitQueryJob
    <3> QED BY <2>1, <3>1, <3>2, BufferedStep DEF BQ!Goto, BQ!Return, BQ!StartPolling
  <2>3. CASE BQ!PollJob
    BY <2>1, <2>3, BufferedStep DEF BQ!PollJob, BQ!Goto, BQ!Return
  <2>4. CASE BQ!PollJobReply
    BY <2>1, <2>4, BufferedStep DEF BQ!PollJobReply, BQ!Goto, BQ!Return
  <2>5. CASE BQ!GetQueryResults
    BY <2>1, <2>5, BufferedStep DEF BQ!GetQueryResults, BQ!Return
  <2>6. CASE pc = "submit" /\ BQ!ListActiveProjects
    BY <2>1, <2>6, BufferedStep DEF BQ!ListActiveProjects, BQ!Return
  <2> QED BY <1>2, <2>2, <2>3, <2>4, <2>5, <2>6 DEF BQ!Next
<1>3. CASE ~BQ!Buffered /\ pc # "connect"
  <2>0. /\ call = "stream" /\ Offset("bigquery") /\ BigQueryPos /\ matching \in Nat
        /\ Shape /\ LastSent \in Nat
    BY <1>0, <1>3 DEF BQ!Buffered, Offset, Pos, StreamPos
  <2>e. BQ!Finish(BQ!ErrorEvent) /\ UNCHANGED request => StreamStep /\ Pos'
    BY <2>0, StreamFails DEF BQ!Finish, BQ!ErrorEvent, Finish, ErrorEvent
  <2>n. ASSUME UNCHANGED request, BigQueryPos'
        PROVE  StreamPos'
    BY <2>n DEF StreamPos, Pooled
  <2>c. ASSUME Clean, UNCHANGED <<request, got, out>>, pages' = <<>>,
               pc' \in {"polling", "asked", "result"}
        PROVE  StreamStep /\ Pos'
    <3>1. Clean' /\ Shape' /\ LastSent' = 0
      BY <2>c DEF Clean, Shape, LastSent
    <3>2. OffsetPos'
      BY <2>0, <2>c, <3>1 DEF Clean, OffsetPos
    <3>3. BigQueryPos'
      BY <2>c, <3>1, <3>2 DEF BigQueryPos
    <3> QED BY <2>0, <2>c, <2>n, <3>1, <3>3, StreamOn DEF StreamStep
  <2>1. CASE pc = "submit" /\ BQ!StreamSubmit
    <3>1. Clean /\ UNCHANGED request
      BY <2>0, <2>1 DEF BQ!StreamSubmit, BigQueryPos
    <3>2. BQ!Finish(BQ!ErrorEvent) \/ (pages' = <<>> /\ (BQ!Goto("result") \/ BQ!StartPolling))
      BY <2>1 DEF BQ!StreamSubmit
    <3> QED BY <2>c, <2>e, <3>1, <3>2 DEF BQ!Goto, BQ!StartPolling
  <2>2. CASE pc = "polling" /\ BQ!StreamPoll
    <3>1. Clean /\ UNCHANGED <<request, pages>>
      BY <2>0, <2>2 DEF BQ!StreamPoll, BigQueryPos
    <3>2. BQ!Finish(BQ!ErrorEvent) \/ BQ!Goto("asked")
      BY <2>2 DEF BQ!StreamPoll
    <3> QED BY <2>c, <2>e, <3>1, <3>2 DEF BQ!Goto, Clean
  <2>3. CASE pc = "asked" /\ BQ!StreamPollReply
    <3>1. Clean /\ UNCHANGED <<request, pages>>
      BY <2>0, <2>3 DEF BQ!StreamPollReply, BigQueryPos
    <3>2. BQ!Finish(BQ!ErrorEvent) \/ BQ!Goto("result") \/ BQ!Goto("polling")
      BY <2>3 DEF BQ!StreamPollReply
    <3> QED BY <2>c, <2>e, <3>1, <3>2 DEF BQ!Goto, Clean
  <2>4. CASE pc = "result" /\ BQ!StreamPage
    <3>1. OffsetPos /\ UNCHANGED request
      BY <2>0, <2>4 DEF BQ!StreamPage, BigQueryPos
    <3>2. CASE BQ!Finish(BQ!ErrorEvent)
      BY <2>e, <3>1, <3>2
    <3>3. ASSUME NEW n \in BQ!PageSizes(matching - got, PageSize),
                 pages' = Append(pages, got + n), got' = got,
                 IF pages = <<>> THEN BQ!Emit(BQ!SchemaEvent, "rows") ELSE pc' = "rows" /\ UNCHANGED out
          PROVE  StreamStep /\ Pos'
      <4>1. got \in Nat /\ got <= matching /\ pages \in Seq(Nat)
        BY <2>0, <3>1 DEF OffsetPos
      <4>2. n \in Nat /\ got + n <= matching
        BY <2>0, <3>3, <4>1, StatementAssumption DEF BQ!PageSizes, BQ!Min2
      <4>3. /\ StreamStep /\ pc' \in {"rows", "returned"}
            /\ pc' # "returned" => Shape' /\ LastSent' = got /\ out' # <<>>
        <5>1. CASE pages = <<>>
          <6>1. out = <<>> /\ got = 0 /\ Emit(SchemaEvent, "rows")
            BY <3>1, <3>3, <5>1 DEF OffsetPos, LastSent, BQ!Emit, BQ!SchemaEvent, Emit, SchemaEvent
          <6> QED BY <6>1, SchemaSent
        <5>2. CASE pages # <<>>
          BY <2>0, <3>1, <3>3, <5>2 DEF OffsetPos, StreamStep, Shape, LastSent
        <5> QED BY <5>1, <5>2
      <4>4. /\ pages' \in Seq(Nat) /\ pages' # <<>>
            /\ Len(pages') \in Nat /\ Len(pages') # 0 /\ pages'[Len(pages')] = got + n
        BY <3>3, <4>1, <4>2
      <4>5. PageEnd' = got + n
        BY <4>4 DEF PageEnd, Rows
      <4>6. pc' # "returned" => OffsetPos' /\ BigQueryPos'
        BY <3>1, <3>3, <4>1, <4>2, <4>3, <4>4, <4>5 DEF OffsetPos, BigQueryPos
      <4> QED BY <2>0, <2>n, <3>1, <4>1, <4>3, <4>6, StreamOn
    <3> QED BY <2>4, <3>2, <3>3 DEF BQ!StreamPage
  <2>s. BQ!Batches = Batches /\ BQ!RowsSent = RowsSent
    BY Zenon DEF BQ!Batches, BQ!RowsSent, Batches, RowsSent, BQ!Cardinality, Cardinality
  <2>5. CASE pc = "rows" /\ BQ!StreamRows
    <3> DEFINE n == PageEnd - got
    <3>1. OffsetPos /\ pages # <<>> /\ got <= PageEnd /\ PageEnd <= matching
      BY <2>0, <2>5 DEF BigQueryPos
    <3>2. got \in Nat /\ PageEnd \in Nat
      BY <2>0, <3>1 DEF OffsetPos, PageEnd, Rows
    <3>3. BQ!Rows(Len(pages)) - got = n
      BY DEF BQ!Rows, PageEnd, Rows
    <3>4. PICK token_left \in (IF got + n < matching THEN {TRUE} ELSE BOOLEAN) :
            LET next == IF n > 0 /\ token_left THEN "result" ELSE "complete"
            IN IF n = 0 THEN pc' = next /\ UNCHANGED out
               ELSE BQ!Emit(BQ!BatchEvent(BQ!Batches, got + 1, got + n), next)
      BY <2>5, <3>3 DEF BQ!StreamRows
    <3>u. got' = got + n /\ UNCHANGED <<request, pages>>
      BY <2>5, <3>3 DEF BQ!StreamRows
    <3>m. ~(n = 0 /\ got < matching)
      BY <2>5, <3>3, Zenon DEF BQ!StreamRows
    <3> DEFINE next == IF n > 0 /\ token_left THEN "result" ELSE "complete"
    <3>5. n \in Nat /\ got + n <= matching /\ (next = "complete" => got + n = matching)
      <4>1. n \in Nat /\ got + n <= matching /\ got + n = PageEnd
        BY <2>0, <3>1, <3>2
      <4>2. got + n < matching => token_left
        BY <3>4
      <4> HIDE DEF n
      <4> QED BY <2>0, <3>2, <3>m, <4>1, <4>2
    <3>6. next \in {"result", "complete"}
      OBVIOUS
    <3> HIDE DEF n, next
    <3>7. IF n = 0 THEN pc' = next /\ UNCHANGED out
          ELSE Emit(BatchEvent(Batches, got + 1, got + n), next)
      BY <2>s, <3>4 DEF next, BQ!Emit, BQ!BatchEvent, Emit, BatchEvent
    <3>8. /\ StreamStep
          /\ pc' \in {next, "returned"}
          /\ pc' # "returned" => Shape' /\ LastSent' \in Nat /\ OffsetPos' /\ out' # <<>>
      BY <2>0, <3>1, <3>5, <3>7, <3>u, PageSent
    <3>9. pc' # "returned" => BigQueryPos'
      BY <3>5, <3>6, <3>8, <3>u DEF BigQueryPos
    <3> QED BY <2>0, <2>n, <3>6, <3>8, <3>9, <3>u, StreamOn
  <2>6. CASE pc = "complete" /\ BQ!StreamComplete
    <3>1. out # <<>> /\ LastSent = Total /\ got = LastSent /\ UNCHANGED request
      BY <2>0, <2>6 DEF BQ!StreamComplete, BigQueryPos, OffsetPos, Total
    <3>2. Finish(CompleteEvent(Batches, RowsSent))
      BY <2>0, <2>s, <2>6, <3>1, Sent
         DEF BQ!StreamComplete, BQ!Finish, BQ!CompleteEvent, Finish, CompleteEvent
    <3> QED BY <2>0, <3>1, <3>2, SummarySent, Ended
  <2> QED BY <1>3, <2>1, <2>2, <2>3, <2>4, <2>5, <2>6 DEF BQ!Next, BQ!Buffered
<1> QED BY <1>1, <1>2, <1>3 DEF BQ!Next

\* Every step of the ClickHouse provider over HTTP.
LEMMA ClickHouseStream ==
  ASSUME SeqInv, Pos, provider = "clickhouse", CH!Next
  PROVE  StreamStep /\ Pos'
<1> USE DEF CH!frame, CH!request, CH!statement, request
<1>0. pc # "returned"
  BY DEF CH!Next
<1>1. CASE pc = "connect" /\ CH!New
  <2>1. Clean /\ UNCHANGED <<request, pages, got, out>> /\ pc' \in {"ready", "unmade"}
    BY <1>1 DEF Pos, CH!New
  <2> QED BY <2>1, CleanStep
<1>2. CASE pc = "submit" /\ call # "stream" /\ CH!ExecuteQuery
  <2>1. UNCHANGED <<request, out>> /\ pc' = "returned"
    BY <1>2 DEF CH!ExecuteQuery, CH!Return
  <2> QED BY <1>2, <2>1, BufferedStep
<1>3. CASE pc \in {"submit", "rows", "complete"} /\ call = "stream"
  <2>0. /\ call = "stream" /\ Offset("clickhouse") /\ ClickHousePos /\ matching \in Nat
        /\ Shape /\ LastSent \in Nat /\ OffsetPos
    BY <1>0, <1>3 DEF Offset, Pos, StreamPos, ClickHousePos
  <2>1. /\ matching \in Nat /\ got \in Nat /\ got <= matching /\ matching - got \in Nat
        /\ pages \in Seq(Nat)
    BY <2>0 DEF OffsetPos
  <2>m. /\ Paged(PageSize, matching - got) \in Nat
        /\ Paged(PageSize, matching - got) <= matching - got
        /\ \/ text = "plain" /\ Paged(PageSize, matching - got) >= PageSize
           \/ Paged(PageSize, matching - got) = matching - got
    BY <2>1, StatementAssumption DEF Paged, Min2
  <2>e. CH!Finish(CH!ErrorEvent) /\ UNCHANGED request => StreamStep /\ Pos'
    BY <2>0, StreamFails DEF CH!Finish, CH!ErrorEvent, Finish, ErrorEvent
  <2>n. ASSUME UNCHANGED request, ClickHousePos'
        PROVE  StreamPos'
    BY <2>n DEF StreamPos, Pooled
  <2>2. CASE pc = "submit" /\ CH!StreamPage
    <3> DEFINE n == Paged(PageSize, matching - got)
    <3>1. UNCHANGED request
      BY <2>2 DEF CH!StreamPage
    <3>2. \/ CH!Finish(CH!ErrorEvent)
          \/ /\ pages' = Append(pages, got + n) /\ got' = got
             /\ \/ pages = <<>> /\ CH!Emit(CH!SchemaEvent, "rows")
                \/ pages # <<>> /\ pc' = "rows" /\ UNCHANGED out
      BY <2>2 DEF CH!StreamPage, CH!Goto, CH!Paged, CH!Min2, Paged, Min2
    <3>3. ASSUME pages' = Append(pages, got + n), got' = got,
                 \/ pages = <<>> /\ CH!Emit(CH!SchemaEvent, "rows")
                 \/ pages # <<>> /\ pc' = "rows" /\ UNCHANGED out
          PROVE  StreamStep /\ Pos'
      <4>1. n \in Nat /\ Paged(PageSize, matching - got)' = n
        BY <2>m, <3>1, <3>3 DEF Paged
      <4> HIDE DEF n
      <4>2. /\ StreamStep /\ pc' \in {"rows", "returned"}
            /\ pc' # "returned" => Shape' /\ LastSent' = got /\ out' # <<>>
        <5>1. CASE pages = <<>>
          <6>1. out = <<>> /\ got = 0 /\ Emit(SchemaEvent, "rows")
            BY <2>0, <3>3, <5>1 DEF OffsetPos, LastSent, CH!Emit, CH!SchemaEvent, Emit, SchemaEvent
          <6> QED BY <6>1, SchemaSent
        <5>2. CASE pages # <<>>
          BY <2>0, <3>3, <5>2 DEF OffsetPos, StreamStep, Shape, LastSent
        <5> QED BY <5>1, <5>2
      <4>3. /\ pages' \in Seq(Nat) /\ pages' # <<>>
            /\ Len(pages') \in Nat /\ Len(pages') # 0 /\ pages'[Len(pages')] = got + n
        BY <2>1, <3>3, <4>1
      <4>4. PageEnd' = got + n
        BY <4>3 DEF PageEnd, Rows
      <4>5. pc' # "returned" => OffsetPos' /\ ClickHousePos'
        BY <2>1, <3>1, <3>3, <4>1, <4>2, <4>3, <4>4 DEF OffsetPos, ClickHousePos
      <4> QED BY <2>0, <2>1, <2>n, <3>1, <4>2, <4>5, StreamOn
    <3> HIDE DEF n
    <3> QED BY <2>e, <3>1, <3>2, <3>3
  <2>s. CH!Batches = Batches /\ CH!RowsSent = RowsSent
    BY Zenon DEF CH!Batches, CH!RowsSent, Batches, RowsSent, CH!Cardinality, Cardinality
  <2>3. CASE pc = "rows" /\ CH!StreamRows
    <3> DEFINE n == PageEnd - got
    <3> DEFINE next == IF n < PageSize \/ text # "plain" THEN "complete" ELSE "submit"
    <3>1. pages # <<>> /\ PageEnd = got + Paged(PageSize, matching - got)
      BY <2>0, <2>3 DEF ClickHousePos
    <3>2. CH!Rows(Len(pages)) - got = n
      BY DEF CH!Rows, PageEnd, Rows
    <3>3. /\ IF n = 0 THEN pc' = next /\ UNCHANGED out
             ELSE CH!Emit(CH!BatchEvent(CH!Batches, got + 1, got + n), next)
          /\ got' = got + n /\ UNCHANGED <<request, pages>>
      BY <2>3, <3>2 DEF CH!StreamRows
    <3>4. n = Paged(PageSize, matching - got)
      BY <2>1, <2>m, <3>1
    <3> HIDE DEF n
    <3>5. n \in Nat /\ got + n <= matching
      BY <2>1, <2>m, <3>4
    <3>6. next = "complete" => got + n = matching
      <4>1. n < PageSize \/ text # "plain" => n = matching - got
        BY <2>m, <3>4, <3>5, StatementAssumption
      <4> QED BY <2>1, <4>1
    <3>7. next \in {"submit", "complete"}
      OBVIOUS
    <3> HIDE DEF next
    <3>8. IF n = 0 THEN pc' = next /\ UNCHANGED out
          ELSE Emit(BatchEvent(Batches, got + 1, got + n), next)
      BY <2>s, <3>3 DEF CH!Emit, CH!BatchEvent, Emit, BatchEvent
    <3>9. /\ StreamStep
          /\ pc' \in {next, "returned"}
          /\ pc' # "returned" => Shape' /\ LastSent' \in Nat /\ OffsetPos' /\ out' # <<>>
      BY <2>0, <3>1, <3>3, <3>5, <3>8, PageSent
    <3>10. pc' # "returned" => ClickHousePos'
      BY <3>3, <3>6, <3>7, <3>9 DEF ClickHousePos
    <3> QED BY <2>0, <2>n, <3>3, <3>7, <3>9, <3>10, StreamOn
  <2>4. CASE pc = "complete" /\ CH!StreamComplete
    <3>1. out # <<>> /\ LastSent = Total /\ UNCHANGED request
      BY <2>0, <2>4 DEF CH!StreamComplete, ClickHousePos, OffsetPos, Total
    <3>2. Finish(CompleteEvent(Batches, RowsSent))
      BY <2>s, <2>4 DEF CH!StreamComplete, CH!Finish, CH!CompleteEvent, Finish, CompleteEvent
    <3> QED BY <2>0, <3>1, <3>2, SummarySent, Ended
  <2> QED BY <1>3, <2>2, <2>3, <2>4 DEF CH!Next
<1>4. call # "stream" => pc \notin {"rows", "complete"}
  BY DEF Pos
<1> QED BY <1>1, <1>2, <1>3, <1>4 DEF CH!Next

-----------------------------------------------------------------------------

\* Every step of the native ClickHouse provider.
LEMMA ClickHouseNativeStream ==
  ASSUME SeqInv, Pos, provider = "clickhouse_native", CN!Next
  PROVE  StreamStep /\ Pos'
<1> USE DEF CN!frame, CN!request, CN!statement, request
<1>0. pc # "returned"
  BY DEF CN!Next
<1>1. CASE pc = "connect" /\ CN!New
  <2>1. Clean /\ UNCHANGED <<request, pages, got, out>> /\ pc' \in {"ready", "unmade"}
    BY <1>1 DEF Pos, CN!New
  <2> QED BY <2>1, CleanStep
<1>2. CASE pc = "submit" /\ call # "stream"
  <2>1. CASE CN!ExecuteQuery
    BY <1>2, <2>1, BufferedStep DEF CN!ExecuteQuery, CN!Return
  <2>2. CASE CN!DryRun
    BY <1>2, <2>2, BufferedStep DEF CN!DryRun, CN!Return
  <2> QED BY <1>2, <2>1, <2>2 DEF CN!Next
<1>3. CASE pc \in {"submit", "rows", "complete"} /\ call = "stream"
  <2>0. /\ call = "stream" /\ NativePos /\ Shape /\ LastSent \in Nat /\ Total \in Nat
        /\ Total = CN!Fetched
    BY <1>0, <1>3, TotalNat DEF Pos, StreamPos, Total
  <2>n. ASSUME UNCHANGED request, NativePos'
        PROVE  StreamPos'
    BY <2>n DEF StreamPos, Pooled
  <2>t. UNCHANGED request => Total' = Total
    BY DEF Total, CN!Fetched, CN!Min2
  <2>1. CASE pc = "submit" /\ CN!StreamQuery
    <3>1. UNCHANGED request /\ out = <<>>
      BY <2>0, <2>1 DEF CN!StreamQuery, NativePos, Clean
    <3>2. CASE CN!Return(CN!Error)
      BY <1>3, <3>1, <3>2, Ended DEF CN!Return, StreamStep
    <3>3. CASE /\ pages' \in {<<CN!Fetched>>} \cup (IF CN!Fetched = 0 THEN {<<>>} ELSE {})
               /\ CN!Emit(CN!SchemaEvent, "rows")
      <4>1. pages' = <<Total>> \/ (pages' = <<>> /\ Total = 0)
        BY <2>0, <3>3
      <4>2. Emit(SchemaEvent, "rows")
        BY <3>3 DEF CN!Emit, CN!SchemaEvent, Emit, SchemaEvent
      <4>3. /\ StreamStep /\ pc' \in {"rows", "returned"}
            /\ pc' # "returned" => Shape' /\ LastSent' = 0 /\ Len(out') = 1
        BY <3>1, <4>2, SchemaSent
      <4>4. pc' # "returned" => NativePos'
        BY <2>t, <3>1, <4>1, <4>3 DEF NativePos
      <4> QED BY <2>0, <2>n, <3>1, <4>3, <4>4, StreamOn
    <3> QED BY <2>1, <3>2, <3>3 DEF CN!StreamQuery
  <2>2. CASE pc = "rows" /\ CN!QueryResultToArrowStream
    <3>1. UNCHANGED <<request, pages>>
      BY <2>2 DEF CN!QueryResultToArrowStream
    <3>2. Len(out) = 1 /\ (pages = <<Total>> \/ (pages = <<>> /\ Total = 0))
      BY <2>0, <2>2 DEF NativePos
    <3>3. out # <<>> /\ LastSent = 0
      BY <3>2 DEF LastSent
    <3>4. Batches = 0 /\ RowsSent = 0
      BY <2>0, <3>2, <3>3, Sent
    <3>5. /\ StreamStep /\ pc' \in {"complete", "returned"}
          /\ pc' # "returned" => Shape' /\ LastSent' = Total /\ out' # <<>>
      <4>1. CASE pages = <<>>
        <5>1. pc' = "complete" /\ UNCHANGED out
          BY <2>2, <4>1 DEF CN!QueryResultToArrowStream
        <5>2. Total = 0
          BY <3>2, <4>1
        <5> QED BY <2>0, <3>3, <5>1, <5>2 DEF StreamStep, Shape, LastSent
      <4>2. CASE pages = <<Total>> /\ pages # <<>>
        <5>1. Emit(BatchEvent(Batches, RowsSent + 1, RowsSent + Total), "complete")
          BY <2>0, <2>2, <3>4, <4>2 DEF CN!QueryResultToArrowStream, CN!Emit, CN!BatchEvent, Emit, BatchEvent
        <5>2. LastSent + Total <= Total
          BY <2>0, <3>3
        <5> QED BY <2>0, <3>3, <5>1, <5>2, BatchSent
      <4> QED BY <3>2, <4>1, <4>2
    <3>6. pc' # "returned" => NativePos'
      BY <2>t, <3>1, <3>5 DEF NativePos
    <3> QED BY <2>0, <2>n, <3>1, <3>5, <3>6, StreamOn
  <2>3. CASE pc = "complete" /\ CN!StreamComplete
    <3>1. out # <<>> /\ LastSent = Total /\ UNCHANGED request
      BY <2>0, <2>3 DEF CN!StreamComplete, NativePos
    <3>2. CN!Batches = Batches /\ CN!RowsSent = RowsSent
      BY Zenon DEF CN!Batches, CN!RowsSent, Batches, RowsSent, CN!Cardinality, Cardinality
    <3>3. Finish(CompleteEvent(Batches, RowsSent))
      BY <2>3, <3>2 DEF CN!StreamComplete, CN!Finish, CN!CompleteEvent, Finish, CompleteEvent
    <3> QED BY <2>0, <3>1, <3>3, SummarySent, Ended
  <2> QED BY <1>3, <2>1, <2>2, <2>3 DEF CN!Next
<1>4. call # "stream" => pc \notin {"rows", "complete"}
  BY DEF Pos
<1> QED BY <1>1, <1>2, <1>3, <1>4 DEF CN!Next

\* Every step of the FlareDB provider.
LEMMA FlareDbStream ==
  ASSUME SeqInv, Pos, provider = "flaredb", FD!Next
  PROVE  StreamStep /\ Pos'
<1> USE DEF FD!frame, FD!request, FD!statement, request
<1>0. pc # "returned"
  BY DEF FD!Next
<1>1. CASE pc = "connect" /\ FD!New
  <2>1. Clean /\ UNCHANGED <<request, pages, got, out>> /\ pc' \in {"ready", "unmade"}
    BY <1>1 DEF Pos, FD!New
  <2> QED BY <2>1, CleanStep
<1>2. CASE pc \in {"submit", "fetch"} /\ call # "stream"
  <2>1. CASE FD!Execute
    <3>1. UNCHANGED request
      BY <2>1 DEF FD!Execute
    <3>2. FD!Return(FD!Ok) \/ FD!Goto("fetch") \/ FD!Return(FD!Failed)
      BY <2>1 DEF FD!Execute
    <3> QED BY <1>2, <3>1, <3>2, BufferedStep DEF FD!Return, FD!Goto
  <2>2. CASE FD!DoGet
    <3>1. UNCHANGED <<request, out>> /\ pc' \in {pc, "returned"}
      BY <2>2 DEF FD!DoGet, FD!Return
    <3> QED BY <1>2, <3>1, BufferedStep
  <2> QED BY <1>2, <2>1, <2>2 DEF FD!Next
<1>3. CASE pc \in {"submit", "fetch", "rows", "complete"} /\ call = "stream"
  <2>0. /\ call = "stream" /\ FlightPos /\ Shape /\ LastSent \in Nat /\ matching \in Nat
        /\ Total = matching
    BY <1>0, <1>3 DEF Pos, StreamPos, Total
  <2>e. FD!Finish(FD!ErrorEvent) /\ UNCHANGED request => StreamStep /\ Pos'
    BY <2>0, StreamFails DEF FD!Finish, FD!ErrorEvent, Finish, ErrorEvent
  <2>n. ASSUME UNCHANGED request, FlightPos'
        PROVE  StreamPos'
    BY <2>n DEF StreamPos, Pooled
  <2>k. UNCHANGED <<request, pages>> /\ Paging(matching) => Paging(matching)'
    BY DEF Paging, Rows
  <2>1. CASE pc = "submit" /\ FD!StreamExecute
    <3>1. UNCHANGED request /\ Clean
      BY <2>0, <2>1 DEF FD!StreamExecute, FlightPos
    <3>2. FD!Finish(FD!ErrorEvent) \/ (pages' \in FD!Flight(matching) /\ FD!Goto("fetch"))
      BY <2>1 DEF FD!StreamExecute
    <3>3. CASE pages' \in FD!Flight(matching) /\ FD!Goto("fetch")
      <4>1. /\ UNCHANGED <<out, got>> /\ pc' = "fetch" /\ out = <<>> /\ got = 0
            /\ out' = <<>> /\ got' = 0
        BY <3>1, <3>3 DEF Clean, FD!Goto
      <4>2. Paging(matching)'
        <5>1. CASE pages' \in Splits(matching)
          BY <2>0, <3>1, <5>1, SplitPages
        <5>2. CASE pages' = <<>> /\ matching = 0
          BY <3>1, <5>2 DEF Paging, Rows
        <5> QED BY <3>3, <5>1, <5>2 DEF FD!Flight, FD!Splits, Splits
      <4>3. Shape' /\ LastSent' = 0 /\ Rows(0)' = 0
        BY <4>1 DEF Shape, LastSent, Rows
      <4>4. got' \in 0..Len(pages')
        BY <4>1, <4>2 DEF Paging
      <4>5. FlightPos'
        BY <4>1, <4>2, <4>3, <4>4 DEF FlightPos, Rows
      <4> QED BY <2>0, <2>n, <3>1, <4>1, <4>3, <4>5, StreamOn DEF StreamStep
    <3> QED BY <2>e, <3>1, <3>2, <3>3
  <2>2. CASE pc = "fetch" /\ FD!StreamBatch
    <3>1. UNCHANGED <<request, pages>>
      BY <2>2 DEF FD!StreamBatch
    <3>2. /\ Paging(matching) /\ got \in 0..Len(pages) /\ LastSent = Rows(got)
          /\ out = <<>> => got = 0
      BY <2>0, <2>2 DEF FlightPos
    <3>s. FD!Emit(FD!SchemaEvent, "rows") => Emit(SchemaEvent, "rows")
      BY DEF FD!Emit, FD!SchemaEvent, Emit, SchemaEvent
    <3>3. CASE got = Len(pages)
      <4>1. out = <<>> /\ Emit(SchemaEvent, "complete")
        BY <2>2, <3>3 DEF FD!StreamBatch, FD!Emit, FD!SchemaEvent, Emit, SchemaEvent
      <4>2. matching = 0
        BY <3>2, <3>3, <4>1 DEF Paging, Rows
      <4>3. /\ StreamStep /\ pc' \in {"complete", "returned"}
            /\ pc' # "returned" => Shape' /\ LastSent' = 0 /\ out' # <<>>
        BY <4>1, SchemaSent
      <4>4. pc' # "returned" => FlightPos'
        BY <3>1, <4>2, <4>3 DEF FlightPos
      <4> QED BY <2>0, <2>n, <3>1, <4>3, <4>4, StreamOn
    <3>4. CASE got # Len(pages)
      <4>1. \/ FD!Finish(FD!ErrorEvent)
            \/ /\ IF out = <<>> THEN FD!Emit(FD!SchemaEvent, "rows") ELSE pc' = "rows" /\ UNCHANGED out
               /\ got' = got
        BY <2>2, <3>4 DEF FD!StreamBatch
      <4>2. CASE /\ IF out = <<>> THEN FD!Emit(FD!SchemaEvent, "rows") ELSE pc' = "rows" /\ UNCHANGED out
                 /\ got' = got
        <5>1. /\ StreamStep /\ pc' \in {"rows", "returned"}
              /\ pc' # "returned" => Shape' /\ LastSent' = LastSent /\ out' # <<>>
          <6>1. CASE out = <<>>
            BY <3>s, <4>2, <6>1, SchemaSent DEF LastSent
          <6>2. CASE out # <<>>
            BY <2>0, <4>2, <6>2 DEF StreamStep, Shape, LastSent
          <6> QED BY <6>1, <6>2
        <5>2. got' < Len(pages') /\ got' \in 0..Len(pages') /\ Rows(got)' = Rows(got)
          BY <3>1, <3>2, <3>4, <4>2 DEF Paging, Rows
        <5>3. pc' # "returned" => FlightPos'
          BY <2>k, <3>1, <3>2, <4>2, <5>1, <5>2 DEF FlightPos
        <5> QED BY <2>0, <2>n, <3>1, <5>1, <5>3, StreamOn
      <4> QED BY <2>e, <3>1, <4>1, <4>2
    <3> QED BY <3>3, <3>4
  <2>s. FD!Batches = Batches /\ FD!RowsSent = RowsSent
    BY Zenon DEF FD!Batches, FD!RowsSent, Batches, RowsSent, FD!Cardinality, Cardinality
  <2>3. CASE pc = "rows" /\ FD!StreamRows
    <3> DEFINE k == got + 1
    <3>1. UNCHANGED <<request, pages>> /\ got' = k
      BY <2>3 DEF FD!StreamRows
    <3>2. /\ Paging(matching) /\ got \in 0..Len(pages) /\ LastSent = Rows(got)
          /\ got < Len(pages) /\ out # <<>>
      BY <2>0, <2>3 DEF FlightPos
    <3>3. k \in 1..Len(pages) /\ k - 1 = got /\ k \in 0..Len(pages) /\ k # 0
      BY <3>2 DEF Paging
    <3>4. FD!PageRows(k) = PageRows(k)
      BY DEF FD!PageRows, FD!Rows, PageRows, Rows
    <3>5. Emit(BatchEvent(Batches, RowsSent + 1, RowsSent + PageRows(k)), "fetch")
      BY <2>s, <2>3, <3>4 DEF FD!StreamRows, FD!Emit, FD!BatchEvent, Emit, BatchEvent
    <3> HIDE DEF k
    <3>6. /\ PageRows(k) \in Nat /\ Rows(k) \in Nat
          /\ LastSent + PageRows(k) = Rows(k) /\ LastSent + PageRows(k) <= Total
      BY <2>0, <3>2, <3>3, PageStep
    <3>7. /\ StreamStep /\ pc' \in {"fetch", "returned"}
          /\ pc' # "returned" => Shape' /\ LastSent' = Rows(k) /\ out' # <<>>
      BY <2>0, <3>2, <3>5, <3>6, BatchSent, TotalNat
    <3>8. Rows(got)' = Rows(k)
      BY <3>1 DEF Rows
    <3>9. pc' # "returned" => FlightPos'
      BY <2>k, <3>1, <3>2, <3>3, <3>7, <3>8 DEF FlightPos
    <3> QED BY <2>0, <2>n, <3>1, <3>6, <3>7, <3>9, StreamOn
  <2>4. CASE /\ FD!StreamComplete
             /\ pc = "complete" \/ (pc = "fetch" /\ got = Len(pages) /\ out # <<>>)
    <3>1. out # <<>> /\ LastSent = Total /\ UNCHANGED request
      BY <2>0, <2>4 DEF FD!StreamComplete, FlightPos, Paging
    <3>2. Finish(CompleteEvent(Batches, RowsSent))
      BY <2>s, <2>4 DEF FD!StreamComplete, FD!Finish, FD!CompleteEvent, Finish, CompleteEvent
    <3> QED BY <2>0, <3>1, <3>2, SummarySent, Ended
  <2> QED BY <1>3, <2>1, <2>2, <2>3, <2>4 DEF FD!Next
<1>4. call # "stream" => pc \notin {"rows", "complete"}
  BY DEF Pos
<1> QED BY <1>1, <1>2, <1>3, <1>4 DEF FD!Next

\* The providers over a pool stream elsewhere (ArrowStream).
LEMMA SqlxStream ==
  ASSUME Pos, SQ!Next
  PROVE  StreamStep /\ Pos'
<1> USE DEF SQ!frame, SQ!request, SQ!statement, request
<1>1. CASE pc = "connect"
  <2>1. SQ!Unmade \/ SQ!ConnectPool
    BY <1>1 DEF SQ!Next, SQ!PostgresNew, SQ!MySqlNew, SQ!RedshiftNew, SQ!ResolveIamCredentials,
       SQ!ResolveStandardCredentials, SQ!GetClusterCredentials
  <2>2. Clean /\ UNCHANGED <<request, pages, got, out>> /\ pc' \in {"ready", "unmade"}
    BY <1>1, <2>1 DEF Pos, SQ!Unmade, SQ!ConnectPool
  <2> QED BY <2>2, CleanStep
<1>2. CASE pc = "submit"
  <2>1. call # "stream" /\ UNCHANGED <<request, out>> /\ pc' = "returned"
    BY <1>2 DEF SQ!Next, SQ!TestConnection, SQ!ExecuteQuery, SQ!DryRun, SQ!Return
  <2> QED BY <2>1, BufferedStep
<1> QED BY <1>1, <1>2 DEF SQ!Next

-----------------------------------------------------------------------------

\* A provider serves the call that runs.
LEMMA ProviderRequest ==
  ASSUME Provider
  PROVE  pc # "returned" /\ UNCHANGED provider
<1>1. CASE DB!Next
  BY <1>1 DEF DB!Next, DB!New, DB!SubmitStatement, DB!PollStatement, DB!PollReply, DB!Result,
     DB!FetchAllChunks, DB!StreamSubmit, DB!StreamPoll, DB!StreamPollReply, DB!StreamSchema,
     DB!StreamInline, DB!StreamChunk, DB!StreamComplete, DB!frame, DB!request
<1>2. CASE SF!Next
  BY <1>2 DEF SF!Next, SF!New, SF!SubmitStatement, SF!PollStatement, SF!PollStatementUrl,
     SF!ExecuteQuery, SF!StreamSubmit, SF!StreamPoll, SF!StreamPollReply, SF!StreamSchema,
     SF!StreamInline, SF!StreamPartition, SF!StreamComplete, SF!frame, SF!request
<1>3. CASE BQ!Next
  BY <1>3 DEF BQ!Next, BQ!New, BQ!SubmitQueryJob, BQ!GetQueryResults, BQ!ListActiveProjects,
     BQ!PollJob, BQ!PollJobReply, BQ!StreamSubmit, BQ!StreamPoll, BQ!StreamPollReply,
     BQ!StreamPage, BQ!StreamRows, BQ!StreamComplete, BQ!frame, BQ!request
<1>4. CASE provider \in Providers \ {"databricks", "snowflake", "bigquery"} /\ (CH!Next \/ CN!Next \/ FD!Next \/ SQ!Next)
  <2>1. PlainStep
    BY <1>4, ClickHouseStep, ClickHouseNativeStep, FlareDbStep, SqlxStep DEF Polled
  <2> QED BY <1>4, <2>1 DEF PlainStep, CH!Next, CN!Next, FD!Next, SQ!Next
<1> QED BY <1>1, <1>2, <1>3, <1>4 DEF Provider, Providers, Pooled

\* Every step of a provider that does not misread an answer.
LEMMA ProviderStream ==
  ASSUME IInv, Pos, ~misread, ~misread', Provider
  PROVE  StreamStep /\ Pos'
<1>1. SeqInv /\ auth \in SecretsOf(provider)
  BY DEF IInv, ReportInv, TokenInv
<1>2. CASE provider = "databricks" /\ DB!Next
  BY <1>1, <1>2, DatabricksStream
<1>3. CASE provider = "snowflake" /\ SF!Next
  BY <1>1, <1>3, SnowflakeStream DEF SecretsOf
<1>4. CASE provider = "bigquery" /\ BQ!Next
  BY <1>1, <1>4, BigQueryStream DEF SecretsOf
<1>5. CASE provider = "clickhouse" /\ CH!Next
  BY <1>1, <1>5, ClickHouseStream
<1>6. CASE provider = "clickhouse_native" /\ CN!Next
  BY <1>1, <1>6, ClickHouseNativeStream
<1>7. CASE provider = "flaredb" /\ FD!Next
  BY <1>1, <1>7, FlareDbStream
<1>8. CASE SQ!Next
  BY <1>8, SqlxStream
<1> QED BY <1>2, <1>3, <1>4, <1>5, <1>6, <1>7, <1>8 DEF Provider

\* Snowflake misreads a refused poll, BigQuery an empty page: nothing is sent.
LEMMA MisreadStarts ==
  ASSUME IInv, Pos, ~misread, misread', Provider
  PROVE  UNCHANGED out /\ MisreadPos'
<1>0. MisreadInv' /\ auth \in SecretsOf(provider) /\ SeqInv
  BY ProviderReports DEF IInv, ReportInv, TokenInv
<1>1. CASE provider = "snowflake" /\ SF!Next
  <2>1. /\ pc = "asked" /\ pc' = "result"
        /\ UNCHANGED <<request, out>>
    <3>1. CASE SF!SubmitStatement \/ SF!StreamSubmit
      <4>1. SF!Goto("result") \/ SF!Return(SF!Failed) \/ SF!StartPolling \/ SF!Finish(SF!ErrorEvent)
        BY <3>1 DEF SF!SubmitStatement, SF!StreamSubmit, SF!Accept
      <4> QED BY <4>1 DEF SF!Goto, SF!Return, SF!StartPolling, SF!Finish
    <3>2. CASE ~(SF!SubmitStatement \/ SF!StreamSubmit)
      BY <1>1, <3>2 DEF SF!Next, SF!New, SF!PollStatement, SF!PollStatementUrl, SF!ExecuteQuery,
         SF!StreamPoll, SF!StreamPollReply, SF!StreamSchema, SF!StreamInline, SF!StreamPartition,
         SF!StreamComplete, SF!Misread, SF!Goto, SF!Return, SF!Finish, SF!frame, SF!request, request
    <3> QED BY <3>1, <3>2
  <2>2. out = <<>>
    BY <1>1, <2>1 DEF Pos, StreamPos, PartitionPos
  <2>3. Shape'
    BY <2>1, <2>2 DEF Shape
  <2> QED BY <1>1, <2>1, <2>2, <2>3 DEF MisreadPos, request
<1>2. CASE provider = "bigquery" /\ BQ!Next
  <2>1. pc = "rows" /\ BQ!StreamRows
    <3>1. CASE BQ!SubmitQueryJob \/ BQ!StreamSubmit
      <4>1. \/ BQ!Goto("result") \/ BQ!Return(BQ!Error) \/ BQ!Return(BQ!Ok) \/ BQ!StartPolling
            \/ BQ!Finish(BQ!ErrorEvent)
        BY <3>1 DEF BQ!SubmitQueryJob, BQ!StreamSubmit
      <4> QED BY <4>1 DEF BQ!Goto, BQ!Return, BQ!StartPolling, BQ!Finish
    <3>2. CASE ~(BQ!SubmitQueryJob \/ BQ!StreamSubmit)
      BY <1>2, <3>2 DEF BQ!Next, BQ!New, BQ!GetQueryResults, BQ!ListActiveProjects, BQ!PollJob,
         BQ!PollJobReply, BQ!StreamPoll, BQ!StreamPollReply, BQ!StreamPage, BQ!StreamComplete,
         BQ!Goto, BQ!Return, BQ!Finish
    <3> QED BY <3>1, <3>2
  <2>2. /\ call = "stream" /\ OffsetPos /\ pages # <<>> /\ Shape /\ got \in Nat
    BY <1>2, <2>1 DEF Pos, StreamPos, BigQueryPos, OffsetPos
  <2> DEFINE n == BQ!Rows(Len(pages)) - got
  <2>3. got' = got + n /\ UNCHANGED request /\ (n = 0 => pc' = "complete" /\ UNCHANGED out)
    BY <2>1 DEF BQ!StreamRows, BQ!frame, BQ!request, request
  <2>m. n = 0
    BY <2>1, Zenon DEF BQ!StreamRows
  <2> HIDE DEF n
  <2>4. UNCHANGED <<request, out, got>> /\ pc' = "complete"
    BY <2>2, <2>3, <2>m
  <2>5. Shape' /\ LastSent' = LastSent
    BY <2>2, <2>4 DEF Shape, LastSent
  <2> QED BY <2>2, <2>4, <2>5 DEF MisreadPos, OffsetPos, request
<1>3. provider' = provider
  BY ProviderRequest
<1> QED BY <1>0, <1>1, <1>2, <1>3 DEF MisreadInv, Provider, Pooled

\* What follows a misread answer: at most a schema, and the end.
LEMMA MisreadStream ==
  ASSUME IInv, misread, MisreadPos, Provider
  PROVE  pc # "returned" /\ misread' /\ MisreadStep /\ MisreadPos'
<1>0. MisreadInv /\ SeqInv
  BY DEF IInv, ReportInv
<1>1. CASE provider = "snowflake" /\ SF!Next
  <2> USE DEF SF!frame, SF!request, request
  <2>0. pc \in {"result", "inline", "fetch"} /\ Shape
    BY <1>0, <1>1 DEF MisreadInv, MisreadPos, SF!Next
  <2>s. SF!Batches = Batches /\ SF!RowsSent = RowsSent
    BY Zenon DEF SF!Batches, SF!RowsSent, Batches, RowsSent, SF!Cardinality, Cardinality
  <2>1. CASE pc = "result" /\ SF!ExecuteQuery
    BY <2>1 DEF SF!ExecuteQuery, SF!Return, MisreadStep, MisreadPos
  <2>2. CASE pc = "result" /\ call = "stream" /\ SF!StreamSchema
    <3>1. out = <<>> /\ misread' /\ UNCHANGED request /\ Emit(SchemaEvent, "inline")
      BY <2>2 DEF SF!StreamSchema, SF!Emit, SF!SchemaEvent, Emit, SchemaEvent, MisreadPos
    <3>2. /\ pc' \in {"inline", "returned"}
          /\ pc' # "returned" => Shape' /\ out' # <<>>
      BY <1>0, <3>1, SchemaSent
    <3>3. MisreadStep
      BY <3>1 DEF Emit, MisreadStep
    <3> QED BY <1>1, <2>2, <3>1, <3>2, <3>3 DEF MisreadPos
  <2>3. CASE pc = "inline" /\ call = "stream" /\ SF!StreamInline
    <3>1. UNCHANGED <<request, out, misread>> /\ pc' = "fetch"
      BY <2>3 DEF SF!StreamInline, SF!SendPartition
    <3> QED BY <1>1, <2>0, <2>3, <3>1 DEF MisreadStep, MisreadPos, Shape
  <2>4. CASE pc = "fetch" /\ call = "stream" /\ SF!StreamPartition
    <3>1. /\ UNCHANGED <<request, misread>>
          /\ \/ UNCHANGED out /\ pc' = "fetch"
             \/ SF!Finish(SF!ErrorEvent)
      BY <2>4 DEF SF!StreamPartition, SF!SendPartition, SF!Finish
    <3> QED BY <1>1, <2>0, <2>4, <3>1
            DEF MisreadStep, MisreadPos, Shape, SF!Finish, SF!ErrorEvent, ErrorEvent
  <2>5. CASE pc = "fetch" /\ call = "stream" /\ SF!StreamComplete
    <3>1. UNCHANGED <<request, misread>> /\ pc' = "returned" /\ out # <<>>
      BY <2>5 DEF SF!StreamComplete, SF!Finish, MisreadPos
    <3>2. MisreadStep
      BY <2>s, <2>5, <3>1 DEF SF!StreamComplete, SF!Finish, SF!CompleteEvent, CompleteEvent, MisreadStep
    <3> QED BY <1>1, <2>5, <3>1, <3>2 DEF MisreadPos
  <2> QED BY <1>1, <2>0, <2>1, <2>2, <2>3, <2>4, <2>5 DEF SF!Next, SF!Buffered
<1>2. CASE provider = "bigquery" /\ BQ!Next
  <2> USE DEF BQ!frame, BQ!request, request
  <2>1. pc = "complete" /\ call = "stream" /\ BQ!StreamComplete
    BY <1>0, <1>2 DEF MisreadInv, BQ!Next, BQ!Buffered
  <2>2. UNCHANGED <<request, misread>> /\ pc' = "returned"
    BY <2>1 DEF BQ!StreamComplete, BQ!Finish
  <2>3. out # <<>> /\ Shape /\ got = LastSent
    BY <1>2, <2>1 DEF MisreadPos
  <2>4. BQ!Batches = Batches /\ RowsSent = got
    <3>1. BQ!Batches = Batches
      BY Zenon DEF BQ!Batches, Batches, BQ!Cardinality, Cardinality
    <3> QED BY <1>0, <2>3, <3>1, Sent
  <2>5. MisreadStep
    BY <2>1, <2>3, <2>4 DEF BQ!StreamComplete, BQ!Finish, BQ!CompleteEvent, CompleteEvent, MisreadStep
  <2> QED BY <1>2, <2>1, <2>2, <2>5 DEF MisreadPos
<1> QED BY <1>0, <1>1, <1>2 DEF MisreadInv, Provider, Pooled

\* A call starts with a clean stream.
LEMMA CallStarts ==
  ASSUME Pos, StartCall
  PROVE  Pos'
<1>1. /\ pc' = "submit" /\ UNCHANGED <<provider, pages, got, out>>
      /\ call' = "stream" => provider \notin Pooled
  BY DEF StartCall, statement
<1>2. matching' \in Nat
  BY StatementAssumption DEF StartCall
<1>3. limit' \in Nat \cup {NoLimit}
  BY StatementAssumption DEF StartCall, Limits
<1>4. Clean /\ Clean'
  BY <1>1 DEF StartCall, Pos, Clean
<1>5. Shape' /\ LastSent' = 0
  BY <1>4 DEF Clean, Shape, LastSent
<1>6. OffsetPos'
  BY <1>2, <1>4, <1>5 DEF Clean, OffsetPos
<1>7. call' = "stream" => StreamPos'
  BY <1>1, <1>4, <1>6
     DEF StreamPos, PartitionPos, BigQueryPos, ClickHousePos, NativePos, FlightPos, Clean
<1> QED BY <1>1, <1>2, <1>3, <1>4, <1>5, <1>7 DEF Pos, Clean

\* Steps that touch neither the call nor its result.
LEMMA PosFrame ==
  ASSUME Pos, UNCHANGED <<request, pc, pages, got, out>>
  PROVE  Pos'
<1>1. StreamPos => StreamPos'
  BY DEF StreamPos, PartitionPos, BigQueryPos, ClickHousePos, NativePos, FlightPos, OffsetPos, Clean,
     Paging, PageEnd, Rows, LastSent, Total, CN!Fetched, CN!Min2, Paged, Min2, request
<1> QED BY <1>1 DEF Pos, Clean, Shape, LastSent, request

\* A caller's next call leaves nothing of the last.
LEMMA NextCallPos ==
  ASSUME NextCall
  PROVE  Pos' /\ out' = <<>>
<1>1. /\ pc' \in {"ensure", "connect", "ready"} /\ call' = "test" /\ limit' = NoLimit /\ matching' = 0
      /\ Clean' /\ out' = <<>>
  BY DEF NextCall, Clean
<1>2. Shape' /\ LastSent' = 0
  BY <1>1 DEF Shape, LastSent
<1> QED BY <1>1, <1>2 DEF Pos

\* Every step keeps the position and is one that the contract allows.
LEMMA NextStream ==
  ASSUME IInv, PosInv, [Next]_vars
  PROVE  PosInv' /\ (Contract!Next \/ UNCHANGED out)
<1>i. SeqInv /\ MisreadInv
  BY DEF IInv, ReportInv
<1>1. CASE NextCall
  <2>1. Pos' /\ out' = <<>> /\ ~misread'
    BY <1>1, NextCallPos DEF NextCall
  <2> QED BY <2>1 DEF PosInv, Contract!Next, Contract!Reset
<1>2. CASE Provider
  <2>1. CASE misread
    <3>1. /\ pc # "returned" /\ misread' /\ MisreadStep /\ MisreadPos' /\ MisreadPos
      BY <1>2, <2>1, MisreadStream DEF PosInv
    <3>2. Shape
      BY <3>1 DEF MisreadPos
    <3> QED BY <1>i, <2>1, <3>1, <3>2, MisreadAllowed DEF PosInv
  <2>2. CASE ~misread /\ ~misread'
    <3>1. Pos /\ pc # "returned" /\ StreamStep /\ Pos'
      BY <1>2, <2>2, ProviderStream, ProviderRequest DEF PosInv
    <3> QED BY <1>i, <2>2, <3>1, StepAllowed DEF PosInv
  <2>3. CASE ~misread /\ misread'
    BY <1>2, <2>3, MisreadStarts DEF PosInv
  <2> QED BY <2>1, <2>2, <2>3
<1>3. ASSUME UNCHANGED <<out, misread>>, ~misread => Pos', misread => MisreadPos'
      PROVE  PosInv' /\ UNCHANGED out
  BY <1>3 DEF PosInv
<1>4. CASE Ensure
  <2>1. /\ pc = "ensure" /\ pc' \in {"connect", "unmade"}
        /\ UNCHANGED <<request, pages, got, out, misread>>
    BY <1>4, EnsureCases DEF IInv, OAuth!Reject, OAuth!ApplyRefreshResponse, OAuth!StoreM2mToken,
       OAuth!Unchanged, OAuth!Accepted, OAuth!others, OAuth!request, OAuth!statement, request
  <2>2. ~misread
    BY <1>i, <2>1 DEF MisreadInv
  <2>3. Pos => Pos'
    BY <2>1, CleanStep DEF Pos
  <2> QED BY <1>3, <2>1, <2>2, <2>3 DEF PosInv
<1>5. CASE StartCall
  <2>1. UNCHANGED <<out, misread>> /\ ~misread
    BY <1>5, <1>i DEF StartCall, MisreadInv
  <2> QED BY <1>3, <1>5, <2>1, CallStarts DEF PosInv
<1>6. CASE OAuth!Revoke \/ StatementEnds \/ Tick \/ DropStream \/ UNCHANGED vars
  <2>1. UNCHANGED <<request, pc, pages, got, out, misread>>
    BY <1>6 DEF OAuth!Revoke, OAuth!others, OAuth!request, OAuth!statement, StatementEnds, Tick,
       DropStream, vars, request, statement
  <2>2. MisreadPos => MisreadPos'
    BY <2>1 DEF MisreadPos, Shape, LastSent, request
  <2> QED BY <1>3, <2>1, <2>2, PosFrame DEF PosInv
<1> QED BY <1>1, <1>2, <1>4, <1>5, <1>6 DEF Next

(***************************************************************************)
(* Every Arrow stream of every provider of this model keeps the promise of *)
(* ResultStream, however the service splits a result and whenever it       *)
(* refuses: one schema, batches numbered from zero with consecutive rows,  *)
(* and at most one last event, an error or a summary.  The summary counts  *)
(* the rows that were sent, and they are all of the result unless an       *)
(* answer was misread.                                                     *)
(***************************************************************************)
THEOREM StreamContractHolds == Spec => StreamContract
<1>1. Init => PosInv /\ Contract!Init
  <2> SUFFICES ASSUME Init PROVE PosInv /\ Contract!Init
    OBVIOUS
  <2>1. /\ pc \in {"ensure", "connect"} /\ call = "test" /\ limit = NoLimit /\ matching = 0
        /\ Clean /\ out = <<>> /\ misread = FALSE
    BY DEF Init, Clean
  <2>2. Shape /\ LastSent = 0
    BY <2>1 DEF Shape, LastSent
  <2> QED BY <2>1, <2>2 DEF PosInv, Pos, Contract!Init
<1>2. IInv /\ PosInv /\ [Next]_vars => PosInv'
  BY NextStream
<1>3. IInv /\ PosInv /\ [Next]_vars => [Contract!Next]_out
  BY NextStream
<1> QED BY Invariance, <1>1, <1>2, <1>3, PTL DEF Spec, StreamContract, Contract!Spec

=============================================================================
