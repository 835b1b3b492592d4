----------------------------- MODULE Warehouse -----------------------------
(***************************************************************************)
(* The providers behind create_provider (factory.rs), but for SQL Server   *)
(* and Synapse (module Tds): credentials are checked, a provider is made,  *)
(* and it serves one call after the other.                                 *)
(* A new provider may be made between calls, or never again, as in the     *)
(* agent, which makes one at startup.                                      *)
(***************************************************************************)
EXTENDS StatementApi

OAuth == INSTANCE OAuthRefresh
DB == INSTANCE Databricks
SF == INSTANCE Snowflake
BQ == INSTANCE BigQuery
CH == INSTANCE ClickHouse
CN == INSTANCE ClickHouseNative
FD == INSTANCE FlareDb
SQ == INSTANCE Sqlx

Pooled == {"postgres", "mysql", "redshift"}
Providers ==
  {"databricks", "snowflake", "bigquery", "clickhouse", "clickhouse_native", "flaredb"} \cup Pooled
Calls == {"test", "query", "stream", "dry_run", "list"}
Limits == {NoLimit, 1, DefaultLimit}

SecretsOf(p) ==
  CASE p = "databricks" -> DB!Secrets
    [] p = "snowflake" -> SF!Secrets
    [] p = "bigquery" -> BQ!Secrets
    [] OTHER -> {"static"}

Init ==
  /\ provider \in Providers
  /\ auth \in SecretsOf(provider)
  /\ call = "test" /\ limit = NoLimit /\ text = "plain" /\ matching = 0
  /\ pc \in {"ensure", "connect"}
  /\ access = (auth = "oauth")
  /\ life = CASE auth = "oauth" -> MaxLife [] auth = "m2m" -> 0 [] OTHER -> Forever
  /\ expiry \in (IF auth = "oauth" THEN {MaxLife, Unknown} ELSE {Unknown})
  /\ refresh \in (IF auth = "oauth" THEN BOOLEAN ELSE {FALSE})
  /\ revoked = FALSE /\ tokenless = FALSE
  /\ waited = 0
  /\ stmt = "none" /\ pages = <<>>
  /\ got = 0 /\ out = <<>> /\ answer = NoAnswer
  /\ rx = "open" /\ misread = FALSE

Ensure == pc = "ensure" /\ OAuth!EnsureValidOauthCredentials

\* Only these streams depend on whether the text has a LIMIT.
LooksAtText == provider \in {"clickhouse", "clickhouse_native"}

\* A call of the trait; only BigQuery resumes a job, and the streams of the
\* pooled providers are those of ArrowStream.
StartCall ==
  /\ pc = "ready"
  /\ call' \in (Calls \cup (IF provider = "bigquery" THEN {"resume"} ELSE {}))
              \ (IF provider \in Pooled THEN {"stream"} ELSE {})
  /\ limit' \in CASE call' \in {"query", "resume"} -> Limits
                 [] call' = "stream" -> {NoLimit, 1}
                 [] OTHER -> {NoLimit}
  /\ text' \in IF call' = "query" \/ (call' = "stream" /\ LooksAtText) THEN {"plain", "own"} ELSE {"plain"}
  /\ matching' \in (IF call' \in {"test", "dry_run"} THEN {0} ELSE 0..MaxRows)
  /\ pc' = "submit"
  /\ UNCHANGED <<provider, token, waited, statement, got, out, answer, rx, misread>>

\* The caller goes on with the provider it has, or checks its credentials and
\* makes another.
NextCall ==
  /\ pc \in {"returned", "unmade"}
  /\ pc' \in {"ensure", "connect"} \cup (IF pc = "returned" THEN {"ready"} ELSE {})
  /\ call' = "test" /\ limit' = NoLimit /\ text' = "plain" /\ matching' = 0
  /\ waited' = 0
  /\ stmt' = "none" /\ pages' = <<>>
  /\ got' = 0 /\ out' = <<>> /\ answer' = NoAnswer
  /\ rx' = "open" /\ misread' = FALSE
  /\ UNCHANGED <<provider, token>>

\* create_provider and the methods of what it returns.
Provider ==
  \/ provider = "databricks" /\ DB!Next
  \/ provider = "snowflake" /\ SF!Next
  \/ provider = "bigquery" /\ BQ!Next
  \/ provider = "clickhouse" /\ CH!Next
  \/ provider = "clickhouse_native" /\ CN!Next
  \/ provider = "flaredb" /\ FD!Next
  \/ provider \in Pooled /\ SQ!Next

Next ==
  \/ Ensure
  \/ StartCall
  \/ NextCall
  \/ Provider
  \/ OAuth!Revoke
  \/ StatementEnds
  \/ Tick
  \/ DropStream

Spec == Init /\ [][Next]_vars

(***************************************************************************)
(* Fairness: tasks that can run are polled and time passes.  The service   *)
(* need not finish a statement, and no caller need start or drop a call.   *)
(***************************************************************************)
FairSpec == Spec /\ WF_vars(Provider) /\ WF_vars(Tick)

-----------------------------------------------------------------------------
(* Properties *)

\* However the service splits a result and whenever it refuses, every stream
\* keeps the promise of ResultStream: consecutive rows, and a summary only
\* after the last one.  Two cases are weaker (misread): after a refusal that
\* Snowflake takes for a result, or an empty page that BigQuery takes for the
\* end, the summary only adds up to the rows that were sent.
Contract == INSTANCE ResultStream WITH
  events <- out,
  total <- CASE misread -> RowsSent
             [] ~misread /\ provider = "clickhouse_native" -> CN!Fetched
             [] OTHER -> matching
StreamContract == Contract!Spec

\* The calls that run a statement which is submitted and polled.  (BigQuery
\* tests, dry runs and lists without one, and resumes a job of another call.)
RunsStatement ==
  \/ provider \in {"databricks", "snowflake"}
  \/ provider = "bigquery" /\ call \in {"query", "stream"}

ReportsRows ==
  \/ answer.status \in {"success", "items"} /\ answer.rows > 0
  \/ \E i \in DOMAIN out : out[i].type = "batch"
ReportsSuccess ==
  \/ answer.status \in {"success", "ok"}
  \/ \E i \in DOMAIN out : out[i].type = "complete"

\* Whatever polls are lost, late or refused, no row is reported of a statement
\* that has not succeeded, and no success either, be it of a query, a stream,
\* a test or a dry run - but for a refused poll that Snowflake takes for an
\* empty result (misread; PolledUntilComplete is about that).
SuccessMeansSucceeded ==
  RunsStatement =>
    /\ ReportsRows => stmt = "succeeded"
    /\ ReportsSuccess => stmt = "succeeded" \/ misread

\* Credentials that pass the check hold a token that outlives the buffer,
\* whether or not the authorisation server ever sends expires_in, as long as
\* its last response had an access_token.  (Responses that have none leave the
\* old token in place, even with a new expiry: ApplyRefreshResponse.)
FreshWhenChecked ==
  [][pc = "ensure" /\ pc' = "connect" /\ (refresh \/ auth = "m2m") /\ ~tokenless'
       => life' > TokenBuffer]_vars

\* A call ends even if its statement never does: polling has a deadline.
\* (Every single HTTP request is taken to end, with an answer or without.)
CallReturns == (pc = "submit") ~> (pc = "returned")

-----------------------------------------------------------------------------
(* What the documentation says *)

\* snowflake.rs, of poll_statement_url: "Poll a Snowflake statement by URL
\* until it completes."
PolledUntilComplete ==
  provider = "snowflake" /\ ReportsSuccess => stmt = "succeeded"
=============================================================================
