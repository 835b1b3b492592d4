-------------------------------- MODULE Sqlx --------------------------------
(***************************************************************************)
(* PostgreSQL, MySQL and Redshift over a pool of sqlx (providers/          *)
(* postgres.rs, mysql.rs, redshift.rs), except for their streams (module   *)
(* ArrowStream).  The three execute_query, dry_run and test_connection are *)
(* the same but for the types of columns.                                  *)
(***************************************************************************)
EXTENDS StatementApi

frame == <<request, token, rx>>

(***************************************************************************)
(* A call takes a connection of the pool, or the pool opens one with the   *)
(* credentials it was made with.  Those of Redshift's IAM expire and are   *)
(* not asked for again: from then on only connections already open answer. *)
(***************************************************************************)
PoolReplies == {"lost", "refused", "answer"}

\* The pool is made with its first connection, over the tunnel if there is one.
ConnectPool ==
  /\ pc' \in {"ready", "unmade"}
  /\ UNCHANGED <<frame, waited, statement, got, out, answer, misread>>

Unmade ==
  /\ pc' = "unmade"
  /\ UNCHANGED <<frame, waited, statement, got, out, answer, misread>>

\* There must be a user name.
PostgresNew == Unmade \/ ConnectPool
MySqlNew == Unmade \/ ConnectPool

\* There must be the identifiers of the cluster, and keys of AWS, for which the
\* service gives a user and a password.
GetClusterCredentials == Unmade \/ ConnectPool
ResolveIamCredentials == Unmade \/ GetClusterCredentials
ResolveStandardCredentials == Unmade \/ ConnectPool
RedshiftNew == Unmade \/ ResolveIamCredentials \/ ResolveStandardCredentials

EffectiveLimit == IF limit = NoLimit THEN DefaultLimit ELSE limit

\* The listings drop the error that execute_query reports in its Ok.
Failed == IF call = "list" THEN Listing(0) ELSE Error

TestConnection ==
  /\ \E r \in PoolReplies :
       IF r = "answer"
       THEN Return(Ok) /\ stmt' = "succeeded" /\ UNCHANGED pages
       ELSE Return(Error) /\ UNCHANGED statement
  /\ UNCHANGED frame

ExecuteQuery ==
  LET n == Paged(EffectiveLimit, matching) IN
  /\ \E r \in PoolReplies :
       IF r = "answer"
       THEN /\ stmt' = "succeeded" /\ UNCHANGED pages
            /\ Return(IF call = "list" THEN Listing(n) ELSE QueryResult(n, n = EffectiveLimit))
       ELSE Return(Failed) /\ UNCHANGED statement
  /\ UNCHANGED frame

\* EXPLAIN of the text.
DryRun ==
  /\ \E r \in PoolReplies :
       IF r = "answer"
       THEN Return(Ok) /\ stmt' = "succeeded" /\ UNCHANGED pages
       ELSE Return(Error) /\ UNCHANGED statement
  /\ UNCHANGED frame

\* close, which waits for the connections in use, is called by nothing.
Next ==
  \/ pc = "connect" /\ provider = "postgres" /\ PostgresNew
  \/ pc = "connect" /\ provider = "mysql" /\ MySqlNew
  \/ pc = "connect" /\ provider = "redshift" /\ RedshiftNew
  \/ pc = "submit" /\ call = "test" /\ TestConnection
  \/ pc = "submit" /\ call \in {"query", "list"} /\ ExecuteQuery
  \/ pc = "submit" /\ call = "dry_run" /\ DryRun
=============================================================================
