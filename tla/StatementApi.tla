---------------------------- MODULE StatementApi ----------------------------
(***************************************************************************)
(* What the providers that talk to a service share.  One provider serves   *)
(* one call at a time.  The warehouses submit a statement, poll it until a *)
(* deadline and fetch the pages of its result; their bearer token has a    *)
(* limited life, and the service refuses every request once it is over.    *)
(***************************************************************************)
EXTENDS Integers, Sequences, FiniteSets

CONSTANTS
  PollTimeout,   \* STATEMENT_POLL_TIMEOUT, in units of time
  JwtLifetime,   \* JWT_LIFETIME_SECS
  TokenBuffer,   \* TOKEN_EXPIRY_BUFFER_SECS
  MaxLife,       \* life of a token from the authorisation server
  DefaultLimit,  \* 1000
  PageSize,      \* chunk_size of a stream, maxResults of a page
  MaxRows,       \* bound: matching rows of a query
  MaxPages,      \* bound: pages the service splits a result into
  NoLimit, Forever, Unknown

ASSUME StatementAssumption ==
  /\ {PollTimeout, JwtLifetime, TokenBuffer, MaxLife, MaxRows} \subseteq Nat
  /\ {DefaultLimit, PageSize, MaxPages} \subseteq Nat \ {0}
  /\ TokenBuffer < MaxLife
  /\ {NoLimit, Forever, Unknown} \cap Nat = {}

VARIABLES
  provider,  \* DatasourceType
  call,      \* the trait method that runs
  limit,     \* its limit argument
  text,      \* the SQL is a "plain" SELECT or has a LIMIT of its "own"
  matching,  \* rows of the query at the service
  pc,        \* where the call is
  auth,      \* "static", "keypair", "oauth" or "m2m"
  life,      \* what is left of the life of the access token
  access,    \* the stored credentials hold an access token
  expiry,    \* what their oauth_token_expiry says is left
  refresh,   \* they hold a refresh token
  revoked,   \* the authorisation server has revoked the grant
  tokenless, \* history: the last token response had no access_token
  waited,    \* time since the first poll, counted to just past the deadline
  stmt,      \* the statement at the service
  pages,     \* its result: the last row of each page
  got,       \* pages received
  out,       \* events sent on the stream
  answer,    \* what a buffered call returned
  rx,        \* the receiving end of the stream
  misread    \* history: an answer was taken for a result, or for the end of
             \* one, that it was not

request == <<provider, call, limit, text, matching>>
token == <<auth, life, access, expiry, refresh, revoked, tokenless>>
statement == <<stmt, pages>>
vars == <<request, pc, token, waited, statement, got, out, answer, rx, misread>>

Min2(a, b) == IF a < b THEN a ELSE b

\* Rows of the first k pages, and of page k.
Rows(k) == IF k = 0 THEN 0 ELSE pages[k]
PageRows(k) == Rows(k) - Rows(k - 1)

(***************************************************************************)
(* Results.  A page is known by its last row; it is empty if that is the   *)
(* last row of the page before.                                            *)
(***************************************************************************)
Splits(n) ==
  {s \in UNION {[1..k -> 0..n] : k \in 1..MaxPages} :
     s[Len(s)] = n /\ \A i \in 2..Len(s) : s[i - 1] <= s[i]}

\* Rows of n that are returned if a plain text is given a LIMIT.
Paged(max, n) == IF text = "plain" THEN Min2(max, n) ELSE n

SchemaEvent == [type |-> "schema"]
BatchEvent(index, first, last) ==
  [type |-> "batch", chunk_index |-> index, first |-> first, last |-> last]
CompleteEvent(chunks, n) ==
  [type |-> "complete", total_chunks |-> chunks, total_rows |-> n]
ErrorEvent == [type |-> "error"]

NoAnswer == [status |-> "none"]
Ok == [status |-> "ok"]
Error == [status |-> "error"]
QueryResult(n, more) == [status |-> "success", rows |-> n, has_more |-> more]
Listing(n) == [status |-> "items", rows |-> n]

Batches == Cardinality({i \in DOMAIN out : out[i].type = "batch"})
RowsSent ==
  LET b == {i \in DOMAIN out : out[i].type = "batch"}
  IN IF b = {} THEN 0 ELSE out[CHOOSE i \in b : \A j \in b : j <= i].last

(***************************************************************************)
(* A request to the service is lost (transport error, timeout, a body that *)
(* is not JSON), refused (4xx or 5xx with a JSON body), or answered.       *)
(***************************************************************************)
Replies == {"lost", "refused"} \cup (IF life = 0 THEN {} ELSE {"answer"})

\* The service runs the statement at once or accepts it; it has `rows` rows.
Accept(rows) ==
  /\ stmt' \in {"running", "succeeded", "failed"}
  /\ pages' \in Splits(rows)

\* The call returns without touching anything else.
Return(a) ==
  /\ pc' = "returned"
  /\ answer' = a
  /\ UNCHANGED <<waited, out, got, misread>>

\* let _ = tx.send(event).await; return
Finish(e) ==
  /\ pc' = "returned"
  /\ out' = IF rx = "open" THEN Append(out, e) ELSE out
  /\ UNCHANGED <<waited, answer, got, misread>>

\* if tx.send(event).await.is_err() { return }
Emit(e, next) ==
  /\ out' = IF rx = "open" THEN Append(out, e) ELSE out
  /\ pc' = IF rx = "open" THEN next ELSE "returned"

\* The call goes on at `next`.
Goto(next) ==
  /\ pc' = next
  /\ UNCHANGED <<waited, out, answer, got, misread>>

StartPolling ==
  /\ pc' = "polling"
  /\ waited' = 0
  /\ UNCHANGED <<out, answer, got, misread>>

Expired == waited > PollTimeout

(***************************************************************************)
(* The service, time, and the receiver of a stream.                        *)
(***************************************************************************)
StatementEnds ==
  /\ stmt = "running"
  /\ stmt' \in {"succeeded", "failed"}
  /\ UNCHANGED <<request, pc, token, waited, pages, got, out, answer, rx, misread>>

Less(t) == IF t \in Nat \ {0} THEN t - 1 ELSE t

Tick ==
  /\ life' = Less(life)
  /\ expiry' = Less(expiry)
  /\ waited' = Min2(waited + 1, PollTimeout + 1)
  /\ UNCHANGED <<request, pc, auth, access, refresh, revoked, tokenless, statement, got, out,
                 answer, rx, misread>>

DropStream ==
  /\ call = "stream" /\ pc # "returned" /\ rx = "open"
  /\ pc \notin {"ensure", "connect", "ready"}
  /\ rx' = "dropped"
  /\ UNCHANGED <<request, pc, token, waited, statement, got, out, answer, misread>>
=============================================================================
