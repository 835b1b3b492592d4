# kyomi-connect in TLA+

Kyomi Connect is an agent that runs next to a customer's database. It keeps a
WebSocket connection to the Kyomi backend, receives requests (run a query, dry
run, test the connection, discover the catalog), executes them against the
database and sends the answers back. This directory specifies the parts of the
agent whose correctness depends on concurrency, failure, time or bounds, checks
them with TLC and proves the central invariants with TLAPS.

## The system

| Component | Source (under `src/crates/`) | State | Operations | What is hard |
|---|---|---|---|---|
| WebSocket client | `kyomi-connect/src/ws_client.rs` | reconnect delay, session, channel of 64 messages, request tasks, writer, `ws_connected` | connect, receive, spawn request, send responses, pong, abort, reconnect | tasks and writer run concurrently, abort takes effect late, the channel fills up, peers die silently or stop reading |
| Command executor | `kyomi-connect/src/executor.rs` | none between requests | dispatch, buffered query, streamed query, dry run, catalog discovery | errors in the middle of an answer, partial failure of a crawl, two paths around a threshold |
| Arrow streaming | `kyomi-datasource/src/providers/sqlx_common.rs`, `stream.rs` | rows in the builder, chunk index, event channel of 4 | read row, flush batch, complete, fail | the producer is a detached task, chunk boundaries, backpressure, orphans |
| Polling warehouses | `providers/databricks.rs`, `snowflake.rs`, `bigquery.rs` | bearer token, statement at the service, pages fetched | make, test, execute, stream, resume, dry run, list | tokens that expire while polling, deadlines, results split in any way, one page of several failing |
| OAuth refresh | `kyomi-datasource/src/oauth_refresh.rs` | tokens and what is known of their expiry | ensure, refresh, client credentials | expiry that is never sent, revoked grants |
| ClickHouse, FlareDB | `providers/clickhouse.rs`, `clickhouse_datafusion.rs`, `flaredb.rs` | HTTP or gRPC client | the same methods of the trait | pages that are separate queries, texts with a LIMIT of their own |
| PostgreSQL, MySQL, Redshift | `providers/postgres.rs`, `mysql.rs`, `redshift.rs` | a pool, temporary IAM credentials | the same methods of the trait | credentials that expire under the pool |
| SQL Server, Synapse | `providers/sqlserver.rs`, `synapse.rs`, `tsql_common.rs` | one TDS connection behind a Mutex, its NOEXEC mode | the same methods of the trait | calls that give up with their answer on the wire, session modes that stay, 32-bit row numbers |
| SSH tunnel | `kyomi-datasource/src/ssh_tunnel.rs` | listener tasks, their JoinSets, socket directories, the SSH session | connect, bind proxy, bind Unix socket, forward, close, drop | notifications that are lost, close dropped at an await, cleanup |
| Agent process, health | `kyomi-connect/src/main.rs`, `health.rs`, `charts/` | `ws_connected`, `db_healthy`, the interval | startup, refresh, `/healthz`, `/livez` | stale flags, a test that races its timeout, restarts by the orchestrator |
| Configuration, wizard, service | `kyomi-connect/src/config*.rs`, `wizard.rs`, `callback_server.rs`, `service.rs` | files, environment, the browser's callback | load, save, set up, install | a kill between two saves, precedence, late callbacks |
| Protocol types | `kyomi-connect-protocol/src/` | none | encode, decode | compatibility of old and new peers |
| Arrow builder, type mapping, SigV4 | `kyomi-datasource/src/` | builder columns | append, finish, map, sign | null handling and lengths |

The executor runs inside a request task of the WebSocket client; it calls a
provider made once at startup by `create_provider`, possibly through an SSH
tunnel. A stream of a provider is fed by a spawned producer over a bounded
channel. The client publishes `ws_connected`, a loop in `main.rs` publishes
`db_healthy`, and the health endpoints combine both. When a session ends, its
request tasks are aborted, which drops the streams they collect but not the
producers. The wizard writes the files from which the agent is configured.

What makes each part correct: the server reads, per request, an ordered gapless
prefix of one answer of the right session; answers end in exactly one terminal
response and complete ones carry every row; every provider's stream keeps one
promise (`ResultStream`); success is reported only of what succeeded (Snowflake's poll breaks this); no call
reads another call's answer; a crawl never loses a container silently; readiness
follows the session and the database within the documented delay; every session,
task, tunnel and producer that is given up ends; and an agent never runs a
mixture of two setups.

## Modules

| Module | Models | Used by |
|---|---|---|
| `WsClient` | `ws_client.rs` | `WsClientProofs`, `MCWsClient` |
| `ArrowStream` | `drive_sqlx_stream_arrow`, `prepare_query`, the event channel | `Executor` |
| `Executor` | `CommandExecutor::execute` for one request, composed with the producer of `ArrowStream` | `ExecutorProofs`, `MCExecutor` |
| `ResultStream` | abstract specification of an event stream | refined by `Executor`, `Warehouse`, `Tds` |
| `Catalog` | `handle_discover_catalog` and its listings | `CatalogProofs`, `MCCatalog` |
| `StatementApi` | state and steps the providers share: request, token, statement, pages, events, time | the provider modules |
| `Databricks`, `Snowflake`, `BigQuery` | the three polling warehouses | `Warehouse` |
| `ClickHouse`, `ClickHouseNative`, `FlareDb`, `Sqlx` | the other providers (`Sqlx`: PostgreSQL, MySQL, Redshift) | `Warehouse` |
| `OAuthRefresh` | `ensure_valid_oauth_credentials` | `Warehouse` |
| `Warehouse` | `create_provider` and a caller that makes one call after another | `WarehouseProofs`, `MCWarehouse` |
| `Tds` | SQL Server and Synapse: concurrent calls on one connection | `TdsProofs`, `MCTds` |
| `SshTunnel` | `ssh_tunnel.rs` | `SshTunnelProofs`, `MCSshTunnel` |
| `Setup` | `wizard.rs`, `callback_server.rs`, `config_file.rs`, `config.rs`, `service.rs` | `SetupProofs`, `MCSetup` |
| `Agent` | `run_agent`, `health.rs`, the chart's liveness probe | `AgentProofs`, `MCAgent` |

### WsClient

Sessions are numbered, and channel, writer, tasks and socket are functions of
the session, because those of an ended session live on until their abort is
noticed. `channel[s]` is the log of everything ever queued; `taken` and
`written` are the writer's positions in it, so that the messages in the channel
are `Len(channel[s]) - taken[s]` and the server has read the first `written[s]`.

`ConnectOk`, `ConnectFail` and `Wake` are `run_forever`. `RecvRequest`,
`RecvIgnored`, `RecvPing`, `RecvClosed`, `WriterFinished` and `SilenceTimeout`
are the branches of the reader loop; all that leave it perform `EndSession`,
which aborts tasks and writer and withdraws readiness. `HandlerDone`,
`HandlerPanic`, `SendResponse`, `TaskDone` and `CancelTask` are a request task;
`WriterRecv`, `WriterSend`, `WriterFail` and `CancelWriter` the writer. `Tick`
lets half of the silence timeout pass; `PeerFails` makes the server stop reading
or vanish. The handler's answer is an arbitrary sequence of responses that do or
do not serialise.

### ArrowStream and Executor

A query is described by what pagination looks at: whether it is a SELECT,
whether its text contains LIMIT, its limit, and how many rows match from its
offset on. A batch is known by its chunk index and its first and last row. The
producer's steps put the events of one loop iteration into `outbox`; each
`SendEvent` is one `tx.send().await`, which waits for a slot or fails once the
receiver is dropped. `Executor` adds the dispatch, the buffered path
(`HandleBuffered`, including the provider's `execute_query`), the collecting
loop and the abort of the request task at any time. `rows` of a `QueryResult`
is what the server can read after serialisation.

### ResultStream

One schema, batches numbered from zero that carry consecutive rows of the
result, and at most one last event: an error, or a summary that counts exactly
the batches and rows that were sent and comes only after the last row of the
result. `Executor!StreamContract` and `Warehouse!StreamContract` map `events` to
what the producer has sent and `total` to the rows its query yields; in `Tds`
every call has a stream of its own, and each step of each stream is a step of
the abstract specification. `Reset` is the start of the next query's stream.

### Catalog

Listings are sets: the order of names plays no role. A listing fails, or returns
the rows up to the limit that `prepare_query` adds, or succeeds without a
readable batch. The history variable `clean` tells whether the latter two cut
anything off. Container names that differ in case are distinct names with the
same `Lower`.

### StatementApi, the provider modules and Warehouse

One provider serves one call at a time; calls of different tasks share nothing
in these providers but an HTTP client or a pool. A request to the service is
lost, refused or answered, and always refused once the token's life is over.
`Accept` lets the service run a statement at once or later (`StatementEnds`) and
split its result into pages in every way (`Splits`); `pages` holds the last row
of each page, so that a page without rows ends where the one before it ends.
`pc` is the await the call
is at: `submit`, `polling`, then the pages. `Warehouse!Ensure` is the caller's
credential check, `connect` the constructor, `NextCall` goes on with the same
provider or makes a new one. Two history variables mark where the code goes
wrong: `misread`, Snowflake's poll has taken a refusal for a result, or
BigQuery's stream an empty page for the end of one; `tokenless`, the last token
response had no `access_token`.

Each provider module has the operations of its source file: authentication,
`submit`, `poll` with its deadline, page loops, `execute_query`,
`execute_query_stream_arrow`, dry run, listings and test. In `Sqlx` they are one
request each; the streams of these providers are `ArrowStream`.

### Tds

`call[c]` is one call's future: queued at the Mutex, counting, asking,
collecting, or emitting events after the guard is dropped. `wire` is the answer
the connection carries, with the call that asked for it; a call that times out
or is aborted leaves it there, and the next `Send` has to read it to its end
first, as tiberius does. `noexec` is the session mode a failed dry run leaves
behind; `muted` marks an answer of such a session. Row numbers wrap at `U32`.

### SshTunnel

Three kinds of listener task (`main`, `proxy`, one per Unix socket), each parked
in its `select!` or awake. `Close` reaches the parked ones only
(`notify_waiters`), and a parked one that takes another ready branch loses the
notification (`Wake`). The steps of `close` are separate because its future may
be dropped at each await (`CancelClose`); `Drop` is the destructor. Of a
connection, `relay` is its task in the proxy
or Unix listener, `fwd` the one in the main listener. A spawned task starts
awake: it misses a notification until it has been polled. `cancelled` records at
which awaits a close was dropped, and `Detached` what that leaves without a
handle. Configuration parsing, key parsing and the host key check precede.

### Setup

A value is known by the number of the wizard run that entered it. `fs::write`
is two steps with a truncated file between them, and the process may be killed
or fail at each. `Callback` is a browser tab of this or an earlier run. `Load`
and `FromEnv` are what an agent makes of files and environment. An agent of
another process may start when no wizard runs and in the middle of a save; while
a wizard asks, the files are as it found them. `Install` copies the
configuration to `/etc` and writes the service's environment; it and the user's
editor are taken not to run next to a wizard.

### Agent

Time runs in units of five seconds and stops at due timers. A connection test
may return what was true at any moment since it started (`seen`), and may hang
until its timeout when the database is down; a reachable database is assumed to
answer in time. `StartServing` is the moment at which the flags are created and
the health server and the readiness loop are spawned, after a `connect_once` of
unbounded duration. `LivenessProbe` and `Restart` are the orchestrator, with the
path the chart probes (`LivenessPath`, `/healthz`). The two
loads in `/healthz` are taken as one step.

## Runs

| Run | Properties | Result |
|---|---|---|
| `ws_session` | `TypeOK`, `PrefixDelivered`, `DoneMeansQueued`; `DeadPeerDetected`, `StalledPeerDetected`, `TornDown`, `RequestsAnswered` | pass |
| `ws_reconnect` | `SessionIsolation`, `ReadyIffServed`, `BackoffSchedule` | pass |
| `executor` | `RowsInFlightBounded`, `OneTerminal`, `CompleteMeansEveryRow`; `StreamContract` (refinement), `Finishes`, `OrphanStops` | pass |
| `catalog` | `MissingMeansError`, `EmptyMeansNone`, `OneFailureIsLocal` | pass |
| `agent` | `TypeOK`, `OutageNoticed`, `RecoveryNoticed` | pass |
| `warehouse` | `SuccessMeansSucceeded`; `StreamContract` (refinement), `FreshWhenChecked`, `CallReturns` | pass |
| `tds` | `OwnRows`, `PageIsExact`; `StreamContract` (refinement), `LockIsGranted` | pass |
| `ssh_tunnel` | `CloseLeavesNothing`, `NoOrphanedSocket`; `DropReclaims`, `CloseReturns` | pass |
| `setup` | `RunsWhatWasSaved`, `OnlyItsOwnToken`; `FailureChangesNothing`, `WaitEnds` | pass |
| `doc_no_limit` | `NoLimitMeansAllRows` | violated |
| `doc_liveness` | `ServingNeverKilled` | violated |
| `doc_poll_completes` | `PolledUntilComplete` | violated |

The `doc_*` runs state what the repository's documentation says and show an
execution of the code that does something else; PROJECT.json quotes the lines
under `findings`. `doc_no_limit`: a query without a limit is cut off at 1000
rows and still ends in `complete`. `doc_liveness`: the chart's liveness probe
asks `/healthz`, so an agent that serves and is not ready is restarted.
`doc_poll_completes`: a refused poll makes Snowflake report a statement that
still runs as an empty success.

Some passing properties name an exception, which is the behaviour of a `doc_*`
run or of the list below, and say what holds in spite of it.
`SuccessMeansSucceeded`: no row is reported of a statement that has not
succeeded, and a success only if Snowflake has misread a refusal; it is about the
calls of the three polling warehouses that run a statement, so not about
BigQuery's test, dry run, listing and `resume`, nor about providers whose one
request is the statement. `StreamContract` of `warehouse`: after a misread
refusal or an empty page the summary still adds up to the rows that were sent.
`FreshWhenChecked`: unless the last token response had no token.
`CloseLeavesNothing` and `DropReclaims`: all but a detached listener.

### Bounds

* `ws_session`: one session, two requests with up to two responses each and two
  slots: enough for tasks to interleave, for the channel to be full with a sender
  waiting, for the session to end at every point, and for one handler to hang
  while the other's answer goes out. The silence timeout has the real ratio of
  two ping periods. Pings without bound fill the channel of a stalled peer; a
  peer that reads is sent no pongs here (`MaxPongs` 0) but is in `ws_reconnect`,
  and the three invariants are proved for every bound.
* `ws_reconnect`: two sessions, so that tasks of the first meet the second;
  `BackoffCap` 6 lets the delay double (1, 2, 4) and then hit a cap that is not
  a power of two, as 60 is not. One half of the silence timeout suffices here.
* `executor`, `doc_no_limit`: chunks of two rows, a channel of two slots,
  default limit and threshold 3, limits up to 6 and up to 7 matching rows:
  limits and results lie below, at and above every threshold, results are a
  multiple of the chunk size or not, and the channel fills up. Real values: 100,
  4, 1000, 1000.
* `catalog`: three containers, two of which differ only in case, two tables, and
  listings of up to two rows, so that three containers do not fit.
* `agent`: the real durations; the probe's failure threshold is the
  orchestrator's default.
* `warehouse`, `doc_poll_completes`: nine providers, every kind of credentials,
  tokens that live 3 units and expire in the middle of a call or between calls
  (`JwtLifetime` 1 is over while a statement is polled for `PollTimeout` 1),
  results of up to 3 rows in up to 2 pages, empty ones included, against a page
  size and a default limit of 2: below, at and above both. About 790,000 states.
* `tds`: two calls, enough for one to leave its answer to the other and, as each
  call may start again, for any number of turns; six kinds of request; limits of
  2 and 3 rows, chunks of 2, and a `U32` of 8 that an offset and a limit exceed.
  About 370,000 states.
* `ssh_tunnel`: main listener, proxy, two Unix sockets that replace each other,
  one connection. Connections do not interact except through
  their listener, so one shows every order of its steps and the tunnel's. About
  400,000 states.
* `setup`: three runs of the wizard: one that saves, one that is interrupted and
  one that is late. About 1,000,000 states.

### Fairness

`WsClient!Fairness`: the tokio runtime polls every task that can run and fires
timers (weak fairness of `TaskPolled`, `WriterPolled`, `WriterFinished`,
`TimerFires` and `Tick`; to poll an aborted task at a yield may drop it), and a server that still sends keeps sending pings (its protocol says
every 30 s). Nothing is assumed about connecting, closing, errors or requests,
nor of handlers: not every datasource call has a timeout, so a request may keep
its task and its sender for ever, as `ws_client.rs:242` says. `RequestsAnswered`
therefore starts when a handler has returned, and says that neither a full
channel nor other requests that hang keep its answer from the socket.
`Executor!FairSpec`: the
producer is polled and each of its waits for a row is bounded by a timeout; the
collector is polled. Aborts are never forced.

`Warehouse!FairSpec`: the call is polled, and time passes. This includes that
each single HTTP request ends, in one of its three ways; some requests have no
timeout of their own (see below), and `CallReturns` says nothing about those
that hang. A statement need never end. `Tds!FairSpec`: tasks are polled, timers
fire, and a server that has begun to answer goes on, because
`into_first_result` has no timeout; a server need not begin and no stream need
be read. `LockIsGranted` is as good as that assumption. `SshTunnel!FairSpec`: tasks are polled, aborts take effect, the five
seconds of `close` pass; peers and owner need do nothing. `Setup!FairSpec`: the
wizard's ten-minute timer fires.

`CHECK_DEADLOCK FALSE` is used where a specification follows one request to its
end (`Executor`, `Catalog`) and where the system may come to rest: a tunnel that
is dropped (`SshTunnel`) and a provider that could not be made (`Tds`).

## What the models show beyond the runs

Behaviour of the code that a caller may not expect, which the models contain and
which the properties name as exceptions or leave open.

* Answers. A buffered answer in JSON format carries no rows (`provider.rs:93`
  skips the batch, against `docs/protocol.md:124`). `has_more` compares the page
  with the limit, so an exactly full last page claims that more follow. A listing
  of the catalog is cut off at 1000 rows because it is a query without a limit,
  and no error tells: `MissingMeansError` and `EmptyMeansNone` hold for listings
  that fit. The providers' `list_*` swallow errors of their queries.
* Health. After a slow startup readiness lags by more than the documented 35 s
  (`main.rs:304`, `docs/deployment.md:285`); `/livez` is not served until
  `connect_once` ends (`main.rs:281`, `docs/deployment.md:288`); the chart
  probes `/healthz` for liveness, so an outage restarts the agent
  (`deployment.yaml:61`, `docs/deployment.md:288`; run `doc_liveness`).
* Limits. The streams of Databricks, Snowflake, BigQuery, ClickHouse and FlareDB
  ignore their limit (`databricks.rs:538`, `snowflake.rs:536`,
  `bigquery.rs:750`, `clickhouse.rs:478`, `flaredb.rs:330`), against
  `provider.rs:371`.
* Databricks: a chunk of a buffered result that cannot be fetched truncates the
  result, which is still a success (`databricks.rs:380`).
* Snowflake: the poll does not look at the HTTP status, so a refusal because the
  60-second JWT has expired is an empty success (`misread`; run
  `doc_poll_completes`); a buffered query reads only the first partition.
* BigQuery: a page shorter than asked for means `has_more` is FALSE even if a
  page token follows; a page without rows ends a stream with `complete` even if
  a page token follows (`bigquery.rs:1123`, meant as a guard against spinning).
* OAuth: token and expiry of a response are stored independently
  (`oauth_refresh.rs:543`), so a response without `access_token` leaves the
  expired token in place, even under a fresh expiry, against
  `oauth_refresh.rs:28`; after an irrecoverable error the credentials without
  the refresh token are dropped with the error (`oauth_refresh.rs:117`), so the
  caller keeps the revoked one, against `oauth_refresh.rs:40`. The agent makes its
  provider once, so nothing renews a token there.
* Redshift: the pool keeps IAM credentials that expire (`redshift.rs:129`).
* ClickHouse: pages are separate queries with LIMIT and OFFSET and no ORDER BY
  (`clickhouse.rs:520`); the model takes the result as stable. The native client
  adds a LIMIT to a text that has one, and the server refuses it.
* Streaming: the executor collects every event before it answers
  (`executor.rs:278`), so `RowsInFlightBounded` bounds the producer's lead over
  the collector, not memory.
* No timeout covers the poll requests of the warehouses, the bodies of
  ClickHouse and the batches of FlareDB; no statement is cancelled at the
  service when its call is given up.
* SQL Server: a dry run that fails may leave the session in NOEXEC, and later
  queries are empty successes (`sqlserver.rs:279`); a page that ends past
  2^32 - 1 is empty (`tsql_common.rs:85`); a text that merely contains TOP or
  OFFSET is not paged; a stream without a limit is cut at 10,000 rows, a query
  at 1000; a lost connection is never opened again.
* SSH tunnel: a listener that loses the notification is aborted after five
  seconds, with its connections. A `close` that is dropped makes a second one
  return early; dropped at its first await it has taken the listener's handle
  (`ssh_tunnel.rs:342`) and not aborted it, so a listener that lost its
  notification, its connections and the SSH session outlive the tunnel, and Drop
  cannot help. An accept error ends the proxy or Unix relay for good while its
  address is still handed out; a client that half-closes loses the rest of the
  response (`ssh_tunnel.rs:522`); a port is cut to 16 bits.
* Setup: `RunsWhatWasSaved` excludes interrupted saves, which mix the new
  password with the old settings or leave a truncated file, agents that another
  process starts between the writes of the two files (`wizard.rs:577-591`), which
  join the old settings with the new password or an empty one, and agents started
  by the service, whose environment keeps old settings and names the password
  file in home (`service.rs:43`). A second setup drops `ssl_ca` and
  `health_port` (`wizard.rs:587`). A token without a key id passes setup and is
  refused at the start (`config.rs:96`). A late callback gets the success page.

## Proofs

Every listed theorem is about `Spec`, without fairness, and holds for all values
of the constants that satisfy the assumptions named in the modules. These ask for
positive capacities, periods, chunk and page sizes, and for placeholders (`None`,
`NoLimit`, `Unknown`, ...) that are not values. Three ask for more.
`AgentAssumption`: the test's timeout is no longer than the refresh period, and
the probe's delay no longer than its period, as in `main.rs` and the chart.
`StatementAssumption`: the authorisation server issues tokens that live longer
than the buffer; one that does not defeats the check itself. `TdsAssumption`:
limits and offsets are 32-bit numbers, as their type says.

Each proof module has an inductive invariant `IInv`, a conjunction of named
parts; the three facts `Init => IInv`, `IInv /\ [Next]_vars => IInv'` (a lemma
per action or per kind of step) and `IInv => P` give `Spec => []P`. TLC has
checked every `IInv` on the run of its component.

`WsClientProofs`: for every set of requests, every capacity and every bound,
`TypeOK`, `PrefixDelivered`, `SessionIsolation`, `QueueBounded`,
`ReadyIffServed`, `DoneMeansQueued` and `BackoffSchedule`. None of the delivery properties is
inductive. The invariant `IInv` adds: the writer's cursors are ordered and
within the log (`CursorInv`); every queued response belongs to its session and
serialises (`ContentInv`); responses of one request are queued in increasing
order below the task's `next` (`OrderInv`), and every serialisable one below
`next` is in the channel unless the task gave up (`GapInv`); `next` and `answer`
agree with the task's state (`TaskInv`); sessions that have not begun are
untouched (`FutureInv`) and begun ones have a writer (`StartedInv`). Only three
kinds of step change a channel or a task's position: a pong, a response that is
skipped and a response that is queued; each has a lemma, and `DeliveryFrame`
covers all other steps. `BackoffSchedule` is inductive once powers of two are
known to double (`PowersOfTwo`). The backends know nothing of `^`, so the lemma
counts: a set with one more element has twice the subsets, and the library's
`FS_SUBSET` says that a set of `n` elements has `2^n`. The proof that comes with
the library takes that arithmetic of `^` for granted, so this one theorem is
only as good as the library's statement.

`AgentProofs`: `TypeOK`, `OutageNoticed` and `RecoveryNoticed` for all periods
and timeouts. The argument: a
running test started with the interval's last tick (`CheckInv`); what it may
still report about a database that has changed since is no older than the test
(`SeenInv`); hence a wrong flag has been wrong for no longer than the interval
has been running, or a period longer while the test that will correct it runs
(`StaleInv`).

`ExecutorProofs`: `OneTerminal`, `CompleteMeansEveryRow`, `RowsInFlightBounded`
and the refinement `StreamContract`, for all chunk sizes, capacities, limits and
thresholds. The properties speak about what has been sent; the producer's
counters are ahead of that by what is in the outbox. The invariant is therefore
about one sequence, `events \o outbox`: its length follows from `chunk_index`,
its batch `i` carries the rows `Rows(i - 2) + 1` to `Rows(i - 1)`, the last one
ends at `read - builder` (`ShapeInv`), and its last event is an error or a
summary of all rows (`CountInv`). Sending moves an event over the border and
leaves the sequence as it is, so the refinement only has to look at which event
comes next. `OutboxInv` and `ChannelInv` bound what is in flight; `CollectInv`
says that the collected responses are a prefix of the events.

`CatalogProofs`: `MissingMeansError`, `EmptyMeansNone` and `OneFailureIsLocal`,
for every database, scope, listing limit and folding of names. Each container
found is in exactly one of four places: still to come, being crawled, reported,
or in `errors` (`PartInv`); each table of a reported one is reported or in
`errors` (`CleanInv`, unless a listing was cut off); and the errors of containers
and tables cannot be taken for one another (`ErrorInv`).

`WarehouseProofs`: `SuccessMeansSucceeded`, `FreshWhenChecked` and the refinement
`StreamContract`, the last for all nine providers. A success or a summary comes
with the step that ends a call, so none has been reported before it
(`SilentInv`); the steps that can report one are reached only with a statement
that has succeeded or a misread refusal (`EarnedInv`), and those that report rows
only with one that has succeeded (`RowsInv`). `MisreadInv` says where a misread
answer can be. `CallStep` is what the sixty-odd steps of the polling providers
have in common; each has a lemma that its steps are such steps, and `PlainStep`
covers the others. For the second, the stored expiry never promises more than the
token has left, through every response that leaves the expiry out, until one
leaves the token out (`TokenInv`).

For the third, the contract speaks of the rows sent and the code of pages,
partitions and offsets; `PosInv` says how the two agree at each await. What has
been sent is a schema and batches (`Shape`), the last of which ends at row
`LastSent`. For Databricks and Snowflake that is the end of the last partition
fetched (`PartitionPos`), for FlareDB the end of the last batch read
(`FlightPos`); for BigQuery and ClickHouse it is the offset of the next page, and
a stream is complete only if the page just sent ended with the last row, which
follows from the services' rule for short pages (`OffsetPos`, `BigQueryPos`,
`ClickHousePos`); the native ClickHouse provider has the whole result before the
first event (`NativePos`). `SplitPages` says of every way to split a result that
its pages are in order and end with its last row. Each provider has a lemma that
its steps keep the position and are one of five (`StreamStep`): nothing, the
schema, a batch of rows that are there, a summary at the last row, an error;
`StepAllowed` shows those to be steps of `ResultStream`. From the step on in which
Snowflake misreads a refusal or BigQuery an empty page, `MisreadPos` takes the
place of the position: no batch is sent any more, and the summary counts those
that were (`MisreadStep`, `MisreadAllowed`).

`TdsProofs`: `OwnRows`, `PageIsExact` and the refinement `StreamContract` of
every call's stream, for every set of calls and requests. `OwnRows` is not
inductive: that a call reads its own answer depends on who holds the Mutex.
`IInv` adds that a call is at one of the steps that use the connection exactly
while it holds the guard (`HolderInv`), and that while it reads, the answer on
the connection is the one to its own request (`WireInv`). `CallStep` reduces
every step of a call to what the step does to that call, the guard and the wire;
the step's frame for the other calls follows from `HolderInv`. `WireStep` covers
server and connection. `DataInv` says of each call alone that what it has
counted, collected and sent is about its request; the page's bounds with the wrap
at `U32` are lemmas about `ApplyTsqlPagination`.

`SshTunnelProofs`: `NoOrphanedSocket` and `CloseLeavesNothing`, for any number of
Unix sockets and connections. What
makes `close` and `Drop` right is who is responsible for a listener: its handle
is in the tunnel, or a step of `close` waits for it, or it is over or aborted, or
a dropped `close` has detached it (`HandleInv`); a
replaced relay is over or about to be (`RelayInv`); and at each step `close` has
taken the handles of the steps before (`TakenInv`).

`SetupProofs`: `RunsWhatWasSaved`, `OnlyItsOwnToken` and `FailureChangesNothing`,
for any number of setups. Files are written only when all answers are known
(`DraftInv`, `BeforeInv`); unless a save was interrupted, the directory is
empty or holds the answers of one setup, and while `config.toml` is written it
cannot be read and the password next to it is already the new one (`HomeInv`); a callback server and what it has received
belong to the run that waits (`CallbackInv`).

Only model-checked: the liveness properties (the four of `ws_session`,
`Finishes`, `OrphanStops`, `CallReturns`, `LockIsGranted`, `DropReclaims`,
`CloseReturns` and `WaitEnds`). The prover has no rule for fairness.

`QueueBounded` is proved and is not part of a run.

## Plan

Done: the modules above and proofs for all components that have a module; every
invariant, every action property and every refinement of the passing runs is
proved. Next:

1. Proofs: type invariants for the modules whose `IInv` types only what the
   properties need.
2. Serde compatibility of the wire types as round-trip operators.
3. Total counts and offsets of the warehouses.

## Not modelled

* Wording, logging, terminal output and SQL texts.
* Cryptography: TLS, JWT signatures, AWS SigV4 (hash computations over strings).
* What a forwarded connection carries.
* Values: the Arrow builder, type mapping and the conversion of rows. Every
  converter appends one cell per column and row, so building a batch does not
  fail; a batch of the warehouse streams that cannot be serialised is left out.
* `total_rows` counts of the warehouse and sqlx providers (`Tds` has its own),
  the credentials shared between datasources (`resolve_shared_credentials`),
  `refresh_synapse` (of the form of `OAuthRefresh`), and the providers' `close`,
  which nothing calls.
* The development scripts.
