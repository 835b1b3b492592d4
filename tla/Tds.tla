-------------------------------- MODULE Tds --------------------------------
(***************************************************************************)
(* SqlServerProvider and SynapseProvider (sqlserver.rs, synapse.rs,        *)
(* tsql_common.rs).  A provider has one TDS connection behind a Mutex; the *)
(* calls that run concurrently take turns.  A call may time out or be      *)
(* aborted while the server is still answering it: the answer stays on the *)
(* connection and the next request reads it to its end first.              *)
(***************************************************************************)
EXTENDS Integers, Sequences

CONSTANTS
  Calls,         \* concurrent calls of the provider
  Requests,      \* what they are asked to do
  DefaultLimit,  \* 1000
  StreamLimit,   \* 10_000, without a limit
  ChunkSize,     \* rows per batch of a stream
  U32,           \* 2^32
  NoLimit, None

ASSUME TdsAssumption ==
  /\ {DefaultLimit, StreamLimit, ChunkSize, U32} \subseteq Nat \ {0}
  /\ None \notin Calls \cup Requests
  /\ \A r \in Requests :
       /\ r.kind \in {"query", "list", "stream", "dry_run", "test"}
       /\ r.shape \in {"plain", "ordered", "top", "other"}
       /\ r.total \in BOOLEAN
       /\ r.matching \in Nat /\ r.offset \in 0..(U32 - 1)
       /\ r.limit \in 0..(U32 - 1) \cup {NoLimit}

VARIABLES
  provider,  \* "sqlserver" or "synapse"
  phase,     \* where new is
  holder,    \* the call whose MutexGuard is alive, or None
  queue,     \* calls that wait for the Mutex, in the order they came
  up,        \* the connection works
  noexec,    \* the session has NOEXEC ON
  wire,      \* the response the connection carries, or None
  call       \* the calls

made == <<provider, phase>>
vars == <<made, holder, queue, up, noexec, wire, call>>

(***************************************************************************)
(* Pagination.                                                             *)
(***************************************************************************)
EffectiveLimit(r) ==
  IF r.limit # NoLimit THEN r.limit ELSE IF r.kind = "stream" THEN StreamLimit ELSE DefaultLimit

\* Rows of 1..n that are above `from` and not above `to`.
Between(n, from, to) ==
  LET last == IF to < n THEN to ELSE n IN IF last > from THEN last - from ELSE 0

\* A query with its own ORDER BY gets OFFSET and FETCH, another one is wrapped
\* and its rows are numbered; the number of the last row has 32 bits.
ApplyTsqlPagination(r) ==
  IF r.shape = "ordered"
  THEN Between(r.matching, r.offset, r.offset + EffectiveLimit(r))
  ELSE Between(r.matching, r.offset, (r.offset + EffectiveLimit(r)) % U32)

\* Mutant: the end of the page is the limit.
ReturnedFromStart(r) ==
  IF r.shape \in {"plain", "ordered"} THEN Between(r.matching, r.offset, EffectiveLimit(r)) ELSE r.matching
\* Rows the database returns for what is sent.  Text that contains TOP or
\* OFFSET, and what is not a SELECT, is sent as it is.
Returned(r) == IF r.shape \in {"plain", "ordered"} THEN ApplyTsqlPagination(r) ELSE r.matching

(***************************************************************************)
(* Calls.                                                                  *)
(***************************************************************************)
Idle == [at |-> "idle", req |-> None, counted |-> None, of |-> None, rows |-> 0, muted |-> FALSE,
         out |-> <<>>, rx |-> "open", answer |-> [status |-> "none"]]

Init ==
  /\ provider \in {"sqlserver", "synapse"} /\ phase = "config"
  /\ holder = None /\ queue = <<>>
  /\ up = FALSE /\ noexec = FALSE /\ wire = None
  /\ call = [c \in Calls |-> Idle]

At(c) == call[c].at
Req(c) == call[c].req
Streams(c) == Req(c).kind = "stream"

\* new: credentials, tunnel, TCP, TDS handshake.  Every failure is final.
Becomes(from, to) ==
  /\ phase = from
  /\ phase' \in {to, "failed"}
  /\ up' = (phase' = "ready")
  /\ UNCHANGED <<provider, holder, queue, noexec, wire, call>>

\* User and password, a token that is given, or one for a service principal.
Authenticate == Becomes("config", "tunnel")
OpenTunnel == Becomes("tunnel", "dial")
Dial == Becomes("dial", "handshake")
Handshake == Becomes("handshake", "ready")

Start(c) ==
  /\ phase = "ready" /\ At(c) \in {"idle", "done", "gone"}
  /\ \E r \in Requests : call' = [call EXCEPT ![c] = [Idle EXCEPT !.at = "queued", !.req = r]]
  /\ queue' = Append(queue, c)
  /\ UNCHANGED <<made, holder, up, noexec, wire>>

\* client.lock().await; the count comes first if it is asked for.
Lock(c) ==
  /\ At(c) = "queued" /\ holder = None /\ queue # <<>> /\ Head(queue) = c
  /\ holder' = c /\ queue' = Tail(queue)
  /\ call' = [call EXCEPT ![c].at = IF Req(c).kind = "query" /\ Req(c).total /\ Req(c).shape # "other"
                                    THEN "count" ELSE "ask"]
  /\ UNCHANGED <<made, up, noexec, wire>>

\* The response that was left is read and dropped, then the batch is sent.
Send(c) ==
  /\ At(c) \in {"count", "ask"} /\ up
  /\ wire # None => wire.state \in {"ready", "failed"}
  /\ wire' = [by |-> c, req |-> Req(c), state |-> "running", muted |-> FALSE]
  /\ call' = [call EXCEPT ![c].at = IF @ = "count" THEN "counting" ELSE "asked"]
  /\ UNCHANGED <<made, holder, queue, up, noexec>>

ErrorEvent == [type |-> "error"]
Sent(c, e) == IF call[c].rx = "open" THEN Append(call[c].out, e) ELSE call[c].out

Items(n) == [status |-> "items", rows |-> n]

\* The call ends with an error.  A list swallows the error of its query.
Failed(c) ==
  LET answer == CASE Streams(c) -> [status |-> "none"]
                  [] Req(c).kind = "list" -> Items(0)
                  [] OTHER -> [status |-> "error"]
  IN [call[c] EXCEPT !.at = "done", !.answer = answer,
                     !.out = IF Streams(c) THEN Sent(c, ErrorEvent) ELSE @]

\* The guard is dropped with the error; a count only yields no total.
Fails(c) ==
  IF At(c) \in {"count", "counting"}
  THEN call' = [call EXCEPT ![c].at = "ask"] /\ UNCHANGED holder
  ELSE call' = [call EXCEPT ![c] = Failed(c)] /\ holder' = None

\* It covers reading what was left, sending, and waiting for the answer.
Timeout(c) ==
  /\ At(c) \in {"count", "counting", "ask", "asked"}
  /\ Fails(c)
  /\ UNCHANGED <<made, queue, up, noexec, wire>>

SendFails(c) ==
  /\ At(c) \in {"count", "ask"} /\ ~up
  /\ Fails(c)
  /\ UNCHANGED <<made, queue, up, noexec, wire>>

\* get_tds_total_count reads its row; NOEXEC yields none.
GetTdsTotalCount(c) ==
  /\ At(c) = "counting" /\ wire.state = "ready"
  /\ call' = [call EXCEPT ![c].at = "ask", ![c].counted = IF wire.muted THEN None ELSE wire.req.matching]
  /\ wire' = None
  /\ UNCHANGED <<made, holder, queue, up, noexec>>

\* Mutant: the guard lives only as long as simple_query.
AnsweredUnlocking(c) ==
  /\ At(c) = "asked" /\ wire.state \in {"started", "ready"}
  /\ call' = [call EXCEPT ![c].at = "collect"]
  /\ holder' = None
  /\ UNCHANGED <<made, queue, up, noexec, wire>>
\* simple_query returns once the columns are known.
Answered(c) ==
  /\ At(c) = "asked" /\ wire.state \in {"started", "ready"}
  /\ call' = [call EXCEPT ![c].at = "collect"]
  /\ UNCHANGED <<made, holder, queue, up, noexec, wire>>

AnswerFails(c) ==
  /\ At(c) \in {"counting", "asked", "collect"} /\ wire.state = "failed"
  /\ Fails(c)
  /\ wire' = None
  /\ UNCHANGED <<made, queue, up, noexec>>

\* into_first_result, which has no timeout.
FirstResult(c) ==
  [call[c] EXCEPT !.of = wire.by, !.rows = IF wire.muted THEN 0 ELSE Returned(wire.req),
                  !.muted = wire.muted]

HasMore(r, n) == n = EffectiveLimit(r)

Answer(c, n) ==
  LET r == Req(c) IN
  CASE r.kind = "query" -> [status |-> "success", rows |-> n, total |-> call[c].counted,
                            has_more |-> HasMore(r, n)]
    [] r.kind = "list" -> Items(n)
    [] r.kind \in {"test", "dry_run"} -> [status |-> "ok"]

ExecuteTdsQuery(c) ==
  /\ At(c) = "collect" /\ ~Streams(c) /\ wire.state = "ready"
  /\ call' = [call EXCEPT ![c] = [FirstResult(c) EXCEPT !.at = "done", !.answer = Answer(c, FirstResult(c).rows)]]
  /\ wire' = None /\ holder' = None
  /\ UNCHANGED <<made, queue, up, noexec>>

\* Mutant: the guard is kept until every event is sent.
CollectStreamKeepingLock(c) ==
  /\ At(c) = "collect" /\ Streams(c) /\ wire.state = "ready"
  /\ call' = [call EXCEPT ![c] = [FirstResult(c) EXCEPT !.at = "emit"]]
  /\ wire' = None
  /\ UNCHANGED <<made, holder, queue, up, noexec>>
CollectStream(c) ==
  /\ At(c) = "collect" /\ Streams(c) /\ wire.state = "ready"
  /\ call' = [call EXCEPT ![c] = [FirstResult(c) EXCEPT !.at = "emit"]]
  /\ wire' = None /\ holder' = None
  /\ UNCHANGED <<made, queue, up, noexec>>

RowsSent(c) ==
  LET o == call[c].out
  IN IF o # <<>> /\ o[Len(o)].type = "batch" THEN o[Len(o)].last ELSE 0

\* Mutant: the rows that do not fill a batch are forgotten.
NextEventWholeBatches(c) ==
  LET n == RowsSent(c)
      k == Len(call[c].out)
  IN CASE k = 0 -> [type |-> "schema"]
       [] k > 0 /\ n + ChunkSize <= call[c].rows ->
            [type |-> "batch", chunk_index |-> k - 1, first |-> n + 1, last |-> n + ChunkSize]
       [] OTHER -> [type |-> "complete", total_chunks |-> k - 1, total_rows |-> call[c].rows]
\* The schema, a batch for every ChunkSize rows and one for the rest, the summary.
NextEvent(c) ==
  LET n == RowsSent(c)
      k == Len(call[c].out)
  IN CASE k = 0 -> [type |-> "schema"]
       [] k > 0 /\ n < call[c].rows ->
            [type |-> "batch", chunk_index |-> k - 1, first |-> n + 1,
             last |-> IF n + ChunkSize < call[c].rows THEN n + ChunkSize ELSE call[c].rows]
       [] OTHER -> [type |-> "complete", total_chunks |-> k - 1, total_rows |-> call[c].rows]

\* One event, or the error of a schema or batch that cannot be serialised.
ExecuteTdsStreamArrow(c) ==
  /\ At(c) = "emit"
  /\ \E e \in {NextEvent(c), ErrorEvent} :
       call' = [call EXCEPT ![c].out = Sent(c, e),
                            ![c].at = IF @ = "emit" /\ call[c].rx = "open" /\ e.type \in {"schema", "batch"}
                                      THEN "emit" ELSE "done"]
  /\ UNCHANGED <<made, holder, queue, up, noexec, wire>>

(***************************************************************************)
(* Callers, the server and the connection.                                 *)
(***************************************************************************)
Without(q, c) == SelectSeq(q, LAMBDA d : d # c)

\* The future of a buffered call is dropped, with its guard or its place.
Abort(c) ==
  /\ At(c) \notin {"idle", "done", "gone"} /\ ~Streams(c)
  /\ call' = [call EXCEPT ![c] = [Idle EXCEPT !.at = "gone", !.req = Req(c)]]
  /\ holder' = IF holder = c THEN None ELSE holder
  /\ queue' = Without(queue, c)
  /\ UNCHANGED <<made, up, noexec, wire>>

DropStream(c) ==
  /\ At(c) \notin {"idle", "done", "gone"} /\ Streams(c) /\ call[c].rx = "open"
  /\ call' = [call EXCEPT ![c].rx = "dropped"]
  /\ UNCHANGED <<made, holder, queue, up, noexec, wire>>

ServerStarts ==
  /\ wire # None /\ wire.state = "running"
  /\ wire' = [wire EXCEPT !.state = "started"]
  /\ UNCHANGED <<made, holder, queue, up, noexec, call>>

\* A dry run of SQL Server sets NOEXEC ON before the text and OFF after it.
\* Synapse has its procedure describe the text and needs neither.
SetsNoexec(r) == r.kind = "dry_run" /\ provider = "sqlserver"

\* An error ends a batch where it occurs.  A session with NOEXEC ON compiles and
\* returns nothing.
ServerEnds ==
  /\ wire # None /\ wire.state \in {"running", "started"}
  /\ \E s \in {"ready", "failed"} :
       /\ wire' = [wire EXCEPT !.state = s, !.muted = noexec]
       /\ IF SetsNoexec(wire.req)
          THEN noexec' \in IF s = "ready" THEN {FALSE} ELSE {noexec, TRUE}
          ELSE UNCHANGED noexec
  /\ UNCHANGED <<made, holder, queue, up, call>>

\* Nothing connects again.
ConnectionLost ==
  /\ up
  /\ up' = FALSE
  /\ wire' = IF wire = None THEN None ELSE [wire EXCEPT !.state = "failed"]
  /\ UNCHANGED <<made, holder, queue, noexec, call>>

-----------------------------------------------------------------------------
New == Authenticate \/ OpenTunnel \/ Dial \/ Handshake

\* What the task of a call does while it has, or waits for, the connection.
Locked(c) ==
  \/ Lock(c) \/ Send(c) \/ SendFails(c) \/ Timeout(c) \/ GetTdsTotalCount(c) \/ Answered(c)
  \/ AnswerFails(c) \/ ExecuteTdsQuery(c) \/ CollectStream(c)

Next ==
  \/ New
  \/ \E c \in Calls : Start(c) \/ Locked(c) \/ ExecuteTdsStreamArrow(c) \/ Abort(c) \/ DropStream(c)
  \/ ServerStarts \/ ServerEnds \/ ConnectionLost

Spec == Init /\ [][Next]_vars

(***************************************************************************)
(* Fairness: a task that can run is polled and timers fire; a server that  *)
(* has begun to answer goes on, for nothing in the code limits that time.  *)
(* It need not begin, and no reader need read on.                          *)
(***************************************************************************)
FairSpec ==
  /\ Spec
  /\ \A c \in Calls : WF_vars(Locked(c))
  /\ WF_vars(ServerEnds /\ wire.state = "started")

-----------------------------------------------------------------------------
(* Properties *)

\* Whichever calls time out or are aborted with their answer still to come, no
\* call ever takes an answer to another one for its own: "concurrent queries on
\* the same provider serialize at the mutex" (sqlserver.rs).
OwnRows == \A c \in Calls : call[c].of \in {None, c}

\* A query that succeeds has exactly the page that was asked for, says so if
\* rows are left, and counts every row or none.  (Exceptions: a session a dry
\* run has left in NOEXEC, and a page that ends past the 32 bits.)
PageIsExact ==
  \A c \in Calls :
    LET r == Req(c)
        a == call[c].answer
        end == r.offset + EffectiveLimit(r)
    IN a.status = "success" /\ ~call[c].muted /\ r.shape \in {"plain", "ordered"} /\ end < U32 =>
         /\ a.rows = Between(r.matching, r.offset, end)
         /\ ~a.has_more => r.matching <= end
         /\ a.total \in {None, r.matching}

\* Every step of every stream is one that ResultStream allows.
Contract(c) == INSTANCE ResultStream WITH
  events <- IF call[c].muted THEN <<>> ELSE call[c].out,
  total <- IF Req(c) = None THEN 0 ELSE Returned(Req(c))
StreamContract == [][\A c \in Calls : Contract(c)!Next \/ UNCHANGED call[c].out]_vars

\* A call that waits gets its turn, though a server need not begin to answer the
\* call before it and nobody need read that one's stream.  (A server that has
\* begun is taken to finish: reading the rows has no timeout.)
LockIsGranted == \A c \in Calls : (At(c) = "queued") ~> (At(c) # "queued")
=============================================================================
