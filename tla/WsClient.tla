------------------------------ MODULE WsClient ------------------------------
(***************************************************************************)
(* The agent's WebSocket client (crates/kyomi-connect/src/ws_client.rs):   *)
(* the reconnect loop run_forever, the session run_session with its reader *)
(* loop, one task per request, the bounded channel to the writer task, and *)
(* the cancellation that ends a session.                                   *)
(*                                                                         *)
(* Sessions are numbered.  What belongs to a session (its socket, channel, *)
(* writer and request tasks) is a function of its number, because aborted  *)
(* tasks of an earlier session may still be running while a later one is   *)
(* served: abort only takes effect when the task next yields.              *)
(***************************************************************************)
EXTENDS Integers, Sequences, FiniteSets

CONSTANTS
  Requests,      \* request ids the server may send, each once per session
  Capacity,      \* slots of the channel to the writer: mpsc::channel(64)
  SilenceLimit,  \* 30 s periods without a message that end a session: 2
  BackoffCap,    \* longest reconnect delay in seconds: 60
  MaxSessions,   \* bound: connections that succeed
  MaxResponses,  \* bound: responses a handler returns for one request
  MaxPongs       \* bound: pongs queued for a peer that reads its socket

ASSUME ConstantsAssumption ==
  /\ Capacity \in Nat \ {0}
  /\ SilenceLimit \in Nat \ {0}
  /\ BackoffCap \in Nat \ {0}
  /\ MaxSessions \in Nat
  /\ MaxResponses \in Nat
  /\ MaxPongs \in Nat

Sessions == 1..MaxSessions

(***************************************************************************)
(* A handler's answer is a sequence of responses, of which only one bit    *)
(* matters here: whether serde_json::to_string gives Ok or Err for it.     *)
(***************************************************************************)
Answers == UNION {[1..n -> {"ok", "err"}] : n \in 0..MaxResponses}

Pong == [kind |-> "pong"]
Response(s, r, k) == [kind |-> "response", session |-> s, req |-> r, idx |-> k]

PongMessage == [kind : {"pong"}]
ResponseMessage ==
  [kind : {"response"}, session : Sessions, req : Requests, idx : 1..MaxResponses]
Message == PongMessage \cup ResponseMessage

VARIABLES
  phase,         \* where run_forever is: "connecting", "session", "sleeping"
  session,       \* number of the latest session, 0 before the first
  backoff,       \* run_forever's delay, in seconds
  ws_connected,  \* the flag shared with the health server
  quiet,         \* 30 s periods since the reader last received a message
  peer,          \* socket of a session: "live", "stalled" (stops reading),
                 \* "dead" (silently gone)
  task,          \* request tasks of a session
  answer,        \* what the handler returned to a task
  next,          \* index of the response a task sends next
  channel,       \* every message ever put into the channel of a session
  taken,         \* how many of them the writer has received
  written,       \* how many of them the writer has put on the socket
  writer,        \* the writer task: "none", "running", "stopped"
  aborted,       \* sessions whose tasks and writer have been aborted
  sleeps         \* history: sleeps since the last successful connect

loopVars == <<phase, session, backoff, ws_connected, sleeps>>
taskVars == <<task, answer, next>>
writerVars == <<taken, written, writer>>
vars == <<loopVars, quiet, peer, taskVars, channel, writerVars, aborted>>

TaskStates == {"none", "handling", "sending", "done", "panicked", "cancelled"}
Active == {"handling", "sending"}

\* The session that run_session is reading from, if any.
Live(s) == phase = "session" /\ s = session

\* Messages waiting in the channel of session s.
Queued(s) == Len(channel[s]) - taken[s]
HasRoom(s) == Queued(s) < Capacity

\* What the server can see of session s.
Wire(s) == SubSeq(channel[s], 1, written[s])

PongsIn(s) == {i \in DOMAIN channel[s] : channel[s][i] = Pong}

-----------------------------------------------------------------------------
Init ==
  /\ phase = "connecting"
  /\ session = 0
  /\ backoff = 1
  /\ ws_connected = FALSE
  /\ sleeps = 0
  /\ quiet = 0
  /\ peer = [s \in Sessions |-> "live"]
  /\ task = [s \in Sessions |-> [r \in Requests |-> "none"]]
  /\ answer = [s \in Sessions |-> [r \in Requests |-> <<>>]]
  /\ next = [s \in Sessions |-> [r \in Requests |-> 1]]
  /\ channel = [s \in Sessions |-> <<>>]
  /\ taken = [s \in Sessions |-> 0]
  /\ written = [s \in Sessions |-> 0]
  /\ writer = [s \in Sessions |-> "none"]
  /\ aborted = {}

-----------------------------------------------------------------------------
(* run_forever *)

\* Mutant: a successful connect does not reset the delay.
ConnectOkKeepsBackoff ==
  /\ phase = "connecting"
  /\ session < MaxSessions
  /\ phase' = "session"
  /\ session' = session + 1
  /\ ws_connected' = TRUE
  /\ sleeps' = 0
  /\ quiet' = 0
  /\ writer' = [writer EXCEPT ![session + 1] = "running"]
  /\ UNCHANGED <<backoff, peer, taskVars, channel, taken, written, aborted>>

\* connect() succeeds: reset the delay, publish readiness, enter run_session,
\* which opens a fresh channel and spawns its writer.
ConnectOk ==
  /\ phase = "connecting"
  /\ session < MaxSessions
  /\ phase' = "session"
  /\ session' = session + 1
  /\ backoff' = 1
  /\ ws_connected' = TRUE
  /\ sleeps' = 0
  /\ quiet' = 0
  /\ writer' = [writer EXCEPT ![session + 1] = "running"]
  /\ UNCHANGED <<peer, taskVars, channel, taken, written, aborted>>

ConnectFail ==
  /\ phase = "connecting"
  /\ phase' = "sleeping"
  /\ UNCHANGED <<session, backoff, ws_connected, sleeps, quiet, peer, taskVars,
                 channel, writerVars, aborted>>

\* Mutant: the delay is not capped.
DoubleUncapped(d) == 2 * d

Double(d) == IF 2 * d < BackoffCap THEN 2 * d ELSE BackoffCap

\* sleep(backoff) ends and the delay is doubled, up to the cap.
Wake ==
  /\ phase = "sleeping"
  /\ phase' = "connecting"
  /\ backoff' = Double(backoff)
  /\ sleeps' = IF backoff = BackoffCap THEN sleeps ELSE sleeps + 1
  /\ UNCHANGED <<session, ws_connected, quiet, peer, taskVars, channel,
                 writerVars, aborted>>

-----------------------------------------------------------------------------
(* run_session: the reader loop *)

\* Mutant: readiness is not withdrawn.
EndSessionStaysReady ==
  /\ aborted' = aborted \cup {session}
  /\ ws_connected' = ws_connected
  /\ phase' = "sleeping"
  /\ quiet' = 0
  /\ UNCHANGED <<session, backoff, sleeps, peer, taskVars, channel, writerVars>>

\* Mutant: the tasks and the writer are not aborted.
EndSessionNoAbort ==
  /\ aborted' = aborted
  /\ ws_connected' = FALSE
  /\ phase' = "sleeping"
  /\ quiet' = 0
  /\ UNCHANGED <<session, backoff, sleeps, peer, taskVars, channel, writerVars>>

\* The loop is left: abort the request tasks and the writer, return to
\* run_forever, which withdraws readiness and sleeps.
EndSession ==
  /\ aborted' = aborted \cup {session}
  /\ ws_connected' = FALSE
  /\ phase' = "sleeping"
  /\ quiet' = 0
  /\ UNCHANGED <<session, backoff, sleeps, peer, taskVars, channel, writerVars>>

\* The reader is in select! and the peer of the current session still sends.
Receiving ==
  /\ phase = "session"
  /\ peer[session] # "dead"

\* A Text frame that parses: spawn a task for it.
RecvRequest(r) ==
  /\ Receiving
  /\ task[session][r] = "none"
  /\ task' = [task EXCEPT ![session][r] = "handling"]
  /\ quiet' = 0
  /\ UNCHANGED <<loopVars, peer, answer, next, channel, writerVars, aborted>>

\* A Text frame that does not parse, or a frame the reader has no use for.
RecvIgnored ==
  /\ Receiving
  /\ quiet' = 0
  /\ UNCHANGED <<loopVars, peer, taskVars, channel, writerVars, aborted>>

\* try_send succeeds only into an open channel that has a free slot.
PongAccepted(s) == HasRoom(s) /\ writer[s] = "running"

\* Mutant: a pong that finds the channel full is dropped.
RecvPingDropsPong ==
  /\ Receiving
  /\ peer[session] = "stalled" \/ Cardinality(PongsIn(session)) < MaxPongs
  /\ \/ /\ PongAccepted(session)
        /\ channel' = [channel EXCEPT ![session] = Append(@, Pong)]
        /\ quiet' = 0
        /\ UNCHANGED <<loopVars, peer, taskVars, writerVars, aborted>>
     \/ /\ ~PongAccepted(session)
        /\ quiet' = 0
        /\ UNCHANGED <<loopVars, peer, taskVars, channel, writerVars, aborted>>

\* A Ping frame: queue a pong without waiting, or give the session up.  A
\* stalled peer is sent pings without bound; for others MaxPongs bounds them.
RecvPing ==
  /\ Receiving
  /\ peer[session] = "stalled" \/ Cardinality(PongsIn(session)) < MaxPongs
  /\ \/ /\ PongAccepted(session)
        /\ channel' = [channel EXCEPT ![session] = Append(@, Pong)]
        /\ quiet' = 0
        /\ UNCHANGED <<loopVars, peer, taskVars, writerVars, aborted>>
     \/ ~PongAccepted(session) /\ EndSession

\* A Close frame, the end of the stream or a WebSocket error.
RecvClosed ==
  /\ phase = "session"
  /\ EndSession

\* select! sees the writer task finished.
WriterFinished ==
  /\ phase = "session"
  /\ writer[session] = "stopped"
  /\ EndSession

\* Mutant: the timeout is off by one and never expires.
SilenceTimeoutNever ==
  /\ phase = "session"
  /\ quiet > SilenceLimit
  /\ EndSession

\* timeout(SILENCE_TIMEOUT, ws_receiver.next()) expires.
SilenceTimeout ==
  /\ phase = "session"
  /\ quiet = SilenceLimit
  /\ EndSession

-----------------------------------------------------------------------------
(* The task of request r in session s *)

\* handler(request).await returns its responses.
HandlerDone(s, r) ==
  /\ task[s][r] = "handling"
  /\ task' = [task EXCEPT ![s][r] = "sending"]
  /\ \E a \in Answers : answer' = [answer EXCEPT ![s][r] = a]
  /\ UNCHANGED <<loopVars, quiet, peer, next, channel, writerVars, aborted>>

\* The handler panics: the task ends and the reader only logs it.
HandlerPanic(s, r) ==
  /\ task[s][r] = "handling"
  /\ task' = [task EXCEPT ![s][r] = "panicked"]
  /\ UNCHANGED <<loopVars, quiet, peer, answer, next, channel, writerVars, aborted>>

\* Mutant: responses go to whichever session is current.
WriteTxCurrent(s) == session

\* The session whose channel the task of session s holds: write_tx is cloned
\* from the session that received the request.
WriteTx(s) == s

\* Mutant: a response may be sent again.
SendResponseTwice(s, r) ==
  LET k == next[s][r]
      c == WriteTx(s)
  IN
  /\ task[s][r] = "sending"
  /\ k <= Len(answer[s][r])
  /\ \/ /\ answer[s][r][k] = "err"
        /\ next' = [next EXCEPT ![s][r] = k + 1]
        /\ UNCHANGED <<task, channel>>
     \/ /\ answer[s][r][k] = "ok"
        /\ writer[c] = "running"
        /\ HasRoom(c)
        /\ channel' = [channel EXCEPT ![c] = Append(@, Response(s, r, k))]
        /\ \E n \in {k, k + 1} : next' = [next EXCEPT ![s][r] = n]
        /\ UNCHANGED task
     \/ /\ answer[s][r][k] = "ok"
        /\ writer[c] = "stopped"
        /\ task' = [task EXCEPT ![s][r] = "done"]
        /\ UNCHANGED <<next, channel>>
  /\ UNCHANGED <<loopVars, quiet, peer, answer, writerVars, aborted>>

\* Mutant: a response that does not serialise ends the task.
SendResponseGivesUp(s, r) ==
  LET k == next[s][r]
      c == WriteTx(s)
  IN
  /\ task[s][r] = "sending"
  /\ k <= Len(answer[s][r])
  /\ \/ /\ answer[s][r][k] = "err"
        /\ task' = [task EXCEPT ![s][r] = "done"]
        /\ UNCHANGED <<next, channel>>
     \/ /\ answer[s][r][k] = "ok"
        /\ writer[c] = "running"
        /\ HasRoom(c)
        /\ channel' = [channel EXCEPT ![c] = Append(@, Response(s, r, k))]
        /\ next' = [next EXCEPT ![s][r] = k + 1]
        /\ UNCHANGED task
     \/ /\ answer[s][r][k] = "ok"
        /\ writer[c] = "stopped"
        /\ task' = [task EXCEPT ![s][r] = "done"]
        /\ UNCHANGED <<next, channel>>
  /\ UNCHANGED <<loopVars, quiet, peer, answer, writerVars, aborted>>

\* The loop over the responses: one that does not serialise is skipped, the
\* others wait for a slot; a closed channel ends the task.
SendResponse(s, r) ==
  LET k == next[s][r]
      c == WriteTx(s)
  IN
  /\ task[s][r] = "sending"
  /\ k <= Len(answer[s][r])
  /\ \/ /\ answer[s][r][k] = "err"
        /\ next' = [next EXCEPT ![s][r] = k + 1]
        /\ UNCHANGED <<task, channel>>
     \/ /\ answer[s][r][k] = "ok"
        /\ writer[c] = "running"
        /\ HasRoom(c)
        /\ channel' = [channel EXCEPT ![c] = Append(@, Response(s, r, k))]
        /\ next' = [next EXCEPT ![s][r] = k + 1]
        /\ UNCHANGED task
     \/ /\ answer[s][r][k] = "ok"
        /\ writer[c] = "stopped"
        /\ task' = [task EXCEPT ![s][r] = "done"]
        /\ UNCHANGED <<next, channel>>
  /\ UNCHANGED <<loopVars, quiet, peer, answer, writerVars, aborted>>

\* Mutant: the last response is left out.
TaskDoneEarly(s, r) ==
  /\ task[s][r] = "sending"
  /\ next[s][r] >= Len(answer[s][r])
  /\ task' = [task EXCEPT ![s][r] = "done"]
  /\ UNCHANGED <<loopVars, quiet, peer, answer, next, channel, writerVars, aborted>>

\* Every response has been dealt with.
TaskDone(s, r) ==
  /\ task[s][r] = "sending"
  /\ next[s][r] > Len(answer[s][r])
  /\ task' = [task EXCEPT ![s][r] = "done"]
  /\ UNCHANGED <<loopVars, quiet, peer, answer, next, channel, writerVars, aborted>>

\* An aborted task is dropped when it yields.
CancelTask(s, r) ==
  /\ s \in aborted
  /\ task[s][r] \in Active
  /\ task' = [task EXCEPT ![s][r] = "cancelled"]
  /\ UNCHANGED <<loopVars, quiet, peer, answer, next, channel, writerVars, aborted>>

-----------------------------------------------------------------------------
(* The writer task of session s *)

\* rx.recv() yields a message and frees its slot.
WriterRecv(s) ==
  /\ writer[s] = "running"
  /\ taken[s] = written[s]
  /\ Queued(s) > 0
  /\ taken' = [taken EXCEPT ![s] = @ + 1]
  /\ UNCHANGED <<loopVars, quiet, peer, taskVars, channel, written, writer, aborted>>

\* ws_sender.send(msg) completes; it never does once the peer stops reading.
WriterSend(s) ==
  /\ writer[s] = "running"
  /\ taken[s] > written[s]
  /\ peer[s] # "stalled"
  /\ written' = [written EXCEPT ![s] = @ + 1]
  /\ UNCHANGED <<loopVars, quiet, peer, taskVars, channel, taken, writer, aborted>>

\* ws_sender.send(msg) fails: the writer ends and drops the channel.
WriterFail(s) ==
  /\ writer[s] = "running"
  /\ taken[s] > written[s]
  /\ writer' = [writer EXCEPT ![s] = "stopped"]
  /\ UNCHANGED <<loopVars, quiet, peer, taskVars, channel, taken, written, aborted>>

\* The aborted writer is dropped when it yields.
CancelWriter(s) ==
  /\ s \in aborted
  /\ writer[s] = "running"
  /\ writer' = [writer EXCEPT ![s] = "stopped"]
  /\ UNCHANGED <<loopVars, quiet, peer, taskVars, channel, taken, written, aborted>>

-----------------------------------------------------------------------------
(* The environment: time and the server's end of the socket *)

\* 30 seconds pass without a message.
Tick ==
  /\ phase = "session"
  /\ quiet < SilenceLimit
  /\ quiet' = quiet + 1
  /\ UNCHANGED <<loopVars, peer, taskVars, channel, writerVars, aborted>>

\* The server stops reading, or vanishes without closing the connection.
PeerFails ==
  /\ phase = "session"
  /\ peer[session] = "live"
  /\ \E p \in {"stalled", "dead"} : peer' = [peer EXCEPT ![session] = p]
  /\ UNCHANGED <<loopVars, quiet, taskVars, channel, writerVars, aborted>>

-----------------------------------------------------------------------------
Loop == ConnectOk \/ ConnectFail \/ Wake

Reader ==
  \/ \E r \in Requests : RecvRequest(r)
  \/ RecvIgnored
  \/ RecvPing
  \/ RecvClosed
  \/ WriterFinished
  \/ SilenceTimeout

Task(s, r) ==
  \/ HandlerDone(s, r)
  \/ HandlerPanic(s, r)
  \/ SendResponse(s, r)
  \/ TaskDone(s, r)
  \/ CancelTask(s, r)

Writer(s) == WriterRecv(s) \/ WriterSend(s) \/ WriterFail(s) \/ CancelWriter(s)

Next ==
  \/ Loop
  \/ Reader
  \/ \E s \in Sessions : \E r \in Requests : Task(s, r)
  \/ \E s \in Sessions : Writer(s)
  \/ Tick
  \/ PeerFails

Spec == Init /\ [][Next]_vars

(***************************************************************************)
(* Fairness.  The tokio runtime polls every task that can run - and an     *)
(* aborted one when it can be cancelled - and timers fire.  The server     *)
(* sends pings as long as it lives.  Nothing is assumed of connecting, of  *)
(* socket errors, of the server's requests, nor of the handlers: a request *)
(* may keep its task and its sender for ever, since not every datasource   *)
(* call has a timeout.  A task moves on by itself only after its handler   *)
(* has returned.                                                           *)
(***************************************************************************)
TaskPolled(s, r) == SendResponse(s, r) \/ TaskDone(s, r) \/ CancelTask(s, r)
WriterPolled(s) == WriterRecv(s) \/ WriterSend(s) \/ CancelWriter(s)
TimerFires == Wake \/ SilenceTimeout

Fairness ==
  /\ WF_vars(RecvPing)
  /\ WF_vars(WriterFinished)
  /\ WF_vars(TimerFires)
  /\ WF_vars(Tick)
  /\ \A s \in Sessions :
       /\ WF_vars(WriterPolled(s))
       /\ \A r \in Requests : WF_vars(TaskPolled(s, r))

FairSpec == Spec /\ Fairness

-----------------------------------------------------------------------------
(* Properties *)

\* Every variable has its type: in particular a session's cursors into its
\* channel (run_session's mpsc channel and writer_task) are naturals.
TypeOK ==
  /\ phase \in {"connecting", "session", "sleeping"}
  /\ session \in 0..MaxSessions
  /\ backoff \in 1..BackoffCap
  /\ ws_connected \in BOOLEAN
  /\ sleeps \in Nat
  /\ quiet \in 0..SilenceLimit
  /\ peer \in [Sessions -> {"live", "stalled", "dead"}]
  /\ task \in [Sessions -> [Requests -> TaskStates]]
  /\ answer \in [Sessions -> [Requests -> Answers]]
  /\ next \in [Sessions -> [Requests -> 1..(MaxResponses + 1)]]
  /\ channel \in [Sessions -> Seq(Message)]
  /\ taken \in [Sessions -> Nat]
  /\ written \in [Sessions -> Nat]
  /\ writer \in [Sessions -> {"none", "running", "stopped"}]
  /\ aborted \subseteq Sessions

\* What the server reads from a session's socket for one request is a prefix
\* of the handler's serialisable responses: in order, nothing missing before
\* it, nothing twice - whatever tasks, writer and cancellation interleave
\* (the loop over `responses` in run_session and writer_task).
PrefixDelivered ==
  \A s \in Sessions : \A i \in 1..written[s] :
    channel[s][i].kind = "response" =>
      LET m == channel[s][i] IN
      /\ m.idx <= Len(answer[s][m.req]) /\ answer[s][m.req][m.idx] = "ok"
      /\ \A j \in 1..(i - 1) : channel[s][j] # m
      /\ \A k \in 1..(m.idx - 1) : answer[s][m.req][k] = "ok" =>
           \E j \in 1..(i - 1) : channel[s][j] = Response(s, m.req, k)

\* A response only ever enters the channel of the session that received its
\* request, although tasks of aborted sessions outlive them: no session is
\* answered with another session's responses (write_tx is cloned per task).
SessionIsolation ==
  \A s \in Sessions : \A i \in DOMAIN channel[s] :
    channel[s][i].kind = "response" =>
      /\ channel[s][i].session = s
      /\ task[s][channel[s][i].req] # "none"

\* No more messages wait for the writer than the channel has slots, and at
\* most one message is held by the writer (mpsc::channel(64), writer_task).
QueueBounded ==
  \A s \in Sessions :
    /\ Queued(s) \in 0..Capacity
    /\ taken[s] - written[s] \in 0..1

\* ws_connected is up exactly while the latest session is served, and every
\* earlier session has been aborted: two sessions are never served at once,
\* and readiness is never left behind by a session that ended.
ReadyIffServed ==
  /\ ws_connected <=> phase = "session"
  /\ phase = "session" => session \notin aborted /\ writer[session] # "none"
  /\ aborted = {s \in Sessions : s <= session /\ ~Live(s)}

\* A task that ends by itself while its writer runs has queued every response
\* that serialises: backpressure delays responses but never drops them.
DoneMeansQueued ==
  \A s \in Sessions : \A r \in Requests :
    task[s][r] = "done" /\ writer[s] = "running" =>
      \A k \in 1..Len(answer[s][r]) : answer[s][r][k] = "ok" =>
        \E i \in DOMAIN channel[s] : channel[s][i] = Response(s, r, k)

\* The delay before the n-th reconnect in a row (n from 0) is 2^n seconds, at
\* most BackoffCap: run_forever doubles after each sleep and resets on connect.
BackoffSchedule ==
  backoff = IF 2^sleeps < BackoffCap THEN 2^sleeps ELSE BackoffCap

\* A peer that vanished without closing is noticed: the silence timeout ends
\* the session.
DeadPeerDetected ==
  \A s \in Sessions : peer[s] = "dead" ~> ~Live(s)

\* A peer that stops reading but keeps sending pings is noticed: the channel
\* fills up with pongs, and the ping that finds it full ends the session.
StalledPeerDetected ==
  \A s \in Sessions : peer[s] = "stalled" ~> ~Live(s)

\* Aborting works: of every ended session the request tasks and the writer
\* eventually stop, even if the socket write is blocked for ever.
TornDown ==
  \A s \in Sessions : s <= session /\ ~Live(s) ~>
    writer[s] = "stopped" /\ \A r \in Requests : task[s][r] \notin Active

\* Once the handler of a request has returned, its answer reaches the socket
\* in full unless the session ends: a full channel, responses that do not
\* serialise, and other requests whose handlers never return only delay it.
\* (A handler that hangs or panics is never answered.)
Answered(s, r) ==
  \A k \in 1..Len(answer[s][r]) : answer[s][r][k] = "ok" =>
    \E i \in 1..written[s] : channel[s][i] = Response(s, r, k)

RequestsAnswered ==
  \A s \in Sessions : \A r \in Requests :
    task[s][r] = "sending" ~>
      \/ task[s][r] = "done" /\ Answered(s, r)
      \/ ~Live(s)
=============================================================================
