--------------------------- MODULE WsClientProofs ---------------------------
(***************************************************************************)
(* Safety of the WebSocket client for every number of sessions, requests   *)
(* and responses and every channel capacity.                               *)
(***************************************************************************)
EXTENDS WsClient, FiniteSetTheorems, FunctionTheorems, TLAPS

(***************************************************************************)
(* The inductive invariant.                                                *)
(***************************************************************************)

\* The writer is at most one message ahead of the socket, never ahead of the
\* channel, and the channel never holds more than Capacity messages.
CursorInv ==
  \A s \in Sessions :
    /\ written[s] <= taken[s]
    /\ taken[s] <= written[s] + 1
    /\ taken[s] <= Len(channel[s])
    /\ Len(channel[s]) - taken[s] <= Capacity

\* A response in a channel was queued by a task of that session that has
\* moved past it.
Sent(s, r, k) ==
  /\ task[s][r] \notin {"none", "handling"}
  /\ k < next[s][r]
  /\ k <= Len(answer[s][r])
  /\ answer[s][r][k] = "ok"

ContentInv ==
  \A s \in Sessions : \A i \in 1..Len(channel[s]) :
    channel[s][i].kind = "response" =>
      channel[s][i].session = s /\ Sent(s, channel[s][i].req, channel[s][i].idx)

\* Responses to one request are in the order of their indices.
OrderInv ==
  \A s \in Sessions : \A i, j \in 1..Len(channel[s]) :
    /\ i < j
    /\ channel[s][i].kind = "response"
    /\ channel[s][j].kind = "response"
    /\ channel[s][i].req = channel[s][j].req
    => channel[s][i].idx < channel[s][j].idx

\* Every serialisable response a task has moved past is in the channel.
GapInv ==
  \A s \in Sessions : \A r \in Requests : \A k \in 1..(next[s][r] - 1) :
    k <= Len(answer[s][r]) /\ answer[s][r][k] = "ok" =>
      \E i \in 1..Len(channel[s]) : channel[s][i] = Response(s, r, k)

\* A task that has no answer yet has sent nothing; a task that ended by itself
\* under a running writer has moved past its whole answer.
TaskInv ==
  \A s \in Sessions : \A r \in Requests :
    /\ task[s][r] \in {"none", "handling"} => next[s][r] = 1
    /\ task[s][r] = "done" /\ writer[s] = "running" => next[s][r] > Len(answer[s][r])

\* Sessions that have not started have no writer and no tasks.
FutureInv ==
  \A s \in Sessions : s > session =>
    writer[s] = "none" /\ \A r \in Requests : task[s][r] = "none"

StartedInv ==
  /\ phase = "session" => session \in Sessions
  /\ \A s \in Sessions : s <= session => writer[s] # "none"

DeliveryInv == CursorInv /\ ContentInv /\ OrderInv /\ GapInv /\ TaskInv

IInv == TypeOK /\ DeliveryInv /\ FutureInv /\ StartedInv /\ ReadyIffServed

-----------------------------------------------------------------------------
\* An answer is a sequence of at most MaxResponses outcomes.
LEMMA AnswersAreSequences ==
  ASSUME NEW a \in Answers
  PROVE  a \in Seq({"ok", "err"}) /\ Len(a) \in 0..MaxResponses
<1>1. PICK n \in 0..MaxResponses : a \in [1..n -> {"ok", "err"}]
  BY DEF Answers
<1>2. n \in Nat /\ n <= MaxResponses
  BY ConstantsAssumption
<1>. QED
  BY <1>1, <1>2

\* Every variable keeps its type.
\* The ways a ping is handled: a pong is queued, or the session ends.
LEMMA RecvPingCases ==
  ASSUME RecvPing
  PROVE  /\ phase = "session"
         /\ \/ EndSession
            \/ /\ HasRoom(session)
               /\ writer[session] = "running"
               /\ channel' = [channel EXCEPT ![session] = Append(channel[session], Pong)]
               /\ quiet' = 0
               /\ UNCHANGED <<loopVars, peer, taskVars, writerVars, aborted>>
BY Zenon DEF RecvPing, Receiving, PongAccepted

\* The ways a response is handled: skipped, queued, or the task gives up.
Skips(s, r) ==
  /\ answer[s][r][next[s][r]] = "err"
  /\ next' = [next EXCEPT ![s][r] = next[s][r] + 1]
  /\ UNCHANGED <<task, channel>>

Queues(s, r) ==
  /\ answer[s][r][next[s][r]] = "ok"
  /\ writer[s] = "running"
  /\ HasRoom(s)
  /\ channel' = [channel EXCEPT ![s] = Append(channel[s], Response(s, r, next[s][r]))]
  /\ next' = [next EXCEPT ![s][r] = next[s][r] + 1]
  /\ UNCHANGED task

GivesUp(s, r) ==
  /\ writer[s] = "stopped"
  /\ task' = [task EXCEPT ![s][r] = "done"]
  /\ UNCHANGED <<next, channel>>

\* Every SendResponse is one of the three.
LEMMA SendResponseCases ==
  ASSUME NEW s \in Sessions, NEW r \in Requests, SendResponse(s, r)
  PROVE  /\ task[s][r] = "sending"
         /\ next[s][r] <= Len(answer[s][r])
         /\ UNCHANGED <<loopVars, quiet, peer, answer, writerVars, aborted>>
         /\ Skips(s, r) \/ Queues(s, r) \/ GivesUp(s, r)
BY Zenon DEF SendResponse, WriteTx, Skips, Queues, GivesUp

\* The type invariant and StartedInv hold initially.
LEMMA TypeInit == Init => TypeOK /\ StartedInv
<1>. SUFFICES ASSUME Init PROVE TypeOK /\ StartedInv
  OBVIOUS
<1>. USE ConstantsAssumption DEF Init
<1>1. <<>> \in Answers
  <2>1. <<>> \in [1..0 -> {"ok", "err"}]
    OBVIOUS
  <2>2. 0 \in 0..MaxResponses
    OBVIOUS
  <2>. QED
    BY <2>1, <2>2 DEF Answers
<1>2. answer \in [Sessions -> [Requests -> Answers]]
  BY <1>1
<1>3. ws_connected \in BOOLEAN
  OBVIOUS
<1>4. channel \in [Sessions -> Seq(Message)]
  OBVIOUS
<1>5. StartedInv
  BY DEF StartedInv, Sessions
<1>. QED
  BY <1>2, <1>3, <1>4, <1>5 DEF TypeOK, TaskStates

\* They are kept by every step.
LEMMA TypeStep == TypeOK /\ StartedInv /\ [Next]_vars => TypeOK' /\ StartedInv'
<1>. SUFFICES ASSUME TypeOK, StartedInv, [Next]_vars PROVE TypeOK' /\ StartedInv'
  OBVIOUS
<1>. USE ConstantsAssumption DEF TypeOK, StartedInv
<1>1. CASE ConnectOk
  <2>1. session + 1 \in Sessions /\ session + 1 \in 0..MaxSessions
    BY <1>1 DEF ConnectOk, Sessions
  <2>2. ws_connected' \in BOOLEAN
    BY <1>1 DEF ConnectOk
  <2>3. writer' \in [Sessions -> {"none", "running", "stopped"}]
    BY <1>1, <2>1 DEF ConnectOk
  <2>4. TypeOK'
    BY <1>1, <2>1, <2>2, <2>3 DEF ConnectOk, taskVars
  <2>5. StartedInv'
    BY <1>1, <2>1 DEF ConnectOk, Sessions
  <2>. QED
    BY <2>4, <2>5
<1>2. CASE ConnectFail
  BY <1>2 DEF ConnectFail, taskVars, writerVars
<1>3. CASE Wake
  BY <1>3 DEF Wake, Double, taskVars, writerVars
<1>4. ASSUME phase = "session", EndSession PROVE TypeOK' /\ StartedInv'
  <2>1. ws_connected' \in BOOLEAN
    BY <1>4 DEF EndSession
  <2>2. aborted' \subseteq Sessions
    BY <1>4 DEF EndSession
  <2>. QED
    BY <1>4, <2>1, <2>2 DEF EndSession, taskVars, writerVars
<1>5. ASSUME NEW r \in Requests, RecvRequest(r) PROVE TypeOK' /\ StartedInv'
  BY <1>5 DEF RecvRequest, Receiving, loopVars, writerVars, TaskStates
<1>6. CASE RecvIgnored
  BY <1>6 DEF RecvIgnored, loopVars, taskVars, writerVars
<1>7. CASE RecvPing
  <2>1. Pong \in Message
    BY DEF Pong, Message, PongMessage
  <2>2. CASE EndSession
    BY <2>2, <1>4, <1>7, RecvPingCases
  <2>3. CASE channel' = [channel EXCEPT ![session] = Append(channel[session], Pong)]
             /\ quiet' = 0 /\ UNCHANGED <<loopVars, peer, taskVars, writerVars, aborted>>
    <3>1. channel' \in [Sessions -> Seq(Message)]
      BY <1>7, RecvPingCases, <2>1, <2>3
    <3>. QED
      BY <2>3, <3>1 DEF loopVars, taskVars, writerVars
  <2>. QED
    BY <1>7, RecvPingCases, <2>2, <2>3
<1>8. CASE RecvClosed
  BY <1>8, <1>4 DEF RecvClosed
<1>9. CASE WriterFinished
  BY <1>9, <1>4 DEF WriterFinished
<1>10. CASE SilenceTimeout
  BY <1>10, <1>4 DEF SilenceTimeout
<1>11. ASSUME NEW s \in Sessions, NEW r \in Requests, Task(s, r)
       PROVE  TypeOK' /\ StartedInv'
  <2>1. CASE HandlerDone(s, r)
    BY <2>1 DEF HandlerDone, loopVars, writerVars, TaskStates
  <2>2. CASE HandlerPanic(s, r)
    BY <2>2 DEF HandlerPanic, loopVars, writerVars, TaskStates
  <2>3. CASE SendResponse(s, r)
    <3>1. Len(answer[s][r]) \in 0..MaxResponses /\ next[s][r] \in 1..(MaxResponses + 1)
      BY AnswersAreSequences
    <3>2. next[s][r] \in 1..MaxResponses /\ next[s][r] + 1 \in 1..(MaxResponses + 1)
      BY <2>3, SendResponseCases, <3>1
    <3>3. Response(s, r, next[s][r]) \in Message
      BY <3>2 DEF Response, Message, ResponseMessage
    <3>0. UNCHANGED <<loopVars, quiet, peer, answer, writerVars, aborted>>
      BY <2>3, SendResponseCases
    <3>4. CASE Skips(s, r)
      BY <3>0, <3>2, <3>4 DEF Skips, loopVars, writerVars
    <3>5. CASE Queues(s, r)
      BY <3>0, <3>2, <3>3, <3>5 DEF Queues, loopVars, writerVars
    <3>6. CASE GivesUp(s, r)
      BY <3>0, <3>6 DEF GivesUp, loopVars, writerVars, TaskStates
    <3>. QED
      BY <2>3, SendResponseCases, <3>4, <3>5, <3>6
  <2>4. CASE TaskDone(s, r)
    BY <2>4 DEF TaskDone, loopVars, writerVars, TaskStates
  <2>5. CASE CancelTask(s, r)
    BY <2>5 DEF CancelTask, loopVars, writerVars, TaskStates
  <2>. QED
    BY <1>11, <2>1, <2>2, <2>3, <2>4, <2>5 DEF Task
<1>12. ASSUME NEW s \in Sessions, Writer(s) PROVE TypeOK' /\ StartedInv'
  <2>1. CASE WriterRecv(s)
    BY <2>1 DEF WriterRecv, loopVars, taskVars
  <2>2. CASE WriterSend(s)
    BY <2>2 DEF WriterSend, loopVars, taskVars
  <2>3. CASE WriterFail(s)
    BY <2>3 DEF WriterFail, loopVars, taskVars
  <2>4. CASE CancelWriter(s)
    BY <2>4 DEF CancelWriter, loopVars, taskVars
  <2>. QED
    BY <1>12, <2>1, <2>2, <2>3, <2>4 DEF Writer
<1>13. CASE Tick
  BY <1>13 DEF Tick, loopVars, taskVars, writerVars
<1>14. CASE PeerFails
  BY <1>14 DEF PeerFails, loopVars, taskVars, writerVars
<1>15. CASE UNCHANGED vars
  BY <1>15 DEF vars, loopVars, taskVars, writerVars
<1>. QED
  BY <1>1, <1>2, <1>3, <1>5, <1>6, <1>7, <1>8, <1>9, <1>10, <1>11, <1>12, <1>13, <1>14, <1>15
  DEF Next, Loop, Reader

-----------------------------------------------------------------------------
\* Every step keeps the loop invariants: readiness follows the session that
\* run_forever serves, and a session that has not started has done nothing.
LEMMA LoopStep ==
  TypeOK /\ StartedInv /\ FutureInv /\ ReadyIffServed /\ [Next]_vars
    => FutureInv' /\ ReadyIffServed'
<1>. SUFFICES ASSUME TypeOK, StartedInv, FutureInv, ReadyIffServed, [Next]_vars
              PROVE  FutureInv' /\ ReadyIffServed'
  OBVIOUS
<1>. USE ConstantsAssumption DEF FutureInv, ReadyIffServed, Live
<1>1. CASE ConnectOk
  <2>1. session + 1 \in Sessions /\ session \in Nat
    BY <1>1 DEF ConnectOk, Sessions, TypeOK
  <2>2. FutureInv'
    BY <1>1, <2>1 DEF ConnectOk, taskVars, Sessions, TypeOK
  <2>3. ws_connected' <=> phase' = "session"
    BY <1>1 DEF ConnectOk
  <2>4. aborted' = {s \in Sessions : s <= session' /\ ~Live(s)'}
    BY <1>1, <2>1 DEF ConnectOk, Sessions
  <2>5. session' \notin aborted' /\ writer'[session'] # "none"
    BY <1>1, <2>1 DEF ConnectOk, Sessions, TypeOK
  <2>. QED
    BY <2>2, <2>3, <2>4, <2>5
<1>2. CASE ConnectFail \/ Wake
  <2>1. /\ phase # "session" /\ phase' # "session"
        /\ UNCHANGED <<session, ws_connected, aborted, writer, task>>
    BY <1>2 DEF ConnectFail, Wake, taskVars, writerVars
  <2>. QED
    BY <2>1
<1>3. ASSUME phase = "session", EndSession PROVE FutureInv' /\ ReadyIffServed'
  <2>1. session \in Sessions
    BY <1>3 DEF StartedInv
  <2>2. /\ aborted' = aborted \cup {session} /\ phase' = "sleeping"
        /\ UNCHANGED <<session, writer, task>>
    BY <1>3 DEF EndSession, taskVars, writerVars
  <2>3. ws_connected' <=> phase' = "session"
    BY <1>3 DEF EndSession
  <2>4. aborted' = {s \in Sessions : s <= session' /\ ~Live(s)'}
    BY <1>3, <2>1, <2>2 DEF TypeOK, Sessions
  <2>. QED
    BY <2>2, <2>3, <2>4
<1>4. ASSUME UNCHANGED <<loopVars, aborted>>,
             \A s \in Sessions : writer'[s] = "none" <=> writer[s] = "none",
             \A s \in Sessions : s > session =>
               \A r \in Requests : task'[s][r] = task[s][r]
      PROVE  FutureInv' /\ ReadyIffServed'
  <2>1. UNCHANGED <<phase, session, ws_connected, aborted>>
    BY <1>4 DEF loopVars
  <2>2. FutureInv'
    BY <1>4, <2>1
  <2>3. phase' = "session" => session' \in Sessions
    BY <2>1 DEF StartedInv
  <2>. QED
    BY <1>4, <2>1, <2>2, <2>3
<1>5. ASSUME NEW r \in Requests, RecvRequest(r) PROVE FutureInv' /\ ReadyIffServed'
  <2>1. \A s \in Sessions : s > session => \A q \in Requests : task'[s][q] = task[s][q]
    BY <1>5 DEF RecvRequest, TypeOK, Sessions
  <2>. QED
    BY <1>4, <1>5, <2>1 DEF RecvRequest, writerVars
<1>6. CASE RecvIgnored \/ Tick \/ PeerFails \/ UNCHANGED vars
  BY <1>4, <1>6 DEF RecvIgnored, Tick, PeerFails, vars, taskVars, writerVars
<1>7. CASE RecvPing
  <2>1. CASE EndSession
    BY <1>3, <1>7, <2>1, RecvPingCases
  <2>2. CASE UNCHANGED <<loopVars, peer, taskVars, writerVars, aborted>>
    BY <1>4, <2>2 DEF taskVars, writerVars
  <2>. QED
    BY <1>7, RecvPingCases, <2>1, <2>2
<1>8. CASE RecvClosed \/ WriterFinished \/ SilenceTimeout
  BY <1>3, <1>8 DEF RecvClosed, WriterFinished, SilenceTimeout
<1>9. ASSUME NEW s \in Sessions, NEW r \in Requests, Task(s, r)
      PROVE  FutureInv' /\ ReadyIffServed'
  <2>1. task[s][r] # "none" /\ UNCHANGED <<loopVars, writerVars, aborted>>
    BY <1>9 DEF Task, HandlerDone, HandlerPanic, SendResponse, TaskDone, CancelTask, Active
  <2>2. task' = task \/ \E v \in TaskStates : task' = [task EXCEPT ![s][r] = v]
    BY <1>9, Zenon DEF Task, HandlerDone, HandlerPanic, SendResponse, TaskDone, CancelTask, TaskStates
  <2>3. ~(s > session)
    BY <2>1
  <2>4. \A z \in Sessions : z > session => \A q \in Requests : task'[z][q] = task[z][q]
    <3>1. CASE task' = task
      BY <3>1
    <3>2. ASSUME NEW v \in TaskStates, task' = [task EXCEPT ![s][r] = v]
          PROVE  \A z \in Sessions : z > session => \A q \in Requests : task'[z][q] = task[z][q]
      BY <3>2, <2>3 DEF TypeOK
    <3>. QED
      BY <2>2, <3>1, <3>2
  <2>. QED
    BY <1>4, <2>1, <2>4 DEF writerVars
<1>10. ASSUME NEW s \in Sessions, Writer(s) PROVE FutureInv' /\ ReadyIffServed'
  <2>1. writer[s] = "running" /\ UNCHANGED <<loopVars, taskVars, aborted>>
    BY <1>10 DEF Writer, WriterRecv, WriterSend, WriterFail, CancelWriter
  <2>2. writer' = writer \/ writer' = [writer EXCEPT ![s] = "stopped"]
    BY <1>10 DEF Writer, WriterRecv, WriterSend, WriterFail, CancelWriter
  <2>3. \A z \in Sessions : writer'[z] = "none" <=> writer[z] = "none"
    <3>1. CASE writer' = writer
      BY <3>1
    <3>2. CASE writer' = [writer EXCEPT ![s] = "stopped"]
      BY <3>2, <2>1 DEF TypeOK
    <3>. QED
      BY <2>2, <3>1, <3>2
  <2>. QED
    BY <1>4, <2>1, <2>3 DEF taskVars
<1>. QED
  BY <1>1, <1>2, <1>5, <1>6, <1>7, <1>8, <1>9, <1>10 DEF Next, Loop, Reader

-----------------------------------------------------------------------------
\* Appending to the channel of session s leaves every other message in place.
LEMMA ChannelAppend ==
  ASSUME TypeOK, NEW s \in Sessions, NEW m \in Message,
         channel' = [channel EXCEPT ![s] = Append(channel[s], m)]
  PROVE  /\ Len(channel[s]) \in Nat
         /\ Len(channel'[s]) = Len(channel[s]) + 1
         /\ channel'[s][Len(channel[s]) + 1] = m
         /\ \A i \in 1..Len(channel[s]) : channel'[s][i] = channel[s][i]
         /\ \A z \in Sessions \ {s} : channel'[z] = channel[z]
BY DEF TypeOK

\* The fields of a response in a channel.
LEMMA ResponseFields ==
  ASSUME TypeOK, NEW s \in Sessions, NEW i \in 1..Len(channel[s]),
         channel[s][i].kind = "response"
  PROVE  /\ channel[s][i].req \in Requests
         /\ channel[s][i].idx \in 1..MaxResponses
         /\ channel[s][i].idx \in Nat
<1>1. channel[s] \in Seq(Message)
  BY DEF TypeOK
<1>2. channel[s][i] \in Message
  BY <1>1
<1>3. channel[s][i] \in ResponseMessage
  BY <1>2 DEF Message, PongMessage
<1>. QED
  BY <1>3, ConstantsAssumption DEF ResponseMessage

\* The delivery invariant is kept by a step that appends nothing, moves no
\* cursor and changes tasks and the writer only in ways that leave what has
\* been queued alone.
LEMMA DeliveryFrame ==
  ASSUME TypeOK, DeliveryInv,
         UNCHANGED <<channel, next>>,
         \A s \in Sessions :
           /\ written'[s] \in Nat /\ taken'[s] \in Nat
           /\ written'[s] <= taken'[s] /\ taken'[s] <= written'[s] + 1
           /\ taken[s] <= taken'[s] /\ taken'[s] <= Len(channel[s]),
         \A s \in Sessions : \A r \in Requests :
           /\ task'[s][r] \in {"none", "handling"} => task[s][r] \in {"none", "handling"}
           /\ answer'[s][r] = answer[s][r]
           /\ task'[s][r] = "done" /\ writer'[s] = "running" =>
                \/ task[s][r] = "done" /\ writer[s] = "running"
                \/ next[s][r] > Len(answer[s][r])
  PROVE  DeliveryInv'
<1>. USE ConstantsAssumption
<1>0. /\ channel' = channel /\ next' = next
      /\ \A s \in Sessions : channel[s] \in Seq(Message) /\ Len(channel[s]) \in Nat
      /\ \A s \in Sessions : taken[s] \in Nat /\ written[s] \in Nat
  BY DEF TypeOK
<1>1. CursorInv'
  BY <1>0 DEF DeliveryInv, CursorInv
<1>2. ContentInv'
  <2>1. SUFFICES ASSUME NEW s \in Sessions, NEW i \in 1..Len(channel[s]),
                        channel[s][i].kind = "response"
                 PROVE  channel[s][i].session = s /\ Sent(s, channel[s][i].req, channel[s][i].idx)'
    BY <1>0 DEF ContentInv
  <2>2. channel[s][i].req \in Requests
    BY <2>1, ResponseFields
  <2>3. channel[s][i].session = s /\ Sent(s, channel[s][i].req, channel[s][i].idx)
    BY <2>1 DEF DeliveryInv, ContentInv
  <2>. QED
    BY <1>0, <2>2, <2>3 DEF Sent
<1>3. OrderInv'
  BY <1>0 DEF DeliveryInv, OrderInv
<1>4. GapInv'
  <2>1. SUFFICES ASSUME NEW s \in Sessions, NEW r \in Requests, NEW k \in 1..(next[s][r] - 1),
                        k <= Len(answer[s][r]), answer[s][r][k] = "ok"
                 PROVE  \E i \in 1..Len(channel[s]) : channel[s][i] = Response(s, r, k)
    BY <1>0 DEF GapInv, Response
  <2>. QED
    BY <2>1 DEF DeliveryInv, GapInv
<1>5. TaskInv'
  BY <1>0 DEF DeliveryInv, TaskInv
<1>. QED
  BY <1>1, <1>2, <1>3, <1>4, <1>5 DEF DeliveryInv

\* The handler's answer reaches a task that has sent nothing.
LEMMA HandlerDoneKeepsDelivery ==
  ASSUME TypeOK, DeliveryInv, NEW s \in Sessions, NEW r \in Requests, HandlerDone(s, r)
  PROVE  DeliveryInv'
<1>. USE ConstantsAssumption
<1>1. PICK a \in Answers : answer' = [answer EXCEPT ![s][r] = a]
  BY DEF HandlerDone
<1>2. /\ task[s][r] = "handling"
      /\ task' = [task EXCEPT ![s][r] = "sending"]
      /\ UNCHANGED <<next, channel, taken, written, writer>>
  BY DEF HandlerDone, writerVars
<1>8. channel' = channel /\ next' = next
  BY <1>2
<1>3. /\ next[s][r] = 1
      /\ \A z \in Sessions : \A q \in Requests : z # s \/ q # r =>
           answer'[z][q] = answer[z][q] /\ task'[z][q] = task[z][q]
      /\ task'[s][r] = "sending"
  BY <1>1, <1>2 DEF DeliveryInv, TaskInv, TypeOK
<1>4. CursorInv' /\ OrderInv'
  BY <1>2 DEF DeliveryInv, CursorInv, OrderInv
<1>5. ContentInv'
  <2>1. SUFFICES ASSUME NEW z \in Sessions, NEW i \in 1..Len(channel[z]),
                        channel[z][i].kind = "response"
                 PROVE  channel[z][i].session = z /\ Sent(z, channel[z][i].req, channel[z][i].idx)'
    BY <1>8 DEF ContentInv
  <2>2. channel[z][i].req \in Requests
    BY <2>1, ResponseFields
  <2>3. channel[z][i].session = z /\ Sent(z, channel[z][i].req, channel[z][i].idx)
    BY <2>1 DEF DeliveryInv, ContentInv
  <2>4. z # s \/ channel[z][i].req # r
    BY <1>2, <2>3 DEF Sent
  <2>. QED
    BY <1>3, <1>8, <2>2, <2>3, <2>4 DEF Sent
<1>6. GapInv'
  <2>1. SUFFICES ASSUME NEW z \in Sessions, NEW q \in Requests, NEW k \in 1..(next[z][q] - 1),
                        k <= Len(answer'[z][q]), answer'[z][q][k] = "ok"
                 PROVE  \E i \in 1..Len(channel[z]) : channel[z][i] = Response(z, q, k)
    BY <1>2 DEF GapInv
  <2>2. z # s \/ q # r
    BY <1>3
  <2>. QED
    BY <1>3, <2>1, <2>2 DEF DeliveryInv, GapInv
<1>7. TaskInv'
  BY <1>2, <1>3 DEF DeliveryInv, TaskInv
<1>. QED
  BY <1>4, <1>5, <1>6, <1>7 DEF DeliveryInv

\* Queueing a pong disturbs no response.
LEMMA PongKeepsDelivery ==
  ASSUME TypeOK, StartedInv, DeliveryInv, RecvPing, ~EndSession
  PROVE  DeliveryInv'
<1>. USE ConstantsAssumption
<1>. DEFINE s == session
            n == Len(channel[s])
<1>1. /\ s \in Sessions
      /\ HasRoom(s)
      /\ channel' = [channel EXCEPT ![s] = Append(channel[s], Pong)]
      /\ UNCHANGED <<taskVars, writerVars>>
  BY RecvPingCases DEF StartedInv
<1>2. Pong \in Message /\ Pong.kind # "response"
  BY DEF Pong, Message, PongMessage
<1>3. /\ n \in Nat
      /\ Len(channel'[s]) = n + 1
      /\ channel'[s][n + 1] = Pong
      /\ \A i \in 1..n : channel'[s][i] = channel[s][i]
      /\ \A z \in Sessions \ {s} : channel'[z] = channel[z]
  BY <1>1, <1>2, ChannelAppend
<1>4. UNCHANGED <<task, answer, next, taken, written, writer>>
  BY <1>1 DEF taskVars, writerVars
<1>. HIDE DEF s, n
<1>5. CursorInv'
  BY <1>1, <1>3, <1>4 DEF DeliveryInv, CursorInv, HasRoom, Queued, TypeOK, n
<1>6. \A z \in Sessions : \A i \in 1..Len(channel'[z]) :
        channel'[z][i].kind = "response" =>
          i \in 1..Len(channel[z]) /\ channel'[z][i] = channel[z][i]
  BY <1>2, <1>3 DEF n
<1>7. ContentInv'
  <2>1. SUFFICES ASSUME NEW z \in Sessions, NEW i \in 1..Len(channel'[z]),
                        channel'[z][i].kind = "response"
                 PROVE  channel'[z][i].session = z /\ Sent(z, channel[z][i].req, channel[z][i].idx)'
    BY DEF ContentInv
  <2>2. i \in 1..Len(channel[z]) /\ channel'[z][i] = channel[z][i]
    BY <1>6, <2>1
  <2>3. channel[z][i].session = z /\ Sent(z, channel[z][i].req, channel[z][i].idx)
    BY <2>1, <2>2 DEF DeliveryInv, ContentInv
  <2>. QED
    BY <1>4, <2>2, <2>3 DEF Sent
<1>8. OrderInv'
  BY <1>6 DEF DeliveryInv, OrderInv
<1>9. GapInv'
  <2>1. \A z \in Sessions : \A i \in 1..Len(channel[z]) :
          i \in 1..Len(channel'[z]) /\ channel'[z][i] = channel[z][i]
    BY <1>3 DEF n
  <2>. QED
    BY <1>4, <2>1 DEF DeliveryInv, GapInv
<1>10. TaskInv'
  BY <1>4 DEF DeliveryInv, TaskInv
<1>. QED
  BY <1>5, <1>7, <1>8, <1>9, <1>10 DEF DeliveryInv

\* Skipping a response that does not serialise leaves no gap.
LEMMA SkipKeepsDelivery ==
  ASSUME TypeOK, DeliveryInv, NEW s \in Sessions, NEW r \in Requests,
         SendResponse(s, r), Skips(s, r)
  PROVE  DeliveryInv'
<1>. USE ConstantsAssumption
<1>1. /\ task[s][r] = "sending"
      /\ next' = [next EXCEPT ![s][r] = next[s][r] + 1]
      /\ answer[s][r][next[s][r]] = "err"
      /\ UNCHANGED <<task, channel, answer, taken, written, writer>>
  BY SendResponseCases DEF Skips, writerVars
<1>2. /\ \A z \in Sessions : \A q \in Requests : z # s \/ q # r => next'[z][q] = next[z][q]
      /\ next'[s][r] = next[s][r] + 1
      /\ \A z \in Sessions : \A q \in Requests : next[z][q] \in Nat
  BY <1>1 DEF TypeOK
<1>3. CursorInv' /\ OrderInv'
  BY <1>1 DEF DeliveryInv, CursorInv, OrderInv
<1>4. ContentInv'
  <2>1. SUFFICES ASSUME NEW z \in Sessions, NEW i \in 1..Len(channel[z]),
                        channel[z][i].kind = "response"
                 PROVE  channel[z][i].session = z /\ Sent(z, channel[z][i].req, channel[z][i].idx)'
    <3>1. channel' = channel
      BY <1>1
    <3>. QED
      BY <3>1 DEF ContentInv
  <2>2. channel[z][i].req \in Requests /\ channel[z][i].idx \in Nat
    BY <2>1, ResponseFields
  <2>3. channel[z][i].session = z /\ Sent(z, channel[z][i].req, channel[z][i].idx)
    BY <2>1 DEF DeliveryInv, ContentInv
  <2>4. \A q \in Requests : next[z][q] <= next'[z][q] /\ next'[z][q] \in Nat
    BY <1>2
  <2>5. task' = task /\ answer' = answer /\ channel' = channel
    BY <1>1
  <2>6. channel[z][i].idx < next[z][channel[z][i].req] /\ next[z][channel[z][i].req] \in Nat
    BY <1>2, <2>2, <2>3 DEF Sent
  <2>7. channel[z][i].idx < next'[z][channel[z][i].req]
    <3>. DEFINE q == channel[z][i].req
    <3>1. next[z][q] <= next'[z][q] /\ next'[z][q] \in Nat
      BY <2>2, <2>4
    <3>. QED
      BY <2>2, <3>1, <2>6
  <2>. QED
    BY <2>3, <2>5, <2>7 DEF Sent
<1>5. GapInv'
  <2>1. SUFFICES ASSUME NEW z \in Sessions, NEW q \in Requests,
                        NEW k \in 1..(next'[z][q] - 1),
                        k <= Len(answer[z][q]), answer[z][q][k] = "ok"
                 PROVE  \E i \in 1..Len(channel[z]) : channel[z][i] = Response(z, q, k)
    <3>1. channel' = channel /\ answer' = answer
      BY <1>1
    <3>. QED
      BY <3>1 DEF GapInv
  <2>2. k \in 1..(next[z][q] - 1)
    <3>1. CASE z = s /\ q = r
      <4>1. k # next[s][r]
        BY <1>1, <2>1, <3>1
      <4>. QED
        BY <1>2, <3>1, <4>1
    <3>2. CASE z # s \/ q # r
      BY <1>2, <3>2
    <3>. QED
      BY <3>1, <3>2
  <2>. QED
    BY <2>1, <2>2 DEF DeliveryInv, GapInv
<1>6. TaskInv'
  <2>1. task' = task /\ answer' = answer /\ writer' = writer
    BY <1>1
  <2>2. SUFFICES ASSUME NEW z \in Sessions, NEW q \in Requests
                 PROVE  /\ task[z][q] \in {"none", "handling"} => next'[z][q] = 1
                        /\ task[z][q] = "done" /\ writer[z] = "running" =>
                             next'[z][q] > Len(answer[z][q])
    BY <2>1 DEF TaskInv
  <2>3. CASE z = s /\ q = r
    BY <1>1, <2>3
  <2>4. CASE z # s \/ q # r
    BY <1>2, <2>4 DEF DeliveryInv, TaskInv
  <2>. QED
    BY <2>3, <2>4
<1>. QED
  BY <1>3, <1>4, <1>5, <1>6 DEF DeliveryInv

\* Queueing a response extends the order by the next index.
LEMMA QueueKeepsDelivery ==
  ASSUME TypeOK, DeliveryInv, NEW s \in Sessions, NEW r \in Requests,
         SendResponse(s, r), Queues(s, r)
  PROVE  DeliveryInv'
<1>. USE ConstantsAssumption
<1>. DEFINE n == Len(channel[s])
            k0 == next[s][r]
            m0 == Response(s, r, k0)
<1>1. /\ task[s][r] = "sending"
      /\ k0 <= Len(answer[s][r])
      /\ answer[s][r][k0] = "ok"
      /\ HasRoom(s)
      /\ channel' = [channel EXCEPT ![s] = Append(channel[s], m0)]
      /\ next' = [next EXCEPT ![s][r] = k0 + 1]
      /\ UNCHANGED <<task, answer, taken, written, writer>>
  BY SendResponseCases DEF Queues, writerVars
<1>2. k0 \in 1..MaxResponses /\ k0 \in Nat
  <2>1. Len(answer[s][r]) \in 0..MaxResponses /\ k0 \in 1..(MaxResponses + 1)
    BY AnswersAreSequences DEF TypeOK
  <2>2. k0 <= Len(answer[s][r])
    BY <1>1
  <2>3. Len(answer[s][r]) \in Int /\ Len(answer[s][r]) <= MaxResponses /\ k0 \in Int /\ 1 <= k0
    BY <2>1
  <2>. QED
    BY <2>2, <2>3
<1>3. m0 \in Message /\ m0.kind = "response" /\ m0.session = s /\ m0.req = r /\ m0.idx = k0
  BY <1>2 DEF Response, Message, ResponseMessage
<1>4. /\ n \in Nat
      /\ Len(channel'[s]) = n + 1
      /\ channel'[s][n + 1] = m0
      /\ \A i \in 1..n : channel'[s][i] = channel[s][i]
      /\ \A z \in Sessions \ {s} : channel'[z] = channel[z]
  BY <1>1, <1>3, ChannelAppend
<1>5. /\ \A z \in Sessions : \A q \in Requests : z # s \/ q # r => next'[z][q] = next[z][q]
      /\ next'[s][r] = k0 + 1
      /\ \A z \in Sessions : \A q \in Requests : next[z][q] \in Nat
  BY <1>1 DEF TypeOK
<1>14. \A z \in Sessions : \A q \in Requests :
         next[z][q] <= next'[z][q] /\ next'[z][q] \in Nat
  <2>. SUFFICES ASSUME NEW z \in Sessions, NEW q \in Requests
                PROVE  next[z][q] <= next'[z][q] /\ next'[z][q] \in Nat
    OBVIOUS
  <2>1. CASE z = s /\ q = r
    BY <1>5, <2>1
  <2>2. CASE z # s \/ q # r
    BY <1>5, <2>2
  <2>. QED
    BY <2>1, <2>2
<1>6. task' = task /\ answer' = answer /\ taken' = taken /\ written' = written /\ writer' = writer
  BY <1>1
<1>7. CursorInv'
  <2>1. n - taken[s] < Capacity
    BY <1>1 DEF HasRoom, Queued
  <2>2. \A z \in Sessions : taken[z] \in Nat /\ written[z] \in Nat
    BY DEF TypeOK
  <2>3. \A z \in Sessions : Len(channel[z]) \in Nat
    BY DEF TypeOK
  <2>. QED
    <3>. SUFFICES ASSUME NEW z \in Sessions
                  PROVE  /\ written[z] <= taken[z]
                         /\ taken[z] <= written[z] + 1
                         /\ taken[z] <= Len(channel'[z])
                         /\ Len(channel'[z]) - taken[z] <= Capacity
      BY <1>6 DEF CursorInv
    <3>1. /\ written[z] <= taken[z]
          /\ taken[z] <= written[z] + 1
          /\ taken[z] <= Len(channel[z])
          /\ Len(channel[z]) - taken[z] <= Capacity
      BY DEF DeliveryInv, CursorInv
    <3>2. CASE z = s
      BY <1>4, <2>1, <2>2, <2>3, <3>1, <3>2
    <3>3. CASE z # s
      BY <1>4, <2>2, <2>3, <3>1, <3>3
    <3>. QED
      BY <3>2, <3>3
<1>8. \A z \in Sessions : \A i \in 1..Len(channel'[z]) :
        \/ i \in 1..Len(channel[z]) /\ channel'[z][i] = channel[z][i]
        \/ z = s /\ i = n + 1 /\ channel'[z][i] = m0
  BY <1>4
<1>9. \A z \in Sessions : \A i \in 1..Len(channel[z]) :
        i \in 1..Len(channel'[z]) /\ channel'[z][i] = channel[z][i]
  BY <1>4
<1>. HIDE DEF n, k0, m0
<1>10. ContentInv'
  <2>1. SUFFICES ASSUME NEW z \in Sessions, NEW i \in 1..Len(channel'[z]),
                        channel'[z][i].kind = "response"
                 PROVE  channel'[z][i].session = z
                        /\ Sent(z, channel[z][i].req, channel[z][i].idx)'
    BY DEF ContentInv
  <2>2. CASE i \in 1..Len(channel[z]) /\ channel'[z][i] = channel[z][i]
    <3>. DEFINE q == channel[z][i].req
                k == channel[z][i].idx
    <3>1. channel[z][i].session = z /\ Sent(z, q, k)
      BY <2>1, <2>2 DEF DeliveryInv, ContentInv
    <3>2. q \in Requests /\ k \in Nat
      BY <2>1, <2>2, ResponseFields
    <3>3. k < next[z][q]
      BY <3>1 DEF Sent
    <3>4. k < next'[z][q]
      BY <1>5, <1>14, <3>2, <3>3
    <3>. QED
      BY <1>6, <2>2, <3>1, <3>4 DEF Sent
  <2>3. CASE z = s /\ channel'[z][i] = m0
    <3>1. k0 < next'[s][r]
      BY <1>2, <1>5
    <3>. QED
      BY <1>1, <1>3, <1>6, <2>3, <3>1 DEF Sent, k0
  <2>. QED
    BY <1>8, <2>2, <2>3
<1>11. OrderInv'
  <2>1. SUFFICES ASSUME NEW z \in Sessions, NEW i \in 1..Len(channel'[z]),
                        NEW j \in 1..Len(channel'[z]), i < j,
                        channel'[z][i].kind = "response", channel'[z][j].kind = "response",
                        channel'[z][i].req = channel'[z][j].req
                 PROVE  channel'[z][i].idx < channel'[z][j].idx
    BY DEF OrderInv
  <2>2. CASE j \in 1..Len(channel[z]) /\ channel'[z][j] = channel[z][j]
    <3>1. i \in 1..Len(channel[z]) /\ channel'[z][i] = channel[z][i]
      <4>1. Len(channel[z]) \in Nat
        BY DEF TypeOK
      <4>2. i \in 1..Len(channel[z])
        BY <2>1, <2>2, <4>1
      <4>. QED
        BY <4>2, <1>9
    <3>. QED
      BY <2>1, <2>2, <3>1 DEF DeliveryInv, OrderInv
  <2>3. CASE z = s /\ j = n + 1 /\ channel'[z][j] = m0
    <3>1. i \in 1..Len(channel[z])
      BY <1>4, <2>1, <2>3 DEF n
    <3>2. channel'[z][i] = channel[z][i]
      BY <1>9, <3>1
    <3>3. Sent(s, r, channel[s][i].idx)
      BY <1>3, <2>1, <2>3, <3>1, <3>2 DEF DeliveryInv, ContentInv
    <3>. QED
      BY <1>3, <2>3, <3>2, <3>3 DEF Sent, k0
  <2>. QED
    BY <1>8, <2>2, <2>3
<1>12. GapInv'
  <2>1. SUFFICES ASSUME NEW z \in Sessions, NEW q \in Requests,
                        NEW k \in 1..(next'[z][q] - 1),
                        k <= Len(answer[z][q]), answer[z][q][k] = "ok"
                 PROVE  \E i \in 1..Len(channel'[z]) : channel'[z][i] = Response(z, q, k)
    BY <1>6 DEF GapInv
  <2>2. CASE z = s /\ q = r /\ k = k0
    <3>1. n + 1 \in 1..Len(channel'[s])
      BY <1>4
    <3>. QED
      BY <1>4, <2>2, <3>1 DEF m0
  <2>3. CASE k \in 1..(next[z][q] - 1)
    <3>1. PICK i \in 1..Len(channel[z]) : channel[z][i] = Response(z, q, k)
      BY <2>1, <2>3 DEF DeliveryInv, GapInv
    <3>. QED
      BY <1>9, <3>1
  <2>4. \/ z = s /\ q = r /\ k = k0
        \/ k \in 1..(next[z][q] - 1)
    <3>1. CASE z = s /\ q = r
      BY <1>2, <1>5, <3>1 DEF k0
    <3>2. CASE z # s \/ q # r
      BY <1>5, <3>2
    <3>. QED
      BY <3>1, <3>2
  <2>. QED
    BY <2>2, <2>3, <2>4
<1>13. TaskInv'
  <2>1. SUFFICES ASSUME NEW z \in Sessions, NEW q \in Requests
                 PROVE  /\ task[z][q] \in {"none", "handling"} => next'[z][q] = 1
                        /\ task[z][q] = "done" /\ writer[z] = "running" =>
                             next'[z][q] > Len(answer[z][q])
    BY <1>6 DEF TaskInv
  <2>2. CASE z = s /\ q = r
    BY <1>1, <2>2
  <2>3. CASE z # s \/ q # r
    BY <1>5, <2>3 DEF DeliveryInv, TaskInv
  <2>. QED
    BY <2>2, <2>3
<1>. QED
  BY <1>7, <1>10, <1>11, <1>12, <1>13 DEF DeliveryInv

\* Every step keeps the delivery invariant.
LEMMA DeliveryStep ==
  TypeOK /\ StartedInv /\ FutureInv /\ DeliveryInv /\ [Next]_vars => DeliveryInv'
<1>. SUFFICES ASSUME TypeOK, StartedInv, FutureInv, DeliveryInv, [Next]_vars
              PROVE  DeliveryInv'
  OBVIOUS
<1>. USE ConstantsAssumption
<1>0. \A s \in Sessions :
        /\ taken[s] \in Nat /\ written[s] \in Nat /\ Len(channel[s]) \in Nat
        /\ written[s] <= taken[s] /\ taken[s] <= written[s] + 1
        /\ taken[s] <= Len(channel[s])
  BY DEF TypeOK, DeliveryInv, CursorInv
<1>1. ASSUME UNCHANGED <<taskVars, channel, taken, written>>,
             \A s \in Sessions : writer'[s] = "running" /\ writer[s] # "running" =>
               \A r \in Requests : task[s][r] # "done"
      PROVE  DeliveryInv'
  <2>1. task' = task /\ answer' = answer /\ next' = next /\ channel' = channel
        /\ taken' = taken /\ written' = written
    BY <1>1 DEF taskVars
  <2>. QED
    BY <1>0, <1>1, <2>1, DeliveryFrame
<1>2. CASE ConnectOk
  <2>1. UNCHANGED <<taskVars, channel, taken, written>>
    BY <1>2 DEF ConnectOk
  <2>2. \A s \in Sessions : writer'[s] = "running" /\ writer[s] # "running" => s > session
    BY <1>2 DEF ConnectOk, TypeOK, Sessions
  <2>3. \A s \in Sessions : writer'[s] = "running" /\ writer[s] # "running" =>
          \A r \in Requests : task[s][r] # "done"
    BY <2>2 DEF FutureInv
  <2>. QED
    BY <1>1, <2>1, <2>3
<1>3. CASE ConnectFail \/ Wake \/ RecvIgnored \/ Tick \/ PeerFails \/ UNCHANGED vars
  <2>1. UNCHANGED <<taskVars, channel, writerVars>>
    BY <1>3 DEF ConnectFail, Wake, RecvIgnored, Tick, PeerFails, vars
  <2>. QED
    BY <1>1, <2>1 DEF writerVars
<1>4. ASSUME EndSession PROVE DeliveryInv'
  <2>1. UNCHANGED <<taskVars, channel, writerVars>>
    BY <1>4 DEF EndSession
  <2>. QED
    BY <1>1, <2>1 DEF writerVars
<1>5. CASE RecvClosed \/ WriterFinished \/ SilenceTimeout
  BY <1>4, <1>5 DEF RecvClosed, WriterFinished, SilenceTimeout
<1>6. CASE RecvPing
  BY <1>4, <1>6, PongKeepsDelivery
<1>7. ASSUME NEW s \in Sessions, NEW r \in Requests, NEW v \in TaskStates,
             task[s][r] # v, task' = [task EXCEPT ![s][r] = v],
             UNCHANGED <<answer, next, channel, writerVars>>,
             v \in {"none", "handling"} => task[s][r] \in {"none", "handling"},
             v = "done" => writer[s] # "running" \/ next[s][r] > Len(answer[s][r])
      PROVE  DeliveryInv'
  <2>1. answer' = answer /\ next' = next /\ channel' = channel
        /\ taken' = taken /\ written' = written /\ writer' = writer
    BY <1>7 DEF writerVars
  <2>2. \A z \in Sessions : \A q \in Requests :
          task'[z][q] = IF z = s /\ q = r THEN v ELSE task[z][q]
    BY <1>7 DEF TypeOK
  <2>3. \A z \in Sessions : \A q \in Requests :
          /\ task'[z][q] \in {"none", "handling"} => task[z][q] \in {"none", "handling"}
          /\ task'[z][q] = "done" /\ writer'[z] = "running" =>
               \/ task[z][q] = "done" /\ writer[z] = "running"
               \/ next[z][q] > Len(answer[z][q])
    BY <1>7, <2>1, <2>2
  <2>. QED
    BY <1>0, <2>1, <2>3, DeliveryFrame
<1>8. ASSUME NEW r \in Requests, RecvRequest(r) PROVE DeliveryInv'
  <2>1. session \in Sessions
    BY <1>8 DEF RecvRequest, Receiving, StartedInv
  <2>. QED
    BY <1>7, <1>8, <2>1 DEF RecvRequest, TaskStates
<1>9. ASSUME NEW s \in Sessions, NEW r \in Requests, Task(s, r) PROVE DeliveryInv'
  <2>1. CASE HandlerDone(s, r)
    BY <2>1, HandlerDoneKeepsDelivery
  <2>2. CASE HandlerPanic(s, r)
    BY <1>7, <2>2 DEF HandlerPanic, TaskStates
  <2>3. CASE SendResponse(s, r)
    <3>1. CASE GivesUp(s, r)
      <4>1. /\ task[s][r] = "sending" /\ writer[s] = "stopped"
            /\ task' = [task EXCEPT ![s][r] = "done"]
            /\ UNCHANGED <<answer, next, channel, writerVars>>
        BY <2>3, <3>1, SendResponseCases DEF GivesUp
      <4>. QED
        BY <1>7, <4>1 DEF TaskStates
    <3>. QED
      BY <2>3, <3>1, SendResponseCases, SkipKeepsDelivery, QueueKeepsDelivery
  <2>4. CASE TaskDone(s, r)
    BY <1>7, <2>4 DEF TaskDone, TaskStates
  <2>5. CASE CancelTask(s, r)
    BY <1>7, <2>5 DEF CancelTask, Active, TaskStates
  <2>. QED
    BY <1>9, <2>1, <2>2, <2>3, <2>4, <2>5 DEF Task
<1>10. ASSUME NEW s \in Sessions, Writer(s) PROVE DeliveryInv'
  <2>1. CASE WriterFail(s) \/ CancelWriter(s)
    <3>1. /\ writer' = [writer EXCEPT ![s] = "stopped"]
          /\ UNCHANGED <<taskVars, channel, taken, written>>
      BY <2>1 DEF WriterFail, CancelWriter
    <3>2. \A z \in Sessions : writer'[z] = "running" => writer[z] = "running"
      BY <3>1 DEF TypeOK
    <3>. QED
      BY <1>1, <3>1, <3>2
  <2>2. ASSUME UNCHANGED <<taskVars, channel, writer>>,
               \A z \in Sessions :
                 /\ written'[z] \in Nat /\ taken'[z] \in Nat
                 /\ written'[z] <= taken'[z] /\ taken'[z] <= written'[z] + 1
                 /\ taken[z] <= taken'[z] /\ taken'[z] <= Len(channel[z])
        PROVE  DeliveryInv'
    <3>1. task' = task /\ answer' = answer /\ next' = next /\ channel' = channel /\ writer' = writer
      BY <2>2 DEF taskVars
    <3>. QED
      BY <2>2, <3>1, DeliveryFrame
  <2>3. CASE WriterRecv(s)
    <3>1. /\ taken[s] = written[s] /\ taken[s] < Len(channel[s])
          /\ UNCHANGED <<taskVars, channel, writer>> /\ written' = written
          /\ \A z \in Sessions : taken'[z] = IF z = s THEN taken[s] + 1 ELSE taken[z]
      BY <1>0, <2>3 DEF WriterRecv, Queued, TypeOK
    <3>. QED
      BY <1>0, <2>2, <3>1
  <2>4. CASE WriterSend(s)
    <3>1. /\ written[s] < taken[s]
          /\ UNCHANGED <<taskVars, channel, writer>> /\ taken' = taken
          /\ \A z \in Sessions : written'[z] = IF z = s THEN written[s] + 1 ELSE written[z]
      BY <1>0, <2>4 DEF WriterSend, TypeOK
    <3>. QED
      BY <1>0, <2>2, <3>1
  <2>. QED
    BY <1>10, <2>1, <2>3, <2>4 DEF Writer
<1>. QED
  BY <1>2, <1>3, <1>5, <1>6, <1>8, <1>9, <1>10 DEF Next, Loop, Reader

-----------------------------------------------------------------------------
\* IInv is an inductive invariant of the client.
THEOREM InvariantHolds == Spec => []IInv
<1>1. Init => IInv
  <2>. SUFFICES ASSUME Init PROVE IInv
    OBVIOUS
  <2>1. TypeOK /\ StartedInv
    BY TypeInit
  <2>2. FutureInv /\ DeliveryInv
    BY <2>1, ConstantsAssumption
    DEF Init, TypeOK, FutureInv, DeliveryInv, CursorInv, ContentInv, OrderInv, GapInv, TaskInv
  <2>3. ReadyIffServed
    <3>1. ws_connected <=> phase = "session"
      BY DEF Init
    <3>2. aborted = {s \in Sessions : s <= session /\ ~Live(s)}
      BY ConstantsAssumption DEF Init, Sessions
    <3>. QED
      BY <3>1, <3>2 DEF Init, ReadyIffServed
  <2>. QED
    BY <2>1, <2>2, <2>3 DEF IInv
<1>2. IInv /\ [Next]_vars => IInv'
  BY TypeStep, LoopStep, DeliveryStep DEF IInv
<1>. QED
  BY <1>1, <1>2, PTL DEF Spec

\* Every variable keeps its type in every reachable state.
THEOREM TypeCorrect == Spec => []TypeOK
<1>1. IInv => TypeOK
  BY DEF IInv
<1>. QED
  BY <1>1, InvariantHolds, PTL

\* What the server reads for one request of a session is a prefix of the
\* handler's serialisable responses, whatever interleaves and is cancelled.
THEOREM PrefixDeliveredHolds == Spec => []PrefixDelivered
<1>1. IInv => PrefixDelivered
  <2>. SUFFICES ASSUME IInv, NEW s \in Sessions, NEW i \in 1..written[s],
                       channel[s][i].kind = "response"
                PROVE  /\ channel[s][i].idx <= Len(answer[s][channel[s][i].req])
                       /\ answer[s][channel[s][i].req][channel[s][i].idx] = "ok"
                       /\ \A j \in 1..(i - 1) : channel[s][j] # channel[s][i]
                       /\ \A k \in 1..(channel[s][i].idx - 1) :
                            answer[s][channel[s][i].req][k] = "ok" =>
                            \E j \in 1..(i - 1) :
                              channel[s][j] = Response(s, channel[s][i].req, k)
    BY DEF PrefixDelivered
  <2>. USE ConstantsAssumption DEF IInv, DeliveryInv
  <2>. DEFINE m == channel[s][i]
              r == m.req
  <2>1. /\ written[s] \in Nat /\ taken[s] \in Nat /\ Len(channel[s]) \in Nat
        /\ i \in 1..Len(channel[s])
    <3>1. written[s] \in Nat /\ taken[s] \in Nat /\ Len(channel[s]) \in Nat
      BY DEF TypeOK
    <3>2. written[s] <= taken[s] /\ taken[s] <= Len(channel[s])
      BY DEF CursorInv
    <3>. QED
      BY <3>1, <3>2
  <2>2. r \in Requests /\ m.idx \in Nat
    BY <2>1, ResponseFields
  <2>3. Sent(s, r, m.idx)
    BY <2>1 DEF ContentInv
  <2>4. \A j \in 1..(i - 1) : channel[s][j] # m
    <3>. SUFFICES ASSUME NEW j \in 1..(i - 1), channel[s][j] = m PROVE FALSE
      OBVIOUS
    <3>1. j \in 1..Len(channel[s]) /\ j < i
      BY <2>1
    <3>2. channel[s][j].idx < m.idx
      BY <2>1, <3>1 DEF OrderInv
    <3>. QED
      BY <2>2, <3>2
  <2>5. ASSUME NEW k \in 1..(m.idx - 1), answer[s][r][k] = "ok"
        PROVE  \E j \in 1..(i - 1) : channel[s][j] = Response(s, r, k)
    <3>1. next[s][r] \in Nat /\ k \in 1..(next[s][r] - 1) /\ k < m.idx /\ k \in Nat
      <4>1. next[s][r] \in Nat
        BY <2>2 DEF TypeOK
      <4>2. m.idx < next[s][r]
        BY <2>3 DEF Sent
      <4>. QED
        BY <2>2, <4>1, <4>2
    <3>2. k <= Len(answer[s][r])
      <4>1. Len(answer[s][r]) \in Nat
        BY <2>2, AnswersAreSequences DEF TypeOK
      <4>. QED
        BY <2>2, <2>3, <3>1, <4>1 DEF Sent
    <3>3. PICK j \in 1..Len(channel[s]) : channel[s][j] = Response(s, r, k)
      BY <2>2, <2>5, <3>1, <3>2 DEF GapInv
    <3>4. channel[s][j].kind = "response" /\ channel[s][j].req = r /\ channel[s][j].idx = k
      BY <3>3 DEF Response
    <3>5. j # i
      BY <2>2, <3>1, <3>4
    <3>6. ~(i < j)
      <4>1. i < j => m.idx < channel[s][j].idx
        BY <2>1, <3>4 DEF OrderInv
      <4>. QED
        BY <2>2, <3>1, <3>4, <4>1
    <3>7. j \in 1..(i - 1)
      BY <2>1, <3>5, <3>6
    <3>. QED
      BY <3>3, <3>7
  <2>. QED
    BY <2>3, <2>4, <2>5 DEF Sent
<1>. QED
  BY <1>1, InvariantHolds, PTL

\* No session is answered with another session's responses.
THEOREM SessionIsolationHolds == Spec => []SessionIsolation
<1>1. IInv => SessionIsolation
  <2>. SUFFICES ASSUME IInv, NEW s \in Sessions, NEW i \in DOMAIN channel[s],
                       channel[s][i].kind = "response"
                PROVE  channel[s][i].session = s /\ task[s][channel[s][i].req] # "none"
    BY DEF SessionIsolation
  <2>1. i \in 1..Len(channel[s])
    BY DEF IInv, TypeOK
  <2>2. channel[s][i].session = s /\ Sent(s, channel[s][i].req, channel[s][i].idx)
    BY <2>1 DEF IInv, DeliveryInv, ContentInv
  <2>. QED
    BY <2>2 DEF Sent
<1>. QED
  BY <1>1, InvariantHolds, PTL

\* The channel never holds more than its capacity, the writer at most one.
THEOREM QueueBoundedHolds == Spec => []QueueBounded
<1>1. IInv => QueueBounded
  BY ConstantsAssumption DEF IInv, TypeOK, DeliveryInv, CursorInv, QueueBounded, Queued
<1>. QED
  BY <1>1, InvariantHolds, PTL

\* Readiness is published exactly while one session, the latest, is served.
THEOREM ReadyIffServedHolds == Spec => []ReadyIffServed
<1>1. IInv => ReadyIffServed
  BY DEF IInv
<1>. QED
  BY <1>1, InvariantHolds, PTL

\* A task that ends by itself under a running writer has queued its answer.
THEOREM DoneMeansQueuedHolds == Spec => []DoneMeansQueued
<1>1. IInv => DoneMeansQueued
  <2>. SUFFICES ASSUME IInv, NEW s \in Sessions, NEW r \in Requests,
                       task[s][r] = "done", writer[s] = "running",
                       NEW k \in 1..Len(answer[s][r]), answer[s][r][k] = "ok"
                PROVE  \E i \in DOMAIN channel[s] : channel[s][i] = Response(s, r, k)
    BY DEF DoneMeansQueued
  <2>. USE DEF IInv, DeliveryInv
  <2>1. Len(answer[s][r]) \in Nat /\ next[s][r] \in Nat
    BY AnswersAreSequences, ConstantsAssumption DEF TypeOK
  <2>2. k <= Len(answer[s][r]) /\ k \in 1..(next[s][r] - 1)
    BY <2>1 DEF TaskInv
  <2>3. PICK i \in 1..Len(channel[s]) : channel[s][i] = Response(s, r, k)
    BY <2>2 DEF GapInv
  <2>4. i \in DOMAIN channel[s]
    BY DEF TypeOK
  <2>. QED
    BY <2>3, <2>4
<1>. QED
  BY <1>1, InvariantHolds, PTL
-----------------------------------------------------------------------------
(* The reconnect delay *)

\* Powers of two double: a set with one more element has twice the subsets.
LEMMA PowersOfTwo ==
  ASSUME NEW n \in Nat
  PROVE  2^n \in Nat /\ 2^(n + 1) = 2 * 2^n
<1> DEFINE A == 1..n
           x == n + 1
           With == {T \cup {x} : T \in SUBSET A}
           f == [T \in SUBSET A |-> T \cup {x}]
<1>1. IsFiniteSet(A) /\ Cardinality(A) = n /\ IsFiniteSet(A \cup {x}) /\ Cardinality(A \cup {x}) = n + 1
  <2>1. A \cup {x} = 1..(n + 1)
    OBVIOUS
  <2>2. IsFiniteSet(1..n) /\ Cardinality(1..n) = n
    BY FS_Interval
  <2>3. IsFiniteSet(1..(n + 1)) /\ Cardinality(1..(n + 1)) = n + 1
    BY FS_Interval
  <2> QED BY <2>1, <2>2, <2>3
<1>2. x \notin A
  OBVIOUS
<1> HIDE DEF A, x
<1>3. /\ IsFiniteSet(SUBSET A) /\ Cardinality(SUBSET A) = 2^n
      /\ Cardinality(SUBSET (A \cup {x})) = 2^(n + 1)
  BY <1>1, FS_SUBSET, Zenon
<1>4. f \in Bijection(SUBSET A, With)
  <2>1. f \in [SUBSET A -> With]
    BY Zenon
  <2>2. \A S, T \in SUBSET A : f[S] = f[T] => S = T
    <3> SUFFICES ASSUME NEW S \in SUBSET A, NEW T \in SUBSET A, S \cup {x} = T \cup {x}
                 PROVE  S = T
      BY Zenon
    <3>1. x \notin S /\ x \notin T
      BY <1>2
    <3> QED BY <3>1
  <2>3. \A t \in With : \E s \in SUBSET A : f[s] = t
    BY Zenon
  <2> QED BY <2>1, <2>2, <2>3, Fun_IsBij
<1>5. IsFiniteSet(With) /\ Cardinality(With) = 2^n
  BY <1>3, <1>4, FS_Bijection, Fun_ExistsBij, Zenon
<1>6. SUBSET (A \cup {x}) = (SUBSET A) \cup With
  <2>1. ASSUME NEW T \in SUBSET (A \cup {x}), T \notin SUBSET A
        PROVE  T \in With
    <3>1. T = (T \ {x}) \cup {x} /\ T \ {x} \in SUBSET A
      BY <2>1
    <3> QED BY <3>1, Zenon
  <2>2. (SUBSET A) \cup With \subseteq SUBSET (A \cup {x})
    OBVIOUS
  <2> QED BY <2>1, <2>2, Zenon
<1>7. (SUBSET A) \cap With = {}
  <2>1. \A T \in With : x \in T
    BY Zenon
  <2> QED BY <1>2, <2>1
<1> HIDE DEF With
<1>8. Cardinality(SUBSET (A \cup {x})) = Cardinality(SUBSET A) + Cardinality(With) - 0
  <2>1. Cardinality((SUBSET A) \cup With)
          = Cardinality(SUBSET A) + Cardinality(With) - Cardinality((SUBSET A) \cap With)
    BY <1>3, <1>5, FS_Union
  <2>2. Cardinality((SUBSET A) \cap With) = 0
    BY <1>7, FS_EmptySet
  <2> QED BY <1>6, <2>1, <2>2
<1>9. 2^n \in Nat
  BY <1>3, FS_CardinalityType, Zenon
<1> QED BY <1>3, <1>5, <1>8, <1>9

\* The delay follows the schedule: a step of run_forever starts it anew or
\* doubles it, and no other step touches it.
LEMMA BackoffStep ==
  ASSUME TypeOK, BackoffSchedule, [Next]_vars
  PROVE  BackoffSchedule'
<1>1. CASE ConnectOk
  <2>1. backoff' = 1 /\ sleeps' = 0 /\ 2^0 = 1
    BY <1>1 DEF ConnectOk
  <2> QED BY <2>1, ConstantsAssumption DEF BackoffSchedule
<1>2. CASE Wake
  <2> DEFINE p == 2^sleeps
  <2>1. sleeps \in Nat /\ p \in Nat /\ 2^(sleeps + 1) = 2 * p
    BY PowersOfTwo DEF TypeOK
  <2>2. backoff = IF p < BackoffCap THEN p ELSE BackoffCap
    BY DEF BackoffSchedule
  <2>3. /\ backoff' = IF 2 * backoff < BackoffCap THEN 2 * backoff ELSE BackoffCap
        /\ sleeps' = IF backoff = BackoffCap THEN sleeps ELSE sleeps + 1
    BY <1>2 DEF Wake, Double
  <2> HIDE DEF p
  <2>4. CASE backoff = BackoffCap
    <3>1. backoff' = BackoffCap /\ 2^sleeps' = p /\ ~(p < BackoffCap)
      BY <2>1, <2>2, <2>3, <2>4, ConstantsAssumption DEF p
    <3> QED BY <3>1 DEF BackoffSchedule
  <2>5. CASE backoff # BackoffCap
    <3>1. 2^sleeps' = 2 * p /\ backoff = p
      BY <2>1, <2>2, <2>3, <2>5
    <3> QED BY <2>3, <3>1 DEF BackoffSchedule
  <2> QED BY <2>4, <2>5
<1>3. CASE UNCHANGED <<backoff, sleeps>>
  BY <1>3 DEF BackoffSchedule
<1>4. ConnectOk \/ Wake \/ UNCHANGED <<backoff, sleeps>>
  <2>1. CASE ConnectFail
    BY <2>1 DEF ConnectFail
  <2>2. CASE EndSession
    BY <2>2 DEF EndSession
  <2>3. CASE UNCHANGED loopVars
    BY <2>3 DEF loopVars
  <2>4. Reader => EndSession \/ UNCHANGED loopVars
    BY RecvPingCases DEF Reader, RecvRequest, RecvIgnored, RecvClosed, WriterFinished, SilenceTimeout
  <2>5. (\E s \in Sessions : \E r \in Requests : Task(s, r)) => UNCHANGED loopVars
    BY DEF Task, HandlerDone, HandlerPanic, SendResponse, TaskDone, CancelTask
  <2>6. (\E s \in Sessions : Writer(s)) => UNCHANGED loopVars
    BY DEF Writer, WriterRecv, WriterSend, WriterFail, CancelWriter
  <2>7. Tick \/ PeerFails \/ UNCHANGED vars => UNCHANGED loopVars
    BY DEF Tick, PeerFails, vars
  <2> QED BY <2>1, <2>2, <2>3, <2>4, <2>5, <2>6, <2>7 DEF Next, Loop
<1> QED BY <1>1, <1>2, <1>3, <1>4

\* After n failed attempts in a row run_forever waits 2^n seconds, at most the
\* cap, and a successful connect starts again at one second.
THEOREM BackoffScheduleHolds == Spec => []BackoffSchedule
<1>1. Init => BackoffSchedule
  <2> SUFFICES ASSUME Init PROVE BackoffSchedule
    OBVIOUS
  <2>1. backoff = 1 /\ sleeps = 0 /\ 2^0 = 1
    BY DEF Init
  <2> QED BY <2>1, ConstantsAssumption DEF BackoffSchedule
<1>2. TypeOK /\ BackoffSchedule /\ [Next]_vars => BackoffSchedule'
  BY BackoffStep
<1> QED BY <1>1, <1>2, TypeCorrect, PTL DEF Spec
=============================================================================
