----------------------------- MODULE TdsProofs -----------------------------
(***************************************************************************)
(* No call takes an answer to another one for its own, a query that        *)
(* succeeds has its page, and every stream keeps the contract of a stream, *)
(* for every number of concurrent calls, every set of requests and every   *)
(* limit.                                                                  *)
(***************************************************************************)
EXTENDS Tds, TLAPS

\* Where a call is while its MutexGuard is alive, and while it reads.
Owning == {"count", "counting", "ask", "asked", "collect"}
Reading == {"counting", "asked", "collect"}

\* v has the fields of a call, and w those of a response.
Shaped(v) ==
  v = [at |-> v.at, req |-> v.req, counted |-> v.counted, of |-> v.of, rows |-> v.rows,
       muted |-> v.muted, out |-> v.out, rx |-> v.rx, answer |-> v.answer]
ShapedWire(w) == w = [by |-> w.by, req |-> w.req, state |-> w.state, muted |-> w.muted]

ShapeInv ==
  /\ call = [c \in Calls |-> call[c]]
  /\ \A c \in Calls : Shaped(call[c])

\* A call has the guard exactly while it uses the connection.
HolderInv == \A c \in Calls : At(c) \in Owning <=> holder = c

\* The response that a call reads is the one to its own request.
WireInv ==
  \A c \in Calls : At(c) \in Reading => ShapedWire(wire) /\ wire.by = c /\ wire.req = Req(c)

\* What a call has counted and answered is about its own request.
PageOk(v) ==
  /\ v.at # "idle" => v.req \in Requests
  /\ v.counted = None \/ v.counted = v.req.matching
  /\ v.answer.status = "success" =>
       /\ v.at = "done" /\ v.answer.rows = v.rows /\ v.answer.total = v.counted
       /\ v.answer.has_more = HasMore(v.req, v.rows)
       /\ ~v.muted => v.rows = Returned(v.req)

EventSet ==
  [type : {"schema", "error"}]
    \cup [type : {"batch"}, chunk_index : Int, first : Nat, last : Nat]
    \cup [type : {"complete"}, total_chunks : Int, total_rows : Nat]

LastOf(o) == o[Len(o)]

\* While a call sends its events the stream is open and within the result.
StreamOk(v) ==
  /\ v.out \in Seq(EventSet)
  /\ v.at \notin {"emit", "done"} => v.out = <<>>
  /\ v.at = "emit" =>
       /\ v.rows \in Nat /\ (~v.muted => v.rows = Returned(v.req))
       /\ v.out # <<>> => LastOf(v.out).type \in {"schema", "batch"}
       /\ v.out # <<>> /\ LastOf(v.out).type = "batch" =>
            LastOf(v.out).last \in Nat /\ LastOf(v.out).last <= v.rows

DataOk(v) == PageOk(v) /\ StreamOk(v)
DataInv == \A c \in Calls : DataOk(call[c])

IInv == ShapeInv /\ HolderInv /\ WireInv /\ OwnRows /\ DataInv

-----------------------------------------------------------------------------
(* Facts about the operators *)

\* A request has a limit, and what it returns is a number of rows.
LEMMA ReturnedIsNat ==
  ASSUME NEW q \in Requests
  PROVE  EffectiveLimit(q) \in Nat /\ Returned(q) \in Nat
<1>1. /\ q.matching \in Nat /\ q.offset \in Nat /\ q.limit \in Nat \cup {NoLimit}
      /\ U32 \in Nat \ {0} /\ StreamLimit \in Nat /\ DefaultLimit \in Nat
  BY TdsAssumption
<1>2. EffectiveLimit(q) \in Nat
  BY <1>1 DEF EffectiveLimit
<1>3. \A n, from, to \in Nat : Between(n, from, to) \in Nat
  BY DEF Between
<1>4. q.offset + EffectiveLimit(q) \in Nat /\ (q.offset + EffectiveLimit(q)) % U32 \in Nat
  BY <1>1, <1>2
<1> QED BY <1>1, <1>2, <1>3, <1>4 DEF Returned, ApplyTsqlPagination

\* The remainder of a smaller number.
LEMMA ModSmall == ASSUME NEW a \in Nat, NEW b \in Nat, a < b PROVE a % b = a
<1> DEFINE q == a \div b
           m == a % b
<1>1. q \in Int /\ m \in Nat /\ m < b /\ a = b * q + m
  OBVIOUS
<1> HIDE DEF q, m
<1>2. CASE q >= 1
  <2>1. b * q >= b
    BY <1>1, <1>2
  <2> QED BY <1>1, <2>1
<1>3. CASE q <= -1
  <2>1. b * q <= -b
    BY <1>1, <1>3
  <2> QED BY <1>1, <2>1
<1>4. CASE q = 0
  BY <1>1, <1>4 DEF m
<1> QED BY <1>1, <1>2, <1>3, <1>4

\* A call that has not begun.
LEMMA IdleOk ==
  /\ DataOk(Idle)
  /\ \A at \in {"queued", "gone"}, q \in Requests : DataOk([Idle EXCEPT !.at = at, !.req = q])
<1>1. <<>> \in Seq(EventSet)
  OBVIOUS
<1>2. ASSUME NEW at \in {"queued", "gone"}, NEW q \in Requests
      PROVE  DataOk([Idle EXCEPT !.at = at, !.req = q])
  <2> DEFINE v == [Idle EXCEPT !.at = at, !.req = q]
  <2>1. /\ v.at = at /\ v.req = q /\ v.counted = None /\ v.out = <<>>
        /\ v.answer.status = "none"
    BY DEF Idle
  <2> HIDE DEF v
  <2>2. DataOk(v)
    BY <1>1, <2>1 DEF DataOk, PageOk, StreamOk
  <2> QED BY <2>2 DEF v
<1>3. DataOk(Idle)
  BY <1>1 DEF DataOk, PageOk, StreamOk, Idle
<1> QED BY <1>2, <1>3

\* A call that goes on to another of its steps before it emits anything.
LEMMA MovesOk ==
  ASSUME NEW v, NEW r, DataOk(v),
         r.req = v.req, r.out = v.out, r.answer = v.answer,
         r.counted \in {None, v.counted, v.req.matching},
         v.at \notin {"idle", "emit", "done"}, r.at \notin {"idle", "emit", "done"}
  PROVE  DataOk(r)
BY DEF DataOk, PageOk, StreamOk

\* The event a stream emits next, and the row it has got to.
LEMMA NextEventIs ==
  ASSUME NEW c \in Calls, DataOk(call[c]), At(c) = "emit"
  PROVE  LET o == call[c].out
             n == RowsSent(c)
             rows == call[c].rows
         IN /\ n \in Nat /\ n <= rows /\ rows \in Nat /\ o \in Seq(EventSet)
            /\ \/ o = <<>> /\ NextEvent(c) = [type |-> "schema"]
               \/ /\ o # <<>>
                  /\ \E m \in Nat :
                       /\ n < m /\ m <= rows
                       /\ NextEvent(c) = [type |-> "batch", chunk_index |-> Len(o) - 1,
                                          first |-> n + 1, last |-> m]
               \/ /\ o # <<>> /\ n = rows
                  /\ NextEvent(c) = [type |-> "complete", total_chunks |-> Len(o) - 1, total_rows |-> rows]
<1> DEFINE o == call[c].out
           n == RowsSent(c)
           rows == call[c].rows
           m == IF n + ChunkSize < rows THEN n + ChunkSize ELSE rows
<1>1. o \in Seq(EventSet) /\ rows \in Nat /\ ChunkSize \in Nat \ {0}
  BY TdsAssumption DEF DataOk, StreamOk, At
<1>2. n \in Nat /\ n <= rows
  BY <1>1 DEF DataOk, StreamOk, At, RowsSent, LastOf
<1>3. CASE Len(o) = 0
  BY <1>1, <1>2, <1>3 DEF NextEvent
<1>4. CASE Len(o) # 0 /\ n < rows
  <2>1. o # <<>> /\ Len(o) > 0 /\ m \in Nat /\ n < m /\ m <= rows
    BY <1>1, <1>2, <1>4
  <2>2. NextEvent(c) = [type |-> "batch", chunk_index |-> Len(o) - 1, first |-> n + 1, last |-> m]
    BY <1>4, <2>1 DEF NextEvent
  <2> QED BY <1>1, <1>2, <2>1, <2>2
<1>5. CASE Len(o) # 0 /\ n = rows
  <2>1. o # <<>> /\ ~(n < rows)
    BY <1>1, <1>2, <1>5
  <2>2. NextEvent(c) = [type |-> "complete", total_chunks |-> Len(o) - 1, total_rows |-> rows]
    BY <1>5, <2>1 DEF NextEvent
  <2> QED BY <1>1, <1>2, <1>5, <2>1, <2>2
<1> QED BY <1>1, <1>2, <1>3, <1>4, <1>5

-----------------------------------------------------------------------------
\* The initial state satisfies the invariant.
LEMMA InitIInv == Init => IInv
<1> SUFFICES ASSUME Init PROVE IInv
  OBVIOUS
<1>1. \A c \in Calls : call[c] = Idle
  BY DEF Init
<1>2. Shaped(Idle) /\ Idle.at = "idle" /\ Idle.of = None
  BY DEF Shaped, Idle
<1>6. DataInv
  BY <1>1, IdleOk DEF DataInv
<1>3. ShapeInv
  BY <1>1, <1>2 DEF Init, ShapeInv
<1>4. HolderInv /\ WireInv
  BY <1>1, <1>2, TdsAssumption DEF Init, HolderInv, WireInv, At, Owning, Reading
<1>5. OwnRows
  BY <1>1, <1>2 DEF OwnRows
<1> QED BY <1>3, <1>4, <1>5, <1>6 DEF IInv

\* A step of call c that leaves it as r keeps the invariant, if r is consistent
\* with the guard and the response, and no other call is disturbed.
LEMMA CallStep ==
  ASSUME IInv, NEW c \in Calls, NEW r,
         call' = [call EXCEPT ![c] = r], Shaped(r), r.of \in {None, c}, DataOk(r),
         r.at \in Owning <=> holder' = c,
         \A d \in Calls \ {c} : holder' = d <=> holder = d,
         r.at \in Reading => ShapedWire(wire') /\ wire'.by = c /\ wire'.req = r.req,
         wire' = wire \/ At(c) \in Owning
  PROVE  IInv'
<1>1. /\ call' = [d \in Calls |-> call'[d]]
      /\ call'[c] = r
      /\ \A d \in Calls \ {c} : call'[d] = call[d]
  BY DEF IInv, ShapeInv
<1>2. ShapeInv'
  BY <1>1 DEF IInv, ShapeInv
<1>3. HolderInv'
  BY <1>1 DEF IInv, HolderInv, At
<1>4. WireInv'
  <2> SUFFICES ASSUME NEW d \in Calls, At(d)' \in Reading
               PROVE  ShapedWire(wire') /\ wire'.by = d /\ wire'.req = Req(d)'
    BY DEF WireInv
  <2>1. CASE d = c
    BY <2>1, <1>1 DEF At, Req
  <2>2. CASE d # c
    <3>1. At(d) \in Reading /\ ShapedWire(wire) /\ wire.by = d /\ wire.req = Req(d)'
      BY <2>2, <1>1 DEF At, Req, IInv, WireInv
    <3>2. At(c) \notin Owning
      BY <3>1, <2>2 DEF IInv, HolderInv, Owning, Reading
    <3> QED BY <3>1, <3>2
  <2> QED BY <2>1, <2>2
<1>5. OwnRows'
  BY <1>1 DEF IInv, OwnRows
<1>6. DataInv'
  BY <1>1 DEF IInv, DataInv
<1> QED BY <1>2, <1>3, <1>4, <1>5, <1>6 DEF IInv

\* A step that leaves calls and guard alone and, of a response, only changes its
\* state keeps the invariant.
LEMMA WireStep ==
  ASSUME IInv, UNCHANGED <<holder, call>>,
         ShapedWire(wire) => ShapedWire(wire') /\ wire'.by = wire.by /\ wire'.req = wire.req
  PROVE  IInv'
BY DEF IInv, ShapeInv, HolderInv, WireInv, OwnRows, DataInv, At, Req

\* Giving up, which releases the guard unless only the count failed.
LEMMA FailsStep ==
  ASSUME IInv, NEW c \in Calls, At(c) \in Owning, Fails(c), wire' = wire \/ wire' = None
  PROVE  IInv'
<1> USE DEF Owning, Reading
<1>1. Shaped(call[c]) /\ call[c].of \in {None, c} /\ holder = c /\ DataOk(call[c])
  BY DEF IInv, ShapeInv, OwnRows, HolderInv, DataInv
<1>2. None # c /\ \A d \in Calls \ {c} : holder # d /\ None # d
  BY <1>1, TdsAssumption
<1>3. CASE At(c) \in {"count", "counting"}
  <2> DEFINE r == [call[c] EXCEPT !.at = "ask"]
  <2>1. call' = [call EXCEPT ![c] = r] /\ holder' = holder
    BY <1>3 DEF Fails
  <2>2. /\ Shaped(r) /\ r.of = call[c].of /\ r.at = "ask"
        /\ r.req = call[c].req /\ r.out = call[c].out /\ r.answer = call[c].answer
        /\ r.counted = call[c].counted
    BY <1>1 DEF Shaped
  <2> HIDE DEF r
  <2>3. DataOk(r)
    BY <1>1, <1>3, <2>2, MovesOk DEF At
  <2> QED BY <1>1, <1>2, <2>1, <2>2, <2>3, CallStep
<1>4. CASE At(c) \notin {"count", "counting"}
  <2> DEFINE r == Failed(c)
  <2>1. call' = [call EXCEPT ![c] = r] /\ holder' = None
    BY <1>4 DEF Fails
  <2>2. Shaped(r) /\ r.of = call[c].of /\ r.at = "done" /\ DataOk(r)
    <3> DEFINE answer == CASE Streams(c) -> [status |-> "none"]
                           [] Req(c).kind = "list" -> Items(0)
                           [] OTHER -> [status |-> "error"]
               out == IF Streams(c) THEN Sent(c, ErrorEvent) ELSE call[c].out
    <3>1. r = [call[c] EXCEPT !.at = "done", !.answer = answer, !.out = out]
      BY DEF Failed
    <3>2. answer.status # "success"
      BY DEF Items
    <3>3. out \in Seq(EventSet)
      <4>1. ErrorEvent \in EventSet
        BY DEF ErrorEvent, EventSet
      <4>2. call[c].out \in Seq(EventSet)
        BY <1>1 DEF DataOk, StreamOk
      <4> QED BY <4>1, <4>2 DEF Sent
    <3> HIDE DEF r, answer, out
    <3>4. /\ Shaped(r) /\ r.of = call[c].of /\ r.at = "done" /\ r.answer = answer /\ r.out = out
          /\ r.req = call[c].req /\ r.counted = call[c].counted
      BY <1>1, <3>1 DEF Shaped
    <3>5. call[c].at # "idle"
      BY DEF At
    <3> QED BY <1>1, <3>2, <3>3, <3>4, <3>5 DEF DataOk, PageOk, StreamOk
  <2> HIDE DEF r
  <2> QED BY <1>1, <1>2, <2>1, <2>2, CallStep
<1> QED BY <1>3, <1>4

\* Every step of a task that waits for the connection or has it.
LEMMA LockedIInv ==
  ASSUME IInv, NEW c \in Calls, Locked(c)
  PROVE  IInv'
<1> USE DEF Owning, Reading
<1>1. Shaped(call[c]) /\ call[c].of \in {None, c} /\ DataOk(call[c])
  BY DEF IInv, ShapeInv, OwnRows, DataInv
<1>2. (At(c) \in Owning <=> holder = c) /\ None # c /\ \A d \in Calls : None # d
  BY TdsAssumption DEF IInv, HolderInv
<1>3. At(c) \in Reading => ShapedWire(wire) /\ wire.by = c /\ wire.req = Req(c)
  BY DEF IInv, WireInv
<1>4. CASE Lock(c)
  <2> DEFINE at == IF Req(c).kind = "query" /\ Req(c).total /\ Req(c).shape # "other"
                   THEN "count" ELSE "ask"
             r == [call[c] EXCEPT !.at = at]
  <2>1. call' = [call EXCEPT ![c] = r] /\ holder = None /\ holder' = c /\ wire' = wire
    BY <1>4 DEF Lock
  <2>2. at \in {"count", "ask"}
    OBVIOUS
  <2> HIDE DEF at
  <2>3. /\ Shaped(r) /\ r.of = call[c].of /\ r.at \in {"count", "ask"}
        /\ r.req = call[c].req /\ r.out = call[c].out /\ r.answer = call[c].answer
        /\ r.counted = call[c].counted
    BY <1>1, <2>2 DEF Shaped
  <2> HIDE DEF r
  <2>4. DataOk(r)
    BY <1>1, <1>4, <2>3, MovesOk DEF Lock, At
  <2> QED BY <1>1, <1>2, <2>1, <2>3, <2>4, CallStep
<1>5. CASE Send(c)
  <2> DEFINE at == IF At(c) = "count" THEN "counting" ELSE "asked"
             r == [call[c] EXCEPT !.at = at]
  <2>1. call' = [call EXCEPT ![c] = r] /\ holder' = holder /\ At(c) \in Owning
    BY <1>5 DEF Send, At
  <2>2. wire' = [by |-> c, req |-> Req(c), state |-> "running", muted |-> FALSE]
    BY <1>5 DEF Send
  <2>3. ShapedWire(wire') /\ wire'.by = c /\ wire'.req = call[c].req
    BY <2>2 DEF ShapedWire, Req
  <2>4. /\ Shaped(r) /\ r.of = call[c].of /\ r.at \in {"counting", "asked"}
        /\ r.req = call[c].req /\ r.out = call[c].out /\ r.answer = call[c].answer
        /\ r.counted = call[c].counted
    BY <1>1 DEF Shaped
  <2> HIDE DEF r, at
  <2>5. DataOk(r)
    BY <1>1, <2>1, <2>4, MovesOk DEF At
  <2> QED BY <1>1, <1>2, <2>1, <2>2, <2>3, <2>4, <2>5, CallStep
<1>6. CASE SendFails(c) \/ Timeout(c) \/ AnswerFails(c)
  <2>1. At(c) \in Owning /\ Fails(c) /\ (wire' = wire \/ wire' = None)
    BY <1>6 DEF SendFails, Timeout, AnswerFails
  <2> QED BY <2>1, FailsStep
<1>7. CASE GetTdsTotalCount(c)
  <2> DEFINE n == IF wire.muted THEN None ELSE wire.req.matching
             r == [call[c] EXCEPT !.at = "ask", !.counted = n]
  <2>1. call' = [call EXCEPT ![c] = r] /\ holder' = holder /\ wire' = None /\ At(c) \in Owning
    BY <1>7 DEF GetTdsTotalCount
  <2> HIDE DEF n
  <2>2. /\ Shaped(r) /\ r.of = call[c].of /\ r.at = "ask"
        /\ r.req = call[c].req /\ r.out = call[c].out /\ r.answer = call[c].answer
        /\ r.counted = n
    <3>1. r = [call[c] EXCEPT !.at = "ask", !.counted = n]
      OBVIOUS
    <3> HIDE DEF r
    <3> QED BY <1>1, <3>1 DEF Shaped
  <2>3. n \in {None, call[c].req.matching} /\ call[c].at = "counting"
    BY <1>3, <1>7 DEF n, GetTdsTotalCount, At, Req
  <2> HIDE DEF r
  <2>4. DataOk(r)
    BY <1>1, <2>2, <2>3, MovesOk
  <2> QED BY <1>1, <1>2, <2>1, <2>2, <2>4, CallStep
<1>8. CASE Answered(c)
  <2> DEFINE r == [call[c] EXCEPT !.at = "collect"]
  <2>1. /\ call' = [call EXCEPT ![c] = r] /\ holder' = holder /\ wire' = wire
        /\ At(c) = "asked"
    BY <1>8 DEF Answered
  <2>2. /\ Shaped(r) /\ r.of = call[c].of /\ r.at = "collect"
        /\ r.req = call[c].req /\ r.out = call[c].out /\ r.answer = call[c].answer
        /\ r.counted = call[c].counted
    BY <1>1 DEF Shaped
  <2> HIDE DEF r
  <2>3. DataOk(r)
    BY <1>1, <2>1, <2>2, MovesOk DEF At
  <2>4. ShapedWire(wire') /\ wire'.by = c /\ wire'.req = r.req
    BY <1>3, <2>1, <2>2 DEF Req
  <2> QED BY <1>1, <1>2, <2>1, <2>2, <2>3, <2>4, CallStep
<1>9. LET f == FirstResult(c) IN
      /\ Shaped(f) /\ f.of = wire.by /\ f.muted = wire.muted
      /\ f.rows = IF wire.muted THEN 0 ELSE Returned(wire.req)
      /\ f.req = call[c].req /\ f.out = call[c].out /\ f.answer = call[c].answer
      /\ f.counted = call[c].counted
  <2> DEFINE n == IF wire.muted THEN 0 ELSE Returned(wire.req)
  <2>1. FirstResult(c) = [call[c] EXCEPT !.of = wire.by, !.rows = n, !.muted = wire.muted]
    BY DEF FirstResult
  <2> DEFINE f == FirstResult(c)
  <2> HIDE DEF n, f
  <2>2. f = [call[c] EXCEPT !.of = wire.by, !.rows = n, !.muted = wire.muted]
    BY <2>1 DEF f
  <2>3. /\ Shaped(f) /\ f.of = wire.by /\ f.muted = wire.muted /\ f.rows = n
        /\ f.req = call[c].req /\ f.out = call[c].out /\ f.answer = call[c].answer
        /\ f.counted = call[c].counted
    BY <1>1, <2>2 DEF Shaped
  <2> QED BY <2>3 DEF n, f
<1>10. CASE ExecuteTdsQuery(c)
  <2> DEFINE f == FirstResult(c)
             answer == Answer(c, f.rows)
             r == [f EXCEPT !.at = "done", !.answer = answer]
  <2>1. /\ call' = [call EXCEPT ![c] = r] /\ holder' = None /\ wire' = None
        /\ At(c) = "collect"
    BY <1>10 DEF ExecuteTdsQuery
  <2>2. /\ Shaped(f) /\ f.of = c /\ f.req = call[c].req /\ f.out = call[c].out
        /\ f.counted = call[c].counted
        /\ ~f.muted => f.rows = Returned(f.req)
    BY <1>3, <1>9, <2>1 DEF Req
  <2>4. /\ call[c].req \in Requests /\ call[c].out \in Seq(EventSet)
        /\ call[c].counted = None \/ call[c].counted = call[c].req.matching
    BY <1>1, <2>1 DEF DataOk, PageOk, StreamOk, At
  <2>5. answer.status = "success" =>
          /\ answer.rows = f.rows /\ answer.total = call[c].counted
          /\ answer.has_more = HasMore(call[c].req, f.rows)
    <3>1. Req(c).kind \in {"query", "list", "dry_run", "test"}
      BY <1>10, <2>4, TdsAssumption DEF ExecuteTdsQuery, Streams, Req
    <3> HIDE DEF f
    <3> QED BY <3>1 DEF Answer, Items, Req
  <2> HIDE DEF f, answer
  <2>3. /\ Shaped(r) /\ r.of = c /\ r.at = "done" /\ r.answer = answer
        /\ r.req = f.req /\ r.out = f.out /\ r.counted = f.counted
        /\ r.rows = f.rows /\ r.muted = f.muted
    <3>1. r = [f EXCEPT !.at = "done", !.answer = answer]
      OBVIOUS
    <3> HIDE DEF r
    <3> QED BY <2>2, <3>1 DEF Shaped
  <2> HIDE DEF r
  <2>6. DataOk(r)
    BY <2>2, <2>3, <2>4, <2>5 DEF DataOk, PageOk, StreamOk
  <2> QED BY <1>1, <1>2, <2>1, <2>3, <2>6, CallStep
<1>11. CASE CollectStream(c)
  <2> DEFINE f == FirstResult(c)
             r == [f EXCEPT !.at = "emit"]
  <2>1. /\ call' = [call EXCEPT ![c] = r] /\ holder' = None /\ wire' = None
        /\ At(c) = "collect"
    BY <1>11 DEF CollectStream
  <2>2. /\ call[c].req \in Requests /\ call[c].out = <<>> /\ call[c].answer.status # "success"
        /\ call[c].counted = None \/ call[c].counted = call[c].req.matching
    BY <1>1, <2>1 DEF DataOk, PageOk, StreamOk, At
  <2>3. /\ Shaped(f) /\ f.of = c /\ f.req = call[c].req /\ f.out = call[c].out
        /\ f.counted = call[c].counted /\ f.answer = call[c].answer
        /\ ~f.muted => f.rows = Returned(f.req)
        /\ f.rows \in Nat
    BY <1>3, <1>9, <2>1, <2>2, ReturnedIsNat DEF Req
  <2> HIDE DEF f
  <2>4. /\ Shaped(r) /\ r.of = c /\ r.at = "emit" /\ r.answer = f.answer
        /\ r.req = f.req /\ r.out = f.out /\ r.counted = f.counted
        /\ r.rows = f.rows /\ r.muted = f.muted
    BY <2>3 DEF Shaped
  <2> HIDE DEF r
  <2>5. <<>> \in Seq(EventSet)
    OBVIOUS
  <2>6. DataOk(r)
    BY <2>2, <2>3, <2>4, <2>5 DEF DataOk, PageOk, StreamOk
  <2> QED BY <1>1, <1>2, <2>1, <2>4, <2>6, CallStep
<1> QED BY <1>4, <1>5, <1>6, <1>7, <1>8, <1>10, <1>11 DEF Locked

\* Every other step of a call: its start, its events and its end.
LEMMA CallerIInv ==
  ASSUME IInv, NEW c \in Calls,
         Start(c) \/ ExecuteTdsStreamArrow(c) \/ Abort(c) \/ DropStream(c)
  PROVE  IInv'
<1> USE DEF Owning, Reading
<1>1. Shaped(call[c]) /\ call[c].of \in {None, c} /\ DataOk(call[c])
  BY DEF IInv, ShapeInv, OwnRows, DataInv
<1>2. (At(c) \in Owning <=> holder = c) /\ None # c /\ \A d \in Calls : None # d
  BY TdsAssumption DEF IInv, HolderInv
<1>3. At(c) \in Reading => ShapedWire(wire) /\ wire.by = c /\ wire.req = Req(c)
  BY DEF IInv, WireInv
<1>4. CASE Start(c)
  <2>1. PICK q \in Requests : call' = [call EXCEPT ![c] = [Idle EXCEPT !.at = "queued", !.req = q]]
    BY <1>4 DEF Start
  <2> DEFINE r == [Idle EXCEPT !.at = "queued", !.req = q]
  <2>2. At(c) \notin Owning /\ holder' = holder /\ wire' = wire
    BY <1>4 DEF Start
  <2>3. Shaped(r) /\ r.of = None /\ r.at = "queued"
    <3>1. r = [Idle EXCEPT !.at = "queued", !.req = q]
      OBVIOUS
    <3> HIDE DEF r
    <3> QED BY <3>1 DEF Shaped, Idle
  <2>5. DataOk(r)
    BY IdleOk
  <2> HIDE DEF r
  <2>4. call' = [call EXCEPT ![c] = r]
    BY <2>1 DEF r
  <2> QED BY <1>1, <1>2, <2>2, <2>3, <2>4, <2>5, CallStep
<1>5. CASE ExecuteTdsStreamArrow(c)
  <2>1. PICK e \in {NextEvent(c), ErrorEvent} :
          call' = [call EXCEPT ![c].out = Sent(c, e),
                               ![c].at = IF @ = "emit" /\ call[c].rx = "open" /\ e.type \in {"schema", "batch"}
                                         THEN "emit" ELSE "done"]
    BY <1>5 DEF ExecuteTdsStreamArrow
  <2> DEFINE out == Sent(c, e)
             goesOn == call[c].rx = "open" /\ e.type \in {"schema", "batch"}
             at == IF goesOn THEN "emit" ELSE "done"
             r == [call[c] EXCEPT !.out = out, !.at = at]
  <2>2. At(c) = "emit" /\ holder' = holder /\ wire' = wire
    BY <1>5 DEF ExecuteTdsStreamArrow
  <2>3. call[c].at = "emit"
    BY <2>2 DEF At
  <2> HIDE DEF out
  <2>4. /\ Shaped(r) /\ r.of = call[c].of /\ r.at = at /\ r.out = out
        /\ r.req = call[c].req /\ r.answer = call[c].answer
        /\ r.counted = call[c].counted /\ r.rows = call[c].rows /\ r.muted = call[c].muted
    <3>1. r = [call[c] EXCEPT !.out = out, !.at = at]
      OBVIOUS
    <3> HIDE DEF r
    <3> QED BY <1>1, <3>1 DEF Shaped
  <2>5. call' = [call EXCEPT ![c] = r]
    BY <1>1, <2>1, <2>3 DEF out, Shaped, IInv, ShapeInv
  <2> HIDE DEF r
  <2>6. DataOk(r)
    <3> DEFINE o == call[c].out
    <3>1. /\ o \in Seq(EventSet) /\ call[c].rows \in Nat
          /\ e \in EventSet
          /\ e.type = "batch" => e.last \in Nat /\ e.last <= call[c].rows
      BY <1>1, <2>2, NextEventIs DEF ErrorEvent, EventSet
    <3>2. out \in Seq(EventSet) /\ (goesOn => out # <<>> /\ LastOf(out) = e)
      BY <3>1 DEF out, Sent, LastOf
    <3>3. PageOk(r)
      BY <1>1, <2>3, <2>4 DEF DataOk, PageOk
    <3>4. StreamOk(r)
      BY <1>1, <2>3, <2>4, <3>1, <3>2 DEF DataOk, StreamOk
    <3> QED BY <3>3, <3>4 DEF DataOk
  <2> QED BY <1>1, <1>2, <2>2, <2>4, <2>5, <2>6, CallStep
<1>6. CASE Abort(c)
  <2> DEFINE r == [Idle EXCEPT !.at = "gone", !.req = Req(c)]
  <2>1. call' = [call EXCEPT ![c] = r] /\ wire' = wire
    BY <1>6 DEF Abort
  <2>2. holder' = IF holder = c THEN None ELSE holder
    BY <1>6 DEF Abort
  <2>4. DataOk(r)
    <3>1. Req(c) \in Requests
      BY <1>1, <1>6 DEF Abort, At, Req, DataOk, PageOk
    <3> QED BY <3>1, IdleOk
  <2>3. Shaped(r) /\ r.of = None /\ r.at = "gone"
    <3>1. r = [Idle EXCEPT !.at = "gone", !.req = Req(c)]
      OBVIOUS
    <3> HIDE DEF r
    <3> QED BY <3>1 DEF Shaped, Idle
  <2> HIDE DEF r
  <2> QED BY <1>1, <1>2, <2>1, <2>2, <2>3, <2>4, CallStep
<1>7. CASE DropStream(c)
  <2> DEFINE r == [call[c] EXCEPT !.rx = "dropped"]
  <2>1. call' = [call EXCEPT ![c] = r] /\ wire' = wire /\ holder' = holder
    BY <1>7 DEF DropStream
  <2>2. /\ Shaped(r) /\ r.of = call[c].of /\ r.at = At(c)
        /\ r.req = call[c].req /\ r.out = call[c].out /\ r.answer = call[c].answer
        /\ r.counted = call[c].counted /\ r.rows = call[c].rows /\ r.muted = call[c].muted
    BY <1>1 DEF Shaped, At
  <2> HIDE DEF r
  <2>3. DataOk(r)
    BY <1>1, <2>2 DEF DataOk, PageOk, StreamOk, At
  <2> QED BY <1>1, <1>2, <1>3, <2>1, <2>2, <2>3, CallStep DEF Req
<1> QED BY <1>4, <1>5, <1>6, <1>7

\* The steps of new, of the server and of the connection.
LEMMA OutsideIInv ==
  ASSUME IInv, New \/ ServerStarts \/ ServerEnds \/ ConnectionLost \/ UNCHANGED vars
  PROVE  IInv'
<1>1. CASE New \/ UNCHANGED vars
  <2>1. UNCHANGED <<holder, call, wire>>
    BY <1>1 DEF New, Authenticate, OpenTunnel, Dial, Handshake, Becomes, vars
  <2> QED BY <2>1, WireStep
<1>2. CASE ServerStarts
  BY <1>2, WireStep DEF ServerStarts, ShapedWire
<1>3. CASE ServerEnds
  <2>1. PICK s \in {"ready", "failed"} : wire' = [wire EXCEPT !.state = s, !.muted = noexec]
    BY <1>3 DEF ServerEnds
  <2> QED BY <1>3, <2>1, WireStep DEF ServerEnds, ShapedWire
<1>4. CASE ConnectionLost
  BY <1>4, WireStep DEF ConnectionLost, ShapedWire
<1> QED BY <1>1, <1>2, <1>3, <1>4

\* IInv holds in every reachable state.
LEMMA Invariance == Spec => []IInv
<1>1. IInv /\ [Next]_vars => IInv'
  <2> SUFFICES ASSUME IInv, [Next]_vars PROVE IInv'
    OBVIOUS
  <2> QED BY LockedIInv, CallerIInv, OutsideIInv DEF Next
<1> QED BY <1>1, InitIInv, PTL DEF Spec

-----------------------------------------------------------------------------
\* Whatever times out or is aborted, and in whichever order the calls take the
\* Mutex of sqlserver.rs, no call takes an answer to another one for its own.
THEOREM OwnRowsTheorem == Spec => []OwnRows
<1>1. IInv => OwnRows
  BY DEF IInv
<1> QED BY <1>1, Invariance, PTL

\* A page that ends within the 32 bits of a row number: what is returned for it,
\* and that a page which is not full is the last one.
LEMMA PageFacts ==
  ASSUME NEW q \in Requests, q.shape \in {"plain", "ordered"}, q.offset + EffectiveLimit(q) < U32
  PROVE  LET end == q.offset + EffectiveLimit(q) IN
         /\ Returned(q) = Between(q.matching, q.offset, end)
         /\ ~HasMore(q, Returned(q)) => q.matching <= end
<1> DEFINE l == EffectiveLimit(q)
           end == q.offset + l
<1>1. l \in Nat /\ q.offset \in Nat /\ q.matching \in Nat /\ U32 \in Nat \ {0}
  BY TdsAssumption, ReturnedIsNat
<1> HIDE DEF l
<1>2. end \in Nat /\ end < U32
  BY <1>1 DEF l
<1>3. end % U32 = end
  BY <1>1, <1>2, ModSmall
<1>4. Returned(q) = Between(q.matching, q.offset, end)
  BY <1>3 DEF Returned, ApplyTsqlPagination, l
<1>5. ASSUME end < q.matching PROVE Between(q.matching, q.offset, end) = l
  BY <1>1, <1>5 DEF Between
<1>6. ~HasMore(q, Returned(q)) => ~(end < q.matching)
  BY <1>4, <1>5 DEF HasMore, l
<1> QED BY <1>1, <1>2, <1>4, <1>6 DEF l

\* A query of sqlserver.rs or synapse.rs that succeeds has exactly the page that
\* was asked for, says so if rows are left, and counts every row or none.
THEOREM PageIsExactHolds == Spec => []PageIsExact
<1>1. ASSUME IInv PROVE PageIsExact
  <2> SUFFICES ASSUME NEW c \in Calls, call[c].answer.status = "success", ~call[c].muted,
                      Req(c).shape \in {"plain", "ordered"},
                      Req(c).offset + EffectiveLimit(Req(c)) < U32
               PROVE  LET q == Req(c)
                          a == call[c].answer
                          end == q.offset + EffectiveLimit(q)
                      IN /\ a.rows = Between(q.matching, q.offset, end)
                         /\ ~a.has_more => q.matching <= end
                         /\ a.total \in {None, q.matching}
    BY DEF PageIsExact
  <2>1. PageOk(call[c])
    BY <1>1 DEF IInv, DataInv, DataOk
  <2>2. /\ Req(c) \in Requests /\ call[c].answer.rows = Returned(Req(c))
        /\ call[c].answer.has_more = HasMore(Req(c), Returned(Req(c)))
        /\ call[c].answer.total \in {None, Req(c).matching}
    BY <2>1 DEF PageOk, Req
  <2> QED BY <2>2, PageFacts
<1> QED BY <1>1, Invariance, PTL

\* Of the steps at the connection only a failure sends something.
LEMMA LockedSends ==
  ASSUME IInv, NEW d \in Calls, Locked(d)
  PROVE  \/ \A c \in Calls : call'[c].out = call[c].out
         \/ At(d) \in Owning /\ call' = [call EXCEPT ![d] = Failed(d)]
<1>1. call = [c \in Calls |-> call[c]] /\ Shaped(call[d])
  BY DEF IInv, ShapeInv
<1>2. ASSUME NEW r, r.out = call[d].out, call' = [call EXCEPT ![d] = r]
      PROVE  \A c \in Calls : call'[c].out = call[c].out
  BY <1>1, <1>2
<1>3. \A at : [call[d] EXCEPT !.at = at].out = call[d].out
  BY <1>1 DEF Shaped
<1>4. CASE Lock(d) \/ Send(d) \/ Answered(d)
  <2>1. \E at : call' = [call EXCEPT ![d] = [call[d] EXCEPT !.at = at]]
    BY <1>4 DEF Lock, Send, Answered
  <2> QED BY <1>2, <1>3, <2>1
<1>5. CASE SendFails(d) \/ Timeout(d) \/ AnswerFails(d)
  <2>1. Fails(d) /\ At(d) \in Owning
    BY <1>5 DEF SendFails, Timeout, AnswerFails, Owning
  <2>2. CASE At(d) \in {"count", "counting"}
    <3>1. call' = [call EXCEPT ![d] = [call[d] EXCEPT !.at = "ask"]]
      BY <2>1, <2>2 DEF Fails
    <3> QED BY <1>2, <1>3, <3>1
  <2>3. CASE At(d) \notin {"count", "counting"}
    BY <2>1, <2>3 DEF Fails
  <2> QED BY <2>2, <2>3
<1>6. CASE GetTdsTotalCount(d)
  <2> DEFINE n == IF wire.muted THEN None ELSE wire.req.matching
             r == [call[d] EXCEPT !.at = "ask", !.counted = n]
  <2>1. call' = [call EXCEPT ![d] = r]
    BY <1>6 DEF GetTdsTotalCount
  <2> HIDE DEF n
  <2>2. r.out = call[d].out
    <3>1. r = [call[d] EXCEPT !.at = "ask", !.counted = n]
      OBVIOUS
    <3> HIDE DEF r
    <3> QED BY <1>1, <3>1 DEF Shaped
  <2> HIDE DEF r
  <2> QED BY <1>2, <2>1, <2>2
<1>7. Shaped(FirstResult(d)) /\ FirstResult(d).out = call[d].out
  <2> DEFINE n == IF wire.muted THEN 0 ELSE Returned(wire.req)
             f == FirstResult(d)
  <2>1. f = [call[d] EXCEPT !.of = wire.by, !.rows = n, !.muted = wire.muted]
    BY DEF FirstResult
  <2> HIDE DEF n, f
  <2>2. Shaped(f) /\ f.out = call[d].out
    BY <1>1, <2>1 DEF Shaped
  <2> QED BY <2>2 DEF f
<1>8. CASE ExecuteTdsQuery(d) \/ CollectStream(d)
  <2> DEFINE f == FirstResult(d)
             answer == Answer(d, f.rows)
  <2>1. \/ call' = [call EXCEPT ![d] = [f EXCEPT !.at = "done", !.answer = answer]]
        \/ call' = [call EXCEPT ![d] = [f EXCEPT !.at = "emit"]]
    BY <1>8 DEF ExecuteTdsQuery, CollectStream
  <2> HIDE DEF f, answer
  <2>2. Shaped(f) /\ f.out = call[d].out
    BY <1>7 DEF f
  <2>3. ASSUME NEW r, r = [f EXCEPT !.at = "done", !.answer = answer] \/ r = [f EXCEPT !.at = "emit"]
        PROVE  r.out = call[d].out
    BY <2>2, <2>3 DEF Shaped
  <2> QED BY <1>2, <2>1, <2>3
<1> QED BY <1>4, <1>5, <1>6, <1>8 DEF Locked

\* What execute_tds_stream_arrow sends, and every error in place of it, is a step
\* that ResultStream allows.
THEOREM StreamContractHolds == Spec => StreamContract
<1>1. ASSUME IInv, Next, NEW c \in Calls, call'[c].out # call[c].out
      PROVE  Contract(c)!Next
  <2> DEFINE o == call[c].out
             open == call[c].rx = "open"
  <2>0. /\ call = [d \in Calls |-> call[d]] /\ Shaped(call[c])
        /\ DataOk(call[c]) /\ o \in Seq(EventSet)
    BY <1>1 DEF IInv, ShapeInv, DataInv, DataOk, StreamOk
  <2>1. CASE call'[c].out = <<>>
    BY <2>1 DEF Contract!Next, Contract!Reset
  <2>2. CASE /\ o = <<>> /\ call'[c].out = Append(o, ErrorEvent)
             /\ call'[c].muted = call[c].muted
    <3>1. CASE call[c].muted
      BY <2>2, <3>1 DEF Contract!Next, Contract!Reset
    <3>2. CASE ~call[c].muted
      BY <2>2, <3>2 DEF Contract!Next, Contract!Fail, Contract!Open, ErrorEvent
    <3> QED BY <3>1, <3>2
  <2>3. ASSUME ExecuteTdsStreamArrow(c) PROVE Contract(c)!Next
    <3>1. PICK e \in {NextEvent(c), ErrorEvent} :
            /\ call'[c].out = Sent(c, e)
            /\ call'[c].muted = call[c].muted
      BY <2>0, <2>3 DEF ExecuteTdsStreamArrow, Shaped
    <3>2. call'[c].out = Append(o, e)
      BY <1>1, <3>1 DEF Sent
    <3>3. CASE call[c].muted
      BY <3>1, <3>3 DEF Contract!Next, Contract!Reset
    <3>4. CASE ~call[c].muted
      <4>1. At(c) = "emit"
        BY <2>3 DEF ExecuteTdsStreamArrow
      <4>2. Req(c) \in Requests /\ Req(c) # None /\ call[c].rows = Returned(Req(c))
        BY <2>0, <3>4, <4>1, TdsAssumption DEF DataOk, PageOk, StreamOk, At, Req
      <4>3. Contract(c)!Open
        BY <2>0, <3>4, <4>1 DEF DataOk, StreamOk, LastOf, At, Contract!Open, Contract!Last
      <4>4. o # <<>> => Contract(c)!LastRow = RowsSent(c)
        BY <3>4 DEF RowsSent, Contract!LastRow, Contract!Last
      <4>5. CASE e = ErrorEvent
        BY <3>2, <3>4, <3>1, <4>3, <4>5 DEF Contract!Next, Contract!Fail, ErrorEvent
      <4>6. CASE o = <<>> /\ e = [type |-> "schema"]
        <5>1. call'[c].out = <<[type |-> "schema"]>>
          BY <3>2, <4>6
        <5> QED BY <3>1, <3>4, <4>6, <5>1 DEF Contract!Next, Contract!Schema
      <4>7. ASSUME o # <<>>, NEW m \in Nat, RowsSent(c) < m, m <= call[c].rows, RowsSent(c) \in Nat,
                   e = [type |-> "batch", chunk_index |-> Len(o) - 1, first |-> RowsSent(c) + 1, last |-> m]
            PROVE  Contract(c)!Next
        <5> DEFINE n == RowsSent(c)
                   d == m - n
        <5>1. d \in 0..(call[c].rows - n) /\ m = n + d
          BY <4>7, <2>0, <4>2, ReturnedIsNat
        <5> HIDE DEF n, d
        <5>2. Contract(c)!Batch
          BY <3>1, <3>2, <3>4, <4>2, <4>3, <4>4, <4>7, <5>1 DEF Contract!Batch, n
        <5> QED BY <5>2 DEF Contract!Next
      <4>8. CASE /\ o # <<>> /\ RowsSent(c) = call[c].rows
                 /\ e = [type |-> "complete", total_chunks |-> Len(o) - 1, total_rows |-> call[c].rows]
        <5>1. Contract(c)!Complete
          BY <3>1, <3>2, <3>4, <4>2, <4>3, <4>4, <4>8 DEF Contract!Complete
        <5> QED BY <5>1 DEF Contract!Next
      <4> QED BY <2>0, <3>1, <4>1, <4>5, <4>6, <4>7, <4>8, NextEventIs
    <3> QED BY <3>3, <3>4
  <2>4. ASSUME NEW d \in Calls, NEW r, call' = [call EXCEPT ![d] = r]
        PROVE  d = c /\ call'[c] = r
    BY <1>1, <2>0, <2>4
  <2>5. ASSUME NEW d \in Calls, Locked(d) PROVE Contract(c)!Next
    <3>1. At(d) \in Owning /\ call' = [call EXCEPT ![d] = Failed(d)]
      BY <1>1, <2>5, LockedSends
    <3>2. d = c /\ call'[c] = Failed(c) /\ At(c) \in Owning
      BY <2>4, <3>1
    <3>3. o = <<>>
      BY <2>0, <3>2 DEF DataOk, StreamOk, At, Owning
    <3> DEFINE answer == CASE Streams(c) -> [status |-> "none"]
                           [] Req(c).kind = "list" -> Items(0)
                           [] OTHER -> [status |-> "error"]
               out == IF Streams(c) THEN Sent(c, ErrorEvent) ELSE o
               v == call'[c]
    <3>4. v = [call[c] EXCEPT !.at = "done", !.answer = answer, !.out = out]
      BY <3>2 DEF Failed
    <3> HIDE DEF v, answer, out
    <3>5. v.out = out /\ v.muted = call[c].muted
      BY <2>0, <3>4 DEF Shaped
    <3>6. out # o => out = Append(o, ErrorEvent)
      BY DEF out, Sent
    <3> QED BY <1>1, <2>2, <3>3, <3>5, <3>6 DEF v
  <2>6. ASSUME NEW d \in Calls, Start(d) \/ Abort(d) \/ DropStream(d) PROVE Contract(c)!Next
    <3>1. CASE Start(d)
      <4>1. PICK q \in Requests : call' = [call EXCEPT ![d] = [Idle EXCEPT !.at = "queued", !.req = q]]
        BY <3>1 DEF Start
      <4> DEFINE v == [Idle EXCEPT !.at = "queued", !.req = q]
      <4>2. v.out = <<>>
        BY DEF Idle
      <4> HIDE DEF v
      <4>3. call'[c] = v
        BY <2>4, <4>1 DEF v
      <4> QED BY <2>1, <4>2, <4>3
    <3>2. CASE Abort(d)
      <4> DEFINE v == [Idle EXCEPT !.at = "gone", !.req = Req(d)]
      <4>1. v.out = <<>>
        BY DEF Idle
      <4> HIDE DEF v
      <4>2. call'[c] = v
        BY <2>4, <3>2 DEF Abort, v
      <4> QED BY <2>1, <4>1, <4>2
    <3>3. CASE DropStream(d)
      <4>1. call' = [call EXCEPT ![d] = [call[d] EXCEPT !.rx = "dropped"]]
        BY <3>3 DEF DropStream
      <4>2. call'[c] = [call[c] EXCEPT !.rx = "dropped"]
        BY <2>4, <4>1
      <4> QED BY <1>1, <2>0, <4>2 DEF Shaped
    <3> QED BY <2>6, <3>1, <3>2, <3>3
  <2>7. ASSUME NEW d \in Calls, ExecuteTdsStreamArrow(d) PROVE d = c
    <3>1. CASE d # c
      BY <1>1, <2>0, <2>7, <3>1 DEF ExecuteTdsStreamArrow
    <3> QED BY <3>1
  <2>8. CASE New \/ ServerStarts \/ ServerEnds \/ ConnectionLost
    BY <1>1, <2>8 DEF New, Authenticate, OpenTunnel, Dial, Handshake, Becomes,
                      ServerStarts, ServerEnds, ConnectionLost
  <2> QED BY <1>1, <2>3, <2>5, <2>6, <2>7, <2>8 DEF Next
<1>2. IInv /\ [Next]_vars
        => [\A c \in Calls : Contract(c)!Next \/ UNCHANGED call[c].out]_vars
  BY <1>1
<1> QED BY <1>2, Invariance, PTL DEF Spec, StreamContract
=============================================================================
