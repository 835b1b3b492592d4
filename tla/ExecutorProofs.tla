--------------------------- MODULE ExecutorProofs ---------------------------
(***************************************************************************)
(* What the executor answers a query with, whatever the limits, the chunk  *)
(* size and the capacity of the event channel.  The argument is about one  *)
(* sequence: the events that have been sent followed by the ones the       *)
(* producer is about to send.  Its shape follows from the producer's own   *)
(* counters, and the responses collected are a prefix of it.               *)
(***************************************************************************)
EXTENDS Executor, TLAPS

EventSet ==
  [type : {"schema", "error"}]
    \cup [type : {"batch"}, chunk_index : Nat, first : Nat, last : Nat]
    \cup [type : {"complete"}, total_chunks : Nat, total_rows : Nat]

Stream == events \o outbox

\* Rows of c full batches.
Rows(c) == c * ChunkSize

\* Rows that are in some batch.
Covered == read - builder

TypeInv ==
  /\ query \in Queries
  /\ producer \in {"none", "running", "stopped"}
  /\ read \in Nat /\ builder \in Nat /\ chunk_index \in Nat
  /\ columns_ready \in BOOLEAN /\ returning \in BOOLEAN
  /\ outbox \in Seq(EventSet) /\ events \in Seq(EventSet)
  /\ received \in Nat

\* What the producer has counted.
CountInv ==
  /\ read <= Fetched(query)
  /\ builder < ChunkSize /\ builder <= read
  /\ ~columns_ready => read = 0 /\ chunk_index = 0
  /\ ~returning => Covered = Rows(chunk_index)
  /\ IF chunk_index = 0 THEN Covered = 0
     ELSE Rows(chunk_index - 1) < Covered /\ Covered <= Rows(chunk_index)

\* The shape of the stream.
ShapeInv ==
  /\ Len(Stream) = (IF columns_ready THEN chunk_index + 1 ELSE 0) + (IF returning THEN 1 ELSE 0)
  /\ columns_ready => Stream[1] = SchemaEvent
  /\ \A i \in 2..(chunk_index + 1) :
       Stream[i] = BatchEvent(i - 2, Rows(i - 2) + 1,
                              IF i = chunk_index + 1 THEN Covered ELSE Rows(i - 1))
  /\ returning =>
       \/ Stream[Len(Stream)] = ErrorEvent
       \/ /\ Stream[Len(Stream)] = CompleteEvent(chunk_index, Fetched(query))
          /\ columns_ready /\ builder = 0 /\ read = Fetched(query)

\* At most one batch waits in the outbox, and then the builder is empty.
OutboxInv ==
  /\ chunk_index <= Len(events) \/ (Len(events) = 0 /\ chunk_index = 1)
  /\ builder > 0 => chunk_index + 1 <= Len(events) \/ (Len(events) = 0 /\ chunk_index = 0)

\* What has been received of what has been sent.
ChannelInv ==
  /\ received <= Len(events) /\ Len(events) - received <= ChannelCapacity
  /\ producer = "stopped" /\ rx = "open" => returning /\ outbox = <<>>

\* What has been collected of what has been received.
CollectInv ==
  /\ pc = "start" => rx = "open" /\ received = 0 /\ responses = <<>>
  /\ pc = "collecting" =>
       /\ rx = "open"
       /\ responses \in Seq(EventSet) /\ Len(responses) = received
       /\ \A i \in 1..received : responses[i] = events[i]

StreamInv == TypeInv /\ CountInv /\ ShapeInv /\ OutboxInv /\ ChannelInv
IInv == StreamInv /\ CollectInv /\ OneTerminal /\ CompleteMeansEveryRow

-----------------------------------------------------------------------------
(* Facts about the operators *)

\* Rows of full batches.
LEMMA RowsFacts ==
  /\ Rows(0) = 0 /\ Rows(1) = ChunkSize
  /\ \A c \in Nat : Rows(c) \in Nat /\ Rows(c + 1) = Rows(c) + ChunkSize
  /\ \A c \in Nat \ {0} : c - 1 \in Nat /\ Rows(c) = Rows(c - 1) + ChunkSize
  /\ \A c \in Nat, d \in Nat : c <= d => Rows(d) = Rows(c) + Rows(d - c) /\ Rows(c) <= Rows(d)
<1>1. ChunkSize \in Nat
  BY StreamAssumption
<1>2. \A c \in Nat : Rows(c) \in Nat /\ Rows(c + 1) = Rows(c) + ChunkSize
  BY <1>1 DEF Rows
<1>3. ASSUME NEW c \in Nat, NEW d \in Nat, c <= d
      PROVE  Rows(d) = Rows(c) + Rows(d - c) /\ Rows(c) <= Rows(d)
  <2>1. d - c \in Nat
    BY <1>3
  <2>2. Rows(d) = Rows(c) + Rows(d - c)
    BY <1>1, <2>1 DEF Rows
  <2> QED BY <1>2, <2>1, <2>2
<1>4. Rows(0) = 0 /\ Rows(1) = ChunkSize
  BY <1>1 DEF Rows
<1>5. \A c \in Nat \ {0} : c - 1 \in Nat /\ Rows(c) = Rows(c - 1) + ChunkSize
  BY <1>1 DEF Rows
<1> QED BY <1>2, <1>3, <1>4, <1>5

\* A query returns a number of rows.
LEMMA FetchedIsNat == ASSUME NEW q \in Queries PROVE Fetched(q) \in Nat
BY StreamAssumption DEF Queries, Fetched, EffectiveLimit

\* The elements of a concatenation.
LEMMA Concatenation ==
  ASSUME NEW s \in Seq(EventSet), NEW t \in Seq(EventSet)
  PROVE  /\ s \o t \in Seq(EventSet)
         /\ Len(s \o t) = Len(s) + Len(t)
         /\ \A i \in 1..Len(s) : (s \o t)[i] = s[i]
         /\ \A j \in 1..Len(t) : (s \o t)[Len(s) + j] = t[j]
OBVIOUS

\* Every event belongs to the set of events, and its type tells them apart.
LEMMA EventFacts ==
  /\ SchemaEvent \in EventSet /\ SchemaEvent.type = "schema"
  /\ ErrorEvent \in EventSet /\ ErrorEvent.type = "error"
  /\ \A c, lo, hi \in Nat :
       /\ BatchEvent(c, lo, hi) \in EventSet
       /\ BatchEvent(c, lo, hi).type = "batch" /\ BatchEvent(c, lo, hi).chunk_index = c
       /\ BatchEvent(c, lo, hi).first = lo /\ BatchEvent(c, lo, hi).last = hi
  /\ \A c, n \in Nat :
       CompleteEvent(c, n) \in EventSet /\ CompleteEvent(c, n).type = "complete"
BY DEF SchemaEvent, ErrorEvent, BatchEvent, CompleteEvent, EventSet

-----------------------------------------------------------------------------
(* The producer *)

\* A producer that waits for a row has sent everything: the stream grows by
\* what it puts into its outbox.
LEMMA Emit ==
  ASSUME TypeInv, Waiting, NEW out \in Seq(EventSet), outbox' = out, events' = events
  PROVE  /\ Len(Stream) = Len(events)
         /\ Len(Stream') = Len(Stream) + Len(out)
         /\ \A i \in 1..Len(Stream) : Stream'[i] = Stream[i]
         /\ \A j \in 1..Len(out) : Stream'[Len(Stream) + j] = out[j]
<1>1. outbox = <<>> /\ outbox \in Seq(EventSet) /\ events \in Seq(EventSet)
  BY DEF TypeInv, Waiting
<1>2. /\ Len(Stream) = Len(events)
      /\ \A i \in 1..Len(events) : Stream[i] = events[i]
  BY <1>1, Concatenation DEF Stream
<1>3. /\ Len(Stream') = Len(events) + Len(out)
      /\ \A i \in 1..Len(events) : Stream'[i] = events[i]
      /\ \A j \in 1..Len(out) : Stream'[Len(events) + j] = out[j]
  BY <1>1, Concatenation DEF Stream
<1> QED BY <1>2, <1>3

\* The stream is empty before the producer is spawned.
LEMMA InitStream == Init => StreamInv
<1> SUFFICES ASSUME Init PROVE StreamInv
  OBVIOUS
<1>1. TypeInv
  <2>1. <<>> \in Seq(EventSet)
    OBVIOUS
  <2>2. columns_ready \in BOOLEAN /\ returning \in BOOLEAN
    BY Zenon DEF Init, StreamInit
  <2> QED BY <2>1, <2>2 DEF Init, StreamInit, TypeInv
<1>2. Stream = <<>> /\ Len(Stream) = 0
  BY DEF Init, StreamInit, Stream
<1>3. CountInv
  BY <1>1, RowsFacts, FetchedIsNat, StreamAssumption DEF Init, StreamInit, CountInv, Covered, TypeInv
<1>4. ShapeInv
  BY <1>2 DEF Init, StreamInit, ShapeInv
<1>5. OutboxInv /\ ChannelInv
  BY StreamAssumption DEF Init, StreamInit, OutboxInv, ChannelInv
<1> QED BY <1>1, <1>3, <1>4, <1>5 DEF StreamInv

\* A row arrives: its place in the stream is the next one of its batch.
LEMMA RowArrivesInv == ASSUME StreamInv, RowArrives PROVE StreamInv'
<1> DEFINE full == Full(builder + 1)
           batch == BatchUpTo(read + 1)
           out == IF full THEN Append(SchemaFirst, batch) ELSE SchemaFirst
<1>0. /\ TypeInv /\ CountInv /\ ShapeInv /\ OutboxInv /\ ChannelInv
      /\ ChunkSize \in Nat \ {0} /\ Fetched(query) \in Nat
  BY StreamAssumption, FetchedIsNat DEF StreamInv, TypeInv
<1>1. /\ Waiting /\ ~returning /\ outbox = <<>> /\ read < Fetched(query)
      /\ read' = read + 1 /\ columns_ready' = TRUE /\ outbox' = out
      /\ builder' = (IF full THEN 0 ELSE builder + 1)
      /\ chunk_index' = (IF full THEN chunk_index + 1 ELSE chunk_index)
      /\ UNCHANGED <<query, producer, returning, events, received, rx>>
  BY DEF RowArrives, Waiting
<1>2. full <=> builder + 1 = ChunkSize
  BY <1>0 DEF Full, TypeInv, CountInv
<1>3. Covered = Rows(chunk_index) /\ Rows(chunk_index) \in Nat /\ Rows(chunk_index + 1) = Rows(chunk_index) + ChunkSize
  BY <1>0, <1>1, RowsFacts DEF CountInv, TypeInv
<1>4. batch = BatchEvent(chunk_index, Rows(chunk_index) + 1, read + 1) /\ batch \in EventSet
  <2>1. (read + 1) - builder = Rows(chunk_index) + 1 /\ read + 1 \in Nat /\ chunk_index \in Nat
    BY <1>0, <1>3 DEF Covered, TypeInv
  <2>2. batch = BatchEvent(chunk_index, Rows(chunk_index) + 1, read + 1)
    BY <2>1 DEF BatchUpTo
  <2> QED BY <1>3, <2>1, <2>2, EventFacts
<1>5. out \in Seq(EventSet)
  BY <1>4, EventFacts DEF SchemaFirst
<1>6. /\ Len(out) = (IF columns_ready THEN 0 ELSE 1) + (IF full THEN 1 ELSE 0)
      /\ ~columns_ready => out[1] = SchemaEvent
      /\ full => out[Len(out)] = batch
  BY <1>4, EventFacts DEF SchemaFirst
<1> HIDE DEF full, batch, out
<1>7. /\ Len(Stream) = Len(events) /\ Len(Stream') = Len(Stream) + Len(out)
      /\ \A i \in 1..Len(Stream) : Stream'[i] = Stream[i]
      /\ \A j \in 1..Len(out) : Stream'[Len(Stream) + j] = out[j]
  BY <1>0, <1>1, <1>5, Emit
<1>8. /\ chunk_index \in Nat /\ columns_ready \in BOOLEAN /\ (~columns_ready => chunk_index = 0)
      /\ Len(Stream) = IF columns_ready THEN chunk_index + 1 ELSE 0
  BY <1>0, <1>1 DEF TypeInv, CountInv, ShapeInv
<1>9. Covered' = Rows(chunk_index)'
  BY <1>0, <1>1, <1>2, <1>3 DEF Covered, TypeInv, Rows
<1>10. TypeInv'
  BY <1>0, <1>1, <1>5 DEF TypeInv
<1>11. CountInv'
  <2>1. /\ (read <= Fetched(query))' /\ (builder < ChunkSize)' /\ (builder <= read)'
    BY <1>0, <1>1, <1>2 DEF CountInv, TypeInv
  <2>2. chunk_index' \in Nat /\ (chunk_index' # 0 => chunk_index' - 1 \in Nat /\ Rows(chunk_index') = Rows(chunk_index' - 1) + ChunkSize)
    BY <1>10, RowsFacts DEF TypeInv
  <2>3. Covered' = Rows(chunk_index') /\ Rows(0) = 0 /\ \A c \in Nat : Rows(c) \in Nat
    BY <1>9, RowsFacts DEF Rows
  <2>4. IF chunk_index' = 0 THEN Covered' = 0 ELSE Rows(chunk_index' - 1) < Covered' /\ Covered' <= Rows(chunk_index')
    <3>1. CASE chunk_index' = 0
      BY <2>3, <3>1
    <3>2. CASE chunk_index' # 0
      BY <1>0, <2>2, <2>3, <3>2
    <3> QED BY <3>1, <3>2
  <2> QED BY <1>1, <2>1, <2>3, <2>4 DEF CountInv, Rows
<1>12. ShapeInv'
  <2>1. Len(Stream') = chunk_index' + 1
    BY <1>1, <1>6, <1>7, <1>8
  <2>2. Stream'[1] = SchemaEvent
    <3>1. CASE columns_ready
      BY <3>1, <1>0, <1>7, <1>8 DEF ShapeInv
    <3>2. CASE ~columns_ready
      BY <3>2, <1>6, <1>7, <1>8
    <3> QED BY <3>1, <3>2
  <2>3. ASSUME NEW i \in 2..(chunk_index' + 1)
        PROVE  Stream'[i] = BatchEvent(i - 2, Rows(i - 2) + 1,
                                       IF i = chunk_index' + 1 THEN Covered' ELSE Rows(i - 1))
    <3>1. CASE i <= chunk_index + 1
      <4>1. Stream'[i] = Stream[i]
        BY <3>1, <1>7, <1>8
      <4>2. i \in 2..(chunk_index + 1) /\ (i = chunk_index + 1 => Covered = Rows(i - 1))
        BY <3>1, <1>8, <1>3
      <4>3. i = chunk_index' + 1 => Covered' = Rows(i - 1)
        BY <1>9, <1>8, <1>1 DEF Rows
      <4> QED BY <4>1, <4>2, <4>3, <1>0 DEF ShapeInv
    <3>2. CASE i > chunk_index + 1
      <4>1. full /\ i = chunk_index + 2 /\ chunk_index' = chunk_index + 1
        BY <3>2, <1>1, <1>8
      <4>2. Stream'[i] = batch
        BY <4>1, <1>7, <1>6, <1>8
      <4>3. Covered' = read + 1
        BY <4>1, <1>0, <1>1 DEF Covered, TypeInv
      <4>4. i - 2 = chunk_index
        BY <4>1, <1>8
      <4> QED BY <4>1, <4>2, <4>3, <4>4, <1>4
    <3> QED BY <3>1, <3>2, <1>8, <1>1
  <2> QED BY <1>1, <2>1, <2>2, <2>3 DEF ShapeInv, Rows
<1>13. OutboxInv'
  BY <1>0, <1>1, <1>7, <1>8 DEF OutboxInv, TypeInv
<1>14. ChannelInv'
  BY <1>0, <1>1 DEF ChannelInv, Waiting
<1> QED BY <1>10, <1>11, <1>12, <1>13, <1>14 DEF StreamInv

\* The rows are exhausted: the last batch takes what is left in the builder.
LEMMA RowsExhaustedInv == ASSUME StreamInv, RowsExhausted PROVE StreamInv'
<1> DEFINE some == builder > 0
           batch == BatchEvent(chunk_index, read - builder + 1, read)
           rest == IF some THEN <<batch>> ELSE <<>>
           end == CompleteEvent(chunk_index + Len(rest), read)
           out == SchemaFirst \o rest \o <<end>>
<1>0. /\ TypeInv /\ CountInv /\ ShapeInv /\ OutboxInv /\ ChannelInv
      /\ ChunkSize \in Nat \ {0} /\ Fetched(query) \in Nat
  BY StreamAssumption, FetchedIsNat DEF StreamInv, TypeInv
<1>1. /\ Waiting /\ ~returning /\ outbox = <<>> /\ read = Fetched(query)
      /\ columns_ready' = TRUE /\ outbox' = out /\ builder' = 0 /\ returning' = TRUE
      /\ chunk_index' = (IF some THEN chunk_index + 1 ELSE chunk_index)
      /\ UNCHANGED <<query, producer, read, events, received, rx>>
  BY <1>0 DEF RowsExhausted, Waiting, TypeInv
<1>2. /\ Covered = Rows(chunk_index) /\ Rows(chunk_index) \in Nat
      /\ Rows(chunk_index + 1) = Rows(chunk_index) + ChunkSize
  BY <1>0, <1>1, RowsFacts DEF CountInv, TypeInv
<1>3. batch = BatchEvent(chunk_index, Rows(chunk_index) + 1, read) /\ batch \in EventSet
  <2>1. (read - builder) + 1 = Rows(chunk_index) + 1 /\ read \in Nat /\ chunk_index \in Nat
    BY <1>0, <1>2 DEF Covered, TypeInv
  <2>2. batch = BatchEvent(chunk_index, Rows(chunk_index) + 1, read)
    BY <2>1
  <2> QED BY <1>2, <2>1, <2>2, EventFacts
<1>4. /\ rest \in Seq(EventSet) /\ Len(rest) = (IF some THEN 1 ELSE 0)
      /\ some => rest[1] = batch
  BY <1>3
<1>5. end = CompleteEvent(chunk_index', read) /\ end \in EventSet
  <2>1. chunk_index + Len(rest) = chunk_index' /\ chunk_index' \in Nat /\ read \in Nat
    BY <1>0, <1>1, <1>4 DEF TypeInv
  <2> HIDE DEF rest
  <2> QED BY <2>1, EventFacts
<1>6. /\ SchemaFirst \in Seq(EventSet)
      /\ Len(SchemaFirst) = (IF columns_ready THEN 0 ELSE 1)
      /\ ~columns_ready => SchemaFirst[1] = SchemaEvent
  BY EventFacts DEF SchemaFirst
<1> HIDE DEF some, batch, rest, end
<1>7. /\ SchemaFirst \o rest \in Seq(EventSet)
      /\ Len(SchemaFirst \o rest) = Len(SchemaFirst) + Len(rest)
      /\ \A i \in 1..Len(SchemaFirst) : (SchemaFirst \o rest)[i] = SchemaFirst[i]
      /\ \A j \in 1..Len(rest) : (SchemaFirst \o rest)[Len(SchemaFirst) + j] = rest[j]
  BY <1>4, <1>6, Concatenation
<1>8. /\ <<end>> \in Seq(EventSet) /\ Len(<<end>>) = 1 /\ <<end>>[1] = end
  BY <1>5
<1>9. /\ out \in Seq(EventSet)
      /\ Len(out) = (IF columns_ready THEN 0 ELSE 1) + (IF some THEN 1 ELSE 0) + 1
      /\ ~columns_ready => out[1] = SchemaEvent
      /\ some => out[Len(out) - 1] = batch
      /\ out[Len(out)] = end
  <2> DEFINE pre == SchemaFirst \o rest
  <2>1. /\ pre \in Seq(EventSet)
        /\ Len(pre) = (IF columns_ready THEN 0 ELSE 1) + (IF some THEN 1 ELSE 0)
        /\ ~columns_ready => pre[1] = SchemaEvent
        /\ some => pre[Len(pre)] = batch
    BY <1>4, <1>6, <1>7
  <2> HIDE DEF pre
  <2>2. /\ pre \o <<end>> \in Seq(EventSet) /\ Len(pre \o <<end>>) = Len(pre) + 1
        /\ \A i \in 1..Len(pre) : (pre \o <<end>>)[i] = pre[i]
        /\ (pre \o <<end>>)[Len(pre) + 1] = end
    BY <1>8, <2>1, Concatenation
  <2>3. out = pre \o <<end>>
    BY DEF pre
  <2> HIDE DEF out
  <2> QED BY <2>1, <2>2, <2>3
<1> HIDE DEF out
<1>10. /\ Len(Stream) = Len(events) /\ Len(Stream') = Len(Stream) + Len(out)
       /\ \A i \in 1..Len(Stream) : Stream'[i] = Stream[i]
       /\ \A j \in 1..Len(out) : Stream'[Len(Stream) + j] = out[j]
  BY <1>0, <1>1, <1>9, Emit
<1>11. /\ chunk_index \in Nat /\ columns_ready \in BOOLEAN
       /\ ~columns_ready => chunk_index = 0 /\ read = 0
       /\ Len(Stream) = IF columns_ready THEN chunk_index + 1 ELSE 0
  BY <1>0, <1>1 DEF TypeInv, CountInv, ShapeInv
<1>12. TypeInv'
  BY <1>0, <1>1, <1>9 DEF TypeInv
<1>13. Covered' = read /\ read = Rows(chunk_index) + builder
  BY <1>0, <1>1, <1>2 DEF Covered, TypeInv
<1>14. CountInv'
  <2>1. (read <= Fetched(query))' /\ (builder < ChunkSize)' /\ (builder <= read)'
    BY <1>0, <1>1 DEF CountInv, TypeInv
  <2>2. IF chunk_index' = 0 THEN Covered' = 0
        ELSE Rows(chunk_index' - 1) < Covered' /\ Covered' <= Rows(chunk_index')
    <3>1. CASE some
      <4>1. chunk_index' = chunk_index + 1 /\ chunk_index' - 1 = chunk_index /\ chunk_index' # 0
        BY <1>1, <1>11, <3>1
      <4>2. builder \in Nat /\ builder > 0 /\ builder < ChunkSize
        BY <1>0, <3>1 DEF CountInv, TypeInv, some
      <4> QED BY <1>0, <1>2, <1>13, <4>1, <4>2
    <3>2. CASE ~some
      <4>1. builder = 0 /\ chunk_index' = chunk_index
        BY <1>0, <1>1, <3>2 DEF some, TypeInv
      <4>2. Covered' = Rows(chunk_index)
        BY <1>2, <1>13, <4>1
      <4>3. chunk_index # 0 => Rows(chunk_index - 1) < Covered
        BY <1>0 DEF CountInv
      <4> QED BY <1>2, <1>11, <4>1, <4>2, <4>3, RowsFacts
    <3> QED BY <3>1, <3>2
  <2> QED BY <1>1, <1>11, <2>1, <2>2 DEF CountInv, Rows
<1>15. ShapeInv'
  <2>1. Len(Stream') = chunk_index' + 2 /\ Len(Stream') = Len(Stream) + Len(out)
    BY <1>1, <1>9, <1>10, <1>11
  <2>2. Stream'[1] = SchemaEvent
    <3>1. CASE columns_ready
      BY <3>1, <1>0, <1>10, <1>11 DEF ShapeInv
    <3>2. CASE ~columns_ready
      BY <3>2, <1>9, <1>10, <1>11
    <3> QED BY <3>1, <3>2
  <2>3. ASSUME NEW i \in 2..(chunk_index' + 1)
        PROVE  Stream'[i] = BatchEvent(i - 2, Rows(i - 2) + 1,
                                       IF i = chunk_index' + 1 THEN Covered' ELSE Rows(i - 1))
    <3>1. CASE i <= chunk_index + 1
      <4>1. Stream'[i] = Stream[i]
        BY <3>1, <1>10, <1>11
      <4>2. i \in 2..(chunk_index + 1) /\ (i = chunk_index + 1 => Covered = Rows(i - 1))
        BY <3>1, <1>11, <1>2
      <4>3. ASSUME i = chunk_index' + 1 PROVE Covered' = Rows(i - 1)
        <5>1. ~some
          BY <1>1, <1>11, <3>1, <4>3
        <5>2. builder = 0
          BY <1>0, <5>1 DEF some, TypeInv
        <5>3. i - 1 = chunk_index
          BY <1>1, <1>11, <4>3, <5>1
        <5> QED BY <1>2, <1>13, <5>2, <5>3
      <4> QED BY <4>1, <4>2, <4>3, <1>0 DEF ShapeInv
    <3>2. CASE i > chunk_index + 1
      <4>1. some /\ i = chunk_index + 2 /\ chunk_index' = chunk_index + 1 /\ i - 2 = chunk_index
        BY <3>2, <1>1, <1>11
      <4>2. columns_ready
        BY <1>0, <1>11, <4>1 DEF some, CountInv, TypeInv
      <4>3. Stream'[i] = batch
        <5>1. Len(Stream) = chunk_index + 1 /\ i = Len(Stream) + 1
          BY <4>1, <4>2, <1>11
        <5>2. 1 \in 1..Len(out) /\ out[1] = batch
          BY <4>1, <4>2, <1>9
        <5> QED BY <5>1, <5>2, <1>10
      <4> QED BY <4>1, <4>3, <1>3, <1>13
    <3> QED BY <3>1, <3>2, <1>11, <1>1
  <2>4. Stream'[Len(Stream')] = CompleteEvent(chunk_index', Fetched(query)')
    BY <1>1, <1>5, <1>9, <1>10, <1>11, <2>1
  <2> QED BY <1>1, <2>1, <2>2, <2>3, <2>4 DEF ShapeInv, Rows
<1>16. OutboxInv'
  BY <1>0, <1>1, <1>10, <1>11 DEF OutboxInv, TypeInv
<1>17. ChannelInv'
  BY <1>0, <1>1 DEF ChannelInv, Waiting
<1> QED BY <1>12, <1>14, <1>15, <1>16, <1>17 DEF StreamInv

\* An error ends the stream; the schema of a first row may go out before it.
LEMMA FailsInv == ASSUME StreamInv, RowFails \/ BatchFails PROVE StreamInv'
<1> DEFINE early == columns_ready' # columns_ready
           out == IF early THEN Append(<<SchemaEvent>>, ErrorEvent) ELSE <<ErrorEvent>>
<1>0. /\ TypeInv /\ CountInv /\ ShapeInv /\ OutboxInv /\ ChannelInv
  BY DEF StreamInv
<1>1. /\ Waiting /\ ~returning /\ outbox = <<>> /\ returning' = TRUE
      /\ columns_ready \in BOOLEAN /\ columns_ready' \in BOOLEAN
      /\ columns_ready => columns_ready'
      /\ UNCHANGED <<query, producer, read, builder, chunk_index, events, received, rx>>
  BY <1>0, Zenon DEF RowFails, BatchFails, Waiting, TypeInv
<1>2. outbox' = out
  <2>1. CASE RowFails
    BY <2>1 DEF RowFails
  <2>2. CASE BatchFails /\ columns_ready
    <3>1. ~early
      BY <1>1, <2>2, Zenon
    <3>2. outbox' = Append(<<>>, ErrorEvent)
      BY <2>2 DEF BatchFails, SchemaFirst
    <3> QED BY <3>1, <3>2
  <2>3. CASE BatchFails /\ ~columns_ready
    <3>1. early
      BY <2>3, Zenon DEF BatchFails
    <3>2. outbox' = Append(<<SchemaEvent>>, ErrorEvent)
      BY <2>3 DEF BatchFails, SchemaFirst
    <3> QED BY <3>1, <3>2, Zenon
  <2> QED BY <2>1, <2>2, <2>3
<1>3. /\ out \in Seq(EventSet) /\ Len(out) = (IF early THEN 2 ELSE 1)
      /\ early => out[1] = SchemaEvent
      /\ out[Len(out)] = ErrorEvent
  BY EventFacts
<1>4. early <=> ~columns_ready /\ columns_ready'
  BY <1>1
<1> HIDE DEF out, early
<1>5. /\ Len(Stream) = Len(events) /\ Len(Stream') = Len(Stream) + Len(out)
      /\ \A i \in 1..Len(Stream) : Stream'[i] = Stream[i]
      /\ \A j \in 1..Len(out) : Stream'[Len(Stream) + j] = out[j]
  BY <1>0, <1>1, <1>2, <1>3, Emit
<1>6. /\ chunk_index \in Nat /\ (~columns_ready => chunk_index = 0)
      /\ Len(Stream) = IF columns_ready THEN chunk_index + 1 ELSE 0
  BY <1>0, <1>1 DEF TypeInv, CountInv, ShapeInv
<1>7. TypeInv'
  BY <1>0, <1>1, <1>2, <1>3 DEF TypeInv
<1>8. CountInv'
  BY <1>0, <1>1 DEF CountInv, Covered
<1>9. ShapeInv'
  <2>1. Len(Stream') = (IF columns_ready' THEN chunk_index + 1 ELSE 0) + 1
    BY <1>1, <1>3, <1>4, <1>5, <1>6
  <2>2. ASSUME columns_ready' PROVE Stream'[1] = SchemaEvent
    <3>1. CASE columns_ready
      BY <3>1, <1>0, <1>5, <1>6 DEF ShapeInv
    <3>2. CASE ~columns_ready
      BY <2>2, <3>2, <1>3, <1>4, <1>5, <1>6
    <3> QED BY <3>1, <3>2
  <2>3. \A i \in 2..(chunk_index + 1) : Stream'[i] = Stream[i]
    BY <1>5, <1>6
  <2>4. Stream'[Len(Stream')] = ErrorEvent
    BY <1>3, <1>5, <1>6
  <2> QED BY <1>0, <1>1, <2>1, <2>2, <2>3, <2>4 DEF ShapeInv, Covered
<1>10. OutboxInv' /\ ChannelInv'
  BY <1>0, <1>1 DEF OutboxInv, ChannelInv, Waiting
<1> QED BY <1>7, <1>8, <1>9, <1>10 DEF StreamInv

\* Sending moves an event along the stream and leaves the stream as it is.
LEMMA SendKeepsStream ==
  ASSUME TypeInv, SendEvent
  PROVE  /\ Stream' = Stream /\ Head(outbox) = Stream[Len(events) + 1]
         /\ Len(events') = Len(events) + 1 /\ Len(events) + 1 <= Len(Stream)
         /\ \A i \in 1..Len(events) : events[i] = Stream[i] /\ events'[i] = events[i]
         /\ events' \in Seq(EventSet) /\ outbox' \in Seq(EventSet)
<1>1. /\ events \in Seq(EventSet) /\ outbox \in Seq(EventSet) /\ outbox # <<>>
      /\ events' = Append(events, Head(outbox)) /\ outbox' = Tail(outbox)
  BY DEF TypeInv, SendEvent
<1>2. /\ Head(outbox) = outbox[1] /\ Head(outbox) \in EventSet /\ Len(outbox) >= 1
      /\ Tail(outbox) \in Seq(EventSet) /\ Len(Tail(outbox)) = Len(outbox) - 1
      /\ \A j \in 1..Len(outbox) - 1 : Tail(outbox)[j] = outbox[j + 1]
  BY <1>1
<1>3. /\ events' \in Seq(EventSet) /\ Len(events') = Len(events) + 1
      /\ events'[Len(events) + 1] = outbox[1]
      /\ \A i \in 1..Len(events) : events'[i] = events[i]
  BY <1>1, <1>2
<1>4. /\ Stream \in Seq(EventSet) /\ Len(Stream) = Len(events) + Len(outbox)
      /\ \A i \in 1..Len(events) : Stream[i] = events[i]
      /\ \A j \in 1..Len(outbox) : Stream[Len(events) + j] = outbox[j]
  BY <1>1, Concatenation DEF Stream
<1>5. /\ Stream' \in Seq(EventSet) /\ Len(Stream') = Len(events') + Len(outbox')
      /\ \A i \in 1..Len(events') : Stream'[i] = events'[i]
      /\ \A j \in 1..Len(outbox') : Stream'[Len(events') + j] = outbox'[j]
  BY <1>1, <1>2, <1>3, Concatenation DEF Stream
<1>6. ASSUME NEW i \in 1..Len(Stream) PROVE Stream'[i] = Stream[i]
  <2>1. CASE i <= Len(events)
    BY <2>1, <1>3, <1>4, <1>5
  <2>2. CASE i = Len(events) + 1
    BY <2>2, <1>2, <1>3, <1>4, <1>5
  <2>3. CASE i > Len(events) + 1
    <3> DEFINE j == i - Len(events)
    <3>1. j \in 2..Len(outbox) /\ i = Len(events) + j /\ i = Len(events') + (j - 1)
      BY <2>3, <1>1, <1>3, <1>4
    <3> HIDE DEF j
    <3>2. Stream[i] = outbox[j]
      BY <3>1, <1>4
    <3>3. j - 1 \in 1..Len(outbox') /\ outbox'[j - 1] = outbox[j]
      BY <3>1, <1>1, <1>2
    <3> QED BY <3>1, <3>2, <3>3, <1>5
  <2> QED BY <2>1, <2>2, <2>3, <1>1
<1>7. Len(Stream') = Len(Stream)
  BY <1>1, <1>2, <1>3, <1>4, <1>5
<1>8. Stream' = Stream
  BY <1>4, <1>5, <1>6, <1>7
<1> QED BY <1>1, <1>2, <1>3, <1>4, <1>8

\* Sending an event.
LEMMA SendInv == ASSUME StreamInv, SendEvent PROVE StreamInv'
<1>0. TypeInv /\ CountInv /\ ShapeInv /\ OutboxInv /\ ChannelInv
  BY DEF StreamInv
<1>1. /\ producer = "running" /\ Len(events) - received < ChannelCapacity
      /\ UNCHANGED <<query, producer, read, builder, chunk_index, columns_ready, returning, received, rx>>
  BY DEF SendEvent, EventRoom
<1>2. /\ Stream' = Stream /\ Len(events') = Len(events) + 1
      /\ events \in Seq(EventSet) /\ events' \in Seq(EventSet) /\ outbox' \in Seq(EventSet)
  BY <1>0, SendKeepsStream DEF TypeInv
<1>3. TypeInv'
  BY <1>0, <1>1, <1>2 DEF TypeInv
<1>4. CountInv'
  BY <1>0, <1>1 DEF CountInv, Covered
<1>5. ShapeInv'
  BY <1>0, <1>1, <1>2 DEF ShapeInv, Covered
<1>6. OutboxInv'
  BY <1>0, <1>1, <1>2 DEF OutboxInv, TypeInv
<1>7. ChannelInv'
  BY <1>0, <1>1, <1>2, StreamAssumption DEF ChannelInv, TypeInv
<1> QED BY <1>3, <1>4, <1>5, <1>6, <1>7 DEF StreamInv

\* A producer that stops, by itself or because its receiver is gone.
LEMMA StopsInv == ASSUME StreamInv, SendFails \/ ProducerReturns PROVE StreamInv'
<1>1. /\ UNCHANGED <<query, read, builder, chunk_index, columns_ready, outbox, returning, events, received, rx>>
      /\ producer' = "stopped"
      /\ rx = "dropped" \/ (returning /\ outbox = <<>>)
  BY DEF SendFails, ProducerReturns
<1>2. TypeInv' /\ CountInv' /\ OutboxInv'
  BY <1>1 DEF StreamInv, TypeInv, CountInv, OutboxInv, Covered
<1>3. ShapeInv'
  BY <1>1 DEF StreamInv, ShapeInv, Covered, Stream
<1>4. ChannelInv'
  BY <1>1 DEF StreamInv, ChannelInv
<1> QED BY <1>2, <1>3, <1>4 DEF StreamInv

\* Every step of the producer keeps the stream in shape.
LEMMA ProducerInv == ASSUME StreamInv, Producer PROVE StreamInv'
BY RowArrivesInv, RowsExhaustedInv, FailsInv, SendInv, StopsInv DEF Producer

-----------------------------------------------------------------------------
(* The collector *)

\* The events a receiver can see: a prefix of the stream.
LEMMA EventsOfStream ==
  ASSUME StreamInv
  PROVE  /\ events \in Seq(EventSet) /\ Len(events) <= Len(Stream)
         /\ \A i \in 1..Len(events) : events[i] = Stream[i]
         /\ outbox = <<>> => Len(events) = Len(Stream)
BY Concatenation DEF StreamInv, TypeInv, Stream

\* Only the last event of a stream whose producer returns ends it.
LEMMA TypesOfStream ==
  ASSUME StreamInv
  PROVE  /\ \A i \in 1..Len(Stream) :
              i < Len(Stream) \/ ~returning => Stream[i].type \in {"schema", "batch"}
         /\ returning => Len(Stream) > 0 /\ Stream[Len(Stream)].type \in {"complete", "error"}
<1>0. /\ chunk_index \in Nat /\ columns_ready \in BOOLEAN /\ returning \in BOOLEAN /\ read \in Nat /\ builder \in Nat
      /\ Fetched(query) \in Nat /\ Covered \in Nat
      /\ ~columns_ready => chunk_index = 0
      /\ Len(Stream) = (IF columns_ready THEN chunk_index + 1 ELSE 0) + (IF returning THEN 1 ELSE 0)
  BY FetchedIsNat DEF StreamInv, TypeInv, CountInv, ShapeInv, Covered
<1>1. ASSUME NEW i \in 1..Len(Stream), i < Len(Stream) \/ ~returning
      PROVE  Stream[i].type \in {"schema", "batch"}
  <2>1. columns_ready /\ i <= chunk_index + 1
    BY <1>0, <1>1
  <2>2. CASE i = 1
    BY <2>1, <2>2, EventFacts DEF StreamInv, ShapeInv
  <2>3. CASE i # 1
    <3> DEFINE last == IF i = chunk_index + 1 THEN Covered ELSE Rows(i - 1)
    <3>1. i \in 2..(chunk_index + 1) /\ i - 2 \in Nat /\ i - 1 \in Nat
      BY <1>0, <2>1, <2>3
    <3>2. Rows(i - 2) + 1 \in Nat /\ last \in Nat
      <4>1. Rows(i - 2) \in Nat /\ Rows(i - 1) \in Nat
        BY <3>1, RowsFacts
      <4> QED BY <1>0, <4>1
    <3>3. Stream[i] = BatchEvent(i - 2, Rows(i - 2) + 1, last)
      BY <3>1 DEF StreamInv, ShapeInv
    <3> HIDE DEF last
    <3> QED BY <3>3 DEF BatchEvent
  <2> QED BY <2>2, <2>3
<1>2. ASSUME returning PROVE Len(Stream) > 0 /\ Stream[Len(Stream)].type \in {"complete", "error"}
  BY <1>0, <1>2, EventFacts DEF StreamInv, ShapeInv
<1> QED BY <1>1, <1>2

\* Receiving events, or dropping the receiver, leaves the producer alone.
LEMMA ReceiveInv ==
  ASSUME StreamInv, UNCHANGED <<query, producerVars, events>>,
         received' \in Nat, received <= received', received' <= Len(events),
         rx' \in {rx, "dropped"}
  PROVE  StreamInv'
<1> USE DEF producerVars
<1>1. TypeInv' /\ CountInv' /\ OutboxInv'
  BY DEF StreamInv, TypeInv, CountInv, OutboxInv, Covered
<1>2. ShapeInv'
  BY DEF StreamInv, ShapeInv, Covered, Stream
<1>3. ChannelInv'
  <2>1. received \in Nat /\ Len(events) \in Nat /\ ChannelCapacity \in Nat
    BY StreamAssumption DEF StreamInv, TypeInv
  <2> QED BY <2>1 DEF StreamInv, ChannelInv
<1> QED BY <1>1, <1>2, <1>3 DEF StreamInv

\* The producer is spawned.
LEMMA SpawnInv == ASSUME StreamInv, Spawn PROVE StreamInv'
<1>1. TypeInv' /\ CountInv' /\ OutboxInv'
  BY DEF Spawn, StreamInv, TypeInv, CountInv, OutboxInv, Covered
<1>2. ShapeInv'
  BY DEF Spawn, StreamInv, ShapeInv, Covered, Stream
<1>3. ChannelInv'
  BY DEF Spawn, StreamInv, ChannelInv
<1> QED BY <1>1, <1>2, <1>3 DEF StreamInv

\* A response list that holds a whole stream and ends in complete has every row.
LEMMA WholeStream ==
  ASSUME StreamInv, returning, NEW s \in Seq(EventSet), Len(s) = Len(Stream),
         \A i \in 1..Len(Stream) : s[i] = Stream[i],
         s[Len(s)].type = "complete"
  PROVE  LET n == Len(s) - 2 IN
         /\ s[1] = SchemaEvent
         /\ s[Len(s)] = CompleteEvent(n, Fetched(query))
         /\ \A c \in 1..n :
              /\ s[c + 1].chunk_index = c - 1
              /\ s[c + 1].first = IF c = 1 THEN 1 ELSE s[c].last + 1
         /\ IF n = 0 THEN Fetched(query) = 0 ELSE s[n + 1].last = Fetched(query)
<1> DEFINE n == Len(s) - 2
<1>0. /\ chunk_index \in Nat /\ read \in Nat /\ builder \in Nat /\ Fetched(query) \in Nat
      /\ Covered \in Nat /\ Len(Stream) \in Nat
  BY FetchedIsNat DEF StreamInv, TypeInv, CountInv, Covered
<1>1. Len(Stream) > 0 /\ s[Len(s)] = Stream[Len(Stream)]
  BY <1>0, TypesOfStream
<1>2. /\ Stream[Len(Stream)] = CompleteEvent(chunk_index, Fetched(query))
      /\ columns_ready /\ builder = 0 /\ read = Fetched(query)
  BY <1>1, EventFacts DEF StreamInv, ShapeInv
<1>3. n = chunk_index /\ Len(Stream) = chunk_index + 2
  BY <1>0, <1>2 DEF StreamInv, ShapeInv
<1>4. Covered = Fetched(query)
  BY <1>0, <1>2 DEF Covered
<1> HIDE DEF n
<1>5. s[1] = SchemaEvent
  BY <1>0, <1>2, <1>3 DEF StreamInv, ShapeInv
<1>6. ASSUME NEW c \in 1..n
      PROVE  /\ s[c + 1].chunk_index = c - 1 /\ s[c + 1].first = Rows(c - 1) + 1
             /\ s[c + 1].last = IF c = n THEN Covered ELSE Rows(c)
  <2> DEFINE i == c + 1
             last == IF i = chunk_index + 1 THEN Covered ELSE Rows(i - 1)
  <2>1. /\ i \in 2..(chunk_index + 1) /\ i \in 1..Len(Stream)
        /\ i - 2 = c - 1 /\ i - 1 = c /\ c - 1 \in Nat /\ c \in Nat
    BY <1>0, <1>3
  <2>2. Rows(c - 1) \in Nat /\ Rows(c) \in Nat
    BY <2>1, RowsFacts
  <2>3. last = (IF c = n THEN Covered ELSE Rows(c)) /\ last \in Nat
    BY <1>0, <1>3, <2>1, <2>2
  <2>4. s[i] = BatchEvent(i - 2, Rows(i - 2) + 1, last)
    BY <2>1 DEF StreamInv, ShapeInv
  <2> HIDE DEF last
  <2>5. s[i] = BatchEvent(c - 1, Rows(c - 1) + 1, last)
    BY <2>1, <2>4
  <2>6. s[i].chunk_index = c - 1 /\ s[i].first = Rows(c - 1) + 1 /\ s[i].last = last
    BY <2>5 DEF BatchEvent
  <2> QED BY <2>3, <2>6
<1>7. ASSUME NEW c \in 1..n PROVE s[c + 1].first = IF c = 1 THEN 1 ELSE s[c].last + 1
  <2>1. CASE c = 1
    <3>1. s[c + 1].first = Rows(0) + 1
      BY <1>6, <2>1
    <3> QED BY <2>1, <3>1, RowsFacts
  <2>2. CASE c # 1
    <3>1. c - 1 \in 1..n /\ (c - 1) + 1 = c /\ c - 1 # n
      BY <1>0, <1>3, <2>2
    <3>2. s[c].last = Rows(c - 1)
      BY <1>6, <3>1
    <3> QED BY <1>6, <2>2, <3>2
  <2> QED BY <2>1, <2>2
<1>8. IF n = 0 THEN Fetched(query) = 0 ELSE s[n + 1].last = Fetched(query)
  <2>1. CASE n = 0
    BY <1>3, <1>4, <2>1 DEF StreamInv, CountInv
  <2>2. CASE n # 0
    <3>1. n \in 1..n
      BY <1>0, <1>3, <2>2
    <3> QED BY <1>4, <1>6, <2>2, <3>1
  <2> QED BY <2>1, <2>2
<1> QED BY <1>1, <1>2, <1>3, <1>5, <1>6, <1>7, <1>8 DEF n

\* The buffered path, and every other way to answer without a stream.
LEMMA ReturnInv ==
  ASSUME IInv, HandleOther \/ HandleError \/ HandleBuffered
  PROVE  IInv'
<1>0. StreamInv /\ Fetched(query) \in Nat
  BY FetchedIsNat DEF IInv, StreamInv, TypeInv
<1>1. /\ pc' = "returned" /\ UNCHANGED streamVars
      /\ \/ \E r : responses' = <<r>> /\ r.type \in {"result", "query_result", "error"}
         \/ /\ Fetched(query) > 0
            /\ responses' = <<SchemaEvent, BatchEvent(0, 1, Fetched(query)), CompleteEvent(1, Fetched(query))>>
  <2>1. CASE HandleOther \/ HandleError
    BY <2>1 DEF HandleOther, HandleError, Return, Result, ErrorEvent
  <2>2. CASE HandleBuffered
    <3>1. \/ Return(<<QueryResult("error", FALSE, 0, SerialisedRows(0))>>)
          \/ \E m \in {0, Fetched(query)} :
               Return(<<QueryResult("success", HasMore(m), m, SerialisedRows(m))>>)
          \/ \E m \in {0, Fetched(query)} :
               m > 0 /\ Return(<<SchemaEvent, BatchEvent(0, 1, m), CompleteEvent(1, m)>>)
      BY <2>2 DEF HandleBuffered
    <3>2. \A status, more, m, k : QueryResult(status, more, m, k).type = "query_result"
      BY DEF QueryResult
    <3>3. CASE Return(<<QueryResult("error", FALSE, 0, SerialisedRows(0))>>)
      BY <3>2, <3>3 DEF Return
    <3>4. ASSUME NEW m, Return(<<QueryResult("success", HasMore(m), m, SerialisedRows(m))>>)
          PROVE  /\ pc' = "returned" /\ UNCHANGED streamVars
                 /\ \E r : responses' = <<r>> /\ r.type \in {"result", "query_result", "error"}
      BY <3>2, <3>4 DEF Return
    <3>5. ASSUME NEW m \in {0, Fetched(query)}, m > 0,
                 Return(<<SchemaEvent, BatchEvent(0, 1, m), CompleteEvent(1, m)>>)
          PROVE  /\ pc' = "returned" /\ UNCHANGED streamVars /\ Fetched(query) > 0
                 /\ responses' = <<SchemaEvent, BatchEvent(0, 1, Fetched(query)), CompleteEvent(1, Fetched(query))>>
      <4>1. m = Fetched(query)
        BY <3>5
      <4> QED BY <3>5, <4>1 DEF Return
    <3> QED BY <3>1, <3>3, <3>4, <3>5
  <2> QED BY <2>1, <2>2
<1>2. StreamInv'
  <2>1. received' \in Nat /\ received <= received' /\ received' <= Len(events)
    BY <1>0, <1>1 DEF streamVars, StreamInv, TypeInv, ChannelInv
  <2> QED BY <1>0, <1>1, <2>1, ReceiveInv DEF streamVars
<1>3. CollectInv'
  BY <1>1 DEF CollectInv
<1>4. OneTerminal' /\ CompleteMeansEveryRow'
  <2>1. CASE \E r : responses' = <<r>> /\ r.type \in {"result", "query_result", "error"}
    <3>1. /\ Len(responses') = 1 /\ responses' # <<>>
          /\ responses'[1].type \in {"result", "query_result", "error"}
      BY <2>1
    <3> QED BY <3>1 DEF OneTerminal, CompleteMeansEveryRow, Last, Terminal
  <2>2. CASE /\ Fetched(query) > 0
             /\ responses' = <<SchemaEvent, BatchEvent(0, 1, Fetched(query)), CompleteEvent(1, Fetched(query))>>
    <3>1. /\ Len(responses') = 3 /\ responses' # <<>> /\ DOMAIN responses' = 1..3
          /\ responses'[1] = SchemaEvent /\ responses'[2] = BatchEvent(0, 1, Fetched(query))
          /\ responses'[3] = CompleteEvent(1, Fetched(query))
      BY <2>2
    <3>2. OneTerminal'
      BY <1>0, <3>1, EventFacts DEF OneTerminal, Terminal
    <3>3. Fetched(query)' = Fetched(query)
      BY <1>1 DEF streamVars
    <3>4. CompleteMeansEveryRow'
      BY <1>0, <2>2, <3>1, <3>3, EventFacts DEF CompleteMeansEveryRow, Last
    <3> QED BY <3>2, <3>4
  <2> QED BY <1>1, <2>1, <2>2
<1> QED BY <1>2, <1>3, <1>4 DEF IInv

\* Receiving an event: an error is the last one there is.
LEMMA CollectStep == ASSUME IInv, Collect PROVE IInv'
<1>0. StreamInv /\ received \in Nat /\ Len(events) \in Nat
  BY DEF IInv, StreamInv, TypeInv
<1>1. /\ rx = "open" /\ responses \in Seq(EventSet) /\ Len(responses) = received
      /\ \A i \in 1..received : responses[i] = events[i]
      /\ received < Len(events) /\ received' = received + 1 /\ pc = "collecting"
      /\ UNCHANGED <<query, producerVars, events>>
      /\ responses' = Append(responses, events[received + 1])
  BY DEF IInv, CollectInv, Collect, EventReady
<1>2. rx' \in {rx, "dropped"}
  BY DEF Collect
<1>3. StreamInv'
  <2>1. received' \in Nat /\ received <= received' /\ received' <= Len(events)
    BY <1>0, <1>1
  <2> QED BY <1>0, <1>1, <1>2, <2>1, ReceiveInv
<1>4. /\ events \in Seq(EventSet) /\ Len(events) <= Len(Stream)
      /\ \A i \in 1..Len(events) : events[i] = Stream[i]
  BY <1>0, EventsOfStream
<1>5. /\ responses' \in Seq(EventSet) /\ Len(responses') = received'
      /\ \A i \in 1..received' : responses'[i] = events'[i]
  BY <1>0, <1>1, <1>4
<1>6. CASE events[received + 1] # ErrorEvent
  <2>1. pc' = "collecting" /\ rx' = "open"
    BY <1>1, <1>6 DEF Collect
  <2> QED BY <1>3, <1>5, <2>1 DEF IInv, CollectInv, OneTerminal, CompleteMeansEveryRow
<1>7. CASE events[received + 1] = ErrorEvent
  <2>1. pc' = "returned"
    BY <1>7 DEF Collect
  <2>2. /\ Len(Stream) \in Nat /\ received + 1 \in 1..Len(Stream)
        /\ Stream[received + 1] = ErrorEvent
    <3>1. Len(Stream) \in Nat
      BY <1>0, Concatenation DEF StreamInv, TypeInv, Stream
    <3> QED BY <1>0, <1>1, <1>4, <1>7, <3>1
  <2>3. received + 1 = Len(Stream)
    <3>1. Stream[received + 1].type \notin {"schema", "batch"}
      BY <2>2 DEF ErrorEvent
    <3>2. \A i \in 1..Len(Stream) : i < Len(Stream) => Stream[i].type \in {"schema", "batch"}
      BY <1>0, TypesOfStream
    <3> QED BY <2>2, <3>1, <3>2
  <2>4. \A i \in 1..received : responses'[i].type \in {"schema", "batch"}
    <3> SUFFICES ASSUME NEW i \in 1..received PROVE responses'[i].type \in {"schema", "batch"}
      OBVIOUS
    <3>1. i \in 1..received' /\ i \in 1..Len(events) /\ i \in 1..Len(Stream) /\ i < Len(Stream)
      BY <1>0, <1>1, <2>2, <2>3
    <3>2. responses'[i] = Stream[i]
      BY <1>1, <1>4, <1>5, <3>1
    <3>3. Stream[i].type \in {"schema", "batch"}
      BY <1>0, <3>1, TypesOfStream
    <3> QED BY <3>2, <3>3
  <2>5. responses'[received + 1].type = "error"
    BY <1>1, <1>5, <1>7, EventFacts
  <2>6. /\ Len(responses') = received + 1 /\ DOMAIN responses' = 1..(received + 1)
        /\ responses' # <<>>
    BY <1>0, <1>1, <1>5
  <2>7. OneTerminal'
    BY <1>0, <2>4, <2>5, <2>6 DEF OneTerminal, Terminal
  <2>8. CompleteMeansEveryRow'
    BY <2>5, <2>6 DEF CompleteMeansEveryRow, Last
  <2> QED BY <1>3, <2>1, <2>7, <2>8 DEF IInv, CollectInv
<1> QED BY <1>6, <1>7

\* The stream has ended: the responses hold the whole of it.
LEMMA CollectEndStep == ASSUME IInv, CollectEnd PROVE IInv'
<1>0. StreamInv /\ received \in Nat /\ Len(events) \in Nat
  BY DEF IInv, StreamInv, TypeInv
<1>1. /\ rx = "open" /\ responses \in Seq(EventSet) /\ Len(responses) = received
      /\ \A i \in 1..received : responses[i] = events[i]
      /\ received = Len(events) /\ producer = "stopped"
      /\ UNCHANGED <<query, producerVars, events, received, responses>>
      /\ pc' = "returned" /\ rx' \in {rx, "dropped"}
  BY DEF IInv, CollectInv, CollectEnd, EndOfStream
<1>2. returning /\ outbox = <<>>
  BY <1>0, <1>1 DEF StreamInv, ChannelInv
<1>3. StreamInv'
  <2>1. received' \in Nat /\ received <= received' /\ received' <= Len(events)
    BY <1>0, <1>1
  <2> QED BY <1>0, <1>1, <2>1, ReceiveInv
<1>4. /\ Len(responses) = Len(Stream) /\ Len(Stream) \in Nat
      /\ \A i \in 1..Len(Stream) : responses[i] = Stream[i]
  BY <1>0, <1>1, <1>2, EventsOfStream
<1>5. OneTerminal'
  <2>1. Len(Stream) > 0 /\ responses[Len(Stream)].type \in {"complete", "error"}
    BY <1>0, <1>2, <1>4, TypesOfStream
  <2>2. \A i \in 1..Len(Stream) : i # Len(Stream) => responses[i].type \in {"schema", "batch"}
    BY <1>0, <1>4, TypesOfStream
  <2>3. DOMAIN responses = 1..Len(Stream) /\ responses # <<>>
    BY <1>1, <1>4, <2>1
  <2> QED BY <1>1, <1>4, <2>1, <2>2, <2>3 DEF OneTerminal, Terminal
<1>6. CompleteMeansEveryRow'
  <2> SUFFICES ASSUME responses[Len(responses)].type = "complete"
               PROVE  CompleteMeansEveryRow'
    BY <1>1 DEF CompleteMeansEveryRow, Last
  <2>1. Fetched(query)' = Fetched(query) /\ responses' = responses
    BY <1>1
  <2> DEFINE s == responses
             n == Len(s) - 2
  <2>2. /\ s[1] = SchemaEvent
        /\ s[Len(s)] = CompleteEvent(n, Fetched(query))
        /\ \A c \in 1..n :
             /\ s[c + 1].chunk_index = c - 1
             /\ s[c + 1].first = IF c = 1 THEN 1 ELSE s[c].last + 1
        /\ IF n = 0 THEN Fetched(query) = 0 ELSE s[n + 1].last = Fetched(query)
    BY <1>0, <1>1, <1>2, <1>4, WholeStream
  <2> QED BY <2>1, <2>2, Zenon DEF CompleteMeansEveryRow, Last
<1> QED BY <1>1, <1>3, <1>5, <1>6 DEF IInv, CollectInv

\* The inductive invariant holds in the initial states.
LEMMA InitIInv == Init => IInv
BY InitStream DEF Init, StreamInit, IInv, CollectInv, OneTerminal, CompleteMeansEveryRow

\* Every step of the executor and of the producer keeps it.
LEMMA NextIInv == IInv /\ [Next]_vars => IInv'
<1> SUFFICES ASSUME IInv, [Next]_vars PROVE IInv'
  OBVIOUS
<1>1. CASE HandleStreaming
  <2>1. StreamInv'
    BY <1>1, SpawnInv DEF IInv, HandleStreaming
  <2>2. pc = "start" /\ pc' = "collecting" /\ UNCHANGED <<rx, received, events, responses>>
    BY <1>1 DEF HandleStreaming, Spawn
  <2>3. <<>> \in Seq(EventSet) /\ Len(<<>>) = 0
    OBVIOUS
  <2>4. CollectInv'
    BY <2>2, <2>3 DEF IInv, CollectInv
  <2> QED BY <2>1, <2>2, <2>4 DEF IInv, OneTerminal, CompleteMeansEveryRow
<1>2. CASE Abort
  <2>1. /\ pc' = "cancelled" /\ rx' \in {rx, "dropped"}
        /\ UNCHANGED <<query, producerVars, events, received>>
    BY <1>2 DEF Abort
  <2>2. StreamInv /\ received \in Nat /\ received <= Len(events)
    BY DEF IInv, StreamInv, TypeInv, ChannelInv
  <2>3. StreamInv'
    BY <2>1, <2>2, ReceiveInv
  <2> QED BY <2>1, <2>3 DEF IInv, CollectInv, OneTerminal, CompleteMeansEveryRow
<1>3. CASE ProducerStep
  <2>1. StreamInv' /\ UNCHANGED <<pc, responses>>
    BY <1>3, ProducerInv DEF IInv, ProducerStep
  <2>2. UNCHANGED <<query, received, rx>>
    BY <1>3 DEF ProducerStep, Producer, RowArrives, RowsExhausted, RowFails, BatchFails, SendEvent, SendFails, ProducerReturns
  <2>3. \A i \in 1..received : events'[i] = events[i]
    <3>1. CASE SendEvent
      <4>1. \A i \in 1..Len(events) : events'[i] = events[i]
        BY <3>1, SendKeepsStream DEF IInv, StreamInv
      <4>2. received \in Nat /\ received <= Len(events) /\ Len(events) \in Nat
        BY DEF IInv, StreamInv, TypeInv, ChannelInv
      <4> QED BY <4>1, <4>2
    <3>2. CASE ~SendEvent
      BY <1>3, <3>2 DEF ProducerStep, Producer, RowArrives, RowsExhausted, RowFails, BatchFails, SendFails, ProducerReturns
    <3> QED BY <3>1, <3>2
  <2>4. CollectInv'
    BY <2>1, <2>2, <2>3 DEF IInv, CollectInv
  <2> QED BY <2>1, <2>2, <2>4 DEF IInv, OneTerminal, CompleteMeansEveryRow
<1>4. CASE UNCHANGED vars
  <2>1. UNCHANGED <<query, producerVars, events, received, rx, pc, responses>>
    BY <1>4 DEF vars, streamVars
  <2>2. StreamInv /\ received \in Nat /\ received <= Len(events)
    BY DEF IInv, StreamInv, TypeInv, ChannelInv
  <2>3. StreamInv'
    BY <2>1, <2>2, ReceiveInv
  <2> QED BY <2>1, <2>3 DEF IInv, CollectInv, OneTerminal, CompleteMeansEveryRow
<1> QED BY <1>1, <1>2, <1>3, <1>4, ReturnInv, CollectStep, CollectEndStep DEF Next

\* It holds in every reachable state.
LEMMA Invariance == Spec => []IInv
BY InitIInv, NextIInv, PTL DEF Spec

-----------------------------------------------------------------------------
\* Whatever path a request takes through CommandExecutor::execute, the responses
\* returned for it end with the one response that says it is over.
THEOREM OneTerminalHolds == Spec => []OneTerminal
<1>1. IInv => OneTerminal
  BY DEF IInv
<1> QED BY <1>1, Invariance, PTL

\* An answer that ends in complete carries every fetched row once and in order.
THEOREM CompleteMeansEveryRowHolds == Spec => []CompleteMeansEveryRow
<1>1. IInv => CompleteMeansEveryRow
  BY DEF IInv
<1> QED BY <1>1, Invariance, PTL

-----------------------------------------------------------------------------
(* Backpressure *)

\* A set of positions with a greatest one: CHOOSE finds it.
LEMMA Greatest ==
  ASSUME NEW S, NEW m \in S, S \subseteq Nat, \A j \in S : j <= m
  PROVE  (CHOOSE i \in S : \A j \in S : j <= i) = m
<1> DEFINE x == CHOOSE i \in S : \A j \in S : j <= i
<1>1. x \in S /\ \A j \in S : j <= x
  OBVIOUS
<1>2. x <= m /\ m <= x /\ x \in Nat /\ m \in Nat
  BY <1>1
<1> QED BY <1>2

\* The rows of the batches that have been received.
LEMMA RowsReceivedIs ==
  ASSUME StreamInv
  PROVE  RowsReceived =
           IF received <= 1 \/ chunk_index = 0 THEN 0
           ELSE IF received <= chunk_index THEN Rows(received - 1) ELSE Covered
<1> DEFINE batches == {i \in 1..received : events[i].type = "batch"}
           top == IF received <= chunk_index + 1 THEN received ELSE chunk_index + 1
<1>0. /\ received \in Nat /\ received <= Len(events) /\ Len(events) \in Nat /\ Len(events) <= Len(Stream)
      /\ Len(Stream) \in Nat /\ chunk_index \in Nat
      /\ columns_ready \in BOOLEAN /\ returning \in BOOLEAN /\ (~columns_ready => chunk_index = 0)
      /\ Len(Stream) = (IF columns_ready THEN chunk_index + 1 ELSE 0) + (IF returning THEN 1 ELSE 0)
  BY EventsOfStream, Concatenation DEF StreamInv, TypeInv, ChannelInv, CountInv, ShapeInv, Stream
<1>1. \A i \in 1..received : events[i] = Stream[i] /\ i \in 1..Len(Stream)
  BY <1>0, EventsOfStream
<1>2. ASSUME NEW i \in 2..(chunk_index + 1), i <= received
      PROVE  /\ events[i].type = "batch"
             /\ events[i].last = IF i = chunk_index + 1 THEN Covered ELSE Rows(i - 1)
  <2>1. i \in 1..received
    BY <1>0, <1>2
  <2> DEFINE last == IF i = chunk_index + 1 THEN Covered ELSE Rows(i - 1)
  <2>2. Stream[i] = BatchEvent(i - 2, Rows(i - 2) + 1, last)
    BY DEF StreamInv, ShapeInv
  <2> HIDE DEF last
  <2>3. events[i].type = "batch" /\ events[i].last = last
    BY <1>1, <2>1, <2>2 DEF BatchEvent
  <2> QED BY <2>3 DEF last
<1>3. ASSUME NEW i \in 1..received, i = 1 \/ i > chunk_index + 1
      PROVE  events[i].type # "batch"
  <2>1. CASE i = 1 /\ columns_ready
    BY <1>1, <2>1 DEF StreamInv, ShapeInv, SchemaEvent
  <2>2. CASE i > chunk_index + 1 \/ ~columns_ready
    <3>1. i = Len(Stream) /\ returning
      BY <1>0, <1>1, <2>2
    <3>2. Stream[i].type \in {"complete", "error"}
      BY <3>1, TypesOfStream
    <3> QED BY <1>1, <3>2
  <2> QED BY <1>3, <2>1, <2>2
<1>4. batches = {i \in 1..received : i \in 2..(chunk_index + 1)}
  BY <1>0, <1>2, <1>3
<1> HIDE DEF batches
<1>5. CASE received <= 1 \/ chunk_index = 0
  <2>1. batches = {}
    BY <1>0, <1>4, <1>5
  <2> QED BY <1>5, <2>1 DEF RowsReceived, batches
<1>6. CASE received > 1 /\ chunk_index # 0
  <2>1. /\ top \in batches /\ batches \subseteq Nat /\ \A j \in batches : j <= top
        /\ top \in 2..(chunk_index + 1) /\ top <= received
    BY <1>0, <1>4, <1>6
  <2> HIDE DEF top
  <2>2. (CHOOSE i \in batches : \A j \in batches : j <= i) = top /\ batches # {}
    BY <2>1, Greatest
  <2>3. RowsReceived = events[top].last
    BY <2>2 DEF RowsReceived, batches
  <2>4. events[top].last = IF top = chunk_index + 1 THEN Covered ELSE Rows(top - 1)
    BY <1>2, <2>1
  <2> QED BY <1>0, <1>6, <2>3, <2>4 DEF top
<1> QED BY <1>0, <1>5, <1>6

\* Backpressure bounds what drive_sqlx_stream_arrow reads ahead of its reader:
\* the rows in flight fit into the channel's batches and one builder.
THEOREM RowsInFlightBoundedHolds == Spec => []RowsInFlightBounded
<1>1. ASSUME StreamInv PROVE RowsInFlightBounded
  <2> DEFINE k == chunk_index
             n == Len(events)
  <2>0. /\ received \in Nat /\ received <= n /\ n \in Nat /\ k \in Nat /\ n - received <= ChannelCapacity
        /\ ChunkSize \in Nat \ {0} /\ ChannelCapacity \in Nat \ {0}
        /\ builder \in Nat /\ builder < ChunkSize /\ read \in Nat /\ Covered \in Nat
        /\ read = Covered + builder
        /\ k <= n \/ (n = 0 /\ k = 1)
        /\ builder > 0 => k + 1 <= n \/ (n = 0 /\ k = 0)
    BY <1>1, StreamAssumption DEF StreamInv, TypeInv, ChannelInv, OutboxInv, CountInv, Covered
  <2>1. Covered <= Rows(k) /\ (k = 0 => Covered = 0)
    <3>1. CASE k = 0
      BY <1>1, <3>1, RowsFacts DEF StreamInv, CountInv
    <3>2. CASE k # 0
      BY <1>1, <3>2 DEF StreamInv, CountInv
    <3> QED BY <3>1, <3>2
  <2> HIDE DEF k, n
  <2>2. \A c \in Nat : c <= ChannelCapacity + 1 => Rows(c) <= Rows(ChannelCapacity + 1)
    BY <2>0, RowsFacts
  <2>3. \A c \in Nat : c <= ChannelCapacity => Rows(c) + ChunkSize <= Rows(ChannelCapacity + 1)
    BY <2>0, RowsFacts
  <2>4. CASE received <= 1 \/ k = 0
    <3>1. RowsReceived = 0
      BY <1>1, <2>4, RowsReceivedIs DEF k
    <3>2. k <= ChannelCapacity + 1 /\ (builder > 0 => k <= ChannelCapacity)
      BY <2>0, <2>4
    <3>3. read <= Rows(ChannelCapacity + 1)
      <4>1. CASE builder > 0
        BY <2>0, <2>1, <2>3, <3>2, <4>1, RowsFacts
      <4>2. CASE builder = 0
        BY <2>0, <2>1, <2>2, <3>2, <4>2, RowsFacts
      <4> QED BY <2>0, <4>1, <4>2
    <3> QED BY <2>0, <3>1, <3>3 DEF RowsInFlightBounded, Rows
  <2>5. CASE received > 1 /\ k # 0 /\ received <= k
    <3> DEFINE d == k - (received - 1)
    <3>1. RowsReceived = Rows(received - 1)
      BY <1>1, <2>0, <2>5, RowsReceivedIs DEF k
    <3>2. /\ received - 1 \in Nat /\ received - 1 <= k /\ d \in Nat
          /\ d <= ChannelCapacity + 1 /\ (builder > 0 => d <= ChannelCapacity)
      BY <2>0, <2>5
    <3>3. Rows(k) = Rows(received - 1) + Rows(d) /\ Rows(d) \in Nat /\ Rows(received - 1) \in Nat
      BY <2>0, <3>2, RowsFacts
    <3> HIDE DEF d
    <3>4. Rows(d) + builder <= Rows(ChannelCapacity + 1)
      <4>1. CASE builder > 0
        BY <2>0, <2>3, <3>2, <3>3, <4>1, RowsFacts
      <4>2. CASE builder = 0
        BY <2>0, <2>2, <3>2, <3>3, <4>2, RowsFacts
      <4> QED BY <2>0, <4>1, <4>2
    <3>5. Rows(ChannelCapacity + 1) \in Nat
      <4>1. ChannelCapacity + 1 \in Nat
        BY <2>0
      <4> QED BY <4>1, RowsFacts
    <3>6. read - RowsReceived <= Rows(ChannelCapacity + 1)
      BY <2>0, <2>1, <3>1, <3>3, <3>4, <3>5
    <3> QED BY <3>6 DEF RowsInFlightBounded, Rows
  <2>6. CASE received > 1 /\ k # 0 /\ received > k
    <3>1. RowsReceived = Covered
      BY <1>1, <2>0, <2>6, RowsReceivedIs DEF k
    <3>2. Rows(1) <= Rows(ChannelCapacity + 1) /\ Rows(1) = ChunkSize /\ Rows(ChannelCapacity + 1) \in Nat
      BY <2>0, <2>2, RowsFacts
    <3>3. read - RowsReceived <= Rows(ChannelCapacity + 1)
      BY <2>0, <3>1, <3>2
    <3> QED BY <3>3 DEF RowsInFlightBounded, Rows
  <2> QED BY <2>0, <2>4, <2>5, <2>6
<1>2. IInv => RowsInFlightBounded
  BY <1>1 DEF IInv
<1> QED BY <1>2, Invariance, PTL

-----------------------------------------------------------------------------
(* The contract of a stream *)

\* What drive_sqlx_stream_arrow sends is what every stream promises: module
\* ResultStream, with the rows the query fetches as its total.
THEOREM StreamContractHolds == Spec => StreamContract
<1>1. Init => Contract!Init
  BY DEF Init, StreamInit, Contract!Init
<1>2. IInv /\ [Next]_vars => [Contract!Next]_events
  <2> SUFFICES ASSUME IInv, [Next]_vars, events' # events PROVE Contract!Next
    OBVIOUS
  <2>1. SendEvent
    BY DEF Next, HandleOther, HandleError, HandleBuffered, Return, HandleStreaming, Spawn, Collect,
           CollectEnd, Abort, ProducerStep, Producer, RowArrives, RowsExhausted, RowFails,
           BatchFails, SendFails, ProducerReturns, vars, streamVars
  <2> DEFINE m == Len(events) + 1
             e == Stream[m]
  <2>2. /\ StreamInv /\ chunk_index \in Nat /\ columns_ready \in BOOLEAN /\ returning \in BOOLEAN
        /\ events \in Seq(EventSet) /\ Len(events) \in Nat /\ Len(Stream) \in Nat
        /\ Fetched(query) \in Nat /\ Covered \in Nat /\ Covered <= Fetched(query)
        /\ Len(Stream) = (IF columns_ready THEN chunk_index + 1 ELSE 0) + (IF returning THEN 1 ELSE 0)
        /\ ~columns_ready => chunk_index = 0
    <3>1. StreamInv /\ TypeInv /\ CountInv /\ ShapeInv
      BY DEF IInv, StreamInv
    <3>2. Len(Stream) \in Nat
      BY <3>1, Concatenation DEF TypeInv, Stream
    <3>3. Covered \in Nat /\ Covered <= Fetched(query) /\ Fetched(query) \in Nat
      BY <3>1, FetchedIsNat DEF TypeInv, CountInv, Covered
    <3> QED BY <3>1, <3>2, <3>3 DEF TypeInv, CountInv, ShapeInv
  <2>3. events' = Append(events, e) /\ m <= Len(Stream) /\ \A i \in 1..Len(events) : events[i] = Stream[i]
    BY <2>1, <2>2, SendKeepsStream DEF SendEvent, StreamInv
  <2>4. events # <<>> => Len(events) \in 1..Len(Stream) /\ Len(events) < Len(Stream)
    BY <2>2, <2>3
  <2>5. Contract!Open
    <3>1. CASE events = <<>>
      BY <3>1 DEF Contract!Open
    <3>2. CASE events # <<>>
      <4>1. events[Len(events)] = Stream[Len(events)]
        BY <2>2, <2>3, <2>4, <3>2
      <4>2. Stream[Len(events)].type \in {"schema", "batch"}
        BY <2>2, <2>4, <3>2, TypesOfStream
      <4> QED BY <4>1, <4>2 DEF Contract!Open, Contract!Last
    <3> QED BY <3>1, <3>2
  <2>6. ASSUME Len(events) >= 1, Len(events) <= chunk_index + 1, columns_ready
        PROVE  /\ events # <<>> /\ Contract!LastRow \in Nat
               /\ Contract!LastRow = IF Len(events) = chunk_index + 1 THEN Covered ELSE Rows(Len(events) - 1)
    <3> DEFINE i == Len(events)
    <3>0. i \in Nat /\ chunk_index \in Nat
      BY <2>2
    <3>1. events # <<>> /\ Contract!Last = Stream[i]
      BY <2>2, <2>3, <2>4, <2>6 DEF Contract!Last
    <3>2. CASE i = 1
      <4>1. Contract!LastRow = 0
        BY <2>2, <2>6, <3>1, <3>2 DEF StreamInv, ShapeInv, SchemaEvent, Contract!LastRow
      <4>2. Rows(i - 1) = 0
        BY <3>2, RowsFacts
      <4>3. i = chunk_index + 1 => Covered = 0
        <5>1. i = chunk_index + 1 => chunk_index = 0
          BY <3>0, <3>2
        <5> QED BY <2>2, <5>1 DEF StreamInv, CountInv
      <4> QED BY <3>1, <4>1, <4>2, <4>3
    <3>3. CASE i # 1
      <4> DEFINE last == IF i = chunk_index + 1 THEN Covered ELSE Rows(i - 1)
      <4>1. i \in 2..(chunk_index + 1) /\ i - 1 \in Nat
        BY <2>6, <3>0, <3>3
      <4>2. Stream[i] = BatchEvent(i - 2, Rows(i - 2) + 1, last)
        BY <2>2, <4>1 DEF StreamInv, ShapeInv
      <4>3. last \in Nat
        BY <2>2, <4>1, RowsFacts
      <4> HIDE DEF last
      <4>4. Contract!LastRow = last
        BY <3>1, <4>2 DEF Contract!LastRow, BatchEvent
      <4> QED BY <3>1, <4>3, <4>4 DEF last
    <3> QED BY <3>2, <3>3
  <2>7. CASE m = Len(Stream) /\ returning
    <3>1. CASE e = ErrorEvent
      BY <2>3, <2>5, <3>1 DEF Contract!Fail, ErrorEvent, Contract!Next
    <3>2. CASE e # ErrorEvent
      <4>1. /\ e = CompleteEvent(chunk_index, Fetched(query))
            /\ columns_ready /\ builder = 0 /\ read = Fetched(query)
        BY <2>2, <2>7, <3>2 DEF StreamInv, ShapeInv
      <4>2. Len(events) = chunk_index + 1
        BY <2>2, <2>7, <4>1
      <4>3. events # <<>> /\ Contract!LastRow = Covered
        BY <2>2, <2>6, <4>1, <4>2
      <4>4. Covered = Fetched(query) /\ chunk_index = Len(events) - 1
        BY <2>2, <4>1, <4>2 DEF Covered
      <4>5. events' = Append(events, [type |-> "complete", total_chunks |-> Len(events) - 1,
                                      total_rows |-> Fetched(query)])
        BY <2>3, <4>1, <4>4 DEF CompleteEvent
      <4> QED BY <2>5, <4>3, <4>4, <4>5 DEF Contract!Complete, Contract!Next
    <3> QED BY <3>1, <3>2
  <2>8. CASE ~(m = Len(Stream) /\ returning)
    <3>1. columns_ready /\ m <= chunk_index + 1
      BY <2>2, <2>3, <2>8
    <3>2. CASE m = 1
      <4>1. events = <<>> /\ e = SchemaEvent
        BY <2>2, <3>1, <3>2 DEF StreamInv, ShapeInv
      <4>2. events' = <<[type |-> "schema"]>>
        BY <2>3, <4>1 DEF SchemaEvent
      <4> QED BY <4>1, <4>2 DEF Contract!Schema, Contract!Next
    <3>3. CASE m # 1
      <4> DEFINE l == Contract!LastRow
                 last == IF m = chunk_index + 1 THEN Covered ELSE Rows(m - 1)
      <4>1. /\ m \in 2..(chunk_index + 1) /\ m - 2 = Len(events) - 1 /\ m - 2 \in Nat /\ m - 1 \in Nat
            /\ chunk_index # 0 /\ chunk_index - 1 \in Nat
        BY <2>2, <3>1, <3>3
      <4>2. events # <<>> /\ l = Rows(m - 2) /\ l \in Nat
        <5>1. /\ Len(events) >= 1 /\ Len(events) <= chunk_index + 1 /\ Len(events) # chunk_index + 1
              /\ Len(events) - 1 = m - 2
          <6>1. Len(events) \in Nat /\ chunk_index \in Nat
            BY <2>2
          <6> QED BY <3>1, <3>3, <6>1
        <5>2. events # <<>> /\ l \in Nat /\ l = Rows(Len(events) - 1)
          BY <2>6, <3>1, <5>1
        <5> QED BY <5>1, <5>2
      <4>3. e = BatchEvent(m - 2, Rows(m - 2) + 1, last)
        BY <2>2, <4>1 DEF StreamInv, ShapeInv
      <4>4. last \in Nat /\ l <= last /\ last <= Fetched(query)
        <5>1. Rows(chunk_index - 1) < Covered
          <6>1. chunk_index # 0
            BY <4>1
          <6> HIDE DEF m, e
          <6> QED BY <2>2, <6>1 DEF StreamInv, CountInv
        <5>2. CASE m = chunk_index + 1
          <6>1. m - 2 = chunk_index - 1
            BY <2>2, <5>2
          <6>2. Rows(chunk_index - 1) \in Nat
            BY <4>1, RowsFacts
          <6> QED BY <2>2, <4>2, <5>1, <5>2, <6>1, <6>2
        <5>3. CASE m # chunk_index + 1
          <6>1. m - 1 <= chunk_index - 1 /\ m - 2 <= m - 1
            BY <2>2, <4>1, <5>3
          <6>2. /\ Rows(m - 1) \in Nat /\ Rows(chunk_index - 1) \in Nat
                /\ Rows(m - 2) <= Rows(m - 1) /\ Rows(m - 1) <= Rows(chunk_index - 1)
            BY <4>1, <6>1, RowsFacts
          <6> QED BY <2>2, <4>2, <5>1, <5>3, <6>2
        <5> QED BY <5>2, <5>3
      <4> HIDE DEF l, last, m, e
      <4> DEFINE d == last - l
      <4>5. d \in 0..(Fetched(query) - l) /\ last = l + d
        BY <2>2, <4>2, <4>4
      <4>6. e = [type |-> "batch", chunk_index |-> Len(events) - 1, first |-> l + 1, last |-> l + d]
        BY <4>1, <4>2, <4>3, <4>5 DEF BatchEvent
      <4> HIDE DEF d
      <4>7. Contract!Batch
        BY <2>3, <2>5, <4>2, <4>5, <4>6 DEF Contract!Batch, l
      <4> QED BY <4>7 DEF Contract!Next
    <3> QED BY <3>2, <3>3
  <2> QED BY <2>7, <2>8
<1> QED BY <1>1, <1>2, Invariance, PTL DEF Spec, StreamContract, Contract!Spec
=============================================================================
