---------------------------- MODULE ArrowStream ----------------------------
(***************************************************************************)
(* A query streamed by the sqlx providers (PostgreSQL, MySQL, Redshift):   *)
(* the producer task drive_sqlx_stream_arrow, which turns rows into Arrow  *)
(* events, and the bounded channel of make_arrow_stream_channel to whoever *)
(* collects them (module Executor).  The producer is spawned and belongs   *)
(* to nobody: it only learns that its receiver is gone when it next sends. *)
(***************************************************************************)
EXTENDS Integers, Sequences

CONSTANTS
  ChunkSize,        \* rows per batch: chunk_size.unwrap_or(100)
  ChannelCapacity,  \* slots of the event channel: mpsc::channel(4)
  DefaultLimit,     \* prepare_query's limit.unwrap_or(1000)
  NoLimit,          \* limit: None
  MaxLimit,         \* bound: largest limit a request gives
  MaxRows           \* bound: rows a query matches from its offset on

ASSUME StreamAssumption ==
  /\ ChunkSize \in Nat \ {0}
  /\ ChannelCapacity \in Nat \ {0}
  /\ DefaultLimit \in Nat
  /\ MaxLimit \in Nat
  /\ MaxRows \in Nat
  /\ NoLimit \notin Nat

(***************************************************************************)
(* A query, as far as pagination sees it: whether it starts with SELECT or *)
(* WITH, whether its text already contains LIMIT, the limit parameter, and *)
(* how many rows the SQL matches from the requested offset on.             *)
(***************************************************************************)
Queries == [select : BOOLEAN, has_limit : BOOLEAN,
            limit : {NoLimit} \cup 0..MaxLimit, matching : 0..MaxRows]

EffectiveLimit(q) == IF q.limit = NoLimit THEN DefaultLimit ELSE q.limit

\* Rows the database returns for the SQL that prepare_query builds.
Fetched(q) ==
  IF q.select /\ ~q.has_limit /\ EffectiveLimit(q) < q.matching
  THEN EffectiveLimit(q)
  ELSE q.matching

(***************************************************************************)
(* ArrowStreamEvent.  A batch is known by its chunk_index and the numbers  *)
(* of its first and last row.                                              *)
(***************************************************************************)
SchemaEvent == [type |-> "schema"]
BatchEvent(c, lo, hi) == [type |-> "batch", chunk_index |-> c, first |-> lo, last |-> hi]
CompleteEvent(c, n) == [type |-> "complete", total_chunks |-> c, total_rows |-> n]
ErrorEvent == [type |-> "error"]

VARIABLES
  query,          \* the query being executed
  producer,       \* "none", "running", "stopped"
  read,           \* total_rows_returned
  builder,        \* builder.row_count(), rows not yet in a batch
  chunk_index,
  columns_ready,
  outbox,         \* events the producer is about to send, in this order
  returning,      \* the producer returns once its outbox is empty
  events,         \* every event ever sent into the channel
  received,       \* how many of them have been received
  rx              \* the receiving half: "open" or "dropped"

producerVars == <<producer, read, builder, chunk_index, columns_ready, outbox, returning>>
streamVars == <<query, producerVars, events, received, rx>>

StreamInit ==
  /\ query \in Queries
  /\ producer = "none"
  /\ read = 0
  /\ builder = 0
  /\ chunk_index = 0
  /\ columns_ready = FALSE
  /\ outbox = <<>>
  /\ returning = FALSE
  /\ events = <<>>
  /\ received = 0
  /\ rx = "open"

-----------------------------------------------------------------------------
\* The provider's execute_query_stream_arrow spawns the producer.
Spawn ==
  /\ producer = "none"
  /\ producer' = "running"
  /\ UNCHANGED <<query, read, builder, chunk_index, columns_ready, outbox,
                 returning, events, received, rx>>

\* The producer waits in timeout(row_stream.next()).
Waiting == producer = "running" /\ outbox = <<>> /\ ~returning

\* The schema goes out before whatever comes first.
SchemaFirst == IF columns_ready THEN <<>> ELSE <<SchemaEvent>>

\* The batch of the rows in the builder once row number n has been added.
BatchUpTo(n) == BatchEvent(chunk_index, n - builder, n)

Full(n) == n >= ChunkSize

\* A row arrives: emit the schema before the first one, add the row to the
\* builder, flush a full builder as a batch.
RowArrives ==
  /\ Waiting
  /\ read < Fetched(query)
  /\ read' = read + 1
  /\ columns_ready' = TRUE
  /\ IF Full(builder + 1)
     THEN /\ outbox' = Append(SchemaFirst, BatchUpTo(read + 1))
          /\ builder' = 0
          /\ chunk_index' = chunk_index + 1
     ELSE /\ outbox' = SchemaFirst
          /\ builder' = builder + 1
          /\ UNCHANGED chunk_index
  /\ UNCHANGED <<query, producer, returning, events, received, rx>>

\* Mutant: the rows left in the builder are not flushed.
RowsExhaustedDropsRest ==
  /\ Waiting
  /\ read = Fetched(query)
  /\ outbox' = Append(SchemaFirst, CompleteEvent(chunk_index, read))
  /\ columns_ready' = TRUE
  /\ builder' = 0
  /\ returning' = TRUE
  /\ UNCHANGED <<query, producer, read, chunk_index, events, received, rx>>

\* The rows are exhausted: emit the schema if there were none, flush what is
\* left in the builder, complete and return.
RowsExhausted ==
  /\ Waiting
  /\ read = Fetched(query)
  /\ LET rest == IF builder > 0
                 THEN <<BatchEvent(chunk_index, read - builder + 1, read)>> ELSE <<>>
         chunks == chunk_index + Len(rest)
     IN /\ outbox' = SchemaFirst \o rest \o <<CompleteEvent(chunks, read)>>
        /\ chunk_index' = chunks
  /\ columns_ready' = TRUE
  /\ builder' = 0
  /\ returning' = TRUE
  /\ UNCHANGED <<query, producer, read, events, received, rx>>

\* Mutant: the producer returns without reporting the error.
RowFailsSilently ==
  /\ Waiting
  /\ returning' = TRUE
  /\ UNCHANGED <<query, producer, read, builder, chunk_index, columns_ready,
                 outbox, events, received, rx>>

\* The database reports an error, the query times out, or a schema cannot be
\* serialised: emit the error and return.
RowFails ==
  /\ Waiting
  /\ outbox' = <<ErrorEvent>>
  /\ returning' = TRUE
  /\ UNCHANGED <<query, producer, read, builder, chunk_index, columns_ready,
                 events, received, rx>>

\* A batch cannot be serialised: as RowFails, but the schema of a first row
\* has gone out before.
BatchFails ==
  /\ Waiting
  /\ \/ read < Fetched(query) /\ Full(builder + 1)
     \/ read = Fetched(query) /\ builder > 0
  /\ outbox' = Append(SchemaFirst, ErrorEvent)
  /\ columns_ready' = TRUE
  /\ returning' = TRUE
  /\ UNCHANGED <<query, producer, read, builder, chunk_index, events, received, rx>>

\* Mutant: slots are never freed.
EventRoomOnce == Len(events) < ChannelCapacity

\* The channel has a free slot.
EventRoom == Len(events) - received < ChannelCapacity

\* tx.send(event).await waits for a slot.
SendEvent ==
  /\ producer = "running"
  /\ outbox # <<>>
  /\ rx = "open"
  /\ EventRoom
  /\ events' = Append(events, Head(outbox))
  /\ outbox' = Tail(outbox)
  /\ UNCHANGED <<query, producer, read, builder, chunk_index, columns_ready,
                 returning, received, rx>>

\* Mutant: a failed send is ignored and the producer reads on.
SendFailsIgnored ==
  /\ producer = "running"
  /\ outbox # <<>>
  /\ rx = "dropped"
  /\ outbox' = Tail(outbox)
  /\ UNCHANGED <<query, producer, read, builder, chunk_index, columns_ready,
                 returning, events, received, rx>>

\* Mutant: a sender that waits for a slot is not told of the dropped receiver.
SendFailsUnlessFull ==
  /\ producer = "running"
  /\ outbox # <<>>
  /\ rx = "dropped"
  /\ EventRoom
  /\ producer' = "stopped"
  /\ UNCHANGED <<query, read, builder, chunk_index, columns_ready, outbox,
                 returning, events, received, rx>>

\* tx.send(event).await fails, the receiver is gone: return.
SendFails ==
  /\ producer = "running"
  /\ outbox # <<>>
  /\ rx = "dropped"
  /\ producer' = "stopped"
  /\ UNCHANGED <<query, read, builder, chunk_index, columns_ready, outbox,
                 returning, events, received, rx>>

\* The producer returns and drops tx.
ProducerReturns ==
  /\ producer = "running"
  /\ outbox = <<>>
  /\ returning
  /\ producer' = "stopped"
  /\ UNCHANGED <<query, read, builder, chunk_index, columns_ready, outbox,
                 returning, events, received, rx>>

Producer ==
  RowArrives \/ RowsExhausted \/ RowFails \/ BatchFails \/ SendEvent \/ SendFails
  \/ ProducerReturns

\* The receiver's two answers: the next event, or None once the channel is
\* empty and every sender is gone.
EventReady == received < Len(events)
EndOfStream == received = Len(events) /\ producer = "stopped"

-----------------------------------------------------------------------------
(* Properties of the stream *)

\* The rows the collector has taken over, in the batches it received.
RowsReceived ==
  LET batches == {i \in 1..received : events[i].type = "batch"}
  IN IF batches = {} THEN 0
     ELSE events[CHOOSE i \in batches : \A j \in batches : j <= i].last

\* Backpressure bounds the producer's lead: however far the database is ahead of
\* the collector, the rows read but not yet collected fit into the channel's
\* batches and one builder.  (It is no bound on memory: execute_query_streaming_arrow
\* keeps every event it has collected.)  After an abort the collector
\* takes nothing more, so the orphaned producer stops reading within that bound
\* (every failed tx.send makes drive_sqlx_stream_arrow return).
RowsInFlightBounded ==
  read - RowsReceived <= (ChannelCapacity + 1) * ChunkSize

=============================================================================
