---------------------------- MODULE ResultStream ----------------------------
(***************************************************************************)
(* What every Arrow stream promises its reader, whatever provider feeds it *)
(* (the events of kyomi-connect-protocol's stream.rs): one schema, batches *)
(* numbered from zero that carry consecutive rows, and at most one last    *)
(* event, which is an error or a summary that adds up.                     *)
(***************************************************************************)
EXTENDS Naturals, Sequences

VARIABLES
  events,  \* everything sent so far
  total    \* rows the query has

Init == events = <<>>

Last == events[Len(events)]
Open == events = <<>> \/ Last.type \in {"schema", "batch"}
LastRow == IF Last.type = "batch" THEN Last.last ELSE 0

Schema ==
  /\ events = <<>>
  /\ events' = <<[type |-> "schema"]>>

Batch ==
  /\ events # <<>> /\ Open
  /\ \E n \in 0..(total - LastRow) :
       events' = Append(events, [type |-> "batch", chunk_index |-> Len(events) - 1,
                                 first |-> LastRow + 1, last |-> LastRow + n])

Complete ==
  /\ events # <<>> /\ Open
  /\ LastRow = total
  /\ events' = Append(events, [type |-> "complete", total_chunks |-> Len(events) - 1,
                               total_rows |-> total])

Fail ==
  /\ Open
  /\ events' = Append(events, [type |-> "error"])

\* The next query starts with a stream of its own.
Reset == events' = <<>>

Next == Schema \/ Batch \/ Complete \/ Fail \/ Reset

Spec == Init /\ [][Next]_events
=============================================================================
