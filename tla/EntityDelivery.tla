---------------------------- MODULE EntityDelivery ----------------------------
(***************************************************************************)
(* The entity pipeline: a collector publishes entities, RabbitMQ queues    *)
(* them, replicas of persister-mysql consume the queue with manual         *)
(* acknowledgement and write them to the sink database                     *)
(* (amqpctl/client.go consumeJSONOnce, persister-mysql/main.go).           *)
(*                                                                         *)
(* Messages are numbered in publish order, so of two messages of one       *)
(* entity the larger is the newer observation.  How a replica loses and    *)
(* regains its channel is AmqpClient's subject: here a channel is open or  *)
(* not.                                                                    *)
(***************************************************************************)
EXTENDS Naturals, Sequences, FiniteSets

CONSTANTS
    Replicas,     \* persister-mysql processes on the one queue
    N,            \* messages 1..N are published
    Key,          \* Key[m]: source_hash of the entity message m describes
    Fields,       \* Fields[m]: columns that m's structure maps to
    Malformed,    \* messages that do not decode, or with an unknown envelope
    MaxFaults,    \* bound: lost publishes, channel drops and crashes
    MaxDbErrors,  \* bound: failing statements on the sink
    MaxStops      \* bound: graceful shutdowns (SIGTERM)

Messages == 1..N
Meta == "meta"    \* the fixed columns of every sink table
Keys == {Key[m] : m \in Messages}
Columns == {Meta} \cup UNION {Fields[m] : m \in Messages}

ASSUME DeliveryAssumption ==
    /\ N \in Nat /\ MaxFaults \in Nat /\ MaxDbErrors \in Nat /\ MaxStops \in Nat
    /\ Malformed \subseteq Messages
    /\ \A m \in Messages : Meta \notin Fields[m]

VARIABLES
    sent,        \* messages 1..sent were published without error
    bound,       \* some replica has declared and bound the queue
    accepted,    \* history: messages that reached the queue
    ready,       \* messages in the queue, not delivered to anyone
    unacked,     \* unacked[r]: delivered on r's open channel and not settled
    buffer,      \* buffer[r]: deliveries waiting inside the client library
    chanOpen,    \* chanOpen[r]: r's channel is open
    pc,          \* pc[r]: where replica r is
    cur,         \* cur[r]: message in r's handler
    seen,        \* seen[r]: columns ensureTable believes to exist
    cancelled,   \* cancelled[r]: r's process context is done
    table,       \* columns of the sink table; {} while it does not exist
    row,         \* row[k]: message whose values the row of entity k holds, 0 for none
    applied,     \* history: messages written to the sink at least once
    acked,       \* history: acknowledged messages
    rejected,    \* history: messages refused with requeue = false
    faults, dbErrors, stops   \* bounds' counters

queue == <<accepted, ready, unacked, acked, rejected>>
worker == <<pc, cur, seen>>
sink == <<table, row, applied>>
vars == <<sent, bound, queue, buffer, chanOpen, worker, cancelled, sink, faults, dbErrors, stops>>

Handling == {"decode", "columns", "create", "alter", "upsert", "ack", "nack"}
Phases == Handling \cup {"down", "receive", "wait"}

\* Type invariant.  A replica has a message in its handler exactly while it handles one: the
\* range loop never hands out the zero delivery of a closed stream.
TypeOK ==
    /\ sent \in 0..N
    /\ bound \in BOOLEAN
    /\ accepted \in SUBSET Messages /\ ready \in SUBSET Messages
    /\ unacked \in [Replicas -> SUBSET Messages]
    /\ buffer \in [Replicas -> Seq(Messages)]
    /\ chanOpen \in [Replicas -> BOOLEAN]
    /\ pc \in [Replicas -> Phases]
    /\ cur \in [Replicas -> 0..N]
    /\ \A r \in Replicas : cur[r] # 0 <=> pc[r] \in Handling
    /\ seen \in [Replicas -> SUBSET Columns]
    /\ cancelled \in [Replicas -> BOOLEAN]
    /\ table \in SUBSET Columns
    /\ row \in [Keys -> 0..N]
    /\ applied \in SUBSET Messages /\ acked \in SUBSET Messages /\ rejected \in SUBSET Messages
    /\ faults \in 0..MaxFaults /\ dbErrors \in 0..MaxDbErrors /\ stops \in 0..MaxStops

Init ==
    /\ sent = 0 /\ bound = FALSE
    /\ accepted = {} /\ ready = {}
    /\ unacked = [r \in Replicas |-> {}]
    /\ buffer = [r \in Replicas |-> <<>>]
    /\ chanOpen = [r \in Replicas |-> FALSE]
    /\ pc = [r \in Replicas |-> "down"]
    /\ cur = [r \in Replicas |-> 0]
    /\ seen = [r \in Replicas |-> {}]
    /\ cancelled = [r \in Replicas |-> FALSE]
    /\ table = {} /\ row = [k \in Keys |-> 0]
    /\ applied = {} /\ acked = {} /\ rejected = {}
    /\ faults = 0 /\ dbErrors = 0 /\ stops = 0

Fault == faults < MaxFaults /\ faults' = faults + 1 /\ UNCHANGED <<dbErrors, stops>>
DbError == dbErrors < MaxDbErrors /\ dbErrors' = dbErrors + 1 /\ UNCHANGED <<faults, stops>>
NoFault == UNCHANGED <<faults, dbErrors, stops>>
Goto(r, phase) == pc' = [pc EXCEPT ![r] = phase]

-----------------------------------------------------------------------------
(***************************************************************************)
(* Publishing and the broker.                                              *)
(***************************************************************************)

\* PublishJSON: without confirms and with mandatory = false, a nil error does not mean the
\* message was routed to a queue or survived the connection it was written to.
Publish ==
    /\ sent < N
    /\ sent' = sent + 1
    /\ \/ /\ bound /\ NoFault
          /\ accepted' = accepted \cup {sent'} /\ ready' = ready \cup {sent'}
       \/ (IF bound THEN Fault ELSE NoFault) /\ UNCHANGED <<accepted, ready>>
    /\ UNCHANGED <<bound, unacked, acked, rejected, buffer, chanOpen, worker, cancelled, sink>>

\* The broker forgets a message once it is written to a consumer (automatic acknowledgement).
PushAutoAck(r) ==
    /\ chanOpen[r]
    /\ \E m \in ready :
         /\ \A n \in ready : m <= n
         /\ ready' = ready \ {m}
         /\ buffer' = [buffer EXCEPT ![r] = Append(@, m)]
    /\ NoFault
    /\ UNCHANGED <<sent, bound, accepted, unacked, acked, rejected, chanOpen, worker, cancelled, sink>>

\* The broker sends the oldest message to a consumer; without a prefetch limit (no Qos call)
\* it does not wait for earlier ones to be settled.  After SIGTERM it may still push, until
\* it has handled the cancel.
Push(r) ==
    /\ chanOpen[r]
    /\ \E m \in ready :
         /\ \A n \in ready : m <= n
         /\ ready' = ready \ {m}
         /\ unacked' = [unacked EXCEPT ![r] = @ \cup {m}]
         /\ buffer' = [buffer EXCEPT ![r] = Append(@, m)]
    /\ NoFault
    /\ UNCHANGED <<sent, bound, accepted, acked, rejected, chanOpen, worker, cancelled, sink>>

\* r's channel ends: everything unsettled on it goes back to its place in the queue.
LoseChannel(r) ==
    /\ chanOpen' = [chanOpen EXCEPT ![r] = FALSE]
    /\ ready' = ready \cup unacked[r]
    /\ unacked' = [unacked EXCEPT ![r] = {}]
    /\ UNCHANGED <<accepted, acked, rejected>>

ChannelDrop(r) ==
    /\ chanOpen[r]
    /\ Fault
    /\ LoseChannel(r)
    /\ UNCHANGED <<sent, bound, buffer, worker, cancelled, sink>>

-----------------------------------------------------------------------------
(***************************************************************************)
(* The consume loop.                                                       *)
(***************************************************************************)

\* Does not subscribe again after a loss.
SubscribeOnce(r) ==
    /\ pc[r] = "down"
    /\ bound' = TRUE
    /\ chanOpen' = [chanOpen EXCEPT ![r] = TRUE]
    /\ Goto(r, "receive")
    /\ NoFault
    /\ UNCHANGED <<sent, queue, buffer, cur, seen, cancelled, sink>>

\* EnsureQueue at process start, or openChannel, declare, bind and consume after a loss.
Subscribe(r) ==
    /\ pc[r] \in {"down", "wait"} /\ ~cancelled[r]
    /\ bound' = TRUE
    /\ chanOpen' = [chanOpen EXCEPT ![r] = TRUE]
    /\ Goto(r, "receive")
    /\ NoFault
    /\ UNCHANGED <<sent, queue, buffer, cur, seen, cancelled, sink>>

\* The next delivery of the range loop, which the library may have buffered before the
\* channel was lost.
Receive(r) ==
    /\ pc[r] = "receive" /\ buffer[r] # <<>>
    /\ cur' = [cur EXCEPT ![r] = Head(buffer[r])]
    /\ buffer' = [buffer EXCEPT ![r] = Tail(@)]
    /\ Goto(r, "decode")
    /\ NoFault
    /\ UNCHANGED <<sent, bound, queue, chanOpen, seen, cancelled, sink>>

\* Without the channel the range loop ends, and what the library still buffered is forgotten.
StreamEnds(r) ==
    /\ pc[r] = "receive" /\ ~chanOpen[r] /\ ~cancelled[r]
    /\ buffer' = [buffer EXCEPT ![r] = <<>>]
    /\ Goto(r, "wait")
    /\ NoFault
    /\ UNCHANGED <<sent, bound, queue, chanOpen, cur, seen, cancelled, sink>>

\* Settles the delivery before its handler has run.
DecodeAfterAck(r) ==
    /\ pc[r] = "decode"
    /\ Goto(r, IF cur[r] \in Malformed THEN "nack" ELSE "columns")
    /\ IF cur[r] \in unacked[r]
       THEN /\ unacked' = [unacked EXCEPT ![r] = @ \ {cur[r]}]
            /\ acked' = acked \cup {cur[r]}
       ELSE UNCHANGED <<unacked, acked>>
    /\ NoFault
    /\ UNCHANGED <<sent, bound, accepted, ready, rejected, buffer, chanOpen, cur, seen, cancelled, sink>>

\* json.Unmarshal and the envelope check of persistEntity.
Decode(r) ==
    /\ pc[r] = "decode"
    /\ Goto(r, IF cur[r] \in Malformed THEN "nack" ELSE "columns")
    /\ NoFault
    /\ UNCHANGED <<sent, bound, queue, buffer, chanOpen, cur, seen, cancelled, sink>>

\* A statement on the sink fails; always so once the process context is done.
StatementFails(r) == IF cancelled[r] THEN NoFault ELSE DbError

\* ensureTable: reads information_schema, and compares.
ReadColumns(r) ==
    /\ pc[r] = "columns"
    /\ \/ /\ ~cancelled[r] /\ NoFault
          /\ seen' = [seen EXCEPT ![r] = table]
          /\ Goto(r, IF table = {} THEN "create"
                     ELSE IF Fields[cur[r]] \subseteq table THEN "upsert" ELSE "alter")
       \/ StatementFails(r) /\ Goto(r, "nack") /\ UNCHANGED seen
    /\ UNCHANGED <<sent, bound, queue, buffer, chanOpen, cur, cancelled, sink>>

\* CREATE TABLE IF NOT EXISTS: nothing happens when another replica was first.
CreateTable(r) ==
    /\ pc[r] = "create"
    /\ \/ /\ ~cancelled[r] /\ NoFault
          /\ table' = IF table = {} THEN {Meta} \cup Fields[cur[r]] ELSE table
          /\ Goto(r, "upsert")
       \/ StatementFails(r) /\ Goto(r, "nack") /\ UNCHANGED table
    /\ UNCHANGED <<sent, bound, queue, buffer, chanOpen, cur, seen, cancelled, row, applied>>

\* Adds the first missing column only.
AlterTableOnce(r) ==
    /\ pc[r] = "alter"
    /\ \E col \in Fields[cur[r]] \ seen[r] : table' = table \cup {col}
    /\ Goto(r, "upsert") /\ NoFault
    /\ UNCHANGED <<sent, bound, queue, buffer, chanOpen, cur, seen, cancelled, row, applied>>

\* One ALTER TABLE ADD COLUMN per missing column, in map order; a column that another
\* replica has added since ReadColumns is a duplicate-column error.
AlterTable(r) ==
    /\ pc[r] = "alter"
    /\ \/ \E col \in Fields[cur[r]] \ seen[r] :
             /\ ~cancelled[r] /\ col \notin table /\ NoFault
             /\ table' = table \cup {col}
             /\ seen' = [seen EXCEPT ![r] = @ \cup {col}]
             /\ Goto(r, IF Fields[cur[r]] \subseteq seen'[r] THEN "upsert" ELSE "alter")
       \/ /\ IF Fields[cur[r]] \cap table \subseteq seen[r] THEN StatementFails(r) ELSE NoFault
          /\ Goto(r, "nack") /\ UNCHANGED <<table, seen>>
    /\ UNCHANGED <<sent, bound, queue, buffer, chanOpen, cur, cancelled, row, applied>>

WriteRow(m) == row' = [row EXCEPT ![Key[m]] = m] /\ applied' = applied \cup {m}

\* INSERT ... ON DUPLICATE KEY UPDATE on source_hash_value; observed_unix_ms is not compared.
\* It fails on a column the table does not have; a failure reported by the connection may
\* have been committed.
Upsert(r) ==
    /\ pc[r] = "upsert"
    /\ IF Fields[cur[r]] \subseteq table
       THEN \/ ~cancelled[r] /\ NoFault /\ WriteRow(cur[r]) /\ Goto(r, "ack")
            \/ /\ StatementFails(r) /\ Goto(r, "nack")
               /\ WriteRow(cur[r]) \/ UNCHANGED <<row, applied>>
       ELSE NoFault /\ Goto(r, "nack") /\ UNCHANGED <<row, applied>>
    /\ UNCHANGED <<sent, bound, queue, buffer, chanOpen, cur, seen, cancelled, table>>

\* The handler returned nil.  On a lost channel Ack fails and consumeJSONOnce returns.
Ack(r) ==
    /\ pc[r] = "ack"
    /\ IF chanOpen[r]
       THEN /\ unacked' = [unacked EXCEPT ![r] = @ \ {cur[r]}]
            /\ acked' = acked \cup {cur[r]}
            /\ Goto(r, "receive") /\ UNCHANGED buffer
       ELSE /\ Goto(r, IF cancelled[r] THEN "receive" ELSE "wait")
            /\ buffer' = [buffer EXCEPT ![r] = <<>>]
            /\ UNCHANGED <<unacked, acked>>
    /\ cur' = [cur EXCEPT ![r] = 0]
    /\ NoFault
    /\ UNCHANGED <<sent, bound, accepted, ready, rejected, chanOpen, seen, cancelled, sink>>

\* Requeues what a handler refuses.
NackRequeue(r) ==
    /\ pc[r] = "nack"
    /\ IF chanOpen[r]
       THEN unacked' = [unacked EXCEPT ![r] = @ \ {cur[r]}] /\ ready' = ready \cup {cur[r]}
       ELSE UNCHANGED <<unacked, ready>>
    /\ Goto(r, "receive")
    /\ cur' = [cur EXCEPT ![r] = 0]
    /\ NoFault
    /\ UNCHANGED <<sent, bound, accepted, acked, rejected, buffer, chanOpen, seen, cancelled, sink>>

\* The handler failed: Nack(false, false) drops the message, its error is ignored and the
\* loop goes on.
Nack(r) ==
    /\ pc[r] = "nack"
    /\ IF chanOpen[r]
       THEN unacked' = [unacked EXCEPT ![r] = @ \ {cur[r]}] /\ rejected' = rejected \cup {cur[r]}
       ELSE UNCHANGED <<unacked, rejected>>
    /\ Goto(r, "receive")
    /\ cur' = [cur EXCEPT ![r] = 0]
    /\ NoFault
    /\ UNCHANGED <<sent, bound, accepted, ready, acked, buffer, chanOpen, seen, cancelled, sink>>

-----------------------------------------------------------------------------
(***************************************************************************)
(* Processes ending.                                                       *)
(***************************************************************************)

Halt(r) ==
    /\ LoseChannel(r)
    /\ buffer' = [buffer EXCEPT ![r] = <<>>]
    /\ Goto(r, "down")
    /\ cur' = [cur EXCEPT ![r] = 0]
    /\ cancelled' = [cancelled EXCEPT ![r] = FALSE]

\* The process is killed, wherever it is.
Crash(r) ==
    /\ pc[r] # "down"
    /\ Fault
    /\ Halt(r)
    /\ UNCHANGED <<sent, bound, seen, sink>>

\* SIGTERM: the context is done, the library cancels the consumer, and the range loop still
\* receives what is buffered.
Terminate(r) ==
    /\ pc[r] # "down" /\ ~cancelled[r]
    /\ stops < MaxStops /\ stops' = stops + 1
    /\ cancelled' = [cancelled EXCEPT ![r] = TRUE]
    /\ UNCHANGED <<sent, bound, queue, buffer, chanOpen, worker, sink, faults, dbErrors>>

\* The loop has drained (or lost) its stream; Work returns, the client is closed, the
\* process ends and is started again by its supervisor.
Exit(r) ==
    /\ cancelled[r]
    /\ \/ pc[r] = "wait"
       \/ pc[r] = "receive" /\ buffer[r] = <<>>
       \/ pc[r] = "receive" /\ ~chanOpen[r]
    /\ Halt(r)
    /\ NoFault
    /\ UNCHANGED <<sent, bound, seen, sink>>

-----------------------------------------------------------------------------

Handle(r) ==
    \/ Receive(r) \/ Decode(r)
    \/ ReadColumns(r) \/ CreateTable(r) \/ AlterTable(r) \/ Upsert(r)
    \/ Ack(r) \/ Nack(r)

Consume(r) == Push(r) \/ Subscribe(r) \/ StreamEnds(r) \/ Handle(r) \/ Exit(r)

Disturb(r) == ChannelDrop(r) \/ Crash(r) \/ Terminate(r)

Next ==
    \/ Publish
    \/ \E r \in Replicas : Consume(r) \/ Disturb(r)

\* The broker pushes and every replica keeps running; a supervisor restarts it.
Fairness == \A r \in Replicas : WF_vars(Push(r)) /\ WF_vars(Subscribe(r) \/ StreamEnds(r) \/ Handle(r) \/ Exit(r))

Spec == Init /\ [][Next]_vars
FairSpec == Spec /\ Fairness

-----------------------------------------------------------------------------
(***************************************************************************)
(* Properties.                                                             *)
(***************************************************************************)

\* Every message the broker took is in exactly one place: queued, with one consumer,
\* acknowledged or rejected; crashes, lost channels and late acknowledgements never make
\* one vanish or exist twice (Ack and Nack on a lost channel change nothing at the broker).
Conservation ==
    LET places == <<ready, acked, rejected>>
        held == UNION {unacked[r] : r \in Replicas}
    IN  /\ accepted = ready \cup acked \cup rejected \cup held
        /\ \A i, j \in 1..3 : i # j => places[i] \cap places[j] = {}
        /\ \A i \in 1..3 : places[i] \cap held = {}
        /\ \A r, s \in Replicas : r # s => unacked[r] \cap unacked[s] = {}

\* Each entity that reached the queue is in one place, and a replica holds one it handles.
Safety == TypeOK /\ Conservation

\* With one replica an acknowledged observation is not overwritten by an older one, although
\* the upsert never compares observed_unix_ms: redelivery keeps queue order, and a replica
\* acknowledges nothing on a channel it has lost.
AckedNotRegressed == \A m \in acked : row[Key[m]] >= m

\* A well-formed entity is dropped only if the sink failed a statement, one entity for each
\* failure: new columns, redeliveries and lost channels cost no entity.
NoNeedlessDrop == Cardinality(rejected \ Malformed) <= dbErrors

\* Every entity that reached the queue is eventually stored or dropped, whatever finite
\* series of drops and crashes happens.
Settles == \A m \in Messages : m \in accepted ~> m \in acked \cup rejected

\* The pipeline implements AtLeastOnce.
ALO == INSTANCE AtLeastOnce WITH effects <- applied, completed <- acked, dropped <- rejected
ImplementsAtLeastOnce == ALO!Spec
=============================================================================
