------------------------ MODULE EntityDelivery_proofs ------------------------
(***************************************************************************)
(* The entity pipeline for any number of replicas, messages, faults and    *)
(* stops: messages are conserved, and the pipeline implements AtLeastOnce. *)
(*                                                                         *)
(* DeliveryInv is the inductive invariant.  Conservation alone is not: an  *)
(* Ack moves the message in the handler, so it must be among those that    *)
(* the broker still holds for this channel.  Session says so of a replica  *)
(* whose channel is open, also of the deliveries that it will handle next; *)
(* those of a lost channel may be handled too, but settle nothing.         *)
(* OrderInv and DropInv, at the end, are the invariants of the deployment  *)
(* with a single replica.                                                  *)
(***************************************************************************)
EXTENDS EntityDelivery, SequenceTheorems, FiniteSetTheorems, TLAPS

\* Conservation, message by message.
Placed ==
    /\ \A m \in Messages :
         m \in accepted <=> \/ m \in ready \/ m \in acked \/ m \in rejected
                            \/ \E r \in Replicas : m \in unacked[r]
    /\ \A m \in Messages : /\ ~(m \in ready /\ m \in acked)
                           /\ ~(m \in ready /\ m \in rejected)
                           /\ ~(m \in acked /\ m \in rejected)
    /\ \A r \in Replicas : \A m \in unacked[r] : m \notin ready /\ m \notin acked /\ m \notin rejected
    /\ \A r, s \in Replicas : \A m \in unacked[r] : m \in unacked[s] => r = s

\* What an open channel's replica handles, now or next, it has not settled yet.
Unsettled(r) ==
    /\ cur[r] # 0 => cur[r] \in unacked[r]
    /\ \A i \in 1..Len(buffer[r]) : buffer[r][i] \in unacked[r] /\ buffer[r][i] # cur[r]
    /\ \A i, j \in 1..Len(buffer[r]) : buffer[r][i] = buffer[r][j] => i = j

Session(r) ==
    /\ ~chanOpen[r] => unacked[r] = {}
    /\ pc[r] \in {"down", "wait"} => ~chanOpen[r] /\ buffer[r] = <<>>
    /\ chanOpen[r] => Unsettled(r)
    /\ cur[r] # 0 => cur[r] \in accepted
    /\ \A i \in 1..Len(buffer[r]) : buffer[r][i] \in accepted
    /\ pc[r] = "ack" => cur[r] \in applied

Stored == acked \subseteq applied /\ applied \subseteq accepted /\ accepted \subseteq 1..sent

DeliveryInv ==
    /\ TypeOK
    /\ Placed
    /\ Stored
    /\ \A r \in Replicas : Session(r)

-----------------------------------------------------------------------------

\* Conservation follows from its message-by-message form.
LEMMA PlacedConserves == TypeOK /\ Placed => Conservation
  <1> SUFFICES ASSUME TypeOK, Placed PROVE Conservation
    OBVIOUS
  <1> DEFINE places == <<ready, acked, rejected>>
             held == UNION {unacked[r] : r \in Replicas}
  <1>1. /\ accepted \subseteq Messages /\ ready \subseteq Messages
        /\ acked \subseteq Messages /\ rejected \subseteq Messages
        /\ \A r \in Replicas : unacked[r] \subseteq Messages
    BY DEF TypeOK
  <1>2. accepted = ready \cup acked \cup rejected \cup held
    BY <1>1 DEF Placed
  <1>3. /\ ready \cap acked = {} /\ ready \cap rejected = {} /\ acked \cap rejected = {}
        /\ ready \cap held = {} /\ acked \cap held = {} /\ rejected \cap held = {}
    BY <1>1 DEF Placed
  <1>4. \A r, s \in Replicas : r # s => unacked[r] \cap unacked[s] = {}
    BY DEF Placed
  <1>5. places[1] = ready /\ places[2] = acked /\ places[3] = rejected
    OBVIOUS
  <1>6. \A i, j \in 1..3 : i # j => places[i] \cap places[j] = {}
    <2> HIDE DEF places
    <2> SUFFICES ASSUME NEW i \in 1..3, NEW j \in 1..3, i # j
                 PROVE  places[i] \cap places[j] = {}
      OBVIOUS
    <2>1. (i = 1 \/ i = 2 \/ i = 3) /\ (j = 1 \/ j = 2 \/ j = 3)
      OBVIOUS
    <2> QED BY <1>3, <1>5, <2>1
  <1>7. \A i \in 1..3 : places[i] \cap held = {}
    <2> HIDE DEF places, held
    <2> SUFFICES ASSUME NEW i \in 1..3 PROVE places[i] \cap held = {}
      OBVIOUS
    <2>1. i = 1 \/ i = 2 \/ i = 3
      OBVIOUS
    <2> QED BY <1>3, <1>5, <2>1
  <1> QED BY <1>2, <1>4, <1>6, <1>7 DEF Conservation

\* The initial state: nothing published, every replica down.
LEMMA InitDelivery == Init => DeliveryInv
  <1> SUFFICES ASSUME Init PROVE DeliveryInv
    OBVIOUS
  <1>1. TypeOK
    <2>1. /\ sent \in 0..N /\ faults \in 0..MaxFaults /\ dbErrors \in 0..MaxDbErrors
          /\ stops \in 0..MaxStops /\ 0 \in 0..N
      BY DeliveryAssumption DEF Init
    <2>2. buffer \in [Replicas -> Seq(Messages)] /\ unacked \in [Replicas -> SUBSET Messages]
      BY DEF Init
    <2>3. pc \in [Replicas -> Phases] /\ \A r \in Replicas : cur[r] # 0 <=> pc[r] \in Handling
      BY DEF Init, Phases, Handling
    <2>4. cur \in [Replicas -> 0..N] /\ row \in [Keys -> 0..N]
      BY <2>1 DEF Init
    <2>5. seen \in [Replicas -> SUBSET Columns] /\ table \in SUBSET Columns
      BY DEF Init
    <2> QED BY <2>1, <2>2, <2>3, <2>4, <2>5 DEF Init, TypeOK
  <1>2. Placed /\ Stored
    BY DEF Init, Placed, Stored
  <1>3. ASSUME NEW r \in Replicas PROVE Session(r)
    BY DEF Init, Session
  <1> QED BY <1>1, <1>2, <1>3 DEF DeliveryInv

\* Stuttering steps.
LEMMA StutterDelivery == DeliveryInv /\ UNCHANGED vars => DeliveryInv'
  <1> SUFFICES ASSUME DeliveryInv, UNCHANGED vars PROVE DeliveryInv'
    OBVIOUS
  <1>0. /\ UNCHANGED <<sent, bound, accepted, ready, unacked, acked, rejected, buffer, chanOpen>>
        /\ UNCHANGED <<pc, cur, seen, cancelled, table, row, applied, faults, dbErrors, stops>>
    BY DEF vars, queue, worker, sink
  <1>1. TypeOK'
    BY <1>0 DEF DeliveryInv, TypeOK
  <1>2. Placed'
    BY <1>0 DEF DeliveryInv, Placed
  <1>3. Stored'
    BY <1>0 DEF DeliveryInv, Stored
  <1>4. \A r \in Replicas : Session(r)'
    BY <1>0 DEF DeliveryInv, Session, Unsettled
  <1> QED BY <1>1, <1>2, <1>3, <1>4 DEF DeliveryInv

\* The counters of the bounds.
LEMMA Counters ==
  ASSUME TypeOK, Fault \/ DbError \/ NoFault
  PROVE  faults' \in 0..MaxFaults /\ dbErrors' \in 0..MaxDbErrors /\ stops' \in 0..MaxStops
  BY DeliveryAssumption DEF TypeOK, Fault, DbError, NoFault

\* Replica r goes to phase ph with message m (0 for none) in its handler.
LEMMA Moved ==
  ASSUME TypeOK, NEW r \in Replicas, NEW ph \in Phases, NEW m \in 0..N, Goto(r, ph),
         cur' = [cur EXCEPT ![r] = m] \/ (UNCHANGED cur /\ m = cur[r]),
         m # 0 <=> ph \in Handling
  PROVE  /\ pc' \in [Replicas -> Phases] /\ cur' \in [Replicas -> 0..N]
         /\ \A q \in Replicas : cur'[q] # 0 <=> pc'[q] \in Handling
         /\ pc'[r] = ph /\ cur'[r] = m
         /\ \A q \in Replicas : q # r => pc'[q] = pc[q] /\ cur'[q] = cur[q]
  <1>1. pc \in [Replicas -> Phases] /\ cur \in [Replicas -> 0..N]
    BY DEF TypeOK
  <1>2. pc' = [pc EXCEPT ![r] = ph]
    BY DEF Goto
  <1>3. cur' \in [Replicas -> 0..N] /\ cur'[r] = m /\ \A q \in Replicas : q # r => cur'[q] = cur[q]
    BY <1>1
  <1>4. pc' \in [Replicas -> Phases] /\ pc'[r] = ph /\ \A q \in Replicas : q # r => pc'[q] = pc[q]
    BY <1>1, <1>2
  <1>5. ASSUME NEW q \in Replicas PROVE cur'[q] # 0 <=> pc'[q] \in Handling
    <2>1. CASE q = r
      BY <1>3, <1>4, <2>1
    <2>2. CASE q # r
      BY <1>3, <1>4, <2>2 DEF TypeOK
    <2> QED BY <2>1, <2>2
  <1> QED BY <1>3, <1>4, <1>5

\* A replica that handles a message: which it is, and its columns.
LEMMA HandledMessage ==
  ASSUME TypeOK, NEW r \in Replicas, pc[r] \in Handling
  PROVE  /\ cur[r] \in Messages /\ cur[r] \in 0..N /\ cur[r] # 0
         /\ Fields[cur[r]] \subseteq Columns /\ Meta \in Columns /\ Key[cur[r]] \in Keys
  <1>1. cur[r] \in 0..N /\ cur[r] # 0
    BY DEF TypeOK
  <1>2. cur[r] \in Messages
    BY <1>1, DeliveryAssumption DEF Messages
  <1> QED BY <1>1, <1>2 DEF Columns, Keys

\* A delivery taken from r's buffer.
LEMMA Headed ==
  ASSUME TypeOK, NEW r \in Replicas, buffer[r] # <<>>
  PROVE  /\ buffer[r] \in Seq(Messages) /\ Tail(buffer[r]) \in Seq(Messages)
         /\ Len(buffer[r]) \in Nat \ {0} /\ Len(Tail(buffer[r])) = Len(buffer[r]) - 1
         /\ Head(buffer[r]) = buffer[r][1] /\ Head(buffer[r]) \in Messages
         /\ \A i \in 1..Len(Tail(buffer[r])) : Tail(buffer[r])[i] = buffer[r][i + 1]
  <1>1. buffer[r] \in Seq(Messages)
    BY DEF TypeOK
  <1> QED BY <1>1, HeadTailProperties, EmptySeq, ElementOfSeq

-----------------------------------------------------------------------------

\* A step of r leaves the sessions of other replicas alone.
LEMMA OtherSessions ==
  ASSUME DeliveryInv, NEW r \in Replicas,
         accepted \subseteq accepted', applied \subseteq applied',
         \A q \in Replicas : q # r => /\ chanOpen'[q] = chanOpen[q] /\ unacked'[q] = unacked[q]
                                     /\ pc'[q] = pc[q] /\ cur'[q] = cur[q] /\ buffer'[q] = buffer[q]
  PROVE  \A q \in Replicas : q # r => Session(q)'
  <1> SUFFICES ASSUME NEW q \in Replicas, q # r PROVE Session(q)'
    OBVIOUS
  <1>1. Session(q)
    BY DEF DeliveryInv
  <1>2. UNCHANGED <<chanOpen[q], unacked[q], pc[q], cur[q], buffer[q]>>
    OBVIOUS
  <1> QED BY <1>1, <1>2 DEF Session, Unsettled

\* Steps of the handler, and signals, settle nothing and receive nothing.
LEMMA HandlerFrame ==
  ASSUME DeliveryInv, TypeOK', NEW r \in Replicas,
         UNCHANGED <<sent, queue, buffer, chanOpen, cur>>,
         \A q \in Replicas : q # r => pc'[q] = pc[q],
         pc'[r] \in {"down", "wait"} => pc[r] = pc'[r],
         applied' = applied \/ (cur[r] # 0 /\ applied' = applied \cup {cur[r]}),
         pc'[r] = "ack" => cur[r] \in applied'
  PROVE  DeliveryInv'
  <1>1. UNCHANGED <<sent, accepted, ready, unacked, acked, rejected, buffer, chanOpen, cur>>
    BY DEF queue
  <1>2. Session(r) /\ applied \subseteq applied' /\ applied' \subseteq accepted
    BY DEF DeliveryInv, Stored, Session
  <1>3. Session(r)'
    BY <1>1, <1>2 DEF Session, Unsettled
  <1>4. \A q \in Replicas : q # r => Session(q)'
    BY <1>1, <1>2, OtherSessions
  <1>5. Placed'
    BY <1>1 DEF DeliveryInv, Placed
  <1>6. Stored'
    BY <1>1, <1>2 DEF DeliveryInv, Stored
  <1> QED BY <1>3, <1>4, <1>5, <1>6 DEF DeliveryInv

\* The handler's steps preserve the invariant.
LEMMA HandlerInv ==
  ASSUME DeliveryInv, NEW r \in Replicas,
         \/ Decode(r) \/ ReadColumns(r) \/ CreateTable(r) \/ AlterTable(r) \/ Upsert(r)
  PROVE  DeliveryInv'
  <1>0. TypeOK
    BY DEF DeliveryInv
  <1>1. pc[r] \in Handling /\ UNCHANGED <<sent, bound, queue, buffer, chanOpen, cur, cancelled>>
    BY DEF Decode, ReadColumns, CreateTable, AlterTable, Upsert, sink, Handling
  <1>2. /\ cur[r] \in Messages /\ cur[r] \in 0..N /\ cur[r] # 0
        /\ Fields[cur[r]] \subseteq Columns /\ Meta \in Columns /\ Key[cur[r]] \in Keys
    BY <1>0, <1>1, HandledMessage
  <1>3. \E ph \in Handling : Goto(r, ph)
    BY DEF Decode, ReadColumns, CreateTable, AlterTable, Upsert, Handling
  <1>4. Fault \/ DbError \/ NoFault
    BY DEF Decode, ReadColumns, CreateTable, AlterTable, Upsert, StatementFails
  <1>5. faults' \in 0..MaxFaults /\ dbErrors' \in 0..MaxDbErrors /\ stops' \in 0..MaxStops
    BY <1>0, <1>4, Counters
  <1>6. /\ pc' \in [Replicas -> Phases] /\ cur' \in [Replicas -> 0..N]
        /\ \A q \in Replicas : cur'[q] # 0 <=> pc'[q] \in Handling
        /\ pc'[r] \in Handling
        /\ \A q \in Replicas : q # r => pc'[q] = pc[q]
    <2>1. PICK ph \in Handling : Goto(r, ph)
      BY <1>3
    <2>2. ph \in Phases
      BY DEF Phases
    <2> QED BY <1>0, <1>1, <1>2, <2>1, <2>2, Moved
  <1>7. table' \in SUBSET Columns
    BY <1>0, <1>2 DEF TypeOK, Decode, ReadColumns, CreateTable, AlterTable, Upsert, sink
  <1>8. seen' \in [Replicas -> SUBSET Columns]
    <2>1. PICK cols : seen' = seen \/ (seen' = [seen EXCEPT ![r] = cols] /\ cols \subseteq Columns)
      <3>1. CASE AlterTable(r)
        BY <1>0, <1>2, <3>1 DEF TypeOK, AlterTable
      <3>2. CASE ~AlterTable(r)
        BY <1>0, <3>2 DEF TypeOK, Decode, ReadColumns, CreateTable, Upsert
      <3> QED BY <3>1, <3>2
    <2> QED BY <1>0, <2>1 DEF TypeOK
  <1>9. /\ row' \in [Keys -> 0..N]
        /\ applied' = applied \/ applied' = applied \cup {cur[r]}
        /\ pc'[r] = "ack" => cur[r] \in applied'
    <2>1. CASE Upsert(r)
      BY <1>0, <1>2, <2>1 DEF TypeOK, Upsert, WriteRow, Goto
    <2>2. CASE ~Upsert(r)
      BY <1>0, <2>2 DEF TypeOK, Decode, ReadColumns, CreateTable, AlterTable, Goto, sink
    <2> QED BY <2>1, <2>2
  <1>10. TypeOK'
    BY <1>0, <1>1, <1>2, <1>5, <1>6, <1>7, <1>8, <1>9 DEF TypeOK, queue
  <1>11. pc'[r] \notin {"down", "wait"}
    BY <1>6 DEF Handling
  <1>12. UNCHANGED <<sent, queue, buffer, chanOpen, cur>>
    BY <1>1
  <1>13. applied' = applied \/ (cur[r] # 0 /\ applied' = applied \cup {cur[r]})
    BY <1>2, <1>9
  <1> QED BY <1>6, <1>9, <1>10, <1>11, <1>12, <1>13, HandlerFrame

-----------------------------------------------------------------------------

\* PublishJSON: the new message is in the queue and nowhere else, or it is lost.
LEMMA PublishInv ==
  ASSUME DeliveryInv, Publish
  PROVE  DeliveryInv'
  <1>0. TypeOK
    BY DEF DeliveryInv
  <1>1. /\ sent' = sent + 1 /\ sent' \in 1..N /\ sent' \in Messages /\ sent' \notin accepted
        /\ sent \in Nat
    BY <1>0, DeliveryAssumption DEF Publish, TypeOK, DeliveryInv, Stored, Messages
  <1>2. /\ UNCHANGED <<bound, unacked, acked, rejected, buffer, chanOpen, cancelled>>
        /\ UNCHANGED <<pc, cur, seen, table, row, applied>>
    BY DEF Publish, worker, sink
  <1>3. \/ accepted' = accepted \cup {sent'} /\ ready' = ready \cup {sent'}
        \/ UNCHANGED <<accepted, ready>>
    BY DEF Publish
  <1>4. faults' \in 0..MaxFaults /\ dbErrors' \in 0..MaxDbErrors /\ stops' \in 0..MaxStops
    BY <1>0, Counters DEF Publish
  <1>5. TypeOK'
    <2>1. sent' \in 0..N
      BY <1>1, DeliveryAssumption
    <2>2. accepted' \in SUBSET Messages /\ ready' \in SUBSET Messages
      <3>1. accepted \in SUBSET Messages /\ ready \in SUBSET Messages /\ sent' \in Messages
        BY <1>0, <1>1 DEF TypeOK
      <3> QED BY <1>3, <3>1
    <2> QED BY <1>0, <1>2, <1>4, <2>1, <2>2 DEF TypeOK
  <1>6. Placed'
    BY <1>0, <1>1, <1>2, <1>3 DEF DeliveryInv, Placed, TypeOK
  <1>7. Stored'
    <2>1. \A m \in 1..sent : m \in 1..sent'
      BY <1>1
    <2>2. sent' \in 1..sent'
      BY <1>1
    <2>3. acked \subseteq applied /\ applied \subseteq accepted /\ accepted \subseteq 1..sent
      BY DEF DeliveryInv, Stored
    <2>4. applied \subseteq accepted' /\ accepted' \subseteq 1..sent'
      <3>1. CASE accepted' = accepted \cup {sent'}
        BY <2>1, <2>2, <2>3, <3>1
      <3>2. CASE accepted' = accepted
        BY <2>1, <2>3, <3>2
      <3> QED BY <1>3, <3>1, <3>2
    <2> QED BY <1>2, <2>3, <2>4 DEF Stored
  <1>8. \A r \in Replicas : Session(r)'
    BY <1>2, <1>3 DEF DeliveryInv, Session, Unsettled
  <1> QED BY <1>5, <1>6, <1>7, <1>8 DEF DeliveryInv

\* The broker pushes a message: from the queue to the end of r's buffer.
LEMMA PushInv ==
  ASSUME DeliveryInv, NEW r \in Replicas, Push(r)
  PROVE  DeliveryInv'
  <1>0. TypeOK
    BY DEF DeliveryInv
  <1>1. PICK m \in ready : /\ ready' = ready \ {m}
                           /\ unacked' = [unacked EXCEPT ![r] = @ \cup {m}]
                           /\ buffer' = [buffer EXCEPT ![r] = Append(@, m)]
    BY DEF Push
  <1>2. /\ UNCHANGED <<sent, bound, accepted, acked, rejected, chanOpen, cancelled>>
        /\ UNCHANGED <<pc, cur, seen, table, row, applied>>
    BY DEF Push, worker, sink
  <1>3. /\ m \in Messages /\ m \in accepted /\ m \notin acked /\ m \notin rejected
        /\ \A q \in Replicas : m \notin unacked[q]
    BY <1>0 DEF DeliveryInv, Placed, TypeOK
  <1>4. faults' \in 0..MaxFaults /\ dbErrors' \in 0..MaxDbErrors /\ stops' \in 0..MaxStops
    BY <1>0, Counters DEF Push
  <1> DEFINE old == buffer[r]
             new == buffer'[r]
  <1>5. /\ old \in Seq(Messages) /\ new = Append(old, m) /\ new \in Seq(Messages)
        /\ Len(old) \in Nat /\ Len(new) = Len(old) + 1
        /\ \A i \in 1..Len(old) : new[i] = old[i]
        /\ new[Len(old) + 1] = m
    <2>1. old \in Seq(Messages) /\ new = Append(old, m)
      BY <1>0, <1>1 DEF TypeOK
    <2> QED BY <1>3, <2>1, AppendProperties, LenProperties
  <1>6. /\ unacked' \in [Replicas -> SUBSET Messages] /\ unacked'[r] = unacked[r] \cup {m}
        /\ buffer' \in [Replicas -> Seq(Messages)]
        /\ \A q \in Replicas : q # r => unacked'[q] = unacked[q] /\ buffer'[q] = buffer[q]
    BY <1>0, <1>1, <1>3, <1>5 DEF TypeOK
  <1>7. TypeOK'
    BY <1>0, <1>1, <1>2, <1>4, <1>6 DEF TypeOK
  <1>8. Placed'
    BY <1>0, <1>1, <1>2, <1>3, <1>6 DEF DeliveryInv, Placed, TypeOK
  <1>9. Stored'
    BY <1>2 DEF DeliveryInv, Stored
  <1>10. Session(r)'
    <2>1. chanOpen[r] /\ Session(r) /\ Unsettled(r)
      BY DEF Push, DeliveryInv, Session
    <2>2. \A i \in 1..Len(old) : old[i] \in unacked[r] /\ old[i] # cur[r] /\ old[i] \in accepted
      BY <2>1 DEF Session, Unsettled
    <2>3. \A i, j \in 1..Len(old) : old[i] = old[j] => i = j
      BY <2>1 DEF Unsettled
    <2>4. (cur[r] # 0 => cur[r] \in unacked[r] /\ cur[r] \in accepted) /\ m # cur[r]
      <3>1. m # 0
        BY <1>3, DeliveryAssumption DEF Messages
      <3> QED BY <1>3, <2>1, <3>1 DEF Session, Unsettled
    <2> HIDE DEF old, new
    <2>5. \A i \in 1..Len(new) : new[i] \in unacked'[r] /\ new[i] # cur[r] /\ new[i] \in accepted
      <3> SUFFICES ASSUME NEW i \in 1..Len(new)
                   PROVE  new[i] \in unacked'[r] /\ new[i] # cur[r] /\ new[i] \in accepted
        OBVIOUS
      <3>1. i \in 1..Len(old) \/ i = Len(old) + 1
        BY <1>5
      <3> QED BY <1>3, <1>5, <1>6, <2>2, <2>4, <3>1
    <2>6. \A i, j \in 1..Len(new) : new[i] = new[j] => i = j
      <3> SUFFICES ASSUME NEW i \in 1..Len(new), NEW j \in 1..Len(new), new[i] = new[j]
                   PROVE  i = j
        OBVIOUS
      <3>1. (i \in 1..Len(old) \/ i = Len(old) + 1) /\ (j \in 1..Len(old) \/ j = Len(old) + 1)
        BY <1>5
      <3> QED BY <1>3, <1>5, <2>2, <2>3, <3>1
    <2>7. Unsettled(r)'
      BY <1>2, <1>6, <2>4, <2>5, <2>6 DEF Unsettled, new
    <2> QED BY <1>2, <2>1, <2>4, <2>5, <2>7 DEF Session, new
  <1>11. \A q \in Replicas : q # r => Session(q)'
    BY <1>2, <1>6, OtherSessions
  <1> QED BY <1>7, <1>8, <1>9, <1>10, <1>11 DEF DeliveryInv

\* r's channel ends: its unsettled messages are queued again, its buffer may stay or be
\* forgotten, and no message leaves the queue's books.
LEMMA LostInv ==
  ASSUME DeliveryInv, NEW r \in Replicas, LoseChannel(r), TypeOK',
         UNCHANGED <<sent, sink>>,
         \A q \in Replicas : q # r => UNCHANGED <<pc[q], cur[q], buffer[q]>>,
         \/ UNCHANGED <<pc[r], cur[r], buffer[r]>>
         \/ pc'[r] = "down" /\ cur'[r] = 0 /\ buffer'[r] = <<>>
  PROVE  DeliveryInv'
  <1>0. TypeOK
    BY DEF DeliveryInv
  <1>1. /\ UNCHANGED <<sent, accepted, acked, rejected, applied>>
        /\ ready' = ready \cup unacked[r]
        /\ unacked' = [unacked EXCEPT ![r] = {}] /\ chanOpen' = [chanOpen EXCEPT ![r] = FALSE]
    BY DEF LoseChannel, sink
  <1>2. /\ unacked'[r] = {} /\ chanOpen'[r] = FALSE
        /\ \A q \in Replicas : q # r => unacked'[q] = unacked[q] /\ chanOpen'[q] = chanOpen[q]
    BY <1>0, <1>1 DEF TypeOK
  <1>3. Placed'
    BY <1>0, <1>1, <1>2 DEF DeliveryInv, Placed, TypeOK
  <1>4. Stored'
    BY <1>1 DEF DeliveryInv, Stored
  <1>5. Session(r)'
    <2>1. Session(r)
      BY DEF DeliveryInv
    <2>2. CASE UNCHANGED <<pc[r], cur[r], buffer[r]>>
      BY <1>1, <1>2, <2>1, <2>2 DEF Session
    <2>3. CASE pc'[r] = "down" /\ cur'[r] = 0 /\ buffer'[r] = <<>>
      BY <1>2, <2>3 DEF Session
    <2> QED BY <2>2, <2>3
  <1>6. \A q \in Replicas : q # r => Session(q)'
    BY <1>1, <1>2, OtherSessions
  <1> QED BY <1>3, <1>4, <1>5, <1>6 DEF DeliveryInv

\* Types after a channel loss.
LEMMA LostType ==
  ASSUME TypeOK, NEW r \in Replicas, LoseChannel(r)
  PROVE  /\ unacked' \in [Replicas -> SUBSET Messages] /\ chanOpen' \in [Replicas -> BOOLEAN]
         /\ ready' \in SUBSET Messages
         /\ UNCHANGED <<accepted, acked, rejected>>
  BY DEF TypeOK, LoseChannel

\* A process that ends, by a crash or a stop.
LEMMA HaltInv ==
  ASSUME DeliveryInv, NEW r \in Replicas, Crash(r) \/ Exit(r)
  PROVE  DeliveryInv'
  <1>0. TypeOK
    BY DEF DeliveryInv
  <1>1. LoseChannel(r) /\ Halt(r) /\ UNCHANGED <<sent, bound, seen, sink>>
    BY DEF Crash, Exit, Halt
  <1>2. faults' \in 0..MaxFaults /\ dbErrors' \in 0..MaxDbErrors /\ stops' \in 0..MaxStops
    BY <1>0, Counters DEF Crash, Exit
  <1>3. /\ pc' \in [Replicas -> Phases] /\ cur' \in [Replicas -> 0..N]
        /\ \A q \in Replicas : cur'[q] # 0 <=> pc'[q] \in Handling
        /\ pc'[r] = "down" /\ cur'[r] = 0
        /\ \A q \in Replicas : q # r => pc'[q] = pc[q] /\ cur'[q] = cur[q]
    <2>1. "down" \in Phases /\ "down" \notin Handling /\ 0 \in 0..N
      BY DeliveryAssumption DEF Phases, Handling
    <2>2. Goto(r, "down") /\ cur' = [cur EXCEPT ![r] = 0]
      BY <1>1 DEF Halt
    <2> QED BY <1>0, <2>1, <2>2, Moved
  <1>4. /\ buffer' \in [Replicas -> Seq(Messages)] /\ buffer'[r] = <<>>
        /\ \A q \in Replicas : q # r => buffer'[q] = buffer[q]
        /\ cancelled' \in [Replicas -> BOOLEAN]
    BY <1>0, <1>1 DEF TypeOK, Halt
  <1>5. TypeOK'
    BY <1>0, <1>1, <1>2, <1>3, <1>4, LostType DEF TypeOK, sink
  <1> QED BY <1>1, <1>3, <1>4, <1>5, LostInv

\* A channel lost under a running replica.
LEMMA ChannelDropInv ==
  ASSUME DeliveryInv, NEW r \in Replicas, ChannelDrop(r)
  PROVE  DeliveryInv'
  <1>0. TypeOK
    BY DEF DeliveryInv
  <1>1. LoseChannel(r) /\ UNCHANGED <<sent, bound, buffer, pc, cur, seen, cancelled, sink>>
    BY DEF ChannelDrop, worker
  <1>2. faults' \in 0..MaxFaults /\ dbErrors' \in 0..MaxDbErrors /\ stops' \in 0..MaxStops
    BY <1>0, Counters DEF ChannelDrop
  <1>3. TypeOK'
    BY <1>0, <1>1, <1>2, LostType DEF TypeOK, sink
  <1> QED BY <1>1, <1>3, LostInv

\* SIGTERM.
LEMMA TerminateInv ==
  ASSUME DeliveryInv, NEW r \in Replicas, Terminate(r)
  PROVE  DeliveryInv'
  <1>0. TypeOK
    BY DEF DeliveryInv
  <1>1. /\ UNCHANGED <<sent, bound, queue, buffer, chanOpen, worker, sink, faults, dbErrors>>
        /\ cancelled' \in [Replicas -> BOOLEAN] /\ stops' \in 0..MaxStops
    BY <1>0, DeliveryAssumption DEF Terminate, TypeOK
  <1>2. TypeOK'
    BY <1>0, <1>1 DEF TypeOK, queue, worker, sink
  <1>3. Session(r)
    BY DEF DeliveryInv
  <1> QED BY <1>1, <1>2, <1>3, HandlerFrame DEF worker, sink, Session

-----------------------------------------------------------------------------

\* Subscribing: the new channel has nothing delivered on it yet.
LEMMA SubscribeInv ==
  ASSUME DeliveryInv, NEW r \in Replicas, Subscribe(r)
  PROVE  DeliveryInv'
  <1>0. TypeOK /\ Session(r)
    BY DEF DeliveryInv
  <1>1. /\ UNCHANGED <<sent, accepted, ready, unacked, acked, rejected, buffer, cur, seen>>
        /\ UNCHANGED <<cancelled, table, row, applied>>
        /\ chanOpen' = [chanOpen EXCEPT ![r] = TRUE] /\ bound' = TRUE
    BY DEF Subscribe, queue, sink
  <1>2. cur[r] = 0 /\ buffer[r] = <<>> /\ Len(buffer[r]) = 0
    BY <1>0 DEF Subscribe, TypeOK, Handling, Session
  <1>3. /\ pc' \in [Replicas -> Phases] /\ cur' \in [Replicas -> 0..N]
        /\ \A q \in Replicas : cur'[q] # 0 <=> pc'[q] \in Handling
        /\ pc'[r] = "receive" /\ cur'[r] = cur[r]
        /\ \A q \in Replicas : q # r => pc'[q] = pc[q] /\ cur'[q] = cur[q]
    <2>1. "receive" \in Phases /\ "receive" \notin Handling /\ 0 \in 0..N
      BY DeliveryAssumption DEF Phases, Handling
    <2>2. Goto(r, "receive") /\ UNCHANGED cur
      BY DEF Subscribe
    <2> QED BY <1>0, <1>2, <2>1, <2>2, Moved
  <1>4. faults' \in 0..MaxFaults /\ dbErrors' \in 0..MaxDbErrors /\ stops' \in 0..MaxStops
    BY <1>0, Counters DEF Subscribe
  <1>5. /\ chanOpen' \in [Replicas -> BOOLEAN] /\ chanOpen'[r] = TRUE
        /\ \A q \in Replicas : q # r => chanOpen'[q] = chanOpen[q]
    BY <1>0, <1>1 DEF TypeOK
  <1>6. TypeOK'
    BY <1>0, <1>1, <1>3, <1>4, <1>5 DEF TypeOK
  <1>7. Placed' /\ Stored'
    BY <1>1 DEF DeliveryInv, Placed, Stored
  <1>8. Session(r)'
    BY <1>1, <1>2, <1>3, <1>5 DEF Session, Unsettled
  <1>9. \A q \in Replicas : q # r => Session(q)'
    BY <1>1, <1>3, <1>5, OtherSessions
  <1> QED BY <1>6, <1>7, <1>8, <1>9 DEF DeliveryInv

\* The end of a stream forgets the buffer of a lost channel.
LEMMA StreamEndsInv ==
  ASSUME DeliveryInv, NEW r \in Replicas, StreamEnds(r)
  PROVE  DeliveryInv'
  <1>0. TypeOK /\ Session(r)
    BY DEF DeliveryInv
  <1>1. /\ UNCHANGED <<sent, bound, accepted, ready, unacked, acked, rejected, chanOpen, cur, seen>>
        /\ UNCHANGED <<cancelled, table, row, applied>>
    BY DEF StreamEnds, queue, sink
  <1>2. cur[r] = 0 /\ ~chanOpen[r] /\ unacked[r] = {}
    BY <1>0 DEF StreamEnds, TypeOK, Handling, Session
  <1>3. /\ pc' \in [Replicas -> Phases] /\ cur' \in [Replicas -> 0..N]
        /\ \A q \in Replicas : cur'[q] # 0 <=> pc'[q] \in Handling
        /\ pc'[r] = "wait" /\ cur'[r] = cur[r]
        /\ \A q \in Replicas : q # r => pc'[q] = pc[q] /\ cur'[q] = cur[q]
    <2>1. "wait" \in Phases /\ "wait" \notin Handling /\ 0 \in 0..N
      BY DeliveryAssumption DEF Phases, Handling
    <2>2. Goto(r, "wait") /\ UNCHANGED cur
      BY DEF StreamEnds
    <2> QED BY <1>0, <1>2, <2>1, <2>2, Moved
  <1>4. faults' \in 0..MaxFaults /\ dbErrors' \in 0..MaxDbErrors /\ stops' \in 0..MaxStops
    BY <1>0, Counters DEF StreamEnds
  <1>5. /\ buffer' \in [Replicas -> Seq(Messages)] /\ buffer'[r] = <<>> /\ Len(buffer'[r]) = 0
        /\ \A q \in Replicas : q # r => buffer'[q] = buffer[q]
    BY <1>0 DEF TypeOK, StreamEnds
  <1>6. TypeOK'
    BY <1>0, <1>1, <1>3, <1>4, <1>5 DEF TypeOK
  <1>7. Placed' /\ Stored'
    BY <1>1 DEF DeliveryInv, Placed, Stored
  <1>8. Session(r)'
    BY <1>1, <1>2, <1>3, <1>5 DEF Session
  <1>9. \A q \in Replicas : q # r => Session(q)'
    BY <1>1, <1>3, <1>5, OtherSessions
  <1> QED BY <1>6, <1>7, <1>8, <1>9 DEF DeliveryInv

\* Receiving: the head of the buffer goes to the handler; the rest differ from it.
LEMMA ReceiveInv ==
  ASSUME DeliveryInv, NEW r \in Replicas, Receive(r)
  PROVE  DeliveryInv'
  <1>0. TypeOK /\ Session(r) /\ buffer[r] # <<>>
    BY DEF DeliveryInv, Receive
  <1>1. /\ UNCHANGED <<sent, bound, accepted, ready, unacked, acked, rejected, chanOpen, seen>>
        /\ UNCHANGED <<cancelled, table, row, applied>>
    BY DEF Receive, queue, sink
  <1> DEFINE m == Head(buffer[r])
             old == buffer[r]
             new == buffer'[r]
  <1>2. /\ Tail(old) \in Seq(Messages) /\ Len(old) \in Nat \ {0} /\ Len(Tail(old)) = Len(old) - 1
        /\ m = old[1] /\ m \in Messages
        /\ \A i \in 1..Len(Tail(old)) : Tail(old)[i] = old[i + 1]
    BY <1>0, Headed
  <1>3. /\ pc' \in [Replicas -> Phases] /\ cur' \in [Replicas -> 0..N]
        /\ \A q \in Replicas : cur'[q] # 0 <=> pc'[q] \in Handling
        /\ pc'[r] = "decode" /\ cur'[r] = m
        /\ \A q \in Replicas : q # r => pc'[q] = pc[q] /\ cur'[q] = cur[q]
    <2>1. "decode" \in Phases /\ "decode" \in Handling
      BY DEF Phases, Handling
    <2>2. Goto(r, "decode") /\ cur' = [cur EXCEPT ![r] = m]
      BY DEF Receive
    <2>3. m \in 0..N /\ m # 0
      BY <1>2, DeliveryAssumption DEF Messages
    <2> QED BY <1>0, <2>1, <2>2, <2>3, Moved
  <1>4. faults' \in 0..MaxFaults /\ dbErrors' \in 0..MaxDbErrors /\ stops' \in 0..MaxStops
    BY <1>0, Counters DEF Receive
  <1>5. /\ buffer' \in [Replicas -> Seq(Messages)] /\ new = Tail(old)
        /\ \A q \in Replicas : q # r => buffer'[q] = buffer[q]
    BY <1>0, <1>2 DEF TypeOK, Receive
  <1>6. TypeOK'
    BY <1>0, <1>1, <1>3, <1>4, <1>5 DEF TypeOK
  <1>7. Placed' /\ Stored'
    BY <1>1 DEF DeliveryInv, Placed, Stored
  <1>8. Session(r)'
    <2>1. /\ Len(new) = Len(old) - 1
          /\ \A i \in 1..Len(new) : i + 1 \in 1..Len(old) /\ i + 1 # 1 /\ new[i] = old[i + 1]
          /\ 1 \in 1..Len(old)
      BY <1>2, <1>5
    <2>2. /\ \A i \in 1..Len(old) : old[i] \in accepted
          /\ chanOpen[r] => /\ \A i \in 1..Len(old) : old[i] \in unacked[r]
                            /\ \A i, j \in 1..Len(old) : old[i] = old[j] => i = j
      BY <1>0 DEF Session, Unsettled
    <2> HIDE DEF old, new
    <2>3. m \in accepted /\ \A i \in 1..Len(new) : new[i] \in accepted
      BY <1>2, <2>1, <2>2
    <2>4. ASSUME chanOpen[r]
          PROVE  /\ m \in unacked[r]
                 /\ \A i \in 1..Len(new) : new[i] \in unacked[r] /\ new[i] # m
                 /\ \A i, j \in 1..Len(new) : new[i] = new[j] => i = j
      <3>1. m \in unacked[r] /\ \A i \in 1..Len(new) : new[i] \in unacked[r] /\ new[i] # m
        BY <1>2, <2>1, <2>2, <2>4
      <3>2. ASSUME NEW i \in 1..Len(new), NEW j \in 1..Len(new), new[i] = new[j]
            PROVE  i = j
        <4>1. i + 1 = j + 1
          BY <2>1, <2>2, <2>4, <3>2
        <4> QED BY <4>1
      <3> QED BY <3>1, <3>2
    <2>5. chanOpen[r] => Unsettled(r)'
      BY <1>1, <1>3, <2>4 DEF Unsettled, new
    <2> QED BY <1>0, <1>1, <1>3, <2>3, <2>5 DEF Session, new
  <1>9. \A q \in Replicas : q # r => Session(q)'
    BY <1>1, <1>3, <1>5, OtherSessions
  <1> QED BY <1>6, <1>7, <1>8, <1>9 DEF DeliveryInv

\* Ack or Nack of the message in r's handler.
LEMMA SettleInv ==
  ASSUME DeliveryInv, NEW r \in Replicas, Ack(r) \/ Nack(r)
  PROVE  DeliveryInv'
  <1>0. TypeOK /\ Session(r) /\ pc[r] \in Handling
    BY DEF DeliveryInv, Ack, Nack, Handling
  <1> DEFINE m == cur[r]
  <1>1. /\ UNCHANGED <<sent, bound, accepted, ready, chanOpen, seen, cancelled, table, row, applied>>
        /\ cur' = [cur EXCEPT ![r] = 0]
    BY DEF Ack, Nack, sink
  <1>2. m \in Messages /\ m # 0 /\ m \in accepted
    BY <1>0, HandledMessage DEF Session
  <1>3. faults' \in 0..MaxFaults /\ dbErrors' \in 0..MaxDbErrors /\ stops' \in 0..MaxStops
    BY <1>0, Counters DEF Ack, Nack
  <1>4. PICK ph \in {"receive", "wait"} : Goto(r, ph) /\ (ph = "wait" => ~chanOpen[r] /\ Ack(r))
    BY DEF Ack, Nack
  <1>5. /\ pc' \in [Replicas -> Phases] /\ cur' \in [Replicas -> 0..N]
        /\ \A q \in Replicas : cur'[q] # 0 <=> pc'[q] \in Handling
        /\ pc'[r] = ph /\ cur'[r] = 0
        /\ \A q \in Replicas : q # r => pc'[q] = pc[q] /\ cur'[q] = cur[q]
    <2>1. ph \in Phases /\ ph \notin Handling /\ 0 \in 0..N
      BY DeliveryAssumption DEF Phases, Handling
    <2> QED BY <1>0, <1>1, <1>4, <2>1, Moved
  <1>6. /\ buffer' \in [Replicas -> Seq(Messages)]
        /\ \A q \in Replicas : q # r => buffer'[q] = buffer[q]
        /\ UNCHANGED buffer \/ (~chanOpen[r] /\ buffer'[r] = <<>>)
        /\ ph = "wait" => buffer'[r] = <<>>
    <2>1. CASE buffer' = [buffer EXCEPT ![r] = <<>>] /\ ~chanOpen[r]
      BY <1>0, <2>1 DEF TypeOK
    <2>2. CASE UNCHANGED buffer /\ ph # "wait"
      BY <1>0, <2>2 DEF TypeOK
    <2>3. CASE Ack(r)
      BY <1>4, <2>1, <2>2, <2>3 DEF Ack
    <2>4. CASE Nack(r)
      <3>1. UNCHANGED buffer /\ ~Ack(r)
        BY <2>4 DEF Nack, Ack
      <3> QED BY <1>4, <2>2, <3>1
    <2> QED BY <2>3, <2>4
  <1>7. CASE ~chanOpen[r]
    <2>1. UNCHANGED <<unacked, acked, rejected>>
      BY <1>7 DEF Ack, Nack
    <2>2. TypeOK'
      BY <1>0, <1>1, <1>3, <1>5, <1>6, <2>1 DEF TypeOK
    <2>3. Placed' /\ Stored'
      BY <1>1, <2>1 DEF DeliveryInv, Placed, Stored
    <2>4. Session(r)'
      <3>1. \A i \in 1..Len(buffer'[r]) : buffer'[r][i] \in accepted
        BY <1>0, <1>6 DEF Session
      <3> QED BY <1>0, <1>1, <1>5, <1>6, <1>7, <2>1, <3>1 DEF Session
    <2>5. \A q \in Replicas : q # r => Session(q)'
      BY <1>1, <1>5, <1>6, <2>1, OtherSessions
    <2> QED BY <2>2, <2>3, <2>4, <2>5 DEF DeliveryInv
  <1>8. CASE chanOpen[r]
    <2>0. Unsettled(r) /\ m \in unacked[r] /\ UNCHANGED buffer
      BY <1>0, <1>2, <1>6, <1>8 DEF Session, Unsettled
    <2>1. /\ unacked' = [unacked EXCEPT ![r] = @ \ {m}]
          /\ \/ acked' = acked \cup {m} /\ rejected' = rejected /\ pc[r] = "ack"
             \/ rejected' = rejected \cup {m} /\ acked' = acked
      BY <1>8 DEF Ack, Nack
    <2>2. /\ unacked' \in [Replicas -> SUBSET Messages] /\ unacked'[r] = unacked[r] \ {m}
          /\ \A q \in Replicas : q # r => unacked'[q] = unacked[q]
      BY <1>0, <2>1 DEF TypeOK
    <2>3. m \notin ready /\ m \notin acked /\ m \notin rejected
      BY <2>0 DEF DeliveryInv, Placed
    <2>4. \A q \in Replicas : m \in unacked[q] => q = r
      BY <2>0 DEF DeliveryInv, Placed
    <2>5. TypeOK'
      <3>1. acked' \in SUBSET Messages /\ rejected' \in SUBSET Messages
        BY <1>0, <1>2, <2>1 DEF TypeOK
      <3> QED BY <1>0, <1>1, <1>3, <1>5, <1>6, <2>2, <3>1 DEF TypeOK
    <2>6. Placed'
      <3> HIDE DEF m
      <3>1. \A n \in Messages :
              n \in accepted <=> \/ n \in ready \/ n \in acked' \/ n \in rejected'
                                 \/ \E q \in Replicas : n \in unacked'[q]
        <4> SUFFICES ASSUME NEW n \in Messages
                     PROVE  n \in accepted <=> \/ n \in ready \/ n \in acked' \/ n \in rejected'
                                               \/ \E q \in Replicas : n \in unacked'[q]
          OBVIOUS
        <4>1. CASE n = m
          BY <1>2, <2>1, <4>1
        <4>2. CASE n # m
          <5>1. (n \in acked' <=> n \in acked) /\ (n \in rejected' <=> n \in rejected)
            BY <2>1, <4>2
          <5>2. \A q \in Replicas : n \in unacked'[q] <=> n \in unacked[q]
            BY <2>2, <4>2
          <5> QED BY <5>1, <5>2 DEF DeliveryInv, Placed
        <4> QED BY <4>1, <4>2
      <3>2. \A n \in Messages : /\ ~(n \in ready /\ n \in acked')
                                /\ ~(n \in ready /\ n \in rejected')
                                /\ ~(n \in acked' /\ n \in rejected')
        BY <2>1, <2>3 DEF DeliveryInv, Placed
      <3>3. \A q \in Replicas : \A n \in unacked'[q] :
              n \notin ready /\ n \notin acked' /\ n \notin rejected'
        <4> SUFFICES ASSUME NEW q \in Replicas, NEW n \in unacked'[q]
                     PROVE  n \notin ready /\ n \notin acked' /\ n \notin rejected'
          OBVIOUS
        <4>1. n \in unacked[q] /\ n # m
          BY <2>2, <2>4
        <4> QED BY <2>1, <4>1 DEF DeliveryInv, Placed
      <3>4. \A q, s \in Replicas : \A n \in unacked'[q] : n \in unacked'[s] => q = s
        <4>1. \A q \in Replicas : unacked'[q] \subseteq unacked[q]
          BY <2>2
        <4> QED BY <4>1 DEF DeliveryInv, Placed
      <3> QED BY <1>1, <3>1, <3>2, <3>3, <3>4 DEF Placed
    <2>7. Stored'
      <3>1. acked' \subseteq applied
        BY <1>0, <2>1 DEF DeliveryInv, Stored, Session
      <3> QED BY <1>1, <3>1 DEF DeliveryInv, Stored
    <2>8. Session(r)'
      <3>1. \A i \in 1..Len(buffer[r]) : buffer[r][i] \in unacked'[r] /\ buffer[r][i] # 0
        <4> SUFFICES ASSUME NEW i \in 1..Len(buffer[r])
                     PROVE  buffer[r][i] \in unacked'[r] /\ buffer[r][i] # 0
          OBVIOUS
        <4>1. buffer[r][i] \in unacked[r] /\ buffer[r][i] # m
          BY <2>0 DEF Unsettled
        <4>2. buffer[r][i] \in Messages /\ 0 \notin Messages
          BY <1>0, <4>1, DeliveryAssumption DEF TypeOK, Messages
        <4> QED BY <2>2, <4>1, <4>2
      <3>2. Unsettled(r)'
        BY <1>5, <2>0, <3>1 DEF Unsettled
      <3>3. pc'[r] = "receive"
        BY <1>4, <1>5, <1>8
      <3> QED BY <1>0, <1>1, <1>5, <1>8, <2>0, <3>2, <3>3 DEF Session
    <2>9. \A q \in Replicas : q # r => Session(q)'
      BY <1>1, <1>5, <1>6, <2>2, OtherSessions
    <2> QED BY <2>5, <2>6, <2>7, <2>8, <2>9 DEF DeliveryInv
  <1> QED BY <1>7, <1>8

-----------------------------------------------------------------------------

\* DeliveryInv is inductive.
LEMMA NextDelivery == DeliveryInv /\ [Next]_vars => DeliveryInv'
  <1> SUFFICES ASSUME DeliveryInv, [Next]_vars PROVE DeliveryInv'
    OBVIOUS
  <1>1. CASE UNCHANGED vars
    BY <1>1, StutterDelivery
  <1>2. CASE Publish
    BY <1>2, PublishInv
  <1>3. ASSUME NEW r \in Replicas, Consume(r) PROVE DeliveryInv'
    <2>1. CASE Push(r)
      BY <2>1, PushInv
    <2>2. CASE Subscribe(r)
      BY <2>2, SubscribeInv
    <2>3. CASE StreamEnds(r)
      BY <2>3, StreamEndsInv
    <2>4. CASE Receive(r)
      BY <2>4, ReceiveInv
    <2>5. CASE Decode(r) \/ ReadColumns(r) \/ CreateTable(r) \/ AlterTable(r) \/ Upsert(r)
      BY <2>5, HandlerInv
    <2>6. CASE Ack(r) \/ Nack(r)
      BY <2>6, SettleInv
    <2>7. CASE Exit(r)
      BY <2>7, HaltInv
    <2> QED BY <1>3, <2>1, <2>2, <2>3, <2>4, <2>5, <2>6, <2>7 DEF Consume, Handle
  <1>4. ASSUME NEW r \in Replicas, Disturb(r) PROVE DeliveryInv'
    <2>1. CASE ChannelDrop(r)
      BY <2>1, ChannelDropInv
    <2>2. CASE Crash(r)
      BY <2>2, HaltInv
    <2>3. CASE Terminate(r)
      BY <2>3, TerminateInv
    <2> QED BY <1>4, <2>1, <2>2, <2>3 DEF Disturb
  <1> QED BY <1>1, <1>2, <1>3, <1>4 DEF Next

LEMMA AlwaysDelivery == Spec => []DeliveryInv
  BY InitDelivery, NextDelivery, PTL DEF Spec

\* For any number of replicas, messages, faults and stops: every message that the broker took
\* is in exactly one place (queue, Ack and Nack, and what a lost channel gives back).
THEOREM MessagesAreConserved == Spec => []Safety
  <1>1. DeliveryInv => Safety
    BY PlacedConserves DEF DeliveryInv, Safety
  <1> QED BY <1>1, AlwaysDelivery, PTL

\* What is acknowledged has been written to the sink, in every reachable state.
THEOREM AckedIsApplied == Spec => [](acked \subseteq applied)
  <1>1. DeliveryInv => acked \subseteq applied
    BY DEF DeliveryInv, Stored
  <1> QED BY <1>1, AlwaysDelivery, PTL

-----------------------------------------------------------------------------
(***************************************************************************)
(* The refinement: Publish is Accept or a stutter, Upsert is Effect or a   *)
(* stutter, Ack is Complete, Nack is Drop, and the rest stutters.          *)
(***************************************************************************)

\* Steps that change no variable of AtLeastOnce.
LEMMA SilentSteps ==
  ASSUME NEW r \in Replicas,
         \/ Push(r) \/ Subscribe(r) \/ StreamEnds(r) \/ Receive(r) \/ Decode(r) \/ ReadColumns(r)
         \/ CreateTable(r) \/ AlterTable(r) \/ Exit(r) \/ Disturb(r)
  PROVE  UNCHANGED <<accepted, applied, acked, rejected>>
  <1>1. CASE Exit(r) \/ ChannelDrop(r) \/ Crash(r)
    BY <1>1 DEF Exit, ChannelDrop, Crash, Halt, LoseChannel, sink
  <1>2. CASE Push(r) \/ Subscribe(r) \/ StreamEnds(r) \/ Receive(r) \/ Terminate(r)
    BY <1>2 DEF Push, Subscribe, StreamEnds, Receive, Terminate, queue, sink
  <1>3. CASE Decode(r) \/ ReadColumns(r) \/ CreateTable(r) \/ AlterTable(r)
    BY <1>3 DEF Decode, ReadColumns, CreateTable, AlterTable, queue, sink
  <1> QED BY <1>1, <1>2, <1>3 DEF Disturb

\* Upsert writes the row of a message that the broker took.
LEMMA UpsertEffects ==
  ASSUME DeliveryInv, NEW r \in Replicas, Upsert(r)
  PROVE  [ALO!Next]_ALO!aloVars
  <1>1. cur[r] \in Messages /\ cur[r] # 0
    BY HandledMessage DEF DeliveryInv, Upsert, Handling
  <1>2. cur[r] \in accepted
    BY <1>1 DEF DeliveryInv, Session
  <1>3. UNCHANGED <<accepted, acked, rejected>>
    BY DEF Upsert, queue
  <1>4. applied' = applied \/ applied' = applied \cup {cur[r]}
    BY DEF Upsert, WriteRow
  <1>5. CASE applied' = applied
    BY <1>3, <1>5 DEF ALO!aloVars
  <1>6. CASE applied' = applied \cup {cur[r]}
    BY <1>1, <1>2, <1>3, <1>6 DEF ALO!Next, ALO!Effect
  <1> QED BY <1>4, <1>5, <1>6

\* Ack completes an outstanding message whose effect the sink has; Nack drops one.
LEMMA SettleCompletes ==
  ASSUME DeliveryInv, NEW r \in Replicas, Ack(r) \/ Nack(r)
  PROVE  [ALO!Next]_ALO!aloVars
  <1>1. cur[r] \in Messages /\ cur[r] # 0
    BY HandledMessage DEF DeliveryInv, Ack, Nack, Handling
  <1>2. UNCHANGED <<accepted, applied>>
    BY DEF Ack, Nack, sink
  <1>3. CASE ~chanOpen[r]
    BY <1>2, <1>3 DEF Ack, Nack, ALO!aloVars
  <1>4. CASE chanOpen[r]
    <2>1. cur[r] \in unacked[r]
      BY <1>1, <1>4 DEF DeliveryInv, Session, Unsettled
    <2>2. cur[r] \in ALO!Outstanding
      BY <1>1, <2>1 DEF DeliveryInv, Placed, ALO!Outstanding
    <2>3. CASE Ack(r)
      <3>1. cur[r] \in applied /\ acked' = acked \cup {cur[r]} /\ rejected' = rejected
        BY <1>4, <2>3 DEF Ack, DeliveryInv, Session
      <3> QED BY <1>1, <1>2, <2>2, <3>1 DEF ALO!Next, ALO!Complete
    <2>4. CASE Nack(r)
      <3>1. rejected' = rejected \cup {cur[r]} /\ acked' = acked
        BY <1>4, <2>4 DEF Nack
      <3> QED BY <1>1, <1>2, <2>2, <3>1 DEF ALO!Next, ALO!Drop
    <2> QED BY <2>3, <2>4
  <1> QED BY <1>3, <1>4

\* Every step of the pipeline is a step of AtLeastOnce or changes none of its variables.
LEMMA StepRefines == DeliveryInv /\ [Next]_vars => [ALO!Next]_ALO!aloVars
  <1> SUFFICES ASSUME DeliveryInv, [Next]_vars PROVE [ALO!Next]_ALO!aloVars
    OBVIOUS
  <1>1. CASE UNCHANGED vars
    BY <1>1 DEF vars, queue, sink, ALO!aloVars
  <1>2. CASE Publish
    <2>1. UNCHANGED <<applied, acked, rejected>>
      BY <1>2 DEF Publish, sink
    <2>2. sent' \in Messages /\ sent' \notin accepted
      BY <1>2, DeliveryAssumption DEF Publish, DeliveryInv, TypeOK, Stored, Messages
    <2>3. accepted' = accepted \/ accepted' = accepted \cup {sent'}
      BY <1>2 DEF Publish
    <2>4. CASE accepted' = accepted
      BY <2>1, <2>4 DEF ALO!aloVars
    <2>5. CASE accepted' = accepted \cup {sent'}
      BY <2>1, <2>2, <2>5 DEF ALO!Next, ALO!Accept
    <2> QED BY <2>3, <2>4, <2>5
  <1>3. ASSUME NEW r \in Replicas, Consume(r) \/ Disturb(r) PROVE [ALO!Next]_ALO!aloVars
    <2>1. CASE Upsert(r)
      BY <2>1, UpsertEffects
    <2>2. CASE Ack(r) \/ Nack(r)
      BY <2>2, SettleCompletes
    <2>3. CASE ~Upsert(r) /\ ~Ack(r) /\ ~Nack(r)
      <3>1. UNCHANGED <<accepted, applied, acked, rejected>>
        BY <1>3, <2>3, SilentSteps DEF Consume, Handle
      <3> QED BY <3>1 DEF ALO!aloVars
    <2> QED BY <2>1, <2>2, <2>3
  <1> QED BY <1>1, <1>2, <1>3 DEF Next

\* The pipeline (publish, queue, handler, Ack and Nack) implements AtLeastOnce, for any number
\* of replicas, messages, faults and stops.
THEOREM DeliveryImplements == Spec => ImplementsAtLeastOnce
  <1>1. Init => ALO!Init
    BY DEF Init, ALO!Init
  <1> QED BY <1>1, StepRefines, AlwaysDelivery, PTL DEF Spec, ImplementsAtLeastOnce, ALO!Spec

-----------------------------------------------------------------------------
(***************************************************************************)
(* One replica.  It handles deliveries in the order of the queue, so what  *)
(* is acknowledged is older than all that is not, redelivered or queued;   *)
(* and the row it is about to acknowledge is still the one it wrote.       *)
(***************************************************************************)

OneReplica == \A q, r \in Replicas : q = r

Waiting(r) == ready \cup unacked[r]

\* On an open channel, oldest first: the handler, then the buffer, then the queue.
Sequenced(r) ==
    /\ \A u \in unacked[r] : \A m \in ready : u < m
    /\ \A u \in unacked[r] : u = cur[r] \/ \E i \in 1..Len(buffer[r]) : buffer[r][i] = u
    /\ \A i, j \in 1..Len(buffer[r]) : i < j => buffer[r][i] < buffer[r][j]
    /\ cur[r] # 0 => \A i \in 1..Len(buffer[r]) : cur[r] < buffer[r][i]

InOrder(r) ==
    /\ \A m \in Waiting(r) : \A a \in acked : a < m
    /\ cur[r] # 0 => cur[r] \in Waiting(r)
    /\ \A i \in 1..Len(buffer[r]) : buffer[r][i] \in Waiting(r)
    /\ chanOpen[r] => Sequenced(r)
    /\ pc[r] = "ack" => cur[r] <= row[Key[cur[r]]]

OrderInv == AckedNotRegressed /\ \A r \in Replicas : InOrder(r)

\* Messages are numbers, and so is what the rows hold.
LEMMA Numbered ==
  ASSUME TypeOK, NEW r \in Replicas
  PROVE  /\ ready \subseteq Nat /\ acked \subseteq Nat /\ unacked[r] \subseteq Nat
         /\ Waiting(r) \subseteq Nat /\ sent \in Nat
         /\ buffer[r] \in Seq(Nat) /\ Len(buffer[r]) \in Nat
         /\ \A k \in Keys : row[k] \in Nat
         /\ \A m \in Messages : Key[m] \in Keys
         /\ cur[r] \in Nat /\ N \in Nat /\ 0 \notin Messages
  <1>1. N \in Nat /\ Messages \subseteq Nat /\ 0 \notin Messages /\ 0..N \subseteq Nat
    BY DeliveryAssumption DEF Messages
  <1>2. ready \subseteq Nat /\ acked \subseteq Nat /\ unacked[r] \subseteq Nat /\ sent \in Nat
    BY <1>1 DEF TypeOK
  <1>3. buffer[r] \in Seq(Nat) /\ Len(buffer[r]) \in Nat
    <2>1. buffer[r] \in Seq(Messages)
      BY DEF TypeOK
    <2>2. Len(buffer[r]) \in Nat
      BY <2>1, LenProperties
    <2> QED BY <1>1, <2>1, <2>2, SeqMonotonic
  <1>4. cur[r] \in Nat /\ \A k \in Keys : row[k] \in Nat
    BY <1>1 DEF TypeOK
  <1> QED BY <1>1, <1>2, <1>3, <1>4 DEF Waiting, Keys

\* Steps that settle and receive nothing; the handler may write the row of its message.
LEMMA OrderFrame ==
  ASSUME TypeOK, NEW r \in Replicas, AckedNotRegressed, InOrder(r),
         UNCHANGED <<ready, unacked, acked, buffer, chanOpen, cur>>,
         UNCHANGED row \/ (cur[r] \in Messages /\ row' = [row EXCEPT ![Key[cur[r]]] = cur[r]]),
         pc'[r] = "ack" => \/ pc[r] = "ack" /\ UNCHANGED row
                           \/ cur[r] \in Messages /\ row' = [row EXCEPT ![Key[cur[r]]] = cur[r]]
  PROVE  AckedNotRegressed' /\ InOrder(r)'
  <1> DEFINE m == cur[r]
  <1>1. CASE UNCHANGED row
    <2>1. AckedNotRegressed'
      BY <1>1 DEF AckedNotRegressed
    <2>2. pc'[r] = "ack" => m <= row[Key[m]]
      <3>1. CASE pc[r] = "ack"
        BY <3>1 DEF InOrder
      <3>2. CASE m \in Messages /\ row = [row EXCEPT ![Key[m]] = m]
        BY <3>2, Numbered DEF TypeOK
      <3> QED BY <1>1, <3>1, <3>2
    <2> QED BY <1>1, <2>1, <2>2 DEF InOrder, Sequenced, Waiting
  <1>2. CASE m \in Messages /\ row' = [row EXCEPT ![Key[m]] = m]
    <2>1. m \in Nat /\ m # 0 /\ Key[m] \in Keys /\ row'[Key[m]] = m
      BY <1>2, Numbered DEF TypeOK
    <2>2. ASSUME NEW a \in acked PROVE row'[Key[a]] >= a
      <3>1. a < m /\ a \in Nat
        BY <2>1, Numbered DEF InOrder
      <3>2. CASE Key[a] = Key[m]
        BY <2>1, <3>1, <3>2
      <3>3. CASE Key[a] # Key[m]
        <4>1. row'[Key[a]] = row[Key[a]]
          <5>1. Key[a] \in Keys
            BY DEF TypeOK, Keys
          <5> QED BY <1>2, <3>3, <5>1 DEF TypeOK
        <4> QED BY <4>1 DEF AckedNotRegressed
      <3> QED BY <3>2, <3>3
    <2>3. pc'[r] = "ack" => m <= row'[Key[m]]
      BY <2>1
    <2> QED BY <2>2, <2>3 DEF AckedNotRegressed, InOrder, Sequenced, Waiting
  <1> QED BY <1>1, <1>2

\* The channel ends: what was held on it is queued again, in its old place.
LEMMA OrderLost ==
  ASSUME TypeOK, NEW r \in Replicas, AckedNotRegressed, InOrder(r), LoseChannel(r), UNCHANGED row,
         \/ UNCHANGED <<pc[r], cur[r], buffer[r]>>
         \/ pc'[r] # "ack" /\ cur'[r] = 0 /\ buffer'[r] = <<>>
  PROVE  AckedNotRegressed' /\ InOrder(r)'
  <1>1. acked' = acked /\ Waiting(r)' = Waiting(r) /\ chanOpen'[r] = FALSE
    BY DEF LoseChannel, Waiting, TypeOK
  <1>2. AckedNotRegressed'
    BY <1>1 DEF AckedNotRegressed
  <1> QED BY <1>1, <1>2 DEF InOrder

\* Publishing: the new message is the newest.
LEMMA OrderPublish ==
  ASSUME DeliveryInv, OrderInv, Publish
  PROVE  OrderInv'
  <1>0. TypeOK
    BY DEF DeliveryInv
  <1>1. UNCHANGED <<unacked, acked, buffer, chanOpen, pc, cur, row>>
    BY DEF Publish, worker, sink
  <1>2. sent' = sent + 1 /\ (ready' = ready \/ ready' = ready \cup {sent'})
    BY DEF Publish
  <1>3. AckedNotRegressed'
    BY <1>1 DEF OrderInv, AckedNotRegressed
  <1>4. ASSUME NEW r \in Replicas PROVE InOrder(r)'
    <2>1. \A m \in acked \cup unacked[r] : m < sent'
      <3>1. acked \cup unacked[r] \subseteq 1..sent
        BY <1>0 DEF DeliveryInv, Stored, Placed, TypeOK
      <3> QED BY <1>0, <1>2, <3>1, Numbered
    <2>2. InOrder(r)
      BY DEF OrderInv
    <2>3. \A m \in Waiting(r)' : \A a \in acked' : a < m
      BY <1>1, <1>2, <2>1, <2>2 DEF InOrder, Waiting
    <2>4. chanOpen'[r] => Sequenced(r)'
      BY <1>1, <1>2, <2>1, <2>2 DEF InOrder, Sequenced
    <2> QED BY <1>1, <1>2, <2>2, <2>3, <2>4 DEF InOrder, Waiting
  <1> QED BY <1>3, <1>4 DEF OrderInv

\* Pushing: the oldest of the queue becomes the newest of the channel.
LEMMA OrderPush ==
  ASSUME DeliveryInv, NEW r \in Replicas, AckedNotRegressed, InOrder(r), Push(r)
  PROVE  AckedNotRegressed' /\ InOrder(r)'
  <1>0. TypeOK /\ chanOpen[r]
    BY DEF DeliveryInv, Push
  <1>1. PICK m \in ready : /\ \A n \in ready : m <= n
                           /\ ready' = ready \ {m}
                           /\ unacked' = [unacked EXCEPT ![r] = @ \cup {m}]
                           /\ buffer' = [buffer EXCEPT ![r] = Append(@, m)]
    BY DEF Push
  <1>2. UNCHANGED <<acked, chanOpen, pc, cur, row>>
    BY DEF Push, worker, sink
  <1> DEFINE old == buffer[r]
             new == buffer'[r]
  <1>3. /\ Len(old) \in Nat /\ Len(new) = Len(old) + 1
        /\ \A i \in 1..Len(old) : new[i] = old[i]
        /\ new[Len(old) + 1] = m
    <2>1. old \in Seq(Messages) /\ new = Append(old, m) /\ m \in Messages
      BY <1>0, <1>1 DEF TypeOK
    <2> QED BY <2>1, AppendProperties, LenProperties
  <1>4. unacked'[r] = unacked[r] \cup {m} /\ Waiting(r)' = Waiting(r)
    BY <1>0, <1>1 DEF TypeOK, Waiting
  <1>5. AckedNotRegressed'
    BY <1>2 DEF AckedNotRegressed
  <1>6. /\ \A u \in unacked[r] : u < m
        /\ \A i \in 1..Len(old) : old[i] \in unacked[r]
        /\ cur[r] # 0 => cur[r] \in unacked[r]
    BY <1>0 DEF InOrder, Sequenced, DeliveryInv, Session, Unsettled
  <1> HIDE DEF old, new
  <1>7. \A i \in 1..Len(new) : i \in 1..Len(old) \/ i = Len(old) + 1
    BY <1>3
  <1>8. \A i \in 1..Len(new) : new[i] \in Waiting(r)
    BY <1>1, <1>3, <1>6, <1>7 DEF Waiting
  <1>9. /\ \A u \in unacked'[r] : \A n \in ready' : u < n
        /\ \A u \in unacked'[r] : u = cur[r] \/ \E i \in 1..Len(new) : new[i] = u
    <2>1. \A n \in ready' : m < n /\ n \in ready
      BY <1>0, <1>1, Numbered
    <2>2. /\ \A u \in unacked[r] : \A n \in ready : u < n
          /\ \A u \in unacked[r] : u = cur[r] \/ \E i \in 1..Len(old) : old[i] = u
      BY <1>0 DEF InOrder, Sequenced, old
    <2>3. \A i \in 1..Len(old) : i \in 1..Len(new)
      BY <1>3
    <2>4. Len(old) + 1 \in 1..Len(new)
      BY <1>3
    <2> QED BY <1>3, <1>4, <2>1, <2>2, <2>3, <2>4
  <1>10. \A i, j \in 1..Len(new) : i < j => new[i] < new[j]
    <2>1. \A i, j \in 1..Len(old) : i < j => old[i] < old[j]
      BY <1>0 DEF InOrder, Sequenced, old
    <2>2. ASSUME NEW i \in 1..Len(new), NEW j \in 1..Len(new), i < j PROVE new[i] < new[j]
      <3>1. i \in 1..Len(old)
        BY <1>3, <2>2
      <3> QED BY <1>3, <1>6, <1>7, <2>1, <2>2, <3>1
    <2> QED BY <2>2
  <1>11. cur[r] # 0 => \A i \in 1..Len(new) : cur[r] < new[i]
    <2>1. cur[r] # 0 => \A i \in 1..Len(old) : cur[r] < old[i]
      BY <1>0 DEF InOrder, Sequenced, old
    <2> QED BY <1>3, <1>6, <1>7, <2>1
  <1>12. Sequenced(r)'
    BY <1>2, <1>9, <1>10, <1>11 DEF Sequenced, new
  <1> QED BY <1>2, <1>4, <1>5, <1>8, <1>12 DEF InOrder, new

\* A new channel starts with nothing on it; without one, the buffer is only forgotten.
LEMMA OrderStream ==
  ASSUME DeliveryInv, NEW r \in Replicas, AckedNotRegressed, InOrder(r), Subscribe(r) \/ StreamEnds(r)
  PROVE  AckedNotRegressed' /\ InOrder(r)'
  <1>0. TypeOK /\ Session(r)
    BY DEF DeliveryInv
  <1>1. UNCHANGED <<ready, unacked, acked, cur, row>>
    BY DEF Subscribe, StreamEnds, queue, sink
  <1>2. buffer'[r] = <<>> /\ cur[r] = 0 /\ unacked[r] = {}
    BY <1>0 DEF Subscribe, StreamEnds, TypeOK, Handling, Session
  <1>3. pc'[r] # "ack"
    BY <1>0 DEF Subscribe, StreamEnds, Goto, TypeOK
  <1>4. AckedNotRegressed'
    BY <1>1 DEF AckedNotRegressed
  <1> QED BY <1>1, <1>2, <1>3, <1>4 DEF InOrder, Sequenced, Waiting

\* Receiving: the oldest of the buffer goes to the handler.
LEMMA OrderReceive ==
  ASSUME DeliveryInv, NEW r \in Replicas, AckedNotRegressed, InOrder(r), Receive(r)
  PROVE  AckedNotRegressed' /\ InOrder(r)'
  <1>0. TypeOK /\ buffer[r] # <<>> /\ cur[r] = 0
    BY DEF DeliveryInv, Receive, TypeOK, Handling
  <1>1. UNCHANGED <<ready, unacked, acked, chanOpen, row>>
    BY DEF Receive, queue, sink
  <1> DEFINE old == buffer[r]
             new == buffer'[r]
  <1>2. cur'[r] = old[1] /\ new = Tail(old) /\ pc'[r] = "decode"
    BY <1>0, Headed DEF Receive, Goto, TypeOK
  <1>3. /\ Len(old) \in Nat \ {0} /\ Len(new) = Len(old) - 1
        /\ \A i \in 1..Len(new) : new[i] = old[i + 1]
    BY <1>0, <1>2, Headed
  <1>4. AckedNotRegressed'
    BY <1>1 DEF AckedNotRegressed
  <1>5. \A i \in 1..Len(old) : old[i] \in Waiting(r)
    BY DEF InOrder
  <1>6. ASSUME chanOpen[r]
        PROVE  /\ \A u \in unacked[r] : \A m \in ready : u < m
               /\ \A u \in unacked[r] : \E i \in 1..Len(old) : old[i] = u
               /\ \A i, j \in 1..Len(old) : i < j => old[i] < old[j]
    <2>1. 0 \notin unacked[r]
      BY <1>0, Numbered DEF TypeOK
    <2> QED BY <1>0, <1>6, <2>1 DEF InOrder, Sequenced
  <1> HIDE DEF old, new
  <1>7. 1 \in 1..Len(old) /\ \A i \in 1..Len(new) : i + 1 \in 1..Len(old) /\ 1 < i + 1
    BY <1>3
  <1>8. ASSUME chanOpen[r] PROVE Sequenced(r)'
    <2>1. \A u \in unacked[r] : u = cur'[r] \/ \E i \in 1..Len(new) : new[i] = u
      <3> SUFFICES ASSUME NEW u \in unacked[r], u # cur'[r] PROVE \E i \in 1..Len(new) : new[i] = u
        OBVIOUS
      <3>1. PICK i \in 1..Len(old) : old[i] = u
        BY <1>6, <1>8
      <3>2. i # 1
        BY <1>2, <3>1
      <3>3. i - 1 \in 1..Len(new) /\ i = (i - 1) + 1
        BY <1>3, <3>2
      <3> QED BY <1>3, <3>1, <3>3
    <2>2. \A i, j \in 1..Len(new) : i < j => new[i] < new[j]
      <3> SUFFICES ASSUME NEW i \in 1..Len(new), NEW j \in 1..Len(new), i < j PROVE new[i] < new[j]
        OBVIOUS
      <3>1. i + 1 < j + 1
        OBVIOUS
      <3> QED BY <1>3, <1>6, <1>7, <1>8, <3>1
    <2>3. \A i \in 1..Len(new) : cur'[r] < new[i]
      BY <1>2, <1>3, <1>6, <1>7, <1>8
    <2> QED BY <1>1, <1>6, <1>8, <2>1, <2>2, <2>3 DEF Sequenced, new
  <1>9. cur'[r] \in Waiting(r) /\ \A i \in 1..Len(new) : new[i] \in Waiting(r)
    BY <1>2, <1>3, <1>5, <1>7
  <1> QED BY <1>1, <1>2, <1>4, <1>8, <1>9 DEF InOrder, Waiting, new

\* Settling: the message in the handler is older than all others on the channel.
LEMMA OrderSettle ==
  ASSUME DeliveryInv, NEW r \in Replicas, AckedNotRegressed, InOrder(r), Ack(r) \/ Nack(r)
  PROVE  AckedNotRegressed' /\ InOrder(r)'
  <1>0. TypeOK /\ Session(r) /\ pc[r] \in Handling
    BY DEF DeliveryInv, Ack, Nack, Handling
  <1> DEFINE m == cur[r]
  <1>1. UNCHANGED <<ready, chanOpen, row>> /\ cur'[r] = 0 /\ pc'[r] # "ack"
    BY <1>0 DEF Ack, Nack, sink, Goto, TypeOK
  <1>2. m \in Messages /\ m # 0
    BY <1>0, HandledMessage
  <1>3. CASE ~chanOpen[r]
    <2>1. UNCHANGED <<unacked, acked>> /\ (buffer'[r] = buffer[r] \/ buffer'[r] = <<>>)
      BY <1>0, <1>3 DEF Ack, Nack, TypeOK
    <2>2. AckedNotRegressed'
      BY <1>1, <2>1 DEF AckedNotRegressed
    <2> QED BY <1>1, <1>3, <2>1, <2>2 DEF InOrder, Waiting
  <1>4. CASE chanOpen[r]
    <2>1. Unsettled(r) /\ m \in unacked[r] /\ Sequenced(r)
      BY <1>0, <1>2, <1>4 DEF Session, Unsettled, InOrder
    <2>2. /\ unacked'[r] = unacked[r] \ {m} /\ UNCHANGED buffer
          /\ acked' = acked \/ (acked' = acked \cup {m} /\ pc[r] = "ack")
      BY <1>0, <1>4 DEF Ack, Nack, TypeOK
    <2>3. AckedNotRegressed'
      <3>1. pc[r] = "ack" => row[Key[m]] >= m
        <4>1. Key[m] \in Keys /\ row[Key[m]] \in Nat /\ m \in Nat
          BY <1>0, <1>2, Numbered
        <4> QED BY <4>1 DEF InOrder
      <3> QED BY <1>1, <2>2, <3>1 DEF AckedNotRegressed
    <2>4. \A n \in ready \cup unacked'[r] : m < n
      <3>1. \A n \in ready : m < n
        BY <2>1 DEF Sequenced
      <3>2. \A n \in unacked[r] : n = m \/ m < n
        BY <1>2, <2>1 DEF Sequenced
      <3> QED BY <2>2, <3>1, <3>2
    <2>5. \A n \in Waiting(r)' : n \in Waiting(r) /\ m < n
      BY <1>1, <2>2, <2>4 DEF Waiting
    <2>6. \A i \in 1..Len(buffer[r]) : buffer[r][i] \in unacked'[r]
      BY <2>1, <2>2 DEF Unsettled
    <2>7. Sequenced(r)'
      <3>1. \A u \in unacked'[r] : \E i \in 1..Len(buffer[r]) : buffer[r][i] = u
        BY <2>1, <2>2 DEF Sequenced
      <3> QED BY <1>1, <2>1, <2>2, <3>1 DEF Sequenced
    <2>8. \A n \in Waiting(r)' : \A a \in acked' : a < n
      BY <2>2, <2>5 DEF InOrder
    <2> QED BY <1>1, <2>2, <2>3, <2>6, <2>7, <2>8 DEF InOrder, Waiting
  <1> QED BY <1>3, <1>4

\* The steps of one replica keep its order.
LEMMA OrderStep ==
  ASSUME DeliveryInv, NEW r \in Replicas, AckedNotRegressed, InOrder(r), Consume(r) \/ Disturb(r)
  PROVE  AckedNotRegressed' /\ InOrder(r)'
  <1>0. TypeOK
    BY DEF DeliveryInv
  <1>1. CASE Push(r)
    BY <1>1, OrderPush
  <1>2. CASE Subscribe(r) \/ StreamEnds(r)
    BY <1>2, OrderStream
  <1>3. CASE Receive(r)
    BY <1>3, OrderReceive
  <1>4. CASE Decode(r) \/ ReadColumns(r) \/ CreateTable(r) \/ AlterTable(r) \/ Upsert(r)
    <2>1. UNCHANGED <<ready, unacked, acked, buffer, chanOpen, cur>>
      BY <1>4 DEF Decode, ReadColumns, CreateTable, AlterTable, Upsert, queue
    <2>2. CASE Upsert(r)
      <3>1. cur[r] \in Messages
        BY <1>0, <2>2, HandledMessage DEF Upsert, Handling
      <3>2. /\ UNCHANGED row \/ row' = [row EXCEPT ![Key[cur[r]]] = cur[r]]
            /\ pc'[r] = "ack" => row' = [row EXCEPT ![Key[cur[r]]] = cur[r]]
        BY <1>0, <2>2 DEF Upsert, WriteRow, Goto, TypeOK
      <3> QED BY <1>0, <2>1, <3>1, <3>2, OrderFrame
    <2>3. CASE ~Upsert(r)
      <3>1. UNCHANGED row /\ pc'[r] # "ack"
        BY <1>0, <1>4, <2>3 DEF Decode, ReadColumns, CreateTable, AlterTable, Goto, TypeOK, sink
      <3> QED BY <1>0, <2>1, <3>1, OrderFrame
    <2> QED BY <2>2, <2>3
  <1>5. CASE Ack(r) \/ Nack(r)
    BY <1>5, OrderSettle
  <1>6. CASE Exit(r) \/ Crash(r)
    <2>1. LoseChannel(r) /\ UNCHANGED row
      BY <1>6 DEF Exit, Crash, Halt, sink
    <2>2. pc'[r] # "ack" /\ cur'[r] = 0 /\ buffer'[r] = <<>>
      BY <1>0, <1>6 DEF Exit, Crash, Halt, Goto, TypeOK
    <2> QED BY <1>0, <2>1, <2>2, OrderLost
  <1>7. CASE ChannelDrop(r)
    <2>1. LoseChannel(r) /\ UNCHANGED <<row, pc, cur, buffer>>
      BY <1>7 DEF ChannelDrop, worker, sink
    <2> QED BY <1>0, <2>1, OrderLost
  <1>8. CASE Terminate(r)
    <2>1. UNCHANGED <<ready, unacked, acked, buffer, chanOpen, cur, pc, row>>
      BY <1>8 DEF Terminate, queue, worker, sink
    <2> QED BY <1>0, <2>1, OrderFrame
  <1> QED BY <1>1, <1>2, <1>3, <1>4, <1>5, <1>6, <1>7, <1>8 DEF Consume, Disturb, Handle

LEMMA NextOrder ==
  ASSUME OneReplica
  PROVE  DeliveryInv /\ OrderInv /\ [Next]_vars => OrderInv'
  <1> SUFFICES ASSUME DeliveryInv, OrderInv, [Next]_vars PROVE OrderInv'
    OBVIOUS
  <1>1. CASE UNCHANGED vars
    BY <1>1 DEF vars, queue, worker, sink, OrderInv, AckedNotRegressed, InOrder, Sequenced, Waiting
  <1>2. CASE Publish
    BY <1>2, OrderPublish
  <1>3. ASSUME NEW r \in Replicas, Consume(r) \/ Disturb(r) PROVE OrderInv'
    <2>1. AckedNotRegressed' /\ InOrder(r)'
      BY <1>3, OrderStep DEF OrderInv
    <2>2. \A q \in Replicas : q = r
      BY OneReplica DEF OneReplica
    <2> QED BY <2>1, <2>2 DEF OrderInv
  <1> QED BY <1>1, <1>2, <1>3 DEF Next

\* With one replica no acknowledged observation is overwritten by an older one, whatever is
\* redelivered after lost channels, crashes and stops (the upsert compares no times).
THEOREM OneReplicaKeepsOrder ==
  ASSUME OneReplica
  PROVE  Spec => []AckedNotRegressed
  <1>1. Init => OrderInv
    BY DEF Init, OrderInv, AckedNotRegressed, InOrder, Waiting
  <1>2. DeliveryInv /\ OrderInv /\ [Next]_vars => OrderInv'
    BY OneReplica, NextOrder
  <1>3. OrderInv => AckedNotRegressed
    BY DEF OrderInv
  <1> QED BY <1>1, <1>2, <1>3, AlwaysDelivery, PTL DEF Spec

-----------------------------------------------------------------------------
(***************************************************************************)
(* One replica alone changes the sink's table, so what it has read of it   *)
(* is still true when it alters and when it writes; a handler then fails   *)
(* only where the sink fails a statement, until the process is stopped.    *)
(***************************************************************************)

TableKnown(r) ==
    /\ pc[r] = "create" => table = {}
    /\ pc[r] = "alter" => seen[r] = table
    /\ pc[r] = "upsert" => Fields[cur[r]] \subseteq table
    /\ cancelled[r] => stops # 0

\* What r drops next, unless its channel is lost first.
Dropping(r) == pc[r] = "nack" /\ cur[r] \notin Malformed

\* Each well-formed entity that is dropped, or is about to be, cost a failing statement.
Paid(r) ==
    /\ NoNeedlessDrop
    /\ Dropping(r) => Cardinality(rejected \ Malformed) < dbErrors

Budget(r) == TableKnown(r) /\ (stops = 0 => Paid(r))

DropInv ==
    /\ stops = 0 => NoNeedlessDrop
    /\ \A r \in Replicas : Budget(r)

\* What is counted are numbers.
LEMMA Counted ==
  ASSUME TypeOK
  PROVE  /\ IsFiniteSet(rejected \ Malformed) /\ Cardinality(rejected \ Malformed) \in Nat
         /\ dbErrors \in Nat /\ stops \in Nat
  <1>1. IsFiniteSet(Messages)
    BY DeliveryAssumption, FS_Interval DEF Messages
  <1>2. IsFiniteSet(rejected \ Malformed)
    <2>1. rejected \ Malformed \subseteq Messages
      BY DEF TypeOK
    <2> QED BY <1>1, <2>1, FS_Subset
  <1>3. Cardinality(rejected \ Malformed) \in Nat
    BY <1>2, FS_CardinalityType
  <1>4. dbErrors \in Nat /\ stops \in Nat
    BY DeliveryAssumption DEF TypeOK
  <1> QED BY <1>2, <1>3, <1>4

\* Steps that neither touch the table nor drop, and leave the handler alone or behind.
LEMMA BudgetFrame ==
  ASSUME NEW r \in Replicas, Budget(r), TypeOK, UNCHANGED <<table, rejected, dbErrors, stops>>,
         cancelled'[r] => cancelled[r],
         \/ UNCHANGED <<pc[r], cur[r], seen[r]>>
         \/ pc'[r] \notin {"create", "alter", "upsert", "nack"}
         \/ pc'[r] = "nack" /\ cur'[r] \in Malformed
  PROVE  Budget(r)'
  <1>1. TableKnown(r)'
    BY DEF Budget, TableKnown
  <1>2. Dropping(r)' => Dropping(r)
    BY DEF Dropping
  <1>3. stops = 0 => Paid(r)'
    BY <1>2 DEF Budget, Paid, NoNeedlessDrop
  <1> QED BY <1>1, <1>3 DEF Budget

\* A statement fails: the failure pays for the entity that its handler refuses.
LEMMA BudgetFails ==
  ASSUME NEW r \in Replicas, Budget(r), TypeOK, UNCHANGED <<table, rejected, cur, cancelled>>,
         pc[r] # "nack", Goto(r, "nack"), StatementFails(r)
  PROVE  Budget(r)'
  <1>1. pc'[r] = "nack"
    BY DEF Goto, TypeOK
  <1>2. stops' = stops
    BY DEF StatementFails, DbError, NoFault
  <1>3. TableKnown(r)'
    BY <1>1, <1>2 DEF Budget, TableKnown
  <1>4. ASSUME stops = 0 PROVE Paid(r)'
    <2>1. dbErrors' = dbErrors + 1
      BY <1>4 DEF Budget, TableKnown, StatementFails, DbError
    <2>2. Cardinality(rejected \ Malformed) <= dbErrors
      BY <1>4 DEF Budget, Paid, NoNeedlessDrop
    <2> QED BY <2>1, <2>2, Counted DEF Paid, NoNeedlessDrop
  <1> QED BY <1>2, <1>3, <1>4 DEF Budget

\* The handler's statements: what it reads of the table stays true until it writes.
LEMMA BudgetHandler ==
  ASSUME NEW r \in Replicas, Budget(r), TypeOK,
         ReadColumns(r) \/ CreateTable(r) \/ AlterTable(r) \/ Upsert(r)
  PROVE  Budget(r)'
  <1>0. /\ UNCHANGED <<rejected, cur, cancelled>> /\ pc[r] # "nack" /\ TableKnown(r)
        /\ pc \in [Replicas -> Phases] /\ seen \in [Replicas -> SUBSET Columns]
    BY DEF TypeOK, Budget, ReadColumns, CreateTable, AlterTable, Upsert, queue
  <1>1. CASE Goto(r, "nack") /\ StatementFails(r) /\ UNCHANGED table
    BY <1>0, <1>1, BudgetFails
  <1>2. ASSUME NoFault, pc'[r] # "nack", TableKnown(r)' PROVE Budget(r)'
    <2>1. UNCHANGED <<stops, dbErrors, rejected>>
      BY <1>0, <1>2 DEF NoFault
    <2> QED BY <1>2, <2>1 DEF Budget, Paid, Dropping, NoNeedlessDrop
  <1>3. CASE ReadColumns(r)
    <2> DEFINE next == IF table = {} THEN "create"
                       ELSE IF Fields[cur[r]] \subseteq table THEN "upsert" ELSE "alter"
    <2>1. CASE NoFault /\ seen' = [seen EXCEPT ![r] = table] /\ Goto(r, next)
      <3>1. UNCHANGED table /\ stops' = stops /\ seen'[r] = table
        BY <1>0, <1>3, <2>1 DEF ReadColumns, sink, NoFault
      <3>2. pc'[r] = next
        BY <1>0, <2>1 DEF Goto
      <3>3. pc'[r] # "nack"
        BY <3>2
      <3>4. TableKnown(r)'
        BY <1>0, <3>1, <3>2 DEF TableKnown
      <3> QED BY <1>2, <2>1, <3>3, <3>4
    <2>2. CASE Goto(r, "nack") /\ StatementFails(r)
      BY <1>1, <1>3, <2>2 DEF ReadColumns, sink
    <2> QED BY <1>3, <2>1, <2>2 DEF ReadColumns
  <1>4. CASE CreateTable(r)
    <2>1. CASE /\ ~cancelled[r] /\ NoFault /\ Goto(r, "upsert")
               /\ table' = IF table = {} THEN {Meta} \cup Fields[cur[r]] ELSE table
      <3>1. table = {} /\ stops' = stops
        BY <1>0, <1>4, <2>1 DEF TableKnown, CreateTable, NoFault
      <3>2. pc'[r] = "upsert" /\ Fields[cur[r]] \subseteq table'
        BY <1>0, <2>1, <3>1 DEF Goto
      <3>3. TableKnown(r)'
        BY <1>0, <3>1, <3>2 DEF TableKnown
      <3> QED BY <1>2, <2>1, <3>2, <3>3
    <2> QED BY <1>1, <1>4, <2>1 DEF CreateTable
  <1>5. CASE AlterTable(r)
    <2>0. seen[r] = table
      BY <1>0, <1>5 DEF TableKnown, AlterTable
    <2>1. ASSUME NEW col, ~cancelled[r], NoFault, table' = table \cup {col},
                 seen' = [seen EXCEPT ![r] = @ \cup {col}],
                 Goto(r, IF Fields[cur[r]] \subseteq seen'[r] THEN "upsert" ELSE "alter")
          PROVE  Budget(r)'
      <3>1. seen'[r] = table' /\ stops' = stops
        BY <1>0, <2>0, <2>1 DEF NoFault
      <3>2. pc'[r] = IF Fields[cur[r]] \subseteq table' THEN "upsert" ELSE "alter"
        BY <1>0, <2>1, <3>1 DEF Goto
      <3>3. TableKnown(r)'
        BY <1>0, <3>1, <3>2 DEF TableKnown
      <3> QED BY <1>2, <2>1, <3>2, <3>3
    <2>2. CASE /\ IF Fields[cur[r]] \cap table \subseteq seen[r] THEN StatementFails(r) ELSE NoFault
               /\ Goto(r, "nack") /\ UNCHANGED table
      BY <1>1, <2>0, <2>2
    <2> QED BY <1>5, <2>1, <2>2 DEF AlterTable
  <1>6. CASE Upsert(r)
    <2>0. UNCHANGED table /\ Fields[cur[r]] \subseteq table
      BY <1>0, <1>6 DEF TableKnown, Upsert
    <2>1. CASE NoFault /\ Goto(r, "ack")
      <3>1. pc'[r] = "ack" /\ stops' = stops
        BY <1>0, <2>1 DEF Goto, NoFault
      <3>2. TableKnown(r)'
        BY <1>0, <3>1 DEF TableKnown
      <3> QED BY <1>2, <2>1, <3>1, <3>2
    <2>2. CASE StatementFails(r) /\ Goto(r, "nack")
      BY <1>1, <2>0, <2>2
    <2> QED BY <1>6, <2>0, <2>1, <2>2 DEF Upsert
  <1> QED BY <1>3, <1>4, <1>5, <1>6

\* Nack: what was about to be dropped is dropped, or given back by a lost channel.
LEMMA BudgetNack ==
  ASSUME NEW r \in Replicas, Budget(r), TypeOK, Nack(r)
  PROVE  Budget(r)'
  <1>0. /\ UNCHANGED <<table, dbErrors, stops, cancelled>> /\ pc'[r] = "receive" /\ pc[r] = "nack"
        /\ TableKnown(r)
    BY DEF Nack, Goto, NoFault, sink, TypeOK, Budget
  <1>1. TableKnown(r)'
    BY <1>0 DEF TableKnown
  <1>2. ASSUME stops = 0 PROVE Paid(r)'
    <2> DEFINE dropped == rejected \ Malformed
    <2>1. Paid(r)
      BY <1>2 DEF Budget
    <2>2. IsFiniteSet(dropped) /\ Cardinality(dropped) \in Nat /\ dbErrors \in Nat
      BY Counted
    <2>3. CASE dropped' = dropped
      BY <1>0, <2>1, <2>3 DEF Paid, Dropping, NoNeedlessDrop
    <2>4. CASE dropped' = dropped \cup {cur[r]} /\ cur[r] \notin Malformed
      <3>1. Cardinality(dropped) < dbErrors
        BY <1>0, <2>1, <2>4 DEF Paid, Dropping
      <3>2. Cardinality(dropped') <= Cardinality(dropped) + 1 /\ Cardinality(dropped') \in Nat
        <4> HIDE DEF dropped
        <4>1. /\ IsFiniteSet(dropped \cup {cur[r]})
              /\ Cardinality(dropped \cup {cur[r]}) =
                   IF cur[r] \in dropped THEN Cardinality(dropped) ELSE Cardinality(dropped) + 1
          BY <2>2, FS_AddElement
        <4> QED BY <2>2, <2>4, <4>1
      <3>3. Cardinality(dropped') <= dbErrors
        <4> HIDE DEF dropped
        <4> QED BY <2>2, <3>1, <3>2
      <3> QED BY <1>0, <3>3 DEF Paid, Dropping, NoNeedlessDrop
    <2>5. rejected' = rejected \/ rejected' = rejected \cup {cur[r]}
      BY DEF Nack
    <2> QED BY <2>3, <2>4, <2>5
  <1> QED BY <1>0, <1>1, <1>2 DEF Budget

\* The steps of one replica keep its budget.
LEMMA BudgetStep ==
  ASSUME NEW r \in Replicas, Budget(r), TypeOK, Consume(r) \/ Disturb(r)
  PROVE  Budget(r)'
  <1>1. CASE Push(r)
    BY <1>1, BudgetFrame DEF Push, worker, sink, NoFault
  <1>2. CASE Subscribe(r) \/ StreamEnds(r) \/ Receive(r)
    <2>1. /\ UNCHANGED <<table, rejected, dbErrors, stops, cancelled>>
          /\ pc'[r] \in {"receive", "wait", "decode"}
      BY <1>2 DEF Subscribe, StreamEnds, Receive, queue, sink, NoFault, Goto, TypeOK
    <2> QED BY <2>1, BudgetFrame
  <1>3. CASE Decode(r)
    <2>1. /\ UNCHANGED <<table, rejected, dbErrors, stops, cancelled, cur>>
          /\ pc'[r] = IF cur[r] \in Malformed THEN "nack" ELSE "columns"
      BY <1>3 DEF Decode, queue, sink, NoFault, Goto, TypeOK
    <2> QED BY <2>1, BudgetFrame
  <1>4. CASE ReadColumns(r) \/ CreateTable(r) \/ AlterTable(r) \/ Upsert(r)
    BY <1>4, BudgetHandler
  <1>5. CASE Ack(r)
    <2>1. /\ UNCHANGED <<table, rejected, dbErrors, stops, cancelled>>
          /\ pc'[r] \in {"receive", "wait"}
      BY <1>5 DEF Ack, sink, NoFault, Goto, TypeOK
    <2> QED BY <2>1, BudgetFrame
  <1>6. CASE Nack(r)
    BY <1>6, BudgetNack
  <1>7. CASE Exit(r) \/ Crash(r)
    <2>1. /\ UNCHANGED <<table, rejected, dbErrors, stops>>
          /\ pc'[r] = "down" /\ cancelled'[r] = FALSE
      BY <1>7 DEF Exit, Crash, Halt, LoseChannel, sink, NoFault, Fault, Goto, TypeOK
    <2> QED BY <2>1, BudgetFrame
  <1>8. CASE ChannelDrop(r)
    BY <1>8, BudgetFrame DEF ChannelDrop, LoseChannel, worker, sink, Fault
  <1>9. CASE Terminate(r)
    <2>1. stops' # 0 /\ UNCHANGED <<pc, cur, seen, table>>
      BY <1>9, Counted DEF Terminate, worker, sink
    <2> QED BY <2>1 DEF Budget, TableKnown
  <1> QED BY <1>1, <1>2, <1>3, <1>4, <1>5, <1>6, <1>7, <1>8, <1>9 DEF Consume, Disturb, Handle

LEMMA NextDrop ==
  ASSUME OneReplica
  PROVE  DeliveryInv /\ DropInv /\ [Next]_vars => DropInv'
  <1> SUFFICES ASSUME DeliveryInv, DropInv, [Next]_vars PROVE DropInv'
    OBVIOUS
  <1>0. TypeOK
    BY DEF DeliveryInv
  <1>1. CASE UNCHANGED vars \/ Publish
    <2>1. UNCHANGED <<pc, cur, seen, cancelled, table, rejected, dbErrors, stops>>
      BY <1>1 DEF vars, Publish, queue, worker, sink, Fault, NoFault
    <2>2. \A r \in Replicas : Budget(r)'
      BY <1>0, <2>1, BudgetFrame DEF DropInv
    <2> QED BY <2>1, <2>2 DEF DropInv, NoNeedlessDrop
  <1>2. ASSUME NEW r \in Replicas, Consume(r) \/ Disturb(r) PROVE DropInv'
    <2>1. Budget(r)'
      BY <1>0, <1>2, BudgetStep DEF DropInv
    <2>2. \A q \in Replicas : q = r
      BY OneReplica DEF OneReplica
    <2>3. stops' = 0 => NoNeedlessDrop'
      BY <2>1 DEF Budget, Paid
    <2> QED BY <2>1, <2>2, <2>3 DEF DropInv
  <1> QED BY <1>1, <1>2 DEF Next

\* With one replica that is not stopped, no more well-formed entities are dropped than the sink
\* failed statements: new columns, redeliveries, crashes and lost channels cost none.
THEOREM DropsArePaidFor ==
  ASSUME OneReplica
  PROVE  Spec => [](stops = 0 => NoNeedlessDrop)
  <1>1. Init => DropInv
    <2> SUFFICES ASSUME Init PROVE DropInv
      OBVIOUS
    <2>1. rejected \ Malformed = {} /\ Cardinality({}) = 0 /\ dbErrors = 0
      BY FS_EmptySet DEF Init
    <2>2. NoNeedlessDrop
      BY <2>1 DEF NoNeedlessDrop
    <2>3. ASSUME NEW r \in Replicas PROVE Budget(r)
      <3>1. pc[r] = "down" /\ cancelled[r] = FALSE
        BY DEF Init
      <3> QED BY <2>2, <3>1 DEF Budget, TableKnown, Paid, Dropping
    <2> QED BY <2>2, <2>3 DEF DropInv
  <1>2. DeliveryInv /\ DropInv /\ [Next]_vars => DropInv'
    BY OneReplica, NextDrop
  <1>3. DropInv => (stops = 0 => NoNeedlessDrop)
    BY DEF DropInv
  <1> QED BY <1>1, <1>2, <1>3, AlwaysDelivery, PTL DEF Spec

=============================================================================
