------------------------- MODULE ControllerFeed_proofs -------------------------
(***************************************************************************)
(* The controller's feed, for every number of services, every clock and    *)
(* every bound.  First the activity ring by itself, for every capacity and *)
(* throttle: readers get the newest events in order, heartbeats of a       *)
(* service are throttled, and the ring implements a bounded history.  That *)
(* rests on AppendShifts: an append puts its event at offset 0 and moves   *)
(* what is kept one offset on, wherever the buffer wraps.                  *)
(*                                                                         *)
(* Then its use: the controller uses the ring by its operations, so what   *)
(* is proved of the ring holds of it in the controller; an acknowledged    *)
(* heartbeat stays; nothing is shown healthy that has not beaten.          *)
(***************************************************************************)
EXTENDS ControllerFeed, TLAPS

\* The offsets of the events there are.
Offsets == 0..(FilledCount - 1)
At(i) == buf[Index(i)]

\* Counting: how full, next and seq hang together, and the ids by offset.
Counted ==
    /\ full => seq >= Cap
    /\ ~full => seq = next
    /\ \A i \in Offsets : At(i) \in Event /\ At(i).id = seq - i

\* Spacing: what the throttle knows bounds what is in the feed, and the feed is spaced.
Spaced ==
    /\ \A i \in Offsets : At(i).of \in Services => At(i).at <= lastHB[At(i).of]
    /\ accepted # NoHeartbeat =>
          /\ accepted.at = lastHB[accepted.of]
          /\ \A i \in Offsets : At(i).of = accepted.of => accepted.at - At(i).at >= Gap
    /\ \A i, j \in Offsets :
          i < j /\ At(i).of = At(j).of /\ At(i).of \in Services => At(i).at - At(j).at >= Gap

Inv == RingTypeOK /\ Counted /\ Spaced

-----------------------------------------------------------------------------
(***************************************************************************)
(* Index arithmetic.                                                       *)
(***************************************************************************)

\* Remainders of what lies below twice the divisor.
LEMMA ModSmall ==
    ASSUME NEW n \in Nat \ {0}, NEW x \in 0..(n - 1) PROVE x % n = x
  BY SMT

LEMMA ModWrap ==
    ASSUME NEW n \in Nat \ {0}, NEW x \in n..(2 * n - 1) PROVE x % n = x - n
  BY SMT

\* The remainder newestSlice takes, for any position n of the writer in a ring of c slots.
LEMMA IndexArith ==
    ASSUME NEW c \in Nat \ {0}, NEW n \in 0..(c - 1), NEW i \in 0..(c - 1)
    PROVE  (n - 1 - i + c) % c = IF i < n THEN n - 1 - i ELSE n - 1 - i + c
  <1>1. CASE i < n
    <2>1. n - 1 - i + c \in c..(2 * c - 1)
      BY <1>1
    <2>2. (n - 1 - i + c) % c = n - 1 - i + c - c
      BY <2>1, ModWrap
    <2> QED
      BY <1>1, <2>2
  <1>2. CASE ~(i < n)
    <2>1. n - 1 - i + c \in 0..(c - 1)
      BY <1>2
    <2> QED
      BY <1>2, <2>1, ModSmall
  <1> QED
    BY <1>1, <1>2

\* Where newestSlice looks for the event at offset i.
LEMMA IndexIs ==
    ASSUME RingTypeOK, NEW i \in Slots
    PROVE  Index(i) = IF i < next THEN next - 1 - i ELSE next - 1 - i + Cap
  <1>1. Cap \in Nat \ {0} /\ next \in 0..(Cap - 1) /\ i \in 0..(Cap - 1)
    BY RingAssumption DEF RingTypeOK, Slots
  <1> QED
    BY <1>1, IndexArith DEF Index

\* The slot after next.
LEMMA NextIs ==
    ASSUME RingTypeOK PROVE (next + 1) % Cap = IF next + 1 = Cap THEN 0 ELSE next + 1
  <1>1. Cap \in Nat \ {0} /\ next \in 0..(Cap - 1)
    BY RingAssumption DEF RingTypeOK, Slots
  <1>2. CASE next + 1 = Cap
    BY <1>1, <1>2, ModWrap
  <1>3. CASE next + 1 # Cap
    BY <1>1, <1>3, ModSmall
  <1> QED
    BY <1>2, <1>3

\* There are never more offsets than slots.
LEMMA FilledIs ==
    ASSUME RingTypeOK
    PROVE  FilledCount \in 0..Cap /\ Offsets \subseteq Slots
  BY RingAssumption DEF RingTypeOK, Slots, FilledCount, Offsets

\* An append shifts the offsets by one and forgets the oldest event of a full ring.
LEMMA AppendShifts ==
    ASSUME RingTypeOK, NEW e, AppendLocked(e), next' \in Slots
    PROVE  /\ FilledCount' = IF FilledCount < Cap THEN FilledCount + 1 ELSE Cap
           /\ \A i \in Offsets' : i = 0 => At(i)' = e
           /\ \A i \in Offsets' : i # 0 => i - 1 \in Offsets /\ At(i)' = At(i - 1)
  <1>1. Cap \in Nat \ {0} /\ next \in 0..(Cap - 1) /\ full \in BOOLEAN
    BY RingAssumption DEF RingTypeOK, Slots
  <1>2. next' = (IF next + 1 = Cap THEN 0 ELSE next + 1) /\ full' = (full \/ next' = 0)
    BY NextIs DEF AppendLocked
  <1>3. FilledCount' = IF FilledCount < Cap THEN FilledCount + 1 ELSE Cap
    <2>1. CASE full
      <3>1. full'
        BY <1>2, <2>1, Zenon
      <3> QED
        BY <1>1, <2>1, <3>1 DEF FilledCount
    <2>2. CASE ~full /\ next + 1 = Cap
      <3>1. next' = 0
        BY <1>2, <2>2
      <3>2. full'
        BY <1>2, <3>1, Zenon
      <3> QED
        BY <1>1, <2>2, <3>2 DEF FilledCount
    <2>3. CASE ~full /\ next + 1 # Cap
      <3>1. next' = next + 1 /\ next' # 0
        BY <1>1, <1>2, <2>3
      <3>2. ~full'
        BY <1>2, <2>3, <3>1, Zenon
      <3> QED
        BY <1>1, <2>3, <3>1, <3>2 DEF FilledCount
    <2> QED
      BY <2>1, <2>2, <2>3
  <1>4. \A i \in Offsets' : i \in Slots /\ (i # 0 => i - 1 \in Offsets /\ i - 1 \in Slots)
    <2>1. FilledCount \in 0..Cap
      BY FilledIs
    <2> QED
      BY <1>1, <1>3, <2>1 DEF Offsets, Slots
  <1>5. ASSUME NEW i \in Slots
        PROVE  Index(i)' = IF i < next' THEN next' - 1 - i ELSE next' - 1 - i + Cap
    <2>1. next' \in 0..(Cap - 1) /\ i \in 0..(Cap - 1)
      BY <1>5 DEF Slots
    <2> QED
      BY <1>1, <2>1, IndexArith DEF Index
  <1>6. buf' = [buf EXCEPT ![next] = e] /\ buf \in [Slots -> Event \cup {NoEvent}] /\ next \in Slots
    BY DEF AppendLocked, RingTypeOK
  <1>7. ASSUME NEW i \in Offsets', i = 0 PROVE At(i)' = e
    <2>1. Index(i)' = next
      BY <1>1, <1>2, <1>4, <1>5, <1>7
    <2> QED
      BY <1>6, <2>1 DEF At
  <1>8. ASSUME NEW i \in Offsets', i # 0 PROVE At(i)' = At(i - 1)
    <2>1. i \in 0..(Cap - 1) /\ i - 1 \in Slots /\ i \in Slots
      BY <1>4, <1>8 DEF Slots
    <2>2. Index(i - 1) = IF i - 1 < next THEN next - 1 - (i - 1) ELSE next - 1 - (i - 1) + Cap
      BY <2>1, IndexIs
    <2>3. Index(i)' = IF i < next' THEN next' - 1 - i ELSE next' - 1 - i + Cap
      BY <2>1, <1>5
    <2>4. Index(i)' = Index(i - 1) /\ Index(i - 1) # next /\ Index(i - 1) \in Slots
      BY <1>1, <1>2, <1>8, <2>1, <2>2, <2>3 DEF Slots
    <2> QED
      BY <1>6, <2>4 DEF At
  <1> QED
    BY <1>3, <1>4, <1>7, <1>8

-----------------------------------------------------------------------------
(***************************************************************************)
(* The invariant.                                                          *)
(***************************************************************************)

\* The parts of the type that an append touches.
LEMMA AppendTyped ==
    ASSUME RingTypeOK, NEW e \in Event, AppendLocked(e)
    PROVE  buf' \in [Slots -> Event \cup {NoEvent}] /\ next' \in Slots /\ full' \in BOOLEAN
  <1>1. buf' \in [Slots -> Event \cup {NoEvent}]
    BY DEF RingTypeOK, AppendLocked
  <1>2. next' \in Slots
    BY NextIs, RingAssumption DEF RingTypeOK, Slots, AppendLocked
  <1>3. full' \in BOOLEAN
    BY DEF RingTypeOK, AppendLocked
  <1> QED
    BY <1>1, <1>2, <1>3

\* What every record does, whichever event it is of.
LEMMA RecordShifts ==
    ASSUME RingTypeOK, Counted, NEW of \in Subjects, NEW at \in Times, Record(of, at)
    PROVE  /\ buf' \in [Slots -> Event \cup {NoEvent}] /\ next' \in Slots /\ full' \in BOOLEAN
           /\ seq' \in Nat
           /\ Counted'
           /\ \A i \in Offsets' : i = 0 => At(i)' = [id |-> seq + 1, of |-> of, at |-> at]
           /\ \A i \in Offsets' : i # 0 => i - 1 \in Offsets /\ At(i)' = At(i - 1)
  <1> DEFINE e == [id |-> seq + 1, of |-> of, at |-> at]
  <1>1. seq \in Nat /\ Cap \in Nat \ {0} /\ next \in 0..(Cap - 1) /\ full \in BOOLEAN
    BY RingAssumption DEF RingTypeOK, Slots
  <1>2. e \in Event
    BY <1>1 DEF Event
  <1>3. AppendLocked(e) /\ seq' = seq + 1
    BY DEF Record
  <1>4. buf' \in [Slots -> Event \cup {NoEvent}] /\ next' \in Slots /\ full' \in BOOLEAN
    BY <1>2, <1>3, AppendTyped
  <1>5. /\ \A i \in Offsets' : i = 0 => At(i)' = e
        /\ \A i \in Offsets' : i # 0 => i - 1 \in Offsets /\ At(i)' = At(i - 1)
    BY <1>3, <1>4, AppendShifts
  <1>6. next' = (IF next + 1 = Cap THEN 0 ELSE next + 1) /\ full' = (full \/ next' = 0)
    BY <1>3, NextIs DEF AppendLocked
  <1>7. full' => seq' >= Cap
    <2>1. CASE full
      BY <1>1, <1>3, <2>1 DEF Counted
    <2>2. CASE ~full
      <3>1. full' => next' = 0
        BY <1>6, <2>2, Zenon
      <3> QED
        BY <1>1, <1>3, <1>6, <2>2, <3>1 DEF Counted
    <2> QED
      BY <2>1, <2>2
  <1>8. ~full' => seq' = next'
    <2>1. ~full' => ~full /\ next' # 0
      BY <1>6, Zenon
    <2> QED
      BY <1>1, <1>3, <1>6, <2>1 DEF Counted
  <1>9. ASSUME NEW i \in Offsets' PROVE At(i)' \in Event /\ At(i)'.id = seq' - i
    <2>1. CASE i = 0
      BY <1>1, <1>2, <1>3, <1>5, <2>1
    <2>2. CASE i # 0
      <3>1. i - 1 \in Offsets /\ At(i)' = At(i - 1)
        BY <1>5, <2>2
      <3>2. At(i - 1) \in Event /\ At(i - 1).id = seq - (i - 1)
        BY <3>1 DEF Counted
      <3>3. i \in Int
        BY <1>9 DEF Offsets
      <3> QED
        BY <1>1, <1>3, <3>1, <3>2, <3>3
    <2> QED
      BY <2>1, <2>2
  <1>10. Counted'
    BY <1>7, <1>8, <1>9 DEF Counted
  <1> QED
    BY <1>1, <1>3, <1>4, <1>5, <1>10

\* The invariant holds of the empty ring.
LEMMA EmptyInv ==
    ASSUME buf = [i \in Slots |-> NoEvent], next = 0, full = FALSE, seq = 0,
           lastHB = [s \in Services |-> 0], accepted = NoHeartbeat
    PROVE  Inv
  <1>1. RingTypeOK
    <2>1. next \in Slots /\ seq \in Nat
      BY RingAssumption DEF Slots
    <2>2. buf \in [Slots -> Event \cup {NoEvent}] /\ lastHB \in [Services -> Times \cup {0}]
      OBVIOUS
    <2>3. full \in BOOLEAN /\ accepted \in Heartbeat \cup {NoHeartbeat}
      OBVIOUS
    <2> QED
      BY <2>1, <2>2, <2>3 DEF RingTypeOK
  <1>2. Offsets = {}
    BY DEF Offsets, FilledCount
  <1>3. Counted
    BY <1>2 DEF Counted
  <1>4. Spaced
    BY <1>2 DEF Spaced
  <1> QED
    BY <1>1, <1>3, <1>4 DEF Inv

\* ... and is kept by each step.
LEMMA InvStep ==
    ASSUME Inv, [RingNext]_ring PROVE Inv'
  <1> USE DEF Inv
  <1>1. Cap \in Nat \ {0} /\ Gap \in Nat /\ Times \subseteq Nat \ {0} /\ {Request, RunDone} \cap Services = {}
    BY RingAssumption
  <1>2. ASSUME NEW of \in {Request, RunDone}, NEW at \in Times, RecordCollection(of, at) PROVE Inv'
    <2>1. of \in Subjects /\ of \notin Services /\ Record(of, at) /\ lastHB' = lastHB /\ accepted' = accepted
      BY <1>1, <1>2 DEF RecordCollection, Subjects
    <2>2. /\ RingTypeOK' /\ Counted'
          /\ \A i \in Offsets' : i = 0 => At(i)' = [id |-> seq + 1, of |-> of, at |-> at]
          /\ \A i \in Offsets' : i # 0 => i - 1 \in Offsets /\ At(i)' = At(i - 1)
      BY <2>1, RecordShifts DEF RingTypeOK
    <2>3. ASSUME NEW i \in Offsets', At(i)'.of \in Services
          PROVE  i # 0 /\ i - 1 \in Offsets /\ At(i)' = At(i - 1)
      BY <2>1, <2>2, <2>3
    <2>4. accepted # NoHeartbeat => accepted.of \in Services
      BY DEF RingTypeOK, Heartbeat
    <2>5. \A i \in Offsets' : At(i)'.of \in Services => At(i)'.at <= lastHB'[At(i)'.of]
      BY <2>1, <2>3 DEF Spaced
    <2>6. accepted' # NoHeartbeat =>
             /\ accepted'.at = lastHB'[accepted'.of]
             /\ \A i \in Offsets' : At(i)'.of = accepted'.of => accepted'.at - At(i)'.at >= Gap
      BY <2>1, <2>3, <2>4 DEF Spaced
    <2>7. \A i, j \in Offsets' :
             i < j /\ At(i)'.of = At(j)'.of /\ At(i)'.of \in Services => At(i)'.at - At(j)'.at >= Gap
      <3> SUFFICES ASSUME NEW i \in Offsets', NEW j \in Offsets',
                          i < j, At(i)'.of = At(j)'.of, At(i)'.of \in Services
                   PROVE  At(i)'.at - At(j)'.at >= Gap
        OBVIOUS
      <3>1. i - 1 \in Offsets /\ j - 1 \in Offsets /\ At(i)' = At(i - 1) /\ At(j)' = At(j - 1)
        BY <2>3
      <3>2. i - 1 < j - 1
        BY DEF Offsets
      <3> QED
        BY <3>1, <3>2 DEF Spaced
    <2> QED
      BY <2>2, <2>5, <2>6, <2>7 DEF Spaced
  <1>3. ASSUME NEW s \in Services, NEW at \in Times, AcceptHeartbeat(s, at) PROVE Inv'
    <2>1. buf' = buf /\ next' = next /\ full' = full /\ seq' = seq /\ accepted = NoHeartbeat
      BY <1>3 DEF AcceptHeartbeat
    <2>2. Offsets' = Offsets /\ \A i \in Offsets : At(i)' = At(i)
      BY <2>1 DEF Offsets, FilledCount, At, Index
    <2>3. Counted'
      BY <2>1, <2>2 DEF Counted
    <2>4. CASE lastHB[s] = 0 \/ at - lastHB[s] >= Gap
      <3>1. lastHB' = [lastHB EXCEPT ![s] = at] /\ accepted' = [of |-> s, at |-> at]
        BY <1>3, <2>4 DEF AcceptHeartbeat
      <3>2. lastHB \in [Services -> Times \cup {0}]
        BY DEF RingTypeOK
      <3>3. RingTypeOK'
        BY <2>1, <3>1 DEF RingTypeOK, Heartbeat
      <3>4. ASSUME NEW i \in Offsets, At(i).of = s PROVE at - At(i).at >= Gap /\ At(i).at <= at
        <4>1. At(i).at <= lastHB[s] /\ At(i).at \in Times
          BY <3>4 DEF Spaced, Counted, Event
        <4>2. lastHB[s] \in Nat /\ at \in Nat /\ At(i).at \in Nat \ {0}
          <5>1. lastHB[s] \in Times \cup {0}
            BY <3>2
          <5>2. \A t \in Times : t \in Nat \ {0}
            BY <1>1
          <5>3. at \in Times /\ At(i).at \in Times
            BY <4>1
          <5> HIDE DEF At
          <5> QED
            BY <5>1, <5>2, <5>3
        <4>3. lastHB[s] # 0
          BY <4>1, <4>2
        <4>4. at - lastHB[s] >= Gap
          BY <2>4, <4>3
        <4> QED
          BY <1>1, <4>1, <4>2, <4>4
      <3>5. \A i \in Offsets : At(i).of \in Services => At(i).at <= lastHB'[At(i).of]
        BY <3>1, <3>2, <3>4 DEF Spaced
      <3>6. accepted'.at = lastHB'[accepted'.of] /\ accepted'.of = s /\ accepted'.at = at
        BY <3>1, <3>2
      <3> QED
        BY <2>2, <2>3, <3>3, <3>4, <3>5, <3>6 DEF Spaced
    <2>5. CASE ~(lastHB[s] = 0 \/ at - lastHB[s] >= Gap)
      <3>1. lastHB' = lastHB /\ accepted' = accepted
        BY <1>3, <2>5 DEF AcceptHeartbeat
      <3> QED
        BY <2>1, <2>2, <2>3, <3>1 DEF RingTypeOK, Spaced
    <2> QED
      BY <2>4, <2>5
  <1>4. CASE RecordAccepted
    <2>1. /\ accepted # NoHeartbeat /\ Record(accepted.of, accepted.at)
          /\ lastHB' = lastHB /\ accepted' = NoHeartbeat
          /\ accepted.of \in Services /\ accepted.of \in Subjects /\ accepted.at \in Times
      BY <1>4 DEF RecordAccepted, RingTypeOK, Heartbeat, Subjects
    <2>2. /\ RingTypeOK' /\ Counted'
          /\ \A i \in Offsets' : i = 0 => At(i)' = [id |-> seq + 1, of |-> accepted.of, at |-> accepted.at]
          /\ \A i \in Offsets' : i # 0 => i - 1 \in Offsets /\ At(i)' = At(i - 1)
      BY <2>1, RecordShifts DEF RingTypeOK
    <2>3. accepted.at = lastHB[accepted.of]
          /\ \A i \in Offsets : At(i).of = accepted.of => accepted.at - At(i).at >= Gap
      BY <2>1 DEF Spaced
    <2>4. lastHB[accepted.of] \in Nat
      BY <1>1, <2>1, <2>3
    <2>5. ASSUME NEW i \in Offsets', At(i)'.of \in Services PROVE At(i)'.at <= lastHB'[At(i)'.of]
      <3>1. CASE i = 0
        BY <2>1, <2>2, <2>3, <2>4, <3>1
      <3>2. CASE i # 0
        BY <2>1, <2>2, <2>5, <3>2 DEF Spaced
      <3> QED
        BY <3>1, <3>2
    <2>6. ASSUME NEW i \in Offsets', NEW j \in Offsets',
                 i < j, At(i)'.of = At(j)'.of, At(i)'.of \in Services
          PROVE  At(i)'.at - At(j)'.at >= Gap
      <3>1. i \in Nat /\ j \in Nat /\ j # 0
        BY <2>6 DEF Offsets
      <3>2. j - 1 \in Offsets /\ At(j)' = At(j - 1)
        BY <2>2, <3>1
      <3>3. CASE i = 0
        BY <2>2, <2>3, <2>6, <3>2, <3>3
      <3>4. CASE i # 0
        <4>1. i - 1 \in Offsets /\ At(i)' = At(i - 1) /\ i - 1 < j - 1
          BY <2>2, <2>6, <3>1, <3>4
        <4> QED
          BY <2>6, <3>2, <4>1 DEF Spaced
      <3> QED
        BY <3>3, <3>4
    <2> QED
      BY <2>1, <2>2, <2>5, <2>6 DEF Spaced
  <1>5. CASE RingRestart
    <2>1. RingTypeOK'
      <3>1. next' \in Slots /\ seq' \in Nat
        BY <1>1, <1>5 DEF RingRestart, Slots
      <3>2. buf' \in [Slots -> Event \cup {NoEvent}] /\ lastHB' \in [Services -> Times \cup {0}]
        BY <1>5 DEF RingRestart
      <3>3. full' \in BOOLEAN /\ accepted' \in Heartbeat \cup {NoHeartbeat}
        BY <1>5 DEF RingRestart
      <3> QED
        BY <3>1, <3>2, <3>3 DEF RingTypeOK
    <2>2. Offsets' = {}
      BY <1>5 DEF RingRestart, Offsets, FilledCount
    <2>3. Counted'
      BY <1>5, <2>2 DEF RingRestart, Counted
    <2> QED
      BY <1>5, <2>1, <2>2, <2>3 DEF RingRestart, Spaced
  <1>6. CASE UNCHANGED ring
    <2>1. Offsets' = Offsets /\ \A i \in Offsets : At(i)' = At(i)
      BY <1>6 DEF ring, Offsets, FilledCount, At, Index
    <2> QED
      BY <1>6, <2>1 DEF ring, RingTypeOK, Counted, Spaced
  <1> QED
    BY <1>2, <1>3, <1>4, <1>5, <1>6 DEF RingNext

\* Every reachable ring is counted and spaced.
THEOREM RingInvariant == RingSpec => []Inv
  <1>1. RingInit => Inv
    BY EmptyInv DEF RingInit
  <1>2. Inv /\ [RingNext]_ring => Inv'
    BY InvStep
  <1> QED
    BY <1>1, <1>2, PTL DEF RingSpec

-----------------------------------------------------------------------------
(***************************************************************************)
(* What readers rely on.                                                   *)
(***************************************************************************)

\* How many events there are.
LEMMA FilledBySeq ==
    ASSUME Inv PROVE FilledCount = IF seq < Cap THEN seq ELSE Cap
  <1>1. Cap \in Nat \ {0} /\ next \in 0..(Cap - 1) /\ seq \in Nat
    BY RingAssumption DEF Inv, RingTypeOK, Slots
  <1>2. CASE full
    BY <1>1, <1>2 DEF Inv, Counted, FilledCount
  <1>3. CASE ~full
    BY <1>1, <1>3 DEF Inv, Counted, FilledCount
  <1> QED
    BY <1>2, <1>3

\* The limit is positive whatever the client asks for.
LEMMA ClampPositive ==
    ASSUME NEW limit \in Int PROVE ClampListLimit(limit) \in Nat \ {0}
  BY RingAssumption DEF ClampListLimit

\* The newest events, newest first, none missing, whatever the limit.
LEMMA InvNewestFirst == ASSUME Inv PROVE NewestFirst
  <1> SUFFICES ASSUME NEW limit \in 0..(Cap + 1)
               PROVE  /\ \A k \in DOMAIN List(limit) : List(limit)[k].id = seq - k + 1
                      /\ Len(List(limit)) < ClampListLimit(limit) => Len(List(limit)) = FilledCount
                      /\ FilledCount = IF seq < Cap THEN seq ELSE Cap
    BY DEF NewestFirst
  <1> DEFINE c == ClampListLimit(limit)
             n == IF c > FilledCount THEN FilledCount ELSE c
  <1>1. c \in Nat \ {0} /\ FilledCount \in 0..Cap /\ seq \in Nat /\ Cap \in Nat
    BY RingAssumption, ClampPositive, FilledIs DEF Inv, RingTypeOK
  <1>2. n \in Nat /\ n <= FilledCount
    BY <1>1
  <1>3. List(limit) = [k \in 1..n |-> At(k - 1)]
    BY DEF List, NewestSlice, At
  <1> HIDE DEF c, n
  <1>4. DOMAIN List(limit) = 1..n /\ \A k \in 1..n : List(limit)[k] = At(k - 1)
    BY <1>3
  <1>5. Len(List(limit)) = n
    BY <1>2, <1>3
  <1>6. ASSUME NEW k \in 1..n PROVE At(k - 1).id = seq - k + 1
    <2>1. k - 1 \in Offsets
      BY <1>1, <1>2 DEF Offsets
    <2>2. At(k - 1).id = seq - (k - 1)
      BY <2>1 DEF Inv, Counted
    <2> QED
      BY <1>1, <1>2, <2>2
  <1>7. n < c => n = FilledCount
    BY <1>1 DEF n
  <1> QED
    BY <1>4, <1>5, <1>6, <1>7, FilledBySeq DEF c

\* The heartbeats of a service in the feed are Gap apart.
LEMMA InvThrottled == ASSUME Inv PROVE Throttled
  <1> SUFFICES ASSUME NEW i \in 1..FilledCount, NEW j \in 1..FilledCount, i < j,
                      At(i - 1).of = At(j - 1).of, At(i - 1).of \in Services
               PROVE  At(i - 1).at - At(j - 1).at >= Gap
    BY DEF Throttled, At
  <1>1. FilledCount \in Nat
    BY FilledIs, RingAssumption DEF Inv
  <1>2. i - 1 \in Offsets /\ j - 1 \in Offsets /\ i - 1 < j - 1
    BY <1>1 DEF Offsets
  <1> QED
    BY <1>2 DEF Inv, Spaced

\* ListActivity shows the newest events, newest first and none missing, at every moment, for
\* every capacity of the ring and every limit.
THEOREM ReadersGetNewest == RingSpec => []NewestFirst
  BY RingInvariant, InvNewestFirst, PTL

\* No service floods the feed: its heartbeats there are hbMinGap apart, in order.
THEOREM FeedIsThrottled == RingSpec => []Throttled
  BY RingInvariant, InvThrottled, PTL

-----------------------------------------------------------------------------
(***************************************************************************)
(* The ring implements a bounded history.                                  *)
(***************************************************************************)

\* What a reader gets at most.
LEMMA WholeSlice ==
    ASSUME RingTypeOK
    PROVE  NewestSlice(Cap) = [k \in 1..FilledCount |-> At(k - 1)] /\ FilledCount \in 0..Cap
  <1>1. FilledCount \in 0..Cap /\ Cap \in Nat
    BY FilledIs, RingAssumption
  <1>2. (IF Cap > FilledCount THEN FilledCount ELSE Cap) = FilledCount
    BY <1>1
  <1> QED
    BY <1>1, <1>2 DEF NewestSlice, At

\* A record adds its event to the history.
LEMMA RecordAdds ==
    ASSUME Inv, Inv', NEW of \in Subjects, NEW at \in Times, Record(of, at)
    PROVE  History!Next
  <1> DEFINE e == [id |-> seq + 1, of |-> of, at |-> at]
             r == NewestSlice(Cap)
  <1>1. RingTypeOK /\ Counted /\ RingTypeOK' /\ seq \in Nat /\ Cap \in Nat \ {0}
    BY RingAssumption DEF Inv, RingTypeOK
  <1>2. r = [k \in 1..FilledCount |-> At(k - 1)] /\ FilledCount \in 0..Cap
    BY <1>1, WholeSlice
  <1>3. r' = [k \in 1..FilledCount' |-> At(k - 1)']
    <2>1. FilledCount' \in 0..Cap
      BY <1>1, RingAssumption DEF RingTypeOK, Slots, FilledCount
    <2>2. (IF Cap > FilledCount' THEN FilledCount' ELSE Cap) = FilledCount'
      BY <1>1, <2>1
    <2> QED
      BY <2>2 DEF NewestSlice, At
  <1>4. /\ \A i \in Offsets' : i = 0 => At(i)' = e
        /\ \A i \in Offsets' : i # 0 => i - 1 \in Offsets /\ At(i)' = At(i - 1)
    BY <1>1, RecordShifts
  <1>5. FilledCount' = IF FilledCount < Cap THEN FilledCount + 1 ELSE Cap
    BY <1>1, AppendShifts DEF Record, RingTypeOK
  <1>6. FilledCount' >= 1 /\ FilledCount' \in Nat /\ \A k \in 1..FilledCount' : k - 1 \in Offsets'
    BY <1>1, <1>2, <1>5 DEF Offsets
  <1>7. Len(r) = FilledCount
    BY <1>2
  <1>8. History!Kept = FilledCount'
    BY <1>5, <1>7 DEF History!Kept
  <1>9. 1 \in 1..FilledCount' /\ r'[1] = e
    BY <1>3, <1>4, <1>6
  <1>10. ASSUME NEW k \in 1..FilledCount' PROVE At(k - 1)' = IF k = 1 THEN e ELSE r[k - 1]
    <2>1. CASE k = 1
      BY <1>4, <1>6, <2>1
    <2>2. CASE k # 1
      <3>1. k - 1 \in Offsets' /\ k - 1 # 0
        BY <1>6, <2>2
      <3>2. (k - 1) - 1 \in Offsets /\ At(k - 1)' = At((k - 1) - 1)
        BY <1>4, <3>1
      <3>3. k - 1 \in 1..FilledCount
        BY <1>2, <3>1, <3>2 DEF Offsets
      <3> QED
        BY <1>2, <2>2, <3>2, <3>3
    <2> QED
      BY <2>1, <2>2
  <1>11. r' = [k \in 1..FilledCount' |-> IF k = 1 THEN e ELSE r[k - 1]]
    BY <1>3, <1>10
  <1>12. e \in Event
    BY <1>1 DEF Event
  <1>13. r' # <<>>
    BY <1>3, <1>6
  <1> HIDE DEF e
  <1> QED
    BY <1>8, <1>9, <1>11, <1>12, <1>13 DEF History!Next, History!Add

\* An empty ring is an empty history.
LEMMA EmptySlice ==
    ASSUME RingTypeOK, FilledCount = 0 PROVE NewestSlice(Cap) = <<>>
  BY WholeSlice

\* Each step of the ring is one of the history, or none.
LEMMA RefinementStep ==
    ASSUME Inv, Inv', [RingNext]_ring
    PROVE  [History!Next]_(NewestSlice(Cap))
  <1>1. ASSUME NEW of \in {Request, RunDone}, NEW at \in Times, RecordCollection(of, at)
        PROVE  History!Next
    BY <1>1, RecordAdds DEF RecordCollection, Subjects
  <1>2. CASE RecordAccepted
    <2>1. accepted.of \in Subjects /\ accepted.at \in Times /\ Record(accepted.of, accepted.at)
      BY <1>2 DEF RecordAccepted, Inv, RingTypeOK, Heartbeat, Subjects
    <2> QED
      BY <2>1, RecordAdds
  <1>3. ASSUME NEW s \in Services, NEW at \in Times, AcceptHeartbeat(s, at)
        PROVE  NewestSlice(Cap)' = NewestSlice(Cap)
    BY <1>3 DEF AcceptHeartbeat, NewestSlice, FilledCount, Index
  <1>4. CASE RingRestart
    <2>1. ~full' /\ next' = 0
      BY <1>4 DEF RingRestart
    <2>2. FilledCount' = 0
      BY <2>1 DEF FilledCount
    <2>3. NewestSlice(Cap)' = <<>>
      <3>1. (IF Cap > FilledCount' THEN FilledCount' ELSE Cap) = 0
        BY <2>2, RingAssumption
      <3> QED
        BY <3>1 DEF NewestSlice
    <2> QED
      BY <2>3 DEF History!Next, History!Clear
  <1>5. CASE UNCHANGED ring
    BY <1>5 DEF ring, NewestSlice, FilledCount, Index
  <1> QED
    BY <1>1, <1>2, <1>3, <1>4, <1>5 DEF RingNext

\* Whatever its capacity, and however often the buffer wraps, what ListActivity reads is a
\* bounded history: every record puts its event at the head and drops at most the oldest.
THEOREM RingImplementsHistory == RingSpec => ImplementsHistory
  <1>1. RingInit => History!Init
    <2>1. RingInit => RingTypeOK /\ FilledCount = 0
      BY EmptyInv DEF RingInit, FilledCount, Inv
    <2> QED
      BY <2>1, EmptySlice DEF History!Init
  <1>2. Inv /\ Inv' /\ [RingNext]_ring => [History!Next]_(NewestSlice(Cap))
    BY RefinementStep
  <1>3. RingSpec => []Inv
    BY RingInvariant
  <1> QED
    BY <1>1, <1>2, <1>3, PTL DEF RingSpec, ImplementsHistory, History!Spec

-----------------------------------------------------------------------------
(***************************************************************************)
(* The controller: its inductive invariant.                                *)
(***************************************************************************)

Queued == 1..Len(queue)

\* Nothing is dated later than it may be: the table by the newest heartbeat, the queue too, and
\* that by the clock.
Dated ==
    /\ \A s \in Services : row[s] <= beat[s] /\ beat[s] <= now
    /\ \A k \in Queued : queue[k].at <= beat[queue[k].of]

\* The queue is in order; what is settled is no newer than what is queued, and what is handled
\* no newer than the table.
Ordered ==
    /\ \A i, j \in Queued : i < j => queue[i].at <= queue[j].at
    /\ \A k \in Queued : settled[queue[k].of] <= queue[k].at
    /\ \A k \in 1..pos : queue[k].at <= row[queue[k].of]
    /\ SettledKept

\* The throttle has let a heartbeat pass that is less than Gap older than the newest handled.
Following ==
    \A s \in Services :
        /\ lastHB[s] = 0 => handled[s] = 0
        /\ handled[s] - lastHB[s] < Gap
        /\ shown[s] = lastHB[s] \/ (accepted # NoHeartbeat /\ accepted.of = s)

FeedInv == Inv /\ TypeOK /\ Dated /\ Ordered /\ Following

-----------------------------------------------------------------------------

\* Every step of the controller's is one of the ring's, or leaves the ring alone.
LEMMA StepUsesRing ==
    ASSUME RingTypeOK, now \in Times, queue \in Seq(Heartbeat), pos \in 0..Len(queue), [Next]_vars
    PROVE  [RingNext]_ring
  <1>1. CASE Handle
    <2>1. pos' \in 1..Len(queue)
      BY <1>1 DEF Handle
    <2>2. queue[pos'] \in Heartbeat
      BY <2>1
    <2>3. AcceptHeartbeat(queue[pos'].of, queue[pos'].at)
      BY <1>1 DEF Handle
    <2> QED
      BY <2>2, <2>3 DEF Heartbeat, RingNext
  <1>2. CASE Show
    BY <1>2 DEF Show, RingNext
  <1>3. CASE Enqueue
    BY <1>3 DEF Enqueue, RingNext
  <1>4. ASSUME NEW t \in Times, NEW ok \in BOOLEAN, Report(t, ok) PROVE RingNext
    BY <1>4 DEF Report, RingNext
  <1>5. CASE Restart
    BY <1>5 DEF Restart, RingNext
  <1>6. CASE Tick \/ Settle \/ Refresh \/ Drop \/ LoseChannel \/ UNCHANGED vars
    BY <1>6 DEF Tick, Settle, Refresh, Drop, LoseChannel, vars, ring
  <1>7. ASSUME NEW s \in Services, Beat(s) PROVE UNCHANGED ring
    BY <1>7 DEF Beat, ring
  <1> QED
    BY <1>1, <1>2, <1>3, <1>4, <1>5, <1>6, <1>7 DEF Next, Consume

\* The queue's operations, entry by entry.
LEMMA QueueAppend ==
    ASSUME queue \in Seq(Heartbeat), NEW e \in Heartbeat
    PROVE  /\ Append(queue, e) \in Seq(Heartbeat)
           /\ Len(Append(queue, e)) = Len(queue) + 1
           /\ \A k \in Queued : Append(queue, e)[k] = queue[k]
           /\ Append(queue, e)[Len(queue) + 1] = e
  BY DEF Queued

LEMMA QueueTail ==
    ASSUME queue \in Seq(Heartbeat), queue # <<>>
    PROVE  /\ Tail(queue) \in Seq(Heartbeat) /\ Head(queue) = queue[1] /\ 1 \in Queued
           /\ Len(Tail(queue)) = Len(queue) - 1
           /\ \A k \in 1..(Len(queue) - 1) : Tail(queue)[k] = queue[k + 1]
  BY DEF Queued

LEMMA QueueWithout ==
    ASSUME queue \in Seq(Heartbeat), NEW k0 \in Queued
    PROVE  /\ Without(k0) \in Seq(Heartbeat)
           /\ Len(Without(k0)) = Len(queue) - 1
           /\ \A k \in 1..(Len(queue) - 1) :
                 Without(k0)[k] = IF k < k0 THEN queue[k] ELSE queue[k + 1]
  <1> DEFINE n == Len(queue) - 1
  <1>1. n \in Nat /\ Len(queue) = n + 1 /\ Len(queue) \in Nat
    BY DEF Queued
  <1>2. \A k \in Queued : queue[k] \in Heartbeat
    BY DEF Queued
  <1>3. \A k \in 1..n : k \in Queued /\ k + 1 \in Queued
    BY <1>1 DEF Queued
  <1>4. Without(k0) = [k \in 1..n |-> IF k < k0 THEN queue[k] ELSE queue[k + 1]]
    BY DEF Without
  <1> HIDE DEF n
  <1>5. Without(k0) \in [1..n -> Heartbeat]
    BY <1>2, <1>3, <1>4
  <1>6. Without(k0) \in Seq(Heartbeat) /\ Len(Without(k0)) = n
    BY <1>1, <1>5
  <1> QED
    BY <1>4, <1>6 DEF n

-----------------------------------------------------------------------------
(***************************************************************************)
(* Each step keeps the invariant: the ring's part by the ring's proof, and *)
(* the controller's.                                                       *)
(***************************************************************************)

\* What the steps use of the invariant.
LEMMA Facts ==
    ASSUME FeedInv
    PROVE  /\ Inv /\ RingTypeOK
           /\ now \in Nat \ {0} /\ queue \in Seq(Heartbeat) /\ Len(queue) \in Nat /\ pos \in 0..Len(queue)
           /\ \A s \in Services : row[s] \in Nat /\ beat[s] \in Nat /\ settled[s] \in Nat
                                  /\ handled[s] \in Nat /\ shown[s] \in Nat /\ lastHB[s] \in Nat
           /\ \A k \in Queued : queue[k] \in Heartbeat /\ queue[k].of \in Services /\ queue[k].at \in Nat \ {0}
           /\ Gap \in Nat \ {0} /\ Times \subseteq Nat \ {0}
  <1>1. Times \subseteq Nat \ {0} /\ Gap \in Nat \ {0} /\ Clock \subseteq Nat
    BY RingAssumption DEF Clock
  <1>2. Inv /\ RingTypeOK /\ TypeOK
    BY DEF FeedInv, Inv
  <1>3. \A s \in Services : row[s] \in Nat /\ beat[s] \in Nat /\ settled[s] \in Nat
                            /\ handled[s] \in Nat /\ shown[s] \in Nat
    <2> SUFFICES ASSUME NEW s \in Services
                 PROVE  row[s] \in Clock /\ beat[s] \in Clock /\ settled[s] \in Clock
                        /\ handled[s] \in Clock /\ shown[s] \in Clock
      BY <1>1
    <2> QED
      BY <1>2 DEF TypeOK
  <1>4. \A s \in Services : lastHB[s] \in Nat
    <2> SUFFICES ASSUME NEW s \in Services PROVE lastHB[s] \in Clock
      BY <1>1
    <2> QED
      BY <1>2 DEF RingTypeOK, Clock
  <1>5. queue \in Seq(Heartbeat) /\ Len(queue) \in Nat /\ pos \in 0..Len(queue) /\ now \in Times
    BY <1>2 DEF TypeOK
  <1>6. \A k \in Queued : queue[k] \in Heartbeat
    BY <1>5 DEF Queued
  <1>7. \A h \in Heartbeat : h.of \in Services /\ h.at \in Nat \ {0}
    BY <1>1 DEF Heartbeat
  <1> QED
    BY <1>1, <1>2, <1>3, <1>4, <1>5, <1>6, <1>7

\* What a controller step leaves to show of the invariant, the ring's part being shown already.
Rest == TypeOK /\ Dated /\ Ordered /\ Following

\* The clock, the source and the gauge.
LEMMA OtherSteps ==
    ASSUME FeedInv, RingTypeOK',
           Tick \/ Enqueue \/ Refresh \/ UNCHANGED vars \/ \E t \in Times, ok \in BOOLEAN : Report(t, ok)
    PROVE  Rest'
  <1>1. UNCHANGED <<heartbeats, shown, lastHB, accepted>> /\ (now' = now \/ now' > now) /\ now' \in Times
    BY DEF Tick, Enqueue, Refresh, vars, Report, RecordCollection, ring, FeedInv, TypeOK
  <1>2. /\ run' \in Clock /\ success' \in Clock /\ gauge' \in {"unset", "stale", "healthy"}
        /\ beats' \in 0..MaxBeats /\ calls' \in 0..MaxCalls /\ faults' \in 0..MaxFaults
    <2>1. /\ run \in Clock /\ success \in Clock /\ gauge \in {"unset", "stale", "healthy"}
          /\ beats \in 0..MaxBeats /\ calls \in 0..MaxCalls /\ faults \in 0..MaxFaults
      BY DEF FeedInv, TypeOK
    <2>2. MaxBeats \in Nat /\ MaxCalls \in Nat /\ MaxFaults \in Nat
      BY FeedAssumption
    <2>3. CASE Tick \/ UNCHANGED vars
      BY <2>1, <2>3 DEF Tick, vars, source, bounds
    <2>4. CASE Enqueue
      BY <2>1, <2>2, <2>4 DEF Enqueue, Call, source
    <2>5. CASE Refresh
      BY <2>1, <2>5 DEF Refresh, source, bounds
    <2>6. ASSUME NEW t \in Times, NEW ok \in BOOLEAN, Report(t, ok)
          PROVE  /\ run' \in Clock /\ success' \in Clock /\ gauge' = gauge
                 /\ beats' \in 0..MaxBeats /\ calls' \in 0..MaxCalls /\ faults' \in 0..MaxFaults
      BY <2>1, <2>2, <2>6 DEF Report, Call, Clock
    <2> QED
      BY <2>1, <2>3, <2>4, <2>5, <2>6
  <1>3. UNCHANGED <<queue, pos, row, beat, settled, handled, shown, lastHB, accepted>>
    BY <1>1 DEF heartbeats
  <1>4. TypeOK'
    BY <1>1, <1>2, <1>3 DEF FeedInv, TypeOK, Clock
  <1>5. Dated'
    <2>1. now \in Nat /\ now' \in Nat /\ now <= now'
      BY <1>1, Facts, RingAssumption
    <2>2. \A s \in Services : beat[s] \in Nat /\ beat[s] <= now => beat[s] <= now'
      BY <2>1
    <2> QED
      BY <1>3, <2>1, <2>2, Facts DEF FeedInv, Dated, Queued
  <1>6. Ordered' /\ Following'
    BY <1>3 DEF FeedInv, Ordered, SettledKept, Following, Queued
  <1> QED
    BY <1>4, <1>5, <1>6 DEF Rest

\* A heartbeat is published.
LEMMA BeatStep ==
    ASSUME FeedInv, RingTypeOK', NEW s \in Services, Beat(s) PROVE Rest'
  <1> DEFINE e == [of |-> s, at |-> now]
  <1>1. /\ now \in Times /\ now \in Nat \ {0} /\ e \in Heartbeat
        /\ queue \in Seq(Heartbeat) /\ Len(queue) \in Nat /\ pos \in 0..Len(queue)
    BY Facts DEF FeedInv, TypeOK, Heartbeat
  <1>2. /\ queue' = Append(queue, e) /\ beat' = [beat EXCEPT ![s] = now]
        /\ UNCHANGED <<now, pos, row, settled, handled, run, success, gauge, shown, lastHB, accepted>>
    BY DEF Beat, source, ring
  <1>3. /\ queue' \in Seq(Heartbeat) /\ Len(queue') = Len(queue) + 1
        /\ \A k \in Queued : queue'[k] = queue[k]
        /\ queue'[Len(queue) + 1] = e
    BY <1>1, <1>2, QueueAppend
  <1>4. Queued' = Queued \cup {Len(queue) + 1}
    BY <1>1, <1>3 DEF Queued
  <1>5. TypeOK'
    <2>1. beat' \in [Services -> Clock]
      BY <1>1, <1>2 DEF FeedInv, TypeOK, Clock
    <2>2. pos' \in 0..Len(queue')
      BY <1>1, <1>2, <1>3
    <2>3. beats' \in 0..MaxBeats /\ calls' \in 0..MaxCalls /\ faults' \in 0..MaxFaults
      BY FeedAssumption DEF Beat, FeedInv, TypeOK
    <2> QED
      BY <1>2, <1>3, <2>1, <2>2, <2>3 DEF FeedInv, TypeOK, Clock
  <1>6. \A r \in Services : beat'[r] = IF r = s THEN now ELSE beat[r]
    BY <1>2 DEF FeedInv, TypeOK
  <1>7. Dated'
    <2>1. \A r \in Services : row'[r] <= beat'[r] /\ beat'[r] <= now' /\ beat[r] <= beat'[r]
      BY <1>1, <1>2, <1>6, Facts DEF FeedInv, Dated
    <2>2. ASSUME NEW k \in Queued' PROVE queue'[k].at <= beat'[queue'[k].of]
      <3>1. CASE k \in Queued
        <4>1. queue'[k] = queue[k] /\ queue[k].of \in Services /\ queue[k].at \in Nat
          BY <1>3, <3>1, Facts
        <4>2. queue[k].at <= beat[queue[k].of] /\ beat[queue[k].of] <= beat'[queue[k].of]
              /\ beat[queue[k].of] \in Nat /\ beat'[queue[k].of] \in Nat
          BY <2>1, <3>1, <4>1, <1>1, <1>6, Facts DEF FeedInv, Dated
        <4> QED
          BY <4>1, <4>2
      <3>2. CASE k = Len(queue) + 1
        BY <1>1, <1>3, <1>6, <3>2
      <3> QED
        BY <1>4, <3>1, <3>2
    <2> QED
      BY <2>1, <2>2 DEF Dated
  <1>8. \A k \in Queued : queue[k].at <= now
    <2> SUFFICES ASSUME NEW k \in Queued PROVE queue[k].at <= now
      OBVIOUS
    <2>1. queue[k].of \in Services /\ queue[k].at \in Nat /\ beat[queue[k].of] \in Nat
      BY Facts
    <2>2. queue[k].at <= beat[queue[k].of] /\ beat[queue[k].of] <= now
      BY <2>1 DEF FeedInv, Dated
    <2> QED
      BY <1>1, <2>1, <2>2
  <1>9. Ordered'
    <2>1. \A i, j \in Queued' : i < j => queue'[i].at <= queue'[j].at
      <3> SUFFICES ASSUME NEW i \in Queued', NEW j \in Queued', i < j
                   PROVE  queue'[i].at <= queue'[j].at
        OBVIOUS
      <3>1. i \in Queued
        BY <1>1, <1>3 DEF Queued
      <3>2. CASE j \in Queued
        BY <1>3, <3>1, <3>2 DEF FeedInv, Ordered
      <3>3. CASE j = Len(queue) + 1
        BY <1>3, <1>8, <3>1, <3>3
      <3> QED
        BY <1>4, <3>2, <3>3
    <2>2. \A k \in Queued' : settled'[queue'[k].of] <= queue'[k].at
      <3>1. settled[s] <= now
        <4>1. settled[s] \in Nat /\ row[s] \in Nat /\ beat[s] \in Nat
          BY Facts
        <4>2. settled[s] <= row[s] /\ row[s] <= beat[s] /\ beat[s] <= now
          BY DEF FeedInv, Ordered, SettledKept, Dated
        <4> QED
          BY <1>1, <4>1, <4>2
      <3>2. \A k \in Queued : settled'[queue'[k].of] <= queue'[k].at
        BY <1>2, <1>3 DEF FeedInv, Ordered
      <3>3. queue'[Len(queue) + 1].of = s /\ queue'[Len(queue) + 1].at = now
        BY <1>3
      <3> QED
        BY <1>2, <1>4, <3>1, <3>2, <3>3
    <2>3. \A k \in 1..pos' : queue'[k].at <= row'[queue'[k].of]
      <3>1. \A k \in 1..pos : k \in Queued
        BY <1>1 DEF Queued
      <3> QED
        BY <1>2, <1>3, <3>1 DEF FeedInv, Ordered
    <2>4. SettledKept'
      BY <1>2 DEF FeedInv, Ordered, SettledKept
    <2> QED
      BY <2>1, <2>2, <2>3, <2>4 DEF Ordered
  <1>10. Following'
    BY <1>2 DEF FeedInv, Following
  <1> QED
    BY <1>5, <1>7, <1>9, <1>10 DEF Rest

\* A heartbeat is handled: the table takes its time, the throttle accepts it or not.
LEMMA HandleStep ==
    ASSUME FeedInv, RingTypeOK', Handle PROVE Rest'
  <1> DEFINE p == pos + 1
             s == queue[p].of
             at == queue[p].at
  <1>1. /\ queue \in Seq(Heartbeat) /\ Len(queue) \in Nat /\ pos \in 0..Len(queue) /\ now \in Nat \ {0}
        /\ p \in Queued /\ p \in 1..Len(queue) /\ pos' = p
    BY Facts DEF Handle, Queued
  <1>2. s \in Services /\ at \in Times /\ at \in Nat \ {0} /\ queue[p] \in Heartbeat
    BY <1>1, Facts DEF Heartbeat
  <1>3. /\ row' = [row EXCEPT ![s] = at]
        /\ handled' = [handled EXCEPT ![s] = IF @ < at THEN at ELSE @]
        /\ AcceptHeartbeat(s, at)
        /\ UNCHANGED <<now, queue, beat, settled, run, success, gauge, shown, beats, calls, faults>>
    BY <1>1 DEF Handle, UpsertHeartbeat, source, bounds
  <1> HIDE DEF p, s, at
  <1>4. row \in [Services -> Clock] /\ handled \in [Services -> Clock] /\ lastHB \in [Services -> Times \cup {0}]
    BY DEF FeedInv, TypeOK, RingTypeOK
  <1>5. \A r \in Services : /\ row'[r] = IF r = s THEN at ELSE row[r]
                            /\ handled'[r] = IF r = s /\ handled[s] < at THEN at ELSE handled[r]
    BY <1>2, <1>3, <1>4
  <1>6. accepted = NoHeartbeat /\ accepted' \in {NoHeartbeat, [of |-> s, at |-> at]}
    BY <1>3 DEF AcceptHeartbeat
  <1>7. TypeOK'
    <2>1. row' \in [Services -> Clock] /\ handled' \in [Services -> Clock]
      BY <1>2, <1>3, <1>4 DEF Clock
    <2>2. accepted' # NoHeartbeat => row'[accepted'.of] = accepted'.at
      BY <1>2, <1>5, <1>6
    <2>3. pos' \in 0..Len(queue')
      BY <1>1, <1>3
    <2> QED
      BY <1>3, <2>1, <2>2, <2>3 DEF FeedInv, TypeOK, Clock
  <1>8. at <= beat[s]
    BY <1>1 DEF FeedInv, Dated, s, at
  <1>9. Dated'
    BY <1>3, <1>5, <1>8 DEF FeedInv, Dated, Queued
  <1>10. Ordered'
    <2>1. \A k \in Queued : queue[k].at \in Nat /\ queue[k].of \in Services
      BY Facts
    <2>2. \A k \in 1..p : queue[k].at <= row'[queue[k].of]
      <3> SUFFICES ASSUME NEW k \in 1..p PROVE queue[k].at <= row'[queue[k].of]
        OBVIOUS
      <3>1. k \in Queued /\ k \in Nat /\ p \in Nat
        BY <1>1 DEF Queued
      <3>2. CASE k = p
        BY <1>2, <1>5, <3>2 DEF s, at
      <3>3. CASE k # p /\ queue[k].of = s
        BY <1>1, <1>2, <1>5, <3>1, <3>3 DEF FeedInv, Ordered, at
      <3>4. CASE k # p /\ queue[k].of # s
        <4>1. k \in 1..pos
          BY <1>1, <3>1, <3>4 DEF p
        <4> QED
          BY <1>5, <2>1, <3>1, <3>4, <4>1 DEF FeedInv, Ordered
      <3> QED
        BY <3>2, <3>3, <3>4
    <2>3. SettledKept'
      <3>1. settled[s] <= at
        BY <1>1 DEF FeedInv, Ordered, s, at
      <3> QED
        BY <1>2, <1>3, <1>5, <3>1, Facts DEF FeedInv, Ordered, SettledKept
    <2> QED
      BY <1>1, <1>3, <2>2, <2>3 DEF FeedInv, Ordered, Queued
  <1>11. Following'
    <2>1. /\ lastHB[s] \in Nat /\ handled[s] \in Nat /\ Gap \in Nat \ {0} /\ at \in Nat \ {0}
          /\ (lastHB[s] = 0 => handled[s] = 0) /\ handled[s] - lastHB[s] < Gap /\ shown[s] = lastHB[s]
      BY <1>2, <1>6, Facts DEF FeedInv, Following
    <2>2. \A r \in Services : r # s => lastHB'[r] = lastHB[r]
      BY <1>3, <1>4 DEF AcceptHeartbeat
    <2>3. \A r \in Services : r # s =>
             /\ lastHB'[r] = 0 => handled'[r] = 0
             /\ handled'[r] - lastHB'[r] < Gap
             /\ shown'[r] = lastHB'[r]
      BY <1>3, <1>5, <1>6, <2>2 DEF FeedInv, Following
    <2>4. CASE lastHB[s] = 0 \/ at - lastHB[s] >= Gap
      <3>1. lastHB'[s] = at /\ accepted' # NoHeartbeat /\ accepted'.of = s
        <4>1. lastHB' = [lastHB EXCEPT ![s] = at] /\ accepted' = [of |-> s, at |-> at]
          BY <1>3, <2>4 DEF AcceptHeartbeat
        <4>2. s # Request
          BY <1>2, RingAssumption
        <4> QED
          BY <1>2, <1>4, <4>1, <4>2 DEF NoHeartbeat
      <3>2. handled'[s] - at < Gap
        <4>1. handled[s] < at \/ handled[s] - at < Gap
          BY <2>1, <2>4
        <4> QED
          BY <1>2, <1>5, <2>1, <4>1
      <3> QED
        BY <1>2, <2>1, <2>3, <3>1, <3>2 DEF Following
    <2>5. CASE ~(lastHB[s] = 0 \/ at - lastHB[s] >= Gap)
      <3>1. lastHB' = lastHB
        BY <1>3, <2>5 DEF AcceptHeartbeat
      <3>2. handled'[s] - lastHB[s] < Gap
        BY <1>2, <1>5, <2>1, <2>5
      <3> QED
        BY <1>2, <1>3, <2>1, <2>3, <2>5, <3>1, <3>2 DEF Following
    <2> QED
      BY <2>4, <2>5
  <1> QED
    BY <1>7, <1>9, <1>10, <1>11 DEF Rest

\* ... and shown.
LEMMA ShowStep ==
    ASSUME FeedInv, RingTypeOK', Show PROVE Rest'
  <1>1. /\ accepted # NoHeartbeat /\ accepted' = NoHeartbeat
        /\ shown' = [shown EXCEPT ![accepted.of] = accepted.at]
        /\ UNCHANGED <<now, queue, pos, row, beat, settled, handled, run, success, gauge, lastHB,
                       beats, calls, faults>>
    BY DEF Show, RecordAccepted, heartbeats, source, bounds
  <1>2. accepted.of \in Services /\ accepted.at \in Times /\ accepted.at = lastHB[accepted.of]
    BY <1>1, Facts DEF RingTypeOK, Heartbeat, Inv, Spaced
  <1>3. shown \in [Services -> Clock]
    BY DEF FeedInv, TypeOK
  <1>4. TypeOK'
    BY <1>1, <1>2, <1>3 DEF FeedInv, TypeOK, Clock
  <1>5. Dated' /\ Ordered'
    BY <1>1 DEF FeedInv, Dated, Ordered, SettledKept, Queued
  <1>6. Following'
    BY <1>1, <1>2, <1>3 DEF FeedInv, Following
  <1> QED
    BY <1>4, <1>5, <1>6 DEF Rest

\* A heartbeat is taken off the queue: dropped after a failure, or settled.
LEMMA DropStep ==
    ASSUME FeedInv, RingTypeOK', Drop PROVE Rest'
  <1>1. /\ queue \in Seq(Heartbeat) /\ Len(queue) \in Nat /\ pos \in 0..Len(queue) /\ pos < Len(queue)
        /\ pos + 1 \in Queued
    BY Facts DEF Drop, Queued
  <1>2. /\ queue' = Without(pos + 1)
        /\ UNCHANGED <<now, pos, row, beat, settled, handled, run, success, gauge, shown, lastHB, accepted,
                       beats, calls>>
        /\ faults' \in 0..MaxFaults
    BY FeedAssumption DEF Drop, Fault, source, ring, FeedInv, TypeOK
  <1> DEFINE n == Len(queue) - 1
             was(k) == IF k < pos + 1 THEN k ELSE k + 1
  <1>3. /\ queue' \in Seq(Heartbeat) /\ Len(queue') = n
        /\ \A k \in 1..n : queue'[k] = queue[was(k)]
    BY <1>1, <1>2, QueueWithout
  <1>4. /\ \A k \in 1..n : was(k) \in Queued
        /\ \A i, j \in 1..n : i < j => was(i) < was(j)
        /\ \A k \in 1..pos : k \in 1..n /\ was(k) = k
    BY <1>1 DEF Queued
  <1> HIDE DEF was
  <1>5. Queued' = 1..n
    BY <1>3 DEF Queued
  <1>6. TypeOK'
    <2>1. pos' \in 0..Len(queue')
      BY <1>1, <1>2, <1>3
    <2> QED
      BY <1>2, <1>3, <2>1 DEF FeedInv, TypeOK, Clock
  <1> HIDE DEF n
  <1>7. Dated'
    BY <1>2, <1>3, <1>4, <1>5 DEF FeedInv, Dated
  <1>8. Ordered'
    BY <1>2, <1>3, <1>4, <1>5 DEF FeedInv, Ordered, SettledKept
  <1>9. Following'
    BY <1>2 DEF FeedInv, Following
  <1> QED
    BY <1>6, <1>7, <1>8, <1>9 DEF Rest

LEMMA SettleStep ==
    ASSUME FeedInv, RingTypeOK', Settle PROVE Rest'
  <1> DEFINE n == Len(queue) - 1
             s == queue[1].of
             at == queue[1].at
  <1>1. /\ queue \in Seq(Heartbeat) /\ Len(queue) \in Nat /\ pos \in 0..Len(queue) /\ pos > 0
        /\ queue # <<>> /\ 1 \in Queued /\ 1 \in 1..pos
    BY Facts DEF Settle, Queued
  <1>2. s \in Services /\ at \in Times /\ at \in Nat \ {0}
    BY <1>1, Facts DEF Heartbeat
  <1>3. /\ queue' = Tail(queue) /\ pos' = pos - 1 /\ settled' = [settled EXCEPT ![s] = at]
        /\ UNCHANGED <<now, row, beat, handled, run, success, gauge, shown, lastHB, accepted,
                       beats, calls, faults>>
    BY <1>1, QueueTail DEF Settle, SettleHead, source, ring, bounds
  <1>4. /\ queue' \in Seq(Heartbeat) /\ Len(queue') = n
        /\ \A k \in 1..n : queue'[k] = queue[k + 1]
    BY <1>1, <1>3, QueueTail
  <1>5. /\ Queued' = 1..n
        /\ \A k \in 1..n : k + 1 \in Queued /\ 1 < k + 1
        /\ \A i, j \in 1..n : i < j => i + 1 < j + 1
        /\ \A k \in 1..pos' : k \in 1..n /\ k + 1 \in 1..pos
    BY <1>1, <1>3, <1>4 DEF Queued
  <1>6. TypeOK'
    <2>1. pos' \in 0..Len(queue')
      BY <1>1, <1>3, <1>4
    <2>2. settled' \in [Services -> Clock]
      BY <1>2, <1>3 DEF FeedInv, TypeOK, Clock
    <2> QED
      BY <1>3, <1>4, <2>1, <2>2 DEF FeedInv, TypeOK, Clock
  <1> HIDE DEF n
  <1>7. Dated'
    BY <1>3, <1>4, <1>5 DEF FeedInv, Dated
  <1>8. \A r \in Services : settled'[r] = IF r = s THEN at ELSE settled[r]
    BY <1>2, <1>3 DEF FeedInv, TypeOK
  <1>9. Ordered'
    <2>1. \A i, j \in Queued' : i < j => queue'[i].at <= queue'[j].at
      BY <1>4, <1>5 DEF FeedInv, Ordered
    <2>2. ASSUME NEW k \in 1..n PROVE settled'[queue'[k].of] <= queue'[k].at
      <3>1. k + 1 \in Queued /\ 1 < k + 1 /\ queue'[k] = queue[k + 1] /\ queue[k + 1].of \in Services
        BY <1>4, <1>5, Facts
      <3>2. at <= queue[k + 1].at /\ settled[queue[k + 1].of] <= queue[k + 1].at
        BY <1>1, <3>1 DEF FeedInv, Ordered
      <3> QED
        BY <1>8, <3>1, <3>2
    <2>3. \A k \in 1..pos' : queue'[k].at <= row'[queue'[k].of]
      BY <1>3, <1>4, <1>5 DEF FeedInv, Ordered
    <2>4. SettledKept'
      <3>1. at <= row[s]
        BY <1>1 DEF FeedInv, Ordered
      <3>2. \A r \in Services : row[r] >= settled[r]
        BY DEF FeedInv, Ordered, SettledKept
      <3>3. \A r \in Services : row[r] >= settled'[r]
        BY <1>2, <1>8, <3>1, <3>2, Facts
      <3> QED
        BY <1>3, <3>3 DEF SettledKept
    <2> QED
      BY <1>5, <2>1, <2>2, <2>3, <2>4 DEF Ordered
  <1>10. Following'
    BY <1>3 DEF FeedInv, Following
  <1> QED
    BY <1>6, <1>7, <1>9, <1>10 DEF Rest

\* The consumer's channel is lost, or the controller starts anew.
LEMMA LoseChannelStep ==
    ASSUME FeedInv, RingTypeOK', LoseChannel PROVE Rest'
  <1>1. /\ pos' = 0 /\ faults' \in 0..MaxFaults
        /\ UNCHANGED <<now, queue, row, beat, settled, handled, run, success, gauge, shown, lastHB, accepted,
                       beats, calls>>
    BY FeedAssumption DEF LoseChannel, Fault, source, ring, FeedInv, TypeOK
  <1>2. Len(queue) \in Nat /\ 1..pos' = {}
    BY <1>1, Facts
  <1>3. TypeOK'
    BY <1>1, <1>2 DEF FeedInv, TypeOK, Clock
  <1>4. Dated' /\ Following'
    BY <1>1 DEF FeedInv, Dated, Following, Queued
  <1>5. Ordered'
    BY <1>1, <1>2 DEF FeedInv, Ordered, SettledKept, Queued
  <1> QED
    BY <1>3, <1>4, <1>5 DEF Rest

LEMMA RestartStep ==
    ASSUME FeedInv, RingTypeOK', Restart PROVE Rest'
  <1>1. /\ pos' = 0 /\ faults' \in 0..MaxFaults
        /\ handled' = [s \in Services |-> 0] /\ shown' = [s \in Services |-> 0]
        /\ lastHB' = [s \in Services |-> 0] /\ accepted' = NoHeartbeat /\ gauge' = "unset"
        /\ UNCHANGED <<now, queue, row, beat, settled, run, success, beats, calls>>
    BY FeedAssumption DEF Restart, RingRestart, Fault, source, FeedInv, TypeOK
  <1>2. Len(queue) \in Nat /\ 1..pos' = {}
    BY <1>1, Facts
  <1>3. TypeOK'
    BY <1>1, <1>2 DEF FeedInv, TypeOK, Clock
  <1>4. Dated'
    BY <1>1 DEF FeedInv, Dated, Queued
  <1>5. Ordered'
    BY <1>1, <1>2 DEF FeedInv, Ordered, SettledKept, Queued
  <1>6. Following'
    BY <1>1, RingAssumption DEF Following
  <1> QED
    BY <1>3, <1>4, <1>5, <1>6 DEF Rest

-----------------------------------------------------------------------------

\* The initial state: nothing has beaten.
LEMMA FeedInit == ASSUME Init PROVE FeedInv
  <1>1. Inv
    BY EmptyInv DEF Init, RingInit
  <1>2. TypeOK
    <2>1. RingTypeOK
      BY <1>1 DEF Inv
    <2>2. queue \in Seq(Heartbeat) /\ pos \in 0..Len(queue)
      BY DEF Init
    <2>3. /\ now \in Times /\ run \in Clock /\ success \in Clock /\ gauge \in {"unset", "stale", "healthy"}
          /\ row \in [Services -> Clock] /\ beat \in [Services -> Clock] /\ settled \in [Services -> Clock]
          /\ handled \in [Services -> Clock] /\ shown \in [Services -> Clock]
      BY DEF Init, Clock
    <2>4. beats \in 0..MaxBeats /\ calls \in 0..MaxCalls /\ faults \in 0..MaxFaults
      BY FeedAssumption DEF Init
    <2> QED
      BY <2>1, <2>2, <2>3, <2>4 DEF Init, RingInit, TypeOK
  <1>3. Queued = {} /\ 1..pos = {}
    BY DEF Init, Queued
  <1>4. now \in Nat /\ Gap \in Nat \ {0}
    BY RingAssumption DEF Init
  <1>5. Dated /\ Ordered /\ Following
    BY <1>3, <1>4 DEF Init, RingInit, Dated, Ordered, SettledKept, Following
  <1> QED
    BY <1>1, <1>2, <1>5 DEF FeedInv

LEMMA FeedStep == ASSUME FeedInv, [Next]_vars PROVE FeedInv'
  <1>1. [RingNext]_ring
    BY Facts, StepUsesRing DEF FeedInv, TypeOK
  <1>2. Inv' /\ RingTypeOK'
    BY <1>1, InvStep DEF FeedInv, Inv
  <1>3. Rest'
    BY <1>2, OtherSteps, BeatStep, HandleStep, ShowStep, DropStep, SettleStep, LoseChannelStep,
       RestartStep DEF Next, Consume
  <1> QED
    BY <1>2, <1>3 DEF Rest, FeedInv

THEOREM FeedInvariant == Spec => []FeedInv
  BY FeedInit, FeedStep, PTL DEF Spec

-----------------------------------------------------------------------------
(***************************************************************************)
(* What is shown of the services.                                          *)
(***************************************************************************)

\* The controller's types, and that a heartbeat being handled is in the table.
THEOREM FeedTypeCorrect == Spec => []TypeOK
  BY FeedInvariant, PTL DEF FeedInv

\* The handlers use the ring by its operations only, interleaved as they may be.
THEOREM ControllerUsesRing == Spec => UsesRing
  <1>1. FeedInv /\ [Next]_vars => [RingNext]_ring
    BY Facts, StepUsesRing DEF FeedInv, TypeOK
  <1>2. Init => RingInit
    BY DEF Init
  <1> QED
    BY <1>1, <1>2, FeedInvariant, PTL DEF Spec, UsesRing, RingSpec

\* What is proved of the ring holds of it in the controller.
THEOREM ControllerFeedIsHistory == Spec => []NewestFirst /\ []Throttled /\ ImplementsHistory
  BY ControllerUsesRing, ReadersGetNewest, FeedIsThrottled, RingImplementsHistory, PTL DEF UsesRing

\* Redelivery never takes a service's row back behind an acknowledged heartbeat.
THEOREM AcknowledgedStays == Spec => []SettledKept
  BY FeedInvariant, PTL DEF FeedInv, Ordered

\* With the types and the order of the ring: what clients read.
THEOREM FeedIsSafe == Spec => []Safety
  <1>1. TypeOK /\ SettledKept /\ NewestFirst => Safety
    BY DEF Safety
  <1> QED BY <1>1, FeedTypeCorrect, AcknowledgedStays, ControllerFeedIsHistory, PTL

\* A service listed as healthy has beaten within the window, for every window and lag.
THEOREM HealthyIsAlive == Spec => []HealthyHasBeaten
  <1>1. FeedInv => HealthyHasBeaten
    <2> SUFFICES ASSUME FeedInv, NEW s \in Services, Status(s) = "healthy"
                 PROVE  now - beat[s] <= Fresh
      BY DEF HealthyHasBeaten, ListServices
    <2>1. now - row[s] <= Fresh
      BY DEF Status
    <2>2. row[s] <= beat[s]
      BY DEF FeedInv, Dated
    <2>3. now \in Nat /\ row[s] \in Nat /\ beat[s] \in Nat /\ Fresh \in Nat
      BY Facts, FeedAssumption
    <2> QED
      BY <2>1, <2>2, <2>3
  <1> QED
    BY <1>1, FeedInvariant, PTL

\* Between heartbeats the feed is less than Gap behind the table, for every Gap.
THEOREM FeedIsCurrent == Spec => []FeedFollows
  <1>1. FeedInv => FeedFollows
    BY DEF FeedInv, Following, FeedFollows
  <1> QED
    BY <1>1, FeedInvariant, PTL

-----------------------------------------------------------------------------
(***************************************************************************)
(* The health of a source.                                                 *)
(***************************************************************************)

\* The times of the last run and the last success are numbers.
LEMMA SourceTimes ==
    ASSUME FeedInv
    PROVE  /\ run \in Nat /\ success \in Nat /\ now \in Nat
           /\ Period \in Nat \ {0} /\ Second \in Nat \ {0} /\ Period % Second = 0
  BY Facts, FeedAssumption, RingAssumption DEF FeedInv, TypeOK, Clock, Period

\* Cutting off the fraction of a second takes less than a second, and never gets below a whole
\* number of seconds.
LEMMA WholeSeconds ==
    ASSUME NEW c \in Nat \ {0}, NEW x \in Nat, NEW y \in Nat, y % c = 0
    PROVE  /\ x - (x % c) \in Nat /\ x - (x % c) <= x /\ x - (x % c) > x - c
           /\ x < y + c => x - (x % c) <= y
  <1>1. x % c \in 0..(c - 1) /\ x \div c \in Int /\ y \div c \in Int
    OBVIOUS
  <1>2. x = c * (x \div c) + (x % c) /\ y = c * (y \div c)
    OBVIOUS
  <1> DEFINE q == x \div c
             k == y \div c
  <1>3. q \in Int /\ k \in Int /\ c * q = x - (x % c) /\ c * k = y
    BY <1>1, <1>2
  <1> HIDE DEF q, k
  <1>4. c * q >= 0
    <2>1. CASE q >= 0
      BY <1>3, <2>1
    <2>2. CASE q <= -1
      <3>1. c * q <= -c
        BY <1>3, <2>2
      <3> QED BY <1>1, <1>3, <3>1
    <2> QED BY <1>3, <2>1, <2>2
  <1>5. x < y + c => c * q <= c * k
    <2>1. CASE q <= k
      BY <1>3, <2>1
    <2>2. CASE q >= k + 1
      <3>1. c * q >= c * k + c
        BY <1>3, <2>2
      <3> QED BY <1>1, <1>3, <3>1
    <2> QED BY <1>3, <2>1, <2>2
  <1> QED
    BY <1>1, <1>3, <1>4, <1>5

\* The age of the badge: none for a success in the future, else the gauge's in whole seconds.
LEMMA BadgeAge ==
    ASSUME FeedInv, success # 0
    PROVE  /\ now <= success => Badge = SourceIsStale(0)
           /\ now > success => Badge = SourceIsStale(Whole(SuccessAge)) /\ SuccessAge = now - success
  BY SourceTimes DEF Badge, SuccessAge

\* For every interval, also one that changes, the badge of a source is the one that its last run
\* and its last success justify, also when the collector's clock is ahead.
THEOREM BadgeIsSound == Spec => []BadgeJustified
  <1>1. FeedInv => BadgeJustified
    <2> SUFFICES ASSUME FeedInv, success # 0 PROVE BadgeJustified
      BY DEF BadgeJustified
    <2> DEFINE x == now - success
               w == Whole(x)
    <2>1. /\ run \in Nat /\ success \in Nat /\ now \in Nat
          /\ Period \in Nat \ {0} /\ Second \in Nat \ {0} /\ Period % Second = 0
      BY SourceTimes
    <2>2. CASE now <= success
      <3>1. Badge = SourceIsStale(0) /\ x <= 0
        BY <2>1, <2>2, BadgeAge
      <3>2. ~Badge
        BY <2>1, <3>1 DEF SourceIsStale
      <3> QED BY <2>1, <3>1, <3>2 DEF BadgeJustified
    <2>3. CASE now > success
      <3>1. Badge = SourceIsStale(w) /\ x \in Nat
        BY <2>1, <2>3, BadgeAge
      <3>2. w \in Nat /\ w > x - Second /\ (x < Period + Second => w <= Period)
        BY <2>1, <3>1, WholeSeconds DEF Whole
      <3> HIDE DEF w
      <3>3. x < Period + Second => ~Badge
        BY <2>1, <3>1, <3>2 DEF SourceIsStale
      <3>4. x >= 2 * Period + Second => Badge
        BY <2>1, <3>1, <3>2 DEF SourceIsStale
      <3>5. run > success /\ now - run <= 2 * Period /\ x >= Period + Second => Badge
        BY <2>1, <3>1, <3>2 DEF SourceIsStale
      <3> QED BY <3>3, <3>4, <3>5 DEF BadgeJustified
    <2> QED BY <2>1, <2>2, <2>3
  <1> QED
    BY <1>1, FeedInvariant, PTL

\* The gauge, whose age is computed apart from the badge's, shows a source stale whenever the
\* badge does, and otherwise only about a success that the collector's clock puts into the
\* future, and for less than a second after a threshold.
THEOREM GaugeIsBadge == Spec => []BadgeIsGauge
  <1>1. FeedInv => BadgeIsGauge
    <2> SUFFICES ASSUME FeedInv PROVE BadgeIsGauge
      OBVIOUS
    <2> DEFINE x == now - success
               w == Whole(x)
    <2>1. /\ run \in Nat /\ success \in Nat /\ now \in Nat
          /\ Period \in Nat \ {0} /\ Second \in Nat \ {0} /\ Period % Second = 0
      BY SourceTimes
    <2>2. CASE success = 0
      BY <2>2 DEF BadgeIsGauge, Badge, SourceIsStale
    <2>3. CASE success # 0 /\ success >= now
      <3>1. Badge = SourceIsStale(0)
        BY <2>1, <2>3, BadgeAge
      <3>2. ~Badge
        BY <2>1, <2>3, <3>1 DEF SourceIsStale
      <3>3. success = now => ~SourceIsStale(SuccessAge)
        BY <2>1, <2>3 DEF SourceIsStale, SuccessAge
      <3> QED BY <2>1, <2>3, <3>2, <3>3 DEF BadgeIsGauge
    <2>4. CASE success # 0 /\ success < now
      <3>1. Badge = SourceIsStale(w) /\ SuccessAge = x /\ x \in Nat
        BY <2>1, <2>4, BadgeAge
      <3>2. w \in Nat /\ w <= x /\ w > x - Second
        BY <2>1, <3>1, WholeSeconds DEF Whole
      <3> HIDE DEF w
      <3>3. ASSUME Badge PROVE SourceIsStale(SuccessAge)
        <4>1. SourceIsStale(w)
          BY <3>1, <3>3, Zenon
        <4>2. w > 2 * Period \/ (run > 0 /\ now - run <= 2 * Period /\ w > Period)
          BY <2>1, <2>4, <3>2, <4>1 DEF SourceIsStale
        <4>3. x > 2 * Period \/ (run > 0 /\ now - run <= 2 * Period /\ x > Period)
          BY <2>1, <3>1, <3>2, <4>2
        <4> QED BY <3>1, <4>3 DEF SourceIsStale
      <3>4. ASSUME SourceIsStale(SuccessAge), ~Badge
            PROVE  \E n \in {1, 2} : x > n * Period /\ x < n * Period + Second
        <4>1. CASE x > 2 * Period
          <5>1. w <= 2 * Period
            BY <2>1, <2>4, <3>1, <3>2, <3>4 DEF SourceIsStale
          <5>2. x > 2 * Period /\ x < 2 * Period + Second
            BY <2>1, <3>1, <3>2, <4>1, <5>1
          <5> QED BY <5>2
        <4>2. CASE ~(x > 2 * Period)
          <5>1. run > 0 /\ now - run <= 2 * Period /\ x > Period
            BY <2>1, <2>4, <3>1, <3>4, <4>2 DEF SourceIsStale
          <5>2. w <= Period
            BY <2>1, <2>4, <3>1, <3>2, <3>4, <5>1 DEF SourceIsStale
          <5>3. x > 1 * Period /\ x < 1 * Period + Second
            BY <2>1, <3>1, <3>2, <5>1, <5>2
          <5> QED BY <5>3
        <4> QED BY <4>1, <4>2
      <3> QED BY <3>3, <3>4 DEF BadgeIsGauge
    <2> QED BY <2>1, <2>2, <2>3, <2>4
  <1> QED
    BY <1>1, FeedInvariant, PTL
=============================================================================
