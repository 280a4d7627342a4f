----------------------------- MODULE ActivityRing -----------------------------
(***************************************************************************)
(* The controller's activity feed (controller/internal/activity/ring.go):  *)
(* a circular buffer of events under a mutex, written by the heartbeat     *)
(* consumer and by RPC handlers, read by ListActivity.  RecordHeartbeat    *)
(* takes the mutex twice, to consult the throttle and to append; what the  *)
(* others record may come in between.                                      *)
(*                                                                         *)
(* An event is its id, what it is of (a service's heartbeat, a collection  *)
(* request or run) and its time; texts are left out.                       *)
(***************************************************************************)
EXTENDS Integers, Sequences

CONSTANTS
    Services,      \* names in heartbeats
    Times,         \* unix_ms, in the unit of the throttle
    Cap,           \* the ring's capacity
    Gap,           \* hbMinGap
    DefaultLimit,  \* DefaultListLimit
    MaxLimit       \* MaxListLimit

Request == "collection_enqueued"
RunDone == "collection_run"

ASSUME RingAssumption ==
    /\ Times \subseteq Nat \ {0}
    /\ Cap \in Nat \ {0} /\ Gap \in Nat \ {0}
    /\ DefaultLimit \in Nat \ {0} /\ MaxLimit \in Nat \ {0}
    /\ {Request, RunDone} \cap Services = {}

Slots == 0..(Cap - 1)
Subjects == Services \cup {Request, RunDone}
Event == [id : Nat, of : Subjects, at : Times]
NoEvent == [id |-> 0, of |-> Request, at |-> 0]
Heartbeat == [of : Services, at : Times]
NoHeartbeat == [of |-> Request, at |-> 0]

VARIABLES
    buf,      \* the slots
    next,     \* slot of the next event
    full,     \* the buffer has wrapped
    seq,      \* id of the newest event
    lastHB,   \* lastHB[s]: time of the heartbeat of s accepted last, or 0
    accepted  \* the heartbeat between RecordHeartbeat's two uses of the lock

ring == <<buf, next, full, seq, lastHB, accepted>>

RingTypeOK ==
    /\ buf \in [Slots -> Event \cup {NoEvent}]
    /\ next \in Slots
    /\ full \in BOOLEAN
    /\ seq \in Nat
    /\ lastHB \in [Services -> Times \cup {0}]
    /\ accepted \in Heartbeat \cup {NoHeartbeat}

\* NewRing.
RingInit ==
    /\ buf = [i \in Slots |-> NoEvent]
    /\ next = 0 /\ full = FALSE /\ seq = 0
    /\ lastHB = [s \in Services |-> 0]
    /\ accepted = NoHeartbeat

-----------------------------------------------------------------------------

\* Notes the wrap one event early.
AppendLockedEarly(e) ==
    /\ buf' = [buf EXCEPT ![next] = e]
    /\ next' = (next + 1) % Cap
    /\ full' = (full \/ next' = Cap - 1)

AppendLocked(e) ==
    /\ buf' = [buf EXCEPT ![next] = e]
    /\ next' = (next + 1) % Cap
    /\ full' = (full \/ next' = 0)

\* Record gives the event its id.
Record(of, at) ==
    /\ seq' = seq + 1
    /\ AppendLocked([id |-> seq + 1, of |-> of, at |-> at])

\* RecordCollectionEnqueued, RecordCollectionRun.
RecordCollection(of, at) ==
    /\ of \in {Request, RunDone}
    /\ Record(of, at)
    /\ UNCHANGED <<lastHB, accepted>>

\* Counts the gap from the heartbeat before, recorded or not.
AcceptHeartbeatAndMark(s, at) ==
    /\ accepted = NoHeartbeat
    /\ lastHB' = [lastHB EXCEPT ![s] = at]
    /\ accepted' = IF lastHB[s] = 0 \/ at - lastHB[s] >= Gap THEN [of |-> s, at |-> at]
                   ELSE NoHeartbeat
    /\ UNCHANGED <<buf, next, full, seq>>

\* Lets every heartbeat pass that is not of the time of the one before.
AcceptOtherHeartbeat(s, at) ==
    /\ accepted = NoHeartbeat
    /\ IF lastHB[s] # at
       THEN lastHB' = [lastHB EXCEPT ![s] = at] /\ accepted' = [of |-> s, at |-> at]
       ELSE UNCHANGED <<lastHB, accepted>>
    /\ UNCHANGED <<buf, next, full, seq>>

\* acceptHeartbeat: at most one per Gap and service, by the times in the heartbeats.
AcceptHeartbeat(s, at) ==
    /\ accepted = NoHeartbeat
    /\ IF lastHB[s] = 0 \/ at - lastHB[s] >= Gap
       THEN lastHB' = [lastHB EXCEPT ![s] = at] /\ accepted' = [of |-> s, at |-> at]
       ELSE UNCHANGED <<lastHB, accepted>>
    /\ UNCHANGED <<buf, next, full, seq>>

RecordAccepted ==
    /\ accepted # NoHeartbeat
    /\ Record(accepted.of, accepted.at)
    /\ accepted' = NoHeartbeat
    /\ UNCHANGED lastHB

\* The ring lives in memory.
RingRestart ==
    /\ buf' = [i \in Slots |-> NoEvent]
    /\ next' = 0 /\ full' = FALSE /\ seq' = 0
    /\ lastHB' = [s \in Services |-> 0]
    /\ accepted' = NoHeartbeat

RingNext ==
    \/ \E of \in {Request, RunDone}, at \in Times : RecordCollection(of, at)
    \/ \E s \in Services, at \in Times : AcceptHeartbeat(s, at)
    \/ RecordAccepted
    \/ RingRestart

RingSpec == RingInit /\ [][RingNext]_ring

-----------------------------------------------------------------------------
(***************************************************************************)
(* List.                                                                   *)
(***************************************************************************)

ClampListLimit(limit) ==
    IF limit <= 0 THEN DefaultLimit ELSE IF limit > MaxLimit THEN MaxLimit ELSE limit

FilledCount == IF full THEN Cap ELSE next

\* Slot of the event that is the i-th before the newest.
Index(i) == (next - 1 - i + Cap) % Cap

NewestSlice(limit) ==
    [k \in 1..(IF limit > FilledCount THEN FilledCount ELSE limit) |-> buf[Index(k - 1)]]

List(limit) == NewestSlice(ClampListLimit(limit))

-----------------------------------------------------------------------------
(***************************************************************************)
(* Properties.                                                             *)
(***************************************************************************)

\* Whatever the limit, a reader gets the newest events, newest first and none missing: their
\* ids count down from the newest.  (The index arithmetic of newestSlice and appendLocked when
\* the ring is empty, half full, exactly full and wrapped.)
NewestFirst ==
    \A limit \in 0..(Cap + 1) :
        LET events == List(limit)
        IN  /\ \A k \in DOMAIN events : events[k].id = seq - k + 1
            /\ Len(events) < ClampListLimit(limit) => Len(events) = FilledCount
            /\ FilledCount = IF seq < Cap THEN seq ELSE Cap

\* No two heartbeats of a service in the feed are less than Gap apart, and later ones are
\* newer, however redelivered heartbeats and other records fall between the two uses of the lock.
Throttled ==
    \A i, j \in 1..FilledCount :
        LET newer == buf[Index(i - 1)]
            older == buf[Index(j - 1)]
        IN  i < j /\ newer.of = older.of /\ newer.of \in Services => newer.at - older.at >= Gap

\* The ring is a bounded history.
History == INSTANCE BoundedHistory WITH
    Bound <- Cap, Items <- Event, recent <- NewestSlice(Cap)

ImplementsHistory == History!Spec
=============================================================================
