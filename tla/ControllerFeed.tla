---------------------------- MODULE ControllerFeed ----------------------------
(***************************************************************************)
(* What the controller knows of the services and of one collection source, *)
(* and shows: the heartbeat consumer with its table (main.go               *)
(* runControllerBackend, db/meta.go), the status it lists for a service,   *)
(* the activity ring, reports of runs, and the source's health as a badge  *)
(* (ListCollectionSources) and as a gauge (healthmetrics/refresher.go).    *)
(*                                                                         *)
(* All clocks agree, but for the collector's, which may be one unit ahead. *)
(***************************************************************************)
EXTENDS ActivityRing

CONSTANTS
    Fresh,       \* 30 s: how long a heartbeat makes a service healthy
    Second,      \* a second: the units of time in it, of which the badge counts whole ones
    Interval,    \* Interval[t]: time between the next two due times after t of the source's cron line
    MaxBeats,    \* bound: heartbeats
    MaxCalls,    \* bound: collection requests and reports
    MaxFaults    \* bound: lost channels, failing statements, restarts

ASSUME FeedAssumption ==
    /\ Fresh \in Nat /\ Second \in Nat \ {0}
    /\ Interval \in [Times -> Nat \ {0}]
    /\ \A t \in Times : Interval[t] % Second = 0
    /\ MaxBeats \in Nat /\ MaxCalls \in Nat /\ MaxFaults \in Nat

VARIABLES
    now,       \* the time
    queue,     \* controller-heartbeats: what the broker has not seen settled
    pos,       \* deliveries of it the handler has returned from, or is about to
    row,       \* icehive_heartbeats: row[s] is s's latest time, or 0
    run,       \* last_run_unix_ms, or 0
    success,   \* last_success_unix_ms, or 0
    gauge,     \* icehive_controller_collection_source_stale: "unset", "stale" or "healthy"
    beat,      \* history: beat[s] is the time of s's newest heartbeat
    settled,   \* history: settled[s] is that of the newest acknowledged one
    handled,   \* history: handled[s] is that of the newest handled since the start
    shown,     \* history: shown[s] is that of the newest recorded since the start
    beats, calls, faults   \* bounds' counters

heartbeats == <<queue, pos, row, beat, settled, handled>>
source == <<run, success>>
bounds == <<beats, calls, faults>>
vars == <<now, heartbeats, source, gauge, shown, ring, bounds>>

Clock == Times \cup {0}

\* Type invariant.  What a heartbeat in the middle of its handling was accepted for is in the table.
TypeOK ==
    /\ RingTypeOK
    /\ now \in Times
    /\ queue \in Seq(Heartbeat) /\ pos \in 0..Len(queue)
    /\ row \in [Services -> Clock] /\ beat \in [Services -> Clock]
    /\ settled \in [Services -> Clock] /\ handled \in [Services -> Clock]
    /\ shown \in [Services -> Clock]
    /\ run \in Clock /\ success \in Clock
    /\ gauge \in {"unset", "stale", "healthy"}
    /\ accepted # NoHeartbeat => row[accepted.of] = accepted.at
    /\ beats \in 0..MaxBeats /\ calls \in 0..MaxCalls /\ faults \in 0..MaxFaults

\* The queue is declared, a source has been entered, and nothing has come in yet.
Init ==
    /\ RingInit
    /\ now \in Times /\ \A t \in Times : now <= t
    /\ queue = <<>> /\ pos = 0
    /\ row = [s \in Services |-> 0] /\ beat = row /\ settled = row /\ handled = row
    /\ shown = row
    /\ run = 0 /\ success = 0
    /\ gauge = "unset"
    /\ beats = 0 /\ calls = 0 /\ faults = 0

Fault == faults < MaxFaults /\ faults' = faults + 1 /\ UNCHANGED <<beats, calls>>
Call == calls < MaxCalls /\ calls' = calls + 1 /\ UNCHANGED <<beats, faults>>

\* Time passes, by as much as may be.
Tick ==
    /\ now' \in {t \in Times : t > now}
    /\ UNCHANGED <<heartbeats, source, gauge, shown, ring, bounds>>

-----------------------------------------------------------------------------
(***************************************************************************)
(* Heartbeats.                                                             *)
(***************************************************************************)

\* PublishHeartbeat of a service, into the queue.
Beat(s) ==
    /\ beats < MaxBeats /\ beats' = beats + 1 /\ UNCHANGED <<calls, faults>>
    /\ queue' = Append(queue, [of |-> s, at |-> now])
    /\ beat' = [beat EXCEPT ![s] = now]
    /\ UNCHANGED <<now, pos, row, settled, handled, source, gauge, shown, ring>>

UpsertHeartbeat(s, at) ==
    /\ row' = [row EXCEPT ![s] = at]
    /\ handled' = [handled EXCEPT ![s] = IF @ < at THEN at ELSE @]

\* Stamps the heartbeat with the time of its arrival.
HandleNow ==
    /\ pos < Len(queue)
    /\ pos' = pos + 1
    /\ UpsertHeartbeat(queue[pos'].of, now)
    /\ AcceptHeartbeat(queue[pos'].of, now)
    /\ UNCHANGED <<now, queue, beat, settled, source, gauge, shown, bounds>>

\* The handler: the table first, then the feed's throttle.  It also acknowledges a heartbeat
\* that names no service, and stamps one without a time itself; PublishHeartbeat sends neither.
Handle ==
    /\ pos < Len(queue)
    /\ pos' = pos + 1
    /\ UpsertHeartbeat(queue[pos'].of, queue[pos'].at)
    /\ AcceptHeartbeat(queue[pos'].of, queue[pos'].at)
    /\ UNCHANGED <<now, queue, beat, settled, source, gauge, shown, bounds>>

\* ... and the feed.
Show ==
    /\ RecordAccepted
    /\ shown' = [shown EXCEPT ![accepted.of] = accepted.at]
    /\ UNCHANGED <<now, heartbeats, source, gauge, bounds>>

Without(k0) == [k \in 1..(Len(queue) - 1) |-> IF k < k0 THEN queue[k] ELSE queue[k + 1]]

\* The statement fails: the heartbeat is dropped by a Nack.
Drop ==
    /\ accepted = NoHeartbeat /\ pos < Len(queue)
    /\ Fault
    /\ queue' = Without(pos + 1)
    /\ UNCHANGED <<now, pos, row, beat, settled, handled, source, gauge, shown, ring>>

SettleHead ==
    /\ queue' = Tail(queue)
    /\ settled' = [settled EXCEPT ![Head(queue).of] = Head(queue).at]

\* The broker settles a delivery when it writes it.
SettleOnDelivery ==
    /\ queue # <<>>
    /\ pos' = IF pos = 0 THEN 0 ELSE pos - 1
    /\ SettleHead
    /\ UNCHANGED <<now, row, beat, handled, source, gauge, shown, ring, bounds>>

\* The broker sees the Ack of a delivery whose handler has returned.
Settle ==
    /\ pos > 0
    /\ pos = 1 => accepted = NoHeartbeat
    /\ pos' = pos - 1
    /\ SettleHead
    /\ UNCHANGED <<now, row, beat, handled, source, gauge, shown, ring, bounds>>

\* The consumer's channel is lost: what is not settled is delivered again.
LoseChannel ==
    /\ queue # <<>>
    /\ Fault
    /\ pos' = 0
    /\ UNCHANGED <<now, queue, row, beat, settled, handled, source, gauge, shown, ring>>

\* heartbeatStatus.
Status(s) ==
    IF row[s] = 0 THEN "unknown" ELSE IF now - row[s] <= Fresh THEN "healthy" ELSE "stale"

\* ListServices: the services that have a row, and their status.
ListServices == [s \in {t \in Services : row[t] # 0} |-> Status(s)]

-----------------------------------------------------------------------------
(***************************************************************************)
(* Requests, reports and the health of an enabled source with a cron line. *)
(***************************************************************************)

\* EnqueueCollectionRequest records after the publish.
Enqueue ==
    /\ Call
    /\ RecordCollection(Request, now)
    /\ UNCHANGED <<now, heartbeats, source, gauge, shown>>

\* ReportCollectionSourceRun: the row, then the feed.
Report(t, ok) ==
    /\ Call
    /\ t \in Times \cap (now..(now + 1))
    /\ run' = t
    /\ success' = IF ok THEN t ELSE success
    /\ RecordCollection(RunDone, now)
    /\ UNCHANGED <<now, heartbeats, gauge, shown>>

\* cronInterval.
Period == Interval[now]

\* Does not look whether the last run succeeded.
SourceIsStaleByRun(age) ==
    success = 0 \/ age < 0 \/ age > 2 * Period \/ (run > 0 /\ now - run > Period)

\* sourceIsStale.
SourceIsStale(age) ==
    \/ success = 0
    \/ age < 0
    \/ age > 2 * Period
    \/ run > 0 /\ now - run <= 2 * Period /\ age > Period

\* A duration in whole seconds, as the badge has it.
Whole(t) == t - (t % Second)

\* Takes the age of the last run.
BadgeByRun == SourceIsStale(IF run > 0 /\ now > run THEN Whole(now - run) ELSE 0)

\* ComputePipelineHealth, for the badge: the age is no less than 0, and in whole seconds.
Badge == SourceIsStale(IF success > 0 /\ now > success THEN Whole(now - success) ELSE 0)

\* successAgeSeconds, for the gauge: with its fraction.
SuccessAge == IF success = 0 THEN -1 ELSE now - success

\* Passes over a source that has never run.
RefreshRun ==
    /\ run # 0
    /\ gauge' = IF SourceIsStale(SuccessAge) THEN "stale" ELSE "healthy"
    /\ UNCHANGED <<now, heartbeats, source, shown, ring, bounds>>

\* refreshCollectionSources: the ticker's work.
Refresh ==
    /\ gauge' = IF SourceIsStale(SuccessAge) THEN "stale" ELSE "healthy"
    /\ UNCHANGED <<now, heartbeats, source, shown, ring, bounds>>

\* The controller starts anew.
Restart ==
    /\ Fault
    /\ RingRestart
    /\ pos' = 0
    /\ handled' = [s \in Services |-> 0] /\ shown' = handled'
    /\ gauge' = "unset"
    /\ UNCHANGED <<now, queue, row, beat, settled, source>>

-----------------------------------------------------------------------------

Consume == Handle \/ Show \/ Settle

Next ==
    \/ Tick \/ Consume \/ Refresh
    \/ Drop \/ LoseChannel \/ Restart
    \/ \E s \in Services : Beat(s)
    \/ Enqueue
    \/ \E t \in Times, ok \in BOOLEAN : Report(t, ok)

Spec == Init /\ [][Next]_vars

\* The consumer and the refresher's ticker go on; faults do not.
FairSpec == Spec /\ WF_vars(Consume) /\ WF_vars(Refresh)

-----------------------------------------------------------------------------
(***************************************************************************)
(* Properties.                                                             *)
(***************************************************************************)

\* A service that has been silent for longer is never listed as healthy, though its heartbeats
\* may be handled late or twice.
HealthyHasBeaten ==
    \A s \in DOMAIN ListServices : ListServices[s] = "healthy" => now - beat[s] <= Fresh

\* A heartbeat that is off the queue stays in the table: redelivery takes the time back at most
\* to that of the newest one acknowledged.
SettledKept == \A s \in Services : row[s] >= settled[s]

\* What clients read of services and events is current and in order.
Safety == TypeOK /\ SettledKept /\ NewestFirst

\* The feed follows the table: between heartbeats, what it shows of a service is less than Gap
\* older than the newest heartbeat handled since the start.
FeedFollows == accepted = NoHeartbeat => \A s \in Services : handled[s] - shown[s] < Gap

\* The composition uses the ring by its operations.
UsesRing == RingSpec

\* A scheduled source is healthy until the second in which its success is a Period old has gone
\* by, stale a second after twice that, and in between also when it has failed since and that
\* run is not yet as old.
BadgeJustified ==
    success # 0 =>
        /\ now - success < Period + Second => ~Badge
        /\ now - success >= 2 * Period + Second => Badge
        /\ run > success /\ now - run <= 2 * Period /\ now - success >= Period + Second => Badge

\* The badge and the gauge are computed by two pieces of code.  The badge is never the stricter
\* one, and it is milder only about a success in the future, by the collector's clock, and
\* within the second after either threshold.
BadgeIsGauge ==
    /\ Badge => SourceIsStale(SuccessAge)
    /\ SourceIsStale(SuccessAge) /\ ~Badge =>
          \/ success > now
          \/ \E n \in {1, 2} : now - success > n * Period /\ now - success < n * Period + Second

\* A scheduled source that does not succeed any more raises its alert, across restarts.
SilenceAlerts ==
    <>[](success = 0 \/ now - success > 2 * Period) =>
        <>[](gauge = "stale")
=============================================================================
