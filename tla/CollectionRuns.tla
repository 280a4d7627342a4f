---------------------------- MODULE CollectionRuns ----------------------------
(***************************************************************************)
(* Collection sources: their rows at the controller, edited by users and   *)
(* updated by reports of runs, and one collector process with its two      *)
(* goroutines: the poll loop, which runs the sources that are due, and the *)
(* consumer of collection requests ("Run now").  Both run a source from a  *)
(* copy of its row that may be old, and both may run one source at once.   *)
(*                                                                         *)
(* A cron line is given by its period: it is due at the multiples of it.   *)
(***************************************************************************)
EXTENDS Naturals, Sequences

CONSTANTS
    NumSources,     \* persisted sources; their ids are numbers in the order of the ids
    Lines,          \* periods of the cron lines that users choose
    NoRow,          \* the row is not in the table
    MaxTime, MaxEdits, MaxRequests, MaxFaults   \* bounds

Sources == 1..NumSources
Ephemeral == 0      \* the empty id of a one-off collection
Manual == 0         \* the empty cron line
Workers == {"poll", "request"}

ASSUME CollectionAssumption ==
    /\ NumSources \in Nat /\ Lines \subseteq Nat \ {Manual}
    /\ MaxTime \in Nat \ {0} /\ MaxEdits \in Nat /\ MaxRequests \in Nat /\ MaxFaults \in Nat

VARIABLES
    now,        \* the time
    row,        \* icehive_collection_sources; 0 stands for NULL in run and due
    requests,   \* collection requests queued or pushed to the collector
    bound,      \* the queue for collection requests exists
    pc,         \* where each goroutine is
    todo,       \* the sources of the poll's listing it still has to look at, in order of ids
    job,        \* job[w]: the source as the goroutine got it
    start,      \* start[w]: the time its run or poll took at its beginning
    report,     \* report[w]: the ReportCollectionSourceRun under way
    held,       \* the request in progress can be acknowledged: its channel is open
    cancelled,  \* the collector has got SIGTERM
    wanted,     \* history: the settings each source was given last
    edited,     \* history: sources deleted, or given another line, since they were created
    asked,      \* history: when a source was last asked to run, 0 once a later run reported
    made, edits, faults   \* bounds' counters: requests, edits, faults

bounds == <<made, edits, faults>>
table == <<row, wanted, edited>>
worker == <<todo, job, start, report, pc>>
queue == <<requests, held>>
vars == <<now, table, queue, bound, worker, cancelled, asked, bounds>>

Time == 0..MaxTime
Settings == [line : Lines \cup {Manual}, enabled : BOOLEAN]
\* nextDueForReport: the first moment of the schedule after t.
NextDue(line, t) == IF line = Manual THEN 0 ELSE line * ((t \div line) + 1)
Rows == [line : Lines \cup {Manual}, enabled : BOOLEAN, run : Time, due : Nat]
Jobs == [id : Sources \cup {Ephemeral}, line : Lines \cup {Manual}]
Copies == [job : Jobs, enabled : BOOLEAN, due : Nat]
Reports == [stamp : Time, due : Nat]
None == [stamp |-> 0, due |-> 0]
Once == [id |-> Ephemeral, line |-> Manual]
ASSUME NoRowAssumption == NoRow \notin Rows \cup Settings

\* collectionSourceToProto: what a run uses of it, and what the poll loop looks at.
Job(s) == [id |-> s, line |-> row[s].line]
Copy(s) == [job |-> Job(s), enabled |-> row[s].enabled, due |-> row[s].due]

\* Type invariant.  A request that can still be acknowledged is being handled.
TypeOK ==
    /\ now \in Time /\ bound \in BOOLEAN /\ held \in BOOLEAN /\ cancelled \in BOOLEAN
    /\ row \in [Sources -> Rows \cup {NoRow}]
    /\ requests \in Seq(Jobs) /\ todo \in SUBSET Copies
    /\ pc \in [Workers -> {"down", "idle", "listed", "next", "collect", "report"}]
    /\ job \in [Workers -> Jobs] /\ start \in [Workers -> Time]
    /\ report \in [Workers -> Reports]
    /\ held => pc["request"] \in {"collect", "report"}
    /\ wanted \in [Sources -> Settings \cup {NoRow}]
    /\ edited \in SUBSET Sources /\ asked \in [Sources -> Time]
    /\ made \in 0..MaxRequests /\ edits \in 0..MaxEdits /\ faults \in 0..MaxFaults

Init ==
    /\ now = 1 /\ bound = FALSE /\ held = FALSE /\ cancelled = FALSE
    /\ row = [s \in Sources |-> NoRow] /\ wanted = [s \in Sources |-> NoRow]
    /\ edited = {} /\ asked = [s \in Sources |-> 0]
    /\ requests = <<>> /\ todo = {}
    /\ pc = [w \in Workers |-> IF w = "poll" THEN "idle" ELSE "down"]
    /\ job = [w \in Workers |-> Once]
    /\ start = [w \in Workers |-> 0] /\ report = [w \in Workers |-> None]
    /\ made = 0 /\ edits = 0 /\ faults = 0

Goto(w, place) == pc' = [pc EXCEPT ![w] = place]
Fault == faults < MaxFaults /\ faults' = faults + 1 /\ UNCHANGED <<made, edits>>

Tick == now < MaxTime /\ now' = now + 1
        /\ UNCHANGED <<table, queue, bound, worker, cancelled, asked, bounds>>

-----------------------------------------------------------------------------
(***************************************************************************)
(* The controller's operations for users.                                  *)
(***************************************************************************)

Edit == edits < MaxEdits /\ edits' = edits + 1 /\ UNCHANGED <<made, faults>>

\* GetCollectionSourceByID finds the source.
Stored(s) == row[s] # NoRow

\* db.UpsertCollectionSource: a new row has no run and is due at once; an existing one keeps its
\* runs and its next due time.
Upserted(old, settings) ==
    IF old = NoRow
    THEN [line |-> settings.line, enabled |-> settings.enabled, run |-> 0, due |-> 0]
    ELSE [old EXCEPT !.line = settings.line, !.enabled = settings.enabled]

\* UpsertCollectionSource.
Save(s, settings) ==
    /\ Edit
    /\ row' = [row EXCEPT ![s] = Upserted(@, settings)]
    /\ wanted' = [wanted EXCEPT ![s] = settings]
    /\ edited' = IF Stored(s) /\ row[s].line # settings.line THEN edited \cup {s} ELSE edited
    /\ UNCHANGED <<now, queue, bound, worker, cancelled, asked>>

Delete(s) ==
    /\ Edit
    /\ Stored(s)
    /\ row' = [row EXCEPT ![s] = NoRow]
    /\ wanted' = [wanted EXCEPT ![s] = NoRow]
    /\ edited' = edited \cup {s}
    /\ asked' = [asked EXCEPT ![s] = 0]
    /\ UNCHANGED <<now, queue, bound, worker, cancelled>>

\* EnqueueCollectionRequest publishes a copy of the row, or of what the caller gave.  Without
\* the queue the message goes nowhere and the caller is told nothing.
Enqueue(req) ==
    /\ made < MaxRequests /\ made' = made + 1 /\ UNCHANGED <<edits, faults>>
    /\ IF bound
       THEN /\ requests' = Append(requests, req)
            /\ asked' = IF req.id = Ephemeral THEN asked ELSE [asked EXCEPT ![req.id] = now]
       ELSE UNCHANGED <<requests, asked>>
    /\ UNCHANGED <<now, table, held, bound, worker, cancelled>>

EnqueueRequest ==
    \/ \E s \in Sources : Stored(s) /\ Enqueue(Job(s))
    \/ Enqueue(Once)

-----------------------------------------------------------------------------
(***************************************************************************)
(* The poll loop.                                                          *)
(***************************************************************************)

Listed == {Copy(s) : s \in {x \in Sources : Stored(x)}}

\* ListCollectionSources.  A poll whose token or listing fails changes nothing.
PollList ==
    /\ pc["poll"] = "idle" /\ ~cancelled
    /\ todo' = Listed
    /\ Goto("poll", "listed")
    /\ UNCHANGED <<now, table, queue, bound, job, start, report, cancelled, asked, bounds>>

\* Never runs a source that has no next due time.
IsDueLater(copy, t) == copy.job.line # Manual /\ copy.due # 0 /\ copy.due <= t

\* collectionSourceDue.
IsDue(copy, t) == copy.job.line # Manual /\ (copy.due = 0 \/ copy.due <= t)

\* The poll takes the time after it has the listing, and uses it for every source in it.
PollStart ==
    /\ pc["poll"] = "listed"
    /\ start' = [start EXCEPT !["poll"] = now]
    /\ todo' = {copy \in todo : copy.enabled /\ IsDue(copy, now)}
    /\ Goto("poll", "next")
    /\ UNCHANGED <<now, table, queue, bound, job, report, cancelled, asked, bounds>>

\* The next source of the poll, or the end of the poll.
PollNext ==
    /\ pc["poll"] = "next"
    /\ \/ /\ todo = {}
          /\ Goto("poll", "idle")
          /\ start' = [start EXCEPT !["poll"] = 0]
          /\ UNCHANGED <<job, todo>>
       \/ \E copy \in todo :
            /\ \A other \in todo : copy.job.id <= other.job.id
            /\ Goto("poll", "collect")
            /\ job' = [job EXCEPT !["poll"] = copy.job]
            /\ todo' = todo \ {copy}
            /\ UNCHANGED start
    /\ UNCHANGED <<now, table, queue, bound, report, cancelled, asked, bounds>>

-----------------------------------------------------------------------------
(***************************************************************************)
(* The consumer of collection requests.                                    *)
(***************************************************************************)

\* EnsureQueue and ConsumeJSON, at start-up and every 5 s until they succeed.
Subscribe ==
    /\ pc["request"] = "down" /\ ~cancelled
    /\ bound' = TRUE
    /\ Goto("request", "idle")
    /\ UNCHANGED <<now, table, queue, todo, job, start, report, cancelled, asked, bounds>>

\* The handler takes the oldest request.  If it cannot get the token, as after SIGTERM, the
\* request is dropped; enabled and the schedule are not looked at.
ReceiveRequest ==
    /\ pc["request"] = "idle" /\ requests # <<>>
    /\ requests' = Tail(requests)
    /\ \/ /\ ~cancelled /\ UNCHANGED bounds
          /\ held' = TRUE
          /\ job' = [job EXCEPT !["request"] = Head(requests)]
          /\ start' = [start EXCEPT !["request"] = now]
          /\ Goto("request", "collect")
       \/ /\ IF cancelled THEN UNCHANGED bounds ELSE Fault
          /\ UNCHANGED <<held, job, start, pc>>
    /\ UNCHANGED <<now, table, bound, todo, report, cancelled, asked>>

\* The channel is lost during a run: the broker queues the request again.
ChannelDrop ==
    /\ held
    /\ Fault
    /\ held' = FALSE
    /\ requests' = <<job["request"]>> \o requests
    /\ UNCHANGED <<now, table, bound, worker, cancelled, asked>>

-----------------------------------------------------------------------------
(***************************************************************************)
(* runOneSource.                                                           *)
(***************************************************************************)

\* The run is over: the poll goes on, the request is acknowledged if its channel is still open.
Settle(w) ==
    /\ Goto(w, IF w = "poll" THEN "next" ELSE "idle")
    /\ held' = IF w = "poll" THEN held ELSE FALSE
    /\ UNCHANGED requests

\* Leaves out the next time of the schedule.
CollectAndSkip(w) ==
    /\ pc[w] = "collect"
    /\ report' = [report EXCEPT ![w] =
                    [stamp |-> now, due |-> NextDue(job[w].line, now + job[w].line)]]
    /\ Goto(w, "report")
    /\ UNCHANGED <<now, table, queue, bound, todo, job, start, cancelled, asked, bounds>>

\* Fetching and publishing.  The next due time is that after the run; when the fetch or the
\* first publish fails, that after its beginning.  After SIGTERM the run fails and its report
\* is not even sent.
Collect(w) ==
    /\ pc[w] = "collect"
    /\ IF cancelled THEN UNCHANGED report
       ELSE \E base \in {start[w], now} :
              report' = [report EXCEPT ![w] = [stamp |-> now, due |-> NextDue(job[w].line, base)]]
    /\ Goto(w, "report")
    /\ UNCHANGED <<now, table, queue, bound, todo, job, start, cancelled, asked, bounds>>

\* Inserts the row if it is not there.
UpdatedOrInserted(old, rep) ==
    IF old = NoRow THEN [line |-> Manual, enabled |-> TRUE, run |-> rep.stamp, due |-> rep.due]
    ELSE [old EXCEPT !.run = rep.stamp, !.due = rep.due]

\* Updates the rows of enabled sources only.
UpdatedIfEnabled(old, rep) ==
    IF old = NoRow \/ ~old.enabled THEN old
    ELSE [old EXCEPT !.run = rep.stamp, !.due = rep.due]

\* ReportCollectionSourceRun at the controller: one UPDATE, which finds no row if the source is
\* deleted.
Updated(old, rep) ==
    IF old = NoRow THEN NoRow
    ELSE [old EXCEPT !.run = rep.stamp, !.due = rep.due]

\* The report arrives, or is lost; the collector goes on in any case.  A one-off collection
\* reports nothing.
Report(w) ==
    /\ pc[w] = "report"
    /\ \/ /\ job[w].id # Ephemeral /\ report[w] # None /\ UNCHANGED bounds
          /\ row' = [row EXCEPT ![job[w].id] = Updated(@, report[w])]
          /\ asked' = [asked EXCEPT ![job[w].id] =
               IF row'[job[w].id] # NoRow /\ row'[job[w].id].run >= @ THEN 0 ELSE @]
       \/ /\ IF job[w].id = Ephemeral \/ cancelled THEN UNCHANGED bounds ELSE Fault
          /\ UNCHANGED <<row, asked>>
    /\ report' = [report EXCEPT ![w] = None] /\ job' = [job EXCEPT ![w] = Once]
    /\ start' = IF w = "poll" THEN start ELSE [start EXCEPT ![w] = 0]
    /\ Settle(w)
    /\ UNCHANGED <<now, wanted, edited, bound, todo, cancelled>>

-----------------------------------------------------------------------------
(***************************************************************************)
(* The process.                                                            *)
(***************************************************************************)

\* The process is gone and started again; the broker queues its request again.
Halt ==
    /\ pc' = [w \in Workers |-> IF w = "poll" THEN "idle" ELSE "down"]
    /\ requests' = IF held THEN <<job["request"]>> \o requests ELSE requests
    /\ held' = FALSE /\ cancelled' = FALSE /\ todo' = {}
    /\ job' = [w \in Workers |-> Once]
    /\ start' = [w \in Workers |-> 0] /\ report' = [w \in Workers |-> None]
    /\ UNCHANGED <<now, table, bound, asked>>

Crash == Fault /\ Halt

\* SIGTERM.
Terminate ==
    /\ ~cancelled
    /\ Fault
    /\ cancelled' = TRUE
    /\ UNCHANGED <<now, table, queue, bound, worker, asked>>

\* The poll loop returns once its poll is over; the process ends wherever its other goroutine is.
Exit == cancelled /\ pc["poll"] = "idle" /\ Halt /\ UNCHANGED bounds

User == \/ \E s \in Sources, settings \in Settings : Save(s, settings)
        \/ \E s \in Sources : Delete(s)
        \/ EnqueueRequest

Poll == PollList \/ PollStart \/ PollNext \/ Collect("poll") \/ Report("poll")
Consume == Subscribe \/ ReceiveRequest \/ Collect("request") \/ Report("request")

Next == Tick \/ User \/ Poll \/ Consume \/ ChannelDrop \/ Crash \/ Terminate \/ Exit

\* Both goroutines go on, and a process told to stop does.
Spec == Init /\ [][Next]_vars /\ WF_vars(Poll) /\ WF_vars(Consume) /\ WF_vars(Exit)

-----------------------------------------------------------------------------
(***************************************************************************)
(* Properties.                                                             *)
(***************************************************************************)

\* Runs work on copies of rows that users go on editing: a report changes neither the line nor
\* the switch of a source, and does not bring a deleted one back (UpsertCollectionSource,
\* DeleteCollectionSource, ReportCollectionSourceRun).
EditsSurvive ==
    \A s \in Sources :
      IF wanted[s] = NoRow THEN row[s] = NoRow
      ELSE row[s] # NoRow /\ wanted[s] = [line |-> row[s].line, enabled |-> row[s].enabled]

\* The same with the types: a request that can be acknowledged is being handled.
Safety == TypeOK /\ EditsSurvive

Scheduled(s) == row[s] # NoRow /\ row[s].line # Manual

\* No run, whatever its outcome and however its report is delayed, makes a source skip a time
\* of its schedule that is still to come (runOneSource, nextDueForReport); for sources that
\* kept one line since they were created.
NoTimeSkipped ==
    \A s \in Sources \ edited : Scheduled(s) => row[s].due <= NextDue(row[s].line, now)

\* A source that is due is run by the poll loop, or stops being due by an edit or another run,
\* however often runs and reports fail (runGithubPoll, collectionSourceDue).
Overdue(s) == Scheduled(s) /\ row[s].enabled /\ row[s].due <= now
DueIsServed == \A s \in Sources : Overdue(s) ~> ~Overdue(s)

\* A request to run a source, accepted while the queue existed, ends in a report of a run that
\* is not older than the request, whether or not the source is enabled or scheduled; unless the
\* source is deleted or a fault happens (EnqueueCollectionRequest, consumeCollectionRequests).
RunNowRuns ==
    \A s \in Sources : asked[s] > 0 ~> asked[s] = 0 \/ faults > 0
=============================================================================
