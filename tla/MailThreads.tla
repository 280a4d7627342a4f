----------------------------- MODULE MailThreads -----------------------------
(***************************************************************************)
(* collector-jmap: a run reads a mailbox in three calls (Email/query,      *)
(* Email/get, Thread/get) while mail comes and goes, joins them to one row *)
(* per thread, and publishes the rows one by one (jmap_client.go, main.go).*)
(* The poll loop and the consumer of collection requests may run the       *)
(* source at once.                                                         *)
(*                                                                         *)
(* When a source is due is CollectionRuns' subject: here it is at every    *)
(* poll.  The persister's table is what was published last for a thread.   *)
(* Email/get answers in any order, so rows are a set.                      *)
(***************************************************************************)
EXTENDS Naturals, FiniteSets

CONSTANTS
    Mails,        \* what may arrive
    ThreadOf,     \* the thread of each
    Limit,        \* inboxEmailThreadLimit
    MaxRequests,  \* bound: collection requests
    MaxChanges    \* bound: mails moved or destroyed, calls that fail or never return, crashes

Threads == {ThreadOf[m] : m \in Mails}
Runs == {"poll", "request"}

ASSUME MailAssumption ==
    /\ IsFiniteSet(Mails) /\ ThreadOf \in [Mails -> Threads]
    /\ Limit \in Nat \ {0}
    /\ MaxChanges \in Nat /\ MaxRequests \in Nat

VARIABLES
    place,     \* place[m]: "none", "inbox", "archive", or "gone" when it is destroyed
    at,        \* receivedAt
    step,      \* step[r]: the next call of run r, or "idle", or "hung" in one that never returns
    ids,       \* ids[r]: the mails that Email/query named
    rows,      \* rows[r]: the rows still to be joined or published
    requests,  \* collection requests not settled
    sink,      \* sink[t]: the set of the row published last for t, if any
    touched,   \* history: FALSE while the mailbox is as r's Email/query found it
    overtaken, \* history: FALSE while no other run has published since
    seen,      \* history: the inbox that it found
    asked, changes   \* bounds' counters

mailbox == <<place, at>>
run == <<step, ids, rows>>
history == <<touched, overtaken, seen>>
bounds == <<asked, changes>>
vars == <<mailbox, run, requests, sink, history, bounds>>

Row == [thread : Threads, mail : Mails, count : 0..Cardinality(Mails)]

\* Type invariant.  A run holds rows of the mails it asked for, at most one a thread and Limit.
TypeOK ==
    /\ place \in [Mails -> {"none", "inbox", "archive", "gone"}]
    /\ at \in [Mails -> 0..Cardinality(Mails)]
    /\ step \in [Runs -> {"idle", "hung", "query", "get", "threads", "publish", "report"}]
    /\ ids \in [Runs -> SUBSET Mails] /\ rows \in [Runs -> SUBSET Row]
    /\ requests \in 0..MaxRequests
    /\ sink \in [Threads -> SUBSET Row]
    /\ \A r \in Runs :
          /\ {row.mail : row \in rows[r]} \subseteq ids[r]
          /\ Cardinality({ThreadOf[m] : m \in ids[r]}) = Cardinality(ids[r])
          /\ Cardinality(ids[r]) <= Limit
    /\ \A t \in Threads : Cardinality(sink[t]) <= 1 /\ \A row \in sink[t] : row.thread = t
    /\ touched \in [Runs -> BOOLEAN] /\ overtaken \in [Runs -> BOOLEAN] /\ seen \in [Runs -> SUBSET Mails]
    /\ asked \in 0..MaxRequests /\ changes \in 0..MaxChanges

Init ==
    /\ place = [m \in Mails |-> "none"] /\ at = [m \in Mails |-> 0]
    /\ step = [r \in Runs |-> "idle"]
    /\ ids = [r \in Runs |-> {}] /\ rows = [r \in Runs |-> {}]
    /\ requests = 0
    /\ sink = [t \in Threads |-> {}]
    /\ touched = [r \in Runs |-> TRUE] /\ overtaken = touched /\ seen = ids
    /\ asked = 0 /\ changes = 0

Change == changes < MaxChanges /\ changes' = changes + 1 /\ UNCHANGED asked

-----------------------------------------------------------------------------
(***************************************************************************)
(* The mail server.                                                        *)
(***************************************************************************)

Arrived == {m \in Mails : place[m] # "none"}
Touch == touched' = [r \in Runs |-> TRUE]

Arrive(m) ==
    /\ place[m] = "none"
    /\ place' = [place EXCEPT ![m] = "inbox"]
    /\ at' = [at EXCEPT ![m] = Cardinality(Arrived) + 1]
    /\ Touch
    /\ UNCHANGED <<run, requests, sink, overtaken, seen, bounds>>

\* The user archives a mail, takes it back into the inbox, or destroys it.
Move(m, p) ==
    /\ place[m] \in {"inbox", "archive"} /\ p \in {"inbox", "archive", "gone"} \ {place[m]}
    /\ Change
    /\ place' = [place EXCEPT ![m] = p]
    /\ Touch
    /\ UNCHANGED <<at, run, requests, sink, overtaken, seen>>

InThread(t) == {m \in Mails : ThreadOf[m] = t}
Kept(t) == {m \in InThread(t) : place[m] \in {"inbox", "archive"}}

Inbox == {m \in Mails : place[m] = "inbox"}

\* Sorts the other way.
OldestOf(S) == {m \in S : \A n \in S : ThreadOf[n] = ThreadOf[m] => at[m] <= at[n]}

\* The newest mail of each thread in S.
NewestOf(S) == {m \in S : \A n \in S : ThreadOf[n] = ThreadOf[m] => at[n] <= at[m]}

\* The newest Limit threads of the inbox.
Top == {m \in NewestOf(Inbox) : Cardinality({n \in NewestOf(Inbox) : at[n] > at[m]}) < Limit}

RowOf(m) == [thread |-> ThreadOf[m], mail |-> m, count |-> Cardinality(Kept(ThreadOf[m]))]

-----------------------------------------------------------------------------
(***************************************************************************)
(* A run.                                                                  *)
(***************************************************************************)

Goto(r, s) == step' = [step EXCEPT ![r] = s]

\* A run begins: jmapRuntimeFromEnv, listJmapCollectionSources, the source's mailbox.  Nothing it
\* reads here comes back in what it publishes, so it is one step with the tick or the delivery.
Connect(r) ==
    /\ step[r] = "idle"
    /\ Goto(r, "query")
    /\ UNCHANGED <<mailbox, ids, rows, requests, sink, history, bounds>>

\* runJmapPoll at a tick.
Poll == Connect("poll")

\* EnqueueCollectionRequest reaches the queue.
Request ==
    /\ asked < MaxRequests /\ asked' = asked + 1 /\ UNCHANGED changes
    /\ requests' = requests + 1
    /\ UNCHANGED <<mailbox, run, sink, history>>

\* The request consumer's handler.
TakeRequest == requests > 0 /\ Connect("request")

\* Email/query: one mail for each thread, the newest Limit threads.
Query(r) ==
    /\ step[r] = "query"
    /\ ids' = [ids EXCEPT ![r] = Top] /\ seen' = [seen EXCEPT ![r] = Inbox]
    /\ touched' = [touched EXCEPT ![r] = FALSE] /\ overtaken' = [overtaken EXCEPT ![r] = FALSE]
    /\ Goto(r, IF ids'[r] = {} THEN "report" ELSE "get")
    /\ UNCHANGED <<mailbox, rows, requests, sink, bounds>>

\* Email/get: one row a thread, the newest of what is still there of these, wherever it is now.
Get(r) ==
    /\ step[r] = "get"
    /\ rows' = [rows EXCEPT ![r] = {[thread |-> ThreadOf[m], mail |-> m, count |-> 0] :
                                        m \in NewestOf({n \in ids[r] : place[n] # "gone"})}]
    /\ Goto(r, IF rows'[r] = {} THEN "report" ELSE "threads")
    /\ UNCHANGED <<mailbox, ids, requests, sink, history, bounds>>

\* Leaves out the join with the counts for threads of one mail.
GetThreadsOfMany(r) ==
    /\ step[r] = "threads"
    /\ rows' = [rows EXCEPT ![r] = {IF Cardinality(Kept(row.thread)) > 1 THEN RowOf(row.mail) ELSE row :
                                        row \in rows[r]}]
    /\ Goto(r, "publish")
    /\ UNCHANGED <<mailbox, ids, requests, sink, history, bounds>>

\* Thread/get: how many mails each thread has; 0 for one it does not answer for.
GetThreads(r) ==
    /\ step[r] = "threads"
    /\ rows' = [rows EXCEPT ![r] = {RowOf(row.mail) : row \in rows[r]}]
    /\ Goto(r, "publish")
    /\ UNCHANGED <<mailbox, ids, requests, sink, history, bounds>>

\* Publishes the rows that the sink does not have a mail for.
PublishNew(r, row) ==
    /\ step[r] = "publish"
    /\ row \in rows[r]
    /\ rows' = [rows EXCEPT ![r] = @ \ {row}]
    /\ sink' = [sink EXCEPT ![row.thread] = IF @ = {} THEN {row} ELSE @]
    /\ overtaken' = [q \in Runs |-> overtaken[q] \/ q # r]
    /\ Goto(r, IF rows'[r] = {} THEN "report" ELSE "publish")
    /\ UNCHANGED <<mailbox, ids, requests, touched, seen, bounds>>

\* PublishJSON of one row, to the sink.
Publish(r, row) ==
    /\ step[r] = "publish"
    /\ row \in rows[r]
    /\ rows' = [rows EXCEPT ![r] = @ \ {row}]
    /\ sink' = [sink EXCEPT ![row.thread] = {row}]
    /\ overtaken' = [q \in Runs |-> overtaken[q] \/ q # r]
    /\ Goto(r, IF rows'[r] = {} THEN "report" ELSE "publish")
    /\ UNCHANGED <<mailbox, ids, requests, touched, seen, bounds>>

\* Nothing is left of what the run has read.
Leave(r, s) ==
    /\ Goto(r, s)
    /\ ids' = [ids EXCEPT ![r] = {}] /\ rows' = [rows EXCEPT ![r] = {}] /\ seen' = [seen EXCEPT ![r] = {}]
    /\ touched' = [touched EXCEPT ![r] = TRUE] /\ overtaken' = [overtaken EXCEPT ![r] = TRUE]

\* The request is left to be delivered again.
EndRunKeepingRequest(r) == Leave(r, "idle") /\ UNCHANGED requests

\* The run is over; its request is acknowledged, or dropped.
EndRun(r) ==
    /\ Leave(r, "idle")
    /\ requests' = IF r = "request" THEN requests - 1 ELSE requests

\* reportCollectionSourceRun, which may fail, too.
Report(r) ==
    /\ step[r] = "report"
    /\ EndRun(r)
    /\ UNCHANGED <<mailbox, sink, bounds>>

\* Connecting, a call or a publish fails: nothing more of the run is published, and the failure is
\* reported, unless there is no session: then the poll or the request is over without a report.
RunFails(r) ==
    /\ step[r] \in {"query", "get", "threads", "publish"}
    /\ Change
    /\ EndRun(r)
    /\ UNCHANGED <<mailbox, sink>>

\* The mail server or the controller never answers: neither client has a timeout, and the run's
\* context ends with the process only.
Hang(r) ==
    /\ step[r] \in {"query", "get", "threads", "report"}
    /\ Change
    /\ Leave(r, "hung")
    /\ UNCHANGED <<mailbox, requests, sink>>

\* The process ends and is started again; so it does when the server answers Email/get or
\* Thread/get without a response, whose first element listEmailThreads takes unchecked, and
\* somebody may do so when a run hangs.  The request in progress is delivered again.
Crash ==
    /\ \/ (\E r \in Runs : step[r] # "idle") /\ Change
       \/ (\E r \in Runs : step[r] = "hung") /\ UNCHANGED bounds
    /\ step' = [r \in Runs |-> "idle"]
    /\ ids' = [r \in Runs |-> {}] /\ rows' = [r \in Runs |-> {}] /\ seen' = [r \in Runs |-> {}]
    /\ touched' = [r \in Runs |-> TRUE] /\ overtaken' = [r \in Runs |-> TRUE]
    /\ UNCHANGED <<mailbox, requests, sink>>

-----------------------------------------------------------------------------

PublishNext(r) == \E row \in rows[r] : Publish(r, row)

RunStep(r) == Query(r) \/ Get(r) \/ GetThreads(r) \/ PublishNext(r) \/ Report(r)

Next ==
    \/ \E m \in Mails : Arrive(m)
    \/ \E m \in Mails, p \in {"inbox", "archive", "gone"} : Move(m, p)
    \/ Poll \/ Request \/ TakeRequest
    \/ \E r \in Runs : RunStep(r) \/ RunFails(r) \/ Hang(r)
    \/ Crash

Spec == Init /\ [][Next]_vars

\* The ticker ticks, the consumer consumes, and a call that does not hang returns; faults do not
\* go on for ever.  Nothing is assumed of a call that hangs, nor that somebody restarts the process.
FairSpec ==
    /\ Spec
    /\ WF_vars(Poll) /\ WF_vars(TakeRequest)
    /\ \A r \in Runs : WF_vars(RunStep(r))

-----------------------------------------------------------------------------
(***************************************************************************)
(* Properties.                                                             *)
(***************************************************************************)

\* A row that counts no mail at all shows a mail that was destroyed between the run's calls: the
\* three answers are joined, not one snapshot.
CountExplained ==
    \A t \in Threads : \A row \in sink[t] : row.count = 0 => place[row.mail] = "gone"

\* A successful run over a mailbox that nobody touched, and which no other run overtook, leaves
\* the newest threads in the sink as they are.
ReportedIsCurrent ==
    \A r \in Runs : step[r] = "report" /\ ~touched[r] /\ ~overtaken[r] =>
        \A m \in Top : sink[ThreadOf[m]] = {RowOf(m)}

\* What the sink shows is what the mailbox was.
Safety == TypeOK /\ CountExplained /\ ReportedIsCurrent

\* A run shows an older mail over a newer one only if the newer one was not in the inbox when it
\* asked, wherever it is since, or if the other run has published after it asked.
NoRollback ==
    [][\A r \in Runs, t \in Threads : \A old \in sink[t], new \in sink'[t] :
        rows'[r] # rows[r] /\ at[new.mail] < at[old.mail] => overtaken[r] \/ old.mail \notin seen[r]]_sink

\* Once the mailbox is left alone, the newest Limit threads are shown as they are, whatever
\* overlapping, failing and crashing runs have published before, unless the poll hangs for ever.
SinkConverges ==
    []<>(step["poll"] # "hung") => <>[](\A m \in Top : sink[ThreadOf[m]] = {RowOf(m)})

\* Every collection request is settled, unless its run hangs for ever.
RequestsSettle == []<>(step["request"] # "hung") => <>[](requests = 0)
=============================================================================
