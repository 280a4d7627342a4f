# IceHive: formal models

IceHive collects entities (repositories, issues, feed items, mails) from outside systems, moves
them through RabbitMQ and stores them in sinks. This directory holds TLA+ models of the parts
whose correctness depends on concurrency, failures and ordering, TLC configurations that check
them on small instances, and TLAPS proofs for every instance. All paths are relative to the
repository, `src/` being its root; `services/` stands for `src/services/` below.

## 1. Inventory

| Component | State | Operations | What makes it correct | Module |
|---|---|---|---|---|
| AMQP client, `services/common/pkg/amqpctl/client.go` | one connection, one publish channel, one channel per consumer, `closed`, a mutex | `Connect`, `Publish*`, `Consume*`, `EnsureQueue`, `Close`, reconnects inside the first four | no leaked connection or channel; publishes fail only for a reason and always return; consumers resume; `Close` is final | `AmqpClient` |
| Entity pipeline, `client.go` + RabbitMQ | queue, unacknowledged deliveries, buffered deliveries | publish, push, `Ack`, `Nack`, redelivery | every queued message is in one place and is eventually settled; acknowledged implies stored | `EntityDelivery`, `AtLeastOnce` |
| persister-mysql, `services/persister-mysql/main.go` | columns and rows of the sink tables, a process-local mutex | `ensureTable`, `createTable`, `upsertEntity` | schema evolution loses no entity; newer observations win | `EntityDelivery` |
| persister-yaml, `services/persister-yaml` | file tree, git index and history, a mutex | write (temporary file and rename), periodic commit and push | files are whole, acknowledged entities are on disk, files come to be tracked, and a sync that ends blocks nothing for good | `YamlSink` |
| collector-github issue cache, `services/collector-github/issues_cache.go`, `issues.go` | one JSON file per repository and its temporary file | probe, list, merge, save | what the cache suppresses has been published; the newest revision is published last | `IssueCache` |
| collector-github runs, `main.go`, `collection_requests.go` | none of its own; due times at the controller | poll loop, on-demand requests, reports | due sources run, requested ones too; no time of a schedule is skipped | `CollectionRuns` |
| collector-jmap, `services/collector-jmap` | none of its own; the mailbox it reads | three JMAP calls, a join, publishing, in two goroutines | the sink shows threads as they were, and converges to the mailbox | `MailThreads` (runs: `CollectionRuns`) |
| Controller: collection sources, `controller/internal/db/collection_sources.go`, `controller/main.go` | one row per source | upsert, delete, report, enqueue | reports and edits of one source do not undo each other | `CollectionRuns` |
| Controller: configuration and heartbeats, `controller/internal/db/meta.go` | key/value and heartbeat rows | `GetConfig` (creates), `SetConfig`, heartbeat upsert, `ListServices` | an entered value stays; a heartbeat that was acknowledged stays; healthy means alive | `ControllerStartup`, `ControllerFeed` |
| Controller: activity ring, `controller/internal/activity/ring.go` | circular buffer, last heartbeat per service | `Record*`, `List` | the list is the newest events, newest first, heartbeats throttled | `ActivityRing`, `BoundedHistory`, `ControllerFeed` |
| Controller: start-up and migrations, `controller/main.go`, `controller/internal/db/migrate.go` | schema version and dirty flag, the start-up goroutine | retry loops, `RunMigrations`, shutdown | only whole schemas are served; everything comes up once its dependencies do | `ControllerStartup` |
| Controller: pipeline health, `controller/internal/healthmetrics` | gauges | periodic refresh, the badge of the sources page | stale means overdue; gauge and badge agree, but for the second after a threshold | `ControllerFeed` |
| Worker runtime, `services/common/pkg/{collector,persist,bootstrap}` | fetched settings | fetch key by key with retries, connect, work, shutdown | workers run once the settings are right | `ControllerStartup` |
| Source schemas, `services/common/pkg/sourceschema`, `controller/source_schema_handle.go` | a queue and a table | publish at a collector's start, consume, upsert | a queued schema is stored | `ControllerStartup` |
| other collectors (rss, testdata, azure) | none | rss: the same poll and request loops | as collector-github's runs | `CollectionRuns` (rss) |
| collector-github mapping, MCP server, frontend, generated protocol | none | payload to entity, forwarding, views | stateless | - |

How they interact: collectors and persisters fetch their settings from the controller
(`WorkerBootstrap`), hold one AMQP client each, publish heartbeats, and exchange entities over one
topic exchange. The controller consumes heartbeats and source schemas with two goroutines on its
one client. Collectors read their sources from the controller, run those that are due in a poll
loop and those that a `collection request` message asks for in a second goroutine, and report each
run. What is hard here: the mutex-free windows between two uses of the AMQP client, redelivery
after lost channels and crashes, a sink changed by several replicas statement by statement, a cache
saved before what it stands for is published, two goroutines that run one source at once, answers
of several calls that are joined as if they were one snapshot, a start-up in which everybody retries
on everybody, and git run under the mutex of the store. The list of hazards, each at its line, is in
`PROJECT.json`.

## 2. Modules

| Module | Models | Uses |
|---|---|---|
| `AmqpClient` | the AMQP client with any number of consumers and one publisher in progress | |
| `AtLeastOnce` | what the pipeline promises of each message | |
| `EntityDelivery` | publish, queue, replicas of persister-mysql, the sink | instantiates `AtLeastOnce` |
| `MCEntityDelivery` | instances for TLC | `EntityDelivery` |
| `IssueCache` | GitHub's issues of a repository, the collector goroutines, the cache files | |
| `CollectionRuns` | the rows of collection sources, users' edits and requests, a collector's poll loop and request consumer | |
| `MailThreads` | a mailbox, collector-jmap's runs over it, the table of threads | |
| `MCMailThreads` | its instance for TLC | `MailThreads` |
| `ControllerStartup` | controller and workers coming up and going down, settings, source schemas | |
| `BoundedHistory` | what the activity feed promises: the newest events, oldest dropped first | |
| `ActivityRing` | the circular buffer, its lock sections, its readers | instantiates `BoundedHistory` |
| `ControllerFeed` | heartbeats, their table, the feed, one source's health | `ActivityRing` |
| `MCControllerFeed` | its instance for TLC | `ControllerFeed` |
| `YamlSink` | persister-yaml's files, its git, its mutex, its process | |
| `*_proofs` | the theorems about `AmqpClient`, `EntityDelivery`, `IssueCache`, `CollectionRuns`, `MailThreads`, `ControllerStartup`, `YamlSink`, and, in `ControllerFeed_proofs`, about `ActivityRing` and `ControllerFeed` | the module and TLAPS |

`Safety` in each module is its type invariant and the invariants that go with it.

### AmqpClient

`conn`, `pubOpen`, `chan[c]` and `closed` are the fields of `Client` and the channel variable of
each consumer; `live` is the set of connections open at the broker, so that a connection the client
forgot is visible. A method that runs under `c.mu` without leaving it is one step
(`openChannel`, the reconnect of `consumeLoop`, `Close`); `publishLocked` is one step per use of the
network, with `mutexHeld` between them, since faults happen there. The outcome of a method is a
parameter (`Connect(ok)`): it fails while the broker is down or by one of `MaxFaults` faults.
A connection's dial, channel and exchange declaration are one step with a nondeterministic
failure; its error paths close whatever was opened. `consumeControlOnce` and `consumeJSONOnce` have
the same shape and are one set of actions. All publishers contend for the mutex for the whole of
their publish, so one publisher in progress stands for them all. The publishing context's deadline
is not modelled: no caller sets one. Nor is a TCP connection that only one side takes for open:
every fault is seen by the client at its next use of the connection or when it waits for a delivery.

### EntityDelivery

Messages `1..N` are published in this order; `Key` and `Fields` give the row and the columns of
each. The queue is `ready`, `unacked[r]` belongs to the channel of replica `r`, and `buffer[r]` is
what the client library holds before the range loop takes it, which survives the loss of the
channel. The handler is one action per SQL statement (`ReadColumns`, `CreateTable`, `AlterTable`,
`Upsert`), since several replicas share the sink and a statement may fail. A process is killed
(`Crash`), or stops gracefully (`Terminate`, then what is buffered is still handled, `Exit`), and is
started again. SQL types and quoting do not matter to any property; two fields that map to one
column are a malformed message in effect (every attempt fails and is dropped). The
`ALTER TABLE` that adds `recollect_spec` to tables of old releases is left out: it behaves as any
other missing column.

### IssueCache

`stamp[i]` lists the update times of issue `i`; a cached, fetched or published issue is a number of
its revision. Time is in seconds as in the cache, and an update falls in the second of the latest
one or in the next, which is all the code's comparisons can tell apart. A listing takes one page
per issue, newest issue first (GitHub's default order), so updates happen between pages. The save
is two steps before its rename because another goroutine may open, write or rename the same
temporary file; `fd` says which of the two names the open file has now. Variables `raced`,
`abandoned` and `best` are history and restrict no action.

### CollectionRuns

`row[s]` is the source's row with 0 for NULL; a cron line is its period, and it is due at the
multiples. The two goroutines of a collector are `"poll"` and `"request"`; `job[w]` is the copy of
the row with which one runs, as old as the listing or the request it came from. `runOneSource` is
two steps, `Collect` (all fetching and publishing, with the choice of the moment from which the next
due time is computed: failures before anything is published take the run's beginning) and `Report`,
since the reports of the two goroutines can overtake each other. After SIGTERM the poll in progress
is finished with failing runs, requests that are already pushed are dropped, and nothing is
reported. Left out as data: `last_success`, `last_error`, the collector type and what is fetched. The HTTP clients have no
timeout, so a call of the controller or of GitHub may never return; here each one returns or fails,
and the two properties on progress are about such calls only (`MailThreads` has calls that hang).
`wanted`, `edited` and `asked` are history and restrict no action.

### MailThreads

A mail is in the inbox, archived or destroyed, may be taken back into the inbox, and has the order
of its arrival for a time. A run is
one step per JMAP call (`Email/query`, collapsed by thread and limited; `Email/get`;
`Thread/get`), then one per published row, since mail moves between the calls and the two
goroutines publish between each other's rows. A row is a thread, the mail it shows and the number of
mails it counts: the fields that come from different calls. The persister's table is the row
published last. Sorting and formatting of rows do not matter to it. Polls are unconditional here,
since `CollectionRuns` has the due times. A call may fail, or never return (`Hang`: the JMAP client
and the controller's have no timeout), and then the run ends with the process. `touched`,
`overtaken` and `seen` are history and restrict no action.

### ControllerStartup

The controller's start-up goroutine is `phase`; each of its retry loops is an action that is enabled
when its attempt succeeds, since an attempt that fails changes nothing but the log. `RunMigrations`
is one step per migration begun and ended, with golang-migrate's version and dirty flag, so that a
crash, an outage or a failing statement falls inside a migration; `whole` records which migrations
really ran. `GetConfig` is two steps when the key has no row (`early[k]` holds the workers whose
call looked before there was one), `SetConfig` one. A worker fetches its settings key by key, dials,
and runs. Addresses are `""`, `"right"` or `"wrong"`; which of several keys an address comes from is
the code's (`amqp.url` before `amqp.host`). Source schemas are counted, one per collector: published
when it connects, queued if the queue exists, and upserted by a consumer whose `EnsureQueue` may
fail once and for all. After a signal `main` waits for the goroutine (`Exit`), unless
`httpSrv.Shutdown` fails because a request or a stream stays open for ten seconds: `log.Fatal` then
ends the process wherever the goroutine is (`ShutdownFails`). `meta`'s `WorkerBootstrap`
has a fallback address that no worker uses; it is left out.

### ActivityRing and ControllerFeed

`buf`, `next`, `full` and `seq` are the fields of `Ring`, with the index arithmetic of the code.
`RecordHeartbeat` takes the lock twice, and `accepted` is what it holds in between.
`ControllerFeed` extends the ring with the heartbeat consumer (`queue`, `pos`: what it is handling
and what the broker would redeliver), the heartbeats table, requests and reports that also append
events, restarts that empty the ring but not the table, and the two computations of a source's
staleness, both by `SourceIsStale`: `Refresh` for the gauge, with the age as it is, and `Badge` for
the sources page, with the age in whole seconds and never below 0. `Interval[t]` is what
`cronInterval` gives at time `t`, so a cron line may be irregular; it is always a multiple of
`Second`. The collector's clock may be one unit ahead of the controller's. A heartbeat without a
service, which the handler acknowledges and forgets, and one without a time, which it stamps itself,
are left out: `PublishHeartbeat` sends neither. Counts of entities exported beside the gauges are sums over
tables and are left out.

### YamlSink

An entity is the file its type and name give and its number. A write is three steps (begin, content,
rename) under the store's mutex; a sync is one step per git command under the same mutex, with the
work tree, the index, the head and the remote as one content per file. `ls-files --others` lists
what is not in the index. git may fail, be killed by the process's end and leave `index.lock`
behind, or hang in a push until the service's context ends. `CombinedOutput` has no `WaitDelay`, so
a killed push whose `ssh` or `git-remote-https` lives on keeps the mutex until that child closes the
pipe, which it may never do (`child`, `ChildEnds`). A process told to stop ends when its handler
returns (`stopping`), or, if it is told so before it consumes, when the sync at start-up is over
(`leaving`). The queue settles in order, and a lost
channel redelivers, as in `EntityDelivery`. `GIT_COMMIT` and `GIT_PUSH` are chosen at the start.

## 3. Runs

| Run | Instance | Checks |
|---|---|---|
| `amqp_pair` | two consumers, two connections, 3 faults | `Safety`, `PublishErrorBlamed`, `PublishReturns`, `LoneConsumerResumes`, `ShutdownQuiesces` |
| `amqp_pair_livelock` | the same, 1 fault | violates `ConsumersResume` |
| `delivery_single` | one replica, 4 messages, 2 faults, 1 failing statement | `AckedNotRegressed`, `NoNeedlessDrop`, `Settles` |
| `delivery_pair` | two replicas, 3 messages, 1 fault, 1 stop | `Safety`, `ImplementsAtLeastOnce` |
| `delivery_shutdown` | one replica, no fault, 1 stop | violates `NoNeedlessDrop` |
| `issue_cache` | two goroutines, 2 issues, 2 updates, 1 fault, caps 1 and 2 | `Safety`, `NewestPublished` |
| `issue_cache_publish_loss` | one goroutine, 3 updates, 1 fault | violates `SuppressedIsPublished` |
| `collection_runs` | two sources, 2 edits, 1 request, 1 fault, 2 moments, lines of period 1 and 2 | `Safety`, `NoTimeSkipped`, `DueIsServed`, `RunNowRuns` |
| `mail` | two threads with room for one, three mails, 1 request, 2 moves or faults | `Safety`, `NoRollback`, `SinkConverges`, `RequestsSettle` |
| `startup` | a collector and a persister, two migrations, 2 edits, 1 fault, 1 stop | `Safety`, `SettingKept`, `ControllerServes`, `WorkersRun`, `SchemasStored`, `StopEnds` |
| `feed` | one service, four moments 1 to 3 units apart (2 are a second), an irregular cron line, a ring of two, 3 heartbeats, 2 calls, 1 fault | `Safety`, `Throttled`, `HealthyHasBeaten`, `FeedFollows`, `BadgeJustified`, `BadgeIsGauge`, `ImplementsHistory`, `SilenceAlerts` |
| `yaml` | two files, 2 entities, 2 faults, 1 stop, with and without commits and pushes | `Safety`, `AckedOnDisk`, `StagedUnlessFault`, `FilesTracked`, `QueueDrains`, `StopEnds` |

Each property is stated in words above its definition. `PROJECT.json` lists for each one a
plausible mistake in a mapped definition that makes TLC find it violated, and what each run shows.

Bounds. Two consumers, replicas or goroutines are the most the code has on one client, and enough
for every pairwise race elsewhere. Connection identities can be reused once closed, so two suffice
for the controller. Two faults make a fault during recovery from a fault possible, three a third
during shutdown. Four messages hold three observations of one entity (a creation, one new column,
two new columns) and another entity between. Two issues and a cap of one make a listing that is cut
short; two updates let an issue be updated while the other goroutine lists or publishes it. Two
sources make a poll whose second run starts late; two edits a source that is created and changed, or
deleted, during a run; two moments a run, a listing and a report that are out of date. Three mails in
two threads with room for one thread let a thread grow, be overtaken by the other and come back; two
moves take a mail out of the inbox and back.
Two migrations make one that is left half-way either the last or not; two edits an address that is
entered wrong and then right, or two keys. A ring of two wraps with three heartbeats and two
further events; four moments make two heartbeats throttled and two not, and a source
whose age is under, in the second after, and beyond either threshold, before and after its interval changes.
Two entities of one file make an overwrite, of two files a commit that holds one of them; two
faults a failing command after a killed one. `CHECK_DEADLOCK FALSE` appears only where a system
that has consumed its bounds may rightly stop: all messages settled, GitHub quiet, time over.

Fairness. `AmqpClient`: goroutines are scheduled and a publish in progress continues (weak
fairness); `sync.Mutex` hands over to a waiter within a bounded time, so a step that waits for
`c.mu` happens if the mutex is free again and again (strong fairness on consumer steps and
`Close`); a broker outage ends. `EntityDelivery`: the broker pushes to open channels, a replica
takes its steps and a stopped one is started again. `IssueCache`: each goroutine goes on running the
source. `CollectionRuns`: the poll loop and the consumer go on, and a process told to stop ends.
`MailThreads`: the ticker ticks, the consumer consumes, a call that does not hang returns; nothing
is assumed of one that hangs, nor that anybody restarts the process. `ControllerStartup`: retry
loops try again, a database outage ends, supervisors restart what has ended; a shutdown need not
fail. `ControllerFeed`: the consumer and the refresher's ticker go on. `YamlSink`: goroutines go on,
the mutex starves no writer (strong fairness on `Wait`, as above), git commands end unless they
hang, a process that is down is started; nothing is assumed of the child of a killed push.
Nowhere is anything assumed of faults, users, publishers, time or signals; and properties that need a part of the world to work in the end say so in their premise
(`ControllerServes`, `WorkersRun`, `FilesTracked`, `QueueDrains`, `YamlSink`'s `StopEnds`,
`SinkConverges`, `RequestsSettle`).

What the violations say (each quotes the sentence it contradicts in `PROJECT.json`):

* `amqp_pair_livelock`: `consumeLoop` closes and redials the shared connection whether or not it is
  healthy. With the controller's two consumers, one fault can put them out of phase so that each
  one's reconnect ends the other's session, for ever.
* `delivery_shutdown`: after SIGTERM, deliveries that were buffered are handed to a handler whose
  statements fail at once, and are dropped instead of redelivered.
* `issue_cache_publish_loss`: the cache is saved before its issues are published; after one failing
  publish the rest of the run's issues are taken for unchanged for good.

Known limits that a property excludes by its wording:

* A controller consumer whose `EnsureQueue` fails is gone until the process restarts
  (`LoneConsumerResumes`, `SchemasStored`).
* With two replicas of persister-mysql an older observation can overwrite a newer acknowledged one,
  and concurrent `ALTER`s drop an entity (`AckedNotRegressed` and `NoNeedlessDrop` are stated for one).
* Updates of issues in the second of the latest update, during a listing, or beyond the listing's cap
  may stay unpublished until the next change (`raced` in `NewestPublished`).
* A changed cron line takes effect after the due time of the old one (`edited` in `NoTimeSkipped`),
  and a delayed report takes `last_run` and the next due time back to those of an earlier run until
  the next one (`RunNowRuns`, `DueIsServed`). A request made before its queue exists goes nowhere.
* A `GetConfig` that looked for a key before its first `SetConfig` may empty it (`early` in
  `SettingKept`).
* A migration left half-way blocks the start-up for good, or is taken for done if it is the last
  (`Migratable` in `ControllerServes`, `SchemaBeforeService`). A shutdown that fails may leave one so
  without any fault (`cut` in `CleanUnlessFault`).
* A worker that has fetched a wrong address keeps dialling it until restarted (`WorkersRun`); a
  schema published before the controller first declared the queue is lost until its collector
  restarts (`SchemasStored`).
* A source whose last run failed, not more than two intervals ago, is flagged stale once its success
  is an interval old (`BadgeJustified`). For less than a second after each threshold, and while its
  success is in the future, the gauge shows it stale and the sources page healthy (`BadgeIsGauge`).
* After a failing `git commit`, files stay staged until another file is new, and a tracked file that is
  written again is never listed as new: `FilesTracked` says that files come to be tracked, and
  nothing says that each version of them is committed.
* A push without end blocks the writes until the process is stopped, and the child of a killed push
  blocks them, and the end of a process that has a handler or the first sync waiting, for as long as
  it lives (`GitWorks` in `QueueDrains` and `FilesTracked`, `child` in `StopEnds`).
* A run of collector-jmap overtaken by another may publish older threads for a while, and any run may
  publish a thread as it was before a newer mail came back into the inbox (`overtaken` and `seen` in
  `NoRollback`). A row may count mails of another moment than the one it shows (`CountExplained`
  speaks of counts of none, `ReportedIsCurrent` of runs that nobody disturbed).
* A call of collector-jmap that never returns ends its polls, or leaves its request unsettled, until
  the process is restarted (`hung` in `SinkConverges`, `RequestsSettle`).
* A crash between acceptance and append loses a heartbeat's event along with the whole feed, which is
  in memory (`FeedFollows` is about the time since the start).

## 4. Proofs

Every invariant and every action property that a passing run checks is a theorem, except where it
says otherwise below. Each rests on an inductive invariant, named here with the reason why it is
needed, and on the named `ASSUME`s of the module it is about; every fact is proved for every value
of the constants that satisfies them.

`AmqpClient_proofs`, for any set of consumers, any finite or infinite supply of connection
identities and any number of faults:

* `ClientSafety`: `Spec => []Safety`, that is `TypeOK`, `NoConnectionLeak`, `NoStrandedChannel` and
  `ClosedForGood`.
* `PublishErrorsAreExplained`: `Spec => PublishErrorBlamed`.

The inductive invariant adds to these properties what they need of each other: the publish channel
is open only on a live connection, a channel belongs to a phase in which its consumer uses it, and
between `PublishEnsure` and the write the connection the publish found was live unless a fault has
happened since `blame` was taken (`mutexHeld` keeps reconnecting consumers out, which is the reason
why they never fail a publish). `ClosedForGood` needs that no publish is past
`ensureConnectedLocked` when `Close` takes the mutex. The only assumptions are the named `ASSUME`s
of `AmqpClient`.

`EntityDelivery_proofs`, for any set of replicas, any number of messages, faults, failing statements
and stops, any keys and fields, from `DeliveryAssumption` alone:

* `MessagesAreConserved`: `Spec => []Safety`, that is `TypeOK` and `Conservation`.
* `DeliveryImplements`: `Spec => ImplementsAtLeastOnce`, on the lemma `AckedIsApplied`.

`Conservation` is not inductive: `Ack` moves the handler's message from `unacked[r]` to `acked`,
which is right only if it is there. The inductive invariant `DeliveryInv` therefore adds `Session`:
an open channel's replica handles, now and next, distinct messages that the broker still holds as
unacknowledged on that channel, while the deliveries of a lost channel, which the handler goes on
with, settle nothing. It also adds `Stored` (acknowledged implies stored, stored implies queued),
for which a handler about to acknowledge must have stored its message on this very pass. For the
refinement, `Publish` is `Accept` (or nothing, if the queue is not bound yet), `Upsert` is `Effect`,
`Ack` and `Nack` on an open channel are `Complete` and `Drop`, and all else stutters.

Two more hold of one replica only, and have `OneReplica` (any two replicas are the same) as their
hypothesis, as the run `delivery_single` has. Both are false of two: they take a row back, since the
upsert never compares the times of two observations, and lose an entity to a concurrent
`ALTER TABLE`, of which `src/docs/content/services/persister-mysql.md:48` warns.

* `OneReplicaKeepsOrder`: `Spec => []AckedNotRegressed`. It is not inductive: an upsert may write an
  older message, and nothing in it says that what is acknowledged is older still. `OrderInv` adds
  that whatever waits in the queue or with the replica is newer than all that is acknowledged,
  that the replica handles in the order of the queue (on an open channel nothing waits that is
  older than what it handles), and that the row of the message it is about to acknowledge is no
  older than that message.
* `DropsArePaidFor`: `Spec => [](stops = 0 => NoNeedlessDrop)`. `DropInv` counts one failed statement
  for each well-formed message dropped and one more for the one about to be, and knows of the columns the
  replica has read that they are those of the table, so that an upsert never misses one by itself.
  With a stop the statement is false, which is what the run `delivery_shutdown` shows.

`CollectionRuns_proofs`, for any number of sources, any cron lines (periods), edits, requests and
faults, from `CollectionAssumption` and `NoRowAssumption`:

* `EditsOutliveRuns`: `Spec => []Safety`, that is `TypeOK` and `EditsSurvive`.
* `SchedulesAreFollowed`: `Spec => []NoTimeSkipped`.

The second is not inductive: a report writes a due time that was computed from a copy of the row.
`RunsInv` therefore follows the copies: a source that kept its line has that line in the listing, in
every queued request and in both runs (`CopiesInv`), and a report under way names no time after the
next of the run's line (`ReportsInv`), which stays true as time passes because the next time of a
schedule only moves forward (`NextDueMonotone`).

`IssueCache_proofs`, for any number of goroutines and issues, any caps, updates and faults:

* `CacheIsSafe`: `Spec => []Safety`, that is `TypeOK` and `CachedIsHandled`.

`CachedIsHandled` speaks of the file, and a rename puts there whatever is in the temporary file,
which another goroutine may have written. `Held` (in `CacheInv`) therefore accounts for every revision
in the file, in the temporary file and in each run's own cache: it has been published, was given
up by a failed run, or belongs to a run that has merged it and not ended. A run that still fetches
accounts for nothing, as it may lose what it has fetched without a trace. `Stamped` bounds GitHub's
times by the number of updates, for the types of a merged cache.

`MailThreads_proofs`, for any mails, threads, limit, runs' overlaps, moves and faults:

* `MailIsShown`: `Spec => []Safety`, that is `TypeOK`, `CountExplained` and `ReportedIsCurrent`.
* `MailGoesForward`: `Spec => NoRollback`.

What a run publishes was read calls before, so `MailInv` follows each run's mails and rows: a row of a
run that publishes already explains its count (`Named`); while nobody has touched the mailbox the
run's mails are the newest ones (`Untouched`), and while nobody overtook it what it has published
is in the sink (`Reported`); while nobody overtook it, what it will publish is no older than the row
it replaces, if the mail of that row was in the inbox that it found (`Newer`), wherever either mail
has been moved since. That the newest threads are
not more than the limit is proved with cardinalities (`TopIsNamed`), not assumed.

`ControllerStartup_proofs`, for any workers, migrations, edits, faults and stops:

* `StartupIsSafe`: `Spec => []Safety`, that is `TypeOK`, `SchemaBeforeService` and `CleanUnlessFault`.
* `SettingsAreKept`: `Spec => SettingKept`.

`StartInv` says what the recorded version is worth: a clean schema is whole up to it, a dirty one up
to it or to the one before (`Migrated`), and a dirty one without a fault is being migrated or was cut
off by a failed shutdown. For the settings, the handlers about to create a key that
has a row by now are exactly those in `early` (`Looked`). `Catalogued` bounds the schemas queued by
the faults there were, which `TypeOK` needs.

`YamlSink_proofs`, for any files, entities, faults and stops:

* `SinkIsSafe`: `Spec => []Safety`, that is `TypeOK`, `FilesWhole` and `SyncIsStill`.
* `AcknowledgedIsWritten`: `Spec => []AckedOnDisk`.
* `StagedIsCommitted`: `Spec => []StagedUnlessFault`.

`SinkInv` joins an invariant of the stream and one of the repository. The stream: the queue is in
order of publishing and newer than what is settled, the handler's entity is in it (the next one,
unless its channel is lost), and what the handler is done with is on disk; without the order, a
redelivered entity could take a file back. The repository: `mu` is held by git exactly while a
command runs, which is what keeps the work tree still.

`ControllerFeed_proofs`, about the ring by itself, for any capacity, gap, limits, services and times,
from `RingAssumption`:

* `RingInvariant`: `full`, `next` and `seq` agree, and each slot holds the event its position says.
* `ReadersGetNewest`: `NewestFirst`, for every limit.
* `FeedIsThrottled`: `Throttled`. It needs that `lastHB` bounds the newest heartbeat in the feed, and
  the one accepted but not appended is a gap later.
* `RingImplementsHistory`: the ring implements `BoundedHistory`, with the mapping that reads all of it.

The same module, about its use in the controller, for any services, window, gap, capacity, calls and
faults:

* `FeedInvariant`, the inductive invariant; `FeedIsSafe`: `Spec => []Safety`; `HealthyIsAlive`
  (`HealthyHasBeaten`), `FeedIsCurrent` (`FeedFollows`) and `AcknowledgedStays` (`SettledKept`) follow.
* `ControllerUsesRing`: each step of the controller is a step of the ring or leaves it alone, by which
  the theorems about the ring hold of it in the controller (`ControllerFeedIsHistory`).
* `BadgeIsSound` (`BadgeJustified`) and `GaugeIsBadge` (`BadgeIsGauge`), for any intervals, any unit of
  time and both clocks. They rest on `WholeSeconds`: cutting an age to whole seconds takes less than
  a second off it, and never takes it across a threshold that is itself in whole seconds.

The invariant says where each heartbeat of the queue stands: those handled and not yet settled are
in the table or behind a newer one, the row is the last of them, and none is ahead of the service.

Model-checked only: liveness (`PublishReturns`, `LoneConsumerResumes`, `ShutdownQuiesces`,
`Settles`, `NewestPublished`, `DueIsServed`, `RunNowRuns`, `ControllerServes`, `WorkersRun`,
`SchemasStored`, `StopEnds`, `SilenceAlerts`, `FilesTracked`, `QueueDrains`, `SinkConverges`,
`RequestsSettle`), since it rests on fairness, which is out of the prover's reach. Induction over a
recursive definition is out of it too; the models have none the proofs need, and where a least
element of a set of numbers is needed (`IssueCache`, `MailThreads`) it comes from the well-founded
order of the naturals.

## 5. Not modelled, and the plan

Left out for good: payload mapping and parsing (stateless, unit-tested), the MCP server and the
frontend (forwarding and views), generated code, collector-testdata and collector-azure (a timer
and a stub), read-only RPCs and the counts exported beside the health gauges. Two hazards have no
property: fields that normalise to one column, which are a malformed message in effect, and gauges
of deleted sources, which no step of the code removes.

What is worth doing next, in order:

1. What the liveness properties rest on, as invariants and action properties that can be proved:
   that a measure (unsettled messages, faults left, steps of a run) never grows without a fault.
2. That `AmqpClient`'s reconnects and the channel losses of `EntityDelivery` are the same events: a
   mapping of one consumer of the client to one replica of the pipeline.
3. An abstract specification of the sink (per entity, the newest acknowledged observation) that
   both `EntityDelivery` with one replica and `YamlSink` implement.
