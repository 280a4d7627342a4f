--------------------------- MODULE ControllerStartup ---------------------------
(***************************************************************************)
(* How an IceHive deployment comes up: the controller migrates its         *)
(* database, publishes it to the RPC handlers and connects to RabbitMQ     *)
(* (controller/main.go runControllerBackend, internal/db/migrate.go);      *)
(* workers fetch their settings key by key through GetConfig, connect and  *)
(* start to work (bootstrap.go, collector/run.go, persist/run.go); an      *)
(* operator enters settings with SetConfig while all of this is going on.  *)
(* A collector that has connected publishes the schema of its source form, *)
(* which the controller stores (common/pkg/sourceschema,                   *)
(* controller/source_schema_handle.go).                                    *)
(*                                                                         *)
(* An address, of the broker or of the sink database, is "wrong", "right"  *)
(* or empty.  Steps that fail and are retried after a pause without        *)
(* changing anything are no steps.                                         *)
(***************************************************************************)
EXTENDS Naturals

CONSTANTS
    Workers,      \* collector and persister processes
    Persisters,   \* those that need the sink database
    Last,         \* migrations 1..Last
    Absent,       \* no row for the key
    MaxEdits,     \* bound: SetConfig calls
    MaxFaults,    \* bound: crashes, outages, failing statements and calls
    MaxStops      \* bound: graceful shutdowns of the controller

ASSUME StartupAssumption ==
    /\ Persisters \subseteq Workers
    /\ Last \in Nat \ {0}
    /\ MaxEdits \in Nat /\ MaxFaults \in Nat /\ MaxStops \in Nat

Versions == 1..Last
Collectors == Workers \ Persisters
Url == "amqp.url"
Host == "amqp.host"
Sink == "persister_mysql.host"
Keys == {Url, Host, Sink}
Values == {"", "wrong", "right"}
ASSUME AbsentAssumption == Absent \notin Values

VARIABLES
    configured,  \* config.yaml names the database
    mysqlUp,     \* the database answers
    version,     \* schema_migrations.version
    dirty,       \* schema_migrations.dirty
    whole,       \* history: migrations whose statements have all run
    cut,         \* history: a shutdown has not waited for a migration
    phase,       \* where the controller's start-up goroutine is
    current,     \* RunMigrations: the version its loop has reached
    stopping,    \* the controller's context is done
    meta,        \* icehive_meta: the value of each key, or Absent
    entered,     \* history: what the operator last entered for each key
    early,       \* early[k]: GetConfig handlers that looked for k before its row existed
    pc,          \* pc[w]: where worker w is
    key,         \* key[w]: the key w fetches
    boot,        \* boot[w]: the settings w has fetched
    bound,       \* the queue of source schemas exists
    consumer,    \* the controller's goroutine that consumes them
    queued,      \* queued[w]: how many schemas of collector w are in the queue
    stored,      \* collectors whose schema is in the table
    edits, faults, stops   \* bounds' counters

schema == <<version, dirty, whole, cut>>
controller == <<phase, current, stopping>>
table == <<meta, entered, early>>
workers == <<pc, key, boot>>
catalog == <<bound, consumer, queued, stored>>
vars == <<configured, mysqlUp, schema, controller, table, workers, catalog, edits, faults, stops>>

Phases == {"down", "retry", "migrate", "apply", "amqp", "serving"}
WorkerPhases == {"ask", "create", "connect", "running"}
NoBoot == [url |-> "", sink |-> ""]

\* Type invariant.  Only a handler's GetConfig has looked for a missing key.
TypeOK ==
    /\ configured \in BOOLEAN /\ mysqlUp \in BOOLEAN
    /\ version \in 0..Last /\ dirty \in BOOLEAN /\ whole \in SUBSET Versions /\ cut \in BOOLEAN
    /\ phase \in Phases /\ current \in 0..Last /\ stopping \in BOOLEAN
    /\ meta \in [Keys -> Values \cup {Absent}]
    /\ entered \in [Keys -> Values \cup {Absent}]
    /\ early \in [Keys -> SUBSET Workers]
    /\ pc \in [Workers -> WorkerPhases]
    /\ key \in [Workers -> Keys]
    /\ boot \in [Workers -> [url : Values, sink : Values]]
    /\ \A k \in Keys : \A w \in early[k] : pc[w] = "create" /\ key[w] = k
    /\ bound \in BOOLEAN /\ consumer \in {"none", "consuming", "gone"}
    /\ queued \in [Collectors -> 0..(MaxFaults + 1)] /\ stored \in SUBSET Collectors
    /\ consumer # "none" => phase = "serving"
    /\ edits \in 0..MaxEdits /\ faults \in 0..MaxFaults /\ stops \in 0..MaxStops

\* A new deployment, or the upgrade of one by any number of migrations.
Init ==
    /\ configured \in BOOLEAN
    /\ mysqlUp = TRUE
    /\ version \in 0..Last /\ dirty = FALSE /\ whole = 1..version /\ cut = FALSE
    /\ phase = "down" /\ current = 0 /\ stopping = FALSE
    /\ meta = [k \in Keys |-> Absent] /\ entered = meta
    /\ early = [k \in Keys |-> {}]
    /\ pc = [w \in Workers |-> "ask"]
    /\ key = [w \in Workers |-> Url]
    /\ boot = [w \in Workers |-> NoBoot]
    /\ bound = FALSE /\ consumer = "none"
    /\ queued = [w \in Collectors |-> 0] /\ stored = {}
    /\ edits = 0 /\ faults = 0 /\ stops = 0

Fault == faults < MaxFaults /\ faults' = faults + 1 /\ UNCHANGED <<edits, stops>>
NoFault == UNCHANGED <<edits, faults, stops>>
Goto(p) == phase' = p /\ UNCHANGED stopping

\* metaDB: the pool the handlers use, set once the database is ready; it is closed with the
\* start-up goroutine.  A query needs the database besides.
Serving == phase \in {"amqp", "serving"}
Answers == Serving /\ mysqlUp

-----------------------------------------------------------------------------
(***************************************************************************)
(* Migrations: RunMigrations inside the retry loop of openMySQLUntilReady. *)
(***************************************************************************)

MysqlFails ==
    /\ mysqlUp /\ mysqlUp' = FALSE
    /\ Fault
    /\ UNCHANGED <<configured, schema, controller, table, workers, catalog>>

MysqlRecovers ==
    /\ ~mysqlUp /\ mysqlUp' = TRUE
    /\ NoFault
    /\ UNCHANGED <<configured, schema, controller, table, workers, catalog>>

\* main: the HTTP server, and the goroutine that tries until the database is ready.
Start ==
    /\ phase = "down"
    /\ Goto("retry")
    /\ NoFault
    /\ UNCHANGED <<configured, mysqlUp, schema, current, table, workers, catalog>>

\* An attempt: the settings are there, and the version can be read.
Attempt ==
    /\ phase = "retry" /\ ~stopping
    /\ configured /\ mysqlUp
    /\ current' = version
    /\ Goto("migrate")
    /\ NoFault
    /\ UNCHANGED <<configured, mysqlUp, schema, table, workers, catalog>>

\* Does not look whether an earlier migration was left half-way.
BeginMigrationForced ==
    /\ phase = "migrate" /\ current < Last
    /\ IF mysqlUp
       THEN version' = current + 1 /\ dirty' = TRUE /\ Goto("apply")
       ELSE Goto("retry") /\ UNCHANGED <<version, dirty>>
    /\ NoFault
    /\ UNCHANGED <<configured, mysqlUp, whole, cut, current, table, workers, catalog>>

\* m.Migrate of the next version: refused while the schema is dirty, else the new version is
\* recorded as dirty before its statements run.
BeginMigration ==
    /\ phase = "migrate" /\ current < Last
    /\ IF mysqlUp /\ ~dirty
       THEN version' = current + 1 /\ dirty' = TRUE /\ Goto("apply")
       ELSE Goto("retry") /\ UNCHANGED <<version, dirty>>
    /\ NoFault
    /\ UNCHANGED <<configured, mysqlUp, whole, cut, current, table, workers, catalog>>

\* The statements of one migration, and the record that it is clean.  Either may fail: MySQL
\* commits each ALTER by itself, and nothing is undone.
ApplyMigration ==
    /\ phase = "apply"
    /\ \/ /\ mysqlUp /\ NoFault
          /\ whole' = whole \cup {version}
          /\ dirty' = FALSE /\ current' = version
          /\ Goto("migrate")
       \/ /\ IF mysqlUp THEN Fault ELSE NoFault
          /\ whole' = whole \/ (mysqlUp /\ whole' = whole \cup {version})
          /\ Goto("retry")
          /\ UNCHANGED <<dirty, current>>
    /\ UNCHANGED <<configured, mysqlUp, version, cut, table, workers, catalog>>

\* No version is left: open, ping, publish the pool to the handlers.  The ping fails with the
\* database or with a done context.
OpenDatabase ==
    /\ phase = "migrate" /\ current = Last
    /\ Goto(IF mysqlUp /\ ~stopping THEN "amqp" ELSE "retry")
    /\ NoFault
    /\ UNCHANGED <<configured, mysqlUp, schema, current, table, workers, catalog>>

-----------------------------------------------------------------------------
(***************************************************************************)
(* Settings.                                                               *)
(***************************************************************************)

Value(k) == IF meta[k] = Absent THEN "" ELSE meta[k]

\* Knows no settings but amqp.url.
AddressUrlOnly == Value(Url)

\* LoadAMQPBootstrapSettings: the address, or one assembled from the host; "" is an error.
Address == IF Value(Url) # "" THEN Value(Url) ELSE Value(Host)

\* openAMQUntilReady: reads the settings anew for each attempt.
ControllerConnects ==
    /\ phase = "amqp" /\ ~stopping
    /\ mysqlUp /\ Address = "right"
    /\ Goto("serving")
    /\ NoFault
    /\ UNCHANGED <<configured, mysqlUp, schema, current, table, workers, catalog>>

\* Handlers that have looked for k and not found it.
Looking(k) == {w \in Workers : pc[w] = "create" /\ key[w] = k}

\* SetMeta: an upsert.
SetMeta(k, v) ==
    /\ meta' = [meta EXCEPT ![k] = v]
    /\ early' = [early EXCEPT ![k] = IF meta[k] = Absent THEN Looking(k) ELSE @]

\* The operator's SetConfig.
SetConfig(k, v) ==
    /\ Answers
    /\ edits < MaxEdits /\ edits' = edits + 1 /\ UNCHANGED <<faults, stops>>
    /\ SetMeta(k, v)
    /\ entered' = [entered EXCEPT ![k] = v]
    /\ UNCHANGED <<configured, mysqlUp, schema, controller, workers, catalog>>

-----------------------------------------------------------------------------
(***************************************************************************)
(* Workers: fetchAt asks for one key after the other.                      *)
(***************************************************************************)

\* Keeps a fetch that found no address.
FinishFetchUnchecked(b) == [pc |-> "connect", key |-> Url, boot |-> b]

Restart == [pc |-> "ask", key |-> Url, boot |-> NoBoot]

\* The end of fetchAt: an empty address is an error, and the fetch is repeated.
FinishFetch(b) ==
    IF b.url = "" THEN Restart ELSE [pc |-> "connect", key |-> Url, boot |-> b]

Asks(k, b) == [pc |-> "ask", key |-> k, boot |-> b]

AfterBroker(w, b) == IF w \in Persisters THEN Asks(Sink, b) ELSE FinishFetch(b)

\* fetchAt goes on with what GetConfig returned.
Got(w, v) ==
    CASE key[w] = Url  -> IF v = "" THEN Asks(Host, boot[w])
                                    ELSE AfterBroker(w, [boot[w] EXCEPT !.url = v])
      [] key[w] = Host -> AfterBroker(w, [boot[w] EXCEPT !.url = v])
      [] key[w] = Sink -> FinishFetch([boot[w] EXCEPT !.sink = v])

\* ... or with its error: one about amqp.url ends the fetch, which is repeated after a
\* pause; one about the other keys is ignored, and the setting is taken to be empty.
GotError(w) == IF key[w] = Url THEN Restart ELSE Got(w, "")

Becomes(w, s) ==
    /\ pc' = [pc EXCEPT ![w] = s.pc]
    /\ key' = [key EXCEPT ![w] = s.key]
    /\ boot' = [boot EXCEPT ![w] = s.boot]

\* Takes an empty value for a missing one.
GetConfigByValue(w) ==
    /\ pc[w] = "ask"
    /\ \/ /\ Answers /\ Value(key[w]) # ""
          /\ Becomes(w, Got(w, meta[key[w]]))
       \/ /\ Answers /\ Value(key[w]) = ""
          /\ pc' = [pc EXCEPT ![w] = "create"]
          /\ UNCHANGED <<key, boot>>
       \/ ~Answers /\ Becomes(w, GotError(w))
    /\ NoFault
    /\ UNCHANGED <<configured, mysqlUp, schema, controller, table, catalog>>

\* GetConfig: the handler reads the key; when there is no row it goes on to create one.
GetConfig(w) ==
    /\ pc[w] = "ask"
    /\ \/ /\ Answers /\ meta[key[w]] # Absent
          /\ Becomes(w, Got(w, meta[key[w]]))
       \/ /\ Answers /\ meta[key[w]] = Absent
          /\ pc' = [pc EXCEPT ![w] = "create"]
          /\ UNCHANGED <<key, boot>>
       \/ ~Answers /\ Becomes(w, GotError(w))
    /\ NoFault
    /\ UNCHANGED <<configured, mysqlUp, schema, controller, table, catalog>>

\* SetMeta(key[w], "") by w's handler, which is done with that.
WriteEmpty(w) ==
    /\ meta' = [meta EXCEPT ![key[w]] = ""]
    /\ early' = [early EXCEPT ![key[w]] =
                    (IF meta[key[w]] = Absent THEN Looking(key[w]) ELSE @) \ {w}]

WriteNothing(w) == early' = [k \in Keys |-> early[k] \ {w}] /\ UNCHANGED meta

\* ... and writes the empty value over whatever is there by then.
CreateConfig(w) ==
    /\ pc[w] = "create"
    /\ IF Answers THEN WriteEmpty(w) /\ Becomes(w, Got(w, ""))
                  ELSE WriteNothing(w) /\ Becomes(w, GotError(w))
    /\ NoFault
    /\ UNCHANGED <<configured, mysqlUp, schema, controller, entered, catalog>>

\* The call fails or times out on its way; the handler may have finished.
CallFails(w) ==
    /\ pc[w] \in {"ask", "create"}
    /\ Fault
    /\ WriteNothing(w) \/ (pc[w] = "create" /\ Answers /\ WriteEmpty(w))
    /\ Becomes(w, GotError(w))
    /\ UNCHANGED <<configured, mysqlUp, schema, controller, entered, catalog>>

-----------------------------------------------------------------------------
(***************************************************************************)
(* Source schemas.                                                         *)
(***************************************************************************)

\* sourceschema.Publish: without a queue, or when it fails, which Work only logs, the schema is
\* gone.
PublishSchema(w) ==
    /\ queued' = IF bound THEN [queued EXCEPT ![w] = @ + 1] ELSE queued
    /\ UNCHANGED <<bound, consumer, stored>>

\* Consumes only a queue that it has created.
DeclareSchemasOnce ==
    /\ phase = "serving" /\ ~stopping /\ consumer = "none" /\ ~bound
    /\ bound' = TRUE /\ consumer' = "consuming"
    /\ NoFault
    /\ UNCHANGED <<configured, mysqlUp, schema, controller, table, workers, queued, stored>>

\* The goroutine declares the queue and consumes it; when EnsureQueue fails it returns for good.
DeclareSchemas ==
    /\ phase = "serving" /\ ~stopping /\ consumer = "none"
    /\ \/ bound' = TRUE /\ consumer' = "consuming" /\ NoFault
       \/ consumer' = "gone" /\ bound' \in {bound, TRUE} /\ Fault
    /\ UNCHANGED <<configured, mysqlUp, schema, controller, table, workers, queued, stored>>

\* UpsertCollectorSourceSchema, which fails with the database or with a done context.
Upsert(w) == stored' = stored \cup {w}
Upserts == mysqlUp /\ ~stopping

\* consumeJSONOnce: Ack, and Nack without requeue, take the schema off the queue.
Settled(w) == queued' = [queued EXCEPT ![w] = @ - 1]

\* handleCollectorSourceSchemaMessage: the schema is stored and acknowledged; or the upsert
\* fails and it is dropped; or it is redelivered since the Ack is lost.
HandleSchema(w) ==
    /\ consumer = "consuming" /\ queued[w] > 0
    /\ \/ Upserts /\ NoFault /\ Upsert(w) /\ Settled(w)
       \/ ~Upserts /\ NoFault /\ Settled(w) /\ UNCHANGED stored
       \/ Upserts /\ Fault /\ Settled(w) /\ UNCHANGED stored
       \/ Upserts /\ Fault /\ Upsert(w) /\ UNCHANGED queued
    /\ UNCHANGED <<configured, mysqlUp, schema, controller, table, workers, bound, consumer>>

-----------------------------------------------------------------------------
(***************************************************************************)
(* Workers connect and work.                                               *)
(***************************************************************************)

Runs(w) == [pc |-> "running", key |-> Url, boot |-> boot[w]]

\* waitForAMQPConnect, which keeps the settings it was given.
Connects(w) == pc[w] = "connect" /\ boot[w].url = "right"

\* collector.Main: Work publishes the schema, and goes on until the process ends.
CollectorConnects(w) ==
    /\ w \in Collectors /\ Connects(w)
    /\ Becomes(w, Runs(w))
    /\ \/ NoFault /\ PublishSchema(w)
       \/ Fault /\ UNCHANGED catalog
    /\ UNCHANGED <<configured, mysqlUp, schema, controller, table>>

\* openTargetDB: the settings are complete, and the sink answers.
OpensTarget(w) == boot[w].sink = "right"

\* persist.Main: Work opens the sink; when that fails the process exits, and its supervisor
\* starts it again.
PersisterConnects(w) ==
    /\ w \in Persisters /\ Connects(w)
    /\ Becomes(w, IF OpensTarget(w) THEN Runs(w) ELSE Restart)
    /\ NoFault
    /\ UNCHANGED <<configured, mysqlUp, schema, controller, table, catalog>>

WorkerCrashes(w) ==
    /\ pc[w] \in {"connect", "running"}
    /\ Fault
    /\ Becomes(w, Restart)
    /\ UNCHANGED <<configured, mysqlUp, schema, controller, table, catalog>>

-----------------------------------------------------------------------------
(***************************************************************************)
(* The controller ends, by a crash or by SIGTERM.                          *)
(***************************************************************************)

\* The calls in progress fail.
Down ==
    /\ phase' = "down" /\ current' = 0 /\ stopping' = FALSE
    /\ consumer' = "none" /\ UNCHANGED <<bound, queued, stored>>
    /\ early' = [k \in Keys |-> {}]
    /\ LET after(w) == IF pc[w] = "create" THEN GotError(w)
                       ELSE [pc |-> pc[w], key |-> key[w], boot |-> boot[w]]
       IN  /\ pc' = [w \in Workers |-> after(w).pc]
           /\ key' = [w \in Workers |-> after(w).key]
           /\ boot' = [w \in Workers |-> after(w).boot]

\* The database may still run the statements it was given.
Abandoned == whole' \in IF phase = "apply" THEN {whole, whole \cup {version}} ELSE {whole}

Crash ==
    /\ phase # "down"
    /\ Fault
    /\ Down /\ Abandoned
    /\ UNCHANGED <<configured, mysqlUp, version, dirty, cut, meta, entered>>

Terminate ==
    /\ phase # "down" /\ ~stopping
    /\ stops < MaxStops /\ stops' = stops + 1
    /\ stopping' = TRUE
    /\ UNCHANGED <<configured, mysqlUp, schema, phase, current, table, workers, edits, faults, catalog>>

\* The waits of the retry loops do not look at the context.
ExitConnected ==
    /\ stopping /\ phase = "serving"
    /\ Down
    /\ NoFault
    /\ UNCHANGED <<configured, mysqlUp, schema, meta, entered>>

\* The start-up goroutine sees the done context in its waits, never inside RunMigrations; main
\* waits for it once the HTTP server is down.
Exit ==
    /\ stopping /\ phase \in {"retry", "amqp", "serving"}
    /\ Down
    /\ NoFault
    /\ UNCHANGED <<configured, mysqlUp, schema, meta, entered>>

\* A request or a stream that stays open makes httpSrv.Shutdown fail after ten seconds: then
\* log.Fatal ends the process wherever the start-up goroutine is.
ShutdownFails ==
    /\ stopping
    /\ Down /\ Abandoned
    /\ cut' = (cut \/ phase = "apply")
    /\ NoFault
    /\ UNCHANGED <<configured, mysqlUp, version, dirty, meta, entered>>

-----------------------------------------------------------------------------

ControllerStep ==
    \/ Start \/ Attempt \/ BeginMigration \/ ApplyMigration \/ OpenDatabase
    \/ ControllerConnects \/ DeclareSchemas \/ Exit
    \/ \E w \in Collectors : HandleSchema(w)

WorkerStep(w) ==
    GetConfig(w) \/ CreateConfig(w) \/ CollectorConnects(w) \/ PersisterConnects(w)

Disturb ==
    \/ MysqlFails \/ Crash \/ Terminate \/ ShutdownFails
    \/ \E w \in Workers : CallFails(w) \/ WorkerCrashes(w)

Next ==
    \/ ControllerStep \/ MysqlRecovers
    \/ \E k \in Keys, v \in Values : SetConfig(k, v)
    \/ \E w \in Workers : WorkerStep(w)
    \/ Disturb

Spec == Init /\ [][Next]_vars

\* Every retry loop is tried again, an outage ends, and supervisors restart what has ended; a
\* shutdown need not fail.
FairSpec ==
    /\ Spec
    /\ WF_vars(ControllerStep) /\ WF_vars(MysqlRecovers)
    /\ \A w \in Workers : WF_vars(WorkerStep(w))

-----------------------------------------------------------------------------
(***************************************************************************)
(* Properties.                                                             *)
(***************************************************************************)

\* The handlers get the database only with every migration applied in full, through any series
\* of crashes, outages, failing statements and retries; except that a last migration left
\* half-way is taken for done, since RunMigrations never looks at the dirty flag it reads.
SchemaBeforeService == Serving => whole = Versions \/ (whole = 1..(Last - 1) /\ dirty)

\* The schema is left dirty by a fault only, or by a shutdown that fails while a migration runs:
\* one that goes well waits for it (main waits for backendDone, RunMigrations does not look at the
\* context).
CleanUnlessFault == faults = 0 /\ ~cut /\ dirty => phase = "apply"

\* The start-up goes through whole migrations only.
Safety == TypeOK /\ SchemaBeforeService /\ CleanUnlessFault

\* A setting the operator has entered is there until entered again.  Only a GetConfig that had
\* looked for the key before its first row existed may still empty it ("creates it with empty
\* value when missing").
SettingKept ==
    [][\A k \in Keys :
        entered[k] = entered'[k] /\ entered[k] = meta[k] /\ meta[k] \notin {meta'[k], Absent}
            => early[k] # {}]_meta

\* Settings with which everything can work, entered and kept, on a schema that can be migrated.
BrokerSet == meta[Url] = "right" \/ (meta[Url] \in {"", Absent} /\ meta[Host] = "right")
Migratable == configured /\ (dirty /\ phase # "apply" => version = Last)

\* The controller gets through to RabbitMQ whatever happened before, once the settings are
\* right: those it has tried before are read again.
ControllerServes == <>[](Migratable /\ BrokerSet) => <>[](phase = "serving")

\* ... and so do the workers, but for those that hold a wrong address from before, which they
\* never fetch again.
WorkersRun ==
    <>[](Migratable /\ BrokerSet /\ meta[Sink] = "right") =>
        <>[](\A w \in Workers : pc[w] = "running" \/ boot[w].url = "wrong")

\* A schema that has reached the queue gets into the table, in any order of starts and restarts;
\* only a failing database, a stop or a fault costs it.  One published before the controller
\* first declared the queue is lost until its collector starts again, and nothing consumes the
\* queue of a controller whose EnsureQueue failed.
SchemasStored ==
    /\ [][\A w \in Collectors :
           queued'[w] < queued[w] => w \in stored' \/ ~Upserts \/ faults' > faults]_queued
    /\ <>[](Migratable /\ BrokerSet) =>
           \A w \in Collectors : []<>(queued[w] = 0) \/ <>[](consumer = "gone")

\* A stop ends the process wherever its start-up is.
StopEnds == stopping ~> ~stopping
=============================================================================
