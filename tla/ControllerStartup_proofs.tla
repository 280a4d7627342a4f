----------------------- MODULE ControllerStartup_proofs -----------------------
(***************************************************************************)
(* The start-up of an IceHive deployment, for any workers, migrations,     *)
(* edits and faults: requests are served on a whole schema only, and a     *)
(* setting that was entered is not emptied by those who look for it.       *)
(***************************************************************************)
EXTENDS ControllerStartup, TLAPS

-----------------------------------------------------------------------------
(***************************************************************************)
(* The inductive invariant.                                                *)
(***************************************************************************)

Boots == [url : Values, sink : Values]

\* RunMigrations is at the version it has read; the schema is whole up to the recorded version, or,
\* while it is dirty, up to that version or the one before.
Migrated ==
    /\ version \in 0..Last /\ dirty \in BOOLEAN /\ current \in 0..Last
    /\ phase \in Phases /\ stopping \in BOOLEAN
    /\ configured \in BOOLEAN /\ mysqlUp \in BOOLEAN /\ cut \in BOOLEAN
    /\ ~dirty => whole = 1..version
    /\ dirty => version # 0 /\ whole \in {1..(version - 1), 1..version}
    /\ phase = "apply" => dirty
    /\ phase = "migrate" => current = version
    /\ Serving => version = Last

\* What goes wrong goes wrong by a fault, or by a shutdown that fails.
Faulted == CleanUnlessFault /\ (~mysqlUp => faults # 0)

FetchTypes ==
    /\ meta \in [Keys -> Values \cup {Absent}]
    /\ entered \in [Keys -> Values \cup {Absent}]
    /\ early \in [Keys -> SUBSET Workers]
    /\ pc \in [Workers -> WorkerPhases]
    /\ key \in [Workers -> Keys]
    /\ boot \in [Workers -> Boots]

\* The handlers that are about to create a key which has a row by now are those counted as early.
Looked ==
    \A w \in Workers, k \in Keys :
        /\ w \in early[k] => pc[w] = "create" /\ key[w] = k
        /\ pc[w] = "create" /\ key[w] = k /\ meta[k] # Absent => w \in early[k]

\* A collector publishes its schema once, and once more after each fault.
Catalogued ==
    /\ bound \in BOOLEAN /\ consumer \in {"none", "consuming", "gone"} /\ stored \in SUBSET Collectors
    /\ consumer # "none" => phase = "serving"
    /\ queued \in [Collectors -> Nat]
    /\ \A w \in Collectors : queued[w] <= faults + (IF pc[w] = "running" THEN 1 ELSE 0)

BoundsOK == edits \in 0..MaxEdits /\ faults \in 0..MaxFaults /\ stops \in 0..MaxStops

StartInv == Migrated /\ Faulted /\ FetchTypes /\ Looked /\ Catalogued /\ BoundsOK

LEMMA InvSafe == StartInv => Safety
  <1> SUFFICES ASSUME StartInv PROVE Safety
    OBVIOUS
  <1> USE DEF StartInv
  <1>1. whole \in SUBSET Versions
    BY StartupAssumption DEF Migrated, Versions
  <1>2. \A k \in Keys : \A w \in early[k] : pc[w] = "create" /\ key[w] = k
    BY DEF Looked, FetchTypes
  <1>3. queued \in [Collectors -> 0..(MaxFaults + 1)]
    <2>1. \A w \in Collectors : queued[w] \in 0..(MaxFaults + 1)
      BY StartupAssumption DEF Catalogued, BoundsOK
    <2> QED BY <2>1 DEF Catalogued
  <1>4. TypeOK
    BY <1>1, <1>2, <1>3 DEF TypeOK, Migrated, FetchTypes, Catalogued, BoundsOK, Boots
  <1>5. SchemaBeforeService
    BY DEF SchemaBeforeService, Migrated, Versions
  <1> QED BY <1>4, <1>5 DEF Safety, Faulted

LEMMA InitInv == Init => StartInv
  <1> SUFFICES ASSUME Init PROVE StartInv
    OBVIOUS
  <1>1. Migrated /\ Faulted
    <2>1. /\ version \in 0..Last /\ dirty = FALSE /\ whole = 1..version /\ cut = FALSE
          /\ phase = "down" /\ current = 0 /\ stopping = FALSE
          /\ configured \in BOOLEAN /\ mysqlUp = TRUE
      BY DEF Init
    <2>2. Migrated
      <3>1. current \in 0..Last /\ phase \in Phases /\ phase \notin {"apply", "migrate"}
        BY <2>1, StartupAssumption DEF Phases
      <3>2. dirty \in BOOLEAN /\ stopping \in BOOLEAN /\ mysqlUp \in BOOLEAN /\ cut \in BOOLEAN /\ ~dirty
        BY <2>1
      <3>3. ~Serving
        BY <2>1 DEF Serving
      <3> QED BY <2>1, <3>1, <3>2, <3>3 DEF Migrated
    <2> QED BY <2>1, <2>2 DEF Faulted, CleanUnlessFault
  <1>2. FetchTypes
    BY DEF Init, FetchTypes, WorkerPhases, NoBoot, Boots, Values, Keys
  <1>3. Looked /\ Catalogued
    <2>1. /\ early = [k \in Keys |-> {}] /\ pc = [w \in Workers |-> "ask"]
          /\ bound = FALSE /\ consumer = "none" /\ faults = 0
          /\ queued = [w \in Collectors |-> 0] /\ stored = {}
      BY DEF Init
    <2>2. Looked
      BY <2>1 DEF Looked
    <2>3. \A w \in Collectors : w \in Workers /\ queued[w] = 0 /\ pc[w] = "ask"
      BY <2>1 DEF Collectors
    <2>4. queued \in [Collectors -> Nat] /\ \A w \in Collectors : queued[w] <= faults + 0
      BY <2>1
    <2> QED BY <2>1, <2>2, <2>3, <2>4 DEF Catalogued
  <1>4. BoundsOK
    BY StartupAssumption DEF Init, BoundsOK
  <1> QED BY <1>1, <1>2, <1>3, <1>4 DEF StartInv

-----------------------------------------------------------------------------
(***************************************************************************)
(* Steps that leave a part alone.                                          *)
(***************************************************************************)

LEMMA Counted ==
    ASSUME BoundsOK, Fault \/ NoFault
    PROVE  BoundsOK' /\ faults <= faults' /\ (Fault => faults < faults')
  BY StartupAssumption DEF BoundsOK, Fault, NoFault

LEMMA SchemaKept ==
    ASSUME Migrated, Faulted, BoundsOK, UNCHANGED <<configured, mysqlUp, schema, controller>>,
           faults' \in Nat, faults <= faults'
    PROVE  Migrated' /\ Faulted'
  BY DEF Migrated, Faulted, BoundsOK, CleanUnlessFault, Serving, schema, controller

LEMMA FetchKept ==
    ASSUME FetchTypes, Looked, UNCHANGED <<table, workers>>
    PROVE  FetchTypes' /\ Looked'
  BY DEF FetchTypes, Looked, table, workers

LEMMA CatalogKept ==
    ASSUME Catalogued, BoundsOK, UNCHANGED <<bound, queued, stored>>,
           faults' \in Nat, faults <= faults',
           consumer' = "none" \/ (consumer' = consumer /\ (phase = "serving" => phase' = "serving")),
           \A w \in Collectors : pc[w] = "running" => pc'[w] = "running" \/ faults < faults'
    PROVE  Catalogued'
  <1>1. \A w \in Collectors :
          queued'[w] <= faults' + (IF pc'[w] = "running" THEN 1 ELSE 0)
    <2> TAKE w \in Collectors
    <2>1. queued[w] \in Nat /\ queued[w] <= faults + (IF pc[w] = "running" THEN 1 ELSE 0) /\ faults \in Nat
      BY DEF Catalogued, BoundsOK
    <2>2. pc[w] = "running" => pc'[w] = "running" \/ faults < faults'
      OBVIOUS
    <2> QED BY <2>1, <2>2
  <1> QED BY <1>1 DEF Catalogued

-----------------------------------------------------------------------------
(***************************************************************************)
(* What a worker has fetched, and what its handler leaves behind.          *)
(***************************************************************************)

\* Where a worker can go from a call of GetConfig, or from a failure.
Moves == [pc : {"ask", "connect", "running"}, key : Keys, boot : Boots]

LEMMA FetchMoves ==
    ASSUME FetchTypes, NEW w \in Workers
    PROVE  /\ \A v \in Values : Got(w, v) \in Moves /\ Got(w, v).pc # "running"
           /\ GotError(w) \in Moves /\ GotError(w).pc # "running"
           /\ Restart \in Moves /\ Runs(w) \in Moves
  <1>1. key[w] \in {Url, Host, Sink} /\ boot[w] \in Boots /\ "" \in Values
    BY DEF FetchTypes, Keys, Values
  <1>2. Restart \in Moves /\ Runs(w) \in Moves
    BY <1>1 DEF Restart, Runs, Moves, Keys, NoBoot, Boots, Values
  <1>3. \A b \in Boots : FinishFetch(b) \in Moves /\ FinishFetch(b).pc # "running"
    BY <1>2 DEF FinishFetch, Restart, Moves, Keys
  <1>4. \A b \in Boots : AfterBroker(w, b) \in Moves /\ AfterBroker(w, b).pc # "running"
    BY <1>3 DEF AfterBroker, Asks, Moves, Keys
  <1>5. ASSUME NEW v \in Values
        PROVE  Got(w, v) \in Moves /\ Got(w, v).pc # "running"
    <2>1. [boot[w] EXCEPT !.url = v] \in Boots /\ [boot[w] EXCEPT !.sink = v] \in Boots
      BY <1>1 DEF Boots
    <2>2. Asks(Host, boot[w]) \in Moves /\ Asks(Host, boot[w]).pc # "running"
      BY <1>1 DEF Asks, Moves, Keys
    <2>3. CASE key[w] = Url
      BY <1>4, <2>1, <2>2, <2>3 DEF Got, Url, Host, Sink
    <2>4. CASE key[w] = Host
      BY <1>4, <2>1, <2>4 DEF Got, Url, Host, Sink
    <2>5. CASE key[w] = Sink
      BY <1>3, <2>1, <2>5 DEF Got, Url, Host, Sink
    <2> QED BY <1>1, <2>3, <2>4, <2>5
  <1>6. GotError(w) \in Moves /\ GotError(w).pc # "running"
    BY <1>1, <1>2, <1>5 DEF GotError, Restart
  <1> QED BY <1>2, <1>5, <1>6

LEMMA BecomesTypes ==
    ASSUME FetchTypes, NEW w \in Workers, NEW s \in Moves, Becomes(w, s)
    PROVE  /\ pc' \in [Workers -> WorkerPhases] /\ key' \in [Workers -> Keys]
           /\ boot' \in [Workers -> Boots]
           /\ pc'[w] = s.pc /\ pc'[w] # "create"
           /\ \A x \in Workers \ {w} : pc'[x] = pc[x] /\ key'[x] = key[x]
  <1>1. s.pc \in {"ask", "connect", "running"} /\ s.key \in Keys /\ s.boot \in Boots
    BY DEF Moves
  <1> QED BY <1>1 DEF Becomes, FetchTypes, WorkerPhases

\* A worker that is in no handler moves on.
LEMMA MoveKeeps ==
    ASSUME FetchTypes, Looked, NEW w \in Workers, NEW s \in Moves, Becomes(w, s),
           pc[w] # "create", UNCHANGED table
    PROVE  FetchTypes' /\ Looked'
  <1>1. /\ pc' \in [Workers -> WorkerPhases] /\ key' \in [Workers -> Keys]
        /\ boot' \in [Workers -> Boots] /\ pc'[w] # "create"
        /\ \A x \in Workers \ {w} : pc'[x] = pc[x] /\ key'[x] = key[x]
    BY BecomesTypes
  <1>2. UNCHANGED <<meta, entered, early>>
    BY DEF table
  <1>3. FetchTypes'
    BY <1>1, <1>2 DEF FetchTypes
  <1>4. Looked'
    BY <1>1, <1>2 DEF Looked
  <1> QED BY <1>3, <1>4

\* w's handler ends, with or without having written.
LEMMA HandlerEnds ==
    ASSUME FetchTypes, Looked, NEW w \in Workers, NEW s \in Moves, Becomes(w, s),
           UNCHANGED entered,
           WriteNothing(w) \/ (pc[w] = "create" /\ WriteEmpty(w))
    PROVE  FetchTypes' /\ Looked'
  <1>1. /\ pc' \in [Workers -> WorkerPhases] /\ key' \in [Workers -> Keys]
        /\ boot' \in [Workers -> Boots] /\ pc'[w] # "create"
        /\ \A x \in Workers \ {w} : pc'[x] = pc[x] /\ key'[x] = key[x]
    BY BecomesTypes
  <1>2. CASE WriteNothing(w)
    <2>1. meta' = meta /\ early' = [k \in Keys |-> early[k] \ {w}]
      BY <1>2 DEF WriteNothing
    <2>2. FetchTypes'
      BY <1>1, <2>1 DEF FetchTypes
    <2>3. Looked'
      BY <1>1, <2>1 DEF Looked
    <2> QED BY <2>2, <2>3
  <1>3. CASE pc[w] = "create" /\ WriteEmpty(w)
    <2> DEFINE k0 == key[w]
               new == (IF meta[k0] = Absent THEN Looking(k0) ELSE early[k0]) \ {w}
    <2>1. k0 \in Keys /\ early[k0] \in SUBSET Workers /\ Looking(k0) \in SUBSET Workers
      BY DEF FetchTypes, Looking
    <2>2. meta' = [meta EXCEPT ![k0] = ""] /\ early' = [early EXCEPT ![k0] = new]
      BY <1>3 DEF WriteEmpty
    <2>3. \A x \in Workers : x \in Looking(k0) <=> pc[x] = "create" /\ key[x] = k0
      BY DEF Looking
    <2>4. new \in SUBSET Workers
      BY <2>1
    <2>5. \A x \in Workers : x \in new => x # w /\ pc[x] = "create" /\ key[x] = k0
      BY <2>1, <2>3 DEF Looked
    <2>6. \A x \in Workers \ {w} : pc[x] = "create" /\ key[x] = k0 => x \in new
      BY <2>1, <2>3 DEF Looked
    <2>7. meta'[k0] = "" /\ early'[k0] = new
          /\ \A k \in Keys \ {k0} : meta'[k] = meta[k] /\ early'[k] = early[k]
      BY <2>1, <2>2 DEF FetchTypes
    <2>8. meta' \in [Keys -> Values \cup {Absent}] /\ early' \in [Keys -> SUBSET Workers]
      <3> HIDE DEF new
      <3> QED BY <2>1, <2>2, <2>4 DEF FetchTypes, Values
    <2>9. FetchTypes'
      BY <1>1, <2>8 DEF FetchTypes
    <2>10. Looked'
      <3> HIDE DEF new
      <3> SUFFICES ASSUME NEW x \in Workers, NEW k \in Keys
                   PROVE  /\ x \in early'[k] => pc'[x] = "create" /\ key'[x] = k
                          /\ pc'[x] = "create" /\ key'[x] = k /\ meta'[k] # Absent => x \in early'[k]
        BY DEF Looked
      <3>1. CASE k = k0
        BY <1>1, <2>5, <2>6, <2>7, <3>1
      <3>2. CASE k # k0
        <4>1. meta'[k] = meta[k] /\ early'[k] = early[k]
          BY <2>7, <3>2
        <4>2. CASE x = w
          BY <1>1, <1>3, <3>2, <4>1, <4>2 DEF Looked
        <4>3. CASE x # w
          BY <1>1, <4>1, <4>3 DEF Looked
        <4> QED BY <4>2, <4>3
      <3> QED BY <3>1, <3>2
    <2> QED BY <2>9, <2>10
  <1> QED BY <1>2, <1>3

-----------------------------------------------------------------------------
(***************************************************************************)
(* The controller's steps.                                                 *)
(***************************************************************************)

\* A step of the controller's alone: what remains to be shown is that the schema goes along.
LEMMA ControllerKeeps ==
    ASSUME StartInv, UNCHANGED <<table, workers, catalog>>, Fault \/ NoFault,
           phase = "serving" => phase' = "serving", Migrated', Faulted'
    PROVE  StartInv'
  <1> USE DEF StartInv
  <1>1. BoundsOK' /\ faults <= faults' /\ faults' \in Nat
    BY Counted DEF BoundsOK
  <1>2. FetchTypes' /\ Looked'
    BY FetchKept
  <1>3. Catalogued'
    BY <1>1, CatalogKept DEF catalog, workers
  <1> QED BY <1>1, <1>2, <1>3

LEMMA MysqlKeeps ==
    ASSUME StartInv, MysqlFails \/ MysqlRecovers
    PROVE  StartInv'
  <1> USE DEF StartInv
  <1>1. UNCHANGED <<configured, schema, controller, table, workers, catalog>> /\ mysqlUp' \in BOOLEAN
    BY DEF MysqlFails, MysqlRecovers
  <1>2. Fault \/ (NoFault /\ mysqlUp' = TRUE)
    BY DEF MysqlFails, MysqlRecovers
  <1>3. Migrated'
    BY <1>1 DEF Migrated, Serving, schema, controller
  <1>4. Faulted'
    BY <1>1, <1>2 DEF Faulted, BoundsOK, CleanUnlessFault, Fault, NoFault, schema, controller
  <1>5. phase' = phase
    BY <1>1 DEF controller
  <1> QED BY <1>1, <1>2, <1>3, <1>4, <1>5, ControllerKeeps

\* Steps of the start-up that leave the schema alone.
LEMMA StartupKeeps ==
    ASSUME StartInv, Start \/ Attempt \/ OpenDatabase \/ ControllerConnects
    PROVE  StartInv'
  <1> USE DEF StartInv
  <1>1. UNCHANGED <<configured, mysqlUp, schema, table, workers, catalog, stopping>> /\ NoFault
    BY DEF Start, Attempt, OpenDatabase, ControllerConnects, Goto
  <1>2. /\ phase \notin {"apply", "serving"}
        /\ \/ phase' = "retry" /\ current' = current
           \/ phase' = "migrate" /\ current' = version
           \/ phase' = "amqp" /\ current' = current /\ phase = "migrate" /\ current = Last
           \/ phase' = "serving" /\ current' = current /\ phase = "amqp"
    BY DEF Start, Attempt, OpenDatabase, ControllerConnects, Goto
  <1>3. Migrated'
    BY <1>1, <1>2 DEF Migrated, Serving, Phases, schema
  <1>4. Faulted'
    BY <1>1, <1>2 DEF Faulted, CleanUnlessFault, NoFault, schema
  <1> QED BY <1>1, <1>2, <1>3, <1>4, ControllerKeeps

\* A migration starts on a clean schema only, and leaves one version more.
LEMMA MigrationKeeps ==
    ASSUME StartInv, BeginMigration \/ ApplyMigration
    PROVE  StartInv'
  <1> USE DEF StartInv
  <1>1. UNCHANGED <<configured, mysqlUp, cut, table, workers, catalog, stopping>>
    BY DEF BeginMigration, ApplyMigration, Goto
  <1>2. Last \in Nat /\ version \in 0..Last /\ current \in 0..Last
    BY StartupAssumption DEF Migrated
  <1>3. ASSUME BeginMigration
        PROVE  Migrated' /\ Faulted' /\ phase # "serving" /\ NoFault
    <2>1. NoFault /\ UNCHANGED <<whole, current>> /\ phase = "migrate" /\ current < Last /\ current = version
      BY <1>3 DEF BeginMigration, Migrated
    <2>2. \/ ~dirty /\ version' = version + 1 /\ dirty' = TRUE /\ phase' = "apply"
          \/ (~mysqlUp \/ dirty) /\ version' = version /\ dirty' = dirty /\ phase' = "retry"
      BY <1>3, <2>1 DEF BeginMigration, Goto
    <2>3. Migrated'
      <3>1. CASE ~dirty /\ version' = version + 1 /\ dirty' = TRUE /\ phase' = "apply"
        <4>1. version' \in 0..Last /\ version' # 0 /\ whole' = 1..(version' - 1)
          BY <1>2, <2>1, <3>1 DEF Migrated
        <4> QED BY <1>1, <2>1, <3>1, <4>1 DEF Migrated, Serving, Phases
      <3>2. CASE version' = version /\ dirty' = dirty /\ phase' = "retry"
        BY <1>1, <2>1, <3>2 DEF Migrated, Serving, Phases
      <3> QED BY <2>2, <3>1, <3>2
    <2>4. Faulted'
      BY <1>1, <2>1, <2>2 DEF Faulted, CleanUnlessFault, NoFault
    <2> QED BY <2>1, <2>3, <2>4
  <1>4. ASSUME ApplyMigration
        PROVE  Migrated' /\ Faulted' /\ phase # "serving" /\ (Fault \/ NoFault)
    <2>1. phase = "apply" /\ version' = version /\ dirty = TRUE /\ version # 0
      BY <1>4 DEF ApplyMigration, Migrated
    <2>2. /\ whole' = whole \/ whole' = whole \cup {version}
          /\ \/ NoFault /\ whole' = whole \cup {version} /\ dirty' = FALSE /\ current' = version /\ phase' = "migrate"
             \/ (Fault \/ (NoFault /\ ~mysqlUp)) /\ dirty' = dirty /\ current' = current /\ phase' = "retry"
      BY <1>4 DEF ApplyMigration, Goto
    <2>3. whole \cup {version} = 1..version
      BY <1>2, <2>1 DEF Migrated
    <2>4. Migrated'
      BY <1>1, <1>2, <2>1, <2>2, <2>3 DEF Migrated, Serving, Phases
    <2>5. Faulted'
      BY <1>1, <2>2 DEF Faulted, CleanUnlessFault, Fault, NoFault, BoundsOK
    <2> QED BY <2>1, <2>2, <2>4, <2>5
  <1> QED BY <1>1, <1>3, <1>4, ControllerKeeps

LEMMA TerminateKeeps ==
    ASSUME StartInv, Terminate
    PROVE  StartInv'
  <1> USE DEF StartInv
  <1>1. /\ UNCHANGED <<configured, mysqlUp, schema, phase, current, table, workers, edits, faults, catalog>>
        /\ stopping' = TRUE /\ stops < MaxStops /\ stops' = stops + 1
    BY DEF Terminate
  <1>2. Migrated' /\ Faulted'
    BY <1>1 DEF Migrated, Faulted, CleanUnlessFault, Serving, schema
  <1>3. FetchTypes' /\ Looked'
    BY <1>1, FetchKept
  <1>4. BoundsOK' /\ faults' \in Nat /\ faults <= faults'
    BY <1>1, StartupAssumption DEF BoundsOK
  <1>5. Catalogued'
    BY <1>1, <1>4, CatalogKept DEF catalog, workers
  <1> QED BY <1>2, <1>3, <1>4, <1>5

\* The calls in progress end with the process that answers them.
LEMMA DownKeeps ==
    ASSUME StartInv, Crash \/ Exit \/ ShutdownFails
    PROVE  StartInv'
  <1> USE DEF StartInv
  <1>1. UNCHANGED <<configured, mysqlUp, version, dirty, meta, entered, bound, queued, stored>> /\ Down
    BY DEF Crash, Exit, ShutdownFails, Down, schema
  <1>2. /\ phase' = "down" /\ current' = 0 /\ stopping' = FALSE /\ consumer' = "none"
        /\ early' = [k \in Keys |-> {}]
    BY <1>1 DEF Down
  <1>3. BoundsOK' /\ faults \in Nat /\ faults' \in Nat /\ faults <= faults' /\ (Crash => faults < faults')
    <2>1. (Fault \/ NoFault) /\ (Crash => Fault)
      BY DEF Crash, Exit, ShutdownFails
    <2>2. BoundsOK' /\ faults <= faults' /\ (Fault => faults < faults')
      BY <2>1, Counted
    <2>3. faults \in Nat /\ faults' \in Nat
      BY <2>2 DEF BoundsOK
    <2> QED BY <2>1, <2>2, <2>3
  <1>4. Migrated'
    <2>1. current' \in 0..Last
      BY <1>2, StartupAssumption
    <2>2. stopping' \in BOOLEAN
      BY <1>2
    <2>3. ~Serving'
      BY <1>2 DEF Serving
    <2>4. UNCHANGED <<configured, mysqlUp, version, dirty>> /\ cut' \in BOOLEAN
      BY <1>1 DEF Crash, Exit, ShutdownFails, schema, Migrated
    <2>5. whole' = whole \/ (dirty /\ whole' = whole \cup {version})
      BY DEF Crash, Exit, ShutdownFails, Abandoned, schema, Migrated
    <2>6. dirty => whole \cup {version} = 1..version
      BY StartupAssumption DEF Migrated
    <2> QED BY <1>2, <2>1, <2>2, <2>3, <2>4, <2>5, <2>6 DEF Migrated, Phases
  <1>5. Faulted'
    <2>1. CASE Crash
      BY <1>3, <2>1 DEF Faulted, CleanUnlessFault
    <2>2. CASE Exit
      BY <1>1, <2>2 DEF Exit, NoFault, Faulted, CleanUnlessFault, schema
    <2>3. CASE ShutdownFails
      <3>1. cut' = (cut \/ phase = "apply") /\ NoFault
        BY <2>3 DEF ShutdownFails
      <3>2. ~cut' => ~cut /\ phase # "apply"
        BY <3>1
      <3> QED BY <1>1, <3>1, <3>2 DEF NoFault, Faulted, CleanUnlessFault
    <2> QED BY <2>1, <2>2, <2>3
  <1> DEFINE after(w) == IF pc[w] = "create" THEN GotError(w)
                         ELSE [pc |-> pc[w], key |-> key[w], boot |-> boot[w]]
  <1>6. /\ pc' = [w \in Workers |-> after(w).pc]
        /\ key' = [w \in Workers |-> after(w).key]
        /\ boot' = [w \in Workers |-> after(w).boot]
    BY <1>1 DEF Down
  <1>7. \A w \in Workers : /\ after(w).pc \in WorkerPhases \ {"create"} /\ after(w).key \in Keys
                           /\ after(w).boot \in Boots /\ (pc[w] = "running" => after(w).pc = "running")
    <2> TAKE w \in Workers
    <2>1. GotError(w) \in Moves
      BY FetchMoves
    <2>2. pc[w] \in WorkerPhases /\ key[w] \in Keys /\ boot[w] \in Boots
      BY DEF FetchTypes
    <2> QED BY <2>1, <2>2 DEF Moves, WorkerPhases
  <1> HIDE DEF after
  <1>8. FetchTypes'
    BY <1>1, <1>2, <1>6, <1>7 DEF FetchTypes
  <1>9. Looked'
    BY <1>2, <1>6, <1>7 DEF Looked
  <1>10. \A w \in Collectors : pc[w] = "running" => pc'[w] = "running"
    BY <1>6, <1>7 DEF Collectors
  <1>11. Catalogued'
    BY <1>1, <1>2, <1>3, <1>10, CatalogKept
  <1> QED BY <1>3, <1>4, <1>5, <1>8, <1>9, <1>11

LEMMA SchemaQueueKeeps ==
    ASSUME StartInv, DeclareSchemas \/ \E w \in Collectors : HandleSchema(w)
    PROVE  StartInv'
  <1> USE DEF StartInv
  <1>1. UNCHANGED <<configured, mysqlUp, schema, controller, table, workers>> /\ (Fault \/ NoFault)
    BY DEF DeclareSchemas, HandleSchema
  <1>2. BoundsOK' /\ faults \in Nat /\ faults' \in Nat /\ faults <= faults'
    BY <1>1, Counted DEF BoundsOK
  <1>3. Migrated' /\ Faulted' /\ FetchTypes' /\ Looked'
    BY <1>1, <1>2, SchemaKept, FetchKept
  <1>4. UNCHANGED <<phase, pc>>
    BY <1>1 DEF controller, workers
  <1>5. ASSUME DeclareSchemas PROVE Catalogued'
    <2>1. /\ phase = "serving" /\ bound' \in BOOLEAN /\ consumer' \in {"consuming", "gone"}
          /\ UNCHANGED <<queued, stored>>
      BY <1>5 DEF DeclareSchemas, Catalogued
    <2>2. \A w \in Collectors : queued'[w] <= faults' + (IF pc'[w] = "running" THEN 1 ELSE 0)
      <3> TAKE w \in Collectors
      <3>1. queued[w] \in Nat /\ queued[w] <= faults + (IF pc[w] = "running" THEN 1 ELSE 0)
        BY DEF Catalogued
      <3> QED BY <1>2, <1>4, <2>1, <3>1
    <2> QED BY <1>4, <2>1, <2>2 DEF Catalogued
  <1>6. ASSUME NEW w \in Collectors, HandleSchema(w) PROVE Catalogued'
    <2>1. UNCHANGED <<bound, consumer>> /\ stored' \in {stored, stored \cup {w}} /\ queued[w] > 0
      BY <1>6 DEF HandleSchema, Upsert
    <2>2. queued' = queued \/ queued' = [queued EXCEPT ![w] = @ - 1]
      BY <1>6 DEF HandleSchema, Settled
    <2>3. queued' \in [Collectors -> Nat] /\ \A x \in Collectors : queued'[x] <= queued[x]
      BY <2>1, <2>2 DEF Catalogued
    <2>4. \A x \in Collectors : queued'[x] <= faults' + (IF pc'[x] = "running" THEN 1 ELSE 0)
      <3> TAKE x \in Collectors
      <3>1. queued[x] \in Nat /\ queued[x] <= faults + (IF pc[x] = "running" THEN 1 ELSE 0)
        BY DEF Catalogued
      <3>2. queued'[x] \in Nat /\ queued'[x] <= queued[x]
        BY <2>3
      <3> QED BY <1>2, <1>4, <3>1, <3>2
    <2> QED BY <1>4, <2>1, <2>3, <2>4 DEF Catalogued
  <1> QED BY <1>2, <1>3, <1>5, <1>6

-----------------------------------------------------------------------------
(***************************************************************************)
(* The operator's and the workers' steps.                                  *)
(***************************************************************************)

\* Whoever is about to create the key becomes early with its first row.
LEMMA SetConfigKeeps ==
    ASSUME StartInv, NEW k \in Keys, NEW v \in Values, SetConfig(k, v)
    PROVE  StartInv'
  <1> USE DEF StartInv
  <1>1. /\ UNCHANGED <<configured, mysqlUp, schema, controller, workers, catalog, faults, stops>>
        /\ edits < MaxEdits /\ edits' = edits + 1
    BY DEF SetConfig
  <1>2. BoundsOK' /\ faults' \in Nat /\ faults <= faults'
    BY <1>1, StartupAssumption DEF BoundsOK
  <1>3. Migrated' /\ Faulted'
    BY <1>1, <1>2, SchemaKept
  <1>4. Catalogued'
    BY <1>1, <1>2, CatalogKept DEF catalog, workers, controller
  <1> DEFINE new == IF meta[k] = Absent THEN Looking(k) ELSE early[k]
  <1>5. /\ meta' = [meta EXCEPT ![k] = v] /\ early' = [early EXCEPT ![k] = new]
        /\ entered' = [entered EXCEPT ![k] = v] /\ UNCHANGED <<pc, key, boot>>
    BY <1>1 DEF SetConfig, SetMeta, workers
  <1>6. \A x \in Workers : x \in Looking(k) <=> pc[x] = "create" /\ key[x] = k
    BY DEF Looking
  <1>7. new \in SUBSET Workers /\ \A x \in Workers : x \in new <=> pc[x] = "create" /\ key[x] = k
    BY <1>6 DEF Looking, Looked, FetchTypes
  <1> HIDE DEF new
  <1>8. FetchTypes'
    BY <1>5, <1>7 DEF FetchTypes
  <1>9. Looked'
    <2>1. early'[k] = new /\ \A j \in Keys \ {k} : early'[j] = early[j] /\ meta'[j] = meta[j]
      BY <1>5 DEF FetchTypes
    <2> QED BY <1>5, <1>7, <2>1 DEF Looked
  <1> QED BY <1>2, <1>3, <1>4, <1>8, <1>9

\* A step of a worker's: what remains is what it has fetched.
LEMMA WorkerKeeps ==
    ASSUME StartInv, UNCHANGED <<configured, mysqlUp, schema, controller>>, Fault \/ NoFault,
           FetchTypes', Looked', Catalogued'
    PROVE  StartInv'
  <1>1. BoundsOK' /\ faults' \in Nat /\ faults <= faults'
    BY Counted DEF StartInv, BoundsOK
  <1>2. Migrated' /\ Faulted'
    BY <1>1, SchemaKept DEF StartInv
  <1> QED BY <1>1, <1>2 DEF StartInv

\* ... and of the catalogue, that the worker has not published.
LEMMA WorkerMoves ==
    ASSUME StartInv, NEW w \in Workers, NEW s \in Moves, Becomes(w, s), UNCHANGED catalog,
           Fault \/ NoFault, pc[w] # "running" \/ Fault, UNCHANGED phase
    PROVE  Catalogued'
  <1> USE DEF StartInv
  <1>1. faults' \in Nat /\ faults <= faults' /\ (Fault => faults < faults')
    BY Counted DEF BoundsOK
  <1>2. \A x \in Collectors : pc[x] = "running" => pc'[x] = "running" \/ faults < faults'
    BY <1>1, BecomesTypes DEF Collectors
  <1> QED BY <1>1, <1>2, CatalogKept DEF catalog

LEMMA GetConfigKeeps ==
    ASSUME StartInv, NEW w \in Workers, GetConfig(w)
    PROVE  StartInv'
  <1> USE DEF StartInv
  <1>1. /\ UNCHANGED <<configured, mysqlUp, schema, controller, table, catalog>> /\ NoFault
        /\ pc[w] = "ask" /\ phase' = phase
    BY DEF GetConfig, controller
  <1>2. CASE \E s \in Moves : Becomes(w, s)
    BY <1>1, <1>2, WorkerKeeps, MoveKeeps, WorkerMoves
  <1>3. CASE /\ meta[key[w]] = Absent
             /\ pc' = [pc EXCEPT ![w] = "create"]
             /\ UNCHANGED <<key, boot>>
    <2>1. pc' \in [Workers -> WorkerPhases] /\ UNCHANGED <<meta, entered, early>>
      BY <1>1, <1>3 DEF FetchTypes, WorkerPhases, table
    <2>2. FetchTypes'
      BY <1>3, <2>1 DEF FetchTypes
    <2>3. Looked'
      BY <1>1, <1>3, <2>1 DEF Looked, FetchTypes
    <2>4. \A x \in Collectors : pc[x] = "running" => pc'[x] = "running"
      BY <1>1, <1>3 DEF Collectors, FetchTypes
    <2>5. faults' \in Nat /\ faults <= faults'
      BY <1>1 DEF NoFault, BoundsOK
    <2>6. Catalogued'
      BY <1>1, <2>4, <2>5, CatalogKept DEF catalog
    <2> QED BY <1>1, <2>2, <2>3, <2>6, WorkerKeeps
  <1>4. (\E s \in Moves : Becomes(w, s)) \/
        (meta[key[w]] = Absent /\ pc' = [pc EXCEPT ![w] = "create"] /\ UNCHANGED <<key, boot>>)
    <2>1. meta[key[w]] # Absent => meta[key[w]] \in Values
      BY DEF FetchTypes
    <2>2. GotError(w) \in Moves /\ \A v \in Values : Got(w, v) \in Moves
      BY FetchMoves
    <2> QED BY <2>1, <2>2 DEF GetConfig
  <1> QED BY <1>2, <1>3, <1>4

\* The handler that creates a key, and the one whose caller has given up.
LEMMA CreateKeeps ==
    ASSUME StartInv, NEW w \in Workers, CreateConfig(w) \/ CallFails(w)
    PROVE  StartInv'
  <1> USE DEF StartInv
  <1>1. /\ UNCHANGED <<configured, mysqlUp, schema, controller, entered, catalog>>
        /\ Fault \/ NoFault
        /\ pc[w] # "running" /\ phase' = phase
        /\ WriteNothing(w) \/ (pc[w] = "create" /\ WriteEmpty(w))
    BY DEF CreateConfig, CallFails, controller
  <1>2. PICK s \in Moves : Becomes(w, s)
    <2>1. GotError(w) \in Moves /\ Got(w, "") \in Moves
      BY FetchMoves DEF Values
    <2> QED BY <2>1 DEF CreateConfig, CallFails
  <1>3. FetchTypes' /\ Looked'
    BY <1>1, <1>2, HandlerEnds
  <1>4. Catalogued'
    BY <1>1, <1>2, WorkerMoves
  <1> QED BY <1>1, <1>3, <1>4, WorkerKeeps

LEMMA ConnectKeeps ==
    ASSUME StartInv, NEW w \in Workers, PersisterConnects(w) \/ WorkerCrashes(w)
    PROVE  StartInv'
  <1> USE DEF StartInv
  <1>1. /\ UNCHANGED <<configured, mysqlUp, schema, controller, table, catalog>>
        /\ Fault \/ NoFault
        /\ pc[w] # "running" \/ Fault
        /\ pc[w] # "create" /\ phase' = phase
    BY DEF PersisterConnects, WorkerCrashes, Connects, controller
  <1>2. PICK s \in Moves : Becomes(w, s)
    <2>1. Restart \in Moves /\ Runs(w) \in Moves
      BY FetchMoves
    <2> QED BY <2>1 DEF PersisterConnects, WorkerCrashes
  <1>3. FetchTypes' /\ Looked'
    BY <1>1, <1>2, MoveKeeps
  <1>4. Catalogued'
    BY <1>1, <1>2, WorkerMoves
  <1> QED BY <1>1, <1>3, <1>4, WorkerKeeps

\* The one step that publishes a schema is a collector's from connecting to running.
LEMMA PublishKeeps ==
    ASSUME StartInv, NEW w \in Workers, CollectorConnects(w)
    PROVE  StartInv'
  <1> USE DEF StartInv
  <1>1. /\ UNCHANGED <<configured, mysqlUp, schema, controller, table>>
        /\ (NoFault /\ PublishSchema(w)) \/ (Fault /\ UNCHANGED catalog)
        /\ w \in Collectors /\ pc[w] = "connect" /\ Becomes(w, Runs(w)) /\ phase' = phase
    BY DEF CollectorConnects, Connects, controller
  <1>2. Runs(w) \in Moves /\ Runs(w).pc = "running"
    BY FetchMoves DEF Runs
  <1>3. FetchTypes' /\ Looked'
    BY <1>1, <1>2, MoveKeeps
  <1>4. Catalogued'
    <2>1. CASE Fault /\ UNCHANGED catalog
      BY <1>1, <1>2, <2>1, WorkerMoves
    <2>2. CASE NoFault /\ PublishSchema(w)
      <3>1. /\ UNCHANGED <<bound, consumer, stored>>
            /\ queued' = queued \/ queued' = [queued EXCEPT ![w] = @ + 1]
        BY <2>2 DEF PublishSchema
      <3>2. pc'[w] = "running" /\ \A x \in Workers \ {w} : pc'[x] = pc[x]
        BY <1>1, <1>2, BecomesTypes
      <3>3. queued' \in [Collectors -> Nat] /\ faults' = faults /\ faults \in Nat
        BY <2>2, <3>1 DEF Catalogued, NoFault, BoundsOK
      <3>4. \A x \in Collectors : queued'[x] <= faults' + (IF pc'[x] = "running" THEN 1 ELSE 0)
        <4> TAKE x \in Collectors
        <4>1. queued[x] \in Nat /\ queued[x] <= faults + (IF pc[x] = "running" THEN 1 ELSE 0)
          BY DEF Catalogued
        <4>2. CASE x = w
          BY <1>1, <3>1, <3>2, <3>3, <4>1, <4>2 DEF Catalogued
        <4>3. CASE x # w
          <5>1. queued'[x] = queued[x] /\ pc'[x] = pc[x]
            BY <3>1, <3>2, <4>3 DEF Catalogued, Collectors
          <5> QED BY <3>3, <4>1, <5>1
        <4> QED BY <4>2, <4>3
      <3> QED BY <1>1, <3>1, <3>3, <3>4 DEF Catalogued
    <2> QED BY <1>1, <2>1, <2>2
  <1> QED BY <1>1, <1>3, <1>4, WorkerKeeps

-----------------------------------------------------------------------------

LEMMA StartStep == StartInv /\ [Next]_vars => StartInv'
  <1> SUFFICES ASSUME StartInv, [Next]_vars PROVE StartInv'
    OBVIOUS
  <1>1. CASE ControllerStep
    BY <1>1, StartupKeeps, MigrationKeeps, SchemaQueueKeeps, DownKeeps DEF ControllerStep
  <1>2. CASE MysqlRecovers \/ MysqlFails
    BY <1>2, MysqlKeeps
  <1>3. ASSUME NEW k \in Keys, NEW v \in Values, SetConfig(k, v) PROVE StartInv'
    BY <1>3, SetConfigKeeps
  <1>4. ASSUME NEW w \in Workers, WorkerStep(w) PROVE StartInv'
    BY <1>4, GetConfigKeeps, CreateKeeps, ConnectKeeps, PublishKeeps DEF WorkerStep
  <1>5. ASSUME NEW w \in Workers, CallFails(w) \/ WorkerCrashes(w) PROVE StartInv'
    BY <1>5, CreateKeeps, ConnectKeeps
  <1>6. CASE Crash \/ Terminate \/ ShutdownFails
    BY <1>6, DownKeeps, TerminateKeeps
  <1>7. CASE UNCHANGED vars
    <2>1. UNCHANGED <<configured, mysqlUp, schema, controller, table, workers, catalog>> /\ NoFault
      BY <1>7 DEF vars, NoFault
    <2>2. Migrated' /\ Faulted'
      BY <2>1, SchemaKept DEF StartInv, NoFault, BoundsOK
    <2> QED BY <2>1, <2>2, ControllerKeeps DEF controller
  <1> QED BY <1>1, <1>2, <1>3, <1>4, <1>5, <1>6, <1>7 DEF Next, Disturb

\* Types, and: the handlers get the database only with every migration applied in full, but for a
\* last one left half-way, and no stop leaves the schema dirty unless the shutdown of the HTTP
\* server fails (RunMigrations, openMySQLUntilReady, runControllerBackend, main).
THEOREM StartupIsSafe == Spec => []Safety
  BY InitInv, StartStep, InvSafe, PTL DEF Spec

\* Only a handler that looked for the key before its first row existed empties it.
LEMMA KeptInStep ==
    ASSUME StartInv, [Next]_vars, NEW k \in Keys,
           entered'[k] = entered[k], entered[k] = meta[k], meta[k] # meta'[k], meta[k] # Absent
    PROVE  early[k] # {}
  <1>1. ASSUME NEW j \in Keys, NEW v \in Values, SetConfig(j, v) PROVE FALSE
    BY <1>1 DEF SetConfig, SetMeta, StartInv, FetchTypes
  <1>2. ASSUME NEW w \in Workers, pc[w] = "create", WriteEmpty(w) PROVE early[k] # {}
    <2>1. key[w] = k
      BY <1>2 DEF WriteEmpty, StartInv, FetchTypes
    <2> QED BY <1>2, <2>1 DEF StartInv, Looked
  <1>3. ASSUME NEW w \in Workers, CreateConfig(w) \/ CallFails(w) PROVE early[k] # {}
    BY <1>2, <1>3 DEF CreateConfig, CallFails, WriteNothing
  <1>4. UNCHANGED meta \/ (\E j \in Keys, v \in Values : SetConfig(j, v))
          \/ (\E w \in Workers : CreateConfig(w) \/ CallFails(w))
    BY DEF Next, ControllerStep, WorkerStep, Disturb, Start, Attempt, BeginMigration, ApplyMigration,
           OpenDatabase, ControllerConnects, DeclareSchemas, HandleSchema, Exit, Crash, Terminate, ShutdownFails,
           MysqlFails, MysqlRecovers, GetConfig, CollectorConnects, PersisterConnects, WorkerCrashes,
           table, vars
  <1> QED BY <1>1, <1>3, <1>4

\* A setting the operator has entered is there until it is entered again, whatever calls of
\* GetConfig and SetConfig, failures and restarts interleave; but for a GetConfig that had looked
\* for the key before its first row existed (configGet, SetMeta).
THEOREM SettingsAreKept == Spec => SettingKept
  <1>1. StartInv /\ [Next]_vars =>
          [\A k \in Keys :
              entered[k] = entered'[k] /\ entered[k] = meta[k] /\ meta[k] \notin {meta'[k], Absent}
                  => early[k] # {}]_meta
    BY KeptInStep
  <1> QED BY <1>1, InitInv, StartStep, PTL DEF Spec, SettingKept

================================================================================
