------------------------------ MODULE AmqpClient ------------------------------
(***************************************************************************)
(* The shared AMQP client of every IceHive service                         *)
(* (src/services/common/pkg/amqpctl/client.go).                            *)
(*                                                                         *)
(* One Client owns one TCP connection and one publish channel, guarded by  *)
(* the mutex c.mu.  Publishers hold the mutex for a whole publish; each    *)
(* consumer goroutine takes it only to open its own channel and to         *)
(* reconnect, and declares, binds and consumes without it.  The broker may *)
(* close a channel, drop the connection or go away at any time.            *)
(*                                                                         *)
(* Messages are abstracted away here (see EntityDelivery): this module     *)
(* says which connection and which channels exist, who opened them and who *)
(* tears them down.                                                        *)
(***************************************************************************)
EXTENDS Naturals

CONSTANTS
    Consumers,   \* goroutines that consume through this client
    ConnIds,     \* names for TCP connections; a name is reused once its connection is gone
    NoConn,      \* c.conn == nil, or a consumer that has no open channel
    MaxFaults    \* bound: how many times the network or the broker misbehaves

ASSUME NoConnAssumption == NoConn \notin ConnIds
ASSUME MaxFaultsAssumption == MaxFaults \in Nat

VARIABLES
    up,         \* the broker accepts connections
    live,       \* TCP connections the broker holds for this client
    conn,       \* c.conn; closed by the peer when it is not in live
    pubOpen,    \* c.pubCh is set and not closed
    chan,       \* chan[c]: connection of c's open consumer channel
    pc,         \* pc[c]: where consumer c is
    mutexHeld,  \* c.mu is held by a publish in progress
    pub,        \* where the publish in progress is
    result,     \* what the last publish returned
    blame,      \* history: faults seen when the publish in progress began
    cancelled,  \* the process context is done
    closed,     \* c.closed
    faults      \* faults so far

net == <<live, conn, pubOpen, faults>>
publisher == <<mutexHeld, pub, result, blame>>
vars == <<up, net, chan, pc, publisher, cancelled, closed>>

ConsumerPhases ==
    {"setup", "declare", "open", "bind", "consume", "wait", "reconnect", "dead", "done"}
PublisherPhases == {"idle", "ensure", "write", "redial", "rewrite"}

\* Type invariant.
TypeOK ==
    /\ up \in BOOLEAN
    /\ live \in SUBSET ConnIds
    /\ conn \in ConnIds \cup {NoConn}
    /\ pubOpen \in BOOLEAN
    /\ chan \in [Consumers -> ConnIds \cup {NoConn}]
    /\ pc \in [Consumers -> ConsumerPhases]
    /\ mutexHeld \in BOOLEAN
    /\ pub \in PublisherPhases
    /\ result \in {"none", "ok", "error"}
    /\ blame \in 0..MaxFaults
    /\ cancelled \in BOOLEAN
    /\ closed \in BOOLEAN
    /\ faults \in 0..MaxFaults

\* Connect has succeeded before any goroutine that uses the client is started.
Init ==
    /\ up = TRUE
    /\ conn \in ConnIds
    /\ live = {conn}
    /\ pubOpen = TRUE
    /\ chan = [c \in Consumers |-> NoConn]
    /\ pc = [c \in Consumers |-> "setup"]
    /\ mutexHeld = FALSE
    /\ pub = "idle"
    /\ result = "none"
    /\ blame = 0
    /\ cancelled = FALSE
    /\ closed = FALSE
    /\ faults = 0

-----------------------------------------------------------------------------
(***************************************************************************)
(* Broker and network.                                                     *)
(***************************************************************************)

Fault == faults < MaxFaults /\ faults' = faults + 1

\* A channel lives no longer than its connection.
Surviving == [c \in Consumers |-> IF chan[c] \in live' THEN chan[c] ELSE NoConn]

\* Every TCP connection of the client breaks; a broker that went down also refuses dials.
ConnectionDrop ==
    /\ Fault
    /\ live # {}
    /\ live' = {}
    /\ pubOpen' = FALSE
    /\ chan' = Surviving
    /\ up' \in BOOLEAN
    /\ UNCHANGED <<conn, pc, publisher, cancelled, closed>>

BrokerRecovers ==
    /\ ~up
    /\ up' = TRUE
    /\ UNCHANGED <<net, chan, pc, publisher, cancelled, closed>>

\* The broker closes one channel (a channel exception) and leaves the connection open.
ChannelDrop ==
    /\ Fault
    /\ \/ pubOpen /\ pubOpen' = FALSE /\ UNCHANGED chan
       \/ \E c \in Consumers :
             /\ chan[c] # NoConn
             /\ chan' = [chan EXCEPT ![c] = NoConn]
             /\ UNCHANGED pubOpen
    /\ UNCHANGED <<up, live, conn, pc, publisher, cancelled, closed>>

-----------------------------------------------------------------------------
(***************************************************************************)
(* Methods that run under c.mu.  Each takes the outcome it describes: ok   *)
(* is TRUE for "returned nil".  A dial fails while the broker is down, or  *)
(* because of a fault between its round trips.                             *)
(***************************************************************************)

DialFails == IF up THEN Fault ELSE UNCHANGED faults

\* Forgets to close a connection whose channel or exchange setup failed.
ConnectLeaky(ok) ==
    IF ok
    THEN /\ up
         /\ \E id \in ConnIds \ live : conn' = id /\ live' = (live \ {conn}) \cup {id}
         /\ pubOpen' = TRUE
         /\ UNCHANGED faults
    ELSE /\ DialFails
         /\ IF up THEN \E id \in ConnIds \ live : live' = (live \ {conn}) \cup {id}
                  ELSE live' = live \ {conn}
         /\ conn' = NoConn
         /\ pubOpen' = FALSE

\* closeConnLocked then connectLocked: a failed attempt closes whatever it had opened.
Connect(ok) ==
    IF ok
    THEN /\ up
         /\ \E id \in ConnIds \ live : conn' = id /\ live' = (live \ {conn}) \cup {id}
         /\ pubOpen' = TRUE
         /\ UNCHANGED faults
    ELSE /\ DialFails
         /\ conn' = NoConn
         /\ live' = live \ {conn}
         /\ pubOpen' = FALSE

\* resetPubChLocked: a new publish channel on the open connection, or the connection is closed.
ResetPubCh(ok) ==
    IF ok
    THEN pubOpen' = TRUE /\ UNCHANGED <<live, conn, faults>>
    ELSE Fault /\ conn' = NoConn /\ live' = live \ {conn} /\ pubOpen' = FALSE

\* Reports the closed publish channel instead of opening another.
EnsureConnectedNoReset(ok) ==
    \/ closed /\ ~ok /\ UNCHANGED net
    \/ ~closed /\ conn \in live /\ ok = pubOpen /\ UNCHANGED net
    \/ ~closed /\ conn \notin live /\ Connect(ok)

EnsureConnected(ok) ==
    \/ closed /\ ~ok /\ UNCHANGED net
    \/ ~closed /\ conn \in live /\ pubOpen /\ ok /\ UNCHANGED net
    \/ ~closed /\ conn \in live /\ ~pubOpen /\ ResetPubCh(ok)
    \/ ~closed /\ conn \notin live /\ Connect(ok)

-----------------------------------------------------------------------------
(***************************************************************************)
(* Publisher: the heartbeat goroutine and the service's own publishes.     *)
(* All of them hold c.mu for the whole of publishLocked, so one publisher  *)
(* in progress stands for all.                                             *)
(***************************************************************************)

\* Returns on an error path without unlocking.
PublishReturnHoldingLock(r) ==
    /\ result' = r
    /\ pub' = "idle"
    /\ IF r = "error" THEN UNCHANGED mutexHeld ELSE mutexHeld' = FALSE
    /\ UNCHANGED blame

PublishReturn(r) ==
    /\ result' = r
    /\ pub' = "idle"
    /\ mutexHeld' = FALSE
    /\ UNCHANGED blame

PublishContinue(phase) ==
    /\ pub' = phase
    /\ UNCHANGED <<mutexHeld, result, blame>>

PublishLock ==
    /\ pub = "idle" /\ ~mutexHeld
    /\ pub' = "ensure"
    /\ mutexHeld' = TRUE
    /\ result' = "none"
    /\ blame' = faults
    /\ UNCHANGED <<up, net, chan, pc, cancelled, closed>>

PublishEnsure ==
    /\ pub = "ensure"
    /\ \/ EnsureConnected(TRUE) /\ PublishContinue("write")
       \/ EnsureConnected(FALSE) /\ PublishReturn("error")
    /\ chan' = Surviving
    /\ UNCHANGED <<up, pc, cancelled, closed>>

\* The write itself finds the connection broken: an error isAMQPGone does not recognise.
WriteBreaks ==
    /\ pubOpen /\ Fault
    /\ live' = {} /\ pubOpen' = FALSE /\ UNCHANGED conn

PublishWrite ==
    /\ pub = "write"
    /\ \/ pubOpen /\ PublishReturn("ok") /\ UNCHANGED net
       \/ ~pubOpen /\ PublishContinue("redial") /\ UNCHANGED net
       \/ WriteBreaks /\ PublishReturn("error")
    /\ chan' = Surviving
    /\ UNCHANGED <<up, pc, cancelled, closed>>

PublishRedial ==
    /\ pub = "redial"
    /\ \/ Connect(TRUE) /\ PublishContinue("rewrite")
       \/ Connect(FALSE) /\ PublishReturn("error")
    /\ chan' = Surviving
    /\ UNCHANGED <<up, pc, cancelled, closed>>

PublishRewrite ==
    /\ pub = "rewrite"
    /\ \/ pubOpen /\ PublishReturn("ok") /\ UNCHANGED net
       \/ ~pubOpen /\ PublishReturn("error") /\ UNCHANGED net
       \/ WriteBreaks /\ PublishReturn("error")
    /\ chan' = Surviving
    /\ UNCHANGED <<up, pc, cancelled, closed>>

-----------------------------------------------------------------------------
(***************************************************************************)
(* Consumers: EnsureQueue once, then consumeLoop.                          *)
(***************************************************************************)

Goto(c, phase) == pc' = [pc EXCEPT ![c] = phase]

\* openChannel called at phase from: on success c has a channel on the current connection.
OpenChannelFrom(c, from, opened, failed) ==
    /\ pc[c] = from /\ ~mutexHeld
    /\ \/ /\ EnsureConnected(TRUE)
          /\ chan' = [Surviving EXCEPT ![c] = conn']
          /\ Goto(c, opened)
       \/ /\ EnsureConnected(FALSE)
          /\ chan' = Surviving
          /\ Goto(c, failed)
    /\ UNCHANGED <<up, publisher, cancelled, closed>>

\* consumeLoop leaves on a done context, and otherwise sleeps reconnectDelay.
AfterOnce == IF cancelled THEN "done" ELSE "wait"

SetupOpen(c) == OpenChannelFrom(c, "setup", "declare", "dead")

\* EnsureQueue's declare and bind, and its deferred Close.  The goroutine that called it
\* returns for good when it fails.
SetupDeclare(c) ==
    /\ pc[c] = "declare"
    /\ Goto(c, IF chan[c] # NoConn THEN "open" ELSE "dead")
    /\ chan' = [chan EXCEPT ![c] = NoConn]
    /\ UNCHANGED <<up, net, publisher, cancelled, closed>>

OpenChannel(c) == OpenChannelFrom(c, "open", "bind", AfterOnce)

\* DeclareAndBindQueue and ConsumeWithContext, outside the mutex.
Subscribe(c) ==
    /\ pc[c] = "bind"
    /\ Goto(c, IF chan[c] # NoConn /\ ~cancelled THEN "consume" ELSE AfterOnce)
    /\ chan' = IF cancelled THEN [chan EXCEPT ![c] = NoConn] ELSE chan
    /\ UNCHANGED <<up, net, publisher, cancelled, closed>>

\* Does not notice that the stream of deliveries was closed under it.
StreamEndsOnlyWithContext(c) ==
    /\ pc[c] = "consume"
    /\ cancelled
    /\ Goto(c, AfterOnce)
    /\ chan' = [chan EXCEPT ![c] = NoConn]
    /\ UNCHANGED <<up, net, publisher, cancelled, closed>>

\* The delivery stream ends with its channel or with the context; the deferred Close runs.
StreamEnds(c) ==
    /\ pc[c] = "consume"
    /\ chan[c] = NoConn \/ cancelled
    /\ Goto(c, AfterOnce)
    /\ chan' = [chan EXCEPT ![c] = NoConn]
    /\ UNCHANGED <<up, net, publisher, cancelled, closed>>

\* After the sleep, or the context.
Wake(c) ==
    /\ pc[c] = "wait"
    /\ Goto(c, IF cancelled THEN "done" ELSE "reconnect")
    /\ UNCHANGED <<up, net, chan, publisher, cancelled, closed>>

\* consumeLoop's reconnect: whatever the state of the connection, it is closed and dialled anew.
Reconnect(c) ==
    /\ pc[c] = "reconnect" /\ ~mutexHeld
    /\ IF closed THEN UNCHANGED net ELSE Connect(TRUE) \/ Connect(FALSE)
    /\ chan' = Surviving
    /\ Goto(c, "open")
    /\ UNCHANGED <<up, publisher, cancelled, closed>>

-----------------------------------------------------------------------------
(***************************************************************************)
(* Shutdown: the process context is cancelled, then the owner calls Close. *)
(***************************************************************************)

Cancel ==
    /\ ~cancelled
    /\ cancelled' = TRUE
    /\ UNCHANGED <<up, net, chan, pc, publisher, closed>>

\* Only marks the client closed.
CloseKeepsConnection ==
    /\ cancelled /\ ~closed /\ ~mutexHeld
    /\ closed' = TRUE
    /\ UNCHANGED <<up, net, chan, pc, publisher, cancelled>>

Close ==
    /\ cancelled /\ ~closed /\ ~mutexHeld
    /\ closed' = TRUE
    /\ conn' = NoConn
    /\ live' = live \ {conn}
    /\ pubOpen' = FALSE
    /\ chan' = Surviving
    /\ UNCHANGED <<up, faults, pc, publisher, cancelled>>

-----------------------------------------------------------------------------

PublishStep == PublishEnsure \/ PublishWrite \/ PublishRedial \/ PublishRewrite

ConsumerStep(c) ==
    \/ SetupOpen(c) \/ SetupDeclare(c)
    \/ OpenChannel(c) \/ Subscribe(c) \/ StreamEnds(c)
    \/ Wake(c) \/ Reconnect(c)

Next ==
    \/ ConnectionDrop \/ BrokerRecovers \/ ChannelDrop
    \/ PublishLock \/ PublishStep
    \/ \E c \in Consumers : ConsumerStep(c)
    \/ Cancel \/ Close

\* Goroutines are scheduled and sync.Mutex does not starve a waiter, so a step that waits
\* for c.mu is taken if the mutex is free again and again (SF); an outage ends.
Fairness ==
    /\ WF_vars(BrokerRecovers)
    /\ WF_vars(PublishStep)
    /\ \A c \in Consumers : SF_vars(ConsumerStep(c))
    /\ SF_vars(Close)

Spec == Init /\ [][Next]_vars

FairSpec == Spec /\ Fairness

-----------------------------------------------------------------------------
(***************************************************************************)
(* Safety.                                                                 *)
(***************************************************************************)

Consuming(c) == pc[c] = "consume" /\ chan[c] # NoConn

\* No connection leaks: whatever interleaving of reconnecting consumers, publishes and
\* faults, the broker holds at most the one connection the client still refers to
\* (closeConnLocked before every connectLocked, and its error paths).
NoConnectionLeak == live \subseteq {conn}

\* A consumer never keeps reading from a connection the client has replaced or lost, and no
\* channel is left open by a consumer that is not using it (openChannel, deferred ch.Close).
NoStrandedChannel ==
    \A c \in Consumers : chan[c] # NoConn =>
        chan[c] = conn /\ conn \in live /\ pc[c] \in {"declare", "bind", "consume"}

\* After Close no goroutine brings the connection back, though consumers still wake up to
\* reconnect and publishers still call (c.closed in consumeLoop and ensureConnectedLocked).
ClosedForGood == closed => live = {} /\ conn = NoConn

\* One connection at most, no channel outside it, and none of either after Close.
Safety == TypeOK /\ NoConnectionLeak /\ NoStrandedChannel /\ ClosedForGood

\* A publish fails only if something failed while it ran: consumers that tear down the shared
\* connection, and faults before the call, never make it return an error.
PublishErrorBlamed ==
    [][result' = "error" /\ result # "error" => faults' > blame \/ ~up \/ closed]_vars

(***************************************************************************)
(* Liveness, under FairSpec; faults are finitely many by MaxFaults.        *)
(***************************************************************************)

\* A publish in progress returns, so it gives c.mu back.
PublishReturns == mutexHeld ~> ~mutexHeld

\* Once faults stop, every consumer goroutine that is still there consumes without further
\* interruption ("On connection loss it reconnects and resumes consuming").
ConsumersResume ==
    <>[](\A c \in Consumers : cancelled \/ pc[c] = "dead" \/ Consuming(c))

\* As ConsumersResume, for a consumer that has the client to itself, as in every service but
\* the controller (and in the controller once its other consumer is gone).
LoneConsumerResumes ==
    <>[](\A c \in Consumers :
            \/ cancelled \/ pc[c] = "dead" \/ Consuming(c)
            \/ \E d \in Consumers \ {c} : pc[d] # "dead")

\* A cancelled process winds down: its consumers return and the connection is gone for good.
ShutdownQuiesces ==
    cancelled ~> [](live = {} /\ \A c \in Consumers : pc[c] \in {"done", "dead"})
=============================================================================
