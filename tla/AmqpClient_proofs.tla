-------------------------- MODULE AmqpClient_proofs --------------------------
(***************************************************************************)
(* Safety of the shared AMQP client for any set of consumers, any supply   *)
(* of connection names and any number of faults.                           *)
(*                                                                         *)
(* ClientInv is the inductive invariant.  Beyond the properties it adds    *)
(* what they rest on: an open publish channel is on a live connection, a   *)
(* broker that is down holds no connection, c.mu is held exactly during a  *)
(* publish, a publish past its ensure step runs on an open client, and     *)
(* one that found its channel gone has seen a fault since it began.        *)
(***************************************************************************)
EXTENDS AmqpClient, TLAPS

PubInv ==
    /\ pubOpen => conn \in live
    /\ mutexHeld <=> pub # "idle"
    /\ pub \in {"write", "redial", "rewrite"} => ~closed
    /\ pub = "write" /\ ~pubOpen => faults > blame
    /\ pub \in {"redial", "rewrite"} => faults > blame
    /\ blame <= faults

ClientInv ==
    /\ TypeOK
    /\ NoConnectionLeak
    /\ NoStrandedChannel
    /\ ClosedForGood
    /\ ~up => live = {}
    /\ PubInv

\* The initial state, right after Connect.
LEMMA InitInv == Init => ClientInv
  <1> SUFFICES ASSUME Init PROVE ClientInv
    OBVIOUS
  <1>1. TypeOK
    <2>1. chan \in [Consumers -> ConnIds \cup {NoConn}] /\ pc \in [Consumers -> ConsumerPhases]
      BY DEF Init, ConsumerPhases
    <2>2. blame \in 0..MaxFaults /\ faults \in 0..MaxFaults
      BY MaxFaultsAssumption DEF Init
    <2>3. live \in SUBSET ConnIds /\ conn \in ConnIds \cup {NoConn}
      BY DEF Init
    <2>4. /\ up \in BOOLEAN /\ pubOpen \in BOOLEAN /\ mutexHeld \in BOOLEAN
          /\ cancelled \in BOOLEAN /\ closed \in BOOLEAN
          /\ pub \in PublisherPhases /\ result \in {"none", "ok", "error"}
      BY DEF Init, PublisherPhases
    <2> QED BY <2>1, <2>2, <2>3, <2>4 DEF TypeOK
  <1>2. NoStrandedChannel
    BY DEF Init, NoStrandedChannel
  <1>3. PubInv
    BY DEF Init, PubInv
  <1> QED BY <1>1, <1>2, <1>3 DEF Init, ClientInv, NoConnectionLeak, ClosedForGood

\* What closing and dialling again, or a failure to, leaves behind.
LEMMA ConnectFacts ==
  ASSUME ClientInv, NEW ok \in BOOLEAN, Connect(ok)
  PROVE  /\ live' \in SUBSET ConnIds
         /\ conn' \in ConnIds \cup {NoConn}
         /\ pubOpen' = ok
         /\ live' = (IF ok THEN {conn'} ELSE {})
         /\ ok => up
         /\ conn' = NoConn <=> ~ok
         /\ faults' \in 0..MaxFaults /\ faults' >= faults
         /\ ~ok /\ up => faults' > faults
         /\ conn' \notin live
  <1>1. live \in SUBSET ConnIds /\ live \subseteq {conn} /\ NoConn \notin live
    BY NoConnAssumption DEF ClientInv, TypeOK, NoConnectionLeak
  <1>2. faults \in 0..MaxFaults /\ up \in BOOLEAN
    BY DEF ClientInv, TypeOK
  <1>3. CASE ok = TRUE
    <2>1. /\ up /\ pubOpen' = TRUE /\ faults' = faults
          /\ conn' \in ConnIds \ live /\ live' = (live \ {conn}) \cup {conn'}
      BY <1>3 DEF Connect
    <2>2. live' = {conn'}
      BY <2>1, <1>1
    <2> QED BY <1>1, <1>2, <1>3, <2>1, <2>2, NoConnAssumption, MaxFaultsAssumption
  <1>4. CASE ok = FALSE
    <2>1. DialFails /\ pubOpen' = FALSE /\ conn' = NoConn /\ live' = live \ {conn}
      BY <1>4 DEF Connect
    <2>2. live' = {}
      BY <2>1, <1>1
    <2>3. faults' \in 0..MaxFaults /\ faults' >= faults /\ (up => faults' > faults)
      BY <2>1, <1>2, MaxFaultsAssumption DEF DialFails, Fault
    <2> QED BY <1>1, <1>4, <2>1, <2>2, <2>3
  <1> QED BY <1>3, <1>4

\* ensureConnectedLocked: on success there is an open publish channel on the one live
\* connection; on failure the client is closed, the broker is down or a fault occurred.
LEMMA EnsureFacts ==
  ASSUME ClientInv, NEW ok \in BOOLEAN, EnsureConnected(ok)
  PROVE  /\ live' \in SUBSET ConnIds
         /\ conn' \in ConnIds \cup {NoConn}
         /\ pubOpen' \in BOOLEAN
         /\ live' \subseteq {conn'}
         /\ pubOpen' => conn' \in live'
         /\ ok => pubOpen' /\ ~closed /\ conn' # NoConn
         /\ faults' \in 0..MaxFaults /\ faults' >= faults
         /\ ~ok => closed \/ ~up \/ faults' > faults
         /\ closed => live' = {} /\ conn' = NoConn
         /\ ~up => live' = {}
         /\ (live' = live /\ conn' = conn) \/ live \cap live' = {}
  <1>1. CASE UNCHANGED net
    BY <1>1, NoConnAssumption DEF net, EnsureConnected, ClientInv, TypeOK, PubInv,
       NoConnectionLeak, ClosedForGood, ResetPubCh, Connect, Fault, DialFails
  <1>2. CASE ~closed /\ conn \in live /\ ~pubOpen /\ ResetPubCh(ok)
    <2>1. /\ live \in SUBSET ConnIds /\ live = {conn} /\ conn \in ConnIds
          /\ faults \in 0..MaxFaults
          /\ ~up => live = {}
      BY <1>2, NoConnAssumption DEF ClientInv, TypeOK, NoConnectionLeak
    <2>2. CASE ok = TRUE
      BY <1>2, <2>1, <2>2, NoConnAssumption, MaxFaultsAssumption DEF ResetPubCh
    <2>3. CASE ok = FALSE
      <3>1. /\ faults' \in 0..MaxFaults /\ faults' > faults /\ faults' >= faults
            /\ conn' = NoConn /\ pubOpen' = FALSE
        BY <1>2, <2>1, <2>3, MaxFaultsAssumption DEF ResetPubCh, Fault
      <3>2. live' = {}
        BY <1>2, <2>1, <2>3 DEF ResetPubCh
      <3> QED BY <2>3, <3>1, <3>2
    <2> QED BY <2>2, <2>3
  <1>3. CASE ~closed /\ conn \notin live /\ Connect(ok)
    <2>1. /\ live' \in SUBSET ConnIds /\ conn' \in ConnIds \cup {NoConn}
          /\ pubOpen' = ok /\ live' = (IF ok THEN {conn'} ELSE {})
          /\ (ok => up) /\ (conn' = NoConn <=> ~ok)
          /\ faults' \in 0..MaxFaults /\ faults' >= faults
          /\ (~ok /\ up => faults' > faults) /\ conn' \notin live
      BY <1>3, ConnectFacts
    <2> QED BY <1>3, <2>1
  <1> QED BY <1>1, <1>2, <1>3 DEF EnsureConnected

\* Channels after a step that changes the connection: each open one is still on it.
LEMMA SurvivingFacts ==
  ASSUME ClientInv, live' \subseteq {conn'}, live' \in SUBSET ConnIds, chan' = Surviving
  PROVE  /\ chan' \in [Consumers -> ConnIds \cup {NoConn}]
         /\ \A c \in Consumers : chan'[c] # NoConn =>
                /\ chan'[c] = conn' /\ conn' \in live'
                /\ pc[c] \in {"declare", "bind", "consume"}
  BY NoConnAssumption DEF ClientInv, TypeOK, NoStrandedChannel, Surviving

\* ClientInv depends on the step only through these facts about the next state.
LEMMA InvFromFacts ==
  ASSUME TypeOK', live' \subseteq {conn'}, ~up' => live' = {},
         \A c \in Consumers : chan'[c] # NoConn =>
             chan'[c] = conn' /\ conn' \in live' /\ pc'[c] \in {"declare", "bind", "consume"},
         closed' => live' = {} /\ conn' = NoConn,
         PubInv'
  PROVE  ClientInv'
  BY DEF ClientInv, NoConnectionLeak, NoStrandedChannel, ClosedForGood

\* Broker and network steps.
LEMMA BrokerInv ==
  ASSUME ClientInv, ConnectionDrop \/ BrokerRecovers \/ ChannelDrop
  PROVE  ClientInv'
  <1> USE NoConnAssumption, MaxFaultsAssumption
  <1>1. CASE ConnectionDrop
    <2>1. live' = {} /\ faults' \in 0..MaxFaults /\ faults' > faults
      BY <1>1 DEF ConnectionDrop, Fault, ClientInv, TypeOK
    <2>2. /\ chan' \in [Consumers -> ConnIds \cup {NoConn}]
          /\ \A c \in Consumers : chan'[c] = NoConn
      BY <1>1, <2>1, SurvivingFacts DEF ConnectionDrop
    <2>3. TypeOK'
      BY <1>1, <2>1, <2>2 DEF ConnectionDrop, ClientInv, TypeOK, publisher
    <2>4. PubInv'
      BY <1>1, <2>1 DEF ConnectionDrop, ClientInv, TypeOK, PubInv, publisher
    <2>5. ~closed' \/ conn' = NoConn
      BY <1>1 DEF ConnectionDrop, ClientInv, ClosedForGood
    <2> QED BY <2>1, <2>2, <2>3, <2>4, <2>5, InvFromFacts
  <1>2. CASE BrokerRecovers
    BY <1>2 DEF BrokerRecovers, ClientInv, TypeOK, NoConnectionLeak, NoStrandedChannel,
       ClosedForGood, PubInv, publisher, net
  <1>3. CASE ChannelDrop
    <2>1. faults' \in 0..MaxFaults /\ faults' > faults
      BY <1>3 DEF ChannelDrop, Fault, ClientInv, TypeOK
    <2>2. /\ chan' \in [Consumers -> ConnIds \cup {NoConn}]
          /\ \A c \in Consumers : chan'[c] # NoConn => chan'[c] = chan[c]
      BY <1>3 DEF ChannelDrop, ClientInv, TypeOK
    <2>3. pubOpen' \in BOOLEAN /\ (pubOpen' => pubOpen)
      <3>1. CASE pubOpen' = FALSE
        BY <3>1
      <3>2. CASE pubOpen' = pubOpen
        BY <3>2 DEF ClientInv, TypeOK
      <3> QED BY <1>3, <3>1, <3>2 DEF ChannelDrop
    <2>4. UNCHANGED <<up, live, conn, pc, mutexHeld, pub, result, blame, cancelled, closed>>
      BY <1>3 DEF ChannelDrop, publisher
    <2>5. TypeOK'
      BY <2>1, <2>2, <2>3, <2>4 DEF ClientInv, TypeOK, publisher
    <2>6. PubInv'
      BY <2>1, <2>3, <2>4 DEF ClientInv, TypeOK, PubInv, publisher
    <2> QED BY <2>2, <2>4, <2>5, <2>6
            DEF ClientInv, NoConnectionLeak, NoStrandedChannel, ClosedForGood
  <1> QED BY <1>1, <1>2, <1>3

\* What a publish step may do to the publisher's own state, given what it did to the network.
LEMMA PublishInv ==
  ASSUME ClientInv, PublishLock \/ PublishStep
  PROVE  ClientInv'
  <1> USE NoConnAssumption, MaxFaultsAssumption
  <1>1. CASE PublishLock
    <2>1. UNCHANGED <<up, live, conn, pubOpen, faults, chan, pc, cancelled, closed>>
      BY <1>1 DEF PublishLock, net
    <2>2. pub' = "ensure" /\ mutexHeld' = TRUE /\ result' = "none" /\ blame' = faults
      BY <1>1 DEF PublishLock
    <2>3. TypeOK'
      BY <2>1, <2>2 DEF ClientInv, TypeOK, PublisherPhases
    <2>4. PubInv'
      BY <2>1, <2>2 DEF ClientInv, TypeOK, PubInv
    <2> QED BY <2>1, <2>3, <2>4 DEF ClientInv, NoConnectionLeak, NoStrandedChannel, ClosedForGood
  <1>2. ASSUME /\ live' \in SUBSET ConnIds /\ conn' \in ConnIds \cup {NoConn}
               /\ pubOpen' \in BOOLEAN
               /\ live' \subseteq {conn'} /\ (pubOpen' => conn' \in live')
               /\ (closed => live' = {} /\ conn' = NoConn) /\ (~up => live' = {})
               /\ faults' \in 0..MaxFaults /\ faults' >= faults,
               chan' = Surviving,
               UNCHANGED <<up, pc, blame, cancelled, closed>>,
               pub' \in PublisherPhases, result' \in {"none", "ok", "error"},
               mutexHeld' \in BOOLEAN, mutexHeld' <=> pub' # "idle",
               pub' # "idle" => ~closed,
               pub' = "write" /\ ~pubOpen' => faults' > blame,
               pub' \in {"redial", "rewrite"} => faults' > blame
        PROVE  ClientInv'
    <2>1. /\ chan' \in [Consumers -> ConnIds \cup {NoConn}]
          /\ \A c \in Consumers : chan'[c] # NoConn =>
                chan'[c] = conn' /\ conn' \in live' /\ pc[c] \in {"declare", "bind", "consume"}
      BY <1>2, SurvivingFacts
    <2>2. TypeOK'
      BY <1>2, <2>1 DEF ClientInv, TypeOK
    <2>3. PubInv'
      BY <1>2 DEF ClientInv, TypeOK, PubInv
    <2> QED BY <1>2, <2>1, <2>2, <2>3, InvFromFacts
  <1>3. CASE PublishEnsure
    <2>1. CASE EnsureConnected(TRUE) /\ PublishContinue("write")
      <3>1. pub' = "write" /\ UNCHANGED <<mutexHeld, result, blame>> /\ pub = "ensure"
        BY <1>3, <2>1 DEF PublishContinue, PublishEnsure
      <3> QED BY <1>2, <1>3, <2>1, <3>1, EnsureFacts
              DEF PublishEnsure, ClientInv, TypeOK, PubInv, PublisherPhases
    <2>2. CASE EnsureConnected(FALSE) /\ PublishReturn("error")
      <3>1. pub' = "idle" /\ mutexHeld' = FALSE /\ result' = "error" /\ UNCHANGED blame
        BY <2>2 DEF PublishReturn
      <3> QED BY <1>2, <1>3, <2>2, <3>1, EnsureFacts
              DEF PublishEnsure, ClientInv, TypeOK, PubInv, PublisherPhases
    <2> QED BY <1>3, <2>1, <2>2 DEF PublishEnsure
  <1>4. ASSUME WriteBreaks, PublishReturn("error"), chan' = Surviving,
               UNCHANGED <<up, pc, cancelled, closed>>
        PROVE  ClientInv'
    <2>1. pub' = "idle" /\ mutexHeld' = FALSE /\ result' = "error" /\ UNCHANGED blame
      BY <1>4 DEF PublishReturn
    <2>2. /\ live' = {} /\ pubOpen' = FALSE /\ UNCHANGED conn
          /\ faults' \in 0..MaxFaults /\ faults' >= faults
      BY <1>4 DEF WriteBreaks, Fault, ClientInv, TypeOK
    <2> QED BY <1>2, <1>4, <2>1, <2>2 DEF ClientInv, TypeOK, ClosedForGood, PublisherPhases
  <1>5. ASSUME UNCHANGED net, chan' = Surviving, UNCHANGED <<up, pc, cancelled, closed>>,
               NEW r \in {"ok", "error"}, PublishReturn(r)
        PROVE  ClientInv'
    <2>1. pub' = "idle" /\ mutexHeld' = FALSE /\ result' = r /\ UNCHANGED blame
      BY <1>5 DEF PublishReturn
    <2>2. UNCHANGED <<live, conn, pubOpen, faults>>
      BY <1>5 DEF net
    <2>3. /\ live' \in SUBSET ConnIds /\ conn' \in ConnIds \cup {NoConn}
          /\ pubOpen' \in BOOLEAN
          /\ live' \subseteq {conn'} /\ (pubOpen' => conn' \in live')
          /\ (closed => live' = {} /\ conn' = NoConn) /\ (~up => live' = {})
          /\ faults' \in 0..MaxFaults /\ faults' >= faults
      BY <2>2 DEF ClientInv, TypeOK, PubInv, NoConnectionLeak, ClosedForGood
    <2> QED BY <1>2, <1>5, <2>1, <2>3 DEF PublisherPhases
  <1>6. CASE PublishWrite
    <2>1. CASE ~pubOpen /\ PublishContinue("redial") /\ UNCHANGED net
      <3>1. /\ pub' = "redial" /\ UNCHANGED <<mutexHeld, result, blame>>
            /\ pub = "write" /\ faults > blame /\ ~closed
        BY <1>6, <2>1 DEF PublishContinue, PublishWrite, ClientInv, PubInv
      <3> QED BY <1>2, <1>6, <2>1, <3>1
              DEF PublishWrite, net, ClientInv, TypeOK, PubInv, NoConnectionLeak, PublisherPhases
    <2> QED BY <1>4, <1>5, <1>6, <2>1 DEF PublishWrite
  <1>7. CASE PublishRedial
    <2>1. pub = "redial" /\ ~closed /\ faults > blame
      BY <1>7 DEF PublishRedial, ClientInv, PubInv
    <2>2. CASE Connect(TRUE) /\ PublishContinue("rewrite")
      <3>1. pub' = "rewrite" /\ UNCHANGED <<mutexHeld, result, blame>>
        BY <2>2 DEF PublishContinue
      <3>2. /\ live' \in SUBSET ConnIds /\ conn' \in ConnIds \cup {NoConn}
            /\ pubOpen' = TRUE /\ live' = {conn'} /\ up
            /\ faults' \in 0..MaxFaults /\ faults' >= faults
        BY <2>2, ConnectFacts
      <3>3. faults \in 0..MaxFaults /\ blame \in 0..MaxFaults /\ result \in {"none", "ok", "error"}
            /\ mutexHeld = TRUE
        BY <2>1 DEF ClientInv, TypeOK, PubInv
      <3>4. chan' = Surviving /\ UNCHANGED <<up, pc, cancelled, closed>>
        BY <1>7 DEF PublishRedial
      <3> QED BY <1>2, <2>1, <3>1, <3>2, <3>3, <3>4 DEF PublisherPhases
    <2>3. CASE Connect(FALSE) /\ PublishReturn("error")
      <3>1. pub' = "idle" /\ mutexHeld' = FALSE /\ result' = "error" /\ UNCHANGED blame
        BY <2>3 DEF PublishReturn
      <3> QED BY <1>2, <1>7, <2>1, <2>3, <3>1, ConnectFacts
              DEF PublishRedial, ClientInv, TypeOK, PublisherPhases
    <2> QED BY <1>7, <2>2, <2>3 DEF PublishRedial
  <1>8. CASE PublishRewrite
    BY <1>4, <1>5, <1>8 DEF PublishRewrite
  <1> QED BY <1>1, <1>3, <1>6, <1>7, <1>8 DEF PublishStep

\* openChannel at any of its two call sites.
LEMMA OpenChannelInv ==
  ASSUME ClientInv, NEW c \in Consumers,
         NEW from \in ConsumerPhases, NEW opened \in {"declare", "bind"},
         NEW failed \in ConsumerPhases,
         from \notin {"declare", "bind", "consume"},
         OpenChannelFrom(c, from, opened, failed)
  PROVE  ClientInv'
  <1> USE NoConnAssumption, MaxFaultsAssumption
  <1>1. /\ pc[c] = from /\ ~mutexHeld
        /\ UNCHANGED <<up, mutexHeld, pub, result, blame, cancelled, closed>>
    BY DEF OpenChannelFrom, publisher
  <1>2. PICK ok \in BOOLEAN : /\ EnsureConnected(ok)
                              /\ chan' = IF ok THEN [Surviving EXCEPT ![c] = conn'] ELSE Surviving
                              /\ Goto(c, IF ok THEN opened ELSE failed)
    BY DEF OpenChannelFrom
  <1>3. /\ live' \in SUBSET ConnIds /\ conn' \in ConnIds \cup {NoConn}
        /\ pubOpen' \in BOOLEAN
        /\ live' \subseteq {conn'} /\ (pubOpen' => conn' \in live')
        /\ (ok => pubOpen')
        /\ (closed => live' = {} /\ conn' = NoConn) /\ (~up => live' = {})
        /\ faults' \in 0..MaxFaults /\ faults' >= faults
    BY <1>2, EnsureFacts
  <1> DEFINE S == Surviving
  <1>4. /\ S \in [Consumers -> ConnIds \cup {NoConn}]
        /\ \A d \in Consumers : S[d] # NoConn =>
              S[d] = conn' /\ conn' \in live' /\ pc[d] \in {"declare", "bind", "consume"}
    BY <1>3 DEF ClientInv, TypeOK, NoStrandedChannel, Surviving
  <1> HIDE DEF S
  <1>5. chan' = IF ok THEN [S EXCEPT ![c] = conn'] ELSE S
    BY <1>2 DEF S
  <1>6. pc' = [pc EXCEPT ![c] = IF ok THEN opened ELSE failed] /\ pc \in [Consumers -> ConsumerPhases]
    BY <1>2 DEF Goto, ClientInv, TypeOK
  <1>7. chan' \in [Consumers -> ConnIds \cup {NoConn}] /\ pc' \in [Consumers -> ConsumerPhases]
    BY <1>3, <1>4, <1>5, <1>6 DEF ConsumerPhases
  <1>8. ASSUME NEW d \in Consumers, chan'[d] # NoConn
        PROVE  chan'[d] = conn' /\ conn' \in live' /\ pc'[d] \in {"declare", "bind", "consume"}
    <2>1. CASE d = c
      BY <1>1, <1>3, <1>4, <1>5, <1>6, <1>8, <2>1
    <2>2. CASE d # c
      BY <1>4, <1>5, <1>6, <1>8, <2>2
    <2> QED BY <2>1, <2>2
  <1>9. TypeOK'
    BY <1>1, <1>3, <1>7 DEF ClientInv, TypeOK
  <1>10. PubInv'
    BY <1>1, <1>3 DEF ClientInv, TypeOK, PubInv
  <1> QED BY <1>1, <1>3, <1>8, <1>9, <1>10, InvFromFacts

\* A consumer step that moves c and may close c's own channel, nothing else.
LEMMA OwnChannelInv ==
  ASSUME ClientInv, NEW c \in Consumers, NEW phase \in ConsumerPhases, Goto(c, phase),
         \/ chan' = [chan EXCEPT ![c] = NoConn]
         \/ UNCHANGED chan /\ (phase \in {"bind", "consume"} \/ chan[c] = NoConn),
         UNCHANGED <<up, net, publisher, cancelled, closed>>
  PROVE  ClientInv'
  <1> USE NoConnAssumption, MaxFaultsAssumption
  <1>1. pc' = [pc EXCEPT ![c] = phase] /\ pc \in [Consumers -> ConsumerPhases]
    BY DEF Goto, ClientInv, TypeOK
  <1>2. UNCHANGED <<up, live, conn, pubOpen, faults, mutexHeld, pub, result, blame, cancelled, closed>>
    BY DEF net, publisher
  <1>3. chan' \in [Consumers -> ConnIds \cup {NoConn}] /\ pc' \in [Consumers -> ConsumerPhases]
    BY <1>1 DEF ClientInv, TypeOK
  <1>4. ASSUME NEW d \in Consumers, chan'[d] # NoConn
        PROVE  chan'[d] = conn' /\ conn' \in live' /\ pc'[d] \in {"declare", "bind", "consume"}
    <2>1. chan \in [Consumers -> ConnIds \cup {NoConn}]
      BY DEF ClientInv, TypeOK
    <2>2. chan[d] = chan'[d] /\ (d # c \/ phase \in {"bind", "consume"})
      BY <1>4, <2>1
    <2> QED BY <1>1, <1>2, <1>4, <2>2 DEF ClientInv, NoStrandedChannel
  <1>5. TypeOK'
    BY <1>2, <1>3 DEF ClientInv, TypeOK
  <1>6. PubInv'
    BY <1>2 DEF ClientInv, TypeOK, PubInv
  <1> QED BY <1>2, <1>4, <1>5, <1>6, InvFromFacts
          DEF ClientInv, NoConnectionLeak, ClosedForGood

\* Every step of a consumer goroutine.
LEMMA ConsumerInv ==
  ASSUME ClientInv, NEW c \in Consumers, ConsumerStep(c)
  PROVE  ClientInv'
  <1> USE NoConnAssumption, MaxFaultsAssumption
  <1>0. AfterOnce \in {"wait", "done"}
    BY DEF AfterOnce
  <1>1. CASE SetupOpen(c)
    BY <1>1, OpenChannelInv DEF SetupOpen, ConsumerPhases
  <1>2. CASE OpenChannel(c)
    BY <1>0, <1>2, OpenChannelInv DEF OpenChannel, ConsumerPhases
  <1>3. CASE SetupDeclare(c)
    BY <1>3, OwnChannelInv DEF SetupDeclare, ConsumerPhases
  <1>4. CASE Subscribe(c)
    <2> DEFINE phase == IF chan[c] # NoConn /\ ~cancelled THEN "consume" ELSE AfterOnce
    <2>1. phase \in ConsumerPhases /\ Goto(c, phase)
      BY <1>0, <1>4 DEF Subscribe, ConsumerPhases
    <2>2. \/ chan' = [chan EXCEPT ![c] = NoConn]
          \/ UNCHANGED chan /\ (phase \in {"bind", "consume"} \/ chan[c] = NoConn)
      BY <1>4 DEF Subscribe
    <2>3. UNCHANGED <<up, net, publisher, cancelled, closed>>
      BY <1>4 DEF Subscribe
    <2> QED BY <2>1, <2>2, <2>3, OwnChannelInv
  <1>5. CASE StreamEnds(c)
    BY <1>0, <1>5, OwnChannelInv DEF StreamEnds, ConsumerPhases
  <1>6. CASE Wake(c)
    <2>1. chan[c] = NoConn
      BY <1>6 DEF Wake, ClientInv, NoStrandedChannel
    <2> DEFINE phase == IF cancelled THEN "done" ELSE "reconnect"
    <2>2. phase \in ConsumerPhases /\ Goto(c, phase) /\ UNCHANGED chan
      BY <1>6 DEF Wake, ConsumerPhases
    <2>3. UNCHANGED <<up, net, publisher, cancelled, closed>>
      BY <1>6 DEF Wake
    <2> QED BY <2>1, <2>2, <2>3, OwnChannelInv
  <1>7. CASE Reconnect(c)
    <2>1. /\ pc[c] = "reconnect" /\ ~mutexHeld /\ chan' = Surviving
          /\ pc' = [pc EXCEPT ![c] = "open"] /\ pc \in [Consumers -> ConsumerPhases]
          /\ UNCHANGED <<up, mutexHeld, pub, result, blame, cancelled, closed>>
      BY <1>7 DEF Reconnect, Goto, publisher, ClientInv, TypeOK
    <2>2. /\ live' \in SUBSET ConnIds /\ conn' \in ConnIds \cup {NoConn}
          /\ pubOpen' \in BOOLEAN
          /\ live' \subseteq {conn'} /\ (pubOpen' => conn' \in live')
          /\ (closed => live' = {} /\ conn' = NoConn) /\ (~up => live' = {})
          /\ faults' \in 0..MaxFaults /\ faults' >= faults
      <3>1. CASE closed
        <4>1. UNCHANGED <<live, conn, pubOpen, faults>>
          BY <1>7, <3>1 DEF Reconnect, net
        <4> QED BY <4>1 DEF ClientInv, TypeOK, PubInv, NoConnectionLeak, ClosedForGood
      <3>2. CASE ~closed
        <4>1. PICK ok \in BOOLEAN : Connect(ok)
          BY <1>7, <3>2 DEF Reconnect
        <4>2. /\ live' \in SUBSET ConnIds /\ conn' \in ConnIds \cup {NoConn}
              /\ pubOpen' = ok /\ live' = (IF ok THEN {conn'} ELSE {}) /\ (ok => up)
              /\ faults' \in 0..MaxFaults /\ faults' >= faults
          BY <4>1, ConnectFacts
        <4> QED BY <3>2, <4>2
      <3> QED BY <3>1, <3>2
    <2>3. /\ chan' \in [Consumers -> ConnIds \cup {NoConn}]
          /\ \A d \in Consumers : chan'[d] # NoConn =>
                chan'[d] = conn' /\ conn' \in live' /\ pc[d] \in {"declare", "bind", "consume"}
      BY <2>1, <2>2, SurvivingFacts
    <2>4. \A d \in Consumers : chan'[d] # NoConn =>
              chan'[d] = conn' /\ conn' \in live' /\ pc'[d] \in {"declare", "bind", "consume"}
      BY <2>1, <2>3
    <2>5. pc' \in [Consumers -> ConsumerPhases]
      BY <2>1 DEF ConsumerPhases
    <2>6. TypeOK'
      BY <2>1, <2>2, <2>3, <2>5 DEF ClientInv, TypeOK
    <2>7. PubInv'
      BY <2>1, <2>2 DEF ClientInv, TypeOK, PubInv
    <2> QED BY <2>1, <2>2, <2>4, <2>6, <2>7, InvFromFacts
  <1> QED BY <1>1, <1>2, <1>3, <1>4, <1>5, <1>6, <1>7 DEF ConsumerStep

\* Cancelling the context, and Close.
LEMMA ShutdownInv ==
  ASSUME ClientInv, Cancel \/ Close
  PROVE  ClientInv'
  <1> USE NoConnAssumption, MaxFaultsAssumption
  <1>1. CASE Cancel
    BY <1>1 DEF Cancel, ClientInv, TypeOK, NoConnectionLeak, NoStrandedChannel,
       ClosedForGood, PubInv, publisher, net
  <1>2. CASE Close
    <2>1. /\ ~mutexHeld /\ closed' = TRUE /\ conn' = NoConn /\ live' = {} /\ pubOpen' = FALSE
          /\ chan' = Surviving
          /\ UNCHANGED <<up, faults, pc, mutexHeld, pub, result, blame, cancelled>>
      BY <1>2 DEF Close, publisher, ClientInv, NoConnectionLeak
    <2>2. /\ chan' \in [Consumers -> ConnIds \cup {NoConn}]
          /\ \A d \in Consumers : chan'[d] = NoConn
      BY <2>1, SurvivingFacts
    <2>3. TypeOK'
      BY <2>1, <2>2 DEF ClientInv, TypeOK
    <2>4. PubInv'
      BY <2>1 DEF ClientInv, TypeOK, PubInv
    <2> QED BY <2>1, <2>2, <2>3, <2>4, InvFromFacts
  <1> QED BY <1>1, <1>2

-----------------------------------------------------------------------------

\* ClientInv is inductive.
LEMMA StepInv == ClientInv /\ [Next]_vars => ClientInv'
  <1> SUFFICES ASSUME ClientInv, [Next]_vars PROVE ClientInv'
    OBVIOUS
  <1>1. CASE UNCHANGED vars
    <2>1. UNCHANGED <<up, live, conn, pubOpen, faults, chan, pc, mutexHeld, pub, result, blame,
                      cancelled, closed>>
      BY <1>1 DEF vars, net, publisher
    <2> QED BY <2>1 DEF ClientInv, TypeOK, NoConnectionLeak, NoStrandedChannel, ClosedForGood, PubInv
  <1>2. CASE Next
    BY <1>2, BrokerInv, PublishInv, ConsumerInv, ShutdownInv DEF Next
  <1> QED BY <1>1, <1>2

\* Type correctness and every safety property of the client, for any consumers, connection
\* names and number of faults: one connection at most, no channel left on a replaced
\* connection, nothing after Close.
THEOREM ClientSafety == Spec => []Safety
  <1>1. ClientInv => Safety
    BY DEF ClientInv, Safety
  <1> QED BY <1>1, InitInv, StepInv, PTL DEF Spec

\* A publish that returns an error was hit by a fault, an outage or Close while it ran:
\* reconnecting consumers and earlier faults are no excuse.
THEOREM PublishErrorsAreExplained == Spec => PublishErrorBlamed
  <1> DEFINE Explained == result' = "error" /\ result # "error" =>
                             faults' > blame \/ ~up \/ closed
  <1>1. ClientInv /\ [Next]_vars => [Explained]_vars
    <2> SUFFICES ASSUME ClientInv, Next, result' = "error", result # "error"
                 PROVE  faults' > blame \/ ~up \/ closed
      BY DEF vars, publisher
    <2>1. faults \in 0..MaxFaults /\ blame \in 0..MaxFaults /\ blame <= faults
      BY DEF ClientInv, TypeOK, PubInv
    <2>2. PublishStep
      BY DEF Next, ConnectionDrop, BrokerRecovers, ChannelDrop, PublishLock, ConsumerStep,
         SetupOpen, SetupDeclare, OpenChannel, OpenChannelFrom, Subscribe, StreamEnds, Wake,
         Reconnect, Cancel, Close, publisher
    <2>3. CASE PublishEnsure
      <3>1. EnsureConnected(FALSE)
        BY <2>3 DEF PublishEnsure, PublishContinue
      <3>2. closed \/ ~up \/ faults' > faults
        BY <3>1, EnsureFacts
      <3>3. faults' \in 0..MaxFaults
        BY <3>1, EnsureFacts
      <3> QED BY <2>1, <3>2, <3>3, MaxFaultsAssumption
    <2>4. CASE PublishWrite
      <3>1. WriteBreaks
        BY <2>4 DEF PublishWrite, PublishContinue, PublishReturn
      <3> QED BY <2>1, <3>1, MaxFaultsAssumption DEF WriteBreaks, Fault
    <2>5. CASE PublishRedial
      <3>1. Connect(FALSE)
        BY <2>5 DEF PublishRedial, PublishContinue
      <3>2. (~up \/ faults' > faults) /\ faults' \in 0..MaxFaults
        BY <3>1, ConnectFacts
      <3> QED BY <2>1, <2>5, <3>2, MaxFaultsAssumption DEF PublishRedial, ClientInv, PubInv
    <2>6. CASE PublishRewrite
      <3>1. faults > blame
        BY <2>6 DEF PublishRewrite, ClientInv, PubInv
      <3>2. faults' = faults \/ faults' = faults + 1
        BY <2>6 DEF PublishRewrite, WriteBreaks, Fault, net
      <3> QED BY <2>1, <3>1, <3>2, MaxFaultsAssumption
    <2> QED BY <2>2, <2>3, <2>4, <2>5, <2>6 DEF PublishStep
  <1> QED BY <1>1, InitInv, StepInv, PTL DEF Spec, PublishErrorBlamed
=============================================================================
