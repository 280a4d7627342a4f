---------------------------- MODULE YamlSink_proofs ----------------------------
(***************************************************************************)
(* persister-yaml's safety, for any files, entities, faults and stops:     *)
(* files and commits are whole, acknowledged entities are on disk, and     *)
(* what is staged is committed unless git fails.                           *)
(***************************************************************************)
EXTENDS YamlSink, TLAPS

-----------------------------------------------------------------------------
(***************************************************************************)
(* The inductive invariant: one part for the stream of entities, one for   *)
(* the repository.  They meet in the mutex and in the work tree.           *)
(***************************************************************************)

\* What is written, but for the temporary files.
Tree == [Files -> Content \cup {0}]

StreamTypes ==
    /\ published \in 0..MaxEntities /\ queue \in Seq(Entity) /\ pos \in 0..Len(queue)
    /\ taken \in Entity \cup {None} /\ orphan \in BOOLEAN
    /\ tmp \in [Files -> Content \cup {0, Half}] /\ disk \in Tree /\ settled \in Tree
    /\ mu = "write" => taken # None /\ taken.file \in Files

\* The entity in the handler is still queued, behind those that are done; it is the next one
\* unless its channel is lost, after which nothing is done before it.
InHand ==
    taken # None =>
        /\ orphan => pos = 0
        /\ \E k \in (pos + 1)..Len(queue) : queue[k] = taken /\ (~orphan => k = pos + 1)

\* The queue is in order of publishing, and newer than what is acknowledged ...
Ordered ==
    /\ \A f \in Files : settled[f] <= published
    /\ \A k \in 1..Len(queue) : queue[k].n <= published
    /\ \A k \in 1..Len(queue) : queue[k].file \in Files => settled[queue[k].file] < queue[k].n
    /\ \A i, j \in 1..Len(queue) : i < j => queue[i].n < queue[j].n

\* ... and what the handler is done with is on disk.
DoneOnDisk ==
    \A k \in 1..pos : queue[k].file \in Files => queue[k].n <= disk[queue[k].file]

StreamInv == StreamTypes /\ InHand /\ Ordered /\ DoneOnDisk /\ AckedOnDisk

RepoTypes ==
    /\ index \in Tree /\ head \in Tree /\ remote \in Tree /\ locked \in BOOLEAN
    /\ mu \in {"free", "write", "git"}
    /\ mu = "git" <=> git # "off"
    /\ git \in {"off", "list", "add", "commit", "push", "hung", "child"} /\ listed \subseteq Files
    /\ proc \in {"starting", "up", "stopping", "leaving", "down"}
    /\ config \in [commit : BOOLEAN, push : BOOLEAN] /\ broken \in BOOLEAN

\* What is staged is about to be committed.
Committed == ~broken => git = "commit" \/ index = head

RepoInv == RepoTypes /\ SyncIsStill /\ Committed

BoundsOK == faults \in 0..MaxFaults /\ stops \in 0..MaxStops

SinkInv == StreamInv /\ RepoInv /\ BoundsOK

LEMMA InvSafe == SinkInv => Safety /\ AckedOnDisk /\ StagedUnlessFault
  <1> SUFFICES ASSUME SinkInv PROVE Safety /\ AckedOnDisk /\ StagedUnlessFault
    OBVIOUS
  <1> USE DEF SinkInv, StreamInv, RepoInv, BoundsOK
  <1>1. \A tree \in Tree : tree \in [Files -> Content \cup {0, Half}] /\ \A f \in Files : tree[f] # Half
    BY YamlAssumption DEF Tree, Content, Half
  <1>2. TypeOK
    <2>1. settled \in [Files -> Content \cup {0}]
      BY DEF StreamTypes, Tree
    <2> QED BY <1>1, <2>1 DEF TypeOK, StreamTypes, RepoTypes
  <1>3. FilesWhole
    BY <1>1 DEF FilesWhole, StreamTypes, RepoTypes
  <1>4. StagedUnlessFault
    BY DEF StagedUnlessFault, Committed
  <1> QED BY <1>2, <1>3, <1>4 DEF Safety

-----------------------------------------------------------------------------
(***************************************************************************)
(* Steps that leave one part alone.                                        *)
(***************************************************************************)

LEMMA StreamKept ==
    ASSUME StreamInv, UNCHANGED <<broker, handler>>, mu' = "write" => mu = "write"
    PROVE  StreamInv'
  BY DEF StreamInv, StreamTypes, InHand, Ordered, DoneOnDisk, AckedOnDisk, broker, handler

LEMMA RepoKept ==
    ASSUME RepoInv, UNCHANGED <<repo, sync, proc, config>>, mu' \in {"free", "write", "git"},
           mu' = "git" <=> mu = "git",
           git = "off" \/ UNCHANGED disk
    PROVE  RepoInv'
  BY DEF RepoInv, RepoTypes, SyncIsStill, Committed, repo, sync

LEMMA BoundsKept ==
    ASSUME BoundsOK, Fault \/ NoFault
    PROVE  BoundsOK'
  BY YamlAssumption DEF BoundsOK, Fault, NoFault

-----------------------------------------------------------------------------
(***************************************************************************)
(* The entity stream.                                                      *)
(***************************************************************************)

LEMMA InitSink == Init => SinkInv
  <1> SUFFICES ASSUME Init PROVE SinkInv
    OBVIOUS
  <1>1. Empty \in Tree /\ Empty \in [Files -> Content \cup {0, Half}] /\ \A f \in Files : Empty[f] = 0
    BY DEF Empty, Tree
  <1>2. StreamInv
    <2>1. queue \in Seq(Entity) /\ Len(queue) = 0 /\ pos \in 0..Len(queue) /\ published \in 0..MaxEntities
      BY YamlAssumption DEF Init
    <2>2. StreamTypes
      BY <1>1, <2>1 DEF Init, StreamTypes
    <2>3. InHand /\ DoneOnDisk
      BY <2>1 DEF Init, InHand, DoneOnDisk
    <2>4. Ordered /\ AckedOnDisk
      BY <1>1, <2>1 DEF Init, Ordered, AckedOnDisk
    <2> QED BY <2>2, <2>3, <2>4 DEF StreamInv
  <1>3. RepoInv
    BY <1>1 DEF Init, RepoInv, RepoTypes, SyncIsStill, Committed
  <1>4. BoundsOK
    BY YamlAssumption DEF Init, BoundsOK
  <1> QED BY <1>2, <1>3, <1>4 DEF SinkInv

\* The new entity is the newest, and goes behind the others.
LEMMA PublishKeeps ==
    ASSUME SinkInv, NEW f \in Files \cup {Refused}, Publish(f)
    PROVE  SinkInv'
  <1> USE DEF SinkInv, StreamInv
  <1> DEFINE e == [file |-> f, n |-> published + 1]
  <1>1. /\ published \in Nat /\ published' = published + 1 /\ published' \in 0..MaxEntities
        /\ published' \in Content
    BY YamlAssumption DEF Publish, StreamTypes, Content
  <1>2. e \in Entity /\ e.n = published' /\ e.file = f
    BY <1>1 DEF Entity
  <1>3. queue' = Append(queue, e) /\ queue \in Seq(Entity)
    BY <1>1 DEF Publish, StreamTypes
  <1> HIDE DEF e
  <1>4. /\ queue' \in Seq(Entity) /\ Len(queue') = Len(queue) + 1
        /\ \A k \in 1..Len(queue) : queue'[k] = queue[k] /\ queue[k] \in Entity
        /\ queue'[Len(queue) + 1] = e
    BY <1>2, <1>3
  <1>5. /\ UNCHANGED <<pos, settled, taken, orphan, tmp, disk, mu, repo, sync, proc, config>>
        /\ NoFault
    BY DEF Publish, handler, NoFault
  <1>6. pos \in Nat /\ Len(queue) \in Nat /\ pos <= Len(queue)
    BY <1>3 DEF StreamTypes
  <1>7. StreamTypes'
    BY <1>1, <1>4, <1>5, <1>6 DEF StreamTypes
  <1>8. InHand'
    BY <1>4, <1>5, <1>6 DEF InHand
  <1>9. Ordered'
    <2>1. \A k \in 1..Len(queue') : k = Len(queue) + 1 \/ k \in 1..Len(queue)
      BY <1>4, <1>6
    <2>2. \A k \in 1..Len(queue) : queue[k].n \in Nat
      BY <1>4, YamlAssumption DEF Entity, Content
    <2>3. \A k \in 1..Len(queue') : queue'[k].n <= published'
      BY <1>1, <1>2, <1>4, <2>1, <2>2 DEF Ordered
    <2>4. \A g \in Files : settled[g] <= published' /\ (g = f => settled[g] < e.n)
      <3>1. \A g \in Files : settled[g] \in Nat /\ settled[g] <= published
        BY YamlAssumption DEF Ordered, StreamTypes, Tree, Content
      <3> QED BY <1>1, <1>2, <3>1
    <2>5. \A k \in 1..Len(queue') :
             queue'[k].file \in Files => settled'[queue'[k].file] < queue'[k].n
      BY <1>2, <1>4, <1>5, <2>1, <2>4 DEF Ordered
    <2>6. \A i, j \in 1..Len(queue') : i < j => queue'[i].n < queue'[j].n
      BY <1>1, <1>2, <1>4, <1>6, <2>1, <2>2 DEF Ordered
    <2> QED BY <1>5, <2>3, <2>4, <2>5, <2>6 DEF Ordered
  <1>10. DoneOnDisk' /\ AckedOnDisk'
    BY <1>4, <1>5, <1>6 DEF DoneOnDisk, AckedOnDisk
  <1>11. RepoInv'
    BY <1>5, RepoKept DEF RepoInv, RepoTypes
  <1> QED BY <1>5, <1>7, <1>8, <1>9, <1>10, <1>11, BoundsKept

LEMMA TakeKeeps ==
    ASSUME SinkInv, Take
    PROVE  SinkInv'
  <1> USE DEF SinkInv, StreamInv
  <1>1. UNCHANGED <<broker, tmp, disk, mu, repo, sync, proc, config, faults, stops>>
    BY DEF Take
  <1>2. taken = None /\ pos \in Nat /\ Len(queue) \in Nat /\ pos + 1 \in (pos + 1)..Len(queue)
    BY DEF Take, StreamTypes
  <1>3. taken' = queue[pos + 1] /\ orphan' = FALSE /\ queue[pos + 1] \in Entity
    BY <1>2 DEF Take, StreamTypes
  <1>4. StreamTypes'
    BY <1>1, <1>2, <1>3 DEF StreamTypes, broker
  <1>5. InHand'
    BY <1>1, <1>2, <1>3 DEF InHand, broker
  <1>6. Ordered' /\ DoneOnDisk' /\ AckedOnDisk'
    BY <1>1 DEF Ordered, DoneOnDisk, AckedOnDisk, broker
  <1>7. RepoInv'
    BY <1>1, RepoKept DEF RepoInv, RepoTypes
  <1> QED BY <1>1, <1>4, <1>5, <1>6, <1>7 DEF BoundsOK

\* The entity a failed handler is done with leaves the queue, or stays with a lost channel.
LEMMA FailureKeeps ==
    ASSUME StreamInv, taken # None, HandlerFails, UNCHANGED disk, mu' = "free",
           tmp' \in [Files -> Content \cup {0, Half}]
    PROVE  StreamInv'
  <1> USE DEF StreamInv
  <1>1. UNCHANGED <<published, pos, settled, orphan>> /\ taken' = None
    BY DEF HandlerFails
  <1>2. InHand'
    BY <1>1 DEF InHand
  <1>3. CASE orphan
    <2>1. queue' = queue
      BY <1>3 DEF HandlerFails
    <2> QED BY <1>1, <1>2, <2>1 DEF StreamTypes, Ordered, DoneOnDisk, AckedOnDisk
  <1>4. CASE ~orphan
    <2> DEFINE n == Len(queue)
               at(k) == IF k <= pos THEN k ELSE k + 1
    <2>1. n \in Nat /\ pos \in Nat /\ pos < n
      BY <1>4 DEF InHand, StreamTypes
    <2>2. \A k \in 1..(n - 1) : at(k) \in 1..n /\ queue[at(k)] \in Entity
      BY <2>1 DEF StreamTypes
    <2>3. queue' = [k \in 1..(n - 1) |-> queue[at(k)]]
      BY <1>4 DEF HandlerFails
    <2>4. queue' \in Seq(Entity) /\ Len(queue') = n - 1
      BY <2>1, <2>2, <2>3
    <2>5. \A i, j \in 1..(n - 1) : i < j => at(i) < at(j)
      BY <2>1
    <2>6. \A k \in 1..(n - 1) : queue'[k] = queue[at(k)]
      BY <2>3
    <2> HIDE DEF n, at
    <2>7. StreamTypes'
      BY <1>1, <2>1, <2>4 DEF StreamTypes
    <2>8. Ordered'
      BY <1>1, <2>2, <2>4, <2>5, <2>6 DEF Ordered, n
    <2>9. DoneOnDisk'
      <3>1. \A k \in 1..pos : at(k) = k /\ k \in 1..(n - 1)
        BY <2>1 DEF at
      <3> QED BY <1>1, <2>6, <3>1 DEF DoneOnDisk
    <2> QED BY <1>1, <1>2, <2>7, <2>8, <2>9 DEF AckedOnDisk
  <1> QED BY <1>3, <1>4

LEMMA WaitKeeps ==
    ASSUME SinkInv, Wait
    PROVE  SinkInv'
  <1> USE DEF SinkInv
  <1>1. CASE Refuse
    <2>1. StreamInv'
      BY <1>1, FailureKeeps DEF Refuse, StreamInv, StreamTypes
    <2>2. RepoInv'
      BY <1>1, RepoKept DEF Refuse, RepoInv, RepoTypes
    <2> QED BY <1>1, <2>1, <2>2, BoundsKept DEF Refuse
  <1>2. CASE BeginWrite
    <2>1. UNCHANGED <<broker, taken, orphan, disk, repo, sync, proc, config, faults, stops>>
      BY <1>2 DEF BeginWrite
    <2>2. StreamInv'
      BY <1>2, <2>1
      DEF BeginWrite, StreamInv, StreamTypes, InHand, Ordered, DoneOnDisk, AckedOnDisk, broker
    <2>3. RepoInv'
      BY <1>2, <2>1, RepoKept DEF BeginWrite
    <2> QED BY <2>1, <2>2, <2>3 DEF BoundsOK
  <1> QED BY <1>1, <1>2 DEF Wait

LEMMA WrittenKeeps ==
    ASSUME SinkInv, Written
    PROVE  SinkInv'
  <1> USE DEF SinkInv
  <1>1. UNCHANGED <<broker, taken, orphan, mu, disk, repo, sync, proc, config, faults, stops>>
    BY DEF Written
  <1>2. tmp' \in [Files -> Content \cup {0, Half}]
    BY DEF Written, StreamInv, StreamTypes, Entity
  <1>3. StreamInv'
    BY <1>1, <1>2 DEF StreamInv, StreamTypes, InHand, Ordered, DoneOnDisk, AckedOnDisk, broker
  <1>4. RepoInv'
    BY <1>1, RepoKept DEF RepoInv, RepoTypes
  <1> QED BY <1>1, <1>3, <1>4 DEF BoundsOK

LEMMA WriteFailsKeeps ==
    ASSUME SinkInv, WriteFails
    PROVE  SinkInv'
  <1> USE DEF SinkInv
  <1>1. StreamInv'
    <2>1. tmp' \in [Files -> Content \cup {0, Half}]
      BY DEF WriteFails, StreamInv, StreamTypes
    <2>2. taken # None
      BY DEF WriteFails, StreamInv, StreamTypes
    <2> QED BY <2>1, <2>2, FailureKeeps DEF WriteFails
  <1>2. RepoInv'
    BY RepoKept DEF WriteFails
  <1> QED BY <1>1, <1>2, BoundsKept DEF WriteFails

\* What is renamed is newer than all that is done, acknowledged or not.
LEMMA RenameKeeps ==
    ASSUME SinkInv, Rename
    PROVE  SinkInv'
  <1> USE DEF SinkInv, StreamInv
  <1>1. UNCHANGED <<published, queue, settled, orphan, repo, sync, proc, config, faults, stops>>
    BY DEF Rename
  <1>2. /\ mu = "write" /\ mu' = "free" /\ taken' = None
        /\ pos' = IF orphan THEN pos ELSE pos + 1
    BY DEF Rename
  <1>3. taken \in Entity /\ taken.file \in Files /\ taken # None
    BY <1>2 DEF StreamTypes
  <1>4. taken.n \in Content /\ taken.n \in Nat
    BY <1>3, YamlAssumption DEF Entity, Content
  <1>5. disk' = [disk EXCEPT ![taken.file] = taken.n] /\ disk' \in Tree
    BY <1>3, <1>4 DEF Rename, StreamTypes, Tree
  <1>6. pos \in Nat /\ Len(queue) \in Nat /\ \A k \in 1..Len(queue) : queue[k] \in Entity
    BY DEF StreamTypes
  <1>7. PICK h \in (pos + 1)..Len(queue) : queue[h] = taken /\ (~orphan => h = pos + 1)
    BY <1>3 DEF InHand
  <1>8. pos' \in 0..Len(queue) /\ (orphan => pos = 0)
    BY <1>2, <1>3, <1>6, <1>7 DEF InHand
  <1>9. StreamTypes'
    <2>1. tmp' \in [Files -> Content \cup {0, Half}]
      BY DEF Rename, StreamTypes
    <2> QED BY <1>1, <1>2, <1>5, <1>8, <2>1 DEF StreamTypes
  <1>10. InHand' /\ Ordered'
    BY <1>1, <1>2 DEF InHand, Ordered
  <1>11. DoneOnDisk'
    <2> SUFFICES ASSUME NEW k \in 1..pos', queue[k].file \in Files
                 PROVE  queue[k].n <= disk'[queue[k].file]
      BY <1>1 DEF DoneOnDisk
    <2>1. k \in 1..Len(queue) /\ h \in 1..Len(queue) /\ k <= h /\ (k < h => k \in 1..pos)
      BY <1>2, <1>6, <1>7, <1>8
    <2>2. queue[k].n \in Nat
      BY <1>6, <2>1, YamlAssumption DEF Entity, Content
    <2>3. k < h => queue[k].n < taken.n
      BY <1>7, <2>1 DEF Ordered
    <2>4. CASE queue[k].file = taken.file
      BY <1>4, <1>5, <1>7, <2>1, <2>2, <2>3, <2>4 DEF StreamTypes, Tree
    <2>5. CASE queue[k].file # taken.file
      BY <1>5, <1>7, <2>1, <2>5 DEF StreamTypes, Tree, DoneOnDisk
    <2> QED BY <2>4, <2>5
  <1>12. AckedOnDisk'
    <2>1. h \in 1..Len(queue) /\ settled[taken.file] < taken.n
      BY <1>3, <1>6, <1>7 DEF Ordered
    <2>2. settled[taken.file] \in Nat
      BY <1>3, YamlAssumption DEF StreamTypes, Tree, Content
    <2> QED BY <1>1, <1>4, <1>5, <2>1, <2>2 DEF AckedOnDisk, StreamTypes, Tree
  <1>13. RepoInv'
    BY <1>1, <1>2, RepoKept DEF RepoInv, RepoTypes
  <1> QED BY <1>1, <1>9, <1>10, <1>11, <1>12, <1>13 DEF BoundsOK

\* What is acknowledged is the oldest, and on disk.
LEMMA SettleKeeps ==
    ASSUME SinkInv, Settle
    PROVE  SinkInv'
  <1> USE DEF SinkInv, StreamInv
  <1> DEFINE e == Head(queue)
  <1>1. UNCHANGED <<published, handler, mu, repo, sync, proc, config, faults, stops>>
    BY DEF Settle
  <1>2. pos \in Nat /\ pos > 0 /\ Len(queue) \in Nat /\ pos <= Len(queue) /\ queue \in Seq(Entity)
    BY DEF Settle, StreamTypes
  <1>3. e = queue[1] /\ e \in Entity /\ 1 \in 1..pos /\ 1 \in 1..Len(queue)
    BY <1>2
  <1>4. /\ queue' = Tail(queue) /\ queue' \in Seq(Entity) /\ Len(queue') = Len(queue) - 1
        /\ \A k \in 1..Len(queue') : queue'[k] = queue[k + 1] /\ k + 1 \in 1..Len(queue)
    BY <1>2 DEF Settle
  <1>5. pos' = pos - 1 /\ settled' = [settled EXCEPT ![e.file] = e.n]
    BY DEF Settle
  <1> HIDE DEF e
  <1>6. e.n \in Content /\ e.n \in Nat
    BY <1>3, YamlAssumption DEF Entity, Content
  <1>7. settled' \in Tree /\ \A f \in Files : settled'[f] = IF f = e.file THEN e.n ELSE settled[f]
    BY <1>5, <1>6 DEF StreamTypes, Tree
  <1>8. StreamTypes'
    BY <1>1, <1>2, <1>4, <1>5, <1>7 DEF StreamTypes, handler
  <1>9. InHand'
    <2> SUFFICES ASSUME taken # None
                 PROVE  \E k \in (pos' + 1)..Len(queue') :
                           queue'[k] = taken /\ (~orphan => k = pos' + 1)
      BY <1>1, <1>2 DEF InHand, handler
    <2>1. PICK h \in (pos + 1)..Len(queue) : queue[h] = taken /\ (~orphan => h = pos + 1)
      BY DEF InHand
    <2>2. h - 1 \in (pos' + 1)..Len(queue') /\ h - 1 \in 1..Len(queue')
      BY <1>2, <1>4, <1>5, <2>1
    <2>3. queue'[h - 1] = queue[h]
      BY <1>2, <1>4, <2>1, <2>2
    <2> QED BY <1>2, <1>5, <2>1, <2>2, <2>3
  <1>10. Ordered'
    <2>1. \A f \in Files : settled'[f] <= published
      BY <1>3, <1>7 DEF Ordered
    <2>2. \A k \in 1..Len(queue') : queue'[k].n <= published /\ e.n < queue'[k].n
      BY <1>3, <1>4 DEF Ordered
    <2>3. \A k \in 1..Len(queue') :
             queue'[k].file \in Files => settled'[queue'[k].file] < queue'[k].n
      BY <1>4, <1>7, <2>2 DEF Ordered
    <2>4. \A i, j \in 1..Len(queue') : i < j => queue'[i].n < queue'[j].n
      BY <1>2, <1>4 DEF Ordered
    <2> QED BY <1>1, <2>1, <2>2, <2>3, <2>4 DEF Ordered
  <1>11. DoneOnDisk'
    <2>1. \A k \in 1..pos' : k \in 1..Len(queue') /\ k + 1 \in 1..pos
      BY <1>2, <1>4, <1>5
    <2> QED BY <1>1, <1>4, <2>1 DEF DoneOnDisk, handler
  <1>12. AckedOnDisk'
    BY <1>1, <1>3, <1>7 DEF AckedOnDisk, DoneOnDisk, handler
  <1>13. RepoInv'
    BY <1>1, RepoKept DEF RepoInv, RepoTypes, handler
  <1> QED BY <1>1, <1>8, <1>9, <1>10, <1>11, <1>12, <1>13 DEF BoundsOK

LEMMA LoseChannelKeeps ==
    ASSUME SinkInv, LoseChannel
    PROVE  SinkInv'
  <1> USE DEF SinkInv, StreamInv
  <1>1. UNCHANGED <<published, queue, settled, taken, tmp, disk, mu, repo, sync, proc, config>>
    BY DEF LoseChannel
  <1>2. pos' = 0 /\ orphan' = (taken # None) /\ pos \in Nat /\ Len(queue) \in Nat
    BY DEF LoseChannel, StreamTypes
  <1>3. StreamTypes'
    BY <1>1, <1>2 DEF StreamTypes
  <1>4. InHand'
    <2> SUFFICES ASSUME taken # None
                 PROVE  orphan' /\ \E k \in 1..Len(queue) : queue[k] = taken
      BY <1>1, <1>2 DEF InHand
    <2>1. PICK k \in (pos + 1)..Len(queue) : queue[k] = taken
      BY DEF InHand
    <2>2. k \in 1..Len(queue)
      BY <1>2
    <2> QED BY <1>2, <2>1, <2>2
  <1>5. Ordered' /\ AckedOnDisk' /\ DoneOnDisk'
    BY <1>1, <1>2 DEF Ordered, AckedOnDisk, DoneOnDisk
  <1>6. RepoInv'
    BY <1>1, RepoKept DEF RepoInv, RepoTypes
  <1> QED BY <1>3, <1>4, <1>5, <1>6, BoundsKept DEF LoseChannel

-----------------------------------------------------------------------------
(***************************************************************************)
(* The git sync.  It holds the mutex from its first command to its last.   *)
(***************************************************************************)

LEMMA AddedWhole ==
    ASSUME SinkInv
    PROVE  Added \in Tree /\ Untracked \subseteq Files
  BY DEF SinkInv, StreamInv, StreamTypes, RepoInv, RepoTypes, Added, Untracked, Tree

LEMMA SyncStepKeeps ==
    ASSUME SinkInv, BeginSync \/ NoSync
    PROVE  SinkInv'
  <1> USE DEF SinkInv
  <1>1. UNCHANGED <<broker, handler, index, head, remote, locked, broken, config, faults, stops>>
    BY DEF BeginSync, NoSync, repo, sync
  <1>2. StreamInv'
    BY <1>1, StreamKept DEF BeginSync, NoSync
  <1>3. \/ git = "off" /\ git' \in {"list", "push"} /\ mu' = "git" /\ listed' = {} /\ proc' = proc
        \/ git' = git /\ mu' = mu /\ listed' = listed /\ proc' = "up"
    BY DEF BeginSync, NoSync, sync
  <1>4. RepoTypes'
    BY <1>1, <1>3 DEF RepoInv, RepoTypes
  <1>5. SyncIsStill'
    BY <1>1, <1>3 DEF RepoInv, SyncIsStill, handler
  <1>6. Committed'
    BY <1>1, <1>3 DEF RepoInv, Committed
  <1> QED BY <1>1, <1>2, <1>4, <1>5, <1>6 DEF RepoInv, BoundsOK

\* A step of the sync holds the mutex or gives it back.
LEMMA GitFrame ==
    ASSUME SinkInv, Git
    PROVE  /\ UNCHANGED <<broker, handler, disk, config, faults, stops>>
           /\ \/ git' = "off" /\ mu' = "free"
              \/ git' \in {"add", "commit", "push"} /\ mu' = "git"
           /\ proc' \in {"starting", "up", "stopping", "leaving", "down"}
  <1>1. UNCHANGED <<broker, handler, config, faults, stops>>
    BY DEF Git, List, Add, Commit, Push
  <1>2. git # "off" /\ mu = "git" /\ proc \in {"starting", "up", "stopping", "leaving", "down"}
    BY DEF Git, List, Add, Commit, Push, SinkInv, RepoInv, RepoTypes
  <1>3. /\ \/ git' = "off" /\ mu' = "free"
           \/ git' \in {"add", "commit", "push"} /\ mu' = "git"
        /\ proc' \in {"starting", "up", "stopping", "leaving", "down"}
    BY <1>2 DEF Git, List, Add, Commit, Push, AfterCommit, EndSync, To, GivesUp
  <1> QED BY <1>1, <1>3 DEF handler

LEMMA GitStepKeeps ==
    ASSUME SinkInv, Git
    PROVE  SinkInv'
  <1> USE DEF SinkInv
  <1>1. /\ UNCHANGED <<broker, handler, disk, config, faults, stops>>
        /\ \/ git' = "off" /\ mu' = "free"
           \/ git' \in {"add", "commit", "push"} /\ mu' = "git"
        /\ proc' \in {"starting", "up", "stopping", "leaving", "down"}
    BY GitFrame
  <1>2. StreamInv'
    BY <1>1, StreamKept
  <1>3. ASSUME List PROVE RepoInv'
    <2>1. UNCHANGED <<index, head, remote, locked, broken>> /\ listed' = Untracked
      BY <1>3 DEF List, repo
    <2>2. git' \in {"off", "add", "push"} /\ git = "list"
      BY <1>3 DEF List, AfterCommit, EndSync, To
    <2>3. RepoTypes'
      BY <1>1, <2>1, AddedWhole DEF RepoInv, RepoTypes
    <2>4. SyncIsStill'
      BY <1>1, <2>1, <2>2 DEF SyncIsStill, Untracked
    <2>5. Committed'
      BY <2>1, <2>2 DEF RepoInv, Committed
    <2> QED BY <2>3, <2>4, <2>5 DEF RepoInv
  <1>4. ASSUME Add PROVE RepoInv'
    <2>1. UNCHANGED <<head, remote, locked, listed>> /\ git = "add"
      BY <1>4 DEF Add
    <2>2. \/ git' = "off" /\ broken' = TRUE /\ index' = index
          \/ git' = "commit" /\ broken' = broken /\ index' = Added
      BY <1>4 DEF Add, GivesUp, EndSync, To
    <2>3. RepoTypes'
      BY <1>1, <2>1, <2>2, AddedWhole DEF RepoInv, RepoTypes
    <2>4. SyncIsStill'
      BY <1>1, <2>1, <2>2 DEF RepoInv, RepoTypes, SyncIsStill, Added
    <2>5. Committed'
      BY <2>2 DEF Committed
    <2> QED BY <2>3, <2>4, <2>5 DEF RepoInv
  <1>5. ASSUME Commit PROVE RepoInv'
    <2>1. UNCHANGED <<index, remote, locked, listed>>
      BY <1>5 DEF Commit
    <2>2. \/ git' = "off" /\ broken' = TRUE /\ head' = head
          \/ git' \in {"off", "push"} /\ broken' = broken /\ head' = index
      BY <1>5 DEF Commit, GivesUp, AfterCommit, EndSync, To
    <2>3. RepoTypes'
      BY <1>1, <2>1, <2>2 DEF RepoInv, RepoTypes
    <2>4. SyncIsStill' /\ Committed'
      BY <2>1, <2>2 DEF SyncIsStill, Committed
    <2> QED BY <2>3, <2>4 DEF RepoInv
  <1>6. ASSUME Push PROVE RepoInv'
    <2>1. UNCHANGED <<index, head, locked, listed, broken>> /\ remote' = head
      BY <1>6 DEF Push
    <2>2. git = "push" /\ git' = "off"
      BY <1>6 DEF Push, EndSync
    <2>3. RepoTypes'
      BY <1>1, <2>1 DEF RepoInv, RepoTypes
    <2>4. SyncIsStill' /\ Committed'
      BY <2>1, <2>2 DEF RepoInv, SyncIsStill, Committed
    <2> QED BY <2>3, <2>4 DEF RepoInv
  <1> QED BY <1>1, <1>2, <1>3, <1>4, <1>5, <1>6 DEF Git, BoundsOK

LEMMA GitFaultKeeps ==
    ASSUME SinkInv, PushHangs \/ GitFails
    PROVE  SinkInv'
  <1> USE DEF SinkInv
  <1>1. UNCHANGED <<broker, handler, repo, config, listed>> /\ Fault
    BY DEF PushHangs, GitFails
  <1>2. StreamInv'
    BY <1>1, StreamKept DEF PushHangs, GitFails, To, GivesUp, EndSync
  <1>3. RepoInv'
    BY <1>1
    DEF PushHangs, GitFails, To, GivesUp, EndSync, RepoInv, RepoTypes, SyncIsStill, Committed, repo
  <1> QED BY <1>1, <1>2, <1>3, BoundsKept

\* Of the repository, a killed command leaves contents it had or was about to have.
LEMMA KilledWhole ==
    ASSUME SinkInv, Killed
    PROVE  /\ index' \in Tree /\ head' \in Tree /\ remote' \in Tree /\ locked' \in BOOLEAN
           /\ git = "off" => UNCHANGED <<index, head>>
  <1>1. index \in Tree /\ head \in Tree /\ remote \in Tree /\ locked \in BOOLEAN /\ Added \in Tree
    BY AddedWhole DEF SinkInv, RepoInv, RepoTypes
  <1>2. index' \in {index, Added} /\ head' \in {head, index} /\ remote' \in {remote, head}
    BY DEF Killed
  <1>3. locked' \in BOOLEAN
    BY <1>1 DEF Killed
  <1>4. git = "off" => UNCHANGED <<index, head>>
    BY DEF Killed
  <1> QED BY <1>1, <1>2, <1>3, <1>4

LEMMA KillGitKeeps ==
    ASSUME SinkInv, KillGit \/ ChildEnds
    PROVE  SinkInv'
  <1> USE DEF SinkInv
  <1>1. UNCHANGED <<broker, handler, listed, config, faults, stops>> /\ Killed
    BY DEF KillGit, ChildEnds
  <1>2. /\ broken' = TRUE /\ proc' \in {"starting", "up", "stopping", "leaving", "down"}
        /\ \/ git' = "off" /\ mu' = "free"
           \/ git' = "child" /\ mu' = mu /\ git # "off"
    BY DEF KillGit, ChildEnds, GivesUp, EndSync, To, RepoInv, RepoTypes
  <1>3. StreamInv'
    BY <1>1, <1>2, StreamKept
  <1>4. RepoInv'
    BY <1>1, <1>2, KilledWhole DEF RepoInv, RepoTypes, SyncIsStill, Committed
  <1> QED BY <1>1, <1>3, <1>4 DEF BoundsOK

-----------------------------------------------------------------------------
(***************************************************************************)
(* The process.                                                            *)
(***************************************************************************)

LEMMA StopKeeps ==
    ASSUME SinkInv, Stop
    PROVE  SinkInv'
  <1> USE DEF SinkInv
  <1>1. UNCHANGED <<broker, handler, mu, repo, sync, config>> /\ proc' \in {"stopping", "leaving"}
    BY DEF Stop
  <1>2. StreamInv'
    BY <1>1, StreamKept
  <1>3. RepoInv'
    BY <1>1 DEF RepoInv, RepoTypes, SyncIsStill, Committed, repo, sync, handler
  <1>4. BoundsOK'
    BY YamlAssumption DEF Stop, BoundsOK
  <1> QED BY <1>2, <1>3, <1>4

\* The process ends wherever it is: everything it was about to settle will come again.
LEMMA DownKeeps ==
    ASSUME SinkInv, Down, Fault \/ NoFault
    PROVE  SinkInv'
  <1> USE DEF SinkInv
  <1>1. UNCHANGED <<published, queue, settled, tmp, disk, config>> /\ Killed
    BY DEF Down
  <1>2. /\ pos' = 0 /\ taken' = None /\ orphan' = FALSE /\ mu' = "free"
        /\ git' = "off" /\ listed' = {} /\ proc' = "down"
    BY DEF Down
  <1>3. broken' \in BOOLEAN /\ (~broken' => ~broken /\ git = "off")
    BY DEF Down, RepoInv, RepoTypes
  <1>4. StreamInv'
    <2>1. /\ published' \in 0..MaxEntities /\ queue' \in Seq(Entity)
          /\ tmp' \in [Files -> Content \cup {0, Half}] /\ disk' \in Tree /\ settled' \in Tree
      BY <1>1 DEF StreamInv, StreamTypes
    <2>2. StreamTypes'
      <3>1. Len(queue') \in Nat
        BY <2>1
      <3>2. pos' \in 0..Len(queue')
        BY <1>2, <3>1
      <3>3. (mu = "write" => taken # None /\ taken.file \in Files)'
        BY <1>2
      <3> QED BY <1>2, <2>1, <3>2, <3>3 DEF StreamTypes
    <2> QED BY <1>1, <1>2, <2>2 DEF StreamInv, InHand, Ordered, DoneOnDisk, AckedOnDisk
  <1>5. RepoInv'
    BY <1>1, <1>2, <1>3, KilledWhole DEF RepoInv, RepoTypes, SyncIsStill, Committed
  <1> QED BY <1>4, <1>5, BoundsKept

LEMMA StartKeeps ==
    ASSUME SinkInv, Start
    PROVE  SinkInv'
  <1> USE DEF SinkInv
  <1>1. UNCHANGED <<broker, handler, mu, repo, sync, config, faults, stops>> /\ proc' = "starting"
    BY DEF Start
  <1>2. StreamInv'
    BY <1>1, StreamKept
  <1>3. RepoInv'
    BY <1>1 DEF RepoInv, RepoTypes, SyncIsStill, Committed, repo, sync, handler
  <1> QED BY <1>1, <1>2, <1>3 DEF BoundsOK

LEMMA SinkStep == SinkInv /\ [Next]_vars => SinkInv'
  <1> SUFFICES ASSUME SinkInv, [Next]_vars PROVE SinkInv'
    OBVIOUS
  <1>1. ASSUME NEW f \in Files \cup {Refused}, Publish(f) PROVE SinkInv'
    BY <1>1, PublishKeeps
  <1>2. CASE Take \/ Wait \/ Written \/ WriteFails \/ Rename
    BY <1>2, TakeKeeps, WaitKeeps, WrittenKeeps, WriteFailsKeeps, RenameKeeps
  <1>3. CASE Settle \/ LoseChannel
    BY <1>3, SettleKeeps, LoseChannelKeeps
  <1>4. CASE BeginSync \/ NoSync \/ Git \/ PushHangs \/ GitFails \/ KillGit \/ ChildEnds
    BY <1>4, SyncStepKeeps, GitStepKeeps, GitFaultKeeps, KillGitKeeps
  <1>5. CASE Stop \/ Start
    BY <1>5, StopKeeps, StartKeeps
  <1>6. CASE Exit \/ Crash
    BY <1>6, DownKeeps DEF Exit, Crash
  <1>7. CASE UNCHANGED vars
    <2>1. StreamInv'
      BY <1>7, StreamKept DEF vars, SinkInv
    <2>2. RepoInv'
      BY <1>7, RepoKept DEF vars, SinkInv, RepoInv, RepoTypes, handler
    <2> QED BY <1>7, <2>1, <2>2 DEF vars, SinkInv, BoundsOK
  <1> QED BY <1>1, <1>2, <1>3, <1>4, <1>5, <1>6, <1>7 DEF Next

-----------------------------------------------------------------------------

\* Types, and: files and commits are whole, and commits are taken from a still work tree,
\* whatever fails, hangs, is killed or crashes (writeEntity's temporary file and rename, the mutex
\* it shares with runGitSync).
THEOREM SinkIsSafe == Spec => []Safety
  BY InitSink, SinkStep, InvSafe, PTL DEF Spec

\* An acknowledged entity is on disk, and no redelivery puts an older one over it: the queue's
\* order survives lost channels, crashes and dropped entities (consumeJSONOnce, writeEntity).
THEOREM AcknowledgedIsWritten == Spec => []AckedOnDisk
  BY InitSink, SinkStep, InvSafe, PTL DEF Spec

\* Between syncs nothing is staged and not committed, unless a git command has failed or been
\* killed (git_commit.go).
THEOREM StagedIsCommitted == Spec => []StagedUnlessFault
  BY InitSink, SinkStep, InvSafe, PTL DEF Spec

================================================================================
