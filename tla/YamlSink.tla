------------------------------- MODULE YamlSink -------------------------------
(***************************************************************************)
(* persister-yaml: entities from its queue become files, written to a      *)
(* temporary file and renamed, and git commits and pushes them every half  *)
(* hour.  Writes and git share the store's mutex.  (store.go,              *)
(* git_commit.go, main.go; the queue is consumeJSONOnce's, as in           *)
(* EntityDelivery.)                                                        *)
(*                                                                         *)
(* An entity is the file its type and id name and the number it was        *)
(* published under, which stands for its content.  Git is a work tree, an  *)
(* index, a head and a remote, each a content per file; killing it         *)
(* may leave its index locked.                                             *)
(***************************************************************************)
EXTENDS Integers, Sequences

CONSTANTS
    Files,        \* <entity_type>/<name>.yaml
    MaxEntities,  \* bound: entities published
    MaxFaults,    \* bound: failing calls and commands, hanging pushes, lost channels, crashes
    MaxStops      \* bound: graceful stops

Refused == "refused"   \* no file: bad JSON, another envelope, an empty or reserved name
Half == -1             \* the content of a file while it is written
Content == 1..MaxEntities

ASSUME YamlAssumption ==
    /\ Refused \notin Files
    /\ MaxEntities \in Nat /\ MaxFaults \in Nat /\ MaxStops \in Nat

Entity == [file : Files \cup {Refused}, n : Content]
None == [file |-> Refused, n |-> 0]
Empty == [f \in Files |-> 0]

VARIABLES
    published, \* entities published
    queue,     \* entities that the broker has not seen settled
    pos,       \* how many of them the handler is done with
    taken,     \* the entity in the handler, or None
    orphan,    \* its channel is lost
    mu,        \* holder of the mutex: "free", "write" or "git"
    tmp,       \* <file>.tmp: content, Half or 0
    disk,      \* the work tree
    index, head, remote, \* git's
    locked,    \* .git/index.lock was left behind
    git,       \* the sync: "off", or its next command: "list", "add", "commit", "push", or "hung"
               \* in that, or "child" while a child of a killed push lives on
    listed,    \* what ls-files has listed
    proc,      \* "starting", "up", "down"; told to stop: "stopping", or "leaving" before it was up
    config,    \* GIT_COMMIT and GIT_PUSH
    settled,   \* history: settled[f] is the last entity of f acknowledged
    broken,    \* history: a git command has failed or been killed
    faults, stops

broker == <<published, queue, pos, settled>>
handler == <<taken, orphan, tmp, disk>>
repo == <<index, head, remote, locked>>
sync == <<git, listed, broken>>
vars == <<broker, handler, mu, repo, sync, proc, config, faults, stops>>

\* Type invariant.  Each part of the process holds the mutex while it works.
TypeOK ==
    /\ published \in 0..MaxEntities /\ queue \in Seq(Entity) /\ pos \in 0..Len(queue)
    /\ taken \in Entity \cup {None} /\ orphan \in BOOLEAN
    /\ tmp \in [Files -> Content \cup {0, Half}] /\ disk \in [Files -> Content \cup {0, Half}]
    /\ index \in [Files -> Content \cup {0, Half}] /\ head \in [Files -> Content \cup {0, Half}]
    /\ remote \in [Files -> Content \cup {0, Half}] /\ locked \in BOOLEAN
    /\ settled \in [Files -> Content \cup {0}]
    /\ mu \in {"free", "write", "git"}
    /\ mu = "git" <=> git # "off"
    /\ mu = "write" => taken # None
    /\ git \in {"off", "list", "add", "commit", "push", "hung", "child"} /\ listed \subseteq Files
    /\ proc \in {"starting", "up", "stopping", "leaving", "down"}
    /\ config \in [commit : BOOLEAN, push : BOOLEAN] /\ broken \in BOOLEAN
    /\ faults \in 0..MaxFaults /\ stops \in 0..MaxStops

\* A new repository.
Init ==
    /\ published = 0 /\ queue = <<>> /\ pos = 0 /\ settled = Empty
    /\ taken = None /\ orphan = FALSE
    /\ mu = "free" /\ tmp = Empty /\ disk = Empty
    /\ index = Empty /\ head = Empty /\ remote = Empty /\ locked = FALSE
    /\ git = "off" /\ listed = {} /\ broken = FALSE
    /\ proc = "starting" /\ config \in [commit : BOOLEAN, push : BOOLEAN]
    /\ faults = 0 /\ stops = 0

Fault == faults < MaxFaults /\ faults' = faults + 1 /\ UNCHANGED stops
NoFault == UNCHANGED <<faults, stops>>

-----------------------------------------------------------------------------
(***************************************************************************)
(* The entity stream.                                                      *)
(***************************************************************************)

\* A collector publishes into the queue.
Publish(f) ==
    /\ published < MaxEntities
    /\ published' = published + 1
    /\ queue' = Append(queue, [file |-> f, n |-> published'])
    /\ UNCHANGED <<pos, settled, handler, mu, repo, sync, proc, config, faults, stops>>

\* The consumer's channel is lost: what is not settled will come again.
LoseChannel ==
    /\ queue # <<>>
    /\ Fault
    /\ pos' = 0
    /\ orphan' = (taken # None)
    /\ UNCHANGED <<published, queue, settled, taken, tmp, disk, mu, repo, sync, proc, config>>

\* The broker sees the Ack of the oldest delivery.
Settle ==
    /\ pos > 0
    /\ pos' = pos - 1
    /\ queue' = Tail(queue)
    /\ settled' = [settled EXCEPT ![Head(queue).file] = Head(queue).n]
    /\ UNCHANGED <<published, handler, mu, repo, sync, proc, config, faults, stops>>

\* A delivery reaches the handler, also while the process is stopping.
Take ==
    /\ proc \in {"up", "stopping"}
    /\ taken = None /\ pos < Len(queue)
    /\ taken' = queue[pos + 1] /\ orphan' = FALSE
    /\ UNCHANGED <<broker, tmp, disk, mu, repo, sync, proc, config, faults, stops>>

\* The handler fails: the entity is dropped, unless its channel is.
HandlerFails ==
    /\ taken' = None
    /\ queue' = IF orphan THEN queue
                ELSE [k \in 1..(Len(queue) - 1) |-> IF k <= pos THEN queue[k] ELSE queue[k + 1]]
    /\ UNCHANGED <<published, pos, settled, orphan>>

\* writeEntityLocked refuses it, or cannot make its directory.
Refuse ==
    /\ taken # None /\ mu = "free"
    /\ (taken.file = Refused /\ NoFault) \/ (taken.file \in Files /\ Fault)
    /\ HandlerFails
    /\ UNCHANGED <<mu, tmp, disk, repo, sync, proc, config>>

\* Writes the file in place.
BeginWriteInPlace ==
    /\ taken # None /\ taken.file \in Files /\ mu = "free"
    /\ mu' = "write"
    /\ disk' = [disk EXCEPT ![taken.file] = Half]
    /\ UNCHANGED <<broker, taken, orphan, tmp, repo, sync, proc, config, faults, stops>>

\* writeEntity takes the mutex, and os.WriteFile opens the temporary file.
BeginWrite ==
    /\ taken # None /\ taken.file \in Files /\ mu = "free"
    /\ mu' = "write"
    /\ tmp' = [tmp EXCEPT ![taken.file] = Half]
    /\ UNCHANGED <<broker, taken, orphan, disk, repo, sync, proc, config, faults, stops>>

\* ... and has written it.
Written ==
    /\ mu = "write" /\ tmp[taken.file] = Half
    /\ tmp' = [tmp EXCEPT ![taken.file] = taken.n]
    /\ UNCHANGED <<broker, taken, orphan, mu, disk, repo, sync, proc, config, faults, stops>>

\* Acknowledges all the same.
WriteFailsUnnoticed ==
    /\ mu = "write"
    /\ Fault
    /\ mu' = "free"
    /\ tmp' = [tmp EXCEPT ![taken.file] = 0]
    /\ taken' = None
    /\ pos' = IF orphan THEN pos ELSE pos + 1
    /\ UNCHANGED <<published, queue, settled, orphan, disk, repo, sync, proc, config>>

\* os.WriteFile or os.Rename fails; only the latter's temporary file is removed.
WriteFails ==
    /\ mu = "write"
    /\ Fault
    /\ mu' = "free"
    /\ tmp' = [tmp EXCEPT ![taken.file] = IF @ = Half THEN @ ELSE 0]
    /\ HandlerFails
    /\ UNCHANGED <<disk, repo, sync, proc, config>>

\* The entity is in place; consumeJSONOnce acknowledges it, in vain if its channel is lost.
Rename ==
    /\ mu = "write" /\ tmp[taken.file] = taken.n
    /\ mu' = "free"
    /\ disk' = [disk EXCEPT ![taken.file] = taken.n]
    /\ tmp' = [tmp EXCEPT ![taken.file] = 0]
    /\ taken' = None
    /\ pos' = IF orphan THEN pos ELSE pos + 1
    /\ UNCHANGED <<published, queue, settled, orphan, repo, sync, proc, config, faults, stops>>

-----------------------------------------------------------------------------
(***************************************************************************)
(* The git sync.                                                           *)
(***************************************************************************)

\* The sync is over; the one at startup lets yamlWork go on to consume.
EndSync ==
    /\ git' = "off" /\ mu' = "free"
    /\ proc' = IF proc = "starting" THEN "up" ELSE proc

To(step) == git' = step /\ UNCHANGED <<mu, proc>>

AfterCommit == IF config.push THEN To("push") ELSE EndSync

\* Keeps the mutex when a command fails.
GivesUpLocked ==
    /\ git' = "off" /\ UNCHANGED mu
    /\ proc' = IF proc = "starting" THEN "up" ELSE proc
    /\ broken' = TRUE

\* A command fails: the rest of the sync is left out.
GivesUp == EndSync /\ broken' = TRUE

\* runGitSync at startup, before the consumer, and at each tick; it waits for the mutex.
BeginSync ==
    /\ config.commit \/ config.push
    /\ proc \in {"starting", "up"} /\ git = "off" /\ mu = "free"
    /\ mu' = "git"
    /\ git' = IF config.commit THEN "list" ELSE "push"
    /\ listed' = {}
    /\ UNCHANGED <<broker, handler, repo, broken, proc, config, faults, stops>>

\* Without either setting there is no sync.
NoSync ==
    /\ ~config.commit /\ ~config.push
    /\ proc = "starting"
    /\ proc' = "up"
    /\ UNCHANGED <<broker, handler, mu, repo, sync, config, faults, stops>>

\* Takes what is staged for done.
UntrackedUnlessStaged == IF index # head THEN {} ELSE {f \in Files : disk[f] # 0 /\ index[f] = 0}

Untracked == {f \in Files : disk[f] # 0 /\ index[f] = 0}

\* git ls-files --others; nothing new, nothing to commit.
List ==
    /\ git = "list"
    /\ listed' = Untracked
    /\ IF listed' = {} THEN AfterCommit ELSE To("add")
    /\ UNCHANGED <<broker, handler, repo, broken, config, faults, stops>>

Added == [f \in Files |-> IF f \in listed THEN disk[f] ELSE index[f]]

\* git add
Add ==
    /\ git = "add"
    /\ IF locked
       THEN GivesUp /\ UNCHANGED index
       ELSE To("commit") /\ index' = Added /\ UNCHANGED broken
    /\ UNCHANGED <<broker, handler, head, remote, locked, listed, config, faults, stops>>

\* Takes GIT_PUSH for GIT_COMMIT.
CommitIfPushing ==
    /\ git = "commit"
    /\ IF locked
       THEN GivesUp /\ UNCHANGED head
       ELSE AfterCommit /\ head' = (IF config.push THEN index ELSE head) /\ UNCHANGED broken
    /\ UNCHANGED <<broker, handler, index, remote, locked, listed, config, faults, stops>>

\* git commit, of all that is staged
Commit ==
    /\ git = "commit"
    /\ IF locked
       THEN GivesUp /\ UNCHANGED head
       ELSE AfterCommit /\ head' = index /\ UNCHANGED broken
    /\ UNCHANGED <<broker, handler, index, remote, locked, listed, config, faults, stops>>

\* git push
Push ==
    /\ git = "push"
    /\ remote' = head
    /\ EndSync
    /\ UNCHANGED <<broker, handler, index, head, locked, listed, broken, config, faults, stops>>

\* git push waits for the remote, without a time limit.
PushHangs ==
    /\ git = "push"
    /\ Fault
    /\ To("hung")
    /\ UNCHANGED <<broker, handler, repo, listed, broken, config>>

GitFails ==
    /\ git \notin {"off", "hung", "child"}
    /\ Fault
    /\ GivesUp
    /\ UNCHANGED <<broker, handler, repo, listed, config>>

\* A killed command has done its work or not; git add and commit may leave the index locked.
Killed ==
    /\ index' \in IF git = "add" /\ ~locked THEN {index, Added} ELSE {index}
    /\ head' \in IF git = "commit" /\ ~locked THEN {head, index} ELSE {head}
    /\ remote' \in IF git \in {"push", "hung", "child"} THEN {remote, head} ELSE {remote}
    /\ locked' \in IF git \in {"add", "commit"} THEN {locked, TRUE} ELSE {locked}

Stopping == proc \in {"stopping", "leaving"}

\* Starts git push without the context.
KillGitButPush ==
    /\ Stopping /\ git \notin {"off", "push", "hung", "child"}
    /\ Killed
    /\ GivesUp
    /\ UNCHANGED <<broker, handler, listed, config, faults, stops>>

\* exec.CommandContext kills git when the context is done.  CombinedOutput has no WaitDelay: it
\* goes on reading while the ssh or git-remote-https of a killed push keeps the pipe open.
KillGit ==
    /\ Stopping /\ git \notin {"off", "child"}
    /\ Killed
    /\ \/ GivesUp
       \/ git \in {"push", "hung"} /\ To("child") /\ broken' = TRUE
    /\ UNCHANGED <<broker, handler, listed, config, faults, stops>>

\* The child closes the pipe.
ChildEnds ==
    /\ git = "child"
    /\ Killed
    /\ GivesUp
    /\ UNCHANGED <<broker, handler, listed, config, faults, stops>>

-----------------------------------------------------------------------------
(***************************************************************************)
(* The process.                                                            *)
(***************************************************************************)

Stop ==
    /\ proc \in {"starting", "up"}
    /\ stops < MaxStops /\ stops' = stops + 1 /\ UNCHANGED faults
    /\ proc' = IF proc = "up" THEN "stopping" ELSE "leaving"
    /\ UNCHANGED <<broker, handler, mu, repo, sync, config>>

Down ==
    /\ proc' = "down"
    /\ pos' = 0 /\ taken' = None /\ orphan' = FALSE
    /\ mu' = "free" /\ git' = "off" /\ listed' = {}
    /\ Killed /\ broken' = (broken \/ git # "off")
    /\ UNCHANGED <<published, queue, settled, tmp, disk, config>>

\* persist.Main returns when yamlWork has: between deliveries, whatever the periodic sync is at, but
\* not before the sync at startup is over.
Exit ==
    /\ \/ proc = "stopping" /\ taken = None
       \/ proc = "leaving" /\ git = "off"
    /\ Down /\ NoFault

Crash ==
    /\ proc # "down"
    /\ Fault
    /\ Down

Start ==
    /\ proc = "down"
    /\ proc' = "starting"
    /\ UNCHANGED <<broker, handler, mu, repo, sync, config, faults, stops>>

-----------------------------------------------------------------------------

Wait == Refuse \/ BeginWrite
Git == List \/ Add \/ Commit \/ Push

Next ==
    \/ \E f \in Files \cup {Refused} : Publish(f)
    \/ Take \/ Wait \/ Written \/ WriteFails \/ Rename \/ Settle \/ LoseChannel
    \/ BeginSync \/ NoSync \/ Git \/ PushHangs \/ GitFails \/ KillGit \/ ChildEnds
    \/ Stop \/ Exit \/ Crash \/ Start

\* Goroutines go on, the mutex starves no one, git commands that do not hang end, acknowledgements
\* arrive, and a process that is down is started.  Nothing is assumed of a killed push's child.
Fairness ==
    /\ WF_vars(Take) /\ SF_vars(Wait) /\ WF_vars(Written \/ Rename) /\ WF_vars(Settle)
    /\ WF_vars(BeginSync \/ NoSync) /\ WF_vars(Git) /\ WF_vars(KillGit)
    /\ WF_vars(Exit) /\ WF_vars(Start)

Spec == Init /\ [][Next]_vars
FairSpec == Spec /\ Fairness

-----------------------------------------------------------------------------
(***************************************************************************)
(* Properties.                                                             *)
(***************************************************************************)

\* Readers, and every commit, see entities whole, however writes fail or crash.
FilesWhole == \A f \in Files : Half \notin {disk[f], index[f], head[f], remote[f]}

\* What is acknowledged is on disk, and not taken back by redelivery.
AckedOnDisk == \A f \in Files : settled[f] <= disk[f]

\* The sync works on a still work tree: it commits the files as they are on disk.
SyncIsStill ==
    git \in {"add", "commit"} => \A f \in listed : disk[f] # 0 /\ (git = "commit" => index[f] = disk[f])

\* Files and commits are whole, and taken from a still work tree.
Safety == TypeOK /\ FilesWhole /\ SyncIsStill

\* Files are left staged and not committed only after a git command has failed or been killed.
\* (They stay so until another new file comes.)
StagedUnlessFault == git = "off" /\ index # head => broken

\* What the sync may count on, from some time on: the remote answers, no child of a killed push
\* goes on for ever, and no lock is left behind.
GitWorks == <>[](git \notin {"hung", "child"} /\ ~locked)

\* Every file is eventually tracked.
FilesTracked ==
    GitWorks /\ config.commit => \A f \in Files : disk[f] # 0 ~> index[f] # 0

\* The queue is emptied, though each sync holds up the writes, as long as the remote answers.
QueueDrains == GitWorks => <>[](queue = <<>>)

\* The process ends when it is told to, also while git push waits for the remote, unless a child
\* of the killed push goes on for ever: then the mutex is held for ever.
StopEnds == []<>(git # "child") => (Stopping ~> proc = "down")
=============================================================================
