------------------------------ MODULE IssueCache ------------------------------
(***************************************************************************)
(* collector-github's on-disk cache of one repository's issues             *)
(* (issues_cache.go) and the part of a run that uses it (runOneSource in   *)
(* main.go): load, probe, fetch the changed issues page by page, merge,    *)
(* save, publish.  The poll loop and the consumer of collection requests   *)
(* run the same source in two goroutines and share the cache file.         *)
(*                                                                         *)
(* Issue i's successive revisions carry the timestamps stamp[i][1],        *)
(* stamp[i][2], ... (updated_at, in whole seconds); a cached or fetched    *)
(* issue is given by its revision, 0 when there is none.                   *)
(***************************************************************************)
EXTENDS Naturals, Sequences, FiniteSets

CONSTANTS
    Collectors,   \* goroutines that run the source
    N,            \* issues, in order of creation
    Overlap,      \* issueCacheOverlap
    Caps,         \* values of maxIssuesFetch to look at
    Absent,       \* no file
    Empty,        \* a file created or truncated, and not yet written
    Damaged,      \* a file with the rest of a longer text after a shorter one
    MaxTouches,   \* bound: creations and updates of issues
    MaxFaults     \* bound: failing fetches, saves, publishes and crashes

Issues == 1..N

ASSUME IssueCacheAssumption ==
    /\ N \in Nat \ {0} /\ Caps \subseteq Nat \ {0} /\ Overlap \in Nat
    /\ MaxTouches \in Nat /\ MaxFaults \in Nat

VARIABLES
    cap,        \* maxIssuesFetch, a constant of the program
    stamp,      \* GitHub: stamp[i] is the sequence of issue i's update times
    file,       \* what the cache file holds: Absent, Empty, Damaged or a cache
    tmp,        \* what the temporary file beside it holds, likewise
    pc,         \* pc[c]: where collector c is in its run
    cache,      \* cache[c]: the cache c has loaded or merged
    fetched,    \* fetched[c][i]: revision of issue i in c's snapshot, then in IssuesToPublish
    page,       \* page[c]: issue the next page of c's listing holds
    fd,         \* fd[c]: the name that the file c has open for writing has now
    last,       \* last[i]: revision of issue i published last
    best,       \* history: best[i] is the newest revision of i ever published
    raced,      \* history: issues for whose last update NewestPublished promises nothing
    abandoned,  \* history: <<issue, revision>> a run gave up publishing
    touches, faults   \* bounds' counters

local == <<pc, cache, fetched, page, fd>>
disk == <<file, tmp>>
published == <<last, best>>
vars == <<cap, stamp, disk, local, published, raced, abandoned, touches, faults>>

Unreadable == {Absent, Empty, Damaged}
None == [i \in Issues |-> 0]

Seconds == 0..MaxTouches
Revisions == [Issues -> 0..MaxTouches]
Caches == [rev : Revisions, id : 0..N]
NoCache == [rev |-> None, id |-> 0]

Current(i) == Len(stamp[i])
At(i, rev) == IF rev = 0 THEN 0 ELSE stamp[i][rev]
Latest(revs) == CHOOSE t \in {At(i, revs[i]) : i \in Issues} : \A i \in Issues : At(i, revs[i]) <= t
Now == Latest([i \in Issues |-> Current(i)])
IsEmpty(revs) == revs = None

Steps == {"idle", "probe", "fetch", "write", "rename", "publish"}

\* Type invariant.
TypeOK ==
    /\ cap \in Caps
    /\ stamp \in [Issues -> Seq(Seconds)]
    /\ file \in Caches \cup Unreadable /\ tmp \in Caches \cup Unreadable
    /\ pc \in [Collectors -> Steps]
    /\ cache \in [Collectors -> Caches]
    /\ fetched \in [Collectors -> Revisions]
    /\ page \in [Collectors -> 0..N]
    /\ fd \in [Collectors -> {"none", "tmp", "file", "gone"}]
    /\ \A c \in Collectors : fd[c] # "none" <=> pc[c] = "write"
    /\ last \in Revisions /\ best \in Revisions
    /\ raced \in SUBSET Issues /\ abandoned \in SUBSET (Issues \X (1..MaxTouches))
    /\ touches \in 0..MaxTouches /\ faults \in 0..MaxFaults

Init ==
    /\ cap \in Caps
    /\ stamp = [i \in Issues |-> <<>>]
    /\ file = Absent /\ tmp = Absent
    /\ pc = [c \in Collectors |-> "idle"]
    /\ cache = [c \in Collectors |-> NoCache]
    /\ fetched = [c \in Collectors |-> None]
    /\ page = [c \in Collectors |-> 0]
    /\ fd = [c \in Collectors |-> "none"]
    /\ last = None /\ best = None
    /\ raced = {} /\ abandoned = {}
    /\ touches = 0 /\ faults = 0

Fault == faults < MaxFaults /\ faults' = faults + 1
Goto(c, step) == pc' = [pc EXCEPT ![c] = step]

-----------------------------------------------------------------------------
(***************************************************************************)
(* GitHub.                                                                 *)
(***************************************************************************)

\* Issue i is created or updated, in the second of the latest update or a later one.
Touch(i) ==
    /\ touches < MaxTouches /\ touches' = touches + 1
    /\ \A j \in 1..(i - 1) : stamp[j] # <<>>
    /\ \E t \in {Now, Now + 1} \ {0} :
         /\ stamp' = [stamp EXCEPT ![i] = Append(@, t)]
         /\ raced' = IF \/ t = Now
                        \/ \E c \in Collectors : pc[c] = "fetch" \/ fetched[c][i] # 0
                     THEN raced \cup {i} ELSE raced \ {i}
    /\ UNCHANGED <<cap, disk, local, published, abandoned, faults>>

\* The issue a listing sorted by update time has first (any of those of one second).
IsLatest(i) == Current(i) > 0 /\ At(i, Current(i)) = Now

-----------------------------------------------------------------------------
(***************************************************************************)
(* One run of one collector.                                               *)
(***************************************************************************)

EndRun(c) ==
    /\ Goto(c, "idle")
    /\ cache' = [cache EXCEPT ![c] = NoCache]
    /\ fetched' = [fetched EXCEPT ![c] = None]
    /\ page' = [page EXCEPT ![c] = 0]

\* load: a file that does not decode is collected without.
Load(c) ==
    /\ pc[c] = "idle"
    /\ cache' = [cache EXCEPT ![c] = IF file \in Unreadable THEN NoCache ELSE file]
    /\ Goto(c, IF cache'[c] = NoCache THEN "fetch" ELSE "probe")
    /\ page' = [page EXCEPT ![c] = IF cache'[c] = NoCache THEN N ELSE 0]
    /\ UNCHANGED <<stamp, disk, fetched, fd, published, raced, abandoned, touches, faults>>

\* Compares the identity only.
UnchangedById(c, i) == i = cache[c].id

\* issueListUnchanged: the latest issue GitHub shows is the cache's latest.
Unchanged(c, i) == i = cache[c].id /\ At(i, Current(i)) = Latest(cache[c].rev)

\* probeLatestRepoIssue: a cache hit ends the run.  Otherwise, and when the probe fails or
\* shows only pull requests, the run goes on with an incremental fetch.
Probe(c) ==
    /\ pc[c] = "probe"
    /\ \/ (\E i \in Issues : IsLatest(i) /\ Unchanged(c, i)) /\ EndRun(c)
       \/ /\ Goto(c, "fetch") /\ page' = [page EXCEPT ![c] = N]
          /\ UNCHANGED <<cache, fetched>>
    /\ UNCHANGED <<stamp, disk, fd, published, raced, abandoned, touches, faults>>

\* The listing's filter: updated since the cache's latest update, less the overlap.
Since(c, i) ==
    /\ Current(i) > 0
    /\ IsEmpty(cache[c].rev) \/ At(i, Current(i)) + Overlap >= Latest(cache[c].rev)

\* fetchIssuesForRepoSince, one page after the other, newest issue first, until the cap.
FetchPage(c) ==
    /\ pc[c] = "fetch" /\ page[c] > 0
    /\ LET i == page[c]
           full == Cardinality({j \in Issues : fetched[c][j] # 0}) >= cap
       IN  IF full
           THEN /\ page' = [page EXCEPT ![c] = 0]
                /\ raced' = raced \cup {j \in 1..i : Since(c, j)}
                /\ UNCHANGED fetched
           ELSE /\ page' = [page EXCEPT ![c] = i - 1]
                /\ fetched' = [fetched EXCEPT ![c][i] = IF Since(c, i) THEN Current(i) ELSE 0]
                /\ UNCHANGED raced
    /\ UNCHANGED <<stamp, disk, pc, cache, fd, published, abandoned, touches, faults>>

\* A page fails: the run goes on without issues.
FetchFails(c) ==
    /\ pc[c] = "fetch"
    /\ Fault
    /\ EndRun(c)
    /\ UNCHANGED <<stamp, disk, fd, published, raced, abandoned, touches>>

-----------------------------------------------------------------------------
(***************************************************************************)
(* Merge and save: both collectors write through the same temporary name.  *)
(***************************************************************************)

\* The issues to publish, or the end of the run when there are none.
PublishOrEnd(c, revs) ==
    /\ fetched' = [fetched EXCEPT ![c] = revs]
    /\ cache' = [cache EXCEPT ![c] = NoCache]
    /\ page' = [page EXCEPT ![c] = 0]
    /\ Goto(c, IF IsEmpty(revs) THEN "idle" ELSE "publish")

\* Takes a fetched issue for unchanged when it is cached at all.
ChangedOnlyNew(c) == {i \in Issues : fetched[c][i] # 0 /\ cache[c].rev[i] = 0}

\* mergeIssueCache: of the fetched issues, those whose update time is not the cached one's.
Changed(c) ==
    LET old == cache[c].rev
    IN  {i \in Issues : fetched[c][i] # 0 /\ (old[i] # 0 => At(i, old[i]) # At(i, fetched[c][i]))}

\* refreshLatestIssueMarker iterates over a map: of several latest issues it may mark any.
Markers(revs) == IF IsEmpty(revs) THEN {0} ELSE {i \in Issues : At(i, revs[i]) = Latest(revs)}

\* Merges, and creates or truncates the temporary file; a failure of save is only logged.
Merge(c) ==
    /\ pc[c] = "fetch" /\ page[c] = 0
    /\ LET merged == [i \in Issues |-> IF i \in Changed(c) THEN fetched[c][i] ELSE cache[c].rev[i]]
           publish == [i \in Issues |-> IF i \in Changed(c) THEN fetched[c][i] ELSE 0]
       IN  \/ /\ \E id \in Markers(merged) : cache' = [cache EXCEPT ![c] = [rev |-> merged, id |-> id]]
              /\ fetched' = [fetched EXCEPT ![c] = publish]
              /\ tmp' = Empty /\ fd' = [fd EXCEPT ![c] = "tmp"]
              /\ Goto(c, "write")
              /\ UNCHANGED <<page, faults>>
           \/ Fault /\ PublishOrEnd(c, publish) /\ UNCHANGED <<tmp, fd>>
    /\ UNCHANGED <<stamp, file, published, raced, abandoned, touches>>

\* Over what another collector wrote there, the end of a longer text may remain.
Written(content, c) == IF content = Empty THEN {cache[c]} ELSE {cache[c], Damaged}

WriteTo(c) ==
    CASE fd[c] = "tmp"  -> tmp' \in Written(tmp, c) /\ UNCHANGED file
      [] fd[c] = "file" -> file' \in Written(file, c) /\ UNCHANGED tmp
      [] OTHER          -> UNCHANGED disk

Write(c) ==
    /\ pc[c] = "write"
    /\ WriteTo(c)
    /\ fd' = [fd EXCEPT ![c] = "none"]
    /\ cache' = [cache EXCEPT ![c] = NoCache]
    /\ Goto(c, "rename")
    /\ UNCHANGED <<stamp, fetched, page, published, raced, abandoned, touches, faults>>

\* A failing rename ends the run.
RenameOrEnd(c) ==
    /\ pc[c] = "rename"
    /\ IF tmp = Absent
       THEN UNCHANGED <<disk, fd>> /\ EndRun(c)
       ELSE /\ file' = tmp /\ tmp' = Absent
            /\ fd' = [d \in Collectors |-> CASE fd[d] = "tmp"  -> "file"
                                             [] fd[d] = "file" -> "gone"
                                             [] OTHER          -> fd[d]]
            /\ PublishOrEnd(c, fetched[c])
    /\ UNCHANGED <<stamp, published, raced, abandoned, touches, faults>>

\* os.Rename moves whatever the temporary name stands for now, or fails without one; another
\* collector's open file keeps its identity.
Rename(c) ==
    /\ pc[c] = "rename"
    /\ IF tmp = Absent
       THEN UNCHANGED <<disk, fd>>
       ELSE /\ file' = tmp /\ tmp' = Absent
            /\ fd' = [d \in Collectors |-> CASE fd[d] = "tmp"  -> "file"
                                             [] fd[d] = "file" -> "gone"
                                             [] OTHER          -> fd[d]]
    /\ PublishOrEnd(c, fetched[c])
    /\ UNCHANGED <<stamp, published, raced, abandoned, touches, faults>>

-----------------------------------------------------------------------------

Abandon(c) == {<<i, fetched[c][i]>> : i \in {j \in Issues : fetched[c][j] # 0}}

\* The next of IssuesToPublish; the run is over after the last.
Publish(c) ==
    /\ pc[c] = "publish"
    /\ \E i \in Issues :
         /\ fetched[c][i] # 0 /\ \A j \in (i + 1)..N : fetched[c][j] = 0
         /\ last' = [last EXCEPT ![i] = fetched[c][i]]
         /\ best' = [best EXCEPT ![i] = IF @ < fetched[c][i] THEN fetched[c][i] ELSE @]
         /\ PublishOrEnd(c, [fetched[c] EXCEPT ![i] = 0])
    /\ UNCHANGED <<stamp, disk, fd, raced, abandoned, touches, faults>>

\* PublishJSON fails for this entity or one before it: the run reports failure and returns.
PublishFails(c) ==
    /\ pc[c] = "publish"
    /\ Fault
    /\ abandoned' = abandoned \cup Abandon(c)
    /\ EndRun(c)
    /\ UNCHANGED <<stamp, disk, fd, published, raced, touches>>

\* The process ends in the middle of its runs and is started again.
Restart ==
    /\ \E c \in Collectors : pc[c] # "idle"
    /\ Fault
    /\ abandoned' = abandoned \cup UNION {Abandon(c) : c \in Collectors}
    /\ pc' = [c \in Collectors |-> "idle"]
    /\ cache' = [c \in Collectors |-> NoCache]
    /\ fetched' = [c \in Collectors |-> None]
    /\ page' = [c \in Collectors |-> 0]
    /\ fd' = [c \in Collectors |-> "none"]
    /\ UNCHANGED <<cap, stamp, disk, published, raced, touches>>

Run(c) ==
    /\ UNCHANGED cap
    /\ \/ Load(c) \/ Probe(c) \/ FetchPage(c) \/ Merge(c)
       \/ Write(c) \/ Rename(c) \/ Publish(c)

Fail(c) == UNCHANGED cap /\ (FetchFails(c) \/ PublishFails(c))

Next ==
    \/ \E i \in Issues : Touch(i)
    \/ \E c \in Collectors : Run(c) \/ Fail(c)
    \/ Restart

\* Every goroutine keeps running the source (each poll tick, each request) and its steps.
Spec == Init /\ [][Next]_vars
FairSpec == Spec /\ \A c \in Collectors : WF_vars(Run(c))

-----------------------------------------------------------------------------
(***************************************************************************)
(* Properties.                                                             *)
(***************************************************************************)

Handled(i, rev) == rev <= best[i] \/ \E c \in Collectors : fetched[c][i] >= rev

\* What the cache file holds, later runs skip as unchanged.  So each revision in it has been
\* published, or a run is about to publish it, or a run that failed has given it up: never
\* does the interleaving of two runs over the shared file alone lose a revision.
CachedIsHandled ==
    file \notin Unreadable =>
        \A i \in Issues : Handled(i, file.rev[i]) \/ <<i, file.rev[i]>> \in abandoned

\* The same with the types: the temporary file is open only to be
\* written.
Safety == TypeOK /\ CachedIsHandled

\* The same without the excuse: a revision the cache suppresses has reached the broker or is
\* about to.
SuppressedIsPublished ==
    file \notin Unreadable => \A i \in Issues : Handled(i, file.rev[i])

\* Once GitHub is quiet, the revision of an issue published last is its newest one: if its
\* last update fell in a second of its own and while no run was between its listing and its
\* publishing of that issue, and no run gave it up.
NewestPublished ==
    \A i \in Issues :
        <>[](i \in raced \/ <<i, Current(i)>> \in abandoned \/ last[i] = Current(i))
=============================================================================
