--------------------------- MODULE IssueCache_proofs ---------------------------
(***************************************************************************)
(* The cache of collector-github's issues, for any issues, collectors,     *)
(* caps, updates and faults: two runs over one cache file never make it    *)
(* hold a revision that nobody publishes.                                  *)
(***************************************************************************)
EXTENDS IssueCache, WellFoundedInduction, TLAPS

-----------------------------------------------------------------------------
(***************************************************************************)
(* The inductive invariant.                                                *)
(***************************************************************************)

\* No issue has more updates than there were, nor one dated later than their number.
Stamped ==
    \A i \in Issues :
        /\ Len(stamp[i]) <= touches
        /\ \A k \in 1..Len(stamp[i]) : stamp[i][k] <= touches

\* A revision that is published, given up, or about to be published by a run that has merged it.
\* Of a run that still fetches it this cannot be said: such a run may lose it and say nothing.
Accounted(i, rev) ==
    \/ rev <= best[i]
    \/ <<i, rev>> \in abandoned
    \/ \E c \in Collectors : pc[c] \in {"write", "rename", "publish"} /\ fetched[c][i] = rev

AllAccounted(revs) == \A i \in Issues : Accounted(i, revs[i])

\* Whatever may get into the cache file, over the temporary file or a run's cache, is accounted
\* for.
Held ==
    /\ file \notin Unreadable => AllAccounted(file.rev)
    /\ tmp \notin Unreadable => AllAccounted(tmp.rev)
    /\ \A c \in Collectors : AllAccounted(cache[c].rev)

CacheInv == TypeOK /\ Stamped /\ Held

LEMMA InvSafe == CacheInv => Safety
  <1> SUFFICES ASSUME CacheInv, file \notin Unreadable, NEW i \in Issues
               PROVE  Handled(i, file.rev[i]) \/ <<i, file.rev[i]>> \in abandoned
    BY DEF CacheInv, Safety, CachedIsHandled
  <1>1. Accounted(i, file.rev[i]) /\ file.rev[i] \in Nat
    BY DEF CacheInv, Held, AllAccounted, TypeOK, Caches, Revisions
  <1> QED BY <1>1 DEF Accounted, Handled

\* The types of what is on disk, at GitHub and in the history; and of the runs.
SharedTypes ==
    /\ cap \in Caps
    /\ stamp \in [Issues -> Seq(Seconds)]
    /\ file \in Caches \cup Unreadable /\ tmp \in Caches \cup Unreadable
    /\ last \in Revisions /\ best \in Revisions
    /\ raced \in SUBSET Issues /\ abandoned \in SUBSET (Issues \X (1..MaxTouches))
    /\ touches \in 0..MaxTouches /\ faults \in 0..MaxFaults

RunTypes ==
    /\ pc \in [Collectors -> Steps]
    /\ cache \in [Collectors -> Caches]
    /\ fetched \in [Collectors -> Revisions]
    /\ page \in [Collectors -> 0..N]
    /\ fd \in [Collectors -> {"none", "tmp", "file", "gone"}]
    /\ \A c \in Collectors : fd[c] # "none" <=> pc[c] = "write"

LEMMA TypesApart == TypeOK <=> SharedTypes /\ RunTypes
  BY DEF TypeOK, SharedTypes, RunTypes

LEMMA Nothing == None \in Revisions /\ NoCache \in Caches /\ \A i \in Issues : NoCache.rev[i] = 0
  BY IssueCacheAssumption DEF None, Revisions, NoCache, Caches

LEMMA InitInv == Init => CacheInv
  <1> SUFFICES ASSUME Init PROVE CacheInv
    OBVIOUS
  <1>1. SharedTypes
    <2>1. stamp \in [Issues -> Seq(Seconds)]
      BY DEF Init
    <2> QED BY <2>1, Nothing, IssueCacheAssumption DEF Init, SharedTypes, Unreadable
  <1>2. RunTypes
    BY Nothing, IssueCacheAssumption DEF Init, RunTypes, Steps
  <1>3. Stamped
    <2> SUFFICES ASSUME NEW i \in Issues
                 PROVE  Len(stamp[i]) <= touches /\ \A k \in 1..Len(stamp[i]) : stamp[i][k] <= touches
      BY DEF Stamped
    <2>1. stamp[i] = << >> /\ touches = 0
      BY DEF Init
    <2> QED BY <2>1
  <1>4. Held
    <2>1. file \in Unreadable /\ tmp \in Unreadable
      BY DEF Init, Unreadable
    <2>2. \A c \in Collectors, i \in Issues : cache[c].rev[i] = 0 /\ best[i] = 0
      BY Nothing DEF Init, None
    <2> QED BY <2>1, <2>2 DEF Held, AllAccounted, Accounted
  <1> QED BY <1>1, <1>2, <1>3, <1>4, TypesApart DEF CacheInv

-----------------------------------------------------------------------------
(***************************************************************************)
(* The time of the latest update exists, and is bounded.                   *)
(***************************************************************************)

LEMMA LeastNatural ==
    ASSUME NEW T, T \subseteq Nat, T # {}
    PROVE  \E x \in T : \A y \in T : x <= y
  <1> DEFINE R == OpToRel(<, Nat)
  <1>1. IsWellFoundedOn(R, Nat)
    BY NatLessThanWellFounded
  <1>2. \A x, y \in Nat : x < y => <<x, y>> \in R
    BY DEF OpToRel
  <1> HIDE DEF R
  <1>3. PICK x \in T : \A y \in T : <<y, x>> \notin R
    BY <1>1, WFMin
  <1>4. \A y \in T : x <= y
    <2> TAKE y \in T
    <2>1. x \in Nat /\ y \in Nat
      OBVIOUS
    <2>2. ~ (y < x)
      BY <1>2, <1>3, <2>1
    <2> QED BY <2>1, <2>2
  <1> QED BY <1>4

\* The greatest of a set is the least of its bounds.
LEMMA GreatestNatural ==
    ASSUME NEW T, T # {}, NEW n \in Nat, T \subseteq 0..n
    PROVE  \E x \in T : \A y \in T : y <= x
  <1> DEFINE B == {b \in Nat : \A y \in T : y <= b}
  <1>1. n \in B
    OBVIOUS
  <1>2. PICK b \in B : \A c \in B : b <= c
    BY <1>1, LeastNatural
  <1>3. b \in T
    <2> SUFFICES ASSUME b \notin T PROVE FALSE
      OBVIOUS
    <2>1. \A y \in T : y \in Nat /\ y < b
      OBVIOUS
    <2>2. b > 0
      <3>1. PICK y \in T : TRUE
        OBVIOUS
      <3> QED BY <2>1, <3>1
    <2>3. b - 1 \in B
      BY <2>1, <2>2
    <2> QED BY <1>2, <2>2, <2>3
  <1> QED BY <1>3

LEMMA NowBounded ==
    ASSUME CacheInv
    PROVE  Now \in 0..touches
  <1> DEFINE revs == [i \in Issues |-> Current(i)]
             T == {At(i, revs[i]) : i \in Issues}
  <1>1. touches \in Nat /\ 1 \in Issues
    BY IssueCacheAssumption DEF CacheInv, TypeOK, Issues
  <1>2. \A i \in Issues : At(i, revs[i]) \in 0..touches
    <2> TAKE i \in Issues
    <2>1. stamp[i] \in Seq(Seconds) /\ revs[i] = Len(stamp[i])
      BY DEF CacheInv, TypeOK, Current
    <2>2. CASE Len(stamp[i]) = 0
      BY <1>1, <2>1, <2>2 DEF At
    <2>3. CASE Len(stamp[i]) # 0
      <3>1. Len(stamp[i]) \in 1..Len(stamp[i])
        BY <2>1, <2>3
      <3>2. stamp[i][Len(stamp[i])] \in Seconds /\ stamp[i][Len(stamp[i])] <= touches
        BY <2>1, <3>1 DEF CacheInv, Stamped
      <3> QED BY <1>1, <2>1, <2>3, <3>2 DEF At, Seconds
    <2> QED BY <2>2, <2>3
  <1>3. \E t \in T : \A y \in T : y <= t
    <2>1. T \subseteq 0..touches /\ T # {}
      BY <1>1, <1>2
    <2> HIDE DEF T
    <2> QED BY <1>1, <2>1, GreatestNatural
  <1>4. Now = CHOOSE t \in T : \A i \in Issues : At(i, revs[i]) <= t
    BY DEF Now, Latest
  <1> HIDE DEF revs
  <1>5. \E t \in T : \A i \in Issues : At(i, revs[i]) <= t
    BY <1>3
  <1>6. Now \in T
    BY <1>4, <1>5
  <1> QED BY <1>2, <1>6

-----------------------------------------------------------------------------
(***************************************************************************)
(* Parts of a step.                                                        *)
(***************************************************************************)

\* Accounted and AllAccounted of the next state, for a revision of this one.
StaysAccounted(i, rev) ==
    \/ rev <= best'[i]
    \/ <<i, rev>> \in abandoned'
    \/ \E c \in Collectors : pc'[c] \in {"write", "rename", "publish"} /\ fetched'[c][i] = rev

AllStayAccounted(revs) == \A i \in Issues : StaysAccounted(i, revs[i])

\* Nothing that was accounted for is lost.
AccountsKept ==
    \A i \in Issues, rev \in 0..MaxTouches : Accounted(i, rev) => StaysAccounted(i, rev)

\* The file and the runs' caches get nothing but from each other.
LEMMA HeldKept ==
    ASSUME CacheInv, AccountsKept, best' \in Revisions,
           file' \in {file, tmp} \cup {cache[c] : c \in Collectors} \cup Unreadable,
           tmp' \in {file, tmp} \cup {cache[c] : c \in Collectors} \cup Unreadable,
           \A c \in Collectors : \/ cache'[c] \in {NoCache, cache[c]}
                                 \/ cache'[c] = file /\ file \notin Unreadable
    PROVE  Held'
  <1>1. \A x \in Caches : AllAccounted(x.rev) => AllStayAccounted(x.rev)
    BY DEF AccountsKept, AllAccounted, AllStayAccounted, Caches, Revisions
  <1>2. AllStayAccounted(NoCache.rev)
    BY Nothing DEF AllStayAccounted, StaysAccounted, Revisions
  <1>3. \A x \in {file, tmp} \cup {cache[c] : c \in Collectors} :
          x \in Unreadable \/ (x \in Caches /\ AllAccounted(x.rev))
    BY DEF CacheInv, Held, TypeOK
  <1>4. \A x \in {file, tmp} \cup {cache[c] : c \in Collectors} \cup Unreadable :
          x \notin Unreadable => AllStayAccounted(x.rev)
    BY <1>1, <1>3
  <1>5. \A c \in Collectors : AllStayAccounted(cache'[c].rev)
    <2> TAKE c \in Collectors
    <2>1. cache[c] \in Caches /\ AllAccounted(cache[c].rev)
      BY DEF CacheInv, Held, TypeOK
    <2>2. file \notin Unreadable => file \in Caches /\ AllAccounted(file.rev)
      BY DEF CacheInv, Held, TypeOK
    <2> QED BY <1>1, <1>2, <2>1, <2>2
  <1>6. /\ file' \notin Unreadable => AllStayAccounted(file'.rev)
        /\ tmp' \notin Unreadable => AllStayAccounted(tmp'.rev)
    BY <1>4
  <1> QED BY <1>5, <1>6 DEF Held, AllAccounted, Accounted, AllStayAccounted, StaysAccounted

\* ... in particular when both files are left alone.
LEMMA FilesKept ==
    ASSUME CacheInv, AccountsKept, UNCHANGED <<file, tmp, best>>,
           \A c \in Collectors : \/ cache'[c] \in {NoCache, cache[c]}
                                 \/ cache'[c] = file /\ file \notin Unreadable
    PROVE  Held'
  <1>1. best' \in Revisions
    BY DEF CacheInv, TypeOK
  <1> QED BY <1>1, HeldKept

\* A run that has not merged yet has nothing to account for.
LEMMA OthersAccount ==
    ASSUME NEW c \in Collectors, pc[c] \notin {"write", "rename", "publish"},
           \A d \in Collectors \ {c} : pc'[d] = pc[d] /\ fetched'[d] = fetched[d],
           UNCHANGED <<best, abandoned>>
    PROVE  AccountsKept
  BY DEF AccountsKept, Accounted, StaysAccounted

LEMMA EndRunTypes ==
    ASSUME RunTypes, NEW c \in Collectors, EndRun(c), pc[c] # "write", UNCHANGED fd
    PROVE  RunTypes' /\ \A d \in Collectors \ {c} : pc'[d] = pc[d] /\ fetched'[d] = fetched[d]
  BY Nothing, IssueCacheAssumption DEF RunTypes, EndRun, Goto, Steps

\* The end of a run, or its way to publishing.
LEMMA PublishOrEndTypes ==
    ASSUME RunTypes, NEW c \in Collectors, NEW revs \in Revisions, PublishOrEnd(c, revs),
           fd' \in [Collectors -> {"none", "tmp", "file", "gone"}],
           \A d \in Collectors : fd'[d] # "none" <=> fd[d] # "none",
           pc[c] # "write"
    PROVE  /\ RunTypes'
           /\ fetched'[c] = revs /\ pc'[c] = (IF IsEmpty(revs) THEN "idle" ELSE "publish")
           /\ cache'[c] = NoCache
           /\ \A d \in Collectors \ {c} :
                 pc'[d] = pc[d] /\ fetched'[d] = fetched[d] /\ cache'[d] = cache[d]
  <1>1. /\ fetched' = [fetched EXCEPT ![c] = revs] /\ cache' = [cache EXCEPT ![c] = NoCache]
        /\ page' = [page EXCEPT ![c] = 0]
        /\ pc' = [pc EXCEPT ![c] = IF IsEmpty(revs) THEN "idle" ELSE "publish"]
    BY DEF PublishOrEnd, Goto
  <1>2. (IF IsEmpty(revs) THEN "idle" ELSE "publish") \in Steps \ {"write"}
    BY DEF Steps
  <1>3. /\ fetched' \in [Collectors -> Revisions] /\ cache' \in [Collectors -> Caches]
        /\ page' \in [Collectors -> 0..N] /\ pc' \in [Collectors -> Steps]
    BY <1>1, <1>2, Nothing, IssueCacheAssumption DEF RunTypes
  <1>4. \A d \in Collectors : fd'[d] # "none" <=> pc'[d] = "write"
    BY <1>1, <1>2 DEF RunTypes
  <1> QED BY <1>1, <1>3, <1>4 DEF RunTypes

\* What a run has merged stays accounted for while it saves, and when there is nothing left.
LEMMA SavingAccounts ==
    ASSUME CacheInv, NEW c \in Collectors, pc[c] \in {"write", "rename"},
           fetched'[c] = fetched[c],
           pc'[c] \in {"rename", "publish"} \/ IsEmpty(fetched[c]),
           \A d \in Collectors \ {c} : pc'[d] = pc[d] /\ fetched'[d] = fetched[d],
           UNCHANGED <<best, abandoned>>
    PROVE  AccountsKept
  <1> SUFFICES ASSUME NEW i \in Issues, NEW rev \in 0..MaxTouches, Accounted(i, rev)
               PROVE  StaysAccounted(i, rev)
    BY DEF AccountsKept
  <1>1. best[i] \in Nat
    BY DEF CacheInv, TypeOK, Revisions
  <1>2. IsEmpty(fetched[c]) => fetched[c][i] = 0
    BY DEF IsEmpty, None
  <1> QED BY <1>1, <1>2 DEF Accounted, StaysAccounted

-----------------------------------------------------------------------------
(***************************************************************************)
(* GitHub, and a run up to its merge.                                      *)
(***************************************************************************)

LEMMA TouchKeeps ==
    ASSUME CacheInv, NEW i \in Issues, Touch(i)
    PROVE  CacheInv'
  <1> USE DEF CacheInv
  <1>1. /\ UNCHANGED <<cap, disk, local, published, abandoned, faults>>
        /\ touches < MaxTouches /\ touches' = touches + 1
    BY DEF Touch
  <1>2. touches \in Nat /\ touches' \in 0..MaxTouches
    BY <1>1, IssueCacheAssumption DEF TypeOK
  <1>3. raced' \in SUBSET Issues
    BY DEF Touch, TypeOK
  <1>4. PICK t \in {Now, Now + 1} \ {0} : stamp' = [stamp EXCEPT ![i] = Append(@, t)]
    BY DEF Touch
  <1>5. t \in Nat /\ t <= touches' /\ t \in Seconds
    <2>1. Now \in Nat /\ Now <= touches /\ MaxTouches \in Nat
      BY <1>2, NowBounded, IssueCacheAssumption
    <2>2. t = Now \/ t = Now + 1
      BY <1>4
    <2>3. t \in Nat /\ t <= touches + 1 /\ touches + 1 <= MaxTouches
      BY <1>1, <1>2, <2>1, <2>2
    <2> QED BY <1>1, <2>1, <2>3 DEF Seconds
  <1>6. stamp[i] \in Seq(Seconds)
    BY DEF TypeOK
  <1>7. /\ Append(stamp[i], t) \in Seq(Seconds) /\ Len(Append(stamp[i], t)) = Len(stamp[i]) + 1
        /\ \A k \in 1..Len(stamp[i]) : Append(stamp[i], t)[k] = stamp[i][k] /\ stamp[i][k] \in Seconds
        /\ Append(stamp[i], t)[Len(stamp[i]) + 1] = t
    BY <1>5, <1>6
  <1>8. TypeOK'
    <2>1. stamp' \in [Issues -> Seq(Seconds)]
      BY <1>4, <1>7 DEF TypeOK
    <2> QED BY <1>1, <1>2, <1>3, <2>1 DEF TypeOK, disk, local, published
  <1>9. Stamped'
    <2> SUFFICES ASSUME NEW j \in Issues
                 PROVE  /\ Len(stamp'[j]) <= touches'
                        /\ \A k \in 1..Len(stamp'[j]) : stamp'[j][k] <= touches'
      BY DEF Stamped
    <2>1. CASE j # i
      <3>1. stamp'[j] = stamp[j] /\ stamp[j] \in Seq(Seconds)
        BY <1>4, <2>1 DEF TypeOK
      <3>2. Len(stamp[j]) \in Nat /\ \A k \in 1..Len(stamp[j]) : stamp[j][k] \in Seconds
        BY <3>1
      <3> QED BY <1>1, <1>2, <3>1, <3>2 DEF Stamped, Seconds
    <2>2. CASE j = i
      <3>1. stamp'[i] = Append(stamp[i], t) /\ Len(stamp[i]) \in Nat
        BY <1>4, <1>6 DEF TypeOK
      <3>2. Len(stamp[i]) + 1 <= touches'
        BY <1>1, <1>2, <3>1 DEF Stamped
      <3>3. \A k \in 1..(Len(stamp[i]) + 1) : Append(stamp[i], t)[k] <= touches'
        <4> TAKE k \in 1..(Len(stamp[i]) + 1)
        <4>1. CASE k = Len(stamp[i]) + 1
          BY <1>5, <1>7, <4>1
        <4>2. CASE k # Len(stamp[i]) + 1
          <5>1. k \in 1..Len(stamp[i])
            BY <3>1, <4>2
          <5> QED BY <1>1, <1>2, <1>7, <5>1 DEF Stamped, Seconds
        <4> QED BY <4>1, <4>2
      <3> QED BY <1>7, <2>2, <3>1, <3>2, <3>3
    <2> QED BY <2>1, <2>2
  <1>10. Held'
    BY <1>1 DEF Held, AllAccounted, Accounted, disk, local, published
  <1> QED BY <1>8, <1>9, <1>10

\* What GitHub has is of the types of a listing.
LEMMA CurrentTypes ==
    ASSUME CacheInv
    PROVE  \A i \in Issues : Current(i) \in 0..MaxTouches
  <1> TAKE i \in Issues
  <1>1. stamp[i] \in Seq(Seconds) /\ touches \in 0..MaxTouches /\ Len(stamp[i]) <= touches
    BY DEF CacheInv, TypeOK, Stamped
  <1>2. Len(stamp[i]) \in Nat
    BY <1>1
  <1> QED BY <1>1, <1>2, IssueCacheAssumption DEF Current

LEMMA LoadKeeps ==
    ASSUME CacheInv, NEW c \in Collectors, Load(c), UNCHANGED cap
    PROVE  CacheInv'
  <1> USE DEF CacheInv
  <1>1. /\ UNCHANGED <<stamp, disk, fetched, fd, published, raced, abandoned, touches, faults>>
        /\ pc[c] = "idle"
    BY DEF Load
  <1> DEFINE new == IF file \in Unreadable THEN NoCache ELSE file
  <1>2. new \in Caches
    BY Nothing DEF TypeOK
  <1>3. cache' = [cache EXCEPT ![c] = new]
    BY DEF Load
  <1>4. PICK step \in {"fetch", "probe"}, p \in {0, N} :
          pc' = [pc EXCEPT ![c] = step] /\ page' = [page EXCEPT ![c] = p]
    BY DEF Load, Goto
  <1>5. \A d \in Collectors : \/ cache'[d] \in {NoCache, cache[d]}
                              \/ cache'[d] = file /\ file \notin Unreadable
    BY <1>3 DEF TypeOK
  <1> HIDE DEF new
  <1>6. RunTypes'
    BY <1>1, <1>2, <1>3, <1>4, TypesApart, IssueCacheAssumption DEF RunTypes, Steps
  <1>7. SharedTypes' /\ Stamped'
    BY <1>1, TypesApart DEF SharedTypes, Stamped, disk, published
  <1>8. \A d \in Collectors \ {c} : pc'[d] = pc[d] /\ fetched'[d] = fetched[d]
    BY <1>1, <1>4 DEF TypeOK
  <1>9. AccountsKept
    BY <1>1, <1>8, OthersAccount DEF published
  <1>10. Held'
    BY <1>1, <1>5, <1>9, FilesKept DEF disk, published
  <1> QED BY <1>6, <1>7, <1>10 DEF TypeOK, SharedTypes, RunTypes

\* A run that ends before its merge, or goes on without a cache hit.
LEMMA ProbeKeeps ==
    ASSUME CacheInv, NEW c \in Collectors, Probe(c) \/ FetchFails(c), UNCHANGED cap
    PROVE  CacheInv'
  <1> USE DEF CacheInv
  <1>1. /\ UNCHANGED <<stamp, disk, fd, published, raced, abandoned, touches>>
        /\ faults' \in 0..MaxFaults /\ pc[c] \in {"probe", "fetch"}
    BY IssueCacheAssumption DEF Probe, FetchFails, Fault, TypeOK
  <1>2. \/ EndRun(c)
        \/ Goto(c, "fetch") /\ page' = [page EXCEPT ![c] = N] /\ UNCHANGED <<cache, fetched>> /\ pc[c] = "probe"
    BY DEF Probe, FetchFails
  <1>3. RunTypes' /\ \A d \in Collectors \ {c} : pc'[d] = pc[d] /\ fetched'[d] = fetched[d]
    <2>1. CASE EndRun(c)
      BY <1>1, <2>1, TypesApart, EndRunTypes
    <2>2. CASE Goto(c, "fetch") /\ page' = [page EXCEPT ![c] = N] /\ UNCHANGED <<cache, fetched>> /\ pc[c] = "probe"
      BY <1>1, <2>2, TypesApart, IssueCacheAssumption DEF RunTypes, Goto, Steps
    <2> QED BY <1>2, <2>1, <2>2
  <1>4. SharedTypes' /\ Stamped'
    BY <1>1, TypesApart DEF SharedTypes, Stamped, disk, published
  <1>5. AccountsKept
    BY <1>1, <1>3, OthersAccount DEF published
  <1>6. \A d \in Collectors : cache'[d] \in {NoCache, cache[d]}
    BY <1>2 DEF EndRun, TypeOK
  <1>7. Held'
    BY <1>1, <1>5, <1>6, FilesKept DEF disk, published
  <1> QED BY <1>3, <1>4, <1>7 DEF TypeOK, SharedTypes, RunTypes

LEMMA FetchPageKeeps ==
    ASSUME CacheInv, NEW c \in Collectors, FetchPage(c), UNCHANGED cap
    PROVE  CacheInv'
  <1> USE DEF CacheInv
  <1>1. /\ UNCHANGED <<stamp, disk, pc, cache, fd, published, abandoned, touches, faults>>
        /\ pc[c] = "fetch" /\ page[c] \in 1..N
    BY DEF FetchPage, TypeOK
  <1>2. /\ page' = [page EXCEPT ![c] = 0] \/ page' = [page EXCEPT ![c] = page[c] - 1]
        /\ raced' = raced \/ raced' = raced \cup {j \in 1..page[c] : Since(c, j)}
        /\ \/ fetched' = fetched
           \/ \E r \in {0, Current(page[c])} : fetched' = [fetched EXCEPT ![c][page[c]] = r]
    BY DEF FetchPage
  <1>3. page' \in [Collectors -> 0..N] /\ raced' \in SUBSET Issues
    <2>1. page[c] - 1 \in 0..N /\ 0 \in 0..N /\ 1..page[c] \subseteq Issues
      BY <1>1, IssueCacheAssumption DEF Issues
    <2> QED BY <1>2, <2>1 DEF TypeOK
  <1>4. fetched' \in [Collectors -> Revisions] /\ \A d \in Collectors \ {c} : fetched'[d] = fetched[d]
    <2>1. Current(page[c]) \in 0..MaxTouches /\ 0 \in 0..MaxTouches
      BY <1>1, CurrentTypes, IssueCacheAssumption DEF Issues
    <2>2. fetched \in [Collectors -> [Issues -> 0..MaxTouches]] /\ page[c] \in Issues
      BY <1>1 DEF TypeOK, Revisions, Issues
    <2> QED BY <1>2, <2>1, <2>2 DEF Revisions
  <1>5. TypeOK' /\ Stamped'
    BY <1>1, <1>3, <1>4 DEF TypeOK, Stamped, disk, published
  <1>6. AccountsKept
    BY <1>1, <1>4, OthersAccount DEF published
  <1>7. Held'
    BY <1>1, <1>6, FilesKept DEF disk, published
  <1> QED BY <1>5, <1>7

-----------------------------------------------------------------------------
(***************************************************************************)
(* Merge, save and publish.                                                *)
(***************************************************************************)

\* The merged cache: what it takes from the listing this run is about to publish.
LEMMA MergeKeeps ==
    ASSUME CacheInv, NEW c \in Collectors, Merge(c), UNCHANGED cap
    PROVE  CacheInv'
  <1> USE DEF CacheInv
  <1> DEFINE merged == [i \in Issues |-> IF i \in Changed(c) THEN fetched[c][i] ELSE cache[c].rev[i]]
             publish == [i \in Issues |-> IF i \in Changed(c) THEN fetched[c][i] ELSE 0]
  <1>1. UNCHANGED <<stamp, file, last, best, raced, abandoned, touches>> /\ pc[c] = "fetch"
    BY DEF Merge, published
  <1>2. /\ merged \in Revisions /\ publish \in Revisions
        /\ \A i \in Issues : merged[i] \in {publish[i], cache[c].rev[i]}
    BY IssueCacheAssumption DEF TypeOK, Caches, Revisions
  <1>3. \/ /\ \E id \in Markers(merged) : cache' = [cache EXCEPT ![c] = [rev |-> merged, id |-> id]]
           /\ fetched' = [fetched EXCEPT ![c] = publish]
           /\ tmp' = Empty /\ fd' = [fd EXCEPT ![c] = "tmp"]
           /\ Goto(c, "write")
           /\ UNCHANGED <<page, faults>>
        \/ Fault /\ PublishOrEnd(c, publish) /\ UNCHANGED <<tmp, fd>>
    BY DEF Merge
  <1> HIDE DEF merged, publish
  <1>4. ASSUME NEW id \in Markers(merged), cache' = [cache EXCEPT ![c] = [rev |-> merged, id |-> id]],
               fetched' = [fetched EXCEPT ![c] = publish],
               tmp' = Empty, fd' = [fd EXCEPT ![c] = "tmp"], Goto(c, "write"),
               UNCHANGED <<page, faults>>
        PROVE  CacheInv'
    <2>1. id \in 0..N
      BY IssueCacheAssumption DEF Markers, Issues
    <2>2. [rev |-> merged, id |-> id] \in Caches
      BY <1>2, <2>1 DEF Caches
    <2>3. RunTypes'
      BY <1>2, <1>4, <2>2, TypesApart DEF RunTypes, Goto, Steps
    <2>4. SharedTypes' /\ Stamped'
      BY <1>1, <1>4, TypesApart DEF SharedTypes, Unreadable, Stamped
    <2>5. \A d \in Collectors \ {c} : pc'[d] = pc[d] /\ fetched'[d] = fetched[d] /\ cache'[d] = cache[d]
      BY <1>4 DEF Goto, TypeOK
    <2>6. AccountsKept
      BY <1>1, <2>5, OthersAccount
    <2>7. pc'[c] = "write" /\ fetched'[c] = publish /\ cache'[c].rev = merged
      BY <1>4 DEF Goto, TypeOK
    <2>8. \A x \in Caches : AllAccounted(x.rev) => AllStayAccounted(x.rev)
      BY <2>6 DEF AccountsKept, AllAccounted, AllStayAccounted, Caches, Revisions
    <2>9. AllStayAccounted(cache[c].rev)
      BY <2>8 DEF TypeOK, Held
    <2>10. AllStayAccounted(merged)
      BY <1>2, <2>7, <2>9 DEF AllStayAccounted, StaysAccounted
    <2>11. \A d \in Collectors : AllStayAccounted(cache'[d].rev)
      BY <2>5, <2>7, <2>8, <2>10 DEF TypeOK, Held
    <2>12. file' \notin Unreadable => AllStayAccounted(file'.rev)
      BY <1>1, <2>8 DEF TypeOK, Held
    <2>13. tmp' \in Unreadable
      BY <1>4 DEF Unreadable
    <2>14. Held'
      BY <2>11, <2>12, <2>13
      DEF Held, AllAccounted, Accounted, AllStayAccounted, StaysAccounted
    <2> QED BY <2>3, <2>4, <2>14 DEF TypeOK, SharedTypes, RunTypes
  <1>5. ASSUME Fault, PublishOrEnd(c, publish), UNCHANGED <<tmp, fd>>
        PROVE  CacheInv'
    <2>1. faults' \in 0..MaxFaults
      BY <1>5, IssueCacheAssumption DEF Fault, TypeOK
    <2>2. /\ RunTypes' /\ cache'[c] = NoCache
          /\ \A d \in Collectors \ {c} :
                pc'[d] = pc[d] /\ fetched'[d] = fetched[d] /\ cache'[d] = cache[d]
      BY <1>1, <1>2, <1>5, TypesApart, PublishOrEndTypes DEF RunTypes
    <2>3. SharedTypes' /\ Stamped'
      BY <1>1, <1>5, <2>1, TypesApart DEF SharedTypes, Stamped
    <2>4. AccountsKept
      BY <1>1, <2>2, OthersAccount
    <2>5. Held'
      BY <1>1, <1>5, <2>2, <2>4, FilesKept
    <2> QED BY <2>2, <2>3, <2>5 DEF TypeOK, SharedTypes, RunTypes
  <1> QED BY <1>3, <1>4, <1>5

LEMMA WriteKeeps ==
    ASSUME CacheInv, NEW c \in Collectors, Write(c), UNCHANGED cap
    PROVE  CacheInv'
  <1> USE DEF CacheInv
  <1>1. /\ UNCHANGED <<stamp, fetched, page, last, best, raced, abandoned, touches, faults>>
        /\ pc[c] = "write" /\ pc' = [pc EXCEPT ![c] = "rename"]
        /\ fd' = [fd EXCEPT ![c] = "none"] /\ cache' = [cache EXCEPT ![c] = NoCache]
    BY DEF Write, Goto, published
  <1>2. /\ file' \in {file, cache[c], Damaged}
        /\ tmp' \in {tmp, cache[c], Damaged}
    BY DEF Write, WriteTo, Written, disk
  <1>3. cache[c] \in Caches
    BY DEF TypeOK
  <1>4. RunTypes'
    BY <1>1, Nothing, TypesApart DEF RunTypes, Steps
  <1>5. SharedTypes' /\ Stamped'
    BY <1>1, <1>2, <1>3, TypesApart DEF SharedTypes, Unreadable, Stamped
  <1>6. /\ pc'[c] = "rename" /\ fetched'[c] = fetched[c]
        /\ \A d \in Collectors \ {c} : pc'[d] = pc[d] /\ fetched'[d] = fetched[d]
        /\ \A d \in Collectors : cache'[d] \in {NoCache, cache[d]}
    BY <1>1 DEF TypeOK
  <1>7. AccountsKept
    BY <1>1, <1>6, SavingAccounts
  <1>8. best' \in Revisions /\ Damaged \in Unreadable
    BY <1>1 DEF TypeOK, Unreadable
  <1>9. Held'
    BY <1>2, <1>6, <1>7, <1>8, HeldKept
  <1> QED BY <1>4, <1>5, <1>9 DEF TypeOK, SharedTypes, RunTypes

LEMMA RenameKeeps ==
    ASSUME CacheInv, NEW c \in Collectors, Rename(c), UNCHANGED cap
    PROVE  CacheInv'
  <1> USE DEF CacheInv
  <1>1. /\ UNCHANGED <<stamp, last, best, raced, abandoned, touches, faults>>
        /\ pc[c] = "rename" /\ PublishOrEnd(c, fetched[c])
    BY DEF Rename, published
  <1>2. /\ file' \in {file, tmp} /\ tmp' \in {tmp, Absent}
        /\ \/ fd' = fd
           \/ fd' = [d \in Collectors |-> CASE fd[d] = "tmp"  -> "file"
                                            [] fd[d] = "file" -> "gone"
                                            [] OTHER          -> fd[d]]
    BY DEF Rename, disk
  <1>3. /\ fd' \in [Collectors -> {"none", "tmp", "file", "gone"}]
        /\ \A d \in Collectors : fd'[d] # "none" <=> fd[d] # "none"
    BY <1>2 DEF TypeOK
  <1>4. fetched[c] \in Revisions
    BY DEF TypeOK
  <1>5. /\ RunTypes' /\ fetched'[c] = fetched[c] /\ cache'[c] = NoCache
        /\ pc'[c] = (IF IsEmpty(fetched[c]) THEN "idle" ELSE "publish")
        /\ \A d \in Collectors \ {c} :
              pc'[d] = pc[d] /\ fetched'[d] = fetched[d] /\ cache'[d] = cache[d]
    BY <1>1, <1>3, <1>4, TypesApart, PublishOrEndTypes
  <1>6. SharedTypes' /\ Stamped'
    BY <1>1, <1>2, TypesApart DEF SharedTypes, Unreadable, Stamped
  <1>7. AccountsKept
    BY <1>1, <1>5, SavingAccounts
  <1>8. best' \in Revisions /\ Absent \in Unreadable
    BY <1>1 DEF TypeOK, Unreadable
  <1>9. Held'
    BY <1>2, <1>5, <1>7, <1>8, HeldKept
  <1> QED BY <1>5, <1>6, <1>9 DEF TypeOK, SharedTypes, RunTypes

LEMMA PublishKeeps ==
    ASSUME CacheInv, NEW c \in Collectors, Publish(c), UNCHANGED cap
    PROVE  CacheInv'
  <1> USE DEF CacheInv
  <1>1. UNCHANGED <<stamp, file, tmp, fd, raced, abandoned, touches, faults>> /\ pc[c] = "publish"
    BY DEF Publish, disk
  <1>2. PICK i \in Issues :
          /\ fetched[c][i] # 0
          /\ last' = [last EXCEPT ![i] = fetched[c][i]]
          /\ best' = [best EXCEPT ![i] = IF @ < fetched[c][i] THEN fetched[c][i] ELSE @]
          /\ PublishOrEnd(c, [fetched[c] EXCEPT ![i] = 0])
    BY DEF Publish
  <1> DEFINE rest == [fetched[c] EXCEPT ![i] = 0]
  <1>3. /\ fetched[c] \in Revisions /\ rest \in Revisions
        /\ rest[i] = 0 /\ \A j \in Issues \ {i} : rest[j] = fetched[c][j]
    BY IssueCacheAssumption DEF TypeOK, Revisions
  <1> HIDE DEF rest
  <1>4. /\ RunTypes' /\ fetched'[c] = rest /\ cache'[c] = NoCache
        /\ pc'[c] = (IF IsEmpty(rest) THEN "idle" ELSE "publish")
        /\ \A d \in Collectors \ {c} :
              pc'[d] = pc[d] /\ fetched'[d] = fetched[d] /\ cache'[d] = cache[d]
    BY <1>1, <1>2, <1>3, TypesApart, PublishOrEndTypes DEF RunTypes, rest
  <1>5. /\ last' \in Revisions /\ best' \in Revisions
        /\ \A j \in Issues : best[j] <= best'[j]
        /\ fetched[c][i] <= best'[i]
    <2> DEFINE new == IF best[i] < fetched[c][i] THEN fetched[c][i] ELSE best[i]
    <2>1. last \in Revisions /\ best \in Revisions
      BY DEF TypeOK
    <2>2. /\ fetched[c][i] \in 0..MaxTouches /\ best[i] \in 0..MaxTouches
          /\ \A j \in Issues : best[j] \in Nat
      BY <1>3, <2>1 DEF Revisions
    <2>3. new \in 0..MaxTouches /\ best[i] <= new /\ fetched[c][i] <= new
      BY <2>2
    <2>4. last' = [last EXCEPT ![i] = fetched[c][i]] /\ best' = [best EXCEPT ![i] = new]
      BY <1>2
    <2> HIDE DEF new
    <2>5. last' \in Revisions /\ best' \in Revisions
      BY <2>1, <2>2, <2>3, <2>4 DEF Revisions
    <2>6. best'[i] = new /\ \A j \in Issues \ {i} : best'[j] = best[j]
      BY <2>1, <2>4 DEF Revisions
    <2> QED BY <2>2, <2>3, <2>5, <2>6
  <1>6. SharedTypes' /\ Stamped'
    BY <1>1, <1>5, TypesApart DEF SharedTypes, Stamped
  <1>7. AccountsKept
    <2> SUFFICES ASSUME NEW j \in Issues, NEW rev \in 0..MaxTouches, Accounted(j, rev)
                 PROVE  StaysAccounted(j, rev)
      BY DEF AccountsKept
    <2>1. best[j] \in Nat /\ best'[j] \in Nat /\ best[j] <= best'[j]
      BY <1>5 DEF TypeOK, Revisions
    <2>2. CASE rev <= best[j]
      BY <2>1, <2>2 DEF StaysAccounted
    <2>3. CASE <<j, rev>> \in abandoned
      BY <1>1, <2>3 DEF StaysAccounted
    <2>4. ASSUME NEW d \in Collectors, pc[d] \in {"write", "rename", "publish"}, fetched[d][j] = rev
          PROVE  StaysAccounted(j, rev)
      <3>1. CASE d # c
        BY <1>4, <2>4, <3>1 DEF StaysAccounted
      <3>2. CASE d = c /\ j = i
        BY <1>5, <2>4, <3>2 DEF StaysAccounted
      <3>3. CASE d = c /\ j # i
        <4>1. rest[j] = rev
          BY <1>3, <2>4, <3>3
        <4>2. IsEmpty(rest) => rev = 0
          BY <4>1 DEF IsEmpty, None
        <4> QED BY <1>4, <2>1, <4>1, <4>2 DEF StaysAccounted
      <3> QED BY <3>1, <3>2, <3>3
    <2> QED BY <2>2, <2>3, <2>4 DEF Accounted
  <1>8. \A d \in Collectors : cache'[d] \in {NoCache, cache[d]}
    BY <1>4
  <1>9. Held'
    BY <1>1, <1>5, <1>7, <1>8, HeldKept
  <1> QED BY <1>4, <1>6, <1>9 DEF TypeOK, SharedTypes, RunTypes

-----------------------------------------------------------------------------
(***************************************************************************)
(* Runs that give up: what they would have published is in the history.    *)
(***************************************************************************)

LEMMA AbandonTypes ==
    ASSUME CacheInv, NEW c \in Collectors
    PROVE  /\ Abandon(c) \subseteq Issues \X (1..MaxTouches)
           /\ \A i \in Issues : fetched[c][i] # 0 => <<i, fetched[c][i]>> \in Abandon(c)
  BY IssueCacheAssumption DEF CacheInv, TypeOK, Revisions, Abandon

LEMMA GivesUpKeeps ==
    ASSUME CacheInv, NEW c \in Collectors, PublishFails(c), UNCHANGED cap
    PROVE  CacheInv'
  <1> USE DEF CacheInv
  <1>1. /\ UNCHANGED <<stamp, file, tmp, fd, last, best, raced, touches>>
        /\ pc[c] = "publish" /\ EndRun(c) /\ abandoned' = abandoned \cup Abandon(c)
    BY DEF PublishFails, disk, published
  <1>2. faults' \in 0..MaxFaults
    BY IssueCacheAssumption DEF PublishFails, Fault, TypeOK
  <1>3. RunTypes' /\ \A d \in Collectors \ {c} : pc'[d] = pc[d] /\ fetched'[d] = fetched[d]
    BY <1>1, TypesApart, EndRunTypes
  <1>4. SharedTypes' /\ Stamped'
    BY <1>1, <1>2, AbandonTypes, TypesApart DEF SharedTypes, Stamped
  <1>5. AccountsKept
    <2> SUFFICES ASSUME NEW i \in Issues, NEW rev \in 0..MaxTouches, Accounted(i, rev)
                 PROVE  StaysAccounted(i, rev)
      BY DEF AccountsKept
    <2>1. CASE rev = 0
      BY <1>1, <2>1 DEF StaysAccounted, TypeOK, Revisions
    <2>2. CASE fetched[c][i] = rev /\ rev # 0
      BY <1>1, <2>2, AbandonTypes DEF StaysAccounted
    <2>3. CASE fetched[c][i] # rev
      BY <1>1, <1>3, <2>3 DEF Accounted, StaysAccounted
    <2> QED BY <2>1, <2>2, <2>3
  <1>6. \A d \in Collectors : cache'[d] \in {NoCache, cache[d]}
    BY <1>1 DEF EndRun, TypeOK
  <1>7. Held'
    BY <1>1, <1>5, <1>6, FilesKept
  <1> QED BY <1>3, <1>4, <1>7 DEF TypeOK, SharedTypes, RunTypes

LEMMA RestartKeeps ==
    ASSUME CacheInv, Restart
    PROVE  CacheInv'
  <1> USE DEF CacheInv
  <1>1. /\ UNCHANGED <<cap, stamp, file, tmp, last, best, raced, touches>>
        /\ abandoned' = abandoned \cup UNION {Abandon(c) : c \in Collectors}
        /\ pc' = [c \in Collectors |-> "idle"]
        /\ cache' = [c \in Collectors |-> NoCache]
        /\ fetched' = [c \in Collectors |-> None]
        /\ page' = [c \in Collectors |-> 0]
        /\ fd' = [c \in Collectors |-> "none"]
    BY DEF Restart, disk, published
  <1>2. faults' \in 0..MaxFaults
    BY IssueCacheAssumption DEF Restart, Fault, TypeOK
  <1>3. RunTypes'
    BY <1>1, Nothing, IssueCacheAssumption DEF RunTypes, Steps
  <1>4. abandoned' \in SUBSET (Issues \X (1..MaxTouches)) /\ abandoned \subseteq abandoned'
    BY <1>1, AbandonTypes DEF TypeOK
  <1>5. SharedTypes' /\ Stamped'
    BY <1>1, <1>2, <1>4, TypesApart DEF SharedTypes, Stamped
  <1>6. AccountsKept
    <2> SUFFICES ASSUME NEW i \in Issues, NEW rev \in 0..MaxTouches, Accounted(i, rev)
                 PROVE  StaysAccounted(i, rev)
      BY DEF AccountsKept
    <2>1. CASE rev = 0
      BY <1>1, <2>1 DEF StaysAccounted, TypeOK, Revisions
    <2>2. ASSUME NEW c \in Collectors, fetched[c][i] = rev, rev # 0
          PROVE  StaysAccounted(i, rev)
      <3>1. <<i, rev>> \in Abandon(c)
        BY <2>2, AbandonTypes
      <3> QED BY <1>1, <3>1 DEF StaysAccounted
    <2> QED BY <1>1, <1>4, <2>1, <2>2 DEF Accounted, StaysAccounted
  <1>7. \A d \in Collectors : cache'[d] \in {NoCache, cache[d]}
    BY <1>1
  <1>8. Held'
    BY <1>1, <1>6, <1>7, FilesKept
  <1> QED BY <1>3, <1>5, <1>8 DEF TypeOK, SharedTypes, RunTypes

-----------------------------------------------------------------------------

LEMMA CacheStep == CacheInv /\ [Next]_vars => CacheInv'
  <1> SUFFICES ASSUME CacheInv, [Next]_vars PROVE CacheInv'
    OBVIOUS
  <1>1. ASSUME NEW i \in Issues, Touch(i) PROVE CacheInv'
    BY <1>1, TouchKeeps
  <1>2. ASSUME NEW c \in Collectors, Run(c) PROVE CacheInv'
    BY <1>2, LoadKeeps, ProbeKeeps, FetchPageKeeps, MergeKeeps, WriteKeeps, RenameKeeps, PublishKeeps
    DEF Run
  <1>3. ASSUME NEW c \in Collectors, Fail(c) PROVE CacheInv'
    BY <1>3, ProbeKeeps, GivesUpKeeps DEF Fail
  <1>4. CASE Restart
    BY <1>4, RestartKeeps
  <1>5. CASE UNCHANGED vars
    BY <1>5 DEF CacheInv, TypeOK, Stamped, Held, AllAccounted, Accounted, vars, local, disk, published
  <1> QED BY <1>1, <1>2, <1>3, <1>4, <1>5 DEF Next

\* Types, and: each revision in the cache file, which later runs skip as unchanged, has been
\* published, is about to be, or was given up by a run that failed; the interleaving of two runs
\* over the shared file and its one temporary name alone loses none (issues_cache.go,
\* runOneSource).
THEOREM CacheIsSafe == Spec => []Safety
  BY InitInv, CacheStep, InvSafe, PTL DEF Spec

================================================================================
