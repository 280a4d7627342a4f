--------------------------- MODULE MailThreads_proofs ---------------------------
(***************************************************************************)
(* collector-jmap for any mails, threads, limit, changes and faults: what  *)
(* the sink shows of the mailbox, however the two runs overlap.            *)
(*                                                                         *)
(* Neither half of Safety is inductive.  A row is explained if the run     *)
(* that holds it will publish it so: Named follows rows and their mails    *)
(* through the calls.  A report is current if the run's mails stay the     *)
(* newest (Untouched) and what it has published stays in the sink          *)
(* (Reported).  Newer is the same for NoRollback.                          *)
(***************************************************************************)
EXTENDS MailThreads, FiniteSetTheorems, FunctionTheorems, WellFoundedInduction, TLAPS

-----------------------------------------------------------------------------
(***************************************************************************)
(* The inductive invariant.                                                *)
(***************************************************************************)

\* The type invariant without what it says of cardinalities, which follows from the rest.
Types ==
    /\ place \in [Mails -> {"none", "inbox", "archive", "gone"}]
    /\ at \in [Mails -> 0..Cardinality(Mails)]
    /\ step \in [Runs -> {"idle", "hung", "query", "get", "threads", "publish", "report"}]
    /\ ids \in [Runs -> SUBSET Mails] /\ rows \in [Runs -> SUBSET Row]
    /\ sink \in [Threads -> SUBSET Row]
    /\ touched \in [Runs -> BOOLEAN] /\ overtaken \in [Runs -> BOOLEAN] /\ seen \in [Runs -> SUBSET Mails]

\* A request is in the queue until its run is over.
Counters ==
    /\ asked \in 0..MaxRequests /\ changes \in 0..MaxChanges
    /\ requests \in 0..asked
    /\ step["request"] # "idle" => requests > 0

\* A mail that has arrived has a date of its own, no later than their number.
Received ==
    /\ \A m \in Arrived : at[m] \in 1..Cardinality(Arrived)
    /\ \A m, n \in Arrived : at[m] = at[n] => m = n

\* Mails of different threads.
Apart(S) == \A m, n \in S : ThreadOf[m] = ThreadOf[n] => m = n

\* The mails of a run have arrived, and its rows are of these mails.
Named(r) ==
    /\ ids[r] \subseteq Arrived /\ Apart(ids[r]) /\ Cardinality(ids[r]) <= Limit
    /\ \A row \in rows[r] :
          /\ row.mail \in ids[r] /\ row.thread = ThreadOf[row.mail]
          /\ step[r] = "publish" /\ row.count = 0 => place[row.mail] = "gone"
    /\ step[r] \notin {"threads", "publish"} => rows[r] = {}

Joining == {"get", "threads", "publish", "report"}

\* In a mailbox that nobody has touched, the run's mails are the newest still, and what it has
\* read of them is so still.
Untouched(r) ==
    /\ step[r] \in Joining => ids[r] = Top
    /\ step[r] = "threads" => \A m \in Top : \E row \in rows[r] : row.mail = m
    /\ step[r] = "publish" => \A row \in rows[r] : row = RowOf(row.mail)

\* What it has published is in the sink, as no other run has published since.
Reported(r) ==
    step[r] \in {"publish", "report"} =>
        \A m \in Top : \/ step[r] = "publish" /\ RowOf(m) \in rows[r]
                       \/ sink[ThreadOf[m]] = {RowOf(m)}

\* The mails it will publish are no older than those the sink shows and that it has seen in the inbox.
Newer(r) ==
    step[r] \in Joining =>
        \A m \in ids[r] : \A old \in sink[ThreadOf[m]] :
            old.mail \in seen[r] => at[old.mail] <= at[m]

Joined(r) ==
    /\ Named(r)
    /\ ~touched[r] => Untouched(r)
    /\ ~touched[r] /\ ~overtaken[r] => Reported(r)
    /\ ~overtaken[r] => Newer(r)

\* The sink shows mails that have arrived, in their threads, and explains its counts.
Shown ==
    \A t \in Threads :
        /\ sink[t] = {} \/ \E row : sink[t] = {row}
        /\ \A row \in sink[t] :
              /\ row.thread = t /\ row.mail \in Arrived /\ ThreadOf[row.mail] = t
              /\ row.count = 0 => place[row.mail] = "gone"

MailInv == Types /\ Counters /\ Received /\ Shown /\ \A r \in Runs : Joined(r)

-----------------------------------------------------------------------------
(***************************************************************************)
(* Sets of mails.                                                          *)
(***************************************************************************)

LEMMA LeastNatural ==
    ASSUME NEW T, T \subseteq Nat, T # {}
    PROVE  \E x \in T : \A y \in T : x <= y
  <1> DEFINE R == OpToRel(<, Nat)
  <1>1. IsWellFoundedOn(R, Nat)
    BY NatLessThanWellFounded
  <1>2. \A x, y \in Nat : x < y => <<x, y>> \in R
    BY DEF OpToRel
  <1> HIDE DEF R
  <1>3. PICK x \in T : \A y \in T : <<y, x>> \notin R
    BY <1>1, WFMin
  <1>4. \A y \in T : x <= y
    <2> TAKE y \in T
    <2>1. x \in Nat /\ y \in Nat /\ ~(y < x)
      BY <1>2, <1>3
    <2> QED BY <2>1
  <1> QED BY <1>4

\* Sets of mails are finite, and have no more members than there are mails.
LEMMA MailSets ==
    ASSUME NEW S \in SUBSET Mails
    PROVE  IsFiniteSet(S) /\ Cardinality(S) \in 0..Cardinality(Mails)
  <1>1. IsFiniteSet(Mails)
    BY MailAssumption
  <1>2. IsFiniteSet(S) /\ Cardinality(S) <= Cardinality(Mails)
    BY <1>1, FS_Subset
  <1> QED BY <1>1, <1>2, FS_CardinalityType

\* Mails of different threads are as many as their threads.
LEMMA ApartCounts ==
    ASSUME NEW S \in SUBSET Mails, Apart(S)
    PROVE  Cardinality({ThreadOf[m] : m \in S}) = Cardinality(S)
  <1> DEFINE T == {ThreadOf[m] : m \in S}
             f == [m \in S |-> ThreadOf[m]]
  <1>1. f \in Injection(S, T)
    BY Fun_IsInj DEF Apart
  <1>2. f \in Surjection(S, T)
    BY Fun_IsSurj
  <1>3. IsFiniteSet(S)
    BY MailSets
  <1> QED BY <1>1, <1>2, <1>3, FS_Surjection

\* Email/query names mails that have arrived, of different threads, and no more than Limit.
LEMMA TopIsNamed ==
    ASSUME Types, Received
    PROVE  /\ Top \subseteq Arrived /\ Apart(Top) /\ Cardinality(Top) <= Limit
           /\ \A m \in Top : place[m] = "inbox"
           /\ \A m \in Top, n \in Mails :
                 ThreadOf[n] = ThreadOf[m] /\ place[n] = "inbox" => at[n] <= at[m]
  <1> DEFINE Newest == NewestOf(Inbox)
  <1>1. /\ Top \subseteq Newest /\ Newest \subseteq Arrived /\ \A m \in Newest : place[m] = "inbox"
        /\ \A m \in Newest, n \in Mails :
              ThreadOf[n] = ThreadOf[m] /\ place[n] = "inbox" => at[n] <= at[m]
    BY DEF Top, NewestOf, Inbox, Arrived
  <1>2. \A m \in Mails : at[m] \in Nat
    BY DEF Types
  <1>3. Apart(Top)
    <2> SUFFICES ASSUME NEW m \in Top, NEW n \in Top, ThreadOf[m] = ThreadOf[n] PROVE m = n
      BY DEF Apart
    <2>1. at[m] <= at[n] /\ at[n] <= at[m] /\ m \in Arrived /\ n \in Arrived
      BY <1>1 DEF Arrived
    <2> QED BY <1>2, <2>1 DEF Received, Arrived
  <1>4. Cardinality(Top) <= Limit
    <2>1. Limit \in Nat \ {0}
      BY MailAssumption
    <2>2. IsFiniteSet(Top) /\ Cardinality(Top) \in Nat
      <3>1. Top \in SUBSET Mails
        BY DEF Top, NewestOf, Inbox
      <3> QED BY <3>1, MailSets
    <2>3. CASE Top = {}
      BY <2>1, <2>3, FS_EmptySet
    <2>4. CASE Top # {}
      <3> DEFINE dates == {at[m] : m \in Top}
      <3>1. dates \subseteq Nat /\ dates # {}
        BY <1>2, <2>4 DEF Top, NewestOf, Inbox
      <3>2. PICK d \in dates : \A e \in dates : d <= e
        <4> HIDE DEF dates
        <4> QED BY <3>1, LeastNatural
      <3>3. PICK m \in Top : at[m] = d
        BY <3>2
      <3> DEFINE later == {n \in Newest : at[n] > at[m]}
      <3>4. Top \ {m} \subseteq later
        <4> SUFFICES ASSUME NEW n \in Top, n # m PROVE n \in Newest /\ at[n] > at[m]
          OBVIOUS
        <4>1. at[m] <= at[n] /\ at[m] # at[n] /\ n \in Newest
          BY <1>1, <3>2, <3>3 DEF Received
        <4> QED BY <1>1, <1>2, <4>1 DEF Arrived
      <3>5. Cardinality(later) < Limit
        BY DEF Top
      <3>6. IsFiniteSet(later) /\ Cardinality(later) \in Nat
        BY MailSets DEF NewestOf, Inbox
      <3> HIDE DEF later
      <3>7. Cardinality(Top \ {m}) <= Cardinality(later)
        BY <3>4, <3>6, FS_Subset
      <3>8. Cardinality(Top \ {m}) = Cardinality(Top) - 1
        BY <2>2, FS_RemoveElement
      <3> QED BY <2>1, <2>2, <3>5, <3>6, <3>7, <3>8
    <2> QED BY <2>3, <2>4
  <1> QED BY <1>1, <1>3, <1>4

\* Thread/get counts a mail that has arrived and is not destroyed.
LEMMA RowsAreCounted ==
    ASSUME Types, NEW m \in Mails
    PROVE  /\ RowOf(m) \in Row /\ RowOf(m).mail = m /\ RowOf(m).thread = ThreadOf[m]
           /\ m \in Arrived /\ RowOf(m).count = 0 => place[m] = "gone"
  <1> DEFINE K == Kept(ThreadOf[m])
  <1>1. K \in SUBSET Mails
    BY DEF Kept, InThread
  <1>2. IsFiniteSet(K) /\ Cardinality(K) \in 0..Cardinality(Mails)
    BY <1>1, MailSets
  <1>3. ThreadOf[m] \in Threads
    BY DEF Threads
  <1>4. RowOf(m) = [thread |-> ThreadOf[m], mail |-> m, count |-> Cardinality(K)]
    BY DEF RowOf
  <1>5. ASSUME m \in Arrived, Cardinality(K) = 0 PROVE place[m] = "gone"
    <2>1. K = {}
      BY <1>2, <1>5, FS_EmptySet
    <2> HIDE DEF K
    <2>2. m \notin Kept(ThreadOf[m])
      BY <2>1 DEF K
    <2> QED BY <1>5, <2>2 DEF Kept, InThread, Arrived, Types
  <1> HIDE DEF K
  <1> QED BY <1>2, <1>3, <1>4, <1>5 DEF Row

\* The invariant gives what the run checks.
LEMMA InvSafe == MailInv => Safety
  <1> SUFFICES ASSUME MailInv PROVE Safety
    OBVIOUS
  <1>1. TypeOK
    <2>1. requests \in 0..MaxRequests
      BY MailAssumption DEF MailInv, Counters
    <2>2. ASSUME NEW r \in Runs
          PROVE  /\ {row.mail : row \in rows[r]} \subseteq ids[r]
                 /\ Cardinality({ThreadOf[m] : m \in ids[r]}) = Cardinality(ids[r])
                 /\ Cardinality(ids[r]) <= Limit
      BY ApartCounts DEF MailInv, Types, Joined, Named
    <2>3. ASSUME NEW t \in Threads
          PROVE  Cardinality(sink[t]) <= 1 /\ \A row \in sink[t] : row.thread = t
      <3>1. sink[t] = {} \/ \E row : sink[t] = {row}
        BY DEF MailInv, Shown
      <3>2. Cardinality(sink[t]) = 0 \/ Cardinality(sink[t]) = 1
        BY <3>1, FS_EmptySet, FS_Singleton
      <3> QED BY <3>2 DEF MailInv, Shown
    <2> QED BY <2>1, <2>2, <2>3 DEF TypeOK, MailInv, Types, Counters
  <1>2. CountExplained
    BY DEF MailInv, Shown, CountExplained
  <1>3. ReportedIsCurrent
    BY DEF MailInv, Joined, Reported, ReportedIsCurrent
  <1> QED BY <1>1, <1>2, <1>3 DEF Safety

-----------------------------------------------------------------------------
(***************************************************************************)
(* The mailbox changes, and every run's view of it is touched.             *)
(***************************************************************************)

LEMMA MailboxStep ==
    ASSUME MailInv, \/ \E m \in Mails : Arrive(m)
                    \/ \E m \in Mails, p \in {"inbox", "archive", "gone"} : Move(m, p)
    PROVE  MailInv'
  <1>0. Types /\ Counters /\ Received /\ Shown /\ \A r \in Runs : Joined(r)
    BY DEF MailInv
  <1>1. UNCHANGED <<step, ids, rows, requests, sink, overtaken, seen, asked>> /\ touched' = [r \in Runs |-> TRUE]
    BY DEF Arrive, Move, Change, run, bounds, Touch
  <1>2. /\ place' \in [Mails -> {"none", "inbox", "archive", "gone"}]
        /\ at' \in [Mails -> 0..Cardinality(Mails)]
        /\ Received'
        /\ \A m \in Arrived : /\ m \in Arrived' /\ at'[m] = at[m]
                              /\ place[m] = "gone" => place'[m] = "gone"
    <2>1. ASSUME NEW m \in Mails, Arrive(m)
          PROVE  /\ place' \in [Mails -> {"none", "inbox", "archive", "gone"}]
                 /\ at' \in [Mails -> 0..Cardinality(Mails)]
                 /\ Received'
                 /\ \A n \in Arrived : n \in Arrived' /\ at'[n] = at[n] /\ place'[n] = place[n]
      <3> DEFINE c == Cardinality(Arrived)
      <3>1. /\ place' = [place EXCEPT ![m] = "inbox"] /\ at' = [at EXCEPT ![m] = c + 1]
            /\ m \notin Arrived
        BY <2>1 DEF Arrive, Arrived
      <3>2. Arrived' = Arrived \cup {m}
        BY <1>0, <3>1 DEF Arrived, Types
      <3>3. Arrived \in SUBSET Mails
        BY DEF Arrived
      <3>4. /\ IsFiniteSet(Arrived) /\ c \in Nat
            /\ Cardinality(Arrived \cup {m}) \in 0..Cardinality(Mails)
        BY <3>3, MailSets
      <3>5. Cardinality(Arrived \cup {m}) = c + 1
        BY <3>1, <3>4, FS_AddElement
      <3>6. c + 1 \in 0..Cardinality(Mails) /\ Cardinality(Arrived') = c + 1
        BY <3>2, <3>4, <3>5
      <3>7. /\ place' \in [Mails -> {"none", "inbox", "archive", "gone"}]
            /\ at' \in [Mails -> 0..Cardinality(Mails)] /\ at'[m] = c + 1
            /\ \A n \in Arrived : n # m /\ at'[n] = at[n] /\ place'[n] = place[n]
        BY <1>0, <3>1, <3>3, <3>6 DEF Types
      <3>8. \A n \in Arrived : at[n] \in 1..c
        BY <1>0 DEF Received
      <3> HIDE DEF c
      <3>9. \A n \in Arrived' : at'[n] \in 1..(c + 1)
        BY <3>2, <3>4, <3>7, <3>8
      <3>10. \A n, k \in Arrived' : at'[n] = at'[k] => n = k
        <4>1. \A n \in Arrived : at'[n] # c + 1
          BY <3>4, <3>7, <3>8
        <4>2. \A n, k \in Arrived : at'[n] = at'[k] => n = k
          BY <1>0, <3>7 DEF Received
        <4> QED BY <3>2, <3>7, <4>1, <4>2
      <3> QED BY <3>2, <3>6, <3>7, <3>9, <3>10 DEF Received
    <2>2. ASSUME NEW m \in Mails, NEW p \in {"inbox", "archive", "gone"}, Move(m, p)
          PROVE  /\ place' \in [Mails -> {"none", "inbox", "archive", "gone"}]
                 /\ at' = at /\ Arrived' = Arrived
                 /\ \A n \in Mails : place[n] = "gone" => place'[n] = "gone"
      <3>1. place' = [place EXCEPT ![m] = p] /\ place[m] \notin {"none", "gone"} /\ at' = at
        BY <2>2 DEF Move
      <3>2. \A n \in Mails : place'[n] = IF n = m THEN p ELSE place[n]
        BY <1>0, <3>1 DEF Types
      <3> QED BY <1>0, <3>1, <3>2 DEF Arrived, Types
    <2>3. CASE \E m \in Mails : Arrive(m)
      BY <2>1, <2>3 DEF Arrived
    <2>4. CASE \E m \in Mails, p \in {"inbox", "archive", "gone"} : Move(m, p)
      <3>1. PICK m \in Mails, p \in {"inbox", "archive", "gone"} : Move(m, p)
        BY <2>4
      <3>2. at' = at /\ Arrived' = Arrived
        BY <2>2, <3>1
      <3>3. Received'
        BY <1>0, <3>2 DEF Received
      <3>4. \A n \in Arrived : n \in Mails
        BY DEF Arrived
      <3> QED BY <1>0, <2>2, <3>1, <3>2, <3>3, <3>4 DEF Types
    <2> QED BY <2>3, <2>4
  <1>3. Types'
    BY <1>0, <1>1, <1>2 DEF Types
  <1>4. Counters'
    <2>1. changes' \in 0..MaxChanges
      BY <1>0, MailAssumption DEF Counters, Arrive, Move, Change, bounds
    <2> QED BY <1>0, <1>1, <2>1 DEF Counters
  <1>5. Shown'
    BY <1>0, <1>1, <1>2 DEF Shown
  <1>6. ASSUME NEW r \in Runs PROVE Joined(r)'
    <2>1. Named(r) /\ (~overtaken[r] => Newer(r)) /\ touched'[r] = TRUE
      BY <1>0, <1>1 DEF Joined
    <2>2. Named(r)'
      BY <1>1, <1>2, <2>1 DEF Named, Apart
    <2>3. ~overtaken[r] => Newer(r)'
      <3> SUFFICES ASSUME Newer(r), step[r] \in Joining, NEW m \in ids[r], NEW old \in sink[ThreadOf[m]],
                          old.mail \in seen[r]
                   PROVE  at'[old.mail] <= at'[m]
        BY <1>1, <2>1 DEF Newer
      <3>1. m \in Arrived /\ old.mail \in Arrived
        <4>1. ThreadOf[m] \in Threads /\ m \in Arrived
          BY <2>1 DEF Named, Arrived, Threads
        <4> QED BY <1>0, <4>1 DEF Shown
      <3> QED BY <1>2, <3>1 DEF Newer
    <2> QED BY <1>1, <2>1, <2>2, <2>3 DEF Joined
  <1> QED BY <1>3, <1>2, <1>4, <1>5, <1>6 DEF MailInv

-----------------------------------------------------------------------------
(***************************************************************************)
(* The runs.                                                               *)
(***************************************************************************)

\* What a run looks at in a mailbox that does not change.
LEMMA SameMailbox ==
    ASSUME UNCHANGED mailbox
    PROVE  /\ place' = place /\ at' = at /\ Arrived' = Arrived /\ Top' = Top /\ Inbox' = Inbox
           /\ \A m : RowOf(m)' = RowOf(m)
  BY DEF mailbox, Arrived, Inbox, Top, NewestOf, InThread, RowOf, Kept

\* A run that does nothing while another publishes, or nobody does.
LEMMA OtherRun ==
    ASSUME NEW q \in Runs, Joined(q), UNCHANGED mailbox,
           UNCHANGED <<step[q], ids[q], rows[q], touched[q], seen[q]>>,
           overtaken'[q] \/ UNCHANGED <<overtaken[q], sink>>
    PROVE  Joined(q)'
  <1>1. Named(q)'
    BY SameMailbox DEF Joined, Named, Apart
  <1>2. ~touched[q] => Untouched(q)'
    BY SameMailbox DEF Joined, Untouched
  <1>3. ASSUME UNCHANGED <<overtaken[q], sink>>
        PROVE  (~touched[q] /\ ~overtaken[q] => Reported(q)') /\ (~overtaken[q] => Newer(q)')
    BY <1>3, SameMailbox DEF Joined, Reported, Newer
  <1> QED BY <1>1, <1>2, <1>3 DEF Joined

\* A run that starts or is over has nothing to publish.
LEMMA EmptyRun ==
    ASSUME NEW r \in Runs, Joined(r), UNCHANGED mailbox,
           step'[r] \in {"idle", "hung", "query"}, rows'[r] = {}, ids'[r] \in {{}, ids[r]}
    PROVE  Joined(r)'
  <1>1. Named(r)'
    <2>1. Limit \in Nat /\ Cardinality({}) = 0
      BY MailAssumption, FS_EmptySet
    <2>2. CASE ids'[r] = {}
      BY <2>1, <2>2 DEF Named, Apart
    <2>3. CASE ids'[r] = ids[r]
      BY <2>3, SameMailbox DEF Joined, Named, Apart
    <2> QED BY <2>2, <2>3
  <1> QED BY <1>1 DEF Joined, Untouched, Reported, Newer, Joining

\* Beginning a run, and its end; a request leaves the queue with its run.
LEMMA EmptySteps ==
    ASSUME MailInv, \/ Poll \/ Request \/ TakeRequest \/ Crash
                    \/ \E r \in Runs : Report(r) \/ RunFails(r) \/ Hang(r)
    PROVE  MailInv'
  <1>0. Types /\ Counters /\ Received /\ Shown /\ \A r \in Runs : Joined(r)
    BY DEF MailInv
  <1>1. UNCHANGED <<mailbox, sink>>
    BY DEF Poll, Request, TakeRequest, Crash, Connect, Report, RunFails, Hang
  <1>2. ASSUME NEW r \in Runs, NEW s \in {"idle", "hung"}, Leave(r, s)
        PROVE  Types' /\ step' = [step EXCEPT ![r] = s] /\ \A q \in Runs : Joined(q)'
    <2>0. /\ step' = [step EXCEPT ![r] = s]
          /\ ids' = [ids EXCEPT ![r] = {}] /\ rows' = [rows EXCEPT ![r] = {}] /\ seen' = [seen EXCEPT ![r] = {}]
          /\ touched' = [touched EXCEPT ![r] = TRUE] /\ overtaken' = [overtaken EXCEPT ![r] = TRUE]
      BY <1>2 DEF Leave, Goto
    <2>1. Types'
      BY <1>0, <1>1, <2>0 DEF Types, mailbox
    <2>2. /\ step'[r] = s /\ rows'[r] = {} /\ ids'[r] = {}
          /\ \A q \in Runs : q # r =>
                UNCHANGED <<step[q], ids[q], rows[q], touched[q], seen[q], overtaken[q], sink>>
      BY <1>0, <1>1, <2>0 DEF Types
    <2>3. Joined(r)'
      BY <1>0, <1>1, <2>2, EmptyRun
    <2>4. ASSUME NEW q \in Runs, q # r PROVE Joined(q)'
      BY <1>0, <1>1, <2>2, <2>4, OtherRun
    <2> QED BY <2>0, <2>1, <2>3, <2>4
  <1>3. Received' /\ Shown'
    BY <1>0, <1>1, SameMailbox DEF Received, Shown
  <1>4. Counters' /\ Types' /\ \A q \in Runs : Joined(q)'
    <2>0. "poll" \in Runs /\ "request" \in Runs
      BY DEF Runs
    <2>1. ASSUME NEW r \in Runs, Connect(r), r = "request" => requests > 0
          PROVE  Counters' /\ Types' /\ \A q \in Runs : Joined(q)'
      <3>1. /\ step' = [step EXCEPT ![r] = "query"] /\ UNCHANGED <<ids, rows, history>>
            /\ rows[r] = {} /\ UNCHANGED <<requests, asked, changes>>
        BY <1>0, <2>1 DEF Connect, Goto, bounds, Joined, Named
      <3>2. Counters'
        BY <1>0, <2>0, <2>1, <3>1 DEF Counters, Types
      <3>3. Types'
        BY <1>0, <1>1, <3>1 DEF Types, mailbox, history
      <3>4. /\ step'[r] = "query" /\ rows'[r] = {} /\ ids'[r] = ids[r]
            /\ \A q \in Runs : q # r =>
                  UNCHANGED <<step[q], ids[q], rows[q], touched[q], seen[q], overtaken[q], sink>>
        BY <1>0, <1>1, <3>1 DEF Types, history
      <3>5. Joined(r)'
        BY <1>0, <1>1, <3>4, EmptyRun
      <3>6. ASSUME NEW q \in Runs, q # r PROVE Joined(q)'
        BY <1>0, <1>1, <3>4, <3>6, OtherRun
      <3> QED BY <3>2, <3>3, <3>5, <3>6
    <2>2. CASE Request
      <3>1. UNCHANGED <<step, ids, rows, touched, seen, overtaken>>
        BY <2>2 DEF Request, run, history
      <3>2. Types' /\ \A q \in Runs : Joined(q)'
        BY <1>0, <1>1, <3>1, OtherRun DEF Types, mailbox
      <3>3. Counters'
        BY <1>0, <2>2, <3>1, MailAssumption DEF Request, Counters
      <3> QED BY <3>2, <3>3
    <2>3. CASE Poll \/ TakeRequest
      BY <2>0, <2>1, <2>3 DEF Poll, TakeRequest
    <2>4. CASE Crash
      <3>1. /\ step' = [r \in Runs |-> "idle"] /\ ids' = [r \in Runs |-> {}] /\ rows' = [r \in Runs |-> {}]
            /\ seen' = [r \in Runs |-> {}]
            /\ touched' = [r \in Runs |-> TRUE] /\ overtaken' = [r \in Runs |-> TRUE]
            /\ UNCHANGED <<requests, asked>> /\ changes' \in 0..MaxChanges
        BY <1>0, <2>4, MailAssumption DEF Crash, Change, Counters, bounds
      <3>2. Counters'
        BY <1>0, <2>0, <3>1 DEF Counters
      <3>3. Types'
        BY <1>0, <1>1, <3>1 DEF Types, mailbox
      <3>4. \A q \in Runs : Joined(q)'
        BY <1>0, <1>1, <3>1, EmptyRun
      <3> QED BY <3>2, <3>3, <3>4
    <2>5. ASSUME NEW r \in Runs, Report(r) \/ RunFails(r)
          PROVE  Counters' /\ Types' /\ \A q \in Runs : Joined(q)'
      <3>1. EndRun(r) /\ step[r] # "idle"
        BY <2>5 DEF Report, RunFails
      <3>2. Types' /\ step' = [step EXCEPT ![r] = "idle"] /\ \A q \in Runs : Joined(q)'
        BY <1>2, <3>1 DEF EndRun
      <3>3. Counters'
        <4>1. UNCHANGED asked /\ changes' \in 0..MaxChanges
          BY <1>0, <2>5, MailAssumption DEF Report, RunFails, Change, bounds, Counters
        <4>2. CASE r = "request"
          <5>1. requests' = requests - 1 /\ requests > 0 /\ step'["request"] = "idle"
            BY <1>0, <2>0, <3>1, <3>2, <4>2 DEF EndRun, Counters, Types
          <5> QED BY <1>0, <4>1, <5>1, MailAssumption DEF Counters
        <4>3. CASE r # "request"
          <5>1. requests' = requests /\ step'["request"] = step["request"]
            BY <1>0, <2>0, <3>1, <3>2, <4>3 DEF EndRun, Types
          <5> QED BY <1>0, <4>1, <5>1 DEF Counters
        <4> QED BY <4>2, <4>3
      <3> QED BY <3>2, <3>3
    <2>6. ASSUME NEW r \in Runs, Hang(r) PROVE Counters' /\ Types' /\ \A q \in Runs : Joined(q)'
      <3>1. Types' /\ step' = [step EXCEPT ![r] = "hung"] /\ \A q \in Runs : Joined(q)'
        BY <1>2, <2>6 DEF Hang
      <3>2. /\ UNCHANGED <<requests, asked>> /\ changes' \in 0..MaxChanges /\ step[r] # "idle"
        BY <1>0, <2>6, MailAssumption DEF Hang, Change, Counters
      <3>3. Counters'
        BY <1>0, <2>0, <3>1, <3>2 DEF Counters, Types
      <3> QED BY <3>1, <3>3
    <2> QED BY <2>2, <2>3, <2>4, <2>5, <2>6
  <1> QED BY <1>3, <1>4 DEF MailInv

\* The calls and publishes of a run leave the counters alone, and the other run.
LEMMA RunFrame ==
    ASSUME MailInv, NEW r \in Runs, NEW s \in {"get", "threads", "publish", "report"},
           UNCHANGED <<mailbox, requests, bounds>>, Goto(r, s), step[r] # "idle",
           \A q \in Runs : q # r =>
              /\ UNCHANGED <<ids[q], rows[q], touched[q], seen[q]>>
              /\ overtaken'[q] \/ UNCHANGED <<overtaken[q], sink>>
    PROVE  /\ Counters' /\ Received' /\ step'[r] = s
           /\ step' \in [Runs -> {"idle", "hung", "query", "get", "threads", "publish", "report"}]
           /\ \A q \in Runs : q # r => Joined(q)'
  <1>0. Types /\ Counters /\ Received /\ \A q \in Runs : Joined(q)
    BY DEF MailInv
  <1>1. /\ step'[r] = s /\ \A q \in Runs : q # r => step'[q] = step[q]
        /\ step' \in [Runs -> {"idle", "hung", "query", "get", "threads", "publish", "report"}]
    BY <1>0 DEF Goto, Types
  <1>2. Counters'
    <2>1. "request" \in Runs /\ (step'["request"] # "idle" => step["request"] # "idle")
      BY <1>1 DEF Runs
    <2> QED BY <1>0, <2>1 DEF Counters, bounds
  <1>3. Received'
    BY <1>0, SameMailbox DEF Received
  <1>4. ASSUME NEW q \in Runs, q # r PROVE Joined(q)'
    BY <1>0, <1>1, <1>4, OtherRun
  <1> QED BY <1>1, <1>2, <1>3, <1>4

\* Email/query: from here on the mailbox is untouched, and the run not overtaken.
LEMMA QueryStep ==
    ASSUME MailInv, NEW r \in Runs, Query(r) PROVE MailInv'
  <1>0. Types /\ Received /\ Shown /\ Joined(r)
    BY DEF MailInv
  <1>1. /\ UNCHANGED <<mailbox, requests, bounds, rows, sink>> /\ step[r] = "query"
        /\ ids' = [ids EXCEPT ![r] = Top] /\ seen' = [seen EXCEPT ![r] = Inbox]
        /\ touched' = [touched EXCEPT ![r] = FALSE] /\ overtaken' = [overtaken EXCEPT ![r] = FALSE]
        /\ Goto(r, IF ids'[r] = {} THEN "report" ELSE "get")
    BY DEF Query
  <1> DEFINE s == IF ids'[r] = {} THEN "report" ELSE "get"
  <1>2. Top \in SUBSET Mails /\ Inbox \in SUBSET Mails
    BY DEF Top, NewestOf, Inbox
  <1>3. /\ ids'[r] = Top /\ ids' \in [Runs -> SUBSET Mails]
        /\ seen'[r] = Inbox /\ seen' \in [Runs -> SUBSET Mails]
        /\ touched' \in [Runs -> BOOLEAN] /\ overtaken' \in [Runs -> BOOLEAN]
        /\ \A q \in Runs : q # r => UNCHANGED <<ids[q], rows[q], touched[q], seen[q], overtaken[q], sink>>
    BY <1>0, <1>1, <1>2 DEF Types
  <1>4. s \in {"get", "report"} /\ (s = "report" => Top = {})
    BY <1>3
  <1> HIDE DEF s
  <1>5. /\ Counters' /\ Received' /\ step'[r] = s
        /\ step' \in [Runs -> {"idle", "hung", "query", "get", "threads", "publish", "report"}]
        /\ \A q \in Runs : q # r => Joined(q)'
    <2>1. Goto(r, s)
      BY <1>1 DEF s
    <2>2. \A q \in Runs : q # r =>
             /\ UNCHANGED <<ids[q], rows[q], touched[q], seen[q]>>
             /\ overtaken'[q] \/ UNCHANGED <<overtaken[q], sink>>
      BY <1>3
    <2>3. step[r] # "idle" /\ UNCHANGED <<mailbox, requests, bounds>>
      BY <1>1
    <2> QED BY <1>4, <2>1, <2>2, <2>3, RunFrame
  <1>6. Types'
    BY <1>0, <1>1, <1>3, <1>5 DEF Types, mailbox
  <1>7. Shown'
    BY <1>0, <1>1, SameMailbox DEF Shown
  <1>8. Joined(r)'
    <2>1. Named(r)'
      <3>1. rows'[r] = {}
        BY <1>0, <1>1 DEF Joined, Named
      <3>2. Top \subseteq Arrived /\ Apart(Top) /\ Cardinality(Top) <= Limit
        BY <1>0, TopIsNamed
      <3> QED BY <1>1, <1>3, <3>1, <3>2, SameMailbox DEF Named, Apart
    <2>2. Untouched(r)' /\ Reported(r)'
      BY <1>1, <1>3, <1>4, <1>5, SameMailbox DEF Untouched, Reported
    <2>3. Newer(r)'
      <3> SUFFICES ASSUME NEW m \in Top, NEW old \in sink[ThreadOf[m]], old.mail \in Inbox
                   PROVE  at[old.mail] <= at[m]
        BY <1>1, <1>3, SameMailbox DEF Newer
      <3>1. ThreadOf[m] \in Threads
        BY <1>2 DEF Threads
      <3>2. ThreadOf[old.mail] = ThreadOf[m] /\ old.mail \in Mails
        BY <1>0, <3>1 DEF Shown, Arrived
      <3> QED BY <1>0, <3>2, TopIsNamed DEF Inbox
    <2> QED BY <2>1, <2>2, <2>3 DEF Joined
  <1> QED BY <1>5, <1>6, <1>7, <1>8 DEF MailInv

\* Email/get and Thread/get: no more than the rows of the run.
LEMMA ReadFrame ==
    ASSUME MailInv, NEW r \in Runs, NEW s \in {"threads", "publish", "report"}, NEW new,
           UNCHANGED <<mailbox, ids, requests, sink, history, bounds>>, Goto(r, s), step[r] \in Joining,
           rows' = [rows EXCEPT ![r] = new],
           \A row \in new : /\ row \in Row /\ row.mail \in ids[r] /\ row.thread = ThreadOf[row.mail]
                            /\ s = "publish" /\ row.count = 0 => place[row.mail] = "gone",
           s = "report" => new = {},
           ~touched[r] => Untouched(r)',
           ~touched[r] /\ ~overtaken[r] => Reported(r)'
    PROVE  MailInv'
  <1>0. Types /\ Received /\ Shown /\ Joined(r) /\ Named(r)
    BY DEF MailInv, Joined
  <1>1. UNCHANGED <<touched, overtaken, seen>> /\ step[r] # "idle"
    BY DEF history, Joining
  <1>2. /\ rows'[r] = new /\ rows' \in [Runs -> SUBSET Row]
        /\ \A q \in Runs : q # r => rows'[q] = rows[q]
    BY <1>0 DEF Types
  <1>3. /\ Counters' /\ Received' /\ step'[r] = s
        /\ step' \in [Runs -> {"idle", "hung", "query", "get", "threads", "publish", "report"}]
        /\ \A q \in Runs : q # r => Joined(q)'
    BY <1>1, <1>2, RunFrame
  <1>4. Types'
    BY <1>0, <1>1, <1>2, <1>3 DEF Types, mailbox
  <1>5. Shown'
    BY <1>0, SameMailbox DEF Shown
  <1>6. Named(r)'
    BY <1>0, <1>2, <1>3, SameMailbox DEF Named, Apart
  <1>7. ~overtaken[r] => Newer(r)'
    BY <1>0, <1>1, SameMailbox DEF Joined, Newer
  <1>8. Joined(r)'
    BY <1>1, <1>6, <1>7 DEF Joined
  <1> QED BY <1>3, <1>4, <1>5, <1>8 DEF MailInv

LEMMA GetStep ==
    ASSUME MailInv, NEW r \in Runs, Get(r) PROVE MailInv'
  <1>0. Types /\ Received /\ Shown /\ Joined(r) /\ Named(r)
    BY DEF MailInv, Joined
  <1> DEFINE bare(m) == [thread |-> ThreadOf[m], mail |-> m, count |-> 0]
             answered == {n \in ids[r] : place[n] # "gone"}
             new == {bare(m) : m \in NewestOf(answered)}
             s == IF new = {} THEN "report" ELSE "threads"
  <1>1. /\ UNCHANGED <<mailbox, ids, requests, sink, history, bounds>> /\ step[r] = "get"
        /\ rows' = [rows EXCEPT ![r] = new]
    BY DEF Get
  <1>2. rows'[r] = new /\ Goto(r, s)
    <2>1. rows'[r] = new
      BY <1>0, <1>1 DEF Types
    <2> QED BY <2>1 DEF Get
  <1>a. NewestOf(answered) = answered
    <2>1. \A m \in ids[r] : at[m] \in Nat /\ at[m] <= at[m]
      BY <1>0 DEF Types
    <2> QED BY <1>0, <2>1 DEF NewestOf, Named, Apart
  <1>3. \A m \in ids[r] : m \in Mails /\ ThreadOf[m] \in Threads
    BY <1>0 DEF Types, Threads
  <1>4. \A row \in new : row \in Row /\ row.mail \in ids[r] /\ row.thread = ThreadOf[row.mail]
    <2>1. 0 \in 0..Cardinality(Mails)
      BY MailAssumption, FS_CardinalityType
    <2>2. \A m \in ids[r] : bare(m) \in Row /\ bare(m).mail = m /\ bare(m).thread = ThreadOf[m]
      BY <1>3, <2>1 DEF Row
    <2>3. \A row \in new : \E m \in ids[r] : row = bare(m)
      BY <1>a
    <2> HIDE DEF new, bare
    <2> QED BY <2>2, <2>3
  <1>5. \A m \in ids[r] : place[m] # "gone" => \E row \in new : row.mail = m
    <2> SUFFICES ASSUME NEW m \in ids[r], place[m] # "gone" PROVE \E row \in new : row.mail = m
      OBVIOUS
    <2>1. bare(m) \in new /\ bare(m).mail = m
      BY <1>a
    <2> QED BY <2>1
  <1>6. s \in {"threads", "report"} /\ (s = "report" => new = {})
    OBVIOUS
  <1> HIDE DEF new, s
  <1>7. ASSUME ~touched[r] PROVE ids[r] = Top /\ \A m \in Top : \E row \in new : row.mail = m
    <2>1. ids[r] = Top
      BY <1>0, <1>1, <1>7 DEF Joined, Untouched, Joining
    <2>2. \A m \in Top : place[m] = "inbox"
      BY <1>0, TopIsNamed
    <2> QED BY <1>5, <2>1, <2>2
  <1>8. step'[r] = s
    BY <1>0, <1>2 DEF Goto, Types
  <1>9. ~touched[r] => Untouched(r)' /\ Reported(r)'
    BY <1>1, <1>2, <1>6, <1>7, <1>8, SameMailbox DEF Untouched, Reported
  <1> QED BY <1>1, <1>2, <1>4, <1>6, <1>9, ReadFrame DEF Joining

LEMMA GetThreadsStep ==
    ASSUME MailInv, NEW r \in Runs, GetThreads(r) PROVE MailInv'
  <1>0. Types /\ Received /\ Shown /\ Joined(r) /\ Named(r)
    BY DEF MailInv, Joined
  <1> DEFINE new == {RowOf(row.mail) : row \in rows[r]}
  <1>1. /\ UNCHANGED <<mailbox, ids, requests, sink, history, bounds>> /\ step[r] = "threads"
        /\ rows' = [rows EXCEPT ![r] = new] /\ Goto(r, "publish")
    BY DEF GetThreads
  <1>2. rows'[r] = new /\ step'[r] = "publish"
    BY <1>0, <1>1 DEF Goto, Types
  <1>3. \A row \in new : /\ row \in Row /\ row.mail \in ids[r] /\ row.thread = ThreadOf[row.mail]
                         /\ row.count = 0 => place[row.mail] = "gone"
                         /\ row = RowOf(row.mail)
    <2> SUFFICES ASSUME NEW old \in rows[r]
                 PROVE  LET row == RowOf(old.mail)
                        IN  /\ row \in Row /\ row.mail \in ids[r] /\ row.thread = ThreadOf[row.mail]
                            /\ row.count = 0 => place[row.mail] = "gone"
                            /\ row = RowOf(row.mail)
      OBVIOUS
    <2>1. old.mail \in ids[r] /\ old.mail \in Arrived /\ old.mail \in Mails
      BY <1>0 DEF Named, Arrived
    <2> QED BY <1>0, <2>1, RowsAreCounted
  <1>4. ASSUME NEW m, \E row \in rows[r] : row.mail = m PROVE RowOf(m) \in new
    BY <1>4
  <1> HIDE DEF new
  <1>5. ASSUME ~touched[r] PROVE ids[r] = Top /\ \A m \in Top : RowOf(m) \in new
    BY <1>0, <1>1, <1>4, <1>5 DEF Joined, Untouched, Joining
  <1>6. ~touched[r] => Untouched(r)' /\ Reported(r)'
    BY <1>1, <1>2, <1>3, <1>5, SameMailbox DEF Untouched, Reported
  <1> QED BY <1>1, <1>3, <1>6, ReadFrame DEF Joining

\* Publishing a row: the other run is overtaken by it.
LEMMA PublishStep ==
    ASSUME MailInv, NEW r \in Runs, NEW row \in rows[r], Publish(r, row) PROVE MailInv'
  <1>0. Types /\ Received /\ Shown /\ Joined(r) /\ Named(r)
    BY DEF MailInv, Joined
  <1> DEFINE left == rows[r] \ {row}
             s == IF left = {} THEN "report" ELSE "publish"
             t == row.thread
  <1>1. /\ UNCHANGED <<mailbox, ids, requests, touched, seen, bounds>> /\ step[r] = "publish"
        /\ rows' = [rows EXCEPT ![r] = left] /\ sink' = [sink EXCEPT ![t] = {row}]
        /\ overtaken' = [q \in Runs |-> overtaken[q] \/ q # r]
    BY DEF Publish
  <1>2. rows'[r] = left /\ Goto(r, s)
    <2>1. rows'[r] = left
      BY <1>0, <1>1 DEF Types
    <2> QED BY <2>1 DEF Publish
  <1>3. /\ row \in Row /\ row.mail \in ids[r] /\ t = ThreadOf[row.mail] /\ row.mail \in Arrived
        /\ t \in Threads /\ row.mail \in Mails /\ (row.count = 0 => place[row.mail] = "gone")
    BY <1>0, <1>1 DEF Types, Named, Threads, Arrived
  <1>4. /\ overtaken'[r] = overtaken[r] /\ overtaken' \in [Runs -> BOOLEAN]
        /\ rows' \in [Runs -> SUBSET Row] /\ sink' \in [Threads -> SUBSET Row] /\ sink'[t] = {row}
        /\ \A u \in Threads : u # t => sink'[u] = sink[u]
        /\ \A q \in Runs : q # r => rows'[q] = rows[q] /\ overtaken'[q]
    BY <1>0, <1>1, <1>3 DEF Types
  <1>5. s \in {"report", "publish"} /\ (s = "report" => left = {})
    OBVIOUS
  <1> HIDE DEF s, t, left
  <1>6. /\ Counters' /\ Received' /\ step'[r] = s
        /\ step' \in [Runs -> {"idle", "hung", "query", "get", "threads", "publish", "report"}]
        /\ \A q \in Runs : q # r => Joined(q)'
    BY <1>1, <1>2, <1>4, <1>5, RunFrame
  <1>7. Types'
    BY <1>0, <1>1, <1>4, <1>6 DEF Types, mailbox
  <1>8. Shown'
    <2> SUFFICES ASSUME NEW u \in Threads
                 PROVE  /\ sink'[u] = {} \/ \E x : sink'[u] = {x}
                        /\ \A x \in sink'[u] :
                              /\ x.thread = u /\ x.mail \in Arrived /\ ThreadOf[x.mail] = u
                              /\ x.count = 0 => place[x.mail] = "gone"
      BY <1>1, SameMailbox DEF Shown
    <2>1. CASE u = t
      <3>1. \A x \in sink'[u] : x = row
        BY <1>4, <2>1
      <3>2. row.thread = u /\ ThreadOf[row.mail] = u
        BY <1>3, <2>1 DEF t
      <3> QED BY <1>3, <1>4, <2>1, <3>1, <3>2
    <2>2. CASE u # t
      <3>1. /\ sink[u] = {} \/ \E x : sink[u] = {x}
            /\ \A x \in sink[u] :
                  /\ x.thread = u /\ x.mail \in Arrived /\ ThreadOf[x.mail] = u
                  /\ x.count = 0 => place[x.mail] = "gone"
        BY <1>0 DEF Shown
      <3>2. sink'[u] = sink[u]
        BY <1>4, <2>2
      <3> QED BY <3>1, <3>2
    <2> QED BY <2>1, <2>2
  <1>9. Joined(r)'
    <2>1. Named(r)'
      BY <1>0, <1>1, <1>2, <1>5, <1>6, SameMailbox DEF Named, Apart, left
    <2>2. ASSUME NEW m \in ids[r], ThreadOf[m] = t PROVE m = row.mail
      BY <1>0, <1>3, <2>2 DEF Named, Apart
    <2>3. ASSUME ~touched[r]
          PROVE  ids[r] = Top /\ \A x \in rows[r] : x = RowOf(x.mail)
      BY <1>0, <1>1, <2>3 DEF Joined, Untouched, Joining
    <2>4. ~touched[r] => Untouched(r)'
      BY <1>1, <1>2, <1>5, <1>6, <2>3, SameMailbox DEF Untouched, left
    <2>5. ASSUME ~touched[r], ~overtaken[r] PROVE Reported(r)'
      <3> SUFFICES ASSUME NEW m \in Top
                   PROVE  (s = "publish" /\ RowOf(m) \in left) \/ sink'[ThreadOf[m]] = {RowOf(m)}
        BY <1>1, <1>2, <1>6, SameMailbox DEF Reported
      <3>1. RowOf(m) \in rows[r] \/ sink[ThreadOf[m]] = {RowOf(m)}
        BY <1>0, <1>1, <2>5 DEF Joined, Reported
      <3>2. m \in ids[r] /\ row = RowOf(row.mail) /\ ThreadOf[m] \in Threads
        BY <2>3, <2>5 DEF Threads, Top, NewestOf, Inbox
      <3>3. CASE ThreadOf[m] = t
        BY <1>4, <2>2, <3>2, <3>3
      <3>4. CASE ThreadOf[m] # t
        <4>1. RowOf(m) # row
          BY <1>3, <3>4 DEF RowOf
        <4> QED BY <1>4, <1>5, <3>1, <3>2, <3>4, <4>1 DEF left
      <3> QED BY <3>3, <3>4
    <2>6. ASSUME ~overtaken[r] PROVE Newer(r)'
      <3> SUFFICES ASSUME NEW m \in ids[r], NEW old \in sink'[ThreadOf[m]], old.mail \in seen[r]
                   PROVE  at[old.mail] <= at[m]
        BY <1>1, SameMailbox DEF Newer
      <3>1. ThreadOf[m] \in Threads /\ at[m] \in Nat
        BY <1>0 DEF Types, Threads
      <3>2. CASE ThreadOf[m] = t
        BY <1>4, <2>2, <3>1, <3>2
      <3>3. CASE ThreadOf[m] # t
        BY <1>0, <1>1, <1>4, <2>6, <3>1, <3>3 DEF Joined, Newer, Joining
      <3> QED BY <3>2, <3>3
    <2> QED BY <1>1, <1>4, <2>1, <2>4, <2>5, <2>6 DEF Joined
  <1> QED BY <1>6, <1>7, <1>8, <1>9 DEF MailInv

-----------------------------------------------------------------------------
(***************************************************************************)
(* What the sink shows.                                                    *)
(***************************************************************************)

LEMMA InitMail == Init => MailInv
  <1> SUFFICES ASSUME Init PROVE MailInv
    OBVIOUS
  <1>1. Cardinality({}) = 0 /\ Limit \in Nat /\ 0 \in 0..Cardinality(Mails)
    BY MailAssumption, FS_EmptySet, FS_CardinalityType
  <1>2. Types
    BY <1>1 DEF Init, Types
  <1>3. Counters
    BY MailAssumption DEF Init, Counters, Runs
  <1>4. Arrived = {}
    BY DEF Init, Arrived
  <1>5. Received /\ Shown
    BY <1>4 DEF Init, Received, Shown
  <1>6. ASSUME NEW r \in Runs PROVE Joined(r)
    BY <1>1 DEF Init, Joined, Named, Apart, Untouched, Reported, Newer, Joining
  <1> QED BY <1>2, <1>3, <1>5, <1>6 DEF MailInv

LEMMA NextMail == MailInv /\ [Next]_vars => MailInv'
  <1> SUFFICES ASSUME MailInv, [Next]_vars PROVE MailInv'
    OBVIOUS
  <1>1. CASE UNCHANGED vars
    <2>1. /\ UNCHANGED <<mailbox, place, at, step, ids, rows, requests, sink, touched, overtaken, seen>>
          /\ UNCHANGED <<asked, changes>>
      BY <1>1 DEF vars, mailbox, run, history, bounds
    <2>2. \A r \in Runs : Joined(r)'
      BY <2>1, OtherRun DEF MailInv
    <2>3. Types' /\ Counters' /\ Received' /\ Shown'
      BY <2>1, SameMailbox DEF MailInv, Types, Counters, Received, Shown
    <2> QED BY <2>2, <2>3 DEF MailInv
  <1>2. CASE \/ \E m \in Mails : Arrive(m)
             \/ \E m \in Mails, p \in {"inbox", "archive", "gone"} : Move(m, p)
    BY <1>2, MailboxStep
  <1>3. CASE Poll \/ Request \/ TakeRequest \/ Crash
    BY <1>3, EmptySteps
  <1>4. ASSUME NEW r \in Runs, RunStep(r) \/ RunFails(r) \/ Hang(r) PROVE MailInv'
    BY <1>4, EmptySteps, QueryStep, GetStep, GetThreadsStep, PublishStep DEF RunStep, PublishNext
  <1> QED BY <1>1, <1>2, <1>3, <1>4 DEF Next

LEMMA AlwaysMail == Spec => []MailInv
  BY InitMail, NextMail, PTL DEF Spec

\* For any mails, threads, limit and faults: a row without mails shows a mail that was destroyed
\* between the run's calls, and a successful run over a mailbox left alone, which no other run
\* overtakes, leaves the newest threads as they are.
THEOREM MailIsShown == Spec => []Safety
  BY AlwaysMail, InvSafe, PTL

\* A run shows an older mail over a newer one only if the newer one was not in the inbox when it
\* asked, or if the other run has published since: Email/query is read before and published after.
THEOREM MailGoesForward == Spec => NoRollback
  <1>1. MailInv /\ [Next]_vars =>
          [\A r \in Runs, t \in Threads : \A old \in sink[t], new \in sink'[t] :
             rows'[r] # rows[r] /\ at[new.mail] < at[old.mail] =>
                overtaken[r] \/ old.mail \notin seen[r]]_sink
    <2> SUFFICES ASSUME MailInv, [Next]_vars, sink' # sink, NEW r \in Runs, rows'[r] # rows[r],
                        NEW t \in Threads, NEW old \in sink[t], NEW new \in sink'[t],
                        at[new.mail] < at[old.mail], old.mail \in seen[r]
                 PROVE  overtaken[r]
      OBVIOUS
    <2>a. PICK p \in Runs : PublishNext(p)
      <3>1. CASE UNCHANGED vars \/ Poll \/ Request \/ TakeRequest \/ Crash
        BY <3>1 DEF vars, Poll, Request, TakeRequest, Connect, Crash
      <3>2. CASE \/ \E m \in Mails : Arrive(m)
                 \/ \E m \in Mails, p \in {"inbox", "archive", "gone"} : Move(m, p)
        BY <3>2 DEF Arrive, Move
      <3>3. ASSUME NEW q \in Runs, RunStep(q) \/ RunFails(q) \/ Hang(q) PROVE PublishNext(q)
        BY <3>3 DEF RunStep, Query, Get, GetThreads, Report, RunFails, Hang
      <3> QED BY <3>1, <3>2, <3>3 DEF Next
    <2>b. PICK row \in rows[p] : Publish(p, row)
      BY <2>a DEF PublishNext
    <2>1. p = r
      <3>1. rows' = [rows EXCEPT ![p] = @ \ {row}] /\ rows \in [Runs -> SUBSET Row]
        BY <2>b DEF Publish, MailInv, Types
      <3> QED BY <3>1
    <2>2. step[r] = "publish" /\ sink' = [sink EXCEPT ![row.thread] = {row}] /\ row \in rows[r]
      BY <2>b, <2>1 DEF Publish
    <2>3. /\ Types /\ Shown /\ Joined(r) /\ Named(r)
          /\ row.mail \in ids[r] /\ row.thread = ThreadOf[row.mail]
      BY <2>2 DEF MailInv, Joined, Named
    <2>4. at[old.mail] \in Nat /\ at[row.mail] \in Nat
      <3>1. old \in Row /\ row \in Row
        BY <2>2, <2>3 DEF Types
      <3> QED BY <2>3, <3>1 DEF Types, Row
    <2>5. CASE t # row.thread
      <3>1. new \in sink[t]
        BY <2>2, <2>3, <2>5 DEF Types
      <3>2. new = old
        BY <2>3, <3>1 DEF Shown
      <3> QED BY <2>4, <3>2
    <2>6. CASE t = row.thread
      <3>1. new = row
        BY <2>2, <2>3, <2>6 DEF Types
      <3>2. ~overtaken[r] => at[old.mail] <= at[row.mail]
        BY <2>2, <2>3, <2>6 DEF Joined, Newer, Joining
      <3>3. ~(at[old.mail] <= at[row.mail])
        BY <2>4, <3>1
      <3> QED BY <3>2, <3>3
    <2> QED BY <2>5, <2>6
  <1> QED BY <1>1, AlwaysMail, PTL DEF Spec, NoRollback
====
