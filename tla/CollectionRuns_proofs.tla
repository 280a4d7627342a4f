------------------------ MODULE CollectionRuns_proofs ------------------------
(***************************************************************************)
(* Edits of collection sources survive the runs that overlap them, and no  *)
(* run makes a source skip a time of its schedule: for any sources, lines, *)
(* edits, requests and faults.                                             *)
(***************************************************************************)
EXTENDS CollectionRuns, TLAPS

-----------------------------------------------------------------------------
(***************************************************************************)
(* The controller's rows.                                                  *)
(***************************************************************************)

\* Due times are numbers: a line is Manual or a period.
LEMMA NextDueNat ==
    ASSUME NEW line \in Lines \cup {Manual}, NEW t \in Nat
    PROVE  NextDue(line, t) \in Nat
  <1>1. CASE line = Manual
    BY <1>1 DEF NextDue
  <1>2. CASE line # Manual
    <2>1. line \in Nat /\ line > 0
      BY <1>2, CollectionAssumption DEF Manual
    <2>2. t \div line \in Nat
      BY <2>1
    <2>3. line * ((t \div line) + 1) \in Nat
      BY <2>1, <2>2
    <2> QED BY <1>2, <2>3 DEF NextDue
  <1> QED BY <1>1, <1>2

\* An upsert stores what was asked for, a report leaves it alone.
LEMMA RowUpdates ==
    ASSUME NEW old \in Rows \cup {NoRow}, NEW settings \in Settings, NEW rep \in Reports
    PROVE  /\ Upserted(old, settings) \in Rows
           /\ Upserted(old, settings).line = settings.line
           /\ Upserted(old, settings).enabled = settings.enabled
           /\ Updated(old, rep) \in Rows \cup {NoRow}
           /\ old = NoRow <=> Updated(old, rep) = NoRow
           /\ old # NoRow => /\ Updated(old, rep).line = old.line
                             /\ Updated(old, rep).enabled = old.enabled
                             /\ Updated(old, rep).due = rep.due
                             /\ Updated(old, rep).run = rep.stamp
  <1>1. NoRow \notin Rows
    BY NoRowAssumption
  <1>2. CASE old = NoRow
    BY <1>1, <1>2, CollectionAssumption DEF Upserted, Updated, Rows, Settings, Reports, Time
  <1>3. CASE old # NoRow
    <2>1. old \in Rows
      BY <1>3
    <2> QED BY <1>1, <1>3, <2>1 DEF Upserted, Updated, Rows, Settings, Reports, Time
  <1> QED BY <1>2, <1>3

\* The first time after a later moment is no earlier.
LEMMA NextDueMonotone ==
    ASSUME NEW line \in Lines \cup {Manual}, NEW t \in Nat, NEW u \in Nat, t <= u
    PROVE  NextDue(line, t) <= NextDue(line, u)
  <1>1. CASE line = Manual
    BY <1>1 DEF NextDue
  <1>2. CASE line # Manual
    <2> DEFINE p == t \div line
               q == u \div line
    <2>1. line \in Nat /\ line > 0
      BY <1>2, CollectionAssumption DEF Manual
    <2>2. p \in Nat /\ q \in Nat
      BY <2>1
    <2>3. line * p <= t /\ u < line * (q + 1)
      BY <2>1
    <2>4. line * p < line * (q + 1)
      <3>1. line * p \in Nat /\ line * (q + 1) \in Nat
        BY <2>1, <2>2
      <3> HIDE DEF p, q
      <3> QED BY <2>3, <3>1
    <2> HIDE DEF p, q
    <2>5. p < q + 1
      BY <2>1, <2>2, <2>4
    <2>6. line * (p + 1) <= line * (q + 1)
      BY <2>1, <2>2, <2>5
    <2> QED BY <1>2, <2>6 DEF NextDue, p, q
  <1> QED BY <1>1, <1>2

-----------------------------------------------------------------------------
(***************************************************************************)
(* The inductive invariant.  A source that has kept its line has it in     *)
(* every copy of its row that is under way, and a report under way says    *)
(* nothing later than the next time of the schedule.                       *)
(***************************************************************************)

Same(j) == j.id \in Sources \ edited => row[j.id] # NoRow /\ row[j.id].line = j.line

CopiesInv ==
    /\ \A copy \in todo : Same(copy.job)
    /\ \A i \in 1..Len(requests) : Same(requests[i])
    /\ \A w \in Workers : Same(job[w])

ReportsInv ==
    \A w \in Workers :
        /\ start[w] <= now
        /\ report[w] # None => pc[w] = "report" /\ report[w].due <= NextDue(job[w].line, now)

RunsInv == TypeOK /\ EditsSurvive /\ NoTimeSkipped /\ CopiesInv /\ ReportsInv

-----------------------------------------------------------------------------
(***************************************************************************)
(* It holds at the start, and every step keeps it.                         *)
(***************************************************************************)

LEMMA InitRuns == Init => RunsInv
  <1> SUFFICES ASSUME Init PROVE RunsInv
    OBVIOUS
  <1>1. Once \in Jobs /\ None \in Reports /\ 0 \in Time /\ 1 \in Time
    BY CollectionAssumption DEF Once, Jobs, None, Reports, Time, Ephemeral, Manual
  <1>2. TypeOK
    <2>1. row \in [Sources -> Rows \cup {NoRow}] /\ wanted \in [Sources -> Settings \cup {NoRow}]
      BY DEF Init
    <2>2. requests \in Seq(Jobs) /\ todo \in SUBSET Copies /\ edited \in SUBSET Sources
      BY DEF Init
    <2>3. /\ pc \in [Workers -> {"down", "idle", "listed", "next", "collect", "report"}]
          /\ job \in [Workers -> Jobs] /\ start \in [Workers -> Time]
          /\ report \in [Workers -> Reports] /\ asked \in [Sources -> Time]
      BY <1>1 DEF Init
    <2>4. /\ now \in Time /\ bound \in BOOLEAN /\ held \in BOOLEAN /\ cancelled \in BOOLEAN
          /\ held => pc["request"] \in {"collect", "report"}
      BY <1>1 DEF Init
    <2>5. made \in 0..MaxRequests /\ edits \in 0..MaxEdits /\ faults \in 0..MaxFaults
      BY CollectionAssumption DEF Init
    <2> QED BY <2>1, <2>2, <2>3, <2>4, <2>5 DEF TypeOK
  <1>3. EditsSurvive /\ NoTimeSkipped
    BY DEF Init, EditsSurvive, NoTimeSkipped, Scheduled
  <1>4. CopiesInv
    BY CollectionAssumption DEF Init, CopiesInv, Same, Once, Ephemeral, Sources
  <1>5. ReportsInv
    BY DEF Init, ReportsInv
  <1> QED BY <1>2, <1>3, <1>4, <1>5 DEF RunsInv

\* Steps that touch neither the clock nor the table.
LEMMA TableKept ==
    ASSUME RunsInv, UNCHANGED <<now, table>>
    PROVE  /\ EditsSurvive' /\ NoTimeSkipped'
           /\ \A j \in Jobs : Same(j)' <=> Same(j)
  BY DEF RunsInv, EditsSurvive, NoTimeSkipped, Scheduled, Same, table

\* Steps that touch the table only, and keep the line of a source that is not thereby edited.
LEMMA LinesKept ==
    ASSUME RunsInv, edited \subseteq edited',
           \A s \in Sources \ edited' :
               row[s] # NoRow => row'[s] # NoRow /\ row'[s].line = row[s].line
    PROVE  \A j \in Jobs : Same(j) => Same(j)'
  BY DEF Same

LEMMA RowTypes ==
    ASSUME TypeOK
    PROVE  \A s \in Sources : row[s] # NoRow =>
               row[s] \in Rows /\ Job(s) \in Jobs /\ Copy(s) \in Copies
  BY DEF TypeOK, Rows, Job, Jobs, Copy, Copies

LEMMA TickKeeps ==
    ASSUME RunsInv, Tick
    PROVE  RunsInv'
  <1> USE DEF RunsInv
  <1>1. now \in Nat /\ now' \in Nat /\ now <= now' /\ now' \in Time
    BY CollectionAssumption DEF Tick, TypeOK, Time
  <1>2. TypeOK'
    BY <1>1 DEF Tick, TypeOK, table, queue, worker, bounds
  <1>3. EditsSurvive'
    BY DEF Tick, EditsSurvive, table
  <1>4. NoTimeSkipped'
    <2> SUFFICES ASSUME NEW s \in Sources \ edited, row[s] # NoRow, row[s].line # Manual
                 PROVE  row[s].due <= NextDue(row[s].line, now')
      BY DEF Tick, NoTimeSkipped, Scheduled, table
    <2>1. row[s] \in Rows
      BY DEF TypeOK
    <2>2. row[s].line \in Lines \cup {Manual} /\ row[s].due \in Nat
      BY <2>1 DEF Rows
    <2>3. row[s].due <= NextDue(row[s].line, now)
      BY DEF NoTimeSkipped, Scheduled
    <2>4. NextDue(row[s].line, now) <= NextDue(row[s].line, now')
      BY <1>1, <2>2, NextDueMonotone
    <2>5. NextDue(row[s].line, now) \in Nat /\ NextDue(row[s].line, now') \in Nat
      BY <1>1, <2>2, NextDueNat
    <2> QED BY <2>2, <2>3, <2>4, <2>5
  <1>5. CopiesInv'
    BY DEF Tick, CopiesInv, Same, table, worker, queue
  <1>6. ReportsInv'
    <2> SUFFICES ASSUME NEW w \in Workers
                 PROVE  /\ start[w] <= now'
                        /\ report[w] # None =>
                             pc[w] = "report" /\ report[w].due <= NextDue(job[w].line, now')
      BY DEF Tick, ReportsInv, worker
    <2>1. start[w] \in Nat /\ start[w] <= now
      BY CollectionAssumption DEF ReportsInv, TypeOK, Time
    <2>2. report[w].due \in Nat /\ job[w].line \in Lines \cup {Manual}
      BY DEF TypeOK, Reports, Jobs
    <2>3. NextDue(job[w].line, now) <= NextDue(job[w].line, now')
      BY <1>1, <2>2, NextDueMonotone
    <2>4. NextDue(job[w].line, now) \in Nat /\ NextDue(job[w].line, now') \in Nat
      BY <1>1, <2>2, NextDueNat
    <2> QED BY <1>1, <2>1, <2>2, <2>3, <2>4 DEF ReportsInv
  <1> QED BY <1>2, <1>3, <1>4, <1>5, <1>6

\* An edit: the row is what the user asked for, and another line marks the source as edited.
LEMMA SaveKeeps ==
    ASSUME RunsInv, NEW s \in Sources, NEW settings \in Settings, Save(s, settings)
    PROVE  RunsInv'
  <1> USE DEF RunsInv
  <1>1. row[s] \in Rows \cup {NoRow} /\ now \in Nat
    BY CollectionAssumption DEF TypeOK, Time
  <1>2. /\ Upserted(row[s], settings) \in Rows
        /\ Upserted(row[s], settings).line = settings.line
        /\ Upserted(row[s], settings).enabled = settings.enabled
    <2>1. None \in Reports
      BY CollectionAssumption DEF None, Reports, Time
    <2> QED BY <1>1, <2>1, RowUpdates
  <1>3. row' = [row EXCEPT ![s] = Upserted(row[s], settings)] /\ row \in [Sources -> Rows \cup {NoRow}]
    BY DEF Save, TypeOK
  <1>4. wanted' = [wanted EXCEPT ![s] = settings] /\ wanted \in [Sources -> Settings \cup {NoRow}]
    BY DEF Save, TypeOK
  <1>5. edited \subseteq edited' /\ edited' \in SUBSET Sources
    BY DEF Save, TypeOK
  <1>6. s \notin edited' => row[s] = NoRow \/ row[s].line = settings.line
    BY DEF Save, Stored
  <1>7. TypeOK'
    <2>1. edits' \in 0..MaxEdits
      BY CollectionAssumption DEF Save, Edit, TypeOK
    <2>2. row' \in [Sources -> Rows \cup {NoRow}] /\ wanted' \in [Sources -> Settings \cup {NoRow}]
      BY <1>2, <1>3, <1>4
    <2> QED BY <1>5, <2>1, <2>2 DEF Save, Edit, TypeOK, queue, worker
  <1>8. EditsSurvive'
    <2> SUFFICES ASSUME NEW x \in Sources
                 PROVE  IF wanted'[x] = NoRow THEN row'[x] = NoRow
                        ELSE row'[x] # NoRow /\
                             wanted'[x] = [line |-> row'[x].line, enabled |-> row'[x].enabled]
      BY DEF EditsSurvive
    <2>1. CASE x = s
      <3>1. row'[s] # NoRow /\ wanted'[s] = settings
        BY <1>2, <1>3, <1>4, NoRowAssumption
      <3>2. settings = [line |-> row'[s].line, enabled |-> row'[s].enabled]
        BY <1>2, <1>3 DEF Settings
      <3> QED BY <2>1, <3>1, <3>2, NoRowAssumption
    <2>2. CASE x # s
      BY <1>3, <1>4, <2>2 DEF EditsSurvive
    <2> QED BY <2>1, <2>2
  <1>9. NoTimeSkipped'
    <2> SUFFICES ASSUME NEW x \in Sources \ edited', row'[x] # NoRow, row'[x].line # Manual
                 PROVE  row'[x].due <= NextDue(row'[x].line, now)
      BY DEF Save, NoTimeSkipped, Scheduled
    <2>1. CASE x = s /\ row[s] = NoRow
      <3>1. row'[s].due = 0 /\ row'[s].line \in Lines \cup {Manual}
        BY <1>2, <1>3, <2>1 DEF Upserted, Settings
      <3>2. NextDue(row'[s].line, now) \in Nat
        BY <1>1, <3>1, NextDueNat
      <3> QED BY <2>1, <3>1, <3>2
    <2>2. CASE x = s /\ row[s] # NoRow
      <3>1. row[s] \in Rows /\ row'[s].due = row[s].due
        BY <1>1, <1>3, <2>2 DEF Upserted, Rows
      <3>2. row'[s].line = row[s].line
        BY <1>2, <1>3, <1>6, <2>2
      <3>3. row[s].due <= NextDue(row[s].line, now)
        BY <1>5, <2>2, <3>2 DEF NoTimeSkipped, Scheduled
      <3> QED BY <2>2, <3>1, <3>2, <3>3
    <2>3. CASE x # s
      BY <1>3, <1>5, <2>3 DEF NoTimeSkipped, Scheduled
    <2> QED BY <2>1, <2>2, <2>3
  <1>10. \A j \in Jobs : Same(j) => Same(j)'
    <2>1. \A x \in Sources \ edited' :
             row[x] # NoRow => row'[x] # NoRow /\ row'[x].line = row[x].line
      BY <1>2, <1>3, <1>6, NoRowAssumption
    <2> QED BY <1>5, <2>1, LinesKept
  <1>11. CopiesInv'
    BY <1>10 DEF Save, CopiesInv, TypeOK, Copies, queue, worker
  <1>12. ReportsInv'
    BY DEF Save, ReportsInv, worker
  <1> QED BY <1>7, <1>8, <1>9, <1>11, <1>12

LEMMA DeleteKeeps ==
    ASSUME RunsInv, NEW s \in Sources, Delete(s)
    PROVE  RunsInv'
  <1> USE DEF RunsInv
  <1>1. row' = [row EXCEPT ![s] = NoRow] /\ row \in [Sources -> Rows \cup {NoRow}]
    BY DEF Delete, TypeOK
  <1>2. wanted' = [wanted EXCEPT ![s] = NoRow] /\ wanted \in [Sources -> Settings \cup {NoRow}]
    BY DEF Delete, TypeOK
  <1>3. edited' = edited \cup {s} /\ edited' \in SUBSET Sources
    BY DEF Delete, TypeOK
  <1>4. TypeOK'
    <2>1. edits' \in 0..MaxEdits
      BY CollectionAssumption DEF Delete, Edit, TypeOK
    <2>2. asked' \in [Sources -> Time]
      BY CollectionAssumption DEF Delete, TypeOK, Time
    <2> QED BY <1>1, <1>2, <1>3, <2>1, <2>2 DEF Delete, Edit, TypeOK, queue, worker
  <1>5. EditsSurvive'
    BY <1>1, <1>2 DEF EditsSurvive
  <1>6. NoTimeSkipped'
    BY <1>1, <1>3 DEF Delete, NoTimeSkipped, Scheduled
  <1>7. \A j \in Jobs : Same(j) => Same(j)'
    BY <1>1, <1>3, LinesKept
  <1>8. CopiesInv'
    BY <1>7 DEF Delete, CopiesInv, TypeOK, Copies, queue, worker
  <1>9. ReportsInv'
    BY DEF Delete, ReportsInv, worker
  <1> QED BY <1>4, <1>5, <1>6, <1>8, <1>9

\* A request carries a copy of the row as it is, or names no source.
LEMMA EnqueueKeeps ==
    ASSUME RunsInv, EnqueueRequest
    PROVE  RunsInv'
  <1> USE DEF RunsInv
  <1>1. PICK req \in Jobs : Enqueue(req) /\ Same(req)
    <2>1. Once \in Jobs /\ Same(Once)
      BY CollectionAssumption DEF Once, Jobs, Same, Ephemeral, Sources
    <2>2. \A s \in Sources : Stored(s) => Job(s) \in Jobs /\ Same(Job(s))
      BY RowTypes DEF Stored, Same, Job
    <2> QED BY <2>1, <2>2 DEF EnqueueRequest
  <1>2. UNCHANGED <<now, table, held, bound, worker, cancelled>>
    BY <1>1 DEF Enqueue
  <1>3. requests' = requests \/ requests' = Append(requests, req)
    BY <1>1 DEF Enqueue
  <1>4. requests \in Seq(Jobs)
    BY DEF TypeOK
  <1>5. TypeOK'
    <2>1. made' \in 0..MaxRequests /\ edits' = edits /\ faults' = faults
      BY <1>1, CollectionAssumption DEF Enqueue, TypeOK
    <2>2. asked' \in [Sources -> Time]
      BY <1>1 DEF Enqueue, TypeOK, Jobs
    <2>3. requests' \in Seq(Jobs)
      BY <1>3, <1>4
    <2> QED BY <1>2, <2>1, <2>2, <2>3 DEF TypeOK, table, worker
  <1>6. EditsSurvive' /\ NoTimeSkipped' /\ \A j \in Jobs : Same(j)' <=> Same(j)
    BY <1>2, TableKept
  <1>7. CopiesInv'
    <2>1. \A i \in 1..Len(requests') : requests'[i] \in Jobs /\ Same(requests'[i])
      BY <1>1, <1>3, <1>4 DEF CopiesInv
    <2>2. \A copy \in todo' : copy.job \in Jobs /\ Same(copy.job)
      BY <1>2 DEF CopiesInv, worker, TypeOK, Copies
    <2>3. \A w \in Workers : job'[w] \in Jobs /\ Same(job'[w])
      BY <1>2 DEF CopiesInv, worker, TypeOK
    <2> QED BY <1>6, <2>1, <2>2, <2>3 DEF CopiesInv
  <1>8. ReportsInv'
    BY <1>2 DEF ReportsInv, worker
  <1> QED BY <1>5, <1>6, <1>7, <1>8

\* The listing copies rows as they are.
LEMMA PollListKeeps ==
    ASSUME RunsInv, PollList
    PROVE  RunsInv'
  <1> USE DEF RunsInv
  <1>1. UNCHANGED <<now, table, queue, bound, job, start, report, cancelled, asked, bounds>>
    BY DEF PollList
  <1>2. \A copy \in todo' : copy \in Copies /\ Same(copy.job)
    <2>1. \A s \in Sources : Stored(s) => Copy(s) \in Copies /\ Same(Copy(s).job)
      BY RowTypes DEF Stored, Same, Copy, Job
    <2> QED BY <2>1 DEF PollList, Listed
  <1>3. pc' = [pc EXCEPT !["poll"] = "listed"] /\ pc["poll"] = "idle"
    BY DEF PollList, Goto
  <1>4. TypeOK'
    BY <1>1, <1>2, <1>3 DEF TypeOK, table, queue, bounds, Workers
  <1>5. EditsSurvive' /\ NoTimeSkipped' /\ \A j \in Jobs : Same(j)' <=> Same(j)
    BY <1>1, TableKept
  <1>6. CopiesInv'
    BY <1>1, <1>2, <1>5 DEF CopiesInv, TypeOK, Copies, queue
  <1>7. ReportsInv'
    BY <1>1, <1>3 DEF ReportsInv, TypeOK, Workers
  <1> QED BY <1>4, <1>5, <1>6, <1>7

LEMMA PollStartKeeps ==
    ASSUME RunsInv, PollStart
    PROVE  RunsInv'
  <1> USE DEF RunsInv
  <1>1. UNCHANGED <<now, table, queue, bound, job, report, cancelled, asked, bounds>>
    BY DEF PollStart
  <1>2. todo' \subseteq todo /\ start' = [start EXCEPT !["poll"] = now]
    BY DEF PollStart
  <1>3. pc' = [pc EXCEPT !["poll"] = "next"] /\ pc["poll"] = "listed"
    BY DEF PollStart, Goto
  <1>4. TypeOK'
    BY <1>1, <1>2, <1>3 DEF TypeOK, table, queue, bounds, Workers
  <1>5. EditsSurvive' /\ NoTimeSkipped' /\ \A j \in Jobs : Same(j)' <=> Same(j)
    BY <1>1, TableKept
  <1>6. CopiesInv'
    BY <1>1, <1>2, <1>5 DEF CopiesInv, TypeOK, Copies, queue
  <1>7. ReportsInv'
    <2>1. now <= now
      BY CollectionAssumption DEF TypeOK, Time
    <2> QED BY <1>1, <1>2, <1>3, <2>1 DEF ReportsInv, TypeOK, Workers
  <1> QED BY <1>4, <1>5, <1>6, <1>7

LEMMA PollNextKeeps ==
    ASSUME RunsInv, PollNext
    PROVE  RunsInv'
  <1> USE DEF RunsInv
  <1>1. UNCHANGED <<now, table, queue, bound, report, cancelled, asked, bounds>>
    BY DEF PollNext
  <1>2. todo' \subseteq todo
    BY DEF PollNext
  <1>3. start' = start \/ start' = [start EXCEPT !["poll"] = 0]
    BY DEF PollNext
  <1>4. job' = job \/ \E copy \in todo : job' = [job EXCEPT !["poll"] = copy.job]
    BY DEF PollNext
  <1>5. /\ pc["poll"] = "next"
        /\ pc' = [pc EXCEPT !["poll"] = "idle"] \/ pc' = [pc EXCEPT !["poll"] = "collect"]
    BY DEF PollNext, Goto
  <1>6. TypeOK'
    <2>1. pc' \in [Workers -> {"down", "idle", "listed", "next", "collect", "report"}]
      BY <1>5 DEF TypeOK
    <2>2. start' \in [Workers -> Time]
      <3>1. 0 \in Time
        BY CollectionAssumption DEF Time
      <3> QED BY <1>3, <3>1 DEF TypeOK
    <2>3. job' \in [Workers -> Jobs]
      BY <1>4 DEF TypeOK, Copies
    <2>4. pc'["request"] = pc["request"]
      BY <1>5 DEF TypeOK, Workers
    <2> QED BY <1>1, <1>2, <2>1, <2>2, <2>3, <2>4 DEF TypeOK, table, queue, bounds
  <1>7. EditsSurvive' /\ NoTimeSkipped' /\ \A j \in Jobs : Same(j)' <=> Same(j)
    BY <1>1, TableKept
  <1>8. CopiesInv'
    <2>1. \A w \in Workers : job'[w] \in Jobs /\ Same(job'[w])
      BY <1>4 DEF CopiesInv, TypeOK, Copies
    <2>2. \A copy \in todo' : copy.job \in Jobs /\ Same(copy.job)
      BY <1>2 DEF CopiesInv, TypeOK, Copies
    <2>3. \A i \in 1..Len(requests') : requests'[i] \in Jobs /\ Same(requests'[i])
      BY <1>1 DEF CopiesInv, TypeOK, queue
    <2> QED BY <1>7, <2>1, <2>2, <2>3 DEF CopiesInv
  <1>9. ReportsInv'
    <2> SUFFICES ASSUME NEW w \in Workers
                 PROVE  /\ start'[w] <= now
                        /\ report[w] # None =>
                             pc'[w] = "report" /\ report[w].due <= NextDue(job'[w].line, now)
      BY <1>1 DEF ReportsInv
    <2>1. start'[w] <= now
      BY <1>3, CollectionAssumption DEF ReportsInv, TypeOK, Time
    <2>2. CASE w = "poll"
      BY <1>5, <2>1, <2>2 DEF ReportsInv
    <2>3. CASE w # "poll"
      BY <1>4, <1>5, <2>1, <2>3 DEF ReportsInv, TypeOK
    <2> QED BY <2>2, <2>3
  <1> QED BY <1>6, <1>7, <1>8, <1>9

\* The due time a run reports follows its beginning or its end, neither of which is to come.
LEMMA CollectKeeps ==
    ASSUME RunsInv, NEW w \in Workers, Collect(w)
    PROVE  RunsInv'
  <1> USE DEF RunsInv
  <1>1. UNCHANGED <<now, table, queue, bound, todo, job, start, cancelled, asked, bounds>>
    BY DEF Collect
  <1>2. pc[w] = "collect" /\ pc' = [pc EXCEPT ![w] = "report"]
    BY DEF Collect, Goto
  <1>3. now \in Nat /\ now \in Time /\ start[w] \in Nat /\ start[w] <= now
    BY CollectionAssumption DEF TypeOK, Time, ReportsInv
  <1>4. job[w].line \in Lines \cup {Manual}
    BY DEF TypeOK, Jobs
  <1>5. PICK rep \in Reports :
           /\ report' = [report EXCEPT ![w] = rep]
           /\ rep # None => rep.due <= NextDue(job[w].line, now)
    <2>1. CASE cancelled
      <3>1. report' = [report EXCEPT ![w] = report[w]] /\ report[w] \in Reports
        BY <2>1 DEF Collect, TypeOK
      <3>2. report[w] = None
        BY <1>2 DEF ReportsInv
      <3> QED BY <3>1, <3>2
    <2>2. CASE ~cancelled
      <3>1. PICK base \in {start[w], now} :
              report' = [report EXCEPT ![w] =
                           [stamp |-> now, due |-> NextDue(job[w].line, base)]]
        BY <2>2 DEF Collect
      <3>2. base \in Nat /\ base <= now
        BY <1>3
      <3>3. NextDue(job[w].line, base) \in Nat
        BY <1>4, <3>2, NextDueNat
      <3>4. NextDue(job[w].line, base) <= NextDue(job[w].line, now)
        BY <1>3, <1>4, <3>2, NextDueMonotone
      <3> DEFINE rep == [stamp |-> now, due |-> NextDue(job[w].line, base)]
      <3>5. rep \in Reports /\ rep.due <= NextDue(job[w].line, now)
        BY <1>3, <3>3, <3>4 DEF Reports
      <3> HIDE DEF rep
      <3>6. report' = [report EXCEPT ![w] = rep]
        BY <3>1 DEF rep
      <3> QED BY <3>5, <3>6
    <2> QED BY <2>1, <2>2
  <1>6. TypeOK'
    <2>1. pc' \in [Workers -> {"down", "idle", "listed", "next", "collect", "report"}]
      BY <1>2 DEF TypeOK
    <2>2. report' \in [Workers -> Reports]
      BY <1>5 DEF TypeOK
    <2>3. held => pc'["request"] \in {"collect", "report"}
      BY <1>2 DEF TypeOK
    <2> QED BY <1>1, <2>1, <2>2, <2>3 DEF TypeOK, table, queue, bounds
  <1>7. EditsSurvive' /\ NoTimeSkipped' /\ \A j \in Jobs : Same(j)' <=> Same(j)
    BY <1>1, TableKept
  <1>8. CopiesInv'
    BY <1>1, <1>7 DEF CopiesInv, TypeOK, Copies, queue
  <1>9. ReportsInv'
    <2> SUFFICES ASSUME NEW v \in Workers
                 PROVE  /\ start[v] <= now
                        /\ report'[v] # None =>
                             pc'[v] = "report" /\ report'[v].due <= NextDue(job[v].line, now)
      BY <1>1 DEF ReportsInv
    <2>1. CASE v = w
      BY <1>2, <1>3, <1>5, <2>1 DEF TypeOK
    <2>2. CASE v # w
      BY <1>2, <1>5, <2>2 DEF TypeOK, ReportsInv
    <2> QED BY <2>1, <2>2
  <1> QED BY <1>6, <1>7, <1>8, <1>9

\* A report that arrives: it sets the due time of a row that, unless edited, has the run's line.
LEMMA ReportedRow ==
    ASSUME RunsInv, NEW w \in Workers, pc[w] = "report", job[w].id # Ephemeral,
           report[w] # None, UNCHANGED <<now, wanted, edited>>,
           row' = [row EXCEPT ![job[w].id] = Updated(@, report[w])]
    PROVE  /\ row' \in [Sources -> Rows \cup {NoRow}]
           /\ EditsSurvive' /\ NoTimeSkipped'
           /\ \A j \in Jobs : Same(j) => Same(j)'
  <1> USE DEF RunsInv
  <1> DEFINE s == job[w].id
             rep == report[w]
  <1>1. s \in Sources /\ rep \in Reports /\ row[s] \in Rows \cup {NoRow}
    BY DEF TypeOK, Jobs
  <1>2. None \in Reports /\ [line |-> Manual, enabled |-> TRUE] \in Settings
    BY CollectionAssumption DEF None, Reports, Time, Settings
  <1>3. /\ Updated(row[s], rep) \in Rows \cup {NoRow}
        /\ row[s] = NoRow <=> Updated(row[s], rep) = NoRow
        /\ row[s] # NoRow => /\ Updated(row[s], rep).line = row[s].line
                             /\ Updated(row[s], rep).enabled = row[s].enabled
                             /\ Updated(row[s], rep).due = rep.due
    BY <1>1, <1>2, RowUpdates
  <1>4. row \in [Sources -> Rows \cup {NoRow}]
    BY DEF TypeOK
  <1>5. row' = [row EXCEPT ![s] = Updated(row[s], rep)]
    OBVIOUS
  <1>6. Same(job[w]) /\ rep.due <= NextDue(job[w].line, now)
    BY DEF CopiesInv, ReportsInv
  <1> HIDE DEF rep
  <1>7. row' \in [Sources -> Rows \cup {NoRow}]
    BY <1>3, <1>4, <1>5
  <1>8. EditsSurvive'
    <2> SUFFICES ASSUME NEW x \in Sources
                 PROVE  IF wanted[x] = NoRow THEN row'[x] = NoRow
                        ELSE row'[x] # NoRow /\
                             wanted[x] = [line |-> row'[x].line, enabled |-> row'[x].enabled]
      BY DEF EditsSurvive
    <2>1. CASE x = s
      <3>1. row'[x] = Updated(row[s], rep)
        BY <1>4, <1>5, <2>1
      <3> QED BY <1>3, <2>1, <3>1 DEF EditsSurvive
    <2>2. CASE x # s
      BY <1>4, <1>5, <2>2 DEF EditsSurvive
    <2> QED BY <2>1, <2>2
  <1>9. NoTimeSkipped'
    <2> SUFFICES ASSUME NEW x \in Sources \ edited, row'[x] # NoRow, row'[x].line # Manual
                 PROVE  row'[x].due <= NextDue(row'[x].line, now)
      BY DEF NoTimeSkipped, Scheduled
    <2>1. CASE x = s
      <3>1. row'[x] = Updated(row[s], rep)
        BY <1>4, <1>5, <2>1
      <3>2. row[s] # NoRow /\ row'[x].line = row[s].line /\ row'[x].due = rep.due
        BY <1>3, <3>1
      <3>3. row[s].line = job[w].line
        BY <1>6, <2>1, <3>2 DEF Same
      <3> QED BY <1>6, <3>2, <3>3
    <2>2. CASE x # s
      BY <1>4, <1>5, <2>2 DEF NoTimeSkipped, Scheduled
    <2> QED BY <2>1, <2>2
  <1>10. \A j \in Jobs : Same(j) => Same(j)'
    <2>1. \A x \in Sources \ edited' :
             row[x] # NoRow => row'[x] # NoRow /\ row'[x].line = row[x].line
      BY <1>3, <1>4, <1>5
    <2> QED BY <2>1, LinesKept
  <1> QED BY <1>7, <1>8, <1>9, <1>10

LEMMA ReportKeeps ==
    ASSUME RunsInv, NEW w \in Workers, Report(w)
    PROVE  RunsInv'
  <1> USE DEF RunsInv
  <1>1. UNCHANGED <<now, wanted, edited, bound, todo, cancelled, requests>>
    BY DEF Report, Settle
  <1>2. /\ row' \in [Sources -> Rows \cup {NoRow}]
        /\ EditsSurvive' /\ NoTimeSkipped'
        /\ \A j \in Jobs : Same(j) => Same(j)'
    <2>1. CASE job[w].id # Ephemeral /\ report[w] # None
               /\ row' = [row EXCEPT ![job[w].id] = Updated(@, report[w])]
      BY <1>1, <2>1, ReportedRow DEF Report
    <2>2. CASE UNCHANGED row
      BY <1>1, <2>2, TableKept DEF table, TypeOK
    <2> QED BY <2>1, <2>2 DEF Report
  <1>3. Once \in Jobs /\ None \in Reports /\ 0 \in Time /\ (Same(Once))'
    BY CollectionAssumption DEF Once, Jobs, None, Reports, Time, Ephemeral, Manual, Same, Sources
  <1>4. report' = [report EXCEPT ![w] = None] /\ job' = [job EXCEPT ![w] = Once]
    BY DEF Report
  <1>5. start' = start \/ start' = [start EXCEPT ![w] = 0]
    BY DEF Report
  <1>6. pc' = [pc EXCEPT ![w] = IF w = "poll" THEN "next" ELSE "idle"]
    BY DEF Report, Settle, Goto
  <1>7. TypeOK'
    <2>1. pc' \in [Workers -> {"down", "idle", "listed", "next", "collect", "report"}]
      BY <1>6 DEF TypeOK
    <2>2. held' \in BOOLEAN /\ (held' => pc'["request"] \in {"collect", "report"})
      BY <1>6 DEF Report, Settle, TypeOK, Workers
    <2>3. /\ report' \in [Workers -> Reports] /\ job' \in [Workers -> Jobs]
          /\ start' \in [Workers -> Time]
      BY <1>3, <1>4, <1>5 DEF TypeOK
    <2>4. asked' \in [Sources -> Time]
      <3>1. asked' = asked \/ \E s \in Sources : asked' = [asked EXCEPT ![s] = 0]
                           \/ asked' = [asked EXCEPT ![s] = asked[s]]
        BY DEF Report, TypeOK, Jobs
      <3> QED BY <1>3, <3>1 DEF TypeOK
    <2>5. made' \in 0..MaxRequests /\ edits' \in 0..MaxEdits /\ faults' \in 0..MaxFaults
      BY CollectionAssumption DEF Report, Fault, bounds, TypeOK
    <2> QED BY <1>1, <1>2, <2>1, <2>2, <2>3, <2>4, <2>5 DEF TypeOK
  <1>8. CopiesInv'
    <2>1. \A v \in Workers : (Same(job[v]))'
      BY <1>2, <1>3, <1>4 DEF CopiesInv, TypeOK
    <2> QED BY <1>1, <1>2, <2>1 DEF CopiesInv, TypeOK, Copies
  <1>9. ReportsInv'
    <2> SUFFICES ASSUME NEW v \in Workers
                 PROVE  /\ start'[v] <= now
                        /\ report'[v] # None =>
                             pc'[v] = "report" /\ report'[v].due <= NextDue(job'[v].line, now)
      BY <1>1 DEF ReportsInv
    <2>1. start'[v] <= now
      BY <1>5, CollectionAssumption DEF ReportsInv, TypeOK, Time
    <2>2. CASE v = w
      BY <1>4, <2>1, <2>2 DEF TypeOK
    <2>3. CASE v # w
      BY <1>4, <1>6, <2>1, <2>3 DEF ReportsInv, TypeOK
    <2> QED BY <2>2, <2>3
  <1> QED BY <1>2, <1>7, <1>8, <1>9

LEMMA SubscribeKeeps ==
    ASSUME RunsInv, Subscribe
    PROVE  RunsInv'
  <1> USE DEF RunsInv
  <1>1. UNCHANGED <<now, table, queue, todo, job, start, report, cancelled, asked, bounds>>
    BY DEF Subscribe
  <1>2. pc["request"] = "down" /\ pc' = [pc EXCEPT !["request"] = "idle"] /\ bound' = TRUE
    BY DEF Subscribe, Goto
  <1>3. TypeOK'
    BY <1>1, <1>2 DEF TypeOK, table, queue, bounds, Workers
  <1>4. EditsSurvive' /\ NoTimeSkipped' /\ \A j \in Jobs : Same(j)' <=> Same(j)
    BY <1>1, TableKept
  <1>5. CopiesInv'
    BY <1>1, <1>4 DEF CopiesInv, TypeOK, Copies, queue
  <1>6. ReportsInv'
    BY <1>1, <1>2 DEF ReportsInv, TypeOK, Workers
  <1> QED BY <1>3, <1>4, <1>5, <1>6

LEMMA ReceiveKeeps ==
    ASSUME RunsInv, ReceiveRequest
    PROVE  RunsInv'
  <1> USE DEF RunsInv
  <1>1. UNCHANGED <<now, table, bound, todo, report, cancelled, asked>>
    BY DEF ReceiveRequest
  <1>2. pc["request"] = "idle" /\ requests \in Seq(Jobs) /\ requests # <<>>
    BY DEF ReceiveRequest, TypeOK
  <1>3. /\ requests' = Tail(requests)
        /\ \/ /\ held' = TRUE /\ job' = [job EXCEPT !["request"] = Head(requests)]
              /\ start' = [start EXCEPT !["request"] = now]
              /\ pc' = [pc EXCEPT !["request"] = "collect"]
           \/ UNCHANGED <<held, job, start, pc>>
    BY DEF ReceiveRequest, Goto
  <1>4. Head(requests) \in Jobs /\ Same(Head(requests))
    <2>1. 1 \in 1..Len(requests) /\ Head(requests) = requests[1] /\ requests[1] \in Jobs
      BY <1>2
    <2> QED BY <2>1 DEF CopiesInv
  <1>5. /\ requests' \in Seq(Jobs)
        /\ \A i \in 1..Len(requests') : requests'[i] \in Jobs /\ Same(requests'[i])
    BY <1>2, <1>3 DEF CopiesInv
  <1>6. made' \in 0..MaxRequests /\ edits' \in 0..MaxEdits /\ faults' \in 0..MaxFaults
    BY CollectionAssumption DEF ReceiveRequest, Fault, bounds, TypeOK
  <1>7. TypeOK'
    <2>1. pc' \in [Workers -> {"down", "idle", "listed", "next", "collect", "report"}]
      BY <1>3 DEF TypeOK
    <2>2. held' \in BOOLEAN /\ (held' => pc'["request"] \in {"collect", "report"})
      <3>1. CASE held' = TRUE /\ pc' = [pc EXCEPT !["request"] = "collect"]
        BY <3>1 DEF TypeOK, Workers
      <3>2. CASE UNCHANGED <<held, pc>>
        BY <3>2 DEF TypeOK
      <3> QED BY <1>3, <3>1, <3>2
    <2>3. job' \in [Workers -> Jobs] /\ start' \in [Workers -> Time]
      BY <1>3, <1>4 DEF TypeOK
    <2> QED BY <1>1, <1>5, <1>6, <2>1, <2>2, <2>3 DEF TypeOK, table
  <1>8. EditsSurvive' /\ NoTimeSkipped' /\ \A j \in Jobs : Same(j)' <=> Same(j)
    BY <1>1, TableKept
  <1>9. CopiesInv'
    <2>1. \A w \in Workers : job'[w] \in Jobs /\ Same(job'[w])
      BY <1>3, <1>4 DEF CopiesInv, TypeOK
    <2> QED BY <1>1, <1>5, <1>8, <2>1 DEF CopiesInv, TypeOK, Copies
  <1>10. ReportsInv'
    <2>1. now <= now
      BY CollectionAssumption DEF TypeOK, Time
    <2> QED BY <1>1, <1>2, <1>3, <2>1 DEF ReportsInv, TypeOK
  <1> QED BY <1>7, <1>8, <1>9, <1>10

\* What the broker queues again is the request the consumer is working on.
LEMMA RequestBack ==
    ASSUME RunsInv, UNCHANGED <<now, table>>, requests' = <<job["request"]>> \o requests
    PROVE  /\ requests' \in Seq(Jobs)
           /\ \A i \in 1..Len(requests') : (Same(requests[i]))'
  <1>1. /\ requests \in Seq(Jobs) /\ job["request"] \in Jobs
        /\ Same(job["request"]) /\ \A i \in 1..Len(requests) : Same(requests[i])
    BY DEF RunsInv, TypeOK, CopiesInv, Workers
  <1>2. \A i \in 1..Len(requests') : requests'[i] \in Jobs /\ Same(requests'[i])
    BY <1>1
  <1>3. \A j \in Jobs : Same(j)' <=> Same(j)
    BY TableKept
  <1> QED BY <1>1, <1>2, <1>3

LEMMA ChannelDropKeeps ==
    ASSUME RunsInv, ChannelDrop
    PROVE  RunsInv'
  <1> USE DEF RunsInv
  <1>1. UNCHANGED <<now, table, bound, worker, cancelled, asked>>
    BY DEF ChannelDrop
  <1>2. requests' = <<job["request"]>> \o requests /\ held' = FALSE
    BY DEF ChannelDrop
  <1>3. requests' \in Seq(Jobs) /\ \A i \in 1..Len(requests') : (Same(requests[i]))'
    BY <1>1, <1>2, RequestBack
  <1>4. made' \in 0..MaxRequests /\ edits' \in 0..MaxEdits /\ faults' \in 0..MaxFaults
    BY CollectionAssumption DEF ChannelDrop, Fault, TypeOK
  <1>5. TypeOK'
    BY <1>1, <1>2, <1>3, <1>4 DEF TypeOK, table, worker
  <1>6. EditsSurvive' /\ NoTimeSkipped' /\ \A j \in Jobs : Same(j)' <=> Same(j)
    BY <1>1, TableKept
  <1>7. CopiesInv'
    BY <1>1, <1>3, <1>6 DEF CopiesInv, TypeOK, Copies, worker
  <1>8. ReportsInv'
    BY <1>1 DEF ReportsInv, worker
  <1> QED BY <1>5, <1>6, <1>7, <1>8

\* The process starts again with nothing but the queue.
LEMMA HaltKeeps ==
    ASSUME RunsInv, Halt, UNCHANGED <<made, edits>>, faults' \in 0..MaxFaults
    PROVE  RunsInv'
  <1> USE DEF RunsInv
  <1>1. UNCHANGED <<now, table, bound, asked>>
    BY DEF Halt
  <1>2. Once \in Jobs /\ None \in Reports /\ 0 \in Time
    BY CollectionAssumption DEF Once, Jobs, None, Reports, Time, Ephemeral, Manual
  <1>3. EditsSurvive' /\ NoTimeSkipped' /\ \A j \in Jobs : Same(j)' <=> Same(j)
    BY <1>1, TableKept
  <1>4. requests' \in Seq(Jobs) /\ \A i \in 1..Len(requests') : (Same(requests[i]))'
    <2>1. CASE held
      BY <1>1, <2>1, RequestBack DEF Halt
    <2>2. CASE ~held
      BY <1>3, <2>2 DEF Halt, TypeOK, CopiesInv
    <2> QED BY <2>1, <2>2
  <1>5. TypeOK'
    <2>1. /\ job' \in [Workers -> Jobs] /\ start' \in [Workers -> Time]
          /\ report' \in [Workers -> Reports]
          /\ pc' \in [Workers -> {"down", "idle", "listed", "next", "collect", "report"}]
      BY <1>2 DEF Halt
    <2>2. held' = FALSE /\ cancelled' = FALSE /\ todo' = {}
      BY DEF Halt
    <2> QED BY <1>1, <1>4, <2>1, <2>2 DEF TypeOK, table
  <1>6. CopiesInv'
    <2>1. Same(Once)
      BY CollectionAssumption DEF Same, Once, Ephemeral, Sources
    <2>2. \A w \in Workers : (Same(job[w]))'
      BY <1>2, <1>3, <2>1 DEF Halt
    <2> QED BY <1>4, <2>2 DEF CopiesInv, Halt
  <1>7. ReportsInv'
    BY CollectionAssumption DEF ReportsInv, Halt, TypeOK, Time
  <1> QED BY <1>3, <1>5, <1>6, <1>7

LEMMA TerminateKeeps ==
    ASSUME RunsInv, Terminate
    PROVE  RunsInv'
  <1> USE DEF RunsInv
  <1>1. UNCHANGED <<now, table, queue, bound, worker, asked>> /\ cancelled' = TRUE
    BY DEF Terminate
  <1>2. made' \in 0..MaxRequests /\ edits' \in 0..MaxEdits /\ faults' \in 0..MaxFaults
    BY CollectionAssumption DEF Terminate, Fault, TypeOK
  <1>3. TypeOK'
    BY <1>1, <1>2 DEF TypeOK, table, queue, worker
  <1>4. EditsSurvive' /\ NoTimeSkipped' /\ \A j \in Jobs : Same(j)' <=> Same(j)
    BY <1>1, TableKept
  <1>5. CopiesInv'
    BY <1>1, <1>4 DEF CopiesInv, TypeOK, Copies, queue, worker
  <1>6. ReportsInv'
    BY <1>1 DEF ReportsInv, worker
  <1> QED BY <1>3, <1>4, <1>5, <1>6

LEMMA StepKeeps == RunsInv /\ [Next]_vars => RunsInv'
  <1> SUFFICES ASSUME RunsInv, [Next]_vars PROVE RunsInv'
    OBVIOUS
  <1>1. CASE Tick
    BY <1>1, TickKeeps
  <1>2. CASE User
    BY <1>2, SaveKeeps, DeleteKeeps, EnqueueKeeps DEF User
  <1>3. CASE Poll
    BY <1>3, PollListKeeps, PollStartKeeps, PollNextKeeps, CollectKeeps, ReportKeeps
    DEF Poll, Workers
  <1>4. CASE Consume
    BY <1>4, SubscribeKeeps, ReceiveKeeps, CollectKeeps, ReportKeeps DEF Consume, Workers
  <1>5. CASE ChannelDrop
    BY <1>5, ChannelDropKeeps
  <1>6. CASE Crash
    BY <1>6, HaltKeeps, CollectionAssumption DEF Crash, Fault, RunsInv, TypeOK
  <1>7. CASE Terminate
    BY <1>7, TerminateKeeps
  <1>8. CASE Exit
    BY <1>8, HaltKeeps DEF Exit, bounds, RunsInv, TypeOK
  <1>9. CASE UNCHANGED vars
    <2>1. UNCHANGED <<now, table>>
      BY <1>9 DEF vars
    <2>2. EditsSurvive' /\ NoTimeSkipped' /\ \A j \in Jobs : Same(j)' <=> Same(j)
      BY <2>1, TableKept
    <2>3. TypeOK'
      BY <1>9 DEF vars, RunsInv, TypeOK, table, queue, worker, bounds
    <2>4. CopiesInv'
      BY <1>9, <2>2 DEF vars, RunsInv, CopiesInv, TypeOK, Copies, queue, worker
    <2>5. ReportsInv'
      BY <1>9 DEF vars, RunsInv, ReportsInv, worker
    <2> QED BY <2>2, <2>3, <2>4, <2>5 DEF RunsInv
  <1> QED BY <1>1, <1>2, <1>3, <1>4, <1>5, <1>6, <1>7, <1>8, <1>9 DEF Next

\* Types, and: whatever runs overlap an edit and however late they report, the table has the
\* settings a source was given last, and has no row of a deleted source (UpsertCollectionSource,
\* DeleteCollectionSource, ReportCollectionSourceRun).
THEOREM EditsOutliveRuns == Spec => []Safety
  <1>1. RunsInv => Safety
    BY DEF RunsInv, Safety
  <1> QED BY <1>1, InitRuns, StepKeeps, PTL DEF Spec

\* No run, delayed or failed, of either goroutine, makes a source that kept its line skip a time
\* of its schedule that is still to come (runOneSource, nextDueForReport).
THEOREM SchedulesAreFollowed == Spec => []NoTimeSkipped
  <1>1. RunsInv => NoTimeSkipped
    BY DEF RunsInv
  <1> QED BY <1>1, InitRuns, StepKeeps, PTL DEF Spec

=============================================================================
