------------------------- MODULE ReportingApi_proofs -------------------------
(***************************************************************************)
(* Proofs about ReportingApi, for every set of sites and requests and      *)
(* every bound: the invariants, and that the store implements EventLog.    *)
(***************************************************************************)
EXTENDS ReportingApi, SequenceTheorems, TLAPS

-----------------------------------------------------------------------------
(* Rows, and what Append and SubSeq make of the tables.                    *)

LEMMA RowFacts ==
  /\ \A s \in SiteIds : SiteRow(s) \in Row
  /\ \A e \in Event : EventRow(e) \in Row
  /\ \A row \in Row : row.table = "events" => row.event \in Event /\ row = EventRow(row.event)
  /\ \A s, e : SiteRow(s) # EventRow(e)
  /\ \A s, t : SiteRow(s) = SiteRow(t) => s = t
  /\ \A e, f : EventRow(e) = EventRow(f) => e = f
  /\ \A s : SiteRow(s).table = "sites"
  /\ \A e : EventRow(e).table = "events" /\ EventRow(e).event = e
<1>1. \A s \in SiteIds : SiteRow(s) \in Row
  BY DEF SiteRow, Row
<1>2. \A e \in Event : EventRow(e) \in Row
  BY DEF EventRow, Row
<1>3. \A row \in Row : row.table = "events" => row.event \in Event /\ row = EventRow(row.event)
  BY DEF EventRow, Row
<1>4. \A s : SiteRow(s).table = "sites" /\ SiteRow(s).site = s
  BY DEF SiteRow
<1>5. \A e : EventRow(e).table = "events" /\ EventRow(e).event = e
  BY DEF EventRow
<1>6. \A s, e : SiteRow(s) # EventRow(e)
  <2> SUFFICES ASSUME NEW s, NEW e, SiteRow(s) = EventRow(e) PROVE FALSE
    OBVIOUS
  <2>1. SiteRow(s).table = EventRow(e).table
    OBVIOUS
  <2> QED BY <1>4, <1>5, <2>1
<1> QED BY <1>1, <1>2, <1>3, <1>4, <1>5, <1>6

LEMMA AppendRow ==
  ASSUME NEW rows \in Seq(Row), NEW row \in Row
  PROVE  /\ Append(rows, row) \in Seq(Row)
         /\ Len(Append(rows, row)) = Len(rows) + 1
         /\ DOMAIN rows = 1..Len(rows)
         /\ DOMAIN Append(rows, row) = 1..(Len(rows) + 1)
         /\ \A i \in 1..Len(rows) : Append(rows, row)[i] = rows[i]
         /\ Append(rows, row)[Len(rows) + 1] = row
  BY AppendProperties, LenProperties

LEMMA PrefixRows ==
  ASSUME NEW rows \in Seq(Row), NEW n \in 0..Len(rows)
  PROVE  /\ SubSeq(rows, 1, n) \in Seq(Row)
         /\ Len(SubSeq(rows, 1, n)) = n
         /\ DOMAIN rows = 1..Len(rows)
         /\ DOMAIN SubSeq(rows, 1, n) = 1..n
         /\ \A i \in 1..n : SubSeq(rows, 1, n)[i] = rows[i]
  BY SubSeqProperties, LenProperties

LEMMA AppendTables ==
  ASSUME NEW rows \in Seq(Row)
  PROVE  /\ \A s \in SiteIds :
              /\ SitesIn(Append(rows, SiteRow(s))) = SitesIn(rows) \cup {s}
              /\ EventsIn(Append(rows, SiteRow(s))) = EventsIn(rows)
         /\ \A e \in Event :
              /\ SitesIn(Append(rows, EventRow(e))) = SitesIn(rows)
              /\ EventsIn(Append(rows, EventRow(e))) = EventsIn(rows) \cup {e}
<1>1. ASSUME NEW s \in SiteIds
      PROVE  /\ SitesIn(Append(rows, SiteRow(s))) = SitesIn(rows) \cup {s}
             /\ EventsIn(Append(rows, SiteRow(s))) = EventsIn(rows)
  <2>1. SiteRow(s) \in Row
    BY RowFacts
  <2> QED BY <2>1, RowFacts, AppendRow DEF SitesIn, EventsIn
<1>2. ASSUME NEW e \in Event
      PROVE  /\ SitesIn(Append(rows, EventRow(e))) = SitesIn(rows)
             /\ EventsIn(Append(rows, EventRow(e))) = EventsIn(rows) \cup {e}
  <2>1. EventRow(e) \in Row
    BY RowFacts
  <2> QED BY <2>1, RowFacts, AppendRow DEF SitesIn, EventsIn
<1> QED BY <1>1, <1>2

\* A shorter prefix of the log has fewer rows.
LEMMA PrefixTables ==
  ASSUME NEW rows \in Seq(Row), NEW n \in 0..Len(rows), NEW m \in 0..n
  PROVE  /\ SitesIn(SubSeq(rows, 1, m)) \subseteq SitesIn(SubSeq(rows, 1, n))
         /\ EventsIn(SubSeq(rows, 1, m)) \subseteq EventsIn(SubSeq(rows, 1, n))
         /\ SitesIn(SubSeq(rows, 1, n)) \subseteq SitesIn(rows)
         /\ EventsIn(SubSeq(rows, 1, n)) \subseteq EventsIn(rows)
<1>1. m \in 0..Len(rows) /\ 1..m \subseteq 1..n /\ 1..n \subseteq 1..Len(rows)
  OBVIOUS
<1> QED BY <1>1, PrefixRows DEF SitesIn, EventsIn

-----------------------------------------------------------------------------
(* Steps: what each action does to the log.                                *)

\* Every step appends one row while the process is up, or cuts the log in a
\* power loss, or leaves it alone.
AppendsRow(row) ==
  /\ commits' = Append(commits, row)
  /\ Len(commits) < MaxCommits
  /\ UNCHANGED <<checkpointed, forgotten, crashes, up>>

LEMMA StepTypes ==
  ASSUME TypeOK, [Next]_vars
  PROVE  \/ \E s \in SiteIds :
              /\ AppendsRow(SiteRow(s)) /\ s \notin issued
              /\ issued' = issued \cup {s} /\ UNCHANGED answers
         \/ \E e \in Event :
              /\ AppendsRow(EventRow(e)) /\ UNCHANGED issued
              /\ e.site \in sites /\ \A f \in events : f.id # e.id
              /\ answers' \in {answers, answers \cup {<<e, 202>>}}
         \/ \E n \in checkpointed..Len(commits) :
              /\ commits' = SubSeq(commits, 1, n)
              /\ forgotten' = forgotten \cup (events \ events')
              /\ crashes' \in 0..MaxCrashes /\ up' = FALSE
              /\ UNCHANGED <<checkpointed, answers, issued>>
         \/ /\ UNCHANGED <<commits, forgotten>>
            /\ checkpointed' \in {checkpointed, Len(commits)}
            /\ crashes' \in 0..MaxCrashes /\ up' \in BOOLEAN
            /\ issued \subseteq issued' /\ issued' \subseteq SiteIds
            /\ \/ UNCHANGED answers
               \/ \E e \in Event :
                    /\ answers' = answers \cup {<<e, 409>>}
                    /\ \E f \in events : f.id = e.id
<1>0. /\ crashes < MaxCrashes => crashes + 1 \in 0..MaxCrashes
      /\ crashes \in 0..MaxCrashes /\ up \in BOOLEAN
      /\ issued \subseteq SiteIds
  BY BoundAssumption DEF TypeOK
<1>1. ASSUME NEW s \in SiteIds, RegisterSite(s)
      PROVE  \/ /\ AppendsRow(SiteRow(s)) /\ s \notin issued
                /\ issued' = issued \cup {s} /\ UNCHANGED answers
             \/ /\ UNCHANGED <<commits, checkpointed, forgotten, crashes, up, answers>>
                /\ issued' = issued \cup {s}
  BY <1>1 DEF RegisterSite, Commit, AppendsRow
<1>2. ASSUME NEW r \in Requests, PostEvent(r), InsertEvent(r)
      PROVE  /\ r \in Event
             /\ AppendsRow(EventRow(r)) /\ UNCHANGED issued
             /\ r.site \in sites /\ \A f \in events : f.id # r.id
             /\ answers' \in {answers, answers \cup {<<r, 202>>}}
  BY <1>2 DEF PostEvent, InsertEvent, Commit, AppendsRow, Answer, Event
<1>3. ASSUME NEW r \in Requests, PostEvent(r), RefuseDuplicate(r)
      PROVE  /\ UNCHANGED <<commits, checkpointed, forgotten, crashes, up, issued>>
             /\ r \in Event
             /\ answers' \in {answers, answers \cup {<<r, 409>>}}
             /\ \E f \in events : f.id = r.id
  BY <1>3 DEF PostEvent, RefuseDuplicate, Answer, Event
<1>4. ASSUME NEW r \in Requests, PostEvent(r), RejectEvent(r) \/ StoreFails(r)
      PROVE  UNCHANGED <<commits, checkpointed, forgotten, crashes, up, issued, answers>>
  BY <1>4 DEF PostEvent, RejectEvent, StoreFails
<1>5. ASSUME NEW n \in 0..MaxCommits, OsCrash(n)
      PROVE  /\ n \in checkpointed..Len(commits)
             /\ commits' = SubSeq(commits, 1, n)
             /\ forgotten' = forgotten \cup (events \ events')
             /\ crashes' \in 0..MaxCrashes /\ up' = FALSE
             /\ UNCHANGED <<checkpointed, answers, issued>>
  BY <1>0, <1>5 DEF OsCrash, events
<1>6. ASSUME Checkpoint \/ Shutdown \/ ProcessCrash \/ Restart \/ UNCHANGED vars
      PROVE  /\ UNCHANGED <<commits, forgotten, answers, issued>>
             /\ checkpointed' \in {checkpointed, Len(commits)}
             /\ crashes' \in 0..MaxCrashes /\ up' \in BOOLEAN
  <2>1. CASE Checkpoint
    BY <1>0, <2>1 DEF Checkpoint
  <2>2. CASE Shutdown
    BY <1>0, <2>2 DEF Shutdown
  <2>3. CASE ProcessCrash
    BY <1>0, <2>3 DEF ProcessCrash
  <2>4. CASE Restart
    BY <1>0, <2>4 DEF Restart
  <2>5. CASE UNCHANGED vars
    BY <1>0, <2>5 DEF vars
  <2> QED BY <1>6, <2>1, <2>2, <2>3, <2>4, <2>5
<1>7. CASE \E s \in SiteIds : RegisterSite(s)
  BY <1>0, <1>1, <1>7
<1>8. CASE \E r \in Requests : PostEvent(r)
  <2>1. PICK r \in Requests : PostEvent(r)
    BY <1>8
  <2>2. InsertEvent(r) \/ RefuseDuplicate(r) \/ RejectEvent(r) \/ StoreFails(r)
    BY <2>1 DEF PostEvent
  <2>3. CASE InsertEvent(r)
    BY <1>2, <2>1, <2>3
  <2>4. CASE RefuseDuplicate(r)
    BY <1>0, <1>3, <2>1, <2>4
  <2>5. CASE RejectEvent(r) \/ StoreFails(r)
    BY <1>0, <1>4, <2>1, <2>5
  <2> QED BY <2>2, <2>3, <2>4, <2>5
<1>9. CASE \E n \in 0..MaxCommits : OsCrash(n)
  BY <1>5, <1>9
<1>10. CASE Checkpoint \/ Shutdown \/ ProcessCrash \/ Restart \/ UNCHANGED vars
  BY <1>0, <1>6, <1>10
<1> QED BY <1>7, <1>8, <1>9, <1>10 DEF Next, Handle, Stop

-----------------------------------------------------------------------------
(* The inductive invariant.                                                *)

\* A site in the table has a site_id that randomUUID drew, so it is not drawn again.
SitesIssued == sites \subseteq issued

IndInv ==
  /\ TypeOK
  /\ OneRowPerEvent
  /\ SiteBeforeEvent
  /\ SitesIssued
  /\ AnswersHonest

LEMMA InitInv == Init => IndInv
<1> SUFFICES ASSUME Init PROVE IndInv
  OBVIOUS
<1>1. commits \in Seq(Row) /\ Len(commits) = 0 /\ DOMAIN commits = {}
  BY DEF Init
<1>2. TypeOK
  BY <1>1, BoundAssumption DEF Init, TypeOK
<1>3. OneRowPerEvent /\ SiteBeforeEvent
  BY <1>1 DEF OneRowPerEvent, SiteBeforeEvent
<1>4. SitesIssued /\ AnswersHonest
  BY <1>1 DEF Init, SitesIssued, sites, SitesIn, AnswersHonest
<1> QED BY <1>2, <1>3, <1>4 DEF IndInv

\* A row with a new event_id, or of a known site, keeps the tables in order.
LEMMA AppendInv ==
  ASSUME IndInv, NEW row \in Row, commits' = Append(commits, row),
         row.table = "events" =>
           row.event.site \in sites /\ \A f \in events : f.id # row.event.id
  PROVE  OneRowPerEvent' /\ SiteBeforeEvent'
<1> DEFINE n == Len(commits)
<1>1. commits \in Seq(Row) /\ n \in Nat
  BY LenProperties DEF IndInv, TypeOK
<1>2. /\ DOMAIN commits' = 1..(n + 1) /\ DOMAIN commits = 1..n
      /\ \A i \in 1..n : commits'[i] = commits[i]
      /\ commits'[n + 1] = row
  BY <1>1, AppendRow
<1>3. \A i \in 1..n : commits[i] \in Row
  BY <1>1, ElementOfSeq
<1>4. ASSUME NEW i \in 1..n, commits[i].table = "events"
      PROVE  commits[i].event \in events
  BY <1>2, <1>3, <1>4, RowFacts DEF events, EventsIn
<1>5. OneRowPerEvent'
  BY <1>1, <1>2, <1>4 DEF OneRowPerEvent, IndInv
<1>6. SiteBeforeEvent'
  <2> SUFFICES ASSUME NEW j \in 1..(n + 1), commits'[j].table = "events"
               PROVE  \E i \in 1..(j - 1) : commits'[i] = SiteRow(commits'[j].event.site)
    BY <1>2 DEF SiteBeforeEvent
  <2>1. CASE j \in 1..n
    <3>1. PICK i \in 1..(j - 1) : commits[i] = SiteRow(commits[j].event.site)
      BY <1>2, <2>1 DEF SiteBeforeEvent, IndInv
    <3>2. i \in 1..n
      BY <1>1, <2>1, <3>1
    <3> QED BY <1>2, <2>1, <3>1, <3>2
  <2>2. CASE j = n + 1
    <3>1. PICK i \in 1..n : commits[i] = SiteRow(row.event.site)
      BY <1>2, <2>2 DEF sites, SitesIn
    <3> QED BY <1>1, <1>2, <2>2, <3>1
  <2> QED BY <1>1, <2>1, <2>2
<1> QED BY <1>5, <1>6

\* So does a prefix: an event in it comes after its site.
LEMMA CutInv ==
  ASSUME IndInv, NEW n \in 0..Len(commits), commits' = SubSeq(commits, 1, n)
  PROVE  OneRowPerEvent' /\ SiteBeforeEvent'
<1>1. commits \in Seq(Row) /\ Len(commits) \in Nat
  BY LenProperties DEF IndInv, TypeOK
<1>2. /\ DOMAIN commits' = 1..n /\ DOMAIN commits = 1..Len(commits)
      /\ \A i \in 1..n : commits'[i] = commits[i]
  BY <1>1, PrefixRows
<1>3. OneRowPerEvent'
  BY <1>1, <1>2 DEF OneRowPerEvent, IndInv
<1>4. SiteBeforeEvent'
  <2> SUFFICES ASSUME NEW j \in 1..n, commits[j].table = "events"
               PROVE  \E i \in 1..(j - 1) : commits'[i] = SiteRow(commits[j].event.site)
    BY <1>2 DEF SiteBeforeEvent
  <2>1. PICK i \in 1..(j - 1) : commits[i] = SiteRow(commits[j].event.site)
    BY <1>1, <1>2 DEF SiteBeforeEvent, IndInv
  <2>2. i \in 1..n
    BY <1>1, <2>1
  <2> QED BY <1>2, <2>1, <2>2
<1> QED BY <1>3, <1>4

LEMMA NextInv == IndInv /\ [Next]_vars => IndInv'
<1> SUFFICES ASSUME IndInv, [Next]_vars PROVE IndInv'
  OBVIOUS
<1>0. TypeOK /\ commits \in Seq(Row) /\ Len(commits) \in Nat
  BY LenProperties DEF IndInv, TypeOK
<1>1. ASSUME NEW s \in SiteIds, AppendsRow(SiteRow(s)), issued' = issued \cup {s},
             UNCHANGED answers
      PROVE  IndInv'
  <2>1. SiteRow(s) \in Row /\ SiteRow(s).table # "events"
    BY RowFacts
  <2>2. OneRowPerEvent' /\ SiteBeforeEvent'
    BY <1>1, <2>1, AppendInv DEF AppendsRow
  <2>3. commits' \in Seq(Row) /\ Len(commits') = Len(commits) + 1
    BY <1>0, <1>1, <2>1, AppendRow DEF AppendsRow
  <2>4. TypeOK'
    BY <1>0, <1>1, <2>3, BoundAssumption DEF TypeOK, AppendsRow
  <2>5. sites' = sites \cup {s} /\ events' = events
    BY <1>0, <1>1, AppendTables DEF AppendsRow, sites, events
  <2>6. SitesIssued' /\ AnswersHonest'
    BY <1>1, <2>5 DEF SitesIssued, AnswersHonest, AppendsRow, IndInv
  <2> QED BY <2>2, <2>4, <2>6 DEF IndInv
<1>2. ASSUME NEW e \in Event, AppendsRow(EventRow(e)), UNCHANGED issued,
             e.site \in sites, \A f \in events : f.id # e.id,
             answers' \in {answers, answers \cup {<<e, 202>>}}
      PROVE  IndInv'
  <2>1. EventRow(e) \in Row /\ EventRow(e).event = e
    BY RowFacts
  <2>2. OneRowPerEvent' /\ SiteBeforeEvent'
    BY <1>2, <2>1, AppendInv DEF AppendsRow
  <2>3. commits' \in Seq(Row) /\ Len(commits') = Len(commits) + 1
    BY <1>0, <1>2, <2>1, AppendRow DEF AppendsRow
  <2>4. TypeOK'
    BY <1>0, <1>2, <2>3, BoundAssumption DEF TypeOK, AppendsRow
  <2>5. sites' = sites /\ events' = events \cup {e}
    BY <1>0, <1>2, AppendTables DEF AppendsRow, sites, events
  <2>6. SitesIssued' /\ AnswersHonest'
    BY <1>2, <2>5 DEF SitesIssued, AnswersHonest, AppendsRow, IndInv
  <2> QED BY <2>2, <2>4, <2>6 DEF IndInv
<1>3. ASSUME NEW n \in checkpointed..Len(commits), commits' = SubSeq(commits, 1, n),
             forgotten' = forgotten \cup (events \ events'),
             crashes' \in 0..MaxCrashes, up' = FALSE,
             UNCHANGED <<checkpointed, answers, issued>>
      PROVE  IndInv'
  <2>1. n \in 0..Len(commits)
    BY <1>0 DEF TypeOK
  <2>2. OneRowPerEvent' /\ SiteBeforeEvent'
    BY <1>3, <2>1, CutInv
  <2>3. commits' \in Seq(Row) /\ Len(commits') = n
    BY <1>0, <1>3, <2>1, PrefixRows
  <2>4. events \subseteq Event
    BY DEF events, EventsIn
  <2>5. TypeOK'
    <3>1. checkpointed' \in 0..Len(commits') /\ Len(commits') <= MaxCommits
      BY <1>0, <1>3, <2>1, <2>3, BoundAssumption DEF TypeOK
    <3>2. forgotten' \subseteq Event /\ issued' \subseteq SiteIds
      BY <1>0, <1>3, <2>4 DEF TypeOK
    <3>3. answers' \subseteq Event \X {202, 409}
      BY <1>0, <1>3 DEF TypeOK
    <3> QED BY <1>3, <2>3, <3>1, <3>2, <3>3 DEF TypeOK
  <2>6. sites' \subseteq sites
    BY <1>0, <1>3, <2>1, PrefixTables DEF sites
  <2>7. SitesIssued' /\ AnswersHonest'
    BY <1>3, <2>6 DEF SitesIssued, AnswersHonest, IndInv
  <2> QED BY <2>2, <2>5, <2>7 DEF IndInv
<1>4. ASSUME UNCHANGED <<commits, forgotten>>,
             checkpointed' \in {checkpointed, Len(commits)},
             crashes' \in 0..MaxCrashes, up' \in BOOLEAN,
             issued \subseteq issued', issued' \subseteq SiteIds,
             \/ UNCHANGED answers
             \/ \E e \in Event : /\ answers' = answers \cup {<<e, 409>>}
                                /\ \E f \in events : f.id = e.id
      PROVE  IndInv'
  <2>1. sites' = sites /\ events' = events
    BY <1>4 DEF sites, events
  <2>2. TypeOK'
    BY <1>0, <1>4 DEF TypeOK
  <2>3. OneRowPerEvent' /\ SiteBeforeEvent'
    BY <1>4 DEF OneRowPerEvent, SiteBeforeEvent, IndInv
  <2>4. SitesIssued' /\ AnswersHonest'
    BY <1>4, <2>1 DEF SitesIssued, AnswersHonest, IndInv
  <2> QED BY <2>2, <2>3, <2>4 DEF IndInv
<1> QED BY <1>0, <1>1, <1>2, <1>3, <1>4, StepTypes

LEMMA Invariance == Spec => []IndInv
  BY InitInv, NextInv, PTL DEF Spec

\* Every variable keeps its type; in particular the checkpoint never runs past
\* the log.
THEOREM TypeCorrect == Spec => []TypeOK
  BY Invariance, PTL DEF IndInv

\* An event_id is stored at most once, for every schedule of deliveries,
\* retries, failures, crashes and power losses.
THEOREM CountedOnce == Spec => []OneRowPerEvent
  BY Invariance, PTL DEF IndInv

\* Every event row comes after its site's row, so every prefix of the log that
\* a power loss may leave is referentially intact.
THEOREM NoOrphans == Spec => []SiteBeforeEvent
  BY Invariance, PTL DEF IndInv

\* Both at once: ingestion is idempotent and no event lacks its site.
THEOREM Intact == Spec => []Integrity
  BY Invariance, PTL DEF IndInv, Integrity

LEMMA TablesConsistent == IndInv => Log!Consistent
<1> SUFFICES ASSUME IndInv PROVE Log!Consistent
  OBVIOUS
<1>1. ASSUME NEW e \in events
      PROVE  \E j \in DOMAIN commits :
               commits[j].table = "events" /\ commits[j].event = e /\ e \in Event
  BY RowFacts DEF events, EventsIn
<1>2. ASSUME NEW e \in events, NEW f \in events, e.id = f.id PROVE e = f
  BY <1>1, <1>2 DEF IndInv, OneRowPerEvent
<1>3. ASSUME NEW e \in events PROVE e.site \in sites
  <2>1. PICK j \in DOMAIN commits :
          commits[j].table = "events" /\ commits[j].event = e /\ e \in Event
    BY <1>1
  <2>2. PICK i \in 1..(j - 1) : commits[i] = SiteRow(e.site)
    BY <2>1 DEF IndInv, SiteBeforeEvent
  <2>3. commits \in Seq(Row) /\ DOMAIN commits = 1..Len(commits) /\ Len(commits) \in Nat
    BY LenProperties DEF IndInv, TypeOK
  <2>4. i \in DOMAIN commits /\ e.site \in SiteIds
    BY <2>1, <2>2, <2>3, RequestAssumption DEF Event
  <2> QED BY <2>2, <2>4 DEF sites, SitesIn
<1> QED BY <1>2, <1>3 DEF Log!Consistent

\* What readers of the tables may rely on: one event for an event_id and a site
\* for every event, the consistency that EventLog promises.
THEOREM Consistency == Spec => []Log!Consistent
  BY Invariance, TablesConsistent, PTL

\* 202 and 409 tell the client the truth about the table.
THEOREM Honest == Spec => []AnswersHonest
  BY Invariance, PTL DEF IndInv

\* What the database file holds is never taken back or reordered.
THEOREM CheckpointStays == Spec => CheckpointIsForever
<1> DEFINE Step == /\ checkpointed' >= checkpointed
                   /\ \A i \in 1..checkpointed :
                        i \in DOMAIN commits' /\ commits'[i] = commits[i]
<1>1. IndInv /\ [Next]_vars => [Step]_vars
  <2> SUFFICES ASSUME TypeOK, [Next]_vars PROVE Step
    BY DEF IndInv
  <2>1. /\ commits \in Seq(Row) /\ Len(commits) \in Nat
        /\ checkpointed \in 0..Len(commits)
    BY LenProperties DEF TypeOK
  <2>2. ASSUME NEW row \in Row, AppendsRow(row) PROVE Step
    BY <2>1, <2>2, AppendRow DEF AppendsRow
  <2>3. ASSUME NEW n \in checkpointed..Len(commits), commits' = SubSeq(commits, 1, n),
               UNCHANGED checkpointed
        PROVE  Step
    <3>1. n \in 0..Len(commits) /\ 1..checkpointed \subseteq 1..n
      BY <2>1
    <3> QED BY <2>1, <2>3, <3>1, PrefixRows
  <2>4. ASSUME UNCHANGED commits, checkpointed' \in {checkpointed, Len(commits)}
        PROVE  Step
    BY <2>1, <2>4
  <2> QED BY <2>2, <2>3, <2>4, StepTypes, RowFacts
<1> QED BY <1>1, Invariance, PTL DEF Spec, CheckpointIsForever

-----------------------------------------------------------------------------
(* Refinement.                                                             *)

\* The tables of the database file depend on its rows only.
LEMMA FileTables ==
  ASSUME TypeOK, commits' \in Seq(Row), Len(commits') >= checkpointed,
         \A i \in 1..checkpointed : commits'[i] = commits[i], UNCHANGED checkpointed
  PROVE  /\ SitesIn(DatabaseFile)' = SitesIn(DatabaseFile)
         /\ EventsIn(DatabaseFile)' = EventsIn(DatabaseFile)
<1>1. /\ checkpointed \in 0..Len(commits) /\ commits \in Seq(Row)
      /\ checkpointed \in 0..Len(commits')
  BY LenProperties DEF TypeOK
<1>2. /\ DOMAIN DatabaseFile = 1..checkpointed /\ DOMAIN DatabaseFile' = 1..checkpointed
      /\ \A i \in 1..checkpointed : DatabaseFile[i] = commits[i]
      /\ \A i \in 1..checkpointed : DatabaseFile'[i] = commits'[i]
  BY <1>1, PrefixRows DEF DatabaseFile
<1> QED BY <1>2 DEF SitesIn, EventsIn

LEMMA InitRefines == Init => Log!Init
<1> SUFFICES ASSUME Init PROVE Log!Init
  OBVIOUS
<1>1. commits = <<>> /\ checkpointed = 0
  BY DEF Init
<1>2. DatabaseFile = <<>>
  BY <1>1 DEF DatabaseFile
<1>3. SitesIn(<<>>) = {} /\ EventsIn(<<>>) = {}
  BY DEF SitesIn, EventsIn
<1> QED BY <1>1, <1>2, <1>3 DEF Log!Init, Log!Durable, sites, events

LEMMA StepRefines == IndInv /\ IndInv' /\ [Next]_vars => [Log!Next]_Log!vars
<1> SUFFICES ASSUME IndInv, IndInv', [Next]_vars PROVE [Log!Next]_Log!vars
  OBVIOUS
<1>0. /\ TypeOK /\ TypeOK' /\ commits \in Seq(Row) /\ Len(commits) \in Nat
      /\ checkpointed \in 0..Len(commits)
  BY LenProperties DEF IndInv, TypeOK
<1>1. ASSUME NEW s \in SiteIds, AppendsRow(SiteRow(s)), s \notin issued
      PROVE  Log!Register(s)
  <2>1. sites' = sites \cup {s} /\ events' = events
    BY <1>0, <1>1, AppendTables DEF AppendsRow, sites, events
  <2>2. s \notin sites
    BY <1>1 DEF IndInv, SitesIssued
  <2>3. UNCHANGED <<SitesIn(DatabaseFile), EventsIn(DatabaseFile)>>
    BY <1>0, <1>1, AppendRow, RowFacts, FileTables DEF AppendsRow
  <2> QED BY <2>1, <2>2, <2>3 DEF Log!Register
<1>2. ASSUME NEW e \in Event, AppendsRow(EventRow(e)), e.site \in sites,
             \A f \in events : f.id # e.id
      PROVE  Log!Accept(e)
  <2>1. sites' = sites /\ events' = events \cup {e}
    BY <1>0, <1>2, AppendTables DEF AppendsRow, sites, events
  <2>2. UNCHANGED <<SitesIn(DatabaseFile), EventsIn(DatabaseFile)>>
    BY <1>0, <1>2, AppendRow, RowFacts, FileTables DEF AppendsRow
  <2> QED BY <1>2, <2>1, <2>2 DEF Log!Accept
<1>3. ASSUME NEW n \in checkpointed..Len(commits), commits' = SubSeq(commits, 1, n),
             UNCHANGED checkpointed
      PROVE  Log!PowerLoss
  <2>1. n \in 0..Len(commits) /\ checkpointed \in 0..n
    BY <1>0
  <2>2. /\ commits' \in Seq(Row) /\ Len(commits') = n
        /\ \A i \in 1..n : commits'[i] = commits[i]
    BY <1>0, <1>3, <2>1, PrefixRows
  <2>3. UNCHANGED <<SitesIn(DatabaseFile), EventsIn(DatabaseFile)>>
    BY <1>0, <1>3, <2>1, <2>2, FileTables
  <2>4. /\ SitesIn(DatabaseFile) \subseteq sites' /\ sites' \subseteq sites
        /\ EventsIn(DatabaseFile) \subseteq events' /\ events' \subseteq events
    BY <1>0, <1>3, <2>1, PrefixTables DEF DatabaseFile, sites, events
  <2>5. \A e \in events' : e.site \in sites'
    <3> SUFFICES ASSUME NEW e \in events' PROVE e.site \in sites'
      OBVIOUS
    <3>1. PICK j \in DOMAIN commits' : commits'[j] = EventRow(e)
      BY DEF events, EventsIn
    <3>2. e \in Event /\ commits'[j].table = "events" /\ commits'[j].event = e
      BY <3>1, RowFacts DEF events, EventsIn
    <3>3. PICK i \in 1..(j - 1) : commits'[i] = SiteRow(e.site)
      BY <3>1, <3>2 DEF IndInv, SiteBeforeEvent
    <3>4. i \in DOMAIN commits'
      BY <2>1, <2>2, <3>1, <3>3, LenProperties
    <3>5. e.site \in SiteIds
      BY <3>2, RequestAssumption DEF Event
    <3> QED BY <3>3, <3>4, <3>5 DEF sites, SitesIn
  <2> QED BY <2>3, <2>4, <2>5 DEF Log!PowerLoss
<1>4. ASSUME UNCHANGED commits, checkpointed' \in {checkpointed, Len(commits)}
      PROVE  Log!Harden \/ UNCHANGED Log!vars
  <2>1. UNCHANGED <<sites, events>>
    BY <1>4 DEF sites, events
  <2>2. CASE UNCHANGED checkpointed
    BY <1>4, <2>1, <2>2 DEF Log!vars, DatabaseFile
  <2>3. CASE checkpointed' = Len(commits)
    <3>1. DatabaseFile' = SubSeq(commits, 1, Len(commits))
      BY <1>4, <2>3 DEF DatabaseFile
    <3>2. SubSeq(commits, 1, Len(commits)) = commits
      BY <1>0, SubSeqFull
    <3> QED BY <2>1, <3>1, <3>2 DEF Log!Harden, Log!Durable, sites, events
  <2> QED BY <1>4, <2>2, <2>3
<1>5. Event \subseteq Requests
  BY DEF Event
<1> QED BY <1>0, <1>1, <1>2, <1>3, <1>4, <1>5, StepTypes DEF Log!Next, AppendsRow

\* The store, with its log, checkpoints, crashes and refusals, behaves like the
\* abstract event log.
THEOREM Implements == Spec => ImplementsEventLog
  BY Invariance, InitRefines, StepRefines, PTL DEF Spec, ImplementsEventLog, Log!Spec
=============================================================================
