----------------------------- MODULE ReportingApi -----------------------------
(***************************************************************************)
(* Ingestion by the reporting API (services/reporting/api): POST /sites,   *)
(* POST /events and the SQLite store under them, in WAL mode with          *)
(* synchronous=NORMAL.  The store is the sequence of its transactions; the *)
(* first checkpointed of them are in the database file, the others only in *)
(* the write-ahead log, which is not synced before a checkpoint.           *)
(*                                                                         *)
(* Express handlers run one at a time and these two never await, so each   *)
(* is one action.  Requests come from agents and middlewares over the      *)
(* network, which may lose, delay, reorder and duplicate them: any request *)
(* may arrive at any time, any number of times.  Its answer may be lost.   *)
(***************************************************************************)
EXTENDS Naturals, Sequences

CONSTANTS
  SiteIds,      \* uuids of sites, registered or not
  EventIds,     \* event_ids
  Payloads,     \* the other columns of an event
  Malformed,    \* a body that eventSchema rejects
  Requests,     \* the POST /events requests that clients make
  MaxCommits,   \* bound: transactions over the life of the store
  MaxCrashes    \* bound: stops of the process

ASSUME RequestAssumption ==
  /\ Malformed \notin Payloads
  /\ Requests \subseteq [id : EventIds, site : SiteIds,
                        payload : Payloads \cup {Malformed}]
ASSUME BoundAssumption == MaxCommits \in Nat /\ MaxCrashes \in Nat

\* The requests that eventSchema accepts.
Event == {r \in Requests : r.payload # Malformed}

VARIABLES
  commits,       \* transactions of the store, in commit order
  checkpointed,  \* how many of them are in the database file
  up,            \* the process runs and has the database open
  answers,       \* history: <<event, status>> that clients were told, 202 or 409
  issued,        \* history: site_ids drawn by randomUUID so far
  forgotten,     \* history: event requests a power loss took back
  crashes        \* stops so far

vars == <<commits, checkpointed, up, answers, issued, forgotten, crashes>>

\* A transaction inserts one row of sites or one row of events.
SiteRow(s)  == [table |-> "sites", site |-> s]
EventRow(e) == [table |-> "events", event |-> e]
Row == [table : {"sites"}, site : SiteIds]
         \cup [table : {"events"}, event : Event]

SitesIn(rows)  == {s \in SiteIds : \E i \in DOMAIN rows : rows[i] = SiteRow(s)}
EventsIn(rows) == {e \in Event : \E i \in DOMAIN rows : rows[i] = EventRow(e)}

sites  == SitesIn(commits)
events == EventsIn(commits)

\* The database file alone, without its -wal sidecar.
DatabaseFile == SubSeq(commits, 1, checkpointed)

Init ==
  /\ commits = <<>>
  /\ checkpointed = 0
  /\ up = TRUE
  /\ answers = {}
  /\ issued = {}
  /\ forgotten = {}
  /\ crashes = 0

-----------------------------------------------------------------------------
\* The client is told the status, or its connection is gone.
Answer(r, status) ==
  \/ answers' = answers \cup {<<r, status>>}
  \/ UNCHANGED answers

Commit(row) ==
  /\ Len(commits) < MaxCommits
  /\ commits' = Append(commits, row)

\* POST /api/v1/sites.  An insert that fails leaves nothing but a used uuid.
RegisterSite(s) ==
  /\ up
  /\ s \notin issued
  /\ issued' = issued \cup {s}
  /\ Commit(SiteRow(s)) \/ UNCHANGED commits
  /\ UNCHANGED <<checkpointed, up, answers, forgotten, crashes>>

\* Defect: the site is not looked up before the insert (and no foreign key).
InsertWithoutLookup(r) ==
  r.payload # Malformed /\ (\A e \in events : e.id # r.id)
    /\ Commit(EventRow(r)) /\ Answer(r, 202)

\* Defect: event_id is not a primary key.
InsertAgain(r) ==
  r.payload # Malformed /\ r.site \in sites /\ Commit(EventRow(r)) /\ Answer(r, 202)

\* Defect: 202 is sent although the insert may fail.
InsertOrNot(r) ==
  /\ r.payload # Malformed
  /\ r.site \in sites
  /\ \A e \in events : e.id # r.id
  /\ Commit(EventRow(r)) \/ UNCHANGED commits
  /\ Answer(r, 202)

\* The event_id is new: insert, 202.
InsertEvent(r) ==
  /\ r.payload # Malformed
  /\ r.site \in sites
  /\ \A e \in events : e.id # r.id
  /\ Commit(EventRow(r))
  /\ Answer(r, 202)

\* UNIQUE constraint failed: 409.
RefuseDuplicate(r) ==
  /\ r.payload # Malformed
  /\ r.site \in sites
  /\ \E e \in events : e.id = r.id
  /\ Answer(r, 409)
  /\ UNCHANGED commits

\* 400 invalid_event, and 404 unknown_site.
RejectEvent(r) ==
  /\ r.payload = Malformed \/ r.site \notin sites
  /\ UNCHANGED <<commits, answers>>

\* 500: SQLite fails, in the lookup (Express's error handler answers) or in the
\* insert (insert_failed).  Nothing is stored.
StoreFails(r) ==
  /\ r.payload # Malformed
  /\ UNCHANGED <<commits, answers>>

\* POST /api/v1/events.
PostEvent(r) ==
  /\ up
  /\ InsertEvent(r) \/ RefuseDuplicate(r) \/ RejectEvent(r) \/ StoreFails(r)
  /\ UNCHANGED <<checkpointed, up, issued, forgotten, crashes>>

-----------------------------------------------------------------------------
\* SQLite's automatic checkpoint (every 1000 pages of log).
Checkpoint ==
  /\ up
  /\ checkpointed' = Len(commits)
  /\ UNCHANGED <<commits, up, answers, issued, forgotten, crashes>>

\* SIGTERM: server.close, then db.close, which checkpoints the whole log.
Shutdown ==
  /\ up /\ crashes < MaxCrashes
  /\ up' = FALSE
  /\ checkpointed' = Len(commits)
  /\ crashes' = crashes + 1
  /\ UNCHANGED <<commits, answers, issued, forgotten>>

\* The process is killed: the log is in the page cache and survives it.
ProcessCrash ==
  /\ up /\ crashes < MaxCrashes
  /\ up' = FALSE
  /\ crashes' = crashes + 1
  /\ UNCHANGED <<commits, checkpointed, answers, issued, forgotten>>

\* Defect: nothing is synced, not even at a checkpoint (synchronous=OFF).
OsCrashUnsynced(n) ==
  /\ up /\ crashes < MaxCrashes
  /\ n \in 0..Len(commits)
  /\ up' = FALSE
  /\ commits' = SubSeq(commits, 1, n)
  /\ forgotten' = forgotten \cup (events \ EventsIn(commits'))
  /\ crashes' = crashes + 1
  /\ UNCHANGED <<checkpointed, answers, issued>>

\* The machine loses power: recovery keeps a valid prefix of the log.
OsCrash(n) ==
  /\ up /\ crashes < MaxCrashes
  /\ n \in checkpointed..Len(commits)
  /\ up' = FALSE
  /\ commits' = SubSeq(commits, 1, n)
  /\ forgotten' = forgotten \cup (events \ EventsIn(commits'))
  /\ crashes' = crashes + 1
  /\ UNCHANGED <<checkpointed, answers, issued>>

\* openDatabase: CREATE TABLE IF NOT EXISTS finds the tables as they are.
Restart ==
  /\ ~up
  /\ up' = TRUE
  /\ UNCHANGED <<commits, checkpointed, answers, issued, forgotten, crashes>>

Handle == (\E s \in SiteIds : RegisterSite(s)) \/ (\E r \in Requests : PostEvent(r))

Stop == Shutdown \/ ProcessCrash \/ (\E n \in 0..MaxCommits : OsCrash(n))

Next == Handle \/ Checkpoint \/ Stop \/ Restart

Spec == Init /\ [][Next]_vars

-----------------------------------------------------------------------------
TypeOK ==
  /\ commits \in Seq(Row)
  /\ Len(commits) <= MaxCommits
  /\ checkpointed \in 0..Len(commits)
  /\ up \in BOOLEAN
  /\ answers \subseteq Event \X {202, 409}
  /\ issued \subseteq SiteIds
  /\ forgotten \subseteq Event
  /\ crashes \in 0..MaxCrashes

\* The 409 that makes a retry safe (docs/api-reference.md:150): an event_id is
\* in the table at most once, whatever was duplicated, reordered, crashed or lost.
OneRowPerEvent ==
  \A i, j \in DOMAIN commits :
    /\ commits[i].table = "events"
    /\ commits[j].table = "events"
    /\ commits[i].event.id = commits[j].event.id
    => i = j

\* An event row comes after the row of its site, so that no prefix of the log
\* that a crash leaves can hold an event of an unknown site.
SiteBeforeEvent ==
  \A j \in DOMAIN commits : commits[j].table = "events" =>
    \E i \in 1..(j - 1) : commits[i] = SiteRow(commits[j].event.site)

\* Ingestion is idempotent and referentially intact: both hold of the log and of
\* every prefix of it, which is all that a crash may leave.
Integrity == OneRowPerEvent /\ SiteBeforeEvent

\* A 202 means this very event was stored, a 409 that one with its id was; only
\* a power loss takes it back.
AnswersHonest ==
  \A a \in answers :
    /\ a[2] = 202 => a[1] \in events \cup forgotten
    /\ a[2] = 409 => \E e \in events \cup forgotten : e.id = a[1].id

\* Once in the database file a transaction stays there for good, at its place.
CheckpointIsForever ==
  [][/\ checkpointed' >= checkpointed
     /\ \A i \in 1..checkpointed : i \in DOMAIN commits' /\ commits'[i] = commits[i]]_vars

Log == INSTANCE EventLog WITH
  durable  <- [sites |-> SitesIn(DatabaseFile), events |-> EventsIn(DatabaseFile)]

\* The store implements the abstract event log.
ImplementsEventLog == Log!Spec

-----------------------------------------------------------------------------
\* A comment of the source that a run refutes.

\* db/index.ts:103: "Loses at most the last transaction on OS crash".
LosesAtMostLastTransaction == [][Len(commits') >= Len(commits) - 1]_commits
=============================================================================
