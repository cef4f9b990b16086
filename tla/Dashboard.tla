------------------------------ MODULE Dashboard ------------------------------
(***************************************************************************)
(* services/reporting/dashboard, App.tsx and lib/api.ts: one open page over*)
(* the reporting API, which is the abstract EventLog here (ReportingApi    *)
(* implements it).  Every fetch is three steps: the page sends it, the     *)
(* server handles it, the answer arrives; other callbacks, other clients   *)
(* and events come in between, and answers overtake each other.            *)
(*                                                                         *)
(* An async function of the page that waits for fetches is a call; the     *)
(* effect that loads the selected site is a load.  What a query over the   *)
(* events of a site returns is the set of events that it saw.  React       *)
(* renders and runs effects some time after the state was set.             *)
(*                                                                         *)
(* The form, which the visitor may open, fill and submit at any time, and  *)
(* all that is only layout are left out.                                   *)
(***************************************************************************)
EXTENDS Naturals

CONSTANTS
  SiteIds,   \* uuids in the order in which they are drawn: 1..n
  Requests,  \* events that clients send, with the fields id and site
  None,      \* null
  Mounts,    \* list calls of the mount: 1, or 2 in development (StrictMode)
  MaxCalls,  \* bound: calls of the page, those of the mount included
  MaxLoads,  \* bound: loads
  MayLose    \* TRUE when the server's machine may lose power

ASSUME DashboardAssumption ==
  /\ SiteIds \subseteq Nat
  /\ \A r \in Requests : r.site \in SiteIds
  /\ None \notin SiteIds /\ \A R \in SUBSET Requests : R # None
  /\ {Mounts, MaxCalls, MaxLoads} \subseteq Nat
  /\ Mounts <= MaxCalls
  /\ MayLose \in BOOLEAN

VARIABLES
  sites, events, durable,  \* the server: EventLog
  issued,    \* site_ids drawn by the server so far
  call,      \* the calls of refreshSites and handleRegister
  load,      \* the loads, the k-th being that of the k-th run of the effect
  shown,     \* sites: the site picker
  selected,  \* selectedSiteId
  ticked,    \* refreshTick has changed since the effect ran
  ran,       \* the site for which the effect ran last
  effects,   \* how often it ran
  summary,   \* summary: the site and the events of the panels
  rows,      \* events: those of the table
  loading, error,
  asOf,      \* history: events of the site when the effect ran last
  lenient    \* history: a list call failed, a list shrank or power was lost

server == <<sites, events, durable, issued>>
page   == <<shown, selected, ticked, ran, effects, summary, rows, loading, error>>
vars   == <<server, call, load, page, asOf, lenient>>

Log == INSTANCE EventLog

Calls == 1..MaxCalls
Loads == 1..MaxLoads

\* picked: selectedSiteId was not null in the render that the call closes over.
Call(at, picked, site, answer) == [at |-> at, picked |-> picked, site |-> site, answer |-> answer]
Unsent == Call("unsent", FALSE, None, {})
Done   == Call("done", FALSE, None, {})

NoLoad == [site |-> None, summary |-> None, rows |-> None]

EventsOf(s) == {e \in events : e.site = s}

Init ==
  /\ Log!Init
  /\ issued = 0
  /\ call = [c \in Calls |-> IF c <= Mounts THEN Call("list", FALSE, None, {}) ELSE Unsent]
  /\ load = [k \in Loads |-> NoLoad]
  /\ shown = {} /\ selected = None
  /\ ticked = FALSE /\ ran = None /\ effects = 0
  /\ summary = NoLoad /\ rows = NoLoad
  /\ loading = FALSE /\ error = FALSE
  /\ asOf = {} /\ lenient = FALSE

-----------------------------------------------------------------------------
(***************************************************************************)
(* The server, and its other clients.                                      *)
(***************************************************************************)
Register(s) == s = issued + 1 /\ issued' = s /\ Log!Register(s)

\* Another dashboard registers a site, an agent reports an event.
Others ==
  /\ \/ \E s \in SiteIds : Register(s)
     \/ \E r \in Requests : Log!Accept(r) /\ UNCHANGED issued
     \/ MayLose /\ Log!Harden /\ UNCHANGED issued
  /\ UNCHANGED <<call, load, page, asOf, lenient>>

PowerLoss ==
  /\ MayLose
  /\ \E S \in SUBSET sites, E \in SUBSET events : sites' = S /\ events' = E /\ Log!PowerLoss
  /\ asOf' = asOf \cap events'
  /\ lenient' = TRUE
  /\ UNCHANGED <<issued, call, load, page>>

\* POST /sites for call c.
ServerRegisters(c) ==
  /\ call[c].at = "post"
  /\ \E s \in SiteIds :
       /\ Register(s)
       /\ call' = [call EXCEPT ![c].at = "posted", ![c].site = s]
  /\ UNCHANGED <<load, page, asOf, lenient>>

\* GET /sites for call c.
ServerLists(c) ==
  /\ call[c].at = "list"
  /\ call' = [call EXCEPT ![c].at = "listed", ![c].answer = sites]
  /\ UNCHANGED <<server, load, page, asOf, lenient>>

\* GET /sites/:site_id/summary and GET /sites/:site_id/events for load k; 404
\* when the site is not there.
ServerReads(k) ==
  /\ load[k].site \in sites
  /\ \/ /\ load[k].summary = None
        /\ load' = [load EXCEPT ![k].summary = EventsOf(load[k].site)]
     \/ /\ load[k].rows = None
        /\ load' = [load EXCEPT ![k].rows = EventsOf(load[k].site)]
  /\ UNCHANGED <<server, call, page, asOf, lenient>>

-----------------------------------------------------------------------------
\* Defect: the site is shown before the server has given it an id.
SubmitOptimistically(c) ==
  /\ call[c].at = "unsent" /\ \A d \in 1..(c - 1) : call[d].at # "unsent"
  /\ call' = [call EXCEPT ![c] = Call("post", selected # None, None, {})]
  /\ shown' = shown \cup {issued + 1}
  /\ UNCHANGED <<server, load, selected, ticked, ran, effects, summary, rows, loading, error,
                 asOf, lenient>>

\* handleRegister: the form is submitted, with a name that is not blank.
Submit(c) ==
  /\ call[c].at = "unsent" /\ \A d \in 1..(c - 1) : call[d].at # "unsent"
  /\ call' = [call EXCEPT ![c] = Call("post", selected # None, None, {})]
  /\ UNCHANGED <<server, load, page, asOf, lenient>>

\* Defect: the list is not loaded anew.
RegisteredUnlisted(c) ==
  /\ call[c].at = "posted"
  /\ call' = [call EXCEPT ![c] = Done]
  /\ selected' = call[c].site
  /\ UNCHANGED <<server, load, shown, ticked, ran, effects, summary, rows, loading, error,
                 asOf, lenient>>

\* 201: the list is asked for (and the install snippet shown).
Registered(c) ==
  /\ call[c].at = "posted"
  /\ call' = [call EXCEPT ![c].at = "list"]
  /\ UNCHANGED <<server, load, page, asOf, lenient>>

\* Any other answer, or none; the site may be there all the same.
RegisterFails(c) ==
  /\ call[c].at \in {"post", "posted"}
  /\ call' = [call EXCEPT ![c] = Done]
  /\ error' = TRUE
  /\ UNCHANGED <<server, load, shown, selected, ticked, ran, effects, summary, rows, loading, asOf, lenient>>

\* The list is most recent first.
IsFirst(s, S) == s \in S /\ \A t \in S : t <= s

\* refreshSites, and what handleRegister does after it.  An answer without a
\* site that is shown was overtaken by a later one, or the site was lost.
SitesListed(c) ==
  LET fetched == call[c].answer
  IN  /\ call[c].at = "listed"
      /\ call' = [call EXCEPT ![c] = Done]
      /\ shown' = fetched
      /\ \/ call[c].site # None /\ selected' = call[c].site
         \/ /\ call[c].site = None /\ fetched # {} /\ ~call[c].picked
            /\ \E s \in SiteIds : IsFirst(s, fetched) /\ selected' = s
         \/ /\ call[c].site = None /\ (fetched = {} \/ call[c].picked)
            /\ UNCHANGED selected
      /\ lenient' = (lenient \/ ~(shown \subseteq fetched))
      /\ UNCHANGED <<server, load, ticked, ran, effects, summary, rows, loading, error,
                     asOf>>

\* refreshSites catches the failure, and handleRegister goes on.
ListFails(c) ==
  /\ call[c].at \in {"list", "listed"}
  /\ call' = [call EXCEPT ![c] = Done]
  /\ error' = TRUE
  /\ selected' = IF call[c].site # None THEN call[c].site ELSE selected
  /\ lenient' = TRUE
  /\ UNCHANGED <<server, load, shown, ticked, ran, effects, summary, rows, loading, asOf>>

-----------------------------------------------------------------------------
\* A pill of SiteSelector.
Select(s) ==
  /\ s \in shown
  /\ selected' = s
  /\ UNCHANGED <<server, call, load, shown, ticked, ran, effects, summary, rows, loading, error, asOf, lenient>>

\* The Refresh button, disabled while loading.
Refresh ==
  /\ selected # None /\ ~loading
  /\ ticked' = TRUE
  /\ UNCHANGED <<server, call, load, shown, selected, ran, effects, summary, rows, loading, error, asOf, lenient>>

\* The dependencies of the effect have changed and it has not run yet.
Pending == selected # None /\ (ticked \/ selected # ran)

\* Cleanup of the last run, which cancels its load, and the next run.
Effect ==
  /\ Pending /\ effects < MaxLoads
  /\ effects' = effects + 1
  /\ ran' = selected /\ ticked' = FALSE
  /\ load' = [load EXCEPT ![effects + 1].site = selected]
  /\ loading' = TRUE /\ error' = FALSE
  /\ asOf' = EventsOf(selected)
  /\ UNCHANGED <<server, call, shown, selected, summary, rows, lenient>>

\* Defect: the effect has no cleanup.
NeverCancelled(k) == FALSE

\* The cancelled flag of the k-th run.
Cancelled(k) == k # effects

\* Defect: the flag is not looked at.
FinallyAlways(k) == loading' = FALSE

\* finally: the load is over.
Finally(k) == loading' = (Cancelled(k) /\ loading)

\* Promise.all has both answers.
Loaded(k) ==
  /\ load[k].site # None /\ load[k].summary # None /\ load[k].rows # None
  /\ load' = [load EXCEPT ![k] = NoLoad]
  /\ IF Cancelled(k) THEN UNCHANGED <<summary, rows>>
                     ELSE summary' = load[k] /\ rows' = load[k]
  /\ Finally(k)
  /\ UNCHANGED <<server, call, shown, selected, ticked, ran, effects, error, asOf, lenient>>

\* ... or one has failed; the other is not looked at any more.
LoadFails(k) ==
  /\ load[k].site # None
  /\ load' = [load EXCEPT ![k] = NoLoad]
  /\ error' = (error \/ ~Cancelled(k))
  /\ Finally(k)
  /\ UNCHANGED <<server, call, shown, selected, ticked, ran, effects, summary, rows, asOf,
                 lenient>>

Server  == PowerLoss \/ (\E c \in Calls : ServerRegisters(c) \/ ServerLists(c))
                     \/ (\E k \in Loads : ServerReads(k))
Answers == \/ \E c \in Calls : Registered(c) \/ RegisterFails(c) \/ SitesListed(c) \/ ListFails(c)
           \/ \E k \in Loads : Loaded(k) \/ LoadFails(k)
Viewer  == (\E c \in Calls : Submit(c)) \/ (\E s \in SiteIds : Select(s)) \/ Refresh

Next == Others \/ Server \/ Answers \/ Viewer \/ Effect

Spec == Init /\ [][Next]_vars

-----------------------------------------------------------------------------
Answer == {None} \cup SUBSET Requests
Load   == [site : SiteIds \cup {None}, summary : Answer, rows : Answer]

\* The site_ids that the server has drawn.
Drawn == SiteIds \cap 1..issued

ServerTypes ==
  /\ issued \in Nat
  /\ sites \subseteq Drawn
  /\ events \subseteq Requests

CallTypes ==
  call \in [Calls -> [at : {"unsent", "post", "posted", "list", "listed", "done"},
                      picked : BOOLEAN, site : SiteIds \cup {None}, answer : SUBSET Drawn]]

LoadTypes ==
  /\ load \in [Loads -> Load]
  /\ effects \in 0..MaxLoads
  /\ ran \in SiteIds \cup {None}
  /\ asOf \subseteq Requests

PageTypes ==
  /\ shown \subseteq Drawn
  /\ selected \in SiteIds \cup {None}
  /\ summary \in Load /\ rows \in Load
  /\ ticked \in BOOLEAN /\ loading \in BOOLEAN /\ error \in BOOLEAN /\ lenient \in BOOLEAN

TypeOK == ServerTypes /\ CallTypes /\ LoadTypes /\ PageTypes

\* When nothing is loading and no error is shown, panels and table are those of
\* the selected site, and they have every event that was stored when the site
\* was selected or refreshed: whatever was clicked before, however late the
\* answers for other sites and earlier loads arrive.
ShownIsCurrent ==
  ~Pending /\ ~loading /\ ~error /\ selected # None =>
    /\ summary.site = selected /\ rows.site = selected
    /\ asOf \subseteq summary.summary /\ asOf \subseteq rows.rows

\* The page says that it loads exactly while the load of the last effect is on
\* its way: an answer for an earlier one neither ends the spinner nor leaves it
\* (and the Refresh button disabled) for good.
SpinnerHasALoad ==
  loading <=> \E k \in Loads : load[k].site # None /\ ~Cancelled(k)

\* The site that is selected is in the picker, be it chosen, picked on arrival or
\* just registered: unless a list failed, came after a later one or the server
\* lost the site.
SelectedIsListed == ~lenient => {selected} \ {None} \subseteq shown
=============================================================================
