------------------------------ MODULE EventLog ------------------------------
(***************************************************************************)
(* What the reporting API promises about ingestion, with no HTTP, tables   *)
(* or write-ahead log: a growing set of sites and a growing set of events, *)
(* one event per event_id, every event of a known site.  A power loss may  *)
(* take back what is not yet durable, but never half of it: an event does  *)
(* not outlive its site.                                                   *)
(***************************************************************************)
CONSTANTS SiteIds, Requests

VARIABLES
  sites,    \* registered sites
  events,   \* accepted requests, records with at least the fields id and site
  durable   \* the sites and the events that survive a power loss

vars == <<sites, events, durable>>

Durable(S, E) == [sites |-> S, events |-> E]

Init ==
  /\ sites = {}
  /\ events = {}
  /\ durable = Durable({}, {})

Register(s) ==
  /\ s \notin sites
  /\ sites' = sites \cup {s}
  /\ UNCHANGED <<events, durable>>

Accept(r) ==
  /\ r.site \in sites
  /\ \A e \in events : e.id # r.id
  /\ events' = events \cup {r}
  /\ UNCHANGED <<sites, durable>>

Harden ==
  /\ durable' = Durable(sites, events)
  /\ UNCHANGED <<sites, events>>

PowerLoss ==
  /\ durable.sites \subseteq sites' /\ sites' \subseteq sites
  /\ durable.events \subseteq events' /\ events' \subseteq events
  /\ \A e \in events' : e.site \in sites'
  /\ UNCHANGED durable

Next ==
  \/ \E s \in SiteIds : Register(s)
  \/ \E r \in Requests : Accept(r)
  \/ Harden
  \/ PowerLoss

Spec == Init /\ [][Next]_vars

-----------------------------------------------------------------------------
\* At most one event is ever counted for an event_id, and no event lacks its site.
Consistent ==
  /\ \A e, f \in events : e.id = f.id => e = f
  /\ \A e \in events : e.site \in sites
=============================================================================
