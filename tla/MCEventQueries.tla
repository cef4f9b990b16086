---------------------------- MODULE MCEventQueries ----------------------------
(***************************************************************************)
(* EventQueries with the events that the clients of this repository send,  *)
(* with the deltas they inline: honeypot -80, failed logins -60 and API    *)
(* rate -40 (PHP packages), behavioural telemetry and canary 0 (agent);    *)
(* and one of some other client, whose delta lifts the score, as the API   *)
(* accepts it.                                                             *)
(***************************************************************************)
EXTENDS EventQueries

CONSTANTS site1, site2, alice, bob

Browser(type, delta, times) ==
  {[site |-> site1, session |-> alice, type |-> type, delta |-> delta,
    instant |-> t, millis |-> TRUE] : t \in times}

Server(site, session, type, delta) ==
  {[site |-> site, session |-> session, type |-> type, delta |-> delta,
    instant |-> t, millis |-> FALSE] : t \in {4, 6}}

MCRows ==
  Browser("honeypot_triggered", -80, {4, 5, 7}) \cup Browser("behavioral_score", 0, {5})
    \cup Server(site1, alice, "rate_limit_exceeded", -40)
    \cup Server(site1, bob, "rate_limit_exceeded", -60)
    \cup Server(site2, bob, "honeypot_triggered", -80)
    \cup Browser("attestation_failed", 60, {5})
=============================================================================
