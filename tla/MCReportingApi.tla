---------------------------- MODULE MCReportingApi ----------------------------
(***************************************************************************)
(* ReportingApi with five requests: a beacon, the same event_id with       *)
(* another body and with another site, an independent event and a body     *)
(* that eventSchema rejects.                                               *)
(***************************************************************************)
EXTENDS ReportingApi

CONSTANTS s1, s2, e1, e2, p1, p2

MCRequests ==
  {[id |-> e1, site |-> s1, payload |-> p1],
   [id |-> e1, site |-> s1, payload |-> p2],
   [id |-> e1, site |-> s2, payload |-> p1],
   [id |-> e2, site |-> s1, payload |-> p1],
   [id |-> e2, site |-> s1, payload |-> Malformed]}
=============================================================================
