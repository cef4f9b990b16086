----------------------------- MODULE MCDashboard -----------------------------
(***************************************************************************)
(* Dashboard with two sites and an event of the first.                     *)
(***************************************************************************)
EXTENDS Dashboard

MCRequests == {[id |-> 1, site |-> 1]}
=============================================================================
