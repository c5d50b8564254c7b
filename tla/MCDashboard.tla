---------------------------- MODULE MCDashboard ----------------------------
(* The query cache under every screen of the dashboard. *)
EXTENDS QueryCache, Dashboard
=============================================================================
