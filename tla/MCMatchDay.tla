------------------------------ MODULE MCMatchDay ------------------------------
(* A semifinal, the slot it feeds and the board beside its pitch. *)
EXTENDS MatchDay
=============================================================================
