----------------------------- MODULE MCSession -----------------------------
(* One tab of a super admin, with one query of a page beside the other flows. *)
EXTENDS Session
=============================================================================
