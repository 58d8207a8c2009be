------------------------------ MODULE MCAdPool ------------------------------
(* Small instances of AdPool for TLC; the configuration gives the bounds. *)
EXTENDS AdPool
=============================================================================
