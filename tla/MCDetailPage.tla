---------------------------- MODULE MCDetailPage ----------------------------
(* Small instances of DetailPage for TLC; the configurations give the bounds. *)
EXTENDS DetailPage
=============================================================================
