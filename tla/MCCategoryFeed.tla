---------------------------- MODULE MCCategoryFeed ----------------------------
(* Small instances of CategoryFeed for TLC; the configurations give the bounds. *)
EXTENDS CategoryFeed
=============================================================================
