---------------------------- MODULE MCPexelsFeed ----------------------------
(* Small instances of PexelsFeed for TLC; the configurations give the bounds. *)
EXTENDS PexelsFeed
=============================================================================
