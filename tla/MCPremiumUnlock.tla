--------------------------- MODULE MCPremiumUnlock ---------------------------
(* Small instances of PremiumUnlock for TLC; the configurations give the bounds. *)
EXTENDS PremiumUnlock
=============================================================================
