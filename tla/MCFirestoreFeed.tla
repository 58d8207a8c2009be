--------------------------- MODULE MCFirestoreFeed ---------------------------
(* Small instances of FirestoreFeed for TLC. *)
EXTENDS FirestoreFeed

CONSTANTS w1, w2

\* A document is withdrawn between the two revisions, so that a box written by
\* two calls can hold a mixture.
MCCatalogue == [r \in Revisions |-> IF r = 0 THEN {w1, w2} ELSE {w2}]
=============================================================================
