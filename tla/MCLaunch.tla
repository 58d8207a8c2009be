------------------------------- MODULE MCLaunch -------------------------------
(* Small instances of Launch for TLC; the configurations give the bounds.    *)
EXTENDS Launch, TLC

CONSTANTS c1, c2

\* One device is launched again, the other is there to interfere.
Twice == c1 :> 2 @@ c2 :> 1
=============================================================================
