------------------------------ MODULE CacheBox ------------------------------
(***************************************************************************)
(* What a list cached by CacheService is to whoever opens it: nothing, or  *)
(* one complete answer of the source, with an age.  An answer comes and    *)
(* goes as a whole, though the code writes it entry by entry and may be    *)
(* cut short by a failing operation or a kill at any of them.              *)
(*                                                                         *)
(* FirestoreFeed and PexelsFeed implement this specification.              *)
(***************************************************************************)
CONSTANT Answers     \* the complete answers of the source

VARIABLES content,   \* {a} for an answer a that is served, or {}
          age        \* "none" without an answer, else "fresh" or "old"

Init ==
    /\ content = {}
    /\ age = "none"

\* A complete answer is in.
Store ==
    /\ content = {}
    /\ \E a \in Answers : content' = {a}
    /\ age' = "fresh"

\* The answer goes, to make room for the next.
Discard ==
    /\ content # {}
    /\ content' = {}
    /\ age' = "none"

\* An hour passes.
Expire ==
    /\ age = "fresh"
    /\ age' = "old"
    /\ UNCHANGED content

Next == Store \/ Discard \/ Expire

Spec == Init /\ [][Next]_<<content, age>>
=============================================================================
