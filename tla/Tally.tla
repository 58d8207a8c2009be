-------------------------------- MODULE Tally --------------------------------
(***************************************************************************)
(* What the counters of the wallpapers are to who reads them: from some    *)
(* point on a counter can be relied upon, and from then on it only counts, *)
(* one view or download at a time.                                         *)
(*                                                                         *)
(* Launch implements this specification.                                   *)
(***************************************************************************)
EXTENDS Naturals

CONSTANT Counters

VARIABLES settled,  \* the counters to be relied upon
          value     \* what they say

vars == <<settled, value>>

Init ==
    /\ settled \in SUBSET Counters
    /\ value = [p \in Counters |-> 0]

\* Counters come to be relied upon, whatever they say by then; the others stay.
Settle ==
    /\ settled \subseteq settled' /\ settled' \subseteq Counters
    /\ value' \in [Counters -> Nat]
    /\ \A p \in settled : value'[p] = value[p]

Count(p) ==
    /\ p \in settled
    /\ value' = [value EXCEPT ![p] = @ + 1]
    /\ UNCHANGED settled

Next ==
    \/ Settle
    \/ \E p \in Counters : Count(p)

Spec == Init /\ [][Next]_vars
=============================================================================
