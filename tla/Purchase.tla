------------------------------- MODULE Purchase -------------------------------
(***************************************************************************)
(* What the sale of wallpapers is to a buyer: a payment is credited to one *)
(* wallpaper, which is the buyer's from then on; a kill may take it back   *)
(* as long as the buyer has not been told, and never afterwards.           *)
(*                                                                         *)
(* PremiumUnlock implements this specification, and so does DetailPage,    *)
(* which has of the sale only what the page sees of it.                    *)
(***************************************************************************)
CONSTANTS Wallpapers, Payments

VARIABLES credited,   \* the pairs of a payment and the wallpaper it bought
          owned,      \* the wallpapers the app takes for unlocked
          kept,       \* those that a kill does not take back
          told        \* the payments whose buyer was told

Init ==
    /\ credited = {}
    /\ owned = {}
    /\ kept = {}
    /\ told = {}

\* A payment counts once, and nothing is unlocked without one.
Credit(p, w) ==
    /\ \A v \in Wallpapers : <<p, v>> \notin credited
    /\ credited' = credited \cup {<<p, w>>}
    /\ owned' = owned \cup {w}
    /\ UNCHANGED <<kept, told>>

\* The unlocking of w reaches the disk.
Keep(w) ==
    /\ w \in owned
    /\ kept' = kept \cup {w}
    /\ UNCHANGED <<credited, owned, told>>

\* The buyer is told: at the latest now it has.
Tell(p, w) ==
    /\ <<p, w>> \in credited
    /\ w \in owned
    /\ kept' = kept \cup {w}
    /\ told' = told \cup {p}
    /\ UNCHANGED <<credited, owned>>

\* The process dies; what was on its way to the disk may have reached it.
Kill ==
    /\ \E K \in SUBSET owned :
         /\ kept \subseteq K
         /\ owned' = K
         /\ kept' = K
    /\ UNCHANGED <<credited, told>>

Next ==
    \/ \E p \in Payments, w \in Wallpapers : Credit(p, w) \/ Tell(p, w)
    \/ \E w \in Wallpapers : Keep(w)
    \/ Kill

vars == <<credited, owned, kept, told>>

Spec == Init /\ [][Next]_vars
-----------------------------------------------------------------------------
(* Properties *)

\* What all of this is for: a payment buys one wallpaper, the app takes no wallpaper
\* for unlocked that nobody paid, and who was told of a purchase has it for good
\* (PremiumService's "Mark wallpaper as unlocked" comes before "Notify listeners").
Promise ==
    /\ \A p \in Payments : \A v, w \in Wallpapers :
         <<p, v>> \in credited /\ <<p, w>> \in credited => v = w
    /\ kept \subseteq owned
    /\ \A w \in owned : \E p \in Payments : <<p, w>> \in credited
    /\ \A p \in told : \E w \in kept : <<p, w>> \in credited
=============================================================================
