---------------------------- MODULE PremiumUnlock ----------------------------
(***************************************************************************)
(* Buying a premium wallpaper: PremiumService over SharedPreferences and   *)
(* the Razorpay plugin, and the detail page that sells the wallpaper.      *)
(*                                                                         *)
(* A checkout carries no wallpaper id of the app's: the app remembers the  *)
(* wallpaper in the one preference `pending_unlock` and reads it back when *)
(* the plugin reports a success.  SharedPreferences changes its memory at  *)
(* the call and the disk later, in order: `journal` is what is on its way. *)
(***************************************************************************)
EXTENDS Sequences, Integers

CONSTANTS Wallpapers,   \* the premium wallpapers
          Attempts,     \* BOUND: the checkouts a behaviour may open
          None,         \* no wallpaper
          MaxRestarts   \* BOUND: how often the process dies and is relaunched

ASSUME NoneAssumption == None \notin Wallpapers
ASSUME RestartsAssumption == MaxRestarts \in Nat

VARIABLES prefs,      \* SharedPreferences in memory: pending_unlock, unlocked_*
          disk,       \* SharedPreferences on disk
          journal,    \* writes that have not reached the disk, oldest first
          attempt,    \* the checkouts
          page,       \* the detail page on top, its State included
          restarts,
          crossed     \* history: a checkout was opened before the previous one
                      \* was settled, or a kill overtook a write

vars == <<prefs, disk, journal, attempt, page, restarts, crossed>>

(* A checkout is                                                           *)
(*   unused                                                                *)
(*   opening   _razorpay.open() was called, the page is still touchable    *)
(*   shown     the payment screen covers the app                           *)
(*   paid, failed, wallet   its result is on the way to the app            *)
(*   await     _handlePaymentSuccess is suspended at setBool               *)
(*   written   setBool has answered                                        *)
(*   credited  the handler has run to its end                              *)
(*   over      nothing more will come of it                                *)
Stages == {"unused", "opening", "shown", "paid", "failed", "wallet", "await",
           "written", "credited", "over"}

\* What the payment provider or the handler has yet to settle.
Unsettled == {"opening", "shown", "paid", "failed", "wallet", "await", "written"}

Store == [pending : Wallpapers \cup {None}, unlocked : SUBSET Wallpapers]
Write == [by : Attempts, key : {"pending", "unlocked"},
          value : Wallpapers \cup {None}]
Attempt == [stage : Stages,
            wallpaper : Wallpapers \cup {None},  \* whose Unlock was tapped
            credit : Wallpapers \cup {None}]     \* what the handler unlocked

Unused == [stage |-> "unused", wallpaper |-> None, credit |-> None]
NoPage == [wallpaper |-> None, isUnlocked |-> FALSE, timers |-> 0]
Empty == [pending |-> None, unlocked |-> {}]

TypeOK ==
    /\ prefs \in Store
    /\ disk \in Store
    /\ journal \in Seq(Write)
    /\ attempt \in [Attempts -> Attempt]
    /\ page \in [wallpaper : Wallpapers \cup {None}, isUnlocked : BOOLEAN,
                 timers : Nat]
    /\ restarts \in 0 .. MaxRestarts
    /\ crossed \in BOOLEAN

Init ==
    /\ prefs = Empty
    /\ disk = Empty
    /\ journal = <<>>
    /\ attempt = [a \in Attempts |-> Unused]
    /\ page = NoPage
    /\ restarts = 0
    /\ crossed = FALSE

Covered == \E a \in Attempts : attempt[a].stage = "shown"

\* The effect of a write on a copy of the preferences.
Written(store, op) ==
    IF op.key = "pending" THEN [store EXCEPT !.pending = op.value]
                          ELSE [store EXCEPT !.unlocked = @ \cup {op.value}]

\* A setter: memory at once, the disk in turn.
SetPrefs(op) ==
    /\ prefs' = Written(prefs, op)
    /\ journal' = Append(journal, op)

\* Mutant: a wallpaper that is still pending is not replaced.
SetPendingOnce(a, w) ==
    SetPrefs([by |-> a, key |-> "pending",
              value |-> IF w = None \/ prefs.pending = None THEN w
                                                            ELSE prefs.pending])

SetPending(a, w) == SetPrefs([by |-> a, key |-> "pending", value |-> w])
SetUnlocked(a, w) == SetPrefs([by |-> a, key |-> "unlocked", value |-> w])

-----------------------------------------------------------------------------
(* The detail page *)

\* initState: the check of the unlock status has nothing to wait for, since
\* main() initialised the service before the first frame.
OpenPage(w) ==
    /\ page.wallpaper = None
    /\ ~Covered
    /\ page' = [wallpaper |-> w, isUnlocked |-> w \in prefs.unlocked, timers |-> 0]
    /\ UNCHANGED <<prefs, disk, journal, attempt, restarts, crossed>>

\* Back: the subscription is cancelled, and a pending timer finds ~mounted.
ClosePage ==
    /\ page.wallpaper # None
    /\ ~Covered
    /\ page' = NoPage
    /\ UNCHANGED <<prefs, disk, journal, attempt, restarts, crossed>>

\* "Unlock for ...": the checkout is launched, then pending_unlock is set, with
\* nothing in between, and a timer will check the status once.  (It starts when
\* setString answers; that it may fire before changes nothing it reads.)
UnlockWallpaper(a) ==
    /\ attempt[a].stage = "unused"
    /\ page.wallpaper # None
    /\ ~page.isUnlocked
    /\ ~Covered
    /\ attempt' = [attempt EXCEPT ![a] = [Unused EXCEPT !.stage = "opening",
                                                        !.wallpaper = page.wallpaper]]
    /\ SetPending(a, page.wallpaper)
    /\ page' = [page EXCEPT !.timers = @ + 1]
    /\ crossed' = (crossed \/ \E b \in Attempts : attempt[b].stage \in Unsettled)
    /\ UNCHANGED <<disk, restarts>>

\* Mutant: the check runs whether or not one is due on this page.
RecheckUnasked ==
    /\ page' = [page EXCEPT !.timers = @ - 1,
                            !.isUnlocked = page.wallpaper \in prefs.unlocked]
    /\ UNCHANGED <<prefs, disk, journal, attempt, restarts, crossed>>

\* _listenForPaymentSuccess: the one delayed check.
RecheckStatus ==
    /\ page.timers > 0
    /\ page' = [page EXCEPT !.timers = @ - 1,
                            !.isUnlocked = page.wallpaper \in prefs.unlocked]
    /\ UNCHANGED <<prefs, disk, journal, attempt, restarts, crossed>>

-----------------------------------------------------------------------------
(* The payment provider *)

Move(a, from, to) ==
    /\ attempt[a].stage = from
    /\ attempt' = [attempt EXCEPT ![a].stage = to]
    /\ UNCHANGED <<prefs, disk, journal, page, restarts, crossed>>

\* The payment screen comes up; it ends in a success, in an error (cancelled,
\* timed out, declined) or in the choice of an external wallet.
Cover(a) == Move(a, "opening", "shown")
Pay(a) == Move(a, "shown", "paid")
Fail(a) == Move(a, "shown", "failed")
ChooseWallet(a) == Move(a, "shown", "wallet")

-----------------------------------------------------------------------------
(* PremiumService's handlers *)

\* _handlePaymentSuccess up to its await: whatever is pending is unlocked.
HandlePaymentSuccess(a) ==
    /\ attempt[a].stage = "paid"
    /\ prefs.pending # None
    /\ attempt' = [attempt EXCEPT ![a].stage = "await", ![a].credit = prefs.pending]
    /\ SetUnlocked(a, prefs.pending)
    /\ UNCHANGED <<disk, page, restarts, crossed>>

\* With nothing pending the success is dropped.
DropPaymentSuccess(a) ==
    /\ prefs.pending = None
    /\ Move(a, "paid", "over")

\* Mutant: setBool is not awaited.
SetBoolAnsweredEarly(a) == attempt[a].stage \in {"await", "written"}

SetBoolAnswered(a) == attempt[a].stage = "written"

\* Mutant: the listener does not compare the id.
ConcernsAnyPage(a) == page.wallpaper # None

\* The page's listener on unlockStream.
ConcernsPage(a) == page.wallpaper = attempt[a].credit

\* ... and from the await on: pending_unlock is removed, whatever it holds by
\* now, and the page on that wallpaper is told.
FinishPaymentSuccess(a) ==
    /\ SetBoolAnswered(a)
    /\ attempt' = [attempt EXCEPT ![a].stage = "credited"]
    /\ SetPending(a, None)
    /\ page' = IF ConcernsPage(a)
                 THEN [page EXCEPT !.isUnlocked = TRUE]
                 ELSE page
    /\ UNCHANGED <<disk, restarts, crossed>>

\* Mutant: a failed payment unlocks what is pending.
HandlePaymentErrorAsSuccess(a) ==
    /\ attempt[a].stage = "failed"
    /\ prefs.pending # None
    /\ attempt' = [attempt EXCEPT ![a].stage = "over"]
    /\ SetUnlocked(a, prefs.pending)
    /\ UNCHANGED <<disk, page, restarts, crossed>>

HandlePaymentError(a) ==
    /\ attempt[a].stage = "failed"
    /\ attempt' = [attempt EXCEPT ![a].stage = "over"]
    /\ SetPending(a, None)
    /\ UNCHANGED <<disk, page, restarts, crossed>>

\* It only logs.
HandleExternalWallet(a) == Move(a, "wallet", "over")

-----------------------------------------------------------------------------
(* The platform *)

\* The oldest write reaches the disk; a handler that awaits it can go on.
Flush ==
    /\ journal # <<>>
    /\ LET op == Head(journal) IN
         /\ disk' = Written(disk, op)
         /\ attempt' = IF op.key = "unlocked"
                         THEN [attempt EXCEPT ![op.by].stage = "written"]
                         ELSE attempt
    /\ journal' = Tail(journal)
    /\ UNCHANGED <<prefs, page, restarts, crossed>>

\* The process is killed and launched again.  The memory is reloaded from disk.
\* A payment screen that was up is restored, and the plugin delivers a result
\* that found no app when init() registers the handlers.
Restart ==
    /\ restarts < MaxRestarts
    /\ restarts' = restarts + 1
    /\ prefs' = disk
    /\ journal' = <<>>
    /\ page' = NoPage
    /\ attempt' = [a \in Attempts |->
                     IF attempt[a].stage \in {"opening", "await", "written"}
                       THEN [attempt[a] EXCEPT !.stage = "over"]
                       ELSE attempt[a]]
    /\ crossed' = (crossed \/ journal # <<>>)
    /\ UNCHANGED disk

Deliver(a) ==
    \/ HandlePaymentSuccess(a)
    \/ DropPaymentSuccess(a)
    \/ FinishPaymentSuccess(a)
    \/ HandlePaymentError(a)
    \/ HandleExternalWallet(a)

Next ==
    \/ \E w \in Wallpapers : OpenPage(w)
    \/ ClosePage
    \/ RecheckStatus
    \/ \E a \in Attempts :
         \/ UnlockWallpaper(a)
         \/ Cover(a)
         \/ Pay(a)
         \/ Fail(a)
         \/ ChooseWallet(a)
         \/ Deliver(a)
    \/ Flush
    \/ Restart

Spec == Init /\ [][Next]_vars

\* The plugin delivers every result, the event loop runs every continuation
\* and the preferences reach the disk.  The user and the provider owe nothing.
Fairness == WF_vars(Flush) /\ \A a \in Attempts : WF_vars(Deliver(a))

FairSpec == Spec /\ Fairness
-----------------------------------------------------------------------------
(* Properties *)

\* Once the buyer has been told of the unlock (the handler ran to its end), it
\* survives every kill: it is on disk as well as in memory.
CreditedIsDurable ==
    \A a \in Attempts : attempt[a].stage = "credited" =>
      attempt[a].credit \in disk.unlocked \cap prefs.unlocked

\* Nothing is unlocked, before or after a kill, unless the handler credited a
\* successful payment to it; and a payment is credited to one wallpaper only.
UnlockedWasPaid ==
    \A w \in prefs.unlocked \cup disk.unlocked :
      \E a \in Attempts :
        /\ attempt[a].credit = w
        /\ attempt[a].stage \in {"await", "written", "credited", "over"}

\* What of the checkouts is a sale.
Bought == {<<a, attempt[a].credit>> :
             a \in {b \in Attempts : attempt[b].credit # None}}
Told == {a \in Attempts : attempt[a].stage = "credited"}

Sale == INSTANCE Purchase
          WITH Payments <- Attempts,
               credited <- Bought,
               owned <- prefs.unlocked,
               kept <- disk.unlocked,
               told <- Told

\* The sale is that of Purchase: prefs, journal and disk, the handlers with their
\* awaits, checkouts that cross and kills at any point are to a buyer the steps of
\* a payment that is credited, kept and announced.
ImplementsPurchase == Sale!Spec

\* The page says Download only for a wallpaper that is unlocked, and does say
\* so for one a handler has finished with, whether the page was opened before
\* or after, and whatever its timers do.
PageAgreesWithPrefs ==
    page.wallpaper # None =>
      /\ page.isUnlocked => page.wallpaper \in prefs.unlocked
      /\ \A a \in Attempts :
           attempt[a].stage = "credited" /\ attempt[a].credit = page.wallpaper
             => page.isUnlocked

\* As long as every checkout is settled before the next is opened and no kill
\* overtakes a write, a success finds its own wallpaper pending and unlocks it.
SettledPaymentUnlocksItsOwn ==
    ~crossed =>
      \A a \in Attempts :
        /\ attempt[a].stage = "paid" => prefs.pending = attempt[a].wallpaper
        /\ attempt[a].stage \in {"await", "written", "credited"} =>
             attempt[a].credit = attempt[a].wallpaper

\* What "Store wallpaper ID for payment success callback" is for: the callback
\* of a checkout that has no other checkout beside it unlocks the wallpaper the
\* checkout was opened for.
SuccessUnlocksItsWallpaper ==
    [][\A a \in Attempts :
         (/\ HandlePaymentSuccess(a) \/ DropPaymentSuccess(a)
          /\ \A b \in Attempts \ {a} :
               attempt[b].stage \notin {"opening", "shown", "paid", "failed"})
           => attempt[a].wallpaper \in prefs'.unlocked]_vars

\* A payment comes to unlock the wallpaper it was made for, unless checkouts
\* crossed or a kill overtook a write on the way.
PaidComesUnlocked ==
    \A a \in Attempts :
      attempt[a].stage = "paid"
        ~> (attempt[a].wallpaper \in prefs.unlocked \/ crossed)
=============================================================================
