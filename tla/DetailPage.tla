------------------------------ MODULE DetailPage ------------------------------
(***************************************************************************)
(* The detail page of one wallpaper: its one button, which unlocks and     *)
(* then downloads, the downloads, which outlive the page, and the outcome  *)
(* of the purchases, whose handling is PremiumUnlock's.                    *)
(*                                                                         *)
(* The button is a State of its own (button_animation.dart).  A tap sets a *)
(* bar moving that disables the button when it is full, whatever came of   *)
(* the tap; a rebuild of the page sets it right.                           *)
(***************************************************************************)
EXTENDS Integers

CONSTANTS Downloads,   \* BOUND: the calls of _downloadWallpaper
          Checkouts,   \* BOUND: the calls of _unlockWallpaper
          None         \* no download

ASSUME NoneAssumption == None \notin Downloads

VARIABLES premium,     \* widget.wallpaper.isPremium
          owned,       \* the preference unlocked_<id>, in memory
          kept,        \* ... and on disk
          open,        \* the page is on screen
          page,        \* its State: _isUnlocked, _isDownloading, _downloadComplete
          button,      \* the State of its ButtonAnimation
          download,    \* the calls of _downloadWallpaper
          checkout,    \* the calls of _unlockWallpaper and their payments
          file,        \* wallpaper_<id>.jpg in the temporary directory
          gallery,     \* the downloads whose copy is in the gallery
          torn,        \* those whose copy is damaged
          overlapped   \* history: a download opened the file while another
                       \* was writing or copying it

vars == <<premium, owned, kept, open, page, button, download, checkout, file,
          gallery, torn, overlapped>>

(* A download asks for the permission, transfers, writes the file, has it  *)
(* copied to the gallery and waits for its count to be acknowledged.       *)
Working == {"transfer", "write", "gallery", "count"}

(* A checkout is opening, open (its payment is due), refused (the plugin    *)
(* did not open), credited (unlocked, the page not told yet), told, untold *)
(* (the process died in between), over.                                    *)
\* The handler of their payment has unlocked the wallpaper.
Credited == {"credited", "told", "untold"}

\* A delayed check is due only on the page that armed it.
CheckoutType ==
    {c \in [stage : {"unused", "opening", "open", "refused", "credited", "told",
                     "untold", "over"},
            here : BOOLEAN, timer : BOOLEAN] : c.timer => c.here}

TypeOK ==
    /\ premium \in BOOLEAN
    /\ owned \in BOOLEAN
    /\ kept \in BOOLEAN
    /\ open \in BOOLEAN
    /\ page \in [unlocked : BOOLEAN, downloading : BOOLEAN, complete : BOOLEAN]
    /\ button \in [bar : {"still", "moving", "full"}, done : BOOLEAN]
    /\ download \in [Downloads -> [pc : {"unused", "permission", "over"} \cup Working,
                                   here : BOOLEAN]]
    /\ checkout \in [Checkouts -> CheckoutType]
    /\ file \in [opener : Downloads \cup {None}, whole : BOOLEAN]
    /\ gallery \in SUBSET Downloads
    /\ torn \in SUBSET gallery
    /\ overlapped \in BOOLEAN

NewPage == [unlocked |-> owned, downloading |-> FALSE, complete |-> FALSE]
NewButton == [bar |-> "still", done |-> FALSE]

Init ==
    /\ premium \in BOOLEAN
    /\ owned = FALSE
    /\ kept = FALSE
    /\ open = FALSE
    /\ page = NewPage
    /\ button = NewButton
    /\ download = [d \in Downloads |-> [pc |-> "unused", here |-> FALSE]]
    /\ checkout = [c \in Checkouts |->
                     [stage |-> "unused", here |-> FALSE, timer |-> FALSE]]
    /\ file = [opener |-> None, whole |-> FALSE]
    /\ gallery = {}
    /\ torn = {}
    /\ overlapped = FALSE

-----------------------------------------------------------------------------
(* setState: the page is rebuilt, and its button with it *)

\* Mutant: didUpdateWidget only ever resets animationComplete.
DoneNeverSet(p) == button.done /\ p.complete

\* didUpdateWidget: animationComplete becomes isComplete.
Done(p) == p.complete

\* The button's key is _isUnlocked: when that changes, a new button comes.
SetState(p) ==
    /\ page' = p
    /\ button' = IF p.unlocked # page.unlocked
                   THEN NewButton
                   ELSE [button EXCEPT !.done = Done(p)]

\* The full image appears, a download reports progress, the screen is turned.
Rebuild ==
    /\ open
    /\ SetState(page)
    /\ UNCHANGED <<premium, owned, kept, open, download, checkout, file, gallery,
                   torn, overlapped>>

\* The bar of a tapped button fills in three seconds and disables it.
BarFills ==
    /\ open
    /\ button.bar = "moving"
    /\ button' = [bar |-> "full", done |-> TRUE]
    /\ UNCHANGED <<premium, owned, kept, open, page, download, checkout, file, gallery,
                   torn, overlapped>>

-----------------------------------------------------------------------------
(* Coming and going *)

\* The check of the unlock status is over before the first frame.
OpenPage ==
    /\ ~open
    /\ open' = TRUE
    /\ page' = NewPage
    /\ button' = NewButton
    /\ UNCHANGED <<premium, owned, kept, download, checkout, file, gallery, torn,
                   overlapped>>

\* Mutant: a check that comes due does not ask whether its page is mounted.
OrphanedButChecks ==
    /\ download' = [d \in Downloads |-> [download[d] EXCEPT !.here = FALSE]]
    /\ checkout' = [c \in Checkouts |-> [checkout[c] EXCEPT !.here = FALSE]]

\* What was started goes on, without the page.
Orphaned ==
    /\ download' = [d \in Downloads |-> [download[d] EXCEPT !.here = FALSE]]
    /\ checkout' = [c \in Checkouts |->
                      [checkout[c] EXCEPT !.here = FALSE, !.timer = FALSE]]

ClosePage ==
    /\ open
    /\ open' = FALSE
    /\ Orphaned
    /\ UNCHANGED <<premium, owned, kept, page, button, file, gallery, torn, overlapped>>

\* Mutant: the page is told before the preference is on disk.
NeverFlushed == {owned, FALSE}

\* The preference after a kill: what was on its way to the disk may be there.
Reloaded == {owned, kept}

\* The process dies.  What is on disk stays, payments come in after the relaunch.
Kill ==
    /\ open' = FALSE
    /\ owned' \in Reloaded
    /\ kept' = owned'
    /\ download' = [d \in Downloads |->
                      IF download[d].pc = "unused" THEN download[d]
                                                   ELSE [pc |-> "over", here |-> FALSE]]
    /\ checkout' = [c \in Checkouts |->
                      [stage |-> CASE checkout[c].stage = "opening" -> "over"
                                   [] checkout[c].stage = "credited" -> "untold"
                                   [] OTHER -> checkout[c].stage,
                       here |-> FALSE, timer |-> FALSE]]
    /\ UNCHANGED <<premium, page, button, file, gallery, torn, overlapped>>

-----------------------------------------------------------------------------
(* The button *)

Tappable == open /\ ~page.downloading /\ ~button.done

\* A bar that is full stays full: its controller does not report again.
Tapped == button' = [button EXCEPT !.bar = IF @ = "still" THEN "moving" ELSE @]

\* Mutant: the button downloads without asking what the wallpaper is.
CanDownloadAnything == TRUE

CanDownload == ~premium \/ page.unlocked

TapDownload(d) ==
    /\ Tappable
    /\ CanDownload
    /\ download[d].pc = "unused"
    /\ download' = [download EXCEPT ![d] = [pc |-> "permission", here |-> TRUE]]
    /\ Tapped
    /\ UNCHANGED <<premium, owned, kept, open, page, checkout, file, gallery, torn,
                   overlapped>>

TapUnlock(c) ==
    /\ Tappable
    /\ ~CanDownload
    /\ checkout[c].stage = "unused"
    /\ checkout' = [checkout EXCEPT ![c].stage = "opening", ![c].here = TRUE]
    /\ Tapped
    /\ UNCHANGED <<premium, owned, kept, open, page, download, file, gallery, torn,
                   overlapped>>

-----------------------------------------------------------------------------
(* _unlockWallpaper, its delayed check, the payment and the unlock event *)

\* "Payment initiated!": a timer is armed, unless the page is gone by then.
Initiated(c) ==
    /\ checkout[c].stage = "opening"
    /\ checkout' = [checkout EXCEPT ![c].stage = "open",
                                    ![c].timer = checkout[c].here]
    /\ UNCHANGED <<premium, owned, kept, open, page, button, download, file, gallery,
                   torn, overlapped>>

\* "Failed to initiate payment. Please try again."
InitiationFails(c) ==
    /\ checkout[c].stage = "opening"
    /\ checkout' = [checkout EXCEPT ![c].stage = "refused"]
    /\ UNCHANGED <<premium, owned, kept, open, page, button, download, file, gallery,
                   torn, overlapped>>

CheckUnlockStatus(c) ==
    /\ checkout[c].timer
    /\ checkout' = [checkout EXCEPT ![c].timer = FALSE]
    /\ SetState([page EXCEPT !.unlocked = owned])
    /\ UNCHANGED <<premium, owned, kept, open, download, file, gallery, torn, overlapped>>

PaymentFails(c) ==
    /\ checkout[c].stage = "open"
    /\ checkout' = [checkout EXCEPT ![c].stage = "over"]
    /\ UNCHANGED <<premium, owned, kept, open, page, button, download, file, gallery,
                   torn, overlapped>>

\* PremiumService sets the preference and, once that is written, tells whichever
\* page is open.
PaymentCredited(c) ==
    /\ checkout[c].stage = "open"
    /\ checkout' = [checkout EXCEPT ![c].stage = "credited"]
    /\ owned' = TRUE
    /\ UNCHANGED <<premium, kept, open, page, button, download, file, gallery, torn,
                   overlapped>>

UnlockEvent(c) ==
    /\ checkout[c].stage = "credited"
    /\ checkout' = [checkout EXCEPT ![c].stage = "told"]
    /\ kept' = TRUE
    /\ IF open THEN SetState([page EXCEPT !.unlocked = TRUE, !.complete = FALSE])
               ELSE UNCHANGED <<page, button>>
    /\ UNCHANGED <<premium, owned, open, download, file, gallery, torn, overlapped>>

-----------------------------------------------------------------------------
(* _downloadWallpaper.  On a page that is gone, its first setState throws. *)

Moves(d, to) == download' = [download EXCEPT ![d].pc = to]

PermissionDenied(d) ==
    /\ download[d].pc = "permission"
    /\ Moves(d, "over")
    /\ UNCHANGED <<premium, owned, kept, open, page, button, checkout, file, gallery,
                   torn, overlapped>>

\* The permission is awaited before the flag that disables the button is set.
PermissionGranted(d) ==
    /\ download[d].pc = "permission"
    /\ IF download[d].here
         THEN /\ SetState([page EXCEPT !.downloading = TRUE, !.complete = FALSE])
              /\ Moves(d, "transfer")
         ELSE Moves(d, "over") /\ UNCHANGED <<page, button>>
    /\ UNCHANGED <<premium, owned, kept, open, checkout, file, gallery, torn, overlapped>>

\* The image is there, and the file of this wallpaper is opened and truncated.
TransferEnds(d) ==
    /\ download[d].pc = "transfer"
    /\ Moves(d, "write")
    /\ file' = [opener |-> d, whole |-> FALSE]
    /\ overlapped' = (overlapped \/ \E e \in Downloads :
                                      download[e].pc \in {"write", "gallery"})
    /\ UNCHANGED <<premium, owned, kept, open, page, button, checkout, gallery, torn>>

\* Mutant: the write is not awaited.
WholeLater(d) == file.whole

\* The last to open the file writes all of it; who opened it before adds nothing.
WholeAfter(d) == file.whole \/ file.opener = d

WriteEnds(d) ==
    /\ download[d].pc = "write"
    /\ Moves(d, "gallery")
    /\ file' = [file EXCEPT !.whole = WholeAfter(d)]
    /\ UNCHANGED <<premium, owned, kept, open, page, button, checkout, gallery, torn,
                   overlapped>>

\* Gal.putImage copies the file, as it is or, if another download opens it
\* meanwhile, as it was at some moment.
PutImage(d) ==
    /\ download[d].pc = "gallery"
    /\ Moves(d, "count")
    /\ gallery' = gallery \cup {d}
    /\ \/ file.whole /\ UNCHANGED torn
       \/ (~file.whole \/ file.opener # d) /\ torn' = torn \cup {d}
    /\ UNCHANGED <<premium, owned, kept, open, page, button, checkout, file, overlapped>>

\* Mutant: an early return skips `finally`.
FailedStillDownloading == page

\* `finally`, after an error.
Failed == [page EXCEPT !.downloading = FALSE]

\* `finally`, after _downloadComplete was set.
Completed == [page EXCEPT !.downloading = FALSE, !.complete = TRUE]

Ends(d, p) ==
    /\ Moves(d, "over")
    /\ IF download[d].here THEN SetState(p) ELSE UNCHANGED <<page, button>>
    /\ UNCHANGED <<premium, owned, kept, open, checkout, file, gallery, torn, overlapped>>

\* The count is acknowledged, or refused, which is only logged.
CountEnds(d) == download[d].pc = "count" /\ Ends(d, Completed)

\* A GalException is shown, and the download counts as complete all the same.
GalleryRefuses(d) == download[d].pc = "gallery" /\ Ends(d, Completed)

TransferFails(d) == download[d].pc = "transfer" /\ Ends(d, Failed)

\* The disk is full; putImage throws something other than a GalException.
StorageFails(d) == download[d].pc \in {"write", "gallery"} /\ Ends(d, Failed)

-----------------------------------------------------------------------------
(* What the user, the device and the network have to answer *)

Permission(d) ==
    \/ PermissionDenied(d)
    \/ PermissionGranted(d)

OnDevice(d) ==
    \/ WriteEnds(d)
    \/ PutImage(d)
    \/ GalleryRefuses(d)
    \/ StorageFails(d)

OverNetwork(d) ==
    \/ TransferEnds(d)
    \/ TransferFails(d)
    \/ CountEnds(d)

Initiation(c) ==
    \/ Initiated(c)
    \/ InitiationFails(c)

Next ==
    \/ Rebuild
    \/ BarFills
    \/ OpenPage
    \/ ClosePage
    \/ Kill
    \/ \E d \in Downloads :
         \/ TapDownload(d)
         \/ Permission(d)
         \/ OnDevice(d)
         \/ OverNetwork(d)
    \/ \E c \in Checkouts :
         \/ TapUnlock(c)
         \/ Initiation(c)
         \/ CheckUnlockStatus(c)
         \/ PaymentFails(c)
         \/ PaymentCredited(c)
         \/ UnlockEvent(c)

Spec == Init /\ [][Next]_vars

\* The device answers, animations run and timers fire.  The user owes nothing,
\* and nothing bounds a transfer (Dio without timeouts) or the acknowledgement
\* of a count.
Fairness ==
    /\ WF_vars(BarFills)
    /\ \A d \in Downloads : WF_vars(OnDevice(d))
    /\ \A c \in Checkouts :
         WF_vars(Initiation(c)) /\ WF_vars(CheckUnlockStatus(c)) /\ WF_vars(UnlockEvent(c))

FairSpec == Spec /\ Fairness
-----------------------------------------------------------------------------
(* Properties *)

\* The button is disabled by a download only while one of this page is under
\* way, through double taps, failures and downloads of earlier visits.
SpinnerHasOwner ==
    open /\ page.downloading =>
      \E d \in Downloads : download[d].here /\ download[d].pc \in Working

\* A page that shows the check mark takes no more taps: whatever reset or
\* replaced its button, a wallpaper is not downloaded again by tapping on.
CheckMarkDisables == open /\ page.complete => button.done

\* What the button says: busy while a download of this page is, and done for good
\* once one is done.
ButtonIsRight == SpinnerHasOwner /\ CheckMarkDisables

\* No damaged copy is in the gallery, failed writes and kills included, unless
\* two downloads used the one file at the same time.
SavedIsWhole == ~overlapped => torn = {}

\* What is in the gallery of a premium wallpaper was paid for first.
NothingSavedUnpaid ==
    premium /\ gallery # {} =>
      \E c \in Checkouts : checkout[c].stage \in Credited

\* The page's part of the sale is the sale of Purchase, for its one wallpaper.
Bought == {c \in Checkouts : checkout[c].stage \in Credited} \X {"this"}
Told == {c \in Checkouts : checkout[c].stage = "told"}

Sale == INSTANCE Purchase
          WITH Wallpapers <- {"this"},
               Payments <- Checkouts,
               credited <- Bought,
               owned <- {w \in {"this"} : owned},
               kept <- {w \in {"this"} : kept},
               told <- Told

\* A payment of this page's counts once, nothing is unlocked without one, and what
\* the page was told of is there after every kill.
ImplementsPurchase == Sale!Spec

\* A page does not stay busy, unless a transfer or a count stays without answer.
WaitsForNetwork == \E d \in Downloads : download[d].pc \in {"transfer", "count"}

SpinnerEnds ==
    []<>WaitsForNetwork \/ (open /\ page.downloading ~> ~(open /\ page.downloading))

\* "Please try again": a page on which a tap came to nothing, and nothing is
\* under way, does not stay without a button to tap.
CameToNothing ==
    /\ open /\ ~page.complete
    /\ \E c \in Checkouts : checkout[c].here /\ checkout[c].stage = "refused"
    /\ \A d \in Downloads : ~download[d].here \/ download[d].pc = "over"
    /\ \A c \in Checkouts : checkout[c].stage # "opening" /\ ~checkout[c].timer

CanTryAgain == []<>(CameToNothing => Tappable)
=============================================================================
