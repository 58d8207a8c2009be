-------------------------- MODULE DetailPageProofs --------------------------
(* Theorems about DetailPage for every number of downloads and checkouts. *)
EXTENDS DetailPage, TLAPS

-----------------------------------------------------------------------------
(* Types *)

PageType == [unlocked : BOOLEAN, downloading : BOOLEAN, complete : BOOLEAN]
ButtonType == [bar : {"still", "moving", "full"}, done : BOOLEAN]
DownloadType == [pc : {"unused", "permission", "over"} \cup Working, here : BOOLEAN]
FileType == [opener : Downloads \cup {None}, whole : BOOLEAN]

LEMMA Types ==
    TypeOK <=>
      /\ premium \in BOOLEAN /\ owned \in BOOLEAN /\ kept \in BOOLEAN /\ open \in BOOLEAN
      /\ page \in PageType /\ button \in ButtonType
      /\ download \in [Downloads -> DownloadType]
      /\ checkout \in [Checkouts -> CheckoutType]
      /\ file \in FileType
      /\ gallery \in SUBSET Downloads /\ torn \in SUBSET gallery
      /\ overlapped \in BOOLEAN
  BY DEF TypeOK, PageType, ButtonType, DownloadType, CheckoutType, FileType

LEMMA TypesNext ==
    ASSUME /\ premium' \in BOOLEAN /\ owned' \in BOOLEAN /\ kept' \in BOOLEAN
           /\ open' \in BOOLEAN
           /\ page' \in PageType /\ button' \in ButtonType
           /\ download' \in [Downloads -> DownloadType]
           /\ checkout' \in [Checkouts -> CheckoutType]
           /\ file' \in FileType
           /\ gallery' \in SUBSET Downloads /\ torn' \in SUBSET gallery'
           /\ overlapped' \in BOOLEAN
    PROVE  TypeOK'
  BY DEF TypeOK, PageType, ButtonType, DownloadType, CheckoutType, FileType

LEMMA NewTypes ==
    ASSUME TypeOK
    PROVE  NewPage \in PageType /\ NewButton \in ButtonType
  BY DEF TypeOK, NewPage, NewButton, PageType, ButtonType

LEMMA SetStateType ==
    ASSUME TypeOK, NEW p \in PageType, SetState(p)
    PROVE  page' \in PageType /\ button' \in ButtonType
  BY DEF TypeOK, SetState, Done, NewButton, PageType, ButtonType

LEMMA Moved ==
    ASSUME download \in [Downloads -> DownloadType], NEW d \in Downloads,
           NEW to \in {"over"} \cup Working, Moves(d, to)
    PROVE  /\ download' \in [Downloads -> DownloadType]
           /\ download'[d].pc = to /\ download'[d].here = download[d].here
           /\ \A e \in Downloads \ {d} : download'[e] = download[e]
  BY DEF Moves, DownloadType

LEMMA OrphanedType ==
    ASSUME TypeOK, Orphaned
    PROVE  /\ download' \in [Downloads -> DownloadType]
           /\ checkout' \in [Checkouts -> CheckoutType]
<1>1. download \in [Downloads -> DownloadType] /\ checkout \in [Checkouts -> CheckoutType]
  BY Types
<1>2. download' \in [Downloads -> DownloadType]
  BY <1>1 DEF Orphaned, DownloadType
<1>3. checkout' \in [Checkouts -> CheckoutType]
  BY <1>1 DEF Orphaned, CheckoutType
<1>4. QED
  BY <1>2, <1>3

LEMMA KillEffect ==
    ASSUME TypeOK, Kill
    PROVE  /\ download' \in [Downloads -> DownloadType]
           /\ checkout' \in [Checkouts -> CheckoutType]
           /\ \A d \in Downloads :
                /\ download'[d].pc = IF download[d].pc = "unused" THEN "unused" ELSE "over"
                /\ download[d].pc # "unused" => ~download'[d].here
                /\ download[d].pc = "unused" => download'[d] = download[d]
           /\ \A c \in Checkouts :
                /\ ~checkout'[c].here /\ ~checkout'[c].timer
                /\ checkout'[c].stage # "credited"
                /\ checkout'[c].stage = "told" <=> checkout[c].stage = "told"
                /\ checkout'[c].stage \in Credited <=> checkout[c].stage \in Credited
                /\ checkout'[c].stage # "unused" => checkout[c].stage # "unused"
<1>1. download \in [Downloads -> DownloadType] /\ checkout \in [Checkouts -> CheckoutType]
  BY Types
<1>2. /\ download' \in [Downloads -> DownloadType]
      /\ \A d \in Downloads :
           /\ download'[d].pc = IF download[d].pc = "unused" THEN "unused" ELSE "over"
           /\ download[d].pc # "unused" => ~download'[d].here
           /\ download[d].pc = "unused" => download'[d] = download[d]
  BY <1>1 DEF Kill, DownloadType
<1>3. \A c \in Checkouts :
        /\ checkout'[c].here = FALSE /\ checkout'[c].timer = FALSE
        /\ checkout'[c].stage = CASE checkout[c].stage = "opening" -> "over"
                                  [] checkout[c].stage = "credited" -> "untold"
                                  [] OTHER -> checkout[c].stage
        /\ checkout'[c] \in CheckoutType
  BY <1>1 DEF Kill, CheckoutType
<1>4. checkout' \in [Checkouts -> CheckoutType]
  BY <1>3 DEF Kill
<1>5. QED
  BY <1>2, <1>3, <1>4 DEF Credited

LEMMA InitType == Init => TypeOK
<1>1. ASSUME Init
      PROVE  /\ page \in PageType /\ button \in ButtonType
             /\ download \in [Downloads -> DownloadType]
             /\ checkout \in [Checkouts -> CheckoutType]
             /\ file \in FileType
  BY <1>1 DEF Init, NewPage, NewButton, PageType, ButtonType, DownloadType,
              CheckoutType, FileType
<1>2. QED
  BY <1>1, Types DEF Init

LEMMA EndsType ==
    ASSUME TypeOK, NEW d \in Downloads, NEW p \in PageType, Ends(d, p)
    PROVE  TypeOK'
<1>0. /\ premium \in BOOLEAN /\ owned \in BOOLEAN /\ kept \in BOOLEAN /\ open \in BOOLEAN
      /\ page \in PageType /\ button \in ButtonType
      /\ download \in [Downloads -> DownloadType]
      /\ checkout \in [Checkouts -> CheckoutType]
      /\ file \in FileType
      /\ gallery \in SUBSET Downloads /\ torn \in SUBSET gallery
      /\ overlapped \in BOOLEAN
  BY Types
<1>1. download' \in [Downloads -> DownloadType]
  BY <1>0, Moved DEF Ends
<1>2. page' \in PageType /\ button' \in ButtonType
  BY <1>0, SetStateType DEF Ends
<1>3. QED
  BY <1>0, <1>1, <1>2, TypesNext DEF Ends

LEMMA NextType ==
    ASSUME TypeOK, Next
    PROVE  TypeOK'
<1>0. /\ premium \in BOOLEAN /\ owned \in BOOLEAN /\ kept \in BOOLEAN /\ open \in BOOLEAN
      /\ page \in PageType /\ button \in ButtonType
      /\ download \in [Downloads -> DownloadType]
      /\ checkout \in [Checkouts -> CheckoutType]
      /\ file \in FileType
      /\ gallery \in SUBSET Downloads /\ torn \in SUBSET gallery
      /\ overlapped \in BOOLEAN
  BY Types
<1>1. CASE Rebuild
  BY <1>0, <1>1, SetStateType, TypesNext DEF Rebuild
<1>2. CASE BarFills
  <2>1. button' \in ButtonType
    BY <1>2 DEF BarFills, ButtonType
  <2>2. QED
    BY <1>0, <1>2, <2>1, TypesNext DEF BarFills
<1>3. CASE OpenPage
  BY <1>0, <1>3, NewTypes, TypesNext DEF OpenPage
<1>4. CASE ClosePage
  BY <1>0, <1>4, OrphanedType, TypesNext DEF ClosePage
<1>5. CASE Kill
  <2>1. owned' \in BOOLEAN /\ kept' \in BOOLEAN
    BY <1>0, <1>5 DEF Kill, Reloaded
  <2>2. QED
    BY <1>0, <1>5, <2>1, KillEffect, TypesNext DEF Kill
<1>6. ASSUME NEW d \in Downloads, TapDownload(d) PROVE TypeOK'
  <2>1. download' \in [Downloads -> DownloadType]
    BY <1>0, <1>6 DEF TapDownload, DownloadType
  <2>2. button' \in ButtonType
    BY <1>0, <1>6 DEF TapDownload, Tapped, ButtonType
  <2>3. QED
    BY <1>0, <1>6, <2>1, <2>2, TypesNext DEF TapDownload
<1>7. ASSUME NEW d \in Downloads, Permission(d) PROVE TypeOK'
  <2>1. CASE PermissionDenied(d)
    BY <1>0, <2>1, Moved, TypesNext DEF PermissionDenied
  <2>2. CASE PermissionGranted(d) /\ download[d].here
    <3>1. [page EXCEPT !.downloading = TRUE, !.complete = FALSE] \in PageType
      BY <1>0 DEF PageType
    <3>2. page' \in PageType /\ button' \in ButtonType
      BY <2>2, <3>1, SetStateType DEF PermissionGranted
    <3>3. download' \in [Downloads -> DownloadType]
      BY <1>0, <2>2, Moved DEF PermissionGranted, Working
    <3>4. QED
      BY <1>0, <2>2, <3>2, <3>3, TypesNext DEF PermissionGranted
  <2>3. CASE PermissionGranted(d) /\ ~download[d].here
    BY <1>0, <2>3, Moved, TypesNext DEF PermissionGranted
  <2>4. QED
    BY <1>7, <2>1, <2>2, <2>3 DEF Permission
<1>p. Completed \in PageType /\ Failed \in PageType
  BY <1>0 DEF Completed, Failed, PageType
<1>8. ASSUME NEW d \in Downloads, OnDevice(d) PROVE TypeOK'
  <2>1. CASE WriteEnds(d)
    <3>1. file' \in FileType
      BY <1>0, <2>1 DEF WriteEnds, WholeAfter, FileType
    <3>2. download' \in [Downloads -> DownloadType]
      BY <1>0, <2>1, Moved DEF WriteEnds, Working
    <3>3. QED
      BY <1>0, <2>1, <3>1, <3>2, TypesNext DEF WriteEnds
  <2>2. CASE PutImage(d)
    <3>1. gallery' \in SUBSET Downloads /\ torn' \in SUBSET gallery'
      BY <1>0, <2>2 DEF PutImage
    <3>2. download' \in [Downloads -> DownloadType]
      BY <1>0, <2>2, Moved DEF PutImage, Working
    <3>3. QED
      BY <1>0, <2>2, <3>1, <3>2, TypesNext DEF PutImage
  <2>3. CASE GalleryRefuses(d) \/ StorageFails(d)
    BY <1>p, <2>3, EndsType DEF GalleryRefuses, StorageFails
  <2>4. QED
    BY <1>8, <2>1, <2>2, <2>3 DEF OnDevice
<1>9. ASSUME NEW d \in Downloads, OverNetwork(d) PROVE TypeOK'
  <2>1. CASE TransferEnds(d)
    <3>1. file' \in FileType
      BY <2>1 DEF TransferEnds, FileType
    <3>2. download' \in [Downloads -> DownloadType]
      BY <1>0, <2>1, Moved DEF TransferEnds, Working
    <3>3. overlapped' \in BOOLEAN
      BY <1>0, <2>1 DEF TransferEnds
    <3>4. QED
      BY <1>0, <2>1, <3>1, <3>2, <3>3, TypesNext DEF TransferEnds
  <2>2. CASE TransferFails(d) \/ CountEnds(d)
    BY <1>p, <2>2, EndsType DEF TransferFails, CountEnds
  <2>3. QED
    BY <1>9, <2>1, <2>2 DEF OverNetwork
<1>10. ASSUME NEW c \in Checkouts,
              \/ Initiation(c) \/ PaymentFails(c) \/ PaymentCredited(c)
       PROVE  TypeOK'
  <2>1. checkout' \in [Checkouts -> CheckoutType]
    <3>1. CASE Initiation(c)
      BY <1>0, <3>1 DEF Initiation, Initiated, InitiationFails, CheckoutType
    <3>2. CASE PaymentFails(c)
      BY <1>0, <3>2 DEF PaymentFails, CheckoutType
    <3>3. CASE PaymentCredited(c)
      BY <1>0, <3>3 DEF PaymentCredited, CheckoutType
    <3>4. QED
      BY <1>10, <3>1, <3>2, <3>3
  <2>2. owned' \in BOOLEAN /\ kept' = kept
    BY <1>0, <1>10 DEF Initiation, Initiated, InitiationFails, PaymentFails, PaymentCredited
  <2>3. UNCHANGED <<premium, open, page, button, download, file, gallery, torn, overlapped>>
    BY <1>10 DEF Initiation, Initiated, InitiationFails, PaymentFails, PaymentCredited
  <2>4. QED
    BY <1>0, <2>1, <2>2, <2>3, TypesNext
<1>11. ASSUME NEW c \in Checkouts, TapUnlock(c) PROVE TypeOK'
  <2>1. checkout' \in [Checkouts -> CheckoutType]
    BY <1>0, <1>11, ZenonT(30) DEF TapUnlock, CheckoutType
  <2>2. button' \in ButtonType
    BY <1>0, <1>11 DEF TapUnlock, Tapped, ButtonType
  <2>3. QED
    BY <1>0, <1>11, <2>1, <2>2, TypesNext DEF TapUnlock
<1>12. ASSUME NEW c \in Checkouts, CheckUnlockStatus(c) \/ UnlockEvent(c) PROVE TypeOK'
  <2>1. checkout' \in [Checkouts -> CheckoutType]
    <3>1. CASE CheckUnlockStatus(c)
      BY <1>0, <3>1 DEF CheckUnlockStatus, CheckoutType
    <3>2. CASE UnlockEvent(c)
      <4>1. [checkout[c] EXCEPT !.stage = "told"] \in CheckoutType
        BY <1>0 DEF CheckoutType
      <4>2. checkout' = [checkout EXCEPT ![c] = [checkout[c] EXCEPT !.stage = "told"]]
        BY <3>2 DEF UnlockEvent
      <4>3. QED
        BY <1>0, <4>1, <4>2
    <3>3. QED
      BY <1>12, <3>1, <3>2
  <2>2. /\ [page EXCEPT !.unlocked = owned] \in PageType
        /\ [page EXCEPT !.unlocked = TRUE, !.complete = FALSE] \in PageType
    BY <1>0 DEF PageType
  <2>3. page' \in PageType /\ button' \in ButtonType
    BY <1>0, <1>12, <2>2, SetStateType DEF CheckUnlockStatus, UnlockEvent
  <2>4. /\ UNCHANGED <<premium, owned, open, download, file, gallery, torn, overlapped>>
        /\ kept' \in BOOLEAN
    BY <1>0, <1>12 DEF CheckUnlockStatus, UnlockEvent
  <2>5. QED
    BY <1>0, <2>1, <2>3, <2>4, TypesNext
<1>13. QED
  BY <1>1, <1>2, <1>3, <1>4, <1>5, <1>6, <1>7, <1>8, <1>9, <1>10, <1>11, <1>12 DEF Next

\* Pages, buttons, downloads, checkouts, the file and the gallery keep their types;
\* damaged copies are copies.
THEOREM TypeCorrect == Spec => []TypeOK
<1>1. TypeOK /\ UNCHANGED vars => TypeOK'
  BY DEF TypeOK, vars
<1>2. QED
  BY <1>1, InitType, NextType, PTL DEF Spec

-----------------------------------------------------------------------------
(* The spinner *)

\* A step that leaves the downloads, the page and whether it is open alone, as far
\* as the spinner goes.
LEMMA SameSpinner ==
    ASSUME SpinnerHasOwner, UNCHANGED download, open' => open,
           page'.downloading = page.downloading
    PROVE  SpinnerHasOwner'
  BY DEF SpinnerHasOwner

LEMMA MovesSpinner ==
    ASSUME TypeOK, SpinnerHasOwner, UNCHANGED <<open, page>>, NEW d \in Downloads,
           NEW to, Moves(d, to), to \in Working \/ download[d].pc \notin Working
    PROVE  SpinnerHasOwner'
<1>1. /\ \A e \in Downloads : download'[e].here = download[e].here
      /\ \A e \in Downloads \ {d} : download'[e] = download[e]
      /\ download'[d].pc = to
  BY Types DEF Moves, DownloadType
<1>2. QED
  BY <1>1 DEF SpinnerHasOwner

LEMMA EndsSpinner ==
    ASSUME TypeOK, SpinnerHasOwner, NEW d \in Downloads, NEW p \in PageType,
           ~p.downloading, Ends(d, p)
    PROVE  SpinnerHasOwner'
<1>1. CASE download[d].here
  <2>1. page' = p
    BY <1>1 DEF Ends, SetState
  <2>2. QED
    BY <2>1 DEF SpinnerHasOwner
<1>2. CASE ~download[d].here
  <2>1. UNCHANGED <<open, page>> /\ \A e \in Downloads \ {d} : download'[e] = download[e]
    BY <1>2, Types DEF Ends, Moves
  <2>2. QED
    BY <1>2, <2>1 DEF SpinnerHasOwner
<1>3. QED
  BY <1>1, <1>2

LEMMA NextSpinner ==
    ASSUME TypeOK, SpinnerHasOwner, Next
    PROVE  SpinnerHasOwner'
<1>0. page \in PageType /\ download \in [Downloads -> DownloadType]
  BY Types
<1>1. CASE Rebuild \/ BarFills
  BY <1>1, SameSpinner DEF Rebuild, BarFills, SetState
<1>2. CASE OpenPage
  BY <1>2 DEF OpenPage, NewPage, SpinnerHasOwner
<1>3. CASE ClosePage \/ Kill
  BY <1>3 DEF ClosePage, Kill, SpinnerHasOwner
<1>4. ASSUME NEW d \in Downloads, TapDownload(d) PROVE SpinnerHasOwner'
  <2>1. /\ download[d].pc = "unused" /\ UNCHANGED <<open, page>>
        /\ \A e \in Downloads \ {d} : download'[e] = download[e]
    BY <1>0, <1>4 DEF TapDownload
  <2>2. QED
    BY <2>1 DEF SpinnerHasOwner, Working
<1>5. ASSUME NEW d \in Downloads, Permission(d) PROVE SpinnerHasOwner'
  <2>1. CASE PermissionGranted(d) /\ download[d].here
    <3>1. download'[d].here /\ download'[d].pc = "transfer"
      BY <1>0, <2>1 DEF PermissionGranted, Moves, DownloadType
    <3>2. QED
      BY <3>1 DEF SpinnerHasOwner, Working
  <2>2. CASE PermissionGranted(d) /\ ~download[d].here
    BY <2>2, MovesSpinner DEF PermissionGranted, Working
  <2>3. CASE PermissionDenied(d)
    BY <2>3, MovesSpinner DEF PermissionDenied, Working
  <2>4. QED
    BY <1>5, <2>1, <2>2, <2>3 DEF Permission
<1>6. ASSUME NEW d \in Downloads, WriteEnds(d) \/ PutImage(d) \/ TransferEnds(d)
      PROVE  SpinnerHasOwner'
  <2>1. UNCHANGED <<open, page>> /\ \E to \in Working : Moves(d, to)
    BY <1>6 DEF WriteEnds, PutImage, TransferEnds, Working
  <2>2. QED
    BY <2>1, MovesSpinner
<1>7. ASSUME NEW d \in Downloads,
             GalleryRefuses(d) \/ StorageFails(d) \/ TransferFails(d) \/ CountEnds(d)
      PROVE  SpinnerHasOwner'
  <2>1. /\ Completed \in PageType /\ ~Completed.downloading
        /\ Failed \in PageType /\ ~Failed.downloading
    BY <1>0 DEF Completed, Failed, PageType
  <2>2. QED
    BY <1>7, <2>1, EndsSpinner DEF GalleryRefuses, StorageFails, TransferFails, CountEnds
<1>8. ASSUME NEW c \in Checkouts,
             \/ TapUnlock(c) \/ Initiation(c) \/ PaymentFails(c) \/ PaymentCredited(c)
      PROVE  SpinnerHasOwner'
  BY <1>8, SameSpinner DEF TapUnlock, Initiation, Initiated, InitiationFails,
                           PaymentFails, PaymentCredited
<1>9. ASSUME NEW c \in Checkouts, CheckUnlockStatus(c) \/ UnlockEvent(c)
      PROVE  SpinnerHasOwner'
  <2>1. page'.downloading = page.downloading
    BY <1>0, <1>9 DEF CheckUnlockStatus, UnlockEvent, SetState, PageType
  <2>2. QED
    BY <1>9, <2>1, SameSpinner DEF CheckUnlockStatus, UnlockEvent
<1>10. QED
  BY <1>1, <1>2, <1>3, <1>4, <1>5, <1>6, <1>7, <1>8, <1>9 DEF Next, OnDevice, OverNetwork

\* The button is disabled by a download only while one of this page is under way,
\* whatever double taps, failures and earlier visits there were.
THEOREM SpinnerIsBacked == Spec => []SpinnerHasOwner
<1>1. Init => SpinnerHasOwner
  BY DEF Init, SpinnerHasOwner
<1>2. SpinnerHasOwner /\ UNCHANGED vars => SpinnerHasOwner'
  BY DEF SpinnerHasOwner, vars
<1>3. QED
  BY <1>1, <1>2, NextSpinner, TypeCorrect, PTL DEF Spec

-----------------------------------------------------------------------------
(* The file *)

Using == {d \in Downloads : download[d].pc \in {"write", "gallery"}}

\* Until two downloads use the file at once, the one that does is who opened it,
\* and has it whole before it is copied.
FileInv ==
    ~overlapped =>
      /\ torn = {}
      /\ \A d \in Using : /\ Using = {d}
                          /\ file.opener = d
                          /\ download[d].pc = "gallery" => file.whole

\* A step that brings no download to the file.
LEMMA SameFile ==
    ASSUME FileInv, UNCHANGED <<file, torn, overlapped>>,
           \A d \in Using' : d \in Using /\ download'[d].pc = download[d].pc
    PROVE  FileInv'
  BY DEF FileInv

LEMMA NextFile ==
    ASSUME TypeOK, FileInv, Next
    PROVE  FileInv'
<1>0. /\ download \in [Downloads -> DownloadType] /\ file \in FileType
      /\ overlapped \in BOOLEAN /\ torn \in SUBSET gallery
  BY Types
<1>1. ASSUME UNCHANGED <<file, torn, overlapped, download>> PROVE FileInv'
  BY <1>1, SameFile DEF Using
<1>2. CASE Rebuild \/ BarFills \/ OpenPage
  BY <1>1, <1>2 DEF Rebuild, BarFills, OpenPage
<1>3. ASSUME NEW c \in Checkouts,
             \/ TapUnlock(c) \/ Initiation(c) \/ CheckUnlockStatus(c)
             \/ PaymentFails(c) \/ PaymentCredited(c) \/ UnlockEvent(c)
      PROVE  FileInv'
  BY <1>1, <1>3 DEF TapUnlock, Initiation, Initiated, InitiationFails, CheckUnlockStatus,
                    PaymentFails, PaymentCredited, UnlockEvent
<1>4. CASE ClosePage
  <2>1. \A d \in Downloads : download'[d].pc = download[d].pc
    BY <1>0, <1>4 DEF ClosePage, Orphaned, DownloadType
  <2>2. QED
    BY <1>4, <2>1, SameFile DEF ClosePage, Using
<1>5. CASE Kill
  <2>1. Using' = {}
    BY <1>5, KillEffect DEF Using
  <2>2. QED
    BY <1>5, <2>1, SameFile DEF Kill
<1>6. ASSUME NEW d \in Downloads, UNCHANGED <<file, torn, overlapped>>,
             \A e \in Downloads \ {d} : download'[e] = download[e],
             download'[d].pc \notin {"write", "gallery"}
      PROVE  FileInv'
  BY <1>6, SameFile DEF Using
<1>7. ASSUME NEW d \in Downloads, NEW to, Moves(d, to)
      PROVE  download'[d].pc = to /\ \A e \in Downloads \ {d} : download'[e] = download[e]
  BY <1>0, <1>7 DEF Moves, DownloadType
<1>8. ASSUME NEW d \in Downloads, TapDownload(d) PROVE FileInv'
  <2>1. download'[d].pc = "permission" /\ \A e \in Downloads \ {d} : download'[e] = download[e]
    BY <1>0, <1>8 DEF TapDownload
  <2>2. QED
    BY <1>6, <1>8, <2>1 DEF TapDownload
<1>9. ASSUME NEW d \in Downloads, Permission(d) PROVE FileInv'
  <2>1. CASE Moves(d, "over")
    BY <1>6, <1>7, <1>9, <2>1 DEF Permission, PermissionDenied, PermissionGranted
  <2>2. CASE Moves(d, "transfer")
    BY <1>6, <1>7, <1>9, <2>2 DEF Permission, PermissionDenied, PermissionGranted
  <2>3. QED
    BY <1>9, <2>1, <2>2 DEF Permission, PermissionDenied, PermissionGranted
<1>10. ASSUME NEW d \in Downloads,
              GalleryRefuses(d) \/ StorageFails(d) \/ TransferFails(d) \/ CountEnds(d)
       PROVE  FileInv'
  <2>1. Moves(d, "over") /\ UNCHANGED <<file, torn, overlapped>>
    BY <1>10 DEF GalleryRefuses, StorageFails, TransferFails, CountEnds, Ends
  <2>2. QED
    BY <1>6, <1>7, <2>1
<1>11. ASSUME NEW d \in Downloads, WriteEnds(d) PROVE FileInv'
  <2>1. /\ download[d].pc = "write" /\ download'[d].pc = "gallery"
        /\ \A e \in Downloads \ {d} : download'[e] = download[e]
        /\ UNCHANGED <<torn, overlapped>>
    BY <1>7, <1>11 DEF WriteEnds
  <2>2. file'.opener = file.opener /\ file'.whole = (file.whole \/ file.opener = d)
    BY <1>0, <1>11 DEF WriteEnds, WholeAfter, FileType
  <2>3. Using' = Using /\ d \in Using
    BY <2>1 DEF Using
  <2>4. QED
    BY <2>1, <2>2, <2>3 DEF FileInv
<1>12. ASSUME NEW d \in Downloads, PutImage(d) PROVE FileInv'
  <2>1. /\ download[d].pc = "gallery" /\ download'[d].pc = "count"
        /\ \A e \in Downloads \ {d} : download'[e] = download[e]
        /\ UNCHANGED <<file, overlapped>>
    BY <1>7, <1>12 DEF PutImage
  <2>2. d \in Using /\ Using' \subseteq Using /\ d \notin Using'
    BY <2>1 DEF Using
  <2>3. ASSUME ~overlapped PROVE UNCHANGED torn
    BY <1>12, <2>1, <2>2, <2>3 DEF PutImage, FileInv
  <2>4. QED
    BY <2>1, <2>2, <2>3 DEF FileInv
<1>13. ASSUME NEW d \in Downloads, TransferEnds(d) PROVE FileInv'
  <2>1. /\ download[d].pc = "transfer" /\ download'[d].pc = "write"
        /\ \A e \in Downloads \ {d} : download'[e] = download[e]
        /\ file' = [opener |-> d, whole |-> FALSE] /\ UNCHANGED torn
        /\ overlapped' = (overlapped \/ Using # {})
    BY <1>7, <1>13 DEF TransferEnds, Using
  <2>2. Using' = Using \cup {d}
    BY <2>1 DEF Using
  <2>3. QED
    BY <1>0, <2>1, <2>2 DEF FileInv
<1>14. QED
  BY <1>2, <1>3, <1>4, <1>5, <1>8, <1>9, <1>10, <1>11, <1>12, <1>13
     DEF Next, OnDevice, OverNetwork

\* However many downloads, failed writes and kills: as long as the one file is used
\* by one download at a time, what is in the gallery is whole.
THEOREM CopiesAreWhole == Spec => []SavedIsWhole
<1>1. Init => FileInv
  BY DEF Init, FileInv, Using
<1>2. FileInv /\ UNCHANGED vars => FileInv'
  BY DEF FileInv, Using, vars
<1>3. FileInv => SavedIsWhole
  BY DEF FileInv, SavedIsWhole
<1>4. QED
  BY <1>1, <1>2, <1>3, NextFile, TypeCorrect, PTL DEF Spec

-----------------------------------------------------------------------------
(* What was paid for *)

Paid == \E c \in Checkouts : checkout[c].stage \in Credited

\* What belongs to no page is not of this one, checkouts are of premium wallpapers,
\* what is unlocked is owned, and owned or downloaded is paid for.
PaidInv ==
    /\ ~open => /\ \A d \in Downloads : ~download[d].here
                /\ \A c \in Checkouts : ~checkout[c].here /\ ~checkout[c].timer
    /\ \A c \in Checkouts : checkout[c].stage # "unused" => premium
    /\ \A c \in Checkouts : checkout[c].timer => checkout[c].stage # "unused"
    /\ \A c \in Checkouts : checkout[c].stage = "credited" => owned
    /\ kept => owned
    /\ owned => Paid
    /\ open /\ page.unlocked => owned
    /\ premium => \A d \in Downloads :
                    /\ download[d].pc \notin {"unused", "over"} => Paid
                    /\ download[d].here /\ download[d].pc # "over" => page.unlocked
    /\ premium /\ gallery # {} => Paid
    /\ \A d \in Downloads : download[d].here => download[d].pc # "unused"
    /\ open /\ page.complete => button.done /\ (premium => page.unlocked)

\* A step of a download, with what it may do to the page.
LEMMA DownloadPaid ==
    ASSUME TypeOK, PaidInv, UNCHANGED <<premium, owned, kept, open, checkout>>,
           NEW d \in Downloads, \A e \in Downloads \ {d} : download'[e] = download[e],
           download[d].pc \notin {"unused", "over"},
           download'[d].pc # "unused", download'[d].here = download[d].here,
           gallery' = gallery \/ gallery' = gallery \cup {d},
           \/ UNCHANGED <<page, button>>
           \/ /\ page'.unlocked = page.unlocked
              /\ page'.complete => download[d].here /\ button'.done
    PROVE  PaidInv'
<1>1. Paid' = Paid
  BY DEF Paid, Credited
<1>2. \A e \in Downloads : download'[e].here = download[e].here
  OBVIOUS
<1>3. /\ ~open' => /\ \A e \in Downloads : ~download'[e].here
                   /\ \A c \in Checkouts : ~checkout'[c].here /\ ~checkout'[c].timer
      /\ \A c \in Checkouts : checkout'[c].stage # "unused" => premium'
      /\ \A c \in Checkouts : checkout'[c].timer => checkout'[c].stage # "unused"
      /\ \A c \in Checkouts : checkout'[c].stage = "credited" => owned'
      /\ kept' => owned'
      /\ owned' => Paid'
      /\ open' /\ page'.unlocked => owned'
      /\ \A e \in Downloads : download'[e].here => download'[e].pc # "unused"
  BY <1>1, <1>2 DEF PaidInv
<1>4. premium' /\ gallery' # {} => Paid'
  BY <1>1 DEF PaidInv
<1>5. premium' => \A e \in Downloads :
                    /\ download'[e].pc \notin {"unused", "over"} => Paid'
                    /\ download'[e].here /\ download'[e].pc # "over" => page'.unlocked
  BY <1>1 DEF PaidInv
<1>6. open' /\ page'.complete => button'.done /\ (premium' => page'.unlocked)
  BY DEF PaidInv
<1>7. QED
  BY <1>3, <1>4, <1>5, <1>6 DEF PaidInv

\* A step of a checkout that leaves the page and the preference alone.
LEMMA CheckoutPaid ==
    ASSUME TypeOK, PaidInv,
           UNCHANGED <<premium, owned, kept, open, page, download, gallery>>, NEW c \in Checkouts,
           button'.done = button.done,
           \A e \in Checkouts \ {c} : checkout'[e] = checkout[e],
           premium,
           checkout'[c].stage \notin {"unused", "credited"},
           checkout[c].stage \notin Credited,
           checkout'[c].here \/ checkout'[c].timer => open
    PROVE  PaidInv'
<1>1. Paid' \/ ~Paid
  BY DEF Paid, Credited
<1>2. QED
  BY <1>1 DEF PaidInv

LEMMA SetStateKeeps ==
    ASSUME TypeOK, NEW p \in PageType, SetState(p)
    PROVE  /\ page' = p
           /\ p.unlocked = page.unlocked => button'.done = p.complete
  BY Types DEF SetState, Done, ButtonType

LEMMA NextPaid ==
    ASSUME TypeOK, PaidInv, Next
    PROVE  PaidInv'
<1>0. /\ premium \in BOOLEAN /\ owned \in BOOLEAN /\ kept \in BOOLEAN /\ open \in BOOLEAN
      /\ page \in PageType /\ button \in ButtonType
      /\ download \in [Downloads -> DownloadType]
      /\ checkout \in [Checkouts -> CheckoutType]
  BY Types
<1>1. CASE Rebuild
  <2>1. UNCHANGED page /\ button'.done = page.complete
    BY <1>0, <1>1, SetStateKeeps DEF Rebuild
  <2>2. UNCHANGED <<premium, owned, kept, open, download, checkout, gallery>> /\ Paid' = Paid
    BY <1>1 DEF Rebuild, Paid
  <2>3. QED
    BY <2>1, <2>2 DEF PaidInv
<1>2. CASE BarFills
  <2>1. button'.done /\ UNCHANGED <<premium, owned, kept, open, page, download, checkout, gallery>>
    BY <1>2 DEF BarFills
  <2>2. Paid' = Paid
    BY <2>1 DEF Paid, Credited
  <2>3. QED
    BY <2>1, <2>2 DEF PaidInv
<1>3. CASE OpenPage
  <2>1. /\ ~open /\ page'.unlocked = owned /\ ~page'.complete
        /\ UNCHANGED <<premium, owned, kept, download, checkout, gallery>>
    BY <1>3 DEF OpenPage, NewPage
  <2>2. Paid' = Paid
    BY <2>1 DEF Paid, Credited
  <2>3. QED
    BY <2>1, <2>2 DEF PaidInv
<1>4. CASE ClosePage
  <2>1. /\ ~open' /\ UNCHANGED <<premium, owned, kept, gallery>>
        /\ \A d \in Downloads : ~download'[d].here /\ download'[d].pc = download[d].pc
        /\ \A c \in Checkouts : /\ ~checkout'[c].here /\ ~checkout'[c].timer
                                /\ checkout'[c].stage = checkout[c].stage
    BY <1>0, <1>4 DEF ClosePage, Orphaned, DownloadType, CheckoutType
  <2>2. Paid' = Paid
    BY <2>1 DEF Paid, Credited
  <2>3. QED
    BY <2>1, <2>2 DEF PaidInv
<1>5. CASE Kill
  <2>1. ~open' /\ UNCHANGED <<premium, gallery>> /\ (owned' => owned) /\ kept' = owned'
    BY <1>0, <1>5 DEF Kill, Reloaded, PaidInv
  <2>2. Paid => Paid'
    BY <1>5, KillEffect DEF Paid, Credited
  <2>3. /\ \A d \in Downloads :
             /\ download'[d].pc \in {"unused", "over"}
             /\ ~download'[d].here
    BY <1>5, KillEffect DEF PaidInv
  <2>4. \A c \in Checkouts :
          /\ ~checkout'[c].here /\ ~checkout'[c].timer /\ checkout'[c].stage # "credited"
          /\ checkout'[c].stage # "unused" => checkout[c].stage # "unused"
    BY <1>5, KillEffect
  <2>5. QED
    BY <2>1, <2>2, <2>3, <2>4 DEF PaidInv
<1>6. ASSUME NEW d \in Downloads, TapDownload(d) PROVE PaidInv'
  <2>1. /\ open /\ (premium => page.unlocked)
        /\ download'[d].pc = "permission"
        /\ \A e \in Downloads \ {d} : download'[e] = download[e]
        /\ button'.done = button.done
        /\ UNCHANGED <<premium, owned, kept, open, page, checkout, gallery>>
    BY <1>0, <1>6 DEF TapDownload, Tappable, CanDownload, Tapped, ButtonType
  <2>2. Paid' = Paid
    BY <2>1 DEF Paid, Credited
  <2>3. premium => Paid
    BY <2>1 DEF PaidInv
  <2>4. QED
    BY <2>1, <2>2, <2>3 DEF PaidInv
<1>7. ASSUME NEW d \in Downloads, NEW to \in {"over"} \cup Working, Moves(d, to),
             download[d].pc \notin {"unused", "over"},
             UNCHANGED <<premium, owned, kept, open, checkout>>,
             gallery' = gallery \/ gallery' = gallery \cup {d},
             \/ UNCHANGED <<page, button>>
             \/ /\ page'.unlocked = page.unlocked
                /\ page'.complete => download[d].here /\ button'.done
      PROVE  PaidInv'
  <2>1. /\ download'[d].pc = to /\ download'[d].here = download[d].here
        /\ \A e \in Downloads \ {d} : download'[e] = download[e]
    BY <1>0, <1>7, Moved
  <2>2. download'[d].pc # "unused"
    BY <2>1 DEF Working
  <2>3. QED
    BY <1>7, <2>1, <2>2, DownloadPaid
<1>8. ASSUME NEW d \in Downloads, PermissionDenied(d) PROVE PaidInv'
  BY <1>7, <1>8 DEF PermissionDenied
<1>9. ASSUME NEW d \in Downloads, PermissionGranted(d) PROVE PaidInv'
  <2>1. CASE download[d].here
    <3>1. PICK p \in PageType : p = [page EXCEPT !.downloading = TRUE, !.complete = FALSE]
      BY <1>0 DEF PageType
    <3>2. page' = p /\ ~p.complete /\ p.unlocked = page.unlocked
      BY <1>0, <1>9, <2>1, <3>1 DEF PermissionGranted, SetState, PageType
    <3>3. Moves(d, "transfer") /\ "transfer" \in Working
      BY <1>9, <2>1 DEF PermissionGranted, Working
    <3>4. QED
      BY <1>7, <1>9, <3>2, <3>3 DEF PermissionGranted
  <2>2. CASE ~download[d].here
    BY <1>7, <1>9, <2>2 DEF PermissionGranted
  <2>3. QED
    BY <2>1, <2>2
<1>10. ASSUME NEW d \in Downloads, WriteEnds(d) \/ PutImage(d) \/ TransferEnds(d)
       PROVE  PaidInv'
  <2>1. /\ download[d].pc \notin {"unused", "over"}
        /\ \E to \in Working : Moves(d, to)
        /\ UNCHANGED <<premium, owned, kept, open, checkout, page, button>>
        /\ gallery' = gallery \/ gallery' = gallery \cup {d}
    BY <1>10 DEF WriteEnds, PutImage, TransferEnds, Working
  <2>2. QED
    BY <1>7, <2>1
<1>11. ASSUME NEW d \in Downloads,
              GalleryRefuses(d) \/ StorageFails(d) \/ TransferFails(d) \/ CountEnds(d)
       PROVE  PaidInv'
  <2>1. PICK p \in {Failed, Completed} : Ends(d, p) /\ download[d].pc \notin {"unused", "over"}
    BY <1>11 DEF GalleryRefuses, StorageFails, TransferFails, CountEnds
  <2>2. Moves(d, "over") /\ UNCHANGED <<premium, owned, kept, open, checkout, gallery>>
    BY <2>1 DEF Ends
  <2>3. CASE ~download[d].here
    BY <1>7, <2>1, <2>2, <2>3 DEF Ends
  <2>4. CASE download[d].here
    <3>1. p \in PageType /\ p.unlocked = page.unlocked
      BY <1>0, <2>1 DEF Failed, Completed, PageType
    <3>2. page' = p /\ button'.done = p.complete
      BY <2>1, <2>4, <3>1, SetStateKeeps DEF Ends
    <3>3. page'.unlocked = page.unlocked /\ page'.complete = button'.done
      BY <3>1, <3>2
    <3>4. QED
      BY <1>7, <2>1, <2>2, <2>4, <3>3
  <2>5. QED
    BY <2>3, <2>4
<1>12. ASSUME NEW c \in Checkouts, TapUnlock(c) PROVE PaidInv'
  <2>1. /\ open /\ premium /\ checkout[c].stage = "unused"
        /\ checkout'[c].stage = "opening"
        /\ \A e \in Checkouts \ {c} : checkout'[e] = checkout[e]
        /\ button'.done = button.done
        /\ UNCHANGED <<premium, owned, kept, open, page, download, gallery>>
    BY <1>0, <1>12 DEF TapUnlock, Tappable, CanDownload, Tapped, ButtonType, CheckoutType
  <2>2. QED
    BY <2>1, CheckoutPaid DEF Credited
<1>13. ASSUME NEW c \in Checkouts, Initiation(c) PROVE PaidInv'
  <2>1. /\ checkout[c].stage = "opening" /\ checkout'[c].stage \in {"open", "refused"}
        /\ \A e \in Checkouts \ {c} : checkout'[e] = checkout[e]
        /\ checkout'[c].here = checkout[c].here
        /\ checkout'[c].timer \in {checkout[c].here, checkout[c].timer}
        /\ UNCHANGED <<premium, owned, kept, open, page, button, download, gallery>>
    BY <1>0, <1>13 DEF Initiation, Initiated, InitiationFails, CheckoutType
  <2>2. premium /\ (checkout'[c].here \/ checkout'[c].timer => open)
    BY <1>0, <2>1 DEF PaidInv
  <2>3. QED
    BY <2>1, <2>2, CheckoutPaid DEF Credited
<1>14. ASSUME NEW c \in Checkouts, PaymentFails(c) PROVE PaidInv'
  <2>1. /\ checkout[c].stage = "open" /\ checkout'[c].stage = "over"
        /\ \A e \in Checkouts \ {c} : checkout'[e] = checkout[e]
        /\ checkout'[c].here = checkout[c].here /\ checkout'[c].timer = checkout[c].timer
        /\ UNCHANGED <<premium, owned, kept, open, page, button, download, gallery>>
    BY <1>0, <1>14 DEF PaymentFails, CheckoutType
  <2>2. premium /\ (checkout'[c].here \/ checkout'[c].timer => open)
    BY <1>0, <2>1 DEF PaidInv
  <2>3. QED
    BY <2>1, <2>2, CheckoutPaid DEF Credited
<1>15. ASSUME NEW c \in Checkouts, PaymentCredited(c) PROVE PaidInv'
  <2>1. /\ checkout[c].stage = "open" /\ checkout'[c].stage = "credited"
        /\ \A e \in Checkouts \ {c} : checkout'[e] = checkout[e]
        /\ checkout'[c].here = checkout[c].here /\ checkout'[c].timer = checkout[c].timer
        /\ owned'
        /\ UNCHANGED <<premium, kept, open, page, button, download, gallery>>
    BY <1>0, <1>15 DEF PaymentCredited, CheckoutType
  <2>2. Paid'
    BY <2>1 DEF Paid, Credited
  <2>3. QED
    BY <2>1, <2>2 DEF PaidInv
<1>16. ASSUME NEW c \in Checkouts, UnlockEvent(c) PROVE PaidInv'
  <2>1. /\ checkout[c].stage = "credited" /\ checkout'[c].stage = "told"
        /\ \A e \in Checkouts \ {c} : checkout'[e] = checkout[e]
        /\ checkout'[c].here = checkout[c].here /\ checkout'[c].timer = checkout[c].timer
        /\ UNCHANGED <<premium, owned, open, download, gallery>>
    BY <1>0, <1>16 DEF UnlockEvent, CheckoutType
  <2>2. Paid' /\ owned
    BY <2>1 DEF Paid, Credited, PaidInv
  <2>3. open => page'.unlocked /\ ~page'.complete
    BY <1>0, <1>16 DEF UnlockEvent, SetState, PageType
  <2>4. QED
    BY <2>1, <2>2, <2>3 DEF PaidInv
<1>17. ASSUME NEW c \in Checkouts, CheckUnlockStatus(c) PROVE PaidInv'
  <2>1. /\ checkout[c].timer /\ ~checkout'[c].timer
        /\ checkout'[c].stage = checkout[c].stage /\ checkout'[c].here = checkout[c].here
        /\ \A e \in Checkouts \ {c} : checkout'[e] = checkout[e]
        /\ UNCHANGED <<premium, owned, kept, open, download, gallery>>
    BY <1>0, <1>17 DEF CheckUnlockStatus, CheckoutType
  <2>2. premium /\ open
    BY <1>0, <2>1 DEF PaidInv
  <2>3. Paid' = Paid
    BY <2>1 DEF Paid, Credited
  <2>4. PICK p \in PageType : /\ p = [page EXCEPT !.unlocked = owned]
                              /\ p.unlocked = owned /\ p.complete = page.complete
    <3>1. /\ [page EXCEPT !.unlocked = owned] \in PageType
          /\ [page EXCEPT !.unlocked = owned].unlocked = owned
          /\ [page EXCEPT !.unlocked = owned].complete = page.complete
      BY <1>0 DEF PageType
    <3>2. QED
      BY <3>1
  <2>5. SetState(p)
    BY <1>17, <2>4 DEF CheckUnlockStatus
  <2>6. /\ page'.unlocked = owned /\ page'.complete = page.complete
        /\ owned = page.unlocked => button'.done = page.complete
    BY <2>4, <2>5, SetStateKeeps
  <2>7. (\E d \in Downloads : download[d].here /\ download[d].pc # "over") => owned
    BY <2>2 DEF PaidInv
  <2>8. page.complete => owned /\ page.unlocked
    BY <2>2 DEF PaidInv
  <2>9. page'.complete => button'.done /\ page'.unlocked
    BY <1>0, <2>6, <2>8 DEF PageType
  <2>10. QED
    BY <2>1, <2>2, <2>3, <2>6, <2>7, <2>9 DEF PaidInv
<1>18. QED
  BY <1>1, <1>2, <1>3, <1>4, <1>5, <1>6, <1>8, <1>9, <1>10, <1>11, <1>12, <1>13, <1>14,
     <1>15, <1>16, <1>17 DEF Next, Permission, OnDevice, OverNetwork

LEMMA PaidInvariant == Spec => []PaidInv
<1>1. Init => PaidInv
  BY DEF Init, PaidInv, NewPage, Paid
<1>2. PaidInv /\ UNCHANGED vars => PaidInv'
  BY DEF PaidInv, Paid, vars
<1>3. QED
  BY <1>1, <1>2, NextPaid, TypeCorrect, PTL DEF Spec

\* Whatever relabelled or replaced the button, a page with its check mark has it
\* disabled.
THEOREM CheckMarkIsFinal == Spec => []CheckMarkDisables
<1>1. PaidInv => CheckMarkDisables
  BY DEF PaidInv, CheckMarkDisables
<1>2. QED
  BY <1>1, PaidInvariant, PTL

\* The two things a visitor reads off the button: it is disabled by nothing but a
\* download of this page that is under way, and it is disabled once one is done.
THEOREM ButtonTellsTheTruth == Spec => []ButtonIsRight
  BY SpinnerIsBacked, CheckMarkIsFinal, PTL DEF ButtonIsRight

\* A premium wallpaper is in the gallery only after one of its checkouts was
\* credited, whichever pages, delayed checks, events and kills came between.
THEOREM SavedIsPaid == Spec => []NothingSavedUnpaid
<1>1. PaidInv => NothingSavedUnpaid
  BY DEF PaidInv, Paid, NothingSavedUnpaid
<1>2. QED
  BY <1>1, PaidInvariant, PTL

-----------------------------------------------------------------------------
(* The page's part of the sale is a sale *)

SaleVars ==
    <<Bought, {w \in {"this"} : owned}, {w \in {"this"} : kept}, Told>>

\* What the page sees of the sale depends on the stages of its checkouts and on the
\* preference.
LEMMA SaleStutters ==
    ASSUME UNCHANGED <<owned, kept>>,
           \A c \in Checkouts :
             /\ checkout'[c].stage \in Credited <=> checkout[c].stage \in Credited
             /\ checkout'[c].stage = "told" <=> checkout[c].stage = "told"
    PROVE  UNCHANGED SaleVars
<1>1. Bought' = Bought /\ Told' = Told
  BY DEF Bought, Told
<1>2. QED
  BY <1>1 DEF SaleVars

\* A credited payment is a sale.
LEMMA CreditIsCredit ==
    ASSUME TypeOK, NEW c \in Checkouts, PaymentCredited(c)
    PROVE  Sale!Credit(c, "this")
<1>1. checkout \in [Checkouts -> CheckoutType]
  BY Types
<1>2. /\ checkout[c].stage = "open" /\ checkout'[c].stage = "credited"
      /\ \A e \in Checkouts \ {c} : checkout'[e] = checkout[e]
      /\ owned' = TRUE /\ kept' = kept
  BY <1>1 DEF PaymentCredited, CheckoutType
<1>3. \A v \in {"this"} : <<c, v>> \notin Bought
  BY <1>2 DEF Bought, Credited
<1>4. Bought' = Bought \cup {<<c, "this">>}
  BY <1>2 DEF Bought, Credited
<1>5. Told' = Told
  BY <1>2 DEF Told
<1>6. /\ {w \in {"this"} : owned}' = {w \in {"this"} : owned} \cup {"this"}
      /\ {w \in {"this"} : kept}' = {w \in {"this"} : kept}
  BY <1>2
<1>7. QED
  BY <1>3, <1>4, <1>5, <1>6 DEF Sale!Credit

\* The event that the page gets is the news of it.
LEMMA EventIsTell ==
    ASSUME TypeOK, PaidInv, NEW c \in Checkouts, UnlockEvent(c)
    PROVE  Sale!Tell(c, "this")
<1>1. checkout \in [Checkouts -> CheckoutType]
  BY Types
<1>2. /\ checkout[c].stage = "credited" /\ checkout'[c].stage = "told"
      /\ \A e \in Checkouts \ {c} : checkout'[e] = checkout[e]
      /\ owned' = owned /\ kept' = TRUE
  BY <1>1 DEF UnlockEvent, CheckoutType
<1>3. owned
  BY <1>2 DEF PaidInv
<1>4. <<c, "this">> \in Bought /\ Bought' = Bought
  BY <1>2 DEF Bought, Credited
<1>5. Told' = Told \cup {c}
  BY <1>2 DEF Told
<1>6. /\ "this" \in {w \in {"this"} : owned}
      /\ {w \in {"this"} : owned}' = {w \in {"this"} : owned}
      /\ {w \in {"this"} : kept}' = {w \in {"this"} : kept} \cup {"this"}
  BY <1>2, <1>3
<1>7. QED
  BY <1>4, <1>5, <1>6 DEF Sale!Tell

\* A kill keeps what was on disk and, perhaps, what was on its way there.
LEMMA KillIsKill ==
    ASSUME TypeOK, PaidInv, Kill
    PROVE  Sale!Kill
<1>1. kept' = owned' /\ (owned' => owned) /\ (kept => owned')
  BY DEF Kill, Reloaded, PaidInv
<1>2. Bought' = Bought /\ Told' = Told
  BY KillEffect DEF Bought, Told
<1>3. /\ {w \in {"this"} : owned}' \in SUBSET {w \in {"this"} : owned}
      /\ {w \in {"this"} : kept} \subseteq {w \in {"this"} : owned}'
      /\ {w \in {"this"} : kept}' = {w \in {"this"} : owned}'
  BY <1>1
<1>4. QED
  BY <1>2, <1>3 DEF Sale!Kill

LEMMA OtherStepsStutter ==
    ASSUME TypeOK, Next, ~Kill,
           \A c \in Checkouts : ~PaymentCredited(c) /\ ~UnlockEvent(c)
    PROVE  UNCHANGED SaleVars
<1>0. checkout \in [Checkouts -> CheckoutType]
  BY Types
<1>1. CASE Rebuild \/ BarFills \/ OpenPage
  BY <1>1, SaleStutters DEF Rebuild, BarFills, OpenPage
<1>2. CASE ClosePage
  <2>1. \A c \in Checkouts : checkout'[c].stage = checkout[c].stage
    BY <1>0, <1>2 DEF ClosePage, Orphaned, CheckoutType
  <2>2. QED
    BY <1>2, <2>1, SaleStutters DEF ClosePage
<1>3. ASSUME NEW d \in Downloads,
             TapDownload(d) \/ Permission(d) \/ OnDevice(d) \/ OverNetwork(d)
      PROVE  UNCHANGED <<owned, kept, checkout>>
  BY <1>3 DEF TapDownload, Permission, PermissionDenied, PermissionGranted, OnDevice,
              WriteEnds, PutImage, GalleryRefuses, StorageFails, OverNetwork,
              TransferEnds, TransferFails, CountEnds, Ends
<1>4. ASSUME NEW c \in Checkouts,
             TapUnlock(c) \/ Initiation(c) \/ CheckUnlockStatus(c) \/ PaymentFails(c)
      PROVE  UNCHANGED SaleVars
  <2>1. /\ UNCHANGED <<owned, kept>>
        /\ \A e \in Checkouts \ {c} : checkout'[e] = checkout[e]
    BY <1>0, <1>4 DEF TapUnlock, Initiation, Initiated, InitiationFails,
                      CheckUnlockStatus, PaymentFails
  <2>2. \/ checkout'[c].stage = checkout[c].stage
        \/ /\ checkout[c].stage \in {"unused", "opening", "open"}
           /\ checkout'[c].stage \in {"opening", "open", "refused", "over"}
    BY <1>0, <1>4 DEF TapUnlock, Initiation, Initiated, InitiationFails,
                      CheckUnlockStatus, PaymentFails, CheckoutType
  <2>3. QED
    BY <2>1, <2>2, SaleStutters DEF Credited
<1>5. QED
  BY <1>1, <1>2, <1>3, <1>4, SaleStutters DEF Next

\* What a detail page sees is the sale of its wallpaper: payments that come in for
\* pages that are gone or for processes that died count once each, nothing but a
\* payment unlocks, and no kill takes back what the page was told of.
THEOREM RefinesPurchase == Spec => ImplementsPurchase
<1>1. Init => Sale!Init
  BY DEF Init, Sale!Init, Bought, Told, Credited
<1>2. TypeOK /\ PaidInv /\ [Next]_vars => [Sale!Next]_SaleVars
  <2>1. SUFFICES ASSUME TypeOK, PaidInv, [Next]_vars
                 PROVE  Sale!Next \/ UNCHANGED SaleVars
    OBVIOUS
  <2>2. CASE Kill
    BY <2>1, <2>2, KillIsKill DEF Sale!Next
  <2>3. CASE \E c \in Checkouts : PaymentCredited(c)
    BY <2>1, <2>3, CreditIsCredit DEF Sale!Next
  <2>4. CASE \E c \in Checkouts : UnlockEvent(c)
    BY <2>1, <2>4, EventIsTell DEF Sale!Next
  <2>5. CASE UNCHANGED vars
    BY <2>5, SaleStutters DEF vars
  <2>6. QED
    BY <2>1, <2>2, <2>3, <2>4, <2>5, OtherStepsStutter
<1>3. QED
  BY <1>1, <1>2, TypeCorrect, PaidInvariant, PTL DEF Spec, ImplementsPurchase, Sale!Spec,
     Sale!vars, SaleVars
=============================================================================
