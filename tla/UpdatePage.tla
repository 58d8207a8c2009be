------------------------------ MODULE UpdatePage ------------------------------
(***************************************************************************)
(* The self-update: the navigator's stack with home_page.dart's offer of   *)
(* an update, the UpdatePage and its progress dialogs, and the downloads   *)
(* of UpdateService that outlive the routes they were started from.        *)
(*                                                                         *)
(* A route is gone at once when popped; its exit animation is left out.    *)
(***************************************************************************)
EXTENDS SequencesExt, VersionOrder

CONSTANTS Pages,       \* BOUND: the UpdatePages a behaviour may open
          Downloads,   \* BOUND: the calls of _downloadUpdate
          Installed,   \* the version that runs
          Releases,    \* the versions the server may name
          None         \* no page, no token

ASSUME NoneAssumption == None \notin Pages \cup Downloads
ASSUME VersionsAssumption == Installed \in Version /\ Releases \subseteq Version

VARIABLES routes,      \* the navigator above the home page, top last
          offered,     \* home_page's one check for an update has answered
          page,        \* the UpdatePages' States
          download,    \* the calls of _downloadUpdate
          cancelled,   \* the CancelTokens, named by their call, cancelled
          covered,     \* history: the offer came up during a download
          joined,      \* history: calls that ran beside another of their page
          declined     \* history: where a call stood that ran alone when its
                       \* user was told "Download canceled"

vars == <<routes, offered, page, download, cancelled, covered,
          joined, declined>>

Route == [kind : {"settings", "offer"}, of : {None}]
           \cup [kind : {"page", "progress"}, of : Pages]

Settings == [kind |-> "settings", of |-> None]
Offer == [kind |-> "offer", of |-> None]
PageRoute(p) == [kind |-> "page", of |-> p]
Progress(p) == [kind |-> "progress", of |-> p]

(* A download asks for permissions, transfers, verifies the file, installs. *)
Running == {"asking", "transfer", "verify", "install"}

\* The page's own message for a check that fails is never up.
TypeOK ==
    /\ routes \in Seq(Route)
    /\ offered \in BOOLEAN
    /\ page \in [Pages -> [opened : BOOLEAN,
                           check : {"none", "checking", "found"},
                           token : Downloads \cup {None}]]
    /\ download \in [Downloads -> [pc : {"unused", "over"} \cup Running,
                                   page : Pages \cup {None},
                                   token : Downloads \cup {None}]]
    /\ cancelled \in SUBSET Downloads
    /\ covered \in BOOLEAN
    /\ joined \in SUBSET Downloads
    /\ declined \in [Downloads -> Running \cup {"no"}]

Init ==
    /\ routes = <<>>
    /\ offered = FALSE
    /\ page = [p \in Pages |-> [opened |-> FALSE, check |-> "none", token |-> None]]
    /\ download = [d \in Downloads |-> [pc |-> "unused", page |-> None, token |-> None]]
    /\ cancelled = {}
    /\ covered = FALSE
    /\ joined = {}
    /\ declined = [d \in Downloads |-> "no"]

OnTop(r) == routes # <<>> /\ Last(routes) = r
Mounted(p) == Contains(routes, PageRoute(p))
Push(r) == routes' = Append(routes, r)
Pop == routes' = Front(routes)

-----------------------------------------------------------------------------
(* Moving about *)

OpenSettings ==
    /\ routes = <<>>
    /\ Push(Settings)
    /\ UNCHANGED <<offered, page, download, cancelled, covered, joined, declined>>

\* Mutant: checkForUpdate() lets its errors through, and the page shows one.
OutcomesOrError ==
    {"none", "error"} \cup {"found" : v \in {r \in Releases : IsNewerVersion(r, Installed)}}

\* checkForUpdate(): an update is found if the release is newer; an error (of the
\* network, or of a version that is not numbers) counts as none.
Outcomes ==
    {"none"} \cup {"found" : v \in {r \in Releases : IsNewerVersion(r, Installed)}}

\* From the settings: nothing is known of an update yet.
OpenPage(p) ==
    /\ OnTop(Settings)
    /\ ~page[p].opened
    /\ page' = [page EXCEPT ![p].opened = TRUE]
    /\ Push(PageRoute(p))
    /\ UNCHANGED <<offered, download, cancelled, covered, joined, declined>>

\* The check of the home page answers whenever it does, wherever the user is by
\* then; an update brings the offer up, over whatever is on top.
HomeCheckAnswers ==
    /\ ~offered
    /\ offered' = TRUE
    /\ \/ /\ "found" \in Outcomes
          /\ Push(Offer)
          /\ covered' = (covered \/ \E d \in Downloads : download[d].pc \in Running)
       \/ UNCHANGED <<routes, covered>>
    /\ UNCHANGED <<page, download, cancelled, joined, declined>>

\* "Update Now": the offer goes, a page that knows the update comes.
UpdateNow(p) ==
    /\ OnTop(Offer)
    /\ ~page[p].opened
    /\ routes' = Append(Front(routes), PageRoute(p))
    /\ page' = [page EXCEPT ![p].opened = TRUE, ![p].check = "found"]
    /\ UNCHANGED <<offered, download, cancelled, covered, joined, declined>>

\* The system's back button, the page's arrow, "Later": a progress dialog is
\* popped too (only a tap beside it is barred), and its download runs on.
Back ==
    /\ routes # <<>>
    /\ Pop
    /\ UNCHANGED <<offered, page, download, cancelled, covered, joined, declined>>

CheckForUpdates(p) ==
    /\ OnTop(PageRoute(p))
    /\ page[p].check # "checking"
    /\ page' = [page EXCEPT ![p].check = "checking"]
    /\ UNCHANGED <<routes, offered, download, cancelled, covered, joined, declined>>

\* On a page that is gone setState throws, to no effect.
CheckAnswers(p) ==
    /\ page[p].check = "checking"
    /\ Mounted(p)
    /\ \E c \in Outcomes : page' = [page EXCEPT ![p].check = c]
    /\ UNCHANGED <<routes, offered, download, cancelled, covered, joined, declined>>

-----------------------------------------------------------------------------
(* _downloadUpdate *)

UnderWay(p) == {d \in Downloads : download[d].page = p /\ download[d].pc \in Running}

\* "Download Update": a new token replaces the page's; permissions are asked.
DownloadUpdate(d, p) ==
    /\ OnTop(PageRoute(p))
    /\ page[p].check = "found"
    /\ download[d].pc = "unused"
    /\ page' = [page EXCEPT ![p].token = d]
    /\ download' = [download EXCEPT ![d].pc = "asking", ![d].page = p]
    /\ joined' = IF UnderWay(p) = {} THEN joined ELSE joined \cup UnderWay(p) \cup {d}
    /\ UNCHANGED <<routes, offered, cancelled, covered, declined>>

\* Mutant: the token is not passed on.
NoToken(p) == None

TokenOf(p) == page[p].token

\* The end of the call: `finally` drops the page's token, whoever's it is by
\* then.  Once the page is disposed of, the first use of its context or ref
\* throws, in the handlers and in `finally` too.
Finally(d) ==
    /\ download' = [download EXCEPT ![d].pc = "over"]
    /\ page' = IF Mounted(download[d].page)
                 THEN [page EXCEPT ![download[d].page].token = None]
                 ELSE page

PermissionRefused(d) ==
    /\ download[d].pc = "asking"
    /\ Finally(d)
    /\ UNCHANGED <<routes, offered, cancelled, covered, joined, declined>>

\* The dialog comes up and the transfer starts, with the token the page has now.
PermissionGranted(d) ==
    LET p == download[d].page IN
    /\ download[d].pc = "asking"
    /\ IF Mounted(p)
         THEN /\ Push(Progress(p))
              /\ download' = [download EXCEPT ![d].pc = "transfer", ![d].token = TokenOf(p)]
              /\ UNCHANGED page
         ELSE Finally(d) /\ UNCHANGED routes
    /\ UNCHANGED <<offered, cancelled, covered, joined, declined>>

\* The dialog's Cancel: the page's token, if there is one, and the dialog.
Cancel(p) ==
    /\ OnTop(Progress(p))
    /\ cancelled' = cancelled \cup ({page[p].token} \ {None})
    /\ declined' = [d \in Downloads |->
                      IF d \in UnderWay(p) \ joined THEN download[d].pc
                                                   ELSE declined[d]]
    /\ Pop
    /\ UNCHANGED <<offered, page, download, covered, joined>>

\* Mutant: the dialog is left up when the download failed.
HideDialogUnlessFailed(p, ok) == IF Mounted(p) /\ ok THEN Pop ELSE UNCHANGED routes

\* "Hide download dialog": whatever route is on top is popped.
HideDialog(p, ok) == IF Mounted(p) THEN Pop ELSE UNCHANGED routes

\* downloadApk() returns null: the transfer failed or was cancelled, the file
\* is missing or is an HTML page.
DownloadFails(d) ==
    /\ download[d].pc \in {"transfer", "verify"}
    /\ HideDialog(download[d].page, FALSE)
    /\ Finally(d)
    /\ UNCHANGED <<offered, cancelled, covered, joined, declined>>

\* The transfer is complete; the token has no say from here on.
TransferEnds(d) ==
    /\ download[d].pc = "transfer"
    /\ download[d].token \notin cancelled
    /\ download' = [download EXCEPT ![d].pc = "verify"]
    /\ UNCHANGED <<routes, offered, page, cancelled, covered, joined, declined>>

\* downloadApk() returns the file: the installer is opened.
Verified(d) ==
    /\ download[d].pc = "verify"
    /\ HideDialog(download[d].page, TRUE)
    /\ IF Mounted(download[d].page)
         THEN /\ download' = [download EXCEPT ![d].pc = "install"]
              /\ UNCHANGED page
         ELSE Finally(d)
    /\ UNCHANGED <<offered, cancelled, covered, joined, declined>>

InstallEnds(d) ==
    /\ download[d].pc = "install"
    /\ Finally(d)
    /\ UNCHANGED <<routes, offered, cancelled, covered, joined, declined>>

Next ==
    \/ OpenSettings
    \/ HomeCheckAnswers
    \/ Back
    \/ \E p \in Pages :
         \/ OpenPage(p)
         \/ UpdateNow(p)
         \/ CheckForUpdates(p)
         \/ CheckAnswers(p)
         \/ Cancel(p)
         \/ \E d \in Downloads : DownloadUpdate(d, p)
    \/ \E d \in Downloads :
         \/ PermissionRefused(d)
         \/ PermissionGranted(d)
         \/ DownloadFails(d)
         \/ TransferEnds(d)
         \/ Verified(d)
         \/ InstallEnds(d)

Spec == Init /\ [][Next]_vars
-----------------------------------------------------------------------------
(* Properties *)

Count(r) == Cardinality({i \in DOMAIN routes : routes[i] = r})
Transferring(p) == {d \in UnderWay(p) : download[d].pc \in {"transfer", "verify"}}

\* No progress dialog outlives the downloads it stands for: however many were
\* started, left with Back or cancelled, a page has no more dialogs up than
\* downloads that will still pop one.  (If the offer of the home page comes up
\* during a download, it is popped in the place of the dialog under it.)
NoOrphanDialog ==
    ~covered => \A p \in Pages : Count(Progress(p)) <= Cardinality(Transferring(p))

\* A download that runs alone and whose Cancel comes before its last byte is
\* never installed, whatever is dismissed, opened or started around it.
CancelInTimeIsKept ==
    \A d \in Downloads :
      declined[d] = "transfer" => download[d].pc \notin {"verify", "install"}

\* A download is only ever stopped from the dialog of its own page, whichever pages
\* were left, opened again or downloading meanwhile, and whichever of the calls that
\* share a page's token is the one that transfers.
CancelStopsItsPageOnly ==
    [][\A d \in Downloads :
         download[d].token \in cancelled' \ cancelled => OnTop(Progress(download[d].page))]_vars

\* What the end of d's transfer takes from the screen.
Hides(d) ==
    /\ download[d].pc \in {"transfer", "verify"}
    /\ routes' # routes
    /\ download'[d].pc \in {"install", "over"}

\* "Hide download dialog": what goes when a download ends is its page's dialog.
HidesOnlyTheDialog ==
    [][\A d \in Downloads : Hides(d) => Last(routes) = Progress(download[d].page)]_vars

\* It is as long as its page has a dialog up at all, and the offer of the home page
\* has not come up over it.
HidesItsDialogWhileUp ==
    [][~covered =>
         \A d \in Downloads :
           Hides(d) /\ Count(Progress(download[d].page)) > 0
             => Last(routes) = Progress(download[d].page)]_vars
=============================================================================
