------------------------------ MODULE PexelsFeed ------------------------------
(***************************************************************************)
(* The curated feed of the Explore tab: PexelsWallpapersNotifier over the  *)
(* Pexels API and the `pexels_wallpapers` box of CacheService, with the    *)
(* triggers of explore_tab.dart.  PexelsTrendingWallpapersNotifier is the  *)
(* same code over another box.                                             *)
(*                                                                         *)
(* A page of 80 photos is one element.  The list is a bag of pages: the    *)
(* box gives entries back in the order of their keys, so order is left out *)
(* and what counts is which pages are shown, and how often.                *)
(***************************************************************************)
EXTENDS Integers

CONSTANTS LastPage,     \* pages 1 .. LastPage have photos; all but the last, 80
          MaxPage,      \* BOUND: the highest page requested
          Calls,        \* BOUND: calls of the notifier suspended at a time
          MaxRestarts   \* BOUND: how often the process dies and is relaunched

ASSUME BoundsAssumption ==
    /\ LastPage \in Nat \ {0}
    /\ MaxPage \in Nat
    /\ LastPage < MaxPage
    /\ MaxRestarts \in Nat

Pages == 1 .. LastPage

VARIABLES feed,        \* the notifier's PexelsWallpapersState
          hasLoaded,   \* _hasLoadedFromCache
          call,        \* suspended loadWallpapers() and refresh()
          timer,       \* initState's 50 ms timer is still to fire
          launched,    \* the notifier exists in this process
          box,         \* the pages in the pexels_wallpapers box
          stamp,       \* its last_update: "none", "fresh" or "old"
          restarts,
          cacheServed, \* history: the list shown was read from the box
          overlapped   \* history: the box was cleared while another call was
                       \* between its own clear() and its last_update

vars == <<feed, hasLoaded, call, timer, launched, box, stamp, restarts,
          cacheServed, overlapped>>

FeedType == [shown : [Pages -> Nat], isLoading : BOOLEAN, hasMore : BOOLEAN,
             error : BOOLEAN, currentPage : 1 .. MaxPage + 1]

(* A call is idle, waits for the network ("net"), for the box (its clear,  *)
(* the puts), or for refresh()'s own clear ("wipe").                       *)
CallType == [pc : {"idle", "net", "clear", "put", "wipe"},
             kind : {"load", "background", "pull", "retry"},
             page : 1 .. MaxPage,
             todo : SUBSET Pages]    \* the puts to come

Idle == [pc |-> "idle", kind |-> "load", page |-> 1, todo |-> {}]
NothingShown == [p \in Pages |-> 0]
\* Mutant: pages are counted from 0.
NewFeedFromZero == [shown |-> NothingShown, isLoading |-> FALSE, hasMore |-> TRUE,
                    error |-> FALSE, currentPage |-> 0]

NewFeed == [shown |-> NothingShown, isLoading |-> FALSE, hasMore |-> TRUE,
            error |-> FALSE, currentPage |-> 1]

TypeOK ==
    /\ feed \in FeedType
    /\ hasLoaded \in BOOLEAN
    /\ call \in [Calls -> CallType]
    /\ timer \in BOOLEAN
    /\ launched \in BOOLEAN
    /\ box \in SUBSET Pages
    /\ stamp \in {"none", "fresh", "old"}
    /\ restarts \in 0 .. MaxRestarts
    /\ cacheServed \in BOOLEAN
    /\ overlapped \in BOOLEAN

Init ==
    /\ feed = NewFeed
    /\ hasLoaded = FALSE
    /\ call = [c \in Calls |-> Idle]
    /\ timer = FALSE
    /\ launched = FALSE
    /\ box = {}
    /\ stamp = "none"
    /\ restarts = 0
    /\ cacheServed = FALSE
    /\ overlapped = FALSE

OnScreen == {p \in Pages : feed.shown[p] > 0}

ErrorPage == feed.error /\ OnScreen = {}

\* The photos of a page replace the list or are appended to it.
Replaced(p) == [q \in Pages |-> IF q = p THEN 1 ELSE 0]
Appended(p) == [q \in Pages |-> feed.shown[q] + (IF q = p THEN 1 ELSE 0)]

-----------------------------------------------------------------------------
(* loadWallpapers(), up to its first suspension, as call c *)

\* Every kind but "load" fetches with refresh: true.
Refreshes(c) == call[c].kind # "load"

\* The request leaves: isLoading guards against a second one.
Request(c, kind, page) ==
    call' = [call EXCEPT ![c] = [Idle EXCEPT !.pc = "net", !.kind = kind,
                                             !.page = page]]

\* Mutant: no guard.
NotLoadingUnchecked == TRUE

NotLoading == ~feed.isLoading

\* First load of a process with a fresh, non-empty box: its pages are shown and
\* page 1 is fetched in the background.
LoadFromCache(c) ==
    /\ ~hasLoaded
    /\ box # {} /\ stamp = "fresh"
    /\ feed' = [feed EXCEPT !.shown = [p \in Pages |-> IF p \in box THEN 1 ELSE 0],
                            !.isLoading = TRUE, !.error = FALSE,
                            !.currentPage = 2]
    /\ hasLoaded' = TRUE
    /\ cacheServed' = TRUE
    /\ Request(c, "background", 1)

\* Otherwise the next page is awaited.
LoadFromApi(c) ==
    /\ hasLoaded \/ box = {} \/ stamp # "fresh"
    /\ feed.currentPage <= MaxPage
    /\ feed' = [feed EXCEPT !.isLoading = TRUE, !.error = FALSE]
    /\ Request(c, "load", feed.currentPage)
    /\ UNCHANGED <<hasLoaded, cacheServed>>

LoadWallpapers(c) ==
    /\ NotLoading
    /\ call[c].pc = "idle"
    /\ LoadFromCache(c) \/ LoadFromApi(c)

-----------------------------------------------------------------------------
(* The triggers *)

\* The first build of the tab creates the notifier, whose constructor loads,
\* and initState arms a timer.
Launch(c) ==
    /\ ~launched
    /\ launched' = TRUE
    /\ timer' = TRUE
    /\ LoadWallpapers(c)
    /\ UNCHANGED <<box, stamp, restarts, overlapped>>

\* The timer fires; its loadWallpapers() returns at once if one is loading.
TimerFires(c) ==
    /\ timer
    /\ timer' = FALSE
    /\ \/ LoadWallpapers(c)
       \/ ~NotLoading /\ UNCHANGED <<feed, hasLoaded, call, cacheServed>>
    /\ UNCHANGED <<launched, box, stamp, restarts, overlapped>>

\* The list, or the trending row, is scrolled to its end (or does not fill the
\* viewport).  The scroll handlers do not look at hasMore.
Scroll(c) ==
    /\ launched
    /\ ~ErrorPage
    /\ LoadWallpapers(c)
    /\ UNCHANGED <<timer, launched, box, stamp, restarts, overlapped>>

\* refresh() starts with a clear(): by a pull, one at a time, or by Retry, which
\* is there while the feed has an error and no list.
Refresh(c, kind) ==
    /\ launched
    /\ call[c].pc = "idle"
    /\ call' = [call EXCEPT ![c] = [Idle EXCEPT !.pc = "wipe", !.kind = kind]]
    /\ UNCHANGED <<feed, hasLoaded, timer, launched, box, stamp, restarts,
                   cacheServed, overlapped>>

Pull(c) ==
    /\ \A d \in Calls : call[d].kind # "pull"
    /\ ~ErrorPage
    /\ Refresh(c, "pull")

Retry(c) == ErrorPage /\ Refresh(c, "retry")

-----------------------------------------------------------------------------
(* The continuations *)

\* Mutant: a call that is through starts over.
ReturnedToStart(c) == call' = [call EXCEPT ![c].pc = "wipe"]

Returned(c) == call' = [call EXCEPT ![c] = Idle]

\* The clear() of refresh() ends, failed or not; the flag is reset and
\* loadWallpapers(refresh: true) runs, which returns at once if one is loading.
Wipe(c) ==
    /\ call[c].pc = "wipe"
    /\ \/ /\ box' = {}
          /\ stamp' = "none"
          /\ overlapped' = (overlapped \/ \E d \in Calls : call[d].pc = "put")
       \/ UNCHANGED <<box, stamp, overlapped>>
    /\ IF NotLoading
         THEN /\ feed' = [feed EXCEPT !.isLoading = TRUE, !.error = FALSE]
              /\ Request(c, call[c].kind, 1)
         ELSE /\ Returned(c)
              /\ UNCHANGED feed
    /\ hasLoaded' = FALSE
    /\ UNCHANGED <<timer, launched, restarts, cacheServed>>

\* Mutant: a refresh counts on from where the list was.
PageAfterAlways(c) == feed.currentPage + 1

PageAfter(c) == IF Refreshes(c) THEN 2 ELSE feed.currentPage + 1

\* The page arrives.  isLoading ends here; the box is written after it.
PageArrives(c) ==
    /\ call[c].pc = "net"
    /\ LET p == call[c].page
           next == IF Refreshes(c) THEN Replaced(p) ELSE Appended(p)
       IN /\ feed' = [feed EXCEPT
                        !.shown = next, !.isLoading = FALSE, !.error = FALSE,
                        !.hasMore = p < LastPage,
                        !.currentPage = PageAfter(c)]
          /\ call' = [call EXCEPT ![c].pc = "clear",
                                  ![c].todo = {q \in Pages : next[q] > 0}]
    /\ cacheServed' = (cacheServed /\ ~Refreshes(c))
    /\ UNCHANGED <<hasLoaded, timer, launched, box, stamp, restarts, overlapped>>

\* loadWallpapers() sets its flag after the fetch it awaited; the background
\* fetch has nobody after it.
Finish(c) ==
    /\ Returned(c)
    /\ hasLoaded' = (hasLoaded \/ call[c].kind # "background")

FailedFeed == [feed EXCEPT !.isLoading = FALSE, !.error = TRUE]

\* A timeout, no network, an error status: the list stays as it was.
RequestFails(c) ==
    /\ call[c].pc = "net"
    /\ feed' = FailedFeed
    /\ Finish(c)
    /\ UNCHANGED <<timer, launched, box, stamp, restarts, cacheServed, overlapped>>

\* cachePexelsWallpapers(): clear(), the puts, last_update.
Clear(c) ==
    /\ call[c].pc = "clear"
    /\ box' = {}
    /\ stamp' = "none"
    /\ overlapped' = (overlapped \/ \E d \in Calls \ {c} : call[d].pc = "put")
    /\ call' = [call EXCEPT ![c].pc = "put"]
    /\ UNCHANGED <<feed, hasLoaded, timer, launched, restarts, cacheServed>>

Put(c) ==
    /\ call[c].pc = "put"
    /\ \E p \in call[c].todo :
         /\ box' = box \cup {p}
         /\ call' = [call EXCEPT ![c].todo = @ \ {p}]
    /\ UNCHANGED <<feed, hasLoaded, timer, launched, stamp, restarts,
                   cacheServed, overlapped>>

\* Mutant: last_update is written before the entries.
PutsDoneEarly(c) == TRUE

PutsDone(c) == call[c].todo = {}

Stamp(c) ==
    /\ call[c].pc = "put"
    /\ PutsDone(c)
    /\ stamp' = "fresh"
    /\ Finish(c)
    /\ UNCHANGED <<feed, timer, launched, box, restarts, cacheServed, overlapped>>

\* An operation of the box throws: cachePexelsWallpapers() swallows it.
WriteFails(c) ==
    /\ call[c].pc \in {"clear", "put"}
    /\ Finish(c)
    /\ UNCHANGED <<feed, timer, launched, box, stamp, restarts, cacheServed,
                   overlapped>>

-----------------------------------------------------------------------------
(* The environment *)

HourPasses ==
    /\ stamp = "fresh"
    /\ stamp' = "old"
    /\ UNCHANGED <<feed, hasLoaded, call, timer, launched, box, restarts,
                   cacheServed, overlapped>>

\* The process is killed: only the box survives.
Restart ==
    /\ restarts < MaxRestarts
    /\ restarts' = restarts + 1
    /\ feed' = NewFeed
    /\ hasLoaded' = FALSE
    /\ call' = [c \in Calls |-> Idle]
    /\ timer' = FALSE
    /\ launched' = FALSE
    /\ cacheServed' = FALSE
    /\ UNCHANGED <<box, stamp, overlapped>>

Advance(c) ==
    \/ Wipe(c)
    \/ PageArrives(c)
    \/ RequestFails(c)
    \/ Clear(c)
    \/ Put(c)
    \/ Stamp(c)
    \/ WriteFails(c)

Next ==
    \/ \E c \in Calls :
         \/ Launch(c)
         \/ TimerFires(c)
         \/ Scroll(c)
         \/ Pull(c)
         \/ Retry(c)
         \/ Advance(c)
    \/ HourPasses
    \/ Restart

Spec == Init /\ [][Next]_vars

\* Every request is bounded by dio's 30 s timeouts, the box answers, and the
\* event loop runs every continuation.
Fairness == \A c \in Calls : WF_vars(Advance(c))

FairSpec == Spec /\ Fairness
-----------------------------------------------------------------------------
(* Properties *)

Prefix(S) == \E k \in 0 .. LastPage : S = 1 .. k

\* isLoading is a lock on the network: it is set exactly while one call, and
\* one only, waits for its page, and that page is the one the list lacks next
\* (or page 1 of a refresh).
LoadingIsOneRequest ==
    /\ feed.isLoading <=> \E c \in Calls : call[c].pc = "net"
    /\ \A c, d \in Calls :
         call[c].pc = "net" /\ call[d].pc = "net" => c = d
    /\ \A c \in Calls : call[c].pc = "net" =>
         call[c].page = IF Refreshes(c) THEN 1 ELSE feed.currentPage

\* Paging is exact as long as the list came from the network: pages 1 up to
\* currentPage are shown, each once, through refreshes, failures and retries.
NetworkPagesOnce ==
    ~cacheServed =>
      \A p \in Pages : feed.shown[p] = IF p < feed.currentPage THEN 1 ELSE 0

\* The list is that of Pager until it is read from the box, and again from the
\* answer to a refresh on; the box's own promise is ImplementsCacheBox.
FromNetwork(x, otherwise) == IF cacheServed THEN otherwise ELSE x

Asked ==
    {<<c, call[c].page>> :
       c \in {d \in Calls : call[d].pc = "net" /\ (Refreshes(d) \/ ~cacheServed)}}

List == INSTANCE Pager
          WITH Callers <- Calls,
               Stock <- Pages,
               Highest <- MaxPage,
               shown <- FromNetwork(feed.shown, NothingShown),
               next <- FromNetwork(feed.currentPage, 1),
               asked <- Asked

\* One request at a time asks for the next page or for page 1, its answer makes
\* the list end there, and nothing else changes it: through refreshes that begin
\* while a page loads, failures, retries, and lists that came from the box.
ImplementsPager == List!Spec

\* The list never has a hole: whatever failed or was served from the box, the
\* pages on screen are pages 1 .. k, unless two calls have ever written the box
\* at the same time.
NoHoles == ~overlapped => Prefix(OnScreen)

\* The box is the cache of CacheBox: until two calls have written it at the same
\* time, what it serves comes and goes as pages 1 .. k for some k.
Served == stamp # "none" /\ ~overlapped

Cache == INSTANCE CacheBox
           WITH Answers <- {1 .. k : k \in 0 .. LastPage},
                content <- IF Served THEN {box} ELSE {},
                age <- IF Served THEN stamp ELSE "none"

\* Every step of the clear-put-stamp protocol, its failures and kills included,
\* is a step of the atomic cache or none.
ImplementsCacheBox == Cache!Spec

\* Every call returns, and isLoading, which a call in flight holds, with it: no
\* RefreshIndicator and no spinner stays.
CallsReturn == \A c \in Calls : call[c].pc # "idle" ~> call[c].pc = "idle"
=============================================================================
