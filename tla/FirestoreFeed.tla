---------------------------- MODULE FirestoreFeed ----------------------------
(***************************************************************************)
(* The "Discover" tab: FirestoreWallpapersNotifier over FirestoreService   *)
(* and the `wallpapers` box of CacheService.                               *)
(*                                                                         *)
(* A task is one call of loadWallpapers() or refresh() that is suspended   *)
(* at an await.  Dart runs on one event loop, so an action is the code     *)
(* between two awaits that really suspend (the network, the box).  The     *)
(* tasks, the server, the clock and the killing of the app interleave.     *)
(*                                                                         *)
(* The server's catalogue goes through revisions; a cached or shown entry  *)
(* is the revision its document was read at, Absent when there is no such  *)
(* entry.  The UI shuffles the list, so order is left out.                 *)
(*                                                                         *)
(* Firestore's SDK is external: a get() without network is answered from a *)
(* copy of the collection on the device, as old as the last answer of the  *)
(* server and kept over restarts.                                          *)
(***************************************************************************)
EXTENDS Integers

CONSTANTS Wallpapers,    \* document ids
          MaxRev,        \* BOUND: the server publishes revisions 0 .. MaxRev
          Catalogue,     \* revision -> the ids it contains
          Buttons,       \* presses of the "Retry" / "Refresh" button in flight
          Mount,         \* the task of initState's post-frame callback
          Pull,          \* the task of the RefreshIndicator
          MaxRestarts    \* BOUND: how often the process dies and is relaunched

Revisions == 0 .. MaxRev
Absent == -1
Tasks == {Mount, Pull} \cup Buttons

ASSUME ConstantsAssumption ==
    /\ MaxRev \in Nat
    /\ MaxRestarts \in Nat
    /\ Catalogue \in [Revisions -> SUBSET Wallpapers]
    /\ {Mount, Pull} \cap Buttons = {}
    /\ Mount # Pull

VARIABLES rev,        \* the server's current revision
          copy,       \* the revision of the SDK's copy, Absent without one
          box,        \* wallpapers box, without its last_update key
          stamp,      \* last_update: "none", "fresh" (< 1 hour) or "old"
          feed,       \* the notifier's AsyncValue
          mounted,    \* the tab was built in this process
          task,       \* the suspended calls
          restarts,
          tangled     \* history: the box was last cleared while another task was
                      \* between its own clear() and its last_update

vars == <<rev, copy, box, stamp, feed, mounted, task, restarts, tangled>>

Listings == [Wallpapers -> Revisions \cup {Absent}]

\* What getWallpapers() returns for a revision; [] when it caught an error.
Listing(r) ==
    [w \in Wallpapers |->
        IF r \in Revisions /\ w \in Catalogue[r] THEN r ELSE Absent]

Nothing == [w \in Wallpapers |-> Absent]
NonEmpty(list) == \E w \in Wallpapers : list[w] # Absent
Listed(r) == {w \in Wallpapers : Listing(r)[w] # Absent}

Loading == [is |-> "loading", list |-> Nothing]
Data(list) == [is |-> "data", list |-> list]

\* `since` is history: the revision of the copy when the call began.
Idle == [pc |-> "idle", got |-> Absent, todo |-> {}, since |-> Absent]
Fetching == [pc |-> "fetch", got |-> Absent, todo |-> {}, since |-> copy]
LoadingTrending == [pc |-> "trend", got |-> Absent, todo |-> {}, since |-> Absent]

FeedType == [is : {"loading", "data"}, list : Listings]
TaskType == [pc : {"idle", "fetch", "clear", "put", "trend"},
             got : Revisions \cup {Absent},
             todo : SUBSET Wallpapers,
             since : Revisions \cup {Absent}]

\* The feed loads or shows a list, and is never an AsyncValue.error.
TypeOK ==
    /\ rev \in Revisions
    /\ copy \in Absent .. rev
    /\ box \in Listings
    /\ stamp \in {"none", "fresh", "old"}
    /\ feed \in FeedType
    /\ mounted \in BOOLEAN
    /\ task \in [Tasks -> TaskType]
    /\ restarts \in 0 .. MaxRestarts
    /\ tangled \in BOOLEAN

Init ==
    /\ rev = 0
    /\ copy = Absent
    /\ box = Nothing
    /\ stamp = "none"
    /\ feed = Loading
    /\ mounted = FALSE
    /\ task = [t \in Tasks |-> Idle]
    /\ restarts = 0
    /\ tangled = FALSE

-----------------------------------------------------------------------------
(* CacheService *)

\* A fresh last_update; the list may still be empty.
CacheStale == stamp # "fresh"

-----------------------------------------------------------------------------
(* The calls, up to their first suspension *)

\* The first frame of the tab: the post-frame callback runs loadWallpapers(), which
\* serves a non-empty fresh cache and returns, or else asks Firestore.
OpenTab ==
    /\ ~mounted
    /\ mounted' = TRUE
    /\ IF NonEmpty(box) /\ ~CacheStale
         THEN feed' = Data(box) /\ UNCHANGED task
         ELSE feed' = Loading /\ task' = [task EXCEPT ![Mount] = Fetching]
    /\ UNCHANGED <<rev, copy, box, stamp, restarts, tangled>>

\* refresh(): always asks the server, whatever is cached.
Refresh(t) ==
    /\ task[t].pc = "idle"
    /\ feed' = Loading
    /\ task' = [task EXCEPT ![t] = Fetching]
    /\ UNCHANGED <<rev, copy, box, stamp, mounted, restarts, tangled>>

\* The RefreshIndicator takes no second pull until its callback has returned.
PullToRefresh == mounted /\ Refresh(Pull)

\* The button is on the screen only while the feed shows an empty list.
PressButton(t) ==
    /\ t \in Buttons
    /\ feed.is = "data"
    /\ ~NonEmpty(feed.list)
    /\ Refresh(t)

-----------------------------------------------------------------------------
(* The continuations *)

\* The query answers: getWallpapers() returns the documents, and
\* cacheWallpapers() issues its clear().  The answer is the server's of now or of
\* when it left there, or the SDK's copy, which may be empty; it becomes the copy.
FetchAnswers(t) ==
    /\ task[t].pc = "fetch"
    /\ \E r \in copy .. rev :
         /\ copy' = r
         /\ task' = [task EXCEPT ![t].pc = "clear", ![t].got = r]
    /\ UNCHANGED <<rev, box, stamp, feed, mounted, restarts, tangled>>

\* The query throws: getWallpapers() catches it and returns [], which
\* loadWallpapers() and refresh() cache like any other list.
FetchFails(t) ==
    /\ task[t].pc = "fetch"
    /\ task' = [task EXCEPT ![t].pc = "clear", ![t].got = Absent]
    /\ UNCHANGED <<rev, copy, box, stamp, feed, mounted, restarts, tangled>>

\* Mutant: the entries are deleted one by one, and last_update stays.
ClearedKeepingStamp == box' = Nothing /\ UNCHANGED stamp

\* clear() deletes every key of the box.
Cleared == box' = Nothing /\ stamp' = "none"

\* clear() takes effect, last_update included; the puts are to come.
Clear(t) ==
    /\ task[t].pc = "clear"
    /\ Cleared
    /\ tangled' = (\E u \in Tasks \ {t} : task[u].pc = "put")
    /\ task' = [task EXCEPT ![t].pc = "put", ![t].todo = Listed(task[t].got)]
    /\ UNCHANGED <<rev, copy, feed, mounted, restarts>>

\* put(wallpaper.id, ...): it replaces an entry of the same id.
Put(t) ==
    /\ task[t].pc = "put"
    /\ \E w \in task[t].todo :
         /\ box' = [box EXCEPT ![w] = task[t].got]
         /\ task' = [task EXCEPT ![t].todo = @ \ {w}]
    /\ UNCHANGED <<rev, copy, stamp, feed, mounted, restarts, tangled>>

\* Mutants: the notifier shows what the box holds; it publishes no empty list; it
\* takes an empty list for an error.
ResultOfBox(t) == Data(box)
ResultIfAny(t) ==
    IF NonEmpty(Listing(task[t].got)) THEN Data(Listing(task[t].got)) ELSE feed

ResultOrError(t) ==
    IF NonEmpty(Listing(task[t].got)) THEN Data(Listing(task[t].got))
                                      ELSE [is |-> "error", list |-> Nothing]

\* What the call publishes: the list it was given, cached or not.
Result(t) == Data(Listing(task[t].got))

\* The end of the call: the notifier publishes the list it was given, and a
\* pulled refresh goes on to reload the trending row.
Publish(t) ==
    /\ feed' = Result(t)
    /\ task' = [task EXCEPT ![t] = IF t = Pull THEN LoadingTrending ELSE Idle]
    /\ UNCHANGED <<rev, copy, mounted, restarts>>

\* Mutant: last_update is written without waiting for the puts.
PutsDoneEarly(t) == TRUE

PutsDone(t) == task[t].todo = {}

\* Every entry is in: last_update is written and the call ends.
Stamp(t) ==
    /\ task[t].pc = "put"
    /\ PutsDone(t)
    /\ stamp' = "fresh"
    /\ Publish(t)
    /\ UNCHANGED <<box, tangled>>

\* An operation of the box throws: cacheWallpapers() catches the error and
\* returns, with the box as far as it got and no new last_update.
WriteFails(t) ==
    /\ task[t].pc \in {"clear", "put"}
    /\ Publish(t)
    /\ UNCHANGED <<box, stamp, tangled>>

\* The trending query answers or fails ([]): loadTrendingWallpapers() returns, and
\* with it the callback of a pull.  (The row's own list is left out.)
TrendingAnswers(t) ==
    /\ task[t].pc = "trend"
    /\ task' = [task EXCEPT ![t] = Idle]
    /\ UNCHANGED <<rev, copy, box, stamp, feed, mounted, restarts, tangled>>

-----------------------------------------------------------------------------
(* The environment *)

\* The catalogue is edited on the server.
NewRevision ==
    /\ rev < MaxRev
    /\ rev' = rev + 1
    /\ UNCHANGED <<copy, box, stamp, feed, mounted, task, restarts, tangled>>

\* An hour passes since last_update.
HourPasses ==
    /\ stamp = "fresh"
    /\ stamp' = "old"
    /\ UNCHANGED <<rev, copy, box, feed, mounted, task, restarts, tangled>>

\* The process is killed and launched again: the box survives, and the copy.
Restart ==
    /\ restarts < MaxRestarts
    /\ restarts' = restarts + 1
    /\ feed' = Loading
    /\ mounted' = FALSE
    /\ task' = [t \in Tasks |-> Idle]
    /\ UNCHANGED <<rev, copy, box, stamp, tangled>>

\* Mutant: a pull awaits a trending row that never returns.
AdvanceWithoutRow(t) ==
    \/ FetchAnswers(t)
    \/ FetchFails(t)
    \/ Clear(t)
    \/ Put(t)
    \/ Stamp(t)
    \/ WriteFails(t)

\* A step the app and the platform take by themselves on behalf of task t.
Advance(t) ==
    \/ FetchAnswers(t)
    \/ FetchFails(t)
    \/ Clear(t)
    \/ Put(t)
    \/ Stamp(t)
    \/ WriteFails(t)
    \/ TrendingAnswers(t)

Next ==
    \/ OpenTab
    \/ PullToRefresh
    \/ \E t \in Buttons : PressButton(t)
    \/ \E t \in Tasks : Advance(t)
    \/ NewRevision
    \/ HourPasses
    \/ Restart

Spec == Init /\ [][Next]_vars

\* The first frame is drawn, the event loop runs every continuation, and a
\* query or a box operation ends, one way or the other.
Fairness ==
    /\ WF_vars(OpenTab)
    /\ \A t \in Tasks : WF_vars(Advance(t))

FairSpec == Spec /\ Fairness
-----------------------------------------------------------------------------
(* Properties *)

Writing(t) == task[t].pc \in {"clear", "put"}
InFlight(t) == task[t].pc = "fetch" \/ Writing(t)

\* The box is the cache of CacheBox: what a reader may be served comes and goes
\* as one complete answer.  To the readers of CacheBox, a box that two calls
\* wrote at the same time holds nothing, until the next clear() by one alone.
Served == stamp # "none" /\ ~tangled

Cache == INSTANCE CacheBox
           WITH Answers <- {Listing(r) : r \in Revisions \cup {Absent}},
                content <- IF Served THEN {box} ELSE {},
                age <- IF Served THEN stamp ELSE "none"

\* Every step of the clear-put-stamp protocol, its failures and kills included,
\* is a step of the atomic cache or none.
ImplementsCacheBox == Cache!Spec

\* Behind the loading shimmer there is always a call in flight that will take
\* it away: whichever of the overlapping calls ends first, none of them leaves
\* the feed in AsyncValue.loading() with nobody left to publish.
ShimmerHasOwner ==
    mounted /\ feed.is = "loading" => \E t \in Tasks : InFlight(t)

\* "Always fetch from Firestore and update cache, ignore current cache": after
\* the first frame the feed only ever shows what a call got from Firestore, and
\* never a catalogue older than one the device had already been given when that
\* call began.  (Firestore itself may answer from the copy.)
RefreshIgnoresCache ==
    [][mounted /\ feed' # feed /\ feed'.is = "data" =>
         \E t \in Tasks :
           /\ Writing(t)
           /\ feed'.list = Listing(task[t].got)
           /\ task[t].got = Absent \/ task[t].got >= task[t].since]_vars

\* What loadWallpapers' comment "If Firestore fails, try to load from cache"
\* says: when its fetch failed and no other call is at work, a non-empty cache
\* is still there to load from.
FailureKeepsCache ==
    [][(/\ Clear(Mount)
        /\ task[Mount].got = Absent
        /\ NonEmpty(box)
        /\ \A t \in Tasks \ {Mount} : ~InFlight(t))
         => NonEmpty(box')]_vars

\* The feed does not load forever: a loading feed comes to show a list.
LoadingEnds == feed.is = "loading" ~> feed.is = "data"

\* A pull returns, so the RefreshIndicator retracts and takes another.
PullReturns == task[Pull].pc # "idle" ~> task[Pull].pc = "idle"
=============================================================================
