-------------------------------- MODULE AdPool --------------------------------
(***************************************************************************)
(* The banner ads of the Explore tab: AdMobService's list of loaded ads,   *)
(* AdMobNotifier's batches that fill it, and the builds of the grid, which *)
(* take ads out and start more batches.                                    *)
(*                                                                         *)
(* The plugin is external: a BannerAd on the screen is refreshed from time *)
(* to time, and every refresh is reported to its listener like a first     *)
(* load.  An ad that has failed, or is in no list and on no screen any     *)
(* more, is free to stand for the next BannerAd.                           *)
(***************************************************************************)
EXTENDS SequencesExt

CONSTANTS Ads,       \* BOUND: the BannerAds alive at a time
          MaxPool,   \* BOUND: how long a refresh may make the list of ads
          Batches,   \* BOUND: the calls of preloadAds suspended at a time
          First,     \* ads of the constructor's batch: 3 in the code
          Tab,       \* ads of the batch of the tab's timer: 5
          More,      \* ads of a batch that a build starts: 3
          Low,       \* a build starts one when fewer are loaded: 2
          None       \* no ad

ASSUME SizesAssumption ==
    /\ First \in Nat \ {0}
    /\ Tab \in Nat \ {0}
    /\ More \in Nat \ {0}
    /\ Low \in Nat
    /\ MaxPool \in Nat
ASSUME NoneAssumption == None \notin Ads

VARIABLES ready,      \* isInitialized
          preloading, \* isPreloading
          count,      \* loadedAdCount
          watched,    \* isPreloading and loadedAdCount at the last build
          timer,      \* initState's 100 ms timer is still to fire
          ad,         \* what has become of each ad
          again,      \* history: those refreshed on the screen
          pool,       \* _loadedAds
          batch       \* the calls of preloadAds

vars == <<ready, preloading, count, watched, timer, ad, again, pool, batch>>

(* An ad is loading, loaded, shown (taken by a build) or disposed of while   *)
(* shown.                                                                   *)
(* A batch is idle or has ads left to load; `waits` is the ad whose two     *)
(* seconds are running.                                                    *)
TypeOK ==
    /\ ready \in BOOLEAN
    /\ preloading \in BOOLEAN
    /\ count \in Nat
    /\ watched \in [preloading : BOOLEAN, count : Nat]
    /\ timer \in BOOLEAN
    /\ ad \in [Ads -> {"free", "loading", "loaded", "shown", "disposed"}]
    /\ again \in SUBSET Ads
    /\ pool \in Seq(Ads)
    /\ batch \in [Batches -> [running : BOOLEAN, left : Nat,
                              waits : Ads \cup {None}]]

Idle == [running |-> FALSE, left |-> 0, waits |-> None]
Of(n) == [running |-> TRUE, left |-> n, waits |-> None]

Init ==
    /\ ready = FALSE
    /\ preloading = FALSE
    /\ count = 0
    /\ watched = [preloading |-> FALSE, count |-> 0]
    /\ timer = TRUE
    /\ ad = [a \in Ads |-> "free"]
    /\ again = {}
    /\ pool = <<>>
    /\ batch = [b \in Batches |-> Idle]

-----------------------------------------------------------------------------
(* preloadAds *)

\* The batches of B start; before the plugin is ready a call returns at once.
Preload(B, n) ==
    IF ready
      THEN /\ preloading' = (preloading \/ B # {})
           /\ batch' = [b \in Batches |-> IF b \in B THEN Of(n) ELSE batch[b]]
      ELSE UNCHANGED <<preloading, batch>>

\* The constructor's initialize() ends, failed or not, and the first batch
\* starts.
Initialised(b) ==
    /\ ~ready
    /\ ready' = TRUE
    /\ preloading' = TRUE
    /\ batch' = [batch EXCEPT ![b] = Of(First)]
    /\ UNCHANGED <<count, watched, timer, ad, again, pool>>

TimerFires(b) ==
    /\ timer
    /\ timer' = FALSE
    /\ ~batch[b].running
    /\ Preload({b}, Tab)
    /\ UNCHANGED <<ready, count, watched, ad, again, pool>>

\* loadBannerAd: the request leaves, and two seconds are waited.
Load(b, a) ==
    /\ batch[b].left > 0 /\ batch[b].waits = None
    /\ ad[a] = "free"
    /\ ad' = [ad EXCEPT ![a] = "loading"]
    /\ again' = again \ {a}
    /\ batch' = [batch EXCEPT ![b].waits = a]
    /\ UNCHANGED <<ready, preloading, count, watched, timer, pool>>

\* The constructor of the ad or its load() throws: null is returned at once.
LoadThrows(b) ==
    /\ batch[b].left > 0 /\ batch[b].waits = None
    /\ batch' = [batch EXCEPT ![b].left = @ - 1]
    /\ UNCHANGED <<ready, preloading, count, watched, timer, ad, again, pool>>

\* The two seconds are over, whether or not the ad is there.
WaitEnds(b) ==
    /\ batch[b].waits # None
    /\ batch' = [batch EXCEPT ![b].left = @ - 1, ![b].waits = None]
    /\ UNCHANGED <<ready, preloading, count, watched, timer, ad, again, pool>>

\* Mutant: the flag is not reset.
StillPreloading == preloading

NotPreloading == FALSE

\* The flag is reset, also when other batches run on.
BatchEnds(b) ==
    /\ batch[b].running /\ batch[b].left = 0
    /\ batch' = [batch EXCEPT ![b] = Idle]
    /\ preloading' = NotPreloading
    /\ count' = Len(pool)
    /\ UNCHANGED <<ready, watched, timer, ad, again, pool>>

-----------------------------------------------------------------------------
(* The plugin's callbacks: in the two seconds or any time after *)

InPool(a) == \E i \in 1 .. Len(pool) : pool[i] = a

\* The first load of an ad, or a refresh of one on the screen: the listener adds it
\* to the list either way.
AdLoaded(a) ==
    /\ \/ ad[a] = "loading" /\ UNCHANGED again
       \/ ad[a] = "shown" /\ Len(pool) < MaxPool /\ again' = again \cup {a}
    /\ ad' = [ad EXCEPT ![a] = IF @ = "loading" THEN "loaded" ELSE @]
    /\ pool' = Append(pool, a)
    /\ UNCHANGED <<ready, preloading, count, watched, timer, batch>>

\* A load that fails, or a refresh: the ad is disposed of, but stays where it is.
AdFails(a) ==
    /\ ad[a] \in {"loading", "shown"}
    /\ ad' = [ad EXCEPT ![a] = IF @ = "loading" THEN "free" ELSE "disposed"]
    /\ UNCHANGED <<ready, preloading, count, watched, timer, again, pool, batch>>

-----------------------------------------------------------------------------
(* The grid *)

\* Mutants: the count is left as it was; what was taken is subtracted from it.
CountUnchanged(k) == count
CountDown(k) == count - k

\* getAd() updates the count for every ad it finds.
CountAfter(k) == IF k = 0 THEN count ELSE Len(pool) - k

\* A frame: the tab is built, or only items of the grid, which look at what the
\* last build saw.  Each list it makes takes ads out of the pool and, if few are
\* left and no batch runs, has a batch start at the end of the frame.
Frame ==
    \E now \in {watched, [preloading |-> preloading, count |-> count]},
       k \in 0 .. Len(pool), B \in SUBSET {b \in Batches : ~batch[b].running} :
      /\ watched' = now
      /\ pool' = SubSeq(pool, k + 1, Len(pool))
      /\ ad' = [a \in Ads |->
                  IF ad[a] = "loaded" /\ \E i \in 1 .. k : pool[i] = a THEN "shown"
                                                                     ELSE ad[a]]
      /\ count' = CountAfter(k)
      /\ B # {} <=> now.count < Low /\ ~now.preloading
      /\ Preload(B, More)
      /\ UNCHANGED <<ready, timer, again>>

\* An item is scrolled away or built anew, and the last callback of its ad is in: the
\* ad is dropped, not disposed of.  One that a refresh has put back is in the list.
Dropped(a) ==
    /\ ad[a] \in {"shown", "disposed"}
    /\ \/ ~InPool(a) /\ ad' = [ad EXCEPT ![a] = "free"]
       \/ InPool(a) /\ ad[a] = "shown" /\ ad' = [ad EXCEPT ![a] = "loaded"]
    /\ UNCHANGED <<ready, preloading, count, watched, timer, again, pool, batch>>

Advance(b) ==
    \/ \E a \in Ads : Load(b, a)
    \/ LoadThrows(b)
    \/ WaitEnds(b)
    \/ BatchEnds(b)

Next ==
    \/ Frame
    \/ \E b \in Batches : Initialised(b) \/ TimerFires(b) \/ Advance(b)
    \/ \E a \in Ads : AdLoaded(a) \/ AdFails(a) \/ Dropped(a)

Spec == Init /\ [][Next]_vars

\* load() returns, the two seconds pass, the event loop runs the rest.  The
\* plugin owes no callback.
FairSpec == Spec /\ \A b \in Batches : WF_vars(Advance(b))
-----------------------------------------------------------------------------
(* Properties *)

\* A build that counts on loaded ads finds them: loadedAdCount, however old its
\* batches, and whatever loaded late or was refreshed meanwhile, promises no more ads
\* than there are.
CountIsCovered == count <= Len(pool)

\* The ads in the list have loaded and are all different, on no screen and not disposed
\* of: but for those that a refresh put there a second time.
PoolIsSound ==
    /\ \A i \in 1 .. Len(pool) :
         \/ ad[pool[i]] = "loaded"
         \/ pool[i] \in again /\ ad[pool[i]] \in {"shown", "disposed"}
    /\ \A i, j \in 1 .. Len(pool) : pool[i] = pool[j] => i = j \/ pool[i] \in again

PoolIsBacked == CountIsCovered /\ PoolIsSound

\* An ad that has loaded waits in the list until a build takes it: none is paid for
\* in traffic and then lost between a batch, its late callback and a frame.
NoneIsLost == \A a \in Ads : ad[a] = "loaded" => InPool(a)

\* The list holds the ads that have loaded and no build has taken, and beside them only
\* ads that were refreshed on the screen; the count promises no more.
PoolIsExact == PoolIsBacked /\ NoneIsLost

\* isPreloading, which keeps builds from asking for more, goes down again.
PreloadingEnds == preloading ~> ~preloading
=============================================================================
