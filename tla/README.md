# PixsBliss: a TLA+ verification project

PixsBliss is a wallpaper app written in Flutter (Dart), with Firebase behind it
and the Pexels API beside it. This directory holds TLA+ models of the parts of
the app that have a protocol to get right, TLC configurations that check them on
small instances, and TLAPS proofs of what matters most for instances of any size.

1. [Inventory](#1-inventory)
2. [How Dart code becomes actions](#2-how-dart-code-becomes-actions)
3. [The modules](#3-the-modules)
4. [The runs](#4-the-runs)
5. [The proofs](#5-the-proofs)
6. [What the code does and its comments deny](#6-what-the-code-does-and-its-comments-deny)
7. [What is not modelled](#7-what-is-not-modelled)
8. [Plan](#8-plan)

## 1. Inventory

The application is `src/lib` (about 40 Dart files). Everything runs on one event
loop in one process. Concurrency comes from `await`: while one handler is
suspended at the network, at a file or at a dialog, any other may run, and the
operating system may kill the process between any two steps.

| Component | State it keeps | Operations | Talks to | What is hard | What makes it correct |
|---|---|---|---|---|---|
| **CacheService** (`core/services/cache_service.dart`) | Hive boxes `wallpapers`, `categories`, `pexels_wallpapers`, `pexels_trending`, each with a `last_update` entry | cache / get / isStale per box: `clear`, one `put` per entry, `put(last_update)` | called by all feed notifiers | every box operation is an `await` that may fail (and is swallowed); two callers may write one box at once; the process may die half way | a box that says it is up to date holds one complete answer |
| **FirestoreWallpapersNotifier** + Discover tab (`firestore_wallpaper_provider.dart`, `local_wallpapers_tab.dart`) | `AsyncValue` of the list; the trending row's `AsyncValue` | `loadWallpapers`, `refresh`; first frame, pull, button | FirestoreService, CacheService | `refresh` has no guard, so calls overlap; the service turns failures into `[]` | the shimmer never stays up; a refresh never shows the box, nor a list older than the device had; a failure does not lose the cache |
| **PexelsWallpapersNotifier** + Explore tab (`pexels_provider.dart`, `explore_tab.dart`) | list, `isLoading`, `hasMore`, `currentPage`, `error`, `_hasLoadedFromCache` | `loadWallpapers`, background fetch, `refresh`; constructor, timer, two scroll listeners, pull, retry | PexelsApiService, CacheService | six triggers compete; the box is written after `isLoading` is cleared; a list read from the box is longer than `currentPage` says | one request at a time; every page once; no gaps; indicators retract |
| **PremiumService** + unlocking on the detail page (`premium_service.dart`, `enhanced_wallpaper_detail_page.dart`) | preferences `pending_unlock`, `unlocked_<id>`; the page's `_isUnlocked` | `unlockWallpaper`, three Razorpay handlers, `_checkUnlockStatus`, a delayed re-check, the unlock stream | Razorpay plugin, SharedPreferences | a result arrives minutes later, perhaps in another process; one preference is shared by all checkouts; memory runs ahead of the disk | paid means unlocked, durably; nothing is unlocked unpaid; the page tells the truth |
| **UpdatePage** + home page's offer + UpdateService (`update_page.dart`, `home_page.dart`, `update_service.dart`) | navigator stack; `_isChecking`, `_cancelToken`; progress providers | check, download (permissions, transfer, verification, installer), cancel, back | Dio, package installer | downloads outlive the dialogs and pages that started them; the code pops "the dialog" whatever is on top; cancel races the end | no stray dialog; cancelled is not installed; only the dialog is popped |
| **Category page** (`category_wallpapers_page.dart`) with PexelsCategoryWallpapersNotifier, FirestoreWallpapersNotifier per category and PexelsSearchNotifier | list and paging per category; query and results | load, load more, retry, pull; clear and search | PexelsApiService, FirestoreService | a notifier outlives its page and loads once; `clearSearch` during a search lets searches overlap | a category is loaded when opened; every page once, none past the end; results are of the query |
| FirestoreCategoriesNotifier, Categories tab | list; daily picture per category | load, refresh | FirestoreService, CacheService | as Discover, with no timestamp | as Discover |
| **Launch**: `main()`, counters, install tracking (`main.dart`, `firestore_service.dart`, `splash_screen.dart`) | counters in Firestore documents; the SDK's queue and copy on each device; `install_tracked_id` | initialise, increment, track the install | Firestore, SharedPreferences | many devices; a query (perhaps of an old copy), then a batch that may be sent days later; the commit is awaited before `runApp` | no lost increment; an install is counted once; the app starts |
| **Explore's ads**: AdMobService, AdMobNotifier, the builds of the grid (`admob_service.dart`, `admob_provider.dart`, `explore_tab.dart`) | pool of loaded ads, `loadedAdCount`, `isPreloading`, `isInitialized` | `initialize`, `preloadAds`, `getAd`, the listener's callbacks, the tab's timer | AdMob SDK, `build` | batches overlap and outlive the flag; ads load after their batch; builds go by old counts | the count promises no more ads than there are; no ad is lost, and only a refresh doubles one; preloading ends |
| **Detail page: downloading** (`enhanced_wallpaper_detail_page.dart`, `button_animation.dart`) | `_isDownloading`, `_downloadComplete`; the button's bar and `animationComplete`; one temporary file per wallpaper; the gallery | tap, permission, transfer, write, `Gal.putImage`, count | Dio, gallery, PremiumService | the permission precedes the flag, so taps double; downloads outlive the page and share the file; the button has a state of its own | the spinner has an owner and ends; copies are whole; nothing is saved unpaid; one can try again |
| Pure code: **`isNewerVersion`**, Cloudinary URLs, date key of the daily picture | none | | | missing and extra parts | versions are ordered |
| Legacy REST backend, models, theme, widgets, platform projects, Pods | | | | | |

The list in `PROJECT.json` ("components") says for each one whether it is
modelled, and "hazards" names the line each difficulty bites at.

## 2. How Dart code becomes actions

* **An action is the code between two `await`s that really suspend.** `async`
  calls run at once up to their first suspension, so what precedes it belongs to
  the caller's action. An `await` of an already opened box's getter, or of a
  permission already granted, has no step of its own.
* **A suspended call is a record** (`task`, `call`, `attempt`, `download`) whose
  `pc` names the await it is suspended at, and which carries the local variables
  read after it. Calls whose number the code does not limit are a finite set of
  model values, of any size for the proofs.
* **Failure** of an external operation is an alternative outcome at the same
  await. What the code does with it (mostly: swallow it and go on) is the action.
* **A kill** (`Restart`) may come between any two actions. It resets what lives
  in memory and keeps what lives on disk. `SharedPreferences` have both: the
  setter changes the memory at once and the disk in turn.
* **External parts** (Hive, SharedPreferences, Razorpay, Firestore, Dio, AdMob) are
  modelled from how the code uses them; what stands for them alone is marked
  `external` in the map. The table below says what is assumed of them.
* **History variables** are read by no guard. Most delimit where a property is
  claimed: FirestoreFeed's `tangled`, PexelsFeed's `cacheServed` and `overlapped`,
  PremiumUnlock's `crossed`, UpdatePage's `covered` and `joined`, DetailPage's
  `overlapped`. Each stands for an interleaving that the code really allows and in
  which the property really fails, so that without it the run would only repeat that
  the code allows it. AdPool's `again` names the ads that a refresh has put into the
  list a second time. UpdatePage's `declined`, Launch's `inits` and the `since` of a
  FirestoreFeed call record what a property is about.

**What is assumed of the external parts**

| Part | Assumption | Where it matters |
|---|---|---|
| Firestore, `get()` without options | answers or fails. The answer is the server's or, without network, that of the SDK's copy on the device, which may be empty and may be as old as the last answer of the server; it survives restarts and does not go back. An answer is the collection at one revision: that other queries renew single documents of the copy is left out | FirestoreFeed's `copy`, Launch's `lacking`; `RefreshIgnoresCache`, `ImplementsCacheBox` |
| Firestore, `batch.commit()` | the write is queued on the device, survives a kill, and is sent in the order of the queue. The acknowledgement may never come: **no network is assumed** | Launch; `LaunchEnds` |
| Hive, SharedPreferences | an operation of a box takes effect as a whole or throws; a preference is in memory at once and on disk later, in the order set | all modules with a disk; `PaidComesUnlocked` needs that the disk is reached |
| Razorpay | the payment screen ends if the user ends it. A result is delivered once a handler is registered, also after a kill, and once only. That it survives *every* kill is the ideal: a plugin that loses one loses the buyer's unlock, which nothing in `src/lib` could mend | PremiumUnlock; `PaidComesUnlocked`, `ImplementsPurchase` |
| Dio with timeouts (PexelsApiService) | answers or throws within them | `CallsReturn`, CategoryFeed's `ShimmerEnds` |
| Dio without timeouts (updates, downloads) | nothing: a transfer may stall for ever | no liveness of updates; `SpinnerEnds` excepts it |
| Pexels | the page after the last is empty. A page counts as the last when it is not full, which is what the code's `hasMore` goes by | PexelsFeed, CategoryFeed; `ImplementsPager` |
| AdMob | a load is reported once, at any time or never. A banner is refreshed only while it is on the screen, any number of times, and each refresh is reported to the same listener as loaded or failed. An ad that is off screen and in no list has no callback to come when its place is taken again | AdPool |
| Event loop, frames, timers | a completed future's continuation runs, a scheduled frame is drawn, a timer fires | every liveness property |

## 3. The modules

| Module | Builds on | Run in | Proved in |
|---|---|---|---|
| CacheBox | | (abstract: a PROPERTY of both feeds) | FirestoreFeedProofs, PexelsFeedProofs |
| FirestoreFeed | `INSTANCE CacheBox` | MCFirestoreFeed | FirestoreFeedProofs |
| Pager | | (abstract: a PROPERTY of PexelsFeed and CategoryFeed) | PexelsFeedProofs, CategoryFeedProofs |
| PexelsFeed | `INSTANCE CacheBox`, `INSTANCE Pager` | MCPexelsFeed | PexelsFeedProofs |
| Purchase | | (abstract: a PROPERTY of PremiumUnlock and DetailPage) | PremiumUnlockProofs, DetailPageProofs |
| PremiumUnlock | `INSTANCE Purchase` | MCPremiumUnlock | PremiumUnlockProofs |
| DetailPage | `INSTANCE Purchase` | MCDetailPage | DetailPageProofs |
| VersionOrder | | with UpdatePage | UpdatePageProofs |
| UpdatePage | EXTENDS VersionOrder | MCUpdatePage | UpdatePageProofs |
| CategoryFeed | `INSTANCE Pager`, one per topic | MCCategoryFeed | CategoryFeedProofs |
| Tally | | (abstract: a PROPERTY of Launch) | LaunchProofs |
| Launch | `INSTANCE Tally` | MCLaunch | LaunchProofs |
| AdPool | | MCAdPool | AdPoolProofs |

### CacheBox, the abstract cache

What CacheService promises whoever opens a box: nothing, or *one complete answer* of
the source, with an age. `Store`, `Discard` and `Expire` are its only steps, each
atomic. The code has no such steps: an answer is a `clear()`, a `put` per entry and
a last `put` of `last_update`, any of which may fail or be the last before a kill.
Both feeds implement CacheBox under the refinement mapping

    content <- IF Served THEN {box} ELSE {}        age <- IF Served THEN stamp ELSE "none"

where `Served` is "there is a `last_update`, and no two calls were writing the box
when it was last cleared" (FirestoreFeed, `tangled`) or "at any time so far"
(PexelsFeed, `overlapped`). So `put(last_update)` is what stores, `clear()` is what
discards, and everything else stutters. `Answers` is the set of listings the server
ever had, `[]` included, or the initial segments of the pages.

### Pager, the abstract list

What a list that is loaded page by page is to its reader: pages 1 .. k, each once, of
which the next, or the first again, is asked for by one request at a time. `Ask`,
`Answer` (the list *ends* with the page that was asked for), `Fail`, and `Forget`, when
the list is given up. PexelsFeed implements it as long as the list is the network's:
the mapping shows an empty list, and no request but a refresh's, while `cacheServed`.
CategoryFeed implements one Pager per topic, with that topic's own requests, whatever
the other topics, the collections and the search do; a topic without photos is a Pager
over an empty `Stock` whose first page is its last.

### Purchase, the abstract sale

What a buyer can rely on: a payment is credited to one wallpaper (`Credit`), which is
the buyer's from then on; it reaches the disk (`Keep`), at the latest before the buyer
is told (`Tell`); and `Kill` may take back what is neither kept nor told, and nothing
else. `Promise` says what that is for. Both halves of the page implement it:

| Purchase | PremiumUnlock | DetailPage (one wallpaper, "this") |
|---|---|---|
| `Payments` | the checkouts | the checkouts |
| `credited` | `attempt[a].credit`, which the success handler sets | checkouts credited, told or untold |
| `owned` | `prefs.unlocked`, the memory | `owned` |
| `kept` | `disk.unlocked` | `kept` |
| `told` | handlers that have ended with the event | checkouts told |

### Tally, the abstract counter

From some point on a counter can be relied upon (`Settle`), and from then on it only
counts, one view or download at a time (`Count`). In Launch those are the pairs of a
wallpaper and a counter that every device knows (`Settled`).

### FirestoreFeed

`FirestoreWallpapersNotifier` (provider 6-61) over `getWallpapers`
(firestore_service 30-66) and the `wallpapers` box (cache_service 16-69, 109-124),
driven by the Discover tab (local_wallpapers_tab 24-52, 171-212) and followed, for
a pull, by the trending row (450-470).

| TLA+ | Code |
|---|---|
| `box`, `stamp` | the Hive box and its `last_update` key |
| `feed` | the notifier's `AsyncValue` |
| `task[t]` | a suspended call: at the query (`fetch`), before `clear()` took effect (`clear`), among the puts (`put`), or at the trending query (`trend`) |
| `rev`, `Catalogue` | the server's collection, in revisions |
| `copy` | the revision of Firestore's own copy on the device, which outlives the process |
| `OpenTab` | the first frame: creation of both notifiers and the post-frame callback |
| `PullToRefresh`, `PressButton` | the two ways to `refresh()` |
| `FetchAnswers`, `FetchFails` | `getWallpapers()` returns documents (the server's, or without network the copy's), or `[]` |
| `Clear`, `Put`, `Stamp`, `WriteFails` | `cacheWallpapers`, one await each, and its `catch` |
| `Result`, `Publish` | the end of the call, in the same action as the last box operation |

Abstractions: the order of the list (the tab shuffles it), so the puts may come
in any order; a cached document is the revision it was read at. The `catch` of
`loadWallpapers` (lines 36-48) is not reachable, because `getWallpapers` never
throws; it has no action. The `onRefresh` parameter of the tab is never passed.
`refresh()` goes past the Hive box, but not past Firestore's copy: its `get()` (lines
35-38) names no source, so without network it is answered with what the device was
last given. Hence `RefreshIgnoresCache` says no more than that a list is never older
than what the device had when the call began (`since`). Of two overlapping calls the
last to end is published, be it the older. Of the trending row only its query is
there, which a pull waits for; its list is left out.

### PexelsFeed

`PexelsWallpapersNotifier` (pexels_provider 109-210) over the `pexels_wallpapers`
box and the triggers of the Explore tab. A page of photos is one element, and the
list on screen is a bag of pages (`feed.shown`), which is what "each page once"
and "no holes" are about. `call[c].kind` tells the five ways in: `load` (constructor,
timer, scroll), `background` (the fetch behind a cached list), `pull` and `retry`.
`LoadFromCache` / `LoadFromApi` are the two branches of `loadWallpapers`; `Wipe` is
`refresh` from the end of its `clear` to the next await; `PageArrives` clears
`isLoading` and starts the write of the box, in one action as in the code (line 180
precedes the await of line 196). The box has the steps of FirestoreFeed's. The load scheduled from `build` when the list is
empty (332-335) cannot happen while the service has at least one page; the one
that tops up a short list (338-345) is the same call as a scroll.
`PexelsTrendingWallpapersNotifier` is the same code over another box.

### PremiumUnlock

`unlockWallpaper` and its handlers, the Razorpay plugin and the detail page's
unlock half. `attempt[a].stage` follows a checkout from `_razorpay.open` through the
payment screen to the end of the handler; `await` and `written` are the two halves
of `await setBool`. `prefs`, `journal` and `disk` are the three places a preference
can be. The plugin delivers the result of every checkout, those stacked by a
double tap included, and one that found no running app is delivered when `init()`
registers the handlers again. The delayed check may run at any time after the tap;
the code waits two seconds, which bounds nothing.

### DetailPage

The download half of the same page (`_downloadWallpaper`, 376-438) and the button
(button_animation.dart), for one wallpaper that is free or premium. `download[d].pc`
names the await: permission, transfer, write, gallery, count; `here` says whether the
page that started the call is still there, because its first `setState` on a disposed
page throws and ends the call. `button.bar` and `button.done` are the animation of a
tap and `animationComplete`: when the bar is full the button disables itself,
whatever came of the tap, and only `didUpdateWidget`, a rebuild of the page, sets
that right. `SetState` is every `setState` of the page: it rebuilds the button, or
replaces it when `_isUnlocked` (its key) changes. `file` is `wallpaper_<id>.jpg`,
which every download of the wallpaper opens, truncates and writes; a copy that
`Gal.putImage` makes while another download has it open may be damaged (`torn`).
`checkout[c]` is PremiumUnlock seen from the page: opening, open, refused, credited,
told. Of its handlers only the outcomes are here: the preference is set, then, once it is
on disk (`kept`), the page is told. A kill in between may lose the preference, as
PremiumUnlock's `journal` does, and leaves the checkout `untold`: the plugin has
delivered it, so nobody is told of it any more. That stage and `kept` are there because
the refinement needs them: were the checkout just *told* after the kill, a wallpaper
would be promised that is not on disk.

### VersionOrder

`isNewerVersion` (update_service) on lists of numbers: the first of three parts that
differs decides, a missing part is 0, a fourth (the build number) is not looked at.

### UpdatePage

`CheckAnswers` and the home page's offer compare `Installed` with one of `Releases`
by `IsNewerVersion`; the instance has a release that is newer and one that differs
from what is installed by its build number only. The navigator is a sequence of routes above the home page. `Back` pops any of
them, the progress dialog included: `barrierDismissible: false` bars taps only.
A download carries the token it was given; the page carries the token that its
Cancel button will use, and `finally` clears the page's token, whoever's it is.
`HideDialog` is the `Navigator.pop` of line 132: whatever is on top. `Mounted` is
whether the `State` still exists: after it is disposed, the first `context` or
`ref` throws, which ends the call without `finally`'s effects. The exit animation
of a popped route is left out (it is gone, and its `State` disposed, at once), and
so are progress figures and snack bars.

### CategoryFeed

The page of a category, in its two kinds: a Pexels category (a *topic*) pages like
the Explore tab but without a box; one of the app's own (a *collection*) is a single
Firestore query whose failure is an empty list. `made` is the set of categories whose
`family` provider exists: it is created by the first build and never disposed of, so
`OpenPage` loads only the first time. In the same frame, for either kind, `initState`
clears and starts `PexelsSearchNotifier`; `SearchAnswers` is its answer, which with
`refresh: true` replaces results and query whatever has been asked since. The search's
paging is left out: only the search page would use it, and that page cannot be
reached. State is in memory only, so a restart would lead back to `Init` and is not
an action.

### Launch

`main()` (16-52) with `initializeDownloadsField` and `initializeViewsField`
(firestore_service 213-288), the increments of the detail page, and
`_handleInstallTracking` of the splash screen (69-89), on several devices.
`pc[c]` is `query` or `commit` while `main()` waits for the initialisation of
`field[c]`, and `running` after `runApp`. Firestore's SDK is external: `queue[c]`
holds the writes it has accepted and not yet sent, which outlive the process;
`lacking[c]` is what the device's copy of the documents lacks; a query answers from
the server or from that copy, and in both the device's own unsent writes are visible
(`Pending`). `Applied` and `Refused` are the server's answers to the first write of a
queue; `Acknowledged` lets `main()` go on when it was the one awaited. Nothing says that the
server ever answers a queue, because the network need not come back: `main()` then waits
before `runApp` for ever, and `LaunchEnds` says that this one wait (`Unacknowledged`) is
the only one a launch can be caught in. `memId` and
`diskId` are the two halves of the preference, as in PremiumUnlock. The heartbeat of
the same screen writes one document per id and is left out, as is the orientation
lock between the initialisation and `runApp`.

### AdPool

`preloading`, `count` and `ready` are AdMobNotifier's state, `pool` is `_loadedAds`,
and `batch[b]` is a suspended `preloadAds`, which loads its ads one after the other
and waits two seconds for each. The plugin calls back at any time or never, so an ad
may enter the pool long after its batch has ended. `AdLoaded` is the listener, which
appends whatever is reported to it: the first load of an ad, and every refresh of a
banner on the screen (`again`), which is then on the screen *and* in the list, perhaps
twice, for the next build to take. `AdFails` is its other half: a load that fails, or a
refresh, after which the ad is disposed of where it is. `Frame` is a build of the tab, or of
items of the grid that still go by what the last build saw (`watched`): each list it
makes takes ads out of the pool, and if few are left and no batch runs it has one
start after the frame. `Dropped` is what becomes of an ad that scrolls away or
whose list is made anew: nobody disposes of it, and unless a refresh has put it back
into the list nobody can. The module is the release build:
in a debug build, Riverpod's assertion against changing a provider during a build may
end the build at `getAd`. `loadAd` has no caller, and `dispose` runs when the
process ends.

## 4. The runs

All bounds are CONSTANTS of the module or its configuration. A run checks safety
and, under fairness, liveness of one instance.

| Run | Instance | Asks |
|---|---|---|
| `firestore_feed` | 2 wallpapers, 2 revisions (the second withdraws one), mount + pull + button, 1 restart | `ImplementsCacheBox`: a stamped cache is one complete answer and comes and goes as a whole, after any failure or kill; `ShimmerHasOwner`: the shimmer always has a call that will end it; `RefreshIgnoresCache`: a refresh shows what Firestore answered, never the box, and nothing older than what the device had when it began; `LoadingEnds`, `PullReturns`: the shimmer goes, and a pull's indicator retracts |
| `firestore_failure` | as above | `FailureKeepsCache`, violated |
| `pexels_feed` | 2 pages and one past the end, 2 calls at a time, 1 restart | `LoadingIsOneRequest`: `isLoading` is a lock; `ImplementsPager`: paging from the network is exact; `NoHoles`: no gap on screen; `ImplementsCacheBox`; `CallsReturn`: no spinner stays |
| `premium_unlock` | 2 wallpapers, 2 checkouts, 1 restart | `CreditedIsDurable`: what the buyer was told survives a kill; `ImplementsPurchase`: handlers, preferences, crossing checkouts and kills are a sale, in which nothing is unlocked unpaid; `PageAgreesWithPrefs`; `SettledPaymentUnlocksItsOwn`; `PaidComesUnlocked` |
| `premium_unlock_crossed` | 2 wallpapers, 2 checkouts, no restart | `SuccessUnlocksItsWallpaper`, violated |
| `detail_page` | 2 downloads, 2 checkouts, kills without bound | `ButtonIsRight`: the spinner has an owner, and no tap follows the check mark; `SavedIsWhole`: no damaged copy unless two downloads had the file at once; `NothingSavedUnpaid`; `ImplementsPurchase`: what the page sees of the sale is one; `SpinnerEnds`, unless the network stays out |
| `detail_page_retry` | 1 download, 1 checkout | `CanTryAgain`, violated |
| `update_page` | 2 pages, 3 downloads, 2 releases | `NoOrphanDialog`: a page has no more progress dialogs up than downloads that will still pop one; `CancelInTimeIsKept`: a lone download cancelled during its transfer is never installed |
| `update_page_hides` | 1 page, 2 downloads | `HidesOnlyTheDialog`, violated |
| `category_feed` | 2 topics (one without photos), 1 collection, 3 requests | `OneLoadPerCategory`; `ImplementsPager`: each topic every page once, nothing requested past the last; `ResultsAreOfTheQuery`: overlapping searches that end in any order leave query and results of one of them; `ShimmerEnds` |
| `launch` | 2 devices, one launched twice; 1 wallpaper without counters; 1 view or download | `InitialisedOncePerDevice`; `ImplementsTally`: a counter that every device knows only counts, one at a time; `InstalledOnce`: one install per device, under the stored id; `LaunchEnds`: a launch reaches `runApp`, or waits for the acknowledgement of its own batch and for nothing else |
| `ad_pool` | 2 ads alive, 2 batches at a time, batches of 2, 3 and 2 (3, 5 and 3 in the code), the code's threshold (2), refreshes that make the list no longer than 2 | `PoolIsExact`: the pool has every ad that has loaded and no build has taken, and beside them only ads that were refreshed on the screen; the count promises no more; `PreloadingEnds` |

**Why the bounds are enough to be interesting.** A partial box needs two entries,
a mixed one needs two revisions that differ in their ids, and overlapping writers
need two calls. Paging needs a first, a last and an empty page. One restart
separates what memory and disk hold, and all that survives it is re-read in the
second life. Crossing checkouts need two. A file shared by two downloads needs two, of one
page or of two visits. An opened category takes two requests, and
a third is left over from the page before. A batch computed from an old copy needs
a device that is launched twice and another that counts in between. Two pages let one download outlive its
page while another page is on top, and three downloads let two share a page's token
while a third runs elsewhere. Two batches overlap as soon as one outlives the flag
that another resets; two ads let one be late, in the pool or on its way while the other
is on screen or comes back by a refresh, also twice (`MaxPool` = 2 bounds refreshes
only), and an ad of a batch of two can already load after the batch has gone on or ended.
The proofs of section 5 remove the bounds for the properties they cover. Symmetry is used in the UpdatePage runs only, which check no
liveness.

Deadlock is checked everywhere but in UpdatePage and Launch, where users who have
used up the pages, downloads or launches of the instance and gone home have nothing
left to do.

**Fairness** is weak fairness, per call, of the steps the app and the platform take
by themselves. It is justified by the event loop (a completed future's continuation
runs), by `Dio`'s connect and receive timeouts of 30 seconds in PexelsApiService, by
Firestore's `get`, which answers or fails, by the two-second timer of each ad
(the SDK owes no callback), and for payments by a plugin that
delivers each result and preferences that are flushed. In DetailPage the device's
own steps are fair, and neither the transfer (`Dio` without timeouts) nor the
acknowledgement of the count is: `SpinnerEnds` is claimed of behaviours in which no
answer of the network stays out for ever. In Launch only the device's steps are fair,
and nothing the server does is: `LaunchEnds` holds also without network. Nothing is assumed of the
user: no tap, pull, scroll or payment is fair. UpdateService creates `Dio` without
any timeout, so a stalled check or transfer may last forever; no liveness is claimed
of it.

Each property of a passing run has a mutant in `PROJECT.json`: a definition changed
as a plausible bug would change the code, under which TLC finds the property
violated. The mutated forms stand beside the definitions, marked "Mutant".

## 5. The proofs

The eight proof modules hold for every value of the constants that satisfies the
named ASSUMEs of the model: any set of wallpapers, any catalogue, any number of
calls, checkouts, pages, downloads, devices, ads and restarts. **Every invariant
and every action property that a passing run checks is a theorem**, and so are the
seven refinements; a violated property has none, but where the code keeps it under a
condition, that is a theorem. Some theorems state part of what a run's stronger property
says: `UnlockedWasPaid` of `ImplementsPurchase`, `NetworkPagesOnce` and `ExactPaging` of
`ImplementsPager`, `SettledIsKept` of `ImplementsTally`, `PoolIsBacked` of `PoolIsExact`.

* **FirestoreFeedProofs.** `TypeCorrect`. `RefinesCacheBox`, that every behaviour is
  one of CacheBox under the mapping of section 3. It rests on the inductive
  `CacheInv == TypeOK /\ WriterOwnsBox /\ StampedCacheIsOneListing`: that a stamped
  box is one listing is not inductive alone, because it says nothing of an unstamped
  box; `WriterOwnsBox` adds that outside a tangle the box plus what its one writer
  has still to put is that writer's whole answer. `ShimmerOwned` is inductive with
  the types. `RefreshGoesForward`, an action property, from `AnswersGoForward`: the
  answer in a call's hands is empty, or no older than the copy the device had when the
  call began, because the copy never goes back.
* **PexelsFeedProofs.** `TypeCorrect`, `OneRequestAtATime` and `PagingIsExact`, all
  from `PagingInv == TypeOK /\ WipeRefreshes /\ LoadingIsOneRequest /\
  NetworkPagesOnce`. The types themselves need the others: `currentPage` stays
  within `MaxPage + 1` only because the one request in flight asks for
  `currentPage`, so that an arriving page counts on by one once. The same invariant
  gives `RefinesPager`: as long as no list came from the box, what is on screen is the
  pages before `currentPage`, and the request under way is for that page or for the
  first, so that a page that arrives is an `Answer`; what involves the box is a `Forget`
  or, because the mapping hides the list, a stutter. `NoPageMissing` and
  `RefinesCacheBox` add `Tidy`: until two calls have written the box at the same
  time, what is on screen, what a writer has in hand, and the box with what is still
  to be put are initial segments of the pages.
* **PremiumUnlockProofs.** `TypeCorrect`, `CreditIsDurable`, `NothingUnlockedUnpaid`
  (`UnlockedWasPaid`) and `PageAgrees`, from `PremiumInv`. What has been credited can be
  on disk only if what is written precedes it: the strengthening says that the disk is behind the
  memory (`DiskBehind`), that every `unlocked` write in the journal belongs to a
  handler that awaits it (`JournalCredited`), and that a handler past its await finds
  its write on disk (`WrittenOnDisk`). `PaymentUnlocksItsOwn` has an invariant of its
  own, `SettledInv`: the last write of `pending_unlock` that is on its way, or the
  disk if there is none, is what the memory has (`PendingAhead`), so that a kill with
  nothing on its way changes nothing; and until checkouts cross, at most one is
  unsettled, and the pending wallpaper is its own (`OneAtATime`). `RefinesPurchase`
  needs both invariants, and `Uncredited`, that a checkout whose handler has not run is
  credited to nothing: a handler that starts is a `Credit`, a write that reaches the disk
  a `Keep`, the end of a handler a `Tell` (its wallpaper is on disk, by `WrittenOnDisk`),
  a kill a `Kill` (by `DiskBehind` it takes back at most what is not on disk), and all
  else a stutter. `BuyersHaveWhatTheyPaid` is what it is worth: `Promise`, proved of
  Purchase alone from its four actions, holds of PremiumService by the refinement.
* **DetailPageProofs.** `TypeCorrect`; `SpinnerIsBacked` and `CheckMarkIsFinal`,
  together `ButtonTellsTheTruth`; `CopiesAreWhole`, from `FileInv`: until two downloads use the file at once, its
  user opened it last, and has it whole when the gallery copies it; `SavedIsPaid`,
  from `PaidInv`: a page that says unlocked has the preference behind it, the
  preference a payment, and a download past its tap on a premium wallpaper too.
  `RefinesPurchase`, from `PaidInv`, which knows that a credited checkout owns the
  wallpaper and that the disk is behind the memory: of all the steps of page, button and
  downloads, only the payment, the event and the kill are steps of the sale.
* **UpdatePageProofs.** `NewerIsStrictOrder`: `isNewerVersion` is irreflexive,
  asymmetric and transitive, and versions neither of which is newer agree in their three
  parts. So an installed update is never offered again. `TypeCorrect`. `CancelIsKept`,
  from `CancelInv`: a call that runs alone holds its page's token, so Cancel reaches
  it. `DialogsHaveDownloads`, from `StackInv`: until an offer comes up during a
  download, the dialogs of a page stand right above it with nothing else above them
  (`DialogsOnTop`), and while a page that is still there downloads, it or its dialog is
  on top (`RunsOnTop`). So the end of a download, which pops whatever is on top, takes
  a dialog of its page as long as there is one, and both numbers fall by one. That is
  a theorem too, `HidesOwnDialog`, and the condition under which the comment that
  section 6 quotes is right. `CancelIsItsPages`, an action property: a download is
  stopped from the dialog of its own page or not at all. `TokensFit` says why: a page's
  token, and the one a call was given, are of a call of that page, although calls share
  tokens and `finally` drops whichever is there.
* **CategoryFeedProofs.** `TypeCorrect`, `OneLoad` and `PagingIsExact`, from
  `CategoryInv`, which adds to those that a call is for a
  category of its kind that is loading meanwhile, and for the page the list lacks
  (`CallsFit`), that a category nobody opened is as at the start (`Unopened`: so the
  constructor's load finds no other), and that `hasMore` promises a page
  (`MoreIsThere`). The steps are sorted into five kinds (a load of a topic or of a
  collection begins or ends, or neither), each treated once. `RefinesPager`, of every
  topic at once, from the same invariant: what a step does to one topic is a step of its Pager, and to
  the other topics nothing. `ResultsMatch` is inductive with the types.
* **LaunchProofs.** `TypeCorrect`, `InstallCountedOnce`, `InitialisedOnce` and, an
  action property, `SettledStays`, from `LaunchInv`. `IdFits` says when the id in
  memory is the stored one, and that nothing is tracked before something is stored.
  `ZeroedOnce` counts the places in a device's queue that zero a counter: at most one,
  and none once the device has done so, because it then knows the counter.
  `RefinesTally` adds that a queued view or download is of one wallpaper
  (`CountsAreOfOne`): by `SettledStays` a step moves a settled counter only if it applies
  such a write, which is a `Count` and settles nothing else on the way; any other step
  is a `Settle`, perhaps of no counter.
* **AdPoolProofs.** `TypeCorrect` and `CountIsBacked`, from `AdInv == TypeOK /\
  WaitsForOne /\ PoolIsBacked`; `WaitsForOne` says that a batch that waits has an ad
  left to load, so that its counter does not fall below zero. `PoolIsBacked` allows an ad
  to be listed twice, or listed and shown, only if it was refreshed (`again`): a listed
  ad is neither free nor on its way, so a first load lists an ad that is not there
  yet, and only a refresh can double one. `PoolHasWhatLoaded` adds
  `NoneIsLost`: a frame, the only step that makes loaded ads something else, takes
  exactly those from the list that it shows.

**Only model-checked**: liveness (`LoadingEnds`, `PullReturns`, `CallsReturn`,
`PaidComesUnlocked`, `SpinnerEnds`, `ShimmerEnds`, `LaunchEnds`, `PreloadingEnds`),
which is beyond the prover.

## 6. What the code does and its comments deny

| Run | Comment | What TLC shows |
|---|---|---|
| `firestore_failure` | "If Firestore fails, try to load from cache" (firestore_wallpaper_provider.dart:38) | `getWallpapers` catches every error and returns `[]`; `cacheWallpapers([])` clears the box and stamps it. A failed query empties the cache it was to fall back on. |
| `premium_unlock_crossed` | "Store wallpaper ID for payment success callback" (premium_service.dart:75) | a second checkout before the first is handled overwrites or removes the one `pending_unlock`; a paid wallpaper stays locked, or another is unlocked. |
| `update_page_hides` | "Hide download dialog" (update_page.dart:131) | the dialog was dismissed already; the pop takes the page or the offer. |
| `detail_page_retry` | "Failed to initiate payment. Please try again." (enhanced_wallpaper_detail_page.dart:559) | the bar of the tapped button fills and disables it, and a checkout that did not open rebuilds nothing: there is no button to try again with until the page is rebuilt or reopened. |

Also seen while modelling, without a run of its own: a cached list of two pages
whose background fetch fails is continued at page 2, which it already has
(explore_tab.dart:58; hence `cacheServed`); a counter that another device has raised
between the query and the late batch of `initializeDownloadsField` is set back to 0
(firestore_service.dart:212; hence `Settled`); a topic whose first load failed opens
with its error when reopened, because the load is in the notifier's constructor, once per
process (category_wallpapers_page.dart:29); two downloads of one wallpaper at a time
may leave a damaged copy (hence DetailPage's `overlapped`); an install that is killed
between storing its id and tracking it is never counted (splash_screen.dart:76);
without network, a copy of a document that lacks a counter keeps the app from starting
(main.dart:33). Of the ads: ADMOB_INTEGRATION.md:144 says "Ad disposal is handled properly
to prevent memory leaks", but an ad that has been shown is disposed of by nobody
(explore_tab.dart:260 takes it from the only list that `dispose` goes through: AdPool's
`Dropped`), unless a refresh fails; a refresh puts a banner on the screen into the
list again, so that two places of the grid may be given the same ad
(admob_service.dart:55, `again`); and the first of two batches to end clears `isPreloading`
for both (admob_provider.dart:31), after which a build may start a third.

## 7. What is not modelled

*Not modelled*, with the reason; each has its row in `PROJECT.json`:

* **FirestoreCategoriesNotifier and the Categories tab.** `getCategories` never
  throws, so Retry is never shown and `refresh` has no other caller: there is one
  call per process, over a box of its own without a timestamp. That is FirestoreFeed
  with a single writer. The daily picture is a memo by date, which no other step
  disturbs.
* **PexelsApiService, CloudinaryService, models.** Requests, JSON and URL rewriting
  without state; the modules use their outcomes (a page, or an exception).
* **Legacy REST backend, the search page, cloud functions.** Nothing in the app
  reaches them: no caller, or commented out. Of the search, what the category page calls is in CategoryFeed.
* **Theme, widgets, settings.** Drawing.
* **Platform projects and `src/ios/Pods`.** Build files and vendored third-party
  code: Firestore's SDK, gRPC, BoringSSL and others in C and C++, over a million
  lines that this repository does not write. The app's own code is Dart, some 10 000
  lines under `src/lib`, and that is what the map refers to; the SDKs are modelled
  from how `src/lib` uses them and marked `external`. No
  line of the vendored code is in the map.

*Left out of what is modelled*: payload (URLs, photographers, prices), layout,
animation but for the button's bar, wording, logging; the order of lists; progress
figures. Methods without a caller (`clearCache`, `manuallyUnlockWallpaper`, `loadAd`,
`getTotalDownloads`, ...). FirestoreWallpapersNotifier's other loaders, beyond the
trending row and the categories. PexelsTrendingWallpapersNotifier is
the same code as PexelsFeed over another box; it has no instance of its own.
A version with a suffix makes `int.parse` throw, which `checkForUpdate` swallows as
"no update"; VersionOrder has the versions that parse.

## 8. Plan

Written, in this order, because money and lost data come first, then what users see
daily: PremiumUnlock, FirestoreFeed, PexelsFeed, UpdatePage, CategoryFeed, Launch,
CacheBox and its two refinements, VersionOrder, DetailPage, AdPool, the abstract sale,
list and counter (Purchase, Pager, Tally) with the refinements onto them, and the proofs
of all of them. What could still be added:

1. The trending instance of PexelsFeed beside the curated one, as two feeds that
   share the Explore tab's pull.
2. The Categories tab as an instance of FirestoreFeed with one writer and no age.
