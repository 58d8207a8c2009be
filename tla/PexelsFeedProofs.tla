-------------------------- MODULE PexelsFeedProofs --------------------------
(* Theorems about PexelsFeed for every number of pages, calls and restarts. *)
EXTENDS PexelsFeed, TLAPS

\* A call that waits for refresh()'s clear() will fetch with refresh: true.
WipeRefreshes == \A c \in Calls : call[c].pc = "wipe" => Refreshes(c)

\* The parts hold together: the type of currentPage rests on the page a call
\* asked for, and exact paging on that page being the one the list lacks.
PagingInv == TypeOK /\ WipeRefreshes /\ LoadingIsOneRequest /\ NetworkPagesOnce

LEMMA Bounds ==
    /\ LastPage \in Nat /\ LastPage >= 1
    /\ MaxPage \in Nat /\ MaxPage > LastPage
    /\ MaxRestarts \in Nat
  BY BoundsAssumption DEF BoundsAssumption

LEMMA IdleType == Idle \in CallType
  BY Bounds DEF Idle, CallType

LEMMA NewFeedType == NewFeed \in FeedType
  BY Bounds DEF NewFeed, NothingShown, FeedType

-----------------------------------------------------------------------------
(* isLoading is a lock *)

LEMMA InitOneRequest == Init => LoadingIsOneRequest
  BY DEF Init, LoadingIsOneRequest, NewFeed, Idle

\* A step that moves no call into or out of the network.
LEMMA QuietOneRequest ==
    ASSUME LoadingIsOneRequest,
           UNCHANGED feed,
           \A c \in Calls :
             /\ call'[c].pc = "net" <=> call[c].pc = "net"
             /\ call[c].pc = "net" => call'[c] = call[c]
    PROVE  LoadingIsOneRequest'
  BY DEF LoadingIsOneRequest, Refreshes

\* The request that takes the lock.
LEMMA RequestOneRequest ==
    ASSUME TypeOK, LoadingIsOneRequest, NEW c \in Calls,
           ~feed.isLoading, feed'.isLoading,
           NEW kind, NEW page, Request(c, kind, page),
           page = IF kind # "load" THEN 1 ELSE feed'.currentPage
    PROVE  LoadingIsOneRequest'
<1>1. /\ call'[c].pc = "net" /\ call'[c].kind = kind /\ call'[c].page = page
      /\ \A d \in Calls \ {c} : call'[d] = call[d]
  BY DEF Request, Idle, TypeOK
<1>2. \A d \in Calls : call[d].pc # "net"
  BY DEF LoadingIsOneRequest
<1>3. QED
  BY <1>1, <1>2 DEF LoadingIsOneRequest, Refreshes

LEMMA LoadOneRequest ==
    ASSUME TypeOK, LoadingIsOneRequest, NEW c \in Calls, LoadWallpapers(c)
    PROVE  LoadingIsOneRequest'
<1>1. ~feed.isLoading
  BY DEF LoadWallpapers, NotLoading
<1>2. CASE LoadFromCache(c)
  <2>1. feed'.isLoading /\ Request(c, "background", 1)
    BY <1>2 DEF LoadFromCache, TypeOK, FeedType
  <2>2. QED
    BY <1>1, <2>1, RequestOneRequest
<1>3. CASE LoadFromApi(c)
  <2>1. /\ feed'.isLoading /\ feed'.currentPage = feed.currentPage
        /\ Request(c, "load", feed.currentPage)
    BY <1>3 DEF LoadFromApi, TypeOK, FeedType
  <2>2. QED
    BY <1>1, <2>1, RequestOneRequest
<1>4. QED
  BY <1>2, <1>3 DEF LoadWallpapers

\* The answer or the failure of the one request gives the lock back.
LEMMA ReleaseOneRequest ==
    ASSUME TypeOK, LoadingIsOneRequest, NEW c \in Calls,
           call[c].pc = "net", ~feed'.isLoading, call'[c].pc # "net",
           \A d \in Calls \ {c} : call'[d] = call[d]
    PROVE  LoadingIsOneRequest'
<1>1. \A d \in Calls : call'[d].pc # "net"
  BY DEF LoadingIsOneRequest
<1>2. QED
  BY <1>1 DEF LoadingIsOneRequest

LEMMA StepOneRequest ==
    PagingInv /\ [Next]_vars => LoadingIsOneRequest'
<1> SUFFICES ASSUME TypeOK, WipeRefreshes, LoadingIsOneRequest, [Next]_vars
             PROVE  LoadingIsOneRequest'
  BY DEF PagingInv
<1>1. ASSUME NEW c \in Calls, Launch(c) \/ Scroll(c) PROVE LoadingIsOneRequest'
  BY <1>1, LoadOneRequest DEF Launch, Scroll
<1>2. ASSUME NEW c \in Calls, TimerFires(c) PROVE LoadingIsOneRequest'
  BY <1>2, LoadOneRequest, QuietOneRequest DEF TimerFires
<1>3. ASSUME NEW c \in Calls, Pull(c) \/ Retry(c) PROVE LoadingIsOneRequest'
  BY <1>3, QuietOneRequest DEF Pull, Retry, Refresh, Idle, TypeOK
<1>4. ASSUME NEW c \in Calls, Wipe(c) PROVE LoadingIsOneRequest'
  <2>1. CASE ~feed.isLoading
    <3>1. /\ feed'.isLoading /\ Request(c, call[c].kind, 1)
          /\ feed' = [feed EXCEPT !.isLoading = TRUE, !.error = FALSE]
      BY <1>4, <2>1 DEF Wipe, NotLoading, TypeOK, FeedType
    <3>2. call[c].kind # "load"
      BY <1>4 DEF WipeRefreshes, Refreshes, Wipe
    <3>3. QED
      BY <2>1, <3>1, <3>2, RequestOneRequest
  <2>2. CASE feed.isLoading
    BY <1>4, <2>2, QuietOneRequest DEF Wipe, NotLoading, Returned, Idle, TypeOK
  <2>3. QED
    BY <2>1, <2>2
<1>5. ASSUME NEW c \in Calls, PageArrives(c) PROVE LoadingIsOneRequest'
  <2>1. /\ call[c].pc = "net" /\ ~feed'.isLoading /\ call'[c].pc # "net"
        /\ \A d \in Calls \ {c} : call'[d] = call[d]
    BY <1>5 DEF PageArrives, TypeOK, FeedType, CallType
  <2>2. QED
    BY <2>1, ReleaseOneRequest
<1>6. ASSUME NEW c \in Calls, RequestFails(c) PROVE LoadingIsOneRequest'
  <2>1. /\ call[c].pc = "net" /\ ~feed'.isLoading /\ call'[c].pc # "net"
        /\ \A d \in Calls \ {c} : call'[d] = call[d]
    BY <1>6 DEF RequestFails, FailedFeed, Finish, Returned, Idle, TypeOK, FeedType
  <2>2. QED
    BY <2>1, ReleaseOneRequest
<1>7. ASSUME NEW c \in Calls, Clear(c) \/ Put(c) PROVE LoadingIsOneRequest'
  BY <1>7, QuietOneRequest DEF Clear, Put, TypeOK, CallType
<1>8. ASSUME NEW c \in Calls, Stamp(c) \/ WriteFails(c) PROVE LoadingIsOneRequest'
  BY <1>8, QuietOneRequest DEF Stamp, WriteFails, Finish, Returned, Idle, TypeOK
<1>9. CASE HourPasses \/ UNCHANGED vars
  BY <1>9, QuietOneRequest DEF HourPasses, vars
<1>10. CASE Restart
  BY <1>10, InitOneRequest DEF Restart, LoadingIsOneRequest, NewFeed, Idle
<1>11. QED
  BY <1>1, <1>2, <1>3, <1>4, <1>5, <1>6, <1>7, <1>8, <1>9, <1>10 DEF Next, Advance
-----------------------------------------------------------------------------
(* Refreshes stay refreshes *)

LEMMA StepWipeRefreshes == TypeOK /\ WipeRefreshes /\ [Next]_vars => WipeRefreshes'
<1> SUFFICES ASSUME TypeOK, WipeRefreshes, [Next]_vars PROVE WipeRefreshes'
  OBVIOUS
<1>1. ASSUME NEW c \in Calls, Pull(c) \/ Retry(c) PROVE WipeRefreshes'
  BY <1>1 DEF Pull, Retry, Refresh, Idle, TypeOK, WipeRefreshes, Refreshes
<1>2. ASSUME NEW c \in Calls, LoadWallpapers(c) PROVE WipeRefreshes'
  BY <1>2 DEF LoadWallpapers, LoadFromCache, LoadFromApi, Request, Idle, TypeOK,
              WipeRefreshes, Refreshes
<1>3. ASSUME NEW c \in Calls, Launch(c) \/ Scroll(c) \/ TimerFires(c)
      PROVE  WipeRefreshes'
  <2>1. CASE LoadWallpapers(c)
    BY <1>2, <2>1
  <2>2. CASE UNCHANGED call
    BY <2>2 DEF WipeRefreshes, Refreshes
  <2>3. QED
    BY <1>3, <2>1, <2>2 DEF Launch, Scroll, TimerFires
<1>4. ASSUME NEW c \in Calls, Wipe(c) PROVE WipeRefreshes'
  <2>1. call'[c].pc # "wipe" /\ \A d \in Calls \ {c} : call'[d] = call[d]
    <3>1. CASE Request(c, call[c].kind, 1)
      BY <3>1 DEF Request, Idle, TypeOK
    <3>2. CASE Returned(c)
      BY <3>2 DEF Returned, Idle, TypeOK
    <3>3. QED
      BY <1>4, <3>1, <3>2 DEF Wipe
  <2>2. QED
    BY <2>1 DEF WipeRefreshes, Refreshes
<1>5. ASSUME NEW c \in Calls, PageArrives(c) \/ Clear(c) \/ Put(c)
      PROVE  WipeRefreshes'
  BY <1>5 DEF PageArrives, Clear, Put, TypeOK, CallType, WipeRefreshes, Refreshes
<1>6. ASSUME NEW c \in Calls, RequestFails(c) \/ Stamp(c) \/ WriteFails(c)
      PROVE  WipeRefreshes'
  BY <1>6 DEF RequestFails, Stamp, WriteFails, Finish, Returned, Idle, TypeOK,
              WipeRefreshes, Refreshes
<1>7. CASE HourPasses \/ UNCHANGED vars
  BY <1>7 DEF HourPasses, vars, WipeRefreshes, Refreshes
<1>8. CASE Restart
  BY <1>8 DEF Restart, Idle, WipeRefreshes, Refreshes
<1>9. QED
  BY <1>1, <1>3, <1>4, <1>5, <1>6, <1>7, <1>8 DEF Next, Advance

-----------------------------------------------------------------------------
(* Exact paging *)

\* A step that leaves the list and the page counter alone.
LEMMA SameListPagesOnce ==
    ASSUME NetworkPagesOnce, feed'.shown = feed.shown,
           feed'.currentPage = feed.currentPage, cacheServed' = cacheServed
    PROVE  NetworkPagesOnce'
  BY DEF NetworkPagesOnce

LEMMA ArrivalPagesOnce ==
    ASSUME TypeOK, LoadingIsOneRequest, NetworkPagesOnce,
           NEW c \in Calls, PageArrives(c)
    PROVE  NetworkPagesOnce'
<1> DEFINE p == call[c].page
<1> DEFINE next == IF Refreshes(c) THEN Replaced(p) ELSE Appended(p)
<1>1. /\ feed'.shown = next /\ feed'.currentPage = PageAfter(c)
      /\ cacheServed' = (cacheServed /\ ~Refreshes(c))
  BY DEF PageArrives, TypeOK, FeedType
<1>2. p = IF Refreshes(c) THEN 1 ELSE feed.currentPage
  BY DEF PageArrives, LoadingIsOneRequest
<1>3. feed.currentPage \in Int /\ Pages \subseteq Int
  BY Bounds DEF TypeOK, FeedType, Pages
<1>4. \A q \in Pages : q >= 1
  BY Bounds DEF Pages
<1>5. CASE Refreshes(c)
  <2>1. \A q \in Pages : feed'.shown[q] = IF q < feed'.currentPage THEN 1 ELSE 0
    <3> SUFFICES ASSUME NEW q \in Pages
                 PROVE  feed'.shown[q] = IF q < feed'.currentPage THEN 1 ELSE 0
      OBVIOUS
    <3>1. feed'.shown[q] = IF q = 1 THEN 1 ELSE 0
      BY <1>1, <1>2, <1>5 DEF Replaced
    <3>2. feed'.currentPage = 2
      BY <1>1, <1>5 DEF PageAfter
    <3>3. QED
      BY <1>3, <1>4, <3>1, <3>2
  <2>2. QED
    BY <2>1 DEF NetworkPagesOnce
<1>6. CASE ~Refreshes(c)
  <2> SUFFICES ASSUME ~cacheServed, NEW q \in Pages
               PROVE  feed'.shown[q] = IF q < feed'.currentPage THEN 1 ELSE 0
    BY <1>1, <1>6 DEF NetworkPagesOnce
  <2>1. feed.shown[q] = IF q < feed.currentPage THEN 1 ELSE 0
    BY DEF NetworkPagesOnce
  <2>2. /\ feed'.shown[q] = feed.shown[q] + (IF q = feed.currentPage THEN 1 ELSE 0)
        /\ feed'.currentPage = feed.currentPage + 1
    BY <1>1, <1>2, <1>6 DEF Appended, PageAfter
  <2>3. QED
    BY <1>3, <2>1, <2>2
<1>7. QED
  BY <1>5, <1>6

LEMMA InitPagesOnce ==
    feed = NewFeed => \A p \in Pages : feed.shown[p] = IF p < feed.currentPage THEN 1 ELSE 0
<1>1. \A p \in Pages : p \in Int /\ p >= 1
  BY Bounds DEF Pages
<1>2. QED
  BY <1>1 DEF NewFeed, NothingShown

LEMMA StepPagesOnce == PagingInv /\ [Next]_vars => NetworkPagesOnce'
<1> SUFFICES ASSUME TypeOK, LoadingIsOneRequest, NetworkPagesOnce, [Next]_vars
             PROVE  NetworkPagesOnce'
  BY DEF PagingInv
<1>1. ASSUME NEW c \in Calls, LoadWallpapers(c) PROVE NetworkPagesOnce'
  <2>1. CASE LoadFromCache(c)
    BY <2>1 DEF LoadFromCache, NetworkPagesOnce
  <2>2. CASE LoadFromApi(c)
    BY <2>2, SameListPagesOnce DEF LoadFromApi, TypeOK, FeedType
  <2>3. QED
    BY <1>1, <2>1, <2>2 DEF LoadWallpapers
<1>2. ASSUME NEW c \in Calls, Launch(c) \/ Scroll(c) \/ TimerFires(c)
      PROVE  NetworkPagesOnce'
  BY <1>1, <1>2, SameListPagesOnce DEF Launch, Scroll, TimerFires
<1>3. ASSUME NEW c \in Calls, Wipe(c) PROVE NetworkPagesOnce'
  BY <1>3, SameListPagesOnce DEF Wipe, TypeOK, FeedType
<1>4. ASSUME NEW c \in Calls, RequestFails(c) PROVE NetworkPagesOnce'
  BY <1>4, SameListPagesOnce DEF RequestFails, FailedFeed, TypeOK, FeedType
<1>5. ASSUME NEW c \in Calls,
             Pull(c) \/ Retry(c) \/ Clear(c) \/ Put(c) \/ Stamp(c) \/ WriteFails(c)
      PROVE  NetworkPagesOnce'
  BY <1>5, SameListPagesOnce DEF Pull, Retry, Refresh, Clear, Put, Stamp, WriteFails
<1>6. CASE HourPasses \/ UNCHANGED vars
  BY <1>6, SameListPagesOnce DEF HourPasses, vars
<1>7. CASE Restart
  BY <1>7, InitPagesOnce DEF Restart, NetworkPagesOnce, NewFeed, NothingShown, Pages
<1>8. QED
  BY <1>1, <1>2, <1>3, <1>4, <1>5, <1>6, <1>7, ArrivalPagesOnce DEF Next, Advance

-----------------------------------------------------------------------------
(* Type correctness *)

\* The calls keep their type: every step gives one call a typed value.
LEMMA OneCallTyped ==
    ASSUME TypeOK, NEW c \in Calls, NEW r \in CallType, call' = [call EXCEPT ![c] = r]
    PROVE  call' \in [Calls -> CallType]
  BY DEF TypeOK

LEMMA RequestTyped ==
    ASSUME TypeOK, NEW c \in Calls,
           NEW kind \in {"load", "background", "pull", "retry"},
           NEW page \in 1 .. MaxPage, Request(c, kind, page)
    PROVE  call' \in [Calls -> CallType]
<1>1. [Idle EXCEPT !.pc = "net", !.kind = kind, !.page = page] \in CallType
  BY DEF Idle, CallType
<1>2. QED
  BY <1>1, OneCallTyped DEF Request

LEMMA ReturnedTyped ==
    ASSUME TypeOK, NEW c \in Calls, Returned(c)
    PROVE  call' \in [Calls -> CallType]
  BY IdleType, OneCallTyped DEF Returned

\* A new list, flags or counter of the right type leave the feed well typed.
LEMMA FeedTyped ==
    ASSUME TypeOK, NEW s \in [Pages -> Nat], NEW l \in BOOLEAN, NEW h \in BOOLEAN,
           NEW e \in BOOLEAN, NEW n \in 1 .. MaxPage + 1
    PROVE  [feed EXCEPT !.shown = s, !.isLoading = l, !.error = e, !.hasMore = h,
                        !.currentPage = n] \in FeedType
  BY DEF TypeOK, FeedType

LEMMA LoadTyped ==
    ASSUME TypeOK, NEW c \in Calls, LoadWallpapers(c)
    PROVE  /\ feed' \in FeedType
           /\ hasLoaded' \in BOOLEAN
           /\ call' \in [Calls -> CallType]
           /\ cacheServed' \in BOOLEAN
<1>1. CASE LoadFromCache(c)
  <2>1. 2 \in 1 .. MaxPage + 1 /\ 1 \in 1 .. MaxPage
    BY Bounds
  <2>2. [p \in Pages |-> IF p \in box THEN 1 ELSE 0] \in [Pages -> Nat]
    OBVIOUS
  <2>3. feed' \in FeedType
    BY <1>1, <2>1, <2>2 DEF LoadFromCache, TypeOK, FeedType
  <2>4. call' \in [Calls -> CallType]
    BY <1>1, <2>1, RequestTyped DEF LoadFromCache
  <2>5. QED
    BY <1>1, <2>3, <2>4 DEF LoadFromCache
<1>2. CASE LoadFromApi(c)
  <2>1. feed.currentPage \in 1 .. MaxPage
    <3>1. feed.currentPage \in 1 .. MaxPage + 1 /\ feed.currentPage <= MaxPage
      BY <1>2 DEF LoadFromApi, TypeOK, FeedType
    <3>2. QED
      BY <3>1, Bounds
  <2>2. feed' \in FeedType
    BY <1>2 DEF LoadFromApi, TypeOK, FeedType
  <2>3. call' \in [Calls -> CallType]
    BY <1>2, <2>1, RequestTyped DEF LoadFromApi
  <2>4. QED
    BY <1>2, <2>2, <2>3 DEF LoadFromApi, TypeOK
<1>3. QED
  BY <1>1, <1>2 DEF LoadWallpapers

LEMMA ArrivalTyped ==
    ASSUME TypeOK, LoadingIsOneRequest, NEW c \in Calls, PageArrives(c)
    PROVE  feed' \in FeedType /\ call' \in [Calls -> CallType]
<1> DEFINE p == call[c].page
<1> DEFINE next == IF Refreshes(c) THEN Replaced(p) ELSE Appended(p)
<1> DEFINE todo == {q \in Pages : next[q] > 0}
<1>1. next \in [Pages -> Nat]
  BY DEF Replaced, Appended, TypeOK, FeedType
<1>2. PageAfter(c) \in 1 .. MaxPage + 1
  <2>1. p \in 1 .. MaxPage
    BY DEF TypeOK, CallType
  <2>2. CASE Refreshes(c)
    BY <2>2, Bounds DEF PageAfter
  <2>3. CASE ~Refreshes(c)
    <3>1. PageAfter(c) = p + 1
      BY <2>3 DEF PageArrives, LoadingIsOneRequest, PageAfter
    <3>2. QED
      BY <2>1, <3>1, Bounds
  <2>4. QED
    BY <2>2, <2>3
<1>3. feed' = [feed EXCEPT !.shown = next, !.isLoading = FALSE, !.error = FALSE,
                           !.hasMore = p < LastPage, !.currentPage = PageAfter(c)]
  BY DEF PageArrives
<1>4. feed' \in FeedType
  <2>1. (p < LastPage) \in BOOLEAN
    OBVIOUS
  <2>2. QED
    BY <1>1, <1>2, <1>3, <2>1, FeedTyped
<1>5. [call[c] EXCEPT !.pc = "clear", !.todo = todo] \in CallType
  <2>1. todo \in SUBSET Pages /\ call[c] \in CallType
    BY DEF TypeOK
  <2> HIDE DEF todo
  <2>2. QED
    BY <2>1 DEF CallType
<1>6. call' = [call EXCEPT ![c] = [call[c] EXCEPT !.pc = "clear", !.todo = todo]]
  BY DEF PageArrives, TypeOK
<1>7. QED
  BY <1>4, <1>5, <1>6, OneCallTyped

LEMMA StepTyped == PagingInv /\ [Next]_vars => TypeOK'
<1> SUFFICES ASSUME TypeOK, LoadingIsOneRequest, [Next]_vars PROVE TypeOK'
  BY DEF PagingInv
<1>1. ASSUME NEW c \in Calls, Launch(c) \/ Scroll(c) PROVE TypeOK'
  BY <1>1, LoadTyped DEF Launch, Scroll, TypeOK
<1>2. ASSUME NEW c \in Calls, TimerFires(c) PROVE TypeOK'
  <2>1. /\ feed' \in FeedType /\ hasLoaded' \in BOOLEAN
        /\ call' \in [Calls -> CallType] /\ cacheServed' \in BOOLEAN
    BY <1>2, LoadTyped DEF TimerFires, TypeOK
  <2>2. QED
    BY <1>2, <2>1 DEF TimerFires, TypeOK
<1>3. ASSUME NEW c \in Calls, Pull(c) \/ Retry(c) PROVE TypeOK'
  <2>1. PICK kind \in {"pull", "retry"} : Refresh(c, kind)
    BY <1>3 DEF Pull, Retry
  <2>2. [Idle EXCEPT !.pc = "wipe", !.kind = kind] \in CallType
    BY IdleType DEF CallType
  <2>3. call' \in [Calls -> CallType]
    BY <2>1, <2>2, OneCallTyped DEF Refresh
  <2>4. QED
    BY <2>1, <2>3 DEF Refresh, TypeOK
<1>4. ASSUME NEW c \in Calls, Wipe(c) PROVE TypeOK'
  <2>1. feed' \in FeedType
    BY <1>4 DEF Wipe, TypeOK, FeedType
  <2>2. call' \in [Calls -> CallType]
    <3>1. CASE Returned(c)
      BY <3>1, ReturnedTyped
    <3>2. CASE Request(c, call[c].kind, 1)
      <4>1. call[c].kind \in {"load", "background", "pull", "retry"}
        BY DEF TypeOK, CallType
      <4>2. 1 \in 1 .. MaxPage
        BY Bounds
      <4>3. QED
        BY <3>2, <4>1, <4>2, RequestTyped
    <3>3. QED
      BY <1>4, <3>1, <3>2 DEF Wipe
  <2>3. box' \in SUBSET Pages /\ stamp' \in {"none", "fresh", "old"}
    BY <1>4 DEF Wipe, TypeOK
  <2>4. overlapped' \in BOOLEAN /\ hasLoaded' \in BOOLEAN
    BY <1>4 DEF Wipe, TypeOK
  <2>5. QED
    BY <1>4, <2>1, <2>2, <2>3, <2>4 DEF Wipe, TypeOK
<1>5. ASSUME NEW c \in Calls, PageArrives(c) PROVE TypeOK'
  <2>1. cacheServed' \in BOOLEAN
    BY <1>5 DEF PageArrives
  <2>2. QED
    BY <1>5, <2>1, ArrivalTyped DEF PageArrives, TypeOK
<1>6. ASSUME NEW c \in Calls, RequestFails(c) PROVE TypeOK'
  <2>1. feed' \in FeedType
    BY <1>6 DEF RequestFails, FailedFeed, TypeOK, FeedType
  <2>2. call' \in [Calls -> CallType]
    BY <1>6, ReturnedTyped DEF RequestFails, Finish
  <2>3. hasLoaded' \in BOOLEAN
    BY <1>6 DEF RequestFails, Finish
  <2>4. QED
    BY <1>6, <2>1, <2>2, <2>3 DEF RequestFails, TypeOK
<1>7. ASSUME NEW c \in Calls, Clear(c) PROVE TypeOK'
  <2>1. [call[c] EXCEPT !.pc = "put"] \in CallType
    BY DEF TypeOK, CallType
  <2>2. call' \in [Calls -> CallType]
    BY <1>7, <2>1, OneCallTyped DEF Clear
  <2>3. overlapped' \in BOOLEAN
    BY <1>7 DEF Clear, TypeOK
  <2>4. QED
    BY <1>7, <2>2, <2>3 DEF Clear, TypeOK
<1>8. ASSUME NEW c \in Calls, Put(c) PROVE TypeOK'
  <2>1. PICK p \in call[c].todo :
          /\ box' = box \cup {p}
          /\ call' = [call EXCEPT ![c].todo = @ \ {p}]
    BY <1>8 DEF Put
  <2>2. call[c].todo \in SUBSET Pages
    BY DEF TypeOK, CallType
  <2>3. box' \in SUBSET Pages
    BY <2>1, <2>2 DEF TypeOK
  <2>4. [call[c] EXCEPT !.todo = @ \ {p}] \in CallType
    BY <2>2 DEF TypeOK, CallType
  <2>5. call' \in [Calls -> CallType]
    BY <2>1, <2>4, OneCallTyped
  <2>6. QED
    BY <1>8, <2>3, <2>5 DEF Put, TypeOK
<1>9. ASSUME NEW c \in Calls, Stamp(c) \/ WriteFails(c) PROVE TypeOK'
  <2>1. call' \in [Calls -> CallType]
    BY <1>9, ReturnedTyped DEF Stamp, WriteFails, Finish
  <2>2. hasLoaded' \in BOOLEAN /\ stamp' \in {"none", "fresh", "old"}
    BY <1>9 DEF Stamp, WriteFails, Finish, TypeOK
  <2>3. QED
    BY <1>9, <2>1, <2>2 DEF Stamp, WriteFails, TypeOK
<1>10. CASE HourPasses \/ UNCHANGED vars
  BY <1>10 DEF HourPasses, vars, TypeOK
<1>11. CASE Restart
  <2>1. restarts' \in 0 .. MaxRestarts
    <3>1. restarts \in 0 .. MaxRestarts /\ restarts < MaxRestarts /\ restarts' = restarts + 1
      BY <1>11 DEF Restart, TypeOK
    <3>2. QED
      BY <3>1, Bounds
  <2>2. call' \in [Calls -> CallType]
    BY <1>11, IdleType DEF Restart
  <2>3. QED
    BY <1>11, <2>1, <2>2, NewFeedType DEF Restart, TypeOK
<1>12. QED
  BY <1>1, <1>2, <1>3, <1>4, <1>5, <1>6, <1>7, <1>8, <1>9, <1>10, <1>11
  DEF Next, Advance

-----------------------------------------------------------------------------
(* No holes: on the screen, in the calls that write the box, in the box *)

\* What is on screen is pages 1 .. k, and the counter runs ahead of none of them.
ListTidy ==
    /\ Prefix(OnScreen)
    /\ \A p \in Pages : p < feed.currentPage => p \in OnScreen

\* What a call is to write, or has half written, is pages 1 .. k; one call at a
\* time writes, and last_update is there only for a whole box.
BoxTidy ==
    /\ \A c \in Calls : call[c].pc = "clear" => Prefix(call[c].todo)
    /\ \A c \in Calls : call[c].pc = "put" =>
         stamp = "none" /\ Prefix(box \cup call[c].todo)
    /\ \A c, d \in Calls : call[c].pc = "put" /\ call[d].pc = "put" => c = d
    /\ stamp # "none" => Prefix(box)

\* Two calls that write at the same time undo this, for good.
Tidy == ~overlapped => ListTidy /\ BoxTidy

LEMMA FirstPages == Prefix({}) /\ Prefix({1})
<1>1. {} = 1 .. 0 /\ {1} = 1 .. 1
  OBVIOUS
<1>2. 0 \in 0 .. LastPage /\ 1 \in 0 .. LastPage
  BY Bounds
<1>3. QED
  BY <1>1, <1>2 DEF Prefix

\* A page whose predecessors are all there makes no hole.
LEMMA NextPage ==
    ASSUME NEW S, Prefix(S), NEW p \in Pages, \A q \in Pages : q < p => q \in S
    PROVE  Prefix(S \cup {p})
<1>1. PICK k \in 0 .. LastPage : S = 1 .. k
  BY DEF Prefix
<1>2. k \in Int /\ p \in Int /\ 1 <= p /\ p <= LastPage /\ 0 <= k /\ k <= LastPage
  BY Bounds DEF Pages
<1>3. CASE p <= k
  <2>1. S \cup {p} = 1 .. k
    BY <1>1, <1>2, <1>3
  <2>2. QED
    BY <2>1 DEF Prefix
<1>4. CASE p > k
  <2>1. p = k + 1
    <3>1. CASE p > k + 1
      <4>1. p - 1 \in Pages /\ p - 1 < p
        BY <1>2, <3>1, Bounds DEF Pages
      <4>2. p - 1 \in 1 .. k
        BY <1>1, <4>1
      <4>3. QED
        BY <1>2, <3>1, <4>2
    <3>2. QED
      BY <1>2, <1>4, <3>1
  <2>2. S \cup {p} = 1 .. p
    BY <1>1, <1>2, <2>1
  <2>3. p \in 0 .. LastPage
    BY <1>2, Bounds
  <2>4. QED
    BY <2>2, <2>3 DEF Prefix
<1>5. QED
  BY <1>2, <1>3, <1>4

\* The list of a process that starts.
LEMMA NewTidy == feed = NewFeed => ListTidy
<1> SUFFICES ASSUME feed = NewFeed PROVE ListTidy
  OBVIOUS
<1>1. OnScreen = {}
  BY DEF OnScreen, NewFeed, NothingShown
<1>2. \A p \in Pages : ~(p < feed.currentPage)
  BY Bounds DEF NewFeed, Pages
<1>3. QED
  BY <1>1, <1>2, FirstPages DEF ListTidy

LEMMA NewTidyNext == feed' = NewFeed => ListTidy'
<1> SUFFICES ASSUME feed' = NewFeed PROVE ListTidy'
  OBVIOUS
<1>1. OnScreen' = {}
  BY DEF OnScreen, NewFeed, NothingShown
<1>2. \A p \in Pages : ~(p < feed'.currentPage)
  BY Bounds DEF NewFeed, Pages
<1>3. QED
  BY <1>1, <1>2, FirstPages DEF ListTidy

\* A step that leaves the list and the counter alone.
LEMMA SameListTidy ==
    ASSUME ListTidy, feed'.shown = feed.shown, feed'.currentPage = feed.currentPage
    PROVE  ListTidy'
  BY DEF ListTidy, OnScreen

\* The list read from the box: a fresh box has page 1.
LEMMA CacheTidy ==
    ASSUME TypeOK, BoxTidy, NEW c \in Calls, LoadFromCache(c)
    PROVE  ListTidy'
<1>1. feed'.shown = [p \in Pages |-> IF p \in box THEN 1 ELSE 0] /\ feed'.currentPage = 2
  BY DEF LoadFromCache, TypeOK, FeedType
<1>2. box \subseteq Pages /\ box # {} /\ Prefix(box)
  BY DEF LoadFromCache, BoxTidy, TypeOK
<1>3. OnScreen' = box
  BY <1>1, <1>2 DEF OnScreen
<1>4. 1 \in box
  <2>1. PICK k \in 0 .. LastPage : box = 1 .. k
    BY <1>2 DEF Prefix
  <2>2. QED
    BY <1>2, <2>1, Bounds
<1>5. \A p \in Pages : p < 2 => p = 1
  BY Bounds DEF Pages
<1>6. QED
  BY <1>1, <1>2, <1>3, <1>4, <1>5 DEF ListTidy

\* The page that arrives is page 1 alone or the one the list lacks next.
LEMMA ArrivalTidy ==
    ASSUME TypeOK, LoadingIsOneRequest, ListTidy, NEW c \in Calls, PageArrives(c)
    PROVE  ListTidy' /\ Prefix(call'[c].todo)
<1> DEFINE p == call[c].page
<1> DEFINE next == IF Refreshes(c) THEN Replaced(p) ELSE Appended(p)
<1>1. /\ feed'.shown = next /\ feed'.currentPage = PageAfter(c)
      /\ call'[c].todo = {q \in Pages : next[q] > 0}
  BY DEF PageArrives, TypeOK, FeedType, CallType
<1>2. p = IF Refreshes(c) THEN 1 ELSE feed.currentPage
  BY DEF PageArrives, LoadingIsOneRequest
<1>3. call'[c].todo = OnScreen'
  BY <1>1 DEF OnScreen
<1>4. feed.currentPage \in Int /\ Pages \subseteq Int /\ \A q \in Pages : q >= 1
  BY Bounds DEF TypeOK, FeedType, Pages
<1>5. CASE Refreshes(c)
  <2>1. feed'.shown = [q \in Pages |-> IF q = 1 THEN 1 ELSE 0] /\ feed'.currentPage = 2
    BY <1>1, <1>2, <1>5 DEF Replaced, PageAfter
  <2>2. OnScreen' = {1}
    BY <2>1, Bounds DEF OnScreen, Pages
  <2>3. \A q \in Pages : q < 2 => q = 1
    BY <1>4
  <2>4. QED
    BY <1>3, <2>1, <2>2, <2>3, FirstPages DEF ListTidy
<1>6. CASE ~Refreshes(c)
  <2>1. /\ feed'.shown = [q \in Pages |-> feed.shown[q] + (IF q = p THEN 1 ELSE 0)]
        /\ feed'.currentPage = p + 1 /\ p = feed.currentPage
    BY <1>1, <1>2, <1>6 DEF Appended, PageAfter
  <2>2. \A q \in Pages : feed.shown[q] \in Nat
    BY DEF TypeOK, FeedType
  <2>3. \A q \in Pages : q \in OnScreen' <=> q \in OnScreen \/ q = p
    BY <2>1, <2>2 DEF OnScreen
  <2>4. \A q \in Pages : q < p => q \in OnScreen
    BY <2>1 DEF ListTidy
  <2>5. \A q \in Pages : q < p + 1 => q \in OnScreen'
    BY <1>4, <2>1, <2>3, <2>4
  <2>6. Prefix(OnScreen')
    <3>1. OnScreen \subseteq Pages /\ OnScreen' \subseteq Pages
      BY DEF OnScreen
    <3>2. CASE p \in Pages
      <4>1. OnScreen' = OnScreen \cup {p}
        BY <2>3, <3>1, <3>2
      <4>2. QED
        BY <2>4, <3>2, <4>1, NextPage DEF ListTidy
    <3>3. CASE p \notin Pages
      <4>1. OnScreen' = OnScreen
        BY <2>3, <3>1, <3>3
      <4>2. QED
        BY <4>1 DEF ListTidy
    <3>4. QED
      BY <3>2, <3>3
  <2>7. QED
    BY <1>3, <2>1, <2>5, <2>6 DEF ListTidy
<1>7. QED
  BY <1>5, <1>6

\* A step that leaves the box alone and starts no write.
LEMMA QuietBoxTidy ==
    ASSUME BoxTidy, box' = box, stamp' = stamp,
           \A c \in Calls :
             \/ call'[c] = call[c]
             \/ call'[c].pc \notin {"clear", "put"}
    PROVE  BoxTidy'
  BY DEF BoxTidy

LEMMA ClearTidy ==
    ASSUME TypeOK, BoxTidy, NEW c \in Calls, Clear(c), ~overlapped'
    PROVE  BoxTidy'
<1>1. /\ box' = {} /\ stamp' = "none"
      /\ call'[c].pc = "put" /\ call'[c].todo = call[c].todo
      /\ \A d \in Calls \ {c} : call'[d] = call[d] /\ call[d].pc # "put"
  BY DEF Clear, TypeOK, CallType
<1>2. Prefix({} \cup call[c].todo)
  <2>1. {} \cup call[c].todo = call[c].todo
    OBVIOUS
  <2>2. QED
    BY <2>1 DEF BoxTidy, Clear
<1>3. QED
  BY <1>1, <1>2 DEF BoxTidy

LEMMA PutTidy ==
    ASSUME TypeOK, BoxTidy, NEW c \in Calls, Put(c)
    PROVE  BoxTidy'
<1>1. PICK p \in call[c].todo :
        box' = box \cup {p} /\ call' = [call EXCEPT ![c].todo = @ \ {p}]
  BY DEF Put
<1>2. /\ call[c].pc = "put" /\ stamp' = stamp
      /\ call'[c].pc = "put" /\ call'[c].todo = call[c].todo \ {p}
      /\ \A d \in Calls \ {c} : call'[d] = call[d]
  BY <1>1 DEF Put, TypeOK, CallType
<1>3. stamp = "none" /\ Prefix(box \cup call[c].todo)
  BY <1>2 DEF BoxTidy
<1>4. box' \cup call'[c].todo = box \cup call[c].todo
  BY <1>1, <1>2
<1>5. QED
  BY <1>2, <1>3, <1>4 DEF BoxTidy

LEMMA StampTidy ==
    ASSUME TypeOK, BoxTidy, NEW c \in Calls, Stamp(c)
    PROVE  BoxTidy' /\ stamp = "none" /\ Prefix(box)
<1>1. /\ call[c].pc = "put" /\ call[c].todo = {} /\ box' = box
      /\ call'[c].pc = "idle"
      /\ \A d \in Calls \ {c} : call'[d] = call[d]
  BY DEF Stamp, PutsDone, Finish, Returned, Idle, TypeOK
<1>2. stamp = "none" /\ Prefix(box)
  <2>1. box \cup {} = box
    OBVIOUS
  <2>2. QED
    BY <1>1, <2>1 DEF BoxTidy
<1>3. \A d \in Calls : call'[d].pc # "put"
  BY <1>1 DEF BoxTidy
<1>4. QED
  BY <1>1, <1>2, <1>3 DEF BoxTidy

\* The calls of the other operations are in neither phase of the write after it.
LEMMA LoadQuiet ==
    ASSUME TypeOK, NEW c \in Calls, LoadWallpapers(c)
    PROVE  \A d \in Calls : call'[d] = call[d] \/ call'[d].pc \notin {"clear", "put"}
  BY DEF LoadWallpapers, LoadFromCache, LoadFromApi, Request, Idle, TypeOK

LEMMA LoadTidy ==
    ASSUME TypeOK, ListTidy, BoxTidy, NEW c \in Calls, LoadWallpapers(c),
           UNCHANGED <<box, stamp>>
    PROVE  ListTidy' /\ BoxTidy'
<1>1. BoxTidy'
  BY LoadQuiet, QuietBoxTidy
<1>2. CASE LoadFromCache(c)
  BY <1>1, <1>2, CacheTidy
<1>3. CASE LoadFromApi(c)
  BY <1>1, <1>3, SameListTidy DEF LoadFromApi, TypeOK, FeedType
<1>4. QED
  BY <1>2, <1>3 DEF LoadWallpapers

LEMMA WipeTidy ==
    ASSUME TypeOK, ListTidy, BoxTidy, NEW c \in Calls, Wipe(c), ~overlapped'
    PROVE  ListTidy' /\ BoxTidy'
<1>1. ListTidy'
  BY SameListTidy DEF Wipe, TypeOK, FeedType
<1>2. \A d \in Calls : call'[d] = call[d] \/ call'[d].pc \notin {"clear", "put"}
  <2>1. CASE Request(c, call[c].kind, 1)
    BY <2>1 DEF Request, Idle, TypeOK
  <2>2. CASE Returned(c)
    BY <2>2 DEF Returned, Idle, TypeOK
  <2>3. QED
    BY <2>1, <2>2 DEF Wipe
<1>3. CASE box' = {} /\ stamp' = "none" /\ \A d \in Calls : call[d].pc # "put"
  BY <1>1, <1>2, <1>3 DEF BoxTidy
<1>4. CASE UNCHANGED <<box, stamp>>
  BY <1>1, <1>2, <1>4, QuietBoxTidy
<1>5. QED
  BY <1>3, <1>4 DEF Wipe

LEMMA StepTidy == PagingInv /\ Tidy /\ [Next]_vars => Tidy'
<1> SUFFICES ASSUME TypeOK, LoadingIsOneRequest, Tidy, [Next]_vars, ~overlapped'
             PROVE  ListTidy' /\ BoxTidy'
  BY DEF PagingInv, Tidy
<1>1. ~overlapped
  BY DEF Next, Advance, Launch, TimerFires, Scroll, Pull, Retry, Refresh, Wipe,
         PageArrives, RequestFails, Clear, Put, Stamp, WriteFails, HourPasses,
         Restart, vars
<1>2. ListTidy /\ BoxTidy
  BY <1>1 DEF Tidy
<1>3. ASSUME NEW c \in Calls, Launch(c) \/ Scroll(c) PROVE ListTidy' /\ BoxTidy'
  BY <1>2, <1>3, LoadTidy DEF Launch, Scroll
<1>4. ASSUME NEW c \in Calls, TimerFires(c) PROVE ListTidy' /\ BoxTidy'
  <2>1. CASE LoadWallpapers(c)
    BY <1>2, <1>4, <2>1, LoadTidy DEF TimerFires
  <2>2. CASE UNCHANGED <<feed, call>>
    BY <1>2, <1>4, <2>2, SameListTidy, QuietBoxTidy DEF TimerFires
  <2>3. QED
    BY <1>4, <2>1, <2>2 DEF TimerFires
<1>5. ASSUME NEW c \in Calls, Pull(c) \/ Retry(c) PROVE ListTidy' /\ BoxTidy'
  <2>1. \A d \in Calls : call'[d] = call[d] \/ call'[d].pc \notin {"clear", "put"}
    BY <1>5 DEF Pull, Retry, Refresh, Idle, TypeOK
  <2>2. QED
    BY <1>2, <1>5, <2>1, SameListTidy, QuietBoxTidy DEF Pull, Retry, Refresh
<1>6. ASSUME NEW c \in Calls, Wipe(c) PROVE ListTidy' /\ BoxTidy'
  BY <1>2, <1>6, WipeTidy
<1>7. ASSUME NEW c \in Calls, PageArrives(c) PROVE ListTidy' /\ BoxTidy'
  <2>1. ListTidy' /\ Prefix(call'[c].todo)
    BY <1>2, <1>7, ArrivalTidy
  <2>2. /\ call'[c].pc = "clear" /\ UNCHANGED <<box, stamp>>
        /\ \A d \in Calls \ {c} : call'[d] = call[d]
    BY <1>7 DEF PageArrives, TypeOK, CallType
  <2>3. QED
    BY <1>2, <2>1, <2>2 DEF BoxTidy
<1>8. ASSUME NEW c \in Calls, RequestFails(c) PROVE ListTidy' /\ BoxTidy'
  <2>1. \A d \in Calls : call'[d] = call[d] \/ call'[d].pc \notin {"clear", "put"}
    BY <1>8 DEF RequestFails, Finish, Returned, Idle, TypeOK
  <2>2. feed'.shown = feed.shown /\ feed'.currentPage = feed.currentPage
    BY <1>8 DEF RequestFails, FailedFeed, TypeOK, FeedType
  <2>3. QED
    BY <1>2, <1>8, <2>1, <2>2, SameListTidy, QuietBoxTidy DEF RequestFails
<1>9. ASSUME NEW c \in Calls, Clear(c) \/ Put(c) \/ Stamp(c)
      PROVE  ListTidy' /\ BoxTidy'
  <2>1. ListTidy'
    BY <1>2, <1>9, SameListTidy DEF Clear, Put, Stamp
  <2>2. QED
    BY <1>2, <1>9, <2>1, ClearTidy, PutTidy, StampTidy
<1>10. ASSUME NEW c \in Calls, WriteFails(c) PROVE ListTidy' /\ BoxTidy'
  <2>1. \A d \in Calls : call'[d] = call[d] \/ call'[d].pc \notin {"clear", "put"}
    BY <1>10 DEF WriteFails, Finish, Returned, Idle, TypeOK
  <2>2. QED
    BY <1>2, <1>10, <2>1, SameListTidy, QuietBoxTidy DEF WriteFails
<1>11. CASE HourPasses
  <2>1. BoxTidy'
    BY <1>2, <1>11 DEF HourPasses, BoxTidy
  <2>2. QED
    BY <1>2, <1>11, <2>1, SameListTidy DEF HourPasses
<1>12. CASE Restart
  <2>1. \A d \in Calls : call'[d].pc \notin {"clear", "put"}
    BY <1>12 DEF Restart, Idle
  <2>2. ListTidy'
    BY <1>12, NewTidyNext DEF Restart
  <2>3. QED
    BY <1>2, <1>12, <2>1, <2>2, QuietBoxTidy DEF Restart
<1>13. CASE UNCHANGED vars
  BY <1>2, <1>13, SameListTidy, QuietBoxTidy DEF vars
<1>14. QED
  BY <1>3, <1>4, <1>5, <1>6, <1>7, <1>8, <1>9, <1>10, <1>11, <1>12, <1>13
  DEF Next, Advance

-----------------------------------------------------------------------------
(* The theorems *)

LEMMA InitPaging == Init => PagingInv
<1> SUFFICES ASSUME Init PROVE PagingInv
  OBVIOUS
<1>1. restarts \in 0 .. MaxRestarts
  BY Bounds DEF Init
<1>2. call \in [Calls -> CallType]
  BY IdleType DEF Init
<1>3. TypeOK
  BY <1>1, <1>2, NewFeedType DEF Init, TypeOK
<1>4. NetworkPagesOnce
  BY InitPagesOnce DEF Init, NetworkPagesOnce
<1>5. WipeRefreshes
  BY DEF Init, Idle, WipeRefreshes
<1>6. QED
  BY <1>3, <1>4, <1>5, InitOneRequest DEF PagingInv

LEMMA PagingInvariant == Spec => []PagingInv
<1>1. PagingInv /\ [Next]_vars => PagingInv'
  BY StepTyped, StepWipeRefreshes, StepOneRequest, StepPagesOnce DEF PagingInv
<1>2. QED
  BY InitPaging, <1>1, PTL DEF Spec

\* Every variable keeps its type, whatever the numbers of pages, of calls in
\* flight and of restarts: in particular currentPage stays within MaxPage + 1.
THEOREM TypeCorrect == Spec => []TypeOK
<1>1. PagingInv => TypeOK
  BY DEF PagingInv
<1>2. QED
  BY PagingInvariant, <1>1, PTL

\* isLoading, tested and set by every trigger of the Explore tab, admits one
\* request at a time, and that request is for the page the list lacks.
THEOREM OneRequestAtATime == Spec => []LoadingIsOneRequest
<1>1. PagingInv => LoadingIsOneRequest
  BY DEF PagingInv
<1>2. QED
  BY PagingInvariant, <1>1, PTL

\* A list that came from the network shows pages 1 up to currentPage, each
\* once, through every failure, retry, refresh and restart.
THEOREM PagingIsExact == Spec => []NetworkPagesOnce
<1>1. PagingInv => NetworkPagesOnce
  BY DEF PagingInv
<1>2. QED
  BY PagingInvariant, <1>1, PTL

\* PagingInv says which page arrives, Tidy what it completes.
LEMMA HolesInvariant == Spec => [](PagingInv /\ Tidy)
<1>1. Init => PagingInv /\ Tidy
  <2> SUFFICES ASSUME Init PROVE Tidy
    BY InitPaging
  <2>1. ListTidy
    BY NewTidy DEF Init
  <2>2. BoxTidy
    BY DEF Init, Idle, BoxTidy
  <2>3. QED
    BY <2>1, <2>2 DEF Tidy
<1>2. PagingInv /\ Tidy /\ [Next]_vars => (PagingInv /\ Tidy)'
  BY StepTyped, StepWipeRefreshes, StepOneRequest, StepPagesOnce, StepTidy
  DEF PagingInv
<1>3. QED
  BY <1>1, <1>2, PTL DEF Spec

\* The pages on screen are pages 1 .. k: no failure, retry, kill or half-written
\* box makes the Explore tab skip a page, until two writes of the box overlap.
THEOREM NoPageMissing == Spec => []NoHoles
<1>1. Tidy => NoHoles
  BY DEF Tidy, ListTidy, BoxTidy, NoHoles
<1>2. QED
  BY HolesInvariant, <1>1, PTL

\* The Pexels box, cleared, filled and stamped one operation at a time, is the
\* atomic cache of CacheBox: Stamp stores, Clear and Wipe discard, the hour
\* expires, and every other step stutters.
THEOREM RefinesCacheBox == Spec => ImplementsCacheBox
<1> DEFINE content == IF Served THEN {box} ELSE {}
<1> DEFINE age == IF Served THEN stamp ELSE "none"
<1> DEFINE Inv == PagingInv /\ Tidy
<1>1. Init => Cache!Init
  BY DEF Init, Cache!Init, Served
<1>2. Inv /\ Inv' /\ [Next]_vars => [Cache!Next]_<<content, age>>
  <2> SUFFICES ASSUME Inv, Inv', [Next]_vars
               PROVE  Cache!Next \/ UNCHANGED <<content, age>>
    OBVIOUS
  <2>1. TypeOK
    BY DEF PagingInv
  <2>2. CASE UNCHANGED <<box, stamp, overlapped>>
    BY <2>2 DEF Served
  <2>3. CASE overlapped
    <3>1. overlapped'
      BY <2>3 DEF Next, Advance, Launch, TimerFires, Scroll, Pull, Retry, Refresh,
         Wipe, PageArrives, RequestFails, Clear, Put, Stamp, WriteFails,
         HourPasses, Restart, vars
    <3>2. QED
      BY <2>3, <3>1 DEF Served
  <2>4. ASSUME ~overlapped, stamp' = "none" PROVE Cache!Next \/ UNCHANGED <<content, age>>
    <3>1. ~Served'
      BY <2>4 DEF Served
    <3>2. CASE Served
      BY <3>1, <3>2 DEF Cache!Next, Cache!Discard
    <3>3. CASE ~Served
      BY <3>1, <3>3
    <3>4. QED
      BY <3>2, <3>3
  <2>5. ASSUME ~overlapped, NEW c \in Calls, Put(c)
        PROVE  Cache!Next \/ UNCHANGED <<content, age>>
    <3>1. stamp = "none" /\ stamp' = stamp
      BY <2>5 DEF Put, Tidy, BoxTidy
    <3>2. QED
      BY <2>4, <2>5, <3>1
  <2>6. ASSUME ~overlapped, NEW c \in Calls, Stamp(c)
        PROVE  Cache!Next \/ UNCHANGED <<content, age>>
    <3>1. stamp = "none" /\ Prefix(box)
      BY <2>1, <2>6, StampTidy DEF Tidy
    <3>2. stamp' = "fresh" /\ UNCHANGED <<box, overlapped>>
      BY <2>6 DEF Stamp
    <3>3. content = {} /\ content' = {box} /\ age' = "fresh"
      BY <2>6, <3>1, <3>2 DEF Served
    <3>4. box \in {1 .. k : k \in 0 .. LastPage}
      BY <3>1 DEF Prefix
    <3>5. QED
      BY <3>3, <3>4 DEF Cache!Next, Cache!Store
  <2>7. ASSUME ~overlapped, HourPasses
        PROVE  Cache!Next \/ UNCHANGED <<content, age>>
    BY <2>7 DEF HourPasses, Served, Cache!Next, Cache!Expire
  <2>8. ASSUME NEW c \in Calls,
               Launch(c) \/ TimerFires(c) \/ Scroll(c) \/ Pull(c) \/ Retry(c)
                 \/ PageArrives(c) \/ RequestFails(c) \/ WriteFails(c)
        PROVE  UNCHANGED <<box, stamp, overlapped>>
    BY <2>8 DEF Launch, TimerFires, Scroll, Pull, Retry, Refresh, PageArrives,
                RequestFails, WriteFails
  <2>9. ASSUME NEW c \in Calls, Clear(c) \/ Wipe(c)
        PROVE  stamp' = "none" \/ UNCHANGED <<box, stamp, overlapped>>
    BY <2>9 DEF Clear, Wipe
  <2>10. CASE Restart \/ UNCHANGED vars
    BY <2>2, <2>10 DEF Restart, vars
  <2>11. QED
    BY <2>2, <2>3, <2>4, <2>5, <2>6, <2>7, <2>8, <2>9, <2>10 DEF Next, Advance
<1>3. QED
  BY HolesInvariant, <1>1, <1>2, PTL DEF Spec, ImplementsCacheBox, Cache!Spec

-----------------------------------------------------------------------------
(* The list is a pager *)

ListVars ==
    <<FromNetwork(feed.shown, NothingShown), FromNetwork(feed.currentPage, 1), Asked>>

LEMMA NothingIsUpToZero == NothingShown = List!UpTo(0)
<1>1. \A p \in Pages : p \in Int /\ ~(p <= 0)
  BY Bounds DEF Pages
<1>2. QED
  BY <1>1 DEF NothingShown, List!UpTo

\* Whoever is not the one caller asks for nothing.
LEMMA NobodyAsks ==
    ASSUME LoadingIsOneRequest, ~feed.isLoading
    PROVE  Asked = {}
  BY DEF LoadingIsOneRequest, Asked

LEMMA OneAsks ==
    ASSUME LoadingIsOneRequest, NEW c \in Calls, call[c].pc = "net"
    PROVE  Asked = IF Refreshes(c) \/ ~cacheServed THEN {<<c, call[c].page>>} ELSE {}
<1>1. \A d \in Calls : call[d].pc = "net" => d = c
  BY DEF LoadingIsOneRequest
<1>2. QED
  BY <1>1 DEF Asked

LEMMA RequestAsks ==
    ASSUME TypeOK, LoadingIsOneRequest, ~feed.isLoading, NEW c \in Calls, NEW kind,
           NEW page, Request(c, kind, page)
    PROVE  Asked' = IF kind # "load" \/ ~cacheServed' THEN {<<c, page>>} ELSE {}
<1>1. /\ call'[c].pc = "net" /\ call'[c].kind = kind /\ call'[c].page = page
      /\ \A d \in Calls \ {c} : call'[d] = call[d]
  BY DEF Request, Idle, TypeOK
<1>2. \A d \in Calls \ {c} : call'[d].pc # "net"
  BY <1>1 DEF LoadingIsOneRequest
<1>3. QED
  BY <1>1, <1>2 DEF Asked, Refreshes

\* A step that moves no call into or out of the network, nor changes the list.
LEMMA QuietList ==
    ASSUME feed'.shown = feed.shown, feed'.currentPage = feed.currentPage,
           cacheServed' = cacheServed,
           \A d \in Calls : call'[d] # call[d] => call[d].pc # "net" /\ call'[d].pc # "net"
    PROVE  UNCHANGED ListVars
<1>1. Asked' = Asked
  <2>1. \A d \in Calls : /\ call'[d].pc = "net" <=> call[d].pc = "net"
                         /\ call[d].pc = "net" => call'[d] = call[d]
    OBVIOUS
  <2>2. QED
    BY <2>1 DEF Asked, Refreshes
<1>2. QED
  BY <1>1 DEF ListVars, FromNetwork

LEMMA LoadAsks ==
    ASSUME PagingInv, NEW c \in Calls, LoadWallpapers(c)
    PROVE  List!Next \/ UNCHANGED ListVars
<1>1. TypeOK /\ LoadingIsOneRequest /\ ~feed.isLoading
  BY DEF PagingInv, LoadWallpapers, NotLoading
<1>2. CASE LoadFromCache(c)
  <2>1. Asked' = {<<c, 1>>}
    BY <1>1, <1>2, RequestAsks DEF LoadFromCache
  <2>2. /\ FromNetwork(feed.shown, NothingShown)' = List!UpTo(0)
        /\ FromNetwork(feed.currentPage, 1)' = 1
    BY <1>2, NothingIsUpToZero DEF LoadFromCache, FromNetwork, NothingShown, Pages
  <2>3. List!Forget
    BY <2>1, <2>2 DEF List!Forget
  <2>4. QED
    BY <2>3 DEF List!Next
<1>3. CASE LoadFromApi(c)
  <2>1. /\ feed'.shown = feed.shown /\ feed'.currentPage = feed.currentPage
        /\ cacheServed' = cacheServed
        /\ feed.currentPage \in 1 .. MaxPage
    BY <1>1, <1>3, Bounds DEF LoadFromApi, TypeOK, FeedType
  <2>2. Asked' = IF cacheServed THEN {} ELSE {<<c, feed.currentPage>>}
    BY <1>1, <1>3, <2>1, RequestAsks DEF LoadFromApi
  <2>3. Asked = {}
    BY <1>1, NobodyAsks
  <2>4. CASE cacheServed
    BY <2>1, <2>2, <2>3, <2>4 DEF ListVars, FromNetwork
  <2>5. CASE ~cacheServed
    <3>1. List!Ask(c, feed.currentPage)
      BY <2>1, <2>2, <2>3, <2>5, Bounds DEF List!Ask, FromNetwork
    <3>2. QED
      BY <2>1, <3>1 DEF List!Next
  <2>6. QED
    BY <2>4, <2>5
<1>4. QED
  BY <1>2, <1>3 DEF LoadWallpapers

LEMMA WipeAsks ==
    ASSUME PagingInv, NEW c \in Calls, Wipe(c)
    PROVE  List!Next \/ UNCHANGED ListVars
<1>1. TypeOK /\ LoadingIsOneRequest /\ call[c].kind # "load"
  BY DEF PagingInv, WipeRefreshes, Refreshes, Wipe
<1>2. /\ feed'.shown = feed.shown /\ feed'.currentPage = feed.currentPage
      /\ cacheServed' = cacheServed
  BY <1>1 DEF Wipe, TypeOK, FeedType
<1>3. CASE NotLoading
  <2>1. Asked = {} /\ Asked' = {<<c, 1>>}
    BY <1>1, <1>3, NobodyAsks, RequestAsks DEF Wipe, NotLoading
  <2>2. List!Ask(c, 1)
    BY <1>2, <2>1, Bounds DEF List!Ask, FromNetwork
  <2>3. 1 \in 1 .. MaxPage
    BY Bounds
  <2>4. QED
    BY <2>2, <2>3 DEF List!Next
<1>4. CASE ~NotLoading
  BY <1>1, <1>2, <1>4, QuietList DEF Wipe, Returned, Idle, TypeOK
<1>5. QED
  BY <1>3, <1>4

LEMMA ArrivalAnswers ==
    ASSUME PagingInv, NEW c \in Calls, PageArrives(c)
    PROVE  List!Next \/ UNCHANGED ListVars
<1> DEFINE p == call[c].page
<1>1. TypeOK /\ LoadingIsOneRequest /\ call[c].pc = "net"
  BY DEF PagingInv, PageArrives
<1>2. Asked = IF Refreshes(c) \/ ~cacheServed THEN {<<c, p>>} ELSE {}
  BY <1>1, OneAsks
<1>3. p = IF Refreshes(c) THEN 1 ELSE feed.currentPage
  BY <1>1 DEF LoadingIsOneRequest
<1>4. /\ feed'.shown = IF Refreshes(c) THEN Replaced(p) ELSE Appended(p)
      /\ feed'.currentPage = IF Refreshes(c) THEN 2 ELSE feed.currentPage + 1
      /\ cacheServed' = (cacheServed /\ ~Refreshes(c))
  BY <1>1 DEF PageArrives, PageAfter, TypeOK, FeedType
<1>5. Asked' = {}
  <2>1. call'[c].pc = "clear" /\ \A d \in Calls \ {c} : call'[d] = call[d]
    BY <1>1 DEF PageArrives, TypeOK, CallType
  <2>2. \A d \in Calls : call'[d].pc # "net"
    BY <1>1, <2>1 DEF LoadingIsOneRequest
  <2>3. QED
    BY <2>2 DEF Asked
<1>6. CASE ~Refreshes(c) /\ cacheServed
  BY <1>2, <1>4, <1>5, <1>6 DEF ListVars, FromNetwork
<1>7. CASE Refreshes(c) \/ ~cacheServed
  <2>1. feed.currentPage \in Int /\ \A q \in Pages : q \in Int /\ q >= 1
    BY <1>1, Bounds DEF TypeOK, FeedType, Pages
  <2>2. feed'.shown = List!UpTo(p)
    <3>1. CASE Refreshes(c)
      BY <1>3, <1>4, <2>1, <3>1 DEF Replaced, List!UpTo
    <3>2. CASE ~Refreshes(c)
      <4>1. \A q \in Pages : feed.shown[q] = IF q < feed.currentPage THEN 1 ELSE 0
        BY <1>7, <3>2 DEF PagingInv, NetworkPagesOnce
      <4>2. feed'.shown = [q \in Pages |-> feed.shown[q]
                                            + IF q = feed.currentPage THEN 1 ELSE 0]
        BY <1>3, <1>4, <3>2 DEF Appended
      <4>3. \A q \in Pages : feed.shown[q] + (IF q = feed.currentPage THEN 1 ELSE 0)
                             = IF q <= feed.currentPage THEN 1 ELSE 0
        BY <2>1, <4>1
      <4>4. feed'.shown = [q \in Pages |-> IF q <= feed.currentPage THEN 1 ELSE 0]
        BY <4>2, <4>3
      <4>5. QED
        BY <1>3, <3>2, <4>4 DEF List!UpTo
    <3>3. QED
      BY <3>1, <3>2
  <2>3. feed'.currentPage = p + 1 /\ ~cacheServed'
    <3>1. ~cacheServed'
      BY <1>4, <1>7
    <3>2. CASE Refreshes(c)
      BY <1>3, <1>4, <3>1, <3>2
    <3>3. CASE ~Refreshes(c)
      BY <1>3, <1>4, <3>1, <3>3
    <3>4. QED
      BY <3>2, <3>3
  <2>4. List!Answer
    <3>1. /\ FromNetwork(feed.shown, NothingShown)' = List!UpTo(p)
          /\ FromNetwork(feed.currentPage, 1)' = p + 1
      BY <2>2, <2>3 DEF FromNetwork
    <3>2. <<c, p>> \in Asked
      BY <1>2, <1>7
    <3>3. QED
      BY <1>5, <3>1, <3>2 DEF List!Answer
  <2>5. QED
    BY <2>4 DEF List!Next
<1>8. QED
  BY <1>6, <1>7

LEMMA FailureIsFail ==
    ASSUME PagingInv, NEW c \in Calls, RequestFails(c)
    PROVE  List!Next
<1>1. TypeOK /\ LoadingIsOneRequest /\ call[c].pc = "net"
  BY DEF PagingInv, RequestFails
<1>2. /\ feed'.shown = feed.shown /\ feed'.currentPage = feed.currentPage
      /\ cacheServed' = cacheServed
      /\ call'[c] = Idle /\ \A d \in Calls \ {c} : call'[d] = call[d]
  BY <1>1 DEF RequestFails, FailedFeed, Finish, Returned, TypeOK, FeedType
<1>3. \A d \in Calls : call'[d].pc # "net"
  BY <1>1, <1>2 DEF LoadingIsOneRequest, Idle
<1>4. Asked' = {}
  BY <1>3 DEF Asked
<1>5. QED
  BY <1>2, <1>4 DEF List!Next, List!Fail, FromNetwork

LEMMA RestartForgets ==
    ASSUME Restart
    PROVE  List!Next
<1>1. Asked' = {}
  BY DEF Restart, Asked, Idle
<1>2. feed'.shown = List!UpTo(0) /\ feed'.currentPage = 1 /\ ~cacheServed'
  BY NothingIsUpToZero DEF Restart, NewFeed
<1>3. QED
  BY <1>1, <1>2 DEF List!Next, List!Forget, FromNetwork

LEMMA OtherStepsAreQuiet ==
    ASSUME PagingInv, NEW c \in Calls,
           Pull(c) \/ Retry(c) \/ Clear(c) \/ Put(c) \/ Stamp(c) \/ WriteFails(c)
    PROVE  UNCHANGED ListVars
<1>1. TypeOK
  BY DEF PagingInv
<1>2. UNCHANGED <<feed, cacheServed>>
  BY DEF Pull, Retry, Refresh, Clear, Put, Stamp, WriteFails
<1>3. CASE Pull(c) \/ Retry(c)
  BY <1>1, <1>2, <1>3, QuietList DEF Pull, Retry, Refresh, Idle, TypeOK
<1>4. CASE Clear(c) \/ Put(c)
  <2>1. /\ call[c].pc # "net" /\ call'[c].pc # "net"
        /\ \A d \in Calls \ {c} : call'[d] = call[d]
    BY <1>1, <1>4 DEF Clear, Put, TypeOK, CallType
  <2>2. QED
    BY <1>2, <2>1, QuietList
<1>5. CASE Stamp(c) \/ WriteFails(c)
  BY <1>1, <1>2, <1>5, QuietList DEF Stamp, WriteFails, Finish, Returned, Idle, TypeOK
<1>6. QED
  BY <1>3, <1>4, <1>5

\* Whatever starts a load and whatever becomes of it, the list of the Explore tab is
\* paged as Pager says, from the first answer of the network on until a list comes
\* from the box.
THEOREM RefinesPager == Spec => ImplementsPager
<1>1. Init => List!Init
  <2> SUFFICES ASSUME Init PROVE List!Init
    OBVIOUS
  <2>1. Asked = {}
    BY DEF Init, Idle, Asked
  <2>2. QED
    BY <2>1, NothingIsUpToZero DEF Init, List!Init, FromNetwork, NewFeed
<1>2. PagingInv /\ [Next]_vars => List!Next \/ UNCHANGED ListVars
  <2> SUFFICES ASSUME PagingInv, [Next]_vars
               PROVE  List!Next \/ UNCHANGED ListVars
    OBVIOUS
  <2>1. ASSUME NEW c \in Calls, Launch(c) \/ Scroll(c) \/ TimerFires(c)
        PROVE  List!Next \/ UNCHANGED ListVars
    <3>1. LoadWallpapers(c) \/ UNCHANGED <<feed, call, cacheServed>>
      BY <2>1 DEF Launch, Scroll, TimerFires
    <3>2. QED
      BY <3>1, LoadAsks, QuietList
  <2>2. CASE HourPasses \/ UNCHANGED vars
    BY <2>2, QuietList DEF HourPasses, vars
  <2>3. QED
    BY <2>1, <2>2, WipeAsks, ArrivalAnswers, FailureIsFail, RestartForgets,
       OtherStepsAreQuiet DEF Next, Advance
<1>3. QED
  BY <1>1, <1>2, PagingInvariant, PTL
     DEF Spec, ImplementsPager, List!Spec, List!vars, ListVars
=============================================================================
