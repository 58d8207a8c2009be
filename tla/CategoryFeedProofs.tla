------------------------- MODULE CategoryFeedProofs -------------------------
(* Theorems about CategoryFeed for every set of categories and calls and     *)
(* every number of pages.                                                    *)
EXTENDS CategoryFeed, TLAPS

LastOf(t) == IF t \in Stocked THEN LastPage ELSE 1

\* A call is for a category of its kind, which is loading meanwhile, and asks
\* for the page the list lacks next.
CallsFit ==
    \A l \in Calls :
      /\ call[l].kind \in {"load", "retry"} =>
           /\ call[l].of \in Topics \cap made
           /\ feed[call[l].of].isLoading
      /\ call[l].kind = "shelf" =>
           /\ call[l].of \in Collections \cap made
           /\ shelf[call[l].of] = "loading"
      /\ call[l].kind = "search" => call[l].of \in Categories
      /\ call[l].kind = "load" => call[l].page = feed[call[l].of].currentPage
      /\ call[l].kind = "retry" => call[l].page = 1
      /\ call[l].kind \in {"idle", "shelf", "search"} => call[l].page = 0

\* A category that was never opened is as it was at the start.
Unopened ==
    /\ \A t \in Topics \ made : feed[t] = NewFeed
    /\ \A c \in Collections \ made : shelf[c] = "loading"

\* hasMore promises a page that is not past the end.
MoreIsThere == \A t \in Topics : feed[t].hasMore => feed[t].currentPage <= LastOf(t)

CategoryInv ==
    /\ TypeOK
    /\ CallsFit
    /\ Unopened
    /\ MoreIsThere
    /\ OneLoadPerCategory
    /\ PagesOnce
    /\ StopsAtTheEnd

LEMMA Bounds ==
    /\ LastPage \in Nat /\ LastPage >= 1
    /\ Topics \cap Collections = {}
    /\ None \notin Categories
    /\ \A t : LastOf(t) \in 1 .. LastPage
  BY ConstantsAssumption DEF ConstantsAssumption, LastOf

LEMMA NewFeedType == NewFeed \in FeedType
  BY Bounds DEF NewFeed, FeedType

LEMMA IdleType == Idle \in CallType
  BY Bounds DEF Idle, CallType

\* The one call that changes takes a record of the type.
LEMMA OneCallTyped ==
    ASSUME TypeOK, NEW l \in Calls, NEW r \in CallType
    PROVE  [call EXCEPT ![l] = r] \in [Calls -> CallType]
  BY DEF TypeOK

LEMMA LoadingTyped ==
    ASSUME NEW t \in Topics, NEW kind \in {"load", "retry"},
           NEW page \in 0 .. LastPage + 1
    PROVE  Loading(t, kind, page) \in CallType
  BY DEF Loading, CallType, Categories

LEMMA SearchingTyped ==
    ASSUME NEW c \in Categories
    PROVE  Searching(c) \in CallType /\ LoadingShelf(c) \in CallType
<1>1. 0 \in 0 .. LastPage + 1
  BY Bounds
<1>2. QED
  BY <1>1 DEF Searching, LoadingShelf, Loading, CallType

\* A topic whose flags change keeps the type.
LEMMA FlagsTyped ==
    ASSUME TypeOK, NEW t \in Topics, NEW b \in BOOLEAN, NEW e \in BOOLEAN
    PROVE  [feed EXCEPT ![t].isLoading = b, ![t].error = e] \in [Topics -> FeedType]
<1>1. feed \in [Topics -> FeedType] /\ feed[t] \in FeedType
  BY DEF TypeOK
<1>2. [feed[t] EXCEPT !.isLoading = b, !.error = e] \in FeedType
  BY <1>1 DEF FeedType
<1>3. [feed EXCEPT ![t].isLoading = b, ![t].error = e]
        = [feed EXCEPT ![t] = [feed[t] EXCEPT !.isLoading = b, !.error = e]]
  BY <1>1 DEF FeedType
<1>4. QED
  BY <1>1, <1>2, <1>3
-----------------------------------------------------------------------------
(* Types *)

LEMMA InitTyped == Init => TypeOK
  BY NewFeedType, IdleType DEF Init, TypeOK, NewSearch

LEMMA OpenTyped ==
    ASSUME TypeOK, NEW c \in Categories, NEW l \in Calls, NEW s \in Calls,
           OpenPage(c, l, s)
    PROVE  TypeOK'
<1>1. call' \in [Calls -> CallType]
  <2>1. [call EXCEPT ![s] = Searching(c)] \in [Calls -> CallType]
    BY OneCallTyped, SearchingTyped
  <2>2. ASSUME NEW r \in CallType
        PROVE  [call EXCEPT ![s] = Searching(c), ![l] = r] \in [Calls -> CallType]
    BY <2>1, SearchingTyped DEF TypeOK
  <2>3. c \in Topics => Loading(c, "load", 1) \in CallType
    BY LoadingTyped, Bounds
  <2>4. QED
    BY <2>1, <2>2, <2>3, SearchingTyped DEF OpenPage
<1>2. feed' \in [Topics -> FeedType]
  <2>1. CASE UNCHANGED feed
    BY <2>1 DEF TypeOK
  <2>2. CASE c \in Topics /\ feed' = [feed EXCEPT ![c].isLoading = TRUE]
    BY <2>2 DEF TypeOK, FeedType
  <2>3. QED
    BY <2>1, <2>2 DEF OpenPage
<1>3. search' \in [query : Categories \cup {None},
                   results : Categories \cup {None}, isLoading : BOOLEAN]
  BY DEF OpenPage, SearchStarted, SearchCleared, NewSearch
<1>4. QED
  BY <1>1, <1>2, <1>3 DEF OpenPage, TypeOK

LEMMA LoadTyped ==
    ASSUME CategoryInv, NEW t \in Topics, NEW l \in Calls,
           NEW kind \in {"load", "retry"}, LoadCategoryWallpapers(t, l, kind)
    PROVE  TypeOK'
<1>1. TypeOK
  BY DEF CategoryInv
<1>2. (IF kind = "retry" THEN 1 ELSE feed[t].currentPage) \in 0 .. LastPage + 1
  BY <1>1, Bounds DEF TypeOK, FeedType
<1>3. call' \in [Calls -> CallType]
  BY <1>1, <1>2, LoadingTyped, OneCallTyped DEF LoadCategoryWallpapers
<1>4. feed' \in [Topics -> FeedType]
  BY <1>1, FlagsTyped DEF LoadCategoryWallpapers
<1>5. QED
  BY <1>1, <1>3, <1>4 DEF LoadCategoryWallpapers, TypeOK

LEMMA ArrivalTyped ==
    ASSUME CategoryInv, NEW l \in Calls, PageArrives(l)
    PROVE  TypeOK'
<1> DEFINE t == call[l].of
<1> DEFINE kept(p) == IF call[l].kind = "retry" THEN 0 ELSE feed[t].shown[p]
<1> DEFINE shown == [p \in Pages |-> kept(p) + IF p \in Photos(t, call[l].page) THEN 1 ELSE 0]
<1>1. /\ TypeOK /\ t \in Topics /\ feed[t] \in FeedType
      /\ call[l].kind \in {"load", "retry"}
      /\ call[l].kind = "load" =>
           call[l].page = feed[t].currentPage /\ call[l].page <= LastPage
  <2>1. TypeOK /\ call[l].kind \in {"load", "retry"}
    BY DEF CategoryInv, PageArrives
  <2>2. t \in Topics /\ (call[l].kind = "load" => call[l].page = feed[t].currentPage)
    BY <2>1 DEF CategoryInv, CallsFit
  <2>3. feed[t] \in FeedType
    BY <2>1, <2>2 DEF TypeOK
  <2>4. call[l].page \in 0 .. LastPage + 1
    BY <2>1 DEF TypeOK, CallType
  <2>5. call[l].page <= LastPage
    BY <2>4, Bounds DEF CategoryInv, StopsAtTheEnd
  <2>6. QED
    BY <2>1, <2>2, <2>3, <2>5
<1>2. shown \in [Pages -> Nat]
  <2>1. \A p \in Pages : feed[t].shown[p] \in Nat
    BY <1>1 DEF FeedType
  <2>2. QED
    BY <2>1
<1>3. PageAfter(l) \in 1 .. LastPage + 1
  BY <1>1, Bounds DEF PageAfter, FeedType
<1>4. HasMore(l) \in BOOLEAN
  BY DEF HasMore
<1>5. [shown |-> shown, isLoading |-> FALSE, error |-> FALSE,
       hasMore |-> HasMore(l), currentPage |-> PageAfter(l)] \in FeedType
  BY <1>2, <1>3, <1>4 DEF FeedType
<1>6. feed' \in [Topics -> FeedType]
  BY <1>1, <1>5 DEF PageArrives, TypeOK
<1>7. call' \in [Calls -> CallType]
  BY <1>1, IdleType, OneCallTyped DEF PageArrives
<1>8. QED
  BY <1>1, <1>6, <1>7 DEF PageArrives, TypeOK

LEMMA StepTyped == CategoryInv /\ [Next]_vars => TypeOK'
<1> SUFFICES ASSUME CategoryInv, [Next]_vars PROVE TypeOK'
  OBVIOUS
<1>0. TypeOK
  BY DEF CategoryInv
<1>1. ASSUME NEW c \in Categories, NEW l \in Calls, NEW s \in Calls, OpenPage(c, l, s)
      PROVE  TypeOK'
  BY <1>0, <1>1, OpenTyped
<1>2. CASE ClosePage
  BY <1>0, <1>2 DEF ClosePage, TypeOK
<1>3. ASSUME NEW t \in Topics, NEW l \in Calls, LoadMore(t, l) \/ Retry(t, l)
      PROVE  TypeOK'
  BY <1>3, LoadTyped DEF LoadMore, Retry
<1>4. ASSUME NEW c \in Collections, NEW l \in Calls, PullCollection(c, l) PROVE TypeOK'
  <2>1. call' \in [Calls -> CallType]
    BY <1>0, <1>4, OneCallTyped, SearchingTyped DEF PullCollection, Categories
  <2>2. QED
    BY <1>0, <1>4, <2>1 DEF PullCollection, TypeOK
<1>5. ASSUME NEW l \in Calls, PageArrives(l) PROVE TypeOK'
  BY <1>5, ArrivalTyped
<1>6. ASSUME NEW l \in Calls, RequestFails(l) PROVE TypeOK'
  <2>1. call[l].of \in Topics
    BY <1>6 DEF RequestFails, CategoryInv, CallsFit
  <2>2. feed' \in [Topics -> FeedType]
    BY <1>0, <1>6, <2>1, FlagsTyped DEF RequestFails, Failed
  <2>3. call' \in [Calls -> CallType]
    BY <1>0, <1>6, IdleType, OneCallTyped DEF RequestFails
  <2>4. QED
    BY <1>0, <1>6, <2>2, <2>3 DEF RequestFails, TypeOK
<1>7. ASSUME NEW l \in Calls, ShelfAnswers(l) PROVE TypeOK'
  <2>1. call' \in [Calls -> CallType]
    BY <1>0, <1>7, IdleType, OneCallTyped DEF ShelfAnswers
  <2>2. shelf' \in [Collections -> {"loading", "empty", "data"}]
    BY <1>0, <1>7 DEF ShelfAnswers, TypeOK
  <2>3. QED
    BY <1>0, <1>7, <2>1, <2>2 DEF ShelfAnswers, TypeOK
<1>8. ASSUME NEW l \in Calls, SearchAnswers(l) \/ SearchFails(l) PROVE TypeOK'
  <2>1. call' \in [Calls -> CallType]
    BY <1>0, <1>8, IdleType, OneCallTyped DEF SearchAnswers, SearchFails
  <2>2. call[l].of \in Categories \cup {None}
    BY <1>0 DEF TypeOK, CallType
  <2>3. search' \in [query : Categories \cup {None},
                     results : Categories \cup {None}, isLoading : BOOLEAN]
    <3>1. CASE SearchAnswers(l)
      BY <3>1, <2>2 DEF SearchAnswers
    <3>2. CASE SearchFails(l)
      BY <1>0, <3>2 DEF SearchFails, TypeOK
    <3>3. QED
      BY <1>8, <3>1, <3>2
  <2>4. QED
    BY <1>0, <1>8, <2>1, <2>3 DEF SearchAnswers, SearchFails, TypeOK
<1>9. CASE UNCHANGED vars
  BY <1>0, <1>9 DEF vars, TypeOK
<1>10. QED
  BY <1>1, <1>2, <1>3, <1>4, <1>5, <1>6, <1>7, <1>8, <1>9 DEF Next, Advance

-----------------------------------------------------------------------------
(* What each step does to the calls and the topics *)

\* A step that only moves the user or the search: the loads, the topics, the
\* collections and their notifiers stay.
SameLoads ==
    /\ UNCHANGED <<made, feed, shelf>>
    /\ \A l \in Calls :
         \/ call'[l] = call[l]
         \/ /\ call[l].kind \in {"idle", "search"}
            /\ call'[l].kind \in {"idle", "search"} /\ call'[l].page = 0
            /\ call'[l].kind = "search" => call'[l].of \in Categories

LEMMA SameLoadsKeep == ASSUME CategoryInv, SameLoads
    PROVE  /\ CallsFit' /\ Unopened' /\ MoreIsThere' /\ OneLoadPerCategory'
           /\ PagesOnce' /\ StopsAtTheEnd'
<1>1. CallsFit'
  BY DEF CategoryInv, SameLoads, CallsFit
<1>2. Unopened' /\ MoreIsThere' /\ PagesOnce'
  BY DEF CategoryInv, SameLoads, Unopened, MoreIsThere, PagesOnce
<1>3. \A c \in Categories : InFlight(c)' = InFlight(c)
  BY DEF SameLoads, InFlight
<1>4. OneLoadPerCategory'
  BY <1>3 DEF CategoryInv, SameLoads, OneLoadPerCategory, Categories
<1>5. StopsAtTheEnd'
  BY Bounds DEF CategoryInv, SameLoads, StopsAtTheEnd
<1>6. QED
  BY <1>1, <1>2, <1>4, <1>5

LEMMA UserAndSearchSteps ==
    ASSUME CategoryInv,
           \/ ClosePage
           \/ \E l \in Calls : SearchAnswers(l) \/ SearchFails(l)
           \/ \E c \in made, l, s \in Calls : c \in Categories /\ OpenPage(c, l, s)
           \/ UNCHANGED vars
    PROVE  SameLoads
<1>0. TypeOK
  BY DEF CategoryInv
<1>1. CASE ClosePage
  BY <1>1 DEF ClosePage, SameLoads
<1>2. ASSUME NEW l \in Calls, SearchAnswers(l) \/ SearchFails(l) PROVE SameLoads
  <2>1. call' = [call EXCEPT ![l] = Idle] /\ call[l].kind = "search"
    BY <1>2 DEF SearchAnswers, SearchFails
  <2>2. \A m \in Calls : call'[m] = IF m = l THEN Idle ELSE call[m]
    BY <1>0, <2>1 DEF TypeOK
  <2>3. QED
    BY <1>2, <2>1, <2>2 DEF SearchAnswers, SearchFails, SameLoads, Idle
<1>3. ASSUME NEW c \in made, NEW l \in Calls, NEW s \in Calls,
             c \in Categories, OpenPage(c, l, s)
      PROVE  SameLoads
  <2>1. call' = [call EXCEPT ![s] = Searching(c)] /\ call[s] = Idle
    BY <1>3 DEF OpenPage
  <2>2. \A m \in Calls : call'[m] = IF m = s THEN Searching(c) ELSE call[m]
    BY <1>0, <2>1 DEF TypeOK
  <2>3. UNCHANGED <<made, feed, shelf>>
    BY <1>3 DEF OpenPage
  <2>4. QED
    BY <1>3, <2>1, <2>2, <2>3 DEF SameLoads, Idle, Searching, Loading
<1>4. CASE UNCHANGED vars
  BY <1>4 DEF vars, SameLoads
<1>5. QED
  BY <1>1, <1>2, <1>3, <1>4

\* A load of a topic begins, first or not.
BeginsLoad(t, l) ==
    /\ t \in Topics
    /\ ~feed[t].isLoading
    /\ call[l].kind = "idle"
    /\ call'[l].of = t
    /\ \/ call'[l].kind = "load" /\ call'[l].page = feed[t].currentPage
       \/ call'[l].kind = "retry" /\ call'[l].page = 1
    /\ call'[l].page <= LastOf(t)
    /\ \A m \in Calls \ {l} :
         \/ call'[m] = call[m]
         \/ /\ call[m].kind = "idle"
            /\ call'[m].kind = "search" /\ call'[m].of \in Categories
            /\ call'[m].page = 0
    /\ \A u \in Topics \ {t} : feed'[u] = feed[u]
    /\ feed'[t].isLoading
    /\ feed'[t].shown = feed[t].shown
    /\ feed'[t].hasMore = feed[t].hasMore
    /\ feed'[t].currentPage = feed[t].currentPage
    /\ made' = made \cup {t}
    /\ UNCHANGED shelf

LEMMA BeginKeeps ==
    ASSUME CategoryInv, NEW t, NEW l \in Calls, BeginsLoad(t, l)
    PROVE  /\ CallsFit' /\ Unopened' /\ MoreIsThere' /\ OneLoadPerCategory'
           /\ PagesOnce' /\ StopsAtTheEnd'
<1>1. \A m \in Calls \ {l} : call[m].kind \in {"load", "retry"} => call[m].of # t
  BY DEF CategoryInv, CallsFit, BeginsLoad
<1>2. CallsFit'
  <2>1. CASE call'[l].kind = "load"
    BY <1>1, <2>1 DEF CategoryInv, CallsFit, BeginsLoad
  <2>2. CASE call'[l].kind = "retry"
    BY <1>1, <2>2 DEF CategoryInv, CallsFit, BeginsLoad
  <2>3. QED
    BY <2>1, <2>2 DEF BeginsLoad
<1>3. Unopened' /\ MoreIsThere' /\ PagesOnce'
  BY DEF CategoryInv, BeginsLoad, Unopened, MoreIsThere, PagesOnce
<1>4. /\ InFlight(t)' = {l}
      /\ \A c \in Categories \ {t} : InFlight(c)' = InFlight(c)
  <2>1. InFlight(t) = {}
    BY <1>1, Bounds DEF InFlight, BeginsLoad, CategoryInv, CallsFit
  <2>2. QED
    BY <2>1 DEF InFlight, BeginsLoad
<1>5. OneLoadPerCategory'
  BY <1>4, Bounds DEF CategoryInv, BeginsLoad, OneLoadPerCategory, Categories
<1>6. StopsAtTheEnd'
  BY Bounds DEF CategoryInv, BeginsLoad, StopsAtTheEnd, LastOf
<1>7. QED
  BY <1>2, <1>3, <1>5, <1>6

\* A load of a topic ends, with its page or without.
EndsLoad(t, l) ==
    /\ t \in Topics
    /\ call[l].kind \in {"load", "retry"}
    /\ call[l].of = t
    /\ \A m \in Calls : call'[m] = IF m = l THEN Idle ELSE call[m]
    /\ \A u \in Topics \ {t} : feed'[u] = feed[u]
    /\ ~feed'[t].isLoading
    /\ UNCHANGED <<made, shelf>>

LEMMA EndKeeps ==
    ASSUME CategoryInv, NEW t, NEW l \in Calls, EndsLoad(t, l)
    PROVE  CallsFit' /\ Unopened' /\ OneLoadPerCategory' /\ StopsAtTheEnd'
<1>1. InFlight(t) = {l}
  BY DEF CategoryInv, OneLoadPerCategory, EndsLoad, InFlight, Categories
<1>2. \A m \in Calls \ {l} : call[m].kind \in {"load", "retry"} => call[m].of # t
  BY <1>1 DEF InFlight
<1>3. CallsFit'
  BY <1>2 DEF CategoryInv, CallsFit, EndsLoad, Idle
<1>4. Unopened'
  BY DEF CategoryInv, CallsFit, Unopened, EndsLoad
<1>5. /\ InFlight(t)' = {}
      /\ \A c \in Categories \ {t} : InFlight(c)' = InFlight(c)
  BY <1>1 DEF InFlight, EndsLoad, Idle
<1>6. OneLoadPerCategory'
  BY <1>5, Bounds DEF CategoryInv, EndsLoad, OneLoadPerCategory, Categories
<1>7. StopsAtTheEnd'
  BY Bounds DEF CategoryInv, EndsLoad, StopsAtTheEnd, Idle
<1>8. QED
  BY <1>3, <1>4, <1>6, <1>7

\* A collection is opened first, pulled or answered: the topics stay.
SameTopics ==
    /\ UNCHANGED feed
    /\ made \subseteq made' /\ made' \cap Topics = made \cap Topics

LEMMA SameTopicsKeep ==
    ASSUME CategoryInv, SameTopics PROVE MoreIsThere' /\ PagesOnce'
  BY DEF CategoryInv, SameTopics, MoreIsThere, PagesOnce

\* A load of a collection begins: the first, or the one of a pull.
BeginsShelf(c, l) ==
    /\ c \in Collections
    /\ c \notin made \/ shelf[c] # "loading"
    /\ call[l].kind = "idle"
    /\ call'[l] = LoadingShelf(c)
    /\ \A m \in Calls \ {l} :
         \/ call'[m] = call[m]
         \/ /\ call[m].kind = "idle"
            /\ call'[m].kind = "search" /\ call'[m].of \in Categories
            /\ call'[m].page = 0
    /\ shelf'[c] = "loading"
    /\ \A d \in Collections \ {c} : shelf'[d] = shelf[d]
    /\ made' = made \cup {c}
    /\ UNCHANGED feed

LEMMA BeginShelfKeeps ==
    ASSUME CategoryInv, NEW c, NEW l \in Calls, BeginsShelf(c, l)
    PROVE  CallsFit' /\ Unopened' /\ OneLoadPerCategory' /\ StopsAtTheEnd'
<1>1. \A m \in Calls : call[m].kind = "shelf" => call[m].of # c
  BY DEF CategoryInv, CallsFit, BeginsShelf
<1>2. CallsFit'
  BY <1>1 DEF CategoryInv, CallsFit, BeginsShelf, LoadingShelf, Loading
<1>3. Unopened'
  BY Bounds DEF CategoryInv, Unopened, BeginsShelf
<1>4. /\ InFlight(c)' = {l}
      /\ \A d \in Categories \ {c} : InFlight(d)' = InFlight(d)
  <2>1. InFlight(c) = {}
    BY <1>1, Bounds DEF InFlight, BeginsShelf, CategoryInv, CallsFit
  <2>2. QED
    BY <2>1 DEF InFlight, BeginsShelf, LoadingShelf, Loading
<1>5. OneLoadPerCategory'
  BY <1>4, Bounds DEF CategoryInv, BeginsShelf, OneLoadPerCategory, Categories
<1>6. StopsAtTheEnd'
  BY Bounds DEF CategoryInv, BeginsShelf, StopsAtTheEnd, LoadingShelf, Loading
<1>7. QED
  BY <1>2, <1>3, <1>5, <1>6

LEMMA ShelfAnswerKeeps ==
    ASSUME CategoryInv, NEW l \in Calls, ShelfAnswers(l)
    PROVE  /\ CallsFit' /\ Unopened' /\ OneLoadPerCategory' /\ StopsAtTheEnd'
           /\ SameTopics
<1>0. PICK c : c = call[l].of
  OBVIOUS
<1>1. /\ TypeOK /\ c \in Collections \cap made
      /\ shelf[c] = "loading" /\ shelf'[c] # "loading"
      /\ \A d \in Collections \ {c} : shelf'[d] = shelf[d]
  BY <1>0 DEF CategoryInv, TypeOK, CallsFit, ShelfAnswers
<1>2. \A m \in Calls : call'[m] = IF m = l THEN Idle ELSE call[m]
  BY <1>1 DEF ShelfAnswers, TypeOK
<1>3. InFlight(c) = {l}
  BY <1>0, <1>1 DEF CategoryInv, OneLoadPerCategory, ShelfAnswers, InFlight, Categories
<1>4. \A m \in Calls \ {l} : call[m].kind = "shelf" => call[m].of # c
  BY <1>3 DEF InFlight
<1>5. CallsFit'
  BY <1>1, <1>2, <1>4 DEF CategoryInv, CallsFit, ShelfAnswers, Idle
<1>6. Unopened'
  BY <1>1 DEF CategoryInv, Unopened, ShelfAnswers
<1>7. /\ InFlight(c)' = {}
      /\ \A d \in Categories \ {c} : InFlight(d)' = InFlight(d)
  BY <1>2, <1>3 DEF InFlight, Idle
<1>8. OneLoadPerCategory'
  BY <1>1, <1>7, Bounds DEF CategoryInv, ShelfAnswers, OneLoadPerCategory, Categories
<1>9. StopsAtTheEnd'
  BY <1>2, Bounds DEF CategoryInv, StopsAtTheEnd, Idle
<1>10. QED
  BY <1>5, <1>6, <1>8, <1>9 DEF ShelfAnswers, SameTopics

-----------------------------------------------------------------------------
(* The steps of Next are those steps *)

LEMMA UnmadeTopicBegins ==
    ASSUME CategoryInv, NEW t \in Topics \ made, NEW l \in Calls, NEW s \in Calls,
           OpenPage(t, l, s)
    PROVE  BeginsLoad(t, l)
<1>1. TypeOK /\ feed[t] = NewFeed
  BY DEF CategoryInv, Unopened
<1>2. \A m \in Calls : call'[m] = IF m = l THEN Loading(t, "load", 1)
                                  ELSE IF m = s THEN Searching(t) ELSE call[m]
  BY <1>1 DEF OpenPage, TypeOK
<1>3. /\ \A u \in Topics \ {t} : feed'[u] = feed[u]
      /\ feed'[t].isLoading
      /\ feed'[t].shown = feed[t].shown
      /\ feed'[t].hasMore = feed[t].hasMore
      /\ feed'[t].currentPage = feed[t].currentPage
  BY <1>1 DEF OpenPage, TypeOK, FeedType
<1>4. call[l].kind = "idle" /\ call[s].kind = "idle" /\ l # s
  BY DEF OpenPage, Idle
<1>5. 1 <= LastOf(t)
  BY Bounds
<1>6. made' = made \cup {t} /\ UNCHANGED shelf
  BY DEF OpenPage
<1>7. ~feed[t].isLoading /\ feed[t].currentPage = 1
  BY <1>1 DEF NewFeed
<1>8. call'[l].of = t /\ call'[l].kind = "load" /\ call'[l].page = 1
  BY <1>2 DEF Loading
<1>9. \A m \in Calls \ {l} :
         \/ call'[m] = call[m]
         \/ /\ call[m].kind = "idle"
            /\ call'[m].kind = "search" /\ call'[m].of \in Categories
            /\ call'[m].page = 0
  BY <1>2, <1>4 DEF Searching, Loading, Categories
<1>10. QED
  BY <1>3, <1>4, <1>5, <1>6, <1>7, <1>8, <1>9 DEF BeginsLoad

LEMMA LoadBegins ==
    ASSUME CategoryInv, NEW t \in Topics, NEW l \in Calls,
           LoadMore(t, l) \/ Retry(t, l)
    PROVE  BeginsLoad(t, l)
<1>1. PICK kind \in {"load", "retry"} :
        /\ LoadCategoryWallpapers(t, l, kind)
        /\ kind = "load" => feed[t].hasMore
  BY DEF LoadMore, Retry
<1>2. t \in made
  <2>1. SUFFICES ASSUME t \notin made PROVE FALSE
    OBVIOUS
  <2>2. feed[t] = NewFeed
    BY <2>1 DEF CategoryInv, Unopened
  <2>3. Listed(t) = {} /\ ~feed[t].error
    BY <2>2 DEF Listed, NewFeed
  <2>4. QED
    BY <2>3 DEF LoadMore, Retry
<1>3. TypeOK
  BY DEF CategoryInv
<1>4. \A m \in Calls : call'[m] =
        IF m = l THEN Loading(t, kind, IF kind = "retry" THEN 1 ELSE feed[t].currentPage)
                 ELSE call[m]
  BY <1>1, <1>3 DEF LoadCategoryWallpapers, TypeOK
<1>5. /\ \A u \in Topics \ {t} : feed'[u] = feed[u]
      /\ feed'[t].isLoading
      /\ feed'[t].shown = feed[t].shown
      /\ feed'[t].hasMore = feed[t].hasMore
      /\ feed'[t].currentPage = feed[t].currentPage
  BY <1>1, <1>3 DEF LoadCategoryWallpapers, TypeOK, FeedType
<1>6. /\ ~feed[t].isLoading /\ call[l].kind = "idle"
      /\ UNCHANGED <<made, shelf>>
  BY <1>1 DEF LoadCategoryWallpapers, NotLoading, Idle
<1>7. /\ call'[l].of = t /\ call'[l].kind = kind
      /\ call'[l].page = IF kind = "retry" THEN 1 ELSE feed[t].currentPage
  BY <1>4 DEF Loading
<1>8. call'[l].page <= LastOf(t)
  BY <1>1, <1>7, Bounds DEF CategoryInv, MoreIsThere
<1>9. made' = made \cup {t}
  BY <1>2, <1>6
<1>10. QED
  BY <1>1, <1>4, <1>5, <1>6, <1>7, <1>8, <1>9 DEF BeginsLoad

LEMMA UnmadeCollectionBegins ==
    ASSUME CategoryInv, NEW c \in Collections \ made, NEW l \in Calls, NEW s \in Calls,
           OpenPage(c, l, s)
    PROVE  BeginsShelf(c, l) /\ SameTopics
<1>1. TypeOK /\ c \notin Topics /\ shelf[c] = "loading"
  BY Bounds DEF CategoryInv, Unopened
<1>2. \A m \in Calls : call'[m] = IF m = l THEN LoadingShelf(c)
                                  ELSE IF m = s THEN Searching(c) ELSE call[m]
  BY <1>1 DEF OpenPage, TypeOK
<1>3. call[l].kind = "idle" /\ call[s].kind = "idle" /\ l # s
  BY DEF OpenPage, Idle
<1>4. made' = made \cup {c} /\ UNCHANGED <<feed, shelf>>
  BY <1>1 DEF OpenPage
<1>5. \A m \in Calls \ {l} :
         \/ call'[m] = call[m]
         \/ /\ call[m].kind = "idle"
            /\ call'[m].kind = "search" /\ call'[m].of \in Categories
            /\ call'[m].page = 0
  BY <1>2, <1>3 DEF Searching, Loading, Categories
<1>6. QED
  BY <1>1, <1>2, <1>3, <1>4, <1>5 DEF BeginsShelf, SameTopics

LEMMA PullBegins ==
    ASSUME CategoryInv, NEW c \in Collections, NEW l \in Calls, PullCollection(c, l)
    PROVE  BeginsShelf(c, l) /\ SameTopics
<1>1. c \in made
  BY DEF CategoryInv, Unopened, PullCollection
<1>2. /\ \A m \in Calls : call'[m] = IF m = l THEN LoadingShelf(c) ELSE call[m]
      /\ \A d \in Collections : shelf'[d] = IF d = c THEN "loading" ELSE shelf[d]
  BY DEF CategoryInv, PullCollection, TypeOK
<1>3. QED
  BY <1>1, <1>2 DEF PullCollection, BeginsShelf, SameTopics, Idle

LEMMA FailureEnds ==
    ASSUME CategoryInv, NEW l \in Calls, RequestFails(l)
    PROVE  \E t : EndsLoad(t, l) /\ MoreIsThere' /\ PagesOnce'
<1>0. PICK t : t = call[l].of
  OBVIOUS
<1>1. TypeOK /\ t \in Topics
  BY <1>0 DEF CategoryInv, CallsFit, RequestFails
<1>2. \A m \in Calls : call'[m] = IF m = l THEN Idle ELSE call[m]
  BY <1>1 DEF RequestFails, TypeOK
<1>3. /\ \A u \in Topics \ {t} : feed'[u] = feed[u]
      /\ ~feed'[t].isLoading
      /\ feed'[t].shown = feed[t].shown
      /\ feed'[t].hasMore = feed[t].hasMore
      /\ feed'[t].currentPage = feed[t].currentPage
  BY <1>0, <1>1 DEF RequestFails, Failed, TypeOK, FeedType
<1>4. EndsLoad(t, l)
  BY <1>0, <1>1, <1>2, <1>3 DEF RequestFails, EndsLoad
<1>5. MoreIsThere' /\ PagesOnce'
  BY <1>3 DEF CategoryInv, MoreIsThere, PagesOnce
<1>6. QED
  BY <1>4, <1>5

LEMMA ArrivalEnds ==
    ASSUME CategoryInv, NEW l \in Calls, PageArrives(l)
    PROVE  \E t : EndsLoad(t, l) /\ MoreIsThere' /\ PagesOnce'
<1>0. PICK t : t = call[l].of
  OBVIOUS
<1>1. /\ TypeOK /\ t \in Topics
      /\ call[l].kind \in {"load", "retry"}
      /\ call[l].page = IF call[l].kind = "load" THEN feed[t].currentPage ELSE 1
      /\ feed[t] \in FeedType
  <2>1. TypeOK /\ call[l].kind \in {"load", "retry"}
    BY DEF CategoryInv, PageArrives
  <2>2. t \in Topics /\ call[l].page = IF call[l].kind = "load" THEN feed[t].currentPage ELSE 1
    BY <1>0, <2>1 DEF CategoryInv, CallsFit
  <2>3. QED
    BY <2>1, <2>2 DEF TypeOK
<1>2. \A m \in Calls : call'[m] = IF m = l THEN Idle ELSE call[m]
  BY <1>1 DEF PageArrives, TypeOK
<1>3. /\ \A u \in Topics \ {t} : feed'[u] = feed[u]
      /\ ~feed'[t].isLoading
      /\ feed'[t].hasMore = HasMore(l)
      /\ feed'[t].currentPage = PageAfter(l)
      /\ \A p \in Pages : feed'[t].shown[p] =
           (IF call[l].kind = "retry" THEN 0 ELSE feed[t].shown[p])
             + IF p \in Photos(t, call[l].page) THEN 1 ELSE 0
  BY <1>0, <1>1 DEF PageArrives, TypeOK
<1>4. EndsLoad(t, l)
  BY <1>0, <1>1, <1>2, <1>3 DEF PageArrives, EndsLoad
<1>5. feed[t].currentPage \in 1 .. LastPage + 1
  BY <1>1 DEF FeedType
<1>6. PageAfter(l) = call[l].page + 1
  BY <1>0, <1>1, <1>5, Bounds DEF PageAfter
<1>7. MoreIsThere'
  <2>0. call[l].page \in 1 .. LastPage + 1
    BY <1>1, <1>5, Bounds
  <2>1. feed'[t].hasMore => feed'[t].currentPage <= LastOf(t)
    <3>1. HasMore(l) => t \in Stocked /\ call[l].page < LastPage
      BY <1>0 DEF HasMore
    <3>2. HasMore(l) => PageAfter(l) <= LastOf(t)
      BY <3>1, <2>0, <1>6, Bounds DEF LastOf
    <3>3. QED
      BY <3>2, <1>3
  <2>2. QED
    BY <1>3, <2>1 DEF CategoryInv, MoreIsThere
<1>8. PagesOnce'
  <2>1. ASSUME NEW p \in Pages
        PROVE  feed'[t].shown[p] =
                 IF p < feed'[t].currentPage /\ t \in Stocked THEN 1 ELSE 0
    <3>1. feed[t].shown[p] = IF p < feed[t].currentPage /\ t \in Stocked THEN 1 ELSE 0
      BY <1>1 DEF CategoryInv, PagesOnce
    <3>2. p \in Photos(t, call[l].page) <=> t \in Stocked /\ p = call[l].page
      BY DEF Photos
    <3>3. p \in 1 .. LastPage
      BY DEF Pages
    <3>4. CASE call[l].kind = "load"
      BY <1>1, <1>3, <1>5, <1>6, <3>1, <3>2, <3>3, <3>4, Bounds
    <3>5. CASE call[l].kind = "retry"
      BY <1>1, <1>3, <1>6, <3>2, <3>3, <3>5, Bounds
    <3>6. QED
      BY <1>1, <3>4, <3>5
  <2>2. QED
    BY <1>3, <2>1 DEF CategoryInv, PagesOnce
<1>9. QED
  BY <1>4, <1>7, <1>8

-----------------------------------------------------------------------------
(* The theorems *)

LEMMA InitCategory == Init => CategoryInv
<1> SUFFICES ASSUME Init PROVE CategoryInv
  OBVIOUS
<1>1. CallsFit /\ Unopened
  BY DEF Init, CallsFit, Unopened, Idle
<1>2. MoreIsThere
  BY Bounds DEF Init, MoreIsThere, NewFeed
<1>3. \A c \in Categories : InFlight(c) = {}
  BY DEF Init, InFlight, Idle
<1>4. OneLoadPerCategory
  BY <1>3 DEF Init, OneLoadPerCategory, NewFeed, Categories
<1>5. PagesOnce
  BY Bounds DEF Init, PagesOnce, NewFeed, Pages
<1>6. StopsAtTheEnd
  BY Bounds DEF Init, StopsAtTheEnd, Idle
<1>7. QED
  BY InitTyped, <1>1, <1>2, <1>4, <1>5, <1>6 DEF CategoryInv

LEMMA StepCategory == CategoryInv /\ [Next]_vars => CategoryInv'
<1> SUFFICES ASSUME CategoryInv, [Next]_vars PROVE CategoryInv'
  OBVIOUS
<1> DEFINE Kept == /\ CallsFit' /\ Unopened' /\ MoreIsThere'
                   /\ OneLoadPerCategory' /\ PagesOnce' /\ StopsAtTheEnd'
<1>1. ASSUME NEW c \in Categories, NEW l \in Calls, NEW s \in Calls, OpenPage(c, l, s)
      PROVE  Kept
  <2>1. CASE c \in made
    BY <1>1, <2>1, UserAndSearchSteps, SameLoadsKeep
  <2>2. CASE c \in Topics \ made
    BY <1>1, <2>2, UnmadeTopicBegins, BeginKeeps
  <2>3. CASE c \in Collections \ made
    BY <1>1, <2>3, UnmadeCollectionBegins, BeginShelfKeeps, SameTopicsKeep
  <2>4. QED
    BY <2>1, <2>2, <2>3 DEF Categories
<1>2. ASSUME ClosePage \/ UNCHANGED vars PROVE Kept
  BY <1>2, UserAndSearchSteps, SameLoadsKeep
<1>3. ASSUME NEW t \in Topics, NEW l \in Calls, LoadMore(t, l) \/ Retry(t, l)
      PROVE  Kept
  BY <1>3, LoadBegins, BeginKeeps
<1>4. ASSUME NEW c \in Collections, NEW l \in Calls, PullCollection(c, l) PROVE Kept
  BY <1>4, PullBegins, BeginShelfKeeps, SameTopicsKeep
<1>5. ASSUME NEW l \in Calls, PageArrives(l) PROVE Kept
  BY <1>5, ArrivalEnds, EndKeeps
<1>6. ASSUME NEW l \in Calls, RequestFails(l) PROVE Kept
  BY <1>6, FailureEnds, EndKeeps
<1>7. ASSUME NEW l \in Calls, ShelfAnswers(l) PROVE Kept
  BY <1>7, ShelfAnswerKeeps, SameTopicsKeep
<1>8. ASSUME NEW l \in Calls, SearchAnswers(l) \/ SearchFails(l) PROVE Kept
  BY <1>8, UserAndSearchSteps, SameLoadsKeep
<1> HIDE DEF Kept
<1>9. Kept
  BY <1>1, <1>2, <1>3, <1>4, <1>5, <1>6, <1>7, <1>8 DEF Next, Advance
<1>10. QED
  BY <1>9, StepTyped DEF CategoryInv, Kept

LEMMA CategoryInvariant == Spec => []CategoryInv
  BY InitCategory, StepCategory, PTL DEF Spec

\* Every variable keeps its type, for any categories, pages and calls: in
\* particular currentPage never passes the page after the last.
THEOREM TypeCorrect == Spec => []TypeOK
<1>1. CategoryInv => TypeOK
  BY DEF CategoryInv
<1>2. QED
  BY CategoryInvariant, <1>1, PTL

\* A category has one load in flight exactly while it is loading, in whatever
\* order its page is opened, left, scrolled, pulled and retried.
THEOREM OneLoad == Spec => []OneLoadPerCategory
<1>1. CategoryInv => OneLoadPerCategory
  BY DEF CategoryInv
<1>2. QED
  BY CategoryInvariant, <1>1, PTL

\* A topic shows each page it has asked for once and no other, and no page past
\* the last is ever requested of the Pexels API.
THEOREM PagingIsExact == Spec => []ExactPaging
<1>1. CategoryInv => ExactPaging
  BY DEF CategoryInv, ExactPaging
<1>2. QED
  BY CategoryInvariant, <1>1, PTL

\* The search shows the results of the query it names, however many searches
\* overlap and however they end.
THEOREM ResultsMatch == Spec => []ResultsAreOfTheQuery
<1>1. Init => ResultsAreOfTheQuery
  BY DEF Init, NewSearch, ResultsAreOfTheQuery
<1>2. ResultsAreOfTheQuery /\ TypeOK /\ [Next]_vars => ResultsAreOfTheQuery'
  <2> SUFFICES ASSUME ResultsAreOfTheQuery, TypeOK, [Next]_vars
               PROVE  ResultsAreOfTheQuery'
    OBVIOUS
  <2>1. ASSUME NEW c \in Categories, NEW l \in Calls, NEW s \in Calls, OpenPage(c, l, s)
        PROVE  ResultsAreOfTheQuery'
    BY <2>1 DEF OpenPage, SearchStarted, SearchCleared, NewSearch, ResultsAreOfTheQuery
  <2>2. ASSUME NEW l \in Calls, SearchAnswers(l) PROVE ResultsAreOfTheQuery'
    BY <2>2 DEF SearchAnswers, ResultsAreOfTheQuery
  <2>3. ASSUME NEW l \in Calls, SearchFails(l) PROVE ResultsAreOfTheQuery'
    BY <2>3 DEF SearchFails, ResultsAreOfTheQuery, TypeOK
  <2>4. CASE UNCHANGED search
    BY <2>4 DEF ResultsAreOfTheQuery
  <2>5. QED
    BY <2>1, <2>2, <2>3, <2>4 DEF Next, Advance, ClosePage, LoadMore, Retry,
       LoadCategoryWallpapers, PullCollection, PageArrives, RequestFails,
       ShelfAnswers, vars
<1>3. QED
  BY TypeCorrect, <1>1, <1>2, PTL DEF Spec

-----------------------------------------------------------------------------
(* Each topic is a pager *)

Loads(m, u) == call[m].of = u /\ call[m].kind \in {"load", "retry"}

\* A step that neither begins nor ends a load of topic u.
LEMMA QuietTopic ==
    ASSUME NEW u \in Topics, feed'[u].shown = feed[u].shown,
           feed'[u].currentPage = feed[u].currentPage,
           \A m \in Calls : call'[m] = call[m] \/ (~Loads(m, u) /\ ~Loads(m, u)')
    PROVE  UNCHANGED List(u)!vars
<1>1. Asked(u)' = Asked(u)
  BY DEF Asked, Loads
<1>2. QED
  BY <1>1 DEF List!vars

LEMMA BeginAsks ==
    ASSUME CategoryInv, NEW t, NEW l \in Calls, BeginsLoad(t, l), NEW u \in Topics
    PROVE  List(u)!Next \/ UNCHANGED List(u)!vars
<1>1. CASE u = t
  <2>1. \A m \in Calls : ~Loads(m, t)
    BY DEF CategoryInv, CallsFit, BeginsLoad, Loads
  <2>2. \A m \in Calls \ {l} : ~Loads(m, t)'
    BY <2>1 DEF BeginsLoad, Loads
  <2>3. Loads(l, t)'
    BY DEF BeginsLoad, Loads
  <2>4. Asked(t) = {} /\ Asked(t)' = {<<l, call'[l].page>>}
    BY <2>1, <2>2, <2>3 DEF Asked, Loads
  <2>5. call'[l].page \in {1, feed[t].currentPage} /\ call'[l].page <= LastOf(t)
    BY DEF BeginsLoad
  <2>6. feed'[t].shown = feed[t].shown /\ feed'[t].currentPage = feed[t].currentPage
    BY DEF BeginsLoad
  <2>7. List(t)!Ask(l, call'[l].page)
    BY <2>4, <2>5, <2>6 DEF List!Ask, LastOf
  <2>8. call'[l].page \in 1 .. LastOf(t)
    <3>1. feed[t].currentPage \in 1 .. LastPage + 1
      BY <1>1 DEF CategoryInv, TypeOK, FeedType
    <3>2. QED
      BY <2>5, <3>1, Bounds
  <2>9. QED
    BY <1>1, <2>7, <2>8 DEF List!Next, LastOf
<1>2. CASE u # t
  <2>1. feed'[u] = feed[u]
    BY <1>2 DEF BeginsLoad
  <2>2. \A m \in Calls : call'[m] = call[m] \/ (~Loads(m, u) /\ ~Loads(m, u)')
    BY <1>2 DEF BeginsLoad, Loads
  <2>3. QED
    BY <2>1, <2>2, QuietTopic
<1>3. QED
  BY <1>1, <1>2

\* Of the one load that ends, what its answer or failure made of the list.
LEMMA EndAsks ==
    ASSUME CategoryInv, NEW t, NEW l \in Calls, EndsLoad(t, l)
    PROVE  /\ Asked(t) = {<<l, call[l].page>>} /\ Asked(t)' = {}
           /\ \A u \in Topics \ {t} : UNCHANGED List(u)!vars
<1>1. t \in Categories /\ InFlight(t) = {l}
  BY DEF CategoryInv, OneLoadPerCategory, EndsLoad, InFlight, Categories
<1>2. \A m \in Calls \ {l} : ~Loads(m, t)
  BY <1>1 DEF InFlight, Loads
<1>3. Loads(l, t) /\ \A m \in Calls : ~Loads(m, t)'
  BY <1>2 DEF EndsLoad, Loads, Idle
<1>4. Asked(t) = {<<l, call[l].page>>} /\ Asked(t)' = {}
  BY <1>2, <1>3 DEF Asked, Loads
<1>5. ASSUME NEW u \in Topics \ {t} PROVE UNCHANGED List(u)!vars
  <2>1. feed'[u] = feed[u]
    BY <1>5 DEF EndsLoad
  <2>2. \A m \in Calls : call'[m] = call[m] \/ (~Loads(m, u) /\ ~Loads(m, u)')
    BY <1>5 DEF EndsLoad, Loads, Idle
  <2>3. QED
    BY <2>1, <2>2, QuietTopic
<1>6. QED
  BY <1>4, <1>5

LEMMA FailureIsFail ==
    ASSUME CategoryInv, NEW l \in Calls, RequestFails(l), NEW u \in Topics
    PROVE  List(u)!Next \/ UNCHANGED List(u)!vars
<1>1. PICK t : EndsLoad(t, l)
  BY FailureEnds
<1>2. CASE u # t
  BY <1>1, <1>2, EndAsks
<1>3. CASE u = t
  <2>1. feed'[t].shown = feed[t].shown /\ feed'[t].currentPage = feed[t].currentPage
    BY <1>1, <1>3 DEF RequestFails, Failed, EndsLoad, CategoryInv, TypeOK, FeedType
  <2>2. Asked(t)' = {}
    BY <1>1, EndAsks
  <2>3. QED
    BY <1>3, <2>1, <2>2 DEF List!Next, List!Fail
<1>4. QED
  BY <1>2, <1>3

LEMMA ArrivalAnswers ==
    ASSUME CategoryInv, CategoryInv', NEW l \in Calls, PageArrives(l), NEW u \in Topics
    PROVE  List(u)!Next \/ UNCHANGED List(u)!vars
<1>1. PICK t : EndsLoad(t, l)
  BY ArrivalEnds
<1>2. CASE u # t
  BY <1>1, <1>2, EndAsks
<1>3. CASE u = t
  <2>1. PICK p \in 1 .. LastPage + 1 : p = call[l].page
    <3>1. /\ call[l].page = IF call[l].kind = "load" THEN feed[t].currentPage ELSE 1
          /\ feed[t].currentPage \in 1 .. LastPage + 1
      BY <1>1, <1>3 DEF EndsLoad, CategoryInv, CallsFit, TypeOK, FeedType
    <3>2. QED
      BY <3>1, Bounds
  <2>2. feed'[t].currentPage = p + 1
    <3>1. feed'[t].currentPage = PageAfter(l) /\ call[l].of = t
      BY <1>1, <1>3 DEF PageArrives, EndsLoad, CategoryInv, TypeOK
    <3>2. CASE call[l].kind = "retry"
      BY <1>1, <2>1, <3>1, <3>2 DEF PageAfter, CategoryInv, CallsFit
    <3>3. CASE call[l].kind = "load"
      BY <1>1, <2>1, <3>1, <3>3 DEF PageAfter, CategoryInv, CallsFit
    <3>4. QED
      BY <1>1, <3>2, <3>3 DEF EndsLoad
  <2>3. feed'[t].shown = List(t)!UpTo(p)
    <3>1. feed'[t].shown \in [Pages -> Nat]
      BY <1>3 DEF CategoryInv, TypeOK, FeedType
    <3>2. \A q \in Pages : feed'[t].shown[q] = IF q < p + 1 /\ t \in Stocked THEN 1 ELSE 0
      BY <1>3, <2>2 DEF CategoryInv, PagesOnce
    <3>3. \A q \in Pages : q < p + 1 <=> q <= p
      BY <2>1, Bounds DEF Pages
    <3>4. feed'[t].shown = [q \in Pages |-> IF q <= p /\ t \in Stocked THEN 1 ELSE 0]
      BY <3>1, <3>2, <3>3
    <3>5. QED
      BY <3>4 DEF List!UpTo
  <2>4. <<l, p>> \in Asked(t) /\ Asked(t)' = {}
    BY <1>1, <2>1, EndAsks
  <2>5. List(t)!Answer
    BY <2>2, <2>3, <2>4 DEF List!Answer
  <2>6. QED
    BY <1>3, <2>5 DEF List!Next
<1>4. QED
  BY <1>2, <1>3

\* Steps of the user, of searches and of collections.
LEMMA SameLoadsStutter ==
    ASSUME SameLoads, NEW u \in Topics
    PROVE  UNCHANGED List(u)!vars
<1>1. \A m \in Calls : call'[m] = call[m] \/ (~Loads(m, u) /\ ~Loads(m, u)')
  BY DEF SameLoads, Loads
<1>2. QED
  BY <1>1, QuietTopic DEF SameLoads

LEMMA BeginShelfStutters ==
    ASSUME NEW c, NEW l \in Calls, BeginsShelf(c, l), NEW u \in Topics
    PROVE  UNCHANGED List(u)!vars
<1>1. \A m \in Calls : call'[m] = call[m] \/ (~Loads(m, u) /\ ~Loads(m, u)')
  BY DEF BeginsShelf, Loads, LoadingShelf, Loading
<1>2. QED
  BY <1>1, QuietTopic DEF BeginsShelf

LEMMA ShelfAnswerStutters ==
    ASSUME CategoryInv, NEW l \in Calls, ShelfAnswers(l), NEW u \in Topics
    PROVE  UNCHANGED List(u)!vars
<1>1. UNCHANGED feed /\ call[l].kind = "shelf"
  BY DEF ShelfAnswers
<1>2. \A m \in Calls : call'[m] = IF m = l THEN Idle ELSE call[m]
  BY DEF ShelfAnswers, CategoryInv, TypeOK
<1>3. \A m \in Calls : call'[m] = call[m] \/ (~Loads(m, u) /\ ~Loads(m, u)')
  BY <1>1, <1>2 DEF Loads, Idle
<1>4. QED
  BY <1>1, <1>3, QuietTopic

\* Whatever the user opens, leaves, scrolls and retries and however the loads of
\* the other categories and the searches end, each topic is paged as Pager says.
THEOREM RefinesPager == Spec => ImplementsPager
<1>1. Init => \A t \in Topics : List(t)!Init
  <2> SUFFICES ASSUME Init, NEW t \in Topics PROVE List(t)!Init
    OBVIOUS
  <2>1. Asked(t) = {}
    BY DEF Init, Asked, Idle
  <2>2. NewFeed.shown = List(t)!UpTo(0)
    <3>1. \A p \in Pages : ~(p <= 0)
      BY Bounds DEF Pages
    <3>2. QED
      BY <3>1 DEF NewFeed, List!UpTo
  <2>3. feed[t] = NewFeed /\ NewFeed.currentPage = 1
    BY DEF Init, NewFeed
  <2>4. QED
    BY <2>1, <2>2, <2>3 DEF List!Init
<1>2. CategoryInv /\ CategoryInv' /\ [Next]_vars
        => \A t \in Topics : [List(t)!Next]_(List(t)!vars)
  <2> SUFFICES ASSUME CategoryInv, CategoryInv', [Next]_vars, NEW u \in Topics
               PROVE  List(u)!Next \/ UNCHANGED List(u)!vars
    OBVIOUS
  <2>1. ASSUME NEW c \in Categories, NEW l \in Calls, NEW s \in Calls, OpenPage(c, l, s)
        PROVE  List(u)!Next \/ UNCHANGED List(u)!vars
    <3>1. CASE c \in made
      BY <2>1, <3>1, UserAndSearchSteps, SameLoadsStutter
    <3>2. CASE c \in Topics \ made
      BY <2>1, <3>2, UnmadeTopicBegins, BeginAsks
    <3>3. CASE c \in Collections \ made
      BY <2>1, <3>3, UnmadeCollectionBegins, BeginShelfStutters
    <3>4. QED
      BY <3>1, <3>2, <3>3 DEF Categories
  <2>2. CASE ClosePage \/ UNCHANGED vars
    BY <2>2, UserAndSearchSteps, SameLoadsStutter
  <2>3. ASSUME NEW t \in Topics, NEW l \in Calls, LoadMore(t, l) \/ Retry(t, l)
        PROVE  List(u)!Next \/ UNCHANGED List(u)!vars
    BY <2>3, LoadBegins, BeginAsks
  <2>4. ASSUME NEW c \in Collections, NEW l \in Calls, PullCollection(c, l)
        PROVE  UNCHANGED List(u)!vars
    BY <2>4, PullBegins, BeginShelfStutters
  <2>5. ASSUME NEW l \in Calls, SearchAnswers(l) \/ SearchFails(l)
        PROVE  UNCHANGED List(u)!vars
    BY <2>5, UserAndSearchSteps, SameLoadsStutter
  <2>6. ASSUME NEW l \in Calls, Advance(l)
        PROVE  List(u)!Next \/ UNCHANGED List(u)!vars
    BY <2>5, <2>6, ArrivalAnswers, FailureIsFail, ShelfAnswerStutters DEF Advance
  <2>7. QED
    BY <2>1, <2>2, <2>3, <2>4, <2>6 DEF Next
<1>3. QED
  BY <1>1, <1>2, CategoryInvariant, PTL DEF Spec, ImplementsPager
=============================================================================
