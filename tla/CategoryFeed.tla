----------------------------- MODULE CategoryFeed -----------------------------
(***************************************************************************)
(* The page of a category: PexelsCategoryWallpapersNotifier for a category *)
(* of the Pexels API (a topic), FirestoreWallpapersNotifier for one of the *)
(* app's own (a collection), and the search the page starts beside them.   *)
(*                                                                         *)
(* A notifier is made when its category is first opened and outlives the   *)
(* page: its provider is not autoDispose.  All state is in memory, so the  *)
(* death of the process would lead back to Init and has no action.         *)
(***************************************************************************)
EXTENDS Integers

CONSTANTS Topics,        \* Pexels categories
          Collections,   \* Firestore categories
          Stocked,       \* the categories that have wallpapers at all
          LastPage,      \* pages of a stocked topic; all but the last are full
          Calls,         \* BOUND: requests in flight at a time
          None           \* no category

Categories == Topics \cup Collections

ASSUME ConstantsAssumption ==
    /\ LastPage \in Nat \ {0}
    /\ Stocked \subseteq Categories
    /\ Topics \cap Collections = {}
    /\ None \notin Categories

VARIABLES open,     \* the category whose page is on top
          made,     \* the categories that have a notifier
          feed,     \* the topics' PexelsWallpapersState
          shelf,    \* the collections' AsyncValue: no list, [] or a list
          search,   \* PexelsSearchNotifier's state
          call      \* the suspended calls of the notifiers

vars == <<open, made, feed, shelf, search, call>>

Pages == 1 .. LastPage

\* Mutant: pages are counted from zero.
NewFeedFromZero == [shown |-> [p \in Pages |-> 0], isLoading |-> FALSE,
                    error |-> FALSE, hasMore |-> TRUE, currentPage |-> 0]

NewFeed == [shown |-> [p \in Pages |-> 0], isLoading |-> FALSE,
            error |-> FALSE, hasMore |-> TRUE, currentPage |-> 1]
NewSearch == [query |-> None, results |-> None, isLoading |-> FALSE]
Idle == [kind |-> "idle", of |-> None, page |-> 0]

FeedType == [shown : [Pages -> Nat], isLoading : BOOLEAN, error : BOOLEAN,
             hasMore : BOOLEAN, currentPage : 1 .. LastPage + 1]

(* A call loads the next page of a topic, reloads it, loads a collection or  *)
(* searches.                                                                 *)
CallType == [kind : {"idle", "load", "retry", "shelf", "search"},
             of : Categories \cup {None}, page : 0 .. LastPage + 1]

TypeOK ==
    /\ open \in Categories \cup {None}
    /\ made \in SUBSET Categories
    /\ feed \in [Topics -> FeedType]
    /\ shelf \in [Collections -> {"loading", "empty", "data"}]
    /\ search \in [query : Categories \cup {None},
                   results : Categories \cup {None}, isLoading : BOOLEAN]
    /\ call \in [Calls -> CallType]

Init ==
    /\ open = None
    /\ made = {}
    /\ feed = [t \in Topics |-> NewFeed]
    /\ shelf = [c \in Collections |-> "loading"]
    /\ search = NewSearch
    /\ call = [l \in Calls |-> Idle]

Listed(t) == {p \in Pages : feed[t].shown[p] > 0}

\* The page on top shows the shimmer.
Skeleton(c) ==
    IF c \in Topics THEN feed[c].isLoading /\ Listed(c) = {}
                    ELSE shelf[c] = "loading"

-----------------------------------------------------------------------------
(* Opening a page *)

\* Mutant: only the search's loading flag is reset.
SearchUnblocked == [search EXCEPT !.isLoading = FALSE]

\* clearSearch()
SearchCleared == NewSearch

\* ... followed by searchWallpapers(name, refresh: true), which the clear has
\* made sure is not turned away.
SearchStarted(c) == [SearchCleared EXCEPT !.query = c, !.isLoading = TRUE]

Loading(c, kind, page) == [kind |-> kind, of |-> c, page |-> page]
Searching(c) == Loading(c, "search", 0)
LoadingShelf(c) == Loading(c, "shelf", 0)

\* The first build makes the notifier, whose constructor loads; the post-frame
\* callback clears the search and searches, for either kind of category.
OpenPage(c, l, s) ==
    /\ open = None
    /\ l # s /\ call[l] = Idle /\ call[s] = Idle
    /\ open' = c
    /\ search' = SearchStarted(c)
    /\ made' = made \cup {c}
    /\ IF c \in made
         THEN /\ call' = [call EXCEPT ![s] = Searching(c)]
              /\ UNCHANGED feed
         ELSE IF c \in Topics
           THEN /\ call' = [call EXCEPT ![s] = Searching(c),
                                        ![l] = Loading(c, "load", 1)]
                /\ feed' = [feed EXCEPT ![c].isLoading = TRUE]
           ELSE /\ call' = [call EXCEPT ![s] = Searching(c),
                                        ![l] = LoadingShelf(c)]
                /\ UNCHANGED feed
    /\ UNCHANGED shelf

ClosePage ==
    /\ open # None
    /\ open' = None
    /\ UNCHANGED <<made, feed, shelf, search, call>>

-----------------------------------------------------------------------------
(* The open page *)

\* Mutant: no guard.
NotLoadingUnchecked(t) == TRUE

NotLoading(t) == ~feed[t].isLoading

\* loadCategoryWallpapers(), up to its await.
LoadCategoryWallpapers(t, l, kind) ==
    /\ NotLoading(t)
    /\ call[l] = Idle
    /\ call' = [call EXCEPT ![l] = Loading(t, kind, IF kind = "retry" THEN 1
                                                      ELSE feed[t].currentPage)]
    /\ feed' = [feed EXCEPT ![t].isLoading = TRUE, ![t].error = FALSE]
    /\ UNCHANGED <<open, made, shelf, search>>

\* The list is scrolled to its end.
LoadMore(t, l) ==
    /\ open = t
    /\ Listed(t) # {}
    /\ feed[t].hasMore
    /\ LoadCategoryWallpapers(t, l, "load")

\* The button of the error page.
Retry(t, l) ==
    /\ open = t
    /\ Listed(t) = {}
    /\ feed[t].error
    /\ LoadCategoryWallpapers(t, l, "retry")

\* A pull is possible on a list only; the shimmer replaces it at once.
PullCollection(c, l) ==
    /\ open = c
    /\ shelf[c] = "data"
    /\ call[l] = Idle
    /\ shelf' = [shelf EXCEPT ![c] = "loading"]
    /\ call' = [call EXCEPT ![l] = LoadingShelf(c)]
    /\ UNCHANGED <<open, made, feed, search>>

-----------------------------------------------------------------------------
(* The continuations *)

\* The photos of page p: none past the last page, none of an unstocked topic.
Photos(t, p) == IF t \in Stocked THEN Pages \cap {p} ELSE {}

\* Mutant: the end of the list is not noticed.
AlwaysMore(l) == TRUE

PageAfter(l) ==
    IF call[l].kind = "retry" THEN 2 ELSE feed[call[l].of].currentPage + 1

\* A full page promises another.
HasMore(l) == call[l].of \in Stocked /\ call[l].page < LastPage

PageArrives(l) ==
    LET t == call[l].of
        kept(p) == IF call[l].kind = "retry" THEN 0 ELSE feed[t].shown[p]
        added == Photos(t, call[l].page) IN
    /\ call[l].kind \in {"load", "retry"}
    /\ feed' = [feed EXCEPT ![t] =
                 [shown |-> [p \in Pages |-> kept(p) + IF p \in added THEN 1 ELSE 0],
                  isLoading |-> FALSE, error |-> FALSE,
                  hasMore |-> HasMore(l), currentPage |-> PageAfter(l)]]
    /\ call' = [call EXCEPT ![l] = Idle]
    /\ UNCHANGED <<open, made, shelf, search>>

\* Mutant: a failed load leaves isLoading set.
FailedStillLoading(t) == [feed EXCEPT ![t].error = TRUE]

Failed(t) == [feed EXCEPT ![t].isLoading = FALSE, ![t].error = TRUE]

RequestFails(l) ==
    /\ call[l].kind \in {"load", "retry"}
    /\ feed' = Failed(call[l].of)
    /\ call' = [call EXCEPT ![l] = Idle]
    /\ UNCHANGED <<open, made, shelf, search>>

\* getWallpapersByCategory() of FirestoreService turns an error into [].
ShelfAnswers(l) ==
    LET c == call[l].of IN
    /\ call[l].kind = "shelf"
    /\ \/ shelf' = [shelf EXCEPT ![c] = IF c \in Stocked THEN "data" ELSE "empty"]
       \/ shelf' = [shelf EXCEPT ![c] = "empty"]
    /\ call' = [call EXCEPT ![l] = Idle]
    /\ UNCHANGED <<open, made, feed, search>>

\* The answer to a search replaces results and query, whatever was asked since.
SearchAnswers(l) ==
    /\ call[l].kind = "search"
    /\ \E found \in {call[l].of, None} :
         search' = [query |-> call[l].of, results |-> found, isLoading |-> FALSE]
    /\ call' = [call EXCEPT ![l] = Idle]
    /\ UNCHANGED <<open, made, feed, shelf>>

SearchFails(l) ==
    /\ call[l].kind = "search"
    /\ search' = [search EXCEPT !.isLoading = FALSE]
    /\ call' = [call EXCEPT ![l] = Idle]
    /\ UNCHANGED <<open, made, feed, shelf>>

Advance(l) ==
    \/ PageArrives(l)
    \/ RequestFails(l)
    \/ ShelfAnswers(l)
    \/ SearchAnswers(l)
    \/ SearchFails(l)

Next ==
    \/ \E c \in Categories, l, s \in Calls : OpenPage(c, l, s)
    \/ ClosePage
    \/ \E l \in Calls :
         \/ \E t \in Topics : LoadMore(t, l) \/ Retry(t, l)
         \/ \E c \in Collections : PullCollection(c, l)
         \/ Advance(l)

Spec == Init /\ [][Next]_vars

\* dio's timeouts bound a request, Firestore's get ends, and the event loop
\* runs every continuation.
Fairness == \A l \in Calls : WF_vars(Advance(l))

FairSpec == Spec /\ Fairness
-----------------------------------------------------------------------------
(* Properties *)

InFlight(c) ==
    {l \in Calls : call[l].of = c /\ call[l].kind \in {"load", "retry", "shelf"}}

\* Each category has one load in flight while it is loading and none otherwise,
\* through pages closed and reopened during a load.
OneLoadPerCategory ==
    /\ \A c \in Categories : \A l, m \in InFlight(c) : l = m
    /\ \A t \in Topics : feed[t].isLoading <=> InFlight(t) # {}
    /\ \A c \in Collections :
         shelf[c] = "loading" <=> c \notin made \/ InFlight(c) # {}

\* Paging is exact: a topic shows each page below currentPage once, whatever
\* failed, was retried or was left while it loaded, and nothing is requested
\* past the last page (hasMore is looked at here).
PagesOnce ==
    \A t \in Topics : \A p \in Pages :
      feed[t].shown[p] = IF p < feed[t].currentPage /\ t \in Stocked THEN 1 ELSE 0

StopsAtTheEnd ==
    \A l \in Calls : call[l].page <= IF call[l].of \in Stocked THEN LastPage ELSE 1

ExactPaging == PagesOnce /\ StopsAtTheEnd

\* A topic's list is that of Pager, whose requests are the topic's own loads.
Asked(t) ==
    {<<l, call[l].page>> :
       l \in {m \in Calls : call[m].of = t /\ call[m].kind \in {"load", "retry"}}}

List(t) == INSTANCE Pager
             WITH Callers <- Calls,
                  Stock <- IF t \in Stocked THEN Pages ELSE {},
                  Highest <- IF t \in Stocked THEN LastPage ELSE 1,
                  shown <- feed[t].shown,
                  next <- feed[t].currentPage,
                  asked <- Asked(t)

\* Each topic is paged in order and by one request at a time, never past its last
\* page, whatever failed, was retried or was left while it loaded, and whatever
\* the other topics, the collections and the searches do meanwhile: List(t)!Spec for
\* each topic t.
ImplementsPager ==
    /\ \A t \in Topics : List(t)!Init
    /\ [][\A t \in Topics : [List(t)!Next]_(List(t)!vars)]_vars

\* The results are those of the query, in whatever order overlapping searches
\* end and whichever of them fail.
ResultsAreOfTheQuery == search.results \in {None, search.query}

\* The shimmer of a page that stays open gives way to a list, an empty page or
\* an error.
ShimmerEnds ==
    \A c \in Categories :
      open = c /\ Skeleton(c) ~> open # c \/ ~Skeleton(c)
=============================================================================
