------------------------ MODULE FirestoreFeedProofs ------------------------
(* Theorems about FirestoreFeed for every catalogue, any number of          *)
(* revisions, button presses and restarts.                                  *)
EXTENDS FirestoreFeed, TLAPS

\* A writer that nobody interfered with since its clear(): it is the only one,
\* last_update is gone, and the box holds its list but for the puts to come.
WriterOwnsBox ==
    ~tangled =>
      \A t \in Tasks : task[t].pc = "put" =>
        /\ stamp = "none"
        /\ task[t].todo \subseteq Listed(task[t].got)
        /\ box = [w \in Wallpapers |->
                    IF w \in task[t].todo THEN Absent
                                          ELSE Listing(task[t].got)[w]]
        /\ \A u \in Tasks : task[u].pc = "put" => u = t

\* One answer of the server, complete: a revision's listing or [].
Whole(list) == \E r \in Revisions \cup {Absent} : list = Listing(r)

\* However a writer was cut short (the process killed between two puts, an
\* operation of the box failing), a box that carries last_update holds exactly
\* one answer of the server, unless two calls wrote it at the same time.
StampedCacheIsOneListing == stamp # "none" /\ ~tangled => Whole(box)

\* What StampedCacheIsOneListing needs to be inductive.
CacheInv == TypeOK /\ WriterOwnsBox /\ StampedCacheIsOneListing

LEMMA Bounds == MaxRev \in Nat /\ MaxRestarts \in Nat /\ 0 \in Revisions
  BY ConstantsAssumption DEF ConstantsAssumption, Revisions

LEMMA FixedTasks == Mount \in Tasks /\ Pull \in Tasks
  BY DEF Tasks

LEMMA ListingType == \A r \in Revisions \cup {Absent} : Listing(r) \in Listings
  BY DEF Listing, Listings

LEMMA AbsentListsNothing == Listing(Absent) = Nothing
  BY DEF Listing, Nothing, Absent, Revisions

LEMMA NothingType == Nothing \in Listings
  BY DEF Nothing, Listings

LEMMA LoadingType == Loading \in FeedType
  BY NothingType DEF Loading, FeedType

LEMMA DataType == \A list \in Listings : Data(list) \in FeedType
  BY DEF Data, FeedType

LEMMA DataFields == \A list : Data(list).is = "data" /\ Data(list).list = list
  BY DEF Data

LEMMA TaskTypes ==
    /\ Idle \in TaskType
    /\ LoadingTrending \in TaskType
    /\ copy \in Revisions \cup {Absent} => Fetching \in TaskType
  BY Bounds DEF Idle, LoadingTrending, Fetching, TaskType, Absent

\* What the SDK's copy holds, and what the server may answer, is a revision or none.
LEMMA AnswersInRange ==
    ASSUME TypeOK
    PROVE  copy .. rev \subseteq Revisions \cup {Absent}
           /\ copy \in Revisions \cup {Absent}
           /\ rev \in Int /\ copy \in Int /\ copy <= rev
  BY Bounds DEF TypeOK, Revisions, Absent

\* Every variable starts with a value of its type.
LEMMA TypeCorrectInit == Init => TypeOK
<1> SUFFICES ASSUME Init PROVE TypeOK
  OBVIOUS
<1>1. task \in [Tasks -> TaskType]
  BY TaskTypes DEF Init
<1>2. rev \in Revisions /\ copy \in Absent .. rev /\ restarts \in 0 .. MaxRestarts
  BY Bounds DEF Init, Absent
<1>3. QED
  BY <1>1, <1>2, NothingType, LoadingType DEF Init, TypeOK

\* Every step keeps it.
LEMMA TypeCorrectStep == TypeOK /\ [Next]_vars => TypeOK'
<1> SUFFICES ASSUME TypeOK, [Next]_vars PROVE TypeOK'
  OBVIOUS
<1> USE DEF TypeOK
<1>1. CASE OpenTab
  BY <1>1, LoadingType, DataType, TaskTypes, FixedTasks, AnswersInRange DEF OpenTab
<1>2. ASSUME NEW t \in Tasks, Refresh(t) PROVE TypeOK'
  BY <1>2, LoadingType, TaskTypes, AnswersInRange DEF Refresh
<1>3. CASE PullToRefresh
  BY <1>2, <1>3 DEF PullToRefresh, Tasks
<1>4. ASSUME NEW t \in Buttons, PressButton(t) PROVE TypeOK'
  BY <1>2, <1>4 DEF PressButton, Tasks
<1>5. ASSUME NEW t \in Tasks, FetchAnswers(t) \/ FetchFails(t) PROVE TypeOK'
  <2>1. CASE FetchAnswers(t)
    <3>1. PICK a \in copy .. rev :
            /\ copy' = a
            /\ task' = [task EXCEPT ![t].pc = "clear", ![t].got = a]
      BY <2>1 DEF FetchAnswers
    <3>2. a \in Revisions \cup {Absent} /\ a \in Absent .. rev
      BY <3>1, AnswersInRange DEF Absent
    <3>3. task' \in [Tasks -> TaskType]
      BY <3>1, <3>2, ZenonT(30) DEF TaskType
    <3>4. QED
      BY <2>1, <3>1, <3>2, <3>3 DEF FetchAnswers
  <2>2. CASE FetchFails(t)
    BY <2>2, ZenonT(30) DEF FetchFails, TaskType
  <2>3. QED
    BY <1>5, <2>1, <2>2
<1>6. ASSUME NEW t \in Tasks, Clear(t) PROVE TypeOK'
  BY <1>6, NothingType, ZenonT(30) DEF Clear, Cleared, Listed, TaskType
<1>7. ASSUME NEW t \in Tasks, Put(t) PROVE TypeOK'
  <2> PICK w \in task[t].todo :
          /\ box' = [box EXCEPT ![w] = task[t].got]
          /\ task' = [task EXCEPT ![t].todo = @ \ {w}]
    BY <1>7 DEF Put
  <2>1. task[t] \in TaskType
    OBVIOUS
  <2>2. box' \in Listings
    BY <2>1 DEF Listings, TaskType
  <2>3. task' \in [Tasks -> TaskType]
    BY <2>1 DEF TaskType
  <2> QED
    BY <1>7, <2>2, <2>3 DEF Put
<1>8. ASSUME NEW t \in Tasks, Publish(t)
      PROVE  feed' \in FeedType /\ task' \in [Tasks -> TaskType]
  <2>1. Listing(task[t].got) \in Listings
    BY ListingType DEF TaskType
  <2> QED
    BY <1>8, <2>1, DataType, TaskTypes DEF Publish, Result
<1>9. ASSUME NEW t \in Tasks, Stamp(t) \/ WriteFails(t) PROVE TypeOK'
  BY <1>8, <1>9 DEF Stamp, WriteFails, Publish
<1>10. ASSUME NEW t \in Tasks, TrendingAnswers(t) PROVE TypeOK'
  BY <1>10, TaskTypes DEF TrendingAnswers
<1>11. CASE NewRevision
  BY <1>11, Bounds, AnswersInRange DEF NewRevision, Revisions, Absent
<1>12. CASE HourPasses
  BY <1>12 DEF HourPasses
<1>13. CASE Restart
  <2>1. task' \in [Tasks -> TaskType]
    BY <1>13, TaskTypes DEF Restart
  <2>2. restarts' \in 0 .. MaxRestarts
    BY <1>13, Bounds DEF Restart
  <2>3. QED
    BY <1>13, <2>1, <2>2, LoadingType DEF Restart
<1>14. CASE UNCHANGED vars
  BY <1>14 DEF vars
<1>15. QED
  BY <1>1, <1>3, <1>4, <1>5, <1>6, <1>7, <1>9, <1>10, <1>11, <1>12, <1>13,
     <1>14 DEF Next, Advance

\* Every variable keeps its type in every reachable state.
THEOREM TypeCorrect == Spec => []TypeOK
  BY TypeCorrectInit, TypeCorrectStep, PTL DEF Spec


-----------------------------------------------------------------------------

\* However the app is killed and whatever operation fails, a cache that carries
\* last_update is one complete answer, unless two writers overlapped.
LEMMA CacheInvariant == Spec => []CacheInv
<1>1. Init => CacheInv
  BY TypeCorrectInit DEF Init, CacheInv, WriterOwnsBox, StampedCacheIsOneListing, Idle
<1>2. CacheInv /\ [Next]_vars => CacheInv'
  <2> SUFFICES ASSUME TypeOK, TypeOK', WriterOwnsBox, StampedCacheIsOneListing,
                      [Next]_vars
               PROVE  WriterOwnsBox' /\ StampedCacheIsOneListing'
    BY TypeCorrectStep DEF CacheInv
  <2> DEFINE Quiet == /\ UNCHANGED <<box, stamp, tangled>>
                      /\ \A u \in Tasks : task'[u].pc = "put" =>
                           task[u].pc = "put" /\ task'[u] = task[u]
  \* A step that leaves the box, last_update and the writers alone.
  <2>1. ASSUME Quiet PROVE WriterOwnsBox' /\ StampedCacheIsOneListing'
    BY <2>1 DEF WriterOwnsBox, StampedCacheIsOneListing, Whole, Listing
  <2>2. CASE OpenTab
    <3>1. Quiet
      BY <2>2, FixedTasks DEF OpenTab, Fetching, TypeOK
    <3>2. QED
      BY <2>1, <3>1
  <2>3. ASSUME NEW t \in Tasks, Refresh(t) PROVE Quiet
    BY <2>3 DEF Refresh, Fetching, TypeOK
  <2>4. CASE PullToRefresh
    BY <2>1, <2>3, <2>4, FixedTasks DEF PullToRefresh
  <2>5. ASSUME NEW t \in Buttons, PressButton(t)
        PROVE  WriterOwnsBox' /\ StampedCacheIsOneListing'
    BY <2>1, <2>3, <2>5 DEF PressButton, Tasks
  <2>6. ASSUME NEW t \in Tasks, FetchAnswers(t) \/ FetchFails(t) PROVE Quiet
    BY <2>6 DEF FetchAnswers, FetchFails, TypeOK, TaskType
  <2>7. ASSUME NEW t \in Tasks, Clear(t)
        PROVE  WriterOwnsBox' /\ StampedCacheIsOneListing'
    <3>1. stamp' = "none" /\ box' = Nothing
      BY <2>7 DEF Clear, Cleared
    <3>2. ASSUME ~tangled' PROVE \A u \in Tasks : task'[u].pc = "put" => u = t
      BY <2>7, <3>2 DEF Clear, Cleared, TypeOK
    <3>3. task'[t].pc = "put" /\ task'[t].todo = Listed(task[t].got)
                             /\ task'[t].got = task[t].got
      BY <2>7 DEF Clear, Cleared, TypeOK, TaskType
    <3>4. Nothing = [w \in Wallpapers |-> IF w \in Listed(task[t].got) THEN Absent
                                          ELSE Listing(task[t].got)[w]]
      BY DEF Nothing, Listed, Listing
    <3>5. WriterOwnsBox'
      BY <3>1, <3>2, <3>3, <3>4 DEF WriterOwnsBox, Listing
    <3>6. QED
      BY <3>1, <3>5 DEF StampedCacheIsOneListing
  <2>8. ASSUME NEW t \in Tasks, Put(t)
        PROVE  WriterOwnsBox' /\ StampedCacheIsOneListing'
    <3>1. PICK w \in task[t].todo :
            /\ box' = [box EXCEPT ![w] = task[t].got]
            /\ task' = [task EXCEPT ![t].todo = @ \ {w}]
      BY <2>8 DEF Put
    <3>2. task[t].pc = "put" /\ UNCHANGED <<stamp, tangled>>
      BY <2>8 DEF Put
    <3>3. CASE tangled
      BY <3>2, <3>3 DEF WriterOwnsBox, StampedCacheIsOneListing
    <3>4. CASE ~tangled
      <4>1. /\ stamp = "none"
            /\ \A u \in Tasks : task[u].pc = "put" => u = t
            /\ box = [v \in Wallpapers |->
                        IF v \in task[t].todo THEN Absent
                                              ELSE Listing(task[t].got)[v]]
            /\ task[t].todo \subseteq Listed(task[t].got)
        BY <3>2, <3>4 DEF WriterOwnsBox
      <4>2. /\ \A u \in Tasks : task'[u].pc = task[u].pc
            /\ task'[t].got = task[t].got
            /\ task'[t].todo = task[t].todo \ {w}
        BY <3>1 DEF TypeOK, TaskType
      <4>3. Listing(task[t].got)[w] = task[t].got /\ w \in Wallpapers
        BY <4>1, <3>1 DEF Listed, Listing
      <4>4. box' = [v \in Wallpapers |->
                      IF v \in task'[t].todo THEN Absent
                                             ELSE Listing(task[t].got)[v]]
        BY <3>1, <4>1, <4>2, <4>3
      <4>5. QED
        BY <3>2, <4>1, <4>2, <4>4
           DEF WriterOwnsBox, StampedCacheIsOneListing, Listing, Listed
    <3>5. QED
      BY <3>3, <3>4
  <2>9. ASSUME NEW t \in Tasks, Publish(t), UNCHANGED <<box, stamp, tangled>>
        PROVE  Quiet
    BY <2>9 DEF Publish, Idle, LoadingTrending, TypeOK
  <2>10. ASSUME NEW t \in Tasks, Stamp(t)
        PROVE  WriterOwnsBox' /\ StampedCacheIsOneListing'
    <3>1. /\ task[t].pc = "put" /\ task[t].todo = {}
          /\ UNCHANGED <<box, tangled>>
          /\ task'[t].pc # "put"
          /\ \A u \in Tasks \ {t} : task'[u] = task[u]
      BY <2>10 DEF Stamp, PutsDone, Publish, Idle, LoadingTrending, TypeOK
    <3>2. CASE tangled
      BY <3>1, <3>2 DEF WriterOwnsBox, StampedCacheIsOneListing
    <3>3. CASE ~tangled
      <4>1. /\ \A u \in Tasks : task[u].pc = "put" => u = t
            /\ box = [v \in Wallpapers |-> Listing(task[t].got)[v]]
        BY <3>1, <3>3 DEF WriterOwnsBox
      <4>2. box = Listing(task[t].got) /\ task[t].got \in Revisions \cup {Absent}
        BY <4>1 DEF Listing, TypeOK, TaskType
      <4>3. \A u \in Tasks : task'[u].pc # "put"
        BY <3>1, <4>1
      <4>4. QED
        BY <3>1, <4>2, <4>3
           DEF WriterOwnsBox, StampedCacheIsOneListing, Whole, Listing
    <3>4. QED
      BY <3>2, <3>3
  <2>11. ASSUME NEW t \in Tasks, WriteFails(t) PROVE Quiet
    BY <2>9, <2>11 DEF WriteFails
  <2>12. ASSUME NEW t \in Tasks, TrendingAnswers(t) PROVE Quiet
    BY <2>12 DEF TrendingAnswers, Idle, TypeOK
  <2>13. CASE NewRevision
    BY <2>1, <2>13 DEF NewRevision
  <2>14. CASE HourPasses
    BY <2>14 DEF HourPasses, WriterOwnsBox, StampedCacheIsOneListing, Whole, Listing
  <2>15. CASE Restart
    BY <2>1, <2>15 DEF Restart, Idle
  <2>16. CASE UNCHANGED vars
    BY <2>1, <2>16 DEF vars
  <2>17. QED
    BY <2>1, <2>2, <2>4, <2>5, <2>6, <2>7, <2>8, <2>10, <2>11, <2>12, <2>13,
       <2>14, <2>15, <2>16 DEF Next, Advance
<1>3. QED
  BY <1>1, <1>2, PTL DEF Spec

\* The clear-put-stamp protocol of any number of overlapping calls, cut short
\* anywhere, implements the cache whose answers come and go as a whole.
THEOREM RefinesCacheBox == Spec => ImplementsCacheBox
<1> DEFINE content == IF Served THEN {box} ELSE {}
           age == IF Served THEN stamp ELSE "none"
<1>1. Init => Cache!Init
  BY DEF Init, Cache!Init, Served
<1>2. CacheInv /\ CacheInv' /\ [Next]_vars => [Cache!Next]_<<content, age>>
  <2> SUFFICES ASSUME CacheInv, CacheInv', [Next]_vars
               PROVE  Cache!Next \/ UNCHANGED <<content, age>>
    OBVIOUS
  <2> USE DEF Served
  \* Most steps leave the box, last_update and the tangle alone.
  <2>1. ASSUME UNCHANGED <<box, stamp, tangled>> PROVE UNCHANGED <<content, age>>
    BY <2>1
  <2>2. CASE OpenTab \/ PullToRefresh \/ NewRevision \/ Restart \/ UNCHANGED vars
    BY <2>1, <2>2 DEF OpenTab, PullToRefresh, Refresh, NewRevision, Restart, vars
  <2>3. ASSUME NEW t \in Buttons, PressButton(t) PROVE UNCHANGED <<content, age>>
    BY <2>1, <2>3 DEF PressButton, Refresh
  <2>4. ASSUME NEW t \in Tasks,
               FetchAnswers(t) \/ FetchFails(t) \/ WriteFails(t) \/ TrendingAnswers(t)
        PROVE  UNCHANGED <<content, age>>
    BY <2>1, <2>4 DEF FetchAnswers, FetchFails, WriteFails, TrendingAnswers
  <2>5. ASSUME NEW t \in Tasks, Clear(t)
        PROVE  Cache!Next \/ UNCHANGED <<content, age>>
    <3>1. ~Served'
      BY <2>5 DEF Clear, Cleared
    <3>2. CASE Served
      BY <3>1, <3>2 DEF Cache!Next, Cache!Discard
    <3>3. CASE ~Served
      BY <3>1, <3>3
    <3>4. QED
      BY <3>2, <3>3
  <2>6. ASSUME NEW t \in Tasks, Put(t) PROVE UNCHANGED <<content, age>>
    <3>1. task[t].pc = "put" /\ UNCHANGED <<stamp, tangled>>
      BY <2>6 DEF Put
    <3>2. ~Served
      BY <3>1 DEF CacheInv, WriterOwnsBox
    <3>3. QED
      BY <3>1, <3>2
  <2>7. ASSUME NEW t \in Tasks, Stamp(t)
        PROVE  Cache!Next \/ UNCHANGED <<content, age>>
    <3>1. task[t].pc = "put" /\ stamp' = "fresh" /\ UNCHANGED <<box, tangled>>
      BY <2>7 DEF Stamp
    <3>2. CASE tangled
      BY <3>1, <3>2
    <3>3. CASE ~tangled
      <4>1. ~Served /\ Served'
        BY <3>1, <3>3 DEF CacheInv, WriterOwnsBox
      <4>2. PICK r \in Revisions \cup {Absent} : box' = Listing(r)
        BY <4>1 DEF CacheInv, StampedCacheIsOneListing, Whole, Listing
      <4>3. Cache!Store
        BY <3>1, <4>1, <4>2 DEF Cache!Store
      <4>4. QED
        BY <4>3 DEF Cache!Next
    <3>4. QED
      BY <3>2, <3>3
  <2>8. CASE HourPasses
    <3>1. stamp = "fresh" /\ stamp' = "old" /\ UNCHANGED <<box, tangled>>
      BY <2>8 DEF HourPasses
    <3>2. CASE tangled
      BY <3>1, <3>2
    <3>3. CASE ~tangled
      BY <3>1, <3>3 DEF Cache!Next, Cache!Expire
    <3>4. QED
      BY <3>2, <3>3
  <2>9. QED
    BY <2>2, <2>3, <2>4, <2>5, <2>6, <2>7, <2>8 DEF Next, Advance
<1>3. QED
  BY <1>1, <1>2, CacheInvariant, PTL DEF Spec, ImplementsCacheBox, Cache!Spec
-----------------------------------------------------------------------------

\* However calls overlap and end, a feed that is loading has a call in flight
\* that will publish.
THEOREM ShimmerOwned == Spec => []ShimmerHasOwner
<1>1. Init => ShimmerHasOwner
  BY DEF Init, ShimmerHasOwner
<1>2. TypeOK /\ ShimmerHasOwner /\ [Next]_vars => ShimmerHasOwner'
  <2> SUFFICES ASSUME TypeOK, ShimmerHasOwner, [Next]_vars,
                      mounted', feed'.is = "loading"
               PROVE  \E t \in Tasks : InFlight(t)'
    BY DEF ShimmerHasOwner
  <2> USE DEF InFlight, Writing
  \* A call in flight that moves on without publishing stays in flight.
  <2>1. ASSUME UNCHANGED <<mounted, feed>>,
               \A t \in Tasks : InFlight(t) => InFlight(t)'
        PROVE  \E t \in Tasks : InFlight(t)'
    BY <2>1 DEF ShimmerHasOwner
  <2>2. CASE OpenTab
    BY <2>2, FixedTasks DEF OpenTab, Fetching, Data, TypeOK
  <2>3. ASSUME NEW t \in Tasks, Refresh(t) PROVE InFlight(t)'
    BY <2>3 DEF Refresh, Fetching, TypeOK
  <2>4. CASE PullToRefresh
    BY <2>3, <2>4, FixedTasks DEF PullToRefresh
  <2>5. ASSUME NEW t \in Buttons, PressButton(t) PROVE InFlight(t)'
    BY <2>3, <2>5 DEF PressButton, Tasks
  <2>6. ASSUME NEW t \in Tasks, FetchAnswers(t) \/ FetchFails(t)
        PROVE  \E u \in Tasks : InFlight(u)'
    BY <2>1, <2>6, ZenonT(30) DEF FetchAnswers, FetchFails, TypeOK, TaskType
  <2>7. ASSUME NEW t \in Tasks, Clear(t) PROVE \E u \in Tasks : InFlight(u)'
    BY <2>1, <2>7 DEF Clear, Cleared, TypeOK, TaskType
  <2>8. ASSUME NEW t \in Tasks, Put(t) PROVE \E u \in Tasks : InFlight(u)'
    BY <2>1, <2>8 DEF Put, TypeOK, TaskType
  <2>9. ASSUME NEW t \in Tasks, Stamp(t) \/ WriteFails(t) PROVE FALSE
    BY <2>9, DataFields DEF Stamp, WriteFails, Publish, Result
  <2>10. ASSUME NEW t \in Tasks, TrendingAnswers(t)
         PROVE  \E u \in Tasks : InFlight(u)'
    BY <2>1, <2>10 DEF TrendingAnswers, TypeOK
  <2>11. CASE NewRevision \/ HourPasses \/ UNCHANGED vars
    BY <2>1, <2>11 DEF NewRevision, HourPasses, vars
  <2>12. CASE Restart
    BY <2>12 DEF Restart
  <2>13. QED
    BY <2>2, <2>4, <2>5, <2>6, <2>7, <2>8, <2>9, <2>10, <2>11, <2>12
       DEF Next, Advance, Tasks
<1>3. QED
  BY <1>1, <1>2, TypeCorrect, PTL DEF Spec

-----------------------------------------------------------------------------

\* No call has been given an older catalogue than the SDK's copy was when it began,
\* for the copy never grows older.
AnswersGoForward ==
    \A t \in Tasks :
      /\ task[t].since <= copy
      /\ Writing(t) => task[t].got = Absent \/ task[t].got >= task[t].since

LEMMA AnswersDoGoForward == Spec => []AnswersGoForward
<1>1. Init => AnswersGoForward
  BY DEF Init, AnswersGoForward, Idle, Writing, Absent
<1>2. TypeOK /\ AnswersGoForward /\ [Next]_vars => AnswersGoForward'
  <2> SUFFICES ASSUME TypeOK, AnswersGoForward, [Next]_vars PROVE AnswersGoForward'
    OBVIOUS
  <2> USE DEF AnswersGoForward, Writing
  <2>0. copy \in Int /\ Absent <= copy /\ \A t \in Tasks : task[t].since \in Int
    BY Bounds DEF TypeOK, TaskType, Revisions, Absent
  <2>1. CASE OpenTab
    BY <2>0, <2>1, FixedTasks DEF OpenTab, Fetching, TypeOK
  <2>2. ASSUME NEW t \in Tasks, Refresh(t) PROVE AnswersGoForward'
    BY <2>0, <2>2 DEF Refresh, Fetching, TypeOK
  <2>3. CASE PullToRefresh
    BY <2>2, <2>3, FixedTasks DEF PullToRefresh
  <2>4. ASSUME NEW t \in Buttons, PressButton(t) PROVE AnswersGoForward'
    BY <2>2, <2>4 DEF PressButton, Tasks
  <2>5. ASSUME NEW t \in Tasks, FetchAnswers(t) PROVE AnswersGoForward'
    <3>1. PICK r \in copy .. rev :
            /\ copy' = r
            /\ task' = [task EXCEPT ![t].pc = "clear", ![t].got = r]
      BY <2>5 DEF FetchAnswers
    <3>2. r \in Int /\ copy <= r
      BY <3>1, AnswersInRange
    <3>3. /\ task'[t].since = task[t].since /\ task'[t].got = r
          /\ \A u \in Tasks \ {t} : task'[u] = task[u]
      BY <3>1 DEF TypeOK, TaskType
    <3>4. \A u \in Tasks : task[u].since <= r
      BY <2>0, <3>2
    <3>5. QED
      BY <2>0, <3>1, <3>2, <3>3, <3>4
  <2>6. ASSUME NEW t \in Tasks, FetchFails(t) PROVE AnswersGoForward'
    BY <2>0, <2>6 DEF FetchFails, TypeOK, TaskType
  <2>7. ASSUME NEW t \in Tasks, Clear(t) PROVE AnswersGoForward'
    BY <2>7 DEF Clear, Cleared, TypeOK, TaskType
  <2>8. ASSUME NEW t \in Tasks, Put(t) PROVE AnswersGoForward'
    BY <2>8 DEF Put, TypeOK, TaskType
  <2>9. ASSUME NEW t \in Tasks, Stamp(t) \/ WriteFails(t) PROVE AnswersGoForward'
    BY <2>0, <2>9 DEF Stamp, WriteFails, Publish, Idle, LoadingTrending, TypeOK
  <2>10. ASSUME NEW t \in Tasks, TrendingAnswers(t) PROVE AnswersGoForward'
    BY <2>0, <2>10 DEF TrendingAnswers, Idle, TypeOK
  <2>11. CASE NewRevision \/ HourPasses \/ UNCHANGED vars
    BY <2>11 DEF NewRevision, HourPasses, vars
  <2>12. CASE Restart
    BY <2>0, <2>12 DEF Restart, Idle
  <2>13. QED
    BY <2>1, <2>3, <2>4, <2>5, <2>6, <2>7, <2>8, <2>9, <2>10, <2>11, <2>12
       DEF Next, Advance
<1>3. QED
  BY <1>1, <1>2, TypeCorrect, PTL DEF Spec

\* After the first frame the feed shows only what a call got from Firestore, never
\* the box, and, with or without network, never a catalogue older than one the device
\* had been given when the call began.
THEOREM RefreshGoesForward == Spec => RefreshIgnoresCache
<1> DEFINE ShowsAnswer ==
      \E t \in Tasks :
        /\ Writing(t)
        /\ feed'.list = Listing(task[t].got)
        /\ task[t].got = Absent \/ task[t].got >= task[t].since
<1>1. AnswersGoForward /\ [Next]_vars
        => [mounted /\ feed' # feed /\ feed'.is = "data" => ShowsAnswer]_vars
  <2> SUFFICES ASSUME AnswersGoForward, Next,
                      mounted, feed' # feed, feed'.is = "data"
               PROVE  ShowsAnswer
    BY DEF vars
  <2>1. ASSUME NEW t \in Tasks, Stamp(t) \/ WriteFails(t) PROVE ShowsAnswer
    <3>1. Writing(t) /\ feed' = Data(Listing(task[t].got))
      BY <2>1 DEF Stamp, WriteFails, Publish, Result, Writing
    <3>2. QED
      BY <3>1, DataFields DEF AnswersGoForward
  <2>2. ASSUME NEW t \in Tasks, Refresh(t) PROVE FALSE
    BY <2>2 DEF Refresh, Loading
  <2>3. CASE OpenTab \/ NewRevision \/ HourPasses \/ Restart
    <3>1. ~OpenTab
      BY DEF OpenTab
    <3>2. ~NewRevision /\ ~HourPasses
      BY DEF NewRevision, HourPasses
    <3>3. ~Restart
      BY DEF Restart, Loading
    <3>4. QED
      BY <2>3, <3>1, <3>2, <3>3
  <2>4. CASE PullToRefresh \/ \E t \in Buttons : PressButton(t)
    BY <2>2, <2>4, FixedTasks DEF PullToRefresh, PressButton, Tasks
  <2>5. ASSUME NEW t \in Tasks,
               FetchAnswers(t) \/ FetchFails(t) \/ Clear(t) \/ Put(t)
                 \/ TrendingAnswers(t)
        PROVE  FALSE
    BY <2>5 DEF FetchAnswers, FetchFails, Clear, Put, TrendingAnswers
  <2>6. QED
    BY <2>1, <2>3, <2>4, <2>5 DEF Next, Advance
<1>2. QED
  BY <1>1, AnswersDoGoForward, PTL DEF Spec, RefreshIgnoresCache
=============================================================================
