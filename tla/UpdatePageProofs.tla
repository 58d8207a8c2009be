-------------------------- MODULE UpdatePageProofs --------------------------
(* Theorems about UpdatePage for every number of pages and downloads, and   *)
(* about the order of versions for versions of every length.                *)
EXTENDS UpdatePage, SequenceTheorems, FiniteSetTheorems, TLAPS

-----------------------------------------------------------------------------
(* The order of versions *)

LEMMA PartType ==
    ASSUME NEW v \in Version, NEW i \in 1 .. 3
    PROVE  Part(v, i) \in Nat
  BY DEF Version, Part

\* The loop written out.
LEMMA ThreeParts ==
    ASSUME NEW v \in Version, NEW w \in Version
    PROVE  /\ IsNewerVersion(v, w) <=>
                \/ Part(v, 1) > Part(w, 1)
                \/ Part(v, 1) = Part(w, 1) /\ Part(v, 2) > Part(w, 2)
                \/ /\ Part(v, 1) = Part(w, 1) /\ Part(v, 2) = Part(w, 2)
                   /\ Part(v, 3) > Part(w, 3)
           /\ SameVersion(v, w) <=>
                /\ Part(v, 1) = Part(w, 1)
                /\ Part(v, 2) = Part(w, 2)
                /\ Part(v, 3) = Part(w, 3)
<1>1. 1 .. 3 = {1, 2, 3}
  OBVIOUS
<1>2. /\ 1 .. 1 - 1 = {}
      /\ 1 .. 2 - 1 = {1}
      /\ 1 .. 3 - 1 = {1, 2}
  OBVIOUS
<1>3. IsNewerVersion(v, w) <=>
        \/ Part(v, 1) > Part(w, 1) /\ \A j \in 1 .. 1 - 1 : Part(v, j) = Part(w, j)
        \/ Part(v, 2) > Part(w, 2) /\ \A j \in 1 .. 2 - 1 : Part(v, j) = Part(w, j)
        \/ Part(v, 3) > Part(w, 3) /\ \A j \in 1 .. 3 - 1 : Part(v, j) = Part(w, j)
  BY <1>1, Zenon DEF IsNewerVersion
<1>4. QED
  BY <1>1, <1>2, <1>3 DEF SameVersion

\* isNewerVersion orders the releases: none is newer than itself, no two are each
\* newer than the other, updates of updates are updates, and what is an update in
\* neither direction is the same version up to its third part.
THEOREM NewerIsStrictOrder ==
    ASSUME NEW u \in Version, NEW v \in Version, NEW w \in Version
    PROVE  /\ ~IsNewerVersion(u, u)
           /\ IsNewerVersion(u, v) => ~IsNewerVersion(v, u)
           /\ IsNewerVersion(u, v) /\ IsNewerVersion(v, w) => IsNewerVersion(u, w)
           /\ SameVersion(u, v) <=> ~IsNewerVersion(u, v) /\ ~IsNewerVersion(v, u)
<1>1. \A i \in {1, 2, 3} :
        Part(u, i) \in Nat /\ Part(v, i) \in Nat /\ Part(w, i) \in Nat
  BY PartType
<1>2. /\ ~IsNewerVersion(u, u)
      /\ IsNewerVersion(u, v) => ~IsNewerVersion(v, u)
  BY <1>1, ThreeParts
<1>3. IsNewerVersion(u, v) /\ IsNewerVersion(v, w) => IsNewerVersion(u, w)
  BY <1>1, ThreeParts
<1>4. SameVersion(u, v) <=> ~IsNewerVersion(u, v) /\ ~IsNewerVersion(v, u)
  BY <1>1, ThreeParts
<1>5. QED
  BY <1>2, <1>3, <1>4

-----------------------------------------------------------------------------
(* The stack of routes *)

LEMMA RouteTypes ==
    /\ Settings \in Route
    /\ Offer \in Route
    /\ \A p \in Pages : PageRoute(p) \in Route /\ Progress(p) \in Route
    /\ \A p : PageRoute(p) \in Route => p \in Pages
  BY DEF Route, Settings, Offer, PageRoute, Progress

LEMMA Pushed ==
    ASSUME routes \in Seq(Route), NEW r \in Route, Push(r)
    PROVE  /\ routes' \in Seq(Route)
           /\ Len(routes') = Len(routes) + 1
           /\ \A i \in 1 .. Len(routes) : routes'[i] = routes[i]
           /\ routes'[Len(routes) + 1] = r
<1>1. routes' = Append(routes, r)
  BY DEF Push
<1>2. /\ Append(routes, r) \in Seq(Route)
      /\ Len(Append(routes, r)) = Len(routes) + 1
      /\ \A i \in 1 .. Len(routes) : Append(routes, r)[i] = routes[i]
      /\ Append(routes, r)[Len(routes) + 1] = r
  BY AppendProperties
<1>3. QED
  BY <1>1, <1>2, Zenon

LEMMA NotEmpty ==
    ASSUME routes \in Seq(Route), routes # <<>>
    PROVE  Len(routes) \in Nat \ {0}
  BY EmptySeq, LenProperties

LEMMA Popped ==
    ASSUME routes \in Seq(Route), routes # <<>>, Pop
    PROVE  /\ routes' \in Seq(Route)
           /\ Len(routes') = Len(routes) - 1
           /\ \A i \in 1 .. Len(routes) - 1 : routes'[i] = routes[i]
<1>1. routes' = SubSeq(routes, 1, Len(routes) - 1)
  BY DEF Pop, Front
<1>2. Len(routes) \in Nat \ {0}
  BY NotEmpty
<1>3. PICK m \in Nat : m = Len(routes) - 1
  BY <1>2
<1>4. /\ SubSeq(routes, 1, m) \in Seq(Route)
      /\ Len(SubSeq(routes, 1, m)) = m
      /\ \A i \in 1 .. m : SubSeq(routes, 1, m)[i] = routes[i]
  BY <1>2, <1>3
<1>5. QED
  BY <1>1, <1>3, <1>4

LEMMA MountedIsThere ==
    ASSUME routes \in Seq(Route), NEW p
    PROVE  /\ Mounted(p) <=> \E i \in 1 .. Len(routes) : routes[i] = PageRoute(p)
           /\ Mounted(p) => routes # <<>> /\ p \in Pages
<1>1. Mounted(p) <=> \E i \in 1 .. Len(routes) : routes[i] = PageRoute(p)
  BY LenProperties DEF Mounted, Contains
<1>2. ASSUME Mounted(p) PROVE routes # <<>> /\ p \in Pages
  BY <1>1, <1>2, RouteTypes, EmptySeq, ElementOfSeq
<1>3. QED
  BY <1>1, <1>2

LEMMA TopOf ==
    ASSUME routes \in Seq(Route), NEW r, OnTop(r)
    PROVE  /\ routes # <<>>
           /\ Len(routes) \in Nat \ {0}
           /\ routes[Len(routes)] = r
  BY NotEmpty DEF OnTop, Last

-----------------------------------------------------------------------------
(* Types *)

PageType == [opened : BOOLEAN, check : {"none", "checking", "found"},
             token : Downloads \cup {None}]

DownloadType == [pc : {"unused", "over"} \cup Running, page : Pages \cup {None},
                 token : Downloads \cup {None}]

LEMMA OutcomesType == Outcomes \subseteq {"none", "found"}
  BY DEF Outcomes

LEMMA InitType == Init => TypeOK
<1>1. <<>> \in Seq(Route)
  BY EmptySeq
<1>2. ASSUME Init
      PROVE  /\ routes \in Seq(Route)
             /\ page \in [Pages -> [opened : BOOLEAN,
                                   check : {"none", "checking", "found"},
                                   token : Downloads \cup {None}]]
             /\ download \in [Downloads -> [pc : {"unused", "over"} \cup Running,
                                           page : Pages \cup {None},
                                           token : Downloads \cup {None}]]
             /\ declined \in [Downloads -> Running \cup {"no"}]
  BY <1>1, <1>2 DEF Init
<1>3. QED
  BY <1>2 DEF Init, TypeOK

\* The types of the routes and of what only actions of the user change.
LEMMA HideType ==
    ASSUME TypeOK, NEW p, NEW ok, HideDialog(p, ok)
    PROVE  routes' \in Seq(Route)
<1>1. CASE Mounted(p)
  <2>1. routes # <<>>
    BY <1>1, MountedIsThere DEF TypeOK
  <2>2. QED
    BY <1>1, <2>1, Popped DEF HideDialog, TypeOK
<1>2. CASE ~Mounted(p)
  BY <1>2 DEF HideDialog, TypeOK
<1>3. QED
  BY <1>1, <1>2

LEMMA PageWrite ==
    ASSUME page \in [Pages -> PageType], NEW p, NEW r,
           p \in Pages => r \in PageType
    PROVE  [page EXCEPT ![p] = r] \in [Pages -> PageType]
  OBVIOUS

LEMMA DownloadWrite ==
    ASSUME download \in [Downloads -> DownloadType], NEW d, NEW r \in DownloadType
    PROVE  [download EXCEPT ![d] = r] \in [Downloads -> DownloadType]
  OBVIOUS

LEMMA FinallyType ==
    ASSUME TypeOK, NEW d \in Downloads, Finally(d)
    PROVE  page' \in [Pages -> PageType] /\ download' \in [Downloads -> DownloadType]
<1>1. page \in [Pages -> PageType] /\ download \in [Downloads -> DownloadType]
  BY DEF TypeOK, PageType, DownloadType
<1>2. download' \in [Downloads -> DownloadType]
  BY <1>1 DEF Finally, DownloadType
<1>3. page' \in [Pages -> PageType]
  <2>1. CASE Mounted(download[d].page)
    <3>1. PICK p : p = download[d].page
      OBVIOUS
    <3>2. page' = [page EXCEPT ![p].token = None]
      BY <2>1, <3>1 DEF Finally
    <3>3. QED
      BY <1>1, <3>2 DEF PageType
  <2>2. CASE ~Mounted(download[d].page)
    BY <1>1, <2>2 DEF Finally
  <2>3. QED
    BY <2>1, <2>2
<1>4. QED
  BY <1>2, <1>3

\* TypeOK from its parts.
LEMMA TypeFrom ==
    ASSUME routes' \in Seq(Route), offered' \in BOOLEAN,
           page' \in [Pages -> PageType], download' \in [Downloads -> DownloadType],
           cancelled' \in SUBSET Downloads, covered' \in BOOLEAN,
           joined' \in SUBSET Downloads, declined' \in [Downloads -> Running \cup {"no"}]
    PROVE  TypeOK'
  BY DEF TypeOK, PageType, DownloadType

LEMMA NextType ==
    ASSUME TypeOK, Next
    PROVE  TypeOK'
<1>0. /\ routes \in Seq(Route) /\ offered \in BOOLEAN
      /\ page \in [Pages -> PageType] /\ download \in [Downloads -> DownloadType]
      /\ cancelled \in SUBSET Downloads /\ covered \in BOOLEAN
      /\ joined \in SUBSET Downloads /\ declined \in [Downloads -> Running \cup {"no"}]
  BY DEF TypeOK, PageType, DownloadType
<1>1. CASE OpenSettings
  BY <1>0, <1>1, Pushed, RouteTypes, TypeFrom DEF OpenSettings
<1>2. CASE HomeCheckAnswers
  <2>1. routes' \in Seq(Route)
    <3>1. CASE Push(Offer)
      BY <1>0, <3>1, Pushed, RouteTypes
    <3>2. CASE UNCHANGED routes
      BY <1>0, <3>2
    <3>3. QED
      BY <1>2, <3>1, <3>2 DEF HomeCheckAnswers
  <2>2. offered' \in BOOLEAN /\ covered' \in BOOLEAN
    BY <1>0, <1>2 DEF HomeCheckAnswers
  <2>3. QED
    BY <1>0, <1>2, <2>1, <2>2, TypeFrom DEF HomeCheckAnswers
<1>3. CASE Back
  BY <1>0, <1>3, Popped, TypeFrom DEF Back
<1>4. ASSUME NEW p \in Pages, OpenPage(p) PROVE TypeOK'
  <2>1. page' \in [Pages -> PageType]
    BY <1>0, <1>4 DEF OpenPage, PageType
  <2>2. routes' \in Seq(Route)
    BY <1>0, <1>4, Pushed, RouteTypes DEF OpenPage
  <2>3. QED
    BY <1>0, <1>4, <2>1, <2>2, TypeFrom DEF OpenPage
<1>5. ASSUME NEW p \in Pages, UpdateNow(p) PROVE TypeOK'
  <2>1. page' \in [Pages -> PageType]
    BY <1>0, <1>5 DEF UpdateNow, PageType
  <2>2. Front(routes) \in Seq(Route)
    BY <1>0, <1>5, TopOf, SubSeqProperties DEF UpdateNow, Front
  <2>3. routes' \in Seq(Route)
    BY <1>5, <2>2, RouteTypes, AppendProperties DEF UpdateNow
  <2>4. QED
    BY <1>0, <1>5, <2>1, <2>3, TypeFrom DEF UpdateNow
<1>6. ASSUME NEW p \in Pages, CheckForUpdates(p) PROVE TypeOK'
  <2>1. page' \in [Pages -> PageType]
    BY <1>0, <1>6 DEF CheckForUpdates, PageType
  <2>2. QED
    BY <1>0, <1>6, <2>1, TypeFrom DEF CheckForUpdates
<1>7. ASSUME NEW p \in Pages, CheckAnswers(p) PROVE TypeOK'
  <2>1. page' \in [Pages -> PageType]
    <3>1. PICK c \in Outcomes : page' = [page EXCEPT ![p].check = c]
      BY <1>7 DEF CheckAnswers
    <3>2. c \in {"none", "checking", "found"}
      BY <3>1, OutcomesType
    <3>3. QED
      BY <1>0, <3>1, <3>2 DEF PageType
  <2>2. QED
    BY <1>0, <1>7, <2>1, TypeFrom DEF CheckAnswers
<1>8. ASSUME NEW p \in Pages, Cancel(p) PROVE TypeOK'
  <2>1. routes' \in Seq(Route)
    BY <1>0, <1>8, Popped DEF Cancel, OnTop
  <2>2. cancelled' \in SUBSET Downloads
    <3>1. page[p].token \in Downloads \cup {None}
      BY <1>0 DEF PageType
    <3>2. QED
      BY <1>0, <1>8, <3>1 DEF Cancel
  <2>3. declined' \in [Downloads -> Running \cup {"no"}]
    <3>1. \A d \in UnderWay(p) : download[d].pc \in Running
      BY DEF UnderWay
    <3>2. QED
      BY <1>0, <1>8, <3>1 DEF Cancel
  <2>4. QED
    BY <1>0, <1>8, <2>1, <2>2, <2>3, TypeFrom DEF Cancel
<1>9. ASSUME NEW p \in Pages, NEW d \in Downloads, DownloadUpdate(d, p) PROVE TypeOK'
  <2>1. page' \in [Pages -> PageType]
    BY <1>0, <1>9 DEF DownloadUpdate, PageType
  <2>2. download' \in [Downloads -> DownloadType]
    BY <1>0, <1>9 DEF DownloadUpdate, DownloadType, Running
  <2>3. joined' \in SUBSET Downloads
    BY <1>0, <1>9 DEF DownloadUpdate, UnderWay
  <2>4. QED
    BY <1>0, <1>9, <2>1, <2>2, <2>3, TypeFrom DEF DownloadUpdate
<1>10. ASSUME NEW d \in Downloads, PermissionRefused(d) PROVE TypeOK'
  BY <1>0, <1>10, FinallyType, TypeFrom DEF PermissionRefused
<1>11. ASSUME NEW d \in Downloads, PermissionGranted(d) PROVE TypeOK'
  <2>1. PICK p : p = download[d].page
    OBVIOUS
  <2>2. CASE Mounted(p)
    <3>1. p \in Pages
      BY <1>0, <2>2, MountedIsThere
    <3>2. routes' \in Seq(Route)
      BY <1>0, <1>11, <2>1, <2>2, <3>1, Pushed, RouteTypes DEF PermissionGranted
    <3>3. page[p].token \in Downloads \cup {None}
      BY <1>0, <3>1 DEF PageType
    <3>4. download' \in [Downloads -> DownloadType]
      BY <1>0, <1>11, <2>1, <2>2, <3>3 DEF PermissionGranted, TokenOf, DownloadType, Running
    <3>5. QED
      BY <1>0, <1>11, <2>1, <2>2, <3>2, <3>4, TypeFrom DEF PermissionGranted
  <2>3. CASE ~Mounted(p)
    BY <1>0, <1>11, <2>1, <2>3, FinallyType, TypeFrom DEF PermissionGranted
  <2>4. QED
    BY <2>2, <2>3
<1>12. ASSUME NEW d \in Downloads, DownloadFails(d) PROVE TypeOK'
  BY <1>0, <1>12, HideType, FinallyType, TypeFrom DEF DownloadFails
<1>13. ASSUME NEW d \in Downloads, TransferEnds(d) PROVE TypeOK'
  <2>1. download' \in [Downloads -> DownloadType]
    BY <1>0, <1>13 DEF TransferEnds, DownloadType, Running
  <2>2. QED
    BY <1>0, <1>13, <2>1, TypeFrom DEF TransferEnds
<1>14. ASSUME NEW d \in Downloads, Verified(d) PROVE TypeOK'
  <2>1. routes' \in Seq(Route)
    BY <1>14, HideType DEF Verified
  <2>2. page' \in [Pages -> PageType] /\ download' \in [Downloads -> DownloadType]
    <3>1. CASE Mounted(download[d].page)
      BY <1>0, <1>14, <3>1 DEF Verified, DownloadType, Running
    <3>2. CASE ~Mounted(download[d].page)
      BY <1>14, <3>2, FinallyType DEF Verified
    <3>3. QED
      BY <3>1, <3>2
  <2>3. QED
    BY <1>0, <1>14, <2>1, <2>2, TypeFrom DEF Verified
<1>15. ASSUME NEW d \in Downloads, InstallEnds(d) PROVE TypeOK'
  BY <1>0, <1>15, FinallyType, TypeFrom DEF InstallEnds
<1>16. QED
  BY <1>1, <1>2, <1>3, <1>4, <1>5, <1>6, <1>7, <1>8, <1>9, <1>10, <1>11, <1>12,
     <1>13, <1>14, <1>15 DEF Next

\* The routes, the pages, the downloads and their tokens keep their types.
THEOREM TypeCorrect == Spec => []TypeOK
<1>1. TypeOK /\ UNCHANGED vars => TypeOK'
  BY DEF TypeOK, vars
<1>2. QED
  BY <1>1, InitType, NextType, PTL DEF Spec

-----------------------------------------------------------------------------
(* A download that runs alone *)

\* It holds the token of its page, and transfers with it.
AloneHoldsToken ==
    \A p \in Pages : \A d \in UnderWay(p) \ joined :
      /\ \A e \in UnderWay(p) : e = d
      /\ page[p].token = d
      /\ download[d].pc \in {"transfer", "verify"} => download[d].token = d

\* Declined during its transfer, it is over or stuck with a cancelled token.
DeclinedIsCancelled ==
    \A d \in Downloads :
      declined[d] = "transfer" =>
        \/ download[d].pc = "over"
        \/ download[d].pc = "transfer" /\ download[d].token \in cancelled

CancelInv == AloneHoldsToken /\ DeclinedIsCancelled

\* The end of a call frees the token of no other that runs alone.
LEMMA EndsAlone ==
    ASSUME TypeOK, AloneHoldsToken, NEW d \in Downloads, download[d].pc \in Running,
           Finally(d), UNCHANGED joined
    PROVE  AloneHoldsToken'
<1>1. /\ download'[d].pc = "over"
      /\ \A e \in Downloads \ {d} : download'[e] = download[e]
  BY DEF Finally, TypeOK
<1>2. \A p \in Pages : p # download[d].page => page'[p] = page[p]
  BY DEF Finally, TypeOK
<1>3. SUFFICES ASSUME NEW p \in Pages, NEW e \in UnderWay(p)', e \notin joined'
               PROVE  /\ \A f \in UnderWay(p)' : f = e
                      /\ page'[p].token = e
                      /\ download'[e].pc \in {"transfer", "verify"}
                           => download'[e].token = e
  BY DEF AloneHoldsToken
<1>4. e # d /\ e \in UnderWay(p) \ joined /\ download'[e] = download[e]
  BY <1>1, <1>3 DEF UnderWay, Running
<1>5. d \notin UnderWay(p)
  BY <1>4 DEF AloneHoldsToken
<1>6. p # download[d].page
  BY <1>5 DEF UnderWay
<1>7. UnderWay(p)' \subseteq UnderWay(p)
  BY <1>1 DEF UnderWay, Running
<1>8. QED
  BY <1>2, <1>4, <1>6, <1>7 DEF AloneHoldsToken

\* A call that goes on, with its page's token if it is the one to take it.
LEMMA GoesOnAlone ==
    ASSUME TypeOK, AloneHoldsToken, NEW d \in Downloads, download[d].pc \in Running,
           UNCHANGED <<page, joined>>,
           \A e \in Downloads \ {d} : download'[e] = download[e],
           download'[d].pc \in Running, download'[d].page = download[d].page,
           \/ download'[d].token = page[download[d].page].token
           \/ /\ download'[d].token = download[d].token
              /\ download[d].pc \in {"transfer", "verify"}
    PROVE  AloneHoldsToken'
<1>1. \A p : UnderWay(p)' = UnderWay(p)
  BY DEF UnderWay
<1>2. SUFFICES ASSUME NEW p \in Pages, NEW e \in UnderWay(p)', e \notin joined'
               PROVE  /\ \A f \in UnderWay(p)' : f = e
                      /\ page'[p].token = e
                      /\ download'[e].pc \in {"transfer", "verify"}
                           => download'[e].token = e
  BY DEF AloneHoldsToken
<1>3. /\ e \in UnderWay(p) \ joined
      /\ \A f \in UnderWay(p) : f = e
      /\ page[p].token = e
      /\ download[e].pc \in {"transfer", "verify"} => download[e].token = e
  BY <1>1, <1>2 DEF AloneHoldsToken
<1>4. e = d => download[d].page = p
  BY <1>3 DEF UnderWay
<1>5. e \in Downloads
  BY <1>3 DEF UnderWay
<1>6. QED
  BY <1>1, <1>3, <1>4, <1>5

\* A step that changes no token, no call and no page of one.
LEMMA StaysAlone ==
    ASSUME AloneHoldsToken, UNCHANGED <<download, joined>>,
           \A p \in Pages : page'[p].token = page[p].token
    PROVE  AloneHoldsToken'
  BY DEF AloneHoldsToken, UnderWay

LEMMA StartsAlone ==
    ASSUME TypeOK, AloneHoldsToken, NEW p \in Pages, NEW d \in Downloads,
           DownloadUpdate(d, p)
    PROVE  AloneHoldsToken'
<1>1. /\ download[d].pc = "unused"
      /\ download'[d].pc = "asking" /\ download'[d].page = p
      /\ \A e \in Downloads \ {d} : download'[e] = download[e]
      /\ page'[p].token = d
      /\ \A q \in Pages \ {p} : page'[q] = page[q]
  BY DEF DownloadUpdate, TypeOK
<1>2. /\ \A q : d \notin UnderWay(q)
      /\ UnderWay(p)' = UnderWay(p) \cup {d}
      /\ \A q \in Pages \ {p} : UnderWay(q)' = UnderWay(q)
  BY <1>1 DEF UnderWay, Running
<1>3. SUFFICES ASSUME NEW q \in Pages, NEW e \in UnderWay(q)', e \notin joined'
               PROVE  /\ \A f \in UnderWay(q)' : f = e
                      /\ page'[q].token = e
                      /\ download'[e].pc \in {"transfer", "verify"}
                           => download'[e].token = e
  BY DEF AloneHoldsToken
<1>4. CASE q = p
  <2>1. UnderWay(p) = {}
    BY <1>2, <1>3, <1>4 DEF DownloadUpdate
  <2>2. QED
    BY <1>1, <1>2, <1>3, <1>4, <2>1
<1>5. CASE q # p
  <2>1. e \in UnderWay(q) \ joined
    BY <1>2, <1>3, <1>5 DEF DownloadUpdate
  <2>2. e \in Downloads \ {d}
    BY <1>2, <2>1 DEF UnderWay
  <2>3. QED
    BY <1>1, <1>2, <1>5, <2>1, <2>2 DEF AloneHoldsToken
<1>6. QED
  BY <1>4, <1>5

LEMMA NextAlone ==
    ASSUME TypeOK, AloneHoldsToken, Next
    PROVE  AloneHoldsToken'
<1>0. page \in [Pages -> PageType] /\ download \in [Downloads -> DownloadType]
  BY DEF TypeOK, PageType, DownloadType
<1>1. CASE OpenSettings \/ HomeCheckAnswers \/ Back
  BY <1>1, StaysAlone DEF OpenSettings, HomeCheckAnswers, Back
<1>2. ASSUME NEW p \in Pages,
             OpenPage(p) \/ UpdateNow(p) \/ CheckForUpdates(p) \/ CheckAnswers(p) \/ Cancel(p)
      PROVE  AloneHoldsToken'
  <2>1. UNCHANGED <<download, joined>>
    BY <1>2 DEF OpenPage, UpdateNow, CheckForUpdates, CheckAnswers, Cancel
  <2>2. \A q \in Pages : page'[q].token = page[q].token
    BY <1>0, <1>2 DEF OpenPage, UpdateNow, CheckForUpdates, CheckAnswers, Cancel, PageType
  <2>3. QED
    BY <2>1, <2>2, StaysAlone
<1>3. ASSUME NEW p \in Pages, NEW d \in Downloads, DownloadUpdate(d, p)
      PROVE  AloneHoldsToken'
  BY <1>3, StartsAlone
<1>4. ASSUME NEW d \in Downloads, PermissionRefused(d) \/ InstallEnds(d) \/ DownloadFails(d)
      PROVE  AloneHoldsToken'
  BY <1>4, EndsAlone DEF PermissionRefused, InstallEnds, DownloadFails, Running
<1>5. ASSUME NEW d \in Downloads, PermissionGranted(d) PROVE AloneHoldsToken'
  <2>1. CASE Mounted(download[d].page)
    <3>1. /\ download[d].pc = "asking" /\ UNCHANGED <<page, joined>>
          /\ download'[d].pc = "transfer" /\ download'[d].page = download[d].page
          /\ download'[d].token = page[download[d].page].token
          /\ \A e \in Downloads \ {d} : download'[e] = download[e]
      BY <1>0, <1>5, <2>1 DEF PermissionGranted, TokenOf, DownloadType
    <3>2. QED
      BY <3>1, GoesOnAlone DEF Running
  <2>2. CASE ~Mounted(download[d].page)
    BY <1>5, <2>2, EndsAlone DEF PermissionGranted, Running
  <2>3. QED
    BY <2>1, <2>2
<1>6. ASSUME NEW d \in Downloads, TransferEnds(d) PROVE AloneHoldsToken'
  <2>1. /\ download[d].pc = "transfer" /\ UNCHANGED <<page, joined>>
        /\ download'[d].pc = "verify" /\ download'[d].page = download[d].page
        /\ download'[d].token = download[d].token
        /\ \A e \in Downloads \ {d} : download'[e] = download[e]
    BY <1>0, <1>6 DEF TransferEnds, DownloadType
  <2>2. QED
    BY <2>1, GoesOnAlone DEF Running
<1>7. ASSUME NEW d \in Downloads, Verified(d) PROVE AloneHoldsToken'
  <2>1. CASE Mounted(download[d].page)
    <3>1. /\ download[d].pc = "verify" /\ UNCHANGED <<page, joined>>
          /\ download'[d].pc = "install" /\ download'[d].page = download[d].page
          /\ download'[d].token = download[d].token
          /\ \A e \in Downloads \ {d} : download'[e] = download[e]
      BY <1>0, <1>7, <2>1 DEF Verified, DownloadType
    <3>2. QED
      BY <3>1, GoesOnAlone DEF Running
  <2>2. CASE ~Mounted(download[d].page)
    BY <1>7, <2>2, EndsAlone DEF Verified, Running
  <2>3. QED
    BY <2>1, <2>2
<1>8. QED
  BY <1>1, <1>2, <1>3, <1>4, <1>5, <1>6, <1>7 DEF Next

LEMMA NextDeclined ==
    ASSUME TypeOK, CancelInv, Next
    PROVE  DeclinedIsCancelled'
<1>0. page \in [Pages -> PageType] /\ download \in [Downloads -> DownloadType]
  BY DEF TypeOK, PageType, DownloadType
<1>a. ASSUME UNCHANGED <<download, cancelled, declined>> PROVE DeclinedIsCancelled'
  BY <1>a DEF CancelInv, DeclinedIsCancelled
<1>b. ASSUME NEW d \in Downloads, UNCHANGED <<cancelled, declined>>,
             \A e \in Downloads \ {d} : download'[e] = download[e],
             \/ download'[d].pc = "over"
             \/ download[d].pc \in {"unused", "asking", "verify"}
             \/ download[d].pc = "transfer" /\ download[d].token \notin cancelled
      PROVE  DeclinedIsCancelled'
  BY <1>b DEF CancelInv, DeclinedIsCancelled
<1>1. CASE OpenSettings \/ HomeCheckAnswers \/ Back
  BY <1>1, <1>a DEF OpenSettings, HomeCheckAnswers, Back
<1>2. ASSUME NEW p \in Pages,
             OpenPage(p) \/ UpdateNow(p) \/ CheckForUpdates(p) \/ CheckAnswers(p)
      PROVE  DeclinedIsCancelled'
  BY <1>2, <1>a DEF OpenPage, UpdateNow, CheckForUpdates, CheckAnswers
<1>3. ASSUME NEW p \in Pages, Cancel(p) PROVE DeclinedIsCancelled'
  <2>1. UNCHANGED <<download, page>> /\ cancelled \subseteq cancelled'
        /\ page[p].token \in cancelled' \cup {None}
    BY <1>3 DEF Cancel
  <2>2. SUFFICES ASSUME NEW d \in Downloads, declined'[d] = "transfer"
                 PROVE  \/ download[d].pc = "over"
                        \/ download[d].pc = "transfer" /\ download[d].token \in cancelled'
    BY <2>1 DEF DeclinedIsCancelled
  <2>3. CASE d \in UnderWay(p) \ joined
    <3>1. download[d].pc = "transfer"
      BY <1>3, <2>2, <2>3 DEF Cancel
    <3>2. download[d].token = d /\ page[p].token = d
      BY <2>3, <3>1 DEF CancelInv, AloneHoldsToken
    <3>3. d # None
      BY NoneAssumption DEF NoneAssumption
    <3>4. QED
      BY <2>1, <3>1, <3>2, <3>3
  <2>4. CASE d \notin UnderWay(p) \ joined
    BY <1>3, <2>1, <2>2, <2>4 DEF Cancel, CancelInv, DeclinedIsCancelled
  <2>5. QED
    BY <2>3, <2>4
<1>4. ASSUME NEW p \in Pages, NEW d \in Downloads, DownloadUpdate(d, p)
      PROVE  DeclinedIsCancelled'
  <2>1. \A e \in Downloads \ {d} : download'[e] = download[e]
    BY <1>0, <1>4 DEF DownloadUpdate
  <2>2. QED
    BY <1>4, <2>1, <1>b DEF DownloadUpdate
<1>5. ASSUME NEW d \in Downloads,
             PermissionRefused(d) \/ InstallEnds(d) \/ DownloadFails(d)
      PROVE  DeclinedIsCancelled'
  <2>1. download'[d].pc = "over" /\ \A e \in Downloads \ {d} : download'[e] = download[e]
    BY <1>0, <1>5 DEF PermissionRefused, InstallEnds, DownloadFails, Finally, DownloadType
  <2>2. QED
    BY <1>5, <2>1, <1>b DEF PermissionRefused, InstallEnds, DownloadFails
<1>6. ASSUME NEW d \in Downloads, PermissionGranted(d) \/ TransferEnds(d) \/ Verified(d)
      PROVE  DeclinedIsCancelled'
  <2>1. \A e \in Downloads \ {d} : download'[e] = download[e]
    BY <1>0, <1>6 DEF PermissionGranted, TransferEnds, Verified, Finally
  <2>2. QED
    BY <1>6, <2>1, <1>b DEF PermissionGranted, TransferEnds, Verified
<1>7. QED
  BY <1>1, <1>2, <1>3, <1>4, <1>5, <1>6 DEF Next

\* A download that runs alone and is cancelled before its last byte is never
\* installed, however many pages and downloads there are.
THEOREM CancelIsKept == Spec => []CancelInTimeIsKept
<1>1. Init => CancelInv
  BY DEF Init, CancelInv, AloneHoldsToken, DeclinedIsCancelled, UnderWay, Running
<1>2. TypeOK /\ CancelInv /\ [Next]_vars => CancelInv'
  <2>1. ASSUME TypeOK, CancelInv, Next PROVE CancelInv'
    BY <2>1, NextAlone, NextDeclined DEF CancelInv
  <2>2. ASSUME CancelInv, UNCHANGED vars PROVE CancelInv'
    BY <2>2 DEF vars, CancelInv, AloneHoldsToken, DeclinedIsCancelled, UnderWay
  <2>3. QED
    BY <2>1, <2>2
<1>3. CancelInv => CancelInTimeIsKept
  BY DEF CancelInv, DeclinedIsCancelled, CancelInTimeIsKept
<1>4. QED
  BY <1>1, <1>2, <1>3, TypeCorrect, PTL DEF Spec

-----------------------------------------------------------------------------
(* Whose download a token stops *)

\* A page's token is of a call of that page, and so is the token a call was given.
TokensFit ==
    /\ \A p \in Pages : page[p].token # None =>
         download[page[p].token].pc # "unused" /\ download[page[p].token].page = p
    /\ \A d \in Downloads : download[d].token # None =>
         /\ download[d].pc # "unused"
         /\ download[download[d].token].pc # "unused"
         /\ download[download[d].token].page = download[d].page

\* Nothing is given a token: the calls go on or end, the pages keep theirs or lose it.
LEMMA TokensKept ==
    ASSUME TypeOK, TokensFit,
           \A p \in Pages : page'[p].token \in {None, page[p].token},
           \A d \in Downloads : /\ download'[d].page = download[d].page
                                /\ download'[d].token = download[d].token
                                /\ download[d].pc # "unused" => download'[d].pc # "unused"
    PROVE  TokensFit'
<1>1. /\ \A p \in Pages : page[p].token \in Downloads \cup {None}
      /\ \A d \in Downloads : download[d].token \in Downloads \cup {None}
  BY DEF TypeOK
<1>2. QED
  BY <1>1 DEF TokensFit

LEMMA EndDropsTokens ==
    ASSUME TypeOK, TokensFit, NEW d \in Downloads, download[d].pc # "unused", Finally(d)
    PROVE  TokensFit'
<1>0. page \in [Pages -> PageType] /\ download \in [Downloads -> DownloadType]
  BY DEF TypeOK, PageType, DownloadType
<1>1. \A p \in Pages : page'[p].token \in {None, page[p].token}
  BY <1>0 DEF Finally, PageType
<1>2. \A e \in Downloads : /\ download'[e].page = download[e].page
                           /\ download'[e].token = download[e].token
                           /\ download[e].pc # "unused" => download'[e].pc # "unused"
  BY <1>0 DEF Finally, DownloadType
<1>3. QED
  BY <1>1, <1>2, TokensKept

LEMMA GoingOnKeepsTokens ==
    ASSUME TypeOK, TokensFit, NEW d \in Downloads, NEW to \in Running,
           download' = [download EXCEPT ![d].pc = to], UNCHANGED page
    PROVE  TokensFit'
<1>0. download \in [Downloads -> DownloadType]
  BY DEF TypeOK, DownloadType
<1>1. \A e \in Downloads : /\ download'[e].page = download[e].page
                           /\ download'[e].token = download[e].token
                           /\ download[e].pc # "unused" => download'[e].pc # "unused"
  BY <1>0 DEF DownloadType, Running
<1>2. QED
  BY <1>1, TokensKept

LEMMA StartFitsTokens ==
    ASSUME TypeOK, TokensFit, NEW d \in Downloads, NEW p \in Pages, DownloadUpdate(d, p)
    PROVE  TokensFit'
<1>0. /\ page \in [Pages -> PageType] /\ download \in [Downloads -> DownloadType]
      /\ None \notin Downloads
  BY NoneAssumption DEF TypeOK, PageType, DownloadType
<1>1. /\ page'[p].token = d
      /\ \A q \in Pages \ {p} : page'[q].token = page[q].token
  BY <1>0 DEF DownloadUpdate, PageType
<1>2. /\ download'[d].pc = "asking" /\ download'[d].page = p
      /\ download'[d].token = download[d].token
      /\ \A e \in Downloads \ {d} : download'[e] = download[e]
  BY <1>0 DEF DownloadUpdate, DownloadType
<1>3. download[d].pc = "unused" /\ download[d].token = None
  BY DEF DownloadUpdate, TokensFit
<1>4. /\ \A q \in Pages : page[q].token \in Downloads \cup {None}
      /\ \A e \in Downloads : download[e].token \in Downloads \cup {None}
  BY <1>0 DEF PageType, DownloadType
<1>5. ASSUME NEW q \in Pages, page'[q].token # None
      PROVE  /\ download'[page'[q].token].pc # "unused"
             /\ download'[page'[q].token].page = q
  BY <1>1, <1>2, <1>3, <1>4, <1>5 DEF TokensFit
<1>6. ASSUME NEW e \in Downloads, download'[e].token # None
      PROVE  /\ download'[e].pc # "unused"
             /\ download'[download'[e].token].pc # "unused"
             /\ download'[download'[e].token].page = download'[e].page
  <2>1. e # d /\ download'[e] = download[e] /\ download[e].token # d
    BY <1>2, <1>3, <1>6 DEF TokensFit
  <2>2. download'[download[e].token] = download[download[e].token]
    BY <1>2, <1>4, <1>6, <2>1
  <2>3. QED
    BY <1>6, <2>1, <2>2 DEF TokensFit
<1>7. QED
  BY <1>5, <1>6 DEF TokensFit

LEMMA GrantFitsTokens ==
    ASSUME TypeOK, TokensFit, NEW d \in Downloads, PermissionGranted(d)
    PROVE  TokensFit'
<1>0. /\ page \in [Pages -> PageType] /\ download \in [Downloads -> DownloadType]
      /\ routes \in Seq(Route)
  BY DEF TypeOK, PageType, DownloadType
<1>1. CASE ~Mounted(download[d].page)
  BY <1>1, EndDropsTokens DEF PermissionGranted
<1>2. CASE Mounted(download[d].page)
  <2>1. PICK p \in Pages : p = download[d].page
    BY <1>0, <1>2, MountedIsThere
  <2>2. page[p].token \in Downloads \cup {None}
    BY <1>0, <2>1 DEF PageType
  <2>3. /\ download'[d].pc = "transfer" /\ download'[d].page = p
        /\ download'[d].token = page[p].token
        /\ \A e \in Downloads \ {d} : download'[e] = download[e]
        /\ UNCHANGED page
    BY <1>0, <1>2, <2>1, <2>2 DEF PermissionGranted, TokenOf, DownloadType
  <2>4. /\ \A e \in Downloads : download'[e].page = download[e].page
        /\ \A e \in Downloads : download[e].pc # "unused" => download'[e].pc # "unused"
    BY <2>1, <2>3
  <2>5. /\ \A q \in Pages : page[q].token \in Downloads \cup {None}
        /\ \A e \in Downloads : download[e].token \in Downloads \cup {None}
    BY <1>0 DEF PageType, DownloadType
  <2>6. ASSUME NEW q \in Pages, page'[q].token # None
        PROVE  /\ download'[page'[q].token].pc # "unused"
               /\ download'[page'[q].token].page = q
    BY <2>3, <2>4, <2>5, <2>6 DEF TokensFit
  <2>7. ASSUME NEW e \in Downloads, download'[e].token # None
        PROVE  /\ download'[e].pc # "unused"
               /\ download'[download'[e].token].pc # "unused"
               /\ download'[download'[e].token].page = download'[e].page
    <3>1. CASE e = d
      BY <2>1, <2>2, <2>3, <2>4, <2>7, <3>1 DEF TokensFit
    <3>2. CASE e # d
      BY <2>3, <2>4, <2>5, <2>7, <3>2 DEF TokensFit
    <3>3. QED
      BY <3>1, <3>2
  <2>8. QED
    BY <2>6, <2>7 DEF TokensFit
<1>3. QED
  BY <1>1, <1>2

LEMMA NextTokens ==
    ASSUME TypeOK, TokensFit, Next
    PROVE  TokensFit'
<1>0. page \in [Pages -> PageType] /\ download \in [Downloads -> DownloadType]
  BY DEF TypeOK, PageType, DownloadType
<1>1. CASE UNCHANGED <<page, download>>
  BY <1>1, TokensKept
<1>2. CASE OpenSettings \/ HomeCheckAnswers \/ Back \/ \E p \in Pages : Cancel(p)
  BY <1>1, <1>2 DEF OpenSettings, HomeCheckAnswers, Back, Cancel
<1>3. ASSUME NEW p \in Pages,
             \/ OpenPage(p) \/ UpdateNow(p) \/ CheckForUpdates(p) \/ CheckAnswers(p)
      PROVE  TokensFit'
  <2>1. \A q \in Pages : page'[q].token = page[q].token
    BY <1>0, <1>3 DEF OpenPage, UpdateNow, CheckForUpdates, CheckAnswers, PageType
  <2>2. UNCHANGED download
    BY <1>3 DEF OpenPage, UpdateNow, CheckForUpdates, CheckAnswers
  <2>3. QED
    BY <2>1, <2>2, TokensKept
<1>4. ASSUME NEW p \in Pages, NEW d \in Downloads, DownloadUpdate(d, p) PROVE TokensFit'
  BY <1>4, StartFitsTokens
<1>5. ASSUME NEW d \in Downloads,
             PermissionRefused(d) \/ DownloadFails(d) \/ InstallEnds(d)
      PROVE  TokensFit'
  BY <1>5, EndDropsTokens DEF PermissionRefused, DownloadFails, InstallEnds
<1>6. ASSUME NEW d \in Downloads, PermissionGranted(d) PROVE TokensFit'
  BY <1>6, GrantFitsTokens
<1>7. ASSUME NEW d \in Downloads, TransferEnds(d) PROVE TokensFit'
  BY <1>7, GoingOnKeepsTokens DEF TransferEnds, Running
<1>8. ASSUME NEW d \in Downloads, Verified(d) PROVE TokensFit'
  <2>1. CASE Mounted(download[d].page)
    BY <1>8, <2>1, GoingOnKeepsTokens DEF Verified, Running
  <2>2. CASE ~Mounted(download[d].page)
    BY <1>8, <2>2, EndDropsTokens DEF Verified
  <2>3. QED
    BY <2>1, <2>2
<1>9. QED
  BY <1>2, <1>3, <1>4, <1>5, <1>6, <1>7, <1>8 DEF Next

\* Only Cancel cancels, and only what its page's token was given to.
LEMMA OnlyCancelCancels ==
    ASSUME TypeOK, TokensFit, [Next]_vars, NEW d \in Downloads,
           download[d].token \in cancelled' \ cancelled
    PROVE  OnTop(Progress(download[d].page))
<1>1. cancelled' # cancelled
  OBVIOUS
<1>2. PICK p \in Pages : Cancel(p)
  BY <1>1 DEF Next, vars, OpenSettings, HomeCheckAnswers, Back, OpenPage, UpdateNow,
              CheckForUpdates, CheckAnswers, DownloadUpdate, PermissionRefused,
              PermissionGranted, DownloadFails, TransferEnds, Verified, InstallEnds
<1>3. download[d].token = page[p].token /\ page[p].token # None
  BY <1>2 DEF Cancel
<1>4. download[d].page = p
  BY <1>3 DEF TokensFit
<1>5. QED
  BY <1>2, <1>4 DEF Cancel

\* A download is stopped from the dialog of its own page or not at all, however many
\* calls share a token and however many pages they were started from.
THEOREM CancelIsItsPages == Spec => CancelStopsItsPageOnly
<1>1. Init => TokensFit
  BY DEF Init, TokensFit
<1>2. TypeOK /\ TokensFit /\ [Next]_vars => TokensFit'
  <2>1. TypeOK /\ TokensFit /\ UNCHANGED vars => TokensFit'
    BY TokensKept DEF vars
  <2>2. QED
    BY <2>1, NextTokens
<1>3. TypeOK /\ TokensFit /\ [Next]_vars =>
        [\A d \in Downloads :
           download[d].token \in cancelled' \ cancelled
             => OnTop(Progress(download[d].page))]_vars
  BY OnlyCancelCancels
<1>4. QED
  BY <1>1, <1>2, <1>3, TypeCorrect, PTL DEF Spec, CancelStopsItsPageOnly

-----------------------------------------------------------------------------
(* The progress dialogs *)

Started == {d \in Downloads : download[d].pc # "unused"}

\* A page is on the stack once; it and those of running downloads were opened.
PagesOpened ==
    /\ \A i \in 1 .. Len(routes), p \in Pages :
         routes[i] = PageRoute(p) =>
           page[p].opened /\ \A j \in 1 .. Len(routes) : routes[j] = PageRoute(p) => j = i
    /\ \A p \in Pages : UnderWay(p) # {} => page[p].opened
    /\ \A d \in Downloads : download[d].pc \in Running => download[d].page \in Pages

\* The dialogs of a page stand right above it and have nothing above them.
DialogsOnTop ==
    \A i \in 1 .. Len(routes), p \in Pages :
      routes[i] = Progress(p) =>
        \E k \in 1 .. i - 1 :
          routes[k] = PageRoute(p) /\ \A j \in k + 1 .. Len(routes) : routes[j] = Progress(p)

\* While a page that is still there downloads, it or its dialog is on top.
RunsOnTop ==
    \A p \in Pages :
      Mounted(p) /\ UnderWay(p) # {} => routes[Len(routes)] \in {PageRoute(p), Progress(p)}

StackInv ==
    /\ IsFiniteSet(Started)
    /\ PagesOpened
    /\ ~covered => DialogsOnTop /\ RunsOnTop
    /\ NoOrphanDialog

LEMMA RoutesDiffer ==
    \A p, q :
      /\ PageRoute(p) # Progress(q) /\ PageRoute(p) # Settings /\ PageRoute(p) # Offer
      /\ Progress(p) # Settings /\ Progress(p) # Offer
      /\ PageRoute(p) = PageRoute(q) => p = q
      /\ Progress(p) = Progress(q) => p = q
  BY DEF PageRoute, Progress, Settings, Offer

LEMMA Replaced ==
    ASSUME routes \in Seq(Route), routes # <<>>, NEW r \in Route,
           routes' = Append(Front(routes), r)
    PROVE  /\ routes' \in Seq(Route)
           /\ Len(routes') = Len(routes)
           /\ \A i \in 1 .. Len(routes) - 1 : routes'[i] = routes[i]
           /\ routes'[Len(routes)] = r
<1>1. Len(routes) \in Nat \ {0}
  BY NotEmpty
<1>2. PICK m \in Nat : m = Len(routes) - 1
  BY <1>1
<1>3. /\ SubSeq(routes, 1, m) \in Seq(Route)
      /\ Len(SubSeq(routes, 1, m)) = m
      /\ \A i \in 1 .. m : SubSeq(routes, 1, m)[i] = routes[i]
  BY <1>1, <1>2
<1>4. PICK s \in Seq(Route) : s = SubSeq(routes, 1, m)
  BY <1>3
<1>5. routes' = Append(s, r)
  BY <1>2, <1>4 DEF Front
<1>6. /\ Append(s, r) \in Seq(Route)
      /\ Len(Append(s, r)) = Len(s) + 1
      /\ \A i \in 1 .. Len(s) : Append(s, r)[i] = s[i]
      /\ Append(s, r)[Len(s) + 1] = r
  BY AppendProperties
<1>7. QED
  BY <1>1, <1>2, <1>3, <1>4, <1>5, <1>6

-----------------------------------------------------------------------------
(* Counting dialogs and downloads *)

Places(p) == {i \in 1 .. Len(routes) : routes[i] = Progress(p)}

LEMMA CountOfPlaces ==
    ASSUME routes \in Seq(Route), NEW p
    PROVE  Count(Progress(p)) = Cardinality(Places(p)) /\ IsFiniteSet(Places(p))
<1>1. DOMAIN routes = 1 .. Len(routes) /\ Len(routes) \in Nat
  BY LenProperties
<1>2. IsFiniteSet(1 .. Len(routes))
  BY <1>1, FS_Interval
<1>3. IsFiniteSet(Places(p))
  BY <1>2, FS_Subset DEF Places
<1>4. QED
  BY <1>1, <1>3 DEF Count, Places

\* NoOrphanDialog in terms of places, of this state and of the next.
LEMMA OrphanByPlaces ==
    ASSUME routes \in Seq(Route)
    PROVE  NoOrphanDialog <=>
             (~covered => \A p \in Pages :
                            Cardinality(Places(p)) <= Cardinality(Transferring(p)))
  BY CountOfPlaces DEF NoOrphanDialog

LEMMA OrphanByPlacesNext ==
    ASSUME routes' \in Seq(Route)
    PROVE  NoOrphanDialog' <=>
             (~covered' => \A p \in Pages :
                             Cardinality(Places(p)') <= Cardinality(Transferring(p)'))
<1>1. ASSUME NEW p PROVE (Count(Progress(p)))' = Cardinality(Places(p)')
  <2>1. DOMAIN routes' = 1 .. Len(routes')
    BY LenProperties
  <2>2. QED
    BY <2>1 DEF Count, Places
<1>2. QED
  BY <1>1 DEF NoOrphanDialog

LEMMA TransferringFinite ==
    ASSUME IsFiniteSet(Started), NEW p
    PROVE  IsFiniteSet(Transferring(p))
<1>1. Transferring(p) \subseteq Started
  BY DEF Transferring, UnderWay, Started, Running
<1>2. QED
  BY <1>1, FS_Subset

LEMMA TransferringFiniteNext ==
    ASSUME IsFiniteSet(Started'), NEW p
    PROVE  IsFiniteSet(Transferring(p)')
<1>1. Transferring(p)' \subseteq Started'
  BY DEF Transferring, UnderWay, Started, Running
<1>2. QED
  BY <1>1, FS_Subset

\* No new dialog, no download less.
LEMMA NoMoreDialogs ==
    ASSUME IsFiniteSet(Started'), routes \in Seq(Route), NEW p,
           Cardinality(Places(p)) <= Cardinality(Transferring(p)),
           IsFiniteSet(Started),
           Places(p)' \subseteq Places(p), Transferring(p) \subseteq Transferring(p)'
    PROVE  Cardinality(Places(p)') <= Cardinality(Transferring(p)')
<1>1. IsFiniteSet(Places(p))
  BY CountOfPlaces
<1>2. IsFiniteSet(Places(p)') /\ Cardinality(Places(p)') <= Cardinality(Places(p))
  BY <1>1, FS_Subset
<1>3. IsFiniteSet(Transferring(p)')
  BY TransferringFiniteNext
<1>4. IsFiniteSet(Transferring(p)) /\ Cardinality(Transferring(p)) <= Cardinality(Transferring(p)')
  BY <1>3, FS_Subset
<1>5. /\ Cardinality(Places(p)) \in Nat /\ Cardinality(Places(p)') \in Nat
      /\ Cardinality(Transferring(p)) \in Nat /\ Cardinality(Transferring(p)') \in Nat
  BY <1>1, <1>2, <1>3, <1>4, FS_CardinalityType
<1>6. QED
  BY <1>2, <1>4, <1>5

LEMMA PushedPlaces ==
    ASSUME routes \in Seq(Route), NEW r \in Route, Push(r), NEW p
    PROVE  /\ r # Progress(p) => Places(p)' = Places(p)
           /\ r = Progress(p) => Places(p)' = Places(p) \cup {Len(routes) + 1}
<1>1. Len(routes) \in Nat
  BY LenProperties
<1>2. QED
  BY <1>1, Pushed DEF Places

LEMMA PoppedPlaces ==
    ASSUME routes \in Seq(Route), routes # <<>>, Pop, NEW p
    PROVE  Places(p)' = Places(p) \ {Len(routes)}
  BY NotEmpty, Popped DEF Places

LEMMA ReplacedPlaces ==
    ASSUME routes \in Seq(Route), routes # <<>>, NEW q \in Pages,
           routes' = Append(Front(routes), PageRoute(q)), NEW p
    PROVE  Places(p)' \subseteq Places(p)
<1>1. PageRoute(q) \in Route
  BY RouteTypes
<1>2. PageRoute(q) # Progress(p)
  BY RoutesDiffer
<1>3. QED
  BY <1>1, <1>2, NotEmpty, Replaced DEF Places

\* A page that is gone has no dialog up.
LEMMA GoneHasNone ==
    ASSUME routes \in Seq(Route), DialogsOnTop, NEW p \in Pages, ~Mounted(p)
    PROVE  Places(p) = {}
<1>1. SUFFICES ASSUME NEW i \in 1 .. Len(routes), routes[i] = Progress(p)
               PROVE  FALSE
  BY DEF Places
<1>2. PICK k \in 1 .. i - 1 : routes[k] = PageRoute(p)
  BY <1>1 DEF DialogsOnTop
<1>3. k \in 1 .. Len(routes)
  BY <1>2, LenProperties
<1>4. QED
  BY <1>2, <1>3, MountedIsThere

\* A dialog of a page being up, its dialog is on top.
LEMMA DialogIsOnTop ==
    ASSUME routes \in Seq(Route), DialogsOnTop, NEW p \in Pages, Places(p) # {}
    PROVE  routes[Len(routes)] = Progress(p)
<1>1. PICK i \in 1 .. Len(routes) : routes[i] = Progress(p)
  BY DEF Places
<1>2. PICK k \in 1 .. i - 1 : \A j \in k + 1 .. Len(routes) : routes[j] = Progress(p)
  BY <1>1 DEF DialogsOnTop
<1>3. QED
  BY <1>1, <1>2, LenProperties

-----------------------------------------------------------------------------
(* What the moves of the navigator preserve *)

LEMMA PopKeeps ==
    ASSUME routes \in Seq(Route), routes # <<>>, Pop, PagesOpened,
           DialogsOnTop, RunsOnTop, \A p \in Pages : UnderWay(p)' \subseteq UnderWay(p)
    PROVE  DialogsOnTop' /\ RunsOnTop'
<1>0. /\ Len(routes) \in Nat \ {0}
      /\ routes' \in Seq(Route) /\ Len(routes') = Len(routes) - 1
      /\ \A i \in 1 .. Len(routes) - 1 : routes'[i] = routes[i]
  BY NotEmpty, Popped
<1>1. DialogsOnTop'
  <2>1. SUFFICES ASSUME NEW i \in 1 .. Len(routes) - 1, NEW p \in Pages,
                        routes[i] = Progress(p)
                 PROVE  \E k \in 1 .. i - 1 :
                          /\ routes'[k] = PageRoute(p)
                          /\ \A j \in k + 1 .. Len(routes) - 1 : routes'[j] = Progress(p)
    BY <1>0 DEF DialogsOnTop
  <2>2. PICK k \in 1 .. i - 1 : /\ routes[k] = PageRoute(p)
                                /\ \A j \in k + 1 .. Len(routes) : routes[j] = Progress(p)
    BY <1>0, <2>1 DEF DialogsOnTop
  <2>3. routes'[k] = PageRoute(p)
    BY <1>0, <2>1, <2>2
  <2>4. \A j \in k + 1 .. Len(routes) - 1 : routes'[j] = Progress(p)
    BY <1>0, <2>1, <2>2
  <2>5. QED
    BY <2>2, <2>3, <2>4
<1>2. RunsOnTop'
  <2>1. SUFFICES ASSUME NEW p \in Pages, Mounted(p)', UnderWay(p)' # {}
                 PROVE  routes'[Len(routes')] \in {PageRoute(p), Progress(p)}
    BY DEF RunsOnTop
  <2>2. PICK m \in 1 .. Len(routes) - 1 : routes[m] = PageRoute(p)
    <3>1. \E m \in 1 .. Len(routes') : routes'[m] = PageRoute(p)
      BY <1>0, <2>1, LenProperties DEF Mounted, Contains
    <3>2. QED
      BY <1>0, <3>1
  <2>3. Mounted(p)
    BY <1>0, <2>2, MountedIsThere
  <2>4. UnderWay(p) # {}
    BY <2>1
  <2>5. routes[Len(routes)] \in {PageRoute(p), Progress(p)}
    BY <2>3, <2>4 DEF RunsOnTop
  <2>6. routes[Len(routes)] # PageRoute(p)
    BY <1>0, <2>2 DEF PagesOpened
  <2>7. PICK k \in 1 .. Len(routes) - 1 :
               /\ routes[k] = PageRoute(p)
               /\ \A j \in k + 1 .. Len(routes) : routes[j] = Progress(p)
    BY <1>0, <2>5, <2>6 DEF DialogsOnTop
  <2>8. routes[Len(routes) - 1] \in {PageRoute(p), Progress(p)}
    BY <1>0, <2>7
  <2>9. QED
    BY <1>0, <2>2, <2>8
<1>3. QED
  BY <1>1, <1>2

LEMMA SameKeeps ==
    ASSUME UNCHANGED routes, DialogsOnTop, RunsOnTop,
           \A p \in Pages : Mounted(p) => UnderWay(p)' \subseteq UnderWay(p)
    PROVE  DialogsOnTop' /\ RunsOnTop'
<1>1. \A p : Mounted(p)' = Mounted(p)
  BY DEF Mounted
<1>2. DialogsOnTop'
  BY DEF DialogsOnTop
<1>3. RunsOnTop'
  BY <1>1 DEF RunsOnTop
<1>4. QED
  BY <1>2, <1>3

\* A route other than a dialog comes up where nothing that is there downloads.
LEMMA PushKeeps ==
    ASSUME routes \in Seq(Route), NEW r \in Route, Push(r), \A p : r # Progress(p),
           \A p \in Pages : Places(p) = {},
           UNCHANGED download,
           \A p \in Pages : UnderWay(p) = {} \/ (~Mounted(p) /\ r # PageRoute(p))
    PROVE  DialogsOnTop' /\ RunsOnTop'
<1>0. /\ Len(routes) \in Nat
      /\ routes' \in Seq(Route) /\ Len(routes') = Len(routes) + 1
      /\ \A i \in 1 .. Len(routes) : routes'[i] = routes[i]
      /\ routes'[Len(routes) + 1] = r
  BY Pushed, LenProperties
<1>1. DialogsOnTop'
  <2>1. \A i \in 1 .. Len(routes'), p \in Pages : routes'[i] # Progress(p)
    BY <1>0 DEF Places
  <2>2. QED
    BY <2>1 DEF DialogsOnTop
<1>2. RunsOnTop'
  <2>1. SUFFICES ASSUME NEW p \in Pages, Mounted(p)', UnderWay(p)' # {}
                 PROVE  FALSE
    BY DEF RunsOnTop
  <2>2. ~Mounted(p) /\ r # PageRoute(p)
    BY <2>1 DEF UnderWay
  <2>3. \E m \in 1 .. Len(routes') : routes'[m] = PageRoute(p)
    BY <1>0, <2>1, LenProperties DEF Mounted, Contains
  <2>4. \E m \in 1 .. Len(routes) : routes[m] = PageRoute(p)
    BY <1>0, <2>2, <2>3
  <2>5. QED
    BY <2>2, <2>4, MountedIsThere
<1>3. QED
  BY <1>1, <1>2

\* "Update Now": the offer gives way to a new page.
LEMMA ReplaceKeeps ==
    ASSUME routes \in Seq(Route), routes # <<>>, NEW q \in Pages,
           routes' = Append(Front(routes), PageRoute(q)),
           \A p \in Pages : Places(p) = {},
           UNCHANGED download,
           \A p \in Pages : UnderWay(p) = {} \/ (~Mounted(p) /\ q # p)
    PROVE  DialogsOnTop' /\ RunsOnTop'
<1>0. /\ Len(routes) \in Nat \ {0}
      /\ routes' \in Seq(Route) /\ Len(routes') = Len(routes)
      /\ \A i \in 1 .. Len(routes) - 1 : routes'[i] = routes[i]
      /\ routes'[Len(routes)] = PageRoute(q)
  BY NotEmpty, Replaced, RouteTypes
<1>1. DialogsOnTop'
  <2>1. \A i \in 1 .. Len(routes'), p \in Pages : routes'[i] # Progress(p)
    <3>1. \A p : PageRoute(q) # Progress(p)
      BY RoutesDiffer
    <3>2. QED
      BY <1>0, <3>1 DEF Places
  <2>2. QED
    BY <2>1 DEF DialogsOnTop
<1>2. RunsOnTop'
  <2>1. SUFFICES ASSUME NEW p \in Pages, Mounted(p)', UnderWay(p)' # {}
                 PROVE  FALSE
    BY DEF RunsOnTop
  <2>2. ~Mounted(p) /\ q # p
    BY <2>1 DEF UnderWay
  <2>3. \E m \in 1 .. Len(routes') : routes'[m] = PageRoute(p)
    BY <1>0, <2>1, LenProperties DEF Mounted, Contains
  <2>4. PageRoute(q) # PageRoute(p)
    BY <2>2, RoutesDiffer
  <2>5. \E m \in 1 .. Len(routes) : routes[m] = PageRoute(p)
    BY <1>0, <2>3, <2>4
  <2>6. QED
    BY <2>2, <2>5, MountedIsThere
<1>3. QED
  BY <1>1, <1>2

\* The dialog of a download comes up, on its page or on another dialog of it.
LEMMA DialogKeeps ==
    ASSUME routes \in Seq(Route), NEW q \in Pages, Push(Progress(q)), PagesOpened,
           DialogsOnTop, RunsOnTop, Mounted(q), UnderWay(q) # {},
           \A p \in Pages : UnderWay(p)' = UnderWay(p)
    PROVE  DialogsOnTop' /\ RunsOnTop'
<1>0. /\ Len(routes) \in Nat \ {0}
      /\ routes' \in Seq(Route) /\ Len(routes') = Len(routes) + 1
      /\ \A i \in 1 .. Len(routes) : routes'[i] = routes[i]
      /\ routes'[Len(routes) + 1] = Progress(q)
  BY NotEmpty, Pushed, MountedIsThere, RouteTypes
<1>1. routes[Len(routes)] \in {PageRoute(q), Progress(q)}
  BY DEF RunsOnTop
<1>2. PICK k \in 1 .. Len(routes) :
             /\ routes[k] = PageRoute(q)
             /\ \A j \in k + 1 .. Len(routes) : routes[j] = Progress(q)
  <2>1. CASE routes[Len(routes)] = PageRoute(q)
    BY <1>0, <2>1
  <2>2. CASE routes[Len(routes)] = Progress(q)
    BY <1>0, <2>2 DEF DialogsOnTop
  <2>3. QED
    BY <1>1, <2>1, <2>2
<1>3. DialogsOnTop'
  <2>1. SUFFICES ASSUME NEW i \in 1 .. Len(routes) + 1, NEW p \in Pages,
                        routes'[i] = Progress(p)
                 PROVE  \E m \in 1 .. i - 1 :
                          /\ routes'[m] = PageRoute(p)
                          /\ \A j \in m + 1 .. Len(routes) + 1 : routes'[j] = Progress(p)
    BY <1>0 DEF DialogsOnTop
  <2>2. CASE i = Len(routes) + 1
    <3>1. p = q
      BY <1>0, <2>1, <2>2, RoutesDiffer
    <3>2. QED
      BY <1>0, <1>2, <2>2, <3>1
  <2>3. CASE i # Len(routes) + 1
    <3>1. routes[i] = Progress(p)
      BY <1>0, <2>1, <2>3
    <3>2. PICK m \in 1 .. i - 1 :
                 /\ routes[m] = PageRoute(p)
                 /\ \A j \in m + 1 .. Len(routes) : routes[j] = Progress(p)
      BY <1>0, <2>1, <2>3, <3>1 DEF DialogsOnTop
    <3>3. routes[Len(routes)] = Progress(p)
      BY <1>0, <2>1, <2>3, <3>2
    <3>4. p = q
      BY <1>1, <3>3, RoutesDiffer
    <3>5. QED
      BY <1>0, <2>1, <2>3, <3>2, <3>4
  <2>4. QED
    BY <2>2, <2>3
<1>4. RunsOnTop'
  <2>1. SUFFICES ASSUME NEW p \in Pages, Mounted(p)', UnderWay(p) # {}
                 PROVE  p = q
    BY <1>0 DEF RunsOnTop
  <2>2. \E m \in 1 .. Len(routes') : routes'[m] = PageRoute(p)
    BY <1>0, <2>1, LenProperties DEF Mounted, Contains
  <2>3. Progress(q) # PageRoute(p)
    BY RoutesDiffer
  <2>4. Mounted(p)
    BY <1>0, <2>2, <2>3, MountedIsThere
  <2>5. routes[Len(routes)] \in {PageRoute(p), Progress(p)}
    BY <2>1, <2>4 DEF RunsOnTop
  <2>6. QED
    BY <1>1, <2>5, RoutesDiffer
<1>5. QED
  BY <1>3, <1>4

-----------------------------------------------------------------------------
(* What the steps preserve *)

LEMMA NextStarted ==
    ASSUME TypeOK, IsFiniteSet(Started), Next
    PROVE  IsFiniteSet(Started')
<1>1. CASE \E d \in Downloads : Started' \subseteq Started \cup {d}
  <2>1. PICK d \in Downloads : Started' \subseteq Started \cup {d}
    BY <1>1
  <2>2. IsFiniteSet(Started \cup {d})
    BY FS_AddElement
  <2>3. QED
    BY <2>1, <2>2, FS_Subset
<1>2. CASE Started' \subseteq Started
  BY <1>2, FS_Subset
<1>3. ASSUME UNCHANGED download PROVE Started' \subseteq Started
  BY <1>3 DEF Started
<1>4. ASSUME NEW d \in Downloads,
             \A e \in Downloads \ {d} : download'[e] = download[e]
      PROVE  Started' \subseteq Started \cup {d}
  BY <1>4 DEF Started
<1>5. ASSUME OpenSettings \/ HomeCheckAnswers \/ Back
             \/ \E p \in Pages : \/ OpenPage(p) \/ UpdateNow(p) \/ CheckForUpdates(p)
                                 \/ CheckAnswers(p) \/ Cancel(p)
      PROVE  UNCHANGED download
  BY <1>5 DEF OpenSettings, HomeCheckAnswers, Back, OpenPage, UpdateNow,
              CheckForUpdates, CheckAnswers, Cancel
<1>6. ASSUME NEW d \in Downloads,
             \/ \E p \in Pages : DownloadUpdate(d, p)
             \/ PermissionRefused(d) \/ PermissionGranted(d) \/ DownloadFails(d)
             \/ TransferEnds(d) \/ Verified(d) \/ InstallEnds(d)
      PROVE  \A e \in Downloads \ {d} : download'[e] = download[e]
  BY <1>6 DEF DownloadUpdate, PermissionRefused, PermissionGranted, DownloadFails,
              TransferEnds, Verified, InstallEnds, Finally, TypeOK
<1>7. QED
  BY <1>1, <1>2, <1>3, <1>4, <1>5, <1>6 DEF Next

\* Routes and pages of the next state that come from this one.
LEMMA OpenedKept ==
    ASSUME PagesOpened,
           \A p \in Pages : page[p].opened => page'[p].opened,
           \A p \in Pages : UnderWay(p)' # {} => UnderWay(p) # {} \/ page[p].opened,
           \A d \in Downloads : download'[d].pc \in Running => download'[d].page \in Pages,
           \A p \in Pages, i \in 1 .. Len(routes') :
             routes'[i] = PageRoute(p) => i \in 1 .. Len(routes) /\ routes[i] = PageRoute(p)
    PROVE  PagesOpened'
  BY DEF PagesOpened

\* The page that comes up was not opened before.
LEMMA OpenedNew ==
    ASSUME PagesOpened, NEW q \in Pages, ~page[q].opened, page'[q].opened,
           \A p \in Pages : page[p].opened => page'[p].opened,
           UNCHANGED download,
           \A p \in Pages, i \in 1 .. Len(routes') :
             routes'[i] = PageRoute(p) =>
               \/ i \in 1 .. Len(routes) /\ routes[i] = PageRoute(p)
               \/ p = q /\ i = Len(routes')
    PROVE  PagesOpened'
<1>1. /\ \A p \in Pages : UnderWay(p)' # {} => page'[p].opened
      /\ \A d \in Downloads : download'[d].pc \in Running => download'[d].page \in Pages
  BY DEF PagesOpened, UnderWay
<1>2. ASSUME NEW i \in 1 .. Len(routes'), NEW p \in Pages, routes'[i] = PageRoute(p),
             NEW j \in 1 .. Len(routes'), routes'[j] = PageRoute(p)
      PROVE  page'[p].opened /\ i = j
  BY <1>2 DEF PagesOpened
<1>3. QED
  BY <1>1, <1>2 DEF PagesOpened

\* The pages on the stack after a move of the navigator.
LEMMA SameRoutes ==
    ASSUME UNCHANGED routes
    PROVE  \A p \in Pages, i \in 1 .. Len(routes') :
             routes'[i] = PageRoute(p) => i \in 1 .. Len(routes) /\ routes[i] = PageRoute(p)
  OBVIOUS

LEMMA PoppedRoutes ==
    ASSUME routes \in Seq(Route), routes # <<>>, Pop
    PROVE  \A p \in Pages, i \in 1 .. Len(routes') :
             routes'[i] = PageRoute(p) => i \in 1 .. Len(routes) /\ routes[i] = PageRoute(p)
  BY NotEmpty, Popped

LEMMA PushedRoutes ==
    ASSUME routes \in Seq(Route), NEW r \in Route, Push(r), \A p : r # PageRoute(p)
    PROVE  \A p \in Pages, i \in 1 .. Len(routes') :
             routes'[i] = PageRoute(p) => i \in 1 .. Len(routes) /\ routes[i] = PageRoute(p)
  BY Pushed, LenProperties

\* What a download's page is, and that of no other, is what UnderWay goes by.
LEMMA OneMoves ==
    ASSUME NEW d \in Downloads, \A e \in Downloads \ {d} : download'[e] = download[e],
           download[d].pc \in Running, download'[d].page = download[d].page
    PROVE  /\ \A p : UnderWay(p)' \subseteq UnderWay(p)
           /\ download'[d].pc \in Running => \A p : UnderWay(p)' = UnderWay(p)
           /\ \A p : p # download[d].page => Transferring(p)' = Transferring(p)
           /\ \A p : Transferring(p) \ {d} = Transferring(p)' \ {d}
  BY DEF UnderWay, Transferring

\* The rest of StackInv, which the proofs of the steps establish.
StackRest ==
    /\ PagesOpened
    /\ ~covered => DialogsOnTop /\ RunsOnTop
    /\ NoOrphanDialog

LEMMA KeepsCounts ==
    ASSUME routes \in Seq(Route), routes' \in Seq(Route),
           IsFiniteSet(Started), IsFiniteSet(Started'), NoOrphanDialog,
           ~covered' => ~covered,
           \A p \in Pages : /\ Places(p)' \subseteq Places(p)
                            /\ Transferring(p) \subseteq Transferring(p)'
    PROVE  NoOrphanDialog'
<1>1. SUFFICES ASSUME ~covered', NEW p \in Pages
               PROVE  Cardinality(Places(p)') <= Cardinality(Transferring(p)')
  BY OrphanByPlacesNext
<1>2. Cardinality(Places(p)) <= Cardinality(Transferring(p))
  BY <1>1, OrphanByPlaces
<1>3. QED
  BY <1>2, NoMoreDialogs

\* With nothing transferring there is no dialog.
LEMMA NoneToPop ==
    ASSUME routes \in Seq(Route), NoOrphanDialog, ~covered, NEW p \in Pages,
           Transferring(p) = {}
    PROVE  Places(p) = {}
<1>1. Cardinality(Places(p)) <= 0
  BY OrphanByPlaces, FS_EmptySet
<1>2. IsFiniteSet(Places(p)) /\ Cardinality(Places(p)) \in Nat
  BY CountOfPlaces, FS_CardinalityType
<1>3. Cardinality(Places(p)) = 0
  BY <1>1, <1>2
<1>4. QED
  BY <1>2, <1>3, FS_EmptySet

\* The offer, the settings or a page on top: no dialog is up.
LEMMA NoDialogUnder ==
    ASSUME routes \in Seq(Route), DialogsOnTop, NEW r, OnTop(r),
           \A p : r # Progress(p)
    PROVE  \A p \in Pages : Places(p) = {}
  BY DialogIsOnTop, TopOf

\* Nothing that is still there downloads under the settings or the offer.
LEMMA NoRunUnder ==
    ASSUME routes \in Seq(Route), RunsOnTop, NEW r \in {Settings, Offer}, OnTop(r),
           NEW p \in Pages, UnderWay(p) # {}
    PROVE  ~Mounted(p)
  BY TopOf, RoutesDiffer DEF RunsOnTop

LEMMA QuietStack ==
    ASSUME TypeOK, StackInv, TypeOK', IsFiniteSet(Started'),
           UNCHANGED <<routes, download, covered>>,
           \A p \in Pages : page[p].opened => page'[p].opened
    PROVE  StackRest'
<1>1. \A p : UnderWay(p)' = UnderWay(p) /\ Places(p)' = Places(p)
             /\ Transferring(p)' = Transferring(p)
  BY DEF UnderWay, Places, Transferring
<1>2. PagesOpened'
  <2>1. \A d \in Downloads : download'[d].pc \in Running => download'[d].page \in Pages
    BY DEF StackInv, PagesOpened
  <2>2. QED
    BY <1>1, <2>1, SameRoutes, OpenedKept DEF StackInv
<1>3. ~covered' => DialogsOnTop' /\ RunsOnTop'
  BY <1>1, SameKeeps DEF StackInv
<1>4. NoOrphanDialog'
  BY <1>1, KeepsCounts DEF StackInv, TypeOK
<1>5. QED
  BY <1>2, <1>3, <1>4 DEF StackRest

LEMMA SettingsStack ==
    ASSUME TypeOK, StackInv, TypeOK', IsFiniteSet(Started'), OpenSettings
    PROVE  StackRest'
<1>0. routes \in Seq(Route) /\ routes' \in Seq(Route) /\ Push(Settings)
      /\ Len(routes) = 0 /\ UNCHANGED <<page, download, covered>>
  BY DEF OpenSettings, TypeOK
<1>1. \A p : UnderWay(p)' = UnderWay(p) /\ Transferring(p)' = Transferring(p)
             /\ Places(p) = {} /\ Places(p)' = {}
  <2>1. \A p : UnderWay(p)' = UnderWay(p) /\ Transferring(p)' = Transferring(p)
    BY <1>0 DEF UnderWay, Transferring
  <2>2. \A p : Places(p) = {}
    BY <1>0 DEF Places
  <2>3. \A p : Places(p)' = Places(p)
    BY <1>0, PushedPlaces, RouteTypes, RoutesDiffer
  <2>4. QED
    BY <2>1, <2>2, <2>3
<1>2. PagesOpened'
  <2>1. \A d \in Downloads : download'[d].pc \in Running => download'[d].page \in Pages
    BY <1>0 DEF StackInv, PagesOpened
  <2>2. \A p \in Pages, i \in 1 .. Len(routes') :
          routes'[i] = PageRoute(p) => i \in 1 .. Len(routes) /\ routes[i] = PageRoute(p)
    BY <1>0, PushedRoutes, RouteTypes, RoutesDiffer
  <2>3. QED
    BY <1>0, <1>1, <2>1, <2>2, OpenedKept DEF StackInv
<1>3. DialogsOnTop' /\ RunsOnTop'
  <2>1. \A p : ~Mounted(p)
    BY <1>0, MountedIsThere
  <2>2. QED
    BY <1>0, <1>1, <2>1, PushKeeps, RouteTypes, RoutesDiffer
<1>4. NoOrphanDialog'
  BY <1>0, <1>1, KeepsCounts DEF StackInv
<1>5. QED
  BY <1>2, <1>3, <1>4 DEF StackRest

LEMMA OfferStack ==
    ASSUME TypeOK, StackInv, TypeOK', IsFiniteSet(Started'), HomeCheckAnswers
    PROVE  StackRest'
<1>0. routes \in Seq(Route) /\ routes' \in Seq(Route) /\ UNCHANGED <<page, download>>
  BY DEF HomeCheckAnswers, TypeOK
<1>1. CASE UNCHANGED <<routes, covered>>
  BY <1>0, <1>1, QuietStack
<1>2. CASE /\ Push(Offer)
           /\ covered' = (covered \/ \E d \in Downloads : download[d].pc \in Running)
  <2>1. \A p : UnderWay(p)' = UnderWay(p) /\ Transferring(p)' = Transferring(p)
               /\ Places(p)' = Places(p)
    <3>1. \A p : UnderWay(p)' = UnderWay(p) /\ Transferring(p)' = Transferring(p)
      BY <1>0 DEF UnderWay, Transferring
    <3>2. \A p : Places(p)' = Places(p)
      BY <1>0, <1>2, PushedPlaces, RouteTypes, RoutesDiffer
    <3>3. QED
      BY <3>1, <3>2
  <2>2. PagesOpened'
    <3>1. \A d \in Downloads : download'[d].pc \in Running => download'[d].page \in Pages
      BY <1>0 DEF StackInv, PagesOpened
    <3>2. \A p \in Pages, i \in 1 .. Len(routes') :
            routes'[i] = PageRoute(p) => i \in 1 .. Len(routes) /\ routes[i] = PageRoute(p)
      BY <1>0, <1>2, PushedRoutes, RouteTypes, RoutesDiffer
    <3>3. QED
      BY <1>0, <2>1, <3>1, <3>2, OpenedKept DEF StackInv
  <2>3. ASSUME ~covered' PROVE DialogsOnTop' /\ RunsOnTop'
    <3>1. ~covered /\ \A p \in Pages : UnderWay(p) = {} /\ Transferring(p) = {}
      BY <1>2, <2>3 DEF UnderWay, Transferring, TypeOK
    <3>2. \A p \in Pages : Places(p) = {}
      BY <1>0, <3>1, NoneToPop DEF StackInv
    <3>3. QED
      BY <1>0, <1>2, <3>1, <3>2, PushKeeps, RouteTypes, RoutesDiffer
  <2>4. NoOrphanDialog'
    <3>1. ~covered' => ~covered
      BY <1>2 DEF TypeOK
    <3>2. QED
      BY <1>0, <2>1, <3>1, KeepsCounts DEF StackInv
  <2>5. QED
    BY <2>2, <2>3, <2>4 DEF StackRest
<1>3. QED
  BY <1>1, <1>2 DEF HomeCheckAnswers

\* Back, and Cancel, which also pops.
LEMMA BackStack ==
    ASSUME TypeOK, StackInv, TypeOK', IsFiniteSet(Started'),
           routes # <<>>, Pop, UNCHANGED <<page, download, covered>>
    PROVE  StackRest'
<1>0. routes \in Seq(Route) /\ routes' \in Seq(Route)
  BY DEF TypeOK
<1>1. \A p : UnderWay(p)' = UnderWay(p) /\ Transferring(p)' = Transferring(p)
             /\ Places(p)' \subseteq Places(p)
  <2>1. \A p : UnderWay(p)' = UnderWay(p) /\ Transferring(p)' = Transferring(p)
    BY DEF UnderWay, Transferring
  <2>2. \A p : Places(p)' \subseteq Places(p)
    BY <1>0, PoppedPlaces
  <2>3. QED
    BY <2>1, <2>2
<1>2. PagesOpened'
  <2>1. \A d \in Downloads : download'[d].pc \in Running => download'[d].page \in Pages
    BY DEF StackInv, PagesOpened
  <2>2. QED
    BY <1>0, <1>1, <2>1, PoppedRoutes, OpenedKept DEF StackInv
<1>3. ~covered' => DialogsOnTop' /\ RunsOnTop'
  BY <1>0, <1>1, PopKeeps DEF StackInv
<1>4. NoOrphanDialog'
  BY <1>0, <1>1, KeepsCounts DEF StackInv
<1>5. QED
  BY <1>2, <1>3, <1>4 DEF StackRest

LEMMA PageStack ==
    ASSUME TypeOK, StackInv, TypeOK', IsFiniteSet(Started'), NEW q \in Pages,
           OpenPage(q) \/ UpdateNow(q)
    PROVE  StackRest'
<1>0. /\ routes \in Seq(Route) /\ routes' \in Seq(Route)
      /\ ~page[q].opened /\ page'[q].opened
      /\ \A p \in Pages : page[p].opened => page'[p].opened
      /\ UNCHANGED <<download, covered>>
  BY DEF OpenPage, UpdateNow, TypeOK
<1>1. /\ PageRoute(q) \in Route
      /\ \A p : PageRoute(q) # Progress(p)
      /\ \A p \in Pages : p # q => PageRoute(p) # PageRoute(q)
  BY RouteTypes, RoutesDiffer
<1>2. \A p : UnderWay(p)' = UnderWay(p) /\ Transferring(p)' = Transferring(p)
  BY <1>0 DEF UnderWay, Transferring
<1>3. UnderWay(q) = {}
  BY <1>0 DEF StackInv, PagesOpened
<1>4. ASSUME NEW r \in {Settings, Offer}, OnTop(r), ~covered
      PROVE  \A p \in Pages : /\ Places(p) = {}
                              /\ UnderWay(p) = {} \/ (~Mounted(p) /\ p # q)
  <2>1. DialogsOnTop /\ RunsOnTop
    BY <1>4 DEF StackInv
  <2>2. \A p : r # Progress(p)
    BY <1>4, RoutesDiffer
  <2>3. \A p \in Pages : Places(p) = {}
    BY <1>0, <1>4, <2>1, <2>2, NoDialogUnder
  <2>4. \A p \in Pages : UnderWay(p) = {} \/ ~Mounted(p)
    BY <1>0, <1>4, <2>1, NoRunUnder
  <2>5. QED
    BY <1>3, <2>3, <2>4
<1>5. CASE OpenPage(q)
  <2>1. OnTop(Settings) /\ Push(PageRoute(q))
    BY <1>5 DEF OpenPage
  <2>2. ~covered' => DialogsOnTop' /\ RunsOnTop'
    <3>1. SUFFICES ASSUME ~covered PROVE DialogsOnTop' /\ RunsOnTop'
      BY <1>0
    <3>2. \A p \in Pages : /\ Places(p) = {}
                           /\ UnderWay(p) = {} \/ (~Mounted(p) /\ PageRoute(q) # PageRoute(p))
      BY <1>1, <1>4, <2>1, <3>1
    <3>3. QED
      BY <1>0, <1>1, <2>1, <3>2, PushKeeps
  <2>3. PagesOpened'
    <3>1. \A p \in Pages, i \in 1 .. Len(routes') :
            routes'[i] = PageRoute(p) =>
              \/ i \in 1 .. Len(routes) /\ routes[i] = PageRoute(p)
              \/ p = q /\ i = Len(routes')
      BY <1>0, <1>1, <2>1, Pushed, LenProperties
    <3>2. QED
      BY <1>0, <3>1, OpenedNew DEF StackInv
  <2>4. \A p : Places(p)' = Places(p)
    BY <1>0, <1>1, <2>1, PushedPlaces
  <2>5. NoOrphanDialog'
    BY <1>0, <1>2, <2>4, KeepsCounts DEF StackInv
  <2>6. QED
    BY <2>2, <2>3, <2>5 DEF StackRest
<1>6. CASE UpdateNow(q)
  <2>1. OnTop(Offer) /\ routes' = Append(Front(routes), PageRoute(q)) /\ routes # <<>>
    BY <1>6 DEF UpdateNow, OnTop
  <2>2. ~covered' => DialogsOnTop' /\ RunsOnTop'
    <3>1. SUFFICES ASSUME ~covered PROVE DialogsOnTop' /\ RunsOnTop'
      BY <1>0
    <3>2. \A p \in Pages : /\ Places(p) = {}
                           /\ UnderWay(p) = {} \/ (~Mounted(p) /\ q # p)
      BY <1>4, <2>1, <3>1
    <3>3. QED
      BY <1>0, <2>1, <3>2, ReplaceKeeps
  <2>3. PagesOpened'
    <3>1. \A p \in Pages, i \in 1 .. Len(routes') :
            routes'[i] = PageRoute(p) =>
              \/ i \in 1 .. Len(routes) /\ routes[i] = PageRoute(p)
              \/ p = q /\ i = Len(routes')
      BY <1>0, <1>1, <2>1, Replaced, NotEmpty
    <3>2. QED
      BY <1>0, <3>1, OpenedNew DEF StackInv
  <2>4. \A p : Places(p)' \subseteq Places(p)
    BY <1>0, <2>1, ReplacedPlaces
  <2>5. NoOrphanDialog'
    BY <1>0, <1>2, <2>4, KeepsCounts DEF StackInv
  <2>6. QED
    BY <2>2, <2>3, <2>5 DEF StackRest
<1>7. QED
  BY <1>5, <1>6

LEMMA StartStack ==
    ASSUME TypeOK, StackInv, TypeOK', IsFiniteSet(Started'),
           NEW q \in Pages, NEW d \in Downloads, DownloadUpdate(d, q)
    PROVE  StackRest'
<1>0. /\ routes \in Seq(Route) /\ routes' \in Seq(Route) /\ UNCHANGED <<routes, covered>>
      /\ OnTop(PageRoute(q))
      /\ download[d].pc = "unused" /\ download'[d].pc = "asking" /\ download'[d].page = q
      /\ \A e \in Downloads \ {d} : download'[e] = download[e]
      /\ \A p \in Pages : page'[p].opened = page[p].opened
  BY DEF DownloadUpdate, TypeOK
<1>1. /\ \A p : p # q => UnderWay(p)' = UnderWay(p)
      /\ \A p : Transferring(p)' = Transferring(p) /\ Places(p)' = Places(p)
  BY <1>0 DEF UnderWay, Transferring, Places, Running
<1>2. PagesOpened'
  <2>1. page[q].opened
    BY <1>0, TopOf DEF StackInv, PagesOpened
  <2>2. \A e \in Downloads : download'[e].pc \in Running => download'[e].page \in Pages
    BY <1>0 DEF StackInv, PagesOpened
  <2>3. QED
    BY <1>0, <1>1, <2>1, <2>2, SameRoutes, OpenedKept DEF StackInv
<1>3. ~covered' => DialogsOnTop' /\ RunsOnTop'
  <2>1. SUFFICES ASSUME ~covered PROVE DialogsOnTop' /\ RunsOnTop'
    BY <1>0
  <2>2. DialogsOnTop'
    BY <1>0, <2>1 DEF StackInv, DialogsOnTop
  <2>3. RunsOnTop'
    <3>1. \A p : Mounted(p)' = Mounted(p)
      BY <1>0 DEF Mounted
    <3>2. routes'[Len(routes')] = PageRoute(q)
      BY <1>0, TopOf
    <3>3. ASSUME NEW p \in Pages, p # q, Mounted(p)', UnderWay(p)' # {}
          PROVE  routes'[Len(routes')] \in {PageRoute(p), Progress(p)}
      BY <1>0, <1>1, <2>1, <3>1, <3>3 DEF StackInv, RunsOnTop
    <3>4. QED
      BY <3>2, <3>3 DEF RunsOnTop
  <2>4. QED
    BY <2>2, <2>3
<1>4. NoOrphanDialog'
  BY <1>0, <1>1, KeepsCounts DEF StackInv
<1>5. QED
  BY <1>2, <1>3, <1>4 DEF StackRest

\* A call that moves on or ends beside the navigator, and is not one that owes a
\* dialog its end.
LEMMA AsideStack ==
    ASSUME TypeOK, StackInv, TypeOK', IsFiniteSet(Started'), NEW d \in Downloads,
           UNCHANGED <<routes, covered>>,
           \A e \in Downloads \ {d} : download'[e] = download[e],
           download[d].pc \in Running, download'[d].page = download[d].page,
           \/ download[d].pc \notin {"transfer", "verify"}
           \/ download'[d].pc \in {"transfer", "verify"},
           \A p \in Pages : page'[p].opened = page[p].opened
    PROVE  StackRest'
<1>0. routes \in Seq(Route) /\ routes' \in Seq(Route)
  BY DEF TypeOK
<1>1. /\ \A p : UnderWay(p)' \subseteq UnderWay(p)
      /\ \A p : Places(p)' = Places(p)
      /\ \A p : Transferring(p) \subseteq Transferring(p)'
  <2>1. \A p : UnderWay(p)' \subseteq UnderWay(p) /\ Transferring(p) \ {d} = Transferring(p)' \ {d}
    BY OneMoves
  <2>2. \A p : d \in Transferring(p) => d \in Transferring(p)'
    BY DEF Transferring, UnderWay, Running
  <2>3. \A p : Places(p)' = Places(p)
    BY DEF Places
  <2>4. QED
    BY <2>1, <2>2, <2>3
<1>2. PagesOpened'
  <2>1. \A e \in Downloads : download'[e].pc \in Running => download'[e].page \in Pages
    BY DEF StackInv, PagesOpened
  <2>2. QED
    BY <1>1, <2>1, SameRoutes, OpenedKept DEF StackInv
<1>3. ~covered' => DialogsOnTop' /\ RunsOnTop'
  BY <1>1, SameKeeps DEF StackInv
<1>4. NoOrphanDialog'
  BY <1>0, <1>1, KeepsCounts DEF StackInv
<1>5. QED
  BY <1>2, <1>3, <1>4 DEF StackRest

LEMMA GrantedStack ==
    ASSUME TypeOK, StackInv, TypeOK', IsFiniteSet(Started'), NEW d \in Downloads,
           PermissionGranted(d), Mounted(download[d].page)
    PROVE  StackRest'
<1>q. PICK q \in Pages : q = download[d].page
  BY MountedIsThere DEF TypeOK
<1>0. /\ routes \in Seq(Route) /\ routes' \in Seq(Route) /\ UNCHANGED <<page, covered>>
      /\ Push(Progress(q)) /\ Mounted(q)
      /\ download[d].pc = "asking" /\ download[d].page = q
      /\ download'[d].pc = "transfer" /\ download'[d].page = q
      /\ \A e \in Downloads \ {d} : download'[e] = download[e]
  BY <1>q DEF PermissionGranted, TypeOK
<1>1. /\ \A p : UnderWay(p)' = UnderWay(p)
      /\ \A p : p # q => Transferring(p)' = Transferring(p)
      /\ Transferring(q)' = Transferring(q) \cup {d}
      /\ d \in UnderWay(q) /\ d \notin Transferring(q)
  BY <1>0 DEF UnderWay, Transferring, Running
<1>2. /\ Progress(q) \in Route
      /\ \A p : Progress(q) # PageRoute(p)
      /\ \A p : p # q => Progress(q) # Progress(p)
  BY RouteTypes, RoutesDiffer
<1>3. /\ Places(q)' = Places(q) \cup {Len(routes) + 1}
      /\ \A p : p # q => Places(p)' = Places(p)
  BY <1>0, <1>2, PushedPlaces
<1>4. PagesOpened'
  <2>1. \A e \in Downloads : download'[e].pc \in Running => download'[e].page \in Pages
    BY <1>0 DEF StackInv, PagesOpened
  <2>2. \A p \in Pages, i \in 1 .. Len(routes') :
          routes'[i] = PageRoute(p) => i \in 1 .. Len(routes) /\ routes[i] = PageRoute(p)
    BY <1>0, <1>2, PushedRoutes
  <2>3. QED
    BY <1>0, <1>1, <2>1, <2>2, OpenedKept DEF StackInv
<1>5. ~covered' => DialogsOnTop' /\ RunsOnTop'
  BY <1>0, <1>1, DialogKeeps DEF StackInv
<1>6. NoOrphanDialog'
  <2>1. SUFFICES ASSUME ~covered', NEW p \in Pages
                 PROVE  Cardinality(Places(p)') <= Cardinality(Transferring(p)')
    BY <1>0, OrphanByPlacesNext
  <2>2. Cardinality(Places(p)) <= Cardinality(Transferring(p))
    BY <1>0, <2>1, OrphanByPlaces DEF StackInv
  <2>3. CASE p # q
    BY <1>1, <1>3, <2>2, <2>3
  <2>4. CASE p = q
    <3>1. IsFiniteSet(Places(q)) /\ IsFiniteSet(Transferring(q))
      BY <1>0, CountOfPlaces, TransferringFinite DEF StackInv
    <3>2. Len(routes) + 1 \notin Places(q)
      BY <1>0, LenProperties DEF Places
    <3>3. Cardinality(Places(q)') = Cardinality(Places(q)) + 1
      BY <1>3, <3>1, <3>2, FS_AddElement
    <3>4. Cardinality(Transferring(q)') = Cardinality(Transferring(q)) + 1
      BY <1>1, <3>1, FS_AddElement
    <3>5. Cardinality(Places(q)) \in Nat /\ Cardinality(Transferring(q)) \in Nat
      BY <3>1, FS_CardinalityType
    <3>6. QED
      BY <2>2, <2>4, <3>3, <3>4, <3>5
  <2>5. QED
    BY <2>3, <2>4
<1>7. QED
  BY <1>4, <1>5, <1>6 DEF StackRest

\* The end of a transfer or of a verification: its dialog goes, or its page, or
\* there is neither.
LEMMA HiddenStack ==
    ASSUME TypeOK, StackInv, TypeOK', IsFiniteSet(Started'), NEW d \in Downloads,
           download[d].pc \in {"transfer", "verify"},
           IF Mounted(download[d].page) THEN Pop ELSE UNCHANGED routes,
           download'[d].pc \in {"install", "over"}, download'[d].page = download[d].page,
           \A e \in Downloads \ {d} : download'[e] = download[e],
           \A p \in Pages : page'[p].opened = page[p].opened, UNCHANGED covered
    PROVE  StackRest'
<1>q. PICK q \in Pages : q = download[d].page
  BY DEF StackInv, PagesOpened, Running
<1>0. routes \in Seq(Route) /\ routes' \in Seq(Route)
      /\ IF Mounted(q) THEN Pop ELSE UNCHANGED routes
  BY <1>q DEF TypeOK
<1>1. /\ \A p : UnderWay(p)' \subseteq UnderWay(p)
      /\ \A p : p # q => Transferring(p)' = Transferring(p)
      /\ Transferring(q)' = Transferring(q) \ {d}
      /\ d \in UnderWay(q) /\ d \in Transferring(q)
  BY <1>q DEF UnderWay, Transferring, Running
<1>2. Mounted(q) => routes # <<>>
  BY <1>0, MountedIsThere
<1>3. \A p : Places(p)' \subseteq Places(p)
  <2>1. CASE Mounted(q)
    BY <1>0, <1>2, <2>1, PoppedPlaces
  <2>2. CASE ~Mounted(q)
    BY <1>0, <2>2 DEF Places
  <2>3. QED
    BY <2>1, <2>2
<1>4. PagesOpened'
  <2>1. \A e \in Downloads : download'[e].pc \in Running => download'[e].page \in Pages
    BY <1>q DEF StackInv, PagesOpened
  <2>2. \A p \in Pages, i \in 1 .. Len(routes') :
          routes'[i] = PageRoute(p) => i \in 1 .. Len(routes) /\ routes[i] = PageRoute(p)
    <3>1. CASE Mounted(q)
      BY <1>0, <1>2, <3>1, PoppedRoutes
    <3>2. CASE ~Mounted(q)
      BY <1>0, <3>2
    <3>3. QED
      BY <3>1, <3>2
  <2>3. QED
    BY <1>1, <2>1, <2>2, OpenedKept DEF StackInv
<1>5. ~covered' => DialogsOnTop' /\ RunsOnTop'
  <2>1. SUFFICES ASSUME ~covered PROVE DialogsOnTop' /\ RunsOnTop'
    OBVIOUS
  <2>2. CASE Mounted(q)
    BY <1>0, <1>1, <1>2, <2>1, <2>2, PopKeeps DEF StackInv
  <2>3. CASE ~Mounted(q)
    BY <1>0, <1>1, <2>1, <2>3, SameKeeps DEF StackInv
  <2>4. QED
    BY <2>2, <2>3
<1>6. NoOrphanDialog'
  <2>1. SUFFICES ASSUME ~covered', NEW p \in Pages
                 PROVE  Cardinality(Places(p)') <= Cardinality(Transferring(p)')
    BY <1>0, OrphanByPlacesNext
  <2>2. /\ Cardinality(Places(p)) <= Cardinality(Transferring(p))
        /\ DialogsOnTop /\ RunsOnTop
    BY <1>0, <2>1, OrphanByPlaces DEF StackInv
  <2>3. CASE p # q
    BY <1>0, <1>1, <1>3, <2>2, <2>3, NoMoreDialogs DEF StackInv
  <2>4. CASE p = q /\ Places(q) = {}
    <3>1. Places(p)' = {}
      BY <1>3, <2>4
    <3>2. IsFiniteSet(Transferring(p)')
      BY TransferringFiniteNext
    <3>3. Cardinality(Places(p)') = 0 /\ Cardinality(Transferring(p)') \in Nat
      BY <3>1, <3>2, FS_EmptySet, FS_CardinalityType
    <3>4. QED
      BY <3>3
  <2>5. CASE p = q /\ Places(q) # {}
    <3>1. Mounted(q)
      BY <1>0, <2>2, <2>5, GoneHasNone
    <3>2. Len(routes) \in Places(q)
      BY <1>0, <1>2, <2>2, <2>5, <3>1, DialogIsOnTop, NotEmpty DEF Places
    <3>3. Places(q)' = Places(q) \ {Len(routes)}
      BY <1>0, <1>2, <3>1, PoppedPlaces
    <3>4. IsFiniteSet(Places(q)) /\ IsFiniteSet(Transferring(q))
      BY <1>0, CountOfPlaces, TransferringFinite DEF StackInv
    <3>5. /\ Cardinality(Places(q)') = Cardinality(Places(q)) - 1
          /\ Cardinality(Transferring(q)') = Cardinality(Transferring(q)) - 1
      BY <1>1, <3>2, <3>3, <3>4, FS_RemoveElement
    <3>6. Cardinality(Places(q)) \in Nat /\ Cardinality(Transferring(q)) \in Nat
      BY <3>4, FS_CardinalityType
    <3>7. QED
      BY <2>2, <2>5, <3>5, <3>6
  <2>6. QED
    BY <2>3, <2>4, <2>5
<1>7. QED
  BY <1>4, <1>5, <1>6 DEF StackRest

LEMMA NextStack ==
    ASSUME TypeOK, StackInv, Next
    PROVE  StackInv'
<1>0. TypeOK' /\ IsFiniteSet(Started')
  BY NextType, NextStarted DEF StackInv
<1>t. page \in [Pages -> PageType] /\ download \in [Downloads -> DownloadType]
  BY DEF TypeOK, PageType, DownloadType
<1>1. StackRest'
  <2>1. CASE OpenSettings
    BY <1>0, <2>1, SettingsStack
  <2>2. CASE HomeCheckAnswers
    BY <1>0, <2>2, OfferStack
  <2>3. CASE Back
    BY <1>0, <2>3, BackStack DEF Back
  <2>4. ASSUME NEW p \in Pages, OpenPage(p) \/ UpdateNow(p) PROVE StackRest'
    BY <1>0, <2>4, PageStack
  <2>5. ASSUME NEW p \in Pages, CheckForUpdates(p) \/ CheckAnswers(p) PROVE StackRest'
    <3>1. \A q \in Pages : page[q].opened => page'[q].opened
      BY <1>t, <2>5 DEF CheckForUpdates, CheckAnswers, PageType
    <3>2. QED
      BY <1>0, <2>5, <3>1, QuietStack DEF CheckForUpdates, CheckAnswers
  <2>6. ASSUME NEW p \in Pages, Cancel(p) PROVE StackRest'
    BY <1>0, <2>6, BackStack DEF Cancel, OnTop
  <2>7. ASSUME NEW p \in Pages, NEW d \in Downloads, DownloadUpdate(d, p) PROVE StackRest'
    BY <1>0, <2>7, StartStack
  <2>8. ASSUME NEW d \in Downloads, Finally(d)
        PROVE  /\ download'[d].pc = "over" /\ download'[d].page = download[d].page
               /\ \A e \in Downloads \ {d} : download'[e] = download[e]
               /\ \A p \in Pages : page'[p].opened = page[p].opened
    <3>1. \A p \in Pages : page'[p].opened = page[p].opened
      <4>1. PICK q : q = download[d].page
        OBVIOUS
      <4>2. page' = [page EXCEPT ![q].token = None] \/ page' = page
        BY <2>8, <4>1 DEF Finally
      <4>3. QED
        BY <1>t, <4>2 DEF PageType
    <3>2. QED
      BY <1>t, <2>8, <3>1 DEF Finally, DownloadType
  <2>9. ASSUME NEW d \in Downloads, PermissionRefused(d) \/ InstallEnds(d) PROVE StackRest'
    <3>1. /\ download[d].pc \in Running /\ download[d].pc \notin {"transfer", "verify"}
          /\ Finally(d) /\ UNCHANGED <<routes, covered>>
      BY <2>9 DEF PermissionRefused, InstallEnds, Running
    <3>2. /\ download'[d].page = download[d].page
          /\ \A e \in Downloads \ {d} : download'[e] = download[e]
          /\ \A p \in Pages : page'[p].opened = page[p].opened
      BY <2>8, <3>1
    <3>3. QED
      BY <1>0, <3>1, <3>2, AsideStack
  <2>10. ASSUME NEW d \in Downloads, PermissionGranted(d) PROVE StackRest'
    <3>1. CASE Mounted(download[d].page)
      BY <1>0, <2>10, <3>1, GrantedStack
    <3>2. CASE ~Mounted(download[d].page)
      <4>1. /\ download[d].pc \in Running /\ download[d].pc \notin {"transfer", "verify"}
            /\ Finally(d) /\ UNCHANGED <<routes, covered>>
        BY <2>10, <3>2 DEF PermissionGranted, Running
      <4>2. /\ download'[d].page = download[d].page
            /\ \A e \in Downloads \ {d} : download'[e] = download[e]
            /\ \A p \in Pages : page'[p].opened = page[p].opened
        BY <2>8, <4>1
      <4>3. QED
        BY <1>0, <4>1, <4>2, AsideStack
    <3>3. QED
      BY <3>1, <3>2
  <2>11. ASSUME NEW d \in Downloads, TransferEnds(d) PROVE StackRest'
    <3>1. /\ download[d].pc = "transfer" /\ UNCHANGED <<routes, page, covered>>
          /\ download'[d].pc = "verify" /\ download'[d].page = download[d].page
          /\ \A e \in Downloads \ {d} : download'[e] = download[e]
      BY <1>t, <2>11 DEF TransferEnds, DownloadType
    <3>2. QED
      BY <1>0, <3>1, AsideStack DEF Running
  <2>12. ASSUME NEW d \in Downloads, DownloadFails(d) PROVE StackRest'
    <3>1. /\ download[d].pc \in {"transfer", "verify"} /\ Finally(d) /\ UNCHANGED covered
          /\ IF Mounted(download[d].page) THEN Pop ELSE UNCHANGED routes
      BY <2>12 DEF DownloadFails, HideDialog
    <3>2. /\ download'[d].pc = "over" /\ download'[d].page = download[d].page
          /\ \A e \in Downloads \ {d} : download'[e] = download[e]
          /\ \A p \in Pages : page'[p].opened = page[p].opened
      BY <2>8, <3>1
    <3>3. QED
      BY <1>0, <3>1, <3>2, HiddenStack
  <2>13. ASSUME NEW d \in Downloads, Verified(d) PROVE StackRest'
    <3>1. /\ download[d].pc = "verify"
          /\ IF Mounted(download[d].page) THEN Pop ELSE UNCHANGED routes
          /\ download'[d].pc \in {"install", "over"} /\ download'[d].page = download[d].page
          /\ \A e \in Downloads \ {d} : download'[e] = download[e]
          /\ \A p \in Pages : page'[p].opened = page[p].opened
          /\ UNCHANGED covered
      <4>1. CASE Mounted(download[d].page)
        BY <1>t, <2>13, <4>1 DEF Verified, HideDialog, DownloadType
      <4>2. CASE ~Mounted(download[d].page)
        BY <2>8, <2>13, <4>2 DEF Verified, HideDialog
      <4>3. QED
        BY <4>1, <4>2
    <3>2. QED
      BY <1>0, <3>1, HiddenStack
  <2>14. QED
    BY <2>1, <2>2, <2>3, <2>4, <2>5, <2>6, <2>7, <2>9, <2>10, <2>11, <2>12, <2>13 DEF Next
<1>2. QED
  BY <1>0, <1>1 DEF StackInv, StackRest

LEMMA InitStack == Init => StackInv
<1>1. SUFFICES ASSUME Init PROVE StackInv
  OBVIOUS
<1>2. routes = <<>> /\ Len(routes) = 0 /\ routes \in Seq(Route)
  BY <1>1, EmptySeq DEF Init
<1>3. Started = {} /\ \A p : UnderWay(p) = {} /\ Transferring(p) = {}
  BY <1>1 DEF Init, Started, UnderWay, Transferring, Running
<1>4. IsFiniteSet(Started)
  BY <1>3, FS_EmptySet
<1>5. PagesOpened
  BY <1>1, <1>2, <1>3 DEF Init, PagesOpened, Running
<1>6. DialogsOnTop /\ RunsOnTop
  BY <1>2, <1>3 DEF DialogsOnTop, RunsOnTop
<1>7. NoOrphanDialog
  <2>1. \A p : Places(p) = {}
    BY <1>2 DEF Places
  <2>2. \A p : Cardinality(Places(p)) <= Cardinality(Transferring(p))
    BY <1>3, <2>1, FS_EmptySet
  <2>3. QED
    BY <1>2, <2>2, OrphanByPlaces
<1>8. QED
  BY <1>4, <1>5, <1>6, <1>7 DEF StackInv

\* What is about dialogs holds throughout.
LEMMA StackInvariant == Spec => []StackInv
<1>1. TypeOK /\ StackInv /\ [Next]_vars => StackInv'
  <2>1. ASSUME StackInv, UNCHANGED vars PROVE StackInv'
    <3>1. /\ UNCHANGED <<routes, page, download, covered>>
          /\ \A p : UnderWay(p)' = UnderWay(p) /\ Mounted(p)' = Mounted(p)
      BY <2>1 DEF vars, UnderWay, Mounted
    <3>2. Started' = Started /\ PagesOpened' /\ NoOrphanDialog'
      BY <2>1, <3>1 DEF StackInv, Started, PagesOpened, NoOrphanDialog, Count, Transferring
    <3>3. ~covered' => DialogsOnTop' /\ RunsOnTop'
      BY <2>1, <3>1 DEF StackInv, DialogsOnTop, RunsOnTop
    <3>4. QED
      BY <2>1, <3>2, <3>3 DEF StackInv
  <2>2. QED
    BY <2>1, NextStack
<1>2. QED
  BY <1>1, InitStack, TypeCorrect, PTL DEF Spec

\* However many pages were opened and downloads started, dismissed or cancelled,
\* no page has more dialogs up than downloads that will still pop one.
THEOREM DialogsHaveDownloads == Spec => []NoOrphanDialog
<1>1. StackInv => NoOrphanDialog
  BY DEF StackInv
<1>2. QED
  BY <1>1, StackInvariant, PTL

LEMMA DialogUpIsOnTop ==
    ASSUME TypeOK, StackInv, ~covered, NEW p \in Pages, Count(Progress(p)) > 0
    PROVE  Last(routes) = Progress(p)
<1>0. routes \in Seq(Route) /\ DialogsOnTop
  BY DEF TypeOK, StackInv
<1>1. Places(p) # {}
  BY <1>0, CountOfPlaces, FS_EmptySet
<1>2. QED
  BY <1>0, <1>1, DialogIsOnTop DEF Last

\* A dialog that is still up when a download of its page ends is what goes: the pop
\* of whatever is on top takes no page and nobody else's dialog, unless the dialog was
\* dismissed before or the offer came up meanwhile.
THEOREM HidesOwnDialog == Spec => HidesItsDialogWhileUp
<1>1. TypeOK /\ StackInv /\ [Next]_vars =>
        [~covered =>
           \A d \in Downloads :
             Hides(d) /\ Count(Progress(download[d].page)) > 0
               => Last(routes) = Progress(download[d].page)]_vars
  <2>1. SUFFICES ASSUME TypeOK, StackInv, ~covered, NEW d \in Downloads, Hides(d),
                        Count(Progress(download[d].page)) > 0
                 PROVE  Last(routes) = Progress(download[d].page)
    OBVIOUS
  <2>2. download[d].page \in Pages
    BY <2>1 DEF Hides, StackInv, PagesOpened, Running
  <2>3. QED
    BY <2>1, <2>2, DialogUpIsOnTop
<1>2. QED
  BY <1>1, StackInvariant, TypeCorrect, PTL DEF Spec, HidesItsDialogWhileUp
=============================================================================
