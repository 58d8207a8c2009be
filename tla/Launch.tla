-------------------------------- MODULE Launch --------------------------------
(***************************************************************************)
(* What a launch does to the server, on every device: main() gives the     *)
(* counters of the wallpapers that lack them a 0, the splash screen tracks *)
(* the install, and the detail page increments.  The splash screen's       *)
(* heartbeat overwrites one document per id and is left out.               *)
(*                                                                         *)
(* Firestore's SDK is external: a write is queued on the device, outlives  *)
(* the process, is sent in order when there is a network, and is seen by   *)
(* the device's own queries at once; a query without network answers from  *)
(* the device's copy.                                                      *)
(***************************************************************************)
EXTENDS Integers, Sequences, SequencesExt

CONSTANTS Devices,
          Docs,          \* wallpapers
          Counted,       \* wallpapers published with their counters
          MaxLaunches,   \* BOUND: launches of each device
          MaxCounts,     \* BOUND: views and downloads, all devices together
          Null           \* no such field

ASSUME ConstantsAssumption ==
    /\ MaxLaunches \in [Devices -> Nat]
    /\ MaxCounts \in Nat
    /\ Counted \subseteq Docs
    /\ Null \notin Int

Fields == {"downloads", "views"}

VARIABLES docs,      \* the collection: which documents exist
          count,     \* their counters
          installs,  \* the ids under which a device is in "installs"
          pc,        \* how far the app is: "query" and "commit" precede runApp
          field,     \* the counter being initialised
          lacking,   \* <<d, f>>: the device's copy of d has no f
          queue,     \* the SDK's unacknowledged writes
          memId,     \* install_tracked_id as SharedPreferences caches it, or 0
          diskId,    \* ... and as it is stored
          install,   \* _handleInstallTracking after runApp
          lives,     \* launches of each device
          counts,    \* views and downloads so far
          inits      \* history: how often a device has set a counter to 0

server == <<docs, count, installs>>
app == <<pc, field, memId, install>>
vars == <<server, app, lacking, queue, diskId, lives, counts, inits>>

Pairs == Docs \X Fields
Ids == Nat

WriteType == [kind : {"init", "inc", "install"}, field : Fields,
              docs : SUBSET Docs, id : Ids]

InitWrite(f, D) == [kind |-> "init", field |-> f, docs |-> D, id |-> 0]
IncWrite(f, d) == [kind |-> "inc", field |-> f, docs |-> {d}, id |-> 0]
InstallWrite(i) == [kind |-> "install", field |-> "views", docs |-> {}, id |-> i]

TypeOK ==
    /\ docs \in SUBSET Docs
    /\ count \in [Pairs -> Nat \cup {Null}]
    /\ installs \in [Devices -> SUBSET Ids]
    /\ pc \in [Devices -> {"off", "query", "commit", "running"}]
    /\ field \in [Devices -> Fields]
    /\ lacking \in [Devices -> SUBSET Pairs]
    /\ queue \in [Devices -> Seq(WriteType)]
    /\ memId \in [Devices -> Ids] /\ diskId \in [Devices -> Ids]
    /\ install \in [Devices -> {"none", "storing", "stored"}]
    /\ lives \in [Devices -> Ids]
    /\ counts \in 0 .. MaxCounts
    /\ inits \in [Devices -> [Pairs -> Nat]]

Init ==
    /\ docs = {}
    /\ count = [p \in Pairs |-> IF p[1] \in Counted THEN 0 ELSE Null]
    /\ installs = [c \in Devices |-> {}]
    /\ pc = [c \in Devices |-> "off"]
    /\ field = [c \in Devices |-> "downloads"]
    /\ lacking = [c \in Devices |-> {}]
    /\ queue = [c \in Devices |-> <<>>]
    /\ memId = [c \in Devices |-> 0]
    /\ diskId = [c \in Devices |-> 0]
    /\ install = [c \in Devices |-> "none"]
    /\ lives = [c \in Devices |-> 0]
    /\ counts = 0
    /\ inits = [c \in Devices |-> [p \in Pairs |-> 0]]

\* The administrator adds a wallpaper, with or without counters.
Publish(d) ==
    /\ d \notin docs
    /\ docs' = docs \cup {d}
    /\ UNCHANGED <<count, installs, app, lacking, queue, diskId, lives, counts, inits>>

-----------------------------------------------------------------------------
(* main() *)

Launch(c) ==
    /\ pc[c] = "off"
    /\ lives[c] < MaxLaunches[c]
    /\ lives' = [lives EXCEPT ![c] = @ + 1]
    /\ pc' = [pc EXCEPT ![c] = "query"]
    /\ field' = [field EXCEPT ![c] = "downloads"]
    /\ memId' = [memId EXCEPT ![c] = diskId[c]]
    /\ UNCHANGED <<server, install, lacking, queue, diskId, counts, inits>>

\* runApp(), and the splash screen's install tracking up to its next await: a new
\* id is in memory at once.
RunApp(c) ==
    /\ pc' = [pc EXCEPT ![c] = "running"]
    /\ IF memId[c] = 0
         THEN /\ memId' = [memId EXCEPT ![c] = lives[c]]
              /\ install' = [install EXCEPT ![c] = "storing"]
         ELSE UNCHANGED <<memId, install>>
    /\ UNCHANGED field

\* Mutant: initializeViewsField is repeated.
NeverBothInitialised(c) == FALSE

BothInitialised(c) == field[c] = "views"

\* initializeDownloadsField() returns, then initializeViewsField().
Proceed(c) ==
    IF BothInitialised(c)
      THEN RunApp(c)
      ELSE /\ pc' = [pc EXCEPT ![c] = "query"]
           /\ field' = [field EXCEPT ![c] = "views"]
           /\ UNCHANGED <<memId, install>>

\* What the server's documents lack.
Lacking == {p \in docs \X Fields : count[p] = Null}

\* A device sees its own unsent writes.
Pending(c) == UNION {w.docs \X {w.field} : w \in ToSet(queue[c])}

\* Mutant: no test for null.
MissingUnchecked(c, view) == docs

\* data['downloads'] == null
Missing(c, view) == {d \in Docs : <<d, field[c]>> \in view \ Pending(c)}

\* From the server or from the device's copy.
QueryAnswers(c) ==
    /\ pc[c] = "query"
    /\ \E view \in {Lacking, lacking[c]} :
         /\ lacking' = [lacking EXCEPT ![c] = view]
         /\ IF Missing(c, view) = {}
              THEN Proceed(c) /\ UNCHANGED queue
              ELSE /\ queue' = [queue EXCEPT ![c] =
                                 Append(@, InitWrite(field[c], Missing(c, view)))]
                   /\ pc' = [pc EXCEPT ![c] = "commit"]
                   /\ UNCHANGED <<field, memId, install>>
    /\ UNCHANGED <<server, diskId, lives, counts, inits>>

QueryFails(c) ==
    /\ pc[c] = "query"
    /\ Proceed(c)
    /\ UNCHANGED <<server, lacking, queue, diskId, lives, counts, inits>>

-----------------------------------------------------------------------------
(* The running app *)

\* await prefs.setString(...)
StoreId(c) ==
    /\ install[c] = "storing"
    /\ diskId' = [diskId EXCEPT ![c] = memId[c]]
    /\ install' = [install EXCEPT ![c] = "stored"]
    /\ UNCHANGED <<server, pc, field, memId, lacking, queue, lives, counts, inits>>

\* Mutant: setString is not awaited.
IdNotAwaited(c) == install[c] # "none"

IdStored(c) == install[c] = "stored"

TrackInstall(c) ==
    /\ IdStored(c)
    /\ install' = [install EXCEPT ![c] = "none"]
    /\ queue' = [queue EXCEPT ![c] = Append(@, InstallWrite(memId[c]))]
    /\ UNCHANGED <<server, pc, field, memId, lacking, diskId, lives, counts, inits>>

\* A wallpaper is opened (views) or saved to the gallery (downloads).
Increment(c, d, f) ==
    /\ pc[c] = "running"
    /\ d \in docs
    /\ counts < MaxCounts
    /\ counts' = counts + 1
    /\ queue' = [queue EXCEPT ![c] = Append(@, IncWrite(f, d))]
    /\ UNCHANGED <<server, app, lacking, diskId, lives, inits>>

\* Any other query of the wallpapers.
Browse(c) ==
    /\ pc[c] = "running"
    /\ lacking' = [lacking EXCEPT ![c] = Lacking]
    /\ UNCHANGED <<server, app, queue, diskId, lives, counts, inits>>

Kill(c) ==
    /\ pc[c] # "off"
    /\ pc' = [pc EXCEPT ![c] = "off"]
    /\ memId' = [memId EXCEPT ![c] = 0]
    /\ install' = [install EXCEPT ![c] = "none"]
    /\ UNCHANGED <<server, field, lacking, queue, diskId, lives, counts, inits>>

-----------------------------------------------------------------------------
(* The SDK *)

\* Mutant: increment(-1).
Decremented(n) == IF n = Null THEN -1 ELSE n - 1

\* FieldValue.increment(1), from 0 if there is no field.
Incremented(n) == IF n = Null THEN 1 ELSE n + 1

Touched(w) == w.docs \X {w.field}

\* main() awaits the last write of the queue.
Acknowledged(c) ==
    /\ queue' = [queue EXCEPT ![c] = Tail(@)]
    /\ IF pc[c] = "commit" /\ Len(queue[c]) = 1 THEN Proceed(c) ELSE UNCHANGED app

Applied(c) ==
    /\ queue[c] # <<>>
    /\ LET w == Head(queue[c]) IN
         /\ count' = [p \in Pairs |->
                       IF p \notin Touched(w) THEN count[p]
                       ELSE IF w.kind = "init" THEN 0
                       ELSE Incremented(count[p])]
         /\ inits' = [inits EXCEPT ![c] = [p \in Pairs |->
                       IF w.kind = "init" /\ p \in Touched(w) THEN @[p] + 1 ELSE @[p]]]
         /\ lacking' = [lacking EXCEPT ![c] = @ \ Touched(w)]
         /\ installs' = [installs EXCEPT ![c] =
                          IF w.kind = "install" THEN @ \cup {w.id} ELSE @]
    /\ Acknowledged(c)
    /\ UNCHANGED <<docs, diskId, lives, counts>>

\* The server refuses a batch as a whole; every caller swallows the error.
Refused(c) ==
    /\ queue[c] # <<>>
    /\ Acknowledged(c)
    /\ UNCHANGED <<server, lacking, diskId, lives, counts, inits>>

Advance(c) ==
    \/ QueryAnswers(c) \/ QueryFails(c)
    \/ StoreId(c) \/ TrackInstall(c)

Deliver(c) == Applied(c) \/ Refused(c)

Next ==
    \/ \E d \in Docs : Publish(d)
    \/ \E c \in Devices :
         \/ Launch(c) \/ Advance(c) \/ Deliver(c) \/ Browse(c) \/ Kill(c)
         \/ \E d \in Docs, f \in Fields : Increment(c, d, f)

Spec == Init /\ [][Next]_vars

\* The event loop, a query that answers or fails with or without network, and the
\* preferences.  The network need not come back: nothing acknowledges a batch then.
Fairness == \A c \in Devices : WF_vars(Advance(c))

FairSpec == Spec /\ Fairness
-----------------------------------------------------------------------------
(* Properties *)

\* No device sets a counter to 0 twice: not after a kill with the batch unsent,
\* nor from a stale copy after it was sent.
InitialisedOncePerDevice == \A c \in Devices, p \in Pairs : inits[c][p] <= 1

\* The counter exists, and every device knows or has never heard of the document.
Settled(p) ==
    /\ count[p] # Null
    /\ \A c \in Devices :
         /\ p \notin lacking[c]
         /\ \A w \in ToSet(queue[c]) : w.kind = "init" => p \notin Touched(w)

\* A settled counter stays so and never falls, whatever is launched or killed and
\* however late the queued writes arrive.
SettledIsKept ==
    [][\A p \in Pairs : Settled(p) => Settled(p)' /\ count'[p] >= count[p]]_vars

Tallied == INSTANCE Tally
             WITH Counters <- Pairs,
                  settled <- {p \in Pairs : Settled(p)},
                  value <- [p \in Pairs |-> IF Settled(p) THEN count[p] ELSE 0]

\* The settled counters are a tally: launches, kills, refused and late batches leave
\* them alone, and a view or a download is one up on one of them.
ImplementsTally == Tallied!Spec

Sent(c) == {w.id : w \in {x \in ToSet(queue[c]) : x.kind = "install"}}

\* A device is counted as one install, under the id it has stored, however often
\* its first launches are killed.
InstalledOnce == \A c \in Devices : installs[c] \cup Sent(c) \subseteq {diskId[c]}

\* The batch that main() waits for is still in the queue, behind what earlier launches
\* left there.
Unacknowledged(c) ==
    /\ pc[c] = "commit"
    /\ queue[c] # <<>>
    /\ Last(queue[c]).kind = "init" /\ Last(queue[c]).field = field[c]

\* main() reaches runApp, or from some time on it waits for ever for the one batch it
\* has just committed (which is what happens without network, when the device's copy
\* lacks a counter): no other wait of a launch depends on the network, none goes on
\* after the acknowledgement, and the two initialisations take no turn more.
LaunchEnds ==
    \A c \in Devices :
      pc[c] \in {"query", "commit"} ~>
        pc[c] \in {"running", "off"} \/ []Unacknowledged(c)
=============================================================================
