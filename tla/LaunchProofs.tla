----------------------------- MODULE LaunchProofs -----------------------------
(* Theorems about Launch for every set of devices and wallpapers and for     *)
(* every number of launches, views and downloads.                            *)
EXTENDS Launch, SequenceTheorems, TLAPS

LEMMA Bounds ==
    /\ MaxLaunches \in [Devices -> Nat] /\ MaxCounts \in Nat
    /\ Null \notin Int
  BY ConstantsAssumption DEF ConstantsAssumption

\* What appending to the queue and acknowledging its head do to its elements.
LEMMA Appended ==
    ASSUME NEW S, NEW q \in Seq(S), NEW w \in S
    PROVE  /\ Append(q, w) \in Seq(S)
           /\ ToSet(Append(q, w)) = ToSet(q) \cup {w}
<1>1. /\ Append(q, w) \in Seq(S)
      /\ Len(Append(q, w)) = Len(q) + 1
      /\ \A i \in 1 .. Len(q) : Append(q, w)[i] = q[i]
      /\ Append(q, w)[Len(q) + 1] = w
  BY AppendProperties
<1>2. DOMAIN Append(q, w) = 1 .. Len(q) + 1 /\ DOMAIN q = 1 .. Len(q) /\ Len(q) \in Nat
  BY <1>1, LenProperties
<1>3. \A i \in 1 .. Len(q) + 1 : i \in 1 .. Len(q) \/ i = Len(q) + 1
  BY <1>2
<1>4. QED
  BY <1>1, <1>2, <1>3 DEF ToSet

LEMMA Shortened ==
    ASSUME NEW S, NEW q \in Seq(S), q # <<>>
    PROVE  /\ Tail(q) \in Seq(S) /\ Head(q) \in S
           /\ Head(q) \in ToSet(q)
           /\ ToSet(Tail(q)) \subseteq ToSet(q)
<1>1. /\ Tail(q) \in Seq(S) /\ Head(q) \in S /\ Head(q) = q[1]
      /\ Len(q) \in Nat \ {0} /\ Len(Tail(q)) = Len(q) - 1
      /\ \A i \in 1 .. Len(Tail(q)) : Tail(q)[i] = q[i + 1]
  BY HeadTailProperties, EmptySeq
<1>2. DOMAIN Tail(q) = 1 .. Len(Tail(q)) /\ DOMAIN q = 1 .. Len(q)
  BY <1>1, LenProperties
<1>3. QED
  BY <1>1, <1>2 DEF ToSet

LEMMA WriteTypes ==
    /\ \A f \in Fields : \A D \in SUBSET Docs : InitWrite(f, D) \in WriteType
    /\ \A f \in Fields : \A d \in Docs : IncWrite(f, d) \in WriteType
    /\ \A i \in Ids : InstallWrite(i) \in WriteType
  BY DEF InitWrite, IncWrite, InstallWrite, WriteType, Fields, Ids

-----------------------------------------------------------------------------
(* Types *)

LEMMA InitTyped == Init => TypeOK
  BY Bounds DEF Init, TypeOK, Pairs, Fields, Ids

LEMMA ProceedTyped ==
    ASSUME TypeOK, NEW c \in Devices, Proceed(c)
    PROVE  /\ pc' \in [Devices -> {"off", "query", "commit", "running"}]
           /\ field' \in [Devices -> Fields] /\ memId' \in [Devices -> Ids]
           /\ install' \in [Devices -> {"none", "storing", "stored"}]
<1>1. CASE BothInitialised(c)
  BY <1>1 DEF Proceed, RunApp, TypeOK
<1>2. CASE ~BothInitialised(c)
  BY <1>2 DEF Proceed, TypeOK, Fields
<1>3. QED
  BY <1>1, <1>2

LEMMA AcknowledgedTyped ==
    ASSUME TypeOK, NEW c \in Devices, queue[c] # <<>>, Acknowledged(c)
    PROVE  /\ pc' \in [Devices -> {"off", "query", "commit", "running"}]
           /\ field' \in [Devices -> Fields] /\ memId' \in [Devices -> Ids]
           /\ install' \in [Devices -> {"none", "storing", "stored"}]
           /\ queue' \in [Devices -> Seq(WriteType)]
<1>1. queue[c] \in Seq(WriteType)
  BY DEF TypeOK
<1>2. Tail(queue[c]) \in Seq(WriteType)
  BY <1>1, Shortened
<1>3. queue' \in [Devices -> Seq(WriteType)]
  BY <1>2 DEF Acknowledged, TypeOK
<1>4. CASE Proceed(c)
  BY <1>3, <1>4, ProceedTyped
<1>5. CASE UNCHANGED app
  BY <1>3, <1>5 DEF app, TypeOK
<1>6. QED
  BY <1>4, <1>5 DEF Acknowledged

LEMMA EnqueuedTyped ==
    ASSUME TypeOK, NEW c \in Devices, NEW w \in WriteType
    PROVE  [queue EXCEPT ![c] = Append(@, w)] \in [Devices -> Seq(WriteType)]
  BY Appended DEF TypeOK

LEMMA AppliedTyped ==
    ASSUME TypeOK, NEW c \in Devices, Applied(c)
    PROVE  TypeOK'
<1>1. PICK w \in WriteType : w = Head(queue[c])
  BY Shortened DEF Applied, TypeOK
<1>2. count' \in [Pairs -> Nat \cup {Null}]
  <2>1. \A p \in Pairs : Incremented(count[p]) \in Nat
    BY Bounds DEF Incremented, TypeOK
  <2>2. \A p \in Pairs : count[p] \in Nat \cup {Null}
    BY DEF TypeOK
  <2>3. QED
    BY <2>1, <2>2 DEF Applied
<1>3. inits' \in [Devices -> [Pairs -> Nat]]
  BY DEF Applied, TypeOK
<1>4. lacking' \in [Devices -> SUBSET Pairs]
  BY DEF Applied, TypeOK
<1>5. installs' \in [Devices -> SUBSET Ids]
  BY <1>1 DEF Applied, TypeOK, WriteType
<1>6. QED
  BY <1>2, <1>3, <1>4, <1>5, AcknowledgedTyped DEF Applied, TypeOK

LEMMA LackingTyped == ASSUME TypeOK PROVE Lacking \in SUBSET Pairs
  BY DEF Lacking, TypeOK, Pairs

LEMMA StepTyped == TypeOK /\ [Next]_vars => TypeOK'
<1> SUFFICES ASSUME TypeOK, [Next]_vars PROVE TypeOK'
  OBVIOUS
<1>1. ASSUME NEW d \in Docs, Publish(d) PROVE TypeOK'
  BY <1>1 DEF Publish, TypeOK, app
<1>2. ASSUME NEW c \in Devices, Launch(c) PROVE TypeOK'
  BY <1>2 DEF Launch, TypeOK, server, Fields, Ids
<1>3. ASSUME NEW c \in Devices, QueryAnswers(c) PROVE TypeOK'
  <2>1. PICK view \in {Lacking, lacking[c]} :
          /\ lacking' = [lacking EXCEPT ![c] = view]
          /\ IF Missing(c, view) = {}
              THEN Proceed(c) /\ UNCHANGED queue
              ELSE /\ queue' = [queue EXCEPT ![c] =
                                 Append(@, InitWrite(field[c], Missing(c, view)))]
                   /\ pc' = [pc EXCEPT ![c] = "commit"]
                   /\ UNCHANGED <<field, memId, install>>
    BY <1>3 DEF QueryAnswers
  <2>2. lacking' \in [Devices -> SUBSET Pairs]
    BY <2>1, LackingTyped DEF TypeOK
  <2>3. CASE Missing(c, view) = {}
    BY <1>3, <2>1, <2>2, <2>3, ProceedTyped DEF QueryAnswers, TypeOK, server
  <2>4. CASE Missing(c, view) # {}
    <3>1. InitWrite(field[c], Missing(c, view)) \in WriteType
      BY WriteTypes DEF Missing, TypeOK
    <3>2. queue' \in [Devices -> Seq(WriteType)]
      BY <2>1, <2>4, <3>1, EnqueuedTyped
    <3>3. QED
      BY <1>3, <2>1, <2>2, <2>4, <3>2 DEF QueryAnswers, TypeOK, server
  <2>5. QED
    BY <2>3, <2>4
<1>4. ASSUME NEW c \in Devices, QueryFails(c) PROVE TypeOK'
  BY <1>4, ProceedTyped DEF QueryFails, TypeOK, server
<1>5. ASSUME NEW c \in Devices, StoreId(c) PROVE TypeOK'
  BY <1>5 DEF StoreId, TypeOK, server
<1>6. ASSUME NEW c \in Devices, TrackInstall(c) PROVE TypeOK'
  <2>1. queue' \in [Devices -> Seq(WriteType)]
    BY <1>6, WriteTypes, EnqueuedTyped DEF TrackInstall, TypeOK
  <2>2. QED
    BY <1>6, <2>1 DEF TrackInstall, TypeOK, server
<1>7. ASSUME NEW c \in Devices, NEW d \in Docs, NEW f \in Fields, Increment(c, d, f)
      PROVE  TypeOK'
  <2>1. queue' \in [Devices -> Seq(WriteType)]
    BY <1>7, WriteTypes, EnqueuedTyped DEF Increment
  <2>2. QED
    BY <1>7, <2>1, Bounds DEF Increment, TypeOK, server, app
<1>8. ASSUME NEW c \in Devices, Browse(c) PROVE TypeOK'
  BY <1>8, LackingTyped DEF Browse, TypeOK, server, app
<1>9. ASSUME NEW c \in Devices, Kill(c) PROVE TypeOK'
  BY <1>9 DEF Kill, TypeOK, server, Ids
<1>10. ASSUME NEW c \in Devices, Applied(c) PROVE TypeOK'
  BY <1>10, AppliedTyped
<1>11. ASSUME NEW c \in Devices, Refused(c) PROVE TypeOK'
  BY <1>11, AcknowledgedTyped DEF Refused, TypeOK, server
<1>12. CASE UNCHANGED vars
  BY <1>12 DEF vars, server, app, TypeOK
<1>13. QED
  BY <1>1, <1>2, <1>3, <1>4, <1>5, <1>6, <1>7, <1>8, <1>9, <1>10, <1>11, <1>12
  DEF Next, Advance, Deliver

-----------------------------------------------------------------------------
(* The install is counted once *)

\* The id in memory is the stored one, unless it is being stored; an install is
\* sent under a stored id only.
IdFits(c) ==
    /\ pc[c] = "off" => memId[c] = 0 /\ install[c] = "none"
    /\ pc[c] # "off" => lives[c] > 0
    /\ pc[c] \in {"query", "commit"} => memId[c] = diskId[c] /\ install[c] = "none"
    /\ pc[c] # "off" /\ diskId[c] # 0 => memId[c] = diskId[c]
    /\ install[c] = "storing" => diskId[c] = 0 /\ memId[c] # 0
    /\ install[c] = "stored" => diskId[c] # 0
    /\ installs[c] \cup Sent(c) \subseteq {diskId[c]} \ {0}

SameIds(c) ==
    /\ pc'[c] = pc[c] /\ memId'[c] = memId[c] /\ install'[c] = install[c]
    /\ lives'[c] = lives[c] /\ diskId'[c] = diskId[c]

\* The writes of installs come from the queue only.
SentFewer(c) == (installs[c] \cup Sent(c))' \subseteq installs[c] \cup Sent(c)

LEMMA SentOfAppend ==
    ASSUME TypeOK, NEW c \in Devices, NEW w \in WriteType,
           queue' = [queue EXCEPT ![c] = Append(@, w)]
    PROVE  \A d \in Devices :
             Sent(d)' = IF d = c /\ w.kind = "install" THEN Sent(d) \cup {w.id} ELSE Sent(d)
<1>1. ToSet(queue'[c]) = ToSet(queue[c]) \cup {w}
  BY Appended DEF TypeOK
<1>2. \A d \in Devices \ {c} : queue'[d] = queue[d]
  BY DEF TypeOK
<1>3. Sent(c)' = IF w.kind = "install" THEN Sent(c) \cup {w.id} ELSE Sent(c)
  BY <1>1 DEF Sent
<1>4. \A d \in Devices \ {c} : Sent(d)' = Sent(d)
  BY <1>2 DEF Sent
<1>5. QED
  BY <1>3, <1>4

LEMMA SentOfTail ==
    ASSUME TypeOK, NEW c \in Devices, queue[c] # <<>>,
           queue' = [queue EXCEPT ![c] = Tail(@)]
    PROVE  /\ \A d \in Devices : Sent(d)' \subseteq Sent(d)
           /\ \A d \in Devices \ {c} : Sent(d)' = Sent(d)
           /\ Head(queue[c]).kind = "install" => Head(queue[c]).id \in Sent(c)
<1>1. /\ ToSet(queue'[c]) \subseteq ToSet(queue[c])
      /\ Head(queue[c]) \in ToSet(queue[c])
  BY Shortened DEF TypeOK
<1>2. \A d \in Devices \ {c} : queue'[d] = queue[d]
  BY DEF TypeOK
<1>3. \A d \in Devices \ {c} : Sent(d)' = Sent(d)
  BY <1>2 DEF Sent
<1>4. Sent(c)' \subseteq Sent(c)
  BY <1>1 DEF Sent
<1>5. QED
  BY <1>1, <1>3, <1>4 DEF Sent

\* runApp() takes the stored id, or makes one and begins to store it.
LEMMA ProceedFits ==
    ASSUME TypeOK, NEW c \in Devices, IdFits(c), pc[c] \in {"query", "commit"},
           Proceed(c), SentFewer(c), UNCHANGED <<diskId, lives>>
    PROVE  IdFits(c)' /\ \A d \in Devices \ {c} : SameIds(d)
<1>1. CASE BothInitialised(c) /\ memId[c] = 0
  <2>1. /\ pc'[c] = "running" /\ memId'[c] = lives[c] /\ install'[c] = "storing"
        /\ diskId'[c] = diskId[c] /\ lives'[c] = lives[c]
    BY <1>1 DEF Proceed, RunApp, TypeOK
  <2>2. lives[c] \in Nat /\ lives[c] > 0 /\ diskId[c] = 0
    BY <1>1 DEF IdFits, TypeOK, Ids
  <2>3. IdFits(c)'
    BY <2>1, <2>2 DEF IdFits, SentFewer
  <2>4. \A d \in Devices \ {c} : SameIds(d)
    BY <1>1 DEF Proceed, RunApp, SameIds, TypeOK
  <2>5. QED
    BY <2>3, <2>4
<1>2. CASE BothInitialised(c) /\ memId[c] # 0
  BY <1>2 DEF Proceed, RunApp, IdFits, SentFewer, SameIds, TypeOK, Ids
<1>3. CASE ~BothInitialised(c)
  BY <1>3 DEF Proceed, IdFits, SentFewer, SameIds, TypeOK
<1>4. QED
  BY <1>1, <1>2, <1>3

LEMMA SameFits ==
    ASSUME NEW c \in Devices, IdFits(c), SameIds(c), SentFewer(c)
    PROVE  IdFits(c)'
  BY DEF IdFits, SameIds, SentFewer

LEMMA AcknowledgedFits ==
    ASSUME TypeOK, \A d \in Devices : IdFits(d), NEW c \in Devices,
           Applied(c) \/ Refused(c)
    PROVE  \A d \in Devices : IdFits(d)'
<1>1. /\ queue[c] # <<>> /\ queue' = [queue EXCEPT ![c] = Tail(@)]
      /\ UNCHANGED <<diskId, lives>>
      /\ \/ pc[c] = "commit" /\ Proceed(c)
         \/ UNCHANGED app
  BY DEF Applied, Refused, Acknowledged
<1>2. \A d \in Devices :
         installs'[d] \subseteq installs[d] \cup
           IF d = c /\ Head(queue[c]).kind = "install" THEN {Head(queue[c]).id} ELSE {}
  BY DEF Applied, Refused, server, TypeOK
<1>3. \A d \in Devices : SentFewer(d)
  BY <1>1, <1>2, SentOfTail DEF SentFewer
<1>4. CASE pc[c] = "commit" /\ Proceed(c)
  BY <1>1, <1>3, <1>4, ProceedFits, SameFits
<1>5. CASE UNCHANGED app
  <2>1. \A d \in Devices : SameIds(d)
    BY <1>1, <1>5 DEF app, SameIds
  <2>2. QED
    BY <1>3, <2>1, SameFits
<1>6. QED
  BY <1>1, <1>4, <1>5

LEMMA QueryFits ==
    ASSUME TypeOK, \A d \in Devices : IdFits(d), NEW c \in Devices,
           QueryAnswers(c) \/ QueryFails(c)
    PROVE  \A d \in Devices : IdFits(d)'
<1>1. /\ pc[c] = "query" /\ UNCHANGED <<installs, diskId, lives>>
      /\ \/ Proceed(c) /\ UNCHANGED queue
         \/ \E D \in SUBSET Docs :
              /\ queue' = [queue EXCEPT ![c] = Append(@, InitWrite(field[c], D))]
              /\ pc' = [pc EXCEPT ![c] = "commit"]
              /\ UNCHANGED <<memId, install>>
  <2>1. CASE QueryFails(c)
    BY <2>1 DEF QueryFails, server
  <2>2. CASE QueryAnswers(c)
    <3>1. PICK view : IF Missing(c, view) = {}
              THEN Proceed(c) /\ UNCHANGED queue
              ELSE /\ queue' = [queue EXCEPT ![c] =
                                 Append(@, InitWrite(field[c], Missing(c, view)))]
                   /\ pc' = [pc EXCEPT ![c] = "commit"]
                   /\ UNCHANGED <<field, memId, install>>
      BY <2>2 DEF QueryAnswers
    <3>2. Missing(c, view) \in SUBSET Docs
      BY DEF Missing
    <3>3. QED
      BY <2>2, <3>1, <3>2 DEF QueryAnswers, server
  <2>3. QED
    BY <2>1, <2>2
<1>2. CASE Proceed(c) /\ UNCHANGED queue
  <2>1. \A d \in Devices : SentFewer(d)
    BY <1>1, <1>2 DEF SentFewer, Sent
  <2>2. QED
    BY <1>1, <1>2, <2>1, ProceedFits, SameFits
<1>3. ASSUME NEW D \in SUBSET Docs,
             queue' = [queue EXCEPT ![c] = Append(@, InitWrite(field[c], D))],
             pc' = [pc EXCEPT ![c] = "commit"],
             UNCHANGED <<memId, install>>
      PROVE  \A d \in Devices : IdFits(d)'
  <2>1. InitWrite(field[c], D) \in WriteType /\ InitWrite(field[c], D).kind # "install"
    BY WriteTypes DEF TypeOK, InitWrite
  <2>2. \A d \in Devices : SentFewer(d)
    BY <1>1, <1>3, <2>1, SentOfAppend DEF SentFewer
  <2>3. \A d \in Devices \ {c} : SameIds(d)
    BY <1>1, <1>3 DEF SameIds, TypeOK
  <2>4. IdFits(c)'
    BY <1>1, <1>3, <2>2 DEF IdFits, SentFewer, TypeOK
  <2>5. QED
    BY <2>2, <2>3, <2>4, SameFits
<1>4. QED
  BY <1>1, <1>2, <1>3

LEMMA StepIds ==
    TypeOK /\ (\A d \in Devices : IdFits(d)) /\ [Next]_vars => (\A d \in Devices : IdFits(d))'
<1> SUFFICES ASSUME TypeOK, \A d \in Devices : IdFits(d), [Next]_vars
             PROVE  \A d \in Devices : IdFits(d)'
  OBVIOUS
<1>1. CASE \/ UNCHANGED vars
           \/ \E d \in Docs : Publish(d)
           \/ \E c \in Devices : Browse(c)
  <2>1. \A d \in Devices : SameIds(d) /\ SentFewer(d)
    BY <1>1 DEF vars, server, app, Publish, Browse, SameIds, SentFewer, Sent
  <2>2. QED
    BY <2>1, SameFits
<1>2. ASSUME NEW c \in Devices, Launch(c) PROVE \A d \in Devices : IdFits(d)'
  <2>1. \A d \in Devices : SentFewer(d)
    BY <1>2 DEF Launch, server, SentFewer, Sent
  <2>2. \A d \in Devices \ {c} : SameIds(d)
    BY <1>2 DEF Launch, SameIds, TypeOK
  <2>3. IdFits(c)'
    <3>1. pc[c] = "off" /\ install[c] = "none" /\ lives[c] \in Nat
      BY <1>2 DEF Launch, IdFits, TypeOK, Ids
    <3>2. /\ pc'[c] = "query" /\ memId'[c] = diskId[c] /\ diskId'[c] = diskId[c]
          /\ install'[c] = install[c]
      BY <1>2 DEF Launch, TypeOK
    <3>3. lives'[c] = lives[c] + 1
      BY <1>2 DEF Launch, TypeOK
    <3>4. lives'[c] > 0
      BY <3>1, <3>3
    <3>5. QED
      BY <2>1, <3>1, <3>2, <3>4 DEF IdFits, SentFewer
  <2>4. QED
    BY <2>1, <2>2, <2>3, SameFits
<1>3. ASSUME NEW c \in Devices, QueryAnswers(c) \/ QueryFails(c)
      PROVE  \A d \in Devices : IdFits(d)'
  BY <1>3, QueryFits
<1>4. ASSUME NEW c \in Devices, StoreId(c) PROVE \A d \in Devices : IdFits(d)'
  <2>1. \A d \in Devices : SentFewer(d)
    BY <1>4 DEF StoreId, server, SentFewer, Sent
  <2>2. \A d \in Devices \ {c} : SameIds(d)
    BY <1>4 DEF StoreId, SameIds, TypeOK
  <2>3. IdFits(c)'
    <3>1. /\ pc[c] = "running" /\ lives[c] > 0 /\ memId[c] # 0
          /\ installs[c] \cup Sent(c) = {}
      BY <1>4 DEF StoreId, IdFits, TypeOK
    <3>2. /\ pc'[c] = pc[c] /\ memId'[c] = memId[c] /\ lives'[c] = lives[c]
          /\ diskId'[c] = memId[c] /\ install'[c] = "stored"
      BY <1>4 DEF StoreId, TypeOK
    <3>3. QED
      BY <2>1, <3>1, <3>2 DEF IdFits, SentFewer
  <2>4. QED
    BY <2>1, <2>2, <2>3, SameFits
<1>5. ASSUME NEW c \in Devices, TrackInstall(c) PROVE \A d \in Devices : IdFits(d)'
  <2>1. /\ install[c] = "stored" /\ UNCHANGED <<pc, memId, diskId, lives, installs>>
        /\ install' = [install EXCEPT ![c] = "none"]
        /\ queue' = [queue EXCEPT ![c] = Append(@, InstallWrite(memId[c]))]
    BY <1>5 DEF TrackInstall, IdStored, server
  <2>2. /\ InstallWrite(memId[c]) \in WriteType
        /\ InstallWrite(memId[c]).kind = "install" /\ InstallWrite(memId[c]).id = memId[c]
    BY WriteTypes DEF TypeOK, InstallWrite
  <2>3. \A d \in Devices : Sent(d)' = IF d = c THEN Sent(d) \cup {memId[c]} ELSE Sent(d)
    BY <2>1, <2>2, SentOfAppend
  <2>4. \A d \in Devices \ {c} : SameIds(d) /\ SentFewer(d)
    BY <2>1, <2>3 DEF SameIds, SentFewer, TypeOK
  <2>5. pc[c] # "off" /\ diskId[c] # 0 /\ memId[c] = diskId[c]
    BY <2>1 DEF IdFits
  <2>6. install'[c] = "none"
    BY <2>1 DEF TypeOK
  <2>7. IdFits(c)'
    BY <2>1, <2>3, <2>5, <2>6 DEF IdFits
  <2>8. QED
    BY <2>4, <2>7, SameFits
<1>6. ASSUME NEW c \in Devices, NEW d \in Docs, NEW f \in Fields, Increment(c, d, f)
      PROVE  \A e \in Devices : IdFits(e)'
  <2>1. IncWrite(f, d) \in WriteType /\ IncWrite(f, d).kind = "inc"
    BY WriteTypes DEF IncWrite
  <2>2. \A e \in Devices : SentFewer(e)
    BY <1>6, <2>1, SentOfAppend DEF Increment, server, SentFewer
  <2>3. \A e \in Devices : SameIds(e)
    BY <1>6 DEF Increment, app, SameIds
  <2>4. QED
    BY <2>2, <2>3, SameFits
<1>7. ASSUME NEW c \in Devices, Kill(c) PROVE \A d \in Devices : IdFits(d)'
  <2>1. \A d \in Devices : SentFewer(d)
    BY <1>7 DEF Kill, server, SentFewer, Sent
  <2>2. \A d \in Devices \ {c} : SameIds(d)
    BY <1>7 DEF Kill, SameIds, TypeOK
  <2>3. IdFits(c)'
    BY <1>7, <2>1 DEF Kill, IdFits, SentFewer, TypeOK
  <2>4. QED
    BY <2>1, <2>2, <2>3, SameFits
<1>8. ASSUME NEW c \in Devices, Applied(c) \/ Refused(c)
      PROVE  \A d \in Devices : IdFits(d)'
  BY <1>8, AcknowledgedFits
<1>9. QED
  BY <1>1, <1>2, <1>3, <1>4, <1>5, <1>6, <1>7, <1>8 DEF Next, Advance, Deliver

-----------------------------------------------------------------------------
(* Counters are set to 0 once by each device *)

\* The places in a queue of the writes that set p to 0.
Zeroes(q, p) == {i \in 1 .. Len(q) : q[i].kind = "init" /\ p \in Touched(q[i])}

\* A device that has set a counter knows it, and has no second write under way.
ZeroedOnce(c, p) ==
    /\ \A i, j \in Zeroes(queue[c], p) : i = j
    /\ inits[c][p] # 0 =>
         /\ inits[c][p] = 1 /\ count[p] # Null
         /\ p \notin lacking[c] /\ Zeroes(queue[c], p) = {}

LEMMA NoZeroes ==
    ASSUME NEW q \in Seq(WriteType), NEW p
    PROVE  Zeroes(q, p) = {} <=> \A w \in ToSet(q) : w.kind = "init" => p \notin Touched(w)
<1>1. DOMAIN q = 1 .. Len(q)
  BY LenProperties
<1>2. QED
  BY <1>1 DEF Zeroes, ToSet

LEMMA ZeroesOfAppend ==
    ASSUME NEW q \in Seq(WriteType), NEW w \in WriteType, NEW p
    PROVE  Zeroes(Append(q, w), p) =
             Zeroes(q, p) \cup IF w.kind = "init" /\ p \in Touched(w) THEN {Len(q) + 1} ELSE {}
<1>1. /\ Len(Append(q, w)) = Len(q) + 1 /\ Len(q) \in Nat
      /\ \A i \in 1 .. Len(q) : Append(q, w)[i] = q[i]
      /\ Append(q, w)[Len(q) + 1] = w
  BY AppendProperties, LenProperties
<1>2. \A i : i \in 1 .. Len(q) + 1 <=> i \in 1 .. Len(q) \/ i = Len(q) + 1
  BY <1>1
<1>3. QED
  BY <1>1, <1>2 DEF Zeroes

LEMMA ZeroesOfTail ==
    ASSUME NEW q \in Seq(WriteType), q # <<>>, NEW p
    PROVE  /\ \A i \in Zeroes(Tail(q), p) : i \in Nat \ {0} /\ i + 1 \in Zeroes(q, p)
           /\ 1 \in Zeroes(q, p) <=> Head(q).kind = "init" /\ p \in Touched(Head(q))
<1>1. /\ Head(q) = q[1]
      /\ Len(q) \in Nat \ {0} /\ Len(Tail(q)) = Len(q) - 1
      /\ \A i \in 1 .. Len(Tail(q)) : Tail(q)[i] = q[i + 1]
  BY HeadTailProperties, EmptySeq
<1>2. ASSUME NEW i \in Zeroes(Tail(q), p)
      PROVE  i \in Nat \ {0} /\ i + 1 \in Zeroes(q, p)
  BY <1>1, <1>2 DEF Zeroes
<1>3. 1 \in Zeroes(q, p) <=> Head(q).kind = "init" /\ p \in Touched(Head(q))
  BY <1>1 DEF Zeroes
<1>4. QED
  BY <1>2, <1>3

LEMMA SettledByPlaces ==
    ASSUME NEW p, queue \in [Devices -> Seq(WriteType)]
    PROVE  Settled(p) <=> /\ count[p] # Null
                          /\ \A c \in Devices :
                               p \notin lacking[c] /\ Zeroes(queue[c], p) = {}
<1>1. \A c \in Devices : queue[c] \in Seq(WriteType)
  OBVIOUS
<1>2. QED
  BY <1>1, NoZeroes DEF Settled

LEMMA SettledByPlacesNext ==
    ASSUME NEW p, queue' \in [Devices -> Seq(WriteType)]
    PROVE  Settled(p)' <=> /\ count'[p] # Null
                           /\ \A c \in Devices :
                                p \notin lacking'[c] /\ Zeroes(queue'[c], p) = {}
<1>1. \A c \in Devices : queue'[c] \in Seq(WriteType)
  OBVIOUS
<1>2. QED
  BY <1>1, NoZeroes DEF Settled

\* What a step may do to one counter.
Keeps(p) ==
    /\ \A d \in Devices : ZeroedOnce(d, p)'
    /\ Settled(p) => Settled(p)' /\ count'[p] >= count[p]

Zeroed == \A p \in Pairs : \A d \in Devices : ZeroedOnce(d, p)

\* The copies are of this moment or as before.
CopiesOf == \A d \in Devices : lacking'[d] \subseteq lacking[d] \cup Lacking

\* Nothing is begun, sent or counted.
LEMMA QuietKeeps ==
    ASSUME TypeOK, TypeOK', Zeroed, CopiesOf, UNCHANGED <<count, inits>>,
           NEW p \in Pairs,
           \A d \in Devices : Zeroes(queue'[d], p) = Zeroes(queue[d], p)
    PROVE  Keeps(p)
<1>1. count[p] # Null => p \notin Lacking
  BY DEF Lacking
<1>2. \A d \in Devices : ZeroedOnce(d, p)'
  BY <1>1 DEF Zeroed, CopiesOf, ZeroedOnce
<1>3. Settled(p) => Settled(p)'
  BY <1>1, SettledByPlaces, SettledByPlacesNext DEF CopiesOf, TypeOK
<1>4. Settled(p) => count'[p] >= count[p]
  BY Bounds DEF Settled, TypeOK
<1>5. QED
  BY <1>2, <1>3, <1>4 DEF Keeps

\* The same, and a view, a download or an install is queued.
LEMMA EnqueueKeeps ==
    ASSUME TypeOK, TypeOK', Zeroed, UNCHANGED <<count, inits, lacking>>,
           NEW c \in Devices, NEW w \in WriteType, w.kind # "init",
           queue' = [queue EXCEPT ![c] = Append(@, w)],
           NEW p \in Pairs
    PROVE  Keeps(p)
<1>1. queue[c] \in Seq(WriteType) /\ \A d \in Devices \ {c} : queue'[d] = queue[d]
  BY DEF TypeOK
<1>2. queue'[c] = Append(queue[c], w)
  BY DEF TypeOK
<1>3. \A d \in Devices : Zeroes(queue'[d], p) = Zeroes(queue[d], p)
  <2>1. Zeroes(Append(queue[c], w), p) = Zeroes(queue[c], p)
    BY <1>1, ZeroesOfAppend
  <2>2. QED
    BY <1>1, <1>2, <2>1
<1>4. CopiesOf
  BY DEF CopiesOf
<1>5. QED
  BY <1>3, <1>4, QuietKeeps

\* A batch for what the device thinks is missing is queued.
LEMMA BatchKeeps ==
    ASSUME TypeOK, TypeOK', Zeroed, UNCHANGED <<count, inits>>,
           NEW c \in Devices, NEW view \in {Lacking, lacking[c]},
           lacking' = [lacking EXCEPT ![c] = view],
           queue' = [queue EXCEPT ![c] = Append(@, InitWrite(field[c], Missing(c, view)))],
           NEW p \in Pairs
    PROVE  Keeps(p)
<1>0. PICK w \in WriteType : w = InitWrite(field[c], Missing(c, view))
  BY WriteTypes DEF Missing, TypeOK
<1>1. queue[c] \in Seq(WriteType) /\ \A d \in Devices \ {c} : queue'[d] = queue[d]
  BY DEF TypeOK
<1>2. queue'[c] = Append(queue[c], w)
  BY <1>0 DEF TypeOK
<1>3. CopiesOf /\ lacking'[c] = view /\ \A d \in Devices \ {c} : lacking'[d] = lacking[d]
  BY DEF CopiesOf, TypeOK
<1>4. CASE p \notin Touched(w)
  <2>1. \A d \in Devices : Zeroes(queue'[d], p) = Zeroes(queue[d], p)
    <3>1. Zeroes(Append(queue[c], w), p) = Zeroes(queue[c], p)
      <4>1. Zeroes(Append(queue[c], w), p) = Zeroes(queue[c], p) \cup
              IF w.kind = "init" /\ p \in Touched(w) THEN {Len(queue[c]) + 1} ELSE {}
        BY <1>1, ZeroesOfAppend
      <4>2. QED
        BY <1>4, <4>1
    <3>2. QED
      BY <1>1, <1>2, <3>1
  <2>2. QED
    BY <1>3, <2>1, QuietKeeps
<1>5. CASE p \in Touched(w)
  <2>1. p \in view /\ p \notin Pending(c)
    BY <1>0, <1>5 DEF Touched, InitWrite, Missing
  <2>2. Zeroes(queue[c], p) = {}
    <3>1. \A x \in ToSet(queue[c]) : p \notin Touched(x)
      BY <2>1 DEF Pending, Touched
    <3>2. QED
      BY <1>1, <3>1, NoZeroes
  <2>3. Zeroes(queue'[c], p) = {Len(queue[c]) + 1}
    BY <1>0, <1>1, <1>2, <1>5, <2>2, ZeroesOfAppend DEF InitWrite
  <2>4. inits[c][p] = 0
    <3>1. CASE view = Lacking
      BY <2>1, <3>1 DEF Lacking, Zeroed, ZeroedOnce
    <3>2. CASE view = lacking[c]
      BY <2>1, <3>2 DEF Zeroed, ZeroedOnce
    <3>3. QED
      BY <3>1, <3>2
  <2>5. ZeroedOnce(c, p)'
    BY <2>3, <2>4 DEF ZeroedOnce
  <2>6. \A d \in Devices \ {c} : ZeroedOnce(d, p)'
    <3>1. \A d \in Devices \ {c} : ZeroedOnce(d, p)
      BY DEF Zeroed
    <3>2. QED
      BY <1>1, <1>3, <3>1 DEF ZeroedOnce
  <2>7. ~Settled(p)
    <3>1. CASE view = Lacking
      BY <2>1, <3>1 DEF Lacking, Settled
    <3>2. CASE view = lacking[c]
      BY <2>1, <3>2 DEF Settled
    <3>3. QED
      BY <3>1, <3>2
  <2>8. QED
    BY <2>5, <2>6, <2>7 DEF Keeps
<1>6. QED
  BY <1>4, <1>5

\* The head of the queue goes; the places of the others move.
LEMMA TailKeepsPlaces ==
    ASSUME TypeOK, Zeroed, NEW c \in Devices, queue[c] # <<>>,
           queue' = [queue EXCEPT ![c] = Tail(@)], NEW p \in Pairs
    PROVE  /\ \A d \in Devices \ {c} : queue'[d] = queue[d]
           /\ \A i, j \in Zeroes(queue'[c], p) : i = j
           /\ Zeroes(queue[c], p) = {} => Zeroes(queue'[c], p) = {}
           /\ (Head(queue[c]).kind = "init" /\ p \in Touched(Head(queue[c])))
                => Zeroes(queue'[c], p) = {}
<1>1. queue[c] \in Seq(WriteType) /\ queue'[c] = Tail(queue[c])
      /\ \A d \in Devices \ {c} : queue'[d] = queue[d]
  BY DEF TypeOK
<1>2. /\ \A i \in Zeroes(queue'[c], p) : i \in Nat \ {0} /\ i + 1 \in Zeroes(queue[c], p)
      /\ 1 \in Zeroes(queue[c], p)
           <=> Head(queue[c]).kind = "init" /\ p \in Touched(Head(queue[c]))
  BY <1>1, ZeroesOfTail
<1>3. \A i, j \in Zeroes(queue[c], p) : i = j
  BY DEF Zeroed, ZeroedOnce
<1>4. \A i, j \in Zeroes(queue'[c], p) : i = j
  <2>1. \A i, j \in Zeroes(queue'[c], p) : i + 1 = j + 1 /\ i \in Nat /\ j \in Nat
    BY <1>2, <1>3
  <2>2. QED
    BY <2>1
<1>5. Zeroes(queue[c], p) = {} => Zeroes(queue'[c], p) = {}
  BY <1>2
<1>6. ASSUME 1 \in Zeroes(queue[c], p) PROVE Zeroes(queue'[c], p) = {}
  <2>1. \A i \in Zeroes(queue'[c], p) : i \in Nat \ {0} /\ i + 1 = 1
    BY <1>2, <1>3, <1>6
  <2>2. QED
    BY <2>1
<1>7. QED
  BY <1>1, <1>2, <1>4, <1>5, <1>6

LEMMA RefusedKeeps ==
    ASSUME TypeOK, TypeOK', Zeroed, NEW c \in Devices, Refused(c), NEW p \in Pairs
    PROVE  Keeps(p)
<1>1. /\ queue[c] # <<>> /\ queue' = [queue EXCEPT ![c] = Tail(@)]
      /\ UNCHANGED <<count, inits, lacking>>
  BY DEF Refused, Acknowledged, server
<1>2. /\ \A d \in Devices \ {c} : queue'[d] = queue[d]
      /\ \A i, j \in Zeroes(queue'[c], p) : i = j
      /\ Zeroes(queue[c], p) = {} => Zeroes(queue'[c], p) = {}
  BY <1>1, TailKeepsPlaces
<1>3. \A d \in Devices : ZeroedOnce(d, p)
  BY DEF Zeroed
<1>4. \A d \in Devices : ZeroedOnce(d, p)'
  BY <1>1, <1>2, <1>3 DEF ZeroedOnce
<1>5. Settled(p) => Settled(p)'
  BY <1>1, <1>2, SettledByPlaces, SettledByPlacesNext DEF TypeOK
<1>6. Settled(p) => count'[p] >= count[p]
  BY <1>1, Bounds DEF Settled, TypeOK
<1>7. QED
  BY <1>4, <1>5, <1>6 DEF Keeps

LEMMA AppliedKeeps ==
    ASSUME TypeOK, TypeOK', Zeroed, NEW c \in Devices, Applied(c), NEW p \in Pairs
    PROVE  Keeps(p)
<1>0. PICK w : w = Head(queue[c])
  OBVIOUS
<1>1. /\ queue[c] # <<>> /\ queue' = [queue EXCEPT ![c] = Tail(@)]
      /\ count'[p] = IF p \notin Touched(w) THEN count[p]
                     ELSE IF w.kind = "init" THEN 0 ELSE Incremented(count[p])
      /\ inits'[c][p] = IF w.kind = "init" /\ p \in Touched(w)
                          THEN inits[c][p] + 1 ELSE inits[c][p]
      /\ lacking'[c] = lacking[c] \ Touched(w)
      /\ \A d \in Devices \ {c} : lacking'[d] = lacking[d] /\ inits'[d] = inits[d]
  BY <1>0 DEF Applied, Acknowledged, TypeOK
<1>2. /\ \A d \in Devices \ {c} : queue'[d] = queue[d]
      /\ \A i, j \in Zeroes(queue'[c], p) : i = j
      /\ Zeroes(queue[c], p) = {} => Zeroes(queue'[c], p) = {}
      /\ (w.kind = "init" /\ p \in Touched(w)) =>
           Zeroes(queue'[c], p) = {} /\ Zeroes(queue[c], p) # {}
  <2>1. queue[c] \in Seq(WriteType)
    BY DEF TypeOK
  <2>2. (w.kind = "init" /\ p \in Touched(w)) => 1 \in Zeroes(queue[c], p)
    BY <1>0, <1>1, <2>1, ZeroesOfTail
  <2>3. QED
    BY <1>0, <1>1, <2>2, TailKeepsPlaces
<1>3. /\ \A d \in Devices : ZeroedOnce(d, p)
      /\ inits[c][p] \in Nat /\ count[p] \in Nat \cup {Null} /\ Null \notin Nat
  BY Bounds DEF Zeroed, TypeOK
<1>4. /\ count[p] # Null \/ p \in Touched(w) => count'[p] # Null
      /\ count[p] # Null /\ ~(w.kind = "init" /\ p \in Touched(w)) => count'[p] >= count[p]
  BY <1>1, <1>3, Bounds DEF Incremented
<1>5. ASSUME NEW d \in Devices \ {c} PROVE ZeroedOnce(d, p)'
  <2>1. /\ queue'[d] = queue[d] /\ inits'[d] = inits[d] /\ lacking'[d] = lacking[d]
        /\ count[p] # Null => count'[p] # Null
    BY <1>1, <1>2, <1>4
  <2>2. ZeroedOnce(d, p)
    BY <1>3
  <2>3. QED
    BY <2>1, <2>2 DEF ZeroedOnce
<1>6. ZeroedOnce(c, p)'
  <2>1. CASE w.kind = "init" /\ p \in Touched(w)
    <3>1. inits[c][p] = 0
      BY <1>2, <1>3, <2>1 DEF ZeroedOnce
    <3>2. inits'[c][p] = 1 /\ count'[p] # Null /\ p \notin lacking'[c]
      BY <1>1, <1>4, <2>1, <3>1
    <3>3. QED
      BY <1>2, <2>1, <3>2 DEF ZeroedOnce
  <2>2. CASE ~(w.kind = "init" /\ p \in Touched(w))
    <3>1. inits'[c][p] = inits[c][p] /\ lacking'[c] \subseteq lacking[c]
      BY <1>1, <2>2
    <3>2. QED
      BY <1>2, <1>3, <1>4, <3>1 DEF ZeroedOnce
  <2>3. QED
    BY <2>1, <2>2
<1>7. Settled(p) => Settled(p)' /\ count'[p] >= count[p]
  <2>1. Settled(p) => /\ count[p] # Null
                      /\ \A d \in Devices : p \notin lacking[d] /\ Zeroes(queue[d], p) = {}
    BY SettledByPlaces DEF TypeOK
  <2>2. Settled(p) => ~(w.kind = "init" /\ p \in Touched(w))
    BY <1>2, <2>1
  <2>3. Settled(p) => \A d \in Devices : p \notin lacking'[d] /\ Zeroes(queue'[d], p) = {}
    BY <1>1, <1>2, <2>1
  <2>4. QED
    BY <1>4, <2>1, <2>2, <2>3, SettledByPlacesNext DEF TypeOK
<1>8. QED
  BY <1>5, <1>6, <1>7 DEF Keeps

LEMMA StepKeeps ==
    TypeOK /\ Zeroed /\ [Next]_vars => (\A p \in Pairs : Keeps(p))
<1> SUFFICES ASSUME TypeOK, Zeroed, [Next]_vars, NEW p \in Pairs PROVE Keeps(p)
  OBVIOUS
<1>0. TypeOK'
  BY StepTyped
<1>1. CASE UNCHANGED <<count, inits, queue>> /\ CopiesOf
  BY <1>0, <1>1, QuietKeeps
<1>2. ASSUME NEW c \in Devices, QueryAnswers(c) PROVE Keeps(p)
  <2>1. PICK view \in {Lacking, lacking[c]} :
          /\ lacking' = [lacking EXCEPT ![c] = view]
          /\ \/ UNCHANGED queue
             \/ queue' = [queue EXCEPT ![c] =
                           Append(@, InitWrite(field[c], Missing(c, view)))]
    BY <1>2 DEF QueryAnswers
  <2>2. CopiesOf
    BY <2>1 DEF CopiesOf, TypeOK
  <2>3. UNCHANGED <<count, inits>>
    BY <1>2 DEF QueryAnswers, server
  <2>4. CASE UNCHANGED queue
    BY <1>1, <2>2, <2>3, <2>4
  <2>5. CASE queue' = [queue EXCEPT ![c] =
                        Append(@, InitWrite(field[c], Missing(c, view)))]
    BY <1>0, <2>1, <2>3, <2>5, BatchKeeps
  <2>6. QED
    BY <2>1, <2>4, <2>5
<1>3. ASSUME NEW c \in Devices, TrackInstall(c) PROVE Keeps(p)
  <2>1. InstallWrite(memId[c]) \in WriteType /\ InstallWrite(memId[c]).kind # "init"
    BY WriteTypes DEF TypeOK, InstallWrite
  <2>2. QED
    BY <1>0, <1>3, <2>1, EnqueueKeeps DEF TrackInstall, server
<1>4. ASSUME NEW c \in Devices, NEW d \in Docs, NEW f \in Fields, Increment(c, d, f)
      PROVE  Keeps(p)
  <2>1. IncWrite(f, d) \in WriteType /\ IncWrite(f, d).kind # "init"
    BY WriteTypes DEF IncWrite
  <2>2. QED
    BY <1>0, <1>4, <2>1, EnqueueKeeps DEF Increment, server
<1>5. ASSUME NEW c \in Devices, Applied(c) \/ Refused(c) PROVE Keeps(p)
  BY <1>0, <1>5, AppliedKeeps, RefusedKeeps
<1>6. ASSUME NEW c \in Devices,
             Launch(c) \/ QueryFails(c) \/ StoreId(c) \/ Browse(c) \/ Kill(c)
      PROVE  Keeps(p)
  <2>1. UNCHANGED <<count, inits, queue>>
    BY <1>6 DEF Launch, QueryFails, StoreId, Browse, Kill, server
  <2>2. CopiesOf
    BY <1>6 DEF Launch, QueryFails, StoreId, Browse, Kill, CopiesOf, TypeOK
  <2>3. QED
    BY <1>1, <2>1, <2>2
<1>7. CASE UNCHANGED vars \/ \E d \in Docs : Publish(d)
  BY <1>1, <1>7 DEF vars, server, Publish, CopiesOf
<1>8. QED
  BY <1>2, <1>3, <1>4, <1>5, <1>6, <1>7 DEF Next, Advance, Deliver

-----------------------------------------------------------------------------
(* The theorems *)

LaunchInv ==
    /\ TypeOK
    /\ \A c \in Devices : IdFits(c)
    /\ Zeroed

LEMMA InitLaunch == Init => LaunchInv
<1> SUFFICES ASSUME Init PROVE LaunchInv
  OBVIOUS
<1>1. \A c \in Devices : ToSet(queue[c]) = {} /\ \A p : Zeroes(queue[c], p) = {}
  BY EmptySeq DEF Init, ToSet, Zeroes
<1>2. \A c \in Devices : IdFits(c)
  BY <1>1 DEF Init, IdFits, Sent
<1>3. Zeroed
  BY <1>1 DEF Init, Zeroed, ZeroedOnce
<1>4. QED
  BY InitTyped, <1>2, <1>3 DEF LaunchInv

LEMMA LaunchInvariant == Spec => []LaunchInv
<1>1. LaunchInv /\ [Next]_vars => LaunchInv'
  BY StepTyped, StepIds, StepKeeps DEF LaunchInv, Zeroed, Keeps, Pairs
<1>2. QED
  BY InitLaunch, <1>1, PTL DEF Spec

\* Every variable keeps its type; in particular no counter is ever negative.
THEOREM TypeCorrect == Spec => []TypeOK
<1>1. LaunchInv => TypeOK
  BY DEF LaunchInv
<1>2. QED
  BY LaunchInvariant, <1>1, PTL

\* Each device sets a counter to 0 at most once, through kills, late batches and
\* stale copies.
THEOREM InitialisedOnce == Spec => []InitialisedOncePerDevice
<1>1. LaunchInv => InitialisedOncePerDevice
  BY DEF LaunchInv, Zeroed, ZeroedOnce, TypeOK, InitialisedOncePerDevice
<1>2. QED
  BY LaunchInvariant, <1>1, PTL

\* A device is counted as one install, under the id it has stored.
THEOREM InstallCountedOnce == Spec => []InstalledOnce
<1>1. LaunchInv => InstalledOnce
  BY DEF LaunchInv, IdFits, InstalledOnce
<1>2. QED
  BY LaunchInvariant, <1>1, PTL

\* A counter that every device knows never falls again.
THEOREM SettledStays == Spec => SettledIsKept
<1>1. LaunchInv /\ [Next]_vars =>
        [\A p \in Pairs : Settled(p) => Settled(p)' /\ count'[p] >= count[p]]_vars
  BY StepKeeps DEF LaunchInv, Keeps
<1>2. QED
  BY LaunchInvariant, <1>1, PTL DEF Spec, SettledIsKept

-----------------------------------------------------------------------------
(* The settled counters are a tally *)

TallyVars ==
    <<{p \in Pairs : Settled(p)}, [p \in Pairs |-> IF Settled(p) THEN count[p] ELSE 0]>>

\* A view or a download is of one wallpaper; an install is of none.
OfOne(w) ==
    /\ w.kind = "inc" => \E d \in Docs : w.docs = {d}
    /\ w.kind = "install" => w.docs = {}

CountsAreOfOne == \A c \in Devices : \A w \in ToSet(queue[c]) : OfOne(w)

LEMMA WritesAreOfOne ==
    /\ \A f \in Fields : \A D \in SUBSET Docs : OfOne(InitWrite(f, D))
    /\ \A f \in Fields : \A d \in Docs : OfOne(IncWrite(f, d))
    /\ \A i \in Ids : OfOne(InstallWrite(i))
  BY DEF InitWrite, IncWrite, InstallWrite, OfOne

LEMMA EnqueuedIsOfOne ==
    ASSUME TypeOK, CountsAreOfOne, NEW c \in Devices, NEW w \in WriteType, OfOne(w),
           queue' = [queue EXCEPT ![c] = Append(@, w)]
    PROVE  CountsAreOfOne'
<1>1. ToSet(queue'[c]) = ToSet(queue[c]) \cup {w}
  BY Appended DEF TypeOK
<1>2. \A d \in Devices \ {c} : queue'[d] = queue[d]
  BY DEF TypeOK
<1>3. QED
  BY <1>1, <1>2 DEF CountsAreOfOne

LEMMA StepOfOne ==
    ASSUME TypeOK, CountsAreOfOne, [Next]_vars
    PROVE  CountsAreOfOne'
<1>1. CASE UNCHANGED queue
  BY <1>1 DEF CountsAreOfOne
<1>2. ASSUME NEW c \in Devices, QueryAnswers(c) PROVE CountsAreOfOne'
  <2>1. PICK view : \/ UNCHANGED queue
                    \/ queue' = [queue EXCEPT ![c] =
                                  Append(@, InitWrite(field[c], Missing(c, view)))]
    BY <1>2 DEF QueryAnswers
  <2>2. field[c] \in Fields /\ Missing(c, view) \in SUBSET Docs
    BY DEF Missing, TypeOK
  <2>3. /\ InitWrite(field[c], Missing(c, view)) \in WriteType
        /\ OfOne(InitWrite(field[c], Missing(c, view)))
    BY <2>2, WriteTypes, WritesAreOfOne
  <2>4. QED
    BY <1>1, <2>1, <2>3, EnqueuedIsOfOne
<1>3. ASSUME NEW c \in Devices, TrackInstall(c) PROVE CountsAreOfOne'
  <2>1. memId[c] \in Ids
    BY DEF TypeOK
  <2>2. QED
    BY <1>3, <2>1, WriteTypes, WritesAreOfOne, EnqueuedIsOfOne DEF TrackInstall
<1>4. ASSUME NEW c \in Devices, NEW d \in Docs, NEW f \in Fields, Increment(c, d, f)
      PROVE  CountsAreOfOne'
  BY <1>4, WriteTypes, WritesAreOfOne, EnqueuedIsOfOne DEF Increment
<1>5. ASSUME NEW c \in Devices, Applied(c) \/ Refused(c) PROVE CountsAreOfOne'
  <2>1. queue[c] # <<>> /\ queue' = [queue EXCEPT ![c] = Tail(@)]
    BY <1>5 DEF Applied, Refused, Acknowledged
  <2>2. ToSet(queue'[c]) \subseteq ToSet(queue[c])
    BY <2>1, Shortened DEF TypeOK
  <2>3. \A d \in Devices \ {c} : queue'[d] = queue[d]
    BY <2>1 DEF TypeOK
  <2>4. QED
    BY <2>2, <2>3 DEF CountsAreOfOne
<1>6. ASSUME NEW c \in Devices,
             Launch(c) \/ QueryFails(c) \/ StoreId(c) \/ Browse(c) \/ Kill(c)
      PROVE  CountsAreOfOne'
  BY <1>1, <1>6 DEF Launch, QueryFails, StoreId, Browse, Kill
<1>7. CASE UNCHANGED vars \/ \E d \in Docs : Publish(d)
  BY <1>1, <1>7 DEF vars, Publish
<1>8. QED
  BY <1>2, <1>3, <1>4, <1>5, <1>6, <1>7 DEF Next, Advance, Deliver

\* A queue is its head and its tail.
LEMMA HeadAndTail ==
    ASSUME NEW S, NEW q \in Seq(S), q # <<>>
    PROVE  ToSet(q) \subseteq ToSet(Tail(q)) \cup {Head(q)}
<1>1. /\ Tail(q) \in Seq(S) /\ Head(q) = q[1]
      /\ Len(q) \in Nat \ {0} /\ Len(Tail(q)) = Len(q) - 1
      /\ \A i \in 1 .. Len(Tail(q)) : Tail(q)[i] = q[i + 1]
  BY HeadTailProperties, EmptySeq
<1>2. DOMAIN Tail(q) = 1 .. Len(Tail(q)) /\ DOMAIN q = 1 .. Len(q)
  BY <1>1, LenProperties
<1>3. ASSUME NEW i \in 1 .. Len(q), i # 1 PROVE q[i] \in ToSet(Tail(q))
  <2>1. i - 1 \in 1 .. Len(Tail(q)) /\ Tail(q)[i - 1] = q[i]
    BY <1>1, <1>3
  <2>2. QED
    BY <1>2, <2>1 DEF ToSet
<1>4. QED
  BY <1>1, <1>2, <1>3 DEF ToSet

\* A step that leaves the settled counters alone.
LEMMA SettlesMore ==
    ASSUME TypeOK', \A p \in Pairs : Settled(p) => Settled(p)' /\ count'[p] = count[p]
    PROVE  Tallied!Settle
<1>1. \A p \in Pairs : Settled(p)' => count'[p] \in Nat
  BY DEF Settled, TypeOK
<1>2. [p \in Pairs |-> IF Settled(p) THEN count[p] ELSE 0]' \in [Pairs -> Nat]
  BY <1>1
<1>3. \A p \in {q \in Pairs : Settled(q)} :
        [q \in Pairs |-> IF Settled(q) THEN count[q] ELSE 0]'[p]
          = [q \in Pairs |-> IF Settled(q) THEN count[q] ELSE 0][p]
  OBVIOUS
<1>4. /\ {q \in Pairs : Settled(q)} \subseteq {q \in Pairs : Settled(q)}'
      /\ {q \in Pairs : Settled(q)}' \subseteq Pairs
  OBVIOUS
<1>5. QED
  BY <1>2, <1>3, <1>4 DEF Tallied!Settle

\* A view or download of a settled counter: one up on it, and nothing else.
LEMMA CountsOne ==
    ASSUME TypeOK, Zeroed, CountsAreOfOne, [Next]_vars, NEW c \in Devices, Applied(c),
           NEW p \in Pairs, Settled(p), p \in Touched(Head(queue[c]))
    PROVE  Tallied!Count(p)
<1>0. PICK w \in WriteType : w = Head(queue[c])
  BY Shortened DEF Applied, TypeOK
<1>1. /\ queue[c] # <<>> /\ queue[c] \in Seq(WriteType)
      /\ queue'[c] = Tail(queue[c])
      /\ \A d \in Devices \ {c} : queue'[d] = queue[d] /\ lacking'[d] = lacking[d]
      /\ lacking'[c] = lacking[c] \ Touched(w)
  BY <1>0 DEF Applied, Acknowledged, TypeOK
<1>2. w \in ToSet(queue[c])
  BY <1>0, <1>1, Shortened
<1>3. w.kind # "init" /\ p \in Touched(w)
  BY <1>0, <1>2 DEF Settled
<1>4. Touched(w) = {p}
  <2>1. w.kind \in {"init", "inc", "install"} /\ OfOne(w)
    BY <1>2 DEF WriteType, CountsAreOfOne
  <2>2. QED
    BY <1>3, <2>1 DEF OfOne, Touched
<1>5. /\ count'[p] = Incremented(count[p])
      /\ \A q \in Pairs \ {p} : count'[q] = count[q]
  BY <1>0, <1>3, <1>4 DEF Applied
<1>6. count'[p] = count[p] + 1
  BY <1>5 DEF Incremented, Settled
<1>7. \A q \in Pairs : Settled(q) => Settled(q)'
  BY StepKeeps DEF Keeps
<1>8. ASSUME NEW q \in Pairs, Settled(q)' PROVE Settled(q)
  <2>1. CASE q = p
    BY <2>1
  <2>2. CASE q # p
    <3>1. count[q] # Null /\ \A d \in Devices : q \notin lacking[d]
      BY <1>1, <1>4, <1>5, <1>8, <2>2 DEF Settled
    <3>2. \A x \in ToSet(queue[c]) : x.kind = "init" => q \notin Touched(x)
      <4>1. ToSet(queue[c]) \subseteq ToSet(queue'[c]) \cup {w}
        BY <1>0, <1>1, HeadAndTail
      <4>2. QED
        BY <1>3, <1>8, <4>1 DEF Settled, Touched
    <3>3. \A d \in Devices \ {c} : \A x \in ToSet(queue[d]) :
            x.kind = "init" => q \notin Touched(x)
      BY <1>1, <1>8 DEF Settled, Touched
    <3>4. QED
      BY <3>1, <3>2, <3>3 DEF Settled
  <2>3. QED
    BY <2>1, <2>2
<1>9. {q \in Pairs : Settled(q)}' = {q \in Pairs : Settled(q)}
  BY <1>7, <1>8
<1>10. [q \in Pairs |-> IF Settled(q) THEN count[q] ELSE 0]' =
         [[q \in Pairs |-> IF Settled(q) THEN count[q] ELSE 0] EXCEPT ![p] = @ + 1]
  BY <1>5, <1>6, <1>7, <1>8
<1>11. QED
  BY <1>9, <1>10 DEF Tallied!Count

LEMMA StepTallies ==
    ASSUME TypeOK, Zeroed, CountsAreOfOne, [Next]_vars
    PROVE  Tallied!Next
<1>0. TypeOK' /\ \A p \in Pairs : Settled(p) => Settled(p)' /\ count'[p] >= count[p]
  BY StepTyped, StepKeeps DEF Keeps
<1>1. CASE \A p \in Pairs : Settled(p) => count'[p] = count[p]
  BY <1>0, <1>1, SettlesMore DEF Tallied!Next
<1>2. ASSUME NEW p \in Pairs, Settled(p), count'[p] # count[p]
      PROVE  Tallied!Next
  <2>1. PICK c \in Devices : Applied(c)
    BY <1>2 DEF Next, vars, server, app, Publish, Launch, Advance, QueryAnswers, QueryFails,
                StoreId, TrackInstall, Deliver, Refused, Browse, Kill, Increment
  <2>2. p \in Touched(Head(queue[c]))
    BY <1>2, <2>1 DEF Applied
  <2>3. Tallied!Count(p)
    BY <1>2, <2>1, <2>2, CountsOne
  <2>4. QED
    BY <2>3 DEF Tallied!Next
<1>3. QED
  BY <1>1, <1>2

\* Whatever is launched, killed, refused or sent late, the counters that every device
\* knows are a tally: they stay, and count one view or download at a time.
THEOREM RefinesTally == Spec => ImplementsTally
<1>1. Init => Tallied!Init /\ CountsAreOfOne
  <2>1. SUFFICES ASSUME Init PROVE Tallied!Init /\ CountsAreOfOne
    OBVIOUS
  <2>2. \A c \in Devices : ToSet(queue[c]) = {}
    BY <2>1, EmptySeq DEF Init, ToSet
  <2>3. \A p \in Pairs : Settled(p) => count[p] = 0
    BY <2>1 DEF Init, Settled
  <2>4. QED
    BY <2>2, <2>3 DEF CountsAreOfOne, Tallied!Init
<1>2. LaunchInv /\ CountsAreOfOne /\ [Next]_vars => [Tallied!Next]_TallyVars /\ CountsAreOfOne'
  BY StepTallies, StepOfOne DEF LaunchInv
<1>3. QED
  BY <1>1, <1>2, LaunchInvariant, PTL
     DEF Spec, ImplementsTally, Tallied!Spec, Tallied!vars, TallyVars
=============================================================================
