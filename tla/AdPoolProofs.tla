---------------------------- MODULE AdPoolProofs ----------------------------
(* Theorems about AdPool for every number of ads and batches of every size. *)
EXTENDS AdPool, SequenceTheorems, TLAPS

-----------------------------------------------------------------------------
(* Types *)

BatchType == [running : BOOLEAN, left : Nat, waits : Ads \cup {None}]
SeenType == [preloading : BOOLEAN, count : Nat]
AdStates == {"free", "loading", "loaded", "shown", "disposed"}

\* Two seconds are waited for an ad that is still counted.
WaitsForOne == \A b \in Batches : batch[b].waits # None => batch[b].left > 0

AdInv == TypeOK /\ WaitsForOne /\ PoolIsBacked

LEMMA Sizes ==
    First \in Nat /\ Tab \in Nat /\ More \in Nat /\ Low \in Nat
  BY SizesAssumption DEF SizesAssumption

LEMMA StartType ==
    /\ Idle \in BatchType
    /\ \A n \in Nat : Of(n) \in BatchType /\ Of(n).waits = None
    /\ Idle.waits = None
  BY DEF Idle, Of, BatchType

LEMMA Types ==
    TypeOK <=>
      /\ ready \in BOOLEAN /\ preloading \in BOOLEAN /\ count \in Nat
      /\ watched \in SeenType /\ timer \in BOOLEAN
      /\ ad \in [Ads -> AdStates] /\ again \in SUBSET Ads
      /\ pool \in Seq(Ads) /\ batch \in [Batches -> BatchType]
  BY DEF TypeOK, SeenType, BatchType, AdStates

LEMMA TypesNext ==
    ASSUME /\ ready' \in BOOLEAN /\ preloading' \in BOOLEAN /\ count' \in Nat
           /\ watched' \in SeenType /\ timer' \in BOOLEAN
           /\ ad' \in [Ads -> AdStates] /\ again' \in SUBSET Ads
           /\ pool' \in Seq(Ads) /\ batch' \in [Batches -> BatchType]
    PROVE  TypeOK'
  BY DEF TypeOK, SeenType, BatchType, AdStates

LEMMA InitAd == Init => AdInv
<1>1. SUFFICES ASSUME Init PROVE AdInv
  OBVIOUS
<1>2. pool = <<>> /\ pool \in Seq(Ads) /\ Len(pool) = 0
  BY <1>1, EmptySeq DEF Init
<1>3. batch \in [Batches -> BatchType] /\ \A b \in Batches : batch[b].waits = None
  BY <1>1, StartType DEF Init
<1>4. watched \in SeenType
  BY <1>1 DEF Init, SeenType
<1>5. TypeOK
  BY <1>1, <1>2, <1>3, <1>4, Types DEF Init, AdStates
<1>6. PoolIsBacked
  BY <1>1, <1>2 DEF Init, PoolIsBacked, CountIsCovered, PoolIsSound
<1>7. QED
  BY <1>3, <1>5, <1>6 DEF AdInv, WaitsForOne

-----------------------------------------------------------------------------
(* The listed ads *)

\* A listed ad is neither on its way nor free.
LEMMA ListedIsOut ==
    ASSUME PoolIsSound, NEW i \in 1 .. Len(pool)
    PROVE  ad[pool[i]] \notin {"free", "loading"}
  BY DEF PoolIsSound

\* A step that leaves the list alone, and a listed ad as it was, or loaded, or, if a
\* refresh has listed it, on the screen.
LEMMA ListKept ==
    ASSUME PoolIsSound, UNCHANGED pool,
           \A i \in 1 .. Len(pool) :
              /\ pool[i] \in again => pool[i] \in again'
              /\ \/ ad'[pool[i]] = ad[pool[i]]
                 \/ ad'[pool[i]] = "loaded"
                 \/ pool[i] \in again /\ ad'[pool[i]] \in {"shown", "disposed"}
    PROVE  PoolIsSound'
<1>1. \A i \in 1 .. Len(pool) :
         \/ ad'[pool[i]] = "loaded"
         \/ pool[i] \in again' /\ ad'[pool[i]] \in {"shown", "disposed"}
  BY DEF PoolIsSound
<1>2. \A i, j \in 1 .. Len(pool) : pool[i] = pool[j] => i = j \/ pool[i] \in again'
  BY DEF PoolIsSound
<1>3. QED
  BY <1>1, <1>2 DEF PoolIsSound

-----------------------------------------------------------------------------
(* Batches *)

\* Batches that start wait for nothing.
LEMMA PreloadKeeps ==
    ASSUME TypeOK, WaitsForOne, NEW B \in SUBSET Batches, NEW n \in Nat, Preload(B, n)
    PROVE  /\ preloading' \in BOOLEAN /\ batch' \in [Batches -> BatchType]
           /\ WaitsForOne'
<1>1. preloading \in BOOLEAN /\ batch \in [Batches -> BatchType]
  BY Types
<1>2. CASE ready
  <2>1. /\ preloading' = (preloading \/ B # {})
        /\ batch' = [b \in Batches |-> IF b \in B THEN Of(n) ELSE batch[b]]
    BY <1>2 DEF Preload
  <2>2. QED
    BY <1>1, <2>1, StartType DEF WaitsForOne
<1>3. CASE ~ready
  BY <1>1, <1>3 DEF Preload, WaitsForOne
<1>4. QED
  BY <1>2, <1>3

\* A step of one batch.
LEMMA BatchStep ==
    ASSUME batch \in [Batches -> BatchType], WaitsForOne,
           NEW b \in Batches, NEW r \in BatchType,
           r.waits # None => r.left > 0, batch' = [batch EXCEPT ![b] = r]
    PROVE  batch' \in [Batches -> BatchType] /\ WaitsForOne'
  BY DEF WaitsForOne

LEMMA AdvanceKeeps ==
    ASSUME AdInv, NEW b \in Batches, Advance(b)
    PROVE  AdInv'
<1>0. /\ ready \in BOOLEAN /\ preloading \in BOOLEAN /\ count \in Nat
      /\ watched \in SeenType /\ timer \in BOOLEAN
      /\ ad \in [Ads -> AdStates] /\ again \in SUBSET Ads
      /\ pool \in Seq(Ads) /\ batch \in [Batches -> BatchType]
  BY Types DEF AdInv
<1>l. Len(pool) \in Nat
  BY <1>0, LenProperties
<1>b. batch[b] \in BatchType /\ batch[b].left \in Nat /\ WaitsForOne
  BY <1>0 DEF BatchType, AdInv
<1>1. ASSUME NEW a \in Ads, Load(b, a) PROVE AdInv'
  <2>1. PICK r \in BatchType : /\ r = [batch[b] EXCEPT !.waits = a]
                               /\ r.left = batch[b].left /\ batch[b].left > 0
    <3>1. /\ [batch[b] EXCEPT !.waits = a] \in BatchType
          /\ [batch[b] EXCEPT !.waits = a].left = batch[b].left
      BY <1>b DEF BatchType
    <3>2. QED
      BY <1>1, <3>1 DEF Load
  <2>2. batch' = [batch EXCEPT ![b] = r]
    BY <1>1, <2>1 DEF Load
  <2>3. batch' \in [Batches -> BatchType] /\ WaitsForOne'
    BY <1>0, <1>b, <2>1, <2>2, BatchStep
  <2>4. /\ ad' \in [Ads -> AdStates] /\ again' \in SUBSET Ads
        /\ ad[a] = "free"
        /\ \A x \in Ads \ {a} : ad'[x] = ad[x] /\ (x \in again => x \in again')
    BY <1>0, <1>1 DEF Load, AdStates
  <2>5. UNCHANGED <<ready, preloading, count, watched, timer, pool>>
    BY <1>1 DEF Load
  <2>6. TypeOK'
    BY <1>0, <2>3, <2>4, <2>5, TypesNext
  <2>7. PoolIsBacked'
    <3>1. PoolIsSound /\ CountIsCovered
      BY DEF AdInv, PoolIsBacked
    <3>2. \A i \in 1 .. Len(pool) : pool[i] \in Ads \ {a}
      BY <1>0, <2>4, <3>1, ElementOfSeq, ListedIsOut
    <3>3. PoolIsSound'
      BY <2>4, <2>5, <3>1, <3>2, ListKept
    <3>4. QED
      BY <2>5, <3>1, <3>3 DEF PoolIsBacked, CountIsCovered
  <2>8. QED
    BY <2>3, <2>6, <2>7 DEF AdInv
<1>2. CASE LoadThrows(b)
  <2>1. PICK r \in BatchType : /\ r = [batch[b] EXCEPT !.left = @ - 1]
                               /\ r.waits = None
    <3>1. batch[b].left - 1 \in Nat /\ batch[b].waits = None
      BY <1>b, <1>2 DEF LoadThrows
    <3>2. /\ [batch[b] EXCEPT !.left = @ - 1] \in BatchType
          /\ [batch[b] EXCEPT !.left = @ - 1].waits = None
      BY <1>b, <3>1 DEF BatchType
    <3>3. QED
      BY <3>2
  <2>2. batch' = [batch EXCEPT ![b] = r]
    BY <1>2, <2>1 DEF LoadThrows
  <2>3. batch' \in [Batches -> BatchType] /\ WaitsForOne'
    BY <1>0, <1>b, <2>1, <2>2, BatchStep
  <2>4. UNCHANGED <<ready, preloading, count, watched, timer, ad, again, pool>>
    BY <1>2 DEF LoadThrows
  <2>5. QED
    BY <1>0, <2>3, <2>4, TypesNext DEF AdInv, PoolIsBacked, CountIsCovered, PoolIsSound
<1>3. CASE WaitEnds(b)
  <2>1. PICK r \in BatchType : /\ r = [batch[b] EXCEPT !.left = @ - 1, !.waits = None]
                               /\ r.waits = None
    <3>1. batch[b].left - 1 \in Nat
      BY <1>b, <1>3 DEF WaitEnds, WaitsForOne
    <3>2. /\ [batch[b] EXCEPT !.left = @ - 1, !.waits = None] \in BatchType
          /\ [batch[b] EXCEPT !.left = @ - 1, !.waits = None].waits = None
      BY <1>b, <3>1 DEF BatchType
    <3>3. QED
      BY <3>2
  <2>2. batch' = [batch EXCEPT ![b] = r]
    BY <1>3, <2>1 DEF WaitEnds
  <2>3. batch' \in [Batches -> BatchType] /\ WaitsForOne'
    BY <1>0, <1>b, <2>1, <2>2, BatchStep
  <2>4. UNCHANGED <<ready, preloading, count, watched, timer, ad, again, pool>>
    BY <1>3 DEF WaitEnds
  <2>5. QED
    BY <1>0, <2>3, <2>4, TypesNext DEF AdInv, PoolIsBacked, CountIsCovered, PoolIsSound
<1>4. CASE BatchEnds(b)
  <2>1. batch' \in [Batches -> BatchType] /\ WaitsForOne'
    BY <1>0, <1>b, <1>4, StartType, BatchStep DEF BatchEnds
  <2>2. /\ preloading' \in BOOLEAN /\ count' = Len(pool)
        /\ UNCHANGED <<ready, watched, timer, ad, again, pool>>
    BY <1>4 DEF BatchEnds, NotPreloading
  <2>3. TypeOK'
    BY <1>0, <1>l, <2>1, <2>2, TypesNext
  <2>4. PoolIsBacked'
    BY <1>l, <2>2 DEF AdInv, PoolIsBacked, CountIsCovered, PoolIsSound
  <2>5. QED
    BY <2>1, <2>3, <2>4 DEF AdInv
<1>5. QED
  BY <1>1, <1>2, <1>3, <1>4 DEF Advance

-----------------------------------------------------------------------------
(* The pool *)

\* An ad that enters the list was not in it, unless a refresh puts it there.
LEMMA LoadedKeeps ==
    ASSUME AdInv, NEW a \in Ads, AdLoaded(a)
    PROVE  AdInv'
<1>0. /\ ready \in BOOLEAN /\ preloading \in BOOLEAN /\ count \in Nat
      /\ watched \in SeenType /\ timer \in BOOLEAN
      /\ ad \in [Ads -> AdStates] /\ again \in SUBSET Ads
      /\ pool \in Seq(Ads) /\ batch \in [Batches -> BatchType]
      /\ Len(pool) \in Nat
  BY Types, LenProperties DEF AdInv
<1>s. PoolIsSound /\ CountIsCovered /\ WaitsForOne
  BY DEF AdInv, PoolIsBacked
<1>1. /\ \/ ad[a] = "loading" /\ ad'[a] = "loaded" /\ UNCHANGED again
         \/ ad[a] = "shown" /\ ad'[a] = "shown" /\ again' = again \cup {a}
      /\ ad' \in [Ads -> AdStates] /\ \A x \in Ads \ {a} : ad'[x] = ad[x]
      /\ pool' = Append(pool, a)
      /\ UNCHANGED <<ready, preloading, count, watched, timer, batch>>
  BY <1>0 DEF AdLoaded, AdStates
<1>2. /\ Append(pool, a) \in Seq(Ads)
      /\ Len(Append(pool, a)) = Len(pool) + 1
      /\ \A i \in 1 .. Len(pool) : Append(pool, a)[i] = pool[i]
      /\ Append(pool, a)[Len(pool) + 1] = a
  BY <1>0, AppendProperties
<1>3. TypeOK'
  <2>1. again' \in SUBSET Ads /\ pool' \in Seq(Ads)
    BY <1>0, <1>1, <1>2
  <2>2. QED
    BY <1>0, <1>1, <2>1, TypesNext
<1>4. CountIsCovered'
  BY <1>0, <1>1, <1>2, <1>s DEF CountIsCovered
<1>5. PoolIsSound'
  <2>1. \A i \in 1 .. Len(pool) : pool[i] \in Ads /\ pool'[i] = pool[i]
    BY <1>0, <1>1, <1>2, ElementOfSeq
  <2>2. PICK m \in Nat : m = Len(pool') /\ m = Len(pool) + 1 /\ pool'[m] = a
    BY <1>0, <1>1, <1>2
  <2>3. \A i \in 1 .. m : i \in 1 .. Len(pool) \/ i = m
    BY <1>0, <2>2
  <2>4. \A x \in again : x \in again'
    BY <1>1
  <2>5. \A i \in 1 .. Len(pool) : pool[i] = a => a \in again'
    BY <1>1, <1>s, ListedIsOut
  <2>6. \A i \in 1 .. Len(pool) :
           \/ ad'[pool[i]] = "loaded"
           \/ pool[i] \in again' /\ ad'[pool[i]] \in {"shown", "disposed"}
    <3>1. SUFFICES ASSUME NEW i \in 1 .. Len(pool)
                   PROVE  \/ ad'[pool[i]] = "loaded"
                          \/ /\ pool[i] \in again'
                             /\ ad'[pool[i]] \in {"shown", "disposed"}
      OBVIOUS
    <3>2. CASE pool[i] = a
      BY <1>1, <2>5, <3>2
    <3>3. CASE pool[i] # a
      BY <1>1, <1>s, <2>1, <2>4, <3>3 DEF PoolIsSound
    <3>4. QED
      BY <3>2, <3>3
  <2>7. \/ ad'[a] = "loaded"
        \/ a \in again' /\ ad'[a] \in {"shown", "disposed"}
    BY <1>1
  <2>8. \A i \in 1 .. m :
           \/ ad'[pool'[i]] = "loaded"
           \/ pool'[i] \in again' /\ ad'[pool'[i]] \in {"shown", "disposed"}
    BY <2>1, <2>2, <2>3, <2>6, <2>7
  <2>9. \A i, j \in 1 .. m : pool'[i] = pool'[j] => i = j \/ pool'[i] \in again'
    <3>1. SUFFICES ASSUME NEW i \in 1 .. m, NEW j \in 1 .. m,
                          pool'[i] = pool'[j], i # j
                   PROVE  pool'[i] \in again'
      OBVIOUS
    <3>2. CASE i = m \/ j = m
      BY <2>1, <2>2, <2>3, <2>5, <3>1, <3>2
    <3>3. CASE i # m /\ j # m
      BY <1>s, <2>1, <2>3, <2>4, <3>1, <3>3 DEF PoolIsSound
    <3>4. QED
      BY <3>2, <3>3
  <2>10. QED
    BY <2>2, <2>8, <2>9 DEF PoolIsSound
<1>6. QED
  BY <1>1, <1>3, <1>4, <1>5, <1>s DEF AdInv, PoolIsBacked, WaitsForOne

\* Ads taken from the head of the list leave those behind as they were.
LEMMA FrameKeeps ==
    ASSUME AdInv, Frame
    PROVE  AdInv'
<1>0. /\ ready \in BOOLEAN /\ preloading \in BOOLEAN /\ count \in Nat
      /\ watched \in SeenType /\ timer \in BOOLEAN
      /\ ad \in [Ads -> AdStates] /\ again \in SUBSET Ads
      /\ pool \in Seq(Ads) /\ batch \in [Batches -> BatchType]
      /\ Len(pool) \in Nat
  BY Types, LenProperties DEF AdInv
<1>1. PICK now \in {watched, [preloading |-> preloading, count |-> count]},
           k \in 0 .. Len(pool), B \in SUBSET {b \in Batches : ~batch[b].running} :
             /\ watched' = now
             /\ pool' = SubSeq(pool, k + 1, Len(pool))
             /\ ad' = [a \in Ads |->
                         IF ad[a] = "loaded" /\ \E i \in 1 .. k : pool[i] = a
                           THEN "shown" ELSE ad[a]]
             /\ count' = CountAfter(k)
             /\ Preload(B, More)
             /\ UNCHANGED <<ready, timer, again>>
  BY DEF Frame
<1>2. /\ pool' \in Seq(Ads) /\ Len(pool') = Len(pool) - k
      /\ \A i \in 1 .. Len(pool) - k : pool'[i] = pool[k + i]
  <2>1. \A i \in k + 1 .. Len(pool) : pool[i] \in Ads
    BY <1>0, <1>1, ElementOfSeq
  <2>2. /\ SubSeq(pool, k + 1, Len(pool)) \in Seq(Ads)
        /\ Len(SubSeq(pool, k + 1, Len(pool))) =
             IF k + 1 <= Len(pool) THEN Len(pool) - (k + 1) + 1 ELSE 0
        /\ \A i \in 1 .. Len(pool) - (k + 1) + 1 :
             SubSeq(pool, k + 1, Len(pool))[i] = pool[k + 1 + i - 1]
    BY <1>0, <1>1, <2>1, SubSeqProperties
  <2>3. QED
    BY <1>0, <1>1, <2>2
<1>3. /\ preloading' \in BOOLEAN /\ batch' \in [Batches -> BatchType] /\ WaitsForOne'
  <2>1. B \in SUBSET Batches /\ More \in Nat /\ Preload(B, More)
    BY <1>1, Sizes
  <2>2. QED
    BY <2>1, PreloadKeeps DEF AdInv
<1>4. count' \in Nat /\ count' <= Len(pool')
  BY <1>0, <1>1, <1>2 DEF CountAfter, AdInv, PoolIsBacked, CountIsCovered
<1>5. TypeOK'
  <2>1. watched' \in SeenType
    BY <1>0, <1>1 DEF SeenType
  <2>2. ad' \in [Ads -> AdStates]
    BY <1>0, <1>1 DEF AdStates
  <2>3. QED
    BY <1>0, <1>1, <1>2, <1>3, <1>4, <2>1, <2>2, TypesNext
<1>6. PoolIsBacked'
  <2>1. PoolIsSound
    BY DEF AdInv, PoolIsBacked
  <2>2. \A i \in 1 .. Len(pool) - k : k + i \in 1 .. Len(pool) /\ pool[k + i] \in Ads
    BY <1>0, <1>1, ElementOfSeq
  <2>3. \A i \in 1 .. Len(pool) - k :
           \/ ad'[pool[k + i]] = "loaded"
           \/ pool[k + i] \in again /\ ad'[pool[k + i]] \in {"shown", "disposed"}
    <3>1. SUFFICES ASSUME NEW i \in 1 .. Len(pool) - k
                   PROVE  \/ ad'[pool[k + i]] = "loaded"
                          \/ /\ pool[k + i] \in again
                             /\ ad'[pool[k + i]] \in {"shown", "disposed"}
      OBVIOUS
    <3>2. PICK x \in Ads : x = pool[k + i]
      BY <2>2
    <3>n. k + i \in 1 .. Len(pool)
      BY <2>2
    <3>o. \/ ad[pool[k + i]] = "loaded"
          \/ pool[k + i] \in again /\ ad[pool[k + i]] \in {"shown", "disposed"}
      BY <2>1, <3>n DEF PoolIsSound
    <3>3. ad[x] = "loaded" \/ (x \in again /\ ad[x] \in {"shown", "disposed"})
      BY <3>2, <3>o
    <3>4. CASE ad[x] = "loaded" /\ \E j \in 1 .. k : pool[j] = x
      <4>1. ad'[x] = "shown"
        BY <1>1, <3>4
      <4>2. PICK j \in 1 .. k : pool[j] = x
        BY <3>4
      <4>3. j \in 1 .. Len(pool) /\ j # k + i
        BY <1>0, <1>1
      <4>4. x \in again
        BY <2>1, <2>2, <3>2, <4>2, <4>3 DEF PoolIsSound
      <4>5. QED
        BY <3>2, <4>1, <4>4
    <3>5. CASE ~(ad[x] = "loaded" /\ \E j \in 1 .. k : pool[j] = x)
      <4>1. ad'[x] = ad[x]
        BY <1>1, <3>5
      <4>2. QED
        BY <3>2, <3>3, <4>1
    <3>6. QED
      BY <3>4, <3>5
  <2>4. \A i, j \in 1 .. Len(pool) - k :
           pool[k + i] = pool[k + j] => i = j \/ pool[k + i] \in again
    <3>1. SUFFICES ASSUME NEW i \in 1 .. Len(pool) - k, NEW j \in 1 .. Len(pool) - k,
                          pool[k + i] = pool[k + j], i # j
                   PROVE  pool[k + i] \in again
      OBVIOUS
    <3>2. k + i # k + j
      BY <1>0, <1>1, <3>1
    <3>3. QED
      BY <2>1, <2>2, <3>1, <3>2 DEF PoolIsSound
  <2>5. PICK m \in Nat : m = Len(pool') /\ m = Len(pool) - k
    <3>1. Len(pool') \in Nat
      BY <1>2, LenProperties
    <3>2. QED
      BY <1>2, <3>1
  <2>6. \A i \in 1 .. m : pool'[i] = pool[k + i]
    BY <1>2, <2>5
  <2>a. \A i \in 1 .. m :
           \/ ad'[pool'[i]] = "loaded"
           \/ pool'[i] \in again /\ ad'[pool'[i]] \in {"shown", "disposed"}
    <3>1. SUFFICES ASSUME NEW i \in 1 .. m
                   PROVE  \/ ad'[pool'[i]] = "loaded"
                          \/ /\ pool'[i] \in again
                             /\ ad'[pool'[i]] \in {"shown", "disposed"}
      OBVIOUS
    <3>2. i \in 1 .. Len(pool) - k /\ pool'[i] = pool[k + i]
      BY <2>5, <2>6
    <3>3. QED
      BY <2>3, <3>2
  <2>b. \A i, j \in 1 .. m : pool'[i] = pool'[j] => i = j \/ pool'[i] \in again
    <3>1. SUFFICES ASSUME NEW i \in 1 .. m, NEW j \in 1 .. m, pool'[i] = pool'[j]
                   PROVE  i = j \/ pool'[i] \in again
      OBVIOUS
    <3>2. /\ i \in 1 .. Len(pool) - k /\ j \in 1 .. Len(pool) - k
          /\ pool'[i] = pool[k + i] /\ pool'[j] = pool[k + j]
      BY <2>5, <2>6
    <3>3. QED
      BY <2>4, <3>1, <3>2
  <2>7. PoolIsSound'
    BY <1>1, <2>5, <2>a, <2>b, ZenonT(40) DEF PoolIsSound
  <2>8. QED
    BY <1>4, <2>7 DEF PoolIsBacked, CountIsCovered
<1>7. QED
  BY <1>3, <1>5, <1>6 DEF AdInv

LEMMA NextAd ==
    ASSUME AdInv, Next
    PROVE  AdInv'
<1>0. /\ ready \in BOOLEAN /\ preloading \in BOOLEAN /\ count \in Nat
      /\ watched \in SeenType /\ timer \in BOOLEAN
      /\ ad \in [Ads -> AdStates] /\ again \in SUBSET Ads
      /\ pool \in Seq(Ads) /\ batch \in [Batches -> BatchType]
  BY Types DEF AdInv
<1>1. ASSUME NEW b \in Batches, Initialised(b) PROVE AdInv'
  <2>1. batch' \in [Batches -> BatchType] /\ WaitsForOne'
    BY <1>0, <1>1, Sizes, StartType, BatchStep DEF Initialised, AdInv
  <2>2. /\ ready' \in BOOLEAN /\ preloading' \in BOOLEAN
        /\ UNCHANGED <<count, watched, timer, ad, again, pool>>
    BY <1>1 DEF Initialised
  <2>3. QED
    BY <1>0, <2>1, <2>2, TypesNext DEF AdInv, PoolIsBacked, CountIsCovered, PoolIsSound
<1>2. ASSUME NEW b \in Batches, TimerFires(b) PROVE AdInv'
  <2>1. {b} \in SUBSET Batches /\ Preload({b}, Tab)
    BY <1>2 DEF TimerFires
  <2>2. preloading' \in BOOLEAN /\ batch' \in [Batches -> BatchType] /\ WaitsForOne'
    BY <2>1, Sizes, PreloadKeeps DEF AdInv
  <2>3. timer' \in BOOLEAN /\ UNCHANGED <<ready, count, watched, ad, again, pool>>
    BY <1>2 DEF TimerFires
  <2>4. QED
    BY <1>0, <2>2, <2>3, TypesNext DEF AdInv, PoolIsBacked, CountIsCovered, PoolIsSound
<1>3. ASSUME NEW a \in Ads, AdFails(a) \/ Dropped(a) PROVE AdInv'
  <2>1. /\ ad' \in [Ads -> AdStates]
        /\ \A x \in Ads \ {a} : ad'[x] = ad[x]
        /\ \/ ad[a] = "loading"
           \/ ad[a] = "shown" /\ ad'[a] = "disposed"
           \/ ~InPool(a)
           \/ ad'[a] = "loaded"
        /\ UNCHANGED <<ready, preloading, count, watched, timer, again, pool, batch>>
    <3>1. CASE AdFails(a)
      BY <1>0, <3>1 DEF AdFails, AdStates
    <3>2. CASE Dropped(a)
      BY <1>0, <3>2 DEF Dropped, AdStates
    <3>3. QED
      BY <1>3, <3>1, <3>2
  <2>2. TypeOK'
    BY <1>0, <2>1, TypesNext
  <2>3. PoolIsSound /\ CountIsCovered
    BY DEF AdInv, PoolIsBacked
  <2>4. ASSUME NEW i \in 1 .. Len(pool)
        PROVE  \/ ad'[pool[i]] = ad[pool[i]]
               \/ ad'[pool[i]] = "loaded"
               \/ pool[i] \in again /\ ad'[pool[i]] \in {"shown", "disposed"}
    <3>1. pool[i] \in Ads /\ ad[pool[i]] # "loading"
      BY <1>0, <2>3, ElementOfSeq, ListedIsOut
    <3>2. CASE pool[i] = a
      <4>1. InPool(a)
        BY <3>2 DEF InPool
      <4>2. ad[a] = "shown" => a \in again
        BY <2>3, <3>2 DEF PoolIsSound
      <4>3. QED
        BY <2>1, <3>1, <3>2, <4>1, <4>2
    <3>3. CASE pool[i] # a
      BY <2>1, <3>1, <3>3
    <3>4. QED
      BY <3>2, <3>3
  <2>5. PoolIsSound'
    BY <2>1, <2>3, <2>4, ListKept
  <2>6. QED
    BY <2>1, <2>2, <2>3, <2>5 DEF AdInv, PoolIsBacked, CountIsCovered, WaitsForOne
<1>4. QED
  BY <1>1, <1>2, <1>3, AdvanceKeeps, LoadedKeeps, FrameKeeps DEF Next

LEMMA AdInvariant == Spec => []AdInv
<1>1. AdInv /\ UNCHANGED vars => AdInv'
  BY DEF AdInv, TypeOK, WaitsForOne, PoolIsBacked, CountIsCovered, PoolIsSound, vars
<1>2. QED
  BY <1>1, InitAd, NextAd, PTL DEF Spec

\* The flags, the counts, the ads, the list and the batches keep their types: no
\* batch counts below zero.
THEOREM TypeCorrect == Spec => []TypeOK
<1>1. AdInv => TypeOK
  BY DEF AdInv
<1>2. QED
  BY <1>1, AdInvariant, PTL

\* For batches of every size and number: loadedAdCount promises no more ads than the
\* list has, each of them loaded, there once and on screen nowhere; only an ad that was
\* refreshed on the screen is listed twice, or listed and shown.
THEOREM CountIsBacked == Spec => []PoolIsBacked
<1>1. AdInv => PoolIsBacked
  BY DEF AdInv
<1>2. QED
  BY <1>1, AdInvariant, PTL

-----------------------------------------------------------------------------
(* No ad is lost *)

\* Of the ads, only a frame makes loaded ones something else, and it takes those from
\* the head of the list; what is behind them keeps its order.
LEMMA FrameLosesNone ==
    ASSUME TypeOK, NoneIsLost, Frame
    PROVE  NoneIsLost'
<1>0. ad \in [Ads -> AdStates] /\ pool \in Seq(Ads)
      /\ Len(pool) \in Nat
  BY Types, LenProperties
<1>1. PICK k \in 0 .. Len(pool) :
        /\ pool' = SubSeq(pool, k + 1, Len(pool))
        /\ ad' = [a \in Ads |->
                    IF ad[a] = "loaded" /\ \E i \in 1 .. k : pool[i] = a
                      THEN "shown" ELSE ad[a]]
  BY DEF Frame
<1>2. /\ Len(pool') = Len(pool) - k
      /\ \A i \in 1 .. Len(pool) - k : pool'[i] = pool[k + i]
  <2>1. \A i \in k + 1 .. Len(pool) : pool[i] \in Ads
    BY <1>0, <1>1, ElementOfSeq
  <2>2. /\ Len(SubSeq(pool, k + 1, Len(pool))) =
             IF k + 1 <= Len(pool) THEN Len(pool) - (k + 1) + 1 ELSE 0
        /\ \A i \in 1 .. Len(pool) - (k + 1) + 1 :
             SubSeq(pool, k + 1, Len(pool))[i] = pool[k + 1 + i - 1]
    BY <1>0, <1>1, <2>1, SubSeqProperties
  <2>3. QED
    BY <1>0, <1>1, <2>2
<1>3. SUFFICES ASSUME NEW a \in Ads, ad'[a] = "loaded"
               PROVE  \E i \in 1 .. Len(pool') : pool'[i] = a
  BY DEF NoneIsLost, InPool
<1>4. ad[a] = "loaded" /\ \A i \in 1 .. k : pool[i] # a
  BY <1>1, <1>3
<1>5. PICK j \in 1 .. Len(pool) : pool[j] = a
  BY <1>4 DEF NoneIsLost, InPool
<1>6. j - k \in 1 .. Len(pool) - k /\ k + (j - k) = j
  BY <1>0, <1>1, <1>4, <1>5
<1>7. QED
  BY <1>2, <1>5, <1>6

LEMMA LoadedIsListed ==
    ASSUME TypeOK, NoneIsLost, NEW a \in Ads, AdLoaded(a)
    PROVE  NoneIsLost'
<1>0. ad \in [Ads -> AdStates] /\ pool \in Seq(Ads)
      /\ Len(pool) \in Nat
  BY Types, LenProperties
<1>1. /\ pool' = Append(pool, a)
      /\ \A x \in Ads \ {a} : ad'[x] = ad[x]
  BY <1>0 DEF AdLoaded
<1>2. /\ Len(pool') = Len(pool) + 1
      /\ \A i \in 1 .. Len(pool) : pool'[i] = pool[i]
      /\ pool'[Len(pool) + 1] = a
  BY <1>0, <1>1, AppendProperties
<1>3. ASSUME NEW x \in Ads, ad'[x] = "loaded", x # a
      PROVE  \E i \in 1 .. Len(pool') : pool'[i] = x
  <2>1. PICK i \in 1 .. Len(pool) : pool[i] = x
    BY <1>1, <1>3 DEF NoneIsLost, InPool
  <2>2. QED
    BY <1>0, <1>2, <2>1
<1>4. \E i \in 1 .. Len(pool') : pool'[i] = a
  BY <1>0, <1>2
<1>5. QED
  BY <1>3, <1>4 DEF NoneIsLost, InPool

LEMMA NextLosesNone ==
    ASSUME TypeOK, NoneIsLost, [Next]_vars
    PROVE  NoneIsLost'
<1>0. ad \in [Ads -> AdStates]
  BY Types
<1>1. CASE UNCHANGED <<ad, pool>>
  BY <1>1 DEF NoneIsLost, InPool
<1>2. ASSUME NEW b \in Batches, Initialised(b) \/ TimerFires(b) \/ Advance(b)
      PROVE  NoneIsLost'
  <2>1. ASSUME NEW a \in Ads, Load(b, a) PROVE NoneIsLost'
    <3>1. UNCHANGED pool /\ \A x \in Ads : ad'[x] = "loaded" => ad[x] = "loaded"
      BY <1>0, <2>1 DEF Load
    <3>2. QED
      BY <3>1 DEF NoneIsLost, InPool
  <2>2. CASE Initialised(b) \/ TimerFires(b) \/ LoadThrows(b) \/ WaitEnds(b) \/ BatchEnds(b)
    BY <1>1, <2>2 DEF Initialised, TimerFires, LoadThrows, WaitEnds, BatchEnds
  <2>3. QED
    BY <1>2, <2>1, <2>2 DEF Advance
<1>3. ASSUME NEW a \in Ads, AdFails(a) \/ Dropped(a) PROVE NoneIsLost'
  <2>1. UNCHANGED pool
        /\ \A x \in Ads : ad'[x] = "loaded" => ad[x] = "loaded" \/ InPool(x)
    BY <1>0, <1>3 DEF AdFails, Dropped
  <2>2. QED
    BY <2>1 DEF NoneIsLost, InPool
<1>4. QED
  BY <1>1, <1>2, <1>3, FrameLosesNone, LoadedIsListed DEF Next, vars

\* The pool is the ads that have loaded and no build has taken, and beside them only ads
\* that were refreshed on the screen, which the listener adds again; the count that
\* builds go by promises no more than the pool, however late ads load and whichever
\* batches overlap.
THEOREM PoolHasWhatLoaded == Spec => []PoolIsExact
<1>1. Init => NoneIsLost
  BY DEF Init, NoneIsLost
<1>2. TypeOK /\ NoneIsLost /\ [Next]_vars => NoneIsLost'
  BY NextLosesNone
<1>3. PoolIsBacked /\ NoneIsLost => PoolIsExact
  BY DEF PoolIsExact
<1>4. QED
  BY <1>1, <1>2, <1>3, TypeCorrect, CountIsBacked, PTL DEF Spec
=============================================================================
