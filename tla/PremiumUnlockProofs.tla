------------------------- MODULE PremiumUnlockProofs -------------------------
(* Theorems about PremiumUnlock for all sets of wallpapers and of checkouts. *)
EXTENDS PremiumUnlock, SequenceTheorems, TLAPS

Indices == 1 .. Len(journal)

\* What is on disk is in memory as well.
DiskBehind == disk.unlocked \subseteq prefs.unlocked

\* A write of unlocked_<id> on its way to the disk is in memory, and belongs to
\* a checkout whose handler credited that wallpaper.
JournalCredited ==
    \A i \in Indices : journal[i].key = "unlocked" =>
      /\ journal[i].value \in prefs.unlocked
      /\ attempt[journal[i].by].credit = journal[i].value
      /\ attempt[journal[i].by].stage \in {"await", "written", "credited"}

\* setBool has answered: the unlock is on disk.
WrittenOnDisk ==
    \A a \in Attempts : attempt[a].stage \in {"written", "credited"} =>
      attempt[a].credit \in disk.unlocked

PremiumInv ==
    /\ TypeOK
    /\ DiskBehind
    /\ JournalCredited
    /\ WrittenOnDisk
    /\ UnlockedWasPaid
    /\ PageAgreesWithPrefs

-----------------------------------------------------------------------------
(* Types *)

LEMMA WrittenType ==
    ASSUME NEW s \in Store, NEW op \in Write,
           op.key = "unlocked" => op.value \in Wallpapers
    PROVE  Written(s, op) \in Store
<1>1. CASE op.key = "pending"
  BY <1>1 DEF Written, Store, Write
<1>2. CASE op.key = "unlocked"
  BY <1>2 DEF Written, Store, Write
<1>3. QED
  BY <1>1, <1>2 DEF Write

LEMMA SetterType ==
    ASSUME TypeOK, NEW op \in Write, SetPrefs(op),
           op.key = "unlocked" => op.value \in Wallpapers
    PROVE  prefs' \in Store /\ journal' \in Seq(Write)
<1>1. prefs' \in Store
  BY WrittenType DEF SetPrefs, TypeOK
<1>2. journal' \in Seq(Write)
  BY AppendProperties DEF SetPrefs, TypeOK
<1>3. QED
  BY <1>1, <1>2

LEMMA SetPendingType ==
    ASSUME TypeOK, NEW a \in Attempts, NEW w \in Wallpapers \cup {None},
           SetPending(a, w)
    PROVE  prefs' \in Store /\ journal' \in Seq(Write)
<1>1. [by |-> a, key |-> "pending", value |-> w] \in Write
  BY DEF Write
<1>2. QED
  BY <1>1, SetterType DEF SetPending

LEMMA SetUnlockedType ==
    ASSUME TypeOK, NEW a \in Attempts, NEW w \in Wallpapers, SetUnlocked(a, w)
    PROVE  prefs' \in Store /\ journal' \in Seq(Write)
<1>1. [by |-> a, key |-> "unlocked", value |-> w] \in Write
  BY DEF Write
<1>2. QED
  BY <1>1, SetterType DEF SetUnlocked

\* A checkout moves to another stage.
LEMMA MovedType ==
    ASSUME TypeOK, NEW a \in Attempts, NEW s \in Stages,
           attempt' = [attempt EXCEPT ![a].stage = s]
    PROVE  attempt' \in [Attempts -> Attempt]
<1>1. [attempt[a] EXCEPT !.stage = s] \in Attempt
  BY DEF TypeOK, Attempt
<1>2. QED
  BY <1>1 DEF TypeOK

LEMMA UnusedType == Unused \in Attempt
  BY DEF Unused, Attempt, Stages

Page == [wallpaper : Wallpapers \cup {None}, isUnlocked : BOOLEAN, timers : Nat]

LEMMA NoPageType == NoPage \in Page
  BY DEF NoPage, Page

LEMMA PageType ==
    ASSUME TypeOK, NEW n \in Nat, NEW u \in BOOLEAN
    PROVE  [page EXCEPT !.timers = n, !.isUnlocked = u] \in Page
  BY DEF TypeOK, Page

\* The head of the journal is its first element, the tail is the rest.
LEMMA JournalHead ==
    ASSUME TypeOK, journal # <<>>
    PROVE  /\ Head(journal) \in Write
           /\ 1 \in Indices /\ Head(journal) = journal[1]
           /\ Tail(journal) \in Seq(Write)
           /\ Len(Tail(journal)) = Len(journal) - 1
           /\ \A i \in 1 .. Len(Tail(journal)) :
                i + 1 \in Indices /\ Tail(journal)[i] = journal[i + 1]
<1>1. journal \in Seq(Write)
  BY DEF TypeOK
<1>2. Len(journal) \in Nat /\ Len(journal) > 0
  BY <1>1, EmptySeq, LenProperties
<1>3. QED
  BY <1>1, <1>2, HeadTailProperties DEF Indices

-----------------------------------------------------------------------------
(* The parts of the invariant, step by step *)

Credited == {"await", "written", "credited"}

\* No checkout loses the wallpaper its handler credited.
KeepsCredits ==
    \A a \in Attempts : attempt[a].stage \in Credited =>
      attempt'[a].stage \in Credited /\ attempt'[a].credit = attempt[a].credit

LEMMA SameJournal ==
    ASSUME TypeOK, JournalCredited, KeepsCredits, UNCHANGED <<prefs, journal>>
    PROVE  JournalCredited'
<1> SUFFICES ASSUME NEW i \in Indices, journal[i].key = "unlocked"
             PROVE  /\ journal[i].value \in prefs.unlocked
                    /\ attempt'[journal[i].by].credit = journal[i].value
                    /\ attempt'[journal[i].by].stage \in Credited
  BY DEF JournalCredited, Indices, Credited
<1>1. journal[i] \in Write
  BY LenProperties DEF TypeOK, Indices
<1>2. journal[i].by \in Attempts
  BY <1>1 DEF Write
<1>3. QED
  BY <1>2 DEF JournalCredited, KeepsCredits, Credited

LEMMA LongerJournal ==
    ASSUME TypeOK, JournalCredited, KeepsCredits,
           NEW op \in Write, SetPrefs(op),
           op.key = "unlocked" => /\ attempt'[op.by].credit = op.value
                                  /\ attempt'[op.by].stage \in Credited
    PROVE  JournalCredited'
<1>1. prefs.unlocked \subseteq prefs'.unlocked
  BY DEF SetPrefs, Written, TypeOK, Store
<1>2. op.key = "unlocked" => op.value \in prefs'.unlocked
  BY DEF SetPrefs, Written, TypeOK, Store
<1>3. /\ journal \in Seq(Write) /\ Len(journal) \in Nat
      /\ journal' = Append(journal, op)
      /\ Len(journal') = Len(journal) + 1
  BY AppendProperties, LenProperties DEF SetPrefs, TypeOK
<1> SUFFICES ASSUME NEW i \in 1 .. Len(journal'), journal'[i].key = "unlocked"
             PROVE  /\ journal'[i].value \in prefs'.unlocked
                    /\ attempt'[journal'[i].by].credit = journal'[i].value
                    /\ attempt'[journal'[i].by].stage \in Credited
  BY DEF JournalCredited, Indices, Credited
<1>4. CASE i \in Indices
  <2>1. journal'[i] = journal[i]
    BY <1>3, <1>4, AppendProperties DEF Indices
  <2>2. journal[i].by \in Attempts
    <3>1. journal[i] \in Write
      BY <1>3, <1>4, LenProperties DEF Indices
    <3>2. QED
      BY <3>1 DEF Write
  <2>3. /\ journal[i].value \in prefs.unlocked
        /\ attempt[journal[i].by].credit = journal[i].value
        /\ attempt[journal[i].by].stage \in Credited
    BY <1>4, <2>1 DEF JournalCredited, Credited
  <2>4. QED
    BY <1>1, <2>1, <2>2, <2>3 DEF KeepsCredits
<1>5. CASE i \notin Indices
  <2>1. i = Len(journal) + 1
    BY <1>3, <1>5 DEF Indices
  <2>2. journal'[i] = op
    BY <1>3, <2>1, AppendProperties
  <2>3. QED
    BY <1>2, <2>2
<1>6. QED
  BY <1>4, <1>5

\* Steps that leave the preferences alone and credit nothing.
LEMMA QuietStep ==
    ASSUME PremiumInv, TypeOK', UNCHANGED <<prefs, disk, journal>>,
           \A a \in Attempts :
             /\ attempt'[a].credit = attempt[a].credit
             /\ \/ attempt'[a].stage = attempt[a].stage
                \/ /\ attempt[a].stage \notin Credited
                   /\ attempt'[a].stage \notin Credited
                   /\ attempt[a].stage = "over" => attempt'[a].stage = "over",
           PageAgreesWithPrefs'
    PROVE  PremiumInv'
<1>1. KeepsCredits
  BY DEF KeepsCredits, PremiumInv, TypeOK
<1>2. JournalCredited'
  BY <1>1, SameJournal DEF PremiumInv
<1>3. WrittenOnDisk'
  BY DEF PremiumInv, WrittenOnDisk, Credited
<1>4. UnlockedWasPaid'
  <2> SUFFICES ASSUME NEW w \in prefs.unlocked \cup disk.unlocked
               PROVE  \E a \in Attempts :
                        /\ attempt'[a].credit = w
                        /\ attempt'[a].stage \in {"await", "written", "credited", "over"}
    BY DEF UnlockedWasPaid
  <2>1. PICK a \in Attempts :
          /\ attempt[a].credit = w
          /\ attempt[a].stage \in {"await", "written", "credited", "over"}
    BY DEF PremiumInv, UnlockedWasPaid
  <2>2. attempt'[a].stage \in {"await", "written", "credited", "over"}
    BY <2>1 DEF Credited
  <2>3. QED
    BY <2>1, <2>2
<1>5. DiskBehind'
  BY DEF PremiumInv, DiskBehind
<1>6. QED
  BY <1>2, <1>3, <1>4, <1>5 DEF PremiumInv

-----------------------------------------------------------------------------
(* The page and the payment provider *)

LEMMA PageSteps ==
    ASSUME PremiumInv,
           (\E w \in Wallpapers : OpenPage(w)) \/ ClosePage \/ RecheckStatus
    PROVE  PremiumInv'
<1>1. UNCHANGED <<prefs, disk, journal, attempt>>
  BY DEF OpenPage, ClosePage, RecheckStatus
<1>2. CASE \E w \in Wallpapers : OpenPage(w)
  <2>1. PICK w \in Wallpapers : OpenPage(w)
    BY <1>2
  <2>2. TypeOK'
    BY <2>1 DEF OpenPage, PremiumInv, TypeOK
  <2>3. page'.wallpaper = w /\ page'.isUnlocked = (w \in prefs.unlocked)
    BY <2>1 DEF OpenPage
  <2>4. PageAgreesWithPrefs'
    BY <1>1, <2>3 DEF PageAgreesWithPrefs, PremiumInv, WrittenOnDisk, DiskBehind
  <2>5. QED
    BY <1>1, <2>2, <2>4, QuietStep
<1>3. CASE ClosePage
  <2>1. TypeOK'
    BY <1>3, NoPageType DEF ClosePage, PremiumInv, TypeOK, Page
  <2>2. PageAgreesWithPrefs'
    BY <1>3 DEF ClosePage, NoPage, PageAgreesWithPrefs
  <2>3. QED
    BY <1>1, <2>1, <2>2, QuietStep
<1>4. CASE RecheckStatus
  <2>1. /\ page.wallpaper \in Wallpapers \cup {None} /\ page.timers \in Nat
        /\ page.timers > 0
        /\ page' = [page EXCEPT !.timers = @ - 1,
                                !.isUnlocked = page.wallpaper \in prefs.unlocked]
    BY <1>4 DEF RecheckStatus, PremiumInv, TypeOK
  <2>2. page.timers - 1 \in Nat
    BY <2>1
  <2>3. (page.wallpaper \in prefs.unlocked) \in BOOLEAN
    OBVIOUS
  <2>4. TypeOK'
    <3>1. page' \in Page
      BY <2>1, <2>2, <2>3, PageType DEF PremiumInv
    <3>2. QED
      BY <1>4, <3>1 DEF RecheckStatus, PremiumInv, TypeOK, Page
  <2>5. /\ page'.wallpaper = page.wallpaper
        /\ page'.isUnlocked = (page.wallpaper \in prefs.unlocked)
    BY <2>1 DEF PremiumInv, TypeOK
  <2>6. PageAgreesWithPrefs'
    BY <1>1, <2>5 DEF PageAgreesWithPrefs, PremiumInv, WrittenOnDisk, DiskBehind
  <2>7. QED
    BY <1>1, <2>4, <2>6, QuietStep
<1>5. QED
  BY <1>2, <1>3, <1>4

LEMMA MoveStep ==
    ASSUME PremiumInv, NEW a \in Attempts,
           NEW from \in Stages \ (Credited \cup {"over"}),
           NEW to \in Stages \ Credited, Move(a, from, to)
    PROVE  PremiumInv'
<1>1. attempt' \in [Attempts -> Attempt]
  BY MovedType DEF Move, PremiumInv
<1>2. TypeOK'
  BY <1>1 DEF Move, PremiumInv, TypeOK
<1>3. /\ attempt[a].stage = from /\ attempt'[a].stage = to
      /\ attempt'[a].credit = attempt[a].credit
      /\ \A b \in Attempts \ {a} : attempt'[b] = attempt[b]
  BY DEF Move, PremiumInv, TypeOK, Attempt
<1>4. UNCHANGED <<prefs, disk, journal, page>>
  BY DEF Move
<1>5. PageAgreesWithPrefs'
  <2>1. PageAgreesWithPrefs
    BY DEF PremiumInv
  <2>2. \A b \in Attempts : attempt'[b].stage = "credited" =>
          attempt[b].stage = "credited" /\ attempt'[b].credit = attempt[b].credit
    BY <1>3 DEF Credited
  <2>3. QED
    BY <1>4, <2>1, <2>2 DEF PageAgreesWithPrefs
<1>6. \A b \in Attempts :
        /\ attempt'[b].credit = attempt[b].credit
        /\ \/ attempt'[b].stage = attempt[b].stage
           \/ /\ attempt[b].stage \notin Credited
              /\ attempt'[b].stage \notin Credited
              /\ attempt[b].stage = "over" => attempt'[b].stage = "over"
  BY <1>3
<1>7. QED
  BY <1>2, <1>4, <1>5, <1>6, QuietStep

LEMMA ProviderSteps ==
    ASSUME PremiumInv, NEW a \in Attempts,
           \/ Cover(a) \/ Pay(a) \/ Fail(a) \/ ChooseWallet(a)
           \/ DropPaymentSuccess(a) \/ HandleExternalWallet(a)
    PROVE  PremiumInv'
<1>1. /\ {"opening", "shown", "paid", "wallet"} \subseteq Stages \ (Credited \cup {"over"})
      /\ {"shown", "paid", "failed", "wallet", "over"} \subseteq Stages \ Credited
  BY DEF Stages, Credited
<1>2. QED
  BY <1>1, MoveStep DEF Cover, Pay, Fail, ChooseWallet, DropPaymentSuccess,
                        HandleExternalWallet

-----------------------------------------------------------------------------
(* The steps that write the preferences *)

\* pending_unlock is set or removed; the unlocked wallpapers stay.
LEMMA PendingStep ==
    ASSUME PremiumInv, TypeOK', KeepsCredits, NEW a \in Attempts,
           NEW w \in Wallpapers \cup {None}, SetPending(a, w), UNCHANGED disk,
           \A b \in Attempts :
             /\ attempt'[b].credit = attempt[b].credit \/ attempt[b].stage \in Stages \ (Credited \cup {"over"})
             /\ attempt[b].stage = "over" => attempt'[b].stage = "over"
             /\ attempt'[b].stage \in {"written", "credited"} =>
                  attempt[b].stage \in {"written", "credited"},
           PageAgreesWithPrefs'
    PROVE  PremiumInv'
<1> DEFINE op == [by |-> a, key |-> "pending", value |-> w]
<1>1. op \in Write /\ SetPrefs(op) /\ op.key = "pending"
  BY DEF SetPending, Write
<1>2. prefs'.unlocked = prefs.unlocked
  BY DEF SetPending, SetPrefs, Written, PremiumInv, TypeOK, Store
<1>3. JournalCredited'
  <2>1. TypeOK /\ JournalCredited
    BY DEF PremiumInv
  <2> HIDE DEF op
  <2>2. QED
    BY <1>1, <2>1, LongerJournal
<1>4. WrittenOnDisk'
  BY DEF PremiumInv, WrittenOnDisk, KeepsCredits, Credited
<1>5. UnlockedWasPaid'
  <2> SUFFICES ASSUME NEW v \in prefs.unlocked \cup disk.unlocked
               PROVE  \E b \in Attempts :
                        /\ attempt'[b].credit = v
                        /\ attempt'[b].stage \in {"await", "written", "credited", "over"}
    BY <1>2 DEF UnlockedWasPaid
  <2>1. PICK b \in Attempts :
          /\ attempt[b].credit = v
          /\ attempt[b].stage \in {"await", "written", "credited", "over"}
    BY DEF PremiumInv, UnlockedWasPaid
  <2>2. QED
    BY <2>1 DEF KeepsCredits, Credited
<1>6. DiskBehind'
  BY <1>2 DEF PremiumInv, DiskBehind
<1>7. QED
  BY <1>3, <1>4, <1>5, <1>6 DEF PremiumInv

LEMMA UnlockStep ==
    ASSUME PremiumInv, NEW a \in Attempts, UnlockWallpaper(a)
    PROVE  PremiumInv'
<1>1. page.wallpaper \in Wallpapers
  BY DEF UnlockWallpaper, PremiumInv, TypeOK
<1>2. prefs' \in Store /\ journal' \in Seq(Write)
  BY <1>1, SetPendingType DEF UnlockWallpaper, PremiumInv
<1>3. [Unused EXCEPT !.stage = "opening", !.wallpaper = page.wallpaper] \in Attempt
  BY <1>1 DEF Unused, Attempt, Stages
<1>4. attempt' \in [Attempts -> Attempt]
  BY <1>3 DEF UnlockWallpaper, PremiumInv, TypeOK
<1>5. /\ attempt[a].stage = "unused" /\ attempt'[a].stage = "opening"
      /\ \A b \in Attempts \ {a} : attempt'[b] = attempt[b]
  BY DEF UnlockWallpaper, Unused, PremiumInv, TypeOK
<1>6. /\ page' = [page EXCEPT !.timers = @ + 1]
      /\ page.timers + 1 \in Nat /\ page \in Page
  BY DEF UnlockWallpaper, PremiumInv, TypeOK, Page
<1>7. page' \in Page /\ page'.wallpaper = page.wallpaper
      /\ page'.isUnlocked = page.isUnlocked
  BY <1>6 DEF Page
<1>8. crossed' \in BOOLEAN
  BY DEF UnlockWallpaper, PremiumInv, TypeOK
<1>9. TypeOK'
  BY <1>2, <1>4, <1>7, <1>8 DEF UnlockWallpaper, PremiumInv, TypeOK, Page
<1>10. KeepsCredits
  BY <1>5 DEF KeepsCredits, Credited
<1>11. PageAgreesWithPrefs'
  <2>1. prefs'.unlocked = prefs.unlocked
    BY DEF UnlockWallpaper, SetPending, SetPrefs, Written, PremiumInv, TypeOK, Store
  <2>2. PageAgreesWithPrefs
    BY DEF PremiumInv
  <2>3. QED
    BY <1>5, <1>7, <2>1, <2>2 DEF PageAgreesWithPrefs
<1>12. \A b \in Attempts :
         /\ attempt'[b].credit = attempt[b].credit \/ attempt[b].stage \in Stages \ (Credited \cup {"over"})
         /\ attempt[b].stage = "over" => attempt'[b].stage = "over"
         /\ attempt'[b].stage \in {"written", "credited"} =>
              attempt[b].stage \in {"written", "credited"}
  BY <1>5 DEF Stages, Credited
<1>13. QED
  <2>1. SetPending(a, page.wallpaper) /\ UNCHANGED disk
    BY DEF UnlockWallpaper
  <2>2. QED
    BY <1>1, <1>9, <1>10, <1>11, <1>12, <2>1, PendingStep

LEMMA ErrorStep ==
    ASSUME PremiumInv, NEW a \in Attempts, HandlePaymentError(a)
    PROVE  PremiumInv'
<1>1. prefs' \in Store /\ journal' \in Seq(Write)
  BY SetPendingType DEF HandlePaymentError, PremiumInv
<1>2. attempt' \in [Attempts -> Attempt]
  <2>1. "over" \in Stages
    BY DEF Stages
  <2>2. QED
    BY <2>1, MovedType DEF HandlePaymentError, PremiumInv
<1>3. TypeOK'
  BY <1>1, <1>2 DEF HandlePaymentError, PremiumInv, TypeOK
<1>4. /\ attempt[a].stage = "failed" /\ attempt'[a].stage = "over"
      /\ attempt'[a].credit = attempt[a].credit
      /\ \A b \in Attempts \ {a} : attempt'[b] = attempt[b]
  BY DEF HandlePaymentError, PremiumInv, TypeOK, Attempt
<1>5. KeepsCredits
  BY <1>4 DEF KeepsCredits, Credited
<1>6. \A b \in Attempts :
        /\ attempt'[b].credit = attempt[b].credit
        /\ attempt[b].stage = "over" => attempt'[b].stage = "over"
        /\ attempt'[b].stage \in {"written", "credited"} =>
             attempt[b].stage \in {"written", "credited"}
  BY <1>4
<1>7. PageAgreesWithPrefs'
  <2>1. prefs'.unlocked = prefs.unlocked /\ page' = page
    BY DEF HandlePaymentError, SetPending, SetPrefs, Written, PremiumInv, TypeOK, Store
  <2>2. PageAgreesWithPrefs
    BY DEF PremiumInv
  <2>3. QED
    BY <1>4, <2>1, <2>2 DEF PageAgreesWithPrefs
<1>8. SetPending(a, None) /\ UNCHANGED disk
  BY DEF HandlePaymentError
<1>9. QED
  BY <1>3, <1>5, <1>6, <1>7, <1>8, PendingStep

LEMMA FinishStep ==
    ASSUME PremiumInv, NEW a \in Attempts, FinishPaymentSuccess(a)
    PROVE  PremiumInv'
<1>1. prefs' \in Store /\ journal' \in Seq(Write)
  BY SetPendingType DEF FinishPaymentSuccess, PremiumInv
<1>2. attempt' \in [Attempts -> Attempt]
  <2>1. "credited" \in Stages
    BY DEF Stages
  <2>2. QED
    BY <2>1, MovedType DEF FinishPaymentSuccess, PremiumInv
<1>3. /\ page' \in Page
      /\ page'.wallpaper = page.wallpaper
      /\ page'.isUnlocked = (page.isUnlocked \/ ConcernsPage(a))
  BY DEF FinishPaymentSuccess, PremiumInv, TypeOK, Page
<1>4. TypeOK'
  BY <1>1, <1>2, <1>3 DEF FinishPaymentSuccess, PremiumInv, TypeOK, Page
<1>5. /\ attempt[a].stage = "written" /\ attempt'[a].stage = "credited"
      /\ attempt'[a].credit = attempt[a].credit
      /\ \A b \in Attempts \ {a} : attempt'[b] = attempt[b]
  BY DEF FinishPaymentSuccess, SetBoolAnswered, PremiumInv, TypeOK, Attempt
<1>6. KeepsCredits
  BY <1>5 DEF KeepsCredits, Credited
<1>7. \A b \in Attempts :
        /\ attempt'[b].credit = attempt[b].credit
        /\ attempt[b].stage = "over" => attempt'[b].stage = "over"
        /\ attempt'[b].stage \in {"written", "credited"} =>
             attempt[b].stage \in {"written", "credited"}
  BY <1>5
<1>8. PageAgreesWithPrefs'
  <2>1. prefs'.unlocked = prefs.unlocked
    BY DEF FinishPaymentSuccess, SetPending, SetPrefs, Written, PremiumInv, TypeOK, Store
  <2>2. PageAgreesWithPrefs
    BY DEF PremiumInv
  <2>3. attempt[a].credit \in prefs.unlocked
    BY <1>5 DEF PremiumInv, WrittenOnDisk, DiskBehind
  <2>4. page'.wallpaper # None /\ page'.isUnlocked => page'.wallpaper \in prefs'.unlocked
    BY <1>3, <2>1, <2>2, <2>3 DEF PageAgreesWithPrefs, ConcernsPage
  <2>5. ASSUME NEW b \in Attempts, attempt'[b].stage = "credited", page'.wallpaper # None,
               attempt'[b].credit = page'.wallpaper
        PROVE  page'.isUnlocked
    <3>1. CASE b = a
      BY <1>3, <1>5, <2>5, <3>1 DEF ConcernsPage
    <3>2. CASE b # a
      BY <1>3, <1>5, <2>2, <2>5, <3>2 DEF PageAgreesWithPrefs
    <3>3. QED
      BY <3>1, <3>2
  <2>6. QED
    BY <2>4, <2>5 DEF PageAgreesWithPrefs
<1>9. SetPending(a, None) /\ UNCHANGED disk
  BY DEF FinishPaymentSuccess
<1>10. QED
  BY <1>4, <1>6, <1>7, <1>8, <1>9, PendingStep

LEMMA SuccessStep ==
    ASSUME PremiumInv, NEW a \in Attempts, HandlePaymentSuccess(a)
    PROVE  PremiumInv'
<1> DEFINE w == prefs.pending
<1> DEFINE op == [by |-> a, key |-> "unlocked", value |-> w]
<1>1. w \in Wallpapers
  BY DEF HandlePaymentSuccess, PremiumInv, TypeOK, Store
<1>2. prefs' \in Store /\ journal' \in Seq(Write)
  BY <1>1, SetUnlockedType DEF HandlePaymentSuccess, PremiumInv
<1>3. [attempt[a] EXCEPT !.stage = "await", !.credit = w] \in Attempt
  BY <1>1 DEF PremiumInv, TypeOK, Attempt, Stages
<1>4. attempt' \in [Attempts -> Attempt]
  BY <1>3 DEF HandlePaymentSuccess, PremiumInv, TypeOK
<1>5. TypeOK'
  BY <1>2, <1>4 DEF HandlePaymentSuccess, PremiumInv, TypeOK
<1>6. /\ attempt[a].stage = "paid" /\ attempt'[a].stage = "await"
      /\ attempt'[a].credit = w
      /\ \A b \in Attempts \ {a} : attempt'[b] = attempt[b]
  BY DEF HandlePaymentSuccess, PremiumInv, TypeOK, Attempt
<1>7. prefs'.unlocked = prefs.unlocked \cup {w}
  BY DEF HandlePaymentSuccess, SetUnlocked, SetPrefs, Written, PremiumInv, TypeOK, Store
<1>8. KeepsCredits
  BY <1>6 DEF KeepsCredits, Credited
<1>9. JournalCredited'
  <2>1. /\ op \in Write /\ SetPrefs(op)
        /\ attempt'[op.by].credit = op.value /\ attempt'[op.by].stage \in Credited
    BY <1>1, <1>6 DEF HandlePaymentSuccess, SetUnlocked, Write, Credited
  <2>2. TypeOK /\ JournalCredited
    BY DEF PremiumInv
  <2> HIDE DEF op
  <2>3. QED
    BY <1>8, <2>1, <2>2, LongerJournal
<1>10. UNCHANGED <<disk, page>>
  BY DEF HandlePaymentSuccess
<1>11. WrittenOnDisk'
  BY <1>6, <1>10 DEF PremiumInv, WrittenOnDisk
<1>12. UnlockedWasPaid'
  <2> SUFFICES ASSUME NEW v \in prefs'.unlocked \cup disk'.unlocked
               PROVE  \E b \in Attempts :
                        /\ attempt'[b].credit = v
                        /\ attempt'[b].stage \in {"await", "written", "credited", "over"}
    BY DEF UnlockedWasPaid
  <2>1. CASE v = w
    BY <1>6, <2>1
  <2>2. CASE v \in prefs.unlocked \cup disk.unlocked
    <3>1. PICK b \in Attempts :
            /\ attempt[b].credit = v
            /\ attempt[b].stage \in {"await", "written", "credited", "over"}
      BY <2>2 DEF PremiumInv, UnlockedWasPaid
    <3>2. QED
      BY <1>6, <3>1
  <2>3. QED
    BY <1>7, <1>10, <2>1, <2>2
<1>13. DiskBehind'
  BY <1>7, <1>10 DEF PremiumInv, DiskBehind
<1>14. PageAgreesWithPrefs'
  <2>1. PageAgreesWithPrefs
    BY DEF PremiumInv
  <2>2. QED
    BY <1>6, <1>7, <1>10, <2>1 DEF PageAgreesWithPrefs
<1>15. QED
  BY <1>5, <1>9, <1>11, <1>12, <1>13, <1>14 DEF PremiumInv

-----------------------------------------------------------------------------
(* The disk *)

LEMMA FlushStep == ASSUME PremiumInv, Flush PROVE PremiumInv'
<1> DEFINE op == Head(journal)
<1>1. TypeOK /\ JournalCredited /\ journal # <<>>
  BY DEF PremiumInv, Flush
<1>2. /\ op \in Write /\ 1 \in Indices /\ op = journal[1]
      /\ Tail(journal) \in Seq(Write)
      /\ \A i \in 1 .. Len(Tail(journal)) :
           i + 1 \in Indices /\ Tail(journal)[i] = journal[i + 1]
  BY <1>1, JournalHead
<1> HIDE DEF op
<1>3. op.by \in Attempts
  BY <1>2 DEF Write
<1>4. /\ disk' = Written(disk, op) /\ journal' = Tail(journal)
      /\ attempt' = IF op.key = "unlocked"
                      THEN [attempt EXCEPT ![op.by].stage = "written"] ELSE attempt
      /\ UNCHANGED <<prefs, page, restarts, crossed>>
  BY DEF Flush, op
<1>5. op.key = "unlocked" => /\ op.value \in prefs.unlocked
                             /\ attempt[op.by].credit = op.value
                             /\ attempt[op.by].stage \in Credited
  BY <1>1, <1>2 DEF JournalCredited, Credited
<1>6. /\ op.key = "unlocked" => attempt'[op.by].stage = "written"
      /\ op.key # "unlocked" => attempt' = attempt
      /\ \A b \in Attempts :
           /\ attempt'[b].credit = attempt[b].credit
           /\ b # op.by => attempt'[b] = attempt[b]
  <2>1. CASE op.key = "unlocked"
    BY <1>1, <1>3, <1>4, <2>1 DEF TypeOK, Attempt
  <2>2. CASE op.key # "unlocked"
    BY <1>4, <2>2
  <2>3. QED
    BY <2>1, <2>2
<1>7. op.key = "unlocked" => op.value \in Wallpapers
  BY <1>1, <1>5 DEF TypeOK, Store
<1>8. disk' \in Store
  BY <1>1, <1>2, <1>4, <1>7, WrittenType DEF TypeOK
<1>9. attempt' \in [Attempts -> Attempt]
  <2>1. CASE op.key = "unlocked"
    <3>1. "written" \in Stages
      BY DEF Stages
    <3>2. QED
      BY <1>1, <1>3, <1>4, <2>1, <3>1, MovedType
  <2>2. CASE op.key # "unlocked"
    BY <1>1, <1>4, <2>2 DEF TypeOK
  <2>3. QED
    BY <2>1, <2>2
<1>10. TypeOK'
  BY <1>1, <1>2, <1>4, <1>8, <1>9 DEF TypeOK
<1>11. KeepsCredits
  BY <1>5, <1>6 DEF KeepsCredits, Credited
<1>12. disk'.unlocked = IF op.key = "unlocked" THEN disk.unlocked \cup {op.value}
                                               ELSE disk.unlocked
  <2>1. op.key \in {"pending", "unlocked"} /\ disk \in Store
    BY <1>1, <1>2 DEF Write, TypeOK
  <2>2. QED
    BY <1>4, <2>1 DEF Written, Store
<1>13. DiskBehind'
  BY <1>4, <1>5, <1>12 DEF PremiumInv, DiskBehind
<1>14. JournalCredited'
  <2> SUFFICES ASSUME NEW i \in 1 .. Len(journal'), journal'[i].key = "unlocked"
               PROVE  /\ journal'[i].value \in prefs'.unlocked
                      /\ attempt'[journal'[i].by].credit = journal'[i].value
                      /\ attempt'[journal'[i].by].stage \in Credited
    BY DEF JournalCredited, Indices, Credited
  <2>1. i + 1 \in Indices /\ journal'[i] = journal[i + 1]
    BY <1>2, <1>4
  <2>2. /\ journal[i + 1].value \in prefs.unlocked
        /\ attempt[journal[i + 1].by].credit = journal[i + 1].value
        /\ attempt[journal[i + 1].by].stage \in Credited
    BY <1>1, <2>1 DEF JournalCredited, Credited
  <2>3. journal[i + 1].by \in Attempts
    <3>1. journal[i + 1] \in Write
      BY <1>1, <2>1, LenProperties DEF TypeOK, Indices
    <3>2. QED
      BY <3>1 DEF Write
  <2>4. QED
    BY <1>4, <1>11, <2>1, <2>2, <2>3 DEF KeepsCredits
<1>15. WrittenOnDisk'
  <2> SUFFICES ASSUME NEW b \in Attempts, attempt'[b].stage \in {"written", "credited"}
               PROVE  attempt'[b].credit \in disk'.unlocked
    BY DEF WrittenOnDisk
  <2>1. CASE b = op.by /\ op.key = "unlocked"
    BY <1>5, <1>6, <1>12, <2>1
  <2>2. CASE attempt'[b] = attempt[b]
    BY <1>12, <2>2 DEF PremiumInv, WrittenOnDisk
  <2>3. QED
    BY <1>6, <2>1, <2>2
<1>16. UnlockedWasPaid'
  <2> SUFFICES ASSUME NEW v \in prefs'.unlocked \cup disk'.unlocked
               PROVE  \E b \in Attempts :
                        /\ attempt'[b].credit = v
                        /\ attempt'[b].stage \in {"await", "written", "credited", "over"}
    BY DEF UnlockedWasPaid
  <2>1. v \in prefs.unlocked
    BY <1>4, <1>5, <1>12 DEF PremiumInv, DiskBehind
  <2>2. PICK b \in Attempts :
          /\ attempt[b].credit = v
          /\ attempt[b].stage \in {"await", "written", "credited", "over"}
    BY <2>1 DEF PremiumInv, UnlockedWasPaid
  <2>3. QED
    BY <1>6, <2>2
<1>17. PageAgreesWithPrefs'
  <2>1. \A b \in Attempts : attempt'[b].stage = "credited" =>
          attempt[b].stage = "credited" /\ attempt'[b].credit = attempt[b].credit
    BY <1>6
  <2>2. PageAgreesWithPrefs
    BY DEF PremiumInv
  <2>3. QED
    BY <1>4, <2>1, <2>2 DEF PageAgreesWithPrefs
<1>18. QED
  BY <1>10, <1>13, <1>14, <1>15, <1>16, <1>17 DEF PremiumInv

LEMMA RestartStep == ASSUME PremiumInv, Restart PROVE PremiumInv'
<1>1. /\ prefs' = disk /\ disk' = disk /\ journal' = <<>> /\ page' = NoPage
      /\ attempt' = [a \in Attempts |->
                       IF attempt[a].stage \in {"opening", "await", "written"}
                         THEN [attempt[a] EXCEPT !.stage = "over"] ELSE attempt[a]]
  BY DEF Restart
<1>2. TypeOK
  BY DEF PremiumInv
<1>3. \A b \in Attempts :
        /\ attempt'[b].credit = attempt[b].credit
        /\ attempt'[b].stage = IF attempt[b].stage \in {"opening", "await", "written"}
                                 THEN "over" ELSE attempt[b].stage
  BY <1>1, <1>2 DEF TypeOK, Attempt
<1>4. TypeOK'
  <2>1. attempt' \in [Attempts -> Attempt]
    <3>1. \A a \in Attempts : [attempt[a] EXCEPT !.stage = "over"] \in Attempt
      BY <1>2 DEF TypeOK, Attempt, Stages
    <3>2. QED
      BY <1>1, <1>2, <3>1 DEF TypeOK
  <2>2. restarts' \in 0 .. MaxRestarts
    <3>1. /\ restarts \in 0 .. MaxRestarts /\ restarts < MaxRestarts
          /\ restarts' = restarts + 1
      BY <1>2 DEF Restart, TypeOK
    <3>2. QED
      BY <3>1, RestartsAssumption
  <2>3. journal' \in Seq(Write)
    BY <1>1, EmptySeq
  <2>4. crossed' \in BOOLEAN
    BY <1>2 DEF Restart, TypeOK
  <2>5. QED
    BY <1>1, <1>2, <2>1, <2>2, <2>3, <2>4, NoPageType DEF TypeOK, Page
<1>5. DiskBehind'
  BY <1>1 DEF DiskBehind
<1>6. JournalCredited'
  <2>1. Len(journal') = 0
    BY <1>1, EmptySeq
  <2>2. QED
    BY <2>1 DEF JournalCredited, Indices
<1>7. WrittenOnDisk'
  BY <1>1, <1>3 DEF PremiumInv, WrittenOnDisk
<1>8. UnlockedWasPaid'
  <2> SUFFICES ASSUME NEW v \in disk.unlocked
               PROVE  \E b \in Attempts :
                        /\ attempt'[b].credit = v
                        /\ attempt'[b].stage \in {"await", "written", "credited", "over"}
    BY <1>1 DEF UnlockedWasPaid
  <2>1. PICK b \in Attempts :
          /\ attempt[b].credit = v
          /\ attempt[b].stage \in {"await", "written", "credited", "over"}
    BY DEF PremiumInv, UnlockedWasPaid
  <2>2. QED
    BY <1>3, <2>1
<1>9. PageAgreesWithPrefs'
  BY <1>1 DEF PageAgreesWithPrefs, NoPage
<1>10. QED
  BY <1>4, <1>5, <1>6, <1>7, <1>8, <1>9 DEF PremiumInv

-----------------------------------------------------------------------------
(* The theorems *)

LEMMA InitPremium == Init => PremiumInv
<1> SUFFICES ASSUME Init PROVE PremiumInv
  OBVIOUS
<1>1. Empty \in Store
  BY DEF Empty, Store
<1>2. TypeOK
  <2>1. restarts \in 0 .. MaxRestarts
    BY RestartsAssumption DEF Init
  <2>2. journal \in Seq(Write)
    BY EmptySeq DEF Init
  <2>3. attempt \in [Attempts -> Attempt]
    BY UnusedType DEF Init
  <2>4. QED
    BY <1>1, <2>1, <2>2, <2>3, NoPageType DEF Init, TypeOK, Page
<1>3. Len(journal) = 0
  BY EmptySeq DEF Init
<1>4. \A a \in Attempts : attempt[a].stage = "unused"
  BY DEF Init, Unused
<1>5. prefs.unlocked = {} /\ disk.unlocked = {} /\ page.wallpaper = None
  BY DEF Init, Empty, NoPage
<1>6. QED
  BY <1>2, <1>3, <1>4, <1>5
  DEF PremiumInv, DiskBehind, JournalCredited, Indices, WrittenOnDisk,
      UnlockedWasPaid, PageAgreesWithPrefs

LEMMA StepPremium == PremiumInv /\ [Next]_vars => PremiumInv'
<1> SUFFICES ASSUME PremiumInv, [Next]_vars PROVE PremiumInv'
  OBVIOUS
<1>1. CASE UNCHANGED vars
  BY <1>1 DEF vars, PremiumInv, TypeOK, DiskBehind, JournalCredited, Indices,
              WrittenOnDisk, UnlockedWasPaid, PageAgreesWithPrefs
<1>2. CASE Next
  BY <1>2, PageSteps, UnlockStep, ProviderSteps, SuccessStep, FinishStep, ErrorStep,
     FlushStep, RestartStep DEF Next, Deliver
<1>3. QED
  BY <1>1, <1>2

LEMMA PremiumInvariant == Spec => []PremiumInv
  BY InitPremium, StepPremium, PTL DEF Spec

\* Every variable keeps its type: in particular no write of unlocked_<id> ever
\* carries "no wallpaper", which the handler's early return is there for.
THEOREM TypeCorrect == Spec => []TypeOK
<1>1. PremiumInv => TypeOK
  BY DEF PremiumInv
<1>2. QED
  BY PremiumInvariant, <1>1, PTL

\* What a buyer was told is on disk and in memory, however many checkouts
\* overlap and wherever the process is killed.
THEOREM CreditIsDurable == Spec => []CreditedIsDurable
<1>1. PremiumInv => CreditedIsDurable
  BY DEF PremiumInv, WrittenOnDisk, DiskBehind, CreditedIsDurable
<1>2. QED
  BY PremiumInvariant, <1>1, PTL

\* No wallpaper is unlocked that the handler of a successful payment did not
\* credit, in memory or on disk, across kills.
THEOREM NothingUnlockedUnpaid == Spec => []UnlockedWasPaid
<1>1. PremiumInv => UnlockedWasPaid
  BY DEF PremiumInv
<1>2. QED
  BY PremiumInvariant, <1>1, PTL

\* The detail page and the preferences agree, whatever the order of the unlock
\* event, the delayed check and the page being left and reopened.
THEOREM PageAgrees == Spec => []PageAgreesWithPrefs
<1>1. PremiumInv => PageAgreesWithPrefs
  BY DEF PremiumInv
<1>2. QED
  BY PremiumInvariant, <1>1, PTL

-----------------------------------------------------------------------------
(* Checkouts that do not cross *)

\* pending_unlock on disk is what it is in memory once the journal has run out.
PendingAhead ==
    \/ /\ \A i \in Indices : journal[i].key = "unlocked"
       /\ disk.pending = prefs.pending
    \/ \E i \in Indices :
         /\ journal[i].key = "pending" /\ journal[i].value = prefs.pending
         /\ \A j \in Indices : j > i => journal[j].key = "unlocked"

\* A write of unlocked_<id> is awaited by its checkout, which made no other.
JournalAwaited ==
    \A i \in Indices : journal[i].key = "unlocked" =>
      /\ attempt[journal[i].by].stage = "await"
      /\ \A j \in Indices :
           journal[j].key = "unlocked" /\ journal[j].by = journal[i].by => j = i

\* What has not reached the handler, and will find its wallpaper pending.
Ahead == {"opening", "shown", "paid", "failed", "wallet"}

OneAtATime ==
    /\ \A a, b \in Attempts :
         attempt[a].stage \in Unsettled /\ attempt[b].stage \in Unsettled => a = b
    /\ \A a \in Attempts :
         /\ attempt[a].stage \in Ahead => prefs.pending = attempt[a].wallpaper
         /\ attempt[a].stage \in Credited => attempt[a].credit = attempt[a].wallpaper

SettledInv ==
    /\ PendingAhead
    /\ JournalAwaited
    /\ ~crossed => OneAtATime

LEMMA IndexType ==
    ASSUME TypeOK
    PROVE  /\ Len(journal) \in Nat
           /\ \A i \in Indices : journal[i] \in Write
  BY LenProperties DEF TypeOK, Indices

\* The journal after a setter.
LEMMA Lengthened ==
    ASSUME TypeOK, NEW op \in Write, SetPrefs(op)
    PROVE  /\ Len(journal') = Len(journal) + 1
           /\ Indices' = Indices \cup {Len(journal) + 1}
           /\ \A i \in Indices : journal'[i] = journal[i] /\ i < Len(journal) + 1
           /\ journal'[Len(journal) + 1] = op
<1>1. journal \in Seq(Write) /\ Len(journal) \in Nat
  BY IndexType DEF TypeOK
<1>2. journal' = Append(journal, op)
  BY DEF SetPrefs
<1>3. /\ Len(Append(journal, op)) = Len(journal) + 1
      /\ \A i \in 1 .. Len(journal) : Append(journal, op)[i] = journal[i]
      /\ Append(journal, op)[Len(journal) + 1] = op
  BY <1>1, AppendProperties
<1>4. QED
  BY <1>1, <1>2, <1>3 DEF Indices

\* A write of pending_unlock, by a handler or by the page.
LEMMA PendingSettled ==
    ASSUME TypeOK, PendingAhead, JournalAwaited, NEW a \in Attempts,
           NEW w \in Wallpapers \cup {None}, SetPending(a, w), UNCHANGED disk,
           \A b \in Attempts : attempt[b].stage = "await" => attempt'[b].stage = "await"
    PROVE  PendingAhead' /\ JournalAwaited' /\ prefs'.pending = w
<1>1. PICK op \in Write : op = [by |-> a, key |-> "pending", value |-> w]
  BY DEF Write
<1>2. SetPrefs(op)
  BY <1>1 DEF SetPending
<1>3. /\ Indices' = Indices \cup {Len(journal) + 1}
      /\ \A i \in Indices : journal'[i] = journal[i] /\ i < Len(journal) + 1
      /\ journal'[Len(journal) + 1] = op
      /\ Len(journal) \in Nat
  BY <1>2, Lengthened, IndexType
<1>4. prefs'.pending = w
  BY <1>1, <1>2 DEF SetPrefs, Written, TypeOK, Store
<1>5. PendingAhead'
  <2>1. \A j \in Indices' : ~(j > Len(journal) + 1)
    <3>1. \A j \in Indices : j \in Int
      BY DEF Indices
    <3>2. QED
      BY <1>3, <3>1
  <2>2. QED
    BY <1>1, <1>3, <1>4, <2>1 DEF PendingAhead
<1>6. JournalAwaited'
  <2>1. \A i \in Indices' : journal'[i].key = "unlocked" =>
          i \in Indices /\ journal'[i] = journal[i] /\ journal[i].by \in Attempts
    BY <1>1, <1>3, IndexType DEF Write
  <2>2. QED
    BY <2>1 DEF JournalAwaited
<1>7. QED
  BY <1>4, <1>5, <1>6

LEMMA SuccessSettled ==
    ASSUME TypeOK, SettledInv, NEW a \in Attempts, HandlePaymentSuccess(a)
    PROVE  SettledInv'
<1>1. PICK op \in Write : op = [by |-> a, key |-> "unlocked", value |-> prefs.pending]
  BY DEF HandlePaymentSuccess, TypeOK, Store, Write
<1>2. SetPrefs(op)
  BY <1>1 DEF HandlePaymentSuccess, SetUnlocked
<1>3. /\ Indices' = Indices \cup {Len(journal) + 1}
      /\ \A i \in Indices : journal'[i] = journal[i] /\ i < Len(journal) + 1
      /\ journal'[Len(journal) + 1] = op
      /\ Len(journal) \in Nat
  BY <1>2, Lengthened, IndexType
<1>4. prefs'.pending = prefs.pending /\ UNCHANGED <<disk, crossed>>
  BY <1>1, <1>2 DEF SetPrefs, Written, TypeOK, Store, HandlePaymentSuccess
<1>5. /\ attempt[a].stage = "paid" /\ attempt'[a].stage = "await"
      /\ attempt'[a].wallpaper = attempt[a].wallpaper
      /\ attempt'[a].credit = prefs.pending
      /\ \A b \in Attempts \ {a} : attempt'[b] = attempt[b]
  BY DEF HandlePaymentSuccess, TypeOK, Attempt
<1>6. PendingAhead'
  <2>1. CASE /\ \A i \in Indices : journal[i].key = "unlocked"
             /\ disk.pending = prefs.pending
    BY <1>1, <1>3, <1>4, <2>1 DEF PendingAhead
  <2>2. CASE \E i \in Indices :
               /\ journal[i].key = "pending" /\ journal[i].value = prefs.pending
               /\ \A j \in Indices : j > i => journal[j].key = "unlocked"
    <3>1. PICK i \in Indices :
                 /\ journal[i].key = "pending" /\ journal[i].value = prefs.pending
                 /\ \A j \in Indices : j > i => journal[j].key = "unlocked"
      BY <2>2
    <3>2. i \in Indices' /\ journal'[i] = journal[i]
      BY <1>3, <3>1
    <3>3. \A j \in Indices' : j > i => journal'[j].key = "unlocked"
      BY <1>1, <1>3, <3>1
    <3>4. QED
      BY <1>4, <3>1, <3>2, <3>3 DEF PendingAhead
  <2>3. QED
    BY <2>1, <2>2 DEF SettledInv, PendingAhead
<1>7. JournalAwaited'
  <2>1. \A i \in Indices : journal[i].key = "unlocked" =>
          /\ journal[i].by \in Attempts \ {a} /\ attempt[journal[i].by].stage = "await"
    BY <1>5, IndexType DEF SettledInv, JournalAwaited, Write
  <2>2. SUFFICES ASSUME NEW i \in Indices', journal'[i].key = "unlocked"
                 PROVE  /\ attempt'[journal'[i].by].stage = "await"
                        /\ \A j \in Indices' :
                             journal'[j].key = "unlocked" /\ journal'[j].by = journal'[i].by
                               => j = i
    BY DEF JournalAwaited
  <2>3. CASE i = Len(journal) + 1
    <3>1. journal'[i] = op /\ op.by = a
      BY <1>1, <1>3, <2>3
    <3>2. ASSUME NEW j \in Indices', journal'[j].key = "unlocked", journal'[j].by = a
          PROVE  j = i
      <4>1. CASE j \in Indices
        BY <1>3, <2>1, <3>2, <4>1
      <4>2. CASE j = Len(journal) + 1
        BY <2>3, <4>2
      <4>3. QED
        BY <1>3, <3>2, <4>1, <4>2
    <3>3. QED
      BY <1>5, <3>1, <3>2
  <2>4. CASE i \in Indices
    <3>1. journal'[i] = journal[i] /\ journal[i].by \in Attempts \ {a}
      BY <1>3, <2>1, <2>2, <2>4
    <3>2. attempt'[journal'[i].by].stage = "await"
      BY <1>3, <1>5, <2>1, <2>2, <2>4, <3>1
    <3>3. \A j \in Indices' :
            journal'[j].key = "unlocked" /\ journal'[j].by = journal'[i].by => j \in Indices
      BY <1>1, <1>3, <3>1
    <3>4. QED
      BY <1>3, <2>2, <2>4, <3>1, <3>2, <3>3 DEF SettledInv, JournalAwaited
  <2>5. QED
    BY <1>3, <2>3, <2>4
<1>8. ~crossed' => OneAtATime'
  BY <1>4, <1>5 DEF SettledInv, OneAtATime, Unsettled, Ahead, Credited
<1>9. QED
  BY <1>6, <1>7, <1>8 DEF SettledInv

\* A checkout that takes a step outside the handlers' writes.
LEMMA MovedSettled ==
    ASSUME TypeOK, SettledInv, NEW a \in Attempts, NEW from, NEW to, Move(a, from, to),
           from \in Ahead, to \in Ahead \cup {"over"}
    PROVE  SettledInv'
<1>1. /\ attempt[a].stage = from /\ attempt'[a].stage = to
      /\ attempt'[a].wallpaper = attempt[a].wallpaper
      /\ \A b \in Attempts \ {a} : attempt'[b] = attempt[b]
      /\ UNCHANGED <<prefs, disk, journal, crossed>>
  BY DEF Move, TypeOK, Attempt
<1>2. PendingAhead'
  BY <1>1 DEF SettledInv, PendingAhead, Indices
<1>3. JournalAwaited'
  <2>1. \A i \in Indices : journal[i].key = "unlocked" => journal[i].by \in Attempts \ {a}
    BY <1>1, IndexType DEF SettledInv, JournalAwaited, Write, Ahead
  <2>2. QED
    BY <1>1, <2>1 DEF SettledInv, JournalAwaited, Indices
<1>4. ~crossed' => OneAtATime'
  BY <1>1 DEF SettledInv, OneAtATime, Unsettled, Ahead, Credited
<1>5. QED
  BY <1>2, <1>3, <1>4 DEF SettledInv

LEMMA FlushSettled ==
    ASSUME TypeOK, SettledInv, Flush
    PROVE  SettledInv'
<1>1. PICK op \in Write : op = Head(journal)
  BY JournalHead DEF Flush
<1>2. /\ disk' = Written(disk, op) /\ journal' = Tail(journal)
      /\ attempt' = IF op.key = "unlocked"
                      THEN [attempt EXCEPT ![op.by].stage = "written"] ELSE attempt
      /\ UNCHANGED <<prefs, crossed>>
  BY <1>1 DEF Flush
<1>3. /\ 1 \in Indices /\ op = journal[1]
      /\ Indices' = 1 .. Len(journal) - 1
      /\ \A i \in Indices' : i + 1 \in Indices /\ journal'[i] = journal[i + 1]
      /\ Len(journal) \in Nat
  BY <1>1, <1>2, JournalHead, IndexType DEF Flush, Indices
<1>4. PendingAhead'
  <2>1. CASE /\ \A i \in Indices : journal[i].key = "unlocked"
             /\ disk.pending = prefs.pending
    <3>1. disk'.pending = disk.pending
      BY <1>2, <1>3, <2>1 DEF Written, TypeOK, Store
    <3>2. \A i \in Indices' : journal'[i].key = "unlocked"
      BY <1>3, <2>1
    <3>3. QED
      BY <1>2, <2>1, <3>1, <3>2 DEF PendingAhead
  <2>2. ASSUME NEW i \in Indices, journal[i].key = "pending",
               journal[i].value = prefs.pending,
               \A j \in Indices : j > i => journal[j].key = "unlocked"
        PROVE  PendingAhead'
    <3>1. CASE i = 1
      <4>1. disk'.pending = prefs.pending
        BY <1>2, <1>3, <2>2, <3>1 DEF Written, TypeOK, Store
      <4>2. \A j \in Indices' : journal'[j].key = "unlocked"
        BY <1>3, <2>2, <3>1
      <4>3. QED
        BY <1>2, <4>1, <4>2 DEF PendingAhead
    <3>2. CASE i # 1
      <4>1. i - 1 \in Indices' /\ journal'[i - 1] = journal[i]
        BY <1>3, <2>2, <3>2 DEF Indices
      <4>2. \A j \in Indices' : j > i - 1 => journal'[j].key = "unlocked"
        BY <1>3, <2>2 DEF Indices
      <4>3. PICK m \in Indices' : m = i - 1
        BY <4>1
      <4>4. QED
        BY <1>2, <2>2, <4>1, <4>2, <4>3 DEF PendingAhead
    <3>3. QED
      BY <3>1, <3>2
  <2>3. QED
    BY <2>1, <2>2 DEF SettledInv, PendingAhead
<1>5. JournalAwaited'
  <2>1. SUFFICES ASSUME NEW i \in Indices', journal'[i].key = "unlocked"
                 PROVE  /\ attempt'[journal'[i].by].stage = "await"
                        /\ \A j \in Indices' :
                             journal'[j].key = "unlocked" /\ journal'[j].by = journal'[i].by
                               => j = i
    BY DEF JournalAwaited
  <2>2. /\ journal'[i] = journal[i + 1] /\ i + 1 \in Indices /\ i + 1 # 1
        /\ journal[i + 1].by \in Attempts
    BY <1>3, <2>1, IndexType DEF Write, Indices
  <2>3. /\ attempt[journal[i + 1].by].stage = "await"
        /\ \A j \in Indices :
             journal[j].key = "unlocked" /\ journal[j].by = journal[i + 1].by => j = i + 1
    BY <2>1, <2>2 DEF SettledInv, JournalAwaited
  <2>4. op.key = "unlocked" => journal[i + 1].by # op.by
    BY <1>3, <2>2, <2>3
  <2>5. attempt'[journal[i + 1].by] = attempt[journal[i + 1].by]
    BY <1>2, <2>2, <2>4 DEF TypeOK
  <2>6. \A j \in Indices' :
          journal'[j].key = "unlocked" /\ journal'[j].by = journal'[i].by => j = i
    <3>1. SUFFICES ASSUME NEW j \in Indices', journal'[j].key = "unlocked",
                          journal'[j].by = journal'[i].by
                   PROVE  j = i
      OBVIOUS
    <3>2. journal'[j] = journal[j + 1] /\ j + 1 \in Indices
      BY <1>3, <2>1 DEF Indices
    <3>3. PICK k \in Indices : k = j + 1
      BY <3>2
    <3>4. k = i + 1
      BY <2>2, <2>3, <3>1, <3>2, <3>3
    <3>5. i \in Int /\ j \in Int
      BY DEF Indices
    <3>6. QED
      BY <3>3, <3>4, <3>5
  <2>7. QED
    BY <2>2, <2>3, <2>5, <2>6
<1>6. ~crossed' => OneAtATime'
  <2>1. CASE op.key = "unlocked"
    <3>1. op.by \in Attempts /\ attempt[op.by].stage = "await"
      BY <1>3, <2>1, IndexType DEF SettledInv, JournalAwaited, Write
    <3>2. /\ attempt'[op.by].stage = "written"
          /\ attempt'[op.by].credit = attempt[op.by].credit
          /\ attempt'[op.by].wallpaper = attempt[op.by].wallpaper
          /\ \A b \in Attempts \ {op.by} : attempt'[b] = attempt[b]
      BY <1>2, <2>1, <3>1 DEF TypeOK, Attempt
    <3>3. QED
      BY <1>2, <3>1, <3>2 DEF SettledInv, OneAtATime, Unsettled, Ahead, Credited
  <2>2. CASE op.key # "unlocked"
    BY <1>2, <2>2 DEF SettledInv, OneAtATime
  <2>3. QED
    BY <2>1, <2>2
<1>7. QED
  BY <1>4, <1>5, <1>6 DEF SettledInv

LEMMA RestartSettled ==
    ASSUME TypeOK, SettledInv, Restart
    PROVE  SettledInv'
<1>1. journal' = <<>> /\ prefs' = disk /\ UNCHANGED disk /\ Indices' = {}
  BY EmptySeq DEF Restart, Indices
<1>2. PendingAhead' /\ JournalAwaited'
  BY <1>1 DEF PendingAhead, JournalAwaited
<1>3. ASSUME ~crossed' PROVE OneAtATime'
  <2>1. ~crossed /\ Indices = {}
    <3>1. ~crossed /\ journal = <<>>
      BY <1>3 DEF Restart
    <3>2. Len(journal) = 0
      BY <3>1, EmptySeq
    <3>3. QED
      BY <3>1, <3>2 DEF Indices
  <2>2. prefs'.pending = prefs.pending
    BY <1>1, <2>1 DEF SettledInv, PendingAhead
  <2>3. \A a \in Attempts :
          /\ attempt'[a].stage # "over" => attempt'[a] = attempt[a]
          /\ attempt'[a].stage = "over" \/ attempt'[a].stage = attempt[a].stage
    BY DEF Restart, TypeOK, Attempt
  <2>4. QED
    BY <2>1, <2>2, <2>3 DEF SettledInv, OneAtATime, Unsettled, Ahead, Credited
<1>4. QED
  BY <1>2, <1>3 DEF SettledInv

LEMMA NextSettled ==
    ASSUME TypeOK, SettledInv, Next
    PROVE  SettledInv'
<1>1. ASSUME UNCHANGED <<prefs, disk, journal, attempt, crossed>> PROVE SettledInv'
  BY <1>1 DEF SettledInv, PendingAhead, JournalAwaited, OneAtATime, Indices
<1>2. CASE ClosePage \/ RecheckStatus \/ \E w \in Wallpapers : OpenPage(w)
  BY <1>1, <1>2 DEF ClosePage, RecheckStatus, OpenPage
<1>3. ASSUME NEW a \in Attempts, UnlockWallpaper(a) PROVE SettledInv'
  <2>1. /\ page.wallpaper \in Wallpapers \cup {None} /\ SetPending(a, page.wallpaper)
        /\ attempt[a].stage = "unused" /\ attempt'[a].stage = "opening"
        /\ attempt'[a].wallpaper = page.wallpaper
        /\ \A b \in Attempts \ {a} : attempt'[b] = attempt[b]
        /\ ~crossed' => ~crossed /\ \A b \in Attempts : attempt[b].stage \notin Unsettled
        /\ UNCHANGED disk
    BY <1>3 DEF UnlockWallpaper, Unused, TypeOK
  <2>2. PendingAhead' /\ JournalAwaited' /\ prefs'.pending = page.wallpaper
    BY <2>1, PendingSettled DEF SettledInv
  <2>3. ~crossed' => OneAtATime'
    BY <2>1, <2>2 DEF SettledInv, OneAtATime, Unsettled, Ahead, Credited
  <2>4. QED
    BY <2>2, <2>3 DEF SettledInv
<1>4. ASSUME NEW a \in Attempts,
             \/ Cover(a) \/ Pay(a) \/ Fail(a) \/ ChooseWallet(a)
             \/ DropPaymentSuccess(a) \/ HandleExternalWallet(a)
      PROVE  SettledInv'
  <2>1. PICK from \in Ahead, to \in Ahead \cup {"over"} : Move(a, from, to)
    BY <1>4 DEF Cover, Pay, Fail, ChooseWallet, DropPaymentSuccess, HandleExternalWallet, Ahead
  <2>2. QED
    BY <2>1, MovedSettled
<1>5. ASSUME NEW a \in Attempts, HandlePaymentSuccess(a) PROVE SettledInv'
  BY <1>5, SuccessSettled
<1>6. ASSUME NEW a \in Attempts, FinishPaymentSuccess(a) \/ HandlePaymentError(a)
      PROVE  SettledInv'
  <2>1. /\ SetPending(a, None) /\ UNCHANGED <<disk, crossed>>
        /\ attempt[a].stage \in {"written", "failed"}
        /\ attempt[a].stage = "written" => attempt'[a].stage = "credited"
        /\ attempt[a].stage = "failed" => attempt'[a].stage = "over"
        /\ attempt'[a].credit = attempt[a].credit
        /\ attempt'[a].wallpaper = attempt[a].wallpaper
        /\ \A b \in Attempts \ {a} : attempt'[b] = attempt[b]
    BY <1>6 DEF FinishPaymentSuccess, SetBoolAnswered, HandlePaymentError, TypeOK, Attempt
  <2>2. PendingAhead' /\ JournalAwaited'
    BY <2>1, PendingSettled DEF SettledInv
  <2>3. ~crossed' => OneAtATime'
    BY <2>1 DEF SettledInv, OneAtATime, Unsettled, Ahead, Credited
  <2>4. QED
    BY <2>2, <2>3 DEF SettledInv
<1>7. QED
  BY <1>2, <1>3, <1>4, <1>5, <1>6, FlushSettled, RestartSettled DEF Next, Deliver

LEMMA SettledInvariant == Spec => []SettledInv
<1>1. Init => SettledInv
  <2>1. SUFFICES ASSUME Init PROVE SettledInv
    OBVIOUS
  <2>2. Indices = {} /\ disk.pending = prefs.pending
    BY <2>1, EmptySeq DEF Init, Indices
  <2>3. \A a \in Attempts : attempt[a].stage = "unused"
    BY <2>1 DEF Init, Unused
  <2>4. QED
    BY <2>2, <2>3 DEF SettledInv, PendingAhead, JournalAwaited, OneAtATime, Unsettled,
                      Ahead, Credited
<1>2. SettledInv /\ UNCHANGED vars => SettledInv'
  BY DEF SettledInv, PendingAhead, JournalAwaited, OneAtATime, Indices, vars
<1>3. QED
  BY <1>1, <1>2, NextSettled, TypeCorrect, PTL DEF Spec

\* For any number of wallpapers, checkouts and kills: as long as each checkout is
\* settled before the next and no kill overtakes a write, a payment unlocks the
\* wallpaper it was made for.
THEOREM PaymentUnlocksItsOwn == Spec => []SettledPaymentUnlocksItsOwn
<1>1. SettledInv => SettledPaymentUnlocksItsOwn
  BY DEF SettledInv, OneAtATime, SettledPaymentUnlocksItsOwn, Ahead, Credited
<1>2. QED
  BY <1>1, SettledInvariant, PTL

-----------------------------------------------------------------------------
(* PremiumService implements the sale *)

SaleVars == <<Bought, prefs.unlocked, disk.unlocked, Told>>

\* What no handler has seen is credited to nothing.
Uncredited ==
    \A a \in Attempts : attempt[a].stage \in Ahead \cup {"unused"} =>
      attempt[a].credit = None

SaleInv == PremiumInv /\ SettledInv /\ Uncredited

\* To the buyer, a checkout is what it was credited to and whether he was told.
LEMMA SameSale ==
    ASSUME \A a \in Attempts :
             /\ attempt'[a].credit = attempt[a].credit
             /\ attempt'[a].stage = "credited" <=> attempt[a].stage = "credited"
    PROVE  Bought' = Bought /\ Told' = Told
  BY DEF Bought, Told

\* A step that moves no checkout over the line between unhandled and handled.
LEMMA StillUncredited ==
    ASSUME Uncredited,
           \A a \in Attempts : attempt'[a].stage \in Ahead \cup {"unused"} =>
             \/ attempt'[a].credit = None
             \/ /\ attempt[a].stage \in Ahead \cup {"unused"}
                /\ attempt'[a].credit = attempt[a].credit
    PROVE  Uncredited'
  BY DEF Uncredited

LEMMA AttemptType ==
    ASSUME TypeOK, NEW a \in Attempts
    PROVE  /\ attempt \in [Attempts -> Attempt]
           /\ attempt[a].stage \in Stages
           /\ attempt[a].credit \in Wallpapers \cup {None}
  BY DEF TypeOK, Attempt

\* A setter of pending_unlock unlocks nothing.
LEMMA PendingUnlocksNothing ==
    ASSUME TypeOK, NEW a \in Attempts, NEW w, SetPending(a, w)
    PROVE  prefs'.unlocked = prefs.unlocked
  BY DEF SetPending, SetPrefs, Written, TypeOK, Store

LEMMA PageIsNoSale ==
    ASSUME SaleInv, UNCHANGED <<prefs, disk, attempt>>
    PROVE  UNCHANGED SaleVars /\ Uncredited'
<1>1. UNCHANGED SaleVars
  BY DEF SaleVars, Bought, Told
<1>2. QED
  BY <1>1 DEF SaleInv, Uncredited

LEMMA MoveIsNoSale ==
    ASSUME SaleInv, NEW a \in Attempts, NEW from \in Ahead, NEW to \in Ahead \cup {"over"},
           Move(a, from, to)
    PROVE  UNCHANGED SaleVars /\ Uncredited'
<1>1. attempt \in [Attempts -> Attempt]
  BY DEF SaleInv, PremiumInv, TypeOK
<1>2. /\ attempt[a].stage = from /\ attempt'[a].stage = to
      /\ attempt'[a].credit = attempt[a].credit
      /\ \A b \in Attempts \ {a} : attempt'[b] = attempt[b]
      /\ UNCHANGED <<prefs, disk>>
  BY <1>1 DEF Move, Attempt
<1>3. Bought' = Bought /\ Told' = Told
  BY <1>2, SameSale DEF Ahead
<1>4. Uncredited'
  BY <1>2, StillUncredited DEF SaleInv, Ahead
<1>5. QED
  BY <1>2, <1>3, <1>4 DEF SaleVars

\* Opening a checkout and failing one change what is pending, and no more.
LEMMA PendingIsNoSale ==
    ASSUME SaleInv, NEW a \in Attempts, UnlockWallpaper(a) \/ HandlePaymentError(a)
    PROVE  UNCHANGED SaleVars /\ Uncredited'
<1>1. attempt \in [Attempts -> Attempt]
  BY DEF SaleInv, PremiumInv, TypeOK
<1>2. /\ attempt[a].stage \in {"unused", "failed"}
      /\ attempt'[a].stage \in {"opening", "over"}
      /\ attempt'[a].credit \in {attempt[a].credit, None}
      /\ \A b \in Attempts \ {a} : attempt'[b] = attempt[b]
  BY <1>1 DEF UnlockWallpaper, HandlePaymentError, Attempt, Unused
<1>3. attempt[a].credit = None
  BY <1>2 DEF SaleInv, Uncredited, Ahead
<1>4. Bought' = Bought /\ Told' = Told
  BY <1>2, <1>3, SameSale
<1>5. Uncredited'
  BY <1>2, <1>3, StillUncredited DEF SaleInv
<1>6. disk' = disk /\ prefs'.unlocked = prefs.unlocked
  BY PendingUnlocksNothing DEF UnlockWallpaper, HandlePaymentError, SaleInv, PremiumInv
<1>7. QED
  BY <1>4, <1>5, <1>6 DEF SaleVars

\* The handler up to its await is the sale.
LEMMA SuccessIsCredit ==
    ASSUME SaleInv, NEW a \in Attempts, HandlePaymentSuccess(a)
    PROVE  /\ \E w \in Wallpapers : Sale!Credit(a, w)
           /\ Uncredited'
<1>1. /\ attempt \in [Attempts -> Attempt] /\ prefs.pending \in Wallpapers
  BY DEF SaleInv, PremiumInv, TypeOK, Store, HandlePaymentSuccess
<1>2. PICK w \in Wallpapers : w = prefs.pending
  BY <1>1
<1>3. /\ attempt[a].stage = "paid" /\ attempt'[a].stage = "await"
      /\ attempt'[a].credit = w /\ w # None
      /\ \A b \in Attempts \ {a} : attempt'[b] = attempt[b]
  BY <1>1, <1>2, NoneAssumption DEF HandlePaymentSuccess, Attempt
<1>4. attempt[a].credit = None
  BY <1>3 DEF SaleInv, Uncredited, Ahead
<1>5. \A v \in Wallpapers : <<a, v>> \notin Bought
  BY <1>4 DEF Bought
<1>6. Bought' = Bought \cup {<<a, w>>}
  BY <1>3, <1>4 DEF Bought
<1>7. Told' = Told
  BY <1>3 DEF Told
<1>8. prefs'.unlocked = prefs.unlocked \cup {w} /\ disk' = disk
  BY <1>2 DEF HandlePaymentSuccess, SetUnlocked, SetPrefs, Written, SaleInv, PremiumInv,
              TypeOK, Store
<1>9. Sale!Credit(a, w)
  BY <1>5, <1>6, <1>7, <1>8 DEF Sale!Credit
<1>10. Uncredited'
  BY <1>3, StillUncredited DEF SaleInv, Ahead
<1>11. QED
  BY <1>9, <1>10

\* From the await on, it is the news of it.
LEMMA FinishIsTell ==
    ASSUME SaleInv, NEW a \in Attempts, FinishPaymentSuccess(a)
    PROVE  /\ \E w \in Wallpapers : Sale!Tell(a, w)
           /\ Uncredited'
<1>1. /\ attempt \in [Attempts -> Attempt] /\ attempt[a].stage = "written"
      /\ disk.unlocked \subseteq Wallpapers
  BY DEF SaleInv, PremiumInv, TypeOK, Store, FinishPaymentSuccess, SetBoolAnswered
<1>2. attempt[a].credit \in disk.unlocked
  BY <1>1 DEF SaleInv, PremiumInv, WrittenOnDisk
<1>3. PICK w \in Wallpapers : w = attempt[a].credit
  BY <1>1, <1>2
<1>4. /\ attempt'[a].stage = "credited" /\ attempt'[a].credit = w /\ w # None
      /\ \A b \in Attempts \ {a} : attempt'[b] = attempt[b]
  BY <1>1, <1>3, NoneAssumption DEF FinishPaymentSuccess, Attempt
<1>5. <<a, w>> \in Bought /\ Bought' = Bought
  BY <1>3, <1>4 DEF Bought
<1>6. Told' = Told \cup {a}
  BY <1>4 DEF Told
<1>7. disk' = disk /\ prefs'.unlocked = prefs.unlocked
  BY PendingUnlocksNothing DEF FinishPaymentSuccess, SaleInv, PremiumInv
<1>8. w \in prefs.unlocked /\ w \in disk.unlocked
  BY <1>2, <1>3 DEF SaleInv, PremiumInv, DiskBehind
<1>9. Sale!Tell(a, w)
  BY <1>5, <1>6, <1>7, <1>8 DEF Sale!Tell
<1>10. Uncredited'
  BY <1>4, StillUncredited DEF SaleInv, Ahead
<1>11. QED
  BY <1>9, <1>10

\* A write of unlocked_<id> that reaches the disk keeps that wallpaper; one of
\* pending_unlock is nothing to the buyer.
LEMMA FlushIsKeep ==
    ASSUME SaleInv, Flush
    PROVE  /\ (\E w \in Wallpapers : Sale!Keep(w)) \/ UNCHANGED SaleVars
           /\ Uncredited'
<1>1. PICK op \in Write : op = Head(journal)
  BY JournalHead DEF Flush, SaleInv, PremiumInv
<1>2. /\ disk' = Written(disk, op)
      /\ attempt' = IF op.key = "unlocked"
                      THEN [attempt EXCEPT ![op.by].stage = "written"] ELSE attempt
      /\ prefs' = prefs
  BY <1>1 DEF Flush
<1>3. 1 \in Indices /\ op = journal[1]
  BY <1>1, JournalHead DEF Flush, SaleInv, PremiumInv
<1>4. disk \in Store /\ prefs \in Store /\ attempt \in [Attempts -> Attempt]
  BY DEF SaleInv, PremiumInv, TypeOK
<1>5. CASE op.key = "unlocked"
  <2>1. op.by \in Attempts /\ attempt[op.by].stage = "await" /\ op.value \in prefs.unlocked
    BY <1>3, <1>5 DEF SaleInv, PremiumInv, SettledInv, JournalAwaited, JournalCredited, Write
  <2>2. PICK w \in Wallpapers : w = op.value
    BY <1>4, <2>1 DEF Store
  <2>3. disk'.unlocked = disk.unlocked \cup {w}
    BY <1>2, <1>4, <1>5, <2>2 DEF Written, Store
  <2>4. /\ attempt'[op.by].stage = "written"
        /\ attempt'[op.by].credit = attempt[op.by].credit
        /\ \A b \in Attempts \ {op.by} : attempt'[b] = attempt[b]
    BY <1>2, <1>4, <1>5, <2>1 DEF Attempt
  <2>5. Bought' = Bought /\ Told' = Told
    BY <2>1, <2>4, SameSale
  <2>6. Sale!Keep(w)
    BY <1>2, <2>1, <2>2, <2>3, <2>5 DEF Sale!Keep
  <2>7. Uncredited'
    BY <2>4, StillUncredited DEF SaleInv, Ahead
  <2>8. QED
    BY <2>6, <2>7
<1>6. CASE op.key # "unlocked"
  <2>1. op.key = "pending" /\ attempt' = attempt
    BY <1>2, <1>6 DEF Write
  <2>2. disk'.unlocked = disk.unlocked
    BY <1>2, <1>4, <2>1 DEF Written, Store
  <2>3. Bought' = Bought /\ Told' = Told
    BY <2>1, SameSale
  <2>4. Uncredited'
    BY <2>1, StillUncredited DEF SaleInv
  <2>5. QED
    BY <1>2, <2>2, <2>3, <2>4 DEF SaleVars
<1>7. QED
  BY <1>5, <1>6

\* A kill leaves what is on disk.
LEMMA RestartIsKill ==
    ASSUME SaleInv, Restart
    PROVE  Sale!Kill /\ Uncredited'
<1>1. /\ prefs'.unlocked = disk.unlocked /\ disk' = disk
      /\ disk.unlocked \subseteq prefs.unlocked
  BY DEF Restart, SaleInv, PremiumInv, DiskBehind
<1>2. \A a \in Attempts :
        /\ attempt'[a].credit = attempt[a].credit
        /\ attempt'[a].stage = "over" \/ attempt'[a].stage = attempt[a].stage
        /\ attempt[a].stage = "credited" => attempt'[a].stage = "credited"
  BY DEF Restart, SaleInv, PremiumInv, TypeOK, Attempt
<1>3. Bought' = Bought /\ Told' = Told
  BY <1>2, SameSale
<1>4. Uncredited'
  BY <1>2, StillUncredited DEF SaleInv, Ahead
<1>5. QED
  BY <1>1, <1>3, <1>4 DEF Sale!Kill

LEMMA StepSells ==
    ASSUME SaleInv, Next
    PROVE  (Sale!Next \/ UNCHANGED SaleVars) /\ Uncredited'
<1>1. CASE (\E w \in Wallpapers : OpenPage(w)) \/ ClosePage \/ RecheckStatus
  BY <1>1, PageIsNoSale DEF OpenPage, ClosePage, RecheckStatus
<1>2. ASSUME NEW a \in Attempts,
             \/ Cover(a) \/ Pay(a) \/ Fail(a) \/ ChooseWallet(a)
             \/ DropPaymentSuccess(a) \/ HandleExternalWallet(a)
      PROVE  UNCHANGED SaleVars /\ Uncredited'
  <2>1. \E from \in Ahead, to \in Ahead \cup {"over"} : Move(a, from, to)
    BY <1>2 DEF Cover, Pay, Fail, ChooseWallet, DropPaymentSuccess, HandleExternalWallet,
                Ahead
  <2>2. QED
    BY <2>1, MoveIsNoSale
<1>3. QED
  BY <1>1, <1>2, PendingIsNoSale, SuccessIsCredit, FinishIsTell, FlushIsKeep, RestartIsKill
     DEF Next, Deliver, Sale!Next

\* Whatever crosses and wherever the process dies, PremiumService over its
\* preferences is a sale: a payment counts once and for one wallpaper, nothing is
\* unlocked without one, and what a buyer was told of is never taken back.
THEOREM RefinesPurchase == Spec => ImplementsPurchase
<1>1. Init => Sale!Init /\ Uncredited
  BY DEF Init, Sale!Init, Bought, Told, Unused, Empty, Uncredited
<1>2. SaleInv /\ [Next]_vars => [Sale!Next]_SaleVars /\ Uncredited'
  <2>1. SaleInv /\ UNCHANGED vars => UNCHANGED SaleVars /\ Uncredited'
    BY PageIsNoSale DEF vars
  <2>2. QED
    BY <2>1, StepSells
<1>3. QED
  BY <1>1, <1>2, PremiumInvariant, SettledInvariant, PTL
     DEF Spec, SaleInv, ImplementsPurchase, Sale!Spec, Sale!vars, SaleVars

\* What is promised a buyer follows from the steps of the sale alone.
LEMMA SalePromises == Sale!Spec => []Sale!Promise
<1>1. Sale!Init => Sale!Promise
  BY DEF Sale!Init, Sale!Promise
<1>2. ASSUME Sale!Promise, NEW p \in Attempts, NEW w \in Wallpapers, Sale!Credit(p, w)
      PROVE  Sale!Promise'
  BY <1>2 DEF Sale!Credit, Sale!Promise
<1>3. ASSUME Sale!Promise, NEW p \in Attempts, NEW w \in Wallpapers, Sale!Tell(p, w)
      PROVE  Sale!Promise'
  BY <1>3 DEF Sale!Tell, Sale!Promise
<1>4. ASSUME Sale!Promise, NEW w \in Wallpapers, Sale!Keep(w) PROVE Sale!Promise'
  BY <1>4 DEF Sale!Keep, Sale!Promise
<1>5. ASSUME Sale!Promise, Sale!Kill PROVE Sale!Promise'
  BY <1>5 DEF Sale!Kill, Sale!Promise
<1>6. ASSUME Sale!Promise, UNCHANGED SaleVars PROVE Sale!Promise'
  BY <1>6 DEF SaleVars, Sale!Promise
<1>7. Sale!Promise /\ [Sale!Next]_SaleVars => Sale!Promise'
  BY <1>2, <1>3, <1>4, <1>5, <1>6 DEF Sale!Next
<1>8. QED
  BY <1>1, <1>7, PTL DEF Sale!Spec, Sale!vars, SaleVars

\* So PremiumService keeps it: whatever crosses and wherever the process dies, a
\* payment buys one wallpaper, nothing is unlocked that nobody paid, and the wallpaper
\* of every payment that was announced is on disk and in memory.
THEOREM BuyersHaveWhatTheyPaid == Spec => []Sale!Promise
  BY RefinesPurchase, SalePromises DEF ImplementsPurchase
=============================================================================
