---------------------------- MODULE BankBoxProofs ----------------------------
(***************************************************************************)
(* Proofs about BankBox: for any images, any number of read errors, write  *)
(* errors and power cuts, a box file behaves as a durable store.           *)
(***************************************************************************)
EXTENDS BankBox, SaveFileProofs

\* A card that drops a write without saying so is left out: with one, a .tmp
\* that no compare passed can look whole.
HonestCard == "swallow" \notin Kinds

\* What is on the card: the box, or what a page-in would take for it, is what
\* the user was last told or has asked to save since.
CardInv ==
  /\ \A f \in Names : card[f] # Garbled
  /\ Present(Sav) => card[Sav] \in Fresh
  /\ ~Present(Sav) =>
       /\ Whole(Tmp) => card[Tmp] \in Fresh
       /\ IF Whole(Bak) THEN card[Bak] \in Fresh ELSE acked = Absent

\* What a save has established: while it rolls the backup the box is there,
\* and from then on, if the box is there, the backup holds it.
SaveInv ==
  /\ slot = BakTmp
  /\ pc \in Steps => img \in tried /\ at \in {"saving", "healing"}
  /\ pc # "pick"
  /\ pc \in {"copy", "compare", "dropBak", "unlinkBak", "renameBak", "checkBak"}
       => Present(Sav)
  /\ pc \in {"write", "verify", "unlink"} /\ Present(Sav) => card[Bak] = card[Sav]
  /\ pc \in {"idle", "off"} /\ (verdict = "OK" \/ where = "TARGET") => card[Sav] = img

\* What the Bank's own code knows between its card accesses.
PageInv ==
  /\ at = "saving" => img = ram /\ resident /\ dirty /\ unread = "no" /\ based
  /\ at = "healing" => img = ram /\ ram \in Images
  /\ at = "healRename" => ~Present(Sav) /\ Whole(Tmp) /\ ram = card[Tmp]
  /\ at = "healCheck" => ram = card[Sav] /\ ram \in Images
  /\ at = "healBak" => ~Present(Sav) /\ ~Whole(Tmp) /\ Whole(Bak) /\ ram = card[Bak]
  /\ at = "user" /\ resident /\ unread = "no" =>
       based /\ (~dirty => ram = Recovered)

BoxInv ==
  /\ BoxTypeOK /\ VerdictInv /\ ScratchInv /\ BackupInv
  /\ CardInv /\ SaveInv /\ PageInv

-----------------------------------------------------------------------------
LEMMA BoxNames ==
  /\ Names = {Sav, Tmp, BakTmp, Bak}
  /\ Sav # Tmp /\ Sav # BakTmp /\ Tmp # BakTmp
  /\ Bak # Sav /\ Bak # Tmp /\ Bak # BakTmp
<1>1. Slots = {1}  BY BoxCallers DEF Slots
<1>2. QED  BY <1>1, NameFacts DEF Names, Bak

\* On an honest card a write that reports success wrote, and no write leaves
\* garbage of the right size.
LEMMA HonestWrite ==
  ASSUME HonestCard, TypeOK, NEW f \in Names, NEW v, NEW s, WriteOutcome(f, v, s)
  PROVE  /\ card'[f] \in {v, card[f], Short, Absent}
         /\ s = "OK" => card'[f] = v
         /\ \A g \in Names \ {f} : card'[g] = card[g]
  BY DEF HonestCard, TypeOK, WriteOutcome, Mishap

\* On an honest card a rename that reports success moved the bytes.
LEMMA HonestRename ==
  ASSUME HonestCard, TypeOK, NEW f \in Names, NEW t \in Names, f # t, Rename(f, t, TRUE)
  PROVE  /\ card[f] # Absent /\ card[t] = Absent
         /\ card'[t] = card[f] /\ card'[f] = Absent
         /\ \A g \in Names \ {f, t} : card'[g] = card[g]
  BY DEF HonestCard, TypeOK, Rename, Moved, CanMove, Present, Mishap

\* A step that keeps the box and its .tmp while the box is there, and puts no
\* garbage on the card, keeps CardInv: what it does to the backup is its own.
LEMMA CardKept ==
  ASSUME CardInv, Present(Sav), card'[Sav] = card[Sav], UNCHANGED history,
         \A f \in Names : card'[f] # Garbled
  PROVE  CardInv'
  BY DEF CardInv, Present, Fresh, history

\* Under any save path a step of the save is taken in the middle of one, and
\* ends in it or at rest.
LEMMA SaveStepPlace ==
  ASSUME BoxTypeOK, SaveStep
  PROVE  pc \in Steps /\ pc' \in Steps \cup {"idle"} /\ img' = img
  BY DEF SaveStep, StatTarget, PickSlot, CopyToBackup, CompareBackup,
         DropBackupScratch, UnlinkBackup, RenameBackup, CheckBackup, WriteTmp,
         VerifyTmp, DiscardTmp, UnlinkTarget, RenameTmp, CheckSwap,
         WhereAreTheBytes, Goto, Return, Discard, BackupFails, Unconfirmed, Steps

\* What SaveFile's own invariants give for it.
LEMMA SaveStepSwap ==
  ASSUME BoxInv, SaveStep
  PROVE  VerdictInv' /\ ScratchInv' /\ BackupInv'
<1>1. pc \in Steps  BY SaveStepPlace DEF BoxInv
<1>2. SwapInv  BY <1>1 DEF BoxInv, BoxTypeOK, SwapInv, ReportTrue, Steps
<1>3. QED  BY <1>2, SwapBackupStep, SwapWriteStep DEF SaveStep

-----------------------------------------------------------------------------
\* The steps of a save before the scratch is written.
LEMMA BoxBackupStep ==
  ASSUME BoxInv, HonestCard, UNCHANGED boxVars,
         \/ StatTarget \/ PickSlot \/ CopyToBackup \/ CompareBackup
         \/ DropBackupScratch \/ UnlinkBackup \/ RenameBackup \/ CheckBackup
  PROVE  CardInv' /\ SaveInv'
<1> USE BoxNames, ImageAssumption DEF BoxInv
<1>a. TypeOK /\ \A f \in Names : card[f] \in Contents \ {Garbled}
  BY DEF BoxTypeOK, TypeOK, CardInv
<1>b. slot = BakTmp /\ pc # "pick"  BY DEF SaveInv
<1>c. at' = at /\ ram' = ram  BY DEF boxVars
<1> USE DEF Goto, Return, BackupFails, history, Steps
<1>1. CASE StatTarget
  <2>1. CardInv'  BY <1>1 DEF StatTarget, CardInv, Present, Whole, Fresh
  <2>2. SaveInv'  BY <1>1, <1>c DEF StatTarget, SaveInv, VerdictInv, Present
  <2>3. QED  BY <2>1, <2>2
<1>2. CASE PickSlot
  BY <1>2, <1>b DEF PickSlot
<1>3. CASE CopyToBackup
  <2>1. Present(Sav) /\ card[Sav] \in Contents \ {Garbled}
    BY <1>3, <1>a DEF CopyToBackup, SaveInv
  <2>2. /\ card'[BakTmp] # Garbled
        /\ \A g \in Names \ {BakTmp} : card'[g] = card[g]
    <3>1. CASE \E s \in {"OK", "OPEN", "WRITE"} : WriteOutcome(slot, card[Sav], s)
      BY <3>1, <2>1, <1>a, <1>b, HonestWrite
    <3>2. CASE card' \in {card, [card EXCEPT ![slot] = Short]}
      BY <3>2, <1>a, <1>b DEF TypeOK
    <3>3. QED  BY <1>3, <2>1, <3>1, <3>2 DEF CopyToBackup
  <2>3. CardInv'  BY <1>3, <1>a, <2>1, <2>2, CardKept DEF CopyToBackup
  <2>4. SaveInv'  BY <1>3, <1>b, <1>c, <2>2 DEF CopyToBackup, SaveInv, Present
  <2>5. QED  BY <2>3, <2>4
<1>4. CASE CompareBackup
  <2>1. CardInv'  BY <1>4, <1>b DEF CompareBackup, CardInv, Present, Whole, Fresh
  <2>2. SaveInv'  BY <1>4, <1>b, <1>c DEF CompareBackup, SaveInv, Present
  <2>3. QED  BY <2>1, <2>2
<1>5. CASE DropBackupScratch
  <2>1. card'[BakTmp] # Garbled /\ \A g \in Names \ {BakTmp} : card'[g] = card[g]
    BY <1>5, <1>a, <1>b, UnlinkFrame DEF DropBackupScratch
  <2>2. Present(Sav)  BY <1>5 DEF DropBackupScratch, SaveInv
  <2>3. CardInv'  BY <1>5, <1>a, <2>1, <2>2, CardKept DEF DropBackupScratch
  <2>4. SaveInv'  BY <1>5, <1>b, <1>c, <2>1 DEF DropBackupScratch, SaveInv, VerdictInv, Present
  <2>5. QED  BY <2>3, <2>4
<1>6. CASE UnlinkBackup
  <2>1. card'[Bak] # Garbled /\ \A g \in Names \ {Bak} : card'[g] = card[g]
    BY <1>6, <1>a, UnlinkFrame DEF UnlinkBackup, Bak
  <2>2. Present(Sav)  BY <1>6 DEF UnlinkBackup, SaveInv
  <2>3. CardInv'  BY <1>6, <1>a, <2>1, <2>2, CardKept DEF UnlinkBackup
  <2>4. SaveInv'  BY <1>6, <1>b, <1>c, <2>1 DEF UnlinkBackup, SaveInv, Present
  <2>5. QED  BY <2>3, <2>4
<1>7. CASE RenameBackup
  <2>1. /\ card'[Bak] # Garbled /\ card'[BakTmp] # Garbled
        /\ \A g \in Names \ {Bak, BakTmp} : card'[g] = card[g]
    BY <1>7, <1>a, RenameFrame DEF RenameBackup, Bak
  <2>2. Present(Sav)  BY <1>7 DEF RenameBackup, SaveInv
  <2>3. CardInv'  BY <1>7, <1>a, <2>1, <2>2, CardKept DEF RenameBackup
  <2>4. SaveInv'  BY <1>7, <1>b, <1>c, <2>1 DEF RenameBackup, SaveInv, VerdictInv, Present
  <2>5. QED  BY <2>3, <2>4
<1>8. CASE CheckBackup
  <2>1. CardInv'  BY <1>8 DEF CheckBackup, CardInv, Present, Whole, Fresh
  <2>2. BackupLanded => card[Bak] = card[Sav]
    BY <1>8 DEF CheckBackup, BackupInv, SaveInv, BackupLanded, Present, Bak
  <2>3. BackupLanded \in BOOLEAN  BY DEF BackupLanded, SameSize, FullSize, Present
  <2>4. SaveInv'
    BY <1>8, <1>a, <1>b, <1>c, <2>2, <2>3, ReadFrame
    DEF CheckBackup, SaveInv, VerdictInv, Present, Bak
  <2>5. QED  BY <2>1, <2>4
<1>9. QED  BY <1>1, <1>2, <1>3, <1>4, <1>5, <1>6, <1>7, <1>8

\* The verified write and the triage after it.
LEMMA BoxWriteStep ==
  ASSUME BoxInv, HonestCard, UNCHANGED boxVars,
         \/ WriteTmp \/ VerifyTmp \/ DiscardTmp \/ UnlinkTarget
         \/ RenameTmp \/ CheckSwap \/ WhereAreTheBytes
  PROVE  CardInv' /\ SaveInv'
<1> USE BoxNames, ImageAssumption DEF BoxInv
<1>a. TypeOK /\ \A f \in Names : card[f] \in Contents \ {Garbled}
  BY DEF BoxTypeOK, TypeOK, CardInv
<1>b. slot = BakTmp /\ img \in Images /\ img # Absent /\ img # Garbled
  BY DEF SaveInv, BoxTypeOK, TypeOK
<1>c. at' = at /\ ram' = ram  BY DEF boxVars
<1> USE DEF Goto, Return, Discard, Unconfirmed, history, Steps
<1>1. CASE WriteTmp
  <2>1. /\ card'[Tmp] \in {img, card[Tmp], Short, Absent}
        /\ \A g \in Names \ {Tmp} : card'[g] = card[g]
    <3>1. CASE \E s : WriteOutcome(Tmp, img, s)
      BY <3>1, <1>a, HonestWrite
    <3>2. CASE card' = [card EXCEPT ![Tmp] = Short]
      BY <3>2, <1>a DEF TypeOK
    <3>3. QED  BY <1>1, <3>1, <3>2 DEF WriteTmp
  <2>2. img \in tried /\ UNCHANGED <<tried, acked>>
    BY <1>1 DEF WriteTmp, SaveInv
  <2>3. CardInv'
    BY <1>a, <1>b, <2>1, <2>2 DEF CardInv, Present, Whole, Fresh
  <2>4. SaveInv'  BY <1>1, <1>b, <1>c, <2>1 DEF WriteTmp, SaveInv, VerdictInv, Present
  <2>5. QED  BY <2>3, <2>4
<1>2. CASE VerifyTmp
  <2>1. CardInv'  BY <1>2 DEF VerifyTmp, CardInv, Present, Whole, Fresh
  <2>2. SaveInv'  BY <1>2, <1>b, <1>c DEF VerifyTmp, SaveInv, Present
  <2>3. QED  BY <2>1, <2>2
<1>3. CASE DiscardTmp
  <2>1. card'[Tmp] \in {card[Tmp], Absent} /\ \A g \in Names \ {Tmp} : card'[g] = card[g]
    BY <1>3, <1>a, UnlinkFrame DEF DiscardTmp
  <2>2. verdict # "OK"  BY <1>3 DEF DiscardTmp, VerdictInv
  <2>3. CardInv'
    BY <1>3, <1>a, <2>1, <2>2 DEF DiscardTmp, CardInv, Present, Whole, Fresh
  <2>4. SaveInv'
    BY <1>3, <1>b, <1>c, <2>1, <2>2 DEF DiscardTmp, SaveInv, VerdictInv, Present
  <2>5. QED  BY <2>3, <2>4
<1>4. CASE UnlinkTarget
  <2>1. card'[Sav] \in {card[Sav], Absent} /\ \A g \in Names \ {Sav} : card'[g] = card[g]
    BY <1>4, <1>a, UnlinkFrame DEF UnlinkTarget
  <2>2. card[Tmp] = img /\ img \in tried  BY <1>4 DEF UnlinkTarget, ScratchInv, SaveInv
  <2>3. Present(Sav) => card[Bak] = card[Sav] /\ card[Sav] \in Fresh
    BY <1>4 DEF UnlinkTarget, SaveInv, CardInv
  <2>4. UNCHANGED <<tried, acked>>  BY <1>4 DEF UnlinkTarget
  <2>5. CardInv'
    <3>1. \A f \in Names : card'[f] # Garbled  BY <1>a, <2>1
    <3>2. CASE card'[Sav] = card[Sav]
      BY <3>1, <3>2, <2>1, <2>4 DEF CardInv, Present, Whole, Fresh
    <3>3. CASE Present(Sav) /\ card'[Sav] = Absent
      <4>1. card'[Tmp] \in tried /\ card'[Bak] \in Fresh /\ card'[Bak] # Absent
        BY <3>3, <2>1, <2>2, <2>3 DEF Present
      <4>2. card[Sav] \in Images  BY <3>3, <2>3, <1>a DEF Present, Fresh, TypeOK
      <4>3. card'[Bak] \in Images  BY <4>2, <3>3, <2>1, <2>3
      <4>4. QED  BY <3>1, <3>3, <4>1, <4>3, <2>4 DEF CardInv, Present, Whole, Fresh
    <3>4. QED  BY <2>1, <3>2, <3>3 DEF Present
  <2>6. SaveInv'  BY <1>4, <1>b, <1>c, <2>1 DEF UnlinkTarget, SaveInv, Present
  <2>7. QED  BY <2>5, <2>6
<1>5. CASE RenameTmp
  <2>1. /\ \/ card' = card
           \/ card[Sav] = Absent /\ card'[Sav] = img /\ card'[Tmp] = Absent
        /\ \A g \in Names \ {Sav, Tmp} : card'[g] = card[g]
    BY <1>5, <1>a, RenameFrame DEF RenameTmp, ScratchInv
  <2>2. img \in tried /\ UNCHANGED <<tried, acked>>
    BY <1>5 DEF RenameTmp, SaveInv
  <2>3. CardInv'
    <3>1. CASE card' = card
      BY <3>1, <2>2 DEF CardInv, Present, Whole, Fresh
    <3>2. CASE card'[Sav] = img /\ card'[Tmp] = Absent
      <4>1. \A f \in Names : card'[f] # Garbled  BY <1>a, <1>b, <2>1, <3>2
      <4>2. QED  BY <4>1, <3>2, <1>b, <2>2 DEF CardInv, Present, Fresh
    <3>3. QED  BY <2>1, <3>1, <3>2
  <2>4. SaveInv'  BY <1>5, <1>b, <1>c DEF RenameTmp, SaveInv, VerdictInv
  <2>5. QED  BY <2>3, <2>4
<1>6. CASE CheckSwap
  <2>1. SwapLanded(Sav, Tmp) \in BOOLEAN  BY DEF SwapLanded, FullSize, Present
  <2>2. SwapLanded(Sav, Tmp) => card[Sav] = img
    BY <1>6, <1>b DEF CheckSwap, SwapLanded, Present, ScratchInv
  <2>3. CardInv'
    BY <1>6, <1>a, <1>b, <2>1, <2>2, ReadFrame DEF CheckSwap, CardInv, Present, Whole, Fresh
  <2>4. SaveInv'
    BY <1>6, <1>a, <1>b, <1>c, <2>1, <2>2, ReadFrame DEF CheckSwap, SaveInv, VerdictInv
  <2>5. QED  BY <2>3, <2>4
<1>7. CASE WhereAreTheBytes
  <2>1. where' = "TARGET" => card[Sav] = img
    BY <1>7 DEF WhereAreTheBytes, Answer, Matches
  <2>2. verdict # "OK"  BY <1>7 DEF WhereAreTheBytes, VerdictInv
  <2>3. CardInv'
    BY <1>7, <1>b, <2>1 DEF WhereAreTheBytes, CardInv, Present, Whole, Fresh
  <2>4. SaveInv'  BY <1>7, <1>b, <1>c, <2>1, <2>2 DEF WhereAreTheBytes, SaveInv
  <2>5. QED  BY <2>3, <2>4
<1>8. QED  BY <1>1, <1>2, <1>3, <1>4, <1>5, <1>6, <1>7

\* A step of a save leaves the Bank's own code where it is.
LEMMA BoxSaveStep ==
  ASSUME BoxInv, HonestCard, SaveStep, UNCHANGED boxVars
  PROVE  BoxInv'
<1>1. pc \in Steps /\ pc' \in Steps \cup {"idle"} /\ img' = img
  BY SaveStepPlace DEF BoxInv
<1>2. BoxTypeOK'
  BY <1>1, SaveStepType DEF BoxInv, BoxTypeOK, boxVars, Steps
<1>3. CardInv' /\ SaveInv'
  BY BoxBackupStep, BoxWriteStep DEF SaveStep
<1>4. at \in {"saving", "healing"}  BY <1>1 DEF BoxInv, SaveInv
<1>5. PageInv'  BY <1>1, <1>4 DEF BoxInv, PageInv, boxVars
<1>6. QED  BY <1>2, <1>3, <1>5, SaveStepSwap DEF BoxInv

-----------------------------------------------------------------------------
\* What a page-in would bring back is an image the user was last told or has
\* asked to save since; nothing, only when they were told there is nothing.
LEMMA RecoveredFresh ==
  ASSUME BoxInv
  PROVE  /\ Recovered \in Fresh
         /\ Recovered \in Images \cup {Absent}
         /\ Recovered = Absent => ~Present(Sav) /\ ~Whole(Tmp) /\ ~Whole(Bak)
         /\ Present(Sav) => Recovered = card[Sav]
         /\ \A f \in Names : FullSize(f) = Whole(f)
<1> USE BoxNames, ImageAssumption DEF BoxInv, BoxTypeOK
<1>1. \A f \in Names : FullSize(f) = Whole(f)
  BY DEF CardInv, FullSize, Whole
<1>2. Fresh \subseteq Images \cup {Absent}  BY DEF Fresh, TypeOK
<1>3. CASE Present(Sav)
  BY <1>1, <1>2, <1>3 DEF Recovered, CardInv, Present
<1>4. CASE ~Present(Sav)
  BY <1>1, <1>2, <1>4 DEF Recovered, CardInv, Whole, Fresh
<1>5. QED  BY <1>1, <1>3, <1>4

\* The end of a page-in: what is reported as read or healed is what a page-in
\* would bring back.
LEMMA LoadedKeeps ==
  ASSUME BoxInv, NEW u \in {"no", "err", "heal"}, NEW c \in Images \cup {Absent},
         Loaded(u, c), pc = "idle", UNCHANGED <<pc, caller, img, slot, verdict, where>>,
         mishaps' \in 0..MaxMishaps, card' \in [Names -> Contents],
         u = "no" => card' = card /\ c = Recovered /\ (Present(Sav) \/ c = Absent),
         card' = card \/ (~Present(Sav) /\ CardInv')
  PROVE  BoxInv'
<1> USE BoxNames, ImageAssumption DEF BoxInv
<1>1. BoxTypeOK'
  BY DEF Loaded, BoxTypeOK, TypeOK, Contents, Steps
<1>2. VerdictInv' /\ ScratchInv' /\ BackupInv'
  BY DEF VerdictInv, ScratchInv, BackupInv, Steps
<1>3. CASE card' = card
  <2>1. CardInv'
    <3>1. CASE u = "no"
      BY <1>3, <3>1, RecoveredFresh DEF Loaded, CardInv, Present, Whole, Fresh
    <3>2. CASE u # "no"
      BY <1>3, <3>2 DEF Loaded, CardInv, Present, Whole, Fresh
    <3>3. QED  BY <3>1, <3>2
  <2>2. SaveInv'  BY <1>3 DEF SaveInv, Steps
  <2>3. Recovered' = Recovered  BY <1>3 DEF Recovered, Present, FullSize
  <2>4. PageInv'  BY <1>3, <2>3 DEF Loaded, PageInv
  <2>5. QED  BY <1>1, <1>2, <2>1, <2>2, <2>4
<1>4. CASE ~Present(Sav) /\ CardInv' /\ u # "no"
  <2>1. SaveInv'
    BY <1>4 DEF SaveInv, Steps, Present, BoxTypeOK, TypeOK
  <2>2. PageInv'  BY <1>4 DEF Loaded, PageInv
  <2>3. QED  BY <1>1, <1>2, <1>4, <2>1, <2>2
<1>5. QED  BY <1>3, <1>4

\* Paging a box in.
LEMMA BoxPageStep ==
  ASSUME BoxInv, HonestCard, PageIn \/ ReadBox \/ HealFromTmp \/ CheckHeal
  PROVE  BoxInv'
<1> USE BoxNames, ImageAssumption
<1>a. TypeOK /\ BoxTypeOK /\ CardInv /\ PageInv /\ mishaps \in 0..MaxMishaps
      /\ \A f \in Names : card[f] \in Contents \ {Garbled}
  BY DEF BoxInv, BoxTypeOK, TypeOK, CardInv
<1>1. CASE PageIn
  <2>1. UNCHANGED vars /\ pc = "idle" /\ UNCHANGED <<resident, ram, dirty, unread, based>>
        /\ at = "user" /\ at' = "classify"
    BY <1>1 DEF PageIn
  <2> USE <2>1 DEF BoxInv, vars
  <2>2. BoxTypeOK'  BY DEF BoxTypeOK, TypeOK
  <2>3. VerdictInv' /\ ScratchInv' /\ BackupInv'
    BY DEF VerdictInv, ScratchInv, BackupInv, Steps
  <2>4. CardInv'  BY DEF CardInv, Present, Whole, Fresh
  <2>5. SaveInv'  BY DEF SaveInv, Steps
  <2>6. PageInv'  BY DEF PageInv
  <2>7. QED  BY <2>2, <2>3, <2>4, <2>5, <2>6
<1>2. CASE ReadBox
  <2>1. pc = "idle" /\ UNCHANGED <<card, pc, caller, img, slot, verdict, where>>
        /\ mishaps' \in 0..MaxMishaps /\ card' \in [Names -> Contents]
    BY <1>2, <1>a, BoundAssumption DEF ReadBox, Mishap, Calm, TypeOK
  <2>2. CASE Loaded("err", Absent)
    BY <2>1, <2>2, LoadedKeeps
  <2>3. CASE Loaded("no", Recovered) /\ (Present(Sav) \/ Recovered = Absent)
    <3>1. Recovered \in Images \cup {Absent}  BY RecoveredFresh
    <3>2. QED  BY <2>1, <2>3, <3>1, LoadedKeeps
  <2>4. CASE /\ ~Present(Sav) /\ Recovered # Absent
             /\ at' = (IF FullSize(Tmp) THEN "healRename" ELSE "healBak")
             /\ ram' = Recovered /\ Staying
    <3> USE <2>1, <2>4 DEF BoxInv, Staying, history
    <3>1. /\ Recovered \in Images
          /\ \A f \in Names : FullSize(f) = Whole(f)
      BY RecoveredFresh
    <3>2. BoxTypeOK'  BY <1>a, <3>1 DEF BoxTypeOK, TypeOK, Contents
    <3>3. VerdictInv' /\ ScratchInv' /\ BackupInv'
      BY DEF VerdictInv, ScratchInv, BackupInv, Steps
    <3>4. CardInv'  BY DEF CardInv, Present, Whole, Fresh
    <3>5. SaveInv'  BY DEF SaveInv, Steps
    <3>6. PageInv'  BY <3>1 DEF PageInv, Recovered, Present, Whole
    <3>7. QED  BY <3>2, <3>3, <3>4, <3>5, <3>6
  <2>5. QED  BY <1>2, <2>2, <2>3, <2>4 DEF ReadBox
<1>3. CASE HealFromTmp
  <2>1. PICK ok \in BOOLEAN :
          /\ Rename(Tmp, Sav, ok)
          /\ IF ok THEN at' = "healCheck" /\ UNCHANGED ram /\ Staying
             ELSE Loaded("heal", ram)
    BY <1>3 DEF HealFromTmp
  <2>2. /\ at = "healRename" /\ pc = "idle"
        /\ UNCHANGED <<pc, caller, img, slot, verdict, where>>
        /\ ~Present(Sav) /\ Whole(Tmp) /\ ram = card[Tmp] /\ card[Tmp] \in Fresh
    BY <1>3, <1>a DEF HealFromTmp, PageInv, CardInv
  <2>3. /\ card' \in [Names -> Contents] /\ mishaps' \in 0..MaxMishaps
        /\ \/ card' = card
           \/ card'[Sav] = card[Tmp] /\ card'[Tmp] = Absent
        /\ \A g \in Names \ {Sav, Tmp} : card'[g] = card[g]
    BY <1>a, <2>1, RenameFrame
  <2>4. UNCHANGED history
    BY <2>1 DEF Staying, Loaded, history
  <2>5. card[Tmp] \in Images /\ card[Tmp] # Absent  BY <2>2 DEF Whole
  <2>6. CardInv'
    <3>1. CASE card' = card
      BY <1>a, <2>4, <3>1 DEF CardInv, Present, Whole, Fresh, history
    <3>2. CASE card'[Sav] = card[Tmp] /\ card'[Tmp] = Absent
      <4>1. \A f \in Names : card'[f] # Garbled  BY <1>a, <2>3, <3>2
      <4>2. QED  BY <3>2, <4>1, <2>2, <2>4, <2>5 DEF CardInv, Present, Fresh, history
    <3>3. QED  BY <2>3, <3>1, <3>2
  <2>7. CASE ~ok
    BY <2>1, <2>2, <2>3, <2>5, <2>6, <2>7, LoadedKeeps
  <2>8. CASE ok
    <3>1. card'[Sav] = card[Tmp] /\ card[Sav] = Absent
      BY <1>a, <2>1, <2>8, HonestRename
    <3> USE <2>1, <2>2, <2>3, <2>5, <2>8, <3>1 DEF BoxInv, Staying, history
    <3>2. BoxTypeOK'  BY <1>a DEF BoxTypeOK, TypeOK
    <3>3. VerdictInv' /\ ScratchInv' /\ BackupInv'
      BY DEF VerdictInv, ScratchInv, BackupInv, Steps
    <3>4. SaveInv'  BY <1>a DEF SaveInv, Steps, TypeOK
    <3>5. PageInv'  BY DEF PageInv
    <3>6. QED  BY <2>6, <3>2, <3>3, <3>4, <3>5
  <2>9. QED  BY <2>7, <2>8
<1>4. CASE CheckHeal
  <2>1. PICK landed \in BOOLEAN :
          /\ Reads(SwapLanded(Sav, Tmp), landed)
          /\ Loaded(IF landed THEN "no" ELSE "heal", ram)
    BY <1>4 DEF CheckHeal
  <2>2. SwapLanded(Sav, Tmp) \in BOOLEAN  BY DEF SwapLanded, FullSize, Present
  <2>3. /\ pc = "idle" /\ UNCHANGED <<card, pc, caller, img, slot, verdict, where>>
        /\ ram = card[Sav] /\ ram \in Images /\ Present(Sav)
    BY <1>4, <1>a DEF CheckHeal, PageInv, Present
  <2>4. mishaps' \in 0..MaxMishaps  BY <1>a, <2>1, <2>2, ReadFrame
  <2>5. ram = Recovered  BY <2>3 DEF Recovered
  <2>6. QED  BY <1>a, <2>1, <2>3, <2>4, <2>5, LoadedKeeps DEF TypeOK
<1>5. QED  BY <1>1, <1>2, <1>3, <1>4

\* A save begins, of the buffer or of the bytes of the backup.
LEMMA BoxBeginStep ==
  ASSUME BoxInv, SaveBox \/ HealFromBak
  PROVE  BoxInv'
<1> USE BoxNames, ImageAssumption
<1>a. TypeOK /\ BoxTypeOK /\ CardInv /\ PageInv /\ SaveInv
  BY DEF BoxInv, BoxTypeOK
<1>b. FirstStep["box"] = "stat" /\ FirstStep["heal"] = "write"  BY DEF FirstStep
<1>1. PICK c \in {"box", "heal"} :
        /\ Begin(c, ram) /\ ram \in Images /\ UNCHANGED <<resident, ram, dirty, unread, based>>
        /\ c = "box" => /\ at = "user" /\ resident /\ dirty /\ unread = "no"
                        /\ at' = "saving"
        /\ c = "heal" => at = "healBak" /\ at' = "healing"
  BY <1>a DEF SaveBox, HealFromBak, BoxTypeOK, PageInv, Whole
<1>2. /\ pc = "idle" /\ pc' = FirstStep[c] /\ pc' \in {"stat", "write"}
      /\ caller' = c /\ img' = ram /\ slot' = BakTmp
      /\ verdict' = "none" /\ where' = "none" /\ tried' = tried \cup {ram}
      /\ UNCHANGED <<card, mishaps, acked>>
  BY <1>1, <1>b DEF Begin
<1>3. BoxTypeOK'
  BY <1>a, <1>1, <1>2, BoxCallers DEF BoxTypeOK, TypeOK, Steps, Verdicts, Answers
<1>4. CardInv'  BY <1>a, <1>2 DEF CardInv, Present, Whole, Fresh
<1>5. pc' = "write" => ~Present(Sav)
  BY <1>a, <1>1, <1>2, <1>b DEF PageInv
<1>6. VerdictInv' /\ ScratchInv' /\ BackupInv'
  BY <1>1, <1>2, <1>b DEF VerdictInv, ScratchInv, BackupInv, Steps, Unbacked
<1>7. SaveInv'  BY <1>1, <1>2, <1>5 DEF SaveInv, Steps, Present
<1>8. PageInv'  BY <1>a, <1>1, <1>2 DEF PageInv
<1>9. QED  BY <1>3, <1>4, <1>6, <1>7, <1>8 DEF BoxInv

\* A save is over, and the Bank's own code takes its verdict.
LEMMA BoxDoneStep ==
  ASSUME BoxInv, HealDone \/ SaveDone
  PROVE  BoxInv'
<1> USE BoxNames, ImageAssumption
<1>a. TypeOK /\ BoxTypeOK /\ CardInv /\ PageInv /\ SaveInv
  BY DEF BoxInv, BoxTypeOK
<1>1. CASE HealDone
  <2>1. PICK there \in BOOLEAN :
          /\ Reads(FullSize(Sav), there)
          /\ Loaded(IF verdict = "OK" /\ there THEN "no" ELSE "heal", ram)
    BY <1>1 DEF HealDone
  <2>2. FullSize(Sav) \in BOOLEAN  BY DEF FullSize
  <2>3. /\ pc = "idle" /\ UNCHANGED <<card, pc, caller, img, slot, verdict, where>>
        /\ img = ram /\ ram \in Images
    BY <1>1, <1>a DEF HealDone, PageInv
  <2>4. mishaps' \in 0..MaxMishaps  BY <1>a, <2>1, <2>2, ReadFrame
  <2>5. verdict = "OK" => Present(Sav) /\ ram = Recovered
    BY <1>a, <2>3 DEF SaveInv, Present, Recovered
  <2>6. QED  BY <1>a, <2>1, <2>3, <2>4, <2>5, LoadedKeeps DEF TypeOK
<1>2. CASE SaveDone
  <2>1. /\ pc = "idle" /\ at = "saving" /\ at' = "user"
        /\ dirty' = ~(verdict = "OK" \/ where = "TARGET")
        /\ UNCHANGED vars /\ UNCHANGED <<resident, ram, unread, based>>
    BY <1>2 DEF SaveDone
  <2> USE <2>1 DEF vars, BoxInv
  <2>2. resident /\ based /\ unread = "no" /\ img = ram /\ ram \in Images
    BY <1>a DEF PageInv, BoxTypeOK
  <2>3. BoxTypeOK'  BY <1>a, <2>2 DEF BoxTypeOK, TypeOK
  <2>4. VerdictInv' /\ ScratchInv' /\ BackupInv'
    BY DEF VerdictInv, ScratchInv, BackupInv, Steps
  <2>5. CardInv'  BY DEF CardInv, Present, Whole, Fresh
  <2>6. SaveInv'  BY DEF SaveInv, Steps
  <2>7. Recovered' = Recovered  BY DEF Recovered, Present, FullSize
  <2>8. ~dirty' => ram = Recovered
    BY <1>a, <2>2 DEF SaveInv, Recovered, Present
  <2>9. PageInv'  BY <2>2, <2>7, <2>8 DEF PageInv
  <2>10. QED  BY <2>3, <2>4, <2>5, <2>6, <2>9
<1>3. QED  BY <1>1, <1>2

\* The user edits or leaves, and the power goes and comes back.
LEMMA BoxUserStep ==
  ASSUME BoxInv, Edit \/ LetGo \/ BoxPowerCut \/ PowerOn
  PROVE  BoxInv'
<1> USE BoxNames, ImageAssumption
<1>a. TypeOK /\ BoxTypeOK /\ CardInv /\ PageInv /\ SaveInv
  BY DEF BoxInv, BoxTypeOK
<1>1. CASE Edit \/ LetGo
  <2>1. /\ UNCHANGED vars /\ UNCHANGED <<at, unread, based>> /\ at = "user" /\ pc = "idle"
        /\ \/ resident' = resident /\ resident /\ dirty' = TRUE /\ ram' \in Images
           \/ resident' = FALSE /\ dirty' = FALSE /\ ram' = ram
    BY <1>1 DEF Edit, LetGo
  <2> USE <2>1 DEF vars, BoxInv
  <2>2. BoxTypeOK'  BY <1>a DEF BoxTypeOK, TypeOK, Contents
  <2>3. VerdictInv' /\ ScratchInv' /\ BackupInv'
    BY DEF VerdictInv, ScratchInv, BackupInv, Steps
  <2>4. CardInv'  BY DEF CardInv, Present, Whole, Fresh
  <2>5. SaveInv'  BY DEF SaveInv, Steps
  <2>6. PageInv'  BY DEF PageInv
  <2>7. QED  BY <2>2, <2>3, <2>4, <2>5, <2>6
<1>2. CASE BoxPowerCut
  <2>1. /\ Forget /\ pc' = "off" /\ mishaps' \in 0..MaxMishaps
        /\ UNCHANGED <<caller, img, slot, verdict, where, history>>
        /\ \/ card' = card
           \/ \E f \in {BakTmp, Tmp} : card' = [card EXCEPT ![f] = Short]
    BY <1>2, <1>a, BoundAssumption
    DEF BoxPowerCut, PowerCut, CutInPageIn, PowerOff, InFlight, SaveInv, Mishap, TypeOK
  <2>2. /\ card' \in [Names -> Contents] /\ card'[Sav] = card[Sav] /\ card'[Bak] = card[Bak]
        /\ card'[Tmp] \in {card[Tmp], Short} /\ \A f \in Names : card'[f] # Garbled
    BY <2>1, <1>a DEF TypeOK, CardInv, Contents
  <2> USE <2>1, <2>2 DEF BoxInv, Forget, history
  <2>3. BoxTypeOK'  BY <1>a DEF BoxTypeOK, TypeOK, Contents
  <2>4. VerdictInv' /\ ScratchInv' /\ BackupInv'
    BY DEF VerdictInv, ScratchInv, BackupInv, Steps
  <2>5. CardInv'  BY <1>a DEF CardInv, Present, Whole, Fresh
  <2>6. SaveInv'
    <3>1. CASE pc \in Steps
      BY <3>1, <1>a DEF SaveInv, VerdictInv, Steps
    <3>2. CASE pc \in {"idle", "off"}
      BY <3>2, <1>a DEF SaveInv, Steps
    <3>3. QED  BY <1>a, <3>1, <3>2 DEF TypeOK
  <2>7. PageInv'  BY DEF PageInv
  <2>8. QED  BY <2>3, <2>4, <2>5, <2>6, <2>7
<1>3. CASE PowerOn
  <2>1. /\ pc = "off" /\ pc' = "idle" /\ verdict' = "none" /\ where' = "none"
        /\ UNCHANGED <<card, caller, img, slot, mishaps, history, boxVars>>
    BY <1>3 DEF PowerOn
  <2> USE <2>1 DEF BoxInv, history, boxVars
  <2>2. BoxTypeOK'  BY <1>a DEF BoxTypeOK, TypeOK, Verdicts, Answers
  <2>3. VerdictInv' /\ ScratchInv' /\ BackupInv'
    BY DEF VerdictInv, ScratchInv, BackupInv, Steps
  <2>4. CardInv'  BY <1>a DEF CardInv, Present, Whole, Fresh
  <2>5. SaveInv'  BY <1>a DEF SaveInv, Steps
  <2>6. Recovered' = Recovered  BY DEF Recovered, Present, FullSize
  <2>7. PageInv'
    <3>1. at = "user"  BY <1>a DEF BoxTypeOK
    <3>2. QED  BY <1>a, <2>6, <3>1 DEF PageInv
  <2>8. QED  BY <2>2, <2>3, <2>4, <2>5, <2>7
<1>4. QED  BY <1>1, <1>2, <1>3

-----------------------------------------------------------------------------
LEMMA BoxStart == BoxInit => BoxInv
<1> SUFFICES ASSUME BoxInit PROVE BoxInv  OBVIOUS
<1> USE BoxNames, ImageAssumption DEF BoxInit
<1>1. TypeOK  BY InitType
<1>2. BoxTypeOK  BY <1>1 DEF BoxTypeOK, Contents, Init
<1>3. VerdictInv /\ ScratchInv /\ BackupInv
  BY DEF Init, VerdictInv, ScratchInv, BackupInv, Steps
<1>4. card \in [Names -> Images \cup {Absent}] /\ acked = card[Sav] /\ card[Tmp] = Absent
      /\ (card[Sav] = Absent => card[Bak] = Absent)
  BY NameFacts DEF Init, Present, Bak
<1>5. CardInv  BY <1>4 DEF CardInv, Fresh, Present, Whole
<1>6. SaveInv  BY DEF Init, SaveInv, Steps
<1>7. PageInv  BY DEF PageInv
<1>8. QED  BY <1>2, <1>3, <1>5, <1>6, <1>7 DEF BoxInv

LEMMA BoxStep == HonestCard /\ BoxInv /\ [BoxNext]_allVars => BoxInv'
<1> SUFFICES ASSUME HonestCard, BoxInv, [BoxNext]_allVars PROVE BoxInv'  OBVIOUS
<1>1. CASE UNCHANGED allVars
  BY <1>1
  DEF allVars, vars, boxVars, BoxInv, BoxTypeOK, TypeOK, VerdictInv, ScratchInv,
      BackupInv, CardInv, SaveInv, PageInv, Recovered, Present, Whole, FullSize,
      Fresh, BackedUp
<1>2. CASE BoxNext
  BY <1>2, BoxSaveStep, BoxPageStep, BoxBeginStep, BoxDoneStep, BoxUserStep DEF BoxNext
<1>3. QED  BY <1>1, <1>2

LEMMA BoxInvariant == ASSUME HonestCard PROVE BoxSpec => []BoxInv
<1>1. BoxInv /\ [BoxNext]_allVars => BoxInv'  BY BoxStep
<1>2. QED  BY <1>1, BoxStart, PTL DEF BoxSpec

\* Every state of the box file, of the buffer and of the save is well typed:
\* a dirty buffer is a resident box, and no page-in is under way while the
\* power is off.
THEOREM BoxTypeCorrect == ASSUME HonestCard PROVE BoxSpec => []BoxTypeOK
<1>1. BoxInv => BoxTypeOK  BY DEF BoxInv
<1>2. QED  BY <1>1, BoxInvariant, PTL

\* Leaving a box that is not dirty loses no edit, whatever failed before.
THEOREM CleanIsSaved == ASSUME HonestCard PROVE BoxSpec => []CleanMeansSaved
<1>1. BoxInv => CleanMeansSaved  BY DEF BoxInv, PageInv, CleanMeansSaved
<1>2. QED  BY <1>1, BoxInvariant, PTL

\* No box is written from a buffer that no page-in filled from the card.
THEOREM NoPhantomWritten == ASSUME HonestCard PROVE BoxSpec => NeverFromAPhantom
<1>1. BoxInv /\ [BoxNext]_allVars => [SaveBox => based]_allVars
  BY DEF BoxInv, PageInv, SaveBox
<1>2. QED  BY <1>1, BoxInvariant, PTL DEF BoxSpec, NeverFromAPhantom

-----------------------------------------------------------------------------
(***************************************************************************)
(* The box file implements DurableStore, with what a page-in would bring   *)
(* back for its state.                                                     *)
(***************************************************************************)
LEMMA StoreInit == BoxInit => Store!Init
<1> SUFFICES ASSUME BoxInit PROVE Store!Init  OBVIOUS
<1>1. Recovered \in Images \cup {Absent}  BY BoxStart, RecoveredFresh
<1>2. Recovered = acked
  BY BoxNames, NameFacts, ImageAssumption
  DEF BoxInit, Init, Recovered, Present, FullSize, Bak
<1>3. tried = {}  BY DEF BoxInit, Init
<1>4. QED  BY <1>1, <1>2, <1>3 DEF Store!Init

\* What a step may do to the card and to what the user knows: ask for a save
\* and nothing else, tell them nothing, or tell them what a page-in would
\* bring back.
LEMMA StoreMoves ==
  ASSUME HonestCard, BoxInv, BoxNext
  PROVE  \/ \E v \in Images : tried' = tried \cup {v} /\ acked' = acked /\ card' = card
         \/ UNCHANGED <<acked, tried>>
         \/ acked' = Recovered' /\ tried' = {} /\ Recovered' \in Fresh
<1> USE BoxNames, ImageAssumption
<1>a. BoxInv' /\ TypeOK /\ CardInv /\ SaveInv /\ PageInv /\ Recovered \in Fresh
      /\ BoxTypeOK
  BY BoxStep, RecoveredFresh DEF BoxInv, BoxTypeOK
<1>1. CASE SaveStep /\ UNCHANGED boxVars
  <2>1. pc \in Steps /\ img \in tried  BY <1>1, <1>a, SaveStepPlace DEF SaveInv
  <2>2. CASE UNCHANGED <<acked, tried>>
    BY <2>2
  <2>3. CASE acked' = img /\ tried' = {} /\ card'[Sav] = img
    <3>1. Recovered' = img
      BY <1>a, <2>1, <2>3 DEF Recovered, Present, TypeOK
    <3>2. QED  BY <2>1, <2>3, <3>1 DEF Fresh
  <2>4. CheckSwap => \/ UNCHANGED <<acked, tried>>
                     \/ acked' = img /\ tried' = {} /\ card'[Sav] = img
    BY <1>a DEF CheckSwap, Return, Unconfirmed, history, BoxInv, SaveInv
  <2>5. WhereAreTheBytes => \/ UNCHANGED <<acked, tried>>
                            \/ acked' = img /\ tried' = {} /\ card'[Sav] = img
    BY DEF WhereAreTheBytes, Answer, Matches
  <2>6. DiscardTmp => UNCHANGED <<acked, tried>>
    BY <1>a DEF DiscardTmp, Return, BoxInv, VerdictInv
  <2>7. \/ StatTarget \/ PickSlot \/ CopyToBackup \/ CompareBackup
        \/ DropBackupScratch \/ UnlinkBackup \/ RenameBackup \/ CheckBackup
        \/ WriteTmp \/ VerifyTmp \/ UnlinkTarget \/ RenameTmp
        => UNCHANGED <<acked, tried>>
    BY DEF StatTarget, PickSlot, CopyToBackup, CompareBackup, DropBackupScratch,
           UnlinkBackup, RenameBackup, CheckBackup, WriteTmp, VerifyTmp, UnlinkTarget,
           RenameTmp, BackupFails, Goto, Return, Discard, Unconfirmed, history
  <2>8. QED  BY <1>1, <2>2, <2>3, <2>4, <2>5, <2>6, <2>7 DEF SaveStep
<1>2. CASE SaveBox \/ HealFromBak
  <2>1. ram \in Images
    BY <1>2, <1>a DEF SaveBox, HealFromBak, BoxTypeOK, PageInv, Whole
  <2>2. tried' = tried \cup {ram} /\ acked' = acked /\ card' = card
    BY <1>2 DEF SaveBox, HealFromBak, Begin
  <2>3. QED  BY <2>1, <2>2
<1>3. CASE ReadBox
  <2>1. card' = card  BY <1>3 DEF ReadBox
  <2>2. Recovered' = Recovered  BY <2>1 DEF Recovered, Present, FullSize
  <2>3. QED  BY <1>3, <1>a, <2>2 DEF ReadBox, Loaded, Staying, history
<1>4. CASE CheckHeal
  <2>1. card' = card /\ ram = Recovered
    BY <1>4, <1>a DEF CheckHeal, PageInv, Recovered, Present
  <2>2. Recovered' = Recovered  BY <2>1 DEF Recovered, Present, FullSize
  <2>3. QED  BY <1>4, <1>a, <2>1, <2>2 DEF CheckHeal, Loaded
<1>5. CASE HealDone
  <2>1. card' = card /\ (verdict = "OK" => ram = Recovered)
    BY <1>5, <1>a DEF HealDone, PageInv, SaveInv, Recovered, Present
  <2>2. Recovered' = Recovered  BY <2>1 DEF Recovered, Present, FullSize
  <2>3. QED  BY <1>5, <1>a, <2>1, <2>2 DEF HealDone, Loaded
<1>6. CASE HealFromTmp
  BY <1>6 DEF HealFromTmp, Loaded, Staying, history
<1>7. CASE PageIn \/ Edit \/ SaveDone \/ LetGo \/ BoxPowerCut \/ PowerOn
  BY <1>7
  DEF PageIn, Edit, SaveDone, LetGo, BoxPowerCut, PowerCut, CutInPageIn, PowerOff,
      PowerOn, vars, history
<1>8. QED  BY <1>1, <1>2, <1>3, <1>4, <1>5, <1>6, <1>7 DEF BoxNext

LEMMA FreshAfter == BoxInv' => (Recovered \in Fresh)'
<1>1. BoxInv => Recovered \in Fresh  BY RecoveredFresh
<1>2. QED  BY <1>1, PTL

LEMMA StoreStep ==
  HonestCard /\ BoxInv /\ [BoxNext]_allVars => [Store!Next]_(Store!vars)
<1> SUFFICES ASSUME HonestCard, BoxInv, [BoxNext]_allVars
             PROVE  [Store!Next]_(Store!vars)
  OBVIOUS
<1>1. CASE UNCHANGED allVars
  BY <1>1 DEF allVars, vars, Store!vars, Recovered, Present, FullSize
<1>2. CASE BoxNext
  <2>1. (Recovered \in Fresh)'  BY <1>2, BoxStep, FreshAfter
  <2>2. CASE \E v \in Images : tried' = tried \cup {v} /\ acked' = acked /\ card' = card
    <3>1. Recovered' = Recovered  BY <2>2 DEF Recovered, Present, FullSize
    <3>2. QED  BY <2>2, <3>1 DEF Store!Next, Store!Try
  <2>3. CASE UNCHANGED <<acked, tried>>
    BY <2>1, <2>3 DEF Store!Next, Store!Move, Fresh
  <2>4. CASE acked' = Recovered' /\ tried' = {} /\ Recovered' \in Fresh
    BY <2>4 DEF Store!Next, Store!Tell, Fresh
  <2>5. QED  BY <1>2, <2>2, <2>3, <2>4, StoreMoves
<1>3. QED  BY <1>1, <1>2

\* A box file is a durable store: after any read errors, failed writes and
\* power cuts a page-in brings back the box the user last saved or saw, or one
\* they asked to save since; never an older one, never nothing in its place.
THEOREM Implements == ASSUME HonestCard PROVE BoxSpec => KeepsItsPromise
<1>1. BoxInv /\ [BoxNext]_allVars => [Store!Next]_(Store!vars)  BY StoreStep
<1>2. QED
  BY <1>1, StoreInit, BoxInvariant, PTL DEF BoxSpec, KeepsItsPromise, Store!Spec
=============================================================================
