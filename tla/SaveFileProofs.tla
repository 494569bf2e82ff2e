--------------------------- MODULE SaveFileProofs ---------------------------
(***************************************************************************)
(* Proofs about SaveFile, for every set of images, every shelf of backup   *)
(* names, every number and kind of mishaps.                                *)
(***************************************************************************)
EXTENDS SaveFile, TLAPS

\* The backup names are on the card beside the three fixed names, and the
\* first and the last of them exist.
LEMMA NameFacts ==
  /\ Sav \in Names /\ Tmp \in Names /\ BakTmp \in Names
  /\ Sav # Tmp /\ Sav # BakTmp /\ Tmp # BakTmp
  /\ \A n \in Slots : Shelf[n] \in Names \ {Sav, Tmp, BakTmp}
  /\ 1 \in Slots /\ Len(Shelf) \in Slots
<1>1. Len(Shelf) \in Nat /\ Len(Shelf) > 0  BY ShelfAssumption
<1>2. 1 \in Slots /\ Len(Shelf) \in Slots  BY <1>1 DEF Slots
<1>3. QED  BY <1>2, ShelfAssumption DEF Names, Sav, Tmp, BakTmp

\* f_unlink touches one name only, which is then as it was or gone.
LEMMA UnlinkFrame ==
  ASSUME TypeOK, NEW f \in Names, Unlink(f)
  PROVE  /\ card' \in [Names -> Contents] /\ mishaps' \in 0..MaxMishaps
         /\ card'[f] \in {card[f], Absent}
         /\ \A g \in Names \ {f} : card'[g] = card[g]
  BY BoundAssumption DEF TypeOK, Unlink, Calm, Mishap, Contents

\* f_rename touches two names only: they change together or not at all, and
\* a success that was no swallowed one moved the bytes.
LEMMA RenameFrame ==
  ASSUME TypeOK, NEW f \in Names, NEW t \in Names, f # t,
         NEW ok \in BOOLEAN, Rename(f, t, ok)
  PROVE  /\ card' \in [Names -> Contents] /\ mishaps' \in 0..MaxMishaps
         /\ \/ card' = card
            \/ card[t] = Absent /\ card'[t] = card[f] /\ card'[f] = Absent
         /\ \A g \in Names \ {f, t} : card'[g] = card[g]
  BY BoundAssumption
  DEF TypeOK, Rename, Moved, CanMove, Present, Calm, Mishap, Contents

\* A write touches one name only, and leaves a damaged or an old file there
\* when it does not leave the image.
LEMMA WriteFrame ==
  ASSUME TypeOK, NEW f \in Names, NEW v \in Contents, NEW s, WriteOutcome(f, v, s)
  PROVE  /\ card' \in [Names -> Contents] /\ mishaps' \in 0..MaxMishaps
         /\ \A g \in Names \ {f} : card'[g] = card[g]
  BY BoundAssumption DEF TypeOK, WriteOutcome, Present, Calm, Mishap, Contents

\* A read changes nothing, and does not say yes to what is not so.
LEMMA ReadFrame ==
  ASSUME TypeOK, NEW truth \in BOOLEAN, NEW answer \in BOOLEAN, Reads(truth, answer)
  PROVE  mishaps' \in 0..MaxMishaps /\ (answer => truth)
  BY BoundAssumption DEF TypeOK, Reads, Calm, Mishap

-----------------------------------------------------------------------------
\* The part of the state that a step leaves in its type whatever it does
\* with the card.
LEMMA ReturnType ==
  ASSUME TypeOK, NEW s \in Verdicts, Return(s)
  PROVE  /\ pc' \in Steps \cup {"idle", "off"} /\ caller' \in Callers /\ img' \in Images
         /\ verdict' \in Verdicts /\ where' \in Answers
         /\ acked' \in Images \cup {Absent} /\ tried' \subseteq Images
  BY DEF TypeOK, Return

LEMMA GotoType ==
  ASSUME TypeOK, NEW s \in Steps, Goto(s)
  PROVE  /\ pc' \in Steps \cup {"idle", "off"} /\ caller' \in Callers /\ img' \in Images
         /\ verdict' \in Verdicts /\ where' \in Answers
         /\ acked' \in Images \cup {Absent} /\ tried' \subseteq Images
  BY DEF TypeOK, Goto, history

\* The two failure exits of a save step.
LEMMA FailureType ==
  ASSUME TypeOK, BackupFails \/ Unconfirmed \/ \E s \in {"WRITE", "VERIFY"} : Discard(s)
  PROVE  /\ pc' \in Steps \cup {"idle", "off"} /\ caller' \in Callers /\ img' \in Images
         /\ verdict' \in Verdicts /\ where' \in Answers
         /\ acked' \in Images \cup {Absent} /\ tried' \subseteq Images
  BY ReturnType, GotoType
  DEF TypeOK, BackupFails, Unconfirmed, Discard, history, Steps, Verdicts

\* Every step of a save keeps the types.
LEMMA SaveStepType == TypeOK /\ SaveStep => TypeOK'
<1> SUFFICES ASSUME TypeOK, SaveStep PROVE TypeOK'
  OBVIOUS
<1> USE NameFacts
<1>1. CASE StatTarget
  BY <1>1, ReturnType, GotoType, BoundAssumption
  DEF StatTarget, TypeOK, Calm, Mishap, Steps, Verdicts
<1>2. CASE PickSlot
  <2>1. slot' \in Names \ {Sav, Tmp}  BY <1>2 DEF PickSlot, Slots
  <2>2. card' \in [Names -> Contents] /\ mishaps' \in 0..MaxMishaps
    BY <1>2, <2>1, UnlinkFrame, BoundAssumption DEF PickSlot, TypeOK, Calm, Mishap
  <2>3. QED  BY <1>2, <2>1, <2>2, GotoType DEF PickSlot, TypeOK, Steps
<1>3. CASE CopyToBackup
  <2>1. slot \in Names /\ card[Sav] \in Contents  BY DEF TypeOK
  <2>2. card' \in [Names -> Contents] /\ mishaps' \in 0..MaxMishaps
    <3>1. CASE \E s \in {"OK", "OPEN", "WRITE"} : WriteOutcome(slot, card[Sav], s)
      BY <3>1, <2>1, WriteFrame
    <3>2. CASE card' \in {card, [card EXCEPT ![slot] = Short]}
               /\ (Calm \/ Mishap({"read"}))
      BY <3>2, BoundAssumption DEF TypeOK, Calm, Mishap, Contents
    <3>3. QED  BY <1>3, <3>1, <3>2 DEF CopyToBackup
  <2>3. QED  BY <1>3, <2>2, FailureType, GotoType DEF CopyToBackup, TypeOK, Steps
<1>4. CASE CompareBackup
  <2>1. SameBytes \in BOOLEAN  BY DEF SameBytes, Present
  <2>2. mishaps' \in 0..MaxMishaps  BY <1>4, <2>1, ReadFrame DEF CompareBackup
  <2>3. QED  BY <1>4, <2>2, FailureType, GotoType DEF CompareBackup, TypeOK, Steps
<1>5. CASE DropBackupScratch
  BY <1>5, UnlinkFrame, ReturnType DEF DropBackupScratch, TypeOK, Verdicts
<1>6. CASE UnlinkBackup
  BY <1>6, UnlinkFrame, GotoType DEF UnlinkBackup, TypeOK, Steps
<1>7. CASE RenameBackup
  BY <1>7, RenameFrame, ReturnType, GotoType DEF RenameBackup, TypeOK, Steps, Verdicts
<1>8. CASE CheckBackup
  <2>1. BackupLanded \in BOOLEAN  BY DEF BackupLanded, SameSize, FullSize, Present
  <2>2. mishaps' \in 0..MaxMishaps  BY <1>8, <2>1, ReadFrame DEF CheckBackup
  <2>3. QED  BY <1>8, <2>2, ReturnType, GotoType DEF CheckBackup, TypeOK, Steps, Verdicts
<1>9. CASE WriteTmp
  <2>1. img \in Contents  BY DEF TypeOK, Contents
  <2>2. card' \in [Names -> Contents] /\ mishaps' \in 0..MaxMishaps
    BY <1>9, <2>1, WriteFrame DEF WriteTmp, TypeOK, Calm, Contents
  <2>3. QED
    BY <1>9, <2>2, FailureType, ReturnType, GotoType DEF WriteTmp, TypeOK, Steps, Verdicts
<1>10. CASE VerifyTmp
  <2>1. Matches(Tmp) \in BOOLEAN  BY DEF Matches
  <2>2. mishaps' \in 0..MaxMishaps  BY <1>10, <2>1, ReadFrame DEF VerifyTmp
  <2>3. QED  BY <1>10, <2>2, FailureType, GotoType DEF VerifyTmp, TypeOK, Steps
<1>11. CASE DiscardTmp
  BY <1>11, UnlinkFrame, ReturnType DEF DiscardTmp, TypeOK
<1>12. CASE UnlinkTarget
  BY <1>12, UnlinkFrame, GotoType DEF UnlinkTarget, TypeOK, Steps
<1>13. CASE RenameTmp
  BY <1>13, RenameFrame, FailureType, GotoType DEF RenameTmp, TypeOK, Steps
<1>14. CASE CheckSwap
  <2>1. SwapLanded(Sav, Tmp) \in BOOLEAN  BY DEF SwapLanded, FullSize, Present
  <2>2. mishaps' \in 0..MaxMishaps  BY <1>14, <2>1, ReadFrame DEF CheckSwap
  <2>3. QED  BY <1>14, <2>2, FailureType, ReturnType DEF CheckSwap, TypeOK, Verdicts
<1>15. CASE WhereAreTheBytes
  BY <1>15, BoundAssumption
  DEF WhereAreTheBytes, Answer, Answers, TypeOK, Calm, Mishap
<1>16. QED
  BY <1>1, <1>2, <1>3, <1>4, <1>5, <1>6, <1>7, <1>8, <1>9, <1>10, <1>11, <1>12,
     <1>13, <1>14, <1>15 DEF SaveStep

\* What happens around a save keeps the types.
LEMMA OutsideType ==
  TypeOK /\ (Save \/ ClearBackups \/ PowerCut \/ PowerOff \/ RestoreOnPC \/ Reopen) => TypeOK'
<1> SUFFICES ASSUME TypeOK,
                    Save \/ ClearBackups \/ PowerCut \/ PowerOff \/ RestoreOnPC \/ Reopen
             PROVE  TypeOK'
  OBVIOUS
<1> USE NameFacts
<1>1. CASE Save
  <2>1. PICK c \in Callers, v \in Images : Begin(c, v)  BY <1>1 DEF Save
  <2>2. FirstStep[c] \in Steps  BY CallerAssumption DEF FirstStep, Steps
  <2>3. QED  BY <2>1, <2>2 DEF Begin, TypeOK, Verdicts, Answers
<1>2. CASE ClearBackups
  BY <1>2, BoundAssumption DEF ClearBackups, TypeOK, Calm, Mishap, Contents, history
<1>3. CASE PowerCut
  BY <1>3, BoundAssumption DEF PowerCut, InFlight, TypeOK, Mishap, Contents, history
<1>4. CASE PowerOff
  BY <1>4 DEF PowerOff, TypeOK, history
<1>5. CASE RestoreOnPC
  BY <1>5 DEF RestoreOnPC, Whole, TypeOK, Contents, history
<1>6. CASE Reopen
  BY <1>6 DEF Reopen, Whole, TypeOK, Verdicts, Answers
<1>7. QED  BY <1>1, <1>2, <1>3, <1>4, <1>5, <1>6

LEMMA NextType == TypeOK /\ [Next]_vars => TypeOK'
<1>1. TypeOK /\ UNCHANGED vars => TypeOK'  BY DEF TypeOK, vars
<1>2. QED  BY <1>1, SaveStepType, OutsideType DEF Next

LEMMA InitType == Init => TypeOK
  BY NameFacts, BoundAssumption
  DEF Init, TypeOK, Contents, Present, Verdicts, Answers

\* Every state the save code and the card can reach is in its type.
THEOREM TypeCorrect == Spec => []TypeOK
  BY InitType, NextType, PTL DEF Spec

-----------------------------------------------------------------------------
(***************************************************************************)
(* What a save reports is so, and the swap is guarded.  TypeOK alone is    *)
(* not enough: a verdict is right because the scratch still held the image *)
(* when it was renamed (ScratchInv), and the swap is guarded because the   *)
(* copy that was compared is still there (BackupInv).                      *)
(***************************************************************************)
LEMMA SwapInit == Init => SwapInv
  BY InitType
  DEF Init, SwapInv, VerdictInv, ScratchInv, BackupInv, ReportTrue, Steps

\* The steps before the scratch is written.
LEMMA SwapBackupStep ==
  ASSUME SwapInv,
         \/ StatTarget \/ PickSlot \/ CopyToBackup \/ CompareBackup
         \/ DropBackupScratch \/ UnlinkBackup \/ RenameBackup \/ CheckBackup
  PROVE  VerdictInv' /\ ScratchInv' /\ BackupInv' /\ ReportTrue'
<1> USE NameFacts DEF SwapInv
<1>a. TypeOK  OBVIOUS
<1> USE DEF VerdictInv, ScratchInv, BackupInv, ReportTrue, Goto, Return, history, Steps
<1>1. CASE StatTarget
  BY <1>1, ImageAssumption DEF StatTarget, Whole, Present
<1>2. CASE PickSlot
  BY <1>2 DEF PickSlot
<1>3. CASE CopyToBackup
  BY <1>3 DEF CopyToBackup, BackupFails
<1>4. CASE CompareBackup
  <2>1. SameBytes \in BOOLEAN  BY DEF SameBytes, Present
  <2>2. CASE BackupFails
    BY <1>4, <2>2 DEF CompareBackup, BackupFails
  <2>3. CASE card[Sav] = card[slot] /\ Goto(IF slot = BakTmp THEN "unlinkBak" ELSE "write")
    BY <1>4, <2>3 DEF CompareBackup, BackedUp, TypeOK
  <2>4. QED  BY <1>4, <2>1, <2>2, <2>3, ReadFrame DEF CompareBackup, SameBytes
<1>5. CASE DropBackupScratch
  BY <1>5 DEF DropBackupScratch
<1>6. CASE UnlinkBackup
  BY <1>6, UnlinkFrame DEF UnlinkBackup
<1>7. CASE RenameBackup
  BY <1>7, RenameFrame DEF RenameBackup
<1>8. CASE CheckBackup
  <2>1. BackedUp
    <3>1. Shelf[1] \in Names \ {Sav, Tmp} /\ BakTmp \in Names \ {Sav, Tmp}  OBVIOUS
    <3>2. card[Sav] \in {card[BakTmp], card[Shelf[1]]}  BY <1>8 DEF CheckBackup
    <3>3. QED  BY <3>1, <3>2 DEF BackedUp
  <2>2. BackedUp'  BY <1>8, <2>1 DEF CheckBackup, BackedUp
  <2>3. QED  BY <1>8, <2>2 DEF CheckBackup
<1>9. QED  BY <1>1, <1>2, <1>3, <1>4, <1>5, <1>6, <1>7, <1>8

\* The steps of the verified write and of the triage after it.
LEMMA SwapWriteStep ==
  ASSUME SwapInv,
         \/ WriteTmp \/ VerifyTmp \/ DiscardTmp \/ UnlinkTarget
         \/ RenameTmp \/ CheckSwap \/ WhereAreTheBytes
  PROVE  VerdictInv' /\ ScratchInv' /\ BackupInv' /\ ReportTrue'
<1> USE NameFacts DEF SwapInv
<1>a. TypeOK /\ img \in Contents  BY DEF TypeOK, Contents
<1> USE DEF VerdictInv, ScratchInv, BackupInv, ReportTrue, Goto, Return, Discard,
            Unconfirmed, history, Steps
<1>1. CASE WriteTmp
  <2>1. \A g \in Names \ {Tmp} : card'[g] = card[g]
    BY <1>1, <1>a, WriteFrame DEF WriteTmp, TypeOK
  <2>2. BackedUp => BackedUp'  BY <2>1 DEF BackedUp
  <2>3. QED  BY <1>1, <2>1, <2>2 DEF WriteTmp, Whole
<1>2. CASE VerifyTmp
  <2>1. Matches(Tmp) \in BOOLEAN  BY DEF Matches
  <2>2. CASE pc' = "unlink"
    BY <1>2, <1>a, <2>1, <2>2, ReadFrame DEF VerifyTmp, Matches, Whole, BackedUp
  <2>3. CASE pc' = "discard"
    BY <1>2, <2>3 DEF VerifyTmp
  <2>4. QED  BY <1>2, <2>2, <2>3 DEF VerifyTmp
<1>3. CASE DiscardTmp
  BY <1>3 DEF DiscardTmp
<1>4. CASE UnlinkTarget
  BY <1>4, <1>a, UnlinkFrame DEF UnlinkTarget
<1>5. CASE RenameTmp
  BY <1>5, <1>a, RenameFrame DEF RenameTmp
<1>6. CASE CheckSwap
  <2>1. SwapLanded(Sav, Tmp) \in BOOLEAN  BY DEF SwapLanded, FullSize, Present
  <2>2. SwapLanded(Sav, Tmp) => card[Sav] = img
    BY <1>6, ImageAssumption DEF CheckSwap, SwapLanded, Present, TypeOK
  <2>3. QED  BY <1>6, <1>a, <2>1, <2>2, ReadFrame DEF CheckSwap
<1>7. CASE WhereAreTheBytes
  BY <1>7 DEF WhereAreTheBytes, Answer, Matches
<1>8. QED  BY <1>1, <1>2, <1>3, <1>4, <1>5, <1>6, <1>7

\* What happens around a save.
LEMMA SwapOutsideStep ==
  ASSUME SwapInv, Save \/ ClearBackups \/ PowerCut \/ PowerOff \/ RestoreOnPC \/ Reopen
  PROVE  VerdictInv' /\ ScratchInv' /\ BackupInv' /\ ReportTrue'
<1> USE NameFacts DEF SwapInv
<1> USE DEF VerdictInv, ScratchInv, BackupInv, ReportTrue, history, Steps
<1>1. CASE Save
  <2>1. PICK c \in Callers, v \in Images : Begin(c, v)  BY <1>1 DEF Save
  <2>2. FirstStep[c] \in {"stat", "pick", "copy", "write"}
        /\ (FirstStep[c] = "write" => c \in Unbacked)
    BY CallerAssumption DEF FirstStep, Unbacked
  <2>3. QED  BY <2>1, <2>2 DEF Begin
<1>2. CASE ClearBackups
  <2>1. Sav \notin Swept /\ Tmp \notin Swept  BY DEF Swept
  <2>2. card'[Sav] = card[Sav] /\ card'[Tmp] = card[Tmp]
    BY <1>2, <2>1 DEF ClearBackups, TypeOK
  <2>3. QED  BY <1>2, <2>2 DEF ClearBackups
<1>3. CASE PowerCut
  BY <1>3 DEF PowerCut
<1>4. CASE PowerOff
  BY <1>4 DEF PowerOff
<1>5. CASE RestoreOnPC
  BY <1>5 DEF RestoreOnPC, Whole, TypeOK
<1>6. CASE Reopen
  BY <1>6 DEF Reopen
<1>7. QED  BY <1>1, <1>2, <1>3, <1>4, <1>5, <1>6

LEMMA SwapNext == SwapInv /\ [Next]_vars => SwapInv'
<1>1. CASE UNCHANGED vars
  BY <1>1, NextType
  DEF SwapInv, VerdictInv, ScratchInv, BackupInv, ReportTrue, BackedUp, Whole, vars
<1>2. CASE Next
  BY <1>2, NextType, SwapBackupStep, SwapWriteStep, SwapOutsideStep
  DEF Next, SaveStep, SwapInv
<1>3. QED  BY <1>1, <1>2

LEMMA SwapInvariant == Spec => []SwapInv
  BY SwapInit, SwapNext, PTL DEF Spec

\* A save that reports OK, or TARGET, left its image under its own name, and
\* the two .tmp answers are so: on every save path, whatever the card does.
THEOREM ReportsAreTrue == Spec => []ReportTrue
<1>1. SwapInv => ReportTrue  BY DEF SwapInv
<1>2. QED  BY <1>1, SwapInvariant, PTL

\* The file is touched under its own name only while the .tmp holds the new
\* image whole and, on the paths that back up, a backup holds the old one.
THEOREM SwapsAreGuarded == Spec => SwapGuarded
<1>1. ASSUME SwapInv, SaveStep, card'[Sav] # card[Sav]
      PROVE  /\ card[Tmp] = img
             /\ BackedUp \/ ~Whole(Sav) \/ caller \in Unbacked
  <2> USE <1>1, NameFacts DEF SwapInv
  <2>1. slot \in Names \ {Sav, Tmp} /\ card[Sav] \in Contents /\ img \in Contents
    BY DEF TypeOK, Contents
  <2>2. CASE UnlinkTarget
    BY <2>2 DEF UnlinkTarget, ScratchInv, BackupInv
  <2>3. CASE RenameTmp
    <3>1. card[Tmp] = img  BY <2>3 DEF RenameTmp, ScratchInv
    <3>2. card[Sav] = Absent  BY <2>3, RenameFrame DEF RenameTmp
    <3>3. QED  BY <3>1, <3>2, ImageAssumption DEF Whole
  <2>4. CASE CopyToBackup
    <3>1. card'[Sav] = card[Sav]  BY <2>1, <2>4, WriteFrame DEF CopyToBackup, TypeOK
    <3>2. QED  BY <3>1
  <2>5. CASE WriteTmp
    <3>1. card'[Sav] = card[Sav]  BY <2>1, <2>5, WriteFrame DEF WriteTmp, TypeOK
    <3>2. QED  BY <3>1
  <2>6. CASE PickSlot
    <3>1. card'[Sav] = card[Sav]  BY <2>6, UnlinkFrame DEF PickSlot
    <3>2. QED  BY <3>1
  <2>7. CASE RenameBackup
    <3>1. card'[Sav] = card[Sav]  BY <2>7, RenameFrame DEF RenameBackup
    <3>2. QED  BY <3>1
  <2>8. CASE DropBackupScratch \/ UnlinkBackup \/ DiscardTmp
    <3>1. card'[Sav] = card[Sav]
      BY <2>1, <2>8, UnlinkFrame DEF DropBackupScratch, UnlinkBackup, DiscardTmp
    <3>2. QED  BY <3>1
  <2>9. CASE StatTarget \/ CompareBackup \/ CheckBackup \/ VerifyTmp \/ CheckSwap
             \/ WhereAreTheBytes
    BY <2>9
    DEF StatTarget, CompareBackup, CheckBackup, VerifyTmp, CheckSwap, WhereAreTheBytes
  <2>10. QED
    BY <2>2, <2>3, <2>4, <2>5, <2>6, <2>7, <2>8, <2>9 DEF SaveStep
<1>2. ASSUME SwapInv, [Next]_vars, card'[Sav] # card[Sav], pc \in Steps
      PROVE  SaveStep
  <2>1. CASE PowerCut
    <3>1. slot # Sav /\ Tmp # Sav  BY <1>2, NameFacts DEF SwapInv, TypeOK
    <3>2. card'[Sav] = card[Sav]
      BY <1>2, <2>1, <3>1, NameFacts DEF PowerCut, InFlight, SwapInv, TypeOK
    <3>3. QED  BY <1>2, <3>2
  <2>2. QED
    BY <1>2, <2>1
    DEF Next, Save, Begin, ClearBackups, PowerOff, RestoreOnPC, Reopen, Steps, vars
<1>3. SwapInv /\ [Next]_vars =>
        [card'[Sav] # card[Sav] /\ pc \in Steps =>
           /\ card[Tmp] = img
           /\ BackedUp \/ ~Whole(Sav) \/ caller \in Unbacked]_vars
  BY <1>1, <1>2
<1>4. QED  BY <1>3, SwapInvariant, PTL DEF Spec, SwapGuarded

-----------------------------------------------------------------------------
(***************************************************************************)
(* No save path that always backs up leaves the card without a whole copy  *)
(* of the newest image or of the one before.  CopySurvives is not          *)
(* inductive: it needs that a missing file is the one whose .tmp is whole  *)
(* (so that its backup cannot be made and the .tmp is not touched), and    *)
(* that the file is there whenever the .tmp is being written (CopyInv).    *)
(***************************************************************************)
BackingUp == Callers \subseteq {"all", "rolling", "gb"}

LEMMA CopyInit == BackingUp /\ Init => CopyInv
  BY NameFacts, InitType, ImageAssumption
  DEF BackingUp, Init, CopyInv, Fresh, Present, TypeOK, Steps

\* The steps before the scratch is written leave the file and the .tmp.
LEMMA CopyBackupStep ==
  ASSUME SwapInv, CopyInv,
         \/ StatTarget \/ PickSlot \/ CopyToBackup \/ CompareBackup
         \/ DropBackupScratch \/ UnlinkBackup \/ RenameBackup \/ CheckBackup
  PROVE  CopyInv'
<1> USE NameFacts DEF SwapInv
<1>1. slot \in Names \ {Sav, Tmp} /\ card[Sav] \in Contents  BY DEF TypeOK
<1>2. card'[Sav] = card[Sav] /\ card'[Tmp] = card[Tmp]
  <2>1. CASE CopyToBackup
    <3>1. \A g \in Names \ {slot} : card'[g] = card[g]
      BY <1>1, <2>1, WriteFrame DEF CopyToBackup, TypeOK
    <3>2. QED  BY <1>1, <3>1
  <2>2. CASE PickSlot
    BY <2>2, UnlinkFrame DEF PickSlot
  <2>3. CASE DropBackupScratch \/ UnlinkBackup
    BY <1>1, <2>3, UnlinkFrame DEF DropBackupScratch, UnlinkBackup
  <2>4. CASE RenameBackup
    BY <2>4, RenameFrame DEF RenameBackup
  <2>5. CASE StatTarget \/ CompareBackup \/ CheckBackup
    BY <2>5 DEF StatTarget, CompareBackup, CheckBackup
  <2>6. QED  BY <2>1, <2>2, <2>3, <2>4, <2>5
<1> USE <1>2 DEF CopyInv, Fresh, Goto, Return, history, Steps
<1>3. CASE StatTarget  BY <1>3 DEF StatTarget
<1>4. CASE PickSlot  BY <1>4 DEF PickSlot
<1>5. CASE CopyToBackup  BY <1>5 DEF CopyToBackup, BackupFails, Present
<1>6. CASE CompareBackup  BY <1>6 DEF CompareBackup, BackupFails
<1>7. CASE DropBackupScratch  BY <1>7 DEF DropBackupScratch
<1>8. CASE UnlinkBackup  BY <1>8 DEF UnlinkBackup
<1>9. CASE RenameBackup  BY <1>9 DEF RenameBackup
<1>10. CASE CheckBackup  BY <1>10 DEF CheckBackup
<1>11. QED  BY <1>3, <1>4, <1>5, <1>6, <1>7, <1>8, <1>9, <1>10

\* The verified write and its triage.
LEMMA CopyWriteStep ==
  ASSUME SwapInv, CopyInv,
         \/ WriteTmp \/ VerifyTmp \/ DiscardTmp \/ UnlinkTarget
         \/ RenameTmp \/ CheckSwap \/ WhereAreTheBytes
  PROVE  CopyInv'
<1> USE NameFacts DEF SwapInv
<1>a. TypeOK /\ img \in Contents /\ img \in Images  BY DEF TypeOK, Contents
<1> USE DEF CopyInv, Fresh, Goto, Return, Discard, Unconfirmed, history, Steps
<1>1. CASE WriteTmp
  <2>1. card'[Sav] = card[Sav]  BY <1>1, <1>a, WriteFrame DEF WriteTmp, TypeOK
  <2>2. QED  BY <1>1, <2>1 DEF WriteTmp, VerdictInv
<1>2. CASE VerifyTmp
  BY <1>2 DEF VerifyTmp
<1>3. CASE DiscardTmp
  <2>1. card'[Sav] = card[Sav]  BY <1>3, UnlinkFrame DEF DiscardTmp
  <2>2. verdict # "OK"  BY <1>3 DEF DiscardTmp, VerdictInv
  <2>3. QED  BY <1>3, <2>1, <2>2 DEF DiscardTmp
<1>4. CASE UnlinkTarget
  <2>1. card'[Sav] \in {card[Sav], Absent} /\ card'[Tmp] = card[Tmp]
    BY <1>4, UnlinkFrame DEF UnlinkTarget
  <2>2. QED  BY <1>4, <2>1 DEF UnlinkTarget, ScratchInv
<1>5. CASE RenameTmp
  <2>1. \/ card' = card
        \/ card'[Sav] = card[Tmp]
    BY <1>5, <1>a, RenameFrame DEF RenameTmp
  <2>2. QED  BY <1>5, <2>1 DEF RenameTmp, ScratchInv
<1>6. CASE CheckSwap
  <2>1. SwapLanded(Sav, Tmp) \in BOOLEAN  BY DEF SwapLanded, FullSize, Present
  <2>2. SwapLanded(Sav, Tmp) => card[Sav] = img
    BY <1>6, <1>a, ImageAssumption DEF CheckSwap, SwapLanded, Present, ScratchInv
  <2>3. QED  BY <1>6, <1>a, <2>1, <2>2, ReadFrame DEF CheckSwap
<1>7. CASE WhereAreTheBytes
  <2>1. where' = "TARGET" => card[Sav] = img
    BY <1>7 DEF WhereAreTheBytes, Answer, Matches
  <2>2. QED  BY <1>7, <1>a, <2>1 DEF WhereAreTheBytes
<1>8. QED  BY <1>1, <1>2, <1>3, <1>4, <1>5, <1>6, <1>7

\* What happens around a save.
LEMMA CopyOutsideStep ==
  ASSUME BackingUp, SwapInv, CopyInv,
         Save \/ ClearBackups \/ PowerCut \/ PowerOff \/ RestoreOnPC \/ Reopen
  PROVE  CopyInv'
<1> USE NameFacts DEF SwapInv
<1> USE DEF CopyInv, Fresh, history, Steps
<1>1. CASE Save
  <2>1. PICK c \in Callers, v \in Images : Begin(c, v)  BY <1>1 DEF Save
  <2>2. FirstStep[c] \in {"pick", "copy"} /\ c \in {"all", "rolling", "gb"}
    BY DEF BackingUp, FirstStep
  <2>3. QED  BY <2>1, <2>2 DEF Begin
<1>2. CASE ClearBackups
  <2>1. Sav \notin Swept /\ Tmp \notin Swept  BY DEF Swept
  <2>2. card'[Sav] = card[Sav] /\ card'[Tmp] = card[Tmp]
    BY <1>2, <2>1 DEF ClearBackups, TypeOK
  <2>3. QED  BY <1>2, <2>2 DEF ClearBackups
<1>3. CASE PowerCut
  <2>1. slot # Sav /\ slot # Tmp  BY DEF TypeOK
  <2>2. card'[Sav] = card[Sav]  BY <1>3, <2>1 DEF PowerCut, InFlight, TypeOK
  <2>3. pc # "write" => card'[Tmp] = card[Tmp]
    BY <1>3, <2>1 DEF PowerCut, InFlight, TypeOK
  <2>4. QED  BY <1>3, <2>2, <2>3 DEF PowerCut
<1>4. CASE PowerOff
  BY <1>4 DEF PowerOff
<1>5. CASE RestoreOnPC
  <2>1. card[Sav] \notin Fresh  BY <1>5 DEF RestoreOnPC, Whole, TypeOK
  <2>2. PICK f \in Names \ {Sav} :
          card' = IF f = Tmp THEN [card EXCEPT ![Sav] = card[Tmp], ![Tmp] = Absent]
                  ELSE [card EXCEPT ![Sav] = card[f]]
    BY <1>5 DEF RestoreOnPC
  <2>3. card'[Sav] \in Fresh \/ card'[Tmp] \in Fresh  BY <2>1, <2>2 DEF TypeOK
  <2>4. QED  BY <1>5, <2>3 DEF RestoreOnPC
<1>6. CASE Reopen
  BY <1>6 DEF Reopen, Whole
<1>7. QED  BY <1>1, <1>2, <1>3, <1>4, <1>5, <1>6

LEMMA CopyNext == BackingUp /\ SwapInv /\ CopyInv /\ [Next]_vars => CopyInv'
<1>1. CASE UNCHANGED vars
  BY <1>1 DEF CopyInv, Fresh, vars
<1>2. CASE Next
  BY <1>2, CopyBackupStep, CopyWriteStep, CopyOutsideStep DEF Next, SaveStep
<1>3. QED  BY <1>1, <1>2

\* On the paths that always back up, a whole copy of the image the user
\* last had, or of one they asked to save since, is on the card at every
\* instant, whatever the card and the power do.
THEOREM CopiesSurvive ==
  ASSUME BackingUp PROVE Spec => []CopySurvives
<1>1. CopyInv => CopySurvives
  BY NameFacts DEF CopyInv, CopySurvives, Fresh
<1>2. SwapInv /\ CopyInv /\ [Next]_vars => CopyInv'  BY CopyNext
<1>3. Init => CopyInv  BY CopyInit
<1>4. QED  BY <1>1, <1>2, <1>3, SwapInvariant, PTL DEF Spec

=============================================================================
