--------------------------- MODULE BankMetaProofs ---------------------------
(***************************************************************************)
(* Proofs about BankMeta, for every highest serial, every number of cells, *)
(* mishaps and damaged files, and every kind of mishap: the counter on the *)
(* card is never behind a serial that was handed out, recovery never costs *)
(* what it recovered, and no two cells get one identity.                   *)
(***************************************************************************)
EXTENDS BankMeta, SaveFileProofs, WellFoundedInduction, FiniteSetTheorems

-----------------------------------------------------------------------------
(***************************************************************************)
(* The inductive invariant, in parts.                                      *)
(***************************************************************************)
\* Which steps an operation goes through.
Loads == {"load", "healUnlink", "healRename", "healCheck"}
Saves == {"save", "saving", "stuck"}
Asking == {"lift", "relift", "dup", "restore"}   \* they ask for a serial
Raising == {"resync", "dupsync"}                 \* they raise the counter
PhaseInv ==
  /\ at \in Loads => job \in {"show"} \cup Asking
  /\ at = "loaded" => job = "show"
  /\ at = "next" => job \in Asking
  /\ at = "scan" => job = "lift"
  /\ at = "land" => job \in {"lift", "dup", "restore"}
  /\ at \notin {"user", "load"} \/ (open /\ at = "user") => state # "unknown"
  /\ pc = "off" => at = "user" /\ state = "unknown" /\ ~open /\ ~scanned

\* The serials an operation may still add to the highest one there is.
Left ==
  IF job = "lift" /\ at \in Loads \cup {"next"} THEN 3
  ELSE IF job = "lift" /\ at \in Saves \cup {"scan"} THEN 2
  ELSE IF job \in Raising \/ (job \in Asking /\ at \in Loads \cup {"next"}) THEN 1
  ELSE 0
Within(k) ==
  /\ \A f \in Names : Whole(f) => card[f] + k <= MaxSerial
  /\ serial + k <= MaxSerial
  /\ \A c \in cells : c.serial + k <= MaxSerial
BudgetInv == Within(Left)

\* A save in progress writes the counter in RAM, and once a whole target has
\* been backed up its copy is under the name of the backup.
Saved == at = "saving" /\ pc = "idle" /\ verdict = "OK"
RunInv ==
  /\ VerdictInv /\ ScratchInv /\ BackupInv
  /\ at = "saving" =>
       /\ pc \in (Steps \ {"pick", "where"}) \cup {"idle"}
       /\ state = "valid" /\ ~fromBak /\ img = serial /\ slot = BakTmp
  /\ pc \in {"copy", "compare", "unlinkBak", "renameBak", "checkBak"} => Present(Sav)
  /\ pc \in {"write", "verify", "unlink"} /\ Whole(Sav) => card[Bak] = card[Sav]
  /\ Saved => card[Sav] = serial

\* What a session that may save knows of the files, and where a heal is.
FileInv ==
  /\ state = "valid" /\ ~fromBak => Whole(Sav) \/ ~Present(Sav) \/ ~Whole(Bak)
  /\ state = "valid" /\ fromBak /\ at # "healCheck" => ~Whole(Sav)
  /\ at \in {"healUnlink", "healRename"} =>
       /\ ~Whole(Sav) /\ ~Whole(Bak) /\ Whole(Tmp)
       /\ serial = card[Tmp] /\ acked = card[Tmp]
  /\ at = "healRename" => ~Present(Sav)
  /\ at \in {"healUnlink", "healRename", "healCheck"} => state = "valid" /\ fromBak
  /\ at = "healCheck" => (Whole(Sav) /\ card[Sav] = serial) \/ Present(Tmp)

\* The card has a counter of v or more where a load finds it.
Anchor(v) ==
  \/ Whole(Sav) /\ card[Sav] >= v
  \/ ~Whole(Sav) /\ Whole(Bak) /\ card[Bak] >= v

\* The serials the counter is known to be past or at: those handed out, the
\* one of the cell in hand, and, once the boxes were scanned, theirs.
CellsKnown ==
  /\ ~ScanFails
  /\ \/ scanned /\ ~behind
     \/ job = "relift"
     \/ at = "land" /\ job = "lift" /\ checked /\ ~behind
PackKnown == at \in {"scan", "land"} \/ job \in {"resync", "relift"}
Floor(v) ==
  \/ NoRot /\ v \in issued
  \/ CellsKnown /\ \E c \in cells : c.serial = v
  \/ PackKnown /\ v = pack.serial

\* The counter in RAM is past or at them too, also after it goes back.
Undoable == at \in Saves /\ job \in Asking \cup Raising
Covered(v) == state = "valid" => serial >= v /\ (Undoable => prev >= v)
CountInv ==
  /\ \A v \in Images : Floor(v) => Anchor(v) /\ Covered(v)
  /\ Undoable => serial > prev
  /\ at = "scan" => pack.serial = serial

\* The counter in RAM is not behind the file it was loaded from.
AckInv ==
  state = "valid" /\ acked # Absent =>
    serial >= acked /\ (Undoable /\ ~Saved => prev >= acked)

\* What the scan of a drop saw, and that a raised counter is past it.
DropInv ==
  /\ job = "lift" /\ at # "land" => ~checked
  /\ job \in {"resync", "relift"} => checked
  /\ job = "resync" => \A c \in seen : c.serial < serial
  /\ ~ScanFails /\ (job \in {"dup", "dupsync"} \/ (checked /\ job \in {"lift", "resync", "relift"}))
       => seen = cells

\* Why a cell that lands is a new one.
IdentInv ==
  ~ScanFails =>
    /\ at = "land" /\ job = "lift" /\ ~checked /\ ~behind =>
         \A c \in cells : c.serial < pack.serial
    /\ at = "land" /\ job = "dup" => \A c \in cells : c.serial < pack.serial
    /\ job = "restore" => \A c \in cells : c.mon # pack.mon

MetaInv ==
  /\ MetaTypeOK /\ PhaseInv /\ BudgetInv /\ RunInv /\ FileInv
  /\ CountInv /\ AckInv /\ DropInv /\ IdentInv

-----------------------------------------------------------------------------
(***************************************************************************)
(* Names, counters and the highest of them.                                *)
(***************************************************************************)
\* The four files of bank.meta, and the counters they can hold.
LEMMA MetaFacts ==
  /\ Names = {Sav, Tmp, BakTmp, Bak} /\ "none" \notin Names
  /\ Sav # Tmp /\ Sav # BakTmp /\ Tmp # BakTmp
  /\ Bak # Sav /\ Bak # Tmp /\ Bak # BakTmp
  /\ Callers = {"meta"} /\ MaxSerial \in Nat
  /\ 0 \in Images /\ \A v : v \in Images <=> v \in Nat /\ v <= MaxSerial
  /\ Absent \notin Images /\ Short \notin Images /\ Garbled \notin Images
  /\ Absent # Short /\ Absent # Garbled
<1>1. Slots = {1}  BY MetaCallers DEF Slots
<1>2. Names = {Sav, Tmp, BakTmp, Bak}  BY <1>1 DEF Names, Bak
<1>3. Bak # Sav /\ Bak # Tmp /\ Bak # BakTmp  BY NameFacts DEF Bak
<1>4. "none" \notin Names  BY <1>2, MetaCallers DEF Sav, Tmp, BakTmp
<1>5. MaxSerial \in Nat /\ \A v : v \in Images <=> v \in Nat /\ v <= MaxSerial
  BY SerialImages
<1>6. 0 \in Images  BY <1>5
<1>7. Absent \notin Images /\ Short \notin Images /\ Garbled \notin Images
      /\ Absent # Short /\ Absent # Garbled
  BY ImageAssumption
<1>8. QED  BY <1>2, <1>3, <1>4, <1>5, <1>6, <1>7, NameFacts, MetaCallers

\* A set of counters that is not empty has a highest one.
LEMMA MaxFact ==
  ASSUME NEW n \in Nat, NEW S, S \subseteq 0 .. n, S # {}
  PROVE  Max(S) \in S /\ \A y \in S : y <= Max(S)
<1> DEFINE T == {x .. n : x \in S}
<1>1. T \subseteq FiniteSubsetsOf(Nat) /\ T # {}
  <2>1. ASSUME NEW x \in S PROVE x .. n \in FiniteSubsetsOf(Nat)
    <3>1. IsFiniteSet(x .. n)  BY FS_Interval
    <3>2. x .. n \in SUBSET Nat  OBVIOUS
    <3>3. QED  BY <3>1, <3>2 DEF FiniteSubsetsOf
  <2>2. T \subseteq FiniteSubsetsOf(Nat)  BY <2>1
  <2>3. PICK x \in S : TRUE  OBVIOUS
  <2>4. x .. n \in T  OBVIOUS
  <2>5. QED  BY <2>2, <2>4
<1>2. PICK m \in T : \A t \in T : ~(<<t, m>> \in StrictSubsetOrdering(Nat))
  <2> HIDE DEF T
  <2>1. IsWellFoundedOn(StrictSubsetOrdering(Nat), FiniteSubsetsOf(Nat))
    BY FS_StrictSubsetOrderingWellFounded
  <2>2. QED  BY <1>1, <2>1, WFMin
<1>3. PICK x \in S : m = x .. n  OBVIOUS
<1>4. ASSUME NEW y \in S PROVE x >= y
  <2>1. SUFFICES ASSUME y > x PROVE FALSE  BY <1>4
  <2>2. y .. n \subseteq x .. n /\ x \in x .. n /\ x \notin y .. n  BY <2>1
  <2>3. y .. n \in SUBSET Nat /\ x .. n \in SUBSET Nat  OBVIOUS
  <2>4. <<y .. n, x .. n>> \in StrictSubsetOrdering(Nat)
    BY <2>2, <2>3 DEF StrictSubsetOrdering
  <2>5. QED  BY <1>2, <1>3, <2>4
<1>5. Max(S) \in S /\ \A y \in S : Max(S) >= y  BY <1>4 DEF Max
<1>6. QED  BY <1>5

\* The highest serial a scan saw is a counter, is past or at all it saw, and
\* is the serial of a cell when it is not zero.
LEMMA TopFact ==
  ASSUME NEW sight, sight \subseteq Cells
  PROVE  /\ Top(sight) \in Images
         /\ \A c \in sight : c.serial \in Images /\ c.serial <= Top(sight)
         /\ Top(sight) = 0 \/ \E c \in sight : c.serial = Top(sight)
<1> DEFINE S == {c.serial : c \in sight} \cup {0}
<1>1. \A c \in sight : c.serial \in Images  BY DEF Cells
<1>2. S \subseteq 0 .. MaxSerial /\ S # {}  BY <1>1, MetaFacts
<1>3. Max(S) \in S /\ \A y \in S : y <= Max(S)
  <2> HIDE DEF S
  <2>1. QED  BY <1>2, MaxFact, MetaFacts
<1>4. Top(sight) = Max(S)  BY DEF Top
<1>5. Top(sight) \in S /\ \A y \in S : y <= Top(sight)  BY <1>3, <1>4
<1>6. \A c \in sight : c.serial <= Top(sight)  BY <1>5
<1>7. Top(sight) \in Images  BY <1>2, <1>5, MetaFacts
<1>8. Top(sight) = 0 \/ \E c \in sight : c.serial = Top(sight)  BY <1>5
<1>9. QED  BY <1>1, <1>6, <1>7, <1>8

\* What a scan sees are cells.
LEMMA SightFact ==
  ASSUME NEW sight \in Sights
  PROVE  sight \subseteq cells /\ (~ScanFails => sight = cells)
  BY DEF Sights

\* An operation starts with room for three more serials.
LEMMA RoomFact ==
  ASSUME MetaTypeOK, Room
  PROVE  Within(3)
<1>1. serial \in Images /\ \A c \in cells : c.serial \in Images
  BY DEF MetaTypeOK, Cells
<1>2. Serials \subseteq 0 .. MaxSerial /\ Serials # {}
  BY <1>1, MetaFacts DEF Serials, Whole
<1>3. \A x \in Serials : x <= Max(Serials)
  BY <1>2, MaxFact, MetaFacts
<1>4. Max(Serials) \in 0 .. MaxSerial
  BY <1>2, MaxFact, MetaFacts
<1>5. \A x \in Serials : x \in Nat /\ x + 3 <= MaxSerial
  BY <1>2, <1>3, <1>4, MetaFacts DEF Room
<1>6. QED  BY <1>5 DEF Serials, Within

\* Room for more is room for less.
LEMMA LessFact ==
  ASSUME MetaTypeOK, NEW k \in Nat, NEW j \in 0 .. k, Within(k)
  PROVE  Within(j)
<1>1. serial \in Nat /\ \A c \in cells : c.serial \in Nat
  BY MetaFacts DEF MetaTypeOK, Cells
<1>2. \A f \in Names : Whole(f) => card[f] \in Nat  BY MetaFacts DEF Whole
<1>3. QED  BY <1>1, <1>2, MetaFacts DEF Within

\* Raising the counter past what a scan saw costs one.
LEMMA RaiseFact ==
  ASSUME MetaTypeOK, NEW k \in 1 .. 3, Within(k),
         NEW sight, sight \subseteq cells, Raise(sight), ~(serial > Top(sight))
  PROVE  /\ prev' = serial /\ serial' \in Images /\ serial' > serial
         /\ serial' + (k - 1) <= MaxSerial
         /\ \A c \in sight : c.serial < serial'
<1>1. /\ Top(sight) \in Images
      /\ \A c \in sight : c.serial \in Images /\ c.serial <= Top(sight)
      /\ Top(sight) = 0 \/ \E c \in sight : c.serial = Top(sight)
  BY TopFact DEF MetaTypeOK
<1>2. serial \in Nat /\ serial + k <= MaxSerial  BY MetaFacts DEF MetaTypeOK, Within
<1>3. Top(sight) + k <= MaxSerial  BY <1>1, <1>2, MetaFacts DEF Within
<1>4. prev' = serial /\ serial' = Top(sight) + 1  BY DEF Raise
<1>5. Top(sight) \in Nat  BY <1>1, MetaFacts
<1>6. serial' \in Images  BY <1>3, <1>4, <1>5, MetaFacts
<1>7. \A c \in sight : c.serial < serial'  BY <1>1, <1>4, MetaFacts
<1>8. QED  BY <1>2, <1>3, <1>4, <1>5, <1>6, <1>7

\* Which file a load takes.
LEMMA SourceFact ==
  ASSUME TypeOK
  PROVE  /\ Source \in Names \cup {"none"}
         /\ Source # "none" => Whole(Source) /\ card[Source] \in Images
         /\ Source = "none" => \A f \in Names : ~Whole(f)
         /\ Whole(Sav) => Source = Sav
         /\ ~Whole(Sav) /\ Whole(Bak) => Source = Bak
         /\ Source \notin {Sav, Bak} => ~Whole(Sav) /\ ~Whole(Bak)
         /\ Source # Sav => ~Whole(Sav)
  BY MetaFacts DEF Source, Whole

-----------------------------------------------------------------------------
(***************************************************************************)
(* The kinds of steps.                                                     *)
(***************************************************************************)
\* The steps of the Bank's own code that touch neither the card nor what
\* the session knows of the file.
Quiet ==
  \/ FirstSaved \/ Shown \/ NamesSaved \/ GiveNames \/ Allocate
  \/ Lifted \/ NoSerial \/ Scan \/ Resynced \/ Relifted \/ Land
  \/ DupSynced \/ DupStamped \/ Restored
  \/ \E m \in Mons : Lift(m) \/ Restore(m)
  \/ \E c \in cells : Duplicate(c) \/ Release(c)

LEMMA StepKinds ==
  ASSUME [MetaNext]_allVars
  PROVE  \/ UNCHANGED allVars
         \/ Quiet \/ OpenBank
         \/ LoadMeta \/ HealUnlink \/ HealRename \/ HealCheck
         \/ SaveStep /\ UNCHANGED metaVars
         \/ UnlinkBad \/ WriteMeta
         \/ MetaPowerCut \/ MetaPowerOn \/ \E f \in RotNames : Rot(f)
  BY DEF MetaNext, Loading, Working, User, Power, Quiet

\* They leave the card and the name of the file taken alone, and start
\* neither a heal nor a write.
QuietEffect ==
  /\ UNCHANGED <<vars, state, fromBak, trusted, rots>>
  /\ pc = "idle" /\ at \notin Loads
  /\ at' \notin {"saving", "healUnlink", "healRename", "healCheck", "loaded"}
LEMMA QuietFrame == Quiet => QuietEffect
<1> USE DEF Kept, Refused, Back, Enter, Ready, Ask, Loads, ramVars, dropVars, marks, QuietEffect
<1>1. CASE FirstSaved \/ Shown \/ NamesSaved \/ GiveNames \/ Allocate
  BY <1>1 DEF FirstSaved, Shown, NamesSaved, GiveNames, Allocate
<1>2. CASE Lifted \/ NoSerial \/ Scan
  BY <1>2 DEF Lifted, NoSerial, Scan, HandOut, Undo, Raise
<1>3. CASE Resynced \/ Relifted \/ Land
  BY <1>3 DEF Resynced, Relifted, Land, HandOut, Undo
<1>4. CASE DupSynced \/ DupStamped \/ Restored
  BY <1>4 DEF DupSynced, DupStamped, Restored, HandOut, Undo
<1>5. ASSUME NEW m \in Mons, Lift(m) \/ Restore(m) PROVE QuietEffect
  BY <1>5 DEF Lift, Restore
<1>6. ASSUME NEW c \in cells, Duplicate(c) \/ Release(c) PROVE QuietEffect
  BY <1>6 DEF Duplicate, Release, Raise
<1>7. QED  BY <1>1, <1>2, <1>3, <1>4, <1>5, <1>6 DEF Quiet

\* Every step leaves what SaveFile keeps in its types.
LEMMA CardType ==
  ASSUME MetaTypeOK, [MetaNext]_allVars
  PROVE  TypeOK'
<1> USE MetaFacts
<1>a. TypeOK  BY DEF MetaTypeOK
<1>1. CASE UNCHANGED allVars \/ Quiet
  BY <1>1, <1>a, QuietFrame DEF allVars, QuietEffect, vars, history, TypeOK
<1>2. CASE OpenBank
  BY <1>2, <1>a, BoundAssumption DEF OpenBank, Calm, Mishap, Adopt, TypeOK, history
<1>3. CASE LoadMeta
  <2>1. mishaps' \in 0 .. MaxMishaps
    BY <1>3, <1>a, BoundAssumption DEF LoadMeta, Calm, Mishap, TypeOK
  <2>2. acked' \in Images \cup {Absent} /\ tried' \subseteq Images
    BY <1>3, <1>a, SourceFact DEF LoadMeta, Adopt, TypeOK, history
  <2>3. QED  BY <1>3, <1>a, <2>1, <2>2 DEF LoadMeta, TypeOK
<1>4. CASE HealUnlink
  BY <1>4, <1>a, BoundAssumption
  DEF HealUnlink, HealLeaves, UnlinkPrimary, Calm, Mishap, TypeOK, Contents, history
<1>5. CASE HealRename
  BY <1>5, <1>a, RenameFrame DEF HealRename, HealLeaves, TypeOK, history
<1>6. CASE HealCheck
  <2>1. SwapLanded(Sav, Tmp) \in BOOLEAN  BY DEF SwapLanded, FullSize, Present
  <2>2. mishaps' \in 0 .. MaxMishaps  BY <1>6, <1>a, <2>1, ReadFrame DEF HealCheck
  <2>3. QED  BY <1>6, <1>a, <2>2 DEF HealCheck, HealLeaves, TypeOK, history
<1>7. CASE SaveStep /\ UNCHANGED metaVars
  BY <1>7, <1>a, SaveStepType
<1>8. CASE UnlinkBad
  BY <1>8, <1>a, BoundAssumption
  DEF UnlinkBad, UnlinkPrimary, Calm, Mishap, TypeOK, Contents, history
<1>9. CASE WriteMeta
  <2>1. Begin("meta", serial) /\ serial \in Images  BY <1>9 DEF WriteMeta, MetaTypeOK
  <2>2. FirstStep["meta"] = "stat"  BY DEF FirstStep
  <2>3. QED
    BY <1>a, <2>1, <2>2 DEF Begin, TypeOK, Steps, Verdicts, Answers
<1>10. CASE MetaPowerCut
  <2>1. CASE PowerCut
    BY <2>1, <1>a, OutsideType
  <2>2. CASE PowerOff
    BY <2>2, <1>a, OutsideType
  <2>3. CASE CutBetween
    BY <2>3, <1>a, BoundAssumption DEF CutBetween, Mishap, TypeOK, history
  <2>4. QED  BY <1>10, <2>1, <2>2, <2>3 DEF MetaPowerCut
<1>11. CASE MetaPowerOn
  BY <1>11, <1>a DEF MetaPowerOn, TypeOK, history, Verdicts, Answers
<1>12. CASE \E f \in RotNames : Rot(f)
  BY <1>12, <1>a DEF Rot, TypeOK, history, Contents
<1>13. QED
  BY <1>1, <1>2, <1>3, <1>4, <1>5, <1>6, <1>7, <1>8, <1>9, <1>10, <1>11, <1>12, StepKinds

-----------------------------------------------------------------------------
(***************************************************************************)
(* Types and phases.                                                       *)
(***************************************************************************)
\* What the phases say of the room that is left.
LEMMA LeftFact ==
  /\ Left \in 0 .. 3
  /\ at = "next" /\ PhaseInv => Left >= 1
  /\ at = "scan" /\ PhaseInv => Left = 2
  BY DEF Left, PhaseInv, Asking, Loads, Saves, Raising

\* The types of the Bank's own variables.
RamType ==
  /\ at \in {"user", "load", "healUnlink", "healRename", "healCheck", "loaded",
            "next", "save", "saving", "stuck", "scan", "land"}
  /\ job \in Jobs /\ (job = "none" <=> at = "user")
  /\ {serial, prev} \subseteq Images
  /\ state \in {"unknown", "valid", "unsafe"}
  /\ {open, fromBak, trusted, scanned, checked, boxed} \subseteq BOOLEAN
  /\ pack \in Cells /\ seen \subseteq Cells /\ cells \subseteq Cells
  /\ rots \in [RotNames -> 0..MaxRots]
  /\ issued \subseteq Images \ {0} /\ behind \in BOOLEAN
  /\ trusted => state # "unknown" /\ ~fromBak
  /\ cells # {} => boxed
  /\ pc \in Steps => at = "saving"

LEMMA QuietType ==
  ASSUME MetaTypeOK, PhaseInv, BudgetInv, Undoable => serial > prev, Quiet
  PROVE  RamType'
<1> USE MetaFacts DEF RamType, MetaTypeOK, Jobs, Steps, vars, history,
        ramVars, dropVars, bankVars, marks, Kept, Refused, Ready, Enter, Back
<1>a. pc = "idle" /\ pc' = "idle"  BY QuietFrame DEF QuietEffect
<1>b. 0 \in Images /\ serial \in Nat /\ prev \in Nat  OBVIOUS
<1>1. CASE FirstSaved \/ Shown \/ NamesSaved \/ GiveNames
  BY <1>1, <1>a DEF FirstSaved, Shown, NamesSaved, GiveNames
<1>2. CASE Allocate
  <2>1. serial + 1 \in Images  BY <1>2, <1>b, LeftFact DEF Allocate, BudgetInv, Within
  <2>2. job # "none"  BY <1>2 DEF Allocate
  <2>3. QED  BY <1>2, <1>a, <2>1, <2>2 DEF Allocate
<1>3. ASSUME HandOut
      PROVE  issued' \subseteq Images \ {0} /\ behind' \in BOOLEAN /\ pack' \in Cells
  <2>1. Undoable  BY <1>3 DEF HandOut, Undoable, Saves, Asking
  <2>2. serial # 0  BY <2>1, <1>b
  <2>3. pack' \in Cells  BY <1>3 DEF HandOut, Cells
  <2>4. QED  BY <1>3, <2>2, <2>3 DEF HandOut
<1>4. CASE Lifted
  <2>1. HandOut  BY <1>4 DEF Lifted
  <2>2. QED  BY <1>4, <1>a, <1>3, <2>1 DEF Lifted
<1>5. CASE DupStamped
  <2>1. HandOut  BY <1>5 DEF DupStamped
  <2>2. QED  BY <1>5, <1>a, <1>3, <2>1 DEF DupStamped
<1>6. CASE Restored
  <2>1. HandOut  BY <1>6 DEF Restored
  <2>2. QED  BY <1>6, <1>a, <1>3, <2>1 DEF Restored
<1>7. CASE Relifted
  <2>1. seen' \subseteq Cells  BY <1>7, SightFact DEF Relifted
  <2>2. CASE HandOut /\ UNCHANGED ramVars
    BY <1>7, <1>a, <1>3, <2>1, <2>2 DEF Relifted
  <2>3. CASE Refused /\ Undo /\ UNCHANGED <<pack, seen, marks>>
    BY <1>7, <1>a, <2>3 DEF Relifted, Undo
  <2>4. QED  BY <1>7, <2>2, <2>3 DEF Relifted
<1>8. CASE NoSerial \/ Resynced \/ DupSynced
  <2>1. CASE NoSerial  BY <2>1, <1>a DEF NoSerial, Undo
  <2>2. CASE Resynced
    <3>1. CASE Kept /\ Enter("relift", "load") /\ UNCHANGED <<ramVars, behind>>
      BY <2>2, <3>1, <1>a DEF Resynced
    <3>2. CASE Refused /\ Enter("lift", "land") /\ Undo /\ behind' = TRUE
      BY <2>2, <3>2, <1>a DEF Resynced, Undo
    <3>3. QED  BY <2>2, <3>1, <3>2 DEF Resynced
  <2>3. CASE DupSynced  BY <2>3, <1>a DEF DupSynced, Undo
  <2>4. QED  BY <1>8, <2>1, <2>2, <2>3
<1>9. CASE Scan
  <2>1. seen' \subseteq cells  BY <1>9, SightFact DEF Scan
  <2>2. CASE serial > Top(seen')
    BY <1>9, <1>a, <2>1, <2>2 DEF Scan
  <2>3. CASE ~(serial > Top(seen'))
    <3>1. Raise(seen')  BY <1>9, <2>3 DEF Scan
    <3>2. Within(2)  BY <1>9, LeftFact DEF Scan, BudgetInv
    <3>3. prev' = serial /\ serial' \in Images
      BY <2>1, <2>3, <3>1, <3>2, RaiseFact
    <3>4. QED  BY <1>9, <1>a, <2>1, <2>3, <3>3 DEF Scan, Raise
  <2>4. QED  BY <2>2, <2>3
<1>10. CASE Land
  BY <1>10, <1>a DEF Land
<1>11. ASSUME NEW m \in Mons, Lift(m) \/ Restore(m) PROVE RamType'
  <2>1. pack' \in Cells  BY <1>11, <1>b DEF Lift, Restore, Ask, Cells
  <2>2. CASE Lift(m)  BY <2>1, <2>2, <1>a DEF Lift, Ask
  <2>3. CASE Restore(m)  BY <2>1, <2>3, <1>a DEF Restore, Ask
  <2>4. QED  BY <1>11, <2>2, <2>3
<1>12. ASSUME NEW c \in cells, Duplicate(c) PROVE RamType'
  <2>1. seen' \subseteq cells  BY <1>12, SightFact DEF Duplicate
  <2>2. pack' \in Cells  BY <1>12 DEF Duplicate, Cells
  <2>3. CASE serial > Top(seen')
    BY <1>12, <1>a, <2>1, <2>2, <2>3 DEF Duplicate
  <2>4. CASE ~(serial > Top(seen'))
    <3>1. Raise(seen')  BY <1>12, <2>4 DEF Duplicate
    <3>2. Within(3)  BY <1>12, RoomFact DEF Duplicate
    <3>3. prev' = serial /\ serial' \in Images
      BY <2>1, <2>4, <3>1, <3>2, RaiseFact
    <3>4. QED  BY <1>12, <1>a, <2>1, <2>2, <2>4, <3>3 DEF Duplicate, Raise
  <2>5. QED  BY <2>3, <2>4
<1>13. ASSUME NEW c \in cells, Release(c) PROVE RamType'
  BY <1>13, <1>a DEF Release
<1>14. QED
  BY <1>1, <1>2, <1>4, <1>5, <1>6, <1>7, <1>8, <1>9, <1>10, <1>11, <1>12, <1>13 DEF Quiet

LEMMA TypeStep ==
  ASSUME MetaTypeOK, PhaseInv, BudgetInv, Undoable => serial > prev, [MetaNext]_allVars
  PROVE  MetaTypeOK'
<1> USE MetaFacts DEF RamType, MetaTypeOK, Jobs, Steps, vars, history,
        ramVars, dropVars, bankVars, marks, Kept, Refused, Ready, Enter, Back
<1>a. TypeOK' /\ (RamType' => MetaTypeOK')  BY CardType
<1>1. CASE UNCHANGED allVars
  BY <1>1, <1>a DEF allVars, metaVars
<1>2. CASE Quiet
  BY <1>2, <1>a, QuietType
<1>3. CASE OpenBank
  BY <1>3, <1>a DEF OpenBank, Defaults, Adopt, LayoutExists
<1>4. CASE LoadMeta
  <2>1. job # "none"  BY <1>4 DEF LoadMeta
  <2>2. CASE Unread
    <3>1. /\ {serial', prev'} \subseteq Images /\ state' \in {"unknown", "valid", "unsafe"}
          /\ {fromBak', trusted'} \subseteq BOOLEAN
          /\ trusted' => state' # "unknown" /\ ~fromBak'
      BY <2>2 DEF Unread, Defaults
    <3>2. at' \in {"user", "loaded", "healUnlink", "next"}
          /\ job' \in Jobs /\ (job' = "none" <=> at' = "user")
      BY <1>4, <2>1 DEF LoadMeta, AfterLoad
    <3>3. QED  BY <1>4, <1>a, <3>1, <3>2 DEF LoadMeta
  <2>3. CASE Defaults("valid") /\ AfterLoad /\ UNCHANGED job
    BY <1>4, <1>a, <2>1, <2>3 DEF LoadMeta, Defaults, AfterLoad
  <2>4. CASE Source # "none" /\ Take(Source)
    <3>1. card[Source] \in Images  BY <2>4, SourceFact
    <3>2. QED  BY <1>4, <1>a, <2>1, <2>4, <3>1 DEF LoadMeta, Take, AfterLoad
  <2>5. QED  BY <1>4, <2>2, <2>3, <2>4 DEF LoadMeta
<1>5. CASE HealUnlink \/ HealRename \/ HealCheck
  BY <1>5, <1>a DEF HealUnlink, HealRename, HealCheck, HealGoes, HealLeaves, Healed, AfterLoad
<1>6. CASE SaveStep /\ UNCHANGED metaVars
  <2>1. pc \in Steps
    BY <1>6 DEF SaveStep, StatTarget, PickSlot, CopyToBackup, CompareBackup,
       DropBackupScratch, UnlinkBackup, RenameBackup, CheckBackup, WriteTmp,
       VerifyTmp, DiscardTmp, UnlinkTarget, RenameTmp, CheckSwap, WhereAreTheBytes
  <2>2. QED  BY <1>6, <1>a, <2>1 DEF metaVars
<1>7. CASE UnlinkBad
  BY <1>7, <1>a DEF UnlinkBad
<1>8. CASE WriteMeta
  BY <1>8, <1>a DEF WriteMeta
<1>9. CASE MetaPowerCut
  <2>1. pc' = "off"  BY <1>9 DEF MetaPowerCut, PowerCut, CutBetween, PowerOff
  <2>2. pack' \in Cells  BY <1>9 DEF MetaPowerCut, Forget, Cells
  <2>3. QED  BY <1>9, <1>a, <2>1, <2>2 DEF MetaPowerCut, Forget
<1>10. CASE MetaPowerOn
  BY <1>10, <1>a DEF MetaPowerOn, metaVars
<1>11. ASSUME NEW f \in RotNames, Rot(f) PROVE MetaTypeOK'
  <2>1. rots' \in [RotNames -> 0..MaxRots]  BY <1>11, CellBounds DEF Rot
  <2>2. QED  BY <1>11, <1>a, <2>1 DEF Rot
<1>12. QED
  BY <1>1, <1>2, <1>3, <1>4, <1>5, <1>6, <1>7, <1>8, <1>9, <1>10, <1>11, StepKinds

\* A save in progress stays on the card's side of the power switch.
LEMMA PcStays ==
  /\ SaveStep => pc \in Steps /\ pc' \in Steps \cup {"idle"}
  /\ WriteMeta => pc = "idle" /\ pc' = "stat"
<1>1. ASSUME SaveStep PROVE pc \in Steps /\ pc' \in Steps \cup {"idle"}
  <2> USE DEF Goto, Return, BackupFails, Discard, Unconfirmed, Steps
  <2>1. CASE StatTarget \/ PickSlot \/ CopyToBackup \/ CompareBackup
    BY <2>1 DEF StatTarget, PickSlot, CopyToBackup, CompareBackup
  <2>2. CASE DropBackupScratch \/ UnlinkBackup \/ RenameBackup \/ CheckBackup
    BY <2>2 DEF DropBackupScratch, UnlinkBackup, RenameBackup, CheckBackup
  <2>3. CASE WriteTmp \/ VerifyTmp \/ DiscardTmp \/ UnlinkTarget
    BY <2>3 DEF WriteTmp, VerifyTmp, DiscardTmp, UnlinkTarget
  <2>4. CASE RenameTmp \/ CheckSwap \/ WhereAreTheBytes
    BY <2>4 DEF RenameTmp, CheckSwap, WhereAreTheBytes
  <2>5. QED  BY <1>1, <2>1, <2>2, <2>3, <2>4 DEF SaveStep
<1>2. WriteMeta => pc = "idle" /\ pc' = "stat"
  BY DEF WriteMeta, Begin, FirstStep
<1>3. QED  BY <1>1, <1>2

\* The order of the steps of an operation.
LEMMA PhaseStep ==
  ASSUME MetaTypeOK, PhaseInv, FileInv, RunInv, [MetaNext]_allVars
  PROVE  PhaseInv'
<1> USE DEF PhaseInv, Asking, Loads, Raising,
        ramVars, dropVars, bankVars, marks, Kept, Refused, Ready, Enter, Back
<1>1. CASE UNCHANGED allVars
  BY <1>1 DEF allVars, metaVars, vars
<1>2. CASE Quiet
  <2>a. UNCHANGED <<state, pc>> /\ pc = "idle"
    BY <1>2, QuietFrame DEF QuietEffect, vars
  <2>1. CASE FirstSaved \/ Shown \/ NamesSaved \/ GiveNames \/ Allocate
    BY <2>a, <2>1 DEF FirstSaved, Shown, NamesSaved, GiveNames, Allocate
  <2>2. CASE Lifted \/ NoSerial \/ Scan
    BY <2>a, <2>2 DEF Lifted, NoSerial, Scan, HandOut
  <2>3. CASE Resynced \/ Relifted
    BY <2>a, <2>3 DEF Resynced, Relifted, HandOut
  <2>4. CASE Land \/ DupSynced \/ DupStamped \/ Restored
    BY <2>a, <2>4 DEF Land, DupSynced, DupStamped, Restored, HandOut
  <2>5. ASSUME NEW m \in Mons, Lift(m) \/ Restore(m) PROVE PhaseInv'
    BY <2>a, <2>5 DEF Lift, Restore, Ask
  <2>6. ASSUME NEW c \in cells, Duplicate(c) \/ Release(c) PROVE PhaseInv'
    BY <2>a, <2>6 DEF Duplicate, Release
  <2>7. QED  BY <1>2, <2>1, <2>2, <2>3, <2>4, <2>5, <2>6 DEF Quiet
<1>3. CASE OpenBank
  BY <1>3 DEF OpenBank, Defaults
<1>4. CASE LoadMeta
  <2>1. CASE Unread /\ IF job = "show" THEN Back ELSE at' = "next" /\ UNCHANGED job
    BY <1>4, <2>1 DEF LoadMeta, Unread, Defaults
  <2>2. CASE state' = "valid" /\ UNCHANGED job /\ (AfterLoad \/ at' = "healUnlink")
    BY <1>4, <2>2 DEF LoadMeta, AfterLoad
  <2>3. QED  BY <1>4, <2>1, <2>2 DEF LoadMeta, Defaults, Take
<1>5. CASE HealUnlink \/ HealRename \/ HealCheck
  BY <1>5 DEF HealUnlink, HealRename, HealCheck, HealGoes, HealLeaves, Healed, AfterLoad
<1>6. CASE SaveStep /\ UNCHANGED metaVars
  BY <1>6, PcStays DEF metaVars, Steps
<1>7. CASE UnlinkBad \/ WriteMeta
  BY <1>7, PcStays DEF UnlinkBad, WriteMeta
<1>8. CASE MetaPowerCut \/ MetaPowerOn
  BY <1>8 DEF MetaPowerCut, Forget, MetaPowerOn, metaVars
<1>9. CASE \E f \in RotNames : Rot(f)
  BY <1>9 DEF Rot
<1>10. QED
  BY <1>1, <1>2, <1>3, <1>4, <1>5, <1>6, <1>7, <1>8, <1>9, StepKinds

-----------------------------------------------------------------------------
(***************************************************************************)
(* Room for the serials an operation may still need.                       *)
(***************************************************************************)
\* A step that writes no counter but the one in RAM leaves the room there is.
LEMMA WithinKept ==
  ASSUME MetaTypeOK, NEW k \in Nat, Within(k),
         \A f \in Names : card'[f] \in Images =>
           card'[f] = serial \/ \E g \in Names : card[g] = card'[f],
         \/ serial' \in Nat /\ serial' <= serial
         \/ \E g \in Names : Whole(g) /\ serial' = card[g],
         cells' \subseteq cells
  PROVE  Within(k)'
<1>1. serial \in Nat /\ serial + k <= MaxSerial  BY MetaFacts DEF MetaTypeOK, Within
<1>2. \A f \in Names : card'[f] \in Images => card'[f] + k <= MaxSerial
  BY <1>1 DEF Within, Whole
<1>3. serial' + k <= MaxSerial
  <2>1. CASE serial' \in Nat /\ serial' <= serial
    <3>1. PICK t \in Nat : t = serial'  BY <2>1
    <3>2. t <= serial  BY <2>1, <3>1
    <3>3. MaxSerial \in Nat  BY MetaFacts
    <3>4. t + k <= MaxSerial  BY <1>1, <3>2, <3>3
    <3>5. QED  BY <3>1, <3>4
  <2>2. CASE \E g \in Names : Whole(g) /\ serial' = card[g]  BY <2>2 DEF Within
  <2>3. QED  BY <2>1, <2>2
<1>4. \A c \in cells' : c.serial + k <= MaxSerial  BY DEF Within
<1>5. QED  BY <1>2, <1>3, <1>4 DEF Within, Whole

\* What a save puts on the card is the image it was given, or was there.
LEMMA SaveValues ==
  ASSUME TypeOK, SaveStep
  PROVE  \A f \in Names : card'[f] \in Images =>
           card'[f] = img \/ \E g \in Names : card[g] = card'[f]
<1> USE MetaFacts
<1> DEFINE Old == \A f \in Names : card'[f] \in Images =>
                    card'[f] = img \/ \E g \in Names : card[g] = card'[f]
<1>1. ASSUME NEW f \in Names, Unlink(f) PROVE Old
  BY <1>1, UnlinkFrame
<1>2. ASSUME NEW f \in Names, NEW t \in Names, f # t, NEW ok \in BOOLEAN, Rename(f, t, ok)
      PROVE  Old
  BY <1>2, RenameFrame
<1>3. ASSUME NEW f \in Names, NEW v \in Contents, NEW s, WriteOutcome(f, v, s),
             v = img \/ \E g \in Names : card[g] = v
      PROVE  Old
  BY <1>3 DEF WriteOutcome, TypeOK
<1>4. CASE card' = card  BY <1>4
<1>5. CASE StatTarget \/ CompareBackup \/ CheckBackup \/ VerifyTmp \/ CheckSwap \/ WhereAreTheBytes
  BY <1>5, <1>4 DEF StatTarget, CompareBackup, CheckBackup, VerifyTmp, CheckSwap, WhereAreTheBytes
<1>6. CASE PickSlot
  <2>1. slot' \in Names  BY <1>6, NameFacts DEF PickSlot, Slots
  <2>2. card' = card \/ Unlink(slot')  BY <1>6 DEF PickSlot
  <2>3. QED  BY <2>1, <2>2, <1>1, <1>4
<1>7. CASE CopyToBackup
  <2>1. slot \in Names /\ card[Sav] \in Contents  BY DEF TypeOK
  <2>2. CASE \E s \in {"OK", "OPEN", "WRITE"} : WriteOutcome(slot, card[Sav], s)
    BY <2>1, <2>2, <1>3
  <2>3. CASE card' \in {card, [card EXCEPT ![slot] = Short]}
    BY <2>1, <2>3 DEF TypeOK
  <2>4. QED  BY <1>7, <2>2, <2>3 DEF CopyToBackup
<1>8. CASE DropBackupScratch \/ UnlinkBackup \/ DiscardTmp \/ UnlinkTarget
  <2>1. slot \in Names /\ Shelf[1] \in Names  BY NameFacts DEF TypeOK
  <2>2. QED
    BY <1>8, <2>1, <1>1 DEF DropBackupScratch, UnlinkBackup, DiscardTmp, UnlinkTarget
<1>9. CASE RenameBackup \/ RenameTmp
  <2>1. Shelf[1] \in Names /\ BakTmp # Shelf[1]  BY NameFacts
  <2>2. QED  BY <1>9, <2>1, <1>2 DEF RenameBackup, RenameTmp
<1>10. CASE WriteTmp
  <2>1. img \in Contents  BY DEF TypeOK, Contents
  <2>2. CASE \E s \in {"OK", "OPEN", "WRITE"} : WriteOutcome(Tmp, img, s)
    BY <2>1, <2>2, <1>3
  <2>3. CASE card' = [card EXCEPT ![Tmp] = Short]
    BY <2>3 DEF TypeOK
  <2>4. QED  BY <1>10, <2>2, <2>3 DEF WriteTmp
<1>11. QED
  BY <1>5, <1>6, <1>7, <1>8, <1>9, <1>10 DEF SaveStep

\* Serials handed out, undone and raised.
LEMMA BudgetQuiet ==
  ASSUME MetaTypeOK, PhaseInv, BudgetInv, Undoable => serial > prev, Quiet
  PROVE  BudgetInv'
<1> USE DEF ramVars, dropVars, bankVars, marks, Kept, Refused, Ready, Enter, Back
<1>a. UNCHANGED card  BY QuietFrame DEF QuietEffect, vars
<1>b. /\ serial \in Nat /\ prev \in Nat /\ MaxSerial \in Nat
      /\ Left \in 0 .. 3 /\ Within(Left) /\ Within(0)
  BY MetaFacts, LeftFact, LessFact DEF MetaTypeOK, BudgetInv
<1>c. ASSUME NEW k \in 0 .. 3, Within(k), Left' = k,
             serial' \in Nat, serial' <= serial, cells' \subseteq cells
      PROVE  BudgetInv'
  <2>1. Within(k)'  BY <1>a, <1>c, WithinKept
  <2>2. QED  BY <1>c, <2>1 DEF BudgetInv, Within
<1>1. CASE FirstSaved \/ Shown \/ NamesSaved \/ GiveNames
  <2>1. Left' = 0 /\ UNCHANGED <<serial, cells>>
    BY <1>1 DEF FirstSaved, Shown, NamesSaved, GiveNames, Left, Raising, Asking
  <2>2. QED  BY <1>b, <1>c, <2>1
<1>2. CASE Allocate
  <2>1. PICK j \in {0, 2} : Left' = j /\ Left = j + 1
    BY <1>2 DEF Allocate, PhaseInv, Left, Asking, Saves, Loads, Raising
  <2>2. serial' = serial + 1 /\ cells' = cells  BY <1>2 DEF Allocate
  <2>3. \A c \in cells : c.serial \in Nat  BY MetaFacts DEF MetaTypeOK, Cells
  <2>4. \A f \in Names : Whole(f) => card[f] \in Nat  BY MetaFacts DEF Whole
  <2>5. (serial + 1) + j <= MaxSerial  BY <1>b, <2>1 DEF Within
  <2>6. Within(j)  BY <1>b, <2>1, LessFact
  <2>7. QED  BY <1>a, <2>1, <2>2, <2>5, <2>6 DEF BudgetInv, Within, Whole
<1>3. CASE Lifted
  <2>1. Left = 2 /\ UNCHANGED <<serial, cells>>
    BY <1>3 DEF Lifted, HandOut, Left, Saves, Loads
  <2>2. Left' \in {0, 2}
    BY <1>3 DEF Lifted, HandOut, Left, Saves, Loads, Raising, Asking
  <2>3. QED  BY <1>b, <1>c, <2>1, <2>2
<1>4. CASE NoSerial
  <2>1. Left' = 0 /\ cells' = cells /\ serial' = prev
    BY <1>4 DEF NoSerial, Undo, Left, Raising, Asking
  <2>2. Undoable  BY <1>4 DEF NoSerial, Undoable, Saves, Asking
  <2>3. QED  BY <1>b, <1>c, <2>1, <2>2
<1>5. CASE Scan
  <2>1. cells' = cells /\ Within(2)
    BY <1>5, LeftFact DEF Scan, BudgetInv
  <2>2. CASE serial > Top(seen')
    <3>1. Left' = 0 /\ serial' = serial
      BY <1>5, <2>2 DEF Scan, Left, PhaseInv, Loads, Saves, Raising, Asking
    <3>2. QED  BY <1>b, <1>c, <2>1, <3>1
  <2>3. CASE ~(serial > Top(seen'))
    <3>1. seen' \subseteq cells /\ Raise(seen')  BY <1>5, <2>3, SightFact DEF Scan
    <3>2. serial' + 1 <= MaxSerial /\ serial' \in Images
      BY <2>1, <2>3, <3>1, RaiseFact
    <3>3. Left' = 1
      BY <1>5, <2>3 DEF Scan, Left, Loads, Saves, Raising, Asking
    <3>4. Within(1)  BY <2>1, LessFact
    <3>5. QED  BY <1>a, <2>1, <3>2, <3>3, <3>4 DEF BudgetInv, Within, Whole
  <2>4. QED  BY <2>2, <2>3
<1>6. CASE Resynced
  <2>1. Left = 1 /\ cells' = cells
    BY <1>6 DEF Resynced, Left, Raising
  <2>2. CASE Kept /\ Enter("relift", "load") /\ UNCHANGED ramVars
    <3>1. Left' = 1  BY <2>2 DEF Left, Raising, Asking, Loads
    <3>2. QED  BY <1>b, <1>c, <2>1, <2>2, <3>1
  <2>3. CASE Refused /\ Enter("lift", "land") /\ Undo
    <3>1. Left' = 0  BY <2>3 DEF Left, Raising, Asking, Loads, Saves
    <3>2. Undoable  BY <1>6, <2>3 DEF Resynced, Undoable, Saves, Raising
    <3>3. QED  BY <1>b, <1>c, <2>1, <2>3, <3>1, <3>2 DEF Undo
  <2>4. QED  BY <1>6, <2>2, <2>3 DEF Resynced
<1>7. CASE Relifted
  <2>1. Left' = 0 /\ cells' = cells
    BY <1>7 DEF Relifted, Left, Loads, Saves, Raising, Asking
  <2>2. serial' = serial \/ (Undoable /\ serial' = prev)
    BY <1>7 DEF Relifted, Undo, Undoable, Saves, Asking
  <2>3. QED  BY <1>b, <1>c, <2>1, <2>2
<1>8. CASE Land
  <2>1. Left' = 0 /\ serial' = serial
    BY <1>8 DEF Land, Left, Loads, Saves, Raising, Asking
  <2>2. \A c \in cells' : c.serial \in Images
    BY <1>8 DEF Land, MetaTypeOK, Cells
  <2>3. QED  BY <1>a, <1>b, <2>1, <2>2, MetaFacts DEF BudgetInv, Within, Whole
<1>9. CASE DupSynced
  <2>1. Left = 1 /\ Left' = 1 /\ cells' = cells
    BY <1>9 DEF DupSynced, Left, Raising, Asking, Loads
  <2>2. serial' = serial \/ (Undoable /\ serial' = prev)
    BY <1>9 DEF DupSynced, Undo, Undoable, Saves, Raising
  <2>3. QED  BY <1>b, <1>c, <2>1, <2>2
<1>10. CASE DupStamped \/ Restored
  <2>1. Left' = 0 /\ UNCHANGED <<cells, serial>>
    BY <1>10 DEF DupStamped, Restored, HandOut, Left, Loads, Saves, Raising, Asking
  <2>2. QED  BY <1>b, <1>c, <2>1
<1>11. ASSUME NEW m \in Mons, Lift(m) \/ Restore(m) PROVE BudgetInv'
  <2>1. Within(3) /\ Within(1)  BY <1>11, RoomFact, LessFact DEF Lift, Restore, Ask
  <2>2. Left' \in {1, 3} /\ UNCHANGED <<cells, serial>>
    BY <1>11 DEF Lift, Restore, Ask, Left, Loads, Asking
  <2>3. QED  BY <1>b, <1>c, <2>1, <2>2
<1>12. ASSUME NEW c \in cells, Duplicate(c) PROVE BudgetInv'
  <2>1. Within(3) /\ Within(1) /\ cells' = cells
    BY <1>12, RoomFact, LessFact DEF Duplicate
  <2>2. Left' = 1
    BY <1>12 DEF Duplicate, Left, Loads, Raising, Asking
  <2>3. CASE serial > Top(seen')
    BY <1>b, <1>c, <1>12, <2>1, <2>2, <2>3 DEF Duplicate
  <2>4. CASE ~(serial > Top(seen'))
    <3>1. seen' \subseteq cells /\ Raise(seen')  BY <1>12, <2>4, SightFact DEF Duplicate
    <3>2. serial' + 2 <= MaxSerial /\ serial' \in Images
      BY <2>1, <2>4, <3>1, RaiseFact
    <3>3. serial' + 1 <= MaxSerial  BY <1>b, <3>2, MetaFacts
    <3>4. QED  BY <1>a, <2>1, <2>2, <3>3 DEF BudgetInv, Within, Whole
  <2>5. QED  BY <2>3, <2>4
<1>13. ASSUME NEW c \in cells, Release(c) PROVE BudgetInv'
  <2>1. Left' = 0 /\ serial' = serial /\ cells' \subseteq cells
    BY <1>13 DEF Release, Left, Raising, Asking, MetaTypeOK
  <2>2. QED  BY <1>b, <1>c, <2>1
<1>14. QED
  BY <1>1, <1>2, <1>3, <1>4, <1>5, <1>6, <1>7, <1>8, <1>9, <1>10, <1>11, <1>12, <1>13 DEF Quiet

LEMMA BudgetStep ==
  ASSUME MetaTypeOK, PhaseInv, BudgetInv, RunInv, Undoable => serial > prev,
         [MetaNext]_allVars
  PROVE  BudgetInv'
<1> USE DEF ramVars, dropVars, bankVars, marks, Kept, Refused, Ready, Enter, Back
<1> DEFINE SameValues == \A f \in Names : card'[f] \in Images =>
                           card'[f] = serial \/ \E g \in Names : card[g] = card'[f]
           SameSerial == \/ serial' \in Nat /\ serial' <= serial
                         \/ \E g \in Names : Whole(g) /\ serial' = card[g]
<1>a. serial \in Nat /\ 0 <= serial /\ TypeOK  BY MetaFacts DEF MetaTypeOK
<1>b. Left \in 0 .. 3 /\ Within(Left) /\ Within(0)
  BY LeftFact, LessFact DEF BudgetInv
<1>c. ASSUME Left' \in {0, Left}, SameValues, SameSerial, cells' \subseteq cells
      PROVE  BudgetInv'
  <2>1. PICK k \in 0 .. 3 : Left' = k /\ Within(k)  BY <1>b, <1>c
  <2>2. Within(k)'  BY <1>c, <2>1, WithinKept
  <2>3. QED  BY <2>1, <2>2 DEF BudgetInv, Within
<1>d. serial' = serial \/ serial' = 0 => SameSerial  BY <1>a
<1>e. card' = card => SameValues  OBVIOUS
<1> HIDE DEF SameSerial
<1>1. CASE UNCHANGED allVars
  BY <1>1, <1>c, <1>d, <1>e DEF allVars, metaVars, vars, Left
<1>2. CASE Quiet
  BY <1>2, BudgetQuiet
<1>3. CASE OpenBank
  <2>1. Left' = 0  BY <1>3 DEF OpenBank, Left, Raising, Asking
  <2>2. QED  BY <1>3, <1>c, <1>d, <1>e, <2>1 DEF OpenBank, Defaults
<1>4. CASE LoadMeta
  <2>1. Left' = Left
    BY <1>4 DEF LoadMeta, AfterLoad, PhaseInv, Left, Raising, Asking, Loads, Saves
  <2>2. SameSerial
    <3>1. CASE Source # "none" /\ Take(Source)
      BY <1>a, <3>1, SourceFact DEF Take, SameSerial
    <3>2. QED  BY <1>4, <1>d, <3>1 DEF LoadMeta, Unread, Defaults
  <2>3. QED  BY <1>4, <1>c, <1>e, <2>1, <2>2 DEF LoadMeta
<1>5. CASE HealUnlink \/ HealRename \/ HealCheck
  <2>1. Left' = Left
    BY <1>5 DEF HealUnlink, HealRename, HealCheck, HealGoes, HealLeaves, Healed, AfterLoad,
       PhaseInv, Left, Raising, Asking, Loads, Saves
  <2>2. serial' = serial /\ cells' = cells
    BY <1>5 DEF HealUnlink, HealRename, HealCheck, HealGoes, HealLeaves, Healed
  <2>3. SameValues
    <3>1. CASE \E ok \in BOOLEAN : UnlinkPrimary(ok)
      BY <1>a, <3>1, MetaFacts DEF UnlinkPrimary, TypeOK
    <3>2. CASE \E ok \in BOOLEAN : Rename(Tmp, Sav, ok)
      BY <1>a, <3>2, MetaFacts, RenameFrame
    <3>3. QED  BY <1>5, <1>e, <3>1, <3>2 DEF HealUnlink, HealRename, HealCheck
  <2>4. QED  BY <1>c, <1>d, <2>1, <2>2, <2>3
<1>6. CASE SaveStep /\ UNCHANGED metaVars
  <2>1. pc \in Steps
    BY <1>6 DEF SaveStep, StatTarget, PickSlot, CopyToBackup, CompareBackup,
       DropBackupScratch, UnlinkBackup, RenameBackup, CheckBackup, WriteTmp,
       VerifyTmp, DiscardTmp, UnlinkTarget, RenameTmp, CheckSwap, WhereAreTheBytes, Steps
  <2>2. img = serial  BY <2>1 DEF MetaTypeOK, RunInv
  <2>3. SameValues  BY <1>6, <1>a, <2>2, SaveValues
  <2>4. Left' = Left /\ serial' = serial /\ cells' = cells  BY <1>6 DEF metaVars, Left
  <2>5. QED  BY <1>c, <1>d, <2>3, <2>4
<1>7. CASE UnlinkBad \/ WriteMeta
  <2>1. Left' = Left /\ serial' = serial /\ cells' = cells
    BY <1>7 DEF UnlinkBad, WriteMeta, Left, Saves, Loads
  <2>2. CASE \E ok \in BOOLEAN : UnlinkPrimary(ok)
    BY <1>a, <1>c, <1>d, <2>1, <2>2, MetaFacts DEF UnlinkPrimary, TypeOK
  <2>3. QED  BY <1>7, <1>c, <1>d, <1>e, <2>1, <2>2 DEF UnlinkBad, WriteMeta, Begin
<1>8. CASE MetaPowerCut
  <2>1. Left' = 0 /\ serial' = 0 /\ cells' = cells
    BY <1>8 DEF MetaPowerCut, Forget, Left, Raising, Asking
  <2>2. card' = card \/ \E f \in Names : card' = [card EXCEPT ![f] = Short]
    BY <1>8, <1>a, MetaFacts DEF MetaPowerCut, PowerCut, CutBetween, PowerOff, InFlight, TypeOK
  <2>3. SameValues  BY <1>a, <2>2, MetaFacts DEF TypeOK
  <2>4. QED  BY <1>c, <1>d, <2>1, <2>3
<1>9. CASE MetaPowerOn
  BY <1>9, <1>c, <1>d, <1>e DEF MetaPowerOn, metaVars, Left
<1>10. ASSUME NEW f \in RotNames, Rot(f) PROVE BudgetInv'
  <2>1. Left' = Left /\ serial' = serial /\ cells' = cells  BY <1>10 DEF Rot, Left
  <2>2. SameValues  BY <1>10, <1>a, MetaFacts DEF Rot, TypeOK
  <2>3. QED  BY <1>c, <1>d, <2>1, <2>2
<1>11. QED
  BY <1>1, <1>2, <1>3, <1>4, <1>5, <1>6, <1>7, <1>8, <1>9, <1>10, StepKinds

-----------------------------------------------------------------------------
(***************************************************************************)
(* A save in progress.                                                     *)
(***************************************************************************)
LEMMA NoRun ==
  ASSUME pc' \in {"idle", "off"}, at' # "saving"
  PROVE  RunInv'
  BY DEF RunInv, VerdictInv, ScratchInv, BackupInv, Steps, Saved

\* The steps of a save keep what it knows of its files.
LEMMA RunSave ==
  ASSUME MetaTypeOK, RunInv, SaveStep, UNCHANGED metaVars
  PROVE  RunInv' /\ ReportTrue'
<1> USE MetaFacts DEF Bak
<1>a. TypeOK /\ pc \in Steps /\ caller = "meta" /\ img \in Contents
  BY DEF SaveStep, StatTarget, PickSlot, CopyToBackup, CompareBackup,
     DropBackupScratch, UnlinkBackup, RenameBackup, CheckBackup, WriteTmp,
     VerifyTmp, DiscardTmp, UnlinkTarget, RenameTmp, CheckSwap, WhereAreTheBytes,
     Steps, MetaTypeOK, TypeOK, Contents
<1>b. /\ at = "saving" /\ at' = "saving" /\ state = "valid" /\ ~fromBak
      /\ img = serial /\ slot = BakTmp /\ pc \notin {"pick", "where"}
      /\ UNCHANGED <<state, fromBak, serial>>
  BY <1>a DEF MetaTypeOK, RunInv, metaVars, ramVars, Steps
<1>c. SwapInv  BY <1>a DEF SwapInv, RunInv, ReportTrue, Steps
<1>d. VerdictInv' /\ ScratchInv' /\ BackupInv' /\ ReportTrue'
  BY <1>c, SwapBackupStep, SwapWriteStep DEF SaveStep
<1> DEFINE Kind == /\ pc' \in (Steps \ {"pick", "where"}) \cup {"idle"}
                   /\ img' = img /\ slot' = slot
           Held1 == /\ pc' \in {"copy", "compare", "unlinkBak", "renameBak", "checkBak"}
                         => Present(Sav)'
                    /\ pc' \in {"write", "verify", "unlink"} /\ Whole(Sav)'
                         => card'[Bak] = card'[Sav]
<1>e. ASSUME Kind, Held1 PROVE RunInv' /\ ReportTrue'
  <2>1. Saved' => card'[Sav] = serial'
    BY <1>b, <1>d, <1>e DEF ReportTrue, Saved
  <2>2. QED  BY <1>b, <1>d, <1>e, <2>1 DEF RunInv
<1> USE DEF Goto, Return, BackupFails, Discard, Unconfirmed, Steps
<1>1. CASE StatTarget
  BY <1>1, <1>b, <1>e DEF StatTarget, Whole, Present
<1>2. CASE CopyToBackup
  <2>1. card'[Sav] = card[Sav]
    BY <1>2, <1>a, <1>b, WriteFrame DEF CopyToBackup, TypeOK
  <2>2. QED  BY <1>2, <1>b, <1>e, <2>1 DEF CopyToBackup, Present
<1>3. CASE CompareBackup \/ DropBackupScratch
  BY <1>3, <1>b, <1>e DEF CompareBackup, DropBackupScratch, RunInv, Present
<1>4. CASE UnlinkBackup
  <2>1. card'[Sav] = card[Sav]  BY <1>4, <1>a, UnlinkFrame DEF UnlinkBackup
  <2>2. QED  BY <1>4, <1>b, <1>e, <2>1 DEF UnlinkBackup, RunInv, Present
<1>5. CASE RenameBackup
  <2>1. card'[Sav] = card[Sav]  BY <1>5, <1>a, RenameFrame DEF RenameBackup
  <2>2. QED  BY <1>5, <1>b, <1>e, <2>1 DEF RenameBackup, RunInv, Present
<1>6. CASE CheckBackup
  <2>1. BackupLanded => card[Bak] = card[Sav]
    BY <1>6 DEF CheckBackup, BackupInv, RunInv, BackupLanded, SameSize, Present
  <2>2. BackupLanded \in BOOLEAN  BY DEF BackupLanded, SameSize, FullSize, Present
  <2>3. QED
    BY <1>6, <1>a, <1>b, <1>e, <2>1, <2>2, ReadFrame DEF CheckBackup
<1>7. CASE WriteTmp
  <2>1. card'[Sav] = card[Sav] /\ card'[Bak] = card[Bak]
    BY <1>7, <1>a, WriteFrame DEF WriteTmp, TypeOK
  <2>2. QED  BY <1>7, <1>a, <1>b, <1>e, <2>1 DEF WriteTmp, RunInv, Whole
<1>8. CASE VerifyTmp
  BY <1>8, <1>b, <1>e DEF VerifyTmp, RunInv, Whole
<1>9. CASE DiscardTmp \/ UnlinkTarget \/ RenameTmp \/ CheckSwap
  BY <1>9, <1>a, <1>b, <1>e DEF DiscardTmp, UnlinkTarget, RenameTmp, CheckSwap
<1>10. QED
  BY <1>b, <1>1, <1>2, <1>3, <1>4, <1>5, <1>6, <1>7, <1>8, <1>9
  DEF SaveStep, PickSlot, WhereAreTheBytes

LEMMA RunStep ==
  ASSUME MetaTypeOK, PhaseInv, RunInv, [MetaNext]_allVars
  PROVE  RunInv'
<1> USE DEF Kept, Refused, Ready, Enter, Back
<1>1. CASE UNCHANGED allVars
  BY <1>1 DEF allVars, vars, metaVars, ramVars, history, RunInv, VerdictInv, ScratchInv, BackupInv,
     BackedUp, Whole, Present, Saved
<1>2. CASE Quiet
  BY <1>2, QuietFrame, NoRun DEF QuietEffect, vars
<1>3. CASE OpenBank \/ LoadMeta
  BY <1>3, NoRun DEF OpenBank, LoadMeta, AfterLoad
<1>4. CASE HealUnlink \/ HealRename \/ HealCheck
  BY <1>4, NoRun DEF HealUnlink, HealRename, HealCheck, HealLeaves, HealGoes, Healed, AfterLoad
<1>5. CASE SaveStep /\ UNCHANGED metaVars
  BY <1>5, RunSave
<1>6. CASE UnlinkBad
  BY <1>6, NoRun DEF UnlinkBad
<1>7. CASE WriteMeta
  <2>1. /\ pc' = "stat" /\ img' = serial /\ slot' = BakTmp
        /\ verdict' = "none" /\ where' = "none"
        /\ at' = "saving" /\ UNCHANGED <<state, fromBak, serial>>
    BY <1>7 DEF WriteMeta, Begin, FirstStep, ramVars
  <2>2. state = "valid" /\ ~fromBak
    BY <1>7 DEF WriteMeta, PhaseInv, MetaTypeOK
  <2>3. QED
    BY <2>1, <2>2 DEF RunInv, VerdictInv, ScratchInv, BackupInv, Steps, Saved
<1>8. CASE MetaPowerCut
  BY <1>8, NoRun DEF MetaPowerCut, PowerCut, CutBetween, PowerOff, Forget
<1>9. CASE MetaPowerOn
  <2>1. at # "saving"  BY <1>9 DEF MetaPowerOn, RunInv, Steps
  <2>2. QED  BY <1>9, <2>1, NoRun DEF MetaPowerOn, metaVars
<1>10. CASE \E f \in RotNames : Rot(f)
  <2>1. at # "saving"  BY <1>10 DEF Rot, RunInv, Steps
  <2>2. QED  BY <1>10, <2>1, NoRun DEF Rot
<1>11. QED
  BY <1>1, <1>2, <1>3, <1>4, <1>5, <1>6, <1>7, <1>8, <1>9, <1>10, StepKinds


-----------------------------------------------------------------------------
(***************************************************************************)
(* What happens to bank.meta and its .bak.                                 *)
(***************************************************************************)
\* The four things a step of a save can do to the two files.
LEMMA SaveFiles ==
  ASSUME MetaTypeOK, RunInv, SaveStep
  PROVE  \/ card'[Sav] = card[Sav] /\ card'[Bak] = card[Bak]
         \/ /\ Present(Sav) /\ card'[Sav] = card[Sav]
            /\ card'[Bak] \in {Absent, card[Sav]}
         \/ /\ Whole(Sav) => card[Bak] = card[Sav]
            /\ card'[Sav] = Absent /\ card'[Bak] = card[Bak]
         \/ card'[Sav] = serial /\ card'[Bak] = card[Bak]
<1> USE MetaFacts DEF Bak
<1>a. TypeOK /\ pc \in Steps  BY PcStays DEF MetaTypeOK
<1>b. at = "saving" /\ img = serial /\ slot = BakTmp /\ pc \notin {"pick", "where"}
  BY <1>a DEF MetaTypeOK, RunInv, Steps
<1>c. img \in Contents /\ card[Sav] \in Contents  BY <1>a DEF TypeOK, Contents
<1>1. CASE StatTarget \/ CompareBackup \/ CheckBackup \/ VerifyTmp \/ CheckSwap
  BY <1>1 DEF StatTarget, CompareBackup, CheckBackup, VerifyTmp, CheckSwap
<1>2. CASE CopyToBackup
  BY <1>2, <1>a, <1>b, <1>c, WriteFrame DEF CopyToBackup, TypeOK
<1>3. CASE DropBackupScratch \/ DiscardTmp
  BY <1>3, <1>a, <1>b, UnlinkFrame DEF DropBackupScratch, DiscardTmp
<1>4. CASE UnlinkBackup
  BY <1>4, <1>a, UnlinkFrame DEF UnlinkBackup, RunInv
<1>5. CASE RenameBackup
  BY <1>5, <1>a, RenameFrame DEF RenameBackup, RunInv, BackupInv
<1>6. CASE WriteTmp
  BY <1>6, <1>a, <1>c, WriteFrame DEF WriteTmp, TypeOK
<1>7. CASE UnlinkTarget
  BY <1>7, <1>a, UnlinkFrame DEF UnlinkTarget, RunInv
<1>8. CASE RenameTmp
  BY <1>8, <1>a, <1>b, RenameFrame DEF RenameTmp, RunInv, ScratchInv
<1>9. QED
  BY <1>b, <1>1, <1>2, <1>3, <1>4, <1>5, <1>6, <1>7, <1>8
  DEF SaveStep, PickSlot, WhereAreTheBytes

\* What a load takes out of the files, and what it does about a .tmp.
LEMMA FileLoad ==
  ASSUME MetaTypeOK, FileInv, LoadMeta
  PROVE  FileInv'
<1> USE MetaFacts DEF Whole, Present
<1>1. card' = card /\ at = "load" /\ TypeOK  BY DEF LoadMeta, MetaTypeOK
<1>2. CASE Unread /\ IF job = "show" THEN Back ELSE at' = "next" /\ UNCHANGED job
  BY <1>1, <1>2 DEF FileInv, Unread, Defaults, Back, ramVars
<1>3. CASE Source = "none" /\ Defaults("valid") /\ AfterLoad
  <2>1. ~Whole(Bak)  BY <1>1, <1>3, SourceFact
  <2>2. QED  BY <1>1, <1>3, <2>1 DEF FileInv, Defaults, AfterLoad
<1>4. CASE /\ Source # "none" /\ Take(Source) /\ Adopt(card[Source])
           /\ IF Source = Tmp THEN at' = "healUnlink" ELSE AfterLoad
  <2>1. CASE Source = Sav
    BY <1>1, <1>4, <2>1, SourceFact DEF FileInv, Take, AfterLoad
  <2>2. CASE Source = Tmp
    <3>1. ~Whole(Sav) /\ ~Whole(Bak) /\ Whole(Tmp)  BY <1>1, <2>2, SourceFact
    <3>2. QED  BY <1>1, <1>4, <2>2, <3>1 DEF FileInv, Take, Adopt
  <2>3. CASE Source \notin {Sav, Tmp}
    BY <1>1, <1>4, <2>3, SourceFact DEF FileInv, Take, AfterLoad
  <2>4. QED  BY <2>1, <2>2, <2>3
<1>5. QED  BY <1>2, <1>3, <1>4 DEF LoadMeta

\* A heal that does not come to its end forbids every save.
LEMMA FileHeal ==
  ASSUME MetaTypeOK, FileInv, HealUnlink \/ HealRename \/ HealCheck
  PROVE  FileInv'
<1> USE MetaFacts DEF Whole, Present, FileInv
<1>a. TypeOK  BY DEF MetaTypeOK
<1>1. ASSUME Healed(FALSE) PROVE FileInv'
  BY <1>1 DEF Healed, AfterLoad
<1>2. CASE HealUnlink
  <2>1. CASE UnlinkPrimary(TRUE) /\ HealGoes("healRename")
    <3>1. card'[Sav] = Absent /\ card'[Tmp] = card[Tmp] /\ card'[Bak] = card[Bak]
      BY <1>a, <2>1 DEF UnlinkPrimary, TypeOK
    <3>2. UNCHANGED acked /\ at = "healUnlink"  BY <1>2 DEF HealUnlink, HealLeaves, history
    <3>3. QED  BY <2>1, <3>1, <3>2 DEF HealGoes, ramVars
  <2>2. QED  BY <1>1, <1>2, <2>1 DEF HealUnlink
<1>3. CASE HealRename
  <2>1. CASE Rename(Tmp, Sav, TRUE) /\ HealGoes("healCheck")
    <3>1. at = "healRename" /\ Whole(Tmp) /\ serial = card[Tmp]
      BY <1>3 DEF HealRename
    <3>2. card' = card \/ card'[Sav] = card[Tmp]
      BY <1>a, <2>1, RenameFrame
    <3>3. QED  BY <2>1, <3>1, <3>2 DEF HealGoes, ramVars
  <2>2. QED  BY <1>1, <1>3, <2>1 DEF HealRename
<1>4. CASE HealCheck
  <2>1. SwapLanded(Sav, Tmp) \in BOOLEAN  BY DEF SwapLanded, FullSize
  <2>2. CASE SwapLanded(Sav, Tmp) /\ Healed(TRUE)
    <3>1. Whole(Sav)  BY <1>4, <2>2 DEF HealCheck, SwapLanded
    <3>2. QED  BY <1>4, <2>2, <3>1 DEF HealCheck, Healed, AfterLoad
  <2>3. QED  BY <1>1, <1>4, <1>a, <2>1, <2>2, ReadFrame DEF HealCheck
<1>5. QED  BY <1>2, <1>3, <1>4

LEMMA FileStep ==
  ASSUME MetaTypeOK, PhaseInv, RunInv, FileInv, [MetaNext]_allVars
  PROVE  FileInv'
<1> USE MetaFacts DEF Whole, Present
<1>a. TypeOK  BY DEF MetaTypeOK
<1>1. CASE UNCHANGED allVars
  BY <1>1 DEF FileInv, allVars, vars, metaVars, ramVars
<1>2. CASE Quiet
  BY <1>2, QuietFrame DEF QuietEffect, FileInv, vars, Loads
<1>3. CASE OpenBank
  BY <1>3 DEF OpenBank, FileInv, Enter, Ready, Defaults, LayoutExists, ramVars
<1>4. CASE LoadMeta
  BY <1>4, FileLoad
<1>5. CASE HealUnlink \/ HealRename \/ HealCheck
  BY <1>5, FileHeal
<1>6. CASE SaveStep /\ UNCHANGED metaVars
  <2>1. at = "saving" /\ state = "valid" /\ ~fromBak
    BY <1>6, PcStays DEF MetaTypeOK, RunInv
  <2>2. UNCHANGED <<at, state, fromBak>>  BY <1>6 DEF metaVars, ramVars
  <2>3. serial \in Images  BY DEF MetaTypeOK
  <2>4. Whole(Sav)' \/ ~Present(Sav)' \/ ~Whole(Bak)'
    BY <1>6, <2>1, <2>3, SaveFiles DEF FileInv
  <2>5. QED  BY <2>1, <2>2, <2>4 DEF FileInv
<1>7. CASE UnlinkBad
  BY <1>7, <1>a DEF UnlinkBad, UnlinkPrimary, FileInv, TypeOK
<1>8. CASE WriteMeta
  BY <1>8 DEF WriteMeta, Begin, FileInv, ramVars
<1>9. CASE MetaPowerCut
  BY <1>9 DEF MetaPowerCut, Forget, FileInv
<1>10. CASE MetaPowerOn \/ \E f \in RotNames : Rot(f)
  <2>1. state' = "unknown" /\ at' = "user"
    BY <1>10 DEF MetaPowerOn, Rot, PhaseInv, metaVars, ramVars
  <2>2. QED  BY <2>1 DEF FileInv
<1>11. QED
  BY <1>1, <1>2, <1>3, <1>4, <1>5, <1>6, <1>7, <1>8, <1>9, <1>10, StepKinds

-----------------------------------------------------------------------------
(***************************************************************************)
(* The counter on the card is past every serial it has to be past.         *)
(***************************************************************************)
\* A step that hands out nothing, finds out nothing and packs nothing leaves
\* the serials to be past.
LEMMA FloorKept ==
  ASSUME NoRot' => NoRot, issued' = issued, CellsKnown' => CellsKnown,
         cells' \subseteq cells, PackKnown' => PackKnown /\ pack' = pack
  PROVE  \A v \in Images : Floor(v)' => Floor(v)
  BY DEF Floor

\* A file that holds a counter is an anchor for what is below it.
LEMMA AnchorLess ==
  ASSUME TypeOK, NEW w \in Images, Anchor(w), NEW v \in Images, v <= w
  PROVE  Anchor(v)
<1>1. \A f \in Names : Whole(f) => card[f] \in Nat  BY MetaFacts DEF Whole
<1>2. QED  BY <1>1, MetaFacts DEF Anchor

\* No step of a save ends an anchor the counter is past or at.
LEMMA AnchorSave ==
  ASSUME MetaTypeOK, RunInv, FileInv, SaveStep,
         NEW v \in Images, v <= serial, Anchor(v)
  PROVE  Anchor(v)'
<1> USE MetaFacts DEF Anchor, Whole, Present
<1>1. at = "saving" /\ state = "valid" /\ ~fromBak
  BY PcStays DEF MetaTypeOK, RunInv
<1>2. Whole(Sav) \/ ~Present(Sav) \/ ~Whole(Bak)  BY <1>1 DEF FileInv
<1>3. PICK s \in Images : s = serial /\ s >= v  BY DEF MetaTypeOK
<1>4. CASE card'[Sav] = card[Sav] /\ card'[Bak] = card[Bak]
  BY <1>4
<1>5. CASE Present(Sav) /\ card'[Sav] = card[Sav] /\ card'[Bak] \in {Absent, card[Sav]}
  BY <1>2, <1>5
<1>6. CASE /\ Whole(Sav) => card[Bak] = card[Sav]
           /\ card'[Sav] = Absent /\ card'[Bak] = card[Bak]
  BY <1>6
<1>7. CASE card'[Sav] = serial /\ card'[Bak] = card[Bak]
  BY <1>3, <1>7
<1>8. QED  BY <1>4, <1>5, <1>6, <1>7, SaveFiles

\* The Bank's own steps.
LEMMA CountQuiet ==
  ASSUME MetaTypeOK, PhaseInv, BudgetInv, RunInv, CountInv, DropInv, Quiet
  PROVE  CountInv'
<1> USE DEF ramVars, dropVars, bankVars, marks, Kept, Refused, Ready, Enter, Back,
        CellsKnown, PackKnown, Undoable, Saves, Asking, Raising
<1>a. /\ card' = card /\ state' = state /\ rots' = rots /\ TypeOK
      /\ serial \in Nat /\ prev \in Nat
      /\ at' \notin {"saving", "healUnlink", "healRename", "healCheck", "loaded"}
  BY QuietFrame, MetaFacts DEF QuietEffect, vars, MetaTypeOK
<1>b. (NoRot' => NoRot) /\ \A v \in Images : Anchor(v) => Anchor(v)'
  BY <1>a DEF NoRot, Anchor, Whole
<1>c. ASSUME \A v \in Images : Floor(v)' => Floor(v),
             serial' = serial \/ (Undoable /\ serial' = prev),
             ~Undoable', at' # "scan"
      PROVE  CountInv'
  BY <1>a, <1>b, <1>c DEF CountInv, Covered
<1>d. ASSUME \A v \in Images : Floor(v)' => Floor(v),
             prev' = serial, serial' \in Nat, serial' > serial, at' # "scan"
      PROVE  CountInv'
  <2>1. PICK t \in Nat : t = serial' /\ t > serial  BY <1>d
  <2>2. ASSUME NEW v \in Images, Floor(v)' PROVE Anchor(v)' /\ Covered(v)'
    <3>1. Anchor(v) /\ (state = "valid" => serial >= v) /\ v \in Nat
      BY <1>d, <2>2, MetaFacts DEF CountInv, Covered
    <3>2. state = "valid" => t >= v  BY <1>a, <2>1, <3>1
    <3>3. QED  BY <1>a, <1>b, <1>d, <2>1, <3>1, <3>2 DEF Covered
  <2>3. QED  BY <1>d, <2>2 DEF CountInv
<1>e. ASSUME HandOut, serial' = serial, ~Undoable', CellsKnown' => CellsKnown,
             cells' = cells
      PROVE  CountInv'
  <2>1. Saved /\ pack'.serial = serial /\ issued' = issued \cup {serial}
    BY <1>e DEF HandOut, Saved, MetaTypeOK, Cells
  <2>2. serial \in Images /\ Anchor(serial)
    BY <1>a, <2>1 DEF RunInv, MetaTypeOK, Anchor, Whole
  <2>3. ASSUME NEW v \in Images, Floor(v)' PROVE v = serial \/ Floor(v)
    BY <1>b, <1>e, <2>1, <2>3 DEF Floor
  <2>4. ASSUME NEW v \in Images, Floor(v)' PROVE Anchor(v)' /\ Covered(v)'
    BY <1>a, <1>b, <1>e, <2>2, <2>3, <2>4 DEF CountInv, Covered
  <2>5. QED  BY <1>e, <2>1, <2>4 DEF CountInv
<1>1. CASE FirstSaved \/ Shown \/ NamesSaved \/ GiveNames
  <2>1. \A v \in Images : Floor(v)' => Floor(v)
    BY <1>1, <1>b, FloorKept DEF FirstSaved, Shown, NamesSaved, GiveNames
  <2>2. serial' = serial /\ ~Undoable' /\ at' # "scan"
    BY <1>1 DEF FirstSaved, Shown, NamesSaved, GiveNames
  <2>3. QED  BY <1>c, <2>1, <2>2
<1>2. CASE Allocate
  <2>1. \A v \in Images : Floor(v)' => Floor(v)
    BY <1>2, <1>b, FloorKept DEF Allocate
  <2>2. prev' = serial /\ serial' \in Nat /\ serial' > serial /\ at' # "scan"
    BY <1>2, <1>a DEF Allocate
  <2>3. QED  BY <1>d, <2>1, <2>2
<1>3. CASE Lifted
  <2>1. ~checked  BY <1>3 DEF Lifted, HandOut, DropInv
  <2>2. HandOut /\ serial' = serial /\ cells' = cells  BY <1>3 DEF Lifted
  <2>3. ~Undoable' /\ (CellsKnown' => CellsKnown)
    BY <1>3, <2>1 DEF Lifted, HandOut
  <2>4. QED  BY <1>e, <2>2, <2>3
<1>4. CASE NoSerial
  <2>1. \A v \in Images : Floor(v)' => Floor(v)
    BY <1>4, <1>b, FloorKept DEF NoSerial, Undo
  <2>2. Undoable /\ serial' = prev /\ ~Undoable' /\ at' # "scan"
    BY <1>4 DEF NoSerial, Undo
  <2>3. QED  BY <1>c, <2>1, <2>2
<1>5. CASE Scan
  <2>1. job = "lift" /\ pack.serial = serial /\ Anchor(serial) /\ serial \in Images
    BY <1>5 DEF Scan, PhaseInv, CountInv, Floor, MetaTypeOK
  <2>2. seen' \subseteq cells /\ (~ScanFails => seen' = cells)
    BY <1>5, SightFact DEF Scan
  <2>3. CASE serial > Top(seen')
    <3>1. /\ at' = "land" /\ job' = job
          /\ UNCHANGED <<serial, prev, issued, cells, pack, scanned, behind>>
      BY <1>5, <2>3 DEF Scan
    <3>2. ASSUME NEW c \in cells, ~ScanFails
          PROVE  c.serial \in Images /\ c.serial <= serial
      <4>1. c.serial \in Images /\ c.serial <= Top(seen') /\ Top(seen') \in Images
        BY <2>2, <3>2, TopFact DEF MetaTypeOK
      <4>2. QED  BY <1>a, <2>3, <4>1, MetaFacts
    <3>3. ASSUME NEW v \in Images, Floor(v)' PROVE Anchor(v)' /\ Covered(v)'
      <4>1. CASE Floor(v)
        BY <1>a, <1>b, <3>1, <4>1 DEF CountInv, Covered
      <4>2. CASE CellsKnown' /\ \E c \in cells : c.serial = v
        <5>1. v <= serial  BY <3>2, <4>2
        <5>2. Anchor(v)  BY <1>a, <2>1, <5>1, AnchorLess
        <5>3. QED  BY <1>a, <1>b, <3>1, <5>1, <5>2, MetaFacts DEF Covered
      <4>3. CASE PackKnown' /\ v = pack.serial
        BY <1>5, <4>1, <4>3 DEF Scan, Floor
      <4>4. QED  BY <1>b, <3>1, <3>3, <4>1, <4>2, <4>3 DEF Floor
    <3>4. QED  BY <3>1, <3>3 DEF CountInv
  <2>4. CASE ~(serial > Top(seen'))
    <3>1. Raise(seen') /\ job' = "resync" /\ at' = "save"  BY <1>5, <2>4 DEF Scan
    <3>2. Within(2)  BY <1>5, LeftFact DEF Scan, BudgetInv
    <3>3. prev' = serial /\ serial' \in Images /\ serial' > serial
      BY <2>2, <2>4, <3>1, <3>2, RaiseFact
    <3>4. \A v \in Images : Floor(v)' => Floor(v)
      BY <1>5, <1>b, <3>1, FloorKept DEF Scan
    <3>5. QED  BY <1>d, <3>1, <3>3, <3>4, MetaFacts
  <2>5. QED  BY <2>3, <2>4
<1>6. CASE Resynced
  <2>1. CASE Kept /\ Enter("relift", "load") /\ UNCHANGED <<ramVars, behind>>
    <3>1. card[Sav] = serial /\ serial \in Images
      BY <2>1 DEF RunInv, Saved, MetaTypeOK
    <3>2. Anchor(serial)  BY <1>a, <3>1 DEF Anchor, Whole
    <3>3. ~ScanFails => \A c \in cells : c.serial \in Images /\ c.serial < serial
      BY <1>6 DEF Resynced, DropInv, MetaTypeOK, Cells
    <3>4. ASSUME NEW v \in Images, Floor(v)' PROVE Anchor(v)' /\ Covered(v)'
      <4>1. CASE Floor(v)
        BY <1>a, <1>b, <2>1, <4>1 DEF CountInv, Covered
      <4>2. CASE ~ScanFails /\ \E c \in cells : c.serial = v
        <5>1. v <= serial  BY <1>a, <3>3, <4>2, MetaFacts
        <5>2. Anchor(v)  BY <1>a, <3>1, <3>2, <5>1, AnchorLess
        <5>3. QED  BY <1>a, <1>b, <2>1, <5>1, <5>2, MetaFacts DEF Covered
      <4>3. QED  BY <1>6, <1>b, <2>1, <3>4, <4>1, <4>2 DEF Resynced, Floor
    <3>5. QED  BY <2>1, <3>4 DEF CountInv
  <2>2. CASE Refused /\ Enter("lift", "land") /\ Undo /\ behind' = TRUE
    <3>1. \A v \in Images : Floor(v)' => Floor(v)
      BY <1>6, <1>b, <2>2, FloorKept DEF Resynced
    <3>2. Undoable /\ serial' = prev /\ ~Undoable' /\ at' # "scan"
      BY <1>6, <2>2 DEF Resynced, Undo
    <3>3. QED  BY <1>c, <3>1, <3>2
  <2>3. QED  BY <1>6, <2>1, <2>2 DEF Resynced
<1>7. CASE Relifted
  <2>1. CASE HandOut /\ UNCHANGED ramVars
    BY <1>7, <1>e, <2>1 DEF Relifted
  <2>2. CASE Refused /\ Undo /\ UNCHANGED <<pack, seen, marks>>
    <3>1. \A v \in Images : Floor(v)' => Floor(v)
      BY <1>7, <1>b, <2>2, FloorKept DEF Relifted
    <3>2. Undoable /\ serial' = prev /\ ~Undoable' /\ at' # "scan"
      BY <1>7, <2>2 DEF Relifted, Undo
    <3>3. QED  BY <1>c, <3>1, <3>2
  <2>3. QED  BY <1>7, <2>1, <2>2 DEF Relifted
<1>8. CASE Land
  <2>1. ~Undoable' /\ at' # "scan" /\ UNCHANGED <<serial, issued, pack, behind>>
    BY <1>8 DEF Land
  <2>2. CellsKnown' => CellsKnown  BY <1>8 DEF Land
  <2>3. cells' \subseteq cells \cup {pack} /\ PackKnown  BY <1>8 DEF Land
  <2>4. ASSUME NEW v \in Images, Floor(v)' PROVE Floor(v)
    BY <1>b, <2>1, <2>2, <2>3, <2>4 DEF Floor
  <2>5. QED  BY <1>c, <2>1, <2>4
<1>9. CASE DupSynced
  <2>1. \A v \in Images : Floor(v)' => Floor(v)
    BY <1>9, <1>b, FloorKept DEF DupSynced
  <2>2. (serial' = serial \/ (Undoable /\ serial' = prev)) /\ ~Undoable' /\ at' # "scan"
    BY <1>9 DEF DupSynced, Undo
  <2>3. QED  BY <1>c, <2>1, <2>2
<1>10. CASE DupStamped \/ Restored
  <2>1. HandOut /\ serial' = serial /\ cells' = cells
    BY <1>10 DEF DupStamped, Restored
  <2>2. ~Undoable' /\ (CellsKnown' => CellsKnown)
    BY <1>10 DEF DupStamped, Restored, HandOut
  <2>3. QED  BY <1>e, <2>1, <2>2
<1>11. ASSUME NEW m \in Mons, Lift(m) \/ Restore(m) PROVE CountInv'
  <2>1. \A v \in Images : Floor(v)' => Floor(v)
    BY <1>11, <1>b, FloorKept DEF Lift, Restore, Ask
  <2>2. serial' = serial /\ ~Undoable' /\ at' # "scan"
    BY <1>11 DEF Lift, Restore, Ask
  <2>3. QED  BY <1>c, <2>1, <2>2
<1>12. ASSUME NEW c \in cells, Duplicate(c) PROVE CountInv'
  <2>1. \A v \in Images : Floor(v)' => Floor(v)
    BY <1>12, <1>b, FloorKept DEF Duplicate
  <2>2. CASE serial > Top(seen')
    BY <1>12, <1>c, <2>1, <2>2 DEF Duplicate
  <2>3. CASE ~(serial > Top(seen'))
    <3>1. Within(3)  BY <1>12, RoomFact DEF Duplicate
    <3>2. Raise(seen') /\ seen' \subseteq cells /\ at' = "save"
      BY <1>12, <2>3, SightFact DEF Duplicate
    <3>3. prev' = serial /\ serial' \in Images /\ serial' > serial
      BY <2>3, <3>1, <3>2, RaiseFact
    <3>4. QED  BY <1>d, <2>1, <3>2, <3>3, MetaFacts
  <2>4. QED  BY <2>2, <2>3
<1>13. ASSUME NEW c \in cells, Release(c) PROVE CountInv'
  <2>1. \A v \in Images : Floor(v)' => Floor(v)
    BY <1>13, <1>b, FloorKept DEF Release, MetaTypeOK
  <2>2. serial' = serial /\ ~Undoable' /\ at' # "scan"
    BY <1>13 DEF Release, MetaTypeOK
  <2>3. QED  BY <1>c, <2>1, <2>2
<1>14. QED
  BY <1>1, <1>2, <1>3, <1>4, <1>5, <1>6, <1>7, <1>8, <1>9, <1>10, <1>11, <1>12, <1>13
  DEF Quiet

LEMMA CountStep ==
  ASSUME MetaTypeOK, PhaseInv, BudgetInv, RunInv, FileInv, CountInv, DropInv,
         [MetaNext]_allVars
  PROVE  CountInv'
<1> USE MetaFacts DEF ramVars, dropVars, bankVars, marks, Ready, Enter, Back,
        CellsKnown, PackKnown, Undoable, Saves, Asking, Raising
<1>a. TypeOK  BY DEF MetaTypeOK
<1>b. ASSUME \A v \in Images : Floor(v)' => Floor(v) /\ Anchor(v)' /\ Covered(v)',
             Undoable' => serial' > prev', at' # "scan"
      PROVE  CountInv'
  BY <1>b DEF CountInv
<1>1. CASE UNCHANGED allVars
  BY <1>1 DEF allVars, vars, metaVars, CountInv, Floor, NoRot, Anchor, Covered, Whole
<1>2. CASE Quiet
  BY <1>2, CountQuiet
<1>3. CASE OpenBank
  <2>1. at' # "scan" /\ ~Undoable'  BY <1>3 DEF OpenBank
  <2>2. \A v \in Images : Floor(v)' => Floor(v)
    BY <1>3, FloorKept DEF OpenBank, NoRot
  <2>3. CASE UNCHANGED ramVars
    BY <1>3, <1>b, <2>1, <2>2, <2>3 DEF OpenBank, CountInv, Covered, Anchor, Whole
  <2>4. CASE ~LayoutExists
    <3>1. \A v \in Images : ~Anchor(v)
      BY <2>4 DEF LayoutExists, Anchor, Whole, Present
    <3>2. QED  BY <1>b, <2>1, <2>2, <3>1 DEF CountInv
  <2>5. QED  BY <1>3, <2>3, <2>4 DEF OpenBank
<1>4. CASE LoadMeta
  <2>1. at' # "scan" /\ ~Undoable' /\ card' = card
    BY <1>4 DEF LoadMeta, AfterLoad
  <2>2. \A v \in Images : Floor(v)' => Floor(v)
    BY <1>4, FloorKept DEF LoadMeta, AfterLoad, NoRot
  <2>3. \A v \in Images : Anchor(v) => Anchor(v)'  BY <2>1 DEF Anchor, Whole
  <2>4. CASE Unread
    BY <1>b, <2>1, <2>2, <2>3, <2>4 DEF Unread, Defaults, CountInv, Covered
  <2>5. CASE Source = "none"
    <3>1. \A v \in Images : ~Anchor(v)  BY <1>a, <2>5, SourceFact DEF Anchor
    <3>2. QED  BY <1>b, <2>1, <2>2, <3>1 DEF CountInv
  <2>6. CASE Source # "none" /\ Take(Source)
    <3>1. \A v \in Images : Anchor(v) => card[Source] >= v
      BY <1>a, SourceFact DEF Anchor
    <3>2. QED
      BY <1>b, <2>1, <2>2, <2>3, <2>6, <3>1 DEF Take, CountInv, Covered
  <2>7. QED  BY <1>4, <2>4, <2>5, <2>6 DEF LoadMeta
<1>5. CASE HealUnlink \/ HealRename \/ HealCheck
  <2>1. /\ at' \in {"healRename", "healCheck", "loaded", "next"}
        /\ UNCHANGED <<serial, prev, job, scanned, behind, cells, issued, rots, pack>>
        /\ state' = "valid" => state = "valid"
    BY <1>5
    DEF HealUnlink, HealRename, HealCheck, HealGoes, HealLeaves, Healed, AfterLoad
  <2>2. \A v \in Images : Floor(v)' => Floor(v)  BY <2>1, FloorKept DEF NoRot
  <2>3. \A v \in Images : Anchor(v) => Anchor(v)'
    <3>1. CASE HealCheck  BY <3>1 DEF HealCheck, Anchor, Whole
    <3>2. CASE at \in {"healUnlink", "healRename"}  BY <3>2 DEF FileInv, Anchor
    <3>3. QED  BY <1>5, <3>1, <3>2 DEF HealUnlink, HealRename
  <2>4. QED  BY <1>b, <2>1, <2>2, <2>3 DEF CountInv, Covered
<1>6. CASE SaveStep /\ UNCHANGED metaVars
  <2>1. at = "saving" /\ state = "valid"  BY <1>6, PcStays DEF MetaTypeOK, RunInv
  <2>2. UNCHANGED metaVars  BY <1>6
  <2>3. \A v \in Images : Floor(v)' => Floor(v)  BY <2>2, FloorKept DEF metaVars, NoRot
  <2>4. ASSUME NEW v \in Images, Floor(v) PROVE Anchor(v)'
    <3>1. v <= serial /\ Anchor(v)
      BY <2>1, <2>4 DEF CountInv, Covered, MetaTypeOK
    <3>2. QED  BY <1>6, <3>1, AnchorSave
  <2>5. QED  BY <1>b, <2>1, <2>2, <2>3, <2>4 DEF metaVars, CountInv, Covered
<1>7. CASE UnlinkBad
  <2>1. /\ at = "save" /\ at' \in {"save", "stuck"} /\ state = "valid" /\ fromBak
        /\ UNCHANGED <<serial, prev, job, scanned, behind, cells, issued, rots, pack, state>>
    BY <1>7 DEF UnlinkBad, PhaseInv, MetaTypeOK
  <2>2. \A v \in Images : Floor(v)' => Floor(v)  BY <2>1, FloorKept DEF NoRot
  <2>3. ~Whole(Sav) /\ card'[Sav] \in {card[Sav], Absent} /\ card'[Bak] = card[Bak]
    BY <1>7, <1>a, <2>1 DEF FileInv, UnlinkBad, UnlinkPrimary, TypeOK
  <2>4. \A v \in Images : Anchor(v) => Anchor(v)'
    BY <2>3 DEF Anchor, Whole
  <2>5. QED  BY <1>b, <2>1, <2>2, <2>4 DEF CountInv, Covered
<1>8. CASE WriteMeta
  <2>1. /\ at = "save" /\ at' = "saving" /\ card' = card
        /\ UNCHANGED <<serial, prev, job, scanned, behind, cells, issued, rots, pack, state>>
    BY <1>8 DEF WriteMeta, Begin
  <2>2. \A v \in Images : Floor(v)' => Floor(v)  BY <2>1, FloorKept DEF NoRot
  <2>3. QED  BY <1>b, <2>1, <2>2 DEF CountInv, Covered, Anchor, Whole
<1>9. CASE MetaPowerCut
  <2>1. /\ at' = "user" /\ job' = "none" /\ state' = "unknown" /\ ~scanned'
        /\ UNCHANGED <<cells, issued, rots>>
    BY <1>9 DEF MetaPowerCut, Forget
  <2>2. \A v \in Images : Floor(v)' => Floor(v)  BY <2>1, FloorKept DEF NoRot
  <2>3. card'[Sav] = card[Sav] /\ card'[Bak] = card[Bak]
    <3>1. CASE PowerCut
      <4>1. pc \in Steps \ {"pick", "where"} /\ slot = BakTmp
        BY <3>1 DEF PowerCut, MetaTypeOK, RunInv, Steps
      <4>2. QED  BY <3>1, <4>1, <1>a DEF PowerCut, InFlight, TypeOK
    <3>2. QED  BY <1>9, <3>1 DEF MetaPowerCut, CutBetween, PowerOff
  <2>4. QED  BY <1>b, <2>1, <2>2, <2>3 DEF CountInv, Covered, Anchor, Whole
<1>10. CASE MetaPowerOn
  <2>1. card' = card /\ UNCHANGED metaVars  BY <1>10 DEF MetaPowerOn
  <2>2. QED
    BY <2>1 DEF metaVars, CountInv, Floor, NoRot, Anchor, Covered, Whole
<1>11. ASSUME NEW f \in RotNames, Rot(f) PROVE CountInv'
  <2>1. at' = "user" /\ job' = "none" /\ ~scanned'
    BY <1>11 DEF Rot, PhaseInv, MetaTypeOK
  <2>2. rots'[f] # 0  BY <1>11, CellBounds DEF Rot, MetaTypeOK
  <2>3. \A v \in Images : ~Floor(v)'  BY <2>1, <2>2 DEF Floor, NoRot
  <2>4. QED  BY <1>b, <2>1, <2>3
<1>12. QED
  BY <1>1, <1>2, <1>3, <1>4, <1>5, <1>6, <1>7, <1>8, <1>9, <1>10, <1>11, StepKinds

-----------------------------------------------------------------------------
(***************************************************************************)
(* The counter in RAM, and what a drop knows.                              *)
(***************************************************************************)
\* The Bank's own steps leave the counter, or take it back after a save that
\* failed, or raise it and remember what it was.
LEMMA QuietCounter ==
  ASSUME MetaTypeOK, PhaseInv, BudgetInv, Quiet
  PROVE  \/ ~Undoable' /\ (serial' = serial \/ (Undoable /\ ~Saved /\ serial' = prev))
         \/ prev' = serial /\ serial' \in Images /\ serial' > serial
<1> USE DEF ramVars, dropVars, bankVars, marks, Kept, Refused, Ready, Enter, Back,
        Undoable, Saves, Asking, Raising, Saved
<1> DEFINE Goal == \/ ~Undoable' /\ (serial' = serial \/ (Undoable /\ ~Saved /\ serial' = prev))
                   \/ prev' = serial /\ serial' \in Images /\ serial' > serial
<1>1. CASE FirstSaved \/ Shown \/ NamesSaved \/ GiveNames
  BY <1>1 DEF FirstSaved, Shown, NamesSaved, GiveNames
<1>2. CASE Allocate
  <2>1. serial + 1 <= MaxSerial /\ serial \in Nat
    <3>1. Left \in 1 .. 3 /\ Within(Left)  BY <1>2, LeftFact DEF Allocate, BudgetInv
    <3>2. serial \in Nat /\ MaxSerial \in Nat  BY MetaFacts DEF MetaTypeOK
    <3>3. serial + Left <= MaxSerial  BY <3>1 DEF Within
    <3>4. QED  BY <3>1, <3>2, <3>3
  <2>2. QED  BY <1>2, <2>1, MetaFacts DEF Allocate
<1>3. CASE Lifted \/ DupStamped \/ Restored
  BY <1>3 DEF Lifted, DupStamped, Restored, HandOut
<1>4. CASE NoSerial \/ Relifted
  BY <1>4 DEF NoSerial, Relifted, HandOut, Undo
<1>5. CASE Resynced \/ DupSynced
  BY <1>5 DEF Resynced, DupSynced, Undo
<1>6. CASE Scan
  <2>1. CASE serial > Top(seen')
    BY <1>6, <2>1 DEF Scan
  <2>2. CASE ~(serial > Top(seen'))
    <3>1. Raise(seen') /\ seen' \subseteq cells  BY <1>6, <2>2, SightFact DEF Scan
    <3>2. Within(2)  BY <1>6, LeftFact DEF Scan, BudgetInv
    <3>3. QED  BY <2>2, <3>1, <3>2, RaiseFact
  <2>3. QED  BY <2>1, <2>2
<1>7. CASE Land
  BY <1>7 DEF Land
<1>8. ASSUME NEW m \in Mons, Lift(m) \/ Restore(m) PROVE Goal
  BY <1>8 DEF Lift, Restore, Ask
<1>9. ASSUME NEW c \in cells, Duplicate(c) PROVE Goal
  <2>1. CASE serial > Top(seen')
    BY <1>9, <2>1 DEF Duplicate
  <2>2. CASE ~(serial > Top(seen'))
    <3>1. Raise(seen') /\ seen' \subseteq cells  BY <1>9, <2>2, SightFact DEF Duplicate
    <3>2. Within(3)  BY <1>9, RoomFact DEF Duplicate
    <3>3. QED  BY <2>2, <3>1, <3>2, RaiseFact
  <2>3. QED  BY <2>1, <2>2
<1>10. ASSUME NEW c \in cells, Release(c) PROVE Goal
  BY <1>10 DEF Release, MetaTypeOK
<1>11. QED
  BY <1>1, <1>2, <1>3, <1>4, <1>5, <1>6, <1>7, <1>8, <1>9, <1>10 DEF Quiet

\* Where a save reports its image as saved, and where it does not.
LEMMA SaveReport ==
  ASSUME SaveStep, pc # "where"
  PROVE  acked' = acked \/ (acked' = img /\ pc' = "idle" /\ verdict' = "OK")
<1> USE DEF Goto, Return, BackupFails, Discard, Unconfirmed, history
<1>1. CASE StatTarget \/ PickSlot \/ CopyToBackup \/ CompareBackup
  BY <1>1 DEF StatTarget, PickSlot, CopyToBackup, CompareBackup
<1>2. CASE DropBackupScratch \/ UnlinkBackup \/ RenameBackup \/ CheckBackup
  BY <1>2 DEF DropBackupScratch, UnlinkBackup, RenameBackup, CheckBackup
<1>3. CASE WriteTmp \/ VerifyTmp \/ DiscardTmp \/ UnlinkTarget
  BY <1>3 DEF WriteTmp, VerifyTmp, DiscardTmp, UnlinkTarget
<1>4. CASE RenameTmp \/ CheckSwap
  BY <1>4 DEF RenameTmp, CheckSwap
<1>5. QED  BY <1>1, <1>2, <1>3, <1>4 DEF SaveStep, WhereAreTheBytes

LEMMA AckStep ==
  ASSUME MetaTypeOK, PhaseInv, BudgetInv, RunInv, AckInv, [MetaNext]_allVars
  PROVE  AckInv'
<1> USE MetaFacts DEF ramVars, Enter, Back, Saves, Asking, Raising
<1>a. serial \in Nat /\ prev \in Nat /\ acked \in Images \cup {Absent} /\ TypeOK
  BY DEF MetaTypeOK, TypeOK
<1>1. CASE UNCHANGED allVars
  BY <1>1 DEF allVars, vars, metaVars, AckInv, Undoable, Saved
<1>2. CASE Quiet
  <2>1. state' = state /\ acked' = acked  BY <1>2, QuietFrame DEF QuietEffect, vars
  <2>2. CASE ~Undoable' /\ (serial' = serial \/ (Undoable /\ ~Saved /\ serial' = prev))
    BY <2>1, <2>2 DEF AckInv
  <2>3. CASE prev' = serial /\ serial' \in Images /\ serial' > serial
    <3>1. PICK t \in Nat : t = serial' /\ t > serial  BY <2>3
    <3>2. acked # Absent => acked \in Nat  BY <1>a
    <3>3. state = "valid" /\ acked # Absent => serial >= acked /\ t >= acked
      BY <1>a, <3>1, <3>2 DEF AckInv
    <3>4. QED  BY <2>1, <2>3, <3>1, <3>3 DEF AckInv
  <2>4. QED  BY <1>2, <2>2, <2>3, QuietCounter
<1>3. CASE OpenBank
  BY <1>3 DEF OpenBank, Adopt, AckInv, Undoable, history
<1>4. CASE LoadMeta
  <2>1. ~Undoable'  BY <1>4 DEF LoadMeta, AfterLoad, Undoable
  <2>2. CASE Unread /\ UNCHANGED history
    BY <2>1, <2>2 DEF Unread, Defaults, history, AckInv
  <2>3. CASE Adopt(Absent)
    BY <2>3 DEF Adopt, AckInv
  <2>4. CASE Source # "none" /\ Take(Source) /\ Adopt(card[Source])
    <3>1. card[Source] \in Nat  BY <1>a, <2>4, SourceFact
    <3>2. QED  BY <2>1, <2>4, <3>1 DEF Take, Adopt, AckInv
  <2>5. QED  BY <1>4, <2>2, <2>3, <2>4 DEF LoadMeta
<1>5. CASE HealUnlink \/ HealRename \/ HealCheck
  BY <1>5
  DEF HealUnlink, HealRename, HealCheck, HealGoes, HealLeaves, Healed, AfterLoad,
      history, AckInv, Undoable
<1>6. CASE SaveStep /\ UNCHANGED metaVars
  <2>1. /\ at = "saving" /\ state = "valid" /\ img = serial /\ pc \in Steps
        /\ pc # "where"
    BY <1>6, PcStays DEF MetaTypeOK, RunInv, Steps
  <2>2. ~Saved  BY <2>1 DEF Saved, Steps
  <2>3. UNCHANGED <<at, job, serial, prev, state>>  BY <1>6 DEF metaVars
  <2>4. CASE acked' = acked
    BY <2>2, <2>3, <2>4 DEF AckInv, Undoable
  <2>5. CASE acked' = img /\ pc' = "idle" /\ verdict' = "OK"
    <3>1. Saved'  BY <2>1, <2>3, <2>5 DEF Saved
    <3>2. serial' = acked' /\ serial' >= acked'  BY <1>a, <2>1, <2>3, <2>5
    <3>3. QED  BY <3>1, <3>2 DEF AckInv
  <2>6. QED  BY <1>6, <2>1, <2>4, <2>5, SaveReport
<1>7. CASE UnlinkBad
  BY <1>7 DEF UnlinkBad, history, AckInv, Undoable, Saved
<1>8. CASE WriteMeta
  BY <1>8, PcStays DEF WriteMeta, Begin, AckInv, Undoable, Saved
<1>9. CASE MetaPowerCut
  BY <1>9 DEF MetaPowerCut, Forget, AckInv
<1>10. CASE MetaPowerOn \/ \E f \in RotNames : Rot(f)
  <2>1. state' = "unknown"
    BY <1>10 DEF MetaPowerOn, Rot, PhaseInv, metaVars
  <2>2. QED  BY <2>1 DEF AckInv
<1>11. QED
  BY <1>1, <1>2, <1>3, <1>4, <1>5, <1>6, <1>7, <1>8, <1>9, <1>10, StepKinds

\* What a drop knows of the cells it saw.
LEMMA DropStep ==
  ASSUME MetaTypeOK, PhaseInv, BudgetInv, DropInv, [MetaNext]_allVars
  PROVE  DropInv'
<1> USE DEF ramVars, dropVars, bankVars, marks, Kept, Refused, Ready, Enter, Back, DropInv
<1>1. CASE UNCHANGED allVars
  BY <1>1 DEF allVars, metaVars
<1>2. CASE Quiet
  <2>1. CASE FirstSaved \/ Shown \/ NamesSaved \/ GiveNames
    BY <2>1 DEF FirstSaved, Shown, NamesSaved, GiveNames
  <2>2. CASE Allocate
    BY <2>2 DEF Allocate, PhaseInv, Asking
  <2>3. CASE Lifted \/ NoSerial \/ Restored \/ DupStamped
    BY <2>3 DEF Lifted, NoSerial, Restored, DupStamped, HandOut
  <2>4. CASE Scan
    <3>1. seen' \subseteq cells /\ (~ScanFails => seen' = cells)
      BY <2>4, SightFact DEF Scan
    <3>2. CASE serial > Top(seen')
      BY <2>4, <3>1, <3>2 DEF Scan, PhaseInv
    <3>3. CASE ~(serial > Top(seen'))
      <4>1. Raise(seen')  BY <2>4, <3>3 DEF Scan
      <4>2. Within(2)  BY <2>4, LeftFact DEF Scan, BudgetInv
      <4>3. \A c \in seen' : c.serial < serial'
        BY <3>1, <3>3, <4>1, <4>2, RaiseFact
      <4>4. QED  BY <2>4, <3>1, <3>3, <4>3 DEF Scan
    <3>4. QED  BY <3>2, <3>3
  <2>5. CASE Resynced
    BY <2>5 DEF Resynced
  <2>6. CASE Relifted
    <3>1. ~ScanFails => seen' = seen \/ seen' = cells  BY <2>6, SightFact DEF Relifted
    <3>2. QED  BY <2>6, <3>1 DEF Relifted
  <2>7. CASE Land
    BY <2>7 DEF Land
  <2>8. CASE DupSynced
    BY <2>8 DEF DupSynced
  <2>9. ASSUME NEW m \in Mons, Lift(m) \/ Restore(m) PROVE DropInv'
    BY <2>9 DEF Lift, Restore, Ask
  <2>10. ASSUME NEW c \in cells, Duplicate(c) PROVE DropInv'
    <3>1. ~ScanFails => seen' = cells  BY <2>10, SightFact DEF Duplicate
    <3>2. QED  BY <2>10, <3>1 DEF Duplicate
  <2>11. ASSUME NEW c \in cells, Release(c) PROVE DropInv'
    BY <2>11 DEF Release, MetaTypeOK
  <2>12. QED
    BY <1>2, <2>1, <2>2, <2>3, <2>4, <2>5, <2>6, <2>7, <2>8, <2>9, <2>10, <2>11 DEF Quiet
<1>3. CASE OpenBank
  BY <1>3 DEF OpenBank
<1>4. CASE LoadMeta
  BY <1>4 DEF LoadMeta, AfterLoad, PhaseInv, Loads, Asking
<1>5. CASE HealUnlink \/ HealRename \/ HealCheck
  BY <1>5
  DEF HealUnlink, HealRename, HealCheck, HealGoes, HealLeaves, Healed, AfterLoad,
      PhaseInv, Loads, Asking
<1>6. CASE (SaveStep /\ UNCHANGED metaVars) \/ MetaPowerOn
  BY <1>6 DEF metaVars, MetaPowerOn
<1>7. CASE UnlinkBad \/ WriteMeta
  BY <1>7 DEF UnlinkBad, WriteMeta
<1>8. CASE MetaPowerCut
  BY <1>8 DEF MetaPowerCut, Forget
<1>9. CASE \E f \in RotNames : Rot(f)
  BY <1>9 DEF Rot
<1>10. QED
  BY <1>1, <1>2, <1>3, <1>4, <1>5, <1>6, <1>7, <1>8, <1>9, StepKinds

\* A cell that is about to land under a counter that is trusted, or raised,
\* has a serial past all there are; a restored Pokemon is in no cell.
LEMMA IdentStep ==
  ASSUME MetaTypeOK, PhaseInv, RunInv, CountInv, DropInv, IdentInv, [MetaNext]_allVars
  PROVE  IdentInv'
<1> USE DEF ramVars, dropVars, bankVars, marks, Kept, Refused, Ready, Enter, Back, IdentInv
<1> SUFFICES ASSUME ~ScanFails PROVE IdentInv'  OBVIOUS
<1>1. CASE UNCHANGED allVars
  BY <1>1 DEF allVars, metaVars
<1>2. CASE Quiet
  <2>a. ASSUME HandOut
        PROVE  /\ pack'.serial = serial /\ pack'.mon = pack.mon /\ behind' = behind
               /\ at = "saving" /\ state = "valid"
    BY <2>a DEF HandOut, RunInv, MetaTypeOK, Cells
  <2>1. CASE FirstSaved \/ Shown \/ NamesSaved \/ GiveNames
    BY <2>1 DEF FirstSaved, Shown, NamesSaved, GiveNames
  <2>2. CASE Allocate
    BY <2>2 DEF Allocate
  <2>3. CASE Lifted
    <3>1. HandOut /\ job = "lift" /\ cells' = cells /\ checked' = checked
      BY <2>3 DEF Lifted
    <3>2. ASSUME at' = "land", ~behind', NEW c \in cells PROVE c.serial < serial
      <4>1. scanned /\ ~behind  BY <2>3, <2>a, <3>1, <3>2 DEF Lifted
      <4>2. c.serial \in Images  BY DEF MetaTypeOK, Cells
      <4>3. Covered(c.serial)  BY <4>1, <4>2 DEF CountInv, Floor, CellsKnown
      <4>4. Undoable  BY <3>1, <2>a DEF Undoable, Saves, Asking
      <4>5. prev >= c.serial /\ serial > prev
        BY <2>a, <3>1, <4>3, <4>4 DEF Covered, CountInv
      <4>6. QED  BY <4>2, <4>5, MetaFacts DEF MetaTypeOK
    <3>3. QED  BY <2>3, <2>a, <3>1, <3>2 DEF Lifted
  <2>4. CASE NoSerial
    BY <2>4 DEF NoSerial
  <2>5. CASE Scan
    BY <2>5 DEF Scan, PhaseInv
  <2>6. CASE Resynced
    BY <2>6 DEF Resynced
  <2>7. CASE Relifted
    BY <2>7 DEF Relifted, DropInv
  <2>8. CASE Land
    BY <2>8 DEF Land
  <2>9. CASE DupSynced
    BY <2>9 DEF DupSynced
  <2>10. CASE DupStamped
    <3>1. HandOut /\ job = "dup" /\ cells' = cells  BY <2>10 DEF DupStamped
    <3>2. ASSUME at' = "land", NEW c \in cells PROVE c.serial < serial
      <4>1. seen = cells /\ serial > Top(seen)
        BY <2>10, <3>1, <3>2 DEF DupStamped, DropInv
      <4>2. c.serial \in Images /\ c.serial <= Top(seen) /\ Top(seen) \in Images
        BY <4>1, TopFact DEF MetaTypeOK
      <4>3. QED  BY <4>1, <4>2, MetaFacts DEF MetaTypeOK
    <3>3. QED  BY <2>10, <2>a, <3>1, <3>2 DEF DupStamped
  <2>11. CASE Restored
    BY <2>11, <2>a DEF Restored
  <2>12. ASSUME NEW m \in Mons, Lift(m) \/ Restore(m) PROVE IdentInv'
    BY <2>12 DEF Lift, Restore, Ask
  <2>13. ASSUME NEW c \in cells, Duplicate(c) \/ Release(c) PROVE IdentInv'
    BY <2>13 DEF Duplicate, Release, MetaTypeOK
  <2>14. QED
    BY <1>2, <2>1, <2>2, <2>3, <2>4, <2>5, <2>6, <2>7, <2>8, <2>9, <2>10, <2>11, <2>12, <2>13
    DEF Quiet
<1>3. CASE OpenBank
  BY <1>3 DEF OpenBank
<1>4. CASE LoadMeta
  BY <1>4 DEF LoadMeta, AfterLoad
<1>5. CASE HealUnlink \/ HealRename \/ HealCheck
  BY <1>5
  DEF HealUnlink, HealRename, HealCheck, HealGoes, HealLeaves, Healed, AfterLoad
<1>6. CASE (SaveStep /\ UNCHANGED metaVars) \/ MetaPowerOn
  BY <1>6 DEF metaVars, MetaPowerOn
<1>7. CASE UnlinkBad \/ WriteMeta
  BY <1>7 DEF UnlinkBad, WriteMeta
<1>8. CASE MetaPowerCut
  BY <1>8 DEF MetaPowerCut, Forget
<1>9. CASE \E f \in RotNames : Rot(f)
  BY <1>9 DEF Rot
<1>10. QED
  BY <1>1, <1>2, <1>3, <1>4, <1>5, <1>6, <1>7, <1>8, <1>9, StepKinds

-----------------------------------------------------------------------------
(***************************************************************************)
(* The theorems.                                                           *)
(***************************************************************************)
LEMMA MetaStart == MetaInit => MetaInv
<1> SUFFICES ASSUME MetaInit PROVE MetaInv  OBVIOUS
<1> USE MetaFacts DEF MetaInit
<1>1. TypeOK  BY InitType
<1>2. at = "user" /\ job = "none" /\ pc = "idle"  BY DEF Init
<1>3. MetaTypeOK
  <2>1. rots \in [RotNames -> 0..MaxRots]  BY CellBounds
  <2>2. pack \in Cells  BY DEF Cells
  <2>3. behind = FALSE /\ issued = {} /\ cells = {} /\ seen = {} /\ boxed \in BOOLEAN
    OBVIOUS
  <2>4. serial \in Images /\ prev \in Images  OBVIOUS
  <2>5. QED  BY <1>1, <1>2, <2>1, <2>2, <2>3, <2>4 DEF MetaTypeOK, Jobs, Steps
<1>4. PhaseInv  BY <1>2 DEF PhaseInv, Loads
<1>5. Left = 0 /\ BudgetInv
  <2>1. Left = 0  BY <1>2 DEF Left, Raising, Asking
  <2>2. \A f \in Names : ~Whole(f)  BY DEF Whole
  <2>3. QED  BY <2>1, <2>2 DEF BudgetInv, Within
<1>6. RunInv
  BY <1>2 DEF RunInv, VerdictInv, ScratchInv, BackupInv, Steps, Saved
<1>7. FileInv  BY <1>2 DEF FileInv
<1>8. CountInv
  BY <1>2 DEF CountInv, Floor, CellsKnown, PackKnown, Undoable, Saves
<1>9. AckInv /\ DropInv /\ IdentInv  BY <1>2 DEF AckInv, DropInv, IdentInv
<1>10. QED  BY <1>3, <1>4, <1>5, <1>6, <1>7, <1>8, <1>9 DEF MetaInv

LEMMA MetaStep == MetaInv /\ [MetaNext]_allVars => MetaInv'
<1> SUFFICES ASSUME MetaInv, [MetaNext]_allVars PROVE MetaInv'  OBVIOUS
<1>a. /\ MetaTypeOK /\ PhaseInv /\ BudgetInv /\ RunInv /\ FileInv
      /\ CountInv /\ AckInv /\ DropInv /\ IdentInv
  BY DEF MetaInv
<1>b. Undoable => serial > prev  BY <1>a DEF CountInv
<1>1. MetaTypeOK'  BY <1>a, <1>b, TypeStep
<1>2. PhaseInv'  BY <1>a, PhaseStep
<1>3. BudgetInv'  BY <1>a, <1>b, BudgetStep
<1>4. RunInv'  BY <1>a, RunStep
<1>5. FileInv'  BY <1>a, FileStep
<1>6. CountInv'  BY <1>a, CountStep
<1>7. AckInv'  BY <1>a, AckStep
<1>8. DropInv'  BY <1>a, DropStep
<1>9. IdentInv'  BY <1>a, IdentStep
<1>10. QED  BY <1>1, <1>2, <1>3, <1>4, <1>5, <1>6, <1>7, <1>8, <1>9 DEF MetaInv

LEMMA MetaInvariant == MetaSpec => []MetaInv
  BY MetaStart, MetaStep, PTL DEF MetaSpec

\* What a restart reads is at or past every serial that was handed out,
\* unless a file went bad: no read error, failed save, cut or heal rolls the
\* counter back, whatever their number and kind.
THEOREM SerialsAreSafe == MetaSpec => []SerialsSafe
<1>1. MetaInv => SerialsSafe
  <2> SUFFICES ASSUME MetaInv PROVE SerialsSafe  OBVIOUS
  <2>1. MetaTypeOK /\ TypeOK /\ CountInv  BY DEF MetaInv, MetaTypeOK
  <2>2. ASSUME NoRot, issued # {}
        PROVE  Source # "none" /\ card[Source] >= Max(issued)
    <3>1. issued \subseteq 0 .. MaxSerial /\ issued \subseteq Images
      BY <2>1, SerialImages DEF MetaTypeOK
    <3>2. Max(issued) \in issued  BY <2>2, <3>1, MaxFact, MetaFacts
    <3>3. Anchor(Max(issued))  BY <2>1, <2>2, <3>1, <3>2 DEF CountInv, Floor
    <3>4. QED  BY <2>1, <3>3, SourceFact, MetaFacts DEF Anchor
  <2>3. QED  BY <2>1, <2>2 DEF SerialsSafe, CounterAhead
<1>2. QED  BY <1>1, MetaInvariant, PTL

\* No two cells get one identity, if a scan of the boxes sees all of them:
\* also after the counter was rolled back or lost, and whatever else fails.
THEOREM IdentsAreUnique ==
  ASSUME ScanFails = FALSE PROVE MetaSpec => []IdentsUnique
<1>1. MetaInv => IdentsUnique
  <2> SUFFICES ASSUME MetaInv, at = "land", ~(job = "lift" /\ Clash), ~behind
               PROVE  pack \notin cells
    BY DEF IdentsUnique
  <2>1. job \in {"lift", "dup", "restore"}  BY DEF MetaInv, PhaseInv
  <2>2. pack.serial \in Nat  BY MetaFacts DEF MetaInv, MetaTypeOK, Cells
  <2>3. CASE job = "lift" /\ checked
    BY <2>3 DEF MetaInv, DropInv, Clash
  <2>4. CASE (job = "lift" /\ ~checked) \/ job = "dup"
    <3>1. \A c \in cells : c.serial < pack.serial  BY <2>4 DEF MetaInv, IdentInv
    <3>2. ~(pack.serial < pack.serial)  BY <2>2
    <3>3. QED  BY <3>1, <3>2
  <2>5. CASE job = "restore"
    BY <2>5 DEF MetaInv, IdentInv
  <2>6. QED  BY <2>1, <2>3, <2>4, <2>5
<1>2. QED  BY <1>1, MetaInvariant, PTL

-----------------------------------------------------------------------------
\* A step that leaves the files, and what the session has of them or forgets
\* it, leaves what a restart reads.
LEMMA HeldKept ==
  ASSUME Held, card' = card, acked' \in {acked, Absent}
  PROVE  Held'
<1>1. Source' = Source  BY DEF Source, Whole
<1>2. QED  BY <1>1 DEF Held

\* An anchor is what a load takes.
LEMMA AnchorTaken ==
  TypeOK => (acked # Absent /\ Anchor(acked) => Held)
<1> SUFFICES ASSUME TypeOK, Anchor(acked) PROVE Held  OBVIOUS
<1>1. Source \in {Sav, Bak} /\ card[Source] >= acked  BY SourceFact DEF Anchor
<1>2. QED  BY <1>1, MetaFacts DEF Held

LEMMA HeldStep ==
  ASSUME MetaInv, MetaNext, Held,
         Source \in {Sav, Bak} \/ at \in {"healUnlink", "healRename"}, rots' = rots
  PROVE  Held'
<1> USE MetaFacts
<1>a. MetaTypeOK /\ TypeOK /\ PhaseInv /\ RunInv /\ FileInv /\ AckInv
  BY DEF MetaInv, MetaTypeOK
<1>b. acked' # Absent /\ Anchor(acked)' => Held'
  <2>1. (TypeOK => (acked # Absent /\ Anchor(acked) => Held))'  BY AnchorTaken, PTL
  <2>2. TypeOK'  BY <1>a, CardType
  <2>3. QED  BY <2>1, <2>2
<1>c. Source \in {Sav, Bak} /\ acked # Absent => Anchor(acked)
  BY <1>a, SourceFact DEF Anchor, Held
<1>d. at \in {"healUnlink", "healRename"} =>
        ~Whole(Sav) /\ ~Whole(Bak) /\ Whole(Tmp) /\ acked = card[Tmp]
  BY <1>a DEF FileInv
<1>e. acked' = Absent => Held'  BY DEF Held
<1>1. CASE Quiet \/ OpenBank \/ HealCheck \/ WriteMeta \/ MetaPowerOn
  <2>1. card' = card /\ acked' \in {acked, Absent}
    <3>1. CASE Quiet  BY <3>1, QuietFrame DEF QuietEffect, vars
    <3>2. QED
      BY <1>1, <3>1
      DEF OpenBank, Adopt, HealCheck, HealLeaves, WriteMeta, Begin, MetaPowerOn, history
  <2>2. QED  BY <2>1, HeldKept
<1>2. CASE LoadMeta
  <2>1. card' = card  BY <1>2 DEF LoadMeta
  <2>2. Source' = Source  BY <2>1 DEF Source, Whole
  <2>3. CASE acked' \in {acked, Absent}  BY <2>1, <2>3, HeldKept
  <2>4. CASE Source # "none" /\ acked' = card[Source]
    <3>1. card[Source] \in Nat  BY <1>a, <2>4, SourceFact
    <3>2. QED  BY <2>1, <2>2, <2>4, <3>1 DEF Held
  <2>5. QED  BY <1>2, <2>3, <2>4 DEF LoadMeta, Adopt, history
<1>3. CASE HealUnlink \/ HealRename
  <2>1. acked' = acked /\ acked \in Nat
    BY <1>3, <1>d DEF HealUnlink, HealRename, HealLeaves, history, Whole
  <2>2. CASE HealUnlink
    <3>1. card'[Sav] \in {card[Sav], Absent} /\ card'[Bak] = card[Bak] /\ card'[Tmp] = card[Tmp]
      BY <1>a, <2>2 DEF HealUnlink, UnlinkPrimary, TypeOK
    <3>2. at = "healUnlink"  BY <2>2 DEF HealUnlink
    <3>3. Source' = Tmp  BY <1>d, <3>1, <3>2 DEF Source, Whole
    <3>4. QED  BY <1>d, <2>1, <3>1, <3>2, <3>3 DEF Held
  <2>3. CASE HealRename
    <3>1. card' = card \/ card'[Sav] = card[Tmp]
      BY <1>a, <2>3, RenameFrame DEF HealRename
    <3>2. at = "healRename"  BY <2>3 DEF HealRename
    <3>3. CASE card' = card  BY <2>1, <3>3, HeldKept
    <3>4. CASE card'[Sav] = card[Tmp]
      <4>1. Source' = Sav  BY <1>d, <3>2, <3>4 DEF Source, Whole
      <4>2. QED  BY <1>d, <2>1, <3>2, <3>4, <4>1 DEF Held
    <3>5. QED  BY <3>1, <3>3, <3>4
  <2>4. QED  BY <1>3, <2>2, <2>3
<1>4. CASE SaveStep /\ UNCHANGED metaVars
  <2>1. /\ at = "saving" /\ state = "valid" /\ img = serial /\ pc \in Steps
        /\ pc # "where"
    BY <1>4, <1>a, PcStays DEF MetaTypeOK, RunInv, Steps
  <2>2. CASE acked' = acked /\ acked # Absent
    <3>1. acked \in Images /\ acked <= serial
      BY <1>a, <2>1, <2>2 DEF AckInv, TypeOK, MetaTypeOK
    <3>2. Anchor(acked)  BY <1>c, <2>1, <2>2
    <3>3. PICK v \in Images : v = acked  BY <3>1
    <3>4. Anchor(v)'  BY <1>4, <1>a, <3>1, <3>2, <3>3, AnchorSave
    <3>5. QED  BY <1>b, <2>2, <3>3, <3>4 DEF Anchor
  <2>3. CASE acked' = img /\ pc' = "idle" /\ verdict' = "OK"
    <3>1. RunInv' /\ at' = at /\ serial' = serial
      BY <1>4, <1>a, RunSave DEF metaVars, ramVars
    <3>2. card'[Sav] = serial  BY <2>1, <2>3, <3>1 DEF RunInv, Saved
    <3>3. serial \in Images /\ serial >= serial  BY <1>a DEF MetaTypeOK
    <3>4. QED  BY <1>b, <2>1, <2>3, <3>2, <3>3 DEF Anchor, Whole
  <2>4. QED  BY <1>4, <1>e, <2>1, <2>2, <2>3, SaveReport
<1>5. CASE UnlinkBad
  <2>1. acked' = acked /\ at = "save" /\ state = "valid" /\ fromBak
    BY <1>5, <1>a DEF UnlinkBad, history, PhaseInv, MetaTypeOK
  <2>2. ~Whole(Sav) /\ card'[Sav] \in {card[Sav], Absent} /\ card'[Bak] = card[Bak]
    BY <1>5, <1>a, <2>1 DEF FileInv, UnlinkBad, UnlinkPrimary, TypeOK
  <2>3. QED  BY <1>b, <1>c, <1>e, <2>1, <2>2 DEF Anchor, Whole
<1>6. CASE MetaPowerCut
  <2>1. acked' = acked
    BY <1>6 DEF MetaPowerCut, PowerCut, CutBetween, PowerOff, history
  <2>2. CASE PowerCut
    <3>1. pc \in Steps \ {"pick", "where"} /\ slot = BakTmp /\ at = "saving"
      BY <1>a, <2>2 DEF PowerCut, MetaTypeOK, RunInv, Steps
    <3>2. card'[Sav] = card[Sav] /\ card'[Bak] = card[Bak]
      BY <1>a, <2>2, <3>1 DEF PowerCut, InFlight, TypeOK
    <3>3. QED  BY <1>b, <1>c, <1>e, <2>1, <3>1, <3>2 DEF Anchor, Whole
  <2>3. CASE CutBetween \/ PowerOff
    BY <2>1, <2>3, HeldKept DEF CutBetween, PowerOff
  <2>4. QED  BY <1>6, <2>2, <2>3 DEF MetaPowerCut
<1>7. ASSUME NEW f \in RotNames, Rot(f) PROVE FALSE
  <2>1. rots[f] \in Nat /\ rots'[f] = rots[f] + 1
    BY <1>7, <1>a, CellBounds DEF Rot, MetaTypeOK
  <2>2. QED  BY <2>1
<1>8. QED
  BY <1>1, <1>2, <1>3, <1>4, <1>5, <1>6, <1>7
  DEF MetaNext, Loading, Working, User, Power, Quiet

\* Recovery is not single-shot: what a load took, or a save that reported OK
\* wrote, is what a restart reads again or something newer, whatever goes
\* wrong in between but a file that goes bad.
THEOREM RecoveryLasts == MetaSpec => NeverBack
<1>1. MetaInv /\ [MetaNext]_allVars =>
        [Held /\ (Source \in {Sav, Bak} \/ at \in {"healUnlink", "healRename"})
           /\ rots' = rots => Held']_allVars
  BY HeldStep
<1>2. QED  BY <1>1, MetaInvariant, PTL DEF MetaSpec, NeverBack
=============================================================================
