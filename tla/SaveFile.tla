------------------------------ MODULE SaveFile ------------------------------
(***************************************************************************)
(* The verified-write and backup primitives of source/savefile.c, as the   *)
(* callers that commit an image use them, over a card that can fail.       *)
(*                                                                         *)
(* One program runs, on one core, so a save is a straight line of FatFs    *)
(* calls; what makes it hard is the card.  Each FatFs call is one action.  *)
(* A call can report an error, report an error and take effect all the     *)
(* same, or report success and take no effect (an EZ-Flash write has no    *)
(* retry and no read-back), and the power can go between any two calls or  *)
(* in the middle of a write.  MaxMishaps bounds how many of those happen   *)
(* in a behaviour; Kinds says which.                                       *)
(*                                                                         *)
(* What a file holds is abstracted to: one whole image, nothing (the name  *)
(* is not on the card), Short (not the full size) or Garbled (the full     *)
(* size, other bytes).                                                     *)
(***************************************************************************)
EXTENDS Naturals, Sequences

CONSTANTS
  Images,      \* the images a file can be asked to hold
  Absent, Short, Garbled,   \* what a name shows when it holds no image
  Shelf,       \* the backup names in the order the code tries them
  Callers,     \* the save paths in play, a subset of DOMAIN FirstStep
  Kinds,       \* the kinds of mishap in play
  MaxMishaps,  \* how many mishaps a behaviour may hold
  MaxMisses    \* holes in the shelf after which Clear backups gives up (5)

Sav    == "sav"      \* <x>, the file the program saves
Tmp    == "tmp"      \* <x>.tmp, the verified write's scratch
BakTmp == "baktmp"   \* <x>.baktmp, the rolling backup's scratch

Slots == 1..Len(Shelf)
Names == {Sav, Tmp, BakTmp} \cup {Shelf[n] : n \in Slots}
Contents == Images \cup {Absent, Short, Garbled}
AllKinds == {"read", "write", "swallow", "cut"}

ASSUME ImageAssumption ==
  /\ Images # {}
  /\ {Absent, Short, Garbled} \cap Images = {}
  /\ Absent # Short /\ Absent # Garbled /\ Short # Garbled
ASSUME ShelfAssumption ==
  /\ Shelf \in Seq(STRING) /\ Len(Shelf) > 0
  /\ \A n \in Slots : Shelf[n] \notin {Sav, Tmp, BakTmp}
  /\ \A m, n \in Slots : Shelf[m] = Shelf[n] => m = n
ASSUME BoundAssumption ==
  MaxMishaps \in Nat /\ MaxMisses \in Nat \ {0} /\ Kinds \subseteq AllKinds

(***************************************************************************)
(* A save path is named by what it does before the verified write:         *)
(*   all      app_save_finalize, immutable backups  (g_backup_mode 0)      *)
(*   rolling  app_save_finalize, one rolling backup (g_backup_mode 1)      *)
(*   skip     app_save_finalize, no backup          (g_backup_mode 2)      *)
(*   gb       gb_persist: rolling backup                                   *)
(*   box      sf_save_rolling_ok, which box_save calls: the file may not   *)
(*            exist yet, so its name is looked up first                    *)
(*   meta     sf_save_rolling alone, which meta_save calls                 *)
(*   stream   sf_write_verified_stream: no backup, bytes from a generator  *)
(*   heal     bml_box_heal from a .bak: sf_write_verified alone            *)
(***************************************************************************)
FirstStep == [all |-> "pick", rolling |-> "copy", gb |-> "copy",
              box |-> "stat", meta |-> "stat", skip |-> "write",
              stream |-> "write", heal |-> "write"]
Unbacked == {"skip", "stream", "heal"}

\* The callers that take "rename unconfirmed, but the target holds my
\* bytes" for a success.
Lenient == {"gb", "box"}

ASSUME CallerAssumption == Callers \subseteq DOMAIN FirstStep

VARIABLES
  card,      \* what the card holds under each name
  pc,        \* the FatFs call the save in progress is about to make
  caller,    \* the save path in progress, or the last one
  img,       \* the RAM image it was asked to save
  slot,      \* the backup name it is making
  verdict,   \* the SfStatus the last save returned
  where,     \* sf_where_are_the_bytes' answer to it
  mishaps,   \* how many mishaps have happened
  acked,     \* history: the image last loaded or reported as saved
  tried      \* history: the images handed to a save since then

history == <<acked, tried>>
vars == <<card, pc, caller, img, slot, verdict, where, mishaps, acked, tried>>

Steps == {"stat", "pick", "copy", "compare", "dropBak", "unlinkBak",
          "renameBak", "checkBak", "write", "verify", "discard", "unlink",
          "rename", "check", "where"}
Verdicts == {"none", "OK", "OPEN", "WRITE", "VERIFY", "BACKUP", "RENAME"}
Answers == {"none", "NEITHER", "TMP_ONLY", "TMP_AND_OLD", "TARGET"}

TypeOK ==
  /\ card \in [Names -> Contents]
  /\ pc \in Steps \cup {"idle", "off"}
  /\ caller \in Callers
  /\ img \in Images
  /\ slot \in Names \ {Sav, Tmp}
  /\ verdict \in Verdicts
  /\ where \in Answers
  /\ mishaps \in 0..MaxMishaps
  /\ acked \in Images \cup {Absent}
  /\ tried \subseteq Images

Whole(f) == card[f] \in Images
Present(f) == card[f] # Absent
FullSize(f) == card[f] \in Images \cup {Garbled}

-----------------------------------------------------------------------------
(***************************************************************************)
(* FatFs and the card (external: vendored, and modelled from how           *)
(* savefile.c uses it).                                                    *)
(***************************************************************************)
Mishap(kinds) ==
  /\ Kinds \cap kinds # {}
  /\ mishaps < MaxMishaps
  /\ mishaps' = mishaps + 1

Calm == UNCHANGED mishaps

\* f_unlink of f; every caller ignores its result.
Unlink(f) ==
  \/ card' = [card EXCEPT ![f] = Absent] /\ Calm
  \/ UNCHANGED card /\ Mishap({"write", "swallow"})

\* A rename moves one directory entry: it fails on a missing source or a
\* taken target, and otherwise both names change together or neither does.
Moved(from, to) == [card EXCEPT ![to] = card[from], ![from] = Absent]
CanMove(from, to) == Present(from) /\ ~Present(to)
Rename(from, to, ok) ==
  \/ ok = CanMove(from, to) /\ Calm
     /\ card' = IF ok THEN Moved(from, to) ELSE card
  \/ CanMove(from, to) /\ ~ok /\ Mishap({"write"})
     /\ card' \in {card, Moved(from, to)}   \* an error often still lands
  \/ CanMove(from, to) /\ ok /\ Mishap({"swallow"}) /\ UNCHANGED card

\* A read or a stat tells the truth or fails; it never invents a match.
Reads(truth, answer) ==
  \/ answer = truth /\ Calm
  \/ truth /\ ~answer /\ Mishap({"read"})

\* Writing v to f from the start: f_open with FA_CREATE_ALWAYS, f_write,
\* f_close.  An open can fail before the truncation or inside it.
WriteOutcome(f, v, status) ==
  \/ status = "OK" /\ Calm /\ card' = [card EXCEPT ![f] = v]
  \/ status = "OPEN" /\ Mishap({"write"})
     /\ card' \in {card, [card EXCEPT ![f] = IF Present(f) THEN Short ELSE Absent]}
  \/ status = "WRITE" /\ Mishap({"write"}) /\ card' = [card EXCEPT ![f] = Short]
  \/ status = "OK" /\ Mishap({"swallow"})
     /\ card' \in {card, [card EXCEPT ![f] = Short], [card EXCEPT ![f] = Garbled]}

\* The name a power cut finds half written, if any.
InFlight == IF pc = "copy" THEN {slot} ELSE IF pc = "write" THEN {Tmp} ELSE {}

-----------------------------------------------------------------------------
Init ==
  /\ card \in [Names -> Images \cup {Absent}]
  /\ ~Present(Tmp) /\ ~Present(BakTmp)
  /\ Present(Sav) \/ Callers \subseteq {"box", "meta", "heal", "stream"}
  /\ Present(Sav) \/ \A n \in Slots : ~Present(Shelf[n])
  /\ pc = "idle" /\ caller \in Callers /\ img \in Images /\ slot = BakTmp
  /\ verdict = "none" /\ where = "none" /\ mishaps = 0
  /\ acked = card[Sav] /\ tried = {}

Goto(step) == pc' = step /\ UNCHANGED <<caller, img, verdict, where, history>>

\* A save returns s to its caller.
Return(s) ==
  /\ pc' = "idle" /\ verdict' = s
  /\ acked' = IF s = "OK" THEN img ELSE acked
  /\ tried' = IF s = "OK" THEN {} ELSE tried
  /\ UNCHANGED <<caller, img, where>>

\* sf_save_rolling, app_save_finalize, gb_persist: the save begins.
BeginMutant(c, v) ==   \* the rolling backup shares the write's scratch name
  /\ pc = "idle"
  /\ pc' = FirstStep[c]
  /\ caller' = c /\ img' = v /\ slot' = Tmp
  /\ verdict' = "none" /\ where' = "none"
  /\ tried' = tried \cup {v}
  /\ UNCHANGED <<card, mishaps, acked>>
Begin(c, v) ==
  /\ pc = "idle"
  /\ pc' = FirstStep[c]
  /\ caller' = c /\ img' = v /\ slot' = BakTmp
  /\ verdict' = "none" /\ where' = "none"
  /\ tried' = tried \cup {v}
  /\ UNCHANGED <<card, mishaps, acked>>

\* sf_save_rolling asks whether there is anything to back up.  A stat that
\* fails for any other reason than "no such file" refuses the save.
StatTargetMutant ==   \* a first save asks for a backup of nothing
  /\ pc = "stat"
  /\ \/ Goto("copy") /\ Calm
     \/ Return("BACKUP") /\ Mishap({"read"})
  /\ UNCHANGED <<card, slot>>
StatTarget ==
  /\ pc = "stat"
  /\ \/ Goto(IF Present(Sav) THEN "copy" ELSE "write") /\ Calm
     \/ Return("BACKUP") /\ Mishap({"read"})
  /\ UNCHANGED <<card, slot>>

\* sf_backup takes the first name file_exists does not see; a stat that
\* fails counts as "not there".  On a full shelf it replaces the last one.
PickSlotMutant ==   \* a full shelf refuses the save, as it once did
  /\ pc = "pick"
  /\ \/ \E n \in Slots :
          /\ \A m \in 1..(n - 1) : Present(Shelf[m])
          /\ Present(Shelf[n]) => Mishap({"read"})
          /\ ~Present(Shelf[n]) => Calm
          /\ slot' = Shelf[n] /\ Goto("copy")
     \/ /\ \A n \in Slots : Present(Shelf[n])
        /\ UNCHANGED slot /\ Return("BACKUP") /\ Calm
  /\ UNCHANGED card
PickSlot ==
  /\ pc = "pick"
  /\ \/ \E n \in Slots :
          /\ \A m \in 1..(n - 1) : Present(Shelf[m])
          /\ Present(Shelf[n]) => Mishap({"read"})
          /\ ~Present(Shelf[n]) => Calm
          /\ slot' = Shelf[n] /\ UNCHANGED card
     \/ /\ \A n \in Slots : Present(Shelf[n])
        /\ slot' = Shelf[Len(Shelf)] /\ Unlink(slot')
  /\ Goto("copy")

\* A backup that failed: the rolling one drops its scratch copy first.
BackupFailsMutant == Goto("write")   \* the save goes on without a backup
BackupFails == IF slot = BakTmp THEN Goto("dropBak") ELSE Return("BACKUP")

\* copy_file(sav, slot): source first, then the truncating open.
CopyToBackup ==
  /\ pc = "copy"
  /\ \/ ~Present(Sav) /\ Calm /\ BackupFails /\ UNCHANGED card
     \/ /\ Present(Sav) /\ Mishap({"read"}) /\ BackupFails
        /\ card' \in {card, [card EXCEPT ![slot] = Short]}
     \/ /\ Present(Sav)
        /\ \E status \in {"OK", "OPEN", "WRITE"} :
             /\ WriteOutcome(slot, card[Sav], status)
             /\ IF status = "OK" THEN Goto("compare") ELSE BackupFails
  /\ UNCHANGED slot

\* files_equal(sav, slot).  Two damaged files of one class count as equal:
\* a source can be damaged only where the Bank adopted a bad .tmp.
SameBytes == Present(Sav) /\ card[Sav] = card[slot]
CompareBackup ==
  /\ pc = "compare"
  /\ \E equal \in BOOLEAN :
       /\ Reads(SameBytes, equal)
       /\ IF ~equal THEN BackupFails
          ELSE Goto(IF slot = BakTmp THEN "unlinkBak" ELSE "write")
  /\ UNCHANGED <<card, slot>>

DropBackupScratch ==
  /\ pc = "dropBak" /\ Unlink(slot) /\ Return("BACKUP") /\ UNCHANGED slot

UnlinkBackup ==
  /\ pc = "unlinkBak" /\ Unlink(Shelf[1]) /\ Goto("renameBak") /\ UNCHANGED slot

RenameBackup ==
  /\ pc = "renameBak"
  /\ \E ok \in BOOLEAN :
       /\ Rename(BakTmp, Shelf[1], ok)
       /\ IF ok THEN Goto("checkBak") ELSE Return("BACKUP")
  /\ UNCHANGED slot

\* swap_landed: the target shows the full size and the scratch is gone.
SwapLandedMutant(target, scratch) == TRUE   \* FR_OK taken for evidence
SwapLanded(target, scratch) == FullSize(target) /\ ~Present(scratch)

\* The read-back of the rolling backup wants the size its source has.
SameSize(f, g) == Present(f) /\ Present(g) /\ (FullSize(f) <=> FullSize(g))
BackupLanded == SameSize(Shelf[1], Sav) /\ ~Present(BakTmp)

CheckBackup ==
  /\ pc = "checkBak"
  /\ \E landed \in BOOLEAN :
       /\ Reads(BackupLanded, landed)
       /\ IF landed THEN Goto("write") ELSE Return("BACKUP")
  /\ UNCHANGED <<card, slot>>

-----------------------------------------------------------------------------
(***************************************************************************)
(* sf_write_verified and its streamed twin.                                *)
(***************************************************************************)
\* Record a failure of the write and go and unlink the scratch.
Discard(s) ==
  pc' = "discard" /\ verdict' = s /\ UNCHANGED <<caller, img, where, history>>

WriteTmp ==
  /\ pc = "write"
  /\ \/ WriteOutcome(Tmp, img, "OK") /\ Goto("verify")
     \/ WriteOutcome(Tmp, img, "OPEN") /\ Return("OPEN")   \* the .tmp is kept
     \/ WriteOutcome(Tmp, img, "WRITE") /\ Discard("WRITE")
     \/ \* the generator of a streamed write fails or is cancelled
        /\ caller = "stream" /\ Calm
        /\ card' = [card EXCEPT ![Tmp] = Short] /\ Discard("WRITE")
  /\ UNCHANGED slot

MatchesMutant(f) == FullSize(f)   \* a compare of the sizes only
Matches(f) == card[f] = img
VerifyTmp ==
  /\ pc = "verify"
  /\ \E match \in BOOLEAN :
       /\ Reads(Matches(Tmp), match)
       /\ IF match THEN Goto("unlink") ELSE Discard("VERIFY")
  /\ UNCHANGED <<card, slot>>

DiscardTmp ==
  /\ pc = "discard" /\ Unlink(Tmp) /\ Return(verdict) /\ UNCHANGED slot

UnlinkTarget ==
  /\ pc = "unlink" /\ Unlink(Sav) /\ Goto("rename") /\ UNCHANGED slot

\* The verdict is RENAME: app_save_finalize, gb_persist and
\* sf_save_rolling_ok go and ask the card; the others just fail.
Unconfirmed ==
  IF caller \in {"stream", "heal", "meta"} THEN Return("RENAME")
  ELSE pc' = "where" /\ verdict' = "RENAME" /\ UNCHANGED <<caller, img, where, history>>

RenameTmp ==
  /\ pc = "rename"
  /\ \E ok \in BOOLEAN :
       /\ Rename(Tmp, Sav, ok)
       /\ IF ok THEN Goto("check") ELSE Unconfirmed
  /\ UNCHANGED slot

CheckSwap ==
  /\ pc = "check"
  /\ \E landed \in BOOLEAN :
       /\ Reads(SwapLanded(Sav, Tmp), landed)
       /\ IF landed THEN Return("OK") ELSE Unconfirmed
  /\ UNCHANGED <<card, slot>>

\* sf_where_are_the_bytes: three reads, each of which can fail; file_exists
\* takes a failed stat for "not there".
Answer(tmpHolds, savHolds, savThere) ==
  IF tmpHolds THEN IF savThere THEN "TMP_AND_OLD" ELSE "TMP_ONLY"
  ELSE IF savHolds THEN "TARGET" ELSE "NEITHER"

WhereAreTheBytes ==
  /\ pc = "where" /\ pc' = "idle"
  /\ \E tmpHolds, savHolds, savThere \in BOOLEAN :
       /\ tmpHolds => Matches(Tmp)
       /\ savHolds => Matches(Sav)
       /\ savThere => Present(Sav)
       /\ where' = Answer(tmpHolds, savHolds, savThere)
       /\ IF <<tmpHolds, savHolds, savThere>> = <<Matches(Tmp), Matches(Sav), Present(Sav)>>
          THEN Calm ELSE Mishap({"read"})
  /\ LET done == caller \in Lenient /\ where' = "TARGET" IN
       /\ acked' = IF done THEN img ELSE acked
       /\ tried' = IF done THEN {} ELSE tried
  /\ UNCHANGED <<card, caller, img, slot, verdict>>

-----------------------------------------------------------------------------
(***************************************************************************)
(* Around a save: the user's Clear backups, the power, and a card that is  *)
(* put right on a PC.                                                      *)
(***************************************************************************)
\* sf_clear_backups sweeps the names in order and gives up after MaxMisses
\* holes in a row; an unlink that fails leaves its file.
Reached(n) ==
  \A m \in 1..(n - MaxMisses) : \E k \in m..(m + MaxMisses - 1) : Present(Shelf[k])
Swept == {Shelf[n] : n \in {s \in Slots : Reached(s)}} \cup {BakTmp}
ClearBackups ==
  /\ pc = "idle" /\ caller \in {"all", "rolling", "gb"}
  /\ \/ card' = [f \in Names |-> IF f \in Swept THEN Absent ELSE card[f]] /\ Calm
     \/ \E kept \in Swept :
          /\ Present(kept) /\ Mishap({"write", "swallow"})
          /\ card' = [f \in Names |-> IF f \in Swept \ {kept} THEN Absent ELSE card[f]]
  /\ UNCHANGED <<pc, caller, img, slot, verdict, where, history>>

PowerCut ==
  /\ pc \in Steps /\ Mishap({"cut"}) /\ pc' = "off"
  /\ card' \in {card} \cup {[card EXCEPT ![f] = Short] : f \in InFlight}
  /\ UNCHANGED <<caller, img, slot, verdict, where, history>>

PowerOff ==
  /\ pc = "idle" /\ pc' = "off"
  /\ UNCHANGED <<card, caller, img, slot, verdict, where, mishaps, history>>

\* The user's own repair: rename the .tmp, or copy a backup over.
RestoreOnPC ==
  /\ pc = "off" /\ ~Whole(Sav)
  /\ \E f \in Names \ {Sav} :
       /\ Whole(f)
       /\ card' = IF f = Tmp THEN [card EXCEPT ![Sav] = card[Tmp], ![Tmp] = Absent]
                  ELSE [card EXCEPT ![Sav] = card[f]]
  /\ UNCHANGED <<pc, caller, img, slot, verdict, where, mishaps, history>>

\* The program opens the save again: what the file holds is what the user
\* has from now on.
Reopen ==
  /\ pc = "off" /\ Whole(Sav)
  /\ pc' = "idle" /\ verdict' = "none" /\ where' = "none"
  /\ acked' = card[Sav] /\ tried' = {}
  /\ UNCHANGED <<card, caller, img, slot, mishaps>>

SaveStep ==
  \/ StatTarget \/ PickSlot \/ CopyToBackup \/ CompareBackup
  \/ DropBackupScratch \/ UnlinkBackup \/ RenameBackup \/ CheckBackup
  \/ WriteTmp \/ VerifyTmp \/ DiscardTmp \/ UnlinkTarget
  \/ RenameTmp \/ CheckSwap \/ WhereAreTheBytes

\* A file is saved by one part of the program; of a .sav the user can
\* change the backup mode between two saves.
Modes == {"all", "rolling", "skip"}
SameFile(c) == c = caller \/ {c, caller} \subseteq Modes

Save == \E c \in Callers, v \in Images : SameFile(c) /\ Begin(c, v)

Next == Save \/ SaveStep \/ ClearBackups \/ PowerCut \/ PowerOff \/ RestoreOnPC \/ Reopen

Spec == Init /\ [][Next]_vars

-----------------------------------------------------------------------------
(***************************************************************************)
(* Properties.                                                             *)
(***************************************************************************)
\* A whole copy of the image the user last had, or of a newer one they
\* asked to save, is on the card under some name at every instant, also in
\* the middle of a save and with the power off.
CopySurvives ==
  acked # Absent => \E f \in Names : card[f] \in {acked} \cup tried

\* What a finished save tells its caller is so: OK and TARGET mean that the
\* file holds the image, the two TMP answers that the .tmp holds it.
ReportTrue ==
  pc \in {"idle", "off"} =>
    /\ verdict = "OK" \/ where = "TARGET" => card[Sav] = img
    /\ pc = "idle" /\ where \in {"TMP_ONLY", "TMP_AND_OLD"} => card[Tmp] = img

\* The program changes the file under its own name only while the .tmp
\* holds the whole new image and, on the paths that back up, some backup
\* holds exactly the image that is about to go.
BackedUp == \E f \in Names \ {Sav, Tmp} : card[f] = card[Sav]
SwapGuarded ==
  [][card'[Sav] # card[Sav] /\ pc \in Steps =>
       /\ card[Tmp] = img
       /\ BackedUp \/ ~Whole(Sav) \/ caller \in Unbacked]_vars

-----------------------------------------------------------------------------
(***************************************************************************)
(* The inductive invariant behind the properties, in parts.                *)
(***************************************************************************)
\* What the verdict may be while a save runs.
VerdictInv ==
  /\ pc \in Steps => where = "none"
  /\ pc \in Steps \ {"discard", "where"} => verdict = "none"
  /\ pc = "discard" => verdict \in {"WRITE", "VERIFY"}
  /\ pc = "where" => verdict = "RENAME"

\* Where the new image is once its scratch copy was compared.
ScratchInv ==
  /\ pc \in {"unlink", "rename"} => card[Tmp] = img
  /\ pc = "check" => img \in {card[Sav], card[Tmp]}

\* Where the copy of the old image is from the compare of the backup on.
BackupInv ==
  /\ pc \in {"unlinkBak", "renameBak"} => card[BakTmp] = card[Sav]
  /\ pc = "checkBak" => card[Sav] \in {card[BakTmp], card[Shelf[1]]}
  /\ pc \in {"write", "verify", "unlink"} /\ Whole(Sav) /\ caller \notin Unbacked
       => BackedUp

SwapInv == TypeOK /\ VerdictInv /\ ScratchInv /\ BackupInv /\ ReportTrue

\* On the three paths that back up unconditionally: the target is there
\* while the scratch is being written, and when it is not there the scratch
\* holds the newest image.
Fresh == {acked} \cup tried
CopyInv ==
  /\ acked \in Images
  /\ card[Sav] \in Fresh \/ card[Tmp] \in Fresh
  /\ pc # "off" => card[Sav] \in Fresh \cup {Absent}
  /\ pc \in Steps => img \in tried /\ caller \in {"all", "rolling", "gb"}
  /\ pc \in {"compare", "unlinkBak", "renameBak", "checkBak", "write", "verify", "discard"}
       => card[Sav] \in Fresh
  /\ pc # "stat"

-----------------------------------------------------------------------------
\* The program runs a save to its end.  The rest is the user: who keeps
\* saving, takes the card to a PC when the file is not there, and opens it
\* again.
TakeCardOut == PowerOff /\ ~Whole(Sav)
Fairness ==
  /\ WF_vars(SaveStep) /\ SF_vars(Save)
  /\ SF_vars(TakeCardOut) /\ WF_vars(RestoreOnPC) /\ WF_vars(Reopen)
FairSpec == Spec /\ Fairness

\* With finitely many mishaps, a user who keeps saving gets a save
\* through: a full shelf or a failed swap never blocks saving for good.
SavesGetThrough == []<>(verdict = "OK")

=============================================================================
