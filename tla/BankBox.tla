------------------------------- MODULE BankBox -------------------------------
(***************************************************************************)
(* One box file of the Bank: box_load and box_save of source/pdna_bank.c,  *)
(* and bml_box_read and bml_box_heal of source/bank_layout.c, over the     *)
(* verified write of SaveFile.  The box lives in the one shared buffer     *)
(* g_bankbuf while it is resident; the file may not exist yet, and a file  *)
(* that went missing in an interrupted swap is recovered from its .tmp,    *)
(* else from its .bak, when the box is paged in.                           *)
(***************************************************************************)
EXTENDS SaveFile

ASSUME BoxCallers == Callers = {"box", "heal"} /\ Len(Shelf) = 1

VARIABLES
  at,        \* where the Bank's own code is: with the user, paging in, saving
  resident,  \* g_loaded is this box
  ram,       \* g_bankbuf; Absent stands for the zeroed buffer
  dirty,     \* g_dirty
  unread,    \* g_box_unread: "no", "err" (read error) or "heal" (heal failed)
  based      \* history: the buffer came from what the card held

boxVars == <<at, resident, ram, dirty, unread, based>>
allVars == <<vars, boxVars>>

Bak == Shelf[1]

BoxTypeOK ==
  /\ TypeOK
  /\ at \in {"user", "classify", "healRename", "healCheck", "healBak",
            "healing", "saving"}
  /\ ram \in Contents
  /\ unread \in {"no", "err", "heal"}
  /\ {resident, dirty, based} \subseteq BOOLEAN
  /\ at # "user" => pc # "off"
  /\ dirty => resident /\ ram \in Images

\* What paging the box in would bring back, were the card to read well.
Recovered ==
  IF Present(Sav) THEN card[Sav]
  ELSE IF FullSize(Tmp) THEN card[Tmp]
  ELSE IF FullSize(Bak) THEN card[Bak]
  ELSE Absent

BoxInit ==
  /\ Init
  /\ at = "user" /\ resident = FALSE /\ ram = Absent /\ dirty = FALSE
  /\ unread = "no" /\ based = FALSE

-----------------------------------------------------------------------------
\* The page-in is over: the box is resident and clean.  What was read in
\* full, or put back, is what the user is shown and has from now on.
Loaded(u, content) ==
  /\ at' = "user" /\ resident' = TRUE /\ dirty' = FALSE
  /\ unread' = u /\ ram' = content
  /\ based' = (content = Recovered)
  /\ acked' = IF u = "no" THEN content ELSE acked
  /\ tried' = IF u = "no" THEN {} ELSE tried

Staying == UNCHANGED <<resident, dirty, unread, based, history>>

\* A box is paged in when the buffer holds no unsaved edit, when
\* pdna_bank_show discards the edits, or when a retried save finds that the
\* box never was read and the phantom buffer holds no edit
\* (box_unread_reread).  So a page-in may start whatever the flags say.
PageIn ==
  /\ pc = "idle" /\ at = "user" /\ at' = "classify"
  /\ UNCHANGED <<vars, resident, ram, dirty, unread, based>>

\* bml_box_read: the .tmp, then the .bak, count only when the primary is
\* truly absent, and a card error is not "absent".
ReadBoxMutant ==   \* a read error is taken for an empty box
  /\ pc = "idle" /\ at = "classify"
  /\ \/ Mishap({"read"}) /\ Loaded("no", Absent)
     \/ Calm /\ Present(Sav) /\ Loaded("no", card[Sav])
  /\ UNCHANGED <<card, pc, caller, img, slot, verdict, where>>
ReadBox ==
  /\ pc = "idle" /\ at = "classify"
  /\ \/ Mishap({"read"}) /\ Loaded("err", Absent)
     \/ Calm /\ (Present(Sav) \/ Recovered = Absent) /\ Loaded("no", Recovered)
     \/ /\ Calm /\ ~Present(Sav) /\ Recovered # Absent
        /\ at' = IF FullSize(Tmp) THEN "healRename" ELSE "healBak"
        /\ ram' = Recovered /\ Staying
  /\ UNCHANGED <<card, pc, caller, img, slot, verdict, where>>

\* bml_box_heal from the .tmp: the only copy of the newest bytes is renamed
\* into place, never rewritten.
HealFromTmp ==
  /\ pc = "idle" /\ at = "healRename"
  /\ \E ok \in BOOLEAN :
       /\ Rename(Tmp, Sav, ok)
       /\ IF ok THEN at' = "healCheck" /\ UNCHANGED ram /\ Staying
          ELSE Loaded("heal", ram)
  /\ UNCHANGED <<pc, caller, img, slot, verdict, where>>

CheckHeal ==
  /\ pc = "idle" /\ at = "healCheck"
  /\ \E landed \in BOOLEAN :
       /\ Reads(SwapLanded(Sav, Tmp), landed)
       /\ Loaded(IF landed THEN "no" ELSE "heal", ram)
  /\ UNCHANGED <<card, pc, caller, img, slot, verdict, where>>

\* bml_box_heal from the .bak: a plain verified write of the bytes read, so
\* that no backup roll can bury the .bak.  It runs as SaveFile's steps.
HealFromBak ==
  /\ at = "healBak" /\ Begin("heal", ram)
  /\ at' = "healing" /\ UNCHANGED <<resident, ram, dirty, unread, based>>

HealDone ==
  /\ pc = "idle" /\ at = "healing"
  /\ \E there \in BOOLEAN :
       /\ Reads(FullSize(Sav), there)
       /\ Loaded(IF verdict = "OK" /\ there THEN "no" ELSE "heal", ram)
  /\ UNCHANGED <<card, pc, caller, img, slot, verdict, where>>

\* The user changes the box in the buffer (banksrc_mark_dirty), also one
\* that was not read: only the save refuses.
Edit ==
  /\ pc = "idle" /\ at = "user" /\ resident
  /\ ram' \in Images \ {ram} /\ dirty' = TRUE
  /\ UNCHANGED <<vars, at, resident, unread, based>>

\* box_save refuses a box that was not read or not healed; sf_save_rolling_ok
\* gives the verdict, and the box stays dirty unless it is a yes.
SaveBoxMutant ==   \* a box whose page-in failed is written
  /\ at = "user" /\ resident /\ dirty
  /\ Begin("box", ram)
  /\ at' = "saving" /\ UNCHANGED <<resident, ram, dirty, unread, based>>
SaveBox ==
  /\ at = "user" /\ resident /\ dirty /\ unread = "no"
  /\ Begin("box", ram)
  /\ at' = "saving" /\ UNCHANGED <<resident, ram, dirty, unread, based>>

SaveDoneMutant ==   \* an unconfirmed swap counts as saved
  /\ pc = "idle" /\ at = "saving"
  /\ dirty' = ~(verdict \in {"OK", "RENAME"})
  /\ at' = "user"
  /\ UNCHANGED <<vars, resident, ram, unread, based>>
SaveDone ==
  /\ pc = "idle" /\ at = "saving"
  /\ dirty' = ~(verdict = "OK" \/ where = "TARGET")
  /\ at' = "user"
  /\ UNCHANGED <<vars, resident, ram, unread, based>>

\* Leaving the Bank, or paging to another box, reuses the buffer.
LetGoMutant ==   \* the dirty flag outlives the box
  /\ pc = "idle" /\ at = "user" /\ resident
  /\ resident' = FALSE
  /\ UNCHANGED <<vars, at, ram, dirty, unread, based>>
LetGo ==
  /\ pc = "idle" /\ at = "user" /\ resident
  /\ resident' = FALSE /\ dirty' = FALSE
  /\ UNCHANGED <<vars, at, ram, unread, based>>

-----------------------------------------------------------------------------
\* The power goes: nothing of the buffer is left.
Forget ==
  /\ at' = "user" /\ resident' = FALSE /\ dirty' = FALSE
  /\ unread' = "no" /\ ram' = Absent /\ based' = FALSE

CutInPageIn ==   \* between two card accesses of the Bank's own
  /\ pc = "idle" /\ at # "user" /\ pc' = "off" /\ Mishap({"cut"})
  /\ UNCHANGED <<card, caller, img, slot, verdict, where, history>>

BoxPowerCut ==
  /\ PowerCut \/ CutInPageIn \/ (at = "user" /\ PowerOff)
  /\ Forget

PowerOn ==
  /\ pc = "off" /\ pc' = "idle" /\ verdict' = "none" /\ where' = "none"
  /\ UNCHANGED <<card, caller, img, slot, mishaps, history, boxVars>>

BoxNext ==
  \/ SaveStep /\ UNCHANGED boxVars
  \/ PageIn \/ ReadBox \/ HealFromTmp \/ CheckHeal \/ HealFromBak \/ HealDone
  \/ Edit \/ SaveBox \/ SaveDone \/ LetGo
  \/ BoxPowerCut \/ PowerOn

BoxSpec == BoxInit /\ [][BoxNext]_allVars

-----------------------------------------------------------------------------
\* The box file keeps the promise of a durable store, with what the page-in
\* would recover for its state.
Store == INSTANCE DurableStore WITH durable <- Recovered, Nothing <- Absent
KeepsItsPromise == Store!Spec

\* A box is written only from a buffer that was filled from what the card
\* held: a failed page-in never turns into a wiped box.
NeverFromAPhantom == [][SaveBox => based]_allVars

\* A clean buffer is what the card would bring back: leaving a box that is
\* not dirty loses no edit.
CleanMeansSaved ==
  resident /\ ~dirty /\ unread = "no" /\ at = "user" => ram = Recovered

-----------------------------------------------------------------------------
BoxFairness ==
  /\ WF_allVars((SaveStep /\ UNCHANGED boxVars) \/ ReadBox \/ HealFromTmp
                \/ CheckHeal \/ HealFromBak \/ HealDone \/ SaveDone)
  /\ WF_allVars(PowerOn)
  /\ SF_allVars(SaveBox)
  /\ SF_allVars(PageIn /\ (~resident \/ unread # "no"))
  /\ SF_allVars(Edit /\ ~dirty)
FairBoxSpec == BoxSpec /\ BoxFairness

\* With finitely many mishaps, a user who re-opens a box that could not be
\* read or healed and keeps saving gets edits into the file: a failed heal
\* or a lost swap never locks a box for good.
EditsGetThrough == []<>(at = "saving" /\ pc = "idle" /\ verdict = "OK")
=============================================================================
