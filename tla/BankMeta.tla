------------------------------ MODULE BankMeta ------------------------------
(***************************************************************************)
(* The layout file of the Bank, bank.meta, and the serials it hands out:   *)
(* meta_load, meta_save, pdna_bank_next_serial, pdna_bank_serial_resync    *)
(* and pdna_bank_show of source/pdna_bank.c, bml_meta_read and             *)
(* bml_meta_heal_tmp of source/bank_layout.c, the scan of the boxes in     *)
(* source/bank_collision.c, and the drops that ask for a serial.           *)
(*                                                                         *)
(* A cell of a Game Boy Pokemon is told from others by a hash of its       *)
(* record and its serial, so no two packs of one Pokemon may get the same  *)
(* serial.  The counter is in bank.meta with the names of the boxes: what  *)
(* the file holds is abstracted to the counter, and a file of default      *)
(* names to a counter of zero.                                             *)
(***************************************************************************)
EXTENDS SaveFile, FiniteSetsExt

CONSTANTS
  Mons,       \* the Pokemon that are brought to the Bank
  MaxSerial,  \* bound: no operation starts that could need a higher serial
  MaxCells,   \* bound: the cells of the Bank that are in use
  RotNames,   \* the files that can go bad while the power is off
  MaxRots,    \* bound: how often each of them does
  ScanFails   \* whether a box may be unreadable while the boxes are scanned

Bak == Shelf[1]

ASSUME MetaCallers == Callers = {"meta"} /\ Len(Shelf) = 1 /\ Bak # "none"
ASSUME SerialImages == MaxSerial \in Nat /\ Images = 0..MaxSerial
ASSUME CellBounds ==
  MaxCells \in Nat /\ MaxRots \in Nat /\ RotNames \subseteq Names

VARIABLES
  at,       \* where the Bank's own code is
  job,      \* the operation in progress
  open,     \* the Bank screen is open
  serial,   \* g_bank_serial
  prev,     \* what the counter goes back to if it is not saved
  state,    \* g_meta_state: "unknown", "valid" or "unsafe" (0, 1, 2)
  fromBak,  \* g_meta_from_bak
  trusted,  \* g_serial_trusted
  scanned,  \* s_up_scan_done
  pack,     \* the cell in hand: a Pokemon and its serial
  seen,     \* the cells the last scan of this operation saw
  checked,  \* this drop has scanned the boxes
  cells,    \* the native cells in the box files
  boxed,    \* some box file exists
  rots,     \* how often each file has gone bad
  issued,   \* history: the serials that were handed out
  behind    \* history: a counter this session found behind was not raised

ramVars == <<serial, prev, state, fromBak, trusted>>
dropVars == <<pack, seen, checked>>
bankVars == <<cells, boxed>>
marks == <<issued, behind>>
metaVars == <<at, job, open, ramVars, scanned, dropVars, bankVars, rots, marks>>
allVars == <<vars, metaVars>>

Cells == [mon : Mons, serial : Images]
Jobs == {"none", "first", "show", "names", "lift", "resync", "relift",
         "dupsync", "dup", "restore"}

MetaTypeOK ==
  /\ TypeOK
  /\ at \in {"user", "load", "healUnlink", "healRename", "healCheck", "loaded",
            "next", "save", "saving", "stuck", "scan", "land"}
  /\ job \in Jobs /\ (job = "none" <=> at = "user")
  /\ {serial, prev} \subseteq Images
  /\ state \in {"unknown", "valid", "unsafe"}
  /\ {open, fromBak, trusted, scanned, checked, boxed} \subseteq BOOLEAN
  /\ pack \in Cells /\ seen \subseteq Cells /\ cells \subseteq Cells
  /\ rots \in [RotNames -> 0..MaxRots]
  /\ issued \subseteq Images \ {0} /\ behind \in BOOLEAN
  /\ trusted => state # "unknown" /\ ~fromBak
  /\ cells # {} => boxed
  /\ pc \in Steps => at = "saving"

\* The serials that are about, and room for what an operation may add.
Serials == {card[f] : f \in {g \in Names : Whole(g)}} \cup {serial}
             \cup {c.serial : c \in cells}
Room == Max(Serials) + 3 <= MaxSerial

MetaInit ==
  /\ Init /\ \A f \in Names : card[f] = Absent
  /\ at = "user" /\ job = "none" /\ open = FALSE
  /\ serial = 0 /\ prev = 0 /\ state = "unknown"
  /\ fromBak = FALSE /\ trusted = FALSE /\ scanned = FALSE
  /\ pack \in [mon : Mons, serial : {0}] /\ seen = {} /\ checked = FALSE
  /\ cells = {} /\ boxed \in BOOLEAN
  /\ rots = [f \in RotNames |-> 0] /\ issued = {} /\ behind = FALSE

\* An operation begins, or ends with the user.
Enter(j, step) == job' = j /\ at' = step
Back == job' = "none" /\ at' = "user"
Ready == pc = "idle" /\ at = "user"

-----------------------------------------------------------------------------
(***************************************************************************)
(* meta_load.                                                              *)
(***************************************************************************)
\* bml_meta_read: the file that is taken, the scratch copies last.
Source ==
  IF Whole(Sav) THEN Sav ELSE IF Whole(Bak) THEN Bak
  ELSE IF Whole(Tmp) THEN Tmp ELSE IF Whole(BakTmp) THEN BakTmp ELSE "none"

\* meta_defaults, with the state that a read error makes of it.
Defaults(s) ==
  /\ serial' = 0 /\ trusted' = FALSE /\ fromBak' = FALSE /\ state' = s
  /\ UNCHANGED prev

\* What the file held is what the session has from now on.
Adopt(v) == acked' = v /\ tried' = {}
AfterLoad == at' = IF job = "show" THEN "loaded" ELSE "next"

\* The file f parsed.
Take(f) ==
  /\ serial' = card[f] /\ trusted' = (f = Sav) /\ fromBak' = (f # Sav)
  /\ state' = "valid" /\ UNCHANGED prev

\* A read error is not "missing": what RAM holds stays, and a session that
\* never loaded anything shows defaults that cannot be saved.
UnreadMutant == Defaults("valid")   \* a read error taken for "missing"
Unread ==
  IF state = "unknown" THEN Defaults("unsafe") ELSE UNCHANGED ramVars

LoadMeta ==
  /\ pc = "idle" /\ at = "load"
  /\ \/ /\ Mishap({"read"}) /\ Unread /\ UNCHANGED history
        /\ IF job = "show" THEN Back ELSE at' = "next" /\ UNCHANGED job
     \/ /\ Calm /\ Source = "none" /\ Defaults("valid") /\ AfterLoad
        /\ UNCHANGED job /\ Adopt(Absent)
     \/ /\ Calm /\ Source # "none" /\ Take(Source)
        /\ IF Source = Tmp THEN at' = "healUnlink" ELSE AfterLoad
        /\ UNCHANGED job /\ Adopt(card[Source])
  /\ UNCHANGED <<card, pc, caller, img, slot, verdict, where, open,
                 scanned, dropVars, bankVars, rots, marks>>

\* f_unlink of bank.meta where the code looks at the result: "not there"
\* is as good as gone.
UnlinkPrimary(ok) ==
  \/ ok /\ Calm /\ card' = [card EXCEPT ![Sav] = Absent]
  \/ ~ok /\ Present(Sav) /\ Mishap({"write"})
     /\ card' \in {card, [card EXCEPT ![Sav] = Absent]}

\* bml_meta_heal_tmp: a bad primary makes way, and the .tmp, which the next
\* save would truncate, is renamed into place.  A heal that fails forbids
\* every save until a later load.
Healed(ok) ==
  /\ fromBak' = (fromBak /\ ~ok)
  /\ state' = IF ok THEN state ELSE "unsafe"
  /\ AfterLoad /\ UNCHANGED <<serial, prev, trusted>>
HealGoes(step) == at' = step /\ UNCHANGED ramVars
HealLeaves == UNCHANGED <<pc, caller, img, slot, verdict, where, history, job,
                          open, scanned, dropVars, bankVars, rots, marks>>

HealUnlink ==
  /\ pc = "idle" /\ at = "healUnlink"
  /\ \E ok \in BOOLEAN :
       UnlinkPrimary(ok) /\ IF ok THEN HealGoes("healRename") ELSE Healed(FALSE)
  /\ HealLeaves

HealRename ==
  /\ pc = "idle" /\ at = "healRename"
  /\ \E ok \in BOOLEAN :
       Rename(Tmp, Sav, ok) /\ IF ok THEN HealGoes("healCheck") ELSE Healed(FALSE)
  /\ HealLeaves

HealCheck ==
  /\ pc = "idle" /\ at = "healCheck"
  /\ \E landed \in BOOLEAN : Reads(SwapLanded(Sav, Tmp), landed) /\ Healed(landed)
  /\ UNCHANGED card /\ HealLeaves

-----------------------------------------------------------------------------
(***************************************************************************)
(* meta_save.                                                              *)
(***************************************************************************)
\* A file the load fell back past is unlinked, so that the roll of the
\* backup cannot bury the good .bak under it; if that fails nothing is
\* written.  The write itself runs as SaveFile's steps.
UnlinkBad ==
  /\ pc = "idle" /\ at = "save" /\ state # "unsafe" /\ fromBak
  /\ \E ok \in BOOLEAN :
       /\ UnlinkPrimary(ok)
       /\ fromBak' = ~ok /\ at' = IF ok THEN "save" ELSE "stuck"
  /\ UNCHANGED <<pc, caller, img, slot, verdict, where, history, job, open,
                 serial, prev, state, trusted, scanned, dropVars, bankVars,
                 rots, marks>>

WriteMetaMutant ==   \* the bad primary is left for the rolling backup to bury .bak
  /\ at = "save" /\ state # "unsafe"
  /\ Begin("meta", serial) /\ at' = "saving"
  /\ UNCHANGED <<job, open, ramVars, scanned, dropVars, bankVars, rots, marks>>
WriteMeta ==
  /\ at = "save" /\ state # "unsafe" /\ ~fromBak
  /\ Begin("meta", serial) /\ at' = "saving"
  /\ UNCHANGED <<job, open, ramVars, scanned, dropVars, bankVars, rots, marks>>

\* What meta_save returned.
Kept == pc = "idle" /\ at = "saving" /\ verdict = "OK"
Refused ==
  /\ pc = "idle"
  /\ \/ at = "saving" /\ verdict # "OK"
     \/ at = "save" /\ state = "unsafe"
     \/ at = "stuck"

\* The counter goes back to what it was.
Undo == serial' = prev /\ UNCHANGED <<prev, state, fromBak, trusted>>

-----------------------------------------------------------------------------
(***************************************************************************)
(* The Bank screen and its names.                                          *)
(***************************************************************************)
\* bml_layout_exists; a stat that fails counts as "exists".
LayoutExists == Present(Sav) \/ Present(Bak) \/ boxed

\* pdna_bank_show.  The first run packs old .pk3 files into boxes and
\* writes a file of defaults (migrate_flat_pk3).
OpenBank ==
  /\ Ready /\ open' = TRUE
  /\ \/ LayoutExists /\ Calm /\ Enter("show", "load")
        /\ UNCHANGED <<ramVars, boxed, history>>
     \/ ~LayoutExists /\ Mishap({"read"}) /\ Enter("show", "load")
        /\ UNCHANGED <<ramVars, boxed, history>>
     \/ ~LayoutExists /\ Calm /\ Enter("first", "save") /\ Defaults("valid")
        /\ boxed' \in BOOLEAN /\ Adopt(Absent)
  /\ UNCHANGED <<card, pc, caller, img, slot, verdict, where, scanned,
                 dropVars, cells, rots, marks>>

FirstSaved ==
  /\ job = "first" /\ (Kept \/ Refused) /\ Enter("show", "load")
  /\ UNCHANGED <<vars, open, ramVars, scanned, dropVars, bankVars, rots, marks>>

\* A restore from a copy rewrites the primary at once.
Shown ==
  /\ pc = "idle" /\ at = "loaded"
  /\ IF fromBak THEN Enter("show", "save") ELSE Back
  /\ UNCHANGED <<vars, open, ramVars, scanned, dropVars, bankVars, rots, marks>>

\* banksrc_commit ends with a save of the names.
GiveNames ==
  /\ Ready /\ open /\ Enter("names", "save")
  /\ UNCHANGED <<vars, open, ramVars, scanned, dropVars, bankVars, rots, marks>>

NamesSaved ==
  /\ job \in {"names", "show"} /\ (Kept \/ Refused) /\ Back
  /\ UNCHANGED <<vars, open, ramVars, scanned, dropVars, bankVars, rots, marks>>

-----------------------------------------------------------------------------
(***************************************************************************)
(* pdna_bank_next_serial and pdna_bank_serial_resync.                      *)
(***************************************************************************)
\* The operations that ask for a serial start with a load, whatever it
\* returns.
Ask(j, m) ==
  /\ Ready /\ Room /\ Enter(j, "load")
  /\ pack' = [mon |-> m, serial |-> 0] /\ checked' = FALSE

Allocate ==
  /\ pc = "idle" /\ at = "next" /\ at' = "save"
  /\ prev' = serial /\ serial' = serial + 1
  /\ UNCHANGED <<vars, job, open, state, fromBak, trusted, scanned, dropVars,
                 bankVars, rots, marks>>

\* The counter is on the card before the serial is used.
HandOut ==
  /\ job \in {"lift", "relift", "dup", "restore"} /\ Kept
  /\ issued' = issued \cup {serial} /\ UNCHANGED behind
  /\ pack' = [pack EXCEPT !.serial = serial]

\* What a scan of the boxes sees; a box that cannot be read is skipped.
Sights == IF ScanFails THEN SUBSET cells ELSE {cells}
Top(sight) == Max({c.serial : c \in sight} \cup {0})
Raise(sight) == prev' = serial /\ serial' = Top(sight) + 1
                  /\ UNCHANGED <<state, fromBak, trusted>>

-----------------------------------------------------------------------------
(***************************************************************************)
(* A Game Boy Pokemon is dropped on a Bank cell (drop_held_up).            *)
(***************************************************************************)
Lift(m) ==
  /\ open /\ Cardinality(cells) < MaxCells /\ Ask("lift", m)
  /\ UNCHANGED <<vars, open, ramVars, scanned, seen, bankVars, rots, marks>>

LiftedMutant ==   \* an ordinary card never scans
  /\ job = "lift" /\ HandOut
  /\ \/ /\ at' = IF ~trusted THEN "scan" ELSE "land"
        /\ UNCHANGED job
     \/ Back
  /\ UNCHANGED <<vars, open, ramVars, scanned, seen, checked, bankVars, rots>>
Lifted ==
  /\ job = "lift" /\ HandOut
  /\ \/ /\ at' = IF ~trusted \/ ~scanned THEN "scan" ELSE "land"
        /\ UNCHANGED job
     \/ Back   \* the snapshot before the first native cell is refused
  /\ UNCHANGED <<vars, open, ramVars, scanned, seen, checked, bankVars, rots>>

\* No serial, no cell.
NoSerial ==
  /\ job \in {"lift", "restore", "dup"} /\ Refused /\ Undo /\ Back
  /\ UNCHANGED <<vars, open, scanned, dropVars, bankVars, rots, marks>>

\* One pass over the boxes finds the highest serial and a clash; a counter
\* that is not past that serial is raised and the cell packed again.
Scan ==
  /\ pc = "idle" /\ at = "scan" /\ checked' = TRUE /\ seen' \in Sights
  /\ IF serial > Top(seen') THEN at' = "land" /\ UNCHANGED <<job, ramVars>>
     ELSE Enter("resync", "save") /\ Raise(seen')
  /\ UNCHANGED <<vars, open, scanned, pack, bankVars, rots, marks>>

Resynced ==
  /\ job = "resync"
  /\ \/ Kept /\ Enter("relift", "load") /\ UNCHANGED <<ramVars, behind>>
     \/ Refused /\ Enter("lift", "land") /\ Undo /\ behind' = TRUE
  /\ UNCHANGED <<vars, open, scanned, dropVars, bankVars, rots, issued>>

Relifted ==
  /\ job = "relift" /\ Enter("lift", "land")
  /\ \/ HandOut /\ seen' \in Sights /\ UNCHANGED ramVars
     \/ Refused /\ Undo /\ UNCHANGED <<pack, seen, marks>>
  /\ UNCHANGED <<vars, open, scanned, checked, bankVars, rots>>

\* A clash the scan saw refuses the drop; a scan under a trusted counter is
\* the last of the session.  The commit of the box, which may fail, ends
\* with a save of the names.
Clash == checked /\ pack \in seen
Land ==
  /\ pc = "idle" /\ at = "land"
  /\ \/ job = "lift" /\ Clash /\ Back /\ UNCHANGED <<scanned, bankVars>>
     \/ /\ job = "lift" /\ ~Clash /\ Enter("names", "save")
        /\ scanned' = (scanned \/ (checked /\ trusted))
        /\ \/ cells' = cells \cup {pack} /\ boxed' = TRUE
           \/ UNCHANGED bankVars
     \/ /\ job \in {"dup", "restore"} /\ Back /\ UNCHANGED scanned
        /\ \/ cells' = cells \cup {pack} /\ boxed' = TRUE
           \/ UNCHANGED bankVars
  /\ UNCHANGED <<vars, open, ramVars, dropVars, rots, marks>>

-----------------------------------------------------------------------------
(***************************************************************************)
(* The other ways a native cell gets into a box, and out of it.            *)
(***************************************************************************)
\* DUPLICATE (dup_restamp_native): the counter is raised past the stored
\* serials first, whether or not that can be saved, and a serial that is
\* not past them is not used.
Duplicate(c) ==
  /\ Ready /\ open /\ Room /\ Cardinality(cells) < MaxCells
  /\ pack' = [c EXCEPT !.serial = 0] /\ seen' \in Sights /\ checked' = FALSE
  /\ IF serial > Top(seen') THEN Enter("dup", "load") /\ UNCHANGED ramVars
     ELSE Enter("dupsync", "save") /\ Raise(seen')
  /\ UNCHANGED <<vars, open, scanned, bankVars, rots, marks>>

DupSynced ==
  /\ job = "dupsync" /\ Enter("dup", "load")
  /\ \/ Kept /\ UNCHANGED ramVars
     \/ Refused /\ Undo
  /\ UNCHANGED <<vars, open, scanned, dropVars, bankVars, rots, marks>>

DupStamped ==
  /\ job = "dup" /\ HandOut
  /\ IF serial > Top(seen) THEN at' = "land" /\ UNCHANGED job ELSE Back
  /\ UNCHANGED <<vars, open, ramVars, scanned, seen, checked, bankVars, rots>>

\* RESTORE TO BANK on the TRANSFERS screen: a Pokemon that no cell holds.
Restore(m) ==
  /\ Cardinality(cells) < MaxCells /\ \A c \in cells : c.mon # m
  /\ Ask("restore", m) /\ open' = FALSE
  /\ UNCHANGED <<vars, ramVars, scanned, seen, bankVars, rots, marks>>

Restored ==
  /\ job = "restore" /\ HandOut /\ at' = "land"
  /\ UNCHANGED <<vars, job, open, ramVars, scanned, seen, checked, bankVars, rots>>

\* A cell is released or taken down to a game.
Release(c) ==
  /\ Ready /\ open /\ cells' = cells \ {c}
  /\ UNCHANGED <<vars, at, job, open, ramVars, scanned, dropVars, boxed, rots, marks>>

-----------------------------------------------------------------------------
\* The power goes: nothing of the session is left.
Forget ==
  /\ at' = "user" /\ job' = "none" /\ open' = FALSE
  /\ serial' = 0 /\ prev' = 0 /\ state' = "unknown"
  /\ fromBak' = FALSE /\ trusted' = FALSE /\ scanned' = FALSE
  /\ pack' = [pack EXCEPT !.serial = 0] /\ seen' = {} /\ checked' = FALSE
  /\ behind' = FALSE /\ UNCHANGED <<bankVars, rots, issued>>

CutBetween ==
  /\ pc = "idle" /\ at # "user" /\ pc' = "off" /\ Mishap({"cut"})
  /\ UNCHANGED <<card, caller, img, slot, verdict, where, history>>

MetaPowerCut == (PowerCut \/ CutBetween \/ (at = "user" /\ PowerOff)) /\ Forget

\* With the power off the card may lose a file: it is there, and no longer
\* reads as one.
Rot(f) ==
  /\ pc = "off" /\ Whole(f) /\ rots[f] < MaxRots
  /\ rots' = [rots EXCEPT ![f] = @ + 1] /\ card' = [card EXCEPT ![f] = Short]
  /\ UNCHANGED <<pc, caller, img, slot, verdict, where, mishaps, history, at, job,
                 open, ramVars, scanned, dropVars, bankVars, marks>>

MetaPowerOn ==
  /\ pc = "off" /\ pc' = "idle" /\ verdict' = "none" /\ where' = "none"
  /\ UNCHANGED <<card, caller, img, slot, mishaps, history, metaVars>>

Loading == LoadMeta \/ HealUnlink \/ HealRename \/ HealCheck
Working ==
  \/ SaveStep /\ UNCHANGED metaVars
  \/ UnlinkBad \/ WriteMeta \/ FirstSaved \/ Shown \/ NamesSaved \/ Allocate
  \/ Lifted \/ NoSerial \/ Scan \/ Resynced \/ Relifted \/ Land
  \/ DupSynced \/ DupStamped \/ Restored
User ==
  \/ OpenBank \/ GiveNames
  \/ \E m \in Mons : Lift(m) \/ Restore(m)
  \/ \E c \in cells : Duplicate(c) \/ Release(c)
Power == MetaPowerCut \/ MetaPowerOn \/ (\E f \in RotNames : Rot(f))

MetaNext == Loading \/ Working \/ User \/ Power

MetaSpec == MetaInit /\ [][MetaNext]_allVars

-----------------------------------------------------------------------------
(***************************************************************************)
(* Properties.                                                             *)
(***************************************************************************)
NoRot == \A f \in RotNames : rots[f] = 0

CounterAhead ==
  NoRot /\ issued # {} => Source # "none" /\ card[Source] >= Max(issued)

\* Unless a file went bad, what a restart would read is, at every instant,
\* at or past every serial that was handed out: the counter is never rolled
\* back by a read error, a failed save, a cut or a heal, and so no serial is
\* handed out twice.  What the session knows of the file is consistent.
SerialsSafe == MetaTypeOK /\ CounterAhead

\* Recovery is not single-shot.  What a load took, or a save that was
\* reported as good wrote, is what a restart reads again or something newer:
\* while bank.meta or its .bak is whole, or the .tmp is being put in its
\* place, no step of the program ends that, whatever went bad before.
Held == acked # Absent => Source # "none" /\ card[Source] >= acked
NeverBack ==
  [][Held /\ (Source \in {Sav, Bak} \/ at \in {"healUnlink", "healRename"})
     /\ rots' = rots => Held']_allVars

\* No two cells of the Bank get one identity, also after the counter was
\* rolled back or lost.  A session that found the counter behind and could
\* not save the raised one is out: there the code lands the Pokemon, takes
\* the scan for done all the same and hands out serials that cells hold.
IdentsUnique == at = "land" /\ ~(job = "lift" /\ Clash) /\ ~behind => pack \notin cells
=============================================================================
