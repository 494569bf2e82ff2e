------------------------------ MODULE Gen3Slots ------------------------------
(***************************************************************************)
(* Which of its two slots a Gen-3 save is read from and edited in          *)
(* (source/gen3_save.c, with the staging of source/img_stage.c and the     *)
(* edit lock of source/pdna_main.c).  The game writes the slots in turn,   *)
(* sector by sector in a rotated order, and may be cut; a dump may be      *)
(* damaged, or have the head of another save over it.  The editor has to   *)
(* show, and to edit, the slot the game is going to load.                  *)
(*                                                                         *)
(* A sector is its section's id, the save's counter and whether its        *)
(* checksum fits.  The game is modelled as gen3_save.c describes it.       *)
(***************************************************************************)
EXTENDS Integers, FiniteSets, FiniteSetsExt

CONSTANTS
  N,          \* sectors of a slot
  Exempt,     \* sections whose data size the parser does not know
  Need,       \* sections without which nothing is shown: SaveBlock2 and 1
  Damage,     \* what may happen to a dump: see below
  MaxCounter, \* bound: saves of the game
  MaxDamage   \* bound: damages

ASSUME SlotsAssumption ==
  /\ N \in Nat \ {0} /\ {MaxCounter, MaxDamage} \subseteq Nat
  /\ Exempt \subseteq 0 .. N - 1 /\ Need \subseteq 0 .. N - 1
  /\ Damage \subseteq {"sum", "sign", "splice"}

VARIABLES
  file,     \* the .sav: slot -> position -> sector
  game,     \* the game's save under way: its slot, rotation, counter, sectors written
  ram,      \* g_save
  view,     \* g_vinfo: the slot shown, whether editing is locked
  last,     \* history: the slot of the last save the game finished
  damages   \* how often the dump was damaged

vars == <<file, game, ram, view, last, damages>>

SlotNos == {0, 1}
Ids == 0 .. N - 1
Blank == [id |-> N, ctr |-> 0, sum |-> FALSE]   \* no signature
Sectors == [id : Ids, ctr : 0 .. MaxCounter + 1, sum : BOOLEAN] \cup {Blank}
Sector(i, c) == [id |-> i, ctr |-> c, sum |-> TRUE]
Signed(s) == s # Blank
Other(k) == 1 - k

\* A slot as the game writes it: section i at the position (i + r) % N.
At(i, r) == (i + r) % N
Written(r, c) == [p \in Ids |-> Sector((p - r + N) % N, c)]

-----------------------------------------------------------------------------
\* The parser.

\* gen3_find_section: the first signed sector of that id, or -1.
Find(slot, i) ==
  LET hits == {p \in Ids : slot[p].id = i} IN IF hits = {} THEN -1 ELSE Min(hits)

\* The counter of the first signed sector.
IsValid(slot) == \E p \in Ids : Signed(slot[p])
Counter(slot) == slot[Min({p \in Ids : Signed(slot[p])})].ctr

AllIds(slot) == {slot[p].id : p \in Ids} = Ids

\* gen3_slot_consistent: one coherent write.
Consistent(slot) == AllIds(slot) /\ \A p \in Ids : slot[p].ctr = slot[0].ctr

\* slot_game_ok: the game's own test, without the checksums of unknown size,
\* or with them.
GameOk(slot, strict) ==
  AllIds(slot) /\ \A p \in Ids : slot[p].id \notin Exempt \/ strict => slot[p].sum
LastCounter(slot) == slot[N - 1].ctr

\* gen3_parse_into: the newer slot, but the only coherent one of two.
ByCounterMutant(img) == 0   \* the first slot that is there
ByCounter(img) ==
  IF IsValid(img[0]) /\ IsValid(img[1])
  THEN IF Counter(img[1]) > Counter(img[0]) THEN 1 ELSE 0
  ELSE IF IsValid(img[0]) THEN 0 ELSE 1
Shown(img) ==
  IF IsValid(img[0]) /\ IsValid(img[1]) /\ Consistent(img[0]) # Consistent(img[1])
  THEN IF Consistent(img[0]) THEN 0 ELSE 1
  ELSE ByCounter(img)

\* The game may load the slot that is not shown: the save is locked.
GameLoadsOtherMutant(img) ==   \* the shown slot is tested leniently as well
  LET us == img[Shown(img)]
      them == img[Other(Shown(img))]
  IN  /\ GameOk(them, FALSE)
      /\ ~GameOk(us, FALSE) \/ LastCounter(them) >= LastCounter(us)
GameLoadsOther(img) ==
  LET us == img[Shown(img)]
      them == img[Other(Shown(img))]
  IN  /\ GameOk(them, FALSE)
      /\ ~GameOk(us, TRUE) \/ LastCounter(them) >= LastCounter(us)

-----------------------------------------------------------------------------
\* The game.

\* Which slots it may load: the accepted one with the higher counter in its
\* last sector (either of them when they tie).
Accepts(slot) == AllIds(slot) /\ \A p \in Ids : slot[p].sum
MayLoad(img) ==
  {k \in SlotNos : /\ Accepts(img[k])
                   /\ Accepts(img[Other(k)]) => LastCounter(img[k]) >= LastCounter(img[Other(k)])}

NoGame == [on |-> FALSE]
NoView == [open |-> FALSE]
Closed == view = NoView /\ game = NoGame

SlotsInit ==
  /\ file = [k \in SlotNos |-> [p \in Ids |-> Blank]] /\ ram = file
  /\ game = NoGame /\ view = NoView /\ last = -1 /\ damages = 0

\* It starts a save: a new counter, a rotation one further, the slots in turn.
GameSaves ==
  /\ Closed
  /\ \E k \in IF MayLoad(file) = {} THEN {-1} ELSE MayLoad(file), p \in Ids :
       LET c == IF k = -1 THEN 0 ELSE LastCounter(file[k])
       IN  /\ IF k = -1 THEN p = 0 ELSE file[k][p].id = 0
           /\ c < MaxCounter
           /\ game' = [on |-> TRUE, slot |-> (c + 1) % 2, rot |-> (p + 1) % N,
                       ctr |-> c + 1, n |-> 0]
  /\ UNCHANGED <<file, ram, view, last, damages>>

GameWrites ==
  /\ game.on
  /\ file' = [file EXCEPT ![game.slot][At(game.n, game.rot)] = Sector(game.n, game.ctr)]
  /\ IF game.n = N - 1 THEN game' = NoGame /\ last' = game.slot
     ELSE game' = [game EXCEPT !.n = @ + 1] /\ UNCHANGED last
  /\ UNCHANGED <<ram, view, damages>>

\* The power goes: the sector under way is as it was, or erased.
GameCut ==
  /\ game.on /\ game' = NoGame
  /\ \E s \in {file[game.slot][At(game.n, game.rot)], Blank} :
       file' = [file EXCEPT ![game.slot][At(game.n, game.rot)] = s]
  /\ UNCHANGED <<ram, view, last, damages>>

\* The dump is damaged: a byte of a sector, its footer, or the head of another
\* save over it (what a build before #353 wrote: slot A and the first sectors
\* of slot B).
Damaged ==
  /\ Closed /\ damages < MaxDamage /\ damages' = damages + 1
  /\ \/ /\ "sum" \in Damage
        /\ \E k \in SlotNos, p \in Ids :
             Signed(file[k][p]) /\ file' = [file EXCEPT ![k][p].sum = FALSE]
     \/ /\ "sign" \in Damage
        /\ \E k \in SlotNos, p \in Ids : file' = [file EXCEPT ![k][p] = Blank]
     \/ /\ "splice" \in Damage
        /\ \E c \in 1 .. MaxCounter, r \in Ids :
             \E b \in {Written((r + 1) % N, c + 1)[0], Written((r - 1 + N) % N, c - 1)[0]} :
               file' = [file EXCEPT ![0] = Written(r, c), ![1][0] = b]
  /\ UNCHANGED <<game, ram, view, last>>

-----------------------------------------------------------------------------
\* The editor.

\* view_save: shown only with SaveBlock2 and SaveBlock1 whole.
OpenMutant ==   \* SaveBlock1 is not asked for
  /\ Closed /\ \E k \in SlotNos : IsValid(file[k])
  /\ Find(file[Shown(file)], 0) >= 0
  /\ ram' = file
  /\ view' = [open |-> TRUE, slot |-> Shown(file), locked |-> GameLoadsOther(file)]
  /\ UNCHANGED <<file, game, last, damages>>
Open ==
  /\ Closed /\ \E k \in SlotNos : IsValid(file[k])
  /\ \A i \in Need : Find(file[Shown(file)], i) >= 0
  /\ ram' = file
  /\ view' = [open |-> TRUE, slot |-> Shown(file), locked |-> GameLoadsOther(file)]
  /\ UNCHANGED <<file, game, last, damages>>

\* stage_now: an edited block is written to the shown slot, each section with a
\* new checksum (also when only that was stale); a section the slot does not
\* have is passed over.
Stage ==
  /\ view.open /\ ~view.locked
  /\ \E edited \in SUBSET Ids :
       LET here == {p \in Ids : ram[view.slot][p].id \in edited
                                /\ Find(ram[view.slot], ram[view.slot][p].id) = p}
       IN  ram' = [ram EXCEPT ![view.slot] =
                     [p \in Ids |-> IF p \in here THEN [@[p] EXCEPT !.sum = TRUE] ELSE @[p]]]
  /\ UNCHANGED <<file, game, view, last, damages>>

\* app_save_finalize: the whole image.
Save ==
  /\ view.open /\ ~view.locked
  /\ file' = ram
  /\ UNCHANGED <<game, ram, view, last, damages>>

Close ==
  /\ view.open /\ view' = NoView /\ ram' = file
  /\ UNCHANGED <<file, game, last, damages>>

SlotsNext ==
  \/ GameSaves \/ GameWrites \/ GameCut \/ Damaged
  \/ Open \/ Stage \/ Save \/ Close

SlotsSpec == SlotsInit /\ [][SlotsNext]_vars

-----------------------------------------------------------------------------
\* Types; and what is shown is there, also after edits.
SlotsTypeOK ==
  /\ {file, ram} \subseteq [SlotNos -> [Ids -> Sectors]]
  /\ last \in SlotNos \cup {-1} /\ damages \in 0 .. MaxDamage
  /\ game \in {NoGame} \cup [on : {TRUE}, slot : SlotNos, rot : Ids,
                             ctr : 1 .. MaxCounter, n : Ids]
  /\ view \in {NoView} \cup [open : {TRUE}, slot : SlotNos, locked : BOOLEAN]
  /\ view.open => \A i \in Need : Find(ram[view.slot], i) >= 0

\* Nobody edits a slot that the game is not going to load: while a save can be
\* edited, and after every edit and every write of it, the game loads the slot
\* shown, or no slot at all.  (gen3_save.c, #361 and #363.)
EditsReachGame ==
  view.open /\ ~view.locked => MayLoad(ram) \cup MayLoad(file) \subseteq {view.slot}

\* With a dump that nobody damaged, the last save the game finished is what is
\* shown, and it can be edited, wherever the power was cut in later saves.
LastSaveShown ==
  view.open /\ damages = 0 /\ last # -1 => view.slot = last /\ ~view.locked
=============================================================================
