# A verification project for PokeDNA

PokeDNA is a save editor for Pokémon games that runs on a Game Boy Advance flash
cartridge. It edits the user's `.sav` files and keeps a Bank of Pokémon on the
same SD card. There is one program on one core, no operating system and no
second thread. What makes it hard is the card: a write has no retry and no
read-back in the driver, a call can fail or silently do nothing, the power can
go at any moment, and one user action is often two writes of two files.

The modules here model what the program does to the card and to the buffers it
saves from, and say what the user can rely on. Line numbers are of `source/`.

## Inventory

| component | state it keeps | operations | what is hard | what makes it correct |
|---|---|---|---|---|
| Verified write and backups (`savefile.c`) | files `<x>`, `<x>.tmp`, `<x>.bak`..`.bak20`, `<x>.baktmp` | `sf_write_verified`, its streamed twin, `sf_backup`, `sf_backup_rolling`, `sf_save_rolling(_ok)`, `sf_where_are_the_bytes`, `sf_clear_backups` | errors, swallowed calls and cuts between any two FatFs calls; retries over what an earlier failure left | a whole fresh copy at every instant; verdicts that are so; the file is only swapped for a verified scratch |
| Save commit (`pdna_main.c` `app_save_finalize`, `pdna_gen12.c` `gb_persist`) | the image in RAM, the backup mode | backup, write, triage of an unconfirmed rename | a save that failed may have landed | as above, per caller |
| Bank box file (`pdna_bank.c` `box_load`, `box_save`; `bank_layout.c`) | one file per box, one buffer `g_bankbuf` with `g_loaded`, `g_dirty`, `g_box_unread` | page in, recover and heal, edit, save | a file that is gone in an interrupted swap; a buffer that only looks like an empty box | the file behaves as a durable store; nothing is written from a buffer that was not read |
| Carry and deferred deletions (`pdna_box.c`, `pdna_bank.c`, `pdna_main.c`) | the hand (`s_held` and its origin), `g_pc`, `g_bank_del` | pick, drop, swap, cancel, flip pages, leave, save, exit, flush the deletions | two files, the second write much later; cells hidden while they wait; deletions carried out after a rearrangement | no Pokémon is lost, bystanders stay, no duplicate when all goes well |
| Journal on the card (`journal.c`, `journal_fs.c`, `jrn_app.c`) | a ring of preallocated slot files, the tail, the pending records | open and repair, record, take back, flush back to front, chains, prepare and compact, clear | a cut or a lost write anywhere in a batch, a cut in the repair itself, a header rewritten in place | a batch is there as a whole or not at all; the session writes where a reopen would look |
| Undo history (`journal_undo.c`, `jrn_app.c`, the calls of `pdna_box.c` and `pdna_main.c`) | a tree of steps, the cursor, the saved point, the anchor by hash | open, move, swap, cross to another file, undo, redo, offer, save, discard | a journal ahead of or behind the save it describes; half of a swap; a step that cannot be recorded | the cursor is the step that made the image; no half swap, no clone, no declined step |
| Transfer ledger (`gb_sidecar.c`, `xfer_*.c`, `pdna_gen12.c`) | one entry per transfer between generations | drop, promote, re-roll, way home, TRANSFERS: classify and apply | which half of a two-file transfer happened; keys that change with a re-roll | nothing is lost, a duplicate is on record, RESTORE never clones |
| Game Boy session (`gb_session.c`, `pdna_gen12.c`) | the image, its baseline, the lists and their checksums, the held flag | moves, releases, pages, crossings, commit, roll back, persist, exit | refusals at any of several gates; a declined edit left behind in the image; two files | the image is what the user was told; the exit asks when it should; each Pokémon is there, once |
| Gen-3 container (`gen3_save.c`, `img_stage.c`) | two slots of 14 rotated sections | pick the slot, lock, read and write sections | a cut game save, damaged sections, a spliced dump | who may edit, edits the slot the game will load |
| Bank layout and serials (`bank.meta`: `pdna_bank.c`, `bank_layout.c`; `bank_collision.c`, `drop_held_up`, `dup_restamp_native`) | names and wallpapers of the boxes, the serial counter `g_bank_serial`, what is known of it (`g_meta_state`, `g_meta_from_bak`, `g_serial_trusted`, `s_up_scan_done`) | load, heal, save, hand out a serial, resync it with the boxes, scan for a clash | a bad primary as a further case; a counter that is rolled back with its backup; a refusal that must end | no serial twice, no identity twice, a heal never costs the last good copy |
| Codecs, conversion, screens, drivers | none that lasts | – | – | unit-tested, not modelled |

The parts meet in files and buffers. The box screen works on a `BoxSource`, a
table of callbacks that the PC, the Bank and the Game Boy mounts implement; for
the Bank a call as innocent as `records(box)` may save one box and load
another into the only buffer. The exit of a save runs `app_commit_pc`, then the
promotion of the ledger, then the flush of the deletions, each only after the
one before was confirmed. The journal is flushed at every rest of a screen and
before the image it describes is written, and is tied to that image by a hash
when it is opened again.

## Modules

**`SaveFile`** models `savefile.c` at the level of FatFs calls, one action per
call. `card` maps each name to what it holds: one of `Images`, `Absent`,
`Short` (not the full size) or `Garbled` (the full size, other bytes); two
images and two kinds of damage are all the code can tell apart, because it only
compares sizes and bytes. `pc` names the call the save is about to make,
`caller` the save path: what the paths do before the write is in `FirstStep`,
what they make of an unconfirmed rename in `Lenient` and `Unconfirmed`. Mishaps
are of four kinds: a read that fails, a change that reports an error (and may
have taken effect), a change that reports success and has no effect, and a
power cut (which leaves the file being written short). Histories `acked` and
`tried` hold what the user was last told is saved and what they have asked to
save since. `Clear backups`, the user's repair on a PC and reopening are in.

FatFs itself is vendored and modelled as the calls that `savefile.c` makes see
it: a rename moves an entry or does not. The middle of a rename (two directory
sectors) and cluster chains shared after a cut are below this model.

**`DurableStore`** is the abstract specification of a saved file: a restart
brings back what the user was last told, or something they asked to save since.

**`BankBox`** extends `SaveFile` with the Bank's use of it: the page-in with its
classification of primary, `.tmp` and `.bak`, the two heals, the edit, the save
through `sf_save_rolling_ok`, and leaving. `Recovered` is what a page-in would
bring back; it is the refinement mapping to `DurableStore`.

**`BankMove`** stands on what `BankBox` and `SaveFile` establish: a file write is
one step that is confirmed, or fails and has or has not landed. It models the
carry (`hand`), the shared buffer (`buf`, `loaded`, `dirty`, `unread`), the box
on screen (`page`, which can differ from `loaded`), the PC in RAM and on the
card, the queue of deletions and its flush one entry at a time, the exit with
its two answers, and power cuts. A Pokémon is told apart by its 8 identity
bytes, so a model value. `clear_origin` is three steps (`ClearOrigin`,
`WipeOrigin`, `PageBack`) because each pages a box in, which may fail.

**`DurableLog`** is the abstract specification of a journal: a log of numbered
steps, of which each batch gets on the card as a whole or not at all and behind all
that is there; what was acknowledged stays, and only the oldest end is given up
(`Forget`), unless the user clears it all (`Clear`, cut short `ClearPart`). `Keep` is all
that gives up nothing; `KeepsToItsPart` of `Journal` says which of its steps may be which.

**`Journal`** models the ring on the card. `hdr`, `ver` and `body` are the slot
files: the header (no file, free, or the index of a live segment), its format
version and its row of cells. `Scan` and `Recovered` are what `jrn_open` makes of
a card: the longest run of whole records, chains without a hole, on into the
next segment while that one's first record continues the sequence. A flush is
`Flush` (the plan), one `WriteNext` per record, last record first, and
`Verified` or `Unverified` (the read-back); a chain is `Chain` with the same
writes. Preparing a spare retires the oldest segments and activates the next;
`Open` zeroes a window behind the tail and at the head of the segments behind
it. A write can fail (cell old, torn or written; recording stops), be lost
without notice, or be cut, as can a repair, a retirement, a header rewrite and
a clear. A record fills one cell here; the tail window, the segment's size and
the pending buffer are counted in cells.

**`History`** models the tree over that log, for one Gen-3 session. The journal is
`disk`, a sequence of records that a flush extends, plus the pending ones in `j`; a step
keeps its parent, what every slot held before and after, its swap group name and whether
it crossed to another file; markers say where the cursor went. `image` is the PC in RAM,
`hand` the Pokémon carried, `sav` the file. `Move`, `Swap`, `Place` and `Cross` are the
box operations, `Undo` and `Redo` the chords with their whole swap groups and the floor
below which no crossing is taken back, the offer at load with its two answers, saves,
discards, flushes that fail and cuts are actions.

**`Xfer`** follows one Game Boy Pokémon that is abroad in a Gen-3 save. `bank`
counts the Bank cells that hold it in each native shape or under each Gen-3 key,
`pc` and `card` its copies in the save in RAM and on the card, `ledger` the state
of the entry in the file of each key, `queue` the deferred deletions, `job` the
handler that runs between two writes. The drop, the commits, the promotion, a
re-roll (which moves the entry to another key), the way home with its merge,
and every verdict and answer of the TRANSFERS screen for such entries are
actions; each write lands or not, and is confirmed only when it landed.

**`Gen3Slots`** models the parser's choice of slot and the edit lock against the
game's own load and save. A sector is its id, the counter and whether its
checksum fits. The game writes a slot sector by sector in a rotated order and can
be cut at any one; a dump can have a checksum, a signature or a sector of another
save in place of its own. The game is modelled as `gen3_save.c` describes it.

**`GbSession`** models the session over a resident Game Boy save: the image, the
baseline that a roll-back copies from, the file, the Bank cells, the held flag
(the journal records) and the dirty flag. `pc` steps through the grid, a lifted
Pokémon, a confirmation, a write and the consumption of the other half. A box is
a list, and pages (Pokédex, fly destinations, bag) are bits of the image. A box
whose list the engine does not accept refuses every commit.

**`BankMeta`** extends `SaveFile` with `bank.meta`, which `meta_save` writes through
`sf_save_rolling`, and the serials of native cells. What the file holds is
abstracted to its counter, an image in `0..MaxSerial`; default names come with a
counter of 0. `Source` is the file `bml_meta_read` takes, `LoadMeta` makes of it what
`meta_load` does, `HealUnlink`, `HealRename` and `HealCheck` are
`bml_meta_heal_tmp`, `UnlinkBad` and `WriteMeta` are `meta_save`. `at` says where the
Bank's code is and `job` for whom: the first run, the opening, a save of the names
(also the end of every commit of a box), a drop from a Game Boy save with its scan,
resync and repack (`Lift` to `Land`), DUPLICATE, and RESTORE TO BANK. A cell is a
Pokémon and a serial, which is what its 32-bit identity hashes. While the power is
off, a file named in `RotNames` can stop reading as one, at most `MaxRots` times
each; `ScanFails` lets boxes be unreadable in a scan.

`SaveFileProofs`, `BankBoxProofs`, `BankMoveProofs`, `XferProofs`, `Gen3SlotsProofs`,
`GbSessionProofs`, `BankMetaProofs` and `JournalProofs` hold the theorems. `MCSaveFile`,
`MCBankBox`, `MCBankMove`, `MCJournal`, `MCHistory`, `MCXfer`, `MCGen3Slots`,
`MCGbSession` and `MCBankMeta` instantiate the modules for TLC.

Which module composes which: `BankBox` and `BankMeta` extend `SaveFile`, and
`BankBox` refines `DurableStore`; `BankMove`, `Xfer` and `GbSession` take a file write as the one
step that `SaveFile` shows it to be; `Journal` refines `DurableLog`, and `History`
takes the log of `DurableLog` as its `disk`.

## What the runs check

| run | question | bounds | result |
|---|---|---|---|
| `save` | do the paths that back up keep a copy, report truly, guard the swap, and get a save through in the end? | the callers `all`, `rolling`, `gb` and `box`, 2 images, 2 backup names, 4 mishaps of all kinds | holds |
| `box` | is a box file a durable store, are clean buffers saved, phantoms never written, boxes never locked for good? | 2 images, read and write errors and cuts, 4 mishaps | holds |
| `move` | can a carry lose or duplicate a Pokémon? | 2 Pokémon, 2 boxes of 2 cells, 1 PC cell, 2 deletions, 2 card errors | holds |
| `move_swaps` | do bystanders stay, with drops on taken cells too? | 3 Pokémon, 1 card error | holds |
| `journal` | is the journal a durable log, with only a clear that clears and only retention that forgets; does a step taken back stay away; do session and reopen agree on the tail; do records get on the card? | ring of 2 slots of 3 cells, retention of 1 segment, 2 pending records, chains of 2, window of 2, segments up to 3, 4 steps, 2 mishaps | holds |
| `journal_orphan` | does a step taken back stay away when the read-back meets a read error? | the same with 1 mishap, which may be that one | it comes back |
| `history` | does the cursor tell the image; are all Pokémon there, but for a half swap that was announced; does the offer restore what was recorded and nothing that was declined; does nothing come back twice? | 3 slots, 2 Pokémon, 2 pending records, record numbers up to 3 for steps (4 for the one that ends a carry, 5 for chords, and 3 more while a press has left half a swap), 1 mishap | holds |
| `xfer` | is the Pokémon ever lost, cloned by RESTORE, twice without a record, or claimed without proof? | 2 copies of a shape in a place, 7 moves, 2 mishaps | holds |
| `xfer_declined` | is a duplicate on record when the changes are thrown away after the copy was parked in the Bank? | 5 moves, no mishap | it is not |
| `slots` | does the game load the slot that is edited; is the last finished save shown? | 3 sectors, 1 of unknown size, 2 needed, 3 game saves, 2 damages | holds |
| `gb` | is the image what the user was told, does the exit ask, is each Pokémon there, once? | 3 Pokémon, a party of 2, a box of 1, a box no commit is accepted for, 3 pages, 5 moves, 2 mishaps | holds |
| `meta` | is the counter on the card past every serial handed out; does every recovery keep a copy to recover from; do identities stay unique when the counter is rolled back? | 2 Pokémon, 2 cells, serials to 5, the file and its `.bak` go bad once each, 2 mishaps (reads, writes, cuts), symmetry of the Pokémon | holds |

Why the bounds are enough. Two images tell old from new, and every comparison
in `savefile.c` is between the image in hand and a file. Two backup names give
a full shelf, a free name and a hole. Four mishaps exceed what any one save
path has in error branches between two points where the card is consistent
again. In `BankMove` two boxes are needed for paging, two cells for a
rearrangement, one PC cell for the boundary, two deletions for a partly failed
flush and for a full queue. A third Pokémon is needed only where a swap
displaces one while another waits in a hidden cell.

In `Journal` two slots are the smallest ring the code builds; three segments over it
make a slot be retired and used again, so that old content lies under a new header.
Three cells give a batch that ends before, at and behind the end of a segment, and a
chain that fits or not. Two mishaps allow a cut in the repair of what a first one left.
`History` needs three slots for a move next to a swap, and two Pokémon for one that
displaces the other; three steps make a branch behind an undo, and three swaps with the
step that puts the last Pokémon down make a chain of four, one more than a press of the
chord takes (`JA_GROUP_MAX`): it is undone in parts, down to the base and up again,
saved, discarded, cut and offered half way. In `Xfer` seven moves reach a re-roll
abroad, a return and a screen of TRANSFERS in one behaviour; two copies are the clone
that must not be. In `Gen3Slots` three sectors are a first, a middle and a last one (the
counters the code reads are those of the first and of the last), and three game saves
write either slot over an older save. In `GbSession` the party of two is at its lower
limit after one departure, the box of one is full after one arrival. In `BankMeta` an
operation starts only when three more serials fit under `MaxSerial`, the most a drop can
use; two cells are an older one and the one that could get its identity, and a cut, a
refused save and a bad file are within the mishaps and `MaxRots` together.
`CounterAhead` only speaks of behaviours in which no file went bad, because with one the
counter can go back; what holds then is `NeverBack` and `IdentsUnique`. Which Pokémon is
which makes no difference to the model, so `meta` uses their symmetry.

The callers that write with nothing backed up (`skip`, `stream`, `heal` alone) are
not in a run: what holds on them is what the theorems say of all callers
(`TypeCorrect`, `ReportsAreTrue`, `SwapsAreGuarded`). `CopySurvives` does not hold on
them, and does not mean to.

`move` leaves drops on taken cells out (`Swaps = FALSE`): the Pokémon such a
drop displaces is only in RAM from the next page flip on, which the code calls
it (pdna_box.c:2092), so `NoMonLost` is not promised there. `move_swaps` checks
what is. The bound of two card errors in `move`, and of one in `move_swaps`, is
part of their results: see the three failed saves below.

`CHECK_DEADLOCK FALSE` is used where what the user does is bounded and the model
ends with it (`journal`, `history`, `xfer`, `slots`, `gb` and the two variants of
them).

`BankBox` is checked without swallowed writes: with them a full-size `.tmp` that
no compare passed can be adopted (see below), so the file is no durable store.

## Fairness

`save` assumes that the program takes its next step (one core, no blocking
calls), that the user keeps asking for saves, and that a user whose file is gone
takes the card out, repairs it and opens it again. `box` assumes the same of the
Bank: a user who opens the box again when it could not be read, edits and saves.
Asking and opening get strong fairness, because a mishap can interrupt them
again and again. `journal` assumes that a write once begun runs on to its
read-back, and that the session flushes and prepares a spare again and again: the
code does both at every rest of a screen. Its promise, `RecordsGetThrough`, lets a
journal off that has stopped, is off, or can have no spare (the ring is not whole
or the index space is spent), since all of these are states the session knows it
is in. Mishaps are finite and
never obliged to happen. Nothing is assumed about
the order or the outcome of single calls. `history`, `xfer`, `slots`, `gb`
and `meta` check no liveness: they only move when the user or the game does.

## What is proved

`SaveFileProofs` proves for all constants that satisfy the module's assumptions
(any non-empty set of images, any shelf of distinct names, any callers, any
kinds and number of mishaps):

- `TypeCorrect`: `Spec => []TypeOK`.
- `ReportsAreTrue`: `Spec => []ReportTrue`. The report alone is not inductive:
  what CheckSwap answers depends on the scratch having held the image since
  the compare, so `SwapInv` adds `ScratchInv` (where the new image is from the
  compare on), `BackupInv` (where the copy of the old one is) and `VerdictInv`
  (what the verdict may be at each step).
- `SwapsAreGuarded`: `Spec => SwapGuarded`, an action property, from `SwapInv`.
- `CopiesSurvive`: `Spec => []CopySurvives` for the callers that always back up
  and a file that exists. `CopyInv` says that the file or its scratch holds a
  fresh image, and that the file does whenever the scratch is about to be
  overwritten; the second half is why a retry after a lost swap is refused by
  the backup of a file that is not there.

`BankBoxProofs` proves, for any images and any number of failed reads, failed
writes and power cuts, under the assumption `HonestCard` that no write is
swallowed (with one, a `.tmp` that no compare has passed can look whole; run `box`
leaves them out as well):

- `BoxTypeCorrect`: `BoxSpec => []BoxTypeOK`; `CleanIsSaved`:
  `BoxSpec => []CleanMeansSaved`; `NoPhantomWritten`:
  `BoxSpec => NeverFromAPhantom`.
- `Implements`: `BoxSpec => KeepsItsPromise`, the refinement of `DurableStore`.

All four follow from `BoxInv`. `CardInv` says that the file, while it is there, is
what the user last saved or saw or has asked to save since; while it is gone, a
whole `.tmp` is, and so is the `.bak`, unless nothing was ever saved. `SaveInv`
says that the box is there while its backup rolls and that the backup holds it
afterwards, which is what makes the swap of the next steps safe. `PageInv` is what
the page-in knows between its card accesses. The heal saves through the same
steps as the user, so the lemmas of `SaveFileProofs` about them are used for both.

`BankMoveProofs` proves, for any Pokémon, any size of Bank, PC and queue and any
number of card errors:

- `TypeCorrect`: `Spec => []TypeOK`, drops on taken cells included. `TypeOK`
  alone is not inductive. `Shape` adds that a hand without an origin exists only
  in the Bank screen (`HandShape`), that a box is in the buffer whenever the
  program writes one (`BufferShape`), and that what a flush keeps and what it has
  not come to fit in the queue together (`FlushShape`).
- `UntouchedStay`: `Spec => BystandersStay` when `Swaps = FALSE`. The invariant
  `Bystanders` says that only touched Pokémon are in the hand or in the queue,
  and that RAM and card agree about all others: `g_pc` with the `.sav`, and the
  buffer with the file of *its* box, once it was read. Each step that writes puts
  a touched Pokémon on an empty cell or clears a cell that it has compared with
  one, so neither the identity check of `clear_origin` nor that of the flush is
  fooled by another box in the buffer.
- `ExactAlways`: `Spec => []ExactWhenSmooth` when `Swaps = FALSE`. `ExactInv` says, as
  long as nothing failed, was cut or was declined (`SoFar`): RAM and card differ
  only where the program knows it (`Tidy`); every cell that is due to be cleared
  holds what it is to be cleared of and is due once (`DueHolds`), as does the cell
  of the Pokémon in the hand, which is not due (`HandHolds`); and apart from the
  cells that are due each Pokémon is in exactly one place (`OneEach`). At the end
  nothing is due, and that is the property.
- `NoneIsLost`: `Spec /\ []ScreenIsBuffer => []NoMonLost` when `Swaps = FALSE`, with any
  number of errors and cuts. `NoneLost` says of each Pokémon that it is in the
  `.sav` or in the Bank, and that it is in the PC in RAM or in the Bank on a cell
  that is not due for *its* deletion, and this of the Bank on the card and of the
  Bank with the buffer saved (`Safe`): any next write finds it. `Committed` says that
  deletions run after the save they belong to, `Clearing` that a Pokémon whose
  origin is being cleared can do without it, whichever box the clearing works on.
  The hypothesis `ScreenIsBuffer` (in the Bank screen `page = loaded`) is what
  SWITCH_BOX means to ensure (pdna_box.c:4829); where it fails, three errors can
  lose a Pokémon (below). Run `move` goes without it, up to two errors.

`XferProofs` proves, for any number of copies, moves and mishaps:

- `XferTypes`: `XferSpec => []XferTypeOK`, in every way the screens can be used. Its
  `TypeInv` adds what each handler's later steps need of its first (`JobTyped`) and
  that what is not dirty is on the card (`Synced`).
- `NeverLost`: `XferSpec => []NothingLost`, `TwinsAlwaysRecorded`:
  `XferSpec => []TwinsRecorded`, `RestoreNeverClones`: `XferSpec => RestoresOnlyTheLost`
  and `ClaimsOnlyProven`: `XferSpec => ClaimsAreProven`, when the screens are used as
  they are meant to be (`Kinds = {}`, as in run `xfer`: each kind is a known
  disagreement, listed below). They share `SafeInv`. `Kept` is stronger than
  `NothingLost`: the Pokémon is not only on the card, it also stays there when the
  session is saved and its deletions are made, or an entry holds it. `Crossing`
  says that the copy which replaces the original is there, with its own entry,
  from before the original's deletion is due; without it the deferred deletion
  could take the last copy. `JobInv` keeps what a handler saw when it chose until
  the write it chose for: TRANSFERS decides once and then rewrites several files.

`Gen3SlotsProofs` proves, for any number of sectors, sets of exempt and needed
sections, counters and damages:

- `TypeCorrect`: `SlotsSpec => []SlotsTypeOK`, whose last conjunct is that the
  sections the view needs stay where they were found.
- `EditsReach`: `SlotsSpec => []EditsReachGame`. The inductive invariant adds
  `EditInv`: while a save can be edited, the slot shown leads in RAM and on the
  card (`Leads`: the game refuses the other slot, or the one shown passes the
  game's own test with every checksum and has the higher counter), and no save of
  the game is under way. Edits preserve it because they refresh the checksums
  they disturb and touch no counter.
- `LastSaveIsShown`: `SlotsSpec => []LastSaveShown`. `CleanInv` says, while nothing
  was damaged, what either slot holds (`Standing`: one the last finished save, the
  other the one before it, overwritten in part by saves that were cut), where a
  save under way is (`Trying`) and what the editor shows (`Viewing`). The theorem
  assumes three sectors or more (the code has 14): with two, every save would lie
  in the same places, and a save cut halfway could pass for the whole one before.

`GbSessionProofs` proves, for any Pokémon, lists, capacities, damaged lists and
pages, and any number of moves and mishaps:

- `TypeCorrect`: `GbSpec => []GbTypeOK`. `TypeInv` adds `Crossing`: a lifted
  Pokémon is in its list, a drop that is being confirmed has room in its box, and
  one on the way down is still in the Bank, so that each second half finds what
  it needs.
- `AsToldAlways`: `GbSpec => []SessionAsTold` and `ExitAsks`:
  `GbSpec => []NothingUnsavedUnasked`, from `SessionInv`: at the grid the image,
  the baseline and what the user was told agree but for the careless pages
  (`AsTold`), and in every state where the exit would not ask, the file and the
  baseline agree unless a failed write may have landed (`Saved`).
- `OneOfEachAlways`: `GbSpec => []OneOfEach`, for a finite set of boxes
  (`BoxesAssumption`; `Places` is counted). `OneInv` speaks of every image that may
  yet count, the file, the image and the baseline: none misses a Pokémon that
  is not in the Bank (`AtLeast`); none has one twice, but for the one between its
  two halves (`AtMost`); and the half that is done holds it until the other one is
  (`Halfway`).

`BankMetaProofs` proves, for any Pokémon, cells and serials, any number of failed
and swallowed calls and cuts, and any file going bad any number of times:

- `SerialsAreSafe`: `MetaSpec => []SerialsSafe`.
- `IdentsAreUnique`: `MetaSpec => []IdentsUnique`, when every box can be read
  (`ScanFails = FALSE`; the scan skips a box that it cannot read, so it is false
  without).
- `RecoveryLasts`: `MetaSpec => NeverBack`, an action property.

The invariant is `MetaInv`. Its middle is `CountInv`: to every serial that must not
be handed out again (`Floor`: the ones handed out, the one of the cell in hand and,
once the boxes were scanned, those of the cells) the card has a counter at or past
it where a load finds it (`Anchor`: in the file, or in its `.bak` while the file is
not whole), and so has the session's counter, also after a refused save takes it
back (`Covered`). `RunInv` says what a save in progress writes and that the backup
holds the file before the file goes, `FileInv` what a session that may save knows
of the card and where a heal is, `AckInv` that the session is not behind what it
loaded, `DropInv` and `IdentInv` what the scan of a drop saw and why the cell that
lands is new. `BudgetInv` is about the bound alone: an operation that has begun
always has room for the serials it may still need. The save steps are those of
`SaveFile`, whose lemmas are used again.

`JournalProofs` proves, for any ring, any size of a segment, of the pending buffer,
of a chain and of the repair window that the module's assumption allows, and any
number and kind of mishaps:

- `JournalTypes`: `JournalSpec => []JournalTypeOK`. `TypeInv` says what a job under
  way is (`JobOK`: the pending records or one chain, laid out as `flush_plan` and
  `ch_plan` do) and that the pending records are numbered without a gap. `RingOK`
  says where live segments are: less than a lap apart from the newest (`Near`, or two
  of them would claim one slot), missing files only at the front as `jrnfs_clear_key`
  deletes them (`GoneFirst`), and the session's own range whole (`Placed`).

and on a card that can read back what it wrote (`ReadsBack`: the kind `reread` is
out; run `journal_orphan` shows how the first fails with it, and TLC finds the other
two violated on the same bounds: a batch given up no longer stops the recording):

- `TakenBackStays`: `JournalSpec => []UndoneStaysUndone`. `StepsOK` says of all cells
  of all live segments, found by a reopen or not, that no step taken back is in one:
  a record that was ever written is out of the pending buffer or recording has
  stopped.
- `SessionAgrees`: `JournalSpec => []SessionSeesCard`. The property speaks of a whole
  scan, so the invariant `Content` has to keep the rows of the card in a shape in
  which the scan's answer stays the same. `Settled`: the scan comes as far as the
  session's tail and the cell at the tail is where its run ends. `Landing`: behind the tail
  lie only cells of one batch, a part of it from some record on, with numbers
  that would continue the sequence, and everything else within reach of the repair
  window is blank. From `Landing` follows what an open finds of a batch that was cut
  (all of it or none, unless a write was lost), that the repair leaves the rows
  clean (`RowsClean`), and that this holds again if the repair is cut as well
  (`CleanOK`). `ChainsOK` says that a part of a chain is never the first cell of a segment, and
  `Headed` that the segment behind an empty tail may hold chains. `Far` is about live
  segments that a reopen does not reach: they are blank, or a missing slot file is
  in between, which only an interrupted clear leaves and which the session never
  fills (it is off while the ring is not whole).
- `KeepsIt`: `JournalSpec => KeepsItsPromise`, the refinement of `DurableLog` under the
  mapping of `Recovered` and `InHand`, so with what a reopen would make of the card in
  every state, a write half way included. The scan is taken apart in `FoundPlan`: it
  finds what is in front of the tail (`Older`) and the heads of the first m records of
  the batch that begins there (`Heads`), all of them when all are there, and of a chain
  all or none. `RowsRise` and `OlderBelow` order what is found by number. The invariant
  needs two more parts: `Waiting`, that the batch's cells not yet written are empty and,
  unless a write was lost, the others hold their records, from which a batch shows up
  with the write of its first record and not before; and `Orphans`, that in a session
  that has stopped the rows behind the tail are those of the batch it gave up. Then each
  step of the journal is one of the log: a write is a `Commit`, `Verified` an `Ack`, a
  preparation of the next segment, which may retire the oldest, a `Forget` that keeps
  every step in front of the tail in the tail's segment (`NarrowFound`, `InTail`); a
  repair, whole or cut, a spare whose header is lost (`ReheadSteps`), a reopen, a crash
  and a failed write change nothing that is found (`RepairFound`) and are the `Keep` of
  the log; a clear clears; and one that was cut leaves a stretch, of the old steps or of
  the batch alone, also when the segment the tail was in is gone (`ClearStretch`).
  `KeepsToItsPart` says which step of the journal may be which of the log, so that a
  crash that lost the newest steps could not pass for a clear. How many segments
  retention keeps besides the tail's is not promised: with a cap of one segment and a
  tail that a lost chain write left empty, it can give up all that was found (the code's
  cap is up to 16, journal.h:64).

`RunLen`, `ExpectAt` and `Visited` say without recursion what the two scans
(`scan_prefix`, `pfx_cb`) compute record by record: the longest run, the number behind
the last record, the segments gone into. `RunLen` is a choice, which `RunFacts`
shows to be the one number with that property.

Model-checked only:

- Liveness (`SavesGetThrough`, `EditsGetThrough`, `RecordsGetThrough`): out of the
  prover's reach.
- All of `History`: the image of a cursor is a recursive function over the tree of
  steps, and what it returns can only be shown by induction over data.
- `NoMonLost` of `BankMove` without the hypothesis `ScreenIsBuffer`: it then holds up to
  two card errors and not beyond.

## What the code and its words disagree about

Two statements have a run; PROJECT.json quotes them under "findings".

- `journal_orphan`: a write that fails in the middle of a batch stops recording,
  because what it left may be found behind another record by the next session
  (journal.c:1497). A *read* error in the verify returns without stopping
  (journal.c:1505): the batch is on the card and still pending, an undo pops a
  record of it, and the next open finds it again.
- `xfer_declined`: a declined exit removes the pending entry, because "the
  transfer never happened" (pdna_main.c:10435), and keeps the original
  (pdna_main.c:10436). In the run the copy was meanwhile parked in the Bank, whose box
  is written at once (pdna_box.c:2026): both are on the card. With `Park` left out of
  the model, a commit of the save from another screen, then another edit and the
  declined exit do the same.

The others were met while modelling. The models take the branch the code takes,
or name the bound or the kind of mishap that leaves it out; each is reproducible
by widening that constant.

- A failed stat is taken for a free name, and `sf_backup` overwrites a backup
  (savefile.c:222). With backups skipped, a retry after a lost swap truncates the
  only copy (savefile.c:365). On a full shelf `.bak20` is replaced, as the code
  says and savefile.h:43 does not. `SF_WHERE_TMP_ONLY` can be answered while the
  file is there, when its stat fails (savefile.c:478).
- A `.tmp` of the right size that no compare passed can be adopted as a box
  (bank_layout.c:124, against bank_layout.h:68).
- A displaced Pokémon put back with B can overwrite a hidden cell (pdna_box.c:5064,
  against :196), and with three failed saves and four cells a bystander. A refused
  flip away from a box that could not be read or healed turns the banner but not
  the buffer (pdna_box.c:4835, against :4829). A deletion whose write failed is
  forgotten by the next flush (pdna_bank.c:698, against :675). And after three
  failed box saves the worst case of a deferred deletion is not the duplicate of
  pdna_box.c:1839: the deletion is kept, its Pokémon is carried back, a refused
  page-in leaves screen and buffer on two boxes, the drop asks about the pending
  cells of one and writes into the other, and the Pokémon stands on the cell that
  its own deletion names.
- A ring half cleared by a cut is opened as a shorter history (`ClearCut`; jrn_app.c
  says it must never be misread as one), which is why `DurableLog` allows such a clear,
  and no other step, to leave a stretch of it (`ClearPart`). A spare whose header landed
  but could not be read back is live at the next open.
- A flush that fails between the two halves of a swap leaves a half recorded; the code
  reports it, and `missed` in `History` excuses it. A press whose roll-back fails, or
  that undoes a chain of four or more steps down to a swap, leaves the image on half a
  swap, the displaced Pokémon in no image (jrn_app.c:781, :797, :805); the code says so
  ("half a swap", "Swap (half)"), the variable `halved` keeps who is out for it, until
  back, and `MonsAllThere` holds for all others. That the toast is shown is not
  modelled: `halved` grows exactly where the code names the press so (`UndoHalves`,
  `RedoHalves`). A crossing that went unrecorded lets the offer bring back a Pokémon
  that is now in the Bank. An undo past the last saved image is not taken up again after
  a cut (`BRANCH`).
- TRANSFERS decides from the image in RAM (pdna_layout.h:1304), so a copy staged
  out of it counts as gone (`"staged"` in `Kinds`); DELETE goes ahead while a Bank
  box cannot be read (`"blind"`, xfer_reconcile.h:28); a re-rolled copy parked in
  the Bank is only looked for under the file's own key (`"unlinked"`). A RESTORED
  mark whose write failed reads as LOST again.
- Some Game Boy pages leave a declined edit in the image (pdna_gbfly.c:223,
  pdna_gbflags.c:555, the box name at pdna_gen12.c:1234), where others roll it back
  and say why (pdna_gbdex.c:633, pdna_gbmap.c:270). These are the `Careless` pages of
  `GbSession`, outside of what `SessionAsTold` promises.
- "The moment any later `meta_load()` falls back", the full scan is to resume "for
  every drop after it" (pdna_bank.c:92). It runs for the next drop at most: a save
  heals the primary, the next load trusts it again, and the latch set before the
  fallback (pdna_box.c:1681) skips the scan. `IdentsUnique` holds all the same.
- A drop whose scan finds the counter behind raises and saves it
  (`pdna_bank_serial_resync`). When that save is refused the Pokémon lands with its
  stored serial, and the latch is set all the same (pdna_box.c:1681): the next
  drop is not scanned and takes the next serial of a counter that is still behind,
  which a cell in another box may have; pdna_box.c:1640 says the scan is there for
  exactly that. `behind` in `BankMeta` marks such a session, and `IdentsUnique` leaves
  it out; without that conjunct, failed writes alone (`Kinds = {"write"}`, one mishap,
  serials to 5) make it fail.
- A box that cannot be read "holds no on-card data at all", so the scan skips it
  (bank_collision.h:14). `pdna_bank_peek_box` returns NULL on a read error too: when
  the counter was rolled back, a drop or a DUPLICATE gets the identity of a cell in
  that box (`ScanFails = TRUE` in `BankMeta`).

## What the models leave out

`Journal`: records of several cells, bit rot in the middle of the history, headers of
another build, the read-only mode, redirects. `History`: compaction under the cursor
(the log does not shrink), chained heads of swaps, the jump of the History screen, the
hop cap of a redo (`JA_REDO_HOPS`), a swap that ends in the party, the partial latch,
read faults in a group walk, hash collisions, Game Boy images. `Xfer`: Day-Care rows,
entries of the other direction and of the same generation, KEEP BOTH, several entries in
one file, the eviction of the oldest, the heal of a ledger's `.tmp`, a second journey of
a rebuilt original. `Gen3Slots`: the wrap of the counter at 2^32 (out of reach of a
game) and the contents of sections; a 64 KiB dump is one with a blank second slot.
`GbSession`: copies, duplicates, created Pokémon, Day-Care, mail, undo within the
session, the ledger paste; a crossing writes the whole image, so all staged edits with
it. `BankMeta`: the names themselves, other boxes' saves between the scan and the
commit, a `bank.meta` that reads as one with another counter (it has no checksum),
clashes of the hash between different records, the reconcile at the opening of the Bank.

Not modelled at all:

- The one-time snapshot of the box files; chunk carries, releases and the party in `BankMove`.
- Codecs, conversion, drawing, key handling, picture stores: no state that lasts,
  left to the unit tests. They are most of the source, with FatFs and the drivers
  and their tables (`ffunicode.c` alone has 15,593 lines), which are the
  environment of these models. So the mapped lines are few against the whole, and
  many in the files that write to the card.
- The direct flash save of the `PDNA_DELTA` build: bus accesses.

## Plan

1. Chunk carries in `BankMove`; `BankMeta` over several boxes that are paged.
2. `History` over `Journal`: compaction under the cursor, redirects, the jump.
3. `Xfer` further: several entries per file with eviction, the other direction,
   Day-Care.
4. Proofs about `History`: its image of a cursor, now a recursive function, stated as
   the relation that each step keeps to the image before it.
