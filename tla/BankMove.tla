------------------------------ MODULE BankMove -------------------------------
(***************************************************************************)
(* Moving Pokemon between the PC of the loaded save and the boxes of the   *)
(* Bank: the carry of source/pdna_box.c, the one shared box buffer and the *)
(* deferred deletions of source/pdna_bank.c, and the exit of               *)
(* source/pdna_main.c that commits them.                                   *)
(*                                                                         *)
(* The PC lives in RAM (g_pc) until one save of the whole .sav; the Bank   *)
(* has one file per box and one box in RAM.  A move between them is two    *)
(* writes of two files, the second possibly much later.  Each file keeps   *)
(* the promise of DurableStore: a confirmed save is there, a failed one    *)
(* left the old or the new bytes.  A save is one step, so a power cut      *)
(* comes before or after it, which is the same as either outcome of one    *)
(* that was cut.                                                           *)
(***************************************************************************)
EXTENDS Naturals, Sequences, FiniteSets, Functions

CONSTANTS
  Mons,          \* told apart by their 8 identity bytes
  None,          \* an empty cell, an empty hand, no box
  NBoxes,        \* boxes of the Bank
  NSlots,        \* cells of a Bank box
  NPcSlots,      \* cells of the PC
  MaxDeletions,  \* BANK_DEL_MAX
  MaxMishaps,    \* card errors in a behaviour
  Swaps          \* whether a drop on a taken Bank cell is in play

Boxes == 1..NBoxes
Slots == 1..NSlots
PcSlots == 1..NPcSlots
Cells == Mons \cup {None}
Bare == [s \in Slots |-> None]   \* the zeroed buffer
Free == "free"   \* no occupant is displaced: the cell of a drop was free

ASSUME MonAssumption == Mons # {} /\ None \notin Mons /\ None \notin Boxes /\ Free \notin Cells
ASSUME SizeAssumption ==
  /\ NBoxes \in Nat \ {0} /\ NSlots \in Nat \ {0} /\ NPcSlots \in Nat \ {0}
  /\ MaxDeletions \in Nat /\ MaxMishaps \in Nat /\ Swaps \in BOOLEAN

VARIABLES
  sav,      \* the PC in the .sav on the card
  box,      \* the box files on the card
  pc,       \* g_pc
  staged,   \* g_pc or the image is ahead of the .sav
  buf,      \* g_bankbuf
  loaded,   \* g_loaded
  dirty,    \* g_dirty
  unread,   \* g_box_unread: the page-in or its heal failed
  page,     \* the box the Bank screen shows
  queue,    \* g_bank_del
  left,     \* the part of the queue a flush has not come to
  kept,     \* the part it keeps
  hand,     \* the carry: s_held and its origin, slot 0 when it has none
  at,       \* where the program is
  resume,   \* where a flush returns to
  mishaps,
  touched,  \* history: the Pokemon the user ever picked up or swapped out
  smooth    \* history: nothing was cut or declined so far

card == <<sav, box>>
buffer == <<buf, loaded, dirty, unread>>
flush == <<left, kept, resume>>
history == <<touched, smooth>>
vars == <<sav, box, pc, staged, buf, loaded, dirty, unread, page, queue,
          left, kept, hand, at, resume, mishaps, touched, smooth>>

Entries == [box : Boxes, slot : Slots, mon : Cells]
Hands ==
  [mon : Cells, from : {"bank"}, box : Boxes, slot : Slots \cup {0}, next : Cells \cup {Free}]
  \cup [mon : Mons, from : {"pc"}, box : {None}, slot : PcSlots, next : {Free}]
ASSUME HandAssumption == None \notin Hands   \* an empty hand is no carry

TypeOK ==
  /\ sav \in [PcSlots -> Cells] /\ pc \in [PcSlots -> Cells]
  /\ box \in [Boxes -> [Slots -> Cells]] /\ buf \in [Slots -> Cells]
  /\ loaded \in Boxes \cup {None} /\ page \in Boxes
  /\ {staged, dirty, unread, smooth} \subseteq BOOLEAN
  /\ queue \in Seq(Entries) /\ Len(queue) <= MaxDeletions
  /\ left \in Seq(Entries) /\ kept \in Seq(Entries)
  /\ hand \in Hands \cup {None}
  /\ at \in {"closed", "pc", "bank", "clear", "wipe", "back", "flush", "delete"}
  /\ resume \in {"pc", "closed"}
  /\ mishaps \in 0..MaxMishaps
  /\ touched \subseteq Mons

-----------------------------------------------------------------------------
Mishap == mishaps < MaxMishaps /\ mishaps' = mishaps + 1
Calm == UNCHANGED mishaps

\* box_save of the buffer holding content.  A box that was not read or not
\* healed is refused; a failed save may have landed all the same.
BoxWrite(content, ok) ==
  \/ ok /\ ~unread /\ Calm /\ box' = [box EXCEPT ![loaded] = content]
  \/ ~ok /\ unread /\ Calm /\ UNCHANGED box
  \/ /\ ~ok /\ ~unread /\ Mishap
     /\ box' \in {box, [box EXCEPT ![loaded] = content]}
BoxSave(content, ok) ==
  BoxWrite(content, ok) /\ dirty' = IF unread THEN dirty ELSE ~ok

\* box_load: what the file holds, or the zeroed buffer after a read error,
\* or the recovered bytes of a file that could not be put back.
BoxLoad(b) ==
  /\ loaded' = b /\ dirty' = FALSE
  /\ \/ Calm /\ buf' = box[b] /\ unread' = FALSE
     \/ Mishap /\ buf' \in {Bare, box[b]} /\ unread' = TRUE

\* banksrc_records: page box b in.  The box that is left is saved first; if
\* that fails and the user keeps editing, its buffer stays.  A box that
\* never was read and holds no edit is just let go (box_unread_reread).
PageIn(b, stays) ==
  \/ ~stays /\ loaded = b /\ UNCHANGED <<box, buffer, mishaps>>
  \/ ~stays /\ loaded # b /\ ~dirty /\ BoxLoad(b) /\ UNCHANGED box
  \/ /\ ~stays /\ loaded # b /\ dirty /\ ~unread
     /\ box' = [box EXCEPT ![loaded] = buf] /\ BoxLoad(b)
  \/ ~stays /\ loaded # b /\ dirty /\ unread /\ buf = Bare /\ BoxLoad(b) /\ UNCHANGED box
  \/ stays /\ loaded # b /\ dirty /\ BoxSave(buf, FALSE) /\ UNCHANGED <<buf, loaded, unread>>

\* app_commit_pc: one verified write of the whole .sav.
PcSave(ok) ==
  \/ ok /\ Calm /\ sav' = pc /\ staged' = FALSE
  \/ ~ok /\ Mishap /\ sav' \in {sav, pc} /\ UNCHANGED staged

\* A cell whose Pokemon was carried to the PC is hidden, but not free.
Pending(b, s) == \E n \in DOMAIN queue : queue[n].box = b /\ queue[n].slot = s
Shown(s) == buf[s] # None /\ ~Pending(page, s)
Taken(s) == buf[s] # None \/ Pending(page, s)

Homeless == hand # None /\ hand.slot = 0
Held(mon, b, s, next) == [mon |-> mon, from |-> "bank", box |-> b, slot |-> s, next |-> next]
InHand(next) == IF next = Free THEN None ELSE Held(next, page, 0, Free)
Touch(m) == touched' = touched \cup ({m} \ {None}) /\ UNCHANGED smooth

Init ==
  /\ sav \in [PcSlots -> Cells] /\ box \in [Boxes -> [Slots -> Cells]]
  /\ \A m \in Mons :
       Cardinality({s \in PcSlots : sav[s] = m})
       + Cardinality({bs \in Boxes \X Slots : box[bs[1]][bs[2]] = m}) = 1
  /\ pc = sav /\ staged = FALSE
  /\ buf = Bare /\ loaded = None /\ dirty = FALSE /\ unread = FALSE /\ page = 1
  /\ queue = <<>> /\ left = <<>> /\ kept = <<>> /\ hand = None
  /\ at = "pc" /\ resume = "pc"
  /\ mishaps = 0 /\ touched = {} /\ smooth = TRUE

-----------------------------------------------------------------------------
(***************************************************************************)
(* The Bank screen.                                                        *)
(***************************************************************************)
\* pdna_bank_show starts with no box resident, and pages the first one in.
EnterBank ==
  /\ at = "pc" /\ at' = "bank" /\ page' = 1
  /\ BoxLoad(1)
  /\ UNCHANGED <<card, pc, staged, queue, flush, hand, history>>

\* SWITCH_BOX: the screen follows unless box_save marked the box it shows as
\* unsaved (g_box_unsaved_box), which a refused save of an unread one does not.
FlipPage(b) ==
  /\ at = "bank" /\ b # page
  /\ \E stays \in BOOLEAN :
       /\ PageIn(b, stays)
       /\ page' = IF stays /\ loaded = page /\ ~unread THEN page ELSE b
  /\ UNCHANGED <<sav, pc, staged, queue, flush, hand, at, history>>

\* start_carry: the origin keeps its record until the drop.
BankPick(s) ==
  /\ at = "bank" /\ hand = None /\ Shown(s)
  /\ hand' = Held(buf[s], page, s, Free) /\ Touch(buf[s])
  /\ UNCHANGED <<card, pc, staged, buffer, page, queue, flush, at, resume, mishaps>>

\* B with a carry in hand.  A Pokemon that a swap displaced goes to the
\* first cell that shows none.
BankCancel ==
  /\ at = "bank" /\ hand # None
  /\ \/ ~Homeless /\ UNCHANGED <<buf, dirty>>
     \/ /\ Homeless
        /\ \E s \in Slots :
             /\ ~Shown(s) /\ \A r \in 1..(s - 1) : Shown(r)
             /\ buf' = [buf EXCEPT ![s] = hand.mon] /\ dirty' = TRUE
  /\ hand' = None
  /\ UNCHANGED <<card, pc, staged, loaded, unread, page, queue, flush, at, mishaps, history>>

OwnCell(s) == page = hand.box /\ s = hand.slot

\* drop_held within the Bank: on a free cell the Pokemon is placed and its
\* origin cleared after that; on a taken one the occupant ends up in the
\* hand, without an origin.  A swap with another box is refused.
Place(s, next) ==
  /\ buf' = [buf EXCEPT ![s] = hand.mon] /\ dirty' = TRUE
  /\ IF Homeless
     THEN /\ at' = "back"
          /\ hand' = InHand(next)
     ELSE at' = "clear" /\ hand' = [hand EXCEPT !.next = next]
  /\ UNCHANGED <<card, pc, staged, loaded, unread, page, queue, flush, mishaps>>

BankDrop(s) ==
  /\ at = "bank" /\ hand # None /\ hand.from = "bank" /\ ~Taken(s) /\ ~OwnCell(s)
  /\ Place(s, Free) /\ UNCHANGED history

BankSwap(s) ==
  /\ Swaps
  /\ at = "bank" /\ hand # None /\ hand.from = "bank" /\ Taken(s) /\ ~OwnCell(s)
  /\ Homeless \/ hand.box = page
  /\ Place(s, buf[s]) /\ Touch(buf[s])

\* clear_origin: page the origin's box in, clear the cell if it still holds
\* the carried Pokemon, and page the shown box back.
ClearOrigin ==
  /\ at = "clear" /\ at' = "wipe"
  /\ \E stays \in BOOLEAN : PageIn(hand.box, stays)
  /\ UNCHANGED <<sav, pc, staged, page, queue, flush, hand, history>>

WipeOriginMutant ==   \* the cell is cleared whatever it holds
  /\ at = "wipe" /\ at' = "back"
  /\ buf' = [buf EXCEPT ![hand.slot] = None] /\ dirty' = TRUE
  /\ hand' = InHand(hand.next)
  /\ UNCHANGED <<card, pc, staged, loaded, unread, page, queue, flush, mishaps, history>>
WipeOrigin ==
  /\ at = "wipe" /\ at' = "back"
  /\ buf' = IF buf[hand.slot] = hand.mon THEN [buf EXCEPT ![hand.slot] = None] ELSE buf
  /\ dirty' = TRUE
  /\ hand' = InHand(hand.next)
  /\ UNCHANGED <<card, pc, staged, loaded, unread, page, queue, flush, mishaps, history>>

PageBack ==
  /\ at = "back" /\ at' = "bank"
  /\ \E stays \in BOOLEAN : PageIn(page, stays)
  /\ UNCHANGED <<sav, pc, staged, page, queue, flush, hand, history>>

\* PC -> Bank: the box is written and confirmed first, and only then is the
\* PC cell cleared, in RAM; a failed write takes the cell back.
ReleasePc == pc' = [pc EXCEPT ![hand.slot] = IF @ = hand.mon THEN None ELSE @]
BankTake(s) ==
  /\ at = "bank" /\ hand # None /\ hand.from = "pc" /\ ~Taken(s)
  /\ \/ /\ BoxSave([buf EXCEPT ![s] = hand.mon], TRUE)
        /\ buf' = [buf EXCEPT ![s] = hand.mon]
        /\ ReleasePc /\ staged' = TRUE /\ hand' = None
     \/ /\ BoxSave([buf EXCEPT ![s] = hand.mon], FALSE)
        /\ buf' = [buf EXCEPT ![s] = None]
        /\ UNCHANGED <<pc, staged, hand>>
  /\ UNCHANGED <<sav, loaded, unread, page, queue, flush, at, history>>

\* The end of pdna_bank_show: a dirty box is saved, or given up after a
\* failed save with its edits left in the buffer, or reloaded.
LeaveBank ==
  /\ at = "bank" /\ ~Homeless /\ at' = "pc" /\ page' = 1
  /\ \/ ~dirty /\ UNCHANGED <<box, buffer, mishaps, smooth>>
     \/ /\ dirty /\ dirty' = FALSE
        /\ \E ok \in BOOLEAN : BoxWrite(buf, ok)
        /\ UNCHANGED <<buf, loaded, unread, smooth>>
     \/ dirty /\ BoxLoad(loaded) /\ smooth' = FALSE /\ UNCHANGED box
  /\ UNCHANGED <<sav, pc, staged, queue, flush, hand, touched>>

-----------------------------------------------------------------------------
(***************************************************************************)
(* The PC screen.                                                          *)
(***************************************************************************)
PcPick(s) ==
  /\ at = "pc" /\ hand = None /\ pc[s] # None
  /\ hand' = [mon |-> pc[s], from |-> "pc", box |-> None, slot |-> s, next |-> Free]
  /\ Touch(pc[s])
  /\ UNCHANGED <<card, pc, staged, buffer, page, queue, flush, at, mishaps>>

PcCancel ==
  /\ at = "pc" /\ hand # None /\ hand' = None
  /\ UNCHANGED <<card, pc, staged, buffer, page, queue, flush, at, mishaps, history>>

\* Bank -> PC: placed in RAM, and the original is queued for deletion; a
\* full queue refuses the drop.
PcTakeMutant(s) ==   \* a full queue forgets the deletion
  /\ at = "pc" /\ hand # None /\ hand.from = "bank" /\ pc[s] = None
  /\ pc' = [pc EXCEPT ![s] = hand.mon] /\ staged' = TRUE
  /\ queue' = IF Len(queue) = MaxDeletions THEN queue
              ELSE Append(queue, [box |-> hand.box, slot |-> hand.slot, mon |-> hand.mon])
  /\ hand' = None
  /\ UNCHANGED <<card, buffer, page, flush, at, mishaps, history>>
PcTake(s) ==
  /\ at = "pc" /\ hand # None /\ hand.from = "bank" /\ pc[s] = None
  /\ Len(queue) < MaxDeletions
  /\ pc' = [pc EXCEPT ![s] = hand.mon] /\ staged' = TRUE
  /\ queue' = Append(queue, [box |-> hand.box, slot |-> hand.slot, mon |-> hand.mon])
  /\ hand' = None
  /\ UNCHANGED <<card, buffer, page, flush, at, mishaps, history>>

\* An editor that writes the whole image at once.
CommitPc ==
  /\ at = "pc" /\ staged /\ hand = None
  /\ \E ok \in BOOLEAN : PcSave(ok)
  /\ UNCHANGED <<box, pc, buffer, page, queue, flush, hand, at, history>>

-----------------------------------------------------------------------------
(***************************************************************************)
(* Saving: app_xfer_save_now, flush_on_exit, pdna_bank_flush_deletions.    *)
(***************************************************************************)
StartFlush(next) == at' = "flush" /\ left' = queue /\ kept' = <<>> /\ resume' = next

\* Only a confirmed save lets the originals go.
SaveThenFlushMutant(next) ==   \* the verdict of the save is ignored
  /\ \E ok \in BOOLEAN : PcSave(ok)
  /\ StartFlush(next)
SaveThenFlush(next) ==
  \/ PcSave(TRUE) /\ StartFlush(next)
  \/ PcSave(FALSE) /\ at' = next /\ UNCHANGED flush

SaveNow ==
  /\ at = "pc" /\ SaveThenFlush("pc")
  /\ UNCHANGED <<box, pc, buffer, page, queue, hand, history>>

Exit ==
  /\ at = "pc" /\ hand = None
  /\ \/ staged /\ SaveThenFlush("closed") /\ UNCHANGED <<pc, queue, smooth>>
     \/ /\ staged   \* declined: the PC is read again, the originals stay
        /\ pc' = sav /\ staged' = FALSE /\ queue' = <<>> /\ at' = "closed"
        /\ smooth' = FALSE /\ UNCHANGED <<sav, flush, mishaps>>
     \/ /\ ~staged /\ StartFlush("closed")
        /\ UNCHANGED <<sav, pc, staged, queue, mishaps, smooth>>
  /\ UNCHANGED <<box, buffer, page, hand, touched>>

Keep(entry) == kept' = Append(kept, entry) /\ left' = Tail(left) /\ at' = "flush"
Drop == left' = Tail(left) /\ at' = "flush" /\ UNCHANGED kept

\* One entry of the queue: have its box in the buffer.
FlushPage ==
  /\ at = "flush" /\ left # <<>>
  /\ \E stays \in BOOLEAN :
       /\ PageIn(Head(left).box, stays)
       /\ IF stays THEN Keep(Head(left)) ELSE at' = "delete" /\ UNCHANGED <<left, kept>>
  /\ UNCHANGED <<sav, pc, staged, page, queue, hand, resume, history>>

\* Then delete it there, if the cell still holds that Pokemon.
FlushDeleteMutant ==   \* the cell is deleted whatever it holds
  LET entry == Head(left)
      rest == [buf EXCEPT ![entry.slot] = None] IN
  /\ at = "delete"
  /\ \E ok \in BOOLEAN :
       BoxSave(rest, ok) /\ buf' = rest /\ IF ok THEN Drop ELSE Keep(entry)
  /\ UNCHANGED <<sav, pc, staged, loaded, unread, page, queue, hand, resume, history>>
FlushDelete ==
  LET entry == Head(left)
      rest == [buf EXCEPT ![entry.slot] = None] IN
  /\ at = "delete"
  /\ \/ unread /\ Keep(entry) /\ UNCHANGED <<box, buf, dirty, mishaps>>
     \/ /\ ~unread /\ buf[entry.slot] # entry.mon
        /\ Drop /\ UNCHANGED <<box, buf, dirty, mishaps>>
     \/ /\ ~unread /\ buf[entry.slot] = entry.mon
        /\ \E ok \in BOOLEAN :
             BoxSave(rest, ok) /\ buf' = rest /\ IF ok THEN Drop ELSE Keep(entry)
  /\ UNCHANGED <<sav, pc, staged, loaded, unread, page, queue, hand, resume, history>>

FlushEndMutant ==   \* what was kept is queued a second time
  /\ at = "flush" /\ left = <<>>
  /\ queue' = queue \o kept /\ kept' = <<>> /\ at' = resume /\ resume' = "pc"
  /\ UNCHANGED <<card, pc, staged, buffer, page, left, hand, mishaps, history>>
FlushEnd ==
  /\ at = "flush" /\ left = <<>>
  /\ queue' = kept /\ kept' = <<>> /\ at' = resume /\ resume' = "pc"
  /\ UNCHANGED <<card, pc, staged, buffer, page, left, hand, mishaps, history>>

-----------------------------------------------------------------------------
\* The power goes: what was in RAM is gone.
PowerCut ==
  /\ at # "closed" /\ at' = "closed"
  /\ pc' = sav /\ staged' = FALSE
  /\ buf' = Bare /\ loaded' = None /\ dirty' = FALSE /\ unread' = FALSE
  /\ queue' = <<>> /\ left' = <<>> /\ kept' = <<>> /\ hand' = None /\ smooth' = FALSE
  /\ page' = 1 /\ resume' = "pc"
  /\ UNCHANGED <<card, mishaps, touched>>

\* Opening a save reads the .sav and forgets carry and queue.
OpenSave ==
  /\ at = "closed" /\ at' = "pc"
  /\ pc' = sav /\ staged' = FALSE /\ queue' = <<>> /\ hand' = None
  /\ UNCHANGED <<card, buffer, page, flush, mishaps, history>>

BankScreen ==
  \/ EnterBank \/ BankCancel \/ ClearOrigin \/ WipeOrigin \/ PageBack \/ LeaveBank
  \/ \E b \in Boxes : FlipPage(b)
  \/ \E s \in Slots : BankPick(s) \/ BankDrop(s) \/ BankSwap(s) \/ BankTake(s)
PcScreen == PcCancel \/ CommitPc \/ (\E s \in PcSlots : PcPick(s) \/ PcTake(s))
Saving == SaveNow \/ Exit \/ FlushPage \/ FlushDelete \/ FlushEnd

Next == BankScreen \/ PcScreen \/ Saving \/ PowerCut \/ OpenSave

Spec == Init /\ [][Next]_vars

-----------------------------------------------------------------------------
(***************************************************************************)
(* Properties.                                                             *)
(***************************************************************************)
PlacesInSav(m) == {s \in PcSlots : sav[s] = m}
PlacesInBank(m) == {bs \in Boxes \X Slots : box[bs[1]][bs[2]] = m}
Copies(m) == Cardinality(PlacesInSav(m)) + Cardinality(PlacesInBank(m))

\* Every Pokemon is on the card at every instant: however a move is
\* interrupted, fails or is declined, the worst is a duplicate.  (With
\* three failed saves of one box it is not: see the README.)
NoMonLost == \A m \in Mons : Copies(m) > 0

\* A Pokemon the user never touched stays in its cell, whatever is saved,
\* paged or deleted around it.
BystandersStay ==
  [][\A m \in Mons : m \notin touched' =>
       PlacesInSav(m)' = PlacesInSav(m) /\ PlacesInBank(m)' = PlacesInBank(m)]_vars

\* When nothing failed, was cut or was declined, leaving the save leaves
\* every Pokemon on the card exactly once.
ExactWhenSmooth ==
  at = "closed" /\ smooth /\ mishaps = 0 => \A m \in Mons : Copies(m) = 1

=============================================================================
