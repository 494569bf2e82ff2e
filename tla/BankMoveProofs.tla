--------------------------- MODULE BankMoveProofs ---------------------------
(***************************************************************************)
(* Proofs about BankMove, for every set of Pokemon, every size of the Bank *)
(* and the PC, every length of the queue and any number of card errors.    *)
(***************************************************************************)
EXTENDS BankMove, SequenceTheorems, FiniteSetTheorems, TLAPS

Carried == [mon : Cells, from : {"bank"}, box : Boxes, slot : Slots, next : Cells \cup {Free}]
Floating == [mon : Cells, from : {"bank"}, box : Boxes, slot : {0}, next : Cells \cup {Free}]
FromPc == [mon : Mons, from : {"pc"}, box : {None}, slot : PcSlots, next : {Free}]

\* The hand has a cell to go back to outside of the Bank screen, and while
\* the cell it came from is being cleared.
HandShape ==
  /\ at \in {"clear", "wipe"} => hand \in Carried
  /\ at \in {"closed", "pc", "flush", "delete"} => hand \in Carried \cup FromPc \cup {None}

\* There is a box in the buffer when the program works with it.
BufferShape == at \in {"bank", "clear", "wipe", "back", "delete"} \/ dirty => loaded \in Boxes

\* What a flush keeps and what it has not come to fit in the queue.
FlushShape ==
  /\ Len(left) + Len(kept) <= MaxDeletions
  /\ at = "delete" => left # <<>>

Shape == TypeOK /\ HandShape /\ BufferShape /\ FlushShape

\* Only Pokemon the user touched are in the hand or due for deletion, and
\* none floats: drops on taken cells are out of play.
AllTouched(entries) == \A n \in DOMAIN entries : entries[n].mon \in touched
TouchedOnly ==
  /\ hand # None => hand.mon \in touched /\ hand.slot # 0 /\ hand.next = Free
  /\ AllTouched(queue) /\ AllTouched(left) /\ AllTouched(kept)

\* Two views of some cells have the Pokemon of a set in the same places.
Alike(f, g, cells, mons) == \A m \in mons, c \in cells : f[c] = m <=> g[c] = m

\* RAM and card agree on the others: the PC and the .sav, and the buffer,
\* once read, and the file of its box.
Untouched == Mons \ touched
RamAgrees ==
  /\ Alike(pc, sav, PcSlots, Untouched)
  /\ loaded \in Boxes /\ ~unread => Alike(buf, box[loaded], Slots, Untouched)
Bystanders == Shape /\ TouchedOnly /\ RamAgrees

-----------------------------------------------------------------------------
\* A hand is from a cell of the Bank, from nowhere, or from the PC.
LEMMA HandCases == Hands = Carried \cup Floating \cup FromPc
  BY DEF Hands, Carried, Floating, FromPc

LEMMA SlotFacts == None \notin Boxes /\ 0 \notin Slots /\ 0 \notin PcSlots /\ 1 \in Boxes
  BY MonAssumption, SizeAssumption DEF Slots, PcSlots, Boxes

LEMMA MishapType ==
  ASSUME TypeOK, Calm \/ Mishap
  PROVE  mishaps' \in 0..MaxMishaps
  BY SizeAssumption DEF TypeOK, Calm, Mishap

\* What a write of the buffer may change.
LEMMA BoxWriteFrame ==
  ASSUME TypeOK, NEW content \in [Slots -> Cells], NEW ok, BoxWrite(content, ok)
  PROVE  /\ box' \in [Boxes -> [Slots -> Cells]] /\ mishaps' \in 0..MaxMishaps
         /\ box' # box => ~unread /\ box' = [box EXCEPT ![loaded] = content]
<1>1. [box EXCEPT ![loaded] = content] \in [Boxes -> [Slots -> Cells]]  BY DEF TypeOK
<1>2. mishaps' \in 0..MaxMishaps  BY MishapType DEF BoxWrite
<1>3. QED  BY <1>1, <1>2 DEF TypeOK, BoxWrite

\* A page-in leaves what the file holds, unless it says that it does not.
LEMMA BoxLoadFrame ==
  ASSUME TypeOK, NEW b \in Boxes, BoxLoad(b)
  PROVE  /\ loaded' = b /\ ~dirty' /\ {dirty', unread'} \subseteq BOOLEAN
         /\ buf' \in [Slots -> Cells] /\ mishaps' \in 0..MaxMishaps
         /\ ~unread' => buf' = box[b]
<1>1. Bare \in [Slots -> Cells] /\ box[b] \in [Slots -> Cells]  BY DEF TypeOK, Bare, Cells
<1>2. mishaps' \in 0..MaxMishaps  BY MishapType DEF BoxLoad
<1>3. QED  BY <1>1, <1>2 DEF BoxLoad

\* After a page-in there is a box in the buffer, the one that was asked for
\* unless the old one stays.
LEMMA PageInFrame ==
  ASSUME TypeOK, BufferShape, NEW b \in Boxes, NEW stays \in BOOLEAN, PageIn(b, stays)
  PROVE  /\ box' \in [Boxes -> [Slots -> Cells]] /\ mishaps' \in 0..MaxMishaps
         /\ buf' \in [Slots -> Cells] /\ {dirty', unread'} \subseteq BOOLEAN
         /\ loaded' \in Boxes
<1>0. buf \in [Slots -> Cells] /\ box \in [Boxes -> [Slots -> Cells]]  BY DEF TypeOK
<1>1. CASE ~stays /\ loaded = b /\ UNCHANGED <<box, buffer, mishaps>>
  BY <1>1 DEF TypeOK, buffer
<1>2. CASE BoxLoad(b) /\ box' \in {box, [box EXCEPT ![loaded] = buf]}
  BY <1>0, <1>2, BoxLoadFrame
<1>3. CASE stays /\ dirty /\ BoxSave(buf, FALSE) /\ UNCHANGED <<buf, loaded, unread>>
  BY <1>0, <1>3, BoxWriteFrame DEF TypeOK, BufferShape, BoxSave
<1>4. QED  BY <1>1, <1>2, <1>3 DEF PageIn
-----------------------------------------------------------------------------
LEMMA InitShape == Init => Shape
<1> SUFFICES ASSUME Init PROVE Shape
  OBVIOUS
<1>1. buf \in [Slots -> Cells]  BY DEF Init, Bare, Cells
<1>2. mishaps \in 0..MaxMishaps  BY SizeAssumption DEF Init
<1>3. queue = <<>> /\ left = <<>> /\ kept = <<>>  BY DEF Init
<1>4. <<>> \in Seq(Entries) /\ Len(<<>>) = 0 /\ 0 <= MaxDeletions  BY SizeAssumption
<1>5. TypeOK  BY <1>1, <1>2, <1>3, <1>4, SlotFacts DEF Init, TypeOK
<1>6. FlushShape  BY <1>3, <1>4 DEF Init, FlushShape
<1>7. QED  BY <1>5, <1>6 DEF Init, Shape, HandShape, BufferShape

\* Every step at the Bank screen keeps the types and the shape.
LEMMA BankScreenShape == Shape /\ BankScreen => Shape'
<1> SUFFICES ASSUME Shape, BankScreen PROVE Shape'
  OBVIOUS
<1> USE DEF Shape, HandShape, BufferShape, FlushShape
<1>0. TypeOK  OBVIOUS
<1>1. CASE EnterBank
  BY <1>0, <1>1, BoxLoadFrame, SlotFacts DEF EnterBank, TypeOK, card, flush, history
<1>2. ASSUME NEW b \in Boxes, FlipPage(b) PROVE Shape'
  BY <1>0, <1>2, PageInFrame DEF FlipPage, TypeOK, flush, history
<1>3. ASSUME NEW s \in Slots, BankPick(s) PROVE Shape'
  <2>1. buf[s] \in Mons  BY <1>3 DEF BankPick, Shown, TypeOK, Cells
  <2>2. hand' \in Hands  BY <1>3, <2>1 DEF BankPick, Held, Hands, TypeOK, Cells
  <2>3. touched' \subseteq Mons  BY <1>3, <2>1 DEF BankPick, Touch, TypeOK
  <2>4. QED  BY <1>3, <2>2, <2>3 DEF BankPick, Touch, TypeOK, card, buffer, flush
<1>4. CASE BankCancel
  <2>1. hand # None => hand.mon \in Cells  BY DEF TypeOK, Hands, Cells
  <2>2. buf' \in [Slots -> Cells] /\ dirty' \in BOOLEAN /\ (dirty' => loaded \in Boxes)
    BY <1>4, <2>1 DEF BankCancel, TypeOK
  <2>3. QED  BY <1>4, <2>2 DEF BankCancel, TypeOK, card, flush, history
<1>5. ASSUME NEW s \in Slots, BankDrop(s) \/ BankSwap(s) PROVE Shape'
  <2>1. PICK next \in Cells \cup {Free} : Place(s, next)
    BY <1>5 DEF BankDrop, BankSwap, TypeOK
  <2>2. hand \in Carried \cup Floating
    BY <1>5, HandCases DEF BankDrop, BankSwap, TypeOK, FromPc
  <2>3. buf' \in [Slots -> Cells]  BY <2>1, <2>2 DEF Place, TypeOK, Carried, Floating
  <2>4. touched' \subseteq Mons
    BY <1>5 DEF BankDrop, BankSwap, Touch, history, TypeOK, Cells
  <2>5. CASE Homeless
    <3>1. hand' \in Hands \cup {None}
      BY <2>1, <2>5 DEF Place, InHand, Held, Hands, TypeOK
    <3>2. QED
      BY <1>5, <2>1, <2>3, <2>4, <2>5, <3>1
      DEF Place, BankDrop, BankSwap, Touch, history, TypeOK, card, flush
  <2>6. CASE ~Homeless
    <3>1. hand \in Carried  BY <1>5, <2>2, <2>6 DEF BankDrop, BankSwap, Homeless, Floating
    <3>2. hand' \in Carried  BY <2>1, <2>6, <3>1 DEF Place, Carried
    <3>3. QED
      BY <1>5, <2>1, <2>3, <2>4, <2>6, <3>2, HandCases
      DEF Place, BankDrop, BankSwap, Touch, history, TypeOK, card, flush
  <2>7. QED  BY <2>5, <2>6
<1>6. CASE ClearOrigin
  <2>1. hand.box \in Boxes  BY <1>6 DEF ClearOrigin, Carried
  <2>2. QED  BY <1>0, <1>6, <2>1, PageInFrame DEF ClearOrigin, TypeOK, flush, history
<1>7. CASE WipeOrigin
  <2>1. hand \in Carried  BY <1>7 DEF WipeOrigin
  <2>2. hand' \in Hands \cup {None}
    BY <1>7, <2>1 DEF WipeOrigin, InHand, Held, Hands, Carried, TypeOK
  <2>3. buf' \in [Slots -> Cells]  BY <1>7 DEF WipeOrigin, TypeOK, Cells
  <2>4. QED  BY <1>7, <2>2, <2>3 DEF WipeOrigin, TypeOK, card, flush, history
<1>8. CASE PageBack
  <2>1. page \in Boxes  BY DEF TypeOK
  <2>2. QED  BY <1>0, <1>8, <2>1, PageInFrame DEF PageBack, TypeOK, flush, history
<1>9. ASSUME NEW s \in Slots, BankTake(s) PROVE Shape'
  <2>1. hand \in FromPc /\ hand.mon \in Cells
    BY <1>9, HandCases DEF BankTake, TypeOK, Carried, Floating, FromPc, Cells
  <2>2. [buf EXCEPT ![s] = hand.mon] \in [Slots -> Cells]  BY <2>1 DEF TypeOK
  <2>3. box' \in [Boxes -> [Slots -> Cells]] /\ mishaps' \in 0..MaxMishaps
    BY <1>0, <1>9, <2>2, BoxWriteFrame DEF BankTake, BoxSave
  <2>4. buf' \in [Slots -> Cells]  BY <1>9, <2>2 DEF BankTake, TypeOK, Cells
  <2>5. pc' \in [PcSlots -> Cells]  BY <1>9 DEF BankTake, ReleasePc, TypeOK, Cells
  <2>6. dirty' \in BOOLEAN /\ staged' \in BOOLEAN  BY <1>9 DEF BankTake, BoxSave, TypeOK
  <2>7. QED
    BY <1>9, <2>3, <2>4, <2>5, <2>6 DEF BankTake, TypeOK, flush, history
<1>10. CASE LeaveBank
  <2>1. loaded \in Boxes /\ buf \in [Slots -> Cells]  BY <1>10 DEF LeaveBank, TypeOK
  <2>2. /\ box' \in [Boxes -> [Slots -> Cells]] /\ mishaps' \in 0..MaxMishaps
        /\ buf' \in [Slots -> Cells] /\ loaded' \in Boxes
        /\ {dirty', unread', smooth'} \subseteq BOOLEAN
    BY <1>0, <1>10, <2>1, BoxWriteFrame, BoxLoadFrame DEF LeaveBank, TypeOK, buffer
  <2>3. hand \in Carried \cup FromPc \cup {None}
    BY <1>10, HandCases DEF LeaveBank, Homeless, TypeOK, Floating
  <2>4. QED  BY <1>10, <2>2, <2>3, SlotFacts DEF LeaveBank, TypeOK, flush
<1>11. QED
  BY <1>1, <1>2, <1>3, <1>4, <1>5, <1>6, <1>7, <1>8, <1>9, <1>10 DEF BankScreen
\* And every step at the PC screen.
LEMMA PcScreenShape == Shape /\ PcScreen => Shape'
<1> SUFFICES ASSUME Shape, PcScreen PROVE Shape'
  OBVIOUS
<1> USE DEF Shape, HandShape, BufferShape, FlushShape
<1>0. TypeOK  OBVIOUS
<1>1. CASE PcCancel
  BY <1>1 DEF PcCancel, TypeOK, card, buffer, flush, history
<1>2. CASE CommitPc
  <2>1. sav' \in [PcSlots -> Cells] /\ staged' \in BOOLEAN /\ mishaps' \in 0..MaxMishaps
    BY <1>0, <1>2, MishapType DEF CommitPc, PcSave, TypeOK
  <2>2. QED  BY <1>2, <2>1 DEF CommitPc, TypeOK, buffer, flush, history
<1>3. ASSUME NEW s \in PcSlots, PcPick(s) PROVE Shape'
  <2>1. pc[s] \in Mons  BY <1>3 DEF PcPick, TypeOK, Cells
  <2>2. hand' \in FromPc  BY <1>3, <2>1 DEF PcPick, FromPc
  <2>3. touched' \subseteq Mons  BY <1>3, <2>1 DEF PcPick, Touch, TypeOK
  <2>4. QED
    BY <1>3, <2>2, <2>3, HandCases DEF PcPick, Touch, TypeOK, card, buffer, flush
<1>4. ASSUME NEW s \in PcSlots, PcTake(s) PROVE Shape'
  <2>1. hand \in Carried  BY <1>4 DEF PcTake, FromPc
  <2>2. [box |-> hand.box, slot |-> hand.slot, mon |-> hand.mon] \in Entries
    BY <2>1 DEF Carried, Entries
  <2>3. queue' \in Seq(Entries) /\ Len(queue') <= MaxDeletions
    BY <1>4, <2>2, SizeAssumption DEF PcTake, TypeOK
  <2>4. pc' \in [PcSlots -> Cells]  BY <1>4, <2>1 DEF PcTake, TypeOK, Carried
  <2>5. QED  BY <1>4, <2>3, <2>4 DEF PcTake, TypeOK, card, buffer, flush, history
<1>5. QED  BY <1>1, <1>2, <1>3, <1>4 DEF PcScreen

\* A flush begins with the whole queue to go through and nothing kept.
LEMMA StartFlushFrame ==
  ASSUME Shape, NEW next \in {"pc", "closed"}, StartFlush(next)
  PROVE  /\ at' = "flush" /\ resume' \in {"pc", "closed"}
         /\ left' \in Seq(Entries) /\ kept' \in Seq(Entries)
         /\ Len(left') + Len(kept') <= MaxDeletions
<1>1. queue \in Seq(Entries) /\ Len(queue) <= MaxDeletions  BY DEF Shape, TypeOK
<1>2. <<>> \in Seq(Entries) /\ Len(queue) + Len(<<>>) = Len(queue)  BY <1>1
<1>3. QED  BY <1>1, <1>2 DEF StartFlush

\* The queue is handed to a flush as it is, or the flush does not begin.
LEMMA SaveThenFlushFrame ==
  ASSUME Shape, NEW next \in {"pc", "closed"}, SaveThenFlush(next)
  PROVE  /\ sav' \in [PcSlots -> Cells] /\ staged' \in BOOLEAN /\ mishaps' \in 0..MaxMishaps
         /\ at' \in {"flush", next} /\ resume' \in {"pc", "closed"}
         /\ left' \in Seq(Entries) /\ kept' \in Seq(Entries)
         /\ Len(left') + Len(kept') <= MaxDeletions
<1>1. PcSave(TRUE) \/ PcSave(FALSE)  BY DEF SaveThenFlush
<1>2. /\ sav' \in [PcSlots -> Cells] /\ staged' \in BOOLEAN
      /\ mishaps' \in 0..MaxMishaps
  BY <1>1, MishapType DEF PcSave, Shape, TypeOK
<1>3. resume \in {"pc", "closed"} /\ {queue, left, kept} \subseteq Seq(Entries)
  BY DEF Shape, TypeOK
<1>4. CASE StartFlush(next)
  BY <1>2, <1>3, <1>4, StartFlushFrame
<1>5. CASE at' = next /\ UNCHANGED flush
  BY <1>2, <1>3, <1>5 DEF flush, Shape, FlushShape
<1>6. QED  BY <1>4, <1>5 DEF SaveThenFlush

\* And every step of a save or a flush.
LEMMA SavingShape == Shape /\ Saving => Shape'
<1> SUFFICES ASSUME Shape, Saving PROVE Shape'
  OBVIOUS
<1> USE DEF Shape, HandShape, BufferShape, FlushShape
<1>0. TypeOK /\ <<>> \in Seq(Entries) /\ Len(<<>>) = 0  OBVIOUS
<1>1. CASE SaveNow
  <2>1. SaveThenFlush("pc")  BY <1>1 DEF SaveNow
  <2>2. QED
    BY <1>0, <1>1, <2>1, SaveThenFlushFrame DEF SaveNow, TypeOK, buffer, history
<1>2. CASE Exit
  <2>1. CASE staged /\ SaveThenFlush("closed") /\ UNCHANGED <<pc, queue, smooth>>
    BY <1>0, <1>2, <2>1, SaveThenFlushFrame DEF Exit, TypeOK, buffer
  <2>2. CASE /\ staged /\ pc' = sav /\ staged' = FALSE /\ queue' = <<>> /\ at' = "closed"
             /\ smooth' = FALSE /\ UNCHANGED <<sav, flush, mishaps>>
    <3>1. queue' \in Seq(Entries) /\ Len(queue') <= MaxDeletions
      BY <1>0, <2>2, SizeAssumption
    <3>2. QED  BY <1>0, <1>2, <2>2, <3>1 DEF Exit, TypeOK, buffer, flush
  <2>3. CASE ~staged /\ StartFlush("closed") /\ UNCHANGED <<sav, pc, staged, queue, mishaps, smooth>>
    BY <1>0, <1>2, <2>3, StartFlushFrame DEF Exit, TypeOK, buffer
  <2>4. QED  BY <1>2, <2>1, <2>2, <2>3 DEF Exit
<1>3. ASSUME left # <<>>
      PROVE  /\ Head(left) \in Entries /\ Tail(left) \in Seq(Entries)
             /\ Append(kept, Head(left)) \in Seq(Entries)
             /\ Len(Tail(left)) + Len(kept) <= MaxDeletions
             /\ Len(Tail(left)) + Len(Append(kept, Head(left))) <= MaxDeletions
  BY <1>3, SizeAssumption DEF TypeOK
<1>4. CASE FlushPage
  <2>1. Head(left).box \in Boxes  BY <1>3, <1>4 DEF FlushPage, Entries
  <2>2. PICK stays \in BOOLEAN :
          /\ PageIn(Head(left).box, stays)
          /\ IF stays THEN Keep(Head(left)) ELSE at' = "delete" /\ UNCHANGED <<left, kept>>
    BY <1>4 DEF FlushPage
  <2>3. /\ box' \in [Boxes -> [Slots -> Cells]] /\ mishaps' \in 0..MaxMishaps
        /\ buf' \in [Slots -> Cells] /\ {dirty', unread'} \subseteq BOOLEAN
        /\ loaded' \in Boxes
    BY <1>0, <2>1, <2>2, PageInFrame
  <2>4. /\ left' \in Seq(Entries) /\ kept' \in Seq(Entries)
        /\ Len(left') + Len(kept') <= MaxDeletions /\ at' \in {"flush", "delete"}
        /\ at' = "delete" => left' # <<>>
    BY <1>3, <1>4, <2>2 DEF Keep, FlushPage, TypeOK
  <2>5. QED  BY <1>4, <2>3, <2>4 DEF FlushPage, TypeOK, history
<1>5. CASE FlushDelete
  <2> DEFINE rest == [buf EXCEPT ![Head(left).slot] = None]
  <2>1. rest \in [Slots -> Cells] /\ left # <<>> /\ loaded \in Boxes
    BY <1>5 DEF FlushDelete, TypeOK, Cells
  <2>2. Keep(Head(left)) \/ Drop  BY <1>5 DEF FlushDelete
  <2>3. /\ left' \in Seq(Entries) /\ kept' \in Seq(Entries) /\ at' = "flush"
        /\ Len(left') + Len(kept') <= MaxDeletions
    BY <1>3, <2>1, <2>2 DEF Keep, Drop, TypeOK
  <2>4. \/ UNCHANGED <<box, buf, dirty, mishaps>>
        \/ buf' = rest /\ \E ok \in BOOLEAN : BoxSave(rest, ok)
    BY <1>5 DEF FlushDelete
  <2>5. /\ box' \in [Boxes -> [Slots -> Cells]] /\ mishaps' \in 0..MaxMishaps
        /\ buf' \in [Slots -> Cells] /\ dirty' \in BOOLEAN
    <3>1. CASE UNCHANGED <<box, buf, dirty, mishaps>>  BY <3>1 DEF TypeOK
    <3>2. ASSUME NEW ok \in BOOLEAN, BoxSave(rest, ok), buf' = rest
          PROVE  /\ box' \in [Boxes -> [Slots -> Cells]] /\ mishaps' \in 0..MaxMishaps
                 /\ buf' \in [Slots -> Cells] /\ dirty' \in BOOLEAN
      BY <1>0, <2>1, <3>2, BoxWriteFrame DEF BoxSave, TypeOK
    <3>3. QED  BY <2>4, <3>1, <3>2
  <2>6. QED  BY <1>5, <2>1, <2>3, <2>5 DEF FlushDelete, TypeOK, history
<1>6. CASE FlushEnd
  <2>1. kept \in Seq(Entries) /\ Len(kept) <= MaxDeletions
    BY <1>0, <1>6 DEF FlushEnd, TypeOK
  <2>2. QED
    BY <1>0, <1>6, <2>1, SizeAssumption
    DEF FlushEnd, TypeOK, card, buffer, history
<1>7. QED  BY <1>1, <1>2, <1>4, <1>5, <1>6 DEF Saving

\* What the program is in is always well formed.
LEMMA ShapeStep == Shape /\ [Next]_vars => Shape'
<1> SUFFICES ASSUME Shape, [Next]_vars PROVE Shape'
  OBVIOUS
<1>1. CASE PowerCut
  <2>1. Bare \in [Slots -> Cells] /\ <<>> \in Seq(Entries) /\ Len(<<>>) = 0 /\ 0 <= MaxDeletions
    BY SizeAssumption DEF Bare, Cells
  <2>2. queue' = <<>> /\ left' = <<>> /\ kept' = <<>>  BY <1>1 DEF PowerCut
  <2>3. FlushShape'  BY <1>1, <2>1, <2>2 DEF PowerCut, FlushShape
  <2>4. TypeOK'  BY <1>1, <2>1, <2>2, SlotFacts DEF PowerCut, Shape, TypeOK, card
  <2>5. QED
    BY <1>1, <2>3, <2>4
    DEF PowerCut, Shape, HandShape, BufferShape
<1>2. CASE OpenSave
  <2>1. <<>> \in Seq(Entries) /\ Len(<<>>) = 0 /\ 0 <= MaxDeletions  BY SizeAssumption
  <2>2. QED
    BY <1>2, <2>1 DEF OpenSave, Shape, TypeOK, HandShape, BufferShape, FlushShape,
                      card, buffer, flush, history
<1>3. CASE UNCHANGED vars
  BY <1>3 DEF vars, Shape, TypeOK, HandShape, BufferShape, FlushShape
<1>4. QED
  BY <1>1, <1>2, <1>3, BankScreenShape, PcScreenShape, SavingShape DEF Next

\* Whatever the moves, the failed writes and the power cuts, the state of
\* the Bank and the PC stays in its type: no queue longer than BANK_DEL_MAX,
\* no hand from a cell that there is not.
THEOREM TypeCorrect == Spec => []TypeOK
<1>1. Shape => TypeOK  BY DEF Shape
<1>2. QED  BY <1>1, InitShape, ShapeStep, PTL DEF Spec
-----------------------------------------------------------------------------
(***************************************************************************)
(* Bystanders, when drops on taken cells are not in play.                  *)
(***************************************************************************)
\* A step that leaves every untouched Pokemon where it is on the card.
CardKeeps ==
  /\ Alike(sav', sav, PcSlots, Untouched')
  /\ \A b \in Boxes : Alike(box'[b], box[b], Slots, Untouched')

\* A write of a buffer that has the bystanders where the file has them
\* moves none of them.
LEMMA BoxWriteKeeps ==
  ASSUME Shape, RamAgrees, NEW content \in [Slots -> Cells],
         Alike(content, buf, Slots, Untouched), NEW ok, BoxWrite(content, ok)
  PROVE  /\ \A b \in Boxes : Alike(box'[b], box[b], Slots, Untouched)
         /\ loaded \in Boxes /\ ~unread => Alike(content, box'[loaded], Slots, Untouched)
<1> USE DEF Alike
<1>1. box \in [Boxes -> [Slots -> Cells]]  BY DEF Shape, TypeOK
<1>2. loaded \in Boxes /\ ~unread => Alike(content, box[loaded], Slots, Untouched)
  BY DEF RamAgrees
<1>3. CASE box' = box
  BY <1>2, <1>3
<1>4. CASE ~unread /\ box' = [box EXCEPT ![loaded] = content]
  BY <1>1, <1>2, <1>4
<1>5. QED  BY <1>3, <1>4, BoxWriteFrame DEF Shape

\* So does a page-in, and the buffer it leaves agrees with its file.
LEMMA PageInKeeps ==
  ASSUME Shape, RamAgrees, NEW b \in Boxes, NEW stays \in BOOLEAN, PageIn(b, stays)
  PROVE  /\ \A c \in Boxes : Alike(box'[c], box[c], Slots, Untouched)
         /\ loaded' \in Boxes /\ ~unread' => Alike(buf', box'[loaded'], Slots, Untouched)
<1>0. /\ box \in [Boxes -> [Slots -> Cells]] /\ buf \in [Slots -> Cells] /\ TypeOK
      /\ Alike(buf, buf, Slots, Untouched)
  BY DEF Shape, TypeOK, Alike
<1>1. CASE ~stays /\ loaded = b /\ UNCHANGED <<box, buffer, mishaps>>
  BY <1>1 DEF buffer, RamAgrees, Alike
<1>2. CASE BoxLoad(b) /\ UNCHANGED box
  BY <1>0, <1>2, BoxLoadFrame DEF Alike
<1>3. CASE /\ loaded # b /\ dirty /\ ~unread
           /\ box' = [box EXCEPT ![loaded] = buf] /\ BoxLoad(b)
  <2>1. loaded \in Boxes /\ box'[b] = box[b]
    BY <1>0, <1>3 DEF Shape, BufferShape
  <2>2. \A c \in Boxes : Alike(box'[c], box[c], Slots, Untouched)
    BY <1>0, <1>3, <2>1 DEF RamAgrees, Alike
  <2>3. QED  BY <1>0, <1>3, <2>1, <2>2, BoxLoadFrame DEF Alike
<1>4. CASE stays /\ BoxSave(buf, FALSE) /\ UNCHANGED <<buf, loaded, unread>>
  BY <1>0, <1>4, BoxWriteKeeps DEF BoxSave
<1>5. QED  BY <1>1, <1>2, <1>3, <1>4 DEF PageIn
\* What is left alone keeps agreeing.
LEMMA StillKeeps ==
  ASSUME Bystanders, UNCHANGED <<sav, touched>>
  PROVE  /\ UNCHANGED pc => Alike(pc', sav', PcSlots, Untouched')
         /\ UNCHANGED box => CardKeeps
         /\ UNCHANGED <<hand, queue, left, kept>> => TouchedOnly'
         /\ UNCHANGED <<box, buf, loaded, unread>> /\ UNCHANGED pc => RamAgrees'
  BY DEF Bystanders, RamAgrees, CardKeeps, TouchedOnly, AllTouched, Alike, Untouched

\* Every step at the Bank screen leaves the bystanders alone.
LEMMA BankScreenKeeps ==
  ASSUME Swaps = FALSE, Bystanders, BankScreen
  PROVE  TouchedOnly' /\ RamAgrees' /\ CardKeeps
<1>0. Shape /\ RamAgrees /\ TouchedOnly /\ TypeOK  BY DEF Bystanders, Shape
<1>1. ASSUME NEW b \in Boxes, NEW stays \in BOOLEAN, PageIn(b, stays),
             UNCHANGED <<sav, pc, touched, hand, queue, left, kept>>
      PROVE  TouchedOnly' /\ RamAgrees' /\ CardKeeps
  <2>1. TouchedOnly' /\ Alike(pc', sav', PcSlots, Untouched')  BY <1>1, StillKeeps
  <2>2. Untouched' = Untouched  BY <1>1 DEF Untouched
  <2>3. /\ \A c \in Boxes : Alike(box'[c], box[c], Slots, Untouched)
        /\ loaded' \in Boxes /\ ~unread' => Alike(buf', box'[loaded'], Slots, Untouched)
    BY <1>0, <1>1, PageInKeeps
  <2>4. Alike(sav', sav, PcSlots, Untouched')  BY <1>1 DEF Alike
  <2>5. QED  BY <2>1, <2>2, <2>3, <2>4 DEF RamAgrees, CardKeeps
<1>2. CASE EnterBank
  <2>1. TouchedOnly' /\ Alike(pc', sav', PcSlots, Untouched') /\ CardKeeps
    BY <1>2, StillKeeps DEF EnterBank, card, flush, history
  <2>2. ~unread' => buf' = box'[loaded']
    BY <1>0, <1>2, BoxLoadFrame, SlotFacts DEF EnterBank, card
  <2>3. QED  BY <2>1, <2>2 DEF RamAgrees, Alike
<1>3. ASSUME NEW b \in Boxes, FlipPage(b) PROVE TouchedOnly' /\ RamAgrees' /\ CardKeeps
  BY <1>1, <1>3 DEF FlipPage, flush, history
<1>4. ASSUME NEW s \in Slots, BankPick(s) PROVE TouchedOnly' /\ RamAgrees' /\ CardKeeps
  <2>1. touched \subseteq touched' /\ Untouched' \subseteq Untouched
    BY <1>4 DEF BankPick, Touch, Untouched
  <2>2. hand'.mon \in touched' /\ hand'.slot # 0 /\ hand'.next = Free
    BY <1>4, SlotFacts DEF BankPick, Shown, Held, Touch
  <2>3. TouchedOnly'
    BY <1>0, <1>4, <2>1, <2>2 DEF BankPick, TouchedOnly, AllTouched, flush
  <2>4. RamAgrees' /\ CardKeeps
    BY <1>0, <1>4, <2>1 DEF BankPick, RamAgrees, CardKeeps, Alike, card, buffer
  <2>5. QED  BY <2>3, <2>4
<1>5. CASE BankCancel
  <2>1. ~Homeless  BY <1>0, <1>5 DEF BankCancel, TouchedOnly, Homeless
  <2>2. hand' = None /\ UNCHANGED <<sav, box, pc, touched, buf, loaded, unread, queue, left, kept>>
    BY <1>5, <2>1 DEF BankCancel, card, flush, history
  <2>3. TouchedOnly'  BY <1>0, <2>2 DEF TouchedOnly, AllTouched
  <2>4. QED  BY <2>2, <2>3, StillKeeps
<1>6. ASSUME NEW s \in Slots, BankDrop(s) PROVE TouchedOnly' /\ RamAgrees' /\ CardKeeps
  <2>1. ~Homeless /\ hand # None /\ hand.mon \in touched /\ hand.next = Free /\ buf[s] = None
    BY <1>0, <1>6 DEF BankDrop, TouchedOnly, Homeless, Taken
  <2>2. /\ hand' = [hand EXCEPT !.next = Free] /\ buf' = [buf EXCEPT ![s] = hand.mon]
        /\ UNCHANGED <<sav, box, pc, touched, loaded, unread, queue, left, kept>>
    BY <1>6, <2>1 DEF BankDrop, Place, card, flush, history
  <2>3. hand \in Carried  BY <1>0, <2>1, HandCases, <1>6 DEF TypeOK, Homeless, Floating, FromPc, BankDrop
  <2>4. hand' = hand  BY <2>1, <2>2, <2>3 DEF Carried
  <2>5. TouchedOnly' /\ CardKeeps /\ Alike(pc', sav', PcSlots, Untouched')
    BY <2>2, <2>4, StillKeeps
  <2>6. Alike(buf', buf, Slots, Untouched)
    BY <1>0, <2>1, <2>2, MonAssumption DEF Alike, Untouched, TypeOK
  <2>7. RamAgrees'
    BY <1>0, <2>2, <2>5, <2>6 DEF RamAgrees, Alike, Untouched
  <2>8. QED  BY <2>5, <2>7
<1>7. ASSUME NEW s \in Slots, BankSwap(s) PROVE TouchedOnly' /\ RamAgrees' /\ CardKeeps
  BY <1>7 DEF BankSwap
<1>8. CASE ClearOrigin
  <2>1. hand.box \in Boxes  BY <1>0, <1>8 DEF ClearOrigin, Shape, HandShape, Carried
  <2>2. QED  BY <1>1, <1>8, <2>1 DEF ClearOrigin, flush, history
<1>9. CASE WipeOrigin
  <2>1. hand \in Carried /\ hand # None
    BY <1>0, <1>9, HandCases, HandAssumption DEF WipeOrigin, Shape, HandShape
  <2>2. hand.mon \in touched /\ hand.next = Free  BY <1>0, <2>1 DEF TouchedOnly
  <2>3. hand' = None /\ UNCHANGED <<sav, box, pc, touched, loaded, unread, queue, left, kept>>
    BY <1>9, <2>2 DEF WipeOrigin, InHand, card, flush, history
  <2>4. TouchedOnly' /\ CardKeeps /\ Alike(pc', sav', PcSlots, Untouched')
    BY <1>0, <2>3, StillKeeps DEF TouchedOnly, AllTouched
  <2>5. Alike(buf', buf, Slots, Untouched)
    BY <1>0, <1>9, <2>2, MonAssumption DEF WipeOrigin, Alike, Untouched, TypeOK
  <2>6. RamAgrees'  BY <1>0, <2>3, <2>4, <2>5 DEF RamAgrees, Alike, Untouched
  <2>7. QED  BY <2>4, <2>6
<1>10. CASE PageBack
  <2>1. page \in Boxes  BY <1>0 DEF TypeOK
  <2>2. QED  BY <1>1, <1>10, <2>1 DEF PageBack, flush, history
<1>11. ASSUME NEW s \in Slots, BankTake(s) PROVE TouchedOnly' /\ RamAgrees' /\ CardKeeps
  <2> DEFINE full == [buf EXCEPT ![s] = hand.mon]
  <2>1. hand # None /\ hand.mon \in touched /\ hand.mon \in Cells /\ buf[s] = None
    BY <1>0, <1>11 DEF BankTake, TouchedOnly, Taken, TypeOK, Cells
  <2>2. UNCHANGED <<sav, loaded, unread, touched, queue, left, kept>>
    BY <1>11 DEF BankTake, flush, history
  <2>3. full \in [Slots -> Cells] /\ Alike(full, buf, Slots, Untouched)
    BY <1>0, <2>1, MonAssumption DEF Alike, Untouched, TypeOK
  <2>4. BoxSave(full, TRUE) \/ BoxSave(full, FALSE)  BY <1>11 DEF BankTake
  <2>5. /\ \A b \in Boxes : Alike(box'[b], box[b], Slots, Untouched)
        /\ loaded \in Boxes /\ ~unread => Alike(full, box'[loaded], Slots, Untouched)
    BY <1>0, <2>3, <2>4, BoxWriteKeeps DEF BoxSave
  <2>6. CardKeeps  BY <2>2, <2>5 DEF CardKeeps, Alike, Untouched
  <2>7. Alike(buf', full, Slots, Untouched)
    BY <1>0, <1>11, <2>1, MonAssumption DEF BankTake, Alike, Untouched, TypeOK
  <2>8. Alike(pc', pc, PcSlots, Untouched)
    BY <1>0, <1>11, <2>1, MonAssumption DEF BankTake, ReleasePc, Alike, Untouched, TypeOK
  <2>9. RamAgrees'  BY <1>0, <2>2, <2>5, <2>7, <2>8 DEF RamAgrees, Alike, Untouched
  <2>10. hand' \in {hand, None}  BY <1>11 DEF BankTake
  <2>11. TouchedOnly'  BY <1>0, <2>2, <2>10 DEF TouchedOnly, AllTouched
  <2>12. QED  BY <2>6, <2>9, <2>11
<1>12. CASE LeaveBank
  <2>1. loaded \in Boxes /\ buf \in [Slots -> Cells] /\ Alike(buf, buf, Slots, Untouched)
    BY <1>0, <1>12 DEF LeaveBank, Shape, BufferShape, TypeOK, Alike
  <2>2. UNCHANGED <<sav, pc, touched, hand, queue, left, kept>>
    BY <1>12 DEF LeaveBank, flush
  <2>3. TouchedOnly' /\ Alike(pc', sav', PcSlots, Untouched')  BY <2>2, StillKeeps
  <2>4. CASE UNCHANGED <<box, buffer>>
    BY <2>2, <2>3, <2>4, StillKeeps DEF buffer
  <2>5. ASSUME NEW ok \in BOOLEAN, BoxWrite(buf, ok), UNCHANGED <<buf, loaded, unread>>
        PROVE  RamAgrees' /\ CardKeeps
    <3>1. /\ \A b \in Boxes : Alike(box'[b], box[b], Slots, Untouched)
          /\ ~unread => Alike(buf, box'[loaded], Slots, Untouched)
      BY <1>0, <2>1, <2>5, BoxWriteKeeps
    <3>2. Untouched' = Untouched /\ Alike(sav', sav, PcSlots, Untouched)
      BY <2>2 DEF Untouched, Alike
    <3>3. QED  BY <2>3, <2>5, <3>1, <3>2 DEF RamAgrees, CardKeeps
  <2>6. CASE BoxLoad(loaded) /\ UNCHANGED box
    <3>1. ~unread' => buf' = box'[loaded']  BY <1>0, <2>1, <2>6, BoxLoadFrame
    <3>2. CardKeeps  BY <2>2, <2>6, StillKeeps
    <3>3. QED  BY <2>3, <3>1, <3>2 DEF RamAgrees, Alike
  <2>7. QED  BY <1>12, <2>3, <2>4, <2>5, <2>6 DEF LeaveBank
<1>13. QED
  BY <1>2, <1>3, <1>4, <1>5, <1>6, <1>7, <1>8, <1>9, <1>10, <1>11, <1>12 DEF BankScreen
\* Every step at the PC screen leaves the bystanders alone.
LEMMA PcScreenKeeps ==
  ASSUME Bystanders, PcScreen
  PROVE  TouchedOnly' /\ RamAgrees' /\ CardKeeps
<1>0. Shape /\ RamAgrees /\ TouchedOnly /\ TypeOK  BY DEF Bystanders, Shape
<1>1. CASE PcCancel
  <2>1. TouchedOnly'
    BY <1>0, <1>1 DEF PcCancel, TouchedOnly, AllTouched, flush, history
  <2>2. QED  BY <1>1, <2>1, StillKeeps DEF PcCancel, card, buffer, history
<1>2. CASE CommitPc
  <2>1. sav' \in {sav, pc} /\ UNCHANGED <<box, pc, touched, buf, loaded, unread>>
    BY <1>2 DEF CommitPc, PcSave, buffer, history
  <2>2. RamAgrees' /\ CardKeeps
    BY <1>0, <2>1 DEF RamAgrees, CardKeeps, Alike, Untouched
  <2>3. TouchedOnly'
    BY <1>0, <1>2 DEF CommitPc, TouchedOnly, AllTouched, flush, history
  <2>4. QED  BY <2>2, <2>3
<1>3. ASSUME NEW s \in PcSlots, PcPick(s) PROVE TouchedOnly' /\ RamAgrees' /\ CardKeeps
  <2>1. touched \subseteq touched' /\ Untouched' \subseteq Untouched
    BY <1>3 DEF PcPick, Touch, Untouched
  <2>2. hand'.mon \in touched' /\ hand'.slot # 0 /\ hand'.next = Free
    BY <1>3, SlotFacts DEF PcPick, Touch
  <2>3. TouchedOnly'
    BY <1>0, <1>3, <2>1, <2>2 DEF PcPick, TouchedOnly, AllTouched, flush
  <2>4. RamAgrees' /\ CardKeeps
    BY <1>0, <1>3, <2>1 DEF PcPick, RamAgrees, CardKeeps, Alike, card, buffer
  <2>5. QED  BY <2>3, <2>4
<1>4. ASSUME NEW s \in PcSlots, PcTake(s) PROVE TouchedOnly' /\ RamAgrees' /\ CardKeeps
  <2> DEFINE entry == [box |-> hand.box, slot |-> hand.slot, mon |-> hand.mon]
  <2>1. hand # None /\ hand.mon \in touched /\ pc[s] = None
    BY <1>0, <1>4 DEF PcTake, TouchedOnly
  <2>2. Alike(pc', pc, PcSlots, Untouched)
    BY <1>0, <1>4, <2>1, MonAssumption DEF PcTake, Alike, Untouched, TypeOK
  <2>3. UNCHANGED <<sav, box, touched, buf, loaded, unread, left, kept>>
    BY <1>4 DEF PcTake, card, buffer, flush, history
  <2>4. RamAgrees' /\ CardKeeps
    BY <1>0, <2>2, <2>3 DEF RamAgrees, CardKeeps, Alike, Untouched
  <2>5. queue' = Append(queue, entry) /\ hand' = None  BY <1>4 DEF PcTake
  <2>6. AllTouched(queue)'
    BY <1>0, <2>1, <2>3, <2>5 DEF AllTouched, TouchedOnly, TypeOK
  <2>7. QED  BY <1>0, <2>3, <2>4, <2>5, <2>6 DEF TouchedOnly, AllTouched
<1>5. QED  BY <1>1, <1>2, <1>3, <1>4 DEF PcScreen

\* Every step of a save or a flush leaves the bystanders alone.
LEMMA SavingKeeps ==
  ASSUME Bystanders, Saving
  PROVE  TouchedOnly' /\ RamAgrees' /\ CardKeeps
<1>0. Shape /\ RamAgrees /\ TouchedOnly /\ TypeOK  BY DEF Bystanders, Shape
<1>1. ASSUME sav' \in {sav, pc}, UNCHANGED <<box, touched, buf, loaded, unread>>,
             UNCHANGED pc \/ (pc' = sav /\ sav' = sav)
      PROVE  RamAgrees' /\ CardKeeps
  BY <1>0, <1>1 DEF RamAgrees, CardKeeps, Alike, Untouched
<1>2. AllTouched(<<>>)  BY DEF AllTouched
<1>3. ASSUME left' \in {left, queue}, kept' \in {kept, <<>>}, UNCHANGED <<hand, touched, queue>>
      PROVE  TouchedOnly'
  BY <1>0, <1>2, <1>3 DEF TouchedOnly, AllTouched
<1>4. CASE SaveNow
  <2>1. /\ sav' \in {sav, pc} /\ left' \in {left, queue} /\ kept' \in {kept, <<>>}
        /\ UNCHANGED <<box, pc, hand, touched, queue, buf, loaded, unread>>
    BY <1>4 DEF SaveNow, SaveThenFlush, StartFlush, PcSave, flush, buffer, history
  <2>2. QED  BY <1>1, <1>3, <2>1
<1>5. CASE Exit
  <2>1. CASE staged /\ SaveThenFlush("closed") /\ UNCHANGED <<pc, queue, smooth>>
    <3>1. /\ sav' \in {sav, pc} /\ left' \in {left, queue} /\ kept' \in {kept, <<>>}
          /\ UNCHANGED <<box, pc, hand, touched, queue, buf, loaded, unread>>
      BY <1>5, <2>1 DEF Exit, SaveThenFlush, StartFlush, PcSave, flush, buffer
    <3>2. QED  BY <1>1, <1>3, <3>1
  <2>2. CASE /\ staged /\ pc' = sav /\ staged' = FALSE /\ queue' = <<>> /\ at' = "closed"
             /\ smooth' = FALSE /\ UNCHANGED <<sav, flush, mishaps>>
    <3>1. TouchedOnly'
      BY <1>0, <1>2, <1>5, <2>2 DEF Exit, TouchedOnly, AllTouched, flush
    <3>2. QED  BY <1>1, <1>5, <2>2, <3>1 DEF Exit, buffer
  <2>3. CASE ~staged /\ StartFlush("closed") /\ UNCHANGED <<sav, pc, staged, queue, mishaps, smooth>>
    BY <1>1, <1>3, <1>5, <2>3 DEF Exit, StartFlush, buffer
  <2>4. QED  BY <1>5, <2>1, <2>2, <2>3 DEF Exit
<1>6. ASSUME left # <<>>, Keep(Head(left)) \/ Drop \/ UNCHANGED <<left, kept>>,
             UNCHANGED <<hand, touched, queue>>
      PROVE  TouchedOnly'
  <2>1. /\ left \in Seq(Entries) /\ kept \in Seq(Entries)
        /\ AllTouched(left) /\ AllTouched(kept)
    BY <1>0 DEF TypeOK, TouchedOnly
  <2>2. Head(left).mon \in touched /\ AllTouched(Tail(left))
    BY <1>6, <2>1 DEF AllTouched
  <2>3. AllTouched(Append(kept, Head(left)))  BY <1>6, <2>1, <2>2 DEF AllTouched
  <2>4. left' \in {left, Tail(left)} /\ kept' \in {kept, Append(kept, Head(left))}
    BY <1>6 DEF Keep, Drop
  <2>5. QED  BY <1>0, <1>6, <2>1, <2>2, <2>3, <2>4 DEF TouchedOnly, AllTouched
<1>7. CASE FlushPage
  <2>1. left # <<>> /\ UNCHANGED <<sav, pc, hand, touched, queue>>
    BY <1>7 DEF FlushPage, history
  <2>2. Head(left) \in Entries /\ Head(left).box \in Boxes
    <3>1. left \in Seq(Entries)  BY <1>0 DEF TypeOK
    <3>2. Head(left) \in Entries  BY <2>1, <3>1, HeadTailProperties
    <3>3. QED  BY <3>2 DEF Entries
  <2>3. PICK stays \in BOOLEAN :
          /\ PageIn(Head(left).box, stays)
          /\ IF stays THEN Keep(Head(left)) ELSE at' = "delete" /\ UNCHANGED <<left, kept>>
    BY <1>7 DEF FlushPage
  <2>4. TouchedOnly'  BY <1>6, <2>1, <2>3
  <2>5. /\ \A c \in Boxes : Alike(box'[c], box[c], Slots, Untouched)
        /\ loaded' \in Boxes /\ ~unread' => Alike(buf', box'[loaded'], Slots, Untouched)
    BY <1>0, <2>2, <2>3, PageInKeeps
  <2>6. QED  BY <1>0, <2>1, <2>4, <2>5 DEF RamAgrees, CardKeeps, Alike, Untouched
<1>8. CASE FlushDelete
  <2> DEFINE rest == [buf EXCEPT ![Head(left).slot] = None]
  <2>1. left # <<>> /\ UNCHANGED <<sav, pc, hand, touched, queue, loaded, unread>>
    BY <1>0, <1>8 DEF FlushDelete, Shape, FlushShape, history
  <2>2. Keep(Head(left)) \/ Drop  BY <1>8 DEF FlushDelete
  <2>3. TouchedOnly'  BY <1>6, <2>1, <2>2
  <2>4. CASE UNCHANGED <<box, buf>>
    BY <1>1, <2>1, <2>3, <2>4
  <2>5. ASSUME NEW ok \in BOOLEAN, BoxSave(rest, ok), buf' = rest,
               buf[Head(left).slot] = Head(left).mon
        PROVE  RamAgrees' /\ CardKeeps
    <3>1. Head(left).mon \in touched
      BY <1>0, <2>1 DEF TouchedOnly, AllTouched, TypeOK
    <3>2. rest \in [Slots -> Cells] /\ Alike(rest, buf, Slots, Untouched)
      BY <1>0, <2>5, <3>1, MonAssumption DEF Alike, Untouched, TypeOK, Cells
    <3>3. /\ \A b \in Boxes : Alike(box'[b], box[b], Slots, Untouched)
          /\ loaded \in Boxes /\ ~unread => Alike(rest, box'[loaded], Slots, Untouched)
      BY <1>0, <2>5, <3>2, BoxWriteKeeps DEF BoxSave
    <3>4. QED  BY <1>0, <2>1, <2>5, <3>3 DEF RamAgrees, CardKeeps, Alike, Untouched
  <2>6. QED  BY <1>8, <2>3, <2>4, <2>5 DEF FlushDelete
<1>9. CASE FlushEnd
  <2>1. TouchedOnly'
    BY <1>0, <1>2, <1>9 DEF FlushEnd, TouchedOnly, AllTouched, history
  <2>2. QED  BY <1>1, <1>9, <2>1 DEF FlushEnd, card, buffer, history
<1>10. QED  BY <1>4, <1>5, <1>7, <1>8, <1>9 DEF Saving

\* And so does every other step, the power cut included.
LEMMA StepKeeps ==
  ASSUME Swaps = FALSE, Bystanders, [Next]_vars
  PROVE  Bystanders' /\ CardKeeps
<1>0. Shape' /\ AllTouched(<<>>)  BY ShapeStep DEF Bystanders, AllTouched
<1>1. CASE PowerCut
  <2>1. UNCHANGED <<sav, box, touched>> /\ pc' = sav /\ loaded' = None /\ hand' = None
    BY <1>1 DEF PowerCut, card
  <2>2. queue' = <<>> /\ left' = <<>> /\ kept' = <<>>  BY <1>1 DEF PowerCut
  <2>3. RamAgrees' /\ CardKeeps
    BY <2>1, SlotFacts DEF RamAgrees, CardKeeps, Alike
  <2>4. TouchedOnly'  BY <1>0, <2>1, <2>2 DEF TouchedOnly, AllTouched
  <2>5. QED  BY <1>0, <2>3, <2>4 DEF Bystanders
<1>2. CASE OpenSave
  <2>1. UNCHANGED <<sav, box, touched, buf, loaded, unread, left, kept>>
    BY <1>2 DEF OpenSave, card, buffer, flush, history
  <2>2. pc' = sav /\ hand' = None /\ queue' = <<>>  BY <1>2 DEF OpenSave
  <2>3. RamAgrees' /\ CardKeeps
    BY <2>1, <2>2 DEF Bystanders, RamAgrees, CardKeeps, Alike, Untouched
  <2>4. TouchedOnly'  BY <1>0, <2>1, <2>2 DEF Bystanders, TouchedOnly, AllTouched
  <2>5. QED  BY <1>0, <2>3, <2>4 DEF Bystanders
<1>3. CASE UNCHANGED vars
  BY <1>0, <1>3, StillKeeps DEF vars, Bystanders
<1>4. CASE BankScreen \/ PcScreen \/ Saving
  BY <1>0, <1>4, BankScreenKeeps, PcScreenKeeps, SavingKeeps DEF Bystanders
<1>5. QED  BY <1>1, <1>2, <1>3, <1>4 DEF Next

\* While every drop goes to a free cell, a Pokemon the user never touched
\* stays in its cell on the card: no page flip with a failed save, no
\* clear_origin that was handed another box's buffer, no deletion that comes
\* late or is tried again, and no power cut moves or deletes it.
THEOREM UntouchedStay ==
  ASSUME Swaps = FALSE
  PROVE  Spec => BystandersStay
<1>1. Init => Bystanders
  <2>1. SUFFICES ASSUME Init PROVE Bystanders
    OBVIOUS
  <2>2. TouchedOnly /\ RamAgrees
    BY <2>1, SlotFacts DEF Init, TouchedOnly, AllTouched, RamAgrees, Alike
  <2>3. QED  BY <2>1, <2>2, InitShape DEF Bystanders
<1>2. Bystanders /\ [Next]_vars => Bystanders'  BY StepKeeps
<1>3. Bystanders /\ [Next]_vars =>
        [\A m \in Mons : m \notin touched' =>
           PlacesInSav(m)' = PlacesInSav(m) /\ PlacesInBank(m)' = PlacesInBank(m)]_vars
  <2>1. SUFFICES ASSUME Bystanders, [Next]_vars, NEW m \in Mons, m \notin touched'
                 PROVE  PlacesInSav(m)' = PlacesInSav(m) /\ PlacesInBank(m)' = PlacesInBank(m)
    OBVIOUS
  <2>2. CardKeeps /\ m \in Untouched'  BY <2>1, StepKeeps DEF Untouched
  <2>3. PlacesInSav(m)' = PlacesInSav(m)  BY <2>2 DEF CardKeeps, Alike, PlacesInSav
  <2>4. PlacesInBank(m)' = PlacesInBank(m)  BY <2>2 DEF CardKeeps, Alike, PlacesInBank
  <2>5. QED  BY <2>3, <2>4
<1>4. QED  BY <1>1, <1>2, <1>3, PTL DEF Spec, BystandersStay

-----------------------------------------------------------------------------
(***************************************************************************)
(* A move that nothing disturbed is exact.                                 *)
(***************************************************************************)
\* The cells of the PC and of the Bank, and what they hold with the buffer for
\* the file of its box.
Places == (Boxes \X Slots) \cup ({None} \X PcSlots)
View == [b \in Boxes |-> IF loaded = b THEN buf ELSE box[b]]
Holds == [p \in Places |-> IF p[1] = None THEN pc[p[2]] ELSE View[p[1]][p[2]]]

\* The deletions that are due, and the cells that are to be cleared: theirs,
\* and the one a Pokemon was just carried from within the Bank.
Due == IF at \in {"flush", "delete"} THEN left ELSE queue
DueCell(n) == <<Due[n].box, Due[n].slot>>
Origin == <<hand.box, hand.slot>>
Spare == {DueCell(n) : n \in DOMAIN Due}
         \cup (IF at \in {"clear", "wipe"} THEN {Origin} ELSE {})

\* Every Pokemon is in exactly one of the places.
One(h, places) ==
  \A m \in Mons : \E p \in places : h[p] = m /\ \A q \in places : h[q] = m => q = p

\* Where nothing fails the program knows what is on the card: what is in the
\* buffer is what the file holds or is to be saved, and the PC is in the .sav
\* or marked as ahead of it.
Tidy ==
  /\ ~unread /\ kept = <<>>
  /\ loaded \in Boxes /\ ~dirty => buf = box[loaded]
  /\ at \in {"pc", "closed", "flush", "delete"} => ~dirty
  /\ at \in {"bank", "clear"} => loaded = page
  /\ at = "wipe" => loaded = hand.box
  /\ at = "delete" => loaded = Head(left).box
  /\ ~staged => sav = pc
  /\ at \in {"closed", "flush", "delete"} => ~staged
  /\ at = "closed" => queue = <<>>

\* A cell that is to be cleared holds what it is to be cleared of, and is due
\* once; so does the cell of the Pokemon in the hand, which is not due.
DueHolds ==
  \A n \in DOMAIN Due :
    /\ Due[n].mon \in Mons /\ Holds[DueCell(n)] = Due[n].mon
    /\ \A k \in DOMAIN Due : DueCell(k) = DueCell(n) => k = n
HandHolds ==
  hand # None =>
    /\ hand.mon \in Mons /\ Holds[Origin] = hand.mon
    /\ \A n \in DOMAIN Due : DueCell(n) # Origin
OneEach == One(Holds, Places \ Spare)

Exactly == Tidy /\ DueHolds /\ HandHolds /\ OneEach
SoFar == smooth /\ mishaps = 0
ExactInv == SoFar => Exactly

-----------------------------------------------------------------------------
\* What the places hold.
LEMMA PlacesHold ==
  ASSUME TypeOK
  PROVE  /\ View \in [Boxes -> [Slots -> Cells]] /\ Holds \in [Places -> Cells]
         /\ \A s \in PcSlots : <<None, s>> \in Places /\ Holds[<<None, s>>] = pc[s]
         /\ \A b \in Boxes, s \in Slots : /\ <<b, s>> \in Places /\ Holds[<<b, s>>] = View[b][s]
                                          /\ \A r \in PcSlots : <<b, s>> # <<None, r>>
<1>1. View \in [Boxes -> [Slots -> Cells]]  BY DEF View, TypeOK
<1>2. \A s \in PcSlots : <<None, s>> \in Places /\ Holds[<<None, s>>] = pc[s]
  BY DEF Places, Holds
<1>3. \A b \in Boxes, s \in Slots : <<b, s>> \in Places /\ Holds[<<b, s>>] = View[b][s]
  BY SlotFacts DEF Places, Holds
<1>4. Holds \in [Places -> Cells]
  <2>1. ASSUME NEW p \in Places PROVE Holds[p] \in Cells
    <3>1. CASE p \in Boxes \X Slots
      <4>1. p = <<p[1], p[2]>> /\ p[1] \in Boxes /\ p[2] \in Slots  BY <3>1
      <4>2. Holds[p] = View[p[1]][p[2]]  BY <1>3, <4>1
      <4>3. QED  BY <1>1, <4>1, <4>2
    <3>2. CASE p \in {None} \X PcSlots
      <4>1. p = <<None, p[2]>> /\ p[2] \in PcSlots  BY <3>2
      <4>2. Holds[p] = pc[p[2]]  BY <1>2, <4>1
      <4>3. QED  BY <4>1, <4>2 DEF TypeOK
    <3>3. QED  BY <2>1, <3>1, <3>2 DEF Places
  <2>2. QED  BY <2>1 DEF Holds
<1>5. \A b \in Boxes, s \in Slots, r \in PcSlots : <<b, s>> # <<None, r>>  BY SlotFacts
<1>6. QED  BY <1>1, <1>2, <1>3, <1>4, <1>5

\* The cell of a deletion, and of the Pokemon in the hand, is a place.
LEMMA DueInBank ==
  ASSUME TypeOK, NEW n \in DOMAIN Due
  PROVE  Due[n].box \in Boxes /\ Due[n].slot \in Slots /\ DueCell(n) \in Places
<1>1. Due \in Seq(Entries)  BY DEF Due, TypeOK
<1>2. Due[n] \in Entries  BY <1>1
<1>3. QED  BY <1>2, PlacesHold DEF Entries, DueCell

LEMMA HandInPlace ==
  ASSUME TypeOK, TouchedOnly, hand # None
  PROVE  /\ hand.from = "bank" => hand \in Carried /\ hand.box \in Boxes /\ hand.slot \in Slots
         /\ hand.from = "pc" => hand \in FromPc /\ hand.box = None /\ hand.slot \in PcSlots
         /\ hand.from \in {"bank", "pc"} /\ Origin \in Places /\ hand.next = Free
<1>1. hand \in Carried \cup FromPc
  BY HandCases DEF TypeOK, TouchedOnly, Floating
<1>2. hand.next = Free  BY DEF TouchedOnly
<1>3. CASE hand \in Carried
  <2>1. hand.from = "bank" /\ hand.box \in Boxes /\ hand.slot \in Slots  BY <1>3 DEF Carried
  <2>2. QED  BY <1>2, <1>3, <2>1, PlacesHold DEF Origin
<1>4. CASE hand \in FromPc
  <2>1. hand.from = "pc" /\ hand.box = None /\ hand.slot \in PcSlots  BY <1>4 DEF FromPc
  <2>2. QED  BY <1>2, <1>4, <2>1, PlacesHold DEF Origin
<1>5. QED  BY <1>1, <1>3, <1>4

\* A Pokemon that moves to an empty place is still in one place: the place it
\* came from is empty, or spare, from then on.
LEMMA OneMoved ==
  ASSUME NEW h, NEW g, NEW ps, NEW qs, NEW from \in ps, NEW to \in ps,
         One(h, ps), h[to] = None, h[from] \in Mons,
         qs \subseteq ps, ps \ {from} \subseteq qs, from \notin qs \/ g[from] = None,
         g[to] = h[from], \A p \in ps \ {from, to} : g[p] = h[p]
  PROVE  One(g, qs)
<1>1. from # to /\ to \in qs  BY MonAssumption
<1>2. SUFFICES ASSUME NEW m \in Mons
               PROVE  \E p \in qs : g[p] = m /\ \A q \in qs : g[q] = m => q = p
  BY DEF One
<1>3. m # None  BY MonAssumption
<1>4. PICK p \in ps : h[p] = m /\ \A q \in ps : h[q] = m => q = p  BY DEF One
<1>5. CASE m = h[from]
  <2>1. p = from  BY <1>4, <1>5
  <2>2. \A q \in qs : g[q] = m => q = to
    <3>1. TAKE q \in qs
    <3>2. HAVE g[q] = m
    <3>3. q # from  BY <1>3, <3>2
    <3>4. q = to \/ g[q] = h[q]  BY <3>3
    <3>5. QED  BY <1>4, <2>1, <3>2, <3>3, <3>4
  <2>3. QED  BY <1>1, <1>5, <2>2
<1>6. CASE m # h[from]
  <2>1. p # from /\ p # to  BY <1>3, <1>4, <1>6
  <2>2. p \in qs /\ g[p] = m  BY <1>4, <2>1
  <2>3. \A q \in qs : g[q] = m => q = p
    <3>1. TAKE q \in qs
    <3>2. HAVE g[q] = m
    <3>3. q # from /\ q # to  BY <1>3, <1>6, <3>2
    <3>4. QED  BY <1>4, <3>2, <3>3
  <2>4. QED  BY <2>2, <2>3
<1>7. QED  BY <1>5, <1>6

\* A spare place that is cleared is as good as any other.
LEMMA OneFreed ==
  ASSUME NEW h, NEW g, NEW ps, NEW qs, NEW c,
         One(h, ps), qs \subseteq ps \cup {c}, ps \subseteq qs, g[c] = None,
         \A p \in ps : p # c => g[p] = h[p], c \notin ps
  PROVE  One(g, qs)
<1>1. SUFFICES ASSUME NEW m \in Mons
               PROVE  \E p \in qs : g[p] = m /\ \A q \in qs : g[q] = m => q = p
  BY DEF One
<1>2. m # None  BY MonAssumption
<1>3. PICK p \in ps : h[p] = m /\ \A q \in ps : h[q] = m => q = p  BY DEF One
<1>4. p \in qs /\ g[p] = m  BY <1>3
<1>5. \A q \in qs : g[q] = m => q = p  BY <1>2, <1>3
<1>6. QED  BY <1>4, <1>5

\* What changes nothing of the places keeps them.
LEMMA Unmoved ==
  ASSUME DueHolds, HandHolds, OneEach, Holds' = Holds, Due' = Due,
         hand' = None \/ UNCHANGED hand, Spare' = Spare
  PROVE  DueHolds' /\ HandHolds' /\ OneEach'
<1>1. \A n : DueCell(n)' = DueCell(n)  BY DEF DueCell
<1>2. DueHolds'  BY <1>1 DEF DueHolds
<1>3. HandHolds'  BY <1>1 DEF HandHolds, Origin
<1>4. OneEach'  BY DEF OneEach
<1>5. QED  BY <1>2, <1>3, <1>4

AtRest == at \notin {"flush", "delete", "clear", "wipe"}

LEMMA RestUnmoved ==
  ASSUME DueHolds, HandHolds, OneEach, Holds' = Holds, hand' = None \/ UNCHANGED hand,
         AtRest, AtRest', UNCHANGED queue
  PROVE  DueHolds' /\ HandHolds' /\ OneEach'
<1>1. Due' = Due  BY DEF Due, AtRest
<1>2. Spare' = Spare  BY <1>1 DEF Spare, AtRest, DueCell
<1>3. QED  BY <1>1, <1>2, Unmoved

\* A page-in that goes well shows every box as it was.
LEMMA PageInShows ==
  ASSUME TypeOK, BufferShape, Tidy, mishaps = 0, mishaps' = 0,
         NEW b \in Boxes, NEW stays \in BOOLEAN, PageIn(b, stays)
  PROVE  /\ ~stays /\ loaded' = b /\ View' = View /\ ~unread'
         /\ ~dirty' => buf' = box'[loaded']
         /\ ~dirty => ~dirty'
<1>1. ~Mishap  BY DEF Mishap
<1>2. ~unread /\ (loaded \in Boxes /\ ~dirty => buf = box[loaded])  BY DEF Tidy
<1>3. buf \in [Slots -> Cells] /\ box \in [Boxes -> [Slots -> Cells]]  BY DEF TypeOK
<1>4. CASE ~stays /\ loaded = b /\ UNCHANGED <<box, buffer, mishaps>>
  BY <1>2, <1>4 DEF buffer, View
<1>5. CASE ~stays /\ loaded # b /\ ~dirty /\ BoxLoad(b) /\ UNCHANGED box
  <2>1. loaded' = b /\ ~dirty' /\ buf' = box[b] /\ ~unread'  BY <1>1, <1>5 DEF BoxLoad
  <2>2. View' = View  BY <1>2, <1>5, <2>1 DEF View
  <2>3. QED  BY <1>5, <2>1, <2>2
<1>6. CASE /\ ~stays /\ loaded # b /\ dirty /\ ~unread
           /\ box' = [box EXCEPT ![loaded] = buf] /\ BoxLoad(b)
  <2>1. loaded' = b /\ ~dirty' /\ buf' = box[b] /\ ~unread'  BY <1>1, <1>6 DEF BoxLoad
  <2>2. loaded \in Boxes  BY <1>6 DEF BufferShape
  <2>3. box'[b] = box[b]  BY <1>3, <1>6, <2>2
  <2>4. View' = View
    <3>1. ASSUME NEW c \in Boxes
          PROVE  (IF loaded' = c THEN buf' ELSE box'[c]) = IF loaded = c THEN buf ELSE box[c]
      BY <1>3, <1>6, <2>1, <2>2
    <3>2. QED  BY <3>1 DEF View
  <2>5. QED  BY <1>6, <2>1, <2>3, <2>4
<1>7. ~(stays /\ loaded # b /\ dirty /\ BoxSave(buf, FALSE))
  BY <1>1, <1>2 DEF BoxSave, BoxWrite
<1>8. QED  BY <1>2, <1>4, <1>5, <1>6, <1>7 DEF PageIn

LEMMA HoldsShown ==
  ASSUME View' = View, UNCHANGED pc
  PROVE  Holds' = Holds
  BY DEF Holds

-----------------------------------------------------------------------------
\* What is assumed of a step where nothing fails.
Well == Bystanders /\ Exactly /\ SoFar /\ SoFar'

LEMMA WellFacts ==
  ASSUME Well
  PROVE  /\ TypeOK /\ TouchedOnly /\ HandShape /\ BufferShape /\ FlushShape
         /\ Tidy /\ DueHolds /\ HandHolds /\ OneEach
         /\ mishaps = 0 /\ mishaps' = 0 /\ ~Mishap /\ smooth /\ smooth'
  BY DEF Well, Bystanders, Shape, Exactly, SoFar, Mishap

\* A page is turned, to the box of a page or of a carry.
LEMMA TurnExact ==
  ASSUME Well, NEW b \in Boxes, NEW stays \in BOOLEAN, PageIn(b, stays),
         UNCHANGED <<sav, pc, staged, queue, hand, left, kept>>,
         \/ AtRest /\ AtRest' /\ at' # "closed" /\ at' # "pc"
         \/ at = "clear" /\ at' = "wipe" /\ b = hand.box,
         at' = "bank" => b = page'
  PROVE  Exactly'
<1>1. /\ ~stays /\ loaded' = b /\ View' = View /\ ~unread'
      /\ ~dirty' => buf' = box'[loaded']
  BY WellFacts, PageInShows
<1>2. Holds' = Holds  BY <1>1, HoldsShown
<1>3. DueHolds' /\ HandHolds' /\ OneEach'
  <2>1. CASE AtRest /\ AtRest'  BY <1>2, <2>1, WellFacts, RestUnmoved
  <2>2. CASE at = "clear" /\ at' = "wipe"
    <3>1. Due' = Due  BY <2>2 DEF Due
    <3>2. Spare' = Spare  BY <2>2, <3>1 DEF Spare, DueCell, Origin
    <3>3. QED  BY <1>2, <3>1, <3>2, WellFacts, Unmoved
  <2>3. QED  BY <2>1, <2>2
<1>4. Tidy'  BY <1>1, WellFacts DEF Tidy, AtRest
<1>5. QED  BY <1>3, <1>4 DEF Exactly

\* The steps at the Bank screen that only turn pages or end a carry.
LEMMA BankTurns ==
  ASSUME Swaps = FALSE, Well, EnterBank \/ ClearOrigin \/ PageBack \/ BankCancel \/ LeaveBank
                            \/ (\E b \in Boxes : FlipPage(b))
  PROVE  Exactly'
<1>1. CASE EnterBank
  <2>1. /\ loaded' = 1 /\ ~dirty' /\ buf' = box[1] /\ ~unread' /\ box' = box
    BY <1>1, WellFacts DEF EnterBank, BoxLoad, card
  <2>2. ~dirty /\ (loaded \in Boxes => buf = box[loaded])
    BY <1>1, WellFacts DEF EnterBank, Tidy
  <2>3. View' = View  BY <2>1, <2>2 DEF View
  <2>4. Holds' = Holds  BY <1>1, <2>3, HoldsShown DEF EnterBank
  <2>5. DueHolds' /\ HandHolds' /\ OneEach'
    BY <1>1, <2>4, WellFacts, RestUnmoved DEF EnterBank, AtRest
  <2>6. Tidy'  BY <1>1, <2>1, WellFacts DEF EnterBank, Tidy, card, flush
  <2>7. QED  BY <2>5, <2>6 DEF Exactly
<1>2. CASE ClearOrigin
  <2>1. hand.box \in Boxes  BY <1>2, WellFacts DEF ClearOrigin, HandShape, Carried
  <2>2. PICK stays \in BOOLEAN : PageIn(hand.box, stays)  BY <1>2 DEF ClearOrigin
  <2>3. QED  BY <1>2, <2>1, <2>2, TurnExact DEF ClearOrigin, flush
<1>3. CASE PageBack
  <2>1. page \in Boxes  BY WellFacts DEF TypeOK
  <2>2. PICK stays \in BOOLEAN : PageIn(page, stays)  BY <1>3 DEF PageBack
  <2>3. QED  BY <1>3, <2>1, <2>2, TurnExact DEF PageBack, flush, AtRest
<1>4. ASSUME NEW b \in Boxes, FlipPage(b) PROVE Exactly'
  <2>1. PICK stays \in BOOLEAN :
          /\ PageIn(b, stays)
          /\ page' = IF stays /\ loaded = page /\ ~unread THEN page ELSE b
    BY <1>4 DEF FlipPage
  <2>2. ~stays  BY <2>1, WellFacts, PageInShows
  <2>3. QED  BY <1>4, <2>1, <2>2, TurnExact DEF FlipPage, flush, AtRest
<1>5. CASE BankCancel
  <2>1. ~Homeless  BY WellFacts DEF TouchedOnly, Homeless
  <2>2. /\ UNCHANGED <<box, buf, dirty, loaded, unread, sav, pc, staged, queue, left, kept, at, page>>
        /\ hand' = None
    BY <1>5, <2>1 DEF BankCancel, card, flush
  <2>3. Holds' = Holds  BY <2>2, HoldsShown DEF View
  <2>4. DueHolds' /\ HandHolds' /\ OneEach'
    BY <1>5, <2>2, <2>3, WellFacts, RestUnmoved DEF BankCancel, AtRest
  <2>5. Tidy'  BY <1>5, <2>2, WellFacts DEF BankCancel, Tidy
  <2>6. QED  BY <2>4, <2>5 DEF Exactly
<1>6. CASE LeaveBank
  <2>1. /\ at = "bank" /\ at' = "pc" /\ page' = 1
        /\ UNCHANGED <<sav, pc, staged, queue, hand, left, kept>>
    BY <1>6 DEF LeaveBank, flush
  <2>2. /\ loaded \in Boxes /\ ~unread /\ buf \in [Slots -> Cells]
        /\ box \in [Boxes -> [Slots -> Cells]]
    BY <2>1, WellFacts DEF BufferShape, Tidy, TypeOK
  <2>3. View' = View /\ ~dirty' /\ ~unread' /\ loaded' \in Boxes /\ buf' = box'[loaded']
    <3>1. CASE ~dirty /\ UNCHANGED <<box, buffer, mishaps, smooth>>
      BY <2>2, <3>1, WellFacts DEF View, buffer, Tidy
    <3>2. CASE /\ dirty /\ dirty' = FALSE /\ \E ok \in BOOLEAN : BoxWrite(buf, ok)
               /\ UNCHANGED <<buf, loaded, unread, smooth>>
      <4>1. box' = [box EXCEPT ![loaded] = buf]  BY <2>2, <3>2, WellFacts DEF BoxWrite
      <4>2. View' = View
        <5>1. ASSUME NEW c \in Boxes
              PROVE  (IF loaded' = c THEN buf' ELSE box'[c]) = IF loaded = c THEN buf ELSE box[c]
          BY <2>2, <3>2, <4>1
        <5>2. QED  BY <5>1 DEF View
      <4>3. QED  BY <2>2, <3>2, <4>1, <4>2
    <3>3. ~(dirty /\ BoxLoad(loaded) /\ smooth' = FALSE /\ UNCHANGED box)  BY WellFacts
    <3>4. QED  BY <1>6, <3>1, <3>2, <3>3 DEF LeaveBank
  <2>4. Holds' = Holds  BY <2>1, <2>3, HoldsShown
  <2>5. DueHolds' /\ HandHolds' /\ OneEach'
    BY <2>1, <2>4, WellFacts, RestUnmoved DEF AtRest
  <2>6. Tidy'  BY <2>1, <2>3, WellFacts DEF Tidy
  <2>7. QED  BY <2>5, <2>6 DEF Exactly
<1>7. QED  BY <1>1, <1>2, <1>3, <1>4, <1>5, <1>6

LEMMA PickExact ==
  ASSUME Well, (\E s \in Slots : BankPick(s)) \/ (\E s \in PcSlots : PcPick(s))
  PROVE  Exactly'
<1>1. /\ AtRest /\ AtRest'
      /\ UNCHANGED <<sav, box, pc, staged, buf, loaded, dirty, unread, page, queue, left, kept, at>>
  BY DEF BankPick, PcPick, card, buffer, flush, AtRest
<1>2. Holds' = Holds  BY <1>1, HoldsShown DEF View
<1>3. Due = queue /\ Due' = Due  BY <1>1 DEF Due, AtRest
<1>4. Spare' = Spare  BY <1>1, <1>3 DEF Spare, AtRest, DueCell
<1>5. \A n : DueCell(n)' = DueCell(n)  BY <1>3 DEF DueCell
<1>6. DueHolds'  BY <1>2, <1>3, <1>5, WellFacts DEF DueHolds
<1>7. OneEach'  BY <1>2, <1>4, WellFacts DEF OneEach
<1>8. Tidy'  BY <1>1, WellFacts DEF Tidy, AtRest
<1>9. HandHolds'
  <2>1. ASSUME NEW s \in Slots, BankPick(s) PROVE HandHolds'
    <3>1. /\ hand'.mon = buf[s] /\ hand'.box = page /\ hand'.slot = s
          /\ buf[s] # None /\ ~Pending(page, s) /\ at = "bank"
      BY <2>1 DEF BankPick, Held, Shown
    <3>2. buf[s] \in Mons /\ page \in Boxes  BY <3>1, WellFacts DEF TypeOK, Cells
    <3>3. Origin' = <<page, s>>  BY <3>1 DEF Origin
    <3>4. Holds[<<page, s>>] = buf[s]
      <4>1. Holds[<<page, s>>] = View[page][s]  BY <3>2, WellFacts, PlacesHold
      <4>2. loaded = page  BY <3>1, WellFacts DEF Tidy
      <4>3. QED  BY <3>2, <4>1, <4>2 DEF View
    <3>5. \A n \in DOMAIN Due : DueCell(n) # <<page, s>>
      BY <1>3, <3>1 DEF Pending, DueCell
    <3>6. QED  BY <1>2, <1>3, <1>5, <3>1, <3>2, <3>3, <3>4, <3>5 DEF HandHolds
  <2>2. ASSUME NEW s \in PcSlots, PcPick(s) PROVE HandHolds'
    <3>1. /\ hand'.mon = pc[s] /\ hand'.box = None /\ hand'.slot = s /\ pc[s] # None
      BY <2>2 DEF PcPick
    <3>2. pc[s] \in Mons  BY <3>1, WellFacts DEF TypeOK, Cells
    <3>3. Origin' = <<None, s>>  BY <3>1 DEF Origin
    <3>4. Holds[<<None, s>>] = pc[s]  BY WellFacts, PlacesHold
    <3>5. ASSUME NEW n \in DOMAIN Due PROVE DueCell(n) # <<None, s>>
      <4>1. Due[n].box \in Boxes  BY WellFacts, DueInBank
      <4>2. QED  BY <4>1, SlotFacts DEF DueCell
    <3>6. QED  BY <1>2, <1>3, <1>5, <3>1, <3>2, <3>3, <3>4, <3>5 DEF HandHolds
  <2>3. QED  BY <2>1, <2>2
<1>10. QED  BY <1>6, <1>7, <1>8, <1>9 DEF Exactly

-----------------------------------------------------------------------------
\* One cell of the buffer is written, in it or through to its file.
LEMMA CellWritten ==
  ASSUME TypeOK, loaded \in Boxes, loaded' = loaded, NEW s \in Slots, NEW x \in Cells,
         buf' = [buf EXCEPT ![s] = x], \A c \in Boxes : c # loaded => box'[c] = box[c]
  PROVE  /\ View'[loaded][s] = x
         /\ \A c \in Boxes, r \in Slots : <<c, r>> \notin {<<loaded, s>>} => View'[c][r] = View[c][r]
<1>1. buf \in [Slots -> Cells] /\ box \in [Boxes -> [Slots -> Cells]]  BY DEF TypeOK
<1>2. View' = [c \in Boxes |-> IF loaded = c THEN buf' ELSE box'[c]]  BY DEF View
<1>3. View'[loaded][s] = x  BY <1>1, <1>2
<1>4. ASSUME NEW c \in Boxes, NEW r \in Slots, <<c, r>> \notin {<<loaded, s>>}
      PROVE  View'[c][r] = View[c][r]
  <2>1. CASE c = loaded
    <3>1. r # s  BY <1>4, <2>1
    <3>2. buf'[r] = buf[r]  BY <1>1, <3>1
    <3>3. View'[c] = buf' /\ View[c] = buf  BY <1>2, <2>1 DEF View
    <3>4. QED  BY <3>2, <3>3
  <2>2. CASE c # loaded
    <3>1. box'[c] = box[c]  BY <2>2
    <3>2. View'[c] = box'[c] /\ View[c] = box[c]  BY <1>2, <2>2 DEF View
    <3>3. QED  BY <3>1, <3>2
  <2>3. QED  BY <2>1, <2>2
<1>5. QED  BY <1>3, <1>4

\* What the places hold after a step, from what the buffer and the PC show.
LEMMA PlacesNow ==
  /\ \A b \in Boxes, s \in Slots : Holds'[<<b, s>>] = View'[b][s]
  /\ \A s \in PcSlots : Holds'[<<None, s>>] = pc'[s]
<1>1. Holds' = [p \in Places |-> IF p[1] = None THEN pc'[p[2]] ELSE View'[p[1]][p[2]]]
  BY DEF Holds
<1>2. \A b \in Boxes, s \in Slots : <<b, s>> \in Places /\ b # None  BY SlotFacts DEF Places
<1>3. \A s \in PcSlots : <<None, s>> \in Places  BY DEF Places
<1>4. QED  BY <1>1, <1>2, <1>3

\* A place is a cell of the Bank or of the PC.
LEMMA PlaceCases ==
  ASSUME NEW p \in Places
  PROVE  \/ \E b \in Boxes, s \in Slots : p = <<b, s>>
         \/ \E s \in PcSlots : p = <<None, s>>
  BY DEF Places

\* The places that a step does not write hold what they held.
LEMMA OthersHold ==
  ASSUME TypeOK, NEW skipped,
         \A b \in Boxes, s \in Slots : <<b, s>> \notin skipped => View'[b][s] = View[b][s],
         \A s \in PcSlots : <<None, s>> \notin skipped => pc'[s] = pc[s]
  PROVE  \A p \in Places : p \notin skipped => Holds'[p] = Holds[p]
<1>1. TAKE p \in Places
<1>2. HAVE p \notin skipped
<1>3. ASSUME NEW b \in Boxes, NEW s \in Slots, p = <<b, s>> PROVE Holds'[p] = Holds[p]
  BY <1>2, <1>3, PlacesNow, PlacesHold
<1>4. ASSUME NEW s \in PcSlots, p = <<None, s>> PROVE Holds'[p] = Holds[p]
  BY <1>2, <1>4, PlacesNow, PlacesHold
<1>5. QED  BY <1>3, <1>4, PlaceCases

\* A drop on a free cell of the Bank: the cell that was left is spare.
LEMMA DropExact ==
  ASSUME Well, NEW s \in Slots, BankDrop(s)
  PROVE  Exactly'
<1> DEFINE to == <<page, s>>
<1>0. TypeOK /\ Tidy /\ DueHolds /\ HandHolds /\ OneEach /\ TouchedOnly  BY WellFacts
<1>1. /\ at = "bank" /\ at' = "clear" /\ hand # None /\ hand.from = "bank" /\ ~Taken(s)
      /\ ~OwnCell(s) /\ buf' = [buf EXCEPT ![s] = hand.mon] /\ dirty'
      /\ UNCHANGED <<sav, box, pc, staged, loaded, unread, page, queue, left, kept>>
  BY <1>0 DEF BankDrop, Place, TouchedOnly, Homeless, card, flush
<1>2. hand \in Carried /\ hand.next = Free /\ Origin \in Places
      /\ hand.box \in Boxes /\ hand.slot \in Slots
  BY <1>0, <1>1, HandInPlace
<1>3. hand' = hand
  <2>1. hand' = [hand EXCEPT !.next = Free]
    BY <1>0, <1>1 DEF BankDrop, Place, TouchedOnly, Homeless
  <2>2. QED  BY <1>2, <2>1 DEF Carried
<1>4. loaded = page /\ page \in Boxes /\ hand.mon \in Mons /\ Holds[Origin] = hand.mon
  BY <1>0, <1>1 DEF Tidy, TypeOK, HandHolds
<1>5. Origin # to  BY <1>1 DEF OwnCell, Origin
<1>6. to \in Places /\ Holds[to] = None
  <2>1. buf[s] = None  BY <1>1 DEF Taken
  <2>2. View[page] = buf  BY <1>4 DEF View
  <2>3. QED  BY <1>0, <1>4, <2>1, <2>2, PlacesHold
<1>7. View'[page][s] = hand.mon
      /\ \A c \in Boxes, r \in Slots : <<c, r>> \notin {to} => View'[c][r] = View[c][r]
  <2>1. loaded \in Boxes /\ loaded' = loaded /\ hand.mon \in Cells /\ box' = box
    BY <1>1, <1>4 DEF Cells
  <2>2. \A c \in Boxes : c # loaded => box'[c] = box[c]  BY <2>1
  <2>3. View'[loaded][s] = hand.mon
        /\ \A c \in Boxes, r \in Slots : <<c, r>> \notin {<<loaded, s>>} => View'[c][r] = View[c][r]
    BY <1>0, <1>1, <2>1, <2>2, CellWritten
  <2>4. QED  BY <1>4, <2>3
<1>8. Holds'[to] = hand.mon  BY <1>4, <1>7, PlacesNow
<1>9. \A p \in Places : p \notin {to} => Holds'[p] = Holds[p]
  BY <1>0, <1>1, <1>7, OthersHold
<1>10. Due = queue /\ Due' = Due /\ \A n : DueCell(n)' = DueCell(n)
  BY <1>1 DEF Due, DueCell
<1>11. \A n \in DOMAIN Due : DueCell(n) # to
  BY <1>1, <1>10 DEF Taken, Pending, DueCell
<1>12. Spare = {DueCell(n) : n \in DOMAIN Due}  BY <1>1 DEF Spare
<1>13. Origin' = Origin  BY <1>3 DEF Origin
<1>14. Spare' = Spare \cup {Origin}
  BY <1>1, <1>10, <1>12, <1>13 DEF Spare
<1>15. DueHolds'
  BY <1>0, <1>9, <1>10, <1>11, DueInBank DEF DueHolds
<1>16. HandHolds'
  BY <1>0, <1>2, <1>3, <1>5, <1>9, <1>10, <1>13 DEF HandHolds
<1>17. Origin \notin Spare /\ to \notin Spare
  BY <1>0, <1>1, <1>11, <1>12 DEF HandHolds
<1>18. OneEach'
  <2>1. One(Holds, Places \ Spare)  BY <1>0 DEF OneEach
  <2> HIDE DEF to
  <2>2. One(Holds', Places \ (Spare \cup {Origin}))
    BY <1>2, <1>4, <1>6, <1>8, <1>9, <1>17, <2>1, OneMoved
  <2>3. QED  BY <1>14, <2>2 DEF OneEach, One
<1>19. Tidy'  BY <1>0, <1>1, <1>3 DEF Tidy
<1>20. QED  BY <1>15, <1>16, <1>18, <1>19 DEF Exactly

\* And its origin is cleared: the cell still holds what was carried from it.
LEMMA WipeExact ==
  ASSUME Well, WipeOrigin
  PROVE  Exactly'
<1>0. TypeOK /\ Tidy /\ DueHolds /\ HandHolds /\ OneEach /\ TouchedOnly  BY WellFacts
<1>1. /\ at = "wipe" /\ at' = "back" /\ dirty'
      /\ UNCHANGED <<sav, box, pc, staged, loaded, unread, page, queue, left, kept>>
  BY DEF WipeOrigin, card, flush
<1>2. hand \in Carried /\ hand # None
  BY <1>1, WellFacts, HandCases, HandAssumption DEF HandShape
<1>3. hand.box \in Boxes /\ hand.slot \in Slots /\ loaded = hand.box /\ hand.next = Free
      /\ Holds[Origin] = hand.mon /\ hand.mon \in Mons
  BY <1>0, <1>1, <1>2 DEF Tidy, TouchedOnly, HandHolds, Carried
<1>4. hand' = None  BY <1>3 DEF WipeOrigin, InHand
<1>5. buf' = [buf EXCEPT ![hand.slot] = None]
  <2>1. Holds[Origin] = View[hand.box][hand.slot]  BY <1>0, <1>3, PlacesHold DEF Origin
  <2>2. View[hand.box] = buf  BY <1>3 DEF View
  <2>3. QED  BY <1>3, <2>1, <2>2 DEF WipeOrigin
<1>6. View'[loaded][hand.slot] = None
      /\ \A c \in Boxes, r \in Slots : <<c, r>> \notin {Origin} => View'[c][r] = View[c][r]
  <2>1. loaded \in Boxes /\ loaded' = loaded /\ None \in Cells /\ box' = box
    BY <1>1, <1>3 DEF Cells
  <2>2. \A c \in Boxes : c # loaded => box'[c] = box[c]  BY <2>1
  <2>3. View'[loaded][hand.slot] = None
        /\ \A c \in Boxes, r \in Slots :
             <<c, r>> \notin {<<loaded, hand.slot>>} => View'[c][r] = View[c][r]
    BY <1>0, <1>3, <1>5, <2>1, <2>2, CellWritten
  <2>4. QED  BY <1>3, <2>3 DEF Origin
<1>7. Holds'[Origin] = None  BY <1>3, <1>6, PlacesNow DEF Origin
<1>8. \A p \in Places : p \notin {Origin} => Holds'[p] = Holds[p]
  BY <1>0, <1>1, <1>6, OthersHold
<1>9. Due' = Due /\ \A n : DueCell(n)' = DueCell(n)  BY <1>1 DEF Due, DueCell
<1>10. Spare = Spare' \cup {Origin}
  BY <1>1, <1>9 DEF Spare
<1>11. DueHolds'  BY <1>0, <1>2, <1>8, <1>9, DueInBank DEF DueHolds, HandHolds
<1>12. HandHolds'  BY <1>4 DEF HandHolds
<1>13. OneEach'
  <2>1. One(Holds, Places \ Spare)  BY <1>0 DEF OneEach
  <2>2. Origin \notin Places \ Spare  BY <1>10
  <2>3. Places \ Spare \subseteq Places \ Spare'
        /\ Places \ Spare' \subseteq (Places \ Spare) \cup {Origin}
    BY <1>10
  <2>4. One(Holds', Places \ Spare')  BY <1>7, <1>8, <2>1, <2>2, <2>3, OneFreed
  <2>5. QED  BY <2>4 DEF OneEach, One
<1>14. Tidy'  BY <1>0, <1>1 DEF Tidy
<1>15. QED  BY <1>11, <1>12, <1>13, <1>14 DEF Exactly

\* A Pokemon of the PC is written to its box before its cell is cleared.
LEMMA TakeExact ==
  ASSUME Well, NEW s \in Slots, BankTake(s)
  PROVE  Exactly'
<1> DEFINE to == <<page, s>>
<1> DEFINE full == [buf EXCEPT ![s] = hand.mon]
<1>0. TypeOK /\ Tidy /\ DueHolds /\ HandHolds /\ OneEach /\ TouchedOnly  BY WellFacts
<1>1. /\ at = "bank" /\ hand # None /\ hand.from = "pc" /\ ~Taken(s)
      /\ UNCHANGED <<sav, loaded, unread, page, queue, left, kept, at>>
  BY DEF BankTake, flush
<1>2. hand \in FromPc /\ hand.box = None /\ hand.slot \in PcSlots
      /\ Origin = <<None, hand.slot>> /\ Origin \in Places
  BY <1>0, <1>1, HandInPlace DEF Origin
<1>3. loaded = page /\ page \in Boxes /\ hand.mon \in Mons /\ Holds[Origin] = hand.mon /\ ~unread
  BY <1>0, <1>1 DEF Tidy, TypeOK, HandHolds
<1>4. /\ box' = [box EXCEPT ![loaded] = full] /\ dirty' = FALSE
      /\ buf' = full /\ ReleasePc /\ staged' = TRUE /\ hand' = None
  <2>1. ~BoxSave(full, FALSE)  BY <1>3, WellFacts DEF BoxSave, BoxWrite
  <2>2. BoxSave(full, TRUE)  BY <2>1 DEF BankTake
  <2>3. box' = [box EXCEPT ![loaded] = full] /\ dirty' = FALSE
    BY <1>3, <2>2 DEF BoxSave, BoxWrite
  <2>4. QED  BY <2>1, <2>3 DEF BankTake
<1>5. pc' = [pc EXCEPT ![hand.slot] = None] /\ pc \in [PcSlots -> Cells]
  BY <1>0, <1>2, <1>3, <1>4, PlacesHold DEF ReleasePc, TypeOK
<1>6. to \in Places /\ Holds[to] = None /\ Origin # to
  <2>1. buf[s] = None  BY <1>1 DEF Taken
  <2>2. View[page] = buf  BY <1>3 DEF View
  <2>3. QED  BY <1>0, <1>2, <1>3, <2>1, <2>2, PlacesHold
<1>7. View'[page][s] = hand.mon
      /\ \A c \in Boxes, r \in Slots : <<c, r>> \notin {to} => View'[c][r] = View[c][r]
  <2>1. loaded \in Boxes /\ loaded' = loaded /\ hand.mon \in Cells
    BY <1>1, <1>3 DEF Cells
  <2>2. \A c \in Boxes : c # loaded => box'[c] = box[c]  BY <1>0, <1>4, <2>1 DEF TypeOK
  <2>3. View'[loaded][s] = hand.mon
        /\ \A c \in Boxes, r \in Slots : <<c, r>> \notin {<<loaded, s>>} => View'[c][r] = View[c][r]
    BY <1>0, <1>4, <2>1, <2>2, CellWritten
  <2>4. QED  BY <1>3, <2>3
<1>8. Holds'[to] = hand.mon /\ Holds'[Origin] = None
  BY <1>2, <1>3, <1>5, <1>7, PlacesNow
<1>9. \A p \in Places : p \notin {Origin, to} => Holds'[p] = Holds[p]
  <2> HIDE DEF full
  <2>1. \A c \in Boxes, r \in Slots : <<c, r>> \notin {Origin, to} => View'[c][r] = View[c][r]
    BY <1>7
  <2>2. \A r \in PcSlots : <<None, r>> \notin {Origin, to} => pc'[r] = pc[r]  BY <1>2, <1>5
  <2>3. QED  BY <1>0, <2>1, <2>2, OthersHold
<1>10. Due = queue /\ Due' = Due /\ \A n : DueCell(n)' = DueCell(n)
  BY <1>1 DEF Due, DueCell
<1>11. \A n \in DOMAIN Due : DueCell(n) # to /\ DueCell(n) # Origin
  BY <1>0, <1>1, <1>10 DEF Taken, Pending, DueCell, HandHolds
<1>12. Spare = {DueCell(n) : n \in DOMAIN Due} /\ Spare' = Spare
  BY <1>1, <1>10 DEF Spare
<1>13. DueHolds'  BY <1>0, <1>9, <1>10, <1>11, DueInBank DEF DueHolds
<1>14. HandHolds'  BY <1>4 DEF HandHolds
<1>15. OneEach'
  <2>1. One(Holds, Places \ Spare)  BY <1>0 DEF OneEach
  <2>2. Origin \in Places \ Spare /\ to \in Places \ Spare  BY <1>2, <1>6, <1>11, <1>12
  <2> HIDE DEF to
  <2>3. Holds[Origin] \in Mons /\ Holds'[to] = Holds[Origin]  BY <1>3, <1>8
  <2>4. \A p \in (Places \ Spare) \ {Origin, to} : Holds'[p] = Holds[p]  BY <1>9
  <2>5. One(Holds', Places \ Spare)  BY <1>6, <1>8, <2>1, <2>2, <2>3, <2>4, OneMoved
  <2>6. QED  BY <1>12, <2>5 DEF OneEach, One
<1>16. Tidy'
  <2>1. buf' = box'[loaded']  BY <1>0, <1>1, <1>3, <1>4 DEF TypeOK
  <2>2. QED  BY <1>0, <1>1, <1>4, <2>1 DEF Tidy
<1>17. QED  BY <1>13, <1>14, <1>15, <1>16 DEF Exactly

\* A Pokemon of the Bank is placed in the PC, and its cell is due.
LEMMA PcTakeExact ==
  ASSUME Well, NEW s \in PcSlots, PcTake(s)
  PROVE  Exactly'
<1> DEFINE to == <<None, s>>
<1> DEFINE entry == [box |-> hand.box, slot |-> hand.slot, mon |-> hand.mon]
<1>0. TypeOK /\ Tidy /\ DueHolds /\ HandHolds /\ OneEach /\ TouchedOnly  BY WellFacts
<1>1. /\ at = "pc" /\ hand # None /\ hand.from = "bank" /\ pc[s] = None
      /\ pc' = [pc EXCEPT ![s] = hand.mon] /\ staged' = TRUE /\ hand' = None
      /\ queue' = Append(queue, entry)
      /\ UNCHANGED <<sav, box, buf, loaded, dirty, unread, page, left, kept, at>>
  BY DEF PcTake, card, buffer, flush
<1>2. /\ hand.box \in Boxes /\ hand.slot \in Slots /\ Origin \in Places /\ to \in Places
      /\ hand.mon \in Mons /\ Holds[Origin] = hand.mon /\ Holds[to] = None /\ Origin # to
  BY <1>0, <1>1, HandInPlace, PlacesHold DEF HandHolds, Origin
<1>3. View' = View  BY <1>1 DEF View
<1>4. Holds'[to] = hand.mon  BY <1>0, <1>1, PlacesNow DEF TypeOK
<1>5. \A p \in Places : p \notin {to} => Holds'[p] = Holds[p]
  <2>1. \A r \in PcSlots : <<None, r>> \notin {to} => pc'[r] = pc[r]  BY <1>0, <1>1 DEF TypeOK
  <2>2. QED  BY <1>0, <1>3, <2>1, OthersHold
<1>6. /\ Due = queue /\ Due' = queue' /\ queue \in Seq(Entries)
      /\ \A n : DueCell(n) = <<queue[n].box, queue[n].slot>>
      /\ \A n : DueCell(n)' = <<queue'[n].box, queue'[n].slot>>
  BY <1>0, <1>1 DEF Due, DueCell, TypeOK
<1>7. PICK last \in Nat :
        /\ DOMAIN queue' = DOMAIN queue \cup {last} /\ last \notin DOMAIN queue
        /\ \A n \in DOMAIN queue : queue'[n] = queue[n]
        /\ queue'[last] = entry
  <2>1. entry \in Entries  BY <1>2 DEF Entries, Cells
  <2> HIDE DEF entry
  <2>2. Len(queue') = Len(queue) + 1 /\ queue' \in Seq(Entries)  BY <1>1, <1>6, <2>1
  <2>3. DOMAIN queue = 1..Len(queue) /\ DOMAIN queue' = 1..Len(queue') /\ Len(queue) \in Nat
    BY <1>6, <2>2
  <2>4. queue'[Len(queue) + 1] = entry /\ \A n \in 1..Len(queue) : queue'[n] = queue[n]
    BY <1>1, <1>6, <2>1
  <2>5. Len(queue) + 1 \in Nat /\ Len(queue) + 1 \notin 1..Len(queue)
        /\ 1..(Len(queue) + 1) = (1..Len(queue)) \cup {Len(queue) + 1}
    BY <2>3
  <2>6. QED  BY <2>2, <2>3, <2>4, <2>5
<1>8. \A n \in DOMAIN queue : DueCell(n)' = DueCell(n)  BY <1>6, <1>7
<1>9. DueCell(last)' = Origin  BY <1>6, <1>7 DEF Origin
<1>10. \A n \in DOMAIN queue : DueCell(n) # to /\ DueCell(n) # Origin /\ DueCell(n) \in Places
  <2>1. TAKE n \in DOMAIN queue
  <2>2. DueCell(n) \in Places /\ Due[n].box \in Boxes  BY <1>0, <1>6, DueInBank
  <2>3. QED  BY <1>0, <1>1, <1>6, <2>2, SlotFacts DEF HandHolds, DueCell
<1>11. DueHolds'
  <2>1. ASSUME NEW n \in DOMAIN queue'
        PROVE  /\ queue'[n].mon \in Mons /\ Holds'[DueCell(n)'] = queue'[n].mon
               /\ \A k \in DOMAIN queue' : DueCell(k)' = DueCell(n)' => k = n
    <3>1. CASE n \in DOMAIN queue
      <4>1. queue[n].mon \in Mons /\ Holds[DueCell(n)] = queue[n].mon  BY <1>0, <1>6, <3>1 DEF DueHolds
      <4>2. \A k \in DOMAIN queue : DueCell(k) = DueCell(n) => k = n  BY <1>0, <1>6, <3>1 DEF DueHolds
      <4>3. Holds'[DueCell(n)'] = Holds[DueCell(n)]  BY <1>5, <1>8, <1>10, <3>1
      <4>4. QED  BY <1>7, <1>8, <1>9, <1>10, <3>1, <4>1, <4>2, <4>3
    <3>2. CASE n = last
      <4>1. queue'[n].mon = hand.mon  BY <1>7, <3>2
      <4>2. Holds'[DueCell(n)'] = hand.mon  BY <1>2, <1>5, <1>9, <3>2
      <4>3. QED  BY <1>2, <1>7, <1>8, <1>9, <1>10, <3>2, <4>1, <4>2
    <3>3. QED  BY <1>7, <2>1, <3>1, <3>2
  <2>2. QED  BY <1>6, <2>1 DEF DueHolds
<1>12. HandHolds'  BY <1>1 DEF HandHolds
<1>13. Spare = {DueCell(n) : n \in DOMAIN queue} /\ Spare' = Spare \cup {Origin}
  <2>1. Spare' = {DueCell(n)' : n \in DOMAIN queue'}  BY <1>1, <1>6 DEF Spare
  <2>2. Spare = {DueCell(n) : n \in DOMAIN queue}  BY <1>1, <1>6 DEF Spare
  <2>3. QED  BY <1>7, <1>8, <1>9, <2>1, <2>2
<1>14. OneEach'
  <2>1. One(Holds, Places \ Spare)  BY <1>0 DEF OneEach
  <2>2. Origin \in Places \ Spare /\ to \in Places \ Spare  BY <1>2, <1>10, <1>13
  <2> HIDE DEF to
  <2>3. Holds[Origin] \in Mons /\ Holds'[to] = Holds[Origin]  BY <1>2, <1>4
  <2>4. \A p \in (Places \ Spare) \ {Origin, to} : Holds'[p] = Holds[p]  BY <1>5
  <2>5. One(Holds', Places \ (Spare \cup {Origin}))
    BY <1>2, <2>1, <2>2, <2>3, <2>4, OneMoved
  <2>6. QED  BY <1>13, <2>5 DEF OneEach, One
<1>15. Tidy'  BY <1>0, <1>1 DEF Tidy
<1>16. QED  BY <1>11, <1>12, <1>14, <1>15 DEF Exactly

\* The other steps at the PC screen.
LEMMA PcScreenExact ==
  ASSUME Well, PcScreen
  PROVE  Exactly'
<1>0. TypeOK /\ Tidy /\ DueHolds /\ HandHolds /\ OneEach /\ TouchedOnly  BY WellFacts
<1>1. CASE PcCancel
  <2>1. /\ hand' = None /\ at = "pc"
        /\ UNCHANGED <<sav, box, pc, staged, buf, loaded, dirty, unread, page, queue, left, kept, at>>
    BY <1>1 DEF PcCancel, card, buffer, flush
  <2>2. Holds' = Holds  BY <2>1, HoldsShown DEF View
  <2>3. DueHolds' /\ HandHolds' /\ OneEach'  BY <1>0, <2>1, <2>2, RestUnmoved DEF AtRest
  <2>4. Tidy'  BY <1>0, <2>1 DEF Tidy
  <2>5. QED  BY <2>3, <2>4 DEF Exactly
<1>2. CASE CommitPc
  <2>1. /\ sav' = pc /\ at = "pc" /\ staged' = FALSE
        /\ UNCHANGED <<box, pc, buf, loaded, dirty, unread, page, queue, left, kept, hand, at>>
    BY <1>2, WellFacts DEF CommitPc, PcSave, buffer, flush
  <2>2. Holds' = Holds  BY <2>1, HoldsShown DEF View
  <2>3. DueHolds' /\ HandHolds' /\ OneEach'  BY <1>0, <2>1, <2>2, RestUnmoved DEF AtRest
  <2>4. Tidy'  BY <1>0, <2>1 DEF Tidy
  <2>5. QED  BY <2>3, <2>4 DEF Exactly
<1>3. QED  BY <1>1, <1>2, PickExact, PcTakeExact DEF PcScreen

-----------------------------------------------------------------------------
\* A flush begins with what was queued due.
LEMMA StartExact ==
  ASSUME Well, at = "pc", NEW next, StartFlush(next), sav' = pc, staged' = FALSE,
         UNCHANGED <<box, pc, buf, loaded, dirty, unread, page, queue, hand>>
  PROVE  Exactly'
<1>0. Tidy /\ DueHolds /\ HandHolds /\ OneEach  BY WellFacts
<1>1. at' = "flush" /\ left' = queue /\ kept' = <<>>  BY DEF StartFlush
<1>2. Due' = Due  BY <1>1 DEF Due
<1>3. Spare' = Spare  BY <1>1, <1>2 DEF Spare, DueCell
<1>4. Holds' = Holds  BY HoldsShown DEF View
<1>5. DueHolds' /\ HandHolds' /\ OneEach'  BY <1>0, <1>2, <1>3, <1>4, Unmoved
<1>6. Tidy'  BY <1>0, <1>1 DEF Tidy
<1>7. QED  BY <1>5, <1>6 DEF Exactly

\* An entry of the queue is carried out: its cell is no longer due, and empty.
LEMMA DeleteExact ==
  ASSUME Well, FlushDelete
  PROVE  Exactly'
<1> DEFINE entry == Head(left)
<1> DEFINE rest == [buf EXCEPT ![entry.slot] = None]
<1>0. TypeOK /\ Tidy /\ DueHolds /\ HandHolds /\ OneEach /\ TouchedOnly  BY WellFacts
<1>1. at = "delete" /\ UNCHANGED <<sav, pc, staged, loaded, unread, page, queue, hand>>
  BY DEF FlushDelete
<1>2. left \in Seq(Entries) /\ left # <<>> /\ Due = left /\ left[1] = entry /\ 1 \in DOMAIN Due
  BY <1>0, <1>1, WellFacts DEF TypeOK, FlushShape, Due
<1>3. /\ entry.box \in Boxes /\ entry.slot \in Slots /\ loaded = entry.box /\ ~unread
      /\ kept = <<>> /\ entry.mon \in Mons /\ ~dirty
  BY <1>0, <1>1, <1>2, DueInBank DEF Tidy, DueHolds
<1>4. PICK gone \in Places : gone = <<entry.box, entry.slot>>  BY <1>3 DEF Places
<1>5. DueCell(1) = gone /\ Holds[gone] = entry.mon
  BY <1>0, <1>2, <1>4 DEF DueCell, DueHolds
<1>6. buf[entry.slot] = entry.mon
  <2>1. Holds[gone] = View[entry.box][entry.slot]  BY <1>0, <1>3, <1>4, PlacesHold
  <2>2. View[entry.box] = buf  BY <1>3 DEF View
  <2>3. QED  BY <1>5, <2>1, <2>2
<1>7. box' = [box EXCEPT ![loaded] = rest] /\ dirty' = FALSE /\ buf' = rest /\ Drop
  <2>1. PICK ok \in BOOLEAN : BoxSave(rest, ok) /\ buf' = rest /\ IF ok THEN Drop ELSE Keep(entry)
    BY <1>3, <1>6 DEF FlushDelete
  <2>2. ok  BY <1>3, <2>1, WellFacts DEF BoxSave, BoxWrite
  <2>3. QED  BY <1>3, <2>1, <2>2 DEF BoxSave, BoxWrite
<1>8. left' = Tail(left) /\ at' = "flush" /\ UNCHANGED kept  BY <1>7 DEF Drop
<1>9. View'[loaded][entry.slot] = None
      /\ \A c \in Boxes, r \in Slots : <<c, r>> \notin {gone} => View'[c][r] = View[c][r]
  <2>1. loaded \in Boxes /\ loaded' = loaded /\ None \in Cells  BY <1>1, <1>3 DEF Cells
  <2>2. \A c \in Boxes : c # loaded => box'[c] = box[c]  BY <1>0, <1>7, <2>1 DEF TypeOK
  <2> HIDE DEF entry
  <2>3. View'[loaded][entry.slot] = None
        /\ \A c \in Boxes, r \in Slots :
             <<c, r>> \notin {<<loaded, entry.slot>>} => View'[c][r] = View[c][r]
    BY <1>0, <1>3, <1>7, <2>1, <2>2, CellWritten
  <2>4. QED  BY <1>3, <1>4, <2>3
<1>10. Holds'[gone] = None  BY <1>3, <1>4, <1>9, PlacesNow
<1>11. \A p \in Places : p \notin {gone} => Holds'[p] = Holds[p]
  BY <1>0, <1>1, <1>9, OthersHold
<1>12. /\ Due' = Tail(left) /\ DOMAIN Due = 1..Len(left) /\ Len(left) \in Nat \ {0}
       /\ DOMAIN Due' = 1..(Len(left) - 1)
       /\ \A n \in DOMAIN Due' : Due'[n] = Due[n + 1] /\ n + 1 \in DOMAIN Due
  BY <1>2, <1>8 DEF Due
<1>13. \A n \in DOMAIN Due' : DueCell(n)' = DueCell(n + 1)  BY <1>12 DEF DueCell
<1>14. \A n \in DOMAIN Due : DueCell(n) = gone => n = 1  BY <1>0, <1>2, <1>5 DEF DueHolds
<1>15. DueHolds'
  <2>1. ASSUME NEW n \in DOMAIN Due'
        PROVE  /\ Due'[n].mon \in Mons /\ Holds'[DueCell(n)'] = Due'[n].mon
               /\ \A k \in DOMAIN Due' : DueCell(k)' = DueCell(n)' => k = n
    <3>1. n + 1 \in DOMAIN Due /\ n \in 1..(Len(left) - 1) /\ Due'[n] = Due[n + 1]
          /\ DueCell(n)' = DueCell(n + 1)
      BY <1>12, <1>13
    <3>2. DueCell(n + 1) \in Places /\ DueCell(n + 1) # gone  BY <1>0, <1>14, <3>1, DueInBank
    <3>3. Due[n + 1].mon \in Mons /\ Holds[DueCell(n + 1)] = Due[n + 1].mon
          /\ \A k \in DOMAIN Due : DueCell(k) = DueCell(n + 1) => k = n + 1
      BY <1>0, <3>1 DEF DueHolds
    <3>4. \A k \in DOMAIN Due' : DueCell(k)' = DueCell(n)' => k = n
      BY <1>12, <1>13, <3>1, <3>3
    <3>5. QED  BY <1>11, <3>1, <3>2, <3>3, <3>4
  <2>2. QED  BY <2>1 DEF DueHolds
<1>16. HandHolds'
  <2>1. SUFFICES ASSUME hand # None PROVE HandHolds'
    BY <1>1 DEF HandHolds
  <2>2. hand.mon \in Mons /\ Holds[Origin] = hand.mon /\ \A n \in DOMAIN Due : DueCell(n) # Origin
    BY <1>0, <2>1 DEF HandHolds
  <2>3. Origin \in Places  BY <1>0, <2>1, HandInPlace
  <2>4. Origin # gone  BY <1>2, <1>5, <2>2
  <2>5. Origin' = Origin /\ hand' = hand  BY <1>1 DEF Origin
  <2>6. \A n \in DOMAIN Due' : DueCell(n)' # Origin  BY <1>12, <1>13, <2>2
  <2>7. QED  BY <1>11, <2>2, <2>3, <2>4, <2>5, <2>6 DEF HandHolds
<1>17. OneEach'
  <2>1. One(Holds, Places \ Spare)  BY <1>0 DEF OneEach
  <2>2. Spare = {DueCell(n) : n \in DOMAIN Due}  BY <1>1 DEF Spare
  <2>3. Spare' = {DueCell(n)' : n \in DOMAIN Due'}  BY <1>8 DEF Spare
  <2>4. \A n \in DOMAIN Due : n = 1 \/ (n - 1 \in DOMAIN Due' /\ n = (n - 1) + 1)  BY <1>12
  <2>5. Spare = Spare' \cup {gone}
    <3>1. \A n \in DOMAIN Due' : DueCell(n)' \in Spare  BY <1>12, <1>13, <2>2
    <3>2. \A n \in DOMAIN Due : n # 1 => DueCell(n) \in Spare'  BY <1>13, <2>3, <2>4
    <3>3. gone \in Spare  BY <1>2, <1>5, <2>2
    <3>4. QED  BY <1>5, <2>2, <2>3, <3>1, <3>2, <3>3
  <2>6. gone \notin Places \ Spare  BY <2>5
  <2>7. Places \ Spare \subseteq Places \ Spare'
        /\ Places \ Spare' \subseteq (Places \ Spare) \cup {gone}
    BY <2>5
  <2>8. One(Holds', Places \ Spare')  BY <1>10, <1>11, <2>1, <2>6, <2>7, OneFreed
  <2>9. QED  BY <2>8 DEF OneEach, One
<1>18. Tidy'
  <2>1. buf' = box'[loaded']  BY <1>0, <1>1, <1>3, <1>7 DEF TypeOK
  <2>2. QED  BY <1>0, <1>1, <1>7, <1>8, <2>1 DEF Tidy
<1>19. QED  BY <1>15, <1>16, <1>17, <1>18 DEF Exactly

\* Every step of a save or a flush.
LEMMA SavingExact ==
  ASSUME Well, Saving
  PROVE  Exactly'
<1>0. TypeOK /\ Tidy /\ DueHolds /\ HandHolds /\ OneEach /\ TouchedOnly  BY WellFacts
<1>1. CASE SaveNow
  <2>1. at = "pc" /\ PcSave(TRUE) /\ StartFlush("pc")
    BY <1>1, WellFacts DEF SaveNow, SaveThenFlush, PcSave
  <2>2. QED  BY <1>1, <2>1, StartExact DEF SaveNow, PcSave, buffer
<1>2. CASE Exit
  <2>1. at = "pc" /\ UNCHANGED <<box, buf, loaded, dirty, unread, page, hand>>
    BY <1>2 DEF Exit, buffer
  <2>2. StartFlush("closed") /\ sav' = pc /\ staged' = FALSE /\ UNCHANGED <<pc, queue>>
    BY <1>2, WellFacts DEF Exit, SaveThenFlush, PcSave, Tidy, TypeOK
  <2>3. QED  BY <2>1, <2>2, StartExact
<1>3. CASE FlushPage
  <2>1. at = "flush" /\ left # <<>> /\ UNCHANGED <<sav, pc, staged, page, queue, hand>>
    BY <1>3 DEF FlushPage
  <2>2. Head(left).box \in Boxes
    <3>1. left \in Seq(Entries)  BY <1>0 DEF TypeOK
    <3>2. Head(left) \in Entries  BY <2>1, <3>1, HeadTailProperties
    <3>3. QED  BY <3>2 DEF Entries
  <2>3. PICK stays \in BOOLEAN :
          /\ PageIn(Head(left).box, stays)
          /\ IF stays THEN Keep(Head(left)) ELSE at' = "delete" /\ UNCHANGED <<left, kept>>
    BY <1>3 DEF FlushPage
  <2>4. /\ ~stays /\ loaded' = Head(left).box /\ View' = View /\ ~unread'
        /\ (~dirty' => buf' = box'[loaded']) /\ ~dirty'
    BY <1>0, <2>1, <2>2, <2>3, WellFacts, PageInShows DEF Tidy
  <2>5. at' = "delete" /\ UNCHANGED <<left, kept>>  BY <2>3, <2>4
  <2>6. Holds' = Holds  BY <2>1, <2>4, HoldsShown
  <2>7. Due' = Due  BY <2>1, <2>5 DEF Due
  <2>8. Spare' = Spare  BY <2>1, <2>5, <2>7 DEF Spare, DueCell
  <2>9. DueHolds' /\ HandHolds' /\ OneEach'  BY <1>0, <2>1, <2>6, <2>7, <2>8, Unmoved
  <2>10. Tidy'  BY <1>0, <2>1, <2>4, <2>5 DEF Tidy
  <2>11. QED  BY <2>9, <2>10 DEF Exactly
<1>4. CASE FlushEnd
  <2>1. /\ at = "flush" /\ left = <<>> /\ queue' = kept /\ kept = <<>> /\ kept' = <<>>
        /\ at' \in {"pc", "closed"}
        /\ UNCHANGED <<sav, box, pc, staged, buf, loaded, dirty, unread, page, left, hand>>
    BY <1>0, <1>4 DEF FlushEnd, Tidy, TypeOK, card, buffer
  <2>2. Holds' = Holds  BY <2>1, HoldsShown DEF View
  <2>3. Due' = Due  BY <2>1 DEF Due
  <2>4. Spare' = Spare  BY <2>1, <2>3 DEF Spare, DueCell
  <2>5. DueHolds' /\ HandHolds' /\ OneEach'  BY <1>0, <2>1, <2>2, <2>3, <2>4, Unmoved
  <2>6. Tidy'  BY <1>0, <2>1 DEF Tidy
  <2>7. QED  BY <2>5, <2>6 DEF Exactly
<1>5. QED  BY <1>1, <1>2, <1>3, <1>4, DeleteExact DEF Saving

\* Once something failed, was cut or was declined, it stays so.
LEMMA StillSoFar ==
  ASSUME Shape, [Next]_vars, SoFar'
  PROVE  SoFar
<1>0. mishaps \in Nat  BY SizeAssumption DEF Shape, TypeOK
<1>1. mishaps' = mishaps \/ mishaps' = mishaps + 1 => (mishaps' = 0 => mishaps = 0)
  BY <1>0
<1>2. mishaps' = mishaps \/ mishaps' = mishaps + 1
  BY DEF Next, BankScreen, PcScreen, Saving, EnterBank, FlipPage, BankPick, BankCancel, BankDrop,
         BankSwap, Place, ClearOrigin, WipeOrigin, PageBack, BankTake, LeaveBank, PcPick, PcCancel,
         PcTake, CommitPc, PcSave, SaveThenFlush, SaveNow, Exit, FlushPage, FlushDelete, FlushEnd,
         PowerCut, OpenSave, PageIn, BoxLoad, BoxSave, BoxWrite, Calm, Mishap, vars
<1>3. smooth' => smooth
  BY DEF Next, BankScreen, PcScreen, Saving, EnterBank, FlipPage, BankPick, BankCancel, BankDrop,
         BankSwap, ClearOrigin, WipeOrigin, PageBack, BankTake, LeaveBank, PcPick, PcCancel,
         PcTake, CommitPc, SaveNow, Exit, FlushPage, FlushDelete, FlushEnd,
         PowerCut, OpenSave, history, Touch, vars
<1>4. QED  BY <1>1, <1>2, <1>3 DEF SoFar

LEMMA StepExact ==
  ASSUME Swaps = FALSE, Bystanders, ExactInv, [Next]_vars
  PROVE  ExactInv'
<1>1. SUFFICES ASSUME SoFar' PROVE Exactly'
  BY DEF ExactInv
<1>2. Well  BY <1>1, StillSoFar DEF Well, Bystanders, ExactInv
<1>3. CASE BankScreen
  BY <1>2, <1>3, BankTurns, PickExact, DropExact, WipeExact, TakeExact DEF BankScreen, BankSwap
<1>4. CASE PowerCut
  BY <1>1, <1>4 DEF PowerCut, SoFar
<1>5. CASE OpenSave
  <2>1. /\ at = "closed" /\ at' = "pc" /\ pc' = sav /\ staged' = FALSE
        /\ queue' = <<>> /\ hand' = None
        /\ UNCHANGED <<sav, box, buf, loaded, dirty, unread, page, left, kept>>
    BY <1>5 DEF OpenSave, card, buffer, flush
  <2>2. Tidy /\ DueHolds /\ HandHolds /\ OneEach /\ sav = pc /\ queue = <<>>
    BY <1>2, <2>1, WellFacts DEF Tidy
  <2>3. Holds' = Holds  BY <2>1, <2>2, HoldsShown DEF View
  <2>4. DueHolds' /\ HandHolds' /\ OneEach'  BY <2>1, <2>2, <2>3, RestUnmoved DEF AtRest
  <2>5. Tidy'  BY <2>1, <2>2 DEF Tidy
  <2>6. QED  BY <2>4, <2>5 DEF Exactly
<1>6. CASE UNCHANGED vars
  <2>1. Tidy /\ DueHolds /\ HandHolds /\ OneEach  BY <1>2, WellFacts
  <2>2. UNCHANGED <<sav, box, pc, staged, buf, loaded, dirty, unread, page, queue, left, kept, hand, at>>
    BY <1>6 DEF vars
  <2>3. Holds' = Holds  BY <2>2, HoldsShown DEF View
  <2>4. Due' = Due  BY <2>2 DEF Due
  <2>5. Spare' = Spare  BY <2>2, <2>4 DEF Spare, DueCell, Origin
  <2>6. DueHolds' /\ HandHolds' /\ OneEach'  BY <2>1, <2>2, <2>3, <2>4, <2>5, Unmoved
  <2>7. Tidy'  BY <2>1, <2>2 DEF Tidy
  <2>8. QED  BY <2>6, <2>7 DEF Exactly
<1>7. QED  BY <1>2, <1>3, <1>4, <1>5, <1>6, PcScreenExact, SavingExact DEF Next

-----------------------------------------------------------------------------
\* Two sets with one element between them.
LEMMA OneOfTwo ==
  ASSUME NEW A, NEW B, IsFiniteSet(A), IsFiniteSet(B)
  PROVE  Cardinality(A) + Cardinality(B) = 1 <=>
           \/ B = {} /\ \E x : A = {x}
           \/ A = {} /\ \E x : B = {x}
<1>1. Cardinality(A) \in Nat /\ Cardinality(B) \in Nat  BY FS_CardinalityType
<1>2. Cardinality(A) = 1 <=> \E x : A = {x}  BY FS_Singleton
<1>3. Cardinality(B) = 1 <=> \E x : B = {x}  BY FS_Singleton
<1>4. Cardinality(A) = 0 <=> A = {}  BY FS_EmptySet
<1>5. Cardinality(B) = 0 <=> B = {}  BY FS_EmptySet
<1>6. Cardinality(A) + Cardinality(B) = 1 <=>
        \/ Cardinality(B) = 0 /\ Cardinality(A) = 1
        \/ Cardinality(A) = 0 /\ Cardinality(B) = 1
  BY <1>1
<1>7. QED  BY <1>2, <1>3, <1>4, <1>5, <1>6

\* Where RAM shows what the card has, a Pokemon is once on the card if and
\* only if it is in exactly one of the places.
LEMMA CopiesOne ==
  ASSUME TypeOK, pc = sav, View = box, NEW m \in Mons
  PROVE  Copies(m) = 1 <=> \E p \in Places : Holds[p] = m /\ \A q \in Places : Holds[q] = m => q = p
<1> DEFINE A == PlacesInSav(m)
<1> DEFINE B == PlacesInBank(m)
<1>1. IsFiniteSet(A) /\ A \subseteq PcSlots
  <2>1. IsFiniteSet(PcSlots)  BY SizeAssumption, FS_Interval DEF PcSlots
  <2>2. A \in SUBSET PcSlots  BY DEF PlacesInSav
  <2>3. QED  BY <2>1, <2>2, FS_Subset
<1>2. IsFiniteSet(B) /\ B \subseteq Boxes \X Slots
  <2>1. IsFiniteSet(Boxes) /\ IsFiniteSet(Slots)
    BY SizeAssumption, FS_Interval DEF Boxes, Slots
  <2>2. IsFiniteSet(Boxes \X Slots)  BY <2>1, FS_Product
  <2>3. B \in SUBSET (Boxes \X Slots)  BY DEF PlacesInBank
  <2>4. QED  BY <2>2, <2>3, FS_Subset
<1>3. \A s \in PcSlots : s \in A <=> Holds[<<None, s>>] = m
  BY PlacesHold DEF PlacesInSav
<1>4. \A b \in Boxes, s \in Slots : <<b, s>> \in B <=> Holds[<<b, s>>] = m
  BY PlacesHold DEF PlacesInBank
<1>5. \A b \in Boxes, s \in Slots : <<b, s>> \in Places
      /\ \A r \in PcSlots : <<None, r>> \in Places /\ <<b, s>> # <<None, r>>
  BY PlacesHold
<1> HIDE DEF A, B
<1>6. \A p \in B : p \in Places /\ Holds[p] = m /\ \A r \in PcSlots : p # <<None, r>>
  <2>1. TAKE p \in B
  <2>2. PICK b \in Boxes, s \in Slots : p = <<b, s>>  BY <1>2
  <2>3. QED  BY <1>4, <1>5, <2>2
<1>7. \A s \in A : <<None, s>> \in Places /\ Holds[<<None, s>>] = m
  BY <1>1, <1>3, PlacesHold
<1>8. \A p \in Places : Holds[p] = m => p \in B \/ \E s \in A : p = <<None, s>>
  BY <1>3, <1>4, PlaceCases
<1>9. (\E p \in Places : Holds[p] = m /\ \A q \in Places : Holds[q] = m => q = p) =>
        \/ B = {} /\ \E x : A = {x}
        \/ A = {} /\ \E x : B = {x}
  <2>1. SUFFICES ASSUME NEW p \in Places, Holds[p] = m, \A q \in Places : Holds[q] = m => q = p
                 PROVE  \/ B = {} /\ \E x : A = {x}
                        \/ A = {} /\ \E x : B = {x}
    OBVIOUS
  <2>2. CASE p \in B
    <3>1. B = {p}  BY <1>6, <2>1, <2>2
    <3>2. A = {}  BY <1>1, <1>6, <1>7, <2>1, <2>2
    <3>3. QED  BY <3>1, <3>2
  <2>3. ASSUME NEW s \in A, p = <<None, s>> PROVE B = {} /\ \E x : A = {x}
    <3>1. \A r \in A : r = s
      <4>1. TAKE r \in A
      <4>2. <<None, r>> = <<None, s>>  BY <1>7, <2>1, <2>3
      <4>3. QED  BY <4>2
    <3>2. A = {s}  BY <3>1
    <3>3. B = {}  BY <1>1, <1>6, <2>1, <2>3
    <3>4. QED  BY <3>2, <3>3
  <2>4. QED  BY <1>8, <2>1, <2>2, <2>3
<1>10. ASSUME \/ B = {} /\ \E x : A = {x}
              \/ A = {} /\ \E x : B = {x}
       PROVE  \E p \in Places : Holds[p] = m /\ \A q \in Places : Holds[q] = m => q = p
  <2>1. ASSUME B = {}, NEW s, A = {s}
        PROVE  \E p \in Places : Holds[p] = m /\ \A q \in Places : Holds[q] = m => q = p
    <3>1. <<None, s>> \in Places /\ Holds[<<None, s>>] = m  BY <1>7, <2>1
    <3>2. \A q \in Places : Holds[q] = m => q = <<None, s>>  BY <1>8, <2>1
    <3>3. QED  BY <3>1, <3>2
  <2>2. ASSUME A = {}, NEW p, B = {p}
        PROVE  \E x \in Places : Holds[x] = m /\ \A q \in Places : Holds[q] = m => q = x
    <3>1. p \in Places /\ Holds[p] = m  BY <1>6, <2>2
    <3>2. \A q \in Places : Holds[q] = m => q = p  BY <1>8, <2>2
    <3>3. QED  BY <3>1, <3>2
  <2>3. QED  BY <1>10, <2>1, <2>2
<1>11. Copies(m) = 1 <=> \/ B = {} /\ \E x : A = {x}
                         \/ A = {} /\ \E x : B = {x}
  BY <1>1, <1>2, OneOfTwo DEF Copies, A, B
<1>12. QED  BY <1>9, <1>10, <1>11

\* When nothing failed, was cut or was declined, leaving the save leaves every
\* Pokemon on the card exactly once: whatever was moved to and fro between the
\* PC and the boxes of the Bank, each deletion is carried out once, of the
\* Pokemon it is due for and of no other.
THEOREM ExactAlways ==
  ASSUME Swaps = FALSE
  PROVE  Spec => []ExactWhenSmooth
<1>1. Init => Bystanders /\ ExactInv
  <2>1. SUFFICES ASSUME Init PROVE Bystanders /\ Exactly
    BY DEF ExactInv
  <2>2. TouchedOnly /\ RamAgrees
    BY <2>1, SlotFacts DEF Init, TouchedOnly, AllTouched, RamAgrees, Alike
  <2>3. Bystanders /\ TypeOK  BY <2>1, <2>2, InitShape DEF Bystanders, Shape
  <2>4. queue = <<>> /\ Due = queue /\ hand = None /\ at = "pc" /\ pc = sav
    BY <2>1 DEF Init, Due
  <2>5. DueHolds /\ HandHolds /\ Spare = {}  BY <2>4 DEF DueHolds, HandHolds, Spare
  <2>6. Tidy  BY <2>1, SlotFacts DEF Init, Tidy
  <2>7. View = box
    <3>1. loaded \notin Boxes /\ box \in [Boxes -> [Slots -> Cells]]
      BY <2>1, SlotFacts DEF Init
    <3>2. QED  BY <3>1 DEF View
  <2>8. \A m \in Mons : Copies(m) = 1
    BY <2>1 DEF Init, Copies, PlacesInSav, PlacesInBank
  <2>9. OneEach  BY <2>3, <2>4, <2>5, <2>7, <2>8, CopiesOne DEF OneEach, One
  <2>10. QED  BY <2>3, <2>5, <2>6, <2>9 DEF Exactly
<1>2. Bystanders /\ ExactInv /\ [Next]_vars => (Bystanders /\ ExactInv)'
  BY StepKeeps, StepExact
<1>3. Bystanders /\ ExactInv => ExactWhenSmooth
  <2>1. SUFFICES ASSUME Bystanders, ExactInv, at = "closed", smooth, mishaps = 0, NEW m \in Mons
                 PROVE  Copies(m) = 1
    BY DEF ExactWhenSmooth
  <2>2. TypeOK /\ Tidy /\ OneEach  BY <2>1 DEF Bystanders, Shape, ExactInv, SoFar, Exactly
  <2>3. pc = sav /\ queue = <<>> /\ Due = <<>> /\ (loaded \in Boxes => buf = box[loaded])
    BY <2>1, <2>2 DEF Tidy, Due
  <2>4. Spare = {}  BY <2>1, <2>3 DEF Spare
  <2>5. View = box
    <3>1. box = [b \in Boxes |-> box[b]]  BY <2>2 DEF TypeOK
    <3>2. \A b \in Boxes : (IF loaded = b THEN buf ELSE box[b]) = box[b]  BY <2>3
    <3>3. QED  BY <3>1, <3>2 DEF View
  <2>6. QED  BY <2>2, <2>3, <2>4, <2>5, CopiesOne DEF OneEach, One
<1>4. QED  BY <1>1, <1>2, <1>3, PTL DEF Spec
-----------------------------------------------------------------------------
(***************************************************************************)
(* No Pokemon is lost.                                                     *)
(***************************************************************************)
\* The screen shows the box that its cells are read from and written to.
ScreenIsBuffer == at = "bank" => page = loaded

\* The Bank as the next save of the buffer would leave it.
Ahead == [b \in Boxes |-> IF loaded = b /\ ~unread THEN buf ELSE box[b]]

InPc(cells, m) == \E s \in PcSlots : cells[s] = m
InBank(bank, m) == \E b \in Boxes, s \in Slots : bank[b][s] = m

\* What is in the Bank and would also be after the deletions of entries.
Doomed(entries, m, b, s) ==
  \E n \in DOMAIN entries : entries[n].box = b /\ entries[n].slot = s /\ entries[n].mon = m
Remains(bank, entries, m) ==
  \E b \in Boxes, s \in Slots : bank[b][s] = m /\ ~Doomed(entries, m, b, s)

\* With this Bank and these PC cells, in RAM and in the .sav, none is missing:
\* not now, when the power goes and nothing is deleted, and not once the PC is
\* saved and the deletions are made.
Preserved(bank, cells, file, entries) ==
  \A m \in Mons : /\ InPc(file, m) \/ InBank(bank, m)
                  /\ InPc(cells, m) \/ Remains(bank, entries, m)

\* It is so whether or not what is in the buffer is ever saved.
Safe == Preserved(box, pc, sav, queue) /\ Preserved(Ahead, pc, sav, queue)

\* Deletions are made after the PC they belong to was saved, each of an entry
\* of the queue, in the buffer of its box.
Listed(entries) == \A n \in DOMAIN entries : \E k \in DOMAIN queue : queue[k] = entries[n]
Committed ==
  /\ ~staged => sav = pc
  /\ at \in {"flush", "delete"} => sav = pc /\ Listed(left) /\ Listed(kept)
  /\ at = "delete" => loaded = Head(left).box

\* A Pokemon whose origin is being cleared was placed in the buffer, and would
\* still be there, or in the PC, without the cell that is to be cleared.
Landed ==
  \E s \in Slots : /\ buf[s] = hand.mon /\ ~Doomed(queue, hand.mon, page, s)
                   /\ <<page, s>> # Origin
Other(b, s) == <<b, s>> # <<loaded, hand.slot>>
Spared ==
  /\ InPc(sav, hand.mon) \/ \E b \in Boxes, s \in Slots : Ahead[b][s] = hand.mon /\ Other(b, s)
  /\ \/ InPc(pc, hand.mon)
     \/ \E b \in Boxes, s \in Slots :
          Ahead[b][s] = hand.mon /\ Other(b, s) /\ ~Doomed(queue, hand.mon, b, s)
Clearing ==
  /\ at = "clear" => dirty /\ loaded = page /\ Landed
  /\ at \in {"clear", "wipe"} /\ ~unread => Spared

NoneLost == Safe /\ Committed /\ Clearing

-----------------------------------------------------------------------------
LEMMA AheadShows ==
  ASSUME TypeOK
  PROVE  /\ Ahead \in [Boxes -> [Slots -> Cells]]
         /\ \A b \in Boxes : Ahead[b] = IF loaded = b /\ ~unread THEN buf ELSE box[b]
  BY DEF Ahead, TypeOK

\* It shows the same while the buffer does.
LEMMA AheadStill ==
  ASSUME TypeOK, UNCHANGED <<buf, loaded, unread>>,
         \A b \in Boxes : b # loaded \/ unread => box'[b] = box[b]
  PROVE  Ahead' = Ahead
<1>1. Ahead' = [b \in Boxes |-> IF loaded = b /\ ~unread THEN buf ELSE box'[b]]
  BY DEF Ahead
<1>2. \A b \in Boxes : (IF loaded = b /\ ~unread THEN buf ELSE box'[b])
                       = IF loaded = b /\ ~unread THEN buf ELSE box[b]
  OBVIOUS
<1>3. QED  BY <1>1, <1>2 DEF Ahead

\* A box that was paged in shows what its file holds.
LEMMA LoadShows ==
  ASSUME TypeOK, NEW b \in Boxes, BoxLoad(b), box' \in [Boxes -> [Slots -> Cells]],
         box'[b] = box[b]
  PROVE  Ahead' = box'
<1>1. Ahead' = [c \in Boxes |-> IF loaded' = c /\ ~unread' THEN buf' ELSE box'[c]]
  BY DEF Ahead
<1>2. loaded' = b /\ (~unread' => buf' = box'[b])  BY BoxLoadFrame
<1>3. \A c \in Boxes : (IF loaded' = c /\ ~unread' THEN buf' ELSE box'[c]) = box'[c]
  BY <1>2
<1>4. box' = [c \in Boxes |-> box'[c]]  OBVIOUS
<1>5. QED  BY <1>1, <1>3, <1>4

\* A save of the buffer leaves the Bank as it was, or as it was ahead.
LEMMA SavedAhead ==
  ASSUME TypeOK, loaded \in Boxes, ~unread
  PROVE  [box EXCEPT ![loaded] = buf] = Ahead
  BY DEF TypeOK, Ahead

\* A page-in changes nothing, or saves the buffer and shows the file, or keeps
\* the buffer it could not save.
LEMMA PageInAhead ==
  ASSUME TypeOK, BufferShape, NEW b \in Boxes, NEW stays \in BOOLEAN, PageIn(b, stays)
  PROVE  /\ box' \in {box, Ahead} /\ Ahead' \in {box, Ahead}
         /\ stays => UNCHANGED <<buf, loaded, unread>> /\ Ahead' = Ahead
         /\ ~stays => loaded' = b
         /\ ~stays /\ loaded # b /\ dirty => Ahead' = Ahead \/ (unread /\ buf = Bare)
         /\ ~stays /\ loaded = b => Ahead' = Ahead /\ unread' = unread
<1>0. buf \in [Slots -> Cells] /\ box \in [Boxes -> [Slots -> Cells]]  BY DEF TypeOK
<1>1. CASE ~stays /\ loaded = b /\ UNCHANGED <<box, buffer, mishaps>>
  <2>1. Ahead' = Ahead /\ loaded' = b /\ unread' = unread /\ box' = box
    BY <1>1, AheadStill DEF buffer
  <2>2. QED  BY <1>1, <2>1
<1>2. CASE ~stays /\ loaded # b /\ ~dirty /\ BoxLoad(b) /\ UNCHANGED box
  <2>1. Ahead' = box' /\ loaded' = b  BY <1>0, <1>2, LoadShows, BoxLoadFrame
  <2>2. QED  BY <1>2, <2>1
<1>3. CASE ~stays /\ loaded # b /\ dirty /\ unread /\ buf = Bare /\ BoxLoad(b) /\ UNCHANGED box
  <2>1. Ahead' = box' /\ loaded' = b  BY <1>0, <1>3, LoadShows, BoxLoadFrame
  <2>2. QED  BY <1>3, <2>1
<1>4. CASE ~stays /\ loaded # b /\ dirty /\ ~unread /\ box' = [box EXCEPT ![loaded] = buf] /\ BoxLoad(b)
  <2>1. loaded \in Boxes  BY <1>4 DEF BufferShape
  <2>2. box' = Ahead  BY <1>4, <2>1, SavedAhead
  <2>3. box' \in [Boxes -> [Slots -> Cells]] /\ box'[b] = box[b]  BY <1>0, <1>4, <2>1
  <2>4. Ahead' = box' /\ loaded' = b  BY <1>4, <2>3, LoadShows, BoxLoadFrame
  <2>5. QED  BY <1>4, <2>2, <2>4
<1>5. CASE stays /\ loaded # b /\ dirty /\ BoxSave(buf, FALSE) /\ UNCHANGED <<buf, loaded, unread>>
  <2>1. loaded \in Boxes  BY <1>5 DEF BufferShape
  <2>2. box' = box \/ (~unread /\ box' = [box EXCEPT ![loaded] = buf])
    BY <1>5 DEF BoxSave, BoxWrite
  <2>3. box' \in {box, Ahead}  BY <2>1, <2>2, SavedAhead
  <2>4. \A c \in Boxes : c # loaded \/ unread => box'[c] = box[c]  BY <1>0, <2>1, <2>2
  <2>5. Ahead' = Ahead  BY <1>5, <2>4, AheadStill
  <2>6. QED  BY <1>5, <2>3, <2>5
<1>6. QED  BY <1>1, <1>2, <1>3, <1>4, <1>5 DEF PageIn

LEMMA SafeStill ==
  ASSUME Safe, UNCHANGED <<sav, pc, queue>>, box' \in {box, Ahead}, Ahead' \in {box, Ahead}
  PROVE  Safe'
  BY DEF Safe

\* Elsewhere than at the Bank's second step and in a flush, nothing is asked.
LEMMA AtEase ==
  ASSUME at' \notin {"clear", "wipe", "flush", "delete"}, ~staged' => sav' = pc'
  PROVE  Committed' /\ Clearing'
  BY DEF Committed, Clearing

\* A Pokemon more on a free cell.
LEMMA Grown ==
  ASSUME NEW A, NEW B, NEW p, NEW f, NEW q, Preserved(A, p, f, q),
         \A b \in Boxes, s \in Slots : A[b][s] \in Mons => B[b][s] = A[b][s]
  PROVE  Preserved(B, p, f, q)
  BY DEF Preserved, InBank, Remains

\* One less on a cell it can do without.
LEMMA Thinned ==
  ASSUME NEW A, NEW B, NEW p, NEW f, NEW q, Preserved(A, p, f, q),
         NEW c \in Boxes, NEW r \in Slots,
         \A b \in Boxes, s \in Slots : <<b, s>> # <<c, r>> => B[b][s] = A[b][s],
         A[c][r] \in Mons =>
           /\ InPc(f, A[c][r]) \/ \E b \in Boxes, s \in Slots : A[b][s] = A[c][r] /\ <<b, s>> # <<c, r>>
           /\ \/ InPc(p, A[c][r])
              \/ \E b \in Boxes, s \in Slots : /\ A[b][s] = A[c][r] /\ <<b, s>> # <<c, r>>
                                               /\ ~Doomed(q, A[c][r], b, s)
  PROVE  Preserved(B, p, f, q)
<1>1. SUFFICES ASSUME NEW m \in Mons
               PROVE  /\ InPc(f, m) \/ InBank(B, m)
                      /\ InPc(p, m) \/ Remains(B, q, m)
  BY DEF Preserved
<1>2. /\ InPc(f, m) \/ InBank(A, m)
      /\ InPc(p, m) \/ Remains(A, q, m)
  BY DEF Preserved
<1>3. CASE m = A[c][r]
  BY <1>3 DEF InBank, Remains
<1>4. CASE m # A[c][r]
  <2>1. \A b \in Boxes, s \in Slots : A[b][s] = m => B[b][s] = m  BY <1>4
  <2>2. QED  BY <1>2, <2>1 DEF InBank, Remains
<1>5. QED  BY <1>3, <1>4

\* The PC is saved; or the .sav is read again and the deletions are forgotten.
LEMMA SavedPreserved ==
  ASSUME NEW A, NEW p, NEW f, NEW q, Preserved(A, p, f, q)
  PROVE  Preserved(A, p, p, q) /\ Preserved(A, f, f, <<>>)
<1>1. \A m \in Mons : Remains(A, q, m) => InBank(A, m)  BY DEF Remains, InBank
<1>2. \A m \in Mons : InBank(A, m) => Remains(A, <<>>, m)  BY DEF Remains, InBank, Doomed
<1>3. QED  BY <1>1, <1>2 DEF Preserved

\* Nothing is due that was not due before.
LEMMA FewerDoomed ==
  ASSUME NEW A, NEW p, NEW f, NEW q, NEW e, Preserved(A, p, f, q),
         \A n \in DOMAIN e : \E k \in DOMAIN q : q[k] = e[n]
  PROVE  Preserved(A, p, f, e)
<1>1. \A m, b, s : Doomed(e, m, b, s) => Doomed(q, m, b, s)  BY DEF Doomed
<1>2. QED  BY <1>1 DEF Preserved, Remains

-----------------------------------------------------------------------------
\* The steps of the Bank screen.
LEMMA HandMon ==
  ASSUME TypeOK, TouchedOnly, hand # None
  PROVE  /\ hand.mon \in Mons /\ hand.next = Free /\ ~Homeless
         /\ hand.from = "bank" => hand.box \in Boxes /\ hand.slot \in Slots
         /\ hand.from = "pc" => hand.box = None /\ hand.slot \in PcSlots
  BY HandInPlace DEF TouchedOnly, TypeOK, Homeless, FromPc, Carried

\* Those that only page boxes in or touch the hand.
LEMMA TurnsSafe ==
  ASSUME Bystanders, NoneLost,
         EnterBank \/ PageBack \/ LeaveBank \/ BankCancel
         \/ (\E b \in Boxes : FlipPage(b)) \/ (\E s \in Slots : BankPick(s))
  PROVE  NoneLost'
<1>0. /\ TypeOK /\ BufferShape /\ TouchedOnly /\ Safe /\ 1 \in Boxes
      /\ box \in [Boxes -> [Slots -> Cells]] /\ buf \in [Slots -> Cells]
      /\ ~staged => sav = pc
  BY SlotFacts DEF Bystanders, Shape, TypeOK, NoneLost, Committed
<1>1. CASE EnterBank
  <2>1. box' = box /\ UNCHANGED <<sav, pc, staged, queue>> /\ BoxLoad(1) /\ at' = "bank"
    BY <1>1 DEF EnterBank, card
  <2>2. Ahead' = box'  BY <1>0, <2>1, LoadShows
  <2>3. Safe'  BY <1>0, <2>1, <2>2, SafeStill
  <2>4. QED  BY <1>0, <2>1, <2>3, AtEase DEF NoneLost
<1>2. ASSUME NEW b \in Boxes, NEW stays \in BOOLEAN, PageIn(b, stays), at' = "bank",
             UNCHANGED <<sav, pc, staged, queue>>
      PROVE  NoneLost'
  <2>1. Safe'  BY <1>0, <1>2, PageInAhead, SafeStill
  <2>2. QED  BY <1>0, <1>2, <2>1, AtEase DEF NoneLost
<1>3. CASE PageBack
  BY <1>0, <1>2, <1>3 DEF PageBack, TypeOK
<1>4. ASSUME NEW b \in Boxes, FlipPage(b) PROVE NoneLost'
  BY <1>2, <1>4 DEF FlipPage
<1>5. CASE LeaveBank
  <2>1. UNCHANGED <<sav, pc, staged, queue>> /\ at' = "pc"  BY <1>5 DEF LeaveBank
  <2>2. CASE ~dirty /\ UNCHANGED <<box, buffer, mishaps, smooth>>
    <3>1. Ahead' = Ahead  BY <1>0, <2>2, AheadStill DEF buffer
    <3>2. Safe'  BY <1>0, <2>1, <2>2, <3>1, SafeStill
    <3>3. QED  BY <1>0, <2>1, <3>2, AtEase DEF NoneLost
  <2>3. ASSUME NEW ok \in BOOLEAN, dirty, BoxWrite(buf, ok), UNCHANGED <<buf, loaded, unread>>
        PROVE  NoneLost'
    <3>1. loaded \in Boxes  BY <2>3 DEF Bystanders, Shape, BufferShape
    <3>2. box' = box \/ (~unread /\ box' = [box EXCEPT ![loaded] = buf])
      BY <2>3 DEF BoxWrite
    <3>3. box' \in {box, Ahead}  BY <1>0, <3>1, <3>2, SavedAhead
    <3>4. \A c \in Boxes : c # loaded \/ unread => box'[c] = box[c]  BY <1>0, <3>1, <3>2
    <3>5. Ahead' = Ahead  BY <1>0, <2>3, <3>4, AheadStill
    <3>6. Safe'  BY <1>0, <2>1, <3>3, <3>5, SafeStill
    <3>7. QED  BY <1>0, <2>1, <3>6, AtEase DEF NoneLost
  <2>4. CASE dirty /\ BoxLoad(loaded) /\ UNCHANGED box
    <3>1. loaded \in Boxes  BY <2>4 DEF Bystanders, Shape, BufferShape
    <3>2. Ahead' = box'  BY <1>0, <2>4, <3>1, LoadShows
    <3>3. Safe'  BY <1>0, <2>1, <2>4, <3>2, SafeStill
    <3>4. QED  BY <1>0, <2>1, <3>3, AtEase DEF NoneLost
  <2>5. QED  BY <1>5, <2>2, <2>3, <2>4 DEF LeaveBank
<1>6. ASSUME UNCHANGED <<sav, box, pc, staged, buf, loaded, unread, queue>>, at' = "bank"
      PROVE  NoneLost'
  <2>1. Ahead' = Ahead  BY <1>0, <1>6, AheadStill
  <2>2. Safe'  BY <1>0, <1>6, <2>1, SafeStill
  <2>3. QED  BY <1>0, <1>6, <2>2, AtEase DEF NoneLost
<1>7. CASE BankCancel
  <2>1. ~Homeless  BY <1>0, <1>7, HandMon DEF BankCancel
  <2>2. QED  BY <1>6, <1>7, <2>1 DEF BankCancel, card
<1>8. ASSUME NEW s \in Slots, BankPick(s) PROVE NoneLost'
  BY <1>6, <1>8 DEF BankPick, card, buffer
<1>9. QED  BY <1>1, <1>3, <1>4, <1>5, <1>7, <1>8

\* A drop puts the Pokemon on a cell that is free and not due, and so it can
\* do without the cell it came from.
LEMMA DropSafe ==
  ASSUME Bystanders, NoneLost, ScreenIsBuffer, NEW s \in Slots, BankDrop(s)
  PROVE  NoneLost'
<1> DEFINE m == hand.mon
<1>0. /\ TypeOK /\ TouchedOnly /\ Preserved(box, pc, sav, queue) /\ Preserved(Ahead, pc, sav, queue)
      /\ box \in [Boxes -> [Slots -> Cells]] /\ buf \in [Slots -> Cells]
      /\ ~staged => sav = pc
  BY DEF Bystanders, Shape, TypeOK, NoneLost, Safe, Committed
<1>1. /\ at = "bank" /\ hand # None /\ hand.from = "bank" /\ ~Taken(s) /\ ~OwnCell(s)
      /\ buf' = [buf EXCEPT ![s] = hand.mon] /\ dirty'
      /\ UNCHANGED <<sav, box, pc, staged, loaded, unread, page, queue>>
  BY DEF BankDrop, Place, card
<1>2. m \in Mons /\ ~Homeless /\ hand.next = Free  BY <1>0, <1>1, HandMon
<1>3. at' = "clear" /\ hand' = [hand EXCEPT !.next = Free]  BY <1>2 DEF BankDrop, Place
<1>4. hand'.mon = m /\ hand'.box = hand.box /\ hand'.slot = hand.slot
  <2>1. hand \in Hands  BY <1>0, <1>1 DEF TypeOK
  <2>2. QED  BY <1>3, <2>1 DEF Hands
<1>5. page = loaded /\ loaded \in Boxes /\ buf[s] = None /\ None \notin Mons
  BY <1>0, <1>1, MonAssumption DEF ScreenIsBuffer, TypeOK, Taken
<1>6. ~Doomed(queue, m, page, s)  BY <1>1 DEF Taken, Pending, Doomed
<1>7. <<page, s>> # Origin  BY <1>1 DEF OwnCell, Origin
<1>8. Ahead' = IF unread THEN Ahead ELSE [Ahead EXCEPT ![loaded] = buf']
  <2>1. Ahead' = [b \in Boxes |-> IF loaded = b /\ ~unread THEN buf' ELSE box[b]]
    BY <1>1 DEF Ahead
  <2>2. QED  BY <2>1 DEF Ahead
<1>9. \A b \in Boxes, r \in Slots : Ahead[b][r] \in Mons => Ahead'[b][r] = Ahead[b][r]
  BY <1>0, <1>1, <1>5, <1>8, AheadShows
<1>10. Safe'  BY <1>0, <1>1, <1>9, Grown DEF Safe
<1>11. Landed'
  <2>1. buf'[s] = m  BY <1>0, <1>1
  <2>2. QED  BY <1>1, <1>4, <1>6, <1>7, <2>1 DEF Landed, Origin
<1>12. ASSUME ~unread PROVE Spared'
  <2>1. Ahead'[loaded][s] = m /\ Ahead[loaded][s] = None
    BY <1>0, <1>1, <1>5, <1>8, <1>12, AheadShows
  <2>2. CASE s # hand.slot
    <3>1. Other(loaded, s)'  BY <1>1, <1>4, <2>2 DEF Other
    <3>2. QED  BY <1>1, <1>4, <1>5, <1>6, <2>1, <3>1 DEF Spared
  <2>3. CASE s = hand.slot
    <3>1. \A b \in Boxes, r \in Slots : Ahead[b][r] = m => Ahead'[b][r] = m /\ Other(b, r)'
      BY <1>1, <1>2, <1>4, <1>5, <1>9, <2>1, <2>3 DEF Other
    <3>2. /\ InPc(sav, m) \/ InBank(Ahead, m)
          /\ InPc(pc, m) \/ Remains(Ahead, queue, m)
      BY <1>0, <1>2 DEF Preserved
    <3>3. /\ InPc(sav, m) \/ \E b \in Boxes, r \in Slots : Ahead'[b][r] = m /\ Other(b, r)'
          /\ \/ InPc(pc, m)
             \/ \E b \in Boxes, r \in Slots : Ahead'[b][r] = m /\ Other(b, r)' /\ ~Doomed(queue, m, b, r)
      BY <3>1, <3>2 DEF InBank, Remains
    <3>4. QED  BY <1>1, <1>4, <3>3 DEF Spared
  <2>4. QED  BY <2>2, <2>3
<1>13. Clearing'  BY <1>1, <1>5, <1>11, <1>12 DEF Clearing
<1>14. Committed'  BY <1>0, <1>1, <1>3 DEF Committed
<1>15. QED  BY <1>10, <1>13, <1>14 DEF NoneLost

LEMMA ClearSafe ==
  ASSUME Bystanders, NoneLost, ClearOrigin
  PROVE  NoneLost'
<1>0. /\ TypeOK /\ BufferShape /\ TouchedOnly /\ Safe /\ at = "clear" /\ at' = "wipe"
      /\ buf \in [Slots -> Cells] /\ (~staged => sav = pc)
      /\ dirty /\ loaded = page /\ Landed /\ (~unread => Spared)
      /\ UNCHANGED <<sav, pc, staged, page, queue, hand>>
  BY DEF Bystanders, Shape, TypeOK, NoneLost, Committed, Clearing, ClearOrigin
<1>1. hand \in Carried /\ hand # None
  BY <1>0, HandAssumption, HandCases DEF Bystanders, Shape, HandShape
<1>2. hand.box \in Boxes /\ hand.slot \in Slots /\ hand.mon \in Mons
  BY <1>0, <1>1, HandMon DEF Carried
<1>3. PICK stays \in BOOLEAN : PageIn(hand.box, stays)  BY DEF ClearOrigin
<1>4. Safe'  BY <1>0, <1>2, <1>3, PageInAhead, SafeStill
<1>5. Committed'  BY <1>0 DEF Committed
<1>6. ASSUME ~unread' PROVE Spared'
  <2>1. CASE stays
    <3>1. UNCHANGED <<loaded, unread>> /\ Ahead' = Ahead
      BY <1>0, <1>2, <1>3, <2>1, PageInAhead
    <3>2. QED  BY <1>0, <1>6, <3>1 DEF Spared, Other
  <2>2. CASE ~stays
    <3>1. PICK s \in Slots : /\ buf[s] = hand.mon /\ ~Doomed(queue, hand.mon, page, s)
                             /\ <<page, s>> # Origin
      BY <1>0 DEF Landed
    <3>2. buf # Bare  BY <1>2, <3>1, MonAssumption DEF Bare
    <3>3. loaded' = hand.box /\ Ahead' = Ahead /\ ~unread
      <4>1. loaded' = hand.box  BY <1>0, <1>2, <1>3, <2>2, PageInAhead
      <4>2. CASE loaded = hand.box
        BY <1>0, <1>2, <1>3, <1>6, <2>2, <4>1, <4>2, PageInAhead
      <4>3. CASE loaded # hand.box
        <5>1. ~unread  BY <1>0, <1>3, <2>2, <3>2, <4>3 DEF PageIn
        <5>2. QED  BY <1>0, <1>2, <1>3, <2>2, <3>2, <4>1, <4>3, <5>1, PageInAhead
      <4>4. QED  BY <4>2, <4>3
    <3>4. Ahead'[page][s] = hand.mon /\ page \in Boxes
      BY <1>0, <3>1, <3>3, AheadShows DEF TypeOK
    <3>5. Other(page, s)'  BY <1>0, <3>1, <3>3 DEF Other, Origin
    <3>6. QED  BY <1>0, <3>1, <3>4, <3>5 DEF Spared
  <2>3. QED  BY <2>1, <2>2
<1>7. Clearing'  BY <1>0, <1>6 DEF Clearing
<1>8. QED  BY <1>4, <1>5, <1>7 DEF NoneLost

LEMMA WipeSafe ==
  ASSUME Bystanders, NoneLost, WipeOrigin
  PROVE  NoneLost'
<1>0. /\ TypeOK /\ BufferShape /\ TouchedOnly /\ at = "wipe" /\ at' = "back"
      /\ Preserved(box, pc, sav, queue) /\ Preserved(Ahead, pc, sav, queue)
      /\ buf \in [Slots -> Cells] /\ (~staged => sav = pc) /\ (~unread => Spared)
      /\ buf' = IF buf[hand.slot] = hand.mon THEN [buf EXCEPT ![hand.slot] = None] ELSE buf
      /\ UNCHANGED <<sav, box, pc, staged, loaded, unread, queue>>
  BY DEF Bystanders, Shape, TypeOK, NoneLost, Safe, Committed, Clearing, WipeOrigin, card
<1>1. hand \in Carried /\ hand # None
  BY <1>0, HandAssumption, HandCases DEF Bystanders, Shape, HandShape
<1>2. hand.slot \in Slots /\ hand.mon \in Mons /\ loaded \in Boxes
  BY <1>0, <1>1, HandMon DEF Carried, BufferShape
<1>3. Ahead' = [b \in Boxes |-> IF loaded = b /\ ~unread THEN buf' ELSE box[b]]
  BY <1>0 DEF Ahead
<1>4. Preserved(Ahead', pc, sav, queue)
  <2>1. CASE unread \/ buf[hand.slot] # hand.mon
    <3>1. Ahead' = Ahead  BY <1>0, <1>3, <2>1 DEF Ahead
    <3>2. QED  BY <1>0, <3>1
  <2>2. CASE ~unread /\ buf[hand.slot] = hand.mon
    <3>1. Ahead[loaded][hand.slot] = hand.mon  BY <1>0, <1>2, <2>2, AheadShows
    <3>2. \A b \in Boxes, s \in Slots : <<b, s>> # <<loaded, hand.slot>> => Ahead'[b][s] = Ahead[b][s]
      BY <1>0, <1>2, <1>3, <2>2, AheadShows
    <3>3. /\ InPc(sav, hand.mon)
             \/ \E b \in Boxes, s \in Slots :
                  Ahead[b][s] = hand.mon /\ <<b, s>> # <<loaded, hand.slot>>
          /\ \/ InPc(pc, hand.mon)
             \/ \E b \in Boxes, s \in Slots : /\ Ahead[b][s] = hand.mon
                                              /\ <<b, s>> # <<loaded, hand.slot>>
                                              /\ ~Doomed(queue, hand.mon, b, s)
      BY <1>0, <2>2 DEF Spared, Other
    <3>4. QED  BY <1>0, <1>2, <3>1, <3>2, <3>3, Thinned
  <2>3. QED  BY <2>1, <2>2
<1>5. Safe'  BY <1>0, <1>4 DEF Safe
<1>6. QED  BY <1>0, <1>5, AtEase DEF NoneLost

\* A Pokemon from the PC leaves it only once the box that takes it was saved.
LEMMA TakeSafe ==
  ASSUME Bystanders, NoneLost, ScreenIsBuffer, NEW s \in Slots, BankTake(s)
  PROVE  NoneLost'
<1> DEFINE m == hand.mon
           full == [buf EXCEPT ![s] = hand.mon]
<1>0. /\ TypeOK /\ TouchedOnly /\ Preserved(box, pc, sav, queue) /\ Preserved(Ahead, pc, sav, queue)
      /\ box \in [Boxes -> [Slots -> Cells]] /\ buf \in [Slots -> Cells] /\ pc \in [PcSlots -> Cells]
      /\ ~staged => sav = pc
  BY DEF Bystanders, Shape, TypeOK, NoneLost, Safe, Committed
<1>1. /\ at = "bank" /\ at' = "bank" /\ hand # None /\ hand.from = "pc" /\ ~Taken(s)
      /\ UNCHANGED <<sav, loaded, unread, page, queue>>
  BY DEF BankTake
<1>2. m \in Mons /\ hand.slot \in PcSlots  BY <1>0, <1>1, HandMon
<1>3. page = loaded /\ loaded \in Boxes /\ buf[s] = None /\ None \notin Mons
  BY <1>0, <1>1, MonAssumption DEF ScreenIsBuffer, TypeOK, Taken
<1>4. ~Doomed(queue, m, loaded, s)  BY <1>1, <1>3 DEF Taken, Pending, Doomed
<1>5. ASSUME ~unread, box' = [box EXCEPT ![loaded] = full]
      PROVE  /\ box'[loaded][s] = m
             /\ \A b \in Boxes, r \in Slots : <<b, r>> # <<loaded, s>> => box'[b][r] = Ahead[b][r]
  <2>1. full[s] = m /\ \A r \in Slots : r # s => full[r] = buf[r]  BY <1>0
  <2>2. box'[loaded] = full /\ \A b \in Boxes : b # loaded => box'[b] = box[b]
    BY <1>0, <1>3, <1>5
  <2>3. \A b \in Boxes : Ahead[b] = IF loaded = b THEN buf ELSE box[b]
    BY <1>0, <1>5, AheadShows
  <2>4. QED  BY <2>1, <2>2, <2>3
<1>6. Ahead[loaded][s] = None \/ unread  BY <1>0, <1>3, AheadShows
<1>7. CASE BoxSave(full, TRUE) /\ buf' = full /\ ReleasePc /\ staged'
  <2>1. ~unread /\ box' = [box EXCEPT ![loaded] = full]  BY <1>7 DEF BoxSave, BoxWrite
  <2>2. Ahead' = box'
    <3>1. Ahead' = [b \in Boxes |-> IF loaded = b /\ ~unread THEN buf' ELSE box'[b]]
      BY <1>1 DEF Ahead
    <3>2. box' \in [Boxes -> [Slots -> Cells]]  BY <1>0, <1>2, <2>1 DEF Cells
    <3>3. box'[loaded] = buf'  BY <1>0, <1>3, <1>7, <2>1
    <3>4. QED  BY <3>1, <3>2, <3>3
  <2>3. \A r \in PcSlots : pc[r] # m => pc'[r] = pc[r]
    BY <1>0, <1>2, <1>7 DEF ReleasePc
  <2>4. Preserved(box', pc', sav, queue)
    <3>1. SUFFICES ASSUME NEW x \in Mons
                   PROVE  /\ InPc(sav, x) \/ InBank(box', x)
                          /\ InPc(pc', x) \/ Remains(box', queue, x)
      BY DEF Preserved
    <3>2. CASE x = m
      BY <1>3, <1>4, <1>5, <2>1, <3>2 DEF InBank, Remains
    <3>3. CASE x # m
      <4>1. /\ InPc(sav, x) \/ InBank(Ahead, x)
            /\ InPc(pc, x) \/ Remains(Ahead, queue, x)
        BY <1>0 DEF Preserved
      <4>2. InPc(pc, x) => InPc(pc', x)  BY <2>3, <3>3 DEF InPc
      <4>3. \A b \in Boxes, r \in Slots : Ahead[b][r] = x => box'[b][r] = x
        <5>1. \A b \in Boxes, r \in Slots : <<b, r>> # <<loaded, s>> => box'[b][r] = Ahead[b][r]
          BY <1>5, <2>1
        <5>2. Ahead[loaded][s] # x  BY <1>3, <1>6, <2>1
        <5>3. QED  BY <5>1, <5>2
      <4>4. QED  BY <4>1, <4>2, <4>3 DEF InBank, Remains
    <3>4. QED  BY <3>2, <3>3
  <2>5. Safe'  BY <1>1, <2>2, <2>4 DEF Safe
  <2>6. QED  BY <1>1, <1>7, <2>5, AtEase DEF NoneLost
<1>8. CASE BoxSave(full, FALSE) /\ buf' = [buf EXCEPT ![s] = None] /\ UNCHANGED <<pc, staged, hand>>
  <2>1. buf' = buf  BY <1>0, <1>3, <1>8
  <2>2. box' = box \/ (~unread /\ box' = [box EXCEPT ![loaded] = full])
    BY <1>8 DEF BoxSave, BoxWrite
  <2>3. \A b \in Boxes : b # loaded \/ unread => box'[b] = box[b]  BY <1>0, <1>3, <2>2
  <2>4. Ahead' = Ahead  BY <1>0, <1>1, <2>1, <2>3, AheadStill
  <2>5. Preserved(box', pc, sav, queue)
    <3>1. CASE box' = box  BY <1>0, <3>1
    <3>2. CASE ~unread /\ box' = [box EXCEPT ![loaded] = full]
      <4>1. \A b \in Boxes, r \in Slots : Ahead[b][r] \in Mons => box'[b][r] = Ahead[b][r]
        <5>1. \A b \in Boxes, r \in Slots : <<b, r>> # <<loaded, s>> => box'[b][r] = Ahead[b][r]
          BY <1>5, <3>2
        <5>2. Ahead[loaded][s] \notin Mons  BY <1>3, <1>6, <3>2
        <5>3. QED  BY <5>1, <5>2
      <4>2. QED  BY <1>0, <4>1, Grown
    <3>3. QED  BY <2>2, <3>1, <3>2
  <2>6. Safe'  BY <1>0, <1>1, <1>8, <2>4, <2>5 DEF Safe
  <2>7. QED  BY <1>0, <1>1, <1>8, <2>6, AtEase DEF NoneLost
<1>9. QED  BY <1>7, <1>8 DEF BankTake

LEMMA BankScreenSafe ==
  ASSUME Swaps = FALSE, Bystanders, NoneLost, ScreenIsBuffer, BankScreen
  PROVE  NoneLost'
  BY TurnsSafe, DropSafe, ClearSafe, WipeSafe, TakeSafe DEF BankScreen, BankSwap

-----------------------------------------------------------------------------
\* The steps of the PC screen.
LEMMA PcTakeSafe ==
  ASSUME Bystanders, NoneLost, NEW s \in PcSlots, PcTake(s)
  PROVE  NoneLost'
<1> DEFINE entry == [box |-> hand.box, slot |-> hand.slot, mon |-> hand.mon]
<1>0. /\ TypeOK /\ Preserved(box, pc, sav, queue) /\ Preserved(Ahead, pc, sav, queue)
      /\ pc \in [PcSlots -> Cells] /\ queue \in Seq(Entries)
  BY DEF Bystanders, Shape, TypeOK, NoneLost, Safe
<1>1. /\ at = "pc" /\ at' = "pc" /\ pc[s] = None /\ pc' = [pc EXCEPT ![s] = hand.mon] /\ staged'
      /\ queue' = Append(queue, entry)
      /\ UNCHANGED <<sav, box, buf, loaded, unread>>
  BY DEF PcTake, card, buffer
<1>2. Ahead' = Ahead  BY <1>0, <1>1, AheadStill
<1>3. \A x, b, r : x # hand.mon /\ Doomed(queue', x, b, r) => Doomed(queue, x, b, r)
  <2>1. TAKE x, b, r
  <2>2. HAVE x # hand.mon /\ Doomed(queue', x, b, r)
  <2>3. PICK n \in DOMAIN queue' : queue'[n].box = b /\ queue'[n].slot = r /\ queue'[n].mon = x
    BY <2>2 DEF Doomed
  <2>4. n \in 1 .. Len(queue) + 1  BY <1>0, <1>1, <2>3
  <2>5. CASE n = Len(queue) + 1
    <3>1. queue'[n] = entry  BY <1>0, <1>1, <2>5
    <3>2. QED  BY <2>2, <2>3, <3>1
  <2>6. CASE n \in 1 .. Len(queue)
    <3>1. queue'[n] = queue[n] /\ n \in DOMAIN queue  BY <1>0, <1>1, <2>6
    <3>2. QED  BY <2>3, <3>1 DEF Doomed
  <2>7. QED  BY <1>0, <2>4, <2>5, <2>6
<1>4. ASSUME NEW A, Preserved(A, pc, sav, queue)
      PROVE  Preserved(A, pc', sav, queue')
  <2>1. SUFFICES ASSUME NEW x \in Mons
                 PROVE  /\ InPc(sav, x) \/ InBank(A, x)
                        /\ InPc(pc', x) \/ Remains(A, queue', x)
    BY DEF Preserved
  <2>2. /\ InPc(sav, x) \/ InBank(A, x)
        /\ InPc(pc, x) \/ Remains(A, queue, x)
    BY <1>4 DEF Preserved
  <2>3. CASE x = hand.mon
    <3>1. InPc(pc', x)  BY <1>0, <1>1, <2>3 DEF InPc
    <3>2. QED  BY <2>2, <3>1
  <2>4. CASE x # hand.mon
    <3>1. InPc(pc, x) => InPc(pc', x)
      BY <1>0, <1>1, MonAssumption DEF InPc
    <3>2. Remains(A, queue, x) => Remains(A, queue', x)  BY <1>3, <2>4 DEF Remains
    <3>3. QED  BY <2>2, <3>1, <3>2
  <2>5. QED  BY <2>3, <2>4
<1>5. Safe'  BY <1>0, <1>1, <1>2, <1>4 DEF Safe
<1>6. QED  BY <1>1, <1>5, AtEase DEF NoneLost

LEMMA PcScreenSafe ==
  ASSUME Bystanders, NoneLost, PcScreen
  PROVE  NoneLost'
<1>0. TypeOK /\ Safe /\ (~staged => sav = pc)
  BY DEF Bystanders, Shape, NoneLost, Committed
<1>1. ASSUME PcCancel \/ \E s \in PcSlots : PcPick(s) PROVE NoneLost'
  <2>1. at' = "pc" /\ UNCHANGED <<sav, box, pc, staged, buf, loaded, unread, queue>>
    BY <1>1 DEF PcCancel, PcPick, card, buffer
  <2>2. Ahead' = Ahead  BY <1>0, <2>1, AheadStill
  <2>3. Safe'  BY <1>0, <2>1, <2>2, SafeStill
  <2>4. QED  BY <1>0, <2>1, <2>3, AtEase DEF NoneLost
<1>2. CASE CommitPc
  <2>1. /\ at' = "pc" /\ staged /\ UNCHANGED <<box, pc, buf, loaded, unread, queue>>
        /\ sav' \in {sav, pc} /\ (~staged' => sav' = pc)
    BY <1>2 DEF CommitPc, PcSave, buffer
  <2>2. Ahead' = Ahead  BY <1>0, <2>1, AheadStill
  <2>3. Safe'
    <3>1. \A A : Preserved(A, pc, sav, queue) => Preserved(A, pc, pc, queue)
      BY SavedPreserved
    <3>2. QED  BY <1>0, <2>1, <2>2, <3>1 DEF Safe
  <2>4. QED  BY <2>1, <2>3, AtEase DEF NoneLost
<1>3. QED  BY <1>1, <1>2, PcTakeSafe DEF PcScreen

-----------------------------------------------------------------------------
\* Saving and the deletions.
LEMMA SaveSafe ==
  ASSUME Bystanders, NoneLost, SaveNow \/ Exit
  PROVE  NoneLost'
<1>0. TypeOK /\ Safe /\ (~staged => sav = pc)
  BY DEF Bystanders, Shape, NoneLost, Committed
<1>1. UNCHANGED <<box, buf, loaded, unread>> /\ Ahead' = Ahead
  <2>1. UNCHANGED <<box, buf, loaded, unread>>  BY DEF SaveNow, Exit, buffer
  <2>2. QED  BY <1>0, <2>1, AheadStill
<1>2. \A A : Preserved(A, pc, sav, queue) =>
        Preserved(A, pc, pc, queue) /\ Preserved(A, sav, sav, <<>>)
  BY SavedPreserved
<1>3. ASSUME NEW next, StartFlush(next), sav' = pc, UNCHANGED <<pc, queue>>
      PROVE  NoneLost'
  <2>1. at' = "flush" /\ left' = queue /\ kept' = <<>>  BY <1>3 DEF StartFlush
  <2>2. Safe'  BY <1>0, <1>1, <1>2, <1>3 DEF Safe
  <2>3. Committed'  BY <1>3, <2>1 DEF Committed, Listed
  <2>4. Clearing'  BY <2>1 DEF Clearing
  <2>5. QED  BY <2>2, <2>3, <2>4 DEF NoneLost
<1>4. ASSUME NEW next \in {"pc", "closed"}, SaveThenFlush(next), UNCHANGED <<pc, queue>>
      PROVE  NoneLost'
  <2>1. CASE PcSave(TRUE) /\ StartFlush(next)
    BY <1>3, <1>4, <2>1 DEF PcSave
  <2>2. CASE PcSave(FALSE) /\ at' = next
    <3>1. sav' \in {sav, pc} /\ staged' = staged  BY <2>2 DEF PcSave
    <3>2. Safe'  BY <1>0, <1>1, <1>2, <1>4, <3>1 DEF Safe
    <3>3. ~staged' => sav' = pc'  BY <1>0, <1>4, <3>1
    <3>4. QED  BY <1>4, <2>2, <3>2, <3>3, AtEase DEF NoneLost
  <2>3. QED  BY <1>4, <2>1, <2>2 DEF SaveThenFlush
<1>5. CASE SaveNow  BY <1>4, <1>5 DEF SaveNow
<1>6. CASE Exit
  <2>1. CASE staged /\ SaveThenFlush("closed") /\ UNCHANGED <<pc, queue, smooth>>
    BY <1>4, <2>1
  <2>2. CASE pc' = sav /\ staged' = FALSE /\ queue' = <<>> /\ at' = "closed" /\ sav' = sav
    <3>1. Safe'  BY <1>0, <1>1, <1>2, <2>2 DEF Safe
    <3>2. QED  BY <2>2, <3>1, AtEase DEF NoneLost
  <2>3. CASE ~staged /\ StartFlush("closed") /\ UNCHANGED <<sav, pc, staged, queue, mishaps, smooth>>
    BY <1>0, <1>3, <2>3
  <2>4. QED  BY <1>6, <2>1, <2>2, <2>3 DEF Exit
<1>7. QED  BY <1>5, <1>6

\* The entry at hand, kept or dropped, and the rest of what is left.
LEMMA EntryDone ==
  ASSUME TypeOK, left # <<>>, Listed(left), Listed(kept), queue' = queue,
         left' = Tail(left), kept' \in {kept, Append(kept, Head(left))}
  PROVE  Listed(left)' /\ Listed(kept)'
<1>1. left \in Seq(Entries) /\ kept \in Seq(Entries)  BY DEF TypeOK
<1>2. \A n \in DOMAIN left' : \E k \in DOMAIN left : left'[n] = left[k]
  <2>1. TAKE n \in DOMAIN left'
  <2>2. n + 1 \in DOMAIN left /\ left'[n] = left[n + 1]  BY <1>1
  <2>3. QED  BY <2>2
<1>3. 1 \in DOMAIN left /\ Head(left) = left[1]  BY <1>1
<1>4. \A n \in DOMAIN kept' : kept'[n] = Head(left) \/ (n \in DOMAIN kept /\ kept'[n] = kept[n])
  <2>1. CASE kept' = kept  BY <2>1
  <2>2. CASE kept' = Append(kept, Head(left))
    <3>1. DOMAIN kept' = 1 .. Len(kept) + 1  BY <1>1, <2>2
    <3>2. \A n \in 1 .. Len(kept) + 1 :
            kept'[n] = IF n = Len(kept) + 1 THEN Head(left) ELSE kept[n]
      BY <1>1, <2>2
    <3>3. \A n \in 1 .. Len(kept) + 1 : n # Len(kept) + 1 => n \in DOMAIN kept  BY <1>1
    <3>4. QED  BY <3>1, <3>2, <3>3
  <2>3. QED  BY <2>1, <2>2
<1>5. QED  BY <1>2, <1>3, <1>4 DEF Listed

LEMMA FlushSafe ==
  ASSUME Bystanders, NoneLost, FlushPage \/ FlushEnd
  PROVE  NoneLost'
<1>0. /\ TypeOK /\ BufferShape /\ Safe /\ left \in Seq(Entries) /\ (~staged => sav = pc)
      /\ at = "flush" /\ sav = pc /\ Listed(left) /\ Listed(kept)
  BY DEF Bystanders, Shape, TypeOK, NoneLost, Committed, FlushPage, FlushEnd
<1>1. CASE FlushPage
  <2>1. left # <<>> /\ UNCHANGED <<sav, pc, staged, queue>>  BY <1>1 DEF FlushPage
  <2>2. Head(left).box \in Boxes
    <3>1. Head(left) \in Entries  BY <1>0, <2>1
    <3>2. QED  BY <3>1 DEF Entries
  <2>3. PICK stays \in BOOLEAN :
          /\ PageIn(Head(left).box, stays)
          /\ IF stays THEN Keep(Head(left)) ELSE at' = "delete" /\ UNCHANGED <<left, kept>>
    BY <1>1 DEF FlushPage
  <2>4. Safe'  BY <1>0, <2>1, <2>2, <2>3, PageInAhead, SafeStill
  <2>5. CASE stays
    <3>1. at' = "flush" /\ left' = Tail(left) /\ kept' = Append(kept, Head(left))
      BY <2>3, <2>5 DEF Keep
    <3>2. Listed(left)' /\ Listed(kept)'  BY <1>0, <2>1, <3>1, EntryDone
    <3>3. Committed' /\ Clearing'  BY <1>0, <2>1, <3>1, <3>2 DEF Committed, Clearing
    <3>4. QED  BY <2>4, <3>3 DEF NoneLost
  <2>6. CASE ~stays
    <3>1. at' = "delete" /\ UNCHANGED <<left, kept>>  BY <2>3, <2>6
    <3>2. loaded' = Head(left).box  BY <1>0, <2>2, <2>3, <2>6, PageInAhead
    <3>3. Listed(left)' /\ Listed(kept)'  BY <1>0, <2>1, <3>1 DEF Listed
    <3>4. Committed' /\ Clearing'  BY <1>0, <2>1, <3>1, <3>2, <3>3 DEF Committed, Clearing
    <3>5. QED  BY <2>4, <3>4 DEF NoneLost
  <2>7. QED  BY <2>5, <2>6
<1>2. CASE FlushEnd
  <2>1. /\ queue' = kept /\ at' = resume /\ resume \in {"pc", "closed"}
        /\ UNCHANGED <<sav, box, pc, staged, buf, loaded, unread>>
    BY <1>0, <1>2 DEF FlushEnd, card, buffer, TypeOK
  <2>2. Ahead' = Ahead  BY <1>0, <2>1, AheadStill
  <2>3. \A n \in DOMAIN kept : \E k \in DOMAIN queue : queue[k] = kept[n]  BY <1>0 DEF Listed
  <2>4. Safe'  BY <1>0, <2>1, <2>2, <2>3, FewerDoomed DEF Safe
  <2>5. QED  BY <1>0, <2>1, <2>4, AtEase DEF NoneLost
<1>3. QED  BY <1>1, <1>2

\* A deletion takes what the PC on the card holds, or a cell that is not due.
LEMMA DeleteSafe ==
  ASSUME Bystanders, NoneLost, FlushDelete
  PROVE  NoneLost'
<1> DEFINE entry == Head(left)
           rest == [buf EXCEPT ![entry.slot] = None]
<1>0. /\ TypeOK /\ BufferShape /\ Safe /\ left \in Seq(Entries) /\ (~staged => sav = pc)
      /\ at = "delete" /\ sav = pc /\ Listed(left) /\ Listed(kept) /\ left # <<>>
      /\ loaded = entry.box /\ loaded \in Boxes
      /\ box \in [Boxes -> [Slots -> Cells]] /\ buf \in [Slots -> Cells]
      /\ UNCHANGED <<sav, pc, staged, loaded, unread, queue>>
  BY DEF Bystanders, Shape, FlushShape, BufferShape, TypeOK, NoneLost, Committed, FlushDelete
<1>1. entry \in Entries /\ entry.slot \in Slots
  <2>1. entry \in Entries  BY <1>0
  <2>2. QED  BY <2>1 DEF Entries
<1>2. PICK k \in DOMAIN queue : queue[k] = entry
  <2>1. 1 \in DOMAIN left /\ entry = left[1]  BY <1>0
  <2>2. QED  BY <1>0, <2>1 DEF Listed
<1>3. Keep(entry) \/ Drop  BY DEF FlushDelete
<1>4. Committed' /\ Clearing'
  <2>1. at' = "flush" /\ left' = Tail(left) /\ kept' \in {kept, Append(kept, entry)}
    BY <1>3 DEF Keep, Drop
  <2>2. Listed(left)' /\ Listed(kept)'  BY <1>0, <2>1, EntryDone
  <2>3. QED  BY <1>0, <2>1, <2>2 DEF Committed, Clearing
<1>5. CASE UNCHANGED <<box, buf, dirty, mishaps>>
  <2>1. Ahead' = Ahead  BY <1>0, <1>5, AheadStill
  <2>2. Safe'  BY <1>0, <1>5, <2>1, SafeStill
  <2>3. QED  BY <1>4, <2>2 DEF NoneLost
<1>6. ASSUME ~unread, buf[entry.slot] = entry.mon, NEW ok \in BOOLEAN, BoxSave(rest, ok), buf' = rest
      PROVE  NoneLost'
  <2>1. box' = box \/ box' = [box EXCEPT ![loaded] = rest]
    BY <1>6 DEF BoxSave, BoxWrite
  <2>2. /\ Ahead[loaded][entry.slot] = entry.mon
        /\ \A b \in Boxes, s \in Slots : <<b, s>> # <<loaded, entry.slot>> =>
             Ahead[b][s] = IF b = loaded THEN rest[s] ELSE box[b][s]
    BY <1>0, <1>1, <1>6, AheadShows
  <2>3. ASSUME NEW B, \A b \in Boxes, s \in Slots : <<b, s>> # <<loaded, entry.slot>> =>
                        B[b][s] = IF b = loaded THEN rest[s] ELSE box[b][s]
        PROVE  Preserved(B, pc, sav, queue)
    <3>1. SUFFICES ASSUME NEW x \in Mons
                   PROVE  InPc(pc, x) \/ Remains(B, queue, x)
      <4>1. \A x \in Mons : Remains(B, queue, x) => InBank(B, x)  BY DEF Remains, InBank
      <4>2. QED  BY <1>0, <3>1, <4>1 DEF Preserved
    <3>2. CASE InPc(pc, x)  BY <3>2
    <3>3. CASE Remains(Ahead, queue, x)
      <4>1. PICK b \in Boxes, s \in Slots : Ahead[b][s] = x /\ ~Doomed(queue, x, b, s)
        BY <3>3 DEF Remains
      <4>2. <<b, s>> # <<loaded, entry.slot>>
        <5>1. SUFFICES ASSUME b = loaded, s = entry.slot PROVE FALSE
          OBVIOUS
        <5>2. x = entry.mon  BY <2>2, <4>1, <5>1
        <5>3. Doomed(queue, x, b, s)  BY <1>0, <1>2, <5>1, <5>2 DEF Doomed
        <5>4. QED  BY <4>1, <5>3
      <4>3. B[b][s] = x  BY <2>2, <2>3, <4>1, <4>2
      <4>4. QED  BY <4>1, <4>3 DEF Remains
    <3>4. InPc(pc, x) \/ Remains(Ahead, queue, x)  BY <1>0 DEF Safe, Preserved
    <3>5. QED  BY <3>2, <3>3, <3>4
  <2>4. Preserved(box', pc, sav, queue)
    <3>1. CASE box' = box  BY <1>0, <3>1 DEF Safe
    <3>2. CASE box' = [box EXCEPT ![loaded] = rest]
      <4>1. \A b \in Boxes, s \in Slots :
              box'[b][s] = IF b = loaded THEN rest[s] ELSE box[b][s]
        BY <1>0, <3>2
      <4>2. QED  BY <2>3, <4>1
    <3>3. QED  BY <2>1, <3>1, <3>2
  <2>5. Preserved(Ahead', pc, sav, queue)
    <3>1. Ahead' = [b \in Boxes |-> IF loaded = b THEN rest ELSE box'[b]]
      BY <1>0, <1>6 DEF Ahead
    <3>2. \A b \in Boxes : b # loaded => box'[b] = box[b]  BY <1>0, <2>1
    <3>3. \A b \in Boxes, s \in Slots :
            Ahead'[b][s] = IF b = loaded THEN rest[s] ELSE box[b][s]
      BY <3>1, <3>2
    <3>4. QED  BY <2>3, <3>3
  <2>6. Safe'  BY <1>0, <2>4, <2>5 DEF Safe
  <2>7. QED  BY <1>4, <2>6 DEF NoneLost
<1>7. QED  BY <1>5, <1>6 DEF FlushDelete

LEMMA StepSafe ==
  ASSUME Swaps = FALSE, Bystanders, NoneLost, ScreenIsBuffer, [Next]_vars
  PROVE  NoneLost'
<1>0. TypeOK /\ Safe /\ (~staged => sav = pc) /\ box \in [Boxes -> [Slots -> Cells]]
  BY DEF Bystanders, Shape, TypeOK, NoneLost, Committed
<1>1. \A A : Preserved(A, pc, sav, queue) => Preserved(A, sav, sav, <<>>)
  BY SavedPreserved
<1>2. CASE PowerCut
  <2>1. /\ at' = "closed" /\ pc' = sav /\ sav' = sav /\ box' = box /\ loaded' = None
        /\ queue' = <<>>
    BY <1>2 DEF PowerCut, card
  <2>2. Ahead' = box
    <3>1. Ahead' = [b \in Boxes |-> IF None = b /\ ~unread' THEN buf' ELSE box[b]]
      BY <2>1 DEF Ahead
    <3>2. \A b \in Boxes : None # b  BY SlotFacts
    <3>3. QED  BY <1>0, <3>1, <3>2
  <2>3. Safe'  BY <1>0, <1>1, <2>1, <2>2 DEF Safe
  <2>4. QED  BY <2>1, <2>3, AtEase DEF NoneLost
<1>3. CASE OpenSave
  <2>1. /\ at' = "pc" /\ pc' = sav /\ queue' = <<>>
        /\ UNCHANGED <<sav, box, buf, loaded, unread>>
    BY <1>3 DEF OpenSave, card, buffer
  <2>2. Ahead' = Ahead  BY <1>0, <2>1, AheadStill
  <2>3. Safe'  BY <1>0, <1>1, <2>1, <2>2 DEF Safe
  <2>4. QED  BY <2>1, <2>3, AtEase DEF NoneLost
<1>4. CASE UNCHANGED vars
  BY <1>4 DEF vars, NoneLost, Safe, Preserved, Ahead, Committed, Listed, Clearing, Landed, Spared,
     Other, Origin, Doomed, Remains, InBank, InPc
<1>5. CASE BankScreen \/ PcScreen \/ Saving
  BY <1>5, BankScreenSafe, PcScreenSafe, SaveSafe, FlushSafe, DeleteSafe DEF Saving
<1>6. QED  BY <1>2, <1>3, <1>4, <1>5 DEF Next

-----------------------------------------------------------------------------
LEMMA SomeCopy ==
  ASSUME NEW m \in Mons
  PROVE  Copies(m) > 0 <=> InPc(sav, m) \/ InBank(box, m)
<1> DEFINE A == PlacesInSav(m)
           B == PlacesInBank(m)
<1>1. IsFiniteSet(A) /\ IsFiniteSet(B)
  <2>1. IsFiniteSet(PcSlots) /\ IsFiniteSet(Boxes) /\ IsFiniteSet(Slots)
    BY FS_Interval, SizeAssumption DEF PcSlots, Boxes, Slots
  <2>2. IsFiniteSet(Boxes \X Slots)  BY <2>1, FS_Product
  <2>3. A \subseteq PcSlots /\ B \subseteq Boxes \X Slots  BY DEF PlacesInSav, PlacesInBank
  <2>4. QED  BY <2>1, <2>2, <2>3, FS_Subset
<1>2. Cardinality(A) \in Nat /\ Cardinality(B) \in Nat
  BY <1>1, FS_CardinalityType
<1>3. (Cardinality(A) = 0 <=> A = {}) /\ (Cardinality(B) = 0 <=> B = {})
  BY <1>1, FS_EmptySet
<1>4. InPc(sav, m) <=> A # {}  BY DEF InPc, PlacesInSav
<1>5. InBank(box, m) <=> B # {}
  <2>1. \A b \in Boxes, s \in Slots : <<b, s>> \in B <=> box[b][s] = m  BY DEF PlacesInBank
  <2>2. \A p \in B : \E b \in Boxes, s \in Slots : p = <<b, s>>  BY DEF PlacesInBank
  <2> HIDE DEF B
  <2>3. ASSUME InBank(box, m) PROVE B # {}  BY <2>1, <2>3 DEF InBank
  <2>4. ASSUME NEW p, p \in B PROVE InBank(box, m)
    <3>1. PICK b \in Boxes, s \in Slots : p = <<b, s>>  BY <2>2, <2>4
    <3>2. QED  BY <2>1, <2>4, <3>1 DEF InBank
  <2>5. QED  BY <2>3, <2>4
<1>6. Copies(m) = Cardinality(A) + Cardinality(B)  BY DEF Copies
<1>7. Copies(m) > 0 <=> Cardinality(A) # 0 \/ Cardinality(B) # 0
  <2> HIDE DEF A, B
  <2>1. QED  BY <1>2, <1>6
<1>8. QED  BY <1>3, <1>4, <1>5, <1>7

\* However many reads and writes fail, whenever the power goes and whatever is
\* declined, every Pokemon is on the card at every instant, as long as drops
\* go to free cells and the Bank screen shows the box that is in the buffer.
\* SWITCH_BOX means to keep the two on one box; where they are on two, cells of
\* the one are drawn and dropped on with the pending deletions of the other.
THEOREM NoneIsLost ==
  ASSUME Swaps = FALSE
  PROVE  Spec /\ []ScreenIsBuffer => []NoMonLost
<1>1. Init => Bystanders /\ NoneLost
  <2>1. SUFFICES ASSUME Init PROVE Bystanders /\ NoneLost
    OBVIOUS
  <2>2. TouchedOnly /\ RamAgrees
    BY <2>1, SlotFacts DEF Init, TouchedOnly, AllTouched, RamAgrees, Alike
  <2>3. Bystanders /\ TypeOK  BY <2>1, <2>2, InitShape DEF Bystanders, Shape
  <2>4. Ahead = box
    <3>1. loaded \notin Boxes /\ box \in [Boxes -> [Slots -> Cells]]
      BY <2>1, SlotFacts DEF Init
    <3>2. QED  BY <3>1 DEF Ahead
  <2>5. \A m \in Mons : InPc(sav, m) \/ InBank(box, m)
    <3>1. \A m \in Mons : Copies(m) = 1
      BY <2>1 DEF Init, Copies, PlacesInSav, PlacesInBank
    <3>2. \A m \in Mons : Copies(m) > 0  BY <3>1
    <3>3. QED  BY <3>2, SomeCopy
  <2>6. pc = sav /\ queue = <<>> /\ at = "pc"  BY <2>1 DEF Init
  <2>7. Safe  BY <2>4, <2>5, <2>6 DEF Safe, Preserved, Remains, InBank, Doomed
  <2>8. Committed /\ Clearing  BY <2>6 DEF Committed, Clearing
  <2>9. QED  BY <2>3, <2>7, <2>8 DEF NoneLost
<1>2. Bystanders /\ NoneLost /\ ScreenIsBuffer /\ [Next]_vars => (Bystanders /\ NoneLost)'
  BY StepKeeps, StepSafe
<1>3. NoneLost => NoMonLost
  BY SomeCopy DEF NoneLost, Safe, Preserved, NoMonLost
<1>4. QED  BY <1>1, <1>2, <1>3, PTL DEF Spec
=============================================================================
