------------------------------- MODULE Journal -------------------------------
(***************************************************************************)
(* The undo journal on the card: source/journal.c with its seam            *)
(* source/journal_fs.c and the calls of source/jrn_app.c that open, flush, *)
(* prepare and clear it.  A ring of slot files holds the live segments; a  *)
(* segment is a row of records; a batch is written back to front at the    *)
(* tail, so that its first record commits it, and is read back; a chain is *)
(* one step in several records, its head written last.  Reopening finds    *)
(* the longest valid run of records and zeroes what a cut may have left    *)
(* behind it.                                                              *)
(*                                                                         *)
(* A record fills one cell; a cell that holds no whole record, be it       *)
(* zeroed, torn or garbage, is Void: the CRC tells it from a record.       *)
(***************************************************************************)
EXTENDS Naturals, Sequences, FiniteSetsExt, SequencesExt

CONSTANTS
  Ring,       \* slot files of the ring
  MaxSegs,    \* the retention cap, in segments
  SegCap,     \* cells of a segment
  PendMax,    \* records the pending buffer holds
  ChainLen,   \* records of a chained step
  ZWindow,    \* cells zeroed behind the tail
  MaxIdx,     \* the highest segment index
  Kinds,      \* what the card may do: see Mishap
  MaxSteps,   \* bound: steps recorded
  MaxMishaps  \* bound: mishaps

ASSUME JournalAssumption ==
  /\ {Ring, MaxSegs, SegCap, PendMax, ChainLen, ZWindow, MaxIdx, MaxSteps,
      MaxMishaps} \subseteq Nat
  /\ Ring >= 2 /\ MaxIdx >= 1 /\ MaxSegs >= 1 /\ ChainLen >= 2 /\ PendMax >= 1
  /\ PendMax <= SegCap /\ ChainLen <= SegCap
  /\ PendMax <= ZWindow /\ ChainLen <= ZWindow
  /\ Kinds \subseteq {"read", "write", "lose", "recheck", "reread", "cut"}

VARIABLES
  hdr,      \* slot -> Gone (no file), Free, or the live segment's index
  ver,      \* slot -> version of its live segment: 2 may hold chains
  body,     \* slot -> its row of cells
  up,       \* the session records (JA_OK)
  first, last, tail, off, next,  \* the session's idea of the card
  pend,     \* the pending records
  stopped,  \* recording has stopped for good (j->stopped)
  pc,       \* "idle", or a job under way: "write", "verify"
  todo,     \* the job: where each record of the batch goes
  left,     \* how many of them are still to be written
  made,     \* history: steps recorded so far, the last one's identity
  undone,   \* history: steps taken back while they were pending
  acked,    \* history: steps the session was told are on the card
  lossy,    \* history: the card dropped a write of this batch
  mishaps   \* how often the card has misbehaved

card == <<hdr, ver, body>>
ram == <<up, first, last, tail, off, next, pend, stopped>>
job == <<pc, todo, left>>
history == <<made, undone, acked, lossy>>
vars == <<card, ram, job, history, mishaps>>

Slots == 1..Ring
Gone == MaxIdx + 1
Free == 0
Void == [seq |-> 0, step |-> 0, part |-> 0, n |-> 0]

\* A record: its number, the step it is of, which part of it (0 for the
\* head) and, on the head, of how many.
Record(q, s, p, n) == [seq |-> q, step |-> s, part |-> p, n |-> n]
Blank == [i \in 1..SegCap |-> Void]

SlotOf(seg) == ((seg - 1) % Ring) + 1
IsLive(seg) == hdr[SlotOf(seg)] = seg
Cells(seg) == body[SlotOf(seg)]

Mishap(kind) ==
  kind \in Kinds /\ mishaps < MaxMishaps /\ mishaps' = mishaps + 1
Calm == UNCHANGED mishaps

-----------------------------------------------------------------------------
\* What a reopen makes of the card.

LiveSegs == {seg \in 1..MaxIdx : IsLive(seg)}
Oldest == Min(LiveSegs)
Newest ==
  LET live == LiveSegs
      oldest == Min(live)
  IN  Max({seg \in live : oldest..seg \subseteq live})

\* The rows a reopen may read, by segment.
Rows == [seg \in Oldest..Newest |-> Cells(seg)]

\* The first n cells are records in sequence, and no chain among them is
\* without its head or a part.
WholeRun(row, n) ==
  /\ \A i \in 1..n : row[i] # Void
  /\ \A i \in 2..n : row[i].seq = row[i - 1].seq + 1
  /\ \A i \in 1..n :
       IF row[i].part = 0
       THEN \A k \in 1..(row[i].n - 1) : i + k <= n /\ row[i + k].part = k
       ELSE i > row[i].part /\ row[i - row[i].part].n > row[i].part

RunLen(row) ==
  CHOOSE n \in 0..SegCap :
    WholeRun(row, n) /\ \A m \in (n + 1)..SegCap : ~WholeRun(row, m)

\* The number expected at segment seg: that behind the last record before it,
\* and none (any number will do) while there is no record.
ExpectAt(rows, seg) ==
  {rows[s][RunLen(rows[s])].seq + 1 : s \in
     {t \in DOMAIN rows : /\ t < seg /\ RunLen(rows[t]) > 0
                          /\ \A u \in DOMAIN rows : t < u /\ u < seg => RunLen(rows[u]) = 0}}

\* The scan goes on to the next segment as long as that one's first record
\* continues the sequence, whatever slack the segment before it leaves.
ContinuesAt(rows, seg) ==
  /\ rows[seg][1] # Void /\ rows[seg][1].part = 0
  /\ ExpectAt(rows, seg) \subseteq {rows[seg][1].seq}

Visited(rows) ==
  {seg \in DOMAIN rows : \A s \in DOMAIN rows :
     s - 1 \in DOMAIN rows /\ s <= seg => ContinuesAt(rows, s)}

\* What a reopen finds: its tail, the number expected there, the steps.
Scan ==
  LET end == Max(Visited(Rows))
  IN  [tail |-> end, off |-> RunLen(Rows[end]) + 1, expect |-> ExpectAt(Rows, end + 1)]

Entry(r) == [seq |-> r.seq, step |-> r.step]
HeadsIn(row) == {Entry(row[i]) : i \in {k \in 1..RunLen(row) : row[k].part = 0}}
Found(rows) == UNION {HeadsIn(rows[seg]) : seg \in Visited(rows)}

Recovered == UNION {Found(rows) : rows \in IF LiveSegs = {} THEN {} ELSE {Rows}}

-----------------------------------------------------------------------------
JournalTypeOK ==
  /\ hdr \in [Slots -> 0..Gone] /\ ver \in [Slots -> 1..2]
  /\ {up, stopped, lossy} \subseteq BOOLEAN
  /\ {first, last, tail} \subseteq 0..MaxIdx
  /\ off \in 1..(SegCap + 1) /\ next \in Nat
  /\ Len(pend) <= PendMax /\ Len(todo) <= SegCap /\ left \in 0..Len(todo)
  /\ pc \in {"idle", "write", "verify"}
  /\ made \in 0..MaxSteps /\ undone \subseteq 1..made /\ acked \subseteq 1..made
  /\ mishaps \in 0..MaxMishaps
  /\ up /\ last > 0 => first <= tail /\ tail <= last

JournalInit ==
  /\ hdr = [s \in Slots |-> Gone] /\ ver = [s \in Slots |-> 1]
  /\ body = [s \in Slots |-> Blank]
  /\ up = FALSE /\ first = 0 /\ last = 0 /\ tail = 0 /\ off = 1 /\ next = 1
  /\ pend = <<>> /\ stopped = FALSE
  /\ pc = "idle" /\ todo = <<>> /\ left = 0
  /\ made = 0 /\ undone = {} /\ acked = {} /\ lossy = FALSE /\ mishaps = 0

\* Nothing is left of the session but what is on the card.
Down ==
  /\ up' = FALSE /\ first' = 0 /\ last' = 0 /\ tail' = 0 /\ off' = 1
  /\ next' = 1 /\ pend' = <<>> /\ stopped' = FALSE
  /\ pc' = "idle" /\ todo' = <<>> /\ left' = 0

Resting == pc = "idle" /\ UNCHANGED job
Recording == up /\ ~stopped /\ tail # 0

-----------------------------------------------------------------------------
\* jrn_open: at load, and again when a session's edits are discarded.  The
\* pending records of the session before are not in hand any more.

\* repair_tail zeroes a window at the tail and one at the head of every live
\* segment behind it; cut short, it has done the cells up to some point.
InWindow(found, seg, i) ==
  \/ seg = found.tail /\ i \in found.off..(found.off + ZWindow - 1)
  \/ seg \in (found.tail + 1)..Newest /\ i <= ZWindow
RepairedMutant(found, done) ==   \* the segments behind the tail are left as they are
  [s \in Slots |-> [i \in 1..SegCap |->
     IF hdr[s] = found.tail /\ InWindow(found, hdr[s], i)
     THEN Void ELSE body[s][i]]]
Repaired(found, done) ==
  [s \in Slots |-> [i \in 1..SegCap |->
     IF hdr[s] \in LiveSegs /\ InWindow(found, hdr[s], i)
          /\ hdr[s] * SegCap + i <= done
     THEN Void ELSE body[s][i]]]
AllCells == (MaxIdx + 1) * SegCap

Opened ==
  /\ up' = TRUE /\ stopped' = FALSE /\ pend' = <<>>
  /\ IF LiveSegs = {}
     THEN /\ first' = 0 /\ last' = 0 /\ tail' = 0 /\ off' = 1 /\ next' = 1
          /\ UNCHANGED body
     ELSE LET found == Scan
          IN  /\ first' = Oldest /\ last' = Newest
              /\ tail' = found.tail /\ off' = found.off
              /\ next' \in IF found.expect = {} THEN {1} ELSE found.expect
              /\ body' = Repaired(found, AllCells)

Open ==
  /\ Resting /\ Opened /\ Calm
  /\ UNCHANGED <<hdr, ver, history>>

\* A card error while the ring or the records are read turns the journal off.
OpenFails == Resting /\ Mishap("read") /\ Down /\ UNCHANGED <<card, history>>

\* The power goes, or the card fails, while the tail is repaired.
OpenCut ==
  /\ pc = "idle" /\ LiveSegs # {} /\ Mishap("cut")
  /\ LET found == Scan IN \E c \in 1..AllCells : body' = Repaired(found, c)
  /\ Down /\ UNCHANGED <<hdr, ver, history>>

-----------------------------------------------------------------------------
\* Recording: jrn_step_begin .. jrn_step_end, or a marker, with room for it.
RecordStep ==
  /\ Resting /\ Recording /\ Len(pend) < PendMax /\ made < MaxSteps
  /\ pend' = Append(pend, Record(next, made + 1, 0, 1))
  /\ next' = next + 1 /\ made' = made + 1
  /\ UNCHANGED <<card, up, first, last, tail, off, stopped,
                 undone, acked, lossy, mishaps>>

\* jrn_i_pend_pop: the newest record has not been written, so an undo of it,
\* or a newer marker in its place, costs no card access.
TakeBack ==
  /\ Resting /\ Recording /\ pend # <<>>
  /\ pend' = Front(pend) /\ next' = next - 1
  /\ undone' = undone \cup {Last(pend).step}
  /\ UNCHANGED <<card, up, first, last, tail, off, stopped,
                 made, acked, lossy, mishaps>>

-----------------------------------------------------------------------------
\* Getting a batch on the card.

Put(seg, i, rec) == [seg |-> seg, at |-> i, rec |-> rec]

\* flush_plan: in the tail while it has room, then in the segment prepared
\* behind it.
Room == SegCap - off + 1
FlushPlan ==
  [i \in 1..Len(pend) |->
     IF i <= Room THEN Put(tail, off + i - 1, pend[i])
     ELSE Put(tail + 1, i - Room, pend[i])]
Fits == Len(pend) <= Room \/ tail < last

Begin(plan) ==
  /\ todo' = plan /\ left' = Len(plan) /\ pc' = "write" /\ lossy' = FALSE

\* jrn_flush; with no prepared segment to roll into it is refused (E_FULL).
FlushMutant ==   \* a batch rolls over whether or not a segment is prepared
  /\ pc = "idle" /\ Recording /\ pend # <<>>
  /\ Begin(FlushPlan)
  /\ UNCHANGED <<card, ram, made, undone, acked, mishaps>>
Flush ==
  /\ pc = "idle" /\ Recording /\ pend # <<>> /\ Fits
  /\ Begin(FlushPlan)
  /\ UNCHANGED <<card, ram, made, undone, acked, mishaps>>

ChainPlan(seg, at) ==
  [k \in 1..ChainLen |->
     Put(seg, at + k - 1,
         Record(next + k - 1, made + 1, k - 1, IF k = 1 THEN ChainLen ELSE 0))]

\* jrn_chain_record, ch_place: the tail when it may hold chains and has room,
\* else the spare, whose header is first rewritten when it may not; no spare,
\* and the step is refused.
ToTail == ver[SlotOf(tail)] = 2 /\ ChainLen <= Room
MayChain == pc = "idle" /\ Recording /\ pend = <<>> /\ made < MaxSteps
Rehead(h, v) ==
  /\ hdr' = [hdr EXCEPT ![SlotOf(tail + 1)] = h]
  /\ ver' = [ver EXCEPT ![SlotOf(tail + 1)] = v]

Chain ==
  /\ MayChain /\ made' = made + 1
  /\ \/ ToTail /\ Begin(ChainPlan(tail, off)) /\ UNCHANGED <<hdr, ver>>
     \/ /\ ~ToTail /\ tail < last
        /\ Begin(ChainPlan(tail + 1, 1)) /\ Rehead(tail + 1, 2)
  /\ Calm /\ UNCHANGED <<body, ram, undone, acked>>

\* The rewrite of the spare's header failed, before, between or after its two
\* writes: the session does without the spare.
ReheadFails ==
  /\ MayChain /\ ~ToTail /\ tail < last /\ ver[SlotOf(tail + 1)] = 1
  /\ \/ Mishap("write") /\ (Rehead(tail + 1, 1) \/ Rehead(Free, 1))
     \/ Mishap("recheck") /\ (Rehead(Free, 1) \/ Rehead(tail + 1, 2))
  /\ last' = tail /\ Resting
  /\ UNCHANGED <<body, up, first, tail, off, next, pend, stopped, history>>

ReheadCut ==
  /\ MayChain /\ ~ToTail /\ tail < last /\ ver[SlotOf(tail + 1)] = 1
  /\ Mishap("cut") /\ (Rehead(Free, 1) \/ Rehead(tail + 1, 2)) /\ Down
  /\ UNCHANGED <<body, history>>

\* The next record, from the last to the first, and what else may become of
\* its cell: the old content stays, the record is torn, or it is there.
Lands(p, c) ==
  body' = [body EXCEPT ![SlotOf(p.seg)][p.at] = c]
Torn(p) == \E c \in {Cells(p.seg)[p.at], Void, p.rec} : Lands(p, c)

WriteNext ==
  /\ pc = "write" /\ Lands(todo[left], todo[left].rec)
  /\ left' = left - 1 /\ pc' = IF left = 1 THEN "verify" ELSE "write"
  /\ UNCHANGED <<hdr, ver, ram, todo, history, mishaps>>

\* The card takes the write and loses it, or stores garbage.
WriteLost ==
  /\ pc = "write" /\ Mishap("lose") /\ lossy' = TRUE
  /\ \E c \in {Cells(todo[left].seg)[todo[left].at], Void} : Lands(todo[left], c)
  /\ left' = left - 1 /\ pc' = IF left = 1 THEN "verify" ELSE "write"
  /\ UNCHANGED <<hdr, ver, ram, todo, made, undone, acked>>

JobOver == pc' = "idle" /\ todo' = <<>> /\ left' = 0

\* A write that fails part way may have left valid records past the tail:
\* recording stops.
WriteFailsMutant ==   \* recording goes on after a failed write
  /\ pc = "write" /\ Mishap("write") /\ Torn(todo[left])
  /\ JobOver
  /\ UNCHANGED <<hdr, ver, ram, history>>
WriteFails ==
  /\ pc = "write" /\ Mishap("write") /\ Torn(todo[left])
  /\ JobOver /\ stopped' = TRUE
  /\ UNCHANGED <<hdr, ver, up, first, last, tail, off, next, pend, history>>

OnCard == \A i \in 1..Len(todo) : Cells(todo[i].seg)[todo[i].at] = todo[i].rec

\* Every record is read back: the batch is on the card and the session moves
\* on, or recording stops.
VerifiedMutant ==   \* the numbers of a chain's parts are not spent
  /\ pc = "verify" /\ OnCard /\ JobOver
  /\ tail' = Last(todo).seg /\ off' = Last(todo).at + 1
  /\ next' = IF pend = <<>> THEN next + 1 ELSE next
  /\ pend' = <<>>
  /\ acked' = acked \cup {todo[i].rec.step : i \in 1..Len(todo)}
  /\ UNCHANGED <<card, up, first, last, stopped, made, undone, lossy, mishaps>>
Verified ==
  /\ pc = "verify" /\ OnCard /\ JobOver
  /\ tail' = Last(todo).seg /\ off' = Last(todo).at + 1
  /\ next' = Last(todo).rec.seq + 1 /\ pend' = <<>>
  /\ acked' = acked \cup {todo[i].rec.step : i \in 1..Len(todo)}
  /\ UNCHANGED <<card, up, first, last, stopped, made, undone, lossy, mishaps>>

\* The batch is not there as written: recording stops.  A record that cannot
\* be read back only fails the call: the pending records stay pending, and
\* recording goes on.
Unverified ==
  /\ pc = "verify" /\ JobOver
  /\ \/ ~OnCard /\ Calm /\ stopped' = TRUE
     \/ Mishap("reread") /\ UNCHANGED stopped
  /\ UNCHANGED <<card, up, first, last, tail, off, next, pend, history>>

-----------------------------------------------------------------------------
\* jrn_prepare, at a safe moment: the ring, then a spare behind the tail.

\* ring_ensure creates the files that are missing, with whatever the card
\* held there; segment 1 is zeroed and its header written last.
PrepareFirst ==
  /\ Resting /\ up /\ ~stopped /\ tail = 0
  /\ hdr' = [s \in Slots |-> IF s = 1 THEN 1 ELSE Free]
  /\ ver' = [ver EXCEPT ![1] = 1] /\ body' = [body EXCEPT ![1] = Blank]
  /\ first' = 1 /\ last' = 1 /\ tail' = 1 /\ off' = 1
  /\ UNCHANGED <<up, next, pend, stopped, history, mishaps>>

\* Failed or cut short: with no tail segment the journal is off either way.
PrepareFirstFails ==
  /\ pc = "idle" /\ up /\ ~stopped /\ tail = 0
  /\ Mishap("write") \/ Mishap("cut")
  /\ \E m \in 0..Ring : hdr' = [s \in Slots |-> IF s <= m THEN Free ELSE hdr[s]]
  /\ body' \in {body, [body EXCEPT ![1] = Blank]}
  /\ Down /\ UNCHANGED <<ver, history>>

\* How many of the oldest segments compaction retires.
Live == last - first + 1
Cap == Min({MaxSegs, Ring - 1})
ToRetire ==
  IF Live < Ring THEN 0 ELSE Min({Live - Cap, tail - first})
Retired(n) ==
  [s \in Slots |->
     IF \E seg \in first..(first + n - 1) : SlotOf(seg) = s THEN Free ELSE hdr[s]]

SpareDue == pc = "idle" /\ Recording /\ tail = last /\ last < MaxIdx
NextSlot == SlotOf(last + 1)
\* seg_activate wants a whole ring and a slot no live segment owns, else the
\* call changes nothing (a segment is only retired when the slot is its own).
CanActivate == Retired(ToRetire)[NextSlot] = Free

PrepareSpareMutant ==   \* a spare only while the ring has a free slot
  /\ SpareDue /\ CanActivate /\ ToRetire = 0
  /\ hdr' = [hdr EXCEPT ![NextSlot] = last + 1]
  /\ ver' = [ver EXCEPT ![NextSlot] = ver[SlotOf(last)]]
  /\ body' = [body EXCEPT ![NextSlot] = Blank]
  /\ last' = last + 1
  /\ Resting
  /\ UNCHANGED <<first, up, tail, off, next, pend, stopped, history, mishaps>>
PrepareSpare ==
  /\ SpareDue /\ CanActivate
  /\ hdr' = [Retired(ToRetire) EXCEPT ![NextSlot] = last + 1]
  /\ ver' = [ver EXCEPT ![NextSlot] = ver[SlotOf(last)]]
  /\ body' = [body EXCEPT ![NextSlot] = Blank]
  /\ first' = first + ToRetire /\ last' = last + 1
  /\ Resting
  /\ UNCHANGED <<up, tail, off, next, pend, stopped, history, mishaps>>

\* Stopped by the card after n retirements, with the header of one more
\* segment zeroed all the same, or after all of them, with the new segment
\* zeroed or not, or live all the same.
PartlyPrepared(n) ==
  \/ n < ToRetire /\ hdr' \in {Retired(n), Retired(n + 1)} /\ UNCHANGED <<ver, body>>
  \/ /\ n = ToRetire /\ CanActivate
     /\ hdr' = Retired(n) /\ UNCHANGED ver
     /\ body' \in {body, [body EXCEPT ![NextSlot] = Blank]}
  \/ /\ n = ToRetire /\ CanActivate
     /\ hdr' = [Retired(n) EXCEPT ![NextSlot] = last + 1]
     /\ ver' = [ver EXCEPT ![NextSlot] = ver[SlotOf(last)]]
     /\ body' = [body EXCEPT ![NextSlot] = Blank]

PrepareFails ==
  /\ SpareDue /\ Mishap("recheck") /\ Resting
  /\ \E n \in 0..ToRetire : PartlyPrepared(n) /\ first' = first + n
  /\ UNCHANGED <<up, last, tail, off, next, pend, stopped, history>>

PrepareCut ==
  /\ SpareDue /\ Mishap("cut") /\ Down
  /\ \E n \in 0..ToRetire : PartlyPrepared(n)
  /\ UNCHANGED history

-----------------------------------------------------------------------------
\* The power goes: between two steps, or in the middle of a write.
Crash ==
  /\ Mishap("cut") /\ Down
  /\ IF pc = "write" THEN Torn(todo[left]) ELSE up /\ UNCHANGED body
  /\ UNCHANGED <<hdr, ver, history>>

\* jrnapp_clear: the slot files are deleted in order and the journal opened
\* empty; a failure on the way turns it off.
Clear ==
  /\ Resting /\ up
  /\ hdr' = [s \in Slots |-> Gone]
  /\ first' = 0 /\ last' = 0 /\ tail' = 0 /\ off' = 1 /\ next' = 1
  /\ pend' = <<>> /\ stopped' = FALSE
  /\ UNCHANGED <<ver, body, up, history, mishaps>>

ClearCut ==
  /\ pc = "idle" /\ up /\ Mishap("cut")
  /\ \E m \in 1..(Ring - 1) : hdr' = [s \in Slots |-> IF s <= m THEN Gone ELSE hdr[s]]
  /\ Down /\ UNCHANGED <<ver, body, history>>

JournalNext ==
  \/ Open \/ OpenFails \/ OpenCut
  \/ RecordStep \/ TakeBack
  \/ Flush \/ Chain \/ ReheadFails \/ ReheadCut
  \/ WriteNext \/ WriteLost \/ WriteFails \/ Verified \/ Unverified
  \/ PrepareFirst \/ PrepareFirstFails
  \/ PrepareSpare \/ PrepareFails \/ PrepareCut
  \/ Crash \/ Clear \/ ClearCut

JournalSpec == JournalInit /\ [][JournalNext]_vars

\* The session flushes and prepares at every rest of a screen, and a job once
\* begun runs on.
FairJournalSpec ==
  /\ JournalSpec
  /\ WF_vars(WriteNext) /\ WF_vars(Verified \/ Unverified)
  /\ WF_vars(Flush) /\ WF_vars(PrepareSpare)

-----------------------------------------------------------------------------
\* The journal keeps the promise of a durable log of steps.
InHand ==
  LET recs == IF pc = "idle" THEN {pend[i] : i \in DOMAIN pend}
              ELSE {todo[i].rec : i \in DOMAIN todo}
  IN  {Entry(r) : r \in {h \in recs : h.part = 0}}

Log == INSTANCE DurableLog
         WITH log <- Recovered, batch <- InHand, Steps <- 1..MaxSteps

\* Every step of the journal is the step of a durable log that is its own.  Only a
\* clear by the user gives up what it likes; only retention gives up the oldest
\* steps, and none in the segment the session writes in; whatever else happens, a
\* power cut, a reopen with its repair or a failed write, gives up nothing that a
\* reopen finds.
Retains == PrepareSpare \/ PrepareFails \/ PrepareCut
InTail == {Entry(Cells(tail)[i]) : i \in {k \in 1..(off - 1) : Cells(tail)[k].part = 0}}
KeepsToItsPart ==
  /\ Clear => Log!Clear
  /\ ClearCut => Log!ClearPart
  /\ Retains => Log!Forget /\ InTail \subseteq Recovered'
  /\ ~(Clear \/ ClearCut \/ Retains) => Log!Keep
\* The journal is a durable log, and each of its steps keeps to its part of it.
KeepsItsPromise == Log!Spec /\ [][KeepsToItsPart]_vars

\* A step taken back while it was pending does not come back with a reopen.
UndoneStaysUndone == undone \cap {e.step : e \in Recovered} = {}

\* Between two calls, the session is about to write where a reopen would look
\* for the next record, at the tail it would find or at the head of the empty
\* segment behind it, and with the number it would expect.
SessionSeesCard ==
  up /\ ~stopped /\ pc = "idle" /\ tail # 0 =>
    LET found == Scan
    IN  /\ <<tail, off>> \in {<<found.tail, found.off>>, <<found.tail + 1, 1>>}
        /\ found.expect \subseteq {next - Len(pend)}

\* What is pending gets on the card, or the session knows that it records no
\* more: it has stopped or is off, the ring is not whole, or its index space
\* is spent.
NoSpareToBeHad == last = MaxIdx \/ ~CanActivate
RecordsGetThrough ==
  pend # <<>> ~> pend = <<>> \/ stopped \/ ~up \/ NoSpareToBeHad
=============================================================================
