-------------------------------- MODULE Xfer --------------------------------
(***************************************************************************)
(* A Game Boy Pokemon abroad in a Gen-3 save: the Bank that holds the      *)
(* original, the Gen-3 save in memory and on the card, the ledger files    *)
(* that remember the original, and the TRANSFERS screen that tidies up     *)
(* (source/pdna_gen12.c, pdna_main.c, pdna_box.c, xfer_reconcile.c).       *)
(*                                                                         *)
(* One Pokemon, in every shape it can take.  A key stands for the first    *)
(* eight bytes of a Gen-3 record: the conversion gives one, a re-roll the  *)
(* other, and each key has a ledger file of its own.                       *)
(***************************************************************************)
EXTENDS Naturals

CONSTANTS
  Kinds,      \* what else may happen: see below
  Most,       \* bound: copies of one shape in one place
  MaxMoves,   \* bound: moves and edits
  MaxMishaps  \* bound: writes that fail, boxes that cannot be read

Keys == {"born", "rolled"}
Natives == {"orig", "again", "merged"}  \* as lifted, as rebuilt, as brought home
Cells == Natives \cup Keys
States == {"none", "pending", "claimed", "restored"}
NoKey == "-"

\* "undone": the changes are thrown away when a copy is already on the card;
\* "staged": TRANSFERS is opened with a copy taken out of the image only;
\* "blind": a record is deleted while a Bank box cannot be read; "unlinked": a
\* record is used up while the copy lies in the Bank under its other key.
ASSUME XferAssumption ==
  /\ Kinds \subseteq {"undone", "staged", "blind", "unlinked"}
  /\ {Most, MaxMoves, MaxMishaps} \subseteq Nat /\ Most >= 1

VARIABLES
  bank,     \* how many cells of each shape the Bank files hold
  pc,       \* how many Gen-3 copies the save in memory holds, by key
  card,     \* the same of the save on the card
  home,     \* it lives in a Game Boy save
  ledger,   \* the state of its entry in the file of each key
  dirty,    \* the save in memory has staged changes (imgf_exit_prompt)
  pend,     \* the unpromoted transfer of this session (g_xd_key)
  queue,    \* cells whose deletion waits for the save (g_bank_del)
  job,      \* the handler that runs, and what it has left to do
  gone,     \* history: the player let it go, or its last record
  moves, mishaps

files == <<bank, card, home, ledger>>
session == <<pc, dirty, pend, queue, job>>
vars == <<files, session, gone, moves, mishaps>>

Idle == [at |-> "idle"]

\* A move or an edit of the player.
Spend == job = Idle /\ moves < MaxMoves /\ moves' = moves + 1
Goes(well) ==
  IF well THEN UNCHANGED mishaps
          ELSE mishaps < MaxMishaps /\ mishaps' = mishaps + 1

\* A verified write: it lands or not, and is confirmed only when it landed.
Outcomes == [landed : BOOLEAN, ok : BOOLEAN] \ {[landed |-> FALSE, ok |-> TRUE]}

More(f, x) == [f EXCEPT ![x] = @ + 1]
Less(f, x) == [f EXCEPT ![x] = @ - 1]
Some(f, x) == f[x] > 0
Room(f, x) == f[x] < Most
Entry(k, s) == [ledger EXCEPT ![k] = s]
Nowhere == [k \in Keys |-> 0]
Other(k) == CHOOSE q \in Keys : q # k

XferInit ==
  /\ bank = [c \in Cells |-> IF c = "orig" THEN 1 ELSE 0]
  /\ pc = Nowhere /\ card = Nowhere /\ home = FALSE
  /\ ledger = [k \in Keys |-> "none"]
  /\ dirty = FALSE /\ pend = NoKey /\ queue = {} /\ job = Idle
  /\ gone = FALSE /\ moves = 0 /\ mishaps = 0

\* A copy of it abroad is on the card.
Abroad == \E k \in Keys : Some(bank, k) \/ Some(card, k)

-----------------------------------------------------------------------------
\* Moves.

\* The original is dropped on the Gen-3 PC: its entry is written first, then
\* the copy is placed and the deletion of the original waits for the save.
\* With a transfer pending the player has to SAVE NOW before.
Drop ==
  /\ Spend /\ pend = NoKey
  /\ Some(bank, "orig") /\ "orig" \notin queue /\ Room(pc, "born")
  /\ \E w \in Outcomes :
       /\ Goes(w.ok)
       /\ ledger' = IF w.landed THEN Entry("born", "pending") ELSE ledger
       /\ IF w.ok
          THEN /\ pc' = More(pc, "born") /\ dirty' = TRUE
               /\ pend' = "born" /\ queue' = queue \cup {"orig"}
          ELSE UNCHANGED <<pc, dirty, pend, queue>>
  /\ UNCHANGED <<bank, card, home, job, gone>>

\* A Gen-3 copy goes from the PC to the Bank, which is written at once.
Park(k) ==
  /\ Spend /\ Some(pc, k) /\ Room(bank, k)
  /\ bank' = More(bank, k) /\ pc' = Less(pc, k) /\ dirty' = TRUE
  /\ UNCHANGED <<card, home, ledger, pend, queue, job, gone, mishaps>>

\* And back: the Bank cell waits for the save.
Unpark(k) ==
  /\ Spend /\ Some(bank, k) /\ k \notin queue /\ Room(pc, k)
  /\ pc' = More(pc, k) /\ dirty' = TRUE /\ queue' = queue \cup {k}
  /\ UNCHANGED <<files, pend, job, gone, mishaps>>

\* The player releases a copy; the save still has it.
Release(k) ==
  /\ Spend /\ Some(pc, k)
  /\ pc' = Less(pc, k) /\ dirty' = TRUE /\ gone' = TRUE
  /\ UNCHANGED <<files, pend, queue, job, mishaps>>

\* An edit of something else.
Edit ==
  /\ job = Idle /\ ~dirty /\ dirty' = TRUE
  /\ UNCHANGED <<files, pc, pend, queue, job, gone, moves, mishaps>>

\* A verified save of the whole image from another screen: nothing is promoted.
Commit ==
  /\ Spend /\ dirty
  /\ card' = pc /\ dirty' = FALSE
  /\ UNCHANGED <<bank, home, ledger, pc, pend, queue, job, gone, mishaps>>

\* The PID of a copy is re-rolled: the save is committed with the new key, then
\* the ledger file is written under it, and last the old one is unlinked.
Reroll ==
  /\ Spend /\ Some(pc, "born") /\ Room(pc, "rolled")
  /\ ledger["born"] = "none" \/ ledger["rolled"] = "none"
  /\ pc' = Less(More(pc, "rolled"), "born")
  /\ \E w \in Outcomes :
       /\ Goes(w.ok)
       /\ card' = IF w.landed THEN pc' ELSE card
       /\ dirty' = ~w.ok
       /\ job' = IF w.ok /\ ledger["born"] # "none"
                 THEN [at |-> "key", from |-> "born", to |-> "rolled"] ELSE Idle
  /\ UNCHANGED <<bank, home, ledger, pend, queue, gone>>

\* Nothing is left of an earlier Gen-3 session.
Fresh == ~dirty /\ pend = NoKey /\ queue = {}

\* A parked copy is dropped on a Game Boy save: with a claimed entry the
\* original comes home, otherwise the record is converted and its entry left
\* alone; with a pending one the drop is refused.  The cell is consumed after
\* the landing and the entry marked last; either may fail.
Home(k) ==
  /\ Spend /\ Fresh /\ Some(bank, k) /\ ledger[k] # "pending"
  /\ home' = TRUE
  /\ \E consumed, marked \in BOOLEAN :
       /\ Goes(consumed /\ marked)
       /\ bank' = IF consumed THEN Less(bank, k) ELSE bank
       /\ ledger' = IF marked /\ ledger[k] = "claimed" THEN Entry(k, "restored")
                    ELSE ledger
  /\ UNCHANGED <<card, session, gone>>

\* It is lifted from the Game Boy save to the Bank again.
Lift ==
  /\ Spend /\ Fresh /\ home /\ Room(bank, "merged")
  /\ home' = FALSE /\ bank' = More(bank, "merged")
  /\ UNCHANGED <<card, ledger, session, gone, mishaps>>

-----------------------------------------------------------------------------
\* Leaving the save: write, promote, delete - or throw the changes away.

\* A bug: a save that fails takes the pending entry back.
SaveMutant ==
  /\ job = Idle /\ (dirty \/ pend # NoKey \/ queue # {})
  /\ \E w \in IF dirty THEN Outcomes ELSE {[landed |-> TRUE, ok |-> TRUE]} :
       /\ Goes(w.ok)
       /\ card' = IF w.landed THEN pc ELSE card
       /\ dirty' = (dirty /\ ~w.ok)
       /\ pend' = IF w.ok THEN pend ELSE NoKey
       /\ ledger' = IF w.ok \/ pend = NoKey THEN ledger ELSE Entry(pend, "none")
       /\ job' = IF w.ok THEN [at |-> "saved"] ELSE Idle
  /\ UNCHANGED <<bank, home, pc, queue, gone, moves>>

\* app_xfer_save_now and flush_on_exit.  A save that fails, landed or not,
\* drops the pending key and keeps everything else.
Save ==
  /\ job = Idle /\ (dirty \/ pend # NoKey \/ queue # {})
  /\ \E w \in IF dirty THEN Outcomes ELSE {[landed |-> TRUE, ok |-> TRUE]} :
       /\ Goes(w.ok)
       /\ card' = IF w.landed THEN pc ELSE card
       /\ dirty' = (dirty /\ ~w.ok)
       /\ pend' = IF w.ok THEN pend ELSE NoKey
       /\ job' = IF w.ok THEN [at |-> "saved"] ELSE Idle
  /\ UNCHANGED <<bank, home, ledger, pc, queue, gone, moves>>

\* The copy is verified on the card: its entry may claim it.  The key is kept
\* when the file cannot be read or written, dropped when the entry changed.
Promote ==
  /\ job.at = "saved" /\ job' = [at |-> "promoted"]
  /\ CASE pend = NoKey -> UNCHANGED <<ledger, pend, mishaps>>
       [] pend # NoKey /\ ledger[pend] = "none" -> UNCHANGED <<ledger, pend, mishaps>>
       [] pend # NoKey /\ ledger[pend] \in {"claimed", "restored"} ->
            pend' = NoKey /\ UNCHANGED <<ledger, mishaps>>
       [] pend # NoKey /\ ledger[pend] = "pending" ->
            \E w \in Outcomes :
              /\ Goes(w.ok)
              /\ ledger' = IF w.landed THEN Entry(pend, "claimed") ELSE ledger
              /\ pend' = IF w.ok THEN NoKey ELSE pend
  /\ UNCHANGED <<bank, card, home, pc, dirty, queue, gone, moves>>

\* pdna_bank_flush_deletions: what cannot be deleted stays in the queue.
Flush ==
  /\ job.at = "promoted" /\ job' = Idle
  /\ \E kept \in SUBSET queue :
       /\ Goes(kept = {})
       /\ queue' = kept
       /\ bank' = [c \in Cells |->
                    IF c \in queue \ kept /\ bank[c] > 0 THEN bank[c] - 1 ELSE bank[c]]
  /\ UNCHANGED <<card, home, ledger, pc, dirty, pend, gone, moves>>

\* A bug: the Bank's deletions survive the "no".
DeclineMutant ==
  /\ job = Idle /\ dirty
  /\ pend # NoKey /\ Abroad => "undone" \in Kinds
  /\ pc' = card /\ dirty' = FALSE /\ pend' = NoKey
  /\ IF pend # NoKey /\ ledger[pend] = "pending"
     THEN \E w \in Outcomes :
            Goes(w.ok) /\ ledger' = IF w.landed THEN Entry(pend, "none") ELSE ledger
     ELSE UNCHANGED <<ledger, mishaps>>
  /\ UNCHANGED <<bank, card, home, queue, job, gone, moves>>

\* "Save changes?" answered with no: the image of the card is read back, the
\* pending entry is removed, the Bank keeps the originals.
Decline ==
  /\ job = Idle /\ dirty
  /\ pend # NoKey /\ Abroad => "undone" \in Kinds
  /\ pc' = card /\ dirty' = FALSE /\ pend' = NoKey /\ queue' = {}
  /\ IF pend # NoKey /\ ledger[pend] = "pending"
     THEN \E w \in Outcomes :
            Goes(w.ok) /\ ledger' = IF w.landed THEN Entry(pend, "none") ELSE ledger
     ELSE UNCHANGED <<ledger, mishaps>>
  /\ UNCHANGED <<bank, card, home, job, gone, moves>>

\* The power goes, at any moment; or another file is opened.
Crash ==
  /\ <<pc, dirty, pend, queue, job>> # <<card, FALSE, NoKey, {}, Idle>>
  /\ pc' = card /\ dirty' = FALSE /\ pend' = NoKey /\ queue' = {} /\ job' = Idle
  /\ UNCHANGED <<files, gone, moves, mishaps>>

-----------------------------------------------------------------------------
\* The TRANSFERS screen.

\* What the scan finds for the entry under key k (phases 1 and 2), with the
\* cells of hid in boxes that cannot be read.
Found(c, hid) == IF c \in hid THEN 0 ELSE bank[c]
Seen(k, hid) ==
  [key   |-> pc[k],
   ident |-> pc[Other(k)],
   bank  |-> IF ledger[k] = "restored"
             THEN Found("orig", hid) + Found("again", hid) + Found("merged", hid)
             ELSE Found("orig", hid),
   g3    |-> Found(k, hid),
   twin  |-> Found("again", hid),
   waits |-> "orig" \in queue,
   unread |-> hid # {},
   oncard |-> ~dirty,
   state |-> ledger[k]]

Row(kind, acts) == [kind |-> kind, acts |-> acts]

\* A bug: boxes that cannot be read count as empty.
OnlyMutant(v, kind) ==
  IF v.twin >= 1 THEN Row("in_bank", {"delete"}) ELSE Row(kind, {"restore", "delete"})

\* No copy that can be seen: the rows that decide if the record is the last.
Only(v, kind) ==
  CASE v.twin >= 1            -> Row("in_bank", {"delete"})
    [] v.twin = 0 /\ v.unread -> Row("unread", {})
    [] OTHER                  -> Row(kind, {"restore", "delete"})

\* A bug: a copy in an image that is not saved yet is good enough.
MarkMutant(v) == {"promote"}
Mark(v) == IF v.oncard THEN {"promote"} ELSE {}

PendingRow(v) ==
  CASE v.bank = 1 /\ v.key = 1 -> Row("both", Mark(v))
    [] v.bank = 1 /\ v.key = 0 -> Row("orphan", {"delete"})
    [] v.bank = 0 /\ v.key = 1 -> Row("no_bank", Mark(v))
    [] v.bank = 0 /\ v.key = 0 -> Only(v, "lost")

\* A bug: a cell whose deletion waits is offered for removal again.
ClaimedRowMutant(v) ==
  CASE v.bank = 1 /\ v.key = 1   -> Row("dup_bank", {"remove"})
    [] v.bank = 0 /\ v.key = 0   -> Only(v, "lost")
    [] OTHER                     -> Row("abroad", {})

ClaimedRow(v) ==
  CASE v.bank = 1 /\ v.waits                -> Row("deferred", {})
    [] v.bank = 1 /\ ~v.waits /\ v.key = 1   -> Row("dup_bank", {"remove"})
    [] v.bank = 0 /\ v.key = 0               -> Only(v, "lost")
    [] OTHER                                 -> Row("abroad", {})

RestoredRow(v) ==
  CASE v.bank = 1 /\ v.key = 1 -> Row("dup_g3", {"release"})
    [] v.bank = 0 /\ v.key = 1 -> Row("moved", {})
    [] OTHER                   -> Row("stale", {"delete"})

\* xrc_classify: the first row that fits.
Classify(v) ==
  IF v.key >= 2 \/ v.bank >= 2 THEN Row("ambiguous", {})
  ELSE IF v.g3 >= 1 /\ v.key = 0 THEN Row("abroad_bank", {})
  ELSE IF v.key = 0 /\ v.ident >= 2 THEN Row("ambiguous", {})
  ELSE IF v.key = 0 /\ v.ident = 1 THEN Row("stale_key", {"rekey"})
  ELSE CASE v.state = "pending" -> PendingRow(v)
         [] v.state = "claimed" -> ClaimedRow(v)
         [] v.state = "restored" -> RestoredRow(v)

\* Nothing was taken out of the image that the card still has.
NothingStagedAway == \A k \in Keys : card[k] <= pc[k]

\* The player opens the screen and picks an action for some of the rows.
Choose ==
  /\ job = Idle /\ moves < MaxMoves /\ moves' = moves + 1
  /\ NothingStagedAway \/ "staged" \in Kinds
  /\ \E hid \in SUBSET {c \in Cells : Some(bank, c)} :
       LET rows == {k \in Keys : ledger[k] # "none"}
           row == [k \in rows |-> Classify(Seen(k, hid))]
           picks == {f \in [rows -> {"skip", "remove", "release", "restore",
                                     "delete", "promote", "rekey"}] :
                       \A k \in rows : f[k] \in row[k].acts \cup {"skip"}}
       IN /\ Goes(hid = {})
          /\ \E f \in picks :
               LET chosen == {k \in rows : f[k] # "skip"}
               IN /\ chosen # {}
                  /\ hid # {} /\ "blind" \notin Kinds => \A k \in chosen : f[k] # "delete"
                  /\ \A k \in chosen : f[k] \in {"delete", "restore"} /\ Some(bank, Other(k))
                                        => "unlinked" \in Kinds
                  /\ job' = [at |-> "land", act |-> [k \in chosen |-> f[k]]]
                  /\ gone' = (gone \/ \E k \in chosen :
                                f[k] = "delete" /\ row[k].kind = "lost")
  /\ UNCHANGED <<files, pc, dirty, pend, queue>>

\* Apply, first the destinations: remove the original from the Bank, release
\* the copy and save, rebuild the original in the Bank - once, if two records
\* hold it.  out: the entries that are to go.
Land ==
  /\ job.at = "land"
  /\ LET Of(a) == {k \in DOMAIN job.act : job.act[k] = a}
         Fine == [landed |-> TRUE, ok |-> TRUE]
     IN \E removed \in BOOLEAN, w \in Outcomes, back \in SUBSET Of("restore") :
          /\ Of("remove") = {} => removed
          /\ Of("release") = {} => w = Fine
          /\ back # {} => Room(bank, "again")
          /\ Goes(removed /\ w.ok /\ back = Of("restore"))
          /\ bank' = [bank EXCEPT !["orig"]  = IF Of("remove") # {} /\ removed THEN 0 ELSE @,
                                  !["again"] = IF back # {} THEN @ + 1 ELSE @]
          /\ pc' = [k \in Keys |-> IF k \in Of("release") THEN pc[k] - 1 ELSE pc[k]]
          /\ IF Of("release") = {} THEN UNCHANGED <<card, dirty>>
             ELSE card' = (IF w.landed THEN pc' ELSE card) /\ dirty' = ~w.ok
          /\ job' = [at |-> "file", act |-> job.act,
                     out |-> back \cup Of("delete") \cup
                             IF w.ok THEN Of("release") ELSE {}]
  /\ UNCHANGED <<home, ledger, pend, queue, gone, moves>>

\* Then one rewrite of every file touched, and last the re-key.
File ==
  /\ job.at = "file"
  /\ LET Of(a) == {k \in DOMAIN job.act : job.act[k] = a}
         mark == {k \in Of("promote") : ledger[k] = "pending"}
     IN \E written \in SUBSET (job.out \cup mark) :
          /\ Goes(written = job.out \cup mark)
          /\ ledger' = [k \in Keys |-> IF k \in written \cap job.out THEN "none"
                                       ELSE IF k \in written THEN "claimed" ELSE ledger[k]]
          /\ job' = IF \E k \in Of("rekey") : ledger'[Other(k)] = "none"
                    THEN LET k == CHOOSE k \in Of("rekey") : TRUE
                         IN [at |-> "key", from |-> k, to |-> Other(k)]
                    ELSE Idle
  /\ UNCHANGED <<bank, card, home, pc, dirty, pend, queue, gone, moves>>

\* app_xfer_pid_rekey: written and verified under the new key, then unlinked.
Rekey ==
  /\ job.at = "key" /\ job' = Idle
  /\ \E w \in Outcomes, cleared \in BOOLEAN :
       /\ cleared => w.ok
       /\ Goes(cleared)
       /\ ledger' = [k \in Keys |-> IF k = job.to /\ w.landed THEN ledger[job.from]
                                    ELSE IF k = job.from /\ cleared THEN "none" ELSE ledger[k]]
  /\ UNCHANGED <<bank, card, home, pc, dirty, pend, queue, gone, moves>>

\* Between two sessions the game trades the copy away.
Trade(k) ==
  /\ Spend /\ Fresh /\ Some(card, k)
  /\ card' = Less(card, k) /\ pc' = Less(pc, k) /\ gone' = TRUE
  /\ UNCHANGED <<bank, home, ledger, dirty, pend, queue, job, mishaps>>

XferNext ==
  \/ Drop \/ Edit \/ Commit \/ Reroll \/ Lift
  \/ \E k \in Keys : Park(k) \/ Unpark(k) \/ Release(k) \/ Home(k) \/ Trade(k)
  \/ Save \/ Promote \/ Flush \/ Decline \/ Crash
  \/ Choose \/ Land \/ File \/ Rekey

XferSpec == XferInit /\ [][XferNext]_vars

-----------------------------------------------------------------------------
\* What must hold.

\* Types: no place ever holds fewer than none, and no deletion waits for a cell
\* that the Bank has lost already.
XferTypeOK ==
  /\ bank \in [Cells -> 0..Most]
  /\ pc \in [Keys -> 0..Most] /\ card \in [Keys -> 0..Most]
  /\ ledger \in [Keys -> States] /\ queue \subseteq {c \in Cells : Some(bank, c)}
  /\ {home, dirty, gone} \subseteq BOOLEAN /\ pend \in Keys \cup {NoKey}
  /\ job.at \in {"idle", "saved", "promoted", "land", "file", "key"}

CameHome == home \/ Some(bank, "merged")
Native == home \/ \E c \in Natives : Some(bank, c)

\* Whatever fails and whenever the power goes, the Pokemon is on the card: in
\* the Bank, in a save, or as the original of an entry that is still offered.
NothingLost ==
  gone \/ Native \/ Abroad \/ \E k \in Keys : ledger[k] \in {"pending", "claimed"}

\* Until it has come home: when the original and a copy abroad are both on the
\* card, some record says so.  Without one nothing can collect the duplicate.
TwinsRecorded ==
  ~CameHome /\ Native /\ Abroad => \E k \in Keys : ledger[k] # "none"

\* The original is rebuilt from the record only when neither the original, nor
\* one rebuilt before, nor a copy abroad is on the card: RESTORE never clones.
\* (One that came home is excepted: a record whose mark failed does not know.)
RestoresOnlyTheLost ==
  [][bank'["again"] > bank["again"] =>
       ~Abroad /\ ~Some(bank, "orig") /\ ~Some(bank, "again")]_vars

\* An entry claims its original only once a copy is safe on the card (or the
\* player has let it go): before, the original must not be deletable.
ClaimsAreProven ==
  [][\A k \in Keys : ledger[k] = "pending" /\ ledger'[k] = "claimed" =>
       gone \/ Abroad]_vars
=============================================================================
