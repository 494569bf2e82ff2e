------------------------------- MODULE History -------------------------------
(***************************************************************************)
(* The undo history of a Gen-3 session: what source/jrn_app.c,             *)
(* source/journal_undo.c and the funnel of source/img_stage.c make of the  *)
(* journal, together with the image in memory, the Pokemon in the hand and *)
(* the .sav on the card that source/pdna_main.c loads, saves and discards. *)
(* Journal says how a batch gets on the card; here a flush puts all of it  *)
(* there, or none, or stops recording with either.                         *)
(*                                                                         *)
(* An image is who lives in which slot; a step is what one drop changed.   *)
(***************************************************************************)
EXTENDS Naturals, Sequences, FiniteSets, SequencesExt

CONSTANTS
  Slots,      \* slots of the image
  Mons,       \* the Pokemon
  None,       \* an empty slot, an empty hand
  Kinds,      \* what may go wrong: a flush, a step, an open, a save
  PendMax,    \* records the pending buffer holds
  MaxSeq,     \* bound: numbers given to records
  MaxMishaps  \* bound: mishaps

ASSUME HistoryAssumption ==
  /\ None \notin Mons /\ Cardinality(Mons) <= Cardinality(Slots)
  /\ {PendMax, MaxSeq, MaxMishaps} \subseteq Nat /\ PendMax >= 1
  /\ Kinds \subseteq {"flush", "lost", "open", "save"}

VARIABLES
  disk,     \* the records on the card, oldest first
  j,        \* the engine (struct Jrn): pend, cursor, tip, offer, next, seen
  on,       \* the journal is open for this session
  stopped,  \* recording has stopped
  cross,    \* the next recorded step is crossed (epoch # epoch_seen)
  image,    \* g_save
  hand,     \* the Pokemon carried
  sav,      \* the .sav on the card
  at,       \* "browser", "offer" (the load-time dialog) or "play"
  away,     \* history: Pokemon a crossed step took to another file
  safe,     \* history: the image when the last batch got on the card
  declined, \* history: steps thrown away by a decline that got on the card
  missed,   \* history: some step, or some flush, was missed
  halved,   \* history: Pokemon that a press took out of the image, saying so, and that are not back
  mishaps   \* how often something went wrong

engine == <<disk, j, on, stopped, cross>>
history == <<away, safe, declined, missed, halved>>
vars == <<engine, image, hand, sav, at, history, mishaps>>

Images == [Slots -> Mons \cup {None}]
Living(img) == {img[s] : s \in Slots} \ {None}

-----------------------------------------------------------------------------
\* Records: steps, and the markers that say where the cursor went.

Step(q, parent, pre, post, name, crossed) ==
  [kind |-> "step", seq |-> q, parent |-> parent, pre |-> pre, post |-> post,
   name |-> name, crossed |-> crossed]
Marker(kind, q, parent, aux) ==
  [kind |-> kind, seq |-> q, parent |-> parent, aux |-> aux]

Known(recs) == {recs[i] : i \in {k \in DOMAIN recs : recs[k].kind = "step"}}
Has(recs, q) == \E r \in Known(recs) : r.seq = q
Find(recs, q) == CHOOSE r \in Known(recs) : r.seq = q

\* The steps from `from` (not with it) up to `to`, oldest first; none when
\* `from` is not on the way down from `to`.
Line(recs, from, to) ==
  LET down[q \in Nat] ==
        IF q = from \/ ~Has(recs, q) THEN <<>>
        ELSE Append(down[Find(recs, q).parent], Find(recs, q))
      line == down[to]
  IN  IF line # <<>> /\ Head(line).parent = from THEN line ELSE <<>>

\* span_walk compares every byte a step changed before any byte is patched.
Changed(r) == {s \in Slots : r.pre[s] # r.post[s]}
Matches(img, r, side) == \A s \in Changed(r) : img[s] = r[side][s]
Patched(img, r, side) == [s \in Slots |-> IF s \in Changed(r) THEN r[side][s] ELSE img[s]]

-----------------------------------------------------------------------------
\* anchor_cursor: where an image is in the tree of steps.

\* The cursor and the tip as the last record left them.
LastCursor(recs) ==
  IF recs = <<>> THEN 0
  ELSE IF Last(recs).kind = "step" THEN Last(recs).seq ELSE Last(recs).parent
LastTipMutant(recs) ==   \* a discarded tip is still the tip
  CASE recs = <<>> -> 0
    [] recs # <<>> /\ Last(recs).kind = "step" -> Last(recs).seq
    [] recs # <<>> /\ Last(recs).kind # "step" -> Last(recs).aux
LastTip(recs) ==
  CASE recs = <<>> -> 0
    [] recs # <<>> /\ Last(recs).kind = "step" -> Last(recs).seq
    [] recs # <<>> /\ Last(recs).kind = "cursor" -> Last(recs).aux
    [] recs # <<>> /\ Last(recs).kind = "discard" -> Last(recs).parent

\* Walking up from the last cursor: the first step that leads to the image,
\* or starts from it.
WalkMutant(recs, img) ==   \* at a step's start, it takes the step and not its parent
  LET up[q \in Nat] ==
        IF ~Has(recs, q) THEN {}
        ELSE LET r == Find(recs, q)
             IN  IF r.post = img \/ r.pre = img THEN {q} ELSE up[r.parent]
  IN  up[LastCursor(recs)]
Walk(recs, img) ==
  LET up[q \in Nat] ==
        IF ~Has(recs, q) THEN {}
        ELSE LET r == Find(recs, q)
             IN  IF r.post = img THEN {q}
                 ELSE IF r.pre = img THEN {r.parent} ELSE up[r.parent]
      before == LastCursor(recs) = 0 /\
                \E r \in Known(recs) : r.parent = 0 /\ r.pre = img
  IN  up[LastCursor(recs)] \cup (IF before THEN {0} ELSE {})

Leading(recs, img) == {r.seq : r \in {s \in Known(recs) : s.post = img}}
Newest(S) == CHOOSE q \in S : \A p \in S : p <= q

Anchor(recs, img) ==
  IF recs = <<>> THEN [kind |-> "EMPTY", cursor |-> 0, tip |-> 0, offer |-> FALSE]
  ELSE IF Walk(recs, img) # {}
  THEN LET c == Newest(Walk(recs, img))
       IN  [kind |-> "MATCH", cursor |-> c,
            tip |-> IF c = LastCursor(recs) THEN LastTip(recs) ELSE LastCursor(recs),
            offer |-> c # LastCursor(recs)]
  ELSE IF Leading(recs, img) # {}
  THEN LET c == Newest(Leading(recs, img))
       IN  [kind |-> "BRANCH", cursor |-> c, tip |-> c, offer |-> FALSE]
  ELSE [kind |-> "NEWROOT", cursor |-> 0, tip |-> 0, offer |-> FALSE]

LastSeq(recs) == IF recs = <<>> THEN 0 ELSE Last(recs).seq
Opened(recs, img) ==
  LET a == Anchor(recs, img)
  IN  [pend |-> <<>>, cursor |-> a.cursor, tip |-> a.tip, offer |-> a.offer,
       next |-> LastSeq(recs) + 1, seen |-> img]

-----------------------------------------------------------------------------
\* The engine's calls, as what they make of the engine e and of the image.

Recs(d, e) == d \o e.pend

EndsInCursor(e) == e.pend # <<>> /\ Last(e.pend).kind = "cursor"
MarkerRoom(e) == EndsInCursor(e) \/ Len(e.pend) < PendMax

\* jrn_i_marker: the newest cursor marker replaces one that is still pending.
Mark(e, kind, parent, aux) ==
  IF kind = "cursor" /\ EndsInCursor(e)
  THEN [e EXCEPT !.pend = Append(Front(@), Marker(kind, e.next - 1, parent, aux))]
  ELSE [e EXCEPT !.pend = Append(@, Marker(kind, e.next, parent, aux)), !.next = @ + 1]

\* jrn_step_begin .. jrn_step_end.
Recorded(e, img, name, crossed) ==
  [e EXCEPT !.pend = Append(@, Step(e.next, e.cursor, e.seen, img, name, crossed)),
            !.cursor = e.next, !.tip = e.next, !.offer = FALSE,
            !.next = @ + 1, !.seen = img]

CanUndoMutant(d, e, img) ==   \* a crossed step is no floor
  /\ Has(Recs(d, e), e.cursor)
  /\ LET r == Find(Recs(d, e), e.cursor)
     IN  /\ Matches(img, r, "post")
         /\ r.parent = 0 \/ Has(Recs(d, e), r.parent)
         /\ IF Has(e.pend, r.seq) THEN Last(e.pend) = r ELSE MarkerRoom(e)
\* jrn_undo: a step that is still pending is taken off the buffer; one on the
\* card is undone by a marker.  A crossed step is a floor.
CanUndo(d, e, img) ==
  /\ Has(Recs(d, e), e.cursor)
  /\ LET r == Find(Recs(d, e), e.cursor)
     IN  /\ ~r.crossed /\ Matches(img, r, "post")
         /\ r.parent = 0 \/ Has(Recs(d, e), r.parent)
         /\ IF Has(e.pend, r.seq) THEN Last(e.pend) = r ELSE MarkerRoom(e)
UndoneMutant(d, e) ==   \* the tip stays at a step that was taken off the buffer
  LET r == Find(Recs(d, e), e.cursor)
      back == [e EXCEPT !.cursor = r.parent, !.offer = FALSE,
                        !.seen = Patched(@, r, "pre")]
  IN  IF Has(e.pend, r.seq)
      THEN [back EXCEPT !.pend = Front(@), !.next = @ - 1]
      ELSE Mark(back, "cursor", r.parent, e.tip)
Undone(d, e) ==
  LET r == Find(Recs(d, e), e.cursor)
      back == [e EXCEPT !.cursor = r.parent, !.offer = FALSE,
                        !.seen = Patched(@, r, "pre")]
  IN  IF Has(e.pend, r.seq)
      THEN [back EXCEPT !.pend = Front(@), !.next = @ - 1, !.tip = r.parent]
      ELSE Mark(back, "cursor", r.parent, e.tip)

\* jrn_redo: one step toward the tip, never a crossed one.
Ahead(d, e) == Line(Recs(d, e), e.cursor, e.tip)
CanRedo(d, e, img) ==
  /\ Ahead(d, e) # <<>> /\ MarkerRoom(e)
  /\ LET r == Head(Ahead(d, e)) IN ~r.crossed /\ Matches(img, r, "pre")
Redone(d, e) ==
  LET r == Head(Ahead(d, e))
  IN  Mark([e EXCEPT !.cursor = r.seq, !.offer = @ /\ r.seq # e.tip,
                     !.seen = Patched(@, r, "post")],
           "cursor", r.seq, e.tip)

-----------------------------------------------------------------------------
\* A handler turns one world into another; it may flush several times on the
\* way, and each flush may go wrong.

Now == [d |-> disk, j |-> j, on |-> on, dead |-> stopped, cross |-> cross, img |-> image,
        safe |-> safe, missed |-> missed, half |-> halved, bad |-> FALSE, full |-> FALSE,
        n |-> 0]
Becomes(w) ==
  /\ disk' = w.d /\ j' = w.j /\ on' = w.on /\ stopped' = w.dead /\ cross' = w.cross
  /\ image' = w.img /\ safe' = w.safe /\ missed' = w.missed
  /\ halved' = w.half \ (Living(w.img) \cap Living(sav))
  /\ mishaps' = mishaps + (IF w.bad THEN 1 ELSE 0)

CanFail(w, kind) == kind \in Kinds /\ mishaps < MaxMishaps /\ ~w.bad

\* jrnapp_flush: the batch is on the card; or the journal is full and keeps it
\* pending; or recording stops, with the batch on the card or without it.
Flushed(w) ==
  LET landed == [w EXCEPT !.d = Recs(@, w.j), !.safe = w.img]
  IN  IF ~w.on \/ w.dead \/ w.full \/ w.j.pend = <<>> THEN {w}
      ELSE {[landed EXCEPT !.j.pend = <<>>]} \cup
           (IF CanFail(w, "flush")
            THEN {[w EXCEPT !.full = TRUE, !.bad = TRUE],
                  [w EXCEPT !.dead = TRUE, !.bad = TRUE],
                  [landed EXCEPT !.dead = TRUE, !.bad = TRUE]}
            ELSE {})

\* jrn_mark_discarded, flushed first when there is no room for the marker.
Discarded(w) ==
  [w EXCEPT !.j = [Mark(@, "discard", @.cursor, @.tip)
                   EXCEPT !.tip = w.j.cursor, !.offer = FALSE]]
Declined(w) ==
  UNION {IF v.dead \/ Len(v.j.pend) >= PendMax THEN {v} ELSE Flushed(Discarded(v)) :
         v \in IF Len(w.j.pend) >= PendMax THEN Flushed(w) ELSE {w}}

\* jrnapp_step: an undo flushes what is pending first; a redo only when the
\* buffer has no room for its marker.
OneUndo(w) ==
  {IF v.dead \/ ~CanUndo(v.d, v.j, v.img) THEN v
   ELSE [v EXCEPT !.j = Undone(v.d, @), !.n = @ + 1,
                  !.img = Patched(@, Find(Recs(v.d, v.j), v.j.cursor), "pre")] :
   v \in Flushed(w)}
OneRedo(w) ==
  {IF v.dead \/ ~CanRedo(v.d, v.j, v.img) THEN v
   ELSE [v EXCEPT !.j = Redone(v.d, @), !.n = @ + 1,
                  !.img = Patched(@, Head(Ahead(v.d, v.j)), "post")] :
   v \in IF w.dead \/ Ahead(w.d, w.j) = <<>> \/ MarkerRoom(w.j) THEN {w} ELSE Flushed(w)}
OneStep(w, dir) == IF dir = "undo" THEN OneUndo(w) ELSE OneRedo(w)

\* n steps back or forth, as far as each of them is allowed.
Trip(w, n, dir) ==
  LET go[k \in 0 .. n] ==
        IF k = 0 THEN {[w EXCEPT !.n = 0]}
        ELSE UNION {IF v.n < k - 1 THEN {v} ELSE OneStep(v, dir) : v \in go[k - 1]}
  IN  go[n]

\* The user is told of half a swap: who is out of the image for it.
Told(w, v) == [v EXCEPT !.half = @ \cup (Living(w.img) \ Living(v.img))]

\* All of the group, or none of it.  When going back fails too the image is
\* half a swap ("half a swap"); and so it is when the press was to leave it
\* there ("Swap (half)").
Pressed(w, n, dir, half) ==
  UNION {IF v.n = n THEN {IF half THEN Told(w, v) ELSE v}
         ELSE {IF b.n # v.n THEN Told(w, b) ELSE b :
               b \in Trip(v, v.n, IF dir = "undo" THEN "redo" ELSE "undo")} :
         v \in Trip(w, n, dir)}

-----------------------------------------------------------------------------
\* A swap is a step named "Swap", its displaced Pokemon then in the hand, and
\* the step that puts that one down.

Gone(r) == Living(r.pre) \ Living(r.post)
Come(r) == Living(r.post) \ Living(r.pre)
Pairs(older, newer) ==   \* ja_group_at's link: names, seqs and bytes
  /\ older.name = "Swap" /\ ~older.crossed /\ ~newer.crossed
  /\ newer.parent = older.seq /\ newer.seq = older.seq + 1
  /\ Gone(older) = Come(newer)
Placing(r) == r.name = "Box move" /\ Come(r) # {}

\* How many steps one press of the chord takes.
UndoGroup(recs, cursor) ==
  LET chain == Line(recs, 0, cursor)
      n == Len(chain)
  IN  IF ~(n >= 2 /\ Placing(chain[n]) /\ Pairs(chain[n - 1], chain[n])) THEN 1
      ELSE IF n >= 3 /\ Pairs(chain[n - 2], chain[n - 1]) THEN 3 ELSE 2
RedoGroup(line) ==
  IF Len(line) >= 3 /\ Placing(line[3]) /\ Pairs(line[2], line[3]) /\ Pairs(line[1], line[2])
  THEN 3
  ELSE IF Len(line) >= 2 /\ Placing(line[2]) /\ Pairs(line[1], line[2]) THEN 2
  ELSE 1

\* ja_land_swap, and the name of a single step: a press ends on half a swap when
\* it undoes a swap down to another one, or redoes the older half alone; a chain
\* of more than three steps is taken in groups.
UndoHalves(recs, cursor) ==
  LET chain == Line(recs, 0, cursor)
      n == UndoGroup(recs, cursor)
  IN  /\ Len(chain) > n /\ chain[Len(chain) - n].name = "Swap"
      /\ n > 1 \/ Last(chain).name = "Swap"
RedoHalves(line) == RedoGroup(line) = 1 /\ line[1].name = "Swap"

\* jrn_redo_info: the steps ahead that no crossed step stands before; and
\* ja_cut_tail: the swaps at their end, whose partner is not there.
Avail(line) ==
  LET crossed == {i \in DOMAIN line : line[i].crossed}
  IN  IF crossed = {} THEN line
      ELSE SubSeq(line, 1, (CHOOSE i \in crossed : \A k \in crossed : i <= k) - 1)
KeptMutant(line) == Len(Avail(line))   \* a lone half of a swap is not held back
Kept(line) ==
  LET plain == {i \in DOMAIN Avail(line) : Avail(line)[i].name # "Swap"}
  IN  IF plain = {} THEN 0 ELSE Newest(plain)

\* The bounds: what a press left half done may be gone on with a little longer.
Slack == IF halved = {} THEN 0 ELSE 3

-----------------------------------------------------------------------------
\* The load (view_save, app_journal_load).

HistoryInit ==
  /\ disk = <<>> /\ on = FALSE /\ stopped = FALSE /\ cross = FALSE
  /\ sav \in {img \in Images : \A m \in Mons : Cardinality({s \in Slots : img[s] = m}) = 1}
  /\ image = sav /\ j = Opened(<<>>, sav)
  /\ hand = None /\ at = "browser"
  /\ away = {} /\ safe = sav /\ declined = {} /\ missed = FALSE /\ halved = {}
  /\ mishaps = 0

Offered(d, e) == (e.offer \/ e.tip # e.cursor) /\ Ahead(d, e) # <<>>
Total(line) == Len(line) - (Len(Avail(line)) - Kept(line))

\* The steps the offer speaks of are those it does not hold back.
Load ==
  /\ at = "browser" /\ LastSeq(disk) <= MaxSeq + 1 + Slack
  /\ LET e == Opened(disk, sav)
         line == Ahead(disk, e)
         w == [Now EXCEPT !.j = e, !.on = TRUE, !.dead = FALSE, !.cross = FALSE, !.img = sav]
     IN  /\ \/ /\ Offered(disk, e) /\ Total(line) > 0
               /\ at' = "offer" /\ Becomes(w)
            \/ /\ Offered(disk, e) /\ Total(line) = 0   \* app_journal_cutoff_note
               /\ at' = "play" /\ \E v \in Declined(w) : Becomes(v)
            \/ /\ ~Offered(disk, e) /\ at' = "play" /\ Becomes(w)
            \/ /\ CanFail(w, "open") /\ at' = "play"
               /\ Becomes([w EXCEPT !.j = Opened(<<>>, sav), !.on = FALSE, !.bad = TRUE])
         /\ declined' = (declined \cup (IF disk' # disk THEN ToSet(line) ELSE {}))
                        \ ToSet(Line(disk, 0, e.cursor))
  /\ UNCHANGED <<hand, sav, away>>

\* app_journal_offer, answered A: jrnapp_reapply.
Accept ==
  /\ at = "offer" /\ Avail(Ahead(disk, j)) # <<>> /\ Kept(Ahead(disk, j)) > 0
  /\ LET line == Ahead(disk, j)
     IN  \E v \in Trip(Now, Kept(line), "redo") :
           \E x \in IF Kept(line) < Len(Avail(line)) /\ v.n = Kept(line)
                    THEN Declined(v) ELSE {v} :
             /\ Becomes(x)
             /\ declined' = IF x.d # v.d THEN declined \cup ToSet(Ahead(v.d, v.j))
                            ELSE declined
  /\ at' = "play"
  /\ UNCHANGED <<hand, sav, away>>

\* Answered B, or A when every step offered is behind a crossed one.
Decline ==
  /\ at = "offer" /\ at' = "play"
  /\ \E v \in Declined(Now) :
       /\ Becomes(v)
       /\ declined' = IF v.d # disk THEN declined \cup ToSet(Ahead(disk, j)) ELSE declined
  /\ UNCHANGED <<hand, sav, away>>

\* ... which B leaves alone.
LeaveOffered ==
  /\ at = "offer" /\ Kept(Ahead(disk, j)) = 0 /\ at' = "play"
  /\ UNCHANGED <<engine, image, hand, sav, history, mishaps>>

-----------------------------------------------------------------------------
\* Drops, each of them one staged step.

\* rec_step: a write that went past the journal makes the step a crossed one;
\* a full buffer is flushed; what cannot be recorded is a gap, and crosses the
\* next step.
Recording(w, img, name, crossed) ==
  LET moved == w.j.seen # w.img
      e == [w.j EXCEPT !.seen = w.img]
  IN  IF Len(e.pend) < PendMax
      THEN {[w EXCEPT !.j = Recorded(e, img, name, crossed \/ w.cross \/ moved),
                      !.cross = FALSE, !.img = img]}
      ELSE {[w EXCEPT !.cross = TRUE, !.img = img, !.missed = TRUE]}
Staged(w, img, name, crossed) ==
  LET lost == [w EXCEPT !.cross = TRUE, !.img = img, !.missed = TRUE]
  IN  UNION {IF ~v.on \/ v.dead THEN {[v EXCEPT !.img = img, !.missed = TRUE]}
             ELSE Recording(v, img, name, crossed) :
             v \in IF Len(w.j.pend) < PendMax THEN {w} ELSE Flushed(w)}
      \cup (IF w.on /\ ~w.dead /\ CanFail(w, "lost") THEN {[lost EXCEPT !.bad = TRUE]} ELSE {})

Busy == at = "play" /\ j.next <= MaxSeq
Idle == at = "play" /\ hand = None /\ j.next <= MaxSeq + 2 + Slack
Put(img, s, m) == [img EXCEPT ![s] = m]
Empty(s) == image[s] = None

\* drop_held into an empty slot.
Move ==
  /\ Busy /\ hand = None
  /\ \E s, t \in Slots :
       /\ ~Empty(s) /\ Empty(t)
       /\ \E v \in Staged(Now, Put(Put(image, t, image[s]), s, None), "Box move", FALSE) : Becomes(v)
  /\ UNCHANGED <<hand, sav, at, away, declined>>

\* drop_held's SWAP tail: the one it displaces is in the hand, and nowhere else.
Swap ==
  /\ Busy
  /\ \E t \in Slots :
       /\ ~Empty(t) /\ hand' = image[t]
       /\ \/ \E s \in Slots \ {t} :
               /\ hand = None /\ ~Empty(s)
               /\ \E v \in Staged(Now, Put(Put(image, t, image[s]), s, None), "Swap", FALSE) :
                    Becomes(v)
          \/ /\ hand # None
             /\ \E v \in Staged(Now, Put(image, t, hand), "Swap", FALSE) : Becomes(v)
  /\ UNCHANGED <<sav, at, away, declined>>

\* The drop that completes it, then jrnapp_pair_flush.
PairDone(w) ==
  LET chain == Line(Recs(w.d, w.j), 0, w.j.tip)
  IN  Len(chain) >= 2 /\ Last(chain).name = "Box move" /\ chain[Len(chain) - 1].name = "Swap"
Place ==
  /\ at = "play" /\ j.next <= MaxSeq + 1   \* a carry may end past the bound
  /\ hand # None /\ hand' = None
  /\ \E t \in Slots :
       /\ Empty(t)
       /\ \E v \in Staged(Now, Put(image, t, hand), "Box move", FALSE) :
            \E x \in IF v.on /\ PairDone(v) THEN Flushed(v) ELSE {v} : Becomes(x)
  /\ UNCHANGED <<sav, at, away, declined>>

\* A drop into another file (app_journal_cross).
Cross ==
  /\ Busy /\ hand = None
  /\ \E s \in Slots :
       /\ ~Empty(s) /\ away' = away \cup {image[s]}
       /\ \E v \in Staged(Now, Put(image, s, None), "To Bank", TRUE) : Becomes(v)
  /\ UNCHANGED <<hand, sav, at, declined>>

-----------------------------------------------------------------------------
\* The chords (jrnapp_step_pair), and the rest of the session.

Chord(v) ==
  /\ Becomes(v)
  /\ UNCHANGED <<hand, sav, at, away, declined>>

Undo ==
  /\ Idle /\ on /\ ~stopped
  /\ \E w \in Flushed(Now) :
       \E v \in IF w.dead \/ ~Has(Recs(w.d, w.j), w.j.cursor) THEN {w}
                ELSE Pressed(w, UndoGroup(Recs(w.d, w.j), w.j.cursor), "undo",
                             UndoHalves(Recs(w.d, w.j), w.j.cursor)) : Chord(v)

Redo ==
  /\ Idle /\ on /\ ~stopped
  /\ Ahead(disk, j) # <<>>
  /\ \/ RedoGroup(Ahead(disk, j)) >= 2
     \/ Kept(Ahead(disk, j)) > 0 \/ Avail(Ahead(disk, j)) = <<>>   \* ja_redo_in_cut
  /\ \E v \in Pressed(Now, RedoGroup(Ahead(disk, j)), "redo",
                     RedoHalves(Ahead(disk, j))) : Chord(v)

\* app_journal_rest
Rest ==
  /\ at = "play" /\ j.pend # <<>>
  /\ \E v \in Flushed(Now) : Chord(v)

SaveMutant ==   \* the journal is flushed at the next rest point
  /\ at = "play" /\ hand = None
  /\ sav' = image /\ Becomes(Now)
  /\ UNCHANGED <<hand, at, away, declined>>
\* app_save_finalize: the journal first.  A write that fails leaves the old file,
\* or the new one unconfirmed.
Save ==
  /\ at = "play" /\ hand = None
  /\ \E w \in Flushed(Now) :
       \/ /\ sav' = image
          /\ Becomes([w EXCEPT !.missed = @ \/ (w.on /\ w.j.pend # <<>>)])
       \/ /\ CanFail(w, "save") /\ sav' \in {sav, image}
          /\ Becomes([w EXCEPT !.bad = TRUE])
  /\ UNCHANGED <<hand, at, away, declined>>
\* app_discard_staged: the card's image is back; jrnapp_after_discard.
Discard ==
  /\ Idle /\ at' = "browser"
  /\ \E w \in Flushed(Now) :
       LET back == [w EXCEPT !.img = sav]
           again == [back EXCEPT !.j = Opened(w.d, sav)]
       IN  IF ~w.on \/ w.dead THEN Becomes(back) /\ UNCHANGED declined
           ELSE \E v \in Declined(again) :
                  /\ Becomes(v)
                  /\ declined' = IF v.d # w.d THEN declined \cup ToSet(Ahead(w.d, again.j))
                                 ELSE declined
  /\ UNCHANGED <<hand, sav, away>>

\* The power goes, or the console is switched off: RAM is gone.
Crash ==
  /\ at # "browser" /\ at' = "browser"
  /\ Becomes([Now EXCEPT !.j = Opened(<<>>, sav), !.on = FALSE, !.dead = FALSE,
                         !.cross = FALSE, !.img = sav])
  /\ hand' = None
  /\ UNCHANGED <<sav, away, declined>>

HistoryNext ==
  \/ Load \/ Accept \/ Decline \/ LeaveOffered
  \/ Move \/ Swap \/ Place \/ Cross
  \/ Undo \/ Redo \/ Rest \/ Save \/ Discard \/ Crash

HistorySpec == HistoryInit /\ [][HistoryNext]_vars

-----------------------------------------------------------------------------
\* Properties.

\* Types; a live journal's tip is the cursor or below it.
HistoryTypeOK ==
  /\ {image, sav, safe, j.seen} \subseteq Images
  /\ {hand} \subseteq Mons \cup {None} /\ away \subseteq Mons
  /\ Len(j.pend) <= PendMax /\ j.next \in 1 .. MaxSeq + 11
  /\ at \in {"browser", "offer", "play"} /\ mishaps \in 0 .. MaxMishaps
  /\ {on, stopped, cross, missed} \subseteq BOOLEAN /\ halved \subseteq Mons
  /\ declined \subseteq Known(disk)
  /\ on /\ ~stopped => j.tip = j.cursor \/ Ahead(disk, j) # <<>>

\* While every step was recorded, the step at the cursor is the one that made
\* the image: undo, redo, re-apply, discards and reboots keep the two together.
CursorTellsImage ==
  on /\ ~stopped /\ ~missed /\ at # "browser" =>
    /\ j.seen = image
    /\ Has(Recs(disk, j), j.cursor) => Find(Recs(disk, j), j.cursor).post = image

\* With nothing in the hand, nobody is gone without a word: a Pokemon that a swap
\* displaced is in the image (or in the file it was taken to), whatever was undone,
\* redone or re-applied after a power cut; or a press took it out, in the middle of
\* a chain longer than a press takes or because its roll-back failed, and the user
\* was told of half a swap.  (jrn_app.c, #303, #325 and #406.)
MonsAllThere ==
  hand = None /\ ~missed => Mons \subseteq Living(image) \cup away \cup halved

\* Undo, redo and the re-apply never bring back a Pokemon that was taken to
\* another file, where it would then be twice.  (The undo floor, #301.)  One that is
\* in the .sav all the same, its step discarded, may be put out of the image by half
\* a swap and come back: nothing is twice that was not before.  When the
\* step that took it away went unrecorded, the .sav without it can be an image the
\* history knows from before, and the offer does bring it back.
NoneComesBack ==
  [][~missed /\ at # "browser" /\ at' = "play" => (Living(image') \ Living(image)) \cap (away \ ({hand} \cup halved)) = {}]_vars

\* After a power cut at any time the card says how the image was when the last
\* batch got there: it is the .sav with every step re-applied on the way to the
\* last cursor.  Only an undo that went back past the .sav is not taken up again.
Replayed(img, line) ==
  LET go[k \in Nat] == IF k = 0 THEN img ELSE Patched(go[k - 1], line[k], "post")
  IN  go[Len(line)]
ReapplyReaches ==
  LET a == Anchor(disk, sav)
      passed(r) == r.kind = "cursor" /\ \A q \in ToSet(Line(disk, 0, r.parent)) : q.seq # a.cursor
  IN  ~missed =>
        \/ /\ a.kind = "MATCH" \/ LastCursor(disk) = 0
           /\ Replayed(sav, Line(disk, a.cursor, LastCursor(disk))) = safe
        \/ a.kind = "BRANCH" /\ \E i \in DOMAIN disk : passed(disk[i])

\* What was thrown away is not offered again.  (app_journal_offer: "B = a discarded
\* marker (never re-offered)".)
DeclinedStaysDeclined ==
  at = "offer" => ToSet(Ahead(disk, j)) \cap declined = {}
=============================================================================
