------------------------------ MODULE DurableLog ------------------------------
(***************************************************************************)
(* What a journal promises whoever records into it, whatever the card      *)
(* does: a reopen finds the batches in the order they were recorded, each  *)
(* one whole or not at all; what it was told to be on the card is on the   *)
(* card; and only the oldest end is ever given up, unless the whole        *)
(* history is cleared.  An entry is a step with its number: the numbers    *)
(* are the order.                                                          *)
(***************************************************************************)
EXTENDS Naturals

CONSTANT Steps

VARIABLES
  log,      \* the entries a reopen finds
  batch,    \* the entries in hand, which no one was told are on the card
  acked,    \* the steps the session was told are on the card
  lossy     \* the card has dropped a write of this batch without saying so

vars == <<log, batch, acked, lossy>>

Entries == [seq : Nat, step : Steps]

Before(older, newer) == \A e \in older, b \in newer : e.seq < b.seq
OldestOf(part, all) == part \subseteq all /\ Before(part, all \ part)
NewestOf(part, all) == part \subseteq all /\ Before(all \ part, part)
StretchOf(part, all) ==
  /\ part \subseteq all
  /\ \A e, f \in part, g \in all \ part : e.seq # g.seq /\ (e.seq < g.seq <=> f.seq < g.seq)

Init == log = {} /\ batch = {} /\ acked = {} /\ lossy = FALSE

\* The session records a step, takes one back, or loses those in hand.
Stage ==
  /\ batch' \subseteq Entries /\ lossy' \in BOOLEAN
  /\ UNCHANGED <<log, acked>>

\* The batch gets on the card as a whole, behind all that is there; only a card
\* that drops writes may leave a part of it, and always the oldest part.
Commit ==
  /\ log \subseteq log' /\ Before(log, batch) /\ OldestOf(log' \ log, batch)
  /\ batch \subseteq log' \/ lossy'
  /\ batch' \in {batch, {}} /\ lossy' \in BOOLEAN /\ UNCHANGED acked

\* The session is told: every step of the batch is what a reopen ends with.
Ack ==
  /\ batch # {} /\ batch \subseteq log /\ Before(log \ batch, batch)
  /\ acked' = acked \cup {b.step : b \in batch} /\ batch' = {}
  /\ lossy' \in BOOLEAN /\ UNCHANGED log

\* Retention gives up the oldest steps.
Forget ==
  /\ NewestOf(log', log)
  /\ lossy' \in BOOLEAN /\ batch' \in {batch, {}} /\ UNCHANGED acked

\* None of these gives up a step that is in the log.
Keep == Stage \/ Commit \/ Ack

\* The user clears the history.
Clear ==
  /\ log' = {} /\ batch' = {} /\ lossy' \in BOOLEAN /\ UNCHANGED acked

\* A clear cut short leaves a stretch of the history, or of a batch that only
\* got on the card in part.
ClearPart ==
  /\ StretchOf(log', log \cup batch)
  /\ batch' = {} /\ lossy' \in BOOLEAN /\ UNCHANGED acked

Next == Keep \/ Forget \/ Clear \/ ClearPart

Spec == Init /\ [][Next]_vars
=============================================================================
