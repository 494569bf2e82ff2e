------------------------------ MODULE XferProofs ------------------------------
(***************************************************************************)
(* Proofs about Xfer, for every bound: the types, and with the screen used *)
(* as it is meant to be (Kinds = {}) the Pokemon is never lost, an entry   *)
(* claims nothing that is not on the card, RESTORE never clones and a pair *)
(* of twins has its record.                                                *)
(***************************************************************************)
EXTENDS Xfer, TLAPS

\* The entries of the running job that are to be handled by action a.
Picked(a) == {k \in DOMAIN job.act : job.act[k] = a}

\* The first part of the invariant, which needs nothing of Kinds: the types,
\* with what each handler's later steps need of its first.
Typed ==
  /\ bank \in [Cells -> 0 .. Most]
  /\ pc \in [Keys -> 0 .. Most] /\ card \in [Keys -> 0 .. Most]
  /\ ledger \in [Keys -> States]
  /\ queue \subseteq {"orig"} \cup Keys
  /\ \A c \in queue : bank[c] > 0
  /\ bank["orig"] <= 1
  /\ home \in BOOLEAN /\ dirty \in BOOLEAN /\ gone \in BOOLEAN
  /\ pend \in Keys \cup {NoKey}
JobTyped ==
  /\ job.at \in {"idle", "saved", "promoted", "land", "file", "key"}
  /\ job.at \in {"land", "file"} => DOMAIN job.act \subseteq Keys
  /\ job.at = "land" => /\ Picked("remove") # {} => "orig" \notin queue
                        /\ \A k \in Picked("release") : pc[k] > 0
  /\ job.at = "key" => job.from \in Keys /\ job.to = Other(job.from)
\* What is not dirty is on the card.
Synced ==
  /\ ~dirty => card = pc
  /\ job.at \in {"saved", "promoted"} => ~dirty
TypeInv == Typed /\ JobTyped /\ Synced

\* The two keys and the places where a copy can lie.
LEMMA OtherKey ==
  /\ Other("born") = "rolled" /\ Other("rolled") = "born"
  /\ Keys \subseteq Cells /\ "orig" \notin Keys /\ "again" \notin Keys /\ NoKey \notin Keys
  /\ {"orig", "again", "merged"} \subseteq Cells
  /\ Natives \subseteq Cells
  BY DEF Other, Keys, Cells, Natives, NoKey

\* The first session starts within the bounds and in step with the card.
LEMMA TypeInit == XferInit => TypeInv
<1>1. Most \in Nat /\ Most >= 1  BY XferAssumption
<1> SUFFICES ASSUME XferInit PROVE TypeInv  OBVIOUS
<1>2. Typed
  <2>1. 0 \in 0 .. Most /\ 1 \in 0 .. Most  BY <1>1
  <2>2. bank \in [Cells -> 0 .. Most] /\ bank["orig"] <= 1
    BY <2>1, OtherKey DEF XferInit
  <2>3. pc \in [Keys -> 0 .. Most] /\ card \in [Keys -> 0 .. Most]
    BY <2>1 DEF XferInit, Nowhere
  <2>4. QED  BY <2>2, <2>3 DEF XferInit, Typed, States
<1>3. JobTyped  BY DEF XferInit, JobTyped, Idle
<1>4. Synced  BY DEF XferInit, Synced, Idle
<1>5. QED  BY <1>2, <1>3, <1>4 DEF TypeInv

\* What xrc_classify offers, action by action.
LEMMA Offers ==
  ASSUME NEW v, v.key \in Nat, v.ident \in Nat, v.bank \in Nat, v.g3 \in Nat, v.twin \in Nat,
         v.waits \in BOOLEAN, v.unread \in BOOLEAN, v.oncard \in BOOLEAN,
         v.state \in {"pending", "claimed", "restored"},
         NEW a \in Classify(v).acts
  PROVE  /\ a \in {"remove", "release", "restore", "delete", "promote", "rekey"}
         /\ a = "remove" => v.state = "claimed" /\ v.bank = 1 /\ v.key = 1 /\ ~v.waits
         /\ a = "release" => v.state = "restored" /\ v.bank = 1 /\ v.key = 1
         /\ a = "promote" => v.state = "pending" /\ v.key = 1 /\ v.oncard
         /\ a = "rekey" => v.key = 0 /\ v.ident = 1
         /\ a = "restore" => /\ v.state \in {"pending", "claimed"} /\ ~v.unread
                             /\ v.key = 0 /\ v.ident = 0 /\ v.g3 = 0
                             /\ v.bank = 0 /\ v.twin = 0
         /\ a = "delete" => /\ v.key = 0 /\ v.ident = 0 /\ v.g3 = 0
                            /\ \/ v.state = "restored"
                               \/ v.twin > 0
                               \/ v.state = "pending" /\ v.bank = 1
                               \/ Classify(v).kind = "lost"
<1>1. CASE v.key >= 2 \/ v.bank >= 2  BY <1>1 DEF Classify, Row
<1>2. CASE ~(v.key >= 2 \/ v.bank >= 2) /\ v.g3 >= 1 /\ v.key = 0
  BY <1>2 DEF Classify, Row
<1>3. CASE ~(v.key >= 2 \/ v.bank >= 2) /\ ~(v.g3 >= 1 /\ v.key = 0) /\ v.key = 0 /\ v.ident >= 1
  BY <1>3 DEF Classify, Row
<1>4. CASE /\ ~(v.key >= 2 \/ v.bank >= 2) /\ ~(v.g3 >= 1 /\ v.key = 0)
           /\ ~(v.key = 0 /\ v.ident >= 1)
  <2>k. v.key \in {0, 1} /\ v.bank \in {0, 1}  BY <1>4
  <2>1. CASE v.state = "pending"
    <3>1. Classify(v) = PendingRow(v)  BY <1>4, <2>1 DEF Classify
    <3>2. QED  BY <1>4, <2>k, <2>1, <3>1 DEF PendingRow, Only, Mark, Row
  <2>2. CASE v.state = "claimed"
    <3>1. Classify(v) = ClaimedRow(v)  BY <1>4, <2>2 DEF Classify
    <3>2. QED  BY <1>4, <2>k, <2>2, <3>1 DEF ClaimedRow, Only, Row
  <2>3. CASE v.state = "restored"
    <3>1. Classify(v) = RestoredRow(v)  BY <1>4, <2>3 DEF Classify
    <3>2. QED  BY <1>4, <2>k, <2>3, <3>1 DEF RestoredRow, Row
  <2>4. QED  BY <2>1, <2>2, <2>3
<1>5. QED  BY <1>1, <1>2, <1>3, <1>4
-----------------------------------------------------------------------------
\* What a choice on the TRANSFERS screen was offered for: the facts about the
\* Bank and the image on which the steps that follow rely.
LEMMA Chosen ==
  ASSUME TypeInv, Choose
  PROVE  /\ job = Idle /\ job'.at = "land" /\ DOMAIN job'.act \subseteq Keys
         /\ UNCHANGED <<files, pc, dirty, pend, queue>>
         /\ NothingStagedAway \/ "staged" \in Kinds
         /\ gone => gone'
         /\ gone' \in BOOLEAN
         /\ \A k \in DOMAIN job'.act :
              LET a == job'.act[k]
              IN /\ a \in {"remove", "release", "restore", "delete", "promote", "rekey"}
                 /\ a = "remove" => /\ ledger[k] = "claimed" /\ pc[k] = 1
                                    /\ "orig" \notin queue
                 /\ a = "release" => ledger[k] = "restored" /\ pc[k] = 1
                 /\ a = "promote" => ledger[k] = "pending" /\ pc[k] = 1 /\ ~dirty
                 /\ a = "rekey" => ledger[k] # "none" /\ pc[k] = 0 /\ pc[Other(k)] = 1
                 /\ a \in {"restore", "delete"} =>
                      /\ pc[k] = 0 /\ pc[Other(k)] = 0
                      /\ "unlinked" \notin Kinds => bank[Other(k)] = 0
                      /\ "blind" \notin Kinds => bank[k] = 0
                 /\ a = "restore" => /\ ledger[k] \in {"pending", "claimed"}
                                     /\ bank["orig"] = 0 /\ bank["again"] = 0
                 /\ a = "delete" => \/ ledger[k] = "restored"
                                    \/ bank["again"] > 0
                                    \/ ledger[k] = "pending" /\ bank["orig"] > 0
                                    \/ gone'
<1>1. PICK hid \in SUBSET {c \in Cells : Some(bank, c)} :
        LET rows == {k \in Keys : ledger[k] # "none"}
            row == [k \in rows |-> Classify(Seen(k, hid))]
            picks == {f \in [rows -> {"skip", "remove", "release", "restore",
                                      "delete", "promote", "rekey"}] :
                        \A k \in rows : f[k] \in row[k].acts \cup {"skip"}}
        IN \E f \in picks :
             LET chosen == {k \in rows : f[k] # "skip"}
             IN /\ hid # {} /\ "blind" \notin Kinds => \A k \in chosen : f[k] # "delete"
                /\ \A k \in chosen : f[k] \in {"delete", "restore"} /\ Some(bank, Other(k))
                                      => "unlinked" \in Kinds
                /\ job' = [at |-> "land", act |-> [k \in chosen |-> f[k]]]
                /\ gone' = (gone \/ \E k \in chosen :
                              f[k] = "delete" /\ row[k].kind = "lost")
  BY DEF Choose
<1> DEFINE rows == {k \in Keys : ledger[k] # "none"}
<1>2. PICK f \in [rows -> {"skip", "remove", "release", "restore", "delete", "promote", "rekey"}] :
        LET chosen == {k \in rows : f[k] # "skip"}
        IN /\ \A k \in rows : f[k] \in Classify(Seen(k, hid)).acts \cup {"skip"}
           /\ hid # {} /\ "blind" \notin Kinds => \A k \in chosen : f[k] # "delete"
           /\ \A k \in chosen : f[k] \in {"delete", "restore"} /\ Some(bank, Other(k))
                                 => "unlinked" \in Kinds
           /\ job' = [at |-> "land", act |-> [k \in chosen |-> f[k]]]
           /\ gone' = (gone \/ \E k \in chosen :
                         f[k] = "delete" /\ Classify(Seen(k, hid)).kind = "lost")
  BY <1>1
<1> DEFINE chosen == {k \in rows : f[k] # "skip"}
<1> HIDE DEF rows
<1>3. /\ job = Idle /\ UNCHANGED <<files, pc, dirty, pend, queue>>
      /\ NothingStagedAway \/ "staged" \in Kinds
  BY DEF Choose
<1>4. job'.at = "land" /\ job'.act = [k \in chosen |-> f[k]]  BY <1>2
<1>5. (gone => gone') /\ gone' \in BOOLEAN
  BY <1>2 DEF TypeInv, Typed
<1>6. chosen \subseteq Keys  BY DEF rows
<1>7. ASSUME NEW k \in chosen
      PROVE  LET a == job'.act[k]
             IN /\ a \in {"remove", "release", "restore", "delete", "promote", "rekey"}
                /\ a = "remove" => /\ ledger[k] = "claimed" /\ pc[k] = 1
                                   /\ "orig" \notin queue
                /\ a = "release" => ledger[k] = "restored" /\ pc[k] = 1
                /\ a = "promote" => ledger[k] = "pending" /\ pc[k] = 1 /\ ~dirty
                /\ a = "rekey" => ledger[k] # "none" /\ pc[k] = 0 /\ pc[Other(k)] = 1
                /\ a \in {"restore", "delete"} =>
                     /\ pc[k] = 0 /\ pc[Other(k)] = 0
                     /\ "unlinked" \notin Kinds => bank[Other(k)] = 0
                     /\ "blind" \notin Kinds => bank[k] = 0
                /\ a = "restore" => /\ ledger[k] \in {"pending", "claimed"}
                                    /\ bank["orig"] = 0 /\ bank["again"] = 0
                /\ a = "delete" => \/ ledger[k] = "restored"
                                   \/ bank["again"] > 0
                                   \/ ledger[k] = "pending" /\ bank["orig"] > 0
                                   \/ gone'
  <2> DEFINE v == Seen(k, hid)
             a == f[k]
  <2>1. k \in rows /\ a # "skip" /\ k \in Keys /\ ledger[k] # "none" /\ Other(k) \in Keys
    BY OtherKey DEF rows, Keys
  <2>2. \A c \in Cells : bank[c] \in Nat /\ Found(c, hid) \in Nat
                          /\ Found(c, hid) = IF c \in hid THEN 0 ELSE bank[c]
    BY XferAssumption DEF TypeInv, Typed, Found
  <2>3. pc[k] \in Nat /\ pc[Other(k)] \in Nat /\ ledger[k] \in States
    BY <2>1, XferAssumption DEF TypeInv, Typed
  <2>4. k \in Cells /\ "orig" \in Cells /\ "again" \in Cells /\ "merged" \in Cells
    BY <2>1, OtherKey
  <2>5. /\ v.key = pc[k] /\ v.ident = pc[Other(k)]
        /\ v.state = ledger[k] /\ v.state \in {"pending", "claimed", "restored"}
        /\ v.bank \in Nat
        /\ v.state # "restored" => v.bank = Found("orig", hid)
        /\ v.g3 = Found(k, hid) /\ v.twin = Found("again", hid)
        /\ (v.waits <=> "orig" \in queue) /\ (v.unread <=> hid # {}) /\ (v.oncard <=> ~dirty)
    <3>1. /\ v.key = pc[k] /\ v.ident = pc[Other(k)] /\ v.state = ledger[k]
          /\ v.bank = IF ledger[k] = "restored"
                      THEN Found("orig", hid) + Found("again", hid) + Found("merged", hid)
                      ELSE Found("orig", hid)
          /\ v.g3 = Found(k, hid) /\ v.twin = Found("again", hid)
      BY DEF Seen
    <3>2. (v.waits <=> "orig" \in queue) /\ (v.unread <=> hid # {}) /\ (v.oncard <=> ~dirty)
      BY DEF Seen
    <3>3. v.bank \in Nat  BY <2>2, <2>4, <3>1
    <3>4. QED  BY <2>1, <2>3, <3>1, <3>2, <3>3 DEF States
  <2>6. v.waits \in BOOLEAN /\ v.unread \in BOOLEAN /\ v.oncard \in BOOLEAN
    BY DEF Seen
  <2>7. a \in Classify(v).acts  BY <1>2, <2>1
  <2> HIDE DEF v
  <2>8. /\ a \in {"remove", "release", "restore", "delete", "promote", "rekey"}
        /\ a = "remove" => v.state = "claimed" /\ v.bank = 1 /\ v.key = 1 /\ ~v.waits
        /\ a = "release" => v.state = "restored" /\ v.bank = 1 /\ v.key = 1
        /\ a = "promote" => v.state = "pending" /\ v.key = 1 /\ v.oncard
        /\ a = "rekey" => v.key = 0 /\ v.ident = 1
        /\ a = "restore" => /\ v.state \in {"pending", "claimed"} /\ ~v.unread
                            /\ v.key = 0 /\ v.ident = 0 /\ v.g3 = 0
                            /\ v.bank = 0 /\ v.twin = 0
        /\ a = "delete" => /\ v.key = 0 /\ v.ident = 0 /\ v.g3 = 0
                           /\ \/ v.state = "restored"
                              \/ v.twin > 0
                              \/ v.state = "pending" /\ v.bank = 1
                              \/ Classify(v).kind = "lost"
    BY <2>2, <2>3, <2>4, <2>5, <2>6, <2>7, Offers
  <2>9. job'.act[k] = a  BY <1>4
  <2>10. a = "restore" => hid = {} /\ Found("orig", hid) = 0 /\ Found("again", hid) = 0
                          /\ Found(k, hid) = 0
    <3>1. ASSUME a = "restore"
          PROVE  /\ ~v.unread /\ v.g3 = 0 /\ v.bank = 0 /\ v.twin = 0
                 /\ v.state # "restored"
      BY <2>8, <3>1
    <3>2. QED  BY <2>5, <3>1
  <2>11. a = "delete" => Found(k, hid) = 0 /\ ("blind" \notin Kinds => hid = {})
    <3>1. hid # {} /\ "blind" \notin Kinds => a # "delete"  BY <1>2, <2>1
    <3>2. a = "delete" => v.g3 = 0  BY <2>8
    <3>3. QED  BY <2>5, <3>1, <3>2
  <2>12. a = "delete" /\ Classify(v).kind = "lost" => gone'
    BY <1>2, <2>1 DEF v
  <2>13. a \in {"restore", "delete"} /\ "unlinked" \notin Kinds => bank[Other(k)] = 0
    <3>1. Other(k) \in Cells  BY <2>1, OtherKey
    <3>2. QED  BY <1>2, <2>1, <2>2, <3>1 DEF Some
  <2>14. a \in {"restore", "delete"} /\ "blind" \notin Kinds => bank[k] = 0
    BY <2>2, <2>4, <2>10, <2>11
  <2>15. a = "restore" => bank["orig"] = 0 /\ bank["again"] = 0
    BY <2>2, <2>4, <2>10
  <2>16. a = "delete" /\ v.twin > 0 => bank["again"] > 0
    BY <2>2, <2>4, <2>5
  <2>17. a = "delete" /\ v.state = "pending" /\ v.bank = 1 => bank["orig"] > 0
    BY <2>2, <2>4, <2>5
  <2>18. QED
    BY <2>3, <2>5, <2>8, <2>9, <2>12, <2>13, <2>14, <2>15, <2>16, <2>17
<1>8. QED
  BY <1>3, <1>4, <1>5, <1>6, <1>7
-----------------------------------------------------------------------------
\* One more and one less of a shape keep the counts within their bounds.
LEMMA Counts ==
  ASSUME NEW S, NEW f \in [S -> 0 .. Most], NEW x \in S
  PROVE  /\ Room(f, x) => More(f, x) \in [S -> 0 .. Most]
         /\ Some(f, x) => Less(f, x) \in [S -> 0 .. Most]
<1>1. f[x] \in 0 .. Most /\ Most \in Nat  BY XferAssumption
<1>2. Room(f, x) => f[x] + 1 \in 0 .. Most  BY <1>1 DEF Room
<1>3. Some(f, x) => f[x] - 1 \in 0 .. Most  BY <1>1 DEF Some
<1>4. QED  BY <1>2, <1>3 DEF More, Less

\* Every handler, whatever fails in it, keeps the counts within their bounds,
\* the queue on cells that are still there and a clean image equal to the card.
LEMMA TypeStep == TypeInv /\ [XferNext]_vars => TypeInv'
<1> SUFFICES ASSUME TypeInv, [XferNext]_vars PROVE TypeInv'  OBVIOUS
<1> USE DEF TypeInv, Typed, JobTyped, Synced
<1>k. /\ Keys \subseteq Cells /\ "born" \in Keys /\ "rolled" \in Keys
      /\ "orig" \notin Keys /\ NoKey \notin Keys
      /\ {"orig", "again", "merged"} \subseteq Cells
      /\ \A k \in Keys : Other(k) \in Keys
      /\ Other("born") = "rolled"
  BY OtherKey DEF Keys
<1>b. \A c \in Cells : bank[c] \in 0 .. Most /\ bank[c] \in Nat  BY XferAssumption
<1>p. \A k \in Keys : pc[k] \in Nat /\ card[k] \in Nat  BY XferAssumption
<1>s. \A k \in Keys : \A s \in States : Entry(k, s) \in [Keys -> States]  BY DEF Entry
<1>t. {"none", "pending", "claimed", "restored"} = States  BY DEF States
<1>m. Most \in Nat /\ Most >= 1  BY XferAssumption
<1>1. CASE Drop
  <2>1. job = Idle /\ job' = Idle /\ Idle.at = "idle"  BY <1>1 DEF Drop, Spend, Idle
  <2>2. ledger' \in [Keys -> States]  BY <1>1, <1>k, <1>s, <1>t DEF Drop
  <2>3. CASE UNCHANGED <<pc, dirty, pend, queue>>
    BY <1>1, <2>1, <2>2, <2>3 DEF Drop
  <2>4. CASE /\ pc' = More(pc, "born") /\ dirty' = TRUE
             /\ pend' = "born" /\ queue' = queue \cup {"orig"}
    <3>1. pc' \in [Keys -> 0 .. Most]  BY <1>1, <1>k, <2>4, Counts DEF Drop
    <3>2. bank["orig"] > 0  BY <1>1 DEF Drop, Some
    <3>3. QED  BY <1>1, <1>k, <2>1, <2>2, <2>4, <3>1, <3>2 DEF Drop
  <2>5. QED  BY <1>1, <2>3, <2>4 DEF Drop
<1>2. ASSUME NEW k \in Keys, Park(k) PROVE TypeInv'
  <2>1. job = Idle /\ job' = Idle /\ Idle.at = "idle"  BY <1>2 DEF Park, Spend, Idle
  <2>2. bank' \in [Cells -> 0 .. Most] /\ pc' \in [Keys -> 0 .. Most]
    BY <1>2, <1>k, Counts DEF Park
  <2>3. \A c \in Cells : bank'[c] >= bank[c]  BY <1>2, <1>k, <1>b DEF Park, More
  <2>4. bank'["orig"] = bank["orig"]  BY <1>2, <1>k DEF Park, More
  <2>5. \A c \in queue : bank'[c] > 0  BY <1>k, <1>b, <2>2, <2>3
  <2>6. QED  BY <1>2, <2>1, <2>2, <2>4, <2>5 DEF Park
<1>3. ASSUME NEW k \in Keys, Unpark(k) PROVE TypeInv'
  <2>1. job = Idle /\ job' = Idle /\ Idle.at = "idle"  BY <1>3 DEF Unpark, Spend, Idle
  <2>2. pc' \in [Keys -> 0 .. Most]  BY <1>3, Counts DEF Unpark
  <2>3. QED  BY <1>3, <2>1, <2>2 DEF Unpark, files, Some
<1>4. ASSUME NEW k \in Keys, Release(k) PROVE TypeInv'
  <2>1. job = Idle /\ job' = Idle /\ Idle.at = "idle"  BY <1>4 DEF Release, Spend, Idle
  <2>2. pc' \in [Keys -> 0 .. Most]  BY <1>4, Counts DEF Release
  <2>3. QED  BY <1>4, <2>1, <2>2 DEF Release, files
<1>5. CASE Edit  BY <1>5 DEF Edit, files, Idle
<1>6. CASE Commit  BY <1>6 DEF Commit, Spend, Idle
<1>7. CASE Reroll
  <2>1. /\ job = Idle /\ Idle.at = "idle"
        /\ pc' = Less(More(pc, "rolled"), "born")
        /\ \E w \in Outcomes :
              /\ card' = IF w.landed THEN pc' ELSE card
              /\ dirty' = ~w.ok
              /\ job' = IF w.ok /\ ledger["born"] # "none"
                        THEN [at |-> "key", from |-> "born", to |-> "rolled"] ELSE Idle
    BY <1>7 DEF Reroll, Spend, Idle
  <2>2. More(pc, "rolled") \in [Keys -> 0 .. Most]  BY <1>7, <1>k, Counts DEF Reroll
  <2>3. Some(More(pc, "rolled"), "born")
    BY <1>7, <1>k DEF Reroll, Some, More, Keys
  <2>4. pc' \in [Keys -> 0 .. Most]  BY <1>k, <2>1, <2>2, <2>3, Counts
  <2>5. PICK w \in Outcomes :
          /\ card' = IF w.landed THEN pc' ELSE card
          /\ dirty' = ~w.ok
          /\ job' = IF w.ok /\ ledger["born"] # "none"
                    THEN [at |-> "key", from |-> "born", to |-> "rolled"] ELSE Idle
    BY <2>1
  <2>6. (w.ok => w.landed) /\ w.ok \in BOOLEAN  BY DEF Outcomes
  <2>7. card' \in [Keys -> 0 .. Most] /\ dirty' \in BOOLEAN /\ (~dirty' => card' = pc')
    BY <2>4, <2>5, <2>6
  <2>8. /\ job'.at \in {"idle", "key"}
        /\ job'.at = "key" => job'.from = "born" /\ job'.to = "rolled"
    BY <2>1, <2>5
  <2>9. UNCHANGED <<bank, home, ledger, pend, queue, gone>>  BY <1>7 DEF Reroll
  <2>10. QED  BY <1>k, <2>4, <2>7, <2>8, <2>9
<1>8. ASSUME NEW k \in Keys, Home(k) PROVE TypeInv'
  <2>1. /\ queue = {} /\ UNCHANGED <<card, pc, dirty, pend, queue, job, gone>>
        /\ home' = TRUE
    BY <1>8 DEF Home, Fresh, session
  <2>2. bank' \in [Cells -> 0 .. Most] /\ bank'["orig"] = bank["orig"]
    <3>1. Less(bank, k) \in [Cells -> 0 .. Most]  BY <1>8, <1>k, Counts DEF Home
    <3>2. Less(bank, k)["orig"] = bank["orig"]  BY <1>k DEF Less
    <3>3. QED  BY <1>8, <3>1, <3>2 DEF Home
  <2>3. ledger' \in [Keys -> States]  BY <1>8, <1>s, <1>t DEF Home
  <2>4. job.at = "idle"  BY <1>8 DEF Home, Spend, Idle
  <2>5. QED  BY <2>1, <2>2, <2>3, <2>4
<1>9. CASE Lift
  <2>1. queue = {} /\ job.at = "idle"  BY <1>9 DEF Lift, Fresh, Spend, Idle
  <2>2. bank' \in [Cells -> 0 .. Most] /\ bank'["orig"] = bank["orig"]
    <3>1. More(bank, "merged") \in [Cells -> 0 .. Most]  BY <1>9, <1>k, Counts DEF Lift
    <3>2. More(bank, "merged")["orig"] = bank["orig"]  BY <1>k DEF More
    <3>3. QED  BY <1>9, <3>1, <3>2 DEF Lift
  <2>3. QED  BY <1>9, <2>1, <2>2 DEF Lift, session
<1>10. ASSUME NEW k \in Keys, Trade(k) PROVE TypeInv'
  <2>1. job.at = "idle" /\ ~dirty  BY <1>10 DEF Trade, Fresh, Spend, Idle
  <2>2. pc = card /\ Some(pc, k)  BY <1>10, <2>1 DEF Trade
  <2>3. pc' = card' /\ pc' \in [Keys -> 0 .. Most]  BY <1>10, <2>2, Counts DEF Trade
  <2>4. QED  BY <1>10, <2>1, <2>3 DEF Trade
<1>11. CASE Save
  <2>1. PICK w \in Outcomes :
          /\ card' = IF w.landed THEN pc ELSE card
          /\ dirty' = (dirty /\ ~w.ok)
          /\ pend' = IF w.ok THEN pend ELSE NoKey
          /\ job' = IF w.ok THEN [at |-> "saved"] ELSE Idle
          /\ ~dirty => w = [landed |-> TRUE, ok |-> TRUE]
    <3>1. [landed |-> TRUE, ok |-> TRUE] \in Outcomes  BY DEF Outcomes
    <3>2. QED  BY <1>11, <3>1 DEF Save
  <2>2. w.ok \in BOOLEAN /\ w.landed \in BOOLEAN /\ (w.ok => w.landed)  BY DEF Outcomes
  <2>3. UNCHANGED <<bank, home, ledger, pc, queue, gone>>  BY <1>11 DEF Save
  <2>4. card' \in [Keys -> 0 .. Most] /\ pend' \in Keys \cup {NoKey} /\ dirty' \in BOOLEAN
    BY <2>1, <2>2
  <2>5. ~dirty' => card' = pc'  BY <2>1, <2>2, <2>3
  <2>6. job'.at \in {"idle", "saved"} /\ (job'.at = "saved" => ~dirty')
    BY <2>1, <2>2 DEF Idle
  <2>7. QED  BY <2>3, <2>4, <2>5, <2>6
<1>12. CASE Promote
  <2>1. job'.at = "promoted" /\ ~dirty /\ UNCHANGED <<bank, card, home, pc, dirty, queue, gone>>
    BY <1>12 DEF Promote
  <2>2. ledger' \in [Keys -> States] /\ pend' \in Keys \cup {NoKey}
    <3>1. CASE pend = NoKey  BY <1>12, <3>1 DEF Promote
    <3>2. CASE pend # NoKey
      <4>1. pend \in Keys /\ ledger[pend] \in {"none", "pending", "claimed", "restored"}
        BY <1>t, <3>2
      <4>2. CASE ledger[pend] = "none"  BY <1>12, <3>2, <4>2 DEF Promote
      <4>3. CASE ledger[pend] \in {"claimed", "restored"}
        BY <1>12, <3>2, <4>3 DEF Promote
      <4>4. CASE ledger[pend] = "pending"
        BY <1>12, <1>s, <1>t, <3>2, <4>1, <4>4 DEF Promote
      <4>5. QED  BY <4>1, <4>2, <4>3, <4>4
    <3>3. QED  BY <3>1, <3>2
  <2>3. QED  BY <2>1, <2>2
<1>13. CASE Flush
  <2>1. PICK kept \in SUBSET queue :
          /\ queue' = kept
          /\ bank' = [c \in Cells |->
                      IF c \in queue \ kept /\ bank[c] > 0 THEN bank[c] - 1 ELSE bank[c]]
    BY <1>13 DEF Flush
  <2>2. bank' \in [Cells -> 0 .. Most]  BY <1>b, <1>m, <2>1
  <2>3. bank'["orig"] <= 1  BY <1>k, <1>b, <2>1
  <2>4. \A c \in queue' : bank'[c] > 0  BY <1>k, <2>1
  <2>5. job'.at = "idle"  BY <1>13 DEF Flush, Idle
  <2>6. QED  BY <1>13, <2>1, <2>2, <2>3, <2>4, <2>5 DEF Flush
<1>14. CASE Decline
  <2>1. ledger' \in [Keys -> States]  BY <1>14, <1>s, <1>t DEF Decline
  <2>2. QED  BY <1>14, <2>1 DEF Decline, Idle
<1>15. CASE Crash  BY <1>15 DEF Crash, files, Idle
<1>16. CASE Choose
  <2>1. /\ job'.at = "land" /\ DOMAIN job'.act \subseteq Keys /\ gone' \in BOOLEAN
        /\ UNCHANGED <<files, pc, dirty, pend, queue>>
        /\ \A k \in DOMAIN job'.act :
             /\ job'.act[k] = "remove" => "orig" \notin queue
             /\ job'.act[k] = "release" => pc[k] = 1
    BY <1>16, Chosen
  <2>2. \A a : Picked(a)' = {k \in DOMAIN job'.act : job'.act[k] = a}  BY DEF Picked
  <2>3. QED  BY <1>p, <2>1, <2>2 DEF files
<1>17. CASE Land
  <2> DEFINE Fine == [landed |-> TRUE, ok |-> TRUE]
  <2>1. PICK removed \in BOOLEAN, w \in Outcomes, back \in SUBSET Picked("restore") :
          /\ Picked("release") = {} => w = Fine
          /\ back # {} => Room(bank, "again")
          /\ bank' = [bank EXCEPT !["orig"]  = IF Picked("remove") # {} /\ removed THEN 0 ELSE @,
                                  !["again"] = IF back # {} THEN @ + 1 ELSE @]
          /\ pc' = [k \in Keys |-> IF k \in Picked("release") THEN pc[k] - 1 ELSE pc[k]]
          /\ IF Picked("release") = {} THEN UNCHANGED <<card, dirty>>
             ELSE card' = (IF w.landed THEN pc' ELSE card) /\ dirty' = ~w.ok
          /\ job' = [at |-> "file", act |-> job.act,
                     out |-> back \cup Picked("delete") \cup
                             IF w.ok THEN Picked("release") ELSE {}]
    BY <1>17 DEF Land, Picked
  <2>2. w.ok \in BOOLEAN /\ w.landed \in BOOLEAN /\ (w.ok => w.landed)  BY DEF Outcomes
  <2>3. job.at = "land" /\ UNCHANGED <<home, ledger, pend, queue, gone>>  BY <1>17 DEF Land
  <2>4. pc' \in [Keys -> 0 .. Most]
    <3>1. \A k \in Picked("release") : pc[k] > 0  BY <2>3
    <3>2. \A k \in Keys : (IF k \in Picked("release") THEN pc[k] - 1 ELSE pc[k]) \in 0 .. Most
      BY <1>m, <3>1
    <3>3. QED  BY <2>1, <3>2
  <2>5. bank' \in [Cells -> 0 .. Most] /\ bank'["orig"] <= 1
    <3>1. back # {} => bank["again"] + 1 \in 0 .. Most  BY <1>k, <1>b, <1>m, <2>1 DEF Room
    <3>2. QED  BY <1>k, <1>m, <2>1, <3>1
  <2>6. \A c \in queue : bank'[c] > 0
    <3>1. "orig" \in queue => Picked("remove") = {}  BY <2>3
    <3>2. \A c \in queue : c \in Cells /\ c # "again"  BY <1>k, OtherKey
    <3>3. QED  BY <2>1, <3>1, <3>2
  <2>7. card' \in [Keys -> 0 .. Most] /\ dirty' \in BOOLEAN /\ (~dirty' => card' = pc')
    <3>1. CASE Picked("release") = {}
      <4>1. pc' = pc  BY <2>1, <3>1
      <4>2. QED  BY <2>1, <3>1, <4>1
    <3>2. CASE Picked("release") # {}  BY <2>1, <2>2, <2>4, <3>2
    <3>3. QED  BY <3>1, <3>2
  <2>8. job'.at = "file" /\ job'.act = job.act  BY <2>1
  <2>9. QED  BY <2>3, <2>4, <2>5, <2>6, <2>7, <2>8
<1>18. CASE File
  <2>1. UNCHANGED <<bank, card, home, pc, dirty, pend, queue, gone>>  BY <1>18 DEF File
  <2>2. ledger' \in [Keys -> States]
    BY <1>18, <1>t DEF File
  <2>3. DOMAIN job.act \subseteq Keys  BY <1>18 DEF File
  <2>4. /\ job'.at \in {"idle", "key"}
        /\ job'.at = "key" => job'.from \in Keys /\ job'.to = Other(job'.from)
    <3> DEFINE Of == {k \in DOMAIN job.act : job.act[k] = "rekey"}
               q == CHOOSE k \in Of : TRUE
    <3>1. job' = IF \E k \in Of : ledger'[Other(k)] = "none"
                 THEN [at |-> "key", from |-> q, to |-> Other(q)] ELSE Idle
      BY <1>18 DEF File
    <3>2. Of # {} => q \in Of  OBVIOUS
    <3>3. QED  BY <2>3, <3>1, <3>2 DEF Idle
  <2>5. QED  BY <2>1, <2>2, <2>4
<1>19. CASE Rekey
  <2>1. UNCHANGED <<bank, card, home, pc, dirty, pend, queue, gone>> /\ job'.at = "idle"
    BY <1>19 DEF Rekey, Idle
  <2>2. job.from \in Keys  BY <1>19 DEF Rekey
  <2>3. ledger' \in [Keys -> States]  BY <1>19, <1>t, <2>2 DEF Rekey
  <2>4. QED  BY <2>1, <2>3
<1>20. CASE UNCHANGED vars
  BY <1>20 DEF vars, files, session, Picked
<1>21. QED
  BY <1>1, <1>2, <1>3, <1>4, <1>5, <1>6, <1>7, <1>8, <1>9, <1>10, <1>11, <1>12, <1>13,
     <1>14, <1>15, <1>16, <1>17, <1>18, <1>19, <1>20 DEF XferNext

(* No place ever holds fewer than none and no deletion waits for a cell the *)
(* Bank has lost already, whatever fails and whatever the player chooses.   *)
THEOREM XferTypes == XferSpec => []XferTypeOK
<1>1. TypeInv => XferTypeOK
  BY OtherKey DEF TypeInv, Typed, JobTyped, XferTypeOK, Some
<1>2. QED  BY TypeInit, TypeStep, <1>1, PTL DEF XferSpec
-----------------------------------------------------------------------------
(* The second part of the invariant is about a player who uses the screens  *)
(* as they are meant to be used.                                            *)
Meant == Kinds = {}

\* What is in the Bank even after every deletion that waits.
Left(c)  == bank[c] > (IF c \in queue THEN 1 ELSE 0)
Copy(k)  == pc[k] > 0 \/ Left(k)
Holds(k) == ledger[k] \in {"pending", "claimed"}
NoCopies == \A k \in Keys : pc[k] = 0 /\ card[k] = 0 /\ bank[k] = 0

\* Only what has come home has an entry that says so.
HomeInv == \A k \in Keys : ledger[k] = "restored" => CameHome

\* Why the running handler may do what it is about to do.
Choosing ==
  job.at \in {"land", "file"} =>
    /\ Picked("delete") \cup Picked("restore") # {} => NoCopies
    /\ \A k \in Picked("release") : ledger[k] = "restored"
    /\ \A k \in Picked("rekey") : ledger[k] # "none" /\ Other(k) \notin Picked("rekey")
Landing ==
  job.at = "land" =>
    /\ \A k \in Picked("remove") : ledger[k] = "claimed"
    /\ \A k \in Picked("promote") : card[k] > 0 /\ pc[k] > 0
    /\ Picked("restore") # {} => bank["orig"] = 0 /\ bank["again"] = 0
    /\ Picked("delete") # {} =>
         \/ gone \/ CameHome \/ bank["again"] > 0
         \/ bank["orig"] > 0 /\ Picked("remove") = {}
Filing ==
  job.at = "file" =>
    /\ job.out \subseteq Picked("delete") \cup Picked("restore") \cup Picked("release")
    /\ job.out # {} => gone \/ Native
    /\ \A k \in Picked("promote") : ledger[k] = "pending" => gone \/ Abroad
Rekeying == job.at = "key" => ledger[job.from] # "none" /\ ledger[job.to] = "none"
JobInv == Choosing /\ Landing /\ Filing /\ Rekeying

\* The Pokemon is on the card, and still will be when the session is saved and
\* its deletions are made; or an entry holds the original.
IsSafe == gone \/ Native \/ Abroad
Stays  == gone \/ home \/ (\E c \in Cells : Left(c)) \/ (\E k \in Keys : Some(pc, k))
Kept   == (IsSafe /\ Stays) \/ \E k \in Keys : Holds(k)

\* While a transfer is under way: nothing but the transfer deletes the original,
\* and the copy that replaces it is there with the entry that belongs to it.
Carried(k) == Copy(k) /\ (Holds(k) \/ (ledger[k] = "none" /\ Holds(Other(k))))
Crossing ==
  /\ pend # NoKey => IsSafe /\ (bank["orig"] = 0 \/ "orig" \in queue)
  /\ pend # NoKey \/ "orig" \in queue => gone \/ \E k \in Keys : Carried(k)

\* TwinsRecorded, and already of the copies that only the image holds.
TwinInv ==
  ~CameHome /\ Native /\ (Abroad \/ \E k \in Keys : pc[k] > 0)
    => \E k \in Keys : ledger[k] # "none"

SafeInv == HomeInv /\ JobInv /\ Kept /\ Crossing /\ TwinInv

\* Before the first transfer the original lies in the Bank and nothing is open.
LEMMA SafeInit == XferInit => SafeInv
<1> SUFFICES ASSUME XferInit PROVE SafeInv  OBVIOUS
<1>1. /\ bank["orig"] = 1 /\ queue = {} /\ pend = NoKey /\ job.at = "idle"
      /\ \A k \in Keys : /\ ledger[k] = "none" /\ pc[k] = 0 /\ card[k] = 0 /\ bank[k] = 0
      /\ "orig" \in Cells /\ "orig" \in Natives
  BY OtherKey DEF XferInit, Nowhere, Idle, Natives, Keys
<1>2. HomeInv /\ JobInv  BY <1>1 DEF HomeInv, JobInv, Choosing, Landing, Filing, Rekeying
<1>3. Kept  BY <1>1 DEF Kept, IsSafe, Stays, Native, Some, Left
<1>4. Crossing  BY <1>1 DEF Crossing
<1>5. TwinInv  BY <1>1 DEF TwinInv, Abroad, Some
<1>6. QED  BY <1>2, <1>3, <1>4, <1>5 DEF SafeInv

\* Once it has come home it never leaves the Game Boy's shapes again.
LEMMA HomeStays == TypeInv /\ [XferNext]_vars /\ CameHome => CameHome'
<1> SUFFICES ASSUME TypeInv, [XferNext]_vars, CameHome PROVE CameHome'  OBVIOUS
<1> USE DEF CameHome, Some, TypeInv, Typed
<1>k. "merged" \in Cells /\ "merged" \notin Keys /\ "merged" \notin {"orig", "again"}
      /\ Keys \subseteq Cells
  BY DEF Keys, Cells, Natives
<1>m. bank["merged"] \in Nat  BY <1>k, XferAssumption
<1>1. CASE UNCHANGED <<bank, home>>  BY <1>1
<1>2. ASSUME NEW k \in Keys, Park(k) PROVE CameHome'
  BY <1>2, <1>k DEF Park, More
<1>3. ASSUME NEW k \in Keys, Home(k) PROVE CameHome'  BY <1>3 DEF Home
<1>4. CASE Lift  BY <1>4, <1>k, <1>m DEF Lift, More
<1>5. CASE Flush
  <2>1. "merged" \notin queue  BY <1>k
  <2>2. QED  BY <1>5, <1>k, <2>1 DEF Flush
<1>6. CASE Land  BY <1>6, <1>k DEF Land
<1>7. QED
  BY <1>1, <1>2, <1>3, <1>4, <1>5, <1>6
     DEF XferNext, vars, files, Drop, Edit, Commit, Reroll, Unpark, Release, Trade,
         Save, Promote, Decline, Crash, Choose, File, Rekey

\* An entry becomes "restored" only in the hand that brings the Pokemon home,
\* or by taking over such an entry under the other key.
LEMMA HomeStep == TypeInv /\ HomeInv /\ [XferNext]_vars => HomeInv'
<1> SUFFICES ASSUME TypeInv, HomeInv, [XferNext]_vars PROVE HomeInv'  OBVIOUS
<1>h. CameHome => CameHome'  BY HomeStays
<1> SUFFICES ASSUME NEW q \in Keys, ledger'[q] = "restored"
             PROVE  CameHome \/ CameHome'
  BY <1>h DEF HomeInv
<1> USE DEF HomeInv
<1>l. ledger \in [Keys -> States]  BY DEF TypeInv, Typed
<1>1. CASE UNCHANGED ledger  BY <1>1
<1>2. CASE Drop  BY <1>2, <1>l DEF Drop, Entry
<1>3. ASSUME NEW k \in Keys, Home(k) PROVE CameHome'  BY <1>3 DEF Home, CameHome
<1>4. CASE Promote
  <2>1. ledger'[q] = ledger[q] \/ ledger'[q] = "claimed"
    <3>1. CASE pend = NoKey \/ ledger[pend] \in {"none", "claimed", "restored"}
      BY <1>4, <3>1 DEF Promote
    <3>2. CASE ~(pend = NoKey \/ ledger[pend] \in {"none", "claimed", "restored"})
      <4>1. pend \in Keys /\ ledger[pend] = "pending"
        BY <1>l, <3>2 DEF TypeInv, Typed, States
      <4>2. pend # NoKey  BY <3>2
      <4>3. QED  BY <1>4, <1>l, <4>1, <4>2 DEF Promote, Entry
    <3>3. QED  BY <3>1, <3>2
  <2>2. QED  BY <2>1
<1>5. CASE Decline  BY <1>5, <1>l DEF Decline, Entry
<1>6. CASE File  BY <1>6 DEF File
<1>7. CASE Rekey
  <2>1. job.from \in Keys  BY <1>7 DEF Rekey, TypeInv, JobTyped
  <2>2. QED  BY <1>7, <2>1 DEF Rekey
<1>8. QED
  BY <1>1, <1>2, <1>3, <1>4, <1>5, <1>6, <1>7
     DEF XferNext, vars, files, Park, Edit, Commit, Reroll, Unpark, Release, Lift, Trade,
         Save, Flush, Crash, Choose, Land

-----------------------------------------------------------------------------
(* What the handlers that run in several steps may rely on.                 *)
LEMMA JobStep == Meant /\ TypeInv /\ HomeInv /\ JobInv /\ [XferNext]_vars => JobInv'
<1> SUFFICES ASSUME Meant, TypeInv, HomeInv, JobInv, [XferNext]_vars PROVE JobInv'  OBVIOUS
<1>k. /\ Keys \subseteq Cells /\ {"orig", "again", "merged"} \subseteq Cells
      /\ {"orig", "again", "merged"} \subseteq Natives
      /\ \A k \in Keys : Other(k) \in Keys /\ Other(k) # k /\ k \notin {"orig", "again", "merged"}
      /\ \A k, q \in Keys : q = k \/ q = Other(k)
      /\ "orig" # "again"
  BY OtherKey DEF Keys, Natives
<1>b. /\ \A c \in Cells : bank[c] \in Nat
      /\ \A k \in Keys : pc[k] \in Nat /\ card[k] \in Nat
      /\ ledger \in [Keys -> States]
  BY XferAssumption DEF TypeInv, Typed
<1>i. job'.at \in {"idle", "saved", "promoted"} => JobInv'
  BY DEF JobInv, Choosing, Landing, Filing, Rekeying
<1>1. CASE job' = Idle  BY <1>1, <1>i DEF Idle
<1>2. CASE Reroll
  <2>1. \/ job' = Idle
        \/ /\ job' = [at |-> "key", from |-> "born", to |-> "rolled"]
           /\ ledger["born"] # "none" /\ ledger["rolled"] = "none" /\ ledger' = ledger
    BY <1>2 DEF Reroll
  <2>2. CASE job' = Idle  BY <1>1, <2>2
  <2>3. CASE /\ job' = [at |-> "key", from |-> "born", to |-> "rolled"]
             /\ ledger["born"] # "none" /\ ledger["rolled"] = "none" /\ ledger' = ledger
    BY <2>3 DEF JobInv, Choosing, Landing, Filing, Rekeying
  <2>4. QED  BY <2>1, <2>2, <2>3
<1>3. CASE Save  BY <1>3, <1>i DEF Save, Idle
<1>4. CASE Promote  BY <1>4, <1>i DEF Promote
<1>5. CASE Choose
  <2>1. /\ job'.at = "land" /\ DOMAIN job'.act \subseteq Keys
        /\ UNCHANGED <<files, pc, dirty, pend, queue>> /\ NothingStagedAway
        /\ \A k \in DOMAIN job'.act :
              LET a == job'.act[k]
              IN /\ a = "remove" => ledger[k] = "claimed" /\ pc[k] = 1
                 /\ a = "release" => ledger[k] = "restored"
                 /\ a = "promote" => pc[k] = 1 /\ ~dirty
                 /\ a = "rekey" => ledger[k] # "none" /\ pc[k] = 0 /\ pc[Other(k)] = 1
                 /\ a \in {"restore", "delete"} =>
                      pc[k] = 0 /\ pc[Other(k)] = 0 /\ bank[k] = 0 /\ bank[Other(k)] = 0
                 /\ a = "restore" => bank["orig"] = 0 /\ bank["again"] = 0
                 /\ a = "delete" => \/ ledger[k] = "restored" \/ bank["again"] > 0
                                    \/ bank["orig"] > 0 \/ gone'
    BY <1>5, Chosen DEF Meant
  <2>2. \A a : Picked(a)' = {k \in DOMAIN job'.act : job'.act[k] = a}  BY DEF Picked
  <2>3. Picked("delete")' \cup Picked("restore")' # {} => NoCopies
    <3>1. ASSUME NEW k \in Picked("delete")' \cup Picked("restore")'
          PROVE  NoCopies
      <4>1. k \in Keys /\ pc[k] = 0 /\ pc[Other(k)] = 0 /\ bank[k] = 0 /\ bank[Other(k)] = 0
        BY <2>1, <2>2
      <4>2. \A q \in Keys : pc[q] = 0 /\ bank[q] = 0 /\ card[q] <= pc[q]
        BY <1>k, <2>1, <4>1 DEF NothingStagedAway
      <4>3. QED  BY <1>b, <4>2 DEF NoCopies
    <3>2. QED  BY <3>1
  <2>4. Choosing'
    <3>1. NoCopies => NoCopies'  BY <2>1 DEF NoCopies, files
    <3>2. \A k \in Picked("rekey")' : Other(k) \notin Picked("rekey")'
      BY <2>1, <2>2
    <3>3. ledger' = ledger  BY <2>1 DEF files
    <3>4. QED  BY <2>1, <2>2, <2>3, <3>1, <3>2, <3>3 DEF Choosing
  <2>5. Landing'
    <3>1. /\ bank' = bank /\ card' = card /\ ledger' = ledger /\ home' = home /\ pc' = pc
      BY <2>1 DEF files
    <3>2. \A k \in Picked("remove")' : ledger'[k] = "claimed"  BY <2>1, <2>2, <3>1
    <3>3. \A k \in Picked("promote")' : card'[k] > 0 /\ pc'[k] > 0
      BY <2>1, <2>2, <3>1 DEF TypeInv, Synced
    <3>4. Picked("restore")' # {} => bank'["orig"] = 0 /\ bank'["again"] = 0
      BY <2>1, <2>2, <3>1
    <3>5. ASSUME Picked("delete")' # {}
          PROVE  \/ gone' \/ CameHome' \/ bank'["again"] > 0
                 \/ bank'["orig"] > 0 /\ Picked("remove")' = {}
      <4>1. PICK k \in Picked("delete")' : TRUE  BY <3>5
      <4>2. ledger[k] = "restored" \/ bank["again"] > 0 \/ bank["orig"] > 0 \/ gone'
        BY <2>1, <2>2, <4>1
      <4>3. CameHome => CameHome'  BY <3>1 DEF CameHome, Some
      <4>4. Picked("remove")' = {}
        <5>1. \A q \in Picked("remove")' : q \in Keys /\ pc[q] = 1  BY <2>1, <2>2
        <5>2. \A q \in Keys : pc[q] = 0  BY <2>3, <4>1 DEF NoCopies
        <5>3. QED  BY <5>1, <5>2
      <4>5. k \in Keys  BY <2>1, <2>2, <4>1
      <4>6. QED  BY <3>1, <4>2, <4>3, <4>4, <4>5 DEF HomeInv
    <3>6. QED  BY <3>2, <3>3, <3>4, <3>5 DEF Landing
  <2>6. QED  BY <2>1, <2>4, <2>5 DEF JobInv, Filing, Rekeying
<1>6. CASE Land
  <2> DEFINE Fine == [landed |-> TRUE, ok |-> TRUE]
  <2>1. PICK removed \in BOOLEAN, w \in Outcomes, back \in SUBSET Picked("restore") :
          /\ Picked("release") = {} => w = Fine
          /\ bank' = [bank EXCEPT !["orig"]  = IF Picked("remove") # {} /\ removed THEN 0 ELSE @,
                                  !["again"] = IF back # {} THEN @ + 1 ELSE @]
          /\ pc' = [k \in Keys |-> IF k \in Picked("release") THEN pc[k] - 1 ELSE pc[k]]
          /\ IF Picked("release") = {} THEN UNCHANGED <<card, dirty>>
             ELSE card' = (IF w.landed THEN pc' ELSE card) /\ dirty' = ~w.ok
          /\ job' = [at |-> "file", act |-> job.act,
                     out |-> back \cup Picked("delete") \cup
                             IF w.ok THEN Picked("release") ELSE {}]
    BY <1>6 DEF Land, Picked
  <2>2. job.at = "land" /\ DOMAIN job.act \subseteq Keys /\ ledger' = ledger /\ gone' = gone
    BY <1>6 DEF Land, TypeInv, JobTyped
  <2>3. job'.at = "file" /\ \A a : Picked(a)' = Picked(a)  BY <2>1 DEF Picked
  <2>4. \A a : Picked(a) \subseteq Keys  BY <2>2 DEF Picked
  <2>5. \A k \in Picked("promote") : card'[k] > 0
    <3>1. ASSUME NEW k \in Picked("promote") PROVE card'[k] > 0
      <4>1. k \notin Picked("release") /\ k \in Keys  BY <2>4 DEF Picked
      <4>2. card[k] > 0 /\ pc[k] > 0  BY <2>2 DEF JobInv, Landing
      <4>3. pc'[k] > 0  BY <2>1, <4>1, <4>2
      <4>4. QED  BY <2>1, <4>2, <4>3
    <3>2. QED  BY <3>1
  <2>6. bank' = [bank EXCEPT !["orig"] = bank'["orig"], !["again"] = bank'["again"]]
        /\ \A k \in Keys : bank'[k] = bank[k]
    BY <1>k, <2>1 DEF TypeInv, Typed
  <2>7. NoCopies /\ Picked("release") = {} => NoCopies'
    BY <2>1, <2>6 DEF NoCopies
  <2>8. NoCopies => Picked("release") = {}
    <3>1. \A k \in Picked("release") : pc[k] > 0  BY <2>2 DEF TypeInv, JobTyped
    <3>2. QED  BY <2>4, <3>1 DEF NoCopies
  <2>9. Choosing'  BY <2>2, <2>3, <2>7, <2>8 DEF JobInv, Choosing
  <2>10. job'.out # {} => gone \/ Native'
    <3>1. CASE back # {}
      <4>1. bank'["again"] = bank["again"] + 1  BY <1>k, <2>1, <3>1 DEF TypeInv, Typed
      <4>2. QED  BY <1>k, <1>b, <4>1 DEF Native, Some
    <3>2. CASE Picked("delete") # {}
      <4>1. \/ gone \/ CameHome \/ bank["again"] > 0
            \/ bank["orig"] > 0 /\ Picked("remove") = {}
        BY <2>2, <3>2 DEF JobInv, Landing
      <4>2. CameHome => CameHome'  BY HomeStays
      <4>3. bank["again"] > 0 => bank'["again"] > 0
        BY <1>k, <1>b, <2>1 DEF TypeInv, Typed
      <4>4. Picked("remove") = {} => bank'["orig"] = bank["orig"]
        BY <1>k, <2>1 DEF TypeInv, Typed
      <4>5. QED  BY <1>k, <4>1, <4>2, <4>3, <4>4 DEF Native, CameHome, Some
    <3>3. CASE Picked("release") # {}
      <4>1. CameHome
        BY <2>2, <2>4, <3>3 DEF JobInv, Choosing, HomeInv
      <4>2. CameHome'  BY <4>1, HomeStays
      <4>3. QED  BY <1>k, <4>2 DEF Native, CameHome
    <3>4. QED  BY <2>1, <3>1, <3>2, <3>3
  <2>11. Filing'
    <3>1. job'.out \subseteq Picked("delete") \cup Picked("restore") \cup Picked("release")
      BY <2>1
    <3>2. \A k \in Picked("promote") : Abroad'  BY <2>4, <2>5 DEF Abroad, Some
    <3>3. QED  BY <2>2, <2>3, <2>10, <3>1, <3>2 DEF Filing
  <2>12. QED  BY <2>3, <2>9, <2>11 DEF JobInv, Landing, Rekeying
<1>7. CASE File
  <2> DEFINE q == CHOOSE k \in Picked("rekey") : TRUE
  <2>1. PICK written : /\ written \subseteq job.out \cup Picked("promote")
                       /\ ledger' = [k \in Keys |->
                              IF k \in written \cap job.out THEN "none"
                              ELSE IF k \in written THEN "claimed" ELSE ledger[k]]
    BY <1>7 DEF File, Picked
  <2>2. job' = IF \E k \in Picked("rekey") : ledger'[Other(k)] = "none"
               THEN [at |-> "key", from |-> q, to |-> Other(q)] ELSE Idle
    BY <1>7 DEF File, Picked
  <2>3. CASE job' = Idle  BY <1>1, <2>3
  <2>4. ASSUME NEW k \in Picked("rekey"), ledger'[Other(k)] = "none"
        PROVE  JobInv'
    <3>1. job.at = "file" /\ k \in Keys /\ q \in Picked("rekey") /\ q \in Keys
      BY <1>7 DEF File, Picked, TypeInv, JobTyped
    <3>2. q = k
      <4>1. Other(k) \notin Picked("rekey")  BY <3>1 DEF JobInv, Choosing
      <4>2. QED  BY <1>k, <3>1, <4>1
    <3>3. ledger[k] # "none"  BY <3>1 DEF JobInv, Choosing
    <3>4. k \notin written
      BY <2>1, <3>1 DEF JobInv, Filing, Picked
    <3>5. ledger'[k] # "none"  BY <2>1, <3>1, <3>3, <3>4
    <3>6. job'.at = "key" /\ job'.from = k /\ job'.to = Other(k)
      BY <2>2, <2>4, <3>2
    <3>7. QED
      BY <2>4, <3>5, <3>6 DEF JobInv, Choosing, Landing, Filing, Rekeying
  <2>5. QED  BY <2>2, <2>3, <2>4
<1>8. CASE job = Idle /\ job' = job  BY <1>1, <1>8
<1>9. CASE UNCHANGED vars
  <2>1. /\ job' = job /\ ledger' = ledger /\ bank' = bank /\ gone' = gone
        /\ pc' = pc /\ card' = card /\ home' = home
    BY <1>9 DEF vars, files, session
  <2>2. /\ NoCopies' = NoCopies /\ Native' = Native /\ Abroad' = Abroad
        /\ CameHome' = CameHome
    BY <2>1 DEF NoCopies, Native, Abroad, CameHome, Some
  <2>3. \A a : Picked(a)' = Picked(a)  BY <2>1 DEF Picked
  <2>4. Choosing'  BY <2>1, <2>2, <2>3 DEF JobInv, Choosing
  <2>5. Landing'  BY <2>1, <2>2, <2>3 DEF JobInv, Landing
  <2>6. Filing'  BY <2>1, <2>2, <2>3 DEF JobInv, Filing
  <2>7. Rekeying'  BY <2>1 DEF JobInv, Rekeying
  <2>8. QED  BY <2>4, <2>5, <2>6, <2>7 DEF JobInv
<1>10. QED
  BY <1>1, <1>2, <1>3, <1>4, <1>5, <1>6, <1>7, <1>8, <1>9
     DEF XferNext, Spend, Drop, Park, Edit, Commit, Unpark, Release, Home, Lift, Trade,
         Flush, Decline, Crash, Rekey, session
-----------------------------------------------------------------------------
\* How the parts of Kept hang together.
Placed ==
  /\ \A c \in Cells : Left(c) => bank[c] > 0
  /\ \A c \in {"again", "merged"} : bank[c] > 0 => Left(c)
  /\ \A c \in Natives : bank[c] > 0 => Native
  /\ \A k \in Keys : bank[k] > 0 \/ card[k] > 0 => Abroad
  /\ \A c \in Cells : bank[c] \in Nat
  /\ \A k \in Keys : pc[k] \in Nat /\ card[k] \in Nat /\ k \in Cells /\ k # "orig"
  /\ Cells = Natives \cup Keys

\* They follow from the types.
LEMMA Places == TypeInv => Placed
<1> SUFFICES ASSUME TypeInv PROVE Placed  OBVIOUS
<1> USE DEF TypeInv, Typed
<1>1. \A c \in Cells : bank[c] \in Nat  BY XferAssumption
<1>2. \A k \in Keys : pc[k] \in Nat /\ card[k] \in Nat /\ k \in Cells  BY XferAssumption, OtherKey
<1>3. "again" \notin queue /\ "merged" \notin queue /\ "again" \in Cells /\ "merged" \in Cells
  BY OtherKey DEF Keys
<1>4. QED  BY <1>1, <1>2, <1>3, OtherKey DEF Placed, Left, Native, Abroad, Some, Cells

\* A Game Boy shape on the card outlives the deletions that wait: its own waits
\* only while a copy and an entry stand for it.
LEMMA NativeStays == TypeInv /\ Crossing /\ (gone \/ Native) => Stays
<1> SUFFICES ASSUME TypeInv, Crossing, gone \/ Native PROVE Stays  OBVIOUS
<1>1. CASE gone \/ home  BY <1>1 DEF Stays
<1>2. CASE bank["again"] > 0 \/ bank["merged"] > 0
  BY <1>2, Places, OtherKey DEF Placed, Stays
<1>3. CASE bank["orig"] > 0
  <2>1. CASE "orig" \in queue
    BY <2>1, Places DEF Placed, Crossing, Carried, Copy, Stays, Some
  <2>2. CASE "orig" \notin queue  BY <1>3, <2>2, OtherKey DEF Stays, Left
  <2>3. QED  BY <2>1, <2>2
<1>4. QED  BY <1>1, <1>2, <1>3 DEF Native, Natives, Some

\* The Pokemon stays on the card or in a record, and a transfer under way keeps
\* the copy and the entry that replace the original.
LEMMA KeptStep ==
  Meant /\ TypeInv /\ HomeInv /\ JobInv /\ Kept /\ Crossing /\ TypeInv' /\ [XferNext]_vars
    => Kept' /\ Crossing'
<1> SUFFICES ASSUME Meant, TypeInv, HomeInv, JobInv, Kept, Crossing, TypeInv', [XferNext]_vars
             PROVE  Kept' /\ Crossing'
  OBVIOUS
<1>k. /\ Keys \subseteq Cells /\ {"orig", "again", "merged"} \subseteq Cells
      /\ {"orig", "again", "merged"} = Natives
      /\ \A k \in Keys : Other(k) \in Keys /\ Other(k) # k /\ k \notin {"orig", "again", "merged"}
      /\ \A k, q \in Keys : q = k \/ q = Other(k)
      /\ \A k \in Keys : Other(Other(k)) = k
      /\ "born" \in Keys /\ "rolled" \in Keys /\ Other("born") = "rolled" /\ NoKey \notin Keys
      /\ "orig" # "again" /\ "orig" # "merged" /\ "again" # "merged"
  BY OtherKey DEF Keys, Natives
<1>p. /\ \A c \in Cells : Left(c) => bank[c] > 0
      /\ \A c \in {"again", "merged"} : bank[c] > 0 => Left(c)
      /\ \A c \in Natives : bank[c] > 0 => Native
      /\ \A k \in Keys : bank[k] > 0 \/ card[k] > 0 => Abroad
      /\ \A c \in Cells : bank[c] \in Nat
      /\ \A k \in Keys : pc[k] \in Nat /\ card[k] \in Nat /\ k \in Cells /\ k # "orig"
      /\ Cells = Natives \cup Keys
  BY Places DEF Placed
<1>q. /\ \A c \in Cells : Left(c)' => bank'[c] > 0
      /\ \A c \in {"again", "merged"} : bank'[c] > 0 => Left(c)'
      /\ \A c \in Natives : bank'[c] > 0 => Native'
      /\ \A k \in Keys : bank'[k] > 0 \/ card'[k] > 0 => Abroad'
      /\ \A c \in Cells : bank'[c] \in Nat
      /\ \A k \in Keys : pc'[k] \in Nat /\ card'[k] \in Nat
  <2>1. Placed'  BY Places, PTL
  <2>2. QED  BY <2>1 DEF Placed
<1>t. /\ bank \in [Cells -> 0 .. Most] /\ pc \in [Keys -> 0 .. Most]
      /\ card \in [Keys -> 0 .. Most] /\ ledger \in [Keys -> States]
      /\ queue \subseteq {"orig"} \cup Keys /\ (\A c \in queue : bank[c] > 0)
      /\ bank["orig"] <= 1 /\ pend \in Keys \cup {NoKey}
  BY DEF TypeInv, Typed
\* The three ways out.
<1>g. gone' /\ UNCHANGED <<bank, pend, queue>> => Kept' /\ Crossing'
  BY DEF Kept, IsSafe, Stays, Crossing
<1>v. pend' = NoKey /\ queue' = {} => Crossing'  BY DEF Crossing
<1>a. Native' => IsSafe'  BY DEF IsSafe
<1>d. Abroad' => IsSafe'  BY DEF IsSafe
<1>e. \A c \in Cells : Left(c)' => Stays'  BY DEF Stays
<1>f. \A k \in Keys : pc'[k] > 0 => Stays'  BY DEF Stays, Some
<1>w. \A c \in Cells : bank[c] > 0 /\ c \notin queue => Left(c)  BY DEF Left
\* With the image on the card what stays is on the card.
<1>c. Stays /\ pc = card => IsSafe
  BY <1>p DEF Stays, IsSafe, Native, Some
<1>1. CASE Drop
  <2>1. /\ pend = NoKey /\ "orig" \notin queue /\ bank["orig"] > 0
        /\ UNCHANGED <<bank, card, home, job, gone>>
        /\ \E w \in Outcomes :
             /\ ledger' = IF w.landed THEN Entry("born", "pending") ELSE ledger
             /\ IF w.ok
                THEN /\ pc' = More(pc, "born") /\ dirty' = TRUE
                     /\ pend' = "born" /\ queue' = queue \cup {"orig"}
                ELSE UNCHANGED <<pc, dirty, pend, queue>>
    BY <1>1 DEF Drop, Some
  <2>2. CASE ledger' = ledger /\ UNCHANGED <<pc, pend, queue>>
    BY <2>1, <2>2 DEF Kept, Crossing, IsSafe, Stays, Native, Abroad, Some, Left, Holds
  <2>3. CASE ledger' = Entry("born", "pending")
    <3>1. ledger'["born"] = "pending"  BY <1>k, <1>t, <2>3 DEF Entry
    <3>2. Holds("born")'  BY <3>1 DEF Holds
    <3>3. Kept'  BY <1>k, <3>2 DEF Kept
    <3>4. CASE UNCHANGED <<pc, pend, queue>>
      BY <2>1, <3>3, <3>4 DEF Crossing
    <3>5. CASE pc' = More(pc, "born") /\ queue' = queue \cup {"orig"}
      <4>1. pc'["born"] > 0  BY <1>k, <1>t, <1>p, <3>5 DEF More
      <4>2. Carried("born")'  BY <3>2, <4>1 DEF Carried, Copy
      <4>3. IsSafe'  BY <1>k, <1>q, <1>a, <2>1
      <4>4. QED  BY <1>k, <3>3, <3>5, <4>2, <4>3 DEF Crossing
    <3>6. QED  BY <2>1, <3>4, <3>5
  <2>4. \A w \in Outcomes : w.ok => w.landed  BY DEF Outcomes
  <2>5. QED  BY <2>1, <2>2, <2>3, <2>4
<1>2. ASSUME NEW k \in Keys, Park(k) PROVE Kept' /\ Crossing'
  <2>1. /\ UNCHANGED <<card, home, ledger, pend, queue, gone>>
        /\ bank' = More(bank, k) /\ pc' = Less(pc, k)
    BY <1>2 DEF Park
  <2>2. bank'[k] = bank[k] + 1 /\ \A c \in Cells : c # k => bank'[c] = bank[c]
    BY <1>k, <1>t, <2>1 DEF More
  <2>3. \A q \in Keys : q # k => pc'[q] = pc[q]  BY <1>t, <2>1 DEF Less
  <2>4. Left(k)' /\ \A c \in Cells : Left(c) => Left(c)'
    <3>1. Left(k)'  BY <1>k, <1>p, <1>t, <2>1, <2>2 DEF Left
    <3>2. QED  BY <2>1, <2>2, <3>1 DEF Left
  <2>5. \A q \in Keys : Carried(q) => Carried(q)'
    BY <1>k, <2>1, <2>3, <2>4 DEF Carried, Copy, Holds
  <2>6. IsSafe' /\ Stays'
    BY <1>k, <1>p, <1>q, <1>d, <1>e, <2>2, <2>4
  <2>7. QED  BY <1>k, <2>1, <2>2, <2>5, <2>6 DEF Kept, Crossing
<1>3. ASSUME NEW k \in Keys, Unpark(k) PROVE Kept' /\ Crossing'
  <2>1. /\ UNCHANGED <<bank, card, home, ledger, pend, gone>> /\ bank[k] > 0
        /\ queue' = queue \cup {k} /\ pc' = More(pc, k)
    BY <1>3 DEF Unpark, files, Some
  <2>2. pc'[k] > 0 /\ \A q \in Keys : pc'[q] >= pc[q]
    BY <1>t, <1>p, <2>1 DEF More
  <2>3. \A q \in Keys : Copy(q) => Copy(q)'
    BY <1>p, <1>q, <2>1, <2>2 DEF Copy, Left
  <2>4. \A q \in Keys : Carried(q) => Carried(q)'
    BY <2>1, <2>3 DEF Carried, Holds
  <2>5. IsSafe' /\ Stays'  BY <1>q, <1>d, <1>f, <2>1, <2>2
  <2>6. QED  BY <1>k, <2>1, <2>4, <2>5 DEF Kept, Crossing
<1>4. ASSUME NEW k \in Keys, Release(k) PROVE Kept' /\ Crossing'
  <2>1. gone' /\ UNCHANGED <<bank, card, home, pend, queue>>  BY <1>4 DEF Release, files
  <2>2. QED  BY <2>1 DEF Kept, IsSafe, Stays, Crossing
<1>5. CASE Edit
  BY <1>5 DEF Edit, files, Kept, Crossing, Carried, Copy, IsSafe, Stays, Native, Abroad, Some,
     Left, Holds
<1>6. CASE Commit
  <2>1. card' = pc /\ UNCHANGED <<bank, home, ledger, pc, pend, queue, gone>>
    BY <1>6 DEF Commit
  <2>2. Stays => IsSafe' /\ Stays'
    <3>1. Stays => Stays'  BY <2>1 DEF Stays, Left, Some
    <3>2. Stays => IsSafe'
      BY <1>p, <1>q, <2>1 DEF Stays, IsSafe, Native, Some
    <3>3. QED  BY <3>1, <3>2
  <2>3. \A k \in Keys : Holds(k)' = Holds(k) /\ Carried(k)' = Carried(k)
    BY <2>1 DEF Holds, Carried, Copy, Left
  <2>4. pend # NoKey => Stays
    BY <1>p DEF Crossing, Carried, Copy, Stays, Some
  <2>5. QED  BY <2>1, <2>2, <2>3, <2>4 DEF Kept, Crossing
<1>7. CASE Reroll
  <2>1. /\ ledger["born"] = "none" \/ ledger["rolled"] = "none"
        /\ pc' = Less(More(pc, "rolled"), "born")
        /\ card' = pc' \/ card' = card
        /\ UNCHANGED <<bank, home, ledger, pend, queue, gone>>
    BY <1>7 DEF Reroll
  <2>2. pc'["rolled"] > 0
    BY <1>k, <1>t, <1>p, <2>1 DEF Less, More, Keys
  <2>3. Copy("rolled")' /\ Stays'  BY <1>k, <1>f, <2>2 DEF Copy
  <2>4. IsSafe => IsSafe'
    <3>1. CASE card' = pc'  BY <1>k, <1>q, <1>d, <2>2, <3>1
    <3>2. CASE card' = card
      BY <2>1, <3>2 DEF IsSafe, Native, Abroad, Some
    <3>3. QED  BY <2>1, <3>1, <3>2
  <2>5. \A k \in Keys : Holds(k)' = Holds(k) /\ ledger'[k] = ledger[k]  BY <2>1 DEF Holds
  <2>6. ASSUME NEW k \in Keys, Carried(k) PROVE Carried("rolled")'
    <3>1. Holds(k) \/ Holds(Other(k))  BY <2>6 DEF Carried
    <3>2. Holds("born") \/ Holds("rolled")  BY <1>k, <3>1 DEF Keys
    <3>3. Holds("rolled") \/ (ledger["rolled"] = "none" /\ Holds("born"))
      BY <2>1, <3>2 DEF Holds
    <3>4. Other("rolled") = "born"  BY OtherKey
    <3>5. QED  BY <1>k, <2>3, <2>5, <3>3, <3>4 DEF Carried
  <2>7. QED  BY <1>k, <2>1, <2>3, <2>4, <2>5, <2>6 DEF Kept, Crossing
<1>8. ASSUME NEW k \in Keys, Home(k) PROVE Kept' /\ Crossing'
  <2>1. home' /\ pend' = NoKey /\ queue' = {}  BY <1>8 DEF Home, Fresh, session
  <2>2. QED  BY <2>1, <1>v DEF Kept, IsSafe, Native, Stays
<1>9. CASE Lift
  <2>1. /\ pend' = NoKey /\ queue' = {} /\ bank' = More(bank, "merged")
    BY <1>9 DEF Lift, Fresh, session
  <2>2. bank'["merged"] > 0  BY <1>k, <1>t, <1>p, <2>1 DEF More
  <2>3. IsSafe' /\ Stays'  BY <1>k, <1>q, <1>a, <1>e, <2>2
  <2>4. QED  BY <1>v, <2>1, <2>3 DEF Kept
<1>10. ASSUME NEW k \in Keys, Trade(k) PROVE Kept' /\ Crossing'
  <2>1. gone' /\ UNCHANGED <<bank, home, pend, queue>>  BY <1>10 DEF Trade
  <2>2. QED  BY <2>1 DEF Kept, IsSafe, Stays, Crossing
<1>11. CASE Save
  <2>1. /\ card' = pc \/ card' = card
        /\ pend' = pend \/ pend' = NoKey
        /\ UNCHANGED <<bank, home, ledger, pc, queue, gone>>
    BY <1>11 DEF Save
  <2>2. Stays => Stays'  BY <2>1 DEF Stays, Left, Some
  <2>3. Stays /\ IsSafe => IsSafe'
    <3>1. CASE card' = pc
      BY <1>p, <1>q, <2>1, <3>1 DEF Stays, IsSafe, Native, Some
    <3>2. CASE card' = card  BY <2>1, <3>2 DEF IsSafe, Native, Abroad, Some
    <3>3. QED  BY <2>1, <3>1, <3>2
  <2>4. \A k \in Keys : Holds(k)' = Holds(k) /\ Carried(k)' = Carried(k)
    BY <2>1 DEF Holds, Carried, Copy, Left
  <2>5. pend # NoKey => Stays
    BY <1>p DEF Crossing, Carried, Copy, Stays, Some
  <2>6. QED  BY <2>1, <2>2, <2>3, <2>4, <2>5 DEF Kept, Crossing
<1>12. CASE Promote
  <2>1. UNCHANGED <<bank, card, home, pc, queue, gone>>  BY <1>12 DEF Promote
  <2>2. /\ pend' = pend \/ pend' = NoKey
        /\ \/ ledger' = ledger
           \/ pend \in Keys /\ ledger[pend] = "pending" /\ ledger' = Entry(pend, "claimed")
    <3>1. CASE pend = NoKey  BY <1>12, <3>1 DEF Promote
    <3>2. CASE pend # NoKey
      <4>1. pend \in Keys /\ ledger[pend] \in {"none", "pending", "claimed", "restored"}
        BY <1>t, <3>2 DEF States
      <4>2. CASE ledger[pend] = "none"  BY <1>12, <3>2, <4>2 DEF Promote
      <4>3. CASE ledger[pend] \in {"claimed", "restored"}
        BY <1>12, <3>2, <4>3 DEF Promote
      <4>4. CASE ledger[pend] = "pending"
        BY <1>12, <3>2, <4>1, <4>4 DEF Promote
      <4>5. QED  BY <4>1, <4>2, <4>3, <4>4
    <3>3. QED  BY <3>1, <3>2
  <2>3. \A k \in Keys : Holds(k)' = Holds(k) /\ (ledger[k] = "none" => ledger'[k] = "none")
    BY <1>t, <2>2 DEF Holds, Entry
  <2>4. \A k \in Keys : Carried(k) => Carried(k)'
    BY <1>k, <2>1, <2>3 DEF Carried, Copy, Left
  <2>5. (IsSafe => IsSafe') /\ (Stays => Stays')
    BY <2>1 DEF IsSafe, Stays, Native, Abroad, Some, Left
  <2>6. QED  BY <2>1, <2>2, <2>3, <2>4, <2>5 DEF Kept, Crossing
<1>13. CASE Flush
  <2>1. PICK kept \in SUBSET queue :
          /\ queue' = kept
          /\ bank' = [c \in Cells |->
                      IF c \in queue \ kept /\ bank[c] > 0 THEN bank[c] - 1 ELSE bank[c]]
    BY <1>13 DEF Flush
  <2>2. /\ UNCHANGED <<card, home, ledger, pc, pend, gone>> /\ pc = card
    BY <1>13 DEF Flush, TypeInv, Synced
  <2>3. \A c \in Cells : Left(c) => Left(c)'  BY <1>p, <2>1 DEF Left
  <2>4. Stays => Stays'  BY <2>2, <2>3 DEF Stays, Some
  <2>5. Stays => IsSafe'
    <3>1. Stays' => IsSafe'
      BY <1>q, <1>p, <2>2 DEF Stays, IsSafe, Native, Some
    <3>2. QED  BY <2>4, <3>1
  <2>6. \A k \in Keys : Holds(k)' = Holds(k) /\ (Carried(k) => Carried(k)')
    BY <1>k, <2>2, <2>3 DEF Holds, Carried, Copy
  <2>7. pend # NoKey => Stays
    BY <1>p DEF Crossing, Carried, Copy, Stays, Some
  <2>8. bank["orig"] = 0 \/ "orig" \in queue => bank'["orig"] = 0 \/ "orig" \in queue'
    BY <1>k, <1>p, <1>t, <2>1
  <2>9. "orig" \in queue' => "orig" \in queue  BY <2>1
  <2>10. Kept'  BY <2>4, <2>5, <2>6 DEF Kept
  <2>11. Crossing'  BY <2>2, <2>5, <2>6, <2>7, <2>8, <2>9 DEF Crossing
  <2>12. QED  BY <2>10, <2>11
<1>14. CASE Decline
  <2>1. /\ pend' = NoKey /\ queue' = {} /\ pc' = card
        /\ UNCHANGED <<bank, card, home, gone>>
        /\ ledger' = ledger \/ pend # NoKey
    BY <1>14 DEF Decline
  <2>2. IsSafe => IsSafe' /\ Stays'
    <3>1. IsSafe => IsSafe'  BY <2>1 DEF IsSafe, Native, Abroad, Some
    <3>2. \A c \in Cells : bank[c] > 0 => Left(c)'  BY <2>1 DEF Left
    <3>3. IsSafe => Stays'
      BY <1>k, <2>1, <3>2 DEF IsSafe, Native, Abroad, Stays, Some
    <3>4. QED  BY <3>1, <3>3
  <2>3. CASE pend # NoKey  BY <1>v, <2>1, <2>2, <2>3 DEF Crossing, Kept
  <2>4. CASE ledger' = ledger
    <3>1. \A k \in Keys : Holds(k)' = Holds(k)  BY <2>4 DEF Holds
    <3>2. QED  BY <1>v, <2>1, <2>2, <3>1 DEF Kept
  <2>5. QED  BY <2>1, <2>3, <2>4
<1>15. CASE Crash
  <2>1. /\ pend' = NoKey /\ queue' = {} /\ pc' = card
        /\ UNCHANGED <<bank, card, home, gone, ledger>>
    BY <1>15 DEF Crash, files
  <2>2. IsSafe => IsSafe' /\ Stays'
    <3>1. IsSafe => IsSafe'  BY <2>1 DEF IsSafe, Native, Abroad, Some
    <3>2. \A c \in Cells : bank[c] > 0 => Left(c)'  BY <2>1 DEF Left
    <3>3. IsSafe => Stays'
      BY <1>k, <2>1, <3>2 DEF IsSafe, Native, Abroad, Stays, Some
    <3>4. QED  BY <3>1, <3>3
  <2>3. \A k \in Keys : Holds(k)' = Holds(k)  BY <2>1 DEF Holds
  <2>4. QED  BY <1>v, <2>1, <2>2, <2>3 DEF Kept
<1>16. CASE Choose
  <2>1. UNCHANGED <<files, pc, pend, queue>> /\ (gone => gone')  BY <1>16, Chosen
  <2>2. QED
    BY <2>1 DEF files, Kept, Crossing, Carried, Copy, IsSafe, Stays, Native, Abroad, Some,
       Left, Holds
<1>17. CASE Land
  <2>1. PICK removed \in BOOLEAN, w \in Outcomes, back \in SUBSET Picked("restore") :
          /\ bank' = [bank EXCEPT !["orig"]  = IF Picked("remove") # {} /\ removed THEN 0 ELSE @,
                                  !["again"] = IF back # {} THEN @ + 1 ELSE @]
          /\ pc' = [k \in Keys |-> IF k \in Picked("release") THEN pc[k] - 1 ELSE pc[k]]
          /\ Picked("release") = {} => card' = card
    BY <1>17 DEF Land, Picked
  <2>2. /\ job.at = "land" /\ DOMAIN job.act \subseteq Keys
        /\ UNCHANGED <<home, ledger, pend, queue, gone>>
    BY <1>17 DEF Land, TypeInv, JobTyped
  <2>3. \A a : Picked(a) \subseteq Keys  BY <2>2 DEF Picked
  <2>4. /\ \A c \in Cells : c \notin {"orig", "again"} => bank'[c] = bank[c]
        /\ bank'["again"] >= bank["again"]
        /\ bank'["orig"] <= bank["orig"]
        /\ Picked("remove") = {} => bank'["orig"] = bank["orig"]
    BY <1>k, <1>t, <1>p, <2>1
  <2>5. CameHome => IsSafe' /\ Stays'
    <3>1. CameHome => CameHome'  BY HomeStays
    <3>2. CameHome' => IsSafe' /\ Stays'
      BY <1>k, <1>q, <1>e DEF CameHome, IsSafe, Native, Stays, Some
    <3>3. QED  BY <3>1, <3>2
  <2>6. Picked("release") # {} => CameHome
    BY <2>2, <2>3 DEF JobInv, Choosing, HomeInv
  <2>7. Picked("release") = {} => card' = card /\ \A k \in Keys : pc'[k] = pc[k]
    BY <2>1
  <2>8. ASSUME Picked("release") = {}, Picked("remove") = {}
        PROVE  (IsSafe => IsSafe') /\ (Stays => Stays')
    <3>1. \A c \in Cells : (bank[c] > 0 => bank'[c] > 0) /\ (Left(c) => Left(c)')
      BY <1>p, <1>q, <2>2, <2>4, <2>8 DEF Left
    <3>2. IsSafe => IsSafe'
      BY <1>k, <2>2, <2>7, <2>8, <3>1 DEF IsSafe, Native, Abroad, Some
    <3>3. Stays => Stays'  BY <2>2, <2>7, <2>8, <3>1 DEF Stays, Some
    <3>4. QED  BY <3>2, <3>3
  <2>9. Picked("remove") # {} => \E k \in Keys : Holds(k)
    BY <2>2, <2>3 DEF JobInv, Landing, Holds
  <2>10. \A k \in Keys : Holds(k)' = Holds(k) /\ ledger'[k] = ledger[k]  BY <2>2 DEF Holds
  <2>11. Kept'  BY <2>5, <2>6, <2>8, <2>9, <2>10 DEF Kept
  <2>12. \A k \in Keys : Carried(k) => Carried(k)'
    <3>1. ASSUME NEW k \in Keys, Carried(k) PROVE Carried(k)'
      <4>1. ledger[k] # "restored"  BY <3>1 DEF Carried, Holds
      <4>2. k \notin Picked("release")  BY <2>2, <4>1 DEF JobInv, Choosing
      <4>3. pc'[k] = pc[k] /\ bank'[k] = bank[k]  BY <1>k, <2>1, <2>4, <4>2
      <4>4. QED  BY <1>k, <2>2, <2>10, <3>1, <4>3 DEF Carried, Copy, Left
    <3>2. QED  BY <3>1
  <2>13. pend # NoKey => IsSafe'
    <3>1. CASE Picked("remove") = {}  BY <2>5, <2>6, <2>8, <3>1 DEF Crossing
    <3>2. CASE Picked("remove") # {} /\ Picked("release") = {} /\ pend # NoKey
      <4>1. bank["orig"] = 0
        BY <2>2, <3>2 DEF Crossing, TypeInv, JobTyped
      <4>2. IsSafe  BY <3>2 DEF Crossing
      <4>3. \A c \in Cells : bank[c] > 0 => bank'[c] > 0
        BY <1>p, <1>q, <2>4, <4>1
      <4>4. QED
        BY <1>k, <2>2, <2>7, <3>2, <4>2, <4>3 DEF IsSafe, Native, Abroad, Some
    <3>3. QED  BY <2>5, <2>6, <3>1, <3>2
  <2>14. Crossing'
    <3>1. bank["orig"] = 0 => bank'["orig"] = 0  BY <1>k, <1>q, <2>4
    <3>2. QED  BY <2>2, <2>12, <2>13, <3>1 DEF Crossing
  <2>15. QED  BY <2>11, <2>14
<1>18. CASE File
  <2>1. PICK written : /\ written \subseteq job.out \cup
                            {k \in Picked("promote") : ledger[k] = "pending"}
                       /\ ledger' = [k \in Keys |->
                              IF k \in written \cap job.out THEN "none"
                              ELSE IF k \in written THEN "claimed" ELSE ledger[k]]
    BY <1>18 DEF File, Picked
  <2>2. /\ job.at = "file" /\ UNCHANGED <<bank, card, home, pc, pend, queue, gone>>
    BY <1>18 DEF File
  <2>3. /\ job.out \subseteq Picked("delete") \cup Picked("restore") \cup Picked("release")
        /\ job.out # {} => gone \/ Native
        /\ \A k \in Picked("release") : ledger[k] = "restored"
        /\ Picked("delete") \cup Picked("restore") # {} => NoCopies
    BY <2>2 DEF JobInv, Filing, Choosing
  <2>4. \A k \in Keys \ job.out : Holds(k)' = Holds(k) /\ (ledger[k] = "none" => ledger'[k] = "none")
    BY <2>1 DEF Holds
  <2>5. (IsSafe => IsSafe') /\ (Stays => Stays')
    BY <2>2 DEF IsSafe, Stays, Native, Abroad, Some, Left
  <2>6. Kept'
    <3>1. CASE job.out # {}
      <4>1. IsSafe /\ Stays  BY <2>3, <3>1, NativeStays DEF IsSafe
      <4>2. QED  BY <2>5, <4>1 DEF Kept
    <3>2. CASE job.out = {}  BY <2>4, <2>5, <3>2 DEF Kept
    <3>3. QED  BY <3>1, <3>2
  <2>7. \A k \in Keys : Carried(k) => Carried(k)'
    <3>1. ASSUME NEW k \in Keys, Carried(k) PROVE Carried(k)'
      <4>1. ~NoCopies  BY <1>k, <1>p, <3>1 DEF Carried, Copy, NoCopies
      <4>2. \A q \in job.out : ledger[q] = "restored"  BY <2>3, <4>1
      <4>3. k \notin job.out  BY <3>1, <4>2 DEF Carried, Holds
      <4>4. Copy(k)'  BY <2>2, <3>1 DEF Carried, Copy, Left
      <4>5. CASE Holds(k)  BY <2>4, <4>3, <4>4, <4>5 DEF Carried
      <4>6. CASE ledger[k] = "none" /\ Holds(Other(k))
        <5>1. Other(k) \in Keys \ job.out  BY <1>k, <4>2, <4>6 DEF Holds
        <5>2. QED  BY <2>4, <4>3, <4>4, <4>6, <5>1 DEF Carried
      <4>7. QED  BY <3>1, <4>5, <4>6 DEF Carried
    <3>2. QED  BY <3>1
  <2>8. Crossing'  BY <2>2, <2>5, <2>7 DEF Crossing
  <2>9. QED  BY <2>6, <2>8
<1>19. CASE Rekey
  <2>1. PICK from \in Keys, to \in Keys :
          /\ from = job.from /\ to = job.to
          /\ to = Other(from) /\ from # to /\ from = Other(to)
          /\ ledger[to] = "none" /\ ledger[from] # "none"
    BY <1>19, <1>k DEF Rekey, TypeInv, JobTyped, JobInv, Rekeying
  <2>2. UNCHANGED <<bank, card, home, pc, pend, queue, gone>>  BY <1>19 DEF Rekey
  <2>3. \/ ledger'[from] = ledger[from] /\ ledger'[to] = "none"
        \/ ledger'[from] = ledger[from] /\ ledger'[to] = ledger[from]
        \/ ledger'[from] = "none" /\ ledger'[to] = ledger[from]
    <3>1. \A w \in Outcomes : w.ok => w.landed  BY DEF Outcomes
    <3>2. QED  BY <1>19, <2>1, <3>1 DEF Rekey
  <2>4. \A k \in Keys : k = from \/ k = to  BY <1>k, <2>1
  <2>5. (IsSafe => IsSafe') /\ (Stays => Stays')
    BY <2>2 DEF IsSafe, Stays, Native, Abroad, Some, Left
  <2>6. \A k \in Keys : Copy(k)' = Copy(k)  BY <2>2 DEF Copy, Left
  <2>7. (\E k \in Keys : Holds(k)) => Holds(from)  BY <2>1, <2>4 DEF Holds
  <2>8. Holds(from) => Holds(from)' \/ Holds(to)'  BY <2>3 DEF Holds
  <2>9. \A k \in Keys : Carried(k) => Carried(k)'
    <3>1. ASSUME NEW k \in Keys, Carried(k) PROVE Carried(k)'
      <4>1. Holds(from) /\ Copy(k)'  BY <1>k, <2>6, <2>7, <3>1 DEF Carried
      <4>2. CASE k = from  BY <2>1, <2>3, <4>1, <4>2 DEF Carried, Holds
      <4>3. CASE k = to  BY <2>1, <2>3, <4>1, <4>3 DEF Carried, Holds
      <4>4. QED  BY <2>4, <4>2, <4>3
    <3>2. QED  BY <3>1
  <2>10. QED  BY <2>1, <2>2, <2>5, <2>7, <2>8, <2>9 DEF Kept, Crossing
<1>20. CASE UNCHANGED vars
  BY <1>20 DEF vars, files, session, Kept, Crossing, Carried, Copy, IsSafe, Stays, Native,
     Abroad, Some, Left, Holds
<1>21. QED
  BY <1>1, <1>2, <1>3, <1>4, <1>5, <1>6, <1>7, <1>8, <1>9, <1>10, <1>11, <1>12, <1>13,
     <1>14, <1>15, <1>16, <1>17, <1>18, <1>19, <1>20 DEF XferNext
-----------------------------------------------------------------------------
\* No handler leaves a pair of twins without a record.
LEMMA TwinStep ==
  Meant /\ TypeInv /\ HomeInv /\ JobInv /\ TwinInv /\ [XferNext]_vars => TwinInv'
<1> SUFFICES ASSUME Meant, TypeInv, HomeInv, JobInv, TwinInv, [XferNext]_vars,
                    ~CameHome', Native', Abroad' \/ \E k \in Keys : pc'[k] > 0
             PROVE  \E k \in Keys : ledger'[k] # "none"
  BY DEF TwinInv
<1> DEFINE Out == Abroad \/ \E k \in Keys : pc[k] > 0
<1>k. /\ Keys \subseteq Cells /\ {"orig", "again", "merged"} \subseteq Cells
      /\ {"orig", "again", "merged"} = Natives
      /\ \A k \in Keys : k \notin {"orig", "again", "merged"}
      /\ \A k, q \in Keys : q = k \/ q = Other(k)
      /\ "born" \in Keys /\ "rolled" \in Keys /\ NoKey \notin Keys
      /\ "orig" # "again" /\ "orig" # "merged" /\ "again" # "merged"
  BY OtherKey DEF Keys, Natives
<1>t. /\ bank \in [Cells -> 0 .. Most] /\ pc \in [Keys -> 0 .. Most]
      /\ card \in [Keys -> 0 .. Most] /\ ledger \in [Keys -> States]
      /\ \A c \in Cells : bank[c] \in Nat
      /\ \A k \in Keys : pc[k] \in Nat /\ card[k] \in Nat
      /\ pend \in Keys \cup {NoKey}
  BY Places DEF TypeInv, Typed, Placed
<1>h. ~CameHome /\ \A k \in Keys : ledger[k] # "restored"  BY HomeStays DEF HomeInv
<1>r. Native /\ Out => \E k \in Keys : ledger[k] # "none"  BY <1>h DEF TwinInv
<1>n. bank["orig"] > 0 \/ bank["again"] > 0 => Native
  BY <1>k DEF Native, Some
<1>o. bank'["orig"] > 0 \/ bank'["again"] > 0
  BY <1>k DEF Native, CameHome, Some
<1>1. CASE Drop
  <2>1. CASE ledger' = Entry("born", "pending")
    <3>1. ledger'["born"] = "pending"  BY <1>k, <1>t, <2>1 DEF Entry
    <3>2. QED  BY <1>k, <3>1
  <2>2. CASE ledger' # Entry("born", "pending")
    <3>1. \A w \in Outcomes : w.ok => w.landed  BY DEF Outcomes
    <3>2. UNCHANGED <<bank, card, home, pc, ledger>>  BY <1>1, <2>2, <3>1 DEF Drop
    <3>3. QED  BY <1>r, <3>2 DEF Native, Abroad, Some
  <2>3. QED  BY <2>1, <2>2
<1>2. ASSUME NEW k \in Keys, Park(k) PROVE \E q \in Keys : ledger'[q] # "none"
  <2>1. ledger' = ledger /\ pc[k] > 0 /\ bank' = More(bank, k)  BY <1>2 DEF Park, Some
  <2>2. bank'["orig"] = bank["orig"] /\ bank'["again"] = bank["again"]
    BY <1>k, <1>t, <2>1 DEF More
  <2>3. QED  BY <1>r, <1>n, <1>o, <2>1, <2>2
<1>3. ASSUME NEW k \in Keys, Unpark(k) PROVE \E q \in Keys : ledger'[q] # "none"
  <2>1. UNCHANGED <<bank, card, home, ledger>> /\ bank[k] > 0  BY <1>3 DEF Unpark, files, Some
  <2>2. QED  BY <1>r, <1>n, <1>o, <2>1 DEF Abroad, Some
<1>4. ASSUME NEW k \in Keys, Release(k) PROVE \E q \in Keys : ledger'[q] # "none"
  <2>1. UNCHANGED <<bank, card, home, ledger>> /\ pc[k] > 0  BY <1>4 DEF Release, files, Some
  <2>2. QED  BY <1>r, <1>n, <1>o, <2>1
<1>5. CASE Edit
  BY <1>5, <1>r DEF Edit, files, Native, Abroad, Some
<1>6. CASE Commit
  BY <1>6, <1>r DEF Commit, Native, Abroad, Some
<1>7. CASE Reroll
  <2>1. UNCHANGED <<bank, home, ledger>> /\ pc["born"] > 0  BY <1>7 DEF Reroll, Some
  <2>2. QED  BY <1>k, <1>r, <1>n, <1>o, <2>1
<1>8. ASSUME NEW k \in Keys, Home(k) PROVE \E q \in Keys : ledger'[q] # "none"
  BY <1>8 DEF Home, CameHome
<1>9. CASE Lift
  <2>1. bank'["merged"] > 0  BY <1>9, <1>k, <1>t DEF Lift, More
  <2>2. QED  BY <2>1 DEF CameHome, Some
<1>10. ASSUME NEW k \in Keys, Trade(k) PROVE \E q \in Keys : ledger'[q] # "none"
  <2>1. UNCHANGED <<bank, home, ledger>> /\ card[k] > 0  BY <1>10 DEF Trade, Some
  <2>2. Abroad  BY <2>1 DEF Abroad, Some
  <2>3. QED  BY <1>r, <1>n, <1>o, <2>1, <2>2
<1>11. CASE Save
  <2>1. (card' = pc \/ card' = card) /\ UNCHANGED <<bank, home, ledger, pc>>
    BY <1>11 DEF Save
  <2>2. QED  BY <1>r, <2>1 DEF Native, Abroad, Some
<1>12. CASE Promote
  <2>1. UNCHANGED <<bank, card, home, pc>>  BY <1>12 DEF Promote
  <2>2. \/ ledger' = ledger
        \/ pend \in Keys /\ ledger' = Entry(pend, "claimed")
    <3>1. CASE pend = NoKey  BY <1>12, <3>1 DEF Promote
    <3>2. CASE pend # NoKey
      <4>1. pend \in Keys /\ ledger[pend] \in {"none", "pending", "claimed", "restored"}
        BY <1>t, <3>2 DEF States
      <4>2. CASE ledger[pend] = "none"  BY <1>12, <3>2, <4>2 DEF Promote
      <4>3. CASE ledger[pend] \in {"claimed", "restored"}
        BY <1>12, <3>2, <4>3 DEF Promote
      <4>4. CASE ledger[pend] = "pending"
        BY <1>12, <3>2, <4>1, <4>4 DEF Promote
      <4>5. QED  BY <4>1, <4>2, <4>3, <4>4
    <3>3. QED  BY <3>1, <3>2
  <2>3. QED  BY <1>t, <1>r, <2>1, <2>2 DEF Entry, Native, Abroad, Some
<1>13. CASE Flush
  <2>1. /\ UNCHANGED <<card, home, ledger, pc>>
        /\ \A c \in Cells : bank'[c] > 0 => bank[c] > 0
    BY <1>13, <1>t DEF Flush
  <2>2. Abroad' => Abroad  BY <1>k, <2>1 DEF Abroad, Some
  <2>3. QED  BY <1>k, <1>r, <1>n, <1>o, <2>1, <2>2
<1>14. CASE Decline
  <2>1. pend # NoKey => ~Abroad  BY <1>14 DEF Decline, Meant
  <2>2. UNCHANGED <<bank, card, home>> /\ pc' = card  BY <1>14 DEF Decline
  <2>3. Abroad  BY <2>2 DEF Abroad, Some
  <2>4. ledger' = ledger  BY <1>14, <2>1, <2>3 DEF Decline
  <2>5. QED  BY <1>r, <1>n, <1>o, <2>2, <2>3, <2>4
<1>15. CASE Crash
  BY <1>15, <1>r DEF Crash, files, Native, Abroad, Some
<1>16. CASE Choose
  <2>1. UNCHANGED <<files, pc>>  BY <1>16, Chosen
  <2>2. QED  BY <1>r, <2>1 DEF files, Native, Abroad, Some
<1>17. CASE Land
  <2>1. PICK removed \in BOOLEAN, w \in Outcomes, back \in SUBSET Picked("restore") :
          /\ bank' = [bank EXCEPT !["orig"]  = IF Picked("remove") # {} /\ removed THEN 0 ELSE @,
                                  !["again"] = IF back # {} THEN @ + 1 ELSE @]
          /\ pc' = [k \in Keys |-> IF k \in Picked("release") THEN pc[k] - 1 ELSE pc[k]]
          /\ Picked("release") = {} => card' = card
    BY <1>17 DEF Land, Picked
  <2>2. /\ job.at = "land" /\ DOMAIN job.act \subseteq Keys
        /\ UNCHANGED <<home, ledger>>
    BY <1>17 DEF Land, TypeInv, JobTyped
  <2>3. Picked("release") = {}
    <3>1. \A k \in Picked("release") : k \in Keys /\ ledger[k] = "restored"
      BY <2>2 DEF JobInv, Choosing, Picked
    <3>2. QED  BY <1>h, <3>1
  <2>4. /\ card' = card /\ \A k \in Keys : pc'[k] = pc[k] /\ bank'[k] = bank[k]
        /\ bank'["orig"] <= bank["orig"]
        /\ back = {} => bank'["again"] = bank["again"]
    BY <1>k, <1>t, <2>1, <2>3
  <2>5. Abroad' => Abroad  BY <2>4 DEF Abroad, Some
  <2>6. CASE back = {}
    <3>1. bank["orig"] > 0 \/ bank["again"] > 0
      <4>1. bank'["again"] = bank["again"]  BY <2>4, <2>6
      <4>2. bank["orig"] \in Nat /\ bank["again"] \in Nat  BY <1>k, <1>t
      <4>3. CASE bank'["again"] > 0  BY <4>1, <4>3
      <4>4. CASE bank'["orig"] > 0
        <5>1. bank'["orig"] \in Nat  BY <1>k, <1>t, <2>1
        <5>2. QED  BY <2>4, <4>2, <4>4, <5>1
      <4>5. QED  BY <1>o, <4>3, <4>4
    <3>2. Out  BY <2>4, <2>5
    <3>3. QED  BY <1>r, <1>n, <2>2, <3>1, <3>2
  <2>7. CASE back # {}
    <3>1. NoCopies  BY <2>2, <2>7 DEF JobInv, Choosing
    <3>2. QED  BY <2>4, <2>5, <3>1 DEF NoCopies, Abroad, Some
  <2>8. QED  BY <2>6, <2>7
<1>18. CASE File
  <2>1. PICK written : /\ written \subseteq job.out \cup
                            {k \in Picked("promote") : ledger[k] = "pending"}
                       /\ ledger' = [k \in Keys |->
                              IF k \in written \cap job.out THEN "none"
                              ELSE IF k \in written THEN "claimed" ELSE ledger[k]]
    BY <1>18 DEF File, Picked
  <2>2. /\ job.at = "file" /\ DOMAIN job.act \subseteq Keys
        /\ UNCHANGED <<bank, card, home, pc>>
    BY <1>18 DEF File, TypeInv, JobTyped
  <2>3. Native /\ Out  BY <2>2 DEF Native, Abroad, Some
  <2>4. ~NoCopies  BY <1>t, <2>3 DEF NoCopies, Abroad, Some
  <2>5. job.out = {}
    <3>1. \A k \in Picked("release") : k \in Keys /\ ledger[k] = "restored"
      BY <2>2 DEF JobInv, Choosing, Picked
    <3>2. Picked("release") = {}  BY <1>h, <3>1
    <3>3. QED  BY <2>2, <2>4, <3>2 DEF JobInv, Choosing, Filing
  <2>6. QED  BY <1>r, <2>1, <2>3, <2>5
<1>19. CASE Rekey
  <2>1. UNCHANGED <<bank, card, home, pc>>  BY <1>19 DEF Rekey
  <2>2. PICK from \in Keys, to \in Keys :
          from = job.from /\ to = job.to /\ from # to /\ ledger[from] # "none"
    BY <1>19, OtherKey DEF Rekey, TypeInv, JobTyped, JobInv, Rekeying, Keys
  <2>3. ledger'[from] = ledger[from] \/ ledger'[to] = ledger[from]
    <3>1. \A w \in Outcomes : w.ok => w.landed  BY DEF Outcomes
    <3>2. QED  BY <1>19, <2>2, <3>1 DEF Rekey
  <2>4. QED  BY <2>2, <2>3
<1>20. CASE UNCHANGED vars
  BY <1>20, <1>r DEF vars, files, session, Native, Abroad, Some
<1>21. QED
  BY <1>1, <1>2, <1>3, <1>4, <1>5, <1>6, <1>7, <1>8, <1>9, <1>10, <1>11, <1>12, <1>13,
     <1>14, <1>15, <1>16, <1>17, <1>18, <1>19, <1>20 DEF XferNext

-----------------------------------------------------------------------------
XferInv == TypeInv /\ SafeInv

\* The whole invariant.
LEMMA XferInvariant == ASSUME Meant PROVE XferSpec => []XferInv
<1>1. XferInit => XferInv  BY TypeInit, SafeInit DEF XferInv
<1>2. XferInv /\ [XferNext]_vars => XferInv'
  <2>1. XferInv /\ [XferNext]_vars => TypeInv'  BY TypeStep DEF XferInv
  <2>2. QED
    BY <2>1, HomeStep, JobStep, KeptStep, TwinStep DEF XferInv, SafeInv
<1>3. QED  BY <1>1, <1>2, PTL DEF XferSpec

(* Whatever fails, whenever the power goes and whatever the player picks on  *)
(* the TRANSFERS screen, the Pokemon is on the card or in a record that is   *)
(* still offered (flush_on_exit, xfer_reconcile_screen).                     *)
THEOREM NeverLost == ASSUME Meant PROVE XferSpec => []NothingLost
<1>1. XferInv => NothingLost
  BY DEF XferInv, SafeInv, Kept, IsSafe, Holds, NothingLost
<1>2. QED  BY XferInvariant, <1>1, PTL

(* Until it has come home a pair of twins on the card has its record, or     *)
(* nothing could collect the duplicate.                                      *)
THEOREM TwinsAlwaysRecorded == ASSUME Meant PROVE XferSpec => []TwinsRecorded
<1>1. XferInv => TwinsRecorded
  BY DEF XferInv, SafeInv, TwinInv, TwinsRecorded
<1>2. QED  BY XferInvariant, <1>1, PTL

(* RESTORE never clones: the original is rebuilt only when it and every copy *)
(* of it are gone from the card.                                             *)
THEOREM RestoreNeverClones == ASSUME Meant PROVE XferSpec => RestoresOnlyTheLost
<1>1. ASSUME XferInv, [XferNext]_vars
      PROVE  [bank'["again"] > bank["again"] =>
                ~Abroad /\ ~Some(bank, "orig") /\ ~Some(bank, "again")]_vars
  <2> SUFFICES ASSUME XferNext, bank'["again"] > bank["again"]
               PROVE  ~Abroad /\ ~Some(bank, "orig") /\ ~Some(bank, "again")
    BY <1>1
  <2>k. /\ "again" \in Cells /\ "again" \notin Keys /\ "orig" # "again" /\ "merged" # "again"
        /\ bank \in [Cells -> 0 .. Most] /\ bank["again"] \in Nat
    BY <1>1, Places, OtherKey DEF Keys, XferInv, TypeInv, Typed, Placed
  <2>1. CASE bank' = bank  BY <2>1, <2>k
  <2>2. ASSUME NEW k \in Keys, Park(k) \/ Home(k) PROVE FALSE
    BY <2>2, <2>k DEF Park, Home, More, Less
  <2>3. CASE Lift  BY <2>3, <2>k DEF Lift, More
  <2>4. CASE Flush  BY <2>4, <2>k DEF Flush
  <2>5. CASE Land
    <3>1. PICK back \in SUBSET Picked("restore") :
            back = {} => bank'["again"] = bank["again"]
      BY <2>5, <2>k DEF Land, Picked
    <3>2. Picked("restore") # {} /\ job.at = "land"  BY <2>5, <2>k, <3>1 DEF Land
    <3>3. NoCopies /\ bank["orig"] = 0 /\ bank["again"] = 0
      BY <1>1, <3>2 DEF XferInv, SafeInv, JobInv, Choosing, Landing
    <3>4. QED  BY <3>3 DEF NoCopies, Abroad, Some
  <2>6. QED
    BY <2>1, <2>2, <2>3, <2>4, <2>5
       DEF XferNext, files, Drop, Edit, Commit, Reroll, Unpark, Release, Trade,
           Save, Promote, Decline, Crash, Choose, File, Rekey
<1>2. QED  BY XferInvariant, <1>1, PTL DEF XferSpec, RestoresOnlyTheLost

(* An entry claims its original only once a copy is on the card, so that     *)
(* what may be deleted then is really the second one (app_xfer_promote).     *)
THEOREM ClaimsOnlyProven == ASSUME Meant PROVE XferSpec => ClaimsAreProven
<1>1. ASSUME XferInv, [XferNext]_vars
      PROVE  [\A k \in Keys : ledger[k] = "pending" /\ ledger'[k] = "claimed" =>
                gone \/ Abroad]_vars
  <2> SUFFICES ASSUME XferNext, NEW q \in Keys, ledger[q] = "pending", ledger'[q] = "claimed"
               PROVE  gone \/ Abroad
    BY <1>1
  <2>t. /\ ledger \in [Keys -> States] /\ pend \in Keys \cup {NoKey} /\ NoKey \notin Keys
    BY <1>1, OtherKey DEF XferInv, TypeInv, Typed
  <2>1. CASE ledger' = ledger  BY <2>1
  <2>2. CASE Drop  BY <2>2, <2>t DEF Drop, Entry
  <2>3. ASSUME NEW k \in Keys, Home(k) PROVE FALSE  BY <2>3, <2>t DEF Home, Entry
  <2>4. CASE Promote
    <3>1. pend # NoKey
      <4>1. pend = NoKey => ledger' = ledger  BY <2>4 DEF Promote
      <4>2. QED  BY <4>1
    <3>2. card = pc  BY <1>1, <2>4 DEF Promote, XferInv, TypeInv, Synced
    <3>3. gone \/ \E k \in Keys : Copy(k)
      BY <1>1, <3>1 DEF XferInv, SafeInv, Crossing, Carried
    <3>4. QED  BY <1>1, <3>2, <3>3, Places DEF XferInv, Placed, Copy
  <2>5. CASE Decline  BY <2>5, <2>t DEF Decline, Entry
  <2>6. CASE File
    <3>1. job.at = "file" /\ q \in Picked("promote")  BY <2>6 DEF File, Picked
    <3>2. QED  BY <1>1, <3>1 DEF XferInv, SafeInv, JobInv, Filing
  <2>7. CASE Rekey
    <3>1. q # job.to
      BY <1>1, <2>7 DEF Rekey, XferInv, SafeInv, JobInv, Rekeying
    <3>2. QED  BY <2>7, <3>1 DEF Rekey
  <2>8. QED
    BY <2>1, <2>2, <2>3, <2>4, <2>5, <2>6, <2>7
       DEF XferNext, files, Park, Edit, Commit, Reroll, Unpark, Release, Lift, Trade,
           Save, Flush, Crash, Choose, Land
<1>2. QED  BY XferInvariant, <1>1, PTL DEF XferSpec, ClaimsAreProven
=============================================================================
