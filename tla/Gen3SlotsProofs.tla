--------------------------- MODULE Gen3SlotsProofs ---------------------------
(***************************************************************************)
(* Proofs about Gen3Slots: for every number of sectors, saves of the game, *)
(* power cuts and damages.                                                 *)
(***************************************************************************)
EXTENDS Gen3Slots, WellFoundedInduction, FiniteSetTheorems, TLAPS

\* Positions, and what the game writes there, are in their types.
LEMMA WrittenType ==
  /\ 0 \in Ids /\ N - 1 \in Ids
  /\ \A x \in Int : x % N \in Ids
  /\ \A r \in Ids, c \in 0 .. MaxCounter + 1 : Written(r, c) \in [Ids -> Sectors]
<1>1. N \in Nat /\ N > 0  BY SlotsAssumption
<1>2. \A x \in Int : x % N \in Ids  BY <1>1 DEF Ids
<1>3. \A p, r \in Ids : (p - r + N) % N \in Ids
  <2>1. TAKE p \in Ids, r \in Ids
  <2>2. p - r + N \in Int  BY <1>1 DEF Ids
  <2>3. QED  BY <1>2, <2>2
<1>4. \A r \in Ids, c \in 0 .. MaxCounter + 1 : Written(r, c) \in [Ids -> Sectors]
  BY <1>3 DEF Written, Sector, Sectors
<1>5. QED  BY <1>1, <1>2, <1>4 DEF Ids

\* Which position holds a section depends on the ids alone.
LEMMA FindByIds ==
  ASSUME NEW a, NEW b, NEW i, \A p \in Ids : a[p].id = b[p].id
  PROVE  Find(a, i) = Find(b, i)
<1>1. {p \in Ids : a[p].id = i} = {p \in Ids : b[p].id = i}  OBVIOUS
<1>2. QED  BY <1>1 DEF Find

-----------------------------------------------------------------------------
\* Why an unlocked save stays the one the game loads: the game would refuse
\* the slot that is not shown, or take the shown one for the newer.
Leads(img, k) ==
  GameOk(img[Other(k)], FALSE) =>
    GameOk(img[k], TRUE) /\ LastCounter(img[Other(k)]) < LastCounter(img[k])

\* No save of the game is under way while the editor has it open, and what the
\* lock was decided from holds in the image and in the file.
EditInv ==
  /\ view.open => game = NoGame
  /\ view.open /\ ~view.locked => Leads(ram, view.slot) /\ Leads(file, view.slot)

SlotsInv == SlotsTypeOK /\ EditInv

\* The type of an image's slots and of their counters.
LEMMA ImageFacts ==
  ASSUME NEW img \in [SlotNos -> [Ids -> Sectors]], NEW k \in SlotNos
  PROVE  /\ Other(k) \in SlotNos /\ Other(Other(k)) = k
         /\ img[k] \in [Ids -> Sectors] /\ LastCounter(img[k]) \in 0 .. MaxCounter + 1
<1>1. Other(k) \in SlotNos /\ Other(Other(k)) = k  BY DEF Other, SlotNos
<1>2. img[k][N - 1] \in Sectors  BY WrittenType
<1>3. QED  BY <1>1, <1>2, SlotsAssumption DEF LastCounter, Sectors, Blank

\* The slot that is shown is one of the two.
LEMMA ShownType ==
  ASSUME NEW img
  PROVE  Shown(img) \in SlotNos
  BY DEF Shown, ByCounter, SlotNos

\* An image the lock lets through leads in the slot it shows.
LEMMA UnlockedLeads ==
  ASSUME NEW img \in [SlotNos -> [Ids -> Sectors]], ~GameLoadsOther(img)
  PROVE  Leads(img, Shown(img))
<1> DEFINE k == Shown(img)
<1>1. k \in SlotNos  BY ShownType
<1>2. /\ LastCounter(img[k]) \in 0 .. MaxCounter + 1
      /\ LastCounter(img[Other(k)]) \in 0 .. MaxCounter + 1
  BY <1>1, ImageFacts
<1>3. GameOk(img[Other(k)], FALSE) =>
        GameOk(img[k], TRUE) /\ ~(LastCounter(img[Other(k)]) >= LastCounter(img[k]))
  BY DEF GameLoadsOther
<1>4. ~(LastCounter(img[Other(k)]) >= LastCounter(img[k])) =>
        LastCounter(img[Other(k)]) < LastCounter(img[k])
  BY <1>2, SlotsAssumption
<1>5. QED  BY <1>3, <1>4 DEF Leads

\* What leads is all that the game may load.
LEMMA LeadsReaches ==
  ASSUME NEW img \in [SlotNos -> [Ids -> Sectors]], NEW k \in SlotNos, Leads(img, k)
  PROVE  MayLoad(img) \subseteq {k}
<1>1. SUFFICES ASSUME Other(k) \in MayLoad(img)  PROVE FALSE
  BY DEF MayLoad, SlotNos, Other
<1>2. Accepts(img[Other(k)])  BY <1>1 DEF MayLoad
<1>3. GameOk(img[Other(k)], FALSE)  BY <1>2 DEF Accepts, GameOk
<1>4. GameOk(img[k], TRUE) /\ LastCounter(img[Other(k)]) < LastCounter(img[k])
  BY <1>3 DEF Leads
<1>5. Accepts(img[k])  BY <1>4 DEF Accepts, GameOk
<1>6. LastCounter(img[Other(k)]) >= LastCounter(img[k])
  BY <1>1, <1>5, ImageFacts DEF MayLoad
<1>7. QED  BY <1>4, <1>6, ImageFacts, SlotsAssumption

\* An edit gives sections of the shown slot new checksums: the ids, and what
\* the game thinks of the slots, stay.
LEMMA StageKeeps ==
  ASSUME NEW a \in [SlotNos -> [Ids -> Sectors]], NEW k \in SlotNos, NEW b,
         b \in [SlotNos -> [Ids -> Sectors]], b[Other(k)] = a[Other(k)],
         \A p \in Ids : \/ b[k][p] = a[k][p]
                        \/ b[k][p] = [a[k][p] EXCEPT !.sum = TRUE] /\ a[k][p] # Blank
  PROVE  /\ \A p \in Ids : b[k][p].id = a[k][p].id
         /\ Leads(a, k) => Leads(b, k)
<1>1. ASSUME NEW p \in Ids
      PROVE  /\ b[k][p].id = a[k][p].id /\ b[k][p].ctr = a[k][p].ctr
             /\ a[k][p].sum => b[k][p].sum
  <2>1. a[k][p] \in Sectors  OBVIOUS
  <2>2. CASE b[k][p] = [a[k][p] EXCEPT !.sum = TRUE] /\ a[k][p] # Blank
    <3>1. a[k][p] \in [id : Ids, ctr : 0 .. MaxCounter + 1, sum : BOOLEAN]
      BY <2>1, <2>2 DEF Sectors
    <3>2. QED  BY <2>2, <3>1
  <2>3. QED  BY <2>2
<1>2. {b[k][p].id : p \in Ids} = {a[k][p].id : p \in Ids}
  <2>1. \A p \in Ids : b[k][p].id = a[k][p].id  BY <1>1
  <2>2. {b[k][p].id : p \in Ids} \subseteq {a[k][p].id : p \in Ids}  BY <2>1
  <2>3. {a[k][p].id : p \in Ids} \subseteq {b[k][p].id : p \in Ids}  BY <2>1
  <2>4. QED  BY <2>2, <2>3
<1>3. AllIds(b[k]) = AllIds(a[k])  BY <1>2 DEF AllIds
<1>4. GameOk(a[k], TRUE) => GameOk(b[k], TRUE)  BY <1>1, <1>3 DEF GameOk
<1>5. LastCounter(b[k]) = LastCounter(a[k])  BY <1>1, WrittenType DEF LastCounter
<1>6. QED  BY <1>1, <1>4, <1>5 DEF Leads

-----------------------------------------------------------------------------
LEMMA InitInv == SlotsInit => SlotsInv
<1> SUFFICES ASSUME SlotsInit  PROVE SlotsInv
  OBVIOUS
<1>1. file \in [SlotNos -> [Ids -> Sectors]] /\ ram = file
  BY DEF SlotsInit, Sectors
<1>2. QED
  BY <1>1, SlotsAssumption DEF SlotsInit, SlotsInv, SlotsTypeOK, EditInv, NoGame, NoView, SlotNos

\* The steps of the game and of the card, while nothing is open.
LEMMA GameKeeps ==
  ASSUME SlotsInv, GameSaves \/ GameWrites \/ GameCut \/ Damaged
  PROVE  SlotsInv'
<1>1. SlotsTypeOK /\ EditInv  BY DEF SlotsInv
<1>2. ~view.open
  BY <1>1 DEF EditInv, GameSaves, GameWrites, GameCut, Damaged, Closed, NoGame, NoView
<1>3. /\ view' = view /\ ram' = ram
      /\ ram' \in [SlotNos -> [Ids -> Sectors]]
      /\ view' \in {NoView} \cup [open : {TRUE}, slot : SlotNos, locked : BOOLEAN]
  BY <1>1 DEF GameSaves, GameWrites, GameCut, Damaged, SlotsTypeOK
<1>4. CASE GameSaves
  <2>1. PICK p \in Ids, c \in 0 .. MaxCounter - 1 :
          game' = [on |-> TRUE, slot |-> (c + 1) % 2, rot |-> (p + 1) % N,
                    ctr |-> c + 1, n |-> 0]
    <3>1. PICK k \in IF MayLoad(file) = {} THEN {-1} ELSE MayLoad(file), p \in Ids :
            LET c == IF k = -1 THEN 0 ELSE LastCounter(file[k])
            IN  /\ c < MaxCounter
                /\ game' = [on |-> TRUE, slot |-> (c + 1) % 2, rot |-> (p + 1) % N,
                            ctr |-> c + 1, n |-> 0]
      BY <1>4 DEF GameSaves
    <3>2. k \in {-1} \cup SlotNos  BY DEF MayLoad
    <3>3. k # -1 => LastCounter(file[k]) \in 0 .. MaxCounter + 1
      BY <1>1, <3>2, ImageFacts DEF SlotsTypeOK
    <3>4. (IF k = -1 THEN 0 ELSE LastCounter(file[k])) \in 0 .. MaxCounter + 1
      BY <3>3, SlotsAssumption
    <3>5. (IF k = -1 THEN 0 ELSE LastCounter(file[k])) < MaxCounter
      BY <3>1
    <3>6. (IF k = -1 THEN 0 ELSE LastCounter(file[k])) \in 0 .. MaxCounter - 1
      BY <3>4, <3>5, SlotsAssumption
    <3>7. QED  BY <3>1, <3>6
  <2>2. (c + 1) % 2 \in SlotNos /\ c + 1 \in 1 .. MaxCounter /\ (p + 1) % N \in Ids /\ 0 \in Ids
    <3>1. (c + 1) % 2 \in SlotNos  BY <2>1 DEF SlotNos
    <3>2. p + 1 \in Int  BY DEF Ids
    <3>3. (p + 1) % N \in Ids  BY <3>2, WrittenType
    <3>4. QED  BY <2>1, <3>1, <3>3, WrittenType, SlotsAssumption
  <2>3. game' \in {NoGame} \cup [on : {TRUE}, slot : SlotNos, rot : Ids, ctr : 1 .. MaxCounter, n : Ids]
    BY <2>1, <2>2
  <2>4. QED  BY <1>1, <1>2, <1>3, <1>4, <2>3 DEF GameSaves, SlotsInv, SlotsTypeOK, EditInv
<1>5. ASSUME game.on
      PROVE  /\ game \in [on : {TRUE}, slot : SlotNos, rot : Ids, ctr : 1 .. MaxCounter, n : Ids]
             /\ At(game.n, game.rot) \in Ids
             /\ Sector(game.n, game.ctr) \in Sectors
  <2>1. game \in [on : {TRUE}, slot : SlotNos, rot : Ids, ctr : 1 .. MaxCounter, n : Ids]
    <3>1. game \in {NoGame} \cup [on : {TRUE}, slot : SlotNos, rot : Ids,
                                 ctr : 1 .. MaxCounter, n : Ids]
      BY <1>1 DEF SlotsTypeOK
    <3>2. game # NoGame  BY <1>5 DEF NoGame
    <3>3. QED  BY <3>1, <3>2
  <2>2. game.n + game.rot \in Int  BY <2>1 DEF Ids
  <2>3. At(game.n, game.rot) \in Ids  BY <2>2, WrittenType DEF At
  <2>4. Sector(game.n, game.ctr) \in Sectors
    BY <2>1, SlotsAssumption DEF Sector, Sectors
  <2>5. QED  BY <2>1, <2>3, <2>4
<1>6. CASE GameWrites
  <2>1. game.on  BY <1>6 DEF GameWrites
  <2>2. file' \in [SlotNos -> [Ids -> Sectors]]
    <3>1. file \in [SlotNos -> [Ids -> Sectors]]  BY <1>1 DEF SlotsTypeOK
    <3>2. file' = [file EXCEPT ![game.slot][At(game.n, game.rot)] = Sector(game.n, game.ctr)]
      BY <1>6 DEF GameWrites
    <3>3. QED  BY <1>5, <2>1, <3>1, <3>2
  <2>3. /\ game' \in {NoGame} \cup [on : {TRUE}, slot : SlotNos, rot : Ids, ctr : 1 .. MaxCounter, n : Ids]
        /\ last' \in SlotNos \cup {-1}
    <3>1. CASE game.n = N - 1
      BY <1>1, <1>5, <1>6, <2>1, <3>1 DEF GameWrites, SlotsTypeOK
    <3>2. CASE game.n # N - 1
      <4>1. game.n + 1 \in Ids  BY <1>5, <2>1, <3>2, SlotsAssumption DEF Ids
      <4>2. game' = [game EXCEPT !.n = @ + 1] /\ last' = last  BY <1>6, <3>2 DEF GameWrites
      <4>3. QED  BY <1>1, <1>5, <2>1, <4>1, <4>2 DEF SlotsTypeOK
    <3>3. QED  BY <3>1, <3>2
  <2>4. QED  BY <1>1, <1>2, <1>3, <1>6, <2>2, <2>3 DEF GameWrites, SlotsInv, SlotsTypeOK, EditInv
<1>7. CASE GameCut
  <2>1. game.on  BY <1>7 DEF GameCut
  <2>2. file' \in [SlotNos -> [Ids -> Sectors]]
    <3>1. file \in [SlotNos -> [Ids -> Sectors]]  BY <1>1 DEF SlotsTypeOK
    <3>2. PICK s \in {file[game.slot][At(game.n, game.rot)], Blank} :
            file' = [file EXCEPT ![game.slot][At(game.n, game.rot)] = s]
      BY <1>7 DEF GameCut
    <3>3. s \in Sectors  BY <1>5, <2>1, <3>1 DEF Sectors
    <3>4. QED  BY <1>5, <2>1, <3>1, <3>2, <3>3
  <2>3. QED
    BY <1>1, <1>2, <1>3, <1>7, <2>2 DEF GameCut, SlotsInv, SlotsTypeOK, EditInv
<1>8. CASE Damaged
  <2>1. file' \in [SlotNos -> [Ids -> Sectors]]
    <3>1. file \in [SlotNos -> [Ids -> Sectors]]  BY <1>1 DEF SlotsTypeOK
    <3>2. CASE \E k \in SlotNos, p \in Ids :
                 Signed(file[k][p]) /\ file' = [file EXCEPT ![k][p].sum = FALSE]
      <4>1. PICK k \in SlotNos, p \in Ids :
              Signed(file[k][p]) /\ file' = [file EXCEPT ![k][p].sum = FALSE]
        BY <3>2
      <4>2. file[k][p] \in [id : Ids, ctr : 0 .. MaxCounter + 1, sum : BOOLEAN]
        BY <3>1, <4>1 DEF Signed, Sectors
      <4>3. [file[k][p] EXCEPT !.sum = FALSE] \in Sectors  BY <4>2 DEF Sectors
      <4>4. file' = [file EXCEPT ![k][p] = [file[k][p] EXCEPT !.sum = FALSE]]
        BY <3>1, <4>1
      <4>5. QED  BY <3>1, <4>3, <4>4
    <3>3. CASE \E k \in SlotNos, p \in Ids : file' = [file EXCEPT ![k][p] = Blank]
      BY <3>1, <3>3 DEF Sectors
    <3>4. CASE \E c \in 1 .. MaxCounter, r \in Ids :
                 \E b \in {Written((r + 1) % N, c + 1)[0], Written((r - 1 + N) % N, c - 1)[0]} :
                   file' = [file EXCEPT ![0] = Written(r, c), ![1][0] = b]
      <4>1. PICK c \in 1 .. MaxCounter, r \in Ids :
              \E b \in {Written((r + 1) % N, c + 1)[0], Written((r - 1 + N) % N, c - 1)[0]} :
                file' = [file EXCEPT ![0] = Written(r, c), ![1][0] = b]
        BY <3>4
      <4>2. PICK b \in {Written((r + 1) % N, c + 1)[0], Written((r - 1 + N) % N, c - 1)[0]} :
              file' = [file EXCEPT ![0] = Written(r, c), ![1][0] = b]
        BY <4>1
      <4>3. /\ r + 1 \in Int /\ r - 1 + N \in Int
            /\ {c - 1, c, c + 1} \subseteq 0 .. MaxCounter + 1
        BY SlotsAssumption DEF Ids
      <4>4. (r + 1) % N \in Ids /\ (r - 1 + N) % N \in Ids  BY <4>3, WrittenType
      <4>5. b \in Sectors  BY <4>2, <4>3, <4>4, WrittenType
      <4>6. Written(r, c) \in [Ids -> Sectors] /\ 0 \in Ids  BY <4>3, WrittenType
      <4>7. QED  BY <3>1, <4>2, <4>5, <4>6 DEF SlotNos
    <3>5. QED  BY <1>8, <3>2, <3>3, <3>4 DEF Damaged
  <2>2. damages' \in 0 .. MaxDamage
    BY <1>1, <1>8, SlotsAssumption DEF Damaged, SlotsTypeOK
  <2>3. QED
    BY <1>1, <1>2, <1>3, <1>8, <2>1, <2>2 DEF Damaged, SlotsInv, SlotsTypeOK, EditInv
<1>9. QED  BY <1>4, <1>6, <1>7, <1>8

\* The editor's steps.
LEMMA EditorKeeps ==
  ASSUME SlotsInv, Open \/ Stage \/ Save \/ Close
  PROVE  SlotsInv'
<1>1. SlotsTypeOK /\ EditInv  BY DEF SlotsInv
<1>2. file \in [SlotNos -> [Ids -> Sectors]] /\ ram \in [SlotNos -> [Ids -> Sectors]]
  BY <1>1 DEF SlotsTypeOK
<1>3. ASSUME view.open
      PROVE  view \in [open : {TRUE}, slot : SlotNos, locked : BOOLEAN] /\ game = NoGame
  <2>1. view \in {NoView} \cup [open : {TRUE}, slot : SlotNos, locked : BOOLEAN]
    BY <1>1 DEF SlotsTypeOK
  <2>2. view # NoView  BY <1>3 DEF NoView
  <2>3. QED  BY <1>1, <1>3, <2>1, <2>2 DEF EditInv
<1>4. CASE Open
  <2>1. Shown(file) \in SlotNos /\ GameLoadsOther(file) \in BOOLEAN
    BY ShownType DEF GameLoadsOther
  <2>2. ~GameLoadsOther(file) => Leads(file, Shown(file))  BY <1>2, UnlockedLeads
  <2>3. /\ view' = [open |-> TRUE, slot |-> Shown(file), locked |-> GameLoadsOther(file)]
        /\ ram' = file /\ file' = file /\ game' = NoGame /\ last' = last /\ damages' = damages
        /\ \A i \in Need : Find(file[Shown(file)], i) >= 0
    BY <1>4 DEF Open, Closed
  <2>4. SlotsTypeOK'  BY <1>1, <1>2, <2>1, <2>3 DEF SlotsTypeOK
  <2>5. EditInv'
    <3>1. view'.slot = Shown(file) /\ view'.locked = GameLoadsOther(file)  BY <2>3
    <3>2. ~view'.locked => Leads(ram', view'.slot) /\ Leads(file', view'.slot)
      BY <2>2, <2>3, <3>1
    <3>3. QED  BY <2>3, <3>2 DEF EditInv
  <2>6. QED  BY <2>4, <2>5 DEF SlotsInv
<1>5. CASE Stage
  <2>1. view.open /\ ~view.locked  BY <1>5 DEF Stage
  <2>2. PICK edited \in SUBSET Ids :
          LET here == {p \in Ids : ram[view.slot][p].id \in edited
                                   /\ Find(ram[view.slot], ram[view.slot][p].id) = p}
          IN  ram' = [ram EXCEPT ![view.slot] =
                        [p \in Ids |-> IF p \in here THEN [@[p] EXCEPT !.sum = TRUE] ELSE @[p]]]
    BY <1>5 DEF Stage
  <2>3. /\ ram' \in [SlotNos -> [Ids -> Sectors]]
        /\ \A p \in Ids : ram'[view.slot][p].id = ram[view.slot][p].id
        /\ Leads(ram, view.slot) => Leads(ram', view.slot)
    <3>1. view.slot \in SlotNos  BY <1>3, <2>1
    <3> DEFINE here == {p \in Ids : ram[view.slot][p].id \in edited
                                    /\ Find(ram[view.slot], ram[view.slot][p].id) = p}
    <3>2. ram' = [ram EXCEPT ![view.slot] =
                    [p \in Ids |-> IF p \in here THEN [@[p] EXCEPT !.sum = TRUE] ELSE @[p]]]
      BY <2>2
    <3>3. \A p \in here : p \in Ids => ram[view.slot][p].id \in Ids  OBVIOUS
    <3> HIDE DEF here
    <3>4. ASSUME NEW p \in Ids
          PROVE  /\ ram'[view.slot][p] \in Sectors
                 /\ \/ ram'[view.slot][p] = ram[view.slot][p]
                    \/ /\ ram'[view.slot][p] = [ram[view.slot][p] EXCEPT !.sum = TRUE]
                       /\ ram[view.slot][p] # Blank
      <4>1. ram[view.slot][p] \in Sectors  BY <1>2, <3>1
      <4>2. CASE p \in here
        <5>1. ram'[view.slot][p] = [ram[view.slot][p] EXCEPT !.sum = TRUE]
          BY <1>2, <3>1, <3>2, <4>2
        <5>2. ram[view.slot][p] # Blank  BY <3>3, <4>2, SlotsAssumption DEF Blank, Ids
        <5>3. [ram[view.slot][p] EXCEPT !.sum = TRUE] \in Sectors
          BY <4>1, <5>2 DEF Sectors
        <5>4. QED  BY <5>1, <5>2, <5>3
      <4>3. CASE p \notin here
        BY <1>2, <3>1, <3>2, <4>1, <4>3
      <4>4. QED  BY <4>2, <4>3
    <3>5. ram' \in [SlotNos -> [Ids -> Sectors]] /\ ram'[Other(view.slot)] = ram[Other(view.slot)]
      <4>1. Other(view.slot) \in SlotNos /\ Other(view.slot) # view.slot
        BY <3>1 DEF Other, SlotNos
      <4>2. ram'[Other(view.slot)] = ram[Other(view.slot)]  BY <1>2, <3>2, <4>1
      <4>3. /\ ram'[view.slot] = [p \in Ids |-> ram'[view.slot][p]]
            /\ ram' = [ram EXCEPT ![view.slot] = ram'[view.slot]]
        BY <1>2, <3>1, <3>2
      <4>4. ram'[view.slot] \in [Ids -> Sectors]  BY <3>4, <4>3
      <4>5. QED  BY <1>2, <4>2, <4>3, <4>4
    <3>6. \A p \in Ids : \/ ram'[view.slot][p] = ram[view.slot][p]
                         \/ /\ ram'[view.slot][p] = [ram[view.slot][p] EXCEPT !.sum = TRUE]
                            /\ ram[view.slot][p] # Blank
      BY <3>4
    <3>7. /\ \A p \in Ids : ram'[view.slot][p].id = ram[view.slot][p].id
          /\ Leads(ram, view.slot) => Leads(ram', view.slot)
      BY <1>2, <3>1, <3>5, <3>6, StageKeeps, Zenon
    <3>8. QED  BY <3>5, <3>7
  <2>4. \A i \in Need : Find(ram'[view.slot], i) >= 0
    <3>1. TAKE i \in Need
    <3>2. Find(ram'[view.slot], i) = Find(ram[view.slot], i)  BY <2>3, FindByIds
    <3>3. QED  BY <1>1, <2>1, <3>2 DEF SlotsTypeOK
  <2>5. UNCHANGED <<file, game, view, last, damages>>  BY <1>5 DEF Stage
  <2>6. SlotsTypeOK'  BY <1>1, <2>3, <2>4, <2>5 DEF SlotsTypeOK
  <2>7. EditInv'  BY <1>1, <2>1, <2>3, <2>5 DEF EditInv
  <2>8. QED  BY <2>6, <2>7 DEF SlotsInv
<1>6. CASE Save
  <2>1. SlotsTypeOK'  BY <1>1, <1>6 DEF Save, SlotsTypeOK
  <2>2. EditInv'  BY <1>1, <1>6 DEF Save, EditInv
  <2>3. QED  BY <2>1, <2>2 DEF SlotsInv
<1>7. CASE Close
  BY <1>1, <1>7 DEF Close, SlotsInv, SlotsTypeOK, EditInv, NoView
<1>8. QED  BY <1>4, <1>5, <1>6, <1>7

LEMMA StutterKeeps ==
  ASSUME SlotsInv, UNCHANGED vars
  PROVE  SlotsInv'
  BY DEF SlotsInv, SlotsTypeOK, EditInv, vars

LEMMA InvHolds == SlotsSpec => []SlotsInv
<1>1. SlotsInit => SlotsInv  BY InitInv
<1>2. SlotsInv /\ [SlotsNext]_vars => SlotsInv'
  BY GameKeeps, EditorKeeps, StutterKeeps DEF SlotsNext
<1>3. QED  BY <1>1, <1>2, PTL DEF SlotsSpec

\* Every state is well typed, and the shown slot has what is shown, also after
\* edits (view_save's refusals; gen3_write_full_section keeps the footers).
THEOREM TypeCorrect == SlotsSpec => []SlotsTypeOK
<1>1. SlotsInv => SlotsTypeOK  BY DEF SlotsInv
<1>2. QED  BY <1>1, InvHolds, PTL

\* While a save can be edited the game loads the slot that is edited, or none:
\* whatever is damaged, wherever the game was cut (gen3_parse_into's lock).
THEOREM EditsReach == SlotsSpec => []EditsReachGame
<1>1. SlotsInv => EditsReachGame
  <2>1. SUFFICES ASSUME SlotsInv, view.open, ~view.locked
                 PROVE  MayLoad(ram) \cup MayLoad(file) \subseteq {view.slot}
    BY DEF EditsReachGame
  <2>2. view.slot \in SlotNos
    <3>1. view \in {NoView} \cup [open : {TRUE}, slot : SlotNos, locked : BOOLEAN]
      BY <2>1 DEF SlotsInv, SlotsTypeOK
    <3>2. view # NoView  BY <2>1 DEF NoView
    <3>3. QED  BY <3>1, <3>2
  <2>3. MayLoad(ram) \subseteq {view.slot}
    BY <2>1, <2>2, LeadsReaches DEF SlotsInv, SlotsTypeOK, EditInv
  <2>4. MayLoad(file) \subseteq {view.slot}
    BY <2>1, <2>2, LeadsReaches DEF SlotsInv, SlotsTypeOK, EditInv
  <2>5. QED  BY <2>3, <2>4
<1>2. QED  BY <1>1, InvHolds, PTL

-----------------------------------------------------------------------------
\* The last save is shown: for a dump that nobody damaged.

\* One round of the slot at most.
LEMMA Rounds ==
  \A a \in Int : 0 <= a /\ a < 2 * N => a % N = IF a < N THEN a ELSE a - N
<1>1. N \in Nat /\ N > 0  BY SlotsAssumption
<1>2. ASSUME NEW a \in 0 .. N - 1 PROVE a % N = a  BY <1>1, <1>2
<1>3. ASSUME NEW a \in N .. 2 * N - 1 PROVE a % N = a - N
  <2>1. PICK b \in 0 .. N - 1 : a = b + N
    <3>1. a - N \in 0 .. N - 1 /\ a = (a - N) + N  BY <1>1, <1>3
    <3>2. QED  BY <3>1
  <2>2. (b + N) % N = b  BY <1>1, <2>1
  <2>3. QED  BY <1>1, <2>1, <2>2
<1>4. QED
  <2>1. TAKE a \in Int
  <2>2. CASE a \in 0 .. N - 1  BY <1>1, <1>2, <2>2
  <2>3. CASE a \in N .. 2 * N - 1  BY <1>1, <1>3, <2>3
  <2>4. QED  BY <1>1, <2>2, <2>3

\* The rotation of the game's next save.
Next(r) == (r + 1) % N

\* Where a section lies, and where the section written before lay there.
LEMMA Positions ==
  ASSUME NEW r \in Ids
  PROVE  /\ \A j \in Ids : At(j, r) \in Ids /\ At(j, r) = IF j + r < N THEN j + r ELSE j + r - N
         /\ \A j, l \in Ids : At(j, r) = At(l, r) => j = l
         /\ \A p \in Ids : \E j \in Ids : At(j, r) = p
         /\ \A c : \A j \in Ids : Written(r, c)[At(j, r)] = Sector(j, c)
         /\ \A c : \A p \in Ids : Written(r, c)[p].id = 0 => p = r
<1>1. N \in Nat /\ N > 0 /\ r \in 0 .. N - 1  BY SlotsAssumption DEF Ids
<1>2. \A j \in Ids : At(j, r) \in Ids /\ At(j, r) = IF j + r < N THEN j + r ELSE j + r - N
  <2>1. ASSUME NEW j \in Ids
        PROVE  At(j, r) \in Ids /\ At(j, r) = IF j + r < N THEN j + r ELSE j + r - N
    <3>1. j + r \in Int /\ 0 <= j + r /\ j + r < 2 * N  BY <1>1 DEF Ids
    <3>2. (j + r) % N = IF j + r < N THEN j + r ELSE j + r - N
      <4>1. PICK a \in Int : a = j + r  BY <3>1
      <4>2. a % N = IF a < N THEN a ELSE a - N  BY <3>1, <4>1, Rounds
      <4>3. QED  BY <1>1, <3>1, <4>1, <4>2 DEF Ids
    <3>3. (IF j + r < N THEN j + r ELSE j + r - N) \in Ids  BY <1>1, <3>1 DEF Ids
    <3>4. QED  BY <3>2, <3>3 DEF At
  <2>2. QED  BY <2>1
<1>3. \A j, l \in Ids : At(j, r) = At(l, r) => j = l
  <2>1. TAKE j \in Ids, l \in Ids
  <2>2. QED  BY <1>1, <1>2 DEF Ids
<1>4. \A p \in Ids : \E j \in Ids : At(j, r) = p
  <2>1. TAKE p \in Ids
  <2>2. CASE p >= r
    <3>1. p - r \in Ids /\ At(p - r, r) = p  BY <1>1, <1>2, <2>2 DEF Ids
    <3>2. QED  BY <3>1
  <2>3. CASE p < r
    <3>1. p - r + N \in Ids  BY <1>1, <2>3 DEF Ids
    <3>2. At(p - r + N, r) = p  BY <1>1, <1>2, <2>3, <3>1 DEF Ids
    <3>3. QED  BY <1>1, <3>1, <3>2 DEF Ids
  <2>4. QED  BY <1>1, <2>2, <2>3 DEF Ids
<1>5. \A p \in Ids : (p - r + N) % N = IF p < r THEN p - r + N ELSE p - r
  <2>1. TAKE p \in Ids
  <2>2. p - r + N \in Int /\ 0 <= p - r + N /\ p - r + N < 2 * N  BY <1>1 DEF Ids
  <2>3. (p - r + N) % N = IF p - r + N < N THEN p - r + N ELSE p - r + N - N
    <3>1. PICK a \in Int : a = p - r + N  BY <2>2
    <3>2. a % N = IF a < N THEN a ELSE a - N  BY <2>2, <3>1, Rounds
    <3>3. QED  BY <1>1, <3>1, <3>2 DEF Ids
  <2>4. QED  BY <1>1, <2>3 DEF Ids
<1>6. \A c : \A j \in Ids : Written(r, c)[At(j, r)] = Sector(j, c)
  <2> TAKE c
  <2>1. TAKE j \in Ids
  <2>2. (At(j, r) - r + N) % N = IF At(j, r) < r THEN At(j, r) - r + N ELSE At(j, r) - r
    BY <1>2, <1>5
  <2>3. (IF At(j, r) < r THEN At(j, r) - r + N ELSE At(j, r) - r) = j
    BY <1>1, <1>2 DEF Ids
  <2>4. QED  BY <1>2, <2>2, <2>3 DEF Written
<1>7. \A c : \A p \in Ids : Written(r, c)[p].id = 0 => p = r
  <2> TAKE c
  <2>1. TAKE p \in Ids
  <2>2. Written(r, c)[p].id = (p - r + N) % N  BY DEF Written, Sector
  <2>3. (p - r + N) % N = IF p < r THEN p - r + N ELSE p - r  BY <1>5
  <2>4. (IF p < r THEN p - r + N ELSE p - r) = 0 => p = r  BY <1>1 DEF Ids
  <2>5. QED  BY <2>2, <2>3, <2>4
<1>8. QED  BY <1>2, <1>3, <1>4, <1>6, <1>7

\* The save two before wrote to the same slot, two sections further on.
LEMMA TwoOn ==
  ASSUME N >= 3, NEW r \in Ids, NEW j \in Ids, NEW c
  PROVE  /\ Next(r) \in Ids
         /\ (j + 2) % N = IF j + 2 < N THEN j + 2 ELSE j + 2 - N
         /\ Written(r, c)[At(j, Next(Next(r)))] = Sector((j + 2) % N, c)
<1>1. N \in Nat /\ N >= 3 /\ r \in 0 .. N - 1 /\ j \in 0 .. N - 1  BY SlotsAssumption DEF Ids
<1>2. \A q \in Ids : Next(q) \in Ids /\ Next(q) = IF q + 1 < N THEN q + 1 ELSE q + 1 - N
  <2>1. TAKE q \in Ids
  <2>2. q + 1 \in Int /\ 0 <= q + 1 /\ q + 1 < 2 * N  BY <1>1 DEF Ids
  <2>3. Next(q) = IF q + 1 < N THEN q + 1 ELSE q + 1 - N
    <3>1. PICK a \in Int : a = q + 1  BY <2>2
    <3>2. a % N = IF a < N THEN a ELSE a - N  BY <2>2, <3>1, Rounds
    <3>3. QED  BY <1>1, <3>1, <3>2 DEF Next, Ids
  <2>4. (IF q + 1 < N THEN q + 1 ELSE q + 1 - N) \in Ids  BY <1>1, <2>2 DEF Ids
  <2>5. QED  BY <2>3, <2>4
<1>3. /\ (j + 2) % N = IF j + 2 < N THEN j + 2 ELSE j + 2 - N
      /\ (j + 2) % N \in Ids
  <2>1. j + 2 \in Int /\ 0 <= j + 2 /\ j + 2 < 2 * N  BY <1>1
  <2>2. (j + 2) % N = IF j + 2 < N THEN j + 2 ELSE j + 2 - N
    <3>1. PICK a \in Int : a = j + 2  BY <2>1
    <3>2. a % N = IF a < N THEN a ELSE a - N  BY <2>1, <3>1, Rounds
    <3>3. QED  BY <1>1, <3>1, <3>2 DEF Ids
  <2>3. (IF j + 2 < N THEN j + 2 ELSE j + 2 - N) \in Ids  BY <1>1, <2>1 DEF Ids
  <2>4. QED  BY <2>2, <2>3
<1>4. At(j, Next(Next(r))) = At((j + 2) % N, r)
  <2> DEFINE s == Next(r)
             u == Next(s)
             l == (j + 2) % N
  <2>1. s = (IF r + 1 < N THEN r + 1 ELSE r + 1 - N) /\ s \in Ids  BY <1>2
  <2>2. u = (IF s + 1 < N THEN s + 1 ELSE s + 1 - N) /\ u \in Ids  BY <1>2, <2>1
  <2>3. At(j, u) = IF j + u < N THEN j + u ELSE j + u - N  BY <2>2, Positions
  <2>4. At(l, r) = IF l + r < N THEN l + r ELSE l + r - N  BY <1>3, Positions
  <2>5. l = IF j + 2 < N THEN j + 2 ELSE j + 2 - N  BY <1>3
  <2> HIDE DEF s, u, l
  <2>6. At(j, u) = At(l, r)
    <3>1. s \in Int /\ u \in Int /\ l \in Int  BY <1>1, <2>1, <2>2, <2>5
    <3>2. QED  BY <1>1, <2>1, <2>2, <2>3, <2>4, <2>5, <3>1
  <2>7. QED  BY <2>6 DEF s, u, l
<1>5. Written(r, c)[At((j + 2) % N, r)] = Sector((j + 2) % N, c)
  <2>1. PICK l \in Ids : l = (j + 2) % N  BY <1>3
  <2>2. Written(r, c)[At(l, r)] = Sector(l, c)  BY Positions
  <2>3. QED  BY <2>1, <2>2
<1>6. QED  BY <1>2, <1>3, <1>4, <1>5

-----------------------------------------------------------------------------
\* What may lie where the save under way, or one that was cut, is to write
\* section j: the section, if a try got that far; before that what was there.
Overlaid(slot, r, c, m) ==
  \A j \in Ids : slot[At(j, Next(r))] \in
    IF j < m THEN {Sector(j, c + 1), Blank}
    ELSE IF c > 1 THEN {Sector((j + 2) % N, c - 1), Blank} ELSE {Blank}

\* The last save the game finished was its c-th, with rotation r; no later try
\* got further than m sections, and none is whole.
Standing(c, r, m) ==
  /\ last = IF c = 0 THEN -1 ELSE c % 2
  /\ IF c = 0 THEN r = 0 /\ file[0] = [p \in Ids |-> Blank] ELSE file[c % 2] = Written(r, c)
  /\ Overlaid(file[Other(c % 2)], r, c, m)

\* The try under way has written what it says it has.
Trying(c, r, m) ==
  game.on => /\ game.slot = Other(c % 2) /\ game.rot = Next(r) /\ game.ctr = c + 1
             /\ game.n <= m
             /\ \A j \in Ids : j < game.n =>
                  file[Other(c % 2)][At(j, Next(r))] = Sector(j, c + 1)

\* The editor has the file itself, and the slot of that save.
Viewing(c) == view.open => ram = file /\ (c > 0 => view.slot = c % 2 /\ ~view.locked)

CleanInv == damages = 0 =>
  \E c \in 0 .. MaxCounter, r \in Ids, m \in Ids :
    Standing(c, r, m) /\ Trying(c, r, m) /\ Viewing(c)

\* A slot that is written over in part has not every section: the first one
\* that the new save lacks went with the old one.
LEMMA PartlyWritten ==
  ASSUME N >= 3, NEW slot, NEW r \in Ids, NEW c \in Nat, NEW m \in Ids,
         Overlaid(slot, r, c, m), AllIds(slot)
  PROVE  c > 1 /\ \A p \in Ids : slot[p].ctr = c - 1
<1>1. N \in Nat /\ Next(r) \in Ids  BY SlotsAssumption, TwoOn
<1>2. \A p \in Ids : slot[p] # Blank
  <2>1. ASSUME NEW p \in Ids, slot[p] = Blank PROVE FALSE
    <3>1. N \in {slot[q].id : q \in Ids}  BY <2>1 DEF Blank
    <3>2. N \in Ids  BY <3>1 DEF AllIds
    <3>3. QED  BY <1>1, <3>2 DEF Ids
  <2>2. QED  BY <2>1
<1>3. \A j \in Ids : /\ j < m => slot[At(j, Next(r))] = Sector(j, c + 1)
                     /\ j >= m => c > 1 /\ slot[At(j, Next(r))] = Sector((j + 2) % N, c - 1)
  <2>1. TAKE j \in Ids
  <2>2. slot[At(j, Next(r))] # Blank  BY <1>1, <1>2, Positions
  <2>3. j < m => ~(j >= m)  BY DEF Ids
  <2>4. QED  BY <2>2, <2>3 DEF Overlaid
<1>4. \A i \in Ids : \E j \in Ids : slot[At(j, Next(r))].id = i
  <2>1. TAKE i \in Ids
  <2>2. PICK p \in Ids : slot[p].id = i  BY DEF AllIds
  <2>3. PICK j \in Ids : At(j, Next(r)) = p  BY <1>1, Positions
  <2>4. QED  BY <2>2, <2>3
<1>5. \A j \in Ids : (j + 2) % N = IF j + 2 < N THEN j + 2 ELSE j + 2 - N  BY TwoOn
<1>6. m = 0
  <2>1. SUFFICES ASSUME m > 0 PROVE FALSE  BY DEF Ids
  <2> DEFINE i == IF m = 1 THEN 2 ELSE m
  <2>2. i \in Ids  BY <1>1, <2>1 DEF Ids
  <2>3. PICK j \in Ids : slot[At(j, Next(r))].id = i  BY <1>4, <2>2
  <2>4. CASE j < m
    <3>1. slot[At(j, Next(r))] = Sector(j, c + 1)  BY <1>3, <2>4
    <3>2. j = i  BY <2>3, <3>1 DEF Sector
    <3>3. QED  BY <2>1, <2>4, <3>2 DEF Ids
  <2>5. CASE j >= m
    <3>1. slot[At(j, Next(r))] = Sector((j + 2) % N, c - 1)  BY <1>3, <2>5
    <3>2. (j + 2) % N = i  BY <2>3, <3>1 DEF Sector
    <3>3. (IF j + 2 < N THEN j + 2 ELSE j + 2 - N) = i  BY <1>5, <3>2
    <3>4. QED  BY <1>1, <2>1, <2>5, <3>3 DEF Ids
  <2>6. QED  BY <2>4, <2>5 DEF Ids
<1>7. ASSUME NEW p \in Ids PROVE c > 1 /\ slot[p].ctr = c - 1
  <2>1. PICK j \in Ids : At(j, Next(r)) = p  BY <1>1, Positions
  <2>2. j >= m  BY <1>6 DEF Ids
  <2>3. c > 1 /\ slot[p] = Sector((j + 2) % N, c - 1)  BY <1>3, <2>1, <2>2
  <2>4. QED  BY <2>3 DEF Sector
<1>8. 0 \in Ids  BY WrittenType
<1>9. QED  BY <1>7, <1>8

\* A slot as the game left it when it finished.
LEMMA WholeSlot ==
  ASSUME NEW r \in Ids, NEW c \in Nat
  PROVE  /\ AllIds(Written(r, c)) /\ IsValid(Written(r, c))
         /\ \A p \in Ids : Written(r, c)[p].ctr = c /\ Written(r, c)[p].sum
<1>1. \A p \in Ids : (p - r + N) % N \in Ids
  <2>1. TAKE p \in Ids
  <2>2. p - r + N \in Int  BY SlotsAssumption DEF Ids
  <2>3. QED  BY <2>2, WrittenType
<1>2. \A p \in Ids : /\ Written(r, c)[p].ctr = c /\ Written(r, c)[p].sum
                     /\ Written(r, c)[p].id \in Ids
  BY <1>1 DEF Written, Sector
<1>3. AllIds(Written(r, c))
  <2>1. {Written(r, c)[p].id : p \in Ids} \subseteq Ids  BY <1>2
  <2>2. ASSUME NEW j \in Ids PROVE j \in {Written(r, c)[p].id : p \in Ids}
    <3>1. At(j, r) \in Ids /\ Written(r, c)[At(j, r)] = Sector(j, c)  BY Positions
    <3>2. Written(r, c)[At(j, r)].id = j  BY <3>1 DEF Sector
    <3>3. QED  BY <3>1, <3>2
  <2>3. QED  BY <2>1, <2>2 DEF AllIds
<1>4. IsValid(Written(r, c))
  <2>1. 0 \in Ids  BY WrittenType
  <2>2. Written(r, c)[0] # Blank  BY <1>2, <2>1 DEF Blank
  <2>3. QED  BY <2>1, <2>2 DEF IsValid, Signed
<1>5. QED  BY <1>2, <1>3, <1>4

\* A set of numbers has a least one.
LEMMA Least ==
  ASSUME NEW S, S \subseteq Nat, S # {}
  PROVE  \E x \in S : \A y \in S : x <= y
<1> DEFINE T == {0 .. x : x \in S}
<1>1. T \subseteq FiniteSubsetsOf(Nat) /\ T # {}
  <2>1. ASSUME NEW x \in S PROVE 0 .. x \in FiniteSubsetsOf(Nat)
    <3>1. IsFiniteSet(0 .. x)  BY FS_Interval
    <3>2. 0 .. x \in SUBSET Nat  OBVIOUS
    <3>3. QED  BY <3>1, <3>2 DEF FiniteSubsetsOf
  <2>2. T \subseteq FiniteSubsetsOf(Nat)  BY <2>1
  <2>3. PICK x \in S : TRUE  OBVIOUS
  <2>4. 0 .. x \in T  OBVIOUS
  <2>5. QED  BY <2>2, <2>4
<1>2. PICK m \in T : \A t \in T : ~(<<t, m>> \in StrictSubsetOrdering(Nat))
  <2> HIDE DEF T
  <2>1. IsWellFoundedOn(StrictSubsetOrdering(Nat), FiniteSubsetsOf(Nat))
    BY FS_StrictSubsetOrderingWellFounded
  <2>2. QED  BY <1>1, <2>1, WFMin
<1>3. PICK x \in S : m = 0 .. x  OBVIOUS
<1>4. ASSUME NEW y \in S PROVE x <= y
  <2>1. SUFFICES ASSUME y < x PROVE FALSE  BY <1>4
  <2>2. 0 .. y \subseteq 0 .. x /\ x \in 0 .. x /\ x \notin 0 .. y  BY <2>1
  <2>3. 0 .. y \in SUBSET Nat /\ 0 .. x \in SUBSET Nat  OBVIOUS
  <2>4. <<0 .. y, 0 .. x>> \in StrictSubsetOrdering(Nat)
    BY <2>2, <2>3 DEF StrictSubsetOrdering
  <2>5. QED  BY <1>2, <1>3, <2>4
<1>5. QED  BY <1>4

\* The counter of a slot is that of one of its sectors.
LEMMA CounterOf ==
  ASSUME NEW slot, IsValid(slot)
  PROVE  \E p \in Ids : Signed(slot[p]) /\ Counter(slot) = slot[p].ctr
<1> DEFINE S == {p \in Ids : Signed(slot[p])}
<1>1. S # {} /\ S \subseteq Nat /\ S \subseteq Ids  BY SlotsAssumption DEF IsValid, Ids
<1>2. \E p \in S : \A q \in S : p <= q
  <2> HIDE DEF S
  <2>1. QED  BY <1>1, Least
<1>3. Min(S) \in S  BY <1>2 DEF Min
<1>4. QED  BY <1>3 DEF Counter

\* What stands is what the game loads next, what it counts on from, and what
\* the editor shows.
LEMMA StandingShown ==
  ASSUME N >= 3, SlotsTypeOK, NEW c \in 0 .. MaxCounter, NEW r \in Ids, NEW m \in Ids,
         Standing(c, r, m)
  PROVE  /\ c = 0 => MayLoad(file) = {}
         /\ c > 0 => /\ MayLoad(file) = {c % 2} /\ LastCounter(file[c % 2]) = c
                     /\ \A p \in Ids : file[c % 2][p].id = 0 => p = r
                     /\ Shown(file) = c % 2 /\ ~GameLoadsOther(file)
<1> DEFINE k == c % 2
           o == Other(c % 2)
<1>1. /\ c \in Nat /\ N \in Nat /\ k \in SlotNos /\ o \in SlotNos /\ k # o
      /\ Other(o) = k /\ \A x \in SlotNos : x = k \/ x = o
  BY SlotsAssumption DEF SlotNos, Other
<1>2. Overlaid(file[o], r, c, m)  BY DEF Standing
<1>3. AllIds(file[o]) => c > 1 /\ \A p \in Ids : file[o][p].ctr = c - 1
  BY <1>1, <1>2, PartlyWritten
<1>4. N - 1 \in Ids /\ 0 \in Ids  BY WrittenType
<1>5. CASE c = 0
  <2>1. k = 0 /\ file[k] = [p \in Ids |-> Blank]  BY <1>5 DEF Standing
  <2>2. ~AllIds(file[k])
    <3>1. AllIds(file[k]) => file[k][0].id \in Ids  BY <1>4 DEF AllIds
    <3>2. file[k][0].id = N /\ N \notin Ids  BY <1>1, <1>4, <2>1 DEF Blank, Ids
    <3>3. QED  BY <3>1, <3>2
  <2>3. ~AllIds(file[o])  BY <1>3, <1>5
  <2>4. MayLoad(file) = {}
    <3>1. ASSUME NEW x \in SlotNos PROVE ~Accepts(file[x])
      <4>1. x = k \/ x = o  BY <1>1
      <4>2. QED  BY <2>2, <2>3, <4>1 DEF Accepts
    <3>2. QED  BY <3>1 DEF MayLoad
  <2>5. QED  BY <1>5, <2>4
<1>6. CASE c > 0
  <2>1. file[k] = Written(r, c)  BY <1>6 DEF Standing
  <2>2. /\ AllIds(file[k]) /\ IsValid(file[k])
        /\ \A p \in Ids : file[k][p].ctr = c /\ file[k][p].sum
        /\ \A p \in Ids : file[k][p].id = 0 => p = r
    <3>1. /\ AllIds(Written(r, c)) /\ IsValid(Written(r, c))
          /\ \A p \in Ids : Written(r, c)[p].ctr = c /\ Written(r, c)[p].sum
      BY <1>1, WholeSlot
    <3>2. \A p \in Ids : Written(r, c)[p].id = 0 => p = r
      <4>1. \A w : \A p \in Ids : Written(r, w)[p].id = 0 => p = r  BY Positions
      <4>2. PICK w : w = c  OBVIOUS
      <4>3. QED  BY <4>1, <4>2
    <3>3. QED  BY <2>1, <3>1, <3>2
  <2>3. Accepts(file[k]) /\ GameOk(file[k], TRUE) /\ Consistent(file[k]) /\ LastCounter(file[k]) = c
    BY <1>4, <2>2 DEF Accepts, GameOk, Consistent, LastCounter
  <2>4. AllIds(file[o]) => LastCounter(file[o]) = c - 1
    BY <1>3, <1>4 DEF LastCounter
  <2>5. MayLoad(file) = {k}
    <3>1. k \in MayLoad(file)
      <4>1. Accepts(file[o]) => LastCounter(file[k]) >= LastCounter(file[o])
        BY <1>1, <2>3, <2>4 DEF Accepts
      <4>2. QED  BY <1>1, <2>3, <4>1 DEF MayLoad
    <3>2. o \notin MayLoad(file)
      <4>1. ASSUME o \in MayLoad(file) PROVE FALSE
        <5>1. Accepts(file[o]) /\ LastCounter(file[o]) >= LastCounter(file[k])
          BY <1>1, <2>3, <4>1 DEF MayLoad
        <5>2. c - 1 >= c  BY <2>3, <2>4, <5>1 DEF Accepts
        <5>3. QED  BY <1>1, <5>2
      <4>2. QED  BY <4>1
    <3>3. MayLoad(file) \subseteq SlotNos  BY DEF MayLoad
    <3>4. QED  BY <1>1, <3>1, <3>2, <3>3
  <2>6. Shown(file) = k
    <3>1. ASSUME IsValid(file[o]), Consistent(file[o]) PROVE Counter(file[o]) = c - 1
      <4>1. AllIds(file[o])  BY <3>1 DEF Consistent
      <4>2. PICK p \in Ids : Counter(file[o]) = file[o][p].ctr  BY <3>1, CounterOf
      <4>3. QED  BY <1>3, <4>1, <4>2
    <3>2. Counter(file[k]) = c
      <4>1. PICK p \in Ids : Counter(file[k]) = file[k][p].ctr  BY <2>2, CounterOf
      <4>2. QED  BY <2>2, <4>1
    <3>3. k \in {0, 1} /\ o = 1 - k  BY <1>1 DEF SlotNos, Other
    <3> HIDE DEF k, o
    <3>4. CASE IsValid(file[o]) /\ Consistent(file[o])
      <4>1. Counter(file[o]) < Counter(file[k]) /\ ~(Counter(file[o]) > Counter(file[k]))
            /\ Counter(file[k]) > Counter(file[o])
        BY <1>1, <3>1, <3>2, <3>4
      <4>2. CASE k = 0
        <5>1. o = 1  BY <3>3, <4>2
        <5>2. QED  BY <2>2, <2>3, <3>4, <4>1, <4>2, <5>1 DEF Shown, ByCounter
      <4>3. CASE k = 1
        <5>1. o = 0  BY <3>3, <4>3
        <5>2. QED  BY <2>2, <2>3, <3>4, <4>1, <4>3, <5>1 DEF Shown, ByCounter
      <4>4. QED  BY <3>3, <4>2, <4>3
    <3>5. CASE IsValid(file[o]) /\ ~Consistent(file[o])
      <4>1. CASE k = 0  BY <2>2, <2>3, <3>3, <3>5, <4>1 DEF Shown
      <4>2. CASE k = 1  BY <2>2, <2>3, <3>3, <3>5, <4>2 DEF Shown
      <4>3. QED  BY <3>3, <4>1, <4>2
    <3>6. CASE ~IsValid(file[o])
      <4>1. CASE k = 0  BY <2>2, <2>3, <3>3, <3>6, <4>1 DEF Shown, ByCounter
      <4>2. CASE k = 1  BY <2>2, <2>3, <3>3, <3>6, <4>2 DEF Shown, ByCounter
      <4>3. QED  BY <3>3, <4>1, <4>2
    <3>7. QED  BY <3>4, <3>5, <3>6
  <2>7. ~GameLoadsOther(file)
    <3>1. ASSUME GameLoadsOther(file) PROVE FALSE
      <4>1. GameOk(file[o], FALSE) /\ LastCounter(file[o]) >= LastCounter(file[k])
        BY <2>3, <2>6, <3>1 DEF GameLoadsOther
      <4>2. c - 1 >= c  BY <2>3, <2>4, <4>1 DEF GameOk
      <4>3. QED  BY <1>1, <4>2
    <3>2. QED  BY <3>1
  <2>8. QED  BY <1>6, <2>2, <2>3, <2>5, <2>6, <2>7
<1>7. QED  BY <1>1, <1>5, <1>6

\* A step that leaves the game's work alone leaves it standing.
LEMMA StillStanding ==
  ASSUME NEW c, NEW r, NEW m, Standing(c, r, m), file' = file, last' = last
  PROVE  Standing(c, r, m)'
  BY DEF Standing, Overlaid

\* Every checksum that is there fits.
LEMMA AllSummed ==
  ASSUME N >= 3, SlotsTypeOK, NEW c \in 0 .. MaxCounter, NEW r \in Ids, NEW m \in Ids,
         Standing(c, r, m), NEW k \in SlotNos, NEW p \in Ids
  PROVE  \/ file[k][p] = Blank
         \/ file[k][p] \in [id : Ids, ctr : 0 .. MaxCounter + 1, sum : {TRUE}]
<1>1. file[k][p] \in Sectors  BY DEF SlotsTypeOK
<1>2. file[k][p] = Blank \/ file[k][p].sum
  <2>1. c % 2 \in {0, 1}  BY SlotsAssumption
  <2>2. CASE k = c % 2
    <3>1. CASE c = 0
      <4>1. k = 0  BY <2>2, <3>1
      <4>2. QED  BY <3>1, <4>1 DEF Standing
    <3>2. CASE c # 0
      <4>1. file[k] = Written(r, c)  BY <2>2, <3>2 DEF Standing
      <4>2. c \in Nat  BY SlotsAssumption
      <4>3. QED  BY <4>1, <4>2, WholeSlot
    <3>3. QED  BY <3>1, <3>2
  <2>3. CASE k # c % 2
    <3>1. k = Other(c % 2)  BY <2>1, <2>3 DEF Other, SlotNos
    <3>2. Overlaid(file[k], r, c, m)  BY <3>1 DEF Standing
    <3>3. Next(r) \in Ids  BY TwoOn
    <3>4. PICK j \in Ids : At(j, Next(r)) = p  BY <3>3, Positions
    <3>5. file[k][p] \in {Sector(j, c + 1), Sector((j + 2) % N, c - 1), Blank}
      BY <3>2, <3>4 DEF Overlaid
    <3>6. QED  BY <3>5 DEF Sector
  <2>4. QED  BY <2>2, <2>3
<1>3. QED  BY <1>1, <1>2 DEF Sectors

-----------------------------------------------------------------------------
LEMMA CleanInit == ASSUME N >= 3, SlotsInit PROVE CleanInv
<1>1. 0 \in 0 .. MaxCounter /\ 0 \in Ids /\ Next(0) \in Ids
  BY SlotsAssumption, WrittenType, TwoOn
<1>2. Standing(0, 0, 0)
  <2>1. 0 % 2 = 0 /\ Other(0) \in SlotNos  BY DEF Other, SlotNos
  <2>2. \A j \in Ids : At(j, Next(0)) \in Ids  BY <1>1, Positions
  <2>3. \A j \in Ids : file[Other(0)][At(j, Next(0))] = Blank
    BY <2>1, <2>2 DEF SlotsInit
  <2>4. \A j \in Ids : ~(j < 0)  BY DEF Ids
  <2>5. Overlaid(file[Other(0)], 0, 0, 0)  BY <2>3, <2>4 DEF Overlaid
  <2>6. QED  BY <2>1, <2>5 DEF Standing, SlotsInit, SlotNos
<1>3. Trying(0, 0, 0) /\ Viewing(0)
  BY DEF Trying, Viewing, SlotsInit, NoGame, NoView
<1>4. QED  BY <1>1, <1>2, <1>3 DEF CleanInv

\* The game's next save is of the next number, in the other slot, one further.
LEMMA SaveBegins ==
  ASSUME N >= 3, SlotsInv, GameSaves,
         NEW c \in 0 .. MaxCounter, NEW r \in Ids, NEW m \in Ids, Standing(c, r, m)
  PROVE  Standing(c, r, m)' /\ Trying(c, r, m)' /\ Viewing(c)'
<1>1. /\ c = 0 => MayLoad(file) = {}
      /\ c > 0 => /\ MayLoad(file) = {c % 2} /\ LastCounter(file[c % 2]) = c
                  /\ \A p \in Ids : file[c % 2][p].id = 0 => p = r
  BY StandingShown DEF SlotsInv
<1>2. PICK k \in IF MayLoad(file) = {} THEN {-1} ELSE MayLoad(file), p \in Ids :
        LET n == IF k = -1 THEN 0 ELSE LastCounter(file[k])
        IN  /\ IF k = -1 THEN p = 0 ELSE file[k][p].id = 0
            /\ game' = [on |-> TRUE, slot |-> (n + 1) % 2, rot |-> (p + 1) % N,
                        ctr |-> n + 1, n |-> 0]
  BY DEF GameSaves
<1>3. (IF k = -1 THEN 0 ELSE LastCounter(file[k])) = c /\ p = r
  <2>1. CASE c = 0
    <3>1. k = -1  BY <1>1, <1>2, <2>1
    <3>2. r = 0  BY <2>1 DEF Standing
    <3>3. QED  BY <1>2, <2>1, <3>1, <3>2
  <2>2. CASE c > 0
    <3>1. MayLoad(file) = {c % 2} /\ c % 2 \in {0, 1}  BY <1>1, <2>2, SlotsAssumption
    <3>2. k = c % 2 /\ k # -1  BY <3>1
    <3>3. QED  BY <1>1, <1>2, <2>2, <3>2
  <2>3. QED  BY <2>1, <2>2
<1>4. game' = [on |-> TRUE, slot |-> (c + 1) % 2, rot |-> (r + 1) % N, ctr |-> c + 1, n |-> 0]
  BY <1>2, <1>3
<1>5. (c + 1) % 2 = Other(c % 2)  BY SlotsAssumption DEF Other
<1>6. Trying(c, r, m)'
  <2>1. \A j \in Ids : ~(j < 0)  BY DEF Ids
  <2>2. 0 <= m  BY DEF Ids
  <2>3. game'.slot = Other(c % 2) /\ game'.rot = Next(r) /\ game'.ctr = c + 1 /\ game'.n = 0
    BY <1>4, <1>5 DEF Next
  <2>4. QED  BY <2>1, <2>2, <2>3 DEF Trying
<1>7. Viewing(c)'  BY DEF Viewing, GameSaves, Closed, NoView
<1>8. QED  BY <1>6, <1>7, StillStanding DEF GameSaves

\* What a write of the game may change: one sector of the slot it writes.
LEMMA OneSector ==
  ASSUME N >= 3, SlotsInv, game.on, NEW s,
         NEW c \in 0 .. MaxCounter, NEW r \in Ids, NEW m \in Ids,
         Standing(c, r, m), Trying(c, r, m),
         file' = [file EXCEPT ![game.slot][At(game.n, game.rot)] = s]
  PROVE  /\ file'[c % 2] = file[c % 2] /\ (c = 0 => file'[0] = file[0])
         /\ file'[Other(c % 2)][At(game.n, Next(r))] = s
         /\ \A j \in Ids \ {game.n} :
              file'[Other(c % 2)][At(j, Next(r))] = file[Other(c % 2)][At(j, Next(r))]
         /\ game \in [on : {TRUE}, slot : SlotNos, rot : Ids, ctr : 1 .. MaxCounter, n : Ids]
         /\ ~view.open
<1> DEFINE k == c % 2
           o == Other(c % 2)
<1>1. k \in SlotNos /\ o \in SlotNos /\ k # o /\ (c = 0 => k = 0)
  BY SlotsAssumption DEF SlotNos, Other
<1>2. game \in [on : {TRUE}, slot : SlotNos, rot : Ids, ctr : 1 .. MaxCounter, n : Ids]
  <2>1. game \in {NoGame} \cup [on : {TRUE}, slot : SlotNos, rot : Ids,
                               ctr : 1 .. MaxCounter, n : Ids]
    BY DEF SlotsInv, SlotsTypeOK
  <2>2. game # NoGame  BY DEF NoGame
  <2>3. QED  BY <2>1, <2>2
<1>3. ~view.open
  <2>1. game # NoGame  BY DEF NoGame
  <2>2. QED  BY <2>1 DEF SlotsInv, EditInv
<1>4. game.slot = o /\ game.rot = Next(r) /\ Next(r) \in Ids  BY TwoOn DEF Trying
<1>5. file \in [SlotNos -> [Ids -> Sectors]]  BY DEF SlotsInv, SlotsTypeOK
<1> HIDE DEF k, o
<1>6. file' = [file EXCEPT ![o] = [file[o] EXCEPT ![At(game.n, Next(r))] = s]]
  BY <1>1, <1>4, <1>5
<1>7. \A j \in Ids : At(j, Next(r)) \in Ids  BY <1>4, Positions
<1>8. \A j \in Ids \ {game.n} : At(j, Next(r)) # At(game.n, Next(r))
  BY <1>2, <1>4, Positions
<1>9. file'[k] = file[k]  BY <1>1, <1>5, <1>6
<1>10. file'[o] = [file[o] EXCEPT ![At(game.n, Next(r))] = s] /\ file[o] \in [Ids -> Sectors]
  BY <1>1, <1>5, <1>6
<1>11. file'[o][At(game.n, Next(r))] = s  BY <1>2, <1>7, <1>10
<1>12. \A j \in Ids \ {game.n} : file'[o][At(j, Next(r))] = file[o][At(j, Next(r))]
  BY <1>7, <1>8, <1>10
<1>13. QED  BY <1>1, <1>2, <1>3, <1>9, <1>11, <1>12 DEF k, o

LEMMA SaveGoesOn ==
  ASSUME N >= 3, SlotsInv, GameWrites, game.n # N - 1,
         NEW c \in 0 .. MaxCounter, NEW r \in Ids, NEW m \in Ids,
         Standing(c, r, m), Trying(c, r, m)
  PROVE  \E l \in Ids : Standing(c, r, l)' /\ Trying(c, r, l)' /\ Viewing(c)'
<1> DEFINE k == c % 2
           o == Other(c % 2)
           n == game.n
<1>1. /\ file' = [file EXCEPT ![game.slot][At(game.n, game.rot)] = Sector(game.n, game.ctr)]
      /\ game' = [game EXCEPT !.n = @ + 1] /\ game.on /\ last' = last /\ view' = view
  BY DEF GameWrites
<1>2. /\ file'[k] = file[k] /\ (c = 0 => file'[0] = file[0])
      /\ file'[o][At(n, Next(r))] = Sector(n, game.ctr)
      /\ \A j \in Ids \ {n} : file'[o][At(j, Next(r))] = file[o][At(j, Next(r))]
      /\ game \in [on : {TRUE}, slot : SlotNos, rot : Ids, ctr : 1 .. MaxCounter, n : Ids]
      /\ ~view.open
  BY <1>1, OneSector
<1>3. /\ game.slot = o /\ game.rot = Next(r) /\ game.ctr = c + 1 /\ n <= m
      /\ \A j \in Ids : j < n => file[o][At(j, Next(r))] = Sector(j, c + 1)
  BY <1>1 DEF Trying
<1>4. n \in Ids /\ n + 1 \in Ids /\ n # n + 1 /\ N \in Nat
  BY <1>2, SlotsAssumption DEF Ids
<1>5. PICK l \in Ids : n + 1 <= l /\ \A j \in Ids : j # n => (j < l <=> j < m)
  <2>1. CASE m > n  BY <1>4, <2>1 DEF Ids
  <2>2. CASE m = n  BY <1>4, <2>2 DEF Ids
  <2>3. QED  BY <1>3, <1>4, <2>1, <2>2 DEF Ids
<1> HIDE DEF k, o, n
<1>6. Overlaid(file'[o], r, c, l)
  <2>1. ASSUME NEW j \in Ids
        PROVE  file'[o][At(j, Next(r))] \in
                 IF j < l THEN {Sector(j, c + 1), Blank}
                 ELSE IF c > 1 THEN {Sector((j + 2) % N, c - 1), Blank} ELSE {Blank}
    <3>1. CASE j = n
      <4>1. j < l  BY <1>4, <1>5, <3>1 DEF Ids
      <4>2. file'[o][At(j, Next(r))] = Sector(j, c + 1)  BY <1>2, <1>3, <3>1
      <4>3. QED  BY <4>1, <4>2
    <3>2. CASE j # n
      <4>1. file'[o][At(j, Next(r))] = file[o][At(j, Next(r))]  BY <1>2, <3>2
      <4>2. Overlaid(file[o], r, c, m)  BY DEF Standing, o
      <4>3. (j < l) <=> (j < m)  BY <1>5, <3>2
      <4>4. QED  BY <4>1, <4>2, <4>3 DEF Overlaid
    <3>3. QED  BY <3>1, <3>2
  <2>2. QED  BY <2>1 DEF Overlaid
<1>7. Standing(c, r, l)'
  <2>1. last' = IF c = 0 THEN -1 ELSE k  BY <1>1 DEF Standing, k
  <2>2. IF c = 0 THEN r = 0 /\ file'[0] = [p \in Ids |-> Blank] ELSE file'[k] = Written(r, c)
    BY <1>2 DEF Standing, k
  <2>3. QED  BY <1>6, <2>1, <2>2 DEF Standing, k, o
<1>8. Trying(c, r, l)'
  <2>1. game'.slot = o /\ game'.rot = Next(r) /\ game'.ctr = c + 1 /\ game'.n = n + 1
    BY <1>1, <1>2, <1>3 DEF n
  <2>2. ASSUME NEW j \in Ids, j < n + 1 PROVE file'[o][At(j, Next(r))] = Sector(j, c + 1)
    <3>1. CASE j = n  BY <1>2, <1>3, <3>1
    <3>2. CASE j # n
      <4>1. j < n  BY <1>4, <2>2, <3>2 DEF Ids
      <4>2. QED  BY <1>2, <1>3, <3>2, <4>1
    <3>3. QED  BY <3>1, <3>2
  <2>3. QED  BY <1>5, <2>1, <2>2 DEF Trying, o
<1>9. Viewing(c)'  BY <1>1, <1>2 DEF Viewing
<1>10. QED  BY <1>5, <1>7, <1>8, <1>9

LEMMA SaveEnds ==
  ASSUME N >= 3, SlotsInv, GameWrites, game.n = N - 1,
         NEW c \in 0 .. MaxCounter, NEW r \in Ids, NEW m \in Ids,
         Standing(c, r, m), Trying(c, r, m)
  PROVE  /\ c + 1 \in 0 .. MaxCounter
         /\ Standing(c + 1, Next(r), 0)' /\ Trying(c + 1, Next(r), 0)' /\ Viewing(c + 1)'
<1> DEFINE k == c % 2
           o == Other(c % 2)
           n == game.n
<1>1. /\ file' = [file EXCEPT ![game.slot][At(game.n, game.rot)] = Sector(game.n, game.ctr)]
      /\ game' = NoGame /\ game.on /\ last' = game.slot /\ view' = view
  BY DEF GameWrites
<1>2. /\ file'[k] = file[k] /\ (c = 0 => file'[0] = file[0])
      /\ file'[o][At(n, Next(r))] = Sector(n, game.ctr)
      /\ \A j \in Ids \ {n} : file'[o][At(j, Next(r))] = file[o][At(j, Next(r))]
      /\ game \in [on : {TRUE}, slot : SlotNos, rot : Ids, ctr : 1 .. MaxCounter, n : Ids]
      /\ ~view.open
  BY <1>1, OneSector
<1>3. /\ game.slot = o /\ game.rot = Next(r) /\ game.ctr = c + 1
      /\ \A j \in Ids : j < n => file[o][At(j, Next(r))] = Sector(j, c + 1)
  BY <1>1 DEF Trying
<1>4. c + 1 \in 0 .. MaxCounter /\ c + 1 # 0 /\ c \in Nat
  BY <1>2, <1>3, SlotsAssumption
<1>5. (c + 1) % 2 = o /\ Other(o) = k /\ k \in SlotNos /\ o \in SlotNos
  BY SlotsAssumption DEF Other, SlotNos
<1>6. Next(r) \in Ids /\ Next(Next(r)) \in Ids  BY TwoOn
<1>7. \A j \in Ids : file'[o][At(j, Next(r))] = Sector(j, c + 1)
  <2>1. TAKE j \in Ids
  <2>2. CASE j = n  BY <1>2, <1>3, <2>2
  <2>3. CASE j # n
    <3>1. j < n  BY <2>3, SlotsAssumption DEF Ids
    <3>2. QED  BY <1>2, <1>3, <2>3, <3>1
  <2>4. QED  BY <2>2, <2>3
<1>8. \A w : \A j \in Ids : Written(Next(r), w)[At(j, Next(r))] = Sector(j, w)
  BY <1>6, Positions
<1>9. file'[o] = Written(Next(r), c + 1)
  <2>1. SlotsTypeOK'  BY GameKeeps DEF SlotsInv
  <2>2. file'[o] \in [Ids -> Sectors]  BY <1>5, <2>1 DEF SlotsTypeOK
  <2>3. ASSUME NEW p \in Ids PROVE file'[o][p] = Written(Next(r), c + 1)[p]
    <3>1. PICK j \in Ids : At(j, Next(r)) = p  BY <1>6, Positions
    <3>2. QED  BY <1>7, <1>8, <3>1
  <2>4. Written(Next(r), c + 1) = [p \in Ids |-> Written(Next(r), c + 1)[p]]
    BY DEF Written
  <2>5. QED  BY <2>2, <2>3, <2>4
<1> HIDE DEF k, o, n
<1>10. Overlaid(file'[k], Next(r), c + 1, 0)
  <2>1. PICK w \in Nat : w = c + 1  BY <1>4
  <2>2. ASSUME NEW j \in Ids
        PROVE  file'[k][At(j, Next(Next(r)))] \in
                 IF w > 1 THEN {Sector((j + 2) % N, w - 1), Blank} ELSE {Blank}
    <3>1. CASE c = 0
      <4>1. file'[k] = [p \in Ids |-> Blank]  BY <1>2, <1>5, <3>1 DEF Standing, k, SlotNos
      <4>2. At(j, Next(Next(r))) \in Ids  BY <1>6, Positions
      <4>3. file'[k][At(j, Next(Next(r)))] = Blank  BY <4>1, <4>2
      <4>4. QED  BY <4>3
    <3>2. CASE c # 0
      <4>1. file'[k] = Written(r, c)  BY <1>2, <3>2 DEF Standing, k
      <4>2. file'[k][At(j, Next(Next(r)))] = Sector((j + 2) % N, c)  BY <4>1, TwoOn
      <4>3. w > 1 /\ w - 1 = c  BY <1>4, <2>1, <3>2
      <4>4. QED  BY <4>2, <4>3
    <3>3. QED  BY <3>1, <3>2
  <2>3. \A j \in Ids : ~(j < 0)  BY DEF Ids
  <2>4. Overlaid(file'[k], Next(r), w, 0)  BY <2>2, <2>3 DEF Overlaid
  <2>5. QED  BY <2>1, <2>4
<1>11. Standing(c + 1, Next(r), 0)'
  <2>1. last' = (c + 1) % 2  BY <1>1, <1>3, <1>5
  <2>2. file'[(c + 1) % 2] = Written(Next(r), c + 1)  BY <1>5, <1>9
  <2>3. Overlaid(file'[Other((c + 1) % 2)], Next(r), c + 1, 0)  BY <1>5, <1>10
  <2>4. QED  BY <1>4, <2>1, <2>2, <2>3 DEF Standing
<1>12. Trying(c + 1, Next(r), 0)' /\ Viewing(c + 1)'
  BY <1>1, <1>2 DEF Trying, Viewing, NoGame
<1>13. QED  BY <1>4, <1>11, <1>12

LEMMA SaveIsCut ==
  ASSUME N >= 3, SlotsInv, GameCut,
         NEW c \in 0 .. MaxCounter, NEW r \in Ids, NEW m \in Ids,
         Standing(c, r, m), Trying(c, r, m)
  PROVE  Standing(c, r, m)' /\ Trying(c, r, m)' /\ Viewing(c)'
<1> DEFINE k == c % 2
           o == Other(c % 2)
<1>1. PICK s \in {file[game.slot][At(game.n, game.rot)], Blank} :
        file' = [file EXCEPT ![game.slot][At(game.n, game.rot)] = s]
  BY DEF GameCut
<1>2. game.on /\ game' = NoGame /\ last' = last /\ view' = view  BY DEF GameCut
<1>3. /\ file'[k] = file[k] /\ (c = 0 => file'[0] = file[0])
      /\ file'[o][At(game.n, Next(r))] = s
      /\ \A j \in Ids \ {game.n} : file'[o][At(j, Next(r))] = file[o][At(j, Next(r))]
      /\ game \in [on : {TRUE}, slot : SlotNos, rot : Ids, ctr : 1 .. MaxCounter, n : Ids]
      /\ ~view.open
  BY <1>1, <1>2, OneSector
<1>4. game.slot = o /\ game.rot = Next(r)  BY <1>2 DEF Trying
<1>5. Overlaid(file[o], r, c, m)  BY DEF Standing
<1> HIDE DEF k, o
<1>6. \A j \in Ids : file'[o][At(j, Next(r))] \in {file[o][At(j, Next(r))], Blank}
  BY <1>1, <1>3, <1>4
<1>7. Overlaid(file'[o], r, c, m)  BY <1>5, <1>6 DEF Overlaid
<1>8. Standing(c, r, m)'  BY <1>2, <1>3, <1>7 DEF Standing, k, o
<1>9. QED  BY <1>2, <1>3, <1>8 DEF Trying, Viewing, NoGame

LEMMA EditorLooksOn ==
  ASSUME N >= 3, SlotsInv, Open \/ Stage \/ Save \/ Close,
         NEW c \in 0 .. MaxCounter, NEW r \in Ids, NEW m \in Ids,
         Standing(c, r, m), Trying(c, r, m), Viewing(c)
  PROVE  Standing(c, r, m)' /\ Trying(c, r, m)' /\ Viewing(c)'
<1>1. game' = game /\ last' = last  BY DEF Open, Stage, Save, Close
<1>2. SlotsTypeOK  BY DEF SlotsInv
<1>3. CASE Open
  <2>1. file' = file /\ ram' = file /\ game = NoGame
        /\ view' = [open |-> TRUE, slot |-> Shown(file), locked |-> GameLoadsOther(file)]
    BY <1>3 DEF Open, Closed
  <2>2. c > 0 => Shown(file) = c % 2 /\ ~GameLoadsOther(file)  BY <1>2, StandingShown
  <2>3. view'.slot = Shown(file) /\ (view'.locked <=> GameLoadsOther(file))  BY <2>1
  <2>4. Viewing(c)'  BY <2>1, <2>2, <2>3 DEF Viewing
  <2>5. Trying(c, r, m)'  BY <1>1, <2>1 DEF Trying, NoGame
  <2>6. QED  BY <1>1, <2>1, <2>4, <2>5, StillStanding
<1>4. CASE Stage
  <2>1. view.open /\ file' = file /\ view' = view /\ ram = file  BY <1>4 DEF Stage, Viewing
  <2>2. view.slot \in SlotNos
    <3>1. view \in {NoView} \cup [open : {TRUE}, slot : SlotNos, locked : BOOLEAN]
      BY <1>2 DEF SlotsTypeOK
    <3>2. view # NoView  BY <2>1 DEF NoView
    <3>3. QED  BY <3>1, <3>2
  <2>3. PICK edited \in SUBSET Ids :
          LET here == {p \in Ids : ram[view.slot][p].id \in edited
                                   /\ Find(ram[view.slot], ram[view.slot][p].id) = p}
          IN  ram' = [ram EXCEPT ![view.slot] =
                        [p \in Ids |-> IF p \in here THEN [@[p] EXCEPT !.sum = TRUE] ELSE @[p]]]
    BY <1>4 DEF Stage
  <2> DEFINE here == {p \in Ids : ram[view.slot][p].id \in edited
                                  /\ Find(ram[view.slot], ram[view.slot][p].id) = p}
             edit == [p \in Ids |-> IF p \in here THEN [ram[view.slot][p] EXCEPT !.sum = TRUE]
                                    ELSE ram[view.slot][p]]
  <2>4. ram' = [ram EXCEPT ![view.slot] = edit]  BY <2>3
  <2>5. \A p \in here : ram[view.slot][p].id \in Ids  OBVIOUS
  <2>6. file \in [SlotNos -> [Ids -> Sectors]]  BY <1>2 DEF SlotsTypeOK
  <2> HIDE DEF here
  <2>7. ASSUME NEW p \in Ids PROVE edit[p] = ram[view.slot][p]
    <3>1. CASE p \in here
      <4>1. ram[view.slot][p] # Blank  BY <2>5, <3>1, SlotsAssumption DEF Blank, Ids
      <4>2. file[view.slot][p] \in [id : Ids, ctr : 0 .. MaxCounter + 1, sum : {TRUE}]
        BY <1>2, <2>1, <2>2, <4>1, AllSummed
      <4>3. [file[view.slot][p] EXCEPT !.sum = TRUE] = file[view.slot][p]  BY <4>2
      <4>4. QED  BY <2>1, <3>1, <4>3
    <3>2. CASE p \notin here  BY <3>2
    <3>3. QED  BY <3>1, <3>2
  <2>8. edit = ram[view.slot]
    <3>1. edit = [p \in Ids |-> edit[p]]  OBVIOUS
    <3>2. ram[view.slot] = [p \in Ids |-> ram[view.slot][p]]  BY <2>1, <2>2, <2>6
    <3> HIDE DEF edit
    <3>3. QED  BY <2>7, <3>1, <3>2
  <2> HIDE DEF edit
  <2>9. ram' = ram  BY <2>1, <2>2, <2>4, <2>6, <2>8
  <2>10. Trying(c, r, m)' /\ Viewing(c)'  BY <1>1, <2>1, <2>9 DEF Trying, Viewing
  <2>11. QED  BY <1>1, <2>1, <2>10, StillStanding
<1>5. CASE Save
  <2>1. file' = file /\ ram' = ram /\ view' = view  BY <1>5 DEF Save, Viewing
  <2>2. QED  BY <1>1, <2>1, StillStanding DEF Trying, Viewing
<1>6. CASE Close
  <2>1. file' = file /\ view' = NoView  BY <1>6 DEF Close
  <2>2. QED  BY <1>1, <2>1, StillStanding DEF Trying, Viewing, NoView
<1>7. QED  BY <1>3, <1>4, <1>5, <1>6

LEMMA CleanStep ==
  ASSUME N >= 3, SlotsInv, CleanInv, [SlotsNext]_vars
  PROVE  CleanInv'
<1>1. SUFFICES ASSUME damages' = 0
               PROVE  \E c \in 0 .. MaxCounter, r \in Ids, m \in Ids :
                        Standing(c, r, m)' /\ Trying(c, r, m)' /\ Viewing(c)'
  BY DEF CleanInv
<1>2. ~Damaged /\ damages = 0
  <2>1. damages \in Nat  BY SlotsAssumption DEF SlotsInv, SlotsTypeOK
  <2>2. ~Damaged  BY <1>1, <2>1 DEF Damaged
  <2>3. QED
    BY <1>1, <2>2 DEF SlotsNext, vars, GameSaves, GameWrites, GameCut, Open, Stage, Save, Close
<1>3. PICK c \in 0 .. MaxCounter, r \in Ids, m \in Ids :
        Standing(c, r, m) /\ Trying(c, r, m) /\ Viewing(c)
  BY <1>2 DEF CleanInv
<1>4. CASE GameSaves  BY <1>3, <1>4, SaveBegins
<1>5. CASE GameWrites
  <2>1. CASE game.n = N - 1
    <3>1. Next(r) \in Ids /\ 0 \in Ids  BY TwoOn, WrittenType
    <3>2. /\ c + 1 \in 0 .. MaxCounter
          /\ Standing(c + 1, Next(r), 0)' /\ Trying(c + 1, Next(r), 0)' /\ Viewing(c + 1)'
      BY <1>3, <1>5, <2>1, SaveEnds
    <3>3. QED  BY <3>1, <3>2
  <2>2. CASE game.n # N - 1  BY <1>3, <1>5, <2>2, SaveGoesOn
  <2>3. QED  BY <2>1, <2>2
<1>6. CASE GameCut  BY <1>3, <1>6, SaveIsCut
<1>7. CASE Open \/ Stage \/ Save \/ Close  BY <1>3, <1>7, EditorLooksOn
<1>8. CASE UNCHANGED vars
  BY <1>3, <1>8, StillStanding DEF vars, Trying, Viewing
<1>9. QED  BY <1>2, <1>4, <1>5, <1>6, <1>7, <1>8 DEF SlotsNext

\* With a dump that nobody damaged, the editor shows the last save the game
\* finished, and lets it be edited, wherever later saves were cut (the choice
\* of gen3_parse_into and its lock).  The game has fourteen sectors; with two
\* the rotation of every other save would be the same, and a save cut halfway
\* could pass for the whole of the one before.
THEOREM LastSaveIsShown ==
  ASSUME N >= 3
  PROVE  SlotsSpec => []LastSaveShown
<1>1. SlotsInit => CleanInv  BY CleanInit
<1>2. SlotsInv /\ CleanInv /\ [SlotsNext]_vars => CleanInv'  BY CleanStep
<1>3. CleanInv /\ SlotsInv => LastSaveShown
  <2>1. SUFFICES ASSUME CleanInv, SlotsInv, view.open, damages = 0, last # -1
                 PROVE  view.slot = last /\ ~view.locked
    BY DEF LastSaveShown
  <2>2. PICK c \in 0 .. MaxCounter, r \in Ids, m \in Ids : Standing(c, r, m) /\ Viewing(c)
    BY <2>1 DEF CleanInv
  <2>3. c # 0 /\ last = c % 2  BY <2>1, <2>2 DEF Standing
  <2>4. c > 0  BY <2>3, SlotsAssumption
  <2>5. QED  BY <2>1, <2>2, <2>3, <2>4 DEF Viewing
<1>4. QED  BY <1>1, <1>2, <1>3, InvHolds, PTL DEF SlotsSpec
=============================================================================
