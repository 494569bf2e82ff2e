--------------------------- MODULE GbSessionProofs ---------------------------
(***************************************************************************)
(* Proofs about GbSession: for any Pokemon, boxes, pages, and any number   *)
(* of moves and mishaps.                                                   *)
(***************************************************************************)
EXTENDS GbSession, FiniteSetTheorems, SequenceTheorems, TLAPS

\* An image whose lists are within their capacity.
Good(i) == i \in Images /\ \A b \in Boxes : Len(i.box[b]) <= Room[b]

\* A list that gains a Pokemon is the only one that changes.
LEMMA WithFacts ==
  ASSUME NEW i \in Images, NEW b \in Boxes, NEW x \in Mons
  PROVE  /\ With(i, b, x) \in Images
         /\ With(i, b, x).box[b] = Append(i.box[b], x)
         /\ \A c \in Boxes \ {b} : With(i, b, x).box[c] = i.box[c]
<1>1. i.box[b] \in Seq(Mons)  BY DEF Images
<1>2. Append(i.box[b], x) \in Seq(Mons)  BY <1>1
<1>3. QED  BY <1>2 DEF With, Images

\* A list that loses a Pokemon is the only one that changes, and is shorter.
LEMMA WithoutFacts ==
  ASSUME NEW i \in Images, NEW b \in Boxes, NEW k \in Slots(i, b)
  PROVE  /\ Without(i, b, k) \in Images
         /\ Len(Without(i, b, k).box[b]) = Len(i.box[b]) - 1
         /\ \A c \in Boxes \ {b} : Without(i, b, k).box[c] = i.box[c]
<1> DEFINE s == i.box[b]
<1>1. s \in Seq(Mons) /\ k \in 1 .. Len(s)  BY DEF Images, Slots
<1>2. SubSeq(s, 1, k - 1) \in Seq(Mons) /\ Len(SubSeq(s, 1, k - 1)) = k - 1
  <2>1. \A n \in 1 .. k - 1 : s[n] \in Mons  BY <1>1
  <2>2. QED  BY <1>1, <2>1, SubSeqProperties
<1>3. SubSeq(s, k + 1, Len(s)) \in Seq(Mons)
      /\ Len(SubSeq(s, k + 1, Len(s))) = Len(s) - k
  <2>1. \A n \in k + 1 .. Len(s) : s[n] \in Mons  BY <1>1
  <2>2. QED  BY <1>1, <2>1, SubSeqProperties
<1>4. RemoveAt(s, k) \in Seq(Mons) /\ Len(RemoveAt(s, k)) = Len(s) - 1
  <2> DEFINE l == SubSeq(s, 1, k - 1)
             r == SubSeq(s, k + 1, Len(s))
  <2>1. l \o r \in Seq(Mons) /\ Len(l \o r) = Len(l) + Len(r)
    BY <1>2, <1>3, ConcatProperties
  <2>2. Len(s) \in Nat  BY <1>1
  <2>3. k - 1 + (Len(s) - k) = Len(s) - 1  BY <1>1, <2>2
  <2>4. RemoveAt(s, k) = l \o r  BY DEF RemoveAt
  <2>5. QED  BY <1>2, <1>3, <2>1, <2>3, <2>4
<1>5. QED  BY <1>4 DEF Without, Images

\* What the operations make of a good image is good.
LEMMA GoodWith ==
  ASSUME NEW i, Good(i), NEW b \in Boxes, NEW x \in Mons, Fits(i, b)
  PROVE  Good(With(i, b, x))
<1>1. i \in Images  BY DEF Good
<1>2. i.box[b] \in Seq(Mons)  BY <1>1 DEF Images
<1>3. Len(Append(i.box[b], x)) = Len(i.box[b]) + 1  BY <1>2
<1>4. Room[b] \in Nat /\ Len(i.box[b]) \in Nat  BY <1>2, BoxesAssumption
<1>5. Len(With(i, b, x).box[b]) <= Room[b]  BY <1>1, <1>3, <1>4, WithFacts DEF Fits
<1>6. QED  BY <1>1, <1>5, WithFacts DEF Good

LEMMA GoodWithout ==
  ASSUME NEW i, Good(i), NEW b \in Boxes, NEW k \in Slots(i, b)
  PROVE  Good(Without(i, b, k)) /\ Fits(Without(i, b, k), b)
<1>1. i \in Images  BY DEF Good
<1>2. i.box[b] \in Seq(Mons)  BY <1>1 DEF Images
<1>3. Room[b] \in Nat /\ Len(i.box[b]) \in Nat  BY <1>2, BoxesAssumption
<1>4. Fits(Without(i, b, k), b)  BY <1>1, <1>3, WithoutFacts DEF Good, Fits
<1>5. QED  BY <1>1, <1>3, <1>4, WithoutFacts DEF Good, Fits

LEMMA GoodMoved ==
  ASSUME NEW i, Good(i), NEW b \in Boxes, NEW k \in Slots(i, b),
         NEW d \in Boxes \ {b}, Fits(i, d)
  PROVE  Good(Moved(i, b, k, d)) /\ Fits(Moved(i, b, k, d), b)
<1>1. i \in Images  BY DEF Good
<1>2. i.box[b][k] \in Mons  BY <1>1 DEF Images, Slots
<1>3. With(i, d, i.box[b][k]).box[b] = i.box[b]  BY <1>1, <1>2, WithFacts
<1>4. k \in Slots(With(i, d, i.box[b][k]), b)  BY <1>3 DEF Slots
<1>5. Good(With(i, d, i.box[b][k]))  BY <1>2, GoodWith
<1>6. QED  BY <1>4, <1>5, GoodWithout DEF Moved

LEMMA GoodFlipped ==
  ASSUME NEW i, Good(i), NEW p \in Pages
  PROVE  Good(Flipped(i, p))
  BY DEF Good, Flipped, Images

-----------------------------------------------------------------------------
\* What is true of the Pokemon that is crossing: it is where the next step
\* takes it from, and there is room where that step puts it.
Crossing ==
  /\ pc = "lifted" => /\ job \in [why : {"up"}, mon : Mons, box : Boxes]
                      /\ \E k \in Slots(img, job.box) : img.box[job.box][k] = job.mon
  /\ pc \in {"confirm", "consume"} => job \in [why : {"down"}, mon : Mons, box : Boxes]
  /\ pc = "confirm" => Fits(img, job.box)
  /\ job.why = "down" => bank[job.mon] > 0

TypeInv == GbTypeOK /\ Crossing

\* What GbTypeOK says of the images.
LEMMA TypeGood == ASSUME GbTypeOK
                  PROVE  Good(disk) /\ Good(img) /\ Good(pristine) /\ Good(told)
  BY DEF GbTypeOK, Good

LEMMA TypeInit == GbInit => TypeInv
<1> SUFFICES ASSUME GbInit PROVE TypeInv  OBVIOUS
<1>1. Cardinality(Mons) \in Nat  BY MonsAssumption, FS_CardinalityType
<1>2. Good(disk)
  <2>1. disk \in [box : Lists, set : {{}}] /\ \A b \in Boxes : Len(disk.box[b]) <= Room[b]
    BY DEF GbInit, Starts
  <2>2. SeqOf(Mons, Cardinality(Mons)) \subseteq Seq(Mons)  BY <1>1 DEF SeqOf
  <2>3. disk.box \in [Boxes -> Seq(Mons)]  BY <2>1, <2>2 DEF Lists
  <2>4. disk \in Images  BY <2>1, <2>3 DEF Images
  <2>5. QED  BY <2>1, <2>4 DEF Good
<1>3. Idle \in Jobs /\ Idle.why # "down"  BY DEF Jobs, Idle
<1>4. bank \in [Mons -> 0 .. 2]  BY DEF GbInit
<1>5. Crossing  BY <1>3 DEF GbInit, Crossing
<1>6. \A i \in {disk, img, pristine, told} : Good(i)  BY <1>2 DEF GbInit
<1>7. GbTypeOK
  <2>1. job \in Jobs /\ (job = Idle <=> pc \in {"off", "grid"})  BY <1>3 DEF GbInit
  <2>2. hold \in BOOLEAN /\ dirty \in BOOLEAN /\ unsure \in BOOLEAN  BY DEF GbInit
  <2>3. moves \in 0 .. MaxMoves /\ mishaps \in 0 .. MaxMishaps
    BY BoundsAssumption DEF GbInit
  <2>4. twins \subseteq Mons /\ released \subseteq Mons  BY DEF GbInit
  <2>5. pc = "grid"  BY DEF GbInit
  <2>6. QED  BY <1>4, <1>6, <2>1, <2>2, <2>3, <2>4, <2>5 DEF GbTypeOK, Good
<1>8. QED  BY <1>5, <1>7 DEF TypeInv

\* A commit of a good image: what it needs and what it leaves.
LEMMA CommitType ==
  ASSUME TypeInv, NEW i, Good(i), Commit(i), pc = "grid",
         Move, Calm, twins' \subseteq Mons, released' \subseteq Mons
  PROVE  TypeInv'
<1>1. [why |-> "edit"] \in Jobs /\ [why |-> "edit"] # Idle /\ [why |-> "edit"].why # "down"
  BY DEF Jobs, Idle
<1>2. Good(disk) /\ Good(pristine) /\ Good(told)  BY TypeGood DEF TypeInv
<1>3. moves' \in 0 .. MaxMoves /\ mishaps' \in 0 .. MaxMishaps
  BY BoundsAssumption DEF TypeInv, GbTypeOK, Move, Calm
<1>4. QED
  BY <1>1, <1>2, <1>3 DEF TypeInv, GbTypeOK, Crossing, Commit, ToCard, Good

LEMMA RefuseType ==
  ASSUME TypeInv, Refuse, pc = "grid",
         Move, Calm, twins' \subseteq Mons, released' \subseteq Mons
  PROVE  TypeInv'
<1>1. Good(disk) /\ Good(pristine) /\ Good(told)  BY TypeGood DEF TypeInv
<1>2. moves' \in 0 .. MaxMoves /\ mishaps' \in 0 .. MaxMishaps
  BY BoundsAssumption DEF TypeInv, GbTypeOK, Move, Calm
<1>3. QED
  BY <1>1, <1>2 DEF TypeInv, GbTypeOK, Crossing, Refuse, RollBack, Good
-----------------------------------------------------------------------------
\* Every step keeps the types and what the crossing relies on.
LEMMA TypeStep == TypeInv /\ [GbNext]_vars => TypeInv'
<1> SUFFICES ASSUME TypeInv, [GbNext]_vars PROVE TypeInv'  OBVIOUS
<1> USE DEF Good
<1>g. Good(disk) /\ Good(img) /\ Good(pristine) /\ Good(told)  BY TypeGood DEF TypeInv
<1>b. Boxes \subseteq Boxes /\ Party \in Boxes  BY BoxesAssumption
<1>m. /\ Move => moves' \in 0 .. MaxMoves
      /\ Mishap => mishaps' \in 0 .. MaxMishaps
      /\ Calm => mishaps' \in 0 .. MaxMishaps
  BY BoundsAssumption DEF TypeInv, GbTypeOK, Move, Mishap, Calm
<1>s. twins \subseteq Mons /\ released \subseteq Mons  BY DEF TypeInv, GbTypeOK
<1>j. /\ \A w \in {"up", "down"}, x \in Mons, b \in Boxes :
           LET j == [why |-> w, mon |-> x, box |-> b]
           IN j \in Jobs /\ j # Idle /\ j.why = w
                /\ j \in [why : {w}, mon : Mons, box : Boxes]
      /\ \A w \in {"edit", "exit"} :
           LET j == [why |-> w] IN j \in Jobs /\ j # Idle /\ j.why = w
      /\ Idle \in Jobs /\ Idle.why = "none"
  BY DEF Jobs, Idle
<1>1. CASE Open
  BY <1>1, <1>g, <1>m, <1>j DEF Open, TypeInv, GbTypeOK, Crossing
<1>2. CASE ReleaseUp
  <2> DEFINE b == job.box
             k == CHOOSE n \in Slots(img, b) : img.box[b][n] = job.mon
  <2>1. b \in Boxes /\ job.mon \in Mons /\ k \in Slots(img, b) /\ job.why = "up"
    BY <1>2 DEF ReleaseUp, TypeInv, Crossing
  <2>2. Good(Without(img, b, k))  BY <1>g, <2>1, GoodWithout
  <2>3. job \in Jobs /\ job # Idle  BY <1>2 DEF ReleaseUp, TypeInv, GbTypeOK
  <2>4. CASE Accepts(b)
    BY <1>2, <1>g, <1>m, <1>j, <2>1, <2>2, <2>3, <2>4
       DEF ReleaseUp, TypeInv, GbTypeOK, Crossing, Calm
  <2>5. CASE ~Accepts(b)
    BY <1>2, <1>g, <1>m, <1>j, <2>1, <2>5
       DEF ReleaseUp, TypeInv, GbTypeOK, Crossing, Calm
  <2>6. QED  BY <2>4, <2>5
<1>3. CASE ConfirmDown
  <2>1. job.box \in Boxes /\ job.mon \in Mons /\ job.why = "down" /\ job # Idle
        /\ Fits(img, job.box) /\ bank[job.mon] > 0
    BY <1>3 DEF ConfirmDown, TypeInv, GbTypeOK, Crossing
  <2>2. Good(With(img, job.box, job.mon))  BY <1>g, <2>1, GoodWith
  <2>3. CASE img' = With(img, job.box, job.mon) /\ pc' = "write" /\ UNCHANGED job
    BY <1>3, <1>g, <1>m, <2>1, <2>2, <2>3
       DEF ConfirmDown, TypeInv, GbTypeOK, Crossing, history
  <2>4. CASE img' = pristine /\ pc' = "grid" /\ job' = Idle
    BY <1>3, <1>g, <1>m, <1>j, <2>1, <2>4
       DEF ConfirmDown, TypeInv, GbTypeOK, Crossing, history
  <2>5. QED  BY <1>3, <2>3, <2>4 DEF ConfirmDown
<1>4. CASE Consume
  <2>1. job.mon \in Mons /\ job.why = "down" /\ bank[job.mon] \in 1 .. 2
    BY <1>4 DEF Consume, TypeInv, GbTypeOK, Crossing
  <2>2. \A n \in {0, 1} : [bank EXCEPT ![job.mon] = @ - n] \in [Mons -> 0 .. 2]
    BY <2>1 DEF TypeInv, GbTypeOK
  <2>3. bank' \in [Mons -> 0 .. 2] /\ twins' \subseteq Mons
    BY <1>4, <1>s, <2>1, <2>2 DEF Consume
  <2>4. mishaps' \in 0 .. MaxMishaps  BY <1>4, <1>m DEF Consume
  <2>5. QED
    BY <1>4, <1>g, <1>j, <2>3, <2>4 DEF Consume, TypeInv, GbTypeOK, Crossing, image
<1>5. CASE Persisted
  <2>1. job \in Jobs /\ job # Idle  BY <1>5 DEF Persisted, TypeInv, GbTypeOK
  <2>2. job.why = "down" => job \in [why : {"down"}, mon : Mons, box : Boxes]
    BY <2>1 DEF Jobs, Idle
  <2>3. CASE job.why = "down"
    <3>1. pc' = "consume"  BY <1>5, <2>3 DEF Persisted
    <3>2. QED
      BY <1>5, <1>g, <1>m, <2>1, <2>2, <2>3, <3>1 DEF Persisted, TypeInv, GbTypeOK, Crossing
  <2>4. CASE job.why # "down"
    <3>1. pc' \in {"off", "grid"}  BY <1>5, <2>4 DEF Persisted
    <3>2. QED
      BY <1>5, <1>g, <1>m, <1>j, <2>4, <3>1 DEF Persisted, TypeInv, GbTypeOK, Crossing
  <2>5. QED  BY <2>3, <2>4
<1>6. CASE PersistFails
  <2>1. job \in Jobs  BY DEF TypeInv, GbTypeOK
  <2>2. twins' \subseteq Mons  BY <1>6, <1>s, <2>1 DEF PersistFails, Jobs, Idle
  <2>3. pc' \in {"off", "grid"}  BY <1>6 DEF PersistFails
  <2>4. unsure' \in BOOLEAN  BY <1>6 DEF PersistFails
  <2>5. QED
    BY <1>6, <1>g, <1>m, <1>j, <2>2, <2>3, <2>4
       DEF PersistFails, TypeInv, GbTypeOK, Crossing
<1>7. CASE Exit
  BY <1>7, <1>g, <1>m, <1>j
     DEF Exit, ToCard, TypeInv, GbTypeOK, Crossing, history
<1>8. CASE PowerCut
  <2>1. job \in Jobs  BY DEF TypeInv, GbTypeOK
  <2>2. twins' \subseteq Mons  BY <1>8, <1>s, <2>1 DEF PowerCut, Jobs, Idle
  <2>3. Good(disk')  BY <1>8, <1>g DEF PowerCut
  <2>4. QED
    BY <1>8, <1>g, <1>m, <1>j, <2>2, <2>3
       DEF PowerCut, TypeInv, GbTypeOK, Crossing, image
<1>9. ASSUME NEW p \in Pages, EditInPlace(p)
      PROVE  TypeInv'
  <2>1. Good(Flipped(img, p))  BY <1>g, GoodFlipped
  <2>2. pc = "grid" /\ Move /\ Calm /\ twins' \subseteq Mons /\ released' \subseteq Mons
    BY <1>9, <1>s DEF EditInPlace
  <2>3. CASE Commit(Flipped(img, p))  BY <2>1, <2>2, <2>3, CommitType
  <2>4. CASE Refuse  BY <2>2, <2>4, RefuseType
  <2>5. CASE Decline(p) /\ p \in Careless
    <3>1. img' = Flipped(img, p)
          /\ UNCHANGED <<pristine, told, disk, bank, hold, dirty, pc, job, unsure>>
      BY <2>5 DEF Decline
    <3>2. QED
      BY <1>g, <1>m, <2>1, <2>2, <3>1 DEF TypeInv, GbTypeOK, Crossing
  <2>6. QED  BY <1>9, <2>3, <2>4, <2>5 DEF EditInPlace, Decline
<1>10. ASSUME NEW p \in Pages, EditDraft(p)
       PROVE  TypeInv'
  <2>1. Good(Flipped(img, p))  BY <1>g, GoodFlipped
  <2>2. pc = "grid" /\ Move /\ Calm /\ twins' \subseteq Mons /\ released' \subseteq Mons
    BY <1>10, <1>s DEF EditDraft
  <2>3. QED  BY <1>10, <2>1, <2>2, CommitType, RefuseType DEF EditDraft
<1>11. ASSUME NEW b \in Boxes, NEW k \in Slots(img, b), NEW d \in Boxes, MoveMon(b, k, d)
       PROVE  TypeInv'
  <2>1. d \in Boxes \ {b} /\ Fits(img, d)  BY <1>11 DEF MoveMon
  <2>2. Good(Moved(img, b, k, d))  BY <1>g, <2>1, GoodMoved
  <2>3. pc = "grid" /\ Move /\ Calm /\ twins' \subseteq Mons /\ released' \subseteq Mons
    BY <1>11, <1>s DEF MoveMon
  <2>4. QED  BY <1>11, <2>2, <2>3, CommitType, RefuseType DEF MoveMon
<1>12. ASSUME NEW b \in Boxes, NEW k \in Slots(img, b), Release(b, k)
       PROVE  TypeInv'
  <2>1. Good(Without(img, b, k))  BY <1>g, GoodWithout
  <2>2. img.box[b][k] \in Mons  BY <1>g DEF Images, Slots
  <2>3. pc = "grid" /\ Move /\ Calm /\ twins' \subseteq Mons /\ released' \subseteq Mons
    BY <1>12, <1>s, <2>2 DEF Release
  <2>4. QED  BY <1>12, <2>1, <2>3, CommitType, RefuseType DEF Release
<1>13. ASSUME NEW b \in Boxes, NEW k \in Slots(img, b), LiftToBank(b, k)
       PROVE  TypeInv'
  <2> DEFINE x == img.box[b][k]
  <2>1. x \in Mons  BY <1>g DEF Images, Slots
  <2>2. bank[x] \in 0 .. 1  BY <1>13, <2>1 DEF LiftToBank, TypeInv, GbTypeOK
  <2>3. \A n \in {0, 1} : [bank EXCEPT ![x] = @ + n] \in [Mons -> 0 .. 2]
    BY <2>1, <2>2 DEF TypeInv, GbTypeOK
  <2>4. bank' \in [Mons -> 0 .. 2] /\ twins' \subseteq Mons
    BY <1>13, <1>s, <2>1, <2>3 DEF LiftToBank
  <2>5. moves' \in 0 .. MaxMoves /\ mishaps' \in 0 .. MaxMishaps
    BY <1>13, <1>m DEF LiftToBank
  <2>6. pc = "grid"  BY <1>13 DEF LiftToBank
  <2>7. CASE pc' = "lifted" /\ job' = [why |-> "up", mon |-> x, box |-> b]
    BY <1>13, <1>g, <1>j, <2>1, <2>4, <2>5, <2>7
       DEF LiftToBank, TypeInv, GbTypeOK, Crossing, image, Slots
  <2>8. CASE UNCHANGED <<pc, job>>
    <3>1. job = Idle  BY <2>6 DEF TypeInv, GbTypeOK
    <3>2. QED
      BY <1>13, <1>g, <1>j, <2>4, <2>5, <2>6, <2>8, <3>1
         DEF LiftToBank, TypeInv, GbTypeOK, Crossing, image
  <2>9. QED  BY <1>13, <2>7, <2>8 DEF LiftToBank
<1>14. ASSUME NEW x \in Mons, NEW b \in Boxes, BringDown(x, b)
       PROVE  TypeInv'
  <2> DEFINE j == [why |-> "down", mon |-> x, box |-> b]
  <2>1. pc = "grid" /\ job = Idle /\ bank[x] > 0
        /\ UNCHANGED <<pristine, told, disk, bank, hold, dirty, unsure, twins, released>>
    BY <1>14 DEF BringDown, TypeInv, GbTypeOK, history
  <2>2. moves' \in 0 .. MaxMoves /\ mishaps' \in 0 .. MaxMishaps
    BY <1>14, <1>m DEF BringDown
  <2>3. \/ img' = img /\ Fits(img, b) /\ pc' = "confirm" /\ job' = j
        \/ img' = pristine /\ UNCHANGED <<pc, job>>
        \/ /\ pc' = "confirm" /\ job' = j /\ b = Party
           /\ \E d \in Boxes \ {Party}, k \in Slots(img, Party) :
                Fits(img, d) /\ img' = Moved(img, Party, k, d)
    BY <1>14 DEF BringDown
  <2>4. CASE img' = img /\ Fits(img, b) /\ pc' = "confirm" /\ job' = j
    BY <1>g, <1>j, <2>1, <2>2, <2>4 DEF TypeInv, GbTypeOK, Crossing, Fits
  <2>5. CASE img' = pristine /\ UNCHANGED <<pc, job>>
    BY <1>g, <1>j, <2>1, <2>2, <2>5 DEF TypeInv, GbTypeOK, Crossing
  <2>6. ASSUME pc' = "confirm", job' = j, b = Party,
               NEW d \in Boxes \ {Party}, NEW k \in Slots(img, Party),
               Fits(img, d), img' = Moved(img, Party, k, d)
        PROVE  TypeInv'
    <3>1. Good(img') /\ Fits(img', b)  BY <1>g, <1>b, <2>6, GoodMoved
    <3>2. QED
      BY <1>g, <1>j, <2>1, <2>2, <2>6, <3>1 DEF TypeInv, GbTypeOK, Crossing, Fits
  <2>7. QED  BY <2>3, <2>4, <2>5, <2>6
<1>15. CASE UNCHANGED vars
  BY <1>15 DEF vars, image, history, TypeInv, GbTypeOK, Crossing, Fits
<1>16. QED
  BY <1>1, <1>2, <1>3, <1>4, <1>5, <1>6, <1>7, <1>8, <1>9, <1>10, <1>11, <1>12, <1>13,
     <1>14, <1>15 DEF GbNext

(* Every image of the session keeps its lists within their capacity, the   *)
(* ones a drop from the Bank and its deposit make included.                *)
THEOREM TypeCorrect == GbSpec => []GbTypeOK
<1>1. TypeInv => GbTypeOK  BY DEF TypeInv
<1>2. QED  BY TypeInit, TypeStep, <1>1, PTL DEF GbSpec
-----------------------------------------------------------------------------
\* The baseline is what the user was told, and back on the grid the image is
\* the baseline.  What a failed or declined step has put into the image is
\* gone by then because every such step ends with the baseline copied back.
AsTold == told = pristine /\ (pc \in {"grid", "lifted", "consume"} => Same(img, pristine))

\* Whatever the session is doing, the baseline is in the file when the exit
\* would not ask; the grid then shows it by AsTold.
Saved == pc # "off" /\ ~dirty => Same(disk, pristine) \/ unsure

SessionInv == AsTold /\ Saved

\* The session opens over the bytes of the file.
LEMMA SessionInit == GbInit => SessionInv
  BY DEF GbInit, SessionInv, AsTold, Saved, Same

\* A flip of a careless page's bit is not seen by Same.
LEMMA SameFlipped ==
  ASSUME NEW i, NEW j, i \in Images, Same(i, j), NEW p \in Careless
  PROVE  Same(Flipped(i, p), j)
<1>1. Flipped(i, p).box = i.box  BY DEF Flipped, Images
<1>2. Flipped(i, p).set = IF p \in i.set THEN i.set \ {p} ELSE i.set \cup {p}
  BY DEF Flipped, Images
<1>3. Flipped(i, p).set \cap Careful = i.set \cap Careful  BY <1>2 DEF Careful
<1>4. QED  BY <1>1, <1>3 DEF Same

\* Every step keeps the baseline what the user was told.
LEMMA SessionStep == TypeInv /\ SessionInv /\ [GbNext]_vars => SessionInv'
<1> SUFFICES ASSUME TypeInv, SessionInv, [GbNext]_vars PROVE SessionInv'  OBVIOUS
<1> USE DEF SessionInv, AsTold, Saved
<1>c. \A i : pc = "grid" /\ Commit(i) => SessionInv'
  BY DEF Commit, ToCard, Same
<1>r. Refuse => SessionInv'  BY DEF Refuse, RollBack, Same
<1>1. CASE Open  BY <1>1 DEF Open, Same
<1>2. CASE ReleaseUp
  <2>1. UNCHANGED <<pristine, told, disk, dirty, unsure>>  BY <1>2 DEF ReleaseUp
  <2>2. pc = "lifted" /\ (pc' = "write" \/ img' = pristine)  BY <1>2 DEF ReleaseUp
  <2>3. pc' = "grid" => img' = pristine  BY <1>2 DEF ReleaseUp
  <2>4. QED  BY <2>1, <2>2, <2>3 DEF Same
<1>3. CASE ConfirmDown  BY <1>3 DEF ConfirmDown, history, Same
<1>4. CASE Consume  BY <1>4 DEF Consume, image, Same
<1>5. CASE Persisted  BY <1>5 DEF Persisted, Same
<1>6. CASE PersistFails  BY <1>6 DEF PersistFails, Same
<1>7. CASE Exit  BY <1>7 DEF Exit, ToCard, history, Same
<1>8. CASE PowerCut  BY <1>8 DEF PowerCut, image
<1>9. ASSUME NEW p \in Pages, EditInPlace(p)
      PROVE  SessionInv'
  <2>1. CASE Commit(Flipped(img, p)) \/ Refuse
    BY <1>9, <1>c, <1>r, <2>1 DEF EditInPlace
  <2>2. CASE Decline(p) /\ p \in Careless
    <3>1. img \in Images  BY TypeGood DEF TypeInv, Good
    <3>2. pc = "grid" /\ img' = Flipped(img, p)
          /\ UNCHANGED <<pristine, told, disk, dirty, pc, unsure>>
      BY <1>9, <2>2 DEF EditInPlace, Decline
    <3>3. Same(img', pristine)  BY <2>2, <3>1, <3>2, SameFlipped
    <3>4. QED  BY <3>2, <3>3 DEF Same
  <2>3. QED  BY <1>9, <2>1, <2>2 DEF EditInPlace, Decline
<1>10. ASSUME NEW p \in Pages, EditDraft(p)
       PROVE  SessionInv'
  BY <1>10, <1>c, <1>r DEF EditDraft
<1>11. ASSUME NEW b \in Boxes, NEW k \in Slots(img, b), NEW d \in Boxes, MoveMon(b, k, d)
       PROVE  SessionInv'
  BY <1>11, <1>c, <1>r DEF MoveMon
<1>12. ASSUME NEW b \in Boxes, NEW k \in Slots(img, b), Release(b, k)
       PROVE  SessionInv'
  BY <1>12, <1>c, <1>r DEF Release
<1>13. ASSUME NEW b \in Boxes, NEW k \in Slots(img, b), LiftToBank(b, k)
       PROVE  SessionInv'
  BY <1>13 DEF LiftToBank, image, Same
<1>14. ASSUME NEW x \in Mons, NEW b \in Boxes, BringDown(x, b)
       PROVE  SessionInv'
  <2>1. UNCHANGED <<pristine, told, disk, dirty, unsure>> /\ pc = "grid"
        /\ (pc' = "confirm" \/ (img' = pristine /\ UNCHANGED pc))
    BY <1>14 DEF BringDown, history
  <2>2. QED  BY <2>1 DEF Same
<1>15. CASE UNCHANGED vars  BY <1>15 DEF vars, image, history, Same
<1>16. QED
  BY <1>1, <1>2, <1>3, <1>4, <1>5, <1>6, <1>7, <1>8, <1>9, <1>10, <1>11, <1>12, <1>13,
     <1>14, <1>15 DEF GbNext

(* Whatever is refused, declined or fails, in whatever order, the image on  *)
(* the grid is what the user was led to believe in (gb_rollback).           *)
THEOREM AsToldAlways == GbSpec => []SessionAsTold
<1>1. SessionInv => SessionAsTold  BY DEF SessionInv, AsTold, SessionAsTold
<1>2. QED  BY TypeInit, TypeStep, SessionInit, SessionStep, <1>1, PTL DEF GbSpec

(* The exit asks whenever the file does not hold what the grid shows, but   *)
(* for a write that was reported as failed (gb_hold_commit, gb_persist).    *)
THEOREM ExitAsks == GbSpec => []NothingUnsavedUnasked
<1>1. SessionInv => NothingUnsavedUnasked
  BY DEF SessionInv, AsTold, Saved, NothingUnsavedUnasked, Same
<1>2. QED  BY TypeInit, TypeStep, SessionInit, SessionStep, <1>1, PTL DEF GbSpec
-----------------------------------------------------------------------------
\* How often the lists of an image hold a Pokemon.
Count(i, x) == Cardinality(Places(i, x))

\* The places of a Pokemon, pair by pair.
LEMMA PlacesPairs ==
  ASSUME NEW i, NEW x
  PROVE  /\ \A b, k : <<b, k>> \in Places(i, x) <=>
                        b \in Boxes /\ k \in Slots(i, b) /\ i.box[b][k] = x
         /\ \A q \in Places(i, x) : q = <<q[1], q[2]>>
  BY DEF Places

\* An image holds a Pokemon a finite number of times.
LEMMA PlacesFinite ==
  ASSUME NEW i \in Images, NEW x
  PROVE  IsFiniteSet(Places(i, x)) /\ Count(i, x) \in Nat
<1> DEFINE F(b) == {<<b, k>> : k \in {n \in Slots(i, b) : i.box[b][n] = x}}
           S == {F(b) : b \in Boxes}
<1>1. ASSUME NEW b \in Boxes PROVE IsFiniteSet(F(b))
  <2> DEFINE K == {n \in Slots(i, b) : i.box[b][n] = x}
             f == [k \in K |-> <<b, k>>]
  <2>1. Len(i.box[b]) \in Nat  BY DEF Images
  <2>2. IsFiniteSet(1 .. Len(i.box[b]))  BY <2>1, FS_Interval
  <2>3. IsFiniteSet(K)  BY <2>2, FS_Subset DEF Slots
  <2>4. f \in Surjection(K, F(b))  BY DEF Surjection
  <2>5. QED  BY <2>3, <2>4, FS_Surjection
<1>2. IsFiniteSet(S)
  <2> DEFINE g == [b \in Boxes |-> F(b)]
  <2>1. g \in Surjection(Boxes, S)
    <3> HIDE DEF F
    <3>1. QED  BY DEF Surjection
  <2>2. QED  BY <2>1, FS_Surjection, BoxesAssumption
<1>3. IsFiniteSet(UNION S)
  <2> HIDE DEF F
  <2>1. QED  BY <1>1, <1>2, FS_UNION
<1>4. Places(i, x) = UNION S  BY DEF Places
<1>5. QED  BY <1>3, <1>4, FS_CardinalityType DEF Count

\* A list that gains a Pokemon adds one place.
LEMMA CountWith ==
  ASSUME NEW i \in Images, NEW b \in Boxes, NEW y \in Mons, NEW x
  PROVE  Count(With(i, b, y), x) = IF x = y THEN Count(i, x) + 1 ELSE Count(i, x)
<1> DEFINE j == With(i, b, y)
           n == Len(i.box[b]) + 1
<1>1. i.box[b] \in Seq(Mons) /\ n \in Nat /\ n \notin Slots(i, b)  BY DEF Images, Slots
<1>2. /\ Slots(j, b) = Slots(i, b) \cup {n}
      /\ j.box[b][n] = y
      /\ \A k \in Slots(i, b) : j.box[b][k] = i.box[b][k]
  <2>1. j.box[b] = Append(i.box[b], y)  BY WithFacts
  <2>2. Len(i.box[b]) \in Nat /\ Len(j.box[b]) = n  BY <1>1, <2>1
  <2>3. Slots(j, b) = Slots(i, b) \cup {n}  BY <2>2 DEF Slots
  <2>4. QED  BY <1>1, <2>1, <2>3 DEF Slots
<1>3. \A c \in Boxes \ {b} : Slots(j, c) = Slots(i, c) /\ j.box[c] = i.box[c]
  BY WithFacts DEF Slots
<1>4. <<b, n>> \notin Places(i, x)  BY <1>1, PlacesPairs
<1> HIDE DEF j, n
<1>5. CASE x = y
  <2>1. Places(j, x) = Places(i, x) \cup {<<b, n>>}
    <3>1. \A c, k : <<c, k>> \in Places(j, x) <=> <<c, k>> \in Places(i, x) \/ <<c, k>> = <<b, n>>
      <4>1. ASSUME NEW c, NEW k
            PROVE  <<c, k>> \in Places(j, x) <=> <<c, k>> \in Places(i, x) \/ <<c, k>> = <<b, n>>
        <5>1. CASE c = b  BY <1>2, <1>5, <5>1, PlacesPairs
        <5>2. CASE c # b  BY <1>3, <5>2, PlacesPairs
        <5>3. QED  BY <5>1, <5>2
      <4>2. QED  BY <4>1
    <3>2. QED  BY <3>1, PlacesPairs
  <2>2. QED  BY <1>4, <1>5, <2>1, PlacesFinite, FS_AddElement DEF Count, j
<1>6. CASE x # y
  <2>1. Places(j, x) = Places(i, x)
    <3>1. \A c, k : <<c, k>> \in Places(j, x) <=> <<c, k>> \in Places(i, x)
      <4>1. ASSUME NEW c, NEW k
            PROVE  <<c, k>> \in Places(j, x) <=> <<c, k>> \in Places(i, x)
        <5>1. CASE c = b  BY <1>1, <1>2, <1>6, <5>1, PlacesPairs
        <5>2. CASE c # b  BY <1>3, <5>2, PlacesPairs
        <5>3. QED  BY <5>1, <5>2
      <4>2. QED  BY <4>1
    <3>2. QED  BY <3>1, PlacesPairs
  <2>2. QED  BY <1>6, <2>1 DEF Count, j
<1>7. QED  BY <1>5, <1>6

\* The list that loses its k-th entry, entry by entry.
LEMMA WithoutEntries ==
  ASSUME NEW i \in Images, NEW b \in Boxes, NEW k \in Slots(i, b)
  PROVE  /\ k \in Nat /\ Len(i.box[b]) \in Nat
         /\ Slots(Without(i, b, k), b) = 1 .. Len(i.box[b]) - 1
         /\ \A n \in 1 .. Len(i.box[b]) - 1 :
              Without(i, b, k).box[b][n] = IF n < k THEN i.box[b][n] ELSE i.box[b][n + 1]
<1> DEFINE s == i.box[b]
           l == SubSeq(s, 1, k - 1)
           r == SubSeq(s, k + 1, Len(s))
<1>1. s \in Seq(Mons) /\ k \in 1 .. Len(s) /\ Len(s) \in Nat  BY DEF Images, Slots
<1>2. l \in Seq(Mons) /\ Len(l) = k - 1 /\ \A n \in 1 .. k - 1 : l[n] = s[n]
  <2>1. \A n \in 1 .. k - 1 : s[n] \in Mons  BY <1>1
  <2>2. k - 1 \in Int /\ 1 \in Int  BY <1>1
  <2>3. /\ l \in Seq(Mons)
        /\ Len(l) = IF 1 <= k - 1 THEN k - 1 - 1 + 1 ELSE 0
        /\ \A n \in 1 .. k - 1 - 1 + 1 : l[n] = s[1 + n - 1]
    BY <2>1, <2>2, SubSeqProperties
  <2>4. k - 1 - 1 + 1 = k - 1 /\ (k - 1 >= 1 \/ k - 1 = 0)  BY <1>1
  <2>5. \A n \in 1 .. k - 1 : 1 + n - 1 = n  BY <1>1
  <2>6. QED  BY <2>3, <2>4, <2>5
<1>3. r \in Seq(Mons) /\ Len(r) = Len(s) - k /\ \A n \in 1 .. Len(s) - k : r[n] = s[k + n]
  <2>1. \A n \in k + 1 .. Len(s) : s[n] \in Mons  BY <1>1
  <2>2. k + 1 \in Int /\ Len(s) \in Int  BY <1>1
  <2>3. /\ r \in Seq(Mons)
        /\ Len(r) = IF k + 1 <= Len(s) THEN Len(s) - (k + 1) + 1 ELSE 0
        /\ \A n \in 1 .. Len(s) - (k + 1) + 1 : r[n] = s[k + 1 + n - 1]
    BY <2>1, <2>2, SubSeqProperties
  <2>4. Len(s) - (k + 1) + 1 = Len(s) - k /\ (k + 1 <= Len(s) \/ Len(s) - k = 0)  BY <1>1
  <2>5. \A n \in 1 .. Len(s) - k : k + 1 + n - 1 = k + n  BY <1>1
  <2>6. QED  BY <2>3, <2>4, <2>5
<1> HIDE DEF s, l, r
<1>4. /\ l \o r \in Seq(Mons) /\ Len(l \o r) = Len(s) - 1
      /\ \A n \in 1 .. Len(s) - 1 : (l \o r)[n] = IF n < k THEN s[n] ELSE s[n + 1]
  <2>1. /\ l \o r \in Seq(Mons)
        /\ Len(l \o r) = Len(l) + Len(r)
        /\ \A n \in 1 .. Len(l) + Len(r) :
             (l \o r)[n] = IF n <= Len(l) THEN l[n] ELSE r[n - Len(l)]
    BY <1>2, <1>3, ConcatProperties
  <2>2. Len(l) + Len(r) = Len(s) - 1  BY <1>1, <1>2, <1>3
  <2>3. ASSUME NEW n \in 1 .. Len(s) - 1
        PROVE  (l \o r)[n] = IF n < k THEN s[n] ELSE s[n + 1]
    <3>1. CASE n < k
      <4>1. n <= Len(l) /\ n \in 1 .. k - 1  BY <1>1, <1>2, <2>3, <3>1
      <4>2. QED  BY <1>2, <2>1, <2>2, <3>1, <4>1
    <3>2. CASE ~(n < k)
      <4>1. ~(n <= Len(l)) /\ n - Len(l) \in 1 .. Len(s) - k /\ k + (n - Len(l)) = n + 1
        BY <1>1, <1>2, <2>3, <3>2
      <4>2. QED  BY <1>3, <2>1, <2>2, <3>2, <4>1
    <3>3. QED  BY <3>1, <3>2
  <2>4. QED  BY <2>1, <2>2, <2>3
<1>5. Without(i, b, k).box[b] = l \o r
  <2>1. Without(i, b, k).box[b] = RemoveAt(i.box[b], k)  BY DEF Without, Images
  <2>2. QED  BY <2>1 DEF RemoveAt, l, r, s
<1>6. k \in Nat /\ Slots(Without(i, b, k), b) = 1 .. Len(s) - 1  BY <1>1, <1>4, <1>5 DEF Slots
<1>7. QED  BY <1>1, <1>4, <1>5, <1>6 DEF s

\* A list that loses its k-th entry shifts those behind it: a bijection between
\* the places of the new image and the other places of the old one.
LEMMA CountWithout ==
  ASSUME NEW i \in Images, NEW b \in Boxes, NEW k \in Slots(i, b), NEW x
  PROVE  /\ Count(Without(i, b, k), x) =
              IF x = i.box[b][k] THEN Count(i, x) - 1 ELSE Count(i, x)
         /\ x = i.box[b][k] => Count(i, x) >= 1
<1> DEFINE j == Without(i, b, k)
           P == Places(i, x) \ {<<b, k>>}
           Q == Places(j, x)
           up(q) == IF q[1] = b /\ q[2] >= k THEN <<b, q[2] + 1>> ELSE q
           f == [q \in Q |-> up(q)]
<1>1. /\ k \in 1 .. Len(i.box[b]) /\ Len(i.box[b]) \in Nat
      /\ Slots(j, b) = 1 .. Len(i.box[b]) - 1
      /\ \A n \in Slots(j, b) : j.box[b][n] = IF n < k THEN i.box[b][n] ELSE i.box[b][n + 1]
  BY WithoutEntries DEF Slots
<1>2. \A c \in Boxes \ {b} : Slots(j, c) = Slots(i, c) /\ j.box[c] = i.box[c]
  BY WithoutFacts DEF Slots
<1>3. j \in Images  BY WithoutFacts
<1>4. Slots(i, b) = 1 .. Len(i.box[b])  BY DEF Slots
<1> HIDE DEF j
<1>5. ASSUME NEW q \in Q PROVE up(q) \in P
  <2>1. q = <<q[1], q[2]>> /\ q[1] \in Boxes /\ q[2] \in Slots(j, q[1]) /\ j.box[q[1]][q[2]] = x
    BY PlacesPairs
  <2>2. CASE q[1] = b /\ q[2] >= k
    <3>1. q[2] + 1 \in Slots(i, b) /\ i.box[b][q[2] + 1] = x /\ q[2] + 1 # k
      BY <1>1, <1>4, <2>1, <2>2
    <3>2. QED  BY <2>2, <3>1, PlacesPairs
  <2>3. CASE q[1] = b /\ ~(q[2] >= k)
    <3>1. q[2] \in Slots(i, b) /\ i.box[b][q[2]] = x /\ q[2] # k
      BY <1>1, <1>4, <2>1, <2>3
    <3>2. <<b, q[2]>> \in Places(i, x)  BY <3>1, PlacesPairs
    <3>3. QED  BY <2>1, <2>3, <3>1, <3>2
  <2>4. CASE q[1] # b
    <3>1. <<q[1], q[2]>> \in Places(i, x)  BY <1>2, <2>1, <2>4, PlacesPairs
    <3>2. QED  BY <2>1, <2>4, <3>1
  <2>5. QED  BY <2>2, <2>3, <2>4
<1>6. ASSUME NEW p \in P PROVE \E q \in Q : up(q) = p
  <2>1. p = <<p[1], p[2]>> /\ p[1] \in Boxes /\ p[2] \in Slots(i, p[1]) /\ i.box[p[1]][p[2]] = x
        /\ p # <<b, k>>
    BY PlacesPairs
  <2>2. CASE p[1] = b /\ p[2] > k
    <3>1. p[2] - 1 \in Slots(j, b) /\ ~(p[2] - 1 < k) /\ p[2] - 1 + 1 = p[2]
      BY <1>1, <1>4, <2>1, <2>2
    <3>2. <<b, p[2] - 1>> \in Q  BY <1>1, <2>1, <2>2, <3>1, PlacesPairs
    <3>3. up(<<b, p[2] - 1>>) = p  BY <1>1, <1>4, <2>1, <2>2, <3>1
    <3>4. QED  BY <3>2, <3>3
  <2>3. CASE p[1] = b /\ p[2] < k
    <3>1. p[2] \in Slots(j, b)  BY <1>1, <1>4, <2>1, <2>3
    <3>2. <<b, p[2]>> \in Q  BY <1>1, <2>1, <2>3, <3>1, PlacesPairs
    <3>3. up(p) = p  BY <1>1, <1>4, <2>1, <2>3
    <3>4. QED  BY <2>1, <2>3, <3>2, <3>3
  <2>4. CASE p[1] # b
    <3>1. <<p[1], p[2]>> \in Q  BY <1>2, <2>1, <2>4, PlacesPairs
    <3>2. QED  BY <2>1, <2>4, <3>1
  <2>5. p[1] = b => p[2] \in Nat /\ p[2] # k  BY <1>4, <2>1
  <2>6. QED  BY <1>1, <2>2, <2>3, <2>4, <2>5
<1>7. ASSUME NEW q \in Q, NEW p \in Q, up(q) = up(p) PROVE q = p
  <2>1. q = <<q[1], q[2]>> /\ q[1] \in Boxes /\ q[2] \in Slots(j, q[1])  BY PlacesPairs
  <2>2. p = <<p[1], p[2]>> /\ p[1] \in Boxes /\ p[2] \in Slots(j, p[1])  BY PlacesPairs
  <2>3. up(q)[1] = q[1] /\ up(p)[1] = p[1]  BY <2>1, <2>2
  <2>4. CASE q[1] = b
    <3>1. q[2] \in Nat /\ p[2] \in Nat /\ p[1] = b  BY <1>1, <1>7, <2>1, <2>2, <2>3, <2>4
    <3>2. up(q)[2] = (IF q[2] >= k THEN q[2] + 1 ELSE q[2])
          /\ up(p)[2] = (IF p[2] >= k THEN p[2] + 1 ELSE p[2])
      BY <2>1, <2>2, <2>4, <3>1
    <3>3. q[2] = p[2]  BY <1>1, <1>7, <3>1, <3>2
    <3>4. QED  BY <2>1, <2>2, <2>4, <3>1, <3>3
  <2>5. CASE q[1] # b  BY <1>7, <2>3, <2>5
  <2>6. QED  BY <2>4, <2>5
<1>8. f \in Bijection(Q, P)
  <2>1. f \in [Q -> P]  BY <1>5
  <2>2. f \in Injection(Q, P)  BY <1>7, <2>1 DEF Injection, IsInjective
  <2>3. f \in Surjection(Q, P)  BY <1>6, <2>1 DEF Surjection
  <2>4. QED  BY <2>2, <2>3 DEF Bijection
<1>9. IsFiniteSet(Q)  BY <1>3, PlacesFinite
<1>10. Cardinality(P) = Cardinality(Q)  BY <1>8, <1>9, FS_Bijection DEF ExistsBijection
<1>11. Cardinality(P) = IF <<b, k>> \in Places(i, x) THEN Count(i, x) - 1 ELSE Count(i, x)
  BY PlacesFinite, FS_RemoveElement DEF Count
<1>12. <<b, k>> \in Places(i, x) <=> x = i.box[b][k]  BY PlacesPairs
<1>13. <<b, k>> \in Places(i, x) => Count(i, x) >= 1
  BY PlacesFinite, FS_EmptySet DEF Count
<1>14. Count(j, x) = Cardinality(Q)  BY DEF Count
<1>15. QED  BY <1>10, <1>11, <1>12, <1>13, <1>14 DEF j

\* A move keeps every count, and a flip of a page touches no list.
LEMMA CountMoved ==
  ASSUME NEW i \in Images, NEW b \in Boxes, NEW k \in Slots(i, b), NEW d \in Boxes \ {b}, NEW x
  PROVE  Moved(i, b, k, d) \in Images /\ Count(Moved(i, b, k, d), x) = Count(i, x)
<1> DEFINE y == i.box[b][k]
           j == With(i, d, y)
<1>1. y \in Mons  BY DEF Images, Slots
<1>2. j \in Images /\ j.box[b] = i.box[b]  BY <1>1, WithFacts
<1>3. k \in Slots(j, b) /\ j.box[b][k] = y  BY <1>2 DEF Slots
<1>4. Count(j, x) = IF x = y THEN Count(i, x) + 1 ELSE Count(i, x)  BY <1>1, CountWith
<1>5. Count(i, x) \in Nat  BY PlacesFinite
<1> HIDE DEF y, j
<1>6. Count(Without(j, b, k), x) = IF x = y THEN Count(j, x) - 1 ELSE Count(j, x)
  BY <1>2, <1>3, CountWithout
<1>7. Without(j, b, k) \in Images  BY <1>2, <1>3, WithoutFacts
<1>8. QED  BY <1>4, <1>5, <1>6, <1>7 DEF Moved, j, y

LEMMA CountFlipped ==
  ASSUME NEW i \in Images, NEW p \in Pages, NEW x
  PROVE  Flipped(i, p) \in Images /\ Count(Flipped(i, p), x) = Count(i, x)
<1>1. Flipped(i, p) \in Images /\ Flipped(i, p).box = i.box  BY DEF Flipped, Images
<1>2. QED  BY <1>1 DEF Count, Places, Slots

-----------------------------------------------------------------------------
\* The images that may yet become the file, or the session's state again.
Known == IF pc = "off" THEN {disk} ELSE {disk, img, pristine}

\* The Pokemon that is between its two halves.
Apart(x) == pc # "confirm" /\ job.why \in {"up", "down"} /\ job.mon = x

\* None is missing from an image that may come to count.
AtLeast == \A x \in Mons \ released : \A i \in Known : Count(i, x) + bank[x] >= 1

\* None is there twice, but for the one between its halves: going up it is in
\* the Bank and not yet out of the image, coming down in the image and not yet
\* out of the Bank.
AtMost == \A x \in Mons \ twins :
  /\ ~Apart(x) => \A i \in Known : Count(i, x) + bank[x] <= 1
  /\ Apart(x) => bank[x] <= 1
  /\ Apart(x) /\ job.why = "up" =>
       Count(img, x) + bank[x] <= IF pc = "lifted" THEN 2 ELSE 1
  /\ Apart(x) /\ job.why = "down" => Count(img, x) <= 1

\* The half that is done holds the Pokemon until the other is.
Halfway ==
  /\ job.why = "up" => bank[job.mon] >= 1
  /\ job.why = "down" /\ pc # "confirm" => Count(img, job.mon) >= 1
  /\ pc = "consume" => disk = img /\ pristine = img

OneInv == AtLeast /\ AtMost /\ Halfway

\* What a list holds is a number.
LEMMA CountsTyped ==
  GbTypeOK => /\ \A x : Count(disk, x) \in Nat /\ Count(img, x) \in Nat /\ Count(pristine, x) \in Nat
              /\ \A x \in Mons : bank[x] \in 0 .. 2
<1> SUFFICES ASSUME GbTypeOK
             PROVE  /\ \A x : /\ Count(disk, x) \in Nat /\ Count(img, x) \in Nat
                              /\ Count(pristine, x) \in Nat
                    /\ \A x \in Mons : bank[x] \in 0 .. 2
  OBVIOUS
<1>1. disk \in Images /\ img \in Images /\ pristine \in Images  BY DEF GbTypeOK
<1>2. QED  BY <1>1, PlacesFinite DEF GbTypeOK

\* Every Pokemon starts in the save or in the Bank.
LEMMA OneInit == GbInit => OneInv
<1> SUFFICES ASSUME GbInit PROVE OneInv  OBVIOUS
<1>1. GbTypeOK  BY TypeInit DEF TypeInv
<1>2. disk \in Images  BY <1>1 DEF GbTypeOK
<1>3. ASSUME NEW x \in Mons PROVE Count(disk, x) + bank[x] = 1
  <2>1. Count(disk, x) <= 1  BY DEF GbInit, Starts, Count
  <2>2. IsFiniteSet(Places(disk, x)) /\ Count(disk, x) \in Nat  BY <1>2, PlacesFinite
  <2>3. Count(disk, x) = 0 <=> Places(disk, x) = {}  BY <2>2, FS_EmptySet DEF Count
  <2>4. bank[x] = IF Places(disk, x) = {} THEN 1 ELSE 0  BY DEF GbInit
  <2>5. QED  BY <2>1, <2>2, <2>3, <2>4
<1>4. img = disk /\ pristine = disk /\ job.why = "none" /\ pc = "grid"  BY DEF GbInit, Idle
<1>5. QED  BY <1>3, <1>4 DEF OneInv, AtLeast, AtMost, Halfway, Apart, Known

\* A commit of an image that lacks nothing but what was released.
LEMMA CommitOne ==
  ASSUME TypeInv, OneInv, NEW i \in Images, Commit(i), pc = "grid", twins' = twins,
         released \subseteq released',
         \A x \in Mons : \/ Count(i, x) = Count(img, x)
                         \/ x \in released' /\ Count(i, x) <= Count(img, x)
  PROVE  OneInv'
<1>1. job.why = "none"  BY DEF TypeInv, GbTypeOK, Idle
<1>2. /\ disk' = disk /\ bank' = bank /\ img' = i /\ pc' # "off" /\ pc' # "consume"
      /\ pristine' = i \/ pristine' = pristine
      /\ job'.why \notin {"up", "down"}
  BY <1>1 DEF Commit, ToCard
<1>n. /\ \A x : Count(disk, x) \in Nat /\ Count(img, x) \in Nat /\ Count(pristine, x) \in Nat
      /\ \A x \in Mons : bank[x] \in 0 .. 2
      /\ \A x : Count(i, x) \in Nat
  BY CountsTyped, PlacesFinite DEF TypeInv
<1>3. ASSUME NEW x \in Mons \ released', NEW j \in {disk', img', pristine'}
      PROVE  Count(j, x) + bank'[x] >= 1
  <2>1. /\ Count(disk, x) + bank[x] >= 1 /\ Count(img, x) + bank[x] >= 1
        /\ Count(pristine, x) + bank[x] >= 1
    BY <1>3 DEF OneInv, AtLeast, Known
  <2>2. QED  BY <1>2, <1>3, <2>1
<1>4. ASSUME NEW x \in Mons \ twins', NEW j \in {disk', img', pristine'}
      PROVE  Count(j, x) + bank'[x] <= 1
  <2>1. /\ Count(disk, x) + bank[x] <= 1 /\ Count(img, x) + bank[x] <= 1
        /\ Count(pristine, x) + bank[x] <= 1
    BY <1>1, <1>4 DEF OneInv, AtMost, Apart, Known
  <2>2. Count(i, x) <= Count(img, x)  BY <1>n
  <2>3. Count(i, x) + bank[x] <= 1  BY <1>n, <2>1, <2>2
  <2>4. QED  BY <1>2, <1>4, <2>1, <2>3
<1>5. QED  BY <1>2, <1>3, <1>4 DEF OneInv, AtLeast, AtMost, Halfway, Apart, Known

\* What goes wrong on the grid changes nothing that counts.
LEMMA RefuseOne ==
  ASSUME TypeInv, OneInv, Refuse, pc = "grid", twins' = twins, released \subseteq released'
  PROVE  OneInv'
<1>1. job.why = "none"  BY DEF TypeInv, GbTypeOK, Idle
<1>2. UNCHANGED <<disk, bank, pristine, pc, job>> /\ img' = pristine  BY DEF Refuse, RollBack
<1>3. QED  BY <1>1, <1>2 DEF OneInv, AtLeast, AtMost, Halfway, Apart, Known

\* Every step keeps every Pokemon once where the session may yet find it.
LEMMA OneStep == TypeInv /\ OneInv /\ [GbNext]_vars => OneInv'
<1> SUFFICES ASSUME TypeInv, OneInv, [GbNext]_vars PROVE OneInv'  OBVIOUS
<1>n. /\ \A x : Count(disk, x) \in Nat /\ Count(img, x) \in Nat /\ Count(pristine, x) \in Nat
      /\ \A x \in Mons : bank[x] \in 0 .. 2
      /\ bank \in [Mons -> 0 .. 2]
  BY CountsTyped DEF TypeInv, GbTypeOK
<1>i. /\ disk \in Images /\ img \in Images /\ pristine \in Images
      /\ Party \in Boxes
  BY BoxesAssumption DEF TypeInv, GbTypeOK
<1>q. pc \in {"off", "grid"} => job.why = "none"  BY DEF TypeInv, GbTypeOK, Idle
<1>w. Idle.why = "none"  BY DEF Idle
<1>c. pc = "confirm" => job.why = "down"  BY DEF TypeInv, Crossing
<1> USE DEF OneInv, AtLeast, AtMost, Halfway, Apart, Known
<1>1. CASE Open  BY <1>1, <1>q DEF Open
<1>2. CASE ReleaseUp
  <2> DEFINE b == job.box
             k == CHOOSE n \in Slots(img, b) : img.box[b][n] = job.mon
  <2>1. b \in Boxes /\ job.mon \in Mons /\ k \in Slots(img, b) /\ img.box[b][k] = job.mon
        /\ job.why = "up" /\ pc = "lifted"
    BY <1>2 DEF ReleaseUp, TypeInv, Crossing
  <2>2. bank[job.mon] >= 1  BY <2>1
  <2>3. CASE img' = Without(img, b, k) /\ pc' = "write"
             /\ UNCHANGED <<pristine, disk, bank, job, twins>>
    <3>1. \A x : Count(img', x) = IF x = job.mon THEN Count(img, x) - 1 ELSE Count(img, x)
      <4> HIDE DEF b, k
      <4>1. QED  BY <1>i, <2>1, <2>3, CountWithout
    <3>2. released' = released  BY <1>2 DEF ReleaseUp
    <3>3. ASSUME NEW x \in Mons \ released', NEW i \in {disk', img', pristine'}
          PROVE  Count(i, x) + bank'[x] >= 1
      <4>1. /\ Count(disk, x) + bank[x] >= 1 /\ Count(img, x) + bank[x] >= 1
            /\ Count(pristine, x) + bank[x] >= 1
        BY <2>1, <3>2, <3>3
      <4>2. Count(img', x) + bank[x] >= 1
        <5>1. Count(img, job.mon) >= 1
          <6> HIDE DEF b, k
          <6>1. QED  BY <1>i, <2>1, CountWithout
        <5>2. QED  BY <1>n, <2>2, <3>1, <3>3, <4>1, <5>1
      <4>3. QED  BY <2>3, <3>3, <4>1, <4>2
    <3>4. ASSUME NEW x \in Mons \ twins', x # job.mon, NEW i \in {disk', img', pristine'}
          PROVE  Count(i, x) + bank'[x] <= 1
      <4>1. ~Apart(x) /\ x \notin twins  BY <2>3, <3>4
      <4>2. /\ Count(disk, x) + bank[x] <= 1 /\ Count(img, x) + bank[x] <= 1
            /\ Count(pristine, x) + bank[x] <= 1
        BY <2>1, <4>1
      <4>3. QED  BY <2>3, <3>1, <3>4, <4>2
    <3>5. job.mon \notin twins => /\ bank[job.mon] <= 1
                                  /\ Count(img', job.mon) + bank[job.mon] <= 1
      BY <1>n, <2>1, <3>1
    <3>6. QED  BY <2>1, <2>2, <2>3, <3>3, <3>4, <3>5
  <2>4. CASE /\ img' = pristine /\ pc' = "grid" /\ job' = Idle
             /\ twins' = twins \cup {job.mon} /\ UNCHANGED <<pristine, disk, bank, released>>
    BY <1>w, <2>1, <2>4
  <2>5. QED  BY <1>2, <2>3, <2>4 DEF ReleaseUp
<1>3. CASE ConfirmDown
  <2> DEFINE b == job.box
             y == job.mon
  <2>1. b \in Boxes /\ y \in Mons /\ job.why = "down" /\ bank[y] > 0 /\ pc = "confirm"
    BY <1>3 DEF ConfirmDown, TypeInv, Crossing
  <2>2. CASE img' = With(img, b, y) /\ pc' = "write"
             /\ UNCHANGED <<pristine, disk, bank, job, twins, released>>
    <3>1. \A x : Count(img', x) = IF x = y THEN Count(img, x) + 1 ELSE Count(img, x)
      <4> HIDE DEF b, y
      <4>1. QED  BY <1>i, <2>1, <2>2, CountWith
    <3>2. ASSUME NEW x \in Mons \ released', NEW i \in {disk', img', pristine'}
          PROVE  Count(i, x) + bank'[x] >= 1
      <4>1. /\ Count(disk, x) + bank[x] >= 1 /\ Count(img, x) + bank[x] >= 1
            /\ Count(pristine, x) + bank[x] >= 1
        BY <2>1, <2>2, <3>2
      <4>2. Count(img', x) + bank[x] >= 1  BY <1>n, <3>1, <4>1
      <4>3. QED  BY <2>2, <3>2, <4>1, <4>2
    <3>3. ASSUME NEW x \in Mons \ twins', x # y, NEW i \in {disk', img', pristine'}
          PROVE  Count(i, x) + bank'[x] <= 1
      BY <2>1, <2>2, <3>1, <3>3
    <3>4. y \notin twins => bank[y] <= 1 /\ Count(img', y) <= 1
      BY <1>n, <2>1, <3>1
    <3>5. Count(img', y) >= 1  BY <1>n, <3>1
    <3>6. QED  BY <2>1, <2>2, <3>2, <3>3, <3>4, <3>5
  <2>3. CASE /\ img' = pristine /\ pc' = "grid" /\ job' = Idle
             /\ UNCHANGED <<pristine, disk, bank, twins, released>>
    BY <1>w, <2>1, <2>3
  <2>4. QED  BY <1>3, <2>2, <2>3 DEF ConfirmDown, history
<1>4. CASE Consume
  <2> DEFINE y == job.mon
  <2>1. y \in Mons /\ job.why = "down" /\ pc = "consume" /\ Count(img, y) >= 1 /\ bank[y] > 0
    BY <1>4 DEF Consume, TypeInv, Crossing
  <2>2. /\ UNCHANGED <<disk, img, pristine, released>> /\ pc' = "grid" /\ job' = Idle
        /\ disk = img /\ pristine = img
    BY <1>4, <2>1 DEF Consume, image
  <2>3. \A x \in Mons \ {y} : bank'[x] = bank[x]  BY <1>4, <1>n DEF Consume
  <2>4. bank'[y] \in Nat /\ (y \notin twins' => bank'[y] = bank[y] - 1 /\ y \notin twins)
        /\ twins \subseteq twins'
    BY <1>4, <1>n, <2>1 DEF Consume
  <2>5. ASSUME NEW x \in Mons \ released'
        PROVE  Count(img, x) + bank'[x] >= 1
    <3>1. CASE x = y  BY <1>n, <2>1, <2>4, <3>1
    <3>2. CASE x # y  BY <2>1, <2>2, <2>3, <2>5, <3>2
    <3>3. QED  BY <3>1, <3>2
  <2>6. ASSUME NEW x \in Mons \ twins'
        PROVE  Count(img, x) + bank'[x] <= 1
    <3>1. CASE x = y  BY <1>n, <2>1, <2>4, <2>6, <3>1
    <3>2. CASE x # y  BY <2>1, <2>2, <2>3, <2>4, <2>6, <3>2
    <3>3. QED  BY <3>1, <3>2
  <2>7. QED  BY <1>w, <2>2, <2>5, <2>6
<1>5. CASE Persisted
  <2>1. /\ disk' = img /\ pristine' = img /\ img' = img /\ pc = "write"
        /\ UNCHANGED <<bank, twins, released>>
        /\ \/ job.why = "down" /\ pc' = "consume" /\ job' = job
           \/ job.why # "down" /\ pc' \in {"grid", "off"} /\ job' = Idle
    BY <1>5 DEF Persisted
  <2>2. job.why = "down" => job.mon \in Mons  BY DEF TypeInv, GbTypeOK, Jobs, Idle
  <2>3. \A x \in Mons \ released : Count(img, x) + bank[x] >= 1  BY <2>1
  <2>4. CASE job.why = "down" /\ pc' = "consume" /\ job' = job
    BY <2>1, <2>2, <2>3, <2>4
  <2>5. CASE job.why # "down" /\ pc' \in {"grid", "off"} /\ job' = Idle
    <3>1. \A x \in Mons \ twins : Count(img, x) + bank[x] <= 1  BY <2>1, <2>5
    <3>2. QED  BY <1>w, <2>1, <2>3, <2>5, <3>1
  <2>6. QED  BY <2>1, <2>4, <2>5
<1>6. CASE PersistFails
  <2>1. /\ disk' \in {disk, img} /\ img' = pristine /\ pristine' = pristine /\ pc = "write"
        /\ pc' \in {"off", "grid"} /\ job' = Idle /\ UNCHANGED <<bank, released>>
        /\ twins' = IF job.why \in {"up", "down"} THEN twins \cup {job.mon} ELSE twins
    BY <1>6 DEF PersistFails
  <2>2. \A x \in Mons \ twins' : ~Apart(x) /\ x \notin twins  BY <2>1
  <2>3. \A x \in Mons \ twins', i \in {disk, img, pristine} : Count(i, x) + bank[x] <= 1
    BY <2>1, <2>2
  <2>4. QED  BY <1>w, <2>1, <2>3
<1>7. CASE Exit
  <2>1. /\ pc = "grid" /\ disk' = disk /\ pristine' = pristine /\ img' \in {img, disk}
        /\ UNCHANGED <<bank, twins, released>>
        /\ \/ pc' = "off" /\ job' = job
           \/ pc' = "write" /\ job' = [why |-> "exit"]
    <3>1. pc = "grid" /\ UNCHANGED <<disk, pristine, bank, twins, released>>
      BY <1>7 DEF Exit, history
    <3>2. img' \in {img, disk}
      BY <1>7 DEF Exit
    <3>3. \/ pc' = "off" /\ job' = job
          \/ pc' = "write" /\ job' = [why |-> "exit"]
      BY <1>7 DEF Exit, ToCard
    <3>4. QED  BY <3>1, <3>2, <3>3
  <2>2. QED  BY <1>q, <2>1
<1>8. CASE PowerCut
  <2>1. /\ disk' \in {disk, img} /\ (pc # "write" => disk' = disk) /\ pc # "off"
        /\ pc' = "off" /\ job' = Idle /\ UNCHANGED <<bank, released>>
        /\ twins' = IF pc \in {"lifted", "write", "consume"} /\ job.why \in {"up", "down"}
                    THEN twins \cup {job.mon} ELSE twins
    BY <1>8 DEF PowerCut
  <2>2. pc \in {"off", "grid", "lifted", "confirm", "write", "consume"}
    BY DEF TypeInv, GbTypeOK
  <2>3. \A x \in Mons \ twins' : ~Apart(x) /\ x \notin twins  BY <1>q, <2>1, <2>2
  <2>4. \A x \in Mons \ twins', i \in {disk, img} : Count(i, x) + bank[x] <= 1
    BY <2>1, <2>3
  <2>5. QED  BY <1>w, <2>1, <2>4
<1>9. ASSUME NEW p \in Pages, EditInPlace(p) PROVE OneInv'
  <2>1. Flipped(img, p) \in Images /\ \A x : Count(Flipped(img, p), x) = Count(img, x)
    BY <1>i, CountFlipped
  <2>2. pc = "grid" /\ twins' = twins /\ released' = released  BY <1>9 DEF EditInPlace
  <2>3. CASE Commit(Flipped(img, p)) \/ Refuse
    BY <2>1, <2>2, <2>3, CommitOne, RefuseOne
  <2>4. CASE img' = Flipped(img, p) /\ UNCHANGED <<pristine, disk, bank, pc, job>>
    BY <1>q, <2>1, <2>2, <2>4
  <2>5. QED  BY <1>9, <2>3, <2>4 DEF EditInPlace, Decline
<1>10. ASSUME NEW p \in Pages, EditDraft(p) PROVE OneInv'
  <2>1. Flipped(img, p) \in Images /\ \A x : Count(Flipped(img, p), x) = Count(img, x)
    BY <1>i, CountFlipped
  <2>2. QED  BY <1>10, <2>1, CommitOne, RefuseOne DEF EditDraft
<1>11. ASSUME NEW b \in Boxes, NEW k \in Slots(img, b), NEW d \in Boxes, MoveMon(b, k, d)
       PROVE  OneInv'
  <2>1. d \in Boxes \ {b}  BY <1>11 DEF MoveMon
  <2>2. /\ Moved(img, b, k, d) \in Images
        /\ \A x : Count(Moved(img, b, k, d), x) = Count(img, x)
    BY <1>i, <2>1, CountMoved
  <2>3. QED  BY <1>11, <2>2, CommitOne, RefuseOne DEF MoveMon
<1>12. ASSUME NEW b \in Boxes, NEW k \in Slots(img, b), Release(b, k)
       PROVE  OneInv'
  <2>1. Without(img, b, k) \in Images  BY <1>i, WithoutFacts
  <2>2. \A x : \/ Count(Without(img, b, k), x) = Count(img, x)
               \/ x = img.box[b][k] /\ Count(Without(img, b, k), x) <= Count(img, x)
    <3>1. \A x : Count(Without(img, b, k), x) =
                   IF x = img.box[b][k] THEN Count(img, x) - 1 ELSE Count(img, x)
      BY <1>i, CountWithout
    <3>2. QED  BY <1>n, <3>1
  <2>3. CASE Commit(Without(img, b, k)) /\ released' = released \cup {img.box[b][k]}
    BY <1>12, <2>1, <2>2, <2>3, CommitOne DEF Release
  <2>4. CASE Refuse /\ UNCHANGED released
    BY <1>12, <2>4, RefuseOne DEF Release
  <2>5. QED  BY <1>12, <2>3, <2>4 DEF Release
<1>13. ASSUME NEW b \in Boxes, NEW k \in Slots(img, b), LiftToBank(b, k)
       PROVE  OneInv'
  <2> DEFINE y == img.box[b][k]
  <2>1. y \in Mons /\ Count(img, y) >= 1 /\ bank[y] < 2
    <3>1. y \in Mons  BY <1>i DEF Images, Slots
    <3>2. Count(img, y) >= 1  BY <1>i, CountWithout
    <3>3. QED  BY <1>13, <3>1, <3>2 DEF LiftToBank
  <2>2. /\ pc = "grid" /\ UNCHANGED <<disk, img, pristine, released>>
        /\ \A x \in Mons \ {y} : bank'[x] = bank[x]
        /\ bank'[y] \in bank[y] .. bank[y] + 1
        /\ \/ /\ bank'[y] = bank[y] + 1 /\ twins' = twins
              /\ pc' = "lifted" /\ job' = [why |-> "up", mon |-> y, box |-> b]
           \/ twins' = twins \cup {y} /\ UNCHANGED <<pc, job>>
    BY <1>13, <1>n, <2>1 DEF LiftToBank, image
  <2> HIDE DEF y
  <2>3. \A x \in Mons \ released', i \in {disk, img, pristine} : Count(i, x) + bank'[x] >= 1
    <3>1. ASSUME NEW x \in Mons \ released', NEW i \in {disk, img, pristine}
          PROVE  Count(i, x) + bank'[x] >= 1
      <4>1. Count(i, x) + bank[x] >= 1 /\ Count(i, x) \in Nat  BY <1>n, <2>2, <3>1
      <4>2. bank'[x] >= bank[x] /\ bank[x] \in Nat /\ bank'[x] \in Nat
        BY <1>n, <2>1, <2>2, <3>1
      <4>3. QED  BY <4>1, <4>2
    <3>2. QED  BY <3>1
  <2>4. \A x \in Mons \ (twins' \cup {y}), i \in {disk, img, pristine} :
          Count(i, x) + bank'[x] <= 1
    BY <1>q, <2>2
  <2>5. y \notin twins => bank[y] = 0 /\ Count(img, y) = 1
    <3>1. y \notin twins => Count(img, y) + bank[y] <= 1  BY <1>q, <2>1, <2>2
    <3>2. QED  BY <1>n, <2>1, <3>1
  <2>6. bank[y] \in 0 .. 2  BY <1>n, <2>1
  <2>7. CASE /\ bank'[y] = bank[y] + 1 /\ twins' = twins
             /\ pc' = "lifted" /\ job' = [why |-> "up", mon |-> y, box |-> b]
    BY <2>1, <2>2, <2>3, <2>4, <2>5, <2>6, <2>7
  <2>8. CASE twins' = twins \cup {y} /\ UNCHANGED <<pc, job>>
    BY <1>q, <2>2, <2>3, <2>4, <2>8
  <2>9. QED  BY <2>2, <2>7, <2>8
<1>14. ASSUME NEW y \in Mons, NEW b \in Boxes, BringDown(y, b)
       PROVE  OneInv'
  <2>1. /\ pc = "grid" /\ UNCHANGED <<disk, pristine, bank, twins, released>>
        /\ \/ pc' = "confirm" /\ job' = [why |-> "down", mon |-> y, box |-> b]
           \/ UNCHANGED <<pc, job>>
    BY <1>14 DEF BringDown, history
  <2>2. \A x : Count(img', x) \in {Count(img, x), Count(pristine, x)}
    <3>1. \/ img' \in {img, pristine}
          \/ \E d \in Boxes \ {Party}, k \in Slots(img, Party) : img' = Moved(img, Party, k, d)
      BY <1>14 DEF BringDown
    <3>2. ASSUME NEW d \in Boxes \ {Party}, NEW k \in Slots(img, Party)
          PROVE  \A x : Count(Moved(img, Party, k, d), x) = Count(img, x)
      BY <1>i, CountMoved
    <3>3. QED  BY <3>1, <3>2
  <2>3. QED  BY <1>q, <2>1, <2>2
<1>15. CASE UNCHANGED vars  BY <1>15 DEF vars, image, history
<1>16. QED
  BY <1>1, <1>2, <1>3, <1>4, <1>5, <1>6, <1>7, <1>8, <1>9, <1>10, <1>11, <1>12, <1>13,
     <1>14, <1>15 DEF GbNext

(* A Pokemon that the user has not released is on the card at every instant, *)
(* in the save or in the Bank, and between operations only once, unless a    *)
(* second half failed (gb_release_up_hook, bank_down_consume).               *)
THEOREM OneOfEachAlways == GbSpec => []OneOfEach
<1>1. TypeInv /\ OneInv => OneOfEach
  <2> SUFFICES ASSUME TypeInv, OneInv, NEW x \in Mons
               PROVE  /\ x \notin released => Copies(x) >= 1
                      /\ pc \in {"grid", "off"} /\ x \notin twins => Copies(x) <= 1
    BY DEF OneOfEach
  <2>1. Copies(x) = Count(disk, x) + bank[x] /\ disk \in Known  BY DEF Copies, Count, Known
  <2>2. pc \in {"grid", "off"} => ~Apart(x)  BY DEF TypeInv, GbTypeOK, Idle, Apart
  <2>3. QED  BY <2>1, <2>2 DEF OneInv, AtLeast, AtMost
<1>2. QED  BY TypeInit, TypeStep, OneInit, OneStep, <1>1, PTL DEF GbSpec
=============================================================================
