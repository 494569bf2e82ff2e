---------------------------- MODULE JournalProofs ----------------------------
(***************************************************************************)
(* Proofs about Journal, for every ring, every size of a segment, of the   *)
(* pending buffer and of a chain, and every kind of mishap: the types; and *)
(* for a card that can read back what it wrote (see the run                *)
(* journal_orphan) that a step taken back stays away, that the session     *)
(* writes where a reopen would look, and that the journal is a durable     *)
(* log, every step of it the step of DurableLog that is its own.           *)
(***************************************************************************)
EXTENDS Journal, Integers, TLAPS, WellFoundedInduction, FiniteSetTheorems

--------------------------------
\* Numbers: the constants, the highest and the lowest of a set, the slots
\* of the ring.

LEMMA Sizes ==
  /\ Ring \in Nat /\ MaxSegs \in Nat /\ SegCap \in Nat /\ PendMax \in Nat /\ ChainLen \in Nat
  /\ ZWindow \in Nat /\ MaxIdx \in Nat /\ MaxSteps \in Nat /\ MaxMishaps \in Nat
  /\ Ring >= 2 /\ MaxIdx >= 1 /\ MaxSegs >= 1 /\ ChainLen >= 2 /\ PendMax >= 1
  /\ PendMax <= SegCap /\ ChainLen <= SegCap /\ SegCap >= 1
  /\ PendMax <= ZWindow /\ ChainLen <= ZWindow
  /\ Gone = MaxIdx + 1 /\ Free = 0
  BY JournalAssumption DEF Gone, Free

\* A set of numbers below n that is not empty has a highest and a lowest one.
LEMMA HighestFact ==
  ASSUME NEW n \in Nat, NEW S, S \subseteq 0 .. n, S # {}
  PROVE  \E m \in S : \A y \in S : y <= m
<1> DEFINE T == {x .. n : x \in S}
<1>1. T \subseteq FiniteSubsetsOf(Nat) /\ T # {}
  <2>1. ASSUME NEW x \in S PROVE x .. n \in FiniteSubsetsOf(Nat)
    <3>1. IsFiniteSet(x .. n)  BY FS_Interval
    <3>2. x .. n \in SUBSET Nat  OBVIOUS
    <3>3. QED  BY <3>1, <3>2 DEF FiniteSubsetsOf
  <2>2. T \subseteq FiniteSubsetsOf(Nat)  BY <2>1
  <2>3. PICK x \in S : TRUE  OBVIOUS
  <2>4. x .. n \in T  OBVIOUS
  <2>5. QED  BY <2>2, <2>4
<1>2. PICK m \in T : \A t \in T : ~(<<t, m>> \in StrictSubsetOrdering(Nat))
  <2> HIDE DEF T
  <2>1. IsWellFoundedOn(StrictSubsetOrdering(Nat), FiniteSubsetsOf(Nat))
    BY FS_StrictSubsetOrderingWellFounded
  <2>2. QED  BY <1>1, <2>1, WFMin
<1>3. PICK x \in S : m = x .. n  OBVIOUS
<1>4. ASSUME NEW y \in S PROVE y <= x
  <2>1. SUFFICES ASSUME y > x PROVE FALSE  BY <1>4
  <2>2. y .. n \subseteq x .. n /\ x \in x .. n /\ x \notin y .. n  BY <2>1
  <2>3. y .. n \in SUBSET Nat /\ x .. n \in SUBSET Nat  OBVIOUS
  <2>4. <<y .. n, x .. n>> \in StrictSubsetOrdering(Nat)
    BY <2>2, <2>3 DEF StrictSubsetOrdering
  <2>5. QED  BY <1>2, <1>3, <2>4
<1>5. QED  BY <1>4

LEMMA LowestFact ==
  ASSUME NEW n \in Nat, NEW S, S \subseteq 0 .. n, S # {}
  PROVE  \E m \in S : \A y \in S : m <= y
<1> DEFINE T == {n - x : x \in S}
<1>1. T \subseteq 0 .. n /\ T # {}
  <2>1. PICK x \in S : TRUE  OBVIOUS
  <2>2. n - x \in T  OBVIOUS
  <2>3. T \subseteq 0 .. n  OBVIOUS
  <2> QED  BY <2>2, <2>3
<1>2. PICK m \in T : \A y \in T : y <= m
  <2> HIDE DEF T
  <2> QED  BY <1>1, HighestFact
<1>3. PICK x \in S : m = n - x  OBVIOUS
<1>4. ASSUME NEW y \in S PROVE x <= y
  <2>1. n - y \in T  OBVIOUS
  <2>2. n - y <= n - x  BY <1>2, <1>3, <2>1
  <2>3. x \in Nat /\ y \in Nat  OBVIOUS
  <2> QED  BY <2>2, <2>3
<1>5. QED  BY <1>4

LEMMA MaxMin ==
  ASSUME NEW n \in Nat, NEW S, S \subseteq 0 .. n, S # {}
  PROVE  /\ Max(S) \in S /\ \A y \in S : y <= Max(S)
         /\ Min(S) \in S /\ \A y \in S : Min(S) <= y
<1>1. \E m \in S : \A y \in S : m >= y  BY HighestFact
<1>2. \E m \in S : \A y \in S : m =< y  BY LowestFact
<1>3. Max(S) \in S /\ \A y \in S : Max(S) >= y  BY <1>1 DEF Max
<1>4. Min(S) \in S /\ \A y \in S : Min(S) =< y  BY <1>2 DEF Min
<1> QED  BY <1>3, <1>4

LEMMA SlotIn == \A x \in Nat \ {0} : SlotOf(x) \in Slots /\ SlotOf(x) \in 1..Ring
  BY Sizes DEF SlotOf, Slots

LEMMA SlotDiv == \A x \in Nat \ {0} : \E q \in Int : x = q * Ring + SlotOf(x)
<1> TAKE x \in Nat \ {0}
<1>1. x = ((x - 1) \div Ring) * Ring + SlotOf(x)  BY Sizes DEF SlotOf, Slots
<1>2. (x - 1) \div Ring \in Int  BY Sizes
<1> QED BY <1>1, <1>2

LEMMA Times ==
  \A k \in Int : /\ k >= 2 => k * Ring >= Ring + Ring
                 /\ k <= -1 => k * Ring <= -Ring
  BY Sizes

\* Two segments at most a lap apart are as far apart as their slots, or a lap
\* further.
LEMMA Laps ==
  ASSUME NEW x \in Nat \ {0}, NEW y \in Nat \ {0}, x <= y, y - x <= Ring
  PROVE  \/ y - x = SlotOf(y) - SlotOf(x)
         \/ y - x = SlotOf(y) - SlotOf(x) + Ring
<1>1. PICK p \in Int : x = p * Ring + SlotOf(x)  BY SlotDiv
<1>2. PICK q \in Int : y = q * Ring + SlotOf(y)  BY SlotDiv
<1> DEFINE k == q - p
           P == p * Ring
           Q == q * Ring
           K == k * Ring
<1>3. K = Q - P /\ K \in Int /\ P \in Int /\ Q \in Int  BY Sizes
<1>4. y - x = K + SlotOf(y) - SlotOf(x)
  <2>2. SlotOf(x) \in Int /\ SlotOf(y) \in Int  BY SlotIn, Sizes
  <2>3. x = P + SlotOf(x) /\ y = Q + SlotOf(y)  BY <1>1, <1>2
  <2> HIDE DEF K, P, Q
  <2> QED  BY <1>3, <2>2, <2>3
<1>5. k \in Int  BY DEF k
<1>6. SlotOf(x) \in 1..Ring /\ SlotOf(y) \in 1..Ring  BY SlotIn
<1> HIDE DEF k
<1>7. k * Ring \in Int  BY <1>5, Sizes
<1>8. k = 0 \/ k = 1
  <2>1. ASSUME k >= 2 PROVE FALSE
    <3>1. k * Ring >= Ring + Ring  BY Times, <1>5, <2>1
    <3> QED  BY <3>1, <1>4, <1>6, <1>7, Sizes
  <2>2. ASSUME k <= -1 PROVE FALSE
    <3>1. k * Ring <= -Ring  BY Times, <1>5, <2>2
    <3> QED  BY <3>1, <1>4, <1>6, <1>7, Sizes
  <2> QED  BY <2>1, <2>2, <1>5
<1>9. 0 * Ring = 0 /\ 1 * Ring = Ring  BY Sizes
<1> QED  BY <1>4, <1>8, <1>9, <1>6, Sizes

\* Segments less than a lap apart have different slots; a lap apart, the same.
LEMMA SlotNear ==
  ASSUME NEW x \in Nat \ {0}, NEW y \in Nat \ {0}
  PROVE  /\ x < y /\ y - x < Ring => SlotOf(x) # SlotOf(y)
         /\ y - x = Ring => SlotOf(x) = SlotOf(y)
<1>1. SlotOf(x) \in 1..Ring /\ SlotOf(y) \in 1..Ring  BY SlotIn
<1>2. ASSUME x < y, y - x < Ring PROVE SlotOf(x) # SlotOf(y)
  BY <1>1, <1>2, Laps, Sizes
<1>3. ASSUME y - x = Ring PROVE SlotOf(x) = SlotOf(y)
  <2>1. Ring \in Nat /\ Ring >= 2 /\ x <= y /\ y - x <= Ring  BY <1>3, Sizes
  <2>2. \/ y - x = SlotOf(y) - SlotOf(x)
        \/ y - x = SlotOf(y) - SlotOf(x) + Ring
    BY <2>1, Laps
  <2>3. PICK s \in 1..Ring : s = SlotOf(x)  BY <1>1
  <2>4. PICK t \in 1..Ring : t = SlotOf(y)  BY <1>1
  <2>5. Ring = t - s \/ Ring = t - s + Ring  BY <1>3, <2>2, <2>3, <2>4
  <2>6. s = t  BY <2>1, <2>5
  <2> QED  BY <2>3, <2>4, <2>6
<1> QED  BY <1>2, <1>3

\* Of two segments less than a lap apart, with the slot of one between them
\* lower than both of theirs, the younger one has the lower slot.
LEMMA SlotGap ==
  ASSUME NEW x \in Nat \ {0}, NEW y \in Nat \ {0}, NEW z \in Nat \ {0},
         x < y, y < z, z - x < Ring, SlotOf(y) < SlotOf(x), SlotOf(y) < SlotOf(z)
  PROVE  SlotOf(z) < SlotOf(x)
<1>1. SlotOf(x) \in 1..Ring /\ SlotOf(y) \in 1..Ring /\ SlotOf(z) \in 1..Ring  BY SlotIn
<1>2. y - x = SlotOf(y) - SlotOf(x) + Ring  BY <1>1, Laps, Sizes
<1>3. z - x = SlotOf(z) - SlotOf(x) \/ z - x = SlotOf(z) - SlotOf(x) + Ring
  BY Laps, Sizes
<1>4. z - y = SlotOf(z) - SlotOf(y) \/ z - y = SlotOf(z) - SlotOf(y) + Ring
  BY Laps, Sizes
<1> QED  BY <1>1, <1>2, <1>3, <1>4, Sizes

--------------------------------
\* A row of cells and the run it starts with.

Rec == [seq : Nat, step : Nat, part : Nat, n : Nat]
Row == [1..SegCap -> Rec]

\* There is nothing in a row behind its first n cells.
Blanks(row, n) == \A i \in 1..SegCap : i > n => row[i] = Void

LEMMA RecFacts ==
  /\ Void \in Rec /\ Blank \in Row
  /\ \A q, s, p, k \in Nat : Record(q, s, p, k) \in Rec
  /\ \A q, s, p, k : q # 0 => Record(q, s, p, k) # Void
  /\ \A q, s, p, k : /\ Record(q, s, p, k).seq = q /\ Record(q, s, p, k).step = s
                     /\ Record(q, s, p, k).part = p /\ Record(q, s, p, k).n = k
  BY DEF Rec, Row, Void, Blank, Record

LEMMA RunLenFact ==
  ASSUME NEW row
  PROVE  /\ RunLen(row) \in 0..SegCap
         /\ WholeRun(row, RunLen(row))
         /\ \A m \in 0..SegCap : WholeRun(row, m) => m <= RunLen(row)
<1> DEFINE S == {n \in 0..SegCap : WholeRun(row, n)}
<1>1. WholeRun(row, 0)  BY DEF WholeRun
<1>2. S \subseteq 0..SegCap /\ S # {}  BY <1>1, Sizes
<1>3. PICK m \in S : \A y \in S : y <= m
  <2> HIDE DEF S
  <2> QED  BY <1>2, HighestFact, Sizes
<1>4. m \in 0..SegCap /\ WholeRun(row, m)  OBVIOUS
<1>5. \A y \in (m + 1)..SegCap : ~WholeRun(row, y)
  <2> SUFFICES ASSUME NEW y \in (m + 1)..SegCap, WholeRun(row, y) PROVE FALSE
    OBVIOUS
  <2>1. y \in S  BY <1>4, Sizes
  <2> QED  BY <2>1, <1>3, <1>4, Sizes
<1>6. /\ RunLen(row) \in 0..SegCap
      /\ WholeRun(row, RunLen(row))
      /\ \A y \in (RunLen(row) + 1)..SegCap : ~WholeRun(row, y)
  BY <1>4, <1>5 DEF RunLen
<1> QED  BY <1>6, Sizes

\* A run depends on nothing behind it.
LEMMA RunSame ==
  ASSUME NEW row \in Row, NEW row2 \in Row, NEW m \in 0..SegCap,
         \A i \in 1..m : row2[i] = row[i], WholeRun(row, m)
  PROVE  WholeRun(row2, m)
<1>0. \A i \in 1..m : i \in 1..SegCap /\ row[i] \in Rec  BY Sizes DEF Row
<1>1. \A i \in 1..m : row2[i] # Void  BY DEF WholeRun
<1>2. \A i \in 2..m : row2[i].seq = row2[i - 1].seq + 1
  BY Sizes DEF WholeRun
<1>3. ASSUME NEW i \in 1..m, row2[i].part = 0, NEW k \in 1..(row2[i].n - 1)
      PROVE  i + k <= m /\ row2[i + k].part = k
  <2>1. row[i] = row2[i] /\ row[i].n \in Nat  BY <1>0 DEF Rec
  <2>2. i + k <= m /\ row[i + k].part = k  BY <1>3, <2>1 DEF WholeRun
  <2>3. i + k \in 1..m  BY <2>2, <2>1, Sizes
  <2> QED  BY <2>2, <2>3
<1>4. ASSUME NEW i \in 1..m, row2[i].part # 0
      PROVE  i > row2[i].part /\ row2[i - row2[i].part].n > row2[i].part
  <2>1. row[i] = row2[i] /\ row[i].part \in Nat  BY <1>0 DEF Rec
  <2>2. i > row[i].part /\ row[i - row[i].part].n > row[i].part
    BY <1>4, <2>1 DEF WholeRun
  <2>3. i - row[i].part \in 1..m  BY <2>1, <2>2, Sizes
  <2> QED  BY <2>1, <2>2, <2>3
<1> QED  BY <1>1, <1>2, <1>3, <1>4 DEF WholeRun

\* It ends at the first cell without a record, and at a chain that is not
\* whole.
LEMMA RunEnds ==
  ASSUME NEW row \in Row, NEW m \in 0..(SegCap - 1)
  PROVE  /\ row[m + 1] = Void => RunLen(row) <= m
         /\ \A L \in Nat, k \in Nat :
              /\ row[m + 1].part = 0 /\ row[m + 1].n = L /\ 1 <= k /\ k < L
              /\ m + 1 + k > SegCap \/ row[m + 1 + k] = Void
              => RunLen(row) <= m
<1> DEFINE r == RunLen(row)
<1>1. r \in 0..SegCap /\ WholeRun(row, r)  BY RunLenFact
<1> HIDE DEF r
<1>2. ASSUME row[m + 1] = Void PROVE r <= m
  <2>1. SUFFICES ASSUME r > m PROVE FALSE  BY <1>1, Sizes
  <2>2. m + 1 \in 1..r  BY <2>1, <1>1, Sizes
  <2> QED  BY <2>2, <1>1, <1>2 DEF WholeRun
<1>3. ASSUME NEW L \in Nat, NEW k \in Nat, row[m + 1].part = 0, row[m + 1].n = L,
             1 <= k, k < L, m + 1 + k > SegCap \/ row[m + 1 + k] = Void
      PROVE  r <= m
  <2>1. SUFFICES ASSUME r > m PROVE FALSE  BY <1>1, Sizes
  <2>2. m + 1 \in 1..r  BY <2>1, <1>1, Sizes
  <2>3. k \in 1..(row[m + 1].n - 1)  BY <1>3
  <2>4. m + 1 + k <= r  BY <2>2, <2>3, <1>1, <1>3 DEF WholeRun
  <2>5. m + 1 + k \in 1..r /\ m + 1 + k \in 1..SegCap  BY <2>4, <1>1, <1>3, Sizes
  <2> QED  BY <2>5, <1>1, <1>3, Sizes DEF WholeRun
<1> QED  BY <1>2, <1>3 DEF r

\* A run goes on with records of their own that follow in sequence ...
LEMMA RunGrows ==
  ASSUME NEW row \in Row, NEW m \in 0..SegCap, NEW k \in 0..SegCap, m + k <= SegCap,
         WholeRun(row, m), NEW q \in Nat,
         \A i \in 1..k : row[m + i].seq = q + i - 1 /\ row[m + i].part = 0 /\ row[m + i].n = 1
                         /\ row[m + i] # Void,
         m > 0 => row[m].seq + 1 = q
  PROVE  WholeRun(row, m + k)
<1>0. \A i \in 1..SegCap : row[i] \in Rec  BY DEF Row
<1>1. \A i \in (m + 1)..(m + k) : i - m \in 1..k /\ i = m + (i - m)  BY Sizes
<1>2. \A i \in (m + 1)..(m + k) : /\ row[i].seq = q + (i - m) - 1 /\ row[i].part = 0
                                  /\ row[i].n = 1 /\ row[i] # Void
  <2> TAKE i \in (m + 1)..(m + k)
  <2>1. i - m \in 1..k /\ m + (i - m) = i  BY <1>1
  <2> QED  BY <2>1
<1>3. \A i \in 1..(m + k) : row[i] # Void  BY <1>2, Sizes DEF WholeRun
<1>4. ASSUME NEW i \in 2..(m + k) PROVE row[i].seq = row[i - 1].seq + 1
  <2>1. CASE i <= m  BY <2>1 DEF WholeRun
  <2>2. CASE i = m + 1
    <3>1. m > 0 /\ i - 1 = m  BY <2>2
    <3>2. row[i].seq = q + (i - m) - 1  BY <1>2, <2>2, Sizes
    <3>3. q + (i - m) - 1 = q  BY <2>2
    <3>4. row[m].seq + 1 = q  BY <3>1
    <3> QED  BY <3>1, <3>2, <3>3, <3>4
  <2>3. CASE i > m + 1
    <3>1. i \in (m + 1)..(m + k) /\ i - 1 \in (m + 1)..(m + k)  BY <2>3, Sizes
    <3>2. row[i].seq = q + (i - m) - 1 /\ row[i - 1].seq = q + (i - 1 - m) - 1
      BY <3>1, <1>2
    <3> QED  BY <3>2, Sizes
  <2> QED  BY <2>1, <2>2, <2>3, Sizes
<1>5. ASSUME NEW i \in 1..(m + k), row[i].part = 0, NEW j \in 1..(row[i].n - 1)
      PROVE  i + j <= m + k /\ row[i + j].part = j
  <2>1. CASE i <= m
    <3>1. i + j <= m /\ row[i + j].part = j  BY <1>5, <2>1 DEF WholeRun
    <3>2. j \in Nat  BY <1>5, <1>0, Sizes DEF Rec
    <3> QED  BY <3>1, <3>2, Sizes
  <2>2. CASE i > m
    <3>1. row[i].n = 1  BY <1>2, <2>2, Sizes
    <3> QED  BY <3>1
  <2> QED  BY <2>1, <2>2, Sizes
<1>6. ASSUME NEW i \in 1..(m + k), row[i].part # 0
      PROVE  i > row[i].part /\ row[i - row[i].part].n > row[i].part
  <2>1. i <= m  BY <1>2, <1>6, Sizes
  <2> QED  BY <2>1, <1>6 DEF WholeRun
<1> QED  BY <1>3, <1>4, <1>5, <1>6 DEF WholeRun

\* ... and with a whole chain.
LEMMA RunTakesChain ==
  ASSUME NEW row \in Row, NEW m \in 0..SegCap, NEW L \in 1..SegCap, m + L <= SegCap,
         WholeRun(row, m), NEW q \in Nat,
         \A i \in 1..L : row[m + i].seq = q + i - 1 /\ row[m + i].part = i - 1
                         /\ row[m + i] # Void,
         row[m + 1].n = L, m > 0 => row[m].seq + 1 = q
  PROVE  WholeRun(row, m + L)
<1>0. \A i \in 1..SegCap : row[i] \in Rec  BY DEF Row
<1>2. \A i \in (m + 1)..(m + L) :
        row[i].seq = q + (i - m) - 1 /\ row[i].part = i - m - 1 /\ row[i] # Void
  <2> TAKE i \in (m + 1)..(m + L)
  <2>1. i - m \in 1..L /\ m + (i - m) = i  BY Sizes
  <2> QED  BY <2>1
<1>3. \A i \in 1..(m + L) : row[i] # Void  BY <1>2, Sizes DEF WholeRun
<1>4. ASSUME NEW i \in 2..(m + L) PROVE row[i].seq = row[i - 1].seq + 1
  <2>1. CASE i <= m  BY <2>1 DEF WholeRun
  <2>2. CASE i = m + 1
    <3>1. m > 0 /\ i - 1 = m  BY <2>2
    <3>2. row[i].seq = q + (i - m) - 1  BY <1>2, <2>2, Sizes
    <3>3. q + (i - m) - 1 = q  BY <2>2
    <3>4. row[m].seq + 1 = q  BY <3>1
    <3> QED  BY <3>1, <3>2, <3>3, <3>4
  <2>3. CASE i > m + 1
    <3>1. i \in (m + 1)..(m + L) /\ i - 1 \in (m + 1)..(m + L)  BY <2>3, Sizes
    <3>2. row[i].seq = q + (i - m) - 1 /\ row[i - 1].seq = q + (i - 1 - m) - 1
      BY <3>1, <1>2
    <3> QED  BY <3>2, Sizes
  <2> QED  BY <2>1, <2>2, <2>3, Sizes
<1>5. ASSUME NEW i \in 1..(m + L), row[i].part = 0, NEW j \in 1..(row[i].n - 1)
      PROVE  i + j <= m + L /\ row[i + j].part = j
  <2>0. j \in Nat  BY <1>5, <1>0, Sizes DEF Rec
  <2>1. CASE i <= m
    <3>1. i + j <= m /\ row[i + j].part = j  BY <1>5, <2>1 DEF WholeRun
    <3> QED  BY <3>1, <2>0, Sizes
  <2>2. CASE i > m
    <3>1. i = m + 1  BY <1>2, <1>5, <2>2, Sizes
    <3>2. j \in 1..(L - 1)  BY <3>1, <1>5
    <3>3. i + j \in (m + 1)..(m + L)  BY <3>1, <3>2, Sizes
    <3>4. row[i + j].part = i + j - m - 1  BY <3>3, <1>2
    <3> QED  BY <3>1, <3>2, <3>3, <3>4, Sizes
  <2> QED  BY <2>1, <2>2, Sizes
<1>6. ASSUME NEW i \in 1..(m + L), row[i].part # 0
      PROVE  i > row[i].part /\ row[i - row[i].part].n > row[i].part
  <2>1. CASE i <= m  BY <2>1, <1>6 DEF WholeRun
  <2>2. CASE i > m
    <3>1. row[i].part = i - m - 1  BY <1>2, <2>2, Sizes
    <3>2. i - row[i].part = m + 1 /\ row[i].part < L  BY <3>1, Sizes
    <3> QED  BY <3>1, <3>2, <2>2, Sizes
  <2> QED  BY <2>1, <2>2, Sizes
<1> QED  BY <1>3, <1>4, <1>5, <1>6 DEF WholeRun

\* The first record of a run is a head; a head that is no chain is a run.
LEMMA RunStarts ==
  ASSUME NEW row \in Row
  PROVE  /\ RunLen(row) > 0 => row[1] # Void /\ row[1].part = 0
         /\ RunLen(row) = 0 /\ row[1] # Void /\ row[1].part = 0 => row[1].n >= 2
<1>1. RunLen(row) \in 0..SegCap /\ WholeRun(row, RunLen(row))  BY RunLenFact
<1>2. row[1] \in Rec  BY Sizes DEF Row
<1>3. ASSUME RunLen(row) > 0 PROVE row[1] # Void /\ row[1].part = 0
  <2>1. 1 \in 1..RunLen(row)  BY <1>1, <1>3
  <2>2. row[1].part # 0 => 1 > row[1].part  BY <2>1, <1>1 DEF WholeRun
  <2> QED  BY <2>1, <2>2, <1>1, <1>2 DEF WholeRun, Rec
<1>4. ASSUME RunLen(row) = 0, row[1] # Void, row[1].part = 0, ~(row[1].n >= 2) PROVE FALSE
  <2>1. row[1].n \in 0..1  BY <1>2, <1>4 DEF Rec
  <2>2. WholeRun(row, 1)  BY <1>4, <2>1 DEF WholeRun
  <2>3. 1 <= RunLen(row)  BY <2>2, RunLenFact, Sizes
  <2> QED  BY <2>3, <1>4
<1> QED  BY <1>3, <1>4

--------------------------------
\* The rows a reopen reads, and how far it gets.

IsRows(R, lo, hi) == lo \in 1..MaxIdx /\ hi \in lo..MaxIdx /\ R \in [lo..hi -> Row]

LEMMA RowsFacts ==
  ASSUME NEW R, NEW lo, NEW hi, IsRows(R, lo, hi)
  PROVE  /\ DOMAIN R = lo..hi /\ lo \in Nat /\ hi \in Nat /\ lo <= hi /\ lo >= 1
         /\ \A s \in lo..hi : R[s] \in Row /\ s \in Nat
         /\ \A s \in lo..hi, i \in 1..SegCap : R[s][i] \in Rec
  BY Sizes DEF IsRows, Row

\* The number expected, by the run that ends before.
LEMMA ExpectNone ==
  ASSUME NEW R, NEW lo, NEW hi, IsRows(R, lo, hi), NEW seg \in Nat,
         \A s \in DOMAIN R : s < seg => RunLen(R[s]) = 0
  PROVE  ExpectAt(R, seg) = {}
  BY DEF ExpectAt

LEMMA ExpectOne ==
  ASSUME NEW R, NEW lo, NEW hi, IsRows(R, lo, hi), NEW seg \in Nat,
         NEW s \in DOMAIN R, s < seg, RunLen(R[s]) > 0,
         \A u \in DOMAIN R : s < u /\ u < seg => RunLen(R[u]) = 0
  PROVE  ExpectAt(R, seg) = {R[s][RunLen(R[s])].seq + 1}
<1>0. DOMAIN R = lo..hi /\ lo \in Nat /\ hi \in Nat  BY RowsFacts
<1>1. \A t \in DOMAIN R : RunLen(R[t]) \in Nat  BY RunLenFact, Sizes
<1> DEFINE C(t) == /\ t < seg /\ RunLen(R[t]) > 0
                   /\ \A u \in DOMAIN R : t < u /\ u < seg => RunLen(R[u]) = 0
           E(t) == R[t][RunLen(R[t])].seq + 1
<1>2. C(s)  OBVIOUS
<1>3. \A t \in DOMAIN R : C(t) => t = s
  <2> TAKE t \in DOMAIN R
  <2> HAVE C(t)
  <2>1. ~(t < s)  BY <1>1, <1>0
  <2>2. ~(s < t)  BY <1>1, <1>0
  <2> QED  BY <2>1, <2>2, <1>0
<1>4. {t \in DOMAIN R : C(t)} = {s}  BY <1>2, <1>3
<1>5. ExpectAt(R, seg) = {E(t) : t \in {t \in DOMAIN R : C(t)}}  BY DEF ExpectAt
<1> HIDE DEF C, E
<1>6. ExpectAt(R, seg) = {E(s)}  BY <1>4, <1>5
<1> QED  BY <1>6 DEF E

LEMMA ExpectDichotomy ==
  ASSUME NEW R, NEW lo, NEW hi, IsRows(R, lo, hi), NEW seg \in Nat
  PROVE  \/ \A s \in DOMAIN R : s < seg => RunLen(R[s]) = 0
         \/ \E s \in DOMAIN R : /\ s < seg /\ RunLen(R[s]) > 0
                                /\ \A u \in DOMAIN R : s < u /\ u < seg => RunLen(R[u]) = 0
<1>0. DOMAIN R = lo..hi /\ lo \in Nat /\ hi \in Nat  BY RowsFacts
<1>1. \A t \in DOMAIN R : RunLen(R[t]) \in Nat  BY RunLenFact, Sizes
<1> DEFINE S == {s \in DOMAIN R : s < seg /\ RunLen(R[s]) > 0}
<1>2. CASE S = {}  BY <1>1, <1>2
<1>3. CASE S # {}
  <2>1. S \subseteq 0..hi  BY <1>0
  <2>2. PICK m \in S : \A y \in S : y <= m
    <3> HIDE DEF S
    <3> QED  BY <1>3, <2>1, <1>0, HighestFact
  <2>3. \A u \in DOMAIN R : m < u /\ u < seg => RunLen(R[u]) = 0
    BY <2>2, <1>1, <1>0
  <2> QED  BY <2>3
<1> QED  BY <1>2, <1>3

LEMMA ExpectStep ==
  ASSUME NEW R, NEW lo, NEW hi, IsRows(R, lo, hi), NEW seg \in lo..hi
  PROVE  /\ RunLen(R[seg]) = 0 => ExpectAt(R, seg + 1) = ExpectAt(R, seg)
         /\ RunLen(R[seg]) > 0 =>
              ExpectAt(R, seg + 1) = {R[seg][RunLen(R[seg])].seq + 1}
<1>0. /\ DOMAIN R = lo..hi /\ lo \in Nat /\ hi \in Nat /\ seg \in Nat /\ seg + 1 \in Nat
      /\ seg \in DOMAIN R
  BY RowsFacts
<1>1. CASE RunLen(R[seg]) = 0
  <2>1. \A s \in DOMAIN R : s < seg + 1 <=> s < seg \/ s = seg  BY <1>0
  <2>2. {t \in DOMAIN R : /\ t < seg + 1 /\ RunLen(R[t]) > 0
                          /\ \A u \in DOMAIN R : t < u /\ u < seg + 1 => RunLen(R[u]) = 0}
        = {t \in DOMAIN R : /\ t < seg /\ RunLen(R[t]) > 0
                            /\ \A u \in DOMAIN R : t < u /\ u < seg => RunLen(R[u]) = 0}
    BY <1>1, <2>1
  <2> QED  BY <1>1, <2>2 DEF ExpectAt
<1>2. CASE RunLen(R[seg]) > 0
  <2>1. \A u \in DOMAIN R : ~(seg < u /\ u < seg + 1)  BY <1>0
  <2>2. seg < seg + 1  BY <1>0
  <2> QED  BY <1>0, <1>2, <2>1, <2>2, ExpectOne
<1>3. RunLen(R[seg]) \in 0..SegCap  BY RunLenFact
<1> QED  BY <1>1, <1>2

\* Without the oldest rows nothing else is expected than with them.
LEMMA ExpectNarrow ==
  ASSUME NEW R, NEW lo, NEW hi, IsRows(R, lo, hi),
         NEW R2, NEW lo2, NEW hi2, IsRows(R2, lo2, hi2),
         NEW seg \in Nat, lo <= lo2, seg <= hi + 1, seg <= hi2 + 1,
         \A s \in lo2..(seg - 1) : R2[s] = R[s]
  PROVE  /\ ExpectAt(R2, seg) \subseteq ExpectAt(R, seg)
         /\ lo = lo2 => ExpectAt(R2, seg) = ExpectAt(R, seg)
<1>0. /\ DOMAIN R = lo..hi /\ lo \in Nat /\ hi \in Nat
      /\ DOMAIN R2 = lo2..hi2 /\ lo2 \in Nat /\ hi2 \in Nat
  BY RowsFacts
<1> DEFINE C(X, t) == /\ t < seg /\ RunLen(X[t]) > 0
                      /\ \A u \in DOMAIN X : t < u /\ u < seg => RunLen(X[u]) = 0
           E(X, t) == X[t][RunLen(X[t])].seq + 1
<1>1. \A t \in DOMAIN R2 : C(R2, t) => t \in DOMAIN R /\ C(R, t) /\ E(R, t) = E(R2, t)
  <2> TAKE t \in DOMAIN R2
  <2> HAVE C(R2, t)
  <2>1. t \in lo2..(seg - 1) /\ t \in DOMAIN R  BY <1>0
  <2>2. \A u \in DOMAIN R : t < u /\ u < seg => u \in DOMAIN R2 /\ R2[u] = R[u]  BY <1>0, <2>1
  <2> QED  BY <2>1, <2>2
<1>2. lo = lo2 => \A t \in DOMAIN R : C(R, t) => t \in DOMAIN R2 /\ C(R2, t) /\ E(R2, t) = E(R, t)
  <2> SUFFICES ASSUME lo = lo2, NEW t \in DOMAIN R, C(R, t)
               PROVE  t \in DOMAIN R2 /\ C(R2, t) /\ E(R, t) = E(R2, t)
    OBVIOUS
  <2>1. t \in lo2..(seg - 1) /\ t \in DOMAIN R2  BY <1>0
  <2>2. \A u \in DOMAIN R2 : t < u /\ u < seg => u \in DOMAIN R /\ R2[u] = R[u]  BY <1>0, <2>1
  <2> QED  BY <2>1, <2>2
<1>3. /\ ExpectAt(R, seg) = {E(R, t) : t \in {t \in DOMAIN R : C(R, t)}}
      /\ ExpectAt(R2, seg) = {E(R2, t) : t \in {t \in DOMAIN R2 : C(R2, t)}}
  BY DEF ExpectAt
<1> HIDE DEF C, E
<1> QED  BY <1>1, <1>2, <1>3

\* The scan visits all rows from the first one to the last it reaches.
LEMMA VisitedIs ==
  ASSUME NEW R, NEW lo, NEW hi, IsRows(R, lo, hi), NEW v \in lo..hi,
         \A s \in (lo + 1)..v : ContinuesAt(R, s),
         v < hi => ~ContinuesAt(R, v + 1)
  PROVE  Visited(R) = lo..v /\ Max(Visited(R)) = v
<1>0. DOMAIN R = lo..hi /\ lo \in Nat /\ hi \in Nat /\ v \in Nat  BY RowsFacts
<1>1. \A s \in lo..hi : s - 1 \in lo..hi <=> s \in (lo + 1)..hi  BY <1>0
<1>2. Visited(R) = {seg \in lo..hi : \A s \in lo..hi : s - 1 \in lo..hi /\ s <= seg => ContinuesAt(R, s)}
  BY <1>0 DEF Visited
<1>3. ASSUME NEW seg \in lo..v PROVE seg \in Visited(R)
  BY <1>0, <1>1, <1>2
<1>4. ASSUME NEW seg \in Visited(R) PROVE seg \in lo..v
  <2>1. seg \in lo..hi  BY <1>2
  <2>2. ASSUME seg > v PROVE FALSE
    <3>1. v + 1 \in (lo + 1)..hi /\ v + 1 <= seg /\ v < hi  BY <1>0, <2>1, <2>2
    <3> QED  BY <3>1, <1>1, <1>2, <1>0
  <2> QED  BY <2>1, <2>2, <1>0
<1>5. Visited(R) = lo..v  BY <1>3, <1>4
<1>6. Max(Visited(R)) \in Visited(R) /\ \A y \in Visited(R) : y <= Max(Visited(R))
  <2>0. lo \in lo..v /\ lo..v \subseteq 0..hi  BY <1>0
  <2>1. Visited(R) \subseteq 0..hi /\ Visited(R) # {}  BY <1>5, <2>0
  <2> QED  BY <2>1, <1>0, MaxMin
<1>7. v \in lo..v  BY <1>0
<1> QED  BY <1>5, <1>6, <1>7, <1>0

LEMMA VisitedFacts ==
  ASSUME NEW R, NEW lo, NEW hi, IsRows(R, lo, hi)
  PROVE  /\ Max(Visited(R)) \in lo..hi
         /\ Visited(R) = lo..Max(Visited(R))
         /\ \A s \in (lo + 1)..Max(Visited(R)) : ContinuesAt(R, s)
         /\ Max(Visited(R)) < hi => ~ContinuesAt(R, Max(Visited(R)) + 1)
<1>0. DOMAIN R = lo..hi /\ lo \in Nat /\ hi \in Nat /\ lo <= hi  BY RowsFacts
<1>1. \A s \in lo..hi : s - 1 \in lo..hi <=> s \in (lo + 1)..hi  BY <1>0
<1>2. Visited(R) = {seg \in lo..hi : \A s \in lo..hi : s - 1 \in lo..hi /\ s <= seg => ContinuesAt(R, s)}
  BY <1>0 DEF Visited
<1> DEFINE v == Max(Visited(R))
<1>3. v \in Visited(R) /\ \A y \in Visited(R) : y <= v
  <2>1. lo \in Visited(R)  BY <1>0, <1>1, <1>2
  <2>2. Visited(R) \subseteq 0..hi /\ Visited(R) # {}  BY <1>0, <1>2, <2>1
  <2> QED  BY <2>2, <1>0, MaxMin
<1> HIDE DEF v
<1>4. v \in lo..hi /\ \A s \in (lo + 1)..v : ContinuesAt(R, s)
  BY <1>0, <1>1, <1>2, <1>3
<1>5. ASSUME v < hi, ContinuesAt(R, v + 1) PROVE FALSE
  <2>1. v + 1 \in lo..hi  BY <1>4, <1>5, <1>0
  <2>2. \A s \in lo..hi : s - 1 \in lo..hi /\ s <= v + 1 => s \in (lo + 1)..v \/ s = v + 1
    BY <1>0, <1>1, <1>4
  <2>3. v + 1 \in Visited(R)  BY <2>1, <2>2, <1>2, <1>4, <1>5
  <2> QED  BY <2>3, <1>3, <1>4, <1>0
<1>6. Visited(R) = lo..v  BY <1>4, <1>5, VisitedIs
<1> QED  BY <1>4, <1>5, <1>6 DEF v

--------------------------------
\* What is settled in front of a place to write, and what a batch may have
\* left behind it.

\* In front of cell O of segment T is what a scan gets through, nothing is
\* left over there, and the scan comes to T unless nothing is settled in it.
Settled(R, T, O) ==
  /\ \A s \in DOMAIN R : s < T => Blanks(R[s], RunLen(R[s]))
  /\ WholeRun(R[T], O - 1)
  /\ \A s \in DOMAIN R : s - 1 \in DOMAIN R /\ (s < T \/ (s = T /\ O > 1)) => ContinuesAt(R, s)

\* The number expected at that place.
ExpectThere(R, T, O) == IF O > 1 THEN {R[T][O - 1].seq + 1} ELSE ExpectAt(R, T)

\* Nothing but the records of a batch e, numbered from q on, is at that place
\* or behind it: the first a of them in T, the b others in the next segment.
Landing(R, T, O, e, a, b, q) ==
  /\ a \in Nat /\ b \in Nat /\ q \in Nat /\ a <= ZWindow /\ b <= ZWindow /\ O + a <= SegCap + 1
  /\ \A k \in 1..(a + b) : e[k].seq = q + k - 1
  /\ ExpectThere(R, T, O) \subseteq {q}
  /\ \A i \in 1..SegCap : i >= O => R[T][i] = Void \/ (i < O + a /\ R[T][i] = e[i - O + 1])
  /\ T + 1 \in DOMAIN R =>
       \A i \in 1..SegCap : R[T + 1][i] = Void \/ (i <= b /\ R[T + 1][i] = e[a + i])
  /\ \A s \in DOMAIN R : s > T + 1 => Blanks(R[s], 0)
  /\ b > 0 => /\ O > 1 \/ T - 1 \notin DOMAIN R
              /\ a = 0 \/ (O > 1 /\ O + a = SegCap + 1)

\* What a repair leaves nothing behind of.
RowsClean(R) ==
  LET v == Max(Visited(R))
  IN  /\ \A s \in DOMAIN R : s < v => Blanks(R[s], RunLen(R[s]))
      /\ Blanks(R[v], RunLen(R[v]) + ZWindow)
      /\ \A s \in DOMAIN R : s > v => Blanks(R[s], ZWindow)

\* What is settled stays so without the oldest rows, and whatever comes behind.
LEMMA SettledNarrow ==
  ASSUME NEW R, NEW lo, NEW hi, IsRows(R, lo, hi),
         NEW R2, NEW lo2, NEW hi2, IsRows(R2, lo2, hi2),
         NEW T \in lo..hi, NEW O \in 1..(SegCap + 1), Settled(R, T, O),
         lo <= lo2, T \in lo2..hi2,
         \A s \in lo2..(T - 1) : R2[s] = R[s],
         \A i \in 1..(O - 1) : R2[T][i] = R[T][i]
  PROVE  /\ Settled(R2, T, O)
         /\ ExpectThere(R2, T, O) \subseteq ExpectThere(R, T, O)
         /\ lo = lo2 => ExpectThere(R2, T, O) = ExpectThere(R, T, O)
<1>0. /\ DOMAIN R = lo..hi /\ lo \in Nat /\ hi \in Nat /\ T \in Nat /\ R[T] \in Row
      /\ DOMAIN R2 = lo2..hi2 /\ lo2 \in Nat /\ hi2 \in Nat /\ R2[T] \in Row
  BY RowsFacts
<1>1. \A s \in DOMAIN R2 : s < T => Blanks(R2[s], RunLen(R2[s]))
  <2> TAKE s \in DOMAIN R2
  <2> HAVE s < T
  <2>1. s \in lo2..(T - 1) /\ s \in DOMAIN R  BY <1>0
  <2>2. R2[s] = R[s]  BY <2>1
  <2>3. Blanks(R[s], RunLen(R[s]))  BY <2>1 DEF Settled
  <2> QED  BY <2>2, <2>3
<1>2. WholeRun(R2[T], O - 1)
  <2>1. O - 1 \in 0..SegCap /\ WholeRun(R[T], O - 1)  BY Sizes DEF Settled
  <2> QED  BY <2>1, <1>0, RunSame
<1>3. \A seg \in lo2..T : /\ ExpectAt(R2, seg) \subseteq ExpectAt(R, seg)
                          /\ lo = lo2 => ExpectAt(R2, seg) = ExpectAt(R, seg)
  <2> TAKE seg \in lo2..T
  <2>1. seg \in Nat /\ seg <= hi + 1 /\ seg <= hi2 + 1  BY <1>0
  <2>2. \A s \in lo2..(seg - 1) : R2[s] = R[s]  BY <1>0
  <2> QED  BY <2>1, <2>2, ExpectNarrow
<1>4. ASSUME NEW s \in DOMAIN R2, s - 1 \in DOMAIN R2, s < T \/ (s = T /\ O > 1)
      PROVE  ContinuesAt(R2, s)
  <2>1. s \in lo2..T /\ s \in DOMAIN R /\ s - 1 \in DOMAIN R  BY <1>0, <1>4
  <2>2. ContinuesAt(R, s)  BY <2>1, <1>4 DEF Settled
  <2>3. R2[s][1] = R[s][1]
    <3>1. CASE s < T  BY <3>1, <2>1, <1>0
    <3>2. CASE s = T /\ O > 1  BY <3>2, <1>0
    <3> QED  BY <3>1, <3>2, <1>4
  <2>4. ExpectAt(R2, s) \subseteq ExpectAt(R, s)  BY <1>3, <2>1
  <2> QED  BY <2>2, <2>3, <2>4 DEF ContinuesAt
<1>5. Settled(R2, T, O)  BY <1>1, <1>2, <1>4 DEF Settled
<1>6. /\ ExpectThere(R2, T, O) \subseteq ExpectThere(R, T, O)
      /\ lo = lo2 => ExpectThere(R2, T, O) = ExpectThere(R, T, O)
  <2>1. CASE O > 1
    <3>1. O - 1 \in 1..(O - 1)  BY <2>1
    <3> QED  BY <3>1, <2>1 DEF ExpectThere
  <2>2. CASE O = 1
    <3>1. T \in lo2..T  BY <1>0
    <3> QED  BY <2>2, <3>1, <1>3 DEF ExpectThere
  <2> QED  BY <2>1, <2>2
<1> QED  BY <1>5, <1>6

\* How far a scan gets when a batch may be on the card in part.
LEMMA LandingScan ==
  ASSUME NEW R, NEW lo, NEW hi, IsRows(R, lo, hi),
         NEW T \in lo..hi, NEW O \in 1..(SegCap + 1), Settled(R, T, O),
         NEW e, NEW a, NEW b, NEW q, Landing(R, T, O, e, a, b, q)
  PROVE  LET v == Max(Visited(R))
         IN  /\ RunLen(R[T]) >= O - 1
             /\ v = T - 1 => O = 1 /\ T > lo /\ b = 0
             /\ v \in {T - 1, T, T + 1}
             /\ v = T + 1 => b > 0 /\ T + 1 <= hi /\ RunLen(R[T]) = O + a - 1
                             /\ Blanks(R[T], RunLen(R[T])) /\ R[T + 1][1] = e[a + 1]
<1>0. /\ DOMAIN R = lo..hi /\ lo \in Nat /\ hi \in Nat /\ T \in Nat /\ R[T] \in Row
      /\ T \in DOMAIN R
  BY RowsFacts
<1> DEFINE v == Max(Visited(R))
           r == RunLen(R[T])
<1>1. r \in 0..SegCap /\ WholeRun(R[T], r)  BY RunLenFact
<1>2. r >= O - 1
  <2>1. O - 1 \in 0..SegCap /\ WholeRun(R[T], O - 1)  BY Sizes DEF Settled
  <2> QED  BY <2>1, RunLenFact
<1>3. /\ v \in lo..hi
      /\ \A s \in (lo + 1)..v : ContinuesAt(R, s)
      /\ v < hi => ~ContinuesAt(R, v + 1)
  BY VisitedFacts
<1> HIDE DEF v, r
<1>4. v < T => v = T - 1 /\ O = 1 /\ T > lo
  <2> SUFFICES ASSUME v < T PROVE v = T - 1 /\ O = 1 /\ T > lo
    OBVIOUS
  <2>1. PICK w \in DOMAIN R : w = v + 1 /\ w - 1 \in DOMAIN R /\ ~ContinuesAt(R, w)
    BY <1>0, <1>3
  <2>2. ~(w < T \/ (w = T /\ O > 1))  BY <2>1 DEF Settled
  <2> QED  BY <2>1, <2>2, <1>0, <1>3
<1>5. v < T => b = 0
  <2> SUFFICES ASSUME v < T, b # 0 PROVE FALSE
    OBVIOUS
  <2>1. O = 1 /\ T > lo  BY <1>4
  <2>2. T - 1 \in DOMAIN R  BY <2>1, <1>0
  <2> QED  BY <2>1, <2>2 DEF Landing
<1>6. v <= T + 1
  <2> SUFFICES ASSUME v > T + 1 PROVE FALSE
    BY <1>0, <1>3
  <2>1. T + 2 \in (lo + 1)..v /\ T + 2 \in DOMAIN R /\ T + 2 > T + 1  BY <1>0, <1>3
  <2>2. R[T + 2][1] # Void  BY <2>1, <1>3 DEF ContinuesAt
  <2>3. Blanks(R[T + 2], 0)  BY <2>1 DEF Landing
  <2> QED  BY <2>2, <2>3, Sizes DEF Blanks
<1>7. ASSUME v = T + 1
      PROVE  b > 0 /\ T + 1 <= hi /\ r = O + a - 1 /\ Blanks(R[T], r) /\ R[T + 1][1] = e[a + 1]
  <2>1. ContinuesAt(R, T + 1) /\ T + 1 \in DOMAIN R /\ T + 1 <= hi  BY <1>0, <1>3, <1>7
  <2>2. R[T + 1][1] # Void /\ ExpectAt(R, T + 1) \subseteq {R[T + 1][1].seq}
    BY <2>1 DEF ContinuesAt
  <2>3. b >= 1 /\ R[T + 1][1] = e[a + 1]  BY <2>1, <2>2, Sizes DEF Landing
  <2>4. e[a + 1].seq = q + a
    <3>1. a + 1 \in 1..(a + b) /\ a \in Nat /\ q \in Nat  BY <2>3 DEF Landing
    <3> QED  BY <3>1 DEF Landing
  <2>5. \A i \in 1..SegCap : i >= O + a => R[T][i] = Void  BY DEF Landing
  <2>6. r <= O + a - 1
    <3>1. a \in Nat /\ O + a <= SegCap + 1  BY DEF Landing
    <3>2. CASE O + a = SegCap + 1  BY <3>1, <3>2, <1>1, Sizes
    <3>3. CASE O + a <= SegCap
      <4>1. O + a - 1 \in 0..(SegCap - 1) /\ O + a \in 1..SegCap  BY <3>1, <3>3, Sizes
      <4>2. R[T][O + a - 1 + 1] = Void
        <5>1. O + a - 1 + 1 = O + a  BY <3>1
        <5>2. R[T][O + a] = Void  BY <4>1, <3>1, <2>5
        <5> QED  BY <5>1, <5>2
      <4> QED  BY <4>1, <4>2, <1>0, RunEnds DEF r
    <3> QED  BY <3>1, <3>2, <3>3, Sizes
  <2>7. r = O + a - 1
    <3>0. a \in Nat /\ q \in Nat  BY DEF Landing
    <3>1. CASE a = 0  BY <3>1, <2>6, <1>2, <1>1
    <3>2. CASE a > 0
      <4>1. O > 1 /\ r > 0  BY <3>2, <2>3, <1>2, <1>1 DEF Landing
      <4>2. ExpectAt(R, T + 1) = {R[T][r].seq + 1}  BY <4>1, ExpectStep DEF r
      <4>3. R[T][r].seq + 1 = q + a  BY <4>2, <2>2, <2>3, <2>4
      <4>4. CASE r = O - 1
        <5>1. R[T][r].seq + 1 = q  BY <4>1, <4>4 DEF Landing, ExpectThere
        <5> QED  BY <5>1, <4>3, <3>0, <3>2
      <4>5. CASE r >= O
        <5>1. r \in 1..SegCap /\ R[T][r] # Void
          <6>1. r \in 1..r /\ r \in 1..SegCap  BY <4>1, <1>1
          <6> QED  BY <6>1, <1>1 DEF WholeRun
        <5>2. R[T][r] = e[r - O + 1] /\ r < O + a  BY <5>1, <4>5 DEF Landing
        <5>3. r - O + 1 \in 1..(a + b)
          <6>1. b \in Nat /\ a \in Nat /\ r \in Nat  BY <1>1, Sizes DEF Landing
          <6> QED  BY <6>1, <5>2, <4>5
        <5>4. e[r - O + 1].seq = q + (r - O + 1) - 1  BY <5>3 DEF Landing
        <5> QED  BY <5>2, <5>4, <4>3, <3>0, <1>1
      <4> QED  BY <4>4, <4>5, <1>1, <1>2
    <3> QED  BY <3>0, <3>1, <3>2
  <2>8. Blanks(R[T], r)
    <3>1. a \in Nat  BY DEF Landing
    <3> QED  BY <3>1, <2>7, <2>5 DEF Blanks
  <2>9. b \in Nat  BY DEF Landing
  <2> QED  BY <2>1, <2>3, <2>7, <2>8, <2>9
<1>8. v \in {T - 1, T, T + 1}  BY <1>4, <1>6, <1>3, <1>0
<1>9. v = T - 1 => v < T  BY <1>0
<1> QED  BY <1>2, <1>4, <1>5, <1>7, <1>8, <1>9 DEF v, r

\* A repair reaches whatever it may have left.
LEMMA LandingClean ==
  ASSUME NEW R, NEW lo, NEW hi, IsRows(R, lo, hi),
         NEW T \in lo..hi, NEW O \in 1..(SegCap + 1), Settled(R, T, O),
         NEW e, NEW a, NEW b, NEW q, Landing(R, T, O, e, a, b, q)
  PROVE  RowsClean(R)
<1>0. /\ DOMAIN R = lo..hi /\ lo \in Nat /\ hi \in Nat /\ T \in Nat /\ R[T] \in Row
      /\ T \in DOMAIN R
  BY RowsFacts
<1> DEFINE v == Max(Visited(R))
<1>1. /\ RunLen(R[T]) >= O - 1
      /\ v = T - 1 => O = 1 /\ T > lo /\ b = 0
      /\ v \in {T - 1, T, T + 1}
      /\ v = T + 1 => b > 0 /\ Blanks(R[T], RunLen(R[T])) /\ T + 1 <= hi
  BY LandingScan
<1>2. v \in lo..hi  BY VisitedFacts
<1> HIDE DEF v
<1>3. /\ a \in Nat /\ b \in Nat /\ a <= ZWindow /\ b <= ZWindow
      /\ \A i \in 1..SegCap : i >= O + a => R[T][i] = Void
      /\ T + 1 \in DOMAIN R => \A i \in 1..SegCap : i > b => R[T + 1][i] = Void
      /\ \A s \in DOMAIN R : s > T + 1 => Blanks(R[s], 0)
  BY DEF Landing
<1>4. \A s \in DOMAIN R : s < T => Blanks(R[s], RunLen(R[s]))  BY DEF Settled
<1>5. \A s \in DOMAIN R : RunLen(R[s]) \in 0..SegCap  BY RunLenFact
<1>6. \A s \in DOMAIN R : s < v => Blanks(R[s], RunLen(R[s]))
  <2> TAKE s \in DOMAIN R
  <2> HAVE s < v
  <2>1. s < T \/ (s = T /\ v = T + 1)  BY <1>0, <1>1
  <2> QED  BY <2>1, <1>1, <1>4
<1>7. Blanks(R[v], RunLen(R[v]) + ZWindow)
  <2>1. CASE v = T - 1
    <3>1. v \in DOMAIN R /\ v < T  BY <2>1, <1>0, <1>2
    <3>2. Blanks(R[v], RunLen(R[v]))  BY <3>1, <1>4
    <3> QED  BY <3>1, <3>2, <1>5, Sizes DEF Blanks
  <2>2. CASE v = T
    <3>0. RunLen(R[T]) \in Nat /\ RunLen(R[T]) >= O - 1 /\ a \in Nat /\ a <= ZWindow
      BY <1>1, <1>3, <1>5, <1>0, Sizes
    <3>1. \A i \in 1..SegCap : i > RunLen(R[T]) + ZWindow => i >= O + a
      <4> DEFINE r == RunLen(R[T])
      <4> HIDE DEF r
      <4>1. r \in Nat /\ r >= O - 1  BY <3>0 DEF r
      <4>2. ZWindow \in Nat  BY Sizes
      <4>3. \A i \in 1..SegCap : i > r + ZWindow => i >= O + a  BY <4>1, <4>2, <3>0
      <4> QED  BY <4>3 DEF r
    <3> QED  BY <3>1, <2>2, <1>3 DEF Blanks
  <2>3. CASE v = T + 1
    <3>1. T + 1 \in DOMAIN R  BY <2>3, <1>2, <1>0
    <3>2. \A i \in 1..SegCap : i > RunLen(R[T + 1]) + ZWindow => i > b
      BY <1>3, <1>5, <3>1, Sizes
    <3> QED  BY <3>1, <3>2, <2>3, <1>3 DEF Blanks
  <2> QED  BY <2>1, <2>2, <2>3, <1>1
<1>8. \A s \in DOMAIN R : s > v => Blanks(R[s], ZWindow)
  <2> TAKE s \in DOMAIN R
  <2> HAVE s > v
  <2>0. (s = T /\ v = T - 1) \/ s = T + 1 \/ s > T + 1  BY <1>1, <1>0
  <2>1. CASE s = T /\ v = T - 1
    <3>1. \A i \in 1..SegCap : i > ZWindow => i >= O + a  BY <2>1, <1>1, <1>3, Sizes
    <3> QED  BY <3>1, <2>1, <1>3 DEF Blanks
  <2>2. CASE s = T + 1
    <3>1. \A i \in 1..SegCap : i > ZWindow => i > b  BY <1>3, Sizes
    <3> QED  BY <3>1, <2>2, <1>3 DEF Blanks
  <2>3. CASE s > T + 1  BY <2>3, <1>3, Sizes DEF Blanks
  <2> QED  BY <2>0, <2>1, <2>2, <2>3
<1> QED  BY <1>6, <1>7, <1>8 DEF RowsClean, v


--------------------------------
\* What the slot files and their rows come to, for any headers h and
\* bodies b.

LiveIn(h) == {seg \in 1..MaxIdx : h[SlotOf(seg)] = seg}
OldestIn(h) == Min(LiveIn(h))
NewestIn(h) == Max({seg \in LiveIn(h) : OldestIn(h)..seg \subseteq LiveIn(h)})
RowsIn(h, b) == [seg \in OldestIn(h)..NewestIn(h) |-> b[SlotOf(seg)]]

LEMMA CardNow ==
  /\ LiveSegs = LiveIn(hdr) /\ Oldest = OldestIn(hdr) /\ Newest = NewestIn(hdr)
  /\ Rows = RowsIn(hdr, body)
  /\ LiveSegs' = LiveIn(hdr') /\ Oldest' = OldestIn(hdr') /\ Newest' = NewestIn(hdr')
  /\ Rows' = RowsIn(hdr', body')
<1>1. LiveSegs = LiveIn(hdr) /\ LiveSegs' = LiveIn(hdr')
  BY DEF LiveSegs, LiveIn, IsLive
<1>2. Oldest = OldestIn(hdr) /\ Oldest' = OldestIn(hdr')
  BY <1>1 DEF Oldest, OldestIn
<1>3. Newest = NewestIn(hdr) /\ Newest' = NewestIn(hdr')
  BY <1>1, <1>2 DEF Newest, NewestIn, Oldest, OldestIn
<1> QED  BY <1>1, <1>2, <1>3 DEF Rows, RowsIn, Cells

LEMMA RangeFacts ==
  ASSUME NEW h, LiveIn(h) # {}
  PROVE  /\ OldestIn(h) \in 1..MaxIdx /\ NewestIn(h) \in OldestIn(h)..MaxIdx
         /\ \A x \in LiveIn(h) : OldestIn(h) <= x /\ x \in 1..MaxIdx
         /\ OldestIn(h)..NewestIn(h) \subseteq LiveIn(h)
         /\ NewestIn(h) + 1 \notin LiveIn(h)
<1> DEFINE L == LiveIn(h)
           lo == OldestIn(h)
           N == {seg \in L : lo..seg \subseteq L}
<1>1. L \subseteq 1..MaxIdx /\ L \subseteq 0..MaxIdx  BY DEF LiveIn
<1>2. L # {} /\ NewestIn(h) = Max(N) /\ lo = Min(L)  BY DEF NewestIn, OldestIn
<1> HIDE DEF L, lo
<1>3. lo \in L /\ \A x \in L : lo <= x  BY <1>1, <1>2, MaxMin, Sizes
<1>4. lo \in N
  <2>1. lo..lo = {lo}  BY <1>1, <1>3
  <2> QED  BY <2>1, <1>3
<1>5. N \subseteq 0..MaxIdx /\ N # {}  BY <1>1, <1>4
<1> DEFINE m == Max(N)
<1>6. m \in N /\ \A y \in N : y <= m
  <2> HIDE DEF N
  <2> QED  BY <1>5, MaxMin, Sizes
<1> HIDE DEF m
<1>7. m \in L /\ lo..m \subseteq L  BY <1>6
<1>8. m + 1 \notin L
  <2> SUFFICES ASSUME m + 1 \in L PROVE FALSE
    OBVIOUS
  <2>1. lo..(m + 1) \subseteq (lo..m) \cup {m + 1}  BY <1>1, <1>3, <1>7
  <2>2. m + 1 \in N  BY <2>1, <1>7
  <2>3. m + 1 <= m  BY <2>2, <1>6
  <2> QED  BY <2>3, <1>1, <1>7
<1> QED  BY <1>1, <1>2, <1>3, <1>7, <1>8, Sizes DEF m, L, lo

\* The range, told by its ends.
LEMMA RangeIs ==
  ASSUME NEW h, NEW lo \in LiveIn(h), NEW hi \in Nat, lo <= hi,
         \A x \in LiveIn(h) : lo <= x, lo..hi \subseteq LiveIn(h), hi + 1 \notin LiveIn(h)
  PROVE  OldestIn(h) = lo /\ NewestIn(h) = hi
<1>1. LiveIn(h) \subseteq 1..MaxIdx /\ MaxIdx \in Nat /\ hi \in LiveIn(h)  BY Sizes DEF LiveIn
<1>2. /\ OldestIn(h) \in LiveIn(h) /\ NewestIn(h) \in LiveIn(h) /\ OldestIn(h) <= NewestIn(h)
      /\ \A x \in LiveIn(h) : OldestIn(h) <= x
      /\ OldestIn(h)..NewestIn(h) \subseteq LiveIn(h) /\ NewestIn(h) + 1 \notin LiveIn(h)
  BY <1>1, RangeFacts
<1>3. OldestIn(h) = lo  BY <1>1, <1>2
<1>4. ~(NewestIn(h) < hi)
  <2> SUFFICES ASSUME NewestIn(h) < hi PROVE FALSE
    OBVIOUS
  <2>1. NewestIn(h) + 1 \in lo..hi  BY <1>1, <1>2, <1>3
  <2> QED  BY <2>1, <1>2
<1>5. ~(hi < NewestIn(h))
  <2> SUFFICES ASSUME hi < NewestIn(h) PROVE FALSE
    OBVIOUS
  <2>1. hi + 1 \in OldestIn(h)..NewestIn(h)  BY <1>1, <1>2, <1>3
  <2> QED  BY <2>1, <1>2
<1> QED  BY <1>1, <1>2, <1>3, <1>4, <1>5

LEMMA RowsAre ==
  ASSUME NEW h, NEW b \in [Slots -> Row], LiveIn(h) # {}
  PROVE  /\ IsRows(RowsIn(h, b), OldestIn(h), NewestIn(h))
         /\ DOMAIN RowsIn(h, b) = OldestIn(h)..NewestIn(h)
         /\ \A s \in OldestIn(h)..NewestIn(h) : RowsIn(h, b)[s] = b[SlotOf(s)]
<1>1. \A s \in LiveIn(h) : SlotOf(s) \in Slots
  BY SlotIn DEF LiveIn
<1>2. /\ OldestIn(h) \in 1..MaxIdx /\ NewestIn(h) \in OldestIn(h)..MaxIdx
      /\ OldestIn(h)..NewestIn(h) \subseteq LiveIn(h)
  BY RangeFacts
<1>3. \A s \in OldestIn(h)..NewestIn(h) : b[SlotOf(s)] \in Row  BY <1>1, <1>2
<1> QED  BY <1>2, <1>3 DEF IsRows, RowsIn

\* Two live segments have two slots.
LEMMA SlotOwn ==
  ASSUME NEW h, NEW x \in LiveIn(h), NEW z \in LiveIn(h), x # z
  PROVE  SlotOf(x) # SlotOf(z)
  BY DEF LiveIn

\* The live segments are within a lap of each other.
Near(h) == \A x, z \in LiveIn(h) : z - x < Ring

\* The files are deleted in the order of the slots.
GoneFirst(h) ==
  LiveIn(h) # {} => \A s, t \in Slots : h[s] = Gone /\ h[t] # Gone => s < t

\* The session's idea of the ring.
Placed(h, f, l, t) ==
  /\ f \in 1..MaxIdx /\ l \in 1..MaxIdx /\ t \in LiveIn(h)
  /\ f <= OldestIn(h) /\ f <= t /\ t <= l /\ l - f < Ring
  /\ (f + 1)..l \subseteq LiveIn(h)
  /\ f \in LiveIn(h) \/ (h[SlotOf(f)] = Free /\ f < t)

LEMMA PlacedFacts ==
  ASSUME NEW h, NEW f, NEW l, NEW t, Placed(h, f, l, t)
  PROVE  /\ LiveIn(h) # {} /\ t \in OldestIn(h)..NewestIn(h)
         /\ l + 1 \notin LiveIn(h) => l <= NewestIn(h) /\ NewestIn(h) = l
         /\ t < l => t + 1 \in OldestIn(h)..NewestIn(h)
<1>1. LiveIn(h) # {}  BY DEF Placed
<1>2. /\ OldestIn(h) \in 1..MaxIdx /\ NewestIn(h) \in OldestIn(h)..MaxIdx
      /\ \A x \in LiveIn(h) : OldestIn(h) <= x /\ x \in 1..MaxIdx
      /\ OldestIn(h)..NewestIn(h) \subseteq LiveIn(h)
      /\ NewestIn(h) + 1 \notin LiveIn(h)
  BY <1>1, RangeFacts
<1>3. /\ f \in Nat /\ l \in Nat /\ t \in Nat /\ t \in LiveIn(h) /\ f <= OldestIn(h) /\ t <= l /\ f <= t
      /\ (f + 1)..l \subseteq LiveIn(h)
  BY <1>2 DEF Placed
<1>4. OldestIn(h) <= t  BY <1>2, <1>3
<1>5. l <= NewestIn(h)
  <2> SUFFICES ASSUME NewestIn(h) < l PROVE FALSE
    BY <1>2, <1>3
  <2>1. NewestIn(h) + 1 \in (f + 1)..l  BY <1>2, <1>3
  <2> QED  BY <2>1, <1>2, <1>3
<1>6. l + 1 \notin LiveIn(h) => NewestIn(h) = l
  <2> SUFFICES ASSUME l + 1 \notin LiveIn(h), NewestIn(h) # l PROVE FALSE
    OBVIOUS
  <2>1. l + 1 \in OldestIn(h)..NewestIn(h)  BY <1>2, <1>3, <1>4, <1>5
  <2> QED  BY <2>1, <1>2
<1> QED  BY <1>1, <1>2, <1>3, <1>4, <1>5, <1>6

--------------------------------
\* The types, and with them the ring: what is live, and where the session
\* is in it.  These hold whatever the card does.

CardOK == hdr \in [Slots -> 0..Gone] /\ ver \in [Slots -> 1..2] /\ body \in [Slots -> Row]
RamOK ==
  /\ up \in BOOLEAN /\ stopped \in BOOLEAN
  /\ first \in 0..MaxIdx /\ last \in 0..MaxIdx /\ tail \in 0..MaxIdx
  /\ off \in 1..(SegCap + 1) /\ next \in Nat \ {0}
  /\ ~up => tail = 0
  /\ tail = 0 => pend = <<>> /\ first = 0 /\ last = 0 /\ ~stopped
  /\ tail > 0 => 1 <= first /\ first <= tail /\ tail <= last

\* The pending records are steps in the order they were made, numbered up to next.
PendOK ==
  /\ pend \in Seq(Rec) /\ Len(pend) <= PendMax /\ Len(pend) < next
  /\ \A i \in 1..Len(pend) :
       /\ pend[i].step \in 1..made
       /\ pend[i] = Record(next - Len(pend) + i - 1, pend[i].step, 0, 1)
  /\ \A i, j \in 1..Len(pend) : i < j => pend[i].step < pend[j].step

\* The batch of a job under way is what it was when the job began: the pending
\* records, or the chain of the step that was made last.
ChainJob(seg, at) ==
  [k \in 1..ChainLen |->
     Put(seg, at + k - 1, Record(next + k - 1, made, k - 1, IF k = 1 THEN ChainLen ELSE 0))]
ToSpare == ~ToTail /\ tail < last /\ ver[SlotOf(tail + 1)] = 2
IsJob(p) ==
  \/ pend # <<>> /\ Fits /\ p = FlushPlan
  \/ pend = <<>> /\ made >= 1 /\ ToTail /\ p = ChainJob(tail, off)
  \/ pend = <<>> /\ made >= 1 /\ ToSpare /\ p = ChainJob(tail + 1, 1)

JobOK ==
  /\ pc \in {"idle", "write", "verify"}
  /\ pc = "idle" => todo = <<>> /\ left = 0
  /\ pc # "idle" => IsJob(todo) /\ tail # 0 /\ ~stopped
  /\ pc = "write" => left \in 1..Len(todo)
  /\ pc = "verify" => left = 0
HistoryOK ==
  /\ made \in 0..MaxSteps /\ undone \in SUBSET (1..made) /\ acked \in SUBSET (1..made)
  /\ lossy \in BOOLEAN /\ mishaps \in 0..MaxMishaps
TypeInv == CardOK /\ RamOK /\ PendOK /\ JobOK /\ HistoryOK

RingOK ==
  /\ Near(hdr) /\ GoneFirst(hdr)
  /\ up /\ tail = 0 => LiveIn(hdr) = {}
  /\ tail # 0 => Placed(hdr, first, last, tail)

\* Where a record may go.
Puts == [seg : Nat, at : 1..SegCap, rec : Rec]

\* A batch p of a + b records, numbered from q on: the first a go to segment T
\* from cell O on, the others to the next segment.
PlanOf(p, T, O, a, b, q) ==
  /\ a \in Nat /\ b \in Nat /\ a + b >= 1 /\ q \in Nat \ {0}
  /\ p \in [1..(a + b) -> Puts] /\ Len(p) = a + b
  /\ a <= ZWindow /\ b <= ZWindow /\ b <= SegCap /\ O + a <= SegCap + 1
  /\ \A k \in 1..a : p[k].seg = T /\ p[k].at = O + k - 1
  /\ \A k \in 1..b : p[a + k].seg = T + 1 /\ p[a + k].at = k
  /\ \A k \in 1..(a + b) : p[k].rec.seq = q + k - 1 /\ p[k].rec # Void
  /\ \/ \A k \in 1..(a + b) : p[k].rec.part = 0 /\ p[k].rec.n = 1
     \/ /\ a = 0 \/ b = 0
        /\ \A k \in 1..(a + b) : p[k].rec.part = k - 1
        /\ p[1].rec.n = a + b
  /\ b > 0 => a = 0 \/ (O > 1 /\ O + a = SegCap + 1)

LEMMA PlanIs ==
  ASSUME NEW p, NEW T, NEW O, NEW a \in Nat, NEW b \in Nat, NEW q \in Nat \ {0},
         NEW n, n = a + b, n >= 1, p \in [1..n -> Puts], Len(p) = n,
         a <= ZWindow, b <= ZWindow, b <= SegCap, O + a <= SegCap + 1,
         a > 0 => \A k \in 1..a : p[k].seg = T /\ p[k].at = O + k - 1,
         b > 0 => \A k \in 1..b : p[a + k].seg = T + 1 /\ p[a + k].at = k,
         \A k \in 1..n : p[k].rec.seq = q + k - 1 /\ p[k].rec # Void,
         \/ \A k \in 1..n : p[k].rec.part = 0 /\ p[k].rec.n = 1
         \/ /\ a = 0 \/ b = 0
            /\ \A k \in 1..n : p[k].rec.part = k - 1
            /\ p[1].rec.n = n,
         b > 0 => a = 0 \/ (O > 1 /\ O + a = SegCap + 1)
  PROVE  PlanOf(p, T, O, a, b, q)
<1>1. \A k \in 1..a : p[k].seg = T /\ p[k].at = O + k - 1
  <2>1. a > 0 \/ 1..a = {}  OBVIOUS
  <2> QED  BY <2>1
<1>2. \A k \in 1..b : p[a + k].seg = T + 1 /\ p[a + k].at = k
  <2>1. b > 0 \/ 1..b = {}  OBVIOUS
  <2> QED  BY <2>1
<1> QED  BY <1>1, <1>2 DEF PlanOf

LEMMA RecordIs ==
  ASSUME NEW r, NEW q, NEW s, NEW p, NEW k, r = Record(q, s, p, k)
  PROVE  r.seq = q /\ r.step = s /\ r.part = p /\ r.n = k
<1>1. Record(q, s, p, k).seq = q /\ Record(q, s, p, k).step = s
      /\ Record(q, s, p, k).part = p /\ Record(q, s, p, k).n = k
  BY RecFacts
<1> QED  BY <1>1

LEMMA PutIs ==
  ASSUME NEW p, NEW s, NEW i, NEW r, p = Put(s, i, r)
  PROVE  p.seg = s /\ p.at = i /\ p.rec = r
<1>1. Put(s, i, r).seg = s /\ Put(s, i, r).at = i /\ Put(s, i, r).rec = r
  BY DEF Put
<1> QED  BY <1>1

LEMMA PlanFlush ==
  ASSUME TypeInv, tail # 0, pend # <<>>, Fits
  PROVE  \E a, b \in Nat :
           /\ PlanOf(FlushPlan, tail, off, a, b, next - Len(pend))
           /\ b > 0 => tail < last /\ off > 1
           /\ Len(FlushPlan) = Len(pend)
           /\ \A k \in 1..Len(pend) : FlushPlan[k].rec = pend[k]
<1> DEFINE n == Len(pend)
           q == next - n
<1>1. /\ n \in Nat /\ n >= 1 /\ n <= PendMax /\ q \in Nat \ {0} /\ off \in 1..(SegCap + 1)
      /\ tail \in Nat /\ next \in Nat /\ SegCap \in Nat
      /\ \A k \in 1..n : pend[k] \in Rec /\ pend[k] = Record(q + k - 1, pend[k].step, 0, 1)
  <2>1. pend \in Seq(Rec) /\ n <= PendMax /\ n < next  BY DEF TypeInv, PendOK
  <2>2. n \in Nat /\ \A k \in 1..n : pend[k] \in Rec  BY <2>1
  <2>3. n # 0  BY <2>1
  <2>4. off \in 1..(SegCap + 1) /\ tail \in Nat /\ next \in Nat /\ SegCap \in Nat
    BY Sizes DEF TypeInv, RamOK
  <2>5. q \in Nat \ {0}  BY <2>1, <2>2, <2>4
  <2>6. \A k \in 1..n : pend[k] = Record(q + k - 1, pend[k].step, 0, 1)
    BY DEF TypeInv, PendOK
  <2> QED  BY <2>1, <2>2, <2>3, <2>4, <2>5, <2>6
<1>2. \A k \in 1..n : /\ pend[k].seq = q + k - 1 /\ pend[k].part = 0 /\ pend[k].n = 1
                      /\ pend[k] # Void
  <2> TAKE k \in 1..n
  <2>1. q + k - 1 # 0  BY <1>1
  <2>2. pend[k] = Record(q + k - 1, pend[k].step, 0, 1)  BY <1>1
  <2> HIDE DEF q, n
  <2> QED  BY <2>1, <2>2 DEF Record, Void
<1> HIDE DEF q, n
<1>3. Room \in 0..SegCap /\ Room = SegCap + 1 - off  BY <1>1 DEF Room
<1>4. /\ FlushPlan = [i \in 1..n |-> IF i <= Room THEN Put(tail, off + i - 1, pend[i])
                                     ELSE Put(tail + 1, i - Room, pend[i])]
      /\ DOMAIN FlushPlan = 1..n
  BY DEF FlushPlan, n
<1>5. Len(FlushPlan) = n  BY <1>1, <1>4
<1>6. \A k \in 1..n : FlushPlan[k].rec = pend[k]
  <2> TAKE k \in 1..n
  <2>1. \/ FlushPlan[k] = Put(tail, off + k - 1, pend[k])
        \/ FlushPlan[k] = Put(tail + 1, k - Room, pend[k])
    BY <1>4
  <2> QED  BY <2>1, PutIs
<1>7. \A k \in 1..n : /\ k <= Room => FlushPlan[k].seg = tail /\ FlushPlan[k].at = off + k - 1
                      /\ k > Room => FlushPlan[k].seg = tail + 1 /\ FlushPlan[k].at = k - Room
  <2> TAKE k \in 1..n
  <2>1. CASE k <= Room
    <3>1. FlushPlan[k] = Put(tail, off + k - 1, pend[k])  BY <2>1, <1>4
    <3>2. FlushPlan[k].seg = tail /\ FlushPlan[k].at = off + k - 1  BY <3>1, PutIs
    <3> QED  BY <2>1, <3>2, <1>3
  <2>2. CASE ~(k <= Room)
    <3>1. FlushPlan[k] = Put(tail + 1, k - Room, pend[k])  BY <2>2, <1>4
    <3>2. FlushPlan[k].seg = tail + 1 /\ FlushPlan[k].at = k - Room  BY <3>1, PutIs
    <3> QED  BY <2>2, <3>2, <1>3
  <2> QED  BY <2>1, <2>2
<1>8. FlushPlan \in [1..n -> Puts]
  <2>1. \A k \in 1..n : FlushPlan[k] \in Puts
    <3> TAKE k \in 1..n
    <3>1. CASE k <= Room
      <4>1. FlushPlan[k] = Put(tail, off + k - 1, pend[k])  BY <3>1, <1>4
      <4>2. off + k - 1 \in 1..SegCap  BY <3>1, <1>1, <1>3
      <4> QED  BY <4>1, <4>2, <1>1 DEF Put, Puts
    <3>2. CASE k > Room
      <4>1. FlushPlan[k] = Put(tail + 1, k - Room, pend[k])  BY <3>2, <1>4, <1>3
      <4>2. k - Room \in 1..SegCap  BY <3>2, <1>1, <1>3, Sizes
      <4> QED  BY <4>1, <4>2, <1>1 DEF Put, Puts
    <3> QED  BY <3>1, <3>2, <1>3
  <2> QED  BY <2>1, <1>4
<1>9. CASE n <= Room
  <2>1. PlanOf(FlushPlan, tail, off, n, 0, q)
    <3>1. /\ n = n + 0 /\ n >= 1 /\ n <= ZWindow /\ off + n <= SegCap + 1
          /\ 0 <= ZWindow /\ 0 <= SegCap /\ 0 \in Nat /\ ~(0 > 0)
      BY <1>1, <1>3, <1>9, Sizes
    <3>2. \A k \in 1..n : FlushPlan[k].seg = tail /\ FlushPlan[k].at = off + k - 1
      <4>1. \A k \in 1..n : k <= Room  BY <1>9, <1>3, <1>1
      <4> QED  BY <4>1, <1>7
    <3>3. \A k \in 1..n : FlushPlan[k].rec.seq = q + k - 1 /\ FlushPlan[k].rec # Void
      BY <1>2, <1>6
    <3>4. \A k \in 1..n : FlushPlan[k].rec.part = 0 /\ FlushPlan[k].rec.n = 1
      BY <1>2, <1>6
    <3>5. n \in Nat /\ q \in Nat \ {0}  BY <1>1
    <3> QED  BY <3>1, <3>2, <3>3, <3>4, <3>5, <1>5, <1>8, PlanIs
  <2> QED  BY <2>1, <1>1, <1>5, <1>6 DEF n, q
<1>10. CASE n > Room
  <2> DEFINE a == Room
             b == n - Room
  <2>1. a \in Nat /\ b \in Nat /\ b > 0 /\ a + b = n /\ off + a = SegCap + 1 /\ off > 1
    BY <1>1, <1>3, <1>10, Sizes
  <2>2. tail < last  BY <1>10, <1>3, <1>1 DEF Fits, n
  <2>3. PlanOf(FlushPlan, tail, off, a, b, q)
    <3>1. a <= ZWindow /\ b <= ZWindow /\ b <= SegCap  BY <2>1, <1>1, Sizes
    <3>2. \A k \in 1..a : FlushPlan[k].seg = tail /\ FlushPlan[k].at = off + k - 1
      BY <1>7, <2>1, <1>1
    <3>3. \A k \in 1..b : FlushPlan[a + k].seg = tail + 1 /\ FlushPlan[a + k].at = k
      <4> TAKE k \in 1..b
      <4> DEFINE j == a + k
      <4>1. j \in 1..n /\ j > Room /\ j - Room = k  BY <2>1, <1>1, <1>3
      <4> HIDE DEF j
      <4>2. FlushPlan[j].seg = tail + 1 /\ FlushPlan[j].at = k  BY <4>1, <1>7
      <4> QED  BY <4>2 DEF j
    <3>4. \A k \in 1..n : FlushPlan[k].rec.seq = q + k - 1 /\ FlushPlan[k].rec # Void
      BY <1>2, <1>6
    <3>5. \A k \in 1..n : FlushPlan[k].rec.part = 0 /\ FlushPlan[k].rec.n = 1
      BY <1>2, <1>6
    <3>6. n = a + b /\ n >= 1 /\ off + a <= SegCap + 1 /\ q \in Nat \ {0}
      BY <2>1, <1>1, Sizes
    <3> HIDE DEF a, b
    <3> QED  BY <3>1, <3>2, <3>3, <3>4, <3>5, <3>6, <2>1, <1>5, <1>8, PlanIs
  <2> QED  BY <2>1, <2>2, <2>3, <1>1, <1>5, <1>6 DEF n, q
<1> QED  BY <1>9, <1>10, <1>1, <1>3

LEMMA PlanChain ==
  ASSUME TypeInv, tail # 0, pend = <<>>, NEW seg \in Nat, NEW at \in Nat, at >= 1,
         at + ChainLen <= SegCap + 1, made >= 1
  PROVE  LET p == ChainJob(seg, at)
         IN  /\ seg = tail /\ at = off => PlanOf(p, tail, off, ChainLen, 0, next)
             /\ seg = tail + 1 /\ at = 1 => PlanOf(p, tail, off, 0, ChainLen, next)
             /\ Len(p) = ChainLen /\ DOMAIN p = 1..ChainLen
             /\ p \in [1..ChainLen -> Puts]
             /\ \A k \in 1..ChainLen : /\ p[k].seg = seg /\ p[k].rec.step = made
                                       /\ p[k].rec.part = k - 1
<1> DEFINE p == ChainJob(seg, at)
           r(k) == Record(next + k - 1, made, k - 1, IF k = 1 THEN ChainLen ELSE 0)
<1>1. /\ ChainLen \in Nat /\ ChainLen >= 2 /\ next \in Nat \ {0} /\ made \in Nat
      /\ SegCap \in Nat /\ ChainLen <= ZWindow /\ ChainLen <= SegCap /\ off \in 1..(SegCap + 1)
      /\ tail \in Nat /\ ZWindow \in Nat
  BY Sizes DEF TypeInv, RamOK, HistoryOK
<1>2. /\ p = [k \in 1..ChainLen |-> Put(seg, at + k - 1, r(k))] /\ DOMAIN p = 1..ChainLen
  BY DEF ChainJob
<1>3. \A k \in 1..ChainLen : /\ r(k) \in Rec /\ r(k) # Void /\ r(k).seq = next + k - 1
                             /\ r(k).step = made /\ r(k).part = k - 1
                             /\ r(k).n = IF k = 1 THEN ChainLen ELSE 0
  <2> TAKE k \in 1..ChainLen
  <2>1. /\ next + k - 1 \in Nat /\ next + k - 1 # 0 /\ k - 1 \in Nat
        /\ (IF k = 1 THEN ChainLen ELSE 0) \in Nat /\ made \in Nat
    BY <1>1
  <2> DEFINE n == IF k = 1 THEN ChainLen ELSE 0
             w == next + k - 1
             t == k - 1
  <2>2. w \in Nat /\ w # 0 /\ t \in Nat /\ n \in Nat /\ made \in Nat  BY <2>1
  <2>3. r(k) = Record(w, made, t, n)  OBVIOUS
  <2> HIDE DEF n, w, t, r
  <2>4. r(k) \in Rec /\ r(k) # Void  BY <2>2, <2>3, RecFacts
  <2>5. r(k).seq = w /\ r(k).step = made /\ r(k).part = t /\ r(k).n = n  BY <2>3, RecordIs
  <2> QED  BY <2>4, <2>5 DEF n, w, t
<1> HIDE DEF r
<1>4. \A k \in 1..ChainLen : p[k] = Put(seg, at + k - 1, r(k))
  <2> HIDE DEF p
  <2> QED  BY <1>2
<1>5. \A k \in 1..ChainLen : p[k].seg = seg /\ p[k].at = at + k - 1 /\ p[k].rec = r(k)
  <2> HIDE DEF p
  <2> SUFFICES ASSUME NEW k \in 1..ChainLen
               PROVE  p[k].seg = seg /\ p[k].at = at + k - 1 /\ p[k].rec = r(k)
    OBVIOUS
  <2>1. p[k] = Put(seg, at + k - 1, r(k))  BY <1>4
  <2> QED  BY <2>1, PutIs
<1>6. \A k \in 1..ChainLen : at + k - 1 \in 1..SegCap  BY <1>1
<1>7. p \in [1..ChainLen -> Puts]
  <2>1. \A k \in 1..ChainLen : Put(seg, at + k - 1, r(k)) \in Puts
    BY <1>3, <1>6 DEF Put, Puts
  <2> HIDE DEF p
  <2> QED  BY <2>1, <1>2
<1>8. Len(p) = ChainLen  BY <1>1, <1>2
<1> HIDE DEF p
<1>13. /\ \A k \in 1..ChainLen : p[k].rec.seq = next + k - 1 /\ p[k].rec # Void
       /\ \A k \in 1..ChainLen : p[k].rec.part = k - 1
       /\ p[1].rec.n = ChainLen
  <2>1. \A k \in 1..ChainLen : p[k].rec = r(k)  BY <1>5
  <2>2. 1 \in 1..ChainLen  BY <1>1
  <2> QED  BY <2>1, <2>2, <1>3
<1>9. ASSUME seg = tail, at = off PROVE PlanOf(p, tail, off, ChainLen, 0, next)
  <2>1. /\ ChainLen = ChainLen + 0 /\ ChainLen >= 1 /\ 0 <= ZWindow /\ 0 <= SegCap
        /\ 0 \in Nat /\ ~(0 > 0) /\ off + ChainLen <= SegCap + 1
    BY <1>1, <1>9
  <2>2. \A k \in 1..ChainLen : p[k].seg = tail /\ p[k].at = off + k - 1  BY <1>5, <1>9
  <2> QED  BY <2>1, <2>2, <1>1, <1>7, <1>8, <1>13, PlanIs
<1>10. ASSUME seg = tail + 1, at = 1 PROVE PlanOf(p, tail, off, 0, ChainLen, next)
  <2>1. /\ ChainLen = 0 + ChainLen /\ ChainLen >= 1 /\ 0 <= ZWindow /\ off + 0 <= SegCap + 1
        /\ 0 \in Nat /\ ~(0 > 0)
    BY <1>1
  <2>2. \A k \in 1..ChainLen : p[0 + k].seg = tail + 1 /\ p[0 + k].at = k
    <3>1. \A k \in 1..ChainLen : 0 + k = k /\ 1 + k - 1 = k  OBVIOUS
    <3> QED  BY <3>1, <1>5, <1>10
  <2> QED  BY <2>1, <2>2, <1>1, <1>7, <1>8, <1>13, PlanIs
<1>11. \A k \in 1..ChainLen : /\ p[k].seg = seg /\ p[k].rec.step = made
                               /\ p[k].rec.part = k - 1
  BY <1>3, <1>5
<1>12. DOMAIN p = 1..ChainLen  BY <1>7
<1> QED  BY <1>7, <1>8, <1>9, <1>10, <1>11, <1>12 DEF p

\* What a job is, whichever it is.
LEMMA JobIs ==
  ASSUME TypeInv, tail # 0, NEW p, IsJob(p)
  PROVE  \E a, b \in Nat :
           /\ PlanOf(p, tail, off, a, b, next - Len(pend))
           /\ b > 0 => tail < last /\ (off = 1 => ver[SlotOf(tail)] # 2)
           /\ \A k \in 1..(a + b) : /\ p[k].rec.n >= 2 => ver[SlotOf(p[k].seg)] = 2
                                    /\ p[k].rec.step \in 1..made
           /\ pend # <<>> => /\ Len(pend) = a + b
                             /\ \A k \in 1..(a + b) : p[k].rec = pend[k]
           /\ pend = <<>> => \A k \in 1..(a + b) : p[k].rec.part = k - 1 /\ p[k].rec.step = made
<1>0. /\ Len(pend) \in Nat /\ tail \in Nat /\ off \in 1..(SegCap + 1) /\ made \in Nat
      /\ next \in Nat /\ last \in Nat
      /\ \A k \in 1..Len(pend) : pend[k].step \in 1..made /\ pend[k].n = 1
  <2>1. \A k \in 1..Len(pend) :
           /\ pend[k].step \in 1..made
           /\ pend[k] = Record(next - Len(pend) + k - 1, pend[k].step, 0, 1)
    BY DEF TypeInv, PendOK
  <2>2. \A k \in 1..Len(pend) : pend[k].n = 1
    <3> TAKE k \in 1..Len(pend)
    <3>1. pend[k] = Record(next - Len(pend) + k - 1, pend[k].step, 0, 1)  BY <2>1
    <3> QED  BY <3>1, RecordIs
  <2>3. /\ Len(pend) \in Nat /\ tail \in Nat /\ off \in 1..(SegCap + 1) /\ made \in Nat
        /\ next \in Nat /\ last \in Nat
    BY Sizes DEF TypeInv, PendOK, RamOK, HistoryOK
  <2> QED  BY <2>1, <2>2, <2>3
<1>1. CASE pend # <<>> /\ Fits /\ p = FlushPlan
  <2>1. PICK a \in Nat, b \in Nat :
           /\ PlanOf(FlushPlan, tail, off, a, b, next - Len(pend))
           /\ b > 0 => tail < last /\ off > 1
           /\ Len(FlushPlan) = Len(pend)
           /\ \A k \in 1..Len(pend) : FlushPlan[k].rec = pend[k]
    BY <1>1, PlanFlush
  <2>2. Len(pend) = a + b  BY <2>1 DEF PlanOf
  <2>3. \A k \in 1..(a + b) : p[k].rec = pend[k] /\ pend[k].n = 1 /\ pend[k].step \in 1..made
    BY <2>1, <2>2, <1>0, <1>1
  <2>4. \A k \in 1..(a + b) : /\ p[k].rec.n >= 2 => ver[SlotOf(p[k].seg)] = 2
                             /\ p[k].rec.step \in 1..made
    BY <2>3
  <2>5. PlanOf(p, tail, off, a, b, next - Len(pend))  BY <2>1, <1>1
  <2>6. b > 0 => tail < last /\ (off = 1 => ver[SlotOf(tail)] # 2)
    BY <2>1, <1>0
  <2>7. pend # <<>> => /\ Len(pend) = a + b
                       /\ \A k \in 1..(a + b) : p[k].rec = pend[k]
    BY <2>2, <2>3
  <2> QED  BY <2>4, <2>5, <2>6, <2>7, <1>1
<1>2. CASE pend = <<>> /\ made >= 1 /\ ToTail /\ p = ChainJob(tail, off)
  <2>0. /\ ChainLen \in Nat /\ SegCap \in Nat /\ Len(pend) = 0 /\ next - Len(pend) = next
        /\ ChainLen + 0 = ChainLen
    BY <1>0, <1>2, Sizes
  <2>1. off + ChainLen <= SegCap + 1 /\ ver[SlotOf(tail)] = 2
    BY <1>0, <1>2, <2>0 DEF ToTail, Room
  <2>2. /\ PlanOf(p, tail, off, ChainLen, 0, next)
        /\ \A k \in 1..ChainLen : p[k].seg = tail /\ p[k].rec.step = made /\ p[k].rec.part = k - 1
    BY <2>0, <2>1, <1>0, <1>2, PlanChain
  <2>3. \A k \in 1..ChainLen : /\ p[k].rec.n >= 2 => ver[SlotOf(p[k].seg)] = 2
                               /\ p[k].rec.step \in 1..made
                               /\ p[k].rec.part = k - 1 /\ p[k].rec.step = made
    BY <2>1, <2>2, <1>0, <1>2
  <2>4. 0 \in Nat /\ ~(0 > 0)  OBVIOUS
  <2> QED  BY <2>0, <2>2, <2>3, <2>4, <1>2
<1>3. CASE pend = <<>> /\ made >= 1 /\ ToSpare /\ p = ChainJob(tail + 1, 1)
  <2>0. /\ ChainLen \in Nat /\ SegCap \in Nat /\ Len(pend) = 0 /\ next - Len(pend) = next
        /\ 0 + ChainLen = ChainLen /\ ChainLen <= SegCap /\ 1 + ChainLen <= SegCap + 1
    BY <1>0, <1>3, Sizes
  <2>1. /\ tail < last /\ ver[SlotOf(tail + 1)] = 2
        /\ off = 1 => ver[SlotOf(tail)] # 2
    BY <1>0, <1>3, <2>0 DEF ToTail, ToSpare, Room
  <2>2. /\ PlanOf(p, tail, off, 0, ChainLen, next)
        /\ \A k \in 1..ChainLen : p[k].seg = tail + 1 /\ p[k].rec.step = made /\ p[k].rec.part = k - 1
    BY <2>0, <2>1, <1>0, <1>3, PlanChain
  <2>3. \A k \in 1..ChainLen : /\ p[k].rec.n >= 2 => ver[SlotOf(p[k].seg)] = 2
                               /\ p[k].rec.step \in 1..made
                               /\ p[k].rec.part = k - 1 /\ p[k].rec.step = made
    BY <2>1, <2>2, <1>0, <1>3
  <2> QED  BY <2>0, <2>1, <2>2, <2>3, <1>3
<1> QED  BY <1>1, <1>2, <1>3 DEF IsJob

--------------------------------
\* How the ring changes.

LEMMA NearFewer ==
  ASSUME NEW h, NEW h2, LiveIn(h2) \subseteq LiveIn(h), Near(h) PROVE Near(h2)
  BY DEF Near

\* The oldest n segments, or those of them that are left, are retired.
RetireIn(h, f, n) ==
  [s \in Slots |-> IF \E seg \in f..(f + n - 1) : SlotOf(seg) = s THEN Free ELSE h[s]]

LEMMA RetireLive ==
  ASSUME NEW h \in [Slots -> 0..Gone], NEW f, NEW l, NEW t, Placed(h, f, l, t),
         NEW n \in 0..(t - f)
  PROVE  /\ RetireIn(h, f, n) \in [Slots -> 0..Gone]
         /\ LiveIn(RetireIn(h, f, n)) = LiveIn(h) \ (f..(f + n - 1))
         /\ \A s \in Slots : RetireIn(h, f, n)[s] \in {h[s], Free}
         /\ \A x \in 1..MaxIdx : RetireIn(h, f, n)[SlotOf(x)] = Free
              => x \notin LiveIn(h) \/ x \in f..(f + n - 1)
         /\ n = 0 => RetireIn(h, f, n) = h
<1> DEFINE g == RetireIn(h, f, n)
<1>1. /\ f \in 1..MaxIdx /\ l \in 1..MaxIdx /\ t \in 1..MaxIdx /\ f <= t /\ t <= l /\ n \in Nat
      /\ (f + 1)..l \subseteq LiveIn(h)
      /\ f \in LiveIn(h) \/ h[SlotOf(f)] = Free
      /\ f + n <= t
  BY Sizes DEF Placed, LiveIn
<1>2. \A s \in Slots : g[s] = IF \E seg \in f..(f + n - 1) : SlotOf(seg) = s THEN Free ELSE h[s]
  BY DEF RetireIn
<1>3. \A seg \in f..(f + n - 1) : seg \in (f + 1)..l \/ seg = f
  BY <1>1
<1>4. \A x \in LiveIn(h), seg \in f..(f + n - 1) : SlotOf(seg) = SlotOf(x) => seg = x
  <2> TAKE x \in LiveIn(h), seg \in f..(f + n - 1)
  <2> HAVE SlotOf(seg) = SlotOf(x)
  <2>1. seg \in LiveIn(h) => seg = x  BY SlotOwn
  <2>2. h[SlotOf(x)] = x /\ x # Free  BY Sizes DEF LiveIn
  <2> QED  BY <2>1, <2>2, <1>1, <1>3
<1>5. \A x \in 1..MaxIdx : SlotOf(x) \in Slots  BY SlotIn, Sizes
<1>6. LiveIn(g) = LiveIn(h) \ (f..(f + n - 1))
  <2>1. ASSUME NEW x \in LiveIn(g) PROVE x \in LiveIn(h) /\ x \notin f..(f + n - 1)
    <3>1. x \in 1..MaxIdx /\ g[SlotOf(x)] = x /\ x # Free /\ SlotOf(x) \in Slots
      BY <1>5, Sizes DEF LiveIn
    <3>2. ~\E seg \in f..(f + n - 1) : SlotOf(seg) = SlotOf(x)  BY <3>1, <1>2
    <3> QED  BY <3>1, <3>2, <1>2 DEF LiveIn
  <2>2. ASSUME NEW x \in LiveIn(h), x \notin f..(f + n - 1) PROVE x \in LiveIn(g)
    <3>1. x \in 1..MaxIdx /\ h[SlotOf(x)] = x /\ SlotOf(x) \in Slots  BY <1>5 DEF LiveIn
    <3>2. ~\E seg \in f..(f + n - 1) : SlotOf(seg) = SlotOf(x)  BY <2>2, <1>4
    <3> QED  BY <3>1, <3>2, <1>2 DEF LiveIn
  <2> QED  BY <2>1, <2>2
<1>7. \A s \in Slots : g[s] \in {h[s], Free}  BY <1>2
<1>8. g \in [Slots -> 0..Gone]
  <2>1. Free \in 0..Gone /\ \A s \in Slots : h[s] \in 0..Gone  BY Sizes
  <2> QED  BY <2>1 DEF RetireIn
<1>9. ASSUME NEW x \in 1..MaxIdx, g[SlotOf(x)] = Free, x \in LiveIn(h)
      PROVE  x \in f..(f + n - 1)
  <2>1. h[SlotOf(x)] = x /\ x # Free  BY <1>9, Sizes DEF LiveIn
  <2>2. \E seg \in f..(f + n - 1) : SlotOf(seg) = SlotOf(x)  BY <2>1, <1>9, <1>2, <1>5
  <2> QED  BY <2>2, <1>4, <1>9
<1>10. n = 0 => g = h
  <2>1. n = 0 => ~\E seg \in f..(f + n - 1) : TRUE  BY <1>1
  <2> QED  BY <2>1 DEF RetireIn
<1> QED  BY <1>6, <1>7, <1>8, <1>9, <1>10

LEMMA RetireRing ==
  ASSUME NEW h \in [Slots -> 0..Gone], NEW f, NEW l, NEW t, Placed(h, f, l, t),
         NEW n \in 0..(t - f), Near(h), GoneFirst(h), NEW k \in Nat,
         k = n \/ (k + 1 = n)
  PROVE  LET g == RetireIn(h, f, n)
         IN  Near(g) /\ GoneFirst(g) /\ Placed(g, f + k, l, t)
<1> DEFINE g == RetireIn(h, f, n)
<1>0. /\ LiveIn(g) = LiveIn(h) \ (f..(f + n - 1))
      /\ \A s \in Slots : g[s] \in {h[s], Free}
      /\ n = 0 => g = h
  BY RetireLive
<1>1. /\ f \in 1..MaxIdx /\ l \in 1..MaxIdx /\ t \in LiveIn(h) /\ t \in 1..MaxIdx
      /\ f <= t /\ t <= l /\ n \in Nat /\ l - f < Ring
      /\ (f + 1)..l \subseteq LiveIn(h) /\ f <= OldestIn(h)
      /\ f \in LiveIn(h) \/ (h[SlotOf(f)] = Free /\ f < t)
      /\ f + n <= t /\ Ring \in Nat /\ MaxIdx \in Nat
  BY Sizes DEF Placed, LiveIn
<1>2. /\ OldestIn(h) \in 1..MaxIdx /\ \A x \in LiveIn(h) : OldestIn(h) <= x /\ x \in 1..MaxIdx
  <2>1. LiveIn(h) # {}  BY <1>1
  <2> QED  BY <2>1, RangeFacts
<1>d. \A s \in Slots : g[s] = IF \E seg \in f..(f + n - 1) : SlotOf(seg) = s THEN Free ELSE h[s]
  BY DEF RetireIn
<1> HIDE DEF g
<1>3. Near(g)  BY <1>0, NearFewer
<1>4. GoneFirst(g)
  <2> SUFFICES ASSUME LiveIn(g) # {}, NEW s \in Slots, NEW u \in Slots, g[s] = Gone, g[u] # Gone
               PROVE  s < u
    BY DEF GoneFirst
  <2>1. Free # Gone  BY Sizes
  <2>2. h[s] = Gone /\ LiveIn(h) # {}  BY <1>0, <2>1
  <2>3. CASE h[u] # Gone  BY <2>2, <2>3 DEF GoneFirst
  <2>4. CASE h[u] = Gone
    <3>1. g[u] = Free  BY <2>4, <1>0
    <3>2. PICK seg \in f..(f + n - 1) : SlotOf(seg) = u
      BY <3>1, <2>4, <2>1, <1>d
    <3>3. seg \in LiveIn(h) \/ h[SlotOf(seg)] = Free  BY <1>1, <3>2
    <3>4. \A x \in LiveIn(h) : h[SlotOf(x)] = x /\ x # Gone  BY <1>2, Sizes DEF LiveIn
    <3> QED  BY <3>2, <3>3, <3>4, <2>4, <2>1
  <2> QED  BY <2>3, <2>4
<1>5. t \in LiveIn(g) /\ LiveIn(g) # {}  BY <1>0, <1>1
<1>6. \A x \in LiveIn(g) : f + n <= x /\ x \in 1..MaxIdx
  <2> TAKE x \in LiveIn(g)
  <2>1. x \in LiveIn(h) /\ x \notin f..(f + n - 1)  BY <1>0
  <2>2. f <= x /\ x \in 1..MaxIdx  BY <2>1, <1>1, <1>2
  <2> QED  BY <2>1, <2>2, <1>1
<1>7. f + k <= OldestIn(g)
  <2>1. OldestIn(g) \in LiveIn(g)  BY <1>5, RangeFacts
  <2>2. f + n <= OldestIn(g) /\ OldestIn(g) \in 1..MaxIdx  BY <2>1, <1>6
  <2>3. k \in Nat /\ k <= n  BY <1>1
  <2> QED  BY <2>2, <2>3, <1>1
<1>8. (f + k + 1)..l \subseteq LiveIn(g)
  <2> SUFFICES ASSUME NEW x \in (f + k + 1)..l PROVE x \in LiveIn(g)
    OBVIOUS
  <2>1. x \in (f + 1)..l /\ x \notin f..(f + n - 1)  BY <1>1
  <2> QED  BY <2>1, <1>0, <1>1
<1>9. f + k \in LiveIn(g) \/ (g[SlotOf(f + k)] = Free /\ f + k < t)
  <2>1. CASE n = 0
    <3>1. k = 0  BY <2>1
    <3> QED  BY <3>1, <2>1, <1>0, <1>1
  <2>2. CASE n > 0 /\ k = n
    <3>1. f + k \in (f + 1)..l /\ f + k \notin f..(f + n - 1)  BY <2>2, <1>1
    <3> QED  BY <3>1, <1>0, <1>1
  <2>3. CASE k + 1 = n
    <3>1. f + k \in f..(f + n - 1) /\ f + k < t /\ f + k \in Nat \ {0}  BY <2>3, <1>1
    <3>2. SlotOf(f + k) \in Slots  BY <3>1, SlotIn
    <3> QED  BY <3>1, <3>2, <1>d
  <2> QED  BY <2>1, <2>2, <2>3, <1>1
<1>10. f + k \in 1..MaxIdx /\ f + k <= t /\ l - (f + k) < Ring  BY <1>1
<1>11. Placed(g, f + k, l, t)
  BY <1>1, <1>5, <1>7, <1>8, <1>9, <1>10 DEF Placed
<1> QED  BY <1>3, <1>4, <1>11 DEF g

\* A free slot takes the segment behind the last one.
LEMMA ActivateRing ==
  ASSUME NEW h \in [Slots -> 0..Gone], NEW f, NEW l, Placed(h, f, l, l),
         Near(h), GoneFirst(h), l < MaxIdx, h[SlotOf(l + 1)] = Free, l + 1 - f < Ring
  PROVE  LET g == [h EXCEPT ![SlotOf(l + 1)] = l + 1]
         IN  /\ g \in [Slots -> 0..Gone] /\ LiveIn(g) = LiveIn(h) \cup {l + 1}
             /\ Near(g) /\ GoneFirst(g) /\ Placed(g, f, l + 1, l)
             /\ l + 1 \notin LiveIn(h)
<1> DEFINE g == [h EXCEPT ![SlotOf(l + 1)] = l + 1]
<1>1. /\ f \in 1..MaxIdx /\ l \in 1..MaxIdx /\ l \in LiveIn(h)
      /\ f <= l /\ l - f < Ring /\ l + 1 \in 1..MaxIdx
      /\ (f + 1)..l \subseteq LiveIn(h) /\ f <= OldestIn(h)
      /\ f \in LiveIn(h) \/ (h[SlotOf(f)] = Free /\ f < l)
      /\ Ring \in Nat /\ MaxIdx \in Nat /\ Gone = MaxIdx + 1 /\ Free = 0
  BY Sizes DEF Placed
<1>2. /\ OldestIn(h) \in 1..MaxIdx /\ \A x \in LiveIn(h) : OldestIn(h) <= x /\ x \in 1..MaxIdx
  <2>1. LiveIn(h) # {}  BY <1>1
  <2> QED  BY <2>1, RangeFacts
<1>3. SlotOf(l + 1) \in Slots /\ \A x \in 1..MaxIdx : SlotOf(x) \in Slots  BY <1>1, SlotIn
<1>4. /\ g \in [Slots -> 0..Gone]
      /\ g[SlotOf(l + 1)] = l + 1
      /\ \A s \in Slots : s # SlotOf(l + 1) => g[s] = h[s]
  BY <1>1, <1>3
<1> HIDE DEF g
<1>5. l + 1 \notin LiveIn(h)
  <2>1. l + 1 # Free  BY <1>1
  <2> QED  BY <2>1 DEF LiveIn
<1>6. LiveIn(g) = LiveIn(h) \cup {l + 1}
  <2>1. ASSUME NEW x \in LiveIn(g) PROVE x \in LiveIn(h) \cup {l + 1}
    <3>1. x \in 1..MaxIdx /\ g[SlotOf(x)] = x /\ SlotOf(x) \in Slots  BY <1>3 DEF LiveIn
    <3> QED  BY <3>1, <1>4 DEF LiveIn
  <2>2. ASSUME NEW x \in LiveIn(h) PROVE x \in LiveIn(g)
    <3>1. x \in 1..MaxIdx /\ h[SlotOf(x)] = x /\ SlotOf(x) \in Slots /\ x # Free
      BY <1>1, <1>3 DEF LiveIn
    <3>2. SlotOf(x) # SlotOf(l + 1)  BY <3>1
    <3> QED  BY <3>1, <3>2, <1>4 DEF LiveIn
  <2>3. l + 1 \in LiveIn(g)  BY <1>1, <1>4 DEF LiveIn
  <2> QED  BY <2>1, <2>2, <2>3
<1>7. Near(g)
  <2> SUFFICES ASSUME NEW x \in LiveIn(g), NEW z \in LiveIn(g) PROVE z - x < Ring
    BY DEF Near
  <2>1. CASE x \in LiveIn(h) /\ z \in LiveIn(h)  BY <2>1 DEF Near
  <2>2. CASE x \in LiveIn(h) /\ z = l + 1
    <3>1. f <= x /\ x \in Nat  BY <2>2, <1>1, <1>2
    <3> QED  BY <3>1, <2>2, <1>1
  <2>3. CASE x = l + 1 /\ z \in LiveIn(h)
    <3>1. z - l < Ring /\ z \in Nat  BY <2>3, <1>1, <1>2 DEF Near
    <3> QED  BY <3>1, <2>3, <1>1
  <2>4. CASE x = l + 1 /\ z = l + 1  BY <2>4, <1>1, Sizes
  <2> QED  BY <2>1, <2>2, <2>3, <2>4, <1>6
<1>8. GoneFirst(g)
  <2> SUFFICES ASSUME NEW s \in Slots, NEW u \in Slots, g[s] = Gone, g[u] # Gone
               PROVE  s < u
    BY DEF GoneFirst
  <2>1. l + 1 # Gone /\ Free # Gone  BY <1>1
  <2>2. h[s] = Gone  BY <2>1, <1>4
  <2>3. h[u] # Gone  BY <2>1, <1>4
  <2> QED  BY <2>2, <2>3, <1>1 DEF GoneFirst
<1>9. Placed(g, f, l + 1, l)
  <2>1. f <= OldestIn(g)
    <3>1. OldestIn(g) \in LiveIn(g)
      <4>1. LiveIn(g) # {}  BY <1>6
      <4>2. OldestIn(g) \in OldestIn(g)..NewestIn(g)  BY <4>1, RangeFacts
      <4> QED  BY <4>1, <4>2, RangeFacts
    <3>2. OldestIn(g) \in LiveIn(h) \/ OldestIn(g) = l + 1  BY <3>1, <1>6
    <3>3. OldestIn(h) <= OldestIn(g) \/ OldestIn(g) = l + 1  BY <3>2, <1>2
    <3>4. OldestIn(g) \in 1..MaxIdx  BY <3>2, <1>1, <1>2
    <3> QED  BY <3>3, <3>4, <1>1, <1>2
  <2>2. (f + 1)..(l + 1) \subseteq LiveIn(g)
    <3>1. (f + 1)..(l + 1) \subseteq ((f + 1)..l) \cup {l + 1}  BY <1>1
    <3> QED  BY <3>1, <1>6, <1>1
  <2>3. f \in LiveIn(g) \/ (g[SlotOf(f)] = Free /\ f < l)
    <3>1. CASE f \in LiveIn(h)  BY <3>1, <1>6
    <3>2. CASE h[SlotOf(f)] = Free /\ f < l
      <4>1. SlotOf(f) # SlotOf(l + 1)
        <5> DEFINE z == l + 1
        <5>1. f \in Nat \ {0} /\ z \in Nat \ {0} /\ f < z /\ z - f < Ring  BY <1>1
        <5> HIDE DEF z
        <5>2. SlotOf(f) # SlotOf(z)  BY <5>1, SlotNear
        <5> QED  BY <5>2 DEF z
      <4> QED  BY <4>1, <3>2, <1>1, <1>3, <1>4
    <3> QED  BY <3>1, <3>2, <1>1
  <2> QED  BY <2>1, <2>2, <2>3, <1>1, <1>6 DEF Placed
<1> QED  BY <1>4, <1>5, <1>6, <1>7, <1>8, <1>9 DEF g

\* The session does without its spare.
LEMMA DropRing ==
  ASSUME NEW h \in [Slots -> 0..Gone], NEW f, NEW l, NEW t, Placed(h, f, l, t),
         Near(h), GoneFirst(h), t < l
  PROVE  LET g == [h EXCEPT ![SlotOf(t + 1)] = Free]
         IN  /\ g \in [Slots -> 0..Gone] /\ LiveIn(g) = LiveIn(h) \ {t + 1}
             /\ Near(g) /\ GoneFirst(g) /\ Placed(g, f, t, t)
<1> DEFINE g == [h EXCEPT ![SlotOf(t + 1)] = Free]
<1>1. /\ f \in 1..MaxIdx /\ l \in 1..MaxIdx /\ t \in LiveIn(h) /\ t \in 1..MaxIdx
      /\ f <= t /\ l - f < Ring /\ t + 1 \in 1..MaxIdx /\ t <= l
      /\ (f + 1)..l \subseteq LiveIn(h) /\ f <= OldestIn(h)
      /\ f \in LiveIn(h) \/ (h[SlotOf(f)] = Free /\ f < t)
      /\ Ring \in Nat /\ MaxIdx \in Nat /\ Gone = MaxIdx + 1 /\ Free = 0
  BY Sizes DEF Placed, LiveIn
<1>2. /\ OldestIn(h) \in 1..MaxIdx /\ \A x \in LiveIn(h) : OldestIn(h) <= x /\ x \in 1..MaxIdx
  <2>1. LiveIn(h) # {}  BY <1>1
  <2> QED  BY <2>1, RangeFacts
<1>3. SlotOf(t + 1) \in Slots /\ \A x \in 1..MaxIdx : SlotOf(x) \in Slots  BY <1>1, SlotIn
<1>4. /\ g \in [Slots -> 0..Gone]
      /\ g[SlotOf(t + 1)] = Free
      /\ \A s \in Slots : s # SlotOf(t + 1) => g[s] = h[s]
  BY <1>1, <1>3, Sizes
<1> HIDE DEF g
<1>5. t + 1 \in LiveIn(h) /\ h[SlotOf(t + 1)] = t + 1
  <2>1. t + 1 \in (f + 1)..l  BY <1>1
  <2> QED  BY <2>1, <1>1 DEF LiveIn
<1>6. LiveIn(g) = LiveIn(h) \ {t + 1}
  <2>1. ASSUME NEW x \in LiveIn(g) PROVE x \in LiveIn(h) /\ x # t + 1
    <3>1. x \in 1..MaxIdx /\ g[SlotOf(x)] = x /\ SlotOf(x) \in Slots /\ x # Free
      BY <1>1, <1>3 DEF LiveIn
    <3>2. SlotOf(x) # SlotOf(t + 1)  BY <3>1, <1>4
    <3> QED  BY <3>1, <3>2, <1>4 DEF LiveIn
  <2>2. ASSUME NEW x \in LiveIn(h), x # t + 1 PROVE x \in LiveIn(g)
    <3>1. x \in 1..MaxIdx /\ h[SlotOf(x)] = x /\ SlotOf(x) \in Slots
      BY <1>3 DEF LiveIn
    <3>2. SlotOf(x) # SlotOf(t + 1)  BY <2>2, <1>5, SlotOwn
    <3> QED  BY <3>1, <3>2, <1>4 DEF LiveIn
  <2> QED  BY <2>1, <2>2
<1>7. Near(g)  BY <1>6, NearFewer
<1>8. GoneFirst(g)
  <2> SUFFICES ASSUME NEW s \in Slots, NEW u \in Slots, g[s] = Gone, g[u] # Gone
               PROVE  s < u
    BY DEF GoneFirst
  <2>1. t + 1 # Gone /\ Free # Gone  BY <1>1
  <2>2. h[s] = Gone  BY <2>1, <1>4
  <2>3. h[u] # Gone  BY <2>1, <1>4, <1>5
  <2> QED  BY <2>2, <2>3, <1>1 DEF GoneFirst
<1>9. Placed(g, f, t, t)
  <2>0. t \in LiveIn(g) /\ t <= t  BY <1>1, <1>6
  <2>1. f <= OldestIn(g)
    <3>1. OldestIn(g) \in LiveIn(g)
      <4>1. LiveIn(g) # {}  BY <2>0
      <4>2. OldestIn(g) \in OldestIn(g)..NewestIn(g)  BY <4>1, RangeFacts
      <4> QED  BY <4>1, <4>2, RangeFacts
    <3>2. OldestIn(g) \in LiveIn(h)  BY <3>1, <1>6
    <3>3. OldestIn(h) <= OldestIn(g)  BY <3>2, <1>2
    <3>4. OldestIn(g) \in 1..MaxIdx  BY <3>2, <1>2
    <3> QED  BY <3>3, <3>4, <1>1, <1>2
  <2>2. (f + 1)..t \subseteq LiveIn(g)
    <3>1. \A x \in (f + 1)..t : x \in (f + 1)..l /\ x # t + 1  BY <1>1
    <3> QED  BY <3>1, <1>6, <1>1
  <2>3. f \in LiveIn(g) \/ (g[SlotOf(f)] = Free /\ f < t)
    <3>1. CASE f \in LiveIn(h)
      <4>1. f # t + 1  BY <1>1
      <4> QED  BY <3>1, <4>1, <1>6
    <3>2. CASE h[SlotOf(f)] = Free /\ f < t
      <4>1. SlotOf(f) # SlotOf(t + 1)  BY <3>2, <1>5, <1>1
      <4> QED  BY <4>1, <3>2, <1>1, <1>3, <1>4
    <3> QED  BY <3>1, <3>2, <1>1
  <2>4. t - f < Ring  BY <1>1
  <2> QED  BY <2>0, <2>1, <2>2, <2>3, <2>4, <1>1 DEF Placed
<1> QED  BY <1>4, <1>6, <1>7, <1>8, <1>9 DEF g

\* The files of the lowest slots are deleted, or freed when there is no live
\* segment.
LEMMA DeleteRing ==
  ASSUME NEW h \in [Slots -> 0..Gone], Near(h), GoneFirst(h), NEW m \in Nat
  PROVE  LET g == [s \in Slots |-> IF s <= m THEN Gone ELSE h[s]]
         IN  /\ g \in [Slots -> 0..Gone] /\ Near(g) /\ GoneFirst(g)
             /\ LiveIn(g) = {x \in LiveIn(h) : SlotOf(x) > m}
<1> DEFINE g == [s \in Slots |-> IF s <= m THEN Gone ELSE h[s]]
<1>1. Gone = MaxIdx + 1 /\ MaxIdx \in Nat /\ Gone \in 0..Gone /\ Slots = 1..Ring /\ Ring \in Nat
  BY Sizes DEF Slots
<1>2. /\ g \in [Slots -> 0..Gone]
      /\ \A s \in Slots : g[s] = IF s <= m THEN Gone ELSE h[s]
  BY <1>1
<1> HIDE DEF g
<1>3. \A x \in 1..MaxIdx : SlotOf(x) \in Slots /\ x # Gone  BY <1>1, SlotIn
<1>4. LiveIn(g) = {x \in LiveIn(h) : SlotOf(x) > m}
  <2>1. ASSUME NEW x \in LiveIn(g) PROVE x \in LiveIn(h) /\ SlotOf(x) > m
    <3>1. x \in 1..MaxIdx /\ g[SlotOf(x)] = x  BY DEF LiveIn
    <3>2. ~(SlotOf(x) <= m) /\ h[SlotOf(x)] = x  BY <3>1, <1>2, <1>3
    <3> QED  BY <3>1, <3>2, <1>1, <1>3 DEF LiveIn
  <2>2. ASSUME NEW x \in LiveIn(h), SlotOf(x) > m PROVE x \in LiveIn(g)
    <3>1. x \in 1..MaxIdx /\ h[SlotOf(x)] = x  BY DEF LiveIn
    <3> QED  BY <3>1, <2>2, <1>1, <1>2, <1>3 DEF LiveIn
  <2> QED  BY <2>1, <2>2
<1>5. Near(g)  BY <1>4, NearFewer
<1>6. GoneFirst(g)
  <2> SUFFICES ASSUME LiveIn(g) # {}, NEW s \in Slots, NEW u \in Slots, g[s] = Gone, g[u] # Gone
               PROVE  s < u
    BY DEF GoneFirst
  <2>1. u > m /\ h[u] # Gone  BY <1>1, <1>2
  <2>2. CASE s <= m  BY <2>1, <2>2, <1>1
  <2>3. CASE ~(s <= m)
    <3>1. h[s] = Gone /\ LiveIn(h) # {}  BY <2>3, <1>2, <1>4
    <3> QED  BY <3>1, <2>1 DEF GoneFirst
  <2> QED  BY <2>2, <2>3
<1> QED  BY <1>2, <1>4, <1>5, <1>6 DEF g

--------------------------------
\* Every step keeps the types and the ring.

LEMMA ExpectNumber ==
  ASSUME NEW R, NEW lo, NEW hi, IsRows(R, lo, hi), NEW seg \in Nat, NEW x \in ExpectAt(R, seg)
  PROVE  x \in Nat \ {0} /\ ExpectAt(R, seg) = {x}
<1>0. DOMAIN R = lo..hi /\ lo \in Nat /\ hi \in Nat  BY RowsFacts
<1>1. CASE \A s \in DOMAIN R : s < seg => RunLen(R[s]) = 0
  <2>1. ExpectAt(R, seg) = {}  BY <1>1, ExpectNone
  <2> QED  BY <2>1
<1>2. CASE \E s \in DOMAIN R : /\ s < seg /\ RunLen(R[s]) > 0
                               /\ \A u \in DOMAIN R : s < u /\ u < seg => RunLen(R[u]) = 0
  <2>1. PICK s \in DOMAIN R : /\ s < seg /\ RunLen(R[s]) > 0
                              /\ \A u \in DOMAIN R : s < u /\ u < seg => RunLen(R[u]) = 0
    BY <1>2
  <2>2. ExpectAt(R, seg) = {R[s][RunLen(R[s])].seq + 1}  BY <2>1, ExpectOne
  <2>3. RunLen(R[s]) \in 1..SegCap  BY <2>1, RunLenFact, Sizes
  <2>4. R[s][RunLen(R[s])] \in Rec  BY <2>3, <1>0, RowsFacts
  <2>5. R[s][RunLen(R[s])].seq \in Nat  BY <2>4 DEF Rec
  <2> QED  BY <2>2, <2>5
<1> QED  BY <1>1, <1>2, ExpectDichotomy

LEMMA ScanIs ==
  ASSUME CardOK, LiveIn(hdr) # {}
  PROVE  /\ IsRows(Rows, Oldest, Newest) /\ LiveSegs # {}
         /\ \A s \in Oldest..Newest : Rows[s] = body[SlotOf(s)]
         /\ Scan.tail = Max(Visited(Rows)) /\ Scan.tail \in Oldest..Newest
         /\ Scan.off = RunLen(Rows[Scan.tail]) + 1 /\ Scan.off \in 1..(SegCap + 1)
         /\ Scan.expect = ExpectAt(Rows, Scan.tail + 1)
         /\ Scan.expect \subseteq Nat \ {0}
<1>1. /\ IsRows(Rows, Oldest, Newest) /\ LiveSegs # {}
      /\ \A s \in Oldest..Newest : Rows[s] = body[SlotOf(s)]
  BY RowsAre, CardNow DEF CardOK
<1> DEFINE v == Max(Visited(Rows))
<1>2. v \in Oldest..Newest /\ v \in Nat /\ v + 1 \in Nat
  <2>1. v \in Oldest..Newest  BY <1>1, VisitedFacts
  <2>2. Oldest \in Nat /\ Newest \in Nat  BY <1>1, RowsFacts
  <2> QED  BY <2>1, <2>2
<1>3. Scan.tail = v /\ Scan.off = RunLen(Rows[v]) + 1 /\ Scan.expect = ExpectAt(Rows, v + 1)
  BY DEF Scan
<1> HIDE DEF v
<1>4. RunLen(Rows[v]) \in 0..SegCap  BY RunLenFact
<1>5. RunLen(Rows[v]) + 1 \in 1..(SegCap + 1)  BY <1>4, Sizes
<1>6. \A x \in ExpectAt(Rows, v + 1) : x \in Nat \ {0}  BY <1>1, <1>2, ExpectNumber
<1> QED  BY <1>1, <1>2, <1>3, <1>5, <1>6 DEF v

LEMMA RepairedRow ==
  ASSUME CardOK, NEW found, NEW c
  PROVE  Repaired(found, c) \in [Slots -> Row]
<1>1. \A s \in Slots : body[s] \in Row  BY DEF CardOK
<1>2. \A s \in Slots, i \in 1..SegCap : body[s][i] \in Rec /\ Void \in Rec
  BY <1>1, RecFacts DEF Row
<1> QED  BY <1>2 DEF Repaired, Row

LEMMA DownBase ==
  ASSUME Down, HistoryOK', CardOK', Near(hdr'), GoneFirst(hdr')
  PROVE  TypeInv' /\ RingOK'
<1>1. RamOK'
  <2>1. up' \in BOOLEAN /\ stopped' \in BOOLEAN /\ ~stopped' /\ pend' = <<>>  BY DEF Down
  <2>2. first' = 0 /\ last' = 0 /\ tail' = 0 /\ off' = 1 /\ next' = 1  BY DEF Down
  <2>3. /\ 0 \in 0..MaxIdx /\ 1 \in 1..(SegCap + 1) /\ 1 \in Nat \ {0} /\ ~(0 > 0)  BY Sizes
  <2> QED  BY <2>1, <2>2, <2>3 DEF RamOK
<1>2. PendOK'
  <2>1. pend' = <<>> /\ next' = 1  BY DEF Down
  <2>2. pend' \in Seq(Rec) /\ Len(pend') = 0  BY <2>1
  <2> QED  BY <2>1, <2>2, Sizes DEF PendOK
<1>3. JobOK'  BY DEF Down, JobOK
<1>4. RingOK'  BY DEF Down, RingOK
<1> QED  BY <1>1, <1>2, <1>3, <1>4 DEF TypeInv

LEMMA MishapBase ==
  ASSUME HistoryOK, NEW k, Mishap(k)
  PROVE  mishaps' \in 0..MaxMishaps
  BY Sizes DEF HistoryOK, Mishap

LEMMA OpenedBase ==
  ASSUME TypeInv, RingOK, Opened
  PROVE  /\ RamOK' /\ body' \in [Slots -> Row] /\ pend' = <<>>
         /\ tail' = 0 => LiveIn(hdr) = {}
         /\ tail' # 0 => Placed(hdr, first', last', tail')
<1>0. CardOK /\ Near(hdr)  BY DEF TypeInv, RingOK
<1>1. up' = TRUE /\ stopped' = FALSE /\ pend' = <<>>  BY DEF Opened
<1>2. CASE LiveSegs = {}
  <2>1. /\ first' = 0 /\ last' = 0 /\ tail' = 0 /\ off' = 1 /\ next' = 1 /\ body' = body
    BY <1>2 DEF Opened
  <2>2. /\ 0 \in 0..MaxIdx /\ 1 \in 1..(SegCap + 1) /\ 1 \in Nat \ {0} /\ ~(0 > 0)  BY Sizes
  <2>3. RamOK'  BY <1>1, <2>1, <2>2 DEF RamOK
  <2> QED  BY <1>0, <1>1, <1>2, <2>1, <2>3, CardNow DEF CardOK
<1>3. CASE LiveSegs # {}
  <2>1. LiveIn(hdr) # {}  BY <1>3, CardNow
  <2>2. /\ first' = Oldest /\ last' = Newest /\ tail' = Scan.tail /\ off' = Scan.off
        /\ next' \in IF Scan.expect = {} THEN {1} ELSE Scan.expect
        /\ body' = Repaired(Scan, AllCells)
    BY <1>3 DEF Opened
  <2>3. /\ Scan.tail \in Oldest..Newest /\ Scan.off \in 1..(SegCap + 1)
        /\ Scan.expect \subseteq Nat \ {0}
    BY <1>0, <2>1, ScanIs
  <2>4. /\ Oldest \in 1..MaxIdx /\ Newest \in Oldest..MaxIdx /\ Oldest \in LiveIn(hdr)
        /\ Newest \in LiveIn(hdr) /\ Oldest..Newest \subseteq LiveIn(hdr)
        /\ Oldest = OldestIn(hdr) /\ MaxIdx \in Nat
    BY <2>1, RangeFacts, CardNow, Sizes
  <2>5. next' \in Nat \ {0}  BY <2>2, <2>3
  <2>6. RamOK'
    <3>1. up' \in BOOLEAN /\ stopped' \in BOOLEAN /\ up'  BY <1>1
    <3>2. /\ first' \in 1..MaxIdx /\ last' \in 1..MaxIdx /\ tail' \in 1..MaxIdx
          /\ off' \in 1..(SegCap + 1) /\ first' <= tail' /\ tail' <= last'
      BY <2>2, <2>3, <2>4
    <3>3. /\ first' \in 0..MaxIdx /\ last' \in 0..MaxIdx /\ tail' \in 0..MaxIdx
          /\ tail' # 0 /\ 1 <= first'
      BY <3>2, Sizes
    <3> QED  BY <2>5, <3>1, <3>2, <3>3 DEF RamOK
  <2>7. Placed(hdr, first', last', tail')
    <3>1. Newest - Oldest < Ring  BY <1>0, <2>4 DEF Near
    <3> QED  BY <3>1, <2>2, <2>3, <2>4 DEF Placed
  <2>8. body' \in [Slots -> Row]  BY <2>2, <1>0, RepairedRow
  <2>9. tail' # 0  BY <2>2, <2>3, <2>4
  <2> QED  BY <1>1, <2>6, <2>7, <2>8, <2>9
<1> QED  BY <1>2, <1>3

LEMMA BaseOpen ==
  ASSUME TypeInv, RingOK, Open
  PROVE  TypeInv' /\ RingOK'
<1>1. /\ RamOK' /\ body' \in [Slots -> Row] /\ pend' = <<>>
      /\ tail' = 0 => LiveIn(hdr) = {}
      /\ tail' # 0 => Placed(hdr, first', last', tail')
  BY OpenedBase DEF Open
<1>2. CardOK'  BY <1>1 DEF TypeInv, CardOK, Open
<1>3. PendOK'
  <2>1. pend' \in Seq(Rec) /\ Len(pend') = 0 /\ next' \in Nat \ {0}  BY <1>1 DEF RamOK
  <2> QED  BY <2>1, Sizes DEF PendOK
<1>4. JobOK'  BY DEF TypeInv, JobOK, Open, Resting, job
<1>5. HistoryOK'  BY DEF TypeInv, HistoryOK, Open, history, Calm
<1>6. RingOK'  BY <1>1 DEF RingOK, Open
<1> QED  BY <1>1, <1>2, <1>3, <1>4, <1>5, <1>6 DEF TypeInv

LEMMA BaseDownSame ==
  ASSUME TypeInv, RingOK, OpenFails \/ OpenCut
  PROVE  TypeInv' /\ RingOK'
<1>1. Down /\ UNCHANGED <<hdr, ver, history>>
  BY DEF OpenFails, OpenCut, card
<1>2. CardOK'
  <2>1. CASE OpenFails  BY <2>1 DEF OpenFails, TypeInv, CardOK, card
  <2>2. CASE OpenCut
    <3>1. PICK c : body' = Repaired(Scan, c)  BY <2>2 DEF OpenCut
    <3>2. body' \in [Slots -> Row]  BY <3>1, RepairedRow DEF TypeInv
    <3> QED  BY <1>1, <3>2 DEF TypeInv, CardOK
  <2> QED  BY <2>1, <2>2
<1>3. HistoryOK'
  <2>1. mishaps' \in 0..MaxMishaps
    BY MishapBase DEF TypeInv, OpenFails, OpenCut
  <2> QED  BY <1>1, <2>1 DEF TypeInv, HistoryOK, history
<1> QED  BY <1>1, <1>2, <1>3, DownBase DEF RingOK

LEMMA RingSame ==
  ASSUME RingOK, UNCHANGED <<hdr, up, first, last, tail>>
  PROVE  RingOK'
  BY DEF RingOK

LEMMA BaseRecordStep ==
  ASSUME TypeInv, RingOK, RecordStep
  PROVE  TypeInv' /\ RingOK'
<1> DEFINE n == Len(pend)
           r == Record(next, made + 1, 0, 1)
<1>0. /\ pend \in Seq(Rec) /\ n \in Nat /\ n < next /\ next \in Nat \ {0} /\ n < PendMax
      /\ made \in Nat /\ made < MaxSteps /\ PendMax \in Nat /\ MaxSteps \in Nat
      /\ pend' = Append(pend, r) /\ next' = next + 1 /\ made' = made + 1
      /\ pc = "idle" /\ UNCHANGED <<card, up, first, last, tail, off, stopped, job,
                                    undone, acked, lossy, mishaps>>
      /\ up /\ ~stopped /\ tail # 0
  BY Sizes DEF TypeInv, PendOK, RamOK, HistoryOK, RecordStep, Resting, Recording
<1>1. r \in Rec  BY <1>0, RecFacts
<1> HIDE DEF r
<1>2. /\ pend' \in Seq(Rec) /\ Len(pend') = n + 1 /\ pend'[n + 1] = r
      /\ \A i \in 1..n : pend'[i] = pend[i]
  BY <1>0, <1>1
<1>3. \A i \in 1..n : /\ pend[i].step \in 1..made
                      /\ pend[i] = Record(next - n + i - 1, pend[i].step, 0, 1)
  BY DEF TypeInv, PendOK
<1>4. r.step = made + 1  BY RecordIs DEF r
<1> HIDE DEF n
<1>t. n \in Nat /\ made \in Nat /\ next \in Nat  BY <1>0
<1>5. next' - Len(pend') = next - n  BY <1>0, <1>2
<1>6. \A i \in 1..Len(pend') : /\ pend'[i].step \in 1..made'
                               /\ pend'[i] = Record(next' - Len(pend') + i - 1, pend'[i].step, 0, 1)
  <2> SUFFICES ASSUME NEW i \in 1..(n + 1)
               PROVE  /\ pend'[i].step \in 1..(made + 1)
                      /\ pend'[i] = Record(next - n + i - 1, pend'[i].step, 0, 1)
    BY <1>0, <1>2, <1>5
  <2>1. CASE i \in 1..n
    <3>1. pend'[i] = pend[i] /\ pend[i].step \in 1..made  BY <2>1, <1>2, <1>3
    <3>2. pend[i] = Record(next - n + i - 1, pend[i].step, 0, 1)  BY <2>1, <1>3
    <3> QED  BY <3>1, <3>2, <1>0
  <2>2. CASE i = n + 1
    <3>1. next - n + i - 1 = next  BY <2>2, <1>0
    <3>2. pend'[i] = r  BY <2>2, <1>2
    <3> QED  BY <3>1, <3>2, <1>4, <1>0 DEF r
  <2> QED  BY <2>1, <2>2, <1>t
<1>7. \A i, j \in 1..Len(pend') : i < j => pend'[i].step < pend'[j].step
  <2> SUFFICES ASSUME NEW i \in 1..(n + 1), NEW j \in 1..(n + 1), i < j
               PROVE  pend'[i].step < pend'[j].step
    BY <1>2
  <2>1. CASE j \in 1..n
    <3>1. i \in 1..n  BY <2>1, <1>0
    <3>2. \A x, y \in 1..n : x < y => pend[x].step < pend[y].step  BY DEF TypeInv, PendOK, n
    <3> QED  BY <3>1, <3>2, <2>1, <1>2
  <2>2. CASE j = n + 1
    <3>1. i \in 1..n  BY <2>2, <1>t
    <3>2. pend'[i].step \in 1..made /\ pend'[j].step = made + 1  BY <3>1, <2>2, <1>2, <1>3, <1>4
    <3> QED  BY <3>2, <1>t
  <2> QED  BY <2>1, <2>2, <1>t
<1>8. PendOK'
  <2>1. Len(pend') <= PendMax /\ Len(pend') < next'  BY <1>0, <1>2
  <2> QED  BY <2>1, <1>2, <1>6, <1>7 DEF PendOK
<1>9. CardOK' /\ RamOK'  BY <1>0 DEF TypeInv, CardOK, RamOK, card
<1>10. JobOK'  BY <1>0 DEF TypeInv, JobOK, job
<1>11. HistoryOK'  BY <1>0 DEF TypeInv, HistoryOK
<1>12. RingOK'  BY <1>0, RingSame DEF card
<1> QED  BY <1>8, <1>9, <1>10, <1>11, <1>12 DEF TypeInv

LEMMA FrontIs ==
  ASSUME NEW S, NEW s \in Seq(S), s # <<>>
  PROVE  /\ Front(s) \in Seq(S) /\ Len(s) \in Nat \ {0} /\ Len(Front(s)) = Len(s) - 1
         /\ \A i \in 1..(Len(s) - 1) : Front(s)[i] = s[i]
         /\ Last(s) = s[Len(s)]
<1> DEFINE n == Len(s)
           m == n - 1
<1>1. n \in Nat /\ n # 0 /\ m \in Nat /\ \A i \in 1..n : s[i] \in S  OBVIOUS
<1>2. \A i \in 1..m : s[i] \in S  BY <1>1
<1>3. Front(s) = [i \in 1..m |-> s[i]]  BY DEF Front
<1>4. Last(s) = s[n]  BY DEF Last
<1> HIDE DEF m
<1>5. Front(s) \in Seq(S) /\ Len(Front(s)) = m /\ \A i \in 1..m : Front(s)[i] = s[i]
  BY <1>1, <1>2, <1>3
<1> QED  BY <1>1, <1>4, <1>5 DEF m

LEMMA BaseTakeBack ==
  ASSUME TypeInv, RingOK, TakeBack
  PROVE  TypeInv' /\ RingOK'
<1> DEFINE n == Len(pend)
<1>0. /\ pend \in Seq(Rec) /\ n \in Nat /\ n < next /\ next \in Nat \ {0} /\ n <= PendMax
      /\ made \in Nat /\ PendMax \in Nat
      /\ pend' = Front(pend) /\ next' = next - 1 /\ made' = made
      /\ undone' = undone \cup {Last(pend).step}
      /\ pc = "idle" /\ UNCHANGED <<card, up, first, last, tail, off, stopped, job,
                                    acked, lossy, mishaps>>
      /\ up /\ ~stopped /\ tail # 0 /\ pend # <<>>
  BY Sizes DEF TypeInv, PendOK, RamOK, HistoryOK, TakeBack, Resting, Recording
<1>1. n # 0  BY <1>0
<1>2. /\ pend' \in Seq(Rec) /\ Len(pend') = n - 1
      /\ \A i \in 1..(n - 1) : pend'[i] = pend[i]
  BY <1>0, FrontIs
<1>3. \A i \in 1..n : /\ pend[i].step \in 1..made
                      /\ pend[i] = Record(next - n + i - 1, pend[i].step, 0, 1)
  BY DEF TypeInv, PendOK
<1>4. \A x, y \in 1..n : x < y => pend[x].step < pend[y].step  BY DEF TypeInv, PendOK
<1> HIDE DEF n
<1>t. n \in Nat /\ made \in Nat /\ next \in Nat  BY <1>0
<1>5. next' - Len(pend') = next - n  BY <1>0, <1>2
<1>6. \A i \in 1..Len(pend') : /\ pend'[i].step \in 1..made'
                               /\ pend'[i] = Record(next' - Len(pend') + i - 1, pend'[i].step, 0, 1)
  <2> SUFFICES ASSUME NEW i \in 1..(n - 1)
               PROVE  /\ pend'[i].step \in 1..made
                      /\ pend'[i] = Record(next - n + i - 1, pend'[i].step, 0, 1)
    BY <1>0, <1>2, <1>5
  <2>1. i \in 1..n  BY <1>0
  <2>2. pend'[i] = pend[i] /\ pend[i].step \in 1..made  BY <2>1, <1>2, <1>3
  <2>3. pend[i] = Record(next - n + i - 1, pend[i].step, 0, 1)  BY <2>1, <1>3
  <2> QED  BY <2>2, <2>3
<1>7. \A i, j \in 1..Len(pend') : i < j => pend'[i].step < pend'[j].step
  <2>1. \A i \in 1..Len(pend') : i \in 1..n /\ pend'[i] = pend[i]  BY <1>0, <1>2
  <2> QED  BY <2>1, <1>4
<1>8. PendOK'
  <2>1. Len(pend') <= PendMax /\ Len(pend') < next'  BY <1>0, <1>2
  <2> QED  BY <2>1, <1>2, <1>6, <1>7 DEF PendOK
<1>9. CardOK' /\ RamOK'
  <2>1. next' \in Nat \ {0}  BY <1>0, <1>1
  <2> QED  BY <1>0, <2>1 DEF TypeInv, CardOK, RamOK, card
<1>10. JobOK'  BY <1>0 DEF TypeInv, JobOK, job
<1>11. HistoryOK'
  <2>1. Last(pend).step \in 1..made
    <3>1. Last(pend) = pend[n] /\ n \in 1..n  BY <1>0, <1>1 DEF n, Last
    <3> QED  BY <3>1, <1>3
  <2> QED  BY <2>1, <1>0 DEF TypeInv, HistoryOK
<1>12. RingOK'  BY <1>0, RingSame DEF card
<1> QED  BY <1>8, <1>9, <1>10, <1>11, <1>12 DEF TypeInv

LEMMA CardSame ==
  ASSUME TypeInv, UNCHANGED card PROVE CardOK'
  BY DEF TypeInv, CardOK, card

LEMMA JobsSame ==
  ASSUME NEW p, IsJob(p), UNCHANGED <<ver, ram, made>>
  PROVE  IsJob(p)'
<1>1. UNCHANGED <<ver, pend, tail, last, off, next, made>>  BY DEF ram
<1>2. /\ FlushPlan' = FlushPlan /\ (Fits <=> Fits') /\ (ToTail <=> ToTail') /\ (ToSpare <=> ToSpare')
      /\ ChainJob(tail, off)' = ChainJob(tail, off)
      /\ ChainJob(tail + 1, 1)' = ChainJob(tail + 1, 1)
  BY <1>1 DEF FlushPlan, Fits, Room, ToTail, ToSpare, ChainJob
<1> QED  BY <1>1, <1>2 DEF IsJob

LEMMA BaseFlush ==
  ASSUME TypeInv, RingOK, Flush
  PROVE  TypeInv' /\ RingOK'
<1>0. /\ UNCHANGED <<card, ram, made, undone, acked, mishaps>>
      /\ todo' = FlushPlan /\ left' = Len(FlushPlan) /\ pc' = "write" /\ lossy' = FALSE
      /\ up /\ ~stopped /\ tail # 0 /\ pend # <<>> /\ Fits
  BY DEF Flush, Begin, Recording
<1>1. Len(FlushPlan) \in Nat /\ Len(FlushPlan) >= 1
  <2>1. PICK a \in Nat, b \in Nat :
           /\ PlanOf(FlushPlan, tail, off, a, b, next - Len(pend))
           /\ b > 0 => tail < last /\ off > 1
           /\ Len(FlushPlan) = Len(pend)
           /\ \A k \in 1..Len(pend) : FlushPlan[k].rec = pend[k]
    BY <1>0, PlanFlush
  <2>2. Len(FlushPlan) = a + b /\ a + b >= 1  BY <2>1 DEF PlanOf
  <2> QED  BY <2>2
<1>2. IsJob(FlushPlan)  BY <1>0 DEF IsJob
<1>3. UNCHANGED <<ver, ram, made>>  BY <1>0 DEF card
<1>4. IsJob(FlushPlan)'  BY <1>2, <1>3, JobsSame DEF FlushPlan, IsJob, ram
<1>5. JobOK'
  <2>1. left' \in 1..Len(todo')  BY <1>0, <1>1
  <2>2. FlushPlan' = FlushPlan  BY <1>0 DEF FlushPlan, Room, ram
  <2>3. IsJob(todo)'  BY <1>0, <2>2, <1>4 DEF IsJob, Fits, Room, ram
  <2> QED  BY <1>0, <2>1, <2>3 DEF JobOK, ram
<1>6. CardOK'  BY <1>0, CardSame
<1>7. RamOK' /\ PendOK'  BY <1>0 DEF TypeInv, RamOK, PendOK, ram
<1>8. HistoryOK'  BY <1>0 DEF TypeInv, HistoryOK
<1>9. RingOK'  BY <1>0, RingSame DEF card, ram
<1> QED  BY <1>5, <1>6, <1>7, <1>8, <1>9 DEF TypeInv

\* The header of a segment that is live says so as it did.
LEMMA ReheadSame ==
  ASSUME CardOK, NEW x \in LiveIn(hdr)
  PROVE  [hdr EXCEPT ![SlotOf(x)] = x] = hdr
  BY DEF CardOK, LiveIn

LEMMA SpareLive ==
  ASSUME TypeInv, RingOK, tail # 0, tail < last
  PROVE  tail + 1 \in LiveIn(hdr) /\ SlotOf(tail + 1) \in Slots
<1>1. Placed(hdr, first, last, tail) /\ tail \in Nat /\ last \in Nat
  BY Sizes DEF RingOK, TypeInv, RamOK
<1>2. tail + 1 \in (first + 1)..last  BY <1>1, Sizes DEF Placed
<1>3. tail + 1 \in LiveIn(hdr)  BY <1>1, <1>2 DEF Placed
<1> QED  BY <1>1, <1>3, SlotIn

LEMMA BaseChain ==
  ASSUME TypeInv, RingOK, Chain
  PROVE  TypeInv' /\ RingOK'
<1>0. /\ pc = "idle" /\ up /\ ~stopped /\ tail # 0 /\ pend = <<>> /\ made < MaxSteps
      /\ made' = made + 1 /\ Calm
      /\ UNCHANGED <<body, ram, undone, acked>>
  BY DEF Chain, MayChain, Recording
<1>1. /\ made \in Nat /\ MaxSteps \in Nat /\ tail \in Nat /\ last \in Nat
      /\ off \in 1..(SegCap + 1) /\ ChainLen \in Nat /\ ChainLen >= 2 /\ ChainLen <= SegCap
      /\ SegCap \in Nat
  BY Sizes DEF TypeInv, HistoryOK, RamOK
<1>2. \A x, y : ChainPlan(x, y) = ChainJob(x, y)'
  BY <1>0 DEF ChainPlan, ChainJob, ram
<1>3. /\ hdr' = hdr /\ ver' \in [Slots -> 1..2]
      /\ \/ todo' = ChainJob(tail, off)' /\ ToTail'
         \/ todo' = ChainJob(tail + 1, 1)' /\ ToSpare'
      /\ left' = Len(todo') /\ pc' = "write" /\ lossy' = FALSE
      /\ todo' = ChainJob(tail, off)' => off + ChainLen <= SegCap + 1
  <2>1. CASE ToTail /\ Begin(ChainPlan(tail, off)) /\ UNCHANGED <<hdr, ver>>
    <3>1. ToTail'  BY <2>1, <1>0 DEF ToTail, Room, ram
    <3>2. off + ChainLen <= SegCap + 1  BY <2>1, <1>1 DEF ToTail, Room
    <3>3. todo' = ChainPlan(tail, off) /\ left' = Len(todo') /\ pc' = "write" /\ lossy' = FALSE
      BY <2>1 DEF Begin
    <3>4. todo' = ChainJob(tail, off)'
      BY <3>3, <1>0 DEF ChainPlan, ChainJob, ram
    <3>5. hdr' = hdr /\ ver' \in [Slots -> 1..2]  BY <2>1 DEF TypeInv, CardOK
    <3> QED  BY <3>1, <3>2, <3>3, <3>4, <3>5
  <2>2. CASE ~ToTail /\ tail < last /\ Begin(ChainPlan(tail + 1, 1)) /\ Rehead(tail + 1, 2)
    <3>1. tail + 1 \in LiveIn(hdr) /\ SlotOf(tail + 1) \in Slots  BY <2>2, <1>0, SpareLive
    <3>2. hdr' = hdr  BY <2>2, <3>1, ReheadSame DEF Rehead, TypeInv
    <3>3. ver' = [ver EXCEPT ![SlotOf(tail + 1)] = 2]  BY <2>2 DEF Rehead
    <3>4. ver' \in [Slots -> 1..2] /\ ver'[SlotOf(tail + 1)] = 2
      BY <3>1, <3>3 DEF TypeInv, CardOK
    <3>5. todo' = ChainPlan(tail + 1, 1) /\ left' = Len(todo') /\ pc' = "write" /\ lossy' = FALSE
      BY <2>2 DEF Begin
    <3>6. todo' = ChainJob(tail + 1, 1)'
      BY <3>5, <1>0 DEF ChainPlan, ChainJob, ram
    <3>7. ~ToTail'
      <4>1. SlotOf(tail) # SlotOf(tail + 1)
        <5>1. tail \in LiveIn(hdr)  BY <1>0 DEF RingOK, Placed
        <5> QED  BY <3>1, <5>1, <1>1, SlotOwn
      <4>2. ver'[SlotOf(tail)] = ver[SlotOf(tail)]  BY <3>3, <4>1 DEF TypeInv, CardOK
      <4> QED  BY <2>2, <4>2, <1>0 DEF ToTail, Room, ram
    <3>8. ToSpare'
      <4>1. tail' = tail /\ last' = last  BY <1>0 DEF ram
      <4> QED  BY <2>2, <3>4, <3>7, <4>1 DEF ToSpare
    <3>9. todo' = ChainJob(tail, off)' => off + ChainLen <= SegCap + 1
      <4> SUFFICES ASSUME todo' = ChainJob(tail, off)' PROVE FALSE
        OBVIOUS
      <4>1. tail' = tail /\ off' = off  BY <1>0 DEF ram
      <4>2. 1 \in 1..ChainLen  BY <1>1
      <4>3. todo'[1].seg = tail + 1
        <5>1. todo'[1] = Put(tail + 1, 1 + 1 - 1, Record(next + 1 - 1, made + 1, 1 - 1, IF 1 = 1 THEN ChainLen ELSE 0))
          BY <3>5, <4>2 DEF ChainPlan
        <5> QED  BY <5>1, PutIs
      <4>4. todo'[1].seg = tail
        <5>1. ChainJob(tail, off)'[1] = Put(tail', off' + 1 - 1, Record(next' + 1 - 1, made', 1 - 1, IF 1 = 1 THEN ChainLen ELSE 0))
          BY <4>2 DEF ChainJob
        <5>2. ChainJob(tail, off)'[1].seg = tail'  BY <5>1, PutIs
        <5> QED  BY <5>2, <4>1
      <4> QED  BY <4>3, <4>4, <1>1
    <3> QED  BY <3>2, <3>4, <3>5, <3>6, <3>8, <3>9
  <2> QED  BY <2>1, <2>2 DEF Chain
<1>4. CardOK'  BY <1>0, <1>3 DEF TypeInv, CardOK
<1>5. RamOK' /\ PendOK'
  <2>1. RamOK'  BY <1>0 DEF TypeInv, RamOK, ram
  <2>2. pend' = <<>> /\ next' = next /\ Len(<<>>) = 0 /\ <<>> \in Seq(Rec)  BY <1>0 DEF ram
  <2> QED  BY <2>1, <2>2, Sizes DEF TypeInv, RamOK, PendOK
<1>6. HistoryOK'
  <2>1. made' \in 0..MaxSteps  BY <1>0, <1>1
  <2>2. 1..made \subseteq 1..made'  BY <1>0, <1>1
  <2>3. UNCHANGED <<undone, acked, mishaps>> /\ lossy' = FALSE  BY <1>0, <1>3 DEF Calm
  <2> QED  BY <2>1, <2>2, <2>3 DEF TypeInv, HistoryOK
<1>7. IsJob(todo)'
  <2>1. pend' = <<>> /\ made' >= 1  BY <1>0, <1>1 DEF ram
  <2> QED  BY <2>1, <1>3 DEF IsJob
<1>8. Len(todo') = ChainLen
  <2>1. \A x, y : Len(ChainPlan(x, y)) = ChainLen  BY <1>1 DEF ChainPlan
  <2>2. todo' = ChainPlan(tail, off) \/ todo' = ChainPlan(tail + 1, 1)
    BY DEF Chain, Begin
  <2> QED  BY <2>1, <2>2
<1>9. JobOK'
  <2>1. left' \in 1..Len(todo')  BY <1>1, <1>3, <1>8
  <2>2. tail' # 0 /\ ~stopped'  BY <1>0 DEF ram
  <2> QED  BY <1>3, <1>7, <2>1, <2>2 DEF JobOK
<1>10. RingOK'  BY <1>0, <1>3, RingSame DEF ram
<1> QED  BY <1>4, <1>5, <1>6, <1>9, <1>10 DEF TypeInv

LEMMA PlacedShrink ==
  ASSUME NEW h, NEW f, NEW l, NEW t, Placed(h, f, l, t)
  PROVE  /\ Placed(h, f, t, t)
         /\ t < l => Placed(h, f, l, t + 1)
<1>1. /\ f \in 1..MaxIdx /\ l \in 1..MaxIdx /\ t \in LiveIn(h) /\ t \in 1..MaxIdx
      /\ f <= t /\ t <= l /\ l - f < Ring /\ f <= OldestIn(h)
      /\ (f + 1)..l \subseteq LiveIn(h)
      /\ f \in LiveIn(h) \/ (h[SlotOf(f)] = Free /\ f < t)
      /\ Ring \in Nat
  BY Sizes DEF Placed, LiveIn
<1>2. (f + 1)..t \subseteq LiveIn(h) /\ t - f < Ring /\ t <= t  BY <1>1
<1>3. t < l => t + 1 \in LiveIn(h) /\ f <= t + 1 /\ t + 1 <= l /\ f < t + 1
  BY <1>1
<1> QED  BY <1>1, <1>2, <1>3 DEF Placed

LEMMA RingDown ==
  ASSUME TypeInv, RingOK, UNCHANGED hdr PROVE Near(hdr') /\ GoneFirst(hdr')
  BY DEF RingOK

\* What the rewrite of a spare's header may leave.
LEMMA ReheadBase ==
  ASSUME TypeInv, RingOK, tail # 0, tail < last,
         \E v \in 1..2 : Rehead(tail + 1, v) \/ Rehead(Free, v)
  PROVE  /\ hdr' \in [Slots -> 0..Gone] /\ ver' \in [Slots -> 1..2]
         /\ Near(hdr') /\ GoneFirst(hdr') /\ Placed(hdr', first, tail, tail)
<1>0. /\ Placed(hdr, first, last, tail) /\ Near(hdr) /\ GoneFirst(hdr)
      /\ hdr \in [Slots -> 0..Gone] /\ ver \in [Slots -> 1..2] /\ CardOK
  BY DEF TypeInv, CardOK, RingOK
<1>1. tail + 1 \in LiveIn(hdr) /\ SlotOf(tail + 1) \in Slots  BY SpareLive
<1>2. PICK v \in 1..2 : Rehead(tail + 1, v) \/ Rehead(Free, v)  OBVIOUS
<1>3. ver' \in [Slots -> 1..2]  BY <1>0, <1>1, <1>2 DEF Rehead
<1>4. CASE Rehead(tail + 1, v)
  <2>1. hdr' = hdr  BY <1>4, <1>0, <1>1, ReheadSame DEF Rehead
  <2> QED  BY <2>1, <1>0, <1>3, PlacedShrink
<1>5. CASE Rehead(Free, v)
  <2>1. hdr' = [hdr EXCEPT ![SlotOf(tail + 1)] = Free]  BY <1>5 DEF Rehead
  <2>2. LET g == [hdr EXCEPT ![SlotOf(tail + 1)] = Free]
        IN  /\ g \in [Slots -> 0..Gone] /\ LiveIn(g) = LiveIn(hdr) \ {tail + 1}
            /\ Near(g) /\ GoneFirst(g) /\ Placed(g, first, tail, tail)
    BY <1>0, DropRing
  <2> QED  BY <2>1, <2>2, <1>3
<1> QED  BY <1>2, <1>4, <1>5

LEMMA BaseReheadFails ==
  ASSUME TypeInv, RingOK, ReheadFails
  PROVE  TypeInv' /\ RingOK'
<1>0. /\ pc = "idle" /\ up /\ tail # 0 /\ tail < last /\ last' = tail
      /\ UNCHANGED <<body, up, first, tail, off, next, pend, stopped, history, job>>
  BY DEF ReheadFails, MayChain, Recording, Resting
<1>1. \E v \in 1..2 : Rehead(tail + 1, v) \/ Rehead(Free, v)
  <2>1. \/ Rehead(tail + 1, 1) \/ Rehead(Free, 1) \/ Rehead(tail + 1, 2)
    BY DEF ReheadFails
  <2> QED  BY <2>1
<1>2. /\ hdr' \in [Slots -> 0..Gone] /\ ver' \in [Slots -> 1..2]
      /\ Near(hdr') /\ GoneFirst(hdr') /\ Placed(hdr', first, tail, tail)
  BY <1>0, <1>1, ReheadBase
<1>3. CardOK'  BY <1>0, <1>2 DEF TypeInv, CardOK
<1>4. RamOK'
  <2>1. tail \in 1..MaxIdx  BY <1>0, Sizes DEF TypeInv, RamOK
  <2> QED  BY <1>0, <2>1, Sizes DEF TypeInv, RamOK
<1>5. PendOK'  BY <1>0 DEF TypeInv, PendOK, history
<1>6. JobOK'  BY <1>0 DEF TypeInv, JobOK, job
<1>7. HistoryOK'
  <2>1. mishaps' \in 0..MaxMishaps
    BY MishapBase DEF TypeInv, ReheadFails
  <2> QED  BY <1>0, <2>1 DEF TypeInv, HistoryOK, history
<1>8. RingOK'  BY <1>0, <1>2 DEF RingOK
<1> QED  BY <1>3, <1>4, <1>5, <1>6, <1>7, <1>8 DEF TypeInv

LEMMA BaseReheadCut ==
  ASSUME TypeInv, RingOK, ReheadCut
  PROVE  TypeInv' /\ RingOK'
<1>0. /\ tail # 0 /\ tail < last /\ UNCHANGED <<body, history>> /\ Down
  BY DEF ReheadCut, MayChain, Recording
<1>1. \E v \in 1..2 : Rehead(tail + 1, v) \/ Rehead(Free, v)
  <2>1. Rehead(Free, 1) \/ Rehead(tail + 1, 2)  BY DEF ReheadCut
  <2> QED  BY <2>1
<1>2. /\ hdr' \in [Slots -> 0..Gone] /\ ver' \in [Slots -> 1..2]
      /\ Near(hdr') /\ GoneFirst(hdr')
  BY <1>0, <1>1, ReheadBase
<1>3. CardOK'  BY <1>0, <1>2 DEF TypeInv, CardOK
<1>4. HistoryOK'
  <2>1. mishaps' \in 0..MaxMishaps
    BY MishapBase DEF TypeInv, ReheadCut
  <2> QED  BY <1>0, <2>1 DEF TypeInv, HistoryOK, history
<1> QED  BY <1>0, <1>2, <1>3, <1>4, DownBase

LEMMA LandsRow ==
  ASSUME TypeInv, NEW p \in Puts, NEW c \in Rec, Lands(p, c)
  PROVE  body' \in [Slots -> Row]
<1>1. body \in [Slots -> Row] /\ p.at \in 1..SegCap  BY DEF TypeInv, CardOK, Puts
<1>2. CASE SlotOf(p.seg) \in Slots
  <2>1. [body[SlotOf(p.seg)] EXCEPT ![p.at] = c] \in Row  BY <1>1, <1>2 DEF Row
  <2> QED  BY <1>1, <1>2, <2>1 DEF Lands
<1>3. CASE SlotOf(p.seg) \notin Slots
  <2>1. body' = body  BY <1>1, <1>3 DEF Lands
  <2> QED  BY <1>1, <2>1
<1> QED  BY <1>2, <1>3

\* What a job writes next, and what becomes of its cell.
LEMMA JobPut ==
  ASSUME TypeInv, RingOK, pc = "write"
  PROVE  /\ todo[left] \in Puts /\ left \in 1..Len(todo) /\ tail # 0 /\ ~stopped /\ up
         /\ Cells(todo[left].seg)[todo[left].at] \in Rec
         /\ todo[left].seg \in LiveIn(hdr) /\ todo[left].rec \in Rec
<1>0. /\ IsJob(todo) /\ tail # 0 /\ ~stopped /\ left \in 1..Len(todo)
      /\ Placed(hdr, first, last, tail) /\ tail \in Nat /\ last \in Nat /\ up
  BY Sizes DEF TypeInv, JobOK, RingOK, RamOK
<1>1. PICK a \in Nat, b \in Nat :
           /\ PlanOf(todo, tail, off, a, b, next - Len(pend))
           /\ b > 0 => tail < last
  BY <1>0, JobIs
<1>2. left \in 1..(a + b) /\ todo[left] \in Puts  BY <1>0, <1>1 DEF PlanOf
<1>3. todo[left].seg \in LiveIn(hdr)
  <2>1. CASE left <= a
    <3>1. todo[left].seg = tail  BY <2>1, <1>1, <1>2 DEF PlanOf
    <3> QED  BY <3>1, <1>0 DEF Placed
  <2>2. CASE left > a
    <3>1. left - a \in 1..b /\ a + (left - a) = left /\ b > 0  BY <2>2, <1>2
    <3>2. todo[left].seg = tail + 1
      <4> DEFINE k == left - a
      <4>1. k \in 1..b /\ left = a + k  BY <3>1
      <4> HIDE DEF k
      <4>2. todo[a + k].seg = tail + 1  BY <4>1, <1>1 DEF PlanOf
      <4> QED  BY <4>1, <4>2
    <3> QED  BY <3>1, <3>2, <1>1, <1>0, SpareLive
  <2> QED  BY <2>1, <2>2, <1>2
<1>4. Cells(todo[left].seg)[todo[left].at] \in Rec
  <2>1. SlotOf(todo[left].seg) \in Slots
    <3>1. todo[left].seg \in Nat \ {0}  BY <1>3 DEF LiveIn
    <3> QED  BY <3>1, SlotIn
  <2>2. body[SlotOf(todo[left].seg)] \in Row  BY <2>1 DEF TypeInv, CardOK
  <2>3. todo[left].at \in 1..SegCap  BY <1>2 DEF Puts
  <2> QED  BY <2>2, <2>3 DEF Row, Cells
<1> QED  BY <1>0, <1>2, <1>3, <1>4 DEF Puts

LEMMA BaseWrite ==
  ASSUME TypeInv, RingOK, WriteNext \/ WriteLost
  PROVE  TypeInv' /\ RingOK'
<1>0. /\ pc = "write" /\ left' = left - 1 /\ pc' = IF left = 1 THEN "verify" ELSE "write"
      /\ UNCHANGED <<hdr, ver, ram, todo, made, undone, acked>>
  BY DEF WriteNext, WriteLost, history
<1>1. PICK c \in Rec : Lands(todo[left], c)
  BY <1>0, JobPut, RecFacts DEF WriteNext, WriteLost
<1>2. CardOK'
  <2>1. body' \in [Slots -> Row]  BY <1>0, <1>1, JobPut, LandsRow
  <2> QED  BY <1>0, <2>1 DEF TypeInv, CardOK
<1>3. RamOK' /\ PendOK'  BY <1>0 DEF TypeInv, RamOK, PendOK, ram
<1>4. IsJob(todo)'
  <2>1. IsJob(todo)  BY <1>0 DEF TypeInv, JobOK
  <2> QED  BY <1>0, <2>1, JobsSame DEF IsJob, FlushPlan, ChainJob, Fits, Room, ToTail, ToSpare, ram
<1>5. JobOK'
  <2>1. left \in 1..Len(todo) /\ tail # 0 /\ ~stopped  BY <1>0, JobPut
  <2>2. CASE left = 1
    <3>1. left' = 0 /\ pc' = "verify"  BY <2>2, <1>0
    <3> QED  BY <3>1, <2>1, <1>0, <1>4 DEF JobOK, ram
  <2>3. CASE left # 1
    <3>1. left' \in 1..Len(todo') /\ pc' = "write"  BY <2>1, <2>3, <1>0
    <3> QED  BY <3>1, <2>1, <1>0, <1>4 DEF JobOK, ram
  <2> QED  BY <2>2, <2>3
<1>6. HistoryOK'
  <2>1. CASE WriteNext  BY <2>1 DEF WriteNext, TypeInv, HistoryOK, history
  <2>2. CASE WriteLost
    <3>1. mishaps' \in 0..MaxMishaps  BY <2>2, MishapBase DEF TypeInv, WriteLost
    <3>2. lossy' = TRUE /\ UNCHANGED <<made, undone, acked>>  BY <2>2 DEF WriteLost
    <3> QED  BY <3>1, <3>2 DEF TypeInv, HistoryOK
  <2> QED  BY <2>1, <2>2
<1>7. RingOK'  BY <1>0, RingSame DEF ram
<1> QED  BY <1>2, <1>3, <1>5, <1>6, <1>7 DEF TypeInv

LEMMA BaseWriteFails ==
  ASSUME TypeInv, RingOK, WriteFails
  PROVE  TypeInv' /\ RingOK'
<1>0. /\ pc = "write" /\ pc' = "idle" /\ todo' = <<>> /\ left' = 0 /\ stopped' = TRUE
      /\ UNCHANGED <<hdr, ver, up, first, last, tail, off, next, pend, history>>
  BY DEF WriteFails, JobOver
<1>1. PICK c \in Rec : Lands(todo[left], c)
  BY <1>0, JobPut, RecFacts DEF WriteFails, Torn
<1>2. CardOK'
  <2>1. body' \in [Slots -> Row]  BY <1>0, <1>1, JobPut, LandsRow
  <2> QED  BY <1>0, <2>1 DEF TypeInv, CardOK
<1>3. RamOK' /\ PendOK'
  <2>1. tail # 0  BY <1>0, JobPut
  <2> QED  BY <2>1, <1>0 DEF TypeInv, RamOK, PendOK, history
<1>4. JobOK'  BY <1>0 DEF JobOK
<1>5. HistoryOK'
  <2>1. mishaps' \in 0..MaxMishaps  BY MishapBase DEF TypeInv, WriteFails
  <2> QED  BY <2>1, <1>0 DEF TypeInv, HistoryOK, history
<1>6. RingOK'  BY <1>0, RingSame
<1> QED  BY <1>2, <1>3, <1>4, <1>5, <1>6 DEF TypeInv

LEMMA BaseCrash ==
  ASSUME TypeInv, RingOK, Crash
  PROVE  TypeInv' /\ RingOK'
<1>0. Down /\ UNCHANGED <<hdr, ver, history>>  BY DEF Crash
<1>1. CardOK'
  <2>1. CASE pc = "write"
    <3>1. PICK c \in Rec : Lands(todo[left], c)
      BY <2>1, JobPut, RecFacts DEF Crash, Torn
    <3>2. body' \in [Slots -> Row]  BY <2>1, <3>1, JobPut, LandsRow
    <3> QED  BY <1>0, <3>2 DEF TypeInv, CardOK
  <2>2. CASE pc # "write"
    <3>1. body' = body  BY <2>2 DEF Crash
    <3> QED  BY <1>0, <3>1 DEF TypeInv, CardOK
  <2> QED  BY <2>1, <2>2
<1>2. HistoryOK'
  <2>1. mishaps' \in 0..MaxMishaps  BY MishapBase DEF TypeInv, Crash
  <2> QED  BY <2>1, <1>0 DEF TypeInv, HistoryOK, history
<1> QED  BY <1>0, <1>1, <1>2, RingDown, DownBase

\* The end of a batch.
LEMMA PlanEnd ==
  ASSUME NEW p, NEW T \in Nat, NEW O \in 1..(SegCap + 1), NEW a, NEW b, NEW q,
         PlanOf(p, T, O, a, b, q)
  PROVE  /\ Last(p) = p[a + b] /\ a + b \in 1..(a + b)
         /\ b = 0 => Last(p).seg = T /\ Last(p).at = O + a - 1
         /\ b > 0 => Last(p).seg = T + 1 /\ Last(p).at = b
         /\ Last(p).at \in 1..SegCap
         /\ Last(p).rec.seq = q + (a + b) - 1
<1>1. /\ a \in Nat /\ b \in Nat /\ a + b >= 1 /\ Len(p) = a + b
      /\ p \in [1..(a + b) -> Puts]
      /\ \A k \in 1..a : p[k].seg = T /\ p[k].at = O + k - 1
      /\ \A k \in 1..b : p[a + k].seg = T + 1 /\ p[a + k].at = k
      /\ \A k \in 1..(a + b) : p[k].rec.seq = q + k - 1
  BY DEF PlanOf
<1>2. a + b \in 1..(a + b)  BY <1>1
<1>3. Last(p) = p[a + b]  BY <1>1 DEF Last
<1>4. ASSUME b = 0 PROVE Last(p).seg = T /\ Last(p).at = O + a - 1
  <2>1. a + b = a /\ a \in 1..a  BY <1>1, <1>4
  <2> QED  BY <2>1, <1>1, <1>3
<1>5. ASSUME b > 0 PROVE Last(p).seg = T + 1 /\ Last(p).at = b
  <2>1. b \in 1..b  BY <1>1, <1>5
  <2> QED  BY <2>1, <1>1, <1>3
<1>6. Last(p).at \in 1..SegCap
  <2>1. p[a + b] \in Puts  BY <1>1, <1>2
  <2> QED  BY <2>1, <1>3 DEF Puts
<1> QED  BY <1>1, <1>2, <1>3, <1>4, <1>5, <1>6

LEMMA BaseVerified ==
  ASSUME TypeInv, RingOK, Verified
  PROVE  TypeInv' /\ RingOK'
<1>0. /\ pc = "verify" /\ pc' = "idle" /\ todo' = <<>> /\ left' = 0 /\ pend' = <<>>
      /\ tail' = Last(todo).seg /\ off' = Last(todo).at + 1
      /\ next' = Last(todo).rec.seq + 1
      /\ acked' = acked \cup {todo[i].rec.step : i \in 1..Len(todo)}
      /\ UNCHANGED <<card, up, first, last, stopped, made, undone, lossy, mishaps>>
  BY DEF Verified, JobOver
<1>1. /\ IsJob(todo) /\ tail # 0 /\ ~stopped /\ Placed(hdr, first, last, tail)
      /\ tail \in 1..MaxIdx /\ last \in 1..MaxIdx /\ first \in 1..MaxIdx
      /\ off \in 1..(SegCap + 1) /\ MaxIdx \in Nat /\ first <= tail /\ tail <= last
  BY <1>0, Sizes DEF TypeInv, JobOK, RingOK, RamOK, Placed
<1>2. PICK a \in Nat, b \in Nat :
           /\ PlanOf(todo, tail, off, a, b, next - Len(pend))
           /\ b > 0 => tail < last
           /\ \A k \in 1..(a + b) : todo[k].rec.step \in 1..made
  BY <1>1, JobIs
<1>3. /\ b = 0 => Last(todo).seg = tail
      /\ b > 0 => Last(todo).seg = tail + 1
      /\ Last(todo).at \in 1..SegCap
      /\ Last(todo).rec.seq = next - Len(pend) + (a + b) - 1
  <2>1. tail \in Nat  BY <1>1
  <2> QED  BY <2>1, <1>1, <1>2, PlanEnd
<1>4. CardOK'  BY <1>0, CardSame
<1>5. /\ tail' \in 1..MaxIdx /\ first <= tail' /\ tail' <= last
      /\ Placed(hdr, first, last, tail')
  <2>0. tail' = Last(todo).seg  BY <1>0
  <2>1. CASE b = 0
    <3>1. tail' = tail  BY <2>0, <2>1, <1>3
    <3> QED  BY <3>1, <1>1
  <2>2. CASE b > 0
    <3>1. tail' = tail + 1 /\ tail < last  BY <2>0, <2>2, <1>2, <1>3
    <3>2. Placed(hdr, first, last, tail + 1)  BY <3>1, <1>1, PlacedShrink
    <3> QED  BY <3>1, <3>2, <1>1
  <2> QED  BY <2>1, <2>2
<1>6. off' \in 1..(SegCap + 1)
  <2>1. off' = Last(todo).at + 1 /\ Last(todo).at \in 1..SegCap /\ SegCap \in Nat
    BY <1>0, <1>3, Sizes
  <2> DEFINE x == Last(todo).at
  <2> HIDE DEF x
  <2>2. off' = x + 1 /\ x \in 1..SegCap  BY <2>1 DEF x
  <2> QED  BY <2>1, <2>2
<1>7. next' \in Nat \ {0}
  <2>1. a + b >= 1 /\ next - Len(pend) \in Nat \ {0}  BY <1>2 DEF PlanOf
  <2> DEFINE q == next - Len(pend)
  <2> HIDE DEF q
  <2>2. q \in Nat \ {0} /\ next' = q + (a + b) - 1 + 1  BY <2>1, <1>0, <1>3 DEF q
  <2> QED  BY <2>1, <2>2
<1>8. RamOK'
  <2>1. up' \in BOOLEAN /\ stopped' \in BOOLEAN /\ ~stopped' /\ (~up' => tail' = 0)
    BY <1>0, <1>1 DEF TypeInv, RamOK
  <2>2. first' \in 1..MaxIdx /\ last' \in 1..MaxIdx /\ 1..MaxIdx \subseteq 0..MaxIdx /\ 0 \notin 1..MaxIdx
    BY <1>0, <1>1
  <2>3. 1 <= first' /\ first' <= tail' /\ tail' <= last'  BY <2>2, <1>0, <1>1, <1>5
  <2> QED  BY <2>1, <2>2, <2>3, <1>5, <1>6, <1>7, <1>0 DEF RamOK
<1>9. PendOK'
  <2>1. pend' \in Seq(Rec) /\ Len(pend') = 0  BY <1>0
  <2> QED  BY <2>1, <1>7, Sizes DEF PendOK
<1>10. JobOK'  BY <1>0 DEF JobOK
<1>11. HistoryOK'
  <2>1. {todo[i].rec.step : i \in 1..Len(todo)} \subseteq 1..made
    <3>1. Len(todo) = a + b  BY <1>2 DEF PlanOf
    <3> QED  BY <3>1, <1>2
  <2> QED  BY <2>1, <1>0 DEF TypeInv, HistoryOK
<1>12. RingOK'
  <2>1. tail' # 0 /\ hdr' = hdr  BY <1>0, <1>5 DEF card
  <2> QED  BY <2>1, <1>0, <1>5 DEF RingOK
<1> QED  BY <1>4, <1>8, <1>9, <1>10, <1>11, <1>12 DEF TypeInv

LEMMA BaseUnverified ==
  ASSUME TypeInv, RingOK, Unverified
  PROVE  TypeInv' /\ RingOK'
<1>0. /\ pc = "verify" /\ pc' = "idle" /\ todo' = <<>> /\ left' = 0
      /\ UNCHANGED <<card, up, first, last, tail, off, next, pend, history>>
      /\ stopped' \in {stopped, TRUE}
  BY DEF Unverified, JobOver
<1>1. tail # 0  BY <1>0 DEF TypeInv, JobOK
<1>2. CardOK'  BY <1>0, CardSame
<1>3. RamOK' /\ PendOK'  BY <1>0, <1>1 DEF TypeInv, RamOK, PendOK, history
<1>4. JobOK'  BY <1>0 DEF JobOK
<1>5. HistoryOK'
  <2>1. mishaps' \in 0..MaxMishaps
    <3>1. CASE Calm  BY <3>1 DEF Calm, TypeInv, HistoryOK
    <3>2. CASE Mishap("reread")  BY <3>2, MishapBase DEF TypeInv
    <3> QED  BY <3>1, <3>2 DEF Unverified
  <2> QED  BY <2>1, <1>0 DEF TypeInv, HistoryOK, history
<1>6. RingOK'  BY <1>0, RingSame DEF card
<1> QED  BY <1>2, <1>3, <1>4, <1>5, <1>6 DEF TypeInv

LEMMA MinTwo ==
  ASSUME NEW x \in Nat, NEW y \in Nat
  PROVE  Min({x, y}) \in Nat /\ Min({x, y}) <= x /\ Min({x, y}) <= y /\ Min({x, y}) \in {x, y}
<1>1. {x, y} \subseteq 0..(x + y) /\ {x, y} # {} /\ x + y \in Nat  OBVIOUS
<1>2. Min({x, y}) \in {x, y} /\ \A z \in {x, y} : Min({x, y}) <= z
  <2> DEFINE S == {x, y}
  <2> HIDE DEF S
  <2>1. S \subseteq 0..(x + y) /\ S # {} /\ x + y \in Nat  BY <1>1 DEF S
  <2>2. Min(S) \in S /\ \A z \in S : Min(S) <= z  BY <2>1, MaxMin
  <2> QED  BY <2>2 DEF S
<1> QED  BY <1>2

LEMMA ToRetireIs ==
  ASSUME TypeInv, RingOK, tail # 0
  PROVE  /\ ToRetire \in 0..(tail - first)
         /\ Live >= Ring /\ tail > first => ToRetire >= 1
         /\ Live = last - first + 1 /\ Live \in Nat
<1>1. /\ first \in 1..MaxIdx /\ last \in 1..MaxIdx /\ tail \in 1..MaxIdx
      /\ first <= tail /\ tail <= last /\ MaxIdx \in Nat
      /\ Ring \in Nat /\ Ring >= 2 /\ MaxSegs \in Nat /\ MaxSegs >= 1
  BY Sizes DEF TypeInv, RamOK
<1>2. Live = last - first + 1 /\ Live \in Nat  BY <1>1 DEF Live
<1>3. Cap \in Nat /\ Cap <= Ring - 1
  <2>1. Ring - 1 \in Nat  BY <1>1
  <2> QED  BY <2>1, <1>1, MinTwo DEF Cap
<1>4. CASE Live < Ring
  <2>1. ToRetire = 0  BY <1>4 DEF ToRetire
  <2> QED  BY <2>1, <1>1, <1>2, <1>4
<1>5. CASE ~(Live < Ring)
  <2>1. ToRetire = Min({Live - Cap, tail - first})  BY <1>5 DEF ToRetire
  <2>2. Live - Cap \in Nat /\ Live - Cap >= 1 /\ tail - first \in Nat
    BY <1>1, <1>2, <1>3, <1>5
  <2>3. /\ ToRetire \in Nat /\ ToRetire <= tail - first
        /\ ToRetire = Live - Cap \/ ToRetire = tail - first
    <3> DEFINE x == Live - Cap
               y == tail - first
    <3>1. ToRetire = Min({x, y})  BY <2>1
    <3>2. x \in Nat /\ y \in Nat  BY <2>2
    <3> HIDE DEF x, y
    <3>3. ToRetire \in Nat /\ ToRetire <= y /\ ToRetire \in {x, y}  BY <3>1, <3>2, MinTwo
    <3> QED  BY <3>3 DEF x, y
  <2> QED  BY <2>2, <2>3, <1>1, <1>2
<1> QED  BY <1>4, <1>5

\* A spare joins the ring once the oldest have been retired.
LEMMA SpareRing ==
  ASSUME TypeInv, RingOK, SpareDue, CanActivate
  PROVE  LET n == ToRetire
             h == Retired(n)
             g == [h EXCEPT ![NextSlot] = last + 1]
         IN  /\ g \in [Slots -> 0..Gone] /\ Near(g) /\ GoneFirst(g)
             /\ Placed(g, first + n, last + 1, tail)
             /\ Placed(h, first + n, last, tail)
             /\ LiveIn(g) = LiveIn(h) \cup {last + 1}
             /\ LiveIn(h) = LiveIn(hdr) \ (first..(first + n - 1))
             /\ last + 1 \notin LiveIn(hdr)
             /\ NextSlot \in Slots /\ last + 1 \in 1..MaxIdx
<1> DEFINE n == ToRetire
           h == Retired(n)
           g == [h EXCEPT ![NextSlot] = last + 1]
<1>0. /\ tail # 0 /\ tail = last /\ last < MaxIdx
      /\ Placed(hdr, first, last, tail) /\ Near(hdr) /\ GoneFirst(hdr)
      /\ hdr \in [Slots -> 0..Gone]
      /\ h[NextSlot] = Free /\ NextSlot = SlotOf(last + 1)
  BY DEF SpareDue, Recording, TypeInv, CardOK, RingOK, CanActivate, NextSlot
<1>1. /\ n \in 0..(tail - first) /\ (Live >= Ring /\ tail > first => n >= 1)
      /\ Live = last - first + 1
  BY <1>0, ToRetireIs
<1>2. /\ first \in 1..MaxIdx /\ last \in 1..MaxIdx /\ tail \in 1..MaxIdx /\ first <= tail
      /\ tail \in LiveIn(hdr) /\ last - first < Ring
      /\ MaxIdx \in Nat /\ Ring \in Nat /\ last + 1 \in 1..MaxIdx
  BY <1>0, Sizes DEF Placed, TypeInv, RamOK
<1>3. h = RetireIn(hdr, first, n)  BY DEF Retired, RetireIn
<1> HIDE DEF n, h
<1>4. /\ h \in [Slots -> 0..Gone] /\ LiveIn(h) = LiveIn(hdr) \ (first..(first + n - 1))
      /\ n = 0 => h = hdr
      /\ \A x \in 1..MaxIdx : h[SlotOf(x)] = Free
              => x \notin LiveIn(hdr) \/ x \in first..(first + n - 1)
  BY <1>0, <1>1, <1>3, RetireLive
<1>5. n \in Nat /\ Near(h) /\ GoneFirst(h) /\ Placed(h, first + n, last, tail)
  <2>1. n \in Nat  BY <1>1, <1>2
  <2> QED  BY <2>1, <1>0, <1>1, <1>3, RetireRing
<1>6. last + 1 - (first + n) < Ring
  <2>1. CASE n >= 1  BY <2>1, <1>2, <1>5
  <2>2. CASE n = 0 /\ Live < Ring  BY <2>2, <1>1, <1>2
  <2>3. CASE n = 0 /\ ~(Live < Ring)
    <3>1. tail = first /\ last = first /\ last - first + 1 >= Ring
      BY <2>3, <1>0, <1>1, <1>2
    <3> QED  BY <3>1, <1>2, Sizes
  <2> QED  BY <2>1, <2>2, <2>3, <1>5
<1>7. /\ g \in [Slots -> 0..Gone] /\ LiveIn(g) = LiveIn(h) \cup {last + 1}
      /\ Near(g) /\ GoneFirst(g) /\ Placed(g, first + n, last + 1, last)
      /\ last + 1 \notin LiveIn(h)
  <2>1. Placed(h, first + n, last, last)  BY <1>5, <1>0
  <2>2. h[SlotOf(last + 1)] = Free  BY <1>0
  <2> QED  BY <2>1, <2>2, <1>0, <1>4, <1>5, <1>6, ActivateRing
<1>8. last + 1 \notin LiveIn(hdr)
  <2>1. last + 1 \notin first..(first + n - 1)  BY <1>1, <1>2, <1>0
  <2> QED  BY <2>1, <1>7, <1>4
<1>9. NextSlot \in Slots  BY <1>0, <1>2, SlotIn
<1> QED  BY <1>0, <1>2, <1>4, <1>5, <1>7, <1>8, <1>9 DEF n, h, g

LEMMA ActivateRows ==
  ASSUME TypeInv, tail # 0, NextSlot \in Slots
  PROVE  /\ [ver EXCEPT ![NextSlot] = ver[SlotOf(last)]] \in [Slots -> 1..2]
         /\ [body EXCEPT ![NextSlot] = Blank] \in [Slots -> Row]
<1>1. last \in Nat \ {0}  BY Sizes DEF TypeInv, RamOK
<1>2. SlotOf(last) \in Slots  BY <1>1, SlotIn
<1> QED  BY <1>2, RecFacts DEF TypeInv, CardOK

LEMMA BasePrepareSpare ==
  ASSUME TypeInv, RingOK, PrepareSpare
  PROVE  TypeInv' /\ RingOK'
<1> DEFINE n == ToRetire
<1>0. /\ SpareDue /\ CanActivate
      /\ hdr' = [Retired(n) EXCEPT ![NextSlot] = last + 1]
      /\ ver' = [ver EXCEPT ![NextSlot] = ver[SlotOf(last)]]
      /\ body' = [body EXCEPT ![NextSlot] = Blank]
      /\ first' = first + n /\ last' = last + 1
      /\ UNCHANGED <<job, up, tail, off, next, pend, stopped, history, mishaps>>
      /\ tail # 0 /\ pc = "idle"
  BY DEF PrepareSpare, Resting, SpareDue, Recording
<1> HIDE DEF n
<1>1. /\ hdr' \in [Slots -> 0..Gone] /\ Near(hdr') /\ GoneFirst(hdr')
      /\ Placed(hdr', first + n, last + 1, tail)
      /\ NextSlot \in Slots /\ last + 1 \in 1..MaxIdx
  BY <1>0, SpareRing DEF n
<1>2. CardOK'  BY <1>0, <1>1, ActivateRows DEF CardOK
<1>3. RamOK'
  <2>1. first + n \in 1..MaxIdx /\ first + n <= tail /\ tail <= last + 1
    BY <1>1 DEF Placed
  <2>2. 1..MaxIdx \subseteq 0..MaxIdx /\ (first + n \in 1..MaxIdx => 1 <= first + n)  BY Sizes
  <2> QED  BY <2>1, <2>2, <1>0, <1>1 DEF TypeInv, RamOK
<1>4. PendOK'  BY <1>0 DEF TypeInv, PendOK, history
<1>5. JobOK'  BY <1>0 DEF TypeInv, JobOK, job
<1>6. HistoryOK'  BY <1>0 DEF TypeInv, HistoryOK, history
<1>7. RingOK'  BY <1>0, <1>1 DEF RingOK
<1> QED  BY <1>2, <1>3, <1>4, <1>5, <1>6, <1>7 DEF TypeInv

LEMMA PartlyBase ==
  ASSUME TypeInv, RingOK, SpareDue, NEW n \in 0..ToRetire, PartlyPrepared(n)
  PROVE  /\ CardOK' /\ Near(hdr') /\ GoneFirst(hdr')
         /\ Placed(hdr', first + n, last, tail)
<1>0. /\ tail # 0 /\ tail = last /\ last < MaxIdx
      /\ Placed(hdr, first, last, tail) /\ Near(hdr) /\ GoneFirst(hdr)
      /\ hdr \in [Slots -> 0..Gone] /\ ver \in [Slots -> 1..2] /\ body \in [Slots -> Row]
      /\ tail \in Nat /\ first \in Nat
  BY Sizes DEF SpareDue, Recording, TypeInv, CardOK, RingOK, RamOK
<1>1. ToRetire \in 0..(tail - first)  BY <1>0, ToRetireIs
<1>2. \A m : Retired(m) = RetireIn(hdr, first, m)  BY DEF Retired, RetireIn
<1>3. ASSUME n < ToRetire, hdr' \in {Retired(n), Retired(n + 1)}
      PROVE  hdr' \in [Slots -> 0..Gone] /\ Near(hdr') /\ GoneFirst(hdr')
             /\ Placed(hdr', first + n, last, tail)
  <2>1. PICK m \in {n, n + 1} : hdr' = Retired(m)  BY <1>3
  <2>2. m \in 0..(tail - first) /\ (n = m \/ n + 1 = m) /\ n \in Nat  BY <2>1, <1>0, <1>1, <1>3
  <2>3. hdr' = RetireIn(hdr, first, m)  BY <2>1, <1>2
  <2>4. Near(hdr') /\ GoneFirst(hdr') /\ Placed(hdr', first + n, last, tail)
    BY <2>2, <2>3, <1>0, RetireRing
  <2>5. hdr' \in [Slots -> 0..Gone]  BY <2>2, <2>3, <1>0, RetireLive
  <2> QED  BY <2>4, <2>5
<1>4. ASSUME n = ToRetire, hdr' = Retired(n)
      PROVE  hdr' \in [Slots -> 0..Gone] /\ Near(hdr') /\ GoneFirst(hdr')
             /\ Placed(hdr', first + n, last, tail)
  <2>1. n \in 0..(tail - first) /\ n \in Nat  BY <1>0, <1>1, <1>4
  <2>2. hdr' = RetireIn(hdr, first, n)  BY <1>4, <1>2
  <2>3. Near(hdr') /\ GoneFirst(hdr') /\ Placed(hdr', first + n, last, tail)
    BY <2>1, <2>2, <1>0, RetireRing
  <2>4. hdr' \in [Slots -> 0..Gone]  BY <2>1, <2>2, <1>0, RetireLive
  <2> QED  BY <2>3, <2>4
<1>5. ASSUME n = ToRetire, CanActivate,
             hdr' = [Retired(n) EXCEPT ![NextSlot] = last + 1]
      PROVE  hdr' \in [Slots -> 0..Gone] /\ Near(hdr') /\ GoneFirst(hdr')
             /\ Placed(hdr', first + n, last, tail)
  <2>1. /\ hdr' \in [Slots -> 0..Gone] /\ Near(hdr') /\ GoneFirst(hdr')
        /\ Placed(hdr', first + n, last + 1, tail)
    BY <1>5, SpareRing
  <2>2. Placed(hdr', first + n, tail, tail)  BY <2>1, PlacedShrink
  <2> QED  BY <2>1, <2>2, <1>0
<1>6. ver' \in [Slots -> 1..2] /\ body' \in [Slots -> Row]
  <2>1. /\ ver' \in {ver, [ver EXCEPT ![NextSlot] = ver[SlotOf(last)]]}
        /\ body' \in {body, [body EXCEPT ![NextSlot] = Blank]}
    BY DEF PartlyPrepared
  <2>2. NextSlot \in Slots
    <3>1. last + 1 \in Nat \ {0}  BY <1>0
    <3> QED  BY <3>1, SlotIn DEF NextSlot
  <2> QED  BY <2>1, <2>2, <1>0, ActivateRows
<1>7. /\ hdr' \in [Slots -> 0..Gone] /\ Near(hdr') /\ GoneFirst(hdr')
      /\ Placed(hdr', first + n, last, tail)
  BY <1>3, <1>4, <1>5 DEF PartlyPrepared
<1> QED  BY <1>6, <1>7 DEF CardOK

LEMMA BasePrepareFails ==
  ASSUME TypeInv, RingOK, PrepareFails
  PROVE  TypeInv' /\ RingOK'
<1>0. /\ SpareDue /\ tail # 0 /\ pc = "idle"
      /\ UNCHANGED <<job, up, last, tail, off, next, pend, stopped, history>>
  BY DEF PrepareFails, Resting, SpareDue, Recording
<1>1. PICK n \in 0..ToRetire : PartlyPrepared(n) /\ first' = first + n  BY DEF PrepareFails
<1>2. /\ CardOK' /\ Near(hdr') /\ GoneFirst(hdr')
      /\ Placed(hdr', first + n, last, tail)
  BY <1>0, <1>1, PartlyBase
<1>3. RamOK'
  <2>1. first + n \in 1..MaxIdx /\ first + n <= tail  BY <1>2 DEF Placed
  <2>2. 1..MaxIdx \subseteq 0..MaxIdx /\ (first + n \in 1..MaxIdx => 1 <= first + n)  BY Sizes
  <2> QED  BY <2>1, <2>2, <1>0, <1>1 DEF TypeInv, RamOK
<1>4. PendOK'  BY <1>0 DEF TypeInv, PendOK, history
<1>5. JobOK'  BY <1>0 DEF TypeInv, JobOK, job
<1>6. HistoryOK'
  <2>1. mishaps' \in 0..MaxMishaps  BY MishapBase DEF TypeInv, PrepareFails
  <2> QED  BY <1>0, <2>1 DEF TypeInv, HistoryOK, history
<1>7. RingOK'  BY <1>0, <1>1, <1>2 DEF RingOK
<1> QED  BY <1>2, <1>3, <1>4, <1>5, <1>6, <1>7 DEF TypeInv

LEMMA BasePrepareCut ==
  ASSUME TypeInv, RingOK, PrepareCut
  PROVE  TypeInv' /\ RingOK'
<1>0. SpareDue /\ Down /\ UNCHANGED history  BY DEF PrepareCut
<1>1. PICK n \in 0..ToRetire : PartlyPrepared(n)  BY DEF PrepareCut
<1>2. CardOK' /\ Near(hdr') /\ GoneFirst(hdr')  BY <1>0, <1>1, PartlyBase
<1>3. HistoryOK'
  <2>1. mishaps' \in 0..MaxMishaps  BY MishapBase DEF TypeInv, PrepareCut
  <2> QED  BY <1>0, <2>1 DEF TypeInv, HistoryOK, history
<1> QED  BY <1>0, <1>2, <1>3, DownBase

\* A ring with one segment, and a ring with none.
LEMMA FirstRing ==
  ASSUME NEW h, h = [s \in Slots |-> IF s = 1 THEN 1 ELSE Free]
  PROVE  /\ h \in [Slots -> 0..Gone] /\ LiveIn(h) = {1} /\ Near(h) /\ GoneFirst(h)
         /\ Placed(h, 1, 1, 1) /\ OldestIn(h) = 1 /\ NewestIn(h) = 1
         /\ SlotOf(1) = 1 /\ 1 \in Slots
<1>1. /\ Gone = MaxIdx + 1 /\ MaxIdx \in Nat /\ MaxIdx >= 1 /\ Free = 0 /\ Ring \in Nat /\ Ring >= 2
      /\ Slots = 1..Ring
  BY Sizes DEF Slots
<1>2. SlotOf(1) = 1 /\ 1 \in Slots
  <2>1. (1 - 1) % Ring = 0  BY <1>1
  <2> QED  BY <2>1, <1>1 DEF SlotOf
<1>3. \A s \in Slots : h[s] = IF s = 1 THEN 1 ELSE 0  BY <1>1
<1>4. h \in [Slots -> 0..Gone]  BY <1>1
<1>5. \A x \in 1..MaxIdx : SlotOf(x) \in Slots  BY SlotIn
<1>6. LiveIn(h) = {1}
  <2>1. ASSUME NEW x \in LiveIn(h) PROVE x = 1
    <3>1. x \in 1..MaxIdx /\ h[SlotOf(x)] = x  BY DEF LiveIn
    <3>2. h[SlotOf(x)] = IF SlotOf(x) = 1 THEN 1 ELSE 0  BY <3>1, <1>3, <1>5
    <3>3. x # 0  BY <3>1
    <3> QED  BY <3>1, <3>2, <3>3
  <2>2. 1 \in LiveIn(h)  BY <1>1, <1>2, <1>3 DEF LiveIn
  <2> QED  BY <2>1, <2>2
<1>7. Near(h)  BY <1>1, <1>6 DEF Near
<1>8. GoneFirst(h)  BY <1>1, <1>3 DEF GoneFirst
<1>9. OldestIn(h) = 1 /\ NewestIn(h) = 1
  <2>1. 1..1 = {1} /\ 1 + 1 \notin {1} /\ 1 <= 1 /\ 1 \in Nat  OBVIOUS
  <2> QED  BY <2>1, <1>6, RangeIs
<1>10. Placed(h, 1, 1, 1)
  <2>1. (1 + 1)..1 = {} /\ 1 - 1 < Ring /\ 1 \in 1..MaxIdx  BY <1>1
  <2> QED  BY <2>1, <1>6, <1>9 DEF Placed
<1> QED  BY <1>2, <1>4, <1>6, <1>7, <1>8, <1>9, <1>10

LEMMA EmptyRing ==
  ASSUME NEW h, LiveIn(h) = {} PROVE Near(h) /\ GoneFirst(h)
  BY DEF Near, GoneFirst

LEMMA BasePrepareFirst ==
  ASSUME TypeInv, RingOK, PrepareFirst
  PROVE  TypeInv' /\ RingOK'
<1>0. /\ pc = "idle" /\ up /\ tail = 0 /\ hdr' = [s \in Slots |-> IF s = 1 THEN 1 ELSE Free]
      /\ ver' = [ver EXCEPT ![1] = 1] /\ body' = [body EXCEPT ![1] = Blank]
      /\ first' = 1 /\ last' = 1 /\ tail' = 1 /\ off' = 1
      /\ UNCHANGED <<job, up, next, pend, stopped, history, mishaps>>
  BY DEF PrepareFirst, Resting
<1>1. /\ hdr' \in [Slots -> 0..Gone] /\ Near(hdr') /\ GoneFirst(hdr')
      /\ Placed(hdr', 1, 1, 1) /\ 1 \in Slots
  BY <1>0, FirstRing
<1>2. CardOK'  BY <1>0, <1>1, RecFacts DEF TypeInv, CardOK
<1>3. RamOK'
  <2>1. 1 \in 0..MaxIdx /\ 1 \in 1..(SegCap + 1) /\ 1 <= 1 /\ 1 # 0  BY Sizes
  <2> QED  BY <2>1, <1>0 DEF TypeInv, RamOK
<1>4. PendOK'  BY <1>0 DEF TypeInv, PendOK, history
<1>5. JobOK'  BY <1>0 DEF TypeInv, JobOK, job
<1>6. HistoryOK'  BY <1>0 DEF TypeInv, HistoryOK, history
<1>7. RingOK'  BY <1>0, <1>1 DEF RingOK
<1> QED  BY <1>2, <1>3, <1>4, <1>5, <1>6, <1>7 DEF TypeInv

LEMMA FreedRing ==
  ASSUME NEW h \in [Slots -> 0..Gone], LiveIn(h) = {}, NEW m
  PROVE  LET g == [s \in Slots |-> IF s <= m THEN Free ELSE h[s]]
         IN  g \in [Slots -> 0..Gone] /\ LiveIn(g) = {}
<1> DEFINE g == [s \in Slots |-> IF s <= m THEN Free ELSE h[s]]
<1>1. Free \in 0..Gone  BY Sizes
<1>2. g \in [Slots -> 0..Gone]  BY <1>1
<1>3. ASSUME NEW x \in LiveIn(g) PROVE FALSE
  <2>1. x \in 1..MaxIdx /\ g[SlotOf(x)] = x  BY <1>3 DEF LiveIn
  <2>2. SlotOf(x) \in Slots /\ x # Free  BY <2>1, SlotIn, Sizes
  <2>3. h[SlotOf(x)] = x  BY <2>1, <2>2
  <2> QED  BY <2>1, <2>3 DEF LiveIn
<1> QED  BY <1>2, <1>3

LEMMA BasePrepareFirstFails ==
  ASSUME TypeInv, RingOK, PrepareFirstFails
  PROVE  TypeInv' /\ RingOK' /\ LiveIn(hdr) = {} /\ LiveIn(hdr') = {}
<1>0. /\ up /\ tail = 0 /\ UNCHANGED <<ver, history>> /\ Down
      /\ body' \in {body, [body EXCEPT ![1] = Blank]}
  BY DEF PrepareFirstFails
<1>1. PICK m \in 0..Ring : hdr' = [s \in Slots |-> IF s <= m THEN Free ELSE hdr[s]]
  BY DEF PrepareFirstFails
<1>2. LiveIn(hdr) = {} /\ hdr \in [Slots -> 0..Gone]  BY <1>0 DEF RingOK, TypeInv, CardOK
<1>3. hdr' \in [Slots -> 0..Gone] /\ LiveIn(hdr') = {}  BY <1>1, <1>2, FreedRing
<1>4. CardOK'  BY <1>0, <1>3, RecFacts DEF TypeInv, CardOK
<1>5. HistoryOK'
  <2>1. mishaps' \in 0..MaxMishaps  BY MishapBase DEF TypeInv, PrepareFirstFails
  <2> QED  BY <1>0, <2>1 DEF TypeInv, HistoryOK, history
<1> QED  BY <1>0, <1>2, <1>3, <1>4, <1>5, EmptyRing, DownBase

LEMMA GoneRing ==
  ASSUME NEW h, h = [s \in Slots |-> Gone]
  PROVE  h \in [Slots -> 0..Gone] /\ LiveIn(h) = {}
<1>1. h \in [Slots -> 0..Gone]  BY Sizes
<1>2. ASSUME NEW x \in LiveIn(h) PROVE FALSE
  <2>1. x \in 1..MaxIdx /\ h[SlotOf(x)] = x  BY <1>2 DEF LiveIn
  <2>2. SlotOf(x) \in Slots /\ x # Gone  BY <2>1, SlotIn, Sizes
  <2> QED  BY <2>1, <2>2
<1> QED  BY <1>1, <1>2

LEMMA BaseClear ==
  ASSUME TypeInv, RingOK, Clear
  PROVE  TypeInv' /\ RingOK' /\ LiveIn(hdr') = {}
<1>0. /\ pc = "idle" /\ up /\ hdr' = [s \in Slots |-> Gone]
      /\ first' = 0 /\ last' = 0 /\ tail' = 0 /\ off' = 1 /\ next' = 1
      /\ pend' = <<>> /\ stopped' = FALSE
      /\ UNCHANGED <<job, ver, body, up, history, mishaps>>
  BY DEF Clear, Resting
<1>1. hdr' \in [Slots -> 0..Gone] /\ LiveIn(hdr') = {}  BY <1>0, GoneRing
<1>2. CardOK'  BY <1>0, <1>1 DEF TypeInv, CardOK
<1>3. RamOK'
  <2>1. /\ 0 \in 0..MaxIdx /\ 1 \in 1..(SegCap + 1) /\ 1 \in Nat \ {0} /\ ~(0 > 0)  BY Sizes
  <2>2. up' \in BOOLEAN /\ up' /\ stopped' \in BOOLEAN  BY <1>0 DEF TypeInv, RamOK
  <2> QED  BY <2>1, <2>2, <1>0 DEF RamOK
<1>4. PendOK'
  <2>1. pend' \in Seq(Rec) /\ Len(pend') = 0 /\ next' = 1  BY <1>0
  <2> QED  BY <2>1, Sizes DEF PendOK
<1>5. JobOK'  BY <1>0 DEF TypeInv, JobOK, job
<1>6. HistoryOK'  BY <1>0 DEF TypeInv, HistoryOK, history
<1>7. RingOK'  BY <1>0, <1>1, EmptyRing DEF RingOK
<1> QED  BY <1>1, <1>2, <1>3, <1>4, <1>5, <1>6, <1>7 DEF TypeInv

LEMMA BaseClearCut ==
  ASSUME TypeInv, RingOK, ClearCut
  PROVE  TypeInv' /\ RingOK'
<1>0. UNCHANGED <<ver, body, history>> /\ Down  BY DEF ClearCut
<1>1. PICK m \in 1..(Ring - 1) : hdr' = [s \in Slots |-> IF s <= m THEN Gone ELSE hdr[s]]
  BY DEF ClearCut
<1>2. m \in Nat  BY Sizes
<1>3. hdr' \in [Slots -> 0..Gone] /\ Near(hdr') /\ GoneFirst(hdr')
  BY <1>1, <1>2, DeleteRing DEF TypeInv, CardOK, RingOK
<1>4. CardOK'  BY <1>0, <1>3 DEF TypeInv, CardOK
<1>5. HistoryOK'
  <2>1. mishaps' \in 0..MaxMishaps  BY MishapBase DEF TypeInv, ClearCut
  <2> QED  BY <1>0, <2>1 DEF TypeInv, HistoryOK, history
<1> QED  BY <1>0, <1>3, <1>4, <1>5, DownBase

LEMMA BaseInit == JournalInit => TypeInv /\ RingOK
<1> SUFFICES ASSUME JournalInit PROVE TypeInv /\ RingOK
  OBVIOUS
<1>1. hdr \in [Slots -> 0..Gone] /\ LiveIn(hdr) = {}  BY GoneRing DEF JournalInit
<1>2. CardOK  BY <1>1, RecFacts DEF JournalInit, CardOK
<1>3. RamOK
  <2>1. /\ 0 \in 0..MaxIdx /\ 1 \in 1..(SegCap + 1) /\ 1 \in Nat \ {0} /\ ~(0 > 0)  BY Sizes
  <2> QED  BY <2>1 DEF JournalInit, RamOK
<1>4. PendOK
  <2>1. pend \in Seq(Rec) /\ Len(pend) = 0 /\ next = 1  BY DEF JournalInit
  <2> QED  BY <2>1, Sizes DEF PendOK
<1>5. JobOK  BY DEF JournalInit, JobOK
<1>6. HistoryOK
  <2>1. made = 0 /\ undone = {} /\ acked = {} /\ lossy = FALSE /\ mishaps = 0  BY DEF JournalInit
  <2>2. lossy \in BOOLEAN  BY <2>1
  <2>3. \A S : {} \in SUBSET S  OBVIOUS
  <2>4. undone \in SUBSET (1..made) /\ acked \in SUBSET (1..made)  BY <2>1, <2>3
  <2>5. made \in 0..MaxSteps /\ mishaps \in 0..MaxMishaps  BY <2>1, Sizes
  <2> QED  BY <2>2, <2>4, <2>5 DEF HistoryOK
<1>7. RingOK  BY <1>1, EmptyRing DEF JournalInit, RingOK
<1> QED  BY <1>2, <1>3, <1>4, <1>5, <1>6, <1>7 DEF TypeInv

LEMMA BaseNext == TypeInv /\ RingOK /\ [JournalNext]_vars => TypeInv' /\ RingOK'
<1> SUFFICES ASSUME TypeInv, RingOK, [JournalNext]_vars PROVE TypeInv' /\ RingOK'
  OBVIOUS
<1>1. CASE Open  BY <1>1, BaseOpen
<1>2. CASE OpenFails \/ OpenCut  BY <1>2, BaseDownSame
<1>3. CASE RecordStep  BY <1>3, BaseRecordStep
<1>4. CASE TakeBack  BY <1>4, BaseTakeBack
<1>5. CASE Flush  BY <1>5, BaseFlush
<1>6. CASE Chain  BY <1>6, BaseChain
<1>7. CASE ReheadFails  BY <1>7, BaseReheadFails
<1>8. CASE ReheadCut  BY <1>8, BaseReheadCut
<1>9. CASE WriteNext \/ WriteLost  BY <1>9, BaseWrite
<1>10. CASE WriteFails  BY <1>10, BaseWriteFails
<1>11. CASE Verified  BY <1>11, BaseVerified
<1>12. CASE Unverified  BY <1>12, BaseUnverified
<1>13. CASE PrepareFirst  BY <1>13, BasePrepareFirst
<1>14. CASE PrepareFirstFails  BY <1>14, BasePrepareFirstFails
<1>15. CASE PrepareSpare  BY <1>15, BasePrepareSpare
<1>16. CASE PrepareFails  BY <1>16, BasePrepareFails
<1>17. CASE PrepareCut  BY <1>17, BasePrepareCut
<1>18. CASE Crash  BY <1>18, BaseCrash
<1>19. CASE Clear  BY <1>19, BaseClear
<1>20. CASE ClearCut  BY <1>20, BaseClearCut
<1>21. CASE UNCHANGED vars
  <2>1. UNCHANGED <<card, ram, job, history, mishaps>>  BY <1>21 DEF vars
  <2>2. UNCHANGED <<ver, ram, made>>  BY <2>1 DEF card, history
  <2>3. CardOK'  BY <2>1, CardSame
  <2>4. RamOK' /\ PendOK'  BY <2>1 DEF TypeInv, RamOK, PendOK, ram, history
  <2>5. HistoryOK'  BY <2>1 DEF TypeInv, HistoryOK, history
  <2>6. JobOK'
    <3>1. pc # "idle" => IsJob(todo)'
      <4>1. pc # "idle" => IsJob(todo)  BY DEF TypeInv, JobOK
      <4> QED  BY <2>1, <2>2, <4>1, JobsSame
           DEF IsJob, FlushPlan, ChainJob, Fits, Room, ToTail, ToSpare, ram, job
    <3> QED  BY <2>1, <3>1 DEF TypeInv, JobOK, job, ram
  <2>7. RingOK'  BY <2>1, RingSame DEF card, ram
  <2> QED  BY <2>3, <2>4, <2>5, <2>6, <2>7 DEF TypeInv
<1> QED  BY <1>1, <1>2, <1>3, <1>4, <1>5, <1>6, <1>7, <1>8, <1>9, <1>10, <1>11, <1>12, <1>13,
            <1>14, <1>15, <1>16, <1>17, <1>18, <1>19, <1>20, <1>21 DEF JournalNext

LEMMA BaseHolds == JournalSpec => [](TypeInv /\ RingOK)
  BY BaseInit, BaseNext, PTL DEF JournalSpec

\* The state has the types that the run checks, whatever the card does: a batch
\* fits its segment and the pending buffer its bound, and while there is a ring
\* the tail lies between its oldest and its newest segment.
THEOREM JournalTypes == JournalSpec => []JournalTypeOK
<1>1. TypeInv => JournalTypeOK
  <2> SUFFICES ASSUME TypeInv PROVE JournalTypeOK
    OBVIOUS
  <2>1. /\ hdr \in [Slots -> 0..Gone] /\ ver \in [Slots -> 1..2]
        /\ {up, stopped, lossy} \subseteq BOOLEAN
        /\ {first, last, tail} \subseteq 0..MaxIdx
        /\ off \in 1..(SegCap + 1) /\ next \in Nat
        /\ Len(pend) <= PendMax
        /\ pc \in {"idle", "write", "verify"}
        /\ made \in 0..MaxSteps /\ undone \subseteq 1..made /\ acked \subseteq 1..made
        /\ mishaps \in 0..MaxMishaps
    BY DEF TypeInv, CardOK, RamOK, PendOK, JobOK, HistoryOK
  <2>2. up /\ last > 0 => first <= tail /\ tail <= last
    BY Sizes DEF TypeInv, RamOK
  <2>3. Len(todo) <= SegCap /\ left \in 0..Len(todo)
    <3>1. CASE pc = "idle"
      <4>1. todo = <<>> /\ left = 0 /\ Len(<<>>) = 0  BY <3>1 DEF TypeInv, JobOK
      <4> QED  BY <4>1, Sizes
    <3>2. CASE pc # "idle"
      <4>1. IsJob(todo) /\ tail # 0  BY <3>2 DEF TypeInv, JobOK
      <4>2. PICK a \in Nat, b \in Nat :
              /\ PlanOf(todo, tail, off, a, b, next - Len(pend))
              /\ pend # <<>> => Len(pend) = a + b
              /\ pend = <<>> => \A k \in 1..(a + b) : todo[k].rec.part = k - 1
        BY <4>1, JobIs
      <4>3. Len(todo) = a + b /\ a + b \in Nat  BY <4>2 DEF PlanOf
      <4>4. Len(todo) <= SegCap
        <5>1. CASE pend # <<>>
          <6>1. Len(pend) <= PendMax  BY DEF TypeInv, PendOK
          <6> QED  BY <6>1, <5>1, <4>2, <4>3, Sizes
        <5>2. CASE pend = <<>>
          <6>1. todo = ChainJob(tail, off) \/ todo = ChainJob(tail + 1, 1)
            BY <5>2, <4>1 DEF IsJob
          <6>2. \A x, y : Len(ChainJob(x, y)) = ChainLen  BY Sizes DEF ChainJob
          <6> QED  BY <6>1, <6>2, Sizes
        <5> QED  BY <5>1, <5>2
      <4>5. left \in 0..Len(todo)
        <5>1. left = 0 \/ left \in 1..Len(todo)  BY <3>2 DEF TypeInv, JobOK
        <5> QED  BY <5>1, <4>3
      <4> QED  BY <4>4, <4>5
    <3> QED  BY <3>1, <3>2
  <2> QED  BY <2>1, <2>2, <2>3 DEF JournalTypeOK
<1> QED  BY <1>1, BaseHolds, PTL

--------------------------------
\* What is in the cells: which steps, and where chains may be.  Apart from
\* the writes of a batch, no operation puts anything in a live cell.

Kept(h, v, b, h2, v2, b2) ==
  \A z \in LiveIn(h2) :
    \/ b2[SlotOf(z)] = Blank
    \/ /\ z \in LiveIn(h) /\ (v[SlotOf(z)] = 2 => v2[SlotOf(z)] = 2)
       /\ \A i \in 1..SegCap : b2[SlotOf(z)][i] \in {Void, b[SlotOf(z)][i]}

StepsOn(h, b, S) ==
  \A z \in LiveIn(h), i \in 1..SegCap : b[SlotOf(z)][i] # Void => b[SlotOf(z)][i].step \in S
ChainsOn(h, v, b) ==
  \A z \in LiveIn(h), i \in 1..SegCap : b[SlotOf(z)][i].n >= 2 => v[SlotOf(z)] = 2

InPend == {pend[i].step : i \in 1..Len(pend)}
StepsOK ==
  /\ StepsOn(hdr, body, (1..made) \ undone)
  /\ ~stopped /\ pc = "idle" => StepsOn(hdr, body, Nat \ InPend)
  /\ InPend \cap undone = {}
  /\ pc # "idle" => \A k \in 1..Len(todo) : todo[k].rec.step \in (1..made) \ undone
ChainsOK == ChainsOn(hdr, ver, body)

LEMMA BlankIs ==
  \A i \in 1..SegCap : Blank[i] = Void /\ Void.n = 0 /\ Void.part = 0
  BY DEF Blank, Void

LEMMA KeptSame ==
  ASSUME NEW h, NEW v, NEW b
  PROVE  Kept(h, v, b, h, v, b)
  BY DEF Kept

LEMMA KeptSteps ==
  ASSUME NEW h, NEW v, NEW b, NEW h2, NEW v2, NEW b2, Kept(h, v, b, h2, v2, b2),
         NEW S, NEW S2, S \subseteq S2, StepsOn(h, b, S)
  PROVE  StepsOn(h2, b2, S2)
<1> SUFFICES ASSUME NEW z \in LiveIn(h2), NEW i \in 1..SegCap, b2[SlotOf(z)][i] # Void
             PROVE  b2[SlotOf(z)][i].step \in S2
  BY DEF StepsOn
<1>1. b2[SlotOf(z)] # Blank  BY BlankIs
<1>2. z \in LiveIn(h) /\ b2[SlotOf(z)][i] = b[SlotOf(z)][i]  BY <1>1 DEF Kept
<1> QED  BY <1>2 DEF StepsOn

LEMMA KeptChains ==
  ASSUME NEW h, NEW v, NEW b, NEW h2, NEW v2, NEW b2, Kept(h, v, b, h2, v2, b2),
         ChainsOn(h, v, b)
  PROVE  ChainsOn(h2, v2, b2)
<1> SUFFICES ASSUME NEW z \in LiveIn(h2), NEW i \in 1..SegCap, b2[SlotOf(z)][i].n >= 2
             PROVE  v2[SlotOf(z)] = 2
  BY DEF ChainsOn
<1>1. b2[SlotOf(z)][i] # Void  BY BlankIs
<1>2. b2[SlotOf(z)] # Blank  BY <1>1, BlankIs
<1>3. /\ z \in LiveIn(h) /\ (v[SlotOf(z)] = 2 => v2[SlotOf(z)] = 2)
      /\ b2[SlotOf(z)][i] = b[SlotOf(z)][i]
  BY <1>1, <1>2 DEF Kept
<1> QED  BY <1>3 DEF ChainsOn

\* A repair zeroes cells and does nothing else.
LEMMA KeptRepair ==
  ASSUME CardOK, NEW found, NEW c
  PROVE  Kept(hdr, ver, body, hdr, ver, Repaired(found, c))
<1> DEFINE b2 == Repaired(found, c)
<1>1. \A s \in Slots, i \in 1..SegCap : b2[s][i] \in {Void, body[s][i]}  BY DEF Repaired
<1>2. \A z \in LiveIn(hdr) : SlotOf(z) \in Slots  BY SlotIn DEF LiveIn
<1>3. Kept(hdr, ver, body, hdr, ver, b2)
  <2> HIDE DEF b2
  <2> QED  BY <1>1, <1>2 DEF Kept
<1> QED  BY <1>3

LEMMA KeptOpens ==
  ASSUME TypeInv, RingOK, Open \/ OpenFails \/ OpenCut
  PROVE  Kept(hdr, ver, body, hdr', ver', body')
<1>1. CardOK  BY DEF TypeInv
<1>2. UNCHANGED <<hdr, ver>>  BY DEF Open, OpenFails, OpenCut, card
<1>3. body' = body \/ \E found, c : body' = Repaired(found, c)
  BY DEF Open, Opened, OpenFails, OpenCut, card
<1> QED  BY <1>1, <1>2, <1>3, KeptSame, KeptRepair

LEMMA KeptRehead ==
  ASSUME TypeInv, RingOK, Chain \/ ReheadFails \/ ReheadCut
  PROVE  Kept(hdr, ver, body, hdr', ver', body')
<1>0. tail # 0 /\ CardOK /\ UNCHANGED body
  BY DEF Chain, ReheadFails, ReheadCut, MayChain, Recording, TypeInv
<1>1. CASE UNCHANGED <<hdr, ver>>  BY <1>0, <1>1, KeptSame
<1>2. ASSUME tail < last,
             \E v \in 1..2 : \/ Rehead(tail + 1, v) /\ (v = 2 \/ ver[SlotOf(tail + 1)] = 1)
                             \/ Rehead(Free, v)
      PROVE  Kept(hdr, ver, body, hdr', ver', body')
  <2>1. tail + 1 \in LiveIn(hdr) /\ SlotOf(tail + 1) \in Slots  BY <1>0, <1>2, SpareLive
  <2>2. PICK v \in 1..2 : \/ Rehead(tail + 1, v) /\ (v = 2 \/ ver[SlotOf(tail + 1)] = 1)
                          \/ Rehead(Free, v)
    BY <1>2
  <2>3. ver' = [ver EXCEPT ![SlotOf(tail + 1)] = v]  BY <2>2 DEF Rehead
  <2>4. CASE Rehead(tail + 1, v) /\ (v = 2 \/ ver[SlotOf(tail + 1)] = 1)
    <3>1. hdr' = hdr  BY <2>1, <2>4, <1>0, ReheadSame DEF Rehead
    <3>2. \A s \in Slots : ver[s] = 2 => ver'[s] = 2  BY <2>3, <2>4, <1>0 DEF CardOK
    <3>3. \A z \in LiveIn(hdr) : SlotOf(z) \in Slots  BY SlotIn DEF LiveIn
    <3> QED  BY <3>1, <3>2, <3>3, <1>0 DEF Kept
  <2>5. CASE Rehead(Free, v)
    <3>1. hdr' = [hdr EXCEPT ![SlotOf(tail + 1)] = Free]  BY <2>5 DEF Rehead
    <3> SUFFICES ASSUME NEW z \in LiveIn(hdr')
                 PROVE  z \in LiveIn(hdr) /\ ver'[SlotOf(z)] = ver[SlotOf(z)]
      BY <1>0 DEF Kept
    <3>2. z \in 1..MaxIdx /\ hdr'[SlotOf(z)] = z /\ SlotOf(z) \in Slots /\ z # Free
      BY SlotIn, Sizes DEF LiveIn
    <3>3. SlotOf(z) # SlotOf(tail + 1)  BY <3>1, <3>2, <1>0 DEF CardOK
    <3> QED  BY <3>1, <3>2, <3>3, <2>3, <1>0 DEF CardOK, LiveIn
  <2> QED  BY <2>2, <2>4, <2>5
<1>3. CASE Chain
  <2>1. CASE UNCHANGED <<hdr, ver>>  BY <2>1, <1>1
  <2>2. CASE tail < last /\ Rehead(tail + 1, 2)
    <3>1. 2 \in 1..2  OBVIOUS
    <3> QED  BY <2>2, <3>1, <1>2
  <2> QED  BY <2>1, <2>2, <1>3 DEF Chain
<1>4. CASE ReheadFails \/ ReheadCut
  <2>1. 1 \in 1..2 /\ 2 \in 1..2  OBVIOUS
  <2>2. /\ tail < last /\ ver[SlotOf(tail + 1)] = 1
        /\ Rehead(tail + 1, 1) \/ Rehead(Free, 1) \/ Rehead(tail + 1, 2)
    BY <1>4 DEF ReheadFails, ReheadCut
  <2> QED  BY <2>1, <2>2, <1>2
<1> QED  BY <1>3, <1>4

LEMMA KeptPrepare ==
  ASSUME TypeInv, RingOK, SpareDue, NEW n \in 0..ToRetire,
         \/ PartlyPrepared(n)
         \/ /\ n = ToRetire /\ CanActivate
            /\ hdr' = [Retired(ToRetire) EXCEPT ![NextSlot] = last + 1]
            /\ ver' = [ver EXCEPT ![NextSlot] = ver[SlotOf(last)]]
            /\ body' = [body EXCEPT ![NextSlot] = Blank]
  PROVE  Kept(hdr, ver, body, hdr', ver', body')
<1>0. /\ tail # 0 /\ tail = last /\ last < MaxIdx
      /\ Placed(hdr, first, last, tail) /\ CardOK
      /\ hdr \in [Slots -> 0..Gone] /\ ver \in [Slots -> 1..2] /\ body \in [Slots -> Row]
      /\ tail \in Nat /\ first \in Nat
  BY Sizes DEF SpareDue, Recording, TypeInv, CardOK, RingOK, RamOK
<1>1. ToRetire \in 0..(tail - first)  BY <1>0, ToRetireIs
<1>2. \A m : Retired(m) = RetireIn(hdr, first, m)  BY DEF Retired, RetireIn
<1>3. \A z \in LiveIn(hdr') : SlotOf(z) \in Slots  BY SlotIn DEF LiveIn
<1>4. ASSUME n < ToRetire, hdr' \in {Retired(n), Retired(n + 1)}, UNCHANGED <<ver, body>>
      PROVE  Kept(hdr, ver, body, hdr', ver', body')
  <2>1. PICK m \in {n, n + 1} : hdr' = RetireIn(hdr, first, m)  BY <1>4, <1>2
  <2>2. m \in 0..(tail - first)  BY <2>1, <1>0, <1>1, <1>4
  <2>3. LiveIn(hdr') \subseteq LiveIn(hdr)  BY <2>1, <2>2, <1>0, RetireLive
  <2> QED  BY <2>3, <1>4 DEF Kept
<1>5. ASSUME n = ToRetire, hdr' = Retired(n), UNCHANGED ver,
             body' \in {body, [body EXCEPT ![NextSlot] = Blank]}
      PROVE  Kept(hdr, ver, body, hdr', ver', body')
  <2>1. n \in 0..(tail - first) /\ hdr' = RetireIn(hdr, first, n)  BY <1>5, <1>1, <1>2
  <2>2. LiveIn(hdr') \subseteq LiveIn(hdr)  BY <2>1, <1>0, RetireLive
  <2>3. \A s \in Slots : body'[s] = body[s] \/ body'[s] = Blank  BY <1>0, <1>5
  <2> QED  BY <2>2, <2>3, <1>3, <1>5 DEF Kept
<1>6. ASSUME n = ToRetire, CanActivate,
             hdr' = [Retired(n) EXCEPT ![NextSlot] = last + 1],
             ver' = [ver EXCEPT ![NextSlot] = ver[SlotOf(last)]],
             body' = [body EXCEPT ![NextSlot] = Blank]
      PROVE  Kept(hdr, ver, body, hdr', ver', body')
  <2>1. LiveIn(hdr') \subseteq LiveIn(hdr) \cup {last + 1} /\ last + 1 \in LiveIn(hdr')
        /\ NextSlot \in Slots
    BY <1>6, SpareRing
  <2> SUFFICES ASSUME NEW z \in LiveIn(hdr')
               PROVE  \/ body'[SlotOf(z)] = Blank
                      \/ z \in LiveIn(hdr) /\ ver'[SlotOf(z)] = ver[SlotOf(z)]
                         /\ body'[SlotOf(z)] = body[SlotOf(z)]
    BY DEF Kept
  <2>2. CASE z = last + 1
    <3>1. SlotOf(z) = NextSlot  BY <2>2 DEF NextSlot
    <3> QED  BY <3>1, <2>1, <1>0, <1>6
  <2>3. CASE z # last + 1
    <3>1. SlotOf(z) # NextSlot  BY <2>1, <2>3, SlotOwn DEF NextSlot
    <3> QED  BY <3>1, <2>1, <2>3, <1>0, <1>3, <1>6
  <2> QED  BY <2>2, <2>3
<1> QED  BY <1>4, <1>5, <1>6 DEF PartlyPrepared

LEMMA KeptPrepares ==
  ASSUME TypeInv, RingOK,
         \/ PrepareFirst \/ PrepareFirstFails \/ PrepareSpare \/ PrepareFails \/ PrepareCut
         \/ Clear \/ ClearCut
  PROVE  Kept(hdr, ver, body, hdr', ver', body')
<1>1. CASE PrepareFirst
  <2>1. hdr' = [s \in Slots |-> IF s = 1 THEN 1 ELSE Free] /\ body' = [body EXCEPT ![1] = Blank]
    BY <1>1 DEF PrepareFirst
  <2>2. LiveIn(hdr') = {1} /\ SlotOf(1) = 1 /\ 1 \in Slots  BY <2>1, FirstRing
  <2>3. body'[1] = Blank  BY <2>1, <2>2 DEF TypeInv, CardOK
  <2> QED  BY <2>2, <2>3 DEF Kept
<1>2. CASE PrepareFirstFails
  <2>1. LiveIn(hdr') = {}  BY <1>2, BasePrepareFirstFails
  <2> QED  BY <2>1 DEF Kept
<1>3. CASE PrepareSpare
  <2>1. SpareDue /\ tail # 0  BY <1>3 DEF PrepareSpare, SpareDue, Recording
  <2>2. ToRetire \in 0..ToRetire
    <3>1. ToRetire \in 0..(tail - first)  BY <2>1, ToRetireIs
    <3> QED  BY <3>1
  <2> QED  BY <2>1, <2>2, <1>3, KeptPrepare DEF PrepareSpare
<1>4. CASE PrepareFails \/ PrepareCut
  <2>1. SpareDue /\ \E n \in 0..ToRetire : PartlyPrepared(n)
    BY <1>4 DEF PrepareFails, PrepareCut
  <2> QED  BY <2>1, KeptPrepare
<1>5. CASE Clear
  <2>1. LiveIn(hdr') = {}  BY <1>5, BaseClear
  <2> QED  BY <2>1 DEF Kept
<1>6. CASE ClearCut
  <2>1. PICK m \in 1..(Ring - 1) : hdr' = [s \in Slots |-> IF s <= m THEN Gone ELSE hdr[s]]
    BY <1>6 DEF ClearCut
  <2>2. m \in Nat  BY Sizes
  <2>3. LiveIn(hdr') \subseteq LiveIn(hdr)
    BY <2>1, <2>2, DeleteRing DEF TypeInv, CardOK, RingOK
  <2> QED  BY <2>3, <1>6 DEF ClearCut, Kept
<1> QED  BY <1>1, <1>2, <1>3, <1>4, <1>5, <1>6

\* The writes of a batch; the other operations put nothing on the card.
Writes == WriteNext \/ WriteLost \/ WriteFails \/ (Crash /\ pc = "write")

LEMMA KeptNext ==
  ASSUME TypeInv, RingOK, [JournalNext]_vars
  PROVE  Writes \/ Kept(hdr, ver, body, hdr', ver', body')
<1>1. CASE Open \/ OpenFails \/ OpenCut  BY <1>1, KeptOpens
<1>2. CASE Chain \/ ReheadFails \/ ReheadCut  BY <1>2, KeptRehead
<1>3. CASE \/ PrepareFirst \/ PrepareFirstFails \/ PrepareSpare \/ PrepareFails \/ PrepareCut
           \/ Clear \/ ClearCut
  BY <1>3, KeptPrepares
<1>4. CASE RecordStep \/ TakeBack \/ Flush \/ Verified \/ Unverified \/ UNCHANGED vars
  <2>1. UNCHANGED card  BY <1>4 DEF RecordStep, TakeBack, Flush, Verified, Unverified, vars
  <2> QED  BY <2>1, KeptSame DEF card
<1>5. CASE Crash /\ pc # "write"
  <2>1. UNCHANGED <<hdr, ver, body>>  BY <1>5 DEF Crash
  <2> QED  BY <2>1, KeptSame
<1>6. CASE WriteNext \/ WriteLost \/ WriteFails \/ (Crash /\ pc = "write")
  BY <1>6 DEF Writes
<1> QED  BY <1>1, <1>2, <1>3, <1>4, <1>5, <1>6 DEF JournalNext

\* A write changes one cell of a live segment: it holds what it held, nothing,
\* or the record.
LEMMA WritesOne ==
  ASSUME TypeInv, RingOK, Writes
  PROVE  /\ UNCHANGED <<hdr, ver>> /\ pc = "write" /\ left \in 1..Len(todo)
         /\ todo[left] \in Puts /\ todo[left].seg \in LiveIn(hdr) /\ IsJob(todo) /\ tail # 0
         /\ \E c \in {Cells(todo[left].seg)[todo[left].at], Void, todo[left].rec} :
               Lands(todo[left], c)
<1>1. pc = "write" /\ UNCHANGED <<hdr, ver>>
  BY DEF Writes, WriteNext, WriteLost, WriteFails, Crash
<1>2. \E c \in {Cells(todo[left].seg)[todo[left].at], Void, todo[left].rec} : Lands(todo[left], c)
  BY <1>1 DEF Writes, WriteNext, WriteLost, WriteFails, Crash, Torn
<1>3. IsJob(todo) /\ tail # 0  BY <1>1 DEF TypeInv, JobOK
<1> QED  BY <1>1, <1>2, <1>3, JobPut

LEMMA LandsCell ==
  ASSUME TypeInv, NEW p \in Puts, p.seg \in LiveIn(hdr), NEW c, Lands(p, c)
  PROVE  \A z \in LiveIn(hdr), i \in 1..SegCap :
           body'[SlotOf(z)][i] = IF z = p.seg /\ i = p.at THEN c ELSE body[SlotOf(z)][i]
<1>1. body \in [Slots -> Row] /\ p.at \in 1..SegCap  BY DEF TypeInv, CardOK, Puts
<1>2. \A z \in LiveIn(hdr) : SlotOf(z) \in Slots /\ body[SlotOf(z)] \in Row
  BY <1>1, SlotIn DEF LiveIn
<1>3. body' = [body EXCEPT ![SlotOf(p.seg)][p.at] = c]  BY DEF Lands
<1> SUFFICES ASSUME NEW z \in LiveIn(hdr), NEW i \in 1..SegCap
             PROVE  body'[SlotOf(z)][i] = IF z = p.seg /\ i = p.at THEN c ELSE body[SlotOf(z)][i]
  OBVIOUS
<1>4. CASE z = p.seg  BY <1>1, <1>2, <1>3, <1>4 DEF Row
<1>5. CASE z # p.seg
  <2>1. SlotOf(z) # SlotOf(p.seg)  BY <1>5, SlotOwn
  <2> QED  BY <2>1, <1>1, <1>2, <1>3, <1>5
<1> QED  BY <1>4, <1>5

LEMMA StepsMore ==
  ASSUME NEW h, NEW b, NEW S, NEW S2, S \subseteq S2, StepsOn(h, b, S) PROVE StepsOn(h, b, S2)
  BY DEF StepsOn

LEMMA StepsInit == JournalInit => StepsOK /\ ChainsOK
<1> SUFFICES ASSUME JournalInit PROVE StepsOK /\ ChainsOK
  OBVIOUS
<1>1. LiveIn(hdr) = {}  BY GoneRing DEF JournalInit
<1>2. InPend = {} /\ pc = "idle"  BY DEF JournalInit, InPend
<1> QED  BY <1>1, <1>2 DEF StepsOK, ChainsOK, StepsOn, ChainsOn

LEMMA PendGone ==
  ASSUME pend' = <<>> PROVE InPend' = {}
  BY DEF InPend

LEMMA JobSteps ==
  ASSUME TypeInv, tail # 0, NEW p, IsJob(p)
  PROVE  /\ DOMAIN p = 1..Len(p) /\ Len(p) \in Nat
         /\ \A k \in 1..Len(p) : /\ p[k].rec.step \in 1..made
                                 /\ pend # <<>> => p[k].rec.step \in InPend
                                 /\ pend = <<>> => p[k].rec.step = made
<1>1. PICK a \in Nat, b \in Nat :
           /\ PlanOf(p, tail, off, a, b, next - Len(pend))
           /\ \A k \in 1..(a + b) : p[k].rec.step \in 1..made
           /\ pend # <<>> => /\ Len(pend) = a + b
                             /\ \A k \in 1..(a + b) : p[k].rec = pend[k]
           /\ pend = <<>> => \A k \in 1..(a + b) : p[k].rec.part = k - 1 /\ p[k].rec.step = made
  BY JobIs
<1>2. Len(p) = a + b /\ DOMAIN p = 1..(a + b)  BY <1>1 DEF PlanOf
<1>3. Len(p) \in Nat /\ DOMAIN p = 1..Len(p)  BY <1>1, <1>2
<1>4. ASSUME NEW k \in 1..Len(p), pend # <<>> PROVE p[k].rec.step \in InPend
  <2>1. p[k].rec = pend[k] /\ k \in 1..Len(pend)  BY <1>1, <1>2, <1>4
  <2> QED  BY <2>1 DEF InPend
<1>5. \A k \in 1..Len(p) : /\ p[k].rec.step \in 1..made
                           /\ pend = <<>> => p[k].rec.step = made
  BY <1>1, <1>2
<1> QED  BY <1>3, <1>4, <1>5

\* With nothing pending but what was, or nothing at all, and nothing written.
LEMMA StepsSame ==
  ASSUME TypeInv, StepsOK, Kept(hdr, ver, body, hdr', ver', body'), UNCHANGED <<made, undone>>,
         \/ pend' = <<>>
         \/ pend' = pend /\ (stopped' \/ pc' # "idle" \/ (~stopped /\ pc = "idle")),
         pc' # "idle" => /\ pc # "idle" /\ todo' = todo
  PROVE  StepsOK'
<1>1. StepsOn(hdr', body', (1..made) \ undone)
  BY KeptSteps DEF StepsOK
<1>2. \A S : (1..made) \ S \subseteq Nat \ {}  BY DEF TypeInv, HistoryOK
<1>3. InPend' = {} \/ InPend' = InPend  BY PendGone DEF InPend
<1>4. InPend' \cap undone = {}  BY <1>3 DEF StepsOK
<1>5. CASE pend' = <<>>
  <2>1. StepsOn(hdr', body', Nat \ InPend')  BY <1>1, <1>2, <1>5, PendGone, StepsMore
  <2> QED  BY <2>1, <1>1, <1>4 DEF StepsOK
<1>6. CASE pend' = pend /\ (stopped' \/ pc' # "idle" \/ (~stopped /\ pc = "idle"))
  <2>1. InPend' = InPend  BY <1>6 DEF InPend
  <2>2. ~stopped /\ pc = "idle" => StepsOn(hdr', body', Nat \ InPend)
    BY KeptSteps DEF StepsOK
  <2> QED  BY <2>1, <2>2, <1>1, <1>4, <1>6 DEF StepsOK
<1> QED  BY <1>5, <1>6

LEMMA StepsRecord ==
  ASSUME TypeInv, StepsOK, RecordStep
  PROVE  StepsOK'
<1>0. /\ pc = "idle" /\ pc' = "idle" /\ ~stopped /\ stopped' = stopped
      /\ pend' = Append(pend, Record(next, made + 1, 0, 1)) /\ made' = made + 1
      /\ UNCHANGED <<card, undone>> /\ pend \in Seq(Rec) /\ made \in Nat
      /\ undone \subseteq 1..made
  BY DEF RecordStep, Resting, Recording, job, TypeInv, PendOK, HistoryOK
<1>1. InPend' = InPend \cup {made + 1}
  <2> DEFINE n == Len(pend)
             r == Record(next, made + 1, 0, 1)
  <2>1. r.step = made + 1  BY RecordIs
  <2> HIDE DEF r
  <2>2. /\ n \in Nat /\ Len(pend') = n + 1 /\ pend'[n + 1] = r
        /\ \A i \in 1..n : pend'[i] = pend[i]
    BY <1>0 DEF r
  <2>3. \A i \in 1..(n + 1) : i \in 1..n \/ i = n + 1  BY <2>2
  <2> QED  BY <2>1, <2>2, <2>3 DEF InPend
<1>2. StepsOn(hdr', body', (1..made') \ undone')
  <2>1. (1..made) \ undone \subseteq (1..(made + 1)) \ undone  BY <1>0
  <2>2. StepsOn(hdr, body, (1..(made + 1)) \ undone)  BY <2>1, StepsMore DEF StepsOK
  <2> QED  BY <2>2, <1>0 DEF card
<1>3. StepsOn(hdr', body', Nat \ InPend')
  <2>1. StepsOn(hdr, body, (1..made) \ undone) /\ StepsOn(hdr, body, Nat \ InPend)
    BY <1>0 DEF StepsOK
  <2>2. \A x \in (1..made) \ undone : x \in Nat \ InPend => x \in Nat \ (InPend \cup {made + 1})
    BY <1>0
  <2>3. StepsOn(hdr, body, Nat \ (InPend \cup {made + 1}))  BY <2>1, <2>2 DEF StepsOn
  <2> QED  BY <2>3, <1>0, <1>1 DEF card
<1>4. InPend' \cap undone' = {}
  <2>1. made + 1 \notin undone  BY <1>0
  <2> QED  BY <2>1, <1>0, <1>1 DEF StepsOK
<1> QED  BY <1>0, <1>2, <1>3, <1>4 DEF StepsOK

LEMMA StepsTakeBack ==
  ASSUME TypeInv, StepsOK, TakeBack
  PROVE  StepsOK'
<1>0. /\ pc = "idle" /\ pc' = "idle" /\ ~stopped /\ stopped' = stopped
      /\ pend' = Front(pend) /\ pend # <<>> /\ undone' = undone \cup {Last(pend).step}
      /\ UNCHANGED <<card, made>> /\ pend \in Seq(Rec) /\ made \in Nat
  BY DEF TakeBack, Resting, Recording, job, TypeInv, PendOK, HistoryOK
<1> DEFINE n == Len(pend)
           s == Last(pend).step
<1>1. /\ n \in Nat /\ n >= 1 /\ s = pend[n].step /\ Len(pend') = n - 1
      /\ \A i \in 1..(n - 1) : pend'[i] = pend[i]
  BY <1>0, FrontIs
<1>2. s \in InPend  BY <1>1 DEF InPend
<1>3. InPend' \subseteq InPend \ {s}
  <2>1. \A i \in 1..(n - 1) : pend[i].step < pend[n].step  BY <1>1 DEF TypeInv, PendOK
  <2>2. \A i \in 1..n : pend[i].step \in Nat
    <3>1. \A i \in 1..n : pend[i] \in Rec  BY <1>0
    <3> QED  BY <3>1 DEF Rec
  <2>3. \A i \in 1..(n - 1) : pend'[i].step \in InPend \ {s}
    <3> TAKE i \in 1..(n - 1)
    <3>1. i \in 1..n /\ n \in 1..n  BY <1>1
    <3>2. pend[i].step # pend[n].step  BY <3>1, <2>1, <2>2
    <3> QED  BY <3>1, <3>2, <1>1 DEF InPend
  <2> QED  BY <2>3, <1>1 DEF InPend
<1> HIDE DEF n, s
<1>4. StepsOn(hdr', body', (1..made') \ undone')
  <2>1. StepsOn(hdr, body, (1..made) \ undone) /\ StepsOn(hdr, body, Nat \ InPend)
    BY <1>0 DEF StepsOK
  <2>2. StepsOn(hdr, body, (1..made) \ (undone \cup {s}))  BY <2>1, <1>2 DEF StepsOn
  <2> QED  BY <2>2, <1>0 DEF card, s
<1>5. StepsOn(hdr', body', Nat \ InPend')
  <2>1. StepsOn(hdr, body, Nat \ InPend)  BY <1>0 DEF StepsOK
  <2>2. Nat \ InPend \subseteq Nat \ InPend'  BY <1>3
  <2>3. StepsOn(hdr, body, Nat \ InPend')  BY <2>1, <2>2, StepsMore
  <2> QED  BY <2>3, <1>0 DEF card
<1>6. InPend' \cap undone' = {}  BY <1>0, <1>3 DEF StepsOK, s
<1> QED  BY <1>0, <1>4, <1>5, <1>6 DEF StepsOK

\* What a job writes are steps of the session.
TodoSteps ==
  pc # "idle" =>
    \A k \in 1..Len(todo) : /\ todo[k].rec.step \in 1..made
                            /\ pend # <<>> => todo[k].rec.step \in InPend
                            /\ pend = <<>> => todo[k].rec.step = made
LEMMA TodoStepsNow == TypeInv => TodoSteps
  BY JobSteps DEF TypeInv, JobOK, TodoSteps

\* A batch begins.
LEMMA StepsBegin ==
  ASSUME TypeInv, RingOK, StepsOK, Flush \/ Chain
  PROVE  StepsOK'
<1>0. TypeInv' /\ RingOK' /\ Kept(hdr, ver, body, hdr', ver', body')
  <2>1. ~Writes
    BY DEF Writes, Flush, Chain, WriteNext, WriteLost, WriteFails, MayChain
  <2>2. JournalNext  BY DEF JournalNext
  <2> QED  BY <2>1, <2>2, BaseFlush, BaseChain, KeptNext
<1>1. /\ pc' = "write" /\ UNCHANGED <<pend, undone, tail>> /\ tail # 0
  BY DEF Flush, Chain, Begin, ram, Recording, MayChain
<1>2. /\ (1..made) \subseteq 1..made' /\ made \in Nat /\ undone \subseteq 1..made
      /\ pend = <<>> => made' = made + 1
  BY DEF TypeInv, HistoryOK, Flush, Chain, MayChain
<1>3. StepsOn(hdr', body', (1..made') \ undone')
  <2>1. (1..made) \ undone \subseteq (1..made') \ undone  BY <1>2
  <2>2. StepsOn(hdr', body', (1..made') \ undone)  BY <2>1, <1>0, KeptSteps DEF StepsOK
  <2> QED  BY <2>2, <1>1
<1>4. InPend' = InPend  BY <1>1 DEF InPend
<1>5. \A k \in 1..Len(todo') : todo'[k].rec.step \in (1..made') \ undone'
  <2>1. (TypeInv => TodoSteps)'  BY TodoStepsNow, PTL
  <2>2. \A k \in 1..Len(todo') : /\ todo'[k].rec.step \in 1..made'
                                 /\ pend' # <<>> => todo'[k].rec.step \in InPend'
                                 /\ pend' = <<>> => todo'[k].rec.step = made'
    BY <2>1, <1>0, <1>1 DEF TodoSteps
  <2>3. pend = <<>> => made' \notin undone  BY <1>2
  <2> QED  BY <2>2, <2>3, <1>1, <1>4 DEF StepsOK
<1> QED  BY <1>1, <1>3, <1>4, <1>5 DEF StepsOK

\* A record of it gets into its cell, or does not.
LEMMA StepsWrite ==
  ASSUME TypeInv, RingOK, StepsOK, Writes
  PROVE  StepsOK'
<1>0. /\ UNCHANGED <<hdr, ver, made, undone>> /\ pc = "write" /\ left \in 1..Len(todo)
      /\ todo[left] \in Puts /\ todo[left].seg \in LiveIn(hdr)
      /\ \E c \in {Cells(todo[left].seg)[todo[left].at], Void, todo[left].rec} :
            Lands(todo[left], c)
  BY WritesOne DEF Writes, WriteNext, WriteLost, WriteFails, Crash, history
<1>1. PICK c \in {Cells(todo[left].seg)[todo[left].at], Void, todo[left].rec} :
            Lands(todo[left], c)
  BY <1>0
<1>2. todo[left].at \in 1..SegCap /\ todo[left].rec.step \in (1..made) \ undone
  BY <1>0 DEF Puts, StepsOK
<1>3. StepsOn(hdr', body', (1..made') \ undone')
  <2> SUFFICES ASSUME NEW z \in LiveIn(hdr), NEW i \in 1..SegCap, body'[SlotOf(z)][i] # Void
               PROVE  body'[SlotOf(z)][i].step \in (1..made) \ undone
    BY <1>0 DEF StepsOn
  <2>1. body'[SlotOf(z)][i] = IF z = todo[left].seg /\ i = todo[left].at THEN c
                              ELSE body[SlotOf(z)][i]
    BY <1>0, <1>1, LandsCell
  <2>2. body'[SlotOf(z)][i] = body[SlotOf(z)][i] \/ body'[SlotOf(z)][i] = todo[left].rec
    BY <2>1, <1>1 DEF Cells
  <2> QED  BY <2>2, <1>2 DEF StepsOK, StepsOn
<1>4. CASE WriteNext \/ WriteLost
  <2>1. pc' # "idle" /\ UNCHANGED <<pend, todo>>  BY <1>4 DEF WriteNext, WriteLost, ram
  <2>2. InPend' = InPend  BY <2>1 DEF InPend
  <2> QED  BY <2>1, <2>2, <1>0, <1>3 DEF StepsOK
<1>5. CASE WriteFails
  <2>1. pc' = "idle" /\ stopped' /\ UNCHANGED pend  BY <1>5 DEF WriteFails, JobOver
  <2>2. InPend' = InPend  BY <2>1 DEF InPend
  <2> QED  BY <2>1, <2>2, <1>0, <1>3 DEF StepsOK
<1>6. CASE Crash
  <2>1. pc' = "idle" /\ pend' = <<>>  BY <1>6 DEF Crash, Down
  <2>2. InPend' = {}  BY <2>1, PendGone
  <2>3. StepsOn(hdr', body', Nat \ InPend')
    <3>1. (1..made') \ undone' \subseteq Nat \ {}  BY <1>0 DEF TypeInv, HistoryOK
    <3> QED  BY <3>1, <2>2, <1>3, StepsMore
  <2> QED  BY <2>1, <2>2, <2>3, <1>3 DEF StepsOK
<1> QED  BY <1>4, <1>5, <1>6 DEF Writes

\* The card can read back what it wrote.
ReadsBack == "reread" \notin Kinds

LEMMA StepsNext ==
  ASSUME TypeInv, RingOK, StepsOK, ReadsBack, [JournalNext]_vars
  PROVE  StepsOK'
<1>1. CASE RecordStep  BY <1>1, StepsRecord
<1>2. CASE TakeBack  BY <1>2, StepsTakeBack
<1>3. CASE Flush \/ Chain  BY <1>3, StepsBegin
<1>4. CASE Writes  BY <1>4, StepsWrite
<1>5. CASE ~Writes /\ ~RecordStep /\ ~TakeBack /\ ~Flush /\ ~Chain
  <2>1. Kept(hdr, ver, body, hdr', ver', body')  BY <1>5, KeptNext
  <2>2. CASE \/ Open \/ OpenFails \/ OpenCut \/ ReheadCut \/ Crash
             \/ PrepareFirstFails \/ PrepareCut \/ Clear \/ ClearCut
    <3>1. pc' = "idle" /\ pend' = <<>> /\ UNCHANGED <<made, undone>>
      BY <2>2 DEF TypeInv, JobOK, Open, Opened, OpenFails, OpenCut, ReheadCut, Crash,
         PrepareFirstFails, PrepareCut, Clear, ClearCut, Down, Resting, history, job
    <3> QED  BY <3>1, <2>1, StepsSame
  <2>3. CASE ReheadFails \/ PrepareFirst \/ PrepareSpare \/ PrepareFails \/ UNCHANGED vars
    <3>1. UNCHANGED <<pc, todo, pend, stopped, made, undone>>
      BY <2>3 DEF ReheadFails, PrepareFirst, PrepareSpare, PrepareFails, Resting, history, job,
         vars, ram
    <3> QED  BY <3>1, <2>1, StepsSame
  <2>4. CASE Verified
    <3>1. pc' = "idle" /\ pend' = <<>> /\ UNCHANGED <<made, undone>>
      BY <2>4 DEF Verified, JobOver
    <3> QED  BY <3>1, <2>1, StepsSame
  <2>5. CASE Unverified
    <3>1. pc' = "idle" /\ stopped' /\ UNCHANGED <<pend, made, undone>>
      BY <2>5 DEF Unverified, JobOver, ReadsBack, Mishap, history
    <3> QED  BY <3>1, <2>1, StepsSame
  <2> QED  BY <1>5, <2>2, <2>3, <2>4, <2>5 DEF JournalNext, Writes
<1> QED  BY <1>1, <1>2, <1>3, <1>4, <1>5

LEMMA StepsHold == ReadsBack /\ JournalSpec => [](TypeInv /\ RingOK /\ StepsOK)
<1>1. ReadsBack /\ JournalInit => TypeInv /\ RingOK /\ StepsOK  BY BaseInit, StepsInit
<1>2. ReadsBack /\ TypeInv /\ RingOK /\ StepsOK /\ [JournalNext]_vars
        => (TypeInv /\ RingOK /\ StepsOK)'
  BY BaseNext, StepsNext
<1>3. ReadsBack => []ReadsBack
  <2>1. ReadsBack => ReadsBack'  BY DEF ReadsBack
  <2> QED  BY <2>1, PTL
<1> QED  BY <1>1, <1>2, <1>3, PTL DEF JournalSpec

\* The steps a reopen finds are in live cells.
LEMMA FoundLive ==
  ASSUME CardOK, NEW e \in Recovered
  PROVE  \E z \in LiveIn(hdr), i \in 1..SegCap :
           body[SlotOf(z)][i] # Void /\ e.step = body[SlotOf(z)][i].step
<1>1. LiveIn(hdr) # {} /\ e \in Found(Rows)  BY CardNow DEF Recovered
<1>2. /\ IsRows(Rows, Oldest, Newest)
      /\ \A s \in Oldest..Newest : Rows[s] = body[SlotOf(s)]
      /\ Oldest..Newest \subseteq LiveIn(hdr)
  BY <1>1, ScanIs, CardNow, RangeFacts
<1>3. PICK seg \in Visited(Rows) : e \in HeadsIn(Rows[seg])  BY <1>1 DEF Found
<1>4. seg \in Oldest..Newest  BY <1>2, RowsFacts DEF Visited
<1>5. PICK i \in 1..RunLen(Rows[seg]) : e = Entry(Rows[seg][i])  BY <1>3 DEF HeadsIn
<1>6. RunLen(Rows[seg]) \in 0..SegCap /\ WholeRun(Rows[seg], RunLen(Rows[seg]))  BY RunLenFact
<1>7. i \in 1..SegCap /\ Rows[seg][i] # Void  BY <1>5, <1>6, Sizes DEF WholeRun
<1> QED  BY <1>2, <1>4, <1>5, <1>7 DEF Entry

\* On a card that reads back what it wrote, a step that was taken back while it
\* was pending is in no live cell, so that no reopen finds it.
THEOREM TakenBackStays == ReadsBack /\ JournalSpec => []UndoneStaysUndone
<1>1. TypeInv /\ RingOK /\ StepsOK => UndoneStaysUndone
  <2> SUFFICES ASSUME TypeInv, StepsOK, NEW e \in Recovered, e.step \in undone PROVE FALSE
    BY DEF UndoneStaysUndone
  <2>1. PICK z \in LiveIn(hdr), i \in 1..SegCap :
           body[SlotOf(z)][i] # Void /\ e.step = body[SlotOf(z)][i].step
    BY FoundLive DEF TypeInv
  <2> QED  BY <2>1 DEF StepsOK, StepsOn
<1> QED  BY <1>1, StepsHold, PTL

--------------------------------
\* What the operations do to the rows: a batch is begun, written and done;
\* old rows go and blank ones come; a repair zeroes a window.

LEMMA LandingNarrow ==
  ASSUME NEW R, NEW lo, NEW hi, IsRows(R, lo, hi),
         NEW R2, NEW lo2, NEW hi2, IsRows(R2, lo2, hi2),
         NEW T \in lo..hi, NEW O \in 1..(SegCap + 1), Settled(R, T, O),
         NEW e, NEW a, NEW b, NEW q, Landing(R, T, O, e, a, b, q),
         lo <= lo2, T \in lo2..hi2,
         \A s \in lo2..hi2 : \/ s <= hi /\ R2[s] = R[s]
                             \/ s > T /\ Blanks(R2[s], 0)
  PROVE  Settled(R2, T, O) /\ Landing(R2, T, O, e, a, b, q)
<1>0. /\ DOMAIN R = lo..hi /\ lo \in Nat /\ hi \in Nat /\ T \in Nat
      /\ DOMAIN R2 = lo2..hi2 /\ lo2 \in Nat /\ hi2 \in Nat
  BY RowsFacts
<1>1. R2[T] = R[T] /\ \A s \in lo2..(T - 1) : R2[s] = R[s]  BY <1>0
<1>2. Settled(R2, T, O) /\ ExpectThere(R2, T, O) \subseteq ExpectThere(R, T, O)
  BY <1>0, <1>1, SettledNarrow
<1>3. /\ a \in Nat /\ b \in Nat /\ q \in Nat /\ a <= ZWindow /\ b <= ZWindow /\ O + a <= SegCap + 1
      /\ \A k \in 1..(a + b) : e[k].seq = q + k - 1
      /\ ExpectThere(R, T, O) \subseteq {q}
      /\ \A i \in 1..SegCap : i >= O => R[T][i] = Void \/ (i < O + a /\ R[T][i] = e[i - O + 1])
      /\ T + 1 \in DOMAIN R =>
           \A i \in 1..SegCap : R[T + 1][i] = Void \/ (i <= b /\ R[T + 1][i] = e[a + i])
      /\ \A s \in DOMAIN R : s > T + 1 => Blanks(R[s], 0)
      /\ b > 0 => O > 1 \/ T - 1 \notin DOMAIN R
      /\ b > 0 => a = 0 \/ (O > 1 /\ O + a = SegCap + 1)
  BY DEF Landing
<1>4. ASSUME T + 1 \in DOMAIN R2
      PROVE  \A i \in 1..SegCap : R2[T + 1][i] = Void \/ (i <= b /\ R2[T + 1][i] = e[a + i])
  <2>1. CASE T + 1 <= hi /\ R2[T + 1] = R[T + 1]
    <3>1. T + 1 \in DOMAIN R  BY <2>1, <1>0
    <3> QED  BY <3>1, <2>1, <1>3
  <2>2. CASE Blanks(R2[T + 1], 0)  BY <2>2 DEF Blanks
  <2> QED  BY <2>1, <2>2, <1>4, <1>0
<1>5. ASSUME NEW s \in DOMAIN R2, s > T + 1 PROVE Blanks(R2[s], 0)
  <2>1. CASE s <= hi /\ R2[s] = R[s]
    <3>1. s \in DOMAIN R  BY <2>1, <1>0, <1>5
    <3> QED  BY <3>1, <2>1, <1>3, <1>5
  <2> QED  BY <2>1, <1>0
<1>6. T - 1 \notin DOMAIN R => T - 1 \notin DOMAIN R2  BY <1>0
<1>7. Landing(R2, T, O, e, a, b, q)
  BY <1>1, <1>2, <1>3, <1>4, <1>5, <1>6 DEF Landing
<1> QED  BY <1>2, <1>7

LEMMA RowSame ==
  ASSUME NEW row \in Row, NEW row2 \in Row, \A i \in 1..SegCap : row2[i] = row[i]
  PROVE  row2 = row
<1> DEFINE C == 1..SegCap
<1>1. row \in [C -> Rec] /\ row2 \in [C -> Rec] /\ \A i \in C : row2[i] = row[i]  BY DEF Row
<1> HIDE DEF C
<1> QED  BY <1>1

\* Cells at and behind the place of a batch hold its records or nothing.
LEMMA LandingWrite ==
  ASSUME NEW R, NEW lo, NEW hi, IsRows(R, lo, hi),
         NEW R2, IsRows(R2, lo, hi),
         NEW T \in lo..hi, NEW O \in 1..(SegCap + 1), Settled(R, T, O),
         NEW e, NEW a, NEW b, NEW q, Landing(R, T, O, e, a, b, q),
         \A s \in lo..hi, i \in 1..SegCap :
            \/ R2[s][i] = R[s][i]
            \/ s = T /\ i >= O /\ R2[s][i] = Void
            \/ s = T /\ i >= O /\ i < O + a /\ R2[s][i] = e[i - O + 1]
            \/ s = T + 1 /\ R2[s][i] = Void
            \/ s = T + 1 /\ i <= b /\ R2[s][i] = e[a + i]
  PROVE  /\ Settled(R2, T, O) /\ Landing(R2, T, O, e, a, b, q)
         /\ ExpectThere(R2, T, O) = ExpectThere(R, T, O)
<1>0. /\ DOMAIN R = lo..hi /\ lo \in Nat /\ hi \in Nat /\ T \in Nat
      /\ DOMAIN R2 = lo..hi /\ T \in lo..hi
  BY RowsFacts
<1>1. \A s \in lo..hi : s < T \/ s > T + 1 => R2[s] = R[s]
  <2> SUFFICES ASSUME NEW s \in lo..hi, s < T \/ s > T + 1 PROVE R2[s] = R[s]
    OBVIOUS
  <2>1. s # T /\ s # T + 1  BY <1>0
  <2>2. \A i \in 1..SegCap : R2[s][i] = R[s][i]  BY <2>1
  <2>3. R2[s] \in Row /\ R[s] \in Row  BY RowsFacts
  <2> QED  BY <2>2, <2>3, RowSame
<1>2. \A i \in 1..(O - 1) : R2[T][i] = R[T][i]
  <2> TAKE i \in 1..(O - 1)
  <2>1. i \in 1..SegCap /\ ~(i >= O) /\ T # T + 1  BY <1>0, Sizes
  <2> QED  BY <2>1
<1>3. /\ Settled(R2, T, O)
      /\ ExpectThere(R2, T, O) = ExpectThere(R, T, O)
  <2>1. lo <= lo /\ \A s \in lo..(T - 1) : R2[s] = R[s]  BY <1>0, <1>1
  <2> QED  BY <2>1, <1>0, <1>2, SettledNarrow
<1>4. /\ a \in Nat /\ b \in Nat /\ q \in Nat /\ a <= ZWindow /\ b <= ZWindow /\ O + a <= SegCap + 1
      /\ \A k \in 1..(a + b) : e[k].seq = q + k - 1
      /\ ExpectThere(R, T, O) \subseteq {q}
      /\ \A i \in 1..SegCap : i >= O => R[T][i] = Void \/ (i < O + a /\ R[T][i] = e[i - O + 1])
      /\ T + 1 \in DOMAIN R =>
           \A i \in 1..SegCap : R[T + 1][i] = Void \/ (i <= b /\ R[T + 1][i] = e[a + i])
      /\ \A s \in DOMAIN R : s > T + 1 => Blanks(R[s], 0)
      /\ b > 0 => O > 1 \/ T - 1 \notin DOMAIN R
      /\ b > 0 => a = 0 \/ (O > 1 /\ O + a = SegCap + 1)
  BY DEF Landing
<1>5. \A i \in 1..SegCap : i >= O => R2[T][i] = Void \/ (i < O + a /\ R2[T][i] = e[i - O + 1])
  <2> TAKE i \in 1..SegCap
  <2> HAVE i >= O
  <2>1. T # T + 1  BY <1>0
  <2>2. R2[T][i] = R[T][i] \/ R2[T][i] = Void \/ (i < O + a /\ R2[T][i] = e[i - O + 1])
    BY <2>1, <1>0
  <2> QED  BY <2>2, <1>4
<1>6. T + 1 \in DOMAIN R2 =>
        \A i \in 1..SegCap : R2[T + 1][i] = Void \/ (i <= b /\ R2[T + 1][i] = e[a + i])
  <2> SUFFICES ASSUME T + 1 \in lo..hi, NEW i \in 1..SegCap
               PROVE  R2[T + 1][i] = Void \/ (i <= b /\ R2[T + 1][i] = e[a + i])
    BY <1>0
  <2>1. T + 1 # T  BY <1>0
  <2>2. R2[T + 1][i] = R[T + 1][i] \/ R2[T + 1][i] = Void \/ (i <= b /\ R2[T + 1][i] = e[a + i])
    BY <2>1
  <2> QED  BY <2>2, <1>0, <1>4
<1>7. \A s \in DOMAIN R2 : s > T + 1 => Blanks(R2[s], 0)
  BY <1>0, <1>1, <1>4
<1>8. Landing(R2, T, O, e, a, b, q)
  BY <1>0, <1>3, <1>4, <1>5, <1>6, <1>7 DEF Landing
<1> QED  BY <1>3, <1>8

\* The records of a batch.
Recs(p) == [k \in DOMAIN p |-> p[k].rec]

LEMMA RecsIs ==
  ASSUME NEW p, NEW T, NEW O, NEW a, NEW b, NEW q, PlanOf(p, T, O, a, b, q)
  PROVE  /\ a \in Nat /\ b \in Nat /\ a + b \in Nat /\ DOMAIN p = 1..(a + b) /\ Len(p) = a + b
         /\ \A k \in 1..(a + b) : Recs(p)[k] = p[k].rec /\ p[k].rec \in Rec /\ p[k] \in Puts
<1>1. /\ a \in Nat /\ b \in Nat /\ p \in [1..(a + b) -> Puts] /\ Len(p) = a + b
  BY DEF PlanOf
<1>2. a + b \in Nat  BY <1>1
<1> DEFINE D == 1..(a + b)
<1> HIDE DEF D
<1>3. p \in [D -> Puts] /\ DOMAIN p = D  BY <1>1 DEF D
<1>4. \A k \in D : Recs(p)[k] = p[k].rec /\ p[k].rec \in Rec /\ p[k] \in Puts
  BY <1>3 DEF Recs, Puts
<1> QED  BY <1>1, <1>2, <1>3, <1>4 DEF D

\* A batch begins where nothing is.
LEMMA LandingStart ==
  ASSUME NEW R, NEW lo, NEW hi, IsRows(R, lo, hi),
         NEW T \in lo..hi, NEW O \in 1..(SegCap + 1),
         NEW e, NEW q, Landing(R, T, O, e, 0, 0, q),
         NEW p, NEW a, NEW b, PlanOf(p, T, O, a, b, q),
         b > 0 => O > 1 \/ T - 1 \notin DOMAIN R
  PROVE  Landing(R, T, O, Recs(p), a, b, q)
<1>1. /\ q \in Nat /\ ExpectThere(R, T, O) \subseteq {q}
      /\ \A i \in 1..SegCap : i >= O => R[T][i] = Void
      /\ T + 1 \in DOMAIN R => \A i \in 1..SegCap : R[T + 1][i] = Void
      /\ \A s \in DOMAIN R : s > T + 1 => Blanks(R[s], 0)
  <2>1. \A i \in 1..SegCap : ~(i >= O /\ i < O + 0) /\ ~(i <= 0)  OBVIOUS
  <2> QED  BY <2>1 DEF Landing
<1>2. /\ a \in Nat /\ b \in Nat /\ a <= ZWindow /\ b <= ZWindow /\ O + a <= SegCap + 1
      /\ \A k \in 1..(a + b) : p[k].rec.seq = q + k - 1
      /\ b > 0 => a = 0 \/ (O > 1 /\ O + a = SegCap + 1)
  BY DEF PlanOf
<1>3. \A k \in 1..(a + b) : Recs(p)[k].seq = q + k - 1
  <2>1. \A k \in 1..(a + b) : Recs(p)[k] = p[k].rec  BY RecsIs
  <2> QED  BY <2>1, <1>2
<1> QED  BY <1>1, <1>2, <1>3 DEF Landing

LEMMA RunTakes ==
  ASSUME NEW row \in Row, NEW m \in 0..SegCap, NEW k \in 1..SegCap, m + k <= SegCap,
         WholeRun(row, m), NEW q \in Nat,
         \A i \in 1..k : row[m + i].seq = q + i - 1 /\ row[m + i] # Void,
         \/ \A i \in 1..k : row[m + i].part = 0 /\ row[m + i].n = 1
         \/ (\A i \in 1..k : row[m + i].part = i - 1) /\ row[m + 1].n = k,
         m > 0 => row[m].seq + 1 = q
  PROVE  WholeRun(row, m + k)
<1>0. k \in 0..SegCap  BY Sizes
<1>1. CASE \A i \in 1..k : row[m + i].part = 0 /\ row[m + i].n = 1
  BY <1>0, <1>1, RunGrows
<1>2. CASE (\A i \in 1..k : row[m + i].part = i - 1) /\ row[m + 1].n = k
  BY <1>2, RunTakesChain
<1> QED  BY <1>1, <1>2

\* Where the records of a whole batch are.
Lies(R, p, n) ==
  \A k \in 1..n : p[k].seg \in DOMAIN R /\ R[p[k].seg][p[k].at] = p[k].rec

LEMMA DoneCells ==
  ASSUME NEW R, NEW lo, NEW hi, IsRows(R, lo, hi),
         NEW T \in lo..hi, NEW O \in 1..(SegCap + 1),
         NEW p, NEW a, NEW b, NEW q, PlanOf(p, T, O, a, b, q),
         Lies(R, p, a + b)
  PROVE  /\ \A k \in 1..a : R[T][O - 1 + k] = p[k].rec /\ k \in 1..(a + b)
         /\ b > 0 => T + 1 \in lo..hi
         /\ \A k \in 1..b : R[T + 1][k] = p[a + k].rec /\ a + k \in 1..(a + b)
<1>1. /\ a \in Nat /\ b \in Nat
      /\ \A k \in 1..a : p[k].seg = T /\ p[k].at = O + k - 1
      /\ \A k \in 1..b : p[a + k].seg = T + 1 /\ p[a + k].at = k
  BY DEF PlanOf
<1>2. \A k \in 1..a : k \in 1..(a + b) /\ O + k - 1 = O - 1 + k  BY <1>1
<1>3. \A k \in 1..a : R[T][O - 1 + k] = p[k].rec
  <2> TAKE k \in 1..a
  <2>1. R[p[k].seg][p[k].at] = p[k].rec  BY <1>2 DEF Lies
  <2> QED  BY <2>1, <1>1, <1>2
<1>4. \A k \in 1..b : R[T + 1][k] = p[a + k].rec /\ a + k \in 1..(a + b) /\ T + 1 \in lo..hi
  <2> TAKE k \in 1..b
  <2>1. PICK j \in 1..(a + b) : j = a + k  BY <1>1
  <2>2. R[p[j].seg][p[j].at] = p[j].rec /\ p[j].seg \in lo..hi  BY <2>1, RowsFacts DEF Lies
  <2>3. p[j].seg = T + 1 /\ p[j].at = k  BY <2>1, <1>1
  <2> QED  BY <2>1, <2>2, <2>3
<1>5. b > 0 => 1 \in 1..b  BY <1>1
<1> QED  BY <1>2, <1>3, <1>4, <1>5

\* The first part of it continues the run it follows.
LEMMA DoneFirst ==
  ASSUME NEW R, NEW lo, NEW hi, IsRows(R, lo, hi),
         NEW T \in lo..hi, NEW O \in 1..(SegCap + 1), Settled(R, T, O),
         NEW p, NEW a, NEW b, NEW q, PlanOf(p, T, O, a, b, q),
         Landing(R, T, O, Recs(p), a, b, q),
         Lies(R, p, a + b)
  PROVE  /\ O - 1 + a \in 0..SegCap /\ WholeRun(R[T], O - 1 + a)
         /\ RunLen(R[T]) = O - 1 + a /\ Blanks(R[T], O - 1 + a)
         /\ O - 1 + a > 0 => R[T][O - 1 + a].seq + 1 = q + a
         /\ a > 0 /\ T - 1 \in DOMAIN R => ContinuesAt(R, T)
<1> DEFINE w == O - 1 + a
<1>0. /\ DOMAIN R = lo..hi /\ lo \in Nat /\ hi \in Nat /\ T \in Nat /\ R[T] \in Row
      /\ a \in Nat /\ b \in Nat /\ q \in Nat /\ O + a <= SegCap + 1 /\ SegCap \in Nat
      /\ ExpectThere(R, T, O) \subseteq {q}
  BY RowsFacts, Sizes DEF Landing
<1>1. w \in 0..SegCap /\ O - 1 \in 0..SegCap /\ w \in Nat /\ O \in Nat  BY <1>0
<1>2. \A k \in 1..a : R[T][O - 1 + k] = p[k].rec /\ k \in 1..(a + b)  BY DoneCells
<1>3. /\ \A k \in 1..(a + b) : p[k].rec.seq = q + k - 1 /\ p[k].rec # Void
      /\ \/ \A k \in 1..(a + b) : p[k].rec.part = 0 /\ p[k].rec.n = 1
         \/ /\ a = 0 \/ b = 0
            /\ \A k \in 1..(a + b) : p[k].rec.part = k - 1
            /\ p[1].rec.n = a + b
  BY DEF PlanOf
<1>4. WholeRun(R[T], O - 1)  BY DEF Settled
<1>5. O - 1 > 0 => R[T][O - 1].seq + 1 = q
  <2>1. O - 1 > 0 => O > 1  BY <1>1
  <2>2. O > 1 => R[T][O - 1].seq + 1 \in {q}  BY <1>0 DEF ExpectThere
  <2> QED  BY <2>1, <2>2
<1>6. WholeRun(R[T], w)
  <2>1. CASE a = 0  BY <2>1, <1>1, <1>4
  <2>2. CASE a > 0
    <3>1. a \in 1..SegCap /\ O - 1 + a <= SegCap /\ 1 \in 1..a  BY <2>2, <1>0
    <3>2. \A i \in 1..a : R[T][O - 1 + i].seq = q + i - 1 /\ R[T][O - 1 + i] # Void
      BY <1>2, <1>3
    <3>3. \/ \A i \in 1..a : R[T][O - 1 + i].part = 0 /\ R[T][O - 1 + i].n = 1
          \/ (\A i \in 1..a : R[T][O - 1 + i].part = i - 1) /\ R[T][O - 1 + 1].n = a
      <4>1. CASE \A k \in 1..(a + b) : p[k].rec.part = 0 /\ p[k].rec.n = 1  BY <4>1, <1>2
      <4>2. CASE /\ a = 0 \/ b = 0
                 /\ \A k \in 1..(a + b) : p[k].rec.part = k - 1
                 /\ p[1].rec.n = a + b
        <5>1. a + b = a  BY <4>2, <2>2, <1>0
        <5> QED  BY <5>1, <4>2, <3>1, <1>2
      <4> QED  BY <4>1, <4>2, <1>3
    <3> QED  BY <3>1, <3>2, <3>3, <1>0, <1>1, <1>4, <1>5, RunTakes
  <2> QED  BY <2>1, <2>2, <1>0
<1>7. w > 0 => R[T][w].seq + 1 = q + a
  <2>1. CASE a = 0  BY <2>1, <1>0, <1>1, <1>5
  <2>2. CASE a > 0
    <3>1. a \in 1..a  BY <2>2, <1>0
    <3>2. R[T][w] = p[a].rec /\ p[a].rec.seq = q + a - 1  BY <3>1, <1>2, <1>3
    <3> QED  BY <3>2, <1>0
  <2> QED  BY <2>1, <2>2, <1>0
<1>8. Blanks(R[T], w)
  <2>1. \A i \in 1..SegCap : i > w => i >= O + a /\ i >= O  BY <1>0, <1>1
  <2>2. \A i \in 1..SegCap : i >= O + a /\ i >= O => R[T][i] = Void  BY <1>0 DEF Landing
  <2> QED  BY <2>1, <2>2 DEF Blanks
<1>9. RunLen(R[T]) = w
  <2>1. RunLen(R[T]) \in 0..SegCap /\ w <= RunLen(R[T])  BY <1>1, <1>6, RunLenFact
  <2>2. CASE w = SegCap  BY <2>1, <2>2, <1>1, <1>0
  <2>3. CASE w < SegCap
    <3>1. w \in 0..(SegCap - 1) /\ w + 1 \in 1..SegCap /\ w + 1 > w  BY <2>3, <1>1, <1>0
    <3>2. R[T][w + 1] = Void  BY <3>1, <1>8 DEF Blanks
    <3>3. RunLen(R[T]) <= w  BY <3>1, <3>2, <1>0, RunEnds
    <3> QED  BY <3>3, <2>1, <1>1, <1>0
  <2> QED  BY <2>2, <2>3, <1>1, <1>0
<1>10. ASSUME a > 0, T - 1 \in DOMAIN R PROVE ContinuesAt(R, T)
  <2>1. CASE O > 1
    <3>1. T \in DOMAIN R  BY <1>0
    <3> QED  BY <2>1, <3>1, <1>10 DEF Settled
  <2>2. CASE O = 1
    <3>1. 1 \in 1..a /\ O - 1 + 1 = 1  BY <2>2, <1>10, <1>0
    <3>2. R[T][1] = p[1].rec /\ 1 \in 1..(a + b)  BY <3>1, <1>2
    <3>3. p[1].rec.seq = q /\ p[1].rec # Void /\ p[1].rec.part = 0
      <4>1. p[1].rec.seq = q + 1 - 1 /\ p[1].rec # Void  BY <3>2, <1>3
      <4>2. p[1].rec.part = 0 \/ p[1].rec.part = 1 - 1  BY <3>2, <1>3
      <4> QED  BY <4>1, <4>2, <1>0
    <3>4. ExpectAt(R, T) \subseteq {q}  BY <2>2, <1>0 DEF ExpectThere
    <3> QED  BY <3>2, <3>3, <3>4 DEF ContinuesAt
  <2> QED  BY <2>1, <2>2, <1>1
<1> QED  BY <1>1, <1>6, <1>7, <1>8, <1>9, <1>10

\* A batch that is on the card as a whole is settled.
LEMMA LandingDone ==
  ASSUME NEW R, NEW lo, NEW hi, IsRows(R, lo, hi),
         NEW T \in lo..hi, NEW O \in 1..(SegCap + 1), Settled(R, T, O),
         NEW p, NEW a, NEW b, NEW q, PlanOf(p, T, O, a, b, q),
         Landing(R, T, O, Recs(p), a, b, q),
         Lies(R, p, a + b)
  PROVE  LET T2 == IF b = 0 THEN T ELSE T + 1
             O2 == IF b = 0 THEN O + a ELSE b + 1
         IN  /\ T2 \in lo..hi /\ O2 \in 2..(SegCap + 1)
             /\ Settled(R, T2, O2) /\ ExpectThere(R, T2, O2) = {q + a + b}
             /\ \A e : Landing(R, T2, O2, e, 0, 0, q + a + b)
<1>0. /\ DOMAIN R = lo..hi /\ lo \in Nat /\ hi \in Nat /\ T \in Nat /\ R[T] \in Row
      /\ a \in Nat /\ b \in Nat /\ q \in Nat /\ O + a <= SegCap + 1 /\ SegCap \in Nat
      /\ ExpectThere(R, T, O) \subseteq {q} /\ a + b >= 1 /\ b <= SegCap
      /\ ZWindow \in Nat /\ O \in Nat
  <2>1. a + b >= 1 /\ b <= SegCap  BY DEF PlanOf
  <2>2. /\ a \in Nat /\ b \in Nat /\ q \in Nat /\ O + a <= SegCap + 1
        /\ ExpectThere(R, T, O) \subseteq {q}
    BY DEF Landing
  <2>3. DOMAIN R = lo..hi /\ lo \in Nat /\ hi \in Nat /\ T \in Nat /\ R[T] \in Row  BY RowsFacts
  <2>4. SegCap \in Nat /\ ZWindow \in Nat /\ O \in Nat  BY Sizes
  <2> QED  BY <2>1, <2>2, <2>3, <2>4
<1> DEFINE w == O - 1 + a
<1>1. /\ w \in 0..SegCap /\ WholeRun(R[T], w)
      /\ RunLen(R[T]) = w /\ Blanks(R[T], w)
      /\ w > 0 => R[T][w].seq + 1 = q + a
      /\ a > 0 /\ T - 1 \in DOMAIN R => ContinuesAt(R, T)
  BY DoneFirst
<1>2. /\ T + 1 \in DOMAIN R => \A i \in 1..SegCap : i > b => R[T + 1][i] = Void
      /\ \A s \in DOMAIN R : s > T + 1 => Blanks(R[s], 0)
      /\ b > 0 => O > 1 \/ T - 1 \notin DOMAIN R
  BY DEF Landing
<1>3. CASE b = 0
  <2>1. O + a \in 2..(SegCap + 1) /\ O + a - 1 = w /\ q + a + b = q + a /\ w > 0
    BY <1>0, <1>3
  <2>2. Settled(R, T, O + a)
    <3>1. \A s \in DOMAIN R : s - 1 \in DOMAIN R /\ (s < T \/ (s = T /\ O + a > 1)) => ContinuesAt(R, s)
      <4>1. a > 0  BY <1>0, <1>3
      <4> QED  BY <4>1, <1>1 DEF Settled
    <3>2. WholeRun(R[T], O + a - 1)  BY <2>1, <1>1
    <3>3. \A s \in DOMAIN R : s < T => Blanks(R[s], RunLen(R[s]))  BY DEF Settled
    <3> QED  BY <3>1, <3>2, <3>3, <1>0 DEF Settled
  <2>3. ExpectThere(R, T, O + a) = {q + a}
    <3>1. R[T][O + a - 1].seq + 1 = q + a /\ O + a > 1  BY <2>1, <1>1
    <3> QED  BY <3>1, <1>0 DEF ExpectThere
  <2>4. \A e : Landing(R, T, O + a, e, 0, 0, q + a)
    <3>1. \A i \in 1..SegCap : i >= O + a => R[T][i] = Void
      <4>1. \A i \in 1..SegCap : i >= O + a => i > w  BY <1>0
      <4> QED  BY <4>1, <1>1 DEF Blanks
    <3>2. T + 1 \in DOMAIN R => \A i \in 1..SegCap : R[T + 1][i] = Void  BY <1>2, <1>3
    <3>3. /\ 0 \in Nat /\ q + a \in Nat /\ 0 <= ZWindow /\ O + a + 0 <= SegCap + 1
          /\ 1..(0 + 0) = {} /\ ~(0 > 0)
      BY <1>0
    <3> QED  BY <3>1, <3>2, <3>3, <2>3, <1>2 DEF Landing
  <2>5. T \in lo..hi  OBVIOUS
  <2> QED  BY <2>1, <2>2, <2>3, <2>4, <2>5, <1>3
<1>4. CASE b > 0
  <2>0. T + 1 \in lo..hi /\ R[T + 1] \in Row /\ T + 1 \in DOMAIN R
        /\ \A k \in 1..b : R[T + 1][k] = p[a + k].rec /\ a + k \in 1..(a + b)
    BY <1>4, <1>0, DoneCells, RowsFacts
  <2>1. b + 1 \in 2..(SegCap + 1) /\ b \in 1..SegCap /\ 1 \in 1..b /\ b \in 1..b /\ b + 1 - 1 = b
    BY <1>0, <1>4
  <2>2. /\ \A k \in 1..(a + b) : p[k].rec.seq = q + k - 1 /\ p[k].rec # Void
        /\ \/ \A k \in 1..(a + b) : p[k].rec.part = 0 /\ p[k].rec.n = 1
           \/ /\ a = 0 \/ b = 0
              /\ \A k \in 1..(a + b) : p[k].rec.part = k - 1
              /\ p[1].rec.n = a + b
    BY DEF PlanOf
  <2>3. \A k \in 1..b : R[T + 1][k].seq = (q + a) + k - 1 /\ R[T + 1][k] # Void
    <3> TAKE k \in 1..b
    <3>1. PICK j \in 1..(a + b) : j = a + k  BY <2>0
    <3>2. R[T + 1][k] = p[j].rec  BY <3>1, <2>0
    <3>3. p[j].rec.seq = q + j - 1 /\ p[j].rec # Void  BY <2>2
    <3>4. q + j - 1 = (q + a) + k - 1
      <4>1. q \in Nat /\ a \in Nat /\ k \in Nat  BY <1>0
      <4> QED  BY <4>1, <3>1
    <3> QED  BY <3>2, <3>3, <3>4
  <2>4. \/ \A k \in 1..b : R[T + 1][k].part = 0 /\ R[T + 1][k].n = 1
        \/ a = 0 /\ (\A k \in 1..b : R[T + 1][k].part = k - 1) /\ R[T + 1][1].n = b
    <3>1. CASE \A k \in 1..(a + b) : p[k].rec.part = 0 /\ p[k].rec.n = 1
      <4> SUFFICES ASSUME NEW k \in 1..b PROVE R[T + 1][k].part = 0 /\ R[T + 1][k].n = 1
        OBVIOUS
      <4>1. R[T + 1][k] = p[a + k].rec /\ a + k \in 1..(a + b)  BY <2>0
      <4> QED  BY <4>1, <3>1
    <3>2. CASE /\ a = 0 \/ b = 0
               /\ \A k \in 1..(a + b) : p[k].rec.part = k - 1
               /\ p[1].rec.n = a + b
      <4>1. a = 0 /\ a + b = b /\ \A k \in 1..b : a + k = k  BY <3>2, <1>0, <1>4
      <4>2. \A k \in 1..b : R[T + 1][k] = p[k].rec  BY <4>1, <2>0
      <4> QED  BY <4>1, <4>2, <3>2, <2>1
    <3> QED  BY <3>1, <3>2, <2>2
  <2>5. WholeRun(R[T + 1], b)
    <3>1. WholeRun(R[T + 1], 0)  BY DEF WholeRun
    <3>2. 0 \in 0..SegCap /\ 0 + b <= SegCap /\ q + a \in Nat /\ 0 + b = b /\ ~(0 > 0)
      BY <1>0, <2>1
    <3> DEFINE row == R[T + 1]
               q2 == q + a
    <3>3. \A k \in 1..b : 0 + k = k  BY <1>0
    <3>4. 0 + 1 = 1  OBVIOUS
    <3>5. /\ \A i \in 1..b : row[0 + i].seq = q2 + i - 1 /\ row[0 + i] # Void
          /\ \/ \A i \in 1..b : row[0 + i].part = 0 /\ row[0 + i].n = 1
             \/ (\A i \in 1..b : row[0 + i].part = i - 1) /\ row[0 + 1].n = b
      BY <2>3, <2>4, <3>3, <3>4
    <3>6. row \in Row /\ WholeRun(row, 0) /\ q2 \in Nat  BY <2>0, <3>1, <3>2
    <3> HIDE DEF row, q2
    <3>7. WholeRun(row, 0 + b)  BY <3>2, <3>5, <3>6, <2>1, RunTakes
    <3> QED  BY <3>7, <3>2 DEF row
  <2>6. R[T + 1][b].seq + 1 = q + a + b
    <3>1. R[T + 1][b].seq = (q + a) + b - 1  BY <2>1, <2>3
    <3> QED  BY <3>1, <1>0
  <2>7. T - 1 \in DOMAIN R => ContinuesAt(R, T)
    <3>1. CASE O > 1
      <4>1. T \in DOMAIN R  BY <1>0
      <4> QED  BY <3>1, <4>1 DEF Settled
    <3>2. CASE ~(O > 1)  BY <3>2, <1>2, <1>4
    <3> QED  BY <3>1, <3>2
  <2>8. ContinuesAt(R, T + 1)
    <3>1. R[T + 1][1] # Void /\ R[T + 1][1].seq = q + a /\ R[T + 1][1].part = 0
      <4>1. R[T + 1][1].seq = (q + a) + 1 - 1 /\ R[T + 1][1] # Void  BY <2>1, <2>3
      <4>2. R[T + 1][1].part = 0 \/ R[T + 1][1].part = 1 - 1  BY <2>1, <2>4
      <4> QED  BY <4>1, <4>2, <1>0
    <3>2. ExpectAt(R, T + 1) \subseteq {q + a}
      <4>1. CASE w > 0
        <5>1. ExpectAt(R, T + 1) = {R[T][w].seq + 1}  BY <4>1, <1>1, ExpectStep
        <5> QED  BY <5>1, <4>1, <1>1
      <4>2. CASE w = 0
        <5>1. O = 1 /\ a = 0  BY <4>2, <1>0
        <5>2. ExpectAt(R, T + 1) = ExpectAt(R, T)  BY <4>2, <1>1, ExpectStep
        <5> QED  BY <5>1, <5>2, <1>0 DEF ExpectThere
      <4> QED  BY <4>1, <4>2, <1>1
    <3> QED  BY <3>1, <3>2 DEF ContinuesAt
  <2>9. Settled(R, T + 1, b + 1)
    <3>1. \A s \in DOMAIN R : s < T + 1 => s < T \/ s = T  BY <1>0
    <3>2. \A s \in DOMAIN R : s < T + 1 => Blanks(R[s], RunLen(R[s]))
      BY <3>1, <1>1 DEF Settled
    <3>3. \A s \in DOMAIN R : s - 1 \in DOMAIN R /\ (s < T + 1 \/ (s = T + 1 /\ b + 1 > 1))
             => ContinuesAt(R, s)
      BY <3>1, <2>7, <2>8 DEF Settled
    <3> QED  BY <3>2, <3>3, <2>1, <2>5 DEF Settled
  <2>10. ExpectThere(R, T + 1, b + 1) = {q + a + b}  BY <2>1, <2>6 DEF ExpectThere
  <2>11. \A e : Landing(R, T + 1, b + 1, e, 0, 0, q + a + b)
    <3>1. \A i \in 1..SegCap : i >= b + 1 => R[T + 1][i] = Void
      <4>1. \A i \in 1..SegCap : i >= b + 1 => i > b  BY <1>0
      <4> QED  BY <4>1, <2>0, <1>2
    <3>2. \A s \in DOMAIN R : s > T + 1 + 1 => s > T + 1  BY <1>0
    <3>3. T + 1 + 1 \in DOMAIN R => \A i \in 1..SegCap : R[T + 1 + 1][i] = Void
      <4>1. T + 1 + 1 > T + 1 /\ \A i \in 1..SegCap : i > 0  BY <1>0
      <4> QED  BY <4>1, <1>2 DEF Blanks
    <3>4. /\ 0 \in Nat /\ q + a + b \in Nat /\ 0 <= ZWindow /\ b + 1 + 0 <= SegCap + 1
          /\ 1..(0 + 0) = {} /\ ~(0 > 0)
      BY <1>0
    <3> QED  BY <3>1, <3>2, <3>3, <3>4, <2>10, <1>2 DEF Landing
  <2> QED  BY <2>0, <2>1, <2>9, <2>10, <2>11, <1>4
<1> QED  BY <1>3, <1>4, <1>0

\* A repair zeroes cells behind the run that the scan ends with, from its end
\* on, and cells of the rows behind.
Mended(R, R2, v, r) ==
  /\ \A s \in DOMAIN R : s < v => R2[s] = R[s]
  /\ \A i \in 1..SegCap : i <= r => R2[v][i] = R[v][i]
  /\ R2[v] = R[v] \/ (r < SegCap /\ R2[v][r + 1] = Void)
  /\ \A s \in DOMAIN R, i \in 1..SegCap : R2[s][i] \in {R[s][i], Void}

LEMMA RepairRun ==
  ASSUME NEW R, NEW lo, NEW hi, IsRows(R, lo, hi),
         NEW R2, IsRows(R2, lo, hi),
         NEW v, v = Max(Visited(R)), NEW r, r = RunLen(R[v]), Mended(R, R2, v, r)
  PROVE  /\ v \in lo..hi /\ r \in 0..SegCap /\ RunLen(R2[v]) = r
         /\ ExpectAt(R2, v) = ExpectAt(R, v) /\ ExpectAt(R2, v + 1) = ExpectAt(R, v + 1)
         /\ \A s \in (lo + 1)..v : s < v \/ r > 0 => ContinuesAt(R2, s)
         /\ v < hi => ~ContinuesAt(R2, v + 1)
<1>0. /\ DOMAIN R = lo..hi /\ lo \in Nat /\ hi \in Nat /\ DOMAIN R2 = lo..hi
      /\ v \in lo..hi /\ v \in Nat /\ R[v] \in Row /\ R2[v] \in Row
  <2>1. v \in lo..hi  BY VisitedFacts
  <2> QED  BY <2>1, RowsFacts
<1>1. r \in 0..SegCap /\ WholeRun(R[v], r) /\ SegCap \in Nat  BY RunLenFact, Sizes
<1>2. \A i \in 1..r : R2[v][i] = R[v][i]
  <2>1. \A i \in 1..r : i \in 1..SegCap /\ i <= r  BY <1>1
  <2> QED  BY <2>1 DEF Mended
<1>3. RunLen(R2[v]) = r
  <2>1. CASE R2[v] = R[v]  BY <2>1
  <2>2. CASE r < SegCap /\ R2[v][r + 1] = Void
    <3>1. WholeRun(R2[v], r)  BY <1>0, <1>1, <1>2, RunSame
    <3>2. RunLen(R2[v]) \in 0..SegCap /\ r <= RunLen(R2[v])  BY <3>1, <1>1, RunLenFact
    <3>3. r \in 0..(SegCap - 1)  BY <2>2, <1>1
    <3>4. RunLen(R2[v]) <= r  BY <3>3, <2>2, <1>0, RunEnds
    <3> QED  BY <3>2, <3>4, <1>1
  <2> QED  BY <2>1, <2>2 DEF Mended
<1>4. \A seg \in lo..v : ExpectAt(R2, seg) = ExpectAt(R, seg)
  <2> TAKE seg \in lo..v
  <2>1. seg \in Nat /\ seg <= hi + 1 /\ lo <= lo  BY <1>0
  <2>2. \A s \in lo..(seg - 1) : R2[s] = R[s]
    <3>1. \A s \in lo..(seg - 1) : s \in DOMAIN R /\ s < v  BY <1>0
    <3> QED  BY <3>1 DEF Mended
  <2> QED  BY <2>1, <2>2, ExpectNarrow
<1>5. ExpectAt(R2, v + 1) = ExpectAt(R, v + 1)
  <2>1. CASE r = 0
    <3>1. v \in lo..v /\ v \in lo..hi  BY <1>0
    <3>0. RunLen(R[v]) = 0 /\ RunLen(R2[v]) = 0  BY <2>1, <1>3
    <3>2. ExpectAt(R, v + 1) = ExpectAt(R, v)  BY <3>0, <3>1, ExpectStep
    <3>3. ExpectAt(R2, v + 1) = ExpectAt(R2, v)  BY <3>0, <3>1, ExpectStep
    <3> QED  BY <3>1, <3>2, <3>3, <1>4
  <2>2. CASE r > 0
    <3>1. ExpectAt(R, v + 1) = {R[v][r].seq + 1}  BY <2>2, <1>0, ExpectStep
    <3>2. ExpectAt(R2, v + 1) = {R2[v][r].seq + 1}  BY <2>2, <1>0, <1>3, ExpectStep
    <3>3. r \in 1..r  BY <2>2, <1>1
    <3> QED  BY <3>1, <3>2, <3>3, <1>2
  <2> QED  BY <2>1, <2>2, <1>1
<1>6. ASSUME NEW s \in (lo + 1)..v, s < v \/ r > 0 PROVE ContinuesAt(R2, s)
  <2>1. ContinuesAt(R, s)  BY VisitedFacts
  <2>2. s \in lo..v /\ s \in DOMAIN R  BY <1>0
  <2>3. R2[s][1] = R[s][1]
    <3>1. CASE s < v  BY <3>1, <2>2 DEF Mended
    <3>2. CASE s = v /\ r > 0
      <4>1. 1 \in 1..r  BY <3>2, <1>1
      <4> QED  BY <4>1, <3>2, <1>2
    <3> QED  BY <3>1, <3>2, <1>6, <1>0
  <2> QED  BY <2>1, <2>2, <2>3, <1>4 DEF ContinuesAt
<1>7. ASSUME v < hi, ContinuesAt(R2, v + 1) PROVE FALSE
  <2>1. ~ContinuesAt(R, v + 1)  BY <1>7, VisitedFacts
  <2>2. v + 1 \in DOMAIN R /\ 1 \in 1..SegCap  BY <1>0, <1>7, Sizes
  <2>3. R2[v + 1][1] \in {R[v + 1][1], Void}  BY <2>2 DEF Mended
  <2>4. R2[v + 1][1] = R[v + 1][1]  BY <2>3, <1>7 DEF ContinuesAt
  <2> QED  BY <2>1, <2>4, <1>5, <1>7 DEF ContinuesAt
<1>8. v \in lo..v  BY <1>0
<1> QED  BY <1>0, <1>1, <1>3, <1>4, <1>5, <1>6, <1>7, <1>8

\* Zeroed as far as the window goes, the place behind the run is free.
LEMMA RepairFull ==
  ASSUME NEW R, NEW lo, NEW hi, IsRows(R, lo, hi),
         NEW R2, IsRows(R2, lo, hi), RowsClean(R),
         NEW v, v = Max(Visited(R)), NEW r, r = RunLen(R[v]), Mended(R, R2, v, r),
         Blanks(R2[v], r), \A s \in lo..hi : s > v => Blanks(R2[s], 0)
  PROVE  /\ Settled(R2, v, r + 1)
         /\ \A q \in Nat : ExpectAt(R, v + 1) \subseteq {q} =>
              \A e : Landing(R2, v, r + 1, e, 0, 0, q)
<1>0. /\ v \in lo..hi /\ r \in 0..SegCap /\ RunLen(R2[v]) = r
      /\ ExpectAt(R2, v) = ExpectAt(R, v) /\ ExpectAt(R2, v + 1) = ExpectAt(R, v + 1)
      /\ \A s \in (lo + 1)..v : s < v \/ r > 0 => ContinuesAt(R2, s)
  BY RepairRun
<1>1. DOMAIN R = lo..hi /\ DOMAIN R2 = lo..hi /\ lo \in Nat /\ hi \in Nat /\ v \in Nat
      /\ SegCap \in Nat /\ r \in Nat /\ ZWindow \in Nat
  BY <1>0, RowsFacts, Sizes
<1>2. Settled(R2, v, r + 1)
  <2>1. \A s \in DOMAIN R2 : s < v => Blanks(R2[s], RunLen(R2[s]))
    <3> TAKE s \in DOMAIN R2
    <3> HAVE s < v
    <3>1. R2[s] = R[s]  BY <1>1 DEF Mended
    <3>2. Blanks(R[s], RunLen(R[s]))  BY <1>1 DEF RowsClean
    <3> QED  BY <3>1, <3>2
  <2>2. WholeRun(R2[v], r + 1 - 1)
    <3>1. r + 1 - 1 = r  BY <1>1
    <3> QED  BY <3>1, <1>0, RunLenFact
  <2>3. \A s \in DOMAIN R2 : s - 1 \in DOMAIN R2 /\ (s < v \/ (s = v /\ r + 1 > 1))
           => s \in (lo + 1)..v /\ (s < v \/ r > 0)
    BY <1>1
  <2> QED  BY <2>1, <2>2, <2>3, <1>0 DEF Settled
<1>3. ExpectThere(R2, v, r + 1) = ExpectAt(R, v + 1)
  <2>1. CASE r = 0
    <3>1. ExpectAt(R2, v + 1) = ExpectAt(R2, v)  BY <2>1, <1>0, ExpectStep
    <3>2. ~(r + 1 > 1)  BY <2>1
    <3> QED  BY <3>1, <3>2, <1>0 DEF ExpectThere
  <2>2. CASE r > 0
    <3>1. ExpectAt(R2, v + 1) = {R2[v][r].seq + 1}  BY <2>2, <1>0, ExpectStep
    <3>2. r + 1 > 1 /\ r + 1 - 1 = r  BY <2>2, <1>1
    <3> QED  BY <3>1, <3>2, <1>0 DEF ExpectThere
  <2> QED  BY <2>1, <2>2, <1>1
<1>4. ASSUME NEW q \in Nat, ExpectAt(R, v + 1) \subseteq {q}, NEW e
      PROVE  Landing(R2, v, r + 1, e, 0, 0, q)
  <2>1. \A i \in 1..SegCap : i >= r + 1 => R2[v][i] = Void
    <3>1. \A i \in 1..SegCap : i >= r + 1 => i > r  BY <1>1
    <3> QED  BY <3>1 DEF Blanks
  <2>2. \A s \in DOMAIN R2 : s > v + 1 => Blanks(R2[s], 0)  BY <1>1
  <2>3. v + 1 \in DOMAIN R2 => \A i \in 1..SegCap : R2[v + 1][i] = Void
    <3>1. v + 1 > v /\ \A i \in 1..SegCap : i > 0  BY <1>1
    <3> QED  BY <3>1, <1>1 DEF Blanks
  <2>4. /\ 0 \in Nat /\ 0 <= ZWindow /\ r + 1 + 0 <= SegCap + 1
        /\ 1..(0 + 0) = {} /\ ~(0 > 0)
    BY <1>0, <1>1
  <2> QED  BY <2>1, <2>2, <2>3, <2>4, <1>3, <1>4 DEF Landing
<1> QED  BY <1>2, <1>4

\* A scan goes through to where it cannot go on.
LEMMA VisitedAt ==
  ASSUME NEW R, NEW lo, NEW hi, IsRows(R, lo, hi), NEW v \in lo..hi,
         \A s \in (lo + 1)..v : ContinuesAt(R, s), v < hi => ~ContinuesAt(R, v + 1)
  PROVE  Max(Visited(R)) = v
  BY VisitedIs

\* A repair that was cut short leaves no more than there was.
LEMMA RepairPart ==
  ASSUME NEW R, NEW lo, NEW hi, IsRows(R, lo, hi),
         NEW R2, IsRows(R2, lo, hi), RowsClean(R),
         NEW v, v = Max(Visited(R)), NEW r, r = RunLen(R[v]), Mended(R, R2, v, r)
  PROVE  RowsClean(R2)
<1>0. /\ v \in lo..hi /\ r \in 0..SegCap /\ RunLen(R2[v]) = r
      /\ \A s \in (lo + 1)..v : s < v \/ r > 0 => ContinuesAt(R2, s)
      /\ v < hi => ~ContinuesAt(R2, v + 1)
  BY RepairRun
<1>1. DOMAIN R = lo..hi /\ DOMAIN R2 = lo..hi /\ lo \in Nat /\ hi \in Nat /\ v \in Nat
      /\ SegCap \in Nat /\ r \in Nat /\ ZWindow \in Nat
  BY <1>0, RowsFacts, Sizes
<1>2. \A s \in DOMAIN R2 : s < v => Blanks(R2[s], RunLen(R2[s]))
  <2> TAKE s \in DOMAIN R2
  <2> HAVE s < v
  <2>1. R2[s] = R[s]  BY <1>1 DEF Mended
  <2>2. Blanks(R[s], RunLen(R[s]))  BY <1>1 DEF RowsClean
  <2> QED  BY <2>1, <2>2
<1>3. \A s \in DOMAIN R2 : \A n : Blanks(R[s], n) => Blanks(R2[s], n)
  BY <1>1 DEF Blanks, Mended
<1>4. Blanks(R2[v], r + ZWindow)
  <2>1. Blanks(R[v], r + ZWindow)  BY DEF RowsClean
  <2> QED  BY <2>1, <1>0, <1>1, <1>3
<1>5. \A s \in DOMAIN R2 : s > v => Blanks(R2[s], ZWindow)
  <2>1. \A s \in DOMAIN R : s > v => Blanks(R[s], ZWindow)  BY DEF RowsClean
  <2> QED  BY <2>1, <1>1, <1>3
<1>6. CASE v = lo \/ ContinuesAt(R2, v)
  <2>1. \A s \in (lo + 1)..v : ContinuesAt(R2, s)
    <3>1. \A s \in (lo + 1)..v : s < v \/ (s = v /\ v # lo)  BY <1>1
    <3> QED  BY <3>1, <1>0, <1>6
  <2>2. Max(Visited(R2)) = v  BY <2>1, <1>0, VisitedAt
  <2> QED  BY <2>2, <1>0, <1>2, <1>4, <1>5 DEF RowsClean
<1>7. CASE v # lo /\ ~ContinuesAt(R2, v)
  <2>0. PICK u \in lo..hi : u = v - 1 /\ u + 1 = v /\ u < v  BY <1>7, <1>0, <1>1
  <2>1. r = 0
    <3>1. v \in (lo + 1)..v  BY <1>7, <1>0, <1>1
    <3> QED  BY <3>1, <1>0, <1>1, <1>7
  <2>2. \A s \in (lo + 1)..u : ContinuesAt(R2, s)
    <3>1. \A s \in (lo + 1)..u : s \in (lo + 1)..v /\ s < v  BY <1>1, <2>0
    <3> QED  BY <3>1, <1>0
  <2>3. Max(Visited(R2)) = u  BY <2>0, <2>2, <1>7, VisitedAt
  <2>4. Blanks(R2[u], RunLen(R2[u]) + ZWindow)
    <3>1. Blanks(R2[u], RunLen(R2[u])) /\ RunLen(R2[u]) \in 0..SegCap  BY <2>0, <1>1, <1>2, RunLenFact
    <3>2. \A i \in 1..SegCap : i > RunLen(R2[u]) + ZWindow => i > RunLen(R2[u])
      BY <3>1, <1>1
    <3> QED  BY <3>1, <3>2 DEF Blanks
  <2>5. \A s \in DOMAIN R2 : s > u => Blanks(R2[s], ZWindow)
    <3>1. r + ZWindow = ZWindow  BY <2>1, <1>1
    <3>2. \A s \in DOMAIN R2 : s > u => s = v \/ s > v  BY <2>0, <1>1
    <3> QED  BY <3>1, <3>2, <1>4, <1>5
  <2>6. \A s \in DOMAIN R2 : s < u => s < v  BY <2>0, <1>1
  <2> QED  BY <2>3, <2>4, <2>5, <2>6, <1>2 DEF RowsClean
<1> QED  BY <1>6, <1>7

\* What is left when the rows from the tail on are gone.
LEMMA ShortRows ==
  ASSUME NEW R, NEW lo, NEW hi, IsRows(R, lo, hi),
         NEW R2, NEW lo2, NEW hi2, IsRows(R2, lo2, hi2),
         NEW T \in lo..hi, NEW O \in 1..(SegCap + 1), Settled(R, T, O),
         lo <= lo2, hi2 < T, \A s \in lo2..hi2 : R2[s] = R[s]
  PROVE  RowsClean(R2)
<1>0. /\ DOMAIN R = lo..hi /\ lo \in Nat /\ hi \in Nat /\ T \in Nat
      /\ DOMAIN R2 = lo2..hi2 /\ lo2 \in Nat /\ hi2 \in Nat /\ lo2 <= hi2 /\ ZWindow \in Nat
      /\ hi2 \in lo2..hi2 /\ SegCap \in Nat
  BY RowsFacts, Sizes
<1>1. \A s \in lo2..hi2 : Blanks(R2[s], RunLen(R2[s]))
  <2> TAKE s \in lo2..hi2
  <2>1. s \in DOMAIN R /\ s < T  BY <1>0
  <2> QED  BY <2>1 DEF Settled
<1>2. \A s \in (lo2 + 1)..hi2 : ContinuesAt(R2, s)
  <2> TAKE s \in (lo2 + 1)..hi2
  <2>1. s \in DOMAIN R /\ s - 1 \in DOMAIN R /\ s < T /\ s \in lo2..hi2  BY <1>0
  <2>2. ContinuesAt(R, s)  BY <2>1 DEF Settled
  <2>3. ExpectAt(R2, s) \subseteq ExpectAt(R, s)
    <3>1. s \in Nat /\ s <= hi + 1 /\ s <= hi2 + 1  BY <2>1, <1>0
    <3>2. \A u \in lo2..(s - 1) : R2[u] = R[u]  BY <2>1, <1>0
    <3> QED  BY <3>1, <3>2, ExpectNarrow
  <2> QED  BY <2>1, <2>2, <2>3 DEF ContinuesAt
<1>3. Max(Visited(R2)) = hi2  BY <1>0, <1>2, VisitedAt
<1>4. Blanks(R2[hi2], RunLen(R2[hi2]) + ZWindow)
  <2>1. Blanks(R2[hi2], RunLen(R2[hi2])) /\ RunLen(R2[hi2]) \in 0..SegCap
    BY <1>0, <1>1, RunLenFact
  <2>2. \A i \in 1..SegCap : i > RunLen(R2[hi2]) + ZWindow => i > RunLen(R2[hi2])
    BY <2>1, <1>0
  <2> QED  BY <2>1, <2>2 DEF Blanks
<1>5. \A s \in DOMAIN R2 : ~(s > hi2)  BY <1>0
<1> QED  BY <1>0, <1>1, <1>3, <1>4, <1>5 DEF RowsClean

\* What is left when the rows up to the tail are gone.
LEMMA HighRows ==
  ASSUME NEW R, NEW lo, NEW hi, IsRows(R, lo, hi),
         NEW R2, NEW lo2, NEW hi2, IsRows(R2, lo2, hi2),
         NEW T \in lo..hi, NEW O,
         NEW e, NEW a, NEW b, NEW q, Landing(R, T, O, e, a, b, q), T < lo2,
         \A s \in lo2..hi2 : \/ s <= hi /\ R2[s] = R[s]
                             \/ Blanks(R2[s], 0)
  PROVE  RowsClean(R2)
<1>0. /\ DOMAIN R = lo..hi /\ lo \in Nat /\ hi \in Nat /\ T \in Nat
      /\ DOMAIN R2 = lo2..hi2 /\ lo2 \in Nat /\ hi2 \in Nat /\ lo2 <= hi2 /\ ZWindow \in Nat
      /\ lo2 \in lo2..hi2 /\ SegCap \in Nat /\ b \in Nat /\ b <= ZWindow
  BY RowsFacts, Sizes DEF Landing
<1>1. \A s \in lo2..hi2 : s > lo2 => Blanks(R2[s], 0)
  <2> SUFFICES ASSUME NEW s \in lo2..hi2, s > lo2, s <= hi, R2[s] = R[s] PROVE Blanks(R2[s], 0)
    OBVIOUS
  <2>1. s \in DOMAIN R /\ s > T + 1  BY <1>0
  <2> QED  BY <2>1 DEF Landing
<1>2. Blanks(R2[lo2], ZWindow)
  <2>1. CASE Blanks(R2[lo2], 0)
    <3>1. \A i \in 1..SegCap : i > 0  OBVIOUS
    <3> QED  BY <2>1, <3>1 DEF Blanks
  <2>2. CASE lo2 <= hi /\ R2[lo2] = R[lo2]
    <3>1. lo2 \in DOMAIN R /\ (lo2 = T + 1 \/ lo2 > T + 1)  BY <2>2, <1>0
    <3>2. CASE lo2 > T + 1
      <4>1. Blanks(R[lo2], 0)  BY <3>1, <3>2 DEF Landing
      <4>2. \A i \in 1..SegCap : i > 0  OBVIOUS
      <4> QED  BY <2>2, <4>1, <4>2 DEF Blanks
    <3>3. CASE lo2 = T + 1
      <4>1. \A i \in 1..SegCap : R[lo2][i] = Void \/ i <= b  BY <3>1, <3>3 DEF Landing
      <4>2. \A i \in 1..SegCap : i > ZWindow => ~(i <= b)  BY <1>0
      <4> QED  BY <2>2, <4>1, <4>2 DEF Blanks
    <3> QED  BY <3>1, <3>2, <3>3
  <2> QED  BY <2>1, <2>2, <1>0
<1>3. Max(Visited(R2)) = lo2
  <2>1. (lo2 + 1)..lo2 = {}  BY <1>0
  <2>2. lo2 < hi2 => ~ContinuesAt(R2, lo2 + 1)
    <3> SUFFICES ASSUME lo2 < hi2, ContinuesAt(R2, lo2 + 1) PROVE FALSE
      OBVIOUS
    <3>1. PICK s \in lo2..hi2 : s = lo2 + 1 /\ s > lo2  BY <1>0
    <3>2. Blanks(R2[s], 0) /\ 1 \in 1..SegCap /\ 1 > 0  BY <3>1, <1>1, Sizes
    <3> QED  BY <3>1, <3>2 DEF Blanks, ContinuesAt
  <2> QED  BY <2>1, <2>2, <1>0, VisitedAt
<1>4. Blanks(R2[lo2], RunLen(R2[lo2]) + ZWindow)
  <2>1. RunLen(R2[lo2]) \in 0..SegCap  BY RunLenFact
  <2>2. \A i \in 1..SegCap : i > RunLen(R2[lo2]) + ZWindow => i > ZWindow  BY <2>1, <1>0
  <2> QED  BY <2>2, <1>2 DEF Blanks
<1>5. \A s \in DOMAIN R2 : s > lo2 => Blanks(R2[s], ZWindow)
  <2>1. \A i \in 1..SegCap : i > 0  OBVIOUS
  <2> QED  BY <2>1, <1>0, <1>1 DEF Blanks
<1>6. \A s \in DOMAIN R2 : ~(s < lo2)  BY <1>0
<1> QED  BY <1>3, <1>4, <1>5, <1>6 DEF RowsClean

--------------------------------
\* What the card holds around the session's tail, and what a reopen would
\* meet of it when the session is gone.  Here the card reads back what it
\* wrote.
\* The number that the first pending record has, or the next record will.

Base == next - Len(pend)

\* Live segments may lie behind a hole in the ring.  They are blank, or the hole
\* is where a clear was cut short, so that the ring is never whole again.
Apart(h, x, z) == \E y \in (x + 1)..(z - 1) : h[SlotOf(y)] = Gone
Far(h, b) ==
  \A z \in LiveIn(h) :
    z > NewestIn(h) => Blanks(b[SlotOf(z)], 0) \/ Apart(h, NewestIn(h), z)

\* A reopen would repair all there is to repair.
Clean(h, b) == LiveIn(h) # {} => RowsClean(RowsIn(h, b))

LandsFor(R, T, O, q, p) ==
  \E a, b : PlanOf(p, T, O, a, b, q) /\ Landing(R, T, O, Recs(p), a, b, q)
Trails(R, T, O) == \E e, a, b, q : Landing(R, T, O, e, a, b, q)
Headed(R, T, O) == O = 1 /\ T - 1 \in DOMAIN R => ver[SlotOf(T)] = 2

SessionOK ==
  tail # 0 =>
    /\ Settled(Rows, tail, off) /\ Headed(Rows, tail, off)
    /\ pc = "idle" /\ ~stopped => Landing(Rows, tail, off, <<>>, 0, 0, Base)
    /\ pc # "idle" => LandsFor(Rows, tail, off, Base, todo)
    /\ stopped => Trails(Rows, tail, off)
CleanOK == tail = 0 => Clean(hdr, body)
Content == ChainsOK /\ Far(hdr, body) /\ CleanOK /\ SessionOK

LEMMA TailRows ==
  ASSUME TypeInv, RingOK, tail # 0
  PROVE  /\ IsRows(Rows, Oldest, Newest) /\ DOMAIN Rows = Oldest..Newest
         /\ tail \in Oldest..Newest /\ tail \in Nat \ {0} /\ off \in 1..(SegCap + 1)
         /\ \A s \in Oldest..Newest : Rows[s] = body[SlotOf(s)] /\ s \in LiveIn(hdr)
         /\ LiveIn(hdr) # {} /\ Base \in Nat \ {0} /\ Placed(hdr, first, last, tail)
         /\ tail < last => tail + 1 \in Oldest..Newest
<1>1. Placed(hdr, first, last, tail) /\ tail \in Nat \ {0} /\ off \in 1..(SegCap + 1)
  BY Sizes DEF RingOK, TypeInv, RamOK
<1>2. /\ LiveIn(hdr) # {} /\ tail \in OldestIn(hdr)..NewestIn(hdr)
      /\ tail < last => tail + 1 \in OldestIn(hdr)..NewestIn(hdr)
  BY <1>1, PlacedFacts
<1>3. Base \in Nat \ {0}
  <2>1. next \in Nat \ {0} /\ Len(pend) < next /\ Len(pend) \in Nat
    BY DEF TypeInv, PendOK, RamOK
  <2> QED  BY <2>1 DEF Base
<1>4. body \in [Slots -> Row]  BY DEF TypeInv, CardOK
<1>5. OldestIn(hdr)..NewestIn(hdr) \subseteq LiveIn(hdr)  BY <1>2, RangeFacts
<1> QED  BY <1>1, <1>2, <1>3, <1>4, <1>5, RowsAre, CardNow

\* Whatever the session is doing, what it may have left is behind its tail.
LEMMA SessionTrails ==
  ASSUME TypeInv, RingOK, SessionOK, tail # 0
  PROVE  Trails(Rows, tail, off) /\ RowsClean(Rows) /\ Clean(hdr, body)
<1>1. Trails(Rows, tail, off)
  <2>1. CASE pc = "idle" /\ ~stopped  BY <2>1 DEF SessionOK, Trails
  <2>2. CASE stopped  BY <2>2 DEF SessionOK
  <2>3. CASE pc # "idle"  BY <2>3 DEF SessionOK, LandsFor, Trails
  <2> QED  BY <2>1, <2>2, <2>3
<1>2. PICK e, a, b, q : Landing(Rows, tail, off, e, a, b, q)  BY <1>1 DEF Trails
<1>3. RowsClean(Rows)
  <2>1. Settled(Rows, tail, off)  BY DEF SessionOK
  <2> QED  BY <1>2, <2>1, TailRows, LandingClean
<1> QED  BY <1>1, <1>3, CardNow DEF Clean

LEMMA CleanNow ==
  TypeInv /\ RingOK /\ Content => Clean(hdr, body)
  BY SessionTrails DEF Content, CleanOK

\* Rows in which nothing was written but zeroes.
LEMMA FarZeroed ==
  ASSUME NEW h, NEW b, NEW b2, Far(h, b), NEW x, x = NewestIn(h),
         \A z \in LiveIn(h) : z > x =>
            \A i \in 1..SegCap : b2[SlotOf(z)][i] \in {Void, b[SlotOf(z)][i]}
  PROVE  Far(h, b2)
  BY DEF Far, Blanks

\* A batch begins where nothing is.
Ready ==
  /\ Settled(Rows, tail, off) /\ Headed(Rows, tail, off)
  /\ Landing(Rows, tail, off, <<>>, 0, 0, Base)
LEMMA JobStarts ==
  TypeInv /\ RingOK /\ tail # 0 /\ Ready => (pc # "idle" => LandsFor(Rows, tail, off, Base, todo))
<1> SUFFICES ASSUME TypeInv, RingOK, tail # 0, Ready, pc # "idle"
             PROVE  LandsFor(Rows, tail, off, Base, todo)
  OBVIOUS
<1>1. IsJob(todo)  BY DEF TypeInv, JobOK
<1>2. PICK a \in Nat, b \in Nat :
           /\ PlanOf(todo, tail, off, a, b, next - Len(pend))
           /\ b > 0 => tail < last /\ (off = 1 => ver[SlotOf(tail)] # 2)
  BY <1>1, JobIs
<1>3. b > 0 => off > 1 \/ tail - 1 \notin DOMAIN Rows
  <2>1. off \in 1..(SegCap + 1) /\ SegCap \in Nat  BY TailRows, Sizes
  <2>2. off = 1 \/ off > 1  BY <2>1
  <2> QED  BY <2>2, <1>2 DEF Ready, Headed
<1>4. PlanOf(todo, tail, off, a, b, Base)  BY <1>2 DEF Base
<1>5. Landing(Rows, tail, off, Recs(todo), a, b, Base)
  <2>1. Landing(Rows, tail, off, <<>>, 0, 0, Base)  BY DEF Ready
  <2> QED  BY <2>1, <1>3, <1>4, TailRows, LandingStart
<1> QED  BY <1>4, <1>5 DEF LandsFor
LEMMA JobStartsNext ==
  TypeInv' /\ RingOK' /\ tail' # 0 /\ Ready' =>
    (pc' # "idle" => LandsFor(Rows', tail', off', Base', todo'))
<1>1. (TypeInv /\ RingOK /\ tail # 0 /\ Ready
        => (pc # "idle" => LandsFor(Rows, tail, off, Base, todo)))'
  BY JobStarts, PTL
<1> QED  BY <1>1 DEF LandsFor, PlanOf, Landing, ExpectThere, Recs

\* Nothing changes on the card or in the session's idea of it, or recording stops.
LEMMA ContentSame ==
  ASSUME TypeInv, RingOK, Content, UNCHANGED <<card, tail, off>>, Base' = Base,
         UNCHANGED <<pc, todo, stopped>> \/ (pc' = "idle" /\ stopped')
  PROVE  Content'
<1>1. UNCHANGED <<hdr, ver, body>>  BY DEF card
<1>2. Rows' = Rows  BY <1>1, CardNow
<1>3. ChainsOK' /\ Far(hdr', body') /\ CleanOK'
  BY <1>1 DEF Content, ChainsOK, CleanOK
<1>4. SessionOK'
  <2> SUFFICES ASSUME tail' # 0 PROVE SessionOK'
    BY DEF SessionOK
  <2>1. tail # 0 /\ SessionOK  BY DEF Content
  <2>2. Trails(Rows, tail, off)  BY <2>1, SessionTrails
  <2>3. Headed(Rows, tail, off)'  BY <2>1, <1>1, <1>2 DEF SessionOK, Headed
  <2> QED  BY <2>1, <2>2, <2>3, <1>2 DEF SessionOK, LandsFor, Trails
<1> QED  BY <1>3, <1>4 DEF Content

LEMMA ContentRecord ==
  ASSUME TypeInv, RingOK, Content, RecordStep \/ TakeBack
  PROVE  Content'
<1>0. pend \in Seq(Rec) /\ Len(pend) \in Nat /\ next \in Nat  BY DEF TypeInv, PendOK, RamOK
<1>1. Base' = Base
  <2>1. CASE RecordStep
    <3>1. /\ next' = next + 1
          /\ pend' = Append(pend, Record(next, made + 1, 0, 1))  BY <2>1 DEF RecordStep
    <3>2. Len(pend') = Len(pend) + 1  BY <3>1, <1>0
    <3> QED  BY <3>1, <3>2, <1>0 DEF Base
  <2>2. CASE TakeBack
    <3>1. next' = next - 1 /\ pend' = Front(pend) /\ pend # <<>>  BY <2>2 DEF TakeBack
    <3>2. Len(pend') = Len(pend) - 1  BY <3>1, <1>0, FrontIs
    <3> QED  BY <3>1, <3>2, <1>0 DEF Base
  <2> QED  BY <2>1, <2>2
<1>2. UNCHANGED <<card, tail, off, pc, todo, stopped>>
  BY DEF RecordStep, TakeBack, Resting, job
<1> QED  BY <1>1, <1>2, ContentSame

LEMMA ContentUnverified ==
  ASSUME TypeInv, RingOK, Content, ReadsBack, Unverified
  PROVE  Content'
<1>1. UNCHANGED <<card, tail, off, next, pend>> /\ pc' = "idle" /\ stopped'
  BY DEF Unverified, JobOver, ReadsBack, Mishap
<1> QED  BY <1>1, ContentSame DEF Base

\* A batch is begun in the tail, or in the spare, whose header is live afterwards.
LEMMA ContentFlush ==
  ASSUME TypeInv, RingOK, Content, Flush
  PROVE  Content'
<1>1. /\ pc = "idle" /\ ~stopped /\ tail # 0 /\ pc' = "write"
      /\ UNCHANGED <<card, ram>> /\ UNCHANGED <<hdr, ver, body, tail, off, next, pend, stopped>>
  BY DEF Flush, Recording, Begin, card, ram
<1>2. TypeInv' /\ RingOK'  BY BaseNext DEF JournalNext
<1>3. Rows' = Rows /\ Base' = Base  BY <1>1, CardNow DEF Base
<1>4. Ready  BY <1>1 DEF Content, SessionOK, Ready
<1>5. Ready'  BY <1>1, <1>3, <1>4 DEF Ready, Headed
<1>6. LandsFor(Rows', tail', off', Base', todo')  BY <1>1, <1>2, <1>5, JobStartsNext
<1>7. ChainsOK' /\ Far(hdr', body') /\ CleanOK'  BY <1>1 DEF Content, ChainsOK, CleanOK
<1>8. SessionOK'
  <2>1. ~stopped' /\ pc' # "idle"  BY <1>1
  <2> QED  BY <2>1, <1>5, <1>6 DEF SessionOK, Ready, LandsFor
<1> QED  BY <1>7, <1>8 DEF Content

\* A record of it gets into its cell, or does not.
LEMMA WriteKeeps ==
  ASSUME TypeInv, RingOK, Content, Writes
  PROVE  /\ ChainsOK' /\ Far(hdr', body') /\ tail # 0
         /\ Settled(Rows', tail, off) /\ LandsFor(Rows', tail, off, Base, todo)
         /\ Headed(Rows', tail, off) /\ IsRows(Rows', Oldest, Newest)
<1>1. /\ UNCHANGED <<hdr, ver>> /\ pc = "write" /\ left \in 1..Len(todo)
      /\ todo[left] \in Puts /\ todo[left].seg \in LiveIn(hdr) /\ IsJob(todo) /\ tail # 0
  BY WritesOne
<1>2. PICK c \in {Cells(todo[left].seg)[todo[left].at], Void, todo[left].rec} :
             Lands(todo[left], c)
  BY WritesOne
<1>3. PICK a, b : PlanOf(todo, tail, off, a, b, Base) /\ Landing(Rows, tail, off, Recs(todo), a, b, Base)
  BY <1>1 DEF Content, SessionOK, LandsFor
<1>4. \A z \in LiveIn(hdr), i \in 1..SegCap :
        body'[SlotOf(z)][i] = IF z = todo[left].seg /\ i = todo[left].at THEN c
                              ELSE body[SlotOf(z)][i]
  BY <1>1, <1>2, LandsCell
<1>5. /\ TypeInv' /\ IsRows(Rows, Oldest, Newest) /\ tail \in Oldest..Newest
      /\ off \in 1..(SegCap + 1) /\ Oldest \in Nat /\ Newest \in Nat /\ SegCap \in Nat
      /\ tail \in Nat /\ LiveIn(hdr) # {}
      /\ \A s \in Oldest..Newest : Rows[s] = body[SlotOf(s)] /\ s \in LiveIn(hdr)
  <2>1. TypeInv'  BY BaseNext DEF JournalNext, Writes
  <2> QED  BY <2>1, <1>1, TailRows, RowsFacts, Sizes
<1>6. /\ IsRows(Rows', Oldest, Newest)
      /\ \A s \in Oldest..Newest : Rows'[s] = body'[SlotOf(s)]
  <2>1. body' \in [Slots -> Row]  BY <1>5 DEF TypeInv, CardOK
  <2> QED  BY <2>1, <1>1, <1>5, RowsAre, CardNow
<1>7. /\ Rows' \in [Oldest..Newest -> Row] /\ DOMAIN Rows' = DOMAIN Rows
  BY <1>5, <1>6, RowsFacts DEF IsRows
\* Where the record belongs.
<1>8. /\ a \in Nat /\ b \in Nat /\ left \in 1..(a + b)
      /\ Recs(todo)[left] = todo[left].rec
  <2>1. Len(todo) = a + b  BY <1>3, RecsIs
  <2> QED  BY <2>1, <1>1, <1>3, RecsIs
<1>9. \/ /\ todo[left].seg = tail /\ todo[left].at >= off /\ todo[left].at < off + a
         /\ todo[left].rec = Recs(todo)[todo[left].at - off + 1]
      \/ /\ todo[left].seg = tail + 1 /\ todo[left].at <= b
         /\ todo[left].rec = Recs(todo)[a + todo[left].at]
  <2>1. CASE left <= a
    <3>1. left \in 1..a  BY <2>1, <1>8
    <3>2. todo[left].seg = tail /\ todo[left].at = off + left - 1
      BY <3>1, <1>3 DEF PlanOf
    <3>3. todo[left].at >= off /\ todo[left].at < off + a /\ todo[left].at - off + 1 = left
      <4> DEFINE k == left
      <4>1. k \in 1..a /\ off \in Nat /\ todo[left].at = off + k - 1  BY <3>1, <3>2, <1>5
      <4> HIDE DEF k
      <4>2. off + k - 1 >= off /\ off + k - 1 < off + a /\ off + k - 1 - off + 1 = k
        BY <4>1, <1>8
      <4> QED  BY <4>1, <4>2 DEF k
    <3> QED  BY <3>2, <3>3, <1>8
  <2>2. CASE left > a
    <3>1. PICK j \in 1..b : left = a + j
      <4>1. left - a \in 1..b /\ left = a + (left - a)  BY <2>2, <1>8
      <4> QED  BY <4>1
    <3>2. todo[a + j].seg = tail + 1 /\ todo[a + j].at = j  BY <1>3 DEF PlanOf
    <3>3. j <= b  BY <1>8
    <3> QED  BY <3>1, <3>2, <3>3, <1>8
  <2> QED  BY <2>1, <2>2, <1>8
<1>10. \A s \in Oldest..Newest, i \in 1..SegCap :
            \/ Rows'[s][i] = Rows[s][i]
            \/ s = tail /\ i >= off /\ Rows'[s][i] = Void
            \/ s = tail /\ i >= off /\ i < off + a /\ Rows'[s][i] = Recs(todo)[i - off + 1]
            \/ s = tail + 1 /\ Rows'[s][i] = Void
            \/ s = tail + 1 /\ i <= b /\ Rows'[s][i] = Recs(todo)[a + i]
  <2> SUFFICES ASSUME NEW s \in Oldest..Newest, NEW i \in 1..SegCap,
                      Rows'[s][i] # Rows[s][i]
               PROVE  \/ s = tail /\ i >= off /\ Rows'[s][i] = Void
                      \/ /\ s = tail /\ i >= off /\ i < off + a
                         /\ Rows'[s][i] = Recs(todo)[i - off + 1]
                      \/ s = tail + 1 /\ Rows'[s][i] = Void
                      \/ s = tail + 1 /\ i <= b /\ Rows'[s][i] = Recs(todo)[a + i]
    OBVIOUS
  <2>1. /\ Rows'[s][i] = IF s = todo[left].seg /\ i = todo[left].at THEN c ELSE Rows[s][i]
        /\ Rows[s] = Cells(s)
    BY <1>4, <1>5, <1>6 DEF Cells
  <2>2. s = todo[left].seg /\ i = todo[left].at /\ Rows'[s][i] = c  BY <2>1
  <2>3. c = Void \/ c = todo[left].rec
    BY <2>1, <2>2, <1>2
  <2> QED  BY <2>2, <2>3, <1>9
<1>11. /\ Settled(Rows', tail, off) /\ Landing(Rows', tail, off, Recs(todo), a, b, Base)
  <2>1. Settled(Rows, tail, off)  BY <1>1 DEF Content, SessionOK
  <2> DEFINE e == Recs(todo)
  <2>2. Landing(Rows, tail, off, e, a, b, Base)  BY <1>3
  <2>3. \A s \in Oldest..Newest, i \in 1..SegCap :
            \/ Rows'[s][i] = Rows[s][i]
            \/ s = tail /\ i >= off /\ Rows'[s][i] = Void
            \/ s = tail /\ i >= off /\ i < off + a /\ Rows'[s][i] = e[i - off + 1]
            \/ s = tail + 1 /\ Rows'[s][i] = Void
            \/ s = tail + 1 /\ i <= b /\ Rows'[s][i] = e[a + i]
    BY <1>10
  <2> HIDE DEF e
  <2>4. Settled(Rows', tail, off) /\ Landing(Rows', tail, off, e, a, b, Base)
    BY <2>1, <2>2, <2>3, <1>5, <1>6, LandingWrite
  <2> QED  BY <2>4 DEF e
<1>12. Headed(Rows', tail, off)
  BY <1>1, <1>7 DEF Content, SessionOK, Headed
<1>13. ChainsOK'
  <2> SUFFICES ASSUME NEW z \in LiveIn(hdr), NEW i \in 1..SegCap, body'[SlotOf(z)][i].n >= 2
               PROVE  ver[SlotOf(z)] = 2
    BY <1>1 DEF ChainsOK, ChainsOn
  <2>0. ChainsOn(hdr, ver, body)  BY DEF Content, ChainsOK
  <2>1. CASE body'[SlotOf(z)][i] = body[SlotOf(z)][i]  BY <2>0, <2>1 DEF ChainsOn
  <2>2. CASE body'[SlotOf(z)][i] # body[SlotOf(z)][i]
    <3>1. z = todo[left].seg /\ i = todo[left].at /\ body'[SlotOf(z)][i] = c
      BY <2>2, <1>4
    <3>2. c = todo[left].rec
      <4>1. c # Cells(todo[left].seg)[todo[left].at]  BY <2>2, <3>1 DEF Cells
      <4>2. ~(Void.n >= 2)  BY BlankIs
      <4> QED  BY <4>1, <4>2, <3>1, <1>2
    <3>3. PICK a2 \in Nat, b2 \in Nat :
              /\ PlanOf(todo, tail, off, a2, b2, next - Len(pend))
              /\ \A k \in 1..(a2 + b2) : todo[k].rec.n >= 2 => ver[SlotOf(todo[k].seg)] = 2
      BY <1>1, JobIs
    <3>4. left \in 1..(a2 + b2)  BY <3>3, <1>1 DEF PlanOf
    <3> QED  BY <3>1, <3>2, <3>3, <3>4
  <2> QED  BY <2>1, <2>2
<1>14. Far(hdr', body')
  <2>1. todo[left].seg \in Oldest..Newest
    <3>1. CASE todo[left].seg = tail  BY <3>1, <1>5
    <3>2. CASE todo[left].seg = tail + 1
      <4>1. PICK a2 \in Nat, b2 \in Nat :
              /\ PlanOf(todo, tail, off, a2, b2, next - Len(pend))
              /\ b2 > 0 => tail < last
        BY <1>1, JobIs
      <4>2. left \in 1..(a2 + b2)  BY <4>1, <1>1 DEF PlanOf
      <4>3. b2 > 0
        <5> SUFFICES ASSUME b2 = 0 PROVE FALSE
          BY <4>1
        <5>1. left \in 1..a2  BY <4>2
        <5>2. todo[left].seg = tail  BY <5>1, <4>1 DEF PlanOf
        <5> QED  BY <5>2, <3>2, <1>5
      <4> QED  BY <4>1, <4>3, <3>2, <1>1, TailRows
    <3> QED  BY <3>1, <3>2, <1>9
  <2>2. \A z \in LiveIn(hdr) : z > NewestIn(hdr) =>
            \A i \in 1..SegCap : body'[SlotOf(z)][i] \in {Void, body[SlotOf(z)][i]}
    <3> SUFFICES ASSUME NEW z \in LiveIn(hdr), z > NewestIn(hdr), NEW i \in 1..SegCap
                 PROVE  body'[SlotOf(z)][i] = body[SlotOf(z)][i]
      OBVIOUS
    <3>1. z # todo[left].seg  BY <2>1, <1>5, CardNow
    <3> QED  BY <3>1, <1>4
  <2>3. Far(hdr, body)  BY DEF Content
  <2> QED  BY <2>2, <2>3, <1>1, FarZeroed
<1> QED  BY <1>1, <1>3, <1>6, <1>11, <1>12, <1>13, <1>14 DEF LandsFor

LEMMA ContentWrites ==
  ASSUME TypeInv, RingOK, Content, Writes
  PROVE  Content'
<1>1. /\ ChainsOK' /\ Far(hdr', body') /\ tail # 0
      /\ Settled(Rows', tail, off) /\ LandsFor(Rows', tail, off, Base, todo)
      /\ Headed(Rows', tail, off) /\ IsRows(Rows', Oldest, Newest)
      /\ UNCHANGED <<hdr, ver>> /\ pc = "write"
  BY WriteKeeps, WritesOne
<1>2. CASE WriteNext \/ WriteLost
  <2>1. UNCHANGED <<tail, off, next, pend, todo>> /\ pc' # "idle" /\ Base' = Base /\ ~stopped'
    BY <1>2, <1>1 DEF WriteNext, WriteLost, ram, Base, TypeInv, JobOK
  <2>2. Headed(Rows, tail, off)'  BY <2>1, <1>1 DEF Headed
  <2>3. SessionOK'  BY <2>1, <2>2, <1>1 DEF SessionOK, LandsFor
  <2> QED  BY <2>1, <2>3, <1>1 DEF Content, CleanOK
<1>3. CASE WriteFails
  <2>1. UNCHANGED <<tail, off>> /\ pc' = "idle" /\ stopped'
    BY <1>3 DEF WriteFails, JobOver
  <2>2. Headed(Rows, tail, off)'  BY <2>1, <1>1 DEF Headed
  <2>3. Trails(Rows', tail', off')  BY <2>1, <1>1 DEF LandsFor, Trails
  <2>4. SessionOK'  BY <2>1, <2>2, <2>3, <1>1 DEF SessionOK, Trails
  <2> QED  BY <2>1, <2>4, <1>1 DEF Content, CleanOK
<1>4. CASE Crash
  <2>1. tail' = 0  BY <1>4 DEF Crash, Down
  <2>2. RowsClean(Rows')
    <3>1. PICK a, b : Landing(Rows', tail, off, Recs(todo), a, b, Base)  BY <1>1 DEF LandsFor
    <3> QED  BY <3>1, <1>1, TailRows, LandingClean
  <2>3. Clean(hdr', body')  BY <2>2, CardNow DEF Clean
  <2> QED  BY <2>1, <2>3, <1>1 DEF Content, CleanOK, SessionOK
<1> QED  BY <1>2, <1>3, <1>4 DEF Writes

\* A batch that is there as a whole is settled, and the tail is behind it.
LEMMA PlanSpare ==
  ASSUME TypeInv, tail # 0, NEW p, IsJob(p), NEW a, NEW b, NEW q,
         PlanOf(p, tail, off, a, b, q), b > 0
  PROVE  tail < last
<1>1. PICK a2 \in Nat, b2 \in Nat :
         PlanOf(p, tail, off, a2, b2, next - Len(pend)) /\ (b2 > 0 => tail < last)
  BY JobIs
<1>2. a + b = a2 + b2 /\ a \in Nat /\ b \in Nat
  <2>1. Len(p) = a + b /\ a \in Nat /\ b \in Nat  BY DEF PlanOf
  <2>2. Len(p) = a2 + b2  BY <1>1 DEF PlanOf
  <2> QED  BY <2>1, <2>2
<1>3. b2 > 0
  <2> SUFFICES ASSUME b2 = 0 PROVE FALSE
    BY <1>1
  <2>1. a + 1 \in 1..a2 /\ 1 \in 1..b  BY <1>2
  <2>2. p[a + 1].seg = tail + 1  BY <2>1 DEF PlanOf
  <2>3. p[a + 1].seg = tail
    <3> DEFINE k == a + 1
    <3>1. k \in 1..a2  BY <2>1
    <3> HIDE DEF k
    <3>2. p[k].seg = tail  BY <3>1, <1>1 DEF PlanOf
    <3> QED  BY <3>2 DEF k
  <2>4. tail \in Nat  BY DEF TypeInv, RamOK
  <2> QED  BY <2>2, <2>3, <2>4
<1> QED  BY <1>1, <1>3

LEMMA OnCardLies ==
  ASSUME TypeInv, RingOK, tail # 0, IsJob(todo), OnCard, NEW a, NEW b, NEW q,
         PlanOf(todo, tail, off, a, b, q)
  PROVE  Lies(Rows, todo, a + b)
<1>0. /\ DOMAIN Rows = Oldest..Newest /\ tail \in Oldest..Newest
      /\ \A s \in Oldest..Newest : Rows[s] = body[SlotOf(s)]
      /\ tail < last => tail + 1 \in Oldest..Newest
  BY TailRows
<1>1. /\ a \in Nat /\ b \in Nat /\ Len(todo) = a + b
      /\ \A k \in 1..a : todo[k].seg = tail
      /\ \A k \in 1..b : todo[a + k].seg = tail + 1
  BY DEF PlanOf
<1>2. \A k \in 1..(a + b) : todo[k].seg \in Oldest..Newest
  <2> TAKE k \in 1..(a + b)
  <2>1. CASE k <= a
    <3>1. k \in 1..a  BY <2>1, <1>1
    <3> QED  BY <3>1, <1>0, <1>1
  <2>2. CASE k > a
    <3>1. PICK j \in 1..b : k = a + j
      <4>1. k - a \in 1..b /\ k = a + (k - a)  BY <2>2, <1>1
      <4> QED  BY <4>1
    <3>2. b > 0  BY <3>1, <1>1
    <3>3. tail < last  BY <3>2, PlanSpare
    <3> QED  BY <3>1, <3>3, <1>0, <1>1
  <2> QED  BY <2>1, <2>2, <1>1
<1> QED  BY <1>0, <1>1, <1>2 DEF Lies, OnCard, Cells

LEMMA ContentVerified ==
  ASSUME TypeInv, RingOK, Content, Verified
  PROVE  /\ Content'
         /\ \E a, b : /\ PlanOf(todo, tail, off, a, b, Base)
                      /\ Landing(Rows, tail, off, Recs(todo), a, b, Base)
                      /\ Lies(Rows, todo, a + b) /\ Rows' = Rows
                      /\ tail' = IF b = 0 THEN tail ELSE tail + 1
                      /\ off' = IF b = 0 THEN off + a ELSE b + 1
<1>0. /\ pc = "verify" /\ pc' = "idle" /\ pend' = <<>> /\ OnCard
      /\ tail' = Last(todo).seg /\ off' = Last(todo).at + 1
      /\ next' = Last(todo).rec.seq + 1
      /\ UNCHANGED <<hdr, ver, body, stopped>>
  BY DEF Verified, JobOver, card
<1>1. /\ IsJob(todo) /\ tail # 0 /\ ~stopped /\ tail \in Nat /\ off \in 1..(SegCap + 1)
      /\ Settled(Rows, tail, off)
  BY <1>0, TailRows DEF TypeInv, JobOK, Content, SessionOK
<1>2. PICK a, b : /\ PlanOf(todo, tail, off, a, b, Base)
                  /\ Landing(Rows, tail, off, Recs(todo), a, b, Base)
  BY <1>0, <1>1 DEF Content, SessionOK, LandsFor
<1>3. Rows' = Rows  BY <1>0, CardNow
<1>4. Lies(Rows, todo, a + b)  BY <1>0, <1>1, <1>2, OnCardLies
<1>5. /\ Last(todo) = todo[a + b]
      /\ b = 0 => Last(todo).seg = tail /\ Last(todo).at = off + a - 1
      /\ b > 0 => Last(todo).seg = tail + 1 /\ Last(todo).at = b
      /\ Last(todo).rec.seq = Base + (a + b) - 1
  BY <1>1, <1>2, PlanEnd
<1>6. a \in Nat /\ b \in Nat /\ Base \in Nat /\ off \in Nat  BY <1>1, <1>2, Sizes DEF PlanOf
<1>7. /\ tail' = IF b = 0 THEN tail ELSE tail + 1
      /\ off' = IF b = 0 THEN off + a ELSE b + 1
      /\ next' = Base + a + b
  BY <1>0, <1>5, <1>6
<1>8. LET T2 == IF b = 0 THEN tail ELSE tail + 1
          O2 == IF b = 0 THEN off + a ELSE b + 1
      IN  /\ O2 \in 2..(SegCap + 1) /\ Settled(Rows, T2, O2)
          /\ \A e : Landing(Rows, T2, O2, e, 0, 0, Base + a + b)
  BY <1>1, <1>2, <1>4, TailRows, LandingDone
<1>9. /\ off' \in 2..(SegCap + 1) /\ Settled(Rows', tail', off')
      /\ \A e : Landing(Rows', tail', off', e, 0, 0, next')
  BY <1>3, <1>7, <1>8
<1>10. Base' = next'
  <2>1. Len(pend') = 0 /\ next' \in Nat  BY <1>0, <1>6, <1>7
  <2>2. Base' = next' - 0  BY <2>1 DEF Base
  <2>3. \A x \in Nat : x - 0 = x  OBVIOUS
  <2> QED  BY <2>1, <2>2, <2>3
<1>11. Headed(Rows, tail, off)'
  <2>1. off' # 1  BY <1>9
  <2> QED  BY <2>1 DEF Headed
<1>12. SessionOK'
  BY <1>0, <1>1, <1>9, <1>10, <1>11 DEF SessionOK
<1>13. ChainsOK' /\ Far(hdr', body') /\ CleanOK'
  <2>1. tail' # 0  BY <1>1, <1>7
  <2> QED  BY <2>1, <1>0 DEF Content, ChainsOK, CleanOK
<1> QED  BY <1>2, <1>3, <1>4, <1>7, <1>12, <1>13 DEF Content

--------------------------------
\* A reopen, whole or cut short.

LEMMA CellsNumbered ==
  ASSUME NEW seg \in 1..MaxIdx, NEW i \in 1..SegCap
  PROVE  seg * SegCap + i <= AllCells /\ seg * SegCap + i \in Nat
<1>1. SegCap \in Nat /\ MaxIdx \in Nat /\ seg \in Nat /\ i \in Nat  BY Sizes
<1>2. PICK d \in Nat : MaxIdx = seg + d
  <2>1. MaxIdx - seg \in Nat /\ MaxIdx = seg + (MaxIdx - seg)  BY <1>1
  <2> QED  BY <2>1
<1>3. (MaxIdx + 1) * SegCap = seg * SegCap + d * SegCap + SegCap /\ d * SegCap \in Nat
      /\ seg * SegCap \in Nat
  BY <1>1, <1>2
<1> DEFINE x == seg * SegCap  y == d * SegCap
<1>4. x \in Nat /\ y \in Nat /\ AllCells = x + y + SegCap  BY <1>3 DEF AllCells
<1> HIDE DEF x, y
<1>5. x + i <= AllCells /\ x + i \in Nat  BY <1>1, <1>4
<1> QED  BY <1>5 DEF x

\* What a repair makes of the rows.
LEMMA RepairMends ==
  ASSUME CardOK, LiveIn(hdr) # {}, NEW c \in Nat, body' = Repaired(Scan, c), hdr' = hdr
  PROVE  /\ IsRows(Rows, Oldest, Newest) /\ IsRows(Rows', Oldest, Newest)
         /\ Mended(Rows, Rows', Scan.tail, RunLen(Rows[Scan.tail]))
         /\ \A s \in Oldest..Newest, i \in 1..SegCap :
              Rows'[s][i] = IF InWindow(Scan, s, i) /\ s * SegCap + i <= c
                            THEN Void ELSE Rows[s][i]
         /\ \A z \in LiveIn(hdr), i \in 1..SegCap :
              body'[SlotOf(z)][i] \in {Void, body[SlotOf(z)][i]}
<1>0. /\ IsRows(Rows, Oldest, Newest) /\ Scan.tail \in Oldest..Newest
      /\ Scan.off = RunLen(Rows[Scan.tail]) + 1
      /\ \A s \in Oldest..Newest : Rows[s] = body[SlotOf(s)]
      /\ Oldest..Newest \subseteq LiveIn(hdr) /\ LiveSegs = LiveIn(hdr)
      /\ Oldest \in Nat /\ Newest \in Nat /\ DOMAIN Rows = Oldest..Newest
      /\ SegCap \in Nat /\ ZWindow \in Nat /\ ZWindow >= 1
      /\ RunLen(Rows[Scan.tail]) \in 0..SegCap
  <2>1. /\ IsRows(Rows, Oldest, Newest) /\ Scan.tail \in Oldest..Newest
        /\ Scan.off = RunLen(Rows[Scan.tail]) + 1
        /\ \A s \in Oldest..Newest : Rows[s] = body[SlotOf(s)]
    BY ScanIs
  <2>2. Oldest..Newest \subseteq LiveIn(hdr) /\ LiveSegs = LiveIn(hdr)  BY RangeFacts, CardNow
  <2>3. Oldest \in Nat /\ Newest \in Nat /\ DOMAIN Rows = Oldest..Newest  BY <2>1, RowsFacts
  <2>4. SegCap \in Nat /\ ZWindow \in Nat /\ ZWindow >= 1  BY Sizes
  <2> QED  BY <2>1, <2>2, <2>3, <2>4, RunLenFact
<1>1. body' \in [Slots -> Row]  BY RepairedRow
<1>2. /\ IsRows(Rows', Oldest, Newest)
      /\ \A s \in Oldest..Newest : Rows'[s] = body'[SlotOf(s)]
  BY <1>1, RowsAre, CardNow
<1>3. \A z \in LiveIn(hdr), i \in 1..SegCap :
         body'[SlotOf(z)][i] = IF InWindow(Scan, z, i) /\ z * SegCap + i <= c
                               THEN Void ELSE body[SlotOf(z)][i]
  <2> TAKE z \in LiveIn(hdr), i \in 1..SegCap
  <2>1. SlotOf(z) \in Slots /\ hdr[SlotOf(z)] = z /\ z \in LiveSegs  BY <1>0, SlotIn DEF LiveIn
  <2> QED  BY <2>1 DEF Repaired
<1>4. \A s \in Oldest..Newest, i \in 1..SegCap :
         Rows'[s][i] = IF InWindow(Scan, s, i) /\ s * SegCap + i <= c THEN Void ELSE Rows[s][i]
  BY <1>0, <1>2, <1>3
<1>5. \A s \in Oldest..Newest, i \in 1..SegCap : Rows'[s][i] \in {Rows[s][i], Void}  BY <1>4
<1>6. \A s \in DOMAIN Rows : s < Scan.tail => Rows'[s] = Rows[s]
  <2> SUFFICES ASSUME NEW s \in Oldest..Newest, s < Scan.tail PROVE Rows'[s] = Rows[s]
    BY <1>0
  <2>1. \A i \in 1..SegCap : ~InWindow(Scan, s, i)  BY <1>0 DEF InWindow
  <2>2. \A i \in 1..SegCap : Rows'[s][i] = Rows[s][i]  BY <2>1, <1>4
  <2>3. Rows[s] \in Row /\ Rows'[s] \in Row  BY <1>0, <1>2, RowsFacts
  <2> QED  BY <2>2, <2>3, RowSame
<1> DEFINE v == Scan.tail  r == RunLen(Rows[v])
<1>7. v \in Oldest..Newest /\ r \in 0..SegCap /\ v \in Nat /\ Scan.off = r + 1 /\ Scan.tail = v
  BY <1>0
<1> HIDE DEF v, r
<1>8. \A i \in 1..SegCap : InWindow(Scan, v, i) <=> i > r /\ i <= r + ZWindow
  BY <1>7, <1>0 DEF InWindow
<1>9. \A i \in 1..SegCap : i <= r => Rows'[v][i] = Rows[v][i]
  <2> TAKE i \in 1..SegCap
  <2> HAVE i <= r
  <2>1. ~InWindow(Scan, v, i)  BY <1>7, <1>8
  <2> QED  BY <2>1, <1>4, <1>7
<1>10. Rows'[v] = Rows[v] \/ (r < SegCap /\ Rows'[v][r + 1] = Void)
  <2> DEFINE base == v * SegCap
  <2>0. base \in Nat  BY <1>0, <1>7
  <2> HIDE DEF base
  <2>1. \A i \in 1..SegCap : Rows'[v][i] = IF i > r /\ i <= r + ZWindow /\ base + i <= c
                                           THEN Void ELSE Rows[v][i]
    BY <1>4, <1>7, <1>8 DEF base
  <2>2. CASE r < SegCap /\ base + (r + 1) <= c
    <3>1. r + 1 \in 1..SegCap /\ r + 1 > r /\ r + 1 <= r + ZWindow  BY <2>2, <1>0, <1>7
    <3> QED  BY <3>1, <2>1, <2>2
  <2>3. CASE ~(r < SegCap /\ base + (r + 1) <= c)
    <3>1. \A i \in 1..SegCap : i > r => ~(base + i <= c)  BY <2>0, <2>3, <1>0, <1>7
    <3>2. \A i \in 1..SegCap : Rows'[v][i] = Rows[v][i]  BY <2>1, <3>1
    <3>3. Rows[v] \in Row /\ Rows'[v] \in Row  BY <1>0, <1>2, <1>7, RowsFacts
    <3> QED  BY <3>2, <3>3, RowSame
  <2> QED  BY <2>2, <2>3
<1>11. Mended(Rows, Rows', v, r)
  BY <1>0, <1>5, <1>6, <1>7, <1>9, <1>10 DEF Mended
<1>12. \A z \in LiveIn(hdr), i \in 1..SegCap :
         body'[SlotOf(z)][i] \in {Void, body[SlotOf(z)][i]}
  BY <1>3
<1> QED  BY <1>0, <1>2, <1>4, <1>11, <1>12 DEF v, r

\* A reopen that is through leaves nothing behind the place it found.
LEMMA OpenSettles ==
  ASSUME TypeInv, RingOK, Content, LiveIn(hdr) # {}, body' = Repaired(Scan, AllCells), hdr' = hdr,
         NEW q \in Nat, Scan.expect \subseteq {q}
  PROVE  /\ Settled(Rows', Scan.tail, Scan.off)
         /\ Landing(Rows', Scan.tail, Scan.off, <<>>, 0, 0, q)
<1>0. /\ CardOK /\ RowsClean(Rows) /\ AllCells \in Nat
  <2>1. RowsClean(Rows)  BY CleanNow, CardNow DEF Clean
  <2>2. AllCells \in Nat  BY Sizes DEF AllCells
  <2> QED  BY <2>1, <2>2 DEF TypeInv
<1> DEFINE v == Scan.tail  r == RunLen(Rows[v])
<1>1. /\ v = Max(Visited(Rows)) /\ v \in Oldest..Newest /\ Scan.off = r + 1 /\ r \in 0..SegCap
      /\ Scan.expect = ExpectAt(Rows, v + 1)
  BY <1>0, ScanIs, RunLenFact
<1>2. /\ IsRows(Rows, Oldest, Newest) /\ IsRows(Rows', Oldest, Newest)
      /\ Mended(Rows, Rows', v, r)
      /\ \A s \in Oldest..Newest, i \in 1..SegCap :
              Rows'[s][i] = IF InWindow(Scan, s, i) /\ s * SegCap + i <= AllCells
                            THEN Void ELSE Rows[s][i]
  BY <1>0, RepairMends
<1>3. /\ Scan.tail = v /\ Oldest \in 1..MaxIdx /\ Newest \in 1..MaxIdx /\ v \in Nat
      /\ ZWindow \in Nat /\ SegCap \in Nat /\ DOMAIN Rows = Oldest..Newest
      /\ Oldest \in Nat /\ Newest \in Nat /\ MaxIdx \in Nat
  BY <1>1, <1>2, RowsFacts, Sizes DEF IsRows
<1> HIDE DEF v
<1>4. \A s \in Oldest..Newest, i \in 1..SegCap :
         Rows'[s][i] = IF InWindow(Scan, s, i) THEN Void ELSE Rows[s][i]
  <2>1. \A s \in Oldest..Newest, i \in 1..SegCap : s * SegCap + i <= AllCells
    <3> TAKE s \in Oldest..Newest, i \in 1..SegCap
    <3>1. s \in 1..MaxIdx  BY <1>3
    <3> QED  BY <3>1, CellsNumbered
  <2> QED  BY <2>1, <1>2
<1>5. Blanks(Rows'[v], r)
  <2> SUFFICES ASSUME NEW i \in 1..SegCap, i > r PROVE Rows'[v][i] = Void
    BY DEF Blanks
  <2>1. CASE i <= r + ZWindow
    <3>1. InWindow(Scan, v, i)  BY <2>1, <1>1, <1>3 DEF InWindow
    <3> QED  BY <3>1, <1>1, <1>4
  <2>2. CASE i > r + ZWindow
    <3>1. Rows[v][i] = Void  BY <2>2, <1>0, <1>1 DEF RowsClean, Blanks
    <3> QED  BY <3>1, <1>1, <1>4
  <2> QED  BY <2>1, <2>2, <1>1, <1>3
<1>6. \A s \in Oldest..Newest : s > v => Blanks(Rows'[s], 0)
  <2> SUFFICES ASSUME NEW s \in Oldest..Newest, s > v, NEW i \in 1..SegCap
               PROVE  Rows'[s][i] = Void
    BY DEF Blanks
  <2>1. CASE i <= ZWindow
    <3>1. InWindow(Scan, s, i)  BY <2>1, <1>1, <1>3 DEF InWindow
    <3> QED  BY <3>1, <1>4
  <2>2. CASE i > ZWindow
    <3>1. Rows[s][i] = Void  BY <2>2, <1>0, <1>1, <1>3 DEF RowsClean, Blanks
    <3> QED  BY <3>1, <1>4
  <2> QED  BY <2>1, <2>2, <1>3
<1>7. /\ Settled(Rows', v, r + 1)
      /\ \A q2 \in Nat : ExpectAt(Rows, v + 1) \subseteq {q2} =>
            \A e : Landing(Rows', v, r + 1, e, 0, 0, q2)
  <2> HIDE DEF r
  <2>1. r = RunLen(Rows[v])  BY DEF r
  <2> QED  BY <2>1, <1>0, <1>1, <1>2, <1>5, <1>6, RepairFull
<1> QED  BY <1>1, <1>3, <1>7

\* A head without a record it needs is that of a chain.
LEMMA OpenHeaded ==
  ASSUME TypeInv, RingOK, ChainsOK, LiveIn(hdr) # {},
         Scan.off = 1, Scan.tail - 1 \in DOMAIN Rows
  PROVE  ver[SlotOf(Scan.tail)] = 2
<1> DEFINE v == Scan.tail
<1>1. /\ IsRows(Rows, Oldest, Newest) /\ v = Max(Visited(Rows)) /\ v \in Oldest..Newest
      /\ RunLen(Rows[v]) + 1 = 1 /\ \A s \in Oldest..Newest : Rows[s] = body[SlotOf(s)]
      /\ v - 1 \in DOMAIN Rows
  BY ScanIs DEF TypeInv
<1> HIDE DEF v
<1>2. /\ RunLen(Rows[v]) = 0 /\ v \in (Oldest + 1)..v /\ Rows[v] \in Row
  <2>1. RunLen(Rows[v]) \in 0..SegCap /\ SegCap \in Nat  BY RunLenFact, Sizes
  <2>2. DOMAIN Rows = Oldest..Newest /\ Oldest \in Nat /\ Newest \in Nat  BY <1>1, RowsFacts
  <2>3. Rows[v] \in Row  BY <1>1, RowsFacts
  <2> QED  BY <2>1, <2>2, <2>3, <1>1
<1>3. ContinuesAt(Rows, v)  BY <1>1, <1>2, VisitedFacts
<1>4. Rows[v][1].n >= 2  BY <1>2, <1>3, RunStarts DEF ContinuesAt
<1>5. v \in LiveIn(hdr)  BY <1>1, RangeFacts, CardNow
<1>6. 1 \in 1..SegCap  BY Sizes
<1> QED  BY <1>1, <1>4, <1>5, <1>6 DEF ChainsOK, ChainsOn, v

LEMMA ContentOpen ==
  ASSUME TypeInv, RingOK, Content, Open
  PROVE  Content'
<1>0. /\ Opened /\ UNCHANGED <<hdr, ver>> /\ pc' = "idle" /\ ~stopped' /\ pend' = <<>>
  BY DEF Open, Resting, job, Opened
<1>1. ChainsOK'  BY KeptOpens, KeptChains DEF Content, ChainsOK
<1>2. CASE LiveSegs = {}
  <2>1. tail' = 0 /\ LiveIn(hdr') = {}  BY <1>0, <1>2, CardNow DEF Opened
  <2> QED  BY <2>1, <1>1 DEF Content, Far, CleanOK, Clean, SessionOK
<1>3. CASE LiveSegs # {}
  <2>1. LiveIn(hdr) # {}  BY <1>3, CardNow
  <2>2. /\ tail' = Scan.tail /\ off' = Scan.off
        /\ next' \in IF Scan.expect = {} THEN {1} ELSE Scan.expect
        /\ body' = Repaired(Scan, AllCells)
    BY <1>0, <1>3 DEF Opened
  <2>3. next' \in Nat /\ Scan.expect \subseteq {next'} /\ Scan.tail \in Oldest..Newest
    <3>1. /\ IsRows(Rows, Oldest, Newest) /\ Scan.expect = ExpectAt(Rows, Scan.tail + 1)
          /\ Scan.tail \in Oldest..Newest
      BY <2>1, ScanIs DEF TypeInv
    <3>2. Scan.tail + 1 \in Nat  BY <3>1, RowsFacts
    <3>3. CASE Scan.expect = {}  BY <3>1, <3>3, <2>2
    <3>4. CASE Scan.expect # {}
      <4>1. next' \in ExpectAt(Rows, Scan.tail + 1)  BY <3>1, <3>4, <2>2
      <4>2. next' \in Nat /\ ExpectAt(Rows, Scan.tail + 1) = {next'}
        BY <4>1, <3>1, <3>2, ExpectNumber
      <4> QED  BY <4>2, <3>1
    <3> QED  BY <3>3, <3>4
  <2>4. Base' = next'
    <3>1. Len(pend') = 0  BY <1>0
    <3>2. Base' = next' - 0  BY <3>1 DEF Base
    <3>3. \A x \in Nat : x - 0 = x  OBVIOUS
    <3> QED  BY <3>2, <3>3, <2>3
  <2>5. /\ Settled(Rows', tail', off')
        /\ Landing(Rows', tail', off', <<>>, 0, 0, Base')
    BY <2>1, <2>2, <2>3, <2>4, <1>0, OpenSettles
  <2>6. Headed(Rows, tail, off)'
    <3> SUFFICES ASSUME off' = 1, tail' - 1 \in DOMAIN Rows' PROVE ver'[SlotOf(tail')] = 2
      BY DEF Headed
    <3>1. DOMAIN Rows' = DOMAIN Rows  BY <1>0, CardNow DEF RowsIn
    <3>2. ver[SlotOf(Scan.tail)] = 2  BY <3>1, <2>1, <2>2, OpenHeaded DEF Content
    <3> QED  BY <3>2, <2>2, <1>0
  <2>7. SessionOK'  BY <1>0, <2>5, <2>6 DEF SessionOK
  <2>8. Far(hdr', body')
    <3>1. \A z \in LiveIn(hdr), i \in 1..SegCap :
             body'[SlotOf(z)][i] \in {Void, body[SlotOf(z)][i]}
      <4>1. AllCells \in Nat /\ CardOK  BY Sizes DEF AllCells, TypeInv
      <4> QED  BY <4>1, <1>0, <2>1, <2>2, RepairMends
    <3>2. Far(hdr, body)  BY DEF Content
    <3> QED  BY <3>1, <3>2, <1>0, FarZeroed
  <2>9. tail' # 0
    <3>1. Oldest \in 1..MaxIdx /\ Newest \in Nat /\ MaxIdx \in Nat
      BY <2>1, ScanIs, Sizes DEF TypeInv, IsRows
    <3> QED  BY <3>1, <2>2, <2>3
  <2> QED  BY <1>1, <2>7, <2>8, <2>9 DEF Content, CleanOK
<1> QED  BY <1>2, <1>3

\* The session is gone and left the card as it was, or the tail half repaired.
LEMMA ContentDown ==
  ASSUME TypeInv, RingOK, Content, \/ OpenFails \/ OpenCut \/ (Crash /\ pc # "write")
  PROVE  Content'
<1>1. CASE OpenFails \/ (Crash /\ pc # "write")
  <2>1. tail' = 0 /\ UNCHANGED <<hdr, ver, body>>
    BY <1>1 DEF OpenFails, Crash, Down, card
  <2>2. Clean(hdr, body)  BY CleanNow
  <2> QED  BY <2>1, <2>2 DEF Content, ChainsOK, CleanOK, SessionOK
<1>2. CASE OpenCut
  <2>1. /\ tail' = 0 /\ UNCHANGED <<hdr, ver>> /\ LiveIn(hdr) # {} /\ CardOK
        /\ \E c \in 1..AllCells : body' = Repaired(Scan, c)
    BY <1>2, CardNow DEF OpenCut, Down, TypeInv
  <2>2. PICK c \in Nat : body' = Repaired(Scan, c)
    <3>1. AllCells \in Nat  BY Sizes DEF AllCells
    <3> QED  BY <2>1, <3>1
  <2>3. /\ IsRows(Rows, Oldest, Newest) /\ IsRows(Rows', Oldest, Newest)
        /\ Mended(Rows, Rows', Scan.tail, RunLen(Rows[Scan.tail]))
        /\ \A z \in LiveIn(hdr), i \in 1..SegCap :
              body'[SlotOf(z)][i] \in {Void, body[SlotOf(z)][i]}
    BY <2>1, <2>2, RepairMends
  <2>4. RowsClean(Rows)  BY <2>1, CleanNow, CardNow DEF Clean
  <2>5. Scan.tail = Max(Visited(Rows))  BY <2>1, ScanIs
  <2>6. RowsClean(Rows')  BY <2>3, <2>4, <2>5, RepairPart
  <2>7. Clean(hdr', body')  BY <2>6, CardNow DEF Clean
  <2>8. Far(hdr', body')  BY <2>1, <2>3, FarZeroed DEF Content
  <2>9. ChainsOK'  BY <1>2, KeptOpens, KeptChains DEF Content, ChainsOK
  <2> QED  BY <2>1, <2>7, <2>8, <2>9 DEF Content, CleanOK, SessionOK
<1> QED  BY <1>1, <1>2

--------------------------------
\* The ring loses segments and gets blank ones.
\* With old rows gone, and blank ones behind the tail, all is as it was there.

LEMMA NarrowCard ==
  ASSUME TypeInv, RingOK, Content, tail # 0, CardOK', LiveIn(hdr') # {},
         Oldest <= Oldest', tail \in Oldest'..Newest',
         \A s \in Oldest'..Newest' :
            \/ s <= Newest /\ body'[SlotOf(s)] = body[SlotOf(s)]
            \/ s > tail /\ Blanks(body'[SlotOf(s)], 0)
  PROVE  /\ IsRows(Rows', Oldest', Newest') /\ Settled(Rows', tail, off) /\ RowsClean(Rows')
         /\ tail - 1 \in DOMAIN Rows' => tail - 1 \in DOMAIN Rows
         /\ pc = "idle" /\ ~stopped => Landing(Rows', tail, off, <<>>, 0, 0, Base)
<1>0. /\ IsRows(Rows, Oldest, Newest) /\ tail \in Oldest..Newest /\ off \in 1..(SegCap + 1)
      /\ \A s \in Oldest..Newest : Rows[s] = body[SlotOf(s)]
      /\ DOMAIN Rows = Oldest..Newest /\ Oldest \in Nat /\ Newest \in Nat
      /\ Settled(Rows, tail, off) /\ Trails(Rows, tail, off)
  BY TailRows, RowsFacts, SessionTrails DEF Content, SessionOK
<1>1. /\ IsRows(Rows', Oldest', Newest') /\ DOMAIN Rows' = Oldest'..Newest'
      /\ \A s \in Oldest'..Newest' : Rows'[s] = body'[SlotOf(s)]
  <2>1. body' \in [Slots -> Row]  BY DEF CardOK
  <2> QED  BY <2>1, RowsAre, CardNow
<1>2. Oldest' \in Nat /\ Newest' \in Nat  BY <1>1, RowsFacts
<1>3. \A s \in Oldest'..Newest' : \/ s <= Newest /\ Rows'[s] = Rows[s]
                                  \/ s > tail /\ Blanks(Rows'[s], 0)
  <2> TAKE s \in Oldest'..Newest'
  <2>1. CASE s <= Newest /\ body'[SlotOf(s)] = body[SlotOf(s)]
    <3>1. s \in Oldest..Newest  BY <2>1, <1>0, <1>2
    <3> QED  BY <3>1, <2>1, <1>0, <1>1
  <2>2. CASE s > tail /\ Blanks(body'[SlotOf(s)], 0)  BY <2>2, <1>1
  <2> QED  BY <2>1, <2>2
<1>4. \A e, a, b, q : Landing(Rows, tail, off, e, a, b, q)
        => Settled(Rows', tail, off) /\ Landing(Rows', tail, off, e, a, b, q)
  <2> SUFFICES ASSUME NEW e, NEW a, NEW b, NEW q, Landing(Rows, tail, off, e, a, b, q)
               PROVE  Settled(Rows', tail, off) /\ Landing(Rows', tail, off, e, a, b, q)
    OBVIOUS
  <2>1. PICK R2, lo2, hi2 : R2 = Rows' /\ lo2 = Oldest' /\ hi2 = Newest'  OBVIOUS
  <2>2. /\ IsRows(R2, lo2, hi2) /\ Oldest <= lo2 /\ tail \in lo2..hi2
        /\ \A s \in lo2..hi2 : \/ s <= Newest /\ R2[s] = Rows[s]
                               \/ s > tail /\ Blanks(R2[s], 0)
    BY <2>1, <1>1, <1>3
  <2>3. Settled(R2, tail, off) /\ Landing(R2, tail, off, e, a, b, q)
    BY <2>2, <1>0, LandingNarrow
  <2> QED  BY <2>1, <2>3
<1>5. PICK e, a, b, q : Landing(Rows, tail, off, e, a, b, q)  BY <1>0 DEF Trails
<1>6. Settled(Rows', tail, off) /\ Landing(Rows', tail, off, e, a, b, q)  BY <1>4, <1>5
<1>7. RowsClean(Rows')  BY <1>0, <1>1, <1>6, LandingClean
<1>8. tail - 1 \in DOMAIN Rows' => tail - 1 \in DOMAIN Rows  BY <1>0, <1>1, <1>2
<1>9. pc = "idle" /\ ~stopped => Landing(Rows', tail, off, <<>>, 0, 0, Base)
  BY <1>4 DEF Content, SessionOK
<1> QED  BY <1>1, <1>6, <1>7, <1>8, <1>9

\* The session goes on, idle or with a batch begun.
LEMMA NarrowReady ==
  ASSUME TypeInv, RingOK, Content, tail # 0, CardOK', LiveIn(hdr') # {},
         Oldest <= Oldest', tail \in Oldest'..Newest',
         \A s \in Oldest'..Newest' :
            \/ s <= Newest /\ body'[SlotOf(s)] = body[SlotOf(s)]
            \/ s > tail /\ Blanks(body'[SlotOf(s)], 0),
         pc = "idle", ~stopped, UNCHANGED <<tail, off>>, Base' = Base,
         ver'[SlotOf(tail)] = ver[SlotOf(tail)]
  PROVE  Ready'
<1>1. /\ Settled(Rows', tail, off) /\ Landing(Rows', tail, off, <<>>, 0, 0, Base)
      /\ tail - 1 \in DOMAIN Rows' => tail - 1 \in DOMAIN Rows
  BY NarrowCard
<1>2. Headed(Rows, tail, off)'
  BY <1>1 DEF Content, SessionOK, Headed
<1> QED  BY <1>1, <1>2 DEF Ready

\* The spare's header is rewritten, or lost.
LEMMA ReheadCard ==
  ASSUME TypeInv, RingOK, Content, tail # 0, pc = "idle", ~stopped, tail < last,
         \E v \in 1..2 : Rehead(tail + 1, v) \/ Rehead(Free, v), UNCHANGED body
  PROVE  /\ CardOK' /\ Far(hdr', body') /\ LiveIn(hdr') # {}
         /\ Oldest <= Oldest' /\ Oldest = Oldest' /\ tail \in Oldest'..Newest'
         /\ \A s \in Oldest'..Newest' : s <= Newest /\ body'[SlotOf(s)] = body[SlotOf(s)]
         /\ ver'[SlotOf(tail)] = ver[SlotOf(tail)]
<1>0. /\ IsRows(Rows, Oldest, Newest) /\ tail \in Oldest..Newest /\ tail \in Nat \ {0}
      /\ \A s \in Oldest..Newest : Rows[s] = body[SlotOf(s)] /\ s \in LiveIn(hdr)
      /\ DOMAIN Rows = Oldest..Newest /\ Oldest \in Nat /\ Newest \in Nat
      /\ Placed(hdr, first, last, tail) /\ tail + 1 \in Oldest..Newest
      /\ LiveIn(hdr) # {} /\ MaxIdx \in Nat /\ Gone = MaxIdx + 1
  BY TailRows, RowsFacts, Sizes
<1>1. /\ tail + 1 \in LiveIn(hdr) /\ tail \in LiveIn(hdr) /\ SlotOf(tail + 1) \in Slots
      /\ SlotOf(tail + 1) # SlotOf(tail)
  <2>1. tail + 1 # tail  BY <1>0
  <2>2. tail + 1 \in LiveIn(hdr) /\ tail \in LiveIn(hdr)  BY <1>0
  <2> QED  BY <2>1, <2>2, SlotOwn, SpareLive
<1>2. /\ hdr \in [Slots -> 0..Gone] /\ ver \in [Slots -> 1..2] /\ body \in [Slots -> Row]
      /\ Near(hdr) /\ GoneFirst(hdr) /\ CardOK
  BY DEF TypeInv, CardOK, RingOK
<1>3. CardOK'
  <2>1. hdr' \in [Slots -> 0..Gone] /\ ver' \in [Slots -> 1..2]  BY ReheadBase
  <2> QED  BY <2>1, <1>2 DEF CardOK
<1>4. ver'[SlotOf(tail)] = ver[SlotOf(tail)]
  <2>1. SlotOf(tail) \in Slots  BY <1>0, SlotIn
  <2> QED  BY <2>1, <1>1, <1>2 DEF Rehead
<1>5. CASE hdr' = hdr
  <2>1. Oldest' = Oldest /\ Newest' = Newest  BY <1>5, CardNow
  <2>2. Far(hdr', body')  BY <1>5 DEF Content
  <2>3. \A s \in Oldest..Newest : s <= Newest  BY <1>0
  <2> QED  BY <1>0, <1>3, <1>4, <1>5, <2>1, <2>2, <2>3
<1>6. CASE hdr' = [hdr EXCEPT ![SlotOf(tail + 1)] = Free]
  <2>1. LiveIn(hdr') = LiveIn(hdr) \ {tail + 1}  BY <1>0, <1>2, <1>6, DropRing
  <2>2. OldestIn(hdr') = Oldest /\ NewestIn(hdr') = tail
    <3>1. Oldest \in LiveIn(hdr') /\ Oldest <= tail /\ tail \in Nat /\ tail + 1 \notin LiveIn(hdr')
      <4>1. Oldest \in Oldest..Newest /\ Oldest # tail + 1 /\ Oldest <= tail  BY <1>0
      <4> QED  BY <4>1, <2>1, <1>0
    <3>2. \A x \in LiveIn(hdr') : Oldest <= x  BY <2>1, <1>0, RangeFacts, CardNow
    <3>3. Oldest..tail \subseteq LiveIn(hdr')
      <4> SUFFICES ASSUME NEW x \in Oldest..tail PROVE x \in LiveIn(hdr')
        OBVIOUS
      <4>1. x \in Oldest..Newest /\ x # tail + 1  BY <1>0
      <4> QED  BY <4>1, <2>1, <1>0
    <3> QED  BY <3>1, <3>2, <3>3, RangeIs
  <2>3. Far(hdr', body')
    <3> SUFFICES ASSUME NEW z \in LiveIn(hdr'), z > tail
                 PROVE  Blanks(body[SlotOf(z)], 0) \/ Apart(hdr', tail, z)
      BY <2>2 DEF Far
    <3>1. z \in LiveIn(hdr) /\ z \in Nat /\ z > tail + 1
      <4>1. z \in LiveIn(hdr) /\ z # tail + 1  BY <2>1
      <4>2. z \in Nat  BY <4>1 DEF LiveIn
      <4> QED  BY <4>1, <4>2, <1>0
    <3>2. CASE z <= Newest
      <4>1. z \in Oldest..Newest  BY <3>1, <3>2, <1>0
      <4>2. Landing(Rows, tail, off, <<>>, 0, 0, Base)  BY DEF Content, SessionOK
      <4>3. Blanks(Rows[z], 0)  BY <3>1, <4>1, <4>2, <1>0 DEF Landing
      <4> QED  BY <4>1, <4>3, <1>0
    <3>3. CASE z > Newest
      <4>1. Blanks(body[SlotOf(z)], 0) \/ Apart(hdr, Newest, z)
        BY <3>1, <3>3, CardNow DEF Content, Far
      <4>2. CASE Apart(hdr, Newest, z)
        <5>1. PICK y \in (Newest + 1)..(z - 1) : hdr[SlotOf(y)] = Gone  BY <4>2 DEF Apart
        <5>2. y \in (tail + 1)..(z - 1) /\ y \in Nat \ {0}  BY <5>1, <1>0, <3>1
        <5>3. hdr[SlotOf(tail + 1)] # Gone
          <6>1. hdr[SlotOf(tail + 1)] = tail + 1 /\ tail + 1 \in 1..MaxIdx
            BY <1>1 DEF LiveIn
          <6> QED  BY <6>1, <1>0
        <5>4. hdr'[SlotOf(y)] = Gone  BY <5>1, <5>2, <5>3, <1>2, <1>6, SlotIn
        <5> QED  BY <5>2, <5>4 DEF Apart
      <4> QED  BY <4>1, <4>2
    <3> QED  BY <3>1, <3>2, <3>3, <1>0
  <2>4. Oldest' = Oldest /\ Newest' = tail /\ LiveIn(hdr') # {}
    BY <2>1, <2>2, <1>0, <1>1, CardNow
  <2>5. tail \in Oldest..tail /\ \A s \in Oldest..tail : s <= Newest  BY <1>0
  <2> QED  BY <1>0, <1>3, <1>4, <2>3, <2>4, <2>5
<1>7. hdr' = hdr \/ hdr' = [hdr EXCEPT ![SlotOf(tail + 1)] = Free]
  <2>1. [hdr EXCEPT ![SlotOf(tail + 1)] = tail + 1] = hdr  BY <1>1, <1>2, ReheadSame
  <2> QED  BY <2>1 DEF Rehead
<1> QED  BY <1>5, <1>6, <1>7

LEMMA ContentRehead ==
  ASSUME TypeInv, RingOK, Content, Chain \/ ReheadFails \/ ReheadCut
  PROVE  Content'
<1>0. /\ TypeInv' /\ RingOK' /\ tail # 0 /\ pc = "idle" /\ ~stopped /\ UNCHANGED body
      /\ ChainsOK'
  <2>1. TypeInv' /\ RingOK'  BY BaseNext DEF JournalNext
  <2>2. ChainsOK'  BY KeptRehead, KeptChains DEF Content, ChainsOK
  <2> QED  BY <2>1, <2>2 DEF Chain, ReheadFails, ReheadCut, MayChain, Recording
<1>1. CASE Chain /\ UNCHANGED <<hdr, ver>>
  <2>1. /\ UNCHANGED <<tail, off, next, pend, stopped>> /\ pc' # "idle" /\ Rows' = Rows
        /\ Base' = Base
    BY <1>0, <1>1, CardNow DEF Chain, Begin, ram, Base
  <2>2. Ready  BY <1>0 DEF Content, SessionOK, Ready
  <2>3. Ready'  BY <1>1, <2>1, <2>2 DEF Ready, Headed
  <2>4. LandsFor(Rows', tail', off', Base', todo')  BY <1>0, <2>1, <2>3, JobStartsNext
  <2>5. SessionOK'  BY <1>0, <2>1, <2>3, <2>4 DEF SessionOK, Ready, LandsFor
  <2> QED  BY <1>0, <1>1, <2>1, <2>5 DEF Content, CleanOK
<1>2. ASSUME tail < last, \E v \in 1..2 : Rehead(tail + 1, v) \/ Rehead(Free, v)
      PROVE  /\ Far(hdr', body') /\ RowsClean(Rows')
             /\ UNCHANGED <<tail, off>> /\ Base' = Base => Ready'
  <2>1. /\ CardOK' /\ Far(hdr', body') /\ LiveIn(hdr') # {}
        /\ Oldest <= Oldest' /\ tail \in Oldest'..Newest'
        /\ \A s \in Oldest'..Newest' : s <= Newest /\ body'[SlotOf(s)] = body[SlotOf(s)]
        /\ ver'[SlotOf(tail)] = ver[SlotOf(tail)]
    BY <1>0, <1>2, ReheadCard
  <2>2. RowsClean(Rows')  BY <1>0, <2>1, NarrowCard
  <2>3. ASSUME UNCHANGED <<tail, off>>, Base' = Base PROVE Ready'
    BY <1>0, <2>1, <2>3, NarrowReady
  <2> QED  BY <2>1, <2>2, <2>3
<1>3. CASE Chain /\ ~UNCHANGED <<hdr, ver>>
  <2>1. /\ UNCHANGED <<tail, off, next, pend, stopped>> /\ pc' # "idle" /\ Base' = Base
        /\ tail < last /\ Rehead(tail + 1, 2)
    BY <1>3 DEF Chain, Begin, ram, Base
  <2>2. Far(hdr', body') /\ Ready'
    <3>1. \E v \in 1..2 : Rehead(tail + 1, v) \/ Rehead(Free, v)  BY <2>1
    <3> QED  BY <1>2, <2>1, <3>1
  <2>3. LandsFor(Rows', tail', off', Base', todo')  BY <1>0, <2>1, <2>2, JobStartsNext
  <2>4. SessionOK'  BY <1>0, <2>1, <2>2, <2>3 DEF SessionOK, Ready, LandsFor
  <2> QED  BY <1>0, <2>1, <2>2, <2>4 DEF Content, CleanOK
<1>4. CASE ReheadFails
  <2>1. /\ UNCHANGED <<tail, off, next, pend, stopped, pc, todo>> /\ Base' = Base /\ tail < last
        /\ \E v \in 1..2 : Rehead(tail + 1, v) \/ Rehead(Free, v)
    <3>1. /\ UNCHANGED <<tail, off, next, pend, stopped, pc, todo>> /\ tail < last
          /\ \/ Rehead(tail + 1, 1) \/ Rehead(Free, 1) \/ Rehead(tail + 1, 2)
      BY <1>4 DEF ReheadFails, Resting, job
    <3>2. 1 \in 1..2 /\ 2 \in 1..2  OBVIOUS
    <3> QED  BY <3>1, <3>2 DEF Base
  <2>2. Far(hdr', body') /\ Ready'  BY <1>2, <2>1
  <2>3. SessionOK'  BY <1>0, <2>1, <2>2 DEF SessionOK, Ready
  <2> QED  BY <1>0, <2>1, <2>2, <2>3 DEF Content, CleanOK
<1>5. CASE ReheadCut
  <2>1. /\ tail' = 0 /\ tail < last
        /\ \E v \in 1..2 : Rehead(tail + 1, v) \/ Rehead(Free, v)
    <3>1. /\ tail' = 0 /\ tail < last
          /\ Rehead(Free, 1) \/ Rehead(tail + 1, 2)
      BY <1>5 DEF ReheadCut, Down
    <3>2. 1 \in 1..2 /\ 2 \in 1..2  OBVIOUS
    <3> QED  BY <3>1, <3>2
  <2>2. Far(hdr', body') /\ RowsClean(Rows')  BY <1>2, <2>1
  <2>3. Clean(hdr', body')  BY <2>2, CardNow DEF Clean
  <2> QED  BY <1>0, <2>1, <2>2, <2>3 DEF Content, CleanOK, SessionOK
<1> QED  BY <1>1, <1>3, <1>4, <1>5

--------------------------------
\* A ring without a live segment, and one with a single blank one.

LEMMA ContentEmpty ==
  ASSUME TypeInv, RingOK, PrepareFirstFails \/ Clear
  PROVE  Content'
<1>1. LiveIn(hdr') = {}  BY BasePrepareFirstFails, BaseClear
<1>2. tail' = 0  BY DEF PrepareFirstFails, Clear, Down
<1> QED  BY <1>1, <1>2 DEF Content, ChainsOK, ChainsOn, Far, CleanOK, Clean, SessionOK

LEMMA ContentFirst ==
  ASSUME TypeInv, RingOK, Content, PrepareFirst
  PROVE  Content'
<1>0. /\ hdr' = [s \in Slots |-> IF s = 1 THEN 1 ELSE Free] /\ body' = [body EXCEPT ![1] = Blank]
      /\ tail' = 1 /\ off' = 1 /\ UNCHANGED <<next, pend, stopped, pc, todo>> /\ pc = "idle"
      /\ ~stopped /\ body \in [Slots -> Row] /\ next \in Nat \ {0} /\ pend = <<>>
  BY DEF PrepareFirst, Resting, job, TypeInv, CardOK, RamOK
<1>1. /\ LiveIn(hdr') = {1} /\ Oldest' = 1 /\ Newest' = 1 /\ SlotOf(1) = 1 /\ 1 \in Slots
  BY <1>0, FirstRing, CardNow
<1>2. /\ body' \in [Slots -> Row] /\ body'[1] = Blank
  BY <1>0, <1>1, RecFacts
<1>3. /\ IsRows(Rows', 1, 1) /\ DOMAIN Rows' = {1} /\ Rows'[1] = Blank
  <2>1. /\ IsRows(Rows', 1, 1) /\ DOMAIN Rows' = 1..1 /\ \A s \in 1..1 : Rows'[s] = body'[SlotOf(s)]
    BY <1>1, <1>2, RowsAre, CardNow
  <2>2. 1..1 = {1}  OBVIOUS
  <2> QED  BY <2>1, <2>2, <1>1, <1>2
<1>4. Settled(Rows', 1, 1)
  <2>1. WholeRun(Rows'[1], 1 - 1)
    <3>1. 1..(1 - 1) = {} /\ 2..(1 - 1) = {}  OBVIOUS
    <3> QED  BY <3>1 DEF WholeRun
  <2>2. \A s \in DOMAIN Rows' : ~(s < 1) /\ s - 1 \notin DOMAIN Rows'  BY <1>3
  <2> QED  BY <2>1, <2>2 DEF Settled
<1>5. Base' \in Nat
  <2>1. Len(pend') = 0 /\ next' \in Nat  BY <1>0
  <2>2. Base' = next' - 0  BY <2>1 DEF Base
  <2>3. \A x \in Nat : x - 0 = x  OBVIOUS
  <2> QED  BY <2>1, <2>2, <2>3
<1>6. Landing(Rows', 1, 1, <<>>, 0, 0, Base')
  <2>1. ExpectThere(Rows', 1, 1) = {}
    <3>1. \A s \in DOMAIN Rows' : ~(s < 1)  BY <1>3
    <3>2. ExpectAt(Rows', 1) = {}  BY <1>3, <3>1, ExpectNone
    <3> QED  BY <3>2 DEF ExpectThere
  <2>2. \A i \in 1..SegCap : Rows'[1][i] = Void  BY <1>3, BlankIs
  <2>3. /\ 1 + 1 \notin DOMAIN Rows' /\ \A s \in DOMAIN Rows' : ~(s > 1 + 1)
        /\ 1..(0 + 0) = {} /\ ~(0 > 0) /\ 0 <= ZWindow /\ 1 + 0 <= SegCap + 1 /\ 0 \in Nat
    BY <1>3, Sizes
  <2> QED  BY <2>1, <2>2, <2>3, <1>5 DEF Landing
<1>7. Headed(Rows, tail, off)'
  <2>1. 1 - 1 \notin DOMAIN Rows'  BY <1>3
  <2> QED  BY <2>1, <1>0 DEF Headed
<1>8. Far(hdr', body')
  <2>1. NewestIn(hdr') = 1 /\ \A z \in LiveIn(hdr') : ~(z > 1)  BY <1>1, CardNow
  <2> QED  BY <2>1 DEF Far
<1>9. ChainsOK'  BY KeptPrepares, KeptChains DEF Content, ChainsOK
<1>10. SessionOK' /\ tail' # 0  BY <1>0, <1>4, <1>6, <1>7 DEF SessionOK
<1> QED  BY <1>8, <1>9, <1>10 DEF Content, CleanOK

\* The oldest are retired: no hole in the ring is closed, and what is left is
\* what it was.
LEMMA RetireRange ==
  ASSUME NEW h \in [Slots -> 0..Gone], NEW f, NEW l, NEW t, Placed(h, f, l, t),
         NEW n \in 0..(t - f), Near(h), GoneFirst(h), NEW g, g = RetireIn(h, f, n)
  PROVE  /\ LiveIn(g) # {} /\ NewestIn(g) = NewestIn(h) /\ OldestIn(h) <= OldestIn(g)
         /\ t \in OldestIn(g)..NewestIn(g)
         /\ \A s \in Slots : h[s] = Gone => g[s] = Gone
<1>0. /\ f \in 1..MaxIdx /\ l \in 1..MaxIdx /\ t \in LiveIn(h) /\ f <= t /\ t <= l
      /\ t \in 1..MaxIdx /\ MaxIdx \in Nat /\ Gone = MaxIdx + 1 /\ Free = 0
      /\ (f + 1)..l \subseteq LiveIn(h) /\ (f \in LiveIn(h) \/ h[SlotOf(f)] = Free)
  BY Sizes DEF Placed, LiveIn
<1>1. n \in Nat /\ n <= t - f  BY <1>0
<1>2. /\ LiveIn(g) = LiveIn(h) \ (f..(f + n - 1)) /\ Placed(g, f + n, l, t)
  BY <1>1, RetireLive, RetireRing
<1>3. LiveIn(g) # {} /\ t \in OldestIn(g)..NewestIn(g)  BY <1>2, PlacedFacts
<1>4. /\ OldestIn(g) \in Nat /\ OldestIn(g)..NewestIn(g) \subseteq LiveIn(g)
      /\ \A x \in LiveIn(g) : OldestIn(g) <= x
      /\ NewestIn(g) \in Nat
  BY <1>3, RangeFacts
<1>5. /\ OldestIn(h) \in Nat /\ OldestIn(h)..NewestIn(h) \subseteq LiveIn(h)
      /\ \A x \in LiveIn(h) : OldestIn(h) <= x
      /\ NewestIn(h) \in Nat /\ NewestIn(h) + 1 \notin LiveIn(h)
      /\ t \in OldestIn(h)..NewestIn(h)
  BY <1>0, RangeFacts, PlacedFacts
<1>6. OldestIn(g) \in LiveIn(g) /\ OldestIn(h) <= OldestIn(g)
  <2>1. OldestIn(g) \in OldestIn(g)..NewestIn(g)  BY <1>3, <1>4
  <2> QED  BY <2>1, <1>2, <1>4, <1>5
<1>7. NewestIn(g) = NewestIn(h)
  <2>1. OldestIn(g)..NewestIn(h) \subseteq LiveIn(g)
    <3> SUFFICES ASSUME NEW x \in OldestIn(g)..NewestIn(h) PROVE x \in LiveIn(g)
      OBVIOUS
    <3>1. CASE x <= t
      <4>1. x \in OldestIn(g)..NewestIn(g)  BY <3>1, <1>3, <1>4, <1>5
      <4> QED  BY <4>1, <1>4
    <3>2. CASE x > t
      <4>1. x \in OldestIn(h)..NewestIn(h) /\ x \notin f..(f + n - 1)
        BY <3>2, <1>0, <1>1, <1>4, <1>5, <1>6
      <4> QED  BY <4>1, <1>2, <1>5
    <3> QED  BY <3>1, <3>2, <1>0, <1>4, <1>5
  <2>2. OldestIn(g) <= NewestIn(h)  BY <1>3, <1>4, <1>5
  <2>3. NewestIn(h) + 1 \notin LiveIn(g)  BY <1>2, <1>5
  <2> QED  BY <2>1, <2>2, <2>3, <1>4, <1>5, <1>6, RangeIs
<1>8. \A s \in Slots : h[s] = Gone => g[s] = Gone
  <2> SUFFICES ASSUME NEW s \in Slots, h[s] = Gone, NEW seg \in f..(f + n - 1), SlotOf(seg) = s
               PROVE  FALSE
    BY DEF RetireIn
  <2>1. seg = f \/ seg \in (f + 1)..l  BY <1>0, <1>1
  <2>2. seg \in LiveIn(h) \/ h[s] = Free
    <3>1. CASE seg = f  BY <3>1, <1>0
    <3>0. (f + 1)..l \subseteq LiveIn(h)  BY <1>0
    <3>2. CASE seg \in (f + 1)..l  BY <3>0, <3>2
    <3> QED  BY <2>1, <3>1, <3>2
  <2>3. seg \in LiveIn(h) => h[s] \in 1..MaxIdx  BY DEF LiveIn
  <2> QED  BY <2>2, <2>3, <1>0
<1> QED  BY <1>3, <1>6, <1>7, <1>8

LEMMA RetireCard ==
  ASSUME TypeInv, RingOK, Content, tail # 0, NEW n \in 0..(tail - first),
         hdr' = RetireIn(hdr, first, n),
         \A z \in LiveIn(hdr') : body'[SlotOf(z)] = body[SlotOf(z)]
  PROVE  /\ Far(hdr', body') /\ LiveIn(hdr') # {}
         /\ Oldest <= Oldest' /\ tail \in Oldest'..Newest'
         /\ \A s \in Oldest'..Newest' : s <= Newest /\ body'[SlotOf(s)] = body[SlotOf(s)]
<1>0. /\ hdr \in [Slots -> 0..Gone] /\ Placed(hdr, first, last, tail) /\ Near(hdr)
      /\ GoneFirst(hdr)
  BY TailRows DEF TypeInv, CardOK, RingOK
<1>1. /\ LiveIn(hdr') # {} /\ Newest' = Newest /\ Oldest <= Oldest'
      /\ tail \in Oldest'..Newest' /\ \A s \in Slots : hdr[s] = Gone => hdr'[s] = Gone
      /\ NewestIn(hdr') = Newest
  BY <1>0, RetireRange, CardNow
<1>2. LiveIn(hdr') \subseteq LiveIn(hdr)  BY <1>0, RetireLive
<1>3. /\ Oldest'..Newest' \subseteq LiveIn(hdr') /\ Oldest' \in Nat /\ Newest \in Nat
  BY <1>1, RangeFacts, CardNow
<1>4. Far(hdr', body')
  <2> SUFFICES ASSUME NEW z \in LiveIn(hdr'), z > Newest
               PROVE  Blanks(body'[SlotOf(z)], 0) \/ Apart(hdr', Newest, z)
    BY <1>1 DEF Far
  <2>1. Blanks(body[SlotOf(z)], 0) \/ Apart(hdr, Newest, z)
    BY <1>2, CardNow DEF Content, Far
  <2>2. \A y \in (Newest + 1)..(z - 1) : SlotOf(y) \in Slots
    <3>1. \A y \in (Newest + 1)..(z - 1) : y \in Nat \ {0}  BY <1>3 DEF LiveIn
    <3> QED  BY <3>1, SlotIn
  <2> QED  BY <2>1, <2>2, <1>1 DEF Apart
<1>5. \A s \in Oldest'..Newest' : s <= Newest /\ s \in LiveIn(hdr')
  BY <1>1, <1>3
<1> QED  BY <1>1, <1>4, <1>5

\* A blank segment joins behind the tail, and islands behind it may join too:
\* they are blank, because there is no hole between.
Activates ==
  /\ SpareDue /\ CanActivate
  /\ hdr' = [Retired(ToRetire) EXCEPT ![NextSlot] = last + 1]
  /\ body' = [body EXCEPT ![NextSlot] = Blank]
LEMMA ActivateCard ==
  ASSUME TypeInv, RingOK, Content, Activates
  PROVE  /\ Far(hdr', body') /\ LiveIn(hdr') # {}
         /\ Oldest <= Oldest' /\ tail \in Oldest'..Newest'
         /\ \A s \in Oldest'..Newest' :
              \/ s <= Newest /\ body'[SlotOf(s)] = body[SlotOf(s)]
              \/ s > tail /\ Blanks(body'[SlotOf(s)], 0)
         /\ NextSlot # SlotOf(tail)
<1> DEFINE n == ToRetire
           g == RetireIn(hdr, first, n)
<1>0. /\ tail # 0 /\ tail = last /\ hdr \in [Slots -> 0..Gone] /\ body \in [Slots -> Row]
      /\ Placed(hdr, first, last, tail) /\ Near(hdr) /\ GoneFirst(hdr)
      /\ Retired(n) = g /\ g[NextSlot] = Free /\ NextSlot = SlotOf(last + 1)
      /\ MaxIdx \in Nat /\ Gone = MaxIdx + 1 /\ Free = 0
      /\ tail \in Oldest..Newest /\ tail \in Nat /\ Oldest \in Nat /\ Newest \in Nat
  <2>1. /\ tail # 0 /\ tail = last /\ hdr \in [Slots -> 0..Gone] /\ body \in [Slots -> Row]
        /\ Near(hdr) /\ GoneFirst(hdr) /\ NextSlot = SlotOf(last + 1)
    BY DEF Activates, SpareDue, Recording, TypeInv, CardOK, RingOK, NextSlot
  <2>2. Retired(n) = g  BY DEF Retired, RetireIn
  <2>3. g[NextSlot] = Free  BY <2>2 DEF Activates, CanActivate
  <2>4. /\ Placed(hdr, first, last, tail) /\ tail \in Oldest..Newest /\ tail \in Nat
        /\ IsRows(Rows, Oldest, Newest)
    BY <2>1, TailRows
  <2>5. Oldest \in Nat /\ Newest \in Nat  BY <2>4, RowsFacts
  <2> QED  BY <2>1, <2>2, <2>3, <2>4, <2>5, Sizes
<1>1. n \in 0..(tail - first)  BY <1>0, ToRetireIs
<1>2. /\ LiveIn(hdr') = LiveIn(g) \cup {last + 1}
      /\ LiveIn(g) = LiveIn(hdr) \ (first..(first + n - 1))
      /\ last + 1 \notin LiveIn(hdr) /\ NextSlot \in Slots /\ last + 1 \in 1..MaxIdx
      /\ hdr' \in [Slots -> 0..Gone]
      /\ Placed(hdr', first + n, last + 1, tail)
  BY <1>0, SpareRing DEF Activates
<1>3. /\ NextSlot \in Slots /\ hdr' = [g EXCEPT ![NextSlot] = last + 1]
      /\ body' = [body EXCEPT ![NextSlot] = Blank]
  BY <1>0, <1>2 DEF Activates
<1> HIDE DEF n
<1>4. /\ \A s \in Slots : hdr[s] = Gone => g[s] = Gone
      /\ g \in [Slots -> 0..Gone] /\ NewestIn(g) = Newest
      /\ Oldest <= OldestIn(g) /\ tail \in OldestIn(g)..NewestIn(g) /\ LiveIn(g) # {}
  <2> DEFINE gg == g
  <2>1. gg = RetireIn(hdr, first, n)  OBVIOUS
  <2> HIDE DEF gg, g
  <2>2. /\ \A s \in Slots : hdr[s] = Gone => gg[s] = Gone
        /\ NewestIn(gg) = NewestIn(hdr) /\ LiveIn(gg) # {}
        /\ OldestIn(hdr) <= OldestIn(gg) /\ tail \in OldestIn(gg)..NewestIn(gg)
    BY <2>1, <1>0, <1>1, RetireRange
  <2>3. gg \in [Slots -> 0..Gone]  BY <2>1, <1>0, <1>1, RetireLive
  <2>4. gg = g  BY DEF gg
  <2> QED  BY <2>2, <2>3, <2>4, CardNow
<1> HIDE DEF g
<1>5. Newest = last
  <2>1. last + 1 \notin LiveIn(hdr)  BY <1>2
  <2> QED  BY <2>1, <1>0, PlacedFacts, CardNow
\* Where there was no file, there is none.
<1>6. /\ hdr[NextSlot] # Gone
      /\ \A s \in Slots : hdr[s] = Gone => hdr'[s] = Gone
  <2>1. hdr[NextSlot] # Gone  BY <1>0, <1>2, <1>4
  <2> QED  BY <2>1, <1>2, <1>3, <1>4
<1>7. /\ LiveIn(hdr') # {} /\ tail \in Oldest'..Newest'
      /\ tail < last + 1 => tail + 1 \in Oldest'..Newest'
      /\ Oldest'..Newest' \subseteq LiveIn(hdr') /\ Oldest' \in Nat /\ Newest' \in Nat
      /\ Oldest' \in LiveIn(hdr')
  <2>1. /\ LiveIn(hdr') # {} /\ tail \in Oldest'..Newest'
        /\ tail < last + 1 => tail + 1 \in Oldest'..Newest'
    BY <1>2, PlacedFacts, CardNow
  <2>2. Oldest'..Newest' \subseteq LiveIn(hdr') /\ Oldest' \in Nat /\ Newest' \in Nat
    BY <2>1, RangeFacts, CardNow
  <2>3. Oldest' \in Oldest'..Newest'  BY <2>1, <2>2, <1>0
  <2> QED  BY <2>1, <2>2, <2>3
<1>8. Oldest <= Oldest'
  <2>1. CASE Oldest' = last + 1  BY <2>1, <1>0, <1>7
  <2>2. CASE Oldest' # last + 1
    <3>1. Oldest' \in LiveIn(hdr)  BY <2>2, <1>2, <1>7
    <3> QED  BY <3>1, RangeFacts, CardNow
  <2> QED  BY <2>1, <2>2
<1>9. \A y \in (tail + 1)..Newest' : y \in Nat \ {0} /\ SlotOf(y) \in Slots /\ hdr[SlotOf(y)] # Gone
  <2> TAKE y \in (tail + 1)..Newest'
  <2>1. y \in LiveIn(hdr') /\ y \in Nat \ {0}
    <3>1. y \in Oldest'..Newest' /\ y \in Nat \ {0}  BY <1>0, <1>7
    <3> QED  BY <3>1, <1>7
  <2>2. hdr'[SlotOf(y)] = y /\ y \in 1..MaxIdx  BY <2>1 DEF LiveIn
  <2>3. hdr'[SlotOf(y)] # Gone  BY <2>2, <1>0
  <2> QED  BY <2>1, <2>3, <1>6, SlotIn
<1>10. \A z \in LiveIn(hdr') : z = last + 1 \/ (z \in LiveIn(hdr) /\ SlotOf(z) # NextSlot)
  <2> SUFFICES ASSUME NEW z \in LiveIn(hdr'), z # last + 1
               PROVE  z \in LiveIn(hdr) /\ SlotOf(z) # NextSlot
    OBVIOUS
  <2>1. z \in LiveIn(hdr)  BY <1>2
  <2>2. last + 1 \in LiveIn(hdr')  BY <1>2
  <2>3. SlotOf(z) # SlotOf(last + 1)  BY <2>2, SlotOwn
  <2> QED  BY <2>1, <2>3, <1>0
<1>11. /\ \A z \in LiveIn(hdr') : z # last + 1 => body'[SlotOf(z)] = body[SlotOf(z)]
       /\ body'[SlotOf(last + 1)] = Blank
  <2>1. \A z \in LiveIn(hdr') : SlotOf(z) \in Slots  BY SlotIn DEF LiveIn
  <2> QED  BY <2>1, <1>0, <1>2, <1>3, <1>10
<1>12. Blanks(Blank, 0)  BY BlankIs DEF Blanks
\* An island that is joined now is blank.
<1>13. \A z \in LiveIn(hdr') : z > tail /\ z <= Newest' => Blanks(body'[SlotOf(z)], 0)
  <2> SUFFICES ASSUME NEW z \in LiveIn(hdr'), z > tail, z <= Newest', z # last + 1
               PROVE  Blanks(body[SlotOf(z)], 0)
    BY <1>11, <1>12
  <2>1. z \in LiveIn(hdr) /\ z > Newest /\ z \in Nat  BY <1>0, <1>5, <1>10 DEF LiveIn
  <2>2. Blanks(body[SlotOf(z)], 0) \/ Apart(hdr, Newest, z)
    BY <2>1, CardNow DEF Content, Far
  <2>3. ~Apart(hdr, Newest, z)
    <3> SUFFICES ASSUME NEW y \in (Newest + 1)..(z - 1), hdr[SlotOf(y)] = Gone PROVE FALSE
      BY DEF Apart
    <3>1. y \in (tail + 1)..Newest'  BY <2>1, <1>0, <1>5, <1>7
    <3> QED  BY <3>1, <1>9
  <2> QED  BY <2>2, <2>3
<1>14. \A s \in Oldest'..Newest' :
          \/ s <= Newest /\ body'[SlotOf(s)] = body[SlotOf(s)]
          \/ s > tail /\ Blanks(body'[SlotOf(s)], 0)
  <2> TAKE s \in Oldest'..Newest'
  <2>1. s \in LiveIn(hdr') /\ s \in Nat /\ s <= Newest'  BY <1>7
  <2>2. CASE s <= tail
    <3>1. s # last + 1 /\ s <= Newest  BY <2>1, <2>2, <1>0, <1>5
    <3> QED  BY <3>1, <2>1, <1>11
  <2>3. CASE s > tail  BY <2>1, <2>3, <1>13
  <2> QED  BY <2>1, <2>2, <2>3, <1>0
<1>15. Far(hdr', body')
  <2> SUFFICES ASSUME NEW z \in LiveIn(hdr'), z > Newest'
               PROVE  Blanks(body'[SlotOf(z)], 0) \/ Apart(hdr', Newest', z)
    BY CardNow DEF Far
  <2>1. tail + 1 <= Newest'  BY <1>0, <1>7
  <2>2. z # last + 1 /\ z \in LiveIn(hdr) /\ z > Newest /\ z \in Nat
    <3>1. z \in Nat  BY DEF LiveIn
    <3>2. z # last + 1 /\ z > Newest  BY <3>1, <2>1, <1>0, <1>5, <1>7
    <3> QED  BY <3>1, <3>2, <1>10
  <2>3. Blanks(body[SlotOf(z)], 0) \/ Apart(hdr, Newest, z)
    BY <2>2, CardNow DEF Content, Far
  <2>4. ASSUME Apart(hdr, Newest, z) PROVE Apart(hdr', Newest', z)
    <3>1. PICK y \in (Newest + 1)..(z - 1) : hdr[SlotOf(y)] = Gone  BY <2>4 DEF Apart
    <3>2. y \notin (tail + 1)..Newest'  BY <3>1, <1>9
    <3>a. y \in Nat \ {0} /\ y >= tail + 1 /\ y <= z - 1 /\ z \in Nat /\ tail \in Nat
      <4>1. Newest = tail /\ tail \in Nat /\ z \in Nat  BY <1>0, <1>5, <2>2
      <4> QED  BY <3>1, <4>1
    <3>b. PICK m \in Nat : m = Newest'  BY <1>7
    <3>c. y \notin (tail + 1)..m  BY <3>b, <3>2
    <3>d. y \in (m + 1)..(z - 1)  BY <3>a, <3>c
    <3>3. y \in (Newest' + 1)..(z - 1) /\ y \in Nat \ {0}  BY <3>a, <3>b, <3>d
    <3>4. hdr'[SlotOf(y)] = Gone  BY <3>1, <3>3, <1>6, SlotIn
    <3> QED  BY <3>3, <3>4 DEF Apart
  <2> QED  BY <2>2, <2>3, <2>4, <1>11
<1>16. NextSlot # SlotOf(tail)
  <2>1. tail \in LiveIn(hdr') /\ tail # last + 1  BY <1>0, <1>7
  <2> QED  BY <2>1, <1>10
<1> QED  BY <1>7, <1>8, <1>14, <1>15, <1>16

\* What a preparation leaves, whole or not.
LEMMA PrepareCard ==
  ASSUME TypeInv, RingOK, Content, SpareDue, NEW n \in 0..ToRetire,
         \/ PartlyPrepared(n)
         \/ /\ n = ToRetire /\ CanActivate
            /\ hdr' = [Retired(n) EXCEPT ![NextSlot] = last + 1]
            /\ ver' = [ver EXCEPT ![NextSlot] = ver[SlotOf(last)]]
            /\ body' = [body EXCEPT ![NextSlot] = Blank]
  PROVE  /\ Far(hdr', body') /\ LiveIn(hdr') # {}
         /\ Oldest <= Oldest' /\ tail \in Oldest'..Newest'
         /\ \A s \in Oldest'..Newest' :
              \/ s <= Newest /\ body'[SlotOf(s)] = body[SlotOf(s)]
              \/ s > tail /\ Blanks(body'[SlotOf(s)], 0)
         /\ ver'[SlotOf(tail)] = ver[SlotOf(tail)]
<1>0. /\ tail # 0 /\ tail = last /\ tail \in Nat \ {0} /\ ToRetire \in 0..(tail - first)
      /\ hdr \in [Slots -> 0..Gone] /\ body \in [Slots -> Row] /\ ver \in [Slots -> 1..2]
      /\ \A m : Retired(m) = RetireIn(hdr, first, m)
      /\ first \in Nat /\ Placed(hdr, first, last, tail) /\ SlotOf(tail) \in Slots
  <2>1. tail # 0 /\ tail = last  BY DEF SpareDue, Recording
  <2>2. tail \in Nat \ {0} /\ first \in Nat /\ Placed(hdr, first, last, tail)
    BY <2>1, TailRows DEF TypeInv, RamOK
  <2>3. SlotOf(tail) \in Slots  BY <2>2, SlotIn
  <2>4. \A m : Retired(m) = RetireIn(hdr, first, m)  BY DEF Retired, RetireIn
  <2> QED  BY <2>1, <2>2, <2>3, <2>4, ToRetireIs DEF TypeInv, CardOK
<1>1. ASSUME n < ToRetire, hdr' \in {Retired(n), Retired(n + 1)}, UNCHANGED body
      PROVE  /\ Far(hdr', body') /\ LiveIn(hdr') # {}
             /\ Oldest <= Oldest' /\ tail \in Oldest'..Newest'
             /\ \A s \in Oldest'..Newest' : s <= Newest /\ body'[SlotOf(s)] = body[SlotOf(s)]
  <2>1. PICK m \in {n, n + 1} : hdr' = RetireIn(hdr, first, m)  BY <1>1, <1>0
  <2>2. m \in 0..(tail - first)  BY <2>1, <1>0, <1>1
  <2> QED  BY <2>1, <2>2, <1>0, <1>1, RetireCard
<1>2. ASSUME n = ToRetire, CanActivate, hdr' = Retired(n),
             body' \in {body, [body EXCEPT ![NextSlot] = Blank]}
      PROVE  /\ Far(hdr', body') /\ LiveIn(hdr') # {}
             /\ Oldest <= Oldest' /\ tail \in Oldest'..Newest'
             /\ \A s \in Oldest'..Newest' : s <= Newest /\ body'[SlotOf(s)] = body[SlotOf(s)]
  <2>1. n \in 0..(tail - first) /\ hdr' = RetireIn(hdr, first, n) /\ hdr'[NextSlot] = Free
    BY <1>0, <1>2 DEF CanActivate
  <2>2. \A z \in LiveIn(hdr') : body'[SlotOf(z)] = body[SlotOf(z)]
    <3> TAKE z \in LiveIn(hdr')
    <3>1. hdr'[SlotOf(z)] = z /\ z \in Nat \ {0}  BY DEF LiveIn
    <3>2. SlotOf(z) # NextSlot /\ SlotOf(z) \in Slots  BY <3>1, <2>1, SlotIn, Sizes
    <3> QED  BY <3>2, <1>0, <1>2
  <2> QED  BY <2>1, <2>2, <1>0, RetireCard
<1>3. ASSUME n = ToRetire, CanActivate,
             hdr' = [Retired(n) EXCEPT ![NextSlot] = last + 1],
             ver' = [ver EXCEPT ![NextSlot] = ver[SlotOf(last)]],
             body' = [body EXCEPT ![NextSlot] = Blank]
      PROVE  /\ Far(hdr', body') /\ LiveIn(hdr') # {}
             /\ Oldest <= Oldest' /\ tail \in Oldest'..Newest'
             /\ \A s \in Oldest'..Newest' :
                  \/ s <= Newest /\ body'[SlotOf(s)] = body[SlotOf(s)]
                  \/ s > tail /\ Blanks(body'[SlotOf(s)], 0)
             /\ ver'[SlotOf(tail)] = ver[SlotOf(tail)]
  <2>1. /\ Far(hdr', body') /\ LiveIn(hdr') # {}
        /\ Oldest <= Oldest' /\ tail \in Oldest'..Newest'
        /\ \A s \in Oldest'..Newest' :
             \/ s <= Newest /\ body'[SlotOf(s)] = body[SlotOf(s)]
             \/ s > tail /\ Blanks(body'[SlotOf(s)], 0)
        /\ NextSlot # SlotOf(tail)
    BY <1>3, ActivateCard DEF Activates
  <2> QED  BY <2>1, <1>0, <1>3
<1>4. CASE n < ToRetire /\ hdr' \in {Retired(n), Retired(n + 1)} /\ UNCHANGED <<ver, body>>
  BY <1>1, <1>4
<1>5. CASE n = ToRetire /\ CanActivate /\ hdr' = Retired(n) /\ UNCHANGED ver
           /\ body' \in {body, [body EXCEPT ![NextSlot] = Blank]}
  BY <1>2, <1>5
<1>6. CASE /\ n = ToRetire /\ CanActivate
           /\ hdr' = [Retired(n) EXCEPT ![NextSlot] = last + 1]
           /\ ver' = [ver EXCEPT ![NextSlot] = ver[SlotOf(last)]]
           /\ body' = [body EXCEPT ![NextSlot] = Blank]
  BY <1>3, <1>6
<1> QED  BY <1>4, <1>5, <1>6 DEF PartlyPrepared

LEMMA ContentPrepare ==
  ASSUME TypeInv, RingOK, Content, PrepareSpare \/ PrepareFails \/ PrepareCut
  PROVE  Content'
<1>0. /\ SpareDue /\ tail # 0 /\ pc = "idle" /\ ~stopped
  BY DEF PrepareSpare, PrepareFails, PrepareCut, SpareDue, Recording
<1>1. /\ TypeInv' /\ CardOK' /\ ChainsOK'
  <2>1. TypeInv'  BY BaseNext DEF JournalNext
  <2> QED  BY <2>1, KeptPrepares, KeptChains DEF Content, ChainsOK, TypeInv
<1>2. PICK n \in 0..ToRetire :
         \/ PartlyPrepared(n)
         \/ /\ n = ToRetire /\ CanActivate
            /\ hdr' = [Retired(n) EXCEPT ![NextSlot] = last + 1]
            /\ ver' = [ver EXCEPT ![NextSlot] = ver[SlotOf(last)]]
            /\ body' = [body EXCEPT ![NextSlot] = Blank]
  <2>1. ToRetire \in 0..ToRetire
    <3>1. ToRetire \in 0..(tail - first)  BY <1>0, ToRetireIs
    <3> QED  BY <3>1
  <2> QED  BY <2>1 DEF PrepareSpare, PrepareFails, PrepareCut
<1>3. /\ Far(hdr', body') /\ LiveIn(hdr') # {}
      /\ Oldest <= Oldest' /\ tail \in Oldest'..Newest'
      /\ \A s \in Oldest'..Newest' :
           \/ s <= Newest /\ body'[SlotOf(s)] = body[SlotOf(s)]
           \/ s > tail /\ Blanks(body'[SlotOf(s)], 0)
      /\ ver'[SlotOf(tail)] = ver[SlotOf(tail)]
  BY <1>0, <1>2, PrepareCard
<1>4. CASE PrepareSpare \/ PrepareFails
  <2>1. UNCHANGED <<tail, off, next, pend, stopped, pc, todo>> /\ Base' = Base
    BY <1>4 DEF PrepareSpare, PrepareFails, Resting, job, Base
  <2>2. Ready'  BY <1>0, <1>1, <1>3, <2>1, NarrowReady
  <2>3. SessionOK' /\ tail' # 0  BY <1>0, <2>1, <2>2 DEF SessionOK, Ready
  <2> QED  BY <1>1, <1>3, <2>3 DEF Content, CleanOK
<1>5. CASE PrepareCut
  <2>1. tail' = 0  BY <1>5 DEF PrepareCut, Down
  <2>2. RowsClean(Rows')  BY <1>0, <1>1, <1>3, NarrowCard
  <2>3. Clean(hdr', body')  BY <2>2, CardNow DEF Clean
  <2> QED  BY <1>1, <1>3, <2>1, <2>3 DEF Content, CleanOK, SessionOK
<1> QED  BY <1>4, <1>5

\* A clear that is cut short deletes the files of the lowest slots.
Deletes(m) == hdr' = [s \in Slots |-> IF s <= m THEN Gone ELSE hdr[s]]

LEMMA DeletesLive ==
  ASSUME TypeInv, RingOK, NEW m \in 1..(Ring - 1), Deletes(m)
  PROVE  /\ LiveIn(hdr') = {x \in LiveIn(hdr) : SlotOf(x) > m}
         /\ \A s \in Slots : hdr'[s] = IF s <= m THEN Gone ELSE hdr[s]
         /\ CardOK /\ Near(hdr) /\ GoneFirst(hdr) /\ m \in Nat /\ Ring \in Nat
<1>1. CardOK /\ Near(hdr) /\ GoneFirst(hdr) /\ m \in Nat /\ Ring \in Nat
  BY Sizes DEF TypeInv, RingOK
<1>2. LiveIn(hdr') = {x \in LiveIn(hdr) : SlotOf(x) > m}
  <2> DEFINE g == [s \in Slots |-> IF s <= m THEN Gone ELSE hdr[s]]
  <2>1. LiveIn(g) = {x \in LiveIn(hdr) : SlotOf(x) > m}
    BY <1>1, DeleteRing DEF CardOK
  <2>2. hdr' = g  BY DEF Deletes
  <2> QED  BY <2>1, <2>2
<1>3. \A s \in Slots : hdr'[s] = IF s <= m THEN Gone ELSE hdr[s]  BY DEF Deletes
<1> QED  BY <1>1, <1>2, <1>3

\* Where a segment behind an earlier hole is left, so is all that a reopen reads.
LEMMA DeletesApart ==
  ASSUME TypeInv, RingOK, NEW m \in 1..(Ring - 1), Deletes(m),
         NEW z \in LiveIn(hdr'), z > Newest, Apart(hdr, Newest, z)
  PROVE  Oldest' = Oldest /\ Newest' = Newest
<1>0. /\ LiveIn(hdr') = {x \in LiveIn(hdr) : SlotOf(x) > m}
      /\ Near(hdr) /\ GoneFirst(hdr) /\ m \in Nat /\ Ring \in Nat
  BY DeletesLive
<1>1. z \in LiveIn(hdr) /\ SlotOf(z) > m /\ z \in Nat \ {0} /\ SlotOf(z) \in Slots
      /\ SlotOf(z) \in Nat
  <2>1. z \in LiveIn(hdr) /\ SlotOf(z) > m  BY <1>0
  <2>2. z \in Nat \ {0}  BY <2>1 DEF LiveIn
  <2>3. SlotOf(z) \in 1..Ring /\ SlotOf(z) \in Slots  BY <2>2, SlotIn
  <2> QED  BY <2>1, <2>2, <2>3
<1>2. /\ Oldest \in Nat /\ Newest \in Nat /\ Oldest..Newest \subseteq LiveIn(hdr)
      /\ \A x \in LiveIn(hdr) : Oldest <= x
      /\ Newest + 1 \notin LiveIn(hdr) /\ Oldest <= Newest
  <2>1. LiveIn(hdr) # {}  BY <1>1
  <2>2. /\ OldestIn(hdr) \in 1..MaxIdx /\ NewestIn(hdr) \in OldestIn(hdr)..MaxIdx
        /\ \A x \in LiveIn(hdr) : OldestIn(hdr) <= x
        /\ OldestIn(hdr)..NewestIn(hdr) \subseteq LiveIn(hdr)
        /\ NewestIn(hdr) + 1 \notin LiveIn(hdr) /\ MaxIdx \in Nat
    BY <2>1, RangeFacts, Sizes
  <2> QED  BY <2>2, CardNow
<1>3. PICK y \in (Newest + 1)..(z - 1) : hdr[SlotOf(y)] = Gone  BY DEF Apart
<1>4. y \in Nat \ {0} /\ y < z /\ y > Newest /\ SlotOf(y) \in Slots
  <2>1. y \in Nat \ {0} /\ y < z /\ y > Newest  BY <1>1, <1>2, <1>3
  <2> QED  BY <2>1, SlotIn
<1>5. \A x \in LiveIn(hdr) : x <= Newest => x \in LiveIn(hdr')
  <2> SUFFICES ASSUME NEW x \in LiveIn(hdr), x <= Newest PROVE SlotOf(x) > m
    BY <1>0
  <2>1. x \in Nat \ {0} /\ hdr[SlotOf(x)] = x /\ hdr[SlotOf(z)] = z
        /\ x \in 1..MaxIdx /\ z \in 1..MaxIdx
    BY <1>1 DEF LiveIn
  <2>2. SlotOf(x) \in Slots /\ SlotOf(x) \in 1..Ring  BY <2>1, SlotIn
  <2>3. hdr[SlotOf(x)] # Gone /\ hdr[SlotOf(z)] # Gone  BY <2>1, Sizes
  <2>4. SlotOf(y) < SlotOf(x) /\ SlotOf(y) < SlotOf(z)
    <3>1. LiveIn(hdr) # {}  OBVIOUS
    <3> QED  BY <3>1, <2>2, <2>3, <1>0, <1>1, <1>3, <1>4 DEF GoneFirst
  <2>5. x < y /\ z - x < Ring
    <3>1. z - x < Ring  BY <1>0, <1>1 DEF Near
    <3>2. x < y  BY <2>1, <1>2, <1>4
    <3> QED  BY <3>1, <3>2
  <2>6. SlotOf(z) < SlotOf(x)  BY <2>1, <2>4, <2>5, <1>1, <1>4, SlotGap
  <2> QED  BY <2>2, <2>6, <1>0, <1>1
<1>6. /\ Oldest \in LiveIn(hdr') /\ Oldest..Newest \subseteq LiveIn(hdr')
      /\ \A x \in LiveIn(hdr') : Oldest <= x
      /\ Newest + 1 \notin LiveIn(hdr')
  <2>1. Oldest..Newest \subseteq LiveIn(hdr')
    <3> SUFFICES ASSUME NEW x \in Oldest..Newest PROVE x \in LiveIn(hdr')
      OBVIOUS
    <3>1. x \in LiveIn(hdr) /\ x <= Newest  BY <1>2
    <3> QED  BY <3>1, <1>5
  <2>2. Oldest \in Oldest..Newest  BY <1>2
  <2> QED  BY <2>1, <2>2, <1>0, <1>2
<1>7. OldestIn(hdr') = Oldest /\ NewestIn(hdr') = Newest  BY <1>2, <1>6, RangeIs
<1> QED  BY <1>7, CardNow

\* Otherwise what is left behind the last row is blank.
LEMMA ContentClearCut ==
  ASSUME TypeInv, RingOK, Content, ClearCut
  PROVE  Content'
<1>0. /\ pc = "idle" /\ up /\ tail' = 0 /\ UNCHANGED <<ver, body>>
      /\ ChainsOK' /\ CardOK'
  <2>1. TypeInv'  BY BaseNext DEF JournalNext
  <2> QED  BY <2>1, KeptPrepares, KeptChains DEF ClearCut, Down, Content, ChainsOK, TypeInv
<1>1. PICK m \in 1..(Ring - 1) : Deletes(m)  BY DEF ClearCut, Deletes
<1>2. /\ LiveIn(hdr') = {x \in LiveIn(hdr) : SlotOf(x) > m}
      /\ \A s \in Slots : hdr'[s] = IF s <= m THEN Gone ELSE hdr[s]
      /\ m \in Nat
  BY <1>1, DeletesLive
<1>3. ASSUME Far(hdr', body'), Clean(hdr', body') PROVE Content'
  BY <1>0, <1>3 DEF Content, CleanOK, SessionOK
<1>4. CASE LiveIn(hdr') = {}  BY <1>3, <1>4 DEF Far, Clean
<1>5. CASE LiveIn(hdr') # {}
  <2>1. tail # 0
    <3>1. LiveIn(hdr) # {}  BY <1>2, <1>5
    <3> QED  BY <3>1, <1>0 DEF RingOK
  <2>2. /\ IsRows(Rows, Oldest, Newest) /\ tail \in Oldest..Newest /\ tail \in Nat
        /\ off \in 1..(SegCap + 1) /\ Oldest \in Nat /\ Newest \in Nat
        /\ \A s \in Oldest..Newest : Rows[s] = body[SlotOf(s)] /\ s \in LiveIn(hdr)
        /\ Settled(Rows, tail, off) /\ Trails(Rows, tail, off)
    BY <2>1, TailRows, RowsFacts, SessionTrails DEF Content, SessionOK
  <2>3. /\ IsRows(Rows', Oldest', Newest') /\ Oldest' \in Nat /\ Newest' \in Nat
        /\ Oldest'..Newest' \subseteq LiveIn(hdr') /\ Oldest' <= Newest'
        /\ \A s \in Oldest'..Newest' : Rows'[s] = body[SlotOf(s)]
        /\ Newest' + 1 \notin LiveIn(hdr')
    <3>1. body' \in [Slots -> Row]  BY <1>0 DEF CardOK
    <3>2. /\ IsRows(Rows', Oldest', Newest')
          /\ \A s \in Oldest'..Newest' : Rows'[s] = body'[SlotOf(s)]
      BY <3>1, <1>5, RowsAre, CardNow
    <3>3. Oldest'..Newest' \subseteq LiveIn(hdr') /\ Newest' + 1 \notin LiveIn(hdr')
      BY <1>5, RangeFacts, CardNow
    <3> QED  BY <3>2, <3>3, <1>0, RowsFacts
  <2>4. Oldest <= Oldest'
    <3>1. Oldest' \in LiveIn(hdr)  BY <2>3, <1>2
    <3> QED  BY <3>1, RangeFacts, CardNow
  <2>5. PICK lo2 \in Nat, hi2 \in Nat : lo2 = Oldest' /\ hi2 = Newest'  BY <2>3
  <2>a. lo2 \in Nat /\ hi2 \in Nat /\ Oldest <= lo2 /\ lo2 <= hi2  BY <2>3, <2>4, <2>5
  <2>b. hi2 + 1 \notin LiveIn(hdr')
    <3>1. Newest' + 1 \notin LiveIn(hdr')  BY <2>3
    <3> QED  BY <3>1, <2>5
  <2>6. CASE \E z \in LiveIn(hdr') : z > Newest /\ Apart(hdr, Newest, z)
    <3>1. Oldest' = Oldest /\ Newest' = Newest  BY <2>6, <1>1, DeletesApart
    <3>2. Rows' = Rows  BY <3>1, <1>0, CardNow DEF RowsIn
    <3>3. RowsClean(Rows)  BY <2>1, SessionTrails DEF Content
    <3>4. Far(hdr', body')
      <4> SUFFICES ASSUME NEW z \in LiveIn(hdr'), z > Newest
                   PROVE  Blanks(body[SlotOf(z)], 0) \/ Apart(hdr', Newest, z)
        BY <3>1, <1>0, CardNow DEF Far
      <4>1. z \in LiveIn(hdr)  BY <1>2
      <4>2. Blanks(body[SlotOf(z)], 0) \/ Apart(hdr, Newest, z)
        BY <4>1, CardNow DEF Content, Far
      <4>3. \A y \in (Newest + 1)..(z - 1) : SlotOf(y) \in Slots
        <5>1. \A y \in (Newest + 1)..(z - 1) : y \in Nat \ {0}  BY <2>2, <4>1 DEF LiveIn
        <5> QED  BY <5>1, SlotIn
      <4> QED  BY <4>2, <4>3, <1>2 DEF Apart
    <3> QED  BY <3>2, <3>3, <3>4, <1>3, CardNow DEF Clean
  <2>7. CASE \A z \in LiveIn(hdr') : z > Newest => ~Apart(hdr, Newest, z)
    <3>1. \A z \in LiveIn(hdr') : z > Newest => Blanks(body[SlotOf(z)], 0)
      BY <2>7, <1>2, CardNow DEF Content, Far
    <3>2. Far(hdr', body')
      <4> SUFFICES ASSUME NEW z \in LiveIn(hdr'), z > hi2, z <= Newest
                   PROVE  Apart(hdr', hi2, z)
        <5>1. ASSUME NEW z \in LiveIn(hdr'), z > hi2
              PROVE  Blanks(body[SlotOf(z)], 0) \/ Apart(hdr', hi2, z)
          <6>1. z \in Nat  BY DEF LiveIn
          <6>2. CASE z <= Newest  BY <6>2, <5>1
          <6>3. CASE z > Newest  BY <6>3, <3>1
          <6> QED  BY <6>1, <6>2, <6>3, <2>2
        <5> QED  BY <5>1, <2>5, <1>0, CardNow DEF Far
      <4>1. z \in Nat  BY DEF LiveIn
      <4>2. hi2 + 1 # z  BY <2>b
      <4>3. PICK y \in Nat \ {0} : y = hi2 + 1  BY <2>a
      <4>4. y \in (hi2 + 1)..(z - 1)  BY <4>1, <4>2, <4>3, <2>a
      <4>5. y \in LiveIn(hdr) /\ y \notin LiveIn(hdr')
        <5>1. y \in Oldest..Newest  BY <4>1, <4>4, <2>2, <2>a
        <5> QED  BY <5>1, <4>3, <2>2, <2>b
      <4>6. ~(SlotOf(y) > m) /\ SlotOf(y) \in Slots /\ SlotOf(y) \in 1..Ring  BY <4>3, <4>5, <1>2, SlotIn
      <4>7. SlotOf(y) <= m
        <5>1. SlotOf(y) \in Nat  BY <4>6
        <5> QED  BY <5>1, <4>6, <1>2
      <4> QED  BY <4>4, <4>6, <4>7, <1>2 DEF Apart
    <3>3. \A s \in lo2..hi2 :
            \/ s <= Newest /\ Rows'[s] = Rows[s] /\ body'[SlotOf(s)] = body[SlotOf(s)]
            \/ s > tail /\ s > Newest /\ Blanks(Rows'[s], 0) /\ Blanks(body'[SlotOf(s)], 0)
      <4> SUFFICES ASSUME NEW s \in lo2..hi2
                   PROVE  \/ /\ s <= Newest /\ Rows'[s] = Rows[s]
                             /\ body'[SlotOf(s)] = body[SlotOf(s)]
                          \/ /\ s > tail /\ s > Newest /\ Blanks(Rows'[s], 0)
                             /\ Blanks(body'[SlotOf(s)], 0)
        OBVIOUS
      <4>1. s \in LiveIn(hdr') /\ Rows'[s] = body[SlotOf(s)] /\ s \in Nat /\ s >= lo2
        BY <2>3, <2>5
      <4>2. CASE s <= Newest
        <5>1. s \in Oldest..Newest  BY <4>1, <4>2, <2>2, <2>4, <2>5
        <5> QED  BY <5>1, <4>1, <4>2, <2>2, <1>0
      <4>3. CASE s > Newest
        <5>1. s > tail  BY <4>1, <4>3, <2>2
        <5> QED  BY <5>1, <4>1, <4>3, <3>1, <1>0
      <4> QED  BY <4>1, <4>2, <4>3, <2>2
    <3>4. RowsClean(Rows')
      <4>0. IsRows(Rows', lo2, hi2)  BY <2>3, <2>5
      <4>1. CASE tail \in lo2..hi2
        <5>1. tail \in Oldest'..Newest'  BY <4>1, <2>5
        <5>2. \A s \in Oldest'..Newest' :
                \/ s <= Newest /\ body'[SlotOf(s)] = body[SlotOf(s)]
                \/ s > tail /\ Blanks(body'[SlotOf(s)], 0)
          BY <3>3, <2>5
        <5> QED  BY <5>1, <5>2, <1>0, <1>5, <2>1, <2>4, NarrowCard
      <4>2. CASE hi2 < tail
        <5>1. \A s \in lo2..hi2 : Rows'[s] = Rows[s]
          <6>1. \A s \in lo2..hi2 : ~(s > tail)  BY <4>2, <2>2, <2>5
          <6> QED  BY <6>1, <3>3
        <5> QED  BY <5>1, <4>0, <4>2, <2>2, <2>a, ShortRows
      <4>3. CASE tail < lo2
        <5>1. PICK e, a, b, q : Landing(Rows, tail, off, e, a, b, q)  BY <2>2 DEF Trails
        <5>2. \A s \in lo2..hi2 : \/ s <= Newest /\ Rows'[s] = Rows[s]
                                  \/ Blanks(Rows'[s], 0)
          BY <3>3
        <5> QED  BY <5>1, <5>2, <4>0, <4>3, <2>2, <2>a, HighRows
      <4> QED  BY <4>1, <4>2, <4>3, <2>2, <2>a
    <3> QED  BY <3>2, <3>4, <1>3, CardNow DEF Clean
  <2> QED  BY <2>6, <2>7
<1> QED  BY <1>4, <1>5

--------------------------------
LEMMA ContentInit == JournalInit => Content
<1> SUFFICES ASSUME JournalInit PROVE Content
  OBVIOUS
<1>1. LiveIn(hdr) = {} /\ tail = 0  BY GoneRing DEF JournalInit
<1> QED  BY <1>1 DEF Content, ChainsOK, ChainsOn, Far, CleanOK, Clean, SessionOK

LEMMA ContentNext ==
  ASSUME TypeInv, RingOK, Content, ReadsBack, [JournalNext]_vars
  PROVE  Content'
<1>1. CASE RecordStep \/ TakeBack  BY <1>1, ContentRecord
<1>2. CASE Flush  BY <1>2, ContentFlush
<1>3. CASE Chain \/ ReheadFails \/ ReheadCut  BY <1>3, ContentRehead
<1>4. CASE WriteNext \/ WriteLost \/ WriteFails \/ (Crash /\ pc = "write")
  BY <1>4, ContentWrites DEF Writes
<1>5. CASE Verified  BY <1>5, ContentVerified
<1>6. CASE Unverified  BY <1>6, ContentUnverified
<1>7. CASE Open  BY <1>7, ContentOpen
<1>8. CASE OpenFails \/ OpenCut \/ (Crash /\ pc # "write")  BY <1>8, ContentDown
<1>9. CASE PrepareFirst  BY <1>9, ContentFirst
<1>10. CASE PrepareFirstFails \/ Clear  BY <1>10, ContentEmpty
<1>11. CASE PrepareSpare \/ PrepareFails \/ PrepareCut  BY <1>11, ContentPrepare
<1>12. CASE ClearCut  BY <1>12, ContentClearCut
<1>13. CASE UNCHANGED vars
  <2>1. UNCHANGED <<card, tail, off, next, pend, pc, todo, stopped>>
    BY <1>13 DEF vars, ram, job, card
  <2> QED  BY <2>1, ContentSame DEF Base
<1> QED  BY <1>1, <1>2, <1>3, <1>4, <1>5, <1>6, <1>7, <1>8, <1>9, <1>10, <1>11, <1>12, <1>13
     DEF JournalNext

LEMMA ContentHolds == ReadsBack /\ JournalSpec => [](TypeInv /\ RingOK /\ Content)
<1>1. ReadsBack /\ JournalInit => TypeInv /\ RingOK /\ Content  BY BaseInit, ContentInit
<1>2. ReadsBack /\ TypeInv /\ RingOK /\ Content /\ [JournalNext]_vars
        => (TypeInv /\ RingOK /\ Content)'
  BY BaseNext, ContentNext
<1>3. ReadsBack => []ReadsBack
  <2>1. ReadsBack => ReadsBack'  BY DEF ReadsBack
  <2> QED  BY <2>1, PTL
<1> QED  BY <1>1, <1>2, <1>3, PTL DEF JournalSpec

\* On a card that reads back what it wrote, the session, between two calls, is
\* about to write where a reopen would look for the next record, with the
\* number it would expect there.
THEOREM SessionAgrees == ReadsBack /\ JournalSpec => []SessionSeesCard
<1>1. TypeInv /\ RingOK /\ Content => SessionSeesCard
  <2> SUFFICES ASSUME TypeInv, RingOK, Content, up, ~stopped, pc = "idle", tail # 0
               PROVE  /\ <<tail, off>> \in {<<Scan.tail, Scan.off>>, <<Scan.tail + 1, 1>>}
                      /\ Scan.expect \subseteq {Base}
    BY DEF SessionSeesCard, Base
  <2>1. /\ IsRows(Rows, Oldest, Newest) /\ tail \in Oldest..Newest /\ tail \in Nat
        /\ off \in 1..(SegCap + 1) /\ SegCap \in Nat /\ LiveIn(hdr) # {}
    BY TailRows, Sizes
  <2>2. /\ Settled(Rows, tail, off) /\ Landing(Rows, tail, off, <<>>, 0, 0, Base)
    BY DEF Content, SessionOK
  <2>3. /\ Scan.tail = Max(Visited(Rows)) /\ Scan.off = RunLen(Rows[Scan.tail]) + 1
        /\ Scan.expect = ExpectAt(Rows, Scan.tail + 1) /\ Scan.tail \in Oldest..Newest
    BY <2>1, ScanIs DEF TypeInv
  <2>4. PICK v \in Nat : v = Scan.tail
    <3>1. Scan.tail \in Nat  BY <2>1, <2>3, RowsFacts
    <3> QED  BY <3>1
  <2>5. /\ RunLen(Rows[tail]) >= off - 1
        /\ v = tail - 1 => off = 1 /\ tail > Oldest
        /\ v \in {tail - 1, tail, tail + 1} /\ v # tail + 1
    <3>1. LET w == Max(Visited(Rows))
          IN  /\ RunLen(Rows[tail]) >= off - 1
              /\ w = tail - 1 => off = 1 /\ tail > Oldest /\ 0 = 0
              /\ w \in {tail - 1, tail, tail + 1}
              /\ w = tail + 1 => 0 > 0
      BY <2>1, <2>2, LandingScan
    <3> QED  BY <3>1, <2>3, <2>4
  <2>6. RunLen(Rows[tail]) = off - 1 /\ off - 1 \in 0..SegCap
    <3>1. RunLen(Rows[tail]) \in 0..SegCap  BY RunLenFact
    <3>2. CASE off = SegCap + 1  BY <3>1, <3>2, <2>1, <2>5
    <3>3. CASE off # SegCap + 1
      <4>1. off - 1 \in 0..(SegCap - 1) /\ off - 1 + 1 = off /\ off \in 1..SegCap  BY <3>3, <2>1
      <4>2. Rows[tail][off] = Void  BY <4>1, <2>2 DEF Landing
      <4>3. Rows[tail] \in Row  BY <2>1, RowsFacts
      <4>4. RunLen(Rows[tail]) <= off - 1
        <5> DEFINE k == off - 1
        <5>1. k \in 0..(SegCap - 1) /\ Rows[tail][k + 1] = Void  BY <4>1, <4>2
        <5> HIDE DEF k
        <5>2. RunLen(Rows[tail]) <= k  BY <5>1, <4>3, RunEnds
        <5> QED  BY <5>2 DEF k
      <4> QED  BY <3>1, <4>1, <4>4, <2>5
    <3> QED  BY <3>2, <3>3
  <2>7. ExpectThere(Rows, tail, off) \subseteq {Base}  BY <2>2 DEF Landing
  <2>8. CASE v = tail
    <3>1. Scan.off = off  BY <2>1, <2>3, <2>4, <2>6, <2>8
    <3>2. ExpectAt(Rows, tail + 1) \subseteq {Base}
      <4>1. CASE off = 1
        <5>1. ExpectAt(Rows, tail + 1) = ExpectAt(Rows, tail)  BY <4>1, <2>1, <2>6, ExpectStep
        <5> QED  BY <5>1, <4>1, <2>7 DEF ExpectThere
      <4>2. CASE off # 1
        <5>1. off > 1 /\ RunLen(Rows[tail]) > 0  BY <4>2, <2>1, <2>6
        <5>2. ExpectAt(Rows, tail + 1) = {Rows[tail][off - 1].seq + 1}
          BY <5>1, <2>1, <2>6, ExpectStep
        <5> QED  BY <5>1, <5>2, <2>7 DEF ExpectThere
      <4> QED  BY <4>1, <4>2
    <3> QED  BY <3>1, <3>2, <2>3, <2>4, <2>8
  <2>9. CASE v = tail - 1
    <3>1. off = 1 /\ tail = Scan.tail + 1  BY <2>1, <2>4, <2>5, <2>9
    <3>2. ExpectThere(Rows, tail, off) = ExpectAt(Rows, tail)  BY <3>1 DEF ExpectThere
    <3> QED  BY <3>1, <3>2, <2>3, <2>7
  <2> QED  BY <2>5, <2>8, <2>9
<1> QED  BY <1>1, ContentHolds, PTL

--------------------------------
\* The numbers of what is settled: they rise from cell to cell.

LEMMA RunRises ==
  ASSUME NEW row \in Row, NEW n \in 0..SegCap, WholeRun(row, n),
         NEW i \in 1..n, NEW j \in 1..n, i < j
  PROVE  row[i].seq < row[j].seq
<1>0. \A k \in 1..n : k \in 1..SegCap /\ row[k].seq \in Nat  BY Sizes DEF Row, Rec
<1> DEFINE S == {k \in 1..n : i < k /\ ~(row[i].seq < row[k].seq)}
<1> SUFFICES ASSUME S # {} PROVE FALSE
  OBVIOUS
<1>1. S \subseteq 0..SegCap /\ SegCap \in Nat  BY <1>0, Sizes
<1>2. PICK m \in S : \A y \in S : m <= y
  <2> HIDE DEF S
  <2> QED  BY <1>1, LowestFact
<1>3. m \in 2..n /\ m - 1 \in 1..n /\ m - 1 >= i /\ m - 1 \notin S  BY <1>2, <1>0
<1>4. row[m].seq = row[m - 1].seq + 1  BY <1>3 DEF WholeRun
<1>5. row[m - 1].seq \in Nat /\ row[m].seq \in Nat /\ row[i].seq \in Nat  BY <1>0, <1>3
<1>6. i = m - 1 \/ row[i].seq < row[m - 1].seq  BY <1>3
<1>7. row[i].seq < row[m].seq  BY <1>4, <1>5, <1>6
<1> QED  BY <1>7, <1>2

\* The cells in front of cell O of segment T.
Inside(R, T, O, s, i) ==
  /\ s \in DOMAIN R /\ i \in 1..SegCap
  /\ (s < T /\ i <= RunLen(R[s])) \/ (s = T /\ i < O)

LEMMA InsideRun ==
  ASSUME NEW R, NEW lo, NEW hi, IsRows(R, lo, hi),
         NEW T \in lo..hi, NEW O \in 1..(SegCap + 1), Settled(R, T, O),
         NEW s \in lo..T
  PROVE  \E n \in 0..SegCap : /\ n = IF s < T THEN RunLen(R[s]) ELSE O - 1
                              /\ WholeRun(R[s], n) /\ R[s] \in Row
                              /\ \A i : Inside(R, T, O, s, i) <=> i \in 1..n
<1>0. DOMAIN R = lo..hi /\ lo \in Nat /\ hi \in Nat /\ T \in Nat /\ s \in Nat /\ R[s] \in Row
      /\ s \in lo..hi
  BY RowsFacts
<1>1. CASE s < T
  <2>1. PICK n \in 0..SegCap : n = RunLen(R[s]) /\ WholeRun(R[s], n)  BY RunLenFact
  <2>2. \A i : Inside(R, T, O, s, i) <=> i \in 1..n  BY <2>1, <1>0, <1>1, Sizes DEF Inside
  <2> QED  BY <2>1, <2>2, <1>0, <1>1
<1>2. CASE s = T
  <2>1. PICK n \in 0..SegCap : n = O - 1  BY Sizes
  <2>2. \A i : Inside(R, T, O, s, i) <=> i \in 1..n  BY <2>1, <1>0, <1>2, Sizes DEF Inside
  <2>3. WholeRun(R[s], n)  BY <2>1, <1>2 DEF Settled
  <2> QED  BY <2>1, <2>2, <2>3, <1>0, <1>2
<1> QED  BY <1>0, <1>1, <1>2

\* Where a segment behind the first one has anything settled in it, or is in
\* front of one that has, the one before it ends with the number before its own.
LEMMA RowsRun ==
  ASSUME NEW R, NEW lo, NEW hi, IsRows(R, lo, hi),
         NEW T \in lo..hi, NEW O \in 1..(SegCap + 1), Settled(R, T, O),
         NEW s \in lo..hi, lo < s, s < T
  PROVE  RunLen(R[s]) > 0
<1>0. DOMAIN R = lo..hi /\ lo \in Nat /\ hi \in Nat /\ T \in Nat /\ s \in Nat  BY RowsFacts
<1>1. ContinuesAt(R, s) /\ Blanks(R[s], RunLen(R[s]))  BY <1>0 DEF Settled
<1>2. R[s][1] # Void  BY <1>1 DEF ContinuesAt
<1>3. RunLen(R[s]) \in 0..SegCap  BY RunLenFact
<1> QED  BY <1>1, <1>2, <1>3, Sizes DEF Blanks

LEMMA RowsChained ==
  ASSUME NEW R, NEW lo, NEW hi, IsRows(R, lo, hi),
         NEW T \in lo..hi, NEW O \in 1..(SegCap + 1), Settled(R, T, O),
         NEW s \in lo..hi, s < T, RunLen(R[s]) > 0
  PROVE  /\ ExpectAt(R, s + 1) = {R[s][RunLen(R[s])].seq + 1}
         /\ s + 1 < T \/ O > 1 => R[s + 1][1].seq = R[s][RunLen(R[s])].seq + 1
<1>0. DOMAIN R = lo..hi /\ lo \in Nat /\ hi \in Nat /\ T \in Nat /\ s \in Nat  BY RowsFacts
<1>1. ExpectAt(R, s + 1) = {R[s][RunLen(R[s])].seq + 1}  BY ExpectStep
<1>2. ASSUME s + 1 < T \/ O > 1 PROVE R[s + 1][1].seq = R[s][RunLen(R[s])].seq + 1
  <2>1. s + 1 \in DOMAIN R /\ s + 1 - 1 \in DOMAIN R /\ (s + 1 < T \/ (s + 1 = T /\ O > 1))
    BY <1>0, <1>2
  <2>2. ContinuesAt(R, s + 1)  BY <2>1 DEF Settled
  <2> QED  BY <2>2, <1>1 DEF ContinuesAt
<1> QED  BY <1>1, <1>2

LEMMA RowsRise ==
  ASSUME NEW R, NEW lo, NEW hi, IsRows(R, lo, hi),
         NEW T \in lo..hi, NEW O \in 1..(SegCap + 1), Settled(R, T, O),
         NEW s, NEW i, Inside(R, T, O, s, i), NEW t, NEW j, Inside(R, T, O, t, j),
         s < t \/ (s = t /\ i < j)
  PROVE  R[s][i].seq < R[t][j].seq
<1>0. /\ DOMAIN R = lo..hi /\ lo \in Nat /\ hi \in Nat /\ T \in Nat
      /\ \A u \in lo..hi, k \in 1..SegCap : R[u][k].seq \in Nat
  BY RowsFacts DEF Rec
<1>1. /\ s \in lo..T /\ t \in lo..T /\ i \in 1..SegCap /\ j \in 1..SegCap
  BY <1>0 DEF Inside
<1>2. CASE s = t
  <2>1. PICK n \in 0..SegCap : /\ WholeRun(R[s], n) /\ R[s] \in Row
                               /\ \A k : Inside(R, T, O, s, k) <=> k \in 1..n
    BY <1>1, InsideRun
  <2>2. i \in 1..n /\ j \in 1..n /\ i < j  BY <2>1, <1>2, <1>0, <1>1
  <2> QED  BY <2>1, <2>2, <1>2, RunRises
<1>3. CASE s < t
  <2> DEFINE B == {u \in lo..T : s < u /\ \E k \in 1..SegCap : Inside(R, T, O, u, k)
                                                 /\ ~(R[s][i].seq < R[u][k].seq)}
  <2> SUFFICES ASSUME B # {} PROVE FALSE
    BY <1>1, <1>3
  <2>1. B \subseteq 0..T  BY <1>0
  <2>2. PICK u \in B : \A y \in B : u <= y
    <3> HIDE DEF B
    <3> QED  BY <2>1, <1>0, LowestFact
  <2>3. PICK k \in 1..SegCap : Inside(R, T, O, u, k) /\ ~(R[s][i].seq < R[u][k].seq)
    BY <2>2
  <2>4. PICK w \in lo..hi : w = u - 1 /\ w >= s /\ w < T /\ u = w + 1 /\ w \in lo..T /\ w \notin B
    BY <2>2, <1>0, <1>1
  <2>5. PICK r \in 0..SegCap : r = RunLen(R[w]) /\ WholeRun(R[w], r) /\ R[w] \in Row
                               /\ \A l : Inside(R, T, O, w, l) <=> l \in 1..r
    BY <2>4, InsideRun
  <2>6. r > 0
    <3>1. CASE w = s  BY <3>1, <2>5, <1>1
    <3>2. CASE w > s
      <4>1. lo < w  BY <3>2, <1>0, <1>1, <2>4
      <4> QED  BY <4>1, <2>4, <2>5, RowsRun
    <3> QED  BY <3>1, <3>2, <2>4, <1>0, <1>1
  <2>7. R[w][r].seq \in Nat /\ R[s][i].seq \in Nat /\ R[s][i].seq <= R[w][r].seq
    <3>1. R[w][r].seq \in Nat /\ R[s][i].seq \in Nat /\ r \in 1..r /\ r \in 1..SegCap
      <4>1. r \in 1..SegCap /\ s \in lo..hi /\ w \in lo..hi  BY <2>5, <2>6, <1>0, <1>1
      <4>2. R[w][r].seq \in Nat /\ R[s][i].seq \in Nat  BY <4>1, <1>0, <1>1
      <4>3. r \in 1..r  BY <2>5, <2>6
      <4> QED  BY <4>1, <4>2, <4>3
    <3>2. CASE w = s
      <4>1. i \in 1..r  BY <3>2, <2>5
      <4>2. i = r \/ (i < r /\ R[w][i].seq < R[w][r].seq)  BY <4>1, <3>1, <2>5, RunRises
      <4> QED  BY <4>2, <3>1, <3>2
    <3>3. CASE w > s
      <4>1. Inside(R, T, O, w, r)  BY <2>5, <3>1
      <4>2. R[s][i].seq < R[w][r].seq  BY <4>1, <3>1, <3>3, <2>4
      <4> QED  BY <4>2, <3>1
    <3> QED  BY <3>2, <3>3, <2>4, <1>0, <1>1
  <2>8. R[u][1].seq = R[w][r].seq + 1
    <3>1. w + 1 < T \/ O > 1
      <4>1. u < T \/ (u = T /\ k < O)  BY <2>3 DEF Inside
      <4> QED  BY <4>1, <2>4, <1>0
    <3> QED  BY <3>1, <2>4, <2>5, <2>6, RowsChained
  <2>9. PICK n \in 0..SegCap : /\ WholeRun(R[u], n) /\ R[u] \in Row
                               /\ \A l : Inside(R, T, O, u, l) <=> l \in 1..n
    BY <2>2, InsideRun
  <2>10. k \in 1..n /\ 1 \in 1..n  BY <2>3, <2>9
  <2>11. k = 1 \/ R[u][1].seq < R[u][k].seq  BY <2>9, <2>10, RunRises
  <2>12. R[u][1].seq \in Nat /\ R[u][k].seq \in Nat
    <3>1. u \in lo..hi /\ 1 \in 1..SegCap  BY <2>2, <1>0, Sizes
    <3> QED  BY <3>1, <2>3, <1>0
  <2> QED  BY <2>3, <2>7, <2>8, <2>11, <2>12
<1> QED  BY <1>2, <1>3

\* They are below the number expected there.
LEMMA RowsBelow ==
  ASSUME NEW R, NEW lo, NEW hi, IsRows(R, lo, hi),
         NEW T \in lo..hi, NEW O \in 1..(SegCap + 1), Settled(R, T, O),
         NEW q \in Nat, ExpectThere(R, T, O) \subseteq {q},
         NEW s, NEW i, Inside(R, T, O, s, i)
  PROVE  R[s][i].seq < q
<1>0. /\ DOMAIN R = lo..hi /\ lo \in Nat /\ hi \in Nat /\ T \in Nat
      /\ \A u \in lo..hi, k \in 1..SegCap : R[u][k].seq \in Nat
  BY RowsFacts DEF Rec
<1>1. s \in lo..T /\ i \in 1..SegCap /\ s \in lo..hi  BY <1>0 DEF Inside
\* The last of them.
<1>2. \E t, j : Inside(R, T, O, t, j) /\ (s < t \/ (s = t /\ i <= j)) /\ R[t][j].seq + 1 = q
  <2>1. CASE O > 1
    <3>1. Inside(R, T, O, T, O - 1)  BY <2>1, <1>0, Sizes DEF Inside
    <3>2. R[T][O - 1].seq + 1 = q  BY <2>1 DEF ExpectThere
    <3>3. s < T \/ (s = T /\ i <= O - 1)  BY <1>0, <1>1, Sizes DEF Inside
    <3> QED  BY <3>1, <3>2, <3>3
  <2>2. CASE O = 1
    <3>1. s < T /\ i <= RunLen(R[s])  BY <2>2, <1>1 DEF Inside
    <3>2. PICK w \in lo..hi : w = T - 1 /\ w >= s /\ w < T /\ T = w + 1 /\ w \in lo..T
      BY <3>1, <1>0, <1>1
    <3>3. PICK r \in 0..SegCap : r = RunLen(R[w])
                                 /\ \A l : Inside(R, T, O, w, l) <=> l \in 1..r
      BY <3>2, InsideRun
    <3>4. r > 0
      <4>1. CASE w = s  BY <4>1, <3>3, <1>1
      <4>2. CASE w > s
        <5>1. lo < w  BY <4>2, <1>0, <1>1, <3>2
        <5> QED  BY <5>1, <3>2, <3>3, RowsRun
      <4> QED  BY <4>1, <4>2, <3>2, <1>0, <1>1
    <3>5. ExpectAt(R, T) = {R[w][r].seq + 1}  BY <3>2, <3>3, <3>4, RowsChained
    <3>6. R[w][r].seq + 1 = q  BY <3>5, <2>2 DEF ExpectThere
    <3>7. Inside(R, T, O, w, r)  BY <3>3, <3>4
    <3>8. s < w \/ (s = w /\ i <= r)
      <4>1. s = w => i <= r  BY <3>1, <3>3
      <4>2. s < w \/ s = w  BY <3>2, <1>0, <1>1
      <4> QED  BY <4>1, <4>2
    <3> QED  BY <3>6, <3>7, <3>8
  <2> QED  BY <2>1, <2>2
<1>3. PICK t, j : Inside(R, T, O, t, j) /\ (s < t \/ (s = t /\ i <= j)) /\ R[t][j].seq + 1 = q
  BY <1>2
<1>4. t \in lo..hi /\ j \in 1..SegCap  BY <1>3, <1>0 DEF Inside
<1>5. R[s][i].seq \in Nat /\ R[t][j].seq \in Nat  BY <1>0, <1>1, <1>4
<1>6. (s = t /\ i = j) \/ R[s][i].seq < R[t][j].seq
  <2>1. (s = t /\ i = j) \/ s < t \/ (s = t /\ i < j)  BY <1>1, <1>3, <1>4
  <2> QED  BY <2>1, <1>3, RowsRise
<1> QED  BY <1>3, <1>5, <1>6

--------------------------------
\* What a reopen finds: what is settled, and behind it the first records
\* of a batch.

Older(R, T, O) ==
  UNION {{Entry(R[s][i]) : i \in {k \in 1..SegCap : Inside(R, T, O, s, k) /\ R[s][k].part = 0}} :
         s \in DOMAIN R}
Heads(e, n) == {Entry(e[k]) : k \in {i \in 1..n : e[i].part = 0}}

LEMMA OlderIn ==
  ASSUME NEW R, NEW T, NEW O, NEW x
  PROVE  x \in Older(R, T, O) <=>
           \E s, i : Inside(R, T, O, s, i) /\ R[s][i].part = 0 /\ x = Entry(R[s][i])
<1>1. x \in Older(R, T, O) <=>
        \E s \in DOMAIN R : \E i \in 1..SegCap :
           Inside(R, T, O, s, i) /\ R[s][i].part = 0 /\ x = Entry(R[s][i])
  BY DEF Older
<1>2. \A s, i : Inside(R, T, O, s, i) => s \in DOMAIN R /\ i \in 1..SegCap  BY DEF Inside
<1> QED  BY <1>1, <1>2

LEMMA HeadsOf ==
  ASSUME NEW e, NEW n, NEW x
  PROVE  x \in Heads(e, n) <=> \E k \in 1..n : e[k].part = 0 /\ x = Entry(e[k])
  BY DEF Heads

LEMMA FoundIn ==
  ASSUME NEW R, NEW lo, NEW hi, IsRows(R, lo, hi), NEW v, v = Max(Visited(R)), NEW x
  PROVE  x \in Found(R) <=>
           \E s \in lo..v : \E i \in 1..RunLen(R[s]) : R[s][i].part = 0 /\ x = Entry(R[s][i])
<1>1. Visited(R) = lo..v  BY VisitedFacts
<1>2. x \in Found(R) <=> \E s \in lo..v : x \in HeadsIn(R[s])  BY <1>1 DEF Found
<1>3. \A s : x \in HeadsIn(R[s]) <=>
          \E i \in 1..RunLen(R[s]) : R[s][i].part = 0 /\ x = Entry(R[s][i])
  BY DEF HeadsIn
<1> QED  BY <1>2, <1>3

\* How many of the batch's records the scan gets through.
Reach(R, T, O, a, m) ==
  LET v == Max(Visited(R))
  IN  \/ v = T - 1 /\ m = 0
      \/ v = T /\ m = RunLen(R[T]) - (O - 1) /\ m <= a
      \/ v = T + 1 /\ m = a + RunLen(R[T + 1]) /\ RunLen(R[T]) = O - 1 + a
LEMMA FoundIs ==
  ASSUME NEW R, NEW lo, NEW hi, IsRows(R, lo, hi),
         NEW T \in lo..hi, NEW O \in 1..(SegCap + 1), Settled(R, T, O),
         NEW e, NEW a, NEW b, NEW q, Landing(R, T, O, e, a, b, q)
  PROVE  \E m \in 0..(a + b) :
           /\ Found(R) = Older(R, T, O) \cup Heads(e, m) /\ Reach(R, T, O, a, m)
           /\ \A k \in 1..m :
                \/ k <= a /\ R[T][O - 1 + k] = e[k] /\ e[k] # Void
                \/ k > a /\ T + 1 <= hi /\ R[T + 1][k - a] = e[k] /\ e[k] # Void
<1>0. /\ DOMAIN R = lo..hi /\ lo \in Nat /\ hi \in Nat /\ T \in Nat /\ O \in Nat
      /\ \A s \in lo..hi : R[s] \in Row /\ s \in Nat
      /\ a \in Nat /\ b \in Nat /\ O + a <= SegCap + 1 /\ SegCap \in Nat
  BY RowsFacts, Sizes DEF Landing
<1> DEFINE v == Max(Visited(R))
           r(s) == RunLen(R[s])
<1>1. \A s \in lo..hi : r(s) \in 0..SegCap /\ WholeRun(R[s], r(s))  BY RunLenFact
<1>2. /\ v \in lo..hi /\ r(T) >= O - 1
      /\ v = T - 1 => O = 1 /\ T > lo
      /\ v \in {T - 1, T, T + 1}
      /\ v = T + 1 => T + 1 \in lo..hi /\ r(T) = O - 1 + a
  <2>1. v \in lo..hi  BY VisitedFacts
  <2>2. /\ r(T) >= O - 1
        /\ v = T - 1 => O = 1 /\ T > lo
        /\ v \in {T - 1, T, T + 1}
        /\ v = T + 1 => r(T) = O + a - 1
    BY LandingScan
  <2> HIDE DEF v, r
  <2>3. O + a - 1 = O - 1 + a  BY <1>0
  <2> QED  BY <2>1, <2>2, <2>3
<1> HIDE DEF v, r
\* Cells of a run hold records, and behind the place those of the batch.
<1>3. \A i \in 1..r(T) : i >= O => i < O + a /\ R[T][i] = e[i - O + 1] /\ R[T][i] # Void
  <2> TAKE i \in 1..r(T)
  <2> HAVE i >= O
  <2>1. i \in 1..SegCap  BY <1>0, <1>1
  <2>2. R[T][i] # Void  BY <1>1 DEF WholeRun
  <2> QED  BY <2>1, <2>2 DEF Landing
<1>4. T + 1 \in lo..hi => \A i \in 1..r(T + 1) :
        i <= b /\ R[T + 1][i] = e[a + i] /\ R[T + 1][i] # Void
  <2> SUFFICES ASSUME T + 1 \in lo..hi, NEW i \in 1..r(T + 1)
               PROVE  i <= b /\ R[T + 1][i] = e[a + i] /\ R[T + 1][i] # Void
    OBVIOUS
  <2>1. i \in 1..SegCap  BY <1>0, <1>1
  <2>2. R[T + 1][i] # Void  BY <1>1 DEF WholeRun
  <2> QED  BY <2>1, <2>2, <1>0 DEF Landing
<1>5. r(T) <= O - 1 + a
  <2> SUFFICES ASSUME r(T) > O - 1 + a PROVE FALSE
    BY <1>0, <1>1
  <2>1. r(T) \in Nat  BY <1>1
  <2>2. r(T) \in 1..r(T) /\ r(T) >= O  BY <2>1, <1>0
  <2>3. r(T) < O + a  BY <2>2, <1>3
  <2> QED  BY <2>1, <2>3, <1>0
<1>6. T + 1 \in lo..hi => r(T + 1) <= b
  <2> SUFFICES ASSUME T + 1 \in lo..hi, r(T + 1) > b PROVE FALSE
    BY <1>0, <1>1
  <2>1. r(T + 1) \in Nat  BY <1>1
  <2>2. r(T + 1) \in 1..r(T + 1)  BY <2>1, <1>0
  <2>3. r(T + 1) <= b  BY <2>2, <1>4
  <2> QED  BY <2>1, <2>3, <1>0
<1>7. PICK m \in 0..(a + b) :
        \/ v = T - 1 /\ m = 0
        \/ v = T /\ m = r(T) - (O - 1) /\ m <= a
        \/ v = T + 1 /\ m = a + r(T + 1) /\ r(T) = O - 1 + a
  <2>1. CASE v = T - 1
    <3>1. 0 \in 0..(a + b)  BY <1>0
    <3> QED  BY <3>1, <2>1
  <2>2. CASE v = T
    <3>1. r(T) \in Nat  BY <1>1
    <3>2. r(T) - (O - 1) \in 0..(a + b) /\ r(T) - (O - 1) <= a  BY <3>1, <1>0, <1>2, <1>5
    <3> QED  BY <3>2, <2>2
  <2>3. CASE v = T + 1
    <3>1. r(T + 1) \in Nat /\ r(T + 1) <= b  BY <2>3, <1>1, <1>2, <1>6
    <3>2. a + r(T + 1) \in 0..(a + b)  BY <3>1, <1>0
    <3> QED  BY <3>2, <2>3, <1>2
  <2> QED  BY <2>1, <2>2, <2>3, <1>2
<1>8. Reach(R, T, O, a, m)  BY <1>7 DEF Reach, v, r
\* The records that the scan reaches are those inside and the first m.
<1>9. ASSUME NEW s \in lo..v, NEW i \in 1..r(s)
      PROVE  Inside(R, T, O, s, i) \/ \E k \in 1..m : R[s][i] = e[k]
  <2>0. s \in lo..hi /\ s \in Nat /\ r(s) \in 0..SegCap /\ i \in 1..SegCap /\ i \in Nat
    BY <1>0, <1>1, <1>2
  <2>1. CASE s < T
    <3>1. i <= RunLen(R[s])  BY <2>0 DEF r
    <3> QED  BY <3>1, <2>0, <2>1, <1>0 DEF Inside
  <2>2. CASE s = T /\ i < O  BY <2>0, <2>2, <1>0 DEF Inside
  <2>3. CASE s = T /\ i >= O
    <3>1. R[T][i] = e[i - O + 1] /\ i < O + a  BY <2>3, <1>3
    <3>2. v = T \/ v = T + 1  BY <2>3, <1>0, <1>2
    <3>3. i - O + 1 \in 1..m
      <4>1. PICK n \in Nat : n = r(T) /\ i <= n  BY <2>0, <2>3
      <4>2. CASE v = T  BY <4>1, <4>2, <2>0, <2>3, <1>0, <1>7
      <4>3. CASE v = T + 1
        <5>1. r(T + 1) \in Nat  BY <4>3, <1>1, <1>2
        <5>2. m >= a  BY <5>1, <4>3, <1>0, <1>7
        <5> QED  BY <5>2, <3>1, <2>0, <2>3, <1>0
      <4> QED  BY <4>2, <4>3, <3>2
    <3> QED  BY <3>1, <3>3, <2>3
  <2>4. CASE s > T
    <3>1. s = T + 1 /\ v = T + 1 /\ T + 1 \in lo..hi  BY <2>0, <2>4, <1>0, <1>2
    <3>2. R[s][i] = e[a + i]  BY <3>1, <1>4
    <3>3. a + i \in 1..m
      <4>1. PICK n \in Nat : n = r(T + 1) /\ i <= n  BY <2>0, <3>1
      <4> QED  BY <4>1, <3>1, <2>0, <1>0, <1>7
    <3> QED  BY <3>2, <3>3
  <2> QED  BY <2>0, <2>1, <2>2, <2>3, <2>4, <1>0
<1>10. ASSUME NEW s, NEW i, Inside(R, T, O, s, i)
       PROVE  s \in lo..v /\ i \in 1..r(s)
  <2>1. s \in lo..hi /\ i \in 1..SegCap /\ s \in Nat  BY <1>0, <1>10 DEF Inside
  <2>2. i <= r(s)
    <3>1. CASE s < T  BY <3>1, <1>10 DEF Inside, r
    <3>2. CASE s = T
      <4>1. i < O  BY <3>2, <1>10, <2>1, <1>0 DEF Inside
      <4> QED  BY <4>1, <3>2, <2>1, <1>0, <1>1, <1>2
    <3> QED  BY <3>1, <3>2, <1>10 DEF Inside
  <2>3. s <= v
    <3>1. CASE v = T - 1
      <4>1. O = 1 /\ s < T  BY <3>1, <1>2, <1>10, <2>1 DEF Inside
      <4> QED  BY <4>1, <3>1, <2>1, <1>0
    <3>2. CASE v # T - 1
      <4>1. s <= T  BY <1>10, <2>1, <1>0 DEF Inside
      <4> QED  BY <4>1, <3>2, <2>1, <1>0, <1>2
    <3> QED  BY <3>1, <3>2
  <2>4. r(s) \in Nat /\ v \in Nat  BY <2>1, <1>0, <1>1, <1>2
  <2> QED  BY <2>1, <2>2, <2>3, <2>4, <1>0
<1>11. ASSUME NEW k \in 1..m
       PROVE  \/ /\ k <= a /\ R[T][O - 1 + k] = e[k] /\ e[k] # Void
                 /\ T \in lo..v /\ O - 1 + k \in 1..r(T)
              \/ /\ k > a /\ T + 1 <= hi /\ R[T + 1][k - a] = e[k] /\ e[k] # Void
                 /\ T + 1 \in lo..v /\ k - a \in 1..r(T + 1)
  <2>1. v = T \/ v = T + 1  BY <1>7
  <2>2. CASE k <= a
    <3>1. O - 1 + k \in 1..r(T)
      <4>1. PICK n \in Nat : n = r(T)  BY <1>1
      <4>2. O - 1 + k <= n
        <5>1. CASE v = T  BY <5>1, <4>1, <1>0, <1>7
        <5>2. CASE v = T + 1  BY <5>2, <4>1, <2>2, <1>0, <1>7
        <5> QED  BY <5>1, <5>2, <2>1
      <4>3. O - 1 + k \in 1..n  BY <4>2, <1>0
      <4> QED  BY <4>1, <4>3
    <3>2. R[T][O - 1 + k] = e[O - 1 + k - O + 1] /\ R[T][O - 1 + k] # Void
      <4>1. O - 1 + k >= O  BY <1>0
      <4> QED  BY <4>1, <3>1, <1>3
    <3>3. O - 1 + k - O + 1 = k  BY <1>0
    <3>4. T \in lo..v  BY <2>1, <1>0
    <3> QED  BY <3>1, <3>2, <3>3, <3>4, <2>2
  <2>3. CASE k > a
    <3>1. v = T + 1  BY <2>1, <2>3, <1>0, <1>7
    <3>2. T + 1 \in lo..v /\ T + 1 \in lo..hi /\ T + 1 <= hi  BY <3>1, <1>0, <1>2
    <3>3. k - a \in 1..r(T + 1)
      <4>1. PICK n \in Nat : n = r(T + 1)  BY <3>2, <1>1
      <4> QED  BY <4>1, <3>1, <2>3, <1>0, <1>7
    <3>4. R[T + 1][k - a] = e[a + (k - a)] /\ R[T + 1][k - a] # Void  BY <3>2, <3>3, <1>4
    <3>5. a + (k - a) = k  BY <1>0
    <3> QED  BY <3>2, <3>3, <3>4, <3>5, <2>3
  <2> QED  BY <2>2, <2>3, <1>0
<1>12. Found(R) = Older(R, T, O) \cup Heads(e, m)
  <2>0. \A x : x \in Found(R) <=>
           \E s \in lo..v : \E i \in 1..r(s) : R[s][i].part = 0 /\ x = Entry(R[s][i])
    BY FoundIn DEF v, r
  <2>1. ASSUME NEW x \in Found(R) PROVE x \in Older(R, T, O) \cup Heads(e, m)
    <3>0. PICK s \in lo..v : \E i \in 1..r(s) : R[s][i].part = 0 /\ x = Entry(R[s][i])
      BY <2>0
    <3>1. PICK i \in 1..r(s) : R[s][i].part = 0 /\ x = Entry(R[s][i])  BY <3>0
    <3> QED  BY <3>1, <1>9, OlderIn, HeadsOf
  <2>2. ASSUME NEW x \in Older(R, T, O) PROVE x \in Found(R)
    <3>1. PICK s, i : Inside(R, T, O, s, i) /\ R[s][i].part = 0 /\ x = Entry(R[s][i])
      BY OlderIn
    <3>2. s \in lo..v /\ i \in 1..r(s)  BY <3>1, <1>10
    <3> QED  BY <3>1, <3>2, <2>0
  <2>3. ASSUME NEW x \in Heads(e, m) PROVE x \in Found(R)
    <3>1. PICK k \in 1..m : e[k].part = 0 /\ x = Entry(e[k])  BY HeadsOf
    <3>2. \E s \in lo..v : \E i \in 1..r(s) : R[s][i] = e[k]  BY <1>11
    <3> QED  BY <3>1, <3>2, <2>0
  <2> QED  BY <2>1, <2>2, <2>3
<1> QED  BY <1>8, <1>11, <1>12

LEMMA EntryIs == \A r : Entry(r).seq = r.seq /\ Entry(r).step = r.step  BY DEF Entry

LEMMA OlderBelow ==
  ASSUME NEW R, NEW lo, NEW hi, IsRows(R, lo, hi),
         NEW T \in lo..hi, NEW O \in 1..(SegCap + 1), Settled(R, T, O),
         NEW q \in Nat, ExpectThere(R, T, O) \subseteq {q},
         NEW x \in Older(R, T, O)
  PROVE  x.seq \in Nat /\ x.seq < q
<1>1. PICK s, i : Inside(R, T, O, s, i) /\ x = Entry(R[s][i])  BY OlderIn
<1>2. R[s][i].seq < q  BY <1>1, RowsBelow
<1>3. s \in lo..hi /\ i \in 1..SegCap  BY <1>1, RowsFacts DEF Inside
<1>4. R[s][i].seq \in Nat  BY <1>3, RowsFacts DEF Rec
<1> QED  BY <1>1, <1>2, <1>4, EntryIs

\* The first heads of a batch come before the others.
LEMMA HeadsRise ==
  ASSUME NEW e, NEW n \in Nat, NEW q \in Nat, \A k \in 1..n : e[k].seq = q + k - 1,
         NEW m \in 0..n
  PROVE  /\ Heads(e, m) \subseteq Heads(e, n)
         /\ \A x \in Heads(e, n) : x.seq \in Nat /\ x.seq >= q
         /\ \A x \in Heads(e, m), y \in Heads(e, n) \ Heads(e, m) : x.seq < y.seq
<1>1. \A x \in Heads(e, n) : \E k \in 1..n :
        e[k].part = 0 /\ x = Entry(e[k]) /\ x.seq = q + k - 1
  BY HeadsOf, EntryIs
<1>2. 1..m \subseteq 1..n  OBVIOUS
<1>3. Heads(e, m) \subseteq Heads(e, n)  BY <1>2, HeadsOf
<1>4. \A x \in Heads(e, n) : x.seq \in Nat /\ x.seq >= q  BY <1>1
<1>5. ASSUME NEW x \in Heads(e, m), NEW y \in Heads(e, n) \ Heads(e, m)
      PROVE  x.seq < y.seq
  <2>1. PICK k \in 1..m : x = Entry(e[k]) /\ x.seq = q + k - 1
    <3>1. PICK k \in 1..m : x = Entry(e[k])  BY HeadsOf
    <3>2. k \in 1..n  BY <1>2
    <3> QED  BY <3>1, <3>2, EntryIs
  <2>2. PICK j \in 1..n : e[j].part = 0 /\ y = Entry(e[j]) /\ y.seq = q + j - 1  BY <1>1
  <2>3. j \notin 1..m  BY <2>2, HeadsOf
  <2> QED  BY <2>1, <2>2, <2>3
<1> QED  BY <1>3, <1>4, <1>5

\* What a reopen finds of a batch: its first m records, where they belong; all
\* of it, when all of it is there; and of a chain all or nothing.
LEMMA FoundPlan ==
  ASSUME NEW R, NEW lo, NEW hi, IsRows(R, lo, hi),
         NEW T \in lo..hi, NEW O \in 1..(SegCap + 1), Settled(R, T, O),
         NEW p, NEW a, NEW b, NEW q, PlanOf(p, T, O, a, b, q),
         Landing(R, T, O, Recs(p), a, b, q)
  PROVE  \E m \in 0..(a + b) :
           /\ Found(R) = Older(R, T, O) \cup Heads(Recs(p), m) /\ Lies(R, p, m)
           /\ Lies(R, p, a + b) => m = a + b
           /\ (\A k \in 1..(a + b) : p[k].rec.part = k - 1) => m = 0 \/ m = a + b
<1>0. /\ DOMAIN R = lo..hi /\ lo \in Nat /\ hi \in Nat /\ T \in Nat /\ O \in Nat /\ O >= 1
      /\ a \in Nat /\ b \in Nat /\ a + b >= 1
      /\ \A k \in 1..(a + b) : Recs(p)[k] = p[k].rec
  <2>1. DOMAIN R = lo..hi /\ lo \in Nat /\ hi \in Nat /\ T \in Nat  BY RowsFacts
  <2>2. O \in Nat /\ O >= 1  BY Sizes
  <2>3. a \in Nat /\ b \in Nat /\ a + b >= 1  BY DEF PlanOf
  <2>4. \A k \in 1..(a + b) : Recs(p)[k] = p[k].rec  BY RecsIs
  <2> QED  BY <2>1, <2>2, <2>3, <2>4
<1>1. PICK m \in 0..(a + b) :
        /\ Found(R) = Older(R, T, O) \cup Heads(Recs(p), m) /\ Reach(R, T, O, a, m)
        /\ \A k \in 1..m :
             \/ k <= a /\ R[T][O - 1 + k] = Recs(p)[k] /\ Recs(p)[k] # Void
             \/ k > a /\ T + 1 <= hi /\ R[T + 1][k - a] = Recs(p)[k] /\ Recs(p)[k] # Void
  <2> DEFINE e == Recs(p)
  <2>1. Landing(R, T, O, e, a, b, q)  OBVIOUS
  <2> HIDE DEF e
  <2>2. \E m \in 0..(a + b) :
          /\ Found(R) = Older(R, T, O) \cup Heads(e, m) /\ Reach(R, T, O, a, m)
          /\ \A k \in 1..m :
               \/ k <= a /\ R[T][O - 1 + k] = e[k] /\ e[k] # Void
               \/ k > a /\ T + 1 <= hi /\ R[T + 1][k - a] = e[k] /\ e[k] # Void
    BY <2>1, FoundIs
  <2> QED  BY <2>2 DEF e
<1>2. Lies(R, p, m)
  <2> SUFFICES ASSUME NEW k \in 1..m
               PROVE  p[k].seg \in DOMAIN R /\ R[p[k].seg][p[k].at] = p[k].rec
    BY DEF Lies
  <2>0. k \in 1..(a + b) /\ Recs(p)[k] = p[k].rec /\ m \in Nat  BY <1>0
  <2>1. CASE k <= a
    <3>1. k \in 1..a  BY <2>0, <2>1, <1>0
    <3>2. p[k].seg = T /\ p[k].at = O + k - 1  BY <3>1 DEF PlanOf
    <3>3. O - 1 + k = O + k - 1  BY <1>0, <2>0
    <3>4. R[T][O - 1 + k] = Recs(p)[k]  BY <1>1, <2>1, <1>0, <2>0
    <3> QED  BY <3>2, <3>3, <3>4, <2>0, <1>0
  <2>2. CASE k > a
    <3>1. PICK j \in 1..b : k = a + j /\ j = k - a
      <4>1. k - a \in 1..b /\ k = a + (k - a)  BY <2>0, <2>2, <1>0
      <4> QED  BY <4>1
    <3>2. p[a + j].seg = T + 1 /\ p[a + j].at = j  BY DEF PlanOf
    <3>3. T + 1 <= hi /\ R[T + 1][k - a] = Recs(p)[k]  BY <1>1, <2>2, <1>0, <2>0
    <3>4. T + 1 \in DOMAIN R  BY <3>3, <1>0
    <3> QED  BY <3>1, <3>2, <3>3, <3>4, <2>0
  <2> QED  BY <2>1, <2>2, <2>0, <1>0
<1> DEFINE v == Max(Visited(R))
           r(s) == RunLen(R[s])
<1>3. /\ \/ v = T - 1 /\ m = 0
         \/ v = T /\ m = r(T) - (O - 1) /\ m <= a
         \/ v = T + 1 /\ m = a + r(T + 1) /\ r(T) = O - 1 + a
      /\ v = T - 1 => O = 1 /\ T > lo /\ b = 0
      /\ v = T + 1 => b > 0 /\ T + 1 \in lo..hi
      /\ v \in lo..hi
      /\ v < hi => ~ContinuesAt(R, v + 1)
  <2>1. /\ v = T - 1 => O = 1 /\ T > lo /\ b = 0
        /\ v = T + 1 => b > 0 /\ T + 1 <= hi
    <3> DEFINE e == Recs(p)
    <3>1. Landing(R, T, O, e, a, b, q)  OBVIOUS
    <3> HIDE DEF e
    <3> QED  BY <3>1, LandingScan
  <2>2. v \in lo..hi /\ (v < hi => ~ContinuesAt(R, v + 1))  BY VisitedFacts
  <2>3. \/ v = T - 1 /\ m = 0
        \/ v = T /\ m = r(T) - (O - 1) /\ m <= a
        \/ v = T + 1 /\ m = a + r(T + 1) /\ r(T) = O - 1 + a
    BY <1>1 DEF Reach
  <2> HIDE DEF v, r
  <2> QED  BY <2>1, <2>2, <2>3, <1>0
<1>4. \A s \in lo..hi : r(s) \in 0..SegCap /\ WholeRun(R[s], r(s))
                        /\ \A k \in 0..SegCap : WholeRun(R[s], k) => k <= r(s)
  BY RunLenFact
<1> HIDE DEF v
<1>5. ASSUME Lies(R, p, a + b) PROVE m = a + b
  <2>1. /\ r(T) = O - 1 + a
        /\ a > 0 /\ T - 1 \in DOMAIN R => ContinuesAt(R, T)
    BY <1>5, DoneFirst
  <2>2. ASSUME b > 0 PROVE T + 1 \in lo..hi /\ ContinuesAt(R, T + 1) /\ WholeRun(R[T + 1], b)
                           /\ b \in 0..SegCap
    <3>1. T + 1 \in lo..hi /\ b + 1 \in 2..(SegCap + 1) /\ Settled(R, T + 1, b + 1)
      <4>1. LET T2 == IF b = 0 THEN T ELSE T + 1
                O2 == IF b = 0 THEN O + a ELSE b + 1
            IN  T2 \in lo..hi /\ O2 \in 2..(SegCap + 1) /\ Settled(R, T2, O2)
        BY <1>5, LandingDone
      <4> QED  BY <4>1, <2>2
    <3>2. T + 1 \in DOMAIN R /\ T + 1 - 1 \in DOMAIN R /\ b + 1 > 1  BY <3>1, <1>0
    <3>3. ContinuesAt(R, T + 1)  BY <3>1, <3>2 DEF Settled
    <3>4. PICK O2 : O2 = b + 1  OBVIOUS
    <3>5. O2 - 1 = b /\ b \in 0..SegCap  BY <3>1, <3>4, <1>0, Sizes
    <3>6. WholeRun(R[T + 1], O2 - 1)  BY <3>1, <3>4 DEF Settled
    <3> QED  BY <3>1, <3>3, <3>5, <3>6
  <2> HIDE DEF r
  <2>3. CASE v = T - 1
    <3>1. a > 0 /\ T - 1 \in DOMAIN R /\ v < hi /\ v + 1 = T  BY <2>3, <1>0, <1>3
    <3> QED  BY <3>1, <2>1, <1>3
  <2>4. CASE v = T
    <3>1. m = a  BY <2>1, <2>4, <1>0, <1>3
    <3>2. CASE b > 0
      <4>1. v < hi  BY <2>2, <2>4, <3>2, <1>0
      <4> QED  BY <4>1, <2>2, <2>4, <3>2, <1>3
    <3> QED  BY <3>1, <3>2, <1>0
  <2>5. CASE v = T + 1
    <3>1. b > 0 /\ m = a + r(T + 1) /\ T + 1 \in lo..hi  BY <2>5, <1>0, <1>3
    <3>2. b <= r(T + 1) /\ r(T + 1) \in Nat  BY <3>1, <2>2, <1>4
    <3> QED  BY <3>1, <3>2, <1>0
  <2> QED  BY <2>3, <2>4, <2>5, <1>3
<1>6. ASSUME \A k \in 1..(a + b) : p[k].rec.part = k - 1, m # 0 PROVE m = a + b
  <2>0. m \in Nat /\ m >= 1 /\ m <= a + b  BY <1>6, <1>0
  <2>1. CASE a + b = 1  BY <2>0, <2>1
  <2>2. CASE a + b >= 2
    <3>0. 1 \in 1..(a + b) /\ 2 \in 1..(a + b) /\ 1 \in 1..m  BY <2>0, <2>2, <1>0
    <3>1. p[2].rec.part = 1 /\ p[1].rec.part = 0  BY <3>0, <1>6
    <3>2. (a = 0 \/ b = 0) /\ p[1].rec.n = a + b
      <4>1. ~(\A k \in 1..(a + b) : p[k].rec.part = 0 /\ p[k].rec.n = 1)
        BY <3>0, <3>1
      <4> QED  BY <4>1 DEF PlanOf
    <3>3. Recs(p)[1] = p[1].rec  BY <3>0, <1>0
    <3> HIDE DEF r
    <3>4. CASE b = 0
      <4>1. CASE v = T + 1  BY <4>1, <3>4, <1>3, <1>0
      <4>2. CASE v = T
        <5>1. m = r(T) - (O - 1) /\ r(T) \in Nat /\ WholeRun(R[T], r(T))
          BY <4>2, <1>0, <1>3, <1>4
        <5>2. O \in 1..r(T)  BY <5>1, <2>0, <1>0
        <5>3. R[T][O] = p[1].rec
          <6>1. 1 <= a /\ ~(1 > a)  BY <3>4, <2>2, <1>0
          <6>2. R[T][O - 1 + 1] = Recs(p)[1]  BY <6>1, <3>0, <1>1
          <6>3. O - 1 + 1 = O  BY <1>0
          <6> QED  BY <6>2, <6>3, <3>3
        <5>4. \A k \in 1..(a + b - 1) : O + k <= r(T)
          <6>1. R[T][O].part = 0 /\ R[T][O].n = a + b  BY <5>3, <3>1, <3>2
          <6>2. \A k \in 1..(R[T][O].n - 1) : O + k <= r(T)
            BY <5>1, <5>2, <6>1 DEF WholeRun
          <6>3. R[T][O].n - 1 = a + b - 1  BY <6>1, <1>0
          <6> QED  BY <6>2, <6>3
        <5>5. a + b - 1 \in 1..(a + b - 1)  BY <2>2, <1>0
        <5>6. O + (a + b - 1) <= r(T)  BY <5>4, <5>5
        <5>7. O \in Nat /\ a \in Nat /\ b \in Nat  BY <1>0
        <5> QED  BY <5>1, <5>6, <5>7, <2>0
      <4> QED  BY <4>1, <4>2, <1>3, <2>0
    <3>5. CASE a = 0
      <4>1. v = T + 1 /\ m = r(T + 1) /\ T + 1 \in lo..hi
        <5>1. v = T + 1 /\ m = a + r(T + 1) /\ T + 1 \in lo..hi
          BY <3>5, <2>0, <1>3
        <5>2. r(T + 1) \in Nat  BY <5>1, <1>4
        <5> QED  BY <5>1, <5>2, <3>5
      <4>2. r(T + 1) \in Nat /\ WholeRun(R[T + 1], r(T + 1))  BY <4>1, <1>4
      <4>3. 1 \in 1..r(T + 1)  BY <4>1, <4>2, <2>0
      <4>4. R[T + 1][1] = p[1].rec
        <5>1. 1 > a /\ ~(1 <= a) /\ 1 - a = 1  BY <3>5
        <5>2. R[T + 1][1 - a] = Recs(p)[1]  BY <5>1, <3>0, <1>1
        <5> QED  BY <5>1, <5>2, <3>3
      <4>5. \A k \in 1..(a + b - 1) : 1 + k <= r(T + 1)
        <5>1. R[T + 1][1].part = 0 /\ R[T + 1][1].n = a + b  BY <4>4, <3>1, <3>2
        <5>2. \A k \in 1..(R[T + 1][1].n - 1) : 1 + k <= r(T + 1)
          BY <4>2, <4>3, <5>1 DEF WholeRun
        <5>3. R[T + 1][1].n - 1 = a + b - 1  BY <5>1, <1>0
        <5> QED  BY <5>2, <5>3
      <4>6. a + b - 1 \in 1..(a + b - 1)  BY <2>2, <1>0
      <4>7. 1 + (a + b - 1) <= r(T + 1)  BY <4>5, <4>6
      <4>8. a \in Nat /\ b \in Nat  BY <1>0
      <4> QED  BY <4>1, <4>2, <4>7, <4>8, <2>0
    <3> QED  BY <3>2, <3>4, <3>5
  <2> QED  BY <2>0, <2>1, <2>2, <1>0
<1> QED  BY <1>1, <1>2, <1>5, <1>6

\* Where the session is at rest, a reopen finds what is settled.
LEMMA RestFound ==
  ASSUME NEW R, NEW lo, NEW hi, IsRows(R, lo, hi),
         NEW T \in lo..hi, NEW O \in 1..(SegCap + 1), Settled(R, T, O),
         NEW q, Landing(R, T, O, <<>>, 0, 0, q)
  PROVE  Found(R) = Older(R, T, O)
<1>1. PICK m \in 0..(0 + 0) : Found(R) = Older(R, T, O) \cup Heads(<<>>, m)
  <2> DEFINE e == <<>>
  <2>1. Landing(R, T, O, e, 0, 0, q)  OBVIOUS
  <2> HIDE DEF e
  <2>2. \E m \in 0..(0 + 0) : Found(R) = Older(R, T, O) \cup Heads(e, m)  BY <2>1, FoundIs
  <2> QED  BY <2>2 DEF e
<1>2. \A x : x \notin Heads(<<>>, m)
  <2>1. 1..m = {}  OBVIOUS
  <2> QED  BY <2>1, HeadsOf
<1> QED  BY <1>1, <1>2

\* Without the oldest rows, the newest entries are left.
LEMMA OlderNarrow ==
  ASSUME NEW R, NEW lo, NEW hi, IsRows(R, lo, hi),
         NEW R2, NEW lo2, NEW hi2, IsRows(R2, lo2, hi2),
         NEW T \in lo..hi, NEW O \in 1..(SegCap + 1), Settled(R, T, O),
         lo <= lo2, T \in lo2..hi2,
         \A s \in lo2..(T - 1) : R2[s] = R[s],
         \A i \in 1..(O - 1) : R2[T][i] = R[T][i]
  PROVE  /\ Older(R2, T, O) \subseteq Older(R, T, O)
         /\ \A x \in Older(R, T, O) \ Older(R2, T, O), y \in Older(R2, T, O) : x.seq < y.seq
         /\ lo = lo2 => Older(R2, T, O) = Older(R, T, O)
<1>0. /\ DOMAIN R = lo..hi /\ DOMAIN R2 = lo2..hi2 /\ lo \in Nat /\ hi \in Nat
      /\ lo2 \in Nat /\ hi2 \in Nat /\ T \in Nat /\ O \in Nat /\ O >= 1 /\ SegCap \in Nat
  <2>1. /\ DOMAIN R = lo..hi /\ DOMAIN R2 = lo2..hi2 /\ lo \in Nat /\ hi \in Nat
        /\ lo2 \in Nat /\ hi2 \in Nat /\ T \in Nat
    BY RowsFacts
  <2> QED  BY <2>1, Sizes
<1>1. ASSUME NEW s, NEW i
      PROVE  /\ Inside(R2, T, O, s, i) <=> Inside(R, T, O, s, i) /\ s >= lo2
             /\ Inside(R2, T, O, s, i) => R2[s][i] = R[s][i]
  <2>1. CASE s \in lo2..(T - 1)
    <3>1. R2[s] = R[s] /\ s \in DOMAIN R /\ s \in DOMAIN R2 /\ s < T /\ s # T /\ s >= lo2
      BY <2>1, <1>0
    <3> QED  BY <3>1 DEF Inside
  <2>2. CASE s = T
    <3>1. s \in DOMAIN R /\ s \in DOMAIN R2 /\ ~(s < T) /\ s >= lo2  BY <2>2, <1>0
    <3>2. Inside(R2, T, O, s, i) <=> i \in 1..SegCap /\ i < O  BY <3>1, <2>2 DEF Inside
    <3>3. Inside(R, T, O, s, i) <=> i \in 1..SegCap /\ i < O  BY <3>1, <2>2 DEF Inside
    <3>4. i \in 1..SegCap /\ i < O => i \in 1..(O - 1)  BY <1>0
    <3> QED  BY <3>1, <3>2, <3>3, <3>4, <2>2
  <2>3. CASE s \notin lo2..(T - 1) /\ s # T
    <3>1. ~Inside(R2, T, O, s, i)  BY <2>3, <1>0 DEF Inside
    <3>2. ~(Inside(R, T, O, s, i) /\ s >= lo2)  BY <2>3, <1>0 DEF Inside
    <3> QED  BY <3>1, <3>2
  <2> QED  BY <2>1, <2>2, <2>3
<1>2. \A x : x \in Older(R2, T, O) <=>
        \E s, i : Inside(R, T, O, s, i) /\ s >= lo2 /\ R[s][i].part = 0 /\ x = Entry(R[s][i])
  BY <1>1, OlderIn
<1>3. \A x : x \in Older(R, T, O) <=>
        \E s, i : Inside(R, T, O, s, i) /\ R[s][i].part = 0 /\ x = Entry(R[s][i])
  BY OlderIn
<1>4. ASSUME NEW x \in Older(R, T, O) \ Older(R2, T, O), NEW y \in Older(R2, T, O)
      PROVE  x.seq < y.seq
  <2>1. PICK s, i : Inside(R, T, O, s, i) /\ R[s][i].part = 0 /\ x = Entry(R[s][i])  BY <1>3
  <2>2. PICK t, j : Inside(R, T, O, t, j) /\ t >= lo2 /\ y = Entry(R[t][j])  BY <1>2
  <2>3. ~(s >= lo2)  BY <2>1, <1>2
  <2>4. s \in Nat /\ t \in Nat  BY <2>1, <2>2, <1>0 DEF Inside
  <2>5. s < t  BY <2>2, <2>3, <2>4, <1>0
  <2>6. R[s][i].seq < R[t][j].seq  BY <2>1, <2>2, <2>5, RowsRise
  <2> QED  BY <2>1, <2>2, <2>6, EntryIs
<1>5. \A s, i : Inside(R, T, O, s, i) => s >= lo  BY <1>0 DEF Inside
<1> QED  BY <1>2, <1>3, <1>4, <1>5

\* A repair, through or cut short, changes nothing about what is found.
LEMMA RepairFound ==
  ASSUME NEW R, NEW lo, NEW hi, IsRows(R, lo, hi),
         NEW R2, IsRows(R2, lo, hi),
         NEW v, v = Max(Visited(R)), NEW r, r = RunLen(R[v]), Mended(R, R2, v, r)
  PROVE  Found(R2) = Found(R)
<1>0. /\ DOMAIN R = lo..hi /\ lo \in Nat /\ hi \in Nat  BY RowsFacts
<1>1. /\ v \in lo..hi /\ r \in 0..SegCap /\ RunLen(R2[v]) = r
      /\ \A s \in (lo + 1)..v : s < v \/ r > 0 => ContinuesAt(R2, s)
      /\ v < hi => ~ContinuesAt(R2, v + 1)
  BY RepairRun
<1>2. PICK w \in lo..v : w = Max(Visited(R2)) /\ (w = v \/ (w = v - 1 /\ r = 0))
  <2>1. CASE v = lo \/ ContinuesAt(R2, v)
    <3>1. \A s \in (lo + 1)..v : ContinuesAt(R2, s)
      <4>1. \A s \in (lo + 1)..v : s < v \/ (s = v /\ v # lo)  BY <1>0, <1>1
      <4> QED  BY <4>1, <2>1, <1>1
    <3>2. Max(Visited(R2)) = v  BY <3>1, <1>1, VisitedAt
    <3>3. v \in lo..v  BY <1>0, <1>1
    <3> QED  BY <3>2, <3>3
  <2>2. CASE v # lo /\ ~ContinuesAt(R2, v)
    <3>1. v \in (lo + 1)..v /\ v - 1 \in lo..hi /\ v - 1 \in lo..v /\ v - 1 + 1 = v
          /\ \A s \in (lo + 1)..(v - 1) : s \in (lo + 1)..v /\ s < v
      BY <2>2, <1>0, <1>1
    <3>2. r = 0
      <4>1. ~(r > 0)  BY <3>1, <2>2, <1>1
      <4> QED  BY <4>1, <1>1
    <3>3. \A s \in (lo + 1)..(v - 1) : ContinuesAt(R2, s)  BY <3>1, <1>1
    <3>4. PICK u : u = v - 1  OBVIOUS
    <3>5. ~ContinuesAt(R2, u + 1)  BY <3>1, <3>4, <2>2
    <3>6. Max(Visited(R2)) = u  BY <3>1, <3>3, <3>4, <3>5, VisitedAt
    <3> QED  BY <3>1, <3>2, <3>4, <3>6
  <2> QED  BY <2>1, <2>2
<1>3. \A s \in lo..v : RunLen(R2[s]) = RunLen(R[s])
        /\ \A i \in 1..RunLen(R[s]) : R2[s][i] = R[s][i]
  <2> SUFFICES ASSUME NEW s \in lo..v
               PROVE  /\ RunLen(R2[s]) = RunLen(R[s])
                      /\ \A i \in 1..RunLen(R[s]) : R2[s][i] = R[s][i]
    OBVIOUS
  <2>1. CASE s < v
    <3>1. s \in DOMAIN R  BY <1>0, <1>1
    <3>2. R2[s] = R[s]  BY <3>1, <2>1 DEF Mended
    <3> QED  BY <3>2
  <2>2. CASE s = v
    <3>1. \A i \in 1..r : i \in 1..SegCap /\ i <= r  BY <1>1, Sizes
    <3>2. \A i \in 1..r : R2[v][i] = R[v][i]  BY <3>1 DEF Mended
    <3> QED  BY <3>2, <2>2, <1>1
  <2> QED  BY <2>1, <2>2, <1>0, <1>1
<1>4. \A x : x \in Found(R) <=>
        \E s \in lo..v : \E i \in 1..RunLen(R[s]) : R[s][i].part = 0 /\ x = Entry(R[s][i])
  BY FoundIn
<1>5. \A x : x \in Found(R2) <=>
        \E s \in lo..w : \E i \in 1..RunLen(R2[s]) : R2[s][i].part = 0 /\ x = Entry(R2[s][i])
  BY <1>2, FoundIn
<1>6. lo..w \subseteq lo..v /\ \A s \in lo..v : s \in lo..w \/ (s = v /\ r = 0)
  BY <1>0, <1>1, <1>2
<1>7. r = 0 => 1..RunLen(R[v]) = {}  OBVIOUS
<1>8. ASSUME NEW x \in Found(R) PROVE x \in Found(R2)
  <2>1. PICK s \in lo..v : \E i \in 1..RunLen(R[s]) : R[s][i].part = 0 /\ x = Entry(R[s][i])
    BY <1>4
  <2>2. PICK i \in 1..RunLen(R[s]) : R[s][i].part = 0 /\ x = Entry(R[s][i])  BY <2>1
  <2>3. s \in lo..w  BY <2>2, <1>6, <1>7
  <2>4. i \in 1..RunLen(R2[s]) /\ R2[s][i] = R[s][i]  BY <2>2, <1>3
  <2> QED  BY <2>2, <2>3, <2>4, <1>5
<1>9. ASSUME NEW x \in Found(R2) PROVE x \in Found(R)
  <2>1. PICK s \in lo..w : \E i \in 1..RunLen(R2[s]) : R2[s][i].part = 0 /\ x = Entry(R2[s][i])
    BY <1>5
  <2>2. PICK i \in 1..RunLen(R2[s]) : R2[s][i].part = 0 /\ x = Entry(R2[s][i])  BY <2>1
  <2>3. s \in lo..v  BY <1>6
  <2>4. i \in 1..RunLen(R[s]) /\ R2[s][i] = R[s][i]  BY <2>2, <2>3, <1>3
  <2> QED  BY <2>2, <2>3, <2>4, <1>4
<1> QED  BY <1>8, <1>9

--------------------------------
\* While a batch is under way, nothing is in the cells that wait for it,
\* and unless the card has dropped a write, the others hold its records.
\* Once recording has stopped, all there is behind the tail is a batch.

At(p) == Cells(p.seg)[p.at]
Waiting ==
  pc # "idle" =>
    \A k \in 1..Len(todo) : /\ k <= left => At(todo[k]) = Void
                            /\ ~lossy /\ k > left => At(todo[k]) = todo[k].rec
Orphans == stopped => \E p : IsJob(p) /\ LandsFor(Rows, tail, off, Base, p)

LEMMA PlanApart ==
  ASSUME NEW p, NEW T \in Nat, NEW O \in Nat, NEW a, NEW b, NEW q, PlanOf(p, T, O, a, b, q),
         NEW j \in 1..(a + b), NEW k \in 1..(a + b), j # k
  PROVE  p[j].seg # p[k].seg \/ p[j].at # p[k].at
<1>0. a \in Nat /\ b \in Nat  BY DEF PlanOf
<1>1. ASSUME NEW i \in 1..(a + b)
      PROVE  \/ i <= a /\ p[i].seg = T /\ p[i].at = O + i - 1
             \/ i > a /\ p[i].seg = T + 1 /\ p[i].at = i - a
  <2>1. CASE i <= a
    <3>1. i \in 1..a  BY <2>1, <1>0
    <3> QED  BY <3>1, <2>1 DEF PlanOf
  <2>2. CASE i > a
    <3>1. PICK l \in 1..b : i = a + l /\ l = i - a
      <4>1. i - a \in 1..b /\ i = a + (i - a)  BY <2>2, <1>0
      <4> QED  BY <4>1
    <3>2. p[a + l].seg = T + 1 /\ p[a + l].at = l  BY DEF PlanOf
    <3> QED  BY <3>1, <3>2, <2>2
  <2> QED  BY <2>1, <2>2, <1>0
<1>2. \/ j <= a /\ p[j].seg = T /\ p[j].at = O + j - 1
      \/ j > a /\ p[j].seg = T + 1 /\ p[j].at = j - a
  BY <1>1
<1>3. \/ k <= a /\ p[k].seg = T /\ p[k].at = O + k - 1
      \/ k > a /\ p[k].seg = T + 1 /\ p[k].at = k - a
  BY <1>1
<1> QED  BY <1>0, <1>2, <1>3

\* The cells of a batch are in rows that a reopen reads.
LEMMA JobCells ==
  ASSUME TypeInv, RingOK, tail # 0, NEW p, IsJob(p), NEW a, NEW b, NEW q,
         PlanOf(p, tail, off, a, b, q)
  PROVE  /\ a \in Nat /\ b \in Nat /\ Len(p) = a + b /\ a + b >= 1
         /\ b > 0 => tail + 1 \in Oldest..Newest
         /\ \A k \in 1..(a + b) : /\ p[k] \in Puts /\ p[k].seg \in Oldest..Newest
                                  /\ p[k].seg \in LiveIn(hdr) /\ p[k].at \in 1..SegCap
                                  /\ At(p[k]) = Rows[p[k].seg][p[k].at]
                                  /\ \/ p[k].seg = tail /\ p[k].at >= off
                                     \/ p[k].seg = tail + 1
<1>0. /\ tail \in Oldest..Newest /\ tail \in Nat \ {0} /\ off \in 1..(SegCap + 1) /\ SegCap \in Nat
      /\ \A s \in Oldest..Newest : Rows[s] = body[SlotOf(s)] /\ s \in LiveIn(hdr)
      /\ tail < last => tail + 1 \in Oldest..Newest
  BY TailRows, Sizes
<1>1. a \in Nat /\ b \in Nat /\ Len(p) = a + b /\ a + b >= 1  BY DEF PlanOf
<1>2. b > 0 => tail + 1 \in Oldest..Newest
  <2>1. ASSUME b > 0 PROVE tail < last  BY <2>1, PlanSpare
  <2> QED  BY <2>1, <1>0
<1>3. ASSUME NEW k \in 1..(a + b)
      PROVE  /\ p[k] \in Puts /\ p[k].seg \in Oldest..Newest
             /\ p[k].seg \in LiveIn(hdr) /\ p[k].at \in 1..SegCap
             /\ At(p[k]) = Rows[p[k].seg][p[k].at]
             /\ \/ p[k].seg = tail /\ p[k].at >= off
                \/ p[k].seg = tail + 1
  <2>1. p[k] \in Puts  BY DEF PlanOf
  <2>2. p[k].at \in 1..SegCap  BY <2>1 DEF Puts
  <2>3. \/ p[k].seg = tail /\ p[k].at >= off
        \/ p[k].seg = tail + 1 /\ b > 0
    <3>1. CASE k <= a
      <4>1. k \in 1..a  BY <3>1, <1>1
      <4>2. p[k].seg = tail /\ p[k].at = off + k - 1  BY <4>1 DEF PlanOf
      <4> QED  BY <4>1, <4>2, <1>0
    <3>2. CASE k > a
      <4>1. PICK j \in 1..b : k = a + j
        <5>1. k - a \in 1..b /\ k = a + (k - a)  BY <3>2, <1>1
        <5> QED  BY <5>1
      <4>2. p[a + j].seg = tail + 1  BY DEF PlanOf
      <4> QED  BY <4>1, <4>2, <1>1
    <3> QED  BY <3>1, <3>2, <1>1
  <2>4. p[k].seg \in Oldest..Newest  BY <2>3, <1>0, <1>2
  <2>5. Rows[p[k].seg] = body[SlotOf(p[k].seg)] /\ p[k].seg \in LiveIn(hdr)  BY <2>4, <1>0
  <2> QED  BY <2>1, <2>2, <2>3, <2>4, <2>5 DEF At, Cells
<1> QED  BY <1>1, <1>2, <1>3

LEMMA WaitingStarts ==
  TypeInv /\ RingOK /\ tail # 0 /\ Ready =>
    (pc # "idle" => \A k \in 1..Len(todo) : At(todo[k]) = Void)
<1> SUFFICES ASSUME TypeInv, RingOK, tail # 0, Ready, pc # "idle", NEW k \in 1..Len(todo)
             PROVE  At(todo[k]) = Void
  OBVIOUS
<1>1. IsJob(todo)  BY DEF TypeInv, JobOK
<1>2. PICK a \in Nat, b \in Nat : PlanOf(todo, tail, off, a, b, next - Len(pend))
  BY <1>1, JobIs
<1>3. k \in 1..(a + b) /\ IsRows(Rows, Oldest, Newest) /\ DOMAIN Rows = Oldest..Newest
  BY <1>1, <1>2, JobCells, TailRows
<1>4. /\ todo[k].seg \in Oldest..Newest /\ todo[k].at \in 1..SegCap
      /\ At(todo[k]) = Rows[todo[k].seg][todo[k].at]
      /\ \/ todo[k].seg = tail /\ todo[k].at >= off
         \/ todo[k].seg = tail + 1
  BY <1>1, <1>2, <1>3, JobCells
<1>5. Landing(Rows, tail, off, <<>>, 0, 0, Base)  BY DEF Ready
<1>6. CASE todo[k].seg = tail /\ todo[k].at >= off
  <2>1. \A i \in 1..SegCap : i >= off => Rows[tail][i] = Void \/ i < off + 0
    BY <1>5 DEF Landing
  <2>2. off \in Nat /\ todo[k].at \in Nat  BY <1>4, TailRows, Sizes
  <2> QED  BY <2>1, <2>2, <1>4, <1>6
<1>7. CASE todo[k].seg = tail + 1
  <2>1. tail + 1 \in DOMAIN Rows  BY <1>3, <1>4, <1>7
  <2>2. \A i \in 1..SegCap : Rows[tail + 1][i] = Void \/ i <= 0
    BY <2>1, <1>5 DEF Landing
  <2>3. ~(todo[k].at <= 0)
    <3>1. PICK i \in 1..SegCap : i = todo[k].at  BY <1>4
    <3> QED  BY <3>1, Sizes
  <2>4. Rows[tail + 1][todo[k].at] = Void  BY <2>2, <2>3, <1>4
  <2> QED  BY <2>4, <1>4, <1>7
<1> QED  BY <1>4, <1>6, <1>7

LEMMA WaitingStartsNext ==
  TypeInv' /\ RingOK' /\ tail' # 0 /\ Ready' =>
    (pc' # "idle" => \A k \in 1..Len(todo') : At(todo[k])' = Void)
<1>1. (TypeInv /\ RingOK /\ tail # 0 /\ Ready
        => (pc # "idle" => \A k \in 1..Len(todo) : At(todo[k]) = Void))'
  BY WaitingStarts, PTL
<1> QED  BY <1>1

\* When a batch begins, the place is free.
LEMMA BeginReady ==
  ASSUME TypeInv, RingOK, Content, Flush \/ Chain
  PROVE  Ready' /\ tail' # 0 /\ left' = Len(todo')
<1>0. tail # 0 /\ tail' = tail /\ pc = "idle" /\ pc' # "idle" /\ ~stopped /\ ~stopped'
      /\ off' = off /\ Base' = Base /\ left' = Len(todo')
  BY DEF Flush, Chain, MayChain, Recording, Begin, ram, Base
<1>1. Ready  BY <1>0 DEF Content, SessionOK, Ready
<1>2. CASE UNCHANGED <<hdr, ver, body>>
  <2>1. Rows' = Rows  BY <1>2, CardNow
  <2> QED  BY <2>1, <1>0, <1>1, <1>2 DEF Ready, Headed
<1>3. CASE Chain /\ tail < last /\ Rehead(tail + 1, 2)
  <2>1. UNCHANGED body /\ \E v \in 1..2 : Rehead(tail + 1, v) \/ Rehead(Free, v)
    <3>1. 2 \in 1..2  OBVIOUS
    <3> QED  BY <3>1, <1>3 DEF Chain
  <2>2. /\ CardOK' /\ LiveIn(hdr') # {}
        /\ Oldest <= Oldest' /\ tail \in Oldest'..Newest'
        /\ \A s \in Oldest'..Newest' : s <= Newest /\ body'[SlotOf(s)] = body[SlotOf(s)]
        /\ ver'[SlotOf(tail)] = ver[SlotOf(tail)]
    BY <2>1, <1>0, <1>3, ReheadCard
  <2>3. Ready'  BY <2>2, <1>0, NarrowReady
  <2> QED  BY <2>3, <1>0
<1> QED  BY <1>2, <1>3 DEF Flush, Chain, card

\* What a write makes of the cells of the batch.
LEMMA WriteCells ==
  ASSUME TypeInv, RingOK, Waiting, Writes
  PROVE  \E c \in {Void, todo[left].rec} :
           /\ \A k \in 1..Len(todo) :
                body'[SlotOf(todo[k].seg)][todo[k].at] = IF k = left THEN c ELSE At(todo[k])
           /\ WriteNext => c = todo[left].rec
           /\ WriteLost => c = Void
<1>1. /\ UNCHANGED <<hdr, ver>> /\ pc = "write" /\ left \in 1..Len(todo)
      /\ todo[left] \in Puts /\ todo[left].seg \in LiveIn(hdr) /\ IsJob(todo) /\ tail # 0
  BY WritesOne
<1>2. PICK a \in Nat, b \in Nat : PlanOf(todo, tail, off, a, b, next - Len(pend))
  BY <1>1, JobIs
<1>3. /\ Len(todo) = a + b
      /\ \A k \in 1..(a + b) : todo[k].seg \in LiveIn(hdr) /\ todo[k].at \in 1..SegCap
  <2>1. PICK q : q = next - Len(pend)  OBVIOUS
  <2>2. PlanOf(todo, tail, off, a, b, q)  BY <1>2, <2>1
  <2>3. Len(todo) = a + b  BY <1>2 DEF PlanOf
  <2>4. \A k \in 1..(a + b) : todo[k].seg \in LiveIn(hdr) /\ todo[k].at \in 1..SegCap
    <3> TAKE k \in 1..(a + b)
    <3> QED  BY <1>1, <2>2, JobCells
  <2> QED  BY <2>3, <2>4
<1>4. At(todo[left]) = Void  BY <1>1 DEF Waiting
<1>5. \E c \in {Void, todo[left].rec} :
         /\ Lands(todo[left], c)
         /\ WriteNext => c = todo[left].rec
         /\ WriteLost => c = Void
  <2>1. CASE WriteNext
    <3>1. Lands(todo[left], todo[left].rec)  BY <2>1 DEF WriteNext
    <3>2. ~WriteLost
      <4>1. left' = left - 1 /\ UNCHANGED mishaps  BY <2>1 DEF WriteNext
      <4>2. mishaps \in Nat  BY Sizes DEF TypeInv, HistoryOK
      <4> QED  BY <4>1, <4>2 DEF WriteLost, Mishap
    <3> QED  BY <3>1, <3>2
  <2>2. CASE WriteLost
    <3>1. PICK c \in {Cells(todo[left].seg)[todo[left].at], Void} : Lands(todo[left], c)
      BY <2>2 DEF WriteLost
    <3>2. c = Void  BY <3>1, <1>4 DEF At
    <3>3. ~WriteNext
      <4>1. mishaps' = mishaps + 1  BY <2>2 DEF WriteLost, Mishap
      <4>2. mishaps \in Nat  BY Sizes DEF TypeInv, HistoryOK
      <4> QED  BY <4>1, <4>2 DEF WriteNext, history
    <3> QED  BY <3>1, <3>2, <3>3
  <2>3. CASE ~WriteNext /\ ~WriteLost
    <3>1. PICK c \in {Cells(todo[left].seg)[todo[left].at], Void, todo[left].rec} :
               Lands(todo[left], c)
      BY WritesOne
    <3>2. c \in {Void, todo[left].rec}  BY <3>1, <1>4 DEF At
    <3> QED  BY <3>1, <3>2, <2>3
  <2> QED  BY <2>1, <2>2, <2>3
<1>6. PICK c \in {Void, todo[left].rec} :
         /\ Lands(todo[left], c)
         /\ WriteNext => c = todo[left].rec
         /\ WriteLost => c = Void
  BY <1>5
<1>7. \A z \in LiveIn(hdr), i \in 1..SegCap :
        body'[SlotOf(z)][i] = IF z = todo[left].seg /\ i = todo[left].at THEN c
                              ELSE body[SlotOf(z)][i]
  BY <1>1, <1>6, LandsCell
<1>8. ASSUME NEW k \in 1..Len(todo)
      PROVE  body'[SlotOf(todo[k].seg)][todo[k].at] = IF k = left THEN c ELSE At(todo[k])
  <2>1. body'[SlotOf(todo[k].seg)][todo[k].at] =
          IF todo[k].seg = todo[left].seg /\ todo[k].at = todo[left].at THEN c ELSE At(todo[k])
    BY <1>3, <1>7 DEF At, Cells
  <2>2. ASSUME k # left PROVE todo[k].seg # todo[left].seg \/ todo[k].at # todo[left].at
    <3>1. tail \in Nat /\ off \in Nat  BY Sizes DEF TypeInv, RamOK
    <3>2. k \in 1..(a + b) /\ left \in 1..(a + b)  BY <1>1, <1>3
    <3> QED  BY <3>1, <3>2, <2>2, <1>2, PlanApart
  <2> QED  BY <2>1, <2>2
<1> QED  BY <1>6, <1>8

\* Only a batch that begins or goes on is under way afterwards.
LEMMA JobMoves ==
  ASSUME [JournalNext]_vars, pc' # "idle"
  PROVE  Flush \/ Chain \/ WriteNext \/ WriteLost \/ UNCHANGED vars
<1>1. ASSUME Resting PROVE FALSE  BY <1>1 DEF Resting, job
<1>2. ASSUME Down PROVE FALSE  BY <1>2 DEF Down
<1>3. ASSUME JobOver PROVE FALSE  BY <1>3 DEF JobOver
<1>4. ~(\/ Open \/ OpenFails \/ OpenCut \/ RecordStep \/ TakeBack \/ ReheadFails \/ ReheadCut)
  BY <1>1, <1>2 DEF Open, OpenFails, OpenCut, RecordStep, TakeBack, ReheadFails, ReheadCut
<1>5. ~(\/ WriteFails \/ Verified \/ Unverified \/ PrepareFirst \/ PrepareFirstFails \/ PrepareSpare)
  BY <1>1, <1>2, <1>3
     DEF WriteFails, Verified, Unverified, PrepareFirst, PrepareFirstFails, PrepareSpare
<1>6. ~(\/ PrepareFails \/ PrepareCut \/ Crash \/ Clear \/ ClearCut)
  BY <1>1, <1>2 DEF PrepareFails, PrepareCut, Crash, Clear, ClearCut
<1> QED  BY <1>4, <1>5, <1>6 DEF JournalNext

LEMMA WaitingNext ==
  ASSUME TypeInv, RingOK, Content, Waiting, [JournalNext]_vars
  PROVE  Waiting'
<1> SUFFICES ASSUME pc' # "idle", NEW k \in 1..Len(todo')
             PROVE  /\ k <= left' => At(todo[k])' = Void
                    /\ ~lossy' /\ k > left' => At(todo[k])' = todo[k]'.rec
  BY DEF Waiting
<1>1. TypeInv' /\ RingOK'  BY BaseNext
<1>2. CASE Flush \/ Chain
  <2>1. Ready' /\ tail' # 0 /\ left' = Len(todo')  BY <1>2, BeginReady
  <2>2. At(todo[k])' = Void  BY <2>1, <1>1, WaitingStartsNext
  <2>3. ~(k > left')
    <3>1. left' \in 1..Len(todo') \/ left' = 0  BY <1>1 DEF TypeInv, JobOK
    <3>2. PICK n : n = Len(todo')  OBVIOUS
    <3>3. n \in 1..n \/ n = 0  BY <3>1, <3>2, <2>1
    <3>4. k \in 1..n  BY <3>2
    <3>5. n \in Int => ~(k > n)  BY <3>4
    <3>6. n \in Int  BY <3>3
    <3> QED  BY <3>2, <3>5, <3>6, <2>1
  <2> QED  BY <2>2, <2>3
<1>3. CASE WriteNext \/ WriteLost
  <2>0. /\ pc = "write" /\ todo' = todo /\ left' = left - 1 /\ left \in 1..Len(todo)
        /\ Len(todo) \in Nat /\ k \in 1..Len(todo) /\ k \in Nat
        /\ WriteNext => lossy' = lossy
        /\ WriteLost => lossy'
    <3>1. /\ pc = "write" /\ todo' = todo /\ left' = left - 1
          /\ WriteNext => lossy' = lossy
          /\ WriteLost => lossy'
      BY <1>3 DEF WriteNext, WriteLost, history
    <3>2. left \in 1..Len(todo)  BY <3>1 DEF TypeInv, JobOK
    <3>3. k \in 1..Len(todo)  BY <3>1
    <3>4. IsJob(todo) /\ tail # 0  BY <3>1 DEF TypeInv, JobOK
    <3>5. Len(todo) \in Nat  BY <3>4, JobSteps
    <3> QED  BY <3>1, <3>2, <3>3, <3>5
  <2>1. PICK c \in {Void, todo[left].rec} :
           /\ \A j \in 1..Len(todo) :
                body'[SlotOf(todo[j].seg)][todo[j].at] = IF j = left THEN c ELSE At(todo[j])
           /\ WriteNext => c = todo[left].rec
           /\ WriteLost => c = Void
    BY <1>3, WriteCells DEF Writes
  <2>2. At(todo[k])' = IF k = left THEN c ELSE At(todo[k])
    BY <2>0, <2>1 DEF At, Cells
  <2>3. /\ k <= left => At(todo[k]) = Void
        /\ ~lossy /\ k > left => At(todo[k]) = todo[k].rec
    BY <2>0 DEF Waiting
  <2>4. k <= left' => k <= left /\ k # left  BY <2>0
  <2>5. k > left' => k = left \/ k > left  BY <2>0
  <2>6. CASE WriteNext  BY <2>0, <2>1, <2>2, <2>3, <2>4, <2>5, <2>6
  <2>7. CASE WriteLost  BY <2>0, <2>1, <2>2, <2>3, <2>4, <2>5, <2>7
  <2> QED  BY <1>3, <2>6, <2>7
<1>4. CASE UNCHANGED vars
  <2>1. UNCHANGED <<pc, todo, left, lossy, body>>  BY <1>4 DEF vars, job, history, card
  <2> QED  BY <2>1 DEF Waiting, At, Cells
<1> QED  BY <1>2, <1>3, <1>4, JobMoves

LEMMA JobKept ==
  ASSUME NEW p, IsJob(p), UNCHANGED <<ver, tail, last, off, next, pend, made>>
  PROVE  IsJob(p)'
<1>1. /\ FlushPlan' = FlushPlan /\ (Fits <=> Fits') /\ (ToTail <=> ToTail') /\ (ToSpare <=> ToSpare')
      /\ ChainJob(tail, off)' = ChainJob(tail, off)
      /\ ChainJob(tail + 1, 1)' = ChainJob(tail + 1, 1)
  BY DEF FlushPlan, Fits, Room, ToTail, ToSpare, ChainJob
<1> QED  BY <1>1 DEF IsJob

\* Recording stops when a batch fails, and a stopped session does nothing more.
LEMMA StoppedMoves ==
  ASSUME TypeInv, ReadsBack, [JournalNext]_vars, stopped'
  PROVE  \/ WriteFails
         \/ Unverified /\ pc = "verify"
         \/ UNCHANGED vars
<1>1. ASSUME Down PROVE FALSE  BY <1>1 DEF Down
<1>2. ASSUME ~stopped, UNCHANGED stopped PROVE FALSE  BY <1>2
<1>3. pc # "idle" => ~stopped  BY DEF TypeInv, JobOK
<1>4. ~(\/ Open \/ OpenFails \/ OpenCut \/ RecordStep \/ TakeBack)
  BY <1>1, <1>2 DEF Open, Opened, OpenFails, OpenCut, RecordStep, TakeBack, Recording
<1>5. ~(\/ Flush \/ Chain \/ ReheadFails \/ ReheadCut)
  BY <1>1, <1>2 DEF Flush, Chain, ReheadFails, ReheadCut, MayChain, Recording, ram
<1>6. ~(\/ WriteNext \/ WriteLost \/ Verified)
  BY <1>2, <1>3 DEF WriteNext, WriteLost, Verified, ram
<1>7. ~(\/ PrepareFirst \/ PrepareFirstFails \/ PrepareSpare \/ PrepareFails \/ PrepareCut)
  BY <1>1, <1>2
     DEF PrepareFirst, PrepareFirstFails, PrepareSpare, PrepareFails, PrepareCut, SpareDue, Recording
<1>8. ~(\/ Crash \/ Clear \/ ClearCut)  BY <1>1 DEF Crash, Clear, ClearCut
<1>9. Unverified => pc = "verify"  BY DEF Unverified
<1> QED  BY <1>4, <1>5, <1>6, <1>7, <1>8, <1>9 DEF JournalNext

LEMMA OrphansNext ==
  ASSUME TypeInv, RingOK, Content, ReadsBack, Orphans, [JournalNext]_vars
  PROVE  Orphans'
<1> SUFFICES ASSUME stopped' PROVE \E p : IsJob(p)' /\ LandsFor(Rows', tail', off', Base', p)
  BY DEF Orphans, LandsFor
<1>1. CASE WriteFails
  <2>1. /\ LandsFor(Rows', tail, off, Base, todo) /\ UNCHANGED ver /\ IsJob(todo)
    BY <1>1, WriteKeeps, WritesOne DEF Writes
  <2>2. UNCHANGED <<tail, last, off, next, pend, made>>  BY <1>1 DEF WriteFails, history
  <2>3. IsJob(todo)' <=> IsJob(todo)'  OBVIOUS
  <2>4. Base' = Base  BY <2>2 DEF Base
  <2>5. PICK p : p = todo  OBVIOUS
  <2>6. IsJob(p)'  BY <2>1, <2>2, <2>5, JobKept
  <2> QED  BY <2>1, <2>2, <2>4, <2>5, <2>6
<1>2. CASE Unverified /\ pc = "verify"
  <2>1. /\ UNCHANGED <<card, ver, tail, last, off, next, pend, made>> /\ IsJob(todo)
        /\ tail # 0
    BY <1>2 DEF Unverified, history, card, TypeInv, JobOK
  <2>2. LandsFor(Rows, tail, off, Base, todo)  BY <2>1, <1>2 DEF Content, SessionOK
  <2>3. Base' = Base /\ Rows' = Rows  BY <2>1, CardNow DEF Base, card
  <2>5. PICK p : p = todo  OBVIOUS
  <2>6. IsJob(p)'  BY <2>1, <2>5, JobKept
  <2> QED  BY <2>1, <2>2, <2>3, <2>5, <2>6
<1>3. CASE UNCHANGED vars
  <2>1. UNCHANGED <<hdr, body, ver, tail, last, off, next, pend, made, stopped>>
    BY <1>3 DEF vars, card, ram, history
  <2>2. PICK p : IsJob(p) /\ LandsFor(Rows, tail, off, Base, p)  BY <2>1 DEF Orphans
  <2>3. Base' = Base /\ Rows' = Rows  BY <2>1, CardNow DEF Base
  <2>4. IsJob(p)'  BY <2>1, <2>2, JobKept
  <2> QED  BY <2>1, <2>2, <2>3, <2>4
<1> QED  BY <1>1, <1>2, <1>3, StoppedMoves

Batches == Waiting /\ Orphans
LEMMA BatchesHold == ReadsBack /\ JournalSpec => [](TypeInv /\ RingOK /\ Content /\ Batches)
<1>1. ReadsBack /\ JournalInit => TypeInv /\ RingOK /\ Content  BY BaseInit, ContentInit
<1>2. JournalInit => Batches  BY DEF JournalInit, Batches, Waiting, Orphans
<1>3. ReadsBack /\ TypeInv /\ RingOK /\ Content /\ Batches /\ [JournalNext]_vars
        => (TypeInv /\ RingOK /\ Content /\ Batches)'
  <2>1. TypeInv /\ RingOK /\ [JournalNext]_vars => TypeInv' /\ RingOK'  BY BaseNext
  <2>2. TypeInv /\ RingOK /\ Content /\ ReadsBack /\ [JournalNext]_vars => Content'
    BY ContentNext
  <2>3. TypeInv /\ RingOK /\ Content /\ Waiting /\ [JournalNext]_vars => Waiting'
    BY WaitingNext
  <2>4. TypeInv /\ RingOK /\ Content /\ ReadsBack /\ Orphans /\ [JournalNext]_vars => Orphans'
    BY OrphansNext
  <2> QED  BY <2>1, <2>2, <2>3, <2>4 DEF Batches
<1>4. ReadsBack => []ReadsBack
  <2>1. ReadsBack => ReadsBack'  BY DEF ReadsBack
  <2> QED  BY <2>1, PTL
<1> QED  BY <1>1, <1>2, <1>3, <1>4, PTL DEF JournalSpec

--------------------------------
\* The promise of a durable log, step by step: see DurableLog.

LEMMA RecoveredNow ==
  /\ LiveIn(hdr) = {} => Recovered = {}
  /\ LiveIn(hdr) # {} => Recovered = Found(Rows)
  /\ LiveIn(hdr') = {} => Recovered' = {}
  /\ LiveIn(hdr') # {} => Recovered' = Found(Rows')
<1>1. Recovered = UNION {Found(rows) : rows \in IF LiveIn(hdr) = {} THEN {} ELSE {Rows}}
  BY CardNow DEF Recovered
<1>2. Recovered' = UNION {Found(rows) : rows \in IF LiveIn(hdr') = {} THEN {} ELSE {Rows'}}
  BY CardNow DEF Recovered, Found, HeadsIn, Entry, Visited, ContinuesAt, ExpectAt, RunLen, WholeRun
<1>3. \A r : UNION {Found(rows) : rows \in {r}} = Found(r)  OBVIOUS
<1>4. UNION {Found(rows) : rows \in {}} = {}  OBVIOUS
<1> QED  BY <1>1, <1>2, <1>3, <1>4

\* The entries of the pending records.
Pending == {Entry(pend[i]) : i \in 1..Len(pend)}

LEMMA HandIdle ==
  TypeInv /\ pc = "idle" => InHand = Pending
<1> SUFFICES ASSUME TypeInv, pc = "idle" PROVE InHand = Pending
  OBVIOUS
<1>1. pend \in Seq(Rec) /\ \A i \in 1..Len(pend) : pend[i].part = 0
  <2>1. \A i \in 1..Len(pend) : pend[i] = Record(next - Len(pend) + i - 1, pend[i].step, 0, 1)
    BY DEF TypeInv, PendOK
  <2>2. pend \in Seq(Rec)  BY DEF TypeInv, PendOK
  <2>3. \A i \in 1..Len(pend) : pend[i].part = 0  BY <2>1, RecordIs
  <2> QED  BY <2>2, <2>3
<1>2. DOMAIN pend = 1..Len(pend)  BY <1>1
<1> QED  BY <1>1, <1>2 DEF InHand, Pending

\* The batch of a job, in hand.
LEMMA HandJob ==
  ASSUME TypeInv, tail # 0, NEW p, IsJob(p), NEW a, NEW b, NEW q,
         PlanOf(p, tail, off, a, b, q)
  PROVE  /\ pend # <<>> => Heads(Recs(p), a + b) = Pending
         /\ pend = <<>> => \A k \in 1..(a + b) : p[k].rec.part = k - 1 /\ p[k].rec.step = made
         /\ \A k \in 1..(a + b) : p[k].rec.step \in 1..made /\ p[k].rec \in Rec
         /\ pc # "idle" /\ p = todo => InHand = Heads(Recs(p), a + b)
<1>1. PICK a2 \in Nat, b2 \in Nat :
           /\ PlanOf(p, tail, off, a2, b2, next - Len(pend))
           /\ \A k \in 1..(a2 + b2) : p[k].rec.step \in 1..made
           /\ pend # <<>> => /\ Len(pend) = a2 + b2
                             /\ \A k \in 1..(a2 + b2) : p[k].rec = pend[k]
           /\ pend = <<>> => \A k \in 1..(a2 + b2) : p[k].rec.part = k - 1 /\ p[k].rec.step = made
  BY JobIs
<1>2. /\ a + b = a2 + b2 /\ DOMAIN p = 1..(a + b)
      /\ \A k \in 1..(a + b) : Recs(p)[k] = p[k].rec /\ p[k].rec \in Rec
  <2>1. Len(p) = a2 + b2  BY <1>1, RecsIs
  <2> QED  BY <2>1, RecsIs
<1>3. ASSUME pend # <<>> PROVE Heads(Recs(p), a + b) = Pending
  <2>1. \A k \in 1..(a + b) : Recs(p)[k] = pend[k] /\ Len(pend) = a + b  BY <1>1, <1>2, <1>3
  <2>2. \A k \in 1..Len(pend) : pend[k].part = 0
    <3>1. \A i \in 1..Len(pend) : pend[i] = Record(next - Len(pend) + i - 1, pend[i].step, 0, 1)
      BY DEF TypeInv, PendOK
    <3> QED  BY <3>1, RecordIs
  <2>3. Len(pend) = a + b  BY <1>1, <1>2, <1>3
  <2>4. \A x : x \in Heads(Recs(p), a + b) <=>
          \E k \in 1..(a + b) : pend[k].part = 0 /\ x = Entry(pend[k])
    BY <2>1, HeadsOf
  <2>5. \A x : x \in Pending <=> \E k \in 1..(a + b) : x = Entry(pend[k])  BY <2>3 DEF Pending
  <2> QED  BY <2>2, <2>3, <2>4, <2>5
<1>4. ASSUME pc # "idle", p = todo PROVE InHand = Heads(Recs(p), a + b)
  <2>1. InHand = {Entry(r) : r \in {h \in {p[i].rec : i \in 1..(a + b)} : h.part = 0}}
    BY <1>2, <1>4 DEF InHand
  <2>2. \A x : x \in InHand <=> \E k \in 1..(a + b) : p[k].rec.part = 0 /\ x = Entry(p[k].rec)
    BY <2>1
  <2>3. \A x : x \in Heads(Recs(p), a + b) <=>
          \E k \in 1..(a + b) : p[k].rec.part = 0 /\ x = Entry(p[k].rec)
    BY <1>2, HeadsOf
  <2> QED  BY <2>2, <2>3
<1> QED  BY <1>1, <1>2, <1>3, <1>4

LEMMA HandEntries ==
  TypeInv => InHand \subseteq Log!Entries
<1> SUFFICES ASSUME TypeInv, NEW x \in InHand PROVE x \in Log!Entries
  OBVIOUS
<1>0. made \in Nat /\ MaxSteps \in Nat /\ 1..made \subseteq 1..MaxSteps
  BY Sizes DEF TypeInv, HistoryOK
<1>1. \E r \in Rec : x = Entry(r) /\ r.step \in 1..made
  <2>1. CASE pc = "idle"
    <3>1. PICK i \in 1..Len(pend) : x = Entry(pend[i])  BY <2>1, HandIdle DEF Pending
    <3>2. pend[i] \in Rec /\ pend[i].step \in 1..made  BY DEF TypeInv, PendOK
    <3> QED  BY <3>1, <3>2
  <2>2. CASE pc # "idle"
    <3>1. IsJob(todo) /\ tail # 0  BY <2>2 DEF TypeInv, JobOK
    <3>2. PICK a \in Nat, b \in Nat : PlanOf(todo, tail, off, a, b, next - Len(pend))
      BY <3>1, JobIs
    <3>3. InHand = Heads(Recs(todo), a + b)  BY <3>1, <3>2, <2>2, HandJob
    <3>4. PICK k \in 1..(a + b) : x = Entry(Recs(todo)[k])  BY <3>3, HeadsOf
    <3>5. Recs(todo)[k] = todo[k].rec  BY <3>2, RecsIs
    <3>6. todo[k].rec \in Rec /\ todo[k].rec.step \in 1..made  BY <3>1, <3>2, HandJob
    <3> QED  BY <3>4, <3>5, <3>6
  <2> QED  BY <2>1, <2>2
<1>2. PICK r \in Rec : x = Entry(r) /\ r.step \in 1..made  BY <1>1
<1>3. r.seq \in Nat  BY DEF Rec
<1> QED  BY <1>0, <1>2, <1>3 DEF Entry, Log!Entries

LEMMA HandSame ==
  /\ UNCHANGED <<pc, pend, todo>> => InHand' = InHand
  /\ pc' = "idle" /\ pend' = <<>> => InHand' = {}
<1>1. UNCHANGED <<pc, pend, todo>> => InHand' = InHand  BY DEF InHand, Entry
<1>2. ASSUME pc' = "idle", pend' = <<>> PROVE InHand' = {}
  <2>1. DOMAIN pend' = {}  BY <1>2
  <2> QED  BY <2>1, <1>2 DEF InHand
<1> QED  BY <1>1, <1>2

\* What a reopen finds stays: the session records, takes back, begins, gives up.
LEMMA StageStep ==
  ASSUME TypeInv, RingOK, [JournalNext]_vars, Recovered' = Recovered, UNCHANGED acked
  PROVE  Log!Keep
<1>1. TypeInv'  BY BaseNext
<1>2. InHand' \subseteq Log!Entries
  <2>1. (TypeInv => InHand \subseteq Log!Entries)'  BY HandEntries, PTL
  <2> QED  BY <1>1, <2>1 DEF Log!Entries
<1>3. lossy' \in BOOLEAN  BY <1>1 DEF TypeInv, HistoryOK
<1> QED  BY <1>2, <1>3 DEF Log!Keep, Log!Stage

LEMMA CardKeeps ==
  ASSUME TypeInv, RingOK, [JournalNext]_vars, UNCHANGED <<hdr, body, acked>>
  PROVE  Log!Keep
<1>1. LiveIn(hdr') = LiveIn(hdr) /\ Rows' = Rows  BY CardNow
<1>2. Recovered' = Recovered  BY <1>1, RecoveredNow
<1> QED  BY <1>2, StageStep

\* A reopen, through or cut short.
LEMMA OpenSteps ==
  ASSUME TypeInv, RingOK, Open \/ OpenCut
  PROVE  Log!Keep
<1>1. UNCHANGED <<hdr, acked>> /\ [JournalNext]_vars
  BY DEF Open, OpenCut, history, JournalNext
<1>2. CASE LiveIn(hdr) = {}
  <2>1. Recovered' = Recovered  BY <1>1, <1>2, RecoveredNow
  <2> QED  BY <2>1, <1>1, StageStep
<1>3. CASE LiveIn(hdr) # {}
  <2>1. \E c \in Nat : body' = Repaired(Scan, c)
    <3>1. AllCells \in Nat  BY Sizes DEF AllCells
    <3>2. CASE Open
      <4>1. body' = Repaired(Scan, AllCells)  BY <3>2, <1>3, CardNow DEF Open, Opened
      <4> QED  BY <3>1, <4>1
    <3>3. CASE OpenCut
      <4>1. \E c \in 1..AllCells : body' = Repaired(Scan, c)  BY <3>3 DEF OpenCut
      <4> QED  BY <3>1, <4>1
    <3> QED  BY <3>2, <3>3
  <2>2. PICK c \in Nat : body' = Repaired(Scan, c)  BY <2>1
  <2>3. /\ IsRows(Rows, Oldest, Newest) /\ IsRows(Rows', Oldest, Newest)
        /\ Mended(Rows, Rows', Scan.tail, RunLen(Rows[Scan.tail]))
    BY <2>2, <1>1, <1>3, RepairMends DEF TypeInv
  <2>4. Scan.tail = Max(Visited(Rows))  BY <1>3, ScanIs DEF TypeInv
  <2>5. Found(Rows') = Found(Rows)  BY <2>3, <2>4, RepairFound
  <2>6. Recovered' = Recovered  BY <2>5, <1>1, <1>3, RecoveredNow
  <2> QED  BY <2>6, <1>1, StageStep
<1> QED  BY <1>2, <1>3

--------------------------------
\* With old rows gone, and blank ones behind the tail, the newest are left.

LEMMA NarrowFound ==
  ASSUME TypeInv, RingOK, Content, tail # 0, CardOK', LiveIn(hdr') # {},
         Oldest <= Oldest', tail \in Oldest'..Newest',
         \A s \in Oldest'..Newest' :
            \/ s <= Newest /\ body'[SlotOf(s)] = body[SlotOf(s)]
            \/ s > tail /\ Blanks(body'[SlotOf(s)], 0),
         pc = "idle", ~stopped
  PROVE  /\ Log!NewestOf(Recovered', Recovered)
         /\ Oldest = Oldest' => Recovered' = Recovered
         /\ \A i \in 1..(off - 1) :
              Rows[tail][i].part = 0 => Entry(Rows[tail][i]) \in Recovered'
<1>1. /\ IsRows(Rows', Oldest', Newest') /\ Settled(Rows', tail, off)
      /\ Landing(Rows', tail, off, <<>>, 0, 0, Base)
  BY NarrowCard
<1>2. /\ IsRows(Rows, Oldest, Newest) /\ tail \in Oldest..Newest /\ off \in 1..(SegCap + 1)
      /\ LiveIn(hdr) # {} /\ tail \in Nat
      /\ \A s \in Oldest..Newest : Rows[s] = body[SlotOf(s)]
  BY TailRows
<1>3. Settled(Rows, tail, off) /\ Landing(Rows, tail, off, <<>>, 0, 0, Base)
  BY DEF Content, SessionOK
<1>4. Recovered = Older(Rows, tail, off)
  <2>1. Found(Rows) = Older(Rows, tail, off)  BY <1>2, <1>3, RestFound
  <2> QED  BY <2>1, <1>2, RecoveredNow
<1>5. Recovered' = Older(Rows', tail, off)
  <2>1. Found(Rows') = Older(Rows', tail, off)  BY <1>1, <1>2, RestFound
  <2> QED  BY <2>1, RecoveredNow
<1>6. \A s \in Oldest'..tail : Rows'[s] = Rows[s]
  <2> TAKE s \in Oldest'..tail
  <2>1. PICK l \in Nat, h \in Nat : l = Oldest' /\ h = Newest'  BY <1>1, RowsFacts
  <2>2. Oldest \in Nat /\ Newest \in Nat  BY <1>2, RowsFacts
  <2>3. s \in l..h /\ s \in Oldest..Newest /\ ~(s > tail)  BY <2>1, <2>2, <1>2
  <2>4. body'[SlotOf(s)] = body[SlotOf(s)]  BY <2>1, <2>3
  <2>5. Rows'[s] = body'[SlotOf(s)]
    <3>1. body' \in [Slots -> Row]  BY DEF CardOK
    <3>2. \A x \in l..h : Rows'[x] = body'[SlotOf(x)]  BY <3>1, <2>1, RowsAre, CardNow
    <3> QED  BY <3>2, <2>3
  <2> QED  BY <2>3, <2>4, <2>5, <1>2
<1>7. PICK R2, lo2, hi2 : R2 = Rows' /\ lo2 = Oldest' /\ hi2 = Newest'  OBVIOUS
<1>8. /\ Older(R2, tail, off) \subseteq Older(Rows, tail, off)
      /\ \A x \in Older(Rows, tail, off) \ Older(R2, tail, off), y \in Older(R2, tail, off) :
           x.seq < y.seq
      /\ Oldest = lo2 => Older(R2, tail, off) = Older(Rows, tail, off)
  <2>1. IsRows(R2, lo2, hi2) /\ Oldest <= lo2 /\ tail \in lo2..hi2 /\ lo2 \in Nat
    BY <1>1, <1>7, RowsFacts
  <2>2. \A s \in lo2..(tail - 1) : R2[s] = Rows[s]
    <3>1. \A s \in lo2..(tail - 1) : s \in lo2..tail  BY <1>2, <2>1
    <3> QED  BY <3>1, <1>6, <1>7
  <2>3. \A i \in 1..(off - 1) : R2[tail][i] = Rows[tail][i]
    <3>1. tail \in lo2..tail  BY <1>2, <2>1
    <3> QED  BY <3>1, <1>6, <1>7
  <2> QED  BY <2>1, <2>2, <2>3, <1>2, <1>3, OlderNarrow
<1>9. ASSUME NEW i \in 1..(off - 1), Rows[tail][i].part = 0
      PROVE  Entry(Rows[tail][i]) \in Older(R2, tail, off)
  <2>1. tail \in DOMAIN R2 /\ tail \in Oldest'..tail  BY <1>1, <1>2, <1>7, RowsFacts
  <2>2. i \in 1..SegCap /\ i < off  BY <1>2, Sizes
  <2>3. Inside(R2, tail, off, tail, i)  BY <2>1, <2>2 DEF Inside
  <2> QED  BY <2>1, <2>3, <1>6, <1>7, <1>9, OlderIn
<1> QED  BY <1>4, <1>5, <1>7, <1>8, <1>9 DEF Log!NewestOf, Log!Before

\* Nothing on the card changes.
LEMMA QuietSteps ==
  ASSUME TypeInv, RingOK,
         \/ OpenFails \/ RecordStep \/ TakeBack \/ Flush \/ Unverified
         \/ (Crash /\ pc # "write") \/ UNCHANGED vars
  PROVE  Log!Keep
<1>1. [JournalNext]_vars  BY DEF JournalNext
<1>2. UNCHANGED <<hdr, body, acked>>
  <2>1. CASE OpenFails  BY <2>1 DEF OpenFails, card, history
  <2>2. CASE RecordStep  BY <2>2 DEF RecordStep, card
  <2>3. CASE TakeBack  BY <2>3 DEF TakeBack, card
  <2>4. CASE Flush  BY <2>4 DEF Flush, card
  <2>5. CASE Unverified  BY <2>5 DEF Unverified, card, history
  <2>6. CASE Crash /\ pc # "write"  BY <2>6 DEF Crash, history
  <2>7. CASE UNCHANGED vars  BY <2>7 DEF vars, card, history
  <2> QED  BY <2>1, <2>2, <2>3, <2>4, <2>5, <2>6, <2>7
<1> QED  BY <1>1, <1>2, CardKeeps

\* The header of the spare that a chain begins in says what it said.
LEMMA ChainSteps ==
  ASSUME TypeInv, RingOK, Chain
  PROVE  Log!Keep
<1>1. UNCHANGED <<body, acked>> /\ [JournalNext]_vars  BY DEF Chain, JournalNext
<1>2. hdr' = hdr
  <2>1. CASE UNCHANGED <<hdr, ver>>  BY <2>1
  <2>2. CASE tail < last /\ Rehead(tail + 1, 2)
    <3>1. tail # 0  BY DEF Chain, MayChain, Recording
    <3>2. tail + 1 \in LiveIn(hdr)  BY <2>2, <3>1, SpareLive
    <3>3. [hdr EXCEPT ![SlotOf(tail + 1)] = tail + 1] = hdr  BY <3>2, ReheadSame DEF TypeInv
    <3> QED  BY <2>2, <3>3 DEF Rehead
  <2> QED  BY <2>1, <2>2 DEF Chain
<1> QED  BY <1>1, <1>2, CardKeeps

\* A ring comes to be, or does not, and there is nothing in it.
LEMMA FirstSteps ==
  ASSUME TypeInv, RingOK, PrepareFirst \/ PrepareFirstFails
  PROVE  Log!Keep
<1>1. UNCHANGED acked /\ [JournalNext]_vars
  BY DEF PrepareFirst, PrepareFirstFails, history, JournalNext
<1>2. CASE PrepareFirstFails
  <2>1. Recovered' = Recovered  BY <1>2, BasePrepareFirstFails, RecoveredNow
  <2> QED  BY <1>1, <2>1, StageStep
<1>3. CASE PrepareFirst
  <2>0. /\ hdr' = [s \in Slots |-> IF s = 1 THEN 1 ELSE Free]
        /\ body' = [body EXCEPT ![1] = Blank] /\ body \in [Slots -> Row]
        /\ LiveIn(hdr) = {}
    BY <1>3 DEF PrepareFirst, TypeInv, CardOK, RingOK
  <2>1. /\ LiveIn(hdr') = {1} /\ Oldest' = 1 /\ Newest' = 1 /\ SlotOf(1) = 1 /\ 1 \in Slots
    BY <2>0, FirstRing, CardNow
  <2>2. /\ body' \in [Slots -> Row] /\ body'[1] = Blank  BY <2>0, <2>1, RecFacts
  <2>3. IsRows(Rows', 1, 1) /\ Rows'[1] = Blank
    <3>1. /\ IsRows(Rows', 1, 1) /\ DOMAIN Rows' = 1..1
          /\ \A s \in 1..1 : Rows'[s] = body'[SlotOf(s)]
      <4>1. LiveIn(hdr') # {} /\ OldestIn(hdr') = 1 /\ NewestIn(hdr') = 1  BY <2>1, CardNow
      <4>2. Rows' = RowsIn(hdr', body')  BY CardNow
      <4> QED  BY <4>1, <4>2, <2>2, RowsAre
    <3> QED  BY <3>1, <2>1, <2>2
  <2>4. RunLen(Blank) = 0
    <3>1. 0 \in 0..(SegCap - 1) /\ 0 + 1 \in 1..SegCap /\ SegCap \in Nat  BY Sizes
    <3>2. Blank[0 + 1] = Void  BY <3>1, BlankIs
    <3>3. RunLen(Blank) <= 0  BY <3>1, <3>2, RecFacts, RunEnds
    <3>4. RunLen(Blank) \in 0..SegCap  BY RunLenFact
    <3> QED  BY <3>1, <3>3, <3>4
  <2>5. Found(Rows') = {}
    <3>1. PICK R : R = Rows'  OBVIOUS
    <3>2. IsRows(R, 1, 1) /\ R[1] = Blank  BY <2>3, <3>1
    <3>3. Max(Visited(R)) \in 1..1  BY <3>2, VisitedFacts
    <3>4. PICK v : v = Max(Visited(R))  OBVIOUS
    <3>5. \A x : x \in Found(R) <=>
             \E s \in 1..v : \E i \in 1..RunLen(R[s]) : R[s][i].part = 0 /\ x = Entry(R[s][i])
      BY <3>2, <3>4, FoundIn
    <3>6. \A s \in 1..v : 1..RunLen(R[s]) = {}
      <4>1. v = 1  BY <3>3, <3>4
      <4>2. \A s \in 1..v : s = 1  BY <4>1
      <4> QED  BY <4>2, <3>2, <2>4
    <3>7. Found(R) = {}  BY <3>5, <3>6
    <3> QED  BY <3>1, <3>7
  <2>6. Recovered' = {} /\ Recovered = {}  BY <2>0, <2>1, <2>5, RecoveredNow
  <2>7. Recovered' = Recovered  BY <2>6
  <2> QED  BY <1>1, <2>7, StageStep
<1> QED  BY <1>2, <1>3

\* The oldest steps are given up for a new spare.
LEMMA ForgetSteps ==
  ASSUME TypeInv, RingOK, Content, Retains
  PROVE  Log!Forget /\ InTail \subseteq Recovered'
<1>0. /\ tail # 0 /\ pc = "idle" /\ ~stopped /\ UNCHANGED acked /\ CardOK' /\ SpareDue
      /\ lossy' \in BOOLEAN
  <2>1. TypeInv'  BY BaseNext DEF JournalNext, Retains
  <2>2. CardOK' /\ lossy' \in BOOLEAN  BY <2>1 DEF TypeInv, HistoryOK
  <2>3. tail # 0 /\ pc = "idle" /\ ~stopped /\ SpareDue /\ UNCHANGED acked
    BY DEF Retains, PrepareSpare, PrepareFails, PrepareCut, SpareDue, Recording, history
  <2> QED  BY <2>2, <2>3
<1>1. /\ LiveIn(hdr') # {} /\ Oldest <= Oldest' /\ tail \in Oldest'..Newest'
      /\ \A s \in Oldest'..Newest' :
            \/ s <= Newest /\ body'[SlotOf(s)] = body[SlotOf(s)]
            \/ s > tail /\ Blanks(body'[SlotOf(s)], 0)
  <2>1. PICK n \in 0..ToRetire :
           \/ PartlyPrepared(n)
           \/ /\ n = ToRetire /\ CanActivate
              /\ hdr' = [Retired(n) EXCEPT ![NextSlot] = last + 1]
              /\ ver' = [ver EXCEPT ![NextSlot] = ver[SlotOf(last)]]
              /\ body' = [body EXCEPT ![NextSlot] = Blank]
    <3>1. ToRetire \in 0..ToRetire
      <4>1. ToRetire \in 0..(tail - first)  BY <1>0, ToRetireIs
      <4> QED  BY <4>1
    <3> QED  BY <3>1 DEF Retains, PrepareSpare, PrepareFails, PrepareCut
  <2> QED  BY <1>0, <2>1, PrepareCard
<1>2. /\ Log!NewestOf(Recovered', Recovered)
      /\ \A i \in 1..(off - 1) :
           Rows[tail][i].part = 0 => Entry(Rows[tail][i]) \in Recovered'
  BY <1>0, <1>1, NarrowFound
<1>3. InHand' \in {InHand, {}}
  <2>1. CASE PrepareSpare \/ PrepareFails
    <3>1. UNCHANGED <<pc, pend, todo>>
      BY <2>1 DEF PrepareSpare, PrepareFails, Resting, job
    <3> QED  BY <3>1, HandSame
  <2>2. CASE PrepareCut
    <3>1. pc' = "idle" /\ pend' = <<>>  BY <2>2 DEF PrepareCut, Down
    <3> QED  BY <3>1, HandSame
  <2> QED  BY <2>1, <2>2 DEF Retains
<1>4. Rows[tail] = body[SlotOf(tail)]  BY <1>0, TailRows
<1> QED  BY <1>0, <1>2, <1>3, <1>4 DEF Log!Forget, InTail, Cells

\* The header of the empty spare is lost, and nothing with it.
LEMMA ReheadSteps ==
  ASSUME TypeInv, RingOK, Content, ReheadFails \/ ReheadCut
  PROVE  Log!Keep
<1>0. /\ tail # 0 /\ pc = "idle" /\ ~stopped /\ UNCHANGED <<acked, body>> /\ tail < last
      /\ \E v \in 1..2 : Rehead(tail + 1, v) \/ Rehead(Free, v)
  BY DEF ReheadFails, ReheadCut, MayChain, Recording, history
<1>1. [JournalNext]_vars  BY DEF JournalNext
<1>2. CardOK' /\ LiveIn(hdr') # {} /\ Oldest' = Oldest /\ Oldest <= Oldest'
      /\ tail \in Oldest'..Newest'
      /\ \A s \in Oldest'..Newest' : s <= Newest /\ body'[SlotOf(s)] = body[SlotOf(s)]
  BY <1>0, ReheadCard
<1>3. Recovered' = Recovered  BY <1>0, <1>2, NarrowFound
<1> QED  BY <1>0, <1>1, <1>3, StageStep

--------------------------------
\* A write changes nothing in front of the place of the batch.

LEMMA WriteOlder ==
  ASSUME TypeInv, RingOK, Content, Writes
  PROVE  /\ Older(Rows', tail, off) = Older(Rows, tail, off)
         /\ IsRows(Rows', Oldest, Newest)
         /\ \A s \in Oldest..Newest : Rows'[s] = body'[SlotOf(s)]
<1>0. /\ UNCHANGED hdr /\ left \in 1..Len(todo) /\ todo[left] \in Puts /\ tail # 0
      /\ todo[left].seg \in LiveIn(hdr) /\ IsJob(todo) /\ pc # "idle"
  BY WritesOne
<1>1. PICK c : Lands(todo[left], c)  BY WritesOne
<1>2. /\ IsRows(Rows, Oldest, Newest) /\ tail \in Oldest..Newest /\ tail \in Nat
      /\ off \in 1..(SegCap + 1) /\ SegCap \in Nat
      /\ \A s \in Oldest..Newest : Rows[s] = body[SlotOf(s)] /\ s \in LiveIn(hdr)
      /\ Settled(Rows, tail, off) /\ Oldest \in Nat /\ Newest \in Nat
  BY <1>0, TailRows, Sizes, RowsFacts DEF Content, SessionOK
<1>3. IsRows(Rows', Oldest, Newest)  BY WriteKeeps
<1>4. \A s \in Oldest..Newest : Rows'[s] = body'[SlotOf(s)]
  BY <1>0, CardNow DEF RowsIn
<1>5. PICK a, b : PlanOf(todo, tail, off, a, b, Base)
  BY <1>0 DEF Content, SessionOK, LandsFor
<1>6. \/ todo[left].seg = tail /\ todo[left].at >= off
      \/ todo[left].seg = tail + 1
  <2>1. Len(todo) = a + b  BY <1>0, <1>5, JobCells
  <2> QED  BY <2>1, <1>0, <1>5, JobCells
<1>7. \A s \in Oldest..tail, i \in 1..SegCap : s < tail \/ i < off => Rows'[s][i] = Rows[s][i]
  <2> SUFFICES ASSUME NEW s \in Oldest..tail, NEW i \in 1..SegCap, s < tail \/ i < off
               PROVE  Rows'[s][i] = Rows[s][i]
    OBVIOUS
  <2>1. s \in Oldest..Newest /\ s \in Nat  BY <1>2
  <2>2. ~(s = todo[left].seg /\ i = todo[left].at)  BY <2>1, <1>2, <1>6
  <2>3. body'[SlotOf(s)][i] = body[SlotOf(s)][i]  BY <2>1, <2>2, <1>0, <1>1, <1>2, LandsCell
  <2> QED  BY <2>1, <2>3, <1>2, <1>4
<1>8. PICK R2 : R2 = Rows'  OBVIOUS
<1>9. Older(R2, tail, off) = Older(Rows, tail, off)
  <2>1. IsRows(R2, Oldest, Newest)  BY <1>3, <1>8
  <2>2. \A s \in Oldest..(tail - 1) : R2[s] = Rows[s]
    <3> TAKE s \in Oldest..(tail - 1)
    <3>1. s \in Oldest..Newest /\ s \in Oldest..tail /\ s < tail  BY <1>2
    <3>2. R2[s] \in Row /\ Rows[s] \in Row  BY <3>1, <2>1, <1>2, RowsFacts
    <3> QED  BY <3>1, <3>2, <1>7, <1>8, RowSame
  <2>3. \A i \in 1..(off - 1) : R2[tail][i] = Rows[tail][i]
    <3>1. tail \in Oldest..tail  BY <1>2
    <3>2. \A i \in 1..(off - 1) : i \in 1..SegCap /\ i < off  BY <1>2
    <3> QED  BY <3>1, <3>2, <1>7, <1>8
  <2> QED  BY <2>1, <2>2, <2>3, <1>2, OlderNarrow
<1> QED  BY <1>3, <1>4, <1>8, <1>9

\* The batch in hand stays so or, when the job is given up, is lost.
LEMMA WriteHand ==
  ASSUME TypeInv, RingOK, Writes
  PROVE  InHand' \in {InHand, {}} /\ UNCHANGED acked /\ lossy' \in BOOLEAN
<1>0. /\ pc = "write" /\ tail # 0 /\ IsJob(todo)  BY WritesOne
<1>1. UNCHANGED acked  BY DEF Writes, WriteNext, WriteLost, WriteFails, Crash, history
<1>2. TypeInv' /\ [JournalNext]_vars  BY BaseNext DEF JournalNext, Writes
<1>3. lossy' \in BOOLEAN  BY <1>2 DEF TypeInv, HistoryOK
<1>4. CASE WriteNext \/ WriteLost
  <2>1. pc' # "idle" /\ todo' = todo  BY <1>4 DEF WriteNext, WriteLost
  <2>2. InHand' = InHand  BY <2>1, <1>0 DEF InHand, Entry
  <2> QED  BY <2>2, <1>1, <1>3
<1>5. CASE WriteFails
  <2>1. pc' = "idle" /\ pend' = pend  BY <1>5 DEF WriteFails, JobOver
  <2>2. InHand' = Pending
    <3>1. (TypeInv /\ pc = "idle" => InHand = Pending)'  BY HandIdle, PTL
    <3>2. Pending' = Pending  BY <2>1 DEF Pending, Entry
    <3> QED  BY <3>1, <3>2, <2>1, <1>2
  <2>3. CASE pend # <<>>
    <3>1. PICK a \in Nat, b \in Nat : PlanOf(todo, tail, off, a, b, next - Len(pend))
      BY <1>0, JobIs
    <3>2. Heads(Recs(todo), a + b) = Pending  BY <3>1, <2>3, <1>0, HandJob
    <3>3. InHand = Heads(Recs(todo), a + b)  BY <3>1, <1>0, HandJob
    <3> QED  BY <3>2, <3>3, <2>2, <1>1, <1>3
  <2>4. CASE pend = <<>>
    <3>1. pend' = <<>>  BY <2>1, <2>4
    <3> QED  BY <3>1, <2>1, <1>1, <1>3, HandSame
  <2> QED  BY <2>3, <2>4
<1>6. CASE Crash
  <2>1. pc' = "idle" /\ pend' = <<>>  BY <1>6 DEF Crash, Down
  <2> QED  BY <2>1, <1>1, <1>3, HandSame
<1> QED  BY <1>4, <1>5, <1>6 DEF Writes

\* A batch gets on the card with its first record, and not before: as a whole,
\* unless the card dropped another of its records.
LEMMA WriteSteps ==
  ASSUME TypeInv, RingOK, Content, Waiting, Writes
  PROVE  Log!Keep
<1>0. /\ UNCHANGED hdr /\ left \in 1..Len(todo) /\ tail # 0 /\ IsJob(todo) /\ pc # "idle"
      /\ [JournalNext]_vars
  BY WritesOne DEF JournalNext, Writes
<1>1. PICK a, b : /\ PlanOf(todo, tail, off, a, b, Base)
                  /\ Landing(Rows, tail, off, Recs(todo), a, b, Base)
  BY <1>0 DEF Content, SessionOK, LandsFor
<1>2. /\ IsRows(Rows, Oldest, Newest) /\ tail \in Oldest..Newest /\ off \in 1..(SegCap + 1)
      /\ Settled(Rows, tail, off) /\ LiveIn(hdr) # {} /\ Base \in Nat
  BY <1>0, TailRows DEF Content, SessionOK
<1>3. /\ a \in Nat /\ b \in Nat /\ Len(todo) = a + b /\ a + b >= 1
      /\ \A k \in 1..(a + b) : /\ todo[k].seg \in Oldest..Newest
                               /\ At(todo[k]) = Rows[todo[k].seg][todo[k].at]
                               /\ Recs(todo)[k] = todo[k].rec /\ todo[k].rec # Void
                               /\ Recs(todo)[k].seq = Base + k - 1
  <2>1. \A k \in 1..(a + b) : todo[k].rec # Void /\ todo[k].rec.seq = Base + k - 1
    BY <1>1 DEF PlanOf
  <2>2. \A k \in 1..(a + b) : Recs(todo)[k] = todo[k].rec  BY <1>1, RecsIs
  <2> QED  BY <2>1, <2>2, <1>0, <1>1, JobCells
<1>4. PICK n \in Nat : n = a + b /\ n >= 1 /\ 1 \in 1..n  BY <1>3
<1>5. InHand = Heads(Recs(todo), n)  BY <1>0, <1>1, <1>4, HandJob
\* Before the write, nothing of the batch is found.
<1>6. Recovered = Older(Rows, tail, off)
  <2>1. PICK m \in 0..(a + b) :
          Found(Rows) = Older(Rows, tail, off) \cup Heads(Recs(todo), m) /\ Lies(Rows, todo, m)
    BY <1>1, <1>2, FoundPlan
  <2>2. m = 0
    <3> SUFFICES ASSUME m # 0 PROVE FALSE
      OBVIOUS
    <3>1. 1 \in 1..m /\ 1 \in 1..(a + b) /\ 1 <= left /\ 1 \in 1..Len(todo)
      BY <1>0, <1>3, <2>1
    <3>2. Rows[todo[1].seg][todo[1].at] = todo[1].rec  BY <3>1, <2>1 DEF Lies
    <3>3. At(todo[1]) = Void  BY <3>1, <1>0 DEF Waiting
    <3> QED  BY <3>1, <3>2, <3>3, <1>3
  <2>3. Heads(Recs(todo), 0) = {}
    <3>1. \A x : x \notin Heads(Recs(todo), 0)
      <4>1. 1..0 = {}  OBVIOUS
      <4> QED  BY <4>1, HeadsOf
    <3> QED  BY <3>1
  <2> QED  BY <2>1, <2>2, <2>3, <1>2, RecoveredNow
\* After it, its first m records are.
<1>7. PICK R2 : R2 = Rows'  OBVIOUS
<1>8. /\ IsRows(R2, Oldest, Newest) /\ Older(R2, tail, off) = Older(Rows, tail, off)
      /\ Settled(R2, tail, off) /\ LandsFor(R2, tail, off, Base, todo)
      /\ \A s \in Oldest..Newest : R2[s] = body'[SlotOf(s)]
  <2>1. Settled(R2, tail, off) /\ LandsFor(R2, tail, off, Base, todo)  BY <1>7, WriteKeeps
  <2> QED  BY <2>1, <1>7, WriteOlder
<1>9. PICK m \in 0..n :
        /\ Found(R2) = Older(Rows, tail, off) \cup Heads(Recs(todo), m) /\ Lies(R2, todo, m)
        /\ Lies(R2, todo, n) => m = n
  <2>1. PICK a2, b2 : /\ PlanOf(todo, tail, off, a2, b2, Base)
                      /\ Landing(R2, tail, off, Recs(todo), a2, b2, Base)
    BY <1>8 DEF LandsFor
  <2>2. a2 + b2 = n
    <3>1. Len(todo) = a2 + b2  BY <2>1, RecsIs
    <3> QED  BY <3>1, <1>3, <1>4
  <2>3. \E m \in 0..(a2 + b2) :
           /\ Found(R2) = Older(R2, tail, off) \cup Heads(Recs(todo), m) /\ Lies(R2, todo, m)
           /\ Lies(R2, todo, a2 + b2) => m = a2 + b2
    BY <2>1, <1>2, <1>8, FoundPlan
  <2> QED  BY <2>2, <2>3, <1>8
<1>10. Recovered' = Recovered \cup Heads(Recs(todo), m)
  <2>1. Recovered' = Found(R2)  BY <1>0, <1>2, <1>7, RecoveredNow
  <2> QED  BY <2>1, <1>6, <1>9
<1>11. /\ Heads(Recs(todo), m) \subseteq InHand
       /\ \A x \in InHand : x.seq \in Nat /\ x.seq >= Base
       /\ \A x \in Heads(Recs(todo), m), y \in InHand \ Heads(Recs(todo), m) : x.seq < y.seq
  <2> DEFINE e == Recs(todo)
  <2>1. \A k \in 1..n : e[k].seq = Base + k - 1  BY <1>3, <1>4
  <2> HIDE DEF e
  <2>2. /\ Heads(e, m) \subseteq Heads(e, n)
        /\ \A x \in Heads(e, n) : x.seq \in Nat /\ x.seq >= Base
        /\ \A x \in Heads(e, m), y \in Heads(e, n) \ Heads(e, m) : x.seq < y.seq
    BY <2>1, <1>2, <1>9, HeadsRise
  <2> QED  BY <2>2, <1>5 DEF e
<1>12. \A x \in Recovered : x.seq \in Nat /\ x.seq < Base
  <2>1. ExpectThere(Rows, tail, off) \subseteq {Base}  BY <1>1 DEF Landing
  <2> QED  BY <2>1, <1>2, <1>6, OlderBelow
<1>13. Log!Before(Recovered, InHand)
  <2> SUFFICES ASSUME NEW x \in Recovered, NEW y \in InHand PROVE x.seq < y.seq
    BY DEF Log!Before
  <2>1. x.seq \in Nat /\ y.seq \in Nat /\ x.seq < Base /\ y.seq >= Base  BY <1>11, <1>12
  <2> QED  BY <2>1, <1>2
<1>14. Log!OldestOf(Recovered' \ Recovered, InHand)
  <2>1. \A x \in Heads(Recs(todo), m) : x \notin Recovered
    <3> SUFFICES ASSUME NEW x \in Heads(Recs(todo), m), x \in Recovered PROVE FALSE
      OBVIOUS
    <3>1. x.seq \in Nat /\ x.seq < Base /\ x.seq >= Base  BY <1>11, <1>12
    <3> QED  BY <3>1, <1>2
  <2>2. Recovered' \ Recovered = Heads(Recs(todo), m)  BY <2>1, <1>10
  <2> QED  BY <2>2, <1>11 DEF Log!OldestOf, Log!Before
<1>15. ASSUME m # 0, ~lossy' PROVE InHand \subseteq Recovered'
  <2>1. PICK c \in {Void, todo[left].rec} :
           \A k \in 1..Len(todo) :
              body'[SlotOf(todo[k].seg)][todo[k].at] = IF k = left THEN c ELSE At(todo[k])
    BY WriteCells
  <2>2. \A k \in 1..n : R2[todo[k].seg][todo[k].at] = IF k = left THEN c ELSE At(todo[k])
    BY <2>1, <1>3, <1>4, <1>8
  <2>3. R2[todo[1].seg][todo[1].at] = todo[1].rec /\ todo[1].rec # Void
    <3>1. 1 \in 1..m /\ 1 \in 1..(a + b)  BY <1>4, <1>9, <1>15
    <3> QED  BY <3>1, <1>3, <1>9 DEF Lies
  <2>4. left = 1
    <3> SUFFICES ASSUME left # 1 PROVE FALSE
      OBVIOUS
    <3>1. At(todo[1]) = todo[1].rec  BY <2>2, <2>3, <1>4
    <3>2. 1 \in 1..Len(todo) /\ 1 <= left  BY <1>0, <1>3
    <3> QED  BY <3>1, <3>2, <2>3, <1>0 DEF Waiting
  <2>5. ~lossy  BY <1>15 DEF Writes, WriteNext, WriteLost, WriteFails, Crash, history
  <2>6. Lies(R2, todo, n)
    <3> SUFFICES ASSUME NEW k \in 1..n PROVE R2[todo[k].seg][todo[k].at] = todo[k].rec
      <4>1. DOMAIN R2 = Oldest..Newest  BY <1>8, RowsFacts
      <4> QED  BY <4>1, <1>3, <1>4 DEF Lies
    <3>1. CASE k = 1  BY <3>1, <2>3
    <3>2. CASE k # 1
      <4>1. k > left /\ k \in 1..Len(todo)  BY <3>2, <2>4, <1>3, <1>4
      <4>2. At(todo[k]) = todo[k].rec  BY <4>1, <2>5, <1>0 DEF Waiting
      <4> QED  BY <4>2, <3>2, <2>2, <2>4
    <3> QED  BY <3>1, <3>2
  <2>7. m = n  BY <2>6, <1>9
  <2> QED  BY <2>7, <1>5, <1>10
<1>16. InHand' \in {InHand, {}} /\ UNCHANGED acked /\ lossy' \in BOOLEAN  BY WriteHand
<1>17. CASE m = 0
  <2>1. Heads(Recs(todo), m) = {}
    <3>1. \A x : x \notin Heads(Recs(todo), 0)
      <4>1. 1..0 = {}  OBVIOUS
      <4> QED  BY <4>1, HeadsOf
    <3> QED  BY <3>1, <1>17
  <2>2. Recovered' = Recovered  BY <2>1, <1>10
  <2> QED  BY <2>2, <1>0, <1>16, StageStep
<1>18. CASE m # 0
  <2>1. Recovered \subseteq Recovered'  BY <1>10
  <2> QED  BY <2>1, <1>13, <1>14, <1>15, <1>16, <1>18 DEF Log!Keep, Log!Commit
<1> QED  BY <1>17, <1>18

\* What the session is told is on the card is what a reopen ends with.
LEMMA AckSteps ==
  ASSUME TypeInv, RingOK, Content, Verified
  PROVE  Log!Keep
<1>0. /\ pc = "verify" /\ pc # "idle" /\ IsJob(todo) /\ tail # 0 /\ UNCHANGED <<hdr, body, lossy>>
      /\ lossy \in BOOLEAN /\ pc' = "idle" /\ pend' = <<>>
      /\ acked' = acked \cup {todo[i].rec.step : i \in 1..Len(todo)}
  BY DEF Verified, card, JobOver, TypeInv, JobOK, HistoryOK
<1>1. PICK a, b : /\ PlanOf(todo, tail, off, a, b, Base)
                  /\ Landing(Rows, tail, off, Recs(todo), a, b, Base)
                  /\ Lies(Rows, todo, a + b)
  BY ContentVerified
<1>2. /\ IsRows(Rows, Oldest, Newest) /\ tail \in Oldest..Newest /\ off \in 1..(SegCap + 1)
      /\ Settled(Rows, tail, off) /\ LiveIn(hdr) # {} /\ Base \in Nat
  BY <1>0, TailRows DEF Content, SessionOK
<1>3. /\ a + b \in Nat /\ a + b >= 1 /\ Len(todo) = a + b
      /\ \A k \in 1..(a + b) : Recs(todo)[k] = todo[k].rec /\ todo[k].rec.seq = Base + k - 1
  <2>1. a + b >= 1 /\ \A k \in 1..(a + b) : todo[k].rec.seq = Base + k - 1  BY <1>1 DEF PlanOf
  <2>2. a + b \in Nat /\ Len(todo) = a + b /\ \A k \in 1..(a + b) : Recs(todo)[k] = todo[k].rec
    BY <1>1, RecsIs
  <2> QED  BY <2>1, <2>2
<1>4. PICK n \in Nat : n = a + b /\ n >= 1 /\ 1 \in 1..n  BY <1>3
<1>5. InHand = Heads(Recs(todo), n)  BY <1>0, <1>1, <1>4, HandJob
<1>6. Recovered = Older(Rows, tail, off) \cup InHand
  <2>1. PICK m \in 0..(a + b) :
          /\ Found(Rows) = Older(Rows, tail, off) \cup Heads(Recs(todo), m)
          /\ Lies(Rows, todo, a + b) => m = a + b
    BY <1>1, <1>2, FoundPlan
  <2> QED  BY <2>1, <1>1, <1>2, <1>4, <1>5, RecoveredNow
<1>7. Recovered' = Recovered
  <2>1. Rows' = Rows /\ LiveIn(hdr') = LiveIn(hdr)  BY <1>0, CardNow
  <2> QED  BY <2>1, RecoveredNow
<1>8. \A x \in InHand : x.seq \in Nat /\ x.seq >= Base
  <2> DEFINE e == Recs(todo)
  <2>1. \A k \in 1..n : e[k].seq = Base + k - 1  BY <1>3, <1>4
  <2>2. 0 \in 0..n  OBVIOUS
  <2> HIDE DEF e
  <2>3. \A x \in Heads(e, n) : x.seq \in Nat /\ x.seq >= Base
    BY <2>1, <2>2, <1>2, HeadsRise
  <2> QED  BY <2>3, <1>5 DEF e
<1>9. \A x \in Older(Rows, tail, off) : x.seq < Base /\ x.seq \in Nat
  <2>1. ExpectThere(Rows, tail, off) \subseteq {Base}  BY <1>1 DEF Landing
  <2> QED  BY <2>1, <1>2, OlderBelow
<1>10. Log!Before(Recovered \ InHand, InHand)
  <2> SUFFICES ASSUME NEW x \in Older(Rows, tail, off), NEW y \in InHand PROVE x.seq < y.seq
    BY <1>6 DEF Log!Before
  <2>1. x.seq < Base /\ x.seq \in Nat /\ y.seq \in Nat /\ y.seq >= Base  BY <1>8, <1>9
  <2> QED  BY <2>1, <1>2
\* Every step of the batch has its head in it.
<1>11. \A k \in 1..n : \E j \in 1..n : todo[j].rec.part = 0 /\ todo[j].rec.step = todo[k].rec.step
  <2>1. CASE pend # <<>>
    <3>1. PICK a2 \in Nat, b2 \in Nat : /\ PlanOf(todo, tail, off, a2, b2, next - Len(pend))
                                        /\ Len(pend) = a2 + b2
                                        /\ \A k \in 1..(a2 + b2) : todo[k].rec = pend[k]
      BY <2>1, <1>0, JobIs
    <3>2. Len(todo) = a2 + b2  BY <3>1, RecsIs
    <3>3. \A k \in 1..Len(pend) : pend[k].part = 0
      <4>1. \A i \in 1..Len(pend) : pend[i] = Record(next - Len(pend) + i - 1, pend[i].step, 0, 1)
        BY DEF TypeInv, PendOK
      <4> QED  BY <4>1, RecordIs
    <3>4. a2 + b2 = n  BY <3>2, <1>3, <1>4
    <3> QED  BY <3>1, <3>3, <3>4
  <2>2. CASE pend = <<>>
    <3>1. \A k \in 1..(a + b) : todo[k].rec.part = k - 1 /\ todo[k].rec.step = made
      BY <2>2, <1>0, <1>1, HandJob
    <3>2. todo[1].rec.part = 0  BY <3>1, <1>4
    <3> QED  BY <3>1, <3>2, <1>4
  <2> QED  BY <2>1, <2>2
<1>12. \A x : x \in InHand <=> \E k \in 1..n : todo[k].rec.part = 0 /\ x = Entry(todo[k].rec)
  BY <1>3, <1>4, <1>5, HeadsOf
<1>13. InHand # {}
  <2>1. PICK j \in 1..n : todo[j].rec.part = 0  BY <1>4, <1>11
  <2>2. Entry(todo[j].rec) \in InHand  BY <2>1, <1>12
  <2> QED  BY <2>2
<1>14. {todo[i].rec.step : i \in 1..Len(todo)} = {x.step : x \in InHand}
  <2>0. Len(todo) = n  BY <1>3, <1>4
  <2>1. ASSUME NEW k \in 1..n PROVE \E x \in InHand : x.step = todo[k].rec.step
    <3>1. PICK j \in 1..n : todo[j].rec.part = 0 /\ todo[j].rec.step = todo[k].rec.step
      BY <1>11
    <3>2. Entry(todo[j].rec) \in InHand  BY <3>1, <1>12
    <3> QED  BY <3>1, <3>2, EntryIs
  <2>2. ASSUME NEW x \in InHand PROVE \E k \in 1..n : x.step = todo[k].rec.step
    BY <1>12, EntryIs
  <2> QED  BY <2>0, <2>1, <2>2
<1>15. acked' = acked \cup {x.step : x \in InHand}  BY <1>0, <1>14
<1>16. InHand' = {}  BY <1>0, HandSame
<1>17. InHand \subseteq Recovered  BY <1>6
<1> QED  BY <1>0, <1>7, <1>10, <1>13, <1>15, <1>16, <1>17 DEF Log!Keep, Log!Ack

\* A clear leaves nothing.
LEMMA ClearSteps ==
  ASSUME TypeInv, RingOK, Clear
  PROVE  Log!Clear
<1>1. LiveIn(hdr') = {} /\ TypeInv'  BY BaseClear
<1>2. pc' = "idle" /\ pend' = <<>> /\ UNCHANGED acked
  BY DEF Clear, Resting, job, history
<1>3. Recovered' = {} /\ InHand' = {}  BY <1>1, <1>2, RecoveredNow, HandSame
<1>4. lossy' \in BOOLEAN  BY <1>1 DEF TypeInv, HistoryOK
<1> QED  BY <1>2, <1>3, <1>4 DEF Log!Clear

--------------------------------
\* What a clear that was cut short leaves to be found: it is in rows that were
\* there, and none of them is behind the last segment of a batch.

LEMMA FoundWhere ==
  ASSUME NEW R, NEW lo, NEW hi, IsRows(R, lo, hi),
         NEW R2, NEW lo2, NEW hi2, IsRows(R2, lo2, hi2),
         NEW T \in lo..hi, NEW O,
         NEW e, NEW a, NEW b, NEW q, Landing(R, T, O, e, a, b, q), lo <= lo2,
         \A s \in lo2..hi2 : \/ s <= hi /\ R2[s] = R[s]
                             \/ s > T /\ Blanks(R2[s], 0),
         NEW v, v = Max(Visited(R2)), NEW x
  PROVE  /\ x \in Found(R2) <=>
              \E s \in lo2..v : /\ s \in lo..hi /\ s <= T + 1 /\ R2[s] = R[s]
                                /\ \E i \in 1..RunLen(R[s]) : /\ R[s][i].part = 0
                                                              /\ x = Entry(R[s][i])
         /\ v \in lo2..hi2
<1>0. /\ DOMAIN R = lo..hi /\ lo \in Nat /\ hi \in Nat /\ T \in Nat
      /\ lo2 \in Nat /\ hi2 \in Nat /\ v \in lo2..hi2 /\ v \in Nat
  <2>1. DOMAIN R = lo..hi /\ lo \in Nat /\ hi \in Nat /\ T \in Nat /\ lo2 \in Nat /\ hi2 \in Nat
    BY RowsFacts
  <2>2. v \in lo2..hi2  BY VisitedFacts
  <2> QED  BY <2>1, <2>2
<1>1. x \in Found(R2) <=>
        \E s \in lo2..v : \E i \in 1..RunLen(R2[s]) : R2[s][i].part = 0 /\ x = Entry(R2[s][i])
  BY FoundIn
<1>2. ASSUME NEW s \in lo2..v, NEW i \in 1..RunLen(R2[s])
      PROVE  s \in lo..hi /\ s <= T + 1 /\ R2[s] = R[s]
  <2>0. s \in lo2..hi2 /\ s \in Nat  BY <1>0
  <2>1. R2[s][i] # Void /\ i \in 1..SegCap /\ i > 0
    <3>1. RunLen(R2[s]) \in 0..SegCap /\ WholeRun(R2[s], RunLen(R2[s]))  BY RunLenFact
    <3>2. R2[s][i] # Void  BY <3>1 DEF WholeRun
    <3>3. i \in 1..SegCap /\ i > 0  BY <3>1, Sizes
    <3> QED  BY <3>2, <3>3
  <2>2. ~Blanks(R2[s], 0)  BY <2>1 DEF Blanks
  <2>3. s <= hi /\ R2[s] = R[s]  BY <2>0, <2>2
  <2>4. s \in DOMAIN R  BY <2>0, <2>3, <1>0
  <2>5. ~(s > T + 1)  BY <2>2, <2>3, <2>4 DEF Landing
  <2> QED  BY <2>0, <2>3, <2>4, <2>5, <1>0
<1>3. ASSUME x \in Found(R2)
      PROVE  \E s \in lo2..v : /\ s \in lo..hi /\ s <= T + 1 /\ R2[s] = R[s]
                               /\ \E i \in 1..RunLen(R[s]) : /\ R[s][i].part = 0
                                                             /\ x = Entry(R[s][i])
  <2>1. PICK s \in lo2..v :
           \E i \in 1..RunLen(R2[s]) : R2[s][i].part = 0 /\ x = Entry(R2[s][i])
    BY <1>1, <1>3
  <2>2. PICK i \in 1..RunLen(R2[s]) : R2[s][i].part = 0 /\ x = Entry(R2[s][i])  BY <2>1
  <2>3. s \in lo..hi /\ s <= T + 1 /\ R2[s] = R[s]  BY <2>2, <1>2
  <2> QED  BY <2>2, <2>3
<1>4. ASSUME NEW s \in lo2..v, R2[s] = R[s],
             \E i \in 1..RunLen(R[s]) : R[s][i].part = 0 /\ x = Entry(R[s][i])
      PROVE  x \in Found(R2)
  BY <1>1, <1>4
<1> QED  BY <1>0, <1>3, <1>4

\* All of a set that is not in part of it comes before that part, or after it.
Whole(part, all) ==
  /\ part \subseteq all
  /\ \A g \in all \ part : \/ \A x \in part : x.seq < g.seq
                           \/ \A x \in part : g.seq < x.seq

\* It is a stretch of what was found and what was in hand, H, of which nothing
\* was found but what is of the batch.
LEMMA ClearStretch ==
  ASSUME NEW R, NEW lo, NEW hi, IsRows(R, lo, hi),
         NEW R2, NEW lo2, NEW hi2, IsRows(R2, lo2, hi2),
         NEW T \in lo..hi, NEW O \in 1..(SegCap + 1), Settled(R, T, O),
         NEW e, NEW a, NEW b, NEW q, Landing(R, T, O, e, a, b, q), lo <= lo2,
         \A s \in lo2..hi2 : \/ s <= hi /\ R2[s] = R[s]
                             \/ s > T /\ Blanks(R2[s], 0),
         NEW H, \A x \in H : x.seq \in Nat /\ x.seq >= q,
         a + b = 0 \/ H \subseteq Heads(e, a + b),
         Found(R2) \cap Heads(e, a + b) \subseteq H
  PROVE  Whole(Found(R2), Older(R, T, O) \cup H)
<1>0. /\ DOMAIN R = lo..hi /\ lo \in Nat /\ hi \in Nat /\ T \in Nat /\ O \in Nat
      /\ lo2 \in Nat /\ hi2 \in Nat /\ a \in Nat /\ b \in Nat /\ q \in Nat
      /\ \A k \in 1..(a + b) : e[k].seq = q + k - 1
  <2>1. DOMAIN R = lo..hi /\ lo \in Nat /\ hi \in Nat /\ T \in Nat /\ lo2 \in Nat /\ hi2 \in Nat
    BY RowsFacts
  <2>2. O \in Nat  BY Sizes
  <2>3. a \in Nat /\ b \in Nat /\ q \in Nat /\ \A k \in 1..(a + b) : e[k].seq = q + k - 1
    BY DEF Landing
  <2> QED  BY <2>1, <2>2, <2>3
<1>1. \A x \in Older(R, T, O) : x.seq \in Nat /\ x.seq < q
  <2>1. ExpectThere(R, T, O) \subseteq {q}  BY DEF Landing
  <2> QED  BY <2>1, <1>0, OlderBelow
<1>2. \A x \in Older(R, T, O), y \in H : x.seq < y.seq
  <2> SUFFICES ASSUME NEW x \in Older(R, T, O), NEW y \in H PROVE x.seq < y.seq
    OBVIOUS
  <2>1. x.seq \in Nat /\ x.seq < q /\ y.seq \in Nat /\ y.seq >= q  BY <1>1
  <2> QED  BY <2>1, <1>0
<1>3. PICK v : v = Max(Visited(R2))  OBVIOUS
<1>4. /\ v \in lo2..hi2 /\ v \in Nat
      /\ \A x : x \in Found(R2) <=>
              \E s \in lo2..v : /\ s \in lo..hi /\ s <= T + 1 /\ R2[s] = R[s]
                                /\ \E i \in 1..RunLen(R[s]) : /\ R[s][i].part = 0
                                                              /\ x = Entry(R[s][i])
  <2>1. v \in lo2..hi2  BY <1>3, VisitedFacts
  <2>2. ASSUME NEW x
        PROVE  x \in Found(R2) <=>
                 \E s \in lo2..v : /\ s \in lo..hi /\ s <= T + 1 /\ R2[s] = R[s]
                                   /\ \E i \in 1..RunLen(R[s]) : /\ R[s][i].part = 0
                                                                 /\ x = Entry(R[s][i])
    BY <1>3, FoundWhere
  <2> QED  BY <2>1, <2>2, <1>0
<1>5. \A s \in lo..hi : RunLen(R[s]) \in 0..SegCap /\ WholeRun(R[s], RunLen(R[s]))
  BY RunLenFact
\* The tail is still there.
<1>6. CASE T \in lo2..hi2
  <2>1. Settled(R2, T, O) /\ Landing(R2, T, O, e, a, b, q)
    <3>1. \A s \in lo2..hi2 : \/ s <= hi /\ R2[s] = R[s]
                              \/ s > T /\ Blanks(R2[s], 0)
      OBVIOUS
    <3> QED  BY <3>1, <1>6, LandingNarrow
  <2>2. PICK m \in 0..(a + b) : Found(R2) = Older(R2, T, O) \cup Heads(e, m)
    BY <2>1, <1>6, FoundIs
  <2>3. /\ Older(R2, T, O) \subseteq Older(R, T, O)
        /\ \A x \in Older(R, T, O) \ Older(R2, T, O), y \in Older(R2, T, O) : x.seq < y.seq
    <3>1. \A s \in lo2..T : R2[s] = R[s]
      <4> TAKE s \in lo2..T
      <4>1. s \in lo2..hi2 /\ ~(s > T)  BY <1>0, <1>6
      <4> QED  BY <4>1
    <3>2. \A s \in lo2..(T - 1) : R2[s] = R[s]
      <4>1. \A s \in lo2..(T - 1) : s \in lo2..T  BY <1>0
      <4> QED  BY <3>1, <4>1
    <3>3. R2[T] = R[T]
      <4>1. T \in lo2..T  BY <1>0, <1>6
      <4> QED  BY <3>1, <4>1
    <3> QED  BY <3>2, <3>3, <1>6, OlderNarrow
  <2>4. /\ Heads(e, m) \subseteq Heads(e, a + b)
        /\ \A x \in Heads(e, m), y \in Heads(e, a + b) \ Heads(e, m) : x.seq < y.seq
    <3>1. PICK n \in Nat : n = a + b  BY <1>0
    <3>2. \A k \in 1..n : e[k].seq = q + k - 1  BY <3>1, <1>0
    <3>3. m \in 0..n  BY <3>1
    <3>4. /\ Heads(e, m) \subseteq Heads(e, n)
          /\ \A x \in Heads(e, m), y \in Heads(e, n) \ Heads(e, m) : x.seq < y.seq
      BY <3>2, <3>3, <1>0, HeadsRise
    <3> QED  BY <3>1, <3>4
  <2>5. Heads(e, m) \subseteq H  BY <2>2, <2>4
  <2>6. \A x \in Heads(e, m), g \in H \ Heads(e, m) : x.seq < g.seq
    <3>1. CASE a + b = 0
      <4>1. 1..m = {}  BY <3>1, <1>0
      <4>2. \A x : x \notin Heads(e, m)  BY <4>1, HeadsOf
      <4> QED  BY <4>2
    <3>2. CASE H \subseteq Heads(e, a + b)  BY <3>2, <2>4
    <3> QED  BY <3>1, <3>2
  <2>7. ASSUME NEW g \in (Older(R, T, O) \cup H) \ Found(R2)
        PROVE  (\A x \in Found(R2) : x.seq < g.seq) \/ (\A x \in Found(R2) : g.seq < x.seq)
    <3>1. CASE g \in H
      <4>1. \A x \in Found(R2) : x.seq < g.seq  BY <3>1, <2>2, <2>3, <2>6, <2>7, <1>2
      <4> QED  BY <4>1
    <3>2. CASE g \in Older(R, T, O)
      <4>1. \A x \in Found(R2) : g.seq < x.seq  BY <3>2, <2>2, <2>3, <2>5, <2>7, <1>2
      <4> QED  BY <4>1
    <3> QED  BY <3>1, <3>2
  <2> QED  BY <2>2, <2>3, <2>5, <2>7 DEF Whole
\* The rows from the tail on are gone.
<1>7. CASE hi2 < T
  <2>1. ASSUME NEW x \in Found(R2)
        PROVE  \E t \in lo2..v : \E j : Inside(R, T, O, t, j) /\ R[t][j].part = 0
                                        /\ x = Entry(R[t][j])
    <3>1. PICK t \in lo2..v : /\ t \in lo..hi
                              /\ \E i \in 1..RunLen(R[t]) : R[t][i].part = 0 /\ x = Entry(R[t][i])
      BY <1>4
    <3>2. PICK i \in 1..RunLen(R[t]) : R[t][i].part = 0 /\ x = Entry(R[t][i])  BY <3>1
    <3>3. t < T /\ t \in DOMAIN R  BY <3>1, <1>0, <1>4, <1>7
    <3>4. i \in 1..SegCap /\ i <= RunLen(R[t])
      <4>1. RunLen(R[t]) \in 0..SegCap  BY <3>1, <1>5
      <4> QED  BY <4>1, Sizes
    <3>5. Inside(R, T, O, t, i)  BY <3>3, <3>4 DEF Inside
    <3> QED  BY <3>2, <3>5
  <2>2. ASSUME NEW s, NEW i, Inside(R, T, O, s, i), R[s][i].part = 0,
               Entry(R[s][i]) \notin Found(R2)
        PROVE  s < lo2 \/ s > v
    <3> SUFFICES ASSUME ~(s < lo2 \/ s > v) PROVE FALSE
      OBVIOUS
    <3>1. s \in lo..hi /\ i \in 1..SegCap /\ s \in Nat  BY <2>2, <1>0 DEF Inside
    <3>2. s \in lo2..v  BY <3>1, <1>0, <1>4
    <3>3. s < T  BY <3>2, <1>0, <1>4, <1>7
    <3>4. i <= RunLen(R[s])  BY <3>3, <2>2, <1>0 DEF Inside
    <3>5. i \in 1..RunLen(R[s])
      <4>1. RunLen(R[s]) \in 0..SegCap  BY <3>1, <1>5
      <4> QED  BY <4>1, <3>1, <3>4, Sizes
    <3>6. R2[s] = R[s]
      <4>1. s \in lo2..hi2 /\ ~(s > T)  BY <3>2, <3>3, <1>0, <1>4
      <4> QED  BY <4>1
    <3>7. s <= T + 1  BY <3>1, <3>3, <1>0
    <3> QED  BY <3>1, <3>2, <3>5, <3>6, <3>7, <2>2, <1>4
  <2>3. ASSUME NEW g \in (Older(R, T, O) \cup H) \ Found(R2)
        PROVE  (\A x \in Found(R2) : x.seq < g.seq) \/ (\A x \in Found(R2) : g.seq < x.seq)
    <3>1. CASE g \in H
      <4>1. \A x \in Found(R2) : x \in Older(R, T, O)  BY <2>1, OlderIn
      <4> QED  BY <4>1, <3>1, <1>2
    <3>2. CASE g \in Older(R, T, O)
      <4>1. PICK s, i : Inside(R, T, O, s, i) /\ R[s][i].part = 0 /\ g = Entry(R[s][i])
        BY <3>2, OlderIn
      <4>2. s < lo2 \/ s > v  BY <4>1, <2>2, <2>3
      <4>3. s \in Nat  BY <4>1, <1>0 DEF Inside
      <4>4. CASE s < lo2
        <5>1. ASSUME NEW x \in Found(R2) PROVE g.seq < x.seq
          <6>1. PICK t \in lo2..v : \E j : Inside(R, T, O, t, j) /\ x = Entry(R[t][j])  BY <2>1
          <6>2. PICK j : Inside(R, T, O, t, j) /\ x = Entry(R[t][j])  BY <6>1
          <6>3. s < t  BY <4>3, <4>4, <6>1, <1>0, <1>4
          <6>4. R[s][i].seq < R[t][j].seq  BY <4>1, <6>2, <6>3, RowsRise
          <6> QED  BY <4>1, <6>2, <6>4, EntryIs
        <5> QED  BY <5>1
      <4>5. CASE s > v
        <5>1. ASSUME NEW x \in Found(R2) PROVE x.seq < g.seq
          <6>1. PICK t \in lo2..v : \E j : Inside(R, T, O, t, j) /\ x = Entry(R[t][j])  BY <2>1
          <6>2. PICK j : Inside(R, T, O, t, j) /\ x = Entry(R[t][j])  BY <6>1
          <6>3. t < s  BY <4>3, <4>5, <6>1, <1>0, <1>4
          <6>4. R[t][j].seq < R[s][i].seq  BY <4>1, <6>2, <6>3, RowsRise
          <6> QED  BY <4>1, <6>2, <6>4, EntryIs
        <5> QED  BY <5>1
      <4> QED  BY <4>2, <4>4, <4>5
    <3> QED  BY <3>1, <3>2
  <2>4. Found(R2) \subseteq Older(R, T, O)  BY <2>1, OlderIn
  <2> QED  BY <2>3, <2>4 DEF Whole
\* The rows up to the tail are gone: what is left is of the batch.
<1>8. CASE T < lo2
  <2>1. ASSUME NEW x \in Found(R2)
        PROVE  /\ T + 1 \in lo2..v /\ T + 1 \in lo..hi /\ R2[T + 1] = R[T + 1]
               /\ \E i \in 1..RunLen(R[T + 1]) :
                    /\ i <= b /\ R[T + 1][i] = e[a + i] /\ e[a + i].part = 0 /\ x = Entry(e[a + i])
    <3>1. PICK s \in lo2..v : /\ s \in lo..hi /\ s <= T + 1 /\ R2[s] = R[s]
                              /\ \E i \in 1..RunLen(R[s]) : R[s][i].part = 0 /\ x = Entry(R[s][i])
      BY <1>4
    <3>2. s = T + 1  BY <3>1, <1>0, <1>4, <1>8
    <3>3. PICK i \in 1..RunLen(R[T + 1]) : R[T + 1][i].part = 0 /\ x = Entry(R[T + 1][i])
      BY <3>1, <3>2
    <3>4. /\ RunLen(R[T + 1]) \in 0..SegCap /\ WholeRun(R[T + 1], RunLen(R[T + 1]))
          /\ T + 1 \in DOMAIN R
      BY <3>1, <3>2, <1>0, <1>5
    <3>5. i \in 1..SegCap /\ R[T + 1][i] # Void
      <4>1. i \in 1..SegCap  BY <3>4, Sizes
      <4> QED  BY <4>1, <3>4 DEF WholeRun
    <3>6. i <= b /\ R[T + 1][i] = e[a + i]  BY <3>4, <3>5 DEF Landing
    <3> QED  BY <3>1, <3>2, <3>3, <3>6
  <2>2. ASSUME NEW x \in Found(R2) PROVE x \in H
    <3>1. PICK i \in 1..RunLen(R[T + 1]) : i <= b /\ e[a + i].part = 0 /\ x = Entry(e[a + i])
      BY <2>1
    <3>2. i \in Nat /\ i >= 1
      <4>1. RunLen(R[T + 1]) \in 0..SegCap  BY <2>1, <1>5
      <4> QED  BY <4>1, Sizes
    <3>3. a + i \in 1..(a + b)  BY <3>1, <3>2, <1>0
    <3>4. x \in Heads(e, a + b)  BY <3>1, <3>3, HeadsOf
    <3> QED  BY <3>4
  <2>3. ASSUME NEW g \in (Older(R, T, O) \cup H) \ Found(R2)
        PROVE  (\A x \in Found(R2) : x.seq < g.seq) \/ (\A x \in Found(R2) : g.seq < x.seq)
    <3>1. CASE g \in Older(R, T, O)  BY <3>1, <2>2, <1>2
    <3>2. CASE Found(R2) = {}  BY <3>2
    <3>3. CASE g \in H /\ Found(R2) # {}
      <4>1. PICK x0 : x0 \in Found(R2)  BY <3>3
      <4>2. T + 1 \in lo2..v /\ T + 1 \in lo..hi /\ R2[T + 1] = R[T + 1]  BY <4>1, <2>1
      <4>3. PICK r \in Nat : r = RunLen(R[T + 1]) /\ r <= SegCap
        <5>1. RunLen(R[T + 1]) \in 0..SegCap  BY <4>2, <1>5
        <5> QED  BY <5>1, Sizes
      <4>4. \A x \in Found(R2) : \E i \in 1..r : i <= b /\ x = Entry(e[a + i])
        BY <4>3, <2>1
      <4>5. a + b # 0
        <5>1. PICK i \in 1..r : i <= b  BY <4>1, <4>4
        <5> QED  BY <5>1, <1>0
      <4>6. PICK j \in 1..(a + b) : e[j].part = 0 /\ g = Entry(e[j])
        <5>1. g \in Heads(e, a + b)  BY <4>5, <3>3
        <5> QED  BY <5>1, HeadsOf
      <4>7. g.seq = q + j - 1 /\ j \in Nat
        <5>1. e[j].seq = q + j - 1  BY <1>0
        <5>2. j \in Nat  BY <1>0
        <5> QED  BY <5>1, <5>2, <4>6, EntryIs
      <4>8. ASSUME NEW x \in Found(R2)
            PROVE  \E i \in 1..r : x.seq = q + (a + i) - 1
        <5>1. PICK i \in 1..r : i <= b /\ x = Entry(e[a + i])  BY <4>4
        <5>2. a + i \in 1..(a + b)  BY <5>1, <1>0
        <5>3. e[a + i].seq = q + (a + i) - 1  BY <5>2, <1>0
        <5> QED  BY <5>1, <5>3, EntryIs
      <4>9. CASE j <= a
        <5>1. ASSUME NEW x \in Found(R2) PROVE g.seq < x.seq
          <6>1. PICK i \in 1..r : x.seq = q + (a + i) - 1  BY <4>8
          <6> QED  BY <6>1, <4>7, <4>9, <1>0
        <5> QED  BY <5>1
      <4>10. CASE j > a
        <5>1. PICK l \in Nat : l = j - a /\ j = a + l /\ l >= 1 /\ l <= b
          <6>1. j - a \in Nat /\ j = a + (j - a) /\ j - a >= 1 /\ j - a <= b
            BY <4>6, <4>7, <4>10, <1>0
          <6> QED  BY <6>1
        <5>2. l > r
          <6> SUFFICES ASSUME ~(l > r) PROVE FALSE
            OBVIOUS
          <6>1. l \in 1..r /\ l \in 1..SegCap  BY <5>1, <4>3, Sizes
          <6>2. R[T + 1][l] # Void
            <7>1. WholeRun(R[T + 1], r)  BY <4>2, <4>3, <1>5
            <7> QED  BY <7>1, <6>1 DEF WholeRun
          <6>3. T + 1 \in DOMAIN R  BY <4>2, <1>0
          <6>4. R[T + 1][l] = e[a + l]  BY <6>1, <6>2, <6>3 DEF Landing
          <6>5. R[T + 1][l].part = 0 /\ g = Entry(R[T + 1][l])  BY <6>4, <5>1, <4>6
          <6>6. g \in Found(R2)
            <7>1. T + 1 <= T + 1  BY <1>0
            <7> QED  BY <7>1, <6>1, <6>5, <4>2, <4>3, <1>4
          <6> QED  BY <6>6, <2>3
        <5>3. ASSUME NEW x \in Found(R2) PROVE x.seq < g.seq
          <6>1. PICK i \in 1..r : x.seq = q + (a + i) - 1  BY <4>8
          <6> QED  BY <6>1, <5>1, <5>2, <4>7, <1>0
        <5> QED  BY <5>3
      <4> QED  BY <4>7, <4>9, <4>10, <1>0
    <3> QED  BY <3>1, <3>2, <3>3, <2>3
  <2> QED  BY <2>2, <2>3 DEF Whole
<1> QED  BY <1>0, <1>6, <1>7, <1>8

LEMMA WholeStretch ==
  ASSUME NEW part, NEW all, Whole(part, all), \A x \in all : x.seq \in Nat
  PROVE  Log!StretchOf(part, all)
<1> SUFFICES ASSUME NEW e \in part, NEW f \in part, NEW g \in all \ part
             PROVE  e.seq # g.seq /\ (e.seq < g.seq <=> f.seq < g.seq)
  BY DEF Log!StretchOf, Whole
<1>1. e.seq \in Nat /\ f.seq \in Nat /\ g.seq \in Nat  BY DEF Whole
<1>2. (e.seq < g.seq /\ f.seq < g.seq) \/ (g.seq < e.seq /\ g.seq < f.seq)  BY DEF Whole
<1> QED  BY <1>1, <1>2

\* The head of a chain is only found when the chain is there as a whole.
LEMMA ChainAll ==
  ASSUME NEW R, NEW lo, NEW hi, IsRows(R, lo, hi),
         NEW R2, NEW lo2, NEW hi2, IsRows(R2, lo2, hi2),
         NEW T \in lo..hi, NEW O \in 1..(SegCap + 1), Settled(R, T, O),
         NEW p, NEW a, NEW b, NEW q, PlanOf(p, T, O, a, b, q),
         Landing(R, T, O, Recs(p), a, b, q), lo <= lo2,
         \A s \in lo2..hi2 : \/ s <= hi /\ R2[s] = R[s]
                             \/ s > T /\ Blanks(R2[s], 0),
         \A k \in 1..(a + b) : p[k].rec.part = k - 1,
         NEW x \in Found(R2), x \in Heads(Recs(p), a + b)
  PROVE  Lies(R, p, a + b)
<1>0. /\ DOMAIN R = lo..hi /\ lo \in Nat /\ hi \in Nat /\ T \in Nat /\ O \in Nat
      /\ a \in Nat /\ b \in Nat /\ q \in Nat /\ a + b >= 1
      /\ \A k \in 1..(a + b) : Recs(p)[k] = p[k].rec /\ Recs(p)[k].part = k - 1
                               /\ Recs(p)[k].seq = q + k - 1
  <2>1. DOMAIN R = lo..hi /\ lo \in Nat /\ hi \in Nat /\ T \in Nat  BY RowsFacts
  <2>2. O \in Nat  BY Sizes
  <2>3. a \in Nat /\ b \in Nat /\ q \in Nat /\ a + b >= 1 /\ \A k \in 1..(a + b) : p[k].rec.seq = q + k - 1
    BY DEF PlanOf
  <2>4. \A k \in 1..(a + b) : Recs(p)[k] = p[k].rec  BY RecsIs
  <2> QED  BY <2>1, <2>2, <2>3, <2>4
<1>1. Recs(p)[1].n = a + b
  <2>0. 1 \in 1..(a + b)  BY <1>0
  <2>1. CASE \A k \in 1..(a + b) : p[k].rec.part = 0 /\ p[k].rec.n = 1
    <3>1. PICK n \in 1..(a + b) : n = a + b /\ n \in Nat
      <4>1. a + b \in 1..(a + b) /\ a + b \in Nat  BY <1>0
      <4> QED  BY <4>1
    <3>2. p[n].rec.part = n - 1 /\ p[n].rec.part = 0  BY <2>1
    <3>3. n = 1  BY <3>1, <3>2
    <3> QED  BY <3>1, <3>3, <2>0, <2>1, <1>0
  <2>2. CASE p[1].rec.n = a + b  BY <2>0, <2>2, <1>0
  <2> QED  BY <2>1, <2>2 DEF PlanOf
<1> DEFINE e == Recs(p)
<1>2. /\ \A i \in 1..SegCap : i >= O => R[T][i] = Void \/ (i < O + a /\ R[T][i] = e[i - O + 1])
      /\ T + 1 \in DOMAIN R =>
           \A i \in 1..SegCap : R[T + 1][i] = Void \/ (i <= b /\ R[T + 1][i] = e[a + i])
      /\ ExpectThere(R, T, O) \subseteq {q}
  BY DEF Landing
<1>a. a \in Nat /\ b \in Nat /\ O \in Nat /\ q \in Nat  BY <1>0
<1>3. x.seq = q
  <2>1. PICK k \in 1..(a + b) : e[k].part = 0 /\ x = Entry(e[k])  BY HeadsOf
  <2>2. k = 1
    <3>1. e[k].part = k - 1  BY <1>0
    <3>2. k - 1 = 0 /\ k \in Nat  BY <3>1, <2>1, <1>a
    <3> QED  BY <3>2
  <2>3. e[1].seq = q + 1 - 1 /\ q + 1 - 1 = q  BY <2>2, <1>0
  <2> QED  BY <2>1, <2>2, <2>3, EntryIs
<1>4. PICK s \in lo..hi : s <= T + 1 /\ \E i \in 1..RunLen(R[s]) : /\ R[s][i].part = 0
                                                                   /\ x = Entry(R[s][i])
  <2> HIDE DEF e
  <2>1. Landing(R, T, O, e, a, b, q)  BY DEF e
  <2>2. PICK v : v = Max(Visited(R2))  OBVIOUS
  <2>3. x \in Found(R2) <=>
           \E s \in lo2..v : /\ s \in lo..hi /\ s <= T + 1 /\ R2[s] = R[s]
                             /\ \E i \in 1..RunLen(R[s]) : /\ R[s][i].part = 0
                                                           /\ x = Entry(R[s][i])
    BY <2>1, <2>2, FoundWhere
  <2> QED  BY <2>3
<1>5. PICK i \in 1..RunLen(R[s]) : R[s][i].part = 0 /\ x = Entry(R[s][i])  BY <1>4
<1>6. PICK r \in Nat : /\ r = RunLen(R[s]) /\ r <= SegCap /\ WholeRun(R[s], r) /\ s \in Nat
                       /\ i \in 1..r /\ i \in 1..SegCap
                       /\ \A j \in 1..r : j \in 1..SegCap /\ R[s][j] # Void
  <2>1. RunLen(R[s]) \in 0..SegCap /\ WholeRun(R[s], RunLen(R[s])) /\ s \in Nat
    BY <1>0, RunLenFact
  <2>2. \A j \in 1..RunLen(R[s]) : j \in 1..SegCap /\ R[s][j] # Void
    <3>1. \A j \in 1..RunLen(R[s]) : R[s][j] # Void  BY <2>1 DEF WholeRun
    <3>2. \A j \in 1..RunLen(R[s]) : j \in 1..SegCap  BY <2>1, Sizes
    <3> QED  BY <3>1, <3>2
  <2> QED  BY <2>1, <2>2, Sizes
<1>7. ~(s < T \/ (s = T /\ i < O))
  <2> SUFFICES ASSUME s < T \/ (s = T /\ i < O) PROVE FALSE
    OBVIOUS
  <2>1. s \in DOMAIN R /\ i <= RunLen(R[s])  BY <1>0, <1>6
  <2>2. Inside(R, T, O, s, i)  BY <2>1, <1>6 DEF Inside
  <2>3. x \in Older(R, T, O)  BY <2>2, <1>5, OlderIn
  <2>4. x.seq \in Nat /\ x.seq < q  BY <2>3, <1>0, <1>2, OlderBelow
  <2> QED  BY <2>4, <1>0, <1>3
<1> HIDE DEF e
<1>e. \A k \in 1..(a + b) : e[k] = p[k].rec /\ e[k].part = k - 1  BY <1>0 DEF e
<1>n. e[1].n = a + b  BY <1>1 DEF e
<1>8. CASE s = T /\ i >= O
  <2>1. R[T][i] # Void /\ i < O + a /\ R[T][i] = e[i - O + 1]  BY <1>2, <1>6, <1>8
  <2>2. i = O /\ a >= 1
    <3>1. PICK j \in 1..(a + b) : j = i - O + 1 /\ j <= a
      <4>1. i - O + 1 \in 1..(a + b) /\ i - O + 1 <= a  BY <2>1, <1>0, <1>6, <1>8
      <4> QED  BY <4>1
    <3>2. e[j].part = j - 1  BY <1>e
    <3>3. e[j].part = 0  BY <2>1, <3>1, <1>5, <1>8
    <3>4. j = 1  BY <3>2, <3>3, <1>a
    <3>5. i \in Nat  BY <1>6
    <3>6. i - O + 1 = 1 /\ 1 <= a  BY <3>1, <3>4
    <3> QED  BY <3>5, <3>6, <1>a
  <2>3. R[T][O] = e[1]
    <3>1. i - O + 1 = 1  BY <2>2, <1>0
    <3> QED  BY <3>1, <2>1, <2>2
  <2>4. \A k \in 1..(a + b - 1) : O + k <= r
    <3>1. R[T][O].part = 0 /\ R[T][O].n = a + b /\ O \in 1..r  BY <2>2, <2>3, <1>5, <1>6, <1>8, <1>n
    <3>2. WholeRun(R[T], r)  BY <1>6, <1>8
    <3>3. \A k \in 1..(R[T][O].n - 1) : O + k <= r  BY <3>1, <3>2 DEF WholeRun
    <3>4. PICK w : w = R[T][O].n  OBVIOUS
    <3>5. w = a + b  BY <3>1, <3>4
    <3>6. \A k \in 1..(w - 1) : O + k <= r  BY <3>3, <3>4
    <3>7. ASSUME NEW k \in 1..(a + b - 1) PROVE O + k <= r
      <4>1. k \in 1..(w - 1)  BY <3>5, <1>0
      <4> QED  BY <4>1, <3>6
    <3> QED  BY <3>7
  <2>5. ASSUME NEW k \in 1..(a + b)
        PROVE  p[k].seg = T /\ R[T][p[k].at] = p[k].rec
    <3>0. k \in Nat /\ k >= 1  BY <1>0
    <3>1. PICK j \in 1..r : j = O + k - 1
      <4>1. CASE k = 1
        <5>1. O + k - 1 = i  BY <4>1, <2>2, <1>0
        <5> QED  BY <5>1, <1>6
      <4>2. CASE k # 1
        <5>1. k - 1 \in 1..(a + b - 1)  BY <4>2, <3>0, <1>0
        <5>2. O + (k - 1) <= r  BY <5>1, <2>4
        <5>3. O + k - 1 \in 1..r  BY <5>2, <3>0, <1>0, <1>6, <1>8
        <5> QED  BY <5>3
      <4> QED  BY <4>1, <4>2
    <3>2. j \in 1..SegCap /\ R[T][j] # Void /\ j >= O  BY <3>0, <3>1, <1>0, <1>6, <1>8
    <3>3. j < O + a /\ R[T][j] = e[j - O + 1]  BY <3>2, <1>2
    <3>4. j - O + 1 = k /\ k \in 1..a
      <4>1. j \in Nat  BY <1>6
      <4>2. j - O + 1 = k  BY <4>1, <3>0, <3>1, <1>0
      <4>3. k <= a  BY <4>1, <3>0, <3>1, <3>3, <1>0
      <4> QED  BY <4>2, <4>3, <3>0, <1>0
    <3>5. p[k].seg = T /\ p[k].at = O + k - 1  BY <3>4 DEF PlanOf
    <3> QED  BY <3>1, <3>3, <3>4, <3>5, <1>e
  <2> QED  BY <2>5, <1>0 DEF Lies
<1>9. CASE s = T + 1
  <2>0. T + 1 \in DOMAIN R  BY <1>9, <1>0
  <2>1. i <= b /\ R[T + 1][i] = e[a + i]  BY <2>0, <1>2, <1>6, <1>9
  <2>2. a = 0 /\ i = 1
    <3>1. PICK j \in 1..(a + b) : j = a + i
      <4>1. a + i \in 1..(a + b)  BY <2>1, <1>0, <1>6
      <4> QED  BY <4>1
    <3>2. e[j].part = j - 1  BY <1>e
    <3>3. e[j].part = 0  BY <2>1, <3>1, <1>5, <1>9
    <3>4. j = 1  BY <3>2, <3>3, <1>a
    <3>5. a + i = 1 /\ i \in Nat /\ i >= 1 /\ a \in Nat  BY <3>1, <3>4, <1>a, <1>6
    <3> QED  BY <3>5
  <2>3. R[T + 1][1] = e[1]
    <3>1. a + i = 1  BY <2>2
    <3> QED  BY <3>1, <2>1, <2>2
  <2>4. \A k \in 1..(a + b - 1) : 1 + k <= r
    <3>1. R[T + 1][1].part = 0 /\ R[T + 1][1].n = a + b /\ 1 \in 1..r
      BY <2>2, <2>3, <1>5, <1>6, <1>9, <1>n
    <3>2. WholeRun(R[T + 1], r)  BY <1>6, <1>9
    <3>3. \A k \in 1..(R[T + 1][1].n - 1) : 1 + k <= r  BY <3>1, <3>2 DEF WholeRun
    <3>4. PICK w : w = R[T + 1][1].n  OBVIOUS
    <3>5. w = a + b  BY <3>1, <3>4
    <3>6. \A k \in 1..(w - 1) : 1 + k <= r  BY <3>3, <3>4
    <3>7. ASSUME NEW k \in 1..(a + b - 1) PROVE 1 + k <= r
      <4>1. k \in 1..(w - 1)  BY <3>5, <1>0
      <4> QED  BY <4>1, <3>6
    <3> QED  BY <3>7
  <2>5. ASSUME NEW k \in 1..(a + b)
        PROVE  p[k].seg = T + 1 /\ R[T + 1][p[k].at] = p[k].rec
    <3>0. k \in Nat /\ k >= 1 /\ k \in 1..b /\ a + k = k  BY <2>2, <1>0
    <3>1. k \in 1..r
      <4>1. CASE k = 1  BY <4>1, <2>2, <1>6
      <4>2. CASE k # 1
        <5>1. k - 1 \in 1..(a + b - 1)  BY <4>2, <3>0, <1>0
        <5>2. 1 + (k - 1) <= r  BY <5>1, <2>4
        <5> QED  BY <5>2, <3>0, <1>6
      <4> QED  BY <4>1, <4>2
    <3>2. k \in 1..SegCap /\ R[T + 1][k] # Void  BY <3>1, <1>6, <1>9
    <3>3. R[T + 1][k] = e[a + k]  BY <3>2, <2>0, <1>2
    <3>4. p[a + k].seg = T + 1 /\ p[a + k].at = k  BY <3>0 DEF PlanOf
    <3> QED  BY <3>0, <3>3, <3>4, <1>e
  <2> QED  BY <2>0, <2>5 DEF Lies
<1>10. s < T \/ s = T \/ s = T + 1  BY <1>0, <1>4, <1>6
<1>11. i < O \/ i >= O  BY <1>0, <1>6
<1> QED  BY <1>7, <1>8, <1>9, <1>10, <1>11

\* What a clear that was cut short leaves of the rows.
Cut(R, hi, T, R2, lo2, hi2) ==
  \A s \in lo2..hi2 : \/ s <= hi /\ R2[s] = R[s]
                      \/ s > T /\ Blanks(R2[s], 0)

LEMMA CutRows ==
  ASSUME TypeInv, RingOK, Content, ClearCut, LiveIn(hdr') # {}
  PROVE  /\ tail # 0
         /\ \E R2, lo2, hi2 : /\ IsRows(R2, lo2, hi2) /\ Recovered' = Found(R2)
                              /\ Oldest <= lo2 /\ Cut(Rows, Newest, tail, R2, lo2, hi2)
<1>0. UNCHANGED <<ver, body>> /\ CardOK'
  <2>1. TypeInv'  BY BaseNext DEF JournalNext
  <2> QED  BY <2>1 DEF ClearCut, TypeInv
<1>1. PICK m \in 1..(Ring - 1) : Deletes(m)  BY DEF ClearCut, Deletes
<1>2. /\ LiveIn(hdr') = {x \in LiveIn(hdr) : SlotOf(x) > m}
      /\ \A s \in Slots : hdr'[s] = IF s <= m THEN Gone ELSE hdr[s]
      /\ m \in Nat
  BY <1>1, DeletesLive
<1>3. tail # 0
  <2>1. LiveIn(hdr) # {}  BY <1>2
  <2>2. pc = "idle" /\ up  BY DEF ClearCut
  <2> QED  BY <2>1, <2>2 DEF RingOK
<1>4. /\ IsRows(Rows, Oldest, Newest) /\ tail \in Oldest..Newest /\ tail \in Nat
      /\ Oldest \in Nat /\ Newest \in Nat
      /\ \A s \in Oldest..Newest : Rows[s] = body[SlotOf(s)] /\ s \in LiveIn(hdr)
  BY <1>3, TailRows, RowsFacts
<1>5. /\ IsRows(Rows', Oldest', Newest') /\ Oldest' \in Nat /\ Newest' \in Nat
      /\ Oldest'..Newest' \subseteq LiveIn(hdr') /\ Oldest' <= Newest'
      /\ \A s \in Oldest'..Newest' : Rows'[s] = body[SlotOf(s)]
  <2>1. body' \in [Slots -> Row]  BY <1>0 DEF CardOK
  <2>2. /\ IsRows(Rows', Oldest', Newest')
        /\ \A s \in Oldest'..Newest' : Rows'[s] = body'[SlotOf(s)]
    BY <2>1, RowsAre, CardNow
  <2>3. Oldest'..Newest' \subseteq LiveIn(hdr')  BY RangeFacts, CardNow
  <2> QED  BY <2>2, <2>3, <1>0, RowsFacts
<1>6. Oldest <= Oldest'
  <2>1. Oldest' \in LiveIn(hdr)  BY <1>5, <1>2
  <2> QED  BY <2>1, RangeFacts, CardNow
<1>7. PICK R2, lo2, hi2 : R2 = Rows' /\ lo2 = Oldest' /\ hi2 = Newest'  OBVIOUS
<1>8. IsRows(R2, lo2, hi2) /\ Recovered' = Found(R2) /\ Oldest <= lo2 /\ lo2 \in Nat /\ hi2 \in Nat
  BY <1>5, <1>6, <1>7, RecoveredNow
<1>9. Cut(Rows, Newest, tail, R2, lo2, hi2)
  <2>1. CASE \E z \in LiveIn(hdr') : z > Newest /\ Apart(hdr, Newest, z)
    <3>1. Oldest' = Oldest /\ Newest' = Newest  BY <2>1, <1>1, DeletesApart
    <3>2. Rows' = Rows  BY <3>1, <1>0, CardNow DEF RowsIn
    <3>3. R2 = Rows /\ hi2 = Newest  BY <3>1, <3>2, <1>7
    <3>4. \A s \in lo2..hi2 : s <= hi2  BY <1>8
    <3> QED  BY <3>3, <3>4 DEF Cut
  <2>2. CASE \A z \in LiveIn(hdr') : z > Newest => ~Apart(hdr, Newest, z)
    <3>1. \A z \in LiveIn(hdr') : z > Newest => Blanks(body[SlotOf(z)], 0)
      BY <2>2, <1>2, CardNow DEF Content, Far
    <3> SUFFICES ASSUME NEW s \in lo2..hi2
                 PROVE  \/ s <= Newest /\ R2[s] = Rows[s]
                        \/ s > tail /\ Blanks(R2[s], 0)
      BY DEF Cut
    <3>2. s \in LiveIn(hdr') /\ R2[s] = body[SlotOf(s)]  BY <1>5, <1>7
    <3>3. s \in Nat /\ s >= Oldest  BY <1>4, <1>8
    <3>4. CASE s <= Newest
      <4>1. s \in Oldest..Newest  BY <3>3, <3>4, <1>4
      <4>2. Rows[s] = body[SlotOf(s)]  BY <4>1, <1>4
      <4> QED  BY <4>2, <3>2, <3>4
    <3>5. CASE s > Newest
      <4>1. s > tail  BY <3>3, <3>5, <1>4
      <4> QED  BY <4>1, <3>1, <3>2, <3>5
    <3> QED  BY <3>3, <3>4, <3>5, <1>4
  <2> QED  BY <2>1, <2>2
<1> QED  BY <1>3, <1>8, <1>9

\* All there was to be found, and what was in hand, before the clear.
AllOf(R, T, O, e, a, b, q, H) ==
  /\ Landing(R, T, O, e, a, b, q)
  /\ \A x \in H : x.seq \in Nat /\ x.seq >= q
  /\ a + b = 0 \/ H \subseteq Heads(e, a + b)
  /\ Recovered \cup Pending = Older(R, T, O) \cup H

LEMMA CutAll ==
  ASSUME TypeInv, RingOK, Content, Orphans, pc = "idle", tail # 0,
         NEW R2, NEW lo2, NEW hi2, IsRows(R2, lo2, hi2), Oldest <= lo2,
         Cut(Rows, Newest, tail, R2, lo2, hi2)
  PROVE  \E e, a, b, q, H : /\ AllOf(Rows, tail, off, e, a, b, q, H)
                            /\ Found(R2) \cap Heads(e, a + b) \subseteq H
<1>1. /\ IsRows(Rows, Oldest, Newest) /\ tail \in Oldest..Newest /\ off \in 1..(SegCap + 1)
      /\ Settled(Rows, tail, off) /\ LiveIn(hdr) # {} /\ Base \in Nat
  BY TailRows DEF Content, SessionOK
<1>2. Recovered = Found(Rows)  BY <1>1, RecoveredNow
<1>3. CASE ~stopped
  <2>1. Landing(Rows, tail, off, <<>>, 0, 0, Base)  BY <1>3 DEF Content, SessionOK
  <2>2. Recovered = Older(Rows, tail, off)  BY <2>1, <1>1, <1>2, RestFound
  <2>3. \A x \in Pending : x.seq \in Nat /\ x.seq >= Base
    <3> SUFFICES ASSUME NEW i \in 1..Len(pend)
                 PROVE  pend[i].seq \in Nat /\ pend[i].seq >= Base
      BY EntryIs DEF Pending
    <3>1. pend[i] = Record(next - Len(pend) + i - 1, pend[i].step, 0, 1)
      BY DEF TypeInv, PendOK
    <3>2. pend[i].seq = Base + i - 1  BY <3>1, RecordIs DEF Base
    <3>3. i \in Nat /\ i >= 1
      <4>1. Len(pend) \in Nat  BY DEF TypeInv, PendOK
      <4> QED  BY <4>1
    <3> QED  BY <3>2, <3>3, <1>1
  <2>4. 0 + 0 = 0  OBVIOUS
  <2>5. Found(R2) \cap Heads(<<>>, 0 + 0) \subseteq Pending
    <3>1. \A k : k \notin 1..(0 + 0)  OBVIOUS
    <3>2. \A x : x \notin Heads(<<>>, 0 + 0)  BY <3>1, HeadsOf
    <3> QED  BY <3>2
  <2>6. AllOf(Rows, tail, off, <<>>, 0, 0, Base, Pending)  BY <2>1, <2>2, <2>3, <2>4 DEF AllOf
  <2> QED  BY <2>5, <2>6
<1>4. CASE stopped
  <2>1. PICK p : IsJob(p) /\ LandsFor(Rows, tail, off, Base, p)  BY <1>4 DEF Orphans
  <2>2. PICK a, b : PlanOf(p, tail, off, a, b, Base) /\ Landing(Rows, tail, off, Recs(p), a, b, Base)
    BY <2>1 DEF LandsFor
  <2>3. PICK m \in 0..(a + b) :
          /\ Found(Rows) = Older(Rows, tail, off) \cup Heads(Recs(p), m)
          /\ Lies(Rows, p, a + b) => m = a + b
    BY <2>2, <1>1, FoundPlan
  <2>4. /\ a + b \in Nat /\ a + b >= 1 /\ \A k \in 1..(a + b) : Recs(p)[k].seq = Base + k - 1
    <3>1. a + b >= 1 /\ \A k \in 1..(a + b) : p[k].rec.seq = Base + k - 1  BY <2>2 DEF PlanOf
    <3>2. PICK q : q = Base /\ PlanOf(p, tail, off, a, b, q)  BY <2>2
    <3>3. a + b \in Nat /\ \A k \in 1..(a + b) : Recs(p)[k] = p[k].rec  BY <3>2, RecsIs
    <3> QED  BY <3>1, <3>3
  <2>5. /\ Heads(Recs(p), m) \subseteq Heads(Recs(p), a + b)
        /\ \A x \in Heads(Recs(p), a + b) : x.seq \in Nat /\ x.seq >= Base
    <3> DEFINE e == Recs(p)
    <3>1. PICK n \in Nat : n = a + b  BY <2>4
    <3>2. \A k \in 1..n : e[k].seq = Base + k - 1  BY <3>1, <2>4
    <3>3. m \in 0..n  BY <3>1
    <3> HIDE DEF e
    <3>4. /\ Heads(e, m) \subseteq Heads(e, n)
          /\ \A x \in Heads(e, n) : x.seq \in Nat /\ x.seq >= Base
      BY <3>2, <3>3, <1>1, HeadsRise
    <3> QED  BY <3>1, <3>4 DEF e
  <2>6. CASE pend # <<>>
    <3>1. Heads(Recs(p), a + b) = Pending  BY <2>1, <2>2, <2>6, HandJob
    <3>2. Recovered \cup Pending = Older(Rows, tail, off) \cup Pending
      BY <3>1, <2>3, <2>5, <1>2
    <3>3. AllOf(Rows, tail, off, Recs(p), a, b, Base, Pending)
      BY <3>1, <3>2, <2>2, <2>5 DEF AllOf
    <3> QED  BY <3>1, <3>3
  <2>7. CASE pend = <<>>
    <3>1. \A k \in 1..(a + b) : p[k].rec.part = k - 1  BY <2>1, <2>2, <2>7, HandJob
    <3>2. Pending = {}
      <4>1. \A i : i \notin 1..Len(pend)  BY <2>7
      <4> QED  BY <4>1 DEF Pending
    <3>3. Recovered \cup Pending = Older(Rows, tail, off) \cup Heads(Recs(p), m)
      BY <3>2, <2>3, <1>2
    <3>4. AllOf(Rows, tail, off, Recs(p), a, b, Base, Heads(Recs(p), m))
      BY <3>3, <2>2, <2>5 DEF AllOf
    <3>5. ASSUME NEW x \in Found(R2), x \in Heads(Recs(p), a + b)
          PROVE  x \in Heads(Recs(p), m)
      <4>1. Lies(Rows, p, a + b)
        <5>1. \A s \in lo2..hi2 : \/ s <= Newest /\ R2[s] = Rows[s]
                                  \/ s > tail /\ Blanks(R2[s], 0)
          BY DEF Cut
        <5> QED  BY <5>1, <3>1, <3>5, <2>2, <1>1, ChainAll
      <4> QED  BY <4>1, <2>3, <3>5
    <3>6. Found(R2) \cap Heads(Recs(p), a + b) \subseteq Heads(Recs(p), m)  BY <3>5
    <3> QED  BY <3>4, <3>6
  <2> QED  BY <2>6, <2>7
<1> QED  BY <1>3, <1>4

\* A clear that is cut short leaves a stretch.
LEMMA CutSteps ==
  ASSUME TypeInv, RingOK, Content, Orphans, ClearCut
  PROVE  Log!ClearPart
<1>1. pc = "idle" /\ pc' = "idle" /\ pend' = <<>> /\ UNCHANGED acked /\ lossy' \in BOOLEAN
  <2>1. TypeInv'  BY BaseNext DEF JournalNext
  <2> QED  BY <2>1 DEF ClearCut, Down, history, TypeInv, HistoryOK
<1>2. InHand' = {} /\ InHand = Pending  BY <1>1, HandSame, HandIdle
<1>3. Log!StretchOf(Recovered', Recovered \cup Pending)
  <2>1. CASE LiveIn(hdr') = {}
    <3>1. Recovered' = {}  BY <2>1, RecoveredNow
    <3> QED  BY <3>1 DEF Log!StretchOf
  <2>2. CASE LiveIn(hdr') # {}
    <3>0. tail # 0  BY <2>2, CutRows
    <3>1. PICK R2, lo2, hi2 : /\ IsRows(R2, lo2, hi2) /\ Recovered' = Found(R2)
                              /\ Oldest <= lo2 /\ Cut(Rows, Newest, tail, R2, lo2, hi2)
      BY <2>2, CutRows
    <3>2. PICK e, a, b, q, H : /\ AllOf(Rows, tail, off, e, a, b, q, H)
                               /\ Found(R2) \cap Heads(e, a + b) \subseteq H
      BY <3>0, <3>1, <1>1, CutAll
    <3>3. /\ IsRows(Rows, Oldest, Newest) /\ tail \in Oldest..Newest /\ off \in 1..(SegCap + 1)
          /\ Settled(Rows, tail, off)
      BY <3>0, TailRows DEF Content, SessionOK
    <3>4. /\ Landing(Rows, tail, off, e, a, b, q) /\ \A x \in H : x.seq \in Nat /\ x.seq >= q
          /\ a + b = 0 \/ H \subseteq Heads(e, a + b)
          /\ Recovered \cup Pending = Older(Rows, tail, off) \cup H
      BY <3>2 DEF AllOf
    <3>5. \A s \in lo2..hi2 : \/ s <= Newest /\ R2[s] = Rows[s]
                              \/ s > tail /\ Blanks(R2[s], 0)
      BY <3>1 DEF Cut
    <3>6. Whole(Found(R2), Older(Rows, tail, off) \cup H)
      BY <3>1, <3>2, <3>3, <3>4, <3>5, ClearStretch
    <3>7. \A x \in Older(Rows, tail, off) \cup H : x.seq \in Nat
      <4>1. q \in Nat /\ ExpectThere(Rows, tail, off) \subseteq {q}  BY <3>4 DEF Landing
      <4>2. \A x \in Older(Rows, tail, off) : x.seq \in Nat  BY <4>1, <3>3, OlderBelow
      <4> QED  BY <4>2, <3>4
    <3>8. Log!StretchOf(Found(R2), Older(Rows, tail, off) \cup H)  BY <3>6, <3>7, WholeStretch
    <3> QED  BY <3>1, <3>4, <3>8
  <2> QED  BY <2>1, <2>2
<1> QED  BY <1>1, <1>2, <1>3 DEF Log!ClearPart

--------------------------------
LEMMA LogInit == JournalInit => Log!Init
<1> SUFFICES ASSUME JournalInit PROVE Log!Init
  OBVIOUS
<1>1. pc = "idle" /\ pend = <<>> /\ acked = {} /\ lossy = FALSE /\ hdr = [s \in Slots |-> Gone]
  BY DEF JournalInit
<1>2. Recovered = {}
  <2>1. LiveIn(hdr) = {}  BY <1>1, GoneRing
  <2> QED  BY <2>1, RecoveredNow
<1>3. InHand = {}
  <2>1. TypeInv  BY BaseInit
  <2>2. Pending = {}
    <3>1. \A i : i \notin 1..Len(pend)  BY <1>1
    <3> QED  BY <3>1 DEF Pending
  <2> QED  BY <2>1, <2>2, <1>1, HandIdle
<1> QED  BY <1>1, <1>2, <1>3 DEF Log!Init

\* Every step of the journal is its step of the log, or leaves it as it is.
LEMMA LogStep ==
  ASSUME TypeInv, RingOK, Content, Batches, ReadsBack, [JournalNext]_vars
  PROVE  Log!Next /\ KeepsToItsPart
<1>1. Clear => Log!Clear  BY ClearSteps
<1>2. ClearCut => Log!ClearPart  BY CutSteps DEF Batches
<1>3. Retains => Log!Forget /\ InTail \subseteq Recovered'  BY ForgetSteps
<1>4. ASSUME ~(Clear \/ ClearCut \/ Retains) PROVE Log!Keep
  <2>1. CASE \/ OpenFails \/ RecordStep \/ TakeBack \/ Flush \/ Unverified
             \/ (Crash /\ pc # "write") \/ UNCHANGED vars
    BY <2>1, QuietSteps
  <2>2. CASE Open \/ OpenCut  BY <2>2, OpenSteps
  <2>3. CASE Chain  BY <2>3, ChainSteps
  <2>4. CASE WriteNext \/ WriteLost \/ WriteFails \/ (Crash /\ pc = "write")
    BY <2>4, WriteSteps DEF Writes, Batches
  <2>5. CASE Verified  BY <2>5, AckSteps
  <2>6. CASE PrepareFirst \/ PrepareFirstFails  BY <2>6, FirstSteps
  <2>7. CASE ReheadFails \/ ReheadCut  BY <2>7, ReheadSteps
  <2> QED  BY <1>4, <2>1, <2>2, <2>3, <2>4, <2>5, <2>6, <2>7 DEF JournalNext, Retains
<1> QED  BY <1>1, <1>2, <1>3, <1>4 DEF KeepsToItsPart, Log!Next

\* On a card that reads back what it wrote, the journal is a durable log, and each
\* of its steps does its part of it alone: the batches are found in the order they
\* were recorded, each as a whole unless the card dropped a write of it; retention
\* gives up nothing but the oldest and nothing in the tail segment, a clear what it
\* clears, and all else, a crash, a reopen, a cut repair or a failed write, nothing, so
\* that what the session was told to be on the card is there.
THEOREM KeepsIt == ReadsBack /\ JournalSpec => KeepsItsPromise
<1>1. JournalInit => Log!Init  BY LogInit
<1>2. ReadsBack /\ TypeInv /\ RingOK /\ Content /\ Batches /\ [JournalNext]_vars
        => [Log!Next]_(Log!vars) /\ [KeepsToItsPart]_vars
  BY LogStep
<1>3. ReadsBack => []ReadsBack
  <2>1. ReadsBack => ReadsBack'  BY DEF ReadsBack
  <2> QED  BY <2>1, PTL
<1>4. ReadsBack /\ JournalSpec => [](TypeInv /\ RingOK /\ Content /\ Batches)
  BY BatchesHold
<1> QED  BY <1>1, <1>2, <1>3, <1>4, PTL DEF JournalSpec, KeepsItsPromise, Log!Spec
=============================================================================
