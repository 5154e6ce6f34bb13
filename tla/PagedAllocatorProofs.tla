------------------------ MODULE PagedAllocatorProofs ------------------------
(***************************************************************************)
(* The paged allocator implements the page pool, keeps its layout, and     *)
(* refuses an allocation only when the pages are really too few, for every *)
(* page size, number of pages, set of rows and size of batch.              *)
(***************************************************************************)
EXTENDS PagedAllocator, WellFoundedInduction, FiniteSetTheorems, SequenceTheorems, TLAPS

-----------------------------------------------------------------------------
(* The layout of rows, and batches. *)

(* Every non-empty set of naturals has a least element.  The induction     *)
(* over batches below rests on this form of the principle, which has a set *)
(* where the library's induction rules have a predicate.                   *)
LEMMA Least ==
  ASSUME NEW T \in SUBSET Nat, T # {}
  PROVE  \E n \in T : \A k \in T : n <= k
<1> DEFINE U == {0..n : n \in T}
<1>1. U \subseteq FiniteSubsetsOf(Nat)
  <2>1. \A n \in T : 0..n \subseteq Nat /\ IsFiniteSet(0..n)
    BY FS_Interval
  <2> QED
    BY <2>1 DEF FiniteSubsetsOf
<1>2. U # {}
  OBVIOUS
<1> HIDE DEF U
<1>3. PICK I \in U : \A J \in U : ~ (<<J, I>> \in StrictSubsetOrdering(Nat))
  BY <1>1, <1>2, WFMin, FS_StrictSubsetOrderingWellFounded
<1>4. \A J \in U : J \subseteq I => J = I
  BY <1>1, <1>3 DEF StrictSubsetOrdering, FiniteSubsetsOf
<1> USE DEF U
<1>5. PICK n \in T : I = 0..n
  OBVIOUS
<1>6. ASSUME NEW k \in T, k < n PROVE FALSE
  <2>1. n \in Nat /\ k \in Nat
    OBVIOUS
  <2>2. 0..k \subseteq 0..n /\ n \notin 0..k /\ n \in 0..n
    BY <2>1, <1>6
  <2>3. 0..k \in U
    OBVIOUS
  <2> QED
    BY <2>2, <2>3, <1>4, <1>5
<1>7. \A k \in T : n <= k
  <2>1. T \subseteq Nat
    OBVIOUS
  <2> QED
    BY <2>1, <1>6
<1> QED
  BY <1>7

(* A function on 1..m is a sequence of length m. *)
LEMMA FunSeq ==
  ASSUME NEW m \in Nat, NEW S, NEW f \in [1..m -> S]
  PROVE  f \in Seq(S) /\ Len(f) = m /\ DOMAIN f = 1..m
OBVIOUS

(* Induction for a set Q of naturals. *)
LEMMA UpTo ==
  ASSUME NEW n \in Nat, NEW Q, 0 \in Q,
         \A k \in 1..n : k - 1 \in Q => k \in Q
  PROVE  \A k \in 0..n : k \in Q
<1> DEFINE T == {k \in 0..n : k \notin Q}
<1>1. SUFFICES ASSUME T # {} PROVE FALSE
  OBVIOUS
<1>2. PICK k \in T : \A j \in T : k <= j
  <2>1. T \in SUBSET Nat
    OBVIOUS
  <2> HIDE DEF T
  <2> QED
    BY <1>1, <2>1, Least
<1>3. k # 0 /\ k - 1 \in 0..n /\ k - 1 \notin T
  BY <1>2
<1> QED
  BY <1>2, <1>3

-----------------------------------------------------------------------------
(* cumsum. *)
LEMMA CumSumFacts ==
  ASSUME NEW n \in Nat, NEW list \in [1..n -> Int]
  PROVE  /\ CumSum(list) \in [0..n -> Int]
         /\ CumSum(list)[0] = 0
         /\ \A k \in 1..n : CumSum(list)[k] = CumSum(list)[k-1] + list[k]
<1> DEFINE Def(f, S) == f = [k \in S |-> IF k = 0 THEN 0 ELSE f[k-1] + list[k]]
           Q == {k \in 0..n : \E f \in [0..k -> Int] : Def(f, 0..k)}
<1>0. Len(list) = n
  OBVIOUS
<1>1. 0 \in Q
  <2>1. [k \in 0..0 |-> 0] \in [0..0 -> Int] /\ Def([k \in 0..0 |-> 0], 0..0)
    OBVIOUS
  <2> HIDE DEF Def
  <2> QED
    BY <2>1
<1>2. ASSUME NEW k \in 1..n, k - 1 \in Q PROVE k \in Q
  <2>1. PICK f \in [0..(k-1) -> Int] : Def(f, 0..(k-1))
    BY <1>2
  <2> DEFINE g == [j \in 0..k |-> IF j = k THEN f[k-1] + list[k] ELSE f[j]]
  <2>2. g \in [0..k -> Int]
    OBVIOUS
  <2>3. \A j \in 0..k : g[j] = IF j = 0 THEN 0 ELSE g[j-1] + list[j]
    BY <2>1
  <2>4. Def(g, 0..k)
    BY <2>2, <2>3
  <2> HIDE DEF Def, g
  <2> QED
    BY <2>2, <2>4
<1>3. PICK f \in [0..n -> Int] : Def(f, 0..n)
  <2>1. n \in Q
    <3>1. \A k \in 1..n : k - 1 \in Q => k \in Q
      BY <1>2
    <3> HIDE DEF Q
    <3>2. \A k \in 0..n : k \in Q
      BY <1>1, <3>1, UpTo
    <3> QED
      BY <3>2
  <2> QED
    BY <2>1
<1>4. CumSum(list) = [k \in 0..n |-> IF k = 0 THEN 0 ELSE CumSum(list)[k-1] + list[k]]
  BY <1>0, <1>3 DEF CumSum
<1> DEFINE c == CumSum(list)
<1>5. c = [k \in 0..n |-> IF k = 0 THEN 0 ELSE c[k-1] + list[k]]
  BY <1>4
<1> HIDE DEF c
<1>6. c[0] = 0 /\ \A k \in 1..n : c[k] = c[k-1] + list[k]
  BY <1>5
<1>7. \A k \in 0..n : c[k] \in Int
  <2> DEFINE R == {j \in 0..n : c[j] \in Int}
  <2>1. 0 \in R
    BY <1>6
  <2>2. \A k \in 1..n : k - 1 \in R => k \in R
    BY SMTT(60), <1>6
  <2>3. \A k \in 0..n : k \in R
    <3> HIDE DEF R
    <3> QED
      BY <2>1, <2>2, UpTo
  <2> QED
    BY <2>3
<1>8. c \in [0..n -> Int]
  BY <1>5, <1>7
<1> QED
  BY <1>6, <1>8 DEF c

(* Sums of naturals do not decrease. *)
LEMMA CumSumMonotone ==
  ASSUME NEW n \in Nat, NEW list \in [1..n -> Nat]
  PROVE  /\ CumSum(list) \in [0..n -> Nat]
         /\ \A i, j \in 0..n : i <= j => CumSum(list)[i] <= CumSum(list)[j]
<1> DEFINE c == CumSum(list)
<1>0. list \in [1..n -> Int]
  OBVIOUS
<1>1. c \in [0..n -> Int] /\ c[0] = 0 /\ \A k \in 1..n : c[k] = c[k-1] + list[k]
  BY <1>0, CumSumFacts
<1> HIDE DEF c
<1> DEFINE R == {j \in 0..n : c[j] >= 0 /\ \A i \in 0..j : c[i] <= c[j]}
<1>2. 0 \in R
  BY <1>1
<1>3. ASSUME NEW k \in 1..n, k - 1 \in R PROVE k \in R
  <2>1. c[k] = c[k-1] + list[k] /\ list[k] >= 0 /\ c[k-1] \in Int /\ c[k] \in Int
    BY <1>1
  <2>2. \A i \in 0..(k-1) : c[i] \in Int /\ c[i] <= c[k-1]
    BY <1>1, <1>3
  <2> QED
    BY <1>3, <2>1, <2>2
<1>4. \A k \in 0..n : k \in R
  <2>1. \A k \in 1..n : k - 1 \in R => k \in R
    BY <1>3
  <2> HIDE DEF R
  <2> QED
    BY <1>2, <2>1, UpTo
<1> QED
  BY <1>1, <1>4 DEF c

-----------------------------------------------------------------------------
(* Pages and slots. *)

(* Quotient and remainder of a position by the page size. *)
LEMMA DivFacts ==
  ASSUME NEW n \in Nat
  PROVE  /\ n \div PageSize \in Nat
         /\ n % PageSize \in 0..(PageSize - 1)
         /\ n = (n \div PageSize) * PageSize + (n % PageSize)
<1> DEFINE q == n \div PageSize
           o == n % PageSize
<1>0. PageSize \in Nat /\ PageSize > 1
  BY AllocAssumption
<1>1. q \in Nat
  BY <1>0
<1>2. n = PageSize * q + o /\ o \in 0..(PageSize - 1)
  BY <1>0
<1> HIDE DEF q, o
<1>3. n = q * PageSize + o
  BY <1>0, <1>1, <1>2
<1> QED
  BY <1>0, <1>1, <1>2, <1>3 DEF q, o

(* Multiplying by the page size keeps the order. *)
LEMMA Times ==
  ASSUME NEW a \in Int, NEW b \in Int, a <= b
  PROVE  a * PageSize \in Int /\ b * PageSize \in Int /\ a * PageSize <= b * PageSize
<1>0. PageSize \in Nat /\ PageSize > 1
  BY AllocAssumption
<1> DEFINE pa == a * PageSize
           pb == b * PageSize
           pd == (b - a) * PageSize
<1>1. pa \in Int /\ pb \in Int /\ pd \in Int /\ pd >= 0
  BY <1>0
<1>2. pb = pa + pd
  BY <1>0
<1> HIDE DEF pa, pb, pd
<1>3. pa <= pb
  BY <1>1, <1>2
<1> QED
  BY <1>1, <1>3 DEF pa, pb

(* q pages and an offset below the page size have quotient q. *)
LEMMA DivUnique ==
  ASSUME NEW q \in Nat, NEW o \in 0..(PageSize - 1)
  PROVE  /\ q * PageSize + o \in Nat
         /\ (q * PageSize + o) \div PageSize = q
         /\ (q * PageSize + o) % PageSize = o
<1> DEFINE n == q * PageSize + o
           d == n \div PageSize
           m == n % PageSize
<1>0. PageSize \in Nat /\ PageSize > 1
  BY AllocAssumption
<1>1. n \in Nat
  BY <1>0
<1>2. d \in Nat /\ m \in 0..(PageSize - 1) /\ n = d * PageSize + m
  BY <1>0, <1>1
<1>3. q * PageSize + o = d * PageSize + m
  BY <1>2
<1> HIDE DEF d, m
<1>4. ~ d < q
  <2>1. SUFFICES ASSUME d + 1 <= q PROVE FALSE
    BY <1>2
  <2>2. (d + 1) * PageSize <= q * PageSize /\ q * PageSize \in Int
    BY <2>1, <1>2, Times
  <2>3. (d + 1) * PageSize = d * PageSize + PageSize /\ d * PageSize \in Int
    BY <1>0, <1>2
  <2> QED
    BY <1>0, <1>2, <1>3, <2>2, <2>3
<1>5. ~ q < d
  <2>1. SUFFICES ASSUME q + 1 <= d PROVE FALSE
    BY <1>2
  <2>2. (q + 1) * PageSize <= d * PageSize /\ d * PageSize \in Int
    BY <2>1, <1>2, Times
  <2>3. (q + 1) * PageSize = q * PageSize + PageSize /\ q * PageSize \in Int
    BY <1>0
  <2> QED
    BY <1>0, <1>2, <1>3, <2>2, <2>3
<1>6. d = q
  BY <1>2, <1>4, <1>5
<1>7. m = o
  BY <1>2, <1>3, <1>6, <1>0
<1> QED
  BY <1>1, <1>6, <1>7 DEF d, m

(* The quotient does not decrease. *)
LEMMA DivMono ==
  ASSUME NEW a \in Nat, NEW b \in Nat, a <= b
  PROVE  a \div PageSize <= b \div PageSize
<1> DEFINE x == a \div PageSize
           y == b \div PageSize
<1>0. PageSize \in Nat /\ PageSize > 1
  BY AllocAssumption
<1>1. x \in Nat /\ a % PageSize \in 0..(PageSize - 1) /\ a = x * PageSize + (a % PageSize)
  BY DivFacts
<1>2. y \in Nat /\ b % PageSize \in 0..(PageSize - 1) /\ b = y * PageSize + (b % PageSize)
  BY DivFacts
<1> HIDE DEF x, y
<1>3. SUFFICES ASSUME y + 1 <= x PROVE FALSE
  BY <1>1, <1>2 DEF x, y
<1> DEFINE px == x * PageSize
           py == y * PageSize
<1>4. (y + 1) * PageSize <= px /\ px \in Int
  BY <1>1, <1>2, <1>3, Times
<1>5. (y + 1) * PageSize = py + PageSize /\ py \in Int
  BY <1>0, <1>2
<1>6. a = px + (a % PageSize) /\ b = py + (b % PageSize) /\ py + PageSize <= px
  BY <1>1, <1>2, <1>4, <1>5
<1> HIDE DEF px, py
<1> DEFINE oa == a % PageSize
           ob == b % PageSize
<1>7. oa \in 0..(PageSize - 1) /\ ob \in 0..(PageSize - 1) /\ a = px + oa /\ b = py + ob
  BY <1>0, <1>1, <1>2, <1>6
<1> HIDE DEF oa, ob
<1> QED
  BY <1>0, <1>4, <1>5, <1>6, <1>7

(* Whole pages added add to the quotient. *)
LEMMA DivShift ==
  ASSUME NEW k \in Nat, NEW a \in Nat
  PROVE  /\ k * PageSize \in Nat
         /\ (k * PageSize + a) \div PageSize = k + a \div PageSize
         /\ (k * PageSize + a) % PageSize = a % PageSize
<1> DEFINE x == a \div PageSize
           o == a % PageSize
<1>0. PageSize \in Nat /\ PageSize > 1
  BY AllocAssumption
<1>1. x \in Nat /\ o \in 0..(PageSize - 1) /\ a = x * PageSize + o
  BY <1>0
<1> HIDE DEF x, o
<1>2. k * PageSize + a = (k + x) * PageSize + o
  BY <1>0, <1>1
<1>3. ((k + x) * PageSize + o) \div PageSize = k + x /\ ((k + x) * PageSize + o) % PageSize = o
  BY <1>1, DivUnique
<1> QED
  BY <1>0, <1>2, <1>3 DEF x, o

(* Ceil in terms of the last position. *)
LEMMA CeilFacts ==
  ASSUME NEW n \in Nat
  PROVE  /\ Ceil(n) \in Nat
         /\ n = 0 => Ceil(n) = 0
         /\ n > 0 => Ceil(n) = (n - 1) \div PageSize + 1
<1>0. PageSize \in Nat /\ PageSize > 1
  BY AllocAssumption
<1>1. CASE n = 0
  <2>1. (0 * PageSize + (PageSize - 1)) \div PageSize = 0
    BY <1>0, DivUnique
  <2>2. 0 * PageSize + (PageSize - 1) = 0 + PageSize - 1
    BY <1>0
  <2> QED
    BY <1>1, <2>1, <2>2 DEF Ceil
<1>2. CASE n > 0
  <2>1. (1 * PageSize + (n - 1)) \div PageSize = 1 + (n - 1) \div PageSize
    BY <1>2, DivShift
  <2>2. 1 * PageSize + (n - 1) = n + PageSize - 1
    BY <1>0
  <2>3. (n - 1) \div PageSize \in Nat
    BY <1>2, DivFacts
  <2> QED
    BY <1>2, <2>1, <2>2, <2>3 DEF Ceil
<1> QED
  BY <1>1, <1>2

(* Whole pages added add to Ceil. *)
LEMMA CeilShift ==
  ASSUME NEW k \in Nat, NEW a \in Nat
  PROVE  Ceil(k * PageSize + a) = k + Ceil(a)
<1>0. PageSize \in Nat /\ PageSize > 1
  BY AllocAssumption
<1>1. (k * PageSize + (a + PageSize - 1)) \div PageSize = k + (a + PageSize - 1) \div PageSize
  <2>1. a + PageSize - 1 \in Nat
    BY <1>0
  <2> HIDE DEF Ceil
  <2> QED
    BY <2>1, DivShift
<1>2. k * PageSize + (a + PageSize - 1) = (k * PageSize + a) + PageSize - 1
  BY <1>0
<1> QED
  BY <1>1, <1>2 DEF Ceil

(* More positions take no fewer pages. *)
LEMMA CeilMono ==
  ASSUME NEW a \in Nat, NEW b \in Nat, a <= b
  PROVE  Ceil(a) <= Ceil(b)
<1>0. PageSize \in Nat /\ PageSize > 1
  BY AllocAssumption
<1> QED
  BY <1>0, DivMono DEF Ceil

(* Positions of a row of n that lie in its block k. *)
LEMMA BlockOf ==
  ASSUME NEW n \in Nat, NEW i \in 1..n
  PROVE  /\ (i - 1) \div PageSize \in Nat
         /\ (i - 1) \div PageSize + 1 \in 1..Ceil(n)
         /\ (i - 1) % PageSize \in 0..(PageSize - 1)
         /\ i - 1 = ((i - 1) \div PageSize) * PageSize + ((i - 1) % PageSize)
<1>1. (i - 1) \div PageSize <= (n - 1) \div PageSize
  BY DivMono
<1>2. (i - 1) \div PageSize \in Nat /\ (n - 1) \div PageSize \in Nat
  BY DivFacts
<1>3. Ceil(n) = (n - 1) \div PageSize + 1
  BY CeilFacts
<1> QED
  BY <1>1, <1>2, <1>3, DivFacts

(* The first position of block k. *)
LEMMA BlockStart ==
  ASSUME NEW n \in Nat, NEW k \in 1..Ceil(n)
  PROVE  /\ (k - 1) * PageSize \in Nat
         /\ (k - 1) * PageSize + 1 \in 1..n
         /\ ((k - 1) * PageSize) \div PageSize = k - 1
         /\ ((k - 1) * PageSize) % PageSize = 0
<1> DEFINE y == (n - 1) \div PageSize
<1>0. PageSize \in Nat /\ PageSize > 1
  BY AllocAssumption
<1>1. n > 0 /\ Ceil(n) = y + 1
  BY CeilFacts
<1>2. y \in Nat /\ (n - 1) % PageSize \in 0..(PageSize - 1)
         /\ n - 1 = y * PageSize + ((n - 1) % PageSize)
  BY <1>1, DivFacts
<1> HIDE DEF y
<1>3. (k - 1) * PageSize <= y * PageSize
  BY <1>1, <1>2, Times
<1>4. (k - 1) * PageSize \in Nat /\ y * PageSize \in Nat
  BY <1>0, <1>1, <1>2
<1>5. /\ ((k - 1) * PageSize + 0) \div PageSize = k - 1
      /\ ((k - 1) * PageSize + 0) % PageSize = 0
  <2>1. k - 1 \in Nat /\ 0 \in 0..(PageSize - 1)
    BY <1>0, <1>1, <1>2
  <2> QED
    BY <2>1, DivUnique
<1>6. (k - 1) * PageSize + 0 = (k - 1) * PageSize
  BY <1>4
<1>7. (k - 1) * PageSize <= n - 1
  <2> DEFINE pk == (k - 1) * PageSize
             py == y * PageSize
             o  == (n - 1) % PageSize
  <2>1. pk \in Nat /\ py \in Nat /\ o \in Nat
    BY <1>0, <1>2, <1>4
  <2>2. pk <= py
    BY <1>3
  <2>3. n - 1 = py + o
    BY <1>2
  <2> HIDE DEF pk, py, o
  <2>4. pk <= n - 1
    BY <2>1, <2>2, <2>3
  <2> QED
    BY <2>4 DEF pk
<1> QED
  BY <1>1, <1>4, <1>5, <1>6, <1>7

-----------------------------------------------------------------------------
(* A row is laid out over the pages of its block table, in order. *)

LaidOut(s, t) ==
    /\ s \in Seq(Nat) /\ t \in Seq(Pages)
    /\ Len(t) = Ceil(Len(s))
    /\ \A i \in 1..Len(s) :
           s[i] = Slot(t[(i - 1) \div PageSize + 1], (i - 1) % PageSize)

BlockTable(s) == [k \in 1..Ceil(Len(s)) |-> s[(k - 1) * PageSize + 1] \div PageSize]

(* Page ids are natural numbers. *)
LEMMA PagesAreNat == Pages \subseteq Nat
BY AllocAssumption DEF Pages

(* The page and the offset of a slot. *)
LEMMA SlotFacts ==
  ASSUME NEW page \in Nat, NEW o \in 0..(PageSize - 1)
  PROVE  /\ Slot(page, o) \in Nat
         /\ Slot(page, o) \div PageSize = page
         /\ Slot(page, o) % PageSize = o
BY DivUnique DEF Slot

(* The page and the offset of position i of a laid-out row. *)
LEMMA LaidOutSlots ==
  ASSUME NEW s, NEW t, LaidOut(s, t), NEW i \in 1..Len(s)
  PROVE  /\ (i - 1) \div PageSize + 1 \in 1..Len(t)
         /\ s[i] \div PageSize = t[(i - 1) \div PageSize + 1]
         /\ s[i] % PageSize = (i - 1) % PageSize
<1> DEFINE k == (i - 1) \div PageSize + 1
           o == (i - 1) % PageSize
<1>1. k \in 1..Len(t) /\ o \in 0..(PageSize - 1)
  BY BlockOf DEF LaidOut
<1>3. s[i] = Slot(t[k], o)
  BY DEF LaidOut
<1> HIDE DEF k, o
<1>2. t[k] \in Nat
  <2>1. t \in Seq(Pages)
    BY DEF LaidOut
  <2>2. t[k] \in Pages
    BY <1>1, <2>1, ElementOfSeq
  <2> QED
    BY <2>2, PagesAreNat
<1>4. s[i] \div PageSize = t[k] /\ s[i] % PageSize = o
  BY <1>1, <1>2, <1>3, SlotFacts
<1> QED
  BY <1>1, <1>4 DEF k, o

(* The block table is determined by the row. *)
LEMMA LaidOutTable ==
  ASSUME NEW s, NEW t, LaidOut(s, t)
  PROVE  t = BlockTable(s) /\ PagesIn(s) = Range(t)
<1>0. s \in Seq(Nat) /\ t \in Seq(Pages) /\ Len(t) = Ceil(Len(s)) /\ Len(s) \in Nat
  BY DEF LaidOut
<1>1. ASSUME NEW k \in 1..Len(t)
      PROVE  /\ (k - 1) * PageSize + 1 \in 1..Len(s)
             /\ s[(k - 1) * PageSize + 1] \div PageSize = t[k]
  <2> DEFINE i == (k - 1) * PageSize + 1
  <2>1. /\ i \in 1..Len(s) /\ i - 1 = (k - 1) * PageSize
        /\ ((k - 1) * PageSize) \div PageSize = k - 1
    BY <1>0, BlockStart
  <2>2. (i - 1) \div PageSize + 1 = k
    BY <1>0, <2>1
  <2> HIDE DEF i
  <2>3. s[i] \div PageSize = t[k]
    BY <2>1, <2>2, LaidOutSlots
  <2> QED
    BY <2>1, <2>3 DEF i
<1>2. t = BlockTable(s)
  BY <1>0, <1>1 DEF BlockTable
<1>3. PagesIn(s) \subseteq Range(t)
  BY <1>0, LaidOutSlots DEF PagesIn, Range
<1>4. Range(t) \subseteq PagesIn(s)
  BY <1>0, <1>1 DEF PagesIn, Range
<1> QED
  BY <1>2, <1>3, <1>4

(* The part of a row that starts at a page boundary. *)
LEMMA LaidOutPart ==
  ASSUME NEW s, NEW t, LaidOut(s, t), NEW k \in Nat, NEW b \in Nat,
         k * PageSize <= b, b <= Len(s)
  PROVE  /\ Ceil(b) \in k..Len(t)
         /\ LaidOut(SubSeq(s, k * PageSize + 1, b), SubSeq(t, k + 1, Ceil(b)))
<1> DEFINE a == k * PageSize
           u == SubSeq(s, a + 1, b)
           v == SubSeq(t, k + 1, Ceil(b))
<1>0. /\ s \in Seq(Nat) /\ t \in Seq(Pages) /\ Len(t) = Ceil(Len(s)) /\ Len(s) \in Nat
      /\ Ceil(b) \in Nat /\ Ceil(b) <= Len(t)
  BY CeilMono, CeilFacts DEF LaidOut
<1>1. a \in Nat /\ b - a \in Nat /\ b = a + (b - a)
  <2>1. a \in Nat
    BY DivShift
  <2> HIDE DEF u, v
  <2> QED
    BY <2>1
<1>2. Ceil(b - a) \in Nat /\ Ceil(b) = k + Ceil(b - a)
  BY <1>1, CeilShift, CeilFacts
<1>3. ASSUME NEW i \in 1..(b - a)
      PROVE  /\ (a + i - 1) \div PageSize = k + (i - 1) \div PageSize
             /\ (a + i - 1) % PageSize = (i - 1) % PageSize
  <2>1. i - 1 \in Nat /\ a + i - 1 = k * PageSize + (i - 1)
    BY <1>1
  <2>2. /\ (k * PageSize + (i - 1)) \div PageSize = k + (i - 1) \div PageSize
        /\ (k * PageSize + (i - 1)) % PageSize = (i - 1) % PageSize
    BY <2>1, DivShift
  <2> QED
    BY <2>1, <2>2
<1> HIDE DEF a
<1>4. u \in Seq(Nat) /\ Len(u) = b - a /\ \A i \in 1..(b - a) : u[i] = s[a + i]
  BY <1>0, <1>1
<1>5. v \in Seq(Pages) /\ Len(v) = Ceil(b - a) /\ \A i \in 1..Ceil(b - a) : v[i] = t[k + i]
  <2> DEFINE c == Ceil(b)
  <2>1. c \in Nat /\ c <= Len(t) /\ Ceil(b - a) \in Nat /\ c = k + Ceil(b - a)
    BY <1>0, <1>2
  <2> HIDE DEF c
  <2>2. \A i \in (k + 1)..c : t[i] \in Pages
    BY <1>0, <2>1
  <2>3. /\ SubSeq(t, k + 1, c) \in Seq(Pages)
        /\ Len(SubSeq(t, k + 1, c)) = IF k + 1 <= c THEN c - (k + 1) + 1 ELSE 0
        /\ \A i \in 1..(c - (k + 1) + 1) : SubSeq(t, k + 1, c)[i] = t[(k + 1) + i - 1]
    BY SMTT(60), <2>1, <2>2, SubSeqProperties
  <2>4. c - (k + 1) + 1 = Ceil(b - a) /\ \A i \in Nat : (k + 1) + i - 1 = k + i
    BY <2>1
  <2>5. Len(SubSeq(t, k + 1, c)) = Ceil(b - a)
    BY <2>1, <2>3
  <2> QED
    BY <2>3, <2>4, <2>5 DEF c
<1> HIDE DEF u, v
<1>6. ASSUME NEW i \in 1..(b - a)
      PROVE  u[i] = Slot(v[(i - 1) \div PageSize + 1], (i - 1) % PageSize)
  <2> DEFINE d == (i - 1) \div PageSize
  <2>1. d \in Nat /\ d + 1 \in 1..Ceil(b - a)
    BY <1>1, BlockOf
  <2>2. a + i \in 1..Len(s) /\ (a + i) - 1 = a + i - 1
    BY <1>0, <1>1
  <2>3. s[a + i] = Slot(t[(a + i - 1) \div PageSize + 1], (a + i - 1) % PageSize)
    BY <2>2 DEF LaidOut
  <2>4. (a + i - 1) \div PageSize = k + d /\ (a + i - 1) % PageSize = (i - 1) % PageSize
    BY <1>3
  <2>5. k + d + 1 = k + (d + 1)
    BY <2>1
  <2>6. v[d + 1] = t[k + d + 1]
    BY <2>1, <2>5, <1>5
  <2> HIDE DEF d
  <2>7. u[i] = Slot(v[d + 1], (i - 1) % PageSize)
    BY <1>4, <2>3, <2>4, <2>6
  <2> QED
    BY <2>7 DEF d
<1>7. LaidOut(u, v)
  BY <1>4, <1>5, <1>6 DEF LaidOut
<1> QED
  BY <1>0, <1>2, <1>7 DEF u, v, a

(* free_segment of a whole laid-out part gives each of its pages once. *)
LEMMA RepsOfPages ==
  ASSUME NEW s, NEW t, LaidOut(s, t), NEW start \in Nat, start % PageSize = 0
  PROVE  /\ PageReps(s, start) \in Seq(Nat)
         /\ PageIds(PageReps(s, start)) = t
<1>0. s \in Seq(Nat) /\ Len(t) = Ceil(Len(s)) /\ Len(s) \in Nat /\ Ceil(0) = 0
  BY CeilFacts DEF LaidOut
<1>1. PageReps(s, start) = Stride(s, 0)
  BY DEF PageReps
<1>2. Stride(s, 0) = [i \in 1..Ceil(Len(s)) |-> s[(i - 1) * PageSize + 1]]
  <2>1. (IF Len(s) > 0 THEN Ceil(Len(s) - 0) ELSE 0) = Ceil(Len(s))
    BY <1>0
  <2>2. \A i \in 1..Ceil(Len(s)) : s[0 + (i - 1) * PageSize + 1] = s[(i - 1) * PageSize + 1]
    BY <1>0, BlockStart
  <2> QED
    BY <2>1, <2>2 DEF Stride
<1>3. PageIds(PageReps(s, start)) = BlockTable(s)
  BY ZenonT(60), <1>1, <1>2 DEF PageIds, BlockTable
<1>4. \A i \in 1..Ceil(Len(s)) : s[(i - 1) * PageSize + 1] \in Nat
  BY <1>0, BlockStart
<1>5. Ceil(Len(s)) \in Nat
  BY <1>0, CeilFacts
<1>6. PageReps(s, start) \in Seq(Nat)
  BY <1>1, <1>2, <1>4, <1>5
<1> QED
  BY <1>3, <1>6, LaidOutTable

(* What alloc_extend_kernel writes at position p (from 0) of a row that    *)
(* grows from pre positions, when u are the new pages.                     *)
ExtendedAt(s, u, p) ==
    LET pre == Len(s)
    IN  IF p < Ceil(pre) * PageSize
        THEN s[pre] + 1 + (p - pre)
        ELSE Slot(u[p \div PageSize - Ceil(pre) + 1], p % PageSize)

Extends(added, s, u, n) ==
    /\ added \in Seq(Int) /\ Len(added) = n - Len(s)
    /\ \A j \in 1..(n - Len(s)) : added[j] = ExtendedAt(s, u, Len(s) + j - 1)

(* The rest of the last page, then the new pages in order. *)
LEMMA LaidOutGrow ==
  ASSUME NEW s, NEW t, LaidOut(s, t), NEW u \in Seq(Pages), NEW n \in Nat, Len(s) <= n,
         Ceil(n) = Len(t) + Len(u), NEW added, Extends(added, s, u, n)
  PROVE  LaidOut(s \o added, t \o u)
<1> /\ added \in Seq(Int) /\ Len(added) = n - Len(s)
    /\ \A j \in 1..(n - Len(s)) : added[j] = ExtendedAt(s, u, Len(s) + j - 1)
  BY DEF Extends
<1> DEFINE pre == Len(s)
           row == s \o added
           tab == t \o u
<1>0. /\ s \in Seq(Nat) /\ t \in Seq(Pages) /\ Len(t) = Ceil(pre) /\ pre \in Nat
      /\ PageSize \in Nat /\ PageSize > 1 /\ n \in Nat /\ pre <= n
      /\ Len(t) \in Nat /\ Len(u) \in Nat
  BY AllocAssumption DEF LaidOut
<1>1. /\ Len(row) = n /\ \A i \in 1..pre : row[i] = s[i]
      /\ \A i \in (pre + 1)..n : row[i] = added[i - pre]
  <2>1. s \in Seq(Int) /\ added \in Seq(Int) /\ Len(added) = n - pre
    BY <1>0
  <2>2. /\ Len(row) = pre + (n - pre)
        /\ \A i \in 1..(pre + (n - pre)) : row[i] = IF i <= pre THEN s[i] ELSE added[i - pre]
    BY <2>1, ConcatProperties
  <2> HIDE DEF row
  <2>3. pre + (n - pre) = n
    BY <1>0
  <2> QED
    BY SMTT(60), <1>0, <2>2, <2>3
<1>2. /\ tab \in Seq(Pages) /\ Len(tab) = Ceil(n)
      /\ \A k \in 1..Len(t) : tab[k] = t[k]
      /\ \A k \in (Len(t) + 1)..Ceil(n) : tab[k] = u[k - Len(t)]
  <2>1. /\ tab \in Seq(Pages) /\ Len(tab) = Len(t) + Len(u)
        /\ \A k \in 1..(Len(t) + Len(u)) :
               tab[k] = IF k <= Len(t) THEN t[k] ELSE u[k - Len(t)]
    BY <1>0, ConcatProperties
  <2> HIDE DEF tab
  <2> QED
    BY <1>0, <2>1
<1> HIDE DEF tab
<1>3. ASSUME NEW i \in 1..n
      PROVE  row[i] = Slot(tab[(i - 1) \div PageSize + 1], (i - 1) % PageSize)
  <2> DEFINE d == (i - 1) \div PageSize
             o == (i - 1) % PageSize
  <2>1. d \in Nat /\ d + 1 \in 1..Ceil(n) /\ o \in 0..(PageSize - 1) /\ i - 1 = d * PageSize + o
    BY BlockOf
  <2>2. CASE i <= pre
    <3>1. d + 1 \in 1..Len(t)
      BY <1>0, <2>2, BlockOf
    <3>2. s[i] = Slot(t[d + 1], o)
      BY <1>0, <2>2 DEF LaidOut
    <3>3. row[i] = s[i] /\ tab[d + 1] = t[d + 1]
      BY <1>0, <1>1, <1>2, <2>2, <3>1
    <3> QED
      BY <3>2, <3>3
  <2>3. CASE i > pre
    <3>1. row[i] = ExtendedAt(s, u, i - 1)
      <4>1. i - pre \in 1..(n - pre) /\ pre + (i - pre) - 1 = i - 1 /\ i \in (pre + 1)..n
        BY <1>0, <2>3
      <4>2. added[i - pre] = ExtendedAt(s, u, pre + (i - pre) - 1)
        BY <4>1
      <4> QED
        BY <4>1, <4>2, <1>1
    <3> DEFINE c == Ceil(pre)
    <3>0. c \in Nat /\ Len(t) = c
      BY <1>0
    <3>2. CASE i - 1 < c * PageSize
      <4>1. pre > 0
        <5>1. pre = 0 => c * PageSize = 0
          BY <1>0, CeilFacts
        <5> QED
          BY <1>0, <3>2, <5>1
      <4> DEFINE e == (pre - 1) \div PageSize
                 q == (pre - 1) % PageSize
                 pe == e * PageSize
      <4>2. /\ e \in Nat /\ q \in 0..(PageSize - 1) /\ pre - 1 = pe + q /\ c = e + 1
            /\ e + 1 \in 1..Len(t) /\ s[pre] = Slot(t[e + 1], q)
        <5>1. pre \in 1..pre
          BY <1>0, <4>1
        <5>2. e \in Nat /\ q \in 0..(PageSize - 1) /\ pre - 1 = e * PageSize + q
                /\ e + 1 \in 1..Ceil(pre)
          BY <1>0, <5>1, BlockOf
        <5>3. s[pre] = Slot(t[e + 1], q)
          BY <5>1 DEF LaidOut
        <5>4. c = e + 1
          BY <1>0, <4>1, CeilFacts
        <5> QED
          BY <1>0, <5>2, <5>3, <5>4
      <4>3. row[i] = s[pre] + 1 + ((i - 1) - pre)
        BY <3>1, <3>2 DEF ExtendedAt
      <4> HIDE DEF e, q, c, o, d, row
      <4>4. pe \in Nat /\ c * PageSize = pe + PageSize
        BY <1>0, <4>2
      <4> HIDE DEF pe
      <4>5. i - 1 - pe \in 0..(PageSize - 1)
        BY <1>0, <2>3, <3>2, <4>2, <4>4
      <4>6. d = e /\ o = i - 1 - pe
        <5>1. i - 1 = pe + (i - 1 - pe)
          BY <4>4
        <5>2. (pe + (i - 1 - pe)) \div PageSize = e /\ (pe + (i - 1 - pe)) % PageSize = i - 1 - pe
          BY <4>2, <4>5, DivUnique DEF pe
        <5> QED
          BY <5>1, <5>2 DEF d, o
      <4>7. tab[d + 1] = t[e + 1] /\ t[e + 1] \in Nat
        <5>1. t[e + 1] \in Pages
          BY <1>0, <4>2, ElementOfSeq
        <5> QED
          BY <1>0, <1>2, <4>2, <4>6, <5>1, PagesAreNat
      <4>8. row[i] = t[e + 1] * PageSize + o
        <5> DEFINE x == t[e + 1] * PageSize
        <5>1. x \in Nat /\ s[pre] = x + q
          BY SMTT(60), <1>0, <4>2, <4>7 DEF Slot
        <5> HIDE DEF x
        <5>3. pre \in Nat /\ q \in Nat /\ pre = pe + q + 1 /\ i \in Nat
          BY <1>0, <4>2, <4>4
        <5>2. s[pre] + 1 + ((i - 1) - pre) = x + (i - 1 - pe)
          <6> HIDE DEF pre
          <6> QED
            BY <4>4, <5>1, <5>3
        <5> QED
          BY <4>3, <4>6, <5>2 DEF x
      <4> QED
        BY <4>7, <4>8 DEF Slot, d, o
    <3>3. CASE ~ (i - 1 < c * PageSize)
      <4>1. row[i] = Slot(u[d - c + 1], o)
        BY <3>1, <3>3 DEF ExtendedAt
      <4>2. c <= d
        <5>0. c \in Nat /\ 0 \in 0..(PageSize - 1) /\ i - 1 \in Nat
          BY <1>0, <3>0
        <5> HIDE DEF c
        <5>1. (c * PageSize + 0) \div PageSize = c /\ c * PageSize + 0 \in Nat
          BY <5>0, DivUnique
        <5>2. c * PageSize + 0 <= i - 1
          BY <1>0, <3>0, <3>3
        <5>3. (c * PageSize + 0) \div PageSize <= d
          BY <5>0, <5>1, <5>2, DivMono
        <5> QED
          BY <5>1, <5>3
      <4> HIDE DEF c, d
      <4>3. tab[d + 1] = u[(d + 1) - Len(t)]
        BY <1>0, <1>2, <2>1, <3>0, <4>2
      <4>4. (d + 1) - Len(t) = d - c + 1
        BY <2>1, <3>0
      <4> QED
        BY <4>1, <4>3, <4>4 DEF d
    <3> QED
      BY <3>2, <3>3
  <2> QED
    BY SMTT(60), <1>0, <2>2, <2>3
<1>4. row \in Seq(Nat)
  <2>1. row \in Seq(Int)
    BY <1>0
  <2>2. ASSUME NEW i \in 1..n PROVE row[i] \in Nat
    <3> DEFINE k == (i - 1) \div PageSize + 1
               o == (i - 1) % PageSize
    <3>1. k \in 1..Ceil(n) /\ o \in 0..(PageSize - 1)
      BY BlockOf
    <3>2. row[i] = Slot(tab[k], o)
      BY <1>3
    <3> HIDE DEF k, o
    <3>3. tab[k] \in Nat
      BY <1>2, <3>1, ElementOfSeq, PagesAreNat
    <3> QED
      BY <3>1, <3>2, <3>3, SlotFacts
  <2> HIDE DEF row
  <2>3. row = [i \in 1..n |-> row[i]]
    BY <1>1, <2>1, LenProperties
  <2>4. row \in [1..n -> Nat]
    BY <2>2, <2>3
  <2> QED
    BY <2>4
<1> QED
  BY <1>1, <1>2, <1>3, <1>4 DEF LaidOut, tab

(* NumNewPages of a row that grows. *)
LEMMA NewPagesFacts ==
  ASSUME NEW p \in Nat, NEW n \in Nat, p <= n
  PROVE  /\ NumNewPages(p, n) \in Nat
         /\ Ceil(n) = Ceil(p) + NumNewPages(p, n)
BY CeilFacts, CeilMono DEF NumNewPages

SlotExtends(free, before, a, n, last, p, s, u) ==
    /\ ExtendSlot(free, before, a, n, last, p) \in Int
    /\ ExtendSlot(free, before, a, n, last, p) = ExtendedAt(s, u, p)

(* alloc_extend_kernel fills the last page and the new pages in order.     *)
LEMMA ExtendSlotAt ==
  ASSUME NEW a \in Nat, NEW n \in Nat, NEW p \in Nat, a <= p, p < n,
         NEW s \in Seq(Nat), Len(s) = a, NEW last, a > 0 => last = s[a],
         NEW free \in Seq(Pages), NEW before \in Nat,
         NEW u \in Seq(Pages), Len(u) = NumNewPages(a, n),
         \A k \in 1..Len(u) : u[k] = free[before + k]
  PROVE  SlotExtends(free, before, a, n, last, p, s, u)
<1> SUFFICES /\ ExtendSlot(free, before, a, n, last, p) \in Int
             /\ ExtendSlot(free, before, a, n, last, p) = ExtendedAt(s, u, p)
  BY DEF SlotExtends
<1> DEFINE c == Ceil(a)
           nn == NumNewPages(a, n)
           f == n \div PageSize
           d == p \div PageSize
           o == p % PageSize
           cp == c * PageSize
           g == f * PageSize
           page(k) == free[before + k + 1]
           slot == ExtendSlot(free, before, a, n, last, p)
<1>0. PageSize \in Nat /\ PageSize > 1
  BY AllocAssumption
<1>1. c \in Nat /\ nn \in Nat /\ Ceil(n) = c + nn /\ f \in Nat
  BY NewPagesFacts, CeilFacts, DivFacts
<1>2. cp \in Nat /\ g \in Nat
  <2> HIDE DEF c, f
  <2> QED
    BY <1>0, <1>1
<1>3. d \in Nat /\ o \in 0..(PageSize - 1) /\ p = d * PageSize + o
  BY DivFacts
<1>4. d + 1 <= Ceil(n)
  <2> DEFINE i == p + 1
  <2>1. i \in 1..n /\ i - 1 = p
    OBVIOUS
  <2> HIDE DEF i
  <2>2. (i - 1) \div PageSize + 1 \in 1..Ceil(n)
    BY <2>1, BlockOf
  <2>3. (i - 1) \div PageSize = d
    BY <2>1
  <2> QED
    BY <2>2, <2>3
<1>5. slot = IF p < cp THEN last + 1 + (p - a)
             ELSE IF p < g THEN Slot(page((p - cp) \div PageSize), (p - cp) % PageSize)
             ELSE Slot(page(nn - 1), p - g)
  <2>1. p >= cp <=> ~ (p < cp)
    <3> HIDE DEF cp
    <3> QED BY <1>2
  <2> QED
    BY <2>1 DEF ExtendSlot
<1>6. ExtendedAt(s, u, p) = IF p < cp THEN s[a] + 1 + (p - a) ELSE Slot(u[d - c + 1], o)
  BY DEF ExtendedAt
<1> HIDE DEF slot
<1>7. CASE p < cp
  <2>1. a > 0
    <3>1. a = 0 => cp = 0
      BY <1>0, CeilFacts
    <3> HIDE DEF cp
    <3> QED
      BY <1>7, <3>1
  <2>2. last = s[a] /\ s[a] \in Nat
    BY <2>1
  <2> HIDE DEF cp
  <2>3. slot = s[a] + 1 + (p - a) /\ ExtendedAt(s, u, p) = s[a] + 1 + (p - a)
    BY <1>5, <1>6, <1>7, <2>2
  <2>4. s[a] + 1 + (p - a) \in Int
    BY <2>2
  <2> QED
    BY <2>3, <2>4 DEF slot
<1>8. CASE ~ (p < cp)
  <2>1. c <= d
    <3>1. c \in Nat /\ 0 \in 0..(PageSize - 1)
      BY <1>0, <1>1
    <3>2. (c * PageSize + 0) \div PageSize = c
      BY <3>1, DivUnique
    <3>3. c * PageSize + 0 \in Nat /\ c * PageSize + 0 <= p
      BY <1>2, <1>8
    <3>4. (c * PageSize + 0) \div PageSize <= d
      BY <3>3, DivMono
    <3> QED
      BY <3>2, <3>4
  <2>2. d - c + 1 \in 1..nn /\ u[d - c + 1] = page(d - c)
    <3>0. Len(u) = nn
      OBVIOUS
    <3> HIDE DEF c, nn, d
    <3>1. d - c + 1 \in 1..nn
      BY <1>1, <1>3, <1>4, <2>1
    <3>2. before + (d - c + 1) = before + (d - c) + 1
      BY <1>1, <1>3
    <3>3. u[d - c + 1] = free[before + (d - c + 1)]
      BY <3>0, <3>1
    <3> QED
      BY <3>1, <3>2, <3>3
  <2>3. slot = Slot(page(d - c), o)
    <3>1. CASE p < g
      <4> DEFINE x == p - cp
                 y == x \div PageSize
      <4>1. slot = Slot(page(y), x % PageSize)
        BY <1>5, <1>8, <3>1
      <4>2. x \in Nat /\ p = cp + x
        <5> HIDE DEF cp
        <5> QED BY <1>2, <1>8
      <4> HIDE DEF x
      <4>3. d = c + y /\ o = x % PageSize
        BY <1>1, <4>2, DivShift
      <4>4. y \in Nat
        BY <4>2, DivFacts
      <4> HIDE DEF y, c, d, o
      <4>5. y = d - c
        BY <1>1, <4>3, <4>4
      <4> QED
        BY <4>1, <4>3, <4>5
    <3>2. CASE ~ (p < g)
      <4> DEFINE q == n % PageSize
      <4>1. slot = Slot(page(nn - 1), p - g)
        BY <1>5, <1>8, <3>2
      <4>2. q \in 0..(PageSize - 1) /\ n = g + q
        BY DivFacts
      <4>3. p - g \in 0..(PageSize - 1) /\ (n - 1) - g \in 0..(PageSize - 1) /\ n - 1 \in Nat
              /\ p = g + (p - g) /\ n - 1 = g + ((n - 1) - g)
        <5> HIDE DEF g, q
        <5> QED
          BY <1>0, <1>2, <3>2, <4>2
      <4>4. d = f /\ o = p - g
        <5> DEFINE w == p - g
        <5>1. w \in 0..(PageSize - 1) /\ p = g + w
          BY <4>3
        <5> HIDE DEF w
        <5>2. (g + w) \div PageSize = f /\ (g + w) % PageSize = w
          BY <1>1, <5>1, DivUnique
        <5> QED
          BY <5>1, <5>2 DEF w
      <4>5. (n - 1) \div PageSize = f
        <5> DEFINE w == (n - 1) - g
        <5>1. w \in 0..(PageSize - 1) /\ n - 1 = g + w
          BY <4>3
        <5> HIDE DEF w
        <5>2. (g + w) \div PageSize = f
          BY <1>1, <5>1, DivUnique
        <5> QED
          BY <5>1, <5>2
      <4>6. Ceil(n) = f + 1
        BY <4>5, CeilFacts
      <4> HIDE DEF nn, c, f, d, g, o
      <4>7. nn - 1 = d - c
        BY <1>1, <4>4, <4>6
      <4> QED
        BY <4>1, <4>4, <4>7
    <3> QED
      BY <3>1, <3>2
  <2>4. u[d - c + 1] \in Nat
    <3> HIDE DEF c, d
    <3>1. u[d - c + 1] \in Pages
      BY <2>2, ElementOfSeq
    <3> QED
      BY <3>1, PagesAreNat
  <2>5. slot \in Nat
    <3> HIDE DEF c, d, o
    <3> QED
      BY <1>3, <2>2, <2>3, <2>4, SlotFacts
  <2>6. ExtendedAt(s, u, p) = Slot(page(d - c), o)
    <3>1. ExtendedAt(s, u, p) = Slot(u[d - c + 1], o)
      <4> HIDE DEF c, d, o, cp
      <4> QED
        BY <1>6, <1>8
    <3> HIDE DEF c, d, o, page
    <3> QED
      BY <2>2, <3>1
  <2> HIDE DEF c, d, o, page
  <2> QED
    BY <2>3, <2>5, <2>6 DEF slot
<1> QED
  BY <1>7, <1>8

(* The new slots of request i, when u are the new pages it gets. *)
LEMMA ExtendSlotsAt ==
  ASSUME NEW pre, NEW seq, NEW last, NEW i, NEW s \in Seq(Nat),
         pre[i] = Len(s), seq[i] \in Nat, Len(s) <= seq[i],
         Len(s) > 0 => last[i] = s[Len(s)],
         NEW free \in Seq(Pages), CumNewPages(pre, seq)[i - 1] \in Nat,
         NEW u \in Seq(Pages), Len(u) = NumNewPages(Len(s), seq[i]),
         \A k \in 1..Len(u) : u[k] = free[CumNewPages(pre, seq)[i - 1] + k]
  PROVE  Extends(ExtendSlots(free, pre, seq, last, i), s, u, seq[i])
<1>0. PICK a \in Nat, n \in Nat, before \in Nat,
           added \in {ExtendSlots(free, pre, seq, last, i)} :
        /\ a = pre[i] /\ n = seq[i] /\ a <= n /\ Len(s) = a /\ (a > 0 => last[i] = s[a])
        /\ before = CumNewPages(pre, seq)[i - 1] /\ Len(u) = NumNewPages(a, n)
        /\ (\A k \in 1..Len(u) : u[k] = free[before + k])
  BY SMTT(60)
<1> DEFINE slot(p) == ExtendSlot(free, before, a, n, last[i], p)
<1>9. added = ExtendSlots(free, pre, seq, last, i)
  OBVIOUS
<1>1. added = [j \in 1..(n - a) |-> slot(a + j - 1)]
  BY <1>0, <1>9 DEF ExtendSlots
<1>2. ASSUME NEW j \in 1..(n - a)
      PROVE  slot(a + j - 1) \in Int /\ slot(a + j - 1) = ExtendedAt(s, u, a + j - 1)
  <2> DEFINE p == a + j - 1
  <2>1. p \in Nat /\ a <= p /\ p < n
    BY <1>0
  <2> HIDE DEF p
  <2>3. PICK l : l = last[i] /\ (a > 0 => l = s[a])
    BY <1>0
  <2>4. SlotExtends(free, before, a, n, l, p, s, u)
    BY <1>0, <2>1, <2>3, ExtendSlotAt
  <2>2. slot(p) \in Int /\ slot(p) = ExtendedAt(s, u, p)
    BY <2>3, <2>4 DEF SlotExtends
  <2> QED
    BY <2>2 DEF p
<1> HIDE DEF slot
<1>4. added \in Seq(Int) /\ Len(added) = n - a
  <2> DEFINE m == n - a
  <2>1. added \in [1..m -> Int] /\ m \in Nat
    <3>1. \A j \in 1..m : slot(a + j - 1) \in Int
      BY <1>2
    <3>2. m \in Nat
      BY <1>0
    <3> HIDE DEF slot
    <3> QED
      BY <1>1, <3>1, <3>2
  <2> HIDE DEF m
  <2>2. added \in Seq(Int) /\ Len(added) = m
    BY <2>1, FunSeq
  <2> QED
    BY <2>2 DEF m
<1> QED
  BY <1>0, <1>1, <1>2, <1>4 DEF Extends

-----------------------------------------------------------------------------
(* The proofs about the pool, for the allocator's pool. *)
PoolProofs == INSTANCE PagePoolProofs WITH
    Page  <- Pages,
    avail <- Range(free_pages) \cup Range(release_pages),
    limbo <- Range(DeferredReps) \cup DeferredPages,
    held  <- [r \in Row |-> RowPages(r)],
    open  <- in_free_group

-----------------------------------------------------------------------------
(* Lists of distinct pages. *)

(* When a concatenation repeats nothing. *)
LEMMA InjectiveConcat ==
  ASSUME NEW S, NEW s \in Seq(S), NEW t \in Seq(S)
  PROVE  /\ Range(s \o t) = Range(s) \cup Range(t)
         /\ IsInjective(s \o t) <=>
              IsInjective(s) /\ IsInjective(t) /\ Range(s) \cap Range(t) = {}
<1> DEFINE a == Len(s)
           b == Len(t)
           c == s \o t
<1>1. /\ a \in Nat /\ b \in Nat /\ DOMAIN s = 1..a /\ DOMAIN t = 1..b /\ DOMAIN c = 1..(a + b)
      /\ \A i \in 1..(a + b) : c[i] = IF i <= a THEN s[i] ELSE t[i - a]
  <2>1. c \in Seq(S) /\ Len(c) = a + b
    BY ConcatProperties
  <2>2. DOMAIN c = 1..Len(c)
    BY <2>1, LenProperties
  <2> QED
    BY <2>1, <2>2, LenProperties, ConcatProperties
<1> HIDE DEF a, b, c
<1>2. /\ \A i \in 1..a : i \in 1..(a + b) /\ c[i] = s[i]
      /\ \A i \in 1..b : a + i \in 1..(a + b) /\ c[a + i] = t[i]
      /\ \A i \in 1..(a + b) : i \in 1..a \/ (i - a \in 1..b /\ i = a + (i - a))
  BY <1>1
<1>3. Range(c) = Range(s) \cup Range(t)
  <2>1. \A i \in 1..(a + b) : c[i] \in Range(s) \cup Range(t)
    <3>1. ASSUME NEW i \in 1..(a + b) PROVE c[i] \in Range(s) \cup Range(t)
      <4>1. CASE i \in 1..a
        BY <1>1, <1>2, <4>1 DEF Range
      <4>2. CASE i - a \in 1..b /\ i = a + (i - a)
        <5> DEFINE k == i - a
        <5>1. k \in 1..b /\ c[i] = t[k]
          BY <1>2, <4>2
        <5> HIDE DEF k
        <5> QED
          BY <1>1, <5>1 DEF Range
      <4> QED
        BY <1>2, <4>1, <4>2
    <3> QED
      BY <3>1
  <2>2. \A i \in 1..a : s[i] \in Range(c)
    <3>1. \A i \in 1..a : i \in DOMAIN c /\ c[i] = s[i]
      BY <1>1, <1>2
    <3> QED
      BY <3>1 DEF Range
  <2>3. \A i \in 1..b : t[i] \in Range(c)
    <3>1. \A i \in 1..b : a + i \in DOMAIN c /\ c[a + i] = t[i]
      BY <1>1, <1>2
    <3> QED
      BY <3>1 DEF Range
  <2>4. Range(c) \subseteq Range(s) \cup Range(t)
    BY <1>1, <2>1 DEF Range
  <2>5. Range(s) \subseteq Range(c) /\ Range(t) \subseteq Range(c)
    BY <1>1, <2>2, <2>3 DEF Range
  <2> QED
    BY <2>4, <2>5
<1>4. ASSUME IsInjective(c)
      PROVE  IsInjective(s) /\ IsInjective(t) /\ Range(s) \cap Range(t) = {}
  <2>1. IsInjective(s)
    BY <1>1, <1>2, <1>4 DEF IsInjective
  <2>2. IsInjective(t)
    <3>1. ASSUME NEW i \in 1..b, NEW j \in 1..b, c[a + i] = c[a + j] PROVE i = j
      <4>1. a + i \in DOMAIN c /\ a + j \in DOMAIN c
        BY <1>1, <1>2
      <4>2. a + i = a + j
        BY <1>4, <3>1, <4>1 DEF IsInjective
      <4> QED
        BY <1>1, <4>2
    <3> QED
      BY ZenonT(60), <1>1, <1>2, <3>1 DEF IsInjective
  <2>3. \A i \in 1..a, j \in 1..b : s[i] # t[j]
    <3>1. \A i \in 1..a, j \in 1..b : i # a + j
      BY <1>1
    <3> QED
      BY ZenonT(60), <1>1, <1>2, <1>4, <3>1 DEF IsInjective
  <2> QED
    BY <2>1, <2>2, <2>3, <1>1 DEF Range
<1>5. ASSUME IsInjective(s), IsInjective(t), Range(s) \cap Range(t) = {}
      PROVE  IsInjective(c)
  <2>1. \A i \in 1..a, j \in 1..b : s[i] # t[j]
    BY <1>1, <1>5 DEF Range
  <2>2. ASSUME NEW i \in 1..(a + b), NEW j \in 1..(a + b), c[i] = c[j]
        PROVE  i = j
    <3>1. CASE i \in 1..a /\ j \in 1..a
      BY <1>1, <1>2, <1>5, <2>2, <3>1 DEF IsInjective
    <3>2. CASE i \in 1..a /\ j \notin 1..a
      BY <1>1, <1>2, <2>1, <2>2, <3>2
    <3>3. CASE i \notin 1..a /\ j \in 1..a
      BY <1>1, <1>2, <2>1, <2>2, <3>3
    <3>4. CASE i \notin 1..a /\ j \notin 1..a
      <4>1. i - a \in 1..b /\ j - a \in 1..b /\ t[i - a] = t[j - a]
        BY <1>1, <1>2, <2>2, <3>4
      <4>2. i - a = j - a
        BY <1>1, <1>5, <4>1 DEF IsInjective
      <4> QED
        BY <1>1, <4>2
    <3> QED
      BY <3>1, <3>2, <3>3, <3>4
  <2> QED
    BY <1>1, <2>2 DEF IsInjective
<1> QED
  BY <1>3, <1>4, <1>5 DEF c

(* The empty list. *)
LEMMA EmptyList ==
  /\ \A S : <<>> \in Seq(S)
  /\ Len(<<>>) = 0 /\ Range(<<>>) = {} /\ IsInjective(<<>>)
BY EmptySeq DEF Range, IsInjective

(* Positions a+1..b of a list. *)
IsPart(u, S, s, a, b) ==
    /\ u \in Seq(S) /\ Len(u) = b - a
    /\ \A i \in 1..(b - a) : u[i] = s[a + i]
    /\ Range(u) = {s[x] : x \in (a + 1)..b}
    /\ IsInjective(s) => IsInjective(u)

(* A slice of a list: its length, its entries and what it inherits. *)
LEMMA Part ==
  ASSUME NEW S, NEW s \in Seq(S), NEW a \in Nat, NEW b \in Nat, a <= b, b <= Len(s)
  PROVE  IsPart(SubSeq(s, a + 1, b), S, s, a, b)
<1> DEFINE u == SubSeq(s, a + 1, b)
<1>1. \A i \in (a + 1)..b : s[i] \in S
  BY ElementOfSeq
<1>2. /\ u \in Seq(S) /\ Len(u) = IF a + 1 <= b THEN b - (a + 1) + 1 ELSE 0
      /\ \A i \in 1..(b - (a + 1) + 1) : u[i] = s[(a + 1) + i - 1]
  BY <1>1, SubSeqProperties
<1> HIDE DEF u
<1>3. Len(u) = b - a /\ \A i \in 1..(b - a) : u[i] = s[a + i]
  BY <1>2
<1>4. DOMAIN u = 1..(b - a)
  BY <1>2, <1>3, LenProperties
<1>5. Range(u) = {s[x] : x \in (a + 1)..b}
  <2>1. \A i \in 1..(b - a) : a + i \in (a + 1)..b /\ u[i] = s[a + i]
    BY <1>3
  <2>2. \A x \in (a + 1)..b : x - a \in 1..(b - a) /\ a + (x - a) = x
    OBVIOUS
  <2>3. \A x \in (a + 1)..b : s[x] \in Range(u)
    <3>1. \A x \in (a + 1)..b : x - a \in DOMAIN u /\ u[x - a] = s[x]
      BY <1>4, <2>1, <2>2
    <3> QED
      BY <3>1 DEF Range
  <2>4. \A i \in DOMAIN u : u[i] \in {s[x] : x \in (a + 1)..b}
    BY <1>4, <2>1
  <2> QED
    BY <2>3, <2>4 DEF Range
<1>6. ASSUME IsInjective(s) PROVE IsInjective(u)
  <2>1. ASSUME NEW i \in 1..(b - a), NEW j \in 1..(b - a), u[i] = u[j] PROVE i = j
    <3>1. a + i \in DOMAIN s /\ a + j \in DOMAIN s /\ s[a + i] = s[a + j]
      BY <1>3, <2>1, LenProperties
    <3>2. a + i = a + j
      BY <1>6, <3>1 DEF IsInjective
    <3> QED
      BY <3>2
  <2> QED
    BY <1>4, <2>1 DEF IsInjective
<1> QED
  BY <1>2, <1>3, <1>5, <1>6 DEF u, IsPart

(* Parts that do not overlap share no element of a list without repeats. *)
LEMMA PartsApart ==
  ASSUME NEW S, NEW s \in Seq(S), IsInjective(s),
         NEW a \in Nat, NEW b \in Nat, NEW c \in Nat, NEW d \in Nat,
         a <= b, b <= c, c <= d, d <= Len(s)
  PROVE  Range(SubSeq(s, a + 1, b)) \cap Range(SubSeq(s, c + 1, d)) = {}
<1>1. Range(SubSeq(s, a + 1, b)) = {s[x] : x \in (a + 1)..b}
  <2>1. IsPart(SubSeq(s, a + 1, b), S, s, a, b)
    BY Part
  <2> QED
    BY <2>1 DEF IsPart
<1>2. Range(SubSeq(s, c + 1, d)) = {s[x] : x \in (c + 1)..d}
  <2>1. IsPart(SubSeq(s, c + 1, d), S, s, c, d)
    BY Part
  <2> QED
    BY <2>1 DEF IsPart
<1>3. \A x \in (a + 1)..b, y \in (c + 1)..d : s[x] # s[y]
  <2>1. \A x \in (a + 1)..b, y \in (c + 1)..d : x \in DOMAIN s /\ y \in DOMAIN s /\ x # y
    BY LenProperties
  <2> QED
    BY <2>1 DEF IsInjective
<1> QED
  BY <1>1, <1>2, <1>3

(* torch.sort permutes. *)
LEMMA SortedFacts ==
  ASSUME NEW S, NEW list \in Seq(S), NEW s \in Sorted(list)
  PROVE  /\ s \in Seq(S) /\ Len(s) = Len(list) /\ Range(s) = Range(list)
         /\ IsInjective(list) => IsInjective(s)
<1> DEFINE n == Len(list)
<1>1. n \in Nat /\ DOMAIN list = 1..n /\ list \in [1..n -> S]
  BY LenProperties
<1> HIDE DEF n
<1>2. PICK p \in Bijection(1..n, 1..n) : s = [i \in 1..n |-> list[p[i]]]
  BY <1>1 DEF Sorted
<1>3. p \in [1..n -> 1..n] /\ \A j \in 1..n : \E i \in 1..n : p[i] = j
  BY DEF Bijection, Surjection
<1>4. \A i, j \in 1..n : p[i] = p[j] => i = j
  BY <1>3 DEF Bijection, Injection, IsInjective
<1>5. s \in [1..n -> S]
  BY <1>1, <1>2, <1>3
<1>6. s \in Seq(S) /\ Len(s) = n /\ DOMAIN s = 1..n
  BY <1>1, <1>5, FunSeq
<1>7. Range(s) = Range(list)
  <2>1. \A i \in 1..n : s[i] \in Range(list)
    BY <1>1, <1>2, <1>3 DEF Range
  <2>2. \A j \in 1..n : list[j] \in Range(s)
    BY <1>2, <1>3, <1>6 DEF Range
  <2> QED
    BY <1>1, <1>6, <2>1, <2>2 DEF Range
<1>8. IsInjective(list) => IsInjective(s)
  BY SMTT(60), <1>1, <1>2, <1>3, <1>4, <1>6 DEF IsInjective
<1> QED
  BY <1>6, <1>7, <1>8 DEF n

-----------------------------------------------------------------------------
(* The inductive invariant. *)

Lists ==
    /\ IsInjective(free_pages) /\ IsInjective(release_pages) /\ IsInjective(DeferredReps)
    /\ Range(free_pages) \cap Range(release_pages) = {}
    /\ Range(DeferredReps) \cap DeferredPages = {}

Layout ==
    \A r \in Row : /\ LaidOut(rows[r], BlockTable(rows[r]))
                   /\ IsInjective(BlockTable(rows[r]))

(* Without need_sort nothing ever waits in release_pages. *)
NothingReleased == ~need_sort => release_pages = <<>>

Inv ==
    /\ TypeOK
    /\ Lists
    /\ Layout
    /\ NothingReleased
    /\ RefusedOnlyWhenFull
    /\ PoolProofs!PoolInv

(* merge_and_sort_free reorders the lists, and after it a list shorter     *)
(* than what is wanted is all there is.                                    *)
LEMMA MergedFacts ==
  ASSUME TypeOK, Lists, NothingReleased, NEW n \in Nat, NEW m \in Merged(n)
  PROVE  /\ m[1] \in Seq(Pages) /\ m[2] \in Seq(Pages)
         /\ IsInjective(m[1]) /\ IsInjective(m[2]) /\ Range(m[1]) \cap Range(m[2]) = {}
         /\ Range(m[1]) \cup Range(m[2]) = Range(free_pages) \cup Range(release_pages)
         /\ ~need_sort => m[2] = <<>>
         /\ n <= Len(m[1]) \/ m[2] = <<>>
<1>0. free_pages \in Seq(Pages) /\ release_pages \in Seq(Pages) /\ Len(free_pages) \in Nat
  BY DEF TypeOK
<1>1. CASE need_sort /\ n > Len(free_pages) /\ release_pages # <<>>
  <2>1. PICK s \in Sorted(free_pages \o release_pages) : m = <<s, <<>> >>
    BY <1>1 DEF Merged
  <2>2. /\ free_pages \o release_pages \in Seq(Pages)
        /\ IsInjective(free_pages \o release_pages)
        /\ Range(free_pages \o release_pages) = Range(free_pages) \cup Range(release_pages)
    <3>1. free_pages \o release_pages \in Seq(Pages)
      BY <1>0, ConcatProperties
    <3> QED
      BY <1>0, <3>1, InjectiveConcat DEF Lists
  <2> DEFINE l == free_pages \o release_pages
  <2> HIDE DEF l
  <2>3. s \in Seq(Pages) /\ IsInjective(s) /\ Range(s) = Range(free_pages) \cup Range(release_pages)
    BY <2>1, <2>2, SortedFacts DEF l
  <2> QED
    BY <2>1, <2>3, EmptyList
<1>2. CASE ~ (need_sort /\ n > Len(free_pages) /\ release_pages # <<>>)
  <2>1. m = <<free_pages, release_pages>>
    BY <1>2 DEF Merged
  <2>2. n <= Len(free_pages) \/ release_pages = <<>>
    BY <1>0, <1>2 DEF NothingReleased
  <2> QED
    BY <1>0, <2>1, <2>2 DEF Lists, NothingReleased
<1> QED
  BY <1>1, <1>2

(* The group's variables, and what they stand for. *)
GroupKept == UNCHANGED <<need_sort, in_free_group, free_group, free_page_reps_group>>

(* Allocations leave the deferred frees alone. *)
LEMMA GroupKeptFacts ==
  ASSUME GroupKept
  PROVE  DeferredReps' = DeferredReps /\ DeferredPages' = DeferredPages
BY DEF GroupKept, DeferredReps, DeferredPages, PageIds, PagesIn

(* PoolInv holds after every step of the pool. *)
LEMMA PoolStep ==
  ASSUME PoolProofs!PoolInv, PoolProofs!Next
  PROVE  PoolProofs!PoolInv'
BY PoolProofs!AcquireHolds, PoolProofs!ReleaseHolds, PoolProofs!GroupHolds DEF PoolProofs!Next

(* A refused allocation may have merged the lists; nothing else changes.   *)
LEMMA RefuseStep ==
  ASSUME Inv, NEW n \in Nat, NEW m \in Merged(n), NEW need \in Nat, need <= n,
         need > Len(m[1]), Refuse(m[1], need), release_pages' = m[2], GroupKept
  PROVE  Inv' /\ PoolProofs!Next
<1>0. TypeOK /\ Lists /\ Layout /\ NothingReleased /\ PoolProofs!PoolInv
  BY DEF Inv
<1>1. /\ m[1] \in Seq(Pages) /\ m[2] \in Seq(Pages)
      /\ IsInjective(m[1]) /\ IsInjective(m[2]) /\ Range(m[1]) \cap Range(m[2]) = {}
      /\ Range(m[1]) \cup Range(m[2]) = Range(free_pages) \cup Range(release_pages)
      /\ ~need_sort => m[2] = <<>>
      /\ n <= Len(m[1]) \/ m[2] = <<>>
  BY <1>0, MergedFacts
<1>2. m[2] = <<>>
  BY <1>1
<1>3. rows' = rows /\ free_pages' = m[1] /\ result' = [ok |-> FALSE, need |-> need]
  BY DEF Refuse
<1>4. DeferredReps' = DeferredReps /\ DeferredPages' = DeferredPages
  BY GroupKeptFacts
<1>5. TypeOK'
  BY <1>0, <1>1, <1>3 DEF TypeOK, GroupKept
<1>6. Lists'
  BY <1>0, <1>1, <1>3, <1>4 DEF Lists
<1>7. Layout' /\ NothingReleased'
  BY <1>0, <1>1, <1>3 DEF Layout, NothingReleased, GroupKept
<1>8. RefusedOnlyWhenFull'
  <2>1. Len(m[1]) \in Nat /\ Len(<<>>) = 0
    BY <1>1, EmptyList, LenProperties
  <2>2. result'.need > Len(m[1]) + 0
    BY <1>3, <2>1
  <2> QED
    BY <1>2, <1>3, <2>1, <2>2 DEF RefusedOnlyWhenFull
<1>9. PoolProofs!Acquire
  <2> DEFINE avail == Range(free_pages) \cup Range(release_pages)
             got == [r \in Row |-> {}]
  <2>1. got \in [Row -> SUBSET avail] /\ UNION {got[r] : r \in Row} = {}
    OBVIOUS
  <2>2. avail' = avail \ UNION {got[r] : r \in Row}
    BY <1>1, <1>3, <2>1
  <2>3. [r \in Row |-> RowPages(r)]' = [r \in Row |-> [s \in Row |-> RowPages(s)][r] \cup got[r]]
    BY <1>3 DEF RowPages, PagesIn
  <2>4. \A r, s \in Row : r # s => got[r] \cap got[s] = {}
    OBVIOUS
  <2>5. (Range(DeferredReps) \cup DeferredPages)' = Range(DeferredReps) \cup DeferredPages
    BY <1>4
  <2> HIDE DEF got
  <2> QED
    BY <2>1, <2>2, <2>3, <2>4, <2>5 DEF PoolProofs!Acquire, GroupKept
<1>10. PoolProofs!Next
  BY <1>9 DEF PoolProofs!Next
<1> QED
  BY <1>0, <1>5, <1>6, <1>7, <1>8, <1>10, PoolStep DEF Inv

(* The slices of a list that a cumulative sum cuts off cover its start.    *)
LEMMA SlicesCover ==
  ASSUME NEW k \in Nat, NEW cum \in [0..k -> Nat], cum[0] = 0, NEW x \in 1..cum[k]
  PROVE  \E i \in 1..k : x \in (cum[i - 1] + 1)..cum[i]
<1> DEFINE T == {i \in 0..k : x <= cum[i]}
<1>1. T \in SUBSET Nat /\ k \in T
  OBVIOUS
<1> HIDE DEF T
<1>2. PICK i \in T : \A j \in T : i <= j
  BY <1>1, Least
<1> USE DEF T
<1>3. i # 0 /\ i - 1 \in 0..k /\ i - 1 \notin T
  BY <1>2
<1>4. i \in 1..k /\ x > cum[i - 1] /\ x <= cum[i] /\ cum[i - 1] \in Nat /\ cum[i] \in Nat
  BY <1>3
<1> QED
  BY <1>4

(* A batch of k rows takes consecutive slices of the list m[1]. *)
GrowsBy(m, k, b, cum, out) ==
    /\ b \in Injection(1..k, Row)
    /\ cum \in [0..k -> Nat] /\ cum[0] = 0
    /\ \A i, j \in 0..k : i <= j => cum[i] <= cum[j]
    /\ cum[k] <= Len(m[1])
    /\ \A i \in 1..k : LaidOut(rows[b[i]] \o out[i],
                              BlockTable(rows[b[i]]) \o SubSeq(m[1], cum[i-1] + 1, cum[i]))
    /\ Grow(b, m[1], cum[k], out)
    /\ release_pages' = m[2]
    /\ GroupKept

(* The rows stay laid out, and the pages move from the list to the rows,   *)
(* each to one row.                                                        *)
LEMMA GrowStep ==
  ASSUME Inv, NEW n \in Nat, NEW m \in Merged(n), NEW k \in Nat, NEW b, NEW cum, NEW out,
         GrowsBy(m, k, b, cum, out)
  PROVE  Inv' /\ PoolProofs!Next
<1> /\ b \in Injection(1..k, Row) /\ cum \in [0..k -> Nat] /\ cum[0] = 0
    /\ \A i, j \in 0..k : i <= j => cum[i] <= cum[j]
    /\ cum[k] <= Len(m[1])
    /\ \A i \in 1..k : LaidOut(rows[b[i]] \o out[i],
                              BlockTable(rows[b[i]]) \o SubSeq(m[1], cum[i-1] + 1, cum[i]))
    /\ Grow(b, m[1], cum[k], out) /\ release_pages' = m[2] /\ GroupKept
  BY DEF GrowsBy
<1> DEFINE free == m[1]
           rest == m[2]
           need == cum[k]
           slice(i) == SubSeq(free, cum[i - 1] + 1, cum[i])
           avail == Range(free_pages) \cup Range(release_pages)
           inb(r) == \E i \in 1..k : b[i] = r
           ix(r) == CHOOSE i \in 1..k : b[i] = r
           got == [r \in Row |-> IF inb(r) THEN Range(slice(ix(r))) ELSE {}]
<1>0. TypeOK /\ Lists /\ Layout /\ NothingReleased /\ PoolProofs!PoolInv
  BY DEF Inv
<1>1. /\ free \in Seq(Pages) /\ rest \in Seq(Pages)
      /\ IsInjective(free) /\ IsInjective(rest) /\ Range(free) \cap Range(rest) = {}
      /\ Range(free) \cup Range(rest) = avail
      /\ ~need_sort => rest = <<>>
  BY <1>0, MergedFacts
<1>2. b \in [1..k -> Row] /\ DOMAIN b = 1..k /\ \A i, j \in 1..k : b[i] = b[j] => i = j
  BY DEF Injection, IsInjective
<1>3. ASSUME NEW r \in Row, inb(r) PROVE ix(r) \in 1..k /\ b[ix(r)] = r
  BY <1>3
<1>4. ASSUME NEW i \in 1..k
      PROVE  /\ cum[i - 1] \in Nat /\ cum[i] \in Nat /\ cum[i - 1] <= cum[i] /\ cum[i] <= need
             /\ cum[i] <= Len(free)
  <2>1. i - 1 \in 0..k /\ i \in 0..k /\ k \in 0..k /\ i - 1 <= i /\ i <= k
    OBVIOUS
  <2>2. cum[i - 1] \in Nat /\ cum[i] \in Nat /\ cum[k] \in Nat
          /\ cum[i - 1] <= cum[i] /\ cum[i] <= cum[k] /\ Len(free) \in Nat
    <3>1. Len(free) \in Nat
      BY <1>1, LenProperties
    <3>2. cum[i - 1] \in Nat /\ cum[i] \in Nat /\ cum[k] \in Nat
      BY <2>1
    <3>3. cum[i - 1] <= cum[i] /\ cum[i] <= cum[k]
      BY <2>1
    <3> QED
      BY <3>1, <3>2, <3>3
  <2> HIDE DEF free
  <2> QED
    BY <2>2 DEF free
<1>5. ASSUME NEW i \in 1..k
      PROVE  /\ slice(i) \in Seq(Pages) /\ IsInjective(slice(i))
             /\ Range(slice(i)) = {free[x] : x \in (cum[i - 1] + 1)..cum[i]}
  <2> DEFINE c == cum[i - 1]
             d == cum[i]
  <2>1. c \in Nat /\ d \in Nat /\ c <= d /\ d <= Len(free)
    BY <1>4
  <2> HIDE DEF c, d, free
  <2>2. IsPart(SubSeq(free, c + 1, d), Pages, free, c, d)
    BY <1>1, <2>1, Part
  <2> QED
    BY <1>1, <2>2 DEF c, d, IsPart
<1>6. need \in Nat /\ need <= Len(free) /\ Len(free) \in Nat
  BY <1>1
<1>7. /\ free_pages' = SubSeq(free, need + 1, Len(free))
      /\ free_pages' \in Seq(Pages) /\ IsInjective(free_pages')
      /\ Range(free_pages') = {free[x] : x \in (need + 1)..Len(free)}
  <2>1. free_pages' = SubSeq(free, need + 1, Len(free))
    BY DEF Grow
  <2> DEFINE l == Len(free)
  <2>2. l \in Nat /\ need \in Nat /\ need <= l /\ l <= Len(free)
    BY <1>6
  <2> HIDE DEF free, need, l
  <2>3. IsPart(SubSeq(free, need + 1, l), Pages, free, need, l)
    BY <1>1, <2>2, Part
  <2> QED
    BY <1>1, <2>1, <2>3 DEF l, IsPart
<1>8. release_pages' = rest /\ result' = Done
  BY DEF Grow
<1>9. \A r \in Row : rows'[r] = IF inb(r) THEN rows[r] \o out[ix(r)] ELSE rows[r]
  BY <1>2 DEF Grow
<1>10. DeferredReps' = DeferredReps /\ DeferredPages' = DeferredPages
  BY GroupKeptFacts
<1>11. \A i, j \in DOMAIN free : free[i] = free[j] => i = j
  BY <1>1 DEF IsInjective
<1>12. DOMAIN free = 1..Len(free)
  BY <1>1, LenProperties
<1>13. ASSUME NEW i \in 1..k, NEW j \in 1..k, i < j
       PROVE  Range(slice(i)) \cap Range(slice(j)) = {}
  <2>1. cum[i] <= cum[j - 1]
    <3>1. i \in 0..k /\ j - 1 \in 0..k /\ i <= j - 1
      BY <1>13
    <3> QED
      BY <3>1
  <2>2. Range(slice(i)) = {free[x] : x \in (cum[i - 1] + 1)..cum[i]}
    BY <1>5
  <2>3. Range(slice(j)) = {free[x] : x \in (cum[j - 1] + 1)..cum[j]}
    BY <1>5
  <2>4. ASSUME NEW x \in (cum[i - 1] + 1)..cum[i], NEW y \in (cum[j - 1] + 1)..cum[j]
        PROVE  free[x] # free[y]
    <3>1. /\ cum[i - 1] \in Nat /\ cum[i] \in Nat /\ cum[j - 1] \in Nat /\ cum[j] \in Nat
          /\ cum[i] <= Len(free) /\ cum[j] <= Len(free)
      BY <1>4
    <3> HIDE DEF free, need
    <3> DEFINE c == cum[i - 1]
               d == cum[i]
               e == cum[j - 1]
               f == cum[j]
    <3>2. c \in Nat /\ d \in Nat /\ e \in Nat /\ f \in Nat /\ x \in (c + 1)..d /\ y \in (e + 1)..f
            /\ d <= Len(free) /\ f <= Len(free) /\ d <= e /\ Len(free) \in Nat
      BY <1>6, <2>1, <3>1
    <3> HIDE DEF c, d, e, f
    <3>3. x \in 1..Len(free) /\ y \in 1..Len(free) /\ x # y
      BY ONLY <3>2
    <3> QED
      BY <1>11, <1>12, <3>3
  <2> QED
    BY <2>2, <2>3, <2>4
<1>14. ASSUME NEW r \in Row
       PROVE  /\ got[r] \subseteq avail
              /\ LaidOut(rows'[r], BlockTable(rows'[r])) /\ IsInjective(BlockTable(rows'[r]))
              /\ RowPages(r)' = RowPages(r) \cup got[r]
  <2> DEFINE t == BlockTable(rows[r])
  <2>0. LaidOut(rows[r], t) /\ IsInjective(t)
    BY <1>0 DEF Layout
  <2>1. t \in Seq(Pages) /\ Range(t) = RowPages(r)
    BY <2>0, LaidOutTable DEF LaidOut, RowPages
  <2>2. CASE inb(r)
    <3> DEFINE i == ix(r)
               u == slice(i)
               row == rows[r] \o out[i]
    <3>1. i \in 1..k /\ b[i] = r
      BY <1>3, <2>2
    <3> HIDE DEF i
    <3>2. LaidOut(row, t \o u) /\ rows'[r] = row
      BY <1>9, <2>2, <3>1 DEF i
    <3>3. u \in Seq(Pages) /\ IsInjective(u) /\ Range(u) = {free[x] : x \in (cum[i - 1] + 1)..cum[i]}
      BY <1>5, <3>1
    <3>4. Range(u) \subseteq Range(free)
      <4>1. \A x \in (cum[i - 1] + 1)..cum[i] : x \in DOMAIN free
        <5>1. cum[i - 1] \in Nat /\ cum[i] \in Nat /\ cum[i] <= Len(free)
          BY <1>4, <3>1
        <5> HIDE DEF free
        <5> QED
          BY <1>6, <1>12, <5>1
      <4> QED
        BY <3>3, <4>1 DEF Range
    <3>5. got[r] = Range(u)
      BY <2>2 DEF i
    <3> HIDE DEF u, t, got
    <3>6. t \o u = BlockTable(row) /\ PagesIn(row) = Range(t \o u)
      BY <3>2, LaidOutTable
    <3>7. Range(t) \cap Range(free) = {}
      BY <1>0, <1>1, <2>1 DEF PoolProofs!PoolInv, PoolProofs!Partition
    <3>8. IsInjective(t \o u) /\ Range(t \o u) = Range(t) \cup Range(u)
      BY <2>0, <2>1, <3>3, <3>4, <3>7, InjectiveConcat DEF t
    <3>9. RowPages(r)' = PagesIn(row)
      BY <3>2 DEF RowPages
    <3> QED
      BY <1>1, <2>1, <3>2, <3>4, <3>5, <3>6, <3>8, <3>9 DEF t
  <2>3. CASE ~ inb(r)
    <3>1. rows'[r] = rows[r] /\ got[r] = {}
      BY <1>9, <2>3
    <3>2. RowPages(r)' = RowPages(r)
      BY <3>1 DEF RowPages
    <3> QED
      BY <2>0, <3>1, <3>2
  <2> QED
    BY <2>2, <2>3
<1>15. ASSUME NEW r \in Row, NEW s \in Row, r # s PROVE got[r] \cap got[s] = {}
  <2>1. CASE inb(r) /\ inb(s)
    <3> DEFINE i == ix(r)
               j == ix(s)
    <3>1. i \in 1..k /\ j \in 1..k /\ i # j
      BY <1>3, <1>15, <2>1
    <3>2. got[r] = Range(slice(i)) /\ got[s] = Range(slice(j))
      BY <2>1
    <3> HIDE DEF i, j, got
    <3>3. i < j \/ j < i
      BY <3>1
    <3>4. Range(slice(i)) \cap Range(slice(j)) = {}
      <4>1. CASE i < j
        BY <1>13, <3>1, <4>1
      <4>2. CASE j < i
        <5>1. Range(slice(j)) \cap Range(slice(i)) = {}
          BY <1>13, <3>1, <4>2
        <5> QED
          BY <5>1
      <4> QED
        BY <3>3, <4>1, <4>2
    <3> QED
      BY <3>2, <3>4
  <2>2. CASE ~ inb(r) \/ ~ inb(s)
    <3>1. got[r] = {} \/ got[s] = {}
      BY <2>2
    <3> QED
      BY <3>1
  <2> QED
    BY <2>1, <2>2
<1>16. UNION {got[r] : r \in Row} = {free[x] : x \in 1..need}
  <2>1. ASSUME NEW r \in Row, NEW p \in got[r] PROVE p \in {free[x] : x \in 1..need}
    <3>1. inb(r) /\ p \in Range(slice(ix(r)))
      BY <2>1
    <3> DEFINE i == ix(r)
    <3>2. i \in 1..k
      BY <1>3, <3>1
    <3>3. p \in Range(slice(i))
      BY <3>1
    <3> HIDE DEF i
    <3>4. PICK x \in (cum[i - 1] + 1)..cum[i] : p = free[x]
      BY <1>5, <3>2, <3>3
    <3>5. x \in 1..need
      <4>1. cum[i - 1] \in Nat /\ cum[i] \in Nat /\ cum[i] <= need
        BY <1>4, <3>2
      <4> HIDE DEF need
      <4> QED
        BY SMTT(60), <1>6, <4>1
    <3> QED
      BY <3>4, <3>5
  <2>2. ASSUME NEW x \in 1..need PROVE \E r \in Row : free[x] \in got[r]
    <3>1. PICK i \in 1..k : x \in (cum[i - 1] + 1)..cum[i]
      BY SlicesCover
    <3>2. free[x] \in Range(slice(i))
      BY <1>5, <3>1
    <3> DEFINE r == b[i]
    <3>3. r \in Row /\ inb(r)
      BY <1>2
    <3> HIDE DEF r
    <3>4. ix(r) \in 1..k /\ b[ix(r)] = r
      BY <1>3, <3>3
    <3>5. ix(r) = i
      BY <1>2, <3>4 DEF r
    <3>6. got[r] = Range(slice(i))
      BY <3>3, <3>5
    <3> QED
      BY <3>2, <3>3, <3>6
  <2> HIDE DEF got, free, need
  <2>3. \A x \in 1..need : free[x] \in UNION {got[r] : r \in Row}
    BY ONLY <2>2
  <2>4. \A r \in Row : got[r] \subseteq {free[x] : x \in 1..need}
    BY ONLY <2>1
  <2> QED
    BY ONLY <2>3, <2>4
<1>17. TypeOK'
  <2>1. rows' \in [Row -> Seq(Nat)]
    <3>1. rows' = [r \in Row |-> rows'[r]]
      BY DEF Grow
    <3>2. \A r \in Row : rows'[r] \in Seq(Nat)
      BY <1>14 DEF LaidOut
    <3> QED
      BY <3>1, <3>2
  <2> QED
    BY <1>0, <1>1, <1>7, <1>8, <2>1 DEF TypeOK, GroupKept, Done
<1>18. Range(free_pages') \subseteq Range(free) /\ Range(free_pages') \cap {free[x] : x \in 1..need} = {}
         /\ Range(free) = Range(free_pages') \cup {free[x] : x \in 1..need}
  <2> HIDE DEF free, need
  <2>1. Range(free) = {free[x] : x \in 1..Len(free)}
    BY <1>12 DEF Range
  <2>2. \A x \in 1..Len(free) : x \in 1..need \/ x \in (need + 1)..Len(free)
    BY <1>6
  <2>3. \A x \in 1..need : x \in 1..Len(free)
    BY <1>6
  <2>4. \A y \in (need + 1)..Len(free) : y \in 1..Len(free)
    BY <1>6
  <2>5. \A x \in 1..need, y \in (need + 1)..Len(free) : x # y
    BY <1>6
  <2>6. \A x \in 1..need, y \in (need + 1)..Len(free) : free[x] # free[y]
    BY <1>11, <1>12, <2>3, <2>4, <2>5
  <2> QED
    BY <1>7, <2>1, <2>2, <2>3, <2>4, <2>6
<1>19. Lists'
  BY <1>0, <1>1, <1>7, <1>8, <1>10, <1>18 DEF Lists
<1>20. Layout' /\ NothingReleased' /\ RefusedOnlyWhenFull'
  BY <1>1, <1>8, <1>14 DEF Layout, NothingReleased, RefusedOnlyWhenFull, GroupKept, Done
<1>21. PoolProofs!Acquire
  <2>1. got \in [Row -> SUBSET avail]
    BY <1>14
  <2>2. avail' = avail \ UNION {got[r] : r \in Row}
    <3>1. avail' = Range(free_pages') \cup Range(rest)
      BY <1>8
    <3>2. {free[x] : x \in 1..need} \cap Range(rest) = {}
      BY <1>1, <1>18
    <3> HIDE DEF avail, got, free, need, rest
    <3> QED
      BY <1>1, <1>16, <1>18, <3>1, <3>2
  <2>3. [r \in Row |-> RowPages(r)]' = [r \in Row |-> [s \in Row |-> RowPages(s)][r] \cup got[r]]
    BY <1>14
  <2>4. \A r, s \in Row : r # s => got[r] \cap got[s] = {}
    BY <1>15
  <2>5. (Range(DeferredReps) \cup DeferredPages)' = Range(DeferredReps) \cup DeferredPages
    BY <1>10
  <2> HIDE DEF got
  <2> QED
    BY <2>1, <2>2, <2>3, <2>4, <2>5 DEF PoolProofs!Acquire, GroupKept
<1>22. PoolProofs!Next
  BY <1>21 DEF PoolProofs!Next
<1> QED
  BY <1>0, <1>17, <1>19, <1>20, <1>22, PoolStep DEF Inv

(* Whole pages cover n positions with less than a page to spare. *)
LEMMA CeilBounds ==
  ASSUME NEW n \in Nat
  PROVE  /\ Ceil(n) * PageSize \in Nat
         /\ n <= Ceil(n) * PageSize /\ Ceil(n) * PageSize <= n + PageSize - 1
<1> DEFINE x == n + PageSize - 1
           q == x \div PageSize
           o == x % PageSize
           w == q * PageSize
<1>0. PageSize \in Nat /\ PageSize > 1 /\ x \in Nat
  BY AllocAssumption
<1>1. q \in Nat /\ o \in 0..(PageSize - 1) /\ x = w + o
  <2> HIDE DEF x
  <2> QED
    BY <1>0, DivFacts
<1>2. w \in Nat
  <2> HIDE DEF q
  <2> QED
    BY <1>0, <1>1
<1> HIDE DEF w, o, q
<1>3. n <= w /\ w <= n + PageSize - 1
  BY <1>0, <1>1, <1>2
<1> QED
  BY <1>2, <1>3 DEF w, q, Ceil

(* Growing by e positions opens at most e // page_size + 1 pages. *)
LEMMA NewPagesBound ==
  ASSUME NEW p \in Nat, NEW e \in Nat
  PROVE  /\ NumNewPages(p, p + e) \in Nat
         /\ NumNewPages(p, p + e) * PageSize \in Nat
         /\ NumNewPages(p, p + e) * PageSize <= e + PageSize
<1> DEFINE c == Ceil(p)
           d == Ceil(p + e)
           x == NumNewPages(p, p + e)
           pc == c * PageSize
           pd == d * PageSize
           px == x * PageSize
<1>0. PageSize \in Nat /\ PageSize > 1 /\ p + e \in Nat
  BY AllocAssumption
<1>1. pc \in Nat /\ p <= pc
  BY CeilBounds
<1>2. pd \in Nat /\ pd <= (p + e) + PageSize - 1
  BY <1>0, CeilBounds
<1>3. x \in Nat /\ d = c + x /\ c \in Nat
  BY <1>0, NewPagesFacts, CeilFacts
<1>4. px \in Nat /\ pd = pc + px
  <2> HIDE DEF c, d, x
  <2> QED
    BY <1>0, <1>3
<1> HIDE DEF pc, pd, px
<1>5. px <= e + PageSize
  BY <1>0, <1>1, <1>2, <1>4
<1> QED
  BY <1>3, <1>4, <1>5 DEF px

(* cum sums up the new pages of a batch of k; n is enough for all of them. *)
BatchSums(k, pre, seq, cum, n) ==
    /\ cum \in [0..k -> Nat] /\ cum[0] = 0
    /\ \A i \in 1..k : cum[i] = cum[i - 1] + NumNewPages(pre[i], seq[i])
    /\ \A i, j \in 0..k : i <= j => cum[i] <= cum[j]
    /\ n \in Nat /\ cum[k] <= n

(* The estimate of alloc_extend is never below what the batch needs. *)
LEMMA WantedIsEnough ==
  ASSUME NEW k \in Nat, NEW pre \in [1..k -> Nat], NEW ext \in [1..k -> Nat], NEW seq,
         seq = [i \in 1..k |-> pre[i] + ext[i]]
  PROVE  BatchSums(k, pre, seq, CumNewPages(pre, seq), ExtendPagesWanted(CumSum(ext)[k], k))
<1> DEFINE list == [i \in 1..k |-> NumNewPages(pre[i], seq[i])]
           c == CumSum(list)
           e == CumSum(ext)
<1>0. PageSize \in Nat /\ PageSize > 1
  BY AllocAssumption
<1>1. CumNewPages(pre, seq) = c
  BY DEF CumNewPages
<1>2. ASSUME NEW i \in 1..k
      PROVE  /\ list[i] \in Nat /\ list[i] * PageSize \in Nat
             /\ list[i] * PageSize <= ext[i] + PageSize
  <2>1. pre[i] \in Nat /\ ext[i] \in Nat /\ list[i] = NumNewPages(pre[i], pre[i] + ext[i])
    OBVIOUS
  <2> HIDE DEF list
  <2> QED
    BY <2>1, NewPagesBound
<1>3. list \in [1..k -> Nat]
  BY <1>2
<1>10. \A i \in 1..k : list[i] = NumNewPages(pre[i], seq[i])
  OBVIOUS
<1> HIDE DEF list
<1>4. /\ c \in [0..k -> Nat] /\ c[0] = 0 /\ \A i \in 1..k : c[i] = c[i - 1] + list[i]
      /\ \A i, j \in 0..k : i <= j => c[i] <= c[j]
  <2>1. list \in [1..k -> Int]
    BY <1>3
  <2> QED
    BY <1>3, <2>1, CumSumFacts, CumSumMonotone
<1>5. e \in [0..k -> Nat] /\ e[0] = 0 /\ \A i \in 1..k : e[i] = e[i - 1] + ext[i]
  <2>1. ext \in [1..k -> Int]
    OBVIOUS
  <2> QED
    BY <2>1, CumSumFacts, CumSumMonotone
<1> HIDE DEF c, e
<1> DEFINE Q == {i \in 0..k : c[i] * PageSize <= e[i] + i * PageSize}
<1>6. 0 \in Q
  BY <1>0, <1>4, <1>5
<1>7. ASSUME NEW i \in 1..k, i - 1 \in Q PROVE i \in Q
  <2> DEFINE x == c[i - 1]
             y == list[i]
             px == x * PageSize
             py == y * PageSize
             pi == (i - 1) * PageSize
  <2>1. /\ x \in Nat /\ y \in Nat /\ c[i] = x + y /\ py \in Nat /\ py <= ext[i] + PageSize
        /\ e[i - 1] \in Nat /\ e[i] = e[i - 1] + ext[i] /\ ext[i] \in Nat
    <3>1. i - 1 \in 0..k /\ i \in 0..k
      OBVIOUS
    <3>2. x \in Nat /\ y \in Nat /\ py \in Nat /\ py <= ext[i] + PageSize
      BY <1>2, <1>4, <3>1
    <3>3. c[i] = x + y
      BY <1>4
    <3>4. e[i - 1] \in Nat /\ e[i] = e[i - 1] + ext[i] /\ ext[i] \in Nat
      BY <1>5, <3>1
    <3> QED
      BY <3>2, <3>3, <3>4
  <2>2. px <= e[i - 1] + pi
    BY <1>7
  <2>3. px \in Nat /\ pi \in Nat /\ c[i] * PageSize = px + py /\ i * PageSize = pi + PageSize
    <3> HIDE DEF x, y
    <3>1. px \in Nat /\ c[i] * PageSize = px + py
      BY <1>0, <2>1
    <3>2. pi \in Nat /\ i * PageSize = pi + PageSize
      BY <1>0
    <3> QED
      BY <3>1, <3>2
  <2> HIDE DEF x, y, px, py, pi
  <2>4. px + py <= e[i] + (pi + PageSize)
    <3> DEFINE f == e[i - 1]
               g == ext[i]
    <3>1. /\ f \in Nat /\ g \in Nat /\ e[i] = f + g /\ px <= f + pi /\ py <= g + PageSize
          /\ px \in Nat /\ py \in Nat /\ pi \in Nat
      BY <2>1, <2>2, <2>3
    <3> HIDE DEF f, g, Q
    <3>2. px + py <= (f + g) + (pi + PageSize)
      BY ONLY <1>0, <3>1
    <3> QED
      BY <3>1, <3>2
  <2> QED
    BY <2>3, <2>4
<1>8. c[k] * PageSize <= e[k] + k * PageSize
  <2>1. \A i \in 1..k : i - 1 \in Q => i \in Q
    BY <1>7
  <2>2. k \in Q
    <3> HIDE DEF Q
    <3>1. \A i \in 0..k : i \in Q
      BY <1>6, <2>1, UpTo
    <3> QED
      BY <3>1
  <2> QED
    BY <2>2
<1>9. ExtendPagesWanted(e[k], k) \in Nat /\ c[k] <= ExtendPagesWanted(e[k], k)
  <2> DEFINE x == c[k]
             z == e[k]
             px == x * PageSize
             pk == k * PageSize
             d == z \div PageSize
  <2>1. x \in Nat /\ z \in Nat /\ px <= z + pk
    BY <1>4, <1>5, <1>8
  <2> HIDE DEF x, z
  <2>2. px \in Nat /\ pk \in Nat
    BY <1>0, <2>1
  <2>3. (pk + z) \div PageSize = k + d /\ d \in Nat
    BY <2>1, DivShift, DivFacts
  <2>4. (px + 0) \div PageSize = x
    BY <1>0, <2>1, DivUnique
  <2> HIDE DEF px, pk
  <2>5. px + 0 \in Nat /\ pk + z \in Nat /\ px + 0 <= pk + z
    BY <2>1, <2>2
  <2>6. (px + 0) \div PageSize <= (pk + z) \div PageSize
    BY <2>5, DivMono
  <2> HIDE DEF d
  <2>7. x <= d + k + 1 /\ d + k + 1 \in Nat
    BY <2>1, <2>3, <2>4, <2>6
  <2> QED
    BY <2>7 DEF x, z, d, ExtendPagesWanted
<1> QED
  BY <1>1, <1>4, <1>9, <1>10 DEF e, BatchSums

(* The slots alloc_extend_kernel writes for request i of a batch keep the  *)
(* row laid out, over the old pages and the slice of new ones.             *)
LEMMA RowExtends ==
  ASSUME NEW k \in Nat, NEW i \in 1..k, NEW s, LaidOut(s, BlockTable(s)),
         NEW pre, NEW seq, NEW last, pre[i] = Len(s), seq[i] \in Nat, pre[i] <= seq[i],
         Len(s) > 0 => last[i] = s[Len(s)],
         NEW free \in Seq(Pages), NEW cum \in [0..k -> Nat], cum = CumNewPages(pre, seq),
         cum[i] = cum[i - 1] + NumNewPages(pre[i], seq[i]), cum[i] <= Len(free)
  PROVE  LaidOut(s \o ExtendSlots(free, pre, seq, last, i),
                 BlockTable(s) \o SubSeq(free, cum[i - 1] + 1, cum[i]))
<1> DEFINE a == Len(s)
           n == seq[i]
           t == BlockTable(s)
           c == cum[i - 1]
           d == cum[i]
           u == SubSeq(free, c + 1, d)
           added == ExtendSlots(free, pre, seq, last, i)
<1>1. s \in Seq(Nat) /\ t \in Seq(Pages) /\ Len(t) = Ceil(a) /\ a \in Nat
  BY DEF LaidOut
<1>2. n \in Nat /\ a = pre[i] /\ n = seq[i] /\ a <= n /\ (a > 0 => last[i] = s[a])
  OBVIOUS
<1>3. c \in Nat /\ d \in Nat /\ d = c + NumNewPages(a, n) /\ d <= Len(free)
  OBVIOUS
<1>4. c = CumNewPages(pre, seq)[i - 1]
  OBVIOUS
<1> HIDE DEF a, n, c, d
<1>5. NumNewPages(a, n) \in Nat /\ Ceil(n) = Ceil(a) + NumNewPages(a, n)
  BY <1>1, <1>2, NewPagesFacts
<1>6. IsPart(u, Pages, free, c, d)
  <2>1. c <= d
    BY <1>3, <1>5
  <2> QED
    BY <1>3, <2>1, Part
<1>7. u \in Seq(Pages) /\ Len(u) = NumNewPages(a, n) /\ \A j \in 1..Len(u) : u[j] = free[c + j]
  <2>1. d - c = NumNewPages(a, n)
    BY <1>3, <1>5
  <2> HIDE DEF u
  <2> QED
    BY <1>6, <2>1 DEF IsPart
<1> HIDE DEF u, added
<1>8. Extends(added, s, u, n)
  <2>1. Extends(ExtendSlots(free, pre, seq, last, i), s, u, seq[i])
    <3>1. CumNewPages(pre, seq)[i - 1] \in Nat
      BY <1>3, <1>4
    <3>2. /\ Len(u) = NumNewPages(Len(s), seq[i])
          /\ \A j \in 1..Len(u) : u[j] = free[CumNewPages(pre, seq)[i - 1] + j]
      BY <1>4, <1>7 DEF a, n
    <3>3. Len(s) <= seq[i]
      BY <1>2 DEF a, n
    <3> QED
      BY <1>1, <1>7, <3>1, <3>2, <3>3, ExtendSlotsAt
  <2> QED
    BY <2>1 DEF added, n
<1>9. LaidOut(s \o added, t \o u)
  <2>1. Len(s) <= n /\ Ceil(n) = Len(t) + Len(u) /\ LaidOut(s, t)
    BY <1>1, <1>2, <1>5, <1>7 DEF a
  <2> HIDE DEF t
  <2> QED
    BY <1>2, <1>7, <1>8, <2>1, LaidOutGrow
<1> QED
  BY <1>9 DEF added, u, c, d

(* A batch is a list of different rows. *)
LEMMA BatchFacts ==
  ASSUME NEW b \in Batches
  PROVE  \E k \in Nat : b \in Injection(1..k, Row) /\ Len(b) = k /\ DOMAIN b = 1..k
<1>1. PICK k \in 1..MaxBatch : b \in Injection(1..k, Row)
  BY DEF Batches
<1>2. k \in Nat /\ b \in [1..k -> Row]
  BY <1>1, AllocAssumption DEF Injection
<1>3. Len(b) = k /\ DOMAIN b = 1..k
  BY <1>2, FunSeq
<1> QED
  BY <1>1, <1>2, <1>3

(* last_loc is the slot of the last position. *)
LEMMA LastLocFacts ==
  ASSUME TypeOK, NEW r \in Row, Len(rows[r]) > 0
  PROVE  LastLoc(r) = rows[r][Len(rows[r])]
BY DEF TypeOK, LastLoc

(* alloc_extend, refused or granted, keeps Inv and is a pool step. *)
LEMMA ExtendStep ==
  ASSUME Inv, NEW b \in Batches, NEW ext \in [DOMAIN b -> 1..MaxRow], AllocExtend(b, ext)
  PROVE  Inv' /\ PoolProofs!Next
<1>1. PICK k \in Nat : b \in Injection(1..k, Row) /\ Len(b) = k /\ DOMAIN b = 1..k
  BY BatchFacts
<1> DEFINE pre  == [i \in DOMAIN b |-> Len(rows[b[i]])]
           seq  == [i \in DOMAIN b |-> pre[i] + ext[i]]
           last == [i \in DOMAIN b |-> LastLoc(b[i])]
           cum  == CumNewPages(pre, seq)
           n    == ExtendPagesWanted(CumSum(ext)[Len(b)], Len(b))
           out(free) == [i \in DOMAIN b |-> ExtendSlots(free, pre, seq, last, i)]
<1>2. PICK m \in Merged(n) :
        /\ release_pages' = m[2]
        /\ IF cum[Len(b)] > Len(m[1])
           THEN Refuse(m[1], cum[Len(b)])
           ELSE Grow(b, m[1], cum[Len(b)], out(m[1]))
  BY DEF AllocExtend
<1>3. GroupKept
  BY DEF AllocExtend, GroupKept
<1>0. TypeOK /\ Lists /\ Layout /\ NothingReleased
  BY DEF Inv
<1>4. b \in [1..k -> Row] /\ \A i \in 1..k : b[i] \in Row
  BY <1>1 DEF Injection
<1>5. pre \in [1..k -> Nat] /\ ext \in [1..k -> Nat]
  <2>1. \A r \in Row : Len(rows[r]) \in Nat
    BY <1>0 DEF TypeOK
  <2>2. \A i \in 1..k : ext[i] \in Nat
    BY <1>1, AllocAssumption
  <2> QED
    BY <1>1, <1>4, <2>1, <2>2
<1>6. seq = [i \in 1..k |-> pre[i] + ext[i]]
  BY <1>1
<1>7. ASSUME NEW i \in 1..k
      PROVE  /\ pre[i] = Len(rows[b[i]]) /\ pre[i] \in Nat /\ seq[i] \in Nat /\ pre[i] <= seq[i]
             /\ Len(rows[b[i]]) > 0 => last[i] = rows[b[i]][Len(rows[b[i]])]
             /\ LaidOut(rows[b[i]], BlockTable(rows[b[i]]))
             /\ out(m[1])[i] = ExtendSlots(m[1], pre, seq, last, i)
  <2>1. pre[i] = Len(rows[b[i]]) /\ last[i] = LastLoc(b[i])
    BY <1>1
  <2>2. pre[i] \in Nat /\ ext[i] \in Nat /\ seq[i] = pre[i] + ext[i]
    BY <1>5, <1>6
  <2>3. Len(rows[b[i]]) > 0 => last[i] = rows[b[i]][Len(rows[b[i]])]
    BY <1>0, <1>4, <2>1, LastLocFacts
  <2>4. LaidOut(rows[b[i]], BlockTable(rows[b[i]]))
    BY <1>0, <1>4 DEF Layout
  <2>5. out(m[1])[i] = ExtendSlots(m[1], pre, seq, last, i)
    BY <1>1
  <2> HIDE DEF pre, seq, last
  <2> QED
    BY <2>1, <2>2, <2>3, <2>4, <2>5
<1> HIDE DEF pre, seq, last, out
<1>8. /\ cum \in [0..k -> Nat] /\ cum[0] = 0
      /\ \A i \in 1..k : cum[i] = cum[i - 1] + NumNewPages(pre[i], seq[i])
      /\ \A i, j \in 0..k : i <= j => cum[i] <= cum[j]
      /\ n \in Nat /\ cum[k] <= n
  <2>1. n = ExtendPagesWanted(CumSum(ext)[k], k)
    BY <1>1
  <2> HIDE DEF n
  <2>2. BatchSums(k, pre, seq, cum, ExtendPagesWanted(CumSum(ext)[k], k))
    BY <1>5, <1>6, WantedIsEnough
  <2> QED
    BY <2>1, <2>2 DEF BatchSums
<1>9. cum = CumNewPages(pre, seq)
  OBVIOUS
<1> HIDE DEF cum, n
<1>10. m[1] \in Seq(Pages)
  BY <1>0, <1>8, MergedFacts
<1>11. cum[k] \in Nat /\ Len(m[1]) \in Nat
  BY <1>8, <1>10
<1>12. CASE cum[k] > Len(m[1])
  BY <1>1, <1>2, <1>3, <1>8, <1>11, <1>12, RefuseStep
<1>13. CASE ~ (cum[k] > Len(m[1]))
  <2>1. cum[k] <= Len(m[1])
    BY <1>11, <1>13
  <2>2. ASSUME NEW i \in 1..k
        PROVE  LaidOut(rows[b[i]] \o out(m[1])[i],
                       BlockTable(rows[b[i]]) \o SubSeq(m[1], cum[i-1] + 1, cum[i]))
    <3>1. cum[i] <= Len(m[1])
      <4>1. cum[i] <= cum[k] /\ cum[i] \in Nat
        BY <1>8
      <4> QED
        BY <1>11, <2>1, <4>1
    <3>2. cum[i] = cum[i - 1] + NumNewPages(pre[i], seq[i])
      BY <1>8
    <3>3. LaidOut(rows[b[i]] \o ExtendSlots(m[1], pre, seq, last, i),
                  BlockTable(rows[b[i]]) \o SubSeq(m[1], cum[i-1] + 1, cum[i]))
      BY <1>7, <1>8, <1>9, <1>10, <3>1, <3>2, RowExtends
    <3> QED
      BY <1>7, <3>3
  <2>3. Grow(b, m[1], cum[k], out(m[1]))
    BY <1>1, <1>2, <1>13
  <2>4. GrowsBy(m, k, b, cum, out(m[1]))
    BY <1>1, <1>2, <1>3, <1>8, <2>1, <2>2, <2>3 DEF GrowsBy
  <2> QED
    BY <1>2, <1>8, <2>4, GrowStep
<1> QED
  BY <1>12, <1>13

(* One more position: a new page exactly when the last one is full. *)
LEMMA OneMore ==
  ASSUME NEW a \in Nat, a > 0
  PROVE  \/ /\ NumNewPages(a, a + 1) = 0 /\ (a + 1) % PageSize # 1
            /\ a < Ceil(a) * PageSize
         \/ /\ NumNewPages(a, a + 1) = 1 /\ (a + 1) % PageSize = 1
            /\ a = Ceil(a) * PageSize /\ a \div PageSize = Ceil(a) /\ a % PageSize = 0
<1> DEFINE q == (a - 1) \div PageSize
           o == (a - 1) % PageSize
           w == q * PageSize
           d == a \div PageSize
<1>0. PageSize \in Nat /\ PageSize > 1 /\ a - 1 \in Nat /\ a + 1 \in Nat
  BY AllocAssumption
<1>1. q \in Nat /\ o \in 0..(PageSize - 1) /\ a - 1 = w + o
  BY <1>0, DivFacts
<1>2. d \in Nat /\ Ceil(a) = q + 1
  BY <1>0, CeilFacts, DivFacts
<1>3. Ceil(a + 1) = d + 1
  <2> DEFINE n == a + 1
  <2>1. n \in Nat /\ n > 0 /\ n - 1 = a
    BY <1>0
  <2> HIDE DEF n
  <2>2. Ceil(n) = (n - 1) \div PageSize + 1
    BY <2>1, CeilFacts
  <2> QED
    BY <2>1, <2>2 DEF n
<1>4. NumNewPages(a, a + 1) = d - q
  <2> HIDE DEF q, d
  <2> QED
    BY <1>1, <1>2, <1>3 DEF NumNewPages
<1>5. w \in Nat /\ (q + 1) * PageSize = w + PageSize
  <2> HIDE DEF q
  <2> QED
    BY <1>0, <1>1
<1> HIDE DEF q, o, d
<1>6. \A e \in 0..(PageSize - 1) : /\ (w + e) \div PageSize = q /\ (w + e) % PageSize = e
                                   /\ ((w + PageSize) + e) \div PageSize = q + 1
                                   /\ ((w + PageSize) + e) % PageSize = e
  <2>1. ASSUME NEW e \in 0..(PageSize - 1)
        PROVE  (w + e) \div PageSize = q /\ (w + e) % PageSize = e
    BY <1>1, DivUnique
  <2>2. ASSUME NEW e \in 0..(PageSize - 1)
        PROVE  /\ ((w + PageSize) + e) \div PageSize = q + 1
               /\ ((w + PageSize) + e) % PageSize = e
    <3>1. q + 1 \in Nat
      BY <1>1
    <3>2. /\ ((q + 1) * PageSize + e) \div PageSize = q + 1
          /\ ((q + 1) * PageSize + e) % PageSize = e
      BY <3>1, DivUnique
    <3> QED
      BY <1>5, <3>2
  <2> QED
    BY <2>1, <2>2
<1> HIDE DEF w
<1>7. CASE o < PageSize - 1
  <2> DEFINE e == o + 1
  <2>1. e \in 0..(PageSize - 1) /\ a = w + e
    BY <1>0, <1>1, <1>5, <1>7
  <2> HIDE DEF e
  <2>2. d = q
    BY <1>6, <2>1 DEF d
  <2>3. a < Ceil(a) * PageSize
    BY <1>0, <1>2, <1>5, <2>1
  <2>4. (a + 1) % PageSize # 1
    <3>1. CASE e < PageSize - 1
      <4> DEFINE f == e + 1
      <4>1. f \in 0..(PageSize - 1) /\ a + 1 = w + f /\ f # 1
        BY <1>0, <1>1, <1>5, <2>1, <3>1 DEF e
      <4> HIDE DEF f
      <4> QED
        BY <1>6, <4>1
    <3>2. CASE e = PageSize - 1
      <4>1. a + 1 = (w + PageSize) + 0 /\ 0 \in 0..(PageSize - 1)
        BY <1>0, <1>5, <2>1, <3>2
      <4>2. ((w + PageSize) + 0) % PageSize = 0
        BY <1>6, <4>1
      <4> QED
        BY <4>1, <4>2
    <3> QED
      BY <1>0, <2>1, <3>1, <3>2
  <2> QED
    BY <1>1, <1>4, <2>2, <2>3, <2>4
<1>8. CASE o = PageSize - 1
  <2>1. a = (w + PageSize) + 0 /\ 0 \in 0..(PageSize - 1)
    BY <1>0, <1>1, <1>5, <1>8
  <2>2. a + 1 = (w + PageSize) + 1 /\ 1 \in 0..(PageSize - 1)
    BY <1>0, <1>5, <2>1
  <2>3. d = q + 1 /\ a % PageSize = 0
    BY <1>6, <2>1 DEF d
  <2>4. (a + 1) % PageSize = 1
    BY <1>6, <2>2
  <2>5. a = Ceil(a) * PageSize
    BY <1>0, <1>2, <1>5, <2>1
  <2>6. a \div PageSize = Ceil(a) /\ NumNewPages(a, a + 1) = 1
    BY SMTT(60), <1>1, <1>2, <1>4, <2>3 DEF d
  <2> QED
    BY <2>3, <2>4, <2>5, <2>6
<1> QED
  BY <1>0, <1>1, <1>7, <1>8

(* The number of pages alloc_decode counts is what its kernel takes. *)
LEMMA DecodeSums ==
  ASSUME TypeOK, NEW k \in Nat, NEW b \in [1..k -> Row], \A i \in 1..k : Len(rows[b[i]]) > 0,
         NEW pre, NEW seq, pre = [i \in 1..k |-> Len(rows[b[i]])],
         seq = [i \in 1..k |-> pre[i] + 1]
  PROVE  /\ BatchSums(k, pre, seq, CumNewPages(pre, seq), k)
         /\ DecodeNewPages(b) = CumNewPages(pre, seq)[k]
<1> DEFINE cum == CumNewPages(pre, seq)
           ext == [i \in 1..k |-> 1]
           C(j) == (Len(rows[b[j]]) + 1) % PageSize = 1
           P(i) == {j \in 1..i : C(j)}
<1>1. pre \in [1..k -> Nat] /\ ext \in [1..k -> Nat] /\ seq = [i \in 1..k |-> pre[i] + ext[i]]
  BY DEF TypeOK
<1>2. BatchSums(k, pre, seq, cum, ExtendPagesWanted(CumSum(ext)[k], k))
  <2> HIDE DEF ext
  <2> QED
    BY <1>1, WantedIsEnough
<1>3. ASSUME NEW i \in 1..k
      PROVE  NumNewPages(pre[i], seq[i]) = IF C(i) THEN 1 ELSE 0
  <2> DEFINE a == Len(rows[b[i]])
  <2>1. a \in Nat /\ a > 0 /\ pre[i] = a /\ seq[i] = a + 1
    BY <1>1
  <2> HIDE DEF a
  <2>2. NumNewPages(a, a + 1) = IF (a + 1) % PageSize = 1 THEN 1 ELSE 0
    BY <2>1, OneMore
  <2> QED
    BY <2>1, <2>2 DEF a
<1> HIDE DEF cum, C
<1>4. /\ cum \in [0..k -> Nat] /\ cum[0] = 0
      /\ \A i \in 1..k : cum[i] = cum[i - 1] + NumNewPages(pre[i], seq[i])
  BY <1>2 DEF BatchSums
<1> DEFINE Q == {i \in 0..k : cum[i] <= i /\ IsFiniteSet(P(i)) /\ Cardinality(P(i)) = cum[i]}
<1>5. 0 \in Q
  <2>1. P(0) = {}
    OBVIOUS
  <2> QED
    BY <1>4, <2>1, FS_EmptySet
<1>6. ASSUME NEW i \in 1..k, i - 1 \in Q PROVE i \in Q
  <2>1. cum[i - 1] \in Nat /\ cum[i] \in Nat /\ i - 1 \in 0..k /\ cum[i - 1] <= i - 1
          /\ IsFiniteSet(P(i - 1)) /\ Cardinality(P(i - 1)) = cum[i - 1]
    BY <1>4, <1>6
  <2>2. CASE C(i)
    <3>1. P(i) = P(i - 1) \cup {i} /\ i \notin P(i - 1)
      BY <2>2
    <3>2. IsFiniteSet(P(i - 1) \cup {i}) /\ Cardinality(P(i - 1) \cup {i}) = Cardinality(P(i - 1)) + 1
      <4> DEFINE F == P(i - 1)
      <4>1. IsFiniteSet(F) /\ i \notin F
        BY <2>1, <3>1
      <4> HIDE DEF F
      <4>2. IsFiniteSet(F \cup {i}) /\ Cardinality(F \cup {i}) = Cardinality(F) + 1
        BY <4>1, FS_AddElement
      <4> QED
        BY <4>2 DEF F
    <3>3. cum[i] = cum[i - 1] + 1
      BY <1>3, <1>4, <2>2
    <3>4. IsFiniteSet(P(i)) /\ Cardinality(P(i)) = cum[i]
      <4> HIDE DEF P
      <4> QED
        BY <2>1, <3>1, <3>2, <3>3
    <3> HIDE DEF P
    <3> QED
      BY <2>1, <3>3, <3>4
  <2>3. CASE ~ C(i)
    <3>1. P(i) = P(i - 1)
      BY <2>3
    <3>2. cum[i] = cum[i - 1] + 0
      BY <1>3, <1>4, <2>3
    <3> HIDE DEF P
    <3> QED
      BY <2>1, <3>1, <3>2
  <2> QED
    BY <2>2, <2>3
<1>7. cum[k] <= k /\ Cardinality(P(k)) = cum[k]
  <2>1. \A i \in 1..k : i - 1 \in Q => i \in Q
    BY <1>6
  <2>2. k \in Q
    <3> HIDE DEF Q
    <3>1. \A i \in 0..k : i \in Q
      BY <1>5, <2>1, UpTo
    <3> QED
      BY <3>1
  <2> QED
    BY <2>2
<1>8. DecodeNewPages(b) = Cardinality(P(k))
  BY DEF DecodeNewPages, C
<1> QED
  BY <1>2, <1>7, <1>8 DEF BatchSums, cum

(* The slot alloc_decode's kernel writes keeps the row laid out. *)
LEMMA RowDecodes ==
  ASSUME NEW s, LaidOut(s, BlockTable(s)), Len(s) > 0, NEW u \in Seq(Pages),
         Len(u) = NumNewPages(Len(s), Len(s) + 1), NEW slot,
         slot = IF NumNewPages(Len(s), Len(s) + 1) = 0 THEN s[Len(s)] + 1 ELSE Slot(u[1], 0)
  PROVE  LaidOut(s \o <<slot>>, BlockTable(s) \o u)
<1> DEFINE a == Len(s)
           n == a + 1
           t == BlockTable(s)
<1>0. PageSize \in Nat /\ PageSize > 1
  BY AllocAssumption
<1>1. s \in Seq(Nat) /\ Len(t) = Ceil(a) /\ a \in Nat /\ n \in Nat /\ s[a] \in Nat
  BY DEF LaidOut
<1>2. Ceil(n) = Len(t) + Len(u)
  BY <1>1, NewPagesFacts
<1>3. slot \in Int /\ slot = ExtendedAt(s, u, a)
  <2>1. CASE NumNewPages(a, a + 1) = 0
    <3>1. a < Ceil(a) * PageSize
      BY <1>1, <2>1, OneMore
    <3>2. ExtendedAt(s, u, a) = s[a] + 1 + (a - a)
      BY <3>1 DEF ExtendedAt
    <3> HIDE DEF a
    <3>3. s[a] + 1 + (a - a) = s[a] + 1
      BY <1>1
    <3> QED
      BY <1>1, <2>1, <3>2, <3>3 DEF a
  <2>2. CASE NumNewPages(a, a + 1) # 0
    <3>1. /\ NumNewPages(a, a + 1) = 1 /\ a = Ceil(a) * PageSize
          /\ a \div PageSize = Ceil(a) /\ a % PageSize = 0
      BY <1>1, <2>2, OneMore
    <3>2. slot = Slot(u[1], 0) /\ u[1] \in Nat
      <4>1. u[1] \in Pages
        BY <3>1, ElementOfSeq
      <4> QED
        BY <2>2, <4>1, PagesAreNat
    <3>3. slot \in Nat
      <4> DEFINE page == u[1]
      <4>1. page \in Nat /\ 0 \in 0..(PageSize - 1) /\ slot = Slot(page, 0)
        BY <1>0, <3>2
      <4> HIDE DEF page
      <4>2. Slot(page, 0) \in Nat
        BY <4>1, SlotFacts
      <4> QED
        BY <4>1, <4>2
    <3>4. ExtendedAt(s, u, a) = Slot(u[a \div PageSize - Ceil(a) + 1], a % PageSize)
      <4>1. ~ (a < Ceil(a) * PageSize)
        BY <1>1, <3>1
      <4> QED
        BY <4>1 DEF ExtendedAt
    <3>5. a \div PageSize - Ceil(a) + 1 = 1
      BY <1>1, <3>1, CeilFacts
    <3> QED
      BY <3>1, <3>2, <3>3, <3>4, <3>5
  <2> QED
    BY <2>1, <2>2
<1>4. Extends(<<slot>>, s, u, n)
  <2>1. <<slot>> \in Seq(Int) /\ Len(<<slot>>) = 1 /\ n - Len(s) = 1
    BY <1>1, <1>3
  <2>2. \A j \in 1..1 : <<slot>>[j] = ExtendedAt(s, u, Len(s) + j - 1)
    <3>1. Len(s) + 1 - 1 = a
      BY <1>1
    <3> QED
      BY <1>3, <3>1
  <2> HIDE DEF n
  <2> QED
    BY <2>1, <2>2 DEF Extends
<1> HIDE DEF t, n
<1>5. LaidOut(s, t) /\ Len(s) <= n
  BY <1>1 DEF t, n
<1>6. LaidOut(s \o <<slot>>, t \o u)
  BY <1>1, <1>2, <1>4, <1>5, LaidOutGrow
<1> QED
  BY <1>6 DEF t

(* alloc_decode is a step of the pool that keeps Inv. *)
LEMMA DecodeStep ==
  ASSUME Inv, NEW b \in Batches, AllocDecode(b)
  PROVE  Inv' /\ PoolProofs!Next
<1>1. PICK k \in Nat : b \in Injection(1..k, Row) /\ Len(b) = k /\ DOMAIN b = 1..k
  BY BatchFacts
<1> DEFINE pre  == [i \in DOMAIN b |-> Len(rows[b[i]])]
           seq  == [i \in DOMAIN b |-> pre[i] + 1]
           cum  == CumNewPages(pre, seq)
           need == DecodeNewPages(b)
           out(free) == [i \in DOMAIN b |-> <<DecodeSlot(free, b, i)>>]
<1>2. PICK m \in Merged(k) :
        /\ release_pages' = m[2]
        /\ IF need > Len(m[1]) THEN Refuse(m[1], need) ELSE Grow(b, m[1], need, out(m[1]))
  BY <1>1 DEF AllocDecode
<1>3. GroupKept
  BY DEF AllocDecode, GroupKept
<1>0. TypeOK /\ Lists /\ Layout /\ NothingReleased
  BY DEF Inv
<1>4. b \in [1..k -> Row] /\ \A i \in 1..k : b[i] \in Row
  BY <1>1 DEF Injection
<1>5. \A i \in 1..k : Len(rows[b[i]]) > 0
  <2>1. \A i \in 1..k : Len(rows[b[i]]) \in 1..(MaxRow - 1)
    BY <1>1 DEF AllocDecode
  <2> QED
    BY <2>1, AllocAssumption
<1>6. /\ cum \in [0..k -> Nat] /\ cum[0] = 0
      /\ \A i \in 1..k : cum[i] = cum[i - 1] + NumNewPages(pre[i], seq[i])
      /\ \A i, j \in 0..k : i <= j => cum[i] <= cum[j]
      /\ cum[k] <= k /\ need = cum[k]
  <2>1. pre = [i \in 1..k |-> Len(rows[b[i]])] /\ seq = [i \in 1..k |-> pre[i] + 1]
    BY <1>1
  <2> HIDE DEF pre, seq
  <2>2. BatchSums(k, pre, seq, cum, k) /\ need = cum[k]
    BY ZenonT(60), <1>0, <1>4, <1>5, <2>1, DecodeSums
  <2> QED
    BY <2>2 DEF BatchSums
<1>7. ASSUME NEW i \in 1..k
      PROVE  /\ pre[i] = Len(rows[b[i]]) /\ seq[i] = Len(rows[b[i]]) + 1
             /\ LaidOut(rows[b[i]], BlockTable(rows[b[i]]))
             /\ LastLoc(b[i]) = rows[b[i]][Len(rows[b[i]])]
             /\ out(m[1])[i] = <<DecodeSlot(m[1], b, i)>>
             /\ DecodeSlot(m[1], b, i) =
                    IF NumNewPages(pre[i], pre[i] + 1) = 0
                    THEN LastLoc(b[i]) + 1 ELSE Slot(m[1][cum[i-1] + 1], 0)
  <2>1. pre[i] = Len(rows[b[i]]) /\ seq[i] = Len(rows[b[i]]) + 1
    BY <1>1
  <2>2. LaidOut(rows[b[i]], BlockTable(rows[b[i]]))
    BY <1>0, <1>4 DEF Layout
  <2>3. LastLoc(b[i]) = rows[b[i]][Len(rows[b[i]])]
    BY <1>0, <1>4, <1>5, LastLocFacts
  <2>4. out(m[1])[i] = <<DecodeSlot(m[1], b, i)>>
    BY <1>1
  <2> QED
    BY <2>1, <2>2, <2>3, <2>4 DEF DecodeSlot
<1> HIDE DEF pre, seq, cum, out, need
<1>10. m[1] \in Seq(Pages)
  BY <1>0, <1>2, MergedFacts
<1>11. cum[k] \in Nat /\ Len(m[1]) \in Nat
  BY <1>6, <1>10
<1>12. CASE need > Len(m[1])
  BY <1>2, <1>3, <1>6, <1>11, <1>12, RefuseStep
<1>13. CASE ~ (need > Len(m[1]))
  <2>1. cum[k] <= Len(m[1])
    BY <1>6, <1>11, <1>13
  <2>2. ASSUME NEW i \in 1..k
        PROVE  LaidOut(rows[b[i]] \o out(m[1])[i],
                       BlockTable(rows[b[i]]) \o SubSeq(m[1], cum[i-1] + 1, cum[i]))
    <3> DEFINE s == rows[b[i]]
               c == cum[i - 1]
               d == cum[i]
               a == Len(s)
               nn == NumNewPages(a, a + 1)
               u == SubSeq(m[1], c + 1, d)
               slot == DecodeSlot(m[1], b, i)
    <3>1. d <= cum[k] /\ c \in Nat /\ d \in Nat /\ c <= d /\ d = c + nn
      <4>1. i - 1 \in 0..k /\ i \in 0..k /\ k \in 0..k /\ i - 1 <= i /\ i <= k
        OBVIOUS
      <4>2. c \in Nat /\ d \in Nat /\ c <= d /\ d <= cum[k]
        BY <1>6, <4>1
      <4>3. d = c + nn
        BY <1>6, <1>7
      <4> QED
        BY <4>2, <4>3
    <3>2. LaidOut(s, BlockTable(s)) /\ a > 0 /\ a \in Nat
      BY <1>5, <1>7 DEF LaidOut
    <3>3. nn \in Nat
      <4> HIDE DEF a, s
      <4> QED
        BY <3>2, NewPagesFacts
    <3>4. /\ slot = IF nn = 0 THEN s[a] + 1 ELSE Slot(m[1][c + 1], 0)
          /\ out(m[1])[i] = <<slot>>
      BY <1>7
    <3> HIDE DEF s, c, d, a, nn, slot
    <3>5. d <= Len(m[1])
      BY <1>11, <2>1, <3>1
    <3>6. IsPart(u, Pages, m[1], c, d)
      BY <1>10, <3>1, <3>5, Part
    <3>7. u \in Seq(Pages) /\ Len(u) = nn /\ (nn # 0 => u[1] = m[1][c + 1])
      <4>1. d - c = nn
        BY <3>1, <3>3
      <4> HIDE DEF u
      <4> QED
        BY <3>3, <3>6, <4>1 DEF IsPart
    <3> HIDE DEF u
    <3>8. slot = IF nn = 0 THEN s[a] + 1 ELSE Slot(u[1], 0)
      BY <3>4, <3>7
    <3>9. LaidOut(s \o <<slot>>, BlockTable(s) \o u)
      BY <3>2, <3>7, <3>8, RowDecodes DEF a, nn
    <3> QED
      BY <3>4, <3>9 DEF s, u, c, d
  <2>3. Grow(b, m[1], cum[k], out(m[1]))
    BY <1>2, <1>6, <1>13
  <2>4. GrowsBy(m, k, b, cum, out(m[1]))
    BY <1>1, <1>2, <1>3, <1>6, <2>1, <2>2, <2>3 DEF GrowsBy
  <2> QED
    BY <1>2, <1>6, <2>4, GrowStep
<1> QED
  BY <1>12, <1>13

(* Whole pages behind a full last page. *)
LEMMA RowTakesPages ==
  ASSUME NEW s, LaidOut(s, BlockTable(s)), Len(s) % PageSize = 0, NEW u \in Seq(Pages), NEW added,
         added = [j \in 1..(Len(u) * PageSize) |->
                   Slot(u[(j - 1) \div PageSize + 1], (j - 1) % PageSize)]
  PROVE  LaidOut(s \o added, BlockTable(s) \o u)
<1> DEFINE a == Len(s)
           q == a \div PageSize
           w == Len(u) * PageSize
           n == a + w
           t == BlockTable(s)
<1>0. PageSize \in Nat /\ PageSize > 1 /\ Len(u) \in Nat
  BY AllocAssumption, LenProperties
<1>1. s \in Seq(Nat) /\ Len(t) = Ceil(a) /\ a \in Nat
  BY DEF LaidOut
<1>2. w \in Nat /\ n \in Nat
  <2>1. w \in Nat
    BY <1>0
  <2> HIDE DEF w, a
  <2> QED
    BY <1>1, <2>1
<1>3. q \in Nat /\ a = q * PageSize /\ Ceil(a) = q
  <2>1. q \in Nat /\ a = q * PageSize + (a % PageSize) /\ a % PageSize = 0
    BY <1>1, DivFacts
  <2> HIDE DEF q, a
  <2>2. q * PageSize \in Nat
    BY <1>0, <2>1
  <2>3. a = q * PageSize + 0 /\ a = q * PageSize
    BY <2>1, <2>2
  <2>4. Ceil(q * PageSize + 0) = q + Ceil(0) /\ Ceil(0) = 0
    BY <2>1, CeilShift, CeilFacts
  <2> QED
    BY <2>1, <2>3, <2>4
<1>4. Ceil(n) = Len(t) + Len(u)
  <2> DEFINE v == Len(u)
  <2>1. v \in Nat /\ n = (q + v) * PageSize + 0 /\ Ceil(0) = 0
    <3> HIDE DEF q, a
    <3> QED
      BY <1>0, <1>3, CeilFacts
  <2> HIDE DEF v, n, q
  <2>2. Ceil((q + v) * PageSize + 0) = (q + v) + Ceil(0)
    <3> DEFINE x == q + v
    <3>1. x \in Nat /\ 0 \in Nat
      BY <1>3, <2>1
    <3> HIDE DEF x
    <3>2. Ceil(x * PageSize + 0) = x + Ceil(0)
      BY <3>1, CeilShift
    <3> QED
      BY <3>2 DEF x
  <2> QED
    BY <1>1, <1>3, <2>1, <2>2 DEF v
<1> HIDE DEF w
<1>5. ASSUME NEW j \in 1..w
      PROVE  /\ Slot(u[(j - 1) \div PageSize + 1], (j - 1) % PageSize) \in Int
             /\ Slot(u[(j - 1) \div PageSize + 1], (j - 1) % PageSize) = ExtendedAt(s, u, a + j - 1)
  <2> DEFINE d == (j - 1) \div PageSize
             o == (j - 1) % PageSize
             p == a + j - 1
  <2>0. j - 1 \in Nat
    BY <1>2
  <2>1. d \in Nat /\ o \in 0..(PageSize - 1) /\ d + 1 \in 1..Len(u)
    <3>1. d + 1 \in 1..Ceil(w)
      BY <1>2, BlockOf
    <3>2. Ceil(Len(u) * PageSize + 0) = Len(u) + Ceil(0) /\ Ceil(0) = 0
      BY <1>0, CeilShift, CeilFacts
    <3>3. Ceil(w) = Len(u)
      <4>1. Len(u) * PageSize + 0 = w
        BY <1>2 DEF w
      <4> QED
        BY <1>0, <3>2, <4>1
    <3> QED
      BY <2>0, <3>1, <3>3, DivFacts
  <2>2. p \in Nat /\ p = q * PageSize + (j - 1)
    <3> HIDE DEF q, a
    <3> QED
      BY <1>1, <1>3, <2>0
  <2>3. p \div PageSize = q + d /\ p % PageSize = o
    <3>1. /\ (q * PageSize + (j - 1)) \div PageSize = q + d
          /\ (q * PageSize + (j - 1)) % PageSize = o
      BY <1>3, <2>0, DivShift
    <3> HIDE DEF q, a, p, d, o
    <3> QED
      BY <2>2, <3>1
  <2>4. ~ (p < Ceil(a) * PageSize)
    <3>1. Ceil(a) * PageSize = a
      BY <1>3
    <3> HIDE DEF a, q
    <3> QED
      BY <1>1, <2>0, <3>1
  <2>5. ExtendedAt(s, u, p) = Slot(u[p \div PageSize - Ceil(a) + 1], p % PageSize)
    <3> HIDE DEF p
    <3> QED
      BY <2>4 DEF ExtendedAt
  <2>6. ExtendedAt(s, u, p) = Slot(u[d + 1], o)
    <3>1. p \div PageSize - Ceil(a) + 1 = d + 1
      <4> HIDE DEF q, d, a, p
      <4> QED
        BY <1>3, <2>1, <2>3
    <3> HIDE DEF d, o, p
    <3> QED
      BY <2>3, <2>5, <3>1
  <2>7. u[d + 1] \in Nat
    <3> HIDE DEF d
    <3>1. u[d + 1] \in Pages
      BY <2>1, ElementOfSeq
    <3> QED
      BY <3>1, PagesAreNat
  <2> DEFINE page == u[d + 1]
  <2>8. Slot(page, o) \in Nat
    <3> HIDE DEF page, o
    <3> QED
      BY <2>1, <2>7, SlotFacts DEF page
  <2> QED
    BY <2>6, <2>8
<1>6. Extends(added, s, u, n)
  <2>1. added = [j \in 1..w |-> Slot(u[(j - 1) \div PageSize + 1], (j - 1) % PageSize)]
    BY DEF w
  <2>2. added \in [1..w -> Int]
    BY <1>5, <2>1
  <2>3. added \in Seq(Int) /\ Len(added) = w
    BY <1>2, <2>2, FunSeq
  <2>4. n - Len(s) = w
    BY <1>1, <1>2
  <2>5. \A j \in 1..w : added[j] = ExtendedAt(s, u, Len(s) + j - 1)
    BY <1>5, <2>1
  <2> HIDE DEF n
  <2> QED
    BY <2>3, <2>4, <2>5 DEF Extends
<1>7. LaidOut(s, t) /\ Len(s) <= n
  BY <1>1, <1>2
<1> HIDE DEF t, n
<1>8. LaidOut(s \o added, t \o u)
  BY <1>2, <1>4, <1>6, <1>7, LaidOutGrow
<1> QED
  BY <1>8 DEF t

(* alloc is a step of the pool that keeps Inv. *)
LEMMA AllocStep ==
  ASSUME Inv, NEW r \in Row, NEW np \in Nat, Alloc(r, np)
  PROVE  Inv' /\ PoolProofs!Next
<1> DEFINE slots(free) == [j \in 1..(np * PageSize) |->
                              Slot(free[(j - 1) \div PageSize + 1], (j - 1) % PageSize)]
           b == <<r>>
           cum == [i \in 0..1 |-> IF i = 0 THEN 0 ELSE np]
<1>1. PICK m \in Merged(np) :
        /\ release_pages' = m[2]
        /\ IF np > Len(m[1]) THEN Refuse(m[1], np) ELSE Grow(b, m[1], np, <<slots(m[1])>>)
  BY DEF Alloc
<1>2. GroupKept /\ Len(rows[r]) % PageSize = 0
  BY DEF Alloc, GroupKept
<1>0. TypeOK /\ Lists /\ Layout /\ NothingReleased
  BY DEF Inv
<1>3. m[1] \in Seq(Pages) /\ Len(m[1]) \in Nat
  BY <1>0, <1>1, MergedFacts, LenProperties
<1>4. CASE np > Len(m[1])
  BY <1>1, <1>2, <1>4, RefuseStep
<1>5. CASE ~ (np > Len(m[1]))
  <2>1. b \in Injection(1..1, Row) /\ b[1] = r
    BY DEF Injection, IsInjective
  <2>2. cum \in [0..1 -> Nat] /\ cum[0] = 0 /\ cum[1] = np
    OBVIOUS
  <2>3. \A i, j \in 0..1 : i <= j => cum[i] <= cum[j]
    OBVIOUS
  <2> DEFINE s == rows[r]
             u == SubSeq(m[1], 0 + 1, np)
             added == slots(m[1])
             out == <<added>>
  <2>4. IsPart(u, Pages, m[1], 0, np)
    <3>1. 0 \in Nat /\ 0 <= np /\ np <= Len(m[1])
      BY <1>3, <1>5
    <3> QED
      BY <1>3, <3>1, Part
  <2>5. u \in Seq(Pages) /\ Len(u) = np /\ \A j \in 1..np : u[j] = m[1][j]
    <3>1. np - 0 = np /\ \A j \in 1..np : 0 + j = j
      OBVIOUS
    <3> HIDE DEF u
    <3> QED
      BY <2>4, <3>1 DEF IsPart
  <2> HIDE DEF u
  <2>6. added = [j \in 1..(Len(u) * PageSize) |->
                  Slot(u[(j - 1) \div PageSize + 1], (j - 1) % PageSize)]
    <3> DEFINE w == np * PageSize
    <3>1. w \in Nat /\ Ceil(w) = np
      <4>1. w \in Nat
        BY AllocAssumption
      <4>2. Ceil(np * PageSize + 0) = np + Ceil(0) /\ Ceil(0) = 0
        BY CeilShift, CeilFacts
      <4>3. np * PageSize + 0 = w
        BY <4>1
      <4> QED
        BY <4>1, <4>2, <4>3
    <3>2. ASSUME NEW j \in 1..w PROVE u[(j - 1) \div PageSize + 1] = m[1][(j - 1) \div PageSize + 1]
      <4> HIDE DEF w
      <4> DEFINE d == (j - 1) \div PageSize + 1
      <4>1. d \in 1..np
        BY <3>1, BlockOf
      <4> HIDE DEF d
      <4>2. u[d] = m[1][d]
        BY <2>5, <4>1
      <4> QED
        BY <4>2 DEF d
    <3>3. Len(u) * PageSize = w
      BY <2>5
    <3> QED
      BY <3>2, <3>3
  <2>7. LaidOut(s, BlockTable(s))
    BY <1>0 DEF Layout
  <2> HIDE DEF added, s
  <2>8. LaidOut(s \o added, BlockTable(s) \o u)
    BY <1>2, <2>5, <2>6, <2>7, RowTakesPages DEF s
  <2>9. \A i \in 1..1 : LaidOut(rows[b[i]] \o out[i],
                            BlockTable(rows[b[i]]) \o SubSeq(m[1], cum[i-1] + 1, cum[i]))
    <3>1. LaidOut(rows[b[1]] \o out[1],
                  BlockTable(rows[b[1]]) \o SubSeq(m[1], cum[1-1] + 1, cum[1]))
      BY <2>1, <2>2, <2>8 DEF s, u
    <3>2. \A i \in 1..1 : i = 1
      OBVIOUS
    <3> QED
      BY <3>1, <3>2
  <2>10. Grow(b, m[1], cum[1], out) /\ cum[1] <= Len(m[1])
    BY <1>1, <1>3, <1>5, <2>2 DEF added
  <2> HIDE DEF cum, b, out
  <2>11. PICK k \in Nat : k = 1
    OBVIOUS
  <2>12. /\ b \in Injection(1..k, Row) /\ cum \in [0..k -> Nat] /\ cum[k] <= Len(m[1])
         /\ \A i, j \in 0..k : i <= j => cum[i] <= cum[j]
         /\ \A i \in 1..k : LaidOut(rows[b[i]] \o out[i],
                                BlockTable(rows[b[i]]) \o SubSeq(m[1], cum[i-1] + 1, cum[i]))
         /\ Grow(b, m[1], cum[k], out)
    BY <2>1, <2>2, <2>3, <2>9, <2>10, <2>11
  <2>13. GrowsBy(m, k, b, cum, out)
    BY <1>1, <1>2, <2>2, <2>12 DEF GrowsBy
  <2> QED
    BY <1>1, <2>13, GrowStep
<1> QED
  BY <1>4, <1>5

-----------------------------------------------------------------------------
(* Frees. *)

(* An empty row has an empty block table. *)
LEMMA LaidOutEmpty == LaidOut(<<>>, <<>>) /\ BlockTable(<<>>) = <<>>
<1>1. Ceil(0) = 0 /\ Len(<<>>) = 0
  BY CeilFacts, EmptyList
<1>2. LaidOut(<<>>, <<>>)
  BY <1>1, EmptyList DEF LaidOut
<1> QED
  BY <1>2, LaidOutTable

(* free_segments trims the second segment to the next page boundary. *)
LEMMA SecondStartFacts ==
  ASSUME NEW a \in Nat, NEW b \in Nat, NEW c \in Nat, a % PageSize = 0, a <= b, b <= c,
         b = c \/ (b % PageSize = 0 /\ c % PageSize = 0)
  PROVE  SecondStart(a, b, c) = Ceil(c) * PageSize
<1> DEFINE q == c \div PageSize
           o == c % PageSize
           w == q * PageSize
<1>0. PageSize \in Nat /\ PageSize > 1
  BY AllocAssumption
<1>1. q \in Nat /\ o \in 0..(PageSize - 1) /\ c = w + o
  BY DivFacts
<1> HIDE DEF q, o
<1>2. w \in Nat /\ (q + 1) * PageSize = w + PageSize
  BY <1>0, <1>1
<1>3. CASE o = 0
  <2>1. c = q * PageSize + 0
    BY <1>1, <1>3
  <2>2. Ceil(c) = q
    <3>1. Ceil(q * PageSize + 0) = q + Ceil(0) /\ Ceil(0) = 0
      BY <1>1, CeilShift, CeilFacts
    <3> QED
      BY <1>1, <2>1, <3>1
  <2>3. Ceil(c) * PageSize = c
    BY <1>1, <1>2, <1>3, <2>2
  <2>4. ASSUME b > a PROVE c \div PageSize # (b - 1) \div PageSize
    <3>1. b - 1 \in Nat /\ b > 0
      BY <2>4
    <3> DEFINE e == (b - 1) \div PageSize
               f == (b - 1) % PageSize
               v == e * PageSize
    <3>2. e \in Nat /\ f \in 0..(PageSize - 1) /\ b - 1 = v + f
      BY <3>1, DivFacts
    <3> HIDE DEF e, f
    <3>3. v \in Nat
      BY <1>0, <3>2
    <3>4. SUFFICES ASSUME q = e PROVE FALSE
      BY DEF q, e
    <3>5. v = w
      BY <3>4
    <3> HIDE DEF v, w
    <3>6. b - 1 >= c
      BY <1>1, <1>3, <3>2, <3>3, <3>5
    <3> QED
      BY <3>6
  <2>5. SecondStart(a, b, c) = c
    BY <2>4 DEF SecondStart
  <2> QED
    BY <2>3, <2>5
<1>4. CASE o # 0
  <2>1. b = c /\ c > 0
    <3>1. b = c
      BY <1>4 DEF o
    <3>2. c # 0
      <4>1. c = 0 => o = 0
        BY <1>0, DivUnique, <1>1, <1>2
      <4> QED
        BY <1>4, <4>1
    <3> QED
      BY <3>1, <3>2
  <2>2. b > a
    <3>1. a # c
      BY <1>4 DEF o
    <3> QED
      BY <2>1, <3>1
  <2>3. (c - 1) \div PageSize = q
    <3> DEFINE f == o - 1
    <3>1. f \in 0..(PageSize - 1) /\ c - 1 = w + f
      BY <1>0, <1>1, <1>2, <1>4
    <3> HIDE DEF f
    <3>2. (q * PageSize + f) \div PageSize = q
      BY <1>1, <3>1, DivUnique
    <3> QED
      BY <3>1, <3>2
  <2>4. Ceil(c) = q + 1
    BY <2>1, <2>3, CeilFacts
  <2>5. SecondStart(a, b, c) = (q + 1) * PageSize
    BY <2>1, <2>2, <2>3 DEF SecondStart, q
  <2> QED
    BY <2>4, <2>5
<1> QED
  BY <1>3, <1>4

(* The pieces free_segments cuts a row into, with their pages: row r keeps *)
(* the first, the second and fourth are freed, row q gets the third.       *)
Pieces(s, t, a, b, c, x, y, z) ==
    /\ x \in Nat /\ y \in Nat /\ z \in Nat /\ x <= y /\ y <= z /\ z <= Len(t)
    /\ LaidOut(SubSeq(s, 1, a), SubSeq(t, 0 + 1, x))
    /\ LaidOut(SubSeq(s, a + 1, b), SubSeq(t, x + 1, y))
    /\ LaidOut(SubSeq(s, b + 1, c), SubSeq(t, y + 1, z))
    /\ LaidOut(SubSeq(s, SecondStart(a, b, c) + 1, Len(s)), SubSeq(t, z + 1, Len(t)))
    /\ SecondStart(a, b, c) \in Nat /\ SecondStart(a, b, c) % PageSize = 0

LEMMA Cut ==
  ASSUME NEW s, NEW t, LaidOut(s, t), NEW a \in Nat, NEW b \in Nat, NEW c \in Nat,
         a % PageSize = 0, a <= b, b <= c, c <= Len(s),
         b = c \/ (b % PageSize = 0 /\ c % PageSize = 0)
  PROVE  Pieces(s, t, a, b, c, Ceil(a), Ceil(b), Ceil(c))
<1> DEFINE n == Len(s)
           x == Ceil(a)
           y == Ceil(b)
           z == Ceil(c)
<1>0. PageSize \in Nat /\ PageSize > 1 /\ n \in Nat /\ Len(t) = Ceil(n)
        /\ s \in Seq(Nat) /\ t \in Seq(Pages)
  BY AllocAssumption DEF LaidOut
<1>1. ASSUME NEW k \in Nat, k % PageSize = 0 PROVE Ceil(k) * PageSize = k /\ Ceil(k) \in Nat
  <2> DEFINE q == k \div PageSize
  <2>1. q \in Nat /\ k = q * PageSize + (k % PageSize) /\ k % PageSize = 0
    BY <1>1, DivFacts
  <2> HIDE DEF q
  <2>2. q * PageSize \in Nat
    BY <1>0, <2>1
  <2>3. k = q * PageSize + 0 /\ k = q * PageSize
    BY <2>1, <2>2
  <2>4. Ceil(q * PageSize + 0) = q + Ceil(0) /\ Ceil(0) = 0
    BY <2>1, CeilShift, CeilFacts
  <2>5. Ceil(k) = q
    BY <2>1, <2>3, <2>4
  <2> QED
    BY <2>1, <2>3, <2>5
<1>2. x \in Nat /\ y \in Nat /\ z \in Nat /\ x <= y /\ y <= z /\ z <= Len(t) /\ x * PageSize = a
  BY <1>0, <1>1, CeilFacts, CeilMono
<1>3. LaidOut(SubSeq(s, 1, a), SubSeq(t, 0 + 1, x))
  <2> DEFINE k == 0
  <2>1. k \in Nat /\ k * PageSize = 0
    BY <1>0
  <2> HIDE DEF k
  <2>2. k * PageSize <= a /\ a <= Len(s) /\ k * PageSize + 1 = 1
    BY <1>0, <2>1
  <2>3. LaidOut(SubSeq(s, k * PageSize + 1, a), SubSeq(t, k + 1, Ceil(a)))
    BY <2>1, <2>2, LaidOutPart
  <2> QED
    BY <2>2, <2>3 DEF k
<1>4. LaidOut(SubSeq(s, a + 1, b), SubSeq(t, x + 1, y))
  <2>1. x * PageSize <= b /\ b <= Len(s)
    BY <1>0, <1>2
  <2>2. LaidOut(SubSeq(s, x * PageSize + 1, b), SubSeq(t, x + 1, Ceil(b)))
    <3> HIDE DEF x
    <3> QED
      BY <1>2, <2>1, LaidOutPart
  <2> QED
    BY <1>2, <2>2
<1>5. LaidOut(SubSeq(s, b + 1, c), SubSeq(t, y + 1, z))
  <2>1. CASE b = c
    <3>1. SubSeq(s, b + 1, c) = <<>>
      BY <2>1, SubSeqEmpty
    <3>2. SubSeq(t, y + 1, z) = <<>>
      <4>1. y + 1 \in Int /\ z \in Int /\ z < y + 1
        BY <1>2, <2>1
      <4> HIDE DEF y, z
      <4> QED
        BY <4>1, SubSeqEmpty
    <3> QED
      BY <3>1, <3>2, LaidOutEmpty
  <2>2. CASE b % PageSize = 0 /\ c % PageSize = 0
    <3>1. y * PageSize = b /\ c <= Len(s)
      BY <1>1, <2>2
    <3>2. LaidOut(SubSeq(s, y * PageSize + 1, c), SubSeq(t, y + 1, Ceil(c)))
      <4> HIDE DEF y
      <4> QED
        BY <1>2, <3>1, LaidOutPart
    <3> QED
      BY <3>1, <3>2
  <2> QED
    BY <2>1, <2>2
<1> DEFINE w == z * PageSize
<1>6. SecondStart(a, b, c) = w /\ w \in Nat /\ w % PageSize = 0
  <2>1. SecondStart(a, b, c) = w
    BY SecondStartFacts
  <2>2. w \in Nat
    BY CeilBounds
  <2>3. (w + 0) % PageSize = 0
    <3>1. z \in Nat /\ 0 \in 0..(PageSize - 1)
      BY <1>0, <1>2
    <3> HIDE DEF z
    <3>2. (z * PageSize + 0) % PageSize = 0
      BY <3>1, DivUnique
    <3> QED
      BY <3>2
  <2>4. w + 0 = w
    BY <2>2
  <2> HIDE DEF w
  <2> QED
    BY <2>1, <2>2, <2>3, <2>4
<1>7. LaidOut(SubSeq(s, w + 1, n), SubSeq(t, z + 1, Len(t)))
  <2>1. CASE w <= n
    <3>1. LaidOut(SubSeq(s, z * PageSize + 1, n), SubSeq(t, z + 1, Ceil(n)))
      <4> HIDE DEF z
      <4>1. n <= Len(s)
        BY <1>0
      <4> HIDE DEF n
      <4> QED
        BY <1>0, <1>2, <2>1, <4>1, LaidOutPart
    <3> QED
      BY <1>0, <3>1
  <2>2. CASE ~ (w <= n)
    <3>1. SubSeq(s, w + 1, n) = <<>>
      <4>1. w + 1 \in Int /\ n \in Int /\ n < w + 1
        BY <1>0, <1>6, <2>2
      <4> HIDE DEF w, n
      <4> QED
        BY <4>1, SubSeqEmpty
    <3>2. Len(t) <= z
      <4>1. n <= w
        <5> HIDE DEF w, n
        <5> QED
          BY <1>0, <1>6, <2>2
      <4>2. Ceil(n) <= Ceil(w)
        <5> HIDE DEF w, n
        <5> QED
          BY <1>0, <1>6, <4>1, CeilMono
      <4>3. Ceil(w) * PageSize = w /\ Ceil(w) \in Nat
        <5> HIDE DEF w
        <5> QED
          BY <1>1, <1>6
      <4>4. Ceil(w) = z
        <5>1. Ceil(z * PageSize + 0) = z + Ceil(0) /\ Ceil(0) = 0
          <6> HIDE DEF z
          <6> QED
            BY <1>2, CeilShift, CeilFacts
        <5>2. z * PageSize + 0 = w
          BY <1>6
        <5> HIDE DEF z, w
        <5> QED
          BY <1>2, <5>1, <5>2
      <4> QED
        BY <1>0, <4>2, <4>4
    <3>3. SubSeq(t, z + 1, Len(t)) = <<>>
      <4> DEFINE l == Len(t)
      <4>1. z + 1 \in Int /\ l \in Int /\ l < z + 1
        BY <1>0, <1>2, <3>2
      <4> HIDE DEF z, l
      <4>2. SubSeq(t, z + 1, l) = <<>>
        BY <4>1, SubSeqEmpty
      <4> QED
        BY <4>2 DEF l
    <3> QED
      BY <3>1, <3>3, LaidOutEmpty
  <2> QED
    BY <2>1, <2>2
<1> HIDE DEF x, y, z, w, n
<1> QED
  BY <1>2, <1>3, <1>4, <1>5, <1>6, <1>7 DEF Pieces, x, y, z, n

(* Four consecutive parts of a list of distinct pages. *)
Split(t, x, y, z) ==
    LET p(i, j) == SubSeq(t, i + 1, j)
        n == Len(t)
    IN  /\ p(0, x) \in Seq(Pages) /\ IsInjective(p(0, x))
        /\ p(x, y) \in Seq(Pages) /\ IsInjective(p(x, y))
        /\ p(y, z) \in Seq(Pages) /\ IsInjective(p(y, z))
        /\ p(z, n) \in Seq(Pages) /\ IsInjective(p(z, n))
        /\ Range(t) = Range(p(0, x)) \cup Range(p(x, y)) \cup Range(p(y, z)) \cup Range(p(z, n))
        /\ Range(p(0, x)) \cap Range(p(x, y)) = {}
        /\ Range(p(0, x)) \cap Range(p(y, z)) = {}
        /\ Range(p(0, x)) \cap Range(p(z, n)) = {}
        /\ Range(p(x, y)) \cap Range(p(y, z)) = {}
        /\ Range(p(x, y)) \cap Range(p(z, n)) = {}
        /\ Range(p(y, z)) \cap Range(p(z, n)) = {}

LEMMA SplitFacts ==
  ASSUME NEW t \in Seq(Pages), IsInjective(t), NEW x \in Nat, NEW y \in Nat, NEW z \in Nat,
         x <= y, y <= z, z <= Len(t)
  PROVE  Split(t, x, y, z)
<1> DEFINE n == Len(t)
           p(i, j) == SubSeq(t, i + 1, j)
<1>0. n \in Nat /\ n <= Len(t) /\ DOMAIN t = 1..n /\ 0 \in Nat /\ 0 <= x /\ x <= n /\ y <= n
  BY LenProperties
<1> HIDE DEF n
<1>1. ASSUME NEW i \in Nat, NEW j \in Nat, i <= j, j <= Len(t)
      PROVE  /\ p(i, j) \in Seq(Pages) /\ IsInjective(p(i, j))
             /\ Range(p(i, j)) = {t[k] : k \in (i + 1)..j}
  <2>1. IsPart(p(i, j), Pages, t, i, j)
    BY <1>1, Part
  <2> QED
    BY <2>1 DEF IsPart
<1>2. ASSUME NEW i \in Nat, NEW j \in Nat, NEW k \in Nat, NEW l \in Nat,
             i <= j, j <= k, k <= l, l <= Len(t)
      PROVE  Range(p(i, j)) \cap Range(p(k, l)) = {}
  BY <1>2, PartsApart
<1>3. x <= Len(t) /\ y <= Len(t)
  BY <1>0
<1>4. /\ p(0, x) \in Seq(Pages) /\ IsInjective(p(0, x)) /\ Range(p(0, x)) = {t[k] : k \in (0 + 1)..x}
      /\ p(x, y) \in Seq(Pages) /\ IsInjective(p(x, y)) /\ Range(p(x, y)) = {t[k] : k \in (x + 1)..y}
      /\ p(y, z) \in Seq(Pages) /\ IsInjective(p(y, z)) /\ Range(p(y, z)) = {t[k] : k \in (y + 1)..z}
      /\ p(z, n) \in Seq(Pages) /\ IsInjective(p(z, n)) /\ Range(p(z, n)) = {t[k] : k \in (z + 1)..n}
  <2> HIDE DEF p
  <2>1. z <= n
    BY DEF n
  <2> QED
    BY <1>0, <1>1, <1>3, <2>1
<1>5. Range(t) = Range(p(0, x)) \cup Range(p(x, y)) \cup Range(p(y, z)) \cup Range(p(z, n))
  <2>1. \A k \in 1..n : k \in (0 + 1)..x \/ k \in (x + 1)..y \/ k \in (y + 1)..z \/ k \in (z + 1)..n
    BY <1>0
  <2>2. /\ \A k \in (0 + 1)..x : k \in 1..n
        /\ \A k \in (x + 1)..y : k \in 1..n
        /\ \A k \in (y + 1)..z : k \in 1..n
        /\ \A k \in (z + 1)..n : k \in 1..n
    BY <1>0 DEF n
  <2>3. Range(t) = {t[k] : k \in 1..n}
    BY <1>0 DEF Range
  <2> HIDE DEF p
  <2> QED
    BY <1>4, <2>1, <2>2, <2>3
<1>6. /\ Range(p(0, x)) \cap Range(p(x, y)) = {}
      /\ Range(p(0, x)) \cap Range(p(y, z)) = {}
      /\ Range(p(0, x)) \cap Range(p(z, n)) = {}
      /\ Range(p(x, y)) \cap Range(p(y, z)) = {}
      /\ Range(p(x, y)) \cap Range(p(z, n)) = {}
      /\ Range(p(y, z)) \cap Range(p(z, n)) = {}
  <2> HIDE DEF p
  <2>0. z <= n /\ x <= z
    BY DEF n
  <2>1. Range(p(0, x)) \cap Range(p(x, y)) = {}
    BY <1>0, <1>2, <1>3
  <2>2. Range(p(0, x)) \cap Range(p(y, z)) = {}
    BY <1>0, <1>2, <1>3
  <2>3. Range(p(0, x)) \cap Range(p(z, n)) = {}
    BY <1>0, <1>2, <1>3, <2>0
  <2>4. Range(p(x, y)) \cap Range(p(y, z)) = {}
    BY <1>0, <1>2, <1>3
  <2>5. Range(p(x, y)) \cap Range(p(z, n)) = {}
    BY <1>0, <1>2, <1>3, <2>0
  <2>6. Range(p(y, z)) \cap Range(p(z, n)) = {}
    BY <1>0, <1>2, <1>3, <2>0
  <2> QED
    BY <2>1, <2>2, <2>3, <2>4, <2>5, <2>6
<1> QED
  BY <1>4, <1>5, <1>6 DEF Split, n

(* Page ids of lists of slots, and of their concatenation. *)
LEMMA PageIdsFacts ==
  ASSUME NEW s \in Seq(Nat), NEW t \in Seq(Nat)
  PROVE  /\ s \o t \in Seq(Nat)
         /\ PageIds(s) \in Seq(Nat)
         /\ PageIds(s \o t) = PageIds(s) \o PageIds(t)
         /\ PagesIn(s \o t) = PagesIn(s) \cup PagesIn(t)
         /\ Range(PageIds(s)) = PagesIn(s)
<1> DEFINE a == Len(s)
           b == Len(t)
           c == s \o t
<1>1. /\ a \in Nat /\ b \in Nat /\ DOMAIN s = 1..a /\ DOMAIN t = 1..b /\ DOMAIN c = 1..(a + b)
      /\ c \in Seq(Nat) /\ Len(c) = a + b
      /\ \A i \in 1..(a + b) : c[i] = IF i <= a THEN s[i] ELSE t[i - a]
  <2>1. c \in Seq(Nat) /\ Len(c) = a + b
    BY ConcatProperties
  <2>2. DOMAIN c = 1..Len(c)
    BY <2>1, LenProperties
  <2> QED
    BY <2>1, <2>2, LenProperties, ConcatProperties
<1>2. ASSUME NEW l \in Seq(Nat)
      PROVE  /\ PageIds(l) \in Seq(Nat) /\ Len(PageIds(l)) = Len(l)
             /\ Range(PageIds(l)) = PagesIn(l)
             /\ \A i \in 1..Len(l) : PageIds(l)[i] = l[i] \div PageSize
  <2>1. Len(l) \in Nat /\ DOMAIN l = 1..Len(l) /\ \A i \in 1..Len(l) : l[i] \in Nat
    BY LenProperties
  <2>2. \A i \in 1..Len(l) : l[i] \div PageSize \in Nat
    BY <2>1, DivFacts
  <2>3. PageIds(l) \in [1..Len(l) -> Nat]
    BY <2>1, <2>2 DEF PageIds
  <2>4. PageIds(l) \in Seq(Nat) /\ Len(PageIds(l)) = Len(l)
    BY <2>1, <2>3, FunSeq
  <2>5. \A i \in 1..Len(l) : PageIds(l)[i] = l[i] \div PageSize
    BY <2>1 DEF PageIds
  <2>6. Range(PageIds(l)) = PagesIn(l)
    BY <2>1, <2>3, <2>5 DEF Range, PagesIn
  <2> QED
    BY <2>4, <2>5, <2>6
<1> DEFINE u == PageIds(s)
           v == PageIds(t)
           w == PageIds(c)
<1>3. /\ u \in Seq(Nat) /\ v \in Seq(Nat) /\ w \in Seq(Nat)
      /\ Len(u) = a /\ Len(v) = b /\ Len(w) = a + b
      /\ \A i \in 1..a : u[i] = s[i] \div PageSize
      /\ \A i \in 1..b : v[i] = t[i] \div PageSize
      /\ \A i \in 1..(a + b) : w[i] = c[i] \div PageSize
      /\ Range(u) = PagesIn(s) /\ Range(v) = PagesIn(t) /\ Range(w) = PagesIn(c)
  <2> HIDE DEF c
  <2> QED
    BY <1>1, <1>2
<1> HIDE DEF a, b, c, u, v, w
<1>4. w = u \o v
  <2>1. /\ u \o v \in Seq(Nat) /\ Len(u \o v) = Len(u) + Len(v)
        /\ \A i \in 1..(Len(u) + Len(v)) :
             (u \o v)[i] = IF i <= Len(u) THEN u[i] ELSE v[i - Len(u)]
    BY <1>3, ConcatProperties
  <2>2. ASSUME NEW i \in 1..(a + b) PROVE w[i] = (u \o v)[i]
    <3>1. CASE i <= a
      BY <1>1, <1>3, <2>1, <3>1
    <3>2. CASE ~ (i <= a)
      <4>1. i - a \in 1..b
        BY <1>1, <3>2
      <4>2. c[i] = t[i - a] /\ (u \o v)[i] = v[i - a]
        BY <1>1, <1>3, <2>1, <3>2
      <4> QED
        BY <1>3, <4>1, <4>2
    <3> QED
      BY <3>1, <3>2
  <2> QED
    BY <1>3, <2>1, <2>2, SeqEqual
<1>5. Range(w) = Range(u) \cup Range(v)
  BY <1>3, <1>4, InjectiveConcat
<1> QED
  BY <1>1, <1>3, <1>4, <1>5 DEF u, v, w, c

(* torch.unique. *)
LEMMA UniqueFacts ==
  ASSUME NEW slots, PagesIn(slots) \subseteq Pages, NEW ids \in UniquePages(slots)
  PROVE  ids \in Seq(Pages) /\ IsInjective(ids) /\ Range(ids) = PagesIn(slots)
<1> DEFINE S == PagesIn(slots)
           n == Cardinality(S)
<1>1. n \in Nat
  <2>1. IsFiniteSet(Pages)
    BY AllocAssumption, FS_Interval DEF Pages
  <2>2. IsFiniteSet(S)
    BY <2>1, FS_Subset
  <2> QED
    BY <2>2, FS_CardinalityType
<1>2. /\ ids \in [1..n -> S] /\ Range(ids) = S
      /\ \A i, j \in DOMAIN ids : i < j => ids[i] < ids[j]
  BY DEF UniquePages
<1> HIDE DEF n, S
<1>3. ids \in [1..n -> Pages]
  BY <1>2 DEF S
<1>4. ids \in Seq(Pages) /\ DOMAIN ids = 1..n
  BY <1>1, <1>3, FunSeq
<1>5. IsInjective(ids)
  <2>1. \A i \in 1..n : ids[i] \in Nat
    BY <1>3, PagesAreNat
  <2>2. ASSUME NEW i \in 1..n, NEW j \in 1..n, ids[i] = ids[j] PROVE i = j
    <3>1. ~ (i < j)
      BY <1>2, <1>4, <2>1, <2>2
    <3>2. ~ (j < i)
      BY <1>2, <1>4, <2>1, <2>2
    <3> QED
      BY <1>1, <3>1, <3>2
  <2> QED
    BY <1>4, <2>2 DEF IsInjective
<1> QED
  BY <1>2, <1>4, <1>5 DEF S

(* _release_page_ids puts pages that no list has in front of one list. *)
LEMMA ReleaseIds ==
  ASSUME TypeOK, Lists, NothingReleased, NEW ids \in Seq(Pages), IsInjective(ids),
         Range(ids) \cap (Range(free_pages) \cup Range(release_pages)) = {},
         ReleasePageIds(ids), need_sort' = need_sort
  PROVE  /\ free_pages' \in Seq(Pages) /\ release_pages' \in Seq(Pages)
         /\ IsInjective(free_pages') /\ IsInjective(release_pages')
         /\ Range(free_pages') \cap Range(release_pages') = {}
         /\ Range(free_pages') \cup Range(release_pages') =
                Range(free_pages) \cup Range(release_pages) \cup Range(ids)
         /\ NothingReleased'
<1>0. free_pages \in Seq(Pages) /\ release_pages \in Seq(Pages)
  BY DEF TypeOK
<1>1. CASE need_sort
  <2>1. release_pages' = ids \o release_pages /\ free_pages' = free_pages
    BY <1>1 DEF ReleasePageIds
  <2>2. ids \o release_pages \in Seq(Pages)
    BY <1>0, ConcatProperties
  <2>3. /\ Range(ids \o release_pages) = Range(ids) \cup Range(release_pages)
        /\ IsInjective(ids \o release_pages)
    BY <1>0, InjectiveConcat DEF Lists
  <2> QED
    BY <1>0, <1>1, <2>1, <2>2, <2>3 DEF Lists, NothingReleased
<1>2. CASE ~ need_sort
  <2>1. free_pages' = ids \o free_pages /\ release_pages' = release_pages
    BY <1>2 DEF ReleasePageIds
  <2>2. ids \o free_pages \in Seq(Pages)
    BY <1>0, ConcatProperties
  <2>3. /\ Range(ids \o free_pages) = Range(ids) \cup Range(free_pages)
        /\ IsInjective(ids \o free_pages)
    BY <1>0, InjectiveConcat DEF Lists
  <2> QED
    BY <1>0, <1>2, <2>1, <2>2, <2>3 DEF Lists, NothingReleased
<1> QED
  BY <1>1, <1>2

(* What PoolInv says about the allocator's variables. *)
LEMMA PoolSets ==
  ASSUME PoolProofs!PoolInv
  PROVE  /\ (Range(free_pages) \cup Range(release_pages))
              \cap (Range(DeferredReps) \cup DeferredPages) = {}
         /\ Range(DeferredReps) \cup DeferredPages \subseteq Pages
         /\ \A r \in Row : RowPages(r) \cap (Range(free_pages) \cup Range(release_pages)
                                             \cup Range(DeferredReps) \cup DeferredPages) = {}
BY DEF PoolProofs!PoolInv, PoolProofs!Partition, PoolProofs!TypeOK

(* free_group_begin opens the group of the pool. *)
LEMMA BeginStep ==
  ASSUME Inv, FreeGroupBegin
  PROVE  Inv' /\ PoolProofs!Next
<1>0. TypeOK /\ Lists /\ Layout /\ NothingReleased /\ PoolProofs!PoolInv
  BY DEF Inv
<1>1. /\ ~in_free_group /\ in_free_group' = TRUE /\ free_group' = <<>>
      /\ free_page_reps_group' = <<>> /\ result' = Done
      /\ UNCHANGED <<need_sort, free_pages, release_pages, rows>>
  BY DEF FreeGroupBegin
<1>2. DeferredReps = <<>> /\ DeferredPages = {}
  BY <1>1 DEF DeferredReps, DeferredPages
<1>3. DeferredReps' = <<>> /\ DeferredPages' = {}
  BY <1>1 DEF DeferredReps, DeferredPages, PageIds, PagesIn
<1>4. TypeOK'
  BY <1>0, <1>1 DEF TypeOK, Done
<1>5. Lists' /\ Layout' /\ NothingReleased' /\ RefusedOnlyWhenFull'
  BY <1>0, <1>1, <1>2, <1>3 DEF Lists, Layout, NothingReleased, RefusedOnlyWhenFull, Done
<1>6. PoolProofs!OpenGroup
  <2>1. [r \in Row |-> RowPages(r)]' = [r \in Row |-> RowPages(r)]
    BY <1>1 DEF RowPages, PagesIn
  <2> QED
    BY <1>1, <1>2, <1>3, <2>1 DEF PoolProofs!OpenGroup
<1>7. PoolProofs!Next
  BY <1>6 DEF PoolProofs!Next
<1> QED
  BY <1>0, <1>4, <1>5, <1>7, PoolStep DEF Inv

(* free_group_end gives the lists every deferred page, once. *)
LEMMA EndStep ==
  ASSUME Inv, FreeGroupEnd
  PROVE  Inv' /\ PoolProofs!Next
<1>0. TypeOK /\ Lists /\ Layout /\ NothingReleased /\ PoolProofs!PoolInv
  BY DEF Inv
<1>1. PICK ids \in UniquePages(free_group) :
        /\ in_free_group /\ in_free_group' = FALSE
        /\ ReleasePageIds(PageIds(free_page_reps_group) \o ids)
        /\ free_page_reps_group' = <<>> /\ result' = Done
        /\ UNCHANGED <<need_sort, free_group, rows>>
  BY DEF FreeGroupEnd
<1>2. DeferredReps = PageIds(free_page_reps_group) /\ DeferredPages = PagesIn(free_group)
  BY <1>1 DEF DeferredReps, DeferredPages
<1>3. DeferredReps' = <<>> /\ DeferredPages' = {}
  BY <1>1 DEF DeferredReps, DeferredPages
<1>4. ids \in Seq(Pages) /\ IsInjective(ids) /\ Range(ids) = DeferredPages
  BY <1>0, <1>1, <1>2, PoolSets, UniqueFacts
<1> DEFINE all == DeferredReps \o ids
<1>5. all \in Seq(Pages) /\ IsInjective(all) /\ Range(all) = Range(DeferredReps) \cup DeferredPages
  <2>1. DeferredReps \in Seq(Pages)
    <3>1. DeferredReps \in Seq(Nat)
      BY <1>0, <1>2, PageIdsFacts DEF TypeOK
    <3>2. Range(DeferredReps) \subseteq Pages
      BY <1>0, PoolSets
    <3> DEFINE l == DeferredReps
    <3> HIDE DEF l
    <3>3. l \in [1..Len(l) -> Nat] /\ Len(l) \in Nat /\ Range(l) \subseteq Pages
      BY <3>1, <3>2, LenProperties DEF l
    <3>4. l \in [1..Len(l) -> Pages]
      BY <3>3 DEF Range
    <3>5. l \in Seq(Pages)
      BY <3>3, <3>4, FunSeq
    <3> QED
      BY <3>5 DEF l
  <2>2. all \in Seq(Pages)
    BY <1>4, <2>1, ConcatProperties
  <2> QED
    BY <1>0, <1>4, <2>1, <2>2, InjectiveConcat DEF Lists
<1>6. ReleasePageIds(all)
  BY <1>1, <1>2
<1>7. Range(all) \cap (Range(free_pages) \cup Range(release_pages)) = {}
  BY <1>0, <1>5, PoolSets
<1> HIDE DEF all
<1>8. /\ free_pages' \in Seq(Pages) /\ release_pages' \in Seq(Pages)
      /\ IsInjective(free_pages') /\ IsInjective(release_pages')
      /\ Range(free_pages') \cap Range(release_pages') = {}
      /\ Range(free_pages') \cup Range(release_pages') =
                Range(free_pages) \cup Range(release_pages) \cup Range(all)
      /\ NothingReleased'
  BY <1>0, <1>1, <1>5, <1>6, <1>7, ReleaseIds
<1>9. TypeOK'
  <2>1. free_page_reps_group' \in Seq(Nat) /\ in_free_group' \in BOOLEAN
    BY <1>1, EmptyList
  <2>2. result' \in [ok : BOOLEAN, need : Nat]
    BY <1>1 DEF Done
  <2> QED
    BY <1>0, <1>1, <1>8, <2>1, <2>2 DEF TypeOK
<1>10. Lists' /\ Layout' /\ RefusedOnlyWhenFull'
  BY <1>0, <1>1, <1>3, <1>8, EmptyList DEF Lists, Layout, RefusedOnlyWhenFull, Done
<1>11. PoolProofs!CloseGroup
  <2>1. [r \in Row |-> RowPages(r)]' = [r \in Row |-> RowPages(r)]
    BY <1>1 DEF RowPages, PagesIn
  <2>2. (Range(DeferredReps) \cup DeferredPages)' = {}
    BY <1>3, EmptyList
  <2>3. (Range(free_pages) \cup Range(release_pages))' =
          (Range(free_pages) \cup Range(release_pages)) \cup (Range(DeferredReps) \cup DeferredPages)
    BY <1>5, <1>8
  <2> QED
    BY <1>1, <2>1, <2>2, <2>3 DEF PoolProofs!CloseGroup
<1>12. PoolProofs!Next
  BY <1>11 DEF PoolProofs!Next
<1> QED
  BY <1>0, <1>8, <1>9, <1>10, <1>12, PoolStep DEF Inv

(* The list of all pages, in order. *)
LEMMA AllPages ==
  LET all == [i \in 1..NumPages |-> i]
  IN  all \in Seq(Pages) /\ IsInjective(all) /\ Range(all) = Pages
<1> DEFINE all == [i \in 1..NumPages |-> i]
<1>1. all \in [1..NumPages -> Pages] /\ NumPages \in Nat
  BY AllocAssumption DEF Pages
<1>2. all \in Seq(Pages)
  <2> HIDE DEF all
  <2> QED
    BY <1>1, FunSeq
<1> QED
  BY <1>2 DEF IsInjective, Range, Pages

(* clear() returns to the initial state of the pool. *)
LEMMA ClearStep ==
  ASSUME Inv, Clear
  PROVE  Inv' /\ PoolProofs!Next
<1> DEFINE all == [i \in 1..NumPages |-> i]
<1>0. TypeOK /\ PoolProofs!PoolInv /\ all \in Seq(Pages) /\ IsInjective(all) /\ Range(all) = Pages
  BY AllPages DEF Inv
<1> HIDE DEF all
<1>1. /\ free_pages' = all /\ release_pages' = <<>> /\ in_free_group' = FALSE
      /\ free_group' = <<>> /\ free_page_reps_group' = <<>>
      /\ rows' = [r \in Row |-> <<>>] /\ result' = Done /\ need_sort' = need_sort
  BY DEF Clear, all
<1>2. DeferredReps' = <<>> /\ DeferredPages' = {}
  BY <1>1 DEF DeferredReps, DeferredPages
<1>3. TypeOK'
  <2>1. /\ free_page_reps_group' \in Seq(Nat) /\ free_group' \in Seq(Nat)
        /\ release_pages' \in Seq(Pages) /\ in_free_group' \in BOOLEAN
    BY <1>1, EmptyList
  <2>2. result' \in [ok : BOOLEAN, need : Nat]
    BY <1>1 DEF Done
  <2>3. rows' \in [Row -> Seq(Nat)]
    BY <1>1, EmptyList
  <2> QED
    BY <1>0, <1>1, <2>1, <2>2, <2>3 DEF TypeOK
<1>4. Lists'
  BY <1>0, <1>1, <1>2, EmptyList DEF Lists
<1>5. Layout' /\ NothingReleased' /\ RefusedOnlyWhenFull'
  BY <1>1, LaidOutEmpty, EmptyList DEF Layout, NothingReleased, RefusedOnlyWhenFull, Done
<1>6. PoolProofs!Clear
  <2>1. [r \in Row |-> RowPages(r)]' = [r \in Row |-> {}]
    <3>1. \A r \in Row : RowPages(r)' = {}
      BY <1>1 DEF RowPages, PagesIn
    <3> QED
      BY <3>1
  <2> QED
    BY <1>0, <1>1, <1>2, <2>1, EmptyList DEF PoolProofs!Clear
<1>7. PoolProofs!Next
  BY <1>6 DEF PoolProofs!Next
<1> QED
  BY <1>0, <1>3, <1>4, <1>5, <1>7, PoolStep DEF Inv

(* Pages of a row that no list and no other row has. *)
LEMMA RowSets ==
  ASSUME Inv, NEW r \in Row, NEW s, NEW t, s = rows[r], t = BlockTable(s)
  PROVE  /\ LaidOut(s, t) /\ IsInjective(t) /\ t \in Seq(Pages) /\ s \in Seq(Nat)
         /\ Range(t) = RowPages(r)
         /\ Range(t) \cap (Range(free_pages) \cup Range(release_pages)) = {}
         /\ Range(t) \cap (Range(DeferredReps) \cup DeferredPages) = {}
<1>1. LaidOut(s, t) /\ IsInjective(t)
  BY DEF Inv, Layout
<1>2. t \in Seq(Pages) /\ s \in Seq(Nat)
  BY <1>1 DEF LaidOut
<1>3. Range(t) = RowPages(r)
  BY <1>1, LaidOutTable DEF RowPages
<1> QED
  BY <1>1, <1>2, <1>3, PoolSets DEF Inv

(* free_segments frees each page of the two segments once. *)
LEMMA SegmentsStep ==
  ASSUME Inv, NEW r \in Row, NEW q \in Row, NEW a \in Nat, NEW b \in Nat, NEW c \in Nat,
         a % PageSize = 0, a <= b, b <= c, c <= Len(rows[r]),
         b = c \/ (b % PageSize = 0 /\ c % PageSize = 0), FreeSegments(r, q, a, b, c)
  PROVE  Inv' /\ PoolProofs!Next
<1> DEFINE s == rows[r]
           t == BlockTable(s)
           x == Ceil(a)
           y == Ceil(b)
           z == Ceil(c)
           t1 == SubSeq(t, 0 + 1, x)
           t2 == SubSeq(t, x + 1, y)
           t3 == SubSeq(t, y + 1, z)
           t4 == SubSeq(t, z + 1, Len(t))
           second == SecondStart(a, b, c)
           reps1 == PageReps(SubSeq(s, a + 1, b), a)
           reps2 == PageReps(SubSeq(s, second + 1, Len(s)), second)
           keeps == SubSeq(s, 1, a)
           passes == SubSeq(s, b + 1, c)
           S == Range(t2) \cup Range(t4)
           M == Range(t3)
<1>0. TypeOK /\ Lists /\ Layout /\ NothingReleased /\ PoolProofs!PoolInv
  BY DEF Inv
<1>1. /\ LaidOut(s, t) /\ IsInjective(t) /\ t \in Seq(Pages) /\ s \in Seq(Nat)
      /\ Range(t) = RowPages(r)
      /\ Range(t) \cap (Range(free_pages) \cup Range(release_pages)) = {}
      /\ Range(t) \cap (Range(DeferredReps) \cup DeferredPages) = {}
  BY RowSets
<1>2. Pieces(s, t, a, b, c, x, y, z)
  BY <1>1, Cut
<1>3. x \in Nat /\ y \in Nat /\ z \in Nat /\ x <= y /\ y <= z /\ z <= Len(t)
  BY <1>2 DEF Pieces
<1>4. /\ LaidOut(keeps, t1) /\ LaidOut(SubSeq(s, a + 1, b), t2) /\ LaidOut(passes, t3)
      /\ LaidOut(SubSeq(s, second + 1, Len(s)), t4) /\ second \in Nat /\ second % PageSize = 0
  BY <1>2 DEF Pieces
<1>5. Split(t, x, y, z)
  <2> HIDE DEF t, x, y, z
  <2> QED
    BY <1>1, <1>3, SplitFacts
<1>6. /\ t1 \in Seq(Pages) /\ IsInjective(t1) /\ t2 \in Seq(Pages) /\ IsInjective(t2)
      /\ t3 \in Seq(Pages) /\ IsInjective(t3) /\ t4 \in Seq(Pages) /\ IsInjective(t4)
      /\ Range(t) = Range(t1) \cup Range(t2) \cup Range(t3) \cup Range(t4)
      /\ Range(t1) \cap Range(t2) = {} /\ Range(t1) \cap Range(t3) = {}
      /\ Range(t1) \cap Range(t4) = {} /\ Range(t2) \cap Range(t3) = {}
      /\ Range(t2) \cap Range(t4) = {} /\ Range(t3) \cap Range(t4) = {}
  BY <1>5 DEF Split
<1>7. /\ reps1 \in Seq(Nat) /\ PageIds(reps1) = t2
      /\ reps2 \in Seq(Nat) /\ PageIds(reps2) = t4
  <2>1. reps1 \in Seq(Nat) /\ PageIds(reps1) = t2
    <3> HIDE DEF t2
    <3> QED
      BY <1>4, RepsOfPages
  <2>2. reps2 \in Seq(Nat) /\ PageIds(reps2) = t4
    <3> HIDE DEF t4, second
    <3> QED
      BY <1>4, RepsOfPages
  <2> QED
    BY <2>1, <2>2
<1>8. /\ rows[q] = <<>> /\ q # r
      /\ rows' = [rows EXCEPT ![r] = keeps, ![q] = passes]
      /\ IF in_free_group
         THEN /\ free_page_reps_group' = free_page_reps_group \o reps1 \o reps2
              /\ UNCHANGED <<free_pages, release_pages>>
         ELSE /\ ReleasePageIds(PageIds(reps2 \o reps1))
              /\ UNCHANGED free_page_reps_group
      /\ result' = Done
      /\ UNCHANGED <<need_sort, in_free_group, free_group>>
  BY DEF FreeSegments
<1>9. keeps \in Seq(Nat) /\ passes \in Seq(Nat)
  BY <1>4 DEF LaidOut
<1>10. t1 = BlockTable(keeps) /\ PagesIn(keeps) = Range(t1)
         /\ t3 = BlockTable(passes) /\ PagesIn(passes) = Range(t3)
  <2> HIDE DEF t1, t3, keeps, passes
  <2> QED
    BY <1>4, LaidOutTable
<1> HIDE DEF t1, t2, t3, t4, keeps, passes, reps1, reps2, t, s
<1>11. /\ rows' \in [Row -> Seq(Nat)] /\ rows'[r] = keeps /\ rows'[q] = passes
       /\ \A k \in Row \ {r, q} : rows'[k] = rows[k]
  BY <1>0, <1>8, <1>9 DEF TypeOK
<1>12. Layout'
  <2>1. ASSUME NEW k \in Row
        PROVE  LaidOut(rows'[k], BlockTable(rows'[k])) /\ IsInjective(BlockTable(rows'[k]))
    <3>1. CASE k = r
      BY <1>4, <1>6, <1>10, <1>11, <3>1
    <3>2. CASE k = q
      BY <1>4, <1>6, <1>10, <1>11, <3>2
    <3>3. CASE k \notin {r, q}
      BY <1>0, <1>11, <3>3 DEF Layout
    <3> QED
      BY <3>1, <3>2, <3>3
  <2> QED
    BY <2>1 DEF Layout
<1>13. RefusedOnlyWhenFull' /\ result' \in [ok : BOOLEAN, need : Nat]
  BY <1>8 DEF RefusedOnlyWhenFull, Done
<1>14. DeferredPages' = DeferredPages
  BY <1>8 DEF DeferredPages, PagesIn
<1>15. [k \in Row |-> RowPages(k)]' = PoolProofs!Moved(r, q, S, M)
  <2>1. RowPages(r)' = RowPages(r) \ (S \cup M)
    <3>1. RowPages(r)' = Range(t1)
      BY <1>10, <1>11 DEF RowPages
    <3> QED
      BY <1>1, <1>6, <3>1
  <2>2. RowPages(q)' = RowPages(q) \cup M
    <3>1. RowPages(q)' = Range(t3)
      BY <1>10, <1>11 DEF RowPages
    <3>2. RowPages(q) = {}
      BY <1>8 DEF RowPages, PagesIn
    <3> QED
      BY <3>1, <3>2
  <2>3. \A k \in Row \ {r, q} : RowPages(k)' = RowPages(k)
    BY <1>11 DEF RowPages
  <2> DEFINE h == [k \in Row |-> RowPages(k)]
             g == [k \in Row |-> (h[k] \ (IF k = r THEN S \cup M ELSE {}))
                                 \cup (IF k = q THEN M ELSE {})]
  <2>4. \A k \in Row : g[k] = RowPages(k)'
    <3>1. g[r] = RowPages(r) \ (S \cup M) /\ g[q] = RowPages(q) \cup M
      BY <1>8
    <3>2. \A k \in Row \ {r, q} : g[k] = RowPages(k)
      OBVIOUS
    <3> HIDE DEF g, S, M
    <3> QED
      BY <2>1, <2>2, <2>3, <3>1, <3>2
  <2>5. g = [k \in Row |-> g[k]]
    OBVIOUS
  <2> HIDE DEF g
  <2>6. [k \in Row |-> RowPages(k)]' = [k \in Row |-> g[k]]
    BY <2>4
  <2> QED
    BY <2>5, <2>6 DEF g, PoolProofs!Moved
<1>16. S \in SUBSET RowPages(r) /\ M \in SUBSET RowPages(r) /\ S \cap M = {}
  BY <1>1, <1>6
<1>17. CASE in_free_group
  <2>1. /\ free_page_reps_group' = free_page_reps_group \o reps1 \o reps2
        /\ UNCHANGED <<free_pages, release_pages>>
    BY <1>8, <1>17
  <2>2. DeferredReps = PageIds(free_page_reps_group)
    BY <1>17 DEF DeferredReps
  <2>3. DeferredReps' = PageIds(free_page_reps_group \o reps1 \o reps2)
    BY <1>8, <1>17, <2>1 DEF DeferredReps, PageIds
  <2> DEFINE f == free_page_reps_group
  <2>4. f \in Seq(Nat)
    BY <1>0 DEF TypeOK
  <2> HIDE DEF f
  <2>5. f \o reps1 \in Seq(Nat) /\ PageIds(f \o reps1) = PageIds(f) \o t2
    BY <1>7, <2>4, PageIdsFacts
  <2>6. (f \o reps1) \o reps2 \in Seq(Nat)
          /\ PageIds((f \o reps1) \o reps2) = PageIds(f \o reps1) \o t4
    <3> DEFINE g == f \o reps1
    <3>1. g \in Seq(Nat)
      BY <2>5
    <3> HIDE DEF g
    <3>2. g \o reps2 \in Seq(Nat) /\ PageIds(g \o reps2) = PageIds(g) \o t4
      BY <1>7, <3>1, PageIdsFacts
    <3> QED
      BY <3>2 DEF g
  <2> DEFINE d == DeferredReps
  <2>7. DeferredReps' = (d \o t2) \o t4
    BY <2>2, <2>3, <2>5, <2>6 DEF f
  <2>8. d \in Seq(Nat) /\ IsInjective(d) /\ t2 \in Seq(Nat) /\ t4 \in Seq(Nat)
    <3>1. PageIds(f) \in Seq(Nat)
      BY <2>4, PageIdsFacts
    <3>2. t2 \in Seq(Nat) /\ t4 \in Seq(Nat)
      BY <1>6, PagesAreNat, SeqMonotonic
    <3> QED
      BY <1>0, <2>2, <3>1, <3>2 DEF f, Lists
  <2>9. Range(d) \cap Range(t) = {} /\ DeferredPages \cap Range(t) = {}
    BY <1>1
  <2>15. Range(d) \cap DeferredPages = {}
    BY <1>0 DEF Lists
  <2> HIDE DEF d
  <2>10. d \o t2 \in Seq(Nat) /\ IsInjective(d \o t2) /\ Range(d \o t2) = Range(d) \cup Range(t2)
    <3>1. d \o t2 \in Seq(Nat)
      BY <2>8, ConcatProperties
    <3>2. Range(d) \cap Range(t2) = {}
      BY <1>6, <2>9
    <3> QED
      BY <1>6, <2>8, <3>1, <3>2, InjectiveConcat
  <2>11. /\ IsInjective((d \o t2) \o t4)
         /\ Range((d \o t2) \o t4) = Range(d) \cup Range(t2) \cup Range(t4)
    <3> DEFINE e == d \o t2
    <3>1. e \in Seq(Nat) /\ IsInjective(e) /\ Range(e) = Range(d) \cup Range(t2)
      BY <2>10
    <3> HIDE DEF e
    <3>2. Range(e) \cap Range(t4) = {}
      BY <1>6, <2>9, <3>1
    <3>3. IsInjective(e \o t4) /\ Range(e \o t4) = Range(e) \cup Range(t4)
      BY <1>6, <2>8, <3>1, <3>2, InjectiveConcat
    <3> QED
      BY <3>1, <3>3 DEF e
  <2>12. TypeOK'
    BY <1>0, <1>8, <1>11, <1>13, <2>1, <2>6 DEF TypeOK, f
  <2>13. Lists' /\ NothingReleased'
    <3>1. Range(DeferredReps') \cap DeferredPages = {}
      BY <1>6, <2>7, <2>9, <2>11, <2>15
    <3> QED
      BY <1>0, <1>8, <1>14, <2>1, <2>7, <2>11, <3>1 DEF Lists, NothingReleased
  <2>14. PoolProofs!Release
    <3>1. (Range(DeferredReps) \cup DeferredPages)' = (Range(DeferredReps) \cup DeferredPages) \cup S
      BY <1>14, <2>7, <2>11 DEF d
    <3>2. (Range(free_pages) \cup Range(release_pages))' = Range(free_pages) \cup Range(release_pages)
      BY <2>1
    <3>3. in_free_group' = in_free_group
      BY <1>8
    <3>4. S \in SUBSET [k \in Row |-> RowPages(k)][r] /\ M \in SUBSET [k \in Row |-> RowPages(k)][r]
      BY <1>16
    <3> HIDE DEF S, M
    <3> QED
      BY <1>15, <1>16, <1>17, <3>1, <3>2, <3>3, <3>4 DEF PoolProofs!Release
  <2>16. PoolProofs!Next
    BY <2>14 DEF PoolProofs!Next
  <2> QED
    BY <1>0, <1>12, <1>13, <2>12, <2>13, <2>16, PoolStep DEF Inv
<1>18. CASE ~ in_free_group
  <2> DEFINE ids == t4 \o t2
  <2>1. ReleasePageIds(ids) /\ free_page_reps_group' = free_page_reps_group
    <3>1. PageIds(reps2 \o reps1) = ids
      BY <1>7, PageIdsFacts
    <3> QED
      BY <1>8, <1>18, <3>1
  <2>2. ids \in Seq(Pages) /\ IsInjective(ids) /\ Range(ids) = S
    <3>1. ids \in Seq(Pages)
      BY <1>6, ConcatProperties
    <3>2. IsInjective(ids) /\ Range(ids) = Range(t4) \cup Range(t2)
      BY <1>6, InjectiveConcat
    <3> QED
      BY <3>1, <3>2
  <2>3. Range(ids) \cap (Range(free_pages) \cup Range(release_pages)) = {}
    BY <1>1, <1>6, <2>2
  <2> HIDE DEF ids, S, M
  <2>4. /\ free_pages' \in Seq(Pages) /\ release_pages' \in Seq(Pages)
        /\ IsInjective(free_pages') /\ IsInjective(release_pages')
        /\ Range(free_pages') \cap Range(release_pages') = {}
        /\ Range(free_pages') \cup Range(release_pages') =
                  Range(free_pages) \cup Range(release_pages) \cup S
        /\ NothingReleased'
    BY <1>0, <1>8, <2>1, <2>2, <2>3, ReleaseIds
  <2>5. DeferredReps' = DeferredReps
    BY <1>8, <1>18 DEF DeferredReps
  <2>6. TypeOK'
    BY <1>0, <1>8, <1>11, <1>13, <2>1, <2>4 DEF TypeOK
  <2>7. Lists'
    BY <1>0, <1>14, <2>4, <2>5 DEF Lists
  <2>8. PoolProofs!Release
    <3>1. (Range(DeferredReps) \cup DeferredPages)' = Range(DeferredReps) \cup DeferredPages
      BY <1>14, <2>5
    <3>2. (Range(free_pages) \cup Range(release_pages))' = (Range(free_pages) \cup Range(release_pages)) \cup S
      BY <2>4
    <3>3. in_free_group' = in_free_group
      BY <1>8
    <3>4. S \in SUBSET [k \in Row |-> RowPages(k)][r] /\ M \in SUBSET [k \in Row |-> RowPages(k)][r]
      BY <1>16
    <3> QED
      BY <1>15, <1>16, <1>18, <3>1, <3>2, <3>3, <3>4 DEF PoolProofs!Release
  <2>9. PoolProofs!Next
    BY <2>8 DEF PoolProofs!Next
  <2> QED
    BY <1>0, <1>12, <1>13, <2>4, <2>6, <2>7, <2>9, PoolStep DEF Inv
<1> QED
  BY <1>17, <1>18

(* free, in or out of a group, gives up the pages of the tail once. *)
LEMMA FreeStep ==
  ASSUME Inv, NEW r \in Row, NEW a \in Nat, a % PageSize = 0, a <= Len(rows[r]), Free(r, a)
  PROVE  Inv' /\ PoolProofs!Next
<1> DEFINE s == rows[r]
           n == Len(s)
           t == BlockTable(s)
           x == Ceil(a)
           y == Ceil(n)
           t1 == SubSeq(t, 0 + 1, x)
           t2 == SubSeq(t, x + 1, y)
           keeps == SubSeq(s, 1, a)
           slots == SubSeq(s, a + 1, n)
           S == Range(t2)
<1>0. TypeOK /\ Lists /\ Layout /\ NothingReleased /\ PoolProofs!PoolInv
  BY DEF Inv
<1>1. /\ LaidOut(s, t) /\ IsInjective(t) /\ t \in Seq(Pages) /\ s \in Seq(Nat)
      /\ Range(t) = RowPages(r)
      /\ Range(t) \cap (Range(free_pages) \cup Range(release_pages)) = {}
      /\ Range(t) \cap (Range(DeferredReps) \cup DeferredPages) = {}
  BY RowSets
<1>2. n \in Nat /\ Len(t) = y
  BY <1>1 DEF LaidOut
<1>3. Pieces(s, t, a, n, n, x, y, y)
  BY <1>1, <1>2, Cut
<1>4. /\ x \in Nat /\ y \in Nat /\ x <= y /\ y <= Len(t)
      /\ LaidOut(keeps, t1) /\ LaidOut(slots, t2)
  BY <1>3 DEF Pieces
<1>5. Split(t, x, y, y)
  <2> HIDE DEF t, x, y
  <2> QED
    BY <1>1, <1>4, SplitFacts
<1>6. /\ t1 \in Seq(Pages) /\ IsInjective(t1) /\ t2 \in Seq(Pages) /\ IsInjective(t2)
      /\ Range(t) = Range(t1) \cup Range(t2) /\ Range(t1) \cap Range(t2) = {}
  <2> DEFINE e == SubSeq(t, y + 1, y)
  <2>1. /\ t1 \in Seq(Pages) /\ IsInjective(t1) /\ t2 \in Seq(Pages) /\ IsInjective(t2)
        /\ Range(t) = Range(t1) \cup Range(t2) \cup Range(e) \cup Range(e)
        /\ Range(t1) \cap Range(t2) = {}
    BY <1>2, <1>5 DEF Split
  <2>2. e = <<>>
    <3> HIDE DEF y
    <3>1. y + 1 \in Int /\ y \in Int /\ y < y + 1
      BY <1>4
    <3> QED
      BY <3>1, SubSeqEmpty
  <2> HIDE DEF e, t1, t2, t
  <2> QED
    BY <2>1, <2>2, EmptyList
<1>7. PagesIn(slots) = Range(t2) /\ slots \in Seq(Nat) /\ keeps \in Seq(Nat)
        /\ t1 = BlockTable(keeps) /\ PagesIn(keeps) = Range(t1)
  <2> HIDE DEF t1, t2, keeps, slots
  <2> QED
    BY <1>4, LaidOutTable DEF LaidOut
<1>8. /\ rows' = [rows EXCEPT ![r] = keeps]
      /\ IF in_free_group
         THEN /\ free_group' = free_group \o slots
              /\ UNCHANGED <<free_pages, release_pages>>
         ELSE /\ \E ids \in UniquePages(slots) : ReleasePageIds(ids)
              /\ UNCHANGED free_group
      /\ result' = Done
      /\ UNCHANGED <<need_sort, in_free_group, free_page_reps_group>>
  BY DEF Free
<1> HIDE DEF t1, t2, keeps, slots, t, s
<1>9. /\ rows' \in [Row -> Seq(Nat)] /\ rows'[r] = keeps
      /\ \A k \in Row \ {r} : rows'[k] = rows[k]
  BY <1>0, <1>7, <1>8 DEF TypeOK
<1>10. Layout'
  <2>1. ASSUME NEW k \in Row
        PROVE  LaidOut(rows'[k], BlockTable(rows'[k])) /\ IsInjective(BlockTable(rows'[k]))
    <3>1. CASE k = r
      BY <1>4, <1>6, <1>7, <1>9, <3>1
    <3>2. CASE k # r
      BY <1>0, <1>9, <3>2 DEF Layout
    <3> QED
      BY <3>1, <3>2
  <2> QED
    BY <2>1 DEF Layout
<1>11. RefusedOnlyWhenFull' /\ result' \in [ok : BOOLEAN, need : Nat]
  BY <1>8 DEF RefusedOnlyWhenFull, Done
<1>12. DeferredReps' = DeferredReps
  BY <1>8 DEF DeferredReps, PageIds
<1> DEFINE h == [k \in Row |-> RowPages(k)]
<1>13. h' = PoolProofs!Moved(r, r, S, {})
  <2>1. RowPages(r)' = (RowPages(r) \ (S \cup {})) \cup {}
    <3>1. RowPages(r)' = Range(t1)
      BY <1>7, <1>9 DEF RowPages
    <3> QED
      BY <1>1, <1>6, <3>1
  <2>2. \A k \in Row \ {r} : RowPages(k)' = RowPages(k)
    BY <1>9 DEF RowPages
  <2> DEFINE g == [k \in Row |-> (h[k] \ (IF k = r THEN S \cup {} ELSE {}))
                                 \cup (IF k = r THEN {} ELSE {})]
  <2>3. \A k \in Row : g[k] = RowPages(k)'
    <3>1. g[r] = (RowPages(r) \ (S \cup {})) \cup {}
      OBVIOUS
    <3>2. \A k \in Row \ {r} : g[k] = RowPages(k)
      OBVIOUS
    <3> HIDE DEF g, S, h
    <3> QED
      BY <2>1, <2>2, <3>1, <3>2
  <2>4. g = [k \in Row |-> g[k]]
    OBVIOUS
  <2> HIDE DEF g
  <2>5. h' = [k \in Row |-> g[k]]
    BY <2>3
  <2> QED
    BY <2>4, <2>5 DEF g, PoolProofs!Moved
<1>14. S \in SUBSET h[r] /\ {} \in SUBSET h[r]
  BY <1>1, <1>6
<1>15. CASE in_free_group
  <2>1. free_group' = free_group \o slots /\ UNCHANGED <<free_pages, release_pages>>
    BY <1>8, <1>15
  <2>2. free_group \in Seq(Nat)
    BY <1>0 DEF TypeOK
  <2>3. free_group \o slots \in Seq(Nat) /\ PagesIn(free_group \o slots) = PagesIn(free_group) \cup S
    BY SMTT(60), <1>7, <2>2, PageIdsFacts
  <2>4. DeferredPages' = DeferredPages \cup S
    <3>1. DeferredPages = PagesIn(free_group)
      BY <1>15 DEF DeferredPages
    <3>2. DeferredPages' = PagesIn(free_group \o slots)
      BY <1>8, <1>15, <2>1 DEF DeferredPages, PagesIn
    <3> QED
      BY <2>3, <3>1, <3>2
  <2>5. TypeOK'
    BY <1>0, <1>8, <1>9, <1>11, <2>1, <2>3 DEF TypeOK
  <2>6. Lists' /\ NothingReleased'
    <3>1. Range(DeferredReps) \cap DeferredPages' = {}
      BY <1>0, <1>1, <1>6, <2>4 DEF Lists
    <3> QED
      BY <1>0, <1>8, <1>12, <2>1, <3>1 DEF Lists, NothingReleased
  <2>7. PoolProofs!Release
    <3>1. (Range(DeferredReps) \cup DeferredPages)' = (Range(DeferredReps) \cup DeferredPages) \cup S
      BY <1>12, <2>4
    <3>2. (Range(free_pages) \cup Range(release_pages))' = Range(free_pages) \cup Range(release_pages)
      BY <2>1
    <3>3. in_free_group' = in_free_group /\ S \cap {} = {}
      BY <1>8
    <3> HIDE DEF S
    <3> QED
      BY <1>13, <1>14, <1>15, <3>1, <3>2, <3>3 DEF PoolProofs!Release
  <2>8. PoolProofs!Next
    BY <2>7 DEF PoolProofs!Next
  <2> QED
    BY <1>0, <1>10, <1>11, <2>5, <2>6, <2>8, PoolStep DEF Inv
<1>16. CASE ~ in_free_group
  <2>1. PICK ids \in UniquePages(slots) : ReleasePageIds(ids) /\ free_group' = free_group
    BY <1>8, <1>16
  <2>2. ids \in Seq(Pages) /\ IsInjective(ids) /\ Range(ids) = S
    <3>1. PagesIn(slots) \subseteq Pages
      BY <1>6, <1>7, RangeOfSeq
    <3> QED
      BY <1>7, <2>1, <3>1, UniqueFacts
  <2>3. Range(ids) \cap (Range(free_pages) \cup Range(release_pages)) = {}
    BY <1>1, <1>6, <2>2
  <2> HIDE DEF S
  <2>4. /\ free_pages' \in Seq(Pages) /\ release_pages' \in Seq(Pages)
        /\ IsInjective(free_pages') /\ IsInjective(release_pages')
        /\ Range(free_pages') \cap Range(release_pages') = {}
        /\ Range(free_pages') \cup Range(release_pages') =
                  Range(free_pages) \cup Range(release_pages) \cup S
        /\ NothingReleased'
    BY <1>0, <1>8, <2>1, <2>2, <2>3, ReleaseIds
  <2>5. DeferredPages' = DeferredPages
    BY <1>8, <1>16 DEF DeferredPages
  <2>6. TypeOK'
    BY <1>0, <1>8, <1>9, <1>11, <2>1, <2>4 DEF TypeOK
  <2>7. Lists'
    BY <1>0, <1>12, <2>4, <2>5 DEF Lists
  <2>8. PoolProofs!Release
    <3>1. (Range(DeferredReps) \cup DeferredPages)' = Range(DeferredReps) \cup DeferredPages
      BY <1>12, <2>5
    <3>2. (Range(free_pages) \cup Range(release_pages))' = (Range(free_pages) \cup Range(release_pages)) \cup S
      BY <2>4
    <3>3. in_free_group' = in_free_group /\ S \cap {} = {}
      BY <1>8
    <3> QED
      BY <1>13, <1>14, <1>16, <3>1, <3>2, <3>3 DEF PoolProofs!Release
  <2>9. PoolProofs!Next
    BY <2>8 DEF PoolProofs!Next
  <2> QED
    BY <1>0, <1>10, <1>11, <2>4, <2>6, <2>7, <2>9, PoolStep DEF Inv
<1> QED
  BY <1>15, <1>16

-----------------------------------------------------------------------------
(* Inv holds initially, and the mapped pool starts as PagePool does. *)
LEMMA InitHolds == Init => Inv /\ PoolProofs!Init
<1> SUFFICES ASSUME Init PROVE Inv /\ PoolProofs!Init
  OBVIOUS
<1> DEFINE all == [i \in 1..NumPages |-> i]
<1>0. all \in Seq(Pages) /\ IsInjective(all) /\ Range(all) = Pages
  BY AllPages
<1> HIDE DEF all
<1>1. /\ free_pages = all /\ release_pages = <<>> /\ in_free_group = FALSE
      /\ free_group = <<>> /\ free_page_reps_group = <<>>
      /\ rows = [r \in Row |-> <<>>] /\ result = Done /\ need_sort \in BOOLEAN
  BY AllocAssumption DEF Init, all
<1>2. DeferredReps = <<>> /\ DeferredPages = {}
  BY <1>1 DEF DeferredReps, DeferredPages
<1>3. TypeOK
  <2>1. /\ free_page_reps_group \in Seq(Nat) /\ free_group \in Seq(Nat)
        /\ release_pages \in Seq(Pages) /\ in_free_group \in BOOLEAN
    BY <1>1, EmptyList
  <2>2. result \in [ok : BOOLEAN, need : Nat]
    BY <1>1 DEF Done
  <2>3. rows \in [Row -> Seq(Nat)]
    BY <1>1, EmptyList
  <2> QED
    BY <1>0, <1>1, <2>1, <2>2, <2>3 DEF TypeOK
<1>4. Lists
  BY <1>0, <1>1, <1>2, EmptyList DEF Lists
<1>5. Layout /\ NothingReleased /\ RefusedOnlyWhenFull
  BY <1>1, LaidOutEmpty, EmptyList DEF Layout, NothingReleased, RefusedOnlyWhenFull, Done
<1>6. PoolProofs!Init
  <2>1. [r \in Row |-> RowPages(r)] = [r \in Row |-> {}]
    <3>1. \A r \in Row : RowPages(r) = {}
      BY <1>1 DEF RowPages, PagesIn
    <3> QED
      BY <3>1
  <2> QED
    BY <1>0, <1>1, <1>2, <2>1, EmptyList DEF PoolProofs!Init
<1>7. PoolProofs!PoolInv
  BY <1>6, PoolProofs!InitHolds
<1> QED
  BY <1>3, <1>4, <1>5, <1>6, <1>7 DEF Inv

(* Every step keeps Inv and is a step of the pool or a stutter. *)
LEMMA StepHolds == Inv /\ [Next]_vars => Inv' /\ [PoolProofs!Next]_(PoolProofs!vars)
<1> SUFFICES ASSUME Inv, [Next]_vars PROVE Inv' /\ [PoolProofs!Next]_(PoolProofs!vars)
  OBVIOUS
<1>1. CASE Next
  <2>1. CASE Extend
    BY <2>1, ExtendStep DEF Extend
  <2>2. CASE Decode
    BY <2>2, DecodeStep DEF Decode
  <2>3. CASE AllocWhole
    <3>1. \A n \in 1..(MaxRow \div PageSize) : n \in Nat
      BY AllocAssumption
    <3> QED
      BY <2>3, <3>1, AllocStep DEF AllocWhole
  <2>4. CASE FreeTail
    <3>1. PICK r \in Row : \E a \in Tails(r) : Free(r, a)
      BY <2>4 DEF FreeTail
    <3>3. PICK a \in Tails(r) : Free(r, a)
      BY <3>1
    <3>2. a \in Nat /\ a % PageSize = 0 /\ a <= Len(rows[r])
      <4>1. Len(rows[r]) \in Nat
        BY DEF Inv, TypeOK
      <4> QED
        BY <3>3, <4>1 DEF Tails
    <3> QED
      BY <3>2, <3>3, FreeStep
  <2>5. CASE FreeTailSegments
    <3>5. PICK r \in Row, q \in Row : \E a \in Tails(r) : \E bc \in CutPoints(r, a) :
            FreeSegments(r, q, a, bc[1], bc[2])
      BY <2>5 DEF FreeTailSegments
    <3>6. PICK a \in Tails(r) : \E bc \in CutPoints(r, a) : FreeSegments(r, q, a, bc[1], bc[2])
      BY <3>5
    <3>1. PICK bc \in CutPoints(r, a) : FreeSegments(r, q, a, bc[1], bc[2])
      BY <3>6
    <3>2. Len(rows[r]) \in Nat
      BY DEF Inv, TypeOK
    <3>3. a \in Nat /\ a % PageSize = 0 /\ a <= Len(rows[r])
      BY <3>1, <3>2 DEF Tails
    <3>4. PICK b \in Nat, c \in Nat :
            /\ b = bc[1] /\ c = bc[2] /\ a <= b /\ b <= c /\ c <= Len(rows[r])
            /\ b = c \/ (b % PageSize = 0 /\ c % PageSize = 0)
      <4>1. CASE \E k \in a..Len(rows[r]) : bc = <<k, k>>
        BY <3>2, <3>3, <4>1
      <4>2. CASE /\ bc \in (a..Len(rows[r])) \X (a..Len(rows[r])) /\ bc[1] <= bc[2]
                 /\ bc[1] % PageSize = 0 /\ bc[2] % PageSize = 0
        BY <3>2, <3>3, <4>2
      <4> QED
        BY <4>1, <4>2 DEF CutPoints
    <3> QED
      BY <3>1, <3>3, <3>4, SegmentsStep
  <2>6. CASE FreeGroupBegin
    BY <2>6, BeginStep
  <2>7. CASE FreeGroupEnd
    BY <2>7, EndStep
  <2>8. CASE Clear
    BY <2>8, ClearStep
  <2> QED
    BY <1>1, <2>1, <2>2, <2>3, <2>4, <2>5, <2>6, <2>7, <2>8 DEF Next
<1>2. CASE UNCHANGED vars
  <2>1. DeferredReps' = DeferredReps /\ DeferredPages' = DeferredPages
    BY <1>2 DEF vars, DeferredReps, DeferredPages, PageIds, PagesIn
  <2>2. [r \in Row |-> RowPages(r)]' = [r \in Row |-> RowPages(r)]
    BY <1>2 DEF vars, RowPages, PagesIn
  <2>3. UNCHANGED PoolProofs!vars
    BY <1>2, <2>1, <2>2 DEF vars, PoolProofs!vars
  <2>4. PoolProofs!PoolInv'
    BY <1>2, <2>1, <2>2 DEF vars, Inv, PoolProofs!PoolInv, PoolProofs!TypeOK,
          PoolProofs!Partition, PoolProofs!NothingHeldBack
  <2>5. TypeOK' /\ Layout' /\ NothingReleased' /\ RefusedOnlyWhenFull'
    BY <1>2 DEF vars, Inv, TypeOK, Layout, NothingReleased, RefusedOnlyWhenFull
  <2>6. Lists'
    BY <1>2, <2>1 DEF vars, Inv, Lists
  <2> QED
    BY <2>3, <2>4, <2>5, <2>6 DEF Inv
<1> QED
  BY <1>1, <1>2

-----------------------------------------------------------------------------
(* What the invariant gives. *)

(* Distinct lists and the partition of the pool: each page once. *)
LEMMA InvPagesOnce == Inv => PagesOnce
<1> SUFFICES ASSUME Inv PROVE PagesOnce
  OBVIOUS
<1>0. TypeOK /\ Lists /\ PoolProofs!PoolInv
  BY DEF Inv
<1>1. free_pages \in Seq(Nat) /\ release_pages \in Seq(Nat) /\ DeferredReps \in Seq(Nat)
  <2>1. free_pages \in Seq(Nat) /\ release_pages \in Seq(Nat)
    BY <1>0, PagesAreNat, SeqMonotonic DEF TypeOK
  <2>2. CASE in_free_group
    BY <1>0, <2>1, <2>2, PageIdsFacts DEF TypeOK, DeferredReps
  <2>3. CASE ~ in_free_group
    BY <2>1, <2>3, EmptyList DEF DeferredReps
  <2> QED
    BY <2>1, <2>2, <2>3
<1> DEFINE f == free_pages \o release_pages
           l == f \o DeferredReps
<1>2. f \in Seq(Nat) /\ IsInjective(f) /\ Range(f) = Range(free_pages) \cup Range(release_pages)
  <2>1. f \in Seq(Nat)
    BY <1>1, ConcatProperties
  <2> QED
    BY <1>0, <1>1, <2>1, InjectiveConcat DEF Lists
<1> HIDE DEF f
<1>3. IsInjective(l) /\ Range(l) = Range(free_pages) \cup Range(release_pages) \cup Range(DeferredReps)
  <2>1. Range(f) \cap Range(DeferredReps) = {} /\ IsInjective(DeferredReps)
    BY <1>0, <1>2, PoolSets DEF Lists
  <2> QED
    BY <1>1, <1>2, <2>1, InjectiveConcat
<1> HIDE DEF l
<1>4. Range(l) \cap DeferredPages = {}
  BY <1>0, <1>3, PoolSets DEF Lists
<1>5. \A r \in Row : RowPages(r) \cap (Range(l) \cup DeferredPages) = {}
  BY <1>0, <1>3, PoolSets
<1>6. /\ \A r, s \in Row : r # s => RowPages(r) \cap RowPages(s) = {}
      /\ Pages = Range(l) \cup DeferredPages \cup UNION {RowPages(r) : r \in Row}
  <2> DEFINE h == [r \in Row |-> RowPages(r)]
  <2>1. /\ \A r, s \in Row : r # s => h[r] \cap h[s] = {}
        /\ Pages = (Range(free_pages) \cup Range(release_pages))
                     \cup (Range(DeferredReps) \cup DeferredPages) \cup UNION {h[r] : r \in Row}
    BY <1>0 DEF PoolProofs!PoolInv, PoolProofs!Partition
  <2>2. \A r \in Row : h[r] = RowPages(r)
    OBVIOUS
  <2> HIDE DEF h
  <2>3. UNION {h[r] : r \in Row} = UNION {RowPages(r) : r \in Row}
    BY <2>2
  <2> QED
    BY <1>3, <2>1, <2>2, <2>3
<1> QED
  BY <1>3, <1>4, <1>5, <1>6 DEF PagesOnce, l, f

(* A row laid out over distinct pages is aligned. *)
LEMMA InvRowsAligned == Inv => RowsAligned
<1> SUFFICES ASSUME Inv, NEW r \in Row, NEW i \in DOMAIN rows[r], NEW j \in DOMAIN rows[r]
             PROVE  /\ rows[r][i] % PageSize = (i - 1) % PageSize
                    /\ (rows[r][i] \div PageSize = rows[r][j] \div PageSize)
                          <=> ((i - 1) \div PageSize = (j - 1) \div PageSize)
  BY DEF RowsAligned
<1> DEFINE s == rows[r]
           t == BlockTable(s)
           x == (i - 1) \div PageSize
           y == (j - 1) \div PageSize
<1>1. LaidOut(s, t) /\ IsInjective(t) /\ t \in Seq(Pages) /\ s \in Seq(Nat)
  BY RowSets
<1>2. i \in 1..Len(s) /\ j \in 1..Len(s) /\ DOMAIN t = 1..Len(t)
  BY <1>1, LenProperties
<1> HIDE DEF s, t
<1>3. /\ x + 1 \in 1..Len(t) /\ s[i] \div PageSize = t[x + 1] /\ s[i] % PageSize = (i - 1) % PageSize
      /\ y + 1 \in 1..Len(t) /\ s[j] \div PageSize = t[y + 1]
  BY <1>1, <1>2, LaidOutSlots
<1>4. x \in Nat /\ y \in Nat
  <2>1. i - 1 \in Nat /\ j - 1 \in Nat
    BY <1>2
  <2> QED
    BY <2>1, DivFacts
<1>5. t[x + 1] = t[y + 1] <=> x = y
  <2> HIDE DEF x, y
  <2>1. t[x + 1] = t[y + 1] => x + 1 = y + 1
    BY <1>1, <1>2, <1>3 DEF IsInjective
  <2> QED
    BY <1>4, <2>1
<1> HIDE DEF x, y
<1> QED
  BY <1>3, <1>5 DEF s, x, y

(* The pool of the proofs and the pool of the specification are the same. *)
LEMMA SamePool ==
  /\ PoolProofs!Init => Pool!Init
  /\ [PoolProofs!Next]_(PoolProofs!vars) => [Pool!Next]_(Pool!vars)
<1>1. PoolProofs!Init => Pool!Init
  BY DEF PoolProofs!Init, Pool!Init
<1>2. PoolProofs!Next => Pool!Next
  BY DEF PoolProofs!Next, Pool!Next, PoolProofs!Acquire, Pool!Acquire, PoolProofs!Release,
         Pool!Release, PoolProofs!Moved, Pool!Moved, PoolProofs!OpenGroup, Pool!OpenGroup,
         PoolProofs!CloseGroup, Pool!CloseGroup, PoolProofs!Clear, Pool!Clear
<1>3. UNCHANGED PoolProofs!vars => UNCHANGED Pool!vars
  BY DEF PoolProofs!vars, Pool!vars
<1> QED
  BY <1>1, <1>2, <1>3

-----------------------------------------------------------------------------
(* The variables of the allocator keep their types: above all, what the    *)
(* lists hold are page ids of the pool, never slots (the // page_size of   *)
(* every free), for every page size and number of pages.                   *)
THEOREM TypeCorrect == Spec => []TypeOK
<1>1. Inv => TypeOK
  BY DEF Inv
<1> QED
  BY <1>1, InitHolds, StepHolds, PTL DEF Spec

(* No page is freed twice, lost, or given to two rows: alloc, alloc_extend *)
(* and alloc_decode hand out pages of the list once each, and free and     *)
(* free_segments, in or out of a free group, give back every page of a     *)
(* tail once, the page that two segments share included.                   *)
THEOREM PagesOnceAlways == Spec => []PagesOnce
BY InitHolds, StepHolds, InvPagesOnce, PTL DEF Spec

(* The kernels of alloc_extend and alloc_decode keep every position at its *)
(* offset of the page of its block, so that one slot per page_size         *)
(* positions is one representative of each page for free_segment.          *)
THEOREM RowsAlignedAlways == Spec => []RowsAligned
BY InitHolds, StepHolds, InvRowsAligned, PTL DEF Spec

(* An allocation is refused only when the pages of both lists are too few: *)
(* the estimates that decide on merge_and_sort_free are never below what   *)
(* the batch takes.                                                        *)
THEOREM RefusedOnlyWhenFullAlways == Spec => []RefusedOnlyWhenFull
<1>1. Inv => RefusedOnlyWhenFull
  BY DEF Inv
<1> QED
  BY <1>1, InitHolds, StepHolds, PTL DEF Spec

(* The paged allocator implements the page pool: every call moves pages    *)
(* between the lists, the open group and the rows as the pool allows.      *)
THEOREM ImplementsPoolAlways == Spec => ImplementsPool
<1>1. Init => Pool!Init
  BY InitHolds, SamePool
<1>2. Inv /\ [Next]_vars => [Pool!Next]_(Pool!vars)
  BY StepHolds, SamePool
<1> QED
  BY <1>1, <1>2, InitHolds, StepHolds, PTL DEF Spec, ImplementsPool, Pool!Spec
=============================================================================
