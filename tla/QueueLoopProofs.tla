--------------------------- MODULE QueueLoopProofs ---------------------------
(***************************************************************************)
(* A loop over a queue, `for x in queue: state = step(state, x)`, which    *)
(* the specifications write with FoldLeft: there is a state before every   *)
(* entry, and the state after the last one is the result.  The step is a   *)
(* parameter of this module, which is instantiated once for each loop.     *)
(***************************************************************************)
EXTENDS Integers, Sequences, SequencesExt, FiniteSetsExt, WellFoundedInduction,
        FiniteSetTheorems, TLAPS

CONSTANT Step(_, _)

(* Every non-empty set of naturals has a least element. *)
LEMMA Least ==
  ASSUME NEW T \in SUBSET Nat, T # {}
  PROVE  \E n \in T : \A k \in T : n <= k
<1> DEFINE U == {0..n : n \in T}
<1>1. U \subseteq FiniteSubsetsOf(Nat)
  <2>1. \A n \in T : 0..n \subseteq Nat /\ IsFiniteSet(0..n)
    BY FS_Interval
  <2> QED
    BY <2>1 DEF FiniteSubsetsOf
<1>2. U # {}
  OBVIOUS
<1> HIDE DEF U
<1>3. PICK I \in U : \A J \in U : ~ (<<J, I>> \in StrictSubsetOrdering(Nat))
  BY <1>1, <1>2, WFMin, FS_StrictSubsetOrderingWellFounded
<1>4. \A J \in U : J \subseteq I => J = I
  BY <1>1, <1>3 DEF StrictSubsetOrdering, FiniteSubsetsOf
<1> USE DEF U
<1>5. PICK n \in T : I = 0..n
  OBVIOUS
<1>6. ASSUME NEW k \in T, k < n PROVE FALSE
  <2>1. n \in Nat /\ k \in Nat
    OBVIOUS
  <2>2. 0..k \subseteq 0..n /\ n \notin 0..k /\ n \in 0..n
    BY <2>1, <1>6
  <2>3. 0..k \in U
    OBVIOUS
  <2> QED
    BY <2>2, <2>3, <1>4, <1>5
<1>7. \A k \in T : n <= k
  <2>1. T \subseteq Nat
    OBVIOUS
  <2> QED
    BY <2>1, <1>6
<1> QED
  BY <1>7

(* Induction for a set Q of naturals. *)
LEMMA UpTo ==
  ASSUME NEW n \in Nat, NEW Q, 0 \in Q,
         \A k \in 1..n : k - 1 \in Q => k \in Q
  PROVE  \A k \in 0..n : k \in Q
<1> DEFINE T == {k \in 0..n : k \notin Q}
<1>1. SUFFICES ASSUME T # {} PROVE FALSE
  OBVIOUS
<1>2. PICK k \in T : \A j \in T : k <= j
  <2>1. T \in SUBSET Nat
    OBVIOUS
  <2> HIDE DEF T
  <2> QED
    BY <1>1, <2>1, Least
<1>3. k # 0 /\ k - 1 \in 0..n /\ k - 1 \notin T
  BY <1>2
<1> QED
  BY <1>2, <1>3

(* The greatest number of a set of entries. *)
LEMMA LastEntry ==
  ASSUME NEW n \in Nat, NEW s \in SUBSET (1..n), s # {}
  PROVE  /\ Max(s) \in s /\ \A j \in s : j <= Max(s)
         /\ n \in s => Max(s) = n
<1>1. \E x \in s : \A y \in s : x >= y
  <2> DEFINE T == {n - x : x \in s}
  <2>1. T \in SUBSET Nat /\ T # {}
    <3>1. \A x \in s : n - x \in Nat
      OBVIOUS
    <3>2. T \in SUBSET Nat
      BY <3>1
    <3>3. PICK x \in s : TRUE
      OBVIOUS
    <3>4. n - x \in T
      OBVIOUS
    <3> QED
      BY <3>2, <3>4
  <2>2. PICK m \in T : \A k \in T : m <= k
    <3> HIDE DEF T
    <3> QED
      BY <2>1, Least
  <2>3. PICK x \in s : m = n - x
    OBVIOUS
  <2>4. \A y \in s : x >= y
    <3> SUFFICES ASSUME NEW y \in s PROVE x >= y
      OBVIOUS
    <3>1. n - y \in T
      OBVIOUS
    <3>2. n - x <= n - y
      BY <2>2, <2>3, <3>1
    <3> QED
      BY <3>2
  <2> QED
    BY <2>4
<1>2. Max(s) \in s /\ \A y \in s : Max(s) >= y
  BY <1>1 DEF Max
<1> DEFINE m == Max(s)
<1>3. m \in s /\ \A y \in s : m >= y
  BY <1>2
<1> HIDE DEF m
<1>4. \A y \in s : y \in Int /\ y <= n
  OBVIOUS
<1>5. (\A j \in s : j <= m) /\ (n \in s => m = n)
  BY <1>3, <1>4
<1> QED
  BY <1>3, <1>5 DEF m

(* What the fold of the first n entries is, for every subset of them. *)
Folding(f, S, q, n) ==
  f = [s \in SUBSET (1..n) |->
          IF s = {} THEN S ELSE Step(f[s \ {Max(s)}], q[Max(s)])]

LEMMA FoldingExists ==
  ASSUME NEW S, NEW q, NEW n \in Nat
  PROVE  \E f : Folding(f, S, q, n)
<1> DEFINE Q == {k \in 0..n : \E f : Folding(f, S, q, k)}
<1>1. 0 \in Q
  <2> DEFINE f == [s \in SUBSET (1..0) |-> S]
  <2>1. \A s \in SUBSET (1..0) : s = {}
    OBVIOUS
  <2>2. Folding(f, S, q, 0)
    BY <2>1 DEF Folding
  <2> QED
    BY <2>2
<1>2. ASSUME NEW k \in 1..n, k - 1 \in Q PROVE k \in Q
  <2>1. PICK f : Folding(f, S, q, k - 1)
    BY <1>2
  <2> DEFINE g == [s \in SUBSET (1..k) |->
                     IF k \in s THEN Step(f[s \ {k}], q[k]) ELSE f[s]]
  <2>2. ASSUME NEW s \in SUBSET (1..k)
        PROVE  g[s] = IF s = {} THEN S ELSE Step(g[s \ {Max(s)}], q[Max(s)])
    <3>1. CASE s = {}
      BY <3>1, <2>1 DEF Folding
    <3>2. CASE k \in s
      <4>1. Max(s) = k
        BY <3>2, LastEntry
      <4>2. s \ {k} \in SUBSET (1..k) /\ k \notin s \ {k}
        OBVIOUS
      <4> QED
        BY <3>2, <4>1, <4>2
    <3>3. CASE s # {} /\ k \notin s
      <4>1. s \in SUBSET (1..(k-1))
        BY <3>3
      <4>2. Max(s) \in s
        BY <3>3, LastEntry
      <4>3. s \ {Max(s)} \in SUBSET (1..(k-1))
        BY <4>1
      <4>4. f[s] = Step(f[s \ {Max(s)}], q[Max(s)])
        BY <4>1, <3>3, <2>1 DEF Folding
      <4>5. g[s] = f[s] /\ g[s \ {Max(s)}] = f[s \ {Max(s)}]
        BY <3>3, <4>3
      <4> QED
        BY <3>3, <4>4, <4>5
    <3> QED
      BY <3>1, <3>2, <3>3
  <2>3. Folding(g, S, q, k)
    <3> DEFINE h == [s \in SUBSET (1..k) |->
                       IF s = {} THEN S ELSE Step(g[s \ {Max(s)}], q[Max(s)])]
    <3>1. g = h
      <4>1. \A s \in SUBSET (1..k) : g[s] = h[s]
        BY <2>2
      <4> QED
        BY <4>1
    <3> HIDE DEF g
    <3> QED
      BY <3>1 DEF Folding
  <2> QED
    BY <2>3
<1>3. \A k \in 0..n : k \in Q
  <2> HIDE DEF Q
  <2> QED
    BY <1>1, <1>2, UpTo
<1> QED
  BY <1>3

(* The state before the first entry and after each of the n entries. *)
States(S, q, n) == LET fold == CHOOSE f : Folding(f, S, q, n) IN [k \in 0..n |-> fold[1..k]]

(* The loop: g[n] is the state after the first n entries. *)
Result(S, q) == FoldLeft(Step, S, q)

LEMMA Loop ==
  ASSUME NEW S, NEW q, NEW n \in Nat, DOMAIN q = 1..n
  PROVE  LET g == States(S, q, n)
         IN  /\ g[0] = S
             /\ \A k \in 1..n : g[k] = Step(g[k-1], q[k])
             /\ Result(S, q) = g[n]
<1> DEFINE f == CHOOSE f : Folding(f, S, q, n)
           g == [k \in 0..n |-> f[1..k]]
<1>1. Folding(f, S, q, n)
  BY FoldingExists
<1>2. Result(S, q) = f[1..n]
  BY DEF Result, FoldLeft, MapThenFoldSet, Folding
<1> HIDE DEF f
<1>3. g[0] = S /\ g[n] = f[1..n]
  <2>1. 1..0 = {} /\ {} \in SUBSET (1..n) /\ 0 \in 0..n /\ n \in 0..n
    OBVIOUS
  <2>2. f[{}] = S
    BY <1>1, <2>1 DEF Folding
  <2> QED
    BY <2>1, <2>2
<1>4. ASSUME NEW k \in 1..n PROVE g[k] = Step(g[k-1], q[k])
  <2>1. 1..k \in SUBSET (1..n) /\ 1..k # {} /\ k \in Nat /\ k \in 1..k
    OBVIOUS
  <2>2. Max(1..k) = k
    BY <2>1, LastEntry
  <2>3. (1..k) \ {k} = 1..(k-1)
    OBVIOUS
  <2>4. f[1..k] = Step(f[1..(k-1)], q[k])
    BY <1>1, <2>1, <2>2, <2>3 DEF Folding
  <2> QED
    BY <2>4
<1>5. States(S, q, n) = g
  BY DEF States, f
<1> HIDE DEF g
<1> QED
  BY <1>2, <1>3, <1>4, <1>5
===============================================================================
