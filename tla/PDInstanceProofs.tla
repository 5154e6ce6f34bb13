-------------------------- MODULE PDInstanceProofs --------------------------
(***************************************************************************)
(* Prefill/decode disaggregation, the two instances apart: the inductive   *)
(* invariants of the records of PDDecode and PDPrefill, and what the       *)
(* methods of the decode instance, the queues of the prefill instance and  *)
(* the threads between them do to them.                                    *)
(***************************************************************************)
EXTENDS PDTransfer, TLAPS, FiniteSetTheorems, SequenceTheorems

-----------------------------------------------------------------------------
(* The loops of the two schedulers. *)

GiveUpOne(S, r) == [AbortReceiver(S, r) EXCEPT !.pending = @ \ {r}]

RemoveFailedOne(S, r) ==
    IF ~S.req[r].aborted THEN S
    ELSE Answer([ClearReceiver(S, r) EXCEPT !.queue = Removed(@, r), !.pending = @ \ {r}], r)

PopBootstrappedOne(S, r) == PopOne(S, r, config.max_attempts)

ProcessResultOne(S, b) == ResultOne(S, b, config)

Connect     == INSTANCE QueueLoopProofs WITH Step <- InitReceiver
GiveUp      == INSTANCE QueueLoopProofs WITH Step <- GiveUpOne
Handshake   == INSTANCE QueueLoopProofs WITH Step <- HandshakeOne
Failures    == INSTANCE QueueLoopProofs WITH Step <- RemoveFailedOne
Prealloc    == INSTANCE QueueLoopProofs WITH Step <- PreallocOne
Transferred == INSTANCE QueueLoopProofs WITH Step <- TransferredOne
Bootstrap   == INSTANCE QueueLoopProofs WITH Step <- PopBootstrappedOne
Resolve     == INSTANCE QueueLoopProofs WITH Step <- ResolveOne
Batch       == INSTANCE QueueLoopProofs WITH Step <- AddToBatch
Results     == INSTANCE QueueLoopProofs WITH Step <- ProcessResultOne
Inflight    == INSTANCE QueueLoopProofs WITH Step <- InflightOne

-----------------------------------------------------------------------------
(* Queues in which nothing is twice. *)

Distinct(q, X) == q \in Seq(X) /\ IsInjective(q)

LEMMA DistinctEmpty ==
  ASSUME NEW X PROVE Distinct(<<>>, X) /\ Range(<<>>) = {}
BY SMTT(60) DEF Distinct, IsInjective, Range

LEMMA DistinctRange ==
  ASSUME NEW X, NEW q, Distinct(q, X) PROVE Range(q) \subseteq X
BY DEF Distinct, Range

LEMMA DistinctAppend ==
  ASSUME NEW X, NEW q, Distinct(q, X), NEW x \in X, x \notin Range(q)
  PROVE  Distinct(Append(q, x), X) /\ Range(Append(q, x)) = Range(q) \union {x}
<1>1. q \in Seq(X) /\ Append(q, x) \in Seq(X) /\ Len(Append(q, x)) = Len(q) + 1
  BY DEF Distinct
<1> DEFINE p == Append(q, x)
<1>2. /\ DOMAIN q = 1..Len(q) /\ DOMAIN p = 1..(Len(q) + 1) /\ Len(q) \in Nat
      /\ p[Len(q) + 1] = x /\ \A i \in 1..Len(q) : p[i] = q[i]
  BY <1>1
<1> HIDE DEF p
<1>3. IsInjective(p)
  BY <1>2 DEF Distinct, IsInjective, Range
<1>4. Range(p) = Range(q) \union {x}
  <2>1. ASSUME NEW y \in Range(p) PROVE y \in Range(q) \union {x}
    BY <1>2 DEF Range
  <2>2. ASSUME NEW y \in Range(q) \union {x} PROVE y \in Range(p)
    BY <1>2 DEF Range
  <2> QED
    BY <2>1, <2>2
<1> QED
  BY <1>1, <1>3, <1>4 DEF p, Distinct

LEMMA DistinctCons ==
  ASSUME NEW X, NEW q, Distinct(q, X), NEW x \in X, x \notin Range(q)
  PROVE  Distinct(<<x>> \o q, X) /\ Range(<<x>> \o q) = Range(q) \union {x}
<1> DEFINE p == <<x>> \o q
<1>1. q \in Seq(X) /\ p \in Seq(X) /\ Len(p) = Len(q) + 1 /\ Len(q) \in Nat
  BY DEF Distinct
<1>2. /\ DOMAIN q = 1..Len(q) /\ DOMAIN p = 1..(Len(q) + 1)
      /\ p[1] = x /\ \A i \in 1..Len(q) : p[i + 1] = q[i]
  BY <1>1
<1>3. \A i \in 2..(Len(q) + 1) : i - 1 \in 1..Len(q) /\ p[i] = q[i - 1]
  BY <1>1, <1>2
<1> HIDE DEF p
<1>4. IsInjective(p)
  <2>1. ASSUME NEW i \in 1..(Len(q) + 1), NEW j \in 1..(Len(q) + 1), p[i] = p[j], i < j
        PROVE  FALSE
    <3>1. j \in 2..(Len(q) + 1) /\ (i = 1 \/ i \in 2..(Len(q) + 1))
      BY <1>1, <2>1
    <3>2. CASE i = 1
      BY <3>1, <3>2, <2>1, <1>2, <1>3 DEF Range
    <3>3. CASE i \in 2..(Len(q) + 1)
      <4>1. q[i - 1] = q[j - 1] /\ i - 1 \in 1..Len(q) /\ j - 1 \in 1..Len(q)
        BY <3>1, <3>3, <2>1, <1>3
      <4>2. i - 1 = j - 1
        BY <4>1, <1>2 DEF Distinct, IsInjective
      <4> QED
        BY <4>2, <2>1
    <3> QED
      BY <3>1, <3>2, <3>3
  <2>2. \A i, j \in 1..(Len(q) + 1) : i = j \/ i < j \/ j < i
    BY <1>1
  <2> QED
    BY <1>2, <2>1, <2>2 DEF IsInjective
<1>5. Range(p) = Range(q) \union {x}
  <2>1. ASSUME NEW y \in Range(p) PROVE y \in Range(q) \union {x}
    BY <1>1, <1>2, <1>3 DEF Range
  <2>2. ASSUME NEW y \in Range(q) \union {x} PROVE y \in Range(p)
    <3>1. CASE y = x
      BY <3>1, <1>1, <1>2 DEF Range
    <3>2. CASE y \in Range(q)
      <4>1. PICK i \in 1..Len(q) : q[i] = y
        BY <3>2, <1>2 DEF Range
      <4>2. i + 1 \in DOMAIN p
        BY <1>1, <1>2
      <4> QED
        BY <4>1, <4>2, <1>2 DEF Range
    <3> QED
      BY <3>1, <3>2
  <2> QED
    BY <2>1, <2>2
<1> QED
  BY <1>1, <1>4, <1>5 DEF p, Distinct

LEMMA DistinctTail ==
  ASSUME NEW X, NEW q, Distinct(q, X), q # <<>>
  PROVE  /\ Head(q) \in X /\ Head(q) \in Range(q)
         /\ Distinct(Tail(q), X) /\ Range(Tail(q)) = Range(q) \ {Head(q)}
<1> DEFINE p == Tail(q)
<1>1. /\ q \in Seq(X) /\ p \in Seq(X) /\ Len(p) = Len(q) - 1 /\ Len(q) \in Nat \ {0}
      /\ DOMAIN q = 1..Len(q) /\ DOMAIN p = 1..(Len(q) - 1)
      /\ Head(q) = q[1] /\ q[1] \in X
      /\ \A i \in 1..(Len(q) - 1) : p[i] = q[i + 1]
  BY DEF Distinct
<1> HIDE DEF p
<1>2. IsInjective(p)
  <2> SUFFICES ASSUME NEW i \in 1..(Len(q) - 1), NEW j \in 1..(Len(q) - 1), p[i] = p[j]
               PROVE  i = j
    BY <1>1 DEF IsInjective
  <2>1. i + 1 \in DOMAIN q /\ j + 1 \in DOMAIN q /\ q[i + 1] = q[j + 1]
    BY <1>1
  <2>2. i + 1 = j + 1
    BY <2>1 DEF Distinct, IsInjective
  <2> QED
    BY <2>2
<1>3. Range(p) = Range(q) \ {Head(q)}
  <2>1. ASSUME NEW y \in Range(p) PROVE y \in Range(q) \ {Head(q)}
    BY <1>1 DEF Range, Distinct, IsInjective
  <2>2. ASSUME NEW y \in Range(q) \ {Head(q)} PROVE y \in Range(p)
    <3>1. PICK i \in 1..Len(q) : q[i] = y
      BY <1>1 DEF Range
    <3>2. i # 1
      BY <3>1, <1>1
    <3>3. i - 1 \in 1..(Len(q) - 1) /\ p[i - 1] = q[i]
      BY <3>2, <1>1
    <3> QED
      BY <3>1, <3>3, <1>1 DEF Range
  <2> QED
    BY <2>1, <2>2
<1>4. Head(q) \in Range(q) /\ Head(q) \in X
  BY <1>1 DEF Range
<1> QED
  BY <1>1, <1>2, <1>3, <1>4 DEF p, Distinct

LEMMA MinEntry ==
  ASSUME NEW n \in Nat, NEW I \in SUBSET (1..n), I # {}
  PROVE  Min(I) \in I
<1>1. I \in SUBSET Nat
  OBVIOUS
<1>2. \E x \in I : \A y \in I : x <= y
  BY <1>1, Connect!Least
<1> QED
  BY ZenonT(60), <1>2 DEF Min

(* RemoveAt of a sequence. *)
LEMMA RemoveAtEntries ==
  ASSUME NEW X, NEW q \in Seq(X), NEW m \in 1..Len(q)
  PROVE  LET p == RemoveAt(q, m)
         IN  /\ p \in Seq(X) /\ Len(p) = Len(q) - 1
             /\ \A i \in 1..(Len(q) - 1) : p[i] = IF i < m THEN q[i] ELSE q[i + 1]
<1> DEFINE p == RemoveAt(q, m)
           a == SubSeq(q, 1, m - 1)
           b == SubSeq(q, m + 1, Len(q))
           n == Len(q)
<1>1. n \in Nat /\ m \in Nat /\ 1 <= m /\ m <= n /\ \A i \in 1..n : q[i] \in X
  OBVIOUS
<1>2. a \in Seq(X) /\ Len(a) = m - 1 /\ \A i \in 1..(m-1) : a[i] = q[i]
  OBVIOUS
<1>3. /\ b \in Seq(X) /\ Len(b) = IF m + 1 <= n THEN n - (m + 1) + 1 ELSE 0
      /\ \A i \in 1..(n - (m + 1) + 1) : b[i] = q[(m + 1) + i - 1]
  <2>1. \A i \in (m + 1)..n : q[i] \in X
    BY <1>1
  <2>2. m + 1 \in Int /\ n \in Int
    BY <1>1
  <2> QED
    BY <2>1, <2>2, SubSeqProperties
<1>4. p = a \o b
  BY DEF RemoveAt
<1>5. p \in Seq(X) /\ Len(p) = Len(a) + Len(b)
  BY <1>2, <1>3, <1>4, ConcatProperties
<1> HIDE DEF p, a, b, n
<1>6. \A i \in 1..(Len(a) + Len(b)) : p[i] = IF i <= Len(a) THEN a[i] ELSE b[i - Len(a)]
  BY <1>2, <1>3, <1>4, ConcatProperties
<1>7. Len(b) = n - m
  BY <1>1, <1>3
<1>8. ASSUME NEW i \in 1..(n - 1) PROVE p[i] = IF i < m THEN q[i] ELSE q[i + 1]
  <2>1. i \in 1..(Len(a) + Len(b))
    BY <1>1, <1>2, <1>7
  <2>2. CASE i < m
    BY <2>1, <2>2, <1>1, <1>2, <1>6
  <2>3. CASE ~(i < m)
    <3>1. p[i] = b[i - (m - 1)]
      BY <2>1, <2>3, <1>1, <1>2, <1>6
    <3>2. i - (m - 1) \in 1..(n - (m + 1) + 1) /\ (m + 1) + (i - (m - 1)) - 1 = i + 1
      BY <2>3, <1>1
    <3>3. b[i - (m - 1)] = q[(m + 1) + (i - (m - 1)) - 1]
      BY <3>2, <1>3
    <3> QED
      BY <2>3, <3>1, <3>2, <3>3
  <2> QED
    BY <2>2, <2>3
<1>9. Len(p) = n - 1
  BY <1>1, <1>2, <1>5, <1>7
<1> QED
  BY <1>5, <1>8, <1>9 DEF p, n

(* RemoveFirst of a queue. *)
LEMMA DistinctRemove ==
  ASSUME NEW X, NEW q, Distinct(q, X), NEW x
  PROVE  Distinct(RemoveFirst(q, x), X) /\ Range(RemoveFirst(q, x)) = Range(q) \ {x}
<1>1. q \in Seq(X) /\ Len(q) \in Nat /\ DOMAIN q = 1..Len(q)
  BY DEF Distinct
<1>2. CASE ~ \E i \in 1..Len(q) : q[i] = x
  BY <1>1, <1>2 DEF RemoveFirst, Range
<1>3. CASE \E i \in 1..Len(q) : q[i] = x
  <2> DEFINE I == {i \in 1..Len(q) : q[i] = x}
             m == Min(I)
             p == RemoveAt(q, m)
  <2>1. RemoveFirst(q, x) = p
    BY <1>3, ZenonT(60) DEF RemoveFirst, SelectInSeq
  <2>2. m \in I
    <3>1. I \in SUBSET (1..Len(q)) /\ I # {}
      BY <1>3
    <3> HIDE DEF I
    <3> QED
      BY ZenonT(60), <3>1, <1>1, MinEntry
  <2>3. m \in 1..Len(q) /\ q[m] = x
    BY <2>2
  <2> HIDE DEF I, m
  <2>6. p \in Seq(X) /\ Len(p) = Len(q) - 1 /\ DOMAIN p = 1..(Len(q) - 1)
    <3>1. p \in Seq(X) /\ Len(p) = Len(q) - 1
      BY ZenonT(60), <1>1, <2>3, RemoveAtEntries
    <3> QED
      BY SMTT(60), <3>1, LenProperties
  <2>7. \A i \in 1..(Len(q) - 1) : p[i] = IF i < m THEN q[i] ELSE q[i + 1]
    BY <1>1, <2>3, RemoveAtEntries
  <2> HIDE DEF p
  <2>8. IsInjective(p)
    <3> SUFFICES ASSUME NEW i \in 1..(Len(q) - 1), NEW j \in 1..(Len(q) - 1), p[i] = p[j]
                 PROVE  i = j
      BY <2>6 DEF IsInjective
    <3> QED
      BY <1>1, <2>3, <2>7 DEF Distinct, IsInjective
  <2>9. Range(p) = Range(q) \ {x}
    <3>1. ASSUME NEW y \in Range(p) PROVE y \in Range(q) \ {x}
      <4>1. PICK i \in 1..(Len(q) - 1) : p[i] = y
        BY <2>6 DEF Range
      <4>2. PICK j \in 1..Len(q) : j # m /\ q[j] = y
        BY <4>1, <2>3, <2>7, <1>1
      <4> QED
        BY <4>2, <2>3, <1>1 DEF Range, Distinct, IsInjective
    <3>2. ASSUME NEW y \in Range(q) \ {x} PROVE y \in Range(p)
      <4>1. PICK j \in 1..Len(q) : q[j] = y
        BY <1>1 DEF Range
      <4>2. j # m
        BY <4>1, <2>3
      <4>3. PICK i \in 1..(Len(q) - 1) : p[i] = y
        <5>1. CASE j < m
          BY <5>1, <4>1, <2>3, <2>7
        <5>2. CASE j > m
          <6>1. j - 1 \in 1..(Len(q) - 1) /\ ~(j - 1 < m) /\ (j - 1) + 1 = j
            BY <5>2, <2>3
          <6>2. p[j - 1] = q[j]
            BY <6>1, <2>7
          <6> QED
            BY <6>1, <6>2, <4>1
        <5> QED
          BY <4>2, <5>1, <5>2, <2>3
      <4> QED
        BY <4>3, <2>6 DEF Range
    <3> QED
      BY <3>1, <3>2
  <2> QED
    BY <2>1, <2>6, <2>8, <2>9 DEF Distinct
<1> QED
  BY <1>2, <1>3

-----------------------------------------------------------------------------
(* The metadata buffers of an instance, of which there are n. *)

FreeBuffers(S, n) ==
    /\ Distinct(S.free_buffers, 1..n)
    /\ \A r \in Request : S.req[r].buffer \in (1..n) \union {Nil}
    /\ \A r \in Request : S.req[r].buffer \notin Range(S.free_buffers)
    /\ \A r, q \in Request : r # q /\ S.req[r].buffer = S.req[q].buffer => S.req[r].buffer = Nil
    /\ \A b \in 1..n : b \in Range(S.free_buffers) \/ \E r \in Request : S.req[r].buffer = b

(* T has the buffers of S. *)
SameBuffers(S, T) ==
    T.free_buffers = S.free_buffers /\ \A r \in Request : T.req[r].buffer = S.req[r].buffer

LEMMA SameBuffersKeep ==
  ASSUME NEW S, NEW T, NEW n, FreeBuffers(S, n), SameBuffers(S, T)
  PROVE  FreeBuffers(T, n)
BY DEF FreeBuffers, SameBuffers

(* The request r gives its buffer back, or takes the first free one. *)
Gave(S, T, r) ==
    /\ T.free_buffers = IF S.req[r].buffer = Nil THEN S.free_buffers
                        ELSE Append(S.free_buffers, S.req[r].buffer)
    /\ T.req[r].buffer = Nil
    /\ \A q \in Request \ {r} : T.req[q].buffer = S.req[q].buffer

Took(S, T, r) ==
    /\ S.free_buffers # <<>> /\ S.req[r].buffer = Nil
    /\ T.free_buffers = Tail(S.free_buffers)
    /\ T.req[r].buffer = Head(S.free_buffers)
    /\ \A q \in Request \ {r} : T.req[q].buffer = S.req[q].buffer

LEMMA NilIsNoBuffer == \A n \in Nat : Nil \notin 1..n
BY DEF Nil

LEMMA GaveKeeps ==
  ASSUME NEW S, NEW T, NEW n \in Nat, NEW r \in Request, FreeBuffers(S, n), Gave(S, T, r)
  PROVE  FreeBuffers(T, n)
<1> DEFINE b == S.req[r].buffer
<1>1. CASE b = Nil
  <2>1. SameBuffers(S, T)
    BY <1>1 DEF Gave, SameBuffers
  <2> QED
    BY <2>1, SameBuffersKeep
<1>2. CASE b # Nil
  <2>1. b \in 1..n /\ b \notin Range(S.free_buffers) /\ T.free_buffers = Append(S.free_buffers, b)
    BY <1>2 DEF FreeBuffers, Gave
  <2>2. /\ Distinct(T.free_buffers, 1..n)
        /\ Range(T.free_buffers) = Range(S.free_buffers) \union {b}
    BY <2>1, DistinctAppend DEF FreeBuffers
  <2>3. ASSUME NEW q \in Request
        PROVE  T.req[q].buffer \in (1..n) \union {Nil} /\ T.req[q].buffer \notin Range(T.free_buffers)
    <3>1. CASE q = r
      <4>1. T.req[q].buffer = Nil /\ Range(T.free_buffers) \subseteq 1..n
        BY <3>1, <2>2, DistinctRange DEF Gave
      <4> QED
        BY <4>1, NilIsNoBuffer
    <3>2. CASE q # r
      BY <3>2, <2>1, <2>2, NilIsNoBuffer DEF Gave, FreeBuffers
    <3> QED
      BY <3>1, <3>2
  <2>4. \A p, q \in Request : p # q /\ T.req[p].buffer = T.req[q].buffer => T.req[p].buffer = Nil
    BY DEF Gave, FreeBuffers
  <2>5. \A c \in 1..n : c \in Range(T.free_buffers) \/ \E q \in Request : T.req[q].buffer = c
    BY <2>2 DEF Gave, FreeBuffers
  <2> QED
    BY <2>2, <2>3, <2>4, <2>5 DEF FreeBuffers
<1> QED
  BY <1>1, <1>2

LEMMA TookKeeps ==
  ASSUME NEW S, NEW T, NEW n \in Nat, NEW r \in Request, FreeBuffers(S, n), Took(S, T, r)
  PROVE  FreeBuffers(T, n) /\ T.req[r].buffer # Nil
<1> DEFINE b == Head(S.free_buffers)
<1>1. /\ b \in 1..n /\ b \in Range(S.free_buffers)
      /\ Distinct(T.free_buffers, 1..n) /\ Range(T.free_buffers) = Range(S.free_buffers) \ {b}
  BY DistinctTail DEF FreeBuffers, Took
<1> HIDE DEF b
<1>2. T.req[r].buffer = b /\ b # Nil
  BY <1>1, NilIsNoBuffer DEF Took, b
<1>3. \A q \in Request : S.req[q].buffer # b
  BY <1>1 DEF FreeBuffers
<1>4. \A q \in Request : T.req[q].buffer \in (1..n) \union {Nil}
  BY <1>1, <1>2 DEF Took, FreeBuffers
<1>5. \A q \in Request : T.req[q].buffer \notin Range(T.free_buffers)
  BY <1>1, <1>2 DEF Took, FreeBuffers
<1>6. \A p, q \in Request : p # q /\ T.req[p].buffer = T.req[q].buffer => T.req[p].buffer = Nil
  BY <1>2, <1>3 DEF Took, FreeBuffers
<1>7. ASSUME NEW c \in 1..n
      PROVE  c \in Range(T.free_buffers) \/ \E q \in Request : T.req[q].buffer = c
  <2>1. CASE c = b
    BY <2>1, <1>2
  <2>2. CASE c # b /\ c \in Range(S.free_buffers)
    BY <2>2, <1>1
  <2>3. CASE c # b /\ c \notin Range(S.free_buffers)
    <3>1. PICK q \in Request : S.req[q].buffer = c
      BY <2>3 DEF FreeBuffers
    <3>2. q # r
      BY <3>1, NilIsNoBuffer DEF Took
    <3> QED
      BY <3>1, <3>2 DEF Took
  <2> QED
    BY <2>1, <2>2, <2>3
<1> QED
  BY <1>1, <1>2, <1>4, <1>5, <1>6, <1>7 DEF FreeBuffers

(* What BuffersExact says of the buffers of an instance. *)
LEMMA BuffersOnce ==
  ASSUME NEW S, NEW n \in Nat, FreeBuffers(S, n)
  PROVE  LET holders == {r \in Request : S.req[r].buffer # Nil}
             held    == {S.req[r].buffer : r \in holders}
         IN  ExactlyOnce(S.free_buffers, held, 1..n) /\ Cardinality(holders) = Cardinality(held)
<1> DEFINE holders == {r \in Request : S.req[r].buffer # Nil}
           held    == {S.req[r].buffer : r \in holders}
<1>1. Range(S.free_buffers) \subseteq 1..n
  BY DistinctRange DEF FreeBuffers
<1>2. ExactlyOnce(S.free_buffers, held, 1..n)
  <2>1. Range(S.free_buffers) \intersect held = {}
    BY DEF FreeBuffers
  <2>2. held \subseteq 1..n
    BY DEF FreeBuffers
  <2>3. 1..n \subseteq Range(S.free_buffers) \union held
    BY NilIsNoBuffer DEF FreeBuffers
  <2> QED
    BY <1>1, <2>1, <2>2, <2>3 DEF ExactlyOnce, FreeBuffers, Distinct
<1>3. Cardinality(holders) = Cardinality(held)
  <2> DEFINE f == [r \in holders |-> S.req[r].buffer]
  <2>1. IsFiniteSet(holders)
    <3>1. holders \subseteq Request
      OBVIOUS
    <3> HIDE DEF holders
    <3> QED
      BY <3>1, PDAssumption, FS_Subset
  <2>2. f \in Bijection(holders, held)
    <3>1. f \in [holders -> held] /\ \A c \in held : \E r \in holders : f[r] = c
      OBVIOUS
    <3>2. \A p, q \in holders : f[p] = f[q] => p = q
      BY DEF FreeBuffers
    <3> HIDE DEF holders, held, f
    <3> QED
      BY <3>1, <3>2 DEF Bijection, Injection, Surjection, IsInjective
  <2>3. ExistsBijection(holders, held)
    <3> HIDE DEF holders, held, f
    <3> QED
      BY <2>2 DEF ExistsBijection
  <2> HIDE DEF holders, held, f
  <2> QED
    BY <2>1, <2>3, FS_Bijection
<1> QED
  BY <1>2, <1>3

(* At the start every buffer is free. *)
LEMMA FreshBuffers ==
  ASSUME NEW S, NEW n \in Nat, S.free_buffers = [i \in 1..n |-> i],
         \A r \in Request : S.req[r].buffer = Nil
  PROVE  FreeBuffers(S, n)
<1>1. S.free_buffers \in Seq(1..n)
  <2>1. S.free_buffers \in [1..n -> 1..n]
    OBVIOUS
  <2> QED
    BY <2>1, SeqDef
<1>2. IsInjective(S.free_buffers)
  BY DEF IsInjective
<1>3. Range(S.free_buffers) = 1..n
  BY DEF Range
<1> QED
  BY <1>1, <1>2, <1>3, NilIsNoBuffer DEF FreeBuffers, Distinct

-----------------------------------------------------------------------------
(* The decode instance. *)

Status == KVPoll \union {Absent}

LEMMA MaxOfTwo ==
  ASSUME NEW a \in Int, NEW b \in Int
  PROVE  Max({a, b}) = IF a >= b THEN a ELSE b
<1> DEFINE m == IF a >= b THEN a ELSE b
<1>1. m \in {a, b} /\ \A y \in {a, b} : m >= y
  OBVIOUS
<1>2. \A x \in {a, b} : (\A y \in {a, b} : x >= y) => x = m
  OBVIOUS
<1> HIDE DEF m
<1>3. Max({a, b}) = m
  BY <1>1, <1>2 DEF Max
<1> QED
  BY <1>3 DEF m

LEMMA UpdatedStatus ==
  ASSUME NEW old \in Status, NEW new \in KVPoll
  PROVE  Updated(old, new) \in Status
<1>1. old \in Int /\ new \in Int
  BY DEF Status, KVPoll, Absent, Failed, Success
<1>2. Max({old, new}) \in {old, new}
  BY <1>1, MaxOfTwo
<1> QED
  BY <1>2 DEF Updated, Status, KVPoll, Absent, Failed, Success

LEMMA UpdatedNew ==
  ASSUME NEW old \in Status, NEW new \in KVPoll
  PROVE  Updated(old, new) \in {old, new}
<1>1. old \in Int /\ new \in Int
  BY DEF Status, KVPoll, Absent, Failed, Success
<1>2. Max({old, new}) \in {old, new}
  BY <1>1, MaxOfTwo
<1> QED
  BY <1>2 DEF Updated

LEMMA StatusOfKVPoll == KVPoll \subseteq Status /\ Absent \in Status
BY DEF Status

LEMMA PollStates == {Failed, Bootstrapping, WaitingForInput, Transferring, Success} \subseteq KVPoll
BY DEF KVPoll, Failed, Bootstrapping, WaitingForInput, Transferring, Success

DecFields ==
    {"queue", "pending", "retries", "transfer", "published", "running", "req", "free",
     "free_buffers", "status", "overdue", "outbox", "landed"}

DecReqFields ==
    {"arrived", "len", "prefix", "radix", "link", "waiting_for_input", "connected", "sent",
     "notified", "conclude", "aborted", "pages", "buffer", "answers"}

DecShape(S) ==
    /\ DOMAIN S = DecFields
    /\ DOMAIN S.req = Request
    /\ \A r \in Request : DOMAIN S.req[r] = DecReqFields

Info == [pages : Seq(Page), buffer : Int, decode_prefix : Nat]

Message ==
    [type : {"ABORT"}, room : Request]
        \union [type : {"METADATA"}, room : Request, info : Info]

(* A request that has not arrived or whose prefill rank is not resolved    *)
(* does not wait for input.                                                *)
DecTyped(S) ==
    /\ S.status \in [Request -> Status]
    /\ S.outbox \in Seq(Message)
    /\ \A r \in Request :
          /\ S.req[r].conclude # WaitingForInput
          /\ r \in S.pending \/ ~S.req[r].arrived =>
                /\ ~S.req[r].waiting_for_input /\ S.status[r] # WaitingForInput

(* T differs from S in nothing that says where a request is or what it     *)
(* holds.                                                                  *)
SameDecReq(x, y) ==
    /\ y.arrived = x.arrived /\ y.len = x.len /\ y.prefix = x.prefix
    /\ y.pages = x.pages /\ y.buffer = x.buffer /\ y.answers = x.answers

Quiet(S, T) ==
    /\ DecShape(T)
    /\ DecTyped(S) => DecTyped(T)
    /\ T.queue = S.queue /\ T.pending = S.pending /\ T.transfer = S.transfer
    /\ T.published = S.published /\ T.running = S.running
    /\ T.free = S.free /\ T.free_buffers = S.free_buffers
    /\ \A r \in Request : SameDecReq(S.req[r], T.req[r])

LEMMA QuietSame == ASSUME NEW S, DecShape(S) PROVE Quiet(S, S)
BY DEF Quiet, SameDecReq

LEMMA QuietShape == ASSUME NEW S, NEW T, Quiet(S, T) PROVE DecShape(T)
BY DEF Quiet

LEMMA QuietTyped == ASSUME NEW S, NEW T, DecTyped(S), Quiet(S, T) PROVE DecTyped(T)
BY DEF Quiet

LEMMA QuietTrans ==
  ASSUME NEW S, NEW T, NEW U, Quiet(S, T), Quiet(T, U)
  PROVE  Quiet(S, U)
BY DEF Quiet, SameDecReq

LEMMA QuietStatus ==
  ASSUME NEW S, DecShape(S), NEW r \in Request, NEW new \in KVPoll, new # WaitingForInput
  PROVE  Quiet(S, UpdateStatus(S, r, new))
<1> DEFINE T == UpdateStatus(S, r, new)
<1>1. /\ DecShape(T) /\ T.outbox = S.outbox
      /\ T.queue = S.queue /\ T.pending = S.pending /\ T.transfer = S.transfer
      /\ T.published = S.published /\ T.running = S.running
      /\ T.free = S.free /\ T.free_buffers = S.free_buffers /\ T.req = S.req
      /\ T.status = [S.status EXCEPT ![r] = Updated(@, new)]
  BY DEF UpdateStatus, DecShape, DecFields
<1> HIDE DEF T
<1>2. ASSUME DecTyped(S) PROVE DecTyped(T)
  <2>1. Updated(S.status[r], new) \in Status
    BY <1>2, UpdatedStatus DEF DecTyped
  <2>2. Updated(S.status[r], new) = WaitingForInput => S.status[r] = WaitingForInput
    BY <1>2, UpdatedNew DEF DecTyped
  <2> QED
    BY <1>1, <1>2, <2>1, <2>2 DEF DecTyped
<1>3. Quiet(S, T)
  BY <1>1, <1>2 DEF Quiet, SameDecReq
<1> QED
  BY <1>3 DEF T

LEMMA QuietClear ==
  ASSUME NEW S, DecShape(S), NEW r \in Request
  PROVE  Quiet(S, ClearReceiver(S, r))
<1> DEFINE T == ClearReceiver(S, r)
<1>1. /\ DecShape(T) /\ T.outbox = S.outbox
      /\ T.queue = S.queue /\ T.pending = S.pending /\ T.transfer = S.transfer
      /\ T.published = S.published /\ T.running = S.running
      /\ T.free = S.free /\ T.free_buffers = S.free_buffers /\ T.req = S.req
      /\ T.status = [S.status EXCEPT ![r] = Absent]
  BY DEF ClearReceiver, DecShape, DecFields
<1> HIDE DEF T
<1>2. DecTyped(S) => DecTyped(T)
  BY <1>1, StatusOfKVPoll DEF DecTyped, Absent, WaitingForInput
<1>3. Quiet(S, T)
  BY <1>1, <1>2 DEF Quiet, SameDecReq
<1> QED
  BY <1>3 DEF T

(* A field of a request that says nothing of its place. *)
LEMMA QuietConclude ==
  ASSUME NEW S, DecShape(S), NEW r \in Request, NEW v, v # WaitingForInput
  PROVE  Quiet(S, [S EXCEPT !.req[r].conclude = v])
BY DEF Quiet, DecShape, DecTyped, SameDecReq, DecFields, DecReqFields

LEMMA QuietWaiting ==
  ASSUME NEW S, DecShape(S), NEW r \in Request, NEW v,
         DecTyped(S) => r \notin S.pending /\ S.req[r].arrived
  PROVE  Quiet(S, [S EXCEPT !.req[r].waiting_for_input = v])
BY DEF Quiet, DecShape, DecTyped, SameDecReq, DecFields, DecReqFields

LEMMA QuietField ==
  ASSUME NEW S, DecShape(S), NEW r \in Request, NEW v
  PROVE  /\ Quiet(S, [S EXCEPT !.req[r].aborted = v])
         /\ Quiet(S, [S EXCEPT !.req[r].connected = v])
         /\ Quiet(S, [S EXCEPT !.req[r].notified = v])
         /\ Quiet(S, [S EXCEPT !.req[r].sent = v])
<1>3. Quiet(S, [S EXCEPT !.req[r].aborted = v])
  BY DEF Quiet, DecShape, DecTyped, SameDecReq, DecFields, DecReqFields
<1>4. Quiet(S, [S EXCEPT !.req[r].connected = v])
  BY DEF Quiet, DecShape, DecTyped, SameDecReq, DecFields, DecReqFields
<1>5. Quiet(S, [S EXCEPT !.req[r].notified = v])
  BY DEF Quiet, DecShape, DecTyped, SameDecReq, DecFields, DecReqFields
<1>6. Quiet(S, [S EXCEPT !.req[r].sent = v])
  BY DEF Quiet, DecShape, DecTyped, SameDecReq, DecFields, DecReqFields
<1> QED
  BY <1>3, <1>4, <1>5, <1>6

LEMMA PollsDiffer ==
    /\ Failed # WaitingForInput /\ Success # WaitingForInput /\ Nil # WaitingForInput
    /\ Failed \in KVPoll /\ Success \in KVPoll
BY DEF Failed, WaitingForInput, Success, Nil, KVPoll

LEMMA QuietMessage ==
  ASSUME NEW S, DecShape(S), NEW m \in Message
  PROVE  Quiet(S, [S EXCEPT !.outbox = Append(@, m)])
<1> DEFINE T == [S EXCEPT !.outbox = Append(@, m)]
<1>1. /\ DecShape(T) /\ T.outbox = Append(S.outbox, m) /\ T.status = S.status
      /\ T.queue = S.queue /\ T.pending = S.pending /\ T.transfer = S.transfer
      /\ T.published = S.published /\ T.running = S.running
      /\ T.free = S.free /\ T.free_buffers = S.free_buffers /\ T.req = S.req
  BY DEF DecShape, DecFields
<1> HIDE DEF T
<1>2. DecTyped(S) => DecTyped(T)
  BY <1>1 DEF DecTyped
<1>3. Quiet(S, T)
  BY <1>1, <1>2 DEF Quiet, SameDecReq
<1> QED
  BY <1>3 DEF T

LEMMA QuietNotify ==
  ASSUME NEW S, DecShape(S), NEW r \in Request
  PROVE  Quiet(S, NotifyAbort(S, r))
<1> DEFINE T == [S EXCEPT !.req[r].notified = TRUE]
           m == [type |-> "ABORT", room |-> r]
<1>1. m \in Message
  BY DEF Message
<1>2. Quiet(S, T) /\ DecShape(T)
  BY ZenonT(60), QuietField, QuietShape
<1>3. NotifyAbort(S, r) = S \/ NotifyAbort(S, r) = [T EXCEPT !.outbox = Append(@, m)]
  BY DEF NotifyAbort
<1> HIDE DEF T, m
<1>4. Quiet(S, [T EXCEPT !.outbox = Append(@, m)])
  BY <1>1, <1>2, QuietMessage, QuietTrans
<1> QED
  BY <1>3, <1>4, QuietSame

LEMMA QuietAbort ==
  ASSUME NEW S, DecShape(S), NEW r \in Request
  PROVE  Quiet(S, AbortReceiver(S, r))
<1> DEFINE T == UpdateStatus(S, r, Failed)
           U == [T EXCEPT !.req[r].conclude = Failed]
<1>1. Quiet(S, T)
  BY QuietStatus, PollsDiffer
<1> HIDE DEF T
<1>2. Quiet(S, U)
  BY <1>1, QuietConclude, QuietTrans, QuietShape, PollsDiffer
<1> HIDE DEF U
<1>3. Quiet(S, NotifyAbort(U, r))
  BY <1>2, QuietNotify, QuietTrans, QuietShape
<1> QED
  BY <1>3 DEF U, T, AbortReceiver

LEMMA QuietPolled ==
  ASSUME NEW S, DecShape(S), NEW r \in Request
  PROVE  Quiet(S, ReceiverPolled(S, r))
<1> DEFINE T == UpdateStatus(S, r, Failed)
           v == S.status[r]
<1>1. Quiet(S, T) /\ Quiet(S, S)
  BY QuietStatus, QuietSame, PollsDiffer
<1>2. Quiet(S, NotifyAbort(T, r))
  <2> HIDE DEF T
  <2> QED
    BY <1>1, QuietNotify, QuietTrans, QuietShape
<1>3. \/ ReceiverPolled(S, r) \in {S, NotifyAbort(T, r)}
      \/ /\ v \in {Success, Failed}
         /\ ReceiverPolled(S, r) = [S EXCEPT !.req[r].conclude = v]
  BY DEF ReceiverPolled
<1> HIDE DEF T, v
<1>4. v \in {Success, Failed} => Quiet(S, [S EXCEPT !.req[r].conclude = v])
  BY QuietConclude, PollsDiffer
<1> QED
  BY <1>1, <1>2, <1>3, <1>4

LEMMA QuietFailure ==
  ASSUME NEW S, DecShape(S), NEW r \in Request
  PROVE  Quiet(S, ReceiverFailure(S, r))
<1> DEFINE v == IF S.req[r].conclude = Nil THEN Failed ELSE S.req[r].conclude
           T == [S EXCEPT !.req[r].conclude = v]
<1>1. Quiet(S, T)
  <2>1. CASE v # WaitingForInput
    <3> HIDE DEF v
    <3> QED
      BY <2>1, QuietConclude
  <2>2. CASE v = WaitingForInput
    <3>1. ~DecTyped(S)
      BY <2>2, PollsDiffer DEF DecTyped
    <3> HIDE DEF v
    <3> QED
      BY <3>1 DEF Quiet, DecShape, SameDecReq, DecFields, DecReqFields
  <2> QED
    BY <2>1, <2>2
<1>2. ReceiverFailure(S, r) = ClearReceiver(T, r)
  BY DEF ReceiverFailure
<1> HIDE DEF T
<1> QED
  BY <1>1, <1>2, QuietClear, QuietTrans, QuietShape

LEMMA QuietHandshake ==
  ASSUME NEW S, DecShape(S), DecTyped(S), NEW r \in Request
  PROVE  Quiet(S, HandshakeOne(S, r))
<1> DEFINE T == ReceiverPolled(S, r)
           F == ReceiverFailure(T, r)
<1>1. Quiet(S, T)
  BY QuietPolled
<1>2. \/ HandshakeOne(S, r) \in {T, [F EXCEPT !.req[r].aborted = TRUE]}
      \/ /\ ReceiverPoll(S, r) = WaitingForInput
         /\ HandshakeOne(S, r) = [T EXCEPT !.req[r].waiting_for_input = TRUE]
  BY DEF HandshakeOne
<1>3. Quiet(S, F)
  <2> HIDE DEF T
  <2> QED
    BY <1>1, QuietFailure, QuietTrans, QuietShape
<1> HIDE DEF T, F
<1>4. ASSUME ReceiverPoll(S, r) = WaitingForInput
      PROVE  Quiet(S, [T EXCEPT !.req[r].waiting_for_input = TRUE])
  <2>1. r \notin S.pending /\ S.req[r].arrived
    BY <1>4, PollsDiffer DEF ReceiverPoll, DecTyped
  <2>2. r \notin T.pending /\ T.req[r].arrived /\ DecShape(T)
    BY <2>1, <1>1 DEF Quiet, SameDecReq
  <2>3. Quiet(T, [T EXCEPT !.req[r].waiting_for_input = TRUE])
    BY <2>2, QuietWaiting
  <2> QED
    BY <1>1, <2>3, QuietTrans
<1>5. Quiet(S, [F EXCEPT !.req[r].aborted = TRUE])
  BY ZenonT(60), <1>3, QuietField, QuietTrans, QuietShape
<1> QED
  BY ZenonT(60), <1>1, <1>2, <1>4, <1>5

(* The inductive invariant of the decode instance under the setup c: a     *)
(* request that has arrived and has no answer is in one of its three       *)
(* places, only one in the transfer queue has a buffer, and only one there *)
(* or running has pages.                                                   *)
DecReqOK(x, queued, transferring, running, len, prefix) ==
    /\ x.arrived \in BOOLEAN /\ x.len = len /\ x.prefix = prefix /\ x.pages \in Seq(Page)
    /\ ~x.arrived => ~queued /\ ~transferring /\ ~running /\ x.answers = 0
    /\ ~(queued /\ transferring) /\ ~(queued /\ running) /\ ~(transferring /\ running)
    /\ x.arrived /\ x.answers = 0 => queued \/ transferring \/ running
    /\ x.answers # 0 => x.answers = 1 /\ ~queued /\ ~transferring /\ ~running
    /\ ~transferring => x.buffer = Nil
    /\ ~transferring /\ ~running => x.pages = <<>>

DecPlaced(S, c) ==
    \A r \in Request : DecReqOK(S.req[r], r \in Range(S.queue), r \in Range(S.transfer),
                                r \in S.running, c.len[r], c.prefix[r])

DecQueues(S) ==
    /\ Distinct(S.queue, Request) /\ Distinct(S.transfer, Request)
    /\ S.pending \subseteq Range(S.queue) /\ S.running \subseteq Request

DecPages(S) ==
    /\ S.free \subseteq Page
    /\ \A p \in Page : p \in S.free \/ \E r \in Request : p \in Range(S.req[r].pages)
    /\ \A r \in Request : Range(S.req[r].pages) \intersect S.free = {}
    /\ \A r, q \in Request : r # q => Range(S.req[r].pages) \intersect Range(S.req[q].pages) = {}

DecInv(S, c) ==
    /\ DecShape(S) /\ DecTyped(S) /\ DecQueues(S) /\ DecPlaced(S, c) /\ DecPages(S)
    /\ FreeBuffers(S, c.buffers)

LEMMA DecInvQuiet ==
  ASSUME NEW S, NEW T, NEW c, DecInv(S, c), Quiet(S, T)
  PROVE  DecInv(T, c)
<1>1. DecShape(T) /\ DecTyped(T)
  BY DEF Quiet, DecInv
<1>2. DecQueues(T)
  BY DEF Quiet, DecInv, DecQueues
<1>3. DecPlaced(T, c)
  BY DEF Quiet, DecInv, DecPlaced, DecReqOK, SameDecReq
<1>4. DecPages(T)
  BY DEF Quiet, DecInv, DecPages, SameDecReq
<1>5. FreeBuffers(T, c.buffers)
  BY SameBuffersKeep DEF Quiet, DecInv, SameBuffers, SameDecReq
<1> QED
  BY <1>1, <1>2, <1>3, <1>4, <1>5 DEF DecInv

(* The request r leaves: it is answered, is nowhere, and what it held goes *)
(* back.                                                                   *)
Left(q, p, r) == Distinct(p, Request) /\ Range(p) = Range(q) \ {r}

Gone(S, T, r) ==
    /\ DecShape(T) /\ DecTyped(T)
    /\ Left(S.queue, T.queue, r) /\ Left(S.transfer, T.transfer, r)
    /\ T.running = S.running \ {r} /\ T.pending = S.pending \ {r}
    /\ T.free = S.free \union Range(S.req[r].pages)
    /\ Gave(S, T, r)
    /\ T.req[r].arrived = S.req[r].arrived /\ T.req[r].len = S.req[r].len
    /\ T.req[r].prefix = S.req[r].prefix /\ T.req[r].pages = <<>>
    /\ T.req[r].answers = S.req[r].answers + 1
    /\ \A q \in Request \ {r} : SameDecReq(S.req[q], T.req[q])

LEMMA GoneKeeps ==
  ASSUME NEW S, NEW T, NEW c, NEW r \in Request, c.buffers \in Nat, DecInv(S, c),
         S.req[r].arrived, S.req[r].answers = 0, Gone(S, T, r)
  PROVE  DecInv(T, c)
<1>1. DecShape(T) /\ DecTyped(T)
  BY DEF Gone
<1>2. DecQueues(T)
  BY DEF Gone, DecInv, DecQueues, Left
<1>3. ASSUME NEW q \in Request
      PROVE  DecReqOK(T.req[q], q \in Range(T.queue), q \in Range(T.transfer),
                      q \in T.running, c.len[q], c.prefix[q])
  <2>1. DecReqOK(S.req[q], q \in Range(S.queue), q \in Range(S.transfer),
                 q \in S.running, c.len[q], c.prefix[q])
    BY DEF DecInv, DecPlaced
  <2>2. CASE q = r
    <3>1. T.req[q].buffer = Nil /\ T.req[q].pages = <<>> /\ <<>> \in Seq(Page)
      BY <2>2 DEF Gone, Gave
    <3>2. T.req[q].answers = 1
      BY <2>2 DEF Gone
    <3>3. /\ T.req[q].arrived = S.req[q].arrived /\ T.req[q].len = S.req[q].len
          /\ T.req[q].prefix = S.req[q].prefix /\ S.req[q].arrived
      BY ZenonT(60), <2>2 DEF Gone
    <3>4. q \notin Range(T.queue) /\ q \notin Range(T.transfer) /\ q \notin T.running
      BY <2>2 DEF Gone, Left
    <3> QED
      BY <2>1, <3>1, <3>2, <3>3, <3>4 DEF DecReqOK
  <2>3. CASE q # r
    <3>1. SameDecReq(S.req[q], T.req[q])
      BY <2>3 DEF Gone
    <3> QED
      BY <2>1, <2>3, <3>1 DEF Gone, Left, DecReqOK, SameDecReq
  <2> QED
    BY <2>2, <2>3
<1>4. DecPages(T)
  <2> DEFINE held(q) == Range(S.req[q].pages)
  <2>1. held(r) \subseteq Page
    <3>1. S.req[r].pages \in Seq(Page)
      BY DEF DecInv, DecPlaced, DecReqOK
    <3> QED
      BY <3>1 DEF Range
  <2>2. /\ S.free \subseteq Page /\ T.free = S.free \union held(r)
        /\ \A p \in Page : p \in S.free \/ \E q \in Request : p \in held(q)
        /\ \A q \in Request : held(q) \intersect S.free = {}
        /\ \A q, p \in Request : q # p => held(q) \intersect held(p) = {}
    BY ZenonT(60) DEF DecInv, DecPages, Gone
  <2>3. Range(T.req[r].pages) = {} /\ \A q \in Request \ {r} : Range(T.req[q].pages) = held(q)
    BY DEF Gone, SameDecReq, Range
  <2> HIDE DEF held
  <2>4. T.free \subseteq Page
    BY <2>1, <2>2
  <2>5. ASSUME NEW p \in Page PROVE p \in T.free \/ \E q \in Request : p \in Range(T.req[q].pages)
    BY <2>2, <2>3
  <2>6. \A q \in Request : Range(T.req[q].pages) \intersect T.free = {}
    BY <2>2, <2>3
  <2>7. \A q, p \in Request :
          q # p => Range(T.req[q].pages) \intersect Range(T.req[p].pages) = {}
    BY <2>2, <2>3
  <2> QED
    BY <2>4, <2>5, <2>6, <2>7 DEF DecPages
<1>5. FreeBuffers(T, c.buffers)
  BY GaveKeeps DEF Gone, DecInv
<1> QED
  BY <1>1, <1>2, <1>3, <1>4, <1>5 DEF DecInv, DecPlaced

(* The parts of a leave. *)
LEMMA ReleasePagesEffect ==
  ASSUME NEW S, DecShape(S), NEW r \in Request
  PROVE  LET T == ReleasePages(S, r)
         IN  /\ DecShape(T) /\ T.status = S.status /\ (DecTyped(S) => DecTyped(T))
             /\ T.queue = S.queue /\ T.transfer = S.transfer /\ T.running = S.running
             /\ T.pending = S.pending /\ T.published = S.published
             /\ T.free = S.free \union Range(S.req[r].pages)
             /\ T.free_buffers = S.free_buffers /\ T.landed = S.landed
             /\ T.req[r].pages = <<>>
             /\ T.req[r].arrived = S.req[r].arrived /\ T.req[r].len = S.req[r].len
             /\ T.req[r].prefix = S.req[r].prefix /\ T.req[r].buffer = S.req[r].buffer
             /\ T.req[r].answers = S.req[r].answers
             /\ \A q \in Request \ {r} : T.req[q] = S.req[q]
<1> DEFINE U == [S EXCEPT !.free = @ \union Range(S.req[r].pages)]
           T == [U EXCEPT !.req[r].pages = <<>>]
<1>1. ReleasePages(S, r) = T
  BY DEF ReleasePages
<1>2. /\ DecShape(U) /\ U.status = S.status /\ U.outbox = S.outbox
      /\ U.queue = S.queue /\ U.transfer = S.transfer /\ U.running = S.running
      /\ U.pending = S.pending /\ U.published = S.published
      /\ U.free = S.free \union Range(S.req[r].pages)
      /\ U.free_buffers = S.free_buffers /\ U.landed = S.landed /\ U.req = S.req
  BY DEF DecShape, DecFields
<1> HIDE DEF U
<1>3. /\ DecShape(T) /\ T.status = U.status /\ T.outbox = U.outbox
      /\ T.queue = U.queue /\ T.transfer = U.transfer /\ T.running = U.running
      /\ T.pending = U.pending /\ T.published = U.published /\ T.free = U.free
      /\ T.free_buffers = U.free_buffers /\ T.landed = U.landed
      /\ T.req = [U.req EXCEPT ![r] = [U.req[r] EXCEPT !.pages = <<>>]]
  BY <1>2 DEF DecShape, DecFields, DecReqFields
<1> HIDE DEF T
<1>4. /\ T.req[r].pages = <<>> /\ T.req[r].conclude = S.req[r].conclude
      /\ T.req[r].waiting_for_input = S.req[r].waiting_for_input
      /\ T.req[r].arrived = S.req[r].arrived /\ T.req[r].len = S.req[r].len
      /\ T.req[r].prefix = S.req[r].prefix /\ T.req[r].buffer = S.req[r].buffer
      /\ T.req[r].answers = S.req[r].answers
      /\ \A q \in Request \ {r} : T.req[q] = S.req[q]
  BY <1>2, <1>3 DEF DecShape, DecReqFields
<1>5. DecTyped(S) => DecTyped(T)
  BY <1>2, <1>3, <1>4 DEF DecTyped
<1> QED
  BY <1>1, <1>2, <1>3, <1>4, <1>5

LEMMA DecAnswerEffect ==
  ASSUME NEW S, DecShape(S), NEW r \in Request
  PROVE  LET T == Answer(S, r)
         IN  /\ DecShape(T) /\ T.status = S.status /\ (DecTyped(S) => DecTyped(T))
             /\ T.queue = S.queue /\ T.transfer = S.transfer /\ T.running = S.running
             /\ T.pending = S.pending /\ T.published = S.published /\ T.free = S.free
             /\ T.free_buffers = S.free_buffers /\ T.landed = S.landed
             /\ T.req[r].answers = S.req[r].answers + 1
             /\ T.req[r].arrived = S.req[r].arrived /\ T.req[r].len = S.req[r].len
             /\ T.req[r].prefix = S.req[r].prefix /\ T.req[r].buffer = S.req[r].buffer
             /\ T.req[r].pages = S.req[r].pages
             /\ \A q \in Request \ {r} : T.req[q] = S.req[q]
<1> DEFINE T == Answer(S, r)
<1>3. /\ DecShape(T) /\ T.status = S.status /\ T.outbox = S.outbox
      /\ T.queue = S.queue /\ T.transfer = S.transfer /\ T.running = S.running
      /\ T.pending = S.pending /\ T.published = S.published /\ T.free = S.free
      /\ T.free_buffers = S.free_buffers /\ T.landed = S.landed
      /\ T.req = [S.req EXCEPT ![r] = [S.req[r] EXCEPT !.answers = S.req[r].answers + 1]]
  BY DEF DecShape, DecFields, DecReqFields, Answer
<1> HIDE DEF T
<1>4. T.req[r].answers = S.req[r].answers + 1
  BY <1>3 DEF DecShape, DecReqFields
<1>5. /\ T.req[r].arrived = S.req[r].arrived /\ T.req[r].len = S.req[r].len
      /\ T.req[r].prefix = S.req[r].prefix /\ T.req[r].buffer = S.req[r].buffer
      /\ T.req[r].pages = S.req[r].pages /\ T.req[r].conclude = S.req[r].conclude
      /\ T.req[r].waiting_for_input = S.req[r].waiting_for_input
      /\ \A q \in Request \ {r} : T.req[q] = S.req[q]
  BY <1>3 DEF DecShape, DecReqFields
<1>6. DecTyped(S) => DecTyped(T)
  BY <1>3, <1>5 DEF DecTyped
<1> QED
  BY <1>3, <1>4, <1>5, <1>6 DEF T

LEMMA FreeBufferEffect ==
  ASSUME NEW S, DecShape(S), NEW r \in Request
  PROVE  LET T == FreeBuffer(S, r)
         IN  /\ DecShape(T) /\ T.status = S.status /\ (DecTyped(S) => DecTyped(T))
             /\ T.queue = S.queue /\ T.transfer = S.transfer /\ T.running = S.running
             /\ T.pending = S.pending /\ T.published = S.published /\ T.free = S.free
             /\ Gave(S, T, r)
             /\ T.req[r].answers = S.req[r].answers
             /\ T.req[r].arrived = S.req[r].arrived /\ T.req[r].len = S.req[r].len
             /\ T.req[r].prefix = S.req[r].prefix /\ T.req[r].pages = S.req[r].pages
             /\ \A q \in Request \ {r} : T.req[q] = S.req[q]
<1> DEFINE b == S.req[r].buffer
           U == [S EXCEPT !.landed[b] = Nil]
           V == [U EXCEPT !.free_buffers = Append(@, U.req[r].buffer)]
           T == [V EXCEPT !.req[r].buffer = Nil]
           R == FreeBuffer(S, r)
<1>1. /\ DecShape(U) /\ U.status = S.status /\ U.outbox = S.outbox
      /\ U.queue = S.queue /\ U.transfer = S.transfer /\ U.running = S.running
      /\ U.pending = S.pending /\ U.published = S.published /\ U.free = S.free
      /\ U.free_buffers = S.free_buffers /\ U.req = S.req
  BY DEF DecShape, DecFields
<1>2. R = IF U.req[r].buffer = Nil THEN U ELSE T
  BY DEF FreeBuffer, ReleaseBuffer
<1> HIDE DEF U, R
<1>3. CASE U.req[r].buffer = Nil
  <2>1. R = U
    BY <1>2, <1>3
  <2>2. DecTyped(S) => DecTyped(U)
    BY <1>1 DEF DecTyped
  <2> QED
    BY <1>1, <1>3, <2>1, <2>2 DEF Gave, R
<1>4. CASE U.req[r].buffer # Nil
  <2>1. /\ DecShape(V) /\ V.status = U.status /\ V.outbox = U.outbox
        /\ V.queue = U.queue /\ V.transfer = U.transfer /\ V.running = U.running
        /\ V.pending = U.pending /\ V.published = U.published /\ V.free = U.free
        /\ V.free_buffers = Append(U.free_buffers, U.req[r].buffer) /\ V.req = U.req
    BY <1>1 DEF DecShape, DecFields
  <2> HIDE DEF V
  <2>2. /\ DecShape(T) /\ T.status = V.status /\ T.outbox = V.outbox
        /\ T.queue = V.queue /\ T.transfer = V.transfer /\ T.running = V.running
        /\ T.pending = V.pending /\ T.published = V.published /\ T.free = V.free
        /\ T.free_buffers = V.free_buffers
        /\ T.req = [V.req EXCEPT ![r] = [V.req[r] EXCEPT !.buffer = Nil]]
    BY <2>1 DEF DecShape, DecFields, DecReqFields
  <2> HIDE DEF T
  <2>3. /\ T.req[r].answers = S.req[r].answers /\ T.req[r].buffer = Nil
        /\ T.req[r].arrived = S.req[r].arrived /\ T.req[r].len = S.req[r].len
        /\ T.req[r].prefix = S.req[r].prefix /\ T.req[r].pages = S.req[r].pages
        /\ T.req[r].conclude = S.req[r].conclude
        /\ T.req[r].waiting_for_input = S.req[r].waiting_for_input
        /\ \A q \in Request \ {r} : T.req[q] = S.req[q]
    BY <2>1, <2>2, <1>1 DEF DecShape, DecReqFields
  <2>4. Gave(S, T, r)
    BY <1>1, <1>4, <2>1, <2>2, <2>3 DEF Gave
  <2>5. R = T
    BY <1>2, <1>4 DEF T
  <2>6. DecTyped(S) => DecTyped(T)
    BY <1>1, <2>1, <2>2, <2>3 DEF DecTyped
  <2> QED
    BY ZenonT(60), <1>1, <2>1, <2>2, <2>3, <2>4, <2>5, <2>6 DEF R
<1> QED
  BY <1>3, <1>4

(* A set as a sequence: SetToSeq of a finite set. *)
LEMMA SetToSeqEntries ==
  ASSUME NEW X, IsFiniteSet(X)
  PROVE  LET q == SetToSeq(X)
         IN  /\ Cardinality(X) \in Nat /\ DOMAIN q = 1..Cardinality(X)
             /\ \A i \in 1..Cardinality(X) : q[i] \in X
             /\ IsInjective(q)
<1> DEFINE n == Cardinality(X)
           q == SetToSeq(X)
<1>1. n \in Nat /\ ExistsBijection(1..n, X)
  BY FS_CardinalityType
<1> HIDE DEF n
<1>2. PICK f \in Bijection(1..n, X) : TRUE
  BY <1>1 DEF ExistsBijection
<1>3. f \in [1..n -> X] /\ IsInjective(f)
  BY <1>2 DEF Bijection, Injection, IsInjective
<1>4. q \in [1..n -> X] /\ IsInjective(q)
  BY <1>3 DEF SetToSeq, n
<1> QED
  BY <1>1, <1>4 DEF n

(* T differs from S at most in what says nothing of a place, and in fewer  *)
(* requests whose prefill rank is not resolved.                            *)
Settled(S, T) ==
    /\ DecShape(T)
    /\ DecTyped(S) => DecTyped(T)
    /\ T.queue = S.queue /\ T.pending \subseteq S.pending /\ T.transfer = S.transfer
    /\ T.published = S.published /\ T.running = S.running
    /\ T.free = S.free /\ T.free_buffers = S.free_buffers
    /\ \A r \in Request : SameDecReq(S.req[r], T.req[r])

LEMMA QuietSettled == ASSUME NEW S, NEW T, Quiet(S, T) PROVE Settled(S, T)
BY DEF Quiet, Settled

LEMMA SettledShape == ASSUME NEW S, NEW T, Settled(S, T) PROVE DecShape(T)
BY DEF Settled

LEMMA SettledTrans ==
  ASSUME NEW S, NEW T, NEW U, Settled(S, T), Settled(T, U)
  PROVE  Settled(S, U)
BY DEF Settled, SameDecReq

LEMMA DecInvSettled ==
  ASSUME NEW S, NEW T, NEW c, DecInv(S, c), Settled(S, T)
  PROVE  DecInv(T, c)
<1>1. DecShape(T) /\ DecTyped(T)
  BY DEF Settled, DecInv
<1>2. DecQueues(T)
  BY DEF Settled, DecInv, DecQueues
<1>3. DecPlaced(T, c)
  BY DEF Settled, DecInv, DecPlaced, DecReqOK, SameDecReq
<1>4. DecPages(T)
  BY DEF Settled, DecInv, DecPages, SameDecReq
<1>5. FreeBuffers(T, c.buffers)
  BY SameBuffersKeep DEF Settled, DecInv, SameBuffers, SameDecReq
<1> QED
  BY <1>1, <1>2, <1>3, <1>4, <1>5 DEF DecInv

LEMMA QuietRetries ==
  ASSUME NEW S, DecShape(S), NEW v
  PROVE  Quiet(S, [S EXCEPT !.retries = v])
BY DEF Quiet, DecShape, DecTyped, SameDecReq, DecFields

LEMMA SettledPending ==
  ASSUME NEW S, DecShape(S), NEW r
  PROVE  Settled(S, [S EXCEPT !.pending = @ \ {r}])
BY DEF Settled, DecShape, DecTyped, SameDecReq, DecFields

LEMMA QuietFailed ==
  ASSUME NEW S, DecShape(S), NEW r \in Request
  PROVE  Quiet(S, [UpdateStatus(S, r, Failed) EXCEPT !.req[r].conclude = Failed])
<1> DEFINE T == UpdateStatus(S, r, Failed)
<1>1. Quiet(S, T)
  BY QuietStatus, PollsDiffer
<1> HIDE DEF T
<1>2. Quiet(S, [T EXCEPT !.req[r].conclude = Failed])
  BY <1>1, QuietConclude, QuietTrans, QuietShape, PollsDiffer
<1> QED
  BY <1>2 DEF T

LEMMA QuietWaits ==
  ASSUME NEW S, DecShape(S), NEW r \in Request, S.req[r].arrived, r \notin S.pending
  PROVE  Quiet(S, UpdateStatus(S, r, WaitingForInput))
<1> DEFINE T == UpdateStatus(S, r, WaitingForInput)
<1>1. /\ DecShape(T) /\ T.outbox = S.outbox
      /\ T.queue = S.queue /\ T.pending = S.pending /\ T.transfer = S.transfer
      /\ T.published = S.published /\ T.running = S.running
      /\ T.free = S.free /\ T.free_buffers = S.free_buffers /\ T.req = S.req
      /\ T.status = [S.status EXCEPT ![r] = Updated(@, WaitingForInput)]
  BY DEF UpdateStatus, DecShape, DecFields
<1> HIDE DEF T
<1>2. ASSUME DecTyped(S) PROVE DecTyped(T)
  <2>1. Updated(S.status[r], WaitingForInput) \in Status
    BY <1>2, UpdatedStatus, PollStates DEF DecTyped
  <2>2. T.status \in [Request -> Status] /\ \A q \in Request \ {r} : T.status[q] = S.status[q]
    BY <1>1, <1>2, <2>1 DEF DecTyped
  <2> QED
    BY <1>1, <1>2, <2>2 DEF DecTyped
<1>3. Quiet(S, T)
  BY <1>1, <1>2 DEF Quiet, SameDecReq
<1> QED
  BY <1>3 DEF T

LEMMA SettledInit ==
  ASSUME NEW S, DecShape(S), NEW r \in Request, S.req[r].arrived
  PROVE  Settled(S, InitReceiver(S, r))
<1> DEFINE v == S.req[r].link # "down"
           C == [S EXCEPT !.req[r].connected = v]
           T == [C EXCEPT !.pending = @ \ {r}]
           U == [UpdateStatus(T, r, Failed) EXCEPT !.req[r].conclude = Failed]
           V == UpdateStatus(T, r, WaitingForInput)
<1>1. InitReceiver(S, r) \in {T, U, V}
  BY DEF InitReceiver
<1>2. Quiet(S, C)
  BY QuietField
<1> HIDE DEF v, C
<1>3. DecShape(C) /\ C.req[r].arrived
  BY <1>2 DEF Quiet, SameDecReq
<1>4. Settled(C, T)
  BY <1>3, SettledPending
<1>5. T.req = C.req /\ r \notin T.pending
  BY <1>3 DEF DecShape, DecFields
<1> HIDE DEF T
<1>6. Settled(S, T) /\ DecShape(T)
  BY <1>2, <1>4, QuietSettled, SettledTrans, SettledShape
<1>7. Quiet(T, U)
  BY <1>6, QuietFailed
<1>8. Quiet(T, V)
  BY <1>3, <1>5, <1>6, QuietWaits
<1> HIDE DEF U, V
<1>9. Settled(S, U) /\ Settled(S, V)
  BY <1>6, <1>7, <1>8, QuietSettled, SettledTrans
<1> QED
  BY <1>1, <1>6, <1>9

LEMMA SettledGiveUp ==
  ASSUME NEW S, DecShape(S), NEW r \in Request
  PROVE  Settled(S, GiveUpOne(S, r))
<1> DEFINE U == AbortReceiver(S, r)
<1>1. Quiet(S, U)
  BY QuietAbort
<1>2. GiveUpOne(S, r) = [U EXCEPT !.pending = @ \ {r}]
  BY DEF GiveUpOne
<1> HIDE DEF U
<1>3. Settled(U, [U EXCEPT !.pending = @ \ {r}])
  BY <1>1, QuietShape, SettledPending
<1> QED
  BY <1>1, <1>2, <1>3, QuietSettled, SettledTrans

LEMMA SettledConnectLoop ==
  ASSUME NEW S, DecShape(S), NEW n \in Nat, NEW q, DOMAIN q = 1..n,
         \A k \in 1..n : q[k] \in Request /\ S.req[q[k]].arrived
  PROVE  Settled(S, FoldLeft(InitReceiver, S, q))
<1>1. FoldLeft(InitReceiver, S, q) = Connect!Result(S, q)
  BY DEF FoldLeft, MapThenFoldSet, Connect!Result, Connect!FoldLeft, Connect!MapThenFoldSet,
         Connect!Max, Max
<1> DEFINE g == Connect!States(S, q, n)
<1>2. /\ g[0] = S
      /\ \A k \in 1..n : g[k] = InitReceiver(g[k-1], q[k])
      /\ Connect!Result(S, q) = g[n]
  BY Connect!Loop
<1> HIDE DEF g
<1> DEFINE Q == {k \in 0..n : Settled(S, g[k])}
<1>3. 0 \in Q
  BY <1>2, QuietSame, QuietSettled
<1>4. ASSUME NEW k \in 1..n, k - 1 \in Q PROVE k \in Q
  <2>1. Settled(S, g[k-1])
    BY <1>4
  <2>2. DecShape(g[k-1]) /\ g[k-1].req[q[k]].arrived /\ q[k] \in Request
    BY <2>1 DEF Settled, SameDecReq
  <2>3. Settled(g[k-1], g[k])
    BY <1>2, <2>2, SettledInit
  <2> QED
    BY <2>1, <2>3, SettledTrans
<1> HIDE DEF Q
<1>5. n \in Q
  <2>1. \A k \in 0..n : k \in Q
    BY ZenonT(60), <1>3, <1>4, Connect!UpTo
  <2> QED
    BY <2>1
<1> QED
  BY <1>1, <1>2, <1>5 DEF Q

LEMMA SettledGiveUpLoop ==
  ASSUME NEW S, DecShape(S), NEW n \in Nat, NEW q, DOMAIN q = 1..n,
         \A k \in 1..n : q[k] \in Request
  PROVE  Settled(S, GiveUp!Result(S, q))
<1> DEFINE g == GiveUp!States(S, q, n)
<1>2. /\ g[0] = S
      /\ \A k \in 1..n : g[k] = GiveUpOne(g[k-1], q[k])
      /\ GiveUp!Result(S, q) = g[n]
  BY GiveUp!Loop
<1> HIDE DEF g
<1> DEFINE Q == {k \in 0..n : Settled(S, g[k])}
<1>3. 0 \in Q
  BY <1>2, QuietSame, QuietSettled
<1>4. ASSUME NEW k \in 1..n, k - 1 \in Q PROVE k \in Q
  <2>1. Settled(S, g[k-1])
    BY <1>4
  <2>2. Settled(g[k-1], g[k])
    BY <1>2, <2>1, SettledShape, SettledGiveUp
  <2> QED
    BY <2>1, <2>2, SettledTrans
<1> HIDE DEF Q
<1>5. n \in Q
  <2>1. \A k \in 0..n : k \in Q
    BY ZenonT(60), <1>3, <1>4, Connect!UpTo
  <2> QED
    BY <2>1
<1> QED
  BY <1>2, <1>5 DEF Q

(* _resolve_pending_reqs. *)
LEMMA SettledResolve ==
  ASSUME NEW S, NEW c, DecInv(S, c), NEW reachable
  PROVE  Settled(S, ResolvePending(S, reachable))
<1> DEFINE A == [S EXCEPT !.retries = @ + 1]
           B == [S EXCEPT !.retries = 0]
           q == SetToSeq(S.pending)
           n == Cardinality(S.pending)
<1>1. DecShape(S) /\ Settled(S, S) /\ Settled(S, A) /\ Settled(S, B)
  BY QuietRetries, QuietSame, QuietSettled DEF DecInv
<1>2. S.pending \subseteq Request /\ \A r \in S.pending : S.req[r].arrived
  <2>1. S.pending \subseteq Request /\ S.pending \subseteq Range(S.queue)
    BY DistinctRange DEF DecInv, DecQueues
  <2> QED
    BY <2>1 DEF DecInv, DecPlaced, DecReqOK
<1>3. IsFiniteSet(S.pending)
  BY <1>2, PDAssumption, FS_Subset
<1>4. /\ n \in Nat /\ DOMAIN q = 1..n
      /\ \A k \in 1..n : q[k] \in Request /\ S.req[q[k]].arrived
  BY <1>2, <1>3, SetToSeqEntries
<1>5. ResolvePending(S, reachable)
        \in {S, A, FoldLeft(InitReceiver, B, q), GiveUp!Result(B, q)}
  BY DEF ResolvePending, FoldLeft, MapThenFoldSet, GiveUp!Result, GiveUp!FoldLeft,
         GiveUp!MapThenFoldSet, GiveUp!Max, Max, GiveUpOne
<1> HIDE DEF A, B, q, n
<1>6. Settled(S, FoldLeft(InitReceiver, B, q))
  <2>1. DecShape(B) /\ \A k \in 1..n : q[k] \in Request /\ B.req[q[k]].arrived
    BY <1>1, <1>4 DEF Settled, SameDecReq
  <2> QED
    BY <1>1, <1>4, <2>1, SettledConnectLoop, SettledTrans
<1>7. Settled(S, GiveUp!Result(B, q))
  BY <1>1, <1>4, SettledShape, SettledGiveUpLoop, SettledTrans
<1> QED
  BY <1>1, <1>5, <1>6, <1>7

(* _update_handshake_waiters. *)
LEMMA QuietHandshakeLoop ==
  ASSUME NEW S, DecShape(S), DecTyped(S), NEW n \in Nat, NEW q, DOMAIN q = 1..n,
         \A k \in 1..n : q[k] \in Request
  PROVE  Quiet(S, Handshake!Result(S, q))
<1> DEFINE g == Handshake!States(S, q, n)
<1>2. /\ g[0] = S
      /\ \A k \in 1..n : g[k] = HandshakeOne(g[k-1], q[k])
      /\ Handshake!Result(S, q) = g[n]
  BY Handshake!Loop
<1> HIDE DEF g
<1> DEFINE Q == {k \in 0..n : Quiet(S, g[k])}
<1>3. 0 \in Q
  BY <1>2, QuietSame
<1>4. ASSUME NEW k \in 1..n, k - 1 \in Q PROVE k \in Q
  <2>1. Quiet(S, g[k-1])
    BY <1>4
  <2>2. Quiet(g[k-1], g[k])
    BY <1>2, <2>1, QuietShape, QuietTyped, QuietHandshake
  <2> QED
    BY <2>1, <2>2, QuietTrans
<1> HIDE DEF Q
<1>5. n \in Q
  <2>1. \A k \in 0..n : k \in Q
    BY ZenonT(60), <1>3, <1>4, Connect!UpTo
  <2> QED
    BY <2>1
<1> QED
  BY <1>2, <1>5 DEF Q

LEMMA QuietHandshakes ==
  ASSUME NEW S, DecShape(S), DecTyped(S), Distinct(S.queue, Request)
  PROVE  Quiet(S, UpdateHandshakeWaiters(S))
<1>1. Len(S.queue) \in Nat /\ DOMAIN S.queue = 1..Len(S.queue)
      /\ \A k \in 1..Len(S.queue) : S.queue[k] \in Request
  BY DEF Distinct
<1>2. Quiet(S, Handshake!Result(S, S.queue))
  BY <1>1, QuietHandshakeLoop
<1>3. UpdateHandshakeWaiters(S) \in {S, Handshake!Result(S, S.queue)}
  BY DEF UpdateHandshakeWaiters, FoldLeft, MapThenFoldSet, Handshake!Result,
         Handshake!FoldLeft, Handshake!MapThenFoldSet, Handshake!Max, Max
<1> QED
  BY <1>2, <1>3, QuietSame

(* Where a request is says what it holds. *)
LEMMA InQueue ==
  ASSUME NEW S, NEW c, DecInv(S, c), NEW r \in Range(S.queue)
  PROVE  /\ r \in Request /\ r \notin Range(S.transfer) /\ r \notin S.running
         /\ S.req[r].arrived /\ S.req[r].answers = 0
         /\ S.req[r].buffer = Nil /\ S.req[r].pages = <<>>
<1>1. r \in Request
  BY DistinctRange DEF DecInv, DecQueues
<1> QED
  BY <1>1 DEF DecInv, DecPlaced, DecReqOK

LEMMA InTransfer ==
  ASSUME NEW S, NEW c, DecInv(S, c), NEW r \in Range(S.transfer)
  PROVE  /\ r \in Request /\ r \notin Range(S.queue) /\ r \notin S.running
         /\ r \notin S.pending /\ S.req[r].arrived /\ S.req[r].answers = 0
<1>1. r \in Request /\ S.pending \subseteq Range(S.queue)
  BY DistinctRange DEF DecInv, DecQueues
<1> QED
  BY <1>1 DEF DecInv, DecPlaced, DecReqOK

LEMMA InRunning ==
  ASSUME NEW S, NEW c, DecInv(S, c), NEW r \in S.running
  PROVE  /\ r \in Request /\ r \notin Range(S.queue) /\ r \notin Range(S.transfer)
         /\ r \notin S.pending /\ S.req[r].arrived /\ S.req[r].answers = 0
         /\ S.req[r].buffer = Nil
<1>1. r \in Request /\ S.pending \subseteq Range(S.queue)
  BY DEF DecInv, DecQueues
<1> QED
  BY <1>1 DEF DecInv, DecPlaced, DecReqOK

(* Left of a queue that the request is not in. *)
LEMMA LeftSame ==
  ASSUME NEW q, Distinct(q, Request), NEW r, r \notin Range(q)
  PROVE  Left(q, q, r)
BY DEF Left

LEMMA LeftRemoved ==
  ASSUME NEW q, Distinct(q, Request), NEW r
  PROVE  Left(q, Removed(q, r), r)
BY DistinctRemove DEF Left, Removed

(* _update_handshake_waiters has failed it: the entry leaves the queue. *)
LEMMA RemoveFailedStep ==
  ASSUME NEW S, NEW c, c.buffers \in Nat, DecInv(S, c), NEW r \in Range(S.queue)
  PROVE  LET T == RemoveFailedOne(S, r)
         IN  /\ DecInv(T, c) /\ T.published = S.published
             /\ Range(S.queue) \ {r} \subseteq Range(T.queue)
<1> DEFINE U == ClearReceiver(S, r)
           V == [U EXCEPT !.queue = Removed(@, r)]
           W == [V EXCEPT !.pending = @ \ {r}]
           X == Answer(W, r)
           T == RemoveFailedOne(S, r)
<1>0. DecShape(S) /\ DecTyped(S) /\ DecQueues(S)
  BY DEF DecInv
<1>1. CASE ~S.req[r].aborted
  BY <1>1 DEF RemoveFailedOne
<1>2. CASE S.req[r].aborted
  <2>0. T = X
    BY <1>2 DEF RemoveFailedOne
  <2>1. /\ r \in Request /\ r \notin Range(S.transfer) /\ r \notin S.running
        /\ S.req[r].arrived /\ S.req[r].answers = 0
        /\ S.req[r].buffer = Nil /\ S.req[r].pages = <<>>
    BY InQueue
  <2>2. Quiet(S, U)
    BY <1>0, <2>1, QuietClear
  <2> HIDE DEF U, T
  <2>3. DecShape(U) /\ DecTyped(U)
    BY <1>0, <2>2 DEF Quiet
  <2>4. /\ DecShape(V) /\ V.queue = Removed(U.queue, r) /\ V.pending = U.pending
        /\ V.transfer = U.transfer /\ V.published = U.published /\ V.running = U.running
        /\ V.free = U.free /\ V.free_buffers = U.free_buffers /\ V.req = U.req
        /\ V.status = U.status /\ V.outbox = U.outbox
    BY <2>3 DEF DecShape, DecFields
  <2> HIDE DEF V
  <2>5. /\ DecShape(W) /\ W.queue = V.queue /\ W.pending = V.pending \ {r}
        /\ W.transfer = V.transfer /\ W.published = V.published /\ W.running = V.running
        /\ W.free = V.free /\ W.free_buffers = V.free_buffers /\ W.req = V.req
        /\ W.status = V.status /\ W.outbox = V.outbox
    BY <2>4 DEF DecShape, DecFields
  <2> HIDE DEF W
  <2>6. /\ DecShape(X) /\ (DecTyped(W) => DecTyped(X))
        /\ X.queue = W.queue /\ X.transfer = W.transfer /\ X.running = W.running
        /\ X.pending = W.pending /\ X.published = W.published /\ X.free = W.free
        /\ X.free_buffers = W.free_buffers
        /\ X.req[r].answers = W.req[r].answers + 1
        /\ X.req[r].arrived = W.req[r].arrived /\ X.req[r].len = W.req[r].len
        /\ X.req[r].prefix = W.req[r].prefix /\ X.req[r].buffer = W.req[r].buffer
        /\ X.req[r].pages = W.req[r].pages
        /\ \A q \in Request \ {r} : X.req[q] = W.req[q]
    BY <2>1, <2>5, DecAnswerEffect
  <2> HIDE DEF X
  <2>7. /\ U.queue = S.queue /\ U.pending = S.pending /\ U.transfer = S.transfer
        /\ U.published = S.published /\ U.running = S.running
        /\ U.free = S.free /\ U.free_buffers = S.free_buffers
        /\ \A q \in Request : SameDecReq(S.req[q], U.req[q])
    BY <2>2 DEF Quiet
  <2>8. Left(S.queue, X.queue, r) /\ Left(S.transfer, X.transfer, r)
    BY <1>0, <2>1, <2>4, <2>5, <2>6, <2>7, LeftRemoved, LeftSame DEF DecQueues
  <2>9. Gave(S, X, r)
    BY <2>1, <2>4, <2>5, <2>6, <2>7 DEF Gave, SameDecReq
  <2>10. DecTyped(X)
    BY <2>3, <2>4, <2>5, <2>6 DEF DecTyped
  <2>11. /\ X.running = S.running \ {r} /\ X.pending = S.pending \ {r}
         /\ X.published = S.published
    BY <2>1, <2>4, <2>5, <2>6, <2>7
  <2>12. X.free = S.free \union Range(S.req[r].pages)
    <3>1. Range(S.req[r].pages) = {}
      BY <2>1, DistinctEmpty
    <3> QED
      BY <3>1, <2>4, <2>5, <2>6, <2>7
  <2>13. X.req[r].answers = S.req[r].answers + 1
    BY <2>1, <2>4, <2>5, <2>6, <2>7 DEF SameDecReq
  <2>14. /\ X.req[r].arrived = S.req[r].arrived /\ X.req[r].len = S.req[r].len
         /\ X.req[r].prefix = S.req[r].prefix /\ X.req[r].pages = <<>>
    <3>1. SameDecReq(S.req[r], W.req[r])
      BY <2>1, <2>4, <2>5, <2>7
    <3> QED
      BY ZenonT(60), <3>1, <2>1, <2>6 DEF SameDecReq
  <2>17. \A q \in Request \ {r} : SameDecReq(S.req[q], X.req[q])
    BY <2>4, <2>5, <2>6, <2>7
  <2>15. Gone(S, X, r)
    BY <2>6, <2>8, <2>9, <2>10, <2>11, <2>12, <2>13, <2>14, <2>17 DEF Gone
  <2>16. DecInv(X, c)
    BY <2>1, <2>15, GoneKeeps
  <2> QED
    BY <2>0, <2>8, <2>11, <2>16 DEF Left, T
<1> QED
  BY <1>1, <1>2

(* The loop over a queue q whose entries n+1 onwards are still there. *)
Ahead(q, k, n, rest) == \A m \in (k + 1)..n : q[m] \in Range(rest)

LEMMA AheadStep ==
  ASSUME NEW n \in Nat, NEW q, DOMAIN q = 1..n, IsInjective(q), NEW k \in 1..n,
         NEW p, NEW s, Ahead(q, k - 1, n, p), Range(p) \ {q[k]} \subseteq Range(s)
  PROVE  q[k] \in Range(p) /\ Ahead(q, k, n, s)
<1>1. q[k] \in Range(p)
  BY DEF Ahead
<1>2. ASSUME NEW m \in (k + 1)..n PROVE q[m] \in Range(s)
  <2>1. m \in ((k - 1) + 1)..n /\ m \in DOMAIN q /\ k \in DOMAIN q /\ m # k
    OBVIOUS
  <2>2. q[m] \in Range(p)
    BY <2>1 DEF Ahead
  <2>3. q[m] # q[k]
    BY <2>1 DEF IsInjective
  <2> QED
    BY <2>2, <2>3
<1> QED
  BY <1>1, <1>2 DEF Ahead

LEMMA AheadStart ==
  ASSUME NEW X, NEW q, Distinct(q, X)
  PROVE  /\ Len(q) \in Nat /\ DOMAIN q = 1..Len(q) /\ IsInjective(q)
         /\ Ahead(q, 0, Len(q), q)
BY DEF Distinct, Ahead, Range

LEMMA AheadNext ==
  ASSUME NEW n \in Nat, NEW q, NEW k \in 1..n, NEW p, Ahead(q, k - 1, n, p)
  PROVE  q[k] \in Range(p)
BY DEF Ahead

LEMMA RemoveFailedLoop ==
  ASSUME NEW S, NEW c, c.buffers \in Nat, DecInv(S, c),
         NEW n \in Nat, NEW q, DOMAIN q = 1..n, IsInjective(q), Ahead(q, 0, n, S.queue)
  PROVE  LET T == Failures!Result(S, q) IN DecInv(T, c) /\ T.published = S.published
<1> DEFINE g == Failures!States(S, q, n)
<1>2. /\ g[0] = S
      /\ \A k \in 1..n : g[k] = RemoveFailedOne(g[k-1], q[k])
      /\ Failures!Result(S, q) = g[n]
  BY Failures!Loop
<1> HIDE DEF g
<1> DEFINE Q == {k \in 0..n : /\ DecInv(g[k], c) /\ g[k].published = S.published
                              /\ Ahead(q, k, n, g[k].queue)}
<1>3. 0 \in Q
  BY <1>2
<1>4. ASSUME NEW k \in 1..n, k - 1 \in Q PROVE k \in Q
  <2>1. DecInv(g[k-1], c) /\ g[k-1].published = S.published /\ Ahead(q, k-1, n, g[k-1].queue)
    BY <1>4
  <2>2. q[k] \in Range(g[k-1].queue)
    BY <2>1, AheadNext
  <2>3. /\ DecInv(g[k], c) /\ g[k].published = g[k-1].published
        /\ Range(g[k-1].queue) \ {q[k]} \subseteq Range(g[k].queue)
    BY ZenonT(60), <1>2, <2>1, <2>2, RemoveFailedStep
  <2>4. Ahead(q, k, n, g[k].queue)
    BY <2>1, <2>3, AheadStep
  <2> QED
    BY <2>1, <2>3, <2>4
<1> HIDE DEF Q
<1>5. n \in Q
  <2>1. \A k \in 0..n : k \in Q
    BY ZenonT(60), <1>3, <1>4, Connect!UpTo
  <2> QED
    BY <2>1
<1> QED
  BY <1>2, <1>5 DEF Q

LEMMA RemoveFailedKeeps ==
  ASSUME NEW S, NEW c, c.buffers \in Nat, DecInv(S, c)
  PROVE  LET T == RemoveFailed(S) IN DecInv(T, c) /\ T.published = S.published
<1>1. /\ Len(S.queue) \in Nat /\ DOMAIN S.queue = 1..Len(S.queue)
      /\ IsInjective(S.queue) /\ Ahead(S.queue, 0, Len(S.queue), S.queue)
  BY AheadStart DEF DecInv, DecQueues
<1>2. LET T == Failures!Result(S, S.queue) IN DecInv(T, c) /\ T.published = S.published
  BY <1>1, RemoveFailedLoop
<1>3. RemoveFailed(S) = Failures!Result(S, S.queue)
  BY DEF RemoveFailed, FoldLeft, MapThenFoldSet, Failures!Result, Failures!FoldLeft,
         Failures!MapThenFoldSet, Failures!Max, Max, RemoveFailedOne
<1> QED
  BY <1>2, <1>3

(* What the assumptions on the server arguments say of one of them. *)
LEMMA ConfigFacts ==
  ASSUME NEW c \in Configs
  PROVE  /\ c.buffers \in Nat
         /\ \A r \in Request : /\ c.len[r] \in Nat \ {0} /\ c.prefix[r] \in Nat
                               /\ c.prefix[r] <= c.len[r] /\ c.prefix[r] % PageSize = 0
BY ConfigsAssumption DEF Config

LEMMA Sizes ==
    /\ PageSize \in Nat /\ PageSize > 0 /\ ReservedDecodeTokens \in Nat /\ NumPages \in Nat
    /\ ChunkedPrefillSize \in Nat /\ ChunkedPrefillSize >= PageSize
    /\ PrefillBuffers \in Nat
BY PDAssumption

LEMMA Quotient ==
  ASSUME NEW n \in Nat
  PROVE  /\ n \div PageSize \in Nat /\ n % PageSize \in 0..(PageSize - 1)
         /\ n = PageSize * (n \div PageSize) + (n % PageSize)
<1>1. PageSize \in Nat /\ PageSize > 0
  BY Sizes
<1> DEFINE q == n \div PageSize
           o == n % PageSize
<1>2. q \in Nat
  BY <1>1
<1>3. n = PageSize * q + o /\ o \in 0..(PageSize - 1)
  BY <1>1
<1> QED
  BY <1>2, <1>3

LEMMA ProductNat == \A x, y \in Nat : x * y \in Nat
OBVIOUS

LEMMA Multiples ==
  ASSUME NEW p \in Nat, p > 0, NEW a \in Int, NEW b \in Int, p * a < p * b + p
  PROVE  a <= b
<1>1. SUFFICES ASSUME a >= b + 1 PROVE FALSE
  OBVIOUS
<1> DEFINE d == a - (b + 1)
<1>2. d \in Nat /\ a = d + (b + 1)
  BY <1>1
<1>3. p * d \in Nat
  BY <1>2
<1> HIDE DEF d
<1>4. p * a = p * d + p * b + p
  BY <1>2
<1> QED
  BY <1>3, <1>4

(* A prompt that fits in the tokens of the free pages fits in the pages. *)
LEMMA EnoughPages ==
  ASSUME NEW len \in Nat, NEW prefix \in Nat, prefix % PageSize = 0, NEW free \in Nat,
         len - prefix <= PageSize * free
  PROVE  /\ PagesOf(len) - (prefix \div PageSize) \in Int
         /\ PagesOf(len) - (prefix \div PageSize) <= free
<1> DEFINE k == prefix \div PageSize
           m == PagesOf(len)
           x == len + PageSize - 1
<1>1. PageSize \in Nat /\ PageSize > 0 /\ x \in Nat
  BY Sizes
<1>2. k \in Nat /\ prefix = PageSize * k
  <2>1. k \in Nat /\ prefix = PageSize * k + 0
    BY Quotient
  <2>2. PageSize * k \in Nat
    BY <1>1, <2>1, ProductNat
  <2> QED
    BY <2>1, <2>2
<1>3. m \in Nat /\ PageSize * m <= x
  BY <1>1, Quotient DEF PagesOf
<1> HIDE DEF k, m
<1>4. PageSize * (k + free) = PageSize * k + PageSize * free
  BY <1>1, <1>2
<1>5. PageSize * m < PageSize * (k + free) + PageSize
  BY <1>1, <1>2, <1>3, <1>4
<1>6. m <= k + free
  BY <1>1, <1>2, <1>3, <1>5, Multiples
<1> QED
  BY <1>2, <1>3, <1>6 DEF k, m

LEMMA PageFinite == IsFiniteSet(Page)
<1>1. 1 \in Int /\ NumPages \in Int
  BY Sizes
<1> QED
  BY <1>1, FS_Interval DEF Page

(* The pages that _pre_alloc takes are free ones. *)
LEMMA TakenPages ==
  ASSUME NEW free, free \subseteq Page, NEW need \in Int, need <= Cardinality(free)
  PROVE  LET pages == SubSeq(SetToSeq(free), 1, need)
         IN  pages \in Seq(Page) /\ Range(pages) \subseteq free
<1> DEFINE q == SetToSeq(free)
           pages == SubSeq(q, 1, need)
<1>1. IsFiniteSet(free)
  <2>1. IsFiniteSet(Page)
    BY PageFinite
  <2> QED
    BY <2>1, FS_Subset
<1>2. Cardinality(free) \in Nat /\ \A i \in 1..Cardinality(free) : q[i] \in free
  BY <1>1, SetToSeqEntries
<1> HIDE DEF q
<1>3. \A i \in 1..need : q[i] \in free
  BY <1>2
<1>4. pages \in Seq(free)
  BY <1>3, SubSeqProperties
<1> HIDE DEF pages
<1>5. pages \in Seq(Page) /\ Range(pages) \subseteq free
  BY <1>4 DEF Range
<1> QED
  BY <1>5 DEF pages, q

(* The request r goes from the prealloc queue to the transfer queue with   *)
(* pages and a buffer.                                                     *)
Allocated(S, T, r) ==
    /\ DecShape(T) /\ DecTyped(T)
    /\ Left(S.queue, T.queue, r) /\ T.transfer = Append(S.transfer, r)
    /\ T.running = S.running /\ T.pending = S.pending
    /\ T.req[r].pages \in Seq(Page) /\ Range(T.req[r].pages) \subseteq S.free
    /\ T.free = S.free \ Range(T.req[r].pages)
    /\ Took(S, T, r)
    /\ T.req[r].arrived = S.req[r].arrived /\ T.req[r].len = S.req[r].len
    /\ T.req[r].prefix = S.req[r].prefix /\ T.req[r].answers = S.req[r].answers
    /\ \A q \in Request \ {r} : SameDecReq(S.req[q], T.req[q])

LEMMA AllocatedKeeps ==
  ASSUME NEW S, NEW T, NEW c \in Configs, DecInv(S, c), NEW r \in Range(S.queue),
         r \notin S.pending, Allocated(S, T, r)
  PROVE  DecInv(T, c)
<1>0. /\ r \in Request /\ r \notin Range(S.transfer) /\ r \notin S.running
      /\ S.req[r].arrived /\ S.req[r].answers = 0
      /\ S.req[r].buffer = Nil /\ S.req[r].pages = <<>>
  BY InQueue
<1>1. DecShape(T) /\ DecTyped(T)
  BY DEF Allocated
<1>2. Distinct(T.transfer, Request) /\ Range(T.transfer) = Range(S.transfer) \union {r}
  BY <1>0, DistinctAppend DEF Allocated, DecInv, DecQueues
<1>3. DecQueues(T)
  BY <1>2 DEF Allocated, DecInv, DecQueues, Left
<1>4. ASSUME NEW q \in Request
      PROVE  DecReqOK(T.req[q], q \in Range(T.queue), q \in Range(T.transfer),
                      q \in T.running, c.len[q], c.prefix[q])
  <2>1. DecReqOK(S.req[q], q \in Range(S.queue), q \in Range(S.transfer),
                 q \in S.running, c.len[q], c.prefix[q])
    BY DEF DecInv, DecPlaced
  <2>2. CASE q = r
    <3>1. q \notin Range(T.queue) /\ q \in Range(T.transfer) /\ q \notin T.running
      BY <2>2, <1>0, <1>2 DEF Allocated, Left
    <3>2. /\ T.req[q].arrived = S.req[q].arrived /\ T.req[q].len = S.req[q].len
          /\ T.req[q].prefix = S.req[q].prefix /\ T.req[q].answers = 0
          /\ T.req[q].pages \in Seq(Page) /\ S.req[q].arrived
      BY ZenonT(60), <2>2, <1>0 DEF Allocated
    <3> QED
      BY <2>1, <3>1, <3>2 DEF DecReqOK
  <2>3. CASE q # r
    <3>1. SameDecReq(S.req[q], T.req[q])
      BY <2>3 DEF Allocated
    <3> QED
      BY <2>1, <2>3, <3>1, <1>2 DEF Allocated, Left, DecReqOK, SameDecReq
  <2> QED
    BY <2>2, <2>3
<1>5. DecPages(T)
  <2> DEFINE held(q) == Range(S.req[q].pages)
             new == Range(T.req[r].pages)
  <2>1. held(r) = {}
    BY <1>0, DistinctEmpty
  <2>2. /\ S.free \subseteq Page /\ T.free = S.free \ new /\ new \subseteq S.free
        /\ \A p \in Page : p \in S.free \/ \E q \in Request : p \in held(q)
        /\ \A q \in Request : held(q) \intersect S.free = {}
        /\ \A q, p \in Request : q # p => held(q) \intersect held(p) = {}
    BY ZenonT(60) DEF DecInv, DecPages, Allocated
  <2>3. \A q \in Request \ {r} : Range(T.req[q].pages) = held(q)
    BY DEF Allocated, SameDecReq
  <2> HIDE DEF held
  <2>4. T.free \subseteq Page
    BY <2>2
  <2>5. ASSUME NEW p \in Page PROVE p \in T.free \/ \E q \in Request : p \in Range(T.req[q].pages)
    <3>1. CASE p \in S.free
      BY <3>1, <1>0, <2>2
    <3>2. CASE p \notin S.free
      <4>1. PICK q \in Request : p \in held(q)
        BY <3>2, <2>2
      <4> QED
        BY <4>1, <2>1, <2>3
    <3> QED
      BY <3>1, <3>2
  <2>6. \A q \in Request : Range(T.req[q].pages) \intersect T.free = {}
    BY <2>2, <2>3
  <2>7. \A q, p \in Request :
          q # p => Range(T.req[q].pages) \intersect Range(T.req[p].pages) = {}
    BY <2>2, <2>3
  <2> QED
    BY <2>4, <2>5, <2>6, <2>7 DEF DecPages
<1>6. FreeBuffers(T, c.buffers)
  BY <1>0, TookKeeps, ConfigFacts DEF Allocated, DecInv
<1> QED
  BY <1>1, <1>3, <1>4, <1>5, <1>6 DEF DecInv, DecPlaced

(* TakeBuffer of the decode instance's record. *)
LEMMA DecTakeEffect ==
  ASSUME NEW S, DecShape(S), NEW r \in Request
  PROVE  LET T == TakeBuffer(S, r)
         IN  /\ DecShape(T) /\ (DecTyped(S) => DecTyped(T))
             /\ T.queue = S.queue /\ T.pending = S.pending /\ T.transfer = S.transfer
             /\ T.published = S.published /\ T.running = S.running /\ T.free = S.free
             /\ T.free_buffers = Tail(S.free_buffers)
             /\ T.req[r].buffer = Head(S.free_buffers)
             /\ T.req[r].arrived = S.req[r].arrived /\ T.req[r].len = S.req[r].len
             /\ T.req[r].prefix = S.req[r].prefix /\ T.req[r].answers = S.req[r].answers
             /\ \A q \in Request \ {r} : T.req[q] = S.req[q]
<1> DEFINE U == [S EXCEPT !.free_buffers = Tail(@)]
           T == [U EXCEPT !.req[r].buffer = Head(S.free_buffers)]
<1>1. TakeBuffer(S, r) = T
  BY DEF TakeBuffer
<1>2. /\ DecShape(U) /\ U.free_buffers = Tail(S.free_buffers)
      /\ U.queue = S.queue /\ U.pending = S.pending /\ U.transfer = S.transfer
      /\ U.published = S.published /\ U.running = S.running /\ U.free = S.free
      /\ U.req = S.req /\ U.status = S.status /\ U.outbox = S.outbox
  BY DEF DecShape, DecFields
<1> HIDE DEF U
<1>3. /\ DecShape(T)
      /\ T.queue = U.queue /\ T.pending = U.pending /\ T.transfer = U.transfer
      /\ T.published = U.published /\ T.running = U.running /\ T.free = U.free
      /\ T.free_buffers = U.free_buffers /\ T.status = U.status /\ T.outbox = U.outbox
      /\ T.req = [U.req EXCEPT ![r] = [U.req[r] EXCEPT !.buffer = Head(S.free_buffers)]]
  BY <1>2 DEF DecShape, DecFields, DecReqFields
<1> HIDE DEF T
<1>4. /\ T.req[r].buffer = Head(S.free_buffers) /\ T.req[r].conclude = S.req[r].conclude
      /\ T.req[r].waiting_for_input = S.req[r].waiting_for_input
      /\ T.req[r].arrived = S.req[r].arrived /\ T.req[r].len = S.req[r].len
      /\ T.req[r].prefix = S.req[r].prefix /\ T.req[r].answers = S.req[r].answers
      /\ \A q \in Request \ {r} : T.req[q] = S.req[q]
  BY <1>2, <1>3 DEF DecShape, DecReqFields
<1>5. DecTyped(S) => DecTyped(T)
  BY SMTT(60), <1>2, <1>3, <1>4 DEF DecTyped
<1> QED
  BY <1>1, <1>2, <1>3, <1>4, <1>5

(* _pre_alloc and send_metadata, and the entry leaves the prealloc queue. *)
PreallocatedOne(S, r) == [Preallocate(S, r) EXCEPT !.queue = Removed(@, r)]

LEMMA PreallocateEffect ==
  ASSUME NEW S, DecShape(S), DecTyped(S), NEW r \in Request,
         S.free_buffers # <<>>, S.free_buffers \in Seq(Nat), S.req[r].buffer = Nil,
         S.req[r].prefix \in Nat,
         NEW pages \in Seq(Page), Range(pages) \subseteq S.free,
         Distinct(S.queue, Request),
         pages = SubSeq(SetToSeq(S.free), 1,
                        PagesOf(S.req[r].len) - (S.req[r].prefix \div PageSize))
  PROVE  LET T == PreallocatedOne(S, r)
         IN  /\ DecShape(T) /\ DecTyped(T)
             /\ Left(S.queue, T.queue, r) /\ T.transfer = S.transfer
             /\ T.running = S.running /\ T.pending = S.pending
             /\ T.published = S.published + 1
             /\ T.req[r].pages = pages /\ T.free = S.free \ Range(pages)
             /\ Took(S, T, r)
             /\ T.req[r].arrived = S.req[r].arrived /\ T.req[r].len = S.req[r].len
             /\ T.req[r].prefix = S.req[r].prefix /\ T.req[r].answers = S.req[r].answers
             /\ \A q \in Request \ {r} : T.req[q] = S.req[q]
<1> DEFINE A == TakeBuffer(S, r)
           m == [type |-> "METADATA", room |-> r,
                 info |-> [pages |-> pages, buffer |-> A.req[r].buffer,
                           decode_prefix |-> S.req[r].prefix]]
           B == [A EXCEPT !.free = @ \ Range(pages)]
           C == [B EXCEPT !.req[r].pages = pages]
           E == [C EXCEPT !.published = @ + 1]
           D == [E EXCEPT !.req[r].sent = TRUE]
           F == [D EXCEPT !.outbox = Append(@, m)]
           G == [UpdateStatus(E, r, Failed) EXCEPT !.req[r].conclude = Failed]
           H == IF S.req[r].link = "unsent" THEN G ELSE F
           T == [H EXCEPT !.queue = Removed(@, r)]
<1>2. /\ DecShape(A) /\ DecTyped(A)
      /\ A.queue = S.queue /\ A.pending = S.pending /\ A.transfer = S.transfer
      /\ A.published = S.published /\ A.running = S.running /\ A.free = S.free
      /\ A.free_buffers = Tail(S.free_buffers)
      /\ A.req[r].buffer = Head(S.free_buffers)
      /\ A.req[r].arrived = S.req[r].arrived /\ A.req[r].len = S.req[r].len
      /\ A.req[r].prefix = S.req[r].prefix /\ A.req[r].answers = S.req[r].answers
      /\ \A q \in Request \ {r} : A.req[q] = S.req[q]
  BY SMTT(60), DecTakeEffect
<1>3. m \in Message
  <2>1. A.req[r].buffer \in Int
    <3>1. Head(S.free_buffers) \in Nat
      OBVIOUS
    <3> QED
      BY <1>2, <3>1
  <2> HIDE DEF A
  <2> QED
    BY <2>1 DEF Message, Info
<1> HIDE DEF A
<1>4. /\ DecShape(B) /\ B.free = A.free \ Range(pages)
      /\ B.queue = A.queue /\ B.pending = A.pending /\ B.transfer = A.transfer
      /\ B.published = A.published /\ B.running = A.running
      /\ B.free_buffers = A.free_buffers /\ B.req = A.req /\ B.status = A.status
      /\ B.outbox = A.outbox
  BY <1>2 DEF DecShape, DecFields
<1> HIDE DEF B
<1>5. /\ DecShape(C)
      /\ C.queue = B.queue /\ C.pending = B.pending /\ C.transfer = B.transfer
      /\ C.published = B.published /\ C.running = B.running /\ C.free = B.free
      /\ C.free_buffers = B.free_buffers /\ C.status = B.status /\ C.outbox = B.outbox
      /\ C.req = [B.req EXCEPT ![r] = [B.req[r] EXCEPT !.pages = pages]]
  BY SMTT(60), <1>4 DEF DecShape, DecFields, DecReqFields
<1>6. C.req[r].buffer = B.req[r].buffer
  BY <1>4, <1>5 DEF DecShape, DecReqFields
<1>1. PreallocatedOne(S, r) = T
  <2>1. E = [TakeBuffer(S, r) EXCEPT !.free = @ \ Range(pages), !.req[r].pages = pages,
                                     !.published = @ + 1]
    BY DEF A, B, C
  <2>2. E.req[r].buffer = A.req[r].buffer
    <3>1. E.req = C.req
      BY <1>5 DEF DecShape, DecFields
    <3> QED
      BY <1>4, <1>6, <3>1
  <2> HIDE DEF E, C, m
  <2>3. m = [type |-> "METADATA", room |-> r,
             info |-> [pages |-> pages, buffer |-> E.req[r].buffer,
                       decode_prefix |-> S.req[r].prefix]]
    BY <2>2 DEF m
  <2>4. Preallocate(S, r) = H
    BY SMTT(60), <2>1, <2>3 DEF Preallocate
  <2> QED
    BY <2>4 DEF PreallocatedOne
<1> HIDE DEF C, m
<1>7. /\ DecShape(E) /\ E.published = C.published + 1
      /\ E.queue = C.queue /\ E.pending = C.pending /\ E.transfer = C.transfer
      /\ E.running = C.running /\ E.free = C.free /\ E.free_buffers = C.free_buffers
      /\ E.req = C.req /\ E.status = C.status /\ E.outbox = C.outbox
  BY ZenonT(60), <1>5 DEF DecShape, DecFields
<1> HIDE DEF E
<1>8. Quiet(E, D) /\ DecShape(D) /\ \A q \in Request \ {r} : D.req[q] = E.req[q]
  <2>1. Quiet(E, D) /\ DecShape(D)
    BY <1>7, QuietField, QuietShape
  <2>2. \A q \in Request \ {r} : D.req[q] = E.req[q]
    BY <1>7 DEF DecShape, DecFields
  <2> QED
    BY <2>1, <2>2
<1> HIDE DEF D
<1>9. Quiet(E, F) /\ F.req = D.req
  <2>1. Quiet(E, F)
    BY <1>3, <1>8, QuietMessage, QuietTrans
  <2>2. F.req = D.req
    BY <1>8 DEF DecShape, DecFields
  <2> QED
    BY <2>1, <2>2
<1>10. Quiet(E, G) /\ \A q \in Request \ {r} : G.req[q] = E.req[q]
  <2>1. Quiet(E, G)
    BY <1>7, QuietFailed
  <2>2. \A q \in Request \ {r} : G.req[q] = E.req[q]
    BY <1>7 DEF UpdateStatus, DecShape, DecFields
  <2> QED
    BY <2>1, <2>2
<1> HIDE DEF F, G
<1>11. Quiet(E, H) /\ \A q \in Request \ {r} : H.req[q] = E.req[q]
  BY <1>8, <1>9, <1>10
<1> HIDE DEF H
<1>12. /\ C.req[r].pages = pages /\ C.req[r].buffer = A.req[r].buffer
       /\ C.req[r].conclude = A.req[r].conclude
       /\ C.req[r].waiting_for_input = A.req[r].waiting_for_input
       /\ C.req[r].arrived = A.req[r].arrived /\ C.req[r].len = A.req[r].len
       /\ C.req[r].prefix = A.req[r].prefix /\ C.req[r].answers = A.req[r].answers
       /\ \A q \in Request \ {r} : C.req[q] = A.req[q]
  <2>1. C.req = [A.req EXCEPT ![r] = [A.req[r] EXCEPT !.pages = pages]]
    BY <1>4, <1>5
  <2> QED
    BY SMTT(60), <1>2, <2>1 DEF DecShape, DecReqFields
<1>13. DecTyped(E)
  <2>1. \A q \in Request : /\ E.req[q].conclude = A.req[q].conclude
                           /\ E.req[q].waiting_for_input = A.req[q].waiting_for_input
                           /\ E.req[q].arrived = A.req[q].arrived
    BY ZenonT(60), <1>7, <1>12
  <2>2. E.status = A.status /\ E.outbox = A.outbox /\ E.pending = A.pending
    BY SMTT(60), <1>4, <1>5, <1>7
  <2> QED
    BY ZenonT(60), <1>2, <2>1, <2>2 DEF DecTyped
<1>14. /\ DecShape(H) /\ DecTyped(H)
       /\ H.queue = E.queue /\ H.pending = E.pending /\ H.transfer = E.transfer
       /\ H.published = E.published /\ H.running = E.running
       /\ H.free = E.free /\ H.free_buffers = E.free_buffers
       /\ \A q \in Request : SameDecReq(E.req[q], H.req[q])
  BY <1>11, <1>13 DEF Quiet
<1>15. /\ DecShape(T) /\ T.queue = Removed(H.queue, r)
       /\ T.pending = H.pending /\ T.transfer = H.transfer /\ T.published = H.published
       /\ T.running = H.running /\ T.free = H.free /\ T.free_buffers = H.free_buffers
       /\ T.req = H.req /\ T.status = H.status /\ T.outbox = H.outbox
  BY SMTT(60), <1>14 DEF DecShape, DecFields
<1> HIDE DEF T
<1>16. DecTyped(T)
  BY <1>14, <1>15 DEF DecTyped
<1>17. /\ Left(S.queue, T.queue, r) /\ T.transfer = S.transfer
       /\ T.running = S.running /\ T.pending = S.pending
       /\ T.published = S.published + 1 /\ T.free = S.free \ Range(pages)
       /\ T.free_buffers = Tail(S.free_buffers)
  BY SMTT(60), <1>2, <1>4, <1>5, <1>7, <1>14, <1>15, LeftRemoved
<1>18. /\ T.req[r].pages = pages /\ T.req[r].buffer = Head(S.free_buffers)
       /\ T.req[r].arrived = S.req[r].arrived /\ T.req[r].len = S.req[r].len
       /\ T.req[r].prefix = S.req[r].prefix /\ T.req[r].answers = S.req[r].answers
       /\ \A q \in Request \ {r} : T.req[q] = S.req[q]
  BY SMTT(60), <1>2, <1>7, <1>11, <1>12, <1>14, <1>15 DEF SameDecReq
<1>19. Took(S, T, r)
  BY <1>17, <1>18 DEF Took
<1> QED
  BY <1>1, <1>15, <1>16, <1>17, <1>18, <1>19

(* The instance as the scan of the prealloc queue has it: what was popped  *)
(* is about to join the transfer queue.                                    *)
Both(q, popped) == q \o popped

Joined(S, popped) == [S EXCEPT !.transfer = Both(@, popped)]

LEMMA JoinedEffect ==
  ASSUME NEW S, DecShape(S), NEW popped
  PROVE  LET T == Joined(S, popped)
         IN  /\ DecShape(T) /\ (DecTyped(S) => DecTyped(T)) /\ (DecTyped(T) => DecTyped(S))
             /\ T.transfer = Both(S.transfer, popped)
             /\ T.queue = S.queue /\ T.pending = S.pending /\ T.published = S.published
             /\ T.running = S.running /\ T.free = S.free
             /\ T.free_buffers = S.free_buffers /\ T.req = S.req /\ T.status = S.status
             /\ T.outbox = S.outbox
<1> DEFINE T == Joined(S, popped)
<1>1. /\ DecShape(T) /\ T.transfer = Both(S.transfer, popped)
      /\ T.queue = S.queue /\ T.pending = S.pending /\ T.published = S.published
      /\ T.running = S.running /\ T.free = S.free /\ T.free_buffers = S.free_buffers
      /\ T.req = S.req /\ T.status = S.status /\ T.outbox = S.outbox
  BY DEF Joined, DecShape, DecFields
<1> HIDE DEF T
<1>2. (DecTyped(S) => DecTyped(T)) /\ (DecTyped(T) => DecTyped(S))
  BY <1>1 DEF DecTyped
<1> QED
  BY <1>1, <1>2 DEF T

Scan(A, c) ==
    /\ DOMAIN A = {"S", "stop", "popped"}
    /\ DecShape(A.S) /\ A.S.transfer \in Seq(Request) /\ A.popped \in Seq(Request)
    /\ A.S.published = Len(A.popped)
    /\ DecInv(Joined(A.S, A.popped), c)

LEMMA ScanStop ==
  ASSUME NEW A, NEW c, Scan(A, c)
  PROVE  LET B == [A EXCEPT !.stop = TRUE] IN Scan(B, c) /\ B.S = A.S
BY DEF Scan

(* _allocatable_token_budgets leaves room for the prompt. *)
LEMMA FitsPages ==
  ASSUME NEW S, NEW c \in Configs, NEW r \in Request, S.free \subseteq Page,
         S.running \subseteq Request, S.published \in Nat, S.transfer \in Seq(Request),
         S.req[r].len = c.len[r], S.req[r].prefix = c.prefix[r], Fits(S, r),
         NEW need, need = PagesOf(S.req[r].len) - (S.req[r].prefix \div PageSize)
  PROVE  need \in Int /\ need <= Cardinality(S.free)
<1> DEFINE f == Cardinality(S.free)
           w == Len(S.transfer) + Cardinality(S.running) + S.published
           p == PageSize * f
           u == ReservedDecodeTokens * w
           len == S.req[r].len
           prefix == S.req[r].prefix
           k == PageSize * PagesOf(len - prefix)
<1>1. f \in Nat
  <2>1. IsFiniteSet(Page)
    BY PageFinite
  <2> QED
    BY <2>1, FS_Subset, FS_CardinalityType
<1>2. Cardinality(S.running) \in Nat
  BY PDAssumption, FS_Subset, FS_CardinalityType
<1>3. w \in Nat
  BY <1>2
<1>4. len \in Nat /\ prefix \in Nat /\ prefix % PageSize = 0 /\ len - prefix \in Nat
  BY ConfigFacts
<1>5. \/ len - prefix + ReservedDecodeTokens <= p - u
      \/ k + ReservedDecodeTokens <= p - u
  BY DEF Fits, Allocatable
<1> HIDE DEF f, w, len, prefix
<1>8. k \in Nat /\ len - prefix <= k
  <2> DEFINE d == len - prefix
             x == d + PageSize - 1
             o == x % PageSize
             z == PageSize * (x \div PageSize)
  <2>1. d \in Nat /\ x \in Nat /\ PageSize \in Nat /\ PageSize > 0
    BY <1>4, Sizes
  <2>2. k = z
    BY DEF PagesOf
  <2>3. z \in Nat /\ o \in 0..(PageSize - 1) /\ x = z + o
    BY <2>1, Quotient, ProductNat
  <2> HIDE DEF o, z, k, d
  <2>4. d <= z
    BY <2>1, <2>3
  <2> QED
    BY <2>2, <2>3, <2>4 DEF d
<1> HIDE DEF k
<1>6. p \in Nat /\ u \in Nat /\ ReservedDecodeTokens \in Nat
  BY <1>1, <1>3, Sizes, ProductNat
<1> HIDE DEF u
<1>7. len - prefix <= p
  BY <1>4, <1>5, <1>6, <1>8
<1> QED
  BY <1>1, <1>4, <1>7, EnoughPages DEF f, len, prefix

LEMMA IndicesNat == ASSUME NEW n \in Nat, NEW q \in Seq(1..n) PROVE q \in Seq(Nat)
<1>1. Len(q) \in Nat /\ \A i \in 1..Len(q) : q[i] \in Nat
  OBVIOUS
<1> QED
  BY <1>1, SeqDef

LEMMA ConcatAppend ==
  ASSUME NEW s \in Seq(Request), NEW t \in Seq(Request), NEW x \in Request
  PROVE  Both(s, Append(t, x)) = Append(Both(s, t), x)
BY DEF Both

(* pop_preallocated, one entry. *)
LEMMA ScanStep ==
  ASSUME NEW A, NEW c \in Configs, Scan(A, c), NEW r \in Range(A.S.queue)
  PROVE  LET B == PreallocOne(A, r)
         IN  Scan(B, c) /\ Range(A.S.queue) \ {r} \subseteq Range(B.S.queue)
<1> DEFINE S == A.S
           V == Joined(S, A.popped)
           T == PreallocatedOne(S, r)
           P == Append(A.popped, r)
           B == PreallocOne(A, r)
           need == PagesOf(S.req[r].len) - (S.req[r].prefix \div PageSize)
           pages == SubSeq(SetToSeq(S.free), 1, need)
<1>1. /\ DOMAIN A = {"S", "stop", "popped"} /\ DecShape(S) /\ S.transfer \in Seq(Request)
      /\ A.popped \in Seq(Request) /\ S.published = Len(A.popped) /\ DecInv(V, c)
  BY DEF Scan
<1>2. /\ DecShape(V) /\ (DecTyped(V) => DecTyped(S))
      /\ V.transfer = Both(S.transfer, A.popped)
      /\ V.queue = S.queue /\ V.pending = S.pending /\ V.published = S.published
      /\ V.running = S.running /\ V.free = S.free /\ V.free_buffers = S.free_buffers
      /\ V.req = S.req /\ V.status = S.status /\ V.outbox = S.outbox
  <2> HIDE DEF S
  <2> QED
    BY <1>1, JoinedEffect
<1>3. \/ B = A \/ B = [A EXCEPT !.stop = TRUE]
      \/ /\ S.req[r].waiting_for_input /\ S.free_buffers # <<>> /\ Fits(S, r)
         /\ B = [A EXCEPT !.S = T, !.popped = P]
  BY DEF PreallocOne, PreallocatedOne
<1> HIDE DEF V
<1>4. CASE B = A
  BY <1>4
<1>5. CASE B = [A EXCEPT !.stop = TRUE]
  BY <1>5, ScanStop
<1>6. CASE /\ S.req[r].waiting_for_input /\ S.free_buffers # <<>> /\ Fits(S, r)
           /\ B = [A EXCEPT !.S = T, !.popped = P]
  <2>1. DecShape(V) /\ DecTyped(V) /\ DecQueues(V) /\ DecPages(V) /\ FreeBuffers(V, c.buffers)
    BY <1>1 DEF DecInv
  <2>2. r \in Range(V.queue)
    BY <1>2
  <2>3. /\ r \in Request /\ r \notin Range(V.transfer) /\ V.req[r].buffer = Nil
        /\ V.req[r].arrived
    BY <1>1, <2>2, InQueue
  <2>4. V.req[r].len = c.len[r] /\ V.req[r].prefix = c.prefix[r]
    BY <1>1, <2>3 DEF DecInv, DecPlaced, DecReqOK
  <2>5. r \notin V.pending
    BY <1>2, <1>6, <2>1, <2>3 DEF DecTyped
  <2>6. S.free \subseteq Page /\ S.running \subseteq Request
    BY <1>2, <2>1 DEF DecQueues, DecPages
  <2>22. need = PagesOf(S.req[r].len) - (S.req[r].prefix \div PageSize)
    OBVIOUS
  <2>23. S.published \in Nat /\ S.req[r].len = c.len[r] /\ S.req[r].prefix = c.prefix[r]
    BY <1>1, <1>2, <2>4
  <2> HIDE DEF need, S
  <2>7. need \in Int /\ need <= Cardinality(S.free)
    BY ZenonT(60), <1>1, <1>6, <2>3, <2>6, <2>22, <2>23, FitsPages
  <2>8. pages \in Seq(Page) /\ Range(pages) \subseteq S.free
    BY <2>6, <2>7, TakenPages
  <2>9. S.free_buffers \in Seq(Nat) /\ S.req[r].buffer = Nil /\ S.req[r].prefix \in Nat
    <3>1. S.free_buffers \in Seq(1..c.buffers)
      BY <1>2, <2>1 DEF FreeBuffers, Distinct
    <3>2. S.free_buffers \in Seq(Nat)
      BY <3>1, IndicesNat, ConfigFacts
    <3>3. S.req[r].prefix \in Nat
      BY <1>2, <2>3, <2>4, ConfigFacts
    <3> QED
      BY <1>2, <2>3, <3>2, <3>3
  <2>10. DecTyped(S) /\ Distinct(S.queue, Request)
    BY <1>2, <2>1 DEF DecQueues
  <2>11. pages = SubSeq(SetToSeq(S.free), 1,
                        PagesOf(S.req[r].len) - (S.req[r].prefix \div PageSize))
    BY SMTT(60) DEF need
  <2> HIDE DEF pages, B
  <2>12. /\ DecShape(T) /\ DecTyped(T)
         /\ Left(S.queue, T.queue, r) /\ T.transfer = S.transfer
         /\ T.running = S.running /\ T.pending = S.pending
         /\ T.published = S.published + 1
         /\ T.req[r].pages = pages /\ T.free = S.free \ Range(pages)
         /\ Took(S, T, r)
         /\ T.req[r].arrived = S.req[r].arrived /\ T.req[r].len = S.req[r].len
         /\ T.req[r].prefix = S.req[r].prefix /\ T.req[r].answers = S.req[r].answers
         /\ \A q \in Request \ {r} : T.req[q] = S.req[q]
    BY ZenonT(60), <1>1, <1>6, <2>3, <2>8, <2>9, <2>10, <2>11, PreallocateEffect
  <2> HIDE DEF T
  <2> DEFINE W == Joined(T, P)
  <2>13. /\ DecShape(W) /\ (DecTyped(T) => DecTyped(W))
         /\ W.transfer = Both(T.transfer, P)
         /\ W.queue = T.queue /\ W.pending = T.pending /\ W.published = T.published
         /\ W.running = T.running /\ W.free = T.free /\ W.free_buffers = T.free_buffers
         /\ W.req = T.req /\ W.status = T.status /\ W.outbox = T.outbox
    <3> HIDE DEF P
    <3> QED
      BY <2>12, JoinedEffect
  <2> HIDE DEF W
  <2>14. W.transfer = Append(V.transfer, r)
    BY SMTT(60), <1>1, <1>2, <2>3, <2>12, <2>13, ConcatAppend
  <2>15. Took(V, W, r)
    BY <1>2, <2>12, <2>13 DEF Took
  <2>16. \A q \in Request \ {r} : SameDecReq(V.req[q], W.req[q])
    BY <1>2, <2>12, <2>13 DEF SameDecReq
  <2>17. Allocated(V, W, r)
    BY <1>2, <2>8, <2>12, <2>13, <2>14, <2>15, <2>16 DEF Allocated
  <2>18. DecInv(W, c)
    BY <1>1, <2>2, <2>5, <2>17, AllocatedKeeps
  <2>19. B.S = T /\ B.popped = P /\ DOMAIN B = {"S", "stop", "popped"}
    <3> HIDE DEF P
    <3> QED
      BY <1>1, <1>6
  <2>20. P \in Seq(Request) /\ Len(P) = Len(A.popped) + 1
    BY <1>1, <2>3
  <2>21. Scan(B, c)
    BY <1>1, <2>12, <2>18, <2>19, <2>20 DEF Scan, W
  <2> QED
    BY <2>12, <2>19, <2>21 DEF Left, S, B
<1> QED
  BY <1>3, <1>4, <1>5, <1>6

LEMMA ScanLoop ==
  ASSUME NEW A, NEW c \in Configs, Scan(A, c),
         NEW n \in Nat, NEW q, DOMAIN q = 1..n, IsInjective(q), Ahead(q, 0, n, A.S.queue)
  PROVE  Scan(Prealloc!Result(A, q), c)
<1> DEFINE g == Prealloc!States(A, q, n)
<1>2. /\ g[0] = A
      /\ \A k \in 1..n : g[k] = PreallocOne(g[k-1], q[k])
      /\ Prealloc!Result(A, q) = g[n]
  BY Prealloc!Loop
<1> HIDE DEF g
<1> DEFINE Q == {k \in 0..n : Scan(g[k], c) /\ Ahead(q, k, n, g[k].S.queue)}
<1>3. 0 \in Q
  BY <1>2
<1>4. ASSUME NEW k \in 1..n, k - 1 \in Q PROVE k \in Q
  <2>1. Scan(g[k-1], c) /\ Ahead(q, k-1, n, g[k-1].S.queue)
    BY <1>4
  <2>2. q[k] \in Range(g[k-1].S.queue)
    BY <2>1, AheadNext
  <2>3. Scan(g[k], c) /\ Range(g[k-1].S.queue) \ {q[k]} \subseteq Range(g[k].S.queue)
    BY <1>2, <2>1, <2>2, ScanStep
  <2>4. Ahead(q, k, n, g[k].S.queue)
    BY <2>1, <2>3, AheadStep
  <2> QED
    BY <2>3, <2>4
<1> HIDE DEF Q
<1>5. n \in Q
  <2>1. \A k \in 0..n : k \in Q
    BY ZenonT(60), <1>3, <1>4, Connect!UpTo
  <2> QED
    BY <2>1
<1> QED
  BY <1>2, <1>5 DEF Q

LEMMA DecInvPublished ==
  ASSUME NEW S, NEW c, DecInv(S, c), NEW v
  PROVE  LET T == [S EXCEPT !.published = v] IN DecInv(T, c) /\ T.published = v
<1> DEFINE T == [S EXCEPT !.published = v]
<1>0. DecShape(S)
  BY DEF DecInv
<1>1. /\ DecShape(T) /\ T.published = v
      /\ T.queue = S.queue /\ T.pending = S.pending /\ T.transfer = S.transfer
      /\ T.running = S.running /\ T.free = S.free /\ T.free_buffers = S.free_buffers
      /\ T.req = S.req /\ T.status = S.status /\ T.outbox = S.outbox
  BY <1>0 DEF DecShape, DecFields
<1> HIDE DEF T
<1>2. DecTyped(T) /\ DecQueues(T) /\ DecPlaced(T, c) /\ DecPages(T)
  BY <1>1 DEF DecInv, DecTyped, DecQueues, DecPlaced, DecPages
<1>3. FreeBuffers(T, c.buffers)
  BY <1>1, SameBuffersKeep DEF DecInv, SameBuffers
<1> QED
  BY <1>1, <1>2, <1>3 DEF DecInv, T

(* pop_preallocated and the transfer queue's extend: nothing is published  *)
(* when it is over.                                                        *)
LEMMA PopPreallocatedKeeps ==
  ASSUME NEW S, NEW c \in Configs, DecInv(S, c), S.published = 0, NEW reachable
  PROVE  LET T == PopPreallocated(S, reachable) IN DecInv(T, c) /\ T.published = 0
<1> DEFINE R == ResolvePending(S, reachable)
           H == UpdateHandshakeWaiters(R)
           T == RemoveFailed(H)
           A == [S |-> T, stop |-> FALSE, popped |-> <<>>]
           B == Prealloc!Result(A, T.queue)
           J == Joined(B.S, B.popped)
           v == Max({0, B.S.published - Len(B.popped)})
<1>0. PopPreallocated(S, reachable) = [J EXCEPT !.published = v]
  BY DEF PopPreallocated, FoldLeft, MapThenFoldSet, Prealloc!Result, Prealloc!FoldLeft,
         Prealloc!MapThenFoldSet, Prealloc!Max, Max, Joined, Both
<1>1. Settled(S, R)
  BY SettledResolve
<1> HIDE DEF R
<1>2. DecInv(R, c) /\ R.published = 0
  BY <1>1, DecInvSettled DEF Settled
<1>3. Quiet(R, H)
  BY <1>2, QuietHandshakes DEF DecInv, DecQueues
<1> HIDE DEF H
<1>4. DecInv(H, c) /\ H.published = 0
  BY <1>2, <1>3, DecInvQuiet DEF Quiet
<1>5. DecInv(T, c) /\ T.published = 0
  BY <1>4, RemoveFailedKeeps, ConfigFacts
<1> HIDE DEF T
<1>6. Scan(A, c)
  <2>1. DecShape(T) /\ T.transfer \in Seq(Request)
    BY <1>5 DEF DecInv, DecQueues, Distinct
  <2>2. Quiet(T, Joined(T, <<>>))
    <3>1. Both(T.transfer, <<>>) = T.transfer
      BY <2>1 DEF Both
    <3> QED
      BY <2>1, <3>1, JoinedEffect DEF Quiet, SameDecReq
  <2>3. DecInv(Joined(T, <<>>), c)
    BY <1>5, <2>2, DecInvQuiet
  <2>4. Len(<<>>) = 0 /\ <<>> \in Seq(Request)
    OBVIOUS
  <2> QED
    BY <1>5, <2>1, <2>3, <2>4 DEF Scan
<1>7. /\ Len(T.queue) \in Nat /\ DOMAIN T.queue = 1..Len(T.queue)
      /\ IsInjective(T.queue) /\ Ahead(T.queue, 0, Len(T.queue), T.queue)
  BY <1>5, AheadStart DEF DecInv, DecQueues
<1>8. A.S = T
  OBVIOUS
<1> HIDE DEF A
<1>9. Scan(B, c)
  BY <1>6, <1>7, <1>8, ScanLoop
<1> HIDE DEF B
<1>10. DecInv(J, c) /\ B.S.published = Len(B.popped) /\ Len(B.popped) \in Nat
  BY <1>9 DEF Scan
<1>11. v = 0
  <2>1. B.S.published - Len(B.popped) = 0
    BY <1>10
  <2>2. v = Max({0, 0})
    BY ZenonT(60), <2>1
  <2> QED
    BY <2>2, MaxOfTwo
<1> HIDE DEF J, v
<1> QED
  BY <1>0, <1>10, <1>11, DecInvPublished

(* X is S without r in its transfer queue. *)
Detached(S, X, r) ==
    /\ DecShape(X) /\ DecTyped(X)
    /\ X.transfer = Removed(S.transfer, r)
    /\ X.queue = S.queue /\ X.pending = S.pending /\ X.published = S.published
    /\ X.running = S.running /\ X.free = S.free /\ X.free_buffers = S.free_buffers
    /\ \A q \in Request : SameDecReq(S.req[q], X.req[q])

LEMMA DetachedQuiet ==
  ASSUME NEW S, NEW X, NEW Y, NEW r, Detached(S, X, r), Quiet(X, Y)
  PROVE  Detached(S, Y, r)
BY DEF Detached, Quiet, SameDecReq

LEMMA DetachedShape == ASSUME NEW S, NEW X, NEW r, Detached(S, X, r) PROVE DecShape(X)
BY DEF Detached

LEMMA Detach ==
  ASSUME NEW S, DecTyped(S), NEW T, Quiet(S, T), NEW r
  PROVE  Detached(S, [T EXCEPT !.transfer = Removed(@, r)], r)
<1> DEFINE X == [T EXCEPT !.transfer = Removed(@, r)]
<1>0. DecShape(T) /\ DecTyped(T)
  BY DEF Quiet
<1>1. /\ DecShape(X) /\ X.transfer = Removed(T.transfer, r)
      /\ X.queue = T.queue /\ X.pending = T.pending /\ X.published = T.published
      /\ X.running = T.running /\ X.free = T.free /\ X.free_buffers = T.free_buffers
      /\ X.req = T.req /\ X.status = T.status /\ X.outbox = T.outbox
  BY <1>0 DEF DecShape, DecFields
<1> HIDE DEF X
<1>2. DecTyped(X)
  BY <1>0, <1>1 DEF DecTyped
<1>3. Detached(S, X, r)
  BY <1>1, <1>2 DEF Detached, Quiet
<1> QED
  BY <1>3 DEF X

(* A failed transfer: pages and buffer go back, and the client is told. *)
LEMMA DropGone ==
  ASSUME NEW S, NEW X, NEW c, DecInv(S, c), NEW r \in Range(S.transfer), Detached(S, X, r)
  PROVE  Gone(S, Drop(X, r), r) /\ Drop(X, r).published = S.published
<1> DEFINE A == [X EXCEPT !.req[r].aborted = TRUE]
           B == ReleasePages(A, r)
           C == Answer(B, r)
           D == FreeBuffer(C, r)
<1>0. Drop(X, r) = D
  BY DEF Drop
<1>1. /\ r \in Request /\ r \notin Range(S.queue) /\ r \notin S.running
      /\ r \notin S.pending /\ S.req[r].arrived /\ S.req[r].answers = 0
  BY InTransfer
<1>2. Detached(S, A, r)
  BY ZenonT(60), <1>1, DetachedShape, QuietField, DetachedQuiet
<1> HIDE DEF A
<1>3. DecShape(A) /\ DecTyped(A) /\ SameDecReq(S.req[r], A.req[r])
  BY <1>1, <1>2 DEF Detached
<1>4. /\ DecShape(B) /\ DecTyped(B)
      /\ B.queue = A.queue /\ B.pending = A.pending /\ B.transfer = A.transfer
      /\ B.published = A.published /\ B.running = A.running
      /\ B.free_buffers = A.free_buffers
      /\ B.free = A.free \union Range(A.req[r].pages)
      /\ B.req[r].pages = <<>>
      /\ B.req[r].arrived = A.req[r].arrived /\ B.req[r].len = A.req[r].len
      /\ B.req[r].prefix = A.req[r].prefix /\ B.req[r].buffer = A.req[r].buffer
      /\ B.req[r].answers = A.req[r].answers
      /\ \A q \in Request \ {r} : B.req[q] = A.req[q]
  BY <1>1, <1>3, ReleasePagesEffect
<1> HIDE DEF B
<1>5. /\ DecShape(C) /\ DecTyped(C)
      /\ C.queue = B.queue /\ C.pending = B.pending /\ C.transfer = B.transfer
      /\ C.published = B.published /\ C.running = B.running /\ C.free = B.free
      /\ C.free_buffers = B.free_buffers
      /\ C.req[r].answers = B.req[r].answers + 1
      /\ C.req[r].arrived = B.req[r].arrived /\ C.req[r].len = B.req[r].len
      /\ C.req[r].prefix = B.req[r].prefix /\ C.req[r].buffer = B.req[r].buffer
      /\ C.req[r].pages = B.req[r].pages
      /\ \A q \in Request \ {r} : C.req[q] = B.req[q]
  BY <1>1, <1>4, DecAnswerEffect
<1> HIDE DEF C
<1>6. /\ DecShape(D) /\ DecTyped(D)
      /\ D.queue = C.queue /\ D.pending = C.pending /\ D.transfer = C.transfer
      /\ D.published = C.published /\ D.running = C.running /\ D.free = C.free
      /\ Gave(C, D, r)
      /\ D.req[r].answers = C.req[r].answers
      /\ D.req[r].arrived = C.req[r].arrived /\ D.req[r].len = C.req[r].len
      /\ D.req[r].prefix = C.req[r].prefix /\ D.req[r].pages = C.req[r].pages
      /\ \A q \in Request \ {r} : D.req[q] = C.req[q]
  BY <1>1, <1>5, FreeBufferEffect
<1> HIDE DEF D
<1>7. /\ D.queue = S.queue /\ D.transfer = Removed(S.transfer, r) /\ D.running = S.running
      /\ D.pending = S.pending /\ D.published = S.published
  BY <1>2, <1>4, <1>5, <1>6 DEF Detached
<1>8. Left(S.queue, D.queue, r) /\ Left(S.transfer, D.transfer, r)
  BY <1>1, <1>7, LeftSame, LeftRemoved DEF DecInv, DecQueues
<1>9. D.free = S.free \union Range(S.req[r].pages)
  BY <1>2, <1>3, <1>4, <1>5, <1>6 DEF Detached, SameDecReq
<1>10. \A q \in Request \ {r} : SameDecReq(S.req[q], D.req[q])
  BY <1>2, <1>4, <1>5, <1>6 DEF Detached
<1>11. Gave(S, D, r)
  <2>1. C.free_buffers = S.free_buffers /\ C.req[r].buffer = S.req[r].buffer
    BY <1>2, <1>3, <1>4, <1>5 DEF Detached, SameDecReq
  <2>2. \A q \in Request \ {r} : D.req[q].buffer = S.req[q].buffer
    BY <1>10 DEF SameDecReq
  <2> QED
    BY <1>6, <2>1, <2>2 DEF Gave
<1>12. /\ D.req[r].arrived = S.req[r].arrived /\ D.req[r].len = S.req[r].len
       /\ D.req[r].prefix = S.req[r].prefix /\ D.req[r].pages = <<>>
  BY <1>3, <1>4, <1>5, <1>6 DEF SameDecReq
<1>13. D.req[r].answers = S.req[r].answers + 1
  BY <1>3, <1>4, <1>5, <1>6 DEF SameDecReq
<1>14. D.running = S.running \ {r} /\ D.pending = S.pending \ {r}
  BY <1>1, <1>7
<1>15. Gone(S, D, r)
  BY <1>6, <1>8, <1>9, <1>10, <1>11, <1>12, <1>13, <1>14 DEF Gone
<1> QED
  BY <1>0, <1>7, <1>15

(* The KV of r has arrived: it goes from the transfer queue to the running *)
(* requests and gives its buffer back.                                     *)
Committed(S, T, r) ==
    /\ DecShape(T) /\ DecTyped(T)
    /\ T.queue = S.queue /\ Left(S.transfer, T.transfer, r)
    /\ T.running = S.running \union {r} /\ T.pending = S.pending /\ T.free = S.free
    /\ Gave(S, T, r)
    /\ T.req[r].arrived = S.req[r].arrived /\ T.req[r].len = S.req[r].len
    /\ T.req[r].prefix = S.req[r].prefix /\ T.req[r].pages = S.req[r].pages
    /\ T.req[r].answers = S.req[r].answers
    /\ \A q \in Request \ {r} : SameDecReq(S.req[q], T.req[q])

LEMMA CommittedKeeps ==
  ASSUME NEW S, NEW T, NEW c \in Configs, DecInv(S, c), NEW r \in Range(S.transfer),
         Committed(S, T, r)
  PROVE  DecInv(T, c)
<1>0. /\ r \in Request /\ r \notin Range(S.queue) /\ r \notin S.running
      /\ S.req[r].arrived /\ S.req[r].answers = 0
  BY InTransfer
<1>1. DecShape(T) /\ DecTyped(T)
  BY DEF Committed
<1>2. DecQueues(T)
  BY <1>0 DEF Committed, DecInv, DecQueues, Left
<1>3. ASSUME NEW q \in Request
      PROVE  DecReqOK(T.req[q], q \in Range(T.queue), q \in Range(T.transfer),
                      q \in T.running, c.len[q], c.prefix[q])
  <2>1. DecReqOK(S.req[q], q \in Range(S.queue), q \in Range(S.transfer),
                 q \in S.running, c.len[q], c.prefix[q])
    BY DEF DecInv, DecPlaced
  <2>2. CASE q = r
    <3>1. q \notin Range(T.queue) /\ q \notin Range(T.transfer) /\ q \in T.running
      BY <2>2, <1>0 DEF Committed, Left
    <3>2. /\ T.req[q].arrived = S.req[q].arrived /\ T.req[q].len = S.req[q].len
          /\ T.req[q].prefix = S.req[q].prefix /\ T.req[q].answers = 0
          /\ T.req[q].pages = S.req[q].pages /\ S.req[q].arrived
      BY ZenonT(60), <2>2, <1>0 DEF Committed
    <3>3. T.req[q].buffer = Nil
      BY <2>2 DEF Committed, Gave
    <3> QED
      BY <2>1, <3>1, <3>2, <3>3 DEF DecReqOK
  <2>3. CASE q # r
    <3>1. SameDecReq(S.req[q], T.req[q])
      BY <2>3 DEF Committed
    <3> QED
      BY <2>1, <2>3, <3>1 DEF Committed, Left, DecReqOK, SameDecReq
  <2> QED
    BY <2>2, <2>3
<1>4. DecPages(T)
  <2>1. \A q \in Request : T.req[q].pages = S.req[q].pages
    BY <1>0 DEF Committed, SameDecReq
  <2> QED
    BY ZenonT(60), <2>1 DEF Committed, DecInv, DecPages
<1>5. FreeBuffers(T, c.buffers)
  BY <1>0, GaveKeeps, ConfigFacts DEF Committed, DecInv
<1> QED
  BY <1>1, <1>2, <1>3, <1>4, <1>5 DEF DecInv, DecPlaced

LEMMA CommitCommitted ==
  ASSUME NEW S, NEW X, NEW c, DecInv(S, c), NEW r \in Range(S.transfer), Detached(S, X, r)
  PROVE  LET T == FreeBuffer([X EXCEPT !.running = @ \union {r}], r)
         IN  Committed(S, T, r) /\ T.published = S.published
<1> DEFINE A == [X EXCEPT !.running = @ \union {r}]
           D == FreeBuffer(A, r)
<1>1. /\ r \in Request /\ r \notin Range(S.queue)
      /\ r \notin S.pending /\ S.req[r].arrived /\ S.req[r].answers = 0
  BY InTransfer
<1>2. /\ DecShape(X) /\ DecTyped(X) /\ SameDecReq(S.req[r], X.req[r])
  BY <1>1 DEF Detached
<1>3. /\ DecShape(A) /\ A.running = X.running \union {r}
      /\ A.queue = X.queue /\ A.pending = X.pending /\ A.transfer = X.transfer
      /\ A.published = X.published /\ A.free = X.free
      /\ A.free_buffers = X.free_buffers /\ A.req = X.req /\ A.status = X.status
      /\ A.outbox = X.outbox
  BY <1>2 DEF DecShape, DecFields
<1> HIDE DEF A
<1>4. DecTyped(A)
  BY <1>2, <1>3 DEF DecTyped
<1>6. /\ DecShape(D) /\ DecTyped(D)
      /\ D.queue = A.queue /\ D.pending = A.pending /\ D.transfer = A.transfer
      /\ D.published = A.published /\ D.running = A.running /\ D.free = A.free
      /\ Gave(A, D, r)
      /\ D.req[r].answers = A.req[r].answers
      /\ D.req[r].arrived = A.req[r].arrived /\ D.req[r].len = A.req[r].len
      /\ D.req[r].prefix = A.req[r].prefix /\ D.req[r].pages = A.req[r].pages
      /\ \A q \in Request \ {r} : D.req[q] = A.req[q]
  BY <1>1, <1>3, <1>4, FreeBufferEffect
<1> HIDE DEF D
<1>7. /\ D.queue = S.queue /\ D.transfer = Removed(S.transfer, r)
      /\ D.running = S.running \union {r} /\ D.pending = S.pending
      /\ D.published = S.published /\ D.free = S.free
  BY <1>3, <1>6 DEF Detached
<1>8. Left(S.transfer, D.transfer, r)
  BY <1>7, LeftRemoved DEF DecInv, DecQueues
<1>9. \A q \in Request \ {r} : SameDecReq(S.req[q], D.req[q])
  BY <1>3, <1>6 DEF Detached
<1>10. Gave(S, D, r)
  <2>1. A.free_buffers = S.free_buffers /\ A.req[r].buffer = S.req[r].buffer
    BY <1>2, <1>3 DEF Detached, SameDecReq
  <2>2. \A q \in Request \ {r} : D.req[q].buffer = S.req[q].buffer
    BY <1>9 DEF SameDecReq
  <2> QED
    BY <1>6, <2>1, <2>2 DEF Gave
<1>11. /\ D.req[r].arrived = S.req[r].arrived /\ D.req[r].len = S.req[r].len
       /\ D.req[r].prefix = S.req[r].prefix /\ D.req[r].pages = S.req[r].pages
       /\ D.req[r].answers = S.req[r].answers
  BY <1>2, <1>3, <1>6 DEF SameDecReq
<1>12. Committed(S, D, r)
  BY <1>6, <1>7, <1>8, <1>9, <1>10, <1>11 DEF Committed
<1> QED
  BY <1>7, <1>12 DEF D, A

(* pop_transferred, one entry. *)
LEMMA TransferredStep ==
  ASSUME NEW S, NEW c \in Configs, DecInv(S, c), NEW r \in Range(S.transfer)
  PROVE  LET T == TransferredOne(S, r)
         IN  /\ DecInv(T, c) /\ T.published = S.published
             /\ Range(S.transfer) \ {r} \subseteq Range(T.transfer)
<1> DEFINE T == ReceiverPolled(S, r)
           G == [T EXCEPT !.transfer = Removed(@, r)]
           X == ReceiverFailure(G, r)
           Y == ClearReceiver(G, r)
           R == TransferredOne(S, r)
           commit == FreeBuffer([Y EXCEPT !.running = @ \union {r}], r)
<1>0. /\ r \in Request /\ S.req[r].arrived /\ S.req[r].answers = 0 /\ c.buffers \in Nat
      /\ DecShape(S) /\ DecTyped(S)
  BY InTransfer, ConfigFacts DEF DecInv
<1>1. R \in {T, Drop(X, r), Drop(Y, r), commit}
  BY DEF TransferredOne
<1>2. Quiet(S, T)
  BY <1>0, QuietPolled
<1> HIDE DEF T, R
<1>3. Detached(S, G, r)
  BY <1>0, <1>2, Detach
<1> HIDE DEF G
<1>4. Detached(S, X, r) /\ Detached(S, Y, r)
  BY <1>0, <1>3, DetachedShape, DetachedQuiet, QuietFailure, QuietClear
<1> HIDE DEF X, Y
<1>5. CASE R = T
  <2>1. DecInv(T, c) /\ T.published = S.published /\ T.transfer = S.transfer
    BY <1>2, DecInvQuiet DEF Quiet
  <2> QED
    BY <1>5, <2>1 DEF R
<1>6. ASSUME NEW Z, Detached(S, Z, r), R = Drop(Z, r)
      PROVE  /\ DecInv(R, c) /\ R.published = S.published
             /\ Range(S.transfer) \ {r} \subseteq Range(R.transfer)
  <2>1. Gone(S, R, r) /\ R.published = S.published
    BY <1>6, DropGone
  <2>2. DecInv(R, c)
    BY <1>0, <2>1, GoneKeeps
  <2> QED
    BY <2>1, <2>2 DEF Gone, Left
<1>7. CASE R = commit
  <2>1. Committed(S, R, r) /\ R.published = S.published
    BY <1>4, <1>7, CommitCommitted
  <2>2. DecInv(R, c)
    BY <2>1, CommittedKeeps
  <2> QED
    BY <2>1, <2>2 DEF Committed, Left, R
<1> QED
  BY <1>1, <1>4, <1>5, <1>6, <1>7 DEF R

LEMMA TransferredLoop ==
  ASSUME NEW S, NEW c \in Configs, DecInv(S, c),
         NEW n \in Nat, NEW q, DOMAIN q = 1..n, IsInjective(q), Ahead(q, 0, n, S.transfer)
  PROVE  LET T == Transferred!Result(S, q) IN DecInv(T, c) /\ T.published = S.published
<1> DEFINE g == Transferred!States(S, q, n)
<1>2. /\ g[0] = S
      /\ \A k \in 1..n : g[k] = TransferredOne(g[k-1], q[k])
      /\ Transferred!Result(S, q) = g[n]
  BY Transferred!Loop
<1> HIDE DEF g
<1> DEFINE Q == {k \in 0..n : /\ DecInv(g[k], c) /\ g[k].published = S.published
                              /\ Ahead(q, k, n, g[k].transfer)}
<1>3. 0 \in Q
  BY <1>2
<1>4. ASSUME NEW k \in 1..n, k - 1 \in Q PROVE k \in Q
  <2>1. DecInv(g[k-1], c) /\ g[k-1].published = S.published /\ Ahead(q, k-1, n, g[k-1].transfer)
    BY <1>4
  <2>2. q[k] \in Range(g[k-1].transfer)
    BY <2>1, AheadNext
  <2>3. /\ DecInv(g[k], c) /\ g[k].published = g[k-1].published
        /\ Range(g[k-1].transfer) \ {q[k]} \subseteq Range(g[k].transfer)
    BY ZenonT(60), <1>2, <2>1, <2>2, TransferredStep
  <2>4. Ahead(q, k, n, g[k].transfer)
    BY <2>1, <2>3, AheadStep
  <2> QED
    BY <2>1, <2>3, <2>4
<1> HIDE DEF Q
<1>5. n \in Q
  <2>1. \A k \in 0..n : k \in Q
    BY ZenonT(60), <1>3, <1>4, Connect!UpTo
  <2> QED
    BY <2>1
<1> QED
  BY <1>2, <1>5 DEF Q

LEMMA PopTransferredKeeps ==
  ASSUME NEW S, NEW c \in Configs, DecInv(S, c)
  PROVE  LET T == PopTransferred(S) IN DecInv(T, c) /\ T.published = S.published
<1>1. /\ Len(S.transfer) \in Nat /\ DOMAIN S.transfer = 1..Len(S.transfer)
      /\ IsInjective(S.transfer) /\ Ahead(S.transfer, 0, Len(S.transfer), S.transfer)
  BY AheadStart DEF DecInv, DecQueues
<1>2. LET T == Transferred!Result(S, S.transfer) IN DecInv(T, c) /\ T.published = S.published
  BY <1>1, TransferredLoop
<1>3. PopTransferred(S) = Transferred!Result(S, S.transfer)
  BY DEF PopTransferred, FoldLeft, MapThenFoldSet, Transferred!Result, Transferred!FoldLeft,
         Transferred!MapThenFoldSet, Transferred!Max, Max
<1> QED
  BY <1>2, <1>3

(* A running request ends, or is aborted. *)
LEMMA FinishGone ==
  ASSUME NEW S, NEW c \in Configs, DecInv(S, c), NEW r \in S.running
  PROVE  LET T == DecodeFinish(S, r) IN DecInv(T, c) /\ T.published = S.published
<1> DEFINE A == [S EXCEPT !.running = @ \ {r}]
           B == ReleasePages(A, r)
           C == Answer(B, r)
<1>0. DecodeFinish(S, r) = C
  BY DEF DecodeFinish
<1>1. /\ r \in Request /\ r \notin Range(S.queue) /\ r \notin Range(S.transfer)
      /\ r \notin S.pending /\ S.req[r].arrived /\ S.req[r].answers = 0
      /\ S.req[r].buffer = Nil /\ DecShape(S) /\ DecTyped(S)
      /\ Distinct(S.queue, Request) /\ Distinct(S.transfer, Request)
  BY InRunning DEF DecInv, DecQueues
<1>2. /\ DecShape(A) /\ A.running = S.running \ {r}
      /\ A.queue = S.queue /\ A.pending = S.pending /\ A.transfer = S.transfer
      /\ A.published = S.published /\ A.free = S.free
      /\ A.free_buffers = S.free_buffers /\ A.req = S.req /\ A.status = S.status
      /\ A.outbox = S.outbox
  BY <1>1 DEF DecShape, DecFields
<1> HIDE DEF A
<1>3. DecTyped(A)
  BY <1>1, <1>2 DEF DecTyped
<1>4. /\ DecShape(B) /\ DecTyped(B)
      /\ B.queue = A.queue /\ B.pending = A.pending /\ B.transfer = A.transfer
      /\ B.published = A.published /\ B.running = A.running
      /\ B.free_buffers = A.free_buffers
      /\ B.free = A.free \union Range(A.req[r].pages)
      /\ B.req[r].pages = <<>>
      /\ B.req[r].arrived = A.req[r].arrived /\ B.req[r].len = A.req[r].len
      /\ B.req[r].prefix = A.req[r].prefix /\ B.req[r].buffer = A.req[r].buffer
      /\ B.req[r].answers = A.req[r].answers
      /\ \A q \in Request \ {r} : B.req[q] = A.req[q]
  BY <1>1, <1>2, <1>3, ReleasePagesEffect
<1> HIDE DEF B
<1>5. /\ DecShape(C) /\ DecTyped(C)
      /\ C.queue = B.queue /\ C.pending = B.pending /\ C.transfer = B.transfer
      /\ C.published = B.published /\ C.running = B.running /\ C.free = B.free
      /\ C.free_buffers = B.free_buffers
      /\ C.req[r].answers = B.req[r].answers + 1
      /\ C.req[r].arrived = B.req[r].arrived /\ C.req[r].len = B.req[r].len
      /\ C.req[r].prefix = B.req[r].prefix /\ C.req[r].buffer = B.req[r].buffer
      /\ C.req[r].pages = B.req[r].pages
      /\ \A q \in Request \ {r} : C.req[q] = B.req[q]
  BY <1>1, <1>4, DecAnswerEffect
<1> HIDE DEF C
<1>6. Left(S.queue, C.queue, r) /\ Left(S.transfer, C.transfer, r)
  BY <1>1, <1>2, <1>4, <1>5, LeftSame
<1>7. /\ C.running = S.running \ {r} /\ C.pending = S.pending \ {r}
      /\ C.free = S.free \union Range(S.req[r].pages) /\ C.published = S.published
  BY <1>1, <1>2, <1>4, <1>5
<1>8. \A q \in Request \ {r} : SameDecReq(S.req[q], C.req[q])
  BY <1>2, <1>4, <1>5 DEF SameDecReq
<1>9. Gave(S, C, r)
  BY <1>1, <1>2, <1>4, <1>5 DEF Gave
<1>10. /\ C.req[r].arrived = S.req[r].arrived /\ C.req[r].len = S.req[r].len
       /\ C.req[r].prefix = S.req[r].prefix /\ C.req[r].pages = <<>>
       /\ C.req[r].answers = S.req[r].answers + 1
  BY <1>2, <1>4, <1>5
<1>11. Gone(S, C, r)
  BY <1>5, <1>6, <1>7, <1>8, <1>9, <1>10 DEF Gone
<1>12. DecInv(C, c)
  BY <1>1, <1>11, GoneKeeps, ConfigFacts
<1> QED
  BY <1>0, <1>7, <1>12

LEMMA DecodeAbortKeeps ==
  ASSUME NEW S, NEW c \in Configs, DecInv(S, c), NEW r \in Request
  PROVE  LET T == DecodeAbort(S, r) IN DecInv(T, c) /\ T.published = S.published
<1>1. Quiet(S, AbortReceiver(S, r))
  BY QuietAbort DEF DecInv
<1>2. DecInv(AbortReceiver(S, r), c) /\ AbortReceiver(S, r).published = S.published
  BY <1>1, DecInvQuiet DEF Quiet
<1>3. \/ DecodeAbort(S, r) \in {S, AbortReceiver(S, r)}
      \/ r \in S.running /\ DecodeAbort(S, r) = DecodeFinish(S, r)
  BY DEF DecodeAbort, DecodeFinish
<1> QED
  BY <1>2, <1>3, FinishGone

(* DecodePreallocQueue.add. *)
Arrived(S, T, r) ==
    /\ DecShape(T) /\ DecTyped(T)
    /\ T.transfer = S.transfer /\ T.running = S.running
    /\ T.free = S.free /\ T.free_buffers = S.free_buffers
    /\ T.req[r].arrived = TRUE /\ T.req[r].len = S.req[r].len
    /\ T.req[r].prefix = S.req[r].prefix /\ T.req[r].pages = S.req[r].pages
    /\ T.req[r].buffer = S.req[r].buffer
    /\ \A q \in Request \ {r} : SameDecReq(S.req[q], T.req[q])

LEMMA ArrivedKeeps ==
  ASSUME NEW S, NEW T, NEW c \in Configs, DecInv(S, c), NEW r \in Request,
         ~S.req[r].arrived, Arrived(S, T, r),
         \/ /\ T.queue = Append(S.queue, r) /\ T.pending \subseteq S.pending \union {r}
            /\ T.req[r].answers = 0
         \/ T.queue = S.queue /\ T.pending = S.pending /\ T.req[r].answers = 1
  PROVE  DecInv(T, c)
<1>0. /\ r \notin Range(S.queue) /\ r \notin Range(S.transfer) /\ r \notin S.running
      /\ S.req[r].answers = 0 /\ S.req[r].buffer = Nil /\ S.req[r].pages = <<>>
  BY DEF DecInv, DecPlaced, DecReqOK
<1>1. DecShape(T) /\ DecTyped(T)
  BY DEF Arrived
<1>2. /\ Distinct(T.queue, Request)
      /\ \/ /\ T.req[r].answers = 0 /\ Range(T.queue) = Range(S.queue) \union {r}
            /\ T.pending \subseteq S.pending \union {r}
         \/ /\ T.req[r].answers = 1 /\ Range(T.queue) = Range(S.queue)
            /\ T.pending = S.pending
  <2>1. Distinct(S.queue, Request)
    BY DEF DecInv, DecQueues
  <2>2. /\ Distinct(Append(S.queue, r), Request)
        /\ Range(Append(S.queue, r)) = Range(S.queue) \union {r}
    BY <1>0, <2>1, DistinctAppend
  <2> DEFINE longer == Append(S.queue, r)
  <2> HIDE DEF longer
  <2>3. CASE T.queue = longer /\ T.pending \subseteq S.pending \union {r} /\ T.req[r].answers = 0
    BY <2>2, <2>3 DEF longer
  <2>4. CASE T.queue = S.queue /\ T.pending = S.pending /\ T.req[r].answers = 1
    BY <2>1, <2>4
  <2> QED
    BY <2>3, <2>4 DEF longer
<1>3. DecQueues(T)
  BY <1>2 DEF DecInv, DecQueues, Arrived
<1>4. ASSUME NEW q \in Request
      PROVE  DecReqOK(T.req[q], q \in Range(T.queue), q \in Range(T.transfer),
                      q \in T.running, c.len[q], c.prefix[q])
  <2>1. DecReqOK(S.req[q], q \in Range(S.queue), q \in Range(S.transfer),
                 q \in S.running, c.len[q], c.prefix[q])
    BY DEF DecInv, DecPlaced
  <2>2. CASE q = r
    <3>1. q \notin Range(T.transfer) /\ q \notin T.running
      BY <2>2, <1>0 DEF Arrived
    <3>2. \/ T.req[q].answers = 0 /\ q \in Range(T.queue)
          \/ T.req[q].answers = 1 /\ q \notin Range(T.queue)
      BY <2>2, <1>0, <1>2
    <3>3. /\ T.req[q].arrived = TRUE /\ T.req[q].len = S.req[q].len
          /\ T.req[q].prefix = S.req[q].prefix /\ T.req[q].pages = <<>>
          /\ T.req[q].buffer = Nil /\ S.req[q].pages = <<>>
      BY <2>2, <1>0 DEF Arrived
    <3>4. S.req[q].len = c.len[q] /\ S.req[q].prefix = c.prefix[q] /\ <<>> \in Seq(Page)
      BY <2>1 DEF DecReqOK
    <3>5. CASE T.req[q].answers = 0 /\ q \in Range(T.queue)
      BY ZenonT(60), <3>1, <3>3, <3>4, <3>5 DEF DecReqOK
    <3>6. CASE T.req[q].answers = 1 /\ q \notin Range(T.queue)
      <4>1. T.req[q].answers # 0
        BY <3>6
      <4>2. T.req[q].arrived /\ T.req[q].arrived \in BOOLEAN
        BY ZenonT(60), <3>3
      <4> QED
        BY <3>1, <3>3, <3>4, <3>6, <4>1, <4>2 DEF DecReqOK
    <3> QED
      BY <3>2, <3>5, <3>6
  <2>3. CASE q # r
    <3>1. SameDecReq(S.req[q], T.req[q])
      BY <2>3 DEF Arrived
    <3>2. q \in Range(T.queue) <=> q \in Range(S.queue)
      BY <2>3, <1>2
    <3> QED
      BY <2>1, <3>1, <3>2 DEF Arrived, DecReqOK, SameDecReq
  <2> QED
    BY <2>2, <2>3
<1>5. DecPages(T)
  <2>1. \A q \in Request : T.req[q].pages = S.req[q].pages
    BY DEF Arrived, SameDecReq
  <2> QED
    BY ZenonT(60), <2>1 DEF Arrived, DecInv, DecPages
<1>6. FreeBuffers(T, c.buffers)
  BY SameBuffersKeep DEF Arrived, DecInv, SameBuffers, SameDecReq
<1> QED
  BY <1>1, <1>3, <1>4, <1>5, <1>6 DEF DecInv, DecPlaced

LEMMA TooLongKeeps ==
  ASSUME NEW S, NEW c \in Configs, DecInv(S, c), NEW r \in Request, ~S.req[r].arrived
  PROVE  LET T == Answer([S EXCEPT !.req[r].arrived = TRUE, !.req[r].aborted = TRUE], r)
         IN  DecInv(T, c) /\ T.published = S.published
<1> DEFINE A == [S EXCEPT !.req[r].arrived = TRUE]
           B == [A EXCEPT !.req[r].aborted = TRUE]
           T == Answer(B, r)
<1>0. Answer([S EXCEPT !.req[r].arrived = TRUE, !.req[r].aborted = TRUE], r) = T
  OBVIOUS
<1>1. DecShape(S) /\ DecTyped(S) /\ S.req[r].answers = 0
  BY DEF DecInv, DecPlaced, DecReqOK
<1>2. /\ DecShape(A)
      /\ A.queue = S.queue /\ A.pending = S.pending /\ A.transfer = S.transfer
      /\ A.published = S.published /\ A.running = S.running /\ A.free = S.free
      /\ A.free_buffers = S.free_buffers /\ A.status = S.status /\ A.outbox = S.outbox
      /\ A.req = [S.req EXCEPT ![r] = [S.req[r] EXCEPT !.arrived = TRUE]]
  BY <1>1 DEF DecShape, DecFields, DecReqFields
<1> HIDE DEF A
<1>3. /\ A.req[r].arrived = TRUE /\ A.req[r].len = S.req[r].len
      /\ A.req[r].prefix = S.req[r].prefix /\ A.req[r].pages = S.req[r].pages
      /\ A.req[r].buffer = S.req[r].buffer /\ A.req[r].answers = S.req[r].answers
      /\ A.req[r].conclude = S.req[r].conclude
      /\ A.req[r].waiting_for_input = S.req[r].waiting_for_input
      /\ \A q \in Request \ {r} : A.req[q] = S.req[q]
  BY <1>1, <1>2 DEF DecShape, DecReqFields
<1>4. DecTyped(A)
  BY <1>1, <1>2, <1>3 DEF DecTyped
<1>5. Quiet(A, B)
  BY ZenonT(60), <1>2, QuietField
<1> HIDE DEF B
<1>6. /\ DecShape(B) /\ DecTyped(B)
      /\ B.queue = A.queue /\ B.pending = A.pending /\ B.transfer = A.transfer
      /\ B.published = A.published /\ B.running = A.running /\ B.free = A.free
      /\ B.free_buffers = A.free_buffers
      /\ \A q \in Request : SameDecReq(A.req[q], B.req[q])
  BY <1>4, <1>5 DEF Quiet
<1>7. /\ DecShape(T) /\ DecTyped(T)
      /\ T.queue = B.queue /\ T.pending = B.pending /\ T.transfer = B.transfer
      /\ T.published = B.published /\ T.running = B.running /\ T.free = B.free
      /\ T.free_buffers = B.free_buffers
      /\ T.req[r].answers = B.req[r].answers + 1
      /\ T.req[r].arrived = B.req[r].arrived /\ T.req[r].len = B.req[r].len
      /\ T.req[r].prefix = B.req[r].prefix /\ T.req[r].buffer = B.req[r].buffer
      /\ T.req[r].pages = B.req[r].pages
      /\ \A q \in Request \ {r} : T.req[q] = B.req[q]
  BY <1>6, DecAnswerEffect
<1> HIDE DEF T
<1>8. T.req[r].answers = 1
  BY <1>1, <1>3, <1>6, <1>7 DEF SameDecReq
<1>9. /\ T.req[r].arrived = TRUE /\ T.req[r].len = S.req[r].len
      /\ T.req[r].prefix = S.req[r].prefix /\ T.req[r].buffer = S.req[r].buffer
      /\ T.req[r].pages = S.req[r].pages
  BY <1>3, <1>6, <1>7 DEF SameDecReq
<1>10. \A q \in Request \ {r} : SameDecReq(S.req[q], T.req[q])
  BY <1>3, <1>6, <1>7 DEF SameDecReq
<1>11. /\ T.queue = S.queue /\ T.pending = S.pending /\ T.transfer = S.transfer
       /\ T.published = S.published /\ T.running = S.running
       /\ T.free = S.free /\ T.free_buffers = S.free_buffers
  BY <1>2, <1>6, <1>7
<1>12. Arrived(S, T, r)
  BY <1>7, <1>9, <1>10, <1>11 DEF Arrived
<1>13. DecInv(T, c)
  BY <1>8, <1>11, <1>12, ArrivedKeeps
<1> QED
  BY <1>0, <1>11, <1>13

LEMMA DecodeReceiveKeeps ==
  ASSUME NEW S, NEW c \in Configs, DecInv(S, c), NEW r \in Request, ~S.req[r].arrived,
         NEW resolved
  PROVE  LET T == DecodeReceive(S, r, resolved) IN DecInv(T, c) /\ T.published = S.published
<1> DEFINE A == UpdateStatus(S, r, Bootstrapping)
           B == [A EXCEPT !.req[r].arrived = TRUE]
           C == [B EXCEPT !.queue = Append(@, r)]
           D == [C EXCEPT !.pending = @ \union {r}]
           L == Answer([S EXCEPT !.req[r].arrived = TRUE, !.req[r].aborted = TRUE], r)
           R == DecodeReceive(S, r, resolved)
<1>0. R \in {L, InitReceiver(C, r), D}
  BY DEF DecodeReceive
<1>1. DecShape(S) /\ DecTyped(S) /\ S.req[r].answers = 0
  BY DEF DecInv, DecPlaced, DecReqOK
<1>2. Quiet(S, A)
  BY <1>1, QuietStatus, PollStates DEF Bootstrapping, WaitingForInput
<1> HIDE DEF A, L, R
<1>3. /\ DecShape(A) /\ DecTyped(A)
      /\ A.queue = S.queue /\ A.pending = S.pending /\ A.transfer = S.transfer
      /\ A.published = S.published /\ A.running = S.running /\ A.free = S.free
      /\ A.free_buffers = S.free_buffers
      /\ \A q \in Request : SameDecReq(S.req[q], A.req[q])
  BY <1>1, <1>2 DEF Quiet
<1>4. /\ DecShape(B)
      /\ B.queue = A.queue /\ B.pending = A.pending /\ B.transfer = A.transfer
      /\ B.published = A.published /\ B.running = A.running /\ B.free = A.free
      /\ B.free_buffers = A.free_buffers /\ B.status = A.status /\ B.outbox = A.outbox
      /\ B.req = [A.req EXCEPT ![r] = [A.req[r] EXCEPT !.arrived = TRUE]]
  BY <1>3 DEF DecShape, DecFields, DecReqFields
<1> HIDE DEF B
<1>5. /\ B.req[r].arrived = TRUE /\ B.req[r].len = A.req[r].len
      /\ B.req[r].prefix = A.req[r].prefix /\ B.req[r].pages = A.req[r].pages
      /\ B.req[r].buffer = A.req[r].buffer /\ B.req[r].answers = A.req[r].answers
      /\ B.req[r].conclude = A.req[r].conclude
      /\ B.req[r].waiting_for_input = A.req[r].waiting_for_input
      /\ \A q \in Request \ {r} : B.req[q] = A.req[q]
  BY <1>3, <1>4 DEF DecShape, DecReqFields
<1>6. DecTyped(B)
  BY <1>3, <1>4, <1>5 DEF DecTyped
<1>7. /\ DecShape(C) /\ C.queue = Append(B.queue, r)
      /\ C.pending = B.pending /\ C.transfer = B.transfer /\ C.published = B.published
      /\ C.running = B.running /\ C.free = B.free /\ C.free_buffers = B.free_buffers
      /\ C.req = B.req /\ C.status = B.status /\ C.outbox = B.outbox
  BY <1>4 DEF DecShape, DecFields
<1> HIDE DEF C
<1>8. DecTyped(C)
  BY <1>6, <1>7 DEF DecTyped
<1>9. /\ C.req[r].arrived = TRUE /\ C.req[r].len = S.req[r].len
      /\ C.req[r].prefix = S.req[r].prefix /\ C.req[r].pages = S.req[r].pages
      /\ C.req[r].buffer = S.req[r].buffer /\ C.req[r].answers = 0
      /\ \A q \in Request \ {r} : SameDecReq(S.req[q], C.req[q])
  <2>1. SameDecReq(S.req[r], A.req[r]) /\ C.req = B.req
    BY <1>3, <1>7
  <2>2. /\ C.req[r].arrived = TRUE /\ C.req[r].len = S.req[r].len
        /\ C.req[r].prefix = S.req[r].prefix /\ C.req[r].pages = S.req[r].pages
        /\ C.req[r].buffer = S.req[r].buffer
    BY <1>5, <2>1 DEF SameDecReq
  <2>3. C.req[r].answers = 0
    BY <1>1, <1>5, <2>1 DEF SameDecReq
  <2> QED
    BY <1>3, <1>5, <2>1, <2>2, <2>3
<1>10. /\ C.queue = Append(S.queue, r) /\ C.pending = S.pending /\ C.transfer = S.transfer
       /\ C.published = S.published /\ C.running = S.running
       /\ C.free = S.free /\ C.free_buffers = S.free_buffers
  BY <1>3, <1>4, <1>7
<1>11. Arrived(S, C, r)
  BY <1>7, <1>8, <1>9, <1>10 DEF Arrived
<1>12. DecInv(C, c)
  BY <1>9, <1>10, <1>11, ArrivedKeeps
<1>13. DecInv(InitReceiver(C, r), c) /\ InitReceiver(C, r).published = S.published
  <2>1. Settled(C, InitReceiver(C, r))
    BY <1>7, <1>9, SettledInit
  <2> QED
    BY ZenonT(60), <1>10, <1>12, <2>1, DecInvSettled DEF Settled
<1>14. DecInv(D, c) /\ D.published = S.published
  <2>1. /\ DecShape(D) /\ D.pending = C.pending \union {r}
        /\ D.queue = C.queue /\ D.transfer = C.transfer /\ D.published = C.published
        /\ D.running = C.running /\ D.free = C.free /\ D.free_buffers = C.free_buffers
        /\ D.req = C.req /\ D.status = C.status /\ D.outbox = C.outbox
    BY <1>7 DEF DecShape, DecFields
  <2> HIDE DEF D
  <2>2. ~C.req[r].waiting_for_input /\ C.status[r] # WaitingForInput
    <3>1. ~A.req[r].arrived
      BY <1>3 DEF SameDecReq
    <3>2. ~A.req[r].waiting_for_input /\ A.status[r] # WaitingForInput
      BY <1>3, <3>1 DEF DecTyped
    <3> QED
      BY <3>2, <1>4, <1>5, <1>7
  <2>3. DecTyped(D)
    BY <1>8, <2>1, <2>2 DEF DecTyped
  <2>4. Arrived(S, D, r)
    BY <1>9, <1>10, <2>1, <2>3 DEF Arrived
  <2>5. D.queue = Append(S.queue, r) /\ D.pending \subseteq S.pending \union {r}
        /\ D.req[r].answers = 0
    BY <1>9, <1>10, <2>1
  <2>6. DecInv(D, c)
    BY <2>4, <2>5, ArrivedKeeps
  <2> QED
    BY <1>10, <2>1, <2>6
<1>15. DecInv(L, c) /\ L.published = S.published
  BY ZenonT(60), TooLongKeeps DEF L
<1> QED
  BY ZenonT(60), <1>0, <1>13, <1>14, <1>15 DEF R

(* What the other threads do to the record. *)
LEMMA QuietThreads ==
  ASSUME NEW S, DecShape(S), NEW v, NEW b
  PROVE  /\ Quiet(S, [S EXCEPT !.overdue = v])
         /\ Quiet(S, [S EXCEPT !.landed[b] = v])
BY DEF Quiet, DecShape, DecTyped, SameDecReq, DecFields

LEMMA QuietTail ==
  ASSUME NEW S, DecShape(S), S.outbox # <<>>
  PROVE  Quiet(S, [S EXCEPT !.outbox = Tail(@)])
<1> DEFINE T == [S EXCEPT !.outbox = Tail(@)]
<1>1. /\ DecShape(T) /\ T.outbox = Tail(S.outbox)
      /\ T.queue = S.queue /\ T.pending = S.pending /\ T.transfer = S.transfer
      /\ T.published = S.published /\ T.running = S.running /\ T.free = S.free
      /\ T.free_buffers = S.free_buffers /\ T.req = S.req /\ T.status = S.status
  BY DEF DecShape, DecFields
<1> HIDE DEF T
<1>2. DecTyped(S) => DecTyped(T)
  BY <1>1 DEF DecTyped
<1>3. Quiet(S, T)
  BY <1>1, <1>2 DEF Quiet, SameDecReq
<1> QED
  BY <1>3 DEF T

(* The initial record. *)
LEMMA DecInitInv ==
  ASSUME NEW c \in Configs
  PROVE  DecInv(DecodeInit(c), c) /\ DecodeInit(c).published = 0
<1> DEFINE S == DecodeInit(c)
<1>1. /\ DOMAIN S = DecFields /\ S.queue = <<>> /\ S.pending = {} /\ S.transfer = <<>>
      /\ S.published = 0 /\ S.running = {} /\ S.free = Page
      /\ S.free_buffers = [i \in 1 .. c.buffers |-> i]
      /\ S.status = [r \in Request |-> Absent] /\ S.outbox = <<>>
      /\ S.req = [r \in Request |-> NewDecodeReq(c, r)]
  BY DEF DecodeInit, DecFields
<1> HIDE DEF S
<1>2. \A r \in Request : /\ DOMAIN S.req[r] = DecReqFields
                         /\ ~S.req[r].arrived /\ S.req[r].arrived \in BOOLEAN
                         /\ S.req[r].len = c.len[r] /\ S.req[r].prefix = c.prefix[r]
                         /\ ~S.req[r].waiting_for_input /\ S.req[r].conclude = Nil
                         /\ S.req[r].pages = <<>> /\ S.req[r].buffer = Nil
                         /\ S.req[r].answers = 0
  <2> SUFFICES ASSUME NEW r \in Request
               PROVE  /\ DOMAIN S.req[r] = DecReqFields
                      /\ ~S.req[r].arrived /\ S.req[r].arrived \in BOOLEAN
                      /\ S.req[r].len = c.len[r] /\ S.req[r].prefix = c.prefix[r]
                      /\ ~S.req[r].waiting_for_input /\ S.req[r].conclude = Nil
                      /\ S.req[r].pages = <<>> /\ S.req[r].buffer = Nil
                      /\ S.req[r].answers = 0
    OBVIOUS
  <2>1. S.req[r] = NewDecodeReq(c, r)
    BY <1>1
  <2>2. DOMAIN NewDecodeReq(c, r) = DecReqFields
    BY DEF NewDecodeReq, DecReqFields
  <2> QED
    BY <2>1, <2>2 DEF NewDecodeReq
<1>3. DecShape(S)
  BY <1>1, <1>2 DEF DecShape
<1>4. DecTyped(S)
  BY <1>1, <1>2, StatusOfKVPoll, PollsDiffer DEF DecTyped, Absent, WaitingForInput
<1>5. DecQueues(S)
  BY <1>1, DistinctEmpty DEF DecQueues
<1>6. Range(<<>>) = {} /\ <<>> \in Seq(Page)
  BY DistinctEmpty
<1>7. DecPlaced(S, c)
  BY ZenonT(60), <1>1, <1>2, <1>6 DEF DecPlaced, DecReqOK
<1>8. DecPages(S)
  BY <1>1, <1>2, <1>6 DEF DecPages
<1>9. FreeBuffers(S, c.buffers)
  BY <1>1, <1>2, FreshBuffers, ConfigFacts
<1> QED
  BY <1>1, <1>3, <1>4, <1>5, <1>7, <1>8, <1>9 DEF DecInv, S

-----------------------------------------------------------------------------
(* The prefill instance. *)

PreFields ==
    {"bootstrap", "waiting", "inflight", "chunked", "abort_chunked", "batch", "last_batch",
     "pending_chunks", "req", "free_buffers", "metadata", "status", "infos", "prefix_len",
     "outstanding", "transfers", "overdue"}

PreReqFields ==
    {"arrived", "len", "kv", "end", "computed", "chunks", "pending_bootstrap", "attempts",
     "aborted", "send_from", "send_to", "buffer", "conclude", "sent", "to_send", "answers",
     "abort_asked"}

PreShape(S) ==
    /\ DOMAIN S = PreFields
    /\ DOMAIN S.req = Request
    /\ \A r \in Request : DOMAIN S.req[r] = PreReqFields

(* A queue of records, each of the room of a request. *)
Rooms(q) == \E X : q \in Seq(X) /\ \A x \in X : x.room \in Request

LEMMA RoomsEmpty == Rooms(<<>>)
<1>1. <<>> \in Seq(Request \ Request) /\ \A x \in Request \ Request : x.room \in Request
  OBVIOUS
<1> QED
  BY <1>1, ZenonT(60) DEF Rooms

LEMMA RoomsAppend ==
  ASSUME NEW q, Rooms(q), NEW x, x.room \in Request
  PROVE  Rooms(Append(q, x))
<1>1. PICK X : q \in Seq(X) /\ \A y \in X : y.room \in Request
  BY DEF Rooms
<1> DEFINE Y == X \union {x}
<1>2. \A y \in Y : y.room \in Request
  BY <1>1
<1>3. q \in Seq(Y) /\ x \in Y
  <2>1. X \subseteq Y
    OBVIOUS
  <2>2. x \in Y
    OBVIOUS
  <2> HIDE DEF Y
  <2> QED
    BY <1>1, <2>1, <2>2, SeqMonotonic
<1> HIDE DEF Y
<1>4. Append(q, x) \in Seq(Y)
  BY <1>3, AppendProperties
<1> QED
  BY <1>2, <1>4 DEF Rooms

LEMMA RoomsTail ==
  ASSUME NEW q, Rooms(q), q # <<>>
  PROVE  Head(q).room \in Request /\ Rooms(Tail(q))
<1>1. PICK X : q \in Seq(X) /\ \A y \in X : y.room \in Request
  BY DEF Rooms
<1>2. Head(q) \in X /\ Tail(q) \in Seq(X)
  BY <1>1
<1> QED
  BY <1>1, <1>2 DEF Rooms

PreTyped(S) == S.status \in [Request -> Status] /\ Rooms(S.transfers)

(* T differs from S in nothing that says where a request is, how far it is *)
(* or what it holds; a sender that has failed stays failed.                *)
SamePreReq(x, y) ==
    /\ y.arrived = x.arrived /\ y.len = x.len /\ y.kv = x.kv /\ y.end = x.end
    /\ y.chunks = x.chunks /\ y.pending_bootstrap = x.pending_bootstrap
    /\ y.aborted = x.aborted /\ y.buffer = x.buffer /\ y.answers = x.answers
    /\ x.conclude = Failed => y.conclude = Failed

SamePlaces(S, T) ==
    /\ T.bootstrap = S.bootstrap /\ T.waiting = S.waiting /\ T.inflight = S.inflight
    /\ T.chunked = S.chunked /\ T.abort_chunked = S.abort_chunked
    /\ T.batch = S.batch /\ T.last_batch = S.last_batch

Still(S, T) ==
    /\ PreShape(T)
    /\ PreTyped(S) => PreTyped(T)
    /\ SamePlaces(S, T) /\ T.free_buffers = S.free_buffers
    /\ \A r \in Request : SamePreReq(S.req[r], T.req[r])

LEMMA StillSame == ASSUME NEW S, PreShape(S) PROVE Still(S, S)
BY DEF Still, SamePreReq, SamePlaces

LEMMA StillShape == ASSUME NEW S, NEW T, Still(S, T) PROVE PreShape(T)
BY DEF Still

LEMMA StillTrans ==
  ASSUME NEW S, NEW T, NEW U, Still(S, T), Still(T, U)
  PROVE  Still(S, U)
BY DEF Still, SamePreReq, SamePlaces

LEMMA StillStatus ==
  ASSUME NEW S, PreShape(S), NEW r \in Request, NEW new \in KVPoll
  PROVE  Still(S, UpdateStatus(S, r, new))
<1> DEFINE T == UpdateStatus(S, r, new)
<1>1. /\ PreShape(T) /\ T.req = S.req
      /\ T.bootstrap = S.bootstrap /\ T.waiting = S.waiting /\ T.inflight = S.inflight
      /\ T.chunked = S.chunked /\ T.abort_chunked = S.abort_chunked
      /\ T.batch = S.batch /\ T.last_batch = S.last_batch
      /\ T.free_buffers = S.free_buffers /\ T.transfers = S.transfers
      /\ T.status = [S.status EXCEPT ![r] = Updated(@, new)]
  BY DEF UpdateStatus, PreShape, PreFields
<1> HIDE DEF T
<1>2. ASSUME PreTyped(S) PROVE PreTyped(T)
  <2>1. Updated(S.status[r], new) \in Status
    BY <1>2, UpdatedStatus DEF PreTyped
  <2> QED
    BY <1>1, <1>2, <2>1 DEF PreTyped
<1>3. Still(S, T)
  BY <1>1, <1>2 DEF Still, SamePreReq, SamePlaces
<1> QED
  BY <1>3 DEF T

(* A field of a request, or a table of the manager, that says nothing of   *)
(* where a request is.                                                     *)
LEMMA StillField ==
  ASSUME NEW S, PreShape(S), NEW r \in Request, NEW v
  PROVE  /\ Still(S, [S EXCEPT !.req[r].computed = v])
         /\ Still(S, [S EXCEPT !.req[r].attempts = v])
         /\ Still(S, [S EXCEPT !.req[r].send_from = v])
         /\ Still(S, [S EXCEPT !.req[r].send_to = v])
         /\ Still(S, [S EXCEPT !.req[r].sent = v])
         /\ Still(S, [S EXCEPT !.req[r].to_send = v])
         /\ Still(S, [S EXCEPT !.req[r].abort_asked = v])
<1>1. Still(S, [S EXCEPT !.req[r].computed = v])
  BY DEF Still, PreShape, PreTyped, SamePreReq, SamePlaces, PreFields, PreReqFields
<1>2. Still(S, [S EXCEPT !.req[r].attempts = v])
  BY DEF Still, PreShape, PreTyped, SamePreReq, SamePlaces, PreFields, PreReqFields
<1>3. Still(S, [S EXCEPT !.req[r].send_from = v])
  BY DEF Still, PreShape, PreTyped, SamePreReq, SamePlaces, PreFields, PreReqFields
<1>4. Still(S, [S EXCEPT !.req[r].send_to = v])
  BY DEF Still, PreShape, PreTyped, SamePreReq, SamePlaces, PreFields, PreReqFields
<1>5. Still(S, [S EXCEPT !.req[r].sent = v])
  BY DEF Still, PreShape, PreTyped, SamePreReq, SamePlaces, PreFields, PreReqFields
<1>6. Still(S, [S EXCEPT !.req[r].to_send = v])
  BY DEF Still, PreShape, PreTyped, SamePreReq, SamePlaces, PreFields, PreReqFields
<1>7. Still(S, [S EXCEPT !.req[r].abort_asked = v])
  BY DEF Still, PreShape, PreTyped, SamePreReq, SamePlaces, PreFields, PreReqFields
<1> QED
  BY <1>1, <1>2, <1>3, <1>4, <1>5, <1>6, <1>7

LEMMA StillConclude ==
  ASSUME NEW S, PreShape(S), NEW r \in Request, NEW v, S.req[r].conclude = Failed => v = Failed
  PROVE  Still(S, [S EXCEPT !.req[r].conclude = v])
BY DEF Still, PreShape, PreTyped, SamePreReq, SamePlaces, PreFields, PreReqFields

LEMMA StillTable ==
  ASSUME NEW S, PreShape(S), NEW v
  PROVE  /\ Still(S, [S EXCEPT !.pending_chunks = v])
         /\ Still(S, [S EXCEPT !.metadata = v])
         /\ Still(S, [S EXCEPT !.infos = v])
         /\ Still(S, [S EXCEPT !.prefix_len = v])
         /\ Still(S, [S EXCEPT !.outstanding = v])
         /\ Still(S, [S EXCEPT !.overdue = v])
<1>1. Still(S, [S EXCEPT !.pending_chunks = v])
  BY DEF Still, PreShape, PreTyped, SamePreReq, SamePlaces, PreFields
<1>2. Still(S, [S EXCEPT !.metadata = v])
  BY DEF Still, PreShape, PreTyped, SamePreReq, SamePlaces, PreFields
<1>3. Still(S, [S EXCEPT !.infos = v])
  BY DEF Still, PreShape, PreTyped, SamePreReq, SamePlaces, PreFields
<1>4. Still(S, [S EXCEPT !.prefix_len = v])
  BY DEF Still, PreShape, PreTyped, SamePreReq, SamePlaces, PreFields
<1>5. Still(S, [S EXCEPT !.outstanding = v])
  BY DEF Still, PreShape, PreTyped, SamePreReq, SamePlaces, PreFields
<1>6. Still(S, [S EXCEPT !.overdue = v])
  BY DEF Still, PreShape, PreTyped, SamePreReq, SamePlaces, PreFields
<1> QED
  BY <1>1, <1>2, <1>3, <1>4, <1>5, <1>6

LEMMA StillTransfers ==
  ASSUME NEW S, PreShape(S), NEW v, Rooms(S.transfers) => Rooms(v)
  PROVE  Still(S, [S EXCEPT !.transfers = v])
BY DEF Still, PreShape, PreTyped, SamePreReq, SamePlaces, PreFields

(* The sender and the tables of its manager. *)
LEMMA StillPolled ==
  ASSUME NEW S, PreShape(S), NEW r \in Request
  PROVE  Still(S, Polled(S, r))
<1> DEFINE v == PollValue(S, r)
           U == UpdateStatus(S, r, Failed)
           C == [S EXCEPT !.req[r].conclude = v]
<1>1. Still(S, U)
  BY StillStatus, PollsDiffer
<1>2. Polled(S, r) \in {S, U} \/ (S.req[r].conclude = Nil /\ Polled(S, r) = C)
  BY DEF Polled
<1>3. Nil # Failed
  BY DEF Nil, Failed
<1> HIDE DEF v
<1>4. S.req[r].conclude = Nil => Still(S, C)
  BY <1>3, StillConclude
<1> QED
  BY <1>1, <1>2, <1>4, StillSame

LEMMA StillClearRoom ==
  ASSUME NEW S, PreShape(S), NEW r \in Request
  PROVE  Still(S, ClearRoom(S, r))
<1> DEFINE T == ClearRoom(S, r)
<1>1. /\ PreShape(T) /\ T.req = S.req
      /\ T.bootstrap = S.bootstrap /\ T.waiting = S.waiting /\ T.inflight = S.inflight
      /\ T.chunked = S.chunked /\ T.abort_chunked = S.abort_chunked
      /\ T.batch = S.batch /\ T.last_batch = S.last_batch
      /\ T.free_buffers = S.free_buffers /\ T.transfers = S.transfers
      /\ T.status = [S.status EXCEPT ![r] = Absent]
  BY DEF ClearRoom, PreShape, PreFields
<1> HIDE DEF T
<1>2. PreTyped(S) => PreTyped(T)
  BY <1>1, StatusOfKVPoll DEF PreTyped
<1>3. Still(S, T)
  BY <1>1, <1>2 DEF Still, SamePreReq, SamePlaces
<1> QED
  BY <1>3 DEF T

LEMMA StillFailureException ==
  ASSUME NEW S, PreShape(S), NEW r \in Request
  PROVE  Still(S, FailureException(S, r))
<1> DEFINE v == IF S.req[r].conclude = Nil THEN Failed ELSE S.req[r].conclude
           T == [S EXCEPT !.req[r].conclude = v]
<1>1. FailureException(S, r) = ClearRoom(T, r)
  BY DEF FailureException
<1>2. S.req[r].conclude = Failed => v = Failed
  OBVIOUS
<1> HIDE DEF v
<1>3. Still(S, T)
  BY <1>2, StillConclude
<1> HIDE DEF T
<1> QED
  BY <1>1, <1>3, StillClearRoom, StillTrans, StillShape

LEMMA StillAbortSender ==
  ASSUME NEW S, PreShape(S), NEW r \in Request
  PROVE  Still(S, AbortSender(S, r)) /\ AbortSender(S, r).req[r].conclude = Failed
<1> DEFINE U == UpdateStatus(S, r, Failed)
           T == [U EXCEPT !.req[r].conclude = Failed]
<1>1. AbortSender(S, r) = T
  BY DEF AbortSender
<1>2. Still(S, U)
  BY StillStatus, PollsDiffer
<1> HIDE DEF U
<1>3. Still(U, T) /\ PreShape(U)
  BY <1>2, StillConclude, StillShape
<1>4. T.req[r].conclude = Failed
  BY <1>3 DEF PreShape, PreFields, PreReqFields
<1> HIDE DEF T
<1> QED
  BY <1>1, <1>2, <1>3, <1>4, StillTrans

LEMMA StillSend ==
  ASSUME NEW S, PreShape(S), NEW r \in Request, NEW first, NEW pages
  PROVE  Still(S, Send(S, r, first, pages))
<1> DEFINE at == S.req[r].sent
           v  == at + pages
           U  == [S EXCEPT !.req[r].sent = v]
           x  == [room |-> r, first |-> first, at |-> at, pages |-> pages,
                  last |-> at + pages = S.req[r].to_send, buffer |-> S.req[r].buffer]
           T  == [U EXCEPT !.transfers = Append(@, x)]
<1>1. Send(S, r, first, pages) \in {U, T}
  BY DEF Send
<1>2. x.room \in Request
  OBVIOUS
<1> HIDE DEF v, x
<1>3. Still(S, U)
  BY ZenonT(60), StillField
<1> HIDE DEF U
<1>4. Still(U, T)
  BY ZenonT(60), <1>2, <1>3, StillTransfers, StillShape, RoomsAppend
<1> HIDE DEF T
<1> QED
  BY <1>1, <1>3, <1>4, StillTrans

LEMMA StillSendKVChunk ==
  ASSUME NEW S, PreShape(S), NEW r \in Request, NEW last_chunk \in BOOLEAN, NEW upto
  PROVE  Still(S, SendKVChunk(S, r, last_chunk, upto))
<1> DEFINE from  == S.req[r].send_from
           end   == IF last_chunk THEN upto ELSE upto - (upto % PageSize)
           pages == PagesOf(end) - (from \div PageSize)
           m     == [S.metadata EXCEPT ![S.req[r].buffer] = r]
           ready == IF last_chunk THEN [S EXCEPT !.metadata = m] ELSE S
           sent  == IF pages > 0 \/ last_chunk
                    THEN Send(ready, r, from \div PageSize, pages) ELSE ready
           moved == [sent EXCEPT !.req[r].send_from = end]
           p     == IF last_chunk THEN moved.pending_chunks \ {r}
                    ELSE moved.pending_chunks \union {r}
           T     == [moved EXCEPT !.pending_chunks = p]
<1>1. Still(S, ready)
  <2> HIDE DEF m
  <2> QED
    BY ZenonT(60), StillTable, StillSame
<1>2. Still(S, sent)
  <2> HIDE DEF ready, pages, end
  <2> QED
    BY <1>1, StillSend, StillTrans, StillShape
<1>3. Still(S, moved)
  <2> HIDE DEF sent, end
  <2> QED
    BY ZenonT(60), <1>2, StillField, StillTrans, StillShape
<1>4. Still(S, T)
  <2> HIDE DEF moved, p
  <2> QED
    BY ZenonT(60), <1>3, StillTable, StillTrans, StillShape
<1>5. SendKVChunk(S, r, last_chunk, upto) = IF end < from THEN S ELSE T
  <2>1. ready = IF last_chunk THEN [S EXCEPT !.metadata[S.req[r].buffer] = r] ELSE S
    OBVIOUS
  <2> DEFINE N == [sent EXCEPT !.req[r].send_from = end,
                     !.pending_chunks = IF last_chunk THEN @ \ {r} ELSE @ \union {r}]
  <2>2. SendKVChunk(S, r, last_chunk, upto) = IF end < from THEN S ELSE N
    BY DEF SendKVChunk
  <2>3. N = T
    <3> HIDE DEF sent, end
    <3>1. PreShape(sent)
      BY <1>2, StillShape
    <3>2. moved.pending_chunks = sent.pending_chunks
      BY <3>1 DEF PreShape, PreFields
    <3> QED
      BY <3>1, <3>2 DEF PreShape, PreFields
  <2> HIDE DEF N, T, end
  <2> QED
    BY <2>2, <2>3
<1> HIDE DEF T, end
<1> QED
  BY <1>4, <1>5, StillSame

-----------------------------------------------------------------------------
(* The inductive invariant of the prefill instance.  a and b are the       *)
(* entries of two batches whose results are still to be processed, a the   *)
(* older one; of a request an entry is the whole of its prompt or a part.  *)
WholeIn(a, r, len) == \E x \in a : x.req = r /\ x.end = len

PartIn(a, r, len) == \E x \in a : x.req = r /\ x.end # len

(* Of one request: whether it is in the bootstrap, waiting and inflight    *)
(* queue, is chunked, is chunked and to be aborted, and has a whole or a   *)
(* partial entry in either batch.  over: the loop is the overlapped one;   *)
(* stage: the next batch is still "open", is planned ("plan"), when a      *)
(* chunked request may be dropped until its result comes, or is "made".    *)
PreReqOK(x, ib, iw, ii, ch, ca, wa, na, wb, nb, over, stage, len) ==
    /\ x.len = len /\ x.end \in 0 .. len
    /\ x.arrived \in BOOLEAN /\ x.kv \in BOOLEAN
    /\ x.aborted \in BOOLEAN /\ x.pending_bootstrap \in BOOLEAN
    /\ ~x.arrived => /\ ~ib /\ ~iw /\ ~ii /\ ~ch /\ ~wa /\ ~na /\ ~wb /\ ~nb
                     /\ x.answers = 0 /\ ~x.kv /\ ~x.aborted /\ x.buffer = Nil /\ x.end = 0
    /\ ~na /\ ~nb => x.chunks = 0
    /\ na /\ ~nb => x.chunks = 1
    /\ ~na /\ nb => x.chunks = 1
    /\ na /\ nb => x.chunks = 2
    /\ ~(wa /\ na) /\ ~(wa /\ wb) /\ ~(wa /\ nb) /\ ~(wb /\ nb)
    /\ nb => ch
    /\ na => \/ ch
             \/ wb
             \/ x.answers # 0 /\ x.aborted /\ ~x.pending_bootstrap
             \/ /\ over /\ stage # "open" /\ x.answers = 0 /\ ~x.aborted
                /\ x.pending_bootstrap /\ x.end < len
    /\ ib \/ iw => ~x.kv /\ x.end = 0
    /\ ib \/ iw \/ ii => ~ch /\ ~wa /\ ~na /\ ~wb /\ ~nb
    /\ ~(ib /\ iw) /\ ~(ib /\ ii) /\ ~(iw /\ ii)
    /\ ch => ~wa /\ ~wb /\ x.end < len
    /\ wa \/ wb => x.end = len
    /\ x.arrived /\ x.answers = 0 => ib \/ iw \/ ii \/ ch \/ wa \/ wb \/ na
    /\ x.answers = 0 /\ (iw \/ ii \/ ch \/ wa \/ wb \/ na) => x.buffer # Nil
    /\ x.answers # 0 => /\ x.answers = 1 /\ ~x.kv /\ x.buffer = Nil
                        /\ ~ib /\ ~iw /\ ~ii /\ ~ch /\ ~wa /\ ~wb
    /\ x.aborted /\ x.answers = 0 => ii \/ wa \/ wb \/ (ib /\ x.conclude = Failed) \/ ca
    /\ over /\ ch => IF stage = "made" THEN nb ELSE na

PreReqAt(S, c, a, b, stage, r) ==
    PreReqOK(S.req[r], r \in Range(S.bootstrap), r \in Range(S.waiting),
             r \in Range(S.inflight), S.chunked = r, S.chunked = r /\ S.abort_chunked = r,
             WholeIn(a, r, c.len[r]), PartIn(a, r, c.len[r]),
             WholeIn(b, r, c.len[r]), PartIn(b, r, c.len[r]), c.overlap, stage, c.len[r])

PreQueues(S) ==
    /\ Distinct(S.bootstrap, Request) /\ Distinct(S.waiting, Request)
    /\ Distinct(S.inflight, Request)
    /\ S.chunked \in Request \union {Nil} /\ S.abort_chunked \in Request \union {Nil}

PreInv(S, c, a, b, stage) ==
    /\ PreShape(S) /\ PreTyped(S) /\ PreQueues(S) /\ FreeBuffers(S, PrefillBuffers)
    /\ \A r \in Request : PreReqAt(S, c, a, b, stage, r)

LEMMA PreInvStill ==
  ASSUME NEW S, NEW T, NEW c, NEW a, NEW b, NEW stage,
         PreInv(S, c, a, b, stage), Still(S, T)
  PROVE  PreInv(T, c, a, b, stage)
<1>1. PreShape(T) /\ PreTyped(T)
  BY DEF Still, PreInv
<1>2. PreQueues(T)
  BY DEF Still, PreInv, PreQueues, SamePlaces
<1>3. FreeBuffers(T, PrefillBuffers)
  BY SameBuffersKeep DEF Still, PreInv, SameBuffers, SamePreReq
<1>4. ASSUME NEW r \in Request PROVE PreReqAt(T, c, a, b, stage, r)
  <2>1. PreReqAt(S, c, a, b, stage, r) /\ SamePreReq(S.req[r], T.req[r]) /\ SamePlaces(S, T)
    BY DEF PreInv, Still
  <2> QED
    BY <2>1 DEF PreReqAt, PreReqOK, SamePreReq, SamePlaces
<1> QED
  BY <1>1, <1>2, <1>3, <1>4 DEF PreInv

(* A step that moves no request but r. *)
Elsewhere(S, T, r) ==
    \A q \in Request \ {r} :
        /\ SamePreReq(S.req[q], T.req[q])
        /\ q \in Range(T.bootstrap) <=> q \in Range(S.bootstrap)
        /\ q \in Range(T.waiting) <=> q \in Range(S.waiting)
        /\ q \in Range(T.inflight) <=> q \in Range(S.inflight)
        /\ T.chunked = q <=> S.chunked = q
        /\ S.chunked = q /\ S.abort_chunked = q => T.abort_chunked = q
        /\ T.chunked = q /\ T.abort_chunked = q => S.abort_chunked = q

SameEntries(a, b, r, c) ==
    \A q \in Request \ {r} :
        /\ WholeIn(b, q, c.len[q]) <=> WholeIn(a, q, c.len[q])
        /\ PartIn(b, q, c.len[q]) <=> PartIn(a, q, c.len[q])

LEMMA EntriesSame == ASSUME NEW a, NEW r, NEW c PROVE SameEntries(a, a, r, c)
BY DEF SameEntries

LEMMA EntryAdded ==
  ASSUME NEW a, NEW x, NEW c, x.req \in Request
  PROVE  LET b == a \union {x}
             r == x.req
         IN  /\ SameEntries(a, b, r, c)
             /\ WholeIn(b, r, c.len[r]) <=> WholeIn(a, r, c.len[r]) \/ x.end = c.len[r]
             /\ PartIn(b, r, c.len[r]) <=> PartIn(a, r, c.len[r]) \/ x.end # c.len[r]
BY DEF SameEntries, WholeIn, PartIn

LEMMA OneMoves ==
  ASSUME NEW S, NEW T, NEW c, NEW a, NEW b, NEW d, NEW e, NEW stage, NEW r \in Request,
         PreInv(S, c, a, b, stage),
         PreShape(T), PreTyped(T), PreQueues(T), FreeBuffers(T, PrefillBuffers),
         Elsewhere(S, T, r), SameEntries(a, d, r, c), SameEntries(b, e, r, c),
         PreReqAt(T, c, d, e, stage, r)
  PROVE  PreInv(T, c, d, e, stage)
<1>1. ASSUME NEW q \in Request, q # r PROVE PreReqAt(T, c, d, e, stage, q)
  <2>1. PreReqAt(S, c, a, b, stage, q)
    BY DEF PreInv
  <2>2. /\ WholeIn(d, q, c.len[q]) <=> WholeIn(a, q, c.len[q])
        /\ PartIn(d, q, c.len[q]) <=> PartIn(a, q, c.len[q])
        /\ WholeIn(e, q, c.len[q]) <=> WholeIn(b, q, c.len[q])
        /\ PartIn(e, q, c.len[q]) <=> PartIn(b, q, c.len[q])
    BY <1>1 DEF SameEntries
  <2>3. /\ SamePreReq(S.req[q], T.req[q])
        /\ q \in Range(T.bootstrap) <=> q \in Range(S.bootstrap)
        /\ q \in Range(T.waiting) <=> q \in Range(S.waiting)
        /\ q \in Range(T.inflight) <=> q \in Range(S.inflight)
        /\ T.chunked = q <=> S.chunked = q
        /\ S.chunked = q /\ S.abort_chunked = q => T.abort_chunked = q
        /\ T.chunked = q /\ T.abort_chunked = q => S.abort_chunked = q
    BY <1>1 DEF Elsewhere
  <2> QED
    BY <2>1, <2>2, <2>3 DEF PreReqAt, PreReqOK, SamePreReq
<1> QED
  BY SMTT(60), <1>1 DEF PreInv

(* The request r leaves: it is answered, is nowhere, and what it held goes *)
(* back.  The result of an earlier chunk of it may still be to come.       *)
Leaves(S, T, r) ==
    /\ PreShape(T) /\ PreTyped(T)
    /\ Left(S.bootstrap, T.bootstrap, r) /\ Left(S.waiting, T.waiting, r)
    /\ Left(S.inflight, T.inflight, r)
    /\ T.chunked = (IF S.chunked = r THEN Nil ELSE S.chunked)
    /\ \/ T.abort_chunked = S.abort_chunked
       \/ S.abort_chunked = r /\ T.abort_chunked = Nil
    /\ Gave(S, T, r)
    /\ T.req[r].arrived = S.req[r].arrived /\ T.req[r].len = S.req[r].len
    /\ T.req[r].end = S.req[r].end /\ T.req[r].chunks = S.req[r].chunks
    /\ T.req[r].kv = FALSE /\ T.req[r].pending_bootstrap \in BOOLEAN
    /\ T.req[r].aborted \in BOOLEAN
    /\ S.chunked = r => T.req[r].aborted /\ ~T.req[r].pending_bootstrap
    /\ T.req[r].answers = S.req[r].answers + 1
    /\ \A q \in Request \ {r} : SamePreReq(S.req[q], T.req[q])

LEMMA LeavesKeeps ==
  ASSUME NEW S, NEW T, NEW c, NEW a, NEW b, NEW stage,
         NEW r \in Request, PreInv(S, c, a, b, stage), Leaves(S, T, r),
         r \in Range(S.bootstrap) \union Range(S.waiting) \union Range(S.inflight)
            \/ S.chunked = r,
         ~PartIn(b, r, c.len[r])
  PROVE  PreInv(T, c, a, b, stage)
<1>1. PreReqAt(S, c, a, b, stage, r)
  BY DEF PreInv
<1>2. S.req[r].arrived /\ S.req[r].answers = 0
  BY <1>1 DEF PreReqAt, PreReqOK
<1>3. T.req[r].answers = 1 /\ T.req[r].answers # 0
  <2>1. T.req[r].answers = S.req[r].answers + 1
    BY DEF Leaves
  <2> QED
    BY <2>1, <1>2
<1>4. FreeBuffers(T, PrefillBuffers) /\ T.req[r].buffer = Nil
  <2>1. PrefillBuffers \in Nat
    BY PDAssumption
  <2>2. Gave(S, T, r) /\ FreeBuffers(S, PrefillBuffers)
    BY DEF Leaves, PreInv
  <2> QED
    BY <2>1, <2>2, GaveKeeps DEF Gave
<1>5. Nil \notin Request
  BY PDAssumption
<1>6. PreQueues(T)
  BY DEF Leaves, PreInv, PreQueues, Left
<1>7. Elsewhere(S, T, r)
  BY SMTT(60), <1>5 DEF Leaves, Elsewhere, Left
<1>8. PreReqAt(T, c, a, b, stage, r)
  <2>1. /\ r \notin Range(T.bootstrap) /\ r \notin Range(T.waiting) /\ r \notin Range(T.inflight)
        /\ T.chunked # r
    BY <1>5 DEF Leaves, Left
  <2>2. /\ ~WholeIn(a, r, c.len[r]) /\ ~WholeIn(b, r, c.len[r])
        /\ PartIn(a, r, c.len[r]) => S.chunked = r
    BY <1>1, <1>2 DEF PreReqAt, PreReqOK
  <2>3. /\ T.req[r].arrived = S.req[r].arrived /\ T.req[r].len = S.req[r].len
        /\ T.req[r].end = S.req[r].end /\ T.req[r].chunks = S.req[r].chunks
        /\ T.req[r].kv = FALSE /\ T.req[r].pending_bootstrap \in BOOLEAN
        /\ T.req[r].aborted \in BOOLEAN
        /\ S.chunked = r => T.req[r].aborted /\ ~T.req[r].pending_bootstrap
    BY DEF Leaves
  <2> QED
    BY ZenonT(60), <1>1, <1>2, <1>3, <1>4, <2>1, <2>2, <2>3 DEF PreReqAt, PreReqOK
<1> QED
  BY <1>4, <1>6, <1>7, <1>8, OneMoves, EntriesSame DEF Leaves

-----------------------------------------------------------------------------
(* What the parts of the scheduler's operations change. *)

LEMMA ReleaseBufferEffect ==
  ASSUME NEW S, PreShape(S), NEW r \in Request
  PROVE  LET T == ReleaseBuffer(S, r)
         IN  /\ PreShape(T) /\ Gave(S, T, r)
             /\ T.bootstrap = S.bootstrap /\ T.waiting = S.waiting
             /\ T.inflight = S.inflight /\ T.chunked = S.chunked
             /\ T.abort_chunked = S.abort_chunked /\ T.batch = S.batch
             /\ T.last_batch = S.last_batch /\ T.status = S.status
             /\ T.transfers = S.transfers
             /\ T.req[r].arrived = S.req[r].arrived /\ T.req[r].len = S.req[r].len
             /\ T.req[r].kv = S.req[r].kv /\ T.req[r].end = S.req[r].end
             /\ T.req[r].chunks = S.req[r].chunks
             /\ T.req[r].pending_bootstrap = S.req[r].pending_bootstrap
             /\ T.req[r].aborted = S.req[r].aborted
             /\ T.req[r].conclude = S.req[r].conclude
             /\ T.req[r].answers = S.req[r].answers
             /\ \A q \in Request \ {r} : T.req[q] = S.req[q]
<1> DEFINE U == [S EXCEPT !.free_buffers = Append(@, S.req[r].buffer)]
           V == [U EXCEPT !.req[r].buffer = Nil]
           T == ReleaseBuffer(S, r)
<1>1. T = IF S.req[r].buffer = Nil THEN S ELSE V
  BY DEF ReleaseBuffer
<1>2. /\ PreShape(U) /\ U.req = S.req
      /\ U.free_buffers = Append(S.free_buffers, S.req[r].buffer)
      /\ U.bootstrap = S.bootstrap /\ U.waiting = S.waiting /\ U.inflight = S.inflight
      /\ U.chunked = S.chunked /\ U.abort_chunked = S.abort_chunked
      /\ U.batch = S.batch /\ U.last_batch = S.last_batch /\ U.status = S.status
      /\ U.transfers = S.transfers
  BY DEF PreShape, PreFields
<1> HIDE DEF U, T
<1>3. /\ PreShape(V)
      /\ V.bootstrap = U.bootstrap /\ V.waiting = U.waiting /\ V.inflight = U.inflight
      /\ V.chunked = U.chunked /\ V.abort_chunked = U.abort_chunked
      /\ V.batch = U.batch /\ V.last_batch = U.last_batch
      /\ V.free_buffers = U.free_buffers /\ V.status = U.status
      /\ V.transfers = U.transfers
      /\ V.req = [U.req EXCEPT ![r] = [U.req[r] EXCEPT !.buffer = Nil]]
  BY <1>2 DEF PreShape, PreFields, PreReqFields
<1> HIDE DEF V
<1>4. V.req = [S.req EXCEPT ![r] = [S.req[r] EXCEPT !.buffer = Nil]]
  BY <1>2, <1>3
<1>5. /\ V.req[r].buffer = Nil
      /\ V.req[r].arrived = S.req[r].arrived /\ V.req[r].len = S.req[r].len
      /\ V.req[r].kv = S.req[r].kv /\ V.req[r].end = S.req[r].end
      /\ V.req[r].chunks = S.req[r].chunks
      /\ V.req[r].pending_bootstrap = S.req[r].pending_bootstrap
      /\ V.req[r].aborted = S.req[r].aborted /\ V.req[r].conclude = S.req[r].conclude
      /\ V.req[r].answers = S.req[r].answers
      /\ \A q \in Request \ {r} : V.req[q] = S.req[q]
  BY <1>4 DEF PreShape, PreReqFields
<1>6. CASE S.req[r].buffer = Nil
  BY <1>1, <1>6 DEF Gave, T
<1>7. CASE S.req[r].buffer # Nil
  <2>1. Gave(S, V, r)
    BY <1>2, <1>3, <1>5, <1>7 DEF Gave
  <2>2. T = V
    BY <1>1, <1>7
  <2> QED
    BY ZenonT(60), <1>2, <1>3, <1>5, <2>1, <2>2 DEF T
<1> QED
  BY <1>6, <1>7

LEMMA PreAnswerEffect ==
  ASSUME NEW S, PreShape(S), NEW r \in Request
  PROVE  LET T == Answer(S, r)
         IN  /\ PreShape(T)
             /\ T.bootstrap = S.bootstrap /\ T.waiting = S.waiting
             /\ T.inflight = S.inflight /\ T.chunked = S.chunked
             /\ T.abort_chunked = S.abort_chunked /\ T.batch = S.batch
             /\ T.last_batch = S.last_batch /\ T.free_buffers = S.free_buffers
             /\ T.status = S.status /\ T.transfers = S.transfers
             /\ T.req[r].answers = S.req[r].answers + 1
             /\ T.req[r].arrived = S.req[r].arrived /\ T.req[r].len = S.req[r].len
             /\ T.req[r].kv = S.req[r].kv /\ T.req[r].end = S.req[r].end
             /\ T.req[r].chunks = S.req[r].chunks
             /\ T.req[r].pending_bootstrap = S.req[r].pending_bootstrap
             /\ T.req[r].aborted = S.req[r].aborted
             /\ T.req[r].buffer = S.req[r].buffer
             /\ T.req[r].conclude = S.req[r].conclude
             /\ \A q \in Request \ {r} : T.req[q] = S.req[q]
<1> DEFINE T == Answer(S, r)
<1>3. /\ PreShape(T)
      /\ T.bootstrap = S.bootstrap /\ T.waiting = S.waiting /\ T.inflight = S.inflight
      /\ T.chunked = S.chunked /\ T.abort_chunked = S.abort_chunked
      /\ T.batch = S.batch /\ T.last_batch = S.last_batch
      /\ T.free_buffers = S.free_buffers /\ T.status = S.status
      /\ T.transfers = S.transfers
      /\ T.req = [S.req EXCEPT ![r] = [S.req[r] EXCEPT !.answers = S.req[r].answers + 1]]
  BY DEF PreShape, PreFields, PreReqFields, Answer
<1> HIDE DEF T
<1>4. T.req[r].answers = S.req[r].answers + 1
  BY <1>3 DEF PreShape, PreReqFields
<1>5. /\ \A q \in Request \ {r} : T.req[q] = S.req[q]
      /\ T.req[r].arrived = S.req[r].arrived /\ T.req[r].len = S.req[r].len
      /\ T.req[r].kv = S.req[r].kv /\ T.req[r].end = S.req[r].end
      /\ T.req[r].chunks = S.req[r].chunks
      /\ T.req[r].pending_bootstrap = S.req[r].pending_bootstrap
      /\ T.req[r].aborted = S.req[r].aborted /\ T.req[r].buffer = S.req[r].buffer
      /\ T.req[r].conclude = S.req[r].conclude
  BY <1>3 DEF PreShape, PreReqFields
<1> QED
  BY <1>3, <1>4, <1>5 DEF T

(* handle_bootstrap_failure. *)
BootstrapFailed(S, T, r) ==
    /\ PreShape(T) /\ (PreTyped(S) => PreTyped(T)) /\ SamePlaces(S, T) /\ Gave(S, T, r)
    /\ T.req[r].arrived = S.req[r].arrived /\ T.req[r].len = S.req[r].len
    /\ T.req[r].end = S.req[r].end /\ T.req[r].chunks = S.req[r].chunks
    /\ T.req[r].kv = FALSE /\ T.req[r].pending_bootstrap = FALSE /\ T.req[r].aborted = TRUE
    /\ T.req[r].answers = S.req[r].answers + 1
    /\ \A q \in Request \ {r} : SamePreReq(S.req[q], T.req[q])

LEMMA BootstrapFailureEffect ==
  ASSUME NEW S, PreShape(S), NEW r \in Request
  PROVE  BootstrapFailed(S, HandleBootstrapFailure(S, r), r)
<1> DEFINE F == FailureException(S, r)
           R == ReleaseBuffer(F, r)
           K == [R EXCEPT !.pending_chunks = @ \ {r}, !.req[r].kv = FALSE,
                          !.req[r].pending_bootstrap = FALSE, !.req[r].aborted = TRUE]
           T == Answer(K, r)
<1>0. HandleBootstrapFailure(S, r) = T
  BY DEF HandleBootstrapFailure
<1>1. Still(S, F)
  BY StillFailureException
<1> HIDE DEF F
<1>2. /\ PreShape(R) /\ Gave(F, R, r)
      /\ R.bootstrap = F.bootstrap /\ R.waiting = F.waiting /\ R.inflight = F.inflight
      /\ R.chunked = F.chunked /\ R.abort_chunked = F.abort_chunked
      /\ R.batch = F.batch /\ R.last_batch = F.last_batch /\ R.status = F.status
      /\ R.transfers = F.transfers
      /\ R.req[r].arrived = F.req[r].arrived /\ R.req[r].len = F.req[r].len
      /\ R.req[r].kv = F.req[r].kv /\ R.req[r].end = F.req[r].end
      /\ R.req[r].chunks = F.req[r].chunks
      /\ R.req[r].pending_bootstrap = F.req[r].pending_bootstrap
      /\ R.req[r].aborted = F.req[r].aborted /\ R.req[r].conclude = F.req[r].conclude
      /\ R.req[r].answers = F.req[r].answers
      /\ \A q \in Request \ {r} : R.req[q] = F.req[q]
  BY <1>1, StillShape, ReleaseBufferEffect
<1> HIDE DEF R
<1>3. /\ PreShape(K)
      /\ K.bootstrap = R.bootstrap /\ K.waiting = R.waiting /\ K.inflight = R.inflight
      /\ K.chunked = R.chunked /\ K.abort_chunked = R.abort_chunked
      /\ K.batch = R.batch /\ K.last_batch = R.last_batch
      /\ K.free_buffers = R.free_buffers /\ K.status = R.status
      /\ K.transfers = R.transfers
      /\ K.req = [R.req EXCEPT ![r] = [R.req[r] EXCEPT !.kv = FALSE,
                       !.pending_bootstrap = FALSE, !.aborted = TRUE]]
  BY ZenonT(60), <1>2 DEF PreShape, PreFields, PreReqFields
<1> HIDE DEF K
<1>4. /\ K.req[r].kv = FALSE /\ K.req[r].pending_bootstrap = FALSE /\ K.req[r].aborted = TRUE
      /\ K.req[r].arrived = R.req[r].arrived /\ K.req[r].len = R.req[r].len
      /\ K.req[r].end = R.req[r].end /\ K.req[r].chunks = R.req[r].chunks
      /\ K.req[r].buffer = R.req[r].buffer /\ K.req[r].conclude = R.req[r].conclude
      /\ K.req[r].answers = R.req[r].answers
      /\ \A q \in Request \ {r} : K.req[q] = R.req[q]
  BY <1>2, <1>3 DEF PreShape, PreReqFields
<1>13. PreShape(K)
  BY <1>3
<1>12. T.req[r].answers = K.req[r].answers + 1
  BY <1>13, PreAnswerEffect
<1>5. /\ PreShape(T)
      /\ T.bootstrap = K.bootstrap /\ T.waiting = K.waiting /\ T.inflight = K.inflight
      /\ T.chunked = K.chunked /\ T.abort_chunked = K.abort_chunked
      /\ T.batch = K.batch /\ T.last_batch = K.last_batch
      /\ T.free_buffers = K.free_buffers /\ T.status = K.status
      /\ T.transfers = K.transfers
      /\ T.req[r].arrived = K.req[r].arrived /\ T.req[r].len = K.req[r].len
      /\ T.req[r].kv = K.req[r].kv /\ T.req[r].end = K.req[r].end
      /\ T.req[r].chunks = K.req[r].chunks
      /\ T.req[r].pending_bootstrap = K.req[r].pending_bootstrap
      /\ T.req[r].aborted = K.req[r].aborted /\ T.req[r].buffer = K.req[r].buffer
      /\ T.req[r].conclude = K.req[r].conclude
      /\ \A q \in Request \ {r} : T.req[q] = K.req[q]
  BY <1>13, PreAnswerEffect
<1> HIDE DEF T
<1>6. /\ SamePlaces(S, F) /\ (PreTyped(S) => PreTyped(F)) /\ F.free_buffers = S.free_buffers
      /\ \A q \in Request : SamePreReq(S.req[q], F.req[q])
  BY <1>1 DEF Still
<1>7. SamePlaces(S, T) /\ (PreTyped(S) => PreTyped(T))
  BY <1>2, <1>3, <1>5, <1>6 DEF SamePlaces, PreTyped
<1>8. Gave(S, T, r)
  BY SMTT(60), <1>2, <1>3, <1>4, <1>5, <1>6 DEF Gave, SamePreReq
<1>9. T.req[r].answers = S.req[r].answers + 1
  BY <1>2, <1>4, <1>12, <1>6 DEF SamePreReq
<1>10. /\ T.req[r].arrived = S.req[r].arrived /\ T.req[r].len = S.req[r].len
       /\ T.req[r].end = S.req[r].end /\ T.req[r].chunks = S.req[r].chunks
       /\ T.req[r].kv = FALSE /\ T.req[r].pending_bootstrap = FALSE /\ T.req[r].aborted = TRUE
  BY <1>2, <1>4, <1>5, <1>6 DEF SamePreReq
<1>11. \A q \in Request \ {r} : SamePreReq(S.req[q], T.req[q])
  BY <1>2, <1>4, <1>5, <1>6
<1> QED
  BY <1>0, <1>5, <1>7, <1>8, <1>9, <1>10, <1>11 DEF BootstrapFailed

(* ensure_metadata_buffer. *)
Held(S, T, r) == Took(S, T, r) \/ (S.req[r].buffer # Nil /\ SameBuffers(S, T))

LEMMA HeldKeeps ==
  ASSUME NEW S, NEW T, NEW r \in Request, FreeBuffers(S, PrefillBuffers), Held(S, T, r)
  PROVE  FreeBuffers(T, PrefillBuffers) /\ T.req[r].buffer # Nil
<1>1. PrefillBuffers \in Nat
  BY PDAssumption
<1>2. CASE Took(S, T, r)
  BY <1>1, <1>2, TookKeeps
<1>3. CASE S.req[r].buffer # Nil /\ SameBuffers(S, T)
  BY <1>3, SameBuffersKeep DEF SameBuffers
<1> QED
  BY <1>2, <1>3 DEF Held

LEMMA EnsureBufferEffect ==
  ASSUME NEW S, PreShape(S), NEW r \in Request, BufferAvailable(S, r)
  PROVE  LET T == EnsureBuffer(S, r)
         IN  /\ PreShape(T) /\ Held(S, T, r)
             /\ T.bootstrap = S.bootstrap /\ T.waiting = S.waiting
             /\ T.inflight = S.inflight /\ T.chunked = S.chunked
             /\ T.abort_chunked = S.abort_chunked /\ T.batch = S.batch
             /\ T.last_batch = S.last_batch /\ T.status = S.status
             /\ T.transfers = S.transfers
             /\ T.req[r].arrived = S.req[r].arrived /\ T.req[r].len = S.req[r].len
             /\ T.req[r].kv = S.req[r].kv /\ T.req[r].end = S.req[r].end
             /\ T.req[r].chunks = S.req[r].chunks
             /\ T.req[r].pending_bootstrap = S.req[r].pending_bootstrap
             /\ T.req[r].aborted = S.req[r].aborted
             /\ T.req[r].conclude = S.req[r].conclude
             /\ T.req[r].answers = S.req[r].answers
             /\ \A q \in Request \ {r} : T.req[q] = S.req[q]
<1> DEFINE U == [S EXCEPT !.free_buffers = Tail(@)]
           V == [U EXCEPT !.req[r].buffer = Head(S.free_buffers)]
           T == EnsureBuffer(S, r)
<1>1. T = IF S.req[r].buffer # Nil THEN S ELSE V
  BY DEF EnsureBuffer, TakeBuffer
<1>2. /\ PreShape(U) /\ U.req = S.req
      /\ U.free_buffers = Tail(S.free_buffers)
      /\ U.bootstrap = S.bootstrap /\ U.waiting = S.waiting /\ U.inflight = S.inflight
      /\ U.chunked = S.chunked /\ U.abort_chunked = S.abort_chunked
      /\ U.batch = S.batch /\ U.last_batch = S.last_batch /\ U.status = S.status
      /\ U.transfers = S.transfers
  BY DEF PreShape, PreFields
<1> HIDE DEF U, T
<1>3. /\ PreShape(V)
      /\ V.bootstrap = U.bootstrap /\ V.waiting = U.waiting /\ V.inflight = U.inflight
      /\ V.chunked = U.chunked /\ V.abort_chunked = U.abort_chunked
      /\ V.batch = U.batch /\ V.last_batch = U.last_batch
      /\ V.free_buffers = U.free_buffers /\ V.status = U.status
      /\ V.transfers = U.transfers
      /\ V.req = [U.req EXCEPT ![r] = [U.req[r] EXCEPT !.buffer = Head(S.free_buffers)]]
  BY <1>2 DEF PreShape, PreFields, PreReqFields
<1> HIDE DEF V
<1>4. V.req = [S.req EXCEPT ![r] = [S.req[r] EXCEPT !.buffer = Head(S.free_buffers)]]
  BY <1>2, <1>3
<1>5. /\ V.req[r].buffer = Head(S.free_buffers)
      /\ V.req[r].arrived = S.req[r].arrived /\ V.req[r].len = S.req[r].len
      /\ V.req[r].kv = S.req[r].kv /\ V.req[r].end = S.req[r].end
      /\ V.req[r].chunks = S.req[r].chunks
      /\ V.req[r].pending_bootstrap = S.req[r].pending_bootstrap
      /\ V.req[r].aborted = S.req[r].aborted /\ V.req[r].conclude = S.req[r].conclude
      /\ V.req[r].answers = S.req[r].answers
      /\ \A q \in Request \ {r} : V.req[q] = S.req[q]
  BY <1>4 DEF PreShape, PreReqFields
<1>6. CASE S.req[r].buffer # Nil
  BY <1>1, <1>6 DEF Held, SameBuffers, T
<1>7. CASE S.req[r].buffer = Nil
  <2>1. Took(S, V, r)
    BY <1>2, <1>3, <1>5, <1>7 DEF Took, BufferAvailable
  <2>2. T = V
    BY <1>1, <1>7
  <2> QED
    BY ZenonT(60), <1>2, <1>3, <1>5, <2>1, <2>2 DEF T, Held
<1> QED
  BY <1>6, <1>7

(* finalize_bootstrap. *)
LEMMA FinalizeEffect ==
  ASSUME NEW S, PreShape(S), NEW r \in Request, BufferAvailable(S, r)
  PROVE  LET T == FinalizeBootstrap(S, r)
         IN  /\ PreShape(T) /\ Held(S, T, r)
             /\ T.bootstrap = S.bootstrap /\ T.waiting = S.waiting
             /\ T.inflight = S.inflight /\ T.chunked = S.chunked
             /\ T.abort_chunked = S.abort_chunked /\ T.batch = S.batch
             /\ T.last_batch = S.last_batch /\ T.status = S.status
             /\ T.transfers = S.transfers
             /\ T.req[r].pending_bootstrap = FALSE
             /\ T.req[r].arrived = S.req[r].arrived /\ T.req[r].len = S.req[r].len
             /\ T.req[r].kv = S.req[r].kv /\ T.req[r].end = S.req[r].end
             /\ T.req[r].chunks = S.req[r].chunks
             /\ T.req[r].aborted = S.req[r].aborted
             /\ T.req[r].conclude = S.req[r].conclude
             /\ T.req[r].answers = S.req[r].answers
             /\ \A q \in Request \ {r} : T.req[q] = S.req[q]
<1> DEFINE E == EnsureBuffer(S, r)
           v == S.prefix_len[r]
           w == PagesOf(S.req[r].len - S.prefix_len[r])
           T == [E EXCEPT !.prefix_len[r] = 0, !.req[r].send_from = v, !.req[r].to_send = w,
                          !.req[r].pending_bootstrap = FALSE]
<1>1. FinalizeBootstrap(S, r) = T
  BY SMTT(60) DEF FinalizeBootstrap
<1>2. /\ PreShape(E) /\ Held(S, E, r)
      /\ E.bootstrap = S.bootstrap /\ E.waiting = S.waiting /\ E.inflight = S.inflight
      /\ E.chunked = S.chunked /\ E.abort_chunked = S.abort_chunked
      /\ E.batch = S.batch /\ E.last_batch = S.last_batch /\ E.status = S.status
      /\ E.transfers = S.transfers
      /\ E.req[r].arrived = S.req[r].arrived /\ E.req[r].len = S.req[r].len
      /\ E.req[r].kv = S.req[r].kv /\ E.req[r].end = S.req[r].end
      /\ E.req[r].chunks = S.req[r].chunks
      /\ E.req[r].pending_bootstrap = S.req[r].pending_bootstrap
      /\ E.req[r].aborted = S.req[r].aborted /\ E.req[r].conclude = S.req[r].conclude
      /\ E.req[r].answers = S.req[r].answers
      /\ \A q \in Request \ {r} : E.req[q] = S.req[q]
  BY SMTT(60), EnsureBufferEffect
<1> HIDE DEF E, v, w
<1>3. /\ PreShape(T)
      /\ T.bootstrap = E.bootstrap /\ T.waiting = E.waiting /\ T.inflight = E.inflight
      /\ T.chunked = E.chunked /\ T.abort_chunked = E.abort_chunked
      /\ T.batch = E.batch /\ T.last_batch = E.last_batch
      /\ T.free_buffers = E.free_buffers /\ T.status = E.status
      /\ T.transfers = E.transfers
      /\ T.req = [E.req EXCEPT ![r] = [E.req[r] EXCEPT !.send_from = v, !.to_send = w,
                                            !.pending_bootstrap = FALSE]]
  BY ZenonT(60), <1>2 DEF PreShape, PreFields, PreReqFields
<1> HIDE DEF T
<1>4. /\ T.req[r].pending_bootstrap = FALSE
      /\ T.req[r].arrived = E.req[r].arrived /\ T.req[r].len = E.req[r].len
      /\ T.req[r].kv = E.req[r].kv /\ T.req[r].end = E.req[r].end
      /\ T.req[r].chunks = E.req[r].chunks /\ T.req[r].aborted = E.req[r].aborted
      /\ T.req[r].buffer = E.req[r].buffer /\ T.req[r].conclude = E.req[r].conclude
      /\ T.req[r].answers = E.req[r].answers
      /\ \A q \in Request \ {r} : T.req[q] = E.req[q]
  BY <1>2, <1>3 DEF PreShape, PreReqFields
<1>5. Held(S, T, r)
  BY <1>2, <1>3, <1>4 DEF Held, Took, SameBuffers
<1> QED
  BY <1>1, <1>2, <1>3, <1>4, <1>5

(* optimistic_release_and_requeue. *)
AtHead(r, q) == <<r>> \o q

Requeued(S, T, r) ==
    /\ PreShape(T) /\ (PreTyped(S) => PreTyped(T))
    /\ \/ T.bootstrap = Append(S.bootstrap, r) /\ T.waiting = S.waiting
       \/ T.waiting = AtHead(r, S.waiting) /\ T.bootstrap = S.bootstrap
    /\ T.inflight = S.inflight /\ T.chunked = S.chunked /\ T.abort_chunked = S.abort_chunked
    /\ T.batch = S.batch /\ T.last_batch = S.last_batch /\ T.free_buffers = S.free_buffers
    /\ T.req[r].kv = FALSE /\ T.req[r].end = 0 /\ T.req[r].pending_bootstrap = TRUE
    /\ T.req[r].arrived = S.req[r].arrived /\ T.req[r].len = S.req[r].len
    /\ T.req[r].chunks = S.req[r].chunks /\ T.req[r].aborted = S.req[r].aborted
    /\ T.req[r].buffer = S.req[r].buffer /\ T.req[r].answers = S.req[r].answers
    /\ \A q \in Request \ {r} : SamePreReq(S.req[q], T.req[q])

LEMMA RequeueEffect ==
  ASSUME NEW S, PreShape(S), NEW r \in Request, NEW max_attempts
  PROVE  Requeued(S, ReleaseAndRequeue(S, r, max_attempts), r)
<1> DEFINE T == [S EXCEPT !.req[r].kv = FALSE, !.req[r].end = 0, !.req[r].computed = 0,
                          !.req[r].send_from = 0, !.req[r].send_to = 0,
                          !.req[r].pending_bootstrap = TRUE, !.pending_chunks = @ \ {r}]
           U == [T EXCEPT !.bootstrap = Append(@, r)]
           V == [T EXCEPT !.req[r].attempts = @ + 1]
           W == [V EXCEPT !.waiting = <<r>> \o @]
           X == [T EXCEPT !.req[r].attempts = @ + 1, !.waiting = <<r>> \o @]
           A == [S EXCEPT !.req[r].kv = FALSE, !.req[r].end = 0]
           B == [A EXCEPT !.req[r].computed = 0]
           C == [B EXCEPT !.req[r].send_from = 0]
           D == [C EXCEPT !.req[r].send_to = 0]
           E == [D EXCEPT !.req[r].pending_bootstrap = TRUE]
           p == E.pending_chunks \ {r}
           F == [E EXCEPT !.pending_chunks = p]
<1>1. ReleaseAndRequeue(S, r, max_attempts) \in {U, X}
  BY ZenonT(60) DEF ReleaseAndRequeue
<1>6. T = F
  OBVIOUS
<1>7. /\ PreShape(A)
      /\ A.bootstrap = S.bootstrap /\ A.waiting = S.waiting /\ A.inflight = S.inflight
      /\ A.chunked = S.chunked /\ A.abort_chunked = S.abort_chunked
      /\ A.batch = S.batch /\ A.last_batch = S.last_batch
      /\ A.free_buffers = S.free_buffers /\ A.status = S.status
      /\ A.transfers = S.transfers
      /\ A.req = [S.req EXCEPT ![r] = [S.req[r] EXCEPT !.kv = FALSE, !.end = 0]]
  BY ZenonT(60) DEF PreShape, PreFields, PreReqFields
<1> HIDE DEF T, A
<1>8. /\ A.req[r].kv = FALSE /\ A.req[r].end = 0
      /\ A.req[r].arrived = S.req[r].arrived /\ A.req[r].len = S.req[r].len
      /\ A.req[r].chunks = S.req[r].chunks
      /\ A.req[r].pending_bootstrap = S.req[r].pending_bootstrap
      /\ A.req[r].aborted = S.req[r].aborted /\ A.req[r].buffer = S.req[r].buffer
      /\ A.req[r].conclude = S.req[r].conclude /\ A.req[r].answers = S.req[r].answers
      /\ \A q \in Request \ {r} : A.req[q] = S.req[q]
  BY <1>7 DEF PreShape, PreReqFields
<1>9. Still(A, D)
  <2>1. Still(A, B)
    BY ZenonT(60), <1>7, StillField
  <2> HIDE DEF B
  <2>2. Still(A, C)
    BY ZenonT(60), <2>1, StillField, StillTrans, StillShape
  <2> HIDE DEF C
  <2> QED
    BY ZenonT(60), <2>2, StillField, StillTrans, StillShape
<1> HIDE DEF D
<1>10. /\ PreShape(E)
       /\ E.bootstrap = D.bootstrap /\ E.waiting = D.waiting /\ E.inflight = D.inflight
       /\ E.chunked = D.chunked /\ E.abort_chunked = D.abort_chunked
       /\ E.batch = D.batch /\ E.last_batch = D.last_batch
       /\ E.free_buffers = D.free_buffers /\ E.status = D.status
       /\ E.transfers = D.transfers
       /\ E.req = [D.req EXCEPT ![r] = [D.req[r] EXCEPT !.pending_bootstrap = TRUE]]
  BY <1>9 DEF Still, PreShape, PreFields, PreReqFields
<1> HIDE DEF E
<1>11. /\ E.req[r].pending_bootstrap = TRUE
       /\ E.req[r].arrived = D.req[r].arrived /\ E.req[r].len = D.req[r].len
       /\ E.req[r].kv = D.req[r].kv /\ E.req[r].end = D.req[r].end
       /\ E.req[r].chunks = D.req[r].chunks /\ E.req[r].aborted = D.req[r].aborted
       /\ E.req[r].buffer = D.req[r].buffer /\ E.req[r].conclude = D.req[r].conclude
       /\ E.req[r].answers = D.req[r].answers
       /\ \A q \in Request \ {r} : E.req[q] = D.req[q]
  BY <1>9, <1>10 DEF Still, PreShape, PreReqFields
<1>12. Still(E, F)
  <2> HIDE DEF p
  <2> QED
    BY ZenonT(60), <1>10, StillTable
<1> HIDE DEF F
<1>2. PreShape(T) /\ (PreTyped(S) => PreTyped(T))
  <2>1. PreTyped(S) => PreTyped(A)
    BY <1>7 DEF PreTyped
  <2>2. PreTyped(D) => PreTyped(E)
    BY <1>10 DEF PreTyped
  <2> QED
    BY <1>6, <1>9, <1>12, <2>1, <2>2 DEF Still
<1>3. /\ T.bootstrap = S.bootstrap /\ T.waiting = S.waiting /\ T.inflight = S.inflight
      /\ T.chunked = S.chunked /\ T.abort_chunked = S.abort_chunked
      /\ T.batch = S.batch /\ T.last_batch = S.last_batch /\ T.free_buffers = S.free_buffers
  BY <1>6, <1>7, <1>9, <1>10, <1>12 DEF Still, SamePlaces
<1>13. /\ T.req[r].kv = FALSE /\ T.req[r].end = 0 /\ T.req[r].pending_bootstrap = TRUE
       /\ T.req[r].arrived = S.req[r].arrived /\ T.req[r].len = S.req[r].len
       /\ T.req[r].chunks = S.req[r].chunks /\ T.req[r].aborted = S.req[r].aborted
       /\ T.req[r].buffer = S.req[r].buffer /\ T.req[r].answers = S.req[r].answers
  <2>1. SamePreReq(A.req[r], D.req[r]) /\ SamePreReq(E.req[r], T.req[r])
    BY SMTT(60), <1>6, <1>9, <1>12 DEF Still
  <2> QED
    BY <1>8, <1>11, <2>1 DEF SamePreReq
<1>14. \A q \in Request \ {r} : SamePreReq(S.req[q], T.req[q])
  BY SMTT(60), <1>6, <1>8, <1>9, <1>11, <1>12 DEF Still, SamePreReq
<1>4. Requeued(S, U, r)
  <2>1. /\ PreShape(U) /\ U.req = T.req /\ U.bootstrap = Append(T.bootstrap, r)
        /\ U.waiting = T.waiting /\ U.inflight = T.inflight /\ U.chunked = T.chunked
        /\ U.abort_chunked = T.abort_chunked /\ U.batch = T.batch
        /\ U.last_batch = T.last_batch /\ U.free_buffers = T.free_buffers
        /\ U.status = T.status /\ U.transfers = T.transfers
    BY <1>2 DEF PreShape, PreFields
  <2> HIDE DEF U
  <2>2. PreTyped(S) => PreTyped(U)
    BY <1>2, <2>1 DEF PreTyped
  <2> QED
    BY <1>2, <1>3, <1>13, <1>14, <2>1, <2>2 DEF Requeued
<1>5. Requeued(S, X, r)
  <2> DEFINE v == T.req[r].attempts + 1
  <2>1. X = W /\ V = [T EXCEPT !.req[r].attempts = v]
    BY DEF X, W, V
  <2> HIDE DEF v
  <2>2. Still(T, V)
    BY ZenonT(60), <1>2, <2>1, StillField
  <2> HIDE DEF V
  <2>4. /\ PreShape(W) /\ W.req = V.req /\ W.waiting = AtHead(r, V.waiting)
        /\ W.bootstrap = V.bootstrap /\ W.inflight = V.inflight
        /\ W.chunked = V.chunked /\ W.abort_chunked = V.abort_chunked
        /\ W.batch = V.batch /\ W.last_batch = V.last_batch
        /\ W.free_buffers = V.free_buffers /\ W.status = V.status
        /\ W.transfers = V.transfers
    BY <2>2 DEF Still, PreShape, PreFields, AtHead
  <2> HIDE DEF W, X
  <2>3. PreTyped(S) => PreTyped(W)
    BY <1>2, <2>2, <2>4 DEF PreTyped, Still
  <2>5. SamePlaces(T, V) /\ V.free_buffers = T.free_buffers
    BY <2>2 DEF Still
  <2>6. \A q \in Request : SamePreReq(T.req[q], W.req[q])
    BY <2>2, <2>4 DEF Still
  <2>7. \A q \in Request \ {r} : SamePreReq(S.req[q], W.req[q])
    BY <1>14, <2>6 DEF SamePreReq
  <2>8. /\ W.req[r].kv = FALSE /\ W.req[r].end = 0 /\ W.req[r].pending_bootstrap = TRUE
        /\ W.req[r].arrived = S.req[r].arrived /\ W.req[r].len = S.req[r].len
        /\ W.req[r].chunks = S.req[r].chunks /\ W.req[r].aborted = S.req[r].aborted
        /\ W.req[r].buffer = S.req[r].buffer /\ W.req[r].answers = S.req[r].answers
    BY <1>13, <2>6 DEF SamePreReq
  <2> QED
    BY <1>3, <2>1, <2>3, <2>4, <2>5, <2>7, <2>8 DEF Requeued, SamePlaces
<1> HIDE DEF U, X
<1> QED
  BY <1>1, <1>4, <1>5

-----------------------------------------------------------------------------
(* The operations of the prefill scheduler keep the invariant. *)

Entered(q, p, r) == Distinct(p, Request) /\ Range(p) = Range(q) \union {r}

LEMMA EnteredQueue ==
  ASSUME NEW q, Distinct(q, Request), NEW r \in Request, r \notin Range(q)
  PROVE  Entered(q, Append(q, r), r) /\ Entered(q, AtHead(r, q), r)
BY DistinctAppend, DistinctCons DEF Entered, AtHead

LEMMA LeftWithout ==
  ASSUME NEW q, Distinct(q, Request), NEW r
  PROVE  Left(q, Without(q, r), r)
BY DistinctRemove DEF Left, Without

(* _add_request_to_queue. *)
LEMMA PrefillReceiveKeeps ==
  ASSUME NEW S, NEW c, NEW a, NEW b, NEW stage,
         PreInv(S, c, a, b, stage), NEW r \in Request, ~S.req[r].arrived
  PROVE  LET T == PrefillReceive(S, r)
         IN  /\ PreInv(T, c, a, b, stage)
             /\ T.batch = S.batch /\ T.last_batch = S.last_batch
<1> DEFINE U == UpdateStatus(S, r, Bootstrapping)
           T == [U EXCEPT !.req[r].arrived = TRUE, !.req[r].pending_bootstrap = TRUE,
                          !.bootstrap = Append(@, r)]
<1>0. PrefillReceive(S, r) = T
  BY DEF PrefillReceive
<1>1. Still(S, U) /\ PreShape(U)
  BY StillStatus, StillShape, PollStates DEF PreInv
<1>2. PreInv(U, c, a, b, stage)
  BY <1>1, PreInvStill
<1>3. ~U.req[r].arrived /\ SamePlaces(S, U)
  BY <1>1 DEF Still, SamePreReq
<1> HIDE DEF U
<1>4. /\ PreShape(T) /\ T.bootstrap = Append(U.bootstrap, r)
      /\ T.waiting = U.waiting /\ T.inflight = U.inflight /\ T.chunked = U.chunked
      /\ T.abort_chunked = U.abort_chunked /\ T.batch = U.batch
      /\ T.last_batch = U.last_batch /\ T.free_buffers = U.free_buffers
      /\ T.status = U.status /\ T.transfers = U.transfers
      /\ T.req = [U.req EXCEPT ![r] = [U.req[r] EXCEPT !.arrived = TRUE,
                                                       !.pending_bootstrap = TRUE]]
  BY ZenonT(60), <1>1 DEF PreShape, PreFields, PreReqFields
<1> HIDE DEF T
<1>5. /\ T.req[r].arrived = TRUE /\ T.req[r].pending_bootstrap = TRUE
      /\ T.req[r].len = U.req[r].len /\ T.req[r].kv = U.req[r].kv
      /\ T.req[r].end = U.req[r].end /\ T.req[r].chunks = U.req[r].chunks
      /\ T.req[r].aborted = U.req[r].aborted /\ T.req[r].buffer = U.req[r].buffer
      /\ T.req[r].conclude = U.req[r].conclude /\ T.req[r].answers = U.req[r].answers
      /\ \A q \in Request \ {r} : T.req[q] = U.req[q]
  BY <1>1, <1>4 DEF PreShape, PreReqFields
<1>6. PreReqAt(U, c, a, b, stage, r)
  BY <1>2 DEF PreInv
<1>7. /\ r \notin Range(U.bootstrap) /\ r \notin Range(U.waiting) /\ r \notin Range(U.inflight)
      /\ U.chunked # r
  BY <1>3, <1>6 DEF PreReqAt, PreReqOK
<1>8. Entered(U.bootstrap, T.bootstrap, r)
  BY <1>2, <1>4, <1>7, EnteredQueue DEF PreInv, PreQueues
<1>9. PreTyped(T) /\ PreQueues(T) /\ SameBuffers(U, T) /\ Elsewhere(U, T, r)
  <2>1. PreTyped(T)
    BY <1>2, <1>4 DEF PreInv, PreTyped
  <2>2. PreQueues(T)
    BY <1>2, <1>4, <1>8 DEF PreInv, PreQueues, Entered
  <2>3. SameBuffers(U, T)
    BY <1>4, <1>5 DEF SameBuffers
  <2>4. Elsewhere(U, T, r)
    BY <1>4, <1>5, <1>8 DEF Elsewhere, Entered, SamePreReq
  <2> QED
    BY <2>1, <2>2, <2>3, <2>4
<1>10. FreeBuffers(T, PrefillBuffers)
  BY SMTT(60), <1>2, <1>9, SameBuffersKeep DEF PreInv
<1>11. PreReqAt(T, c, a, b, stage, r)
  <2>1. r \in Range(T.bootstrap)
    BY <1>8 DEF Entered
  <2> QED
    BY ZenonT(60), <1>3, <1>4, <1>5, <1>6, <1>7, <2>1 DEF PreReqAt, PreReqOK
<1>12. PreInv(T, c, a, b, stage)
  BY <1>2, <1>4, <1>9, <1>10, <1>11, OneMoves, EntriesSame
<1> QED
  BY <1>0, <1>3, <1>4, <1>12 DEF SamePlaces

(* abort_request. *)
AbortMarked(S, r) ==
    [S EXCEPT !.req[r].abort_asked = TRUE,
              !.abort_chunked = IF S.chunked = r THEN r ELSE @]

LEMMA AbortMarkedKeeps ==
  ASSUME NEW S, NEW c, NEW a, NEW b,
         PreInv(S, c, a, b, "open"), NEW r \in Request
  PROVE  LET T == AbortMarked(S, r)
         IN  /\ PreInv(T, c, a, b, "open") /\ T.chunked = S.chunked
             /\ T.batch = S.batch /\ T.last_batch = S.last_batch
             /\ T.bootstrap = S.bootstrap /\ T.waiting = S.waiting /\ T.inflight = S.inflight
             /\ S.chunked = r => T.abort_chunked = r
             /\ SamePreReq(S.req[r], T.req[r])
<1> DEFINE A == [S EXCEPT !.req[r].abort_asked = TRUE]
           v == IF A.chunked = r THEN r ELSE A.abort_chunked
           T == [A EXCEPT !.abort_chunked = v]
<1>1. Still(S, A) /\ PreShape(A)
  BY ZenonT(60), StillField, StillShape DEF PreInv
<1>2. PreInv(A, c, a, b, "open")
  BY <1>1, PreInvStill
<1>3. SamePlaces(S, A) /\ SamePreReq(S.req[r], A.req[r])
  BY ZenonT(60), <1>1 DEF Still
<1>4. AbortMarked(S, r) = T
  <2>1. A.chunked = S.chunked
    BY <1>3 DEF SamePlaces
  <2> QED
    BY <2>1 DEF AbortMarked
<1> HIDE DEF A
<1>5. v \in Request \union {Nil} /\ (A.chunked = r => v = r) /\ (A.chunked # r => v = A.abort_chunked)
  BY <1>2 DEF PreInv, PreQueues
<1> HIDE DEF v
<1>6. /\ PreShape(T) /\ T.abort_chunked = v /\ T.req = A.req
      /\ T.bootstrap = A.bootstrap /\ T.waiting = A.waiting /\ T.inflight = A.inflight
      /\ T.chunked = A.chunked /\ T.batch = A.batch /\ T.last_batch = A.last_batch
      /\ T.free_buffers = A.free_buffers /\ T.status = A.status
      /\ T.transfers = A.transfers
  BY <1>1 DEF PreShape, PreFields
<1> HIDE DEF T
<1>7. PreTyped(T) /\ PreQueues(T) /\ SameBuffers(A, T) /\ Elsewhere(A, T, r)
  BY <1>2, <1>5, <1>6 DEF PreInv, PreTyped, PreQueues, SameBuffers, Elsewhere, SamePreReq
<1>8. FreeBuffers(T, PrefillBuffers)
  BY <1>2, <1>7, SameBuffersKeep DEF PreInv
<1>9. PreReqAt(A, c, a, b, "open", r)
  BY SMTT(60), <1>2 DEF PreInv
<1>10. PreReqAt(T, c, a, b, "open", r)
  BY <1>5, <1>6, <1>9 DEF PreReqAt, PreReqOK
<1>11. PreInv(T, c, a, b, "open")
  BY <1>2, <1>6, <1>7, <1>8, <1>10, OneMoves, EntriesSame
<1> QED
  BY <1>3, <1>4, <1>5, <1>6, <1>11 DEF SamePlaces

(* The request is waiting: it is answered at once. *)
LEMMA AbortWaiting ==
  ASSUME NEW S, NEW c, NEW a, NEW b,
         PreInv(S, c, a, b, "open"), NEW r \in Range(S.waiting), NEW R, NEW U,
         R = ReleaseBuffer(S, r), U \in {R, AbortSender(R, r)}
  PROVE  LET T == Answer([U EXCEPT !.waiting = Without(@, r)], r)
         IN  /\ PreInv(T, c, a, b, "open")
             /\ T.batch = S.batch /\ T.last_batch = S.last_batch
<1> DEFINE V == [U EXCEPT !.waiting = Without(@, r)]
           T == Answer(V, r)
<1>0. r \in Request /\ PreShape(S)
  BY DistinctRange DEF PreInv, PreQueues
<1>1. /\ PreShape(R) /\ Gave(S, R, r)
      /\ R.bootstrap = S.bootstrap /\ R.waiting = S.waiting /\ R.inflight = S.inflight
      /\ R.chunked = S.chunked /\ R.abort_chunked = S.abort_chunked
      /\ R.batch = S.batch /\ R.last_batch = S.last_batch /\ R.status = S.status
      /\ R.transfers = S.transfers
      /\ R.req[r].arrived = S.req[r].arrived /\ R.req[r].len = S.req[r].len
      /\ R.req[r].kv = S.req[r].kv /\ R.req[r].end = S.req[r].end
      /\ R.req[r].chunks = S.req[r].chunks
      /\ R.req[r].pending_bootstrap = S.req[r].pending_bootstrap
      /\ R.req[r].aborted = S.req[r].aborted /\ R.req[r].conclude = S.req[r].conclude
      /\ R.req[r].answers = S.req[r].answers
      /\ \A q \in Request \ {r} : R.req[q] = S.req[q]
  BY <1>0, ReleaseBufferEffect
<1>2. Still(R, U)
  BY <1>0, <1>1, StillAbortSender, StillSame
<1>3. /\ PreShape(V) /\ V.waiting = Without(U.waiting, r) /\ V.req = U.req
      /\ V.bootstrap = U.bootstrap /\ V.inflight = U.inflight /\ V.chunked = U.chunked
      /\ V.abort_chunked = U.abort_chunked /\ V.batch = U.batch
      /\ V.last_batch = U.last_batch /\ V.free_buffers = U.free_buffers
      /\ V.status = U.status /\ V.transfers = U.transfers
  BY <1>2 DEF Still, PreShape, PreFields
<1> HIDE DEF V
<1>4. PreShape(V)
  BY <1>3
<1>5. T.req[r].answers = V.req[r].answers + 1
  BY <1>0, <1>4, PreAnswerEffect
<1>6. /\ PreShape(T)
      /\ T.bootstrap = V.bootstrap /\ T.waiting = V.waiting /\ T.inflight = V.inflight
      /\ T.chunked = V.chunked /\ T.abort_chunked = V.abort_chunked
      /\ T.batch = V.batch /\ T.last_batch = V.last_batch
      /\ T.free_buffers = V.free_buffers /\ T.status = V.status
      /\ T.transfers = V.transfers
      /\ T.req[r].arrived = V.req[r].arrived /\ T.req[r].len = V.req[r].len
      /\ T.req[r].kv = V.req[r].kv /\ T.req[r].end = V.req[r].end
      /\ T.req[r].chunks = V.req[r].chunks
      /\ T.req[r].pending_bootstrap = V.req[r].pending_bootstrap
      /\ T.req[r].aborted = V.req[r].aborted /\ T.req[r].buffer = V.req[r].buffer
      /\ T.req[r].conclude = V.req[r].conclude
      /\ \A q \in Request \ {r} : T.req[q] = V.req[q]
  BY <1>0, <1>4, PreAnswerEffect
<1> HIDE DEF T
<1>7. PreReqAt(S, c, a, b, "open", r)
  BY <1>0 DEF PreInv
<1>8. /\ r \notin Range(S.bootstrap) /\ r \notin Range(S.inflight) /\ S.chunked # r
      /\ ~PartIn(b, r, c.len[r]) /\ S.req[r].kv = FALSE
      /\ S.req[r].aborted \in BOOLEAN /\ S.req[r].pending_bootstrap \in BOOLEAN
  BY <1>7 DEF PreReqAt, PreReqOK
<1>9. SamePlaces(R, U) /\ U.free_buffers = R.free_buffers /\ (PreTyped(R) => PreTyped(U))
  BY <1>2 DEF Still
<1>10. \A q \in Request : SamePreReq(R.req[q], U.req[q])
  BY <1>2 DEF Still
<1>11. PreTyped(T)
  BY <1>1, <1>3, <1>6, <1>9 DEF PreInv, PreTyped
<1>12. /\ T.bootstrap = S.bootstrap /\ T.inflight = S.inflight
       /\ T.waiting = Without(S.waiting, r) /\ T.chunked = S.chunked
       /\ T.abort_chunked = S.abort_chunked
       /\ T.batch = S.batch /\ T.last_batch = S.last_batch
  BY <1>1, <1>3, <1>6, <1>9 DEF SamePlaces
<1>13. /\ Left(S.bootstrap, T.bootstrap, r) /\ Left(S.waiting, T.waiting, r)
       /\ Left(S.inflight, T.inflight, r)
  BY <1>8, <1>12, LeftSame, LeftWithout DEF PreInv, PreQueues
<1>14. Gave(S, T, r)
  BY SMTT(60), <1>0, <1>1, <1>3, <1>6, <1>9, <1>10 DEF Gave, SamePreReq
<1>15. T.req[r].answers = S.req[r].answers + 1
  BY <1>0, <1>1, <1>3, <1>5, <1>10 DEF SamePreReq
<1>16. /\ T.req[r].arrived = S.req[r].arrived /\ T.req[r].len = S.req[r].len
       /\ T.req[r].end = S.req[r].end /\ T.req[r].chunks = S.req[r].chunks
       /\ T.req[r].kv = FALSE /\ T.req[r].pending_bootstrap \in BOOLEAN
       /\ T.req[r].aborted \in BOOLEAN
  BY SMTT(60), <1>0, <1>1, <1>3, <1>6, <1>8, <1>10 DEF SamePreReq
<1>17. \A q \in Request \ {r} : SamePreReq(S.req[q], T.req[q])
  BY <1>1, <1>3, <1>6, <1>10
<1>18. Leaves(S, T, r)
  BY <1>6, <1>8, <1>11, <1>12, <1>13, <1>14, <1>15, <1>16, <1>17 DEF Leaves
<1>19. PreInv(T, c, a, b, "open")
  BY <1>0, <1>8, <1>18, LeavesKeeps
<1> QED
  BY <1>12, <1>19 DEF T, V

(* The request is marked: the loop will find it. *)
Marked(S, R, r) ==
    /\ PreShape(R) /\ SamePlaces(S, R) /\ R.free_buffers = S.free_buffers
    /\ R.status = S.status /\ R.transfers = S.transfers
    /\ R.req[r].aborted \in BOOLEAN /\ (S.req[r].aborted => R.req[r].aborted)
    /\ R.req[r].arrived = S.req[r].arrived /\ R.req[r].len = S.req[r].len
    /\ R.req[r].kv = S.req[r].kv /\ R.req[r].end = S.req[r].end
    /\ R.req[r].chunks = S.req[r].chunks
    /\ R.req[r].pending_bootstrap = S.req[r].pending_bootstrap
    /\ R.req[r].buffer = S.req[r].buffer /\ R.req[r].answers = S.req[r].answers
    /\ \A q \in Request \ {r} : R.req[q] = S.req[q]

LEMMA MarkedEffect ==
  ASSUME NEW S, PreShape(S), NEW r \in Request, NEW v \in BOOLEAN, S.req[r].aborted => v
  PROVE  Marked(S, [S EXCEPT !.req[r].aborted = v], r)
<1> DEFINE R == [S EXCEPT !.req[r].aborted = v]
<1>1. /\ PreShape(R)
      /\ R.bootstrap = S.bootstrap /\ R.waiting = S.waiting /\ R.inflight = S.inflight
      /\ R.chunked = S.chunked /\ R.abort_chunked = S.abort_chunked
      /\ R.batch = S.batch /\ R.last_batch = S.last_batch
      /\ R.free_buffers = S.free_buffers /\ R.status = S.status
      /\ R.transfers = S.transfers
      /\ R.req = [S.req EXCEPT ![r] = [S.req[r] EXCEPT !.aborted = v]]
  BY DEF PreShape, PreFields, PreReqFields
<1> HIDE DEF R
<1>2. \A q \in Request \ {r} : R.req[q] = S.req[q]
  BY <1>1
<1>3. R.req[r] = [S.req[r] EXCEPT !.aborted = v] /\ DOMAIN S.req[r] = PreReqFields
  BY <1>1 DEF PreShape
<1>4. R.req[r].aborted = v
  BY <1>3 DEF PreReqFields
<1>5. /\ R.req[r].arrived = S.req[r].arrived /\ R.req[r].len = S.req[r].len
      /\ R.req[r].kv = S.req[r].kv /\ R.req[r].end = S.req[r].end
      /\ R.req[r].chunks = S.req[r].chunks
      /\ R.req[r].pending_bootstrap = S.req[r].pending_bootstrap
      /\ R.req[r].buffer = S.req[r].buffer /\ R.req[r].answers = S.req[r].answers
  BY <1>3 DEF PreReqFields
<1>6. R.req[r].aborted \in BOOLEAN /\ (S.req[r].aborted => R.req[r].aborted)
  BY <1>4, ZenonT(60)
<1>7. SamePlaces(S, R)
  BY <1>1 DEF SamePlaces
<1>8. Marked(S, R, r)
  BY <1>1, <1>2, <1>5, <1>6, <1>7 DEF Marked
<1> QED
  BY <1>8 DEF R

LEMMA AbortElsewhere ==
  ASSUME NEW S, NEW c, NEW a, NEW b,
         PreInv(S, c, a, b, "open"), NEW r \in Request, S.req[r].arrived,
         r \notin Range(S.waiting), S.chunked = r => S.abort_chunked = r,
         NEW R, NEW T, Marked(S, R, r),
         \/ T = AbortSender(R, r)
         \/ T = R /\ r \notin Range(S.bootstrap)
  PROVE  /\ PreInv(T, c, a, b, "open")
         /\ T.batch = S.batch /\ T.last_batch = S.last_batch
<1>1. /\ PreShape(R)
      /\ R.bootstrap = S.bootstrap /\ R.waiting = S.waiting /\ R.inflight = S.inflight
      /\ R.chunked = S.chunked /\ R.abort_chunked = S.abort_chunked
      /\ R.batch = S.batch /\ R.last_batch = S.last_batch
      /\ R.free_buffers = S.free_buffers /\ R.status = S.status
      /\ R.transfers = S.transfers
  BY DEF Marked, SamePlaces
<1>2. /\ R.req[r].aborted \in BOOLEAN /\ (S.req[r].aborted => R.req[r].aborted)
      /\ \A q \in Request \ {r} : R.req[q] = S.req[q]
      /\ R.req[r].buffer = S.req[r].buffer
  BY DEF Marked
<1>3. Still(R, T) /\ (r \in Range(S.bootstrap) => T.req[r].conclude = Failed)
  BY <1>1, StillAbortSender, StillSame
<1>4. /\ SamePlaces(R, T) /\ T.free_buffers = R.free_buffers /\ (PreTyped(R) => PreTyped(T))
      /\ \A q \in Request : SamePreReq(R.req[q], T.req[q])
      /\ PreShape(T)
  BY <1>3 DEF Still
<1>5. PreTyped(T)
  BY <1>1, <1>4 DEF PreInv, PreTyped
<1>6. SamePlaces(S, T) /\ PreQueues(T)
  BY <1>1, <1>4 DEF PreInv, PreQueues, SamePlaces
<1>7. SameBuffers(S, T)
  BY <1>1, <1>2, <1>4 DEF SameBuffers, SamePreReq
<1>8. Elsewhere(S, T, r)
  BY <1>2, <1>4, <1>6 DEF Elsewhere, SamePlaces
<1>9. FreeBuffers(T, PrefillBuffers)
  BY <1>7, SameBuffersKeep DEF PreInv
<1>10. PreReqAt(S, c, a, b, "open", r)
  BY SMTT(60) DEF PreInv
<1>11. PreReqAt(T, c, a, b, "open", r)
  <2>1. /\ T.req[r].aborted = R.req[r].aborted /\ T.req[r].arrived = S.req[r].arrived
        /\ T.req[r].len = S.req[r].len /\ T.req[r].kv = S.req[r].kv
        /\ T.req[r].end = S.req[r].end /\ T.req[r].chunks = S.req[r].chunks
        /\ T.req[r].pending_bootstrap = S.req[r].pending_bootstrap
        /\ T.req[r].buffer = S.req[r].buffer /\ T.req[r].answers = S.req[r].answers
    BY ZenonT(60), <1>4 DEF SamePreReq, Marked
  <2> QED
    BY <1>2, <1>3, <1>6, <1>10, <2>1 DEF PreReqAt, PreReqOK, SamePlaces
<1>12. PreInv(T, c, a, b, "open")
  BY <1>4, <1>5, <1>6, <1>8, <1>9, <1>11, OneMoves, EntriesSame
<1> QED
  BY <1>6, <1>12 DEF SamePlaces

LEMMA PrefillAbortKeeps ==
  ASSUME NEW S, NEW c, NEW a, NEW b,
         PreInv(S, c, a, b, "open"), NEW r \in Request, S.req[r].arrived
  PROVE  LET T == PrefillAbort(S, r)
         IN  /\ PreInv(T, c, a, b, "open")
             /\ T.batch = S.batch /\ T.last_batch = S.last_batch
<1> DEFINE M == AbortMarked(S, r)
           R == ReleaseBuffer(M, r)
           U == IF S.req[r].pending_bootstrap THEN AbortSender(R, r) ELSE R
           v == M.req[r].aborted
                    \/ (\E x \in Range(S.last_batch) : x.req = r /\ S.req[r].answers = 0)
           N == [M EXCEPT !.req[r].aborted = v]
<1>1. /\ PreInv(M, c, a, b, "open") /\ M.chunked = S.chunked
      /\ M.batch = S.batch /\ M.last_batch = S.last_batch
      /\ M.bootstrap = S.bootstrap /\ M.waiting = S.waiting /\ M.inflight = S.inflight
      /\ S.chunked = r => M.abort_chunked = r
      /\ SamePreReq(S.req[r], M.req[r])
  BY AbortMarkedKeeps
<1>2. PrefillAbort(S, r) =
        IF r \in Range(S.waiting) THEN Answer([U EXCEPT !.waiting = Without(@, r)], r)
        ELSE IF r \in Range(S.bootstrap) \union Range(S.inflight) THEN AbortSender(N, r)
        ELSE N
  BY DEF PrefillAbort, AbortMarked
<1>3. U \in {R, AbortSender(R, r)} /\ v \in BOOLEAN /\ (M.req[r].aborted => v)
  OBVIOUS
<1>4. M.req[r].arrived
  BY <1>1 DEF SamePreReq
<1> HIDE DEF M
<1>5. CASE r \in Range(S.waiting)
  <2> DEFINE A == Answer([U EXCEPT !.waiting = Without(@, r)], r)
  <2>0. R = ReleaseBuffer(M, r)
    OBVIOUS
  <2> HIDE DEF U, R
  <2>1. /\ PreInv(A, c, a, b, "open")
        /\ A.batch = M.batch /\ A.last_batch = M.last_batch
    BY <1>1, <1>3, <1>5, <2>0, AbortWaiting
  <2>2. PrefillAbort(S, r) = A
    BY <1>2, <1>5
  <2> HIDE DEF A
  <2> QED
    BY <1>1, <2>1, <2>2
<1>6. CASE r \notin Range(S.waiting)
  <2> DEFINE A == PrefillAbort(S, r)
  <2>1. A = AbortSender(N, r) \/ (A = N /\ r \notin Range(S.bootstrap))
    BY <1>2, <1>6
  <2>2. Marked(M, N, r)
    <3>1. PreShape(M)
      BY <1>1 DEF PreInv
    <3> HIDE DEF v
    <3> QED
      BY SMTT(60), <1>3, <3>1, MarkedEffect
  <2> HIDE DEF v, N, A
  <2>3. /\ PreInv(A, c, a, b, "open")
        /\ A.batch = M.batch /\ A.last_batch = M.last_batch
    BY ZenonT(60), <1>1, <1>3, <1>4, <1>6, <2>1, <2>2, AbortElsewhere
  <2> QED
    BY <1>1, <2>3 DEF A
<1> QED
  BY <1>5, <1>6

(* The request r is taken out of its queue. *)
Removal(U, G, r) ==
    /\ PreShape(G) /\ G.req = U.req /\ G.free_buffers = U.free_buffers
    /\ G.status = U.status /\ G.transfers = U.transfers
    /\ G.chunked = U.chunked /\ G.abort_chunked = U.abort_chunked
    /\ G.batch = U.batch /\ G.last_batch = U.last_batch
    /\ Left(U.bootstrap, G.bootstrap, r) /\ Left(U.waiting, G.waiting, r)
    /\ Left(U.inflight, G.inflight, r)

InSomeQueue(S, r) == r \in Range(S.bootstrap) \union Range(S.waiting) \union Range(S.inflight)

LEMMA InSomeQueueFacts ==
  ASSUME NEW S, NEW c, NEW a, NEW b, NEW stage, PreInv(S, c, a, b, stage), NEW r,
         InSomeQueue(S, r)
  PROVE  /\ r \in Request /\ S.chunked # r
         /\ ~PartIn(a, r, c.len[r]) /\ ~PartIn(b, r, c.len[r])
         /\ ~WholeIn(a, r, c.len[r]) /\ ~WholeIn(b, r, c.len[r])
         /\ ~(r \in Range(S.bootstrap) /\ r \in Range(S.waiting))
         /\ ~(r \in Range(S.bootstrap) /\ r \in Range(S.inflight))
         /\ ~(r \in Range(S.waiting) /\ r \in Range(S.inflight))
         /\ S.req[r].arrived /\ S.req[r].answers = 0
         /\ PreReqAt(S, c, a, b, stage, r)
<1>1. r \in Request
  BY DistinctRange DEF PreInv, PreQueues, InSomeQueue
<1>2. PreReqAt(S, c, a, b, stage, r)
  BY <1>1 DEF PreInv
<1> QED
  BY <1>1, <1>2 DEF PreReqAt, PreReqOK, InSomeQueue

LEMMA RemovalEffect ==
  ASSUME NEW S, NEW c, NEW a, NEW b, NEW stage, PreInv(S, c, a, b, stage), NEW r
  PROVE  /\ r \in Range(S.bootstrap) => Removal(S, [S EXCEPT !.bootstrap = Without(@, r)], r)
         /\ r \in Range(S.waiting) => Removal(S, [S EXCEPT !.waiting = Without(@, r)], r)
         /\ r \in Range(S.inflight) => Removal(S, [S EXCEPT !.inflight = Without(@, r)], r)
<1>0. /\ PreShape(S) /\ Distinct(S.bootstrap, Request) /\ Distinct(S.waiting, Request)
      /\ Distinct(S.inflight, Request)
  BY DEF PreInv, PreQueues
<1>1. ASSUME r \in Range(S.bootstrap)
      PROVE  Removal(S, [S EXCEPT !.bootstrap = Without(@, r)], r)
  <2> DEFINE G == [S EXCEPT !.bootstrap = Without(@, r)]
  <2>1. r \notin Range(S.waiting) /\ r \notin Range(S.inflight)
    BY <1>1, InSomeQueueFacts DEF InSomeQueue
  <2>2. /\ PreShape(G) /\ G.req = S.req /\ G.bootstrap = Without(S.bootstrap, r)
        /\ G.waiting = S.waiting /\ G.inflight = S.inflight /\ G.chunked = S.chunked
        /\ G.abort_chunked = S.abort_chunked /\ G.batch = S.batch
        /\ G.last_batch = S.last_batch /\ G.free_buffers = S.free_buffers
        /\ G.status = S.status /\ G.transfers = S.transfers
    BY <1>0 DEF PreShape, PreFields
  <2> HIDE DEF G
  <2>3. Removal(S, G, r)
    BY <1>0, <2>1, <2>2, LeftSame, LeftWithout DEF Removal
  <2> QED
    BY <2>3 DEF G
<1>2. ASSUME r \in Range(S.waiting)
      PROVE  Removal(S, [S EXCEPT !.waiting = Without(@, r)], r)
  <2> DEFINE G == [S EXCEPT !.waiting = Without(@, r)]
  <2>1. r \notin Range(S.bootstrap) /\ r \notin Range(S.inflight)
    BY <1>2, InSomeQueueFacts DEF InSomeQueue
  <2>2. /\ PreShape(G) /\ G.req = S.req /\ G.waiting = Without(S.waiting, r)
        /\ G.bootstrap = S.bootstrap /\ G.inflight = S.inflight
        /\ G.chunked = S.chunked /\ G.abort_chunked = S.abort_chunked
        /\ G.batch = S.batch /\ G.last_batch = S.last_batch
        /\ G.free_buffers = S.free_buffers /\ G.status = S.status
        /\ G.transfers = S.transfers
    BY <1>0 DEF PreShape, PreFields
  <2> HIDE DEF G
  <2>3. Removal(S, G, r)
    BY <1>0, <2>1, <2>2, LeftSame, LeftWithout DEF Removal
  <2> QED
    BY <2>3 DEF G
<1>3. ASSUME r \in Range(S.inflight)
      PROVE  Removal(S, [S EXCEPT !.inflight = Without(@, r)], r)
  <2> DEFINE G == [S EXCEPT !.inflight = Without(@, r)]
  <2>1. r \notin Range(S.bootstrap) /\ r \notin Range(S.waiting)
    BY <1>3, InSomeQueueFacts DEF InSomeQueue
  <2>2. /\ PreShape(G) /\ G.req = S.req /\ G.inflight = Without(S.inflight, r)
        /\ G.bootstrap = S.bootstrap /\ G.waiting = S.waiting /\ G.chunked = S.chunked
        /\ G.abort_chunked = S.abort_chunked /\ G.batch = S.batch
        /\ G.last_batch = S.last_batch /\ G.free_buffers = S.free_buffers
        /\ G.status = S.status /\ G.transfers = S.transfers
    BY <1>0 DEF PreShape, PreFields
  <2> HIDE DEF G
  <2>3. Removal(S, G, r)
    BY <1>0, <2>1, <2>2, LeftSame, LeftWithout DEF Removal
  <2> QED
    BY <2>3 DEF G
<1> QED
  BY SMTT(60), <1>1, <1>2, <1>3

(* handle_bootstrap_failure of a request that is taken out of its queue. *)
LEMMA FailedKeeps ==
  ASSUME NEW S, NEW c, NEW a, NEW b, NEW stage, PreInv(S, c, a, b, stage), NEW r,
         InSomeQueue(S, r), NEW G, Removal(S, G, r)
  PROVE  LET T == HandleBootstrapFailure(G, r)
         IN  PreInv(T, c, a, b, stage) /\ SamePlaces(G, T)
<1> DEFINE T == HandleBootstrapFailure(G, r)
<1>1. r \in Request /\ S.chunked # r /\ ~PartIn(b, r, c.len[r])
  BY InSomeQueueFacts
<1>2. BootstrapFailed(G, T, r)
  BY <1>1, BootstrapFailureEffect DEF Removal
<1> HIDE DEF T
<1>3. PreTyped(T) /\ PreShape(T)
  BY <1>2 DEF BootstrapFailed, Removal, PreInv, PreTyped
<1>4. Gave(S, T, r)
  BY <1>2 DEF BootstrapFailed, Removal, Gave
<1>5. T.req[r].answers = S.req[r].answers + 1
  BY <1>2 DEF BootstrapFailed, Removal
<1>6. Leaves(S, T, r)
  BY ZenonT(60), <1>1, <1>2, <1>3, <1>4, <1>5 DEF Leaves, BootstrapFailed, Removal, SamePlaces
<1>7. PreInv(T, c, a, b, stage)
  BY <1>1, <1>6, LeavesKeeps DEF InSomeQueue
<1> QED
  BY <1>2, <1>7 DEF BootstrapFailed, T

(* pop_bootstrapped moves a request to the waiting queue. *)
HasBuffer(G, E, r) ==
    /\ PreShape(E) /\ (PreTyped(G) => PreTyped(E)) /\ SamePlaces(G, E) /\ Held(G, E, r)
    /\ E.req[r].pending_bootstrap \in BOOLEAN
    /\ E.req[r].arrived = G.req[r].arrived /\ E.req[r].len = G.req[r].len
    /\ E.req[r].kv = G.req[r].kv /\ E.req[r].end = G.req[r].end
    /\ E.req[r].chunks = G.req[r].chunks /\ E.req[r].aborted = G.req[r].aborted
    /\ E.req[r].answers = G.req[r].answers
    /\ \A q \in Request \ {r} : SamePreReq(G.req[q], E.req[q])

IntoWaiting(E, r) == [E EXCEPT !.waiting = Append(@, r)]

LEMMA ToWaiting ==
  ASSUME NEW S, NEW c, NEW a, NEW b, NEW stage, PreInv(S, c, a, b, stage),
         NEW r \in Range(S.bootstrap), ~S.req[r].aborted,
         NEW G, Removal(S, G, r), NEW E, HasBuffer(G, E, r),
         NEW T, T = IntoWaiting(E, r)
  PROVE  /\ PreInv(T, c, a, b, stage) /\ Range(T.bootstrap) = Range(S.bootstrap) \ {r}
         /\ T.batch = S.batch /\ T.last_batch = S.last_batch
<1>0. /\ PreShape(E) /\ (PreTyped(G) => PreTyped(E)) /\ SamePlaces(G, E) /\ Held(G, E, r)
      /\ \A q \in Request \ {r} : SamePreReq(G.req[q], E.req[q])
  BY SMTT(60) DEF HasBuffer
<1>1. /\ r \in Request /\ S.chunked # r /\ PreReqAt(S, c, a, b, stage, r)
      /\ r \notin Range(S.waiting) /\ r \notin Range(S.inflight)
      /\ S.req[r].arrived /\ S.req[r].answers = 0
  BY InSomeQueueFacts DEF InSomeQueue
<1>2. /\ PreShape(T) /\ T.req = E.req /\ T.waiting = Append(E.waiting, r)
      /\ T.bootstrap = E.bootstrap /\ T.inflight = E.inflight /\ T.chunked = E.chunked
      /\ T.abort_chunked = E.abort_chunked /\ T.batch = E.batch
      /\ T.last_batch = E.last_batch /\ T.free_buffers = E.free_buffers
      /\ T.status = E.status /\ T.transfers = E.transfers
  BY <1>0 DEF PreShape, PreFields, IntoWaiting
<1>3. PreTyped(T)
  BY <1>0, <1>2 DEF Removal, PreInv, PreTyped
<1>4. Distinct(G.waiting, Request) /\ r \notin Range(G.waiting) /\ E.waiting = G.waiting
  BY <1>0 DEF Removal, Left, SamePlaces
<1>5. Entered(G.waiting, T.waiting, r)
  BY <1>1, <1>2, <1>4, EnteredQueue
<1>6. PreQueues(T)
  BY <1>0, <1>2, <1>5 DEF PreInv, PreQueues, Removal, Left, SamePlaces, Entered
<1>7. FreeBuffers(T, PrefillBuffers) /\ T.req[r].buffer # Nil
  <2>1. FreeBuffers(G, PrefillBuffers)
    BY SameBuffersKeep DEF Removal, SameBuffers, PreInv
  <2>2. Held(G, T, r)
    BY <1>0, <1>2 DEF Held, Took, SameBuffers
  <2> QED
    BY <1>1, <2>1, <2>2, HeldKeeps
<1>8. Elsewhere(S, T, r)
  BY <1>0, <1>2, <1>5 DEF Elsewhere, Removal, Left, SamePlaces, Entered
<1>9. PreReqAt(T, c, a, b, stage, r)
  <2>1. /\ r \notin Range(T.bootstrap) /\ r \in Range(T.waiting) /\ r \notin Range(T.inflight)
        /\ T.chunked # r
    BY <1>0, <1>1, <1>2, <1>5 DEF Entered, Removal, Left, SamePlaces
  <2>2. /\ T.req[r].pending_bootstrap \in BOOLEAN
        /\ T.req[r].arrived = S.req[r].arrived /\ T.req[r].len = S.req[r].len
        /\ T.req[r].kv = S.req[r].kv /\ T.req[r].end = S.req[r].end
        /\ T.req[r].chunks = S.req[r].chunks /\ T.req[r].aborted = S.req[r].aborted
        /\ T.req[r].answers = S.req[r].answers
    BY <1>0, <1>2 DEF Removal, HasBuffer
  <2> QED
    BY <1>1, <1>7, <2>1, <2>2 DEF PreReqAt, PreReqOK
<1>10. PreInv(T, c, a, b, stage)
  BY <1>1, <1>2, <1>3, <1>6, <1>7, <1>8, <1>9, OneMoves, EntriesSame
<1>11. Range(T.bootstrap) = Range(S.bootstrap) \ {r}
  BY <1>0, <1>2 DEF Removal, Left, SamePlaces
<1>12. T.batch = S.batch /\ T.last_batch = S.last_batch
  BY <1>0, <1>2 DEF Removal, SamePlaces
<1> QED
  BY <1>10, <1>11, <1>12

LEMMA PollsApart ==
    /\ Failed # Nil /\ Failed # Bootstrapping /\ Failed # WaitingForInput /\ Failed # Success
    /\ Success # Nil
BY DEF Failed, Nil, Bootstrapping, WaitingForInput, Success

(* pop_bootstrapped, one entry. *)
LEMMA PopOneKeeps ==
  ASSUME NEW S, NEW c, NEW a, NEW b, NEW stage, PreInv(S, c, a, b, stage),
         NEW r \in Range(S.bootstrap), NEW max_attempts
  PROVE  LET T == PopOne(S, r, max_attempts)
         IN  /\ PreInv(T, c, a, b, stage) /\ Range(S.bootstrap) \ {r} \subseteq Range(T.bootstrap)
             /\ T.batch = S.batch /\ T.last_batch = S.last_batch
<1> DEFINE poll == PollValue(S, r)
           U == Polled(S, r)
           G == [U EXCEPT !.bootstrap = Without(@, r)]
           H == HandleBootstrapFailure(G, r)
           B == EnsureBuffer(G, r)
           n == B.req[r].attempts + 1
           E == [B EXCEPT !.req[r].attempts = n]
           F == FinalizeBootstrap(G, r)
           T == PopOne(S, r, max_attempts)
<1>1. r \in Request /\ PreShape(S) /\ PreReqAt(S, c, a, b, stage, r)
  BY InSomeQueueFacts DEF PreInv, InSomeQueue
<1>2. Still(S, U)
  BY <1>1, StillPolled
<1>3. PreInv(U, c, a, b, stage)
  BY <1>2, PreInvStill
<1>4. \/ T = U
      \/ poll = Failed /\ T = H
      \/ /\ poll # Failed /\ BufferAvailable(S, r)
         /\ T = IntoWaiting(E, r) \/ T = IntoWaiting(F, r)
  BY PollsApart DEF PopOne, IntoWaiting
<1>5. SamePlaces(S, U) /\ U.free_buffers = S.free_buffers /\ SamePreReq(S.req[r], U.req[r])
  BY <1>1, <1>2 DEF Still
<1> HIDE DEF U, T, poll
<1>6. r \in Range(U.bootstrap) /\ InSomeQueue(U, r)
  BY <1>5 DEF SamePlaces, InSomeQueue
<1>7. Removal(U, G, r)
  BY ZenonT(60), <1>3, <1>6, RemovalEffect
<1> HIDE DEF G
<1>8. CASE T = U
  BY <1>3, <1>5, <1>8 DEF SamePlaces, T
<1>9. CASE T = H
  <2>1. PreInv(H, c, a, b, stage) /\ SamePlaces(G, H)
    BY <1>3, <1>6, <1>7, FailedKeeps
  <2> HIDE DEF H
  <2> QED
    BY <1>5, <1>7, <1>9, <2>1 DEF Removal, SamePlaces, Left, T
<1>10. ASSUME poll # Failed, BufferAvailable(S, r)
       PROVE  ~U.req[r].aborted /\ PreShape(G) /\ BufferAvailable(G, r)
              /\ U.req[r].pending_bootstrap \in BOOLEAN
  <2>1. S.req[r].conclude # Failed
    BY <1>10, PollsApart DEF poll, PollValue
  <2>2. ~S.req[r].aborted /\ S.req[r].pending_bootstrap \in BOOLEAN
    BY <1>1, <2>1 DEF PreReqAt, PreReqOK
  <2> QED
    BY <1>5, <1>7, <1>10, <2>2 DEF SamePreReq, Removal, BufferAvailable
<1>11. ASSUME poll # Failed, BufferAvailable(S, r), T = IntoWaiting(E, r)
       PROVE  PreInv(T, c, a, b, stage) /\ Range(T.bootstrap) = Range(U.bootstrap) \ {r}
              /\ T.batch = U.batch /\ T.last_batch = U.last_batch
  <2>1. /\ PreShape(B) /\ Held(G, B, r)
        /\ B.bootstrap = G.bootstrap /\ B.waiting = G.waiting
        /\ B.inflight = G.inflight /\ B.chunked = G.chunked
        /\ B.abort_chunked = G.abort_chunked /\ B.batch = G.batch
        /\ B.last_batch = G.last_batch /\ B.status = G.status
        /\ B.transfers = G.transfers
        /\ B.req[r].arrived = G.req[r].arrived /\ B.req[r].len = G.req[r].len
        /\ B.req[r].kv = G.req[r].kv /\ B.req[r].end = G.req[r].end
        /\ B.req[r].chunks = G.req[r].chunks
        /\ B.req[r].pending_bootstrap = G.req[r].pending_bootstrap
        /\ B.req[r].aborted = G.req[r].aborted /\ B.req[r].conclude = G.req[r].conclude
        /\ B.req[r].answers = G.req[r].answers
        /\ \A q \in Request \ {r} : B.req[q] = G.req[q]
    BY <1>1, <1>10, <1>11, EnsureBufferEffect
  <2> HIDE DEF B
  <2>2. Still(B, E)
    <3> HIDE DEF n
    <3> QED
      BY ZenonT(60), <1>1, <2>1, StillField
  <2> HIDE DEF E
  <2>3. PreShape(E) /\ (PreTyped(G) => PreTyped(E)) /\ SamePlaces(G, E)
    BY <2>1, <2>2 DEF Still, PreTyped, SamePlaces
  <2>4. Held(G, E, r)
    <3>1. E.free_buffers = B.free_buffers /\ \A q \in Request : E.req[q].buffer = B.req[q].buffer
      BY <2>2 DEF Still, SamePreReq
    <3> QED
      BY <1>1, <2>1, <3>1 DEF Held, Took, SameBuffers
  <2>5. /\ E.req[r].pending_bootstrap = G.req[r].pending_bootstrap
        /\ E.req[r].arrived = G.req[r].arrived /\ E.req[r].len = G.req[r].len
        /\ E.req[r].kv = G.req[r].kv /\ E.req[r].end = G.req[r].end
        /\ E.req[r].chunks = G.req[r].chunks /\ E.req[r].aborted = G.req[r].aborted
        /\ E.req[r].answers = G.req[r].answers
    <3>1. SamePreReq(B.req[r], E.req[r])
      BY <1>1, <2>2 DEF Still
    <3> QED
      BY <2>1, <3>1 DEF SamePreReq
  <2>6. \A q \in Request \ {r} : SamePreReq(G.req[q], E.req[q])
    BY <2>1, <2>2 DEF Still
  <2>7. E.req[r].pending_bootstrap \in BOOLEAN
    BY <1>7, <1>10, <1>11, <2>5 DEF Removal
  <2>8. HasBuffer(G, E, r)
    BY <2>3, <2>4, <2>5, <2>6, <2>7 DEF HasBuffer
  <2>9. ~U.req[r].aborted
    BY <1>10, <1>11
  <2> QED
    BY SMTT(60), <1>3, <1>6, <1>7, <1>11, <2>8, <2>9, ToWaiting
<1>12. ASSUME poll # Failed, BufferAvailable(S, r), T = IntoWaiting(F, r)
       PROVE  PreInv(T, c, a, b, stage) /\ Range(T.bootstrap) = Range(U.bootstrap) \ {r}
              /\ T.batch = U.batch /\ T.last_batch = U.last_batch
  <2>1. /\ PreShape(F) /\ Held(G, F, r)
        /\ F.bootstrap = G.bootstrap /\ F.waiting = G.waiting
        /\ F.inflight = G.inflight /\ F.chunked = G.chunked
        /\ F.abort_chunked = G.abort_chunked /\ F.batch = G.batch
        /\ F.last_batch = G.last_batch /\ F.status = G.status
        /\ F.transfers = G.transfers
        /\ F.req[r].pending_bootstrap = FALSE
        /\ F.req[r].arrived = G.req[r].arrived /\ F.req[r].len = G.req[r].len
        /\ F.req[r].kv = G.req[r].kv /\ F.req[r].end = G.req[r].end
        /\ F.req[r].chunks = G.req[r].chunks /\ F.req[r].aborted = G.req[r].aborted
        /\ F.req[r].conclude = G.req[r].conclude /\ F.req[r].answers = G.req[r].answers
        /\ \A q \in Request \ {r} : F.req[q] = G.req[q]
    BY ZenonT(60), <1>1, <1>10, <1>12, FinalizeEffect
  <2> HIDE DEF F
  <2>2. (PreTyped(G) => PreTyped(F)) /\ SamePlaces(G, F)
    BY <2>1 DEF PreTyped, SamePlaces
  <2>3. \A q \in Request \ {r} : SamePreReq(G.req[q], F.req[q])
    BY <2>1 DEF SamePreReq
  <2>4. F.req[r].pending_bootstrap \in BOOLEAN
    BY ZenonT(60), <2>1
  <2>5. HasBuffer(G, F, r)
    BY <2>1, <2>2, <2>3, <2>4 DEF HasBuffer
  <2>6. ~U.req[r].aborted
    BY <1>10, <1>12
  <2> QED
    BY <1>3, <1>6, <1>7, <1>12, <2>5, <2>6, ToWaiting
<1>13. CASE /\ poll # Failed /\ BufferAvailable(S, r)
            /\ T = IntoWaiting(E, r) \/ T = IntoWaiting(F, r)
  BY <1>5, <1>11, <1>12, <1>13 DEF SamePlaces, T
<1> QED
  BY <1>4, <1>8, <1>9, <1>13

LEMMA PopLoop ==
  ASSUME NEW S, NEW a, NEW b, NEW stage, PreInv(S, config, a, b, stage),
         NEW n \in Nat, NEW q, DOMAIN q = 1..n, IsInjective(q), Ahead(q, 0, n, S.bootstrap)
  PROVE  LET T == Bootstrap!Result(S, q)
         IN  /\ PreInv(T, config, a, b, stage)
             /\ T.batch = S.batch /\ T.last_batch = S.last_batch
<1> DEFINE g == Bootstrap!States(S, q, n)
<1>2. /\ g[0] = S
      /\ \A k \in 1..n : g[k] = PopBootstrappedOne(g[k-1], q[k])
      /\ Bootstrap!Result(S, q) = g[n]
  BY SMTT(60), Bootstrap!Loop
<1> HIDE DEF g
<1> DEFINE Q == {k \in 0..n : /\ PreInv(g[k], config, a, b, stage)
                              /\ g[k].batch = S.batch /\ g[k].last_batch = S.last_batch
                              /\ Ahead(q, k, n, g[k].bootstrap)}
<1>3. 0 \in Q
  BY <1>2
<1>4. ASSUME NEW k \in 1..n, k - 1 \in Q PROVE k \in Q
  <2>1. /\ PreInv(g[k-1], config, a, b, stage) /\ Ahead(q, k-1, n, g[k-1].bootstrap)
        /\ g[k-1].batch = S.batch /\ g[k-1].last_batch = S.last_batch
    BY <1>4
  <2>2. q[k] \in Range(g[k-1].bootstrap)
    BY <2>1, AheadNext
  <2>3. /\ PreInv(g[k], config, a, b, stage)
        /\ g[k].batch = g[k-1].batch /\ g[k].last_batch = g[k-1].last_batch
        /\ Range(g[k-1].bootstrap) \ {q[k]} \subseteq Range(g[k].bootstrap)
    <3>1. g[k] = PopOne(g[k-1], q[k], config.max_attempts)
      BY <1>2 DEF PopBootstrappedOne
    <3> DEFINE P == g[k-1]
               m == config.max_attempts
    <3> HIDE DEF P, m
    <3>2. g[k] = PopOne(P, q[k], m) /\ PreInv(P, config, a, b, stage)
          /\ q[k] \in Range(P.bootstrap)
      BY <3>1, <2>1, <2>2 DEF P, m
    <3>3. /\ PreInv(g[k], config, a, b, stage)
          /\ g[k].batch = P.batch /\ g[k].last_batch = P.last_batch
          /\ Range(P.bootstrap) \ {q[k]} \subseteq Range(g[k].bootstrap)
      BY <3>2, PopOneKeeps
    <3> QED
      BY <3>3 DEF P
  <2>4. Ahead(q, k, n, g[k].bootstrap)
    BY <2>1, <2>3, AheadStep
  <2> QED
    BY <2>1, <2>3, <2>4
<1> HIDE DEF Q
<1>5. n \in Q
  <2>1. \A k \in 0..n : k \in Q
    BY ZenonT(60), <1>3, <1>4, Connect!UpTo
  <2> QED
    BY <2>1
<1> QED
  BY <1>2, <1>5 DEF Q

LEMMA PopBootstrappedKeeps ==
  ASSUME NEW S, NEW a, NEW b, NEW stage, PreInv(S, config, a, b, stage)
  PROVE  LET T == PopBootstrapped(S, config.max_attempts)
         IN  /\ PreInv(T, config, a, b, stage)
             /\ T.batch = S.batch /\ T.last_batch = S.last_batch
<1> DEFINE q == S.bootstrap
<1>1. /\ Len(q) \in Nat /\ DOMAIN q = 1..Len(q) /\ IsInjective(q) /\ Ahead(q, 0, Len(q), q)
  BY AheadStart DEF PreInv, PreQueues
<1>2. LET T == Bootstrap!Result(S, q)
      IN  /\ PreInv(T, config, a, b, stage)
          /\ T.batch = S.batch /\ T.last_batch = S.last_batch
  BY <1>1, PopLoop
<1>3. PopBootstrapped(S, config.max_attempts) = Bootstrap!Result(S, q)
  BY DEF PopBootstrapped, FoldLeft, MapThenFoldSet, Bootstrap!Result, Bootstrap!FoldLeft,
         Bootstrap!MapThenFoldSet, Bootstrap!Max, Max, PopBootstrappedOne
<1> QED
  BY <1>2, <1>3
=============================================================================
