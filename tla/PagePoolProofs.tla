--------------------------- MODULE PagePoolProofs ---------------------------
(***************************************************************************)
(* The page pool keeps its promise for every set of pages and of rows.     *)
(* PagedAllocator is shown to implement the pool, so its lists, deferred   *)
(* frees and rows partition the pages too.                                 *)
(***************************************************************************)
EXTENDS PagePool, TLAPS

(* Partition and NothingHeldBack need each other: a group that closes, or  *)
(* is cleared, has to give back exactly what it held.                      *)
PoolInv == TypeOK /\ Partition /\ NothingHeldBack

(* Initially every page is available. *)
LEMMA InitHolds == Init => PoolInv
BY DEF Init, PoolInv, TypeOK, Partition, NothingHeldBack

(* Rows that grow take their pages from avail, no page going to two rows. *)
LEMMA AcquireHolds == PoolInv /\ Acquire => PoolInv'
<1> SUFFICES ASSUME PoolInv, Acquire PROVE PoolInv'
  OBVIOUS
<1> USE DEF PoolInv, TypeOK, Partition, NothingHeldBack
<1>1. PICK got \in [Row -> SUBSET avail] :
        /\ \A r, s \in Row : r # s => got[r] \cap got[s] = {}
        /\ avail' = avail \ UNION {got[r] : r \in Row}
        /\ held' = [r \in Row |-> held[r] \cup got[r]]
        /\ UNCHANGED <<limbo, open>>
  BY DEF Acquire
<1>2. \A r \in Row : held'[r] = held[r] \cup got[r] /\ got[r] \subseteq avail
  BY <1>1
<1>3. TypeOK' /\ NothingHeldBack'
  BY <1>1, <1>2
<1>4. Page = avail' \cup limbo' \cup UNION {held'[r] : r \in Row}
  BY <1>1, <1>2
<1>5. avail' \cap limbo' = {} /\ \A r \in Row : held'[r] \cap (avail' \cup limbo') = {}
  BY <1>1, <1>2
<1>6. \A r, s \in Row : r # s => held'[r] \cap held'[s] = {}
  BY <1>1, <1>2
<1> QED
  BY <1>3, <1>4, <1>5, <1>6

(* A row gives up pages to the lists or to the open group, others to a row.*)
LEMMA ReleaseHolds == PoolInv /\ Release => PoolInv'
<1> SUFFICES ASSUME PoolInv, Release PROVE PoolInv'
  OBVIOUS
<1> USE DEF PoolInv, TypeOK, Partition, NothingHeldBack
<1>1. PICK r \in Row, q \in Row, S \in SUBSET Page, M \in SUBSET Page :
        /\ S \subseteq held[r] /\ M \subseteq held[r]
        /\ S \cap M = {}
        /\ held' = Moved(r, q, S, M)
        /\ IF open
           THEN limbo' = limbo \cup S /\ avail' = avail
           ELSE avail' = avail \cup S /\ limbo' = limbo
        /\ open' = open
  BY DEF Release
<1>2. /\ held'[r] = IF q = r THEN held[r] \ S ELSE held[r] \ (S \cup M)
      /\ q # r => held'[q] = held[q] \cup M
      /\ \A x \in Row \ {r, q} : held'[x] = held[x]
      /\ held' \in [Row -> SUBSET Page]
  <2>1. held' = [x \in Row |-> (held[x] \ (IF x = r THEN S \cup M ELSE {}))
                              \cup (IF x = q THEN M ELSE {})]
    BY <1>1 DEF Moved
  <2>2. CASE q = r
    BY <1>1, <2>1, <2>2
  <2>3. CASE q # r
    BY <1>1, <2>1, <2>3
  <2> QED
    BY <2>2, <2>3
<1>3. avail' \cup limbo' = avail \cup limbo \cup S
  BY <1>1
<1>4. TypeOK' /\ NothingHeldBack'
  BY <1>1, <1>2
<1>5. Page = avail' \cup limbo' \cup UNION {held'[x] : x \in Row}
  <2>1. ASSUME NEW p \in Page PROVE p \in avail' \cup limbo' \/ \E x \in Row : p \in held'[x]
    BY <1>1, <1>2, <1>3
  <2> QED
    BY <2>1, <1>4
<1>6. avail' \cap limbo' = {} /\ \A x \in Row : held'[x] \cap (avail' \cup limbo') = {}
  <2>1. avail' \cap limbo' = {}
    BY <1>1
  <2>2. ASSUME NEW x \in Row PROVE held'[x] \cap (avail' \cup limbo') = {}
    <3>1. CASE x = r
      BY <3>1, <1>1, <1>2, <1>3
    <3>2. CASE x = q /\ q # r
      BY <3>2, <1>1, <1>2, <1>3
    <3>3. CASE x \notin {r, q}
      BY <3>3, <1>1, <1>2, <1>3
    <3> QED
      BY <3>1, <3>2, <3>3
  <2> QED
    BY <2>1, <2>2
<1>7. \A x, y \in Row : x # y => held'[x] \cap held'[y] = {}
  <2>1. ASSUME NEW x \in Row \ {r, q} PROVE held'[x] \cap held'[r] = {} /\ held'[x] \cap held'[q] = {}
    BY <1>1, <1>2
  <2>2. q # r => held'[r] \cap held'[q] = {}
    BY <1>1, <1>2
  <2> QED
    BY <2>1, <2>2, <1>2
<1> QED
  BY <1>4, <1>5, <1>6, <1>7

(* Opening, closing and clearing move the deferred pages as a whole. *)
LEMMA GroupHolds == PoolInv /\ (OpenGroup \/ CloseGroup \/ Clear) => PoolInv'
<1> SUFFICES ASSUME PoolInv, OpenGroup \/ CloseGroup \/ Clear PROVE PoolInv'
  OBVIOUS
<1> USE DEF PoolInv, TypeOK, Partition, NothingHeldBack
<1>1. CASE OpenGroup
  BY <1>1 DEF OpenGroup
<1>2. CASE CloseGroup
  BY <1>2 DEF CloseGroup
<1>3. CASE Clear
  BY <1>3 DEF Clear
<1> QED
  BY <1>1, <1>2, <1>3

(* In every reachable state of the pool each page is available, deferred   *)
(* or owned by exactly one row, and outside a free group nothing is        *)
(* deferred: no free of free_group_begin/free_group_end is lost.           *)
THEOREM PoolPartitioned == Spec => [](TypeOK /\ Partition /\ NothingHeldBack)
<1>1. PoolInv /\ [Next]_vars => PoolInv'
  <2>1. PoolInv /\ UNCHANGED vars => PoolInv'
    BY DEF PoolInv, TypeOK, Partition, NothingHeldBack, vars
  <2> QED
    BY <2>1, AcquireHolds, ReleaseHolds, GroupHolds DEF Next
<1>2. PoolInv => TypeOK /\ Partition /\ NothingHeldBack
  BY DEF PoolInv
<1> QED
  BY <1>1, <1>2, InitHolds, PTL DEF Spec
=============================================================================
