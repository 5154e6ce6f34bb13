------------------------- MODULE RadixKeyMatchProofs -------------------------
(* RadixKey.match returns the page-aligned length of the longest common     *)
(* prefix, for all keys, page sizes and both kinds of units.                *)
EXTENDS RadixKeyMatch, TLAPS

(* A token array of the model is a sequence of tokens. *)
LEMMA TokenArrayIsSeq == ASSUME NEW t \in TokenArray PROVE t \in Seq(Token)
BY DEF TokenArray

(* The window bounds are natural numbers. *)
LEMMA SpanNat == ASSUME TypeOK PROVE Span \in Nat
BY DEF TypeOK, RadixKey, Span, Min2

LEMMA InitType == Init => TypeOK
<1> SUFFICES ASSUME Init PROVE TypeOK
  OBVIOUS
<1>1. self.token_ids \in Seq(Token) /\ other.token_ids \in Seq(Token)
  BY TokenArrayIsSeq DEF Init
<1>2. self \in RadixKey /\ other \in RadixKey
  BY <1>1, KeyAssumption DEF Init, RadixKey, NoLimit
<1>3. Span \in Nat
  BY <1>1 DEF Span, Min2
<1> QED
  BY <1>2, <1>3 DEF Init, TypeOK

LEMMA TypeStep == TypeOK /\ [Next]_vars => TypeOK'
<1> SUFFICES ASSUME TypeOK, [Next]_vars PROVE TypeOK'
  OBVIOUS
<1>0. Span \in Nat
  BY SpanNat
<1>1. CASE GallopEqual
  BY <1>0, <1>1 DEF TypeOK, GallopEqual, WindowEnd, Min2
<1>2. CASE GallopDiffer
  BY <1>0, <1>2 DEF TypeOK, GallopDiffer, WindowEnd, Min2
<1>3. CASE GallopEnd
  BY <1>3 DEF TypeOK, GallopEnd
<1>4. CASE Bisect
  BY <1>4 DEF TypeOK, Bisect
<1>5. CASE BisectEnd
  BY <1>5 DEF TypeOK, BisectEnd
<1>6. CASE UNCHANGED vars
  BY <1>6 DEF TypeOK, vars
<1> QED
  BY <1>1, <1>2, <1>3, <1>4, <1>5, <1>6 DEF Next

(* lo, hi, step and matched stay in range over every run of match(). *)
THEOREM TypeCorrect == Spec => []TypeOK
BY InitType, TypeStep, PTL DEF Spec

-----------------------------------------------------------------------------
(* The loop invariant. *)

LEMMA InitLoop == Init => LoopInv
<1> SUFFICES ASSUME Init PROVE LoopInv
  OBVIOUS
<1>1. Span \in Nat
  BY InitType, SpanNat
<1> QED
  BY <1>1 DEF Init, LoopInv, SliceEq

LEMMA LoopStep == TypeOK /\ LoopInv /\ [Next]_vars => LoopInv'
<1> SUFFICES ASSUME TypeOK, LoopInv, [Next]_vars PROVE LoopInv'
  OBVIOUS
<1>0. Span \in Nat
  BY SpanNat
<1>s. Span' = Span
  BY DEF Next, GallopEqual, GallopDiffer, GallopEnd, Bisect, BisectEnd, vars, Span
<1>1. CASE GallopEqual
  <2>1. lo' = WindowEnd /\ WindowEnd \in Nat /\ lo <= WindowEnd /\ WindowEnd <= Span
    BY <1>0, <1>1 DEF GallopEqual, WindowEnd, Min2, TypeOK
  <2>2. SliceEq(0, WindowEnd)
    BY <1>1, <2>1 DEF LoopInv, GallopEqual, SliceEq, TypeOK
  <2>3. SliceEq(0, lo)'
    BY <1>1, <2>1, <2>2 DEF GallopEqual, SliceEq
  <2> QED
    BY <1>1, <1>s, <2>1, <2>3 DEF GallopEqual, LoopInv
<1>2. CASE GallopDiffer
  <2>1. hi' = WindowEnd /\ WindowEnd \in Nat /\ lo < WindowEnd /\ WindowEnd <= Span
    BY <1>0, <1>2 DEF GallopDiffer, WindowEnd, Min2, TypeOK
  <2>2. SliceEq(0, lo)' /\ ~ SliceEq(lo, hi)'
    BY <1>2, <2>1 DEF GallopDiffer, SliceEq, LoopInv
  <2> QED
    BY <1>2, <1>s, <2>1, <2>2 DEF GallopDiffer, LoopInv
<1>3. CASE GallopEnd
  <2>1. SliceEq(0, lo)' /\ SliceEq(0, matched)'
    BY <1>0, <1>3 DEF GallopEnd, SliceEq, LoopInv, TypeOK
  <2> QED
    BY <1>0, <1>3, <1>s, <2>1 DEF GallopEnd, LoopInv, TypeOK
<1>4. CASE Bisect
  <2> DEFINE mid == (lo + hi) \div 2
  <2>1. mid \in Nat /\ lo < mid /\ mid < hi
    BY <1>4 DEF Bisect, TypeOK
  <2>2. CASE SliceEq(lo, mid)
    <3>1. lo' = mid /\ hi' = hi /\ pc' = pc /\ pc = "bisect"
      BY <1>4, <2>2 DEF Bisect
    <3>2. SliceEq(0, lo)'
      BY <1>4, <2>1, <2>2, <3>1 DEF Bisect, SliceEq, LoopInv, TypeOK
    <3>3. ~ SliceEq(lo, hi)'
      BY <1>4, <2>1, <2>2, <3>1 DEF Bisect, SliceEq, LoopInv, TypeOK
    <3> QED
      BY <1>0, <1>s, <2>1, <3>1, <3>2, <3>3 DEF LoopInv, TypeOK
  <2>3. CASE ~ SliceEq(lo, mid)
    <3>1. hi' = mid /\ lo' = lo /\ pc' = pc /\ pc = "bisect"
      BY <1>4, <2>3 DEF Bisect
    <3>2. SliceEq(0, lo)' /\ ~ SliceEq(lo, hi)'
      BY <1>4, <2>3, <3>1 DEF Bisect, SliceEq, LoopInv
    <3> QED
      BY <1>0, <1>s, <2>1, <3>1, <3>2 DEF LoopInv, TypeOK
  <2> QED
    BY <2>2, <2>3
<1>5. CASE BisectEnd
  <2>1. hi = lo + 1 /\ lo < Span
    BY <1>0, <1>5 DEF BisectEnd, LoopInv, TypeOK
  <2>2. self.token_ids[lo+1] # other.token_ids[lo+1]
    BY <1>5, <2>1 DEF BisectEnd, LoopInv, SliceEq, TypeOK
  <2>3. SliceEq(0, lo)' /\ SliceEq(0, matched)'
    BY <1>5 DEF BisectEnd, LoopInv, SliceEq
  <2> QED
    BY <1>5, <1>s, <2>1, <2>2, <2>3 DEF BisectEnd, LoopInv
<1>6. CASE UNCHANGED vars
  BY <1>6, <1>s DEF LoopInv, SliceEq, vars
<1> QED
  BY <1>1, <1>2, <1>3, <1>4, <1>5, <1>6 DEF Next

(* Nothing before lo differs, and a window that is bisected holds the      *)
(* first divergence, at every iteration of match()'s loops.                *)
THEOREM LoopCorrect == Spec => []LoopInv
<1>1. Init => TypeOK /\ LoopInv
  BY InitType, InitLoop
<1>2. TypeOK /\ LoopInv /\ [Next]_vars => (TypeOK /\ LoopInv)'
  BY TypeStep, LoopStep
<1> QED
  BY <1>1, <1>2, PTL DEF Spec

-----------------------------------------------------------------------------
(* Rounding down to whole pages. *)

LEMMA PageFloorFacts ==
  ASSUME NEW n \in Nat
  PROVE  /\ PageFloor(n) \in Nat
         /\ PageFloor(n) <= n
         /\ n < PageFloor(n) + PageSize
         /\ PageFloor(n) % PageSize = 0
<1> DEFINE q == n \div PageSize
<1>0. PageSize \in Nat /\ PageSize > 0
  BY KeyAssumption
<1>1. q \in Nat
  BY <1>0
<1>2. n = PageSize * q + (n % PageSize) /\ n % PageSize \in 0..(PageSize - 1)
  BY <1>0
<1>3. PageFloor(n) = PageSize * q
  BY <1>0, <1>1 DEF PageFloor
<1>4. PageSize * q \in Nat
  BY <1>0, <1>1
<1>5. (PageSize * q) % PageSize = 0
  BY <1>0, <1>1
<1> QED
  BY <1>0, <1>2, <1>3, <1>4, <1>5

(* What the loop invariant says once the loops have ended is what match()   *)
(* promises.                                                               *)
LEMMA DoneIsCorrect == TypeOK /\ LoopInv => MatchCorrect
<1> SUFFICES ASSUME TypeOK, LoopInv, pc = "done" PROVE IsSharedPrefix(Result)
  BY DEF MatchCorrect
<1> DEFINE raw == IF IsBigram THEN matched - 1 ELSE matched
           m == Min2(raw, Min2(KeyLen(self), KeyLen(other)))
           c == IF m < 0 THEN 0 ELSE m
           r == PageFloor(c)
<1>0. PageSize \in Nat /\ PageSize > 0 /\ IsBigram \in BOOLEAN
  BY KeyAssumption
<1>1. /\ Len(self.token_ids) \in Nat /\ Len(other.token_ids) \in Nat
      /\ RawLen(self) \in Nat /\ RawLen(self) <= Len(self.token_ids)
      /\ RawLen(other) \in Nat /\ RawLen(other) <= Len(other.token_ids)
  BY DEF TypeOK, RadixKey, RawLen, NoLimit
<1>2. KeyLen(self) \in Nat /\ KeyLen(other) \in Nat
  BY <1>1 DEF KeyLen
<1>3. matched \in Nat /\ matched <= Span /\ Span \in Nat
  BY SpanNat DEF LoopInv, TypeOK
<1>4. c \in Nat /\ c <= KeyLen(self) /\ c <= KeyLen(other)
  BY <1>2, <1>3 DEF Min2
<1>5. r \in Nat /\ r <= c /\ c < r + PageSize /\ r % PageSize = 0
  BY <1>4, PageFloorFacts
<1>6. Result = r
  BY DEF Result
<1>7. ASSUME NEW i \in 1..c PROVE SameUnit(self, other, i)
  <2>1. i \in 1..matched /\ (IsBigram => (i + 1) \in 1..matched)
    BY <1>2, <1>3, <1>7 DEF Min2
  <2> QED
    BY <1>3, <2>1 DEF LoopInv, SliceEq, SameUnit
<1>8. ASSUME c < KeyLen(self), c < KeyLen(other)
      PROVE  ~ SameUnit(self, other, c + 1)
  <2>1. CASE IsBigram
    <3>1. KeyLen(self) = RawLen(self) - 1 /\ KeyLen(other) = RawLen(other) - 1
      BY <1>1, <1>4, <1>8, <2>1 DEF KeyLen
    <3>2. c + 1 < Span
      BY <1>1, <1>4, <1>8, <3>1 DEF Span, Min2
    <3>3. matched < Span /\ (matched = c + 1 \/ (matched = 0 /\ c = 0))
      BY <1>1, <1>2, <1>3, <1>4, <1>8, <2>1, <3>1, <3>2 DEF Min2
    <3> QED
      BY <2>1, <3>3 DEF LoopInv, SameUnit
  <2>2. CASE ~ IsBigram
    <3>1. KeyLen(self) = RawLen(self) /\ KeyLen(other) = RawLen(other)
      BY <2>2 DEF KeyLen
    <3>2. c < Span
      BY <1>1, <1>4, <1>8, <3>1 DEF Span, Min2
    <3>3. matched < Span /\ matched = c
      BY <1>1, <1>2, <1>3, <1>4, <1>8, <2>2, <3>1, <3>2 DEF Min2
    <3> QED
      BY <2>2, <3>3 DEF LoopInv, SameUnit
  <2> QED
    BY <2>1, <2>2
<1>9. \/ r + PageSize > KeyLen(self)
      \/ r + PageSize > KeyLen(other)
      \/ \E i \in 1..(r + PageSize) : ~ SameUnit(self, other, i)
  BY <1>0, <1>2, <1>4, <1>5, <1>8
<1> QED
  BY <1>2, <1>4, <1>5, <1>6, <1>7, <1>9 DEF IsSharedPrefix

(* match() returns the page-aligned length of the longest common prefix of  *)
(* its two keys, whatever their length, the page size and the unit.         *)
THEOREM MatchIsLongestCommonPrefix == Spec => []MatchCorrect
<1>1. TypeOK /\ LoopInv => MatchCorrect
  BY DoneIsCorrect
<1> QED
  BY <1>1, TypeCorrect, LoopCorrect, PTL
=============================================================================
