---------------------------- MODULE RadixKeyMatch ----------------------------
(***************************************************************************)
(* RadixKey and RadixKey.match of python/sglang/srt/mem_cache/             *)
(* radix_cache.py: how many leading units two prefix-cache keys share.     *)
(* Every walk of the radix tree (match_prefix, insert) trusts this number  *)
(* to decide which KV slots two requests share.                            *)
(*                                                                         *)
(* The code gallops in doubling windows, comparing one slice per window,   *)
(* and bisects the window that holds the first divergence.  One action is  *)
(* one iteration of one of the two loops.  Positions are the code's: lo    *)
(* and hi are 0-based, the slice t[lo:hi] holds t[lo+1] .. t[hi] here.     *)
(***************************************************************************)
EXTENDS Integers, Sequences

CONSTANTS
    Token,      \* the token ids
    MaxLen,     \* bound: the longest token_ids array that is enumerated
    PageSize,   \* page_size of the KV cache
    IsBigram    \* is_bigram: a unit is a pair of neighbouring tokens (EAGLE)

ASSUME KeyAssumption ==
    /\ MaxLen \in Nat
    /\ PageSize \in Nat \ {0}
    /\ IsBigram \in BOOLEAN

VARIABLES
    self,       \* the node's key [token_ids, limit]
    other,      \* the key looked up
    lo, hi,     \* bounds of the current window
    step,       \* width of the next galloping window
    matched,    \* matched_tokens
    pc          \* "gallop", "bisect" or "done"

vars == <<self, other, lo, hi, step, matched, pc>>

NoLimit == -1

Min2(a, b) == IF a < b THEN a ELSE b

RadixKey == [token_ids : Seq(Token), limit : {NoLimit} \cup Nat]

(* The arrays enumerated for TLC. *)
TokenArray == UNION {[1..n -> Token] : n \in 0..MaxLen}

-----------------------------------------------------------------------------
(* The length of a key in raw tokens and in units. *)

RawLen(k) ==
    IF k.limit # NoLimit /\ k.limit < Len(k.token_ids)
    THEN k.limit
    ELSE Len(k.token_ids)

KeyLen(k) ==
    IF IsBigram
    THEN IF RawLen(k) > 0 THEN RawLen(k) - 1 ELSE 0
    ELSE RawLen(k)

(* Whether units number i (counted from 1) of two keys are the same. *)
SameUnit(k, l, i) ==
    /\ k.token_ids[i] = l.token_ids[i]
    /\ IsBigram => k.token_ids[i+1] = l.token_ids[i+1]

(* n of the code: the galloping runs over the raw arrays, limit or not. *)
Span == Min2(Len(self.token_ids), Len(other.token_ids))

SliceEq(a, b) == \A i \in (a+1)..b : self.token_ids[i] = other.token_ids[i]

WindowEnd == Min2(lo + step, Span)

PageFloor(n) == (n \div PageSize) * PageSize

(* What match() returns once matched_tokens is known. *)
MutRawResult ==
    PageFloor(Min2(matched, Min2(KeyLen(self), KeyLen(other))))

Result ==
    LET raw  == IF IsBigram THEN matched - 1 ELSE matched
        m    == Min2(raw, Min2(KeyLen(self), KeyLen(other)))
    IN  PageFloor(IF m < 0 THEN 0 ELSE m)

-----------------------------------------------------------------------------
(* A node's key is a page-aligned copy without a limit; the key looked up  *)
(* is page-aligned too, and keeps its limit only when page_size is 1, where *)
(* page_aligned() returns it as it is.                                      *)
Init ==
    /\ self \in [token_ids : TokenArray, limit : {NoLimit}]
    /\ other \in [token_ids : TokenArray,
                   limit : IF PageSize = 1 THEN {NoLimit} \cup (0..MaxLen) ELSE {NoLimit}]
    /\ KeyLen(self) % PageSize = 0
    /\ KeyLen(other) % PageSize = 0
    /\ lo = 0
    /\ hi = 0
    /\ step = 1
    /\ matched = Span
    /\ pc = "gallop"

(* step halved instead of doubled *)
MutHalvedStep ==
    /\ pc = "gallop"
    /\ lo < Span
    /\ SliceEq(lo, WindowEnd)
    /\ hi' = WindowEnd
    /\ lo' = WindowEnd
    /\ step' = step \div 2
    /\ UNCHANGED <<self, other, matched, pc>>

(* The window is equal: move past it and double the step. *)
GallopEqual ==
    /\ pc = "gallop"
    /\ lo < Span
    /\ SliceEq(lo, WindowEnd)
    /\ hi' = WindowEnd
    /\ lo' = WindowEnd
    /\ step' = 2 * step
    /\ UNCHANGED <<self, other, matched, pc>>

(* The window holds the first divergence: bisect it. *)
GallopDiffer ==
    /\ pc = "gallop"
    /\ lo < Span
    /\ ~ SliceEq(lo, WindowEnd)
    /\ hi' = WindowEnd
    /\ pc' = "bisect"
    /\ UNCHANGED <<self, other, lo, step, matched>>

GallopEnd ==
    /\ pc = "gallop"
    /\ lo >= Span
    /\ pc' = "done"
    /\ UNCHANGED <<self, other, lo, hi, step, matched>>

(* the half that differs is skipped instead of searched *)
MutSkippedHalf ==
    LET mid == (lo + hi) \div 2
    IN  /\ pc = "bisect"
        /\ hi - lo > 1
        /\ lo' = mid
        /\ UNCHANGED <<self, other, hi, step, matched, pc>>

Bisect ==
    LET mid == (lo + hi) \div 2
    IN  /\ pc = "bisect"
        /\ hi - lo > 1
        /\ IF SliceEq(lo, mid)
           THEN lo' = mid /\ hi' = hi
           ELSE hi' = mid /\ lo' = lo
        /\ UNCHANGED <<self, other, step, matched, pc>>

BisectEnd ==
    /\ pc = "bisect"
    /\ hi - lo <= 1
    /\ matched' = lo
    /\ pc' = "done"
    /\ UNCHANGED <<self, other, lo, hi, step>>

Next == GallopEqual \/ GallopDiffer \/ GallopEnd \/ Bisect \/ BisectEnd

Spec == Init /\ [][Next]_vars

(* match() is a plain loop: it takes its next step as long as it has one. *)
FairSpec == Spec /\ WF_vars(Next)

-----------------------------------------------------------------------------
TypeOK ==
    /\ self \in RadixKey /\ other \in RadixKey
    /\ lo \in Nat /\ hi \in Nat
    /\ step \in Nat \ {0}
    /\ matched \in Nat
    /\ pc \in {"gallop", "bisect", "done"}

(* The number of shared units, as match() documents it: the result is a    *)
(* whole number of pages, every unit below it is shared, and one more page *)
(* would reach past the end of a key or past a unit that differs.          *)
IsSharedPrefix(r) ==
    /\ r % PageSize = 0
    /\ r <= KeyLen(self) /\ r <= KeyLen(other)
    /\ \A i \in 1..r : SameUnit(self, other, i)
    /\ \/ r + PageSize > KeyLen(self)
       \/ r + PageSize > KeyLen(other)
       \/ \E i \in 1..(r + PageSize) : ~ SameUnit(self, other, i)

(* The value match() returns is the page-aligned length of the longest     *)
(* common prefix of the two keys, for raw and for bigram keys, with or     *)
(* without a limit.                                                        *)
MatchCorrect == pc = "done" => IsSharedPrefix(Result)

(* The loop invariant: nothing before lo differs, and while bisecting the  *)
(* first divergence lies in the window.                                    *)
LoopInv ==
    /\ lo <= Span
    /\ SliceEq(0, lo)
    /\ pc = "gallop" => matched = Span
    /\ pc = "bisect" => lo < hi /\ hi <= Span /\ ~ SliceEq(lo, hi)
    /\ pc = "done" =>
         /\ matched <= Span
         /\ SliceEq(0, matched)
         /\ matched < Span => self.token_ids[matched+1] # other.token_ids[matched+1]

(* Every window makes progress, so the loop ends for every pair of keys. *)
Terminates == <>(pc = "done")
=============================================================================
