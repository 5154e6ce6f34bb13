--------------------------- MODULE MCRadixKeyMatch ---------------------------
(* RadixKeyMatch for TLC.  Two token values decide every comparison the     *)
(* code makes; the arrays are long enough for three galloping windows       *)
(* (widths 1, 2, 4) with a divergence in any of them.                       *)
EXTENDS RadixKeyMatch

MCToken == {1, 2}
=============================================================================
