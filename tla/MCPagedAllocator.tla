-------------------------- MODULE MCPagedAllocator --------------------------
(* PagedAllocator for TLC: three rows so that a batch of two requests and a *)
(* tree segment coexist; the rows are interchangeable.                      *)
EXTENDS PagedAllocator

Symmetry == Permutations(Row)
=============================================================================
