----------------------------- MODULE MCFreeList -----------------------------
(***************************************************************************)
(* FreeList for TLC: blocks are interchangeable.                           *)
(***************************************************************************)
EXTENDS FreeList, TLC

Symmetry == Permutations(Blocks)
=============================================================================
