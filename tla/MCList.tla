------------------------------- MODULE MCList -------------------------------
(***************************************************************************)
(* List for TLC: elements are interchangeable, and so are lists.           *)
(***************************************************************************)
EXTENDS List, TLC

Symmetry == Permutations(Lists) \cup Permutations(Elems)
=============================================================================
