-------------------------------- MODULE MCHooks --------------------------------
(***************************************************************************)
(* Hooks for TLC: numbers and files are interchangeable.                   *)
(***************************************************************************)
EXTENDS Hooks, TLC

Symmetry == Permutations(Numbers) \cup Permutations(Files)
================================================================================
