---------------------------- MODULE MCTaskStack ----------------------------
(***************************************************************************)
(* TaskStack for TLC: tasks are interchangeable.                           *)
(***************************************************************************)
EXTENDS TaskStack, TLC

Symmetry == Permutations(Tasks)
=============================================================================
