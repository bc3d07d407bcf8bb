---------------------------- MODULE MCProcessor ----------------------------
(***************************************************************************)
(* Processor for TLC: tasks are interchangeable in the safety runs, which  *)
(* check a state with a thread astray, or in a freed array, and do not go  *)
(* on from it.                                                             *)
(***************************************************************************)
EXTENDS Processor, TLC

Symmetry == Permutations(Tasks)
UntilAstray == ReturnsHome /\ VictimsFound
=============================================================================
