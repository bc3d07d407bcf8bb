----------------------------- MODULE MCFdEvents -----------------------------
(***************************************************************************)
(* FdEvents for TLC: tasks and descriptors are interchangeable.            *)
(***************************************************************************)
EXTENDS FdEvents, TLC

Symmetry == Permutations(Tasks) \cup Permutations(Fds)
=============================================================================
