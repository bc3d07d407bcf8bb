---------------------------- MODULE MCHandlerMap ----------------------------
(***************************************************************************)
(* HandlerMap for TLC: threads and contexts are interchangeable; what      *)
(* happens after two calls have met in a chunk's first insert is not said. *)
(***************************************************************************)
EXTENDS HandlerMap, TLC

Symmetry == Permutations(Threads) \cup Permutations(Vals)

UntilRaced == ~raced
=============================================================================
