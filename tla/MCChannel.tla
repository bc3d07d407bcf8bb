----------------------------- MODULE MCChannel -----------------------------
(***************************************************************************)
(* Channel for TLC: the tasks are model values.                            *)
(***************************************************************************)
EXTENDS Channel

=============================================================================
