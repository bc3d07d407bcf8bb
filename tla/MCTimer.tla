------------------------------ MODULE MCTimer ------------------------------
(***************************************************************************)
(* Timer for TLC: a small wheel, and every delay up to past its end.       *)
(***************************************************************************)
EXTENDS Timer, TLC

UpTo18 == 0 .. 18
UpTo34 == 0 .. 34

Alike == Permutations(Timers)

\* Bound: two timers only if both expire early, and then no long time after.
Second == (\A t \in Timers : pc[t] # "none") =>
    (\A t \in Timers : expired[t] <= Near) /\ jiffies <= 2 * Near + 1
=============================================================================
