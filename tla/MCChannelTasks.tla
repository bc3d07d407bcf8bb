--------------------------- MODULE MCChannelTasks ---------------------------
(***************************************************************************)
(* ChannelTasks for TLC: a state with a thread astray is not continued.    *)
(***************************************************************************)
EXTENDS ChannelTasks

UntilAstray == ReturnsHome /\ VictimsFound

\* Bound: once there are two threads, one of the tasks is left out.
Spare == CHOOSE t \in Tasks : TRUE
WithoutSpare == Alone \/ status[Spare] = "none"
=============================================================================
