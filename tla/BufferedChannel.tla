-------------------------- MODULE BufferedChannel --------------------------
(*************************************************************************)
(* What a co_chan<T> promises: a buffer of at most cap items and, when it *)
(* is full, senders parked in the order they came, each with its item.  A *)
(* receive that makes room lets the first parked sender's item in and the *)
(* sender go; with cap = 0 it takes the item from the sender.            *)
(*************************************************************************)
EXTENDS Integers, Sequences

CONSTANT Items

VARIABLES
    cap,        \* the capacity
    buf,        \* items let in, oldest first
    parked,     \* senders' items that were not let in, oldest first
    got         \* items received, in the order of the receives

bcvars == <<cap, buf, parked, got>>

Init == cap \in Nat /\ buf = <<>> /\ parked = <<>> /\ got = <<>>

\* A parked sender cannot send.
Send(item) ==
    /\ \A i \in DOMAIN parked : parked[i].from # item.from
    /\ \/ /\ Len(buf) < cap
          /\ buf' = Append(buf, item) /\ UNCHANGED parked
       \/ /\ Len(buf) = cap
          /\ parked' = Append(parked, item) /\ UNCHANGED buf
    /\ UNCHANGED <<cap, got>>

Receive ==
    /\ \/ /\ parked = <<>> /\ buf # <<>>
          /\ got' = Append(got, Head(buf))
          /\ buf' = Tail(buf) /\ UNCHANGED parked
       \/ /\ parked # <<>> /\ buf # <<>>
          /\ got' = Append(got, Head(buf))
          /\ buf' = Append(Tail(buf), Head(parked)) /\ parked' = Tail(parked)
       \/ /\ parked # <<>> /\ buf = <<>>
          /\ got' = Append(got, Head(parked))
          /\ parked' = Tail(parked) /\ UNCHANGED buf
    /\ UNCHANGED cap

Next == Receive \/ \E item \in Items : Send(item)

Spec == Init /\ [][Next]_bcvars
=============================================================================
