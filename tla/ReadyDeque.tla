----------------------------- MODULE ReadyDeque -----------------------------
(***************************************************************************)
(* What one WorkStealingQueue promises its callers while its array is not  *)
(* full: an owner works at the newest end, thieves at the oldest, each     *)
(* operation takes effect at one instant.  The one wrinkle the code has is *)
(* part of the promise: a pop that loses the race for the last task leaves *)
(* the queue "skewed", and a push on a skewed queue loses its task.        *)
(***************************************************************************)
EXTENDS Integers, Sequences

CONSTANT Tasks

VARIABLES
    deque,      \* tasks that can be taken, oldest first
    skewed,     \* m_bottom is one below m_top
    popping,    \* the owner's pop: "no", under way, or beaten to the last task
    copies      \* how many callers hold each task

dqvars == <<deque, skewed, popping, copies>>

Init ==
    /\ deque = <<>> /\ skewed = FALSE /\ popping = "no"
    /\ copies = [t \in Tasks |-> 1]

Take(t) == copies' = [copies EXCEPT ![t] = @ + 1]

Push(t) ==
    /\ popping = "no" /\ copies[t] > 0
    /\ copies' = [copies EXCEPT ![t] = @ - 1]
    /\ deque' = IF skewed THEN deque ELSE Append(deque, t)
    /\ skewed' = FALSE
    /\ UNCHANGED popping

PopBegin ==
    /\ popping = "no"
    /\ popping' = "open"
    /\ UNCHANGED <<deque, skewed, copies>>

\* The newest task, or nothing; finding nothing heals a skewed queue unless
\* the last task was lost to a thief just now.
PopEnd ==
    /\ popping # "no"
    /\ \/ /\ deque # <<>>
          /\ Take(deque[Len(deque)])
          /\ deque' = SubSeq(deque, 1, Len(deque) - 1)
          /\ UNCHANGED skewed
       \/ /\ deque = <<>>
          /\ skewed' = (popping = "raced")
          /\ UNCHANGED <<deque, copies>>
    /\ popping' = "no"

Steal ==
    /\ deque # <<>>
    /\ Take(Head(deque))
    /\ deque' = Tail(deque)
    /\ \/ UNCHANGED popping
       \/ popping = "open" /\ Len(deque) = 1 /\ popping' = "raced"
    /\ UNCHANGED skewed

Next == PopBegin \/ PopEnd \/ Steal \/ \E t \in Tasks : Push(t)

Spec == Init /\ [][Next]_dqvars
=============================================================================
