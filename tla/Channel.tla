------------------------------ MODULE Channel ------------------------------
(***************************************************************************)
(* coroutine/channel.h: operator<< and operator>> of one Channel, called   *)
(* by any number of tasks.  Everything between two suspensions of a task   *)
(* runs under m_mtx and is one step.  taskWakeup makes a task resume       *)
(* later, at no particular time and in no particular order (Processor);    *)
(* it may do so before the task it wakes has finished blocking.            *)
(***************************************************************************)
EXTENDS Integers, Sequences, FiniteSets

CONSTANTS
    Tasks,
    BufLens,    \* the arguments the constructor may be called with
    MaxSends    \* bound: how often one task sends

ASSUME ChannelAssumption == BufLens \subseteq Nat /\ MaxSends \in Nat

VARIABLES
    buflen,     \* m_buflen
    queue,      \* m_queue; an item is known by its sender and a number
    rque, wque, \* m_rque, m_wque: suspended tasks, oldest first
    pc,         \* each task: outside, suspended inside << or inside >>
    woken,      \* tasks woken that have not resumed yet
    sends,      \* how often each task has sent
    got         \* history: items received

vars == <<buflen, queue, rque, wque, pc, woken, sends, got>>

Item == [from : Tasks, n : 1 .. MaxSends]

Init ==
    /\ buflen \in BufLens
    /\ queue = <<>> /\ rque = <<>> /\ wque = <<>>
    /\ pc = [t \in Tasks |-> "out"]
    /\ woken = {}
    /\ sends = [t \in Tasks |-> 0]
    /\ got = <<>>
-----------------------------------------------------------------------------
\* A variant that wakes a reader only if the channel was empty before.
WakeReaderIfEmpty ==
    IF rque # <<>> /\ queue = <<>>
    THEN woken' = woken \cup {Head(rque)} /\ rque' = Tail(rque)
    ELSE UNCHANGED <<woken, rque>>

\* A variant without the pop_front.
WakeReaderPeek ==
    IF rque # <<>>
    THEN woken' = woken \cup {Head(rque)} /\ UNCHANGED rque
    ELSE UNCHANGED <<woken, rque>>

WakeReader ==
    IF rque # <<>>
    THEN woken' = woken \cup {Head(rque)} /\ rque' = Tail(rque)
    ELSE UNCHANGED <<woken, rque>>

\* A variant that compares before the push.
AboveCapacityBefore == Len(queue) > buflen

\* With the item just pushed the channel is above its capacity.
AboveCapacity == Len(queue) + 1 > buflen

\* operator<<, up to its return or its suspension.
Send(t) ==
    /\ pc[t] = "out" /\ sends[t] < MaxSends
    /\ sends' = [sends EXCEPT ![t] = @ + 1]
    /\ queue' = Append(queue, [from |-> t, n |-> sends[t] + 1])
    /\ WakeReader
    /\ IF AboveCapacity
       THEN wque' = Append(wque, t) /\ pc' = [pc EXCEPT ![t] = "send"]
       ELSE UNCHANGED <<wque, pc>>
    /\ UNCHANGED <<buflen, got>>

\* The rest of operator<<: "this is an if, not a while" (line 31).
SendResume(t) ==
    /\ pc[t] = "send" /\ t \in woken
    /\ woken' = woken \ {t}
    /\ pc' = [pc EXCEPT ![t] = "out"]
    /\ UNCHANGED <<buflen, queue, rque, wque, sends, got>>

\* The reader is outside, or back from its suspension to look again.
AtReceive(t) == pc[t] = "out" \/ (pc[t] = "recv" /\ t \in woken)

\* operator>> with an empty queue: the task suspends.
ReceiveWait(t) ==
    /\ AtReceive(t) /\ queue = <<>>
    /\ rque' = Append(rque, t)
    /\ pc' = [pc EXCEPT ![t] = "recv"]
    /\ woken' = woken \ {t}
    /\ UNCHANGED <<buflen, queue, wque, sends, got>>

\* operator>> with an item to take.
Receive(t) ==
    /\ AtReceive(t) /\ queue # <<>>
    /\ got' = Append(got, Head(queue))
    /\ queue' = Tail(queue)
    /\ pc' = [pc EXCEPT ![t] = "out"]
    /\ IF wque # <<>>
       THEN woken' = (woken \ {t}) \cup {Head(wque)} /\ wque' = Tail(wque)
       ELSE woken' = woken \ {t} /\ UNCHANGED wque
    /\ UNCHANGED <<buflen, rque, sends>>

Next == \E t \in Tasks : Send(t) \/ SendResume(t) \/ ReceiveWait(t) \/ Receive(t)

Spec == Init /\ [][Next]_vars
-----------------------------------------------------------------------------
Readers == {t \in woken : pc[t] = "recv"}

\* Every variable stays in its type.
TypeOK ==
    /\ buflen \in Nat
    /\ queue \in Seq(Item) /\ got \in Seq(Item)
    /\ rque \in Seq(Tasks) /\ wque \in Seq(Tasks)
    /\ pc \in [Tasks -> {"out", "send", "recv"}]
    /\ woken \subseteq Tasks
    /\ sends \in [Tasks -> 0 .. MaxSends]

\* The lists of suspended tasks and the tasks agree: a task is in a list, once,
\* exactly while it is suspended in that operation and nobody has woken it.
\* A task woken twice, or woken by the wrong list, would leave a wakeup behind
\* that ends a later suspension.
Listed(q, t) == \E i \in 1 .. Len(q) : q[i] = t
ListsMatch ==
    /\ \A t \in Tasks :
        /\ Listed(rque, t) <=> pc[t] = "recv" /\ t \notin woken
        /\ Listed(wque, t) <=> pc[t] = "send" /\ t \notin woken
        /\ t \in woken => pc[t] # "out"
    /\ \A i, j \in 1 .. Len(rque) : rque[i] = rque[j] => i = j
    /\ \A i, j \in 1 .. Len(wque) : wque[i] = wque[j] => i = j

\* Exactly the senders whose items exceed the capacity are suspended, in the
\* order of their items: a sender goes on as soon as its item is within the
\* first buflen, not earlier and not later, although operator<< does not test
\* again after its suspension.
Backpressure ==
    /\ Len(wque) = IF Len(queue) > buflen THEN Len(queue) - buflen ELSE 0
    /\ \A j \in 1 .. Len(wque) : queue[buflen + j].from = wque[j]

\* No item lies in the channel for a reader that sleeps: if readers are
\* suspended, as many others have been woken as there are items.  Readers that
\* come by and take an item first do not break this.
NoReaderForgotten ==
    rque # <<>> => Len(queue) <= Cardinality(Readers)
-----------------------------------------------------------------------------
\* The channel is a buffer with parked senders: wque's tasks stand for the
\* items beyond the capacity.
LetIn == SubSeq(queue, 1, IF Len(queue) > buflen THEN buflen ELSE Len(queue))
Beyond == SubSeq(queue, buflen + 1, Len(queue))
Buffered == INSTANCE BufferedChannel WITH Items <- Item, cap <- buflen,
    buf <- LetIn, parked <- Beyond

\* Items leave in the order they came, once each, and at any time at most
\* buflen of them have no suspended sender.
ImplementsBuffered == Buffered!Spec
=============================================================================
