-------------------------------- MODULE List --------------------------------
(***************************************************************************)
(* coroutine/list.h: circular lists through the links that the elements    *)
(* carry (ListHook).  A list's own node m_head is named by the list.  The  *)
(* lists are those of a Timer, used under m_list_mtx, so that an operation *)
(* is one step; the elements are TimerEntry objects, which spend the time  *)
(* between two lists in the timer's free list.                             *)
(***************************************************************************)
EXTENDS Integers, Sequences

CONSTANTS
    Lists,
    Elems

ASSUME ListAssumption == Lists \cap Elems = {}

VARIABLES
    next, prev, \* m_next and m_prev of every node
    size,       \* m_size
    ret,        \* what the last pop returned
    content     \* history: the elements of each list, in order

vars == <<next, prev, size, ret, content>>

Nodes == Lists \cup Elems

Abstract == INSTANCE ListSequence

\* A node is made with both links to itself, then the lists take theirs.
Init ==
    /\ next = [n \in Nodes |-> n] /\ prev = [n \in Nodes |-> n]
    /\ size = [l \in Lists |-> 0]
    /\ ret \in Nodes
    /\ content = [l \in Lists |-> <<>>]
-----------------------------------------------------------------------------
\* A variant whose neighbour after the new node is not told.
AddHalf(new, before, after) ==
    /\ prev' = [prev EXCEPT ![new] = before]
    /\ next' = [next EXCEPT ![new] = after, ![before] = new]

Add(new, before, after) ==
    /\ prev' = [prev EXCEPT ![after] = new, ![new] = before]
    /\ next' = [next EXCEPT ![new] = after, ![before] = new]

Unlink(e) ==
    /\ next' = [next EXCEPT ![prev[e]] = next[e]]
    /\ prev' = [prev EXCEPT ![next[e]] = prev[e]]

\* An element goes into a list while it is in none.
PushBack(l, e) ==
    /\ Abstract!Loose(e)
    /\ Add(e, prev[l], l)
    /\ size' = [size EXCEPT ![l] = @ + 1]
    /\ content' = [content EXCEPT ![l] = Append(@, e)]
    /\ UNCHANGED ret

PushFront(l, e) ==
    /\ Abstract!Loose(e)
    /\ Add(e, l, next[l])
    /\ size' = [size EXCEPT ![l] = @ + 1]
    /\ content' = [content EXCEPT ![l] = <<e>> \o @]
    /\ UNCHANGED ret

\* erase of the k-th element, by its address.
Erase(l, k) ==
    /\ Unlink(content[l][k])
    /\ size' = [size EXCEPT ![l] = @ - 1]
    /\ content' = [content EXCEPT ![l] = Abstract!Without(@, k)]
    /\ UNCHANGED ret

\* The callers pop only while empty() says no.
PopFront(l) ==
    /\ size[l] # 0
    /\ ret' = next[l]
    /\ Unlink(next[l])
    /\ size' = [size EXCEPT ![l] = @ - 1]
    /\ content' = [content EXCEPT ![l] = Tail(@)]

\* A variant that takes the element after the head.
PopBackTakesFirst(l) ==
    /\ size[l] # 0
    /\ ret' = next[l]
    /\ Unlink(prev[l])
    /\ size' = [size EXCEPT ![l] = @ - 1]
    /\ content' = [content EXCEPT ![l] = SubSeq(@, 1, Len(@) - 1)]

PopBack(l) ==
    /\ size[l] # 0
    /\ ret' = prev[l]
    /\ Unlink(prev[l])
    /\ size' = [size EXCEPT ![l] = @ - 1]
    /\ content' = [content EXCEPT ![l] = SubSeq(@, 1, Len(@) - 1)]

\* The timer's free list keeps its own link in the first word of an entry,
\* which is m_prev.
FreeListLink(e) ==
    /\ Abstract!Loose(e)
    /\ \E n \in Nodes : prev' = [prev EXCEPT ![e] = n]
    /\ UNCHANGED <<next, size, ret, content>>

Next ==
    \/ \E l \in Lists :
        \/ \E e \in Elems : PushBack(l, e) \/ PushFront(l, e)
        \/ \E k \in 1 .. Len(content[l]) : Erase(l, k)
        \/ PopFront(l) \/ PopBack(l)
    \/ \E e \in Elems : FreeListLink(e)

Spec == Init /\ [][Next]_vars
-----------------------------------------------------------------------------
TypeOK ==
    /\ next \in [Nodes -> Nodes] /\ prev \in [Nodes -> Nodes]
    /\ size \in [Lists -> Nat]
    /\ ret \in Nodes
    /\ content \in [Lists -> Seq(Elems)]

\* The i-th node of list l, its head before the first and after the last.
At(l, i) == IF i \in 1 .. Len(content[l]) THEN content[l][i] ELSE l

\* From every list's head the links lead through exactly its elements in their
\* order, forwards and backwards, and back to the head, and m_size counts them,
\* whatever the links of the elements said before they were put in.
Linked ==
    \A l \in Lists :
        /\ size[l] = Len(content[l])
        /\ \A i \in 0 .. Len(content[l]) :
            next[At(l, i)] = At(l, i + 1) /\ prev[At(l, i + 1)] = At(l, i)

\* No element is in two lists, or twice in one.
Distinct ==
    \A l, m \in Lists :
        \A i \in 1 .. Len(content[l]), j \in 1 .. Len(content[m]) :
            content[l][i] = content[m][j] => l = m /\ i = j

\* Read by following the links from the head, as many steps as m_size says, the
\* lists are sequences: pushes add at an end, pops return and remove one, erase
\* takes out its argument, and no list notices what is done to another.
Walk(l) ==
    LET node[i \in 0 .. size[l]] == IF i = 0 THEN l ELSE next[node[i - 1]]
    IN  [i \in 1 .. size[l] |-> node[i]]
Walked == INSTANCE ListSequence WITH content <- [l \in Lists |-> Walk(l)]
ImplementsSequences == Walked!Spec

\* The same of the history variable, without the walk.
FollowsSequences == Abstract!Spec
=============================================================================
