---------------------------- MODULE ListSequence ----------------------------
(***************************************************************************)
(* What coroutine/list.h promises: each list is a sequence of elements     *)
(* that are in no other list, read and changed at its ends, or by removing *)
(* an element wherever it is.                                              *)
(***************************************************************************)
EXTENDS Integers, Sequences

CONSTANTS Lists, Elems

VARIABLES
    content,    \* what each list holds
    ret         \* what the last pop returned

vars == <<content, ret>>

Members(l) == {content[l][i] : i \in 1 .. Len(content[l])}
Loose(e) == \A l \in Lists : e \notin Members(l)

Without(s, k) == [i \in 1 .. Len(s) - 1 |-> IF i < k THEN s[i] ELSE s[i + 1]]

Init == content = [l \in Lists |-> <<>>] /\ ret \in Lists \cup Elems

PushBack(l, e) ==
    /\ Loose(e)
    /\ content' = [content EXCEPT ![l] = Append(@, e)]
    /\ UNCHANGED ret

PushFront(l, e) ==
    /\ Loose(e)
    /\ content' = [content EXCEPT ![l] = <<e>> \o @]
    /\ UNCHANGED ret

Erase(l, k) ==
    /\ k \in 1 .. Len(content[l])
    /\ content' = [content EXCEPT ![l] = Without(@, k)]
    /\ UNCHANGED ret

PopAt(l, k) ==
    /\ k \in 1 .. Len(content[l])
    /\ ret' = content[l][k]
    /\ content' = [content EXCEPT ![l] = Without(@, k)]

Next ==
    \E l \in Lists :
        \/ \E e \in Elems : PushBack(l, e) \/ PushFront(l, e)
        \/ \E k \in 1 .. Len(content[l]) : Erase(l, k)
        \/ PopAt(l, 1) \/ PopAt(l, Len(content[l]))

Spec == Init /\ [][Next]_vars
=============================================================================
