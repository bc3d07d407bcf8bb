------------------------------ MODULE FreeList ------------------------------
(***************************************************************************)
(* coroutine/freelist.cpp: the lock-free list of free blocks under         *)
(* TaskAllocator, TaskStackAllocator and Timer, and their alloc and free.  *)
(* A step performs one access to m_head or to another thread's block.      *)
(***************************************************************************)
EXTENDS Integers, FiniteSets

CONSTANTS
    Threads,
    Allocators, \* the threads that allocate; every thread frees
    Blocks,     \* bound: blocks the system allocator can hand out
    Null

ASSUME FreeListAssumption ==
    /\ Allocators \subseteq Threads
    /\ IsFiniteSet(Blocks) /\ Null \notin Blocks

VARIABLES
    head,       \* m_head
    next,       \* what each block's first word holds while it is free
    unborn,     \* blocks the system allocator has not handed out yet
    held,       \* the blocks each thread's callers use
    pc, cur, nxt,   \* each thread: next step; local cur (elem); cur->next as read
    aba         \* history: a block came off the list with another link than was read

local == <<pc, cur, nxt>>
vars == <<head, next, unborn, held, local, aba>>

Init ==
    /\ head = Null
    /\ next = [b \in Blocks |-> Null]
    /\ unborn = Blocks
    /\ held = [h \in Threads |-> {}]
    /\ pc = [h \in Threads |-> "idle"]
    /\ cur = [h \in Threads |-> Null] /\ nxt = [h \in Threads |-> Null]
    /\ aba = FALSE

InUse(b) == \E h \in Threads : b \in held[h]

\* Where freelistAlloc goes with cur = b.
Try(h, b) ==
    /\ cur' = [cur EXCEPT ![h] = b]
    /\ pc' = [pc EXCEPT ![h] = IF b = Null THEN "new" ELSE "read"]
    /\ nxt' = [nxt EXCEPT ![h] = Null]
-----------------------------------------------------------------------------
\* cur = m_head.load().
AllocLoad(h) ==
    /\ h \in Allocators /\ pc[h] = "idle"
    /\ Try(h, head)
    /\ UNCHANGED <<head, next, unborn, held, aba>>

\* cur->next; a block in use holds whatever its user wrote there.
AllocRead(h) ==
    /\ pc[h] = "read"
    /\ \E b \in IF InUse(cur[h]) THEN Blocks \cup {Null} ELSE {next[cur[h]]} :
        nxt' = [nxt EXCEPT ![h] = b]
    /\ pc' = [pc EXCEPT ![h] = "cas"]
    /\ UNCHANGED <<head, next, unborn, held, cur, aba>>

\* A variant with a plain store for the compare-exchange.
AllocStore(h) ==
    /\ pc[h] = "cas"
    /\ head' = nxt[h]
    /\ held' = [held EXCEPT ![h] = @ \cup {cur[h]}]
    /\ pc' = [pc EXCEPT ![h] = "idle"]
    /\ cur' = [cur EXCEPT ![h] = Null] /\ nxt' = [nxt EXCEPT ![h] = Null]
    /\ UNCHANGED <<next, unborn, aba>>

\* The weak compare-exchange may also fail for no reason.
AllocCas(h) ==
    /\ pc[h] = "cas"
    /\ \/ /\ head = cur[h]
          /\ head' = nxt[h]
          /\ held' = [held EXCEPT ![h] = @ \cup {cur[h]}]
          /\ aba' = (aba \/ nxt[h] # next[cur[h]])
          /\ pc' = [pc EXCEPT ![h] = "idle"]
          /\ cur' = [cur EXCEPT ![h] = Null] /\ nxt' = [nxt EXCEPT ![h] = Null]
       \/ Try(h, head) /\ UNCHANGED <<head, held, aba>>
    /\ UNCHANGED <<next, unborn>>

\* The list is empty: _alloc, or new TimerEntry.
AllocNew(h) ==
    /\ pc[h] = "new"
    /\ \E b \in unborn :
        /\ unborn' = unborn \ {b}
        /\ held' = [held EXCEPT ![h] = @ \cup {b}]
    /\ pc' = [pc EXCEPT ![h] = "idle"]
    /\ UNCHANGED <<head, next, cur, nxt, aba>>

\* The user is done with b, which another thread may have allocated; elem->next
\* = m_head.load().
FreeLoad(h, b) ==
    /\ pc[h] = "idle"
    /\ \E g \in Threads : b \in held[g] /\ held' = [held EXCEPT ![g] = @ \ {b}]
    /\ next' = [next EXCEPT ![b] = head]
    /\ cur' = [cur EXCEPT ![h] = b]
    /\ pc' = [pc EXCEPT ![h] = "link"]
    /\ UNCHANGED <<head, unborn, nxt, aba>>

\* A variant whose failed compare-exchange is not repeated with the new head.
FreeLinkOnce(h) ==
    /\ pc[h] = "link"
    /\ head' = cur[h]
    /\ pc' = [pc EXCEPT ![h] = "idle"]
    /\ cur' = [cur EXCEPT ![h] = Null]
    /\ UNCHANGED <<next, unborn, held, nxt, aba>>

\* A failure stores the head it found into elem->next.
FreeLink(h) ==
    /\ pc[h] = "link"
    /\ \/ /\ head = next[cur[h]]
          /\ head' = cur[h]
          /\ pc' = [pc EXCEPT ![h] = "idle"]
          /\ cur' = [cur EXCEPT ![h] = Null]
          /\ UNCHANGED next
       \/ next' = [next EXCEPT ![cur[h]] = head] /\ UNCHANGED <<head, pc, cur>>
    /\ UNCHANGED <<unborn, held, nxt, aba>>

Next ==
    \E h \in Threads :
        \/ AllocLoad(h) \/ AllocRead(h) \/ AllocCas(h) \/ AllocNew(h)
        \/ (\E b \in Blocks : FreeLoad(h, b)) \/ FreeLink(h)

Spec == Init /\ [][Next]_vars
-----------------------------------------------------------------------------
\* The blocks reached from the head in at most k links.
Reached == LET R[k \in 0 .. Cardinality(Blocks)] ==
                   IF k = 0 THEN {head} \ {Null}
                   ELSE R[k - 1] \cup ({next[b] : b \in R[k - 1]} \ {Null})
           IN R[Cardinality(Blocks)]

\* Every block is in exactly one place: not handed out yet, with one caller,
\* being linked by one thread, or in the list; so no block is given to two
\* callers and none is lost.
Places(b) ==
    (IF b \in unborn THEN 1 ELSE 0) + (IF b \in Reached THEN 1 ELSE 0)
    + Cardinality({h \in Threads : b \in held[h]})
    + Cardinality({h \in Threads : pc[h] = "link" /\ cur[h] = b})
OnePlace == \A b \in Blocks : Places(b) = 1

\* The list ends: no two links lead to the same block, and none back to the head.
NoSharedLink ==
    \A b, c \in Reached : /\ next[b] # head
                          /\ next[b] = next[c] /\ next[b] # Null => b = c

\* No block is handed to a caller while another has it.
NotGivenTwice == \A g, h \in Threads : g # h => held[g] \cap held[h] = {}
=============================================================================
