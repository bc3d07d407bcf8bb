----------------------------- MODULE TaskStack -----------------------------
(***************************************************************************)
(* Where a task's stack comes from and goes to: the constructor and the    *)
(* destructor of Task (task.cpp) and TaskStackAllocator.  Addresses are    *)
(* numbers; mmap hands them out one after the other, so that an access     *)
(* outside a mapping hits its neighbour.  The free list is the one         *)
(* FreeList models, here as a stack.                                       *)
(***************************************************************************)
EXTENDS Integers, Sequences

CONSTANTS
    Tasks,
    Page,       \* m_sys_pagesize
    Default,    \* m_size, 1 << 20
    Sizes       \* arguments of co_create and co_setstacksize

ASSUME TaskStackAssumption ==
    /\ Page \in Nat \ {0}
    /\ Default \in Nat /\ Default % Page = 0 /\ Default >= Page
    /\ Sizes \subseteq Nat

VARIABLES
    msize,      \* m_size
    mark,       \* setSize was called
    brk,        \* the end of what was mapped
    guards,     \* the addresses that setProtect was called with
    freelist,   \* blocks in the free list, the head first
    stack,      \* m_stack and m_stack_size of each task; NoStack: no such task
    mixed       \* history: a block was freed by another allocator than its own

stackvars == <<msize, mark, brk, guards, freelist, stack, mixed>>

NoStack == [from |-> "none", ptr |-> 0, size |-> 0]

StackInit ==
    /\ msize = Default /\ mark = FALSE
    /\ brk = 0 /\ guards = {} /\ freelist = <<>>
    /\ stack = [t \in Tasks |-> NoStack]
    /\ mixed = FALSE
-----------------------------------------------------------------------------
RoundUp(size) == ((size + Page - 1) \div Page) * Page

\* A variant that stores the rounded size.
SetSizeStores(size) ==
    /\ ~mark /\ mark' = TRUE
    /\ msize' = RoundUp(size)
    /\ UNCHANGED <<brk, guards, freelist, stack, mixed>>

\* co_setstacksize: the first call rounds its own argument up.
SetSize(size) ==
    /\ ~mark /\ mark' = TRUE
    /\ UNCHANGED <<msize, brk, guards, freelist, stack, mixed>>

\* TaskStackAllocator::alloc from the free list, whose elements are the last
\* pages of the stacks.
Reuse(t) ==
    /\ freelist # <<>>
    /\ stack' = [stack EXCEPT ![t] =
            [from |-> "map", ptr |-> Head(freelist) - msize + Page, size |-> msize]]
    /\ freelist' = Tail(freelist)
    /\ UNCHANGED <<brk, guards>>

\* _alloc: a new mapping with a page to spare, its first page protected.
Map(t) ==
    /\ freelist = <<>>
    /\ brk' = brk + msize + Page
    /\ guards' = guards \cup {brk}
    /\ stack' = [stack EXCEPT ![t] = [from |-> "map", ptr |-> brk + Page, size |-> msize]]
    /\ UNCHANGED freelist

\* Task::Task: a stack of the allocator's size comes from the allocator.
Create(t, size) ==
    /\ stack[t] = NoStack
    /\ \/ size = msize /\ (Reuse(t) \/ Map(t))
       \/ /\ size # msize
          /\ stack' = [stack EXCEPT ![t] = [from |-> "heap", ptr |-> 0, size |-> size]]
          /\ UNCHANGED <<brk, guards, freelist>>
    /\ UNCHANGED <<msize, mark, mixed>>

\* A variant that gives the free list the stack's first page.
LastPageIsFirst(ptr) == ptr

\* The address TaskStackAllocator::free passes on.
LastPage(ptr) == ptr + msize - Page

\* Task::~Task makes the same comparison as the constructor.
Delete(t) ==
    LET s == stack[t] IN
    /\ s # NoStack
    /\ freelist' = IF s.size = msize THEN <<LastPage(s.ptr)>> \o freelist ELSE freelist
    /\ mixed' = (mixed \/ (s.size = msize) # (s.from = "map"))
    /\ stack' = [stack EXCEPT ![t] = NoStack]
    /\ UNCHANGED <<msize, mark, brk, guards>>

StackNext ==
    \/ \E t \in Tasks : Delete(t) \/ \E size \in Sizes : Create(t, size)
    \/ \E size \in Sizes : SetSize(size)

StackSpec == StackInit /\ [][StackNext]_stackvars
-----------------------------------------------------------------------------
Span(ptr, size) == ptr .. ptr + size - 1
Mapped == {t \in Tasks : stack[t].from = "map"}
Memory(t) == Span(stack[t].ptr, stack[t].size)

\* The stacks of living tasks lie in what was mapped, share no byte with each
\* other or with a protected page, and none holds the link of a free block: the
\* offset between a stack and its last page, taken off in free and put on again
\* in alloc, is the same however the calls of setSize, create and delete mix.
StacksApart ==
    \A t \in Mapped :
        /\ Memory(t) \subseteq 0 .. brk - 1
        /\ \A u \in Mapped \ {t} : Memory(t) \cap Memory(u) = {}
        /\ \A g \in guards : Memory(t) \cap Span(g, Page) = {}
        /\ \A i \in DOMAIN freelist : freelist[i] \notin Memory(t)

\* Every stack goes back to the allocator it came from, although the destructor
\* only knows its size.
FreedWhereAllocated == ~mixed

\* co_setstacksize, called before any task is created, sets the size of the
\* stacks (README.md:52).
SizeIsSet == mark => msize \in {RoundUp(size) : size \in Sizes \ {Default}}
=============================================================================
