------------------------- MODULE WorkStealingQueue -------------------------
(***************************************************************************)
(* coroutine/workstealingqueue.h at the granularity of its atomic loads,   *)
(* stores and compare-exchanges (all sequentially consistent).  One owner  *)
(* pushes and pops at the bottom, any number of Thieves steal at the top.  *)
(* A step performs at most one access to memory another thread can write;  *)
(* the reads that only the owner's own writes can disturb are folded into  *)
(* the step before them.                                                   *)
(***************************************************************************)
EXTENDS Integers, Sequences

CONSTANTS
    Thieves,    \* threads that call steal()
    Tasks,      \* the values pushed, Task pointers in the program
    Junk,       \* what a slot nobody stored to holds
    InitCap,    \* size of the first CirculQueue, a power of two, 2^16 in the program
    MaxIndex    \* bound: no push starts at an index m_bottom = MaxIndex

ASSUME QueueAssumption ==
    /\ Junk \notin Tasks
    /\ InitCap \in Nat /\ InitCap >= 2
    /\ MaxIndex \in Nat

VARIABLES
    bottom, top,        \* m_bottom, m_top
    cap, slots,         \* m_size and m_data of the array m_tasks points to
    gen,                \* how many arrays m_tasks has pointed to
    opc, item, oldtop,  \* the owner: next step, argument or result, local oldtop
    tpc, ttop, tgen, titem, \* each thief: next step, oldtop, array, task read
    copies,             \* how many callers hold each task
    junkTaken,          \* history: a caller got a value that is no task
    misplaced,          \* history: the array grew after the indices had passed its end
    freedRead           \* history: a thief read an array already deleted

owner == <<opc, item, oldtop>>
thief == <<tpc, ttop, tgen, titem>>
array == <<cap, slots, gen>>
history == <<copies, junkTaken, misplaced, freedRead>>
vars == <<bottom, top, array, owner, thief, history>>

Values == Tasks \cup {Junk}

\* CirculQueue::get: for a power of two, i & m_mask is i % m_size.
Slot(i) == slots[i % cap]

\* CirculQueue::new_double_capacity copies by position in the array, not by
\* index in the queue; the upper half is never stored to.
Doubled == [i \in 0 .. 2 * cap - 1 |-> IF i < cap THEN slots[i] ELSE Junk]

\* A caller receives v as the result of pop or steal.
Receive(v) ==
    /\ copies' = [t \in Tasks |-> IF t = v THEN copies[t] + 1 ELSE copies[t]]
    /\ junkTaken' = (junkTaken \/ v \notin Tasks)

Init ==
    /\ bottom = 1 /\ top = 1
    /\ cap = InitCap /\ gen = 1
    /\ slots = [i \in 0 .. cap - 1 |-> Junk]
    /\ opc = "idle" /\ item = Junk /\ oldtop = 1
    /\ tpc = [s \in Thieves |-> "idle"]
    /\ ttop = [s \in Thieves |-> 1]
    /\ tgen = [s \in Thieves |-> 1]
    /\ titem = [s \in Thieves |-> Junk]
    /\ copies = [t \in Tasks |-> 1]
    /\ junkTaken = FALSE /\ misplaced = FALSE /\ freedRead = FALSE
-----------------------------------------------------------------------------
(* push *)

\* A variant whose growth test comes too late.
PushBeginLate(t) ==
    /\ opc = "idle" /\ copies[t] > 0 /\ bottom < MaxIndex
    /\ copies' = [copies EXCEPT ![t] = @ - 1]
    /\ item' = t
    /\ oldtop' = top
    /\ opc' = IF bottom > top /\ bottom - top >= cap + 1 THEN "push_grow" ELSE "push_put"
    /\ UNCHANGED <<bottom, top, array, thief, junkTaken, misplaced, freedRead>>

\* Loads m_bottom and m_top and compares; the test guards against an unsigned
\* difference below zero first.
PushBegin(t) ==
    /\ opc = "idle" /\ copies[t] > 0 /\ bottom < MaxIndex
    /\ copies' = [copies EXCEPT ![t] = @ - 1]
    /\ item' = t
    /\ oldtop' = top
    /\ opc' = IF bottom > top /\ bottom - top >= cap - 1 THEN "push_grow" ELSE "push_put"
    /\ UNCHANGED <<bottom, top, array, thief, junkTaken, misplaced, freedRead>>

\* m_tasks = doubled array; the old one loses its last reference.
PushGrow ==
    /\ opc = "push_grow"
    /\ cap' = 2 * cap
    /\ slots' = Doubled
    /\ gen' = gen + 1
    /\ misplaced' = (misplaced \/ bottom > cap)
    /\ opc' = "push_put"
    /\ UNCHANGED <<bottom, top, item, oldtop, thief, copies, junkTaken, freedRead>>

PushPut ==
    /\ opc = "push_put"
    /\ slots' = [slots EXCEPT ![bottom % cap] = item]
    /\ opc' = "push_publish"
    /\ UNCHANGED <<bottom, top, cap, gen, item, oldtop, thief, history>>

PushPublish ==
    /\ opc = "push_publish"
    /\ bottom' = bottom + 1
    /\ opc' = "idle"
    /\ UNCHANGED <<top, array, item, oldtop, thief, history>>
-----------------------------------------------------------------------------
(* pop *)

PopDec ==
    /\ opc = "idle"
    /\ bottom' = bottom - 1
    /\ opc' = "pop_top"
    /\ UNCHANGED <<top, array, item, oldtop, thief, history>>

\* Loads m_top.  Nothing left, more than one left, or exactly one left: only
\* the last must be fought for.
PopLoadTop ==
    /\ opc = "pop_top"
    /\ oldtop' = top
    /\ \/ /\ bottom < top
          /\ opc' = "pop_reset"
          /\ UNCHANGED <<item, copies, junkTaken>>
       \/ /\ bottom > top
          /\ opc' = "idle"
          /\ item' = Slot(bottom)
          /\ Receive(Slot(bottom))
       \/ /\ bottom = top
          /\ opc' = "pop_cas"
          /\ item' = Slot(bottom)
          /\ UNCHANGED <<copies, junkTaken>>
    /\ UNCHANGED <<bottom, top, array, thief, misplaced, freedRead>>

\* A variant that forgets the store.
PopResetMissing ==
    /\ opc = "pop_reset"
    /\ opc' = "idle"
    /\ UNCHANGED <<bottom, top, array, item, oldtop, thief, history>>

PopReset ==
    /\ opc = "pop_reset"
    /\ bottom' = oldtop
    /\ opc' = "idle"
    /\ UNCHANGED <<top, array, item, oldtop, thief, history>>

\* A variant with a plain store for the compare-exchange.
PopCasStore ==
    /\ opc = "pop_cas"
    /\ top' = oldtop + 1 /\ opc' = "pop_store"
    /\ UNCHANGED <<bottom, array, item, oldtop, thief, history>>

\* A pop that loses the race for the last task returns at once: m_bottom stays
\* one below m_top.
PopCas ==
    /\ opc = "pop_cas"
    /\ \/ top = oldtop /\ top' = oldtop + 1 /\ opc' = "pop_store"
       \/ top # oldtop /\ opc' = "idle" /\ UNCHANGED top
    /\ UNCHANGED <<bottom, array, item, oldtop, thief, history>>

PopStore ==
    /\ opc = "pop_store"
    /\ bottom' = oldtop + 1
    /\ opc' = "idle"
    /\ Receive(item)
    /\ UNCHANGED <<top, array, item, oldtop, thief, misplaced, freedRead>>
-----------------------------------------------------------------------------
(* steal *)

StealTop(s) ==
    /\ tpc[s] = "idle"
    /\ ttop' = [ttop EXCEPT ![s] = top]
    /\ tpc' = [tpc EXCEPT ![s] = "bottom"]
    /\ UNCHANGED <<bottom, top, array, owner, tgen, titem, history>>

\* A variant that takes an empty queue for one with a task.
StealBottomLoose(s) ==
    /\ tpc[s] = "bottom"
    /\ tpc' = [tpc EXCEPT ![s] = IF bottom < ttop[s] THEN "idle" ELSE "array"]
    /\ UNCHANGED <<bottom, top, array, owner, ttop, tgen, titem, history>>

StealBottom(s) ==
    /\ tpc[s] = "bottom"
    /\ tpc' = [tpc EXCEPT ![s] = IF bottom <= ttop[s] THEN "idle" ELSE "array"]
    /\ UNCHANGED <<bottom, top, array, owner, ttop, tgen, titem, history>>

\* m_tasks-> reads the pointer but takes no share in the array.
StealArray(s) ==
    /\ tpc[s] = "array"
    /\ tgen' = [tgen EXCEPT ![s] = gen]
    /\ tpc' = [tpc EXCEPT ![s] = "get"]
    /\ UNCHANGED <<bottom, top, array, owner, ttop, titem, history>>

\* A deleted array may hold anything by now.
StealGet(s) ==
    /\ tpc[s] = "get"
    /\ \/ tgen[s] = gen /\ titem' = [titem EXCEPT ![s] = Slot(ttop[s])] /\ UNCHANGED freedRead
       \/ /\ tgen[s] # gen
          /\ \E v \in Values : titem' = [titem EXCEPT ![s] = v]
          /\ freedRead' = TRUE
    /\ tpc' = [tpc EXCEPT ![s] = "cas"]
    /\ UNCHANGED <<bottom, top, array, owner, ttop, tgen, copies, junkTaken, misplaced>>

\* A variant with a plain store for the compare-exchange.
StealStore(s) ==
    /\ tpc[s] = "cas"
    /\ top' = ttop[s] + 1 /\ Receive(titem[s])
    /\ tpc' = [tpc EXCEPT ![s] = "idle"]
    /\ UNCHANGED <<bottom, array, owner, ttop, tgen, titem, misplaced, freedRead>>

StealCas(s) ==
    /\ tpc[s] = "cas"
    /\ \/ top = ttop[s] /\ top' = top + 1 /\ Receive(titem[s])
       \/ top # ttop[s] /\ UNCHANGED <<top, copies, junkTaken>>
    /\ tpc' = [tpc EXCEPT ![s] = "idle"]
    /\ UNCHANGED <<bottom, array, owner, ttop, tgen, titem, misplaced, freedRead>>
-----------------------------------------------------------------------------
OwnerStep ==
    \/ \E t \in Tasks : PushBegin(t)
    \/ PushGrow \/ PushPut \/ PushPublish
    \/ PopDec \/ PopLoadTop \/ PopReset \/ PopCas \/ PopStore

ThiefStep(s) ==
    StealTop(s) \/ StealBottom(s) \/ StealArray(s) \/ StealGet(s) \/ StealCas(s)

Next == OwnerStep \/ \E s \in Thieves : ThiefStep(s)

Spec == Init /\ [][Next]_vars
-----------------------------------------------------------------------------
OwnerPC == {"idle", "push_grow", "push_put", "push_publish",
            "pop_top", "pop_reset", "pop_cas", "pop_store"}
ThiefPC == {"idle", "bottom", "array", "get", "cas"}

\* Every variable stays in its type.  m_bottom and m_top are unsigned: that
\* they are naturals here says that pop's m_bottom-- never wraps below zero,
\* which is why both start at 1 (lines 102, 148-149).
TypeOK ==
    /\ bottom \in Nat /\ top \in Nat
    /\ cap \in Nat \ {0} /\ gen \in Nat \ {0}
    /\ slots \in [0 .. cap - 1 -> Values]
    /\ opc \in OwnerPC /\ item \in Values /\ oldtop \in Nat
    /\ tpc \in [Thieves -> ThiefPC]
    /\ ttop \in [Thieves -> Nat] /\ tgen \in [Thieves -> Nat \ {0}]
    /\ titem \in [Thieves -> Values]
    /\ copies \in [Tasks -> Nat]
    /\ junkTaken \in BOOLEAN /\ misplaced \in BOOLEAN /\ freedRead \in BOOLEAN

\* The end of the indices that can still be taken: while a pop fights for
\* index m_bottom that index has not been given up.
Claimable == IF opc \in {"pop_top", "pop_cas"} THEN bottom + 1 ELSE bottom
Window == top .. Claimable - 1

\* The test's claim (workstealingqueue_test.cpp:87) task by task: pops and
\* steals never hand out a task more often than it was pushed, whatever the
\* interleaving and however the array has grown, as long as no thief read an
\* array that push had deleted under it.
TakenOnce == ~freedRead => \A t \in Tasks : copies[t] <= 1

\* A task is either in somebody's hands or in the queue, never both: what a
\* caller still holds cannot be taken a second time, and no task is in two
\* slots.
NeverHeldAndQueued ==
    ~freedRead =>
        \A i \in Window : Slot(i) \in Tasks =>
            copies[Slot(i)] = 0 /\ \A j \in Window : Slot(j) = Slot(i) => j = i

\* The task a thief is about to win at its compare-exchange is in nobody's
\* hands and at no other index, even if the array was replaced since he read it.
ClaimIsSafe ==
    ~freedRead => \A s \in Thieves :
        tpc[s] = "cas" /\ ttop[s] = top =>
            /\ top \in Window
            /\ titem[s] \in Tasks =>
                copies[titem[s]] = 0 /\ \A i \in Window \ {top} : Slot(i) # titem[s]

\* What new_double_capacity and a lock-free steal were relied on for: every
\* growth so far left the tasks where their indices say, and no thief read an
\* array after its deletion.
Sound == ~misplaced /\ ~freedRead

\* Nobody is handed a slot that no push has filled: pop and steal stay inside
\* what has been published, also in an array that has grown.
NoJunkTaken == Sound => ~junkTaken

\* Between two operations of the owner m_bottom is at most one behind m_top,
\* and it never runs a whole array ahead: size(), empty() and the growth test
\* compare the two.
BottomFollowsTop ==
    /\ opc \in {"idle", "push_grow", "push_put", "push_publish"} => bottom >= top - 1
    /\ Claimable - top < cap

\* With all calls finished, a task that nobody holds can still be taken.
Findable(t) == copies[t] > 0 \/ \E i \in Window : Slot(i) = t
NoTaskLost ==
    opc = "idle" /\ (\A s \in Thieves : tpc[s] = "idle") => \A t \in Tasks : Findable(t)

\* No caller receives a value that was never pushed.
OnlyTasksTaken == ~junkTaken

\* No thief reads an array after the owner's growth deleted it.
NoFreedRead == ~freedRead
-----------------------------------------------------------------------------
(* As long as the array is Sound, the queue is the deque of ReadyDeque:     *)
(* a push takes effect when it publishes, a pop when it settles which index *)
(* it gets, a steal at its compare-exchange.                                *)

InHands(t) == opc \in {"push_grow", "push_put", "push_publish", "pop_store"} /\ item = t

Waiting == [k \in 1 .. Claimable - top |-> Slot(top + k - 1)]
Skewed ==
    /\ opc \notin {"pop_cas", "pop_store"}
    /\ (IF opc \in {"pop_top", "pop_reset"} THEN bottom + 1 ELSE bottom) < top
Popping == CASE opc \in {"pop_top", "pop_reset"} -> "open"
             [] opc = "pop_cas" -> IF top = oldtop THEN "open" ELSE "raced"
             [] OTHER -> "no"
Owned == [t \in Tasks |-> IF InHands(t) THEN copies[t] + 1 ELSE copies[t]]

Deque == INSTANCE ReadyDeque WITH
    deque <- Waiting, skewed <- Skewed, popping <- Popping, copies <- Owned

\* Every behaviour of the code's loads, stores and compare-exchanges, growth
\* included, is one of the atomic deque until the array is not Sound.
ImplementsDeque ==
    Deque!Init /\ [][Sound' => Deque!Next \/ UNCHANGED Deque!dqvars]_vars
=============================================================================
