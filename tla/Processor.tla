----------------------------- MODULE Processor -----------------------------
(***************************************************************************)
(* coroutine/processor.cpp: the loop each thread runs, the tasks it runs,  *)
(* and the wakers that end a suspension (tasks on another processor or on  *)
(* the same one, the timer thread, the epoll thread).  Scheduler::start,   *)
(* addTask, getSuspendEntry / taskBlock / taskWakeup, taskYield.           *)
(*                                                                         *)
(* A m_ready queue is the deque of ReadyDeque, whose steps                 *)
(* WorkStealingQueue implements.  A ThreadSafeQueue is a sequence: each of *)
(* its operations runs under the queue's mutex.  A task is what it does to *)
(* the scheduler: any sequence of create, yield, suspend, wake, finish.    *)
(***************************************************************************)
EXTENDS Integers, Sequences, FiniteSets

CONSTANTS
    Procs,          \* processors, one thread each
    Main,           \* the processor of the thread that calls start()
    Ext,            \* threads of the library that only wake tasks
    Tasks,
    None,           \* nullptr
    GlobalEvery,    \* every so-manieth task of a processor goes to m_global, 32
    MaxSuspends,    \* bound: a task suspends while m_suspendid is below it
    Wrap            \* one more than the largest m_blocks and m_suspendid, 2^64

ASSUME ProcessorAssumption ==
    /\ Main \in Procs
    /\ None \notin Tasks \cup Procs
    /\ Ext \cap Procs = {}
    /\ IsFiniteSet(Procs) /\ IsFiniteSet(Ext)
    /\ GlobalEvery \in Nat \ {0} /\ MaxSuspends \in Nat /\ Wrap \in Nat \ {0}

VARIABLES
    ready, skew, raced, \* m_ready: the deque, m_bottom one below m_top, and
                        \* whether the owner's open pop lost the last task
    yieldq, wakeup,     \* m_yield, m_wakeup
    blocks, count,      \* m_blocks modulo Wrap, m_task_count modulo GlobalEvery
    global,             \* m_global
    pc,                 \* each thread: next step
    cur,                \* the task whose context the thread is in
    hand,               \* local variable task (ret in the stealing loop)
    victim, quota,      \* stealing loop: whom from, how many tries are left
    status, proc, sid,  \* each task: m_status, m_proc, m_suspendid
    link,               \* the processor whose m_ctx is the task's uc_link
    entries,            \* SuspendEntry values somebody still has to use
    wake                \* each waker: step in taskWakeup, its arguments

deques == <<ready, skew, raced>>
queues == <<deques, yieldq, wakeup, global>>
counters == <<blocks, count>>
steal == <<victim, quota>>
thread == <<pc, cur, hand, steal>>
task == <<status, proc, sid, link>>
waking == <<entries, wake>>
vars == <<queues, counters, thread, task, waking>>

Wakers == Procs \cup Ext
Awake == [step |-> "no"]

Init ==
    /\ ready = [p \in Procs |-> <<>>]
    /\ skew = [p \in Procs |-> FALSE] /\ raced = [p \in Procs |-> FALSE]
    /\ yieldq = [p \in Procs |-> <<>>] /\ wakeup = [p \in Procs |-> <<>>]
    /\ blocks = [p \in Procs |-> 0] /\ count = [p \in Procs |-> 0]
    /\ global = <<>>
    /\ pc = [p \in Procs |-> IF p = Main THEN "main" ELSE "off"]
    /\ cur = [p \in Procs |-> None] /\ hand = [p \in Procs |-> None]
    /\ victim = [p \in Procs |-> None] /\ quota = [p \in Procs |-> 0]
    /\ status = [t \in Tasks |-> "none"]
    /\ proc = [t \in Tasks |-> None] /\ link = [t \in Tasks |-> None]
    /\ sid = [t \in Tasks |-> 0]
    /\ entries = {}
    /\ wake = [w \in Wakers |-> Awake]

\* m_ready.push by its owner p; see ReadyDeque for what skew does to it.
PushReady(p, t) ==
    /\ ready' = [ready EXCEPT ![p] = IF skew[p] THEN @ ELSE Append(@, t)]
    /\ skew' = [skew EXCEPT ![p] = FALSE]
    /\ UNCHANGED raced

\* m_ready.size() as another thread sees it: an open pop has lowered m_bottom.
SizeSeen(p) ==
    IF pc[p] = "pop" /\ ready[p] # <<>> THEN Len(ready[p]) - 1 ELSE Len(ready[p])

Goto(p, step) == pc' = [pc EXCEPT ![p] = step]
-----------------------------------------------------------------------------
(* Scheduler::start *)

\* Creates another processor and its thread; min - 1 of them, so any number.
Spawn(p) ==
    /\ pc[Main] \in {"main", "spawn"} /\ pc[p] = "off"
    /\ pc' = [pc EXCEPT ![Main] = "spawn", ![p] = "top"]
    /\ UNCHANGED <<queues, counters, cur, hand, steal, task, waking>>

RunMain ==
    /\ pc[Main] \in {"main", "spawn"}
    /\ Goto(Main, "top")
    /\ UNCHANGED <<queues, counters, cur, hand, steal, task, waking>>
-----------------------------------------------------------------------------
(* The loop of Processor::run *)

\* runTask: from here on the thread is in the task's context.  A task that
\* runs for the first time (TaskReady) gets a context that returns to p's.
RunTask(p, t) ==
    /\ cur' = [cur EXCEPT ![p] = t]
    /\ proc' = [proc EXCEPT ![t] = p]
    /\ link' = [link EXCEPT ![t] = IF status[t] = "ready" THEN p ELSE @]
    /\ Goto(p, "task")

\* m_wakeup.pop; if it is empty m_ready.pop begins.
PopWakeup(p) ==
    /\ pc[p] = "top"
    /\ \/ /\ wakeup[p] # <<>>
          /\ RunTask(p, Head(wakeup[p]))
          /\ wakeup' = [wakeup EXCEPT ![p] = Tail(@)]
          /\ UNCHANGED raced
       \/ /\ wakeup[p] = <<>>
          /\ raced' = [raced EXCEPT ![p] = FALSE]
          /\ Goto(p, "pop")
          /\ UNCHANGED <<wakeup, cur, proc, link>>
    /\ UNCHANGED <<ready, skew, yieldq, global, counters, hand, steal, status, sid, waking>>

PopReady(p) ==
    /\ pc[p] = "pop"
    /\ \/ /\ ready[p] # <<>>
          /\ RunTask(p, ready[p][Len(ready[p])])
          /\ ready' = [ready EXCEPT ![p] = SubSeq(@, 1, Len(@) - 1)]
          /\ UNCHANGED skew
       \/ /\ ready[p] = <<>>
          /\ skew' = [skew EXCEPT ![p] = raced[p]]
          /\ Goto(p, "yield")
          /\ UNCHANGED <<ready, cur, proc, link>>
    /\ UNCHANGED <<raced, yieldq, wakeup, global, counters, hand, steal, status, sid, waking>>

TakeYield(p) ==
    /\ pc[p] = "yield"
    /\ \/ /\ yieldq[p] # <<>>
          /\ PushReady(p, Head(yieldq[p]))
          /\ yieldq' = [yieldq EXCEPT ![p] = Tail(@)]
          /\ Goto(p, "top")
       \/ /\ yieldq[p] = <<>>
          /\ Goto(p, "steal")
          /\ UNCHANGED <<deques, yieldq>>
    /\ UNCHANGED <<wakeup, global, counters, cur, hand, steal, task, waking>>

\* m_processors: how many there are, and the capacity of the vector, which
\* push_back doubles by moving the elements and freeing the old array.
Known == {p \in Procs : pc[p] # "off"}
Capacity(n) == CHOOSE c \in {2 ^ k : k \in 0 .. n} : c >= n /\ 2 * n > c

\* getProcessor finds the array of the vector ...
FindArray(p) ==
    /\ pc[p] = "steal"
    /\ quota' = [quota EXCEPT ![p] = Cardinality(Known)]
    /\ Goto(p, "draw")
    /\ UNCHANGED <<queues, counters, cur, hand, victim, task, waking>>

\* ... and reads the victim from it, unless start has replaced it ("freed").
\* The victims are drawn at random, so every draw may be p itself.
PickVictim(p) ==
    /\ pc[p] = "draw"
    /\ IF Capacity(quota[p]) # Capacity(Cardinality(Known))
       THEN Goto(p, "freed") /\ UNCHANGED victim
       ELSE \/ Goto(p, "recheck") /\ UNCHANGED victim
            \/ \E v \in Known \ {p} :
                 /\ SizeSeen(v) > 0
                 /\ victim' = [victim EXCEPT ![p] = v]
                 /\ Goto(p, "size")
    /\ quota' = [quota EXCEPT ![p] = 0]
    /\ UNCHANGED <<queues, counters, cur, hand, task, waking>>

\* A variant that leaves the victim one task instead of half.
StealAllButOne(p) ==
    /\ pc[p] = "size"
    /\ quota' = [quota EXCEPT ![p] = SizeSeen(victim[p]) - 1]
    /\ Goto(p, "stealing")
    /\ UNCHANGED <<queues, counters, cur, hand, victim, task, waking>>

\* The size is read a second time.
StealHalf(p) ==
    /\ pc[p] = "size"
    /\ quota' = [quota EXCEPT ![p] = SizeSeen(victim[p]) \div 2]
    /\ Goto(p, "stealing")
    /\ UNCHANGED <<queues, counters, cur, hand, victim, task, waking>>

\* One round of the stealing loop; steal() may fail.
StealOne(p) ==
    LET v == victim[p] IN
    /\ pc[p] = "stealing"
    /\ \/ /\ quota[p] = 0
          /\ Goto(p, "recheck")
          /\ UNCHANGED <<ready, raced, hand, quota>>
       \/ /\ quota[p] > 0
          /\ quota' = [quota EXCEPT ![p] = @ - 1]
          /\ UNCHANGED <<pc, ready, raced, hand>>
       \/ /\ quota[p] > 0 /\ ready[v] # <<>>
          /\ quota' = [quota EXCEPT ![p] = @ - 1]
          /\ hand' = [hand EXCEPT ![p] = Head(ready[v])]
          /\ ready' = [ready EXCEPT ![v] = Tail(@)]
          /\ \/ UNCHANGED raced
             \/ pc[v] = "pop" /\ Len(ready[v]) = 1 /\ raced' = [raced EXCEPT ![v] = TRUE]
          /\ Goto(p, "keep_stolen")
    /\ UNCHANGED <<skew, yieldq, wakeup, global, counters, cur, victim, task, waking>>

Recheck(p) ==
    /\ pc[p] = "recheck"
    /\ Goto(p, IF ready[p] # <<>> THEN "top" ELSE "global")
    /\ UNCHANGED <<queues, counters, cur, hand, steal, task, waking>>

\* The head of m_global is taken, to be pushed to m_ready next.
TakeGlobal(p) ==
    /\ global # <<>>
    /\ hand' = [hand EXCEPT ![p] = Head(global)]
    /\ global' = Tail(global)
    /\ Goto(p, "keep")

PopGlobal(p) ==
    /\ pc[p] = "global"
    /\ \/ TakeGlobal(p)
       \/ global = <<>> /\ Goto(p, "blocks") /\ UNCHANGED <<hand, global>>
    /\ UNCHANGED <<deques, yieldq, wakeup, counters, cur, steal, task, waking>>

\* m_ready.push of the task just stolen, or taken from a shared queue.
Keep(p) ==
    /\ pc[p] \in {"keep", "keep_stolen"}
    /\ PushReady(p, hand[p])
    /\ hand' = [hand EXCEPT ![p] = None]
    /\ Goto(p, IF pc[p] = "keep" THEN "top" ELSE "stealing")
    /\ UNCHANGED <<yieldq, wakeup, global, counters, cur, steal, task, waking>>

CheckBlocks(p) ==
    /\ pc[p] = "blocks"
    /\ Goto(p, IF blocks[p] # 0 THEN "wait_wakeup" ELSE "wait_global")
    /\ UNCHANGED <<queues, counters, cur, hand, steal, task, waking>>

WaitWakeup(p) ==
    /\ pc[p] = "wait_wakeup" /\ wakeup[p] # <<>>
    /\ hand' = [hand EXCEPT ![p] = Head(wakeup[p])]
    /\ wakeup' = [wakeup EXCEPT ![p] = Tail(@)]
    /\ Goto(p, "keep")
    /\ UNCHANGED <<deques, yieldq, global, counters, cur, steal, task, waking>>

WaitGlobal(p) ==
    /\ pc[p] = "wait_global" /\ TakeGlobal(p)
    /\ UNCHANGED <<deques, yieldq, wakeup, counters, cur, steal, task, waking>>
-----------------------------------------------------------------------------
(* What the code on p calls: a task, or main before start *)

\* The running task is not inside taskWakeup.
Free(p) == pc[p] = "task" /\ wake[p] = Awake

\* addTask.
Create(p, t) ==
    /\ pc[p] = "main" \/ Free(p)
    /\ status[t] = "none"
    /\ status' = [status EXCEPT ![t] = "ready"]
    /\ count' = [count EXCEPT ![p] = (@ + 1) % GlobalEvery]
    /\ \/ count'[p] = 0 /\ global' = Append(global, t) /\ UNCHANGED deques
       \/ count'[p] # 0 /\ PushReady(p, t) /\ UNCHANGED global
    /\ UNCHANGED <<yieldq, wakeup, blocks, thread, proc, sid, link, waking>>

\* The running task leaves its thread with a new status.
Leave(p, s) ==
    /\ status' = [status EXCEPT ![cur[p]] = s]
    /\ Goto(p, "switch")

\* A variant that puts the task where thieves find it.
YieldReady(p) ==
    /\ Free(p)
    /\ PushReady(p, cur[p])
    /\ Leave(p, "suspend")
    /\ UNCHANGED <<yieldq, wakeup, global, counters, cur, hand, steal, proc, sid, link, waking>>

\* taskYield up to its swapcontext.
Yield(p) ==
    /\ Free(p)
    /\ yieldq' = [yieldq EXCEPT ![p] = Append(@, cur[p])]
    /\ Leave(p, "suspend")
    /\ UNCHANGED <<deques, wakeup, global, counters, cur, hand, steal, proc, sid, link, waking>>

\* getSuspendEntry, and the entry handed to whoever is to wake the task.
EntryOf(t) == [t |-> t, id |-> sid[t]]
Suspend(p) ==
    /\ Free(p) /\ sid[cur[p]] < MaxSuspends
    /\ entries' = entries \cup {EntryOf(cur[p])}
    /\ Goto(p, "block")
    /\ UNCHANGED <<queues, counters, cur, hand, steal, task, wake>>

\* A variant that does not count.
BlockUncounted(p) ==
    /\ pc[p] = "block"
    /\ Leave(p, "block")
    /\ UNCHANGED <<queues, counters, cur, hand, steal, proc, sid, link, waking>>

\* taskBlock up to its swapcontext.
Block(p) ==
    /\ pc[p] = "block"
    /\ blocks' = [blocks EXCEPT ![p] = (@ + 1) % Wrap]
    /\ Leave(p, "block")
    /\ UNCHANGED <<queues, count, cur, hand, steal, proc, sid, link, waking>>

\* The task's context is saved, the thread is back in runTask.
Switch(p) ==
    /\ pc[p] = "switch"
    /\ cur' = [cur EXCEPT ![p] = None]
    /\ Goto(p, "top")
    /\ UNCHANGED <<queues, counters, hand, steal, task, waking>>

\* The task's function returns, and with it the task's context to its uc_link.
\* If that is p's the task is deleted by runTask.  If the task has moved since
\* its first run, p goes on with the stack of the other processor's loop, and
\* nothing is said about what follows ("astray").
Finish(p) ==
    /\ Free(p)
    /\ status' = [status EXCEPT ![cur[p]] = "dead"]
    /\ cur' = [cur EXCEPT ![p] = None]
    /\ Goto(p, IF link[cur[p]] = p THEN "top" ELSE "astray")
    /\ UNCHANGED <<queues, counters, hand, steal, proc, sid, link, waking>>
-----------------------------------------------------------------------------
(* taskWakeup, called by thread w *)

\* Takes an entry off the list it was put on and finds its task's processor.
TakeEntry(w, e) ==
    /\ w \in Procs => pc[w] = "task"
    /\ wake[w] = Awake /\ e \in entries
    /\ entries' = entries \ {e}
    /\ wake' = [wake EXCEPT ![w] = [step |-> "push", entry |-> e, on |-> proc[e.t]]]
    /\ UNCHANGED <<queues, counters, thread, task>>

\* A waker's next step in taskWakeup.
Then(w, step) ==
    wake' = [wake EXCEPT ![w] = IF step = "no" THEN Awake ELSE [@ EXCEPT !.step = step]]

\* The task of w's entry is pushed to the m_wakeup of processor p.
PushTo(w, p) ==
    LET t == wake[w].entry.t IN
    /\ wakeup' = [wakeup EXCEPT ![p] = Append(@, t)]
    /\ sid' = [sid EXCEPT ![t] = (@ + 1) % Wrap]

\* A variant that gives the task to the waker's own processor.
WakePushHere(w) ==
    /\ wake[w].step = "push"
    /\ PushTo(w, IF w \in Procs THEN w ELSE wake[w].on)
    /\ Then(w, "dec")
    /\ UNCHANGED <<deques, yieldq, global, counters, thread, status, proc, link, entries>>

\* A variant of isExpire with the comparison the wrong way round.
WakePushExpired(w) ==
    /\ wake[w].step = "push"
    /\ IF sid[wake[w].entry.t] # wake[w].entry.id
       THEN PushTo(w, wake[w].on) ELSE UNCHANGED <<wakeup, sid>>
    /\ Then(w, "dec")
    /\ UNCHANGED <<deques, yieldq, global, counters, thread, status, proc, link, entries>>

\* isExpire advances m_suspendid if the entry is still the current one.
WakePush(w) ==
    /\ wake[w].step = "push"
    /\ IF sid[wake[w].entry.t] = wake[w].entry.id
       THEN PushTo(w, wake[w].on) ELSE UNCHANGED <<wakeup, sid>>
    /\ Then(w, "dec")
    /\ UNCHANGED <<deques, yieldq, global, counters, thread, status, proc, link, entries>>

\* Variants of the two steps in the opposite order.
DecFirst(w) ==
    /\ wake[w].step = "push"
    /\ blocks' = [blocks EXCEPT ![wake[w].on] = (@ - 1) % Wrap]
    /\ Then(w, "dec")
    /\ UNCHANGED <<queues, count, thread, task, entries>>
PushLast(w) ==
    /\ wake[w].step = "dec"
    /\ PushTo(w, wake[w].on)
    /\ Then(w, "no")
    /\ UNCHANGED <<deques, yieldq, global, counters, thread, status, proc, link, entries>>

WakeDec(w) ==
    /\ wake[w].step = "dec"
    /\ blocks' = [blocks EXCEPT ![wake[w].on] = (@ - 1) % Wrap]
    /\ Then(w, "no")
    /\ UNCHANGED <<queues, count, thread, task, entries>>
-----------------------------------------------------------------------------
LoopStep(p) ==
    \/ PopWakeup(p) \/ PopReady(p) \/ TakeYield(p)
    \/ FindArray(p) \/ PickVictim(p) \/ StealHalf(p) \/ StealOne(p) \/ Recheck(p)
    \/ PopGlobal(p) \/ Keep(p) \/ CheckBlocks(p) \/ WaitWakeup(p) \/ WaitGlobal(p)

TaskStep(p) ==
    \/ \E t \in Tasks : Create(p, t)
    \/ Yield(p) \/ Suspend(p) \/ Block(p) \/ Switch(p) \/ Finish(p)

WakeStepReversed(w) ==
    (\E e \in entries : TakeEntry(w, e)) \/ DecFirst(w) \/ PushLast(w)

WakeStep(w) == (\E e \in entries : TakeEntry(w, e)) \/ WakePush(w) \/ WakeDec(w)

Next ==
    \/ \E p \in Procs : Spawn(p)
    \/ RunMain
    \/ \E p \in Procs : LoopStep(p) \/ TaskStep(p)
    \/ \E w \in Wakers : WakeStep(w)

Spec == Init /\ [][Next]_vars

\* A thread keeps executing, a task keeps calling the scheduler and a wakeup
\* that has begun is completed; nothing says that a wakeup begins.
FairSpec ==
    /\ Spec
    /\ WF_vars(\E p \in Procs : Spawn(p)) /\ WF_vars(RunMain)
    /\ \A p \in Procs : WF_vars(LoopStep(p)) /\ WF_vars(TaskStep(p))
    /\ \A w \in Wakers : WF_vars(WakePush(w)) /\ WF_vars(WakeDec(w))
-----------------------------------------------------------------------------
PC == {"main", "spawn", "off", "top", "pop", "yield", "steal", "draw", "freed", "size", "stealing",
       "keep_stolen", "recheck", "global", "keep", "blocks", "wait_wakeup",
       "wait_global", "task", "block", "switch", "astray"}
Entry == [t : Tasks, id : Nat]

\* Every variable stays in its type; in particular a context is entered and
\* left only with a task in it, and Wrap bounds m_blocks.
TypeOK ==
    /\ ready \in [Procs -> Seq(Tasks)]
    /\ skew \in [Procs -> BOOLEAN] /\ raced \in [Procs -> BOOLEAN]
    /\ yieldq \in [Procs -> Seq(Tasks)] /\ wakeup \in [Procs -> Seq(Tasks)]
    /\ blocks \in [Procs -> 0 .. Wrap - 1] /\ count \in [Procs -> 0 .. GlobalEvery - 1]
    /\ global \in Seq(Tasks)
    /\ pc \in [Procs -> PC]
    /\ cur \in [Procs -> Tasks \cup {None}] /\ hand \in [Procs -> Tasks \cup {None}]
    /\ victim \in [Procs -> Procs \cup {None}] /\ quota \in [Procs -> Nat]
    /\ status \in [Tasks -> {"none", "ready", "suspend", "block", "dead"}]
    /\ proc \in [Tasks -> Procs \cup {None}] /\ link \in [Tasks -> Procs \cup {None}]
    /\ sid \in [Tasks -> 0 .. Wrap - 1]
    /\ entries \subseteq Entry
    /\ wake \in [Wakers -> {Awake} \cup [step : {"push", "dec"}, entry : Entry, on : Procs]]
    /\ \A p \in Procs : (pc[p] \in {"task", "block", "switch"}) <=> (cur[p] # None)

\* The places that lead to task t being run: queues, a thread's hand, and an
\* entry that somebody has or is about to push.
In(q, t) == {i \in DOMAIN q : q[i] = t}
Private(t) ==
    (UNION {{<<"wakeup", p, i>> : i \in In(wakeup[p], t)} : p \in Procs})
        \cup (UNION {{<<"yield", p, i>> : i \in In(yieldq[p], t)} : p \in Procs})
        \cup {<<"entry", proc[t], e.id>> : e \in {e \in entries : e.t = t}}
        \cup {<<"push", wake[w].on, w>> : w \in {w \in Wakers : wake[w].step = "push" /\ wake[w].entry.t = t}}
Shared(t) ==
    (UNION {{<<"ready", p, i>> : i \in In(ready[p], t)} : p \in Procs})
        \cup {<<"global", i>> : i \in In(global, t)}
        \cup {<<"hand", p>> : p \in {p \in Procs : hand[p] = t}}
Seats(t) == Private(t) \cup Shared(t)

\* A task is in at most one place, and while its context is in use only where
\* the thread using it is the one to take it, and only once it has begun to
\* leave: nobody can enter a context that is not saved yet.
OnePlace ==
    \A t \in Tasks :
        /\ Cardinality(Seats(t)) <= 1
        /\ \A p \in Procs : cur[p] = t =>
            /\ Shared(t) = {}
            /\ \A s \in Private(t) : s[2] = p /\ pc[p] \in {"block", "switch"}
            /\ \A q \in Procs \ {p} : cur[q] # t

\* A deleted task is nowhere, neither queued nor suspended nor running: runTask
\* deletes the Task object while other threads run.
NoFreedTask ==
    \A t \in Tasks : status[t] = "dead" => Seats(t) = {} /\ \A p \in Procs : cur[p] # t

\* m_blocks is the number of suspensions of its processor's tasks whose wakeup
\* is not complete, less one that has not been counted yet: it may wrap below
\* zero on the way but no increment or decrement is lost.
Owed(p) == Cardinality({e \in entries : proc[e.t] = p})
         + Cardinality({w \in Wakers : wake[w] # Awake /\ wake[w].on = p})
BlocksMatch ==
    \A p \in Procs :
        blocks[p] = (Owed(p) - IF pc[p] = "block" THEN 1 ELSE 0) % Wrap

\* While a thread waits on the global queue nobody sends it a task through its
\* own m_wakeup: this is what pushing before decrementing is for
\* (processor.cpp:55-57).
NoWakeupToCome ==
    [][\A p \in Procs : pc[p] = "wait_global" => Len(wakeup'[p]) <= Len(wakeup[p])]_vars

\* A thread waits on its m_wakeup only while there is a task it can get there
\* (processor.cpp:165, "is there a blocked task? wait").
WaitsForSomebody ==
    \A p \in Procs : pc[p] = "wait_wakeup" =>
        \/ wakeup[p] # <<>>
        \/ \E e \in entries : proc[e.t] = p
        \/ \E w \in Wakers : wake[w].step = "push" /\ wake[w].on = p

\* M tasks on N threads, moved by stealing (README.md:117): a task that
\* ends gives back the thread it ended on and does not enter another one's loop.
ReturnsHome == \A p \in Procs : pc[p] # "astray"

\* The threads that start has started find each other in m_processors while it
\* starts more of them.
VictimsFound == \A p \in Procs : pc[p] # "freed"

\* A task that was created and has not finished is in some place or running.
NoTaskVanishes ==
    \A t \in Tasks : status[t] \notin {"none", "dead"} =>
        Seats(t) # {} \/ \E p \in Procs : cur[p] = t

Running(t) == \E p \in Procs : cur[p] = t
Queued(t) == \E p \in Procs :
    \/ In(ready[p], t) # {} \/ In(yieldq[p], t) # {} \/ hand[p] = t

\* With one thread a task that is ready, or that yielded, runs (again) however
\* the others yield, unless wakeups keep coming for ever.
Alone == \A p \in Procs \ {Main} : pc[p] = "off"
NoMoreWakeups == <>[](\A p \in Procs : wakeup[p] = <<>>)
QueuedRunsAlone == []Alone /\ NoMoreWakeups => \A t \in Tasks : Queued(t) ~> Running(t)

\* Work stealing balances the load (README.md:117): a task that is ready or has
\* yielded runs also while other tasks keep waking each other.
QueuedRuns == \A t \in Tasks : Queued(t) ~> Running(t)

\* A task that has been woken runs again.
Woken(t) == \E p \in Procs : In(wakeup[p], t) # {}
WokenRuns == \A t \in Tasks : Woken(t) ~> Running(t)

\* Yielding has low priority (processor.h:59): a task in the global queue runs
\* although others go on yielding.
GlobalRuns == \A t \in Tasks : In(global, t) # {} ~> Running(t)

\* start() blocks its caller until all tasks are done (README.md:47) and then
\* returns to it.
Returned == pc[Main] = "returned"
StartReturns ==
    (\A t \in Tasks : status[t] = "dead") /\ pc[Main] # "main" ~> Returned
=============================================================================
