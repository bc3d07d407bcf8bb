# libcoroutine in TLA+

This directory holds a formal model of libcoroutine, the stackful C++ coroutine
library in `src/coroutine`: TLA+ modules translated from its source, TLC
configurations that check them on small instances, and TLAPS proofs of some of
the results for every instance. `PROJECT.json` lists the runs, the mutants, the
source lines behind every definition, the hazards and the findings.

Run a check with `tlc -workers 2 -config queue.cfg MCWorkStealingQueue.tla`
and a proof with `tlapm ChannelProofs.tla`.

## 1. Inventory

| Component | State | Operations | Talks to |
|---|---|---|---|
| `WorkStealingQueue` (workstealingqueue.h) | `m_bottom`, `m_top`, the circular array | `push`, `pop` (owner), `steal`, `size` (anyone) | one per processor |
| `Processor` (processor.cpp) | `m_ready`, `m_yield`, `m_wakeup`, `m_blocks`, `m_task_count`, the running task; `m_global` shared | `run`, `runTask`, `addTask`, `taskYield`, `taskBlock`, `taskWakeup`, `taskSleep` | its own thread, thieves, wakers |
| `Scheduler` (scheduler.cpp) | `m_processors`, `m_timer` | `start`, `create`, `yield`, `sleep` | starts a thread per processor |
| `Task` (task.cpp) | status, context, `m_proc`, `m_suspendid`, stack | `swapIn`, `yield`, `block`, `isExpire` | its processor, its wakers |
| `ThreadSafeQueue` (threadsafequeue.h) | a list under a mutex | `push`, `pop`, `waitAndPop` | `m_wakeup`, `m_global` |
| `Channel` (channel.h) | `m_queue`, `m_rque`, `m_wque` | `<<`, `>>` | suspends and wakes tasks |
| `FdContext`, `EpollDemultiplexer` | suspended readers and writers of a descriptor; epoll's registrations | `add`, `handlerRead`, `handlerWrite`, `waitEvent` | the epoll thread wakes tasks |
| Hooks (hook.cpp) | `g_contexts`, the hook switch | `socket`, `accept`, `read`, `write`, `close`, `connect`, `fcntl`, `setsockopt` | descriptors' contexts |
| `HandlerMap` | two-level array of contexts | `insert`, `get`, `erase` | all threads, no lock |
| `Timer` (timer.cpp) | `m_jiffies`, near slots and 4 levels of buckets | `startTimer`, `stopTimer`, `update` | the timer thread wakes sleepers |
| `FreeList` | `m_head`, the links in free blocks | `freelistAlloc`, `freelistFree` | all threads |
| `TaskStackAllocator` | `m_size`, mapped stacks, guard pages | `alloc`, `free`, `setSize` | every task's constructor and destructor |
| `List` (list.h) | a ring of links through the elements, `m_size` | `push_back`, `push_front`, `erase`, `pop_front`, `pop_back` | the timer's slots |
| `Singleton`, `common.h` | - | - | helpers |

How they interact. A task runs on its processor's thread until it yields,
blocks or ends. Blocking means: make a `SuspendEntry` (`getSuspendEntry`), put
it where the waker will find it (a channel's list, a descriptor's list, a
timer's callback), then `taskBlock`. The waker, a task on any processor or the
timer or the epoll thread, calls `taskWakeup` on the processor the task last ran
on, which pushes the task to `m_wakeup` there and decrements `m_blocks`. The
entry is visible before the task has blocked, so every wakeup may be early.
Idle processors steal from each other's `m_ready`; only tasks in `m_ready` and
`m_global` may change processors, because only their contexts are certainly
saved.

What is hard, and what makes each part correct:

* **Queue**: lock-free, the owner against any number of thieves. Correct when
  every pushed task is taken exactly once, whatever the interleaving and the
  growth.
* **Processor**: seven places a task may be in, two condition variables a thread
  may sleep on, a counter that decides between them. Correct when a task is in
  one place, is never entered before its context is saved, is never used after
  it is deleted, is run again when it is ready, and at its end gives back the
  thread it ends on.
* **Scheduler**: starts threads that look each other up in a vector it is still
  filling. Correct when the lookups find a processor.
* **Channel**: newcomers overtake woken tasks, wakeups come early. Correct when
  no reader sleeps beside an item it should have, senders are held back exactly
  by the capacity, and items keep their order.
* **Descriptors**: a registration made by one thread and removed by another, a
  context deleted by one and used by another. Correct when each sleeper is
  registered for its event, and each event finds its sleeper.
* **Hooks**: every file is made non-blocking behind the program's back, by code
  that is not always in charge (before `start`, for duplicates, for numbers used
  again). Correct when each call waits or not as the program asked, and `connect`
  tells what became of the connection.
* **Timer**: two reads of a clock that another thread advances; a wheel with
  several levels; entries that are marked without a lock and used again. Correct when
  no timer is early, late or lost, and none fires that was canceled.
* **Free list**: compare-exchange on a head whose successor was read before.
  Correct when no block is lost or has two owners.
* **Handler map**: chunks made on first use by whoever comes first, without a
  lock. Correct when a lookup returns what the map held during the lookup and
  no call disturbs another number.
* **Task stacks**: the destructor chooses between two allocators by the size
  alone; the free list links through the last page, the guard is before the first.
  Correct when stacks, links and guards never overlap.
* **List**: pointers set one by one where nodes may coincide, in entries whose
  links are left over from elsewhere. Correct when it is a sequence.

## 2. Modules

`WorkStealingQueue` has one action per access to shared memory (the atomics are
sequentially consistent in the source). `opc` and `tpc` are the program counters
of the owner and of the thieves, `item`, `oldtop`, `ttop`, `titem` their locals.
Reads that only the owner's own writes can change are folded into the step
before; `PopLoadTop` takes the second read of `m_bottom` together with the read
of `m_top` for this reason. `gen` counts the arrays: a thief whose `tgen` is not
`gen` reads a deleted array, and what it reads is any value. `copies[t]` says how
many callers hold task t; a task is pushed only by a caller that holds it, as a
`Task*` is. Two history variables say when the code has left the ground its
promises stand on: `misplaced`, a growth that copied the array by position after
the indices had passed its end, and `freedRead`, a thief's read of a deleted
array. `Sound` is the absence of both; `NoJunkTaken` and the refinement are
stated under it, and the two things themselves are properties
(`OnlyTasksTaken`, `NoFreedRead`) that the code does not have.

`ReadyDeque` is what a queue promises while it is `Sound`: an atomic
double-ended queue, with the one wrinkle ("skewed") that a lost race for the
last task leaves and that makes the next push lose its task. `WorkStealingQueue`
implements it under a refinement mapping at the end of that module, and
`Processor` uses its steps for `m_ready`: the two are the same abstraction, once
checked and once used.

`Processor` has one action per access to a shared queue or counter in
`Processor::run`, `runTask`, `addTask`, `taskYield`, `taskBlock` and
`taskWakeup`. `pc[p]` is the thread's step, `cur[p]` the task whose context it is
in. A task's code is any sequence of create, yield, suspend, wake, finish.
Getting a suspension's entry (`Suspend`) and blocking (`Block`, `Switch`) are
three steps, so wakers may come at any of them; `taskWakeup` is three steps
(`TakeEntry`, `WakePush`, `WakeDec`), and `wake[w]` says where waker w is in it.
`entries` stands for every place an entry may wait at: channel, descriptor, timer.
`Ext` are the timer and epoll threads. `link[t]` is the processor whose `m_ctx` the
context of t returns to (`uc_link`, set at the first run): when a task ends
elsewhere, its thread goes on with another loop's stack and is `"astray"`.
`start` appends to `m_processors` (`Spawn`) at any time; a stealing loop finds the
vector's array (`FindArray`) and then reads from it (`PickVictim`), and a thread that
finds it replaced is `"freed"`. Nothing follows an astray or a freed thread's state:
the runs with two processors check it and do not continue (`UntilAstray`).

`Channel` cuts `<<` and `>>` at their suspensions, everything between runs under
`m_mtx`. `buflen` is the capacity, chosen once from `BufLens`. `woken` is what
`Processor` promises: a woken task resumes some time, in any order, maybe before it
has finished blocking. `BufferedChannel` is the abstract channel: a buffer of capacity
`cap` and senders parked with their items.

`ChannelTasks` extends `Processor` with a channel and the tasks that use it, as
`main` of tutorial/example.cpp does: the entries that `Processor` lets anybody use
are now the ones on `m_rque` and `m_wque`, and suspending and waking are `Suspend`,
`Block`, `TakeEntry`, `WakePush` and `WakeDec`. `<<` and `>>` are cut where they take
and release `m_mtx` (`holder`); the tail of a critical section runs in steps because
`taskWakeup` does. It implements `Channel`, whose assumption on the scheduler it so
discharges: a task that continues has been woken, once for each suspension. The
three specifications form a chain, `ChannelTasks` => `Channel` => `BufferedChannel`.

`FdEvents` holds the hooks, the contexts and the epoll thread. `reg` is the
kernel's registration of each descriptor, `ready` what epoll would report
(level-triggered), `batch` the events of one `epoll_wait` not handled yet.
`nonblocking` holds the contexts whose descriptor has `O_NONBLOCK`, by the
program's own `fcntl` (`SetNonBlocking`): their calls return at once
(`CallAtOnce`). `mode` is the discipline the program keeps: tasks share descriptors
and nobody closes one; each task uses and closes its own, which it may hand over;
or anything goes. The properties that need a discipline name it. A use of a
deleted context sets `usedFreed`, and from then on the members read from it are
any value (so a removal may hit any registration or none); where the code would
crash the epoll thread stops (`"crashed"`). `close` is four steps, the lookup, the
erasure, the deletion and the descriptor's own close; the deletion takes the lists of
the context with it, whoever is on them. The end of a handler is two, the read
of `m_fd` (`ReadFd`) and the removal of that number from epoll.

`Hooks` has the flags: `flag[f]` is what `g_contexts` has for a number, `nonb` the files
that the kernel has non-blocking, `asked` the ones the program wants to be. A call is
one step, but `connect` waits (`"poll"`, `polls`) and so does a read. Files are separate
from numbers, so that `dup` and the reuse of numbers are there. `Habits` says what the
program does that the hooks are not up to; each habit is a counterexample, without them
the flags agree. They are: to make a socket in a task with SOCK_NONBLOCK in its type,
which the kernel obeys and the hook does not remember (`"typed"`); to take O_NONBLOCK
back (`"clear"`); to set another flag with what F_GETFL answered (`"getset"`); to
duplicate a hooked descriptor (`"dup"`); to accept before `start` (`"early"` and
`"early_accept"` together). `"early"` alone, sockets from before `start`, does no harm,
and `hooks` has it. `accept4` is not hooked. `Hooks` and `FdEvents` share `do_hook` and
`g_contexts`: `FdEvents` has the interleavings of one call, where its flag only decides
whether to wait, `Hooks` has the life of the flag.

`HandlerMap` has one action per access to `m_data` or a chunk. The accesses are
plain loads and stores, so a second mention of `m_data[idx1]` in a call may be a
new read or the first read's value (`Accessed`). `abs` is the map the calls are meant
to implement, `seen[h]` the values it had for a get's number during that get.
`raced` says that two calls met while a chunk was being set up; the properties
are stated for before it, and that it matters is `handler_race`.

`TaskStack` has one action each for `Task`'s constructor and destructor and for
`setSize`, with addresses as numbers; the atomicity of the free list it uses is
the subject of `FreeList`.

`FreeList` has one action per access to `m_head` or to a block's link. A block in
use may hold anything in the word that was its link. `aba` is a history variable: a
compare-exchange of `freelistAlloc` has succeeded for a block whose link had changed
since it was read.

`Timer` is the timing wheel, with the sizes as constants. The timer thread's
`update` is `Execute`, `Cascade` per level, `Advance`, `Execute`; `startTimer` is
`Start` (reads `m_jiffies`, no lock) and `Add` (under the lock). `stopTimer` finds the
entry (`StopFind`) and marks it (`StopCancel`); a marked entry stays in the wheel until
its slot is executed or cascaded and is then freed. Nothing in the library calls
`stopTimer` and it takes no lock, so any step of the timer thread or of another
caller may come between the two. Entries are used again (`entry`, `canceled`): a mark
that comes too late for its timer may hit the timer that has the entry by then, which
will be freed without firing. `stop` tells the marks that were in time from the late ones.

`List` has the assignments of list.h as they are, with the head named by its list.
Its callers hold `m_list_mtx`, so an operation is one action. `content` is the
sequence each list ought to be, a history variable; `FreeListLink` overwrites
`m_prev` of an entry in no list, as `freelistFree` does. `ListSequence` is what
list.h promises; TLC checks it of the sequences read by following the links
(`Walk`), TLAPS proves it of `content` and that the links lead through `content`.

`MC*` modules only define symmetry sets and ranges for TLC.

## 3. Runs

| Run | Instance | Shows |
|---|---|---|
| queue | 2 thieves, 3 tasks, an array of 2 that grows, indices to 5 | nothing handed out twice or from an empty slot, the indices' distance, the code implements `ReadyDeque` |
| proc_two | 2 processors, 1 external waker, 3 tasks, every 2nd to `m_global` | `OnePlace`, `NoFreedTask`, `BlocksMatch`, `NoWakeupToCome` |
| chan_tasks | 3 tasks on one processor or 2 on two, capacities 0 and 1, one send each, suspensions without bound, fairness | entries, lock, refinement of `Channel`; on one processor woken and queued tasks run, and a suspended reader and an item meet |
| channel | 3 tasks, capacities 0, 1 and 2, 2 sends each | lists, back-pressure, readers, refinement |
| fd_events | 3 tasks, 2 descriptors, 3 contexts, shared or private | sleepers stay listed, events find them, a woken call succeeds, `close` with number reuse deletes only idle contexts |
| handler_map | 3 threads, 3 numbers in 2 chunks, 2 contexts | gets are atomic, stores stay where get looks |
| task_stack | 4 tasks, pages of 2, stacks of 4, sizes 3, 4 and 7 | stacks apart from each other, guards and links; freed where allocated |
| free_one_allocator | 3 threads, 1 allocates, 4 blocks | no block lost or shared |
| hooks | 3 numbers, 2 files, 3 polls, sockets from before `start`, none of the other habits | flags as asked, `connect` not early |
| list | 2 lists, 3 elements | links lead through the elements both ways, the lists are sequences |
| timer_wheel | wheel of 4 slots and 3 levels of 2, 1 entry, 44 jiffies; one timer with delays 0..34, or two in turn with delays to 4 | never early, at most a turn late, one slot, no timer fires whose entry was marked while it waited |

Bounds. In `queue`, `MaxIndex` lets the indices go round the first array and past
the end of the second; the array of 2 grows when the second task finds the first
still in it, with the indices at its start or past its end, so that sound and
misplaced growths both happen. States after a read of a deleted array are checked
and not continued: the value read is arbitrary, and every property but the two on
the indices, which are proved for every instance, is stated for before it.

Two processors are enough for a thief and a victim, three tasks for one in each
hand and one queued; one suspension per task (`MaxSuspends`) suffices for safety
because entries are used once, `sid` having advanced; `Wrap` is larger than the
number of wakeups, so the transient decrement below zero wraps as the 64-bit
counter does without being mistaken for a real count. Where `MaxSuspends` equals
`Wrap` suspensions are not bounded and `m_suspendid` wraps: an entry then would have
to survive `Wrap` suspensions of its task to be taken for a new one. `EntriesCurrent`
says that none survives one. That the array of `m_processors` is replaced
needs three processors (proc_vector); with two it happens once, when the first thread
has yet to be started.

`MaxSends` bounds the items; with three tasks two senders can be parked while the
third reads, or two readers suspended while the third sends, and the capacities 0,
1 and 2 are none, one that a single sender can exceed and one that it cannot.
In `chan_tasks` two tasks can be sender and receiver, two suspended readers, or two
senders of which one is parked; either can be on either processor, and the one that
wakes the other can be ahead of it at every step of its suspension. Three tasks, on one
processor, let a newcomer take the item for which a reader was woken.
Three numbers and two files allow a file two duplicates, and a number a second file
while the first is still open elsewhere; all calls of `hooks` but `connect`'s polls can
be repeated without bound.
`MaxContexts` bounds the allocations of `FdContext`: three for two numbers allow a
reuse. In `handler_map` three threads can insert, erase and get in one chunk and a
number lies in the other (`Size` 2 and `MaxChunks` 2); `UntilRaced` stops at the states
about which nothing is said. In `task_stack` the allocator's own size, a smaller and
a larger one occur, the larger being the one that `setSize` might have stored. In
`list` three elements are first, middle and last of one list, or split between two.

The wheel's whole range is 32 jiffies, the delays go to 34 so that `MAX_TVAL`'s branch
is taken, and 44 jiffies let every level turn over. One timer suffices for that: timers
in the wheel share no state, a slot is a set, and every action treats the members of a
slot alike. What they share is entries, one after the other, and a late mark: for these
two timers use the one entry in turn, with delays to 4 (`Second`). The runs that may
stop for lack of budget or because `start` never returns say `CHECK_DEADLOCK FALSE`; the
queue's runs do not.

Fairness. `Processor`'s `FairSpec` assumes that a thread keeps executing its loop,
that a running task keeps calling the scheduler (a task in a busy loop holds its
thread, by design) and that a begun `taskWakeup` is completed; it does not assume
that anybody wakes a suspended task, nor any particular draw of the random
victim. `ChanSpec` of `ChannelTasks` assumes less: `start` is called, and each thread
takes some step, of its loop or of its task, whenever it can, for there a wakeup is
part of what a task does. A task may go on yielding, or sit in `<<` for ever if
nobody reads. That a woken task resumes is nowhere assumed: it is `WokenResumes` on one
processor, where a wakeup is a step of another task on the same thread and cannot fall
between the loop's tests of `m_wakeup` and `m_blocks`; with a second thread that wakes,
a processor's or the timer's, it is not to be had (`WokenRuns`). `ReaderAndItemMeet` is
stated for one processor too, over the same specification.
`Hooks` assumes for the refuted `TimedReadEnds` that the kernel ends a read of its own
at the timeout. All are weak fairness on steps that stay enabled. The other modules
state no fairness and no liveness.

Every property of a passing run has a mutant in `PROJECT.json`, a plausible bug
in a definition that models code, under which TLC finds it violated.

### Runs that find a disagreement

| Run | Property | What the code does |
|---|---|---|
| proc_stray | ReturnsHome | a task that yielded is stolen and ends on another processor: its `uc_link` is the first one's loop |

This one is in the run list. More configurations, for properties that the code does
not have, are kept beside it and can be run by hand. The ones named `refuted` list
several properties, all but one behind comment signs; with each one alone TLC ends in
a counterexample.

| Configuration | Module | Property | What the code does |
|---|---|---|---|
| queue_refuted | MCWorkStealingQueue | NoTaskLost | pop that loses the last task leaves `m_bottom` below `m_top`; the next push is lost |
| | | OnlyTasksTaken | growth copies by position; after wrap-around pop returns an empty slot |
| | | NoFreedRead | a thief reads the array push has deleted |
| proc_refuted | MCProcessor | WokenRuns | wakeup between the test of `m_wakeup` and of `m_blocks`: the thread sleeps on `m_global` |
| | | WaitsForSomebody | late decrement: the thread waits on `m_wakeup` for nobody |
| | | GlobalRuns | yielding tasks keep `m_global` from being read |
| | | StartReturns | `run` has no exit, README.md:47 says `start` returns |
| proc_lost_task | MCProcessor | NoTaskVanishes | the lost push seen from the scheduler |
| proc_live | MCProcessor | QueuedRuns | two tasks that wake each other starve `m_ready` |
| proc_vector | MCProcessor | VictimsFound | `start` replaces the array of `m_processors` under a stealing loop |
| fd_lost_wait | MCFdEvents | SleeperRegistered | re-registration before the epoll thread's removal |
| fd_close | MCFdEvents | NoDeletedContext | close deletes the context under the epoll thread |
| hooks_refuted | MCHooks | CallsAsAsked | with one of the habits: SOCK_NONBLOCK not remembered, flag never cleared, `F_GETFL` shows the hooks' own, duplicate without context, accept before `start` hooked |
| | | ConnectTells | POLLOUT of a refused connection is told as success |
| | | TimedReadEnds | a hooked read ignores SO_RCVTIMEO |
| timer_refuted | MCTimer | OnTime | execute before cascade: a turn late |
| | | StoppedNeverFires | the timer fires between stopTimer's lookup and mark, and stopTimer returns true |
| | | FreedWereStopped | such a late mark hits the entry's next timer, which nobody stopped and which never fires |
| free_two_allocators | MCFreeList | NotGivenTwice | the head is back, its successor is not: one block, two owners |
| handler_race | MCHandlerMap | MapIsAtomic | two first inserts into a chunk: one context is wiped or lost |
| stack_size | MCTaskStack | SizeIsSet | `setSize` rounds its argument and stores nothing, README.md:52 says it sets the size |

proc_live as it stands is a larger instance of a property of chan_tasks: with
three tasks and any number of suspensions, `QueuedRunsAlone` holds.
The liveness counterexamples are found under `FairSpec`. WokenRuns needs no
second processor: one task that sleeps and the timer thread suffice.

## 4. Theorems

All proofs are checked by TLAPS from the definitions and the named assumptions of the
modules (`QueueAssumption`, `ProcessorAssumption`, `ChannelAssumption`,
`ChannelTasksAssumption`, `FdAssumption`, `TimerAssumption`, `HandlerMapAssumption`,
`ListAssumption`, `HooksAssumption`, `FreeListAssumption`, `TaskStackAssumption`). What
a theorem assumes beyond them stands in the theorem. `ProcessorProofs`, `FdEventsProofs`
and `FreeListProofs` treat two modules each; the second module's specification is named
`ChanSpec`, `HookSpec` and `StackSpec`.

`WorkStealingQueueProofs` proves all six invariants of `queue` and the refinement.
`TypesHold` (`Spec => []TypeOK`) and `BottomStaysNear` (`Spec => []BottomFollowsTop`)
come first. Neither property is inductive.
That a pop never takes `m_bottom` below zero rests on `m_bottom >= m_top - 1`
between operations, and that in turn on what the locals of an operation in
flight say: a pop about to reset read `m_top` above
`m_bottom`, so that no thief can move it any more; a pop about to store has itself
moved `m_top` to `oldtop + 1`; a thief whose `ttop` is still `m_top` claims an index
that can be taken; a push about to put has room. `IndInv` conjoins these
with `TypeOK`; it is shown to hold initially and to be preserved by each action,
one lemma or step per action.

`TakenOnce`, `NeverHeldAndQueued`, `ClaimIsSafe` and `NoJunkTaken` need what the array
holds (`ContentInv`, `PushedTakenWhileSound` for the last): until a thief reads a
deleted array the tasks in the window from `m_top` to `m_bottom` are distinct and nobody
holds them, and an operation about to take a task has read it from there; while the
queue is `Sound` every place of the window has a task. Two lemmas carry it. Indices less
than a capacity apart fall into different slots (`Apart`), so a push overwrites nothing
in the window; and after a growth that copies by position an index finds what it found
before or nothing, the former as long as it has not passed the old array's end
(`DoubledSlot`): what goes wrong there is `misplaced`, and duplicates nothing.
`QueueIsDeque` (`Spec => ImplementsDeque`) is shown step by step: a push takes effect
when it stores `m_bottom`, a pop when it settles its index, a steal at its
compare-exchange, and every other step is a stutter.

`ProcessorProofs` proves `TypeCorrect`, `TasksInOnePlace`, `NoTaskAfterFree`,
`BlocksCount` and `NoWakeupIsMissed`, the type invariant and the four invariants of
`proc_two`, for finitely many processors and outside threads and any tasks. The type
invariant includes what each program counter says of the thread's other variables;
without it a step could look up the processor of no task. For `OnePlace` the
seven places (four queues, a thread's hand, a wakeup under way, an entry) are
treated alike: a task is in one (`Single`), in a queue once (`OnceInv`), in none when it is
deleted (`GoneInv`), and while its context is in use only on its way out of it, in a
place from which no other thread takes it (`LeavingInv`). Most steps move
one task from one place to another, and one lemma (`StepOfOne`) covers
them all. `BlocksMatch` is a statement about a counter modulo its width: each step
changes the number of suspensions to be counted and the counter alike. That
`NoWakeupToCome` holds needs `RoomToCount`, that tasks and wakers together are fewer
than the counter's `Wrap`. This is so for the program's 64-bit counter and in
`proc_two`, and is a hypothesis of the theorem; with a counter that wraps to zero
under pending suspensions the thread would wait on the wrong queue.

`ChannelProofs` proves `ListsStayMatched`, `SendersHeldBack` and
`ReadersRemembered`, the three invariants of `channel`, for any number of
tasks and any capacity. The invariant is `TypeOK` with the three themselves;
the one that needs thought is `NoReaderForgotten`, whose step for `>>` uses that
the reader that takes an item either was woken (one reader fewer, one item fewer)
or was not (one item fewer), and whose step for `<<` uses `ListsMatch` to know
that the reader taken off the list was not yet counted. From the same invariant
`ChannelIsBuffer` (`Spec => ImplementsBuffered`): a send maps to the abstract send,
parked or not, a receive to the abstract receive, and suspending and resuming to a
stutter. The senders on `m_wque` are the abstract parked ones because a suspended task
cannot send again and because `Backpressure` says which items they own.

The second part of `ProcessorProofs` is about `ChannelTasks`: `EntriesStayCurrent`,
`LockNotLeftBehind` and `ChannelOnScheduler` (`ChanSpec => ImplementsChannel`), so that
with `ChannelIsBuffer` the chain `ChannelTasks` => `Channel` => `BufferedChannel` is
proved. Every step of `ChanNext` is a step or a stutter of `Processor`
(`ChanStepIsStep`), so the scheduler's invariant holds without being proved again.
`LockInv` adds that `m_mtx`'s holder runs the one task in a critical section:
what other threads do meanwhile, their own wakeups included, neither moves that task
nor touches the lists. `ListedInv` says that the outstanding entries are those on the two
lists, one for each suspended task, and `CurrentInv` that each is for the suspension its
task is in: a task suspends again only when it runs, and `Processor`'s `Single` says
that nobody then has an entry of it. For the refinement `MapState` works out
what Channel's variables are with and without a holder of `m_mtx`; taking the mutex and
resuming are Channel's steps, everything else is a stutter. `Channel`'s `woken` are the
tasks that are suspended and on no list, wherever in the scheduler their wakeup is.

`FdEventsProofs` proves the four invariants of `fd_events` for any number of tasks,
descriptors and contexts. They are layers, each resting on the one before and
holding under one condition more. `SleepersListed` holds whatever the program
does, by `ListInv`: the lists hold the tasks that sleep, once each, under the context and
the event they sleep for, but for those whose context `close` has deleted with
its lists, which wait for ever. Unless `mode` is `"any"`, `ContextInv` says that a
context belongs to one open descriptor until `close` takes it out of the map, and that a
call under way has the context of its descriptor, which in the private mode nobody
else uses or closes: hence `DeletedContextIdle`, which is about the moment at which
`close` is going to delete.
`EventInv` adds that each registration is backed by a task on the list of its context,
but for the one whose task the epoll thread has just taken off, and that what
epoll has reported is still registered. It holds until a
deleted context is used, since a removal then may hit any registration, and gives
`EventFindsEntry`. `ReadyInv` is for the private mode: a reported event stays ready until
its only user has made its call, hence `WokenCallSucceeds`.

`TimerProofs` proves the four invariants of `timer_wheel` for any timers and delays,
for every width of the levels and with any bound on `m_jiffies`. `PlaceInv` says that a
timer in the wheel is in one slot, all others in none; it needs no arithmetic
except that the computed slot exists. The rest is `TimeInv`. A level is cascaded only
in a jiffy that its reach divides (`TurnInv`). For a timer in a near slot a jiffy is to
come in which the slot is executed, at most a turn after the timer is due, and if the
timer has not expired the slot is the one of its expiry, less than a turn away
(`NearOK`). For a timer in a bucket a jiffy is to come in which the bucket is cascaded,
not after the timer's expiry (`BucketOK`): so it is never late on a higher level,
whether the level was chosen by the distance or by `MAX_TVAL`. `NoneEarly` and
`AtMostOneTurnLate` read off it. The lemmas are about division: the
quotient and the remainder are unique, and multiples of a reach lie at least a reach
apart. `CanceledNone` (`Spec => []CanceledNeverFires`) has no hypothesis: however
stopTimer overlaps with the wheel, the mark of an entry stays until the entry is used
again, it is not used again while its timer waits, and every way off the wheel looks at
it (`StopInv`). What does not hold is that stopTimer marks in time.

`HandlerMapProofs` proves `GetsAtomic` and `StoresKept`, the two invariants of
`handler_map`. Where calls are, and that chunks handed out by malloc are
distinct, holds always (`BaseInv`). Until the run is `raced`, `MapInv`: whoever sets up
a row is alone in it, everybody else past its test has the row's chunk as its local,
each number whose row is not being cleared has in the chunk what the map has (`abs`),
and a get has noted the present value among those it may return.

`ListProofs` proves `ListsStayLinked` (`Spec => []Linked`), `ListsAreSequences` and
`WalksAreSequences` (list.h implements `ListSequence`, with the history variable and
with `Walk`, which follows the pointers). The invariant is `Linked`
with the types and `Distinct`, that no element has two places: by it the nodes
next to an insertion or a removal are no other list's and differ from each other
unless the list is so short that they are the head. One lemma for inserting
before the k-th node and one for removing it carry both pushes, `erase` and both
pops; the second also gives the refinement, for it says which element the pop read.
`Walk` is a recursive function; by `Linked` it finds the elements of the history
variable, else there were a first position at which it does not (`WalkFindsContent`).

The last part of `FdEventsProofs` is about `Hooks`. `FlagsAsAsked` says, for any number
of descriptors and files, `HookSpec => []CallsAsAsked` if `Habits \subseteq {"early"}`,
so without SOCK_NONBLOCK for sockets made in tasks. That assumption stands in the
theorem, not in the module: `hooks_refuted` shows that the property fails with each of
the other habits. `FlagInv` says that only an open descriptor has a context, that a
descriptor whose calls wait has a file the hooks alone made non-blocking, and that no
second descriptor leads to that file; for every other one the kernel's flag is the
program's wish. The last part is needed since O_NONBLOCK belongs to the file and
`m_flag` to the number: when the program asks for O_NONBLOCK on one descriptor, a second
one of the file that still waits would disagree. `ConnectWaits` (`HookSpec =>
[]ConnectNotEarly`, with any habits) rests on `ConnInv`: a connect that waits has an
open file whose connection was begun, a descriptor told of success is open, and no file
in use is opened again.

`FreeListProofs` proves `BlocksInOnePlace` and `NoLinkIsShared`, that the two invariants
of the free list hold until `aba`, for any finite set of blocks and any number of
threads that allocate and free: no interleaving loses or shares a block unless a
compare-exchange succeeds for a block whose link has changed since it was read, which
is what `free_two_allocators` does. `FreeInv` has an explicit sequence of free blocks,
linked from `m_head` to the end; every block is on it, in a thread's hand or in use, and in
no two of these (`Somewhere`, `Apart`). An allocator that is about to succeed without `aba`
has the successor of the head; a thread that links a block to free has it alone.
`SafeAlone` adds that with one allocating thread, as in the run, `aba` does not happen:
others may put blocks in front, and then the head has changed; they take none off, so if
the head is unchanged so is the successor (`ReadInv`). The invariants are stated with
`Reached`, a recursive function that follows the links. `ReachedIsList` shows it to be the
set of the sequence's blocks: a list of distinct blocks is no longer than their number, and
of the lengths at which the function could be wrong there would be a first one.

Its second part proves `StacksStayApart` and `StacksGoBack` of `TaskStack`. `StackInv` says
that `m_size` never changes, that mappings lie a default stack and a guard page apart,
and that each has at most one owner, a task or the free list. What `alloc` adds to
an address `free` subtracts again, so a block goes back to where it came from, and
since a task's size equals `m_size` exactly if its stack is the allocator's, the
destructor picks the deallocation that fits.

Out of the prover's reach and left to TLC: liveness under fairness and ENABLED
(`QueuedRunsAlone`, `WokenResumes` and `ReaderAndItemMeet` of chan_tasks and the liveness
findings). Each invariant of a passing run, and each refinement, is
a theorem. What a recursive operator returns for every argument cannot be shown by
the library's induction, which takes an operator; where a proof needs it the
definition is a recursive function and the argument a least counterexample
(`LeastIn`).

## 5. Not modelled

* Stacks and `ucontext` calls: a context is either in use by a thread or saved, and
  returns to the processor it was made on.
* What an astray thread does, a read from a freed vector, or two threads in one
  stack: undefined, so the states are checked and not continued.
* That `connect` holds its processor's thread while it polls: `Hooks` has no threads.
  `fcntl`'s commands on locks, owners and signals, which pass through; the return
  value that F_SETFL loses (hook.cpp:270). `co_hook_enable` and `co_hook_disable`,
  which do not link: hook.cpp:33 defines `hook_enable` static.
* Descriptors out of `HandlerMap`'s range: insert, get and erase throw first thing
  (handlermap.h:31, 46, 59) and change nothing, and what becomes of the exception in a
  hooked call is not followed.
* Epoll events with only EPOLLHUP or EPOLLERR: neither branch of demultiplexer.cpp:61-70
  takes one, so its waiting task sleeps on and, the registration being level-triggered,
  `epoll_wait` returns it again at once. Events come with EPOLLIN or EPOLLOUT in `FdEvents`.
* A kernel that takes readiness back. `WokenCallSucceeds` rests on its not doing so, and
  on the descriptor's being used by one task at a time. tutorial/tcpserver.cpp:49 tries
  again when a hooked read that ought to block returns EAGAIN, although its descriptors
  have one task each. By `WokenCallSucceeds` that needs a use of a deleted context
  (`fd_close`), after which the model claims nothing, or a kernel as above.
* A second `stopTimer` of one id, and what a reader of `m_map` sees while `startTimer`
  changes it: `stopTimer` looks it up without `m_list_mtx`, a data race on an unordered map. The
  rounding of a delay to the timer's precision (timer.cpp:49): times are jiffies.
* `getsockopt`, which README.md lists as hooked and no code overrides.
* The poll demultiplexer, which does not compile; `WorkStealingQueue::clear()`, which
  nobody calls; `m_size` of the timer, statistics and debug output, which nothing reads.
* Memory orders: every atomic access in the source has the default, sequentially
  consistent order. The data race on the `shared_ptr` `m_tasks` is modelled by
  its effect on a reader, any value from a deleted array.
* `m_jiffies` is written without the lock and read by other threads; the model
  takes the reads as atomic, as they are on the 64-bit targets. `addTimerEntry`
  reads it twice in the branches for times past and times out of reach; an
  advance between the two puts the timer where adding it wholly after the advance
  would, so `Add` is one step.

## 6. Plan

Done: the modules above, in the order queue, processor, channel, descriptors,
free list, timer, handler map, task stacks, list, then the channel on the
scheduler, the hooks' flags, `start`'s vector and `stopTimer`. No component is left
whose state the models do not have.

The run list is kept to a dozen questions. A new component's run joins an
existing one where both can be asked of one instance, or takes the place of a
counterexample that is by then known.

Also done: proofs of the queue, `Channel` and `ChannelTasks` (invariants and
refinement each), `Processor`, `FdEvents`, `Timer`, `HandlerMap`, `List`, `Hooks`,
`FreeList` and `TaskStack`.

Next, proofs:
1. The lemmas that several modules restate, on sequences without duplicates and
   on least counterexamples, in one place.
2. Safety facts behind the liveness properties, such as that a queued task stays
   queued until it runs.
