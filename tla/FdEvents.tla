------------------------------ MODULE FdEvents ------------------------------
(***************************************************************************)
(* The hooked socket calls (hook.cpp), a descriptor's FdContext            *)
(* (fdcontext.cpp) and the thread that waits on epoll (demultiplexer.cpp). *)
(* A task that would block puts a SuspendEntry on its FdContext and        *)
(* registers the descriptor; the epoll thread takes the entry off, wakes   *)
(* the task and removes the registration.  The kernel is modelled by what  *)
(* the code relies on: level-triggered events, one registration per        *)
(* descriptor, an ADD of a registered one refused, close() deregisters.    *)
(***************************************************************************)
EXTENDS Integers, Sequences, FiniteSets

CONSTANTS
    Tasks,
    Modes,      \* which of the disciplines below the program may follow
    Fds,        \* descriptor numbers, reused by the kernel
    MaxContexts,    \* bound: FdContext objects that can be allocated
    None        \* nullptr

ASSUME FdAssumption ==
    /\ None \notin Tasks \cup Fds \cup Nat
    /\ MaxContexts \in Nat
    \* tasks share descriptors and close none; each descriptor is used and closed
    \* by one task only; anything goes
    /\ Modes \subseteq {"shared", "private", "any"}

VARIABLES
    mode,       \* the discipline the program follows
    open,       \* descriptors the kernel has open
    owner,      \* the task each was opened for, if one only may use it
    ctx,        \* g_contexts
    made, freed,    \* how many FdContext objects were allocated, those deleted
    nonblocking,    \* those with O_NONBLOCK in m_flag
    que,        \* m_rque and m_wque of each object
    lock,       \* m_mtx of each object: the task in add(), or None
    reg,        \* the event a descriptor is registered for in epoll, or "none"
    ready,      \* the pairs <<fd, event>> the kernel would report
    tpc, tfd, tev, tctx, \* each task: next step; descriptor, event and fdctx of its call
    woken,      \* tasks woken that have not resumed yet
    epc, batch, ecur, ectx, entry, \* epoll thread: next step, events not handled
                \* yet, the one at hand, its context, the entry taken off it
    usedFreed   \* history: a deleted FdContext was used

fdvars == <<mode, open, owner, ctx, made, freed, nonblocking>>
taskvars == <<tpc, tfd, tev, tctx>>
evars == <<epc, batch, ecur, ectx, entry>>
vars == <<fdvars, que, lock, reg, ready, taskvars, woken, evars, usedFreed>>

Events == {"read", "write"}
Contexts == 1 .. MaxContexts
NoEvent == [fd |-> None, ev |-> "none"]
AnyFd == Fds \cup {None}  \* what m_fd of a deleted object may read: a number or junk

Init ==
    /\ mode \in Modes
    /\ open = {} /\ owner = [f \in Fds |-> None]
    /\ ctx = [f \in Fds |-> None] /\ made = 0 /\ freed = {} /\ nonblocking = {}
    /\ que = [c \in Contexts |-> [e \in Events |-> <<>>]]
    /\ lock = [c \in Contexts |-> None]
    /\ reg = [f \in Fds |-> "none"]
    /\ ready = {}
    /\ tpc = [t \in Tasks |-> "run"]
    /\ tfd = [t \in Tasks |-> None] /\ tev = [t \in Tasks |-> "none"]
    /\ tctx = [t \in Tasks |-> None]
    /\ woken = {}
    /\ epc = "wait" /\ batch = {} /\ ecur = NoEvent /\ ectx = None /\ entry = None
    /\ usedFreed = FALSE
-----------------------------------------------------------------------------
(* Tasks *)

\* The discipline lets task t use descriptor f.
MayUse(t, f) == ctx[f] # None /\ (mode = "private" => owner[f] = t)

\* socket and accept: a new descriptor gets a new context.  The task keeps it or
\* hands it to the one that is to serve it.
Socket(t, f) ==
    /\ tpc[t] = "run" /\ f \notin open
    /\ made < MaxContexts /\ made' = made + 1
    /\ open' = open \cup {f}
    /\ \E u \in IF mode = "private" THEN Tasks ELSE {None} : owner' = [owner EXCEPT ![f] = u]
    /\ ctx' = [ctx EXCEPT ![f] = made + 1]
    /\ UNCHANGED <<mode, freed, nonblocking, que, lock, reg, ready, taskvars, woken,
                   evars, usedFreed>>

\* fcntl(F_SETFL) with O_NONBLOCK; addFlag can set a flag and never clears one.
\* For the kernel the descriptor is non-blocking from the start.
SetNonBlocking(t, f) ==
    /\ tpc[t] = "run" /\ MayUse(t, f)
    /\ nonblocking' = nonblocking \cup {ctx[f]}
    /\ UNCHANGED <<mode, open, owner, ctx, made, freed, que, lock, reg, ready,
                   taskvars, woken, evars, usedFreed>>

\* do_hook calls the kernel at once if the program made the descriptor
\* non-blocking ...
CallAtOnce(t, f, e) ==
    /\ tpc[t] = "run" /\ MayUse(t, f) /\ ctx[f] \in nonblocking
    /\ ready' = ready \ {<<f, e>>}
    /\ UNCHANGED <<fdvars, que, lock, reg, taskvars, woken, evars, usedFreed>>

\* ... and otherwise suspends the task on the context.
Hook(t, f, e) ==
    /\ tpc[t] = "run" /\ MayUse(t, f) /\ ctx[f] \notin nonblocking
    /\ tfd' = [tfd EXCEPT ![t] = f] /\ tev' = [tev EXCEPT ![t] = e]
    /\ tctx' = [tctx EXCEPT ![t] = ctx[f]]
    /\ tpc' = [tpc EXCEPT ![t] = "push"]
    /\ UNCHANGED <<fdvars, que, lock, reg, ready, woken, evars, usedFreed>>

\* FdContext::add takes m_mtx and queues the entry ...
AddPush(t) ==
    LET c == tctx[t] IN
    /\ tpc[t] = "push" /\ lock[c] = None
    /\ lock' = [lock EXCEPT ![c] = t]
    /\ que' = [que EXCEPT ![c][tev[t]] = Append(@, t)]
    /\ usedFreed' = (usedFreed \/ c \in freed)
    /\ tpc' = [tpc EXCEPT ![t] = "ctl"]
    /\ UNCHANGED <<fdvars, reg, ready, tfd, tev, tctx, woken, evars>>

\* ... registers the descriptor, whatever epoll_ctl answers, releases m_mtx;
\* the task blocks.
AddCtl(t) ==
    LET f == tfd[t] IN
    /\ tpc[t] = "ctl"
    /\ reg' = [reg EXCEPT ![f] = IF f \in open /\ @ = "none" THEN tev[t] ELSE @]
    /\ lock' = [lock EXCEPT ![tctx[t]] = None]
    /\ usedFreed' = (usedFreed \/ tctx[t] \in freed)
    /\ tpc' = [tpc EXCEPT ![t] = "asleep"]
    /\ UNCHANGED <<fdvars, que, ready, tfd, tev, tctx, woken, evars>>

\* The woken task makes the system call, which may use the readiness up.
Return(t) ==
    /\ tpc[t] = "asleep" /\ t \in woken
    /\ woken' = woken \ {t}
    /\ \E used_up \in SUBSET {<<tfd[t], tev[t]>>} : ready' = ready \ used_up
    /\ tpc' = [tpc EXCEPT ![t] = "run"]
    /\ tfd' = [tfd EXCEPT ![t] = None] /\ tev' = [tev EXCEPT ![t] = "none"]
    /\ tctx' = [tctx EXCEPT ![t] = None]
    /\ UNCHANGED <<fdvars, que, lock, reg, evars, usedFreed>>

\* close looks the context up ...
CloseGet(t, f) ==
    /\ mode # "shared" /\ tpc[t] = "run" /\ MayUse(t, f)
    /\ tfd' = [tfd EXCEPT ![t] = f] /\ tctx' = [tctx EXCEPT ![t] = ctx[f]]
    /\ tpc' = [tpc EXCEPT ![t] = "erase"]
    /\ UNCHANGED <<fdvars, que, lock, reg, ready, tev, woken, evars, usedFreed>>

\* ... takes the number it has out of the map ...
CloseErase(t) ==
    /\ tpc[t] = "erase"
    /\ usedFreed' = (usedFreed \/ tctx[t] \in freed)
    /\ \E f \in IF tctx[t] \in freed THEN AnyFd ELSE {tfd[t]} :
            ctx' = [g \in Fds |-> IF g = f THEN None ELSE ctx[g]]
    /\ tpc' = [tpc EXCEPT ![t] = "delete"]
    /\ UNCHANGED <<mode, open, owner, made, freed, nonblocking, que, lock, reg, ready,
                   tfd, tev, tctx, woken, evars>>

\* ... and deletes it, with whatever its lists hold; the descriptor is closed.
CloseDelete(t) ==
    /\ tpc[t] = "delete"
    /\ usedFreed' = (usedFreed \/ tctx[t] \in freed)
    /\ freed' = freed \cup {tctx[t]}
    /\ que' = [que EXCEPT ![tctx[t]] = [e \in Events |-> <<>>]]
    /\ tpc' = [tpc EXCEPT ![t] = "close"]
    /\ UNCHANGED <<mode, open, owner, ctx, made, nonblocking, lock, reg, ready,
                   tfd, tev, tctx, woken, evars>>

CloseFd(t) ==
    LET f == tfd[t] IN
    /\ tpc[t] = "close"
    /\ open' = open \ {f} /\ owner' = [owner EXCEPT ![f] = None]
    /\ reg' = [reg EXCEPT ![f] = "none"]
    /\ ready' = ready \ ({f} \X Events)
    /\ tpc' = [tpc EXCEPT ![t] = "run"]
    /\ tfd' = [tfd EXCEPT ![t] = None] /\ tctx' = [tctx EXCEPT ![t] = None]
    /\ UNCHANGED <<mode, ctx, made, freed, nonblocking, que, lock, tev, woken,
                   evars, usedFreed>>

\* The peer sends, or takes what was sent, or goes away.
BecomeReady(f, e) ==
    /\ f \in open
    /\ ready' = ready \cup {<<f, e>>}
    /\ UNCHANGED <<fdvars, que, lock, reg, taskvars, woken, evars, usedFreed>>
-----------------------------------------------------------------------------
(* waitEvent *)

\* A variant that goes through the events array beyond what epoll_wait filled in,
\* over entries of earlier calls.
EpollWaitStale ==
    /\ epc = "wait"
    /\ \E F \in SUBSET {f \in Fds : reg[f] # "none"} :
            batch' = {[fd |-> f, ev |-> reg[f]] : f \in F}
    /\ batch' # {}
    /\ epc' = "next"
    /\ UNCHANGED <<fdvars, que, lock, reg, ready, taskvars, woken, ecur, ectx, entry, usedFreed>>

\* epoll_wait reports every registered event that is there.
EpollWait ==
    /\ epc = "wait"
    /\ batch' = {[fd |-> f, ev |-> reg[f]] : f \in {f \in Fds : <<f, reg[f]>> \in ready}}
    /\ batch' # {}
    /\ epc' = "next"
    /\ UNCHANGED <<fdvars, que, lock, reg, ready, taskvars, woken, ecur, ectx, entry, usedFreed>>

\* The next event and handlers.get of its descriptor.
NextEvent ==
    /\ epc = "next"
    /\ \/ /\ batch = {}
          /\ epc' = "wait"
          /\ UNCHANGED <<batch, ecur, ectx>>
       \/ \E e \in batch :
            /\ batch' = batch \ {e}
            /\ ecur' = e /\ ectx' = ctx[e.fd]
            /\ epc' = IF ctx[e.fd] = None THEN "crashed" ELSE "pop"
    /\ UNCHANGED <<fdvars, que, lock, reg, ready, taskvars, woken, entry, usedFreed>>

\* A variant without the pop_front.
PopEntryPeek ==
    LET q == que[ectx][ecur.ev]
        bad == q = <<>> \/ ectx \in freed IN
    /\ epc = "pop" /\ lock[ectx] = None
    /\ usedFreed' = (usedFreed \/ ectx \in freed)
    /\ IF bad THEN epc' = "crashed" /\ UNCHANGED entry
       ELSE entry' = Head(q) /\ epc' = "wake"
    /\ UNCHANGED <<fdvars, que, lock, reg, ready, taskvars, woken, batch, ecur, ectx>>

\* handlerRead, handlerWrite: front() and pop_front() under m_mtx.
PopEntry ==
    LET q == que[ectx][ecur.ev]
        bad == q = <<>> \/ ectx \in freed IN
    /\ epc = "pop" /\ lock[ectx] = None
    /\ usedFreed' = (usedFreed \/ ectx \in freed)
    /\ IF bad THEN epc' = "crashed" /\ UNCHANGED <<entry, que>>
       ELSE /\ entry' = Head(q)
            /\ que' = [que EXCEPT ![ectx][ecur.ev] = Tail(@)]
            /\ epc' = "wake"
    /\ UNCHANGED <<fdvars, lock, reg, ready, taskvars, woken, batch, ecur, ectx>>

WakeEntry ==
    /\ epc = "wake"
    /\ woken' = woken \cup {entry}
    /\ entry' = None
    /\ epc' = "remove"
    /\ UNCHANGED <<fdvars, que, lock, reg, ready, taskvars, batch, ecur, ectx, usedFreed>>

\* handlerRead, handlerWrite read m_fd after the task was woken ...
ReadFd ==
    /\ epc = "remove"
    /\ usedFreed' = (usedFreed \/ ectx \in freed)
    /\ \E f \in IF ectx \in freed THEN AnyFd ELSE {ecur.fd} : ecur' = [ecur EXCEPT !.fd = f]
    /\ epc' = "del" /\ ectx' = None
    /\ UNCHANGED <<fdvars, que, lock, reg, ready, taskvars, woken, batch, entry>>

\* A variant that leaves the registration.
RemoveNothing ==
    /\ epc = "del"
    /\ epc' = "next" /\ ecur' = NoEvent
    /\ UNCHANGED <<fdvars, que, lock, reg, ready, taskvars, woken, batch, ectx, entry, usedFreed>>

\* ... and remove the event of that number, whoever's it is by now.
RemoveEvent ==
    /\ epc = "del"
    /\ reg' = [f \in Fds |-> IF f = ecur.fd THEN "none" ELSE reg[f]]
    /\ epc' = "next" /\ ecur' = NoEvent
    /\ UNCHANGED <<fdvars, que, lock, ready, taskvars, woken, batch, ectx, entry, usedFreed>>
-----------------------------------------------------------------------------
TaskStep(t) ==
    \/ \E f \in Fds : Socket(t, f) \/ CloseGet(t, f) \/ SetNonBlocking(t, f)
    \/ \E f \in Fds, e \in Events : Hook(t, f, e) \/ CallAtOnce(t, f, e)
    \/ AddPush(t) \/ AddCtl(t) \/ Return(t)
    \/ CloseErase(t) \/ CloseDelete(t) \/ CloseFd(t)

EpollStep == EpollWait \/ NextEvent \/ PopEntry \/ WakeEntry \/ ReadFd \/ RemoveEvent

Next ==
    \/ \E t \in Tasks : TaskStep(t)
    \/ \E f \in Fds, e \in Events : BecomeReady(f, e)
    \/ EpollStep

Spec == Init /\ [][Next]_vars
-----------------------------------------------------------------------------
\* A task that has begun to wait and has not been woken is on one list, once, of
\* its context and event, or in the epoll thread's hand, unless its context has been
\* deleted; nobody else is on a list.  A context's two lists and the epoll thread's
\* entry are all that leads back to a blocked task.
Spots(t) ==
    (UNION {{<<c, e, i>> : i \in {i \in DOMAIN que[c][e] : que[c][e][i] = t}} :
                c \in Contexts, e \in Events})
        \cup (IF entry = t THEN {<<ectx, ecur.ev, 0>>} ELSE {})
SleepersListed ==
    \A t \in Tasks :
        IF tpc[t] \in {"ctl", "asleep"} /\ t \notin woken
        THEN \/ tctx[t] \in freed
             \/ \E s \in Spots(t) : Spots(t) = {s} /\ s[1] = tctx[t] /\ s[2] = tev[t]
        ELSE Spots(t) = {}

\* As long as nobody closes a descriptor another task may use, and nobody has
\* used a deleted context (NoDeletedContext), every event epoll reports finds a
\* context in the map and a task on the list it is for:
\* front() is never called on an empty list, although ADD's answer is ignored
\* and readers and writers share a registration.
EventFindsEntry == mode # "any" /\ ~usedFreed => epc # "crashed"

\* A task that was woken finds what it waited for: do_hook makes the call once
\* after the wakeup and does not wait again, so a wakeup without the event would
\* hand EAGAIN to a program that asked for a blocking call.  Not so with shared
\* descriptors, where another task may be quicker.
WokenCallSucceeds ==
    mode = "private" /\ ~usedFreed =>
        \A t \in woken : tpc[t] = "asleep" => <<tfd[t], tev[t]>> \in ready

\* close() deletes a context with its lists and its mutex without a look.  If tasks
\* keep to the descriptors they opened, no task is on the lists then, not even one
\* that has been woken, and nobody holds the mutex.
DeletedContextIdle ==
    mode = "private" => \A t \in Tasks : tpc[t] = "delete" =>
        lock[tctx[t]] = None /\ \A e \in Events : que[tctx[t]][e] = <<>>

\* A task that waits in a hooked call is woken when its event comes: whenever
\* the epoll thread is about to wait, its descriptor is registered for it.
SleeperRegistered ==
    epc = "wait" => \A t \in Tasks :
        tpc[t] = "asleep" /\ t \notin woken => reg[tfd[t]] = tev[t]

\* close() does not pull a context away from under the epoll thread.
NoDeletedContext == ~usedFreed
=============================================================================
