---------------------------- MODULE ChannelTasks ----------------------------
(***************************************************************************)
(* coroutine/channel.h on top of coroutine/processor.cpp: tasks that call  *)
(* << and >> of one channel, are suspended by taskBlock and woken by       *)
(* taskWakeup, on the processors of Processor.  Channel takes it for       *)
(* granted that a woken task resumes; here it is what the scheduler does.  *)
(***************************************************************************)
EXTENDS Processor, Functions

CONSTANTS
    BufLens,    \* the arguments the constructor may be called with
    MaxSends    \* bound: how often one task sends

ASSUME ChannelTasksAssumption == BufLens \subseteq Nat /\ MaxSends \in Nat

VARIABLES
    buflen,     \* m_buflen
    queue,      \* m_queue; an item is known by its sender and a number
    rque, wque, \* m_rque, m_wque: entries of suspended tasks, oldest first
    holder,     \* the processor whose task holds m_mtx
    at,         \* each task: where it is in << or >>
    sends, got  \* history: how often each task has sent, the items received

lists == <<queue, rque, wque>>
history == <<sends, got>>
chan == <<buflen, lists, holder, at, history>>
allvars == <<vars, chan>>

ChanInit ==
    /\ Init
    /\ buflen \in BufLens
    /\ queue = <<>> /\ rque = <<>> /\ wque = <<>>
    /\ holder = None
    /\ at = [t \in Tasks |-> "out"]
    /\ sends = [t \in Tasks |-> 0] /\ got = <<>>

\* The task on p goes on from where it is in << or >>.
At(p, place) == Free(p) /\ at[cur[p]] = place
To(p, place) == at' = [at EXCEPT ![cur[p]] = place]
RestPeek(q) == q  \* a variant without the pop_front
Rest(q) == IF q = <<>> THEN q ELSE Tail(q)

\* The front of q is taken off and its taskWakeup begins, with m_mtx held.
WakeFront(p, q) == IF q = <<>> THEN UNCHANGED vars ELSE TakeEntry(p, Head(q))
-----------------------------------------------------------------------------
(* operator<< *)

\* m_mtx is taken, the item pushed, and a reader's wakeup begun if there is one.
SendBegin(p) ==
    LET t == cur[p] IN
    /\ At(p, "out") /\ sends[t] < MaxSends
    /\ holder = None /\ holder' = p
    /\ sends' = [sends EXCEPT ![t] = @ + 1]
    /\ queue' = Append(queue, [from |-> t, n |-> sends[t] + 1])
    /\ WakeFront(p, rque) /\ rque' = Rest(rque)
    /\ To(p, "sent")
    /\ UNCHANGED <<buflen, wque, got>>

\* A variant that leaves the entry off the list.
SendEndUnlisted(p) ==
    /\ At(p, "sent")
    /\ \/ Len(queue) > buflen /\ Suspend(p) /\ To(p, "send")
       \/ Len(queue) <= buflen /\ To(p, "out") /\ UNCHANGED vars
    /\ holder' = None
    /\ UNCHANGED <<buflen, lists, history>>

\* A variant that keeps m_mtx over the suspension.
SendEndLocked(p) ==
    /\ At(p, "sent")
    /\ \/ /\ Len(queue) > buflen
          /\ Suspend(p)
          /\ wque' = Append(wque, EntryOf(cur[p]))
          /\ To(p, "send") /\ UNCHANGED holder
       \/ /\ Len(queue) <= buflen
          /\ To(p, "out") /\ holder' = None
          /\ UNCHANGED <<vars, wque>>
    /\ UNCHANGED <<buflen, queue, rque, history>>

\* The test of the capacity: suspend, or return.  m_mtx is released.
SendEnd(p) ==
    /\ At(p, "sent")
    /\ \/ /\ Len(queue) > buflen
          /\ Suspend(p)
          /\ wque' = Append(wque, EntryOf(cur[p]))
          /\ To(p, "send")
       \/ /\ Len(queue) <= buflen
          /\ To(p, "out")
          /\ UNCHANGED <<vars, wque>>
    /\ holder' = None
    /\ UNCHANGED <<buflen, queue, rque, history>>

\* The task runs again: it locks m_mtx and returns.
SendResume(p) ==
    /\ At(p, "send") /\ holder = None
    /\ To(p, "out")
    /\ UNCHANGED <<vars, buflen, lists, holder, history>>
-----------------------------------------------------------------------------
(* operator>> *)

\* With m_mtx, from the start or after a suspension, the queue is empty.
ReceiveWait(p) ==
    /\ At(p, "out") \/ At(p, "recv")
    /\ holder = None /\ queue = <<>>
    /\ Suspend(p)
    /\ rque' = Append(rque, EntryOf(cur[p]))
    /\ To(p, "recv")
    /\ UNCHANGED <<buflen, queue, wque, holder, history>>

\* There is an item: it is taken and a sender's wakeup begun if there is one.
ReceiveTake(p) ==
    /\ At(p, "out") \/ At(p, "recv")
    /\ holder = None /\ holder' = p
    /\ queue # <<>> /\ queue' = Tail(queue)
    /\ got' = Append(got, Head(queue))
    /\ WakeFront(p, wque) /\ wque' = Rest(wque)
    /\ To(p, "received")
    /\ UNCHANGED <<buflen, rque, sends>>

\* m_mtx is released.
ReceiveEnd(p) ==
    /\ At(p, "received")
    /\ holder' = None
    /\ To(p, "out")
    /\ UNCHANGED <<vars, buflen, lists, history>>
-----------------------------------------------------------------------------
\* Outside of the channel a task, or main, uses the scheduler as it likes.
Outside(p) ==
    /\ cur[p] # None => at[cur[p]] = "out"
    /\ (\E t \in Tasks : Create(p, t)) \/ Yield(p) \/ Finish(p)
    /\ UNCHANGED chan

\* What happens to a task inside << or >> without its doing.
Scheduled(p) ==
    /\ LoopStep(p) \/ Block(p) \/ Switch(p) \/ WakePush(p) \/ WakeDec(p)
    /\ UNCHANGED chan

ChannelStep(p) ==
    \/ SendBegin(p) \/ SendEnd(p) \/ SendResume(p)
    \/ ReceiveWait(p) \/ ReceiveTake(p) \/ ReceiveEnd(p)

Start == ((\E p \in Procs : Spawn(p)) \/ RunMain) /\ UNCHANGED chan

ChanNext == Start \/ \E p \in Procs : Outside(p) \/ Scheduled(p) \/ ChannelStep(p)

\* start is called, and a thread keeps executing: its loop, and the code of the
\* task that it runs.
Runs(p) == Outside(p) \/ Scheduled(p) \/ ChannelStep(p)
ChanSpec ==
    /\ ChanInit /\ [][ChanNext]_allvars
    /\ WF_allvars(Start) /\ \A p \in Procs : WF_allvars(Runs(p))
-----------------------------------------------------------------------------
\* Every entry that lies on a list of the channel is one that its task gave
\* and that is still current: taskWakeup will not find it expired, the wakeup
\* ends this suspension and no later one, and no entry is lost.
EntriesCurrent ==
    /\ Range(rque) \cup Range(wque) = entries
    /\ \A e \in entries : e.id = sid[e.t]
    /\ \A w \in Procs : wake[w].step = "push" => wake[w].entry.id = sid[wake[w].entry.t]

\* No thread leaves m_mtx locked behind: the holder is in its task's code, not
\* suspended, not back in the loop.
LockHeldRunning == holder # None =>
    pc[holder] = "task" /\ at[cur[holder]] \in {"sent", "received"}

\* Channel's step is the one that takes m_mtx; what is left of the critical
\* section is seen as done.
Full == Len(queue) > buflen
Done == [t \in Tasks |->
    CASE at[t] = "sent" -> IF Full THEN "send" ELSE "out"
      [] at[t] = "received" -> "out"
      [] OTHER -> at[t]]
ToPark == IF holder # None /\ at[cur[holder]] = "sent" /\ Full THEN <<cur[holder]>> ELSE <<>>
Named(q) == [i \in DOMAIN q |-> q[i].t]
Parked == Named(wque) \o ToPark
Waiting(t) == \E i \in DOMAIN rque : rque[i].t = t
Resumable(t) == Done[t] # "out" /\ ~Waiting(t) /\ \A i \in DOMAIN Parked : Parked[i] # t

C == INSTANCE Channel WITH
    rque <- Named(rque), wque <- Parked, pc <- Done, woken <- {t \in Tasks : Resumable(t)}

\* channel.h on the scheduler does nothing that Channel does not allow: a task
\* continues only when it has been woken, however early, and once per wakeup.
ImplementsChannel == C!Spec

\* With one thread a task that the channel has woken resumes, which is what
\* Channel assumes.  (With two, see WokenRuns of Processor.)
WokenResumes == []Alone => \A t \in Tasks : Resumable(t) ~> ~Resumable(t)

\* Readers that sleep and items that wait do not stay apart for ever, although a
\* newcomer may take the item that a reader was woken for.  With one thread too.
ReaderAndItemMeet ==
    []Alone => (rque # <<>> /\ queue # <<>>) ~> (rque = <<>> \/ queue = <<>>)
=============================================================================
