------------------------------- MODULE Timer -------------------------------
(***************************************************************************)
(* coroutine/timer.cpp: the hierarchical timing wheel behind co_sleep.     *)
(* Threads that call startTimer compute the expiry from m_jiffies before   *)
(* they take m_list_mtx; the timer thread executes, cascades, advances     *)
(* m_jiffies and executes again, under the lock except for the advance.    *)
(* stopTimer, which nothing in the library calls, takes no lock at all: the *)
(* entry it marks may have fired meanwhile, and be another timer's by then. *)
(***************************************************************************)
EXTENDS Integers

CONSTANTS
    Timers,     \* the calls of startTimer
    Delays,     \* their delays in units of m_precision
    Near,       \* TVR_SIZE, 256
    Slots,      \* TVN_SIZE, 64
    Levels,     \* WHEEL_BUCKETS, 4
    MaxEntries, \* bound: TimerEntry objects; a free one may be taken again
    MaxJiffies  \* bound: m_jiffies stops there

ASSUME TimerAssumption ==
    /\ Delays \subseteq Nat
    /\ Near \in Nat \ {0} /\ Slots \in Nat \ {0, 1} /\ Levels \in 1 .. 4
    /\ MaxEntries \in Nat /\ MaxJiffies \in Nat

VARIABLES
    jiffies,
    near,           \* m_near: the timers in each slot
    bucket,         \* m_bucket
    pc,             \* each timer: not started, expiry computed, in the wheel, fired,
                    \* freed because its entry was marked
    entry,          \* each timer's entry; 0: none yet
    canceled,       \* the entries with the mark, entry->canceled
    expired,        \* entry->expired
    stop,           \* stopTimer: not called, entry found, marked in time, marked
                    \* too late, or not found
    added, fired,   \* history: m_jiffies when it was added, and when it fired
    tpc             \* the timer thread: next step of update()

entries == <<entry, canceled>>
vars == <<jiffies, near, bucket, pc, entries, expired, stop, added, fired, tpc>>

Entries == 1 .. MaxEntries

Init ==
    /\ jiffies = 0
    /\ near = [i \in 0 .. Near - 1 |-> {}]
    /\ bucket = [l \in 0 .. Levels - 1 |-> [i \in 0 .. Slots - 1 |-> {}]]
    /\ pc = [t \in Timers |-> "none"]
    /\ entry = [t \in Timers |-> 0] /\ canceled = {}
    /\ expired = [t \in Timers |-> 0]
    /\ stop = [t \in Timers |-> "no"]
    /\ added = [t \in Timers |-> 0] /\ fired = [t \in Timers |-> 0]
    /\ tpc = "execute"
-----------------------------------------------------------------------------
\* How far level l reaches, and MAX_TVAL.
Reach(l) == Near * <<1, Slots, Slots * Slots, Slots * Slots * Slots,
                     Slots * Slots * Slots * Slots>>[l + 1]
MaxVal == Reach(Levels) - 1

\* The index in level l of a time.
Index(l, time) == (time \div Reach(l)) % Slots

\* The lists: one per slot of m_near and of m_bucket.
InNear(i) == [level |-> -1, slot |-> i]
InBucket(l, i) == [level |-> l, slot |-> i]

\* The first level whose range takes a distance; the last takes the rest.
Level(idx) == CHOOSE l \in 0 .. Levels - 1 :
                /\ \A k \in 0 .. l - 1 : idx >= Reach(k + 1)
                /\ idx < Reach(l + 1) \/ l = Levels - 1

\* Times out of reach are taken for the last that is not.
Shown(e) == IF e - jiffies > MaxVal THEN MaxVal + jiffies ELSE e

\* A variant with <= for < in the first range.
PlaceFar(e) ==
    IF e < jiffies THEN InNear(jiffies % Near)
    ELSE IF e - jiffies <= Near THEN InNear(e % Near)
    ELSE InBucket(Level(e - jiffies), Index(Level(e - jiffies), Shown(e)))

\* addTimerEntry: the place of a timer that expires at time e.  The distance is
\* unsigned there, so one in the past comes out huge and is tested for after
\* the ranges of the levels.
Place(e) ==
    IF e < jiffies THEN InNear(jiffies % Near)
    ELSE IF e - jiffies < Near THEN InNear(e % Near)
    ELSE InBucket(Level(e - jiffies), Index(Level(e - jiffies), Shown(e)))

\* The timers whose entries are in use.
Pending == {t \in Timers : pc[t] \in {"add", "wheel"}}

\* startTimer up to its lock: an entry that is new or was freed is prepared.
Start(t, d) ==
    /\ pc[t] = "none"
    /\ \E e \in Entries \ {entry[u] : u \in Pending} :
          entry' = [entry EXCEPT ![t] = e] /\ canceled' = canceled \ {e}
    /\ expired' = [expired EXCEPT ![t] = jiffies + d]
    /\ pc' = [pc EXCEPT ![t] = "add"]
    /\ UNCHANGED <<jiffies, near, bucket, stop, added, fired, tpc>>

\* Timers ts leave their slots and those of put get their places anew.
Move(ts, put) ==
    /\ near' = [i \in 0 .. Near - 1 |->
                  near[i] \cup {t \in put : Place(expired[t]) = InNear(i)}]
    /\ bucket' = [l \in 0 .. Levels - 1 |-> [i \in 0 .. Slots - 1 |->
          (bucket[l][i] \ ts) \cup {t \in put : Place(expired[t]) = InBucket(l, i)}]]

\* startTimer under its lock.
Add(t) ==
    /\ pc[t] = "add"
    /\ Move({t}, {t})
    /\ pc' = [pc EXCEPT ![t] = "wheel"]
    /\ added' = [added EXCEPT ![t] = jiffies]
    /\ UNCHANGED <<jiffies, entries, expired, stop, fired, tpc>>
-----------------------------------------------------------------------------
\* stopTimer looks the id up in m_map: there until stopTimer or execute erases it,
\* so also for a timer that was freed without either ...
StopFind(t) ==
    /\ pc[t] \in {"wheel", "fired", "freed"} /\ stop[t] = "no"
    /\ stop' = [stop EXCEPT ![t] = IF pc[t] = "fired" THEN "missed" ELSE "found"]
    /\ UNCHANGED <<jiffies, near, bucket, pc, entries, expired, added, fired, tpc>>

\* ... marks the entry, which stays in the wheel, and forgets the id.  It returns
\* true although the timer may be off the wheel by now, and the entry another's.
StopCancel(t) ==
    /\ stop[t] = "found"
    /\ stop' = [stop EXCEPT ![t] = IF pc[t] = "wheel" THEN "canceled" ELSE "late"]
    /\ canceled' = canceled \cup {entry[t]}
    /\ UNCHANGED <<jiffies, near, bucket, pc, entry, expired, added, fired, tpc>>

\* Timers ts come off the wheel for good: the ones to fire, the others freed.
TakenOff(ts, firing) ==
    [t \in Timers |-> IF t \notin ts THEN pc[t] ELSE IF t \in firing THEN "fired" ELSE "freed"]
Fire(firing) == fired' = [t \in Timers |-> IF t \in firing THEN jiffies ELSE fired[t]]
Live(ts) == {t \in ts : entry[t] \notin canceled}

\* A cascade is due at the end of a turn.
AfterExecute ==
    tpc' = IF tpc = "execute_again" THEN "execute"
           ELSE IF jiffies % Near = 0 THEN "cascade0" ELSE "advance"

\* Variants: takes nothing off the slot; does not look at the mark.
ExecuteKeeps ==
    LET due == near[jiffies % Near] IN
    /\ tpc \in {"execute", "execute_again"}
    /\ pc' = TakenOff(due, Live(due))
    /\ Fire(Live(due)) /\ AfterExecute
    /\ UNCHANGED <<jiffies, near, bucket, entries, expired, stop, added>>
ExecuteAll ==
    LET due == near[jiffies % Near] IN
    /\ tpc \in {"execute", "execute_again"}
    /\ near' = [near EXCEPT ![jiffies % Near] = {}]
    /\ pc' = TakenOff(due, due)
    /\ Fire(due) /\ AfterExecute
    /\ UNCHANGED <<jiffies, bucket, entries, expired, stop, added>>

\* execute: fires what is in the current slot and not canceled.  update calls
\* it before and after it advances.
Execute ==
    LET due == near[jiffies % Near] IN
    /\ tpc \in {"execute", "execute_again"}
    /\ near' = [near EXCEPT ![jiffies % Near] = {}]
    /\ pc' = TakenOff(due, Live(due))
    /\ Fire(Live(due)) /\ AfterExecute
    /\ UNCHANGED <<jiffies, bucket, entries, expired, stop, added>>

CascadeStep(l) == <<"cascade0", "cascade1", "cascade2", "cascade3">>[l + 1]

\* A variant that never goes on to the next level.
CascadeShort(l) ==
    LET list == bucket[l][Index(l, jiffies)] IN
    /\ tpc = CascadeStep(l)
    /\ Move(list, Live(list)) /\ pc' = TakenOff(list \ Live(list), {})
    /\ tpc' = "advance"
    /\ UNCHANGED <<jiffies, entries, expired, stop, added, fired>>

\* cascade(l, INDEX(l)): every timer of the slot finds its place anew, or is
\* freed; at the end of a turn of level l it is level l + 1's turn.
Cascade(l) ==
    LET list == bucket[l][Index(l, jiffies)] IN
    /\ tpc = CascadeStep(l)
    /\ Move(list, Live(list)) /\ pc' = TakenOff(list \ Live(list), {})
    /\ tpc' = IF Index(l, jiffies) = 0 /\ l + 1 < Levels THEN CascadeStep(l + 1)
              ELSE "advance"
    /\ UNCHANGED <<jiffies, entries, expired, stop, added, fired>>

\* m_jiffies++, without the lock.
Advance ==
    /\ tpc = "advance" /\ jiffies < MaxJiffies
    /\ jiffies' = jiffies + 1
    /\ tpc' = "execute_again"
    /\ UNCHANGED <<near, bucket, pc, entries, expired, stop, added, fired>>

Next ==
    \/ \E t \in Timers :
        Add(t) \/ StopFind(t) \/ StopCancel(t) \/ \E d \in Delays : Start(t, d)
    \/ Execute \/ Advance \/ \E l \in 0 .. Levels - 1 : Cascade(l)

Spec == Init /\ [][Next]_vars
-----------------------------------------------------------------------------
\* When timer t is due: its expiry, or when it was added if that was later.
Due(t) == IF expired[t] > added[t] THEN expired[t] ELSE added[t]

\* No timer fires before its expiry, however often it has been moved from level
\* to level and whatever m_jiffies does between the two reads of startTimer.
NeverEarly == \A t \in Timers : pc[t] = "fired" => fired[t] >= expired[t]

\* No timer is forgotten in the wheel: it fires, or is freed if it was canceled,
\* at most one turn of the first level late, however far off it was set.
OneTurnLate ==
    \A t \in Timers : /\ pc[t] = "fired" => fired[t] <= Due(t) + Near
                      /\ pc[t] = "wheel" => jiffies <= Due(t) + Near

\* A timer is in one slot while it waits and in none before and after.
InOneSlot ==
    \A t \in Timers :
        LET homes == {InNear(i) : i \in {i \in 0 .. Near - 1 : t \in near[i]}}
                \cup {InBucket(p[1], p[2]) : p \in {p \in (0 .. Levels - 1) \X (0 .. Slots - 1) :
                                                        t \in bucket[p[1]][p[2]]}}
        IN  IF pc[t] = "wheel" THEN \E h \in homes : homes = {h} ELSE homes = {}

\* A timer whose entry stopTimer marks while it waits does not fire, in whichever
\* slot and level it is and however often it is still moved, and whatever other
\* calls of stopTimer do that come too late for their timers.  (One that has found
\* its timer and marks the entry after it fired returns true: StoppedNeverFires.)
CanceledNeverFires == \A t \in Timers : stop[t] = "canceled" => pc[t] # "fired"

\* "bool stopTimer(int id)" (timer.h:37): when it returns true the timer does not fire.
StoppedNeverFires ==
    \A t \in Timers : stop[t] \in {"canceled", "late"} => pc[t] # "fired"

\* A timer that nobody stops fires: none is freed on another's account.
FreedWereStopped == \A t \in Timers : pc[t] = "freed" => stop[t] = "canceled"

\* A task sleeps for the time it asked for (README.md:91): its timer fires at
\* its expiry, or at the next tick.
OnTime == \A t \in Timers : pc[t] = "fired" => fired[t] <= Due(t) + 1
=============================================================================
