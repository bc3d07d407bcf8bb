-------------------------- MODULE ProcessorProofs --------------------------
(***************************************************************************)
(* Proofs that hold for every number of processors, external threads and   *)
(* tasks, and for suspensions and processors without a bound: first of the *)
(* scheduler, with wakeups in any order its callers may make them, then of *)
(* the tasks on a channel, whose steps are steps of the scheduler.         *)
(***************************************************************************)
EXTENDS ChannelTasks, FiniteSetTheorems, SequenceTheorems, TLAPS

\* The steps at which a local variable of the loop is about to be used.
KeepPC == {"keep", "keep_stolen"}
VictimPC == {"size", "stealing", "keep_stolen"}

\* Everything a step is about to read is there: the task in hand, the victim,
\* and the processor of a task that runs or that an entry stands for.
ReadyInv ==
    /\ \A p \in Procs : pc[p] \in KeepPC => hand[p] \in Tasks
    /\ \A p \in Procs : pc[p] \in VictimPC => victim[p] \in Procs
    /\ \A p \in Procs : cur[p] # None => proc[cur[p]] \in Procs
    /\ \A e \in entries : proc[e.t] \in Procs

TypeInv == TypeOK /\ ReadyInv

-----------------------------------------------------------------------------
\* A counter modulo w stays below w.
LEMMA CounterRange == ASSUME NEW w \in Nat \ {0}, NEW i \in Int
                      PROVE  i % w \in 0 .. w - 1
  OBVIOUS

\* What a queue of tasks holds after its first or its last task is taken.
LEMMA TakeType ==
  ASSUME NEW q \in Seq(Tasks), q # <<>>
  PROVE  /\ Head(q) \in Tasks /\ Tail(q) \in Seq(Tasks)
         /\ Len(q) \in Nat \ {0} /\ q[Len(q)] \in Tasks
         /\ SubSeq(q, 1, Len(q) - 1) \in Seq(Tasks)
OBVIOUS

\* A step of a waker keeps the type of its arguments.
LEMMA ThenType ==
  ASSUME TypeOK, NEW w \in Wakers, wake[w].step # "no",
         NEW step \in {"dec", "no"}, Then(w, step)
  PROVE  /\ wake' \in [Wakers -> {Awake} \cup [step : {"push", "dec"}, entry : Entry, on : Procs]]
         /\ \A v \in Wakers : v # w => wake'[v] = wake[v]
         /\ step = "dec" => /\ wake'[w].step = "dec"
                            /\ wake'[w].on = wake[w].on
                            /\ wake'[w].entry = wake[w].entry
         /\ step = "no" => wake'[w] = Awake
<1>1. wake[w] \in [step : {"push", "dec"}, entry : Entry, on : Procs]
  BY DEF TypeOK, Awake
<1>2. [wake[w] EXCEPT !.step = "dec"] \in [step : {"push", "dec"}, entry : Entry, on : Procs]
  BY <1>1
<1>3. CASE step = "dec"
  <2>1. wake' = [wake EXCEPT ![w] = [wake[w] EXCEPT !.step = "dec"]]
    BY <1>3 DEF Then
  <2>2. wake'[w] = [wake[w] EXCEPT !.step = "dec"]
    BY <2>1 DEF TypeOK
  <2>3. QED BY <1>1, <1>2, <1>3, <2>1, <2>2 DEF TypeOK
<1>4. CASE step = "no"
  BY <1>4 DEF Then, TypeOK
<1>5. QED BY <1>3, <1>4

\* So does a push to the ready queue, and to the wakeup queue.
LEMMA PushReadyType ==
  ASSUME TypeOK, NEW p \in Procs, NEW t \in Tasks, PushReady(p, t)
  PROVE  /\ ready' \in [Procs -> Seq(Tasks)]
         /\ skew' \in [Procs -> BOOLEAN]
         /\ raced' = raced
BY DEF TypeOK, PushReady

\* A waker in taskWakeup holds an entry and the processor of its task.
LEMMA WakerType ==
  ASSUME TypeOK, NEW w \in Wakers, wake[w].step # "no"
  PROVE  /\ wake[w].entry \in Entry /\ wake[w].entry.t \in Tasks
         /\ wake[w].entry.id \in Nat /\ wake[w].on \in Procs
         /\ wake[w] # Awake
BY DEF TypeOK, Awake, Entry

LEMMA PushToType ==
  ASSUME TypeOK, NEW w \in Wakers, wake[w].step # "no",
         NEW p \in Procs, PushTo(w, p)
  PROVE  /\ wakeup' \in [Procs -> Seq(Tasks)]
         /\ sid' \in [Tasks -> 0 .. Wrap - 1]
<1> DEFINE t == wake[w].entry.t
<1>1. t \in Tasks
  BY WakerType
<1>2. sid[t] + 1 \in Int
  BY <1>1 DEF TypeOK
<1> HIDE DEF t
<1>5. (sid[t] + 1) % Wrap \in 0 .. Wrap - 1
  BY <1>2, CounterRange, ProcessorAssumption
<1>3. wakeup' = [wakeup EXCEPT ![p] = Append(@, t)] /\ sid' = [sid EXCEPT ![t] = (@ + 1) % Wrap]
  BY DEF PushTo, t
<1>4. QED BY <1>1, <1>3, <1>5 DEF TypeOK

LEMMA RunTaskType ==
  ASSUME TypeOK, NEW p \in Procs, NEW t \in Tasks, RunTask(p, t), cur[p] = None
  PROVE  /\ cur' \in [Procs -> Tasks \cup {None}]
         /\ proc' \in [Tasks -> Procs \cup {None}]
         /\ link' \in [Tasks -> Procs \cup {None}]
         /\ pc' \in [Procs -> PC]
         /\ \A q \in Procs : (pc'[q] \in {"task", "block", "switch"}) <=> (cur'[q] # None)
BY ProcessorAssumption DEF TypeOK, RunTask, Goto, PC

LEMMA InitType == Init => TypeInv
<1> SUFFICES ASSUME Init PROVE TypeInv
  OBVIOUS
<1> USE ProcessorAssumption DEF Init
<1>1. /\ ready \in [Procs -> Seq(Tasks)] /\ global \in Seq(Tasks)
      /\ yieldq \in [Procs -> Seq(Tasks)] /\ wakeup \in [Procs -> Seq(Tasks)]
  OBVIOUS
<1>2. /\ skew \in [Procs -> BOOLEAN] /\ raced \in [Procs -> BOOLEAN]
      /\ blocks \in [Procs -> 0 .. Wrap - 1] /\ count \in [Procs -> 0 .. GlobalEvery - 1]
  OBVIOUS
<1>3. /\ pc \in [Procs -> PC] /\ quota \in [Procs -> Nat]
      /\ cur \in [Procs -> Tasks \cup {None}] /\ hand \in [Procs -> Tasks \cup {None}]
      /\ victim \in [Procs -> Procs \cup {None}]
  BY DEF PC
<1>4. /\ status \in [Tasks -> {"none", "ready", "suspend", "block", "dead"}]
      /\ proc \in [Tasks -> Procs \cup {None}] /\ link \in [Tasks -> Procs \cup {None}]
      /\ sid \in [Tasks -> 0 .. Wrap - 1]
  OBVIOUS
<1>5. /\ entries \subseteq Entry
      /\ wake \in [Wakers -> {Awake} \cup [step : {"push", "dec"}, entry : Entry, on : Procs]]
  OBVIOUS
<1>6. \A p \in Procs : pc[p] \in {"main", "off"} /\ cur[p] = None
  OBVIOUS
<1>7. TypeOK
  BY <1>1, <1>2, <1>3, <1>4, <1>5, <1>6 DEF TypeOK
<1>8. ReadyInv
  BY <1>6 DEF ReadyInv, KeepPC, VictimPC
<1>9. QED BY <1>7, <1>8 DEF TypeInv

\* start: the threads begin their loops.
LEMMA StartType ==
  ASSUME TypeInv, (\E p \in Procs : Spawn(p)) \/ RunMain
  PROVE  TypeInv'
<1> USE ProcessorAssumption DEF TypeInv
<1>1. /\ UNCHANGED <<queues, counters, cur, hand, steal, task, waking>>
      /\ pc' \in [Procs -> PC]
      /\ \A q \in Procs : 
            pc'[q] = pc[q] \/ (pc[q] \in {"main", "spawn", "off"} /\ pc'[q] \in {"spawn", "top"})
  <2>1. pc \in [Procs -> PC]
    BY DEF TypeOK
  <2>2. ASSUME NEW p \in Procs, Spawn(p) PROVE <1>1!:
    BY <2>1, <2>2 DEF Spawn, PC
  <2>3. CASE RunMain
    BY <2>1, <2>3 DEF RunMain, Goto, PC
  <2>4. QED BY <2>2, <2>3
<1>2. UNCHANGED <<ready, skew, raced, yieldq, wakeup, blocks, count, global, cur, hand, victim,
                  quota, status, proc, sid, link, entries, wake>>
  BY <1>1 DEF queues, deques, counters, steal, task, waking
<1>3. \A q \in Procs : (pc'[q] \in {"task", "block", "switch"}) <=> (cur'[q] # None)
  BY <1>1, <1>2 DEF TypeOK
<1>4. TypeOK'
  BY <1>1, <1>2, <1>3 DEF TypeOK
<1>5. ReadyInv'
  BY <1>1, <1>2 DEF ReadyInv, KeepPC, VictimPC
<1>6. QED BY <1>4, <1>5

\* A thread runs a task out of one of its queues.
LEMMA RunType ==
  ASSUME TypeInv, NEW p \in Procs, PopWakeup(p) \/ PopReady(p)
  PROVE  TypeInv'
<1> USE ProcessorAssumption DEF TypeInv
<1> DEFINE Run(t) == RunTask(p, t) /\ t \in Tasks
           Pass == UNCHANGED <<cur, proc, link>> /\ (Goto(p, "pop") \/ Goto(p, "yield"))
           Others == /\ ready' \in [Procs -> Seq(Tasks)] /\ wakeup' \in [Procs -> Seq(Tasks)]
                     /\ skew' \in [Procs -> BOOLEAN] /\ raced' \in [Procs -> BOOLEAN]
                     /\ UNCHANGED <<yieldq, global, blocks, count, hand, victim, quota, status, sid,
                                    entries, wake>>
<1>1. /\ pc[p] \in {"top", "pop"} /\ cur[p] = None
      /\ wakeup[p] \in Seq(Tasks) /\ ready[p] \in Seq(Tasks)
      /\ ready \in [Procs -> Seq(Tasks)] /\ wakeup \in [Procs -> Seq(Tasks)]
      /\ skew \in [Procs -> BOOLEAN] /\ raced \in [Procs -> BOOLEAN]
  BY DEF PopWakeup, PopReady, TypeOK
<1>2. ((\E t : Run(t)) \/ Pass) /\ Others
  <2>1. CASE PopWakeup(p)
    BY <1>1, <2>1, TakeType, ZenonT(60) DEF PopWakeup, deques, counters, steal, waking
  <2>2. CASE PopReady(p)
    BY <1>1, <2>2, TakeType, ZenonT(60) DEF PopReady, deques, counters, steal, waking
  <2>3. QED BY <2>1, <2>2
<1>3. Others
  BY <1>2
<1>4. /\ cur' \in [Procs -> Tasks \cup {None}]
      /\ proc' \in [Tasks -> Procs \cup {None}]
      /\ link' \in [Tasks -> Procs \cup {None}]
      /\ pc' \in [Procs -> PC]
      /\ \A q \in Procs : (pc'[q] \in {"task", "block", "switch"}) <=> (cur'[q] # None)
  <2>1. ASSUME NEW t, Run(t) PROVE <1>4!:
    BY <1>1, <2>1, RunTaskType
  <2>2. CASE Pass
    BY <1>1, <2>2, ZenonT(60) DEF TypeOK, Goto, PC
  <2>3. QED BY <1>2, <2>1, <2>2
<1>5. TypeOK'
  BY <1>3, <1>4 DEF TypeOK
<1>6. ReadyInv'
  <2>1. \A q \in Procs : pc'[q] = pc[q] \/ pc'[q] \in {"task", "pop", "yield"}
    BY <1>2 DEF RunTask, Goto, TypeOK
  <2>2. \A t \in Tasks : proc[t] \in Procs => proc'[t] \in Procs
    BY <1>2 DEF RunTask, TypeOK
  <2>3. \A q \in Procs : cur'[q] = cur[q] \/ (cur'[q] \in Tasks /\ proc'[cur'[q]] \in Procs)
    <3>1. ASSUME NEW t, Run(t), NEW q \in Procs
          PROVE  cur'[q] = cur[q] \/ (cur'[q] \in Tasks /\ proc'[cur'[q]] \in Procs)
      BY <3>1 DEF RunTask, TypeOK
    <3>2. CASE Pass
      BY <3>2
    <3>3. QED BY <1>2, <3>1, <3>2
  <2>4. \A q \in Procs : cur'[q] # None => proc'[cur'[q]] \in Procs
    BY <2>2, <2>3, ZenonT(60) DEF ReadyInv, TypeOK
  <2>5. \A e \in entries' : proc'[e.t] \in Procs
    BY <1>3, <2>2 DEF ReadyInv, TypeOK, Entry
  <2>6. QED BY <1>3, <2>1, <2>4, <2>5 DEF ReadyInv, KeepPC, VictimPC
<1>7. QED BY <1>5, <1>6

\* The steps at which a thread is in its loop and in no task's context.
InLoop == {"top", "pop", "yield", "steal", "draw", "freed", "size", "stealing", "keep_stolen",
           "recheck", "global", "keep", "blocks", "wait_wakeup", "wait_global"}

\* What a step that stays in the loop has to keep.
LEMMA LoopType ==
  ASSUME TypeInv, NEW p \in Procs, pc[p] \in InLoop,
         UNCHANGED <<blocks, count, cur, task, waking>>,
         ready' \in [Procs -> Seq(Tasks)], skew' \in [Procs -> BOOLEAN], raced' \in [Procs -> BOOLEAN],
         yieldq' \in [Procs -> Seq(Tasks)], wakeup' \in [Procs -> Seq(Tasks)],
         global' \in Seq(Tasks),
         pc' \in [Procs -> PC], hand' \in [Procs -> Tasks \cup {None}],
         victim' \in [Procs -> Procs \cup {None}], quota' \in [Procs -> Nat],
         \A q \in Procs : q # p => pc'[q] = pc[q] /\ hand'[q] = hand[q] /\ victim'[q] = victim[q],
         pc'[p] \in InLoop,
         pc'[p] \in KeepPC => hand'[p] \in Tasks,
         pc'[p] \in VictimPC => victim'[p] \in Procs
  PROVE  TypeInv'
<1>1. \A q \in Procs : (pc'[q] \in {"task", "block", "switch"}) <=> (cur'[q] # None)
  BY DEF TypeInv, TypeOK, InLoop
<1>2. UNCHANGED <<status, proc, sid, link, entries, wake>>
  BY DEF task, waking
<1>3. TypeOK'
  BY <1>1, <1>2 DEF TypeInv, TypeOK
<1>4. ReadyInv'
  <2>1. \A q \in Procs : pc'[q] \in KeepPC => hand'[q] \in Tasks
    BY DEF TypeInv, ReadyInv
  <2>2. \A q \in Procs : pc'[q] \in VictimPC => victim'[q] \in Procs
    BY DEF TypeInv, ReadyInv
  <2>3. QED BY <1>2, <2>1, <2>2 DEF TypeInv, ReadyInv
<1>5. QED BY <1>3, <1>4 DEF TypeInv

\* The same for a step that changes no queue.
LEMMA LookType ==
  ASSUME TypeInv, NEW p \in Procs,
         FindArray(p) \/ PickVictim(p) \/ StealHalf(p) \/ Recheck(p) \/ CheckBlocks(p)
  PROVE  TypeInv'
<1>1. /\ pc[p] \in InLoop
      /\ pc' \in [Procs -> PC]
      /\ victim[p] \in Procs \cup {None} /\ quota[p] \in Nat /\ hand[p] \in Tasks \cup {None}
  BY ZenonT(60) DEF FindArray, PickVictim, StealHalf, Recheck, CheckBlocks, InLoop, TypeInv, TypeOK, Goto, PC
<1>2. \A u \in Procs : Len(ready[u]) \in Nat /\ SizeSeen(u) \in Nat
  BY DEF SizeSeen, TypeInv, TypeOK
<1>3. UNCHANGED <<blocks, count, cur, task, waking, queues, hand>>
  BY DEF FindArray, PickVictim, StealHalf, Recheck, CheckBlocks, counters, steal
<1>4. /\ ready' \in [Procs -> Seq(Tasks)] /\ skew' \in [Procs -> BOOLEAN]
      /\ raced' \in [Procs -> BOOLEAN] /\ yieldq' \in [Procs -> Seq(Tasks)]
      /\ wakeup' \in [Procs -> Seq(Tasks)] /\ global' \in Seq(Tasks)
      /\ hand' \in [Procs -> Tasks \cup {None}]
      /\ \A q \in Procs : hand'[q] = hand[q]
  BY <1>3 DEF TypeInv, TypeOK, queues, deques
<1>5. \E s \in InLoop, v \in Procs \cup {None}, n \in Nat :
         /\ pc' = [pc EXCEPT ![p] = s]
         /\ victim' = [victim EXCEPT ![p] = v] /\ quota' = [quota EXCEPT ![p] = n]
         /\ s \notin KeepPC
         /\ s \in VictimPC => v \in Procs
  <2>1. /\ victim = [victim EXCEPT ![p] = victim[p]] /\ quota = [quota EXCEPT ![p] = quota[p]]
    BY DEF TypeInv, TypeOK
  <2>2. CASE FindArray(p)
    <3>1. Cardinality(Known) \in Nat
      BY FS_Subset, FS_CardinalityType, ProcessorAssumption DEF Known
    <3>2. QED BY <1>1, <2>1, <2>2, <3>1 DEF FindArray, Goto, InLoop, KeepPC, VictimPC
  <2>3. CASE PickVictim(p)
    <3>1. quota' = [quota EXCEPT ![p] = 0]
      BY <2>3 DEF PickVictim
    <3>2. \/ victim' = victim /\ (Goto(p, "freed") \/ Goto(p, "recheck"))
          \/ \E v \in Procs : victim' = [victim EXCEPT ![p] = v] /\ Goto(p, "size")
      BY <2>3 DEF PickVictim, Known
    <3>3. CASE victim' = victim /\ (Goto(p, "freed") \/ Goto(p, "recheck"))
      BY <1>1, <2>1, <3>1, <3>3 DEF Goto, InLoop, KeepPC, VictimPC
    <3>4. CASE \E v \in Procs : victim' = [victim EXCEPT ![p] = v] /\ Goto(p, "size")
      BY <1>1, <2>1, <3>1, <3>4 DEF Goto, InLoop, KeepPC, VictimPC
    <3>5. QED BY <3>2, <3>3, <3>4
  <2>4. CASE StealHalf(p)
    <3>1. victim[p] \in Procs
      BY <2>4 DEF StealHalf, TypeInv, ReadyInv, VictimPC
    <3>2. SizeSeen(victim[p]) \in Nat
      BY <1>2, <3>1
    <3>3. SizeSeen(victim[p]) \div 2 \in Nat
      BY <3>2
    <3>4. QED BY <1>1, <2>1, <2>4, <3>1, <3>3 DEF StealHalf, Goto, InLoop, KeepPC, VictimPC
  <2>5. CASE Recheck(p)
    BY <1>1, <2>1, <2>5 DEF Recheck, steal, Goto, InLoop, KeepPC, VictimPC
  <2>6. CASE CheckBlocks(p)
    BY <1>1, <2>1, <2>6 DEF CheckBlocks, steal, Goto, InLoop, KeepPC, VictimPC
  <2>7. QED BY <2>2, <2>3, <2>4, <2>5, <2>6
<1>6. /\ victim' \in [Procs -> Procs \cup {None}] /\ quota' \in [Procs -> Nat]
      /\ \A q \in Procs : q # p => pc'[q] = pc[q] /\ victim'[q] = victim[q]
      /\ pc'[p] \in InLoop \ KeepPC
      /\ pc'[p] \in VictimPC => victim'[p] \in Procs
  BY <1>5 DEF TypeInv, TypeOK
<1>7. UNCHANGED <<blocks, count, cur, task, waking>>
  BY <1>3
<1>8. QED BY <1>1, <1>4, <1>6, <1>7, LoopType

\* Tasks that are moved from one place to another.
LEMMA MoveType ==
  ASSUME TypeInv, NEW p \in Procs,
         TakeYield(p) \/ StealOne(p) \/ PopGlobal(p) \/ Keep(p) \/ WaitWakeup(p) \/ WaitGlobal(p)
  PROVE  TypeInv'
<1>1. /\ ready \in [Procs -> Seq(Tasks)] /\ skew \in [Procs -> BOOLEAN]
      /\ raced \in [Procs -> BOOLEAN] /\ yieldq \in [Procs -> Seq(Tasks)]
      /\ wakeup \in [Procs -> Seq(Tasks)] /\ global \in Seq(Tasks)
      /\ hand[p] \in Tasks \cup {None} /\ victim[p] \in Procs \cup {None} /\ quota[p] \in Nat
      /\ pc \in [Procs -> PC] /\ hand \in [Procs -> Tasks \cup {None}]
      /\ victim \in [Procs -> Procs \cup {None}] /\ quota \in [Procs -> Nat]
  BY DEF TypeInv, TypeOK
<1>2. \A t \in Tasks : PushReady(p, t) =>
         /\ ready' \in [Procs -> Seq(Tasks)] /\ skew' \in [Procs -> BOOLEAN] /\ raced' = raced
  BY PushReadyType DEF TypeInv
<1>3. CASE TakeYield(p)
  <2>1. UNCHANGED <<blocks, count, cur, task, waking, wakeup, global, hand, victim, quota>> /\ pc[p] = "yield"
    BY <1>3 DEF TakeYield, counters, steal
  <2>2. CASE yieldq[p] # <<>>
    <3>1. Head(yieldq[p]) \in Tasks /\ Tail(yieldq[p]) \in Seq(Tasks)
      BY <1>1, <2>2, TakeType
    <3>2. /\ PushReady(p, Head(yieldq[p])) /\ yieldq' = [yieldq EXCEPT ![p] = Tail(@)]
          /\ pc' = [pc EXCEPT ![p] = "top"]
      BY <1>3, <2>2 DEF TakeYield, Goto
    <3>3. yieldq' \in [Procs -> Seq(Tasks)]
      BY <1>1, <3>1, <3>2
    <3>4. QED BY <1>1, <1>2, <2>1, <3>1, <3>2, <3>3, LoopType DEF InLoop, KeepPC, VictimPC, PC
  <2>3. CASE yieldq[p] = <<>>
    <3>1. UNCHANGED <<ready, skew, raced, yieldq>> /\ pc' = [pc EXCEPT ![p] = "steal"]
      BY <1>3, <2>3 DEF TakeYield, deques, Goto
    <3>2. QED BY <1>1, <2>1, <3>1, LoopType DEF InLoop, KeepPC, VictimPC, PC
  <2>4. QED BY <2>2, <2>3
<1>4. CASE StealOne(p)
  <2>1. /\ UNCHANGED <<skew, yieldq, wakeup, global, blocks, count, cur, victim, task, waking>>
        /\ pc[p] = "stealing" /\ victim[p] \in Procs
    BY <1>4 DEF StealOne, counters, TypeInv, ReadyInv, VictimPC
  <2>2. CASE quota[p] = 0
    <3>1. pc' = [pc EXCEPT ![p] = "recheck"] /\ UNCHANGED <<ready, raced, hand, quota>>
      BY <1>4, <2>2 DEF StealOne, Goto
    <3>2. QED BY <1>1, <2>1, <3>1, LoopType DEF InLoop, KeepPC, VictimPC, PC
  <2>3. CASE quota[p] > 0 /\ UNCHANGED <<pc, ready, raced, hand>>
    <3>1. quota' = [quota EXCEPT ![p] = quota[p] - 1] /\ quota[p] - 1 \in Nat
      BY <1>1, <1>4, <2>3 DEF StealOne
    <3>2. pc' = [pc EXCEPT ![p] = "stealing"]
      BY <2>1, <2>3 DEF TypeInv, TypeOK
    <3>3. QED BY <1>1, <2>1, <2>3, <3>1, <3>2, LoopType DEF InLoop, KeepPC, VictimPC, PC
  <2>4. CASE quota[p] > 0 /\ ~UNCHANGED <<pc, ready, raced, hand>>
    <3> DEFINE v == victim[p]
    <3>1. /\ ready[v] # <<>> /\ quota' = [quota EXCEPT ![p] = quota[p] - 1] /\ quota[p] - 1 \in Nat
          /\ hand' = [hand EXCEPT ![p] = Head(ready[v])]
          /\ ready' = [ready EXCEPT ![v] = Tail(ready[v])]
          /\ (raced' = raced \/ raced' = [raced EXCEPT ![v] = TRUE])
          /\ pc' = [pc EXCEPT ![p] = "keep_stolen"]
      BY <1>1, <1>4, <2>4 DEF StealOne, Goto
    <3>2. Head(ready[v]) \in Tasks /\ Tail(ready[v]) \in Seq(Tasks)
      BY <1>1, <2>1, <3>1, TakeType
    <3>3. ready' \in [Procs -> Seq(Tasks)] /\ raced' \in [Procs -> BOOLEAN]
      BY <1>1, <2>1, <3>1, <3>2
    <3>4. QED BY <1>1, <2>1, <3>1, <3>2, <3>3, LoopType DEF InLoop, KeepPC, VictimPC, PC
  <2>5. QED BY <1>1, <2>2, <2>3, <2>4
<1>5. ASSUME global # <<>>, TakeGlobal(p), pc[p] \in InLoop,
             UNCHANGED <<deques, yieldq, wakeup, counters, cur, steal, task, waking>>
      PROVE  TypeInv'
  <2>1. Head(global) \in Tasks /\ Tail(global) \in Seq(Tasks)
    BY <1>1, <1>5, TakeType
  <2>2. /\ hand' = [hand EXCEPT ![p] = Head(global)] /\ global' = Tail(global)
        /\ pc' = [pc EXCEPT ![p] = "keep"]
        /\ UNCHANGED <<ready, skew, raced, yieldq, wakeup, blocks, count, cur, victim, quota, task, waking>>
    BY <1>5 DEF TakeGlobal, Goto, deques, counters, steal
  <2>3. QED BY <1>1, <1>5, <2>1, <2>2, LoopType DEF InLoop, KeepPC, VictimPC, PC
<1>6. CASE PopGlobal(p)
  <2>1. CASE TakeGlobal(p)
    BY <1>5, <1>6, <2>1 DEF PopGlobal, TakeGlobal, InLoop
  <2>2. CASE ~TakeGlobal(p)
    <3>1. /\ pc[p] = "global" /\ pc' = [pc EXCEPT ![p] = "blocks"]
          /\ UNCHANGED <<ready, skew, raced, yieldq, wakeup, global, blocks, count, cur, hand, victim,
                         quota, task, waking>>
      BY <1>6, <2>2 DEF PopGlobal, Goto, deques, counters, steal
    <3>2. QED BY <1>1, <3>1, LoopType DEF InLoop, KeepPC, VictimPC, PC
  <2>3. QED BY <2>1, <2>2
<1>7. CASE Keep(p)
  <2>1. pc[p] \in KeepPC /\ hand[p] \in Tasks
    BY <1>7 DEF Keep, KeepPC, TypeInv, ReadyInv
  <2>2. /\ PushReady(p, hand[p]) /\ hand' = [hand EXCEPT ![p] = None]
        /\ UNCHANGED <<yieldq, wakeup, global, blocks, count, cur, victim, quota, task, waking>>
    BY <1>7 DEF Keep, counters, steal
  <2>3. \E s \in {"top", "stealing"} : /\ pc' = [pc EXCEPT ![p] = s]
                                       /\ s = "stealing" => pc[p] = "keep_stolen"
    BY <1>7, <2>1 DEF Keep, Goto, KeepPC
  <2>4. pc[p] = "keep_stolen" => victim[p] \in Procs
    BY DEF TypeInv, ReadyInv, VictimPC
  <2>5. /\ pc' \in [Procs -> PC] /\ hand' \in [Procs -> Tasks \cup {None}]
        /\ \A q \in Procs : q # p => pc'[q] = pc[q] /\ hand'[q] = hand[q]
        /\ pc'[p] \in {"top", "stealing"}
        /\ pc'[p] = "stealing" => victim[p] \in Procs
    BY <1>1, <2>2, <2>3, <2>4 DEF PC
  <2>6. pc[p] \in InLoop
    BY <2>1 DEF KeepPC, InLoop
  <2>7. QED BY <1>1, <1>2, <2>1, <2>2, <2>5, <2>6, LoopType DEF InLoop, KeepPC, VictimPC
<1>8. CASE WaitWakeup(p)
  <2>1. /\ pc[p] = "wait_wakeup" /\ wakeup[p] # <<>>
        /\ hand' = [hand EXCEPT ![p] = Head(wakeup[p])]
        /\ wakeup' = [wakeup EXCEPT ![p] = Tail(wakeup[p])]
        /\ pc' = [pc EXCEPT ![p] = "keep"]
        /\ UNCHANGED <<ready, skew, raced, yieldq, global, blocks, count, cur, victim, quota, task, waking>>
    BY <1>8 DEF WaitWakeup, Goto, deques, counters, steal
  <2>2. Head(wakeup[p]) \in Tasks /\ Tail(wakeup[p]) \in Seq(Tasks)
    BY <1>1, <2>1, TakeType
  <2>3. wakeup' \in [Procs -> Seq(Tasks)]
    BY <1>1, <2>1, <2>2
  <2>4. QED BY <1>1, <2>1, <2>2, <2>3, LoopType DEF InLoop, KeepPC, VictimPC, PC
<1>9. CASE WaitGlobal(p)
  BY <1>5, <1>9 DEF WaitGlobal, TakeGlobal, InLoop
<1>10. QED BY <1>3, <1>4, <1>6, <1>7, <1>8, <1>9

\* The task that leaves its thread.
LEMMA LeaveType ==
  ASSUME TypeInv, NEW p \in Procs, pc[p] \in {"task", "block"},
         NEW s \in {"suspend", "block"}, Leave(p, s),
         UNCHANGED <<count, wakeup, global, cur, hand, steal, deques, proc, sid, link, waking>>,
         yieldq' \in [Procs -> Seq(Tasks)], blocks' \in [Procs -> 0 .. Wrap - 1]
  PROVE  TypeInv'
<1>1. cur[p] \in Tasks
  BY DEF TypeInv, TypeOK
<1>2. /\ status' \in [Tasks -> {"none", "ready", "suspend", "block", "dead"}]
      /\ pc' = [pc EXCEPT ![p] = "switch"] /\ pc' \in [Procs -> PC]
  BY <1>1 DEF Leave, Goto, TypeInv, TypeOK, PC
<1>3. UNCHANGED <<count, wakeup, global, cur, hand, victim, quota, ready, skew, raced, proc, sid, link,
                  entries, wake>>
  BY DEF steal, deques, waking
<1>4. \A q \in Procs : pc'[q] = IF q = p THEN "switch" ELSE pc[q]
  BY <1>2 DEF TypeInv, TypeOK
<1>5. \A q \in Procs : (pc'[q] \in {"task", "block", "switch"}) <=> (cur'[q] # None)
  BY <1>3, <1>4 DEF TypeInv, TypeOK
<1>6. TypeOK'
  BY <1>2, <1>3, <1>5 DEF TypeInv, TypeOK
<1>7. ReadyInv'
  BY <1>3, <1>4 DEF TypeInv, ReadyInv, KeepPC, VictimPC
<1>8. QED BY <1>6, <1>7 DEF TypeInv

\* What the code on p calls.
LEMMA CallType == ASSUME TypeInv, NEW p \in Procs, TaskStep(p) PROVE TypeInv'
<1>1. /\ pc \in [Procs -> PC] /\ cur \in [Procs -> Tasks \cup {None}]
      /\ yieldq \in [Procs -> Seq(Tasks)] /\ blocks \in [Procs -> 0 .. Wrap - 1]
      /\ status \in [Tasks -> {"none", "ready", "suspend", "block", "dead"}]
      /\ sid \in [Tasks -> 0 .. Wrap - 1]
      /\ pc[p] \in {"task", "block", "switch"} => cur[p] \in Tasks
  BY DEF TypeInv, TypeOK
<1>2. ASSUME NEW t \in Tasks, Create(p, t) PROVE TypeInv'
  <2>1. /\ ready' \in [Procs -> Seq(Tasks)] /\ skew' \in [Procs -> BOOLEAN] /\ raced' = raced
        /\ global' \in Seq(Tasks)
    <3>1. CASE PushReady(p, t) /\ UNCHANGED global
      BY <3>1, PushReadyType DEF TypeInv, TypeOK
    <3>2. CASE global' = Append(global, t) /\ UNCHANGED deques
      BY <3>2 DEF TypeInv, TypeOK, deques
    <3>3. QED BY <1>2, <3>1, <3>2 DEF Create
  <2>2. count' \in [Procs -> 0 .. GlobalEvery - 1]
    <3>1. count[p] + 1 \in Int
      BY DEF TypeInv, TypeOK
    <3>2. (count[p] + 1) % GlobalEvery \in 0 .. GlobalEvery - 1
      BY <3>1, CounterRange, ProcessorAssumption
    <3>3. count' = [count EXCEPT ![p] = (count[p] + 1) % GlobalEvery]
      BY <1>2 DEF Create
    <3>4. QED BY <3>2, <3>3 DEF TypeInv, TypeOK
  <2>3. status' \in [Tasks -> {"none", "ready", "suspend", "block", "dead"}]
    BY <1>1, <1>2 DEF Create
  <2>4. UNCHANGED <<yieldq, wakeup, blocks, pc, cur, hand, victim, quota, proc, sid, link, entries, wake>>
    BY <1>2 DEF Create, thread, steal, waking
  <2>5. TypeOK'
    BY <2>1, <2>2, <2>3, <2>4 DEF TypeInv, TypeOK
  <2>6. ReadyInv'
    BY <2>4 DEF TypeInv, ReadyInv
  <2>7. QED BY <2>5, <2>6 DEF TypeInv
<1>3. CASE Yield(p)
  <2>1. yieldq' \in [Procs -> Seq(Tasks)]
    BY <1>1, <1>3 DEF Yield, Free
  <2>2. /\ pc[p] = "task" /\ Leave(p, "suspend")
        /\ UNCHANGED <<deques, wakeup, global, count, blocks, cur, hand, steal, proc, sid, link, waking>>
    BY <1>3 DEF Yield, Free, counters
  <2>3. QED BY <1>1, <2>1, <2>2, LeaveType
<1>4. CASE Suspend(p)
  <2>1. /\ pc[p] = "task" /\ cur[p] \in Tasks
        /\ entries' = entries \cup {EntryOf(cur[p])}
        /\ pc' = [pc EXCEPT ![p] = "block"]
        /\ UNCHANGED <<queues, counters, cur, hand, steal, task, wake>>
    BY <1>1, <1>4 DEF Suspend, Free, Goto
  <2>2. /\ EntryOf(cur[p]) \in Entry /\ EntryOf(cur[p]).t = cur[p]
    BY <1>1, <2>1 DEF EntryOf, Entry
  <2>3. entries' \subseteq Entry
    BY <2>1, <2>2 DEF TypeInv, TypeOK
  <2>4. UNCHANGED <<ready, skew, raced, yieldq, wakeup, global, blocks, count, cur, hand, victim, quota,
                    status, proc, sid, link, wake>>
    BY <2>1 DEF queues, deques, counters, steal, task
  <2>5. pc' \in [Procs -> PC] /\ \A q \in Procs : pc'[q] = IF q = p THEN "block" ELSE pc[q]
    BY <1>1, <2>1 DEF PC
  <2>6. \A q \in Procs : (pc'[q] \in {"task", "block", "switch"}) <=> (cur'[q] # None)
    BY <2>1, <2>4, <2>5 DEF TypeInv, TypeOK
  <2>7. TypeOK'
    BY <2>3, <2>4, <2>5, <2>6 DEF TypeInv, TypeOK
  <2>8. \A e \in entries' : proc'[e.t] \in Procs
    BY <2>1, <2>2, <2>4, ProcessorAssumption DEF TypeInv, ReadyInv
  <2>9. ReadyInv'
    BY <2>4, <2>5, <2>8 DEF TypeInv, ReadyInv, KeepPC, VictimPC
  <2>10. QED BY <2>7, <2>9 DEF TypeInv
<1>5. CASE Block(p)
  <2>1. blocks' \in [Procs -> 0 .. Wrap - 1]
    <3>1. blocks[p] + 1 \in Int
      BY <1>1
    <3>2. (blocks[p] + 1) % Wrap \in 0 .. Wrap - 1
      BY <3>1, CounterRange, ProcessorAssumption
    <3>3. blocks' = [blocks EXCEPT ![p] = (blocks[p] + 1) % Wrap]
      BY <1>5 DEF Block
    <3>4. QED BY <1>1, <3>2, <3>3
  <2>2. /\ pc[p] = "block" /\ Leave(p, "block")
        /\ UNCHANGED <<deques, yieldq, wakeup, global, count, cur, hand, steal, proc, sid, link, waking>>
    BY <1>5 DEF Block, queues
  <2>3. QED BY <1>1, <2>1, <2>2, LeaveType
<1>6. CASE Switch(p) \/ Finish(p)
  <2>1. /\ pc[p] \in {"task", "switch"} /\ cur[p] \in Tasks
        /\ cur' = [cur EXCEPT ![p] = None]
        /\ \E s \in {"top", "astray"} : pc' = [pc EXCEPT ![p] = s]
        /\ UNCHANGED <<queues, counters, hand, steal, proc, sid, link, waking>>
        /\ status' = status \/ status' = [status EXCEPT ![cur[p]] = "dead"]
    BY <1>1, <1>6 DEF Switch, Finish, Free, Goto, task
  <2>2. UNCHANGED <<ready, skew, raced, yieldq, wakeup, global, blocks, count, hand, victim, quota,
                    proc, sid, link, entries, wake>>
    BY <2>1 DEF queues, deques, counters, steal, waking
  <2>3. /\ pc' \in [Procs -> PC]
        /\ \A q \in Procs : IF q = p THEN pc'[q] \in {"top", "astray"} ELSE pc'[q] = pc[q]
        /\ cur' \in [Procs -> Tasks \cup {None}]
        /\ \A q \in Procs : cur'[q] = IF q = p THEN None ELSE cur[q]
        /\ status' \in [Tasks -> {"none", "ready", "suspend", "block", "dead"}]
    BY <1>1, <2>1 DEF PC
  <2>4. \A q \in Procs : (pc'[q] \in {"task", "block", "switch"}) <=> (cur'[q] # None)
    BY <2>3 DEF TypeInv, TypeOK
  <2>5. TypeOK'
    BY <2>2, <2>3, <2>4 DEF TypeInv, TypeOK
  <2>6. ReadyInv'
    BY <2>2, <2>3 DEF TypeInv, ReadyInv, KeepPC, VictimPC
  <2>7. QED BY <2>5, <2>6 DEF TypeInv
<1>7. QED BY <1>2, <1>3, <1>4, <1>5, <1>6 DEF TaskStep

\* taskWakeup.
LEMMA WakeType == ASSUME TypeInv, NEW w \in Wakers, WakeStep(w) PROVE TypeInv'
<1>1. ASSUME NEW e \in entries, TakeEntry(w, e) PROVE TypeInv'
  <2>1. e \in Entry /\ e.t \in Tasks /\ proc[e.t] \in Procs
    BY DEF TypeInv, TypeOK, ReadyInv, Entry
  <2>2. [step |-> "push", entry |-> e, on |-> proc[e.t]] \in
           [step : {"push", "dec"}, entry : Entry, on : Procs]
    BY <2>1
  <2>3. wake' \in [Wakers -> {Awake} \cup [step : {"push", "dec"}, entry : Entry, on : Procs]]
    BY <1>1, <2>2 DEF TakeEntry, TypeInv, TypeOK
  <2>4. /\ entries' = entries \ {e}
        /\ UNCHANGED <<ready, skew, raced, yieldq, wakeup, global, blocks, count, pc, cur, hand,
                       victim, quota, status, proc, sid, link>>
    BY <1>1 DEF TakeEntry, queues, deques, counters, thread, steal, task
  <2>5. TypeOK'
    BY <2>3, <2>4 DEF TypeInv, TypeOK
  <2>6. ReadyInv'
    BY <2>4 DEF TypeInv, ReadyInv
  <2>7. QED BY <2>5, <2>6 DEF TypeInv
<1>2. CASE WakePush(w)
  <2>1. wake[w].step = "push" /\ Then(w, "dec")
    BY <1>2 DEF WakePush
  <2>2. wake' \in [Wakers -> {Awake} \cup [step : {"push", "dec"}, entry : Entry, on : Procs]]
    BY <2>1, ThenType DEF TypeInv
  <2>3. wakeup' \in [Procs -> Seq(Tasks)] /\ sid' \in [Tasks -> 0 .. Wrap - 1]
    <3>1. wake[w].on \in Procs
      BY <2>1, WakerType DEF TypeInv
    <3>2. CASE PushTo(w, wake[w].on)
      BY <2>1, <3>1, <3>2, PushToType DEF TypeInv
    <3>3. CASE UNCHANGED <<wakeup, sid>>
      BY <3>3 DEF TypeInv, TypeOK
    <3>4. QED BY <1>2, <3>2, <3>3 DEF WakePush
  <2>4. UNCHANGED <<ready, skew, raced, yieldq, global, blocks, count, pc, cur, hand,
                    victim, quota, status, proc, link, entries>>
    BY <1>2 DEF WakePush, deques, counters, thread, steal
  <2>5. TypeOK'
    BY <2>2, <2>3, <2>4 DEF TypeInv, TypeOK
  <2>6. ReadyInv'
    BY <2>4 DEF TypeInv, ReadyInv
  <2>7. QED BY <2>5, <2>6 DEF TypeInv
<1>3. CASE WakeDec(w)
  <2>1. wake[w].step = "dec" /\ Then(w, "no")
    BY <1>3 DEF WakeDec
  <2>2. wake' \in [Wakers -> {Awake} \cup [step : {"push", "dec"}, entry : Entry, on : Procs]]
    BY <2>1, ThenType DEF TypeInv
  <2>3. blocks' \in [Procs -> 0 .. Wrap - 1]
    <3>1. wake[w].on \in Procs
      BY <2>1, WakerType DEF TypeInv
    <3>2. blocks[wake[w].on] - 1 \in Int
      BY <3>1 DEF TypeInv, TypeOK
    <3>3. (blocks[wake[w].on] - 1) % Wrap \in 0 .. Wrap - 1
      BY <3>2, CounterRange, ProcessorAssumption
    <3>4. blocks' = [blocks EXCEPT ![wake[w].on] = (blocks[wake[w].on] - 1) % Wrap]
      BY <1>3 DEF WakeDec
    <3>5. QED BY <3>1, <3>3, <3>4 DEF TypeInv, TypeOK
  <2>4. UNCHANGED <<ready, skew, raced, yieldq, wakeup, global, count, pc, cur, hand,
                    victim, quota, status, proc, sid, link, entries>>
    BY <1>3 DEF WakeDec, queues, deques, thread, steal, task
  <2>5. TypeOK'
    BY <2>2, <2>3, <2>4 DEF TypeInv, TypeOK
  <2>6. ReadyInv'
    BY <2>4 DEF TypeInv, ReadyInv
  <2>7. QED BY <2>5, <2>6 DEF TypeInv
<1>4. QED BY <1>1, <1>2, <1>3 DEF WakeStep

\* The stuttering step.
LEMMA StutterType == ASSUME TypeInv, UNCHANGED vars PROVE TypeInv'
<1>1. UNCHANGED <<ready, skew, raced, yieldq, wakeup, global, blocks, count, pc, cur, hand, victim, quota,
                  status, proc, sid, link, entries, wake>>
  BY DEF vars, queues, deques, counters, thread, steal, task, waking
<1>2. QED BY <1>1 DEF TypeInv, TypeOK, ReadyInv

LEMMA NextType == ASSUME TypeInv, [Next]_vars PROVE TypeInv'
<1>1. CASE (\E p \in Procs : Spawn(p)) \/ RunMain
  BY <1>1, StartType
<1>2. ASSUME NEW p \in Procs, LoopStep(p) PROVE TypeInv'
  BY <1>2, RunType, LookType, MoveType, ProcessorAssumption DEF LoopStep
<1>3. ASSUME NEW p \in Procs, TaskStep(p) PROVE TypeInv'
  BY <1>3, CallType
<1>4. ASSUME NEW w \in Wakers, WakeStep(w) PROVE TypeInv'
  BY <1>4, WakeType
<1>5. CASE UNCHANGED vars
  BY <1>5, StutterType
<1>6. QED BY <1>1, <1>2, <1>3, <1>4, <1>5 DEF Next

\* Every step finds what it reads, and everything stays in its type: a context
\* is entered and left only with a task in it.
THEOREM TypeCorrect == Spec => []TypeOK
<1>1. TypeInv => TypeOK
  BY DEF TypeInv
<1>2. QED BY <1>1, InitType, NextType, PTL DEF Spec
-----------------------------------------------------------------------------
(* Where a task is *)

\* Queue q holds task t, and holds every task at most once.
Holds(q, t) == \E i \in DOMAIN q : q[i] = t
Once(q) == \A i, j \in DOMAIN q : q[i] = q[j] => i = j

\* Task t is in a place of kind k: a queue or a hand of the processor y, the
\* global queue or an entry (y is None), or the push of the waker y.
Kinds == {"wakeup", "yield", "ready", "hand", "push", "global", "entry"}
Where == Procs \cup Ext \cup {None}
Sits(t, k, y) ==
    \/ k = "wakeup" /\ y \in Procs /\ Holds(wakeup[y], t)
    \/ k = "yield" /\ y \in Procs /\ Holds(yieldq[y], t)
    \/ k = "ready" /\ y \in Procs /\ Holds(ready[y], t)
    \/ k = "hand" /\ y \in Procs /\ hand[y] = t
    \/ k = "push" /\ y \in Wakers /\ wake[y].step = "push" /\ wake[y].entry.t = t
    \/ k = "global" /\ y = None /\ Holds(global, t)
    \/ k = "entry" /\ y = None /\ \E e \in entries : e.t = t

\* A task is in one place, and there once.
Single ==
    \A t \in Tasks, k, l \in Kinds, y, z \in Where :
        Sits(t, k, y) /\ Sits(t, l, z) => k = l /\ y = z
OnceInv ==
    /\ \A p \in Procs : Once(wakeup[p]) /\ Once(yieldq[p]) /\ Once(ready[p])
    /\ Once(global)
    /\ \A e, f \in entries : e.t = f.t => e = f

\* A place from which the thread of p alone can take a task.
OwnPlace(p, k, y) ==
    \/ k \in {"wakeup", "yield"} /\ y = p
    \/ k = "entry"
    \/ k = "push" /\ wake[y].on = p

\* A task whose context is in use has that thread's processor, and a place only
\* where nobody else takes it from, once it has begun to leave.
LeavingInv ==
    \A t \in Tasks, p \in Procs, k \in Kinds, y \in Where :
        cur[p] = t /\ Sits(t, k, y) => pc[p] \in {"block", "switch"} /\ OwnPlace(p, k, y)
HomeInv == \A p \in Procs : cur[p] # None => proc[cur[p]] = p

\* A task that is not created yet or is deleted is nowhere.
GoneInv ==
    \A t \in Tasks : status[t] \in {"none", "dead"} =>
        /\ \A k \in Kinds, y \in Where : ~Sits(t, k, y)
        /\ \A p \in Procs : cur[p] # t

PlaceInv == TypeInv /\ Single /\ OnceInv /\ LeavingInv /\ HomeInv /\ GoneInv

\* A thread waits on the global queue only when no entry and no waker has a task
\* of its processor.
QuietInv ==
    \A p \in Procs : pc[p] = "wait_global" =>
        /\ \A e \in entries : proc[e.t] # p
        /\ \A w \in Wakers : wake[w] # Awake => wake[w].on # p
-----------------------------------------------------------------------------
\* Taking the first or the last task of a queue leaves no other there.
LEMMA OnceTail ==
  ASSUME NEW q \in Seq(Tasks), q # <<>>, Once(q)
  PROVE  /\ Head(q) \in Tasks /\ Holds(q, Head(q)) /\ Once(Tail(q))
         /\ \A t \in Tasks : Holds(Tail(q), t) => Holds(q, t) /\ t # Head(q)
<1>1. /\ Len(q) \in Nat \ {0} /\ Head(q) = q[1] /\ q[1] \in Tasks /\ DOMAIN q = 1 .. Len(q)
      /\ DOMAIN Tail(q) = 1 .. Len(q) - 1
      /\ \A i \in 1 .. Len(q) - 1 : Tail(q)[i] = q[i + 1]
  OBVIOUS
<1>2. Once(Tail(q))
  BY <1>1 DEF Once
<1>3. ASSUME NEW t \in Tasks, Holds(Tail(q), t) PROVE Holds(q, t) /\ t # Head(q)
  <2>1. PICK i \in 1 .. Len(q) - 1 : q[i + 1] = t
    BY <1>1, <1>3 DEF Holds
  <2>2. i + 1 \in DOMAIN q /\ 1 \in DOMAIN q /\ i + 1 # 1
    BY <1>1
  <2>3. QED BY <1>1, <2>1, <2>2 DEF Holds, Once
<1>4. Holds(q, Head(q))
  BY <1>1 DEF Holds
<1>5. QED BY <1>1, <1>2, <1>3, <1>4

LEMMA OnceFront ==
  ASSUME NEW q \in Seq(Tasks), q # <<>>, Once(q)
  PROVE  LET f == SubSeq(q, 1, Len(q) - 1)
         IN  /\ q[Len(q)] \in Tasks /\ Holds(q, q[Len(q)]) /\ Once(f)
             /\ \A t \in Tasks : Holds(f, t) => Holds(q, t) /\ t # q[Len(q)]
<1> DEFINE f == SubSeq(q, 1, Len(q) - 1)
<1>1. /\ Len(q) \in Nat \ {0} /\ q[Len(q)] \in Tasks /\ DOMAIN q = 1 .. Len(q)
      /\ DOMAIN f = 1 .. Len(q) - 1
      /\ \A i \in 1 .. Len(q) - 1 : f[i] = q[i]
  OBVIOUS
<1> HIDE DEF f
<1>2. Once(f)
  BY <1>1 DEF Once
<1>3. ASSUME NEW t \in Tasks, Holds(f, t) PROVE Holds(q, t) /\ t # q[Len(q)]
  <2>1. PICK i \in 1 .. Len(q) - 1 : q[i] = t
    BY <1>1, <1>3 DEF Holds
  <2>2. Len(q) \in Nat \ {0} /\ DOMAIN q = 1 .. Len(q)
    BY <1>1
  <2>3. i \in DOMAIN q /\ Len(q) \in DOMAIN q /\ i # Len(q)
    <3>1. \A n \in Nat \ {0} : \A j \in 1 .. n - 1 : j \in 1 .. n /\ n \in 1 .. n /\ j # n
      OBVIOUS
    <3>2. QED BY <2>2, <3>1
  <2>4. QED BY <1>1, <2>1, <2>3 DEF Holds, Once
<1>4. Holds(q, q[Len(q)])
  BY <1>1 DEF Holds
<1>5. QED BY <1>1, <1>2, <1>3, <1>4 DEF f

\* Appending a task that is not there adds it and nothing else.
LEMMA OnceAppend ==
  ASSUME NEW q \in Seq(Tasks), NEW t \in Tasks
  PROVE  /\ \A u \in Tasks : Holds(Append(q, t), u) => Holds(q, u) \/ u = t
         /\ Once(q) /\ ~Holds(q, t) => Once(Append(q, t))
<1> DEFINE a == Append(q, t)
<1>1. /\ Len(q) \in Nat /\ DOMAIN q = 1 .. Len(q)
      /\ DOMAIN a = 1 .. Len(q) + 1
      /\ \A i \in 1 .. Len(q) : a[i] = q[i]
      /\ a[Len(q) + 1] = t
  OBVIOUS
<1> HIDE DEF a
<1>2. \A i \in DOMAIN a : (i \in DOMAIN q /\ a[i] = q[i]) \/ (i = Len(q) + 1 /\ a[i] = t)
  BY <1>1
<1>3. \A u \in Tasks : Holds(a, u) => Holds(q, u) \/ u = t
  BY <1>2 DEF Holds
<1>4. Once(q) /\ ~Holds(q, t) => Once(a)
  BY <1>2 DEF Holds, Once
<1>5. QED BY <1>3, <1>4 DEF a

\* The step of a task t, which is then in the place <<m, x>> at most, while no
\* other task gets a new place.
LEMMA StepOfOne ==
  ASSUME PlaceInv, TypeInv', OnceInv',
         NEW t \in Tasks, NEW m \in Kinds, NEW x \in Where,
         \A u \in Tasks, k \in Kinds, y \in Where :
            Sits(u, k, y)' => IF u = t THEN k = m /\ y = x ELSE Sits(u, k, y),
         \A q \in Procs : cur'[q] # None =>
            \/ /\ cur'[q] = cur[q] /\ cur[q] # t
               /\ pc[q] \in {"block", "switch"} => pc'[q] \in {"block", "switch"}
            \/ /\ cur'[q] = t /\ proc'[t] = q
               /\ Sits(t, m, x)' => pc'[q] \in {"block", "switch"} /\ OwnPlace(q, m, x)',
         \A u \in Tasks : u # t => status'[u] = status[u] /\ proc'[u] = proc[u],
         status'[t] \in {"none", "dead"} => ~Sits(t, m, x)' /\ \A q \in Procs : cur'[q] # t,
         \A w \in Wakers : wake[w].step = "push" => wake'[w].on = wake[w].on
  PROVE  PlaceInv'
<1>1. \A q \in Procs : cur[q] \in Tasks \cup {None} /\ cur'[q] \in Tasks \cup {None}
  BY DEF PlaceInv, TypeInv, TypeOK
<1>2. Single'
  BY DEF PlaceInv, Single
<1>3. LeavingInv'
  <2> SUFFICES ASSUME NEW u \in Tasks, NEW q \in Procs, NEW k \in Kinds, NEW y \in Where,
                      cur'[q] = u, Sits(u, k, y)'
               PROVE  pc'[q] \in {"block", "switch"} /\ OwnPlace(q, k, y)'
    BY DEF LeavingInv
  <2>1. CASE u = t
    BY <2>1, ProcessorAssumption
  <2>2. CASE u # t
    <3>1. /\ cur[q] = u
          /\ pc[q] \in {"block", "switch"} => pc'[q] \in {"block", "switch"}
      BY <2>2, ProcessorAssumption
    <3>2. Sits(u, k, y)
      BY <2>2
    <3>3. pc[q] \in {"block", "switch"} /\ OwnPlace(q, k, y)
      BY <3>1, <3>2 DEF PlaceInv, LeavingInv
    <3>4. OwnPlace(q, k, y)'
      <4>1. CASE k = "push"
        <5>1. y \in Wakers /\ wake[y].step = "push"
          BY <3>2, <4>1 DEF Sits
        <5>2. QED BY <3>3, <4>1, <5>1 DEF OwnPlace
      <4>2. CASE k # "push"
        BY <3>3, <4>2 DEF OwnPlace
      <4>3. QED BY <4>1, <4>2
    <3>5. QED BY <3>1, <3>3, <3>4
  <2>3. QED BY <2>1, <2>2
<1>4. HomeInv'
  BY <1>1 DEF PlaceInv, HomeInv
<1>5. GoneInv'
  <2> SUFFICES ASSUME NEW u \in Tasks, status'[u] \in {"none", "dead"}
               PROVE  /\ \A k \in Kinds, y \in Where : ~Sits(u, k, y)'
                      /\ \A p \in Procs : cur'[p] # u
    BY DEF GoneInv
  <2>1. CASE u = t
    BY <2>1
  <2>2. CASE u # t
    <3>1. /\ \A k \in Kinds, y \in Where : ~Sits(u, k, y)
          /\ \A p \in Procs : cur[p] # u
      BY <2>2 DEF PlaceInv, GoneInv
    <3>2. QED BY <2>2, <3>1, ProcessorAssumption
  <2>3. QED BY <2>1, <2>2
<1>6. QED BY <1>2, <1>3, <1>4, <1>5 DEF PlaceInv

\* A step in which no task gets a place, or a thread.
LEMMA StepOfNone ==
  ASSUME PlaceInv, TypeInv', OnceInv',
         \A u \in Tasks, k \in Kinds, y \in Where : Sits(u, k, y)' => Sits(u, k, y),
         \A q \in Procs : cur'[q] # None =>
            /\ cur'[q] = cur[q]
            /\ pc[q] \in {"block", "switch"} => pc'[q] \in {"block", "switch"},
         UNCHANGED proc,
         \A u \in Tasks : status'[u] \in {"none", "dead"} => status[u] \in {"none", "dead"},
         \A w \in Wakers : wake[w].step = "push" => wake'[w].on = wake[w].on
  PROVE  PlaceInv'
<1>1. \A q \in Procs : cur[q] \in Tasks \cup {None} /\ cur'[q] \in Tasks \cup {None}
  BY DEF PlaceInv, TypeInv, TypeOK
<1>2. Single'
  BY DEF PlaceInv, Single
<1>3. LeavingInv'
  <2> SUFFICES ASSUME NEW u \in Tasks, NEW q \in Procs, NEW k \in Kinds, NEW y \in Where,
                      cur'[q] = u, Sits(u, k, y)'
               PROVE  pc'[q] \in {"block", "switch"} /\ OwnPlace(q, k, y)'
    BY DEF LeavingInv
  <2>1. /\ cur[q] = u /\ Sits(u, k, y)
        /\ pc[q] \in {"block", "switch"} => pc'[q] \in {"block", "switch"}
    BY ProcessorAssumption
  <2>2. pc[q] \in {"block", "switch"} /\ OwnPlace(q, k, y)
    BY <2>1 DEF PlaceInv, LeavingInv
  <2>3. k = "push" => y \in Wakers /\ wake[y].step = "push"
    BY <2>1 DEF Sits
  <2>4. QED BY <2>1, <2>2, <2>3 DEF OwnPlace
<1>4. HomeInv'
  BY DEF PlaceInv, HomeInv
<1>5. GoneInv'
  BY <1>1, ProcessorAssumption DEF PlaceInv, GoneInv
<1>6. QED BY <1>2, <1>3, <1>4, <1>5 DEF PlaceInv

\* The task t leaves the place <<l, z>>, its only one; it is then at most in the
\* place <<m, x>>, and the others are where they were.
LEMMA Footprint ==
  ASSUME Single, NEW t \in Tasks, NEW l \in Kinds, NEW z \in Where, NEW m \in Kinds, NEW x \in Where,
         \A u \in Tasks, k \in Kinds, y \in Where :
            Sits(u, k, y)' => Sits(u, k, y) \/ (u = t /\ k = m /\ y = x),
         Sits(t, l, z),
         Sits(t, l, z)' => l = m /\ z = x
  PROVE  \A u \in Tasks, k \in Kinds, y \in Where :
            Sits(u, k, y)' => IF u = t THEN k = m /\ y = x ELSE Sits(u, k, y)
BY DEF Single

\* A step that leaves the queues, the hands, the entries and the wakers alone.
LEMMA StayPlace ==
  ASSUME PlaceInv, TypeInv', UNCHANGED <<wakeup, yieldq, ready, hand, wake, global, entries, proc>>,
         \A q \in Procs : cur'[q] # None =>
            /\ cur'[q] = cur[q]
            /\ pc[q] \in {"block", "switch"} => pc'[q] \in {"block", "switch"},
         \A u \in Tasks : status'[u] \in {"none", "dead"} => status[u] \in {"none", "dead"}
  PROVE  PlaceInv'
<1>1. \A u \in Tasks, k \in Kinds, y \in Where : Sits(u, k, y)' => Sits(u, k, y)
  BY DEF Sits, Holds
<1>2. OnceInv'
  BY DEF PlaceInv, OnceInv, Once
<1>3. QED BY <1>1, <1>2, StepOfNone

LEMMA InitPlace == Init => PlaceInv
<1> SUFFICES ASSUME Init PROVE PlaceInv
  OBVIOUS
<1> USE ProcessorAssumption
<1>1. TypeInv
  BY InitType
<1>2. /\ \A p \in Procs : /\ wakeup[p] = <<>> /\ yieldq[p] = <<>> /\ ready[p] = <<>>
                          /\ hand[p] = None /\ cur[p] = None
      /\ \A w \in Wakers : wake[w].step = "no"
      /\ global = <<>> /\ entries = {}
  BY DEF Init, Awake
<1>3. \A t : ~Holds(<<>>, t)
  BY DEF Holds
<1>4. \A t \in Tasks, k \in Kinds, y \in Where : ~Sits(t, k, y)
  BY <1>2, <1>3 DEF Sits
<1>5. Once(<<>>)
  BY DEF Once
<1>6. OnceInv
  BY <1>2, <1>5 DEF OnceInv
<1>7. QED BY <1>1, <1>2, <1>4, <1>6 DEF PlaceInv, Single, LeavingInv, HomeInv, GoneInv

\* The queues a task is popped from hold each task once.
LEMMA QueueFacts ==
  ASSUME PlaceInv
  PROVE  /\ \A p \in Procs :
               /\ wakeup[p] \in Seq(Tasks) /\ yieldq[p] \in Seq(Tasks) /\ ready[p] \in Seq(Tasks)
               /\ Once(wakeup[p]) /\ Once(yieldq[p]) /\ Once(ready[p])
         /\ global \in Seq(Tasks) /\ Once(global)
         /\ Procs \subseteq Where /\ Procs \subseteq Wakers /\ Wakers \subseteq Where /\ None \in Where
BY DEF PlaceInv, TypeInv, TypeOK, OnceInv, Where, Wakers

\* A thread runs a task: the place it was in is empty.
LEMMA RunPlace == ASSUME PlaceInv, NEW p \in Procs, PopWakeup(p) \/ PopReady(p) PROVE PlaceInv'
<1>0. TypeInv'
  BY RunType DEF PlaceInv
<1>1. /\ cur[p] = None /\ pc \in [Procs -> PC] /\ cur \in [Procs -> Tasks \cup {None}]
      /\ wakeup \in [Procs -> Seq(Tasks)] /\ ready \in [Procs -> Seq(Tasks)]
      /\ proc \in [Tasks -> Procs \cup {None}]
  BY DEF PopWakeup, PopReady, PlaceInv, TypeInv, TypeOK
<1>2. UNCHANGED <<yieldq, global, hand, status, entries, wake>>
  BY DEF PopWakeup, PopReady, waking
\* Once t has been taken from its place, and nobody else got one.
<1>3. ASSUME NEW t \in Tasks, NEW l \in {"wakeup", "ready"}, RunTask(p, t), OnceInv',
             Sits(t, l, p), ~Sits(t, l, p)',
             \A u \in Tasks, k \in Kinds, y \in Where : Sits(u, k, y)' => Sits(u, k, y)
      PROVE  PlaceInv'
  <2>1. l \in Kinds /\ p \in Where
    BY DEF Kinds, Where
  <2>2. \A u \in Tasks, k \in Kinds, y \in Where :
           Sits(u, k, y)' => IF u = t THEN k = l /\ y = p ELSE Sits(u, k, y)
    <3>1. \A u \in Tasks, k \in Kinds, y \in Where :
             Sits(u, k, y)' => Sits(u, k, y) \/ (u = t /\ k = l /\ y = p)
      BY <1>3
    <3>2. Single
      BY DEF PlaceInv
    <3>3. QED BY <1>3, <2>1, <3>1, <3>2, Footprint
  <2>3. \A q \in Procs : cur[q] # t
    <3>1. ASSUME NEW q \in Procs, cur[q] = t PROVE FALSE
      <4>1. OwnPlace(q, l, p)
        BY <1>3, <2>1, <3>1 DEF PlaceInv, LeavingInv
      <4>2. p = q
        BY <4>1 DEF OwnPlace
      <4>3. QED BY <1>1, <3>1, <4>2, ProcessorAssumption
    <3>2. QED BY <3>1
  <2>4. status[t] \notin {"none", "dead"}
    BY <1>3, <2>1 DEF PlaceInv, GoneInv
  <2>5. /\ \A q \in Procs : cur'[q] = IF q = p THEN t ELSE cur[q]
        /\ \A q \in Procs : pc'[q] = IF q = p THEN "task" ELSE pc[q]
        /\ \A u \in Tasks : proc'[u] = IF u = t THEN p ELSE proc[u]
    BY <1>1, <1>3 DEF RunTask, Goto
  <2>6. \A q \in Procs : cur'[q] # None =>
            \/ /\ cur'[q] = cur[q] /\ cur[q] # t
               /\ pc[q] \in {"block", "switch"} => pc'[q] \in {"block", "switch"}
            \/ /\ cur'[q] = t /\ proc'[t] = q
               /\ Sits(t, l, p)' => pc'[q] \in {"block", "switch"} /\ OwnPlace(q, l, p)'
    BY <1>3, <2>3, <2>5
  <2>7. QED BY <1>0, <1>2, <1>3, <2>1, <2>2, <2>4, <2>5, <2>6, StepOfOne
<1>4. ASSUME UNCHANGED <<wakeup, ready, cur, proc>>, pc[p] \in {"top", "pop"},
             Goto(p, "pop") \/ Goto(p, "yield")
      PROVE  PlaceInv'
  BY <1>0, <1>1, <1>2, <1>4, StayPlace DEF Goto
<1>5. CASE PopWakeup(p) /\ wakeup[p] # <<>>
  <2>0. PICK t \in Tasks : t = Head(wakeup[p])
    BY <1>5, QueueFacts, OnceTail
  <2>1. /\ RunTask(p, t) /\ wakeup' = [wakeup EXCEPT ![p] = Tail(wakeup[p])] /\ ready' = ready
    BY <1>5, <2>0 DEF PopWakeup
  <2>2. /\ Holds(wakeup[p], t) /\ Once(Tail(wakeup[p]))
        /\ \A u \in Tasks : Holds(Tail(wakeup[p]), u) => Holds(wakeup[p], u) /\ u # t
    BY <1>5, <2>0, QueueFacts, OnceTail
  <2>3. \A q \in Procs : wakeup'[q] = IF q = p THEN Tail(wakeup[p]) ELSE wakeup[q]
    BY <1>1, <2>1
  <2>4. OnceInv'
    BY <1>2, <2>1, <2>2, <2>3 DEF PlaceInv, OnceInv
  <2>5. Sits(t, "wakeup", p) /\ ~Sits(t, "wakeup", p)'
    BY <2>2, <2>3 DEF Sits
  <2>6. \A u \in Tasks, k \in Kinds, y \in Where : Sits(u, k, y)' => Sits(u, k, y)
    BY <1>2, <2>1, <2>2, <2>3 DEF Sits
  <2>7. QED BY <1>3, <2>1, <2>2, <2>4, <2>5, <2>6
<1>6. CASE PopReady(p) /\ ready[p] # <<>>
  <2>0. PICK t \in Tasks : t = ready[p][Len(ready[p])]
    BY <1>6, QueueFacts, OnceFront
  <2> DEFINE f == SubSeq(ready[p], 1, Len(ready[p]) - 1)
  <2>1. /\ RunTask(p, t) /\ ready' = [ready EXCEPT ![p] = f] /\ wakeup' = wakeup
    BY <1>6, <2>0 DEF PopReady
  <2>2. /\ Holds(ready[p], t) /\ Once(f)
        /\ \A u \in Tasks : Holds(f, u) => Holds(ready[p], u) /\ u # t
    BY <1>6, <2>0, QueueFacts, OnceFront
  <2> HIDE DEF f
  <2>3. \A q \in Procs : ready'[q] = IF q = p THEN f ELSE ready[q]
    BY <1>1, <2>1
  <2>4. OnceInv'
    BY <1>2, <2>1, <2>2, <2>3 DEF PlaceInv, OnceInv
  <2>5. Sits(t, "ready", p) /\ ~Sits(t, "ready", p)'
    BY <2>2, <2>3 DEF Sits
  <2>6. \A u \in Tasks, k \in Kinds, y \in Where : Sits(u, k, y)' => Sits(u, k, y)
    BY <1>2, <2>1, <2>2, <2>3 DEF Sits
  <2>7. QED BY <1>3, <2>1, <2>2, <2>4, <2>5, <2>6
<1>7. CASE (PopWakeup(p) /\ wakeup[p] = <<>>) \/ (PopReady(p) /\ ready[p] = <<>>)
  BY <1>4, <1>7 DEF PopWakeup, PopReady
<1>8. QED BY <1>5, <1>6, <1>7

\* A thread in its loop moves t, or drops it, and nothing else.
LEMMA MoveOne ==
  ASSUME PlaceInv, TypeInv', OnceInv', NEW p \in Procs, pc[p] \in InLoop,
         \A q \in Procs : q # p => pc'[q] = pc[q],
         UNCHANGED <<cur, proc, status, wake>>,
         NEW t \in Tasks, NEW l \in Kinds, NEW z \in Where, NEW m \in {"ready", "hand"},
         l \in {"ready", "hand", "global"} \/ (l \in {"wakeup", "yield"} /\ z = p),
         \A u \in Tasks, k \in Kinds, y \in Where :
            Sits(u, k, y)' => Sits(u, k, y) \/ (u = t /\ k = m /\ y = p),
         Sits(t, l, z) /\ ~Sits(t, l, z)'
  PROVE  PlaceInv'
<1>0. m \in Kinds /\ p \in Where
  BY DEF Kinds, Where
<1>1. cur[p] = None
  BY DEF PlaceInv, TypeInv, TypeOK, InLoop
<1>2. \A q \in Procs : cur[q] # t
  BY <1>1, ProcessorAssumption DEF PlaceInv, LeavingInv, OwnPlace
<1>3. status[t] \notin {"none", "dead"}
  BY DEF PlaceInv, GoneInv
<1>4. \A u \in Tasks, k \in Kinds, y \in Where :
         Sits(u, k, y)' => IF u = t THEN k = m /\ y = p ELSE Sits(u, k, y)
  BY <1>0, Footprint DEF PlaceInv
<1>5. \A q \in Procs : cur'[q] # None => /\ cur'[q] = cur[q] /\ cur[q] # t
                                         /\ pc'[q] = pc[q]
  BY <1>1, <1>2
<1>6. QED BY <1>0, <1>3, <1>4, <1>5, StepOfOne

\* PushReady puts a task that is nowhere else in the ready queue, or drops it.
LEMMA PushReadyPlace ==
  ASSUME PlaceInv, NEW p \in Procs, NEW t \in Tasks, PushReady(p, t), ~Holds(ready[p], t)
  PROVE  /\ \A q \in Procs : Once(ready'[q])
         /\ \A q \in Procs, u \in Tasks :
               Holds(ready'[q], u) => Holds(ready[q], u) \/ (u = t /\ q = p)
<1>1. ready \in [Procs -> Seq(Tasks)] /\ ready[p] \in Seq(Tasks) /\ \A q \in Procs : Once(ready[q])
  BY DEF PlaceInv, TypeInv, TypeOK, OnceInv
<1>2. CASE skew[p]
  <2>1. ready' = [ready EXCEPT ![p] = ready[p]]
    BY <1>2 DEF PushReady
  <2>2. QED BY <1>1, <2>1
<1>3. CASE ~skew[p]
  <2>1. \A q \in Procs : ready'[q] = IF q = p THEN Append(ready[p], t) ELSE ready[q]
    BY <1>1, <1>3 DEF PushReady
  <2>2. QED BY <1>1, <2>1, OnceAppend
<1>4. QED BY <1>2, <1>3

\* Tasks that are moved from one place to another.
LEMMA MovePlace ==
  ASSUME PlaceInv, NEW p \in Procs,
         TakeYield(p) \/ StealOne(p) \/ PopGlobal(p) \/ Keep(p) \/ WaitWakeup(p) \/ WaitGlobal(p)
  PROVE  PlaceInv'
<1>0. TypeInv'
  BY MoveType DEF PlaceInv
<1>1. /\ pc \in [Procs -> PC] /\ cur \in [Procs -> Tasks \cup {None}]
      /\ hand \in [Procs -> Tasks \cup {None}]
      /\ wakeup \in [Procs -> Seq(Tasks)] /\ ready \in [Procs -> Seq(Tasks)]
      /\ yieldq \in [Procs -> Seq(Tasks)]
  BY DEF PlaceInv, TypeInv, TypeOK
<1>2. /\ pc[p] \in InLoop
      /\ \A q \in Procs : q # p => pc'[q] = pc[q]
      /\ UNCHANGED <<cur, proc, status, wake, entries>>
  BY <1>1 DEF TakeYield, StealOne, PopGlobal, Keep, WaitWakeup, WaitGlobal, TakeGlobal, Goto,
              InLoop, task, waking
<1>3. p \in Where /\ None \in Where /\ {"wakeup", "yield", "ready", "hand", "global"} \subseteq Kinds
  BY DEF Where, Kinds
<1>14. ASSUME NEW t \in Tasks, NEW l \in Kinds, NEW z \in Where, NEW m \in {"ready", "hand"}, OnceInv',
              l \in {"ready", "hand", "global"} \/ (l \in {"wakeup", "yield"} /\ z = p),
              \A u \in Tasks, k \in Kinds, y \in Where :
                 Sits(u, k, y)' => Sits(u, k, y) \/ (u = t /\ k = m /\ y = p),
              Sits(t, l, z) /\ ~Sits(t, l, z)'
       PROVE  PlaceInv'
  BY <1>0, <1>2, <1>3, <1>14, MoveOne
<1>4. CASE UNCHANGED <<wakeup, yieldq, ready, hand, global>>
  <2>1. \A q \in Procs : cur'[q] # None =>
            cur'[q] = cur[q] /\ (pc[q] \in {"block", "switch"} => pc'[q] \in {"block", "switch"})
    BY <1>2 DEF InLoop
  <2>2. QED BY <1>0, <1>2, <1>4, <2>1, StayPlace
<1>5. CASE TakeYield(p) /\ yieldq[p] # <<>>
  <2>0. PICK t \in Tasks : t = Head(yieldq[p])
    BY <1>5, QueueFacts, OnceTail
  <2>1. /\ PushReady(p, t) /\ yieldq' = [yieldq EXCEPT ![p] = Tail(yieldq[p])]
        /\ UNCHANGED <<wakeup, global, hand>>
    BY <1>5, <2>0 DEF TakeYield
  <2>2. /\ Holds(yieldq[p], t) /\ Once(Tail(yieldq[p]))
        /\ \A u \in Tasks : Holds(Tail(yieldq[p]), u) => Holds(yieldq[p], u) /\ u # t
    BY <1>5, <2>0, QueueFacts, OnceTail
  <2>3. \A q \in Procs : yieldq'[q] = IF q = p THEN Tail(yieldq[p]) ELSE yieldq[q]
    BY <1>1, <2>1
  <2>4. Sits(t, "yield", p) /\ ~Sits(t, "yield", p)'
    BY <2>2, <2>3 DEF Sits
  <2>5. ~Holds(ready[p], t)
    <3>1. ~Sits(t, "ready", p)
      BY <1>3, <2>4 DEF PlaceInv, Single
    <3>2. QED BY <3>1 DEF Sits
  <2>6. /\ \A q \in Procs : Once(ready'[q])
        /\ \A q \in Procs, u \in Tasks : Holds(ready'[q], u) => Holds(ready[q], u) \/ (u = t /\ q = p)
    BY <2>1, <2>5, PushReadyPlace
  <2>7. OnceInv'
    BY <1>2, <2>1, <2>2, <2>3, <2>6 DEF PlaceInv, OnceInv
  <2>8. \A u \in Tasks, k \in Kinds, y \in Where :
           Sits(u, k, y)' => Sits(u, k, y) \/ (u = t /\ k = "ready" /\ y = p)
    BY <1>2, <2>1, <2>2, <2>3, <2>6 DEF Sits
  <2>9. QED BY <1>3, <1>14, <2>4, <2>7, <2>8
<1>6. CASE StealOne(p) /\ ~UNCHANGED <<ready, hand>>
  <2> DEFINE v == victim[p]
  <2>0. v \in Procs
    BY <1>6 DEF StealOne, PlaceInv, TypeInv, ReadyInv, VictimPC
  <2> HIDE DEF v
  <2>1. /\ ready[v] # <<>> /\ hand' = [hand EXCEPT ![p] = Head(ready[v])]
        /\ ready' = [ready EXCEPT ![v] = Tail(ready[v])]
        /\ UNCHANGED <<wakeup, global, yieldq>>
    BY <1>6 DEF StealOne, v
  <2>2. PICK t \in Tasks : t = Head(ready[v])
    BY <2>0, <2>1, QueueFacts, OnceTail
  <2>3. /\ Holds(ready[v], t) /\ Once(Tail(ready[v]))
        /\ \A u \in Tasks : Holds(Tail(ready[v]), u) => Holds(ready[v], u) /\ u # t
    BY <2>0, <2>1, <2>2, QueueFacts, OnceTail
  <2>4. /\ \A q \in Procs : hand'[q] = IF q = p THEN t ELSE hand[q]
    BY <1>1, <2>1, <2>2
  <2>5. PICK s \in Procs : s = v
    BY <2>0
  <2>6. \A q \in Procs : ready'[q] = IF q = s THEN Tail(ready[s]) ELSE ready[q]
    BY <1>1, <2>0, <2>1, <2>5
  <2>7. Sits(t, "ready", s) /\ ~Sits(t, "ready", s)'
    BY <2>3, <2>5, <2>6 DEF Sits
  <2>8. OnceInv'
    BY <1>2, <2>1, <2>3, <2>5, <2>6 DEF PlaceInv, OnceInv
  <2>9. \A u \in Tasks, k \in Kinds, y \in Where :
           Sits(u, k, y)' => Sits(u, k, y) \/ (u = t /\ k = "hand" /\ y = p)
    BY <1>2, <2>1, <2>3, <2>4, <2>5, <2>6 DEF Sits
  <2>10. s \in Where
    BY DEF Where
  <2>11. QED BY <1>3, <1>14, <2>7, <2>8, <2>9, <2>10
<1>7. CASE TakeGlobal(p) /\ UNCHANGED <<wakeup, yieldq, ready>>
  <2>0. PICK t \in Tasks : t = Head(global)
    BY <1>7, QueueFacts, OnceTail DEF TakeGlobal
  <2>1. hand' = [hand EXCEPT ![p] = t] /\ global' = Tail(global)
    BY <1>7, <2>0 DEF TakeGlobal
  <2>2. /\ Holds(global, t) /\ Once(Tail(global))
        /\ \A u \in Tasks : Holds(Tail(global), u) => Holds(global, u) /\ u # t
    BY <1>7, <2>0, QueueFacts, OnceTail DEF TakeGlobal
  <2>3. \A q \in Procs : hand'[q] = IF q = p THEN t ELSE hand[q]
    BY <1>1, <2>1
  <2>4. Sits(t, "global", None) /\ ~Sits(t, "global", None)'
    BY <2>1, <2>2 DEF Sits
  <2>5. OnceInv'
    BY <1>2, <1>7, <2>1, <2>2 DEF PlaceInv, OnceInv
  <2>6. \A u \in Tasks, k \in Kinds, y \in Where :
           Sits(u, k, y)' => Sits(u, k, y) \/ (u = t /\ k = "hand" /\ y = p)
    BY <1>2, <1>7, <2>1, <2>2, <2>3 DEF Sits
  <2>7. QED BY <1>3, <1>14, <2>4, <2>5, <2>6
<1>8. CASE Keep(p)
  <2>0. PICK t \in Tasks : t = hand[p]
    BY <1>8 DEF Keep, KeepPC, PlaceInv, TypeInv, ReadyInv
  <2>1. /\ PushReady(p, t) /\ hand' = [hand EXCEPT ![p] = None]
        /\ UNCHANGED <<wakeup, global, yieldq>>
    BY <1>8, <2>0 DEF Keep
  <2>2. \A q \in Procs : hand'[q] = IF q = p THEN None ELSE hand[q]
    BY <1>1, <2>1
  <2>3. Sits(t, "hand", p) /\ ~Sits(t, "hand", p)'
    BY <2>0, <2>2, ProcessorAssumption DEF Sits
  <2>4. ~Holds(ready[p], t)
    <3>1. ~Sits(t, "ready", p)
      BY <1>3, <2>3 DEF PlaceInv, Single
    <3>2. QED BY <3>1 DEF Sits
  <2>5. /\ \A q \in Procs : Once(ready'[q])
        /\ \A q \in Procs, u \in Tasks : Holds(ready'[q], u) => Holds(ready[q], u) \/ (u = t /\ q = p)
    BY <2>1, <2>4, PushReadyPlace
  <2>6. OnceInv'
    BY <1>2, <2>1, <2>5 DEF PlaceInv, OnceInv
  <2>7. \A u \in Tasks, k \in Kinds, y \in Where :
           Sits(u, k, y)' => Sits(u, k, y) \/ (u = t /\ k = "ready" /\ y = p)
    BY <1>2, <2>1, <2>2, <2>5, ProcessorAssumption DEF Sits
  <2>8. QED BY <1>3, <1>14, <2>3, <2>6, <2>7
<1>9. CASE WaitWakeup(p)
  <2>0. PICK t \in Tasks : t = Head(wakeup[p])
    BY <1>9, QueueFacts, OnceTail DEF WaitWakeup
  <2>1. /\ hand' = [hand EXCEPT ![p] = t] /\ wakeup' = [wakeup EXCEPT ![p] = Tail(wakeup[p])]
        /\ UNCHANGED <<ready, global, yieldq>>
    BY <1>9, <2>0 DEF WaitWakeup, deques
  <2>2. /\ Holds(wakeup[p], t) /\ Once(Tail(wakeup[p]))
        /\ \A u \in Tasks : Holds(Tail(wakeup[p]), u) => Holds(wakeup[p], u) /\ u # t
    BY <1>9, <2>0, QueueFacts, OnceTail DEF WaitWakeup
  <2>3. /\ \A q \in Procs : hand'[q] = IF q = p THEN t ELSE hand[q]
        /\ \A q \in Procs : wakeup'[q] = IF q = p THEN Tail(wakeup[p]) ELSE wakeup[q]
    BY <1>1, <2>1
  <2>4. Sits(t, "wakeup", p) /\ ~Sits(t, "wakeup", p)'
    BY <2>2, <2>3 DEF Sits
  <2>5. OnceInv'
    BY <1>2, <2>1, <2>2, <2>3 DEF PlaceInv, OnceInv
  <2>6. \A u \in Tasks, k \in Kinds, y \in Where :
           Sits(u, k, y)' => Sits(u, k, y) \/ (u = t /\ k = "hand" /\ y = p)
    BY <1>2, <2>1, <2>2, <2>3 DEF Sits
  <2>7. QED BY <1>3, <1>14, <2>4, <2>5, <2>6
<1>10. CASE TakeYield(p)
  BY <1>4, <1>5, <1>10 DEF TakeYield, deques
<1>11. CASE StealOne(p)
  BY <1>4, <1>6, <1>11 DEF StealOne
<1>12. CASE PopGlobal(p) \/ WaitGlobal(p)
  BY <1>4, <1>7, <1>12 DEF PopGlobal, WaitGlobal, deques
<1>13. QED BY <1>8, <1>9, <1>10, <1>11, <1>12

\* A task that runs and has not begun to leave is nowhere else.
LEMMA RunningNowhere ==
  ASSUME PlaceInv, NEW p \in Procs, NEW t \in Tasks, cur[p] = t
  PROVE  /\ proc[t] = p /\ \A q \in Procs : cur[q] = t => q = p
         /\ pc[p] = "task" => \A k \in Kinds, y \in Where : ~Sits(t, k, y)
         /\ status[t] \notin {"none", "dead"}
BY ProcessorAssumption DEF PlaceInv, HomeInv, LeavingInv, GoneInv

LEMMA CreatePlace ==
  ASSUME PlaceInv, NEW p \in Procs, NEW t \in Tasks, Create(p, t)
  PROVE  PlaceInv'
<1>0. TypeInv'
  BY CallType DEF TaskStep, PlaceInv
<1>1. /\ p \in Where /\ None \in Where /\ {"ready", "global"} \subseteq Kinds
      /\ status \in [Tasks -> {"none", "ready", "suspend", "block", "dead"}]
  BY DEF Where, Kinds, PlaceInv, TypeInv, TypeOK
<1>2. /\ \A k \in Kinds, y \in Where : ~Sits(t, k, y)
      /\ \A q \in Procs : cur[q] # t
  BY <1>0 DEF Create, PlaceInv, GoneInv
<1>3. /\ status' = [status EXCEPT ![t] = "ready"]
      /\ UNCHANGED <<yieldq, wakeup, pc, cur, hand, proc, entries, wake>>
  BY DEF Create, thread, waking
<1>4. \A u \in Tasks : status'[u] = IF u = t THEN "ready" ELSE status[u]
  BY <1>1, <1>3
<1>5. ASSUME NEW m \in Kinds, NEW x \in Where, OnceInv',
             \A u \in Tasks, k \in Kinds, y \in Where :
                Sits(u, k, y)' => Sits(u, k, y) \/ (u = t /\ k = m /\ y = x)
      PROVE  PlaceInv'
  <2>1. \A u \in Tasks, k \in Kinds, y \in Where :
           Sits(u, k, y)' => IF u = t THEN k = m /\ y = x ELSE Sits(u, k, y)
    BY <1>2, <1>5
  <2>2. \A q \in Procs : cur'[q] = cur[q] /\ cur[q] # t /\ pc'[q] = pc[q]
    BY <1>2, <1>3
  <2>3. QED BY <1>0, <1>3, <1>4, <1>5, <2>1, <2>2, StepOfOne
<1>6. CASE PushReady(p, t) /\ UNCHANGED global
  <2>1. ~Holds(ready[p], t)
    BY <1>1, <1>2 DEF Sits
  <2>2. /\ \A q \in Procs : Once(ready'[q])
        /\ \A q \in Procs, u \in Tasks : Holds(ready'[q], u) => Holds(ready[q], u) \/ (u = t /\ q = p)
    BY <1>6, <2>1, PushReadyPlace
  <2>3. OnceInv'
    BY <1>3, <1>6, <2>2 DEF PlaceInv, OnceInv
  <2>4. \A u \in Tasks, k \in Kinds, y \in Where :
           Sits(u, k, y)' => Sits(u, k, y) \/ (u = t /\ k = "ready" /\ y = p)
    BY <1>3, <1>6, <2>2 DEF Sits
  <2>5. QED BY <1>1, <1>5, <2>3, <2>4
<1>7. CASE global' = Append(global, t) /\ UNCHANGED deques
  <2>1. ~Holds(global, t)
    BY <1>1, <1>2 DEF Sits
  <2>2. /\ Once(global')
        /\ \A u \in Tasks : Holds(global', u) => Holds(global, u) \/ u = t
    BY <1>7, <2>1, QueueFacts, OnceAppend
  <2>3. ready' = ready
    BY <1>7 DEF deques
  <2>4. OnceInv'
    BY <1>3, <2>2, <2>3 DEF PlaceInv, OnceInv
  <2>5. \A u \in Tasks, k \in Kinds, y \in Where :
           Sits(u, k, y)' => Sits(u, k, y) \/ (u = t /\ k = "global" /\ y = None)
    BY <1>3, <2>2, <2>3 DEF Sits
  <2>6. QED BY <1>1, <1>5, <2>4, <2>5
<1>8. QED BY <1>6, <1>7 DEF Create

\* The running task t gets the place <<m, x>>, its thread leaves it next.
LEMMA LeavePlace ==
  ASSUME PlaceInv, TypeInv', OnceInv', NEW p \in Procs, NEW t \in Tasks, cur[p] = t, pc[p] = "task",
         \A q \in Procs : q # p => pc'[q] = pc[q],
         pc'[p] \in {"block", "switch"},
         UNCHANGED <<cur, proc, wake>>,
         \A u \in Tasks : u # t => status'[u] = status[u],
         status'[t] \in {"ready", "suspend", "block"},
         NEW m \in Kinds, NEW x \in Where, OwnPlace(p, m, x)',
         \A u \in Tasks, k \in Kinds, y \in Where :
            Sits(u, k, y)' => Sits(u, k, y) \/ (u = t /\ k = m /\ y = x)
  PROVE  PlaceInv'
<1>1. \A u \in Tasks, k \in Kinds, y \in Where :
         Sits(u, k, y)' => IF u = t THEN k = m /\ y = x ELSE Sits(u, k, y)
  BY RunningNowhere
<1>2. \A q \in Procs : cur'[q] # None =>
         \/ /\ cur'[q] = cur[q] /\ cur[q] # t /\ pc'[q] = pc[q]
         \/ q = p /\ cur'[q] = t /\ proc'[t] = q
  BY RunningNowhere
<1>3. QED BY <1>1, <1>2, StepOfOne

LEMMA CallPlace == ASSUME PlaceInv, NEW p \in Procs, TaskStep(p) PROVE PlaceInv'
<1>0. TypeInv'
  BY CallType DEF PlaceInv
<1>1. /\ pc \in [Procs -> PC] /\ cur \in [Procs -> Tasks \cup {None}]
      /\ yieldq \in [Procs -> Seq(Tasks)]
      /\ status \in [Tasks -> {"none", "ready", "suspend", "block", "dead"}]
      /\ pc[p] \in {"task", "block", "switch"} => cur[p] \in Tasks
      /\ p \in Where /\ None \in Where /\ Kinds = {"wakeup", "yield", "ready", "hand", "push", "global", "entry"}
  BY DEF PlaceInv, TypeInv, TypeOK, Where, Kinds
<1>2. ASSUME NEW t \in Tasks, Create(p, t) PROVE PlaceInv'
  BY <1>2, CreatePlace
<1>3. CASE Yield(p)
  <2>0. PICK t \in Tasks : t = cur[p]
    BY <1>1, <1>3 DEF Yield, Free
  <2>1. /\ pc[p] = "task" /\ yieldq' = [yieldq EXCEPT ![p] = Append(yieldq[p], t)]
        /\ status' = [status EXCEPT ![t] = "suspend"] /\ pc' = [pc EXCEPT ![p] = "switch"]
        /\ UNCHANGED <<ready, wakeup, global, cur, hand, proc, entries, wake>>
    BY <1>3, <2>0 DEF Yield, Free, Leave, Goto, deques, waking
  <2>2. ~Holds(yieldq[p], t)
    <3>1. ~Sits(t, "yield", p)
      BY <1>1, <2>0, <2>1, RunningNowhere
    <3>2. QED BY <3>1 DEF Sits
  <2>3. \A q \in Procs : yieldq'[q] = IF q = p THEN Append(yieldq[p], t) ELSE yieldq[q]
    BY <1>1, <2>1
  <2>4. /\ Once(Append(yieldq[p], t))
        /\ \A u \in Tasks : Holds(Append(yieldq[p], t), u) => Holds(yieldq[p], u) \/ u = t
    BY <2>2, QueueFacts, OnceAppend
  <2>5. OnceInv'
    BY <2>1, <2>3, <2>4 DEF PlaceInv, OnceInv
  <2>6. \A u \in Tasks, k \in Kinds, y \in Where :
           Sits(u, k, y)' => Sits(u, k, y) \/ (u = t /\ k = "yield" /\ y = p)
    BY <2>1, <2>3, <2>4 DEF Sits
  <2>7. /\ \A q \in Procs : q # p => pc'[q] = pc[q]
        /\ pc'[p] \in {"block", "switch"}
        /\ \A u \in Tasks : u # t => status'[u] = status[u]
        /\ status'[t] \in {"ready", "suspend", "block"}
    BY <1>1, <2>1
  <2>8. UNCHANGED <<cur, proc, wake>> /\ pc[p] = "task" /\ cur[p] = t
        /\ p \in Where /\ "yield" \in Kinds /\ OwnPlace(p, "yield", p)'
    BY <1>1, <2>0, <2>1 DEF OwnPlace
  <2>9. QED BY <1>0, <2>5, <2>6, <2>7, <2>8, LeavePlace
<1>4. CASE Suspend(p)
  <2>0. PICK t \in Tasks : t = cur[p]
    BY <1>1, <1>4 DEF Suspend, Free
  <2>1. /\ pc[p] = "task" /\ entries' = entries \cup {EntryOf(t)} /\ EntryOf(t).t = t
        /\ pc' = [pc EXCEPT ![p] = "block"]
        /\ UNCHANGED <<ready, yieldq, wakeup, global, cur, hand, proc, status, wake>>
    BY <1>4, <2>0 DEF Suspend, Free, Goto, queues, deques, task, EntryOf
  <2>2. \A e \in entries : e.t # t
    <3>1. ~Sits(t, "entry", None)
      BY <1>1, <2>0, <2>1, RunningNowhere
    <3>2. QED BY <3>1 DEF Sits
  <2>3. OnceInv'
    BY <2>1, <2>2 DEF PlaceInv, OnceInv
  <2>4. \A u \in Tasks, k \in Kinds, y \in Where :
           Sits(u, k, y)' => Sits(u, k, y) \/ (u = t /\ k = "entry" /\ y = None)
    BY <2>1 DEF Sits
  <2>5. /\ \A q \in Procs : q # p => pc'[q] = pc[q]
        /\ pc'[p] = "block"
        /\ status'[t] \in {"ready", "suspend", "block"}
        /\ \A u \in Tasks : u # t => status'[u] = status[u]
    BY <1>1, <2>0, <2>1, RunningNowhere
  <2>6. UNCHANGED <<cur, proc, wake>> /\ cur[p] = t /\ OwnPlace(p, "entry", None)' /\ "entry" \in Kinds
    BY <2>0, <2>1 DEF OwnPlace, Kinds
  <2>7. QED BY <1>0, <1>1, <2>1, <2>3, <2>4, <2>5, <2>6, LeavePlace
<1>5. CASE Block(p)
  <2>1. /\ pc[p] = "block" /\ pc' = [pc EXCEPT ![p] = "switch"]
        /\ status' = [status EXCEPT ![cur[p]] = "block"] /\ cur[p] \in Tasks
        /\ UNCHANGED <<wakeup, yieldq, ready, hand, wake, global, entries, proc, cur>>
    BY <1>1, <1>5 DEF Block, Leave, Goto, queues, deques, waking
  <2>2. /\ \A q \in Procs : pc'[q] = IF q = p THEN "switch" ELSE pc[q]
        /\ \A u \in Tasks : status'[u] = status[u] \/ status'[u] = "block"
    BY <1>1, <2>1
  <2>3. QED BY <1>0, <2>1, <2>2, StayPlace
<1>6. CASE Switch(p)
  <2>1. /\ pc[p] = "switch" /\ pc' = [pc EXCEPT ![p] = "top"] /\ cur' = [cur EXCEPT ![p] = None]
        /\ UNCHANGED <<wakeup, yieldq, ready, hand, wake, global, entries, proc, status>>
    BY <1>6 DEF Switch, Goto, queues, deques, task, waking
  <2>2. /\ \A q \in Procs : pc'[q] = IF q = p THEN "top" ELSE pc[q]
        /\ \A q \in Procs : cur'[q] = IF q = p THEN None ELSE cur[q]
    BY <1>1, <2>1
  <2>3. QED BY <1>0, <2>1, <2>2, StayPlace
<1>7. CASE Finish(p)
  <2>0. PICK t \in Tasks : t = cur[p]
    BY <1>1, <1>7 DEF Finish, Free
  <2>1. /\ pc[p] = "task" /\ status' = [status EXCEPT ![t] = "dead"]
        /\ cur' = [cur EXCEPT ![p] = None]
        /\ \A q \in Procs : q # p => pc'[q] = pc[q]
        /\ UNCHANGED <<wakeup, yieldq, ready, hand, wake, global, entries, proc>>
    BY <1>1, <1>7, <2>0 DEF Finish, Free, Goto, queues, deques, waking
  <2>2. /\ \A k \in Kinds, y \in Where : ~Sits(t, k, y)
        /\ \A q \in Procs : cur[q] = t => q = p
    BY <2>0, <2>1, RunningNowhere
  <2>3. \A u \in Tasks, k \in Kinds, y \in Where : Sits(u, k, y)' => Sits(u, k, y)
    BY <2>1 DEF Sits
  <2>4. OnceInv'
    BY <2>1 DEF PlaceInv, OnceInv
  <2>5. /\ \A q \in Procs : cur'[q] = IF q = p THEN None ELSE cur[q]
        /\ \A u \in Tasks : status'[u] = IF u = t THEN "dead" ELSE status[u]
    BY <1>1, <2>1
  <2>6. \A u \in Tasks, k \in Kinds, y \in Where :
           Sits(u, k, y)' => IF u = t THEN k = "global" /\ y = None ELSE Sits(u, k, y)
    BY <2>2, <2>3
  <2>7. /\ \A q \in Procs : cur'[q] # None => cur'[q] = cur[q] /\ cur[q] # t /\ pc'[q] = pc[q]
        /\ ~Sits(t, "global", None)' /\ \A q \in Procs : cur'[q] # t
    BY <1>1, <2>1, <2>2, <2>3, <2>5, ProcessorAssumption
  <2>8. QED BY <1>0, <1>1, <2>1, <2>4, <2>5, <2>6, <2>7, StepOfOne, SMTT(30)
<1>8. QED BY <1>2, <1>3, <1>4, <1>5, <1>6, <1>7 DEF TaskStep

\* taskWakeup takes the task from its entry to the wakeup queue of its processor.
LEMMA WakePlace == ASSUME PlaceInv, NEW w \in Wakers, WakeStep(w) PROVE PlaceInv'
<1>0. TypeInv'
  BY WakeType DEF PlaceInv
<1>1. /\ wakeup \in [Procs -> Seq(Tasks)]
      /\ wake \in [Wakers -> {Awake} \cup [step : {"push", "dec"}, entry : Entry, on : Procs]]
      /\ w \in Where /\ None \in Where /\ {"wakeup", "push", "entry"} \subseteq Kinds
  BY DEF PlaceInv, TypeInv, TypeOK, Where, Wakers, Kinds
\* A task that moves from <<l, z>> to <<m, x>>, both of its own thread if it has one.
<1>2. ASSUME NEW t \in Tasks, NEW l \in Kinds, NEW z \in Where, NEW m \in Kinds, NEW x \in Where,
             OnceInv', UNCHANGED <<cur, pc, proc, status>>,
             \A v \in Wakers : wake[v].step = "push" => wake'[v].on = wake[v].on,
             \A u \in Tasks, k \in Kinds, y \in Where :
                Sits(u, k, y)' => Sits(u, k, y) \/ (u = t /\ k = m /\ y = x),
             Sits(t, l, z) /\ ~Sits(t, l, z)',
             \A q \in Procs : proc[t] = q /\ OwnPlace(q, l, z) => OwnPlace(q, m, x)'
      PROVE  PlaceInv'
  <2>1. \A u \in Tasks, k \in Kinds, y \in Where :
           Sits(u, k, y)' => IF u = t THEN k = m /\ y = x ELSE Sits(u, k, y)
    BY <1>2, Footprint DEF PlaceInv
  <2>2. status[t] \notin {"none", "dead"}
    BY <1>2 DEF PlaceInv, GoneInv
  <2>3. \A q \in Procs : cur'[q] # None =>
            \/ /\ cur'[q] = cur[q] /\ cur[q] # t
               /\ pc[q] \in {"block", "switch"} => pc'[q] \in {"block", "switch"}
            \/ /\ cur'[q] = t /\ proc'[t] = q
               /\ Sits(t, m, x)' => pc'[q] \in {"block", "switch"} /\ OwnPlace(q, m, x)'
    <3>1. ASSUME NEW q \in Procs, cur[q] = t
          PROVE  proc[t] = q /\ pc[q] \in {"block", "switch"} /\ OwnPlace(q, l, z)
      BY <1>2, <3>1, RunningNowhere DEF PlaceInv, LeavingInv
    <3>2. QED BY <1>2, <3>1
  <2>4. QED BY <1>0, <1>2, <2>1, <2>2, <2>3, StepOfOne
<1>3. ASSUME NEW e \in entries, TakeEntry(w, e) PROVE PlaceInv'
  <2>1. e \in Entry /\ e.t \in Tasks /\ proc[e.t] \in Procs
    BY DEF PlaceInv, TypeInv, TypeOK, ReadyInv, Entry
  <2>2. PICK t \in Tasks : t = e.t
    BY <2>1
  <2>3. /\ entries' = entries \ {e} /\ wake[w].step = "no"
        /\ wake' = [wake EXCEPT ![w] = [step |-> "push", entry |-> e, on |-> proc[t]]]
        /\ UNCHANGED <<wakeup, yieldq, ready, hand, global, pc, cur, proc, status>>
    BY <1>3, <2>2 DEF TakeEntry, queues, deques, thread, task, Awake
  <2>4. /\ \A v \in Wakers : v # w => wake'[v] = wake[v]
        /\ wake'[w].step = "push" /\ wake'[w].entry = e /\ wake'[w].on = proc[t]
    BY <1>1, <2>3
  <2>5. OnceInv'
    BY <2>3 DEF PlaceInv, OnceInv
  <2>6. Sits(t, "entry", None)
    BY <2>2 DEF Sits
  <2>7. ~Sits(t, "entry", None)'
    BY <2>2, <2>3 DEF Sits, PlaceInv, OnceInv
  <2>8. \A u \in Tasks, k \in Kinds, y \in Where :
           Sits(u, k, y)' => Sits(u, k, y) \/ (u = t /\ k = "push" /\ y = w)
    BY <2>2, <2>3, <2>4 DEF Sits
  <2>9. \A q \in Procs : proc[t] = q => OwnPlace(q, "push", w)'
    BY <2>4 DEF OwnPlace
  <2>10. \A v \in Wakers : wake[v].step = "push" => wake'[v].on = wake[v].on
    BY <2>3, <2>4
  <2>11. QED BY <1>1, <1>2, <2>3, <2>5, <2>6, <2>7, <2>8, <2>9, <2>10
<1>4. CASE WakePush(w)
  <2>1. /\ wake[w].step = "push" /\ Then(w, "dec")
        /\ UNCHANGED <<yieldq, ready, hand, global, pc, cur, proc, status, entries>>
    BY <1>4 DEF WakePush, deques, thread
  <2>2. /\ \A v \in Wakers : v # w => wake'[v] = wake[v]
        /\ wake'[w].step = "dec" /\ wake'[w].on = wake[w].on
    BY <2>1, ThenType DEF PlaceInv, TypeInv
  <2>3. wake[w].entry.t \in Tasks /\ wake[w].on \in Procs
    BY <2>1, WakerType DEF PlaceInv, TypeInv
  <2>4. PICK t \in Tasks, p \in Procs : t = wake[w].entry.t /\ p = wake[w].on
    BY <2>3
  <2>5. Sits(t, "push", w) /\ ~Sits(t, "push", w)'
    BY <2>1, <2>2, <2>4 DEF Sits
  <2>6. ~Holds(wakeup[p], t)
    <3>1. ~Sits(t, "wakeup", p)
      BY <1>1, <2>5, QueueFacts DEF PlaceInv, Single
    <3>2. QED BY <3>1 DEF Sits
  <2>7. /\ \A q \in Procs : Once(wakeup'[q])
        /\ \A q \in Procs, u \in Tasks : Holds(wakeup'[q], u) => Holds(wakeup[q], u) \/ (u = t /\ q = p)
    <3>1. CASE PushTo(w, p)
      <4>1. \A q \in Procs : wakeup'[q] = IF q = p THEN Append(wakeup[p], t) ELSE wakeup[q]
        BY <1>1, <2>4, <3>1 DEF PushTo
      <4>2. QED BY <2>6, <4>1, QueueFacts, OnceAppend
    <3>2. CASE wakeup' = wakeup
      BY <3>2, QueueFacts
    <3>3. QED BY <1>4, <2>4, <3>1, <3>2 DEF WakePush
  <2>8. OnceInv'
    BY <2>1, <2>7 DEF PlaceInv, OnceInv
  <2>9. \A u \in Tasks, k \in Kinds, y \in Where :
           Sits(u, k, y)' => Sits(u, k, y) \/ (u = t /\ k = "wakeup" /\ y = p)
    BY <2>1, <2>2, <2>7 DEF Sits
  <2>10. \A q \in Procs : OwnPlace(q, "push", w) => OwnPlace(q, "wakeup", p)'
    BY <2>4 DEF OwnPlace
  <2>11. p \in Where /\ \A v \in Wakers : wake[v].step = "push" => wake'[v].on = wake[v].on
    BY <2>2 DEF Where
  <2>12. QED BY <1>1, <1>2, <2>1, <2>5, <2>8, <2>9, <2>10, <2>11
<1>5. CASE WakeDec(w)
  <2>1. /\ wake[w].step = "dec" /\ Then(w, "no")
        /\ UNCHANGED <<wakeup, yieldq, ready, hand, global, pc, cur, proc, status, entries>>
    BY <1>5 DEF WakeDec, queues, deques, thread, task
  <2>2. /\ \A v \in Wakers : v # w => wake'[v] = wake[v]
        /\ wake'[w].step = "no"
    BY <2>1, ThenType DEF PlaceInv, TypeInv, Awake
  <2>3. \A u \in Tasks, k \in Kinds, y \in Where : Sits(u, k, y)' => Sits(u, k, y)
    BY <2>1, <2>2 DEF Sits
  <2>4. OnceInv'
    BY <2>1 DEF PlaceInv, OnceInv
  <2>5. \A v \in Wakers : wake[v].step = "push" => wake'[v].on = wake[v].on
    BY <2>1, <2>2
  <2>6. QED BY <1>0, <2>1, <2>3, <2>4, <2>5, StepOfNone
<1>6. QED BY <1>3, <1>4, <1>5 DEF WakeStep

LEMMA NextPlace == ASSUME PlaceInv, [Next]_vars PROVE PlaceInv'
<1>0. TypeInv'
  BY NextType DEF PlaceInv
<1>1. CASE (\E p \in Procs : Spawn(p)) \/ RunMain
  <2>1. /\ UNCHANGED <<wakeup, yieldq, ready, hand, wake, global, entries, proc, cur, status>>
        /\ \A q \in Procs : pc[q] \in {"block", "switch"} => pc'[q] \in {"block", "switch"}
    BY <1>1 DEF Spawn, RunMain, Goto, queues, deques, task, waking, PlaceInv, TypeInv, TypeOK
  <2>2. QED BY <1>0, <2>1, StayPlace
<1>2. ASSUME NEW p \in Procs, LoopStep(p) PROVE PlaceInv'
  <2>1. CASE FindArray(p) \/ PickVictim(p) \/ StealHalf(p) \/ Recheck(p) \/ CheckBlocks(p)
    <3>1. /\ UNCHANGED <<wakeup, yieldq, ready, hand, wake, global, entries, proc, cur, status>>
          /\ \A q \in Procs : pc[q] \in {"block", "switch"} => pc'[q] \in {"block", "switch"}
      BY <2>1 DEF FindArray, PickVictim, StealHalf, Recheck, CheckBlocks, Goto, queues, deques, task,
                  waking, PlaceInv, TypeInv, TypeOK
    <3>2. QED BY <1>0, <3>1, StayPlace
  <2>2. QED BY <1>2, <2>1, RunPlace, MovePlace DEF LoopStep
<1>3. ASSUME NEW p \in Procs, TaskStep(p) PROVE PlaceInv'
  BY <1>3, CallPlace
<1>4. ASSUME NEW w \in Wakers, WakeStep(w) PROVE PlaceInv'
  BY <1>4, WakePlace
<1>5. CASE UNCHANGED vars
  <2>1. UNCHANGED <<wakeup, yieldq, ready, hand, wake, global, entries, proc, cur, status, pc>>
    BY <1>5 DEF vars, queues, deques, thread, task, waking
  <2>2. QED BY <1>0, <2>1, StayPlace
<1>6. QED BY <1>1, <1>2, <1>3, <1>4, <1>5 DEF Next
-----------------------------------------------------------------------------
(* From the places of a kind to the seats *)

LEMMA WhereKinds ==
  /\ Procs \subseteq Where /\ Wakers \subseteq Where /\ None \in Where
  /\ {"wakeup", "yield", "ready", "hand", "push", "global", "entry"} \subseteq Kinds
BY DEF Where, Wakers, Kinds

\* The kind and the owner of a private seat, and of a shared one.
LEMMA PrivateSeat ==
  ASSUME NEW t \in Tasks, NEW s \in Private(t)
  PROVE  \/ \E p \in Procs : \E i \in In(wakeup[p], t) : s = <<"wakeup", p, i>> /\ Sits(t, "wakeup", p)
         \/ \E p \in Procs : \E i \in In(yieldq[p], t) : s = <<"yield", p, i>> /\ Sits(t, "yield", p)
         \/ \E e \in entries : e.t = t /\ s = <<"entry", proc[t], e.id>> /\ Sits(t, "entry", None)
         \/ \E w \in Wakers : /\ wake[w].step = "push" /\ s = <<"push", wake[w].on, w>>
                              /\ Sits(t, "push", w)
<1>1. CASE s \in UNION {{<<"wakeup", p, i>> : i \in In(wakeup[p], t)} : p \in Procs}
  <2>1. PICK p \in Procs : s \in {<<"wakeup", p, i>> : i \in In(wakeup[p], t)}
    BY <1>1
  <2>2. QED BY <2>1 DEF Sits, Holds, In
<1>2. CASE s \in UNION {{<<"yield", p, i>> : i \in In(yieldq[p], t)} : p \in Procs}
  <2>1. PICK p \in Procs : s \in {<<"yield", p, i>> : i \in In(yieldq[p], t)}
    BY <1>2
  <2>2. QED BY <2>1 DEF Sits, Holds, In
<1>3. CASE s \in {<<"entry", proc[t], e.id>> : e \in {e \in entries : e.t = t}}
  BY <1>3 DEF Sits
<1>4. CASE s \in {<<"push", wake[w].on, w>> : w \in {w \in Wakers : wake[w].step = "push" /\ wake[w].entry.t = t}}
  BY <1>4 DEF Sits
<1>5. QED BY <1>1, <1>2, <1>3, <1>4 DEF Private

LEMMA SharedSeat ==
  ASSUME NEW t \in Tasks, NEW s \in Shared(t)
  PROVE  \/ \E p \in Procs : \E i \in In(ready[p], t) : s = <<"ready", p, i>> /\ Sits(t, "ready", p)
         \/ \E i \in In(global, t) : s = <<"global", i>> /\ Sits(t, "global", None)
         \/ \E p \in Procs : s = <<"hand", p>> /\ Sits(t, "hand", p)
<1>1. CASE s \in UNION {{<<"ready", p, i>> : i \in In(ready[p], t)} : p \in Procs}
  <2>1. PICK p \in Procs : s \in {<<"ready", p, i>> : i \in In(ready[p], t)}
    BY <1>1
  <2>2. QED BY <2>1 DEF Sits, Holds, In
<1>2. CASE s \in {<<"global", i>> : i \in In(global, t)}
  BY <1>2 DEF Sits, Holds, In
<1>3. CASE s \in {<<"hand", p>> : p \in {p \in Procs : hand[p] = t}}
  BY <1>3 DEF Sits
<1>4. QED BY <1>1, <1>2, <1>3 DEF Shared

\* The seat of t in the place <<k, y>>: there is one only.
Seat(t, k, y) ==
    CASE k = "wakeup" -> <<k, y, CHOOSE i \in In(wakeup[y], t) : TRUE>>
      [] k = "yield" -> <<k, y, CHOOSE i \in In(yieldq[y], t) : TRUE>>
      [] k = "ready" -> <<k, y, CHOOSE i \in In(ready[y], t) : TRUE>>
      [] k = "global" -> <<k, CHOOSE i \in In(global, t) : TRUE>>
      [] k = "hand" -> <<k, y>>
      [] k = "entry" -> <<k, proc[t], (CHOOSE e \in entries : e.t = t).id>>
      [] k = "push" -> <<k, wake[y].on, y>>

LEMMA SeatOfPlace ==
  ASSUME PlaceInv, NEW t \in Tasks, NEW s \in Seats(t)
  PROVE  \E k \in Kinds, y \in Where : Sits(t, k, y) /\ s = Seat(t, k, y)
<1>1. ASSUME NEW q, Once(q), NEW i \in In(q, t) PROVE i = CHOOSE j \in In(q, t) : TRUE
  BY <1>1 DEF Once, In
<1>2. CASE s \in Private(t)
  <2>1. ASSUME NEW p \in Procs, NEW i \in In(wakeup[p], t), s = <<"wakeup", p, i>>
        PROVE  s = Seat(t, "wakeup", p)
    BY <1>1, <2>1, QueueFacts DEF Seat
  <2>2. ASSUME NEW p \in Procs, NEW i \in In(yieldq[p], t), s = <<"yield", p, i>>
        PROVE  s = Seat(t, "yield", p)
    BY <1>1, <2>2, QueueFacts DEF Seat
  <2>3. ASSUME NEW e \in entries, e.t = t, s = <<"entry", proc[t], e.id>>
        PROVE  s = Seat(t, "entry", None)
    <3>1. e = CHOOSE f \in entries : f.t = t
      BY <2>3 DEF PlaceInv, OnceInv
    <3>2. QED BY <2>3, <3>1 DEF Seat
  <2>4. ASSUME NEW w \in Wakers, s = <<"push", wake[w].on, w>> PROVE s = Seat(t, "push", w)
    BY <2>4 DEF Seat
  <2>5. QED BY <1>2, <2>1, <2>2, <2>3, <2>4, PrivateSeat, WhereKinds
<1>3. CASE s \in Shared(t)
  <2>1. ASSUME NEW p \in Procs, NEW i \in In(ready[p], t), s = <<"ready", p, i>>
        PROVE  s = Seat(t, "ready", p)
    BY <1>1, <2>1, QueueFacts DEF Seat
  <2>2. ASSUME NEW i \in In(global, t), s = <<"global", i>> PROVE s = Seat(t, "global", None)
    BY <1>1, <2>2, QueueFacts DEF Seat
  <2>3. ASSUME NEW p \in Procs, s = <<"hand", p>> PROVE s = Seat(t, "hand", p)
    BY <2>3 DEF Seat
  <2>4. QED BY <1>3, <2>1, <2>2, <2>3, SharedSeat, WhereKinds
<1>4. QED BY <1>2, <1>3 DEF Seats

LEMMA OneSeat ==
  ASSUME PlaceInv, NEW t \in Tasks
  PROVE  Cardinality(Seats(t)) \in {0, 1}
<1>1. \A r, s \in Seats(t) : r = s
  BY SeatOfPlace DEF PlaceInv, Single
<1>2. CASE Seats(t) = {}
  BY <1>2, FS_EmptySet
<1>3. CASE Seats(t) # {}
  <2>1. PICK s : Seats(t) = {s}
    BY <1>1, <1>3
  <2>2. QED BY <2>1, FS_Singleton
<1>4. QED BY <1>2, <1>3

LEMMA PlaceOnePlace == PlaceInv => OnePlace
<1> SUFFICES ASSUME PlaceInv, NEW t \in Tasks
             PROVE  /\ Cardinality(Seats(t)) <= 1
                    /\ \A p \in Procs : cur[p] = t =>
                         /\ Shared(t) = {}
                         /\ \A s \in Private(t) : s[2] = p /\ pc[p] \in {"block", "switch"}
                         /\ \A q \in Procs \ {p} : cur[q] # t
  BY DEF OnePlace
<1>1. Cardinality(Seats(t)) <= 1
  BY OneSeat
<1>2. ASSUME NEW p \in Procs, cur[p] = t
      PROVE  /\ Shared(t) = {}
             /\ \A s \in Private(t) : s[2] = p /\ pc[p] \in {"block", "switch"}
             /\ \A q \in Procs \ {p} : cur[q] # t
  <2>1. \A k \in Kinds, y \in Where : Sits(t, k, y) => pc[p] \in {"block", "switch"} /\ OwnPlace(p, k, y)
    BY <1>2 DEF PlaceInv, LeavingInv
  <2>2. proc[t] = p /\ \A q \in Procs \ {p} : cur[q] # t
    BY <1>2, RunningNowhere
  <2>3. Shared(t) = {}
    BY <2>1, SharedSeat, WhereKinds DEF OwnPlace
  <2>4. ASSUME NEW s \in Private(t) PROVE s[2] = p /\ pc[p] \in {"block", "switch"}
    <3>1. CASE \E q \in Procs : \E i \in In(wakeup[q], t) : s = <<"wakeup", q, i>> /\ Sits(t, "wakeup", q)
      BY <2>1, <3>1, WhereKinds DEF OwnPlace
    <3>2. CASE \E q \in Procs : \E i \in In(yieldq[q], t) : s = <<"yield", q, i>> /\ Sits(t, "yield", q)
      BY <2>1, <3>2, WhereKinds DEF OwnPlace
    <3>3. CASE \E e \in entries : e.t = t /\ s = <<"entry", proc[t], e.id>> /\ Sits(t, "entry", None)
      BY <2>1, <2>2, <3>3, WhereKinds DEF OwnPlace
    <3>4. CASE \E w \in Wakers : /\ wake[w].step = "push" /\ s = <<"push", wake[w].on, w>>
                                 /\ Sits(t, "push", w)
      BY <2>1, <3>4, WhereKinds DEF OwnPlace
    <3>5. QED BY <3>1, <3>2, <3>3, <3>4, PrivateSeat
  <2>5. QED BY <2>2, <2>3, <2>4
<1>3. QED BY <1>1, <1>2

LEMMA PlaceNoFreedTask == PlaceInv => NoFreedTask
<1> SUFFICES ASSUME PlaceInv, NEW t \in Tasks, status[t] = "dead"
             PROVE  Seats(t) = {} /\ \A p \in Procs : cur[p] # t
  BY DEF NoFreedTask
<1>1. /\ \A k \in Kinds, y \in Where : ~Sits(t, k, y)
      /\ \A p \in Procs : cur[p] # t
  BY DEF PlaceInv, GoneInv
<1>2. QED BY <1>1, SeatOfPlace

\* A task is in one queue, hand, entry or wakeup at a time, and nobody can enter
\* a context that is in use: a task that runs is only where its own thread will
\* take it, and only once it has begun to leave.
THEOREM TasksInOnePlace == Spec => []OnePlace
BY InitPlace, NextPlace, PlaceOnePlace, PTL DEF Spec

\* A task that runTask deleted is in no queue and runs on no thread.
THEOREM NoTaskAfterFree == Spec => []NoFreedTask
BY InitPlace, NextPlace, PlaceNoFreedTask, PTL DEF Spec
-----------------------------------------------------------------------------
(* The blocked tasks of a processor *)

LEMMA DivMod == ASSUME NEW w \in Nat \ {0}, NEW i \in Int
                PROVE  i \div w \in Int /\ i % w \in 0 .. w - 1 /\ i = w * (i \div w) + (i % w)
OBVIOUS

LEMMA Times == ASSUME NEW w \in Nat \ {0}, NEW d \in Int, d >= 1 PROVE w * d >= w
<1>1. PICK m \in Nat : d = m + 1
  <2>1. d - 1 \in Nat
    OBVIOUS
  <2>2. QED BY <2>1
<1>2. w * (m + 1) = w * m + w /\ w * m >= 0
  OBVIOUS
<1>3. QED BY <1>1, <1>2

\* There is one way to divide with a remainder.
LEMMA Remainder ==
  ASSUME NEW w \in Nat \ {0}, NEW i \in Int, NEW q \in Int, NEW r \in 0 .. w - 1, i = w * q + r
  PROVE  i % w = r
<1> DEFINE d == (i \div w) - q
           e == q - (i \div w)
<1>1. /\ d \in Int /\ e \in Int /\ (d >= 1 \/ e >= 1 \/ d = 0)
      /\ w * d = w * (i \div w) - w * q /\ w * e = w * q - w * (i \div w)
  BY DivMod
<1>2. w * d = r - (i % w) /\ w * e = (i % w) - r
  BY <1>1, DivMod
<1>3. i % w \in 0 .. w - 1
  BY DivMod
<1> HIDE DEF d, e
<1>4. ~(d >= 1)
  <2>1. d >= 1 => w * d >= w
    BY <1>1, Times
  <2>2. QED BY <1>2, <1>3, <2>1
<1>5. ~(e >= 1)
  <2>1. e >= 1 => w * e >= w
    BY <1>1, Times
  <2>2. QED BY <1>2, <1>3, <2>1
<1>6. d = 0 /\ w * 0 = 0
  BY <1>1, <1>4, <1>5
<1>7. QED BY <1>2, <1>3, <1>6

\* Counting modulo w: the next number, and the one before.
LEMMA NextModulo == ASSUME NEW w \in Nat \ {0}, NEW i \in Int
                    PROVE  ((i % w) + 1) % w = (i + 1) % w
<1> DEFINE r == i % w
           q == i \div w
<1>1. q \in Int /\ r \in 0 .. w - 1 /\ i = w * q + r
  BY DivMod
<1>2. w * (q + 1) = w * q + w /\ w * 0 = 0 /\ w * 1 = w
  BY <1>1
<1> HIDE DEF r, q
<1>3. CASE r + 1 < w
  <2>1. r + 1 \in 0 .. w - 1 /\ r + 1 \in Int /\ i + 1 \in Int /\ 0 \in Int
    BY <1>1, <1>3
  <2>2. (i + 1) % w = r + 1
    BY <1>1, <2>1, Remainder
  <2>3. (r + 1) % w = r + 1
    BY <1>2, <2>1, Remainder
  <2>4. QED BY <2>2, <2>3 DEF r
<1>4. CASE r + 1 = w
  <2>1. 0 \in 0 .. w - 1 /\ i + 1 \in Int /\ q + 1 \in Int /\ w \in Int /\ 1 \in Int
    BY <1>1
  <2>2. i + 1 = w * (q + 1) + 0 /\ w = w * 1 + 0
    BY <1>1, <1>2, <1>4
  <2>3. (i + 1) % w = 0
    BY <2>1, <2>2, Remainder
  <2>4. w % w = 0
    BY <2>1, <2>2, Remainder
  <2>5. QED BY <1>4, <2>3, <2>4 DEF r
<1>5. QED BY <1>1, <1>3, <1>4

LEMMA PreviousModulo == ASSUME NEW w \in Nat \ {0}, NEW i \in Int
                        PROVE  ((i % w) - 1) % w = (i - 1) % w
<1> DEFINE r == i % w
           q == i \div w
<1>1. q \in Int /\ r \in 0 .. w - 1 /\ i = w * q + r
  BY DivMod
<1>2. w * (q - 1) = w * q - w /\ w * 0 = 0 /\ w * (-1) = -w
  BY <1>1
<1> HIDE DEF r, q
<1>3. CASE r >= 1
  <2>1. r - 1 \in 0 .. w - 1 /\ r - 1 \in Int /\ i - 1 \in Int /\ 0 \in Int
    BY <1>1, <1>3
  <2>2. (i - 1) % w = r - 1
    BY <1>1, <2>1, Remainder
  <2>3. (r - 1) % w = r - 1
    BY <1>2, <2>1, Remainder
  <2>4. QED BY <2>2, <2>3 DEF r
<1>4. CASE r = 0
  <2>1. w - 1 \in 0 .. w - 1 /\ i - 1 \in Int /\ q - 1 \in Int /\ -1 \in Int
    BY <1>1
  <2>2. i - 1 = w * (q - 1) + (w - 1) /\ -1 = w * (-1) + (w - 1)
    BY <1>1, <1>2, <1>4
  <2>3. (i - 1) % w = w - 1
    BY <2>1, <2>2, Remainder
  <2>4. (-1) % w = w - 1
    BY <2>1, <2>2, Remainder
  <2>5. QED BY <1>4, <2>3, <2>4 DEF r
<1>5. QED BY <1>1, <1>3, <1>4

LEMMA SmallModulo == ASSUME NEW w \in Nat \ {0}, NEW i \in Nat, i < w, i % w = 0
                     PROVE  i = 0
OBVIOUS

\* What the two summands of Owed count.
EntriesOf(p) == {e \in entries : proc[e.t] = p}
WakersOn(p) == {w \in Wakers : wake[w] # Awake /\ wake[w].on = p}
Counted(p) == Owed(p) - IF pc[p] = "block" THEN 1 ELSE 0

CountInv == PlaceInv /\ IsFiniteSet(entries) /\ BlocksMatch

LEMMA OwedFinite ==
  ASSUME IsFiniteSet(entries), NEW p \in Procs
  PROVE  /\ IsFiniteSet(EntriesOf(p)) /\ IsFiniteSet(WakersOn(p))
         /\ Cardinality(EntriesOf(p)) \in Nat /\ Cardinality(WakersOn(p)) \in Nat
         /\ Owed(p) = Cardinality(EntriesOf(p)) + Cardinality(WakersOn(p))
         /\ Counted(p) \in Int
<1>1. IsFiniteSet(Wakers)
  BY ProcessorAssumption, FS_Union DEF Wakers
<1>2. EntriesOf(p) \in SUBSET entries /\ WakersOn(p) \in SUBSET Wakers
  BY DEF EntriesOf, WakersOn
<1>3. IsFiniteSet(EntriesOf(p)) /\ IsFiniteSet(WakersOn(p))
  BY <1>1, <1>2, FS_Subset
<1>4. Cardinality(EntriesOf(p)) \in Nat /\ Cardinality(WakersOn(p)) \in Nat
  BY <1>3, FS_CardinalityType
<1>5. Owed(p) = Cardinality(EntriesOf(p)) + Cardinality(WakersOn(p))
  BY DEF Owed, EntriesOf, WakersOn
<1>6. QED BY <1>3, <1>4, <1>5 DEF Counted

\* The sets of the other processors stay the same when one entry or waker
\* changes; this is what makes the counts of the others stay the same.
LEMMA SameCount ==
  ASSUME CountInv, NEW p \in Procs,
         EntriesOf(p)' = EntriesOf(p), WakersOn(p)' = WakersOn(p),
         pc'[p] = "block" <=> pc[p] = "block", blocks'[p] = blocks[p]
  PROVE  blocks'[p] = Counted(p)' % Wrap
<1>1. Owed(p)' = Owed(p)
  BY DEF Owed, EntriesOf, WakersOn
<1>2. blocks[p] = Counted(p) % Wrap
  BY DEF CountInv, BlocksMatch, Counted
<1>3. QED BY <1>1, <1>2 DEF Counted

LEMMA AllCounted ==
  ASSUME PlaceInv', IsFiniteSet(entries)', \A p \in Procs : blocks'[p] = Counted(p)' % Wrap
  PROVE  CountInv'
BY DEF CountInv, BlocksMatch, Counted

\* A step that does not count.
LEMMA NoCount ==
  ASSUME CountInv, PlaceInv', UNCHANGED <<entries, blocks>>,
         \A e \in entries : proc'[e.t] = proc[e.t],
         \A w \in Wakers : (wake'[w] # Awake <=> wake[w] # Awake) /\ wake'[w].on = wake[w].on,
         \A p \in Procs : pc'[p] = "block" <=> pc[p] = "block"
  PROVE  CountInv'
<1>1. ASSUME NEW p \in Procs PROVE blocks'[p] = Counted(p)' % Wrap
  <2>1. EntriesOf(p)' = EntriesOf(p) /\ WakersOn(p)' = WakersOn(p)
    BY DEF EntriesOf, WakersOn
  <2>2. QED BY <2>1, SameCount
<1>2. IsFiniteSet(entries)'
  BY DEF CountInv
<1>3. QED BY <1>1, <1>2, AllCounted

\* A task that is run out of a queue has no entry, so its new processor is no
\* entry's.
LEMMA RunEntries ==
  ASSUME PlaceInv, NEW p \in Procs, PopWakeup(p) \/ PopReady(p)
  PROVE  \A e \in entries : proc'[e.t] = proc[e.t]
<1>1. proc \in [Tasks -> Procs \cup {None}] /\ \A e \in entries : e.t \in Tasks
  BY DEF PlaceInv, TypeInv, TypeOK, Entry
<1>2. ASSUME NEW t \in Tasks, NEW l \in {"wakeup", "ready"}, RunTask(p, t), Sits(t, l, p)
      PROVE  \A e \in entries : proc'[e.t] = proc[e.t]
  <2>1. l \in Kinds /\ p \in Where /\ "entry" \in Kinds /\ None \in Where /\ l # "entry"
    BY DEF Kinds, Where
  <2>2. ~Sits(t, "entry", None)
    BY <1>2, <2>1 DEF PlaceInv, Single
  <2>3. \A e \in entries : e.t # t
    BY <2>2 DEF Sits
  <2>4. QED BY <1>1, <1>2, <2>3 DEF RunTask
<1>3. CASE PopWakeup(p) /\ wakeup[p] # <<>>
  <2>1. PICK t \in Tasks : t = Head(wakeup[p]) /\ Holds(wakeup[p], t)
    BY <1>3, QueueFacts, OnceTail
  <2>2. RunTask(p, t) /\ Sits(t, "wakeup", p)
    BY <1>3, <2>1 DEF PopWakeup, Sits
  <2>3. QED BY <1>2, <2>2
<1>4. CASE PopReady(p) /\ ready[p] # <<>>
  <2>1. PICK t \in Tasks : t = ready[p][Len(ready[p])] /\ Holds(ready[p], t)
    BY <1>4, QueueFacts, OnceFront
  <2>2. RunTask(p, t) /\ Sits(t, "ready", p)
    BY <1>4, <2>1 DEF PopReady, Sits
  <2>3. QED BY <1>2, <2>2
<1>5. CASE UNCHANGED proc
  BY <1>5
<1>6. QED BY <1>3, <1>4, <1>5 DEF PopWakeup, PopReady

LEMMA RunCount == ASSUME CountInv, NEW p \in Procs, PopWakeup(p) \/ PopReady(p) PROVE CountInv'
<1>1. PlaceInv /\ PlaceInv' /\ pc \in [Procs -> PC]
  BY RunPlace DEF CountInv, PlaceInv, TypeInv, TypeOK
<1>2. /\ UNCHANGED <<entries, wake, blocks>>
      /\ \A q \in Procs : pc'[q] = "block" <=> pc[q] = "block"
  BY <1>1 DEF PopWakeup, PopReady, RunTask, Goto, counters, waking
<1>3. \A e \in entries : proc'[e.t] = proc[e.t]
  BY <1>1, RunEntries
<1>4. QED BY <1>1, <1>2, <1>3, NoCount

\* getSuspendEntry and taskBlock: the entry is counted once the task is blocked.
LEMMA SuspendCount == ASSUME CountInv, NEW p \in Procs, Suspend(p) PROVE CountInv'
<1>0. PlaceInv /\ PlaceInv'
  BY CallPlace DEF CountInv, TaskStep
<1>1. PICK t \in Tasks : t = cur[p]
  BY <1>0 DEF PlaceInv, TypeInv, TypeOK, Suspend, Free
<1>2. /\ pc[p] = "task" /\ entries' = entries \cup {EntryOf(t)} /\ EntryOf(t).t = t
      /\ pc' = [pc EXCEPT ![p] = "block"]
      /\ UNCHANGED <<proc, wake, blocks>>
  BY <1>1 DEF Suspend, Free, Goto, counters, task, EntryOf
<1>3. proc[t] = p
  BY <1>0, <1>1, RunningNowhere
<1>4. EntryOf(t) \notin entries
  <2>1. ~Sits(t, "entry", None)
    BY <1>0, <1>1, <1>2, RunningNowhere, WhereKinds
  <2>2. QED BY <1>2, <2>1 DEF Sits
<1>5. \A q \in Procs : pc'[q] = IF q = p THEN "block" ELSE pc[q]
  BY <1>0, <1>2 DEF PlaceInv, TypeInv, TypeOK
<1>6. IsFiniteSet(entries) /\ IsFiniteSet(entries)'
  BY <1>2, FS_AddElement DEF CountInv
<1>7. ASSUME NEW q \in Procs PROVE blocks'[q] = Counted(q)' % Wrap
  <2>1. WakersOn(q)' = WakersOn(q)
    BY <1>2 DEF WakersOn
  <2>2. CASE q # p
    <3>1. EntriesOf(q)' = EntriesOf(q)
      BY <1>2, <1>3, <2>2 DEF EntriesOf
    <3>2. QED BY <1>2, <1>5, <2>1, <2>2, <3>1, SameCount
  <2>3. CASE q = p
    <3>1. EntriesOf(p)' = EntriesOf(p) \cup {EntryOf(t)} /\ EntryOf(t) \notin EntriesOf(p)
      BY <1>2, <1>3, <1>4 DEF EntriesOf
    <3>2. Cardinality(EntriesOf(p))' = Cardinality(EntriesOf(p)) + 1
      BY <1>6, <3>1, OwedFinite, FS_AddElement
    <3>3. Owed(p)' = Cardinality(EntriesOf(p))' + Cardinality(WakersOn(p))'
      BY DEF Owed, EntriesOf, WakersOn
    <3>4. Counted(p)' = Counted(p)
      BY <1>2, <1>5, <1>6, <2>1, <2>3, <3>2, <3>3, OwedFinite DEF Counted
    <3>5. blocks[p] = Counted(p) % Wrap
      BY DEF CountInv, BlocksMatch, Counted
    <3>6. QED BY <1>2, <2>3, <3>4, <3>5
  <2>4. QED BY <2>2, <2>3
<1>8. QED BY <1>0, <1>6, <1>7, AllCounted

LEMMA BlockCount == ASSUME CountInv, NEW p \in Procs, Block(p) PROVE CountInv'
<1>0. PlaceInv /\ PlaceInv'
  BY CallPlace DEF CountInv, TaskStep
<1>1. /\ pc[p] = "block" /\ blocks' = [blocks EXCEPT ![p] = (blocks[p] + 1) % Wrap]
      /\ pc' = [pc EXCEPT ![p] = "switch"]
      /\ UNCHANGED <<proc, wake, entries>>
  BY DEF Block, Leave, Goto, waking
<1>2. /\ \A q \in Procs : pc'[q] = IF q = p THEN "switch" ELSE pc[q]
      /\ \A q \in Procs : blocks'[q] = IF q = p THEN (blocks[p] + 1) % Wrap ELSE blocks[q]
  BY <1>0, <1>1 DEF PlaceInv, TypeInv, TypeOK
<1>3. IsFiniteSet(entries) /\ IsFiniteSet(entries)'
  BY <1>1 DEF CountInv
<1>4. ASSUME NEW q \in Procs PROVE blocks'[q] = Counted(q)' % Wrap
  <2>1. EntriesOf(q)' = EntriesOf(q) /\ WakersOn(q)' = WakersOn(q)
    BY <1>1 DEF EntriesOf, WakersOn
  <2>2. CASE q # p
    BY <1>2, <2>1, <2>2, SameCount
  <2>3. CASE q = p
    <3>1. Owed(p)' = Owed(p)
      BY <2>1, <2>3 DEF Owed, EntriesOf, WakersOn
    <3>2. Counted(p) \in Int /\ Counted(p)' = Counted(p) + 1
      <4>1. Counted(p) \in Int /\ Owed(p) \in Int
        BY <1>3, OwedFinite
      <4>2. Counted(p) = Owed(p) - 1 /\ Counted(p)' = Owed(p)' - 0
        BY <1>1, <1>2 DEF Counted
      <4>3. QED BY <3>1, <4>1, <4>2
    <3>3. blocks[p] = Counted(p) % Wrap
      BY DEF CountInv, BlocksMatch, Counted
    <3>4. blocks'[p] = ((Counted(p) % Wrap) + 1) % Wrap
      BY <1>2, <3>3
    <3>5. blocks'[p] = (Counted(p) + 1) % Wrap
      BY <3>2, <3>4, NextModulo, ProcessorAssumption
    <3>6. QED BY <2>3, <3>2, <3>5
  <2>4. QED BY <2>2, <2>3
<1>5. QED BY <1>0, <1>3, <1>4, AllCounted

\* taskWakeup: the entry becomes a waker's, and stays counted until it is done.
LEMMA TakeCount ==
  ASSUME CountInv, NEW w \in Wakers, NEW e \in entries, TakeEntry(w, e)
  PROVE  CountInv'
<1>0. PlaceInv /\ PlaceInv'
  BY WakePlace DEF CountInv, WakeStep
<1>1. /\ entries' = entries \ {e} /\ wake[w] = Awake
      /\ wake' = [wake EXCEPT ![w] = [step |-> "push", entry |-> e, on |-> proc[e.t]]]
      /\ UNCHANGED <<proc, pc, blocks>>
  BY DEF TakeEntry, counters, thread, task
<1>2. /\ \A v \in Wakers : v # w => wake'[v] = wake[v]
      /\ wake'[w].step = "push" /\ wake'[w].on = proc[e.t]
  BY <1>0, <1>1 DEF PlaceInv, TypeInv, TypeOK
<1>3. wake'[w] # Awake
  BY <1>2 DEF Awake
<1>4. IsFiniteSet(entries) /\ IsFiniteSet(entries)'
  BY <1>1, FS_RemoveElement DEF CountInv
<1>5. ASSUME NEW q \in Procs PROVE blocks'[q] = Counted(q)' % Wrap
  <2>1. CASE q # proc[e.t]
    <3>1. EntriesOf(q)' = EntriesOf(q)
      BY <1>1, <2>1 DEF EntriesOf
    <3>2. WakersOn(q)' = WakersOn(q)
      BY <1>1, <1>2, <2>1 DEF WakersOn
    <3>3. QED BY <1>1, <3>1, <3>2, SameCount
  <2>2. CASE q = proc[e.t]
    <3>1. EntriesOf(q)' = EntriesOf(q) \ {e} /\ e \in EntriesOf(q)
      BY <1>1, <2>2 DEF EntriesOf
    <3>2. WakersOn(q)' = WakersOn(q) \cup {w} /\ w \notin WakersOn(q)
      BY <1>1, <1>2, <1>3, <2>2 DEF WakersOn
    <3>3. Cardinality(EntriesOf(q))' = Cardinality(EntriesOf(q)) - 1
      BY <1>4, <3>1, OwedFinite, FS_RemoveElement
    <3>4. Cardinality(WakersOn(q))' = Cardinality(WakersOn(q)) + 1
      BY <1>4, <3>2, OwedFinite, FS_AddElement
    <3>5. Owed(q)' = Cardinality(EntriesOf(q))' + Cardinality(WakersOn(q))'
      BY DEF Owed, EntriesOf, WakersOn
    <3>6. Owed(q)' = Owed(q)
      BY <1>4, <3>3, <3>4, <3>5, OwedFinite
    <3>7. blocks[q] = Counted(q) % Wrap
      BY DEF CountInv, BlocksMatch, Counted
    <3>8. QED BY <1>1, <3>6, <3>7 DEF Counted
  <2>3. QED BY <2>1, <2>2
<1>6. QED BY <1>0, <1>4, <1>5, AllCounted

LEMMA DecCount == ASSUME CountInv, NEW w \in Wakers, WakeDec(w) PROVE CountInv'
<1>0. PlaceInv /\ PlaceInv'
  BY WakePlace DEF CountInv, WakeStep
<1>1. /\ wake[w].step = "dec" /\ Then(w, "no")
      /\ blocks' = [blocks EXCEPT ![wake[w].on] = (blocks[wake[w].on] - 1) % Wrap]
      /\ UNCHANGED <<proc, pc, entries>>
  BY DEF WakeDec, thread, task
<1>2. wake[w].on \in Procs /\ wake[w] # Awake
  BY <1>0, <1>1, WakerType DEF PlaceInv, TypeInv
<1>3. PICK p \in Procs : p = wake[w].on
  BY <1>2
<1>4. /\ \A v \in Wakers : v # w => wake'[v] = wake[v]
      /\ wake'[w] = Awake
  BY <1>0, <1>1, ThenType DEF PlaceInv, TypeInv
<1>5. \A q \in Procs : blocks'[q] = IF q = p THEN (blocks[p] - 1) % Wrap ELSE blocks[q]
  BY <1>0, <1>1, <1>3 DEF PlaceInv, TypeInv, TypeOK
<1>6. IsFiniteSet(entries) /\ IsFiniteSet(entries)'
  BY <1>1 DEF CountInv
<1>7. ASSUME NEW q \in Procs PROVE blocks'[q] = Counted(q)' % Wrap
  <2>1. EntriesOf(q)' = EntriesOf(q)
    BY <1>1 DEF EntriesOf
  <2>2. CASE q # p
    <3>1. WakersOn(q)' = WakersOn(q)
      BY <1>3, <1>4, <2>2 DEF WakersOn
    <3>2. QED BY <1>1, <1>5, <2>1, <2>2, <3>1, SameCount
  <2>3. CASE q = p
    <3>1. WakersOn(p)' = WakersOn(p) \ {w} /\ w \in WakersOn(p)
      BY <1>2, <1>3, <1>4 DEF WakersOn
    <3>2. Cardinality(WakersOn(p))' = Cardinality(WakersOn(p)) - 1
      BY <1>6, <3>1, OwedFinite, FS_RemoveElement
    <3>3. Owed(p)' = Cardinality(EntriesOf(p))' + Cardinality(WakersOn(p))'
      BY DEF Owed, EntriesOf, WakersOn
    <3>4. Owed(p)' = Owed(p) - 1 /\ Owed(p) \in Int
      BY <1>6, <2>1, <2>3, <3>2, <3>3, OwedFinite
    <3>5. Counted(p) \in Int /\ Counted(p)' = Counted(p) - 1
      BY <1>1, <1>6, <3>4, OwedFinite DEF Counted
    <3>6. blocks[p] = Counted(p) % Wrap
      BY DEF CountInv, BlocksMatch, Counted
    <3>7. blocks'[p] = ((Counted(p) % Wrap) - 1) % Wrap
      BY <1>5, <3>6
    <3>8. blocks'[p] = (Counted(p) - 1) % Wrap
      BY <3>5, <3>7, PreviousModulo, ProcessorAssumption
    <3>9. QED BY <2>3, <3>5, <3>8
  <2>4. QED BY <2>2, <2>3
<1>8. QED BY <1>0, <1>6, <1>7, AllCounted

LEMMA InitCount == Init => CountInv
<1> SUFFICES ASSUME Init PROVE CountInv
  OBVIOUS
<1>1. PlaceInv /\ entries = {} /\ IsFiniteSet(entries)
  BY InitPlace, FS_EmptySet DEF Init
<1>2. ASSUME NEW p \in Procs PROVE blocks[p] = Counted(p) % Wrap
  <2>1. EntriesOf(p) = {} /\ WakersOn(p) = {} /\ pc[p] # "block" /\ blocks[p] = 0
    BY DEF Init, EntriesOf, WakersOn
  <2>2. Counted(p) = 0
    BY <1>1, <2>1, OwedFinite, FS_EmptySet DEF Counted
  <2>3. 0 % Wrap = 0
    BY ProcessorAssumption
  <2>4. QED BY <2>1, <2>2, <2>3
<1>3. QED BY <1>1, <1>2 DEF CountInv, BlocksMatch, Counted

LEMMA NextCount == ASSUME CountInv, [Next]_vars PROVE CountInv'
<1>0. PlaceInv /\ PlaceInv' /\ pc \in [Procs -> PC]
  BY NextPlace DEF CountInv, PlaceInv, TypeInv, TypeOK
<1>1. ASSUME UNCHANGED <<entries, wake, proc, blocks>>,
             \A q \in Procs : pc'[q] = "block" <=> pc[q] = "block"
      PROVE  CountInv'
  BY <1>0, <1>1, NoCount
<1>2. CASE (\E p \in Procs : Spawn(p)) \/ RunMain
  <2>1. UNCHANGED <<entries, wake, proc, blocks>>
    BY <1>2 DEF Spawn, RunMain, counters, task, waking
  <2>2. \A q \in Procs : pc'[q] = "block" <=> pc[q] = "block"
    BY <1>0, <1>2 DEF Spawn, RunMain, Goto
  <2>3. QED BY <1>1, <2>1, <2>2
<1>3. ASSUME NEW p \in Procs, LoopStep(p) PROVE CountInv'
  <2>1. CASE PopWakeup(p) \/ PopReady(p)
    BY <2>1, RunCount
  <2>2. CASE \/ FindArray(p) \/ PickVictim(p) \/ StealHalf(p) \/ Recheck(p) \/ CheckBlocks(p)
             \/ TakeYield(p) \/ StealOne(p) \/ PopGlobal(p) \/ Keep(p) \/ WaitWakeup(p) \/ WaitGlobal(p)
    <3>1. UNCHANGED <<entries, wake, proc, blocks>>
      BY <2>2 DEF FindArray, PickVictim, StealHalf, Recheck, CheckBlocks, TakeYield, StealOne, PopGlobal,
                  Keep, WaitWakeup, WaitGlobal, counters, task, waking
    <3>2. \A q \in Procs : pc'[q] = "block" <=> pc[q] = "block"
      BY <1>0, <2>2 DEF FindArray, PickVictim, StealHalf, Recheck, CheckBlocks, TakeYield, StealOne,
                  PopGlobal, Keep, WaitWakeup, WaitGlobal, TakeGlobal, Goto
    <3>3. QED BY <1>1, <3>1, <3>2
  <2>3. QED BY <1>3, <2>1, <2>2 DEF LoopStep
<1>4. ASSUME NEW p \in Procs, TaskStep(p) PROVE CountInv'
  <2>1. CASE Suspend(p)
    BY <2>1, SuspendCount
  <2>2. CASE Block(p)
    BY <2>2, BlockCount
  <2>3. CASE (\E t \in Tasks : Create(p, t)) \/ Yield(p) \/ Switch(p) \/ Finish(p)
    <3>1. UNCHANGED <<entries, wake, proc, blocks>>
      BY <2>3 DEF Create, Yield, Switch, Finish, counters, task, waking
    <3>2. \A q \in Procs : pc'[q] = "block" <=> pc[q] = "block"
      BY <1>0, <2>3 DEF Create, Yield, Switch, Finish, Free, Leave, thread, Goto
    <3>3. QED BY <1>1, <3>1, <3>2
  <2>4. QED BY <1>4, <2>1, <2>2, <2>3 DEF TaskStep
<1>5. ASSUME NEW w \in Wakers, WakeStep(w) PROVE CountInv'
  <2>1. CASE \E e \in entries : TakeEntry(w, e)
    BY <2>1, TakeCount
  <2>2. CASE WakeDec(w)
    BY <2>2, DecCount
  <2>3. CASE WakePush(w)
    <3>1. /\ wake[w].step = "push" /\ Then(w, "dec")
          /\ UNCHANGED <<entries, proc, blocks, pc>>
      BY <2>3 DEF WakePush, counters, thread
    <3>2. /\ \A v \in Wakers : v # w => wake'[v] = wake[v]
          /\ wake'[w].step = "dec" /\ wake'[w].on = wake[w].on
      BY <1>0, <3>1, ThenType DEF PlaceInv, TypeInv
    <3>3. wake[w] # Awake /\ wake'[w] # Awake
      BY <3>1, <3>2 DEF Awake
    <3>4. \A v \in Wakers : (wake'[v] # Awake <=> wake[v] # Awake) /\ wake'[v].on = wake[v].on
      BY <3>2, <3>3
    <3>5. QED BY <1>0, <3>1, <3>4, NoCount
  <2>4. QED BY <1>5, <2>1, <2>2, <2>3 DEF WakeStep
<1>6. CASE UNCHANGED vars
  BY <1>1, <1>6 DEF vars, counters, thread, task, waking
<1>7. QED BY <1>2, <1>3, <1>4, <1>5, <1>6 DEF Next

\* m_blocks loses no increment and no decrement, however wakers and the tasks of
\* a processor interleave: modulo Wrap it is the number of suspensions that are
\* not woken up completely, less the one that is about to be counted.
THEOREM BlocksCount == Spec => []BlocksMatch
<1>1. CountInv => BlocksMatch
  BY DEF CountInv
<1>2. QED BY <1>1, InitCount, NextCount, PTL DEF Spec
-----------------------------------------------------------------------------
(* The wait on the global queue *)

\* m_blocks, a size_t, has room for every task and every thread.
RoomToCount == IsFiniteSet(Tasks) /\ Cardinality(Tasks) + Cardinality(Wakers) < Wrap

LEMMA OwedRoom ==
  ASSUME CountInv, RoomToCount, NEW p \in Procs
  PROVE  Owed(p) \in Nat /\ Owed(p) < Wrap
<1>0. IsFiniteSet(entries)
  BY DEF CountInv
<1>1. Cardinality(EntriesOf(p)) <= Cardinality(Tasks)
  <2> DEFINE f == [e \in EntriesOf(p) |-> e.t]
  <2>1. \A e \in EntriesOf(p) : e \in entries /\ e.t \in Tasks
    BY DEF EntriesOf, CountInv, PlaceInv, TypeInv, TypeOK, Entry
  <2>2. \A d, e \in EntriesOf(p) : f[d] = f[e] => d = e
    BY <2>1 DEF CountInv, PlaceInv, OnceInv
  <2>3. f \in Injection(EntriesOf(p), Tasks)
    BY <2>1, <2>2 DEF Injection, IsInjective
  <2>4. QED BY <2>3, FS_Injection DEF RoomToCount
<1>2. IsFiniteSet(Wakers)
  BY ProcessorAssumption, FS_Union DEF Wakers
<1>3. Cardinality(WakersOn(p)) <= Cardinality(Wakers)
  <2>1. WakersOn(p) \in SUBSET Wakers
    BY DEF WakersOn
  <2>2. QED BY <1>2, <2>1, FS_Subset
<1>4. Cardinality(Wakers) \in Nat /\ Cardinality(Tasks) \in Nat
  BY <1>2, FS_CardinalityType DEF RoomToCount
<1>5. QED BY <1>0, <1>1, <1>3, <1>4, OwedFinite, ProcessorAssumption DEF RoomToCount

\* A processor gets an entry when its own task suspends, and a waker when
\* somebody takes one of its entries.
LEMMA OwedSteps ==
  ASSUME PlaceInv, [Next]_vars
  PROVE  /\ \A e \in entries' : \/ e \in entries /\ proc'[e.t] = proc[e.t]
                                \/ \E q \in Procs : pc[q] = "task" /\ proc'[e.t] = q
         /\ \A w \in Wakers : wake'[w] # Awake =>
               \/ wake[w] # Awake /\ wake'[w].on = wake[w].on
               \/ \E e \in entries : wake'[w].on = proc[e.t]
<1>0. wake \in [Wakers -> {Awake} \cup [step : {"push", "dec"}, entry : Entry, on : Procs]] /\ TypeOK
  BY DEF PlaceInv, TypeInv, TypeOK
<1> DEFINE E == \A e \in entries' : \/ e \in entries /\ proc'[e.t] = proc[e.t]
                                    \/ \E q \in Procs : pc[q] = "task" /\ proc'[e.t] = q
           W == \A w \in Wakers : wake'[w] # Awake =>
                   \/ wake[w] # Awake /\ wake'[w].on = wake[w].on
                   \/ \E e \in entries : wake'[w].on = proc[e.t]
<1>1. CASE UNCHANGED <<entries, proc, wake>>
  BY <1>1
<1>2. CASE (\E p \in Procs : Spawn(p)) \/ RunMain \/ UNCHANGED vars
  BY <1>1, <1>2 DEF Spawn, RunMain, vars, task, waking
<1>3. ASSUME NEW p \in Procs, LoopStep(p) PROVE E /\ W
  <2>1. CASE PopWakeup(p) \/ PopReady(p)
    <3>1. \A e \in entries : proc'[e.t] = proc[e.t]
      BY <2>1, RunEntries
    <3>2. UNCHANGED <<entries, wake>>
      BY <2>1 DEF PopWakeup, PopReady, waking
    <3>3. QED BY <3>1, <3>2
  <2>2. CASE \/ FindArray(p) \/ PickVictim(p) \/ StealHalf(p) \/ Recheck(p) \/ CheckBlocks(p)
             \/ TakeYield(p) \/ StealOne(p) \/ PopGlobal(p) \/ Keep(p) \/ WaitWakeup(p) \/ WaitGlobal(p)
    <3>1. UNCHANGED <<entries, wake, proc>>
      BY <2>2 DEF FindArray, PickVictim, StealHalf, Recheck, CheckBlocks, TakeYield, StealOne, PopGlobal,
                  Keep, WaitWakeup, WaitGlobal, task, waking
    <3>2. QED BY <3>1
  <2>3. QED BY <1>3, <2>1, <2>2 DEF LoopStep
<1>4. ASSUME NEW p \in Procs, TaskStep(p) PROVE E /\ W
  <2>1. CASE Suspend(p)
    <3>1. /\ pc[p] = "task" /\ cur[p] # None /\ UNCHANGED <<proc, wake>>
          /\ entries' = entries \cup {EntryOf(cur[p])} /\ EntryOf(cur[p]).t = cur[p]
      BY <1>0, <2>1 DEF Suspend, Free, EntryOf, task, TypeOK
    <3>2. proc[cur[p]] = p
      BY <3>1 DEF PlaceInv, HomeInv
    <3>3. QED BY <3>1, <3>2
  <2>2. CASE (\E t \in Tasks : Create(p, t)) \/ Yield(p) \/ Block(p) \/ Switch(p) \/ Finish(p)
    <3>1. UNCHANGED <<entries, wake, proc>>
      BY <2>2 DEF Create, Yield, Block, Switch, Finish, task, waking
    <3>2. QED BY <3>1
  <2>3. QED BY <1>4, <2>1, <2>2 DEF TaskStep
<1>5. ASSUME NEW w \in Wakers, WakeStep(w) PROVE E /\ W
  <2>1. ASSUME NEW e \in entries, TakeEntry(w, e) PROVE E /\ W
    <3>1. /\ entries' = entries \ {e} /\ proc' = proc
          /\ wake' = [wake EXCEPT ![w] = [step |-> "push", entry |-> e, on |-> proc[e.t]]]
      BY <2>1 DEF TakeEntry, task
    <3>2. /\ \A v \in Wakers : v # w => wake'[v] = wake[v]
          /\ wake'[w].on = proc[e.t]
      BY <1>0, <3>1
    <3>3. QED BY <3>1, <3>2
  <2>2. CASE WakePush(w) \/ WakeDec(w)
    <3>1. /\ UNCHANGED <<entries, proc>> /\ wake[w].step # "no"
          /\ \E step \in {"dec", "no"} : Then(w, step)
      BY <2>2 DEF WakePush, WakeDec, task
    <3>2. PICK step \in {"dec", "no"} : Then(w, step)
      BY <3>1
    <3>3. /\ \A v \in Wakers : v # w => wake'[v] = wake[v]
          /\ wake'[w] # Awake => wake'[w].on = wake[w].on
      BY <1>0, <3>1, <3>2, ThenType
    <3>4. wake[w] # Awake
      BY <3>1 DEF Awake
    <3>5. QED BY <3>1, <3>3, <3>4
  <2>3. QED BY <1>5, <2>1, <2>2 DEF WakeStep
<1>6. QED BY <1>2, <1>3, <1>4, <1>5 DEF Next

LEMMA InitQuiet == Init => QuietInv
<1>1. Init => \A p \in Procs : pc[p] # "wait_global"
  BY DEF Init
<1>2. QED BY <1>1 DEF QuietInv

\* The wait begins at the test of m_blocks (processor.cpp:165), which is zero only
\* when nothing is owed, and the thread that waits suspends nothing.
LEMMA NextQuiet ==
  ASSUME CountInv, QuietInv, RoomToCount, [Next]_vars
  PROVE  QuietInv'
<1>0. PlaceInv /\ pc \in [Procs -> PC]
  BY DEF CountInv, PlaceInv, TypeInv, TypeOK
<1>1. ASSUME NEW p \in Procs, CheckBlocks(p), pc'[p] = "wait_global"
      PROVE  EntriesOf(p)' = {} /\ WakersOn(p)' = {}
  <2>1. blocks[p] = 0 /\ pc[p] = "blocks" /\ UNCHANGED <<entries, proc, wake>>
    BY <1>0, <1>1 DEF CheckBlocks, Goto, task, waking
  <2>2. Owed(p) \in Nat /\ Owed(p) < Wrap
    BY OwedRoom
  <2>3. Owed(p) % Wrap = 0
    <3>1. blocks[p] = (Owed(p) - 0) % Wrap
      BY <2>1 DEF CountInv, BlocksMatch
    <3>2. Owed(p) - 0 = Owed(p)
      BY <2>2
    <3>3. QED BY <2>1, <3>1, <3>2
  <2>4. Owed(p) = 0
    BY <2>2, <2>3, SmallModulo, ProcessorAssumption
  <2>5. EntriesOf(p) = {} /\ WakersOn(p) = {}
    BY <2>4, OwedFinite, FS_EmptySet DEF CountInv
  <2>6. QED BY <2>1, <2>5 DEF EntriesOf, WakersOn
<1>2. ASSUME NEW p \in Procs, pc[p] = "wait_global"
      PROVE  EntriesOf(p)' = {} /\ WakersOn(p)' = {}
  <2>1. /\ \A e \in entries : proc[e.t] # p
        /\ \A w \in Wakers : wake[w] # Awake => wake[w].on # p
    BY <1>2 DEF QuietInv
  <2>2. \A e \in entries' : proc'[e.t] # p
    BY <1>0, <1>2, <2>1, OwedSteps
  <2>3. \A w \in Wakers : wake'[w] # Awake => wake'[w].on # p
    BY <1>0, <2>1, OwedSteps
  <2>4. QED BY <2>2, <2>3 DEF EntriesOf, WakersOn
<1>3. ASSUME NEW p \in Procs, pc'[p] = "wait_global" PROVE pc[p] = "wait_global" \/ CheckBlocks(p)
  <2>1. CASE (\E q \in Procs : Spawn(q)) \/ RunMain \/ UNCHANGED vars
    BY <1>0, <1>3, <2>1 DEF Spawn, RunMain, Goto, vars, thread
  <2>2. ASSUME NEW q \in Procs, LoopStep(q) PROVE pc[p] = "wait_global" \/ CheckBlocks(p)
    BY <1>0, <1>3, <2>2 DEF LoopStep, PopWakeup, PopReady, RunTask, FindArray, PickVictim, StealHalf,
       Recheck, CheckBlocks, TakeYield, StealOne, PopGlobal, Keep, WaitWakeup, WaitGlobal, TakeGlobal, Goto
  <2>3. ASSUME NEW q \in Procs, TaskStep(q) PROVE pc[p] = "wait_global" \/ CheckBlocks(p)
    BY <1>0, <1>3, <2>3 DEF TaskStep, Create, Yield, Suspend, Block, Switch, Finish, Free, Leave, thread, Goto
  <2>4. ASSUME NEW w \in Wakers, WakeStep(w) PROVE pc[p] = "wait_global" \/ CheckBlocks(p)
    BY <1>3, <2>4 DEF WakeStep, TakeEntry, WakePush, WakeDec, thread
  <2>5. QED BY <2>1, <2>2, <2>3, <2>4 DEF Next
<1>4. QED BY <1>1, <1>2, <1>3 DEF QuietInv, EntriesOf, WakersOn

\* Only taskWakeup appends to a wakeup queue, with an entry of its processor.
LEMMA WakeupGrows ==
  ASSUME PlaceInv, QuietInv, [Next]_vars, NEW p \in Procs, pc[p] = "wait_global"
  PROVE  Len(wakeup'[p]) <= Len(wakeup[p])
<1>0. /\ wakeup \in [Procs -> Seq(Tasks)] /\ wakeup[p] \in Seq(Tasks) /\ Len(wakeup[p]) \in Nat
      /\ \A q \in Procs : wakeup[q] # <<>> => Len(Tail(wakeup[q])) <= Len(wakeup[q])
  BY DEF PlaceInv, TypeInv, TypeOK
<1>1. CASE UNCHANGED wakeup
  BY <1>0, <1>1
<1>2. CASE (\E q \in Procs : Spawn(q)) \/ RunMain \/ UNCHANGED vars
  BY <1>1, <1>2 DEF Spawn, RunMain, vars, queues
<1>3. ASSUME NEW q \in Procs, LoopStep(q) PROVE Len(wakeup'[p]) <= Len(wakeup[p])
  <2>1. CASE PopWakeup(q) \/ WaitWakeup(q)
    <3>1. CASE wakeup[q] # <<>> /\ wakeup' = [wakeup EXCEPT ![q] = Tail(wakeup[q])]
      <4>1. wakeup'[p] = IF p = q THEN Tail(wakeup[q]) ELSE wakeup[p]
        BY <1>0, <3>1
      <4>2. QED BY <1>0, <3>1, <4>1
    <3>2. QED BY <1>1, <2>1, <3>1 DEF PopWakeup, WaitWakeup
  <2>2. CASE \/ PopReady(q) \/ FindArray(q) \/ PickVictim(q) \/ StealHalf(q) \/ Recheck(q)
             \/ CheckBlocks(q) \/ TakeYield(q) \/ StealOne(q) \/ PopGlobal(q) \/ Keep(q) \/ WaitGlobal(q)
    BY <1>1, <2>2 DEF PopReady, FindArray, PickVictim, StealHalf, Recheck, CheckBlocks, TakeYield, StealOne,
       PopGlobal, Keep, WaitGlobal, queues
  <2>3. QED BY <1>3, <2>1, <2>2 DEF LoopStep
<1>4. ASSUME NEW q \in Procs, TaskStep(q) PROVE Len(wakeup'[p]) <= Len(wakeup[p])
  BY <1>1, <1>4 DEF TaskStep, Create, Yield, Suspend, Block, Switch, Finish, queues
<1>5. ASSUME NEW w \in Wakers, WakeStep(w) PROVE Len(wakeup'[p]) <= Len(wakeup[p])
  <2>1. CASE WakePush(w)
    <3>1. wake[w] # Awake /\ wake[w].step = "push"
      BY <2>1 DEF WakePush, Awake
    <3>2. wake[w].on # p
      BY <3>1 DEF QuietInv
    <3>3. wakeup'[p] = wakeup[p]
      BY <1>0, <2>1, <3>2 DEF WakePush, PushTo
    <3>4. QED BY <1>0, <3>3
  <2>2. CASE (\E e \in entries : TakeEntry(w, e)) \/ WakeDec(w)
    BY <1>1, <2>2 DEF TakeEntry, WakeDec, queues
  <2>3. QED BY <1>5, <2>1, <2>2 DEF WakeStep
<1>6. QED BY <1>2, <1>3, <1>4, <1>5 DEF Next

\* Nobody sends a task to a thread that waits on the global queue, as long as
\* m_blocks cannot wrap all the way round: pushing before decrementing
\* (processor.cpp:55-57) is enough.
THEOREM NoWakeupIsMissed == ASSUME RoomToCount PROVE Spec => NoWakeupToCome
<1>1. CountInv /\ QuietInv /\ [Next]_vars
         => [\A p \in Procs : pc[p] = "wait_global" => Len(wakeup'[p]) <= Len(wakeup[p])]_vars
  BY WakeupGrows DEF CountInv
<1>2. CountInv /\ QuietInv /\ [Next]_vars => (CountInv /\ QuietInv)'
  BY NextCount, NextQuiet
<1>3. Init => CountInv /\ QuietInv
  BY InitCount, InitQuiet
<1>4. QED BY <1>1, <1>2, <1>3, PTL DEF Spec, NoWakeupToCome
-----------------------------------------------------------------------------
(* Tasks on a channel: every step is one of the scheduler's *)

LEMMA ChanStepIsStep == ASSUME ChanNext PROVE [Next]_vars
<1>1. CASE Start
  BY <1>1 DEF Start, Next
<1>2. ASSUME NEW p \in Procs, Outside(p) PROVE [Next]_vars
  BY <1>2 DEF Outside, TaskStep, Next
<1>3. ASSUME NEW p \in Procs, Scheduled(p) PROVE [Next]_vars
  BY <1>3 DEF Scheduled, TaskStep, WakeStep, Wakers, Next
<1>4. ASSUME NEW p \in Procs, NEW q, WakeFront(p, q) PROVE [Next]_vars
  <2>1. p \in Wakers /\ (UNCHANGED vars \/ TakeEntry(p, Head(q)))
    BY <1>4 DEF WakeFront, Wakers
  <2>2. ASSUME TakeEntry(p, Head(q)) PROVE Next
    <3>1. Head(q) \in entries
      BY <2>2 DEF TakeEntry
    <3>2. QED BY <2>1, <2>2, <3>1 DEF Next, WakeStep
  <2>3. QED BY <2>1, <2>2
<1>5. ASSUME NEW p \in Procs, ChannelStep(p) PROVE [Next]_vars
  <2>1. WakeFront(p, rque) \/ WakeFront(p, wque) \/ Suspend(p) \/ UNCHANGED vars
    BY <1>5 DEF ChannelStep, SendBegin, SendEnd, SendResume, ReceiveWait, ReceiveTake, ReceiveEnd
  <2>2. QED BY <1>4, <2>1 DEF Next, TaskStep
<1>6. QED BY <1>1, <1>2, <1>3, <1>5 DEF ChanNext

\* The scheduler's invariant holds as it does without a channel.
LEMMA ChanPlace == ASSUME PlaceInv, [ChanNext]_allvars PROVE PlaceInv'
<1>1. [Next]_vars
  BY ChanStepIsStep DEF allvars
<1>2. QED BY <1>1, NextPlace

\* The lists hold entries, and m_mtx a processor.
Inside == {"sent", "received"}
Places == {"out", "send", "recv"} \cup Inside
ChanTypeInv ==
    /\ buflen \in Nat /\ queue \in Seq(C!Item)
    /\ rque \in Seq(Entry) /\ wque \in Seq(Entry)
    /\ holder \in Procs \cup {None}
    /\ at \in [Tasks -> Places]
    /\ sends \in [Tasks -> 0 .. MaxSends]

\* The holder of m_mtx runs the one task that is in a critical section.
LockInv ==
    /\ LockHeldRunning
    /\ \A t \in Tasks : at[t] \in Inside => holder # None /\ cur[holder] = t

\* The entries that anybody has are on the lists, one for each suspended task.
Apart(q) == \A i, j \in DOMAIN q : q[i].t = q[j].t => i = j
ListedInv ==
    /\ Range(rque) \cup Range(wque) = entries
    /\ Apart(rque) /\ Apart(wque)
    /\ \A i \in DOMAIN rque : at[rque[i].t] = "recv"
    /\ \A i \in DOMAIN wque : at[wque[i].t] = "send"

\* They are for the suspension that their task is in, and so is one whose wakeup
\* has begun.
CurrentInv ==
    /\ \A e \in entries : e.id = sid[e.t]
    /\ \A w \in Procs : wake[w].step = "push" => wake[w].entry.id = sid[wake[w].entry.t]

ChanInv == PlaceInv /\ ChanTypeInv /\ LockInv /\ ListedInv /\ CurrentInv

LEMMA InitChan == ChanInit => ChanInv
<1> SUFFICES ASSUME ChanInit PROVE ChanInv
  OBVIOUS
<1>1. PlaceInv
  BY InitPlace DEF ChanInit
<1>2. ChanTypeInv
  BY ChannelTasksAssumption DEF ChanInit, ChanTypeInv, Places
<1>3. LockInv
  BY DEF ChanInit, LockInv, LockHeldRunning, Inside
<1>4. entries = {} /\ \A w \in Procs : wake[w] = Awake
  BY DEF ChanInit, Init, Wakers
<1>5. ListedInv
  BY <1>4 DEF ChanInit, ListedInv, Apart, Range
<1>6. CurrentInv
  BY <1>4 DEF CurrentInv, Awake
<1>7. QED BY <1>1, <1>2, <1>3, <1>5, <1>6 DEF ChanInv

\* The task whose code runs is the one that p runs, and nobody waits to wake it.
LEMMA Caller ==
  ASSUME ChanInv, NEW p \in Procs, pc[p] = "task"
  PROVE  /\ cur[p] \in Tasks /\ p # None
         /\ \A q \in Procs : cur[q] = cur[p] => q = p
         /\ \A e \in entries : e.t # cur[p]
<1>1. PlaceInv /\ cur[p] \in Tasks /\ p # None
  BY ProcessorAssumption DEF ChanInv, PlaceInv, TypeInv, TypeOK
<1>2. ~Sits(cur[p], "entry", None)
  BY <1>1, RunningNowhere DEF Kinds, Where
<1>3. \A q \in Procs : cur[q] = cur[p] => q = p
  BY <1>1, RunningNowhere
<1>4. QED BY <1>1, <1>2, <1>3 DEF Sits

LEMMA AtPlace ==
  ASSUME ChanInv, NEW p \in Procs, NEW place, At(p, place)
  PROVE  /\ pc[p] = "task" /\ wake[p] = Awake /\ cur[p] \in Tasks
         /\ at[cur[p]] = place
         /\ place \in Inside => holder = p
         /\ holder = None => \A t \in Tasks : at[t] \notin Inside
<1>1. pc[p] = "task" /\ wake[p] = Awake /\ at[cur[p]] = place
  BY DEF At, Free
<1>2. cur[p] \in Tasks
  BY <1>1, Caller
<1>3. ASSUME place \in Inside PROVE holder = p
  <2>1. holder \in Procs /\ cur[holder] = cur[p]
    BY <1>1, <1>2, <1>3 DEF ChanInv, LockInv, ChanTypeInv
  <2>2. QED BY <1>1, <2>1, Caller
<1>4. QED BY <1>1, <1>2, <1>3 DEF ChanInv, LockInv

\* What the threads do outside of << and >> leaves the channel alone, and with it
\* a task that is in a critical section.
Elsewhere == Start \/ \E p \in Procs : Outside(p) \/ Scheduled(p)
LEMMA ElsewhereKeeps ==
  ASSUME ChanInv, Elsewhere
  PROVE  /\ UNCHANGED chan /\ entries' = entries
         /\ holder # None => pc'[holder] = pc[holder] /\ cur'[holder] = cur[holder]
<1>1. /\ pc \in [Procs -> PC] /\ cur \in [Procs -> Tasks \cup {None}]
      /\ holder # None => /\ holder \in Procs /\ pc[holder] = "task"
                          /\ at[cur[holder]] # "out" /\ cur[holder] # None
  BY DEF ChanInv, PlaceInv, TypeInv, TypeOK, ChanTypeInv, LockInv, LockHeldRunning, Inside
<1> DEFINE Kept == /\ UNCHANGED chan /\ entries' = entries
                   /\ holder # None => pc'[holder] = pc[holder] /\ cur'[holder] = cur[holder]
<1>2. CASE Start
  <2>1. UNCHANGED <<chan, entries, cur>>
    BY <1>2 DEF Start, Spawn, RunMain, task, waking
  <2>2. \A q \in Procs : pc[q] = "task" => pc'[q] = "task"
    BY <1>1, <1>2, ProcessorAssumption DEF Start, Spawn, RunMain, Goto
  <2>3. QED BY <1>1, <2>1, <2>2
<1>3. ASSUME NEW p \in Procs, Outside(p) PROVE Kept
  <2>1. UNCHANGED <<chan, entries>>
    BY <1>3 DEF Outside, Create, Yield, Finish, waking
  <2>2. \A q \in Procs \ {p} : pc'[q] = pc[q] /\ cur'[q] = cur[q]
    BY <1>1, <1>3 DEF Outside, Create, Yield, Finish, Leave, Goto, thread
  <2>3. holder # p
    BY <1>1, <1>3, ProcessorAssumption DEF Outside
  <2>4. QED BY <1>1, <2>1, <2>2, <2>3
<1>4. ASSUME NEW p \in Procs, Scheduled(p) PROVE Kept
  <2>1. UNCHANGED chan
    BY <1>4 DEF Scheduled
  <2>2. CASE WakePush(p) \/ WakeDec(p)
    BY <1>1, <2>1, <2>2 DEF WakePush, WakeDec, thread
  <2>3. CASE LoopStep(p) \/ Block(p) \/ Switch(p)
    <3>1. pc[p] # "task"
      BY <2>3 DEF LoopStep, Block, Switch, PopWakeup, PopReady, TakeYield, FindArray, PickVictim,
                  StealHalf, StealOne, Recheck, PopGlobal, Keep, CheckBlocks, WaitWakeup, WaitGlobal
    <3>2. entries' = entries
      BY <2>3 DEF LoopStep, Block, Switch, PopWakeup, PopReady, TakeYield, FindArray, PickVictim,
                  StealHalf, StealOne, Recheck, PopGlobal, Keep, CheckBlocks, WaitWakeup, WaitGlobal,
                  waking
    <3>3. \A q \in Procs \ {p} : pc'[q] = pc[q] /\ cur'[q] = cur[q]
      BY <1>1, <2>3
         DEF LoopStep, Block, Switch, PopWakeup, PopReady, TakeYield, FindArray, PickVictim,
             StealHalf, StealOne, Recheck, PopGlobal, Keep, CheckBlocks, WaitWakeup, WaitGlobal,
             RunTask, TakeGlobal, Leave, Goto
    <3>4. QED BY <1>1, <2>1, <3>1, <3>2, <3>3
  <2>4. QED BY <1>4, <2>2, <2>3 DEF Scheduled
<1>5. QED BY <1>2, <1>3, <1>4 DEF Elsewhere

LEMMA ElsewhereInv == ASSUME ChanInv, Elsewhere PROVE ChanTypeInv' /\ LockInv' /\ ListedInv'
<1>1. /\ UNCHANGED <<buflen, queue, rque, wque, holder, at, sends, got, entries>>
      /\ holder # None => pc'[holder] = pc[holder] /\ cur'[holder] = cur[holder]
  BY ElsewhereKeeps DEF chan, lists, history
<1>2. ChanTypeInv'
  BY <1>1 DEF ChanInv, ChanTypeInv
<1>3. LockInv'
  BY <1>1 DEF ChanInv, LockInv, LockHeldRunning
<1>4. ListedInv'
  BY <1>1 DEF ChanInv, ListedInv, Apart
<1>5. QED BY <1>2, <1>3, <1>4

\* Only a wakeup that finds its entry current advances m_suspendid, and that
\* entry's task is in no other.
LEMMA PushCurrent == ASSUME ChanInv, NEW p \in Procs, WakePush(p) PROVE CurrentInv'
<1> DEFINE t == wake[p].entry.t
<1>1. /\ wake[p].step = "push" /\ t \in Tasks /\ p \in Wakers /\ p \in Where
      /\ sid \in [Tasks -> 0 .. Wrap - 1] /\ entries' = entries /\ entries \subseteq Entry
      /\ \A w \in Procs : w \in Wakers /\ w \in Where
  BY WakerType DEF WakePush, ChanInv, PlaceInv, TypeInv, TypeOK, Wakers, Where
<1>2. wake'[p].step = "dec"
  BY <1>1, ThenType DEF WakePush, ChanInv, PlaceInv, TypeInv
<1>3. \A w \in Procs \ {p} : wake'[w] = wake[w]
  BY <1>1, ThenType DEF WakePush, ChanInv, PlaceInv, TypeInv
<1>4. \A u \in Tasks : u # t => sid'[u] = sid[u]
  BY <1>1 DEF WakePush, PushTo
<1>5. Sits(t, "push", p)
  BY <1>1 DEF Sits
<1>6. \A e \in entries : e.t \in Tasks /\ e.t # t
  <2> SUFFICES ASSUME NEW e \in entries PROVE e.t \in Tasks /\ e.t # t
    OBVIOUS
  <2>1. e.t \in Tasks
    BY <1>1 DEF Entry
  <2>2. ASSUME e.t = t PROVE FALSE
    <3>1. Sits(t, "entry", None)
      BY <2>2 DEF Sits
    <3>2. QED BY <1>1, <1>5, <3>1 DEF ChanInv, PlaceInv, Single, Kinds, Where
  <2>3. QED BY <2>1, <2>2
<1>7. \A w \in Procs \ {p} : wake[w].step = "push" => wake[w].entry.t \in Tasks /\ wake[w].entry.t # t
  <2> SUFFICES ASSUME NEW w \in Procs \ {p}, wake[w].step = "push"
               PROVE wake[w].entry.t \in Tasks /\ wake[w].entry.t # t
    OBVIOUS
  <2>1. w \in Wakers /\ w \in Where /\ wake[w].entry.t \in Tasks
    BY <1>1, WakerType DEF ChanInv, PlaceInv, TypeInv
  <2>2. ASSUME wake[w].entry.t = t PROVE FALSE
    <3>1. Sits(t, "push", w)
      BY <2>1, <2>2 DEF Sits
    <3>2. QED BY <1>1, <1>5, <2>1, <3>1 DEF ChanInv, PlaceInv, Single, Kinds
  <2>3. QED BY <2>1, <2>2
<1> HIDE DEF t
<1>8. \A e \in entries' : e.id = sid'[e.t]
  BY <1>1, <1>4, <1>6 DEF ChanInv, CurrentInv
<1>9. \A w \in Procs : wake'[w].step = "push" => wake'[w].entry.id = sid'[wake'[w].entry.t]
  BY <1>2, <1>3, <1>4, <1>7 DEF ChanInv, CurrentInv
<1>10. QED BY <1>8, <1>9 DEF CurrentInv

LEMMA SameCurrent ==
  ASSUME ChanInv, UNCHANGED <<sid, entries>>,
         \A w \in Procs : wake'[w].step = "push" => wake'[w] = wake[w]
  PROVE  CurrentInv'
BY DEF ChanInv, CurrentInv

LEMMA ElsewhereCurrent == ASSUME ChanInv, Elsewhere PROVE CurrentInv'
<1>1. CASE Start
  BY <1>1, SameCurrent DEF Start, Spawn, RunMain, task, waking
<1>2. ASSUME NEW p \in Procs, Outside(p) PROVE CurrentInv'
  BY <1>2, SameCurrent DEF Outside, Create, Yield, Finish, waking
<1>3. ASSUME NEW p \in Procs, Scheduled(p) PROVE CurrentInv'
  <2>1. CASE LoopStep(p) \/ Block(p) \/ Switch(p)
    <3>1. UNCHANGED <<sid, entries, wake>>
      BY <2>1 DEF LoopStep, Block, Switch, PopWakeup, PopReady, TakeYield, FindArray, PickVictim,
                  StealHalf, StealOne, Recheck, PopGlobal, Keep, CheckBlocks, WaitWakeup, WaitGlobal,
                  waking, task
    <3>2. QED BY <3>1, SameCurrent
  <2>2. CASE WakePush(p)
    BY <2>2, PushCurrent
  <2>3. CASE WakeDec(p)
    <3>1. p \in Wakers /\ wake[p].step # "no" /\ UNCHANGED <<sid, entries>> /\ Then(p, "no")
      BY <2>3 DEF WakeDec, Wakers, thread, task
    <3>2. wake'[p] = Awake /\ \A w \in Wakers \ {p} : wake'[w] = wake[w]
      BY <3>1, ThenType DEF ChanInv, PlaceInv, TypeInv
    <3>3. QED BY <3>1, <3>2, SameCurrent DEF Awake, Wakers
  <2>4. QED BY <1>3, <2>1, <2>2, <2>3 DEF Scheduled
<1>4. QED BY <1>1, <1>2, <1>3 DEF Elsewhere
-----------------------------------------------------------------------------
(* What << and >> do to the lists *)

LEMMA NamedType ==
  ASSUME NEW q \in Seq(Entry)
  PROVE  /\ Named(q) \in Seq(Tasks) /\ Len(Named(q)) = Len(q)
         /\ \A i \in 1 .. Len(q) : q[i] \in Entry /\ Named(q)[i] = q[i].t
         /\ Named(q) = <<>> <=> q = <<>>
<1>1. DOMAIN q = 1 .. Len(q) /\ Len(q) \in Nat /\ \A i \in 1 .. Len(q) : q[i] \in Entry /\ q[i].t \in Tasks
  <2>1. DOMAIN q = 1 .. Len(q) /\ Len(q) \in Nat /\ \A i \in 1 .. Len(q) : q[i] \in Entry
    OBVIOUS
  <2>2. \A e \in Entry : e.t \in Tasks
    BY DEF Entry
  <2>3. QED BY <2>1, <2>2
<1>2. Named(q) = [i \in 1 .. Len(q) |-> q[i].t]
  BY <1>1 DEF Named
<1>3. Named(q) \in Seq(Tasks) /\ Len(Named(q)) = Len(q)
  BY <1>1, <1>2
<1>4. QED BY <1>1, <1>2, <1>3

\* A new entry at the end.
LEMMA AppendEntry ==
  ASSUME NEW q \in Seq(Entry), NEW e \in Entry
  PROVE  /\ Append(q, e) \in Seq(Entry)
         /\ Named(Append(q, e)) = Append(Named(q), e.t)
         /\ Range(Append(q, e)) = Range(q) \cup {e}
         /\ \A i \in DOMAIN Append(q, e) :
              (i \in DOMAIN q /\ Append(q, e)[i] = q[i]) \/ (i = Len(q) + 1 /\ Append(q, e)[i] = e)
         /\ \A i \in DOMAIN q : i \in DOMAIN Append(q, e) /\ Append(q, e)[i] = q[i]
<1> DEFINE a == Append(q, e)
<1>1. /\ Len(q) \in Nat /\ DOMAIN q = 1 .. Len(q) /\ a \in Seq(Entry) /\ Len(a) = Len(q) + 1
      /\ DOMAIN a = 1 .. Len(q) + 1
      /\ \A i \in 1 .. Len(q) : a[i] = q[i]
      /\ a[Len(q) + 1] = e
  OBVIOUS
<1> HIDE DEF a
<1>2. \A i \in DOMAIN a : (i \in DOMAIN q /\ a[i] = q[i]) \/ (i = Len(q) + 1 /\ a[i] = e)
  BY <1>1
<1>3. \A i \in DOMAIN q : i \in DOMAIN a /\ a[i] = q[i]
  BY <1>1
<1>4. Range(a) = Range(q) \cup {e}
  <2>1. Len(q) + 1 \in DOMAIN a
    BY <1>1
  <2>2. QED BY <1>1, <1>2, <1>3, <2>1 DEF Range
<1>5. Named(a) = Append(Named(q), e.t)
  <2>1. e.t \in Tasks
    BY DEF Entry
  <2>2. /\ Named(a) \in Seq(Tasks) /\ Len(Named(a)) = Len(q) + 1
        /\ \A i \in 1 .. Len(q) + 1 : Named(a)[i] = a[i].t
    BY <1>1, NamedType
  <2>3. /\ Named(q) \in Seq(Tasks) /\ Len(Named(q)) = Len(q)
        /\ \A i \in 1 .. Len(q) : Named(q)[i] = q[i].t
    BY NamedType
  <2> DEFINE b == Append(Named(q), e.t)
  <2>4. /\ b \in Seq(Tasks) /\ Len(b) = Len(q) + 1
        /\ \A i \in 1 .. Len(q) : b[i] = Named(q)[i]
        /\ b[Len(q) + 1] = e.t
    BY <2>1, <2>3
  <2> HIDE DEF b
  <2>5. \A i \in 1 .. Len(q) + 1 : i \in 1 .. Len(q) \/ i = Len(q) + 1
    BY <1>1
  <2>6. \A i \in 1 .. Len(q) + 1 : Named(a)[i] = b[i]
    BY <1>1, <2>2, <2>3, <2>4, <2>5
  <2>7. Named(a) = b
    BY <2>2, <2>4, <2>6, SeqEqual
  <2>8. QED BY <2>7 DEF b
<1>6. QED BY <1>1, <1>2, <1>3, <1>4, <1>5 DEF a

\* The first entry taken off.
LEMMA RestEntries ==
  ASSUME NEW q \in Seq(Entry), q # <<>>, Apart(q)
  PROVE  /\ Head(q) \in Entry /\ Head(q) \in Range(q) /\ Head(q) = q[1] /\ 1 \in DOMAIN q
         /\ Tail(q) \in Seq(Entry) /\ Apart(Tail(q))
         /\ Range(Tail(q)) = Range(q) \ {Head(q)}
         /\ Named(Tail(q)) = Tail(Named(q)) /\ Head(Named(q)) = Head(q).t /\ Named(q) # <<>>
         /\ \A i \in DOMAIN Tail(q) : i + 1 \in DOMAIN q /\ Tail(q)[i] = q[i + 1]
         /\ \A i \in DOMAIN q : q[i].t = Head(q).t \/ \E j \in DOMAIN Tail(q) : Tail(q)[j] = q[i]
         /\ \A i \in DOMAIN Tail(q) : Tail(q)[i].t # Head(q).t
<1> DEFINE r == Tail(q)
<1>1. /\ Len(q) \in Nat \ {0} /\ DOMAIN q = 1 .. Len(q) /\ r \in Seq(Entry) /\ Len(r) = Len(q) - 1
      /\ DOMAIN r = 1 .. Len(q) - 1 /\ Head(q) = q[1] /\ q[1] \in Entry
      /\ \A i \in 1 .. Len(q) - 1 : r[i] = q[i + 1]
  OBVIOUS
<1> HIDE DEF r
<1>2. 1 \in DOMAIN q /\ \A i \in DOMAIN r : i + 1 \in DOMAIN q /\ i + 1 # 1 /\ r[i] = q[i + 1]
  BY <1>1
<1>3. \A i \in DOMAIN q : i = 1 \/ \E j \in DOMAIN r : r[j] = q[i]
  <2> SUFFICES ASSUME NEW i \in DOMAIN q, i # 1 PROVE \E j \in DOMAIN r : r[j] = q[i]
    OBVIOUS
  <2>1. i - 1 \in DOMAIN r /\ (i - 1) + 1 = i
    BY <1>1
  <2>2. QED BY <1>2, <2>1
<1>4. \A i \in DOMAIN r : r[i].t # Head(q).t
  BY <1>1, <1>2 DEF Apart
<1>5. Apart(r)
  <2>1. \A i, j \in DOMAIN r : i + 1 = j + 1 => i = j
    BY <1>1
  <2>2. QED BY <1>2, <2>1 DEF Apart
<1>6. Range(r) = Range(q) \ {Head(q)} /\ Head(q) \in Range(q)
  <2>1. Range(r) = {r[i] : i \in DOMAIN r} /\ Range(q) = {q[i] : i \in DOMAIN q}
    BY DEF Range
  <2>2. \A x \in Range(r) : x \in Range(q) /\ x # Head(q)
    BY <1>2, <1>4, <2>1
  <2>3. \A x \in Range(q) : x = Head(q) \/ x \in Range(r)
    BY <1>1, <1>3, <2>1
  <2>4. Head(q) \in Range(q)
    BY <1>1, <1>2, <2>1
  <2>5. QED BY <2>2, <2>3, <2>4
<1>7. Named(r) = Tail(Named(q)) /\ Head(Named(q)) = Head(q).t /\ Named(q) # <<>>
  <2>1. /\ Named(r) \in Seq(Tasks) /\ Len(Named(r)) = Len(q) - 1
        /\ \A i \in 1 .. Len(q) - 1 : Named(r)[i] = r[i].t
    BY <1>1, NamedType
  <2>2. /\ Named(q) \in Seq(Tasks) /\ Len(Named(q)) = Len(q) /\ Named(q) # <<>>
        /\ \A i \in 1 .. Len(q) : Named(q)[i] = q[i].t
    BY <1>1, NamedType
  <2> DEFINE n == Named(q)
             b == Tail(n)
  <2> HIDE DEF n
  <2>3. n \in Seq(Tasks) /\ n # <<>> /\ Len(n) = Len(q)
    BY <2>2 DEF n
  <2>4. /\ b \in Seq(Tasks) /\ Len(b) = Len(q) - 1 /\ Head(n) = n[1]
        /\ \A i \in 1 .. Len(q) - 1 : b[i] = n[i + 1]
    BY <1>1, <2>3
  <2> HIDE DEF b
  <2>5. \A i \in 1 .. Len(q) - 1 : i + 1 \in 1 .. Len(q)
    BY <1>1
  <2>6. \A i \in 1 .. Len(q) - 1 : Named(r)[i] = b[i]
    BY <1>1, <2>1, <2>2, <2>4, <2>5 DEF n
  <2>7. Named(r) = b
    BY <2>1, <2>4, <2>6, SeqEqual
  <2>8. QED BY <1>1, <1>2, <2>2, <2>4, <2>7 DEF b, n
<1>8. QED BY <1>1, <1>2, <1>3, <1>4, <1>5, <1>6, <1>7 DEF r

\* The two lists have no task in common.
LEMMA ListsApart ==
  ASSUME ChanInv
  PROVE  \A i \in DOMAIN rque, j \in DOMAIN wque : rque[i].t # wque[j].t
BY DEF ChanInv, ListedInv

\* The task that runs is on neither list.
LEMMA OthersListed ==
  ASSUME ChanInv, NEW p \in Procs, pc[p] = "task"
  PROVE  /\ at \in [Tasks -> Places] /\ cur[p] \in Tasks
         /\ rque \in Seq(Entry) /\ wque \in Seq(Entry)
         /\ \A i \in DOMAIN rque : rque[i] \in entries /\ rque[i].t \in Tasks \ {cur[p]}
         /\ \A i \in DOMAIN wque : wque[i] \in entries /\ wque[i].t \in Tasks \ {cur[p]}
<1>1. cur[p] \in Tasks /\ \A e \in entries : e.t # cur[p]
  BY Caller
<1>2. \A e \in entries : e.t \in Tasks
  BY DEF ChanInv, PlaceInv, TypeInv, TypeOK, Entry
<1>3. \A i \in DOMAIN rque : rque[i] \in entries
  BY DEF ChanInv, ListedInv, Range
<1>4. \A i \in DOMAIN wque : wque[i] \in entries
  BY DEF ChanInv, ListedInv, Range
<1>5. QED BY <1>1, <1>2, <1>3, <1>4 DEF ChanInv, ChanTypeInv

\* A step in which the task on p goes on, and neither suspends nor wakes.
LEMMA StaysOn ==
  ASSUME ChanInv, NEW p \in Procs, NEW place \in Places, pc[p] = "task", To(p, place),
         UNCHANGED <<vars, rque, wque>>
  PROVE  ListedInv' /\ CurrentInv'
<1>1. UNCHANGED <<entries, sid, wake>>
  BY DEF vars, task, waking
<1>2. CurrentInv'
  BY <1>1, SameCurrent
<1>3. \A u \in Tasks \ {cur[p]} : at'[u] = at[u]
  BY OthersListed DEF To
<1>4. ListedInv'
  BY <1>1, <1>3, OthersListed DEF ChanInv, ListedInv, Apart
<1>5. QED BY <1>2, <1>4

\* The first entry of q is taken off and its wakeup begins.
LEMMA WakeFrontFacts ==
  ASSUME ChanInv, NEW p \in Procs, pc[p] = "task", wake[p] = Awake,
         NEW q \in {rque, wque}, WakeFront(p, q)
  PROVE  /\ UNCHANGED <<pc, cur, sid>>
         /\ q = <<>> => entries' = entries
         /\ q # <<>> => Head(q) \in entries /\ entries' = entries \ {Head(q)}
         /\ CurrentInv'
<1>1. CASE q = <<>>
  <2>1. UNCHANGED <<pc, cur, sid, entries, wake>>
    BY <1>1 DEF WakeFront, vars, thread, task, waking
  <2>2. QED BY <1>1, <2>1, SameCurrent
<1>2. CASE q # <<>>
  <2>1. /\ TakeEntry(p, Head(q)) /\ UNCHANGED <<pc, cur, sid>>
        /\ Head(q) \in entries /\ entries' = entries \ {Head(q)}
    BY <1>2 DEF WakeFront, TakeEntry, thread, task
  <2>2. p \in Wakers /\ wake' = [wake EXCEPT ![p] = [step |-> "push", entry |-> Head(q), on |-> proc[Head(q).t]]]
    BY <2>1 DEF TakeEntry, Wakers
  <2>3. wake'[p].entry = Head(q) /\ \A w \in Procs \ {p} : wake'[w] = wake[w]
    BY <2>2 DEF ChanInv, PlaceInv, TypeInv, TypeOK, Wakers
  <2>4. CurrentInv'
    BY <2>1, <2>3 DEF ChanInv, CurrentInv
  <2>5. QED BY <1>2, <2>1, <2>4
<1>3. QED BY <1>1, <1>2

LEMMA TakesOff ==
  ASSUME ChanInv, NEW p \in Procs, NEW place \in Places, pc[p] = "task", wake[p] = Awake, To(p, place),
         \/ WakeFront(p, rque) /\ rque' = Rest(rque) /\ wque' = wque
         \/ WakeFront(p, wque) /\ wque' = Rest(wque) /\ rque' = rque
  PROVE  /\ ListedInv' /\ CurrentInv' /\ UNCHANGED <<pc, cur>>
         /\ rque' \in Seq(Entry) /\ wque' \in Seq(Entry)
<1>1. CurrentInv' /\ UNCHANGED <<pc, cur>>
  BY WakeFrontFacts
<1>2. \A u \in Tasks \ {cur[p]} : at'[u] = at[u]
  BY OthersListed DEF To
<1>3. /\ Range(rque) \cup Range(wque) = entries /\ Apart(rque) /\ Apart(wque)
      /\ \A i \in DOMAIN rque : at'[rque[i].t] = "recv"
      /\ \A i \in DOMAIN wque : at'[wque[i].t] = "send"
  BY <1>2, OthersListed DEF ChanInv, ListedInv
<1>4. CASE WakeFront(p, rque) /\ rque' = Rest(rque) /\ wque' = wque
  <2>1. CASE rque = <<>>
    <3>1. entries' = entries /\ rque' = rque
      BY <1>4, <2>1, WakeFrontFacts DEF Rest
    <3>2. QED BY <1>1, <1>3, <1>4, <3>1, OthersListed DEF ListedInv, Apart
  <2>2. CASE rque # <<>>
    <3>1. entries' = entries \ {Head(rque)} /\ rque' = Tail(rque)
      BY <1>4, <2>2, WakeFrontFacts DEF Rest
    <3>2. /\ rque' \in Seq(Entry) /\ Apart(rque)' /\ Range(rque') = Range(rque) \ {Head(rque)}
          /\ \A i \in DOMAIN rque' : \E j \in DOMAIN rque : rque'[i] = rque[j]
      BY <1>3, <2>2, <3>1, OthersListed, RestEntries DEF Apart
    <3>3. Head(rque) \notin Range(wque)
      <4>1. 1 \in DOMAIN rque /\ Head(rque) = rque[1]
        BY <1>3, <2>2, OthersListed, RestEntries
      <4>2. QED BY <4>1, ListsApart DEF Range
    <3>4. Range(rque') \cup Range(wque') = entries'
      BY <1>3, <1>4, <3>1, <3>2, <3>3
    <3>5. QED BY <1>1, <1>3, <1>4, <3>2, <3>4, OthersListed DEF ListedInv, Apart
  <2>3. QED BY <2>1, <2>2
<1>5. CASE WakeFront(p, wque) /\ wque' = Rest(wque) /\ rque' = rque
  <2>1. CASE wque = <<>>
    <3>1. entries' = entries /\ wque' = wque
      BY <1>5, <2>1, WakeFrontFacts DEF Rest
    <3>2. QED BY <1>1, <1>3, <1>5, <3>1, OthersListed DEF ListedInv, Apart
  <2>2. CASE wque # <<>>
    <3>1. entries' = entries \ {Head(wque)} /\ wque' = Tail(wque)
      BY <1>5, <2>2, WakeFrontFacts DEF Rest
    <3>2. /\ wque' \in Seq(Entry) /\ Apart(wque)' /\ Range(wque') = Range(wque) \ {Head(wque)}
          /\ \A i \in DOMAIN wque' : \E j \in DOMAIN wque : wque'[i] = wque[j]
      BY <1>3, <2>2, <3>1, OthersListed, RestEntries DEF Apart
    <3>3. Head(wque) \notin Range(rque)
      <4>1. 1 \in DOMAIN wque /\ Head(wque) = wque[1]
        BY <1>3, <2>2, OthersListed, RestEntries
      <4>2. QED BY <4>1, ListsApart DEF Range
    <3>4. Range(rque') \cup Range(wque') = entries'
      BY <1>3, <1>5, <3>1, <3>2, <3>3
    <3>5. QED BY <1>1, <1>3, <1>5, <3>2, <3>4, OthersListed DEF ListedInv, Apart
  <2>3. QED BY <2>1, <2>2
<1>6. QED BY <1>4, <1>5

\* The task on p puts the entry of its suspension on a list.
LEMMA SuspendFacts ==
  ASSUME ChanInv, NEW p \in Procs, Suspend(p)
  PROVE  /\ entries' = entries \cup {EntryOf(cur[p])} /\ EntryOf(cur[p]) \in Entry
         /\ EntryOf(cur[p]).t = cur[p]
         /\ cur' = cur /\ \A q \in Procs \ {p} : pc'[q] = pc[q]
         /\ CurrentInv'
<1>1. pc[p] = "task" /\ entries' = entries \cup {EntryOf(cur[p])} /\ UNCHANGED <<cur, sid, wake>>
  BY DEF Suspend, Free, task
<1>2. cur[p] \in Tasks /\ sid[cur[p]] \in Nat /\ pc \in [Procs -> PC]
  <2>1. cur[p] \in Tasks /\ sid \in [Tasks -> 0 .. Wrap - 1] /\ pc \in [Procs -> PC]
    BY <1>1, Caller DEF ChanInv, PlaceInv, TypeInv, TypeOK
  <2>2. QED BY <2>1
<1>3. \A q \in Procs \ {p} : pc'[q] = pc[q]
  BY <1>2 DEF Suspend, Goto
<1>4. EntryOf(cur[p]) \in Entry /\ EntryOf(cur[p]).t = cur[p] /\ EntryOf(cur[p]).id = sid[cur[p]]
  BY <1>2 DEF EntryOf, Entry
<1>5. CurrentInv'
  BY <1>1, <1>4 DEF ChanInv, CurrentInv
<1>6. QED BY <1>1, <1>3, <1>4, <1>5

LEMMA AppendApart ==
  ASSUME NEW q \in Seq(Entry), NEW e \in Entry, Apart(q), \A i \in DOMAIN q : q[i].t # e.t
  PROVE  Apart(Append(q, e))
<1> DEFINE a == Append(q, e)
<1>1. \A i \in DOMAIN a : (i \in DOMAIN q /\ a[i] = q[i]) \/ (i = Len(q) + 1 /\ a[i] = e)
  BY AppendEntry
<1> HIDE DEF a
<1>2. Apart(a)
  BY <1>1 DEF Apart
<1>3. QED BY <1>2 DEF a

LEMMA PutsOn ==
  ASSUME ChanInv, NEW p \in Procs, Suspend(p),
         \/ To(p, "recv") /\ rque' = Append(rque, EntryOf(cur[p])) /\ wque' = wque
         \/ To(p, "send") /\ wque' = Append(wque, EntryOf(cur[p])) /\ rque' = rque
  PROVE  /\ ListedInv' /\ CurrentInv'
         /\ rque' \in Seq(Entry) /\ wque' \in Seq(Entry)
<1> DEFINE e == EntryOf(cur[p])
<1>1. /\ entries' = entries \cup {e} /\ e \in Entry /\ e.t = cur[p] /\ CurrentInv' /\ pc[p] = "task"
  BY SuspendFacts DEF Suspend, Free
<1>2. \A u \in Tasks \ {cur[p]} : at'[u] = at[u]
  BY <1>1, OthersListed DEF To
<1>3. /\ Range(rque) \cup Range(wque) = entries /\ Apart(rque) /\ Apart(wque)
      /\ \A i \in DOMAIN rque : at'[rque[i].t] = "recv"
      /\ \A i \in DOMAIN wque : at'[wque[i].t] = "send"
  BY <1>1, <1>2, OthersListed DEF ChanInv, ListedInv
<1> HIDE DEF e
<1>4. CASE To(p, "recv") /\ rque' = Append(rque, e) /\ wque' = wque
  <2>1. at'[cur[p]] = "recv"
    BY <1>1, <1>4, OthersListed DEF To
  <2>2. rque' \in Seq(Entry) /\ Range(rque') = Range(rque) \cup {e} /\ Apart(rque)'
    <3>1. Apart(Append(rque, e))
      BY <1>1, <1>3, OthersListed, AppendApart
    <3>2. Append(rque, e) \in Seq(Entry) /\ Range(Append(rque, e)) = Range(rque) \cup {e}
      BY <1>1, OthersListed, AppendEntry
    <3>3. QED BY <1>4, <3>1, <3>2 DEF Apart
  <2>3. \A i \in DOMAIN rque' : (i \in DOMAIN rque /\ rque'[i] = rque[i]) \/ rque'[i] = e
    BY <1>1, <1>4, OthersListed, AppendEntry
  <2>4. \A i \in DOMAIN rque' : at'[rque'[i].t] = "recv"
    BY <1>1, <1>3, <2>1, <2>3
  <2>5. QED BY <1>1, <1>3, <1>4, <2>2, <2>4, OthersListed DEF ListedInv, Apart
<1>5. CASE To(p, "send") /\ wque' = Append(wque, e) /\ rque' = rque
  <2>1. at'[cur[p]] = "send"
    BY <1>1, <1>5, OthersListed DEF To
  <2>2. wque' \in Seq(Entry) /\ Range(wque') = Range(wque) \cup {e} /\ Apart(wque)'
    <3>1. Apart(Append(wque, e))
      BY <1>1, <1>3, OthersListed, AppendApart
    <3>2. Append(wque, e) \in Seq(Entry) /\ Range(Append(wque, e)) = Range(wque) \cup {e}
      BY <1>1, OthersListed, AppendEntry
    <3>3. QED BY <1>5, <3>1, <3>2 DEF Apart
  <2>3. \A i \in DOMAIN wque' : (i \in DOMAIN wque /\ wque'[i] = wque[i]) \/ wque'[i] = e
    BY <1>1, <1>5, OthersListed, AppendEntry
  <2>4. \A i \in DOMAIN wque' : at'[wque'[i].t] = "send"
    BY <1>1, <1>3, <2>1, <2>3
  <2>5. QED BY <1>1, <1>3, <1>5, <2>2, <2>4, OthersListed DEF ListedInv, Apart
<1>6. QED BY <1>4, <1>5 DEF e

\* Taking m_mtx and releasing it.
LEMMA LockSteps ==
  ASSUME ChanInv, NEW p \in Procs, pc[p] = "task", NEW place \in Places, To(p, place),
         holder \in {None, p}, cur' = cur,
         \/ place \in Inside /\ holder' = p /\ pc'[p] = "task"
         \/ place \notin Inside /\ holder' = None
  PROVE  LockInv' /\ at' \in [Tasks -> Places] /\ holder' \in Procs \cup {None}
<1>1. at \in [Tasks -> Places] /\ cur[p] \in Tasks /\ p # None
  BY Caller DEF ChanInv, ChanTypeInv
<1>2. /\ at'[cur[p]] = place /\ at' \in [Tasks -> Places]
      /\ \A u \in Tasks \ {cur[p]} : at'[u] = at[u] /\ at[u] \notin Inside
  BY <1>1 DEF To, ChanInv, LockInv
<1>3. CASE place \in Inside /\ holder' = p /\ pc'[p] = "task"
  BY <1>1, <1>2, <1>3 DEF LockInv, LockHeldRunning, Inside
<1>4. CASE place \notin Inside /\ holder' = None
  BY <1>1, <1>2, <1>4 DEF LockInv, LockHeldRunning
<1>5. QED BY <1>2, <1>3, <1>4

LEMMA ChannelStepInv ==
  ASSUME ChanInv, NEW p \in Procs, ChannelStep(p)
  PROVE  ChanTypeInv' /\ LockInv' /\ ListedInv' /\ CurrentInv'
<1> USE DEF Places, Inside
<1>1. CASE SendBegin(p)
  <2> DEFINE t == cur[p]
             x == [from |-> t, n |-> sends[t] + 1]
  <2>1. /\ pc[p] = "task" /\ wake[p] = Awake /\ t \in Tasks /\ To(p, "sent") /\ holder = None /\ holder' = p
        /\ buflen' = buflen /\ WakeFront(p, rque) /\ rque' = Rest(rque) /\ wque' = wque
    BY <1>1, AtPlace DEF SendBegin
  <2>2. /\ ListedInv' /\ CurrentInv' /\ UNCHANGED <<pc, cur>>
        /\ rque' \in Seq(Entry) /\ wque' \in Seq(Entry)
    BY <2>1, TakesOff
  <2>3. LockInv' /\ at' \in [Tasks -> Places] /\ holder' \in Procs \cup {None}
    BY <2>1, <2>2, LockSteps
  <2>4. sends' \in [Tasks -> 0 .. MaxSends] /\ x \in C!Item
    <3>1. /\ sends \in [Tasks -> 0 .. MaxSends] /\ sends[t] < MaxSends /\ MaxSends \in Nat
          /\ sends' = [sends EXCEPT ![t] = sends[t] + 1]
      BY <1>1, ChannelTasksAssumption DEF SendBegin, ChanInv, ChanTypeInv
    <3>2. sends[t] + 1 \in 0 .. MaxSends /\ sends[t] + 1 \in 1 .. MaxSends
      BY <2>1, <3>1
    <3>3. QED BY <2>1, <3>1, <3>2 DEF C!Item
  <2>5. queue' \in Seq(C!Item)
    BY <1>1, <2>4 DEF SendBegin, ChanInv, ChanTypeInv
  <2>6. QED BY <2>1, <2>2, <2>3, <2>4, <2>5 DEF ChanInv, ChanTypeInv
<1>2. CASE SendEnd(p)
  <2>1. pc[p] = "task" /\ holder = p /\ holder' = None /\ UNCHANGED <<buflen, queue, rque, sends>>
    BY <1>2, AtPlace DEF SendEnd, history
  <2>2. CASE Suspend(p) /\ wque' = Append(wque, EntryOf(cur[p])) /\ To(p, "send")
    <3>1. ListedInv' /\ CurrentInv' /\ rque' \in Seq(Entry) /\ wque' \in Seq(Entry)
      BY <2>1, <2>2, PutsOn
    <3>2. LockInv' /\ at' \in [Tasks -> Places] /\ holder' \in Procs \cup {None}
      BY <2>1, <2>2, SuspendFacts, LockSteps
    <3>3. QED BY <2>1, <3>1, <3>2 DEF ChanInv, ChanTypeInv
  <2>3. CASE To(p, "out") /\ UNCHANGED <<vars, wque>>
    <3>1. ListedInv' /\ CurrentInv'
      BY <2>1, <2>3, StaysOn
    <3>2. LockInv' /\ at' \in [Tasks -> Places] /\ holder' \in Procs \cup {None}
      BY <2>1, <2>3, LockSteps DEF vars, thread
    <3>3. QED BY <2>1, <2>3, <3>1, <3>2 DEF ChanInv, ChanTypeInv
  <2>4. QED BY <1>2, <2>2, <2>3 DEF SendEnd
<1>3. CASE SendResume(p) \/ ReceiveEnd(p)
  <2>1. /\ pc[p] = "task" /\ holder \in {None, p} /\ holder' = None /\ To(p, "out")
        /\ UNCHANGED <<vars, buflen, queue, rque, wque, sends>>
    BY <1>3, AtPlace DEF SendResume, ReceiveEnd, lists, history
  <2>2. ListedInv' /\ CurrentInv'
    BY <2>1, StaysOn
  <2>3. LockInv' /\ at' \in [Tasks -> Places] /\ holder' \in Procs \cup {None}
    BY <2>1, LockSteps DEF vars, thread
  <2>4. QED BY <2>1, <2>2, <2>3 DEF ChanInv, ChanTypeInv
<1>4. CASE ReceiveWait(p)
  <2>1. /\ pc[p] = "task" /\ holder = None /\ holder' = None /\ To(p, "recv") /\ Suspend(p)
        /\ rque' = Append(rque, EntryOf(cur[p])) /\ UNCHANGED <<buflen, queue, wque, sends>>
    BY <1>4, AtPlace DEF ReceiveWait, history
  <2>2. ListedInv' /\ CurrentInv' /\ rque' \in Seq(Entry) /\ wque' \in Seq(Entry)
    BY <2>1, PutsOn
  <2>3. LockInv' /\ at' \in [Tasks -> Places] /\ holder' \in Procs \cup {None}
    BY <2>1, SuspendFacts, LockSteps
  <2>4. QED BY <2>1, <2>2, <2>3 DEF ChanInv, ChanTypeInv
<1>5. CASE ReceiveTake(p)
  <2>1. /\ pc[p] = "task" /\ wake[p] = Awake /\ To(p, "received") /\ holder = None /\ holder' = p
        /\ UNCHANGED <<buflen, sends>> /\ WakeFront(p, wque) /\ wque' = Rest(wque) /\ rque' = rque
    BY <1>5, AtPlace DEF ReceiveTake
  <2>2. /\ ListedInv' /\ CurrentInv' /\ UNCHANGED <<pc, cur>>
        /\ rque' \in Seq(Entry) /\ wque' \in Seq(Entry)
    BY <2>1, TakesOff
  <2>3. LockInv' /\ at' \in [Tasks -> Places] /\ holder' \in Procs \cup {None}
    BY <2>1, <2>2, LockSteps
  <2>4. queue' \in Seq(C!Item)
    BY <1>5 DEF ReceiveTake, ChanInv, ChanTypeInv
  <2>5. QED BY <2>1, <2>2, <2>3, <2>4 DEF ChanInv, ChanTypeInv
<1>6. QED BY <1>1, <1>2, <1>3, <1>4, <1>5 DEF ChannelStep

LEMMA NextChan == ASSUME ChanInv, [ChanNext]_allvars PROVE ChanInv'
<1>1. PlaceInv'
  BY ChanPlace DEF ChanInv
<1>2. CASE Elsewhere
  BY <1>1, <1>2, ElsewhereInv, ElsewhereCurrent DEF ChanInv
<1>3. ASSUME NEW p \in Procs, ChannelStep(p) PROVE ChanInv'
  BY <1>1, <1>3, ChannelStepInv DEF ChanInv
<1>4. CASE UNCHANGED allvars
  <2>1. UNCHANGED <<buflen, queue, rque, wque, holder, at, sends, pc, cur, entries, sid, wake>>
    BY <1>4 DEF allvars, chan, lists, history, vars, thread, task, waking
  <2>2. ChanTypeInv' /\ LockInv'
    BY <2>1 DEF ChanInv, ChanTypeInv, LockInv, LockHeldRunning
  <2>3. ListedInv' /\ CurrentInv'
    BY <2>1 DEF ChanInv, ListedInv, Apart, CurrentInv
  <2>4. QED BY <1>1, <2>2, <2>3 DEF ChanInv
<1>5. QED BY <1>2, <1>3, <1>4 DEF ChanNext, Elsewhere

LEMMA ChanSpecInv == ChanSpec => []ChanInv
BY InitChan, NextChan, PTL DEF ChanSpec

\* Every entry on the channel's lists ends the suspension it was made for, and
\* nobody has an entry that is not on a list.
THEOREM EntriesStayCurrent == ChanSpec => []EntriesCurrent
<1>1. ChanInv => EntriesCurrent
  BY DEF ChanInv, ListedInv, CurrentInv, EntriesCurrent
<1>2. QED BY <1>1, ChanSpecInv, PTL

\* A thread holds m_mtx only in the code of a task in << or >>, and not over a
\* suspension.
THEOREM LockNotLeftBehind == ChanSpec => []LockHeldRunning
<1>1. ChanInv => LockHeldRunning
  BY DEF ChanInv, LockInv
<1>2. QED BY <1>1, ChanSpecInv, PTL
-----------------------------------------------------------------------------
(* The composition implements Channel *)

\* Task t has an entry on q.
On(q, t) == \E i \in DOMAIN q : q[i].t = t

LEMMA OnLists ==
  ASSUME NEW q \in Seq(Entry)
  PROVE  /\ \A t : On(q, t) <=> \E i \in DOMAIN Named(q) : Named(q)[i] = t
         /\ \A e \in Entry : \A t : On(Append(q, e), t) <=> On(q, t) \/ t = e.t
         /\ q # <<>> /\ Apart(q) => \A t : On(Tail(q), t) <=> On(q, t) /\ t # Head(q).t
<1>1. ASSUME NEW t PROVE On(q, t) <=> \E i \in DOMAIN Named(q) : Named(q)[i] = t
  BY DEF On, Named
<1>2. ASSUME NEW e \in Entry, NEW t PROVE On(Append(q, e), t) <=> On(q, t) \/ t = e.t
  <2> DEFINE a == Append(q, e)
  <2>1. /\ \A i \in DOMAIN a : (i \in DOMAIN q /\ a[i] = q[i]) \/ (i = Len(q) + 1 /\ a[i] = e)
        /\ \A i \in DOMAIN q : i \in DOMAIN a /\ a[i] = q[i]
    BY AppendEntry
  <2>2. Len(q) + 1 \in DOMAIN a /\ a[Len(q) + 1] = e
    OBVIOUS
  <2> HIDE DEF a
  <2>3. On(a, t) <=> On(q, t) \/ t = e.t
    BY <2>1, <2>2 DEF On
  <2>4. QED BY <2>3 DEF a
<1>3. ASSUME q # <<>>, Apart(q), NEW t PROVE On(Tail(q), t) <=> On(q, t) /\ t # Head(q).t
  BY <1>3, RestEntries DEF On
<1>4. QED BY <1>1, <1>2, <1>3

\* What Channel's variables are: those of ChannelTasks where nobody holds m_mtx,
\* and for the holder those after its critical section.
Suspended(t) == at[t] \in {"send", "recv"} /\ ~On(rque, t) /\ ~On(wque, t)
MapOK ==
    /\ \A t \in Tasks : Resumable(t) <=> Suspended(t)
    /\ holder = None => Done = at /\ Parked = Named(wque)
    /\ holder # None /\ (at[cur[holder]] = "received" \/ ~Full) =>
            Done = [at EXCEPT ![cur[holder]] = "out"] /\ Parked = Named(wque)
    /\ holder # None /\ at[cur[holder]] = "sent" /\ Full =>
            /\ Done = [at EXCEPT ![cur[holder]] = "send"]
            /\ Parked = Append(Named(wque), cur[holder])

LEMMA MapState == ChanInv => MapOK
<1> SUFFICES ASSUME ChanInv PROVE MapOK
  OBVIOUS
<1>1. /\ at \in [Tasks -> Places] /\ wque \in Seq(Entry) /\ Named(wque) \in Seq(Tasks)
      /\ holder # None => cur[holder] \in Tasks /\ at[cur[holder]] \in Inside
      /\ \A t \in Tasks : at[t] \in Inside => holder # None /\ cur[holder] = t
  <2>1. at \in [Tasks -> Places] /\ wque \in Seq(Entry) /\ LockInv /\ holder \in Procs \cup {None}
    BY DEF ChanInv, ChanTypeInv
  <2>2. ASSUME holder # None PROVE cur[holder] \in Tasks /\ at[cur[holder]] \in Inside
    BY <2>1, <2>2, Caller DEF LockInv, LockHeldRunning, Inside
  <2>3. QED BY <2>1, <2>2, NamedType DEF LockInv
<1>2. Named(wque) \o <<>> = Named(wque)
  BY <1>1, ConcatEmptySeq
<1>3. ASSUME holder = None PROVE Done = at /\ Parked = Named(wque)
  <2>1. Parked = Named(wque)
    BY <1>2, <1>3 DEF Parked, ToPark
  <2>2. \A t \in Tasks : at[t] # "sent" /\ at[t] # "received"
    BY <1>1, <1>3 DEF Inside
  <2>3. Done = [t \in Tasks |-> at[t]]
    BY <2>2 DEF Done
  <2>4. QED BY <1>1, <2>1, <2>3
<1>4. ASSUME holder # None, at[cur[holder]] = "received" \/ ~Full
      PROVE  Done = [at EXCEPT ![cur[holder]] = "out"] /\ Parked = Named(wque)
  <2> DEFINE c == cur[holder]
  <2>1. Parked = Named(wque)
    BY <1>2, <1>4 DEF Parked, ToPark
  <2>2. c \in Tasks /\ at[c] \in {"sent", "received"} /\ (at[c] = "received" \/ ~Full)
    BY <1>1, <1>4 DEF Inside
  <2>3. \A t \in Tasks \ {c} : at[t] # "sent" /\ at[t] # "received"
    BY <1>1, <1>4 DEF Inside
  <2> HIDE DEF c
  <2>4. Done[c] = "out" /\ \A t \in Tasks \ {c} : Done[t] = at[t]
    BY <2>2, <2>3 DEF Done
  <2>5. Done = [t \in Tasks |-> Done[t]]
    BY DEF Done
  <2>6. Done = [at EXCEPT ![c] = "out"]
    BY <1>1, <2>2, <2>4, <2>5
  <2>7. QED BY <2>1, <2>6 DEF c
<1>5. ASSUME holder # None, at[cur[holder]] = "sent", Full
      PROVE  /\ Done = [at EXCEPT ![cur[holder]] = "send"]
             /\ Parked = Append(Named(wque), cur[holder])
  <2> DEFINE c == cur[holder]
  <2>1. c \in Tasks
    BY <1>1, <1>5
  <2>2. Parked = Append(Named(wque), c)
    <3>1. Parked = Named(wque) \o <<c>>
      BY <1>5 DEF Parked, ToPark
    <3>2. QED BY <1>1, <2>1, <3>1, AppendIsConcat
  <2>3. \A t \in Tasks \ {c} : at[t] # "sent" /\ at[t] # "received"
    BY <1>1, <1>5 DEF Inside
  <2>4. at[c] = "sent"
    BY <1>5
  <2> HIDE DEF c
  <2>5. Done[c] = "send" /\ \A t \in Tasks \ {c} : Done[t] = at[t]
    BY <1>5, <2>1, <2>3, <2>4 DEF Done
  <2>6. Done = [t \in Tasks |-> Done[t]]
    BY DEF Done
  <2>7. Done = [at EXCEPT ![c] = "send"]
    BY <1>1, <2>1, <2>5, <2>6
  <2>8. QED BY <2>2, <2>7 DEF c
<1>6. ASSUME NEW t \in Tasks PROVE Resumable(t) <=> Suspended(t)
  <2> DEFINE InParked == \E i \in DOMAIN Parked : Parked[i] = t
  <2>1. Resumable(t) <=> Done[t] # "out" /\ ~On(rque, t) /\ ~InParked
    BY DEF Resumable, Waiting, On
  <2>2. On(wque, t) <=> \E i \in DOMAIN Named(wque) : Named(wque)[i] = t
    BY <1>1, OnLists
  <2>3. at[t] \in Places
    BY <1>1
  <2>4. CASE holder = None
    <3>1. at[t] \notin Inside
      BY <1>1, <2>4
    <3>2. QED BY <1>3, <2>1, <2>2, <2>3, <2>4, <3>1 DEF Suspended, Places
  <2>5. CASE holder # None /\ (at[cur[holder]] = "received" \/ ~Full)
    <3>1. CASE t = cur[holder]
      BY <1>1, <1>4, <2>1, <2>5, <3>1 DEF Suspended, Inside
    <3>2. CASE t # cur[holder]
      <4>1. at[t] \notin Inside /\ Done[t] = at[t]
        BY <1>1, <1>4, <2>5, <3>2
      <4>2. InParked <=> On(wque, t)
        BY <1>4, <2>2, <2>5
      <4>3. QED BY <2>1, <2>3, <4>1, <4>2 DEF Suspended, Places
    <3>3. QED BY <3>1, <3>2
  <2>6. CASE holder # None /\ at[cur[holder]] = "sent" /\ Full
    <3>1. /\ Len(Named(wque)) \in Nat /\ DOMAIN Named(wque) = 1 .. Len(Named(wque))
          /\ DOMAIN Parked = 1 .. Len(Named(wque)) + 1
          /\ \A i \in 1 .. Len(Named(wque)) : Parked[i] = Named(wque)[i]
          /\ Parked[Len(Named(wque)) + 1] = cur[holder]
      <4> DEFINE n == Named(wque)
                 c == cur[holder]
      <4>1. n \in Seq(Tasks) /\ c \in Tasks /\ Parked = Append(n, c)
        BY <1>1, <1>5, <2>6
      <4> HIDE DEF n, c
      <4>2. /\ Len(n) \in Nat /\ DOMAIN n = 1 .. Len(n) /\ DOMAIN Parked = 1 .. Len(n) + 1
            /\ \A i \in 1 .. Len(n) : Parked[i] = n[i]
            /\ Parked[Len(n) + 1] = c
        BY <4>1
      <4>3. QED BY <4>2 DEF n, c
    <3>2. \A i \in DOMAIN Parked : i \in DOMAIN Named(wque) \/ i = Len(Named(wque)) + 1
      BY <3>1
    <3>3. Len(Named(wque)) + 1 \in DOMAIN Parked /\ \A i \in DOMAIN Named(wque) : i \in DOMAIN Parked
      BY <3>1
    <3>4. InParked <=> On(wque, t) \/ t = cur[holder]
      BY <2>2, <3>1, <3>2, <3>3
    <3>5. CASE t = cur[holder]
      BY <2>1, <2>6, <3>4, <3>5 DEF Suspended
    <3>6. CASE t # cur[holder]
      <4>1. at[t] \notin Inside /\ Done[t] = at[t]
        BY <1>1, <1>5, <2>6, <3>6
      <4>2. QED BY <2>1, <2>3, <3>4, <3>6, <4>1 DEF Suspended, Places
    <3>7. QED BY <3>5, <3>6
  <2>7. QED BY <1>1, <2>4, <2>5, <2>6 DEF Inside
<1>7. QED BY <1>3, <1>4, <1>5, <1>6 DEF MapOK

LEMMA MapNext == ChanInv' => MapOK'
BY MapState, PTL

Resumables == {t \in Tasks : Resumable(t)}

\* A step that neither takes m_mtx nor uses a list, or that ends a critical
\* section, is not seen.
LEMMA Unseen ==
  ASSUME UNCHANGED <<buflen, queue, sends, got>>, Named(rque)' = Named(rque), Parked' = Parked,
         Done' = Done, Resumables' = Resumables
  PROVE  UNCHANGED C!vars
BY DEF C!vars, Resumables

LEMMA ElsewhereUnseen == ASSUME ChanInv, Elsewhere PROVE UNCHANGED C!vars
<1>1. /\ UNCHANGED <<buflen, queue, rque, wque, holder, at, sends, got>>
      /\ holder # None => cur'[holder] = cur[holder]
  BY ElsewhereKeeps DEF chan, lists, history
<1>2. Full' = Full /\ Named(rque)' = Named(rque) /\ Named(wque)' = Named(wque)
  BY <1>1 DEF Full, Named
<1>3. Done' = Done
  BY <1>1, <1>2 DEF Done
<1>4. ToPark' = ToPark
  BY <1>1, <1>2 DEF ToPark
<1>5. Parked' = Parked
  BY <1>2, <1>4 DEF Parked
<1>6. Resumables' = Resumables
  BY <1>1, <1>3, <1>5 DEF Resumables, Resumable, Waiting
<1>7. QED BY <1>1, <1>2, <1>3, <1>5, <1>6, Unseen

\* The task on p is outside or suspended and woken, if it is in no critical section.
LEMMA CallerResumable ==
  ASSUME ChanInv, NEW p \in Procs, pc[p] = "task", at[cur[p]] \in {"send", "recv"}
  PROVE  cur[p] \in Resumables
<1>1. cur[p] \in Tasks /\ ~On(rque, cur[p]) /\ ~On(wque, cur[p])
  BY OthersListed DEF On
<1>2. QED BY <1>1, MapState DEF MapOK, Suspended, Resumables

LEMMA SendEndUnseen == ASSUME ChanInv, ChanInv', NEW p \in Procs, SendEnd(p) PROVE UNCHANGED C!vars
<1> DEFINE t == cur[p]
<1>1. /\ pc[p] = "task" /\ t \in Tasks /\ at[t] = "sent" /\ holder = p /\ holder' = None /\ p # None
      /\ UNCHANGED <<buflen, queue, rque, sends, got>>
      /\ at \in [Tasks -> Places] /\ rque \in Seq(Entry) /\ wque \in Seq(Entry)
  BY AtPlace, OthersListed, Caller DEF SendEnd, history, Inside
<1>2. MapOK /\ MapOK'
  BY MapState, MapNext
<1>3. Named(rque)' = Named(rque) /\ (Full' <=> Full)
  BY <1>1 DEF Named, Full
<1>4. CASE Full
  <2>1. /\ wque' = Append(wque, EntryOf(t)) /\ at' = [at EXCEPT ![t] = "send"]
        /\ EntryOf(t) \in Entry /\ EntryOf(t).t = t
    BY <1>1, <1>4, SuspendFacts DEF SendEnd, Full, To, ChanInv, ChanTypeInv
  <2>2. Named(wque)' = Append(Named(wque), t)
    BY <1>1, <2>1, AppendEntry DEF Named
  <2>3. Done' = Done /\ Parked' = Parked
    BY <1>1, <1>2, <1>4, <2>1, <2>2 DEF MapOK
  <2>4. \A u \in Tasks : Suspended(u)' <=> Suspended(u)
    <3>1. \A u \in Tasks : On(wque', u) <=> On(wque, u) \/ u = t
      BY <1>1, <2>1, OnLists
    <3>2. \A u \in Tasks : at'[u] = IF u = t THEN "send" ELSE at[u]
      BY <1>1, <2>1
    <3>3. QED BY <1>1, <3>1, <3>2 DEF Suspended, On
  <2>5. Resumables' = Resumables
    BY <1>2, <2>4 DEF Resumables, MapOK
  <2>6. QED BY <1>1, <1>3, <2>3, <2>5, Unseen
<1>5. CASE ~Full
  <2>1. wque' = wque /\ at' = [at EXCEPT ![t] = "out"]
    BY <1>1, <1>5 DEF SendEnd, Full, To, ChanInv, ChanTypeInv
  <2>2. Done' = Done /\ Parked' = Parked
    BY <1>1, <1>2, <1>5, <2>1 DEF MapOK, Named
  <2>3. \A u \in Tasks : Suspended(u)' <=> Suspended(u)
    BY <1>1, <2>1 DEF Suspended, On
  <2>4. Resumables' = Resumables
    BY <1>2, <2>3 DEF Resumables, MapOK
  <2>5. QED BY <1>1, <1>3, <2>2, <2>4, Unseen
<1>6. QED BY <1>4, <1>5

LEMMA ReceiveEndUnseen ==
  ASSUME ChanInv, ChanInv', NEW p \in Procs, ReceiveEnd(p) PROVE UNCHANGED C!vars
<1> DEFINE t == cur[p]
<1>1. /\ t \in Tasks /\ at[t] = "received" /\ holder = p /\ holder' = None /\ p # None
      /\ UNCHANGED <<buflen, queue, rque, wque, sends, got>>
      /\ at \in [Tasks -> Places] /\ at' = [at EXCEPT ![t] = "out"]
  BY AtPlace, OthersListed, Caller DEF ReceiveEnd, history, lists, Inside, To
<1>2. MapOK /\ MapOK'
  BY MapState, MapNext
<1>3. Done' = Done /\ Parked' = Parked /\ Named(rque)' = Named(rque)
  BY <1>1, <1>2 DEF MapOK, Named
<1>4. \A u \in Tasks : Suspended(u)' <=> Suspended(u)
  BY <1>1 DEF Suspended, On
<1>5. Resumables' = Resumables
  BY <1>2, <1>4 DEF Resumables, MapOK
<1>6. QED BY <1>1, <1>3, <1>5, Unseen

LEMMA SendResumeSeen ==
  ASSUME ChanInv, ChanInv', NEW p \in Procs, SendResume(p) PROVE C!SendResume(cur[p])
<1> DEFINE t == cur[p]
<1>1. /\ pc[p] = "task" /\ t \in Tasks /\ at[t] = "send" /\ holder = None /\ holder' = None
      /\ UNCHANGED <<buflen, queue, rque, wque, sends, got>>
      /\ at \in [Tasks -> Places] /\ at' = [at EXCEPT ![t] = "out"]
  BY AtPlace, OthersListed DEF SendResume, history, lists, To
<1>2. MapOK /\ MapOK' /\ t \in Resumables
  BY <1>1, MapState, MapNext, CallerResumable
<1>3. /\ Done = at /\ Done' = [Done EXCEPT ![t] = "out"] /\ Parked' = Parked
      /\ Named(rque)' = Named(rque)
  BY <1>1, <1>2 DEF MapOK, Named
<1>4. \A u \in Tasks : Suspended(u)' <=> Suspended(u) /\ u # t
  BY <1>1 DEF Suspended, On
<1>5. Resumables' = Resumables \ {t}
  BY <1>2, <1>4 DEF Resumables, MapOK
<1>6. QED BY <1>1, <1>2, <1>3, <1>5 DEF C!SendResume, Resumables

LEMMA ReceiveWaitSeen ==
  ASSUME ChanInv, ChanInv', NEW p \in Procs, ReceiveWait(p) PROVE C!ReceiveWait(cur[p])
<1> DEFINE t == cur[p]
           e == EntryOf(t)
<1>1. /\ pc[p] = "task" /\ t \in Tasks /\ at[t] \in {"out", "recv"} /\ holder = None /\ holder' = None
      /\ UNCHANGED <<buflen, queue, wque, sends, got>> /\ queue = <<>>
      /\ at \in [Tasks -> Places] /\ at' = [at EXCEPT ![t] = "recv"]
      /\ rque' = Append(rque, e) /\ e \in Entry /\ e.t = t /\ rque \in Seq(Entry)
  BY AtPlace, OthersListed, SuspendFacts DEF ReceiveWait, history, To
<1>2. MapOK /\ MapOK' /\ (at[t] = "recv" => t \in Resumables)
  BY <1>1, MapState, MapNext, CallerResumable
<1>3. /\ Done = at /\ Done' = [Done EXCEPT ![t] = "recv"] /\ Parked' = Parked
      /\ Named(rque)' = Append(Named(rque), t)
  BY <1>1, <1>2, AppendEntry DEF MapOK, Named
<1>4. \A u \in Tasks : Suspended(u)' <=> Suspended(u) /\ u # t
  <2>1. \A u \in Tasks : On(rque', u) <=> On(rque, u) \/ u = t
    BY <1>1, OnLists
  <2>2. \A u \in Tasks \ {t} : at'[u] = at[u]
    BY <1>1
  <2>3. QED BY <1>1, <2>1, <2>2 DEF Suspended, On
<1>5. Resumables' = Resumables \ {t}
  BY <1>2, <1>4 DEF Resumables, MapOK
<1>6. C!AtReceive(t)
  BY <1>1, <1>2, <1>3 DEF C!AtReceive, Resumables
<1>7. QED BY <1>1, <1>3, <1>5, <1>6 DEF C!ReceiveWait, Resumables

LEMMA SendSeen == ASSUME ChanInv, ChanInv', NEW p \in Procs, SendBegin(p) PROVE C!Send(cur[p])
<1> DEFINE t == cur[p]
           x == [from |-> t, n |-> sends[t] + 1]
           q == Named(rque)
<1>1. /\ pc[p] = "task" /\ wake[p] = Awake /\ t \in Tasks /\ at[t] = "out"
      /\ holder = None /\ holder' = p /\ p # None
      /\ sends[t] < MaxSends /\ sends' = [sends EXCEPT ![t] = @ + 1]
      /\ queue' = Append(queue, x) /\ WakeFront(p, rque) /\ rque' = Rest(rque)
      /\ UNCHANGED <<buflen, wque, got>>
      /\ at \in [Tasks -> Places] /\ at' = [at EXCEPT ![t] = "sent"]
      /\ rque \in Seq(Entry) /\ wque \in Seq(Entry)
  BY AtPlace, OthersListed, Caller DEF SendBegin, To
<1>2. cur' = cur /\ Apart(rque)
  BY <1>1, WakeFrontFacts DEF ChanInv, ListedInv
<1>3. MapOK /\ MapOK'
  BY MapState, MapNext
<1>4. Full' <=> C!AboveCapacity
  <2>1. Len(queue') = Len(queue) + 1
    BY <1>1 DEF ChanInv, ChanTypeInv
  <2>2. QED BY <1>1, <2>1 DEF Full, C!AboveCapacity
<1>5. Done = at /\ Parked = Named(wque) /\ Named(wque)' = Named(wque)
  BY <1>1, <1>3 DEF MapOK, Named
<1>6. ASSUME Full'
      PROVE  Parked' = Append(Parked, t) /\ Done' = [Done EXCEPT ![t] = "send"]
  <2>1. Done' = [at' EXCEPT ![t] = "send"] /\ Parked' = Append(Named(wque), t)
    BY <1>1, <1>2, <1>3, <1>5, <1>6 DEF MapOK
  <2>2. QED BY <1>1, <1>5, <2>1
<1>7. ASSUME ~Full' PROVE UNCHANGED <<Parked, Done>>
  <2>1. Done' = [at' EXCEPT ![t] = "out"] /\ Parked' = Named(wque)
    BY <1>1, <1>2, <1>3, <1>5, <1>7 DEF MapOK
  <2>2. QED BY <1>1, <1>5, <2>1
<1>8. IF C!AboveCapacity
      THEN Parked' = Append(Parked, t) /\ Done' = [Done EXCEPT ![t] = "send"]
      ELSE UNCHANGED <<Parked, Done>>
  BY <1>4, <1>5, <1>6, <1>7
<1>9. IF q # <<>>
      THEN Resumables' = Resumables \cup {Head(q)} /\ Named(rque)' = Tail(q)
      ELSE UNCHANGED <<Resumables, Named(rque)>>
  <2>1. at'[t] = "sent" /\ \A u \in Tasks \ {t} : at'[u] = at[u]
    BY <1>1
  <2>2. CASE rque = <<>>
    <3>1. rque' = rque /\ q = <<>>
      BY <1>1, <2>2, NamedType DEF Rest
    <3>2. \A u \in Tasks : Suspended(u)' <=> Suspended(u)
      BY <1>1, <2>1, <3>1 DEF Suspended, On
    <3>3. Resumables' = Resumables
      BY <1>3, <3>2 DEF Resumables, MapOK
    <3>4. QED BY <3>1, <3>3 DEF Named
  <2>3. CASE rque # <<>>
    <3> DEFINE h == Head(rque).t
    <3>1. /\ rque' = Tail(rque) /\ q # <<>> /\ Named(rque)' = Tail(q) /\ Head(q) = h
          /\ 1 \in DOMAIN rque /\ Head(rque) = rque[1]
      BY <1>1, <1>2, <2>3, RestEntries DEF Rest, Named
    <3>2. h \in Tasks \ {t} /\ at[h] = "recv" /\ ~On(wque, h)
      BY <1>1, <3>1, OthersListed, ListsApart DEF ChanInv, ListedInv, On
    <3>3. \A u \in Tasks : On(rque', u) <=> On(rque, u) /\ u # h
      BY <1>1, <1>2, <2>3, <3>1, OnLists
    <3>4. \A u \in Tasks : On(wque', u) <=> On(wque, u)
      BY <1>1 DEF On
    <3> HIDE DEF h
    <3>5. \A u \in Tasks : Suspended(u)' <=> Suspended(u) \/ u = h
      BY <1>1, <2>1, <3>2, <3>3, <3>4 DEF Suspended
    <3>6. Resumables' = Resumables \cup {h}
      BY <1>3, <3>2, <3>5 DEF Resumables, MapOK
    <3>7. QED BY <3>1, <3>6 DEF h
  <2>4. QED BY <2>2, <2>3
<1>10. C!WakeReader
  BY <1>9 DEF C!WakeReader, Resumables
<1>11. QED BY <1>1, <1>5, <1>8, <1>10 DEF C!Send

LEMMA ReceiveTakeSeen ==
  ASSUME ChanInv, ChanInv', NEW p \in Procs, ReceiveTake(p) PROVE C!Receive(cur[p])
<1> DEFINE t == cur[p]
           q == Named(wque)
<1>1. /\ pc[p] = "task" /\ wake[p] = Awake /\ t \in Tasks /\ at[t] \in {"out", "recv"}
      /\ holder = None /\ holder' = p /\ p # None
      /\ queue # <<>> /\ queue' = Tail(queue) /\ got' = Append(got, Head(queue))
      /\ WakeFront(p, wque) /\ wque' = Rest(wque)
      /\ UNCHANGED <<buflen, rque, sends>>
      /\ at \in [Tasks -> Places] /\ at' = [at EXCEPT ![t] = "received"]
      /\ rque \in Seq(Entry) /\ wque \in Seq(Entry)
  BY AtPlace, OthersListed, Caller DEF ReceiveTake, To
<1>2. cur' = cur /\ Apart(wque)
  BY <1>1, WakeFrontFacts DEF ChanInv, ListedInv
<1>3. MapOK /\ MapOK' /\ (at[t] = "recv" => t \in Resumables)
  BY <1>1, MapState, MapNext, CallerResumable
<1>4. Done = at /\ Parked = q /\ Named(rque)' = Named(rque)
  BY <1>1, <1>3 DEF MapOK, Named
<1>5. at'[t] = "received" /\ \A u \in Tasks \ {t} : at'[u] = at[u]
  BY <1>1
<1>6. Done' = [Done EXCEPT ![t] = "out"] /\ Parked' = Named(wque)'
  <2>1. Done' = [at' EXCEPT ![t] = "out"] /\ Parked' = Named(wque)'
    BY <1>1, <1>2, <1>3, <1>5 DEF MapOK
  <2>2. QED BY <1>1, <1>4, <2>1
<1>7. IF q # <<>>
      THEN Resumables' = (Resumables \ {t}) \cup {Head(q)} /\ Named(wque)' = Tail(q)
      ELSE Resumables' = Resumables \ {t} /\ Named(wque)' = q
  <2>1. CASE wque = <<>>
    <3>1. wque' = wque /\ q = <<>>
      BY <1>1, <2>1, NamedType DEF Rest
    <3>2. \A u \in Tasks : Suspended(u)' <=> Suspended(u) /\ u # t
      BY <1>1, <1>5, <3>1 DEF Suspended, On
    <3>3. Resumables' = Resumables \ {t}
      BY <1>3, <3>2 DEF Resumables, MapOK
    <3>4. QED BY <3>1, <3>3 DEF Named
  <2>2. CASE wque # <<>>
    <3> DEFINE h == Head(wque).t
    <3>1. /\ wque' = Tail(wque) /\ q # <<>> /\ Named(wque)' = Tail(q) /\ Head(q) = h
          /\ 1 \in DOMAIN wque /\ Head(wque) = wque[1]
      BY <1>1, <1>2, <2>2, RestEntries DEF Rest, Named
    <3>2. h \in Tasks \ {t} /\ at[h] = "send" /\ ~On(rque, h)
      BY <1>1, <3>1, OthersListed, ListsApart DEF ChanInv, ListedInv, On
    <3>3. \A u \in Tasks : On(wque', u) <=> On(wque, u) /\ u # h
      BY <1>1, <1>2, <2>2, <3>1, OnLists
    <3>4. \A u \in Tasks : On(rque', u) <=> On(rque, u)
      BY <1>1 DEF On
    <3> HIDE DEF h
    <3>5. \A u \in Tasks : Suspended(u)' <=> (Suspended(u) /\ u # t) \/ u = h
      BY <1>1, <1>5, <3>2, <3>3, <3>4 DEF Suspended
    <3>6. Resumables' = (Resumables \ {t}) \cup {h}
      BY <1>3, <3>2, <3>5 DEF Resumables, MapOK
    <3>7. QED BY <3>1, <3>6 DEF h
  <2>3. QED BY <2>1, <2>2
<1>8. C!AtReceive(t)
  BY <1>1, <1>3, <1>4 DEF C!AtReceive, Resumables
<1>9. QED BY <1>1, <1>4, <1>6, <1>7, <1>8 DEF C!Receive, Resumables

LEMMA StartsAsChannel == ChanInit => C!Init
<1> SUFFICES ASSUME ChanInit PROVE C!Init
  OBVIOUS
<1>1. ChanInv /\ holder = None /\ rque = <<>> /\ wque = <<>> /\ at = [t \in Tasks |-> "out"]
  BY InitChan DEF ChanInit
<1>2. Named(rque) = <<>> /\ Named(wque) = <<>>
  BY <1>1, NamedType DEF ChanInv, ChanTypeInv
<1>3. MapOK
  BY <1>1, MapState
<1>4. Done = [t \in Tasks |-> "out"] /\ Parked = <<>>
  BY <1>1, <1>2, <1>3 DEF MapOK
<1>5. Resumables = {}
  BY <1>1, <1>3 DEF Resumables, MapOK, Suspended
<1>6. QED BY <1>2, <1>4, <1>5 DEF C!Init, ChanInit, Resumables

LEMMA StepSeen == ASSUME ChanInv, ChanInv', [ChanNext]_allvars PROVE [C!Next]_(C!vars)
<1>1. CASE Elsewhere
  BY <1>1, ElsewhereUnseen
<1>2. ASSUME NEW p \in Procs, ChannelStep(p) PROVE [C!Next]_(C!vars)
  <2>1. CASE SendEnd(p) \/ ReceiveEnd(p)
    BY <2>1, SendEndUnseen, ReceiveEndUnseen
  <2>2. CASE SendBegin(p) \/ SendResume(p) \/ ReceiveWait(p) \/ ReceiveTake(p)
    <3>1. cur[p] \in Tasks
      BY <2>2, AtPlace DEF SendBegin, SendResume, ReceiveWait, ReceiveTake
    <3>2. C!Send(cur[p]) \/ C!SendResume(cur[p]) \/ C!ReceiveWait(cur[p]) \/ C!Receive(cur[p])
      BY <2>2, SendSeen, SendResumeSeen, ReceiveWaitSeen, ReceiveTakeSeen
    <3>3. QED BY <3>1, <3>2 DEF C!Next
  <2>3. QED BY <1>2, <2>1, <2>2 DEF ChannelStep
<1>3. CASE UNCHANGED allvars
  <2>1. UNCHANGED <<buflen, queue, rque, wque, holder, at, sends, got, cur>>
    BY <1>3 DEF allvars, chan, lists, history, vars, thread
  <2>2. Full' = Full /\ Named(rque)' = Named(rque) /\ Named(wque)' = Named(wque)
    BY <2>1 DEF Full, Named
  <2>3. Done' = Done /\ ToPark' = ToPark
    BY <2>1, <2>2 DEF Done, ToPark
  <2>4. Parked' = Parked
    BY <2>2, <2>3 DEF Parked
  <2>5. Resumables' = Resumables
    BY <2>1, <2>3, <2>4 DEF Resumables, Resumable, Waiting
  <2>6. QED BY <2>1, <2>2, <2>3, <2>4, <2>5, Unseen
<1>4. QED BY <1>1, <1>2, <1>3 DEF ChanNext, Elsewhere

\* channel.h on the scheduler does nothing that Channel does not allow.
THEOREM ChannelOnScheduler == ChanSpec => ImplementsChannel
BY StartsAsChannel, StepSeen, ChanSpecInv, PTL DEF ChanSpec, ImplementsChannel, C!Spec
=============================================================================
