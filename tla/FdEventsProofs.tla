--------------------------- MODULE FdEventsProofs ---------------------------
(***************************************************************************)
(* Proofs about FdEvents for any number of tasks, descriptors and contexts *)
(* and whichever discipline the program follows; and, at the end, about    *)
(* the flags and connections that Hooks keeps for the same descriptors.    *)
(***************************************************************************)
EXTENDS FdEvents, Hooks, FiniteSetTheorems, TLAPS

InCall == {"push", "ctl", "asleep"}
Closing == {"erase", "delete", "close"}
Handling == {"pop", "wake", "remove"}

TypeInv ==
    /\ mode \in {"shared", "private", "any"}
    /\ open \subseteq Fds /\ owner \in [Fds -> Tasks \cup {None}]
    /\ made \in 0 .. MaxContexts /\ ctx \in [Fds -> Contexts \cup {None}]
    /\ freed \subseteq Contexts
    /\ que \in [Contexts -> [Events -> Seq(Tasks)]]
    /\ lock \in [Contexts -> Tasks \cup {None}]
    /\ reg \in [Fds -> Events \cup {"none"}]
    /\ ready \subseteq Fds \X Events
    /\ tpc \in [Tasks -> {"run"} \cup InCall \cup Closing]
    /\ tfd \in [Tasks -> Fds \cup {None}] /\ tev \in [Tasks -> Events \cup {"none"}]
    /\ tctx \in [Tasks -> Contexts \cup {None}]
    /\ woken \subseteq Tasks
    /\ epc \in {"wait", "next", "del", "crashed"} \cup Handling
    /\ batch \subseteq [fd : Fds, ev : Events]
    /\ entry \in Tasks \cup {None} /\ usedFreed \in BOOLEAN

\* A step of a call, or of the epoll thread, finds the descriptor, the event and
\* the context it is about.
HeldInv ==
    /\ \A t \in Tasks :
        /\ tpc[t] \in InCall \cup Closing => tfd[t] \in Fds
        /\ tpc[t] \in InCall => tev[t] \in Events
        /\ tpc[t] \in InCall \cup {"erase", "delete"} => tctx[t] \in Contexts
        /\ tpc[t] = "ctl" => lock[tctx[t]] = t
    /\ \A c \in Contexts : lock[c] # None => tpc[lock[c]] = "ctl" /\ tctx[lock[c]] = c
    /\ epc \in Handling => ecur \in [fd : Fds, ev : Events] /\ ectx \in Contexts
    /\ entry # None <=> epc = "wake"

\* A task that waits is on the list of its context and event, once, or the epoll
\* thread has just taken it off, or its context was deleted; nobody else is on a list.
Sleeps(t) == tpc[t] \in {"ctl", "asleep"} /\ t \notin woken
Has(q, t) == \E i \in DOMAIN q : q[i] = t
Once(q) == \A i, j \in DOMAIN q : q[i] = q[j] => i = j

ListInv ==
    /\ \A t \in Tasks, c \in Contexts, e \in Events :
        Has(que[c][e], t) => Sleeps(t) /\ entry # t /\ c = tctx[t] /\ e = tev[t]
    /\ \A t \in Tasks : Sleeps(t) /\ entry # t /\ tctx[t] \notin freed =>
        Has(que[tctx[t]][tev[t]], t)
    /\ \A c \in Contexts, e \in Events : Once(que[c][e])
    /\ entry # None => /\ Sleeps(entry) /\ tpc[entry] = "asleep"
                       /\ ectx = tctx[entry] /\ ecur.ev = tev[entry]
    /\ \A t \in woken : tpc[t] = "asleep"
-----------------------------------------------------------------------------
LEMMA InitType == Init => TypeInv /\ HeldInv
<1> SUFFICES ASSUME Init PROVE TypeInv /\ HeldInv
  OBVIOUS
<1>1. TypeInv
  <2>1. que \in [Contexts -> [Events -> Seq(Tasks)]]
    BY DEF Init
  <2>2. 0 \in 0 .. MaxContexts
    BY FdAssumption
  <2>3. mode \in {"shared", "private", "any"}
    BY FdAssumption DEF Init
  <2>4. QED BY <2>1, <2>2, <2>3 DEF Init, TypeInv
<1>2. HeldInv
  BY FdAssumption DEF Init, HeldInv, InCall, Closing, Handling
<1>3. QED BY <1>1, <1>2

LEMMA TaskType ==
  ASSUME TypeInv, HeldInv, NEW t \in Tasks, TaskStep(t)
  PROVE  TypeInv' /\ HeldInv'
<1> USE FdAssumption DEF fdvars, taskvars, evars, Contexts
<1>1. CASE \E f \in Fds : Socket(t, f)
  <2>1. TypeInv'
    BY <1>1 DEF TypeInv, Socket
  <2>2. HeldInv'
    BY <1>1 DEF HeldInv, Socket
  <2>3. QED BY <2>1, <2>2
<1>2. CASE \E f \in Fds : CloseGet(t, f)
  <2>1. TypeInv'
    BY <1>2 DEF TypeInv, CloseGet, MayUse, Closing
  <2>2. HeldInv'
    BY <1>2 DEF TypeInv, HeldInv, CloseGet, MayUse, InCall, Closing
  <2>3. QED BY <2>1, <2>2
<1>3. CASE \E f \in Fds : SetNonBlocking(t, f)
  <2>1. TypeInv'
    BY <1>3 DEF TypeInv, SetNonBlocking
  <2>2. HeldInv'
    BY <1>3 DEF HeldInv, SetNonBlocking
  <2>3. QED BY <2>1, <2>2
<1>4. CASE \E f \in Fds, e \in Events : Hook(t, f, e)
  <2>1. TypeInv'
    BY <1>4 DEF TypeInv, Hook, MayUse, InCall
  <2>2. HeldInv'
    BY <1>4 DEF TypeInv, HeldInv, Hook, MayUse, InCall, Closing
  <2>3. QED BY <2>1, <2>2
<1>5. CASE \E f \in Fds, e \in Events : CallAtOnce(t, f, e)
  <2>1. TypeInv'
    BY <1>5 DEF TypeInv, CallAtOnce
  <2>2. HeldInv'
    BY <1>5 DEF HeldInv, CallAtOnce
  <2>3. QED BY <2>1, <2>2
<1>6. CASE AddPush(t)
  <2> DEFINE c == tctx[t]  e == tev[t]
  <2>1. c \in Contexts /\ e \in Events /\ lock[c] = None
    BY <1>6 DEF HeldInv, AddPush, InCall
  <2>2. que' = [que EXCEPT ![c][e] = Append(@, t)] /\ que' \in [Contexts -> [Events -> Seq(Tasks)]]
    BY <1>6, <2>1 DEF AddPush, TypeInv
  <2>3. TypeInv'
    BY <1>6, <2>1, <2>2 DEF TypeInv, AddPush, InCall
  <2>4. HeldInv'
    BY <1>6, <2>1 DEF TypeInv, HeldInv, AddPush, InCall, Closing
  <2>5. QED BY <2>3, <2>4
<1>7. CASE AddCtl(t)
  <2>1. tctx[t] \in Contexts /\ tev[t] \in Events /\ tfd[t] \in Fds /\ lock[tctx[t]] = t
    BY <1>7 DEF HeldInv, AddCtl, InCall
  <2>2. TypeInv'
    BY <1>7, <2>1 DEF TypeInv, AddCtl, InCall
  <2>3. HeldInv'
    BY <1>7, <2>1 DEF TypeInv, HeldInv, AddCtl, InCall, Closing
  <2>4. QED BY <2>2, <2>3
<1>8. CASE Return(t)
  <2>1. TypeInv'
    BY <1>8 DEF TypeInv, Return
  <2>2. HeldInv'
    BY <1>8 DEF TypeInv, HeldInv, Return, InCall, Closing
  <2>3. QED BY <2>1, <2>2
<1>9. CASE CloseDelete(t)
  <2> DEFINE c == tctx[t]
  <2>1. TypeInv'
    <3>1. c \in Contexts
      BY <1>9 DEF HeldInv, CloseDelete
    <3>2. que' = [que EXCEPT ![c] = [e \in Events |-> <<>>]]
      BY <1>9 DEF CloseDelete
    <3>3. [e \in Events |-> <<>>] \in [Events -> Seq(Tasks)]
      OBVIOUS
    <3>4. que' \in [Contexts -> [Events -> Seq(Tasks)]]
      BY <3>1, <3>2, <3>3 DEF TypeInv
    <3>5. QED BY <1>9, <3>1, <3>4 DEF TypeInv, CloseDelete, InCall, Closing
  <2>2. HeldInv'
    BY <1>9 DEF TypeInv, HeldInv, CloseDelete, InCall, Closing
  <2>3. QED BY <2>1, <2>2
<1>10. CASE CloseFd(t)
  <2>1. TypeInv'
    BY <1>10 DEF TypeInv, HeldInv, CloseFd, InCall, Closing
  <2>2. HeldInv'
    BY <1>10 DEF TypeInv, HeldInv, CloseFd, InCall, Closing
  <2>3. QED BY <2>1, <2>2
<1>11. CASE CloseErase(t)
  <2>1. TypeInv'
    BY <1>11 DEF TypeInv, CloseErase, Closing
  <2>2. HeldInv'
    BY <1>11 DEF TypeInv, HeldInv, CloseErase, InCall, Closing
  <2>3. QED BY <2>1, <2>2
<1>12. QED
  BY <1>1, <1>2, <1>3, <1>4, <1>5, <1>6, <1>7, <1>8, <1>9, <1>10, <1>11 DEF TaskStep

LEMMA EpollType == ASSUME TypeInv, HeldInv, EpollStep PROVE TypeInv' /\ HeldInv'
<1> USE FdAssumption DEF fdvars, taskvars, Contexts, Handling
<1>1. CASE EpollWait
  <2>1. batch' \subseteq [fd : Fds, ev : Events]
    <3> SUFFICES ASSUME NEW x \in batch' PROVE x \in [fd : Fds, ev : Events]
      OBVIOUS
    <3>1. PICK f \in Fds : <<f, reg[f]>> \in ready /\ x = [fd |-> f, ev |-> reg[f]]
      BY <1>1 DEF EpollWait
    <3>2. <<f, reg[f]>> \in Fds \X Events
      BY <3>1 DEF TypeInv
    <3>3. reg[f] \in Events
      BY <3>2
    <3>4. QED BY <3>1, <3>3
  <2>2. TypeInv'
    BY <1>1, <2>1 DEF TypeInv, EpollWait
  <2>3. HeldInv'
    BY <1>1 DEF HeldInv, EpollWait
  <2>4. QED BY <2>2, <2>3
<1>2. CASE NextEvent
  <2>1. TypeInv'
    BY <1>2 DEF TypeInv, NextEvent
  <2>2. HeldInv'
    <3>1. entry = None /\ UNCHANGED <<entry, tpc, tfd, tev, tctx, lock>>
      BY <1>2 DEF HeldInv, NextEvent
    <3>2. epc' \in Handling => ecur' \in [fd : Fds, ev : Events] /\ ectx' \in Contexts
      BY <1>2 DEF TypeInv, NextEvent
    <3>3. epc' # "wake"
      BY <1>2 DEF NextEvent
    <3>4. QED BY <3>1, <3>2, <3>3 DEF HeldInv
  <2>3. QED BY <2>1, <2>2
<1>3. CASE PopEntry
  <2> DEFINE c == ectx  e == ecur.ev
  <2>1. c \in Contexts /\ e \in Events /\ que[c][e] \in Seq(Tasks)
    BY <1>3 DEF HeldInv, TypeInv, PopEntry
  <2>2. que' \in [Contexts -> [Events -> Seq(Tasks)]] /\ entry' \in Tasks \cup {None}
    <3>1. CASE UNCHANGED <<entry, que>>
      BY <3>1 DEF TypeInv
    <3>2. CASE /\ que[c][e] # <<>> /\ entry' = Head(que[c][e])
               /\ que' = [que EXCEPT ![c][e] = Tail(@)]
      <4>1. Head(que[c][e]) \in Tasks /\ Tail(que[c][e]) \in Seq(Tasks)
        BY <2>1, <3>2
      <4>2. QED BY <2>1, <3>2, <4>1 DEF TypeInv
    <3>3. QED BY <1>3, <3>1, <3>2 DEF PopEntry
  <2>3. TypeInv'
    BY <1>3, <2>2 DEF TypeInv, PopEntry
  <2>4. HeldInv'
    BY <1>3, <2>1, <2>2 DEF TypeInv, HeldInv, PopEntry
  <2>5. QED BY <2>3, <2>4
<1>4. CASE WakeEntry
  <2>1. TypeInv'
    BY <1>4 DEF TypeInv, HeldInv, WakeEntry
  <2>2. HeldInv'
    BY <1>4 DEF TypeInv, HeldInv, WakeEntry
  <2>3. QED BY <2>1, <2>2
<1>5. CASE ReadFd
  <2>1. TypeInv'
    BY <1>5 DEF TypeInv, ReadFd
  <2>2. HeldInv'
    BY <1>5 DEF HeldInv, ReadFd
  <2>3. QED BY <2>1, <2>2
<1>6. CASE RemoveEvent
  <2>1. TypeInv'
    BY <1>6 DEF TypeInv, RemoveEvent
  <2>2. HeldInv'
    BY <1>6 DEF HeldInv, RemoveEvent
  <2>3. QED BY <2>1, <2>2
<1>7. QED BY <1>1, <1>2, <1>3, <1>4, <1>5, <1>6 DEF EpollStep

LEMMA TypesHold ==
  ASSUME TypeInv, HeldInv, [Next]_vars
  PROVE  TypeInv' /\ HeldInv'
<1>1. CASE \E f \in Fds, e \in Events : BecomeReady(f, e)
  <2>1. TypeInv'
    BY <1>1 DEF TypeInv, BecomeReady, fdvars, taskvars, evars
  <2>2. HeldInv'
    BY <1>1 DEF HeldInv, BecomeReady, fdvars, taskvars, evars
  <2>3. QED BY <2>1, <2>2
<1>2. CASE UNCHANGED vars
  <2>1. TypeInv'
    BY <1>2 DEF TypeInv, vars, fdvars, taskvars, evars
  <2>2. HeldInv'
    BY <1>2 DEF HeldInv, vars, fdvars, taskvars, evars
  <2>3. QED BY <2>1, <2>2
<1>3. QED BY <1>1, <1>2, TaskType, EpollType DEF Next
-----------------------------------------------------------------------------
(* Lists of suspended entries *)

LEMMA AppendOnce ==
    ASSUME NEW q \in Seq(Tasks), NEW u \in Tasks, ~Has(q, u), Once(q)
    PROVE  /\ \A t \in Tasks : Has(Append(q, u), t) <=> Has(q, t) \/ t = u
           /\ Once(Append(q, u))
<1>1. /\ Append(q, u) \in Seq(Tasks) /\ Len(q) \in Nat
      /\ DOMAIN q = 1 .. Len(q)
      /\ DOMAIN Append(q, u) = 1 .. Len(q) + 1
      /\ Append(q, u)[Len(q) + 1] = u
      /\ \A i \in 1 .. Len(q) : Append(q, u)[i] = q[i]
  OBVIOUS
<1>2. \A t \in Tasks : Has(Append(q, u), t) <=> Has(q, t) \/ t = u
  BY <1>1 DEF Has
<1>3. Once(Append(q, u))
  <2>1. ASSUME NEW i \in 1 .. Len(q) + 1, NEW j \in 1 .. Len(q) + 1,
               Append(q, u)[i] = Append(q, u)[j]
        PROVE  i = j
    <3>1. \A k \in 1 .. Len(q) : q[k] # u
      BY <1>1 DEF Has
    <3>2. QED BY <1>1, <2>1, <3>1 DEF Once
  <2>2. QED BY <1>1, <2>1 DEF Once
<1>4. QED BY <1>2, <1>3

LEMMA TailOnce ==
    ASSUME NEW q \in Seq(Tasks), q # <<>>, Once(q)
    PROVE  /\ Head(q) \in Tasks /\ Has(q, Head(q))
           /\ \A t \in Tasks : Has(Tail(q), t) <=> Has(q, t) /\ t # Head(q)
           /\ Once(Tail(q))
<1>1. /\ Head(q) \in Tasks /\ Tail(q) \in Seq(Tasks)
      /\ Len(q) \in Nat \ {0} /\ Head(q) = q[1]
      /\ DOMAIN q = 1 .. Len(q) /\ DOMAIN Tail(q) = 1 .. Len(q) - 1
      /\ \A i \in 1 .. Len(q) - 1 : Tail(q)[i] = q[i + 1]
  OBVIOUS
<1>2. Has(q, Head(q))
  <2>1. 1 \in DOMAIN q
    BY <1>1
  <2>2. QED BY <1>1, <2>1 DEF Has
<1>3. ASSUME NEW t \in Tasks, Has(Tail(q), t) PROVE Has(q, t) /\ t # Head(q)
  <2>1. PICK i \in 1 .. Len(q) - 1 : q[i + 1] = t
    BY <1>1, <1>3 DEF Has
  <2>2. i + 1 \in DOMAIN q /\ i + 1 # 1 /\ 1 \in DOMAIN q
    BY <1>1, <2>1
  <2>3. QED BY <1>1, <2>1, <2>2 DEF Has, Once
<1>4. ASSUME NEW t \in Tasks, Has(q, t), t # Head(q) PROVE Has(Tail(q), t)
  <2>1. PICK i \in 1 .. Len(q) : q[i] = t
    BY <1>1, <1>4 DEF Has
  <2>2. i - 1 \in 1 .. Len(q) - 1 /\ (i - 1) + 1 = i
    BY <1>1, <1>4, <2>1
  <2>3. QED BY <1>1, <2>1, <2>2 DEF Has
<1>5. Once(Tail(q))
  <2>1. ASSUME NEW i \in 1 .. Len(q) - 1, NEW j \in 1 .. Len(q) - 1, Tail(q)[i] = Tail(q)[j]
        PROVE  i = j
    <3>1. i + 1 \in DOMAIN q /\ j + 1 \in DOMAIN q /\ q[i + 1] = q[j + 1]
      BY <1>1, <2>1
    <3>2. i + 1 = j + 1
      BY <3>1 DEF Once
    <3>3. QED BY <3>2
  <2>2. QED BY <1>1, <2>1 DEF Once
<1>6. QED BY <1>1, <1>2, <1>3, <1>4, <1>5
-----------------------------------------------------------------------------
(* ListInv *)

LEMMA InitList == Init => ListInv
<1> SUFFICES ASSUME Init PROVE ListInv
  OBVIOUS
<1>1. \A c \in Contexts, e \in Events : que[c][e] = <<>>
  BY DEF Init
<1>2. woken = {} /\ entry = None /\ \A t \in Tasks : tpc[t] = "run"
  BY DEF Init
<1>3. QED BY <1>1, <1>2 DEF ListInv, Has, Once, Sleeps

\* What a step that touches no list and wakes nobody has to keep.
LEMMA ListsKept ==
  ASSUME TypeInv, ListInv, UNCHANGED <<que, entry, freed>>,
         entry # None => ectx' = ectx /\ ecur' = ecur,
         \A t \in Tasks : Sleeps(t)' <=> Sleeps(t),
         \A t \in Tasks : Sleeps(t) => tctx'[t] = tctx[t] /\ tev'[t] = tev[t],
         \A t \in Tasks : Sleeps(t) /\ tpc[t] = "asleep" => tpc'[t] = "asleep",
         \A t \in woken' : tpc'[t] = "asleep"
  PROVE  ListInv'
<1>1. \A t \in Tasks, c \in Contexts, e \in Events :
        Has(que[c][e], t) => Sleeps(t)' /\ entry # t /\ c = tctx'[t] /\ e = tev'[t]
  BY DEF ListInv
<1>2. \A t \in Tasks : Sleeps(t)' /\ entry # t /\ tctx'[t] \notin freed =>
        Has(que[tctx'[t]][tev'[t]], t)
  BY DEF ListInv
<1>3. entry # None => /\ Sleeps(entry)' /\ tpc'[entry] = "asleep"
                      /\ ectx' = tctx'[entry] /\ ecur'.ev = tev'[entry]
  BY DEF ListInv, TypeInv
<1>4. QED BY <1>1, <1>2, <1>3 DEF ListInv

\* Steps of tasks that are outside a call, enter one or leave one.
LEMMA OutsideLists ==
  ASSUME TypeInv, ListInv, NEW t \in Tasks, NEW f \in Fds, NEW e \in Events,
         \/ Socket(t, f) \/ CloseGet(t, f) \/ SetNonBlocking(t, f)
         \/ Hook(t, f, e) \/ CallAtOnce(t, f, e) \/ CloseErase(t) \/ CloseFd(t)
  PROVE  ListInv'
<1>1. /\ tpc[t] \notin {"ctl", "asleep"} /\ tpc'[t] \notin {"ctl", "asleep"}
      /\ UNCHANGED <<que, entry, ectx, ecur, woken, freed>>
      /\ \A u \in Tasks : u # t => tpc'[u] = tpc[u] /\ tctx'[u] = tctx[u] /\ tev'[u] = tev[u]
  BY DEF TypeInv, Socket, CloseGet, CloseErase, SetNonBlocking, Hook, CallAtOnce, CloseFd,
         fdvars, taskvars, evars
<1>2. \A u \in Tasks : Sleeps(u)' <=> Sleeps(u)
  BY <1>1 DEF Sleeps
<1>3. t \notin woken
  BY <1>1 DEF ListInv
<1>4. \A u \in woken' : tpc'[u] = "asleep"
  BY <1>1, <1>3 DEF ListInv, TypeInv
<1>5. \A u \in Tasks : Sleeps(u) => u # t
  BY <1>1 DEF Sleeps
<1>6. QED BY <1>1, <1>2, <1>4, <1>5, ListsKept

LEMMA AddPushLists ==
  ASSUME TypeInv, HeldInv, ListInv, NEW t \in Tasks, AddPush(t) PROVE ListInv'
<1> DEFINE c == tctx[t]  e == tev[t]
<1>1. /\ tpc[t] = "push" /\ c \in Contexts /\ e \in Events /\ t \notin woken /\ entry # t
      /\ que[c][e] \in Seq(Tasks) /\ ~Has(que[c][e], t) /\ Once(que[c][e])
  <2>1. tpc[t] = "push" /\ c \in Contexts /\ e \in Events
    BY DEF AddPush, HeldInv, InCall
  <2>2. t \notin woken /\ ~Sleeps(t) /\ entry # t
    BY <2>1, FdAssumption DEF ListInv, Sleeps
  <2>3. que[c][e] \in Seq(Tasks)
    BY <2>1 DEF TypeInv
  <2> HIDE DEF c, e
  <2>4. ~Has(que[c][e], t) /\ Once(que[c][e])
    BY <2>1, <2>2 DEF ListInv
  <2>5. QED BY <2>1, <2>2, <2>3, <2>4
<1>2. /\ que' = [que EXCEPT ![c][e] = Append(@, t)] /\ tpc' = [tpc EXCEPT ![t] = "ctl"]
      /\ UNCHANGED <<entry, ectx, ecur, woken, tctx, tev>>
  BY DEF AddPush, evars
<1>3. \A d \in Contexts, g \in Events :
        que'[d][g] = IF d = c /\ g = e THEN Append(que[c][e], t) ELSE que[d][g]
  BY <1>1, <1>2 DEF TypeInv
<1>4. \A u \in Tasks : Sleeps(u)' <=> Sleeps(u) \/ u = t
  BY <1>1, <1>2 DEF Sleeps, TypeInv
<1>5. /\ \A u \in Tasks : Has(Append(que[c][e], t), u) <=> Has(que[c][e], u) \/ u = t
      /\ Once(Append(que[c][e], t))
  BY <1>1, AppendOnce
<1> HIDE DEF c, e
<1>6. \A u \in Tasks, d \in Contexts, g \in Events :
        Has(que'[d][g], u) <=> Has(que[d][g], u) \/ (u = t /\ d = c /\ g = e)
  BY <1>3, <1>5
<1>11. \A u \in Tasks, d \in Contexts, g \in Events :
        Has(que'[d][g], u) => Sleeps(u)' /\ entry # u /\ d = tctx[u] /\ g = tev[u]
  BY <1>1, <1>4, <1>6 DEF ListInv, c, e
<1>12. \A u \in Tasks : Sleeps(u)' /\ entry # u /\ tctx[u] \notin freed =>
        Has(que'[tctx[u]][tev[u]], u)
  <2> SUFFICES ASSUME NEW u \in Tasks, Sleeps(u)', entry # u, tctx[u] \notin freed
               PROVE  Has(que'[tctx[u]][tev[u]], u)
    OBVIOUS
  <2>1. CASE u = t
    BY <1>1, <1>6, <2>1 DEF c, e
  <2>2. CASE u # t
    <3>1. Sleeps(u) /\ tctx[u] \in Contexts /\ tev[u] \in Events
      BY <1>4, <2>2 DEF Sleeps, HeldInv, InCall
    <3>2. Has(que[tctx[u]][tev[u]], u)
      BY <3>1 DEF ListInv
    <3>3. QED BY <1>6, <3>1, <3>2
  <2>3. QED BY <2>1, <2>2
<1>7. \A d \in Contexts, g \in Events : Once(que'[d][g])
  BY <1>3, <1>5 DEF ListInv
<1>8. entry # None => entry \in Tasks /\ entry # t /\ Sleeps(entry) /\ tpc'[entry] = tpc[entry]
  BY <1>1, <1>2 DEF TypeInv, ListInv
<1>9. \A u \in woken : tpc'[u] = "asleep"
  BY <1>1, <1>2 DEF TypeInv, ListInv
<1>10. freed' = freed
  BY DEF AddPush, fdvars
<1>13. QED BY <1>2, <1>4, <1>7, <1>8, <1>9, <1>10, <1>11, <1>12 DEF ListInv

LEMMA AddCtlLists ==
  ASSUME TypeInv, HeldInv, ListInv, NEW t \in Tasks, AddCtl(t) PROVE ListInv'
<1>1. /\ tpc[t] = "ctl" /\ tpc' = [tpc EXCEPT ![t] = "asleep"]
      /\ UNCHANGED <<que, entry, ectx, ecur, woken, tctx, tev, freed>>
  BY DEF AddCtl, evars, fdvars
<1>2. /\ \A u \in Tasks : Sleeps(u)' <=> Sleeps(u)
      /\ \A u \in Tasks : tpc[u] = "asleep" => tpc'[u] = "asleep"
  BY <1>1 DEF Sleeps, TypeInv
<1>3. \A u \in woken' : tpc'[u] = "asleep"
  BY <1>1, <1>2 DEF ListInv, TypeInv
<1>4. QED BY <1>1, <1>2, <1>3, ListsKept

LEMMA ReturnLists ==
  ASSUME TypeInv, HeldInv, ListInv, NEW t \in Tasks, Return(t) PROVE ListInv'
<1>1. /\ tpc[t] = "asleep" /\ t \in woken /\ woken' = woken \ {t}
      /\ UNCHANGED <<que, entry, ectx, ecur, freed>> /\ tpc'[t] = "run"
      /\ \A u \in Tasks : u # t => tpc'[u] = tpc[u] /\ tctx'[u] = tctx[u] /\ tev'[u] = tev[u]
  BY DEF Return, evars, fdvars, TypeInv
<1>2. \A u \in Tasks : Sleeps(u)' <=> Sleeps(u)
  BY <1>1 DEF Sleeps
<1>3. \A u \in Tasks : Sleeps(u) => u # t
  BY <1>1 DEF Sleeps
<1>4. \A u \in woken' : tpc'[u] = "asleep"
  BY <1>1 DEF ListInv, TypeInv
<1>5. QED BY <1>1, <1>2, <1>3, <1>4, ListsKept

LEMMA PopEntryLists ==
  ASSUME TypeInv, HeldInv, ListInv, PopEntry PROVE ListInv'
<1> DEFINE c == ectx  e == ecur.ev
<1>1. /\ c \in Contexts /\ e \in Events /\ lock[c] = None /\ epc = "pop" /\ entry = None
      /\ que[c][e] \in Seq(Tasks) /\ Once(que[c][e])
      /\ UNCHANGED <<ectx, ecur, woken, tctx, tev, tpc, freed>>
  BY DEF PopEntry, HeldInv, ListInv, TypeInv, Handling, taskvars, fdvars
<1>2. CASE UNCHANGED <<que, entry>>
  <2>1. \A u \in Tasks : Sleeps(u)' <=> Sleeps(u)
    BY <1>1 DEF Sleeps
  <2>2. \A u \in woken' : tpc'[u] = "asleep"
    BY <1>1 DEF ListInv
  <2>3. QED BY <1>1, <1>2, <2>1, <2>2, ListsKept
<1>3. CASE /\ que[c][e] # <<>> /\ entry' = Head(que[c][e])
           /\ que' = [que EXCEPT ![c][e] = Tail(@)]
  <2>1. PICK h \in Tasks : h = Head(que[c][e])
    BY <1>1, <1>3, TailOnce
  <2>2. /\ Has(que[c][e], h)
        /\ \A u \in Tasks : Has(Tail(que[c][e]), u) <=> Has(que[c][e], u) /\ u # h
        /\ Once(Tail(que[c][e]))
    BY <1>1, <1>3, <2>1, TailOnce
  <2>3. \A d \in Contexts, g \in Events :
          que'[d][g] = IF d = c /\ g = e THEN Tail(que[c][e]) ELSE que[d][g]
    BY <1>1, <1>3 DEF TypeInv
  <2>4. Sleeps(h) /\ tctx[h] = c /\ tev[h] = e
    BY <1>1, <2>2 DEF ListInv
  <2>5. tpc[h] = "asleep"
    BY <1>1, <2>4, FdAssumption DEF Sleeps, HeldInv
  <2>6. \A u \in Tasks : Sleeps(u)' <=> Sleeps(u)
    BY <1>1 DEF Sleeps
  <2>7. entry' = h /\ h # None
    BY <1>3, <2>1, FdAssumption
  <2> HIDE DEF c, e
  <2>8. \A u \in Tasks, d \in Contexts, g \in Events :
          Has(que'[d][g], u) <=> Has(que[d][g], u) /\ u # h
    <3> SUFFICES ASSUME NEW u \in Tasks, NEW d \in Contexts, NEW g \in Events
                 PROVE  Has(que'[d][g], u) <=> Has(que[d][g], u) /\ u # h
      OBVIOUS
    <3>1. CASE d = c /\ g = e
      <4>1. que'[d][g] = Tail(que[c][e])
        BY <2>3, <3>1
      <4>2. QED BY <2>2, <3>1, <4>1
    <3>2. CASE ~(d = c /\ g = e)
      <4>1. que'[d][g] = que[d][g]
        BY <2>3, <3>2
      <4>2. Has(que[d][g], u) => d = tctx[u] /\ g = tev[u]
        BY DEF ListInv
      <4>3. QED BY <2>4, <3>2, <4>1, <4>2
    <3>3. QED BY <3>1, <3>2
  <2>11. \A u \in Tasks, d \in Contexts, g \in Events :
          Has(que'[d][g], u) => Sleeps(u) /\ h # u /\ d = tctx[u] /\ g = tev[u]
    BY <2>8 DEF ListInv
  <2>12. \A u \in Tasks : Sleeps(u) /\ h # u /\ tctx[u] \notin freed =>
          Has(que'[tctx[u]][tev[u]], u)
    <3> SUFFICES ASSUME NEW u \in Tasks, Sleeps(u), h # u, tctx[u] \notin freed
                 PROVE  Has(que'[tctx[u]][tev[u]], u)
      OBVIOUS
    <3>1. tctx[u] \in Contexts /\ tev[u] \in Events /\ entry # u
      BY <1>1, FdAssumption DEF Sleeps, HeldInv, InCall
    <3>2. Has(que[tctx[u]][tev[u]], u)
      BY <3>1 DEF ListInv
    <3>3. QED BY <2>8, <3>1, <3>2
  <2>9. \A d \in Contexts, g \in Events : Once(que'[d][g])
    BY <2>2, <2>3 DEF ListInv
  <2>10. /\ ectx' = c /\ ecur'.ev = e /\ UNCHANGED <<woken, tctx, tev, tpc, freed>>
         /\ \A u \in woken : tpc[u] = "asleep"
    BY <1>1 DEF ListInv, c, e
  <2>13. QED BY <2>4, <2>5, <2>6, <2>7, <2>9, <2>10, <2>11, <2>12 DEF ListInv
<1>4. QED BY <1>2, <1>3 DEF PopEntry

LEMMA WakeEntryLists ==
  ASSUME TypeInv, HeldInv, ListInv, WakeEntry PROVE ListInv'
<1>1. /\ entry \in Tasks /\ Sleeps(entry) /\ tpc[entry] = "asleep" /\ entry' = None
      /\ woken' = woken \cup {entry} /\ UNCHANGED <<que, tpc, tctx, tev, freed>>
  BY DEF WakeEntry, HeldInv, ListInv, TypeInv, taskvars, fdvars
<1>2. \A u \in Tasks : Sleeps(u)' <=> Sleeps(u) /\ u # entry
  BY <1>1 DEF Sleeps
<1>3. \A u \in Tasks : u # None
  BY FdAssumption
<1>4. \A u \in Tasks, c \in Contexts, e \in Events :
        Has(que[c][e], u) => Sleeps(u)' /\ None # u /\ c = tctx[u] /\ e = tev[u]
  BY <1>2, <1>3 DEF ListInv
<1>5. \A u \in Tasks : Sleeps(u)' /\ tctx[u] \notin freed => Has(que[tctx[u]][tev[u]], u)
  BY <1>2 DEF ListInv
<1>6. QED BY <1>1, <1>4, <1>5 DEF ListInv

\* Deleting a context takes its waiting tasks off the lists.
LEMMA CloseDeleteLists ==
  ASSUME TypeInv, HeldInv, ListInv, NEW t \in Tasks, CloseDelete(t) PROVE ListInv'
<1> DEFINE c == tctx[t]
<1>1. /\ c \in Contexts /\ tpc[t] = "delete" /\ tpc' = [tpc EXCEPT ![t] = "close"]
      /\ que' = [que EXCEPT ![c] = [e \in Events |-> <<>>]] /\ freed' = freed \cup {c}
      /\ UNCHANGED <<entry, ectx, ecur, woken, tctx, tev>>
  BY DEF CloseDelete, HeldInv, evars
<1> HIDE DEF c
<1>2. \A d \in Contexts, g \in Events : que'[d][g] = IF d = c THEN <<>> ELSE que[d][g]
  BY <1>1 DEF TypeInv
<1>3. /\ \A u \in Tasks : Sleeps(u)' <=> Sleeps(u)
      /\ \A u \in Tasks : tpc[u] = "asleep" => tpc'[u] = "asleep"
  BY <1>1 DEF Sleeps, TypeInv
<1>4. \A u \in Tasks, d \in Contexts, g \in Events :
        Has(que'[d][g], u) <=> Has(que[d][g], u) /\ d # c
  <2>1. \A u \in Tasks : ~Has(<<>>, u)
    BY DEF Has
  <2>2. QED BY <1>2, <2>1
<1>5. \A u \in Tasks, d \in Contexts, g \in Events :
        Has(que'[d][g], u) => Sleeps(u)' /\ entry # u /\ d = tctx[u] /\ g = tev[u]
  BY <1>3, <1>4 DEF ListInv
<1>6. \A u \in Tasks : Sleeps(u)' /\ entry # u /\ tctx[u] \notin freed' =>
        Has(que'[tctx[u]][tev[u]], u)
  <2> SUFFICES ASSUME NEW u \in Tasks, Sleeps(u), entry # u, tctx[u] \notin freed, tctx[u] # c
               PROVE  Has(que'[tctx[u]][tev[u]], u)
    BY <1>1, <1>3
  <2>1. tctx[u] \in Contexts /\ tev[u] \in Events
    BY DEF Sleeps, HeldInv, InCall
  <2>2. Has(que[tctx[u]][tev[u]], u)
    BY <2>1 DEF ListInv
  <2>3. QED BY <1>4, <2>1, <2>2
<1>7. \A d \in Contexts, g \in Events : Once(que'[d][g])
  <2>1. Once(<<>>)
    BY DEF Once
  <2>2. QED BY <1>2, <2>1 DEF ListInv
<1>8. entry # None => /\ Sleeps(entry)' /\ tpc'[entry] = "asleep"
                      /\ ectx = tctx[entry] /\ ecur.ev = tev[entry]
  BY <1>1, <1>3 DEF ListInv, TypeInv
<1>9. \A u \in woken : tpc'[u] = "asleep"
  BY <1>3 DEF ListInv, TypeInv
<1>10. QED BY <1>1, <1>5, <1>6, <1>7, <1>8, <1>9 DEF ListInv

LEMMA ListStep ==
  ASSUME TypeInv, HeldInv, ListInv, [Next]_vars PROVE ListInv'
<1>1. ASSUME \/ \E f \in Fds, e \in Events : BecomeReady(f, e)
             \/ EpollWait \/ NextEvent \/ ReadFd \/ RemoveEvent \/ UNCHANGED vars
      PROVE  ListInv'
  <2>1. UNCHANGED <<que, entry, woken, tpc, tctx, tev, freed>>
    BY <1>1 DEF BecomeReady, EpollWait, NextEvent, ReadFd, RemoveEvent, vars, evars, taskvars, fdvars
  <2>2. entry # None => UNCHANGED <<ectx, ecur>>
    BY <1>1 DEF BecomeReady, EpollWait, NextEvent, ReadFd, RemoveEvent, vars, evars, HeldInv
  <2>3. \A u \in Tasks : Sleeps(u)' <=> Sleeps(u)
    BY <2>1 DEF Sleeps
  <2>4. \A u \in woken' : tpc'[u] = "asleep"
    BY <2>1 DEF ListInv
  <2>5. QED BY <2>1, <2>2, <2>3, <2>4, ListsKept
<1>2. ASSUME NEW t \in Tasks, TaskStep(t) PROVE ListInv'
  <2>1. "read" \in Events
    BY DEF Events
  <2>2. CASE \E f \in Fds : Socket(t, f) \/ CloseGet(t, f) \/ SetNonBlocking(t, f)
    BY <2>1, <2>2, OutsideLists
  <2>3. CASE \E f \in Fds, e \in Events : Hook(t, f, e) \/ CallAtOnce(t, f, e)
    BY <2>3, OutsideLists
  <2>4. CASE CloseErase(t) \/ CloseFd(t)
    <3>1. tfd[t] \in Fds
      BY <2>4 DEF CloseErase, CloseFd, HeldInv, Closing
    <3>2. QED BY <2>1, <2>4, <3>1, OutsideLists
  <2>5. QED BY <1>2, <2>2, <2>3, <2>4, AddPushLists, AddCtlLists, ReturnLists, CloseDeleteLists
        DEF TaskStep
<1>3. QED BY <1>1, <1>2, PopEntryLists, WakeEntryLists DEF Next, EpollStep

LEMMA ListsHold == Spec => [](TypeInv /\ HeldInv /\ ListInv)
<1>1. Init => TypeInv /\ HeldInv /\ ListInv
  BY InitType, InitList
<1>2. TypeInv /\ HeldInv /\ ListInv /\ [Next]_vars => (TypeInv /\ HeldInv /\ ListInv)'
  BY TypesHold, ListStep
<1>3. QED BY <1>1, <1>2, PTL DEF Spec

LEMMA SpotsOf ==
  ASSUME NEW t
  PROVE  \A s : s \in Spots(t) <=>
            \/ \E c \in Contexts, e \in Events : \E i \in DOMAIN que[c][e] :
                    que[c][e][i] = t /\ s = <<c, e, i>>
            \/ entry = t /\ s = <<ectx, ecur.ev, 0>>
<1> DEFINE On(c, e) == {<<c, e, i>> : i \in {i \in DOMAIN que[c][e] : que[c][e][i] = t}}
<1>1. ASSUME NEW s PROVE s \in UNION {On(c, e) : c \in Contexts, e \in Events} <=>
            \E c \in Contexts, e \in Events : \E i \in DOMAIN que[c][e] :
                    que[c][e][i] = t /\ s = <<c, e, i>>
  <2>1. \A c, e : s \in On(c, e) <=>
            \E i \in DOMAIN que[c][e] : que[c][e][i] = t /\ s = <<c, e, i>>
    OBVIOUS
  <2> HIDE DEF On
  <2>2. QED BY <2>1
<1>2. QED BY <1>1 DEF Spots

\* A waiting task is on one list, once, the one of its context and event, or in
\* the epoll thread's hand, unless its context was deleted, and nobody else is: no
\* wakeup goes to a task that does not wait, and every waiting task can be reached
\* as long as nobody closes its descriptor.
THEOREM SleepersStayListed == Spec => []SleepersListed
<1>1. TypeInv /\ HeldInv /\ ListInv => SleepersListed
  <2> SUFFICES ASSUME TypeInv, HeldInv, ListInv, NEW t \in Tasks
               PROVE  IF Sleeps(t)
                      THEN \/ tctx[t] \in freed
                           \/ \E s \in Spots(t) :
                                Spots(t) = {s} /\ s[1] = tctx[t] /\ s[2] = tev[t]
                      ELSE Spots(t) = {}
    BY DEF SleepersListed, Sleeps
  <2>1. \A c \in Contexts, e \in Events : \A i \in DOMAIN que[c][e] :
          que[c][e][i] = t => Sleeps(t) /\ entry # t /\ c = tctx[t] /\ e = tev[t]
    BY DEF ListInv, Has
  <2>2. entry = t => Sleeps(t) /\ ectx = tctx[t] /\ ecur.ev = tev[t]
    BY FdAssumption DEF ListInv
  <2>3. CASE ~Sleeps(t)
    BY <2>1, <2>2, <2>3, SpotsOf
  <2>4. CASE Sleeps(t) /\ entry = t
    <3>1. Spots(t) = {<<ectx, ecur.ev, 0>>}
      BY <2>1, <2>4, SpotsOf
    <3>2. QED BY <2>2, <2>4, <3>1
  <2>5. CASE Sleeps(t) /\ entry # t /\ tctx[t] \notin freed
    <3> DEFINE c == tctx[t]  e == tev[t]
    <3>1. c \in Contexts /\ e \in Events
      BY <2>5 DEF HeldInv, InCall, Sleeps
    <3>2. PICK i \in DOMAIN que[c][e] : que[c][e][i] = t
      BY <2>5, <3>1 DEF ListInv, Has
    <3>3. \A j \in DOMAIN que[c][e] : que[c][e][j] = t => j = i
      BY <3>1, <3>2 DEF ListInv, Once
    <3>4. \A s : s \in Spots(t) <=> s = <<c, e, i>>
      BY <2>1, <2>5, <3>1, <3>2, <3>3, SpotsOf
    <3>5. Spots(t) = {<<c, e, i>>}
      BY <3>4
    <3>6. QED BY <2>5, <3>5
  <2>6. QED BY <2>3, <2>4, <2>5
<1>2. QED BY <1>1, ListsHold, PTL
-----------------------------------------------------------------------------
(* Contexts, for programs that keep to one of the two disciplines *)

\* A context belongs to one open descriptor until close() takes it out of the
\* map; who uses a descriptor uses its context, and closes it alone.
UserInv(t) ==
    /\ tpc[t] \in InCall => /\ ctx[tfd[t]] = tctx[t]
                            /\ mode = "private" => owner[tfd[t]] = t
    /\ tpc[t] \in Closing => mode = "private" /\ owner[tfd[t]] = t /\ tfd[t] \in open
    /\ tpc[t] = "erase" => ctx[tfd[t]] = tctx[t]
    /\ tpc[t] \in {"delete", "close"} => ctx[tfd[t]] = None
    /\ tpc[t] = "delete" => /\ tctx[t] \in 1 .. made
                            /\ \A f \in Fds : ctx[f] # tctx[t]

ContextsApart ==
    /\ freed \subseteq 1 .. made
    /\ \A f \in Fds : ctx[f] # None => f \in open /\ ctx[f] \in 1 .. made /\ ctx[f] \notin freed
    /\ \A f, g \in Fds : ctx[f] # None /\ ctx[f] = ctx[g] => f = g

ContextInv == mode # "any" => ContextsApart /\ \A t \in Tasks : UserInv(t)

LEMMA InitContext == Init => ContextInv
BY FdAssumption DEF Init, ContextInv, ContextsApart, UserInv, InCall, Closing

LEMMA ContextStep ==
  ASSUME TypeInv, HeldInv, ContextInv, [Next]_vars PROVE ContextInv'
<1> SUFFICES ASSUME mode' # "any" PROVE (ContextsApart /\ \A t \in Tasks : UserInv(t))'
  BY DEF ContextInv
<1>1. mode' = mode
  <2>1. ASSUME NEW t \in Tasks, TaskStep(t) PROVE mode' = mode
    BY <2>1 DEF TaskStep, Socket, CloseGet, CloseErase, SetNonBlocking, Hook, CallAtOnce, AddPush, AddCtl,
                Return, CloseDelete, CloseFd, fdvars
  <2>2. ASSUME EpollStep PROVE mode' = mode
    BY <2>2 DEF EpollStep, EpollWait, NextEvent, PopEntry, WakeEntry, ReadFd, RemoveEvent, fdvars
  <2>3. QED BY <2>1, <2>2 DEF Next, BecomeReady, fdvars, vars
<1>2. mode \in {"shared", "private"} /\ ContextsApart /\ \A t \in Tasks : UserInv(t)
  BY <1>1 DEF ContextInv, TypeInv
<1>3. ASSUME NEW t \in Tasks, NEW f \in Fds, Socket(t, f)
      PROVE  (ContextsApart /\ \A u \in Tasks : UserInv(u))'
  <2>1. /\ f \notin open /\ open' = open \cup {f} /\ made' = made + 1 /\ made \in Nat
        /\ ctx' = [ctx EXCEPT ![f] = made + 1] /\ ctx \in [Fds -> Contexts \cup {None}]
        /\ \A g \in Fds : g # f => owner'[g] = owner[g]
        /\ UNCHANGED <<mode, freed, tpc, tfd, tctx>>
    BY <1>3 DEF Socket, taskvars, TypeInv
  <2>2. ContextsApart'
    BY <1>2, <2>1, FdAssumption DEF ContextsApart, Contexts
  <2>3. ASSUME NEW u \in Tasks PROVE UserInv(u)'
    <3>1. ctx[f] = None /\ UserInv(u)
      BY <1>2, <2>1 DEF ContextsApart
    <3>2. tpc[u] \in InCall => tfd[u] \in Fds /\ tctx[u] # None /\ tfd[u] # f
      BY <3>1, FdAssumption DEF UserInv, HeldInv, Contexts
    <3>3. tpc[u] \in Closing => tfd[u] \in Fds /\ tfd[u] # f
      BY <2>1, <3>1 DEF UserInv, HeldInv
    <3>4. tpc[u] = "delete" => tctx[u] \in 1 .. made + 1 /\ \A g \in Fds : ctx'[g] # tctx[u]
      BY <2>1, <3>1 DEF UserInv
    <3>5. QED BY <2>1, <3>1, <3>2, <3>3, <3>4 DEF UserInv, Closing
  <2>4. QED BY <2>2, <2>3
<1>4. ASSUME NEW t \in Tasks, CloseErase(t)
      PROVE  (ContextsApart /\ \A u \in Tasks : UserInv(u))'
  <2> DEFINE f == tfd[t]
  <2>1. /\ tpc[t] = "erase" /\ tpc'[t] = "delete"
        /\ f \in Fds /\ tctx[t] \in Contexts /\ tctx[t] # None
    BY <1>4, FdAssumption DEF CloseErase, TypeInv, HeldInv, Closing, Contexts
  <2>2. UserInv(t)
    BY <1>2
  <2>3. /\ mode = "private" /\ owner[f] = t /\ f \in open
        /\ ctx[f] = tctx[t] /\ tctx[t] \notin freed /\ tctx[t] \in 1 .. made
    BY <1>2, <2>1, <2>2 DEF UserInv, Closing, ContextsApart
  <2>4. /\ ctx' = [g \in Fds |-> IF g = f THEN None ELSE ctx[g]]
        /\ \A u \in Tasks : u # t => tpc'[u] = tpc[u]
        /\ UNCHANGED <<mode, open, owner, made, freed, tfd, tctx>>
    BY <1>4, <2>3 DEF CloseErase, TypeInv
  <2> HIDE DEF f
  <2>5. ContextsApart'
    BY <1>2, <2>4 DEF ContextsApart
  <2>6. UserInv(t)'
    BY <1>2, <2>1, <2>3, <2>4 DEF UserInv, ContextsApart, InCall, Closing, f
  <2>7. ASSUME NEW u \in Tasks, u # t PROVE UserInv(u)'
    <3>1. tpc[u] \in InCall \cup Closing => tfd[u] \in Fds /\ tfd[u] # f
      BY <1>2, <2>3, <2>7 DEF UserInv, HeldInv
    <3>2. tpc[u] = "delete" => tctx[u] # None
      BY FdAssumption DEF HeldInv, Contexts
    <3>3. QED BY <1>2, <2>4, <2>7, <3>1, <3>2 DEF UserInv, Closing
  <2>8. QED BY <2>5, <2>6, <2>7
<1>5. ASSUME NEW t \in Tasks, CloseDelete(t)
      PROVE  (ContextsApart /\ \A u \in Tasks : UserInv(u))'
  <2>1. /\ tpc[t] = "delete" /\ freed' = freed \cup {tctx[t]} /\ tpc'[t] = "close"
        /\ \A u \in Tasks : u # t => tpc'[u] = tpc[u]
        /\ UNCHANGED <<mode, open, owner, ctx, made, tfd, tctx>>
    BY <1>5 DEF CloseDelete, TypeInv
  <2>2. UserInv(t)
    BY <1>2
  <2>3. ContextsApart'
    BY <1>2, <2>1, <2>2 DEF ContextsApart, UserInv
  <2>4. UserInv(t)'
    BY <2>1, <2>2 DEF UserInv, InCall, Closing
  <2>5. ASSUME NEW u \in Tasks, u # t PROVE UserInv(u)'
    BY <1>2, <2>1, <2>5 DEF UserInv
  <2>6. QED BY <2>3, <2>4, <2>5
<1>6. ASSUME NEW t \in Tasks, CloseFd(t)
      PROVE  (ContextsApart /\ \A u \in Tasks : UserInv(u))'
  <2> DEFINE f == tfd[t]
  <2>1. /\ tpc[t] = "close" /\ open' = open \ {f} /\ owner' = [owner EXCEPT ![f] = None]
        /\ owner \in [Fds -> Tasks \cup {None}]
        /\ tpc'[t] = "run"
        /\ \A u \in Tasks : u # t => tpc'[u] = tpc[u] /\ tfd'[u] = tfd[u] /\ tctx'[u] = tctx[u]
        /\ UNCHANGED <<mode, ctx, made, freed>>
    BY <1>6 DEF CloseFd, TypeInv
  <2>2. UserInv(t)
    BY <1>2
  <2>3. f \in Fds /\ ctx[f] = None /\ owner[f] = t
    BY <2>1, <2>2 DEF HeldInv, UserInv, Closing
  <2> HIDE DEF f
  <2>4. ContextsApart'
    BY <1>2, <2>1, <2>3 DEF ContextsApart
  <2>5. UserInv(t)'
    BY <2>1 DEF UserInv, InCall, Closing
  <2>6. ASSUME NEW u \in Tasks, u # t PROVE UserInv(u)'
    <3>1. UserInv(u)
      BY <1>2
    <3>2. tpc[u] \in InCall => tfd[u] \in Fds /\ tfd[u] # f
      BY <2>3, <3>1, FdAssumption DEF UserInv, HeldInv, Contexts
    <3>3. tpc[u] \in Closing => tfd[u] \in Fds /\ tfd[u] # f
      BY <2>3, <2>6, <3>1 DEF UserInv, HeldInv
    <3>4. QED BY <2>1, <2>6, <3>1, <3>2, <3>3 DEF UserInv
  <2>7. QED BY <2>4, <2>5, <2>6
<1>7. ASSUME UNCHANGED <<mode, open, owner, ctx, made, freed>>,
             NEW t \in Tasks, UserInv(t)',
             \A u \in Tasks : u # t => tpc'[u] = tpc[u] /\ tfd'[u] = tfd[u] /\ tctx'[u] = tctx[u]
      PROVE  (ContextsApart /\ \A u \in Tasks : UserInv(u))'
  BY <1>2, <1>7 DEF ContextsApart, UserInv
<1>8. ASSUME NEW t \in Tasks, NEW f \in Fds, NEW e \in Events,
             CloseGet(t, f) \/ SetNonBlocking(t, f) \/ Hook(t, f, e) \/ CallAtOnce(t, f, e)
             \/ AddPush(t) \/ AddCtl(t) \/ Return(t)
      PROVE  (ContextsApart /\ \A u \in Tasks : UserInv(u))'
  <2>1. /\ UNCHANGED <<mode, open, owner, ctx, made, freed>>
        /\ \A u \in Tasks : u # t => tpc'[u] = tpc[u] /\ tfd'[u] = tfd[u] /\ tctx'[u] = tctx[u]
    BY <1>8 DEF CloseGet, SetNonBlocking, Hook, CallAtOnce, AddPush, AddCtl, Return, fdvars, taskvars, TypeInv
  <2>2. CASE Hook(t, f, e)
    <3>1. tfd'[t] = f /\ tctx'[t] = ctx[f] /\ tpc'[t] = "push" /\ (mode = "private" => owner[f] = t)
      BY <2>2 DEF Hook, MayUse, TypeInv
    <3>2. UserInv(t)'
      BY <2>1, <3>1 DEF UserInv, InCall, Closing
    <3>3. QED BY <1>7, <2>1, <3>2
  <2>3. CASE AddPush(t) \/ AddCtl(t)
    <3>1. tpc[t] \in InCall /\ tpc'[t] \in {"ctl", "asleep"} /\ UNCHANGED <<tfd, tctx>>
      BY <2>3 DEF AddPush, AddCtl, InCall, TypeInv
    <3>2. UserInv(t)'
      BY <1>2, <2>1, <3>1 DEF UserInv, InCall, Closing
    <3>3. QED BY <1>7, <2>1, <3>2
  <2>4. CASE Return(t)
    <3>1. tpc'[t] = "run"
      BY <2>4 DEF Return, TypeInv
    <3>2. UserInv(t)'
      BY <3>1 DEF UserInv, InCall, Closing
    <3>3. QED BY <1>7, <2>1, <3>2
  <2>5. CASE SetNonBlocking(t, f) \/ CallAtOnce(t, f, e)
    <3>1. UNCHANGED <<tpc, tfd, tctx>>
      BY <2>5 DEF SetNonBlocking, CallAtOnce, taskvars
    <3>2. UserInv(t)'
      BY <1>2, <2>1, <3>1 DEF UserInv
    <3>3. QED BY <1>7, <2>1, <3>2
  <2>6. CASE CloseGet(t, f)
    <3>1. /\ tfd'[t] = f /\ tctx'[t] = ctx[f] /\ tpc'[t] = "erase" /\ mode = "private"
          /\ owner[f] = t /\ ctx[f] # None
      BY <1>2, <2>6 DEF CloseGet, MayUse, TypeInv
    <3>2. f \in open
      BY <1>2, <3>1 DEF ContextsApart
    <3>3. UserInv(t)'
      BY <2>1, <3>1, <3>2 DEF UserInv, InCall, Closing
    <3>4. QED BY <1>7, <2>1, <3>3
  <2>7. QED BY <1>8, <2>2, <2>3, <2>4, <2>5, <2>6
<1>9. ASSUME \/ \E f \in Fds, e \in Events : BecomeReady(f, e)
             \/ EpollStep \/ UNCHANGED vars
      PROVE  (ContextsApart /\ \A u \in Tasks : UserInv(u))'
  <2>1. UNCHANGED <<mode, open, owner, ctx, made, freed, tpc, tfd, tctx>>
    BY <1>9 DEF BecomeReady, EpollStep, EpollWait, NextEvent, PopEntry, WakeEntry, ReadFd,
       RemoveEvent, vars, fdvars, taskvars
  <2>2. QED BY <1>2, <2>1 DEF ContextsApart, UserInv
<1>10. ASSUME NEW t \in Tasks, TaskStep(t)
       PROVE  (ContextsApart /\ \A u \in Tasks : UserInv(u))'
  <2>1. CASE \E f \in Fds : Socket(t, f)
    BY <1>3, <2>1
  <2>2. CASE CloseErase(t) \/ CloseDelete(t) \/ CloseFd(t)
    BY <1>4, <1>5, <1>6, <2>2
  <2>3. CASE \E f \in Fds : CloseGet(t, f) \/ SetNonBlocking(t, f)
    <3>1. "read" \in Events
      BY DEF Events
    <3>2. QED BY <1>8, <2>3, <3>1
  <2>4. CASE \E f \in Fds, e \in Events : Hook(t, f, e) \/ CallAtOnce(t, f, e)
    BY <1>8, <2>4
  <2>5. CASE AddPush(t) \/ AddCtl(t) \/ Return(t)
    <3>1. tfd[t] \in Fds /\ tev[t] \in Events
      BY <2>5 DEF AddPush, AddCtl, Return, HeldInv, InCall
    <3>2. QED BY <1>8, <2>5, <3>1
  <2>6. QED BY <1>10, <2>1, <2>2, <2>3, <2>4, <2>5 DEF TaskStep
<1>11. QED BY <1>9, <1>10 DEF Next

CallInv == TypeInv /\ HeldInv /\ ListInv /\ ContextInv

LEMMA CallsHold == Spec => []CallInv
<1>1. Init => ContextInv
  BY InitContext
<1>2. TypeInv /\ HeldInv /\ ContextInv /\ [Next]_vars => ContextInv'
  BY ContextStep
<1>3. QED BY <1>1, <1>2, ListsHold, PTL DEF Spec, CallInv

\* Whoever is on the list of a descriptor's context is in a call on it, and is
\* its only user if tasks keep to their own.
LEMMA Waiter ==
  ASSUME CallInv, mode # "any", NEW f \in Fds, NEW e \in Events, ctx[f] # None,
         que[ctx[f]][e] # <<>>
  PROVE  \E u \in Tasks : /\ u = Head(que[ctx[f]][e]) /\ Sleeps(u)
                          /\ tfd[u] = f /\ tev[u] = e /\ tctx[u] = ctx[f]
                          /\ mode = "private" => owner[f] = u
<1> DEFINE c == ctx[f]
<1>1. c \in Contexts
  BY DEF CallInv, TypeInv
<1>2. que[c][e] \in Seq(Tasks)
  BY <1>1 DEF CallInv, TypeInv
<1> HIDE DEF c
<1>3. Once(que[c][e])
  BY <1>1 DEF CallInv, ListInv
<1>4. PICK u \in Tasks : u = Head(que[c][e]) /\ Has(que[c][e], u)
  BY <1>2, <1>3, TailOnce DEF c
<1>5. Sleeps(u) /\ tctx[u] = c /\ tev[u] = e
  BY <1>1, <1>4 DEF CallInv, ListInv
<1>6. tpc[u] \in InCall /\ tfd[u] \in Fds
  BY <1>5 DEF Sleeps, InCall, CallInv, HeldInv
<1>7. ctx[tfd[u]] = c /\ (mode = "private" => owner[tfd[u]] = u)
  BY <1>5, <1>6 DEF CallInv, ContextInv, UserInv
<1>8. tfd[u] = f
  BY <1>6, <1>7 DEF CallInv, ContextInv, ContextsApart, c
<1>9. QED BY <1>4, <1>5, <1>7, <1>8 DEF c

\* close() deletes only contexts whose lists are empty and whose mutex nobody holds,
\* if tasks keep to the descriptors they opened.
THEOREM DeletedContextsIdle == Spec => []DeletedContextIdle
<1>1. CallInv => DeletedContextIdle
  <2> SUFFICES ASSUME CallInv, mode = "private", NEW t \in Tasks, tpc[t] = "delete"
               PROVE  lock[tctx[t]] = None /\ \A e \in Events : que[tctx[t]][e] = <<>>
    BY DEF DeletedContextIdle
  <2> DEFINE c == tctx[t]
  <2>1. c \in Contexts /\ \A f \in Fds : ctx[f] # c
    BY DEF CallInv, HeldInv, ContextInv, UserInv
  <2> HIDE DEF c
  <2>2. ASSUME NEW u \in Tasks, tpc[u] \in InCall, tctx[u] = c PROVE FALSE
    <3>1. tfd[u] \in Fds /\ ctx[tfd[u]] = c
      BY <2>2 DEF CallInv, HeldInv, ContextInv, UserInv
    <3>2. QED BY <2>1, <3>1
  <2>3. lock[c] = None
    <3>1. lock[c] # None => lock[c] \in Tasks /\ tpc[lock[c]] = "ctl" /\ tctx[lock[c]] = c
      BY <2>1 DEF CallInv, TypeInv, HeldInv
    <3>2. QED BY <2>2, <3>1 DEF InCall
  <2>4. ASSUME NEW e \in Events, que[c][e] # <<>> PROVE FALSE
    <3>1. que[c][e] \in Seq(Tasks) /\ Once(que[c][e])
      BY <2>1 DEF CallInv, TypeInv, ListInv
    <3>2. PICK u \in Tasks : Has(que[c][e], u)
      BY <2>4, <3>1, TailOnce
    <3>3. Sleeps(u) /\ tctx[u] = c
      BY <2>1, <3>2 DEF CallInv, ListInv
    <3>4. QED BY <2>2, <3>3 DEF Sleeps, InCall
  <2>5. QED BY <2>3, <2>4 DEF c
<1>2. QED BY <1>1, CallsHold, PTL
-----------------------------------------------------------------------------
(* Events and registrations *)

\* A registration with a task waiting for it.
Backed(f) == reg[f] # "none" /\ ctx[f] # None /\ que[ctx[f]][reg[f]] # <<>>

Removing == {"wake", "remove", "del"}

\* Every registration is backed, but for the one whose task the epoll thread has
\* taken off; what epoll reported is still registered.
EventsBacked ==
    /\ epc # "crashed"
    /\ \A f \in Fds : reg[f] # "none" =>
            Backed(f) \/ (epc \in Removing /\ ecur.fd = f)
    /\ \A b \in batch : reg[b.fd] = b.ev /\ (epc \in Handling \cup Removing => b.fd # ecur.fd)
    /\ epc = "pop" => reg[ecur.fd] = ecur.ev /\ ectx = ctx[ecur.fd]

EventInv == mode # "any" /\ ~usedFreed => EventsBacked

LEMMA InitEvent == Init => EventInv
BY DEF Init, EventInv, EventsBacked

\* The events still to be handled are backed.
LEMMA PendingBacked ==
  ASSUME CallInv, EventsBacked
  PROVE  /\ \A b \in batch : b.fd \in Fds /\ b.ev \in Events /\ Backed(b.fd)
         /\ epc = "pop" => ecur.fd \in Fds /\ ecur.ev \in Events /\ Backed(ecur.fd)
<1>1. \A b \in batch : b.fd \in Fds /\ b.ev \in Events
  BY DEF CallInv, TypeInv
<1>2. epc = "pop" => ecur.fd \in Fds /\ ecur.ev \in Events
  BY DEF CallInv, HeldInv, Handling
<1>3. \A e \in Events : e # "none"
  BY DEF Events
<1>4. ASSUME NEW b \in batch PROVE Backed(b.fd)
  BY <1>1, <1>3 DEF EventsBacked, Handling, Removing
<1>5. ASSUME epc = "pop" PROVE Backed(ecur.fd)
  BY <1>2, <1>3, <1>5 DEF EventsBacked, Removing
<1>6. QED BY <1>1, <1>2, <1>4, <1>5

\* What a task's step has to keep.
LEMMA EventsKept ==
  ASSUME CallInv, EventsBacked, UNCHANGED <<epc, batch, ecur, ectx>>,
         \A f \in Fds : Backed(f) => reg'[f] = reg[f] /\ ctx'[f] = ctx[f] /\ Backed(f)',
         \A f \in Fds : reg'[f] # "none" => reg'[f] = reg[f] \/ Backed(f)'
  PROVE  EventsBacked'
<1>1. epc' # "crashed"
  BY DEF EventsBacked
<1>2. \A f \in Fds : reg'[f] # "none" =>
            Backed(f)' \/ (epc' \in Removing /\ ecur'.fd = f)
  BY DEF EventsBacked
<1>3. \A b \in batch' : reg'[b.fd] = b.ev /\ (epc' \in Handling \cup Removing => b.fd # ecur'.fd)
  BY PendingBacked DEF EventsBacked
<1>4. epc' = "pop" => reg'[ecur'.fd] = ecur'.ev /\ ectx' = ctx'[ecur'.fd]
  BY PendingBacked DEF EventsBacked
<1>5. QED BY <1>1, <1>2, <1>3, <1>4 DEF EventsBacked

LEMMA TaskEvents ==
  ASSUME CallInv, EventInv, NEW t \in Tasks, TaskStep(t) PROVE EventInv'
<1> SUFFICES ASSUME mode' # "any", ~usedFreed' PROVE EventsBacked'
  BY DEF EventInv
<1>1. ASSUME NEW f \in Fds, Socket(t, f) PROVE EventsBacked'
  <2>1. /\ UNCHANGED <<epc, batch, ecur, ectx, reg, que, mode, usedFreed>> /\ f \notin open
        /\ \A g \in Fds : g # f => ctx'[g] = ctx[g]
    BY <1>1 DEF Socket, evars, CallInv, TypeInv
  <2>2. ctx[f] = None
    BY <2>1 DEF CallInv, ContextInv, ContextsApart
  <2>3. \A g \in Fds : Backed(g) => reg'[g] = reg[g] /\ ctx'[g] = ctx[g] /\ Backed(g)'
    BY <2>1, <2>2 DEF Backed
  <2>4. QED BY <2>1, <2>3, EventsKept DEF EventInv
<1>2. CASE CloseErase(t)
  <2> DEFINE f == tfd[t]
  <2>1. /\ UNCHANGED <<epc, batch, ecur, ectx, reg, que, mode>> /\ ~usedFreed
        /\ tpc[t] = "erase" /\ f \in Fds /\ tctx[t] \notin freed
    BY <1>2 DEF CloseErase, evars, CallInv, HeldInv, Closing
  <2>2. mode = "private" /\ owner[f] = t
    BY <2>1 DEF CallInv, ContextInv, UserInv, Closing
  <2>3. ctx' = [g \in Fds |-> IF g = f THEN None ELSE ctx[g]]
    BY <1>2, <2>1 DEF CloseErase
  <2> HIDE DEF f
  <2>4. ~Backed(f)
    <3>1. SUFFICES ASSUME Backed(f) PROVE FALSE
      OBVIOUS
    <3>2. reg[f] \in Events
      BY <2>1, <3>1 DEF Backed, CallInv, TypeInv
    <3>3. PICK u \in Tasks : Sleeps(u) /\ owner[f] = u
      BY <2>1, <2>2, <3>1, <3>2, Waiter DEF Backed
    <3>4. QED BY <2>1, <2>2, <3>3 DEF Sleeps
  <2>5. \A g \in Fds : Backed(g) => reg'[g] = reg[g] /\ ctx'[g] = ctx[g] /\ Backed(g)'
    BY <2>1, <2>3, <2>4 DEF Backed
  <2>6. QED BY <2>1, <2>5, EventsKept DEF EventInv
<1>3. ASSUME UNCHANGED <<epc, batch, ecur, ectx, reg, ctx, que, mode>>, ~usedFreed
      PROVE  EventsBacked'
  <2>1. \A g \in Fds : Backed(g) => reg'[g] = reg[g] /\ ctx'[g] = ctx[g] /\ Backed(g)'
    BY <1>3 DEF Backed
  <2>2. QED BY <1>3, <2>1, EventsKept DEF EventInv
<1>4. CASE \/ \E f \in Fds : CloseGet(t, f) \/ SetNonBlocking(t, f)
           \/ \E f \in Fds, e \in Events : Hook(t, f, e) \/ CallAtOnce(t, f, e)
           \/ Return(t)
  <2>1. UNCHANGED <<epc, batch, ecur, ectx, reg, ctx, que, mode, usedFreed>>
    BY <1>4 DEF CloseGet, SetNonBlocking, Hook, CallAtOnce, Return, fdvars, evars
  <2>2. QED BY <1>3, <2>1
<1>5. CASE AddPush(t)
  <2> DEFINE c == tctx[t]  e == tev[t]
  <2>1. /\ UNCHANGED <<epc, batch, ecur, ectx, reg, ctx, mode>> /\ ~usedFreed
        /\ que' = [que EXCEPT ![c][e] = Append(@, t)]
    BY <1>5 DEF AddPush, fdvars, evars
  <2>2. c \in Contexts /\ e \in Events /\ que[c][e] \in Seq(Tasks)
    BY <1>5 DEF AddPush, CallInv, HeldInv, TypeInv, InCall
  <2>3. \A d \in Contexts, g \in Events : que[d][g] # <<>> => que'[d][g] # <<>>
    <3> SUFFICES ASSUME NEW d \in Contexts, NEW g \in Events, que[d][g] # <<>>
                 PROVE  que'[d][g] # <<>>
      OBVIOUS
    <3>1. que'[d][g] = IF d = c /\ g = e THEN Append(que[c][e], t) ELSE que[d][g]
      BY <2>1, <2>2 DEF CallInv, TypeInv
    <3>2. Append(que[c][e], t) # <<>>
      BY <2>2
    <3>3. QED BY <3>1, <3>2
  <2>4. \A g \in Fds : Backed(g) => reg'[g] = reg[g] /\ ctx'[g] = ctx[g] /\ Backed(g)'
    BY <2>1, <2>3 DEF Backed, CallInv, TypeInv
  <2>5. QED BY <2>1, <2>4, EventsKept DEF EventInv
<1>6. CASE AddCtl(t)
  <2> DEFINE f == tfd[t]  e == tev[t]  c == tctx[t]
  <2>1. /\ UNCHANGED <<epc, batch, ecur, ectx, que, ctx, mode>> /\ ~usedFreed /\ tpc[t] = "ctl"
        /\ reg' = [reg EXCEPT ![f] = IF f \in open /\ @ = "none" THEN e ELSE @]
    BY <1>6 DEF AddCtl, fdvars, evars
  <2>2. f \in Fds /\ e \in Events /\ c \in Contexts /\ e # "none" /\ c # None
    BY <2>1, FdAssumption DEF CallInv, HeldInv, InCall, Contexts, Events
  <2>3. ctx[f] = c
    BY <2>1 DEF CallInv, ContextInv, UserInv, InCall
  <2>4. que[c][e] # <<>>
    <3>1. Sleeps(t) /\ entry # t /\ c \notin freed
      BY <2>1, <2>2, <2>3, FdAssumption DEF CallInv, ListInv, Sleeps, ContextInv, ContextsApart
    <3>2. Has(que[c][e], t)
      BY <2>2, <3>1 DEF CallInv, ListInv
    <3>3. QED BY <3>2 DEF Has
  <2>5. \A g \in Fds : reg'[g] = reg[g] \/ (g = f /\ reg[f] = "none" /\ reg'[f] = e)
    BY <2>1, <2>2 DEF CallInv, TypeInv
  <2> HIDE DEF f, e, c
  <2>6. \A g \in Fds : Backed(g) => reg'[g] = reg[g] /\ ctx'[g] = ctx[g] /\ Backed(g)'
    BY <2>1, <2>5 DEF Backed
  <2>7. \A g \in Fds : reg'[g] # "none" => reg'[g] = reg[g] \/ Backed(g)'
    BY <2>1, <2>2, <2>3, <2>4, <2>5 DEF Backed
  <2>8. QED BY <2>1, <2>6, <2>7, EventsKept DEF EventInv
<1>7. CASE CloseFd(t)
  <2> DEFINE f == tfd[t]
  <2>1. /\ UNCHANGED <<epc, batch, ecur, ectx, que, ctx, mode>> /\ ~usedFreed /\ tpc[t] = "close"
        /\ reg' = [reg EXCEPT ![f] = "none"]
    BY <1>7 DEF CloseFd, evars
  <2>2. f \in Fds /\ ctx[f] = None
    BY <2>1 DEF CallInv, HeldInv, ContextInv, UserInv, Closing
  <2>3. \A g \in Fds : reg'[g] = IF g = f THEN "none" ELSE reg[g]
    BY <2>1, <2>2 DEF CallInv, TypeInv
  <2> HIDE DEF f
  <2>4. \A g \in Fds : Backed(g) => reg'[g] = reg[g] /\ ctx'[g] = ctx[g] /\ Backed(g)'
    BY <2>1, <2>2, <2>3 DEF Backed
  <2>5. \A g \in Fds : reg'[g] # "none" => reg'[g] = reg[g]
    BY <2>3
  <2>6. QED BY <2>1, <2>4, <2>5, EventsKept DEF EventInv
<1>8. CASE CloseDelete(t)
  <2> DEFINE c == tctx[t]
  <2>1. /\ UNCHANGED <<epc, batch, ecur, ectx, reg, ctx, mode>> /\ ~usedFreed /\ tpc[t] = "delete"
        /\ que' = [que EXCEPT ![c] = [e \in Events |-> <<>>]]
    BY <1>8 DEF CloseDelete, evars
  <2>2. c \in Contexts /\ \A g \in Fds : ctx[g] # c
    BY <2>1 DEF CallInv, HeldInv, ContextInv, UserInv
  <2> HIDE DEF c
  <2>3. \A d \in Contexts : d # c => que'[d] = que[d]
    BY <2>1, <2>2 DEF CallInv, TypeInv
  <2>4. \A g \in Fds : Backed(g) => reg'[g] = reg[g] /\ ctx'[g] = ctx[g] /\ Backed(g)'
    BY <2>1, <2>2, <2>3 DEF Backed, CallInv, TypeInv
  <2>5. QED BY <2>1, <2>4, EventsKept DEF EventInv
<1>9. QED BY <1>1, <1>2, <1>4, <1>5, <1>6, <1>7, <1>8 DEF TaskStep

LEMMA EpollEvents ==
  ASSUME CallInv, EventInv, EpollStep PROVE EventInv'
<1> SUFFICES ASSUME mode' # "any", ~usedFreed' PROVE EventsBacked'
  BY DEF EventInv
<1>1. mode' = mode /\ ~usedFreed
  <2>1. CASE EpollWait \/ NextEvent \/ WakeEntry
    BY <2>1 DEF EpollWait, NextEvent, WakeEntry, fdvars
  <2>2. CASE PopEntry
    BY <2>2 DEF PopEntry, fdvars
  <2>3. CASE ReadFd
    BY <2>3 DEF ReadFd, fdvars
  <2>4. CASE RemoveEvent
    BY <2>4 DEF RemoveEvent, fdvars
  <2>5. QED BY <2>1, <2>2, <2>3, <2>4 DEF EpollStep
<1>2. EventsBacked
  BY <1>1 DEF EventInv
<1>3. CASE EpollWait
  <2>1. /\ epc = "wait" /\ epc' = "next" /\ UNCHANGED <<reg, ctx, que, ecur, ectx>>
        /\ batch' = {[fd |-> f, ev |-> reg[f]] : f \in {f \in Fds : <<f, reg[f]>> \in ready}}
    BY <1>3 DEF EpollWait, fdvars
  <2>2. ASSUME NEW b \in batch' PROVE reg[b.fd] = b.ev
    <3>1. PICK f \in Fds : b = [fd |-> f, ev |-> reg[f]]
      BY <2>1
    <3>2. QED BY <3>1
  <2>3. \A f \in Fds : reg[f] # "none" => Backed(f)'
    BY <1>2, <2>1 DEF EventsBacked, Backed, Removing
  <2>4. QED BY <2>1, <2>2, <2>3 DEF EventsBacked, Handling, Removing
<1>4. CASE NextEvent
  <2>1. epc = "next" /\ UNCHANGED <<reg, ctx, que>>
    BY <1>4 DEF NextEvent, fdvars
  <2>2. \A f \in Fds : reg[f] # "none" => Backed(f)'
    BY <1>2, <2>1 DEF EventsBacked, Backed, Removing
  <2>3. CASE batch = {} /\ epc' = "wait" /\ batch' = batch
    BY <2>1, <2>2, <2>3 DEF EventsBacked, Handling, Removing
  <2>4. CASE \E b \in batch : /\ batch' = batch \ {b}
                              /\ ecur' = b /\ ectx' = ctx[b.fd]
                              /\ epc' = IF ctx[b.fd] = None THEN "crashed" ELSE "pop"
    <3>1. PICK b \in batch : /\ batch' = batch \ {b}
                             /\ ecur' = b /\ ectx' = ctx[b.fd]
                             /\ epc' = IF ctx[b.fd] = None THEN "crashed" ELSE "pop"
      BY <2>4
    <3>2. Backed(b.fd) /\ reg[b.fd] = b.ev
      BY <1>2, PendingBacked DEF EventsBacked
    <3>3. epc' = "pop"
      BY <3>1, <3>2 DEF Backed
    <3>4. \A a \in batch' : reg[a.fd] = a.ev /\ a.fd # b.fd
      <4> SUFFICES ASSUME NEW a \in batch, a # b PROVE reg[a.fd] = a.ev /\ a.fd # b.fd
        BY <3>1
      <4>1. reg[a.fd] = a.ev
        BY <1>2 DEF EventsBacked
      <4>2. a \in [fd : Fds, ev : Events] /\ b \in [fd : Fds, ev : Events]
        BY DEF CallInv, TypeInv
      <4>3. QED BY <3>2, <4>1, <4>2
    <3>5. QED BY <2>1, <2>2, <3>1, <3>2, <3>3, <3>4 DEF EventsBacked
  <2>5. QED BY <1>4, <2>3, <2>4 DEF NextEvent
<1>5. CASE PopEntry
  <2>1. /\ epc = "pop" /\ ectx \notin freed /\ UNCHANGED <<reg, ctx, batch, ecur, ectx>>
    BY <1>5 DEF PopEntry, fdvars
  <2>2. /\ ecur.fd \in Fds /\ ecur.ev \in Events /\ Backed(ecur.fd)
        /\ reg[ecur.fd] = ecur.ev /\ ectx = ctx[ecur.fd] /\ ectx \in Contexts
    BY <1>2, <2>1, PendingBacked DEF EventsBacked, CallInv, HeldInv, Handling
  <2>3. que[ectx][ecur.ev] # <<>>
    BY <2>2 DEF Backed
  <2>4. epc' = "wake" /\ que' = [que EXCEPT ![ectx][ecur.ev] = Tail(@)]
    BY <1>5, <2>1, <2>3 DEF PopEntry
  <2>5. ASSUME NEW f \in Fds, f # ecur.fd, Backed(f) PROVE Backed(f)'
    <3>1. ctx[f] # ectx
      BY <1>1, <2>2, <2>5 DEF Backed, CallInv, ContextInv, ContextsApart
    <3>2. ctx[f] \in Contexts
      BY <2>5 DEF Backed, CallInv, TypeInv
    <3>3. que'[ctx[f]] = que[ctx[f]]
      BY <2>4, <3>1, <3>2 DEF CallInv, TypeInv
    <3>4. QED BY <2>1, <2>5, <3>3 DEF Backed
  <2>6. \A f \in Fds : reg'[f] # "none" => Backed(f)' \/ (epc' \in Removing /\ ecur'.fd = f)
    BY <1>2, <2>1, <2>4, <2>5 DEF EventsBacked, Removing
  <2>7. QED BY <1>2, <2>1, <2>4, <2>6 DEF EventsBacked, Handling, Removing
<1>6. CASE WakeEntry
  <2>1. epc = "wake" /\ epc' = "remove" /\ UNCHANGED <<reg, ctx, que, batch, ecur, ectx>>
    BY <1>6 DEF WakeEntry, fdvars
  <2>2. QED BY <1>2, <2>1 DEF EventsBacked, Backed, Handling, Removing
<1>9. CASE ReadFd
  <2>1. /\ epc = "remove" /\ epc' = "del" /\ ectx \notin freed
        /\ UNCHANGED <<reg, ctx, que, batch>> /\ ecur'.fd = ecur.fd
    BY <1>9 DEF ReadFd, fdvars, CallInv, HeldInv, Handling
  <2>2. QED BY <1>2, <2>1 DEF EventsBacked, Backed, Handling, Removing
<1>7. CASE RemoveEvent
  <2>1. epc = "del" /\ epc' = "next" /\ UNCHANGED <<ctx, que, batch>>
    BY <1>7 DEF RemoveEvent, fdvars
  <2>2. \A f \in Fds : reg'[f] = IF f = ecur.fd THEN "none" ELSE reg[f]
    BY <1>7 DEF RemoveEvent
  <2>3. \A f \in Fds : reg'[f] # "none" => Backed(f)'
    BY <1>2, <2>1, <2>2 DEF EventsBacked, Backed
  <2>4. \A b \in batch : b.fd \in Fds /\ reg[b.fd] = b.ev /\ b.fd # ecur.fd
    BY <1>2, <2>1 DEF EventsBacked, Handling, Removing, CallInv, TypeInv
  <2>5. QED BY <2>1, <2>2, <2>3, <2>4 DEF EventsBacked, Handling, Removing
<1>8. QED BY <1>3, <1>4, <1>5, <1>6, <1>7, <1>9 DEF EpollStep

LEMMA EventStep == ASSUME CallInv, EventInv, [Next]_vars PROVE EventInv'
<1>1. ASSUME UNCHANGED <<mode, epc, batch, ecur, ectx, reg, ctx, que, usedFreed>> PROVE EventInv'
  BY <1>1 DEF EventInv, EventsBacked, Backed
<1>2. CASE \E f \in Fds, e \in Events : BecomeReady(f, e)
  BY <1>1, <1>2 DEF BecomeReady, fdvars, evars
<1>3. CASE UNCHANGED vars
  BY <1>1, <1>3 DEF vars, fdvars, evars
<1>4. QED BY <1>2, <1>3, TaskEvents, EpollEvents DEF Next

LEMMA EventsHold == Spec => [](CallInv /\ EventInv)
<1>1. Init => EventInv
  BY InitEvent
<1>2. CallInv /\ EventInv /\ [Next]_vars => EventInv'
  BY EventStep
<1>3. QED BY <1>1, <1>2, CallsHold, PTL DEF Spec

\* Every event that epoll reports finds a context in the map and a task on its
\* list, as long as tasks keep to a discipline and no deleted context was used.
THEOREM EventsFindEntries == Spec => []EventFindsEntry
<1>1. CallInv /\ EventInv => EventFindsEntry
  BY DEF EventInv, EventsBacked, EventFindsEntry
<1>2. QED BY <1>1, EventsHold, PTL
-----------------------------------------------------------------------------
(* What a woken task finds, if tasks keep to the descriptors they opened *)

\* An event stays there from epoll's report until the task it is for makes its
\* call: nobody else uses the descriptor.
EventsReady ==
    /\ \A b \in batch : <<b.fd, b.ev>> \in ready
    /\ epc = "pop" => <<ecur.fd, ecur.ev>> \in ready
    /\ entry # None => <<tfd[entry], tev[entry]>> \in ready
    /\ \A t \in woken : <<tfd[t], tev[t]>> \in ready

ReadyInv == mode = "private" /\ ~usedFreed => EventsReady

LEMMA InitReady == Init => ReadyInv
BY DEF Init, ReadyInv, EventsReady

\* What a step of task t has to keep: it uses up only what is its own.
LEMMA ReadyKept ==
  ASSUME CallInv, EventInv, ReadyInv, mode = "private", ~usedFreed, NEW t \in Tasks,
         UNCHANGED <<epc, batch, ecur, entry>>, woken' \subseteq woken,
         \A u \in Tasks : u # t => tfd'[u] = tfd[u] /\ tev'[u] = tev[u],
         Sleeps(t) \/ t \in woken' => ready \subseteq ready' /\ tfd'[t] = tfd[t] /\ tev'[t] = tev[t],
         \A f \in Fds, e \in Events :
            <<f, e>> \in ready => <<f, e>> \in ready' \/ owner[f] = t
  PROVE  EventsReady'
<1>1. EventsBacked /\ EventsReady
  BY DEF EventInv, ReadyInv
<1>2. ASSUME NEW f \in Fds, NEW e \in Events, Backed(f), reg[f] = e, <<f, e>> \in ready
      PROVE  <<f, e>> \in ready'
  <2>1. PICK u \in Tasks : Sleeps(u) /\ owner[f] = u
    BY <1>2, Waiter DEF Backed
  <2>2. CASE u = t
    BY <1>2, <2>1, <2>2
  <2>3. CASE u # t
    BY <1>2, <2>1, <2>3
  <2>4. QED BY <2>2, <2>3
<1>3. ASSUME NEW u \in Tasks, Sleeps(u) \/ u \in woken', <<tfd[u], tev[u]>> \in ready
      PROVE  <<tfd'[u], tev'[u]>> \in ready'
  <2>1. tpc[u] \in InCall /\ tfd[u] \in Fds /\ tev[u] \in Events
    BY <1>3 DEF Sleeps, InCall, CallInv, HeldInv, ListInv
  <2>2. owner[tfd[u]] = u
    BY <2>1 DEF CallInv, ContextInv, UserInv
  <2>3. CASE u = t
    BY <1>3, <2>3
  <2>4. CASE u # t
    <3>1. tfd'[u] = tfd[u] /\ tev'[u] = tev[u]
      BY <2>4
    <3>2. <<tfd[u], tev[u]>> \in ready'
      BY <1>3, <2>1, <2>2, <2>4
    <3>3. QED BY <3>1, <3>2
  <2>5. QED BY <2>3, <2>4
<1>4. \A b \in batch' : <<b.fd, b.ev>> \in ready'
  BY <1>1, <1>2, PendingBacked DEF EventsReady, EventsBacked
<1>5. epc' = "pop" => <<ecur'.fd, ecur'.ev>> \in ready'
  BY <1>1, <1>2, PendingBacked DEF EventsReady, EventsBacked
<1>6. entry' # None => <<tfd'[entry'], tev'[entry']>> \in ready'
  BY <1>1, <1>3 DEF EventsReady, CallInv, TypeInv, ListInv
<1>7. \A u \in woken' : <<tfd'[u], tev'[u]>> \in ready'
  BY <1>1, <1>3 DEF EventsReady, CallInv, TypeInv
<1>8. QED BY <1>4, <1>5, <1>6, <1>7 DEF EventsReady

LEMMA TaskReady ==
  ASSUME CallInv, EventInv, ReadyInv, NEW t \in Tasks, TaskStep(t) PROVE ReadyInv'
<1> SUFFICES ASSUME mode' = "private", ~usedFreed' PROVE EventsReady'
  BY DEF ReadyInv
<1>1. ASSUME NEW f \in Fds,
             Socket(t, f) \/ CloseGet(t, f) \/ SetNonBlocking(t, f)
      PROVE  EventsReady'
  <2>1. /\ mode = "private" /\ ~usedFreed /\ tpc[t] = "run"
        /\ UNCHANGED <<epc, batch, ecur, entry, woken, ready, tev>>
        /\ \A u \in Tasks : u # t => tfd'[u] = tfd[u]
    BY <1>1 DEF Socket, CloseGet, SetNonBlocking, evars, fdvars, taskvars, CallInv, TypeInv
  <2>2. ~Sleeps(t) /\ t \notin woken
    BY <2>1 DEF Sleeps, CallInv, ListInv
  <2>3. QED BY <2>1, <2>2, ReadyKept
<1>2. ASSUME NEW f \in Fds, NEW e \in Events, Hook(t, f, e) PROVE EventsReady'
  <2>1. /\ mode = "private" /\ ~usedFreed /\ tpc[t] = "run"
        /\ UNCHANGED <<epc, batch, ecur, entry, woken, ready>>
        /\ \A u \in Tasks : u # t => tfd'[u] = tfd[u] /\ tev'[u] = tev[u]
    BY <1>2 DEF Hook, evars, fdvars, CallInv, TypeInv
  <2>2. ~Sleeps(t) /\ t \notin woken
    BY <2>1 DEF Sleeps, CallInv, ListInv
  <2>3. QED BY <2>1, <2>2, ReadyKept
<1>3. ASSUME NEW f \in Fds, NEW e \in Events, CallAtOnce(t, f, e) PROVE EventsReady'
  <2>1. /\ mode = "private" /\ ~usedFreed /\ tpc[t] = "run" /\ owner[f] = t
        /\ UNCHANGED <<epc, batch, ecur, entry, woken, tfd, tev>> /\ ready' = ready \ {<<f, e>>}
    BY <1>3 DEF CallAtOnce, MayUse, evars, fdvars, taskvars
  <2>2. ~Sleeps(t) /\ t \notin woken
    BY <2>1 DEF Sleeps, CallInv, ListInv
  <2>3. \A g \in Fds, d \in Events : <<g, d>> \in ready => <<g, d>> \in ready' \/ owner[g] = t
    BY <2>1
  <2>4. QED BY <2>1, <2>2, <2>3, ReadyKept
<1>4. CASE AddPush(t) \/ AddCtl(t) \/ CloseErase(t) \/ CloseDelete(t)
  <2>1. mode = "private" /\ UNCHANGED <<epc, batch, ecur, entry, woken, ready, tfd, tev>>
    BY <1>4 DEF AddPush, AddCtl, CloseErase, CloseDelete, evars, fdvars
  <2>2. ~usedFreed
    BY <1>4 DEF AddPush, AddCtl, CloseErase, CloseDelete
  <2>3. QED BY <2>1, <2>2, ReadyKept
<1>5. CASE Return(t)
  <2>1. /\ mode = "private" /\ ~usedFreed /\ tpc[t] = "asleep" /\ t \in woken
        /\ woken' = woken \ {t} /\ UNCHANGED <<epc, batch, ecur, entry>>
        /\ \A u \in Tasks : u # t => tfd'[u] = tfd[u] /\ tev'[u] = tev[u]
    BY <1>5 DEF Return, evars, fdvars, CallInv, TypeInv
  <2>2. ~Sleeps(t) /\ t \notin woken'
    BY <2>1 DEF Sleeps
  <2>3. owner[tfd[t]] = t
    BY <2>1 DEF CallInv, ContextInv, UserInv, InCall
  <2>4. \A g \in Fds, d \in Events : <<g, d>> \in ready => <<g, d>> \in ready' \/ owner[g] = t
    <3>1. PICK used \in SUBSET {<<tfd[t], tev[t]>>} : ready' = ready \ used
      BY <1>5 DEF Return
    <3>2. QED BY <2>3, <3>1
  <2>5. QED BY <2>1, <2>2, <2>4, ReadyKept
<1>6. CASE CloseFd(t)
  <2>1. /\ mode = "private" /\ ~usedFreed /\ tpc[t] = "close"
        /\ ready' = ready \ ({tfd[t]} \X Events)
        /\ UNCHANGED <<epc, batch, ecur, entry, woken, tev>>
        /\ \A u \in Tasks : u # t => tfd'[u] = tfd[u]
    BY <1>6 DEF CloseFd, evars, CallInv, TypeInv
  <2>2. ~Sleeps(t) /\ t \notin woken
    BY <2>1 DEF Sleeps, CallInv, ListInv
  <2>3. owner[tfd[t]] = t
    BY <2>1 DEF CallInv, ContextInv, UserInv, Closing
  <2>4. \A g \in Fds, d \in Events : <<g, d>> \in ready => <<g, d>> \in ready' \/ owner[g] = t
    BY <2>1, <2>3
  <2>5. QED BY <2>1, <2>2, <2>4, ReadyKept
<1>7. QED BY <1>1, <1>2, <1>3, <1>4, <1>5, <1>6 DEF TaskStep

LEMMA EpollReady ==
  ASSUME CallInv, EventInv, ReadyInv, EpollStep PROVE ReadyInv'
<1> SUFFICES ASSUME mode' = "private", ~usedFreed' PROVE EventsReady'
  BY DEF ReadyInv
<1>1. mode = "private" /\ UNCHANGED <<ready, tfd, tev>>
  BY DEF EpollStep, EpollWait, NextEvent, PopEntry, WakeEntry, ReadFd, RemoveEvent, fdvars, taskvars
<1>2. ~usedFreed
  <2>1. CASE EpollWait \/ NextEvent \/ WakeEntry
    BY <2>1 DEF EpollWait, NextEvent, WakeEntry
  <2>2. CASE PopEntry
    BY <2>2 DEF PopEntry
  <2>3. CASE ReadFd \/ RemoveEvent
    BY <2>3 DEF ReadFd, RemoveEvent
  <2>4. QED BY <2>1, <2>2, <2>3 DEF EpollStep
<1>3. EventsBacked /\ EventsReady
  BY <1>1, <1>2 DEF EventInv, ReadyInv
<1>4. CASE EpollWait
  <2>1. /\ epc' = "next" /\ UNCHANGED <<entry, woken>>
        /\ batch' = {[fd |-> f, ev |-> reg[f]] : f \in {f \in Fds : <<f, reg[f]>> \in ready}}
    BY <1>4 DEF EpollWait
  <2>2. ASSUME NEW b \in batch' PROVE <<b.fd, b.ev>> \in ready
    <3>1. PICK f \in Fds : <<f, reg[f]>> \in ready /\ b = [fd |-> f, ev |-> reg[f]]
      BY <2>1
    <3>2. QED BY <3>1
  <2>3. QED BY <1>1, <1>3, <2>1, <2>2 DEF EventsReady
<1>5. CASE NextEvent
  <2>1. /\ batch' \subseteq batch /\ UNCHANGED <<entry, woken>>
        /\ epc' = "pop" => ecur' \in batch
    BY <1>5 DEF NextEvent
  <2>2. QED BY <1>1, <1>3, <2>1 DEF EventsReady
<1>6. CASE PopEntry
  <2>1. epc = "pop" /\ epc' # "pop" /\ UNCHANGED <<batch, woken>> /\ entry = None
    BY <1>6 DEF PopEntry, CallInv, HeldInv
  <2>2. /\ ecur.fd \in Fds /\ ecur.ev \in Events /\ Backed(ecur.fd)
        /\ reg[ecur.fd] = ecur.ev /\ ectx = ctx[ecur.fd]
    BY <1>3, <2>1, PendingBacked DEF EventsBacked
  <2>3. PICK u \in Tasks : u = Head(que[ectx][ecur.ev]) /\ tfd[u] = ecur.fd /\ tev[u] = ecur.ev
    BY <1>1, <2>2, Waiter DEF Backed
  <2>4. entry' = entry \/ entry' = u
    BY <1>6, <2>3 DEF PopEntry
  <2>5. QED BY <1>1, <1>3, <2>1, <2>3, <2>4 DEF EventsReady
<1>7. CASE WakeEntry
  <2>1. /\ entry # None /\ entry' = None /\ woken' = woken \cup {entry} /\ epc' # "pop"
        /\ batch' = batch
    BY <1>7 DEF WakeEntry, CallInv, HeldInv
  <2>2. QED BY <1>1, <1>3, <2>1 DEF EventsReady
<1>8. CASE ReadFd \/ RemoveEvent
  <2>1. epc' \in {"del", "next"} /\ UNCHANGED <<batch, entry, woken>>
    BY <1>8 DEF ReadFd, RemoveEvent
  <2>2. QED BY <1>1, <1>3, <2>1 DEF EventsReady
<1>9. QED BY <1>4, <1>5, <1>6, <1>7, <1>8 DEF EpollStep

LEMMA ReadyStep == ASSUME CallInv, EventInv, ReadyInv, [Next]_vars PROVE ReadyInv'
<1>1. ASSUME UNCHANGED <<mode, epc, batch, ecur, entry, woken, tfd, tev, usedFreed>>,
             ready \subseteq ready'
      PROVE  ReadyInv'
  BY <1>1 DEF ReadyInv, EventsReady
<1>2. CASE \E f \in Fds, e \in Events : BecomeReady(f, e)
  <2>1. /\ UNCHANGED <<mode, epc, batch, ecur, entry, woken, tfd, tev, usedFreed>>
        /\ ready \subseteq ready'
    BY <1>2 DEF BecomeReady, fdvars, evars, taskvars
  <2>2. QED BY <1>1, <2>1
<1>3. CASE UNCHANGED vars
  <2>1. UNCHANGED <<mode, epc, batch, ecur, entry, woken, tfd, tev, usedFreed, ready>>
    BY <1>3 DEF vars, fdvars, evars, taskvars
  <2>2. QED BY <1>1, <2>1
<1>4. QED BY <1>2, <1>3, TaskReady, EpollReady DEF Next

\* A task that is woken finds the event it waited for, if tasks keep to the
\* descriptors they opened and no deleted context was used: that do_hook makes
\* its call once, without looking again, is then enough.
THEOREM WokenCallsSucceed == Spec => []WokenCallSucceeds
<1>1. Init => ReadyInv
  BY InitReady
<1>2. CallInv /\ EventInv /\ ReadyInv /\ [Next]_vars => ReadyInv'
  BY ReadyStep
<1>3. ReadyInv => WokenCallSucceeds
  BY DEF ReadyInv, EventsReady, WokenCallSucceeds
<1>4. QED BY <1>1, <1>2, <1>3, EventsHold, PTL DEF Spec
-----------------------------------------------------------------------------
(* Hooks: for programs with no habit but "early" the flags that the hooks  *)
(* keep agree with what the program asked for, for any number of           *)
(* descriptors and files.                                                  *)

FlagTypes ==
    /\ running \in BOOLEAN
    /\ flag \in [Numbers -> {"none", "wait", "nonblock"}]
    /\ file \in [Numbers -> Files \cup {Closed}]

\* Only an open descriptor has a context, and only after start.
ContextsOfOpen == \A f \in Numbers : flag[f] # "none" => running /\ file[f] # Closed

\* The kernel's flag is the program's wish, but for a file that one descriptor
\* only leads to, one whose calls wait.
FlagsAgree ==
    \A f \in Numbers : file[f] # Closed =>
        IF flag[f] = "wait"
        THEN file[f] \in nonb \ asked /\ \A g \in Numbers \ {f} : file[g] # file[f]
        ELSE file[f] \in nonb <=> file[f] \in asked

FlagInv == FlagTypes /\ ContextsOfOpen /\ FlagsAgree

\* The files and the flags stay as they are when a call changes none of them.
flagvars == <<running, flag, file, nonb, asked>>
LEMMA FlagsUnchanged == FlagInv /\ UNCHANGED flagvars => FlagInv'
BY DEF FlagInv, FlagTypes, ContextsOfOpen, FlagsAgree, flagvars

\* socket and accept: the new file is nobody else's, hooked or not.
LEMMA OpenKeeps ==
    ASSUME FlagInv, NEW f \in Numbers, NEW h \in Files, NEW c,
           NEW hooked \in BOOLEAN, NEW want \in BOOLEAN, hooked => running /\ ~want,
           Open(f, h, hooked, want, c)
    PROVE  FlagInv'
<1> USE DEF FlagInv, FlagTypes, ContextsOfOpen, FlagsAgree
<1>1. Closed \notin Files
  BY HooksAssumption
<1>2. \A g \in Numbers : file[g] # h
  BY DEF Open, Unused
<1>3. FlagTypes'
  BY DEF Open
<1>4. ContextsOfOpen'
  BY <1>1 DEF Open
<1>5. FlagsAgree'
  <2> SUFFICES ASSUME NEW g \in Numbers, file'[g] # Closed
               PROVE  IF flag'[g] = "wait"
                      THEN file'[g] \in nonb' \ asked' /\ \A k \in Numbers \ {g} : file'[k] # file'[g]
                      ELSE file'[g] \in nonb' <=> file'[g] \in asked'
    OBVIOUS
  <2>1. CASE g = f
    BY <1>2, <2>1 DEF Open
  <2>2. CASE g # f
    BY <1>2, <2>2 DEF Open
  <2> QED
    BY <2>1, <2>2
<1> QED
  BY <1>3, <1>4, <1>5

\* fcntl(F_SETFL): on a hooked descriptor only to ask O_NONBLOCK, otherwise
\* passed to the kernel; either way kernel and program agree afterwards, and a
\* file that had one waiting descriptor has none.
LEMMA SetFlKeeps ==
    ASSUME FlagInv, NEW f \in Numbers, NEW want \in BOOLEAN, SetFl(f, want),
           "clear" \notin Habits
    PROVE  FlagInv'
<1> USE DEF FlagInv, FlagTypes, ContextsOfOpen, FlagsAgree
<1>1. FlagTypes' /\ ContextsOfOpen'
  BY DEF SetFl, Disabled, Idle
<1>2. FlagsAgree'
  <2> SUFFICES ASSUME NEW g \in Numbers, file'[g] # Closed
               PROVE  IF flag'[g] = "wait"
                      THEN file'[g] \in nonb' \ asked' /\ \A k \in Numbers \ {g} : file'[k] # file'[g]
                      ELSE file'[g] \in nonb' <=> file'[g] \in asked'
    OBVIOUS
  <2>1. file[f] # Closed /\ (want \/ flag[f] = "none")
    BY DEF SetFl, Disabled, Idle
  <2>2. CASE g = f
    BY <2>1, <2>2 DEF SetFl, Disabled
  <2>3. CASE g # f
    BY <2>1, <2>3 DEF SetFl, Disabled
  <2> QED
    BY <2>2, <2>3
<1> QED
  BY <1>1, <1>2

\* F_DUPFD of a descriptor without a context, or of a file the program made
\* non-blocking: no waiting descriptor is duplicated.
LEMMA DupKeeps ==
    ASSUME FlagInv, NEW f \in Numbers, NEW g \in Numbers, Dup(f, g), "dup" \notin Habits
    PROVE  FlagInv'
<1> USE DEF FlagInv, FlagTypes, ContextsOfOpen, FlagsAgree
<1>1. file[f] # Closed /\ flag[f] # "wait" /\ flag[g] = "none" /\ f # g
  BY DEF Dup, Idle
<1>2. FlagTypes' /\ ContextsOfOpen'
  BY <1>1 DEF Dup
<1>3. FlagsAgree'
  BY <1>1 DEF Dup
<1> QED
  BY <1>2, <1>3

\* The step of every call.
LEMMA FlagStep ==
    ASSUME Habits \subseteq {"early"}, FlagInv, [HookNext]_hookvars
    PROVE  FlagInv'
<1>1. CASE Start
  BY <1>1 DEF Start, kernel, FlagInv, FlagTypes, ContextsOfOpen, FlagsAgree
<1>2. ASSUME NEW f \in Numbers, NEW h \in Files, NEW want \in BOOLEAN, NewSocket(f, h, want)
      PROVE  FlagInv'
  BY <1>2, OpenKeeps DEF NewSocket, Disabled, FlagInv, FlagTypes
<1>3. ASSUME NEW f \in Numbers, NEW g \in Numbers, NEW h \in Files, Accept(f, g, h) PROVE FlagInv'
  BY <1>3, OpenKeeps DEF Accept
<1>4. ASSUME NEW f \in Numbers, Close(f) PROVE FlagInv'
  BY <1>4 DEF Close, Disabled, FlagInv, FlagTypes, ContextsOfOpen, FlagsAgree
<1>5. ASSUME NEW f \in Numbers, NEW g \in Numbers, Dup(f, g) PROVE FlagInv'
  BY <1>5, DupKeeps
<1>6. ASSUME NEW f \in Numbers, NEW want \in BOOLEAN, SetFl(f, want) PROVE FlagInv'
  BY <1>6, SetFlKeeps
<1>7. ASSUME NEW f \in Numbers, SetAnotherFlag(f) PROVE FlagInv'
  <2>1. file[f] \in asked /\ file[f] # Closed /\ flag[f] = "nonblock" /\ file[f] \in nonb
    BY <1>7 DEF SetAnotherFlag, Idle, FlagInv, FlagTypes, FlagsAgree
  <2>2. flag' = flag /\ nonb' = nonb
    BY <1>7, <2>1 DEF SetAnotherFlag, FlagInv, FlagTypes
  <2> QED
    BY <1>7, <2>2, FlagsUnchanged DEF SetAnotherFlag, flagvars
<1>8. ASSUME NEW f \in Numbers,
             \/ Connect(f) \/ KernelConnected(f) \/ PollNothing(f)
             \/ PollEvent(f) \/ PollsOver(f)
             \/ SetRecvTimeOut(f) \/ Read(f) \/ ReadData(f) \/ KernelTimeOut(f)
      PROVE  FlagInv'
  BY <1>8, FlagsUnchanged
  DEF flagvars, kernel, Connect, KernelConnected, PollNothing,
      PollEvent, PollsOver,
      SetRecvTimeOut, Read, ReadData, KernelTimeOut
<1>9. ASSUME NEW h \in Files, Answer(h) PROVE FlagInv'
  BY <1>9, FlagsUnchanged DEF flagvars, Answer
<1>10. CASE UNCHANGED hookvars
  BY <1>10, FlagsUnchanged DEF flagvars, hookvars, kernel
<1> QED
  BY <1>1, <1>2, <1>3, <1>4, <1>5, <1>6, <1>7, <1>8, <1>9, <1>10 DEF HookNext

\* Whatever the descriptors were before and however a program that makes hooked
\* sockets without SOCK_NONBLOCK and has none of the other habits but "early" opens,
\* duplicates, closes and sets them, the next call on one waits, blocks or returns
\* as the program asked (hook.cpp:104, 270).
THEOREM FlagsAsAsked ==
    ASSUME Habits \subseteq {"early"}
    PROVE  HookSpec => []CallsAsAsked
<1>1. HookInit => FlagInv
  <2> SUFFICES ASSUME HookInit PROVE FlagInv
    OBVIOUS
  <2>1. FlagTypes
    BY DEF HookInit, FlagTypes
  <2>2. ContextsOfOpen /\ FlagsAgree
    BY DEF HookInit, ContextsOfOpen, FlagsAgree
  <2> QED
    BY <2>1, <2>2 DEF FlagInv
<1>2. FlagInv /\ [HookNext]_hookvars => FlagInv'
  BY FlagStep
<1>3. FlagInv => CallsAsAsked
  BY DEF FlagInv, FlagTypes, ContextsOfOpen, FlagsAgree, CallsAsAsked, Direct, Disabled
<1> QED
  BY <1>1, <1>2, <1>3, PTL DEF HookSpec
-----------------------------------------------------------------------------
ConnTypes ==
    /\ file \in [Numbers -> Files \cup {Closed}]
    /\ conn \in [Files -> {"idle", "pending", "up", "refused"}]
    /\ call \in [Numbers -> {"none", "kernel", "poll", "kernel read", "read"}]
    /\ said \in [Numbers -> {"nothing", "ok", "refused", "in progress", "timed out"}]

\* A connect that waits has an open file whose connection was begun.
WaitsForBegun ==
    \A f \in Numbers : call[f] \in {"poll", "kernel"} => file[f] # Closed /\ conn[file[f]] # "idle"

\* A descriptor told of success is open and its file has been answered.
ToldOfAnswered ==
    \A f \in Numbers : said[f] = "ok" => file[f] # Closed /\ conn[file[f]] \in {"up", "refused"}

ConnInv == ConnTypes /\ WaitsForBegun /\ ToldOfAnswered

connvars == <<file, conn, call, said>>
LEMMA ConnUnchanged == ConnInv /\ UNCHANGED connvars => ConnInv'
BY DEF ConnInv, ConnTypes, WaitsForBegun, ToldOfAnswered, connvars

\* A new file replaces no file that a descriptor leads to.
LEMMA OpenKeepsConn ==
    ASSUME ConnInv, NEW f \in Numbers, NEW h \in Files, NEW hooked, NEW want,
           NEW c \in {"idle", "up"}, Open(f, h, hooked, want, c)
    PROVE  ConnInv'
<1> USE DEF ConnInv, ConnTypes, WaitsForBegun, ToldOfAnswered
<1>1. /\ file' = [file EXCEPT ![f] = h] /\ conn' = [conn EXCEPT ![h] = c]
      /\ UNCHANGED <<call, said>> /\ file[f] = Closed /\ \A g \in Numbers : file[g] # h
  BY DEF Open, Unused, calls
<1>2. ConnTypes'
  BY <1>1
<1>3. \A g \in Numbers : file[g] # Closed => file'[g] = file[g] /\ conn'[file[g]] = conn[file[g]]
  BY <1>1
<1> QED
  BY <1>1, <1>2, <1>3

\* connect begins, and its answer comes, only once.
LEMMA ConnectKeepsConn ==
    ASSUME ConnInv, NEW f \in Numbers, Connect(f)
    PROVE  ConnInv'
<1> USE DEF ConnInv, ConnTypes, WaitsForBegun, ToldOfAnswered
<1>1. file[f] \in Files /\ conn[file[f]] = "idle" /\ file' = file
  BY DEF Connect, Idle
<1>2. PICK c \in {"up", "refused", "pending"} : conn' = [conn EXCEPT ![file[f]] = c]
  BY DEF Connect
<1>3. \/ c = "up" /\ Tell(f, "ok") /\ call' = call
      \/ c = "refused" /\ Tell(f, "refused") /\ call' = call
      \/ \E w \in {"kernel", "poll"} : call' = [call EXCEPT ![f] = w] /\ said' = said
      \/ Tell(f, "in progress") /\ call' = call
  BY <1>1, <1>2 DEF Connect
<1>4. \A h \in Files : conn[h] # "idle" => conn'[h] = conn[h]
  BY <1>1, <1>2
<1>5. conn'[file[f]] = c
  BY <1>1, <1>2
<1>6. ConnTypes'
  BY <1>1, <1>2, <1>3 DEF Tell
<1>7. WaitsForBegun'
  <2> SUFFICES ASSUME NEW g \in Numbers, call'[g] \in {"poll", "kernel"}
               PROVE  file'[g] # Closed /\ conn'[file'[g]] # "idle"
    OBVIOUS
  <2>1. CASE g = f
    BY <1>1, <1>5, <2>1, HooksAssumption
  <2>2. CASE g # f
    <3>1. call'[g] = call[g]
      BY <1>3, <2>2 DEF Tell
    <3>2. file[g] \in Files /\ conn[file[g]] # "idle"
      BY <3>1
    <3> QED
      BY <1>1, <1>4, <3>2, HooksAssumption
  <2> QED
    BY <2>1, <2>2
<1>8. ToldOfAnswered'
  <2> SUFFICES ASSUME NEW g \in Numbers, said'[g] = "ok"
               PROVE  file'[g] # Closed /\ conn'[file'[g]] \in {"up", "refused"}
    OBVIOUS
  <2>1. CASE said[g] = "ok"
    <3>1. file[g] \in Files /\ conn[file[g]] \in {"up", "refused"}
      BY <2>1
    <3>2. conn'[file[g]] = conn[file[g]]
      BY <1>4, <3>1
    <3> QED
      BY <1>1, <3>1, <3>2, HooksAssumption
  <2>2. CASE said[g] # "ok"
    <3>1. g = f /\ c = "up"
      BY <1>3, <2>2 DEF Tell
    <3> QED
      BY <1>1, <1>5, <3>1, HooksAssumption
  <2> QED
    BY <2>1, <2>2
<1> QED
  BY <1>6, <1>7, <1>8

\* The calls that wait return what the connection says.
LEMMA ReturnKeepsConn ==
    ASSUME ConnInv, NEW f \in Numbers,
           KernelConnected(f) \/ PollEvent(f) \/ PollsOver(f)
    PROVE  ConnInv'
<1> USE DEF ConnInv, ConnTypes, WaitsForBegun, ToldOfAnswered
<1>1. UNCHANGED <<file, conn>> /\ call' = [call EXCEPT ![f] = "none"]
  BY DEF KernelConnected, PollEvent, PollsOver, Done, kernel
<1>2. file[f] \in Files /\ conn[file[f]] # "idle"
  BY DEF KernelConnected, PollEvent, PollsOver
<1>3. \E what \in {"ok", "refused", "timed out"} :
        said' = [said EXCEPT ![f] = what] /\ (what = "ok" => conn[file[f]] \in {"up", "refused"})
  <2>1. conn[file[f]] \in {"pending", "up", "refused"}
    BY <1>2
  <2>2. CASE KernelConnected(f)
    BY <2>1, <2>2 DEF KernelConnected, Tell
  <2>3. CASE PollEvent(f)
    BY <2>1, <2>3 DEF PollEvent, Tell
  <2>4. CASE PollsOver(f)
    BY <2>1, <2>4 DEF PollsOver, Tell
  <2> QED
    BY <2>2, <2>3, <2>4
<1>4. ConnTypes'
  <2>1. call' \in [Numbers -> {"none", "kernel", "poll", "kernel read", "read"}]
    BY <1>1
  <2>2. said' \in [Numbers -> {"nothing", "ok", "refused", "in progress", "timed out"}]
    BY <1>3
  <2> QED
    BY <1>1, <2>1, <2>2
<1>5. WaitsForBegun'
  BY <1>1
<1>6. ToldOfAnswered'
  <2> SUFFICES ASSUME NEW g \in Numbers, said'[g] = "ok"
               PROVE  file[g] # Closed /\ conn[file[g]] \in {"up", "refused"}
    BY <1>1
  <2>1. CASE said[g] = "ok"
    BY <2>1
  <2>2. CASE said[g] # "ok"
    <3>1. g = f /\ conn[file[f]] \in {"up", "refused"}
      BY <1>3, <2>2
    <3> QED
      BY <1>2, <3>1, HooksAssumption
  <2> QED
    BY <2>1, <2>2
<1> QED
  BY <1>4, <1>5, <1>6

LEMMA ConnStep ==
    ConnInv /\ [HookNext]_hookvars => ConnInv'
<1> SUFFICES ASSUME ConnInv, [HookNext]_hookvars PROVE ConnInv'
  OBVIOUS
<1>1. CASE Start \/ UNCHANGED hookvars
  BY <1>1, ConnUnchanged DEF Start, hookvars, kernel, calls, connvars
<1>2. ASSUME NEW f \in Numbers, NEW h \in Files,
             \/ \E want \in BOOLEAN : NewSocket(f, h, want)
             \/ \E g \in Numbers : Accept(f, g, h)
      PROVE  ConnInv'
  BY <1>2, OpenKeepsConn DEF NewSocket, Accept
<1>3. ASSUME NEW h \in Files, Answer(h) PROVE ConnInv'
  BY <1>3 DEF Answer, calls, ConnInv, ConnTypes, WaitsForBegun, ToldOfAnswered
<1>4. ASSUME NEW f \in Numbers, Close(f) PROVE ConnInv'
  BY <1>4 DEF Close, Idle, ConnInv, ConnTypes, WaitsForBegun, ToldOfAnswered
<1>5. ASSUME NEW f \in Numbers, NEW g \in Numbers, Dup(f, g) PROVE ConnInv'
  BY <1>5 DEF Dup, Idle, calls, ConnInv, ConnTypes, WaitsForBegun, ToldOfAnswered
<1>6. ASSUME NEW f \in Numbers,
             \/ \E want \in BOOLEAN : SetFl(f, want)
             \/ SetAnotherFlag(f) \/ PollNothing(f) \/ SetRecvTimeOut(f)
      PROVE  ConnInv'
  BY <1>6, ConnUnchanged
  DEF connvars, kernel, calls, SetFl, SetAnotherFlag,
      PollNothing, SetRecvTimeOut
<1>7. ASSUME NEW f \in Numbers, Connect(f) PROVE ConnInv'
  BY <1>7, ConnectKeepsConn
<1>8. ASSUME NEW f \in Numbers,
             KernelConnected(f) \/ PollEvent(f) \/ PollsOver(f)
      PROVE  ConnInv'
  BY <1>8, ReturnKeepsConn
<1>9. ASSUME NEW f \in Numbers, Read(f) \/ ReadData(f) \/ KernelTimeOut(f) PROVE ConnInv'
  <2>1. UNCHANGED <<file, conn, said>> /\ \E w \in {"none", "read", "kernel read"} :
            call' = [call EXCEPT ![f] = w]
    BY <1>9 DEF Read, ReadData, KernelTimeOut, Done, kernel
  <2> QED
    BY <2>1 DEF ConnInv, ConnTypes, WaitsForBegun, ToldOfAnswered
<1> QED
  BY <1>1, <1>2, <1>3, <1>4, <1>5, <1>6, <1>7, <1>8, <1>9 DEF HookNext

\* Whatever the program does, the polling connect and the kernel's report success
\* only for a connection that was made or refused: what POLLOUT tells the loop of
\* hook.cpp:195 can be wrong, but is never early.
THEOREM ConnectWaits ==
    HookSpec => []ConnectNotEarly
<1>1. HookInit => ConnInv
  BY DEF HookInit, ConnInv, ConnTypes, WaitsForBegun, ToldOfAnswered
<1>2. ConnInv => ConnectNotEarly
  BY DEF ConnInv, ToldOfAnswered, ConnectNotEarly
<1>3. ConnInv /\ [HookNext]_hookvars => ConnInv'
  BY ConnStep
<1> QED
  BY <1>1, <1>2, <1>3, PTL DEF HookSpec
=============================================================================
