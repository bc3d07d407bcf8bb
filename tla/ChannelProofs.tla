--------------------------- MODULE ChannelProofs ---------------------------
(***************************************************************************)
(* Proofs about Channel for any set of tasks, any capacity and any number  *)
(* of sends.                                                               *)
(***************************************************************************)
EXTENDS Channel, FiniteSetTheorems, SequenceTheorems, TLAPS

\* The bookkeeping alone is inductive; the two promises of the channel are
\* invariants only together with it.
ListInv == TypeOK /\ IsFiniteSet(woken) /\ ListsMatch
IndInv == ListInv /\ Backpressure /\ NoReaderForgotten
-----------------------------------------------------------------------------
(* Lists of suspended tasks *)

\* Taking the first task off a list without repetitions removes that task and
\* no other.
LEMMA TailLists ==
    ASSUME NEW q \in Seq(Tasks), q # <<>>,
           \A i, j \in 1 .. Len(q) : q[i] = q[j] => i = j
    PROVE  /\ Head(q) \in Tasks /\ Tail(q) \in Seq(Tasks)
           /\ \A t \in Tasks : Listed(Tail(q), t) <=> Listed(q, t) /\ t # Head(q)
           /\ \A i, j \in 1 .. Len(Tail(q)) : Tail(q)[i] = Tail(q)[j] => i = j
<1>1. /\ Head(q) \in Tasks /\ Tail(q) \in Seq(Tasks)
      /\ Len(q) \in Nat \ {0} /\ Len(Tail(q)) = Len(q) - 1 /\ Head(q) = q[1]
      /\ \A i \in 1 .. Len(q) - 1 : Tail(q)[i] = q[i + 1]
  OBVIOUS
<1>2. ASSUME NEW t \in Tasks, Listed(Tail(q), t) PROVE Listed(q, t) /\ t # Head(q)
  <2>1. PICK i \in 1 .. Len(q) - 1 : q[i + 1] = t
    BY <1>1, <1>2 DEF Listed
  <2>2. i + 1 \in 1 .. Len(q) /\ i + 1 # 1 /\ 1 \in 1 .. Len(q)
    BY <1>1, <2>1
  <2>3. QED BY <1>1, <2>1, <2>2 DEF Listed
<1>3. ASSUME NEW t \in Tasks, Listed(q, t), t # Head(q) PROVE Listed(Tail(q), t)
  <2>1. PICK i \in 1 .. Len(q) : q[i] = t
    BY <1>3 DEF Listed
  <2>2. i - 1 \in 1 .. Len(q) - 1 /\ (i - 1) + 1 = i
    BY <1>1, <1>3, <2>1
  <2>3. QED BY <1>1, <2>1, <2>2 DEF Listed
<1>4. ASSUME NEW i \in 1 .. Len(q) - 1, NEW j \in 1 .. Len(q) - 1, Tail(q)[i] = Tail(q)[j]
      PROVE  i = j
  <2>1. i + 1 \in 1 .. Len(q) /\ j + 1 \in 1 .. Len(q) /\ q[i + 1] = q[j + 1]
    BY <1>1, <1>4
  <2>2. QED BY <2>1
<1>5. QED BY <1>1, <1>2, <1>3, <1>4

\* Appending a task that is not in a list adds that task and no other.
LEMMA AppendLists ==
    ASSUME NEW q \in Seq(Tasks), NEW u \in Tasks, ~Listed(q, u),
           \A i, j \in 1 .. Len(q) : q[i] = q[j] => i = j
    PROVE  /\ Append(q, u) \in Seq(Tasks)
           /\ \A t \in Tasks : Listed(Append(q, u), t) <=> Listed(q, t) \/ t = u
           /\ \A i, j \in 1 .. Len(Append(q, u)) :
                Append(q, u)[i] = Append(q, u)[j] => i = j
<1>1. /\ Append(q, u) \in Seq(Tasks) /\ Len(q) \in Nat
      /\ Len(Append(q, u)) = Len(q) + 1
      /\ Append(q, u)[Len(q) + 1] = u
      /\ \A i \in 1 .. Len(q) : Append(q, u)[i] = q[i]
  OBVIOUS
<1>2. \A t \in Tasks : Listed(Append(q, u), t) <=> Listed(q, t) \/ t = u
  BY <1>1 DEF Listed
<1>3. \A i, j \in 1 .. Len(q) + 1 : Append(q, u)[i] = Append(q, u)[j] => i = j
  BY <1>1 DEF Listed
<1>4. QED BY <1>1, <1>2, <1>3
-----------------------------------------------------------------------------
(* ListInv *)

LEMMA ListInit == Init => ListInv
<1> SUFFICES ASSUME Init PROVE ListInv
  OBVIOUS
<1>1. TypeOK
  BY ChannelAssumption DEF Init, TypeOK
<1>2. IsFiniteSet(woken)
  BY FS_EmptySet DEF Init
<1>3. ListsMatch
  BY DEF Init, ListsMatch, Listed
<1>4. QED BY <1>1, <1>2, <1>3 DEF ListInv

\* Waking the first suspended reader makes it a woken reader and nothing else.
LEMMA WakeReaderLists ==
    ASSUME ListInv, WakeReader
    PROVE  /\ rque' \in Seq(Tasks) /\ woken' \subseteq Tasks /\ IsFiniteSet(woken')
           /\ \A u \in Tasks :
                /\ Listed(rque', u) <=> pc[u] = "recv" /\ u \notin woken'
                /\ u \in woken' => u \in woken \/ pc[u] = "recv"
                /\ u \in woken => u \in woken'
           /\ \A i, j \in 1 .. Len(rque') : rque'[i] = rque'[j] => i = j
<1>1. CASE rque # <<>>
  <2>1. woken' = woken \cup {Head(rque)} /\ rque' = Tail(rque)
    BY <1>1 DEF WakeReader
  <2>2. /\ Head(rque) \in Tasks /\ Tail(rque) \in Seq(Tasks)
        /\ \A u \in Tasks : Listed(Tail(rque), u) <=> Listed(rque, u) /\ u # Head(rque)
        /\ \A i, j \in 1 .. Len(Tail(rque)) : Tail(rque)[i] = Tail(rque)[j] => i = j
    BY <1>1, TailLists DEF ListInv, TypeOK, ListsMatch
  <2>3. Listed(rque, Head(rque))
    <3>1. 1 \in 1 .. Len(rque) /\ rque[1] = Head(rque)
      BY <1>1 DEF ListInv, TypeOK
    <3>2. QED BY <3>1 DEF Listed
  <2>4. IsFiniteSet(woken')
    BY <2>1, FS_AddElement DEF ListInv
  <2>5. QED BY <2>1, <2>2, <2>3, <2>4 DEF ListInv, TypeOK, ListsMatch
<1>2. CASE rque = <<>>
  BY <1>2 DEF WakeReader, ListInv, TypeOK, ListsMatch
<1>3. QED BY <1>1, <1>2

LEMMA SendLists == ASSUME ListInv, NEW t \in Tasks, Send(t) PROVE ListInv'
<1>1. /\ pc[t] = "out" /\ t \notin woken /\ ~Listed(wque, t) /\ ~Listed(rque, t)
      /\ sends[t] \in 0 .. MaxSends /\ sends[t] < MaxSends
  BY DEF Send, ListInv, TypeOK, ListsMatch
<1>2. WakeReader /\ sends' = [sends EXCEPT ![t] = @ + 1]
      /\ queue' = Append(queue, [from |-> t, n |-> sends[t] + 1]) /\ got' = got
      /\ buflen' = buflen
  BY DEF Send
<1>3. /\ rque' \in Seq(Tasks) /\ woken' \subseteq Tasks /\ IsFiniteSet(woken')
      /\ \A u \in Tasks :
            /\ Listed(rque', u) <=> pc[u] = "recv" /\ u \notin woken'
            /\ u \in woken' => u \in woken \/ pc[u] = "recv"
            /\ u \in woken => u \in woken'
      /\ \A i, j \in 1 .. Len(rque') : rque'[i] = rque'[j] => i = j
  BY <1>2, WakeReaderLists
<1>4. /\ queue' \in Seq(Item) /\ sends' \in [Tasks -> 0 .. MaxSends] /\ got' \in Seq(Item)
      /\ buflen' \in Nat
  <2>1. [from |-> t, n |-> sends[t] + 1] \in Item
    BY <1>1, ChannelAssumption DEF Item
  <2>2. QED BY <1>1, <1>2, <2>1, ChannelAssumption DEF ListInv, TypeOK
<1>5. CASE AboveCapacity
  <2>1. wque' = Append(wque, t) /\ pc' = [pc EXCEPT ![t] = "send"]
    BY <1>5 DEF Send
  <2>2. /\ wque' \in Seq(Tasks)
        /\ \A u \in Tasks : Listed(wque', u) <=> Listed(wque, u) \/ u = t
        /\ \A i, j \in 1 .. Len(wque') : wque'[i] = wque'[j] => i = j
    BY <1>1, <2>1, AppendLists DEF ListInv, TypeOK, ListsMatch
  <2>3. TypeOK'
    BY <1>3, <1>4, <2>1, <2>2 DEF ListInv, TypeOK, Item
  <2>4. ListsMatch'
    BY <1>1, <1>3, <2>1, <2>2 DEF ListInv, TypeOK, ListsMatch
  <2>5. QED BY <1>3, <2>3, <2>4 DEF ListInv
<1>6. CASE ~AboveCapacity
  <2>1. wque' = wque /\ pc' = pc
    BY <1>6 DEF Send
  <2>2. TypeOK'
    BY <1>3, <1>4, <2>1 DEF ListInv, TypeOK, Item
  <2>3. ListsMatch'
    BY <1>1, <1>3, <2>1 DEF ListInv, TypeOK, ListsMatch
  <2>4. QED BY <1>3, <2>2, <2>3 DEF ListInv
<1>7. QED BY <1>5, <1>6

LEMMA SendResumeLists == ASSUME ListInv, NEW t \in Tasks, SendResume(t) PROVE ListInv'
<1>1. TypeOK'
  BY DEF ListInv, TypeOK, SendResume, Item
<1>2. IsFiniteSet(woken')
  BY FS_RemoveElement DEF ListInv, SendResume
<1>3. ListsMatch'
  BY DEF ListInv, TypeOK, ListsMatch, Listed, SendResume
<1>4. QED BY <1>1, <1>2, <1>3 DEF ListInv

LEMMA ReceiveWaitLists == ASSUME ListInv, NEW t \in Tasks, ReceiveWait(t) PROVE ListInv'
<1>1. /\ rque' = Append(rque, t) /\ pc' = [pc EXCEPT ![t] = "recv"] /\ woken' = woken \ {t}
      /\ queue' = queue /\ wque' = wque /\ sends' = sends /\ got' = got /\ buflen' = buflen
  BY DEF ReceiveWait
<1>2. ~Listed(rque, t) /\ ~Listed(wque, t)
  BY DEF ReceiveWait, AtReceive, ListInv, ListsMatch
<1>3. /\ rque' \in Seq(Tasks)
      /\ \A u \in Tasks : Listed(rque', u) <=> Listed(rque, u) \/ u = t
      /\ \A i, j \in 1 .. Len(rque') : rque'[i] = rque'[j] => i = j
  BY <1>1, <1>2, AppendLists DEF ListInv, TypeOK, ListsMatch
<1>4. TypeOK'
  BY <1>1, <1>3 DEF ListInv, TypeOK, Item
<1>5. IsFiniteSet(woken')
  BY <1>1, FS_RemoveElement DEF ListInv
<1>6. ListsMatch'
  <2>1. ASSUME NEW u \in Tasks
        PROVE  /\ Listed(rque', u) <=> pc'[u] = "recv" /\ u \notin woken'
               /\ Listed(wque, u) <=> pc'[u] = "send" /\ u \notin woken'
               /\ u \in woken' => pc'[u] # "out"
    <3>1. pc'[u] = IF u = t THEN "recv" ELSE pc[u]
      BY <1>1 DEF ListInv, TypeOK
    <3>2. QED BY <1>1, <1>2, <1>3, <3>1 DEF ListInv, ListsMatch
  <2>2. \A i, j \in 1 .. Len(wque) : wque[i] = wque[j] => i = j
    BY DEF ListInv, ListsMatch
  <2>3. \A u \in Tasks : Listed(wque', u) <=> Listed(wque, u)
    BY <1>1 DEF Listed
  <2>4. QED BY <1>1, <1>3, <2>1, <2>2, <2>3 DEF ListsMatch
<1>7. QED BY <1>4, <1>5, <1>6 DEF ListInv

LEMMA ReceiveLists == ASSUME ListInv, NEW t \in Tasks, Receive(t) PROVE ListInv'
<1>1. /\ queue # <<>> /\ got' = Append(got, Head(queue)) /\ queue' = Tail(queue)
      /\ pc' = [pc EXCEPT ![t] = "out"] /\ rque' = rque /\ sends' = sends
      /\ buflen' = buflen
  BY DEF Receive
<1>2. queue' \in Seq(Item) /\ got' \in Seq(Item)
  BY <1>1 DEF ListInv, TypeOK
<1>3. ~Listed(rque, t) /\ ~Listed(wque, t)
  BY DEF Receive, AtReceive, ListInv, ListsMatch
<1>4. CASE wque # <<>>
  <2>1. woken' = (woken \ {t}) \cup {Head(wque)} /\ wque' = Tail(wque)
    BY <1>4 DEF Receive
  <2>2. /\ Head(wque) \in Tasks /\ wque' \in Seq(Tasks)
        /\ \A u \in Tasks : Listed(wque', u) <=> Listed(wque, u) /\ u # Head(wque)
        /\ \A i, j \in 1 .. Len(wque') : wque'[i] = wque'[j] => i = j
    <3>1. wque \in Seq(Tasks) /\ \A i, j \in 1 .. Len(wque) : wque[i] = wque[j] => i = j
      BY DEF ListInv, TypeOK, ListsMatch
    <3>2. QED BY ONLY <1>4, <2>1, <3>1, TailLists
  <2>3. Listed(wque, Head(wque))
    <3>1. 1 \in 1 .. Len(wque) /\ wque[1] = Head(wque)
      BY <1>4 DEF ListInv, TypeOK
    <3>2. QED BY <3>1 DEF Listed
  <2>4. TypeOK'
    BY <1>1, <1>2, <2>1, <2>2 DEF ListInv, TypeOK, Item
  <2>5. IsFiniteSet(woken')
    BY <2>1, FS_RemoveElement, FS_AddElement DEF ListInv
  <2>6. ListsMatch'
    BY <1>1, <1>3, <2>1, <2>2, <2>3 DEF ListInv, TypeOK, ListsMatch
  <2>7. QED BY <2>4, <2>5, <2>6 DEF ListInv
<1>5. CASE wque = <<>>
  <2>1. woken' = woken \ {t} /\ wque' = wque
    BY <1>5 DEF Receive
  <2>2. TypeOK'
    BY <1>1, <1>2, <2>1 DEF ListInv, TypeOK, Item
  <2>3. IsFiniteSet(woken')
    BY <2>1, FS_RemoveElement DEF ListInv
  <2>4. ListsMatch'
    BY <1>1, <1>3, <2>1 DEF ListInv, TypeOK, ListsMatch, Listed
  <2>5. QED BY <2>2, <2>3, <2>4 DEF ListInv
<1>6. QED BY <1>4, <1>5

LEMMA ListStep == ASSUME ListInv, [Next]_vars PROVE ListInv'
<1>1. CASE Next
  BY <1>1, SendLists, SendResumeLists, ReceiveWaitLists, ReceiveLists DEF Next
<1>2. CASE UNCHANGED vars
  BY <1>2 DEF vars, ListInv, TypeOK, ListsMatch
<1>3. QED BY <1>1, <1>2
-----------------------------------------------------------------------------
(* Backpressure *)

LEMMA BackpressureStep ==
    ASSUME ListInv, Backpressure, [Next]_vars PROVE Backpressure'
<1>0. /\ queue \in Seq(Item) /\ wque \in Seq(Tasks) /\ Len(queue) \in Nat /\ Len(wque) \in Nat
      /\ buflen \in Nat
  BY DEF ListInv, TypeOK
<1>b. buflen' = buflen
  <2>1. CASE Next
    BY <2>1 DEF Next, Send, SendResume, ReceiveWait, Receive
  <2>2. QED BY <2>1 DEF vars
<1>1. ASSUME NEW t \in Tasks, Send(t) PROVE Backpressure'
  <2> DEFINE item == [from |-> t, n |-> sends[t] + 1]
  <2>1. queue' = Append(queue, item) /\ item.from = t
    BY <1>1 DEF Send
  <2>2. /\ Len(queue') = Len(queue) + 1 /\ queue'[Len(queue) + 1] = item
        /\ \A i \in 1 .. Len(queue) : queue'[i] = queue[i]
    BY <1>0, <2>1
  <2>3. CASE AboveCapacity
    <3>1. wque' = Append(wque, t)
      BY <1>1, <2>3 DEF Send
    <3>2. /\ Len(wque') = Len(wque) + 1 /\ wque'[Len(wque) + 1] = t
          /\ \A j \in 1 .. Len(wque) : wque'[j] = wque[j]
      BY <1>0, <3>1
    <3>3. Len(wque) = Len(queue) - buflen /\ Len(queue) >= buflen
      BY <1>0, <2>3 DEF AboveCapacity, Backpressure
    <3>4. ASSUME NEW j \in 1 .. Len(wque') PROVE queue'[buflen + j].from = wque'[j]
      <4>1. CASE j = Len(wque) + 1
        <5>1. buflen + j = Len(queue) + 1
          BY <1>0, <3>3, <4>1
        <5>2. QED BY <2>1, <2>2, <3>2, <4>1, <5>1
      <4>2. CASE j # Len(wque) + 1
        <5>1. j \in 1 .. Len(wque) /\ buflen + j \in 1 .. Len(queue)
          BY <1>0, <3>2, <3>3, <4>2
        <5>2. QED BY <2>2, <3>2, <5>1 DEF Backpressure
      <4>3. QED BY <4>1, <4>2
    <3>5. Len(wque') = IF Len(queue') > buflen THEN Len(queue') - buflen ELSE 0
      BY <1>0, <2>2, <3>2, <3>3
    <3>6. QED BY <1>b, <3>4, <3>5 DEF Backpressure
  <2>4. CASE ~AboveCapacity
    <3>1. wque' = wque
      BY <1>1, <2>4 DEF Send
    <3>2. Len(queue) + 1 <= buflen /\ Len(wque) = 0
      BY <1>0, <2>4 DEF AboveCapacity, Backpressure
    <3>3. QED BY <1>b, <1>0, <2>2, <3>1, <3>2 DEF Backpressure
  <2>5. QED BY <2>3, <2>4
<1>2. ASSUME NEW t \in Tasks, Receive(t) PROVE Backpressure'
  <2>1. queue # <<>> /\ queue' = Tail(queue)
    BY <1>2 DEF Receive
  <2>2. /\ Len(queue) >= 1 /\ Len(queue') = Len(queue) - 1
        /\ \A i \in 1 .. Len(queue) - 1 : queue'[i] = queue[i + 1]
    BY <1>0, <2>1
  <2>3. CASE wque # <<>>
    <3>1. wque' = Tail(wque)
      BY <1>2, <2>3 DEF Receive
    <3>2. /\ Len(wque) >= 1 /\ Len(wque') = Len(wque) - 1
          /\ \A j \in 1 .. Len(wque) - 1 : wque'[j] = wque[j + 1]
      BY <1>0, <2>3, <3>1
    <3>3. Len(wque) = Len(queue) - buflen /\ Len(queue) > buflen
      BY <1>0, <3>2 DEF Backpressure
    <3>4. ASSUME NEW j \in 1 .. Len(wque') PROVE queue'[buflen + j].from = wque'[j]
      <4>1. /\ j + 1 \in 1 .. Len(wque) /\ j \in 1 .. Len(wque) - 1
            /\ buflen + j \in 1 .. Len(queue) - 1 /\ (buflen + j) + 1 = buflen + (j + 1)
        BY <1>0, <3>2, <3>3
      <4>2. queue[buflen + (j + 1)].from = wque[j + 1]
        BY <4>1 DEF Backpressure
      <4>3. QED BY <2>2, <3>2, <4>1, <4>2
    <3>5. Len(wque') = IF Len(queue') > buflen THEN Len(queue') - buflen ELSE 0
      BY <1>0, <2>2, <3>2, <3>3
    <3>6. QED BY <1>b, <3>4, <3>5 DEF Backpressure
  <2>4. CASE wque = <<>>
    <3>1. wque' = wque /\ Len(wque) = 0
      BY <1>2, <2>4 DEF Receive
    <3>2. QED BY <1>b, <1>0, <2>2, <3>1 DEF Backpressure
  <2>5. QED BY <2>3, <2>4
<1>3. ASSUME NEW t \in Tasks, SendResume(t) \/ ReceiveWait(t) PROVE Backpressure'
  BY <1>3 DEF SendResume, ReceiveWait, Backpressure
<1>4. CASE UNCHANGED vars
  BY <1>4 DEF vars, Backpressure
<1>5. QED BY <1>1, <1>2, <1>3, <1>4 DEF Next
-----------------------------------------------------------------------------
(* NoReaderForgotten *)

LEMMA ReaderStep ==
    ASSUME ListInv, NoReaderForgotten, [Next]_vars PROVE NoReaderForgotten'
<1> DEFINE n == Cardinality(Readers)
<1>0. /\ queue \in Seq(Item) /\ rque \in Seq(Tasks) /\ wque \in Seq(Tasks)
      /\ pc \in [Tasks -> {"out", "send", "recv"}] /\ woken \subseteq Tasks
      /\ IsFiniteSet(Readers) /\ n \in Nat
  <2>1. Readers \subseteq woken
    BY DEF Readers
  <2>2. QED BY <2>1, FS_Subset, FS_CardinalityType DEF ListInv, TypeOK
<1>1. ASSUME NEW t \in Tasks, Send(t) PROVE NoReaderForgotten'
  <2>1. CASE rque = <<>>
    BY <1>1, <2>1 DEF Send, WakeReader, NoReaderForgotten
  <2>2. CASE rque # <<>>
    <3> DEFINE r == Head(rque)
    <3>1. Len(queue') = Len(queue) + 1 /\ woken' = woken \cup {r}
      BY <1>0, <1>1, <2>2 DEF Send, WakeReader
    <3>2. r \in Tasks /\ pc[r] = "recv" /\ r \notin woken
      <4>1. 1 \in 1 .. Len(rque) /\ rque[1] = r /\ r \in Tasks
        BY <1>0, <2>2
      <4>2. Listed(rque, r)
        BY <4>1 DEF Listed
      <4>3. QED BY <4>1, <4>2 DEF ListInv, ListsMatch
    <3>3. pc[t] = "out" /\ t \notin woken /\ (pc' = pc \/ pc' = [pc EXCEPT ![t] = "send"])
      BY <1>1 DEF Send, ListInv, ListsMatch
    <3>4. Readers' = Readers \cup {r} /\ r \notin Readers
      BY <1>0, <3>1, <3>2, <3>3 DEF Readers
    <3>5. Cardinality(Readers') = n + 1
      BY <1>0, <3>4, FS_AddElement
    <3>6. QED BY <1>0, <2>2, <3>1, <3>5 DEF NoReaderForgotten
  <2>3. QED BY <2>1, <2>2
<1>2. ASSUME NEW t \in Tasks, SendResume(t) PROVE NoReaderForgotten'
  <2>1. Readers' = Readers
    BY <1>0, <1>2 DEF SendResume, Readers
  <2>2. QED BY <1>2, <2>1 DEF SendResume, NoReaderForgotten
<1>3. ASSUME NEW t \in Tasks, ReceiveWait(t) PROVE NoReaderForgotten'
  <2>1. IsFiniteSet(Readers') /\ Len(queue') = 0
    <3>1. Readers' \subseteq woken
      BY <1>3 DEF ReceiveWait, Readers
    <3>2. QED BY <1>3, <3>1, FS_Subset DEF ReceiveWait, ListInv
  <2>2. QED BY <2>1, FS_CardinalityType DEF NoReaderForgotten
<1>4. ASSUME NEW t \in Tasks, Receive(t) PROVE NoReaderForgotten'
  <2>1. /\ rque' = rque /\ Len(queue') = Len(queue) - 1
        /\ pc' = [pc EXCEPT ![t] = "out"] /\ AtReceive(t)
    BY <1>0, <1>4 DEF Receive
  <2>2. Readers' = Readers \ {t}
    <3>1. CASE wque # <<>>
      <4>1. 1 \in 1 .. Len(wque) /\ wque[1] = Head(wque) /\ Head(wque) \in Tasks
        BY <1>0, <3>1
      <4>2. Listed(wque, Head(wque))
        BY <4>1 DEF Listed
      <4>3. pc[Head(wque)] = "send" /\ Head(wque) \notin woken
        BY <4>1, <4>2 DEF ListInv, ListsMatch
      <4>4. woken' = (woken \ {t}) \cup {Head(wque)}
        BY <1>4, <3>1 DEF Receive
      <4>5. QED BY <1>0, <2>1, <4>1, <4>3, <4>4 DEF Readers
    <3>2. CASE wque = <<>>
      BY <1>0, <1>4, <2>1, <3>2 DEF Receive, Readers
    <3>3. QED BY <3>1, <3>2
  <2>3. Cardinality(Readers \ {t}) = IF t \in Readers THEN n - 1 ELSE n
    BY <1>0, FS_RemoveElement
  <2>4. Cardinality(Readers') \in Nat /\ Cardinality(Readers') >= n - 1
    <3>1. IsFiniteSet(Readers \ {t})
      BY <1>0, FS_RemoveElement
    <3>2. Cardinality(Readers \ {t}) \in Nat
      BY <3>1, FS_CardinalityType
    <3>3. QED BY <1>0, <2>2, <2>3, <3>2
  <2>5. QED BY <1>0, <2>1, <2>4 DEF NoReaderForgotten
<1>5. CASE UNCHANGED vars
  BY <1>5 DEF vars, NoReaderForgotten, Readers
<1>6. QED BY <1>1, <1>2, <1>3, <1>4, <1>5 DEF Next
-----------------------------------------------------------------------------
LEMMA Inductive == Spec => []IndInv
<1>1. Init => IndInv
  <2>1. Init => Backpressure /\ NoReaderForgotten
    BY ChannelAssumption DEF Init, Backpressure, NoReaderForgotten
  <2>2. QED BY <2>1, ListInit DEF IndInv
<1>2. IndInv /\ [Next]_vars => IndInv'
  BY ListStep, BackpressureStep, ReaderStep DEF IndInv
<1>3. QED BY <1>1, <1>2, PTL DEF Spec

\* m_rque and m_wque hold exactly the suspended tasks nobody has woken, once
\* each: no wakeup is given twice or to a task that is not suspended.
THEOREM ListsStayMatched == Spec => []ListsMatch
<1>1. IndInv => ListsMatch
  BY DEF IndInv, ListInv
<1>2. QED BY <1>1, Inductive, PTL

\* operator<< suspends and releases exactly the senders above the capacity, in
\* the order of their items.
THEOREM SendersHeldBack == Spec => []Backpressure
<1>1. IndInv => Backpressure
  BY DEF IndInv
<1>2. QED BY <1>1, Inductive, PTL

\* A suspended reader is never left with an item that no woken reader will take.
THEOREM ReadersRemembered == Spec => []NoReaderForgotten
<1>1. IndInv => NoReaderForgotten
  BY DEF IndInv
<1>2. QED BY <1>1, Inductive, PTL
-----------------------------------------------------------------------------
(* The channel implements BufferedChannel *)

\* The parts of a queue of items: the first n, and what is beyond.
Fitting(q, n) == IF Len(q) > n THEN n ELSE Len(q)
Front(q, n) == SubSeq(q, 1, Fitting(q, n))
Rest(q, n) == SubSeq(q, n + 1, Len(q))

LEMMA PartsOf ==
    ASSUME NEW q \in Seq(Item), NEW n \in Nat
    PROVE  /\ Fitting(q, n) \in Nat /\ Fitting(q, n) <= Len(q) /\ Fitting(q, n) <= n
           /\ Len(q) <= n => Fitting(q, n) = Len(q)
           /\ Len(q) > n => Fitting(q, n) = n
           /\ Front(q, n) \in Seq(Item) /\ Len(Front(q, n)) = Fitting(q, n)
           /\ \A i \in 1 .. Fitting(q, n) : Front(q, n)[i] = q[i]
           /\ Rest(q, n) \in Seq(Item) /\ Len(Rest(q, n)) = Len(q) - Fitting(q, n)
           /\ \A i \in 1 .. Len(q) - Fitting(q, n) : Rest(q, n)[i] = q[n + i]
<1> DEFINE k == Fitting(q, n)
<1>1. Len(q) \in Nat /\ \A i \in 1 .. Len(q) : q[i] \in Item
  OBVIOUS
<1>2. /\ k \in Nat /\ k <= Len(q) /\ k <= n
      /\ Len(q) <= n => k = Len(q)
      /\ Len(q) > n => k = n
  BY <1>1 DEF Fitting
<1> HIDE DEF k
<1>3. /\ SubSeq(q, 1, k) \in Seq(Item)
      /\ Len(SubSeq(q, 1, k)) = IF 1 <= k THEN k - 1 + 1 ELSE 0
      /\ \A i \in 1 .. k - 1 + 1 : SubSeq(q, 1, k)[i] = q[1 + i - 1]
  <2>1. \A i \in 1 .. k : q[i] \in Item
    BY <1>1, <1>2
  <2>2. 1 \in Int /\ k \in Int
    BY <1>2
  <2>3. QED BY <2>1, <2>2, SubSeqProperties
<1>4. /\ SubSeq(q, n + 1, Len(q)) \in Seq(Item)
      /\ Len(SubSeq(q, n + 1, Len(q))) = IF n + 1 <= Len(q) THEN Len(q) - (n + 1) + 1 ELSE 0
      /\ \A i \in 1 .. Len(q) - (n + 1) + 1 :
            SubSeq(q, n + 1, Len(q))[i] = q[(n + 1) + i - 1]
  <2>1. \A i \in n + 1 .. Len(q) : q[i] \in Item
    BY <1>1
  <2>2. n + 1 \in Int /\ Len(q) \in Int
    BY <1>1
  <2>3. QED BY <2>1, <2>2, SubSeqProperties
<1>5. \A i \in 1 .. k : 1 + i - 1 = i /\ i \in 1 .. k - 1 + 1
  BY <1>2
<1>6. \A i \in 1 .. Len(q) - k : (n + 1) + i - 1 = n + i /\ i \in 1 .. Len(q) - (n + 1) + 1
  BY <1>1, <1>2
<1>7. Len(SubSeq(q, 1, k)) = k
  BY <1>2, <1>3
<1>8. Len(SubSeq(q, n + 1, Len(q))) = Len(q) - k
  BY <1>1, <1>2, <1>4
<1>9. QED BY <1>2, <1>3, <1>4, <1>5, <1>6, <1>7, <1>8 DEF Front, Rest, k

\* Appending an item: it is let in below the capacity and parked above.
LEMMA AppendParts ==
    ASSUME NEW q \in Seq(Item), NEW n \in Nat, NEW x \in Item
    PROVE  \/ /\ Len(Front(q, n)) < n
              /\ Front(Append(q, x), n) = Append(Front(q, n), x)
              /\ Rest(Append(q, x), n) = Rest(q, n)
           \/ /\ Len(Front(q, n)) = n
              /\ Front(Append(q, x), n) = Front(q, n)
              /\ Rest(Append(q, x), n) = Append(Rest(q, n), x)
<1> DEFINE r == Append(q, x)
           k == Fitting(q, n)   in == Front(q, n)      out == Rest(q, n)
           m == Fitting(r, n)   newIn == Front(r, n)   newOut == Rest(r, n)
<1>0. r \in Seq(Item)
  OBVIOUS
<1> HIDE DEF r
<1>1. /\ k \in Nat /\ k <= Len(q) /\ k <= n
      /\ Len(q) <= n => k = Len(q)
      /\ Len(q) > n => k = n
      /\ in \in Seq(Item) /\ Len(in) = k /\ \A i \in 1 .. k : in[i] = q[i]
      /\ out \in Seq(Item) /\ Len(out) = Len(q) - k
      /\ \A i \in 1 .. Len(q) - k : out[i] = q[n + i]
  BY PartsOf
<1>2. /\ m \in Nat /\ m <= Len(r) /\ m <= n
      /\ Len(r) <= n => m = Len(r)
      /\ Len(r) > n => m = n
      /\ newIn \in Seq(Item) /\ Len(newIn) = m /\ \A i \in 1 .. m : newIn[i] = r[i]
      /\ newOut \in Seq(Item) /\ Len(newOut) = Len(r) - m
      /\ \A i \in 1 .. Len(r) - m : newOut[i] = r[n + i]
  BY <1>0, PartsOf
<1>3. /\ Len(q) \in Nat /\ Len(r) = Len(q) + 1 /\ r[Len(q) + 1] = x
      /\ \A i \in 1 .. Len(q) : r[i] = q[i]
  BY DEF r
<1> HIDE DEF k, in, out, m, newIn, newOut
<1>4. /\ Append(in, x) \in Seq(Item) /\ Len(Append(in, x)) = k + 1
      /\ \A i \in 1 .. k : Append(in, x)[i] = in[i]
      /\ Append(in, x)[k + 1] = x
  BY <1>1, AppendProperties
<1>5. /\ Append(out, x) \in Seq(Item) /\ Len(Append(out, x)) = Len(q) - k + 1
      /\ \A i \in 1 .. Len(q) - k : Append(out, x)[i] = out[i]
      /\ Append(out, x)[Len(q) - k + 1] = x
  BY <1>1, AppendProperties
<1>6. CASE Len(q) < n
  <2>1. k = Len(q) /\ m = Len(q) + 1 /\ k < n
    BY <1>1, <1>2, <1>3, <1>6
  <2>2. newIn = Append(in, x)
    <3>1. \A i \in 1 .. k + 1 : newIn[i] = Append(in, x)[i]
      BY <1>1, <1>2, <1>3, <1>4, <2>1
    <3>2. QED BY <1>1, <1>2, <1>4, <2>1, <3>1, SeqEqual
  <2>3. newOut = out
    <3>1. Len(newOut) = 0 /\ Len(out) = 0
      BY <1>1, <1>2, <1>3, <2>1
    <3>2. QED BY <1>1, <1>2, <3>1, EmptySeq
  <2>4. QED BY <1>1, <2>1, <2>2, <2>3 DEF r, k, in, out, newIn, newOut
<1>7. CASE ~(Len(q) < n)
  <2>1. k = n /\ m = n
    BY <1>1, <1>2, <1>3, <1>7
  <2>2. newIn = in
    <3>1. ASSUME NEW i \in 1 .. k PROVE newIn[i] = in[i]
      <4>1. i \in 1 .. m /\ i \in 1 .. Len(q)
        BY <1>1, <1>3, <2>1
      <4>2. newIn[i] = r[i] /\ r[i] = q[i] /\ in[i] = q[i]
        BY <1>1, <1>2, <1>3, <4>1
      <4>3. QED BY <4>2
    <3>2. QED BY <1>1, <1>2, <2>1, <3>1, SeqEqual
  <2>3. newOut = Append(out, x)
    <3>1. ASSUME NEW i \in 1 .. Len(q) - k + 1 PROVE newOut[i] = Append(out, x)[i]
      <4>1. newOut[i] = r[n + i]
        BY <1>1, <1>2, <1>3, <2>1
      <4>2. CASE i = Len(q) - k + 1
        BY <1>1, <1>3, <1>5, <2>1, <4>1, <4>2
      <4>3. CASE i # Len(q) - k + 1
        <5>1. i \in 1 .. Len(q) - k /\ n + i \in 1 .. Len(q)
          BY <1>1, <1>3, <2>1, <4>3
        <5>2. QED BY <1>1, <1>3, <1>5, <4>1, <5>1
      <4>4. QED BY <4>2, <4>3
    <3>2. Len(newOut) = Len(Append(out, x)) /\ Len(newOut) = Len(q) - k + 1
      BY <1>1, <1>2, <1>3, <1>5, <2>1
    <3>3. QED BY <1>2, <1>5, <3>1, <3>2, SeqEqual
  <2>4. QED BY <1>1, <2>1, <2>2, <2>3 DEF r, k, in, out, newIn, newOut
<1>8. QED BY <1>6, <1>7

\* Taking the first item: the first parked one, if any, takes its place.
LEMMA TailParts ==
    ASSUME NEW q \in Seq(Item), q # <<>>, NEW n \in Nat
    PROVE  \/ /\ Rest(q, n) = <<>> /\ Front(q, n) # <<>>
              /\ Head(Front(q, n)) = Head(q)
              /\ Front(Tail(q), n) = Tail(Front(q, n))
              /\ Rest(Tail(q), n) = Rest(q, n)
           \/ /\ Rest(q, n) # <<>> /\ Front(q, n) # <<>>
              /\ Head(Front(q, n)) = Head(q)
              /\ Front(Tail(q), n) = Append(Tail(Front(q, n)), Head(Rest(q, n)))
              /\ Rest(Tail(q), n) = Tail(Rest(q, n))
           \/ /\ Rest(q, n) # <<>> /\ Front(q, n) = <<>>
              /\ Head(Rest(q, n)) = Head(q)
              /\ Front(Tail(q), n) = Front(q, n)
              /\ Rest(Tail(q), n) = Tail(Rest(q, n))
<1> DEFINE r == Tail(q)
           k == Fitting(q, n)   in == Front(q, n)      out == Rest(q, n)
           m == Fitting(r, n)   newIn == Front(r, n)   newOut == Rest(r, n)
<1>0. r \in Seq(Item)
  OBVIOUS
<1> HIDE DEF r
<1>1. /\ k \in Nat /\ k <= Len(q) /\ k <= n
      /\ Len(q) <= n => k = Len(q)
      /\ Len(q) > n => k = n
      /\ in \in Seq(Item) /\ Len(in) = k /\ \A i \in 1 .. k : in[i] = q[i]
      /\ out \in Seq(Item) /\ Len(out) = Len(q) - k
      /\ \A i \in 1 .. Len(q) - k : out[i] = q[n + i]
  BY PartsOf
<1>2. /\ m \in Nat /\ m <= Len(r) /\ m <= n
      /\ Len(r) <= n => m = Len(r)
      /\ Len(r) > n => m = n
      /\ newIn \in Seq(Item) /\ Len(newIn) = m /\ \A i \in 1 .. m : newIn[i] = r[i]
      /\ newOut \in Seq(Item) /\ Len(newOut) = Len(r) - m
      /\ \A i \in 1 .. Len(r) - m : newOut[i] = r[n + i]
  BY <1>0, PartsOf
<1>3. /\ Len(q) \in Nat \ {0} /\ Len(r) = Len(q) - 1 /\ Head(q) = q[1]
      /\ \A i \in 1 .. Len(q) - 1 : r[i] = q[i + 1]
  BY DEF r
<1> HIDE DEF k, in, out, m, newIn, newOut
<1>4. in # <<>> => /\ Head(in) = in[1]
                   /\ Tail(in) \in Seq(Item) /\ Len(Tail(in)) = k - 1
                   /\ \A i \in 1 .. k - 1 : Tail(in)[i] = in[i + 1]
  BY <1>1
<1>5. out # <<>> => /\ Head(out) = out[1] /\ Head(out) \in Item
                    /\ Tail(out) \in Seq(Item) /\ Len(Tail(out)) = Len(q) - k - 1
                    /\ \A i \in 1 .. Len(q) - k - 1 : Tail(out)[i] = out[i + 1]
  BY <1>1
<1>6. (in = <<>> <=> k = 0) /\ (out = <<>> <=> Len(q) = k)
  BY <1>1, <1>3, EmptySeq
<1>7. CASE Len(q) <= n
  <2>1. k = Len(q) /\ m = Len(q) - 1
    BY <1>1, <1>2, <1>3, <1>7
  <2>2. in # <<>> /\ out = <<>>
    BY <1>3, <1>6, <2>1
  <2>3. Head(in) = Head(q)
    BY <1>1, <1>3, <1>4, <2>1, <2>2
  <2>4. newIn = Tail(in)
    <3>1. ASSUME NEW i \in 1 .. m PROVE newIn[i] = Tail(in)[i]
      <4>1. i \in 1 .. k - 1 /\ i \in 1 .. Len(q) - 1 /\ i + 1 \in 1 .. k
        BY <1>1, <1>3, <2>1
      <4>2. newIn[i] = r[i] /\ r[i] = q[i + 1] /\ Tail(in)[i] = in[i + 1]
            /\ in[i + 1] = q[i + 1]
        BY <1>1, <1>2, <1>3, <1>4, <2>2, <4>1
      <4>3. QED BY <4>2
    <3>2. QED BY <1>2, <1>4, <2>1, <2>2, <3>1, SeqEqual
  <2>5. newOut = out
    BY <1>2, <1>3, <2>1, <2>2, EmptySeq
  <2>6. QED BY <2>2, <2>3, <2>4, <2>5 DEF r, in, out, newIn, newOut
<1>8. CASE ~(Len(q) <= n)
  <2>1. k = n /\ m = n /\ Len(q) - k > 0
    BY <1>1, <1>2, <1>3, <1>8
  <2>2. out # <<>>
    BY <1>1, <1>3, <1>6, <2>1
  <2>3. newOut = Tail(out)
    <3>1. ASSUME NEW i \in 1 .. Len(q) - k - 1 PROVE newOut[i] = Tail(out)[i]
      <4>1. /\ i \in 1 .. Len(r) - m /\ n + i \in 1 .. Len(q) - 1
            /\ i + 1 \in 1 .. Len(q) - k /\ (n + i) + 1 = n + (i + 1)
        BY <1>1, <1>3, <2>1
      <4>2. newOut[i] = r[n + i] /\ r[n + i] = q[n + (i + 1)]
        BY <1>2, <1>3, <4>1
      <4>3. Tail(out)[i] = out[i + 1] /\ out[i + 1] = q[n + (i + 1)]
        BY <1>1, <1>5, <2>2, <4>1
      <4>4. QED BY <4>2, <4>3
    <3>2. Len(newOut) = Len(q) - k - 1
      BY <1>1, <1>2, <1>3, <2>1
    <3>3. QED BY <1>2, <1>5, <2>2, <3>1, <3>2, SeqEqual
  <2>4. Head(out) = q[n + 1]
    BY <1>1, <1>3, <1>5, <2>1, <2>2
  <2>5. CASE n = 0
    <3>1. in = <<>> /\ newIn = in
      BY <1>1, <1>2, <1>6, <2>1, <2>5, EmptySeq
    <3>2. Head(out) = Head(q)
      BY <1>3, <2>4, <2>5
    <3>3. QED BY <2>2, <2>3, <3>1, <3>2 DEF r, in, out, newIn, newOut
  <2>6. CASE n # 0
    <3>1. in # <<>>
      BY <1>1, <1>6, <2>1, <2>6
    <3>2. Head(in) = Head(q)
      BY <1>1, <1>3, <1>4, <2>1, <2>6, <3>1
    <3>3. newIn = Append(Tail(in), Head(out))
      <4> DEFINE a == Append(Tail(in), Head(out))
      <4>1. /\ a \in Seq(Item) /\ Len(a) = n /\ a[n] = Head(out)
            /\ \A i \in 1 .. n - 1 : a[i] = in[i + 1]
        <5>1. Tail(in) \in Seq(Item) /\ Head(out) \in Item /\ Len(Tail(in)) = n - 1
          BY <1>4, <1>5, <2>1, <2>2, <3>1
        <5>2. /\ a \in Seq(Item) /\ Len(a) = n - 1 + 1 /\ a[n - 1 + 1] = Head(out)
              /\ \A i \in 1 .. n - 1 : a[i] = Tail(in)[i]
          BY <5>1, AppendProperties
        <5>3. n - 1 + 1 = n
          OBVIOUS
        <5> HIDE DEF a
        <5>4. QED BY <1>4, <2>1, <3>1, <5>2, <5>3
      <4> HIDE DEF a
      <4>2. ASSUME NEW i \in 1 .. n PROVE newIn[i] = a[i]
        <5>1. newIn[i] = r[i] /\ r[i] = q[i + 1]
          <6>1. i \in 1 .. m /\ i \in 1 .. Len(q) - 1
            BY <1>1, <1>3, <2>1
          <6>2. QED BY <1>2, <1>3, <6>1
        <5>2. CASE i = n
          BY <2>4, <4>1, <5>1, <5>2
        <5>3. CASE i # n
          <6>1. i \in 1 .. n - 1 /\ i + 1 \in 1 .. k
            BY <2>1, <5>3
          <6>2. QED BY <1>1, <4>1, <5>1, <6>1
        <5>4. QED BY <5>2, <5>3
      <4>3. QED BY <1>2, <2>1, <4>1, <4>2, SeqEqual DEF a
    <3>4. QED BY <2>2, <2>3, <3>1, <3>2, <3>3 DEF r, in, out, newIn, newOut
  <2>7. QED BY <2>5, <2>6
<1>9. QED BY <1>7, <1>8

LEMMA Mapping == LetIn = Front(queue, buflen) /\ Beyond = Rest(queue, buflen)
BY DEF LetIn, Beyond, Front, Rest, Fitting

\* A suspended task cannot send, so no item above the capacity is its own.
LEMMA SendBuffered ==
    ASSUME IndInv, NEW t \in Tasks, Send(t) PROVE Buffered!Next
<1> DEFINE x == [from |-> t, n |-> sends[t] + 1]
<1>1. /\ queue \in Seq(Item) /\ buflen \in Nat /\ wque \in Seq(Tasks)
      /\ buflen' = buflen /\ got' = got /\ queue' = Append(queue, x)
      /\ pc[t] = "out" /\ sends[t] \in Nat /\ sends[t] < MaxSends
  BY DEF IndInv, ListInv, TypeOK, Send
<1>2. x \in Item /\ x.from = t
  BY <1>1, ChannelAssumption DEF Item
<1> HIDE DEF x
<1>3. \A i \in DOMAIN Beyond : Beyond[i].from # x.from
  <2>1. SUFFICES ASSUME NEW i \in DOMAIN Beyond PROVE Beyond[i].from # t
    BY <1>2
  <2>2. /\ Beyond \in Seq(Item) /\ Len(Beyond) = Len(queue) - Fitting(queue, buflen)
        /\ \A j \in 1 .. Len(queue) - Fitting(queue, buflen) : Beyond[j] = queue[buflen + j]
    BY <1>1, PartsOf, Mapping
  <2>3. i \in 1 .. Len(Beyond)
    BY <2>2
  <2>4. i \in 1 .. Len(wque) /\ Len(queue) > buflen
    BY <1>1, <2>2, <2>3 DEF IndInv, Backpressure, Fitting
  <2>5. Beyond[i].from = wque[i]
    BY <2>2, <2>3, <2>4 DEF IndInv, Backpressure
  <2>6. wque[i] # t
    <3>1. ~Listed(wque, t)
      BY <1>1 DEF IndInv, ListInv, ListsMatch
    <3>2. QED BY <2>4, <3>1 DEF Listed
  <2>7. QED BY <2>5, <2>6
<1>4. \/ /\ Len(LetIn) < buflen
         /\ LetIn' = Append(LetIn, x) /\ Beyond' = Beyond
      \/ /\ Len(LetIn) = buflen
         /\ LetIn' = LetIn /\ Beyond' = Append(Beyond, x)
  <2>1. LetIn' = Front(Append(queue, x), buflen) /\ Beyond' = Rest(Append(queue, x), buflen)
    BY <1>1 DEF LetIn, Beyond, Front, Rest, Fitting
  <2>2. QED BY <1>1, <1>2, <2>1, AppendParts, Mapping
<1>5. Buffered!Send(x)
  BY <1>1, <1>3, <1>4 DEF Buffered!Send
<1>6. QED BY <1>2, <1>5 DEF Buffered!Next

LEMMA ReceiveBuffered ==
    ASSUME IndInv, NEW t \in Tasks, Receive(t) PROVE Buffered!Next
<1>1. /\ queue \in Seq(Item) /\ queue # <<>> /\ buflen \in Nat
      /\ buflen' = buflen /\ got' = Append(got, Head(queue)) /\ queue' = Tail(queue)
  BY DEF IndInv, ListInv, TypeOK, Receive
<1>2. LetIn' = Front(Tail(queue), buflen) /\ Beyond' = Rest(Tail(queue), buflen)
  BY <1>1 DEF LetIn, Beyond, Front, Rest, Fitting
<1>3. \/ /\ Beyond = <<>> /\ LetIn # <<>> /\ Head(LetIn) = Head(queue)
         /\ LetIn' = Tail(LetIn) /\ Beyond' = Beyond
      \/ /\ Beyond # <<>> /\ LetIn # <<>> /\ Head(LetIn) = Head(queue)
         /\ LetIn' = Append(Tail(LetIn), Head(Beyond)) /\ Beyond' = Tail(Beyond)
      \/ /\ Beyond # <<>> /\ LetIn = <<>> /\ Head(Beyond) = Head(queue)
         /\ LetIn' = LetIn /\ Beyond' = Tail(Beyond)
  BY <1>1, <1>2, TailParts, Mapping
<1>4. Buffered!Receive
  BY <1>1, <1>3 DEF Buffered!Receive
<1>5. QED BY <1>4 DEF Buffered!Next

\* A co_chan is a first-in-first-out buffer of buflen items with parked
\* senders: every << is one send of it, every >> that takes an item one receive,
\* and suspending and resuming are invisible.
THEOREM ChannelIsBuffer == Spec => ImplementsBuffered
<1>1. Init => Buffered!Init
  <2> SUFFICES ASSUME Init PROVE Buffered!Init
    OBVIOUS
  <2>1. queue = <<>> /\ queue \in Seq(Item) /\ Len(queue) = 0 /\ buflen \in Nat /\ got = <<>>
    BY ChannelAssumption DEF Init
  <2>2. LetIn = <<>> /\ Beyond = <<>>
    BY <2>1, SubSeqEmpty DEF LetIn, Beyond
  <2>3. QED BY <2>1, <2>2 DEF Buffered!Init
<1>2. IndInv /\ [Next]_vars => [Buffered!Next]_Buffered!bcvars
  <2> SUFFICES ASSUME IndInv, [Next]_vars PROVE [Buffered!Next]_Buffered!bcvars
    OBVIOUS
  <2>1. ASSUME NEW t \in Tasks, Send(t) PROVE Buffered!Next
    BY <2>1, SendBuffered
  <2>2. ASSUME NEW t \in Tasks, Receive(t) PROVE Buffered!Next
    BY <2>2, ReceiveBuffered
  <2>3. ASSUME UNCHANGED <<buflen, queue, got>> PROVE UNCHANGED Buffered!bcvars
    BY <2>3 DEF Buffered!bcvars, LetIn, Beyond
  <2>4. ASSUME NEW t \in Tasks, SendResume(t) PROVE UNCHANGED <<buflen, queue, got>>
    BY <2>4 DEF SendResume
  <2>5. ASSUME NEW t \in Tasks, ReceiveWait(t) PROVE UNCHANGED <<buflen, queue, got>>
    BY <2>5 DEF ReceiveWait
  <2>6. CASE UNCHANGED vars
    BY <2>3, <2>6 DEF vars
  <2>7. QED BY <2>1, <2>2, <2>3, <2>4, <2>5, <2>6 DEF Next
<1>3. QED BY <1>1, <1>2, Inductive, PTL DEF Spec, ImplementsBuffered, Buffered!Spec
=============================================================================
