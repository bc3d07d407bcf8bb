-------------------------- MODULE HandlerMapProofs --------------------------
(***************************************************************************)
(* Proofs that hold for every number of threads, descriptors and contexts  *)
(* and every size of the two levels.                                       *)
(***************************************************************************)
EXTENDS HandlerMap, TLAPS

\* The rows of m_data.
Rows == 0 .. Size - 1

\* What integer division yields.
LEMMA Division ==
  ASSUME NEW a \in Nat, NEW b \in Nat \ {0}
  PROVE  a \div b \in Nat /\ a % b \in 0 .. b - 1 /\ a = b * (a \div b) + (a % b)
<1>1. a \div b \in Nat
  OBVIOUS
<1>2. a % b \in 0 .. b - 1
  OBVIOUS
<1>3. a = b * (a \div b) + (a % b)
  OBVIOUS
<1>4. QED BY <1>1, <1>2, <1>3

\* A descriptor number has its place in the two levels, and no other has it.
LEMMA PlaceOf ==
  /\ \A f \in Fds : Idx1(f) \in Rows /\ Idx2(f) \in Rows
  /\ \A f \in Fds, g \in Fds : Idx1(f) = Idx1(g) /\ Idx2(f) = Idx2(g) => f = g
<1>1. Size \in Nat \ {0} /\ Fds \subseteq Nat
  <2>1. Size \in Nat \ {0} /\ Fds \subseteq 0 .. Size * Size - 1
    BY HandlerMapAssumption
  <2>2. QED BY <2>1
<1>2. \A f \in Fds : /\ Idx1(f) \in Nat /\ Idx2(f) \in Rows
                     /\ f = Size * Idx1(f) + Idx2(f)
  BY <1>1, Division DEF Idx1, Idx2, Rows
<1>3. \A f \in Fds : Idx1(f) \in Rows
  <2> SUFFICES ASSUME NEW f \in Fds, Idx1(f) >= Size PROVE FALSE
    BY <1>1, <1>2 DEF Rows
  <2> DEFINE i == Idx1(f)
  <2>1. f < Size * Size
    BY <1>1, HandlerMapAssumption
  <2>2. f = Size * i + Idx2(f) /\ Idx2(f) \in Nat /\ i \in Nat /\ i >= Size /\ f \in Nat
    BY <1>1, <1>2 DEF Rows
  <2> HIDE DEF i
  <2>3. PICK d \in Nat : i = Size + d
    <3>1. i - Size \in Nat /\ i = Size + (i - Size)
      BY <1>1, <2>2
    <3>2. QED BY <3>1
  <2>4. Size * (Size + d) = Size * Size + Size * d /\ Size * d \in Nat /\ Size * Size \in Nat
    BY <1>1
  <2>5. QED BY <2>1, <2>2, <2>3, <2>4
<1>4. QED BY <1>2, <1>3
-----------------------------------------------------------------------------
(* Types *)

Setup == {"alloc", "clear"}
Access == {"clear", "store", "load", "erase"}

TypeInv ==
    /\ data \in [Rows -> Chunks \cup {Null}]
    /\ cell \in [Chunks -> [Rows -> Vals \cup {Null, Garbage}]]
    /\ made \in 0 .. MaxChunks
    /\ op \in [Threads -> {"none", "insert", "get", "erase"}]
    /\ pc \in [Threads -> {"idle", "alloc"} \cup Access]
    /\ fd \in [Threads -> Fds \cup {Null}]
    /\ val \in [Threads -> Vals \cup {Null}]
    /\ chunk \in [Threads -> Chunks \cup {Null}]
    /\ abs \in [Fds -> Vals \cup {Null}]
    /\ seen \in [Threads -> SUBSET (Vals \cup {Null})]
    /\ result \in [Threads -> Vals \cup {Null, Garbage}]
    /\ raced \in BOOLEAN

\* A call in progress knows its number, and beyond its test it has a chunk.
CallInv ==
    \A h \in Threads :
        /\ pc[h] = "idle" => op[h] = "none" /\ fd[h] = Null
        /\ pc[h] # "idle" => fd[h] \in Fds
        /\ pc[h] \in {"alloc", "clear", "store"} => op[h] = "insert" /\ val[h] \in Vals
        /\ pc[h] = "load" => op[h] = "get"
        /\ pc[h] = "erase" => op[h] = "erase"
        /\ pc[h] \in Access => chunk[h] \in Chunks /\ data[Idx1(fd[h])] \in Chunks

\* At most one thread inserts or erases a number.
SoloInv ==
    \A g \in Threads, h \in Threads :
        op[g] \in {"insert", "erase"} /\ op[h] \in {"insert", "erase"} /\ fd[g] = fd[h] => g = h

\* Rows have chunks of their own, made before.
ChunkInv ==
    /\ \A i \in Rows : data[i] # Null => data[i] \in 1 .. made
    /\ \A i \in Rows, j \in Rows : data[i] = data[j] /\ data[i] # Null => i = j

BaseInv == TypeInv /\ CallInv /\ SoloInv /\ ChunkInv

LEMMA NullIsNone == Null \notin Fds /\ Null \notin Chunks /\ Null \notin Vals /\ Garbage \notin Vals \cup {Null}
<1>1. Fds \subseteq Nat /\ Chunks \subseteq Nat
  <2>1. Size \in Nat /\ MaxChunks \in Nat /\ Fds \subseteq 0 .. Size * Size - 1
    BY HandlerMapAssumption
  <2>2. QED BY <2>1 DEF Chunks
<1>2. QED BY <1>1, HandlerMapAssumption

LEMMA InitBase == Init => BaseInv
<1> SUFFICES ASSUME Init PROVE BaseInv
  OBVIOUS
<1>1. TypeInv
  <2>1. data \in [Rows -> Chunks \cup {Null}] /\ made \in 0 .. MaxChunks
    BY HandlerMapAssumption DEF Init, Rows
  <2>2. cell \in [Chunks -> [Rows -> Vals \cup {Null, Garbage}]]
    BY DEF Init, Rows
  <2>3. /\ op \in [Threads -> {"none", "insert", "get", "erase"}]
        /\ pc \in [Threads -> {"idle", "alloc"} \cup Access]
        /\ fd \in [Threads -> Fds \cup {Null}] /\ val \in [Threads -> Vals \cup {Null}]
        /\ chunk \in [Threads -> Chunks \cup {Null}]
    BY DEF Init
  <2>4. /\ abs \in [Fds -> Vals \cup {Null}] /\ seen \in [Threads -> SUBSET (Vals \cup {Null})]
        /\ result \in [Threads -> Vals \cup {Null, Garbage}] /\ raced \in BOOLEAN
    BY DEF Init
  <2>5. QED BY <2>1, <2>2, <2>3, <2>4 DEF TypeInv
<1>2. CallInv /\ SoloInv /\ ChunkInv
  BY DEF Init, CallInv, SoloInv, ChunkInv, Rows, Access
<1>3. QED BY <1>1, <1>2 DEF BaseInv

\* One store into a chunk.
LEMMA StoreOf ==
  ASSUME cell \in [Chunks -> [Rows -> Vals \cup {Null, Garbage}]],
         NEW c \in Chunks, NEW k \in Rows, NEW v \in Vals \cup {Null},
         cell' = [cell EXCEPT ![c][k] = v]
  PROVE  /\ cell' \in [Chunks -> [Rows -> Vals \cup {Null, Garbage}]]
         /\ \A d \in Chunks, j \in Rows :
               cell'[d][j] = IF d = c /\ j = k THEN v ELSE cell[d][j]
OBVIOUS

\* A chunk cleared.
LEMMA ClearOf ==
  ASSUME cell \in [Chunks -> [Rows -> Vals \cup {Null, Garbage}]],
         NEW c \in Chunks, cell' = [cell EXCEPT ![c] = [i \in 0 .. Size - 1 |-> Null]]
  PROVE  /\ cell' \in [Chunks -> [Rows -> Vals \cup {Null, Garbage}]]
         /\ \A d \in Chunks, j \in Rows : cell'[d][j] = IF d = c THEN Null ELSE cell[d][j]
BY DEF Rows

\* The beginning of a call.
LEMMA BeginBase ==
  ASSUME BaseInv, NEW h \in Threads, NEW f \in Fds, NEW v \in Vals \cup {Null},
         NEW o \in {"insert", "get", "erase"}, NEW next,
         Begin(h, o, f, v), pc' = [pc EXCEPT ![h] = next],
         UNCHANGED <<data, cell, made, abs>>,
         seen' \in [Threads -> SUBSET (Vals \cup {Null})],
         result' \in [Threads -> Vals \cup {Null, Garbage}],
         \/ o = "insert" /\ v \in Vals /\ next = "alloc"
         \/ o = "insert" /\ v \in Vals /\ next = "store" /\ data[Idx1(f)] # Null
         \/ o = "get" /\ next = "load" /\ data[Idx1(f)] # Null
         \/ o = "erase" /\ next = "erase" /\ data[Idx1(f)] # Null
  PROVE  BaseInv'
<1>1. Idx1(f) \in Rows /\ data[Idx1(f)] \in Chunks \cup {Null}
  BY PlaceOf DEF BaseInv, TypeInv
<1>2. next \in {"alloc"} \cup Access
  BY DEF Access
<1>3. /\ op' = [op EXCEPT ![h] = o] /\ fd' = [fd EXCEPT ![h] = f] /\ val' = [val EXCEPT ![h] = v]
      /\ chunk' = [chunk EXCEPT ![h] = data[Idx1(f)]]
      /\ o # "get" => \A g \in Threads : fd[g] = f => op[g] = "get"
      /\ raced' = (raced \/ FirstInsert(h, Idx1(f)))
  BY DEF Begin, Free
<1>4. TypeInv'
  BY <1>1, <1>2, <1>3 DEF BaseInv, TypeInv, FirstInsert
<1>5. CallInv'
  <2>1. \A g \in Threads \ {h} : /\ pc'[g] = pc[g] /\ op'[g] = op[g] /\ fd'[g] = fd[g]
                                 /\ val'[g] = val[g] /\ chunk'[g] = chunk[g]
    BY <1>3 DEF BaseInv, TypeInv
  <2>2. /\ pc'[h] = next /\ op'[h] = o /\ fd'[h] = f /\ val'[h] = v /\ chunk'[h] = data[Idx1(f)]
    BY <1>3 DEF BaseInv, TypeInv
  <2>3. data' = data
    OBVIOUS
  <2>4. QED BY <1>1, <2>1, <2>2, <2>3 DEF BaseInv, CallInv, Access
<1>6. SoloInv'
  BY <1>3 DEF BaseInv, TypeInv, SoloInv
<1>7. ChunkInv'
  BY DEF BaseInv, ChunkInv
<1>8. QED BY <1>4, <1>5, <1>6, <1>7 DEF BaseInv

\* The end of a call.
LEMMA EndBase ==
  ASSUME BaseInv, NEW h \in Threads, End(h), UNCHANGED <<data, made, raced>>,
         cell' \in [Chunks -> [Rows -> Vals \cup {Null, Garbage}]],
         abs' \in [Fds -> Vals \cup {Null}],
         seen' \in [Threads -> SUBSET (Vals \cup {Null})],
         result' \in [Threads -> Vals \cup {Null, Garbage}]
  PROVE  BaseInv'
<1>1. TypeInv'
  BY DEF BaseInv, TypeInv, End
<1>2. CallInv'
  <2>1. \A g \in Threads \ {h} : /\ pc'[g] = pc[g] /\ op'[g] = op[g] /\ fd'[g] = fd[g]
                                 /\ val'[g] = val[g] /\ chunk'[g] = chunk[g]
    BY DEF BaseInv, TypeInv, End
  <2>2. pc'[h] = "idle" /\ op'[h] = "none" /\ fd'[h] = Null
    BY DEF BaseInv, TypeInv, End
  <2>3. QED BY <2>1, <2>2 DEF BaseInv, CallInv, Access
<1>3. SoloInv'
  BY DEF BaseInv, TypeInv, SoloInv, End
<1>4. ChunkInv'
  BY DEF BaseInv, ChunkInv
<1>5. QED BY <1>1, <1>2, <1>3, <1>4 DEF BaseInv

LEMMA UpdateType ==
  ASSUME BaseInv, NEW f \in Fds, NEW v \in Vals \cup {Null}, Update(f, v)
  PROVE  /\ abs' \in [Fds -> Vals \cup {Null}]
         /\ seen' \in [Threads -> SUBSET (Vals \cup {Null})]
BY DEF BaseInv, TypeInv, Update

\* What a thread beyond its test can access.
LEMMA AccessOf ==
  ASSUME BaseInv, NEW h \in Threads, pc[h] \in Access
  PROVE  /\ Accessed(h) \subseteq Chunks /\ fd[h] \in Fds
         /\ Idx1(fd[h]) \in Rows /\ Idx2(fd[h]) \in Rows
BY PlaceOf DEF BaseInv, CallInv, Access, Accessed

LEMMA NextBase == ASSUME BaseInv, [Next]_vars PROVE BaseInv'
<1>1. ASSUME NEW h \in Threads, NEW f \in Fds, GetTest(h, f) PROVE BaseInv'
  <2>1. /\ UNCHANGED <<data, cell, made, abs>>
        /\ seen' \in [Threads -> SUBSET (Vals \cup {Null})]
    BY <1>1 DEF GetTest, BaseInv, TypeInv
  <2>2. CASE data[Idx1(f)] = Null
    <3>1. /\ UNCHANGED <<op, pc, fd, val, chunk>>
          /\ result' \in [Threads -> Vals \cup {Null, Garbage}] /\ raced' \in BOOLEAN
      BY <1>1, <2>2 DEF GetTest, frame, BaseInv, TypeInv, FirstInsert
    <3>2. QED BY <2>1, <3>1 DEF BaseInv, TypeInv, CallInv, SoloInv, ChunkInv
  <2>3. CASE data[Idx1(f)] # Null
    <3>1. Begin(h, "get", f, Null) /\ pc' = [pc EXCEPT ![h] = "load"] /\ result' = result
      BY <1>1, <2>3 DEF GetTest
    <3>2. result' \in [Threads -> Vals \cup {Null, Garbage}]
      BY <3>1 DEF BaseInv, TypeInv
    <3>3. QED BY <2>1, <2>3, <3>1, <3>2, BeginBase
  <2>4. QED BY <2>2, <2>3
<1>2. ASSUME NEW h \in Threads, NEW f \in Fds, EraseTest(h, f) PROVE BaseInv'
  <2>1. /\ Begin(h, "erase", f, Null) /\ pc' = [pc EXCEPT ![h] = "erase"] /\ data[Idx1(f)] # Null
        /\ UNCHANGED <<data, cell, made, abs>>
        /\ seen' \in [Threads -> SUBSET (Vals \cup {Null})]
        /\ result' \in [Threads -> Vals \cup {Null, Garbage}]
    BY <1>2 DEF EraseTest, BaseInv, TypeInv
  <2>2. QED BY <2>1, BeginBase
<1>3. ASSUME NEW h \in Threads, NEW f \in Fds, NEW v \in Vals, InsertTest(h, f, v) PROVE BaseInv'
  <2>1. /\ Begin(h, "insert", f, v)
        /\ pc' = [pc EXCEPT ![h] = IF data[Idx1(f)] = Null THEN "alloc" ELSE "store"]
        /\ UNCHANGED <<data, cell, made, abs>>
        /\ seen' \in [Threads -> SUBSET (Vals \cup {Null})]
        /\ result' \in [Threads -> Vals \cup {Null, Garbage}]
    BY <1>3 DEF InsertTest, BaseInv, TypeInv
  <2>2. CASE data[Idx1(f)] = Null
    BY <2>1, <2>2, BeginBase
  <2>3. CASE data[Idx1(f)] # Null
    BY <2>1, <2>3, BeginBase
  <2>4. QED BY <2>2, <2>3
<1>4. ASSUME NEW h \in Threads, InsertAlloc(h) PROVE BaseInv'
  <2>1. /\ pc[h] = "alloc" /\ made' = made + 1 /\ made < MaxChunks
        /\ data' = [data EXCEPT ![Idx1(fd[h])] = made + 1]
        /\ chunk' = [chunk EXCEPT ![h] = made + 1]
        /\ pc' = [pc EXCEPT ![h] = "clear"]
        /\ UNCHANGED <<cell, op, fd, val, abs, seen, result, raced>>
    BY <1>4 DEF InsertAlloc
  <2>2. /\ made \in Nat /\ MaxChunks \in Nat /\ made + 1 \in Chunks /\ made + 1 \in 0 .. MaxChunks
    BY <2>1, HandlerMapAssumption DEF BaseInv, TypeInv, Chunks
  <2>3. fd[h] \in Fds /\ Idx1(fd[h]) \in Rows
    BY <2>1, PlaceOf DEF BaseInv, CallInv
  <2>4. TypeInv'
    BY <2>1, <2>2, <2>3 DEF BaseInv, TypeInv, Access
  <2>5. CallInv'
    <3>1. \A i \in Rows : data'[i] \in {data[i], made + 1}
      BY <2>1 DEF BaseInv, TypeInv
    <3>2. data'[Idx1(fd[h])] = made + 1 /\ chunk'[h] = made + 1 /\ pc'[h] = "clear"
      BY <2>1, <2>3 DEF BaseInv, TypeInv
    <3>3. \A g \in Threads \ {h} : pc'[g] = pc[g] /\ chunk'[g] = chunk[g]
      BY <2>1 DEF BaseInv, TypeInv
    <3>4. \A g \in Threads : pc[g] \in Access => data'[Idx1(fd[g])] \in Chunks
      BY <2>2, <3>1, AccessOf DEF BaseInv, CallInv
    <3>5. QED BY <2>1, <2>2, <3>2, <3>3, <3>4 DEF BaseInv, CallInv, Access
  <2>6. SoloInv'
    BY <2>1 DEF BaseInv, SoloInv
  <2>7. ChunkInv'
    <3>1. \A i \in Rows : data'[i] = IF i = Idx1(fd[h]) THEN made + 1 ELSE data[i]
      BY <2>1 DEF BaseInv, TypeInv
    <3>2. \A i \in Rows : data[i] # Null => data[i] \in 1 .. made
      BY DEF BaseInv, ChunkInv
    <3>3. made + 1 # Null
      BY <2>2, NullIsNone
    <3>4. QED BY <2>1, <2>2, <3>1, <3>2, <3>3 DEF BaseInv, ChunkInv
  <2>8. QED BY <2>4, <2>5, <2>6, <2>7 DEF BaseInv
<1>5. ASSUME NEW h \in Threads, InsertClear(h) PROVE BaseInv'
  <2>1. /\ pc[h] = "clear" /\ pc' = [pc EXCEPT ![h] = "store"]
        /\ UNCHANGED <<data, made, op, fd, val, chunk, abs, seen, result, raced>>
    BY <1>5 DEF InsertClear
  <2>2. PICK c \in Accessed(h) : cell' = [cell EXCEPT ![c] = [i \in 0 .. Size - 1 |-> Null]]
    BY <1>5 DEF InsertClear
  <2>3. c \in Chunks
    BY <2>1, AccessOf DEF Access
  <2>4. cell' \in [Chunks -> [Rows -> Vals \cup {Null, Garbage}]]
    BY <2>2, <2>3, ClearOf DEF BaseInv, TypeInv
  <2>5. TypeInv'
    BY <2>1, <2>4 DEF BaseInv, TypeInv, Access
  <2>6. CallInv'
    BY <2>1 DEF BaseInv, TypeInv, CallInv, Access
  <2>7. SoloInv' /\ ChunkInv'
    BY <2>1 DEF BaseInv, SoloInv, ChunkInv
  <2>8. QED BY <2>5, <2>6, <2>7 DEF BaseInv
<1>6. ASSUME NEW h \in Threads, InsertStore(h) PROVE BaseInv'
  <2>1. /\ pc[h] = "store" /\ End(h) /\ Update(fd[h], val[h]) /\ UNCHANGED <<data, made, result, raced>>
    BY <1>6 DEF InsertStore
  <2>2. PICK c \in Accessed(h) : cell' = [cell EXCEPT ![c][Idx2(fd[h])] = val[h]]
    BY <1>6 DEF InsertStore
  <2>3. c \in Chunks /\ fd[h] \in Fds /\ Idx2(fd[h]) \in Rows /\ val[h] \in Vals \cup {Null}
    BY <2>1, AccessOf DEF Access, BaseInv, TypeInv
  <2>4. cell' \in [Chunks -> [Rows -> Vals \cup {Null, Garbage}]]
    BY <2>2, <2>3, StoreOf DEF BaseInv, TypeInv
  <2>5. result' \in [Threads -> Vals \cup {Null, Garbage}]
    BY <2>1 DEF BaseInv, TypeInv
  <2>6. QED BY <2>1, <2>3, <2>4, <2>5, UpdateType, EndBase
<1>7. ASSUME NEW h \in Threads, EraseStore(h) PROVE BaseInv'
  <2>1. /\ pc[h] = "erase" /\ End(h) /\ Update(fd[h], Null) /\ UNCHANGED <<data, made, result, raced>>
    BY <1>7 DEF EraseStore
  <2>2. PICK c \in Accessed(h) : cell' = [cell EXCEPT ![c][Idx2(fd[h])] = Null]
    BY <1>7 DEF EraseStore
  <2>3. c \in Chunks /\ fd[h] \in Fds /\ Idx2(fd[h]) \in Rows
    BY <2>1, AccessOf DEF Access
  <2>4. cell' \in [Chunks -> [Rows -> Vals \cup {Null, Garbage}]]
    BY <2>2, <2>3, StoreOf DEF BaseInv, TypeInv
  <2>5. result' \in [Threads -> Vals \cup {Null, Garbage}]
    BY <2>1 DEF BaseInv, TypeInv
  <2>6. QED BY <2>1, <2>3, <2>4, <2>5, UpdateType, EndBase
<1>8. ASSUME NEW h \in Threads, GetLoad(h) PROVE BaseInv'
  <2>1. /\ pc[h] = "load" /\ End(h) /\ UNCHANGED <<data, cell, made, abs, seen, raced>>
    BY <1>8 DEF GetLoad
  <2>2. PICK c \in Accessed(h) : result' = [result EXCEPT ![h] = cell[c][Idx2(fd[h])]]
    BY <1>8 DEF GetLoad
  <2>3. c \in Chunks /\ Idx2(fd[h]) \in Rows
    BY <2>1, AccessOf DEF Access
  <2>4. cell[c][Idx2(fd[h])] \in Vals \cup {Null, Garbage}
    BY <2>3 DEF BaseInv, TypeInv
  <2>5. result' \in [Threads -> Vals \cup {Null, Garbage}]
    BY <2>2, <2>4 DEF BaseInv, TypeInv
  <2>6. QED BY <2>1, <2>5, EndBase DEF BaseInv, TypeInv
<1>9. CASE UNCHANGED vars
  BY <1>9 DEF vars, frame, BaseInv, TypeInv, CallInv, SoloInv, ChunkInv
<1>10. QED BY <1>1, <1>2, <1>3, <1>4, <1>5, <1>6, <1>7, <1>8, <1>9 DEF Next
-----------------------------------------------------------------------------
(* The map as long as no two calls meet in a chunk's first insert *)

\* Whoever sets up a row's chunk is alone in the row, which is empty.
AloneInv ==
    \A h \in Threads : pc[h] \in Setup =>
        /\ \A g \in Threads \ {h} : pc[g] # "idle" => Idx1(fd[g]) # Idx1(fd[h])
        /\ \A f \in Fds : Idx1(f) = Idx1(fd[h]) => abs[f] = Null
        /\ pc[h] = "alloc" => data[Idx1(fd[h])] = Null

\* Each thread beyond its test has the chunk of its row.
OwnChunkInv == \A h \in Threads : pc[h] \in Access => chunk[h] = data[Idx1(fd[h])]

\* The row of f is not being cleared.
Settled(f) == \A h \in Threads : pc[h] = "clear" => Idx1(fd[h]) # Idx1(f)

KeptInv == \A f \in Fds : Settled(f) => Look(f) = abs[f]

\* A get has noted what the map holds for its number now.
SeenInv == \A h \in Threads : /\ op[h] = "get" => abs[fd[h]] \in seen[h]
                              /\ op[h] # "get" => result[h] \in seen[h]

MapInv == ~raced => AloneInv /\ OwnChunkInv /\ KeptInv /\ SeenInv

LEMMA InitMap == Init => MapInv
<1> SUFFICES ASSUME Init PROVE AloneInv /\ OwnChunkInv /\ KeptInv /\ SeenInv
  BY DEF MapInv
<1>1. AloneInv /\ OwnChunkInv /\ SeenInv
  BY DEF Init, AloneInv, OwnChunkInv, SeenInv, Setup, Access
<1>2. KeptInv
  BY PlaceOf DEF Init, KeptInv, Look, Rows
<1>3. QED BY <1>1, <1>2

\* Where nobody sets up a chunk.
LEMMA Unraced ==
  ASSUME BaseInv, MapInv, NEW h \in Threads, NEW f \in Fds, ~FirstInsert(h, Idx1(f)), pc[h] = "idle"
  PROVE  /\ \A g \in Threads : pc[g] \in Setup => Idx1(fd[g]) # Idx1(f)
         /\ Settled(f)
BY DEF FirstInsert, Setup, Settled

\* The beginning of a call.
LEMMA BeginMap ==
  ASSUME BaseInv, MapInv, NEW h \in Threads, NEW f \in Fds, NEW v \in Vals \cup {Null},
         NEW o \in {"insert", "get", "erase"}, NEW next,
         Begin(h, o, f, v), pc' = [pc EXCEPT ![h] = next],
         UNCHANGED <<data, cell, made, abs, result>>,
         IF o = "get" THEN seen' = [seen EXCEPT ![h] = {abs[f]}] ELSE seen' = seen,
         \/ next = "alloc" /\ o = "insert" /\ data[Idx1(f)] = Null
         \/ next \in {"store", "load", "erase"}
  PROVE  MapInv'
<1> SUFFICES ASSUME ~raced' PROVE AloneInv' /\ OwnChunkInv' /\ KeptInv' /\ SeenInv'
  BY DEF MapInv
<1>1. /\ op' = [op EXCEPT ![h] = o] /\ fd' = [fd EXCEPT ![h] = f]
      /\ chunk' = [chunk EXCEPT ![h] = data[Idx1(f)]]
      /\ pc[h] = "idle" /\ ~raced /\ ~FirstInsert(h, Idx1(f))
  BY DEF Begin
<1>2. AloneInv /\ OwnChunkInv /\ KeptInv /\ SeenInv
  BY <1>1 DEF MapInv
<1>3. /\ \A g \in Threads : pc[g] \in Setup => Idx1(fd[g]) # Idx1(f)
      /\ Settled(f)
  BY <1>1, Unraced
<1>4. /\ \A g \in Threads \ {h} : /\ pc'[g] = pc[g] /\ op'[g] = op[g] /\ fd'[g] = fd[g]
                                  /\ chunk'[g] = chunk[g]
      /\ pc'[h] = next /\ op'[h] = o /\ fd'[h] = f /\ chunk'[h] = data[Idx1(f)]
  BY <1>1 DEF BaseInv, TypeInv
<1>5. AloneInv'
  <2>1. ASSUME next = "alloc"
        PROVE  /\ \A g \in Threads \ {h} : pc[g] # "idle" => Idx1(fd[g]) # Idx1(f)
               /\ \A e \in Fds : Idx1(e) = Idx1(f) => abs[e] = Null
               /\ data[Idx1(f)] = Null
    <3>1. data[Idx1(f)] = Null
      BY <2>1
    <3>2. \A g \in Threads \ {h} : pc[g] # "idle" => Idx1(fd[g]) # Idx1(f)
      <4>1. \A g \in Threads : pc[g] \in Access => data[Idx1(fd[g])] # Null
        BY NullIsNone DEF BaseInv, CallInv
      <4>2. \A g \in Threads : pc[g] # "idle" => pc[g] \in Setup \/ pc[g] \in Access
        BY DEF BaseInv, TypeInv, Setup
      <4>3. QED BY <1>3, <3>1, <4>1, <4>2
    <3>3. \A e \in Fds : Idx1(e) = Idx1(f) => abs[e] = Null
      BY <1>2, <1>3, <3>1 DEF KeptInv, Settled, Look
    <3>4. QED BY <3>1, <3>2, <3>3
  <2>2. ASSUME NEW g \in Threads, pc'[g] \in Setup
        PROVE  /\ \A k \in Threads \ {g} : pc'[k] # "idle" => Idx1(fd'[k]) # Idx1(fd'[g])
               /\ \A e \in Fds : Idx1(e) = Idx1(fd'[g]) => abs'[e] = Null
               /\ pc'[g] = "alloc" => data'[Idx1(fd'[g])] = Null
    <3>1. CASE g = h
      <4>1. next = "alloc"
        BY <1>4, <2>2, <3>1 DEF Setup
      <4>2. QED BY <1>4, <2>1, <3>1, <4>1
    <3>2. CASE g # h
      <4>1. pc[g] \in Setup /\ fd'[g] = fd[g] /\ Idx1(fd[g]) # Idx1(f)
        BY <1>3, <1>4, <2>2, <3>2
      <4>2. QED BY <1>2, <1>4, <3>2, <4>1 DEF AloneInv
    <3>3. QED BY <3>1, <3>2
  <2>3. QED BY <2>2 DEF AloneInv
<1>6. OwnChunkInv'
  BY <1>2, <1>4 DEF OwnChunkInv
<1>7. KeptInv'
  <2>1. \A e \in Fds : Settled(e)' => Settled(e)
    BY <1>1, <1>4 DEF Settled
  <2>2. \A e \in Fds : Look(e)' = Look(e)
    BY DEF Look
  <2>3. QED BY <1>2, <2>1, <2>2 DEF KeptInv
<1>8. SeenInv'
  <2>1. op[h] # "get" /\ result' = result /\ abs' = abs
    BY <1>1 DEF BaseInv, CallInv
  <2>2. \A g \in Threads \ {h} : seen'[g] = seen[g]
    BY DEF BaseInv, TypeInv
  <2>3. CASE o = "get"
    <3>1. seen'[h] = {abs[f]}
      BY <2>3 DEF BaseInv, TypeInv
    <3>2. QED BY <1>2, <1>4, <2>1, <2>2, <2>3, <3>1 DEF SeenInv
  <2>4. CASE o # "get"
    <3>1. seen' = seen
      BY <2>4
    <3>2. QED BY <1>2, <1>4, <2>1, <2>2, <2>4, <3>1 DEF SeenInv
  <2>5. QED BY <2>3, <2>4
<1>9. QED BY <1>5, <1>6, <1>7, <1>8

\* A thread that works on a row with a chunk works on that chunk, which nobody
\* is setting up, unless it does so itself.
LEMMA OwnChunk ==
  ASSUME BaseInv, MapInv, ~raced, NEW h \in Threads, pc[h] \in Access
  PROVE  /\ Accessed(h) = {data[Idx1(fd[h])]} /\ data[Idx1(fd[h])] \in Chunks
         /\ \A f \in Fds : Idx1(f) # Idx1(fd[h]) => data[Idx1(f)] # data[Idx1(fd[h])]
         /\ \A g \in Threads \ {h} : pc[g] \in Setup => Idx1(fd[g]) # Idx1(fd[h])
<1>1. AloneInv /\ OwnChunkInv
  BY DEF MapInv
<1>2. /\ fd[h] \in Fds /\ Idx1(fd[h]) \in Rows /\ data[Idx1(fd[h])] \in Chunks
      /\ pc[h] # "idle"
  BY AccessOf DEF BaseInv, CallInv, Access
<1>3. Accessed(h) = {data[Idx1(fd[h])]}
  BY <1>1 DEF OwnChunkInv, Accessed
<1>4. \A f \in Fds : Idx1(f) # Idx1(fd[h]) => data[Idx1(f)] # data[Idx1(fd[h])]
  BY <1>2, PlaceOf, NullIsNone DEF BaseInv, ChunkInv
<1>5. \A g \in Threads \ {h} : pc[g] \in Setup => Idx1(fd[g]) # Idx1(fd[h])
  BY <1>1, <1>2 DEF AloneInv
<1>6. QED BY <1>2, <1>3, <1>4, <1>5

\* The last step of an insert or an erase: number f of thread h becomes v.
LEMMA StoreMap ==
  ASSUME BaseInv, MapInv, NEW h \in Threads, pc[h] \in {"store", "erase"},
         NEW v \in Vals \cup {Null}, NEW c \in Accessed(h),
         cell' = [cell EXCEPT ![c][Idx2(fd[h])] = v],
         Update(fd[h], v), End(h), UNCHANGED <<data, made, result, raced>>
  PROVE  MapInv'
<1> SUFFICES ASSUME ~raced PROVE AloneInv' /\ OwnChunkInv' /\ KeptInv' /\ SeenInv'
  BY DEF MapInv
<1> DEFINE f == fd[h]
<1>1. AloneInv /\ OwnChunkInv /\ KeptInv /\ SeenInv
  BY DEF MapInv
<1>2. /\ f \in Fds /\ Idx1(f) \in Rows /\ Idx2(f) \in Rows
      /\ c = data[Idx1(f)] /\ c \in Chunks
      /\ \A e \in Fds : Idx1(e) # Idx1(f) => data[Idx1(e)] # c
      /\ \A g \in Threads \ {h} : pc[g] \in Setup => Idx1(fd[g]) # Idx1(f)
  BY AccessOf, OwnChunk DEF Access
<1>3. /\ \A g \in Threads \ {h} : /\ pc'[g] = pc[g] /\ op'[g] = op[g] /\ fd'[g] = fd[g]
                                  /\ chunk'[g] = chunk[g]
      /\ pc'[h] = "idle" /\ op'[h] = "none"
      /\ op[h] # "get" /\ pc[h] \notin Setup
  BY DEF End, BaseInv, TypeInv, CallInv, Setup
<1>4. \A d \in Chunks, j \in Rows : cell'[d][j] = IF d = c /\ j = Idx2(f) THEN v ELSE cell[d][j]
  BY <1>2, StoreOf DEF BaseInv, TypeInv
<1>5. \A e \in Fds : abs'[e] = IF e = f THEN v ELSE abs[e]
  BY <1>2 DEF Update, BaseInv, TypeInv
<1> HIDE DEF f
<1>6. AloneInv'
  <2> SUFFICES ASSUME NEW g \in Threads, pc'[g] \in Setup
               PROVE  /\ \A k \in Threads \ {g} : pc'[k] # "idle" => Idx1(fd'[k]) # Idx1(fd'[g])
                      /\ \A e \in Fds : Idx1(e) = Idx1(fd'[g]) => abs'[e] = Null
                      /\ pc'[g] = "alloc" => data'[Idx1(fd'[g])] = Null
    BY DEF AloneInv
  <2>1. g # h /\ pc[g] \in Setup /\ pc'[g] = pc[g] /\ fd'[g] = fd[g]
    BY <1>3 DEF Setup
  <2>2. Idx1(fd[g]) # Idx1(f)
    BY <1>2, <2>1
  <2>3. QED BY <1>1, <1>2, <1>3, <1>5, <2>1, <2>2 DEF AloneInv
<1>7. OwnChunkInv'
  BY <1>1, <1>3 DEF OwnChunkInv, Access
<1>8. KeptInv'
  <2> SUFFICES ASSUME NEW e \in Fds, Settled(e)' PROVE Look(e)' = abs'[e]
    BY DEF KeptInv
  <2>1. Settled(e)
    BY <1>3 DEF Settled, Setup
  <2>2. Look(e) = abs[e]
    BY <1>1, <2>1 DEF KeptInv
  <2>3. /\ Idx1(e) \in Rows /\ Idx2(e) \in Rows
        /\ e # f => Idx1(e) # Idx1(f) \/ Idx2(e) # Idx2(f)
    BY <1>2, PlaceOf
  <2>4. data' = data /\ data[Idx1(e)] \in Chunks \cup {Null} /\ c # Null
    BY <1>2, <2>3, NullIsNone DEF BaseInv, TypeInv
  <2>5. QED BY <1>2, <1>4, <1>5, <2>2, <2>3, <2>4 DEF Look
<1>9. SeenInv'
  <2> SUFFICES ASSUME NEW g \in Threads
               PROVE  /\ op'[g] = "get" => abs'[fd'[g]] \in seen'[g]
                      /\ op'[g] # "get" => result'[g] \in seen'[g]
    BY DEF SeenInv
  <2>1. seen'[g] = IF op[g] = "get" /\ fd[g] = f THEN seen[g] \cup {v} ELSE seen[g]
    BY DEF Update, f
  <2>2. CASE g = h
    BY <1>1, <1>3, <2>1, <2>2 DEF SeenInv
  <2>3. CASE g # h
    <3>1. op'[g] = op[g] /\ fd'[g] = fd[g] /\ result'[g] = result[g]
      BY <1>3, <2>3
    <3>2. op[g] = "get" => fd[g] \in Fds
      BY DEF BaseInv, TypeInv, CallInv
    <3>3. QED BY <1>1, <1>5, <2>1, <3>1, <3>2 DEF SeenInv
  <2>4. QED BY <2>2, <2>3
<1>10. QED BY <1>6, <1>7, <1>8, <1>9

LEMMA AllocMap ==
  ASSUME BaseInv, MapInv, NEW h \in Threads, InsertAlloc(h) PROVE MapInv'
<1> DEFINE r == Idx1(fd[h])
<1>1. /\ pc[h] = "alloc"
      /\ data' = [data EXCEPT ![r] = made + 1]
      /\ chunk' = [chunk EXCEPT ![h] = made + 1] /\ pc' = [pc EXCEPT ![h] = "clear"]
      /\ UNCHANGED <<cell, op, fd, val, abs, seen, result, raced>>
  BY DEF InsertAlloc
<1> SUFFICES ASSUME ~raced PROVE AloneInv' /\ OwnChunkInv' /\ KeptInv' /\ SeenInv'
  BY <1>1 DEF MapInv
<1>2. AloneInv /\ OwnChunkInv /\ KeptInv /\ SeenInv
  BY DEF MapInv
<1>3. fd[h] \in Fds /\ r \in Rows
  BY <1>1, PlaceOf DEF BaseInv, CallInv
<1>4. /\ \A g \in Threads \ {h} : pc'[g] = pc[g] /\ chunk'[g] = chunk[g]
      /\ pc'[h] = "clear" /\ chunk'[h] = made + 1
      /\ \A i \in Rows : data'[i] = IF i = r THEN made + 1 ELSE data[i]
  BY <1>1, <1>3 DEF BaseInv, TypeInv
<1>5. /\ \A g \in Threads \ {h} : pc[g] # "idle" => Idx1(fd[g]) # r
      /\ \A f \in Fds : Idx1(f) = r => abs[f] = Null
  BY <1>1, <1>2 DEF AloneInv, Setup
<1>6. \A g \in Threads : pc[g] # "idle" => fd[g] \in Fds /\ Idx1(fd[g]) \in Rows
  BY PlaceOf DEF BaseInv, CallInv
<1>7. fd' = fd /\ abs' = abs /\ cell' = cell
  BY <1>1
<1> HIDE DEF r
<1>8. AloneInv'
  <2> SUFFICES ASSUME NEW g \in Threads, pc'[g] \in Setup
               PROVE  /\ \A k \in Threads \ {g} : pc'[k] # "idle" => Idx1(fd'[k]) # Idx1(fd'[g])
                      /\ \A e \in Fds : Idx1(e) = Idx1(fd'[g]) => abs'[e] = Null
                      /\ pc'[g] = "alloc" => data'[Idx1(fd'[g])] = Null
    BY DEF AloneInv
  <2>1. CASE g = h
    BY <1>4, <1>5, <1>7, <2>1 DEF r
  <2>2. CASE g # h
    <3>1. pc[g] \in Setup /\ pc[g] = pc'[g] /\ pc[g] # "idle" /\ pc[h] # "idle"
      BY <1>1, <1>4, <2>2 DEF Setup
    <3>2. Idx1(fd[g]) \in Rows /\ Idx1(fd[g]) # r
      BY <1>5, <1>6, <2>2, <3>1
    <3>3. /\ \A k \in Threads \ {g} : pc[k] # "idle" => Idx1(fd[k]) # Idx1(fd[g])
          /\ \A e \in Fds : Idx1(e) = Idx1(fd[g]) => abs[e] = Null
          /\ pc[g] = "alloc" => data[Idx1(fd[g])] = Null
      BY <1>2, <3>1 DEF AloneInv
    <3>4. \A k \in Threads : pc'[k] # "idle" => pc[k] # "idle"
      BY <1>4, <3>1
    <3>5. QED BY <1>4, <1>7, <3>1, <3>2, <3>3, <3>4
  <2>3. QED BY <2>1, <2>2
<1>9. OwnChunkInv'
  <2> SUFFICES ASSUME NEW g \in Threads, pc'[g] \in Access PROVE chunk'[g] = data'[Idx1(fd'[g])]
    BY DEF OwnChunkInv
  <2>1. CASE g = h
    BY <1>3, <1>4, <1>7, <2>1 DEF r
  <2>2. CASE g # h
    <3>1. pc[g] \in Access /\ pc[g] # "idle" /\ chunk'[g] = chunk[g]
      BY <1>4, <2>2 DEF Access
    <3>2. Idx1(fd[g]) \in Rows /\ Idx1(fd[g]) # r
      BY <1>5, <1>6, <2>2, <3>1
    <3>3. QED BY <1>2, <1>4, <1>7, <3>1, <3>2 DEF OwnChunkInv
  <2>3. QED BY <2>1, <2>2
<1>10. KeptInv'
  <2> SUFFICES ASSUME NEW e \in Fds, Settled(e)' PROVE Look(e)' = abs'[e]
    BY DEF KeptInv
  <2>1. Idx1(e) # r /\ Idx1(e) \in Rows
    BY <1>4, <1>7, PlaceOf DEF Settled, r
  <2>2. Settled(e)
    BY <1>1, <1>4, <1>7 DEF Settled
  <2>3. Look(e) = abs[e]
    BY <1>2, <2>2 DEF KeptInv
  <2>4. QED BY <1>4, <1>7, <2>1, <2>3 DEF Look
<1>11. SeenInv'
  BY <1>1, <1>2 DEF SeenInv
<1>12. QED BY <1>8, <1>9, <1>10, <1>11

LEMMA ClearMap ==
  ASSUME BaseInv, MapInv, NEW h \in Threads, InsertClear(h) PROVE MapInv'
<1> DEFINE r == Idx1(fd[h])
<1>1. /\ pc[h] = "clear" /\ pc' = [pc EXCEPT ![h] = "store"]
      /\ UNCHANGED <<data, made, op, fd, val, chunk, abs, seen, result, raced>>
  BY DEF InsertClear
<1>2. PICK c \in Accessed(h) : cell' = [cell EXCEPT ![c] = [i \in 0 .. Size - 1 |-> Null]]
  BY DEF InsertClear
<1> SUFFICES ASSUME ~raced PROVE AloneInv' /\ OwnChunkInv' /\ KeptInv' /\ SeenInv'
  BY <1>1 DEF MapInv
<1>3. AloneInv /\ OwnChunkInv /\ KeptInv /\ SeenInv
  BY DEF MapInv
<1>4. /\ c = data[r] /\ c \in Chunks /\ r \in Rows
      /\ \A e \in Fds : Idx1(e) # r => data[Idx1(e)] # c
  BY <1>1, <1>2, AccessOf, OwnChunk DEF Access
<1>5. \A d \in Chunks, j \in Rows : cell'[d][j] = IF d = c THEN Null ELSE cell[d][j]
  BY <1>2, <1>4, ClearOf DEF BaseInv, TypeInv
<1>6. /\ \A g \in Threads \ {h} : pc'[g] = pc[g]
      /\ pc'[h] = "store"
  BY <1>1 DEF BaseInv, TypeInv
<1>7. \A e \in Fds : Idx1(e) = r => abs[e] = Null
  BY <1>1, <1>3 DEF AloneInv, Setup
<1> HIDE DEF r
<1>8. AloneInv'
  <2>1. \A g \in Threads : pc'[g] \in Setup => pc[g] \in Setup /\ pc'[g] = pc[g]
    BY <1>6 DEF Setup
  <2>2. \A g \in Threads : pc'[g] # "idle" => pc[g] # "idle"
    BY <1>1, <1>6
  <2>3. QED BY <1>1, <1>3, <2>1, <2>2 DEF AloneInv
<1>9. OwnChunkInv'
  <2>1. \A g \in Threads : pc'[g] \in Access => pc[g] \in Access
    BY <1>1, <1>6 DEF Access
  <2>2. QED BY <1>1, <1>3, <2>1 DEF OwnChunkInv
<1>10. KeptInv'
  <2> SUFFICES ASSUME NEW e \in Fds, Settled(e)' PROVE Look(e)' = abs'[e]
    BY DEF KeptInv
  <2>1. Idx1(e) \in Rows /\ Idx2(e) \in Rows /\ data' = data /\ abs' = abs
        /\ data[Idx1(e)] \in Chunks \cup {Null} /\ c # Null
    BY <1>1, <1>4, PlaceOf, NullIsNone DEF BaseInv, TypeInv
  <2>2. CASE Idx1(e) = r
    BY <1>4, <1>5, <1>7, <2>1, <2>2 DEF Look
  <2>3. CASE Idx1(e) # r
    <3>1. Settled(e)
      BY <1>1, <1>6, <2>3 DEF Settled, r
    <3>2. Look(e) = abs[e]
      BY <1>3, <3>1 DEF KeptInv
    <3>3. QED BY <1>4, <1>5, <2>1, <2>3, <3>2 DEF Look
  <2>4. QED BY <2>2, <2>3
<1>11. SeenInv'
  BY <1>1, <1>3 DEF SeenInv
<1>12. QED BY <1>8, <1>9, <1>10, <1>11

\* The two ways of a get: no chunk, or a chunk's cell.
LEMMA LoadMap ==
  ASSUME BaseInv, MapInv, NEW h \in Threads, GetLoad(h) PROVE MapInv'
<1>1. pc[h] = "load" /\ End(h) /\ UNCHANGED <<data, cell, made, abs, seen, raced>>
  BY DEF GetLoad
<1>2. PICK c \in Accessed(h) : result' = [result EXCEPT ![h] = cell[c][Idx2(fd[h])]]
  BY DEF GetLoad
<1> SUFFICES ASSUME ~raced PROVE AloneInv' /\ OwnChunkInv' /\ KeptInv' /\ SeenInv'
  BY <1>1 DEF MapInv
<1>3. AloneInv /\ OwnChunkInv /\ KeptInv /\ SeenInv
  BY DEF MapInv
<1>4. /\ \A g \in Threads \ {h} : /\ pc'[g] = pc[g] /\ op'[g] = op[g] /\ fd'[g] = fd[g]
                                  /\ chunk'[g] = chunk[g] /\ result'[g] = result[g]
      /\ pc'[h] = "idle" /\ op'[h] = "none" /\ result'[h] = cell[c][Idx2(fd[h])]
      /\ op[h] = "get"
  BY <1>1, <1>2 DEF End, BaseInv, TypeInv, CallInv
<1>5. result'[h] = abs[fd[h]]
  <2>1. /\ fd[h] \in Fds /\ c = data[Idx1(fd[h])] /\ c \in Chunks
        /\ \A g \in Threads \ {h} : pc[g] \in Setup => Idx1(fd[g]) # Idx1(fd[h])
    BY <1>1, <1>2, AccessOf, OwnChunk DEF Access
  <2>2. Settled(fd[h])
    BY <1>1, <2>1 DEF Settled, Setup
  <2>3. QED BY <1>3, <1>4, <2>1, <2>2, NullIsNone DEF KeptInv, Look
<1>6. AloneInv'
  <2>1. \A g \in Threads : pc'[g] # "idle" => pc'[g] = pc[g] /\ fd'[g] = fd[g]
    BY <1>4
  <2>2. "idle" \notin Setup
    BY DEF Setup
  <2>3. QED BY <1>1, <1>3, <2>1, <2>2 DEF AloneInv
<1>7. OwnChunkInv'
  BY <1>1, <1>3, <1>4 DEF OwnChunkInv, Access
<1>8. KeptInv'
  <2>1. \A e \in Fds : Settled(e)' => Settled(e)
    BY <1>1, <1>4 DEF Settled
  <2>2. \A e \in Fds : Look(e)' = Look(e)
    BY <1>1 DEF Look
  <2>3. QED BY <1>1, <1>3, <2>1, <2>2 DEF KeptInv
<1>9. SeenInv'
  BY <1>1, <1>3, <1>4, <1>5 DEF SeenInv
<1>10. QED BY <1>6, <1>7, <1>8, <1>9

LEMMA MissMap ==
  ASSUME BaseInv, MapInv, NEW h \in Threads, NEW f \in Fds, GetTest(h, f), data[Idx1(f)] = Null
  PROVE  MapInv'
<1>1. /\ pc[h] = "idle" /\ result' = [result EXCEPT ![h] = Null]
      /\ raced' = (raced \/ FirstInsert(h, Idx1(f))) /\ seen' = [seen EXCEPT ![h] = {abs[f]}]
      /\ UNCHANGED <<op, pc, fd, val, chunk, data, cell, made, abs>>
  BY DEF GetTest, frame
<1> SUFFICES ASSUME ~raced' PROVE AloneInv' /\ OwnChunkInv' /\ KeptInv' /\ SeenInv'
  BY DEF MapInv
<1>2. ~raced /\ ~FirstInsert(h, Idx1(f))
  BY <1>1
<1>3. AloneInv /\ OwnChunkInv /\ KeptInv /\ SeenInv
  BY <1>2 DEF MapInv
<1>4. abs[f] = Null
  <2>1. Settled(f)
    BY <1>1, <1>2, Unraced
  <2>2. QED BY <1>3, <2>1 DEF KeptInv, Look
<1>5. AloneInv' /\ OwnChunkInv' /\ KeptInv'
  BY <1>1, <1>3 DEF AloneInv, OwnChunkInv, KeptInv, Settled, Look
<1>6. SeenInv'
  <2>1. op[h] # "get"
    BY <1>1 DEF BaseInv, CallInv
  <2>2. \A g \in Threads : /\ result'[g] = IF g = h THEN Null ELSE result[g]
                           /\ seen'[g] = IF g = h THEN {Null} ELSE seen[g]
    BY <1>1, <1>4 DEF BaseInv, TypeInv
  <2>3. QED BY <1>1, <1>3, <2>1, <2>2 DEF SeenInv
<1>7. QED BY <1>5, <1>6

LEMMA NextMap == ASSUME BaseInv, MapInv, [Next]_vars PROVE MapInv'
<1>1. ASSUME NEW h \in Threads, NEW f \in Fds, GetTest(h, f) PROVE MapInv'
  <2>1. CASE data[Idx1(f)] = Null
    BY <1>1, <2>1, MissMap
  <2>2. CASE data[Idx1(f)] # Null
    <3>1. /\ Begin(h, "get", f, Null) /\ pc' = [pc EXCEPT ![h] = "load"]
          /\ seen' = [seen EXCEPT ![h] = {abs[f]}]
          /\ UNCHANGED <<data, cell, made, abs, result>>
      BY <1>1, <2>2 DEF GetTest
    <3>2. QED BY <3>1, BeginMap
  <2>3. QED BY <2>1, <2>2
<1>2. ASSUME NEW h \in Threads, NEW f \in Fds, EraseTest(h, f) PROVE MapInv'
  <2>1. /\ Begin(h, "erase", f, Null) /\ pc' = [pc EXCEPT ![h] = "erase"]
        /\ UNCHANGED <<data, cell, made, abs, seen, result>>
    BY <1>2 DEF EraseTest
  <2>2. QED BY <2>1, BeginMap
<1>3. ASSUME NEW h \in Threads, NEW f \in Fds, NEW v \in Vals, InsertTest(h, f, v) PROVE MapInv'
  <2>1. /\ Begin(h, "insert", f, v)
        /\ pc' = [pc EXCEPT ![h] = IF data[Idx1(f)] = Null THEN "alloc" ELSE "store"]
        /\ UNCHANGED <<data, cell, made, abs, seen, result>>
    BY <1>3 DEF InsertTest
  <2>2. CASE data[Idx1(f)] = Null
    BY <2>1, <2>2, BeginMap
  <2>3. CASE data[Idx1(f)] # Null
    BY <2>1, <2>3, BeginMap
  <2>4. QED BY <2>2, <2>3
<1>4. ASSUME NEW h \in Threads, InsertAlloc(h) PROVE MapInv'
  BY <1>4, AllocMap
<1>5. ASSUME NEW h \in Threads, InsertClear(h) PROVE MapInv'
  BY <1>5, ClearMap
<1>6. ASSUME NEW h \in Threads, InsertStore(h) PROVE MapInv'
  <2>1. pc[h] = "store" /\ val[h] \in Vals \cup {Null}
    BY <1>6 DEF InsertStore, BaseInv, TypeInv
  <2>2. QED BY <1>6, <2>1, StoreMap DEF InsertStore
<1>7. ASSUME NEW h \in Threads, EraseStore(h) PROVE MapInv'
  BY <1>7, StoreMap DEF EraseStore
<1>8. ASSUME NEW h \in Threads, GetLoad(h) PROVE MapInv'
  BY <1>8, LoadMap
<1>9. CASE UNCHANGED vars
  BY <1>9 DEF vars, frame, MapInv, AloneInv, OwnChunkInv, KeptInv, SeenInv, Settled, Look
<1>10. QED BY <1>1, <1>2, <1>3, <1>4, <1>5, <1>6, <1>7, <1>8, <1>9 DEF Next

LEMMA SpecMap == Spec => [](BaseInv /\ MapInv)
<1>1. Init => BaseInv /\ MapInv
  BY InitBase, InitMap
<1>2. BaseInv /\ MapInv /\ [Next]_vars => (BaseInv /\ MapInv)'
  BY NextBase, NextMap
<1>3. QED BY <1>1, <1>2, PTL DEF Spec

\* A get returns what the map held for its number at some time during the call,
\* unless a call has come by while a chunk was being set up.
THEOREM GetsAtomic == Spec => []GetsWhatWasThere
<1>1. MapInv => GetsWhatWasThere
  BY DEF MapInv, SeenInv, GetsWhatWasThere
<1>2. QED BY <1>1, SpecMap, PTL

\* What was last stored for a number is where a get looks for it.
THEOREM StoresKept == Spec => []ContextsKept
<1>1. MapInv => ContextsKept
  BY DEF MapInv, KeptInv, Settled, ContextsKept
<1>2. QED BY <1>1, SpecMap, PTL
=============================================================================
