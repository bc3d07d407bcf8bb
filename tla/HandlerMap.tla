----------------------------- MODULE HandlerMap -----------------------------
(***************************************************************************)
(* coroutine/handlermap.h: the two-level array from descriptor numbers to  *)
(* FdContexts, used by all threads without a lock.  A step is one access   *)
(* to m_data or to a chunk.  The accesses are plain, so where the code     *)
(* names m_data[idx1] twice the second may be a new read or the value of   *)
(* the first.                                                              *)
(***************************************************************************)
EXTENDS Integers

CONSTANTS
    Threads,
    Fds,        \* the descriptor numbers the kernel hands out
    Vals,       \* FdContexts
    Size,       \* m_size, 1024
    MaxChunks,  \* bound: second-level arrays that can be allocated
    Null,
    Garbage     \* what malloc leaves in a chunk

ASSUME HandlerMapAssumption ==
    /\ Size \in Nat \ {0} /\ MaxChunks \in Nat
    /\ Fds \subseteq 0 .. Size * Size - 1
    /\ Null \notin Vals \cup Nat /\ Garbage \notin Vals \cup {Null}

VARIABLES
    data,       \* m_data: a chunk's number or Null
    cell,       \* the chunks
    made,       \* how many were allocated
    op, pc, fd, val, chunk, \* each thread: its call, next step, argument and
                            \* m_data[idx1] as it read it
    abs,        \* history: the map as the last stores left it
    seen,       \* history: what abs[fd] was in the course of each get
    result,     \* history: what each thread's last get returned
    raced       \* history: two calls met in a chunk's first insert

frame == <<op, pc, fd, val, chunk>>
vars == <<data, cell, made, frame, abs, seen, result, raced>>

Chunks == 1 .. MaxChunks

Init ==
    /\ data = [i \in 0 .. Size - 1 |-> Null]
    /\ cell = [c \in Chunks |-> [i \in 0 .. Size - 1 |-> Garbage]]
    /\ made = 0
    /\ op = [h \in Threads |-> "none"] /\ pc = [h \in Threads |-> "idle"]
    /\ fd = [h \in Threads |-> Null] /\ val = [h \in Threads |-> Null]
    /\ chunk = [h \in Threads |-> Null]
    /\ abs = [f \in Fds |-> Null]
    /\ seen = [h \in Threads |-> {Null}]
    /\ result = [h \in Threads |-> Null]
    /\ raced = FALSE
-----------------------------------------------------------------------------
Idx1(f) == f \div Size

\* A variant that masks with m_size instead of m_size - 1.
Idx2Wrong(f) == (f \div Size) % Size

\* fd & (m_size - 1), m_size being a power of two.
Idx2(f) == f % Size

\* Somebody else is between the test of m_data[i] and the end of the memset.
FirstInsert(h, i) ==
    \E g \in Threads \ {h} : pc[g] \in {"alloc", "clear"} /\ Idx1(fd[g]) = i

\* A socket call inserts the context of a number the kernel has just given to
\* it, a close erases its own; anybody may look any number up.
Free(f) == \A h \in Threads : fd[h] = f => op[h] = "get"

Begin(h, o, f, v) ==
    /\ pc[h] = "idle"
    /\ o # "get" => Free(f)
    /\ op' = [op EXCEPT ![h] = o]
    /\ fd' = [fd EXCEPT ![h] = f] /\ val' = [val EXCEPT ![h] = v]
    /\ chunk' = [chunk EXCEPT ![h] = data[Idx1(f)]]
    /\ raced' = (raced \/ FirstInsert(h, Idx1(f)))

End(h) ==
    /\ op' = [op EXCEPT ![h] = "none"] /\ pc' = [pc EXCEPT ![h] = "idle"]
    /\ fd' = [fd EXCEPT ![h] = Null] /\ val' = [val EXCEPT ![h] = Null]
    /\ chunk' = [chunk EXCEPT ![h] = Null]

\* The map's value of f becomes v, also for the gets that are under way.
Update(f, v) ==
    /\ abs' = [abs EXCEPT ![f] = v]
    /\ seen' = [h \in Threads |-> IF op[h] = "get" /\ fd[h] = f THEN seen[h] \cup {v}
                                  ELSE seen[h]]

\* The chunk a later access to m_data[idx1] goes to.
Accessed(h) == {chunk[h], data[Idx1(fd[h])]}
-----------------------------------------------------------------------------
\* insert: is there a chunk?
InsertTest(h, f, v) ==
    /\ abs[f] = Null /\ Begin(h, "insert", f, v)
    /\ pc' = [pc EXCEPT ![h] = IF data[Idx1(f)] = Null THEN "alloc" ELSE "store"]
    /\ UNCHANGED <<data, cell, made, abs, seen, result>>

\* m_data[idx1] = malloc(...).
InsertAlloc(h) ==
    /\ pc[h] = "alloc" /\ made < MaxChunks
    /\ made' = made + 1
    /\ data' = [data EXCEPT ![Idx1(fd[h])] = made + 1]
    /\ chunk' = [chunk EXCEPT ![h] = made + 1]
    /\ pc' = [pc EXCEPT ![h] = "clear"]
    /\ UNCHANGED <<cell, op, fd, val, abs, seen, result, raced>>

\* A variant without the memset.
InsertKeepsGarbage(h) ==
    /\ pc[h] = "clear"
    /\ pc' = [pc EXCEPT ![h] = "store"]
    /\ UNCHANGED <<data, cell, made, op, fd, val, chunk, abs, seen, result, raced>>

\* memset.
InsertClear(h) ==
    /\ pc[h] = "clear"
    /\ \E c \in Accessed(h) : cell' = [cell EXCEPT ![c] = [i \in 0 .. Size - 1 |-> Null]]
    /\ pc' = [pc EXCEPT ![h] = "store"]
    /\ UNCHANGED <<data, made, op, fd, val, chunk, abs, seen, result, raced>>

InsertStore(h) ==
    /\ pc[h] = "store"
    /\ \E c \in Accessed(h) : cell' = [cell EXCEPT ![c][Idx2(fd[h])] = val[h]]
    /\ Update(fd[h], val[h])
    /\ End(h)
    /\ UNCHANGED <<data, made, result, raced>>

\* get: without a chunk it returns nullptr at once.
GetTest(h, f) ==
    /\ IF data[Idx1(f)] = Null
       THEN /\ pc[h] = "idle"
            /\ result' = [result EXCEPT ![h] = Null]
            /\ raced' = (raced \/ FirstInsert(h, Idx1(f)))
            /\ seen' = [seen EXCEPT ![h] = {abs[f]}]
            /\ UNCHANGED frame
       ELSE /\ Begin(h, "get", f, Null)
            /\ pc' = [pc EXCEPT ![h] = "load"]
            /\ seen' = [seen EXCEPT ![h] = {abs[f]}]
            /\ UNCHANGED result
    /\ UNCHANGED <<data, cell, made, abs>>

GetLoad(h) ==
    /\ pc[h] = "load"
    /\ \E c \in Accessed(h) : result' = [result EXCEPT ![h] = cell[c][Idx2(fd[h])]]
    /\ End(h)
    /\ UNCHANGED <<data, cell, made, abs, seen, raced>>

\* erase of a number that was inserted; without a chunk it throws.
EraseTest(h, f) ==
    /\ abs[f] # Null /\ data[Idx1(f)] # Null
    /\ Begin(h, "erase", f, Null)
    /\ pc' = [pc EXCEPT ![h] = "erase"]
    /\ UNCHANGED <<data, cell, made, abs, seen, result>>

\* A variant that clears the whole chunk.
EraseAll(h) ==
    /\ pc[h] = "erase"
    /\ \E c \in Accessed(h) : cell' = [cell EXCEPT ![c] = [i \in 0 .. Size - 1 |-> Null]]
    /\ Update(fd[h], Null)
    /\ End(h)
    /\ UNCHANGED <<data, made, result, raced>>

EraseStore(h) ==
    /\ pc[h] = "erase"
    /\ \E c \in Accessed(h) : cell' = [cell EXCEPT ![c][Idx2(fd[h])] = Null]
    /\ Update(fd[h], Null)
    /\ End(h)
    /\ UNCHANGED <<data, made, result, raced>>

Next ==
    \E h \in Threads :
        \/ \E f \in Fds : GetTest(h, f) \/ EraseTest(h, f) \/ \E v \in Vals : InsertTest(h, f, v)
        \/ InsertAlloc(h) \/ InsertClear(h) \/ InsertStore(h) \/ GetLoad(h) \/ EraseStore(h)

Spec == Init /\ [][Next]_vars
-----------------------------------------------------------------------------
\* A get returns what the map held for its number at some time during the call,
\* although the number may be inserted and erased meanwhile: the map is atomic,
\* as long as nobody came by while a chunk was being set up.
GetsWhatWasThere ==
    ~raced => \A h \in Threads : op[h] # "get" => result[h] \in seen[h]

\* Every number's last store is where get will look for it: neither chunks nor
\* neighbouring numbers get in each other's way.
Look(f) == IF data[Idx1(f)] = Null THEN Null ELSE cell[data[Idx1(f)]][Idx2(f)]
ContextsKept ==
    ~raced => \A f \in Fds :
        (\A h \in Threads : pc[h] = "clear" => Idx1(fd[h]) # Idx1(f)) => Look(f) = abs[f]

\* All threads use the one map without a lock (README.md:117, several threads
\* for the tasks): it is atomic for them also when a chunk is new.
MapIsAtomic ==
    \A h \in Threads : op[h] # "get" => result[h] \in seen[h]
=============================================================================
