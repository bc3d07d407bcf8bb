--------------------------- MODULE FreeListProofs ---------------------------
(***************************************************************************)
(* Proofs about the free list, for any number of threads that allocate and *)
(* free and any number of blocks: it stays a list until a compare-exchange *)
(* succeeds on a link that has changed since it was read; and about the    *)
(* stacks that TaskStackAllocator keeps in one.                            *)
(***************************************************************************)
EXTENDS FreeList, TaskStack, Sequences, FiniteSetTheorems, FunctionTheorems, WellFoundedInduction, TLAPS

Maybe == Blocks \cup {Null}
TypeInv ==
    /\ head \in Maybe /\ next \in [Blocks -> Maybe]
    /\ unborn \subseteq Blocks /\ held \in [Threads -> SUBSET Blocks]
    /\ pc \in [Threads -> {"idle", "read", "cas", "new", "link"}]
    /\ cur \in [Threads -> Maybe] /\ nxt \in [Threads -> Maybe] /\ aba \in BOOLEAN
    /\ \A h \in Threads : pc[h] \in {"read", "cas", "link"} => cur[h] \in Blocks

\* The blocks on s are linked from the head in this order.
On(s) == {s[i] : i \in 1 .. Len(s)}
Linked(s) ==
    /\ s \in Seq(Blocks)
    /\ \A i, j \in 1 .. Len(s) : s[i] = s[j] => i = j
    /\ s = <<>> => head = Null
    /\ s # <<>> => head = s[1]
    /\ \A i \in 1 .. Len(s) : next[s[i]] = IF i = Len(s) THEN Null ELSE s[i + 1]

\* Where a block is: each block is somewhere and in no two places.
Linking(h, b) == pc[h] = "link" /\ cur[h] = b
Somewhere(s) == \A b \in Blocks :
    b \in unborn \/ b \in On(s) \/ InUse(b) \/ \E h \in Threads : Linking(h, b)
Apart(s) ==
    /\ \A b \in On(s) : b \notin unborn /\ ~InUse(b) /\ \A h \in Threads : ~Linking(h, b)
    /\ \A b \in unborn : ~InUse(b) /\ \A h \in Threads : ~Linking(h, b)
    /\ \A h \in Threads : pc[h] = "link" => cur[h] \in Blocks /\ ~InUse(cur[h])
    /\ \A g, h \in Threads : pc[g] = "link" /\ Linking(h, cur[g]) => g = h
    /\ \A g, h \in Threads, b \in Blocks : b \in held[g] /\ b \in held[h] => g = h

ListInv(s) == Linked(s) /\ Somewhere(s) /\ Apart(s)
FreeInv == TypeInv /\ (~aba => \E s \in Seq(Blocks) : ListInv(s))
-----------------------------------------------------------------------------
\* It holds of an empty list.
LEMMA InitFree == Init => FreeInv
<1> SUFFICES ASSUME Init PROVE FreeInv
  OBVIOUS
<1>1. TypeInv
  BY DEF Init, TypeInv, Maybe
<1>2. <<>> \in Seq(Blocks) /\ On(<<>>) = {}
  BY DEF On
<1>3. Linked(<<>>)
  BY DEF Init, Linked
<1>4. Somewhere(<<>>) /\ Apart(<<>>)
  BY <1>2 DEF Init, Somewhere, Apart, InUse, Linking
<1>5. QED BY <1>1, <1>2, <1>3, <1>4 DEF FreeInv, ListInv

\* The first block comes off the list.
LEMMA Popped ==
  ASSUME NEW s \in Seq(Blocks), Linked(s), head # Null,
         head' = next[head], next' = next
  PROVE  Linked(Tail(s))' /\ head \in On(s) /\ On(Tail(s)) = On(s) \ {head}
<1>1. /\ s # <<>> /\ head = s[1] /\ Len(s) \in Nat \ {0}
      /\ \A i \in 1 .. Len(s) : s[i] \in Blocks
      /\ \A i, j \in 1 .. Len(s) : s[i] = s[j] => i = j
  <2>1. s # <<>> /\ head = s[1]
    BY FreeListAssumption DEF Linked
  <2>2. Len(s) \in Nat \ {0} /\ \A i \in 1 .. Len(s) : s[i] \in Blocks
    BY <2>1
  <2>3. QED BY <2>1, <2>2 DEF Linked
<1> DEFINE r == Tail(s)
<1>2. /\ r \in Seq(Blocks) /\ Len(r) = Len(s) - 1
      /\ \A i \in 1 .. Len(r) : i + 1 \in 1 .. Len(s) /\ r[i] = s[i + 1]
  BY <1>1
<1> HIDE DEF r
<1>3. r = <<>> <=> Len(s) = 1
  <2>1. r = <<>> <=> Len(r) = 0
    BY <1>2
  <2>2. QED BY <1>1, <1>2, <2>1
<1>4. On(r) = On(s) \ {head}
  <2>1. \A i \in 1 .. Len(s) : s[i] # head => i - 1 \in 1 .. Len(r) /\ r[i - 1] = s[i]
    BY <1>1, <1>2
  <2>2. On(s) \ {head} \subseteq On(r)
    BY <2>1 DEF On
  <2>3. \A i \in 1 .. Len(r) : r[i] \in On(s) /\ r[i] # head
    BY <1>1, <1>2 DEF On
  <2>4. QED BY <2>2, <2>3 DEF On
<1>5. \A i, j \in 1 .. Len(r) : r[i] = r[j] => i = j
  <2> SUFFICES ASSUME NEW i \in 1 .. Len(r), NEW j \in 1 .. Len(r), r[i] = r[j] PROVE i = j
    OBVIOUS
  <2>1. i + 1 = j + 1
    BY <1>1, <1>2
  <2>2. QED BY <1>1, <1>2, <2>1
<1>6. \A i \in 1 .. Len(r) : next[r[i]] = IF i = Len(r) THEN Null ELSE r[i + 1]
  BY <1>1, <1>2 DEF Linked
<1>7. head' = IF Len(s) = 1 THEN Null ELSE s[2]
  <2>1. 1 \in 1 .. Len(s)
    BY <1>1
  <2>2. next[s[1]] = IF 1 = Len(s) THEN Null ELSE s[1 + 1]
    BY <2>1 DEF Linked
  <2>3. QED BY <1>1, <2>2
<1>8. Len(s) # 1 => r[1] = s[2]
  BY <1>1, <1>2
<1>9. Linked(r)'
  BY <1>2, <1>3, <1>5, <1>6, <1>7, <1>8 DEF Linked
<1>10. head \in On(s)
  BY <1>1 DEF On
<1>11. QED BY <1>4, <1>9, <1>10 DEF r

\* A block is put in front of the list, to which its link leads already.
LEMMA Pushed ==
  ASSUME NEW s \in Seq(Blocks), Linked(s), NEW b \in Blocks \ On(s),
         next[b] = head, head' = b, next' = next
  PROVE  /\ Linked(<<b>> \o s)' /\ On(<<b>> \o s) = On(s) \cup {b}
         /\ <<b>> \o s \in Seq(Blocks)
<1> DEFINE r == <<b>> \o s
<1>1. /\ r \in Seq(Blocks) /\ Len(s) \in Nat /\ Len(r) = Len(s) + 1 /\ r # <<>> /\ r[1] = b
      /\ \A i \in 1 .. Len(s) : i + 1 \in 1 .. Len(r) /\ r[i + 1] = s[i] /\ s[i] \in On(s)
      /\ \A i \in 2 .. Len(r) : i - 1 \in 1 .. Len(s) /\ r[i] = s[i - 1]
  BY DEF On
<1>2. s = <<>> <=> Len(s) = 0
  OBVIOUS
<1> HIDE DEF r
<1>3. \A i \in 1 .. Len(r) : i = 1 \/ i \in 2 .. Len(r)
  BY <1>1
<1>4. On(r) = On(s) \cup {b}
  <2>1. \A i \in 1 .. Len(r) : r[i] \in On(s) \cup {b}
    BY <1>1, <1>3
  <2>2. 1 \in 1 .. Len(r)
    BY <1>1
  <2>3. b \in On(r) /\ \A i \in 1 .. Len(s) : s[i] \in On(r)
    BY <1>1, <2>2 DEF On
  <2>4. On(r) \subseteq On(s) \cup {b}
    BY <2>1 DEF On
  <2>5. On(s) \subseteq On(r)
    BY <2>3 DEF On
  <2>6. QED BY <2>3, <2>4, <2>5
<1>5. \A i, j \in 1 .. Len(r) : r[i] = r[j] => i = j
  <2> SUFFICES ASSUME NEW i \in 1 .. Len(r), NEW j \in 1 .. Len(r), r[i] = r[j] PROVE i = j
    OBVIOUS
  <2>1. CASE i = 1 \/ j = 1
    BY <1>1, <1>3, <2>1
  <2>2. CASE i # 1 /\ j # 1
    <3>1. s[i - 1] = s[j - 1] /\ i - 1 \in 1 .. Len(s) /\ j - 1 \in 1 .. Len(s)
      BY <1>1, <1>3, <2>2
    <3>2. i - 1 = j - 1
      BY <3>1 DEF Linked
    <3>3. QED BY <3>2
  <2>3. QED BY <2>1, <2>2
<1>6. ASSUME NEW i \in 1 .. Len(r) PROVE next[r[i]] = IF i = Len(r) THEN Null ELSE r[i + 1]
  <2>1. CASE i = 1
    <3>1. CASE Len(s) = 0
      BY <1>1, <1>2, <2>1, <3>1 DEF Linked
    <3>2. CASE Len(s) # 0
      <4>1. head = s[1] /\ 1 \in 1 .. Len(s)
        BY <1>1, <1>2, <3>2 DEF Linked
      <4>2. r[2] = s[1]
        BY <1>1, <4>1
      <4>3. QED BY <1>1, <2>1, <3>2, <4>1, <4>2
    <3>3. QED BY <3>1, <3>2
  <2>2. CASE i # 1
    <3>1. i - 1 \in 1 .. Len(s) /\ r[i] = s[i - 1]
      BY <1>1, <1>3, <2>2
    <3>2. next[s[i - 1]] = IF i - 1 = Len(s) THEN Null ELSE s[(i - 1) + 1]
      BY <3>1 DEF Linked
    <3>3. i - 1 # Len(s) => i \in 1 .. Len(s) /\ r[i + 1] = s[i]
      BY <1>1, <3>1
    <3>4. QED BY <1>1, <3>1, <3>2, <3>3
  <2>3. QED BY <2>1, <2>2
<1>7. Linked(r)'
  BY <1>1, <1>5, <1>6 DEF Linked
<1>8. QED BY <1>1, <1>4, <1>7 DEF r

\* A list on which no link and not the head changes.
LEMMA Untouched ==
  ASSUME NEW s \in Seq(Blocks), Linked(s), head' = head, \A b \in On(s) : next'[b] = next[b]
  PROVE  Linked(s)'
BY DEF Linked, On
-----------------------------------------------------------------------------
\* A thread takes the first block, whose link is the one it read.
LEMMA HandedOver ==
  ASSUME TypeInv, NEW s \in Seq(Blocks), ListInv(s),
         NEW h \in Threads, AllocCas(h), head = cur[h], head' = nxt[h], nxt[h] = next[cur[h]],
         held' = [held EXCEPT ![h] = @ \cup {cur[h]}], pc' = [pc EXCEPT ![h] = "idle"],
         cur' = [cur EXCEPT ![h] = Null], nxt' = [nxt EXCEPT ![h] = Null]
  PROVE  ListInv(Tail(s))' /\ Tail(s) \in Seq(Blocks)
<1> DEFINE r == Tail(s)
           b == cur[h]
<1>1. /\ pc[h] = "cas" /\ b \in Blocks /\ b # Null
      /\ nxt[h] = next[b] /\ next' = next /\ unborn' = unborn
  BY FreeListAssumption DEF AllocCas, TypeInv
<1>2. Linked(r)' /\ On(r) = On(s) \ {b} /\ r \in Seq(Blocks) /\ b \in On(s)
  <2>1. Linked(s)
    BY DEF ListInv
  <2>2. Linked(r)' /\ On(r) = On(s) \ {b} /\ b \in On(s)
    BY <1>1, <2>1, Popped
  <2>3. s # <<>>
    BY <2>2 DEF On
  <2>4. QED BY <2>2, <2>3
<1> HIDE DEF r
<1>3. \A g \in Threads \ {h} : pc'[g] = pc[g] /\ cur'[g] = cur[g] /\ held'[g] = held[g]
  BY DEF TypeInv
<1>4. pc'[h] = "idle" /\ held'[h] = held[h] \cup {b}
  BY DEF TypeInv
<1>5. \A x : InUse(x)' <=> InUse(x) \/ x = b
  BY <1>3, <1>4 DEF InUse
<1>6. \A g \in Threads : \A x : Linking(g, x)' <=> Linking(g, x)
  BY <1>1, <1>3, <1>4 DEF Linking
<1>7. Somewhere(r)'
  BY <1>1, <1>2, <1>5, <1>6 DEF ListInv, Somewhere, On
<1>8. Apart(r)'
  <2>1. Apart(s)
    BY DEF ListInv
  <2>2. On(r)' = On(s) \ {b}
    BY <1>2 DEF On
  <2>3. \A x \in On(r)' : x \notin unborn' /\ ~InUse(x)' /\ \A g \in Threads : ~Linking(g, x)'
    BY <1>1, <1>5, <1>6, <2>1, <2>2 DEF Apart
  <2>4. \A x \in unborn' : ~InUse(x)' /\ \A g \in Threads : ~Linking(g, x)'
    BY <1>1, <1>2, <1>5, <1>6, <2>1 DEF Apart
  <2>5. \A g \in Threads : pc'[g] = "link" => cur'[g] \in Blocks /\ ~InUse(cur[g])'
    BY <1>1, <1>2, <1>3, <1>4, <1>5, <2>1 DEF Apart, Linking
  <2>6. \A g, k \in Threads : pc'[g] = "link" /\ Linking(k, cur[g])' => g = k
    BY <1>3, <1>4, <2>1 DEF Apart, Linking
  <2>7. \A g, k \in Threads, x \in Blocks : x \in held'[g] /\ x \in held'[k] => g = k
    BY <1>2, <1>3, <1>4, <2>1 DEF Apart, InUse
  <2>8. QED BY <2>3, <2>4, <2>5, <2>6, <2>7 DEF Apart
<1>9. QED BY <1>2, <1>7, <1>8 DEF ListInv, r

\* A block from the system allocator goes to the caller.
LEMMA NewHeld ==
  ASSUME TypeInv, NEW s \in Seq(Blocks), ListInv(s),
         NEW h \in Threads, AllocNew(h)
  PROVE  ListInv(s)'
<1>1. PICK b \in unborn : unborn' = unborn \ {b} /\ held' = [held EXCEPT ![h] = @ \cup {b}]
  BY DEF AllocNew
<1>2. /\ b \in Blocks /\ pc[h] = "new" /\ pc' = [pc EXCEPT ![h] = "idle"]
      /\ UNCHANGED <<head, next, cur, nxt>>
  BY DEF AllocNew, TypeInv
<1>3. Apart(s) /\ Linked(s) /\ Somewhere(s)
  BY DEF ListInv
<1>4. \A g \in Threads \ {h} : pc'[g] = pc[g] /\ held'[g] = held[g]
  BY <1>1, <1>2 DEF TypeInv
<1>5. pc'[h] = "idle" /\ held'[h] = held[h] \cup {b}
  BY <1>1, <1>2 DEF TypeInv
<1>6. \A x : InUse(x)' <=> InUse(x) \/ x = b
  BY <1>4, <1>5 DEF InUse
<1>7. \A g \in Threads : \A x : Linking(g, x)' <=> Linking(g, x)
  BY <1>2, <1>4, <1>5 DEF Linking
<1>8. Linked(s)'
  BY <1>2, <1>3, Untouched
<1>9. Somewhere(s)'
  BY <1>1, <1>3, <1>6, <1>7 DEF Somewhere, On
<1>10. Apart(s)'
  <2>1. \A x \in On(s) : x \notin unborn' /\ ~InUse(x)' /\ \A g \in Threads : ~Linking(g, x)'
    BY <1>1, <1>3, <1>6, <1>7 DEF Apart
  <2>2. \A x \in unborn' : ~InUse(x)' /\ \A g \in Threads : ~Linking(g, x)'
    BY <1>1, <1>3, <1>6, <1>7 DEF Apart
  <2>3. \A g \in Threads : pc'[g] = "link" => cur'[g] \in Blocks /\ ~InUse(cur[g])'
    <3>1. \A g \in Threads : pc[g] = "link" => cur[g] # b
      BY <1>1, <1>3 DEF Apart, Linking
    <3>2. QED BY <1>2, <1>3, <1>4, <1>5, <1>6, <3>1 DEF Apart
  <2>4. \A g, k \in Threads : pc'[g] = "link" /\ Linking(k, cur[g])' => g = k
    BY <1>2, <1>3, <1>4, <1>5 DEF Apart, Linking
  <2>5. \A g, k \in Threads, x \in Blocks : x \in held'[g] /\ x \in held'[k] => g = k
    BY <1>1, <1>3, <1>4, <1>5 DEF Apart, InUse
  <2>6. QED BY <2>1, <2>2, <2>3, <2>4, <2>5 DEF Apart, On
<1>11. QED BY <1>8, <1>9, <1>10 DEF ListInv

\* A caller gives a block up, which is nowhere else.
LEMMA GivenUp ==
  ASSUME TypeInv, NEW s \in Seq(Blocks), ListInv(s),
         NEW h \in Threads, NEW b \in Blocks, FreeLoad(h, b)
  PROVE  ListInv(s)'
<1>1. PICK k \in Threads : b \in held[k] /\ held' = [held EXCEPT ![k] = @ \ {b}]
  BY DEF FreeLoad
<1>2. /\ pc[h] = "idle" /\ pc' = [pc EXCEPT ![h] = "link"] /\ cur' = [cur EXCEPT ![h] = b]
      /\ next' = [next EXCEPT ![b] = head] /\ UNCHANGED <<head, unborn, nxt>>
  BY DEF FreeLoad
<1>3. Apart(s) /\ Linked(s) /\ Somewhere(s)
  BY DEF ListInv
<1>4. b \notin On(s) /\ b \notin unborn /\ InUse(b)
  BY <1>1, <1>3 DEF Apart, InUse
<1>5. \A g \in Threads \ {h} : pc'[g] = pc[g] /\ cur'[g] = cur[g]
  BY <1>2 DEF TypeInv
<1>6. pc'[h] = "link" /\ cur'[h] = b /\ held'[k] = held[k] \ {b}
  BY <1>1, <1>2 DEF TypeInv
<1>7. \A g \in Threads \ {k} : held'[g] = held[g] /\ b \notin held[g]
  BY <1>1, <1>3 DEF TypeInv, Apart
<1>8. \A x : InUse(x)' <=> InUse(x) /\ x # b
  BY <1>6, <1>7 DEF InUse
<1>9. \A g \in Threads : \A x : Linking(g, x)' <=> Linking(g, x) \/ (g = h /\ x = b)
  BY <1>2, <1>5, <1>6 DEF Linking
<1>10. \A x \in Blocks \ {b} : next'[x] = next[x]
  BY <1>2 DEF TypeInv
<1>11. Linked(s)'
  <2>1. \A x \in On(s) : x \in Blocks \ {b}
    BY <1>4 DEF On
  <2>2. QED BY <1>2, <1>3, <1>10, <2>1, Untouched
<1>12. Somewhere(s)'
  BY <1>2, <1>3, <1>8, <1>9 DEF Somewhere, On
<1>13. Apart(s)'
  <2>1. \A x \in On(s) : x \notin unborn' /\ ~InUse(x)' /\ \A g \in Threads : ~Linking(g, x)'
    BY <1>2, <1>3, <1>4, <1>8, <1>9 DEF Apart
  <2>2. \A x \in unborn' : ~InUse(x)' /\ \A g \in Threads : ~Linking(g, x)'
    BY <1>2, <1>3, <1>4, <1>8, <1>9 DEF Apart
  <2>3. \A g \in Threads : pc'[g] = "link" => cur'[g] \in Blocks /\ ~InUse(cur[g])'
    BY <1>3, <1>5, <1>6, <1>8 DEF Apart
  <2>4. \A g \in Threads : pc[g] = "link" => cur[g] # b
    BY <1>3, <1>4 DEF Apart
  <2>5. \A g, j \in Threads : pc'[g] = "link" /\ Linking(j, cur[g])' => g = j
    BY <1>3, <1>5, <1>6, <1>9, <2>4 DEF Apart, Linking
  <2>6. \A g, j \in Threads, x \in Blocks : x \in held'[g] /\ x \in held'[j] => g = j
    BY <1>3, <1>6, <1>7 DEF Apart
  <2>7. QED BY <2>1, <2>2, <2>3, <2>5, <2>6 DEF Apart, On
<1>14. QED BY <1>11, <1>12, <1>13 DEF ListInv

\* The block that a thread links becomes the first.
LEMMA PutFirst ==
  ASSUME TypeInv, NEW s \in Seq(Blocks), ListInv(s),
         NEW h \in Threads, NEW b, cur[h] = b, FreeLink(h), head = next[b], head' = b, next' = next,
         pc' = [pc EXCEPT ![h] = "idle"], cur' = [cur EXCEPT ![h] = Null]
  PROVE  \E r \in Seq(Blocks) : ListInv(r)'
<1> DEFINE r == <<b>> \o s
<1>1. /\ pc[h] = "link" /\ b \in Blocks /\ UNCHANGED <<unborn, held, nxt>>
      /\ Apart(s) /\ Linked(s) /\ Somewhere(s)
  BY DEF FreeLink, TypeInv, ListInv
<1>2. Linking(h, b) /\ b \notin On(s) /\ b \notin unborn /\ ~InUse(b)
  BY <1>1 DEF Apart, Linking
<1>3. r \in Seq(Blocks) /\ Linked(r)' /\ On(r) = On(s) \cup {b}
  BY <1>1, <1>2, Pushed
<1> HIDE DEF r
<1>4. \A g \in Threads \ {h} : pc'[g] = pc[g] /\ cur'[g] = cur[g] /\ ~Linking(g, b)
  BY <1>1, <1>2 DEF TypeInv, Apart, Linking
<1>5. pc'[h] = "idle"
  BY DEF TypeInv
<1>6. \A x : InUse(x)' <=> InUse(x)
  BY <1>1 DEF InUse
<1>7. \A g \in Threads : \A x : Linking(g, x)' <=> Linking(g, x) /\ x # b
  BY <1>2, <1>4, <1>5 DEF Linking
<1>8. On(r)' = On(s) \cup {b}
  BY <1>3 DEF On
<1>9. Somewhere(r)'
  <2>1. \A x \in Blocks \ {b} :
            x \in unborn \/ x \in On(s) \/ InUse(x) \/ \E g \in Threads : Linking(g, x)
    BY <1>1 DEF Somewhere
  <2>2. \A x \in Blocks : x \in unborn' \/ x \in On(r)' \/ InUse(x)' \/ \E g \in Threads : Linking(g, x)'
    BY <1>1, <1>6, <1>7, <1>8, <2>1
  <2>3. QED BY <2>2 DEF Somewhere
<1>10. Apart(r)'
  <2>1. \A x \in On(r)' : x \notin unborn' /\ ~InUse(x)' /\ \A g \in Threads : ~Linking(g, x)'
    BY <1>1, <1>2, <1>6, <1>7, <1>8 DEF Apart
  <2>2. \A x \in unborn' : ~InUse(x)' /\ \A g \in Threads : ~Linking(g, x)'
    BY <1>1, <1>6, <1>7 DEF Apart
  <2>3. \A g \in Threads : pc'[g] = "link" => cur'[g] \in Blocks /\ ~InUse(cur[g])'
    BY <1>1, <1>4, <1>5, <1>6 DEF Apart
  <2>4. \A g, j \in Threads : pc'[g] = "link" /\ Linking(j, cur[g])' => g = j
    BY <1>1, <1>4, <1>5 DEF Apart, Linking
  <2>5. \A g, j \in Threads, x \in Blocks : x \in held'[g] /\ x \in held'[j] => g = j
    BY <1>1 DEF Apart
  <2>6. QED BY <2>1, <2>2, <2>3, <2>4, <2>5 DEF Apart
<1>11. QED BY <1>3, <1>9, <1>10 DEF ListInv

\* An allocating thread looks, or a compare-exchange fails: a block that is
\* being linked may get another link, and no other block.
LEMMA Looked ==
  ASSUME TypeInv, NEW s \in Seq(Blocks), ListInv(s),
         UNCHANGED <<head, unborn, held>>,
         NEW h \in Threads, pc'[h] = "link" <=> pc[h] = "link", pc[h] = "link" => cur'[h] = cur[h],
         \A g \in Threads \ {h} : pc'[g] = pc[g] /\ cur'[g] = cur[g],
         \A b \in On(s) : next'[b] = next[b]
  PROVE  ListInv(s)'
<1>1. Apart(s) /\ Linked(s) /\ Somewhere(s)
  BY DEF ListInv
<1>2. \A x : InUse(x)' <=> InUse(x)
  BY DEF InUse
<1>3. \A g \in Threads : \A x : Linking(g, x)' <=> Linking(g, x)
  BY DEF Linking
<1>4. Linked(s)'
  BY <1>1, Untouched
<1>5. Somewhere(s)'
  BY <1>1, <1>2, <1>3 DEF Somewhere, On
<1>6. Apart(s)'
  <2>1. \A g \in Threads : pc'[g] = "link" <=> pc[g] = "link" /\ cur'[g] = cur[g]
    OBVIOUS
  <2>2. QED BY <1>1, <1>2, <1>3, <2>1 DEF Apart, On
<1>7. QED BY <1>4, <1>5, <1>6 DEF ListInv

\* A step leaves some list linked.
LEMMA StepList ==
  ASSUME FreeInv, Next, ~aba' PROVE \E r \in Seq(Blocks) : ListInv(r)'
<1>1. ~aba
  BY DEF Next, FreeInv, TypeInv, AllocLoad, AllocRead, AllocCas, AllocNew, FreeLoad, FreeLink
<1>13. PICK s \in Seq(Blocks) : ListInv(s)
  BY <1>1 DEF FreeInv
<1>2. PICK h \in Threads :
        \/ AllocLoad(h) \/ AllocRead(h) \/ AllocCas(h) \/ AllocNew(h)
        \/ (\E b \in Blocks : FreeLoad(h, b)) \/ FreeLink(h)
  BY DEF Next
<1>3. TypeInv /\ Linked(s) /\ Apart(s)
  BY <1>13 DEF FreeInv, ListInv
<1>5. ASSUME Try(h, head), pc[h] # "link", UNCHANGED <<head, next, unborn, held>>
      PROVE  ListInv(s)'
  <2>1. \A g \in Threads \ {h} : pc'[g] = pc[g] /\ cur'[g] = cur[g]
    BY <1>3, <1>5 DEF Try, TypeInv
  <2>2. pc'[h] # "link"
    BY <1>3, <1>5 DEF Try, TypeInv
  <2>3. QED BY <1>3, <1>5, <1>13, <2>1, <2>2, Looked
<1>6. CASE AllocLoad(h)
  BY <1>5, <1>6, <1>13 DEF AllocLoad
<1>7. CASE AllocRead(h)
  <2>1. pc[h] = "read" /\ pc' = [pc EXCEPT ![h] = "cas"] /\ UNCHANGED <<head, next, unborn, held, cur>>
    BY <1>7 DEF AllocRead
  <2>2. pc'[h] = "cas" /\ \A g \in Threads \ {h} : pc'[g] = pc[g]
    BY <1>3, <2>1 DEF TypeInv
  <2>3. QED BY <1>3, <1>13, <2>1, <2>2, Looked
<1>8. CASE AllocCas(h)
  <2>1. pc[h] = "cas" /\ UNCHANGED <<next, unborn>>
    BY <1>8 DEF AllocCas
  <2>2. CASE Try(h, head) /\ UNCHANGED <<head, held, aba>>
    BY <1>5, <1>13, <2>1, <2>2
  <2>3. CASE ~(Try(h, head) /\ UNCHANGED <<head, held, aba>>)
    <3>1. nxt[h] = next[cur[h]]
      BY <1>8, <2>3 DEF AllocCas
    <3>2. ListInv(Tail(s))' /\ Tail(s) \in Seq(Blocks)
      BY <1>3, <1>8, <1>13, <2>3, <3>1, HandedOver DEF AllocCas
    <3>3. QED BY <3>2
  <2>4. QED BY <2>2, <2>3
<1>9. CASE AllocNew(h)
  BY <1>3, <1>9, <1>13, NewHeld
<1>10. CASE \E b \in Blocks : FreeLoad(h, b)
  BY <1>3, <1>10, <1>13, GivenUp
<1>11. CASE FreeLink(h)
  <2>1. PICK b : b = cur[h]
    OBVIOUS
  <2>2. CASE next' = [next EXCEPT ![cur[h]] = head] /\ UNCHANGED <<head, pc, cur>>
    <3>1. pc[h] = "link" /\ UNCHANGED <<unborn, held, nxt>> /\ b \notin On(s)
      BY <1>3, <1>11, <2>1 DEF FreeLink, Apart, Linking
    <3>2. \A x \in On(s) : next'[x] = next[x]
      BY <1>3, <2>1, <2>2, <3>1 DEF TypeInv, On
    <3>3. QED BY <1>3, <1>13, <2>2, <3>1, <3>2, Looked
  <2>3. CASE ~(next' = [next EXCEPT ![cur[h]] = head] /\ UNCHANGED <<head, pc, cur>>)
    <3>1. /\ head = next[b] /\ head' = b /\ next' = next
          /\ pc' = [pc EXCEPT ![h] = "idle"] /\ cur' = [cur EXCEPT ![h] = Null]
      BY <1>11, <2>1, <2>3 DEF FreeLink
    <3>2. QED BY <1>3, <1>11, <1>13, <2>1, <3>1, PutFirst
  <2>4. QED BY <2>2, <2>3
<1>12. QED BY <1>2, <1>6, <1>7, <1>13, <1>8, <1>9, <1>10, <1>11

\* A step keeps the types.
LEMMA StepType == ASSUME TypeInv, Next PROVE TypeInv'
<1>1. PICK h \in Threads :
        \/ AllocLoad(h) \/ AllocRead(h) \/ AllocCas(h) \/ AllocNew(h)
        \/ (\E b \in Blocks : FreeLoad(h, b)) \/ FreeLink(h)
  BY DEF Next
<1> USE DEF TypeInv, Maybe
<1>2. CASE AllocLoad(h)
  BY <1>2 DEF AllocLoad, Try
<1>3. CASE AllocRead(h)
  <2>1. PICK b \in Maybe : nxt' = [nxt EXCEPT ![h] = b]
    <3>1. CASE InUse(cur[h])
      BY <1>3, <3>1 DEF AllocRead
    <3>2. CASE ~InUse(cur[h])
      BY <1>3, <3>2 DEF AllocRead
    <3>3. QED BY <3>1, <3>2
  <2>2. QED BY <1>3, <2>1 DEF AllocRead
<1>4. CASE AllocCas(h)
  <2>1. aba' \in BOOLEAN
    BY <1>4 DEF AllocCas
  <2>2. /\ head' \in Maybe /\ next' = next /\ unborn' = unborn /\ nxt' \in [Threads -> Maybe]
        /\ held' \in [Threads -> SUBSET Blocks]
    BY <1>4 DEF AllocCas, Try
  <2>3. /\ pc' \in [Threads -> {"idle", "read", "cas", "new", "link"}]
        /\ cur' \in [Threads -> Maybe]
        /\ \A g \in Threads : pc'[g] \in {"read", "cas", "link"} => cur'[g] \in Blocks
    BY <1>4 DEF AllocCas, Try
  <2>4. QED BY <2>1, <2>2, <2>3
<1>5. CASE AllocNew(h)
  BY <1>5 DEF AllocNew
<1>6. ASSUME NEW b \in Blocks, FreeLoad(h, b) PROVE TypeInv'
  BY <1>6 DEF FreeLoad
<1>7. CASE FreeLink(h)
  BY <1>7 DEF FreeLink
<1>8. QED BY <1>1, <1>2, <1>3, <1>4, <1>5, <1>6, <1>7

LEMMA SpecFree == Spec => []FreeInv
<1>1. ASSUME FreeInv, [Next]_vars PROVE FreeInv'
  <2>1. CASE Next
    BY <1>1, <2>1, StepType, StepList DEF FreeInv
  <2>2. CASE UNCHANGED vars
    <3>1. TypeInv'
      BY <1>1, <2>2 DEF FreeInv, vars, local, TypeInv
    <3>2. \A s \in Seq(Blocks) : ListInv(s) => ListInv(s)'
      BY <2>2 DEF vars, local, ListInv, Linked, Somewhere, Apart, InUse, Linking, On
    <3>3. QED BY <1>1, <2>2, <3>1, <3>2 DEF FreeInv, vars
  <2>3. QED BY <1>1, <2>1, <2>2
<1>2. QED BY InitFree, <1>1, PTL DEF Spec
-----------------------------------------------------------------------------
(* What Reached is.  Induction over the natural numbers is the existence   *)
(* of a least counterexample, which the library has for finite sets.       *)

\* A set of natural numbers has a least member.
LEMMA LeastIn == ASSUME NEW S, S \subseteq Nat, S # {} PROVE \E x \in S : \A y \in S : x <= y
<1> DEFINE T == {0 .. x : x \in S}
           R == StrictSubsetOrdering(Nat)
<1>1. T \subseteq FiniteSubsetsOf(Nat) /\ T # {}
  <2>1. ASSUME NEW x \in S PROVE 0 .. x \in FiniteSubsetsOf(Nat)
    <3>1. IsFiniteSet(0 .. x) /\ 0 .. x \subseteq Nat
      BY FS_Interval
    <3>2. QED BY <3>1 DEF FiniteSubsetsOf
  <2>2. QED BY <2>1
<1>2. PICK m \in T : \A k \in T : <<k, m>> \notin R
  <2> HIDE DEF T
  <2>1. QED BY <1>1, FS_StrictSubsetOrderingWellFounded, WFMin
<1>3. PICK x \in S : m = 0 .. x
  OBVIOUS
<1>4. ASSUME NEW y \in S, y < x PROVE FALSE
  <2>1. 0 .. y \in T /\ 0 .. y \subseteq 0 .. x /\ x \in 0 .. x /\ x \notin 0 .. y
    BY <1>4
  <2>2. 0 .. y \in SUBSET Nat /\ 0 .. x \in SUBSET Nat
    OBVIOUS
  <2>3. <<0 .. y, 0 .. x>> \in R
    BY <2>1, <2>2 DEF StrictSubsetOrdering
  <2>4. QED BY <1>2, <1>3, <2>1, <2>3
<1>5. QED BY <1>4

\* The list is no longer than there are blocks.
LEMMA ListFits == ASSUME NEW s \in Seq(Blocks), Linked(s)
                  PROVE  Cardinality(Blocks) \in Nat /\ Len(s) <= Cardinality(Blocks)
<1>1. IsFiniteSet(Blocks) /\ Cardinality(Blocks) \in Nat
  BY FreeListAssumption, FS_CardinalityType
<1>2. s \in Injection(1 .. Len(s), Blocks)
  BY DEF Linked, Injection, IsInjective
<1>3. Cardinality(1 .. Len(s)) <= Cardinality(Blocks)
  BY <1>1, <1>2, FS_Injection
<1>4. Cardinality(1 .. Len(s)) = Len(s)
  <2>1. Len(s) \in Nat
    OBVIOUS
  <2>2. QED BY <2>1, FS_Interval
<1>5. QED BY <1>1, <1>3, <1>4

\* The blocks reached from the head are those on the list.
LEMMA ReachedIsList == ASSUME NEW s \in Seq(Blocks), Linked(s) PROVE Reached = On(s)
<1> DEFINE N == Cardinality(Blocks)
           First(k) == {s[i] : i \in {j \in 1 .. Len(s) : j <= k + 1}}
           Step(f) == [k \in 0 .. N |-> IF k = 0 THEN {head} \ {Null}
                         ELSE f[k - 1] \cup ({next[b] : b \in f[k - 1]} \ {Null})]
           G == [k \in 0 .. N |-> First(k)]
           R == CHOOSE f : f = Step(f)
<1>1. N \in Nat /\ Len(s) \in Nat /\ Len(s) <= N /\ \A i \in 1 .. Len(s) : s[i] \in Blocks \ {Null}
  BY ListFits, FreeListAssumption
<1>2. First(0) = {head} \ {Null}
  <2>1. CASE s = <<>>
    BY <2>1 DEF Linked
  <2>2. CASE s # <<>>
    <3>1. 1 \in 1 .. Len(s) /\ head = s[1] /\ \A j \in 1 .. Len(s) : j <= 0 + 1 => j = 1
      BY <1>1, <2>2 DEF Linked
    <3>2. First(0) = {s[1]}
      BY <3>1
    <3>3. QED BY <1>1, <3>1, <3>2
  <2>3. QED BY <2>1, <2>2
<1>3. ASSUME NEW k \in 1 .. N
      PROVE  First(k) = First(k - 1) \cup ({next[b] : b \in First(k - 1)} \ {Null})
  <2> DEFINE L == First(k - 1) \cup ({next[b] : b \in First(k - 1)} \ {Null})
  <2>1. \A j \in 1 .. Len(s) : next[s[j]] = IF j = Len(s) THEN Null ELSE s[j + 1]
    BY DEF Linked
  <2>2. ASSUME NEW i \in 1 .. Len(s), i <= k + 1 PROVE s[i] \in L
    <3>1. CASE i <= k
      BY <3>1
    <3>2. CASE i = k + 1
      <4>1. i - 1 \in 1 .. Len(s) /\ i - 1 # Len(s) /\ (i - 1) + 1 = i /\ i - 1 <= (k - 1) + 1
        BY <1>1, <3>2
      <4>2. next[s[i - 1]] = s[i] /\ s[i - 1] \in First(k - 1)
        BY <2>1, <4>1
      <4>3. QED BY <1>1, <4>2
    <3>3. QED BY <2>2, <3>1, <3>2
  <2>3. ASSUME NEW x \in L PROVE x \in First(k)
    <3>1. CASE x \in First(k - 1)
      BY <3>1
    <3>2. CASE x \notin First(k - 1)
      <4>1. PICK j \in 1 .. Len(s) : j <= (k - 1) + 1 /\ x = next[s[j]] /\ x # Null
        BY <3>2
      <4>2. j + 1 \in 1 .. Len(s) /\ x = s[j + 1] /\ j + 1 <= k + 1
        BY <1>1, <2>1, <4>1
      <4>3. QED BY <4>2
    <3>3. QED BY <3>1, <3>2
  <2>4. First(k) \subseteq L
    BY <2>2
  <2>5. QED BY <2>3, <2>4
<1> HIDE DEF First
<1>4. G = Step(G)
  <2>1. ASSUME NEW k \in 0 .. N PROVE G[k] = Step(G)[k]
    <3>1. CASE k = 0
      BY <1>1, <1>2, <3>1
    <3>2. CASE k # 0
      <4>1. k \in 1 .. N /\ k - 1 \in 0 .. N
        BY <1>1, <3>2
      <4>2. G[k - 1] = First(k - 1)
        BY <4>1
      <4>3. QED BY <1>3, <3>2, <4>1, <4>2
    <3>3. QED BY <3>1, <3>2
  <2>2. QED BY <2>1
<1>5. R = Step(R)
  <2> HIDE DEF G, Step
  <2>1. QED BY <1>4
<1> DEFINE Bad == {k \in 0 .. N : R[k] # First(k)}
<1> HIDE DEF R
<1>6. \A k \in 0 .. N : R[k] = Step(R)[k]
  <2> HIDE DEF Step
  <2>1. QED BY <1>5
<1>7. ASSUME Bad # {} PROVE FALSE
  <2>1. PICK k \in Bad : \A j \in Bad : k <= j
    <3>1. Bad \subseteq Nat
      OBVIOUS
    <3> HIDE DEF Bad
    <3>2. QED BY <1>7, <3>1, LeastIn
  <2>2. CASE k = 0
    BY <1>1, <1>2, <1>6, <2>1, <2>2
  <2>3. CASE k # 0
    <3>1. k \in 1 .. N /\ k - 1 \in 0 .. N /\ ~(k <= k - 1)
      BY <1>1, <2>1, <2>3
    <3>2. R[k - 1] = First(k - 1)
      BY <2>1, <3>1
    <3>3. R[k] = R[k - 1] \cup ({next[b] : b \in R[k - 1]} \ {Null})
      BY <1>6, <2>3, <3>1
    <3>4. R[k] = First(k)
      BY <1>3, <3>1, <3>2, <3>3
    <3>5. QED BY <2>1, <3>4
  <2>4. QED BY <2>2, <2>3
<1>8. R[N] = First(N)
  BY <1>1, <1>7
<1>9. First(N) = On(s)
  BY <1>1 DEF First, On
<1>10. Reached = R[N]
  BY DEF Reached, R
<1>11. QED BY <1>8, <1>9, <1>10

\* A set with one member.
LEMMA OneOrNone ==
  ASSUME NEW S, NEW x \in S, \A y \in S : y = x PROVE Cardinality(S) = 1
<1>1. S = {x}
  OBVIOUS
<1>2. QED BY <1>1, FS_Singleton

LEMMA EachInOnePlace == FreeInv => aba \/ OnePlace
<1> SUFFICES ASSUME FreeInv, ~aba, NEW b \in Blocks PROVE Places(b) = 1
  BY DEF OnePlace
<1>1. PICK s \in Seq(Blocks) : Linked(s) /\ Somewhere(s) /\ Apart(s)
  BY DEF FreeInv, ListInv
<1>2. Reached = On(s)
  BY <1>1, ReachedIsList
<1> DEFINE H == {h \in Threads : b \in held[h]}
           K == {h \in Threads : pc[h] = "link" /\ cur[h] = b}
<1>3. IF InUse(b) THEN Cardinality(H) = 1 ELSE Cardinality(H) = 0
  <2>1. ASSUME InUse(b) PROVE Cardinality(H) = 1
    <3>1. PICK h \in Threads : b \in held[h]
      BY <2>1 DEF InUse
    <3>2. h \in H /\ \A g \in H : g = h
      BY <1>1, <3>1 DEF Apart
    <3> HIDE DEF H
    <3>3. QED BY <3>2, OneOrNone
  <2>2. ASSUME ~InUse(b) PROVE H = {}
    BY <2>2 DEF InUse
  <2>3. QED BY <2>1, <2>2, FS_EmptySet
<1>4. IF \E h \in Threads : Linking(h, b) THEN Cardinality(K) = 1 ELSE Cardinality(K) = 0
  <2>1. ASSUME NEW h \in Threads, Linking(h, b) PROVE Cardinality(K) = 1
    <3>1. h \in K /\ \A g \in K : g = h
      BY <1>1, <2>1 DEF Apart, Linking
    <3> HIDE DEF K
    <3>2. QED BY <3>1, OneOrNone
  <2>2. ASSUME \A h \in Threads : ~Linking(h, b) PROVE K = {}
    BY <2>2 DEF Linking
  <2>3. QED BY <2>1, <2>2, FS_EmptySet
<1>5. /\ b \in unborn => ~InUse(b) /\ b \notin On(s) /\ \A h \in Threads : ~Linking(h, b)
      /\ b \in On(s) => ~InUse(b) /\ \A h \in Threads : ~Linking(h, b)
      /\ InUse(b) => \A h \in Threads : ~Linking(h, b)
  BY <1>1 DEF Apart, Linking
<1>6. b \in unborn \/ b \in On(s) \/ InUse(b) \/ \E h \in Threads : Linking(h, b)
  BY <1>1 DEF Somewhere
<1>7. Places(b) = (IF b \in unborn THEN 1 ELSE 0) + (IF b \in On(s) THEN 1 ELSE 0)
                  + Cardinality(H) + Cardinality(K)
  BY <1>2 DEF Places
<1> HIDE DEF H, K
<1>8. QED BY <1>3, <1>4, <1>5, <1>6, <1>7

LEMMA LinksApart == FreeInv => aba \/ NoSharedLink
<1> SUFFICES ASSUME FreeInv, ~aba, NEW b \in Reached, NEW c \in Reached
             PROVE  next[b] # head /\ (next[b] = next[c] /\ next[b] # Null => b = c)
  BY DEF NoSharedLink
<1>1. PICK s \in Seq(Blocks) : Linked(s)
  BY DEF FreeInv, ListInv
<1>2. PICK i \in 1 .. Len(s) : b = s[i]
  BY <1>1, ReachedIsList DEF On
<1>3. PICK j \in 1 .. Len(s) : c = s[j]
  BY <1>1, ReachedIsList DEF On
<1>4. /\ Len(s) \in Nat /\ head = s[1] /\ 1 \in 1 .. Len(s) /\ s # <<>>
      /\ \A k \in 1 .. Len(s) : s[k] \in Blocks /\ s[k] # Null
  BY <1>1, <1>2, FreeListAssumption DEF Linked
<1>5. /\ next[b] = IF i = Len(s) THEN Null ELSE s[i + 1]
      /\ next[c] = IF j = Len(s) THEN Null ELSE s[j + 1]
  BY <1>1, <1>2, <1>3 DEF Linked
<1>6. /\ i # Len(s) => i + 1 \in 1 .. Len(s) /\ i + 1 # 1
      /\ j # Len(s) => j + 1 \in 1 .. Len(s)
  BY <1>4
<1>7. \A k, m \in 1 .. Len(s) : s[k] = s[m] => k = m
  BY <1>1 DEF Linked
<1>8. next[b] # head
  <2>1. CASE i = Len(s)
    BY <1>4, <1>5, <2>1
  <2>2. CASE i # Len(s)
    BY <1>4, <1>5, <1>6, <1>7, <2>2
  <2>3. QED BY <2>1, <2>2
<1>9. ASSUME next[b] = next[c], next[b] # Null PROVE b = c
  <2>1. i # Len(s) /\ j # Len(s) /\ s[i + 1] = s[j + 1]
    BY <1>5, <1>9
  <2>2. i + 1 = j + 1
    BY <1>6, <1>7, <2>1
  <2>3. QED BY <1>2, <1>3, <2>2
<1>10. QED BY <1>8, <1>9

\* However many threads allocate and free, no block is lost and none is with two
\* callers until a compare-exchange of freelistAlloc succeeds for a block whose link
\* has changed since it was read (freelist.cpp:30).
THEOREM BlocksInOnePlace == Spec => [](aba \/ OnePlace)
BY SpecFree, EachInOnePlace, PTL

\* Until then the list has an end, and no block follows two.
THEOREM NoLinkIsShared == Spec => [](aba \/ NoSharedLink)
BY SpecFree, LinksApart, PTL
-----------------------------------------------------------------------------
(* What a thread that allocates has read of the list is still so if nobody *)
(* else takes a block off.                                                 *)

OneAllocator == \A g, h \in Allocators : g = h

OnList(b) == b \notin unborn /\ ~InUse(b) /\ \A g \in Threads : ~Linking(g, b)
ReadInv == \A h \in Threads :
    /\ pc[h] \in {"read", "cas", "new"} => h \in Allocators
    /\ pc[h] \in {"read", "cas"} => OnList(cur[h])
    /\ pc[h] = "cas" => nxt[h] = next[cur[h]]

LEMMA StepRead ==
  ASSUME OneAllocator, FreeInv, ~aba, ReadInv, Next PROVE ReadInv' /\ ~aba'
<1>1. PICK s \in Seq(Blocks) : ListInv(s)
  BY DEF FreeInv
<1>2. PICK h \in Threads :
        \/ AllocLoad(h) \/ AllocRead(h) \/ AllocCas(h) \/ AllocNew(h)
        \/ (\E b \in Blocks : FreeLoad(h, b)) \/ FreeLink(h)
  BY DEF Next
<1>3. TypeInv
  BY DEF FreeInv
<1>4. head # Null => OnList(head)
  <2>1. ASSUME head # Null PROVE 1 \in 1 .. Len(s) /\ head = s[1]
    BY <1>1, <2>1 DEF ListInv, Linked
  <2>2. QED BY <1>1, <2>1 DEF OnList, ListInv, Apart, On
<1>5. ASSUME Try(h, head), pc[h] # "link", h \in Allocators, UNCHANGED <<next, unborn, held, aba>>
      PROVE  ReadInv' /\ ~aba'
  <2>1. \A g \in Threads \ {h} : pc'[g] = pc[g] /\ cur'[g] = cur[g] /\ nxt'[g] = nxt[g]
    BY <1>3, <1>5 DEF Try, TypeInv
  <2>2. cur'[h] = head /\ pc'[h] = IF head = Null THEN "new" ELSE "read"
    BY <1>3, <1>5 DEF Try, TypeInv
  <2>3. \A b : OnList(b) => OnList(b)'
    BY <1>5, <2>1, <2>2 DEF OnList, InUse, Linking
  <2>4. QED BY <1>4, <1>5, <2>1, <2>2, <2>3 DEF ReadInv
<1>6. CASE AllocLoad(h)
  BY <1>5, <1>6 DEF AllocLoad
<1>7. CASE AllocRead(h)
  <2>1. pc[h] = "read" /\ ~InUse(cur[h])
    BY <1>7 DEF AllocRead, ReadInv, OnList
  <2>2. /\ nxt' = [nxt EXCEPT ![h] = next[cur[h]]] /\ pc' = [pc EXCEPT ![h] = "cas"]
        /\ UNCHANGED <<head, next, unborn, held, cur, aba>>
    BY <1>7, <2>1 DEF AllocRead
  <2>3. \A g \in Threads \ {h} : pc'[g] = pc[g] /\ nxt'[g] = nxt[g]
    BY <1>3, <2>2 DEF TypeInv
  <2>4. pc'[h] = "cas" /\ nxt'[h] = next[cur[h]]
    BY <1>3, <2>2 DEF TypeInv
  <2>5. \A b : OnList(b) => OnList(b)'
    BY <2>1, <2>2, <2>3, <2>4 DEF OnList, InUse, Linking
  <2>6. QED BY <2>1, <2>2, <2>3, <2>4, <2>5 DEF ReadInv
<1>8. CASE AllocCas(h)
  <2>1. pc[h] = "cas" /\ h \in Allocators /\ UNCHANGED <<next, unborn>> /\ nxt[h] = next[cur[h]]
    BY <1>8 DEF AllocCas, ReadInv
  <2>2. CASE Try(h, head) /\ UNCHANGED <<head, held, aba>>
    BY <1>5, <2>1, <2>2
  <2>3. CASE ~(Try(h, head) /\ UNCHANGED <<head, held, aba>>)
    <3>1. aba' = aba /\ pc' = [pc EXCEPT ![h] = "idle"]
      BY <1>8, <2>1, <2>3 DEF AllocCas, FreeInv, TypeInv
    <3>2. \A g \in Threads : pc'[g] \notin {"read", "cas", "new"}
      BY <1>3, <2>1, <3>1 DEF ReadInv, OneAllocator, TypeInv
    <3>3. QED BY <3>1, <3>2 DEF ReadInv
  <2>4. QED BY <2>2, <2>3
<1>9. CASE AllocNew(h)
  <2>1. aba' = aba /\ pc[h] = "new" /\ pc' = [pc EXCEPT ![h] = "idle"]
    BY <1>9 DEF AllocNew
  <2>2. \A g \in Threads : pc'[g] \notin {"read", "cas", "new"}
    BY <1>3, <2>1 DEF ReadInv, OneAllocator, TypeInv
  <2>3. QED BY <2>1, <2>2 DEF ReadInv
<1>10. ASSUME NEW b \in Blocks, FreeLoad(h, b) PROVE ReadInv' /\ ~aba'
  <2>1. /\ InUse(b) /\ pc' = [pc EXCEPT ![h] = "link"] /\ cur' = [cur EXCEPT ![h] = b]
        /\ next' = [next EXCEPT ![b] = head] /\ UNCHANGED <<unborn, nxt, aba>>
        /\ \A x : InUse(x)' => InUse(x)
    BY <1>3, <1>10 DEF FreeLoad, InUse, TypeInv
  <2>2. pc'[h] = "link" /\ cur'[h] = b /\ \A g \in Threads \ {h} : pc'[g] = pc[g] /\ cur'[g] = cur[g]
    BY <1>3, <2>1 DEF TypeInv
  <2>3. \A x : OnList(x) => x # b /\ OnList(x)'
    BY <2>1, <2>2 DEF OnList, Linking
  <2>4. \A x \in Blocks \ {b} : next'[x] = next[x]
    BY <1>3, <2>1 DEF TypeInv
  <2>5. QED BY <1>3, <2>1, <2>2, <2>3, <2>4 DEF ReadInv, TypeInv
<1>11. CASE FreeLink(h)
  <2>1. /\ pc[h] = "link" /\ UNCHANGED <<unborn, held, nxt, aba>>
        /\ \A x \in Blocks \ {cur[h]} : next'[x] = next[x]
    BY <1>3, <1>11 DEF FreeLink, TypeInv
  <2>2. /\ pc'[h] = "idle" \/ (pc'[h] = "link" /\ cur'[h] = cur[h])
        /\ \A g \in Threads \ {h} : pc'[g] = pc[g] /\ cur'[g] = cur[g]
    BY <1>3, <1>11 DEF FreeLink, TypeInv
  <2>3. \A x : OnList(x) => x # cur[h] /\ OnList(x)'
    BY <2>1, <2>2 DEF OnList, InUse, Linking
  <2>4. QED BY <1>3, <2>1, <2>2, <2>3 DEF ReadInv, TypeInv
<1>12. QED BY <1>2, <1>6, <1>7, <1>8, <1>9, <1>10, <1>11

\* With one thread that allocates no link changes between its read and the
\* compare-exchange: no block is ever lost, or with two callers, and the list stays one.
THEOREM SafeAlone == Spec /\ OneAllocator => [](~aba /\ OnePlace /\ NoSharedLink)
<1>1. Init => ReadInv /\ ~aba
  BY DEF Init, ReadInv
<1>2. OneAllocator /\ FreeInv /\ ReadInv /\ ~aba /\ [Next]_vars => ReadInv' /\ ~aba'
  <2>1. ASSUME ReadInv, ~aba, UNCHANGED vars PROVE ReadInv' /\ ~aba'
    BY <2>1 DEF vars, local, ReadInv, OnList, InUse, Linking
  <2>2. QED BY <2>1, StepRead
<1>3. OneAllocator <=> OneAllocator'
  BY DEF OneAllocator
<1>4. QED BY <1>1, <1>2, <1>3, SpecFree, EachInOnePlace, LinksApart, PTL DEF Spec
-----------------------------------------------------------------------------
(* TaskStack: where the stacks lie, for any sizes of pages and stacks.     *)

StackTypes ==
    /\ msize = Default /\ brk \in Nat /\ mixed = FALSE
    /\ guards \subseteq Nat /\ freelist \in Seq(Nat)
    /\ stack \in [Tasks -> [from : {"none", "map", "heap"}, ptr : Int, size : Nat]]
    /\ \A t \in Tasks :
        /\ stack[t].from = "none" => stack[t] = NoStack
        /\ stack[t].from = "map" => stack[t].size = Default
        /\ stack[t].from = "heap" => stack[t].size # Default

\* The mappings do not overlap; a guard is the first page of each.
MappingsApart ==
    /\ \A g \in guards : g + Default + Page <= brk
    /\ \A g, h \in guards : g = h \/ g + Default + Page <= h \/ h + Default + Page <= g

\* Each mapping has one owner at most, a task or the free list.
Owns(t, g) == stack[t].from = "map" /\ stack[t].ptr = g + Page
OneOwner ==
    /\ \A t \in Tasks : stack[t].from = "map" => stack[t].ptr - Page \in guards
    /\ \A t, u \in Tasks : stack[t].from = "map" /\ stack[u].from = "map" /\ stack[t].ptr = stack[u].ptr
            => t = u
    /\ \A i \in 1 .. Len(freelist) : freelist[i] - Default \in guards
    /\ \A i, j \in 1 .. Len(freelist) : freelist[i] = freelist[j] => i = j
    /\ \A t \in Tasks, i \in 1 .. Len(freelist) :
            stack[t].from = "map" => stack[t].ptr + Default # freelist[i] + Page

StackInv == StackTypes /\ MappingsApart /\ OneOwner

LEMMA InitStack == ASSUME StackInit PROVE StackInv
BY DEF StackInit, StackInv, StackTypes, MappingsApart, OneOwner, NoStack

\* Task::Task with a stack from the free list.
LEMMA ReuseKeeps ==
  ASSUME StackInv, NEW t \in Tasks, stack[t] = NoStack,
         Reuse(t), UNCHANGED <<msize, mark, mixed>>
  PROVE  StackInv'
<1> DEFINE s == [from |-> "map", ptr |-> Head(freelist) - msize + Page, size |-> msize]
           p == Head(freelist)
<1>1. /\ freelist # <<>> /\ freelist' = Tail(freelist) /\ stack' = [stack EXCEPT ![t] = s]
      /\ UNCHANGED <<brk, guards, msize, mixed>>
  BY DEF Reuse
<1>2. /\ freelist \in Seq(Nat) /\ Len(freelist) \in Nat /\ 1 \in 1 .. Len(freelist)
      /\ p \in Nat /\ p = freelist[1] /\ freelist' \in Seq(Nat)
      /\ \A i \in 1 .. Len(freelist') : i + 1 \in 1 .. Len(freelist) /\ freelist'[i] = freelist[i + 1]
                                        /\ i + 1 # 1
  BY <1>1 DEF StackInv, StackTypes
<1>3. /\ Page \in Nat /\ Default \in Nat /\ msize = Default
      /\ s.from = "map" /\ s.ptr = p - Default + Page /\ s.size = Default
      /\ s \in [from : {"none", "map", "heap"}, ptr : Int, size : Nat]
  BY <1>2, TaskStackAssumption DEF StackInv, StackTypes
<1>4. stack'[t] = s /\ \A u \in Tasks \ {t} : stack'[u] = stack[u]
  BY <1>1 DEF StackInv, StackTypes
<1> HIDE DEF s, p
<1>5. StackTypes'
  BY <1>1, <1>2, <1>3, <1>4 DEF StackInv, StackTypes
<1>6. MappingsApart'
  BY <1>1 DEF StackInv, MappingsApart
<1>7. OneOwner'
  <2>1. p - Default \in guards /\ s.ptr - Page = p - Default
    BY <1>2, <1>3 DEF StackInv, OneOwner
  <2>2. \A u \in Tasks : stack'[u].from = "map" => stack'[u].ptr - Page \in guards'
    BY <1>1, <1>3, <1>4, <2>1 DEF StackInv, OneOwner
  <2>3. \A u \in Tasks \ {t} : stack[u].from = "map" => stack[u].ptr # s.ptr
    BY <1>2, <1>3 DEF StackInv, OneOwner, StackTypes
  <2>4. \A u, v \in Tasks : stack'[u].from = "map" /\ stack'[v].from = "map"
            /\ stack'[u].ptr = stack'[v].ptr => u = v
    BY <1>4, <2>3 DEF StackInv, OneOwner
  <2>5. \A i \in 1 .. Len(freelist') : freelist'[i] - Default \in guards' /\ freelist'[i] # p
    BY <1>1, <1>2 DEF StackInv, OneOwner
  <2>6. \A i, j \in 1 .. Len(freelist') : freelist'[i] = freelist'[j] => i = j
    <3> SUFFICES ASSUME NEW i \in 1 .. Len(freelist'), NEW j \in 1 .. Len(freelist'),
                        freelist'[i] = freelist'[j]
                 PROVE  i = j
      OBVIOUS
    <3>1. i + 1 = j + 1
      BY <1>2 DEF StackInv, OneOwner
    <3>2. QED BY <1>2, <3>1
  <2>7. \A u \in Tasks, i \in 1 .. Len(freelist') :
            stack'[u].from = "map" => stack'[u].ptr + Default # freelist'[i] + Page
    <3> SUFFICES ASSUME NEW u \in Tasks, NEW i \in 1 .. Len(freelist'), stack'[u].from = "map"
                 PROVE  stack'[u].ptr + Default # freelist'[i] + Page
      OBVIOUS
    <3>1. CASE u = t
      <4>1. freelist'[i] \in Nat /\ freelist'[i] # p
        BY <1>2, <2>5
      <4>2. stack'[u].ptr = p - Default + Page
        BY <1>3, <1>4, <3>1
      <4>3. p \in Nat /\ Page \in Nat /\ Default \in Nat
        BY <1>2, <1>3
      <4>4. QED BY <4>1, <4>2, <4>3
    <3>2. CASE u # t
      <4>1. i + 1 \in 1 .. Len(freelist) /\ freelist'[i] = freelist[i + 1] /\ stack'[u] = stack[u]
        BY <1>2, <1>4, <3>2
      <4>2. QED BY <4>1 DEF StackInv, OneOwner
    <3>3. QED BY <3>1, <3>2
  <2>8. QED BY <1>1, <2>2, <2>4, <2>5, <2>6, <2>7 DEF OneOwner, StackInv, StackTypes
<1>8. QED BY <1>5, <1>6, <1>7 DEF StackInv

\* Task::Task with a new mapping, behind all others.
LEMMA MapKeeps ==
  ASSUME StackInv, NEW t \in Tasks, stack[t] = NoStack,
         Map(t), UNCHANGED <<msize, mark, mixed>>
  PROVE  StackInv'
<1> DEFINE s == [from |-> "map", ptr |-> brk + Page, size |-> msize]
<1>1. /\ freelist = <<>> /\ freelist' = freelist /\ brk' = brk + msize + Page
      /\ guards' = guards \cup {brk} /\ stack' = [stack EXCEPT ![t] = s]
      /\ UNCHANGED <<msize, mixed>>
  BY DEF Map
<1>2. /\ Page \in Nat \ {0} /\ Default \in Nat /\ brk \in Nat /\ msize = Default /\ guards \subseteq Nat
      /\ s.from = "map" /\ s.ptr = brk + Page /\ s.size = Default
      /\ s \in [from : {"none", "map", "heap"}, ptr : Int, size : Nat]
      /\ Default > 0
  BY TaskStackAssumption DEF StackInv, StackTypes
<1>3. stack'[t] = s /\ \A u \in Tasks \ {t} : stack'[u] = stack[u]
  BY <1>1 DEF StackInv, StackTypes
<1> HIDE DEF s
<1>4. StackTypes'
  BY <1>1, <1>2, <1>3 DEF StackInv, StackTypes
<1>5. MappingsApart'
  BY <1>1, <1>2 DEF StackInv, MappingsApart
<1>6. OneOwner'
  <2>1. \A u \in Tasks \ {t} : stack[u].from = "map" => stack[u].ptr - Page # brk /\ stack[u].ptr \in Int
    BY <1>2 DEF StackInv, OneOwner, MappingsApart, StackTypes
  <2>2. \A u \in Tasks : stack'[u].from = "map" => stack'[u].ptr - Page \in guards'
    BY <1>1, <1>2, <1>3 DEF StackInv, OneOwner
  <2>3. \A u, v \in Tasks : stack'[u].from = "map" /\ stack'[v].from = "map"
            /\ stack'[u].ptr = stack'[v].ptr => u = v
    BY <1>2, <1>3, <2>1 DEF StackInv, OneOwner
  <2>4. Len(freelist') = 0
    BY <1>1
  <2>5. QED BY <2>2, <2>3, <2>4 DEF OneOwner
<1>7. QED BY <1>4, <1>5, <1>6 DEF StackInv

\* Task::Task with a stack of another size.
LEMMA HeapKeeps ==
  ASSUME StackInv, NEW t \in Tasks, NEW size \in Nat, size # msize,
         stack[t] = NoStack,
         stack' = [stack EXCEPT ![t] = [from |-> "heap", ptr |-> 0, size |-> size]],
         UNCHANGED <<msize, brk, guards, freelist, mixed>>
  PROVE  StackInv'
<1>1. stack'[t].from = "heap" /\ \A u \in Tasks \ {t} : stack'[u] = stack[u]
  BY DEF StackInv, StackTypes
<1>2. StackTypes'
  BY <1>1 DEF StackInv, StackTypes
<1>3. MappingsApart' /\ OneOwner'
  BY <1>1 DEF StackInv, MappingsApart, OneOwner
<1>4. QED BY <1>2, <1>3 DEF StackInv

\* Task::~Task: the mapping goes to the free list if and only if it has one.
LEMMA DeleteKeeps ==
  ASSUME StackInv, NEW t \in Tasks, Delete(t)
  PROVE  StackInv'
<1> DEFINE p == stack[t].ptr + Default - Page
<1>1. /\ stack[t] # NoStack /\ stack[t].from \in {"map", "heap"} /\ msize = Default
      /\ stack[t].size = msize <=> stack[t].from = "map"
      /\ stack[t].ptr \in Int /\ Page \in Nat \ {0} /\ Default \in Nat
  BY TaskStackAssumption DEF Delete, StackInv, StackTypes
<1>2. /\ mixed' = FALSE /\ stack' = [stack EXCEPT ![t] = NoStack]
      /\ UNCHANGED <<msize, mark, brk, guards>>
  BY <1>1 DEF Delete, StackInv, StackTypes
<1>3. stack'[t] = NoStack /\ \A u \in Tasks \ {t} : stack'[u] = stack[u]
  BY <1>2 DEF StackInv, StackTypes
<1>4. /\ NoStack \in [from : {"none", "map", "heap"}, ptr : Int, size : Nat]
      /\ NoStack.from = "none"
  BY DEF NoStack
<1>5. MappingsApart'
  BY <1>2 DEF StackInv, MappingsApart
<1>6. CASE stack[t].from = "heap"
  <2>1. freelist' = freelist
    BY <1>1, <1>6 DEF Delete
  <2>2. StackTypes'
    BY <1>2, <1>3, <1>4, <2>1 DEF StackInv, StackTypes
  <2>3. OneOwner'
    BY <1>2, <1>3, <1>4, <2>1 DEF StackInv, OneOwner
  <2>4. QED BY <1>5, <2>2, <2>3 DEF StackInv
<1>7. CASE stack[t].from = "map"
  <2>1. freelist' = <<p>> \o freelist
    BY <1>1, <1>7 DEF Delete, LastPage
  <2>2. stack[t].ptr - Page \in guards /\ p - Default \in guards /\ p \in Nat
    <3>1. stack[t].ptr - Page \in guards /\ guards \subseteq Nat
      BY <1>7 DEF StackInv, OneOwner, StackTypes
    <3>2. p - Default = stack[t].ptr - Page
      BY <1>1
    <3>3. QED BY <1>1, <3>1, <3>2
  <2> HIDE DEF p
  <2>3. /\ freelist \in Seq(Nat) /\ freelist' \in Seq(Nat) /\ freelist'[1] = p
        /\ Len(freelist) \in Nat /\ Len(freelist') = Len(freelist) + 1
        /\ \A i \in 2 .. Len(freelist') : i - 1 \in 1 .. Len(freelist) /\ freelist'[i] = freelist[i - 1]
    BY <2>1, <2>2 DEF StackInv, StackTypes
  <2>4. \A i \in 1 .. Len(freelist') : i = 1 \/ i \in 2 .. Len(freelist')
    BY <2>3
  <2>5. \A i \in 1 .. Len(freelist) : freelist[i] \in Nat /\ freelist[i] # p
    <3> SUFFICES ASSUME NEW i \in 1 .. Len(freelist) PROVE freelist[i] \in Nat /\ freelist[i] # p
      OBVIOUS
    <3>1. freelist[i] \in Nat /\ stack[t].ptr + Default # freelist[i] + Page
      BY <1>7, <2>3 DEF StackInv, OneOwner
    <3>2. /\ stack[t].ptr \in Int /\ Page \in Nat /\ Default \in Nat
          /\ p = stack[t].ptr + Default - Page
      BY <1>1 DEF p
    <3>3. QED BY <3>1, <3>2
  <2>6. StackTypes'
    BY <1>2, <1>3, <1>4, <2>3 DEF StackInv, StackTypes
  <2>7. \A i \in 1 .. Len(freelist') : freelist'[i] - Default \in guards'
    BY <1>2, <2>2, <2>3, <2>4 DEF StackInv, OneOwner
  <2>8. \A i, j \in 1 .. Len(freelist') : freelist'[i] = freelist'[j] => i = j
    <3> SUFFICES ASSUME NEW i \in 1 .. Len(freelist'), NEW j \in 1 .. Len(freelist'),
                        freelist'[i] = freelist'[j]
                 PROVE  i = j
      OBVIOUS
    <3>1. CASE i = 1 \/ j = 1
      BY <2>3, <2>4, <2>5, <3>1
    <3>2. CASE i # 1 /\ j # 1
      <4>1. /\ i - 1 \in 1 .. Len(freelist) /\ j - 1 \in 1 .. Len(freelist)
            /\ freelist[i - 1] = freelist[j - 1]
        BY <2>3, <2>4, <3>2
      <4>2. i - 1 = j - 1
        BY <4>1 DEF StackInv, OneOwner
      <4>3. QED BY <4>2
    <3>3. QED BY <3>1, <3>2
  <2>9. \A u \in Tasks, i \in 1 .. Len(freelist') :
            stack'[u].from = "map" => stack'[u].ptr + Default # freelist'[i] + Page
    <3> SUFFICES ASSUME NEW u \in Tasks \ {t}, NEW i \in 1 .. Len(freelist'), stack[u].from = "map"
                 PROVE  stack[u].ptr + Default # freelist'[i] + Page
      BY <1>3, <1>4
    <3>1. stack[u].ptr \in Int /\ stack[u].ptr # stack[t].ptr
      BY <1>7 DEF StackInv, StackTypes, OneOwner
    <3>2. CASE i = 1
      BY <1>1, <2>3, <3>1, <3>2 DEF p
    <3>3. CASE i # 1
      <4>1. i - 1 \in 1 .. Len(freelist) /\ freelist'[i] = freelist[i - 1]
        BY <2>3, <2>4, <3>3
      <4>2. QED BY <4>1 DEF StackInv, OneOwner
    <3>4. QED BY <3>2, <3>3
  <2>10. /\ \A u \in Tasks : stack'[u].from = "map" => stack'[u].ptr - Page \in guards'
         /\ \A u, v \in Tasks : stack'[u].from = "map" /\ stack'[v].from = "map"
                /\ stack'[u].ptr = stack'[v].ptr => u = v
    BY <1>2, <1>3, <1>4 DEF StackInv, OneOwner
  <2>11. OneOwner'
    BY <2>7, <2>8, <2>9, <2>10 DEF OneOwner
  <2>12. QED BY <1>5, <2>6, <2>11 DEF StackInv
<1>8. QED BY <1>1, <1>6, <1>7

LEMMA NextStack ==
  ASSUME StackInv, [StackNext]_stackvars PROVE StackInv'
<1>1. ASSUME NEW t \in Tasks, Delete(t) PROVE StackInv'
  BY <1>1, DeleteKeeps
<1>2. ASSUME NEW t \in Tasks, NEW size \in Sizes, Create(t, size) PROVE StackInv'
  BY <1>2, ReuseKeeps, MapKeeps, HeapKeeps, TaskStackAssumption DEF Create
<1>3. ASSUME NEW size \in Sizes, SetSize(size) PROVE StackInv'
  BY <1>3 DEF SetSize, StackInv, StackTypes, MappingsApart, OneOwner
<1>4. CASE UNCHANGED stackvars
  BY <1>4 DEF stackvars, StackInv, StackTypes, MappingsApart, OneOwner
<1>5. QED BY <1>1, <1>2, <1>3, <1>4 DEF StackNext

LEMMA SpecStack == StackSpec => []StackInv
<1>1. StackInit => StackInv
  BY InitStack
<1>2. StackInv /\ [StackNext]_stackvars => StackInv'
  BY NextStack
<1>3. QED BY <1>1, <1>2, PTL DEF StackSpec

\* The memory of a task is the mapping behind its guard.
LEMMA ApartByMapping == StackInv => StacksApart
<1> SUFFICES ASSUME StackInv, NEW t \in Mapped
             PROVE  /\ Memory(t) \subseteq 0 .. brk - 1
                    /\ \A u \in Mapped \ {t} : Memory(t) \cap Memory(u) = {}
                    /\ \A g \in guards : Memory(t) \cap Span(g, Page) = {}
                    /\ \A i \in DOMAIN freelist : freelist[i] \notin Memory(t)
  BY DEF StacksApart
<1>1. /\ Page \in Nat \ {0} /\ Default \in Nat /\ brk \in Nat /\ guards \subseteq Nat
      /\ Page <= Default
  BY TaskStackAssumption DEF StackInv, StackTypes
<1>2. ASSUME NEW u \in Mapped
      PROVE  /\ u \in Tasks /\ stack[u].from = "map" /\ stack[u].ptr \in Int
             /\ Memory(u) = stack[u].ptr .. stack[u].ptr + Default - 1
             /\ stack[u].ptr - Page \in guards
  BY <1>2 DEF Mapped, Memory, Span, StackInv, StackTypes, OneOwner
<1> DEFINE g == stack[t].ptr - Page
<1>3. /\ g \in guards /\ g \in Nat /\ g + Default + Page <= brk
      /\ Memory(t) = g + Page .. g + Page + Default - 1
  <2>1. g \in guards /\ g + Page = stack[t].ptr
    BY <1>1, <1>2
  <2>2. QED BY <1>1, <1>2, <2>1 DEF StackInv, MappingsApart
<1>4. \A h \in guards : g = h \/ g + Default + Page <= h \/ h + Default + Page <= g
  BY <1>3 DEF StackInv, MappingsApart
<1>5. ASSUME NEW u \in Mapped \ {t} PROVE Memory(t) \cap Memory(u) = {}
  <2> DEFINE h == stack[u].ptr - Page
  <2>1. h \in guards /\ h \in Nat /\ Memory(u) = h + Page .. h + Page + Default - 1
    <3>1. h \in guards /\ h + Page = stack[u].ptr
      BY <1>1, <1>2
    <3>2. QED BY <1>1, <1>2, <3>1
  <2>2. g # h
    <3>1. stack[u].ptr # stack[t].ptr
      BY <1>2 DEF StackInv, OneOwner
    <3>2. QED BY <1>1, <1>2, <3>1
  <2> HIDE DEF g, h
  <2>3. QED BY <1>1, <1>3, <1>4, <2>1, <2>2
<1>6. ASSUME NEW h \in guards PROVE Memory(t) \cap Span(h, Page) = {}
  <2> HIDE DEF g
  <2>1. Span(h, Page) = h .. h + Page - 1 /\ h \in Nat
    BY <1>1 DEF Span
  <2>2. QED BY <1>1, <1>3, <1>4, <2>1
<1>7. ASSUME NEW i \in DOMAIN freelist PROVE freelist[i] \notin Memory(t)
  <2> DEFINE h == freelist[i] - Default
  <2>1. i \in 1 .. Len(freelist) /\ freelist[i] \in Nat
    BY DEF StackInv, StackTypes
  <2>2. h \in guards /\ h \in Nat /\ freelist[i] = h + Default
    BY <1>1, <2>1 DEF StackInv, OneOwner
  <2>3. g # h
    <3>1. stack[t].ptr + Default # freelist[i] + Page
      BY <1>2, <2>1 DEF StackInv, OneOwner
    <3>2. QED BY <1>1, <1>2, <2>1, <3>1
  <2> HIDE DEF g, h
  <2>4. QED BY <1>1, <1>3, <1>4, <2>2, <2>3
<1>8. Memory(t) \subseteq 0 .. brk - 1
  <2> HIDE DEF g
  <2>1. QED BY <1>1, <1>3
<1>9. QED BY <1>5, <1>6, <1>7, <1>8

\* Stacks of living tasks share no byte with each other, with a protected page or
\* with the link of a free block, in whatever order tasks are created and deleted.
THEOREM StacksStayApart ==
  StackSpec => []StacksApart
<1>1. StackInv => StacksApart
  BY ApartByMapping
<1>2. QED BY <1>1, SpecStack, PTL

\* The destructor, which knows a stack's size only, gives it to the allocator it
\* came from.
THEOREM StacksGoBack ==
  StackSpec => []FreedWhereAllocated
<1>1. StackInv => FreedWhereAllocated
  BY DEF StackInv, StackTypes, FreedWhereAllocated
<1>2. QED BY <1>1, SpecStack, PTL
=============================================================================
