----------------------------- MODULE ListProofs -----------------------------
(***************************************************************************)
(* Linked, for any number of lists and elements.  The inductive invariant  *)
(* adds that no element has two places.  Both pushes insert between two    *)
(* neighbours and both pops remove a node, as erase does, so that one      *)
(* lemma for insertion and one for removal carry the proof.                *)
(***************************************************************************)
EXTENDS List, FiniteSetTheorems, WellFoundedInduction, TLAPS

IInv == TypeOK /\ Linked /\ Distinct
-----------------------------------------------------------------------------
\* A node has one place in one list, the head counting as place 0.
LEMMA NodesApart ==
    ASSUME TypeOK, Distinct,
           NEW l \in Lists, NEW m \in Lists,
           NEW i \in 0 .. Len(content[l]), NEW j \in 0 .. Len(content[m]),
           At(l, i) = At(m, j)
    PROVE  l = m /\ i = j
<1>1. content[l] \in Seq(Elems) /\ content[m] \in Seq(Elems)
    BY DEF TypeOK
<1>2. CASE i = 0 /\ j = 0
    BY <1>1, <1>2 DEF At
<1>3. CASE i # 0 /\ j = 0
    <2>1. content[l][i] \in Elems
        BY <1>1, <1>3
    <2> QED BY <1>1, <1>3, <2>1, ListAssumption DEF At
<1>4. CASE i = 0 /\ j # 0
    <2>1. content[m][j] \in Elems
        BY <1>1, <1>4
    <2> QED BY <1>1, <1>4, <2>1, ListAssumption DEF At
<1>5. CASE i # 0 /\ j # 0
    BY <1>1, <1>5 DEF At, Distinct
<1> QED BY <1>2, <1>3, <1>4, <1>5

LEMMA AtIsNode ==
    ASSUME TypeOK, NEW l \in Lists, NEW i \in Int
    PROVE  At(l, i) \in Nodes
<1>1. content[l] \in Seq(Elems)
    BY DEF TypeOK
<1> QED BY <1>1 DEF At, Nodes

\* An element in no list is none of the nodes.
LEMMA LooseIsNowhere ==
    ASSUME TypeOK, NEW e \in Elems, Abstract!Loose(e),
           NEW l \in Lists, NEW i \in Int
    PROVE  At(l, i) # e
BY ListAssumption DEF TypeOK, At, Abstract!Loose, Abstract!Members

\* Putting an element that is in no list before the k-th node of a list.
LEMMA Inserting ==
    ASSUME IInv,
           NEW l \in Lists, NEW e \in Elems, Abstract!Loose(e),
           NEW k \in 1 .. Len(content[l]) + 1,
           NEW s \in Seq(Elems), Len(s) = Len(content[l]) + 1,
           \A i \in 1 .. Len(s) :
                s[i] = IF i < k THEN content[l][i]
                       ELSE IF i = k THEN e ELSE content[l][i - 1],
           Add(e, At(l, k - 1), At(l, k)),
           size' = [size EXCEPT ![l] = @ + 1],
           content' = [content EXCEPT ![l] = s],
           ret' = ret
    PROVE  IInv'
<1> DEFINE n == Len(content[l])
<1>1. /\ content[l] \in Seq(Elems) /\ n \in Nat
      /\ content'[l] = s
      /\ \A m \in Lists \ {l} : content'[m] = content[m] /\ size'[m] = size[m]
      /\ size'[l] = n + 1
    BY DEF IInv, TypeOK, Linked
<1>2. \A m \in Lists, i \in Int : At(m, i) \in Nodes /\ At(m, i) # e
    BY AtIsNode, LooseIsNowhere DEF IInv
<1>3. e \in Nodes /\ l \in Nodes
    BY DEF Nodes
<1>4. TypeOK'
    <2>1. next' \in [Nodes -> Nodes] /\ prev' \in [Nodes -> Nodes]
        <3>1. At(l, k) \in Nodes /\ At(l, k - 1) \in Nodes
            BY <1>1, <1>2
        <3>2. \A b, a \in Nodes : Add(e, b, a) =>
                next' \in [Nodes -> Nodes] /\ prev' \in [Nodes -> Nodes]
            BY <1>3 DEF IInv, TypeOK, Add
        <3> QED BY <3>1, <3>2
    <2>2. size' \in [Lists -> Nat]
        BY DEF IInv, TypeOK
    <2>3. content' \in [Lists -> Seq(Elems)]
        BY DEF IInv, TypeOK
    <2> QED BY <2>1, <2>2, <2>3 DEF IInv, TypeOK, Nodes
<1>5. /\ \A x \in Nodes \ {e, At(l, k - 1)} : next'[x] = next[x]
      /\ next'[At(l, k - 1)] = e /\ next'[e] = At(l, k)
      /\ \A x \in Nodes \ {e, At(l, k)} : prev'[x] = prev[x]
      /\ prev'[At(l, k)] = e /\ prev'[e] = At(l, k - 1)
    <2>1. /\ At(l, k) \in Nodes /\ At(l, k) # e
          /\ At(l, k - 1) \in Nodes /\ At(l, k - 1) # e
        BY <1>1, <1>2
    <2>2. \A b, a \in Nodes \ {e} : Add(e, b, a) =>
            /\ \A x \in Nodes \ {e, b} : next'[x] = next[x]
            /\ next'[b] = e /\ next'[e] = a
            /\ \A x \in Nodes \ {e, a} : prev'[x] = prev[x]
            /\ prev'[a] = e /\ prev'[e] = b
        BY <1>3 DEF IInv, TypeOK, Add
    <2> QED BY <2>1, <2>2
<1>6. \A m \in Lists \ {l}, i \in Int : At(m, i)' = At(m, i)
    BY <1>1 DEF At
<1>7. \A i \in 0 .. n + 2 :
        At(l, i)' = IF i < k THEN At(l, i) ELSE IF i = k THEN e ELSE At(l, i - 1)
    BY <1>1 DEF At
<1>8. At(l, n + 1) = At(l, 0)
    BY <1>1 DEF At
<1>9. ASSUME NEW m \in Lists \ {l}, NEW i \in 0 .. Len(content[m])
      PROVE  next'[At(m, i)'] = At(m, i + 1)' /\ prev'[At(m, i + 1)'] = At(m, i)'
    <2>1. content[m] \in Seq(Elems) /\ Len(content[m]) \in Nat
        BY DEF IInv, TypeOK
    <2>2. \E j \in 0 .. Len(content[m]) : At(m, i + 1) = At(m, j)
        <3>1. CASE i + 1 <= Len(content[m])
            BY <2>1, <3>1
        <3>2. CASE i + 1 = Len(content[m]) + 1
            BY <2>1, <3>2 DEF At
        <3>3. i + 1 <= Len(content[m]) \/ i + 1 = Len(content[m]) + 1
            BY <2>1
        <3> QED BY <3>1, <3>2, <3>3
    <2>3. \E j \in 0 .. n : At(l, k) = At(l, j)
        BY <1>1, <1>8
    <2>4. At(m, i) # At(l, k - 1)
        BY <1>1, NodesApart DEF IInv
    <2>5. At(m, i + 1) # At(l, k)
        BY <2>2, <2>3, NodesApart DEF IInv
    <2>6. next[At(m, i)] = At(m, i + 1) /\ prev[At(m, i + 1)] = At(m, i)
        BY DEF IInv, Linked
    <2> QED BY <1>2, <1>5, <1>6, <2>1, <2>4, <2>5, <2>6
<1>10. ASSUME NEW i \in 0 .. n + 1
       PROVE  next'[At(l, i)'] = At(l, i + 1)' /\ prev'[At(l, i + 1)'] = At(l, i)'
    <2>1. \A j \in 0 .. n : next[At(l, j)] = At(l, j + 1) /\ prev[At(l, j + 1)] = At(l, j)
        BY DEF IInv, Linked
    <2>2. \A j \in 0 .. n : At(l, j) = At(l, k - 1) => j = k - 1
        BY <1>1, NodesApart DEF IInv
    <2>3. \A j \in 1 .. n + 1 : At(l, j) = At(l, k) => j = k
        <3>1. \A j, h \in 0 .. n : At(l, j) = At(l, h) => j = h
            BY NodesApart DEF IInv
        <3>2. \A j \in 1 .. n : At(l, j) # At(l, n + 1)
            BY <1>1, <1>8, <3>1
        <3>3. ASSUME NEW j \in 1 .. n + 1, At(l, j) = At(l, k)
              PROVE  j = k
            <4>1. CASE j # n + 1 /\ k # n + 1
                <5>1. j \in 0 .. n /\ k \in 0 .. n
                    BY <1>1, <4>1
                <5> QED BY <3>1, <3>3, <5>1
            <4>2. CASE j = n + 1 /\ k # n + 1
                BY <1>1, <3>2, <3>3, <4>2
            <4>3. CASE j # n + 1 /\ k = n + 1
                BY <1>1, <3>2, <3>3, <4>3
            <4> QED BY <4>1, <4>2, <4>3
        <3> QED BY <3>3
    <2>5. CASE i < k - 1
        <3>1. At(l, i)' = At(l, i) /\ At(l, i + 1)' = At(l, i + 1)
            BY <1>1, <1>7, <2>5
        <3>2. At(l, i) # At(l, k - 1) /\ At(l, i + 1) # At(l, k)
            BY <1>1, <2>2, <2>3, <2>5
        <3>3. next'[At(l, i)] = next[At(l, i)] /\ prev'[At(l, i + 1)] = prev[At(l, i + 1)]
            BY <1>2, <1>5, <3>2
        <3> QED BY <1>1, <2>1, <2>5, <3>1, <3>3
    <2>6. CASE i = k - 1
        <3>1. At(l, i)' = At(l, k - 1) /\ At(l, i + 1)' = e
            BY <1>1, <1>7, <2>6
        <3> QED BY <1>5, <3>1
    <2>7. CASE i = k
        <3>1. At(l, i)' = e /\ At(l, i + 1)' = At(l, k)
            BY <1>1, <1>7, <2>7
        <3> QED BY <1>5, <3>1
    <2>8. CASE i > k
        <3>1. At(l, i)' = At(l, i - 1) /\ At(l, i + 1)' = At(l, i)
            BY <1>1, <1>7, <2>8
        <3>2. i - 1 \in 0 .. n /\ i \in 1 .. n + 1 /\ i - 1 # k - 1 /\ i # k
            BY <1>1, <2>8
        <3>3. At(l, i - 1) # At(l, k - 1) /\ At(l, i) # At(l, k)
            BY <2>2, <2>3, <3>2
        <3>4. next'[At(l, i - 1)] = next[At(l, i - 1)] /\ prev'[At(l, i)] = prev[At(l, i)]
            BY <1>2, <1>5, <3>3
        <3>5. next[At(l, i - 1)] = At(l, i) /\ prev[At(l, i)] = At(l, i - 1)
            BY <2>1, <3>2
        <3> QED BY <3>1, <3>4, <3>5
    <2> QED BY <1>1, <2>5, <2>6, <2>7, <2>8
<1>11. Linked'
    <2> SUFFICES ASSUME NEW m \in Lists
                 PROVE  /\ size'[m] = Len(content'[m])
                        /\ \A i \in 0 .. Len(content'[m]) :
                            next'[At(m, i)'] = At(m, i + 1)' /\ prev'[At(m, i + 1)'] = At(m, i)'
        BY DEF Linked
    <2>1. CASE m = l
        BY <1>1, <1>10, <2>1
    <2>2. CASE m # l
        BY <1>1, <1>9, <2>2 DEF IInv, Linked
    <2> QED BY <2>1, <2>2
<1>12. Distinct'
    <2>1. \A m \in Lists : \A i \in 1 .. Len(content'[m]) :
            content'[m][i] = IF m # l THEN content[m][i]
                             ELSE IF i < k THEN content[l][i]
                             ELSE IF i = k THEN e ELSE content[l][i - 1]
        BY <1>1
    <2>2. \A m \in Lists : \A i \in 1 .. Len(content[m]) : content[m][i] # e
        BY DEF Abstract!Loose, Abstract!Members
    <2>3. \A m \in Lists : Len(content[m]) \in Nat
        BY DEF IInv, TypeOK
    <2>4. \A m, h \in Lists : \A i \in 1 .. Len(content[m]), j \in 1 .. Len(content[h]) :
            content[m][i] = content[h][j] => m = h /\ i = j
        BY DEF IInv, Distinct
    <2> SUFFICES ASSUME NEW m \in Lists, NEW h \in Lists,
                        NEW i \in 1 .. Len(content'[m]), NEW j \in 1 .. Len(content'[h]),
                        content'[m][i] = content'[h][j]
                 PROVE  m = h /\ i = j
        BY DEF Distinct
    <2>5. CASE m # l /\ h # l
        BY <1>1, <2>1, <2>4, <2>5
    <2>6. CASE m = l /\ h # l
        <3>1. content'[h][j] = content[h][j] /\ j \in 1 .. Len(content[h])
            BY <1>1, <2>6
        <3> QED BY <1>1, <2>1, <2>2, <2>3, <2>4, <2>6, <3>1
    <2>7. CASE m # l /\ h = l
        <3>1. content'[m][i] = content[m][i] /\ i \in 1 .. Len(content[m])
            BY <1>1, <2>7
        <3>2. content'[l][j] = IF j < k THEN content[l][j] ELSE IF j = k THEN e ELSE content[l][j - 1]
            BY <2>1, <2>7
        <3>3. CASE j < k
            BY <1>1, <2>4, <2>7, <3>1, <3>2, <3>3
        <3>4. CASE j = k
            BY <2>2, <2>7, <3>1, <3>2, <3>4
        <3>5. CASE j > k
            <4>1. j - 1 \in 1 .. n
                BY <1>1, <2>7, <3>5
            <4> QED BY <2>4, <2>7, <3>1, <3>2, <3>5, <4>1
        <3> QED BY <1>1, <2>7, <3>3, <3>4, <3>5
    <2>8. CASE m = l /\ h = l
        <3>1. \A a, b \in 1 .. n : content[l][a] = content[l][b] => a = b
            BY <2>4
        <3>2. \A a \in 1 .. n : content[l][a] # e
            BY <2>2
        <3>3. i \in 1 .. n + 1 /\ j \in 1 .. n + 1 /\ s[i] = s[j]
            BY <1>1, <2>8
        <3>4. i = j
            <4>1. \A a \in 1 .. n + 1 :
                    s[a] = IF a < k THEN content[l][a] ELSE IF a = k THEN e ELSE content[l][a - 1]
                BY <1>1
            <4>2. \A a \in 1 .. n + 1 : a < k => a \in 1 .. n
                BY <1>1
            <4>3. \A a \in 1 .. n + 1 : a > k => a - 1 \in 1 .. n
                BY <1>1
            <4>4. \A a \in 1 .. n + 1 : s[a] = e => a = k
                <5> SUFFICES ASSUME NEW a \in 1 .. n + 1, s[a] = e
                             PROVE  a = k
                    OBVIOUS
                <5>1. a < k \/ a = k \/ a > k
                    BY <1>1
                <5> QED BY <3>2, <4>1, <4>2, <4>3, <5>1
            <4>5. CASE i = k \/ j = k
                BY <3>3, <4>1, <4>4, <4>5
            <4>6. CASE i < k /\ j < k
                BY <3>1, <3>3, <4>1, <4>2, <4>6
            <4>7. CASE i > k /\ j > k
                <5>1. content[l][i - 1] = content[l][j - 1]
                    BY <3>3, <4>1, <4>7
                <5>2. i - 1 = j - 1
                    BY <3>1, <3>3, <4>3, <4>7, <5>1
                <5> QED BY <1>1, <3>3, <5>2
            <4>8. CASE i < k /\ j > k
                <5>1. content[l][i] = content[l][j - 1]
                    BY <3>3, <4>1, <4>8
                <5>2. i = j - 1
                    BY <3>1, <3>3, <4>2, <4>3, <4>8, <5>1
                <5> QED BY <1>1, <3>3, <4>8, <5>2
            <4>9. CASE i > k /\ j < k
                <5>1. content[l][i - 1] = content[l][j]
                    BY <3>3, <4>1, <4>9
                <5>2. i - 1 = j
                    BY <3>1, <3>3, <4>2, <4>3, <4>9, <5>1
                <5> QED BY <1>1, <3>3, <4>9, <5>2
            <4> QED BY <3>3, <4>5, <4>6, <4>7, <4>8, <4>9
        <3> QED BY <2>8, <3>4
    <2> QED BY <2>5, <2>6, <2>7, <2>8
<1> QED BY <1>4, <1>11, <1>12 DEF IInv

\* Taking out the k-th element of a list.
LEMMA Removing ==
    ASSUME IInv,
           NEW l \in Lists, NEW k \in 1 .. Len(content[l]),
           NEW s \in Seq(Elems), Len(s) = Len(content[l]) - 1,
           \A i \in 1 .. Len(s) : s[i] = IF i < k THEN content[l][i] ELSE content[l][i + 1],
           Unlink(content[l][k]),
           size' = [size EXCEPT ![l] = @ - 1],
           content' = [content EXCEPT ![l] = s],
           ret' \in Nodes
    PROVE  IInv'
<1> DEFINE n == Len(content[l])
<1>1. /\ content[l] \in Seq(Elems) /\ n \in Nat /\ n > 0
      /\ content'[l] = s /\ Len(s) = n - 1
      /\ \A m \in Lists \ {l} : content'[m] = content[m] /\ size'[m] = size[m]
      /\ size'[l] = n - 1
    BY DEF IInv, TypeOK, Linked
<1>2. \A m \in Lists, i \in Int : At(m, i) \in Nodes
    BY AtIsNode DEF IInv
<1>3. \A j \in 0 .. n : next[At(l, j)] = At(l, j + 1) /\ prev[At(l, j + 1)] = At(l, j)
    BY DEF IInv, Linked
<1>4. content[l][k] = At(l, k)
    BY <1>1 DEF At
<1>5. next[content[l][k]] = At(l, k + 1) /\ prev[content[l][k]] = At(l, k - 1)
    <2>1. k \in 0 .. n /\ k - 1 \in 0 .. n /\ (k - 1) + 1 = k
        BY <1>1
    <2> QED BY <1>3, <1>4, <2>1
<1>6. /\ next' = [next EXCEPT ![At(l, k - 1)] = At(l, k + 1)]
      /\ prev' = [prev EXCEPT ![At(l, k + 1)] = At(l, k - 1)]
    BY <1>5 DEF Unlink
<1>7. At(l, k - 1) \in Nodes /\ At(l, k + 1) \in Nodes
    BY <1>1, <1>2
<1>8. /\ \A x \in Nodes \ {At(l, k - 1)} : next'[x] = next[x]
      /\ next'[At(l, k - 1)] = At(l, k + 1)
      /\ \A x \in Nodes \ {At(l, k + 1)} : prev'[x] = prev[x]
      /\ prev'[At(l, k + 1)] = At(l, k - 1)
    BY <1>6, <1>7 DEF IInv, TypeOK
<1>9. TypeOK'
    <2>1. next' \in [Nodes -> Nodes] /\ prev' \in [Nodes -> Nodes]
        BY <1>6, <1>7 DEF IInv, TypeOK
    <2>2. size' \in [Lists -> Nat]
        <3>1. size[l] - 1 \in Nat
            BY <1>1 DEF IInv, Linked
        <3> QED BY <3>1 DEF IInv, TypeOK
    <2>3. content' \in [Lists -> Seq(Elems)]
        BY DEF IInv, TypeOK
    <2> QED BY <2>1, <2>2, <2>3 DEF IInv, TypeOK, Nodes
<1>10. \A m \in Lists \ {l}, i \in Int : At(m, i)' = At(m, i)
    BY <1>1 DEF At
<1>11. \A i \in 0 .. n : At(l, i)' = IF i < k THEN At(l, i) ELSE At(l, i + 1)
    BY <1>1 DEF At
<1>12. At(l, n + 1) = At(l, 0)
    BY <1>1 DEF At
<1>13. \A i, j \in 0 .. n : At(l, i) = At(l, j) => i = j
    BY NodesApart DEF IInv
<1>14. ASSUME NEW m \in Lists \ {l}, NEW i \in 0 .. Len(content[m])
       PROVE  next'[At(m, i)'] = At(m, i + 1)' /\ prev'[At(m, i + 1)'] = At(m, i)'
    <2>1. content[m] \in Seq(Elems) /\ Len(content[m]) \in Nat
        BY DEF IInv, TypeOK
    <2>2. \E j \in 0 .. Len(content[m]) : At(m, i + 1) = At(m, j)
        <3>1. CASE i + 1 <= Len(content[m])
            BY <2>1, <3>1
        <3>2. CASE i + 1 = Len(content[m]) + 1
            BY <2>1, <3>2 DEF At
        <3>3. i + 1 <= Len(content[m]) \/ i + 1 = Len(content[m]) + 1
            BY <2>1
        <3> QED BY <3>1, <3>2, <3>3
    <2>3. \E j \in 0 .. n : At(l, k + 1) = At(l, j)
        BY <1>1, <1>12
    <2>4. At(m, i) # At(l, k - 1)
        BY <1>1, NodesApart DEF IInv
    <2>5. At(m, i + 1) # At(l, k + 1)
        BY <2>2, <2>3, NodesApart DEF IInv
    <2>6. next[At(m, i)] = At(m, i + 1) /\ prev[At(m, i + 1)] = At(m, i)
        BY DEF IInv, Linked
    <2> QED BY <1>2, <1>8, <1>10, <2>1, <2>4, <2>5, <2>6
<1>15. ASSUME NEW i \in 0 .. n - 1
       PROVE  next'[At(l, i)'] = At(l, i + 1)' /\ prev'[At(l, i + 1)'] = At(l, i)'
    <2>1. CASE i < k - 1
        <3>1. At(l, i)' = At(l, i) /\ At(l, i + 1)' = At(l, i + 1)
            BY <1>1, <1>11, <2>1
        <3>2. At(l, i) # At(l, k - 1)
            BY <1>1, <1>13, <2>1
        <3>3. At(l, i + 1) # At(l, k + 1)
            <4>1. CASE k < n
                BY <1>1, <1>13, <2>1, <4>1
            <4>2. CASE k = n
                BY <1>1, <1>12, <1>13, <2>1, <4>2
            <4> QED BY <1>1, <4>1, <4>2
        <3>4. next'[At(l, i)] = next[At(l, i)] /\ prev'[At(l, i + 1)] = prev[At(l, i + 1)]
            BY <1>2, <1>8, <3>2, <3>3
        <3> QED BY <1>1, <1>3, <3>1, <3>4
    <2>2. CASE i = k - 1
        <3>1. At(l, i)' = At(l, k - 1) /\ At(l, i + 1)' = At(l, k + 1)
            BY <1>1, <1>11, <2>2
        <3> QED BY <1>8, <3>1
    <2>3. CASE i > k - 1
        <3>1. At(l, i)' = At(l, i + 1) /\ At(l, i + 1)' = At(l, i + 2)
            BY <1>1, <1>11, <2>3
        <3>2. At(l, i + 1) # At(l, k - 1)
            BY <1>1, <1>13, <2>3
        <3>3. At(l, i + 2) # At(l, k + 1)
            <4>1. CASE i + 2 < n + 1
                BY <1>1, <1>13, <2>3, <4>1
            <4>2. CASE i + 2 = n + 1
                BY <1>1, <1>12, <1>13, <2>3, <4>2
            <4> QED BY <1>1, <4>1, <4>2
        <3>4. /\ next'[At(l, i + 1)] = next[At(l, i + 1)]
              /\ prev'[At(l, i + 2)] = prev[At(l, i + 2)]
            BY <1>2, <1>8, <3>2, <3>3
        <3>5. i + 1 \in 0 .. n /\ (i + 1) + 1 = i + 2
            BY <1>1
        <3> QED BY <1>3, <3>1, <3>4, <3>5
    <2> QED BY <1>1, <2>1, <2>2, <2>3
<1>16. Linked'
    <2> SUFFICES ASSUME NEW m \in Lists
                 PROVE  /\ size'[m] = Len(content'[m])
                        /\ \A i \in 0 .. Len(content'[m]) :
                            next'[At(m, i)'] = At(m, i + 1)' /\ prev'[At(m, i + 1)'] = At(m, i)'
        BY DEF Linked
    <2>1. CASE m = l
        BY <1>1, <1>15, <2>1
    <2>2. CASE m # l
        BY <1>1, <1>14, <2>2 DEF IInv, Linked
    <2> QED BY <2>1, <2>2
<1>17. Distinct'
    <2>1. \A m \in Lists : \A i \in 1 .. Len(content'[m]) :
            \E a \in 1 .. Len(content[m]) :
                /\ content'[m][i] = content[m][a]
                /\ a = IF m = l /\ i >= k THEN i + 1 ELSE i
        <3> SUFFICES ASSUME NEW m \in Lists, NEW i \in 1 .. Len(content'[m])
                     PROVE  \E a \in 1 .. Len(content[m]) :
                                /\ content'[m][i] = content[m][a]
                                /\ a = IF m = l /\ i >= k THEN i + 1 ELSE i
            OBVIOUS
        <3>1. CASE m = l
            BY <1>1, <3>1
        <3>2. CASE m # l
            BY <1>1, <3>2
        <3> QED BY <3>1, <3>2
    <2> SUFFICES ASSUME NEW m \in Lists, NEW h \in Lists,
                        NEW i \in 1 .. Len(content'[m]), NEW j \in 1 .. Len(content'[h]),
                        content'[m][i] = content'[h][j]
                 PROVE  m = h /\ i = j
        BY DEF Distinct
    <2>2. PICK a \in 1 .. Len(content[m]) :
            /\ content'[m][i] = content[m][a]
            /\ a = IF m = l /\ i >= k THEN i + 1 ELSE i
        BY <2>1
    <2>3. PICK b \in 1 .. Len(content[h]) :
            /\ content'[h][j] = content[h][b]
            /\ b = IF h = l /\ j >= k THEN j + 1 ELSE j
        BY <2>1
    <2>4. m = h /\ a = b
        BY <2>2, <2>3 DEF IInv, Distinct
    <2>5. i \in Int /\ j \in Int
        BY <1>1, <2>4 DEF IInv, TypeOK
    <2> QED BY <1>1, <2>2, <2>3, <2>4, <2>5
<1> QED BY <1>9, <1>16, <1>17 DEF IInv
-----------------------------------------------------------------------------
\* What a list's head points at.
LEMMA HeadLinks ==
    ASSUME IInv, NEW l \in Lists
    PROVE  LET n == Len(content[l]) IN
           /\ content[l] \in Seq(Elems) /\ n \in Nat /\ size[l] = n
           /\ next[l] = At(l, 1) /\ prev[l] = At(l, n)
           /\ At(l, 0) = l /\ At(l, n + 1) = l
<1> DEFINE n == Len(content[l])
<1>1. content[l] \in Seq(Elems) /\ n \in Nat /\ size[l] = n
    BY DEF IInv, TypeOK, Linked
<1>2. At(l, 0) = l /\ At(l, n + 1) = l
    BY <1>1 DEF At
<1>3. next[At(l, 0)] = At(l, 0 + 1) /\ prev[At(l, n + 1)] = At(l, n)
    BY <1>1 DEF IInv, Linked
<1> QED BY <1>1, <1>2, <1>3

LEMMA PushBackPreserves ==
    ASSUME IInv, NEW l \in Lists, NEW e \in Elems, PushBack(l, e)
    PROVE  IInv'
<1> DEFINE n == Len(content[l])
           s == Append(content[l], e)
<1>1. content[l] \in Seq(Elems) /\ n \in Nat /\ prev[l] = At(l, n) /\ At(l, n + 1) = l
    BY HeadLinks
<1>2. /\ s \in Seq(Elems) /\ Len(s) = n + 1
      /\ \A i \in 1 .. Len(s) :
            s[i] = IF i < n + 1 THEN content[l][i]
                   ELSE IF i = n + 1 THEN e ELSE content[l][i - 1]
    BY <1>1
<1>3. n + 1 \in 1 .. n + 1 /\ (n + 1) - 1 = n
    BY <1>1
<1>4. Add(e, At(l, (n + 1) - 1), At(l, n + 1))
    BY <1>1, <1>3 DEF PushBack
<1> QED BY <1>2, <1>3, <1>4, Inserting DEF PushBack

LEMMA PushFrontPreserves ==
    ASSUME IInv, NEW l \in Lists, NEW e \in Elems, PushFront(l, e)
    PROVE  IInv'
<1> DEFINE n == Len(content[l])
           s == <<e>> \o content[l]
<1>1. content[l] \in Seq(Elems) /\ n \in Nat /\ next[l] = At(l, 1) /\ At(l, 0) = l
    BY HeadLinks
<1>2. /\ s \in Seq(Elems) /\ Len(s) = n + 1
      /\ \A i \in 1 .. Len(s) :
            s[i] = IF i < 1 THEN content[l][i]
                   ELSE IF i = 1 THEN e ELSE content[l][i - 1]
    BY <1>1
<1>3. 1 \in 1 .. n + 1 /\ 1 - 1 = 0
    BY <1>1
<1>4. Add(e, At(l, 1 - 1), At(l, 1))
    BY <1>1, <1>3 DEF PushFront
<1> QED BY <1>2, <1>3, <1>4, Inserting DEF PushFront

LEMMA ErasePreserves ==
    ASSUME IInv, NEW l \in Lists, NEW k \in 1 .. Len(content[l]), Erase(l, k)
    PROVE  IInv'
<1> DEFINE s == Abstract!Without(content[l], k)
<1>1. content[l] \in Seq(Elems) /\ Len(content[l]) \in Nat
    BY HeadLinks
<1>2. /\ s \in Seq(Elems) /\ Len(s) = Len(content[l]) - 1
      /\ \A i \in 1 .. Len(s) : s[i] = IF i < k THEN content[l][i] ELSE content[l][i + 1]
    BY <1>1 DEF Abstract!Without
<1>3. ret' \in Nodes
    BY DEF Erase, IInv, TypeOK
<1> QED BY <1>2, <1>3, Removing DEF Erase

LEMMA PopFrontPreserves ==
    ASSUME IInv, NEW l \in Lists, PopFront(l)
    PROVE  IInv' /\ Abstract!PopAt(l, 1)
<1> DEFINE n == Len(content[l])
           s == Tail(content[l])
<1>1. content[l] \in Seq(Elems) /\ n \in Nat \ {0} /\ next[l] = At(l, 1)
    BY HeadLinks DEF PopFront
<1>2. 1 \in 1 .. n /\ next[l] = content[l][1]
    BY <1>1 DEF At
<1>3. /\ s \in Seq(Elems) /\ Len(s) = n - 1
      /\ \A i \in 1 .. Len(s) : s[i] = IF i < 1 THEN content[l][i] ELSE content[l][i + 1]
    BY <1>1
<1>4. ret' \in Nodes
    BY <1>1, <1>2 DEF PopFront, Nodes
<1>5. IInv'
    BY <1>2, <1>3, <1>4, Removing DEF PopFront
<1>6. s = Abstract!Without(content[l], 1)
    BY <1>1, <1>3 DEF Abstract!Without
<1> QED BY <1>2, <1>5, <1>6 DEF PopFront, Abstract!PopAt

LEMMA PopBackPreserves ==
    ASSUME IInv, NEW l \in Lists, PopBack(l)
    PROVE  IInv' /\ Abstract!PopAt(l, Len(content[l]))
<1> DEFINE n == Len(content[l])
           s == SubSeq(content[l], 1, n - 1)
<1>1. content[l] \in Seq(Elems) /\ n \in Nat \ {0} /\ prev[l] = At(l, n)
    BY HeadLinks DEF PopBack
<1>2. n \in 1 .. n /\ prev[l] = content[l][n]
    BY <1>1 DEF At
<1>3. /\ s \in Seq(Elems) /\ Len(s) = n - 1
      /\ \A i \in 1 .. Len(s) : s[i] = IF i < n THEN content[l][i] ELSE content[l][i + 1]
    BY <1>1
<1>4. ret' \in Nodes
    BY <1>1, <1>2 DEF PopBack, Nodes
<1>5. IInv'
    BY <1>2, <1>3, <1>4, Removing DEF PopBack
<1>6. s = Abstract!Without(content[l], n)
    BY <1>1, <1>3 DEF Abstract!Without
<1> QED BY <1>2, <1>5, <1>6 DEF PopBack, Abstract!PopAt

LEMMA FreeListLinkPreserves ==
    ASSUME IInv, NEW e \in Elems, FreeListLink(e)
    PROVE  IInv'
<1>1. Abstract!Loose(e)
    BY DEF FreeListLink
<1>2. TypeOK' /\ Distinct'
    BY DEF IInv, TypeOK, Distinct, FreeListLink, Nodes
<1>3. ASSUME NEW x \in Nodes, x # e
      PROVE  prev'[x] = prev[x]
    BY <1>3 DEF FreeListLink, IInv, TypeOK
<1>4. \A m \in Lists, i \in Int : At(m, i)' = At(m, i)
    BY DEF FreeListLink, At
<1>5. Linked'
    <2> SUFFICES ASSUME NEW m \in Lists
                 PROVE  /\ size'[m] = Len(content'[m])
                        /\ \A i \in 0 .. Len(content'[m]) :
                            next'[At(m, i)'] = At(m, i + 1)' /\ prev'[At(m, i + 1)'] = At(m, i)'
        BY DEF Linked
    <2>1. size'[m] = Len(content'[m])
        BY DEF IInv, Linked, FreeListLink
    <2>2. ASSUME NEW i \in 0 .. Len(content[m])
          PROVE  next'[At(m, i)'] = At(m, i + 1)' /\ prev'[At(m, i + 1)'] = At(m, i)'
        <3>1. i + 1 \in Int
            OBVIOUS
        <3>2. At(m, i + 1) \in Nodes /\ At(m, i + 1) # e
            BY <1>1, <3>1, AtIsNode, LooseIsNowhere DEF IInv
        <3>3. next' = next /\ prev'[At(m, i + 1)] = prev[At(m, i + 1)]
            BY <1>3, <3>2 DEF FreeListLink
        <3> QED BY <1>4, <3>1, <3>3 DEF IInv, Linked
    <2> QED BY <2>1, <2>2 DEF FreeListLink
<1> QED BY <1>2, <1>5 DEF IInv
-----------------------------------------------------------------------------
LEMMA InvariantHolds == Spec => []IInv
<1>1. Init => IInv
    <2> SUFFICES ASSUME Init
                 PROVE  IInv
        OBVIOUS
    <2>1. TypeOK
        BY DEF Init, TypeOK, Nodes
    <2>2. \A l \in Lists : content[l] = <<>> /\ size[l] = 0 /\ next[l] = l /\ prev[l] = l
        BY DEF Init, Nodes
    <2>3. Linked /\ Distinct
        BY <2>2 DEF Linked, Distinct, At
    <2> QED BY <2>1, <2>3 DEF IInv
<1>2. IInv /\ [Next]_vars => IInv'
    <2> SUFFICES ASSUME IInv, [Next]_vars
                 PROVE  IInv'
        OBVIOUS
    <2>1. ASSUME NEW l \in Lists, NEW e \in Elems, PushBack(l, e)
          PROVE  IInv'
        BY <2>1, PushBackPreserves
    <2>2. ASSUME NEW l \in Lists, NEW e \in Elems, PushFront(l, e)
          PROVE  IInv'
        BY <2>2, PushFrontPreserves
    <2>3. ASSUME NEW l \in Lists, NEW k \in 1 .. Len(content[l]), Erase(l, k)
          PROVE  IInv'
        BY <2>3, ErasePreserves
    <2>4. ASSUME NEW l \in Lists, PopFront(l)
          PROVE  IInv'
        BY <2>4, PopFrontPreserves
    <2>5. ASSUME NEW l \in Lists, PopBack(l)
          PROVE  IInv'
        BY <2>5, PopBackPreserves
    <2>6. ASSUME NEW e \in Elems, FreeListLink(e)
          PROVE  IInv'
        BY <2>6, FreeListLinkPreserves
    <2>7. CASE UNCHANGED vars
        BY <2>7 DEF vars, IInv, TypeOK, Linked, Distinct, At, Nodes
    <2> QED BY <2>1, <2>2, <2>3, <2>4, <2>5, <2>6, <2>7 DEF Next
<1> QED BY <1>1, <1>2, PTL DEF Spec

\* The pointers of every list lead through its elements in both directions and
\* m_size counts them, for any number of lists and elements.
THEOREM ListsStayLinked == Spec => []Linked
<1>1. IInv => Linked
    BY DEF IInv
<1> QED BY <1>1, InvariantHolds, PTL

\* The element a pop returns, which it reads from the head's links, is the end
\* of the list as a sequence; the other steps are steps of the sequences by name.
LEMMA StepOfSequences ==
    ASSUME IInv, [Next]_vars PROVE [Abstract!Next]_Abstract!vars
<1>1. ASSUME NEW l \in Lists, NEW e \in Elems, PushBack(l, e)
      PROVE  Abstract!Next
    BY <1>1 DEF PushBack, Abstract!PushBack, Abstract!Next
<1>2. ASSUME NEW l \in Lists, NEW e \in Elems, PushFront(l, e)
      PROVE  Abstract!Next
    BY <1>2 DEF PushFront, Abstract!PushFront, Abstract!Next
<1>3. ASSUME NEW l \in Lists, NEW k \in 1 .. Len(content[l]), Erase(l, k)
      PROVE  Abstract!Next
    BY <1>3 DEF Erase, Abstract!Erase, Abstract!Next
<1>4. ASSUME NEW l \in Lists, PopFront(l)
      PROVE  Abstract!Next
    BY <1>4, PopFrontPreserves DEF Abstract!Next
<1>5. ASSUME NEW l \in Lists, PopBack(l)
      PROVE  Abstract!Next
    BY <1>5, PopBackPreserves DEF Abstract!Next
<1>6. ASSUME NEW e \in Elems, FreeListLink(e)
      PROVE  UNCHANGED Abstract!vars
    BY <1>6 DEF FreeListLink, Abstract!vars
<1>7. CASE UNCHANGED vars
    BY <1>7 DEF vars, Abstract!vars
<1> QED BY <1>1, <1>2, <1>3, <1>4, <1>5, <1>6, <1>7 DEF Next

\* list.h implements ListSequence, its lists being those of the history variable.
THEOREM ListsAreSequences == Spec => FollowsSequences
<1>1. Init => Abstract!Init
    BY DEF Init, Nodes, Abstract!Init
<1>2. IInv /\ [Next]_vars => [Abstract!Next]_Abstract!vars
    BY StepOfSequences
<1> QED BY <1>1, <1>2, InvariantHolds, PTL DEF Spec, FollowsSequences, Abstract!Spec
-----------------------------------------------------------------------------
\* A set of natural numbers has a least member.
LEMMA LeastIn == ASSUME NEW S, S \subseteq Nat, S # {} PROVE \E x \in S : \A y \in S : x <= y
<1> DEFINE T == {0 .. x : x \in S}
           R == StrictSubsetOrdering(Nat)
<1>1. T \subseteq FiniteSubsetsOf(Nat) /\ T # {}
  <2>1. ASSUME NEW x \in S PROVE 0 .. x \in FiniteSubsetsOf(Nat)
    <3>1. IsFiniteSet(0 .. x) /\ 0 .. x \subseteq Nat
      BY FS_Interval
    <3>2. QED BY <3>1 DEF FiniteSubsetsOf
  <2>2. QED BY <2>1
<1>2. PICK m \in T : \A k \in T : <<k, m>> \notin R
  <2> HIDE DEF T
  <2>1. QED BY <1>1, FS_StrictSubsetOrderingWellFounded, WFMin
<1>3. PICK x \in S : m = 0 .. x
  OBVIOUS
<1>4. ASSUME NEW y \in S, y < x PROVE FALSE
  <2>1. 0 .. y \in T /\ 0 .. y \subseteq 0 .. x /\ x \in 0 .. x /\ x \notin 0 .. y
    BY <1>4
  <2>2. 0 .. y \in SUBSET Nat /\ 0 .. x \in SUBSET Nat
    OBVIOUS
  <2>3. <<0 .. y, 0 .. x>> \in R
    BY <2>1, <2>2 DEF StrictSubsetOrdering
  <2>4. QED BY <1>2, <1>3, <2>1, <2>3
<1>5. QED BY <1>4

\* Following the links from the head finds the elements in their order.
LEMMA WalkFindsContent == ASSUME IInv, NEW l \in Lists PROVE Walk(l) = content[l]
<1> DEFINE n == size[l]
           Step(f) == [i \in 0 .. n |-> IF i = 0 THEN l ELSE next[f[i - 1]]]
           G == [i \in 0 .. n |-> At(l, i)]
           R == CHOOSE f : f = Step(f)
<1>1. content[l] \in Seq(Elems) /\ n = Len(content[l]) /\ n \in Nat
    BY DEF IInv, TypeOK, Linked
<1>2. At(l, 0) = l
    BY DEF At
<1>3. ASSUME NEW i \in 1 .. n PROVE next[At(l, i - 1)] = At(l, i) /\ At(l, i) = content[l][i]
    <2>1. i - 1 \in 0 .. Len(content[l]) /\ (i - 1) + 1 = i
        BY <1>1
    <2>2. next[At(l, i - 1)] = At(l, (i - 1) + 1)
        BY <2>1 DEF IInv, Linked
    <2> QED BY <1>1, <2>1, <2>2 DEF At
<1>4. G = Step(G)
    <2>1. ASSUME NEW i \in 0 .. n PROVE G[i] = Step(G)[i]
        <3>1. CASE i = 0
            BY <1>1, <1>2, <3>1
        <3>2. CASE i # 0
            <4>1. i \in 1 .. n /\ i - 1 \in 0 .. n
                BY <1>1, <3>2
            <4>2. G[i - 1] = At(l, i - 1)
                BY <4>1
            <4> QED BY <1>3, <3>2, <4>1, <4>2
        <3> QED BY <3>1, <3>2
    <2> QED BY <2>1
<1>5. R = Step(R)
    <2> HIDE DEF G, Step
    <2> QED BY <1>4
<1> DEFINE Bad == {i \in 0 .. n : R[i] # At(l, i)}
<1> HIDE DEF R
<1>6. \A i \in 0 .. n : R[i] = Step(R)[i]
    <2> HIDE DEF Step
    <2> QED BY <1>5
<1>7. ASSUME Bad # {} PROVE FALSE
    <2>1. PICK i \in Bad : \A j \in Bad : i <= j
        <3>1. Bad \subseteq Nat
            OBVIOUS
        <3> HIDE DEF Bad
        <3> QED BY <1>7, <3>1, LeastIn
    <2>2. CASE i = 0
        BY <1>1, <1>2, <1>6, <2>1, <2>2
    <2>3. CASE i # 0
        <3>1. i \in 1 .. n /\ i - 1 \in 0 .. n /\ ~(i <= i - 1)
            BY <1>1, <2>1, <2>3
        <3>2. R[i - 1] = At(l, i - 1)
            BY <2>1, <3>1
        <3>3. R[i] = next[R[i - 1]]
            BY <1>6, <2>3, <3>1
        <3>4. R[i] = At(l, i)
            BY <1>3, <3>1, <3>2, <3>3
        <3> QED BY <2>1, <3>4
    <2> QED BY <2>2, <2>3
<1>8. \A i \in 1 .. n : R[i] = content[l][i]
    BY <1>1, <1>3, <1>7
<1>9. Walk(l) = [i \in 1 .. n |-> R[i]]
    BY DEF Walk, R
<1> QED BY <1>1, <1>8, <1>9

\* What the links lead to, without the history variable, are sequences on which
\* the operations of list.h act as ListSequence says.
THEOREM WalksAreSequences == Spec => ImplementsSequences
<1> DEFINE W == [l \in Lists |-> Walk(l)]
           J == IInv /\ W = content
<1>1. IInv => W = content
    <2> SUFFICES ASSUME IInv PROVE W = content
        OBVIOUS
    <2>1. \A l \in Lists : Walk(l) = content[l]
        BY WalkFindsContent
    <2> QED BY <2>1 DEF IInv, TypeOK
<1>2. Spec => []J
    BY <1>1, InvariantHolds, PTL
<1>3. Init /\ J => Walked!Init
    BY DEF Init, Nodes, Walked!Init
<1>4. J /\ J' /\ [Next]_vars => [Walked!Next]_(Walked!vars)
    <2> SUFFICES ASSUME J, J', [Next]_vars PROVE [Walked!Next]_(Walked!vars)
        OBVIOUS
    <2>1. [Abstract!Next]_Abstract!vars
        BY StepOfSequences
    <2>2. W = content /\ W' = content'
        OBVIOUS
    <2>3. ASSUME NEW e PROVE Walked!Loose(e) <=> Abstract!Loose(e)
        BY <2>2 DEF Walked!Loose, Walked!Members, Abstract!Loose, Abstract!Members
    <2>4. ASSUME NEW s, NEW k PROVE Walked!Without(s, k) = Abstract!Without(s, k)
        BY DEF Walked!Without, Abstract!Without
    <2>5. ASSUME NEW l \in Lists, NEW e \in Elems,
                 Abstract!PushBack(l, e) \/ Abstract!PushFront(l, e)
          PROVE  Walked!Next
        <3>1. Walked!PushBack(l, e) \/ Walked!PushFront(l, e)
            BY <2>2, <2>3, <2>5
            DEF Walked!PushBack, Walked!PushFront, Abstract!PushBack, Abstract!PushFront
        <3> QED BY <3>1 DEF Walked!Next
    <2>6. ASSUME NEW l \in Lists, NEW k \in 1 .. Len(content[l]), Abstract!Erase(l, k)
          PROVE  Walked!Next
        <3>1. Walked!Erase(l, k) /\ k \in 1 .. Len([m \in Lists |-> Walk(m)][l])
            BY <2>2, <2>4, <2>6 DEF Walked!Erase, Abstract!Erase
        <3> QED BY <3>1 DEF Walked!Next
    <2>7. ASSUME NEW l \in Lists, Abstract!PopAt(l, 1) \/ Abstract!PopAt(l, Len(content[l]))
          PROVE  Walked!Next
        <3>1. \/ Walked!PopAt(l, 1)
              \/ Walked!PopAt(l, Len([m \in Lists |-> Walk(m)][l]))
            BY <2>2, <2>4, <2>7 DEF Walked!PopAt, Abstract!PopAt
        <3> QED BY <3>1 DEF Walked!Next
    <2>8. CASE UNCHANGED Abstract!vars
        BY <2>2, <2>8 DEF Walked!vars, Abstract!vars
    <2> QED BY <2>1, <2>5, <2>6, <2>7, <2>8 DEF Abstract!Next
<1> QED BY <1>2, <1>3, <1>4, PTL DEF Spec, ImplementsSequences, Walked!Spec
=============================================================================
