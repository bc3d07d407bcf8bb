---------------------------- MODULE TimerProofs ----------------------------
(***************************************************************************)
(* Proofs that hold for every set of timers and of delays, every width of  *)
(* the wheel's levels, and for as long as the timer thread runs.           *)
(***************************************************************************)
EXTENDS Timer, TLAPS

\* What integer division yields.
LEMMA Division ==
  ASSUME NEW a \in Nat, NEW b \in Nat \ {0}
  PROVE  /\ a \div b \in Nat /\ a % b \in 0 .. b - 1
         /\ (a \div b) * b <= a /\ a < (a \div b) * b + b
         /\ a = (a \div b) * b + (a % b)
<1> DEFINE q == a \div b
           r == a % b
<1>1. q \in Nat
  OBVIOUS
<1>2. r \in 0 .. b - 1
  OBVIOUS
<1>3. a = b * q + r
  OBVIOUS
<1> HIDE DEF q, r
<1>4. b * q = q * b /\ q * b \in Nat
  BY <1>1
<1>5. q * b <= a /\ a < q * b + b /\ a = q * b + r
  BY <1>2, <1>3, <1>4
<1>6. QED BY <1>1, <1>2, <1>5 DEF q, r

\* A number is at most its product with a positive one.
LEMMA ProductGrows ==
  ASSUME NEW a \in Nat, NEW b \in Nat \ {0}
  PROVE  a * b \in Nat /\ a <= a * b /\ a * b = b * a
OBVIOUS

\* The quotient and the remainder of a number are the only ones.
LEMMA QuotientUnique ==
  ASSUME NEW b \in Nat \ {0}, NEW q \in Nat, NEW r \in 0 .. b - 1
  PROVE  (q * b + r) \div b = q /\ (q * b + r) % b = r
OBVIOUS

LEMMA DivideMultiple ==
  ASSUME NEW b \in Nat \ {0}, NEW q \in Nat
  PROVE  (q * b) \div b = q /\ (q * b) % b = 0
<1>1. q * b + 0 = q * b
  OBVIOUS
<1>2. QED BY QuotientUnique, <1>1

\* Multiples of b apart are at least b apart.
LEMMA MultiplesApart ==
  ASSUME NEW b \in Nat \ {0}, NEW p \in Nat, NEW q \in Nat, p < q
  PROVE  p * b + b <= q * b
<1>1. PICK d \in Nat : q = p + 1 + d
  <2>1. q - p - 1 \in Nat /\ q = p + 1 + (q - p - 1)
    OBVIOUS
  <2>2. QED BY <2>1
<1>2. (p + 1 + d) * b = p * b + b + d * b /\ d * b \in Nat /\ p * b \in Nat
  OBVIOUS
<1>3. QED BY <1>1, <1>2

LEMMA ReachNext ==
  /\ Reach(0) = Near
  /\ \A l \in 0 .. Levels : Reach(l) \in Nat \ {0}
  /\ \A l \in 0 .. Levels - 1 : Reach(l + 1) = Reach(l) * Slots
BY TimerAssumption DEF Reach

\* A turn of a level is whole slots of each level below it.
LEMMA ReachMultiple ==
  ASSUME NEW l \in 0 .. Levels - 1, NEW m \in 0 .. Levels - 1, l < m
  PROVE  \E k \in Nat : Reach(m) = (k * Slots) * Reach(l)
<1>1. \A r \in Nat : /\ r * Slots = (1 * Slots) * r
                      /\ (r * Slots) * Slots = (Slots * Slots) * r
                      /\ ((r * Slots) * Slots) * Slots = ((Slots * Slots) * Slots) * r
  BY TimerAssumption
<1>2. Slots \in Nat /\ Slots * Slots \in Nat /\ Levels \in 1 .. 4 /\ Reach(l) \in Nat
  BY TimerAssumption, ReachNext
<1>3. \A n \in 0 .. Levels - 1 : Reach(n + 1) = Reach(n) * Slots
  BY ReachNext
<1>4. Reach(l + 1) = Reach(l) * Slots
  BY <1>3
<1>5. CASE m = l + 1
  BY <1>1, <1>2, <1>4, <1>5
<1>6. CASE m = l + 2
  <2>1. Reach((l + 1) + 1) = Reach(l + 1) * Slots
    BY <1>2, <1>3, <1>6
  <2>2. Reach(m) = (Reach(l) * Slots) * Slots
    BY <1>4, <1>6, <2>1
  <2>3. QED BY <1>1, <1>2, <2>2
<1>7. CASE m = l + 3
  <2>1. Reach((l + 1) + 1) = Reach(l + 1) * Slots
    BY <1>2, <1>3, <1>7
  <2>2. Reach((l + 2) + 1) = Reach(l + 2) * Slots
    BY <1>2, <1>3, <1>7
  <2>3. (l + 1) + 1 = l + 2 /\ (l + 2) + 1 = m
    BY <1>7
  <2>4. Reach(m) = ((Reach(l) * Slots) * Slots) * Slots
    BY <1>4, <2>1, <2>2, <2>3
  <2>5. QED BY <1>1, <1>2, <2>4
<1>8. m \in {l + 1, l + 2, l + 3}
  BY <1>2
<1>9. QED BY <1>5, <1>6, <1>7, <1>8

\* So a multiple of a level's reach is one of m_near's turn.
LEMMA ReachNear ==
  ASSUME NEW l \in 0 .. Levels - 1, NEW q \in Nat
  PROVE  (q * Reach(l)) % Near = 0
<1>1. Near \in Nat \ {0} /\ Slots \in Nat /\ 0 \in 0 .. Levels - 1
  BY TimerAssumption
<1>2. PICK k \in Nat : Reach(l) = k * Near
  <2>1. CASE l = 0
    <3>1. Reach(l) = 1 * Near
      BY <1>1, <2>1, ReachNext
    <3>2. QED BY <3>1
  <2>2. CASE l # 0
    <3>1. PICK k \in Nat : Reach(l) = (k * Slots) * Reach(0)
      BY <1>1, <2>2, ReachMultiple
    <3>2. k * Slots \in Nat
      BY <1>1
    <3>3. QED BY <3>1, <3>2, ReachNext
  <2>3. QED BY <2>1, <2>2
<1>3. q * Reach(l) = (q * k) * Near /\ q * k \in Nat
  BY <1>1, <1>2
<1>4. QED BY <1>1, <1>3, DivideMultiple

\* The slot of level l that a time is in starts at a multiple of its reach ...
LEMMA SlotOf ==
  ASSUME NEW l \in 0 .. Levels - 1, NEW q \in Nat
  PROVE  Index(l, q * Reach(l)) = q % Slots
<1>1. Reach(l) \in Nat \ {0}
  BY ReachNext, TimerAssumption
<1>2. QED BY <1>1, DivideMultiple DEF Index

\* ... and the slot of a level below where that time starts is its first.
LEMMA FirstSlot ==
  ASSUME NEW l \in 0 .. Levels - 1, NEW m \in 0 .. Levels - 1, l < m, NEW q \in Nat
  PROVE  Index(l, q * Reach(m)) = 0
<1>1. PICK k \in Nat : Reach(m) = (k * Slots) * Reach(l)
  BY ReachMultiple
<1>2. Slots \in Nat \ {0} /\ q * k \in Nat
  BY TimerAssumption
<1>3. (q * k) * Slots \in Nat
  BY <1>2
<1>4. q * Reach(m) = ((q * k) * Slots) * Reach(l)
  <2>1. Reach(l) \in Nat
    BY ReachNext, TimerAssumption
  <2>2. \A r \in Nat : q * ((k * Slots) * r) = ((q * k) * Slots) * r
    BY <1>2
  <2>3. QED BY <1>1, <2>1, <2>2
<1>5. Index(l, q * Reach(m)) = ((q * k) * Slots) % Slots
  BY <1>3, <1>4, SlotOf
<1>6. QED BY <1>2, <1>5, DivideMultiple

\* A longer distance is in reach of a higher level only.
LEMMA ReachGrows == ASSUME NEW l \in 0 .. Levels - 1 PROVE Reach(l) <= MaxVal
<1>1. /\ Levels \in 1 .. 4 /\ Slots \in Nat \ {0, 1}
      /\ \A n \in 0 .. Levels : Reach(n) \in Nat \ {0}
  BY TimerAssumption, ReachNext
<1>2. \A n \in 0 .. Levels - 1 : Reach(n) + 1 <= Reach(n + 1)
  <2>1. TAKE n \in 0 .. Levels - 1
  <2>2. Reach(n) \in Nat \ {0} /\ Reach(n + 1) = Reach(n) * Slots
    BY <1>1, ReachNext
  <2>3. PICK d \in Nat : Slots = d + 2
    <3>1. Slots - 2 \in Nat /\ Slots = (Slots - 2) + 2
      BY <1>1
    <3>2. QED BY <3>1
  <2>4. Reach(n) * (d + 2) = Reach(n) * d + 2 * Reach(n) /\ Reach(n) * d \in Nat
    BY <2>2
  <2>5. QED BY <2>2, <2>3, <2>4
<1>3. \A n \in 0 .. Levels - 1 : n + 1 \in 0 .. Levels
  BY <1>1
<1>4. CASE l = Levels - 1
  BY <1>1, <1>2, <1>4 DEF MaxVal
<1>5. CASE l = Levels - 2
  <2>1. l + 1 = Levels - 1 /\ l + 1 \in 0 .. Levels - 1 /\ (l + 1) + 1 = Levels
    BY <1>1, <1>5
  <2>2. Reach(l) + 1 <= Reach(l + 1) /\ Reach(l + 1) + 1 <= Reach(Levels)
    BY <1>2, <2>1
  <2>3. QED BY <1>1, <2>1, <2>2 DEF MaxVal
<1>6. CASE l = Levels - 3
  <2>1. /\ l + 1 \in 0 .. Levels - 1 /\ l + 2 \in 0 .. Levels - 1
        /\ (l + 1) + 1 = l + 2 /\ (l + 2) + 1 = Levels
    BY <1>1, <1>6
  <2>2. Reach(l) + 1 <= Reach(l + 1) /\ Reach(l + 1) + 1 <= Reach(l + 2)
        /\ Reach(l + 2) + 1 <= Reach(Levels)
    BY <1>2, <2>1
  <2>3. Reach(l + 1) \in Nat /\ Reach(l + 2) \in Nat
    BY <1>1, <2>1
  <2>4. QED BY <1>1, <2>2, <2>3 DEF MaxVal
<1>7. CASE l = Levels - 4
  <2>1. l = 0 /\ Levels = 4 /\ 1 \in 0 .. Levels - 1 /\ 2 \in 0 .. Levels - 1 /\ 3 \in 0 .. Levels - 1
    BY <1>1, <1>7
  <2>2. /\ Reach(0) + 1 <= Reach(1) /\ Reach(1) + 1 <= Reach(2)
        /\ Reach(2) + 1 <= Reach(3) /\ Reach(3) + 1 <= Reach(4)
    BY <1>2, <2>1
  <2>3. \A n \in 0 .. 4 : Reach(n) \in Nat
    BY <1>1, <2>1
  <2>4. QED BY <2>1, <2>2, <2>3 DEF MaxVal
<1>8. QED BY <1>1, <1>4, <1>5, <1>6, <1>7

\* There is a level for every distance that m_near does not reach, and the
\* distance is at least what the levels below reach.
LEMMA LevelOf ==
  ASSUME NEW idx \in Nat, idx >= Near
  PROVE  Level(idx) \in 0 .. Levels - 1 /\ Reach(Level(idx)) <= idx
<1> DEFINE Fits(l) == /\ \A k \in 0 .. l - 1 : idx >= Reach(k + 1)
                      /\ idx < Reach(l + 1) \/ l = Levels - 1
<1>1. Levels \in 1 .. 4 /\ \A n \in 0 .. Levels : Reach(n) \in Nat
  BY TimerAssumption, ReachNext
<1>2. \E l \in 0 .. Levels - 1 : Fits(l)
  <2>1. CASE idx < Reach(1) \/ Levels = 1
    <3>1. 0 \in 0 .. Levels - 1 /\ Fits(0)
      BY <1>1, <2>1
    <3>2. QED BY <3>1
  <2>2. CASE idx >= Reach(1) /\ Levels > 1 /\ (idx < Reach(2) \/ Levels = 2)
    <3>1. 1 \in 0 .. Levels - 1 /\ Fits(1)
      BY <1>1, <2>2
    <3>2. QED BY <3>1
  <2>3. CASE /\ idx >= Reach(1) /\ idx >= Reach(2) /\ Levels > 2
             /\ idx < Reach(3) \/ Levels = 3
    <3>1. 2 \in 0 .. Levels - 1 /\ Fits(2)
      BY <1>1, <2>3
    <3>2. QED BY <3>1
  <2>4. CASE idx >= Reach(1) /\ idx >= Reach(2) /\ idx >= Reach(3) /\ Levels = 4
    <3>1. 3 \in 0 .. Levels - 1 /\ Fits(3)
      BY <1>1, <2>4
    <3>2. QED BY <3>1
  <2>5. /\ Reach(1) \in Nat
        /\ Levels > 1 => Reach(2) \in Nat
        /\ Levels > 2 => Reach(3) \in Nat
    BY <1>1
  <2>6. QED BY <1>1, <2>1, <2>2, <2>3, <2>4, <2>5
<1>3. Level(idx) = CHOOSE l \in 0 .. Levels - 1 : Fits(l)
  BY DEF Level
<1>4. Level(idx) \in 0 .. Levels - 1 /\ Fits(Level(idx))
  BY <1>2, <1>3
<1>5. CASE Level(idx) = 0
  BY <1>4, <1>5, ReachNext
<1>6. CASE Level(idx) # 0
  <2>1. Level(idx) - 1 \in 0 .. Level(idx) - 1 /\ (Level(idx) - 1) + 1 = Level(idx)
    BY <1>1, <1>4, <1>6
  <2>2. idx >= Reach((Level(idx) - 1) + 1)
    BY <1>4, <2>1
  <2>3. Reach(Level(idx)) \in Nat
    BY <1>1, <1>4
  <2>4. QED BY <1>4, <2>1, <2>2, <2>3
<1>7. QED BY <1>4, <1>5, <1>6

\* The time a far timer is placed by is not after its expiry, and as far from
\* m_jiffies as its level is.
LEMMA ShownOf ==
  ASSUME jiffies \in Nat, NEW e \in Nat, e - jiffies >= Near
  PROVE  /\ Shown(e) \in Nat /\ Shown(e) <= e
         /\ jiffies + Reach(Level(e - jiffies)) <= Shown(e)
<1>1. Near \in Nat /\ e - jiffies \in Nat
  BY TimerAssumption
<1>2. /\ Level(e - jiffies) \in 0 .. Levels - 1
      /\ Reach(Level(e - jiffies)) <= e - jiffies
  BY <1>1, LevelOf
<1>3. Reach(Level(e - jiffies)) \in Nat /\ MaxVal \in Nat
  <2>1. Levels \in 1 .. 4
    BY TimerAssumption
  <2>2. QED BY <1>2, <2>1, ReachNext DEF MaxVal
<1>4. Reach(Level(e - jiffies)) <= MaxVal
  BY <1>2, ReachGrows
<1> HIDE DEF MaxVal
<1>5. QED BY <1>1, <1>2, <1>3, <1>4 DEF Shown
-----------------------------------------------------------------------------
(* Where a timer is put *)

Lists == {InNear(i) : i \in 0 .. Near - 1}
           \cup {InBucket(l, i) : l \in 0 .. Levels - 1, i \in 0 .. Slots - 1}

\* The lists differ.
LEMMA ListsDiffer ==
  /\ \A i \in 0 .. Near - 1, j \in 0 .. Near - 1 : InNear(i) = InNear(j) => i = j
  /\ \A l \in 0 .. Levels - 1, i \in 0 .. Slots - 1, m \in 0 .. Levels - 1, j \in 0 .. Slots - 1 :
        InBucket(l, i) = InBucket(m, j) => l = m /\ i = j
  /\ \A i \in 0 .. Near - 1, l \in 0 .. Levels - 1, j \in 0 .. Slots - 1 : InNear(i) # InBucket(l, j)
<1>1. \A i, j : InNear(i) = InNear(j) => InNear(i).slot = InNear(j).slot
  OBVIOUS
<1>2. \A l, i, m, j : InBucket(l, i) = InBucket(m, j) =>
        InBucket(l, i).level = InBucket(m, j).level /\ InBucket(l, i).slot = InBucket(m, j).slot
  OBVIOUS
<1>3. \A i, l, j : InNear(i) = InBucket(l, j) => InNear(i).level = InBucket(l, j).level
  OBVIOUS
<1>4. \A i : InNear(i).slot = i /\ InNear(i).level = -1
  BY DEF InNear
<1>5. \A l, i : InBucket(l, i).level = l /\ InBucket(l, i).slot = i
  BY DEF InBucket
<1>6. Levels \in 1 .. 4
  BY TimerAssumption
<1>7. \A l \in 0 .. Levels - 1 : l # -1
  BY <1>6
<1>8. QED BY <1>1, <1>2, <1>3, <1>4, <1>5, <1>7

\* A timer whose time is past goes into the current slot of m_near, one that is
\* near into the slot of its expiry, and one that is far into a slot that the
\* timer thread comes to before it expires.
LEMMA PlaceOf ==
  ASSUME jiffies \in Nat, NEW e \in Nat
  PROVE  /\ Place(e) \in Lists
         /\ \A i \in 0 .. Near - 1 : Place(e) = InNear(i) =>
               \/ e < jiffies /\ i = jiffies % Near
               \/ jiffies <= e /\ e - jiffies < Near /\ i = e % Near
         /\ \A l \in 0 .. Levels - 1, i \in 0 .. Slots - 1 : Place(e) = InBucket(l, i) =>
               \E q \in Nat : /\ q % Slots = i
                              /\ jiffies < q * Reach(l) /\ q * Reach(l) <= e
<1>1. /\ Near \in Nat \ {0} /\ Slots \in Nat \ {0} /\ Levels \in 1 .. 4
  BY TimerAssumption
<1>2. CASE e < jiffies
  <2>1. jiffies % Near \in 0 .. Near - 1 /\ Place(e) = InNear(jiffies % Near)
    BY <1>1, <1>2, Division DEF Place
  <2> HIDE DEF Place
  <2>2. QED BY <1>2, <2>1, ListsDiffer DEF Lists
<1>3. CASE jiffies <= e /\ e - jiffies < Near
  <2>1. e % Near \in 0 .. Near - 1
    BY <1>1, Division
  <2>2. Place(e) = InNear(e % Near)
    BY <1>3 DEF Place
  <2>3. QED BY <1>3, <2>1, <2>2, ListsDiffer DEF Lists
<1>4. CASE jiffies <= e /\ e - jiffies >= Near
  <2> DEFINE l == Level(e - jiffies)
             q == Shown(e) \div Reach(l)
  <2>1. /\ e - jiffies \in Nat
        /\ Place(e) = InBucket(l, Index(l, Shown(e)))
    BY <1>1, <1>4 DEF Place
  <2>2. l \in 0 .. Levels - 1 /\ Reach(l) \in Nat \ {0}
    BY <1>1, <1>4, <2>1, LevelOf, ReachNext
  <2>3. Shown(e) \in Nat /\ Shown(e) <= e /\ jiffies + Reach(l) <= Shown(e)
    BY <1>1, <1>4, ShownOf
  <2> HIDE DEF l
  <2>4. /\ q \in Nat /\ q * Reach(l) <= Shown(e) /\ Shown(e) < q * Reach(l) + Reach(l)
    BY <2>2, <2>3, Division
  <2>5. q % Slots \in 0 .. Slots - 1 /\ Index(l, Shown(e)) = q % Slots
    BY <1>1, <2>4, Division DEF Index
  <2> HIDE DEF q
  <2>6. q * Reach(l) \in Nat
    BY <2>2, <2>4
  <2>7. jiffies < q * Reach(l) /\ q * Reach(l) <= e
    BY <2>2, <2>3, <2>4, <2>6
  <2>8. Place(e) = InBucket(l, q % Slots)
    BY <2>1, <2>5
  <2>9. QED BY <2>2, <2>4, <2>5, <2>7, <2>8, ListsDiffer DEF Lists
<1>5. QED BY <1>1, <1>2, <1>3, <1>4
-----------------------------------------------------------------------------
(* Types *)

Executing == {"execute", "execute_again"}

TypeInv ==
    /\ jiffies \in Nat
    /\ near \in [0 .. Near - 1 -> SUBSET Timers]
    /\ bucket \in [0 .. Levels - 1 -> [0 .. Slots - 1 -> SUBSET Timers]]
    /\ pc \in [Timers -> {"none", "add", "wheel", "fired", "freed"}]
    /\ entry \in [Timers -> 0 .. MaxEntries] /\ canceled \subseteq Nat
    /\ expired \in [Timers -> Nat]
    /\ stop \in [Timers -> {"no", "found", "canceled", "late", "missed"}]
    /\ added \in [Timers -> Nat] /\ fired \in [Timers -> Nat]
    /\ tpc \in Executing \cup {"advance"} \cup {CascadeStep(l) : l \in 0 .. Levels - 1}

LEMMA InitType == Init => TypeInv
BY TimerAssumption DEF Init, TypeInv, Executing

LEMMA StepsDiffer ==
  /\ \A l \in 0 .. Levels - 1 : CascadeStep(l) \notin Executing \cup {"advance"}
  /\ \A l \in 0 .. Levels - 1, m \in 0 .. Levels - 1 : CascadeStep(l) = CascadeStep(m) => l = m
  /\ CascadeStep(0) = "cascade0" /\ 0 \in 0 .. Levels - 1
  /\ "advance" \notin Executing
BY TimerAssumption DEF CascadeStep, Executing

LEMMA MoveType ==
  ASSUME TypeInv, NEW ts \in SUBSET Timers, NEW put \in SUBSET Timers, Move(ts, put)
  PROVE  /\ near' \in [0 .. Near - 1 -> SUBSET Timers]
         /\ bucket' \in [0 .. Levels - 1 -> [0 .. Slots - 1 -> SUBSET Timers]]
<1>1. \A i \in 0 .. Near - 1 :
        near[i] \cup {t \in put : Place(expired[t]) = InNear(i)} \subseteq Timers
  BY DEF TypeInv
<1>2. \A l \in 0 .. Levels - 1, i \in 0 .. Slots - 1 :
        (bucket[l][i] \ ts) \cup {t \in put : Place(expired[t]) = InBucket(l, i)} \subseteq Timers
  <2>1. TAKE l \in 0 .. Levels - 1, i \in 0 .. Slots - 1
  <2>2. bucket[l] \in [0 .. Slots - 1 -> SUBSET Timers]
    BY DEF TypeInv
  <2>3. bucket[l][i] \subseteq Timers
    BY <2>2
  <2>4. QED BY <2>3
<1>3. near' \in [0 .. Near - 1 -> SUBSET Timers]
  BY <1>1 DEF Move
<1>4. \A l \in 0 .. Levels - 1 :
        [i \in 0 .. Slots - 1 |->
          (bucket[l][i] \ ts) \cup {t \in put : Place(expired[t]) = InBucket(l, i)}]
            \in [0 .. Slots - 1 -> SUBSET Timers]
  BY <1>2
<1>5. bucket' \in [0 .. Levels - 1 -> [0 .. Slots - 1 -> SUBSET Timers]]
  BY <1>4 DEF Move
<1>6. QED BY <1>3, <1>5

\* The slots of the wheel that the timer thread works on are there.
LEMMA SlotType ==
  ASSUME TypeInv
  PROVE  /\ jiffies % Near \in 0 .. Near - 1 /\ near[jiffies % Near] \subseteq Timers
         /\ \A l \in 0 .. Levels - 1 :
               /\ Index(l, jiffies) \in 0 .. Slots - 1
               /\ bucket[l][Index(l, jiffies)] \subseteq Timers
<1>1. Near \in Nat \ {0} /\ Slots \in Nat \ {0} /\ Levels \in Nat
  BY TimerAssumption
<1>2. jiffies % Near \in 0 .. Near - 1
  BY <1>1, Division DEF TypeInv
<1>3. \A l \in 0 .. Levels - 1 : Index(l, jiffies) \in 0 .. Slots - 1
  <2>1. TAKE l \in 0 .. Levels - 1
  <2>2. Reach(l) \in Nat \ {0}
    BY <1>1, ReachNext
  <2>3. jiffies \div Reach(l) \in Nat
    BY <2>2, Division DEF TypeInv
  <2>4. QED BY <1>1, <2>3, Division DEF Index
<1>4. QED BY <1>2, <1>3 DEF TypeInv

LEMMA NextType == ASSUME TypeInv, [Next]_vars PROVE TypeInv'
<1>1. ASSUME NEW t \in Timers, Add(t) PROVE TypeInv'
  <2>1. /\ near' \in [0 .. Near - 1 -> SUBSET Timers]
        /\ bucket' \in [0 .. Levels - 1 -> [0 .. Slots - 1 -> SUBSET Timers]]
    BY <1>1, MoveType DEF Add
  <2>2. QED BY <1>1, <2>1 DEF Add, entries, TypeInv
<1>2. ASSUME NEW t \in Timers, NEW d \in Delays, Start(t, d) PROVE TypeInv'
  <2>1. jiffies + d \in Nat
    BY TimerAssumption DEF TypeInv
  <2>2. QED BY <1>2, <2>1 DEF Start, Entries, TypeInv
<1>3. ASSUME NEW t \in Timers, StopFind(t) \/ StopCancel(t) PROVE TypeInv'
  <2>1. CASE StopFind(t)
    BY <2>1 DEF StopFind, entries, TypeInv
  <2>2. CASE StopCancel(t)
    <3>1. canceled' \subseteq Nat
      <4>1. entry[t] \in Nat
        BY TimerAssumption DEF TypeInv
      <4>2. canceled' = canceled \cup {entry[t]} /\ canceled \subseteq Nat
        BY <2>2 DEF StopCancel, TypeInv
      <4>3. QED BY <4>1, <4>2
    <3>2. QED BY <2>2, <3>1 DEF StopCancel, TypeInv
  <2>3. QED BY <1>3, <2>1, <2>2
<1>4. ASSUME Execute PROVE TypeInv'
  <2>1. /\ near' \in [0 .. Near - 1 -> SUBSET Timers]
        /\ pc' \in [Timers -> {"none", "add", "wheel", "fired", "freed"}]
        /\ fired' \in [Timers -> Nat]
    BY <1>4, SlotType DEF Execute, TakenOff, Fire, TypeInv
  <2>2. tpc' \in {"execute", "cascade0", "advance"}
    BY <1>4 DEF Execute, AfterExecute
  <2>3. tpc' \in Executing \cup {"advance"} \cup {CascadeStep(l) : l \in 0 .. Levels - 1}
    BY <2>2, StepsDiffer DEF Executing
  <2>4. QED BY <1>4, <2>1, <2>3 DEF Execute, entries, TypeInv
<1>5. ASSUME Advance PROVE TypeInv'
  BY <1>5 DEF Advance, entries, TypeInv, Executing
<1>6. ASSUME NEW l \in 0 .. Levels - 1, Cascade(l) PROVE TypeInv'
  <2> DEFINE list == bucket[l][Index(l, jiffies)]
  <2>1. list \subseteq Timers /\ Live(list) \subseteq Timers
    BY SlotType DEF Live
  <2>2. /\ near' \in [0 .. Near - 1 -> SUBSET Timers]
        /\ bucket' \in [0 .. Levels - 1 -> [0 .. Slots - 1 -> SUBSET Timers]]
    BY <1>6, <2>1, MoveType DEF Cascade
  <2>3. pc' \in [Timers -> {"none", "add", "wheel", "fired", "freed"}]
    BY <1>6 DEF Cascade, TakenOff, TypeInv
  <2>4. tpc' \in Executing \cup {"advance"} \cup {CascadeStep(m) : m \in 0 .. Levels - 1}
    <3>1. l + 1 < Levels => l + 1 \in 0 .. Levels - 1
      BY TimerAssumption
    <3>2. QED BY <1>6, <3>1 DEF Cascade
  <2>5. QED BY <1>6, <2>2, <2>3, <2>4 DEF Cascade, entries, TypeInv
<1>7. CASE UNCHANGED vars
  BY <1>7 DEF vars, entries, TypeInv
<1>8. QED BY <1>1, <1>2, <1>3, <1>4, <1>5, <1>6, <1>7 DEF Next
-----------------------------------------------------------------------------
(* Every timer in one slot *)

\* What a list holds.
Holds(h) == IF h.level = -1 THEN near[h.slot] ELSE bucket[h.level][h.slot]

OnePlace(t) ==
    /\ \A g \in Lists, h \in Lists : t \in Holds(g) /\ t \in Holds(h) => g = h
    /\ pc[t] = "wheel" <=> \E h \in Lists : t \in Holds(h)

PlaceInv == \A t \in Timers : OnePlace(t)

LEMMA HoldsList ==
  /\ \A i \in 0 .. Near - 1 : Holds(InNear(i)) = near[i] /\ Holds(InNear(i))' = near'[i]
  /\ \A l \in 0 .. Levels - 1, i \in 0 .. Slots - 1 :
        /\ Holds(InBucket(l, i)) = bucket[l][i]
        /\ Holds(InBucket(l, i))' = bucket'[l][i]
<1>1. \A l \in 0 .. Levels - 1 : l # -1
  BY TimerAssumption
<1>2. QED BY <1>1 DEF Holds, InNear, InBucket

\* Moving timers that are not in m_near.
LEMMA MoveHolds ==
  ASSUME TypeInv, NEW ts, NEW put, Move(ts, put), \A i \in 0 .. Near - 1 : near[i] \cap ts = {}
  PROVE  \A h \in Lists : Holds(h)' = (Holds(h) \ ts) \cup {t \in put : Place(expired[t]) = h}
<1>1. TAKE h \in Lists
<1>2. CASE \E i \in 0 .. Near - 1 : h = InNear(i)
  <2>1. PICK i \in 0 .. Near - 1 : h = InNear(i)
    BY <1>2
  <2>2. near'[i] = near[i] \cup {t \in put : Place(expired[t]) = InNear(i)}
    BY DEF Move
  <2>3. near[i] = near[i] \ ts
    OBVIOUS
  <2>4. QED BY <2>1, <2>2, <2>3, HoldsList
<1>3. CASE \E l \in 0 .. Levels - 1, i \in 0 .. Slots - 1 : h = InBucket(l, i)
  <2>1. PICK l \in 0 .. Levels - 1, i \in 0 .. Slots - 1 : h = InBucket(l, i)
    BY <1>3
  <2>2. bucket'[l][i] = (bucket[l][i] \ ts) \cup {t \in put : Place(expired[t]) = InBucket(l, i)}
    BY DEF Move
  <2>3. QED BY <2>1, <2>2, HoldsList
<1>4. QED BY <1>2, <1>3 DEF Lists

\* Timers that leave their places, some of them for the place that is theirs
\* now, the others for good.
LEMMA MovePlace ==
  ASSUME TypeInv, PlaceInv, NEW ts \in SUBSET Timers, NEW put \in SUBSET ts, Move(ts, put),
         \A i \in 0 .. Near - 1 : near[i] \cap ts = {},
         \A t \in ts : pc'[t] = "wheel" <=> t \in put,
         \A t \in Timers \ ts : pc'[t] = pc[t]
  PROVE  PlaceInv'
<1>1. \A h \in Lists : Holds(h)' = (Holds(h) \ ts) \cup {t \in put : Place(expired[t]) = h}
  BY MoveHolds
<1>2. \A t \in Timers : Place(expired[t]) \in Lists
  BY PlaceOf DEF TypeInv
<1> SUFFICES ASSUME NEW t \in Timers PROVE OnePlace(t)'
  BY DEF PlaceInv
<1>3. OnePlace(t)
  BY DEF PlaceInv
<1>4. OnePlace(t)' = /\ \A g \in Lists, h \in Lists : t \in Holds(g)' /\ t \in Holds(h)' => g = h
                     /\ pc'[t] = "wheel" <=> \E h \in Lists : t \in Holds(h)'
  BY DEF OnePlace
<1> HIDE DEF Holds, Lists, Place
<1>5. CASE t \notin ts
  <2>1. \A h \in Lists : t \in Holds(h)' <=> t \in Holds(h)
    BY <1>1, <1>5
  <2>2. pc'[t] = pc[t]
    BY <1>5
  <2>3. QED BY <1>3, <1>4, <2>1, <2>2 DEF OnePlace
<1>6. CASE t \in put
  <2>1. \A h \in Lists : t \in Holds(h)' <=> h = Place(expired[t])
    BY <1>1, <1>6
  <2>2. QED BY <1>2, <1>4, <1>6, <2>1
<1>7. CASE t \in ts \ put
  <2>1. \A h \in Lists : t \notin Holds(h)'
    BY <1>1, <1>7
  <2>2. QED BY <1>4, <1>7, <2>1
<1>8. QED BY <1>5, <1>6, <1>7

\* Only Add and Cascade put timers into slots, and they take them from none or
\* from one.
LEMMA InitPlace == Init => PlaceInv
<1> SUFFICES ASSUME Init, NEW t \in Timers PROVE OnePlace(t)
  BY DEF PlaceInv
<1>1. \A h \in Lists : Holds(h) = {}
  <2>1. \A i \in 0 .. Near - 1 : Holds(InNear(i)) = {}
    BY HoldsList DEF Init
  <2>2. \A l \in 0 .. Levels - 1, i \in 0 .. Slots - 1 : Holds(InBucket(l, i)) = {}
    BY HoldsList DEF Init
  <2>3. QED BY <2>1, <2>2 DEF Lists
<1>2. pc[t] = "none"
  BY DEF Init
<1>3. QED BY <1>1, <1>2 DEF OnePlace

\* Steps that move nothing and start or end no wait.
LEMMA QuietPlace ==
  ASSUME PlaceInv, UNCHANGED <<near, bucket>>,
         \A t \in Timers : pc'[t] = "wheel" <=> pc[t] = "wheel"
  PROVE  PlaceInv'
BY DEF PlaceInv, OnePlace, Holds

LEMMA NextPlace == ASSUME TypeInv, PlaceInv, [Next]_vars PROVE PlaceInv'
<1>1. ASSUME NEW t \in Timers, Add(t) PROVE PlaceInv'
  <2>1. \A i \in 0 .. Near - 1 : near[i] \cap {t} = {}
    <3>1. \A h \in Lists : t \notin Holds(h)
      BY <1>1 DEF PlaceInv, OnePlace, Add
    <3>2. \A i \in 0 .. Near - 1 : t \notin Holds(InNear(i))
      BY <3>1 DEF Lists
    <3>3. QED BY <3>2, HoldsList
  <2>2. /\ Move({t}, {t}) /\ pc'[t] = "wheel"
        /\ \A u \in Timers \ {t} : pc'[u] = pc[u]
    BY <1>1 DEF Add, TypeInv
  <2>3. QED BY <2>1, <2>2, MovePlace
<1>2. ASSUME NEW t \in Timers, NEW d \in Delays, Start(t, d) PROVE PlaceInv'
  <2>1. \A u \in Timers : pc'[u] = "wheel" <=> pc[u] = "wheel"
    BY <1>2 DEF Start, TypeInv
  <2>2. QED BY <1>2, <2>1, QuietPlace DEF Start
<1>3. ASSUME NEW t \in Timers, StopFind(t) \/ StopCancel(t) PROVE PlaceInv'
  BY <1>3, QuietPlace DEF StopFind, StopCancel
<1>4. ASSUME Execute PROVE PlaceInv'
  <2> DEFINE n == jiffies % Near
  <2>1. n \in 0 .. Near - 1 /\ near \in [0 .. Near - 1 -> SUBSET Timers]
    BY SlotType DEF TypeInv
  <2> HIDE DEF n
  <2>2. near' = [near EXCEPT ![n] = {}] /\ bucket' = bucket
    BY <1>4 DEF Execute, n
  <2>3. \A t \in Timers : pc'[t] = "wheel" <=> t \notin near[n] /\ pc[t] = "wheel"
    BY <1>4 DEF Execute, TakenOff, n
  <2>4. InNear(n) \in Lists
    BY <2>1 DEF Lists
  <2>5. \A h \in Lists : Holds(h)' = IF h = InNear(n) THEN {} ELSE Holds(h)
    <3>1. \A i \in 0 .. Near - 1 :
            Holds(InNear(i))' = IF InNear(i) = InNear(n) THEN {} ELSE Holds(InNear(i))
      BY <2>1, <2>2, HoldsList, ListsDiffer
    <3>2. \A l \in 0 .. Levels - 1, i \in 0 .. Slots - 1 :
            Holds(InBucket(l, i))' = IF InBucket(l, i) = InNear(n) THEN {} ELSE Holds(InBucket(l, i))
      BY <2>1, <2>2, HoldsList, ListsDiffer
    <3>3. QED BY <3>1, <3>2 DEF Lists
  <2>6. near[n] = Holds(InNear(n))
    BY <2>1, HoldsList
  <2> SUFFICES ASSUME NEW t \in Timers PROVE OnePlace(t)'
    BY DEF PlaceInv
  <2>7. OnePlace(t)
    BY DEF PlaceInv
  <2>8. OnePlace(t)' = /\ \A g \in Lists, h \in Lists : t \in Holds(g)' /\ t \in Holds(h)' => g = h
                       /\ pc'[t] = "wheel" <=> \E h \in Lists : t \in Holds(h)'
    BY DEF OnePlace
  <2> HIDE DEF Holds, Lists
  <2>9. CASE t \in near[n]
    <3>1. \A h \in Lists : t \notin Holds(h)'
      BY <2>4, <2>5, <2>6, <2>7, <2>9 DEF OnePlace
    <3>2. QED BY <2>3, <2>8, <2>9, <3>1
  <2>10. CASE t \notin near[n]
    <3>1. \A h \in Lists : t \in Holds(h)' <=> t \in Holds(h)
      BY <2>5, <2>6, <2>10
    <3>2. QED BY <2>3, <2>7, <2>8, <2>10, <3>1 DEF OnePlace
  <2>11. QED BY <2>9, <2>10
<1>5. ASSUME Advance PROVE PlaceInv'
  BY <1>5, QuietPlace DEF Advance
<1>6. ASSUME NEW l \in 0 .. Levels - 1, Cascade(l) PROVE PlaceInv'
  <2> DEFINE list == bucket[l][Index(l, jiffies)]
  <2>1. list \in SUBSET Timers /\ Live(list) \in SUBSET list
    BY SlotType DEF Live
  <2>2. InBucket(l, Index(l, jiffies)) \in Lists /\ list = Holds(InBucket(l, Index(l, jiffies)))
    BY SlotType, HoldsList DEF Lists
  <2>3. /\ Move(list, Live(list))
        /\ \A t \in list : pc'[t] = IF t \in Live(list) THEN pc[t] ELSE "freed"
        /\ \A t \in Timers \ list : pc'[t] = pc[t]
    BY <1>6, <2>1 DEF Cascade, TakenOff
  <2> HIDE DEF list
  <2>4. \A t \in list : pc[t] = "wheel"
    BY <2>1, <2>2 DEF PlaceInv, OnePlace
  <2>5. \A i \in 0 .. Near - 1 : near[i] \cap list = {}
    <3>1. \A i \in 0 .. Near - 1 : InNear(i) \in Lists
      BY DEF Lists
    <3>2. \A i \in 0 .. Near - 1 : InNear(i) # InBucket(l, Index(l, jiffies))
      BY SlotType, ListsDiffer
    <3>3. \A i \in 0 .. Near - 1 : Holds(InNear(i)) \cap list = {}
      BY <2>1, <2>2, <3>1, <3>2 DEF PlaceInv, OnePlace
    <3>4. QED BY <3>3, HoldsList
  <2>6. \A t \in list : pc'[t] = "wheel" <=> t \in Live(list)
    BY <2>3, <2>4
  <2>7. QED BY <2>1, <2>3, <2>5, <2>6, MovePlace
<1>7. CASE UNCHANGED vars
  BY <1>7, QuietPlace DEF vars
<1>8. QED BY <1>1, <1>2, <1>3, <1>4, <1>5, <1>6, <1>7 DEF Next

LEMMA PlaceInOneSlot == ASSUME TypeInv, PlaceInv PROVE InOneSlot
<1> SUFFICES
      ASSUME NEW t \in Timers
      PROVE  LET homes == {InNear(i) : i \in {i \in 0 .. Near - 1 : t \in near[i]}}
                    \cup {InBucket(p[1], p[2]) : p \in {p \in (0 .. Levels - 1) \X (0 .. Slots - 1) :
                                                            t \in bucket[p[1]][p[2]]}}
             IN  IF pc[t] = "wheel" THEN \E h \in homes : homes = {h} ELSE homes = {}
  BY DEF InOneSlot
<1> DEFINE homes == {InNear(i) : i \in {i \in 0 .. Near - 1 : t \in near[i]}}
              \cup {InBucket(p[1], p[2]) : p \in {p \in (0 .. Levels - 1) \X (0 .. Slots - 1) :
                                                      t \in bucket[p[1]][p[2]]}}
<1>1. \A h : h \in homes <=> h \in Lists /\ t \in Holds(h)
  <2>1. ASSUME NEW h \in homes PROVE h \in Lists /\ t \in Holds(h)
    BY HoldsList DEF Lists
  <2>2. ASSUME NEW h \in Lists, t \in Holds(h) PROVE h \in homes
    <3>1. CASE \E i \in 0 .. Near - 1 : h = InNear(i)
      BY <2>2, <3>1, HoldsList
    <3>2. CASE \E l \in 0 .. Levels - 1, i \in 0 .. Slots - 1 : h = InBucket(l, i)
      <4>1. PICK l \in 0 .. Levels - 1, i \in 0 .. Slots - 1 : h = InBucket(l, i)
        BY <3>2
      <4>2. <<l, i>> \in {p \in (0 .. Levels - 1) \X (0 .. Slots - 1) : t \in bucket[p[1]][p[2]]}
        BY <2>2, <4>1, HoldsList
      <4>3. QED BY <4>1, <4>2
    <3>3. QED BY <3>1, <3>2 DEF Lists
  <2>3. QED BY <2>1, <2>2
<1>2. OnePlace(t)
  BY DEF PlaceInv
<1> HIDE DEF homes
<1>3. IF pc[t] = "wheel" THEN \E h \in homes : homes = {h} ELSE homes = {}
  BY <1>1, <1>2 DEF OnePlace
<1>4. QED BY <1>3 DEF homes

\* A timer that waits is in one slot of the wheel, whatever levels it has come
\* through, and one that has fired or been freed is in none.
THEOREM OneSlotEach == Spec => []InOneSlot
<1>1. Init => TypeInv /\ PlaceInv
  BY InitType, InitPlace
<1>2. TypeInv /\ PlaceInv /\ [Next]_vars => (TypeInv /\ PlaceInv)'
  BY NextType, NextPlace
<1>3. TypeInv /\ PlaceInv => InOneSlot
  BY PlaceInOneSlot
<1>4. QED BY <1>1, <1>2, <1>3, PTL DEF Spec
-----------------------------------------------------------------------------
(* When a timer's slot has its turn *)

\* The cascade of level l in this turn of m_near is still to come.
CascadeAhead(l) == tpc \in Executing \/ \E k \in 0 .. l : tpc = CascadeStep(k)

\* Slot i of m_near has its turn again before timer t is a turn late, and not
\* before t's expiry.
NearOK(t, i) ==
    /\ \/ expired[t] <= jiffies
       \/ expired[t] - jiffies < Near /\ expired[t] % Near = i
    /\ \E n \in Nat : /\ n % Near = i /\ n <= Due(t) + Near
                      /\ \/ jiffies < n
                         \/ jiffies = n /\ tpc \in Executing

\* Slot i of level l is cascaded before timer t expires.
BucketOK(t, l, i) ==
    \E q \in Nat : /\ q % Slots = i /\ q * Reach(l) <= expired[t]
                   /\ \/ jiffies < q * Reach(l)
                      \/ jiffies = q * Reach(l) /\ CascadeAhead(l)

\* A level is cascaded when its first slots begin.
TurnInv == \A l \in 0 .. Levels - 1 :
               tpc = CascadeStep(l) => \E q \in Nat : jiffies = q * Reach(l)
NearInv == \A i \in 0 .. Near - 1 : \A t \in near[i] : NearOK(t, i)
BucketInv == \A l \in 0 .. Levels - 1, i \in 0 .. Slots - 1 : \A t \in bucket[l][i] : BucketOK(t, l, i)
FiredInv == \A t \in Timers : pc[t] = "fired" => fired[t] >= expired[t] /\ fired[t] <= Due(t) + Near

TimeInv == TurnInv /\ NearInv /\ BucketInv /\ FiredInv

\* A timer that has just found its place: Add notes the time, and what Cascade
\* moves has not expired.
LEMMA PlacedOK ==
  ASSUME TypeInv, TypeInv', UNCHANGED <<jiffies, expired>>, NEW t \in Timers,
         jiffies <= expired[t] \/ added'[t] = jiffies
  PROVE  /\ \A i \in 0 .. Near - 1 : Place(expired[t]) = InNear(i) => NearOK(t, i)'
         /\ \A l \in 0 .. Levels - 1, i \in 0 .. Slots - 1 :
               Place(expired[t]) = InBucket(l, i) => BucketOK(t, l, i)'
<1>1. jiffies \in Nat /\ expired[t] \in Nat /\ added'[t] \in Nat /\ Near \in Nat \ {0}
  BY TimerAssumption DEF TypeInv
<1>2. Due(t)' = IF expired[t] > added'[t] THEN expired[t] ELSE added'[t]
  BY DEF Due
<1>3. \A k \in Nat : k + Near \in Nat /\ (k + Near) % Near = k % Near
  <2>1. TAKE k \in Nat
  <2>2. k \div Near \in Nat /\ k % Near \in 0 .. Near - 1 /\ k = (k \div Near) * Near + (k % Near)
    BY <1>1, Division
  <2>3. ((k \div Near) + 1) * Near = (k \div Near) * Near + Near
    BY <1>1, <2>2
  <2>4. k + Near = ((k \div Near) + 1) * Near + (k % Near) /\ (k \div Near) + 1 \in Nat
    BY <1>1, <2>2, <2>3
  <2>5. (((k \div Near) + 1) * Near + (k % Near)) % Near = k % Near
    BY <1>1, <2>2, <2>4, QuotientUnique
  <2>6. QED BY <1>1, <2>4, <2>5
<1>4. ASSUME NEW i \in 0 .. Near - 1, Place(expired[t]) = InNear(i) PROVE NearOK(t, i)'
  <2>1. \/ expired[t] < jiffies /\ i = jiffies % Near
        \/ jiffies <= expired[t] /\ expired[t] - jiffies < Near /\ i = expired[t] % Near
    BY <1>1, <1>4, PlaceOf
  <2>2. CASE expired[t] < jiffies /\ i = jiffies % Near
    <3>1. jiffies + Near <= Due(t)' + Near /\ jiffies < jiffies + Near
      BY <1>1, <1>2, <2>2
    <3>2. (jiffies + Near) % Near = i /\ jiffies + Near \in Nat
      BY <1>1, <1>3, <2>2
    <3>3. QED BY <1>1, <2>2, <3>1, <3>2 DEF NearOK
  <2>3. CASE jiffies <= expired[t] /\ expired[t] - jiffies < Near /\ i = expired[t] % Near
    <3>1. expired[t] + Near <= Due(t)' + Near /\ jiffies < expired[t] + Near
      BY <1>1, <1>2, <2>3
    <3>2. (expired[t] + Near) % Near = i /\ expired[t] + Near \in Nat
      BY <1>1, <1>3, <2>3
    <3>3. QED BY <1>1, <2>3, <3>1, <3>2 DEF NearOK
  <2>4. QED BY <2>1, <2>2, <2>3
<1>5. ASSUME NEW l \in 0 .. Levels - 1, NEW i \in 0 .. Slots - 1,
             Place(expired[t]) = InBucket(l, i)
      PROVE  BucketOK(t, l, i)'
  <2>1. PICK q \in Nat : q % Slots = i /\ jiffies < q * Reach(l) /\ q * Reach(l) <= expired[t]
    BY <1>1, <1>5, PlaceOf
  <2>2. QED BY <2>1 DEF BucketOK
<1>6. QED BY <1>4, <1>5

\* A timer that stays where it is.
LEMMA NearStays ==
  ASSUME TypeInv, jiffies' = jiffies, NEW t \in Timers, NEW i \in 0 .. Near - 1, NearOK(t, i),
         expired'[t] = expired[t] /\ added'[t] = added[t],
         tpc \in Executing => tpc' \in Executing \/ i # jiffies % Near
  PROVE  NearOK(t, i)'
<1>1. Due(t)' = Due(t)
  BY DEF Due
<1>2. PICK n \in Nat : /\ n % Near = i /\ n <= Due(t) + Near
                       /\ \/ jiffies < n
                          \/ jiffies = n /\ tpc \in Executing
  BY DEF NearOK
<1>3. jiffies' < n \/ (jiffies' = n /\ tpc' \in Executing)
  BY <1>2
<1>4. QED BY <1>1, <1>2, <1>3 DEF NearOK

LEMMA BucketStays ==
  ASSUME TypeInv, jiffies' = jiffies, NEW t \in Timers,
         NEW l \in 0 .. Levels - 1, NEW i \in 0 .. Slots - 1, BucketOK(t, l, i),
         expired'[t] = expired[t],
         CascadeAhead(l) => \/ CascadeAhead(l)'
                            \/ \A q \in Nat : q % Slots = i => jiffies # q * Reach(l)
  PROVE  BucketOK(t, l, i)'
<1>1. PICK q \in Nat : /\ q % Slots = i /\ q * Reach(l) <= expired[t]
                       /\ \/ jiffies < q * Reach(l)
                          \/ jiffies = q * Reach(l) /\ CascadeAhead(l)
  BY DEF BucketOK
<1>2. jiffies' < q * Reach(l) \/ (jiffies' = q * Reach(l) /\ CascadeAhead(l)')
  BY <1>1
<1>3. QED BY <1>1, <1>2 DEF BucketOK

\* What is in a slot waits in the wheel.
LEMMA InWheel ==
  ASSUME TypeInv, PlaceInv
  PROVE  /\ \A i \in 0 .. Near - 1 : \A t \in near[i] : t \in Timers /\ pc[t] = "wheel"
         /\ \A l \in 0 .. Levels - 1, i \in 0 .. Slots - 1 :
               \A t \in bucket[l][i] : t \in Timers /\ pc[t] = "wheel"
<1>1. ASSUME NEW i \in 0 .. Near - 1, NEW t \in near[i]
      PROVE  t \in Timers /\ pc[t] = "wheel"
  <2>1. t \in Timers
    BY DEF TypeInv
  <2>2. InNear(i) \in Lists /\ t \in Holds(InNear(i))
    BY HoldsList DEF Lists
  <2>3. QED BY <2>1, <2>2 DEF PlaceInv, OnePlace
<1>2. ASSUME NEW l \in 0 .. Levels - 1, NEW i \in 0 .. Slots - 1, NEW t \in bucket[l][i]
      PROVE  t \in Timers /\ pc[t] = "wheel"
  <2>1. bucket[l] \in [0 .. Slots - 1 -> SUBSET Timers]
    BY DEF TypeInv
  <2>2. InBucket(l, i) \in Lists /\ t \in Holds(InBucket(l, i))
    BY HoldsList DEF Lists
  <2>3. QED BY <2>1, <2>2 DEF PlaceInv, OnePlace
<1>3. QED BY <1>1, <1>2

LEMMA InitTime == Init => TimeInv
<1> SUFFICES ASSUME Init PROVE TimeInv
  OBVIOUS
<1>1. TurnInv
  BY StepsDiffer DEF Init, TurnInv, Executing
<1>2. NearInv /\ BucketInv /\ FiredInv
  BY DEF Init, NearInv, BucketInv, FiredInv
<1>3. QED BY <1>1, <1>2 DEF TimeInv

\* Steps that leave the wheel, the clock and the timers in it alone.
LEMMA QuietTime ==
  ASSUME TypeInv, PlaceInv, TimeInv, UNCHANGED <<jiffies, near, bucket, added, fired, tpc>>,
         \A t \in Timers : expired'[t] = expired[t] \/ pc[t] = "none",
         \A t \in Timers : pc'[t] = "fired" => pc[t] = "fired"
  PROVE  TimeInv'
<1>1. TurnInv'
  BY DEF TimeInv, TurnInv
<1>2. NearInv'
  <2> SUFFICES ASSUME NEW i \in 0 .. Near - 1, NEW t \in near[i] PROVE NearOK(t, i)'
    BY DEF NearInv
  <2>1. t \in Timers /\ pc[t] = "wheel"
    BY InWheel
  <2>2. expired'[t] = expired[t] /\ NearOK(t, i)
    BY <2>1 DEF TimeInv, NearInv
  <2>3. QED BY <2>1, <2>2, NearStays
<1>3. BucketInv'
  <2> SUFFICES ASSUME NEW l \in 0 .. Levels - 1, NEW i \in 0 .. Slots - 1, NEW t \in bucket[l][i]
               PROVE  BucketOK(t, l, i)'
    BY DEF BucketInv
  <2>1. t \in Timers /\ pc[t] = "wheel"
    BY InWheel
  <2>2. expired'[t] = expired[t] /\ BucketOK(t, l, i)
    BY <2>1 DEF TimeInv, BucketInv
  <2>3. CascadeAhead(l)' = CascadeAhead(l)
    BY DEF CascadeAhead
  <2>4. QED BY <2>1, <2>2, <2>3, BucketStays
<1>4. FiredInv'
  <2> SUFFICES ASSUME NEW t \in Timers, pc'[t] = "fired"
               PROVE  fired'[t] >= expired'[t] /\ fired'[t] <= Due(t)' + Near
    BY DEF FiredInv
  <2>1. pc[t] = "fired" /\ expired'[t] = expired[t] /\ fired'[t] = fired[t]
    OBVIOUS
  <2>2. QED BY <2>1 DEF TimeInv, FiredInv, Due
<1>5. QED BY <1>1, <1>2, <1>3, <1>4 DEF TimeInv

\* Steps that put timers into slots.
LEMMA MoveTime ==
  ASSUME TypeInv, TypeInv', NearInv, BucketInv, UNCHANGED <<jiffies, expired>>,
         NEW ts \in SUBSET Timers, NEW put \in SUBSET ts, Move(ts, put),
         \A i \in 0 .. Near - 1 : near[i] \cap ts = {},
         \A t \in Timers \ put : added'[t] = added[t],
         \A t \in put : jiffies <= expired[t] \/ added'[t] = jiffies,
         tpc \in Executing => tpc' \in Executing,
         \A l \in 0 .. Levels - 1, i \in 0 .. Slots - 1 : \A t \in bucket[l][i] \ ts :
            CascadeAhead(l) => \/ CascadeAhead(l)'
                               \/ \A q \in Nat : q % Slots = i => jiffies # q * Reach(l)
  PROVE  NearInv' /\ BucketInv'
<1>1. ASSUME NEW i \in 0 .. Near - 1, NEW t \in near'[i] PROVE NearOK(t, i)'
  <2>1. near'[i] = near[i] \cup {u \in put : Place(expired[u]) = InNear(i)}
    BY DEF Move
  <2>2. CASE t \in near[i]
    <3>1. t \in Timers \ put /\ NearOK(t, i)
      BY <2>2 DEF TypeInv, NearInv
    <3>2. added'[t] = added[t] /\ expired'[t] = expired[t]
      BY <3>1
    <3>3. QED BY <3>1, <3>2, NearStays
  <2>3. CASE t \in put /\ Place(expired[t]) = InNear(i)
    BY <2>3, PlacedOK
  <2>4. QED BY <2>1, <2>2, <2>3
<1>2. ASSUME NEW l \in 0 .. Levels - 1, NEW i \in 0 .. Slots - 1, NEW t \in bucket'[l][i]
      PROVE  BucketOK(t, l, i)'
  <2>1. bucket'[l][i] =
          (bucket[l][i] \ ts) \cup {u \in put : Place(expired[u]) = InBucket(l, i)}
    BY DEF Move
  <2>2. CASE t \in bucket[l][i] \ ts
    <3>1. bucket[l] \in [0 .. Slots - 1 -> SUBSET Timers]
      BY DEF TypeInv
    <3>2. t \in Timers /\ BucketOK(t, l, i) /\ expired'[t] = expired[t]
      BY <2>2, <3>1 DEF BucketInv
    <3>3. CascadeAhead(l) => \/ CascadeAhead(l)'
                             \/ \A q \in Nat : q % Slots = i => jiffies # q * Reach(l)
      BY <2>2
    <3>4. QED BY <3>2, <3>3, BucketStays
  <2>3. CASE t \in put /\ Place(expired[t]) = InBucket(l, i)
    BY <2>3, PlacedOK
  <2>4. QED BY <2>1, <2>2, <2>3
<1>3. QED BY <1>1, <1>2 DEF NearInv, BucketInv

LEMMA AddTime ==
  ASSUME TypeInv, PlaceInv, TimeInv, TypeInv', NEW t \in Timers, Add(t) PROVE TimeInv'
<1>1. /\ Move({t}, {t}) /\ pc[t] = "add" /\ pc'[t] = "wheel" /\ added'[t] = jiffies
      /\ \A u \in Timers \ {t} : pc'[u] = pc[u] /\ added'[u] = added[u]
      /\ UNCHANGED <<jiffies, entries, expired, stop, fired, tpc>>
  BY DEF Add, TypeInv
<1>2. \A i \in 0 .. Near - 1 : near[i] \cap {t} = {}
  BY <1>1, InWheel
<1>3. \A l \in 0 .. Levels - 1 : CascadeAhead(l)' = CascadeAhead(l)
  BY <1>1 DEF CascadeAhead
<1>4. NearInv' /\ BucketInv'
  BY <1>1, <1>2, <1>3, MoveTime DEF TimeInv
<1>5. TurnInv'
  BY <1>1 DEF TimeInv, TurnInv
<1>6. FiredInv'
  <2> SUFFICES ASSUME NEW u \in Timers, pc'[u] = "fired"
               PROVE  fired'[u] >= expired'[u] /\ fired'[u] <= Due(u)' + Near
    BY DEF FiredInv
  <2>1. u # t /\ pc[u] = "fired" /\ added'[u] = added[u] /\ expired'[u] = expired[u]
        /\ fired'[u] = fired[u]
    BY <1>1
  <2>2. QED BY <2>1 DEF TimeInv, FiredInv, Due
<1>7. QED BY <1>4, <1>5, <1>6 DEF TimeInv

\* A slot of m_near that has its turn holds timers that are due, none of them
\* more than a turn late.
LEMMA DueNow ==
  ASSUME TypeInv, NearInv, tpc \in Executing, NEW t \in near[jiffies % Near]
  PROVE  t \in Timers /\ expired[t] <= jiffies /\ jiffies <= Due(t) + Near
<1>1. Near \in Nat \ {0} /\ jiffies % Near \in 0 .. Near - 1 /\ jiffies \in Nat
  BY TimerAssumption, SlotType DEF TypeInv
<1>2. t \in Timers /\ NearOK(t, jiffies % Near)
  BY <1>1 DEF TypeInv, NearInv
<1>3. expired[t] \in Nat /\ Due(t) \in Nat
  BY <1>2 DEF TypeInv, Due
<1>4. expired[t] <= jiffies
  <2> SUFFICES ASSUME expired[t] > jiffies PROVE FALSE
    BY <1>1, <1>3
  <2>1. expired[t] - jiffies < Near /\ expired[t] % Near = jiffies % Near
    BY <1>1, <1>2, <1>3 DEF NearOK
  <2>2. /\ jiffies \div Near \in Nat /\ expired[t] \div Near \in Nat
        /\ jiffies = (jiffies \div Near) * Near + (jiffies % Near)
        /\ expired[t] = (expired[t] \div Near) * Near + (expired[t] % Near)
    BY <1>1, <1>3, Division
  <2> DEFINE p == jiffies \div Near
             q == expired[t] \div Near
  <2>3. /\ p \in Nat /\ q \in Nat /\ p * Near \in Nat /\ q * Near \in Nat
        /\ p * Near < q * Near /\ q * Near < p * Near + Near
    <3>1. p * Near \in Nat /\ q * Near \in Nat
      BY <1>1, <2>2
    <3> DEFINE a == p * Near
               b == q * Near
               r == jiffies % Near
    <3>2. a \in Nat /\ b \in Nat /\ r \in Nat /\ jiffies = a + r /\ expired[t] = b + r
      BY <1>1, <2>1, <2>2, <3>1
    <3> HIDE DEF a, b, r
    <3>3. a < b /\ b < a + Near
      BY <1>1, <1>3, <2>1, <3>2
    <3>4. QED BY <2>2, <3>1, <3>3 DEF a, b
  <2> HIDE DEF p, q
  <2>4. p < q
    <3>1. CASE p = q
      BY <2>3, <3>1
    <3>2. CASE q < p
      <4>1. q * Near + Near <= p * Near
        BY <1>1, <2>3, <3>2, MultiplesApart
      <4>2. QED BY <1>1, <2>3, <4>1
    <3>3. QED BY <2>3, <3>1, <3>2
  <2>5. p * Near + Near <= q * Near
    BY <1>1, <2>3, <2>4, MultiplesApart
  <2>6. QED BY <1>1, <2>3, <2>5
<1>5. PICK n \in Nat : n <= Due(t) + Near /\ jiffies <= n
  <2>1. PICK n \in Nat : n <= Due(t) + Near /\ (jiffies < n \/ jiffies = n)
    BY <1>2 DEF NearOK
  <2>2. QED BY <1>1, <2>1
<1>6. QED BY <1>1, <1>2, <1>3, <1>4, <1>5

LEMMA ExecuteTime ==
  ASSUME TypeInv, PlaceInv, TimeInv, Execute PROVE TimeInv'
<1> DEFINE n == jiffies % Near
<1>1. /\ n \in 0 .. Near - 1 /\ near[n] \subseteq Timers /\ Live(near[n]) \subseteq near[n]
      /\ jiffies \in Nat /\ Near \in Nat \ {0}
  BY SlotType, TimerAssumption DEF Live, TypeInv
<1>2. /\ tpc \in Executing /\ near' = [near EXCEPT ![n] = {}]
      /\ UNCHANGED <<jiffies, bucket, entries, expired, stop, added>>
  BY DEF Execute, Executing
<1>3. \/ tpc' = "execute"
      \/ tpc' = "cascade0" /\ jiffies % Near = 0
      \/ tpc' = "advance" /\ jiffies % Near # 0
  BY DEF Execute, AfterExecute
<1>4. TurnInv'
  <2> SUFFICES ASSUME NEW l \in 0 .. Levels - 1, tpc' = CascadeStep(l)
               PROVE  \E q \in Nat : jiffies' = q * Reach(l)
    BY DEF TurnInv
  <2>1. tpc' = "cascade0" /\ jiffies % Near = 0 /\ l = 0
    BY <1>3, StepsDiffer DEF Executing
  <2>2. jiffies \div Near \in Nat /\ jiffies = (jiffies \div Near) * Near + 0
    BY <1>1, <2>1, Division
  <2>3. jiffies = (jiffies \div Near) * Near
    BY <1>1, <2>2
  <2>4. QED BY <1>2, <2>1, <2>2, <2>3, ReachNext
<1>5. NearInv'
  <2> SUFFICES ASSUME NEW i \in 0 .. Near - 1, NEW t \in near'[i] PROVE NearOK(t, i)'
    BY DEF NearInv
  <2>1. i # n /\ t \in near[i]
    BY <1>1, <1>2 DEF TypeInv
  <2>2. t \in Timers /\ NearOK(t, i)
    BY <2>1 DEF TypeInv, TimeInv, NearInv
  <2>3. QED BY <1>2, <2>1, <2>2, NearStays
<1>6. BucketInv'
  <2> SUFFICES ASSUME NEW l \in 0 .. Levels - 1, NEW i \in 0 .. Slots - 1, NEW t \in bucket'[l][i]
               PROVE  BucketOK(t, l, i)'
    BY DEF BucketInv
  <2>1. t \in bucket[l][i] /\ t \in Timers /\ BucketOK(t, l, i)
    BY <1>2, InWheel DEF TimeInv, BucketInv
  <2>2. CascadeAhead(l)' \/ \A q \in Nat : q % Slots = i => jiffies # q * Reach(l)
    <3>1. CASE tpc' = "execute"
      BY <3>1 DEF CascadeAhead, Executing
    <3>2. CASE tpc' = "cascade0"
      <4>1. 0 \in 0 .. l
        OBVIOUS
      <4>2. QED BY <3>2, <4>1, StepsDiffer DEF CascadeAhead
    <3>3. CASE jiffies % Near # 0
      BY <3>3, ReachNear
    <3>4. QED BY <1>3, <3>1, <3>2, <3>3
  <2>3. QED BY <1>2, <2>1, <2>2, BucketStays
<1>7. FiredInv'
  <2> SUFFICES ASSUME NEW t \in Timers, pc'[t] = "fired"
               PROVE  fired'[t] >= expired'[t] /\ fired'[t] <= Due(t)' + Near
    BY DEF FiredInv
  <2>1. Due(t)' = Due(t) /\ expired'[t] = expired[t]
    BY <1>2 DEF Due
  <2>2. CASE t \in Live(near[n])
    <3>1. fired'[t] = jiffies
      BY <2>2 DEF Execute, Fire
    <3>2. expired[t] <= jiffies /\ jiffies <= Due(t) + Near
      BY <1>1, <1>2, <2>2, DueNow DEF TimeInv
    <3>3. expired[t] \in Nat
      BY DEF TypeInv
    <3>4. QED BY <1>1, <2>1, <3>1, <3>2, <3>3
  <2>3. CASE t \notin Live(near[n])
    <3>1. fired'[t] = fired[t]
      BY <2>3 DEF Execute, Fire
    <3>2. pc[t] = "fired"
      BY <2>3 DEF Execute, TakenOff
    <3>3. QED BY <2>1, <3>1, <3>2 DEF TimeInv, FiredInv
  <2>4. QED BY <2>2, <2>3
<1>8. QED BY <1>4, <1>5, <1>6, <1>7 DEF TimeInv

LEMMA AdvanceTime ==
  ASSUME TypeInv, PlaceInv, TimeInv, Advance PROVE TimeInv'
<1>1. /\ tpc = "advance" /\ jiffies' = jiffies + 1 /\ tpc' = "execute_again"
      /\ UNCHANGED <<near, bucket, pc, entries, expired, stop, added, fired>>
      /\ jiffies \in Nat /\ Near \in Nat \ {0}
  BY TimerAssumption DEF Advance, TypeInv
<1>2. tpc \notin Executing /\ tpc' \in Executing
  BY <1>1 DEF Executing
<1>3. TurnInv'
  BY <1>2, StepsDiffer DEF TurnInv
<1>4. NearInv'
  <2> SUFFICES ASSUME NEW i \in 0 .. Near - 1, NEW t \in near[i] PROVE NearOK(t, i)'
    BY <1>1 DEF NearInv
  <2>1. t \in Timers /\ expired[t] \in Nat /\ NearOK(t, i)
    BY InWheel DEF TypeInv, TimeInv, NearInv
  <2>2. Due(t)' = Due(t)
    BY <1>1 DEF Due
  <2>3. PICK k \in Nat : k % Near = i /\ k <= Due(t) + Near /\ jiffies < k
    BY <1>2, <2>1 DEF NearOK
  <2>4. jiffies' < k \/ jiffies' = k
    BY <1>1, <2>3
  <2>5. \/ expired[t] <= jiffies'
        \/ expired[t] - jiffies' < Near /\ expired[t] % Near = i
    <3>1. CASE expired[t] <= jiffies
      BY <1>1, <2>1, <3>1
    <3>2. CASE expired[t] - jiffies < Near /\ expired[t] % Near = i
      BY <1>1, <2>1, <3>2
    <3>3. QED BY <2>1, <3>1, <3>2 DEF NearOK
  <2>6. QED BY <1>1, <1>2, <2>2, <2>3, <2>4, <2>5 DEF NearOK
<1>5. BucketInv'
  <2> SUFFICES ASSUME NEW l \in 0 .. Levels - 1, NEW i \in 0 .. Slots - 1, NEW t \in bucket[l][i]
               PROVE  BucketOK(t, l, i)'
    BY <1>1 DEF BucketInv
  <2>1. t \in Timers /\ BucketOK(t, l, i)
    BY InWheel DEF TimeInv, BucketInv
  <2>2. ~CascadeAhead(l) /\ CascadeAhead(l)'
    <3>1. \A k \in 0 .. l : k \in 0 .. Levels - 1
      BY TimerAssumption
    <3>2. QED BY <1>1, <1>2, <3>1, StepsDiffer DEF CascadeAhead
  <2>3. PICK q \in Nat : q % Slots = i /\ q * Reach(l) <= expired[t] /\ jiffies < q * Reach(l)
    BY <2>1, <2>2 DEF BucketOK
  <2>4. Reach(l) \in Nat
    BY ReachNext, TimerAssumption
  <2>5. q * Reach(l) \in Nat
    BY <2>4
  <2>6. jiffies' < q * Reach(l) \/ jiffies' = q * Reach(l)
    BY <1>1, <2>3, <2>5
  <2>7. QED BY <1>1, <2>2, <2>3, <2>6 DEF BucketOK
<1>6. FiredInv'
  BY <1>1 DEF TimeInv, FiredInv, Due
<1>7. QED BY <1>3, <1>4, <1>5, <1>6 DEF TimeInv

LEMMA CascadeTime ==
  ASSUME TypeInv, PlaceInv, TimeInv, TypeInv', NEW l \in 0 .. Levels - 1, Cascade(l) PROVE TimeInv'
<1> DEFINE list == bucket[l][Index(l, jiffies)]
<1>1. /\ Index(l, jiffies) \in 0 .. Slots - 1
      /\ list \in SUBSET Timers /\ Live(list) \in SUBSET list
      /\ jiffies \in Nat /\ Levels \in 1 .. 4
  BY SlotType, TimerAssumption DEF Live, TypeInv
<1>2. /\ tpc = CascadeStep(l) /\ Move(list, Live(list))
      /\ UNCHANGED <<jiffies, entries, expired, stop, added, fired>>
  BY DEF Cascade
<1>3. \/ tpc' = "advance" /\ ~(Index(l, jiffies) = 0 /\ l + 1 < Levels)
      \/ tpc' = CascadeStep(l + 1) /\ l + 1 \in 0 .. Levels - 1 /\ Index(l, jiffies) = 0
  BY <1>1 DEF Cascade
<1>4. \A t \in Timers : pc'[t] = "fired" => pc[t] = "fired"
  BY DEF Cascade, TakenOff
<1> HIDE DEF list
<1>5. tpc \notin Executing
  BY <1>2, StepsDiffer
<1>6. PICK j \in Nat : jiffies = j * Reach(l)
  BY <1>2 DEF TimeInv, TurnInv
<1>7. TurnInv'
  <2> SUFFICES ASSUME NEW m \in 0 .. Levels - 1, tpc' = CascadeStep(m)
               PROVE  \E q \in Nat : jiffies' = q * Reach(m)
    BY DEF TurnInv
  <2>1. m = l + 1 /\ l + 1 \in 0 .. Levels - 1 /\ Index(l, jiffies) = 0
    BY <1>3, StepsDiffer
  <2>2. j % Slots = 0
    BY <1>6, <2>1, SlotOf
  <2>3. Slots \in Nat \ {0} /\ Reach(l) \in Nat
    BY <1>1, ReachNext, TimerAssumption
  <2>4. j \div Slots \in Nat /\ j = (j \div Slots) * Slots + 0
    BY <2>2, <2>3, Division
  <2>5. \A d \in Nat : (d * Slots + 0) * Reach(l) = d * (Reach(l) * Slots)
    BY <2>3
  <2>6. jiffies = (j \div Slots) * (Reach(l) * Slots)
    BY <1>6, <2>4, <2>5
  <2>7. QED BY <1>2, <2>1, <2>4, <2>6, ReachNext
<1>8. NearInv' /\ BucketInv'
  <2>1. \A i \in 0 .. Near - 1 : near[i] \cap list = {}
    <3> SUFFICES ASSUME NEW i \in 0 .. Near - 1, NEW t \in near[i], t \in list PROVE FALSE
      OBVIOUS
    <3>1. InNear(i) \in Lists /\ t \in Holds(InNear(i))
      BY HoldsList DEF Lists
    <3>2. /\ InBucket(l, Index(l, jiffies)) \in Lists
          /\ t \in Holds(InBucket(l, Index(l, jiffies)))
      BY <1>1, HoldsList DEF Lists, list
    <3>3. InNear(i) = InBucket(l, Index(l, jiffies))
      BY <1>1, <3>1, <3>2 DEF PlaceInv, OnePlace
    <3>4. QED BY <1>1, <3>3, ListsDiffer
  <2>2. \A t \in Live(list) : jiffies <= expired[t]
    <3>1. TAKE t \in Live(list)
    <3>2. t \in Timers /\ BucketOK(t, l, Index(l, jiffies))
      BY <1>1 DEF TimeInv, BucketInv, list
    <3>3. PICK q \in Nat : /\ q * Reach(l) <= expired[t]
                           /\ jiffies < q * Reach(l) \/ jiffies = q * Reach(l)
      BY <3>2 DEF BucketOK
    <3>4. expired[t] \in Nat /\ Reach(l) \in Nat
      BY <1>1, <3>2, ReachNext DEF TypeInv
    <3>5. q * Reach(l) \in Nat
      BY <3>4
    <3>6. QED BY <1>1, <3>3, <3>4, <3>5
  <2>3. ASSUME NEW m \in 0 .. Levels - 1, NEW i \in 0 .. Slots - 1, NEW t \in bucket[m][i] \ list,
               CascadeAhead(m)
        PROVE  \/ CascadeAhead(m)'
               \/ \A q \in Nat : q % Slots = i => jiffies # q * Reach(m)
    <3> SUFFICES ASSUME NEW q \in Nat, q % Slots = i, jiffies = q * Reach(m)
                 PROVE  CascadeAhead(m)'
      OBVIOUS
    <3>1. l <= m
      <4>1. PICK k \in 0 .. m : tpc = CascadeStep(k)
        BY <1>5, <2>3 DEF CascadeAhead
      <4>2. k \in 0 .. Levels - 1
        BY <1>1
      <4>3. k = l
        BY <1>2, <4>1, <4>2, StepsDiffer
      <4>4. QED BY <1>1, <4>3
    <3>2. l # m
      BY <2>3, SlotOf DEF list
    <3>3. l < m /\ l + 1 < Levels /\ l + 1 \in 0 .. m
      BY <1>1, <3>1, <3>2
    <3>4. Index(l, jiffies) = 0
      BY <3>3, FirstSlot
    <3>5. tpc' = CascadeStep(l + 1)
      BY <1>3, <3>3, <3>4
    <3>6. QED BY <3>3, <3>5 DEF CascadeAhead
  <2>4. \A t \in Timers : added'[t] = added[t]
    BY <1>2
  <2>5. QED BY <1>1, <1>2, <1>5, <2>1, <2>2, <2>3, <2>4, MoveTime DEF TimeInv
<1>9. FiredInv'
  BY <1>2, <1>4 DEF TimeInv, FiredInv, Due
<1>10. QED BY <1>7, <1>8, <1>9 DEF TimeInv

LEMMA NextTime ==
  ASSUME TypeInv, PlaceInv, TimeInv, TypeInv', [Next]_vars PROVE TimeInv'
<1>1. ASSUME NEW t \in Timers, Add(t) PROVE TimeInv'
  BY <1>1, AddTime
<1>2. ASSUME NEW t \in Timers, NEW d \in Delays, Start(t, d) PROVE TimeInv'
  <2>1. /\ \A u \in Timers : expired'[u] = expired[u] \/ pc[u] = "none"
        /\ \A u \in Timers : pc'[u] = "fired" => pc[u] = "fired"
    BY <1>2 DEF Start, TypeInv
  <2>2. QED BY <1>2, <2>1, QuietTime DEF Start
<1>3. ASSUME NEW t \in Timers, StopFind(t) \/ StopCancel(t) PROVE TimeInv'
  BY <1>3, QuietTime DEF StopFind, StopCancel
<1>4. ASSUME Execute PROVE TimeInv'
  BY <1>4, ExecuteTime
<1>5. ASSUME Advance PROVE TimeInv'
  BY <1>5, AdvanceTime
<1>6. ASSUME NEW l \in 0 .. Levels - 1, Cascade(l) PROVE TimeInv'
  BY <1>6, CascadeTime
<1>7. CASE UNCHANGED vars
  BY <1>7, QuietTime DEF vars
<1>8. QED BY <1>1, <1>2, <1>3, <1>4, <1>5, <1>6, <1>7 DEF Next

LEMMA SpecTime == Spec => [](TypeInv /\ PlaceInv /\ TimeInv)
<1>1. Init => TypeInv /\ PlaceInv /\ TimeInv
  BY InitType, InitPlace, InitTime
<1>2. TypeInv /\ PlaceInv /\ TimeInv /\ [Next]_vars => (TypeInv /\ PlaceInv /\ TimeInv)'
  BY NextType, NextPlace, NextTime
<1>3. QED BY <1>1, <1>2, PTL DEF Spec

\* No timer fires before its expiry.
THEOREM NoneEarly == Spec => []NeverEarly
<1>1. TypeInv /\ PlaceInv /\ TimeInv => NeverEarly
  BY DEF TimeInv, FiredInv, NeverEarly
<1>2. QED BY <1>1, SpecTime, PTL

\* A timer fires, or is freed, at most one turn of m_near after it is due.
THEOREM AtMostOneTurnLate == Spec => []OneTurnLate
<1>1. ASSUME TypeInv, PlaceInv, TimeInv PROVE OneTurnLate
  <2> SUFFICES ASSUME NEW t \in Timers
               PROVE  /\ pc[t] = "fired" => fired[t] <= Due(t) + Near
                      /\ pc[t] = "wheel" => jiffies <= Due(t) + Near
    BY DEF OneTurnLate
  <2>1. pc[t] = "fired" => fired[t] <= Due(t) + Near
    BY <1>1 DEF TimeInv, FiredInv
  <2>2. ASSUME pc[t] = "wheel" PROVE jiffies <= Due(t) + Near
    <3>1. /\ jiffies \in Nat /\ expired[t] \in Nat /\ Due(t) \in Nat /\ expired[t] <= Due(t)
          /\ Near \in Nat \ {0} /\ Levels \in Nat
      BY <1>1, TimerAssumption DEF TypeInv, Due
    <3>2. PICK h \in Lists : t \in Holds(h)
      BY <1>1, <2>2 DEF PlaceInv, OnePlace
    <3>3. CASE \E i \in 0 .. Near - 1 : h = InNear(i)
      <4>1. PICK i \in 0 .. Near - 1 : t \in near[i]
        BY <3>2, <3>3, HoldsList
      <4>2. PICK n \in Nat : n <= Due(t) + Near /\ (jiffies < n \/ jiffies = n)
        BY <1>1, <4>1 DEF TimeInv, NearInv, NearOK
      <4>3. QED BY <3>1, <4>2
    <3>4. CASE \E l \in 0 .. Levels - 1, i \in 0 .. Slots - 1 : h = InBucket(l, i)
      <4>1. PICK l \in 0 .. Levels - 1, i \in 0 .. Slots - 1 : t \in bucket[l][i]
        BY <3>2, <3>4, HoldsList
      <4>2. PICK q \in Nat : /\ q * Reach(l) <= expired[t]
                             /\ jiffies < q * Reach(l) \/ jiffies = q * Reach(l)
        BY <1>1, <4>1 DEF TimeInv, BucketInv, BucketOK
      <4>3. Reach(l) \in Nat
        BY <3>1, ReachNext
      <4>4. q * Reach(l) \in Nat
        BY <4>3
      <4>5. QED BY <3>1, <4>2, <4>4
    <3>5. QED BY <3>2, <3>3, <3>4 DEF Lists
  <2>3. QED BY <2>1, <2>2
<1>2. QED BY <1>1, SpecTime, PTL
-----------------------------------------------------------------------------
(* Canceled timers *)

\* The entries of the timers on their way are theirs alone, so a mark that
\* stopTimer made in time is there until the timer comes off the wheel, and no
\* other timer's start removes it.
StopInv ==
    /\ \A t \in Pending, u \in Pending : entry[t] = entry[u] => t = u
    /\ \A t \in Timers : /\ stop[t] # "no" => pc[t] \in {"wheel", "fired", "freed"}
                         /\ stop[t] = "canceled" =>
                               \/ pc[t] = "wheel" /\ entry[t] \in canceled
                               \/ pc[t] = "freed"

\* The timer thread and stopTimer start nothing and take no mark away.
LEMMA QuietStop ==
  ASSUME StopInv, UNCHANGED <<entry, stop>>, canceled \subseteq canceled',
         \A t \in Timers : \/ pc'[t] = pc[t]
                           \/ pc[t] = "add" /\ pc'[t] = "wheel"
                           \/ pc'[t] = "freed" /\ pc[t] # "add"
                           \/ pc'[t] = "fired" /\ pc[t] = "wheel" /\ entry[t] \notin canceled
  PROVE  StopInv'
<1>1. Pending' \subseteq Pending
  BY DEF Pending
<1>2. \A t \in Pending', u \in Pending' : entry'[t] = entry'[u] => t = u
  BY <1>1 DEF StopInv
<1>3. ASSUME NEW t \in Timers
      PROVE  /\ stop'[t] # "no" => pc'[t] \in {"wheel", "fired", "freed"}
             /\ stop'[t] = "canceled" =>
                   \/ pc'[t] = "wheel" /\ entry'[t] \in canceled'
                   \/ pc'[t] = "freed"
  BY DEF StopInv
<1>4. QED BY <1>2, <1>3 DEF StopInv

LEMMA NextStop == ASSUME TypeInv, PlaceInv, StopInv, [Next]_vars PROVE StopInv'
<1>1. ASSUME NEW t \in Timers, Add(t) PROVE StopInv'
  <2>1. /\ pc[t] = "add" /\ pc'[t] = "wheel"
        /\ \A u \in Timers \ {t} : pc'[u] = pc[u]
    BY <1>1 DEF Add, TypeInv
  <2>2. QED BY <1>1, <2>1, QuietStop DEF Add, entries
<1>2. ASSUME NEW t \in Timers, NEW d \in Delays, Start(t, d) PROVE StopInv'
  <2>1. PICK e \in Entries \ {entry[u] : u \in Pending} :
          entry' = [entry EXCEPT ![t] = e] /\ canceled' = canceled \ {e}
    BY <1>2 DEF Start
  <2>2. /\ pc[t] = "none" /\ pc'[t] = "add" /\ entry'[t] = e /\ stop' = stop
        /\ \A u \in Timers \ {t} : pc'[u] = pc[u] /\ entry'[u] = entry[u]
    BY <1>2, <2>1 DEF Start, TypeInv
  <2>3. Pending' = Pending \cup {t} /\ t \notin Pending
    BY <2>2 DEF Pending
  <2>4. \A u \in Pending : u # t /\ entry'[u] = entry[u] /\ entry[u] # e
    BY <2>1, <2>2, <2>3 DEF Pending
  <2>5. \A u \in Pending', v \in Pending' : entry'[u] = entry'[v] => u = v
    BY <2>2, <2>3, <2>4 DEF StopInv
  <2>6. ASSUME NEW u \in Timers
        PROVE  /\ stop'[u] # "no" => pc'[u] \in {"wheel", "fired", "freed"}
               /\ stop'[u] = "canceled" =>
                     \/ pc'[u] = "wheel" /\ entry'[u] \in canceled'
                     \/ pc'[u] = "freed"
    <3>1. CASE u = t
      BY <2>2, <3>1 DEF StopInv
    <3>2. CASE u # t
      <4>1. pc[u] = "wheel" => entry[u] # e
        BY <2>4 DEF Pending
      <4>2. QED BY <2>1, <2>2, <3>2, <4>1 DEF StopInv
    <3>3. QED BY <3>1, <3>2
  <2>7. QED BY <2>5, <2>6 DEF StopInv
<1>3. ASSUME NEW t \in Timers, StopFind(t) PROVE StopInv'
  BY <1>3 DEF StopFind, StopInv, Pending, entries, TypeInv
<1>4. ASSUME NEW t \in Timers, StopCancel(t) PROVE StopInv'
  BY <1>4 DEF StopCancel, StopInv, Pending, TypeInv
<1>5. ASSUME Execute PROVE StopInv'
  <2> DEFINE due == near[jiffies % Near]
  <2>1. due \subseteq Timers /\ \A t \in due : pc[t] = "wheel"
    BY SlotType, HoldsList DEF PlaceInv, OnePlace, Lists
  <2>2. \A t \in Timers : \/ pc'[t] = pc[t]
                          \/ pc'[t] = "freed" /\ pc[t] # "add"
                          \/ pc'[t] = "fired" /\ pc[t] = "wheel" /\ entry[t] \notin canceled
    BY <1>5, <2>1 DEF Execute, TakenOff, Live
  <2>3. QED BY <1>5, <2>2, QuietStop DEF Execute, entries
<1>6. ASSUME Advance PROVE StopInv'
  BY <1>6, QuietStop DEF Advance, entries
<1>7. ASSUME NEW l \in 0 .. Levels - 1, Cascade(l) PROVE StopInv'
  <2> DEFINE list == bucket[l][Index(l, jiffies)]
  <2>1. list \subseteq Timers /\ \A t \in list : pc[t] = "wheel"
    BY SlotType, HoldsList DEF PlaceInv, OnePlace, Lists
  <2>2. /\ \A t \in list : pc'[t] = IF t \in Live(list) THEN pc[t] ELSE "freed"
        /\ \A t \in Timers \ list : pc'[t] = pc[t]
    BY <1>7, <2>1 DEF Cascade, TakenOff
  <2> HIDE DEF list
  <2>3. \A t \in Timers : pc'[t] = pc[t] \/ (pc'[t] = "freed" /\ t \in list)
    BY <2>2
  <2>4. QED BY <1>7, <2>1, <2>3, QuietStop DEF Cascade, entries
<1>8. CASE UNCHANGED vars
  BY <1>8 DEF vars, entries, StopInv, Pending
<1>9. QED BY <1>1, <1>2, <1>3, <1>4, <1>5, <1>6, <1>7, <1>8 DEF Next

\* A timer whose entry is marked while it waits does not fire, however the calls
\* of stopTimer interleave with the wheel and with the reuse of entries.
THEOREM CanceledNone == Spec => []CanceledNeverFires
<1>1. Init => TypeInv /\ PlaceInv /\ StopInv
  BY InitType, InitPlace DEF Init, StopInv, Pending
<1>2. TypeInv /\ PlaceInv /\ StopInv /\ [Next]_vars => (TypeInv /\ PlaceInv /\ StopInv)'
  BY NextType, NextPlace, NextStop
<1>3. StopInv => CanceledNeverFires
  BY DEF StopInv, CanceledNeverFires
<1>4. QED BY <1>1, <1>2, <1>3, PTL DEF Spec
=============================================================================
