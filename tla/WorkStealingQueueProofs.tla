---------------------- MODULE WorkStealingQueueProofs ----------------------
(***************************************************************************)
(* Proofs that hold for every number of thieves and tasks, every initial   *)
(* array size and any number of growths.                                   *)
(***************************************************************************)
EXTENDS WorkStealingQueue, SequenceTheorems, TLAPS

PushPC == {"push_grow", "push_put", "push_publish"}
Claiming == {"array", "get", "cas"}

\* How far apart the owner's and the thieves' end can be at each of the
\* owner's steps.
IndexInv ==
    /\ top >= 1 /\ oldtop >= 1 /\ cap >= 2
    /\ opc \in {"idle"} \cup PushPC => bottom >= 1 /\ bottom >= top - 1
    /\ opc \in PushPC => oldtop <= top
    /\ opc \in {"push_put", "push_publish"} => bottom - top < cap - 1
    /\ opc = "pop_top" => bottom >= top - 2
    /\ opc = "pop_reset" => bottom < oldtop /\ oldtop = top
    /\ opc = "pop_cas" => bottom = oldtop /\ top \in {oldtop, oldtop + 1}
    /\ opc = "pop_store" => bottom = oldtop /\ top = oldtop + 1
    /\ Claimable - top < cap

\* A thief that passed the emptiness test either has a stale top, and will
\* lose its compare-exchange, or its index can still be taken.
ThiefInv ==
    \A s \in Thieves :
        /\ ttop[s] <= top /\ tgen[s] <= gen
        /\ tpc[s] \in Claiming /\ ttop[s] = top => top < Claimable

IndInv == TypeOK /\ IndexInv /\ ThiefInv
-----------------------------------------------------------------------------
LEMMA InitInd == Init => IndInv
<1> SUFFICES ASSUME Init PROVE IndInv
  OBVIOUS
<1> USE QueueAssumption DEF Init, Values, OwnerPC, ThiefPC, PushPC, Claiming
<1>1. TypeOK
  <2>1. cap \in Nat \ {0} /\ slots \in [0 .. cap - 1 -> Values]
    BY DEF Values
  <2>2. /\ tpc \in [Thieves -> ThiefPC]
        /\ ttop \in [Thieves -> Nat] /\ tgen \in [Thieves -> Nat \ {0}]
        /\ titem \in [Thieves -> Values]
        /\ copies \in [Tasks -> Nat]
    OBVIOUS
  <2>3. junkTaken \in BOOLEAN /\ misplaced \in BOOLEAN /\ freedRead \in BOOLEAN
    OBVIOUS
  <2>4. QED BY <2>1, <2>2, <2>3 DEF TypeOK
<1>2. IndexInv
  BY DEF IndexInv, Claimable
<1>3. ThiefInv
  <2> SUFFICES ASSUME NEW s \in Thieves
               PROVE  /\ ttop[s] <= top /\ tgen[s] <= gen
                      /\ tpc[s] \notin Claiming
    BY DEF ThiefInv
  <2>1. ttop[s] = 1 /\ tgen[s] = 1 /\ tpc[s] = "idle"
    OBVIOUS
  <2>2. QED BY <2>1
<1>4. QED BY <1>1, <1>2, <1>3 DEF IndInv

\* A remainder is a position in the array.
LEMMA Position == ASSUME NEW c \in Nat \ {0}, NEW i \in Int
                  PROVE  i % c \in 0 .. c - 1
  OBVIOUS

\* An index of the queue always falls on a slot of the array.
LEMMA SlotType == ASSUME TypeOK, NEW i \in Int PROVE Slot(i) \in Values
BY Position DEF TypeOK, Slot

\* Receiving keeps the types, whatever is received.
LEMMA ReceiveType == ASSUME TypeOK, NEW v, Receive(v)
                     PROVE  copies' \in [Tasks -> Nat] /\ junkTaken' \in BOOLEAN
<1>1. copies' \in [Tasks -> Nat]
  BY DEF TypeOK, Receive
<1>2. junkTaken' \in BOOLEAN
  BY Zenon DEF TypeOK, Receive
<1>3. QED BY <1>1, <1>2

\* push keeps IndInv: the growth test leaves room for one more task.
LEMMA PushInd == ASSUME IndInv,
                        (\E t \in Tasks : PushBegin(t)) \/ PushGrow \/ PushPut \/ PushPublish
                 PROVE  IndInv'
<1> USE DEF IndInv, OwnerPC, ThiefPC, PushPC, Claiming, Values, thief, array, history
<1>1. ASSUME NEW t \in Tasks, PushBegin(t) PROVE IndInv'
  <2>1. TypeOK'
    BY <1>1 DEF TypeOK, IndexInv, PushBegin
  <2>2. IndexInv'
    BY <1>1 DEF TypeOK, IndexInv, PushBegin, Claimable
  <2>3. ThiefInv'
    BY <1>1 DEF TypeOK, ThiefInv, PushBegin, Claimable
  <2>4. QED BY <2>1, <2>2, <2>3
<1>2. CASE PushGrow
  <2>1. TypeOK'
    BY <1>2 DEF TypeOK, PushGrow, Doubled
  <2>2. IndexInv'
    BY <1>2 DEF TypeOK, IndexInv, PushGrow, Claimable
  <2>3. ThiefInv'
    BY <1>2 DEF TypeOK, ThiefInv, PushGrow, Claimable
  <2>4. QED BY <2>1, <2>2, <2>3
<1>3. CASE PushPut
  <2>1. TypeOK'
    BY <1>3 DEF TypeOK, PushPut
  <2>2. IndexInv'
    BY <1>3 DEF TypeOK, IndexInv, PushPut, Claimable
  <2>3. ThiefInv'
    BY <1>3 DEF TypeOK, ThiefInv, PushPut, Claimable
  <2>4. QED BY <2>1, <2>2, <2>3
<1>4. CASE PushPublish
  <2>1. TypeOK'
    BY <1>4 DEF TypeOK, PushPublish
  <2>2. IndexInv'
    BY <1>4 DEF TypeOK, IndexInv, PushPublish, Claimable
  <2>3. ThiefInv'
    BY <1>4 DEF TypeOK, ThiefInv, PushPublish, Claimable
  <2>4. QED BY <2>1, <2>2, <2>3
<1>5. QED BY <1>1, <1>2, <1>3, <1>4

\* pop keeps IndInv: a task is fought for only when it is the last one.
LEMMA PopInd == ASSUME IndInv,
                       PopDec \/ PopLoadTop \/ PopReset \/ PopCas \/ PopStore
                PROVE  IndInv'
<1> USE DEF IndInv, OwnerPC, ThiefPC, PushPC, Claiming, Values, owner, thief, array, history
<1>1. CASE PopDec
  <2>1. TypeOK'
    BY <1>1 DEF TypeOK, IndexInv, PopDec
  <2>2. IndexInv'
    BY <1>1 DEF TypeOK, IndexInv, PopDec, Claimable
  <2>3. ThiefInv'
    BY <1>1 DEF TypeOK, IndexInv, ThiefInv, PopDec, Claimable
  <2>4. QED BY <2>1, <2>2, <2>3
<1>2. CASE PopLoadTop
  <2>1. TypeOK'
    <3>1. Slot(bottom) \in Values
      BY SlotType DEF TypeOK
    <3>2. copies' \in [Tasks -> Nat] /\ junkTaken' \in BOOLEAN
      <4>1. (copies' = copies /\ junkTaken' = junkTaken) \/ Receive(Slot(bottom))
        BY <1>2 DEF PopLoadTop
      <4>2. QED BY <4>1, ReceiveType DEF TypeOK
    <3>3. QED BY <1>2, <3>1, <3>2 DEF TypeOK, IndexInv, PopLoadTop
  <2>2. IndexInv'
    BY <1>2 DEF TypeOK, IndexInv, PopLoadTop, Claimable
  <2>3. ThiefInv'
    BY <1>2 DEF TypeOK, IndexInv, ThiefInv, PopLoadTop, Claimable
  <2>4. QED BY <2>1, <2>2, <2>3
<1>3. CASE PopReset
  <2>1. TypeOK'
    BY <1>3 DEF TypeOK, IndexInv, PopReset
  <2>2. IndexInv'
    BY <1>3 DEF TypeOK, IndexInv, PopReset, Claimable
  <2>3. ThiefInv'
    BY <1>3 DEF TypeOK, IndexInv, ThiefInv, PopReset, Claimable
  <2>4. QED BY <2>1, <2>2, <2>3
<1>4. CASE PopCas
  <2>1. TypeOK'
    BY <1>4 DEF TypeOK, IndexInv, PopCas
  <2>2. IndexInv'
    BY <1>4 DEF TypeOK, IndexInv, PopCas, Claimable
  <2>3. ThiefInv'
    BY <1>4 DEF TypeOK, IndexInv, ThiefInv, PopCas, Claimable
  <2>4. QED BY <2>1, <2>2, <2>3
<1>5. CASE PopStore
  <2>1. TypeOK'
    <3>1. copies' \in [Tasks -> Nat] /\ junkTaken' \in BOOLEAN
      BY <1>5, ReceiveType DEF PopStore
    <3>2. QED BY <1>5, <3>1 DEF TypeOK, IndexInv, PopStore
  <2>2. IndexInv'
    BY <1>5 DEF TypeOK, IndexInv, PopStore, Claimable
  <2>3. ThiefInv'
    BY <1>5 DEF TypeOK, IndexInv, ThiefInv, PopStore, Claimable
  <2>4. QED BY <2>1, <2>2, <2>3
<1>6. QED BY <1>1, <1>2, <1>3, <1>4, <1>5

\* steal keeps IndInv: a compare-exchange from a stale top fails.
LEMMA StealInd == ASSUME IndInv, NEW s \in Thieves, ThiefStep(s)
                  PROVE  IndInv'
<1> USE DEF IndInv, OwnerPC, ThiefPC, PushPC, Claiming, Values, owner, thief, array, history
<1>1. CASE StealTop(s)
  <2>1. TypeOK'
    BY <1>1 DEF TypeOK, IndexInv, StealTop
  <2>2. IndexInv'
    BY <1>1 DEF TypeOK, IndexInv, StealTop, Claimable
  <2>3. ThiefInv'
    BY <1>1 DEF TypeOK, IndexInv, ThiefInv, StealTop, Claimable
  <2>4. QED BY <2>1, <2>2, <2>3
<1>2. CASE StealBottom(s)
  <2>1. TypeOK'
    BY <1>2 DEF TypeOK, IndexInv, StealBottom
  <2>2. IndexInv'
    BY <1>2 DEF TypeOK, IndexInv, StealBottom, Claimable
  <2>3. ThiefInv'
    BY <1>2 DEF TypeOK, IndexInv, ThiefInv, StealBottom, Claimable
  <2>4. QED BY <2>1, <2>2, <2>3
<1>3. CASE StealArray(s)
  <2>1. TypeOK'
    BY <1>3 DEF TypeOK, IndexInv, StealArray
  <2>2. IndexInv'
    BY <1>3 DEF TypeOK, IndexInv, StealArray, Claimable
  <2>3. ThiefInv'
    BY <1>3 DEF TypeOK, IndexInv, ThiefInv, StealArray, Claimable
  <2>4. QED BY <2>1, <2>2, <2>3
<1>4. CASE StealGet(s)
  <2>1. TypeOK'
    <3>1. Slot(ttop[s]) \in Values
      BY SlotType DEF TypeOK
    <3>2. titem' \in [Thieves -> Values] /\ freedRead' \in BOOLEAN
      BY <1>4, <3>1 DEF TypeOK, StealGet
    <3>3. QED BY <1>4, <3>2 DEF TypeOK, StealGet
  <2>2. IndexInv'
    BY <1>4 DEF TypeOK, IndexInv, StealGet, Claimable
  <2>3. ThiefInv'
    BY <1>4 DEF TypeOK, IndexInv, ThiefInv, StealGet, Claimable
  <2>4. QED BY <2>1, <2>2, <2>3
<1>5. CASE StealCas(s)
  <2>1. TypeOK'
    <3>1. copies' \in [Tasks -> Nat] /\ junkTaken' \in BOOLEAN
      <4>1. (copies' = copies /\ junkTaken' = junkTaken) \/ Receive(titem[s])
        BY <1>5 DEF StealCas
      <4>2. QED BY <4>1, ReceiveType DEF TypeOK
    <3>2. QED BY <1>5, <3>1 DEF TypeOK, StealCas
  <2>2. IndexInv'
    BY <1>5 DEF TypeOK, IndexInv, ThiefInv, StealCas, Claimable
  <2>3. ThiefInv'
    BY <1>5 DEF TypeOK, IndexInv, ThiefInv, StealCas, Claimable
  <2>4. QED BY <2>1, <2>2, <2>3
<1>6. QED BY <1>1, <1>2, <1>3, <1>4, <1>5 DEF ThiefStep

LEMMA StutterInd == ASSUME IndInv, UNCHANGED vars PROVE IndInv'
BY DEF IndInv, TypeOK, IndexInv, ThiefInv, Claimable, vars, owner, thief, array, history

LEMMA Inductive == Spec => []IndInv
<1>1. IndInv /\ [Next]_vars => IndInv'
  <2> SUFFICES ASSUME IndInv, [Next]_vars PROVE IndInv'
    OBVIOUS
  <2>1. CASE OwnerStep
    BY <2>1, PushInd, PopInd DEF OwnerStep
  <2>2. CASE \E s \in Thieves : ThiefStep(s)
    BY <2>2, StealInd
  <2>3. CASE UNCHANGED vars
    BY <2>3, StutterInd
  <2>4. QED BY <2>1, <2>2, <2>3 DEF Next
<1>2. QED BY <1>1, InitInd, PTL DEF Spec

\* No index ever wraps below zero and every variable keeps its type.
THEOREM TypesHold == Spec => []TypeOK
<1>1. IndInv => TypeOK
  BY DEF IndInv
<1>2. QED BY <1>1, Inductive, PTL

\* The two ends stay within one of each other the wrong way round, and within
\* one array the right way.
THEOREM BottomStaysNear == Spec => []BottomFollowsTop
<1>1. IndInv => BottomFollowsTop
  BY DEF IndInv, IndexInv, BottomFollowsTop, PushPC
<1>2. QED BY <1>1, Inductive, PTL
-----------------------------------------------------------------------------
(* Which tasks are where.                                                  *)

\* The steps at which the owner has a task that is in no caller's hands: not
\* yet published, or won and not yet returned.
Held == PushPC \cup {"pop_store"}

\* A task is with one caller, with the owner on its way in or out, or at one
\* index; a thief whose compare-exchange would succeed has read the only one.
PlacesInv ==
    /\ \A t \in Tasks : copies[t] <= 1
    /\ \A i \in Window : Slot(i) \in Tasks => copies[Slot(i)] = 0
    /\ \A i, j \in Window : Slot(i) \in Tasks /\ Slot(i) = Slot(j) => i = j
    /\ opc \in PushPC => item \in Tasks
    /\ opc \in Held /\ item \in Tasks => copies[item] = 0 /\ \A i \in Window : Slot(i) # item
    /\ opc = "push_publish" => Slot(bottom) = item
    /\ opc = "pop_cas" /\ top = oldtop => item = Slot(bottom)

ClaimsInv ==
    \A s \in Thieves : tpc[s] = "cas" /\ ttop[s] = top /\ titem[s] \in Tasks =>
        /\ copies[titem[s]] = 0
        /\ opc \in Held => titem[s] # item
        /\ \A i \in Window \ {top} : Slot(i) # titem[s]

\* While the array is Sound the window holds tasks, and a claim is what the
\* slot at top holds.
FilledInv ==
    /\ ~junkTaken
    /\ \A i \in Window : Slot(i) \in Tasks
    /\ \A s \in Thieves : tpc[s] = "cas" /\ ttop[s] = top => titem[s] = Slot(top)
    /\ opc = "pop_store" => item \in Tasks

ContentInv ==
    /\ ~freedRead => PlacesInv /\ ClaimsInv
    /\ Sound => FilledInv

LEMMA DivMod == ASSUME NEW c \in Nat \ {0}, NEW i \in Nat
                PROVE  i \div c \in Nat /\ i = c * (i \div c) + (i % c)
OBVIOUS

\* Indices less than an array apart fall into different slots.
LEMMA Apart == ASSUME NEW c \in Nat \ {0}, NEW i \in Nat, NEW j \in Nat, i < j, j - i < c
               PROVE  i % c # j % c
<1> SUFFICES ASSUME i % c = j % c PROVE FALSE
  OBVIOUS
<1> DEFINE k == (j \div c) - (i \div c)
<1> HIDE DEF k
<1>1. k \in Int /\ j - i = c * k
  BY DivMod DEF k
<1>2. k - 1 \in Nat
  BY <1>1
<1>3. \A m \in Nat : c * (m + 1) = c * m + c /\ c * m >= 0
  OBVIOUS
<1> QED
  BY <1>1, <1>2, <1>3

LEMMA LowerHalf == ASSUME NEW c \in Nat \ {0}, NEW i \in Nat, i % (2 * c) < c
                   PROVE  i % c = i % (2 * c)
OBVIOUS

\* Growing keeps what an index finds or takes it away.
LEMMA DoubledSlot ==
    ASSUME TypeOK, NEW i \in Nat
    PROVE  /\ Doubled[i % (2 * cap)] \in {Slot(i), Junk}
           /\ i < cap => Doubled[i % (2 * cap)] = Slot(i)
<1>1. cap \in Nat \ {0} /\ 2 * cap \in Nat \ {0} /\ i % (2 * cap) \in 0 .. 2 * cap - 1
  BY DEF TypeOK
<1>2. i % (2 * cap) < cap => i % cap = i % (2 * cap)
  BY <1>1, LowerHalf
<1>3. i < cap => i % (2 * cap) = i
  BY <1>1
<1> QED
  BY <1>1, <1>2, <1>3 DEF Doubled, Slot

LEMMA InitContent == Init => ContentInv
BY QueueAssumption
DEF Init, ContentInv, PlacesInv, ClaimsInv, FilledInv, Held, PushPC, Window, Claimable, Sound

\* A step that leaves the array, the hands and the window alone, or takes from
\* the window.
LEMMA QuietContent ==
    ASSUME IndInv, ContentInv,
           UNCHANGED <<cap, slots, copies, junkTaken, misplaced, freedRead, item>>,
           Window' \subseteq Window,
           opc' \in Held => opc \in Held,
           opc' \in PushPC => opc \in PushPC,
           opc' = "pop_store" => opc = "pop_store",
           opc' = "push_publish" => opc = "push_publish" /\ bottom' = bottom,
           opc' = "pop_cas" /\ top' = oldtop' =>
                opc = "pop_cas" /\ top = oldtop /\ bottom' = bottom,
           \A s \in Thieves : tpc'[s] = "cas" /\ ttop'[s] = top' =>
                tpc[s] = "cas" /\ ttop[s] = top /\ titem'[s] = titem[s] /\ top' = top
    PROVE  ContentInv'
<1>1. \A i : Slot(i)' = Slot(i)
  BY DEF Slot
<1>2. ~freedRead => PlacesInv'
  BY <1>1 DEF ContentInv, PlacesInv
<1>3. ~freedRead => ClaimsInv'
  BY <1>1 DEF ContentInv, ClaimsInv
<1>4. Sound => FilledInv'
  BY <1>1 DEF ContentInv, FilledInv
<1> QED
  BY <1>2, <1>3, <1>4 DEF ContentInv, Sound

LEMMA PushContent == ASSUME IndInv, ContentInv, IndInv',
                            (\E t \in Tasks : PushBegin(t)) \/ PushGrow \/ PushPut \/ PushPublish
                     PROVE  ContentInv'
<1> USE DEF Held, PushPC, Window, Claimable, thief, history
<1>1. ASSUME NEW t \in Tasks, PushBegin(t) PROVE ContentInv'
  <2>1. \A i : Slot(i)' = Slot(i)
    BY <1>1 DEF PushBegin, Slot, array
  <2>2. /\ copies[t] > 0 /\ item' = t /\ opc = "idle"
        /\ copies' = [copies EXCEPT ![t] = @ - 1]
        /\ copies \in [Tasks -> Nat]
    BY <1>1 DEF PushBegin, IndInv, TypeOK
  <2>3. \A u \in Tasks : copies'[u] <= copies[u]
    BY <2>2
  <2>4. ~freedRead => PlacesInv'
    <3> SUFFICES ASSUME ~freedRead, PlacesInv PROVE PlacesInv'
      BY DEF ContentInv
    <3>1. copies[t] = 1 /\ copies'[t] = 0
      BY <2>2 DEF PlacesInv
    <3>2. \A i \in Window : Slot(i) # t
      BY <3>1 DEF PlacesInv
    <3> QED
      BY <1>1, <2>1, <2>2, <2>3, <3>1, <3>2 DEF PlacesInv, PushBegin
  <2>5. ~freedRead => ClaimsInv'
    BY <1>1, <2>1, <2>2, <2>3 DEF ContentInv, ClaimsInv, PlacesInv, PushBegin, IndInv, TypeOK
  <2>6. Sound => FilledInv'
    BY <1>1, <2>1 DEF ContentInv, FilledInv, PushBegin
  <2> QED
    BY <1>1, <2>4, <2>5, <2>6 DEF ContentInv, Sound, PushBegin
<1>2. CASE PushGrow
  <2>1. \A i \in Window : Slot(i)' \in {Slot(i), Junk} /\ (i < cap => Slot(i)' = Slot(i))
    <3> SUFFICES ASSUME NEW i \in Window
                 PROVE  Slot(i)' \in {Slot(i), Junk} /\ (i < cap => Slot(i)' = Slot(i))
      OBVIOUS
    <3>1. i \in Nat
      BY DEF IndInv, TypeOK
    <3>2. Slot(i)' = Doubled[i % (2 * cap)]
      BY <1>2 DEF PushGrow, Slot
    <3> QED
      BY <3>1, <3>2, DoubledSlot DEF IndInv
  <2>2. Window' = Window /\ bottom \in Nat /\ Junk \notin Tasks
    BY <1>2, QueueAssumption DEF PushGrow, IndInv, TypeOK
  <2>3. ~freedRead => PlacesInv'
    BY <1>2, <2>1, <2>2 DEF ContentInv, PlacesInv, PushGrow
  <2>4. ~freedRead => ClaimsInv'
    BY <1>2, <2>1, <2>2 DEF ContentInv, ClaimsInv, PushGrow, IndInv, TypeOK
  <2>5. Sound' => FilledInv'
    <3> SUFFICES ASSUME Sound' PROVE FilledInv'
      OBVIOUS
    <3>1. Sound /\ ~(bottom > cap)
      BY <1>2, Zenon DEF Sound, PushGrow
    <3>2. \A i \in Window : Slot(i)' = Slot(i)
      <4>1. bottom \in Nat /\ cap \in Nat /\ Window \subseteq top .. bottom - 1 /\ top \in Nat
        BY <1>2 DEF IndInv, TypeOK, PushGrow
      <4> QED
        BY <4>1, <3>1, <2>1
    <3>3. \A s \in Thieves : tpc[s] = "cas" /\ ttop[s] = top => top \in Window
      BY DEF IndInv, TypeOK, ThiefInv, Claiming
    <3> QED
      BY <1>2, <2>2, <3>1, <3>2, <3>3 DEF ContentInv, FilledInv, PushGrow
  <2> QED
    BY <1>2, <2>3, <2>4, <2>5 DEF ContentInv, PushGrow
<1>3. CASE PushPut
  <2>1. \A i \in Window : Slot(i)' = Slot(i)
    <3> SUFFICES ASSUME NEW i \in Window PROVE Slot(i)' = Slot(i)
      OBVIOUS
    <3>1. i \in Nat /\ bottom \in Nat /\ cap \in Nat \ {0} /\ i < bottom /\ bottom - i < cap
      BY <1>3 DEF IndInv, TypeOK, IndexInv, PushPut
    <3>2. i % cap # bottom % cap
      BY <3>1, Apart
    <3> QED
      BY <1>3, <3>2 DEF PushPut, Slot, IndInv, TypeOK
  <2>2. Slot(bottom)' = item
    BY <1>3, Position DEF PushPut, Slot, IndInv, TypeOK
  <2>3. ~freedRead => PlacesInv'
    BY <1>3, <2>1, <2>2 DEF ContentInv, PlacesInv, PushPut
  <2>4. ~freedRead => ClaimsInv'
    BY <1>3, <2>1 DEF ContentInv, ClaimsInv, PushPut, IndInv, TypeOK
  <2>5. Sound => FilledInv'
    BY <1>3, <2>1 DEF ContentInv, FilledInv, PushPut, IndInv, ThiefInv, TypeOK, Claiming
  <2> QED
    BY <1>3, <2>3, <2>4, <2>5 DEF ContentInv, Sound, PushPut
<1>4. CASE PushPublish
  <2>1. \A i : Slot(i)' = Slot(i)
    BY <1>4 DEF PushPublish, Slot, array
  <2>2. Window' \subseteq Window \cup {bottom} /\ bottom \in Nat /\ top \in Nat
    BY <1>4 DEF PushPublish, IndInv, TypeOK
  <2>3. ~freedRead => PlacesInv'
    BY <1>4, <2>1, <2>2 DEF ContentInv, PlacesInv, PushPublish
  <2>4. ~freedRead => ClaimsInv'
    BY <1>4, <2>1, <2>2 DEF ContentInv, ClaimsInv, PlacesInv, PushPublish, IndInv, TypeOK
  <2>5. Sound => FilledInv'
    BY <1>4, <2>1, <2>2 DEF ContentInv, FilledInv, PlacesInv, Sound, PushPublish
  <2> QED
    BY <1>4, <2>3, <2>4, <2>5 DEF ContentInv, Sound, PushPublish
<1> QED
  BY <1>1, <1>2, <1>3, <1>4

LEMMA ReceiveOnce ==
    ASSUME TypeOK, NEW v, Receive(v)
    PROVE  \A t \in Tasks : copies'[t] = IF t = v THEN copies[t] + 1 ELSE copies[t]
BY DEF Receive, TypeOK

LEMMA PopContent == ASSUME IndInv, ContentInv, IndInv',
                           PopDec \/ PopLoadTop \/ PopReset \/ PopCas \/ PopStore
                    PROVE  ContentInv'
<1> USE DEF Held, PushPC, Window, Claimable, thief, history, array
<1>1. CASE PopDec
  <2>1. Window' = Window
    BY <1>1 DEF PopDec, IndInv, TypeOK
  <2> QED
    BY <1>1, <2>1, QuietContent DEF PopDec
<1>2. CASE PopLoadTop
  <2>1. top \in Nat /\ bottom \in Int
    BY DEF IndInv, TypeOK
  <2>2. CASE bottom < top
    <3>1. Window' \subseteq Window
      BY <1>2, <2>1, <2>2 DEF PopLoadTop
    <3> QED
      BY <1>2, <2>1, <2>2, <3>1, QuietContent DEF PopLoadTop
  <2>3. CASE bottom = top
    <3>1. \A i : Slot(i)' = Slot(i)
      BY <1>2 DEF PopLoadTop, Slot
    <3>2. Window' = Window /\ item' = Slot(bottom) /\ opc' = "pop_cas"
      BY <1>2, <2>1, <2>3 DEF PopLoadTop
    <3>3. ~freedRead => PlacesInv' /\ ClaimsInv'
      BY <1>2, <2>1, <2>3, <3>1, <3>2 DEF ContentInv, PlacesInv, ClaimsInv, PopLoadTop
    <3>4. Sound => FilledInv'
      BY <1>2, <2>1, <2>3, <3>1, <3>2 DEF ContentInv, FilledInv, PopLoadTop
    <3> QED
      BY <1>2, <3>3, <3>4 DEF ContentInv, Sound, PopLoadTop
  <2>4. CASE bottom > top
    <3>1. \A i : Slot(i)' = Slot(i)
      BY <1>2 DEF PopLoadTop, Slot
    <3>2. Window = Window' \cup {bottom} /\ bottom \notin Window' /\ top \in Window'
      BY <1>2, <2>1, <2>4 DEF PopLoadTop
    <3>3. /\ opc' = "idle" /\ Receive(Slot(bottom)) /\ ~(bottom < top) /\ bottom # top
          /\ UNCHANGED <<top, titem, tpc, ttop, misplaced, freedRead>>
      BY <1>2, <2>1, <2>4 DEF PopLoadTop
    <3>4. \A t \in Tasks : copies'[t] = IF t = Slot(bottom) THEN copies[t] + 1 ELSE copies[t]
      BY <3>3, ReceiveOnce DEF IndInv
    <3>5. ~freedRead => PlacesInv'
      BY <3>1, <3>2, <3>3, <3>4 DEF ContentInv, PlacesInv
    <3>6. ~freedRead => ClaimsInv'
      BY <2>1, <2>4, <3>1, <3>2, <3>3, <3>4 DEF ContentInv, ClaimsInv
    <3>7. Sound => ~junkTaken'
      BY <3>2, <3>3, Zenon DEF ContentInv, FilledInv, Receive
    <3>8. Sound => FilledInv'
      BY <3>1, <3>2, <3>3, <3>7 DEF ContentInv, FilledInv
    <3> QED
      BY <3>3, <3>5, <3>6, <3>8 DEF ContentInv, Sound
  <2> QED
    BY <2>1, <2>2, <2>3, <2>4
<1>3. CASE PopReset
  <2>1. Window' \subseteq Window
    BY <1>3 DEF PopReset, IndInv, TypeOK, IndexInv
  <2> QED
    BY <1>3, <2>1, QuietContent DEF PopReset
<1>4. CASE PopCas
  <2>1. \A i : Slot(i)' = Slot(i)
    BY <1>4 DEF PopCas, Slot
  <2>2. CASE top # oldtop
    <3>1. Window' \subseteq Window
      BY <1>4, <2>2 DEF PopCas, IndInv, TypeOK, IndexInv
    <3> QED
      BY <1>4, <2>2, <3>1, QuietContent DEF PopCas
  <2>3. CASE top = oldtop
    <3>1. /\ Window' = {} /\ bottom \in Window /\ opc' = "pop_store" /\ opc = "pop_cas"
          /\ item = Slot(bottom) \/ freedRead
      BY <1>4, <2>3 DEF PopCas, IndInv, TypeOK, IndexInv, ContentInv, PlacesInv
    <3>2. \A s \in Thieves : ttop'[s] # top'
      BY <1>4, <2>3 DEF PopCas, IndInv, TypeOK, ThiefInv
    <3>3. ~freedRead => PlacesInv' /\ ClaimsInv'
      BY <1>4, <2>1, <3>1, <3>2 DEF ContentInv, PlacesInv, ClaimsInv, PopCas
    <3>4. Sound => FilledInv'
      BY <1>4, <3>1, <3>2 DEF ContentInv, FilledInv, Sound, PopCas
    <3> QED
      BY <1>4, <3>3, <3>4 DEF ContentInv, Sound, PopCas
  <2> QED
    BY <2>2, <2>3
<1>5. CASE PopStore
  <2>1. Window' = {} /\ UNCHANGED <<top, tpc, ttop, titem, misplaced, freedRead>>
    BY <1>5 DEF PopStore, IndInv, TypeOK, IndexInv
  <2>2. \A s \in Thieves : tpc[s] = "cas" => ttop[s] # top
    BY <1>5 DEF PopStore, IndInv, TypeOK, IndexInv, ThiefInv, Claiming
  <2>3. \A t \in Tasks : copies'[t] = IF t = item THEN copies[t] + 1 ELSE copies[t]
    BY <1>5, ReceiveOnce DEF IndInv, PopStore
  <2>4. ~freedRead => PlacesInv' /\ ClaimsInv'
    BY <1>5, <2>1, <2>2, <2>3 DEF ContentInv, PlacesInv, ClaimsInv, PopStore
  <2>5. Sound => ~junkTaken'
    BY <1>5, Zenon DEF ContentInv, FilledInv, Receive, PopStore
  <2>6. Sound => FilledInv'
    BY <1>5, <2>1, <2>2, <2>5 DEF FilledInv, PopStore
  <2> QED
    BY <2>1, <2>4, <2>6 DEF ContentInv, Sound
<1> QED
  BY <1>1, <1>2, <1>3, <1>4, <1>5

LEMMA StealContent == ASSUME IndInv, ContentInv, IndInv', NEW s \in Thieves, ThiefStep(s)
                      PROVE  ContentInv'
<1> USE DEF Held, PushPC, Window, Claimable, owner, history, array
<1>1. CASE StealTop(s) \/ StealBottom(s) \/ StealArray(s)
  <2>1. \A r \in Thieves : tpc'[r] = "cas" =>
            tpc[r] = "cas" /\ ttop'[r] = ttop[r] /\ titem'[r] = titem[r]
    BY <1>1 DEF StealTop, StealBottom, StealArray, IndInv, TypeOK
  <2>2. UNCHANGED <<bottom, top, opc, item, oldtop, cap, slots, copies, junkTaken, misplaced, freedRead>>
    BY <1>1 DEF StealTop, StealBottom, StealArray
  <2>3. Window' = Window
    BY <2>2
  <2> QED
    BY <2>1, <2>2, <2>3, QuietContent
<1>2. CASE StealGet(s)
  <2>1. \A i : Slot(i)' = Slot(i)
    BY <1>2 DEF StealGet, Slot
  <2>2. Window' = Window /\ UNCHANGED <<bottom, top, opc, item, oldtop, copies, junkTaken, misplaced, ttop>>
    BY <1>2 DEF StealGet
  <2>3. ~freedRead' => ~freedRead /\ titem' = [titem EXCEPT ![s] = Slot(ttop[s])]
    BY <1>2, Zenon DEF StealGet
  <2>4. /\ tpc' = [tpc EXCEPT ![s] = "cas"] /\ tpc[s] = "get"
        /\ tpc \in [Thieves -> ThiefPC] /\ titem \in [Thieves -> Values]
    BY <1>2 DEF StealGet, IndInv, TypeOK
  <2>5. ttop[s] = top => top \in Window /\ opc # "pop_store"
    <3>1. ttop[s] = top => top < Claimable
      BY <2>4 DEF IndInv, ThiefInv, Claiming
    <3>2. top \in Nat /\ bottom \in Nat /\ (opc = "pop_store" => bottom < top)
      BY DEF IndInv, TypeOK, IndexInv
    <3> QED
      BY <3>1, <3>2
  <2>6. ~freedRead' => PlacesInv'
    BY <2>1, <2>2, <2>3 DEF ContentInv, PlacesInv
  <2>7. ~freedRead' => ClaimsInv'
    BY <2>1, <2>2, <2>3, <2>4, <2>5 DEF ContentInv, ClaimsInv, PlacesInv
  <2>8. Sound' => FilledInv'
    BY <2>1, <2>2, <2>3, <2>4, <2>5 DEF ContentInv, FilledInv, Sound
  <2> QED
    BY <2>6, <2>7, <2>8 DEF ContentInv
<1>3. CASE StealCas(s)
  <2>1. \A i : Slot(i)' = Slot(i)
    BY <1>3 DEF StealCas, Slot
  <2>2. tpc' = [tpc EXCEPT ![s] = "idle"] /\ tpc[s] = "cas" /\ tpc \in [Thieves -> ThiefPC]
    BY <1>3 DEF StealCas, IndInv, TypeOK
  <2>3. CASE top # ttop[s]
    BY <1>3, <2>2, <2>3, QuietContent DEF StealCas
  <2>4. CASE top = ttop[s]
    <3>1. /\ top' = top + 1 /\ Receive(titem[s])
          /\ UNCHANGED <<bottom, opc, item, oldtop, ttop, titem, misplaced, freedRead>>
      BY <1>3, <2>4 DEF StealCas
    <3>2. Window' = Window \ {top} /\ top \in Window /\ opc # "pop_store"
      <4>1. top < Claimable
        BY <2>2, <2>4 DEF IndInv, ThiefInv, Claiming
      <4>2. top \in Nat /\ bottom \in Nat /\ (opc = "pop_store" => bottom < top)
        BY DEF IndInv, TypeOK, IndexInv
      <4> QED
        BY <3>1, <4>1, <4>2
    <3>3. \A r \in Thieves : ttop'[r] # top'
      BY <3>1 DEF IndInv, TypeOK, ThiefInv
    <3>4. \A t \in Tasks : copies'[t] = IF t = titem[s] THEN copies[t] + 1 ELSE copies[t]
      BY <3>1, ReceiveOnce DEF IndInv
    <3>5. opc = "pop_cas" => top' # oldtop'
      BY <3>1, <3>2 DEF IndInv, TypeOK, IndexInv
    <3>6. ~freedRead => PlacesInv'
      BY <2>1, <2>2, <2>4, <3>1, <3>2, <3>4, <3>5 DEF ContentInv, PlacesInv, ClaimsInv
    <3>7. ClaimsInv'
      BY <3>3 DEF ClaimsInv
    <3>8. Sound => ~junkTaken'
      BY <2>2, <2>4, <3>1, <3>2, Zenon DEF ContentInv, FilledInv, Receive
    <3>9. Sound => FilledInv'
      BY <2>1, <3>1, <3>2, <3>3, <3>8 DEF ContentInv, FilledInv
    <3> QED
      BY <3>1, <3>6, <3>7, <3>9 DEF ContentInv, Sound
  <2> QED
    BY <2>3, <2>4
<1> QED
  BY <1>1, <1>2, <1>3 DEF ThiefStep

LEMMA ContentInductive == Spec => []ContentInv
<1>1. IndInv /\ IndInv' /\ ContentInv /\ [Next]_vars => ContentInv'
  <2> SUFFICES ASSUME IndInv, IndInv', ContentInv, [Next]_vars PROVE ContentInv'
    OBVIOUS
  <2>1. CASE OwnerStep
    BY <2>1, PushContent, PopContent DEF OwnerStep
  <2>2. CASE \E s \in Thieves : ThiefStep(s)
    BY <2>2, StealContent
  <2>3. CASE UNCHANGED vars
    BY <2>3, QuietContent DEF vars, owner, thief, array, history, Window, Claimable
  <2> QED
    BY <2>1, <2>2, <2>3 DEF Next
<1> QED
  BY <1>1, InitContent, Inductive, PTL DEF Spec

\* However many thieves race the owner and however often the array has grown, a
\* task is handed to one caller only (workstealingqueue.h:100-155, pop and steal).
THEOREM NobodyTakesTwice == Spec => []TakenOnce
<1>1. ContentInv => TakenOnce
  BY DEF ContentInv, PlacesInv, TakenOnce
<1> QED
  BY <1>1, ContentInductive, PTL

\* A task that a caller holds is at no index, and no task is at two: what push
\* writes it has, and growing or wrapping round the array doubles nothing.
THEOREM QueuedOrHeld == Spec => []NeverHeldAndQueued
<1>1. ContentInv => NeverHeldAndQueued
  BY DEF ContentInv, PlacesInv, NeverHeldAndQueued
<1> QED
  BY <1>1, ContentInductive, PTL

\* A compare-exchange that is about to succeed hands over a task that nobody
\* has, although the slot was read three steps ago.
THEOREM ClaimsAreSafe == Spec => []ClaimIsSafe
<1>1. IndInv /\ ContentInv => ClaimIsSafe
  <2>1. IndInv => \A s \in Thieves : tpc[s] = "cas" /\ ttop[s] = top => top \in Window
    BY DEF IndInv, TypeOK, ThiefInv, Claiming, Claimable, Window
  <2> QED
    BY <2>1 DEF ContentInv, ClaimsInv, ClaimIsSafe
<1> QED
  BY <1>1, Inductive, ContentInductive, PTL

\* Until a growth misplaces tasks or a thief reads a deleted array, pop and steal
\* return only what was pushed.  (After a misplacing growth pop may return an empty
\* slot: OnlyTasksTaken of queue_refuted.cfg.)
THEOREM PushedTakenWhileSound == Spec => []NoJunkTaken
<1>1. ContentInv => NoJunkTaken
  BY DEF ContentInv, FilledInv, NoJunkTaken
<1> QED
  BY <1>1, ContentInductive, PTL
-----------------------------------------------------------------------------
(* While its array is Sound the queue is the deque of ReadyDeque.          *)

LEMMA SeqOfWindow == ASSUME NEW n \in Nat, NEW S, NEW f \in [1 .. n -> S]
                     PROVE  f \in Seq(S) /\ Len(f) = n
OBVIOUS

LEMMA AppendLast ==
    ASSUME NEW n \in Nat, NEW S, NEW e \in S,
           NEW f \in [1 .. n -> S], NEW g \in [1 .. n + 1 -> S],
           g[n + 1] = e, \A i \in 1 .. n : g[i] = f[i]
    PROVE  g = Append(f, e)
BY SeqOfWindow, AppendProperties, SeqEqual

LEMMA DropFirst ==
    ASSUME NEW n \in Nat, NEW S, NEW f \in [1 .. n + 1 -> S], NEW g \in [1 .. n -> S],
           \A i \in 1 .. n : g[i] = f[i + 1]
    PROVE  g = Tail(f) /\ Head(f) = f[1] /\ f # <<>>
BY SeqOfWindow, HeadTailProperties, SeqEqual

LEMMA DropLast ==
    ASSUME NEW n \in Nat, NEW S, NEW f \in [1 .. n + 1 -> S], NEW g \in [1 .. n -> S],
           \A i \in 1 .. n : g[i] = f[i]
    PROVE  g = SubSeq(f, 1, n) /\ Len(f) = n + 1 /\ f # <<>>
BY SeqOfWindow, SubSeqProperties, SeqEqual

\* What the variables of the deque are, by the owner's step.
LEMMA MappedSkewed ==
    /\ opc \in {"pop_top", "pop_reset"} => (Skewed <=> bottom + 1 < top)
    /\ opc \in {"pop_cas", "pop_store"} => ~Skewed
    /\ opc \in {"idle"} \cup PushPC => (Skewed <=> bottom < top)
BY DEF Skewed, PushPC

LEMMA SkewedBoolean == Skewed \in BOOLEAN /\ Skewed' \in BOOLEAN
BY Zenon DEF Skewed

LEMMA MappedPopping ==
    /\ opc \in {"pop_top", "pop_reset"} => Popping = "open"
    /\ opc = "pop_cas" => Popping = IF top = oldtop THEN "open" ELSE "raced"
    /\ opc \in {"idle", "pop_store"} \cup PushPC => Popping = "no"
BY DEF Popping, PushPC

\* The tasks that wait, by their number.
LEMMA WaitingTyped ==
    ASSUME IndInv, ContentInv, Sound
    PROVE  /\ Claimable - top \in Int
           /\ Claimable <= top => Waiting = <<>>
           /\ Claimable > top => Claimable - top \in Nat \ {0}
                                 /\ Waiting \in [1 .. Claimable - top -> Tasks]
<1>1. Claimable \in Int /\ top \in Nat
  BY DEF IndInv, TypeOK, Claimable
<1>2. \A i \in top .. Claimable - 1 : Slot(i) \in Tasks
  BY DEF ContentInv, FilledInv, Window
<1>3. Claimable <= top => Waiting = <<>>
  BY <1>1 DEF Waiting
<1>4. Waiting \in [1 .. Claimable - top -> Tasks]
  <2> SUFFICES ASSUME NEW k \in 1 .. Claimable - top PROVE Slot(top + k - 1) \in Tasks
    BY DEF Waiting
  <2> QED
    BY <1>1, <1>2
<1> QED
  BY <1>1, <1>3, <1>4

\* The window and what it holds stay.
LEMMA WaitingStays ==
    ASSUME IndInv, IndInv', Claimable' = Claimable, top' = top,
           \A i \in Window : Slot(i)' = Slot(i)
    PROVE  Waiting' = Waiting
<1>1. Claimable \in Int /\ top \in Nat
  BY DEF IndInv, TypeOK, Claimable
<1>2. \A k \in 1 .. Claimable - top : Slot(top + k - 1)' = Slot(top + k - 1)
  BY <1>1 DEF Window
<1> QED
  BY <1>1, <1>2 DEF Waiting

LEMMA OwnedTyped ==
    ASSUME TypeOK, TypeOK' PROVE Owned \in [Tasks -> Nat] /\ Owned' \in [Tasks -> Nat]
BY DEF TypeOK, Owned

LEMMA PushMaps ==
    ASSUME TypeOK, TypeOK', NEW t \in Tasks,
           Popping = "no", Popping' = "no", ~Skewed', Owned[t] > 0,
           \A u \in Tasks : Owned'[u] = IF u = t THEN Owned[u] - 1 ELSE Owned[u],
           Waiting' = IF Skewed THEN Waiting ELSE Append(Waiting, t)
    PROVE  Deque!Push(t)
<1>1. Owned' = [Owned EXCEPT ![t] = @ - 1]
  BY OwnedTyped
<1> QED
  BY <1>1, SkewedBoolean DEF Deque!Push

\* A push takes effect when it publishes; before, it only holds its task.
LEMMA PushDeque ==
    ASSUME IndInv, IndInv', ContentInv, ContentInv', Sound, Sound',
           (\E t \in Tasks : PushBegin(t)) \/ PushGrow \/ PushPut \/ PushPublish
    PROVE  Deque!Next \/ UNCHANGED Deque!dqvars
<1> USE DEF PushPC
<1>1. ASSUME NEW t \in Tasks, PushBegin(t) PROVE UNCHANGED Deque!dqvars
  <2>1. Waiting' = Waiting
    BY <1>1, WaitingStays DEF PushBegin, Claimable, Slot, array
  <2>2. Skewed' = Skewed /\ Popping' = Popping
    BY <1>1, MappedSkewed, SkewedBoolean, MappedPopping DEF PushBegin, Skewed, Popping
  <2>3. Owned' = Owned
    BY <1>1 DEF PushBegin, Owned, InHands, IndInv, TypeOK
  <2> QED
    BY <2>1, <2>2, <2>3 DEF Deque!dqvars
<1>2. CASE PushGrow
  <2>1. Waiting' = Waiting
    <3> SUFFICES ASSUME NEW i \in Window PROVE Slot(i)' = Slot(i)
      BY <1>2, WaitingStays DEF PushGrow, Claimable
    <3>1. ~(bottom > cap)
      BY <1>2, Zenon DEF PushGrow, Sound
    <3>2. i \in Nat /\ i < cap
      BY <1>2, <3>1 DEF PushGrow, IndInv, TypeOK, Window, Claimable
    <3> QED
      BY <1>2, <3>2, DoubledSlot DEF PushGrow, Slot, IndInv
  <2>2. Skewed' = Skewed /\ Popping' = Popping
    BY <1>2 DEF PushGrow, Skewed, Popping
  <2>3. Owned' = Owned
    BY <1>2 DEF PushGrow, Owned, InHands
  <2> QED
    BY <2>1, <2>2, <2>3 DEF Deque!dqvars
<1>3. CASE PushPut
  <2>1. Waiting' = Waiting
    <3> SUFFICES ASSUME NEW i \in Window PROVE Slot(i)' = Slot(i)
      BY <1>3, WaitingStays DEF PushPut, Claimable
    <3>1. i \in Nat /\ bottom \in Nat /\ cap \in Nat \ {0} /\ i < bottom /\ bottom - i < cap
      BY <1>3 DEF IndInv, TypeOK, IndexInv, PushPut, Window, Claimable
    <3>2. i % cap # bottom % cap
      BY <3>1, Apart
    <3> QED
      BY <1>3, <3>2 DEF PushPut, Slot, IndInv, TypeOK
  <2>2. Skewed' = Skewed /\ Popping' = Popping
    BY <1>3 DEF PushPut, Skewed, Popping
  <2>3. Owned' = Owned
    BY <1>3 DEF PushPut, Owned, InHands, history
  <2> QED
    BY <2>1, <2>2, <2>3 DEF Deque!dqvars
<1>4. CASE PushPublish
  <2>1. /\ opc = "push_publish" /\ opc' = "idle" /\ bottom' = bottom + 1
        /\ UNCHANGED <<top, item, copies, cap, slots>>
    BY <1>4 DEF PushPublish, array, history
  <2>2. item \in Tasks /\ copies[item] = 0 /\ Slot(bottom) = item
    BY <2>1 DEF ContentInv, PlacesInv, Sound, Held
  <2>3. \A i : Slot(i)' = Slot(i)
    BY <2>1 DEF Slot
  <2>4. bottom \in Nat /\ top \in Nat /\ bottom >= top - 1
    BY <2>1 DEF IndInv, TypeOK, IndexInv
  <2>5. Claimable = bottom /\ Claimable' = bottom + 1
    BY <2>1 DEF Claimable
  <2>6. Popping = "no" /\ Popping' = "no" /\ Skewed' = FALSE /\ (Skewed <=> bottom < top)
    BY <2>1, <2>4 DEF Popping, Skewed
  <2>7. /\ Owned[item] > 0
        /\ \A u \in Tasks : Owned'[u] = IF u = item THEN Owned[u] - 1 ELSE Owned[u]
    BY <2>1, <2>2 DEF Owned, InHands
  <2>8. CASE bottom < top
    <3>1. Waiting = <<>> /\ Waiting' = <<>>
      BY <2>1, <2>4, <2>5, <2>8 DEF Waiting
    <3>2. Deque!Push(item)
      BY <2>2, <2>6, <2>7, <2>8, <3>1, PushMaps DEF IndInv
    <3> QED
      BY <2>2, <3>2 DEF Deque!Next
  <2>9. CASE bottom >= top
    <3> DEFINE n == bottom - top
    <3>1. n \in Nat /\ Waiting \in [1 .. n -> Tasks]
      <4>1. CASE bottom = top
        BY <2>4, <2>5, <4>1 DEF Waiting
      <4>2. CASE bottom > top
        BY <2>4, <2>5, <4>2, WaitingTyped
      <4> QED
        BY <2>4, <2>9, <4>1, <4>2
    <3>2. Waiting' \in [1 .. n + 1 -> Tasks]
      <4>1. Claimable' - top' = n + 1 /\ Claimable' > top'
        BY <2>1, <2>4, <2>5, <2>9
      <4>2. \A k \in 1 .. n + 1 : Slot(top + k - 1) \in Tasks
        <5> SUFFICES ASSUME NEW k \in 1 .. n + 1 PROVE Slot(top + k - 1) \in Tasks
          OBVIOUS
        <5>1. CASE k = n + 1
          BY <2>2, <2>4, <5>1
        <5>2. CASE k # n + 1
          BY <2>4, <2>5, <2>9, <5>2 DEF ContentInv, FilledInv, Window
        <5> QED
          BY <5>1, <5>2
      <4> QED
        BY <2>1, <2>3, <4>1, <4>2 DEF Waiting
    <3>3. Waiting'[n + 1] = item /\ \A k \in 1 .. n : Waiting'[k] = Waiting[k]
      <4>1. /\ Waiting = [k \in 1 .. n |-> Slot(top + k - 1)]
            /\ Waiting' = [k \in 1 .. n + 1 |-> Slot(top + k - 1)]
        BY <2>1, <2>3, <2>4, <2>5 DEF Waiting
      <4>2. top + (n + 1) - 1 = bottom
        BY <2>4
      <4> QED
        BY <2>2, <3>1, <4>1, <4>2
    <3>4. Waiting' = Append(Waiting, item)
      <4> HIDE DEF n
      <4> QED
        BY <2>2, <3>1, <3>2, <3>3, AppendLast
    <3>5. Deque!Push(item)
      BY <2>2, <2>4, <2>6, <2>7, <2>9, <3>4, PushMaps DEF IndInv
    <3> QED
      BY <2>2, <3>5 DEF Deque!Next
  <2> QED
    BY <2>4, <2>8, <2>9
<1> QED
  BY <1>1, <1>2, <1>3, <1>4

LEMMA TakeMaps ==
    ASSUME TypeOK, TypeOK', NEW t \in Tasks,
           \A u \in Tasks : Owned'[u] = IF u = t THEN Owned[u] + 1 ELSE Owned[u]
    PROVE  Deque!Take(t)
<1>1. Owned' = [Owned EXCEPT ![t] = @ + 1]
  BY OwnedTyped
<1> QED
  BY <1>1 DEF Deque!Take

\* A pop takes effect when it knows which index it gets, if any.
LEMMA PopDeque ==
    ASSUME IndInv, IndInv', ContentInv, ContentInv', Sound, Sound',
           PopDec \/ PopLoadTop \/ PopReset \/ PopCas \/ PopStore
    PROVE  Deque!Next \/ UNCHANGED Deque!dqvars
<1>1. CASE PopDec
  <2>1. Claimable' = Claimable /\ \A i : Slot(i)' = Slot(i)
    BY <1>1 DEF PopDec, Claimable, Slot, array, IndInv, TypeOK
  <2>2. Waiting' = Waiting
    BY <1>1, <2>1, WaitingStays DEF PopDec
  <2>3. Skewed' = Skewed
    BY <1>1 DEF PopDec, Skewed, IndInv, TypeOK
  <2>4. Popping = "no" /\ Popping' = "open"
    BY <1>1 DEF PopDec, Popping
  <2>5. Owned' = Owned
    BY <1>1 DEF PopDec, Owned, InHands, history
  <2> QED
    BY <2>2, <2>3, <2>4, <2>5 DEF Deque!Next, Deque!PopBegin
<1>2. CASE PopLoadTop
  <2>1. /\ opc = "pop_top" /\ oldtop' = top /\ UNCHANGED <<bottom, top, cap, slots>>
        /\ bottom \in Nat /\ top \in Nat
    BY <1>2 DEF PopLoadTop, array, IndInv, TypeOK
  <2>2. \A i : Slot(i)' = Slot(i)
    BY <2>1 DEF Slot
  <2>3. Claimable = bottom + 1 /\ Popping = "open" /\ (Skewed <=> bottom + 1 < top)
    BY <2>1 DEF Claimable, Popping, Skewed
  <2>4. CASE bottom < top
    <3>1. opc' = "pop_reset" /\ UNCHANGED <<item, copies>>
      BY <1>2, <2>1, <2>4 DEF PopLoadTop
    <3>2. Waiting = <<>> /\ Waiting' = <<>>
      BY <2>1, <2>3, <2>4, <3>1 DEF Waiting, Claimable
    <3>3. Skewed' = Skewed /\ Popping' = Popping /\ Owned' = Owned
      BY <2>1, <3>1 DEF Skewed, Popping, Owned, InHands
    <3> QED
      BY <3>2, <3>3 DEF Deque!dqvars
  <2>5. CASE bottom = top
    <3>1. opc' = "pop_cas" /\ UNCHANGED copies
      BY <1>2, <2>1, <2>5 DEF PopLoadTop
    <3>2. Claimable' = Claimable
      BY <2>1, <2>3, <3>1 DEF Claimable
    <3>3. Waiting' = Waiting
      BY <2>1, <2>2, <3>2, WaitingStays
    <3>4. Popping' = Popping /\ Skewed' = Skewed
      BY <2>1, <2>3, <2>5, <3>1, SkewedBoolean DEF Popping, Skewed
    <3>5. Owned' = Owned
      BY <2>1, <3>1 DEF Owned, InHands
    <3> QED
      BY <3>3, <3>4, <3>5 DEF Deque!dqvars
  <2>6. CASE bottom > top
    <3> DEFINE n == bottom - top
               t == Slot(bottom)
    <3>1. opc' = "idle" /\ Receive(t)
      BY <1>2, <2>1, <2>6 DEF PopLoadTop
    <3>2. /\ n \in Nat \ {0} /\ Claimable - top = n + 1 /\ Claimable' - top' = n
          /\ Claimable > top /\ Claimable' > top'
      BY <2>1, <2>3, <2>6, <3>1 DEF Claimable
    <3>3. Waiting \in [1 .. n + 1 -> Tasks] /\ Waiting = [k \in 1 .. n + 1 |-> Slot(top + k - 1)]
      BY <3>2, WaitingTyped DEF Waiting
    <3>4. Waiting' \in [1 .. n -> Tasks] /\ \A k \in 1 .. n : Waiting'[k] = Waiting[k]
      <4>1. Waiting' = [k \in 1 .. n |-> Slot(top + k - 1)]
        BY <2>1, <2>2, <3>2 DEF Waiting
      <4>2. \A k \in 1 .. n : k \in 1 .. n + 1 /\ Slot(top + k - 1) = Waiting[k]
        BY <3>2, <3>3
      <4> QED
        BY <3>3, <4>1, <4>2
    <3>5. Waiting[n + 1] = t /\ t \in Tasks
      <4>1. top + (n + 1) - 1 = bottom
        BY <2>1
      <4>2. Waiting[n + 1] = Slot(top + (n + 1) - 1)
        BY <3>2, <3>3
      <4> QED
        BY <3>2, <3>3, <4>1, <4>2
    <3>6. Waiting' = SubSeq(Waiting, 1, n) /\ Len(Waiting) = n + 1 /\ Waiting # <<>>
      <4> HIDE DEF n
      <4> QED
        BY <3>2, <3>3, <3>4, DropLast
    <3>7. \A u \in Tasks : Owned'[u] = IF u = t THEN Owned[u] + 1 ELSE Owned[u]
      BY <2>1, <3>1 DEF Owned, InHands, Receive
    <3>8. Deque!Take(t)
      BY <3>5, <3>7, TakeMaps DEF IndInv
    <3>9. Popping' = "no" /\ Skewed' = Skewed
      BY <2>1, <2>3, <2>6, <3>1, SkewedBoolean DEF Popping, Skewed
    <3>10. Len(Waiting) - 1 = n
      BY <3>2, <3>6
    <3>11. Deque!PopEnd
      <4> HIDE DEF n, t
      <4> QED
        BY <2>3, <3>5, <3>6, <3>8, <3>9, <3>10 DEF Deque!PopEnd
    <3> QED
      BY <3>11 DEF Deque!Next
  <2> QED
    BY <2>1, <2>4, <2>5, <2>6
<1>3. CASE PopReset
  <2>1. /\ opc = "pop_reset" /\ opc' = "idle" /\ bottom' = top /\ bottom < top
        /\ UNCHANGED <<top, item, copies>> /\ bottom \in Nat /\ top \in Nat
    BY <1>3 DEF PopReset, IndInv, TypeOK, IndexInv, history
  <2>2. Waiting = <<>> /\ Waiting' = <<>>
    BY <2>1 DEF Waiting, Claimable
  <2>3. Popping = "open" /\ Popping' = "no" /\ ~Skewed' /\ Owned' = Owned
    BY <2>1 DEF Popping, Skewed, Owned, InHands
  <2>4. Skewed' = FALSE
    BY <2>3, SkewedBoolean
  <2> QED
    BY <2>2, <2>3, <2>4 DEF Deque!Next, Deque!PopEnd
<1>4. CASE PopCas
  <2>1. /\ opc = "pop_cas" /\ bottom = oldtop /\ UNCHANGED <<bottom, item, copies>>
        /\ bottom \in Nat /\ top \in Nat /\ Claimable = bottom + 1 /\ ~Skewed
    BY <1>4 DEF PopCas, IndInv, TypeOK, IndexInv, history, Claimable, Skewed
  <2>2. CASE top = oldtop
    <3>1. opc' = "pop_store" /\ top' = top + 1
      BY <1>4, <2>2 DEF PopCas
    <3>2. Claimable - top = 1 /\ Claimable > top /\ Claimable' - top' = -1
      BY <2>1, <2>2, <3>1 DEF Claimable
    <3>3. Waiting \in [1 .. 1 -> Tasks] /\ Waiting[1] = item /\ item \in Tasks
      <4>1. Waiting \in [1 .. 1 -> Tasks]
        BY <3>2, WaitingTyped
      <4>2. Waiting[1] = Slot(top + 1 - 1)
        BY <3>2 DEF Waiting
      <4>3. item = Slot(bottom) /\ top + 1 - 1 = bottom
        BY <2>1, <2>2 DEF ContentInv, PlacesInv, Sound
      <4> QED
        BY <4>1, <4>2, <4>3
    <3>4. Waiting # <<>> /\ Len(Waiting) = 1
      BY <3>3, SeqOfWindow
    <3>5. Waiting' = <<>> /\ SubSeq(Waiting, 1, 0) = <<>>
      BY <3>2, <3>3 DEF Waiting
    <3>6. \A u \in Tasks : Owned'[u] = IF u = item THEN Owned[u] + 1 ELSE Owned[u]
      BY <2>1, <3>1 DEF Owned, InHands, IndInv, TypeOK
    <3>7. Deque!Take(item)
      BY <3>3, <3>6, TakeMaps DEF IndInv
    <3>8. Popping = "open" /\ Popping' = "no" /\ ~Skewed'
      BY <2>1, <2>2, <3>1 DEF Popping, Skewed
    <3>9. Skewed' = Skewed
      BY <2>1, <3>8, SkewedBoolean
    <3>10. Deque!PopEnd
      BY <3>3, <3>4, <3>5, <3>7, <3>8, <3>9 DEF Deque!PopEnd
    <3> QED
      BY <3>10 DEF Deque!Next
  <2>3. CASE top # oldtop
    <3>1. opc' = "idle" /\ top' = top /\ top = oldtop + 1
      BY <1>4, <2>3 DEF PopCas, IndInv, IndexInv
    <3>2. Waiting = <<>> /\ Waiting' = <<>>
      BY <2>1, <3>1 DEF Waiting, Claimable
    <3>3. Popping = "raced" /\ Popping' = "no" /\ Skewed' /\ Owned' = Owned
      BY <2>1, <2>3, <3>1 DEF Popping, Skewed, Owned, InHands
    <3>4. Skewed' = TRUE
      BY <3>3, SkewedBoolean
    <3> QED
      BY <3>2, <3>3, <3>4 DEF Deque!Next, Deque!PopEnd
  <2> QED
    BY <2>2, <2>3
<1>5. CASE PopStore
  <2>1. /\ opc = "pop_store" /\ opc' = "idle" /\ bottom' = oldtop + 1 /\ top' = top
        /\ bottom = oldtop /\ top = oldtop + 1 /\ item' = item /\ Receive(item)
        /\ oldtop \in Nat
    BY <1>5 DEF PopStore, IndInv, TypeOK, IndexInv
  <2>2. Waiting = <<>> /\ Waiting' = <<>>
    BY <2>1 DEF Waiting, Claimable
  <2>3. Popping' = Popping /\ ~Skewed /\ ~Skewed'
    BY <2>1 DEF Popping, Skewed
  <2>4. Skewed' = Skewed
    BY <2>3, SkewedBoolean
  <2>5. Owned' = Owned
    BY <2>1 DEF Owned, InHands, Receive
  <2> QED
    BY <2>2, <2>3, <2>4, <2>5 DEF Deque!dqvars
<1> QED
  BY <1>1, <1>2, <1>3, <1>4, <1>5

\* A steal takes effect at its compare-exchange.
LEMMA StealDeque ==
    ASSUME IndInv, IndInv', ContentInv, ContentInv', Sound, Sound',
           NEW s \in Thieves, ThiefStep(s)
    PROVE  Deque!Next \/ UNCHANGED Deque!dqvars
<1>1. ASSUME UNCHANGED <<bottom, top, opc, item, oldtop, cap, slots, copies>>
      PROVE  UNCHANGED Deque!dqvars
  <2>1. Waiting' = Waiting /\ Skewed' = Skewed /\ Popping' = Popping /\ Owned' = Owned
    BY <1>1 DEF Waiting, Claimable, Slot, Skewed, Popping, Owned, InHands
  <2> QED
    BY <2>1 DEF Deque!dqvars
<1>2. CASE StealTop(s) \/ StealBottom(s) \/ StealArray(s) \/ StealGet(s)
  BY <1>1, <1>2 DEF StealTop, StealBottom, StealArray, StealGet, owner, array, history
<1>3. CASE StealCas(s)
  <2>1. CASE top # ttop[s]
    BY <1>1, <1>3, <2>1 DEF StealCas, owner, array
  <2>2. CASE top = ttop[s]
    <3> DEFINE n == Claimable - top - 1
               t == titem[s]
    <3>1. /\ top' = top + 1 /\ Receive(t) /\ UNCHANGED <<bottom, opc, item, oldtop, cap, slots>>
          /\ tpc[s] = "cas"
      BY <1>3, <2>2 DEF StealCas, owner, array
    <3>2. /\ top \in Nat /\ bottom \in Nat /\ Claimable \in Int /\ top < Claimable
          /\ opc \in OwnerPC
      BY <2>2, <3>1 DEF IndInv, TypeOK, ThiefInv, Claiming, Claimable
    <3>3. /\ n \in Nat /\ Claimable - top = n + 1 /\ Claimable' - top' = n
          /\ Claimable > top /\ \A i : Slot(i)' = Slot(i)
      BY <3>1, <3>2 DEF Claimable, Slot
    <3>4. Waiting \in [1 .. n + 1 -> Tasks] /\ Waiting = [k \in 1 .. n + 1 |-> Slot(top + k - 1)]
      BY <3>3, WaitingTyped DEF Waiting
    <3>5. Waiting' = [k \in 1 .. n |-> Slot(top + 1 + k - 1)]
      BY <3>1, <3>3 DEF Waiting
    <3>6. Waiting' \in [1 .. n -> Tasks] /\ \A k \in 1 .. n : Waiting'[k] = Waiting[k + 1]
      <4>1. \A k \in 1 .. n : k + 1 \in 1 .. n + 1 /\ Slot(top + 1 + k - 1) = Waiting[k + 1]
        <5> SUFFICES ASSUME NEW k \in 1 .. n
                     PROVE  k + 1 \in 1 .. n + 1 /\ Slot(top + 1 + k - 1) = Waiting[k + 1]
          OBVIOUS
        <5>1. k + 1 \in 1 .. n + 1 /\ top + 1 + k - 1 = top + (k + 1) - 1
          BY <3>2, <3>3
        <5>2. Waiting[k + 1] = Slot(top + (k + 1) - 1)
          BY <3>4, <5>1
        <5> QED
          BY <5>1, <5>2
      <4> QED
        BY <3>4, <3>5, <4>1
    <3>7. Waiting[1] = t /\ t \in Tasks
      <4>1. t = Slot(top)
        BY <2>2, <3>1 DEF ContentInv, FilledInv
      <4>2. 1 \in 1 .. n + 1 /\ top + 1 - 1 = top
        BY <3>2, <3>3
      <4>3. Waiting[1] = Slot(top + 1 - 1)
        BY <3>4, <4>2
      <4> QED
        BY <3>4, <4>1, <4>2, <4>3
    <3>8. Waiting' = Tail(Waiting) /\ Head(Waiting) = t /\ Waiting # <<>> /\ Len(Waiting) = n + 1
      <4> HIDE DEF n
      <4>1. n + 1 \in Nat
        BY <3>3
      <4> QED
        BY <3>3, <3>4, <3>6, <3>7, <4>1, DropFirst, SeqOfWindow
    <3>9. \A u \in Tasks : Owned'[u] = IF u = t THEN Owned[u] + 1 ELSE Owned[u]
      BY <3>1 DEF Owned, InHands, Receive, IndInv, TypeOK
    <3>10. Deque!Take(t)
      BY <3>7, <3>9, TakeMaps DEF IndInv
    <3>11. Skewed' = Skewed
      <4>1. ~Skewed /\ ~Skewed'
        BY <3>1, <3>2 DEF Skewed, Claimable
      <4> QED
        BY <4>1, SkewedBoolean
    <3>12. Popping' = Popping \/ (Popping = "open" /\ n + 1 = 1 /\ Popping' = "raced")
      <4>1. CASE opc = "pop_cas"
        BY <3>1, <3>2, <4>1 DEF Popping, Claimable, IndInv, IndexInv
      <4>2. CASE opc # "pop_cas"
        BY <3>1, <4>2 DEF Popping
      <4> QED
        BY <4>1, <4>2
    <3>13. Deque!Steal
      <4> HIDE DEF n, t
      <4> QED
        BY <3>8, <3>10, <3>11, <3>12 DEF Deque!Steal
    <3> QED
      BY <3>13 DEF Deque!Next
  <2> QED
    BY <2>1, <2>2
<1> QED
  BY <1>2, <1>3 DEF ThiefStep

\* Growing late and reading a deleted array are not undone.
LEMMA SoundBefore == [Next]_vars /\ Sound' => Sound
<1> SUFFICES ASSUME [Next]_vars, Sound' PROVE Sound
  OBVIOUS
<1>1. CASE OwnerStep
  <2>1. CASE PushGrow
    BY <2>1, Zenon DEF Sound, PushGrow
  <2>2. CASE OwnerStep /\ ~PushGrow
    BY <2>2
    DEF OwnerStep, Sound, history, PushBegin, PushPut, PushPublish, PopDec,
        PopLoadTop, PopReset, PopCas, PopStore
  <2> QED
    BY <1>1, <2>1, <2>2
<1>2. ASSUME NEW s \in Thieves, ThiefStep(s) PROVE Sound
  BY <1>2
  DEF ThiefStep, Sound, history, StealTop, StealBottom, StealArray, StealGet, StealCas
<1>3. CASE UNCHANGED vars
  BY <1>3 DEF vars, history, Sound
<1> QED
  BY <1>1, <1>2, <1>3 DEF Next

\* workstealingqueue.h implements the deque that Processor uses, with any number
\* of thieves and growths, until an array grows too late or is read after its
\* deletion.
THEOREM QueueIsDeque == Spec => ImplementsDeque
<1>1. Init => Deque!Init
  <2> SUFFICES ASSUME Init PROVE Deque!Init
    OBVIOUS
  <2>1. bottom = 1 /\ top = 1 /\ opc = "idle" /\ copies = [t \in Tasks |-> 1]
    BY DEF Init
  <2>2. Waiting = <<>>
    BY <2>1 DEF Waiting, Claimable
  <2>3. ~Skewed /\ Popping = "no" /\ Owned = [t \in Tasks |-> 1]
    BY <2>1 DEF Skewed, Popping, Owned, InHands
  <2> QED
    BY <2>2, <2>3, SkewedBoolean DEF Deque!Init
<1>2. /\ IndInv /\ IndInv' /\ ContentInv /\ ContentInv' /\ [Next]_vars
      => [Sound' => Deque!Next \/ UNCHANGED Deque!dqvars]_vars
  <2> SUFFICES ASSUME IndInv, IndInv', ContentInv, ContentInv', [Next]_vars, Sound'
               PROVE  (Deque!Next \/ UNCHANGED Deque!dqvars) \/ UNCHANGED vars
    OBVIOUS
  <2>1. Sound
    BY SoundBefore
  <2>2. CASE OwnerStep
    BY <2>1, <2>2, PushDeque, PopDeque DEF OwnerStep
  <2>3. CASE \E s \in Thieves : ThiefStep(s)
    BY <2>1, <2>3, StealDeque
  <2> QED
    BY <2>2, <2>3 DEF Next
<1> QED
  BY <1>1, <1>2, Inductive, ContentInductive, PTL DEF Spec, ImplementsDeque
=============================================================================
