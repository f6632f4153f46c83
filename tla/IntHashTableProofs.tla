------------------------- MODULE IntHashTableProofs -------------------------
(***************************************************************************)
(* The open-addressing table for every key set, hash function and          *)
(* capacity: its probes end and are never broken, its list of live slots   *)
(* is exact, and it implements the map of GroupMap.                        *)
(***************************************************************************)
EXTENDS IntHashTableInv, FiniteSetTheorems, TLAPS

-----------------------------------------------------------------------------
(* Slot arithmetic. *)

\* Every hash has a home slot, whatever the capacity.
LEMMA HomeInRange ==
  ASSUME NEW c \in Nat \ {0}, NEW h \in Nat
  PROVE  h % c \in 0 .. c - 1
  OBVIOUS

\* A probe looks only at slots of the table.
LEMMA AtInRange ==
  cap \in Nat \ {0} => \A h \in Nat : \A d \in Nat : At(h, d) \in 0 .. cap - 1
  BY HomeInRange DEF At

\* From any slot, some number of steps leads to any other.
LEMMA StepsBetween ==
  ASSUME NEW c \in Nat \ {0}, NEW home \in 0 .. c - 1, NEW i \in 0 .. c - 1
  PROVE  \E d \in 0 .. c - 1 : (home + d) % c = i
  <1>1. CASE home <= i
    <2>1. i - home \in 0 .. c - 1 /\ home + (i - home) = i
      BY <1>1
    <2>2. i % c = i
      OBVIOUS
    <2> QED BY <2>1, <2>2
  <1>2. CASE home > i
    <2>1. i + c - home \in 0 .. c - 1 /\ home + (i + c - home) = i + c
      BY <1>2
    <2>2. (i + c) % c = i
      OBVIOUS
    <2> QED BY <2>1, <2>2
  <1> QED BY <1>1, <1>2

\* A probe that never stops would look at every slot.
LEMMA AtReaches ==
  ASSUME cap \in Nat \ {0}, NEW h \in Nat, NEW i \in 0 .. cap - 1
  PROVE  \E d \in 0 .. cap - 1 : At(h, d) = i
  BY HomeInRange, StepsBetween DEF At

-----------------------------------------------------------------------------
(* Types. *)

\* Doubling and halving.
LEMMA DoubledHalf ==
  ASSUME NEW c \in Nat \ {0}
  PROVE  c * 2 \in Nat \ {0} /\ (c * 2) % 2 = 0 /\ (c * 2) \div 2 = c
  OBVIOUS

\* Filling a slot keeps the table's types.
LEMMA FillTypes ==
  ASSUME NEW c \in Nat \ {0},
         slots \in [0 .. c - 1 -> Slot], occupied \in Seq(0 .. c - 1), used \in Nat,
         NEW i \in 0 .. c - 1, NEW h \in Nat, NEW k \in Keys,
         NEW m \in [rows : Nat, count : Nat, sum : Int],
         Fill(i, h, k, m)
  PROVE  /\ slots' \in [0 .. c - 1 -> Slot]
         /\ occupied' \in Seq(0 .. c - 1)
         /\ used' \in Nat
  <1>1. [filled |-> TRUE, hash |-> h, key |-> k, pay |-> m] \in Slot
    BY DEF Slot
  <1>2. slots' \in [0 .. c - 1 -> Slot]
    BY <1>1 DEF Fill
  <1>3. occupied' \in Seq(0 .. c - 1) /\ used' \in Nat
    BY DEF Fill
  <1> QED BY <1>2, <1>3

\* The measure an entry has after a fold.
LEMMA PlusTypes ==
  ASSUME NEW a \in [rows : Nat, count : Nat, sum : Int],
         NEW b \in [rows : Nat, count : Nat, sum : Int]
  PROVE  Plus(a, b) \in [rows : Nat, count : Nat, sum : Int]
  BY DEF Plus

\* A fresh array has well-typed slots, none of them filled.
LEMMA FreshSlot == Fresh \in Slot /\ ~Fresh.filled
  BY TableAssumption DEF Fresh, Slot, Zero, SomeKey

\* The measures of a call are measures of a slot.
LEMMA MeasureTypes == Measures \subseteq [rows : Nat, count : Nat, sum : Int]
  BY TableAssumption

\* The table starts well typed.
LEMMA InitTypes == Init => TypeOK
  BY TableAssumption, FreshSlot DEF Init, TypeOK, Call, NoCall

\* No step of the table or of a call leaves the types.
LEMMA NextTypes == TypeOK /\ [Next]_vars => TypeOK'
  <1> SUFFICES ASSUME TypeOK, [Next]_vars PROVE TypeOK'
    OBVIOUS
  <1> USE TableAssumption, MeasureTypes DEF TypeOK
  <1>1. ASSUME NEW k \in Keys, NEW m \in Measures, FoldCall(k, m) PROVE TypeOK'
    BY <1>1 DEF FoldCall, Call
  <1>2. ASSUME NEW n \in 0 .. MaxReserve, ReserveCall(n) PROVE TypeOK'
    BY <1>2 DEF ReserveCall, Call
  <1>3. CASE Grow
    <2>1. cap' = cap * 2 /\ cap' \in Nat \ {0} /\ cap' % 2 = 0 /\ cap' \div 2 = cap
      BY <1>3, DoubledHalf DEF Grow, Doubled
    <2>2. slots' \in [0 .. cap' - 1 -> Slot] /\ occupied' \in Seq(0 .. cap' - 1) /\ used' \in Nat
      BY <1>3, <2>1, FreshSlot DEF Grow, Doubled
    <2> QED BY <1>3, <2>1, <2>2 DEF Grow
  <1>4. CASE MoveEntry
    <2> DEFINE e == old[Head(rest)]
    <2>1. e \in Slot /\ rest' \in Seq(0 .. cap \div 2 - 1)
      BY <1>4 DEF MoveEntry
    <2>2. e.hash \in Nat /\ e.key \in Keys /\ e.pay \in [rows : Nat, count : Nat, sum : Int]
      BY <2>1 DEF Slot
    <2>3. /\ slots' \in [0 .. cap - 1 -> Slot]
          /\ occupied' \in Seq(0 .. cap - 1)
          /\ used' \in Nat
      <3>1. CASE ~e.filled
        BY <1>4, <3>1 DEF MoveEntry
      <3>2. CASE e.filled
        <4>1. PICK d \in 0 .. cap - 1 : Fill(At(e.hash, d), e.hash, e.key, e.pay)
          BY <1>4, <3>2 DEF MoveEntry
        <4>2. At(e.hash, d) \in 0 .. cap - 1
          <5>1. d \in Nat
            BY <4>1
          <5> QED BY <2>2, <5>1, AtInRange
        <4> HIDE DEF e
        <4> QED BY <1>4, <2>2, <4>1, <4>2, FillTypes DEF MoveEntry
      <3> QED BY <3>1, <3>2
    <2> QED BY <1>4, <2>1, <2>3 DEF MoveEntry
  <1>5. CASE Grown
    BY <1>5 DEF Grown, AfterGrow, Call, NoCall
  <1>6. CASE Insert
    <2> DEFINE h == Hash[call.key]
    <2>1. call.key \in Keys /\ call.measure \in Measures
      BY <1>6 DEF Insert, Call
    <2>2. PICK d \in 0 .. cap - 1 : Fill(At(h, d), h, call.key, call.measure)
      BY <1>6 DEF Insert
    <2>3. h \in Nat /\ At(h, d) \in 0 .. cap - 1
      <3>1. d \in Nat
        BY <2>2
      <3> QED BY <2>1, <3>1, AtInRange
    <2>4. /\ slots' \in [0 .. cap - 1 -> Slot]
          /\ occupied' \in Seq(0 .. cap - 1)
          /\ used' \in Nat
      <3> HIDE DEF h
      <3> QED BY <1>6, <2>1, <2>2, <2>3, FillTypes DEF Insert, Return
    <2> QED BY <1>6, <2>4 DEF Insert, Return, Call, NoCall
  <1>7. CASE Update
    <2> DEFINE h == Hash[call.key]
    <2>1. call.key \in Keys /\ call.measure \in Measures
      BY <1>7 DEF Update, Call
    <2>2. PICK d \in 0 .. cap - 1 :
            slots' = [slots EXCEPT ![At(h, d)].pay = Plus(@, call.measure)]
      BY <1>7 DEF Update
    <2>3. At(h, d) \in 0 .. cap - 1
      <3>1. h \in Nat
        BY <2>1
      <3>2. d \in Nat
        BY <2>2
      <3> QED BY <3>1, <3>2, AtInRange
    <2>4. slots' \in [0 .. cap - 1 -> Slot]
      <3>1. Plus(slots[At(h, d)].pay, call.measure) \in [rows : Nat, count : Nat, sum : Int]
        <4>1. slots[At(h, d)] \in Slot
          BY <2>3
        <4> HIDE DEF TypeOK, h
        <4>2. slots[At(h, d)].pay \in [rows : Nat, count : Nat, sum : Int]
          BY <4>1 DEF Slot
        <4> QED BY <2>1, <4>2, PlusTypes
      <3>2. ASSUME NEW s \in Slot, NEW p \in [rows : Nat, count : Nat, sum : Int]
            PROVE  [s EXCEPT !.pay = p] \in Slot
        BY DEF Slot
      <3>3. slots \in [0 .. cap - 1 -> Slot] /\ slots[At(h, d)] \in Slot
        BY <2>3
      <3>4. slots' = [slots EXCEPT ![At(h, d)] = [slots[At(h, d)] EXCEPT !.pay = Plus(slots[At(h, d)].pay, call.measure)]]
        BY <2>2
      <3> HIDE DEF TypeOK, h
      <3> QED BY <3>1, <3>2, <3>3, <3>4
    <2> QED BY <1>7, <2>4 DEF Update, Return, Call, NoCall
  <1>8. CASE Reset
    <2>1. ASSUME NEW s \in Slot PROVE [s EXCEPT !.filled = FALSE] \in Slot
      BY DEF Slot
    <2>2. slots' \in [0 .. cap - 1 -> Slot]
      BY <1>8, <2>1 DEF Reset
    <2> QED BY <1>8, <2>2 DEF Reset
  <1>9. CASE UNCHANGED vars
    BY <1>9 DEF vars
  <1> HIDE DEF TypeOK
  <1> QED BY <1>1, <1>2, <1>3, <1>4, <1>5, <1>6, <1>7, <1>8, <1>9 DEF Next, Step

-----------------------------------------------------------------------------
(* Filling a slot, and steps that fill none. *)

SlotKeysUnique ==
  \A i, j \in 0 .. cap - 1 :
    slots[i].filled /\ slots[j].filled /\ slots[i].key = slots[j].key => i = j

Structure == OccupiedExact /\ HashesCached /\ ProbeUnbroken /\ SlotKeysUnique

\* An element of a sequence over S is in S.
LEMMA SeqElement ==
  ASSUME NEW S, NEW s \in Seq(S), NEW n \in 1 .. Len(s)
  PROVE  s[n] \in S
  OBVIOUS

\* What the list of live slots lists is live.
LEMMA OccupiedFilled ==
  ASSUME TypeOK, OccupiedExact
  PROVE  \A n \in 1 .. used : slots[occupied[n]].filled /\ occupied[n] \in 0 .. cap - 1
  <1>1. occupied \in Seq(0 .. cap - 1)
    BY DEF TypeOK
  <1>2. used = Len(occupied)
    BY DEF OccupiedExact
  <1>3. \A n \in 1 .. used : occupied[n] \in 0 .. cap - 1
    BY <1>1, <1>2, SeqElement
  <1>4. \A i \in 0 .. cap - 1 : slots[i].filled <=> \E n \in 1 .. used : occupied[n] = i
    BY DEF OccupiedExact
  <1> QED BY <1>3, <1>4

\* A new entry that goes to the first free slot of its probe, and whose key has
\* no slot yet, leaves every probe unbroken and every key with one slot.
LEMMA FillKeeps ==
  ASSUME TypeOK, TypeOK', cap' = cap, Structure,
         NEW k \in Keys, NEW m, NEW d \in 0 .. cap - 1,
         FreeFirst(Hash[k], d),
         \A i \in 0 .. cap - 1 : slots[i].filled => slots[i].key # k,
         Fill(At(Hash[k], d), Hash[k], k, m)
  PROVE  Structure'
  <1> DEFINE new == At(Hash[k], d)
  <1>1. Hash[k] \in Nat /\ d \in Nat /\ cap \in Nat \ {0}
    BY TableAssumption DEF TypeOK
  <1>2. new \in 0 .. cap - 1
    BY <1>1, AtInRange
  <1>3. ~slots[new].filled
    BY DEF FreeFirst
  <1>4. /\ slots'[new] = [filled |-> TRUE, hash |-> Hash[k], key |-> k, pay |-> m]
        /\ \A i \in 0 .. cap - 1 : i # new => slots'[i] = slots[i]
    BY <1>2 DEF Fill, TypeOK
  <1>5. \A h, e : At(h, e)' = At(h, e)
    BY DEF At
  <1>6. \A i \in 0 .. cap - 1 : slots[i].filled => slots'[i] = slots[i] /\ slots'[i].filled
    BY <1>3, <1>4
  <1>7. \A h \in Nat : \A e \in Nat : At(h, e) \in 0 .. cap - 1
    BY <1>1, AtInRange
  <1>8. OccupiedExact'
    <2>1. used' = used + 1 /\ Len(occupied') = used' /\ used \in Nat
      BY DEF Fill, TypeOK, Structure, OccupiedExact
    <2>2. /\ \A n \in 1 .. used : occupied'[n] = occupied[n]
          /\ occupied'[used + 1] = new
      BY DEF Fill, TypeOK, Structure, OccupiedExact
    <2>3. \A n \in 1 .. used : slots[occupied[n]].filled /\ occupied[n] \in 0 .. cap - 1
      BY OccupiedFilled DEF Structure
    <2>4. \A n \in 1 .. used' : n = used + 1 \/ n \in 1 .. used
      BY <2>1
    <2>5. \A i \in 0 .. cap - 1 : slots'[i].filled => \E n \in 1 .. used' : occupied'[n] = i
      <3> TAKE i \in 0 .. cap - 1
      <3>1. CASE i = new
        BY <2>1, <2>2, <3>1
      <3>2. CASE i # new
        BY <1>4, <2>1, <2>2, <3>2 DEF Structure, OccupiedExact
      <3> QED BY <3>1, <3>2
    <2>6. \A i \in 0 .. cap - 1 : (\E n \in 1 .. used' : occupied'[n] = i) => slots'[i].filled
      BY <1>4, <1>6, <2>2, <2>3, <2>4
    <2>7. \A a, b \in 1 .. used' : occupied'[a] = occupied'[b] => a = b
      <3> HIDE DEF new
      <3> QED BY <1>3, <2>2, <2>3, <2>4 DEF Structure, OccupiedExact
    <2> QED BY <2>1, <2>5, <2>6, <2>7 DEF OccupiedExact
  <1>9. HashesCached'
    <2> HIDE DEF new
    <2> QED BY <1>4 DEF Structure, HashesCached
  <1>10. ProbeUnbroken'
    <2> SUFFICES ASSUME NEW i \in 0 .. cap - 1, slots'[i].filled
                 PROVE  \E a \in 0 .. cap - 1 :
                          /\ At(Hash[slots'[i].key], a) = i
                          /\ \A e \in 0 .. a - 1 : slots'[At(Hash[slots'[i].key], e)].filled
      BY <1>5 DEF ProbeUnbroken
    <2>1. CASE i = new
      <3>1. \A e \in 0 .. d - 1 : slots[At(Hash[k], e)].filled /\ At(Hash[k], e) \in 0 .. cap - 1
        <4> TAKE e \in 0 .. d - 1
        <4>1. e \in Nat
          OBVIOUS
        <4>2. At(Hash[k], e) \in 0 .. cap - 1
          BY <1>1, <1>7, <4>1
        <4>3. slots[At(Hash[k], e)].filled
          BY DEF FreeFirst
        <4> QED BY <4>2, <4>3
      <3>2. \A e \in 0 .. d - 1 : slots'[At(Hash[k], e)].filled
        BY <1>6, <3>1
      <3>3. slots'[i].key = k
        BY <1>4, <2>1
      <3> QED BY <2>1, <3>2, <3>3
    <2>2. CASE i # new
      <3>1. slots'[i] = slots[i] /\ slots[i].filled
        BY <1>4, <2>2
      <3>2. slots[i].key \in Keys /\ Hash[slots[i].key] \in Nat
        BY TableAssumption DEF TypeOK, Slot
      <3>3. PICK a \in 0 .. cap - 1 :
              /\ At(Hash[slots[i].key], a) = i
              /\ \A e \in 0 .. a - 1 : slots[At(Hash[slots[i].key], e)].filled
        BY <3>1 DEF Structure, ProbeUnbroken
      <3>4. \A e \in 0 .. a - 1 : slots'[At(Hash[slots[i].key], e)].filled
        <4> TAKE e \in 0 .. a - 1
        <4>1. e \in Nat
          OBVIOUS
        <4>2. At(Hash[slots[i].key], e) \in 0 .. cap - 1
          BY <1>7, <3>2, <4>1
        <4>3. slots[At(Hash[slots[i].key], e)].filled
          BY <3>3
        <4> QED BY <1>6, <4>2, <4>3
      <3> QED BY <3>1, <3>3, <3>4
    <2> QED BY <2>1, <2>2
  <1>11. SlotKeysUnique'
    <2> SUFFICES ASSUME NEW i \in 0 .. cap - 1, NEW j \in 0 .. cap - 1,
                        slots'[i].filled, slots'[j].filled, slots'[i].key = slots'[j].key
                 PROVE  i = j
      BY DEF SlotKeysUnique
    <2>1. slots'[new].key = k
      BY <1>4
    <2>2. \A x \in 0 .. cap - 1 : x # new => slots'[x] = slots[x]
      BY <1>4
    <2> HIDE DEF new
    <2>3. CASE i = new /\ j # new
      BY <2>1, <2>2, <2>3
    <2>4. CASE j = new /\ i # new
      BY <2>1, <2>2, <2>4
    <2>5. CASE i # new /\ j # new
      BY <2>2, <2>5 DEF Structure, SlotKeysUnique
    <2> QED BY <2>3, <2>4, <2>5
  <1> QED BY <1>8, <1>9, <1>10, <1>11 DEF Structure

\* A step that changes no slot but for its measure keeps the structure.
LEMMA SameShapeKeeps ==
  ASSUME TypeOK, cap' = cap, used' = used, occupied' = occupied, Structure,
         \A i \in 0 .. cap - 1 : /\ slots'[i].filled = slots[i].filled
                                 /\ slots'[i].hash = slots[i].hash
                                 /\ slots'[i].key = slots[i].key
  PROVE  Structure'
  <1>1. \A h, e : At(h, e)' = At(h, e)
    BY DEF At
  <1>2. OccupiedExact'
    BY DEF Structure, OccupiedExact
  <1>3. HashesCached'
    BY DEF Structure, HashesCached
  <1>4. ProbeUnbroken'
    <2>1. \A h \in Nat : \A e \in Nat : At(h, e) \in 0 .. cap - 1
      BY AtInRange DEF TypeOK
    <2> SUFFICES ASSUME NEW i \in 0 .. cap - 1, slots'[i].filled
                 PROVE  \E a \in 0 .. cap - 1 :
                          /\ At(Hash[slots'[i].key], a) = i
                          /\ \A e \in 0 .. a - 1 : slots'[At(Hash[slots'[i].key], e)].filled
      BY <1>1 DEF ProbeUnbroken
    <2>2. Hash[slots[i].key] \in Nat
      BY TableAssumption DEF TypeOK, Slot
    <2>3. PICK a \in 0 .. cap - 1 :
            /\ At(Hash[slots[i].key], a) = i
            /\ \A e \in 0 .. a - 1 : slots[At(Hash[slots[i].key], e)].filled
      BY DEF Structure, ProbeUnbroken
    <2>4. \A e \in 0 .. a - 1 : slots'[At(Hash[slots[i].key], e)].filled
      <3> TAKE e \in 0 .. a - 1
      <3>1. e \in Nat
        OBVIOUS
      <3>2. At(Hash[slots[i].key], e) \in 0 .. cap - 1
        BY <2>1, <2>2, <3>1
      <3>3. slots[At(Hash[slots[i].key], e)].filled
        BY <2>3
      <3> QED BY <3>2, <3>3
    <2> QED BY <2>3, <2>4
  <1>5. SlotKeysUnique'
    BY DEF Structure, SlotKeysUnique
  <1> QED BY <1>2, <1>3, <1>4, <1>5 DEF Structure

\* A table without entries has the structure.
LEMMA EmptyStructure ==
  ASSUME used = 0, occupied = << >>, \A i \in 0 .. cap - 1 : ~slots[i].filled
  PROVE  Structure
  BY DEF Structure, OccupiedExact, HashesCached, ProbeUnbroken, SlotKeysUnique

-----------------------------------------------------------------------------
(* The inductive invariant. *)

\* An entry on the move has no slot yet.
MovedApart ==
  (pc = "move") =>
    \A n \in 1 .. Len(rest), i \in 0 .. cap - 1 : slots[i].filled => slots[i].key # old[rest[n]].key

\* The invariant by its parts, for the steps that need only some of them.
LEMMA InvParts ==
  IInv <=> TypeOK /\ Structure /\ MovedApart /\ RestMovable /\ Room
  BY DEF IInv, Structure, KeysUnique, SlotKeysUnique, MovedApart

\* A fresh table satisfies the invariant.
LEMMA InitInv == Init => IInv
  <1> SUFFICES ASSUME Init PROVE IInv
    OBVIOUS
  <1>1. TypeOK
    BY InitTypes
  <1>2. Structure
    BY FreshSlot, TableAssumption, EmptyStructure DEF Init
  <1>3. MovedApart /\ RestMovable /\ Room
    BY TableAssumption DEF Init, MovedApart, RestMovable, Room
  <1> QED BY <1>1, <1>2, <1>3, InvParts

\* grow allocates: the live entries become the entries to move.
LEMMA GrowInv ==
  ASSUME TypeOK, TypeOK', Structure, Room, Grow
  PROVE  Structure' /\ MovedApart' /\ RestMovable' /\ Room'
  <1>1. /\ cap' = cap * 2 /\ used' = 0 /\ occupied' = << >>
        /\ old' = slots /\ rest' = occupied /\ pc' = "move"
    BY DEF Grow, Doubled
  <1>2. \A i \in 0 .. cap' - 1 : ~slots'[i].filled
    BY FreshSlot DEF Grow, Doubled
  <1>3. Structure'
    BY <1>1, <1>2 DEF Structure, OccupiedExact, HashesCached, ProbeUnbroken, SlotKeysUnique
  <1>4. MovedApart'
    BY <1>2 DEF MovedApart
  <1>5. RestMovable'
    <2>1. used = Len(occupied)
      BY DEF Structure, OccupiedExact
    <2>2. \A n \in 1 .. used : occupied[n] \in 0 .. cap - 1 /\ slots[occupied[n]].filled
      BY OccupiedFilled DEF Structure
    <2>3. \A n \in 1 .. used : slots[occupied[n]].hash = Hash[slots[occupied[n]].key]
      BY <2>2 DEF Structure, HashesCached
    <2>4. \A m, n \in 1 .. used : slots[occupied[m]].key = slots[occupied[n]].key => m = n
      BY <2>2 DEF Structure, OccupiedExact, SlotKeysUnique
    <2>5. 2 * (0 + used) <= cap * 2
      BY DEF Room, TypeOK
    <2> QED BY <1>1, <2>1, <2>2, <2>3, <2>4, <2>5 DEF RestMovable
  <1>6. Room'
    BY <1>1 DEF Room, TypeOK
  <1> QED BY <1>3, <1>4, <1>5, <1>6

\* Moving an entry: it finds a free slot, and it is the only entry of its key.
LEMMA MoveInv ==
  ASSUME TypeOK, TypeOK', Structure, MovedApart, RestMovable, Room, MoveEntry
  PROVE  Structure' /\ MovedApart' /\ RestMovable' /\ Room'
  <1> DEFINE e == old[Head(rest)]
  <1>1. /\ pc = "move" /\ pc' = "move" /\ cap' = cap /\ old' = old /\ rest' = Tail(rest)
        /\ rest # << >> /\ Len(rest) \in Nat /\ Len(rest) >= 1 /\ Head(rest) = rest[1]
        /\ Len(rest') = Len(rest) - 1
        /\ \A n \in 1 .. Len(rest') : rest'[n] = rest[n + 1]
        /\ Head(rest) \in 0 .. cap \div 2 - 1
    BY DEF MoveEntry, TypeOK
  <1>2. e \in Slot
    BY <1>1 DEF TypeOK
  <1>3. e.filled /\ e.hash = Hash[e.key] /\ e.key \in Keys
    BY <1>1, <1>2 DEF RestMovable, Slot
  <1>4. PICK d \in 0 .. cap - 1 :
          FreeFirst(Hash[e.key], d) /\ Fill(At(Hash[e.key], d), Hash[e.key], e.key, e.pay)
    BY <1>3 DEF MoveEntry
  <1> DEFINE new == At(Hash[e.key], d)
  <1>5. \A i \in 0 .. cap - 1 : slots[i].filled => slots[i].key # e.key
    BY <1>1 DEF MovedApart
  <1>6. Structure'
    <2> HIDE DEF e
    <2> QED BY <1>1, <1>3, <1>4, <1>5, FillKeeps
  <1>7. used' = used + 1
    BY <1>4 DEF Fill
  <1>8. MovedApart'
    <2> SUFFICES ASSUME NEW n \in 1 .. Len(rest'), NEW i \in 0 .. cap - 1, slots'[i].filled
                 PROVE  slots'[i].key # old[rest'[n]].key
      BY <1>1 DEF MovedApart
    <2>1. n + 1 \in 1 .. Len(rest) /\ rest'[n] = rest[n + 1] /\ n + 1 # 1
      BY <1>1
    <2>2. new \in 0 .. cap - 1
      <3>1. d \in Nat /\ Hash[e.key] \in Nat
        BY <1>3, <1>4, TableAssumption
      <3> HIDE DEF e
      <3> QED BY <3>1, AtInRange DEF TypeOK
    <2>3. CASE i = new
      <3>1. slots'[i].key = e.key
        <4> HIDE DEF e
        <4> QED BY <1>4, <2>2, <2>3 DEF Fill, TypeOK
      <3>2. old[rest[1]].key # old[rest[n + 1]].key
        BY <1>1, <2>1 DEF RestMovable
      <3> QED BY <1>1, <2>1, <3>1, <3>2
    <2>4. CASE i # new
      <3>1. slots'[i] = slots[i]
        <4> HIDE DEF e
        <4> QED BY <1>4, <2>2, <2>4 DEF Fill, TypeOK
      <3> QED BY <1>1, <2>1, <3>1 DEF MovedApart
    <2> QED BY <2>3, <2>4
  <1>9. RestMovable'
    <2>1. \A n \in 1 .. Len(rest') : n + 1 \in 1 .. Len(rest) /\ rest'[n] = rest[n + 1]
      BY <1>1
    <2>2. \A n \in 1 .. Len(rest') :
            old[rest'[n]].filled /\ old[rest'[n]].hash = Hash[old[rest'[n]].key]
      BY <1>1, <2>1 DEF RestMovable
    <2>3. ASSUME NEW m \in 1 .. Len(rest'), NEW n \in 1 .. Len(rest'),
                 old[rest'[m]].key = old[rest'[n]].key
          PROVE  m = n
      <3>1. m + 1 \in 1 .. Len(rest) /\ n + 1 \in 1 .. Len(rest)
            /\ old[rest[m + 1]].key = old[rest[n + 1]].key
        BY <2>1, <2>3
      <3>2. m + 1 = n + 1
        BY <1>1, <3>1 DEF RestMovable
      <3> QED BY <3>2
    <2>4. 2 * (used' + Len(rest')) <= cap
      BY <1>1, <1>7 DEF RestMovable, TypeOK
    <2> QED BY <1>1, <2>2, <2>3, <2>4 DEF RestMovable
  <1>10. Room'
    <2>1. 2 * (used + Len(rest)) <= cap /\ used \in Nat /\ cap \in Nat
      BY <1>1 DEF RestMovable, TypeOK
    <2>2. used + 1 <= cap
      BY <1>1, <2>1
    <2> QED BY <1>1, <1>7, <2>2 DEF Room
  <1> QED BY <1>6, <1>8, <1>9, <1>10

\* A probe that stops at a free slot proves that its key has no slot.
LEMMA AbsentKey ==
  ASSUME TypeOK, Structure, NEW k \in Keys, NEW d \in 0 .. cap - 1,
         StopsFirst(Hash[k], k, d), ~slots[At(Hash[k], d)].filled
  PROVE  /\ FreeFirst(Hash[k], d)
         /\ \A i \in 0 .. cap - 1 : slots[i].filled => slots[i].key # k
  <1>1. FreeFirst(Hash[k], d)
    BY DEF FreeFirst, StopsFirst, Stops
  <1>2. ASSUME NEW i \in 0 .. cap - 1, slots[i].filled, slots[i].key = k
        PROVE  FALSE
    <2>1. PICK a \in 0 .. cap - 1 :
            At(Hash[k], a) = i /\ \A e \in 0 .. a - 1 : slots[At(Hash[k], e)].filled
      BY <1>2 DEF Structure, ProbeUnbroken
    <2>2. slots[i].hash = Hash[k]
      BY <1>2 DEF Structure, HashesCached
    <2>3. CASE a < d
      BY <1>2, <2>1, <2>2, <2>3 DEF StopsFirst, Stops
    <2>4. CASE a = d
      BY <1>2, <2>1, <2>4
    <2>5. CASE a > d
      BY <2>1, <2>5
    <2> QED BY <2>3, <2>4, <2>5
  <1> QED BY <1>1, <1>2

\* An insert takes the first free slot of a key that has none.
LEMMA InsertInv ==
  ASSUME TypeOK, TypeOK', Structure, Room, Insert
  PROVE  Structure' /\ MovedApart' /\ RestMovable' /\ Room'
  <1>1. pc = "probe" /\ pc' = "idle" /\ cap' = cap
    BY DEF Insert, Return
  <1>2. call.key \in Keys
    BY <1>1 DEF TypeOK, Call
  <1>3. PICK d \in 0 .. cap - 1 :
          /\ StopsFirst(Hash[call.key], call.key, d)
          /\ ~slots[At(Hash[call.key], d)].filled
          /\ Fill(At(Hash[call.key], d), Hash[call.key], call.key, call.measure)
    BY DEF Insert
  <1>4. /\ FreeFirst(Hash[call.key], d)
        /\ \A i \in 0 .. cap - 1 : slots[i].filled => slots[i].key # call.key
    BY <1>2, <1>3, AbsentKey
  <1>5. Structure'
    BY <1>1, <1>2, <1>3, <1>4, FillKeeps
  <1>6. Room'
    <2>1. used' = used + 1 /\ used * 3 < cap * 2 /\ used \in Nat /\ cap \in Nat
      BY <1>1, <1>3 DEF Fill, Room, TypeOK
    <2>2. used + 1 <= cap
      BY <2>1
    <2> QED BY <1>1, <2>1, <2>2 DEF Room
  <1> QED BY <1>1, <1>5, <1>6 DEF MovedApart, RestMovable

\* Folding into a live slot moves nothing.
LEMMA UpdateInv ==
  ASSUME TypeOK, Structure, Room, Update
  PROVE  Structure' /\ MovedApart' /\ RestMovable' /\ Room'
  <1>1. pc = "probe" /\ pc' = "idle" /\ cap' = cap /\ used' = used /\ occupied' = occupied
    BY DEF Update, Return
  <1>2. PICK i : slots' = [slots EXCEPT ![i].pay = Plus(@, call.measure)]
    BY DEF Update
  <1>3. \A j \in 0 .. cap - 1 : /\ slots'[j].filled = slots[j].filled
                                /\ slots'[j].hash = slots[j].hash
                                /\ slots'[j].key = slots[j].key
    BY <1>2 DEF TypeOK, Slot
  <1>4. Structure'
    BY <1>1, <1>3, SameShapeKeeps
  <1> QED BY <1>1, <1>4 DEF MovedApart, RestMovable, Room

\* The steps that leave the arrays alone.
LEMMA QuietInv ==
  ASSUME TypeOK, Structure, Room, MovedApart, RestMovable,
         UNCHANGED <<cap, slots, occupied, used>>,
         \/ pc' # "move" /\ ((pc' = "probe") => used * 3 < cap * 2)
         \/ UNCHANGED <<pc, old, rest>>
  PROVE  Structure' /\ MovedApart' /\ RestMovable' /\ Room'
  <1>1. Structure'
    BY SameShapeKeeps
  <1>2. MovedApart' /\ RestMovable' /\ Room'
    BY DEF MovedApart, RestMovable, Room
  <1> QED BY <1>1, <1>2

\* Every step of a call, of a growth or of a reset keeps the invariant.
LEMMA NextInv == IInv /\ [Next]_vars => IInv'
  <1> SUFFICES ASSUME IInv, [Next]_vars PROVE Structure' /\ MovedApart' /\ RestMovable' /\ Room'
    <2>1. IInv /\ [Next]_vars => TypeOK'
      BY NextTypes DEF IInv
    <2>2. Structure' /\ MovedApart' => OccupiedExact' /\ HashesCached' /\ ProbeUnbroken' /\ KeysUnique'
      BY DEF Structure, KeysUnique, SlotKeysUnique, MovedApart
    <2> QED BY <2>1, <2>2 DEF IInv
  <1>0. TypeOK /\ TypeOK' /\ Structure /\ MovedApart /\ RestMovable /\ Room
    BY NextTypes, InvParts
  <1>1. ASSUME NEW k \in Keys, NEW m \in Measures, FoldCall(k, m)
        PROVE  Structure' /\ MovedApart' /\ RestMovable' /\ Room'
    <2>1. UNCHANGED <<cap, slots, occupied, used>> /\ pc' # "move"
      BY <1>1 DEF FoldCall
    <2>2. (pc' = "probe") => used * 3 < cap * 2
      BY <1>0, <1>1 DEF FoldCall, Loaded, TypeOK
    <2> QED BY <1>0, <2>1, <2>2, QuietInv
  <1>2. ASSUME NEW n \in 0 .. MaxReserve, ReserveCall(n)
        PROVE  Structure' /\ MovedApart' /\ RestMovable' /\ Room'
    BY <1>0, <1>2, QuietInv DEF ReserveCall
  <1>3. CASE Grow
    BY <1>0, <1>3, GrowInv
  <1>4. CASE MoveEntry
    BY <1>0, <1>4, MoveInv
  <1>5. CASE Grown
    <2>1. UNCHANGED <<cap, slots, occupied, used>> /\ pc' # "move"
      BY <1>5 DEF Grown, AfterGrow
    <2>2. used * 3 < cap * 2
      <3>1. 2 * (used + 0) <= cap
        BY <1>0, <1>5 DEF RestMovable, Grown
      <3> QED BY <1>0, <3>1 DEF TypeOK
    <2> QED BY <1>0, <2>1, <2>2, QuietInv
  <1>6. CASE Insert
    BY <1>0, <1>6, InsertInv
  <1>7. CASE Update
    BY <1>0, <1>7, UpdateInv
  <1>8. CASE Reset
    <2>1. used' = 0 /\ occupied' = << >> /\ cap' = cap /\ pc' = "idle"
      BY <1>8 DEF Reset
    <2>2. \A i \in 0 .. cap - 1 : ~slots'[i].filled
      BY <1>0, <1>8 DEF Reset, TypeOK, Slot
    <2>3. Structure'
      BY <2>1, <2>2 DEF Structure, OccupiedExact, HashesCached, ProbeUnbroken, SlotKeysUnique
    <2> QED BY <1>0, <2>1, <2>3 DEF MovedApart, RestMovable, Room, TypeOK
  <1>9. CASE UNCHANGED vars
    BY <1>0, <1>9, QuietInv DEF vars
  <1> QED BY <1>1, <1>2, <1>3, <1>4, <1>5, <1>6, <1>7, <1>8, <1>9 DEF Next, Step

\* A table with fewer groups than slots has a free slot.
LEMMA FreeSlot ==
  ASSUME TypeOK, OccupiedExact, used < cap
  PROVE  \E i \in 0 .. cap - 1 : ~slots[i].filled
  <1> SUFFICES ASSUME \A i \in 0 .. cap - 1 : slots[i].filled PROVE FALSE
    OBVIOUS
  <1>1. used \in Nat /\ cap \in Nat /\ occupied \in [1 .. used -> 0 .. cap - 1]
    <2>1. used \in Nat /\ cap \in Nat /\ Len(occupied) = used
      BY DEF TypeOK, OccupiedExact
    <2>2. occupied \in [1 .. Len(occupied) -> 0 .. cap - 1]
      BY DEF TypeOK
    <2> QED BY <2>1, <2>2
  <1>2. \A i \in 0 .. cap - 1 : \E n \in 1 .. used : occupied[n] = i
    BY DEF OccupiedExact
  <1>3. occupied \in Surjection(1 .. used, 0 .. cap - 1)
    BY <1>1, <1>2 DEF Surjection
  <1>4. IsFiniteSet(1 .. used) /\ Cardinality(1 .. used) = used
    BY <1>1, FS_Interval
  <1>5. Cardinality(0 .. cap - 1) = cap
    BY <1>1, FS_Interval
  <1>6. Cardinality(0 .. cap - 1) <= Cardinality(1 .. used)
    BY <1>3, <1>4, FS_Surjection
  <1> QED BY <1>1, <1>4, <1>5, <1>6

\* The load factor leaves a free slot for every probe to stop at.
LEMMA InvProbeEnds == IInv => ProbeEnds
  <1> SUFFICES ASSUME IInv PROVE ProbeEnds
    OBVIOUS
  <1>1. TypeOK /\ OccupiedExact /\ cap \in Nat \ {0} /\ used \in Nat
    BY DEF IInv, TypeOK
  <1>2. ASSUME pc = "probe" PROVE \E d \in 0 .. cap - 1 : Stops(Hash[call.key], call.key, d)
    <2>1. used < cap
      <3>1. used * 3 < cap * 2
        BY <1>2 DEF IInv, Room
      <3> QED BY <1>1, <3>1
    <2>2. PICK i \in 0 .. cap - 1 : ~slots[i].filled
      BY <1>1, <2>1, FreeSlot
    <2>3. Hash[call.key] \in Nat
      BY <1>1, <1>2, TableAssumption DEF TypeOK, Call
    <2>4. PICK d \in 0 .. cap - 1 : At(Hash[call.key], d) = i
      BY <1>1, <2>3, AtReaches
    <2> QED BY <2>2, <2>4 DEF Stops
  <1>3. ASSUME pc = "move" PROVE \E i \in 0 .. cap - 1 : ~slots[i].filled
    <2>1. 2 * (used + Len(rest)) <= cap /\ Len(rest) \in Nat
      BY <1>1, <1>3 DEF IInv, RestMovable, TypeOK
    <2>2. used < cap
      BY <1>1, <2>1
    <2> QED BY <1>1, <2>2, FreeSlot
  <1> QED BY <1>2, <1>3 DEF ProbeEnds

-----------------------------------------------------------------------------
(* The theorems. *)

\* The invariant holds throughout every run of the table.
THEOREM Inductive == Spec => []IInv
  BY InitInv, NextInv, PTL DEF Spec

\* The table keeps its types.
THEOREM TypeCorrect == Spec => []TypeOK
  BY Inductive, PTL DEF IInv

\* Whenever the code probes, some slot ends its unbounded loop.
THEOREM ProbesEnd == Spec => []ProbeEnds
  BY Inductive, InvProbeEnds, PTL

\* A live key is always found: no free slot comes before its own.
THEOREM ProbesUnbroken == Spec => []ProbeUnbroken
  BY Inductive, PTL DEF IInv

\* The list that scans and merges read is exactly the live slots, each once.
THEOREM OccupiedIsExact == Spec => []OccupiedExact
  BY Inductive, PTL DEF IInv

\* No key ever has two slots, not even while a growth is under way.
THEOREM KeysAreUnique == Spec => []KeysUnique
  BY Inductive, PTL DEF IInv

-----------------------------------------------------------------------------
(* Refinement of the map. *)

\* Key k has an entry of measure p, in a slot or waiting to be moved.
Entry(k, p) ==
  \/ \E i \in 0 .. cap - 1 : slots[i].filled /\ slots[i].key = k /\ slots[i].pay = p
  \/ pc = "move" /\ \E n \in 1 .. Len(rest) : old[rest[n]].key = k /\ old[rest[n]].pay = p

MeasureOf(k) == IF GroupsOf(k) = {} THEN Zero ELSE (CHOOSE e \in GroupsOf(k) : TRUE).pay

Mapped == [k \in Keys |-> MeasureOf(k)]

\* The mapping reads a key's measure from its entry.
Measured ==
  \A k \in Keys : /\ \A p : Entry(k, p) => MeasureOf(k) = p
                  /\ (\A p : ~Entry(k, p)) => MeasureOf(k) = Zero

\* What a scan sees has measures a group can have.
LEMMA InvMeasured == IInv => Measured
  <1> SUFFICES ASSUME IInv, NEW k \in Keys
               PROVE  /\ \A p : Entry(k, p) => MeasureOf(k) = p
                      /\ (\A p : ~Entry(k, p)) => MeasureOf(k) = Zero
    BY DEF Measured
  <1>1. \A n \in 1 .. Len(occupied) : occupied[n] \in 0 .. cap - 1 /\ slots[occupied[n]].filled
    BY DEF IInv, TypeOK, OccupiedExact
  <1>2. \A i \in 0 .. cap - 1 : slots[i].filled => slots[i] \in Live
    BY DEF IInv, OccupiedExact, Live
  <1>3. \A e \in Live : \/ \E i \in 0 .. cap - 1 : slots[i].filled /\ e = slots[i]
                        \/ pc = "move" /\ \E n \in 1 .. Len(rest) : e = old[rest[n]]
    BY <1>1 DEF Live
  <1>4. pc = "move" => \A n \in 1 .. Len(rest) : old[rest[n]] \in Live
    BY DEF Live
  <1>5. \A e, f \in GroupsOf(k) : e = f
    <2> SUFFICES ASSUME NEW e \in GroupsOf(k), NEW f \in GroupsOf(k) PROVE e = f
      OBVIOUS
    <2>1. e \in Live /\ f \in Live /\ e.key = k /\ f.key = k
      BY DEF GroupsOf
    <2>2. CASE \E i \in 0 .. cap - 1 : slots[i].filled /\ e = slots[i]
      BY <1>3, <2>1, <2>2 DEF IInv, KeysUnique
    <2>3. CASE pc = "move" /\ \E n \in 1 .. Len(rest) : e = old[rest[n]]
      BY <1>3, <2>1, <2>3 DEF IInv, KeysUnique, RestMovable
    <2> QED BY <1>3, <2>1, <2>2, <2>3
  <1>6. ASSUME NEW p, Entry(k, p) PROVE MeasureOf(k) = p
    <2>1. PICK e \in GroupsOf(k) : e.pay = p
      BY <1>2, <1>4, <1>6 DEF Entry, GroupsOf
    <2>2. (CHOOSE x \in GroupsOf(k) : TRUE) = e
      BY <1>5, <2>1
    <2> QED BY <2>1, <2>2 DEF MeasureOf
  <1>7. ASSUME \A p : ~Entry(k, p) PROVE MeasureOf(k) = Zero
    <2>1. ASSUME NEW e \in GroupsOf(k) PROVE FALSE
      <3>1. e \in Live /\ e.key = k
        BY DEF GroupsOf
      <3>2. Entry(k, e.pay)
        BY <1>3, <3>1 DEF Entry
      <3> QED BY <1>7, <3>2
    <2>2. GroupsOf(k) = {}
      BY <2>1
    <2> QED BY <2>2 DEF MeasureOf
  <1> QED BY <1>6, <1>7

\* The same of the state after a step.
LEMMA NextMeasured == IInv' => Measured'
  BY InvMeasured, PTL

\* Steps that keep every entry keep the map.
LEMMA SameEntries ==
  ASSUME Measured, Measured', \A k \in Keys : \A p : Entry(k, p)' <=> Entry(k, p)
  PROVE  Mapped' = Mapped
  <1>1. ASSUME NEW k \in Keys PROVE MeasureOf(k)' = MeasureOf(k)
    <2>1. CASE \E p : Entry(k, p)
      BY <2>1 DEF Measured
    <2>2. CASE \A p : ~Entry(k, p)
      BY <2>2 DEF Measured
    <2> QED BY <2>1, <2>2
  <1> QED BY <1>1 DEF Mapped

\* grow allocates: every slot's entry now waits to be moved.
LEMMA GrowEntries ==
  ASSUME IInv, Grow
  PROVE  \A k \in Keys : \A p : Entry(k, p)' <=> Entry(k, p)
  <1>1. /\ pc = "grow" /\ pc' = "move" /\ old' = slots /\ rest' = occupied
        /\ \A i \in 0 .. cap' - 1 : ~slots'[i].filled
    BY FreshSlot DEF Grow, Doubled
  <1>2. /\ \A n \in 1 .. Len(occupied) : occupied[n] \in 0 .. cap - 1 /\ slots[occupied[n]].filled
        /\ \A i \in 0 .. cap - 1 : slots[i].filled => \E n \in 1 .. Len(occupied) : occupied[n] = i
    BY DEF IInv, TypeOK, OccupiedExact
  <1>3. ASSUME NEW k, NEW p PROVE Entry(k, p)' <=> \E n \in 1 .. Len(occupied) :
                                       slots[occupied[n]].key = k /\ slots[occupied[n]].pay = p
    BY <1>1 DEF Entry
  <1>4. ASSUME NEW k, NEW p PROVE Entry(k, p) <=> \E n \in 1 .. Len(occupied) :
                                       slots[occupied[n]].key = k /\ slots[occupied[n]].pay = p
    BY <1>1, <1>2 DEF Entry
  <1> QED BY <1>3, <1>4

\* Filling a slot sets that slot and no other.
LEMMA FillEffect ==
  ASSUME TypeOK, NEW new \in 0 .. cap - 1, NEW h, NEW x, NEW m, Fill(new, h, x, m)
  PROVE  /\ slots'[new].filled /\ slots'[new].key = x /\ slots'[new].pay = m
         /\ \A i \in 0 .. cap - 1 : i # new => slots'[i] = slots[i]
  BY DEF Fill, TypeOK

\* Moving an entry only changes where it is.
LEMMA MoveEntries ==
  ASSUME IInv, MoveEntry
  PROVE  \A k \in Keys : \A p : Entry(k, p)' <=> Entry(k, p)
  <1>1. PICK e : e = old[Head(rest)]
    OBVIOUS
  <1>2. /\ pc = "move" /\ pc' = "move" /\ cap' = cap /\ old' = old /\ rest' = Tail(rest)
        /\ Len(rest) \in Nat /\ Len(rest) >= 1 /\ Head(rest) = rest[1]
        /\ Len(rest') = Len(rest) - 1
        /\ \A n \in 1 .. Len(rest') : rest'[n] = rest[n + 1]
        /\ Head(rest) \in 0 .. cap \div 2 - 1
    BY DEF MoveEntry, IInv, TypeOK
  <1>3. e = old[rest[1]] /\ 1 \in 1 .. Len(rest)
    BY <1>1, <1>2
  <1>4. e.filled /\ e.hash \in Nat
    <2>1. e \in Slot
      BY <1>1, <1>2 DEF IInv, TypeOK
    <2>2. e.filled
      BY <1>2, <1>3 DEF IInv, RestMovable
    <2> QED BY <2>1, <2>2 DEF Slot
  <1>5. PICK d \in 0 .. cap - 1 :
          FreeFirst(e.hash, d) /\ Fill(At(e.hash, d), e.hash, e.key, e.pay)
    BY <1>1, <1>4 DEF MoveEntry
  <1>6. PICK new : new = At(e.hash, d)
    OBVIOUS
  <1>7. new \in 0 .. cap - 1 /\ ~slots[new].filled
    <2>1. d \in Nat /\ cap \in Nat \ {0}
      BY <1>5 DEF IInv, TypeOK
    <2>2. ~slots[new].filled
      BY <1>5, <1>6 DEF FreeFirst
    <2> QED BY <1>4, <1>6, <2>1, <2>2, AtInRange
  <1>8. Fill(new, e.hash, e.key, e.pay)
    BY <1>5, <1>6
  <1>9. ASSUME NEW k, NEW p PROVE Entry(k, p)' <=> Entry(k, p)
    <2> DEFINE Slotted == \E i \in 0 .. cap - 1 : slots[i].filled /\ slots[i].key = k /\ slots[i].pay = p
               Waiting == \E n \in 1 .. Len(rest) : old[rest[n]].key = k /\ old[rest[n]].pay = p
               IsHead == k = e.key /\ p = e.pay
    <2>1. Waiting <=> IsHead \/ Waiting'
      <3>1. ASSUME NEW n \in 1 .. Len(rest), old[rest[n]].key = k, old[rest[n]].pay = p, ~IsHead
            PROVE  \E i \in 1 .. Len(rest') : old[rest'[i]].key = k /\ old[rest'[i]].pay = p
        <4>1. n # 1
          BY <1>3, <3>1
        <4>2. n - 1 \in 1 .. Len(rest') /\ rest'[n - 1] = rest[(n - 1) + 1] /\ (n - 1) + 1 = n
          BY <1>2, <4>1
        <4> QED BY <3>1, <4>2
      <3>2. \A n \in 1 .. Len(rest') : n + 1 \in 1 .. Len(rest) /\ rest'[n] = rest[n + 1]
        BY <1>2
      <3>3. Waiting' => Waiting
        BY <1>2, <3>2
      <3>4. IsHead => Waiting
        BY <1>2, <1>3
      <3>5. Waiting => IsHead \/ Waiting'
        BY <1>2, <3>1
      <3> QED BY <3>3, <3>4, <3>5
    <2>2. Slotted' <=> IsHead \/ Slotted
      <3>1. /\ slots'[new].filled /\ slots'[new].key = e.key /\ slots'[new].pay = e.pay
            /\ \A i \in 0 .. cap - 1 : i # new => slots'[i] = slots[i]
        BY <1>7, <1>8, FillEffect DEF IInv
      <3> QED BY <1>2, <1>7, <3>1
    <2>3. Entry(k, p) <=> Slotted \/ Waiting
      BY <1>2 DEF Entry
    <2>4. Entry(k, p)' <=> Slotted' \/ Waiting'
      BY <1>2 DEF Entry
    <2> HIDE DEF Slotted, Waiting, IsHead
    <2> QED BY <2>1, <2>2, <2>3, <2>4
  <1> QED BY <1>9

\* Steps that leave arrays and growth alone, and the end of a growth.
LEMMA QuietEntries ==
  ASSUME UNCHANGED <<cap, slots>>,
         \/ UNCHANGED <<pc, old, rest>>
         \/ pc' # "move" /\ (pc = "move" => Len(rest) = 0)
  PROVE  \A k \in Keys : \A p : Entry(k, p)' <=> Entry(k, p)
  BY DEF Entry

\* A new key's first fold.
LEMMA InsertFolds ==
  ASSUME IInv, IInv', Insert
  PROVE  Mapped' = [Mapped EXCEPT ![call.key] = Plus(@, call.measure)]
  <1>1. pc = "probe" /\ pc' = "idle" /\ cap' = cap /\ TypeOK /\ Structure
    BY InvParts DEF Insert, Return
  <1>2. PICK x \in Keys, m \in Measures : x = call.key /\ m = call.measure
    BY <1>1 DEF TypeOK, Call
  <1>3. PICK d \in 0 .. cap - 1 :
          StopsFirst(Hash[x], x, d) /\ ~slots[At(Hash[x], d)].filled /\ Fill(At(Hash[x], d), Hash[x], x, m)
    BY <1>2 DEF Insert
  <1>4. PICK new : new = At(Hash[x], d)
    OBVIOUS
  <1>5. new \in 0 .. cap - 1
    <2>1. d \in Nat /\ cap \in Nat \ {0} /\ Hash[x] \in Nat
      BY <1>1, <1>2, <1>3, TableAssumption DEF TypeOK
    <2> QED BY <1>4, <2>1, AtInRange
  <1>6. /\ ~slots[new].filled
        /\ slots'[new].filled /\ slots'[new].key = x /\ slots'[new].pay = m
        /\ \A i \in 0 .. cap - 1 : i # new => slots'[i] = slots[i]
    BY <1>1, <1>3, <1>4, <1>5, FillEffect
  <1>7. \A i \in 0 .. cap - 1 : slots[i].filled => slots[i].key # x
    BY <1>1, <1>2, <1>3, AbsentKey
  <1>8. Measured /\ Measured'
    BY InvMeasured, NextMeasured
  <1>9. MeasureOf(x) = Zero
    <2>1. \A p : ~Entry(x, p)
      BY <1>1, <1>7 DEF Entry
    <2> QED BY <1>2, <1>8, <2>1 DEF Measured
  <1>10. MeasureOf(x)' = m
    <2>1. Entry(x, m)'
      BY <1>1, <1>5, <1>6 DEF Entry
    <2> QED BY <1>2, <1>8, <2>1 DEF Measured
  <1>11. Plus(Zero, m) = m
    BY MeasureTypes DEF Plus, Zero
  <1>12. ASSUME NEW k \in Keys, k # x PROVE MeasureOf(k)' = MeasureOf(k)
    <2>1. ASSUME NEW p PROVE Entry(k, p)' <=> Entry(k, p)
      BY <1>1, <1>5, <1>6, <1>12 DEF Entry
    <2>2. CASE \E p : Entry(k, p)
      BY <1>8, <2>1, <2>2 DEF Measured
    <2>3. CASE \A p : ~Entry(k, p)
      BY <1>8, <2>1, <2>3 DEF Measured
    <2> QED BY <2>2, <2>3
  <1> QED BY <1>2, <1>9, <1>10, <1>11, <1>12 DEF Mapped

\* A fold into a live key.
LEMMA UpdateFolds ==
  ASSUME IInv, IInv', Update
  PROVE  Mapped' = [Mapped EXCEPT ![call.key] = Plus(@, call.measure)]
  <1>1. pc = "probe" /\ pc' = "idle" /\ cap' = cap /\ TypeOK /\ Structure
    BY InvParts DEF Update, Return
  <1>2. PICK x \in Keys, m \in Measures : x = call.key /\ m = call.measure
    BY <1>1 DEF TypeOK, Call
  <1>3. PICK d \in 0 .. cap - 1 :
          /\ StopsFirst(Hash[x], x, d)
          /\ slots[At(Hash[x], d)].filled
          /\ slots' = [slots EXCEPT ![At(Hash[x], d)].pay = Plus(@, m)]
    BY <1>2 DEF Update
  <1>4. PICK s : s = At(Hash[x], d)
    OBVIOUS
  <1>5. s \in 0 .. cap - 1
    <2>1. d \in Nat /\ cap \in Nat \ {0} /\ Hash[x] \in Nat
      BY <1>1, <1>2, <1>3, TableAssumption DEF TypeOK
    <2> QED BY <1>4, <2>1, AtInRange
  <1>6. slots[s].filled /\ slots[s].key = x
    BY <1>3, <1>4 DEF StopsFirst, Stops
  <1>7. /\ slots'[s].filled /\ slots'[s].key = x /\ slots'[s].pay = Plus(slots[s].pay, m)
        /\ \A i \in 0 .. cap - 1 : i # s => slots'[i] = slots[i]
    BY <1>1, <1>3, <1>4, <1>5, <1>6 DEF TypeOK, Slot
  <1>8. Measured /\ Measured'
    BY InvMeasured, NextMeasured
  <1>9. MeasureOf(x) = slots[s].pay
    <2>1. Entry(x, slots[s].pay)
      BY <1>5, <1>6 DEF Entry
    <2> QED BY <1>2, <1>8, <2>1 DEF Measured
  <1>10. MeasureOf(x)' = Plus(slots[s].pay, m)
    <2>1. PICK q : q = Plus(slots[s].pay, m)
      OBVIOUS
    <2>2. Entry(x, q)'
      BY <1>1, <1>5, <1>7, <2>1 DEF Entry
    <2> QED BY <1>2, <1>8, <2>1, <2>2 DEF Measured
  <1>11. ASSUME NEW k \in Keys, k # x PROVE MeasureOf(k)' = MeasureOf(k)
    <2>1. ASSUME NEW p PROVE Entry(k, p)' <=> Entry(k, p)
      BY <1>1, <1>5, <1>6, <1>7, <1>11 DEF Entry
    <2>2. CASE \E p : Entry(k, p)
      BY <1>8, <2>1, <2>2 DEF Measured
    <2>3. CASE \A p : ~Entry(k, p)
      BY <1>8, <2>1, <2>3 DEF Measured
    <2> QED BY <2>2, <2>3
  <1> QED BY <1>2, <1>9, <1>10, <1>11 DEF Mapped

\* Every step of the table is a fold or a reset of the map, or changes nothing.
LEMMA StepRefines == IInv /\ IInv' /\ [Next]_vars => [Groups!Next]_Mapped
  <1> SUFFICES ASSUME IInv, IInv', [Next]_vars PROVE [Groups!Next]_Mapped
    OBVIOUS
  <1>0. Measured /\ Measured' /\ TypeOK
    BY InvMeasured, NextMeasured DEF IInv
  <1>1. ASSUME \A k \in Keys : \A p : Entry(k, p)' <=> Entry(k, p) PROVE Mapped' = Mapped
    BY <1>0, <1>1, SameEntries
  <1>2. ASSUME NEW k \in Keys, NEW m \in Measures, FoldCall(k, m) PROVE Mapped' = Mapped
    BY <1>1, <1>2, QuietEntries DEF FoldCall
  <1>3. ASSUME NEW n \in 0 .. MaxReserve, ReserveCall(n) PROVE Mapped' = Mapped
    BY <1>1, <1>3, QuietEntries DEF ReserveCall
  <1>4. CASE Grow
    BY <1>1, <1>4, GrowEntries
  <1>5. CASE MoveEntry
    BY <1>1, <1>5, MoveEntries
  <1>6. CASE Grown
    BY <1>1, <1>6, QuietEntries DEF Grown, AfterGrow
  <1>7. ASSUME Insert \/ Update PROVE Groups!Next
    <2>1. call.key \in Keys /\ call.measure \in Measures
      BY <1>0, <1>7 DEF Insert, Update, TypeOK, Call
    <2>2. Mapped' = [Mapped EXCEPT ![call.key] = Plus(@, call.measure)]
      BY <1>7, InsertFolds, UpdateFolds
    <2> QED BY <2>1, <2>2 DEF Groups!Next, Groups!Fold, Groups!Plus, Plus, Mapped, MeasureOf
  <1>8. ASSUME Reset PROVE Groups!Next
    <2>1. pc' = "idle" /\ cap' = cap /\ \A i \in 0 .. cap - 1 : ~slots'[i].filled
      BY <1>0, <1>8 DEF Reset, TypeOK, Slot
    <2>2. ASSUME NEW k \in Keys PROVE MeasureOf(k)' = Zero
      BY <1>0, <2>1 DEF Measured, Entry
    <2> QED BY <2>2 DEF Groups!Next, Groups!Reset, Groups!Zero, Zero, Mapped, MeasureOf
  <1>9. CASE UNCHANGED vars
    BY <1>1, <1>9, QuietEntries DEF vars
  <1> QED BY <1>2, <1>3, <1>4, <1>5, <1>6, <1>7, <1>8, <1>9 DEF Next, Step

\* A fresh table is the map without groups.
LEMMA InitRefines == Init => Groups!Init
  BY DEF Init, Groups!Init, Groups!Zero, Zero, GroupsOf, Live

\* The table implements the map from keys to measures, through growth, collisions
\* and reuse after a reset.
THEOREM Refinement == Spec => RefinesGroupMap
  <1>1. IInv /\ IInv' /\ [Next]_vars => [Groups!Next]_Mapped
    BY StepRefines
  <1> QED BY <1>1, Inductive, InitRefines, PTL DEF Spec, RefinesGroupMap, Groups!Spec, Mapped, MeasureOf
=============================================================================
