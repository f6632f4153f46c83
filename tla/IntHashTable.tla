---------------------------- MODULE IntHashTable ----------------------------
(***************************************************************************)
(* int64HashAgg: open addressing with linear probing, growth at two thirds *)
(* and reuse after a reset that leaves stale measures behind.  One call at *)
(* a time; the steps of grow are steps of the model, so that the table can *)
(* be looked at while its entries are on the move.                         *)
(***************************************************************************)
EXTENDS Integers, Sequences, FiniteSets

CONSTANTS
  Keys,
  Hash,        \* mixInt64, as a function: which keys collide is up to it
  Measures,    \* measures a call may fold into a group
  InitCap,     \* htInitialCap
  MaxReserve,  \* bound: the largest n given to reserve
  MaxRows      \* bound: rows folded into one key

ASSUME TableAssumption ==
  /\ Hash \in [Keys -> Nat]
  /\ Keys # {}
  /\ Measures \subseteq [rows : Nat \ {0}, count : Nat, sum : Int]
  /\ InitCap \in Nat \ {0}
  /\ MaxReserve \in Nat
  /\ MaxRows \in Nat

VARIABLES
  cap,         \* len(filled), mask + 1
  slots,       \* filled, hashes, keys and the payload arrays
  occupied,    \* live slots in the order they were filled
  used,
  pc,          \* "idle", "grow", "move" or "probe"
  call,        \* arguments of the call in progress
  old,         \* grow: the arrays being replaced
  rest         \* grow: slots of old not yet looked at

vars == <<cap, slots, occupied, used, pc, call, old, rest>>

Zero == [rows |-> 0, count |-> 0, sum |-> 0]

Plus(a, b) == [rows  |-> a.rows + b.rows,
               count |-> a.count + b.count,
               sum   |-> a.sum + b.sum]

SomeKey == CHOOSE k \in Keys : TRUE

\* A slot of a fresh array; its key, hash and measure are never read.
Fresh == [filled |-> FALSE, hash |-> 0, key |-> SomeKey, pay |-> Zero]

NoCall == [op |-> "none"]

Init ==
  /\ cap = InitCap
  /\ slots = [i \in 0 .. InitCap - 1 |-> Fresh]
  /\ occupied = << >>
  /\ used = 0
  /\ pc = "idle"
  /\ call = NoCall
  /\ old = << >>
  /\ rest = << >>

-----------------------------------------------------------------------------
(* Probing. *)

\* The slot a probe for hash h looks at after d steps.
At(h, d) == ((h % cap) + d) % cap

Stops(h, k, d) ==
  LET s == slots[At(h, d)]
  IN  ~s.filled \/ (s.hash = h /\ s.key = k)

\* Where slotFor(h, k) stops first; grow looks for a free slot the same way.
StopsFirst(h, k, d) ==
  /\ d \in 0 .. cap - 1
  /\ Stops(h, k, d)
  /\ \A e \in 0 .. d - 1 : ~Stops(h, k, e)

FreeFirst(h, d) ==
  /\ d \in 0 .. cap - 1
  /\ ~slots[At(h, d)].filled
  /\ \A e \in 0 .. d - 1 : slots[At(h, e)].filled

\* Mutant of Loaded: lets the table fill up completely.
LoadedWhenFull(n) == used + n > cap

\* Is the table too full for n more groups?
Loaded(n) == (used + n) * 3 >= cap * 2

\* Mutant of Fill: relies on the slot's measure being zero.
FillOnTop(i, h, k, m) ==
  /\ slots' = [slots EXCEPT ![i] = [filled |-> TRUE, hash |-> h, key |-> k, pay |-> Plus(@.pay, m)]]
  /\ occupied' = Append(occupied, i)
  /\ used' = used + 1

Fill(i, h, k, m) ==
  /\ slots' = [slots EXCEPT ![i] = [filled |-> TRUE, hash |-> h, key |-> k, pay |-> m]]
  /\ occupied' = Append(occupied, i)
  /\ used' = used + 1

-----------------------------------------------------------------------------
(* The calls. *)

RowsOf(k) == {slots[i].pay.rows : i \in {j \in DOMAIN slots : slots[j].filled /\ slots[j].key = k}}

\* add and foldPayload up to the probe: a row of add is the measure
\* [1, 1, v] or, when its value is NULL, [1, 0, 0].
FoldCall(k, m) ==
  /\ pc = "idle"
  /\ \A n \in RowsOf(k) : n + m.rows <= MaxRows
  /\ call' = [op |-> "fold", key |-> k, measure |-> m]
  /\ pc' = IF Loaded(0) THEN "grow" ELSE "probe"
  /\ UNCHANGED <<cap, slots, occupied, used, old, rest>>

ReserveCall(n) ==
  /\ pc = "idle"
  /\ Loaded(n)
  /\ call' = [op |-> "reserve", n |-> n]
  /\ pc' = "grow"
  /\ UNCHANGED <<cap, slots, occupied, used, old, rest>>

\* Mutant of Doubled: reserve copies the arrays without enlarging them.
DoubledByFold == IF call.op = "fold" THEN cap * 2 ELSE cap

Doubled == cap * 2

Grow ==
  /\ pc = "grow"
  /\ cap' = Doubled
  /\ slots' = [i \in 0 .. Doubled - 1 |-> Fresh]
  /\ occupied' = << >>
  /\ used' = 0
  /\ old' = slots
  /\ rest' = occupied
  /\ pc' = "move"
  /\ UNCHANGED call

\* Mutant of MoveEntry: an entry keeps its slot number.
MoveInPlace ==
  /\ pc = "move"
  /\ rest # << >>
  /\ LET e == old[Head(rest)]
     IN  Fill(Head(rest), e.hash, e.key, e.pay)
  /\ rest' = Tail(rest)
  /\ UNCHANGED <<cap, pc, call, old>>

MoveEntry ==
  /\ pc = "move"
  /\ rest # << >>
  /\ LET e == old[Head(rest)]
     IN  IF e.filled
         THEN \E d \in 0 .. cap - 1 :
                /\ FreeFirst(e.hash, d)
                /\ Fill(At(e.hash, d), e.hash, e.key, e.pay)
         ELSE UNCHANGED <<slots, occupied, used>>
  /\ rest' = Tail(rest)
  /\ UNCHANGED <<cap, pc, call, old>>

AfterGrow == IF call.op = "fold" THEN "probe" ELSE IF Loaded(call.n) THEN "grow" ELSE "idle"

Grown ==
  /\ pc = "move"
  /\ rest = << >>
  /\ pc' = AfterGrow
  /\ old' = << >>
  /\ call' = IF AfterGrow = "idle" THEN NoCall ELSE call
  /\ UNCHANGED <<cap, slots, occupied, used, rest>>

Return == pc' = "idle" /\ call' = NoCall /\ UNCHANGED <<cap, old, rest>>

Insert ==
  /\ pc = "probe"
  /\ \E d \in 0 .. cap - 1 :
       LET h == Hash[call.key]
       IN  /\ StopsFirst(h, call.key, d)
           /\ ~slots[At(h, d)].filled
           /\ Fill(At(h, d), h, call.key, call.measure)
  /\ Return

Update ==
  /\ pc = "probe"
  /\ \E d \in 0 .. cap - 1 :
       LET h == Hash[call.key]
           i == At(h, d)
       IN  /\ StopsFirst(h, call.key, d)
           /\ slots[i].filled
           /\ slots' = [slots EXCEPT ![i].pay = Plus(@, call.measure)]
  /\ UNCHANGED <<occupied, used>>
  /\ Return

\* Payloads are not zeroed: an insert writes them.
Reset ==
  /\ pc = "idle"
  /\ occupied # << >>
  /\ slots' = [i \in DOMAIN slots |-> [slots[i] EXCEPT !.filled = FALSE]]
  /\ occupied' = << >>
  /\ used' = 0
  /\ UNCHANGED <<cap, pc, call, old, rest>>

Step == Grow \/ MoveEntry \/ Grown \/ Insert \/ Update

Next ==
  \/ \E k \in Keys, m \in Measures : FoldCall(k, m)
  \/ \E n \in 0 .. MaxReserve : ReserveCall(n)
  \/ Step
  \/ Reset

Spec == Init /\ [][Next]_vars

\* A call that was made goes on until it returns.
RunSpec == Spec /\ WF_vars(Step)

-----------------------------------------------------------------------------
(* Properties. *)

Slot == [filled : BOOLEAN, hash : Nat, key : Keys, pay : [rows : Nat, count : Nat, sum : Int]]

Call == [op : {"none"}] \cup [op : {"fold"}, key : Keys, measure : Measures]
          \cup [op : {"reserve"}, n : 0 .. MaxReserve]

\* Types of the table, and which arguments go with which point of the code.
TypeOK ==
  /\ cap \in Nat \ {0}
  /\ slots \in [0 .. cap - 1 -> Slot]
  /\ occupied \in Seq(0 .. cap - 1)
  /\ used \in Nat
  /\ pc \in {"idle", "grow", "move", "probe"}
  /\ call \in Call
  /\ (call.op = "none") <=> (pc = "idle")
  /\ (pc = "probe") => (call.op = "fold")
  /\ IF pc = "move"
     THEN cap % 2 = 0 /\ old \in [0 .. cap \div 2 - 1 -> Slot] /\ rest \in Seq(0 .. cap \div 2 - 1)
     ELSE old = << >> /\ rest = << >>

\* slotFor has no bound on its loop: whenever add, foldPayload or grow probes,
\* some slot of the table must stop it.
ProbeEnds ==
  /\ (pc = "probe") => \E d \in 0 .. cap - 1 : Stops(Hash[call.key], call.key, d)
  /\ (pc = "move") => \E i \in 0 .. cap - 1 : ~slots[i].filled

\* A probe for a live key meets no free slot before that key's slot, so it is
\* found and never inserted a second time.
ProbeUnbroken ==
  \A i \in 0 .. cap - 1 :
    slots[i].filled =>
      \E d \in 0 .. cap - 1 :
        /\ At(Hash[slots[i].key], d) = i
        /\ \A e \in 0 .. d - 1 : slots[At(Hash[slots[i].key], e)].filled

\* occupied, which every scan and merge reads instead of the slots, lists each
\* live slot once, and used counts them.
OccupiedExact ==
  /\ used = Len(occupied)
  /\ \A i \in 0 .. cap - 1 : slots[i].filled <=> \E n \in 1 .. used : occupied[n] = i
  /\ \A m, n \in 1 .. used : occupied[m] = occupied[n] => m = n

\* Entries as a scan sees them; during a growth those not yet moved count too.
Live ==
  {slots[occupied[n]] : n \in 1 .. Len(occupied)}
    \cup (IF pc = "move" THEN {old[rest[n]] : n \in 1 .. Len(rest)} ELSE {})

GroupsOf(k) == {e \in Live : e.key = k}

\* No key has two live slots, not even half way through a growth.
KeysUnique ==
  /\ \A i, j \in 0 .. cap - 1 :
       slots[i].filled /\ slots[j].filled /\ slots[i].key = slots[j].key => i = j
  /\ (pc = "move") =>
       \A n \in 1 .. Len(rest), i \in 0 .. cap - 1 : slots[i].filled => slots[i].key # old[rest[n]].key

\* The table implements the map from keys to measures: collisions, growth in
\* mid-call and stale measures left by a reset never show.
Groups == INSTANCE GroupMap WITH
  groups <- [k \in Keys |-> IF GroupsOf(k) = {} THEN Zero ELSE (CHOOSE e \in GroupsOf(k) : TRUE).pay]

RefinesGroupMap == Groups!Spec

\* Every call comes back: probing ends, and so does reserve's loop.
CallsReturn == (pc # "idle") ~> (pc = "idle")
=============================================================================
