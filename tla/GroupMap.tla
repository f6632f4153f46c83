------------------------------ MODULE GroupMap ------------------------------
(***************************************************************************)
(* What an aggregation table promises: a map from keys to measures.  Each  *)
(* fold adds one measure to one key; a key is a group once it has a row;   *)
(* a reset forgets every group.                                            *)
(***************************************************************************)
EXTENDS Integers

CONSTANTS
  Keys,
  Measures     \* measures one fold may add: [rows, count, sum], rows > 0

VARIABLE groups   \* the measure of every key, Zero for a key that is no group

Zero == [rows |-> 0, count |-> 0, sum |-> 0]

Plus(a, b) == [rows  |-> a.rows + b.rows,
               count |-> a.count + b.count,
               sum   |-> a.sum + b.sum]

Init == groups = [k \in Keys |-> Zero]

Fold(k, m) == groups' = [groups EXCEPT ![k] = Plus(@, m)]

Reset == groups' = [k \in Keys |-> Zero]

Next == \/ \E k \in Keys, m \in Measures : Fold(k, m)
        \/ Reset

Spec == Init /\ [][Next]_groups
=============================================================================
