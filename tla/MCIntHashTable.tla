--------------------------- MODULE MCIntHashTable ---------------------------
(* Three keys, two of them with the same hash and the third next to them. *)
EXTENDS IntHashTableInv, TLC

CONSTANTS k1, k2, k3

\* A row with a value and a row whose value is NULL.
RowMeasures == {[rows |-> 1, count |-> 1, sum |-> 1], [rows |-> 1, count |-> 0, sum |-> 0]}

Hashes == (k1 :> 3) @@ (k2 :> 3) @@ (k3 :> 4)
=============================================================================
