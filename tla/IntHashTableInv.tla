-------------------------- MODULE IntHashTableInv --------------------------
(***************************************************************************)
(* The inductive invariant behind the table's safety properties.  That      *)
(* probes end depends on the load factor at every point of a call (Room);   *)
(* that a growth loses and splits nothing depends on what is still to move  *)
(* (RestMovable) and on the cached hashes it moves by (HashesCached).       *)
(***************************************************************************)
EXTENDS IntHashTable

\* The cached hash of a live slot is its key's.
HashesCached == \A i \in 0 .. cap - 1 : slots[i].filled => slots[i].hash = Hash[slots[i].key]

\* What grow still has to move: live entries of distinct keys, and no more of
\* them than fit into the half of the new table.
RestMovable ==
  (pc = "move") =>
    /\ \A n \in 1 .. Len(rest) :
         /\ old[rest[n]].filled
         /\ old[rest[n]].hash = Hash[old[rest[n]].key]
    /\ \A m, n \in 1 .. Len(rest) : old[rest[m]].key = old[rest[n]].key => m = n
    /\ 2 * (used + Len(rest)) <= cap

\* There is room for another group when a call is about to probe.
Room == used <= cap /\ ((pc = "probe") => used * 3 < cap * 2)

IInv ==
  /\ TypeOK
  /\ OccupiedExact
  /\ HashesCached
  /\ ProbeUnbroken
  /\ KeysUnique
  /\ RestMovable
  /\ Room
=============================================================================
