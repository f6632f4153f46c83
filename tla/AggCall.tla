------------------------------ MODULE AggCall -------------------------------
(***************************************************************************)
(* What a Parallel* call promises: one answer, the one a single aggregator *)
(* would give that adds the batches in order and stops at the first bad    *)
(* one.                                                                    *)
(***************************************************************************)
EXTENDS Naturals, Sequences

CONSTANTS
  IsBad(_),     \* does Add refuse this batch?
  Folded(_, _)  \* what this call makes of these batches in order

VARIABLES kind, batches, result

vars == <<kind, batches, result>>

Pending == [status |-> "pending"]

Bad == {i \in DOMAIN batches : IsBad(batches[i])}

Promised ==
  IF Bad = {} THEN [status |-> "ok", value |-> Folded(kind, batches)]
  ELSE [status |-> "error", batch |-> CHOOSE i \in Bad : \A j \in Bad : i <= j]

Init == result = Pending

Answer == result = Pending /\ result' = Promised /\ UNCHANGED <<kind, batches>>

Spec == Init /\ [][Answer]_vars
=============================================================================
