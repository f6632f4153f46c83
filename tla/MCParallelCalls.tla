-------------------------- MODULE MCParallelCalls ---------------------------
(* Up to four batches: keys in and below the domain, NULL keys, a selection *)
(* that leaves the batch; for a global sum a batch longer than its four      *)
(* accumulators.                                                            *)
EXTENDS ParallelCalls

Row(k, v) == [key |-> k, val |-> v]

Positive == [rows |-> <<Row(0, 1), Row(5, NULL)>>, sel |-> NULL]
Mixed    == [rows |-> <<Row(-2, 1), Row(1, 1)>>, sel |-> NULL]
WithNull == [rows |-> <<Row(2, 1), Row(NULL, 1)>>, sel |-> <<1>>]
Refused  == [rows |-> <<Row(1, 1)>>, sel |-> <<1>>]

Short == UNION {[1 .. n -> {Positive, Mixed, WithNull, Refused}] : n \in 0 .. 3}

UpToFour == Short \cup [1 .. 4 -> {Positive, Mixed, Refused}]

Long == [rows |-> [i \in 1 .. 6 |-> Row(0, i)], sel |-> NULL]

Calls(k, inputs) == {[kind |-> k, batches |-> bs] : bs \in inputs}

AllCases ==
  Calls("int64", UpToFour)
    \cup Calls("string", UNION {[1 .. n -> {Positive, Mixed, WithNull, Refused}] : n \in 0 .. 3})
    \cup Calls("global", UNION {[1 .. n -> {Positive, Long, WithNull, Refused}] : n \in 0 .. 2})
=============================================================================
