---------------------------- MODULE MCBatchPath -----------------------------
(* Bytes of two values, ten microseconds a second.  Integers of two widths  *)
(* and a width there is not, times before and after 2000 and the infinities *)
(* of both time types.  Filters that keep all, some or no rows, of a zero   *)
(* among them; projections that reorder and repeat columns, selections that *)
(* reorder and repeat rows, and operators that do not fit.                  *)
EXTENDS BatchPath

SomeResults == {<<"int", "text">>, <<"timestamp">>, <<"date">>, <<"bool">>}

Bin(v, width) == [v |-> v, width |-> width]

SomeCells(oid) ==
  {NULL} \cup
  CASE oid = "int"       -> {Bin(-2, 2), Bin(5, 4), Bin(1, 3)}
    [] oid = "text"      -> {[v |-> 1]}
    [] oid = "bool"      -> {Bin(0, 1), Bin(1, 1), Bin(1, 2)}
    [] oid = "timestamp" -> {Bin(-15, 8), Bin(7, 8), Bin(127, 8), Bin(-128, 8)}
    [] oid = "date"      -> {Bin(-3, 4), Bin(7, 4)}

SomeValues(type) ==
  {NULL} \cup IF type = "time" THEN {[sec |-> 1, micros |-> 0]} ELSE {1}

SomeFilters ==
  {[col |-> 0, kind |-> "int", cmp |-> "<=", value |-> 0],
   [col |-> 0, kind |-> "int", cmp |-> ">", value |-> 0],
   [col |-> 0, kind |-> "bool", cmp |-> "=", value |-> 1],
   [col |-> 0, kind |-> "bool", cmp |-> "<>", value |-> 1],
   [col |-> 1, kind |-> "string", cmp |-> "=", value |-> 1],
   [col |-> 1, kind |-> "string", cmp |-> "<", value |-> 1]}

SomeProjections == {<<1, 0>>, <<0, 0>>, <<2>>}

SomeSelections == {<<2, 2, 1>>}
=============================================================================
