---------------------------- MODULE Aggregators -----------------------------
(***************************************************************************)
(* GroupByString and GlobalFloatAgg as values, beside the GroupByInt64 of   *)
(* Agg, and what the three have in common.  A string is a name for itself:  *)
(* the models use the same keys for all of them.  A float is an integer,    *)
(* so a sum does not depend on the order it is taken in.                    *)
(***************************************************************************)
EXTENDS Agg

-----------------------------------------------------------------------------
(* GroupByString: a dictionary gives every key an index into keys and pay. *)

NewDict == [ids |-> [k \in {} |-> 0], keys |-> << >>, pay |-> << >>]

\* A zero-value GroupByString with its exported fields set.
StringLiteral(hasVal) ==
  [kind |-> "string", hasVal |-> hasVal, dict |-> NULL, nullKey |-> Zero, hasNull |-> FALSE]

EnsureDict(g) == IF g.dict = NULL THEN [g EXCEPT !.dict = NewDict] ELSE g

NewString(hasVal) == EnsureDict(StringLiteral(hasVal))

DictInto(d, k, m) ==
  IF k \in DOMAIN d.ids
  THEN [d EXCEPT !.pay[d.ids[k]] = Plus(@, m)]
  ELSE [ids  |-> [x \in DOMAIN d.ids \cup {k} |-> IF x = k THEN Len(d.keys) + 1 ELSE d.ids[x]],
        keys |-> Append(d.keys, k),
        pay  |-> Append(d.pay, m)]

AddStringRow(g, r) ==
  LET m == MeasureAt(r, g.hasVal)
  IN  IF r.key = NULL THEN [g EXCEPT !.hasNull = TRUE, !.nullKey = Plus(@, m)]
      ELSE [g EXCEPT !.dict = DictInto(@, r.key, m)]

AddStrings(g, b) ==
  IF Selected(b) = << >> THEN g ELSE FoldLeft(AddStringRow, EnsureDict(g), Selected(b))

DictMerge(d, s) ==
  FoldLeft(LAMBDA x, e : DictInto(x, e.key, e.measure), d,
           [n \in DOMAIN s.keys |-> Entry(s.keys[n], s.pay[n])])

MergeStrings(g, o) ==
  IF o.dict = NULL /\ ~o.hasNull THEN g
  ELSE LET into == EnsureDict(g)
       IN  MergeNull(IF o.dict = NULL THEN into
                     ELSE [into EXCEPT !.dict = DictMerge(@, o.dict)], o)

ResetStrings(g) == [g EXCEPT !.dict = IF @ = NULL THEN @ ELSE NewDict,
                             !.nullKey = Zero,
                             !.hasNull = FALSE]

-----------------------------------------------------------------------------
(* GlobalFloatAgg. *)

NewGlobal == [kind |-> "global", total |-> Zero]

SumOf(vals) == FoldLeft(+, 0, vals)

\* Four accumulators take every fourth value each, the first what is left over.
UnrolledSum(vals) ==
  LET m == 4 * (Len(vals) \div 4)
      acc == [a \in 0 .. 3 |-> SumOf([i \in 1 .. m \div 4 |-> vals[4 * (i - 1) + a + 1]])]
  IN  acc[0] + SumOf(SubSeq(vals, m + 1, Len(vals))) + acc[1] + acc[2] + acc[3]

ValuesIn(rows) ==
  FoldLeft(LAMBDA vs, r : IF r.val = NULL THEN vs ELSE Append(vs, r.val), << >>, rows)

AddGlobal(g, b) ==
  LET rows == Selected(b)
      vals == ValuesIn(rows)
      dense == b.sel = NULL /\ Len(vals) = Len(rows)
  IN  [g EXCEPT !.total =
         Plus(@, [rows  |-> Len(rows),
                  count |-> Len(vals),
                  sum   |-> IF dense THEN UnrolledSum(vals) ELSE SumOf(vals)])]

-----------------------------------------------------------------------------
(* Any of the three. *)

AddTo(g, b) ==
  CASE g.kind = "int64"  -> AddBatch(g, b)
    [] g.kind = "string" -> AddStrings(g, b)
    [] g.kind = "global" -> AddGlobal(g, b)

MergeAgg(g, o) ==
  CASE g.kind = "int64"  -> MergeInto(g, o)
    [] g.kind = "string" -> MergeStrings(g, o)
    [] g.kind = "global" -> [g EXCEPT !.total = Plus(@, o.total)]

\* Merging gives a GroupByInt64 that is merged into another a table.
MergedFrom(o) == IF o.kind = "int64" THEN EnsureTable(o) ELSE o

ResetAgg(g) ==
  CASE g.kind = "int64"  -> ResetGroups(g)
    [] g.kind = "string" -> ResetStrings(g)
    [] g.kind = "global" -> NewGlobal

\* The live groups, each with the place that holds it.
LiveGroups(g) ==
  CASE g.kind = "int64"  -> GroupRows(g)
    [] g.kind = "string" -> IF g.dict = NULL THEN {}
                            ELSE {[part |-> n, key |-> g.dict.keys[n], measure |-> g.dict.pay[n]] :
                                    n \in DOMAIN g.dict.keys}
    [] g.kind = "global" -> {}

\* Does g report exactly the groups of ref, or their total?
Reports(g, ref) ==
  IF g.kind = "global" THEN g.total = FoldFunction(Plus, Zero, ref)
  ELSE /\ {<<r.key, r.measure>> : r \in LiveGroups(g)} = {<<k, ref[k]>> : k \in DOMAIN ref \ {NULL}}
       /\ g.hasNull <=> NULL \in DOMAIN ref
       /\ g.nullKey = IF NULL \in DOMAIN ref THEN ref[NULL] ELSE Zero
=============================================================================
