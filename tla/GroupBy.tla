------------------------------ MODULE GroupBy -------------------------------
(***************************************************************************)
(* Aggregators of different domains and representations, filled, merged    *)
(* into each other and reused in any order.                                *)
(***************************************************************************)
EXTENDS Aggregators

CONSTANTS
  Families,  \* sets of aggregators: each a function from names to
             \* [mod, hasVal, made] with made how it is built
  Batches,   \* batches Add may be given: [rows, sel]
  MaxRows    \* bound: rows all aggregators together stand for

\* No number is NULL.  A batch selects rows it has.  Strings are not reduced, and
\* a global aggregator has a column to add up.
ASSUME GroupByAssumption ==
  /\ NULL \notin Int
  /\ \A b \in Batches : Selected(b) \in Seq(Rows)
  /\ \A f \in Families : \A x \in DOMAIN f :
       /\ f[x].mod \in Int /\ f[x].hasVal \in BOOLEAN
       /\ f[x].made \in {"int64", "int64 literal", "string", "string literal", "global"}
       /\ f[x].made \in {"string", "string literal"} => f[x].mod = 0
       /\ f[x].made = "global" => f[x].mod = 0 /\ f[x].hasVal

VARIABLES
  shapes,    \* the family in use
  agg,       \* the aggregators
  ref        \* history: the groups each of them should report

groupVars == <<shapes, agg, ref>>

Aggs == DOMAIN shapes

Made(s) ==
  CASE s.made = "int64"          -> NewGroupBy(s.mod, s.hasVal)
    [] s.made = "int64 literal"  -> Literal(s.mod, s.hasVal)
    [] s.made = "string"         -> NewString(s.hasVal)
    [] s.made = "string literal" -> StringLiteral(s.hasVal)
    [] s.made = "global"         -> NewGlobal

GroupInit ==
  /\ shapes \in Families
  /\ agg = [x \in Aggs |-> Made(shapes[x])]
  /\ ref = [x \in Aggs |-> EmptyMap]

RowCount(x) == FoldFunction(LAMBDA m, n : m.rows + n, 0, ref[x])

TotalRows == FoldFunctionOnSet(+, 0, [x \in Aggs |-> RowCount(x)], Aggs)

Add(x, b) ==
  /\ TotalRows + Len(Selected(b)) <= MaxRows
  /\ agg' = [agg EXCEPT ![x] = AddTo(@, b)]
  /\ ref' = [ref EXCEPT ![x] = RefRows(@, Selected(b), shapes[x].mod, shapes[x].hasVal)]
  /\ UNCHANGED shapes

\* An aggregator may be merged into itself.
Merge(x, y) ==
  /\ agg[x].kind = agg[y].kind
  /\ TotalRows + RowCount(y) <= MaxRows
  /\ agg' = [[agg EXCEPT ![y] = MergedFrom(@)] EXCEPT ![x] = MergeAgg(agg[x], agg[y])]
  /\ ref' = [ref EXCEPT ![x] = MapInto(@, ref[y])]
  /\ UNCHANGED shapes

Reset(x) ==
  /\ agg' = [agg EXCEPT ![x] = ResetAgg(@)]
  /\ ref' = [ref EXCEPT ![x] = EmptyMap]
  /\ UNCHANGED shapes

GroupNext ==
  \/ \E x \in Aggs, b \in Batches : Add(x, b)
  \/ \E x, y \in Aggs : Merge(x, y)
  \/ \E x \in Aggs : Reset(x)

GroupSpec == GroupInit /\ [][GroupNext]_groupVars

-----------------------------------------------------------------------------
(* Properties. *)

\* Whatever the representation on either side, the groups an aggregator
\* reports, the NULL group among them, are those of the rows folded since its
\* last reset, each under its own reduced key; a global one reports their total.
ReportsItsRows == \A x \in Aggs : Reports(agg[x], ref[x])

\* No group is reported twice, once by the array and once by the spill table.
NoSplitGroup ==
  \A x \in Aggs : \A r, s \in LiveGroups(agg[x]) : r.key = s.key => r = s

=============================================================================
