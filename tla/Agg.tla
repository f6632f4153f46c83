-------------------------------- MODULE Agg ---------------------------------
(***************************************************************************)
(* GroupByInt64 as a value: its tables and what Add, Merge and Reset make  *)
(* of them.  The open-addressing tables are the maps IntHashTable          *)
(* implements; the dense array keeps the measures a reset leaves behind.   *)
(***************************************************************************)
EXTENDS Integers, Sequences, FiniteSets, SequencesExt

CONSTANTS
  NULL,           \* SQL NULL, a nil table, a nil selection
  DenseMaxGroups  \* denseMaxGroups

ASSUME AggAssumption == DenseMaxGroups \in Nat

Zero == [rows |-> 0, count |-> 0, sum |-> 0]

Plus(a, b) == [rows  |-> a.rows + b.rows,
               count |-> a.count + b.count,
               sum   |-> a.sum + b.sum]

-----------------------------------------------------------------------------
(* Rows and keys. *)

\* A row as Add sees it: its key and its value, each perhaps NULL.
Rows == [key : Int \cup {NULL}, val : Int \cup {NULL}]

\* The rows of batch b that its selection vector keeps, in order.
Selected(b) ==
  IF b.sel = NULL THEN b.rows ELSE [i \in 1 .. Len(b.sel) |-> b.rows[b.sel[i] + 1]]

\* What one row adds to its group: a row without a value counts as a row only.
MeasureAt(r, hasVal) ==
  IF hasVal /\ r.val # NULL THEN [rows |-> 1, count |-> 1, sum |-> r.val]
                            ELSE [rows |-> 1, count |-> 0, sum |-> 0]

\* Go's remainder, which keeps the sign of a.
Rem(a, m) == LET n == IF m < 0 THEN -m ELSE m
             IN  IF a < 0 THEN -((-a) % n) ELSE a % n

KeyOf(k, mod) == IF mod # 0 THEN Rem(k, mod) ELSE k

-----------------------------------------------------------------------------
(* Tables. *)

EmptyMap == [k \in {} |-> Zero]

\* Every entry of s into t.
MapInto(t, s) == [k \in DOMAIN t \cup DOMAIN s |->
                    IF k \notin DOMAIN s THEN t[k]
                    ELSE IF k \notin DOMAIN t THEN s[k]
                    ELSE Plus(t[k], s[k])]

\* One entry into t.
Into(t, k, m) ==
  IF k \in DOMAIN t THEN [t EXCEPT ![k] = Plus(@, m)]
  ELSE [x \in DOMAIN t \cup {k} |-> IF x = k THEN m ELSE t[x]]

\* A group in a list of them.
Entry(k, m) == [key |-> k, measure |-> m]

IntoMap(t, e) == Into(t, e.key, e.measure)

NewDense(mod) == [present  |-> [i \in 0 .. mod - 1 |-> FALSE],
                  pay      |-> [i \in 0 .. mod - 1 |-> Zero],
                  occupied |-> << >>]

\* Mutant of DenseInto: takes a recycled slot's measure for zero.
DenseIntoStale(t, i, m) ==
  [present  |-> [t.present EXCEPT ![i] = TRUE],
   pay      |-> [t.pay EXCEPT ![i] = Plus(@, m)],
   occupied |-> IF t.present[i] THEN t.occupied ELSE Append(t.occupied, i)]

\* addIdx and foldIdx.  A slot's key is its index: every caller passes it so.
DenseInto(t, i, m) ==
  IF t.present[i]
  THEN [t EXCEPT !.pay[i] = Plus(@, m)]
  ELSE [present  |-> [t.present EXCEPT ![i] = TRUE],
        pay      |-> [t.pay EXCEPT ![i] = m],
        occupied |-> Append(t.occupied, i)]

\* mergeDense below the gate of the parallel merge.
DenseMerge(t, s) ==
  FoldLeft(LAMBDA x, e : DenseInto(x, e.key, e.measure), t,
           [n \in DOMAIN s.occupied |-> Entry(s.occupied[n], s.pay[s.occupied[n]])])

\* Only the slots in use are swept; their measures stay.
DenseReset(t) == [t EXCEPT !.present = [i \in DOMAIN @ |-> @[i] /\ ~Contains(t.occupied, i)],
                           !.occupied = << >>]

-----------------------------------------------------------------------------
(* GroupByInt64. *)

UseDense(mod) == mod > 0 /\ mod <= DenseMaxGroups

\* A zero-value GroupByInt64 with its exported fields set.
Literal(mod, hasVal) ==
  [kind |-> "int64", mod |-> mod, hasVal |-> hasVal, dense |-> NULL, oa |-> NULL, spill |-> NULL,
   nullKey |-> Zero, hasNull |-> FALSE]

EnsureTable(g) ==
  IF g.dense # NULL \/ g.oa # NULL THEN g
  ELSE IF UseDense(g.mod) THEN [g EXCEPT !.dense = NewDense(g.mod)]
  ELSE [g EXCEPT !.oa = EmptyMap]

NewGroupBy(mod, hasVal) == EnsureTable(Literal(mod, hasVal))

NewGroupByOA(mod, hasVal) == [Literal(mod, hasVal) EXCEPT !.oa = EmptyMap]

EnsureSpill(g) == IF g.spill = NULL THEN [g EXCEPT !.spill = EmptyMap] ELSE g

SpillInto(g, k, m) == [g EXCEPT !.spill = Into(EnsureSpill(g).spill, k, m)]

\* A dense table folds a negative reduced key, which the array has no slot
\* for, into the spill table.
AddKey(g, k, m) ==
  IF g.dense = NULL THEN [g EXCEPT !.oa = Into(@, KeyOf(k, g.mod), m)]
  ELSE IF Rem(k, g.mod) < 0 THEN SpillInto(g, Rem(k, g.mod), m)
  ELSE [g EXCEPT !.dense = DenseInto(@, Rem(k, g.mod), m)]

AddRow(g, r) ==
  LET m == MeasureAt(r, g.hasVal)
  IN  IF r.key = NULL THEN [g EXCEPT !.hasNull = TRUE, !.nullKey = Plus(@, m)]
      ELSE AddKey(g, r.key, m)

AddBatch(g, b) ==
  IF Selected(b) = << >> THEN g ELSE FoldLeft(AddRow, EnsureTable(g), Selected(b))

\* The live groups with the table that holds each.
GroupRows(g) ==
  IF g.dense # NULL
  THEN {[part |-> "dense", key |-> g.dense.occupied[n], measure |-> g.dense.pay[g.dense.occupied[n]]] :
          n \in DOMAIN g.dense.occupied}
       \cup (IF g.spill = NULL THEN {}
             ELSE {[part |-> "spill", key |-> k, measure |-> g.spill[k]] : k \in DOMAIN g.spill})
  ELSE IF g.oa = NULL THEN {}
  ELSE {[part |-> "oa", key |-> k, measure |-> g.oa[k]] : k \in DOMAIN g.oa}

\* Mutant of FoldPayload: every foreign group spills.
FoldPayloadSpills(g, k, m) ==
  IF g.dense = NULL THEN [g EXCEPT !.oa = Into(@, k, m)] ELSE SpillInto(g, k, m)

FoldPayload(g, k, m) ==
  IF g.dense = NULL THEN [g EXCEPT !.oa = Into(@, k, m)]
  ELSE IF k < 0 \/ k >= g.mod THEN SpillInto(g, k, m)
  ELSE [g EXCEPT !.dense = DenseInto(@, k, m)]

MergeNull(g, o) ==
  IF o.hasNull THEN [g EXCEPT !.hasNull = TRUE, !.nullKey = Plus(@, o.nullKey)] ELSE g

MergeSpill(g, o) ==
  IF o.spill = NULL THEN g ELSE [g EXCEPT !.spill = MapInto(EnsureSpill(g).spill, o.spill)]

\* Both sides have a table.
MergeTables(g, o) ==
  IF g.dense # NULL /\ o.dense # NULL /\ g.mod = o.mod
  THEN MergeSpill([g EXCEPT !.dense = DenseMerge(@, o.dense)], o)
  ELSE IF g.oa # NULL /\ o.oa # NULL THEN [g EXCEPT !.oa = MapInto(@, o.oa)]
  ELSE FoldLeft(LAMBDA x, r : FoldPayload(x, r.key, r.measure), g, SetToSeq(GroupRows(o)))

MergeInto(g, o) == MergeNull(MergeTables(EnsureTable(g), EnsureTable(o)), o)

ResetGroups(g) ==
  [g EXCEPT !.dense = IF @ = NULL THEN @ ELSE DenseReset(@),
            !.spill = IF @ = NULL THEN @ ELSE EmptyMap,
            !.oa = IF @ = NULL THEN @ ELSE EmptyMap,
            !.nullKey = Zero,
            !.hasNull = FALSE]

-----------------------------------------------------------------------------
(* What the tables stand for. *)

\* Rows as entries of a map from keys, NULL among them, to measures.
RefEntries(rows, mod, hasVal) ==
  [i \in DOMAIN rows |->
     Entry(IF rows[i].key = NULL THEN NULL ELSE KeyOf(rows[i].key, mod), MeasureAt(rows[i], hasVal))]

\* The map t with a list of entries put into it.
IntoAll(t, es) == FoldLeft(IntoMap, t, es)

\* The groups of ref with those of rows.
RefRows(ref, rows, mod, hasVal) == IntoAll(ref, RefEntries(rows, mod, hasVal))
=============================================================================
