------------------------------- MODULE Batch --------------------------------
(***************************************************************************)
(* Typed batches with lazy null bitmaps and selection vectors, the chunks  *)
(* of the row path, and the operators on both.  Of a column's type only    *)
(* its name matters here.  The arrays under the columns are objects of     *)
(* their own: projected columns may share one.                             *)
(***************************************************************************)
EXTENDS Integers, Sequences, SequencesExt

CONSTANTS
  NULL,         \* SQL NULL, a nil selection
  YearOne       \* the zero time.Time

-----------------------------------------------------------------------------
(* Columns: arr is the array the slice of len values is of.  nulls is empty *)
(* until the first NULL.                                                    *)

NewColumn(type, a) ==
  [type |-> type, arr |-> a, len |-> 0, nulls |-> << >>, hasNulls |-> FALSE]

Falses(n) == [i \in 1 .. n |-> FALSE]

ZeroOf(type) == IF type = "time" THEN YearOne ELSE 0

\* append, within the capacity: a move to a larger array would show only where
\* columns share one.
Put(array, n, v) == IF n < Len(array) THEN [array EXCEPT ![n + 1] = v] ELSE Append(array, v)

AppendData(b, j, v) ==
  [b EXCEPT !.arrays[b.cols[j].arr] = Put(@, b.cols[j].len, v),
            !.cols[j].len = @ + 1]

\* Mutant of MarkNull: relies on the bitmap to know that it exists.
MarkNullUncached(c) ==
  [c EXCEPT !.nulls = IF @ = << >> THEN Append(Falses(c.len), TRUE) ELSE Append(@, TRUE)]

\* The first NULL makes the bitmap of all the rows before it.
MarkNull(c) ==
  [c EXCEPT !.nulls = IF @ = << >> THEN Append(Falses(c.len), TRUE) ELSE Append(@, TRUE),
            !.hasNulls = TRUE]

\* A zero stands under a NULL.
AppendNull(b, j) ==
  AppendData([b EXCEPT !.cols[j] = MarkNull(@)], j, ZeroOf(b.cols[j].type))

\* AppendInt and its kin, with extendNull.
AppendValue(b, j, v) ==
  LET put == AppendData(b, j, v)
  IN  IF b.cols[j].hasNulls THEN [put EXCEPT !.cols[j].nulls = Append(@, FALSE)] ELSE put

AppendCell(b, j, v) == IF v = NULL THEN AppendNull(b, j) ELSE AppendValue(b, j, v)

\* r counts from 0.
IsNull(b, j, r) == b.cols[j].nulls # << >> /\ b.cols[j].nulls[r + 1]

ValueAt(b, j, r) == b.arrays[b.cols[j].arr][r + 1]

CellAt(b, j, r) == IF IsNull(b, j, r) THEN NULL ELSE ValueAt(b, j, r)

-----------------------------------------------------------------------------
(* Batches. *)

NewBatch(types) ==
  [fields |-> types,
   cols   |-> [j \in DOMAIN types |-> NewColumn(types[j], j)],
   arrays |-> [j \in DOMAIN types |-> << >>],
   rows   |-> 0, sel |-> NULL]

LenOf(b) == IF b.sel # NULL THEN Len(b.sel) ELSE b.rows

\* The physical row of the nth row there is.
RowAt(b, n) == IF b.sel # NULL THEN b.sel[n] ELSE n - 1

\* The arrays are kept.
ResetBatch(b) ==
  [b EXCEPT !.cols = [j \in DOMAIN @ |-> [@[j] EXCEPT !.len = 0, !.nulls = << >>,
                                                      !.hasNulls = FALSE]],
            !.rows = 0,
            !.sel = NULL]

Validates(b) ==
  /\ Len(b.cols) = Len(b.fields)
  /\ \A j \in DOMAIN b.cols :
       LET c == b.cols[j]
       IN  /\ c.type = b.fields[j]
           /\ c.len = b.rows
           /\ Len(c.nulls) \in {0, b.rows}
  /\ (b.sel # NULL) => \A n \in DOMAIN b.sel : b.sel[n] \in 0 .. b.rows - 1

-----------------------------------------------------------------------------
(* The vector operators. *)

Compare(x, cmp, v) ==
  CASE cmp = "=" -> x = v
    [] cmp = "<>" -> x # v
    [] cmp = ">" -> x > v
    [] cmp = ">=" -> x >= v
    [] cmp = "<" -> x < v
    [] cmp = "<=" -> x <= v

\* f is [col, kind, cmp, value].  The loop over bools is not given the cmp.
Comparison(f) == IF f.kind = "bool" THEN "=" ELSE f.cmp

Keeps(f, b, r) ==
  ~IsNull(b, f.col + 1, r) /\ Compare(ValueAt(b, f.col + 1, r), Comparison(f), f.value)

\* checkColumn, and the kinds Process knows.
FilterAccepts(f, b) ==
  /\ f.col \in 0 .. Len(b.cols) - 1
  /\ b.cols[f.col + 1].type = f.kind
  /\ Validates(b)
  /\ f.kind \in {"int", "float", "string", "bool"}
  /\ (f.kind = "string") => f.cmp \in {"=", "<>"}

Dense(n) == [r \in 1 .. n |-> r - 1]

\* The elements of s that are among rows, appended one by one.
PickRow(q, r) == IF r.keep THEN Append(q, r.row) ELSE q

Picked(s, rows) ==
  FoldLeft(PickRow, << >>, [n \in DOMAIN s |-> [row |-> s[n], keep |-> s[n] \in rows]])

\* A selection as long as the batch is taken for the whole batch.
DropFull(b) == IF b.sel # NULL /\ Len(b.sel) = b.rows THEN [b EXCEPT !.sel = NULL] ELSE b

Passing(f, b) == {r \in 0 .. b.rows - 1 : Keeps(f, b, r)}

\* Builds a selection once a row is dropped, or compacts the one there is.
FilterInto(f, b) ==
  IF b.sel # NULL THEN [b EXCEPT !.sel = Picked(@, Passing(f, b))]
  ELSE IF Passing(f, b) = 0 .. b.rows - 1 THEN b
  ELSE [b EXCEPT !.sel = Picked(Dense(b.rows), Passing(f, b))]

FilterBatch(f, b) == DropFull(FilterInto(f, b))

ProjectAccepts(p, b) ==
  /\ p # << >>
  /\ Validates(b)
  /\ \A i \in DOMAIN p : p[i] \in 0 .. Len(b.cols) - 1

\* The headers are copied, the arrays and the selection shared.
ProjectBatch(p, b) ==
  [fields |-> [i \in DOMAIN p |-> b.fields[p[i] + 1]],
   cols |-> [i \in DOMAIN p |-> b.cols[p[i] + 1]],
   arrays |-> b.arrays, rows |-> b.rows, sel |-> b.sel]

\* An operator of the caller's: the rows there are, in an order of its own.
ChooseBatch(s, b) == [b EXCEPT !.sel = [n \in DOMAIN s |-> RowAt(b, s[n])]]

-----------------------------------------------------------------------------
(* Chunks: columns of cells, NULL among them. *)

Chunk(fields, cols) == [fields |-> fields, cols |-> cols]

NumRows(k) == IF k.cols = << >> THEN 0 ELSE Len(k.cols[1])

ChunkValidates(k) ==
  /\ Len(k.cols) = Len(k.fields)
  /\ \A j \in DOMAIN k.cols : Len(k.cols[j]) = NumRows(k)

\* The cells of the rows a batch selects, in its order.
ToChunk(b) ==
  Chunk(b.fields,
        [j \in DOMAIN b.cols |-> [n \in 1 .. LenOf(b) |-> CellAt(b, j, RowAt(b, n))]])

\* Cells are of their column's type: a source's chunk, or one of ToChunk.
AppendEntry(b, e) == AppendCell(b, e.col, e.value)

AppendEntries(b, column) == FoldLeft(AppendEntry, b, column)

FromChunk(k) ==
  LET column(j) == [n \in DOMAIN k.cols[j] |-> [col |-> j, value |-> k.cols[j][n]]]
  IN  [FoldLeft(AppendEntries, NewBatch(k.fields), [j \in DOMAIN k.fields |-> column(j)]) EXCEPT
         !.rows = NumRows(k)]

\* The rows whose column compares as a vector filter's documentation says.
PassingChunk(f, k) ==
  {n \in 1 .. NumRows(k) :
     LET v == k.cols[f.col + 1][n] IN v # NULL /\ Compare(v, f.cmp, f.value)}

\* The rows s of a chunk.
ChooseChunk(s, k) ==
  Chunk(k.fields, [j \in DOMAIN k.cols |-> [m \in DOMAIN s |-> k.cols[j][s[m]]]])

\* FilterOp with the predicate a vector filter stands for.
FilterChunk(f, k) ==
  ChooseChunk(Picked([n \in 1 .. NumRows(k) |-> n], PassingChunk(f, k)), k)

\* ProjectOp.
ProjectChunk(p, k) ==
  Chunk([i \in DOMAIN p |-> k.fields[p[i] + 1]], [i \in DOMAIN p |-> k.cols[p[i] + 1]])
=============================================================================
