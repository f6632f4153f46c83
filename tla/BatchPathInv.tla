---------------------------- MODULE BatchPathInv ----------------------------
(***************************************************************************)
(* Why the two paths agree: the inductive invariant of BatchPath.           *)
(***************************************************************************)
EXTENDS BatchPath

\* A sequence of anything.
IsList(s) == Len(s) \in Nat /\ s = [i \in 1 .. Len(s) |-> s[i]]

\* A column whose bitmap is what its cached flag says.
Fitted(c) ==
  /\ c = [type |-> c.type, arr |-> c.arr, len |-> c.len, nulls |-> c.nulls,
          hasNulls |-> c.hasNulls]
  /\ c.len \in Nat
  /\ c.nulls \in Seq(BOOLEAN)
  /\ c.hasNulls = (c.nulls # << >>)
  /\ Len(c.nulls) \in {0, c.len}

\* An array has a value everywhere, under a NULL a zero.
Stores(a) == IsList(a) /\ \A i \in 1 .. Len(a) : a[i] # NULL

\* A batch in any state: its arrays reach as far as the columns over them.
Sound(b) ==
  /\ b = [fields |-> b.fields, cols |-> b.cols, arrays |-> b.arrays, rows |-> b.rows,
          sel |-> b.sel]
  /\ IsList(b.fields) /\ IsList(b.cols)
  /\ Len(b.cols) = Len(b.fields) /\ Len(b.cols) > 0
  /\ b.rows \in Nat
  /\ \A j \in 1 .. Len(b.cols) :
       /\ Fitted(b.cols[j])
       /\ b.cols[j].arr \in DOMAIN b.arrays
       /\ Stores(b.arrays[b.cols[j].arr])
       /\ b.cols[j].len <= Len(b.arrays[b.cols[j].arr])

\* The columns of b, as far as each is filled, show the cells of cols.
Shows(b, cols) ==
  /\ IsList(cols) /\ Len(cols) = Len(b.cols)
  /\ \A j \in 1 .. Len(cols) :
       /\ IsList(cols[j]) /\ Len(cols[j]) = b.cols[j].len
       /\ \A r \in 0 .. b.cols[j].len - 1 : CellAt(b, j, r) = cols[j][r + 1]

Filling(b, cols) == Sound(b) /\ b.sel = NULL /\ Shows(b, cols)

\* Appended to, a column whose array is its own leaves the others alone.
Shares(b) == \E i, j \in DOMAIN b.cols : i # j /\ b.cols[i].arr = b.cols[j].arr

\* The rows a batch shows, in order.
RowsOf(b) == IF b.sel = NULL THEN Dense(b.rows) ELSE b.sel

\* A selection names rows of the batch, those of the repository's own operators
\* each once and in order.
Selects(b) == RowsOf(b) \in Seq(0 .. b.rows - 1)

\* Every column of a full batch is as long as the batch.
Full(b) == Sound(b) /\ Selects(b) /\ \A j \in 1 .. Len(b.cols) : b.cols[j].len = b.rows

\* The cells of the rows b shows.
Shown(b) == [j \in 1 .. Len(b.cols) |-> [n \in 1 .. LenOf(b) |-> CellAt(b, j, RowsOf(b)[n])]]

PathIInv ==
  /\ oids \in Results
  /\ filled \in Nat
  /\ apart \in BOOLEAN
  /\ Sound(batch)
  /\ chunk = [fields |-> batch.fields, cols |-> chunk.cols]
  /\ phase = "scan" => Len(batch.cols) = Len(oids) /\ ~Shares(batch) /\ ~apart
  /\ phase \in {"scan", "refill"} =>
       /\ filled < Len(batch.cols)
       /\ batch.sel = NULL
       /\ \A j \in 1 .. Len(batch.cols) :
            batch.cols[j].len = batch.rows + (IF j <= filled THEN 1 ELSE 0)
       /\ ~apart => Filling(batch, chunk.cols)
  /\ phase = "full" => Full(batch) /\ (~apart => chunk.cols = Shown(batch))
=============================================================================
