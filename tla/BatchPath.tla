----------------------------- MODULE BatchPath ------------------------------
(***************************************************************************)
(* One batch from the wire to the consumer and round again, beside the     *)
(* chunk the row path makes of the same rows: decoded and filled cell by   *)
(* cell, filtered, projected, reordered, boxed and unboxed, reset and      *)
(* refilled.                                                               *)
(***************************************************************************)
EXTENDS Batch, Wire

CONSTANTS
  Results,       \* sequences of column oids a query may return
  Cells(_),      \* cells of a column the server may send, NULL among them
  Values(_),     \* values of a type an owner may append, NULL among them
  Filters,       \* [col, kind, cmp, value]
  Projections,   \* sequences of column indexes
  Selections,    \* sequences of rows, counted from 1, an operator of the caller's selects
  MaxRows,       \* bound: rows the scanner puts in a batch
  MaxRefill      \* bound: rows an owner puts in a batch it has reset

Oids == {"int", "bool", "text", "timestamp", "date"}

\* Nil is no number, no time and no selection; a number fits its width.
ASSUME PathAssumption ==
  /\ << >> \notin Results /\ Results \subseteq Seq(Oids)
  /\ Projections \subseteq Seq(Nat)
  /\ Selections \subseteq Seq(Nat)
  /\ MaxRows \in Nat /\ MaxRefill \in Nat
  /\ NULL \notin Int /\ NULL \notin Seq(Nat) /\ NULL # YearOne
  /\ \A oid \in Oids \ {"text"} : \A c \in Cells(oid) \ {NULL} :
       /\ c.v \in Int /\ c.width \in Nat
       /\ IF oid = "bool" THEN c.v \in {0, 1}
          ELSE -Power(c.width) <= 2 * c.v /\ 2 * c.v < Power(c.width)

VARIABLES
  oids,          \* of this result's columns
  batch,
  chunk,         \* the same rows on the row path
  filled,        \* cells of an unfinished row already appended
  apart,         \* history: did the vector path leave the row path?
  phase          \* "scan", "refill", "full" or "dropped"

vars == <<oids, batch, chunk, filled, apart, phase>>

TypeOf(oid) ==
  CASE oid \in {"timestamp", "date"} -> "time"
    [] oid = "text"                  -> "string"
    [] OTHER                         -> oid

Types == [j \in DOMAIN oids |-> TypeOf(oids[j])]

NoRows(types) == Chunk(types, [j \in DOMAIN types |-> << >>])

Init ==
  /\ oids \in Results
  /\ batch = NewBatch(Types)
  /\ chunk = NoRows(Types)
  /\ filled = 0
  /\ apart = FALSE
  /\ phase = "scan"

-----------------------------------------------------------------------------
(* Where the vector path does something else than the row path.             *)

\* A filter compares another way than its Cmp says.
IgnoresCmp(f) == Comparison(f) # f.cmp

Unordered(b) ==
  b.sel # NULL /\ \E m, n \in DOMAIN b.sel : m < n /\ b.sel[m] >= b.sel[n]

\* A selection that reorders or repeats rows, as long as the batch after the
\* filter, is dropped for the identity.
ForgetsOrder(f, b) == Unordered(b) /\ FilterBatch(f, b) # FilterInto(f, b)

PartedBy(f, b) == IgnoresCmp(f) \/ ForgetsOrder(f, b)

\* Columns over one array: the cell appended to the one changes the other.
Overwrites(b, j, v) ==
  \E i \in DOMAIN b.cols \ {j} :
    /\ b.cols[i].arr = b.cols[j].arr
    /\ \E r \in 0 .. b.cols[i].len - 1 : CellAt(AppendCell(b, j, v), i, r) # CellAt(b, i, r)

-----------------------------------------------------------------------------
\* The next cell of both paths.
AppendBoth(v, w) ==
  LET j == filled + 1
      b == AppendCell(batch, j, v)
      last == j = Len(batch.cols)
  IN  /\ batch' = IF last THEN [b EXCEPT !.rows = @ + 1] ELSE b
      /\ filled' = IF last THEN 0 ELSE j
      /\ chunk' = [chunk EXCEPT !.cols[j] = Append(@, w)]
      /\ apart' = (apart \/ Overwrites(batch, j, v))
      /\ UNCHANGED <<oids, phase>>

-----------------------------------------------------------------------------
(* Next of the vector scanner and of the row scanner. *)

Wired(cell) == Decode(oids[filled + 1], Sent(oids[filled + 1], cell))

ScanNull ==
  /\ phase = "scan"
  /\ batch.rows < MaxRows
  /\ NULL \in Cells(oids[filled + 1])
  /\ AppendBoth(NULL, NULL)

ScanCell(cell) ==
  /\ phase = "scan"
  /\ batch.rows < MaxRows
  /\ Wired(cell) # Undecodable
  /\ AppendBoth(Wired(cell), Meant(oids[filled + 1], cell))

\* A cell that cannot be decoded ends the scan with the row half appended.
DecodeFails(cell) ==
  /\ phase = "scan"
  /\ batch.rows < MaxRows
  /\ Wired(cell) = Undecodable
  /\ phase' = "dropped"
  /\ UNCHANGED <<oids, batch, chunk, filled, apart>>

HandOver ==
  /\ phase \in {"scan", "refill"}
  /\ filled = 0
  /\ batch.rows > 0
  /\ phase' = "full"
  /\ UNCHANGED <<oids, batch, chunk, filled, apart>>

-----------------------------------------------------------------------------
(* Operators, on both paths. *)

Filter(f) ==
  /\ phase = "full"
  /\ FilterAccepts(f, batch)
  /\ batch' = FilterBatch(f, batch)
  /\ chunk' = FilterChunk(f, chunk)
  /\ apart' = (apart \/ PartedBy(f, batch))
  /\ UNCHANGED <<oids, filled, phase>>

Project(p) ==
  /\ phase = "full"
  /\ ProjectAccepts(p, batch)
  /\ batch' = ProjectBatch(p, batch)
  /\ chunk' = ProjectChunk(p, chunk)
  /\ UNCHANGED <<oids, filled, apart, phase>>

FilterProject(f, p) ==
  /\ phase = "full"
  /\ FilterAccepts(f, batch)
  /\ ProjectAccepts(p, FilterBatch(f, batch))
  /\ batch' = ProjectBatch(p, FilterBatch(f, batch))
  /\ chunk' = ProjectChunk(p, FilterChunk(f, chunk))
  /\ apart' = (apart \/ PartedBy(f, batch))
  /\ UNCHANGED <<oids, filled, phase>>

\* Sorts, repeats or limits the rows there are on both paths.
Choose(s) ==
  /\ phase = "full"
  /\ \A n \in DOMAIN s : s[n] > 0 /\ s[n] <= LenOf(batch) /\ s[n] <= NumRows(chunk)
  /\ batch' = ChooseBatch(s, batch)
  /\ chunk' = ChooseChunk(s, chunk)
  /\ UNCHANGED <<oids, filled, apart, phase>>

\* An operator that refuses the batch ends the run.
Refused ==
  /\ phase = "full"
  /\ \/ \E f \in Filters : ~FilterAccepts(f, batch)
     \/ \E p \in Projections : ~ProjectAccepts(p, batch)
  /\ phase' = "dropped"
  /\ UNCHANGED <<oids, batch, chunk, filled, apart>>

\* To the row path and back.
Rebox ==
  /\ phase = "full"
  /\ batch' = FromChunk(ToChunk(batch))
  /\ UNCHANGED <<oids, chunk, filled, apart, phase>>

-----------------------------------------------------------------------------
(* An owner takes a batch back, in whatever state it is, projected or not,  *)
(* and fills it itself; or the scanner makes another.                       *)

Reset ==
  /\ phase \notin {"scan", "refill"}
  /\ batch' = ResetBatch(batch)
  /\ chunk' = NoRows(batch.fields)
  /\ filled' = 0
  /\ apart' = FALSE
  /\ phase' = "refill"
  /\ UNCHANGED oids

OwnerAppends(v) ==
  /\ phase = "refill"
  /\ batch.rows < MaxRefill
  /\ AppendBoth(v, v)

Renew ==
  /\ phase # "scan"
  /\ batch' = NewBatch(Types)
  /\ chunk' = NoRows(Types)
  /\ filled' = 0
  /\ apart' = FALSE
  /\ phase' = "scan"
  /\ UNCHANGED oids

Next ==
  \/ ScanNull
  \/ phase = "scan" /\ \E c \in Cells(oids[filled + 1]) \ {NULL} : ScanCell(c) \/ DecodeFails(c)
  \/ HandOver
  \/ \E f \in Filters : Filter(f)
  \/ \E p \in Projections : Project(p)
  \/ \E f \in Filters, p \in Projections : FilterProject(f, p)
  \/ \E s \in Selections : Choose(s)
  \/ Refused
  \/ Rebox
  \/ Reset
  \/ \E v \in Values(batch.fields[filled + 1]) : OwnerAppends(v)
  \/ Renew

Spec == Init /\ [][Next]_vars

-----------------------------------------------------------------------------
(* Properties. *)

\* The vector path and the row path hold the same rows in the same order after
\* any chain of operators: what the wire says, NULLs included.  Rows dropped
\* from one batch never come back, and nothing of a batch's earlier life shows
\* after a reset.  They part in three ways only, and then at that step and not
\* before: a bool filter of which Cmp is not Eq; a filter that leaves a caller's
\* reordering selection as long as the batch; a cell that changes another, in a
\* refilled batch with a repeated column.
RowPathAgrees == (phase = "full" /\ ~apart) => ToChunk(batch) = chunk

\* A column's bitmap is absent or covers every row, even in the middle of a
\* row and after a decode that failed there: IsNull never reads past its end.
BitmapFits ==
  \A j \in DOMAIN batch.cols : Len(batch.cols[j].nulls) \in {0, batch.cols[j].len}
=============================================================================
