-------------------------- MODULE BatchPathProofs ---------------------------
(***************************************************************************)
(* Proofs about a batch on its way, for any results, cells, operators and   *)
(* bounds: bitmaps fit their columns, and the vector path holds the rows of *)
(* the row path.                                                            *)
(***************************************************************************)
EXTENDS BatchPathInv, SequenceTheorems, TLAPS

-----------------------------------------------------------------------------
(* Lists. *)

LEMMA ListLen ==
  ASSUME NEW n \in Nat, NEW s, s = [i \in 1 .. n |-> s[i]]
  PROVE  Len(s) = n /\ IsList(s) /\ DOMAIN s = 1 .. n
<1> DEFINE E == {s[i] : i \in 1 .. n}
<1>1. s \in [1 .. n -> E]
  OBVIOUS
<1>2. s \in Seq(E)
  BY <1>1, SeqDef
<1>3. Len(s) = n
  BY <1>1, <1>2, LenProperties
<1> QED BY <1>3 DEF IsList

LEMMA ListDomain ==
  ASSUME NEW s, IsList(s) PROVE DOMAIN s = 1 .. Len(s) /\ Len(s) \in Nat
BY DEF IsList

LEMMA ListOfSeq ==
  ASSUME NEW E, NEW s \in Seq(E) PROVE IsList(s)
BY DEF IsList

LEMMA SeqMember ==
  ASSUME NEW E, NEW s \in Seq(E), NEW m \in 1 .. Len(s) PROVE s[m] \in E
OBVIOUS

LEMMA ListIsSeq ==
  ASSUME NEW s, IsList(s), NEW E, \A i \in 1 .. Len(s) : s[i] \in E
  PROVE  s \in Seq(E)
<1>1. s \in [1 .. Len(s) -> E]
  BY DEF IsList
<1> QED BY <1>1, SeqDef DEF IsList

LEMMA AppendList ==
  ASSUME NEW s, IsList(s), NEW v
  PROVE  /\ IsList(Append(s, v)) /\ Len(Append(s, v)) = Len(s) + 1
         /\ \A i \in 1 .. Len(s) : Append(s, v)[i] = s[i]
         /\ Append(s, v)[Len(s) + 1] = v
<1> DEFINE E == {s[i] : i \in 1 .. Len(s)} \cup {v}
<1>1. s \in Seq(E) /\ v \in E
  <2>1. \A i \in 1 .. Len(s) : s[i] \in E
    OBVIOUS
  <2> HIDE DEF E
  <2>2. s \in Seq(E)
    BY <2>1, ListIsSeq
  <2> QED BY <2>2 DEF E
<1> HIDE DEF E
<1>2. /\ Append(s, v) \in Seq(E) /\ Len(Append(s, v)) = Len(s) + 1
      /\ \A i \in 1 .. Len(s) : Append(s, v)[i] = s[i]
      /\ Append(s, v)[Len(s) + 1] = v
  BY <1>1, AppendProperties
<1>3. IsList(Append(s, v))
  BY <1>2, ListOfSeq
<1> QED BY <1>2, <1>3

LEMMA EmptyList == IsList(<< >>) /\ Len(<< >>) = 0
BY DEF IsList

\* Lists that agree on every element are the same.
LEMMA SameList ==
  ASSUME NEW s, NEW t, IsList(s), IsList(t), Len(s) = Len(t), \A i \in 1 .. Len(s) : s[i] = t[i]
  PROVE  s = t
BY DEF IsList

-----------------------------------------------------------------------------
(* A cell is appended. *)

LEMMA PutIs ==
  ASSUME NEW a, IsList(a), NEW n \in Nat, n <= Len(a), NEW v
  PROVE  /\ IsList(Put(a, n, v))
         /\ Len(a) <= Len(Put(a, n, v)) /\ n + 1 <= Len(Put(a, n, v))
         /\ Put(a, n, v)[n + 1] = v
         /\ \A i \in 1 .. n : Put(a, n, v)[i] = a[i]
         /\ \A i \in 1 .. Len(Put(a, n, v)) :
              i # n + 1 => i \in 1 .. Len(a) /\ Put(a, n, v)[i] = a[i]
<1>1. CASE n < Len(a)
  <2> DEFINE p == [a EXCEPT ![n + 1] = v]
  <2>1. DOMAIN a = 1 .. Len(a) /\ Len(a) \in Nat
    BY ListDomain
  <2>2. p = [i \in DOMAIN a |-> IF i = n + 1 THEN v ELSE a[i]]
    OBVIOUS
  <2>a. n + 1 \in DOMAIN a /\ \A i \in 1 .. n : i \in DOMAIN a /\ i # n + 1
    BY <1>1, <2>1
  <2>b. p = [i \in 1 .. Len(a) |-> p[i]] /\ p[n + 1] = v /\ (\A i \in 1 .. n : p[i] = a[i])
        /\ \A i \in 1 .. Len(a) : i # n + 1 => p[i] = a[i]
    BY <2>1, <2>2, <2>a
  <2> HIDE DEF p
  <2>3. IsList(p) /\ Len(p) = Len(a)
    BY <2>1, <2>b, ListLen
  <2>4. Put(a, n, v) = p
    BY <1>1 DEF Put, p
  <2>5. n + 1 <= Len(a)
    BY <1>1, <2>1
  <2>6. Len(a) <= Len(p) /\ n + 1 <= Len(p)
    BY <2>1, <2>3, <2>5
  <2> QED BY <2>b, <2>3, <2>4, <2>6
<1>2. CASE ~(n < Len(a))
  <2>1. Len(a) \in Nat /\ n = Len(a)
    BY <1>2 DEF IsList
  <2>2. Put(a, n, v) = Append(a, v)
    BY <1>2 DEF Put
  <2> QED BY <2>1, <2>2, AppendList
<1> QED BY <1>1, <1>2

LEMMA PutStores ==
  ASSUME NEW a, Stores(a), NEW n \in Nat, n <= Len(a), NEW v, v # NULL
  PROVE  Stores(Put(a, n, v))
BY PutIs DEF Stores

\* Columns and batches by their fields, and one field changed.
Column(type, arr, len, nulls, hasNulls) ==
  [type |-> type, arr |-> arr, len |-> len, nulls |-> nulls, hasNulls |-> hasNulls]

BatchOf(fields, cols, arrays, rows, sel) ==
  [fields |-> fields, cols |-> cols, arrays |-> arrays, rows |-> rows, sel |-> sel]

LEMMA ColumnFields ==
  ASSUME NEW t, NEW a, NEW l, NEW n, NEW h
  PROVE  LET c == Column(t, a, l, n, h)
         IN  c.type = t /\ c.arr = a /\ c.len = l /\ c.nulls = n /\ c.hasNulls = h
BY DEF Column

LEMMA BatchFields ==
  ASSUME NEW f, NEW c, NEW a, NEW r, NEW s
  PROVE  LET b == BatchOf(f, c, a, r, s)
         IN  b.fields = f /\ b.cols = c /\ b.arrays = a /\ b.rows = r /\ b.sel = s
BY DEF BatchOf

\* What AppendData makes of a batch.
DataAfter(b, j, v) ==
  LET c == b.cols[j]
  IN  BatchOf(b.fields,
              [b.cols EXCEPT ![j] = Column(c.type, c.arr, c.len + 1, c.nulls, c.hasNulls)],
              [b.arrays EXCEPT ![c.arr] = Put(b.arrays[c.arr], c.len, v)], b.rows, b.sel)

IsBatch(b) == b = BatchOf(b.fields, b.cols, b.arrays, b.rows, b.sel)
IsColumn(c) == c = Column(c.type, c.arr, c.len, c.nulls, c.hasNulls)

LEMMA DataAppended ==
  ASSUME NEW b, IsBatch(b), NEW j \in DOMAIN b.cols, IsColumn(b.cols[j]), NEW v
  PROVE  AppendData(b, j, v) = DataAfter(b, j, v)
<1> DEFINE c == b.cols[j]
           l == c.len + 1
           p == Put(b.arrays[c.arr], c.len, v)
           a == [b.arrays EXCEPT ![c.arr] = p]
<1>1. AppendData(b, j, v) = [[b EXCEPT !.arrays[c.arr] = p] EXCEPT !.cols[j].len = l]
  BY DEF AppendData
<1>2. [BatchOf(b.fields, b.cols, b.arrays, b.rows, b.sel) EXCEPT !.arrays[c.arr] = p]
        = BatchOf(b.fields, b.cols, a, b.rows, b.sel)
  <2> HIDE DEF p, c
  <2> QED BY DEF BatchOf
<1>3. [BatchOf(b.fields, b.cols, a, b.rows, b.sel) EXCEPT !.cols[j].len = l]
        = BatchOf(b.fields, [b.cols EXCEPT ![j].len = l], a, b.rows, b.sel)
  <2> HIDE DEF a, l
  <2> QED BY DEF BatchOf
<1>4. [b.cols EXCEPT ![j].len = l]
        = [b.cols EXCEPT ![j] = Column(c.type, c.arr, l, c.nulls, c.hasNulls)]
  <2>1. [Column(c.type, c.arr, c.len, c.nulls, c.hasNulls) EXCEPT !.len = l]
          = Column(c.type, c.arr, l, c.nulls, c.hasNulls)
    <3> HIDE DEF l
    <3> QED BY DEF Column
  <2>2. [b.cols EXCEPT ![j].len = l] = [b.cols EXCEPT ![j] = [c EXCEPT !.len = l]]
    OBVIOUS
  <2> QED BY <2>1, <2>2 DEF IsColumn
<1> HIDE DEF p, a, l
<1>5. AppendData(b, j, v)
        = BatchOf(b.fields, [b.cols EXCEPT ![j] = Column(c.type, c.arr, l, c.nulls, c.hasNulls)],
                  a, b.rows, b.sel)
  BY <1>1, <1>2, <1>3, <1>4 DEF IsBatch
<1> QED BY <1>5 DEF DataAfter, l, a, p

\* What AppendCell makes of the bitmap of a column.
NullsAfter(c, v) ==
  IF v = NULL THEN IF c.nulls = << >> THEN Append(Falses(c.len), TRUE) ELSE Append(c.nulls, TRUE)
  ELSE IF c.hasNulls THEN Append(c.nulls, FALSE) ELSE c.nulls

DataFor(c, v) == IF v = NULL THEN ZeroOf(c.type) ELSE v

ColumnAfter(c, v) ==
  Column(c.type, c.arr, c.len + 1, NullsAfter(c, v), IF v = NULL THEN TRUE ELSE c.hasNulls)

BatchAfter(b, j, v) ==
  LET c == b.cols[j]
  IN  BatchOf(b.fields, [b.cols EXCEPT ![j] = ColumnAfter(c, v)],
              [b.arrays EXCEPT ![c.arr] = Put(b.arrays[c.arr], c.len, DataFor(c, v))], b.rows, b.sel)

LEMMA AppendCellIs ==
  ASSUME NEW b, Sound(b), NEW j \in 1 .. Len(b.cols), NEW v
  PROVE  AppendCell(b, j, v) = BatchAfter(b, j, v)
<1> DEFINE c == b.cols[j]
<1>1. IsBatch(b) /\ IsColumn(c) /\ j \in DOMAIN b.cols
  BY ListDomain DEF Sound, Fitted, BatchOf, Column, IsBatch, IsColumn
<1>2. CASE v = NULL
  <2> DEFINE n == NullsAfter(c, v)
             h == TRUE
             u == Column(c.type, c.arr, c.len, n, h)
             x == BatchOf(b.fields, [b.cols EXCEPT ![j] = u], b.arrays, b.rows, b.sel)
  <2>1. MarkNull(c) = u
    <3>1. MarkNull(c) = [[c EXCEPT !.nulls = n] EXCEPT !.hasNulls = h]
      BY <1>2 DEF MarkNull, NullsAfter
    <3> HIDE DEF c, n, h
    <3>2. [Column(c.type, c.arr, c.len, c.nulls, c.hasNulls) EXCEPT !.nulls = n]
            = Column(c.type, c.arr, c.len, n, c.hasNulls)
      BY DEF Column
    <3>3. [Column(c.type, c.arr, c.len, n, c.hasNulls) EXCEPT !.hasNulls = h]
            = Column(c.type, c.arr, c.len, n, h)
      BY DEF Column
    <3> QED BY <1>1, <3>1, <3>2, <3>3 DEF IsColumn
  <2> HIDE DEF n, h, u
  <2>2. [b EXCEPT !.cols[j] = MarkNull(c)] = x
    <3>1. [BatchOf(b.fields, b.cols, b.arrays, b.rows, b.sel) EXCEPT !.cols[j] = u] = x
      BY DEF BatchOf
    <3> QED BY <1>1, <2>1, <3>1 DEF IsBatch
  <2>3. /\ x.fields = b.fields /\ x.cols = [b.cols EXCEPT ![j] = u] /\ x.arrays = b.arrays
        /\ x.rows = b.rows /\ x.sel = b.sel
    BY BatchFields
  <2> HIDE DEF x
  <2>4. IsBatch(x)
    BY <2>3 DEF IsBatch, x
  <2>5. j \in DOMAIN x.cols /\ x.cols[j] = u
    BY <1>1, <2>3
  <2>6. u.type = c.type /\ u.arr = c.arr /\ u.len = c.len /\ u.nulls = n /\ u.hasNulls = h
    BY ColumnFields DEF u
  <2>7. IsColumn(u)
    BY <2>6 DEF IsColumn, u
  <2>8. AppendCell(b, j, v) = DataAfter(x, j, ZeroOf(c.type))
    <3>1. AppendCell(b, j, v) = AppendData(x, j, ZeroOf(c.type))
      BY <1>2, <2>2 DEF AppendCell, AppendNull
    <3> QED BY <2>4, <2>5, <2>7, <3>1, DataAppended
  <2>9. ColumnAfter(c, v) = Column(u.type, u.arr, u.len + 1, u.nulls, u.hasNulls)
    BY <1>2, <2>6 DEF ColumnAfter, n, h
  <2>10. \A w : [x.cols EXCEPT ![j] = w] = [b.cols EXCEPT ![j] = w]
    BY <2>3
  <2> QED BY <1>2, <2>3, <2>5, <2>6, <2>8, <2>9, <2>10 DEF BatchAfter, DataFor, DataAfter
<1>3. CASE v # NULL
  <2> DEFINE u == Column(c.type, c.arr, c.len + 1, c.nulls, c.hasNulls)
             d == [b.cols EXCEPT ![j] = u]
             a == [b.arrays EXCEPT ![c.arr] = Put(b.arrays[c.arr], c.len, v)]
             put == BatchOf(b.fields, d, a, b.rows, b.sel)
  <2>1. AppendData(b, j, v) = put
    BY <1>1, DataAppended DEF DataAfter
  <2>2. CASE c.hasNulls
    <3> DEFINE n == Append(c.nulls, FALSE)
    <3>1. put.cols = d /\ d[j] = u /\ u.nulls = c.nulls
      <4> HIDE DEF c
      <4>1. u.nulls = c.nulls
        BY ColumnFields
      <4> HIDE DEF u
      <4> QED BY <1>1, <4>1, BatchFields
    <3>2. AppendCell(b, j, v) = [put EXCEPT !.cols[j].nulls = n]
      <4> HIDE DEF put, d, u
      <4> QED BY <1>3, <2>1, <2>2, <3>1 DEF AppendCell, AppendValue
    <3>3. [put EXCEPT !.cols[j].nulls = n] = BatchOf(b.fields, [d EXCEPT ![j].nulls = n], a, b.rows, b.sel)
      <4> HIDE DEF d, a, n
      <4> QED BY DEF BatchOf
    <3>4. ColumnAfter(c, v) = [u EXCEPT !.nulls = n]
      <4>1. ColumnAfter(c, v) = Column(c.type, c.arr, c.len + 1, n, c.hasNulls)
        BY <1>3, <2>2 DEF ColumnAfter, NullsAfter
      <4> HIDE DEF n
      <4>2. [u EXCEPT !.nulls = n] = Column(c.type, c.arr, c.len + 1, n, c.hasNulls)
        BY DEF Column
      <4> QED BY <4>1, <4>2
    <3>5. [d EXCEPT ![j].nulls = n] = [b.cols EXCEPT ![j] = ColumnAfter(c, v)]
      <4> HIDE DEF u, n, c
      <4>1. [d EXCEPT ![j].nulls = n] = [d EXCEPT ![j] = [u EXCEPT !.nulls = n]]
        BY <3>1
      <4>2. \A x : [d EXCEPT ![j] = x] = [b.cols EXCEPT ![j] = x]
        OBVIOUS
      <4> QED BY <3>4, <4>1, <4>2
    <3> HIDE DEF put, d, u, n
    <3> QED BY <1>3, <3>2, <3>3, <3>5 DEF BatchAfter, DataFor
  <2>3. CASE ~c.hasNulls
    <3>1. NullsAfter(c, v) = c.nulls
      BY <1>3, <2>3 DEF NullsAfter
    <3> QED BY <1>3, <2>1, <2>3, <3>1 DEF AppendCell, AppendValue, BatchAfter, ColumnAfter, DataFor
  <2> QED BY <2>2, <2>3
<1> QED BY <1>2, <1>3

\* A list with one element exchanged.
LEMMA ListEdit ==
  ASSUME NEW s, IsList(s), NEW j \in 1 .. Len(s), NEW v
  PROVE  LET t == [s EXCEPT ![j] = v]
         IN  /\ IsList(t) /\ Len(t) = Len(s) /\ t[j] = v
             /\ \A i \in 1 .. Len(s) : i # j => t[i] = s[i]
<1> DEFINE t == [s EXCEPT ![j] = v]
<1>1. Len(s) \in Nat /\ DOMAIN s = 1 .. Len(s)
  BY ListDomain
<1>2. t = [i \in 1 .. Len(s) |-> t[i]] /\ t[j] = v /\ \A i \in 1 .. Len(s) : i # j => t[i] = s[i]
  BY <1>1
<1> HIDE DEF t
<1>3. IsList(t) /\ Len(t) = Len(s)
  BY <1>1, <1>2, ListLen
<1> QED BY <1>2, <1>3 DEF t

\* A mark of a bitmap: an absent one marks nothing.
Marks(nulls, r) == nulls # << >> /\ nulls[r + 1]

\* The bitmap after a cell marks what it did before, and the cell if it is NULL.
LEMMA NullsFit ==
  ASSUME NEW c, Fitted(c), NEW v
  PROVE  /\ NullsAfter(c, v) \in Seq(BOOLEAN) /\ Len(NullsAfter(c, v)) \in {0, c.len + 1}
         /\ NullsAfter(c, v) # << >> <=> (v = NULL \/ c.hasNulls)
         /\ Marks(NullsAfter(c, v), c.len) <=> v = NULL
         /\ \A r \in 0 .. c.len - 1 : Marks(NullsAfter(c, v), r) <=> Marks(c.nulls, r)
<1> DEFINE n == NullsAfter(c, v)
<1>1. /\ c.len \in Nat /\ c.nulls \in Seq(BOOLEAN)
      /\ c.hasNulls = (c.nulls # << >>) /\ Len(c.nulls) \in {0, c.len}
      /\ c.nulls = << >> <=> Len(c.nulls) = 0
  BY EmptySeq DEF Fitted
<1>2. CASE v = NULL /\ c.nulls = << >>
  <2> DEFINE f == Falses(c.len)
  <2>1. n = Append(f, TRUE)
    BY <1>2 DEF NullsAfter
  <2>2. f = [i \in 1 .. c.len |-> f[i]] /\ \A i \in 1 .. c.len : f[i] = FALSE
    BY <1>1 DEF Falses
  <2>3. f \in Seq(BOOLEAN) /\ Len(f) = c.len
    BY <1>1, <2>2, ListLen, ListIsSeq
  <2> HIDE DEF f
  <2>4. /\ n \in Seq(BOOLEAN) /\ n # << >> /\ Len(n) = c.len + 1 /\ n[c.len + 1] = TRUE
        /\ \A i \in 1 .. c.len : n[i] = FALSE
    <3> DEFINE yes == TRUE
    <3>1. yes \in BOOLEAN /\ n = Append(f, yes)
      BY <2>1
    <3> HIDE DEF yes, n
    <3>2. /\ n \in Seq(BOOLEAN) /\ n # << >> /\ Len(n) = Len(f) + 1 /\ n[Len(f) + 1] = yes
          /\ \A i \in 1 .. Len(f) : n[i] = f[i]
      BY <2>3, <3>1, AppendProperties
    <3> QED BY <2>2, <2>3, <3>2 DEF yes
  <2> HIDE DEF n
  <2>5. \A r \in 0 .. c.len - 1 : ~Marks(n, r) /\ ~Marks(c.nulls, r)
    BY <1>1, <1>2, <2>4 DEF Marks
  <2> QED BY <1>2, <2>4, <2>5 DEF Marks, n
<1>3. CASE (v = NULL \/ c.hasNulls) /\ c.nulls # << >>
  <2>1. n = Append(c.nulls, v = NULL)
    BY <1>1, <1>3 DEF NullsAfter
  <2>2. Len(c.nulls) = c.len
    BY <1>1, <1>3
  <2>3. /\ n \in Seq(BOOLEAN) /\ n # << >> /\ Len(n) = c.len + 1 /\ n[c.len + 1] = (v = NULL)
        /\ \A i \in 1 .. c.len : n[i] = c.nulls[i]
    BY <1>1, <2>1, <2>2, AppendProperties
  <2> HIDE DEF n
  <2>4. \A r \in 0 .. c.len - 1 : Marks(n, r) <=> Marks(c.nulls, r)
    BY <1>1, <1>3, <2>3 DEF Marks
  <2>5. Marks(n, c.len) <=> v = NULL
    BY <2>3 DEF Marks
  <2> QED BY <1>3, <2>3, <2>4, <2>5 DEF n
<1>4. CASE v # NULL /\ c.nulls = << >>
  <2>1. n = c.nulls /\ ~c.hasNulls
    BY <1>1, <1>4 DEF NullsAfter
  <2> QED BY <1>1, <1>4, <2>1 DEF Marks
<1> QED BY <1>1, <1>2, <1>3, <1>4

LEMMA FittedAfter ==
  ASSUME NEW c, Fitted(c), NEW v
  PROVE  LET d == ColumnAfter(c, v)
         IN  /\ Fitted(d) /\ d.arr = c.arr /\ d.len = c.len + 1 /\ d.nulls = NullsAfter(c, v)
             /\ d.type = c.type
<1> DEFINE d == ColumnAfter(c, v)
           h == IF v = NULL THEN TRUE ELSE c.hasNulls
<1>1. /\ d.type = c.type /\ d.arr = c.arr /\ d.len = c.len + 1 /\ d.nulls = NullsAfter(c, v)
      /\ d.hasNulls = h
  <2>1. d = Column(c.type, c.arr, c.len + 1, NullsAfter(c, v), h)
    BY DEF ColumnAfter
  <2> HIDE DEF d, h
  <2> QED BY <2>1, ColumnFields
<1>2. d = [type |-> d.type, arr |-> d.arr, len |-> d.len, nulls |-> d.nulls, hasNulls |-> d.hasNulls]
  BY DEF ColumnAfter, Column
<1>3. /\ c.len + 1 \in Nat /\ NullsAfter(c, v) \in Seq(BOOLEAN)
      /\ Len(NullsAfter(c, v)) \in {0, c.len + 1} /\ h = (NullsAfter(c, v) # << >>)
  <2>1. c.len + 1 \in Nat
    BY DEF Fitted
  <2>2. /\ NullsAfter(c, v) \in Seq(BOOLEAN) /\ Len(NullsAfter(c, v)) \in {0, c.len + 1}
        /\ NullsAfter(c, v) # << >> <=> (v = NULL \/ c.hasNulls)
    BY NullsFit
  <2>3. c.hasNulls \in BOOLEAN
    BY DEF Fitted
  <2> QED BY <2>1, <2>2, <2>3
<1> HIDE DEF d, h
<1>4. Fitted(d)
  BY <1>1, <1>2, <1>3 DEF Fitted
<1> QED BY <1>1, <1>4 DEF d

LEMMA AppendSound ==
  ASSUME NEW b, Sound(b), NEW j \in 1 .. Len(b.cols), NEW v
  PROVE  LET x == AppendCell(b, j, v)
         IN  /\ Sound(x)
             /\ x.fields = b.fields /\ x.rows = b.rows /\ x.sel = b.sel
             /\ x.cols = [b.cols EXCEPT ![j] = ColumnAfter(b.cols[j], v)]
             /\ Len(x.cols) = Len(b.cols)
             /\ x.arrays = [b.arrays EXCEPT ![b.cols[j].arr] =
                              Put(b.arrays[b.cols[j].arr], b.cols[j].len, DataFor(b.cols[j], v))]
<1> DEFINE x == AppendCell(b, j, v)
           c == b.cols[j]
           d == ColumnAfter(c, v)
           a == b.arrays[c.arr]
           p == Put(a, c.len, DataFor(c, v))
<1>1. /\ x.fields = b.fields /\ x.rows = b.rows /\ x.sel = b.sel
      /\ x.cols = [b.cols EXCEPT ![j] = d]
      /\ x.arrays = [b.arrays EXCEPT ![c.arr] = p]
  BY AppendCellIs, BatchFields DEF BatchAfter
<1>2. x = [fields |-> x.fields, cols |-> x.cols, arrays |-> x.arrays, rows |-> x.rows, sel |-> x.sel]
  BY AppendCellIs, BatchFields DEF BatchAfter, BatchOf
<1>3. /\ Fitted(c) /\ c.arr \in DOMAIN b.arrays /\ Stores(a) /\ IsList(a) /\ c.len <= Len(a) /\ c.len \in Nat
      /\ IsList(b.cols) /\ IsList(b.fields) /\ Len(b.cols) = Len(b.fields) /\ Len(b.cols) > 0
      /\ b.rows \in Nat
  BY DEF Sound, Fitted, Stores
<1>4. Fitted(d) /\ d.arr = c.arr /\ d.len = c.len + 1
  BY <1>3, FittedAfter
<1>5. Stores(p) /\ IsList(p) /\ Len(a) <= Len(p) /\ c.len + 1 <= Len(p)
  <2>1. DataFor(c, v) # NULL
    BY PathAssumption DEF DataFor, ZeroOf
  <2> HIDE DEF c, a
  <2> QED BY <1>3, <2>1, PutIs, PutStores
<1>6. IsList(x.cols) /\ Len(x.cols) = Len(b.cols) /\ x.cols[j] = d
      /\ \A i \in 1 .. Len(b.cols) : i # j => x.cols[i] = b.cols[i]
  BY <1>1, <1>3, ListEdit
<1>7. DOMAIN x.arrays = DOMAIN b.arrays /\ x.arrays[c.arr] = p
      /\ \A i \in DOMAIN b.arrays : i # c.arr => x.arrays[i] = b.arrays[i]
  BY <1>1, <1>3
<1> HIDE DEF x, d, p, c
<1>8. ASSUME NEW i \in 1 .. Len(x.cols)
      PROVE  /\ Fitted(x.cols[i])
             /\ x.cols[i].arr \in DOMAIN x.arrays
             /\ Stores(x.arrays[x.cols[i].arr])
             /\ x.cols[i].len <= Len(x.arrays[x.cols[i].arr])
  <2>1. CASE i = j
    BY <1>3, <1>4, <1>5, <1>6, <1>7, <2>1
  <2>2. CASE i # j
    <3>1. /\ x.cols[i] = b.cols[i] /\ i \in 1 .. Len(b.cols)
      BY <1>6, <2>2
    <3>2. /\ Fitted(b.cols[i]) /\ b.cols[i].arr \in DOMAIN b.arrays
          /\ Stores(b.arrays[b.cols[i].arr])
          /\ b.cols[i].len <= Len(b.arrays[b.cols[i].arr]) /\ b.cols[i].len \in Nat
      BY <3>1 DEF Sound, Fitted
    <3>3. CASE b.cols[i].arr = c.arr
      <4>1. Len(a) \in Nat /\ Len(p) \in Nat /\ b.cols[i].len <= Len(a)
        BY <1>3, <1>5, <3>2, <3>3 DEF IsList
      <4>2. b.cols[i].len <= Len(p)
        BY <1>5, <3>2, <4>1
      <4> QED BY <1>5, <1>7, <3>1, <3>2, <3>3, <4>2
    <3>4. CASE b.cols[i].arr # c.arr
      BY <1>7, <3>1, <3>2, <3>4
    <3> QED BY <3>3, <3>4
  <2> QED BY <2>1, <2>2
<1>9. Sound(x)
  BY <1>1, <1>2, <1>3, <1>6, <1>8 DEF Sound
<1> QED BY <1>1, <1>6, <1>9 DEF x, d, p, c

LEMMA AppendKeeps ==
  ASSUME NEW b, Sound(b), NEW j \in 1 .. Len(b.cols), NEW v
  PROVE  LET x == AppendCell(b, j, v)
         IN  x.fields = b.fields /\ x.rows = b.rows /\ x.sel = b.sel /\ Len(x.cols) = Len(b.cols)
<1> DEFINE x == AppendCell(b, j, v)
           d == ColumnAfter(b.cols[j], v)
<1>1. x.fields = b.fields /\ x.rows = b.rows /\ x.sel = b.sel /\ x.cols = [b.cols EXCEPT ![j] = d]
  <2>1. x = BatchAfter(b, j, v)
    BY AppendCellIs
  <2> HIDE DEF x
  <2> QED BY <2>1, BatchFields DEF BatchAfter
<1>2. IsList(b.cols)
  BY DEF Sound
<1> HIDE DEF d
<1>3. Len([b.cols EXCEPT ![j] = d]) = Len(b.cols)
  BY <1>2, ListEdit
<1> QED BY <1>1, <1>3

LEMMA EmptyStores == Stores(<< >>)
BY EmptyList DEF Stores

LEMMA CellMarks ==
  ASSUME NEW b, NEW j, NEW r
  PROVE  CellAt(b, j, r) = IF Marks(b.cols[j].nulls, r) THEN NULL
                           ELSE b.arrays[b.cols[j].arr][r + 1]
BY DEF CellAt, IsNull, ValueAt, Marks

\* A cell that overwrites no other goes to its column only.
LEMMA AppendFilling ==
  ASSUME NEW b, NEW cols, Filling(b, cols), NEW j \in 1 .. Len(b.cols), NEW v,
         ~Overwrites(b, j, v)
  PROVE  Filling(AppendCell(b, j, v), [cols EXCEPT ![j] = Append(cols[j], v)])
<1> DEFINE x == AppendCell(b, j, v)
           more == [cols EXCEPT ![j] = Append(cols[j], v)]
           c == b.cols[j]
           d == ColumnAfter(c, v)
           a == b.arrays[c.arr]
           p == Put(a, c.len, DataFor(c, v))
<1>1. /\ Sound(b) /\ b.sel = NULL /\ IsList(b.cols) /\ IsList(cols) /\ Len(cols) = Len(b.cols)
      /\ \A i \in 1 .. Len(b.cols) :
           /\ IsList(cols[i]) /\ Len(cols[i]) = b.cols[i].len
           /\ \A r \in 0 .. b.cols[i].len - 1 : CellAt(b, i, r) = cols[i][r + 1]
  <2>1. Sound(b) /\ b.sel = NULL /\ Shows(b, cols) /\ IsList(b.cols)
    BY DEF Filling, Sound
  <2> HIDE DEF x, more, c, d, a, p
  <2>2. /\ IsList(cols) /\ Len(cols) = Len(b.cols)
        /\ \A i \in 1 .. Len(cols) :
             /\ IsList(cols[i]) /\ Len(cols[i]) = b.cols[i].len
             /\ \A r \in 0 .. b.cols[i].len - 1 : CellAt(b, i, r) = cols[i][r + 1]
    BY <2>1 DEF Shows
  <2> QED BY <2>1, <2>2
<1>2. /\ Sound(x) /\ x.sel = b.sel /\ x.cols = [b.cols EXCEPT ![j] = d] /\ Len(x.cols) = Len(b.cols)
      /\ x.arrays = [b.arrays EXCEPT ![c.arr] = p]
  <2>1. Sound(b)
    BY <1>1
  <2> HIDE DEF x, c, d, a, p
  <2>2. LET y == AppendCell(b, j, v)
        IN  /\ Sound(y)
            /\ y.fields = b.fields /\ y.rows = b.rows /\ y.sel = b.sel
            /\ y.cols = [b.cols EXCEPT ![j] = ColumnAfter(b.cols[j], v)]
            /\ Len(y.cols) = Len(b.cols)
            /\ y.arrays = [b.arrays EXCEPT ![b.cols[j].arr] =
                             Put(b.arrays[b.cols[j].arr], b.cols[j].len, DataFor(b.cols[j], v))]
    BY <2>1, AppendSound
  <2> QED BY <2>2 DEF x, c, d, a, p
<1>3. /\ Fitted(c) /\ c.arr \in DOMAIN b.arrays /\ Stores(a) /\ IsList(a) /\ c.len <= Len(a) /\ c.len \in Nat
  BY <1>1 DEF Sound, Fitted, Stores
<1>4. d.arr = c.arr /\ d.len = c.len + 1 /\ d.nulls = NullsAfter(c, v)
  BY <1>3, FittedAfter
<1>5. p[c.len + 1] = DataFor(c, v) /\ \A i \in 1 .. c.len : p[i] = a[i]
  <2> DEFINE w == DataFor(c, v)
  <2> HIDE DEF a, c, w
  <2>1. LET q == Put(a, c.len, w) IN q[c.len + 1] = w /\ \A i \in 1 .. c.len : q[i] = a[i]
    BY <1>3, PutIs
  <2> QED BY <2>1 DEF w
<1>6. /\ Marks(d.nulls, c.len) <=> v = NULL
      /\ \A r \in 0 .. c.len - 1 : Marks(d.nulls, r) <=> Marks(c.nulls, r)
  <2> HIDE DEF c, d
  <2> QED BY <1>3, <1>4, NullsFit
<1>7. DOMAIN x.cols = 1 .. Len(b.cols) /\ x.cols[j] = d
      /\ \A i \in 1 .. Len(b.cols) : i # j => x.cols[i] = b.cols[i]
  BY <1>1, <1>2, ListDomain
<1>8. x.arrays[c.arr] = p /\ \A i \in DOMAIN b.arrays : i # c.arr => x.arrays[i] = b.arrays[i]
  BY <1>2, <1>3
<1>9. IsList(more) /\ Len(more) = Len(cols) /\ more[j] = Append(cols[j], v)
      /\ \A i \in 1 .. Len(cols) : i # j => more[i] = cols[i]
  <2>1. IsList(cols) /\ j \in 1 .. Len(cols)
    BY <1>1
  <2> DEFINE w == Append(cols[j], v)
  <2> HIDE DEF w
  <2>2. LET m == [cols EXCEPT ![j] = w]
        IN  /\ IsList(m) /\ Len(m) = Len(cols) /\ m[j] = w
            /\ \A i \in 1 .. Len(cols) : i # j => m[i] = cols[i]
    BY <2>1, ListEdit
  <2> QED BY <2>2 DEF w
<1>10. /\ IsList(cols[j]) /\ Len(cols[j]) = c.len
       /\ \A r \in 0 .. c.len - 1 : CellAt(b, j, r) = cols[j][r + 1]
  BY <1>1
<1>11. /\ IsList(more[j]) /\ Len(more[j]) = c.len + 1 /\ more[j][c.len + 1] = v
       /\ \A i \in 1 .. c.len : more[j][i] = cols[j][i]
  BY <1>9, <1>10, AppendList
<1>12. \A i \in 1 .. Len(b.cols) : i # j /\ b.cols[i].arr = c.arr =>
         \A r \in 0 .. b.cols[i].len - 1 : CellAt(x, i, r) = CellAt(b, i, r)
  <2>1. DOMAIN b.cols = 1 .. Len(b.cols)
    BY <1>1, ListDomain
  <2> QED BY <2>1 DEF Overwrites
<1> HIDE DEF x, more, c, d, a, p
<1>13. ASSUME NEW r \in 0 .. d.len - 1 PROVE CellAt(x, j, r) = more[j][r + 1]
  <2>1. CellAt(x, j, r) = IF Marks(d.nulls, r) THEN NULL ELSE p[r + 1]
    BY <1>4, <1>7, <1>8, CellMarks
  <2>2. CASE r = c.len
    BY <1>5, <1>6, <1>11, <2>1, <2>2 DEF DataFor
  <2>3. CASE r # c.len
    <3>1. r \in 0 .. c.len - 1 /\ r + 1 \in 1 .. c.len
      BY <1>3, <1>4, <2>3
    <3>2. CellAt(b, j, r) = IF Marks(c.nulls, r) THEN NULL ELSE a[r + 1]
      BY CellMarks DEF c, a
    <3> QED BY <1>5, <1>6, <1>10, <1>11, <2>1, <3>1, <3>2
  <2> QED BY <2>2, <2>3
<1>14. ASSUME NEW i \in 1 .. Len(b.cols), i # j, NEW r \in 0 .. b.cols[i].len - 1
       PROVE  CellAt(x, i, r) = cols[i][r + 1]
  <2>1. x.cols[i] = b.cols[i] /\ b.cols[i].arr \in DOMAIN b.arrays
    BY <1>1, <1>7, <1>14 DEF Sound
  <2>2. CASE b.cols[i].arr # c.arr
    <3>1. CellAt(x, i, r) = CellAt(b, i, r)
      BY <1>8, <2>1, <2>2, CellMarks
    <3> QED BY <1>1, <3>1
  <2>3. CASE b.cols[i].arr = c.arr
    BY <1>1, <1>12, <1>14, <2>3
  <2> QED BY <2>2, <2>3
<1>15. Shows(x, more)
  <2>1. ASSUME NEW i \in 1 .. Len(more)
        PROVE  /\ IsList(more[i]) /\ Len(more[i]) = x.cols[i].len
               /\ \A r \in 0 .. x.cols[i].len - 1 : CellAt(x, i, r) = more[i][r + 1]
    <3>1. CASE i = j
      BY <1>4, <1>7, <1>11, <1>13, <3>1
    <3>2. CASE i # j
      <4>1. i \in 1 .. Len(b.cols) /\ x.cols[i] = b.cols[i] /\ more[i] = cols[i]
        BY <1>1, <1>7, <1>9, <3>2
      <4> QED BY <1>1, <1>14, <3>2, <4>1
    <3> QED BY <3>1, <3>2
  <2> QED BY <1>1, <1>2, <1>9, <2>1 DEF Shows
<1> QED BY <1>1, <1>2, <1>15 DEF Filling, x, more

\* Where no two columns have one array, no cell overwrites another.
LEMMA AppendOwn ==
  ASSUME NEW b, Sound(b), ~Shares(b), NEW j \in 1 .. Len(b.cols), NEW v
  PROVE  ~Overwrites(b, j, v) /\ ~Shares(AppendCell(b, j, v))
<1> DEFINE x == AppendCell(b, j, v)
           c == b.cols[j]
           d == ColumnAfter(c, v)
<1>1. IsList(b.cols) /\ DOMAIN b.cols = 1 .. Len(b.cols)
  BY ListDomain DEF Sound
<1>2. ~Overwrites(b, j, v)
  BY <1>1 DEF Shares, Overwrites
<1>3. Len(x.cols) = Len(b.cols) /\ x.cols = [b.cols EXCEPT ![j] = d]
  <2>1. Len(x.cols) = Len(b.cols)
    BY AppendKeeps
  <2>2. x = BatchAfter(b, j, v)
    BY AppendCellIs
  <2> HIDE DEF x
  <2> QED BY <2>1, <2>2, BatchFields DEF BatchAfter
<1>4. d.arr = c.arr
  <2>1. Fitted(c)
    BY DEF Sound
  <2> HIDE DEF c
  <2> QED BY <2>1, FittedAfter
<1> HIDE DEF x, d
<1>5. DOMAIN x.cols = 1 .. Len(b.cols) /\ \A i \in 1 .. Len(b.cols) : x.cols[i].arr = b.cols[i].arr
  BY <1>1, <1>3, <1>4
<1>6. ~Shares(x)
  BY <1>1, <1>5 DEF Shares
<1> QED BY <1>2, <1>6 DEF x

-----------------------------------------------------------------------------
(* New and reset batches. *)

NoCells(n) == [j \in 1 .. n |-> << >>]

LEMMA NoCellsList == ASSUME NEW n \in Nat PROVE IsList(NoCells(n)) /\ Len(NoCells(n)) = n
BY ListLen DEF NoCells

\* A column before its first cell.
Blank(t, a) == Column(t, a, 0, << >>, FALSE)

LEMMA FittedBlank ==
  ASSUME NEW t, NEW a
  PROVE  Fitted(Blank(t, a)) /\ Blank(t, a).arr = a /\ Blank(t, a).len = 0
<1> DEFINE h == FALSE
           c == Column(t, a, 0, << >>, h)
<1>1. c.type = t /\ c.arr = a /\ c.len = 0 /\ c.nulls = << >> /\ c.hasNulls = h
  <2> HIDE DEF h
  <2> QED BY ColumnFields
<1>2. c = [type |-> c.type, arr |-> c.arr, len |-> c.len, nulls |-> c.nulls, hasNulls |-> c.hasNulls]
  BY <1>1 DEF Column
<1>3. << >> \in Seq(BOOLEAN) /\ Len(<< >>) = 0
  OBVIOUS
<1>4. c = Blank(t, a) /\ h = (<< >> # << >>)
  BY DEF Blank
<1> HIDE DEF h, c
<1>5. c.hasNulls = (c.nulls # << >>)
  BY <1>1, <1>4
<1>6. c.len \in Nat /\ c.nulls \in Seq(BOOLEAN) /\ Len(c.nulls) \in {0, c.len}
  BY <1>1, <1>3
<1>7. Fitted(c)
  BY <1>2, <1>5, <1>6 DEF Fitted
<1> QED BY <1>1, <1>4, <1>7

\* A batch of which no column has anything shows nothing.
LEMMA ShowsNothing ==
  ASSUME NEW b, IsList(b.cols), \A j \in 1 .. Len(b.cols) : b.cols[j].len = 0
  PROVE  Shows(b, NoCells(Len(b.cols)))
<1> DEFINE n == Len(b.cols)
           cols == NoCells(n)
<1>1. n \in Nat /\ IsList(cols) /\ Len(cols) = n
  BY ListDomain, NoCellsList
<1>2. \A j \in 1 .. n : cols[j] = << >>
  BY DEF NoCells
<1> HIDE DEF cols
<1>3. ASSUME NEW j \in 1 .. Len(cols)
      PROVE  /\ IsList(cols[j]) /\ Len(cols[j]) = b.cols[j].len
             /\ \A r \in 0 .. b.cols[j].len - 1 : CellAt(b, j, r) = cols[j][r + 1]
  <2>1. j \in 1 .. n /\ cols[j] = << >> /\ b.cols[j].len = 0
    BY <1>1, <1>2
  <2> QED BY <2>1, EmptyList
<1>4. Shows(b, cols)
  BY <1>1, <1>3 DEF Shows
<1> QED BY <1>4 DEF cols

LEMMA NewBatchFilling ==
  ASSUME NEW types, IsList(types), Len(types) > 0
  PROVE  LET b == NewBatch(types)
         IN  /\ Filling(b, NoCells(Len(types))) /\ ~Shares(b)
             /\ b.fields = types /\ b.rows = 0 /\ Len(b.cols) = Len(types)
             /\ \A j \in 1 .. Len(types) : b.cols[j].len = 0
<1> DEFINE n == Len(types)
           b == NewBatch(types)
<1>1. n \in Nat /\ DOMAIN types = 1 .. n
  BY ListDomain
<1>2. /\ b = [fields |-> b.fields, cols |-> b.cols, arrays |-> b.arrays, rows |-> b.rows, sel |-> b.sel]
      /\ b.fields = types /\ b.rows = 0 /\ b.sel = NULL
      /\ b.cols = [j \in DOMAIN types |-> NewColumn(types[j], j)]
      /\ b.arrays = [j \in DOMAIN types |-> << >>]
  BY DEF NewBatch
<1> HIDE DEF b
<1>3. IsList(b.cols) /\ Len(b.cols) = n /\ DOMAIN b.cols = 1 .. n
  <2>1. b.cols = [j \in 1 .. n |-> b.cols[j]]
    BY <1>1, <1>2
  <2> QED BY <1>1, <2>1, ListLen
<1>4. \A j \in 1 .. n : /\ b.cols[j] = Blank(types[j], j)
                        /\ j \in DOMAIN b.arrays /\ b.arrays[j] = << >>
  BY <1>1, <1>2 DEF NewColumn, Column, Blank
<1>5. ASSUME NEW j \in 1 .. n
      PROVE  Fitted(b.cols[j]) /\ b.cols[j].arr = j /\ b.cols[j].len = 0
  BY <1>4, FittedBlank
<1>6. ASSUME NEW j \in 1 .. n
      PROVE  /\ Fitted(b.cols[j])
             /\ b.cols[j].arr \in DOMAIN b.arrays
             /\ Stores(b.arrays[b.cols[j].arr])
             /\ b.cols[j].len <= Len(b.arrays[b.cols[j].arr])
  <2>1. 0 <= 0
    OBVIOUS
  <2> QED BY <1>4, <1>5, <2>1, EmptyList, EmptyStores
<1>7. Sound(b)
  BY <1>1, <1>2, <1>3, <1>6 DEF Sound
<1>8. ~Shares(b)
  BY <1>3, <1>5 DEF Shares
<1>9. Shows(b, NoCells(n))
  BY <1>3, <1>5, ShowsNothing
<1> QED BY <1>2, <1>3, <1>5, <1>7, <1>8, <1>9 DEF Filling, b

LEMMA ResetSound ==
  ASSUME NEW b, Sound(b)
  PROVE  LET x == ResetBatch(b)
         IN  /\ Sound(x) /\ x.sel = NULL /\ x.rows = 0 /\ x.fields = b.fields
             /\ Len(x.cols) = Len(b.cols)
             /\ \A j \in 1 .. Len(b.cols) : x.cols[j].len = 0
             /\ Filling(x, NoCells(Len(b.cols)))
<1> DEFINE n == Len(b.cols)
           x == ResetBatch(b)
           emptied(c) == [c EXCEPT !.len = 0, !.nulls = << >>, !.hasNulls = FALSE]
           cols == [j \in DOMAIN b.cols |-> emptied(b.cols[j])]
<1>1. /\ IsBatch(b) /\ IsList(b.fields) /\ IsList(b.cols) /\ n = Len(b.fields) /\ n > 0
      /\ n \in Nat /\ DOMAIN b.cols = 1 .. n
  BY ListDomain DEF Sound, IsBatch, BatchOf
<1>2. x = BatchOf(b.fields, cols, b.arrays, 0, NULL)
  <2>1. x = [[[b EXCEPT !.cols = cols] EXCEPT !.rows = 0] EXCEPT !.sel = NULL]
    BY DEF ResetBatch
  <2> HIDE DEF cols
  <2>2. [BatchOf(b.fields, b.cols, b.arrays, b.rows, b.sel) EXCEPT !.cols = cols]
          = BatchOf(b.fields, cols, b.arrays, b.rows, b.sel)
    BY DEF BatchOf
  <2>3. [BatchOf(b.fields, cols, b.arrays, b.rows, b.sel) EXCEPT !.rows = 0]
          = BatchOf(b.fields, cols, b.arrays, 0, b.sel)
    BY DEF BatchOf
  <2>4. [BatchOf(b.fields, cols, b.arrays, 0, b.sel) EXCEPT !.sel = NULL]
          = BatchOf(b.fields, cols, b.arrays, 0, NULL)
    BY DEF BatchOf
  <2> QED BY <1>1, <2>1, <2>2, <2>3, <2>4 DEF IsBatch
<1>3. ASSUME NEW j \in 1 .. n
      PROVE  /\ cols[j] = Blank(b.cols[j].type, b.cols[j].arr)
             /\ b.cols[j].arr \in DOMAIN b.arrays /\ Stores(b.arrays[b.cols[j].arr])
  <2> DEFINE c == b.cols[j]
             h == FALSE
  <2>1. IsColumn(c) /\ c.arr \in DOMAIN b.arrays /\ Stores(b.arrays[c.arr])
    BY DEF Sound, Fitted, IsColumn, Column
  <2>2. cols[j] = [[[c EXCEPT !.len = 0] EXCEPT !.nulls = << >>] EXCEPT !.hasNulls = h]
    BY <1>1
  <2> HIDE DEF c, h
  <2>3. [Column(c.type, c.arr, c.len, c.nulls, c.hasNulls) EXCEPT !.len = 0]
          = Column(c.type, c.arr, 0, c.nulls, c.hasNulls)
    BY DEF Column
  <2>4. [Column(c.type, c.arr, 0, c.nulls, c.hasNulls) EXCEPT !.nulls = << >>]
          = Column(c.type, c.arr, 0, << >>, c.hasNulls)
    BY DEF Column
  <2>5. [Column(c.type, c.arr, 0, << >>, c.hasNulls) EXCEPT !.hasNulls = h]
          = Column(c.type, c.arr, 0, << >>, h)
    BY DEF Column
  <2> QED BY <2>1, <2>2, <2>3, <2>4, <2>5 DEF IsColumn, Blank, c, h
<1>4. IsList(cols) /\ Len(cols) = n /\ DOMAIN cols = 1 .. n
  <2>1. cols = [j \in 1 .. n |-> cols[j]]
    BY <1>1
  <2> HIDE DEF cols
  <2> QED BY <1>1, <2>1, ListLen
<1> HIDE DEF cols
<1>5. /\ x.fields = b.fields /\ x.cols = cols /\ x.arrays = b.arrays /\ x.rows = 0 /\ x.sel = NULL
      /\ x = [fields |-> x.fields, cols |-> x.cols, arrays |-> x.arrays, rows |-> x.rows, sel |-> x.sel]
  BY <1>2, BatchFields DEF BatchOf
<1> HIDE DEF x
<1>6. ASSUME NEW j \in 1 .. n
      PROVE  /\ Fitted(cols[j])
             /\ cols[j].arr = b.cols[j].arr /\ cols[j].arr \in DOMAIN b.arrays
             /\ Stores(b.arrays[cols[j].arr])
             /\ cols[j].len = 0 /\ cols[j].len <= Len(b.arrays[cols[j].arr])
  <2>1. Fitted(cols[j]) /\ cols[j].arr = b.cols[j].arr /\ cols[j].len = 0
    BY <1>3, FittedBlank
  <2>2. Len(b.arrays[b.cols[j].arr]) \in Nat
    BY <1>3, ListDomain
  <2> QED BY <1>3, <2>1, <2>2
<1>7. Sound(x)
  BY <1>1, <1>4, <1>5, <1>6 DEF Sound
<1>8. Filling(x, NoCells(n))
  <2>1. Shows(x, NoCells(n))
    BY <1>4, <1>5, <1>6, ShowsNothing
  <2> QED BY <1>5, <1>7, <2>1 DEF Filling
<1> QED BY <1>4, <1>5, <1>6, <1>7, <1>8 DEF x

-----------------------------------------------------------------------------
(* Rows picked.  Which ones depends on the flags only.                      *)

Picks == INSTANCE FoldLemmas WITH Step <- PickRow, Holds <- IsList

LEMMA PickedFold ==
  ASSUME NEW q PROVE FoldLeft(PickRow, << >>, q) = Picks!FoldOf(<< >>, q)
BY DEF Picks!FoldOf, Picks!Latest, FoldLeft, MapThenFoldSet, Max

Numbered(q, n) == [k \in 1 .. n |-> [row |-> k, keep |-> q[k].keep]]

\* The places of the n rows of q that are kept.
Places(q, n) == Picks!FoldOf(<< >>, Numbered(q, n))

Increasing(s) == \A l, m \in 1 .. Len(s) : l < m => s[l] < s[m]

\* p are the places of the rows picked so far, of the first k of q.
PickedAt(q, k, p, picked) ==
  /\ p \in Seq(1 .. k) /\ Increasing(p)
  /\ IsList(picked) /\ Len(picked) = Len(p)
  /\ \A m \in 1 .. Len(p) : picked[m] = q[p[m]].row
  /\ (\A i \in 1 .. k : q[i].keep) => Len(p) = k /\ \A i \in 1 .. k : p[i] = i

LEMMA PickedNext ==
  ASSUME NEW q, NEW k \in Nat \ {0}, NEW p, NEW s, PickedAt(q, k - 1, p, s)
  PROVE  PickedAt(q, k, PickRow(p, [row |-> k, keep |-> q[k].keep]), PickRow(s, q[k]))
<1>1. /\ p \in Seq(1 .. k - 1) /\ Increasing(p) /\ Len(p) \in Nat
      /\ IsList(s) /\ Len(s) = Len(p)
      /\ \A m \in 1 .. Len(p) : s[m] = q[p[m]].row
      /\ (\A i \in 1 .. k - 1 : q[i].keep) => Len(p) = k - 1 /\ \A i \in 1 .. k - 1 : p[i] = i
  BY DEF PickedAt
<1>2. 1 .. k - 1 \subseteq 1 .. k /\ k \in 1 .. k
  OBVIOUS
<1>3. p \in Seq(1 .. k)
  BY <1>1, <1>2
<1>4. CASE q[k].keep
  <2> DEFINE p2 == Append(p, k)
             s2 == Append(s, q[k].row)
  <2>1. PickRow(p, [row |-> k, keep |-> q[k].keep]) = p2 /\ PickRow(s, q[k]) = s2
    BY <1>4 DEF PickRow
  <2>2. /\ p2 \in Seq(1 .. k) /\ Len(p2) = Len(p) + 1 /\ p2[Len(p) + 1] = k
        /\ \A m \in 1 .. Len(p) : p2[m] = p[m]
    BY <1>2, <1>3, AppendProperties
  <2>3. /\ IsList(s2) /\ Len(s2) = Len(p) + 1 /\ s2[Len(p) + 1] = q[k].row
        /\ \A m \in 1 .. Len(p) : s2[m] = s[m]
    BY <1>1, AppendList
  <2> HIDE DEF p2, s2
  <2>4. Increasing(p2)
    <3> SUFFICES ASSUME NEW l \in 1 .. Len(p2), NEW m \in 1 .. Len(p2), l < m PROVE p2[l] < p2[m]
      BY DEF Increasing
    <3>1. l \in 1 .. Len(p) /\ p2[l] = p[l] /\ p[l] \in 1 .. k - 1
      BY <1>1, <2>2
    <3>2. CASE m = Len(p) + 1
      BY <2>2, <3>1, <3>2
    <3>3. CASE m # Len(p) + 1
      <4>1. m \in 1 .. Len(p)
        <5>1. Len(p) \in Nat /\ Len(p2) = Len(p) + 1
          BY <1>1, <2>2
        <5> QED BY <3>3, <5>1
      <4> QED BY <1>1, <2>2, <3>1, <4>1 DEF Increasing
    <3> QED BY <3>2, <3>3
  <2>5. ASSUME NEW m \in 1 .. Len(p2) PROVE s2[m] = q[p2[m]].row
    <3>1. Len(p) \in Nat /\ Len(p2) = Len(p) + 1
      BY <1>1, <2>2
    <3>2. CASE m = Len(p) + 1
      BY <2>2, <2>3, <3>2
    <3>3. CASE m # Len(p) + 1
      <4>1. m \in 1 .. Len(p)
        BY <3>1, <3>3
      <4> QED BY <1>1, <2>2, <2>3, <4>1
    <3> QED BY <3>2, <3>3
  <2>6. ASSUME \A i \in 1 .. k : q[i].keep
        PROVE  Len(p2) = k /\ \A i \in 1 .. k : p2[i] = i
    BY <1>1, <1>2, <2>2, <2>6
  <2> QED BY <2>1, <2>2, <2>3, <2>4, <2>5, <2>6 DEF PickedAt
<1>5. CASE ~q[k].keep
  <2>1. PickRow(p, [row |-> k, keep |-> q[k].keep]) = p /\ PickRow(s, q[k]) = s
    BY <1>5 DEF PickRow
  <2> QED BY <1>1, <1>2, <1>3, <1>5, <2>1 DEF PickedAt
<1> QED BY <1>4, <1>5

LEMMA PickedPlaces ==
  ASSUME NEW q, NEW n \in Nat, DOMAIN q = 1 .. n
  PROVE  PickedAt(q, n, Places(q, n), FoldLeft(PickRow, << >>, q))
<1>1. PICK s : Picks!Trace(s, << >>, q, n) /\ Picks!FoldOf(<< >>, q) = s[n]
  BY Picks!FoldSteps
<1>2. PICK p : Picks!Trace(p, << >>, Numbered(q, n), n) /\ Places(q, n) = p[n]
  <2>1. DOMAIN Numbered(q, n) = 1 .. n
    BY DEF Numbered
  <2> QED BY <2>1, Picks!FoldSteps DEF Places
<1> DEFINE S == {k \in 0 .. n : PickedAt(q, k, p[k], s[k])}
<1>3. 0 \in S
  <2>1. p[0] = << >> /\ s[0] = << >>
    BY <1>1, <1>2 DEF Picks!Trace
  <2>2. PickedAt(q, 0, << >>, << >>)
    BY EmptyList DEF PickedAt, Increasing
  <2> QED BY <2>1, <2>2
<1>4. ASSUME NEW k \in 1 .. n, k - 1 \in S PROVE k \in S
  <2>1. s[k] = PickRow(s[k - 1], q[k])
    BY <1>1 DEF Picks!Trace
  <2>2. p[k] = PickRow(p[k - 1], [row |-> k, keep |-> q[k].keep])
    BY <1>2 DEF Picks!Trace, Numbered
  <2>3. k \in Nat \ {0} /\ k \in 0 .. n /\ PickedAt(q, k - 1, p[k - 1], s[k - 1])
    BY <1>4
  <2> QED BY <2>1, <2>2, <2>3, PickedNext
<1>5. 0 .. n \subseteq S
  <2> HIDE DEF S
  <2> QED BY <1>3, <1>4, Picks!UpTo
<1>6. n \in S
  BY <1>5
<1> QED BY <1>1, <1>2, <1>6, PickedFold

LEMMA SamePlaces ==
  ASSUME NEW q, NEW r, NEW n, \A k \in 1 .. n : q[k].keep = r[k].keep
  PROVE  Places(q, n) = Places(r, n)
<1>1. Numbered(q, n) = Numbered(r, n)
  BY DEF Numbered
<1> QED BY <1>1 DEF Places

-----------------------------------------------------------------------------
(* A chunk unboxed.                                                         *)

Entries == INSTANCE FoldLemmas WITH Step <- AppendEntry, Holds <- Sound
Columns == INSTANCE FoldLemmas WITH Step <- AppendEntries, Holds <- Sound

LEMMA EntriesFold ==
  ASSUME NEW b, NEW q PROVE AppendEntries(b, q) = Entries!FoldOf(b, q)
BY DEF AppendEntries, Entries!FoldOf, Entries!Latest, FoldLeft, MapThenFoldSet, Max

LEMMA ColumnsFold ==
  ASSUME NEW b, NEW q PROVE FoldLeft(AppendEntries, b, q) = Columns!FoldOf(b, q)
BY DEF Columns!FoldOf, Columns!Latest, FoldLeft, MapThenFoldSet, Max

Prefix(s, k) == [i \in 1 .. k |-> s[i]]

LEMMA PrefixNext ==
  ASSUME NEW s, NEW k \in Nat \ {0}
  PROVE  Append(Prefix(s, k - 1), s[k]) = Prefix(s, k) /\ IsList(Prefix(s, k - 1))
<1> DEFINE p == Prefix(s, k - 1)
           t == Prefix(s, k)
<1>1. IsList(p) /\ Len(p) = k - 1 /\ IsList(t) /\ Len(t) = k
  BY ListLen DEF Prefix
<1>2. (\A i \in 1 .. k - 1 : p[i] = s[i]) /\ \A i \in 1 .. k : t[i] = s[i]
  BY DEF Prefix
<1> HIDE DEF p, t
<1>3. /\ IsList(Append(p, s[k])) /\ Len(Append(p, s[k])) = k /\ Append(p, s[k])[k] = s[k]
      /\ \A i \in 1 .. k - 1 : Append(p, s[k])[i] = p[i]
  BY <1>1, AppendList
<1>4. \A i \in 1 .. k : Append(p, s[k])[i] = t[i]
  BY <1>2, <1>3
<1>5. Append(p, s[k]) = t
  BY <1>1, <1>3, <1>4, SameList
<1> QED BY <1>1, <1>5 DEF p, t

\* x is b with its columns filled further, to cols.
Grown(b, x, cols) ==
  /\ Filling(x, cols) /\ ~Shares(x)
  /\ x.fields = b.fields /\ x.rows = b.rows /\ Len(x.cols) = Len(b.cols)

Tagged(cells, j) == [n \in DOMAIN cells |-> [col |-> j, value |-> cells[n]]]

LEMMA ColumnFilled ==
  ASSUME NEW b, NEW cols, Filling(b, cols), ~Shares(b), NEW j \in 1 .. Len(b.cols),
         cols[j] = << >>,
         NEW cells, IsList(cells)
  PROVE  Grown(b, AppendEntries(b, Tagged(cells, j)), [cols EXCEPT ![j] = cells])
<1> DEFINE n == Len(cells)
           q == Tagged(cells, j)
           at(k) == [cols EXCEPT ![j] = Prefix(cells, k)]
<1>1. n \in Nat /\ DOMAIN q = 1 .. n /\ DOMAIN cells = 1 .. n
  BY ListDomain DEF Tagged
<1>2. PICK h : Entries!Trace(h, b, q, n) /\ Entries!FoldOf(b, q) = h[n]
  BY <1>1, Entries!FoldSteps
<1>3. IsList(cols) /\ Len(cols) = Len(b.cols) /\ DOMAIN cols = 1 .. Len(b.cols)
  BY ListDomain DEF Filling, Shows
<1> DEFINE S == {k \in 0 .. n : Grown(b, h[k], at(k))}
<1>4. 0 \in S
  <2>1. h[0] = b
    BY <1>2 DEF Entries!Trace
  <2>2. Prefix(cells, 0) = << >>
    BY DEF Prefix
  <2>3. at(0) = cols
    BY <1>3, <2>2 DEF IsList
  <2> QED BY <1>1, <2>1, <2>3 DEF Grown
<1>5. ASSUME NEW k \in 1 .. n, k - 1 \in S PROVE k \in S
  <2> DEFINE x == h[k - 1]
  <2>1. h[k] = AppendEntry(x, q[k])
    BY <1>2 DEF Entries!Trace
  <2>2. q[k].col = j /\ q[k].value = cells[k]
    BY <1>1 DEF Tagged
  <2>3. Grown(b, x, at(k - 1))
    BY <1>5
  <2>4. h[k] = AppendCell(x, j, cells[k])
    BY <2>1, <2>2 DEF AppendEntry
  <2> DEFINE before == at(k - 1)
  <2>5. k \in Nat \ {0} /\ k \in 0 .. n
    BY <1>1
  <2>6. before[j] = Prefix(cells, k - 1) /\ \A w : [before EXCEPT ![j] = w] = [cols EXCEPT ![j] = w]
    BY <1>3
  <2>7. [before EXCEPT ![j] = Append(before[j], cells[k])] = at(k)
    <3>1. Append(before[j], cells[k]) = Prefix(cells, k)
      BY <2>5, <2>6, PrefixNext
    <3> HIDE DEF before
    <3> QED BY <2>6, <3>1
  <2> HIDE DEF before, x
  <2>8. Filling(x, before) /\ ~Shares(x) /\ j \in 1 .. Len(x.cols)
    BY <2>3 DEF Grown, before
  <2>9. Filling(h[k], [before EXCEPT ![j] = Append(before[j], cells[k])])
    <3> DEFINE w == cells[k]
    <3> HIDE DEF w
    <3>1. Sound(x)
      BY <2>8 DEF Filling
    <3>2. ~Overwrites(x, j, w)
      BY <2>8, <3>1, AppendOwn
    <3>3. Filling(AppendCell(x, j, w), [before EXCEPT ![j] = Append(before[j], w)])
      BY <2>8, <3>2, AppendFilling
    <3> QED BY <2>4, <3>3 DEF w
  <2>10. /\ h[k].fields = x.fields /\ h[k].rows = x.rows /\ Len(h[k].cols) = Len(x.cols)
         /\ ~Shares(h[k])
    <3> DEFINE w == cells[k]
    <3>1. Sound(x)
      BY <2>8 DEF Filling
    <3> HIDE DEF w
    <3>2. LET y == AppendCell(x, j, w)
          IN  y.fields = x.fields /\ y.rows = x.rows /\ Len(y.cols) = Len(x.cols)
      BY <2>8, <3>1, AppendKeeps
    <3>3. ~Shares(AppendCell(x, j, w))
      BY <2>8, <3>1, AppendOwn
    <3> QED BY <2>4, <3>2, <3>3 DEF w
  <2>11. Grown(b, h[k], at(k))
    BY <2>3, <2>7, <2>9, <2>10 DEF Grown
  <2> QED BY <2>5, <2>11
<1>6. 0 .. n \subseteq S
  <2> HIDE DEF S
  <2> QED BY <1>1, <1>4, <1>5, Entries!UpTo
<1>7. Grown(b, h[n], at(n))
  <2>1. n \in S
    <3> HIDE DEF S
    <3> QED BY <1>1, <1>6
  <2> QED BY <2>1
<1>8. Prefix(cells, n) = cells
  BY <1>1 DEF Prefix, IsList
<1> QED BY <1>2, <1>7, <1>8, EntriesFold

\* A chunk of n rows.
ChunkOf(k, n) ==
  /\ IsList(k.fields) /\ IsList(k.cols) /\ Len(k.cols) = Len(k.fields) /\ Len(k.fields) > 0
  /\ \A j \in 1 .. Len(k.cols) : IsList(k.cols[j]) /\ Len(k.cols[j]) = n

LEMMA RowsSound ==
  ASSUME NEW b, Sound(b), NEW n \in Nat
  PROVE  LET x == [b EXCEPT !.rows = n]
         IN  /\ Sound(x) /\ x.fields = b.fields /\ x.cols = b.cols /\ x.arrays = b.arrays
             /\ x.rows = n /\ x.sel = b.sel
<1> DEFINE x == [b EXCEPT !.rows = n]
<1>1. b = BatchOf(b.fields, b.cols, b.arrays, b.rows, b.sel)
  BY DEF Sound, BatchOf
<1>2. [BatchOf(b.fields, b.cols, b.arrays, b.rows, b.sel) EXCEPT !.rows = n]
        = BatchOf(b.fields, b.cols, b.arrays, n, b.sel)
  BY DEF BatchOf
<1>3. x = BatchOf(b.fields, b.cols, b.arrays, n, b.sel)
  BY <1>1, <1>2
<1> HIDE DEF x
<1>4. /\ x.fields = b.fields /\ x.cols = b.cols /\ x.arrays = b.arrays /\ x.rows = n /\ x.sel = b.sel
      /\ x = [fields |-> x.fields, cols |-> x.cols, arrays |-> x.arrays, rows |-> x.rows, sel |-> x.sel]
  BY <1>3, BatchFields DEF BatchOf
<1>5. Sound(x)
  BY <1>4 DEF Sound
<1> QED BY <1>4, <1>5 DEF x

\* Rows do not show in what is filled.
LEMMA RowsSet ==
  ASSUME NEW b, NEW cols, Filling(b, cols), NEW n \in Nat
  PROVE  LET x == [b EXCEPT !.rows = n]
         IN  /\ Filling(x, cols) /\ x.fields = b.fields /\ x.rows = n /\ x.cols = b.cols
             /\ x.sel = NULL
<1> DEFINE x == [b EXCEPT !.rows = n]
<1>1. /\ Sound(x) /\ x.fields = b.fields /\ x.cols = b.cols /\ x.arrays = b.arrays
      /\ x.rows = n /\ x.sel = b.sel
  BY RowsSound DEF Filling
<1> HIDE DEF x
<1>2. Shows(x, cols)
  <2>1. \A j, r : CellAt(x, j, r) = CellAt(b, j, r)
    BY <1>1, CellMarks
  <2> QED BY <1>1, <2>1 DEF Filling, Shows
<1> QED BY <1>1, <1>2 DEF Filling, x

LEMMA Unboxed ==
  ASSUME NEW k, NEW n, ChunkOf(k, n)
  PROVE  LET b == FromChunk(k)
         IN  /\ Filling(b, k.cols) /\ b.fields = k.fields /\ b.rows = n
             /\ Len(b.cols) = Len(k.cols)
<1> DEFINE w == Len(k.fields)
           new == NewBatch(k.fields)
           column(j) == [i \in DOMAIN k.cols[j] |-> [col |-> j, value |-> k.cols[j][i]]]
           q == [j \in DOMAIN k.fields |-> column(j)]
           upTo(i) == [j \in 1 .. w |-> IF j <= i THEN k.cols[j] ELSE << >>]
<1>1. /\ w \in Nat /\ w > 0 /\ DOMAIN k.fields = 1 .. w /\ DOMAIN k.cols = 1 .. w /\ Len(k.cols) = w
      /\ n \in Nat /\ \A j \in 1 .. w : IsList(k.cols[j]) /\ Len(k.cols[j]) = n
  BY ListDomain DEF ChunkOf
<1>2. \A j \in 1 .. w : q[j] = Tagged(k.cols[j], j)
  BY <1>1 DEF Tagged
<1>3. DOMAIN q = 1 .. w
  BY <1>1
<1>4. /\ Filling(new, NoCells(w)) /\ ~Shares(new) /\ new.fields = k.fields /\ new.rows = 0 /\ Len(new.cols) = w
  BY <1>1, NewBatchFilling DEF ChunkOf
<1> HIDE DEF q, new
<1>5. PICK h : Columns!Trace(h, new, q, w) /\ Columns!FoldOf(new, q) = h[w]
  BY <1>1, <1>3, Columns!FoldSteps
<1> DEFINE S == {i \in 0 .. w : Grown(new, h[i], upTo(i))}
<1>6. 0 \in S
  <2>1. h[0] = new
    BY <1>5 DEF Columns!Trace
  <2>2. upTo(0) = NoCells(w)
    BY DEF NoCells
  <2> QED BY <1>1, <1>4, <2>1, <2>2 DEF Grown
<1>7. ASSUME NEW i \in 1 .. w, i - 1 \in S PROVE i \in S
  <2> DEFINE x == h[i - 1]
             before == upTo(i - 1)
  <2>1. h[i] = AppendEntries(x, Tagged(k.cols[i], i))
    BY <1>2, <1>5 DEF Columns!Trace
  <2>2. Grown(new, x, before) /\ i \in 0 .. w
    BY <1>1, <1>7
  <2>3. before[i] = << >>
    BY <1>1
  <2>4. [before EXCEPT ![i] = k.cols[i]] = upTo(i)
    <3>1. \A j \in 1 .. w : j <= i <=> j = i \/ j <= i - 1
      BY <1>1
    <3> QED BY <3>1
  <2>5. IsList(k.cols[i])
    BY <1>1
  <2> HIDE DEF x, before
  <2>6. Filling(x, before) /\ ~Shares(x) /\ i \in 1 .. Len(x.cols)
    BY <1>4, <2>2 DEF Grown
  <2>7. Grown(x, h[i], upTo(i))
    BY <2>1, <2>3, <2>4, <2>5, <2>6, ColumnFilled
  <2>8. Grown(new, h[i], upTo(i))
    BY <2>2, <2>7 DEF Grown
  <2> QED BY <2>2, <2>8
<1>8. 0 .. w \subseteq S
  <2> HIDE DEF S
  <2> QED BY <1>1, <1>6, <1>7, Columns!UpTo
<1>9. Grown(new, h[w], upTo(w))
  <2>1. w \in S
    <3> HIDE DEF S
    <3> QED BY <1>1, <1>8
  <2> QED BY <2>1
<1>10. upTo(w) = k.cols
  BY <1>1 DEF ChunkOf, IsList
<1>11. FoldLeft(AppendEntries, new, q) = h[w] /\ Filling(h[w], k.cols)
       /\ h[w].fields = k.fields /\ Len(h[w].cols) = w
  BY <1>4, <1>5, <1>9, <1>10, ColumnsFold DEF Grown
<1>12. NumRows(k) = n
  BY <1>1 DEF NumRows, ChunkOf
<1>13. FromChunk(k) = [h[w] EXCEPT !.rows = n]
  BY <1>11, <1>12 DEF FromChunk, q, new
<1> QED BY <1>1, <1>11, <1>13, RowsSet

-----------------------------------------------------------------------------
(* The rows a batch shows.                                                  *)

LEMMA DenseList ==
  ASSUME NEW n \in Nat
  PROVE  /\ Dense(n) \in Seq(0 .. n - 1) /\ Len(Dense(n)) = n
         /\ \A i \in 1 .. n : Dense(n)[i] = i - 1
<1>1. Dense(n) = [i \in 1 .. n |-> Dense(n)[i]] /\ \A i \in 1 .. n : Dense(n)[i] = i - 1
  BY DEF Dense
<1>2. IsList(Dense(n)) /\ Len(Dense(n)) = n
  BY <1>1, ListLen
<1>3. \A i \in 1 .. n : Dense(n)[i] \in 0 .. n - 1
  BY <1>1
<1> QED BY <1>1, <1>2, <1>3, ListIsSeq

\* As many rows as there are, in order, are all of them.
LEMMA AllRows ==
  ASSUME NEW n \in Nat, NEW s \in Seq(0 .. n - 1), Increasing(s), Len(s) = n
  PROVE  s = Dense(n)
<1>1. \A i \in 1 .. n : s[i] \in 0 .. n - 1
  OBVIOUS
<1> DEFINE Low == {k \in 0 .. n : k > 0 => s[k] >= k - 1}
           High == {k \in 0 .. n : k < n => s[n - k] <= n - k - 1}
<1>2. 0 .. n \subseteq Low
  <2>1. 0 \in Low
    OBVIOUS
  <2>2. ASSUME NEW k \in 1 .. n, k - 1 \in Low PROVE k \in Low
    <3>1. CASE k = 1
      BY <1>1, <3>1
    <3>2. CASE k # 1
      <4>1. k - 1 \in 1 .. n /\ k - 1 < k
        BY <3>2
      <4>2. s[k - 1] < s[k] /\ s[k - 1] \in Int /\ s[k] \in Int
        BY <1>1, <4>1 DEF Increasing
      <4> QED BY <2>2, <4>1, <4>2
    <3> QED BY <3>1, <3>2
  <2> HIDE DEF Low
  <2> QED BY <2>1, <2>2, Picks!UpTo
<1>3. 0 .. n \subseteq High
  <2>1. 0 \in High
    BY <1>1
  <2>2. ASSUME NEW k \in 1 .. n, k - 1 \in High PROVE k \in High
    <3> SUFFICES ASSUME k < n PROVE s[n - k] <= n - k - 1
      OBVIOUS
    <3>1. n - k \in 1 .. n /\ n - (k - 1) \in 1 .. n /\ n - k < n - (k - 1)
      OBVIOUS
    <3>2. s[n - k] < s[n - (k - 1)] /\ s[n - k] \in Int /\ s[n - (k - 1)] \in Int
      BY <1>1, <3>1 DEF Increasing
    <3>3. s[n - (k - 1)] <= n - (k - 1) - 1
      BY <2>2
    <3> QED BY <3>2, <3>3
  <2> HIDE DEF High
  <2> QED BY <2>1, <2>2, Picks!UpTo
<1>4. ASSUME NEW i \in 1 .. n PROVE s[i] = i - 1
  <2>1. s[i] >= i - 1
    <3>1. i \in Low
      BY <1>2
    <3> QED BY <3>1
  <2>2. s[i] <= i - 1
    <3>1. n - i \in High
      <4>1. n - i \in 0 .. n
        OBVIOUS
      <4> HIDE DEF High
      <4> QED BY <1>3, <4>1
    <3>2. n - i < n /\ n - (n - i) = i
      OBVIOUS
    <3> QED BY <3>1, <3>2
  <2>3. s[i] \in Int
    BY <1>1
  <2> QED BY <2>1, <2>2, <2>3
<1> QED BY <1>4, DenseList, ListOfSeq, SameList

LEMMA SelectsRows ==
  ASSUME NEW b, Sound(b), Selects(b)
  PROVE  /\ RowsOf(b) \in Seq(0 .. b.rows - 1)
         /\ LenOf(b) = Len(RowsOf(b)) /\ LenOf(b) \in Nat /\ b.rows \in Nat
<1>1. b.rows \in Nat /\ RowsOf(b) \in Seq(0 .. b.rows - 1)
  BY DEF Sound, Selects
<1>2. LenOf(b) = Len(RowsOf(b))
  BY <1>1, DenseList DEF LenOf, RowsOf
<1> QED BY <1>1, <1>2

LEMMA ShowsRow ==
  ASSUME NEW b, b.rows \in Nat, NEW n \in 1 .. LenOf(b) PROVE RowAt(b, n) = RowsOf(b)[n]
BY DenseList DEF RowAt, RowsOf, LenOf

LEMMA ToChunkShown ==
  ASSUME NEW b, Sound(b), Selects(b)
  PROVE  ToChunk(b) = [fields |-> b.fields, cols |-> Shown(b)]
<1>1. \A n \in 1 .. LenOf(b) : RowAt(b, n) = RowsOf(b)[n]
  BY SelectsRows, ShowsRow
<1>2. DOMAIN b.cols = 1 .. Len(b.cols)
  BY ListDomain DEF Sound
<1>3. Shown(b) = [j \in DOMAIN b.cols |-> [n \in 1 .. LenOf(b) |-> CellAt(b, j, RowAt(b, n))]]
  BY <1>1, <1>2 DEF Shown
<1> QED BY <1>3 DEF ToChunk, Chunk

LEMMA DenseSelects ==
  ASSUME NEW b, b.sel = NULL, b.rows \in Nat PROVE Selects(b)
BY DenseList DEF Selects, RowsOf

\* Where no selection reorders rows, they are in order.
LEMMA OrderedRows ==
  ASSUME NEW b, Sound(b), Selects(b), ~Unordered(b) PROVE Increasing(RowsOf(b))
<1>1. CASE b.sel = NULL
  <2> DEFINE n == b.rows
             s == Dense(n)
  <2>1. RowsOf(b) = s /\ n \in Nat
    BY <1>1 DEF RowsOf, Sound
  <2> HIDE DEF n
  <2>2. Len(s) = n /\ \A i \in 1 .. n : s[i] = i - 1
    BY <2>1, DenseList
  <2> HIDE DEF s
  <2> QED BY <2>1, <2>2 DEF Increasing
<1>2. CASE b.sel # NULL
  <2> DEFINE s == RowsOf(b)
  <2>1. /\ s \in Seq(0 .. b.rows - 1) /\ DOMAIN s = 1 .. Len(s) /\ b.rows \in Nat
        /\ ~\E m, n \in DOMAIN s : m < n /\ s[m] >= s[n]
    <3>1. s = b.sel
      BY <1>2 DEF RowsOf
    <3>2. s \in Seq(0 .. b.rows - 1) /\ b.rows \in Nat
      BY SelectsRows
    <3> QED BY <1>2, <3>1, <3>2, ListOfSeq, ListDomain DEF Unordered
  <2> HIDE DEF s
  <2>2. ASSUME NEW m \in 1 .. Len(s), NEW n \in 1 .. Len(s), m < n PROVE s[m] < s[n]
    <3>1. s[m] \in 0 .. b.rows - 1 /\ s[n] \in 0 .. b.rows - 1
      BY <2>1, SeqMember
    <3>2. ~(s[m] >= s[n])
      BY <2>1, <2>2
    <3> DEFINE x == s[m]
               y == s[n]
               e == b.rows
    <3>3. x \in 0 .. e - 1 /\ y \in 0 .. e - 1 /\ e \in Nat /\ ~(x >= y)
      BY <2>1, <3>1, <3>2
    <3> HIDE DEF x, y, e
    <3>4. x < y
      BY <3>3
    <3> QED BY <3>4 DEF x, y
  <2>3. Increasing(s)
    BY <2>2 DEF Increasing
  <2> QED BY <2>3 DEF s
<1> QED BY <1>1, <1>2

\* A batch filled to its end shows what it was filled with.
LEMMA FilledShows ==
  ASSUME NEW b, NEW cols, Filling(b, cols), \A j \in 1 .. Len(b.cols) : b.cols[j].len = b.rows
  PROVE  Full(b) /\ Shown(b) = cols
<1>1. /\ Sound(b) /\ b.sel = NULL /\ b.rows \in Nat /\ IsList(cols) /\ Len(cols) = Len(b.cols)
      /\ \A j \in 1 .. Len(b.cols) : /\ IsList(cols[j]) /\ Len(cols[j]) = b.rows
                                     /\ \A r \in 0 .. b.rows - 1 : CellAt(b, j, r) = cols[j][r + 1]
  BY DEF Filling, Sound, Shows
<1>2. RowsOf(b) = Dense(b.rows) /\ LenOf(b) = b.rows
  BY <1>1 DEF RowsOf, LenOf
<1>3. Selects(b)
  BY <1>1, DenseSelects
<1>4. ASSUME NEW j \in 1 .. Len(b.cols)
      PROVE  [n \in 1 .. LenOf(b) |-> CellAt(b, j, RowsOf(b)[n])] = cols[j]
  <2>1. \A n \in 1 .. b.rows : n - 1 \in 0 .. b.rows - 1 /\ (n - 1) + 1 = n
    BY <1>1
  <2>2. \A n \in 1 .. b.rows : CellAt(b, j, RowsOf(b)[n]) = cols[j][n]
    BY <1>1, <1>2, <2>1, DenseList
  <2> QED BY <1>1, <1>2, <2>2 DEF IsList
<1>5. Shown(b) = cols
  BY <1>1, <1>4 DEF Shown, IsList
<1> QED BY <1>1, <1>3, <1>5 DEF Full

\* To the row path and back, the rows are the same.
LEMMA Reboxed ==
  ASSUME NEW b, Full(b)
  PROVE  LET x == FromChunk(ToChunk(b))
         IN  Full(x) /\ x.fields = b.fields /\ Shown(x) = Shown(b)
<1> DEFINE k == ToChunk(b)
           x == FromChunk(k)
<1>1. /\ IsList(b.fields) /\ IsList(b.cols) /\ Len(b.cols) = Len(b.fields) /\ Len(b.cols) > 0
      /\ Len(b.cols) \in Nat /\ LenOf(b) \in Nat /\ Sound(b) /\ Selects(b)
  BY SelectsRows, ListDomain DEF Full, Sound
<1>2. k.fields = b.fields /\ k.cols = Shown(b)
  BY <1>1, ToChunkShown
<1>3. IsList(Shown(b)) /\ Len(Shown(b)) = Len(b.cols)
  BY <1>1, ListLen DEF Shown
<1>4. ASSUME NEW j \in 1 .. Len(b.cols) PROVE IsList(Shown(b)[j]) /\ Len(Shown(b)[j]) = LenOf(b)
  <2>1. Shown(b)[j] = [n \in 1 .. LenOf(b) |-> CellAt(b, j, RowsOf(b)[n])]
    BY DEF Shown
  <2> HIDE DEF k, x
  <2>2. Shown(b)[j] = [n \in 1 .. LenOf(b) |-> Shown(b)[j][n]]
    BY <2>1
  <2> QED BY <1>1, <2>2, ListLen
<1> HIDE DEF k
<1>5. ChunkOf(k, LenOf(b))
  BY <1>1, <1>2, <1>3, <1>4 DEF ChunkOf
<1>6. Filling(x, Shown(b)) /\ x.fields = b.fields /\ x.rows = LenOf(b) /\ Len(x.cols) = Len(b.cols)
  BY <1>2, <1>3, <1>5, Unboxed
<1> HIDE DEF x
<1>7. \A j \in 1 .. Len(x.cols) : x.cols[j].len = x.rows
  BY <1>3, <1>4, <1>6 DEF Filling, Shows
<1>8. Full(x) /\ Shown(x) = Shown(b)
  BY <1>6, <1>7, FilledShows
<1> QED BY <1>6, <1>8 DEF x, k

-----------------------------------------------------------------------------
(* The operators. *)

\* One field of a batch replaced.
LEMMA SelSet ==
  ASSUME NEW b, Sound(b), NEW s
  PROVE  LET x == [b EXCEPT !.sel = s]
         IN  /\ Sound(x) /\ x.sel = s /\ x.rows = b.rows /\ x.cols = b.cols
             /\ x.fields = b.fields /\ x.arrays = b.arrays
<1> DEFINE x == [b EXCEPT !.sel = s]
<1>1. b = BatchOf(b.fields, b.cols, b.arrays, b.rows, b.sel)
  BY DEF Sound, BatchOf
<1>2. [BatchOf(b.fields, b.cols, b.arrays, b.rows, b.sel) EXCEPT !.sel = s]
        = BatchOf(b.fields, b.cols, b.arrays, b.rows, s)
  BY DEF BatchOf
<1>3. x = BatchOf(b.fields, b.cols, b.arrays, b.rows, s)
  BY <1>1, <1>2
<1> HIDE DEF x
<1>4. /\ x.sel = s /\ x.rows = b.rows /\ x.cols = b.cols
      /\ x.fields = b.fields /\ x.arrays = b.arrays
      /\ x = [fields |-> x.fields, cols |-> x.cols, arrays |-> x.arrays, rows |-> x.rows, sel |-> x.sel]
  BY <1>3, BatchFields DEF BatchOf
<1>5. Sound(x)
  BY <1>4 DEF Sound
<1> QED BY <1>4, <1>5 DEF x

\* x is b with the selection s.
Narrowed(b, x, s) ==
  /\ Sound(x) /\ RowsOf(x) = s
  /\ x.rows = b.rows /\ x.cols = b.cols /\ x.fields = b.fields /\ x.arrays = b.arrays

LEMMA SelNarrows ==
  ASSUME NEW b, Sound(b), NEW E, NEW s \in Seq(E), E \subseteq Nat
  PROVE  Narrowed(b, [b EXCEPT !.sel = s], s)
<1>1. s # NULL
  <2>1. s \in Seq(Nat)
    <3>1. IsList(s) /\ \A i \in 1 .. Len(s) : s[i] \in Nat
      BY ListOfSeq, SeqMember
    <3> QED BY <3>1, ListIsSeq
  <2> QED BY <2>1, PathAssumption
<1> QED BY <1>1, SelSet DEF Narrowed, RowsOf

Tests(f, b) ==
  LET s == RowsOf(b)
  IN  [n \in DOMAIN s |-> [row |-> s[n], keep |-> s[n] \in Passing(f, b)]]

\* A filter keeps the rows that pass, in order.  A selection dropped for its
\* length is the identity, if the one before the filter is in order.
LEMMA FilterPicks ==
  ASSUME NEW b, Full(b), NEW f
  PROVE  LET s == FoldLeft(PickRow, << >>, Tests(f, b))
         IN  /\ s \in Seq(0 .. b.rows - 1)
             /\ PickedAt(Tests(f, b), LenOf(b), Places(Tests(f, b), LenOf(b)), s)
             /\ Narrowed(b, FilterInto(f, b), s)
             /\ ~ForgetsOrder(f, b) => Narrowed(b, FilterBatch(f, b), s)
<1> DEFINE n == LenOf(b)
           r == RowsOf(b)
           q == Tests(f, b)
           p == Places(q, n)
           s == FoldLeft(PickRow, << >>, q)
           x == FilterInto(f, b)
<1>1. /\ Sound(b) /\ b.rows \in Nat /\ r \in Seq(0 .. b.rows - 1)
      /\ ~Unordered(b) => Increasing(r)
      /\ Len(r) = n /\ n \in Nat /\ DOMAIN r = 1 .. n
  BY SelectsRows, OrderedRows DEF Full
<1>2. DOMAIN q = 1 .. n /\ \A k \in 1 .. n : q[k].row = r[k] /\ q[k].keep = (r[k] \in Passing(f, b))
  BY <1>1 DEF Tests
<1>3. s = Picked(r, Passing(f, b))
  BY DEF Picked, Tests
<1> HIDE DEF q, r, n
<1>4. PickedAt(q, n, p, s)
  BY <1>1, <1>2, PickedPlaces
<1> HIDE DEF s, p
<1>5. /\ p \in Seq(1 .. n) /\ Increasing(p) /\ IsList(s) /\ Len(s) = Len(p)
      /\ \A m \in 1 .. Len(p) : s[m] = q[p[m]].row
      /\ (\A i \in 1 .. n : q[i].keep) => Len(p) = n /\ \A i \in 1 .. n : p[i] = i
  BY <1>4 DEF PickedAt
<1>6. \A m \in 1 .. Len(s) : p[m] \in 1 .. n /\ s[m] = r[p[m]] /\ s[m] \in 0 .. b.rows - 1
  <2>1. ASSUME NEW m \in 1 .. Len(s) PROVE p[m] \in 1 .. n
    <3>1. m \in 1 .. Len(p) /\ p \in Seq(1 .. n)
      BY <1>5
    <3> QED BY <3>1, SeqMember
  <2>2. ASSUME NEW m \in 1 .. Len(s) PROVE s[m] = r[p[m]]
    BY <1>2, <1>5, <2>1
  <2>3. \A k \in 1 .. n : r[k] \in 0 .. b.rows - 1
    BY <1>1
  <2> QED BY <2>1, <2>2, <2>3
<1>7. s \in Seq(0 .. b.rows - 1)
  BY <1>5, <1>6, ListIsSeq
<1>8. ASSUME ~Unordered(b) PROVE Increasing(s)
  <2> SUFFICES ASSUME NEW l \in 1 .. Len(s), NEW m \in 1 .. Len(s), l < m PROVE s[l] < s[m]
    BY DEF Increasing
  <2>1. p[l] < p[m]
    BY <1>5 DEF Increasing
  <2>2. r[p[l]] < r[p[m]]
    BY <1>1, <1>6, <1>8, <2>1 DEF Increasing
  <2> QED BY <1>6, <2>2
<1>9. Narrowed(b, [b EXCEPT !.sel = s], s)
  <2>1. 0 .. b.rows - 1 \subseteq Nat
    BY <1>1
  <2> QED BY <1>1, <1>7, <2>1, SelNarrows
<1>10. Narrowed(b, x, s)
  <2>1. CASE b.sel # NULL
    <3>1. x = [b EXCEPT !.sel = s]
      BY <1>3, <2>1 DEF FilterInto, RowsOf, r
    <3> QED BY <1>9, <3>1
  <2>2. CASE b.sel = NULL /\ Passing(f, b) # 0 .. b.rows - 1
    <3>1. x = [b EXCEPT !.sel = s]
      BY <1>3, <2>2 DEF FilterInto, RowsOf, r
    <3> QED BY <1>9, <3>1
  <2>3. CASE b.sel = NULL /\ Passing(f, b) = 0 .. b.rows - 1
    <3>1. x = b
      BY <2>3 DEF FilterInto
    <3>2. \A i \in 1 .. n : q[i].keep
      <4>1. \A i \in 1 .. n : r[i] \in 0 .. b.rows - 1
        BY <1>1
      <4> QED BY <1>2, <2>3, <4>1
    <3>3. Len(s) = n /\ \A i \in 1 .. n : s[i] = r[i]
      BY <1>5, <1>6, <3>2
    <3>4. s = r
      BY <1>1, <1>5, <3>3, ListOfSeq, SameList
    <3> QED BY <1>1, <3>1, <3>4 DEF Narrowed, r
  <2> QED BY <2>1, <2>2, <2>3
<1>11. ASSUME ~ForgetsOrder(f, b) PROVE Narrowed(b, FilterBatch(f, b), s)
  <2>1. CASE x.sel # NULL /\ Len(x.sel) = x.rows
    <3>1. FilterBatch(f, b) = [x EXCEPT !.sel = NULL]
      BY <2>1 DEF FilterBatch, DropFull
    <3>2. x.sel = s /\ x.rows = b.rows
      BY <1>10, <2>1 DEF Narrowed, RowsOf
    <3> DEFINE y == [x EXCEPT !.sel = NULL]
    <3>4. /\ Sound(y) /\ y.sel = NULL /\ y.rows = x.rows /\ y.cols = x.cols
          /\ y.fields = x.fields /\ y.arrays = x.arrays
      BY <1>10, SelSet DEF Narrowed
    <3> HIDE DEF y
    <3>7. ~Unordered(b)
      <4>1. FilterBatch(f, b) # FilterInto(f, b)
        BY <2>1, <3>1, <3>4 DEF x, y
      <4> QED BY <1>11, <4>1 DEF ForgetsOrder
    <3>3. s = Dense(b.rows)
      BY <1>1, <1>7, <1>8, <2>1, <3>2, <3>7, AllRows
    <3>5. RowsOf(y) = Dense(b.rows)
      BY <3>2, <3>4 DEF RowsOf
    <3>6. Narrowed(b, y, s)
      BY <1>10, <3>3, <3>4, <3>5 DEF Narrowed
    <3> QED BY <3>1, <3>6 DEF y
  <2>2. CASE ~(x.sel # NULL /\ Len(x.sel) = x.rows)
    BY <1>10, <2>2 DEF FilterBatch, DropFull
  <2> QED BY <2>1, <2>2
<1> QED BY <1>4, <1>7, <1>10, <1>11 DEF s, p, q, n, x

LEMMA FilterFull ==
  ASSUME NEW b, Full(b), NEW f
  PROVE  Full(FilterBatch(f, b)) /\ FilterBatch(f, b).fields = b.fields
<1> DEFINE x == FilterInto(f, b)
           y == [x EXCEPT !.sel = NULL]
           s == FoldLeft(PickRow, << >>, Tests(f, b))
<1>1. s \in Seq(0 .. b.rows - 1) /\ Narrowed(b, x, s)
  BY FilterPicks
<1>2. FilterBatch(f, b) = x \/ FilterBatch(f, b) = y
  BY DEF FilterBatch, DropFull
<1> HIDE DEF x, s
<1>3. /\ Sound(x) /\ x.rows = b.rows /\ x.cols = b.cols /\ x.fields = b.fields
      /\ \A j \in 1 .. Len(b.cols) : b.cols[j].len = b.rows
  BY <1>1 DEF Narrowed, Full
<1>4. Full(x)
  BY <1>1, <1>3 DEF Narrowed, Full, Selects
<1>5. Sound(y) /\ y.sel = NULL /\ y.rows = b.rows /\ y.cols = b.cols /\ y.fields = b.fields
  BY <1>3, SelSet
<1> HIDE DEF y
<1>6. Full(y)
  <2>1. Selects(y)
    BY <1>5, DenseSelects DEF Sound
  <2> QED BY <1>3, <1>5, <2>1 DEF Full
<1> QED BY <1>2, <1>3, <1>4, <1>5, <1>6

\* The row path keeps the same rows.
LEMMA FilterAgrees ==
  ASSUME NEW b, Full(b), NEW f, FilterAccepts(f, b), ~PartedBy(f, b), NEW k, k.cols = Shown(b)
  PROVE  FilterChunk(f, k).cols = Shown(FilterBatch(f, b))
<1> DEFINE n == LenOf(b)
           r == RowsOf(b)
           q == Tests(f, b)
           p == Places(q, n)
           s == FoldLeft(PickRow, << >>, q)
           x == FilterBatch(f, b)
           c == f.col + 1
           all == [i \in 1 .. NumRows(k) |-> i]
           t == [i \in DOMAIN all |-> [row |-> all[i], keep |-> all[i] \in PassingChunk(f, k)]]
           kept == FoldLeft(PickRow, << >>, t)
<1>1. /\ Sound(b) /\ Len(r) = n /\ n \in Nat /\ r \in Seq(0 .. b.rows - 1) /\ DOMAIN r = 1 .. n
      /\ Len(b.cols) \in Nat /\ Len(b.cols) > 0
  BY SelectsRows, ListDomain DEF Full, Sound
<1>2. c \in 1 .. Len(b.cols)
  BY <1>1 DEF FilterAccepts
<1>3. /\ IsList(k.cols) /\ Len(k.cols) = Len(b.cols) /\ DOMAIN k.cols = 1 .. Len(b.cols)
      /\ \A j \in 1 .. Len(b.cols) : k.cols[j] = [i \in 1 .. n |-> CellAt(b, j, r[i])]
  <2>1. k.cols = [j \in 1 .. Len(b.cols) |-> [i \in 1 .. n |-> CellAt(b, j, r[i])]]
    BY DEF Shown
  <2>2. IsList(k.cols) /\ Len(k.cols) = Len(b.cols)
    <3>1. k.cols = [j \in 1 .. Len(b.cols) |-> k.cols[j]]
      BY <2>1
    <3> QED BY <1>1, <3>1, ListLen
  <2> QED BY <2>1, <2>2
<1>4. NumRows(k) = n
  <2>1. k.cols[1] = [i \in 1 .. n |-> k.cols[1][i]]
    <3>1. 1 \in 1 .. Len(b.cols)
      BY <1>1
    <3>2. k.cols[1] = [i \in 1 .. n |-> CellAt(b, 1, r[i])]
      BY <1>3, <3>1
    <3> QED BY <3>2
  <2>2. Len(k.cols[1]) = n
    BY <1>1, <2>1, ListLen
  <2>3. k.cols # << >>
    BY <1>1, <1>3, EmptyList
  <2> QED BY <2>2, <2>3 DEF NumRows
<1>5. /\ DOMAIN q = 1 .. n /\ DOMAIN t = 1 .. n
      /\ \A i \in 1 .. n : /\ q[i] = [row |-> r[i], keep |-> r[i] \in Passing(f, b)]
                           /\ t[i] = [row |-> i, keep |-> i \in PassingChunk(f, k)]
  BY <1>1, <1>4 DEF Tests
<1>6. ASSUME NEW i \in 1 .. n PROVE (r[i] \in Passing(f, b)) = (i \in PassingChunk(f, k))
  <2>1. k.cols[c][i] = IF IsNull(b, c, r[i]) THEN NULL ELSE ValueAt(b, c, r[i])
    BY <1>2, <1>3 DEF CellAt
  <2>2. ValueAt(b, c, r[i]) # NULL
    <3> DEFINE a == b.arrays[b.cols[c].arr]
    <3>1. r[i] \in 0 .. b.rows - 1 /\ b.rows \in Nat
      BY <1>1 DEF Sound
    <3>2. Stores(a) /\ Len(a) \in Nat /\ b.rows <= Len(a)
      BY <1>1, <1>2, ListDomain DEF Full, Sound, Stores
    <3>3. ValueAt(b, c, r[i]) = a[r[i] + 1]
      BY DEF ValueAt
    <3> HIDE DEF a
    <3>4. r[i] + 1 \in 1 .. Len(a)
      BY <3>1, <3>2
    <3> QED BY <3>2, <3>3, <3>4 DEF Stores
  <2>3. r[i] \in Passing(f, b) <=> Keeps(f, b, r[i])
    <3>1. r \in Seq(0 .. b.rows - 1) /\ i \in 1 .. Len(r)
      BY <1>1
    <3> HIDE DEF r
    <3>2. r[i] \in 0 .. b.rows - 1
      BY <3>1, SeqMember
    <3> QED BY <3>2 DEF Passing
  <2>4. i \in PassingChunk(f, k) <=> k.cols[c][i] # NULL /\ Compare(k.cols[c][i], f.cmp, f.value)
    BY <1>4 DEF PassingChunk
  <2>5. Comparison(f) = f.cmp
    BY DEF PartedBy, IgnoresCmp
  <2> QED BY <2>1, <2>2, <2>3, <2>4, <2>5 DEF Keeps
<1> DEFINE cells(u) == [j \in 1 .. Len(b.cols) |-> [m \in DOMAIN u |-> k.cols[j][u[m]]]]
<1>7. FilterChunk(f, k).cols = cells(kept)
  <2>1. FilterChunk(f, k) = Chunk(k.fields, [j \in DOMAIN k.cols |-> [m \in DOMAIN kept |-> k.cols[j][kept[m]]]])
    BY DEF FilterChunk, ChooseChunk, Picked
  <2> HIDE DEF kept
  <2> QED BY <1>3, <2>1 DEF Chunk
<1> HIDE DEF x, s, p, q, r, n, c, t, kept, all, cells
<1>8. \A i \in 1 .. n : q[i].keep = t[i].keep
  BY <1>5, <1>6
<1>9. kept = p
  <2>1. Places(t, n) = p
    BY <1>8, SamePlaces DEF p
  <2>2. PickedAt(t, n, p, kept)
    BY <1>1, <1>5, <2>1, PickedPlaces DEF kept
  <2>3. /\ p \in Seq(1 .. n) /\ IsList(kept) /\ Len(kept) = Len(p)
        /\ \A m \in 1 .. Len(p) : kept[m] = t[p[m]].row
    BY <2>2 DEF PickedAt
  <2>4. \A m \in 1 .. Len(p) : p[m] \in 1 .. n
    BY <2>3, SeqMember
  <2>5. \A i \in 1 .. n : t[i].row = i
    BY <1>5
  <2>6. \A m \in 1 .. Len(p) : kept[m] = p[m]
    BY <2>3, <2>4, <2>5
  <2>7. IsList(p)
    BY <2>3, ListOfSeq
  <2> QED BY <2>3, <2>6, <2>7, SameList
<1>10. Narrowed(b, x, s) /\ s \in Seq(0 .. b.rows - 1) /\ PickedAt(q, n, p, s)
  BY FilterPicks DEF PartedBy, x, s, p, q, n
<1>11. /\ Len(s) = Len(p) /\ DOMAIN p = 1 .. Len(p)
       /\ \A m \in 1 .. Len(p) : p[m] \in 1 .. n /\ s[m] = r[p[m]]
  <2>1. /\ p \in Seq(1 .. n) /\ Len(s) = Len(p)
        /\ \A m \in 1 .. Len(p) : s[m] = q[p[m]].row
    BY <1>10 DEF PickedAt
  <2>2. \A m \in 1 .. Len(p) : p[m] \in 1 .. n
    BY <2>1, SeqMember
  <2>3. DOMAIN p = 1 .. Len(p)
    BY <2>1, ListOfSeq, ListDomain
  <2>4. \A i \in 1 .. n : q[i].row = r[i]
    BY <1>5
  <2> QED BY <2>1, <2>2, <2>3, <2>4
<1>12. LenOf(x) = Len(s) /\ RowsOf(x) = s /\ Len(x.cols) = Len(b.cols)
  <2>1. Full(x)
    BY FilterFull DEF x
  <2> QED BY <1>10, <2>1, SelectsRows DEF Full, Narrowed
<1>13. \A j, i : CellAt(x, j, i) = CellAt(b, j, i)
  BY <1>10, CellMarks DEF Narrowed
<1>14. ASSUME NEW j \in 1 .. Len(b.cols)
       PROVE  [m \in DOMAIN p |-> k.cols[j][p[m]]] = [m \in 1 .. LenOf(x) |-> CellAt(x, j, RowsOf(x)[m])]
  <2>1. \A m \in 1 .. Len(p) : k.cols[j][p[m]] = CellAt(x, j, RowsOf(x)[m])
    <3>1. \A i \in 1 .. n : k.cols[j][i] = CellAt(b, j, r[i])
      BY <1>3
    <3> QED BY <1>11, <1>12, <1>13, <3>1
  <2> QED BY <1>11, <1>12, <2>1
<1>15. cells(p) = Shown(x)
  BY <1>12, <1>14 DEF cells, Shown
<1> QED BY <1>7, <1>9, <1>15 DEF x

\* Projected columns are those of the batch, with its rows.
LEMMA ProjectAgrees ==
  ASSUME NEW b, Full(b), NEW p \in Seq(Nat), ProjectAccepts(p, b)
  PROVE  LET x == ProjectBatch(p, b)
         IN  /\ Full(x) /\ x.fields = [i \in DOMAIN p |-> b.fields[p[i] + 1]]
             /\ Shown(x) = [i \in DOMAIN p |-> Shown(b)[p[i] + 1]]
<1> DEFINE x == ProjectBatch(p, b)
           n == Len(p)
<1>1. n \in Nat /\ DOMAIN p = 1 .. n /\ n > 0
  <2>1. IsList(p) /\ p # << >>
    BY ListOfSeq DEF ProjectAccepts
  <2> QED BY <2>1, ListDomain, EmptySeq
<1>2. \A i \in 1 .. n : p[i] + 1 \in 1 .. Len(b.cols)
  <2>1. Len(b.cols) \in Nat
    BY ListDomain DEF Full, Sound
  <2>2. \A i \in 1 .. n : p[i] \in 0 .. Len(b.cols) - 1
    BY <1>1 DEF ProjectAccepts
  <2> QED BY <2>1, <2>2
<1>3. /\ x.fields = [i \in 1 .. n |-> b.fields[p[i] + 1]] /\ x.cols = [i \in 1 .. n |-> b.cols[p[i] + 1]]
      /\ x.arrays = b.arrays /\ x.rows = b.rows /\ x.sel = b.sel
      /\ x = [fields |-> x.fields, cols |-> x.cols, arrays |-> x.arrays, rows |-> x.rows, sel |-> x.sel]
  BY <1>1 DEF ProjectBatch
<1> HIDE DEF x, n
<1>4. IsList(x.fields) /\ Len(x.fields) = n /\ IsList(x.cols) /\ Len(x.cols) = n
  <2>1. x.fields = [i \in 1 .. n |-> x.fields[i]] /\ x.cols = [i \in 1 .. n |-> x.cols[i]]
    BY <1>3
  <2> QED BY <1>1, <2>1, ListLen
<1>5. \A i \in 1 .. n : x.cols[i] = b.cols[p[i] + 1]
  BY <1>3
<1>6. Sound(x)
  BY <1>1, <1>2, <1>3, <1>4, <1>5 DEF Full, Sound
<1>7. RowsOf(x) = RowsOf(b) /\ LenOf(x) = LenOf(b)
  BY <1>3 DEF RowsOf, LenOf
<1>8. Full(x)
  <2>1. Selects(x)
    BY <1>3, <1>7 DEF Full, Selects
  <2>2. \A i \in 1 .. n : x.cols[i].len = x.rows
    BY <1>2, <1>3, <1>5 DEF Full
  <2> QED BY <1>4, <1>6, <2>1, <2>2 DEF Full
<1>9. \A i \in 1 .. n : \A r : CellAt(x, i, r) = CellAt(b, p[i] + 1, r)
  BY <1>3, <1>5, CellMarks
<1>10. Shown(x) = [i \in 1 .. n |-> Shown(b)[p[i] + 1]]
  <2>1. Shown(x) = [i \in 1 .. n |-> [m \in 1 .. LenOf(b) |-> CellAt(b, p[i] + 1, RowsOf(b)[m])]]
    BY <1>4, <1>7, <1>9 DEF Shown
  <2>2. \A j \in 1 .. Len(b.cols) : Shown(b)[j] = [m \in 1 .. LenOf(b) |-> CellAt(b, j, RowsOf(b)[m])]
    BY DEF Shown
  <2> QED BY <1>2, <2>1, <2>2
<1> QED BY <1>1, <1>3, <1>8, <1>10 DEF x

\* Rows chosen on both paths are the same.
LEMMA ChooseAgrees ==
  ASSUME NEW b, Full(b), NEW s \in Seq(Nat), \A n \in DOMAIN s : s[n] > 0 /\ s[n] <= LenOf(b),
         NEW k
  PROVE  LET x == ChooseBatch(s, b)
         IN  /\ Full(x) /\ x.fields = b.fields
             /\ k.cols = Shown(b) => ChooseChunk(s, k).cols = Shown(x)
<1> DEFINE l == Len(s)
           r == RowsOf(b)
           t == [n \in DOMAIN s |-> RowAt(b, s[n])]
           x == ChooseBatch(s, b)
<1>1. /\ Sound(b) /\ b.rows \in Nat /\ LenOf(b) \in Nat /\ Len(r) = LenOf(b)
      /\ r \in Seq(0 .. b.rows - 1)
      /\ \A j \in 1 .. Len(b.cols) : b.cols[j].len = b.rows
  BY SelectsRows DEF Full
<1>2. /\ l \in Nat /\ DOMAIN s = 1 .. l /\ \A n \in 1 .. l : s[n] \in 1 .. LenOf(b)
  <2>1. IsList(s) /\ l \in Nat /\ DOMAIN s = 1 .. l
    BY ListOfSeq, ListDomain
  <2>2. ASSUME NEW n \in 1 .. l PROVE s[n] \in 1 .. LenOf(b)
    <3>1. s[n] \in Nat /\ s[n] > 0 /\ s[n] <= LenOf(b)
      BY <2>1, SeqMember
    <3> QED BY <1>1, <3>1
  <2> QED BY <2>1, <2>2
<1>3. ASSUME NEW n \in 1 .. l PROVE t[n] = r[s[n]] /\ t[n] \in 0 .. b.rows - 1
  <2>1. s[n] \in 1 .. LenOf(b)
    BY <1>2
  <2>2. t[n] = RowAt(b, s[n])
    BY <1>2
  <2>3. RowAt(b, s[n]) = r[s[n]]
    <3> DEFINE m == s[n]
    <3> HIDE DEF m
    <3>1. m \in 1 .. LenOf(b)
      BY <2>1 DEF m
    <3>2. RowAt(b, m) = RowsOf(b)[m]
      BY <1>1, <3>1, ShowsRow
    <3> QED BY <3>2 DEF m
  <2> HIDE DEF r
  <2>4. r[s[n]] \in 0 .. b.rows - 1
    BY <1>1, <2>1, SeqMember
  <2> QED BY <2>2, <2>3, <2>4
<1>4. IsList(t) /\ Len(t) = l
  <2>1. t = [n \in 1 .. l |-> t[n]]
    BY <1>2
  <2> HIDE DEF t
  <2> QED BY <1>2, <2>1, ListLen
<1>5. x = [b EXCEPT !.sel = t]
  BY DEF ChooseBatch
<1> HIDE DEF r, t, x
<1>6. t \in Seq(0 .. b.rows - 1)
  BY <1>3, <1>4, ListIsSeq
<1>7. Narrowed(b, x, t)
  <2>1. 0 .. b.rows - 1 \subseteq Nat
    BY <1>1
  <2> QED BY <1>1, <1>5, <1>6, <2>1, SelNarrows
<1>8. Full(x) /\ x.fields = b.fields
  BY <1>1, <1>6, <1>7 DEF Narrowed, Full, Selects
<1>9. LenOf(x) = l /\ RowsOf(x) = t
  BY <1>4, <1>7, <1>8, SelectsRows DEF Narrowed, Full
<1>10. ASSUME k.cols = Shown(b) PROVE ChooseChunk(s, k).cols = Shown(x)
  <2>1. /\ DOMAIN k.cols = 1 .. Len(b.cols)
        /\ \A j \in 1 .. Len(b.cols) : k.cols[j] = [n \in 1 .. LenOf(b) |-> CellAt(b, j, r[n])]
    BY <1>10 DEF Shown, r
  <2>2. \A j, i : CellAt(x, j, i) = CellAt(b, j, i)
    BY <1>7, CellMarks DEF Narrowed
  <2>3. \A j \in 1 .. Len(b.cols) : \A n \in 1 .. l : k.cols[j][s[n]] = CellAt(x, j, t[n])
    <3> SUFFICES ASSUME NEW j \in 1 .. Len(b.cols), NEW n \in 1 .. l
                 PROVE  k.cols[j][s[n]] = CellAt(x, j, t[n])
      OBVIOUS
    <3>1. s[n] \in 1 .. LenOf(b) /\ t[n] = r[s[n]]
      BY <1>2, <1>3
    <3>2. k.cols[j][s[n]] = CellAt(b, j, r[s[n]])
      BY <2>1, <3>1
    <3> QED BY <2>2, <3>1, <3>2
  <2>4. ChooseChunk(s, k).cols = [j \in 1 .. Len(b.cols) |-> [n \in 1 .. l |-> k.cols[j][s[n]]]]
    BY <1>2, <2>1 DEF ChooseChunk, Chunk
  <2>5. Shown(x) = [j \in 1 .. Len(b.cols) |-> [n \in 1 .. l |-> CellAt(x, j, t[n])]]
    BY <1>7, <1>9 DEF Shown, Narrowed
  <2> QED BY <2>3, <2>4, <2>5
<1> QED BY <1>8, <1>10 DEF x

-----------------------------------------------------------------------------
(* The wire: what is sent is what is decoded.                               *)

Digits == INSTANCE FoldLemmas WITH Step <- Shifted, Holds <- IsList

LEMMA ShiftedFold ==
  ASSUME NEW n, NEW q PROVE FoldLeft(Shifted, n, q) = Digits!FoldOf(n, q)
BY DEF Digits!FoldOf, Digits!Latest, FoldLeft, MapThenFoldSet, Max

Zeros(n) == [i \in 1 .. n |-> 0]

LEMMA PowerZero == Power(0) = 1
<1>1. Zeros(0) = << >>
  BY DEF Zeros
<1>2. DOMAIN << >> = 1 .. 0
  OBVIOUS
<1>3. PICK h : Digits!Trace(h, 1, << >>, 0) /\ Digits!FoldOf(1, << >>) = h[0]
  BY <1>2, Digits!FoldSteps
<1>4. Power(0) = Digits!FoldOf(1, Zeros(0))
  BY ShiftedFold DEF Power, Zeros
<1> QED BY <1>1, <1>3, <1>4 DEF Digits!Trace

LEMMA PowerNext ==
  ASSUME NEW n \in Nat PROVE Power(n + 1) = Radix * Power(n) + 0
<1>1. Zeros(n) \in Seq({0})
  <2>1. IsList(Zeros(n)) /\ Len(Zeros(n)) = n
    BY ListLen DEF Zeros
  <2> QED BY <2>1, ListIsSeq DEF Zeros
<1>2. Append(Zeros(n), 0) = Zeros(n + 1)
  <2>1. /\ IsList(Zeros(n)) /\ Len(Zeros(n)) = n
        /\ IsList(Zeros(n + 1)) /\ Len(Zeros(n + 1)) = n + 1
        /\ (\A i \in 1 .. n : Zeros(n)[i] = 0) /\ \A i \in 1 .. n + 1 : Zeros(n + 1)[i] = 0
    BY ListLen DEF Zeros
  <2> DEFINE a == Append(Zeros(n), 0)
  <2>2. IsList(a) /\ Len(a) = n + 1 /\ a[n + 1] = 0 /\ \A i \in 1 .. n : a[i] = 0
    BY <2>1, AppendList
  <2> HIDE DEF a
  <2>3. \A i \in 1 .. n + 1 : a[i] = Zeros(n + 1)[i]
    BY <2>1, <2>2
  <2>4. a = Zeros(n + 1)
    BY <2>1, <2>2, <2>3, SameList
  <2> QED BY <2>4 DEF a
<1>3. Digits!FoldOf(1, Append(Zeros(n), 0)) = Shifted(Digits!FoldOf(1, Zeros(n)), 0)
  BY <1>1, Digits!FoldSnoc
<1>4. \A m : Power(m) = Digits!FoldOf(1, Zeros(m))
  BY ShiftedFold DEF Power, Zeros
<1> QED BY <1>2, <1>3, <1>4 DEF Shifted

\* Quotients are the only ones.
LEMMA QuotientIs ==
  ASSUME NEW a \in Int, NEW m \in Nat \ {0}, NEW q \in Int, NEW r \in 0 .. m - 1, a = q * m + r
  PROVE  a \div m = q /\ a % m = r
OBVIOUS

LEMMA QuotientParts ==
  ASSUME NEW a \in Int, NEW m \in Nat \ {0}
  PROVE  \E q \in Int : \E r \in 0 .. m - 1 : q = a \div m /\ r = a % m /\ a = q * m + r
<1> DEFINE q == a \div m
           r == a % m
<1>1. q \in Int /\ r \in 0 .. m - 1
  OBVIOUS
<1>2. r = a - m * q
  OBVIOUS
<1>3. q = a \div m /\ r = a % m
  OBVIOUS
<1> HIDE DEF q, r
<1>4. a = q * m + r
  BY <1>1, <1>2
<1> QED BY <1>1, <1>3, <1>4

\* Digit by digit: a quotient is what the next one leaves, and a remainder.
LEMMA QuotientNested ==
  ASSUME NEW a \in Nat, NEW m \in Nat \ {0}, NEW k \in Nat \ {0}
  PROVE  \E q, t \in Int : \E d \in 0 .. k - 1 :
           q = a \div m /\ t = a \div (k * m) /\ d = q % k /\ k * t + d = q
<1>1. PICK q \in Int, s \in 0 .. m - 1 : q = a \div m /\ a = q * m + s
  BY QuotientParts
<1>2. PICK t \in Int, d \in 0 .. k - 1 : t = q \div k /\ d = q % k /\ q = t * k + d
  BY QuotientParts
<1>3. k * m \in Nat \ {0}
  OBVIOUS
<1>4. d * m + s \in 0 .. k * m - 1
  <2>1. d * m >= 0
    BY <1>2
  <2>2. (k - 1 - d) * m >= 0 /\ (k - 1 - d) * m = k * m - m - d * m
    BY <1>2
  <2> QED BY <1>1, <1>3, <2>1, <2>2
<1>5. a = t * (k * m) + (d * m + s)
  <2>1. a = (t * k + d) * m + s
    BY <1>1, <1>2
  <2> QED BY <2>1
<1>6. a \div (k * m) = t
  <2> DEFINE w == k * m
             r == d * m + s
  <2>1. w \in Nat \ {0} /\ r \in 0 .. w - 1 /\ a = t * w + r
    BY <1>3, <1>4, <1>5
  <2> HIDE DEF w, r
  <2>2. a \div w = t
    BY <2>1, QuotientIs
  <2> QED BY <2>2 DEF w
<1>7. k * t + d = q
  BY <1>2
<1>8. q = a \div m /\ t = a \div (k * m) /\ d = q % k
  BY <1>1, <1>2, <1>6
<1> QED BY <1>7, <1>8

LEMMA PowerNat == ASSUME NEW n \in Nat PROVE Power(n) \in Nat \ {0}
<1> DEFINE S == {k \in 0 .. n : Power(k) \in Nat \ {0}}
<1>1. 0 \in S
  BY PowerZero
<1>2. ASSUME NEW k \in 1 .. n, k - 1 \in S PROVE k \in S
  <2>1. k - 1 \in Nat /\ (k - 1) + 1 = k /\ k \in 0 .. n
    OBVIOUS
  <2>2. Power(k) = Radix * Power(k - 1) + 0
    BY <2>1, PowerNext
  <2>3. Radix \in Nat \ {0} /\ Power(k - 1) \in Nat \ {0}
    BY <1>2, WireAssumption
  <2>4. Power(k) \in Nat \ {0}
    BY <2>2, <2>3
  <2> QED BY <2>1, <2>4
<1>3. 0 .. n \subseteq S
  <2> HIDE DEF S
  <2> QED BY <1>1, <1>2, Digits!UpTo
<1> QED BY <1>3

\* The digit of weight m of u, and what stands before it.
LEMMA DigitIs ==
  ASSUME NEW u \in Nat, NEW n \in Nat
  PROVE  \E q, t \in Int : \E d \in 0 .. Radix - 1 :
           /\ q = u \div Power(n) /\ t = u \div Power(n + 1) /\ d = (u \div Power(n)) % Radix
           /\ Radix * t + d = q
<1> DEFINE m == Power(n)
<1>1. m \in Nat \ {0} /\ Radix \in Nat \ {0}
  BY PowerNat, WireAssumption
<1>2. Power(n + 1) = Radix * m
  <2>1. Power(n + 1) = Radix * m + 0
    BY PowerNext
  <2> HIDE DEF m
  <2> QED BY <1>1, <2>1
<1> HIDE DEF m
<1>3. \E q, t \in Int : \E d \in 0 .. Radix - 1 :
        q = u \div m /\ t = u \div (Radix * m) /\ d = q % Radix /\ Radix * t + d = q
  BY <1>1, QuotientNested
<1> QED BY <1>2, <1>3 DEF m

LEMMA UnsignedEncoded ==
  ASSUME NEW v \in Int, NEW w \in Nat
  PROVE  /\ IsList(Encoded(v, w)) /\ Len(Encoded(v, w)) = w
         /\ Unsigned(Encoded(v, w)) = v % Power(w)
<1> DEFINE e == Encoded(v, w)
           u == v % Power(w)
           g == [k \in 0 .. w |-> u \div Power(w - k)]
<1>1. Power(w) \in Nat \ {0}
  BY PowerNat
<1>2. u \in 0 .. Power(w) - 1
  <2> DEFINE m == Power(w)
  <2> HIDE DEF m
  <2>1. v % m \in 0 .. m - 1
    BY <1>1 DEF m
  <2> QED BY <2>1 DEF m
<1> HIDE DEF u
<1>3. e = [i \in 1 .. w |-> (u \div Power(w - i)) % Radix]
  BY DEF Encoded, u
<1> HIDE DEF e
<1>4. IsList(e) /\ Len(e) = w /\ DOMAIN e = 1 .. w
  <2>1. e = [i \in 1 .. w |-> e[i]]
    BY <1>3
  <2> QED BY <2>1, ListLen
<1>5. g[0] = 0
  <2> DEFINE m == Power(w)
  <2> HIDE DEF m
  <2>1. m \in Nat \ {0} /\ u \in 0 .. m - 1 /\ u \in Int /\ u = 0 * m + u
    BY <1>1, <1>2 DEF m
  <2>2. u \div m = 0
    BY <2>1, QuotientIs
  <2>3. g[0] = u \div Power(w - 0) /\ w - 0 = w
    OBVIOUS
  <2> QED BY <2>2, <2>3 DEF m
<1>6. g[w] = u
  <2>1. u \div 1 = u
    <3>1. u \in Int /\ 1 \in Nat \ {0} /\ 0 \in 0 .. 1 - 1 /\ u = u * 1 + 0
      BY <1>1, <1>2
    <3> QED BY <3>1, QuotientIs
  <2>2. g[w] = u \div Power(w - w) /\ w - w = 0
    OBVIOUS
  <2> HIDE DEF g
  <2> QED BY <2>1, <2>2, PowerZero
<1>7. ASSUME NEW k \in 1 .. w PROVE g[k] = Shifted(g[k - 1], e[k])
  <2>1. k - 1 \in 0 .. w /\ k \in 0 .. w /\ w - k \in Nat /\ w - (k - 1) = (w - k) + 1
    OBVIOUS
  <2>2. g[k] = u \div Power(w - k) /\ g[k - 1] = u \div Power((w - k) + 1)
    BY <2>1
  <2>3. e[k] = (u \div Power(w - k)) % Radix
    BY <1>3
  <2>4. u \in Nat
    BY <1>1, <1>2
  <2> HIDE DEF g
  <2> DEFINE n == w - k
  <2>5. n \in Nat
    BY <2>1
  <2> HIDE DEF n
  <2>6. PICK q \in Int, t \in Int, d \in 0 .. Radix - 1 :
          /\ q = u \div Power(n) /\ t = u \div Power(n + 1) /\ d = (u \div Power(n)) % Radix
          /\ Radix * t + d = q
    BY <2>4, <2>5, DigitIs
  <2>7. g[k] = q /\ g[k - 1] = t /\ e[k] = d
    BY <2>2, <2>3, <2>6 DEF n
  <2> QED BY <2>6, <2>7 DEF Shifted
<1>8. Digits!Trace(g, 0, e, w)
  <2> HIDE DEF g
  <2> QED BY <1>5, <1>7 DEF Digits!Trace
<1>9. Digits!FoldOf(0, e) = g[w]
  <2> HIDE DEF g
  <2> QED BY <1>4, <1>8, Digits!TraceIsFold
<1>10. Unsigned(e) = u
  BY <1>6, <1>9, ShiftedFold DEF Unsigned
<1> QED BY <1>4, <1>10 DEF e, u

\* Two's complement.
LEMMA SignedEncoded ==
  ASSUME NEW v \in Int, NEW w \in Nat, -Power(w) <= 2 * v, 2 * v < Power(w)
  PROVE  Len(Encoded(v, w)) = w /\ Signed(Encoded(v, w)) = v
<1> DEFINE e == Encoded(v, w)
           m == Power(w)
<1>1. m \in Nat \ {0}
  BY PowerNat
<1>2. Len(e) = w /\ Unsigned(e) = v % m
  BY UnsignedEncoded
<1>3. Signed(e) = IF 2 * (v % m) >= m THEN (v % m) - m ELSE v % m
  BY <1>2 DEF Signed
<1>4. -m <= 2 * v /\ 2 * v < m
  OBVIOUS
<1> HIDE DEF e, m
<1>5. v % m = IF v < 0 THEN v + m ELSE v
  <2>1. CASE v < 0
    <3>1. v + m \in 0 .. m - 1 /\ v = (-1) * m + (v + m)
      BY <1>1, <1>4, <2>1
    <3> DEFINE r == v + m
    <3> HIDE DEF r
    <3>2. r \in 0 .. m - 1 /\ v = (-1) * m + r
      BY <3>1 DEF r
    <3>3. v % m = r
      BY <1>1, <3>2, QuotientIs
    <3> QED BY <2>1, <3>3 DEF r
  <2>2. CASE ~(v < 0)
    <3>1. v \in 0 .. m - 1 /\ v = 0 * m + v
      BY <1>1, <1>4, <2>2
    <3>2. v % m = v
      BY <1>1, <3>1, QuotientIs
    <3> QED BY <2>2, <3>2
  <2> QED BY <2>1, <2>2
<1>6. Signed(e) = v
  <2> DEFINE u == v % m
  <2> HIDE DEF u
  <2>1. Signed(e) = IF 2 * u >= m THEN u - m ELSE u
    BY <1>3 DEF u
  <2>2. u = IF v < 0 THEN v + m ELSE v
    BY <1>5 DEF u
  <2> QED BY <1>1, <1>4, <2>1, <2>2
<1> QED BY <1>2, <1>6 DEF e

\* Truncation and time.Unix together are the floor.
LEMMA UnixFloor ==
  ASSUME NEW s \in Int, NEW v \in Int, NEW m \in Nat \ {0}, m = MicrosPerSec
  PROVE  Unix(s + Quot(v, m), Remainder(v, m)) = [sec |-> s + v \div m, micros |-> v % m]
<1>1. PICK q \in Int, r \in 0 .. m - 1 : q = v \div m /\ r = v % m /\ v = q * m + r
  BY QuotientParts
<1>2. CASE v >= 0
  <2>1. Quot(v, m) = q
    BY <1>1, <1>2 DEF Quot
  <2>2. Remainder(v, m) = r
    <3>1. Remainder(v, m) = v - m * q
      BY <2>1 DEF Remainder
    <3> QED BY <1>1, <3>1
  <2> QED BY <1>1, <2>1, <2>2 DEF Unix
<1>3. CASE v < 0
  <2>1. \E a \in Int : a = -v
    OBVIOUS
  <2>2. PICK p \in Int, d \in 0 .. m - 1 : p = (-v) \div m /\ -v = p * m + d
    <3>1. PICK a \in Int : a = -v
      BY <2>1
    <3>2. \E p \in Int, d \in 0 .. m - 1 : p = a \div m /\ a = p * m + d
      BY QuotientParts
    <3> QED BY <3>1, <3>2
  <2>3. Quot(v, m) = -p
    BY <1>3, <2>2 DEF Quot
  <2>4. Remainder(v, m) = -d
    <3>1. Remainder(v, m) = v - m * (-p)
      BY <2>3 DEF Remainder
    <3>2. m * (-p) = -(p * m)
      BY <2>2
    <3> QED BY <2>2, <3>1, <3>2
  <2>5. CASE d = 0
    <3>1. v = (-p) * m + 0 /\ -p \in Int /\ 0 \in 0 .. m - 1
      BY <2>2, <2>5
    <3>2. v \div m = -p /\ v % m = 0
      BY <3>1, QuotientIs
    <3>3. Unix(s + Quot(v, m), Remainder(v, m)) = [sec |-> s + (-p), micros |-> 0]
      BY <2>3, <2>4, <2>5 DEF Unix
    <3> QED BY <3>2, <3>3
  <2>6. CASE d # 0
    <3>1. v = (-p - 1) * m + (m - d) /\ -p - 1 \in Int /\ m - d \in 0 .. m - 1
      BY <2>2, <2>6
    <3>2. v \div m = -p - 1 /\ v % m = m - d
      <4> DEFINE x == -p - 1
                 y == m - d
      <4>1. v = x * m + y /\ x \in Int /\ y \in 0 .. m - 1
        BY <3>1
      <4> HIDE DEF x, y
      <4>2. v \div m = x /\ v % m = y
        BY <4>1, QuotientIs
      <4> QED BY <4>2 DEF x, y
    <3>3. Unix(s + Quot(v, m), Remainder(v, m)) = [sec |-> s + (-p) - 1, micros |-> -d + m]
      BY <2>2, <2>3, <2>4, <2>6 DEF Unix
    <3>4. s + (-p) - 1 = s + (-p - 1) /\ -d + m = m - d
      BY <2>2
    <3> QED BY <3>2, <3>3, <3>4
  <2> QED BY <2>5, <2>6
<1> QED BY <1>2, <1>3

\* A cell that can be decoded is decoded to what the server meant.
LEMMA WireMeans ==
  ASSUME NEW oid \in Oids, NEW cell \in Cells(oid) \ {NULL},
         Decode(oid, Sent(oid, cell)) # Undecodable
  PROVE  Decode(oid, Sent(oid, cell)) = Meant(oid, cell)
<1> DEFINE v == cell.v
           w == cell.width
           e == Encoded(v, w)
<1>1. CASE oid = "text"
  BY <1>1 DEF Decode, Sent, Meant
<1>2. CASE oid # "text"
  <2>1. /\ Sent(oid, cell) = e /\ v \in Int /\ w \in Nat
        /\ IF oid = "bool" THEN v \in {0, 1} ELSE -Power(w) <= 2 * v /\ 2 * v < Power(w)
    BY <1>2, PathAssumption DEF Sent
  <2> HIDE DEF v, w, e
  <2>2. CASE oid = "bool"
    <3>1. Decode(oid, e) = DecodeBool(e) /\ Meant(oid, cell) = v
      BY <2>2 DEF Decode, Meant, v
    <3>2. Len(e) = 1 /\ w = 1
      <4>1. Len(e) = w
        BY <2>1, UnsignedEncoded DEF e
      <4>2. Len(e) = 1
        BY <2>1, <3>1 DEF DecodeBool
      <4> QED BY <4>1, <4>2
    <3>3. e[1] = v
      <4>1. Radix \in Nat \ {0, 1} /\ Power(1) = Radix * 1 + 0
        BY PowerNext, PowerZero, WireAssumption
      <4>2. Power(1) = Radix
        BY <4>1
      <4>3. e[1] = ((v % Radix) \div 1) % Radix
        <5>1. e = [i \in 1 .. 1 |-> ((v % Power(1)) \div Power(1 - i)) % Radix]
          BY <3>2 DEF e, Encoded
        <5>2. e[1] = ((v % Power(1)) \div Power(1 - 1)) % Radix /\ 1 - 1 = 0
          BY <5>1
        <5> QED BY <4>2, <5>2, PowerZero
      <4>4. v \in 0 .. Radix - 1 /\ v = 0 * Radix + v /\ v = v * 1 + 0
        BY <2>1, <2>2, <4>1
      <4>5. v % Radix = v /\ v \div 1 = v
        <5>1. v % Radix = v
          BY <4>1, <4>4, QuotientIs
        <5>2. 0 \in 0 .. 1 - 1 /\ 1 \in Nat \ {0}
          OBVIOUS
        <5> QED BY <2>1, <4>4, <5>1, <5>2, QuotientIs
      <4> QED BY <4>3, <4>5
    <3> QED BY <2>1, <2>2, <3>1, <3>2, <3>3 DEF DecodeBool
  <2>3. CASE oid # "bool"
    <3>1. Len(e) = w /\ Signed(e) = v
      BY <2>1, <2>3, SignedEncoded DEF e
    <3>2. CASE oid = "int"
      <4>1. Decode(oid, e) = DecodeInt(e) /\ Meant(oid, cell) = v
        BY <3>2 DEF Decode, Meant, v
      <4> QED BY <2>1, <3>1, <4>1 DEF DecodeInt
    <3>3. CASE oid = "timestamp"
      <4> DEFINE m == MicrosPerSec
      <4>1. /\ Decode(oid, e) = DecodeTimestamp(e)
            /\ Meant(oid, cell) = [sec |-> Y2K + v \div m, micros |-> v % m]
        BY <3>3 DEF Decode, Meant, v
      <4>2. Decode(oid, e) = Unix(Y2K + Quot(v, m), Remainder(v, m))
        BY <2>1, <3>1, <4>1 DEF DecodeTimestamp
      <4>3. Y2K \in Int /\ m \in Nat \ {0}
        BY WireAssumption
      <4> HIDE DEF m
      <4>4. Unix(Y2K + Quot(v, m), Remainder(v, m)) = [sec |-> Y2K + v \div m, micros |-> v % m]
        BY <2>1, <4>3, UnixFloor DEF m
      <4> QED BY <2>1, <4>1, <4>2, <4>4
    <3>4. CASE oid = "date"
      <4>1. /\ Decode(oid, e) = DecodeDate(e)
            /\ Meant(oid, cell) = [sec |-> Y2K + v * SecsPerDay, micros |-> 0]
        BY <3>4 DEF Decode, Meant, v
      <4>2. Decode(oid, e) = Unix(Y2K + v * SecsPerDay, 0)
        BY <2>1, <3>1, <4>1 DEF DecodeDate
      <4> QED BY <2>1, <4>1, <4>2 DEF Unix
    <3> QED BY <2>3, <1>2, <3>2, <3>3, <3>4 DEF Oids
  <2> QED BY <2>2, <2>3
<1> QED BY <1>1, <1>2

-----------------------------------------------------------------------------
(* The invariant, action by action.                                         *)

\* The columns of a batch of which f cells of an unfinished row are there.
Level(b, f) ==
  \A i \in 1 .. Len(b.cols) : b.cols[i].len = b.rows + (IF i <= f THEN 1 ELSE 0)

LEMMA LevelAfter ==
  ASSUME NEW b, Sound(b), NEW f \in Nat, f < Len(b.cols), Level(b, f), NEW v
  PROVE  LET x == AppendCell(b, f + 1, v)
         IN  \A i \in 1 .. Len(b.cols) : x.cols[i].len = b.rows + (IF i <= f + 1 THEN 1 ELSE 0)
<1> DEFINE j == f + 1
           x == AppendCell(b, j, v)
           c == b.cols[j]
           d == ColumnAfter(c, v)
<1>1. IsList(b.cols) /\ Len(b.cols) \in Nat /\ b.rows \in Nat /\ j \in 1 .. Len(b.cols)
  BY ListDomain DEF Sound
<1>2. x.cols = [b.cols EXCEPT ![j] = d]
  <2> HIDE DEF j
  <2>1. x = BatchAfter(b, j, v)
    BY <1>1, AppendCellIs
  <2> HIDE DEF x
  <2> QED BY <2>1, BatchFields DEF BatchAfter
<1>3. d.len = c.len + 1
  <2>1. Fitted(c)
    BY <1>1 DEF Sound
  <2> HIDE DEF c
  <2> QED BY <2>1, FittedAfter
<1>4. c.len = b.rows
  BY <1>1 DEF Level
<1> HIDE DEF x, c, d
<1>5. x.cols[j] = d /\ \A i \in 1 .. Len(b.cols) : i # j => x.cols[i] = b.cols[i]
  <2> HIDE DEF j
  <2> QED BY <1>1, <1>2, ListEdit
<1>6. \A i \in 1 .. Len(b.cols) : x.cols[i].len = b.rows + (IF i <= f + 1 THEN 1 ELSE 0)
  BY <1>1, <1>3, <1>4, <1>5 DEF Level
<1> QED BY <1>6 DEF x

LEMMA Appended ==
  ASSUME PathIInv, phase \in {"scan", "refill"}, NEW v, AppendBoth(v, v)
  PROVE  PathIInv'
<1> DEFINE j == filled + 1
           n == Len(batch.cols)
           b == AppendCell(batch, j, v)
           more == [chunk.cols EXCEPT ![j] = Append(chunk.cols[j], v)]
           rows == IF j = n THEN batch.rows + 1 ELSE batch.rows
<1>1. /\ oids \in Results /\ filled \in Nat /\ apart \in BOOLEAN /\ Sound(batch)
      /\ chunk = [fields |-> batch.fields, cols |-> chunk.cols]
      /\ phase = "scan" => n = Len(oids) /\ ~Shares(batch) /\ ~apart
      /\ filled < n /\ batch.sel = NULL /\ Level(batch, filled)
      /\ ~apart => Filling(batch, chunk.cols)
  BY DEF PathIInv, Level
<1>2. n \in Nat /\ j \in 1 .. n /\ batch.rows \in Nat
  BY <1>1, ListDomain DEF Sound
<1>3. /\ Sound(b) /\ b.fields = batch.fields /\ b.rows = batch.rows /\ b.sel = NULL
      /\ Len(b.cols) = n
  <2> HIDE DEF j
  <2>1. Sound(b)
    BY <1>1, <1>2, AppendSound
  <2>2. /\ b.fields = batch.fields /\ b.rows = batch.rows /\ b.sel = batch.sel
        /\ Len(b.cols) = n
    BY <1>1, <1>2, AppendKeeps
  <2> QED BY <1>1, <2>1, <2>2
<1>4. \A i \in 1 .. n : b.cols[i].len = batch.rows + (IF i <= j THEN 1 ELSE 0)
  BY <1>1, LevelAfter
<1> DEFINE over == Overwrites(batch, j, v)
<1>5. ~apart /\ ~over => Filling(b, more)
  <2> HIDE DEF j
  <2> QED BY <1>1, <1>2, AppendFilling
<1>6. phase = "scan" => ~over /\ ~Shares(b)
  <2> HIDE DEF j
  <2> QED BY <1>1, <1>2, AppendOwn
<1> DEFINE x == [b EXCEPT !.rows = rows]
<1>7. rows \in Nat
  BY <1>2
<1>8. batch' = x
  <2>1. CASE j = n
    BY <1>3, <2>1 DEF AppendBoth
  <2>2. CASE j # n
    <3>1. batch' = b
      BY <2>2 DEF AppendBoth
    <3>2. b = BatchOf(b.fields, b.cols, b.arrays, b.rows, b.sel)
      BY <1>3 DEF Sound, BatchOf
    <3> HIDE DEF b
    <3>3. [b EXCEPT !.rows = b.rows] = b
      <4>1. [BatchOf(b.fields, b.cols, b.arrays, b.rows, b.sel) EXCEPT !.rows = b.rows]
              = BatchOf(b.fields, b.cols, b.arrays, b.rows, b.sel)
        BY DEF BatchOf
      <4> QED BY <3>2, <4>1
    <3> QED BY <1>3, <2>2, <3>1, <3>3
  <2> QED BY <2>1, <2>2
<1>9. /\ filled' = IF j = n THEN 0 ELSE j
      /\ oids' = oids /\ phase' = phase /\ apart' = (apart \/ over)
  BY DEF AppendBoth
<1>10. apart' \in BOOLEAN /\ (~apart' => ~apart /\ ~over)
  BY <1>9
<1>11. chunk' = [fields |-> batch.fields, cols |-> more]
  <2>1. chunk' = [chunk EXCEPT !.cols[j] = Append(chunk.cols[j], v)]
    BY DEF AppendBoth
  <2> DEFINE w == Append(chunk.cols[j], v)
             k == chunk.cols
  <2> HIDE DEF w, k, j
  <2>2. [[fields |-> batch.fields, cols |-> k] EXCEPT !.cols[j] = w]
          = [fields |-> batch.fields, cols |-> [k EXCEPT ![j] = w]]
    OBVIOUS
  <2>3. chunk = [fields |-> batch.fields, cols |-> k]
    BY <1>1 DEF k
  <2> QED BY <2>1, <2>2, <2>3 DEF w, k
<1> HIDE DEF j, b, more, rows, over
<1>12. /\ Sound(x) /\ x.fields = batch.fields /\ x.cols = b.cols /\ x.rows = rows /\ x.sel = NULL
  BY <1>3, <1>7, RowsSound
<1>13. ~apart' => Filling(x, more)
  <2>1. ~apart' => Filling(b, more)
    BY <1>5, <1>10
  <2> QED BY <1>7, <2>1, RowsSet
<1> HIDE DEF x
<1>14. filled' \in Nat /\ filled' < n
  BY <1>2, <1>9 DEF j
<1>15. \A i \in 1 .. n : x.cols[i].len = x.rows + (IF i <= filled' THEN 1 ELSE 0)
  <2>1. CASE j = n
    BY <1>2, <1>4, <1>9, <1>12, <2>1 DEF rows
  <2>2. CASE j # n
    BY <1>2, <1>4, <1>9, <1>12, <2>2 DEF rows
  <2> QED BY <2>1, <2>2
<1>16. chunk'.fields = batch.fields /\ chunk'.cols = more
  BY <1>11
<1>17. Len(batch'.cols) = n
  BY <1>3, <1>8, <1>12
<1>18. /\ oids' \in Results /\ filled' \in Nat /\ apart' \in BOOLEAN /\ Sound(batch')
       /\ chunk' = [fields |-> batch'.fields, cols |-> chunk'.cols]
  BY <1>1, <1>8, <1>9, <1>11, <1>12, <1>14, <1>16, <1>10
<1>19. phase' = "scan" => Len(batch'.cols) = Len(oids') /\ ~Shares(batch') /\ ~apart'
  <2>1. phase = "scan" => ~Shares(x)
    BY <1>12, <1>6 DEF Shares
  <2>2. ~Shares(x) => ~Shares(batch')
    BY <1>8
  <2>3. phase = "scan" => ~apart'
    BY <1>1, <1>9, <1>6
  <2> QED BY <1>1, <1>9, <1>17, <2>1, <2>2, <2>3
<1>20. /\ filled' < Len(batch'.cols) /\ batch'.sel = NULL
       /\ \A i \in 1 .. Len(batch'.cols) :
            batch'.cols[i].len = batch'.rows + (IF i <= filled' THEN 1 ELSE 0)
       /\ ~apart' => Filling(batch', chunk'.cols)
  BY <1>8, <1>9, <1>12, <1>13, <1>14, <1>15, <1>16, <1>17
<1>21. phase' # "full"
  BY <1>9
<1> QED BY <1>18, <1>20, <1>21, <1>19 DEF PathIInv

LEMMA TypesList ==
  ASSUME oids \in Results
  PROVE  IsList(Types) /\ Len(Types) = Len(oids) /\ Len(Types) > 0 /\ oids \in Seq(Oids)
<1>1. oids \in Seq(Oids) /\ oids # << >>
  BY PathAssumption
<1>2. IsList(oids) /\ DOMAIN oids = 1 .. Len(oids) /\ Len(oids) \in Nat /\ Len(oids) > 0
  BY <1>1, ListOfSeq, ListDomain, EmptySeq
<1>3. Types = [j \in 1 .. Len(oids) |-> Types[j]]
  BY <1>2 DEF Types
<1>4. IsList(Types) /\ Len(Types) = Len(oids)
  BY <1>2, <1>3, ListLen
<1> QED BY <1>1, <1>2, <1>4

LEMMA NoRowsCols ==
  ASSUME NEW types, IsList(types)
  PROVE  NoRows(types) = [fields |-> types, cols |-> NoCells(Len(types))]
BY ListDomain DEF NoRows, Chunk, NoCells

\* What holds of a batch made for the columns of the result.
LEMMA NewHolds ==
  ASSUME oids \in Results, NEW b, b = NewBatch(Types), NEW k, k = NoRows(Types)
  PROVE  /\ Sound(b) /\ k = [fields |-> b.fields, cols |-> k.cols] /\ Len(b.cols) = Len(oids)
         /\ 0 < Len(b.cols) /\ b.sel = NULL
         /\ \A j \in 1 .. Len(b.cols) : b.cols[j].len = b.rows + (IF j <= 0 THEN 1 ELSE 0)
         /\ Filling(b, k.cols) /\ ~Shares(b)
<1> DEFINE t == Types
           n == Len(t)
<1>1. IsList(t) /\ n = Len(oids) /\ n > 0 /\ n \in Nat
  BY TypesList, ListDomain
<1>2. b = NewBatch(t) /\ k = NoRows(t)
  OBVIOUS
<1> HIDE DEF t
<1>3. /\ Filling(b, NoCells(n)) /\ ~Shares(b) /\ b.fields = t /\ b.rows = 0 /\ Len(b.cols) = n
      /\ \A j \in 1 .. n : b.cols[j].len = 0
  BY <1>1, <1>2, NewBatchFilling
<1>4. k = [fields |-> t, cols |-> NoCells(n)]
  BY <1>1, <1>2, NoRowsCols
<1>5. k.fields = t /\ k.cols = NoCells(n)
  BY <1>4
<1>6. Sound(b) /\ b.sel = NULL
  BY <1>3 DEF Filling
<1>7. \A j \in 1 .. n : b.cols[j].len = b.rows + (IF j <= 0 THEN 1 ELSE 0)
  BY <1>1, <1>3
<1> QED BY <1>1, <1>3, <1>4, <1>5, <1>6, <1>7

LEMMA InitHolds == Init => PathIInv
<1> SUFFICES ASSUME Init PROVE PathIInv
  OBVIOUS
<1>1. oids \in Results /\ filled = 0 /\ apart = FALSE /\ phase = "scan"
  BY DEF Init
<1>2. batch = NewBatch(Types) /\ chunk = NoRows(Types)
  BY DEF Init
<1>3. /\ Sound(batch) /\ chunk = [fields |-> batch.fields, cols |-> chunk.cols]
      /\ Len(batch.cols) = Len(oids)
      /\ 0 < Len(batch.cols) /\ batch.sel = NULL
      /\ \A j \in 1 .. Len(batch.cols) : batch.cols[j].len = batch.rows + (IF j <= 0 THEN 1 ELSE 0)
      /\ Filling(batch, chunk.cols) /\ ~Shares(batch)
  BY <1>1, <1>2, NewHolds
<1> QED BY <1>1, <1>3 DEF PathIInv

LEMMA ScanNullKeeps == ASSUME PathIInv, ScanNull PROVE PathIInv'
BY Appended DEF ScanNull

LEMMA ScanCellKeeps ==
  ASSUME PathIInv, NEW c \in Cells(oids[filled + 1]) \ {NULL}, ScanCell(c) PROVE PathIInv'
<1> DEFINE oid == oids[filled + 1]
<1>1. oid \in Oids
  <2>1. oids \in Seq(Oids)
    BY TypesList DEF PathIInv
  <2>2. filled + 1 \in 1 .. Len(oids)
    <3>1. filled \in Nat /\ filled < Len(oids) /\ Len(oids) \in Nat
      BY <2>1, ListOfSeq, ListDomain DEF PathIInv, ScanCell
    <3> QED BY <3>1
  <2> QED BY <2>1, <2>2, SeqMember
<1>2. Wired(c) = Decode(oid, Sent(oid, c)) /\ Wired(c) # Undecodable
  BY DEF ScanCell, Wired
<1>3. phase \in {"scan", "refill"} /\ AppendBoth(Wired(c), Meant(oid, c))
  BY DEF ScanCell
<1>4. c \in Cells(oid) \ {NULL}
  OBVIOUS
<1> HIDE DEF oid
<1>5. Wired(c) = Meant(oid, c)
  BY <1>1, <1>2, <1>4, WireMeans
<1> DEFINE v == Meant(oid, c)
<1>6. AppendBoth(v, v)
  BY <1>3, <1>5
<1> HIDE DEF v
<1> QED BY <1>3, <1>6, Appended

LEMMA DecodeFailsKeeps ==
  ASSUME PathIInv, NEW c, DecodeFails(c) PROVE PathIInv'
BY DEF PathIInv, DecodeFails

LEMMA HandOverKeeps == ASSUME PathIInv, HandOver PROVE PathIInv'
<1>1. /\ batch' = batch /\ chunk' = chunk /\ oids' = oids /\ filled' = filled /\ apart' = apart
      /\ phase' = "full" /\ filled = 0
  BY DEF HandOver
<1>2. Sound(batch) /\ batch.sel = NULL /\ (~apart => Filling(batch, chunk.cols))
  BY DEF PathIInv, HandOver
<1>3. \A j \in 1 .. Len(batch.cols) : batch.cols[j].len = batch.rows
  <2>1. batch.rows \in Nat
    BY <1>2 DEF Sound
  <2>2. \A j \in 1 .. Len(batch.cols) :
          batch.cols[j].len = batch.rows + (IF j <= filled THEN 1 ELSE 0)
    BY DEF PathIInv, HandOver
  <2> QED BY <1>1, <2>1, <2>2
<1>4. Full(batch)
  <2>1. batch.rows \in Nat
    BY <1>2 DEF Sound
  <2>2. Selects(batch)
    BY <1>2, <2>1, DenseSelects
  <2> QED BY <1>2, <1>3, <2>2 DEF Full
<1>5. ~apart => chunk.cols = Shown(batch)
  BY <1>2, <1>3, FilledShows
<1>6. /\ oids \in Results /\ filled \in Nat /\ apart \in BOOLEAN
      /\ chunk = [fields |-> batch.fields, cols |-> chunk.cols]
  BY DEF PathIInv
<1> QED BY <1>1, <1>2, <1>4, <1>5, <1>6 DEF PathIInv

\* What an operator on a full batch and on its chunk must do.
LEMMA OperatorKeeps ==
  ASSUME PathIInv, phase = "full", UNCHANGED <<oids, filled, phase>>, apart' \in BOOLEAN,
         Full(batch'), chunk' = [fields |-> batch'.fields, cols |-> chunk'.cols],
         ~apart' => chunk'.cols = Shown(batch')
  PROVE  PathIInv'
<1>1. Sound(batch')
  BY DEF Full
<1> QED BY <1>1 DEF PathIInv

LEMMA FullNow ==
  ASSUME PathIInv, phase = "full"
  PROVE  /\ Full(batch) /\ chunk.fields = batch.fields /\ apart \in BOOLEAN
         /\ ~apart => chunk.cols = Shown(batch)
<1>1. chunk = [fields |-> batch.fields, cols |-> chunk.cols]
  BY DEF PathIInv
<1>2. chunk.fields = batch.fields
  BY <1>1
<1> QED BY <1>2 DEF PathIInv

LEMMA FilterChunkIs ==
  ASSUME NEW f, NEW k PROVE LET x == FilterChunk(f, k)
                           IN  x = [fields |-> k.fields, cols |-> x.cols]
BY DEF FilterChunk, ChooseChunk, Chunk

LEMMA ProjectChunkIs ==
  ASSUME NEW p, NEW k
  PROVE  ProjectChunk(p, k) = [fields |-> [i \in DOMAIN p |-> k.fields[p[i] + 1]],
                               cols |-> [i \in DOMAIN p |-> k.cols[p[i] + 1]]]
BY DEF ProjectChunk, Chunk

LEMMA FilterKeeps == ASSUME PathIInv, NEW f, Filter(f) PROVE PathIInv'
<1>1. /\ phase = "full" /\ FilterAccepts(f, batch) /\ UNCHANGED <<oids, filled, phase>>
      /\ apart' = (apart \/ PartedBy(f, batch))
      /\ batch' = FilterBatch(f, batch) /\ chunk' = FilterChunk(f, chunk)
  BY DEF Filter
<1>2. /\ Full(batch) /\ chunk.fields = batch.fields /\ apart \in BOOLEAN
      /\ ~apart => chunk.cols = Shown(batch)
  BY <1>1, FullNow
<1>3. Full(batch') /\ batch'.fields = batch.fields
  BY <1>1, <1>2, FilterFull
<1>4. chunk' = [fields |-> batch'.fields, cols |-> chunk'.cols]
  BY <1>1, <1>2, <1>3, FilterChunkIs
<1>5. apart' \in BOOLEAN /\ (~apart' => ~apart /\ ~PartedBy(f, batch))
  BY <1>1
<1>6. ~apart' => chunk'.cols = Shown(batch')
  BY <1>1, <1>2, <1>5, FilterAgrees
<1> QED BY <1>1, <1>3, <1>4, <1>5, <1>6, OperatorKeeps

\* A projection on both paths.
LEMMA ProjectBoth ==
  ASSUME NEW b, Full(b), NEW p \in Seq(Nat), ProjectAccepts(p, b), NEW k, k.fields = b.fields
  PROVE  LET x == ProjectBatch(p, b)
             l == ProjectChunk(p, k)
         IN  /\ Full(x) /\ l = [fields |-> x.fields, cols |-> l.cols]
             /\ k.cols = Shown(b) => l.cols = Shown(x)
<1> DEFINE x == ProjectBatch(p, b)
           l == ProjectChunk(p, k)
<1>1. /\ Full(x) /\ x.fields = [i \in DOMAIN p |-> b.fields[p[i] + 1]]
      /\ Shown(x) = [i \in DOMAIN p |-> Shown(b)[p[i] + 1]]
  BY ProjectAgrees
<1>2. l = [fields |-> [i \in DOMAIN p |-> k.fields[p[i] + 1]],
           cols |-> [i \in DOMAIN p |-> k.cols[p[i] + 1]]]
  BY ProjectChunkIs
<1> HIDE DEF x, l
<1>3. /\ l = [fields |-> l.fields, cols |-> l.cols]
      /\ l.fields = [i \in DOMAIN p |-> k.fields[p[i] + 1]]
      /\ l.cols = [i \in DOMAIN p |-> k.cols[p[i] + 1]]
  BY <1>2
<1> QED BY <1>1, <1>3 DEF x, l

LEMMA ProjectKeeps == ASSUME PathIInv, NEW p \in Projections, Project(p) PROVE PathIInv'
<1>1. /\ phase = "full" /\ ProjectAccepts(p, batch) /\ UNCHANGED <<oids, filled, apart, phase>>
      /\ batch' = ProjectBatch(p, batch) /\ chunk' = ProjectChunk(p, chunk)
  BY DEF Project
<1>2. /\ Full(batch) /\ chunk.fields = batch.fields /\ apart \in BOOLEAN
      /\ ~apart => chunk.cols = Shown(batch)
  BY <1>1, FullNow
<1>3. p \in Seq(Nat)
  BY PathAssumption
<1>4. /\ Full(batch') /\ chunk' = [fields |-> batch'.fields, cols |-> chunk'.cols]
      /\ chunk.cols = Shown(batch) => chunk'.cols = Shown(batch')
  BY <1>1, <1>2, <1>3, ProjectBoth
<1> QED BY <1>1, <1>2, <1>4, OperatorKeeps

LEMMA FilterProjectKeeps ==
  ASSUME PathIInv, NEW f, NEW p \in Projections, FilterProject(f, p) PROVE PathIInv'
<1> DEFINE b == FilterBatch(f, batch)
           k == FilterChunk(f, chunk)
<1>1. /\ phase = "full" /\ FilterAccepts(f, batch) /\ ProjectAccepts(p, b)
      /\ UNCHANGED <<oids, filled, phase>> /\ apart' = (apart \/ PartedBy(f, batch))
      /\ batch' = ProjectBatch(p, b) /\ chunk' = ProjectChunk(p, k)
  BY DEF FilterProject
<1>2. /\ Full(batch) /\ chunk.fields = batch.fields /\ apart \in BOOLEAN
      /\ ~apart => chunk.cols = Shown(batch)
  BY <1>1, FullNow
<1>3. Full(b) /\ b.fields = batch.fields
  BY <1>2, FilterFull
<1>4. k.fields = b.fields
  BY <1>2, <1>3 DEF FilterChunk, ChooseChunk, Chunk
<1>5. apart' \in BOOLEAN /\ (~apart' => ~apart /\ ~PartedBy(f, batch))
  BY <1>1
<1>6. ~apart' => k.cols = Shown(b)
  BY <1>1, <1>2, <1>5, FilterAgrees
<1>7. p \in Seq(Nat)
  BY PathAssumption
<1> HIDE DEF b, k
<1>8. /\ Full(batch') /\ chunk' = [fields |-> batch'.fields, cols |-> chunk'.cols]
      /\ k.cols = Shown(b) => chunk'.cols = Shown(batch')
  BY <1>1, <1>3, <1>4, <1>7, ProjectBoth
<1> QED BY <1>1, <1>6, <1>8, <1>5, OperatorKeeps

LEMMA ChooseChunkIs ==
  ASSUME NEW s, NEW k PROVE LET x == ChooseChunk(s, k)
                           IN  x = [fields |-> k.fields, cols |-> x.cols]
BY DEF ChooseChunk, Chunk

LEMMA ChooseKeeps == ASSUME PathIInv, NEW s \in Selections, Choose(s) PROVE PathIInv'
<1>1. /\ phase = "full" /\ UNCHANGED <<oids, filled, apart, phase>>
      /\ \A n \in DOMAIN s : s[n] > 0 /\ s[n] <= LenOf(batch)
      /\ batch' = ChooseBatch(s, batch) /\ chunk' = ChooseChunk(s, chunk)
  BY DEF Choose
<1>2. /\ Full(batch) /\ chunk.fields = batch.fields /\ apart \in BOOLEAN
      /\ ~apart => chunk.cols = Shown(batch)
  BY <1>1, FullNow
<1>3. s \in Seq(Nat)
  BY PathAssumption
<1>4. /\ Full(batch') /\ batch'.fields = batch.fields
      /\ chunk.cols = Shown(batch) => chunk'.cols = Shown(batch')
  BY <1>1, <1>2, <1>3, ChooseAgrees
<1>5. chunk' = [fields |-> batch'.fields, cols |-> chunk'.cols]
  BY <1>1, <1>2, <1>4, ChooseChunkIs
<1> QED BY <1>1, <1>2, <1>4, <1>5, OperatorKeeps

LEMMA RefusedKeeps == ASSUME PathIInv, Refused PROVE PathIInv'
BY DEF PathIInv, Refused

LEMMA ReboxKeeps == ASSUME PathIInv, Rebox PROVE PathIInv'
<1>1. /\ phase = "full" /\ UNCHANGED <<oids, filled, apart, phase>>
      /\ batch' = FromChunk(ToChunk(batch)) /\ chunk' = chunk
  BY DEF Rebox
<1>2. /\ Full(batch) /\ chunk.fields = batch.fields /\ apart \in BOOLEAN
      /\ ~apart => chunk.cols = Shown(batch)
  BY <1>1, FullNow
<1>3. Full(batch') /\ batch'.fields = batch.fields /\ Shown(batch') = Shown(batch)
  BY <1>1, <1>2, Reboxed
<1>4. chunk = [fields |-> batch.fields, cols |-> chunk.cols]
  BY DEF PathIInv
<1> QED BY <1>1, <1>2, <1>3, <1>4, OperatorKeeps

LEMMA ResetKeeps == ASSUME PathIInv, Reset PROVE PathIInv'
<1> DEFINE n == Len(batch.cols)
<1>1. /\ oids' = oids /\ filled' = 0 /\ apart' = FALSE /\ phase' = "refill"
      /\ batch' = ResetBatch(batch) /\ chunk' = NoRows(batch.fields)
  BY DEF Reset
<1>2. Sound(batch) /\ oids \in Results
  BY DEF PathIInv
<1>3. n \in Nat /\ n > 0 /\ IsList(batch.fields) /\ Len(batch.fields) = n
  BY <1>2, ListDomain DEF Sound
<1>4. /\ Sound(batch') /\ batch'.sel = NULL /\ batch'.rows = 0 /\ batch'.fields = batch.fields
      /\ Len(batch'.cols) = n
      /\ \A j \in 1 .. n : batch'.cols[j].len = 0
      /\ Filling(batch', NoCells(n))
  BY <1>1, <1>2, ResetSound
<1>5. chunk' = [fields |-> batch.fields, cols |-> NoCells(n)]
  BY <1>1, <1>3, NoRowsCols
<1>6. chunk'.fields = batch.fields /\ chunk'.cols = NoCells(n)
  BY <1>5
<1>7. \A j \in 1 .. n : batch'.cols[j].len = batch'.rows + (IF j <= 0 THEN 1 ELSE 0)
  BY <1>3, <1>4
<1> QED BY <1>1, <1>2, <1>3, <1>4, <1>5, <1>6, <1>7 DEF PathIInv

LEMMA OwnerAppendsKeeps == ASSUME PathIInv, NEW v, OwnerAppends(v) PROVE PathIInv'
BY Appended DEF OwnerAppends

LEMMA RenewKeeps == ASSUME PathIInv, Renew PROVE PathIInv'
<1>1. /\ oids' = oids /\ filled' = 0 /\ apart' = FALSE /\ phase' = "scan"
      /\ batch' = NewBatch(Types) /\ chunk' = NoRows(Types) /\ oids \in Results
  BY DEF Renew, PathIInv
<1>2. /\ Sound(batch') /\ chunk' = [fields |-> batch'.fields, cols |-> chunk'.cols]
      /\ Len(batch'.cols) = Len(oids)
      /\ 0 < Len(batch'.cols) /\ batch'.sel = NULL
      /\ \A j \in 1 .. Len(batch'.cols) : batch'.cols[j].len = batch'.rows + (IF j <= 0 THEN 1 ELSE 0)
      /\ Filling(batch', chunk'.cols) /\ ~Shares(batch')
  <2> DEFINE b == batch'
             k == chunk'
  <2>1. b = NewBatch(Types) /\ k = NoRows(Types)
    BY <1>1
  <2> HIDE DEF b, k
  <2>2. /\ Sound(b) /\ k = [fields |-> b.fields, cols |-> k.cols] /\ Len(b.cols) = Len(oids)
        /\ 0 < Len(b.cols) /\ b.sel = NULL
        /\ \A j \in 1 .. Len(b.cols) : b.cols[j].len = b.rows + (IF j <= 0 THEN 1 ELSE 0)
        /\ Filling(b, k.cols) /\ ~Shares(b)
    BY <1>1, <2>1, NewHolds
  <2> QED BY <2>2 DEF b, k
<1> QED BY <1>1, <1>2 DEF PathIInv

-----------------------------------------------------------------------------
(* The theorems. *)

\* Every step of the path keeps the invariant: bitmaps and arrays reach as far
\* as the columns, and what is filled so far shows what was appended.
THEOREM PathInductive == Spec => []PathIInv
<1>1. PathIInv /\ [Next]_vars => PathIInv'
  <2> SUFFICES ASSUME PathIInv, [Next]_vars PROVE PathIInv'
    OBVIOUS
  <2>1. CASE ScanNull
    BY <2>1, ScanNullKeeps
  <2>2. CASE /\ phase = "scan"
             /\ \E c \in Cells(oids[filled + 1]) \ {NULL} : ScanCell(c) \/ DecodeFails(c)
    BY <2>2, ScanCellKeeps, DecodeFailsKeeps
  <2>3. CASE HandOver
    BY <2>3, HandOverKeeps
  <2>4. CASE \E f \in Filters : Filter(f)
    BY <2>4, FilterKeeps
  <2>5. CASE \E p \in Projections : Project(p)
    BY <2>5, ProjectKeeps
  <2>6. CASE \E f \in Filters, p \in Projections : FilterProject(f, p)
    BY <2>6, FilterProjectKeeps
  <2>7. CASE \E s \in Selections : Choose(s)
    BY <2>7, ChooseKeeps
  <2>8. CASE Refused
    BY <2>8, RefusedKeeps
  <2>9. CASE Rebox
    BY <2>9, ReboxKeeps
  <2>10. CASE Reset
    BY <2>10, ResetKeeps
  <2>11. CASE \E v \in Values(batch.fields[filled + 1]) : OwnerAppends(v)
    BY <2>11, OwnerAppendsKeeps
  <2>12. CASE Renew
    BY <2>12, RenewKeeps
  <2>13. CASE UNCHANGED vars
    BY <2>13 DEF vars, PathIInv
  <2> QED BY <2>1, <2>2, <2>3, <2>4, <2>5, <2>6, <2>7, <2>8, <2>9, <2>10, <2>11, <2>12, <2>13 DEF Next
<1> QED BY InitHolds, <1>1, PTL DEF Spec

\* Whatever is appended, filtered, projected, boxed or reset, in the middle of a
\* row and after a failed decode, IsNull never reads past the end of a bitmap.
THEOREM BitmapsFit == Spec => []BitmapFits
<1>1. PathIInv => BitmapFits
  <2> SUFFICES ASSUME PathIInv PROVE BitmapFits
    OBVIOUS
  <2>1. Sound(batch)
    BY DEF PathIInv
  <2>2. DOMAIN batch.cols = 1 .. Len(batch.cols)
    BY <2>1, ListDomain DEF Sound
  <2> QED BY <2>1, <2>2 DEF BitmapFits, Sound, Fitted
<1> QED BY <1>1, PathInductive, PTL

\* A full batch and the chunk the row path makes of the same rows hold the same
\* cells in the same order, whatever the columns, the cells the server sends and
\* the chain of filters, projections, selections, boxings, resets and refills,
\* up to the step, if it comes, that makes them part: a bool filter of which Cmp
\* is not Eq, a filter that leaves a reordering selection as long as the batch,
\* a cell that changes another column over the same array.
THEOREM PathsAgree == Spec => []RowPathAgrees
<1>1. PathIInv => RowPathAgrees
  <2> SUFFICES ASSUME PathIInv, phase = "full", ~apart PROVE ToChunk(batch) = chunk
    BY DEF RowPathAgrees
  <2>1. Full(batch) /\ chunk.cols = Shown(batch)
    BY FullNow
  <2>2. chunk = [fields |-> batch.fields, cols |-> chunk.cols]
    BY DEF PathIInv
  <2>3. ToChunk(batch) = [fields |-> batch.fields, cols |-> Shown(batch)]
    BY <2>1, ToChunkShown DEF Full
  <2> QED BY <2>1, <2>2, <2>3
<1> QED BY <1>1, PathInductive, PTL
=============================================================================
