------------------------------- MODULE AggInv -------------------------------
(***************************************************************************)
(* What keeps an aggregator together, and the groups it stands for: a map   *)
(* from keys to measures, to which Add, Merge and Reset can be compared     *)
(* without looking into a table.                                            *)
(***************************************************************************)
EXTENDS Aggregators

Measures == [rows : Int, count : Int, sum : Int]

\* Finitely many groups under keys of K.
IsMap(t, K) == /\ IsFiniteSet(DOMAIN t) /\ DOMAIN t \subseteq K
               /\ t \in [DOMAIN t -> Measures]

Keys == Int \cup {NULL}

\* nil is not a table.
NilIsNoTable == NULL # [x \in DOMAIN NULL |-> NULL[x]]

-----------------------------------------------------------------------------
(* Tables.                                                                  *)

\* The list of a dense table of n slots names each slot in use once.
DenseFits(d, n) ==
  /\ d \in [present : [0 .. n - 1 -> BOOLEAN], pay : [0 .. n - 1 -> Measures], occupied : Seq(0 .. n - 1)]
  /\ IsInjective(d.occupied)
  /\ Range(d.occupied) = {i \in 0 .. n - 1 : d.present[i]}

\* A dictionary gives the keys indexes in the order they came in.
DictFits(d) ==
  /\ d \in [ids : [Range(d.keys) -> DOMAIN d.keys], keys : Seq(Int), pay : Seq(Measures)]
  /\ IsInjective(d.keys)
  /\ Len(d.pay) = Len(d.keys)
  /\ \A n \in DOMAIN d.keys : d.ids[d.keys[n]] = n

NullFits(g) ==
  /\ g.hasNull \in BOOLEAN /\ g.nullKey \in Measures
  /\ ~g.hasNull => g.nullKey = Zero

\* No key has a place in the array and one in the spill table.
IntFits(g) ==
  /\ DOMAIN g = {"kind", "mod", "hasVal", "dense", "oa", "spill", "nullKey", "hasNull"}
  /\ g.mod \in Int /\ g.hasVal \in BOOLEAN
  /\ NullFits(g)
  /\ g.dense # NULL => g.mod > 0 /\ DenseFits(g.dense, g.mod) /\ g.oa = NULL
  /\ g.dense = NULL => g.spill = NULL
  /\ g.spill # NULL => IsMap(g.spill, Int \ (0 .. g.mod - 1))
  /\ g.oa # NULL => IsMap(g.oa, Int)

StringFits(g) ==
  /\ DOMAIN g = {"kind", "hasVal", "dict", "nullKey", "hasNull"}
  /\ g.hasVal \in BOOLEAN
  /\ NullFits(g)
  /\ g.dict # NULL => DictFits(g.dict)

GlobalFits(g) == DOMAIN g = {"kind", "total"} /\ g.total \in Measures

Fits(g) ==
  /\ g.kind \in {"int64", "string", "global"}
  /\ g.kind = "int64" => IntFits(g)
  /\ g.kind = "string" => StringFits(g)
  /\ g.kind = "global" => GlobalFits(g)

-----------------------------------------------------------------------------
(* The groups.                                                              *)

Used(d) == {i \in DOMAIN d.present : d.present[i]}

InDense(d) == [i \in Used(d) |-> d.pay[i]]

Spilled(g) == IF g.spill = NULL THEN EmptyMap ELSE g.spill

InDict(d) == [k \in DOMAIN d.ids |-> d.pay[d.ids[k]]]

\* The groups in the tables.
Held(g) ==
  IF g.kind = "string" THEN IF g.dict = NULL THEN EmptyMap ELSE InDict(g.dict)
  ELSE IF g.dense # NULL THEN MapInto(InDense(g.dense), Spilled(g))
  ELSE IF g.oa # NULL THEN g.oa
  ELSE EmptyMap

NullGroup(g) == IF g.hasNull THEN [k \in {NULL} |-> g.nullKey] ELSE EmptyMap

GroupsOf(g) == MapInto(Held(g), NullGroup(g))

\* The measures of a map, added up.
Total(t) == FoldFunction(Plus, Zero, t)

\* g stands for the groups of t, or for their total.
Matches(g, t) == IF g.kind = "global" THEN g.total = Total(t) ELSE GroupsOf(g) = t

\* The maps f[a + 1] to f[b] in one.
Joined(f, a, b) == FoldLeft(MapInto, EmptyMap, [i \in 1 .. b - a |-> f[a + i]])

\* How rows are reduced and measured for g.
ModOf(g) == IF g.kind = "int64" THEN g.mod ELSE 0
HasValOf(g) == g.kind = "global" \/ g.hasVal
=============================================================================
