----------------------------- MODULE GroupByInv -----------------------------
(***************************************************************************)
(* The inductive invariant of GroupBy: every aggregator is well formed and  *)
(* stands for the groups of its rows.                                       *)
(***************************************************************************)
EXTENDS GroupBy, AggInv

KindMade(s) ==
  CASE s.made \in {"int64", "int64 literal"}   -> "int64"
    [] s.made \in {"string", "string literal"} -> "string"
    [] OTHER                                   -> "global"

\* g, built as s says, stands for the groups of t.
Stands(g, s, t) ==
  /\ g.kind = KindMade(s)
  /\ ModOf(g) = s.mod
  /\ HasValOf(g) = s.hasVal
  /\ Fits(g)
  /\ IsMap(t, Keys)
  /\ Matches(g, t)

GroupIInv ==
  /\ shapes \in Families
  /\ DOMAIN agg = Aggs /\ DOMAIN ref = Aggs
  /\ \A x \in Aggs : Stands(agg[x], shapes[x], ref[x])
=============================================================================
