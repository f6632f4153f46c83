--------------------------- MODULE ParallelCalls ----------------------------
(***************************************************************************)
(* ParallelGlobalAgg, ParallelGroupByInt64 and ParallelGroupByString:      *)
(* shards folded by workers of their own, then the locals merged, dense    *)
(* tables past the gate by mergers that share the output array.            *)
(***************************************************************************)
EXTENDS Aggregators

CONSTANTS
  Mod, HasVal,      \* arguments of the call; valCol >= 0
  Cases,            \* calls to look at: [kind, batches]
  Requests,
  ParSlots,         \* denseParBudget / denseBytesPerSlot
  MinMergers,       \* workers below which wantParallelMerge says no
  MinTotal,         \* radixMergeMinTotal
  MaxParts          \* radixMergeMaxParts

\* checkAggColumn: a selection must stay inside the batch.
OutOfRange(b) == b.sel # NULL /\ \E i \in DOMAIN b.sel : b.sel[i] < 0 \/ b.sel[i] >= Len(b.rows)

\* The batches of a call are a sequence, a selection that stays inside a batch
\* picks rows, and no number is NULL.
ASSUME ParallelAssumption ==
  /\ NULL \notin Int
  /\ \A c \in Cases : /\ c.kind \in {"int64", "string", "global"}
                      /\ Len(c.batches) \in Nat /\ DOMAIN c.batches = 1 .. Len(c.batches)
                      /\ \A i \in DOMAIN c.batches :
                           ~OutOfRange(c.batches[i]) => Selected(c.batches[i]) \in Seq(Rows)
  /\ Mod \in Int
  /\ Requests \subseteq Int
  /\ HasVal \in BOOLEAN
  /\ ParSlots \in Nat
  /\ {MinMergers, MinTotal, MaxParts} \subseteq Nat
  /\ MaxParts >= 2

VARIABLES
  kind,             \* which of the three calls this is
  batches, workers, locals, at, wpc, errs, tokens, awaited, cpc, failedAt,
  out,              \* the aggregator returned
  parts,            \* number of mergers
  mat,              \* per merger: cells merged so far
  mpc,              \* per merger: "run" or "done"
  occ               \* per merger: the slots it filled

INSTANCE ParallelRun WITH
  Inputs <- {c.batches : c \in Cases}, IsBad <- OutOfRange, Fold <- AddTo

mergeVars == <<out, parts, mat, mpc, occ>>

shardVars == <<kind, batches, workers, locals, at, wpc, errs, tokens, awaited, failedAt>>

vars == <<shardVars, cpc, mergeVars>>

WantDenseParallel == kind = "int64" /\ UseDense(Mod) /\ Mod * (workers + 1) <= ParSlots

NewAgg ==
  CASE kind = "global" -> NewGlobal
    [] kind = "string" -> NewString(HasVal)
    [] kind = "int64"  -> IF WantDenseParallel \/ ~UseDense(Mod) THEN NewGroupBy(Mod, HasVal)
                                                                 ELSE NewGroupByOA(Mod, HasVal)

Init ==
  /\ kind \in {c.kind : c \in Cases}
  /\ RunInit
  /\ [kind |-> kind, batches |-> batches] \in Cases
  /\ locals = [w \in Workers |-> NewAgg]
  /\ out = NULL
  /\ parts = 0
  /\ mat = << >>
  /\ mpc = << >>
  /\ occ = << >>

-----------------------------------------------------------------------------
(* The merge. *)

LocalSeq == [n \in 1 .. workers |-> locals[n - 1]]

TotalUsed == FoldLeft(LAMBDA n, g : n + Len(g.dense.occupied), 0, LocalSeq)

WantParallelMerge == workers >= MinMergers /\ TotalUsed >= MinTotal

MergeParts == IF workers < 2 THEN 2 ELSE IF workers > MaxParts THEN MaxParts ELSE workers

Mergers == 0 .. parts - 1

\* out is always an aggregator of its own.
MergeArrays ==
  /\ cpc = "merge"
  /\ WantDenseParallel
  /\ ~WantParallelMerge
  /\ out' = [NewAgg EXCEPT !.dense = FoldLeft(LAMBDA t, g : DenseMerge(t, g.dense), @, LocalSeq)]
  /\ cpc' = "spill"
  /\ UNCHANGED <<shardVars, parts, mat, mpc, occ>>

SpawnMergers ==
  /\ cpc = "merge"
  /\ WantDenseParallel
  /\ WantParallelMerge
  /\ out' = NewAgg
  /\ parts' = MergeParts
  /\ mat' = [p \in 0 .. MergeParts - 1 |-> 0]
  /\ mpc' = [p \in 0 .. MergeParts - 1 |-> "run"]
  /\ occ' = [p \in 0 .. MergeParts - 1 |-> << >>]
  /\ cpc' = "barrier"
  /\ UNCHANGED shardVars

Lo(p) == ShardStart(p, Mod, parts)

\* Mutant of Cells: each range also takes the first slot of the next.
CellsOverlap(p) == workers * ((IF p = parts - 1 THEN Lo(p + 1) ELSE Lo(p + 1) + 1) - Lo(p))

Cells(p) == workers * (Lo(p + 1) - Lo(p))

\* Slot i of array d with the group array l has there.
CellInto(d, i, l) ==
  IF ~l.present[i] THEN d
  ELSE IF d.present[i] THEN [d EXCEPT !.pay[i] = Plus(@, l.pay[i])]
  ELSE [d EXCEPT !.present[i] = TRUE, !.pay[i] = l.pay[i]]

\* Merger p goes through its index range once per local; it owns the range.
MergeCell(p) ==
  /\ mpc[p] = "run"
  /\ mat[p] < Cells(p)
  /\ LET width == Cells(p) \div workers
         i == Lo(p) + (mat[p] % width)
         l == locals[mat[p] \div width].dense
     IN  /\ out' = [out EXCEPT !.dense = CellInto(@, i, l)]
         /\ occ' = IF l.present[i] /\ ~out.dense.present[i] THEN [occ EXCEPT ![p] = Append(@, i)] ELSE occ
  /\ mat' = [mat EXCEPT ![p] = @ + 1]
  /\ UNCHANGED <<shardVars, cpc, parts, mpc>>

MergerDone(p) ==
  /\ mpc[p] = "run"
  /\ mat[p] >= Cells(p)
  /\ mpc' = [mpc EXCEPT ![p] = "done"]
  /\ UNCHANGED <<shardVars, cpc, out, parts, mat, occ>>

\* barrier has received a token from every merger.
Barrier == cpc = "barrier" /\ \A p \in Mergers : mpc[p] = "done"

\* Mutant of Collect: leaves out the last list.
CollectAllButLast ==
  /\ Barrier
  /\ out' = [out EXCEPT !.dense.occupied = FlattenSeq([n \in 1 .. parts - 1 |-> occ[n - 1]])]
  /\ cpc' = "spill"
  /\ UNCHANGED <<shardVars, parts, mat, mpc, occ>>

Collect ==
  /\ Barrier
  /\ out' = [out EXCEPT !.dense.occupied = FlattenSeq([n \in 1 .. parts |-> occ[n - 1]])]
  /\ cpc' = "spill"
  /\ UNCHANGED <<shardVars, parts, mat, mpc, occ>>

MergeOA ==
  /\ cpc = "merge"
  /\ kind = "int64" /\ ~WantDenseParallel
  /\ out' = [NewAgg EXCEPT !.oa = FoldLeft(LAMBDA t, g : MapInto(t, g.oa), @, LocalSeq)]
  /\ cpc' = "spill"
  /\ UNCHANGED <<shardVars, parts, mat, mpc, occ>>

MergeRest(g, l) == MergeNull(MergeSpill(g, l), l)

\* The rest of the call: the spill tables of dense locals and the NULL groups.
Finish ==
  /\ cpc = "spill"
  /\ out' = FoldLeft(MergeRest, out, LocalSeq)
  /\ cpc' = "ok"
  /\ UNCHANGED <<shardVars, parts, mat, mpc, occ>>

\* The other two calls merge one local after the other.  A string local has
\* its dictionary from the start, and the NULL groups are merged before them.
MergeInSequence ==
  /\ cpc = "merge"
  /\ kind # "int64"
  /\ out' = FoldLeft(MergeAgg, NewAgg, LocalSeq)
  /\ cpc' = "ok"
  /\ UNCHANGED <<shardVars, parts, mat, mpc, occ>>

Merger(p) == MergeCell(p) \/ MergerDone(p)

MergeCaller == MergeArrays \/ SpawnMergers \/ Collect \/ MergeOA \/ Finish \/ MergeInSequence

Returned == cpc \in {"ok", "failed"}

Next ==
  \/ RunNext /\ UNCHANGED <<kind, mergeVars>>
  \/ MergeCaller
  \/ \E p \in Mergers : Merger(p)

Spec == Init /\ [][Next]_vars

\* Go runs every goroutine that can run.
MaxWorkers == Max(Requests \cup {1})

FairSpec ==
  /\ Spec
  /\ WF_vars((RunCaller /\ UNCHANGED <<kind, mergeVars>>) \/ MergeCaller)
  /\ \A w \in 0 .. MaxWorkers - 1 : WF_vars(w \in Workers /\ Worker(w) /\ UNCHANGED <<kind, mergeVars>>)
  /\ \A p \in 0 .. MaxParts - 1 : WF_vars(p \in Mergers /\ Merger(p))

-----------------------------------------------------------------------------
(* Properties. *)

\* Every call comes back.
CallReturns == <>Returned

\* After a parallel merge the occupied list, by which results are read and
\* tables reset, names each slot in use once.
MergedListsEachSlot ==
  (cpc = "ok" /\ parts > 0) =>
    LET o == out.dense.occupied
    IN  /\ IsInjective(o)
        /\ {o[n] : n \in DOMAIN o} = {i \in DOMAIN out.dense.present : out.dense.present[i]}

\* The groups one aggregator would report after adding the batches in order.
Groups(k, bs) ==
  LET mod == IF k = "int64" THEN Mod ELSE 0
      hasVal == k = "global" \/ HasVal
  IN  FoldLeft(IntoAll, EmptyMap, [i \in DOMAIN bs |-> RefEntries(Selected(bs[i]), mod, hasVal)])

\* What the call has answered so far; a result that does not report the groups
\* it should answers nothing that was promised.
Answered ==
  CASE cpc = "failed" -> [status |-> "error", batch |-> failedAt]
    [] cpc = "ok" -> [status |-> "ok",
                      value |-> IF Reports(out, Groups(kind, batches)) THEN Groups(kind, batches)
                                ELSE NULL]
    [] OTHER -> [status |-> "pending"]

Promise == INSTANCE AggCall WITH IsBad <- OutOfRange, Folded <- Groups, result <- Answered

\* However the batches are sharded and the locals merged, the call answers
\* once, with the groups of a sequential fold or its first error.
RefinesAggCall == Promise!Spec
=============================================================================
