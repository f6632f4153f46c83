-------------------------- MODULE ParallelCallsInv --------------------------
(***************************************************************************)
(* The inductive invariant of the fan-out of ParallelCalls: how many tokens *)
(* there are, how far each worker has come in its shard, and what its error *)
(* says.                                                                    *)
(***************************************************************************)
EXTENDS ParallelCalls, AggInv

RunTypes ==
  /\ Len(batches) \in Nat /\ DOMAIN batches = 1 .. Len(batches)
  /\ workers \in Nat \ {0}
  /\ at \in [Workers -> Nat]
  /\ wpc \in [Workers -> {"new", "run", "send", "done"}]
  /\ errs \in [Workers -> Nat \cup {NULL}]
  /\ tokens \in Nat /\ awaited \in Nat

Done == {w \in Workers : wpc[w] = "done"}

\* A worker sends one token, last of all.
TokensCounted == tokens + awaited = Cardinality(Done)

\* No worker runs before the call has spawned it, and the caller goes on only
\* with a token from each.
Phases ==
  /\ cpc = "spawn" => /\ \A w \in Workers : wpc[w] = "new" /\ errs[w] = NULL
                      /\ tokens = 0 /\ awaited = 0
  /\ cpc # "spawn" => \A w \in Workers : wpc[w] # "new"
  /\ cpc \notin {"spawn", "wait"} => awaited = workers

\* A worker stops at the first bad batch of its shard, or at the end of it.
Shards ==
  \A w \in Workers : wpc[w] # "new" =>
    /\ \A i \in ShardStart(w, Len(batches), workers) + 1 .. at[w] : ~OutOfRange(batches[i])
    /\ wpc[w] = "run" => errs[w] = NULL
    /\ wpc[w] # "run" /\ errs[w] = NULL => at[w] >= ShardEnd(w)
    /\ errs[w] # NULL => /\ errs[w] = at[w] + 1
                         /\ at[w] < ShardEnd(w)
                         /\ OutOfRange(batches[at[w] + 1])

Answer == cpc = "failed" => Failed # {} /\ failedAt = errs[FirstFailed]

-----------------------------------------------------------------------------
(* The parallel merge.                                                      *)

\* There are mergers only after the barrier of the workers, and only for locals
\* with dense tables.
MergePhases ==
  /\ parts \in Nat
  /\ parts > 0 => /\ kind = "int64" /\ Mod \in Nat \ {0}
                  /\ cpc \in {"barrier", "spill", "ok"}
                  /\ mat \in [Mergers -> Nat]
                  /\ mpc \in [Mergers -> {"run", "done"}]
                  /\ occ \in [Mergers -> Seq(Int)]
                  /\ {"dense"} \subseteq DOMAIN out
                  /\ {"present", "occupied"} \subseteq DOMAIN out.dense
                  /\ out.dense.present \in [0 .. Mod - 1 -> BOOLEAN]
  /\ parts > 0 /\ cpc # "barrier" => \A p \in Mergers : mpc[p] = "done"

\* The slots of merger p.
SlotsOf(p) == Lo(p) .. Lo(p + 1) - 1

\* A merger has listed the slots in use in its range, each once.
ListsMatch ==
  parts > 0 =>
    \A p \in Mergers :
      /\ IsInjective(occ[p])
      /\ Range(occ[p]) = {i \in SlotsOf(p) : out.dense.present[i]}

\* The caller has put the lists together.
Collected ==
  parts > 0 /\ cpc # "barrier" =>
    out.dense.occupied = FlattenSeq([n \in 1 .. parts |-> occ[n - 1]])

MergeIInv == MergePhases /\ ListsMatch /\ Collected

-----------------------------------------------------------------------------
(* The groups.                                                              *)

\* How a call reduces and measures its rows.
CallMod(k) == IF k = "int64" THEN Mod ELSE 0
CallHasVal(k) == k = "global" \/ HasVal

\* The groups of each batch.
BatchGroups(k, bs) ==
  [i \in DOMAIN bs |-> RefRows(EmptyMap, Selected(bs[i]), CallMod(k), CallHasVal(k))]

\* g is an aggregator of call k and stands for the groups of t.
StandsFor(k, g, t) ==
  /\ g.kind = k /\ ModOf(g) = CallMod(k) /\ HasValOf(g) = CallHasVal(k)
  /\ Fits(g)
  /\ Matches(g, t)

\* g has the table the call has decided on.
HasTables(k, dense, g) ==
  k = "int64" => IF dense THEN g.dense # NULL ELSE g.dense = NULL /\ g.oa # NULL

Start(w) == ShardStart(w, Len(batches), workers)

\* A worker has the groups of its shard as far as it has come.
LocalsStand ==
  /\ DOMAIN locals = Workers
  /\ \A w \in Workers : HasTables(kind, WantDenseParallel, locals[w])
  /\ \A w \in Workers : wpc[w] = "new" => StandsFor(kind, locals[w], EmptyMap)
  /\ \A w \in Workers : wpc[w] # "new" =>
       /\ Start(w) <= at[w] /\ at[w] <= ShardEnd(w)
       /\ StandsFor(kind, locals[w], Joined(BatchGroups(kind, batches), Start(w), at[w]))

CallMade == [kind |-> kind, batches |-> batches] \in Cases

\* Only a call without a failure goes on to merge.
Outcome ==
  /\ cpc \in {"spawn", "wait", "failed", "merge", "barrier", "spill", "ok"}
  /\ cpc \in {"merge", "barrier", "spill", "ok"} => Failed = {}

\* The groups in the tables of the locals, first worker first, and the others.
TableOf(dense, g) == IF dense THEN InDense(g.dense) ELSE g.oa
RestOf(g) == MapInto(Spilled(g), NullGroup(g))

Tables == [n \in 1 .. workers |-> TableOf(WantDenseParallel, locals[n - 1])]
Rests == [n \in 1 .. workers |-> RestOf(locals[n - 1])]

\* How often a merger of so many slots has come past slot y, the first being 0,
\* when it has merged m cells.
Passed(m, width, y) == (m \div width) + (IF y < m % width THEN 1 ELSE 0)

\* Slot i of d is that of the groups of t.
SlotStands(d, i, t) ==
  /\ d.present[i] <=> i \in DOMAIN t
  /\ d.present[i] => d.pay[i] = t[i]

\* A slot of the shared array is that of the locals merged into it so far.
SlotsMerged ==
  cpc = "barrier" =>
    /\ kind = "int64" /\ WantDenseParallel /\ parts > 0
    /\ out = [NewAgg EXCEPT !.dense = out.dense]
    /\ out.dense \in [present : [0 .. Mod - 1 -> BOOLEAN], pay : [0 .. Mod - 1 -> Measures],
                       occupied : {<< >>}]
    /\ \A p \in Mergers :
         /\ mat[p] <= Cells(p)
         /\ mpc[p] = "done" => mat[p] = Cells(p)
         /\ \A i \in SlotsOf(p) :
              SlotStands(out.dense, i,
                         Joined(Tables, 0, Passed(mat[p], Lo(p + 1) - Lo(p), i - Lo(p))))

\* Between the two halves of the merge the tables are merged and nothing else.
TablesMerged ==
  cpc = "spill" =>
    /\ kind = "int64"
    /\ StandsFor(kind, out, Joined(Tables, 0, workers))
    /\ HasTables(kind, WantDenseParallel, out)

\* In the end the result has the groups of all batches.
ResultStands ==
  cpc = "ok" => StandsFor(kind, out, Joined(BatchGroups(kind, batches), 0, Len(batches)))

AnswerIInv == CallMade /\ Outcome /\ LocalsStand /\ SlotsMerged /\ TablesMerged /\ ResultStands

-----------------------------------------------------------------------------
ParallelIInv == RunTypes /\ TokensCounted /\ Phases /\ Shards /\ Answer
=============================================================================
