--------------------------------- MODULE AggProofs ----------------------------
(***************************************************************************)
(* Proofs about aggregation.  Whatever is added to an aggregator, merged    *)
(* into it and reset in any order, it reports the groups of its rows, each  *)
(* once.  Of the Parallel* calls, for any batches, any number of workers    *)
(* asked for and whatever Add does with a batch: nobody works on after the  *)
(* barrier, the error returned is that of the first bad batch, a parallel   *)
(* merge lists each slot in use once, and the call answers with the groups  *)
(* of a sequential fold.                                                    *)
(***************************************************************************)
EXTENDS GroupByInv, ParallelCallsInv, AggLemmas

-----------------------------------------------------------------------------
(* New aggregators.                                                         *)

LEMMA MadeFresh ==
  ASSUME NilIsNoTable,
         NEW s, s.mod \in Int, s.hasVal \in BOOLEAN,
         s.made \in {"int64", "int64 literal", "string", "string literal", "global"},
         s.made \in {"string", "string literal"} => s.mod = 0,
         s.made = "global" => s.mod = 0 /\ s.hasVal
  PROVE  Fresh(Made(s), KindMade(s), s.mod, s.hasVal)
<1>1. CASE s.made = "int64"
  BY <1>1, IntMade DEF Made, KindMade
<1>2. CASE s.made = "int64 literal"
  BY <1>2, IntMade DEF Made, KindMade
<1>3. CASE s.made = "string"
  BY <1>3, StringMade DEF Made, KindMade
<1>4. CASE s.made = "string literal"
  BY <1>4, StringMade DEF Made, KindMade
<1>5. CASE s.made = "global"
  <2>1. s.mod = 0 /\ s.hasVal = TRUE
    BY <1>5
  <2> QED BY <1>5, <2>1, GlobalMade DEF Made, KindMade
<1> QED BY <1>1, <1>2, <1>3, <1>4, <1>5

LEMMA FreshStands ==
  ASSUME NEW g, NEW s, Fresh(g, KindMade(s), s.mod, s.hasVal)
  PROVE  Stands(g, s, EmptyMap)
BY EmptyIsMap DEF Fresh, Stands

\* What changes only the tables and the groups keeps what was made.
LEMMA StandsFollows ==
  ASSUME NEW g, NEW s, NEW t, Stands(g, s, t), NEW f, Like(f, g),
         NEW u, IsMap(u, Keys), Matches(f, u)
  PROVE  Stands(f, s, u)
BY DEF Stands, Like

-----------------------------------------------------------------------------
(* The invariant.                                                           *)

LEMMA GroupInitIInv ==
  ASSUME NilIsNoTable, GroupInit
  PROVE  GroupIInv
<1>1. /\ shapes \in Families
      /\ agg = [x \in Aggs |-> Made(shapes[x])]
      /\ ref = [x \in Aggs |-> EmptyMap]
  BY DEF GroupInit
<1>2. ASSUME NEW x \in Aggs PROVE Stands(agg[x], shapes[x], ref[x])
  <2>1. /\ shapes[x].mod \in Int /\ shapes[x].hasVal \in BOOLEAN
        /\ shapes[x].made \in {"int64", "int64 literal", "string", "string literal", "global"}
        /\ shapes[x].made \in {"string", "string literal"} => shapes[x].mod = 0
        /\ shapes[x].made = "global" => shapes[x].mod = 0 /\ shapes[x].hasVal
    BY <1>1, GroupByAssumption DEF Aggs
  <2>2. Stands(Made(shapes[x]), shapes[x], EmptyMap)
    BY <2>1, MadeFresh, FreshStands
  <2> QED BY <1>1, <2>2
<1> QED BY <1>1, <1>2 DEF GroupIInv

LEMMA GroupAdd ==
  ASSUME NilIsNoTable, GroupIInv, NEW x \in Aggs, NEW b \in Batches, Add(x, b)
  PROVE  GroupIInv'
<1> DEFINE g == agg[x]
           s == shapes[x]
           t == ref[x]
           f == AddTo(g, b)
           u == RefRows(t, Selected(b), s.mod, s.hasVal)
<1>1. /\ agg' = [agg EXCEPT ![x] = f] /\ ref' = [ref EXCEPT ![x] = u] /\ shapes' = shapes
  BY DEF Add
<1>2. Stands(g, s, t) /\ DOMAIN agg = Aggs /\ DOMAIN ref = Aggs /\ shapes \in Families
  BY DEF GroupIInv
<1>3. NULL \notin Int /\ Selected(b) \in Seq(Rows) /\ s.mod \in Int /\ s.hasVal \in BOOLEAN
  BY <1>2, GroupByAssumption DEF Aggs
<1> HIDE DEF g, s, t, u
<1>4. Fits(g) /\ IsMap(t, Keys) /\ Matches(g, t) /\ ModOf(g) = s.mod /\ HasValOf(g) = s.hasVal
  BY <1>2 DEF Stands
<1>5. Like(f, g) /\ Matches(f, RefRows(t, Selected(b), ModOf(g), HasValOf(g)))
  BY <1>3, <1>4, AddFits
<1>6. IsMap(u, Keys)
  BY <1>3, <1>4, RefRowsIsMap DEF u
<1>7. Matches(f, u)
  BY <1>4, <1>5 DEF u
<1> HIDE DEF f
<1>8. Stands(f, s, u)
  BY <1>2, <1>5, <1>6, <1>7, StandsFollows
<1>9. ASSUME NEW z \in Aggs PROVE Stands(agg'[z], shapes'[z], ref'[z])
  <2>1. CASE z = x
    <3>1. agg'[z] = f /\ ref'[z] = u /\ shapes'[z] = s
      BY <1>1, <1>2, <2>1 DEF s
    <3> QED BY <1>8, <3>1
  <2>2. CASE z # x
    <3>1. agg'[z] = agg[z] /\ ref'[z] = ref[z] /\ shapes'[z] = shapes[z]
      BY <1>1, <1>2, <2>2
    <3>2. Stands(agg[z], shapes[z], ref[z])
      BY DEF GroupIInv
    <3> QED BY <3>1, <3>2
  <2> QED BY <2>1, <2>2
<1>10. Aggs' = Aggs /\ DOMAIN agg' = Aggs /\ DOMAIN ref' = Aggs /\ shapes' \in Families
  BY <1>1, <1>2 DEF Aggs
<1> QED BY <1>9, <1>10 DEF GroupIInv

LEMMA GroupMerge ==
  ASSUME NilIsNoTable, GroupIInv, NEW x \in Aggs, NEW y \in Aggs, Merge(x, y)
  PROVE  GroupIInv'
<1> DEFINE g == agg[x]
           o == agg[y]
           f == MergeAgg(g, o)
           p == MergedFrom(o)
           u == MapInto(ref[x], ref[y])
<1>1. /\ g.kind = o.kind
      /\ agg' = [[agg EXCEPT ![y] = p] EXCEPT ![x] = f]
      /\ ref' = [ref EXCEPT ![x] = u] /\ shapes' = shapes
  BY DEF Merge
<1>2. /\ Stands(g, shapes[x], ref[x]) /\ Stands(o, shapes[y], ref[y])
      /\ DOMAIN agg = Aggs /\ DOMAIN ref = Aggs /\ shapes \in Families
  BY DEF GroupIInv
<1>3. /\ Fits(g) /\ IsMap(ref[x], Keys) /\ Matches(g, ref[x])
      /\ Fits(o) /\ IsMap(ref[y], Keys) /\ Matches(o, ref[y])
  BY <1>2 DEF Stands
<1> HIDE DEF g, o, u
<1>4. Like(f, g) /\ Matches(f, u)
  BY <1>1, <1>3, MergeFits DEF u
<1>5. Like(p, o) /\ Matches(p, ref[y])
  BY <1>3, MergedFromFits
<1> HIDE DEF f, p
<1>6. IsMap(u, Keys)
  BY <1>3, JoinIsMap DEF u
<1>7. Stands(f, shapes[x], u)
  BY <1>2, <1>4, <1>6, StandsFollows
<1>8. Stands(p, shapes[y], ref[y])
  BY <1>2, <1>3, <1>5, StandsFollows
<1>9. ASSUME NEW z \in Aggs PROVE Stands(agg'[z], shapes'[z], ref'[z])
  <2>1. CASE z = x
    <3>1. agg'[z] = f /\ ref'[z] = u /\ shapes'[z] = shapes[x]
      BY <1>1, <1>2, <2>1
    <3> QED BY <1>7, <3>1
  <2>2. CASE z # x /\ z = y
    <3>1. agg'[z] = p /\ ref'[z] = ref[y] /\ shapes'[z] = shapes[y]
      BY <1>1, <1>2, <2>2
    <3> QED BY <1>8, <3>1
  <2>3. CASE z # x /\ z # y
    <3>1. agg'[z] = agg[z] /\ ref'[z] = ref[z] /\ shapes'[z] = shapes[z]
      BY <1>1, <1>2, <2>3
    <3>2. Stands(agg[z], shapes[z], ref[z])
      BY DEF GroupIInv
    <3> QED BY <3>1, <3>2
  <2> QED BY <2>1, <2>2, <2>3
<1>10. Aggs' = Aggs /\ DOMAIN agg' = Aggs /\ DOMAIN ref' = Aggs /\ shapes' \in Families
  BY <1>1, <1>2 DEF Aggs
<1> QED BY <1>9, <1>10 DEF GroupIInv

LEMMA GroupReset ==
  ASSUME NilIsNoTable, GroupIInv, NEW x \in Aggs, Reset(x)
  PROVE  GroupIInv'
<1> DEFINE g == agg[x]
           f == ResetAgg(g)
<1>1. agg' = [agg EXCEPT ![x] = f] /\ ref' = [ref EXCEPT ![x] = EmptyMap] /\ shapes' = shapes
  BY DEF Reset
<1>2. /\ Stands(g, shapes[x], ref[x])
      /\ DOMAIN agg = Aggs /\ DOMAIN ref = Aggs /\ shapes \in Families
  BY DEF GroupIInv
<1> HIDE DEF g
<1>3. Fits(g)
  BY <1>2 DEF Stands
<1>4. Like(f, g) /\ Matches(f, EmptyMap)
  BY <1>3, ResetFits
<1> HIDE DEF f
<1>5. IsMap(EmptyMap, Keys)
  BY EmptyIsMap
<1>6. Stands(f, shapes[x], EmptyMap)
  BY <1>2, <1>4, <1>5, StandsFollows
<1>7. ASSUME NEW z \in Aggs PROVE Stands(agg'[z], shapes'[z], ref'[z])
  <2>1. CASE z = x
    <3>1. agg'[z] = f /\ ref'[z] = EmptyMap /\ shapes'[z] = shapes[x]
      BY <1>1, <1>2, <2>1
    <3> QED BY <1>6, <3>1
  <2>2. CASE z # x
    <3>1. agg'[z] = agg[z] /\ ref'[z] = ref[z] /\ shapes'[z] = shapes[z]
      BY <1>1, <1>2, <2>2
    <3>2. Stands(agg[z], shapes[z], ref[z])
      BY DEF GroupIInv
    <3> QED BY <3>1, <3>2
  <2> QED BY <2>1, <2>2
<1>8. Aggs' = Aggs /\ DOMAIN agg' = Aggs /\ DOMAIN ref' = Aggs /\ shapes' \in Families
  BY <1>1, <1>2 DEF Aggs
<1> QED BY <1>7, <1>8 DEF GroupIInv

\* Every aggregator stays well formed and stands for the groups of the rows
\* folded into it since its last reset, whatever Add, Merge and Reset do.
THEOREM GroupInductive ==
  ASSUME NilIsNoTable
  PROVE  GroupSpec => []GroupIInv
<1>1. GroupInit => GroupIInv
  BY GroupInitIInv
<1>2. GroupIInv /\ [GroupNext]_groupVars => GroupIInv'
  <2> SUFFICES ASSUME GroupIInv, [GroupNext]_groupVars PROVE GroupIInv'
    OBVIOUS
  <2>1. CASE \E x \in Aggs, b \in Batches : Add(x, b)
    BY <2>1, GroupAdd
  <2>2. CASE \E x, y \in Aggs : Merge(x, y)
    BY <2>2, GroupMerge
  <2>3. CASE \E x \in Aggs : Reset(x)
    BY <2>3, GroupReset
  <2>4. CASE UNCHANGED groupVars
    BY <2>4 DEF GroupIInv, Aggs, groupVars
  <2> QED BY <2>1, <2>2, <2>3, <2>4 DEF GroupNext
<1> QED BY <1>1, <1>2, PTL DEF GroupSpec

-----------------------------------------------------------------------------
(* What is reported.                                                        *)

\* Whatever the representation on either side, the groups an aggregator
\* reports are those of the rows folded into it since its last reset.
THEOREM ReportsRows ==
  ASSUME NilIsNoTable
  PROVE  GroupSpec => []ReportsItsRows
<1>1. GroupIInv => ReportsItsRows
  BY MatchReports, GroupByAssumption DEF GroupIInv, Stands, ReportsItsRows
<1>2. GroupSpec => []GroupIInv
  BY GroupInductive
<1> QED BY <1>1, <1>2, PTL

\* No group is reported twice, once by the array and once by the spill table.
THEOREM GroupsReportedOnce ==
  ASSUME NilIsNoTable
  PROVE  GroupSpec => []NoSplitGroup
<1>1. GroupIInv => NoSplitGroup
  <2> SUFFICES ASSUME GroupIInv, NEW x \in Aggs, NEW r \in LiveGroups(agg[x]),
                      NEW s \in LiveGroups(agg[x]), r.key = s.key
               PROVE  r = s
    BY DEF NoSplitGroup
  <2>1. Fits(agg[x])
    BY DEF GroupIInv, Stands
  <2>2. agg[x].kind # "global"
    BY DEF LiveGroups
  <2> QED BY <2>1, <2>2, LiveGroupsReport DEF Report
<1>2. GroupSpec => []GroupIInv
  BY GroupInductive
<1> QED BY <1>1, <1>2, PTL

-----------------------------------------------------------------------------
(* The Parallel* calls.                                                     *)

\* Finish leaves the array and its list alone.
KeepsDense(g) == "dense" \in DOMAIN g /\ g.dense = out.dense

Rest == INSTANCE FoldLemmas WITH Step <- MergeRest, Holds <- KeepsDense

-----------------------------------------------------------------------------
(* Shards.                                                                  *)

\* Division, as far as it is needed.
LEMMA Quotient ==
  ASSUME NEW a \in Nat, NEW c \in Nat \ {0}
  PROVE  /\ a \div c \in Nat
         /\ (a \div c) * c <= a
         /\ a < (a \div c) * c + c
OBVIOUS

\* Shards are taken from the batches of the call, the first from the first on.
LEMMA ShardStartRange ==
  ASSUME NEW c \in Nat \ {0}, NEW n \in Nat, NEW w \in 0 .. c
  PROVE  /\ ShardStart(w, n, c) \in 0 .. n
         /\ ShardStart(0, n, c) = 0
<1>1. w * n \in Nat /\ 0 * n = 0
  OBVIOUS
<1> DEFINE q == (w * n) \div c
<1>2. q \in Nat /\ q * c <= w * n
  BY <1>1, Quotient
<1>3. w * n <= n * c
  OBVIOUS
<1>4. q <= n
  <2> HIDE DEF q
  <2> SUFFICES ASSUME q >= n + 1 PROVE FALSE
    BY <1>2
  <2>1. q * c >= (n + 1) * c
    BY <1>2
  <2>2. (n + 1) * c = n * c + c
    OBVIOUS
  <2> QED BY <1>1, <1>2, <1>3, <2>1, <2>2
<1>5. 0 \div c = 0
  OBVIOUS
<1> QED BY <1>1, <1>2, <1>4, <1>5 DEF ShardStart

\* Whatever comes before the end of a shard is in it or in one before it.
LEMMA ShardOf ==
  ASSUME NEW c \in Nat \ {0}, NEW n \in Nat, NEW f \in 0 .. c - 1,
         NEW i \in Nat \ {0}, i <= ShardStart(f + 1, n, c)
  PROVE  \E w \in 0 .. f : i \in ShardStart(w, n, c) + 1 .. ShardStart(w + 1, n, c)
<1> DEFINE S == {w \in 0 .. f : i <= ShardStart(w + 1, n, c)}
<1>1. f \in S /\ S \in SUBSET Nat
  OBVIOUS
<1>2. PICK m \in S : \A w \in S : m <= w
  BY <1>1, Rest!LeastElement
<1>3. m \in 0 .. f /\ m \in 0 .. c /\ m + 1 \in 0 .. c /\ i <= ShardStart(m + 1, n, c)
  BY <1>2
<1>4. ShardStart(m, n, c) \in 0 .. n
  BY <1>3, ShardStartRange
<1>5. ShardStart(m + 1, n, c) \in 0 .. n
  BY <1>3, ShardStartRange
<1>6. ShardStart(m, n, c) < i
  <2>1. CASE m = 0
    BY <2>1, ShardStartRange
  <2>2. CASE m # 0
    <3>1. m - 1 \in 0 .. f /\ m - 1 \notin S /\ (m - 1) + 1 = m
      BY <1>2, <1>3, <2>2
    <3> QED BY <1>4, <3>1
  <2> QED BY <2>1, <2>2
<1> QED BY <1>3, <1>4, <1>5, <1>6

-----------------------------------------------------------------------------
(* The invariant.                                                           *)

\* Later shards start later.
LEMMA ShardsFollow ==
  ASSUME NEW c \in Nat \ {0}, NEW n \in Nat, NEW j \in 0 .. c, NEW k \in 0 .. c, j <= k
  PROVE  ShardStart(j, n, c) <= ShardStart(k, n, c)
<1> DEFINE a == j * n
           b == k * n
           x == a \div c
           y == b \div c
<1>1. a \in Nat /\ b \in Nat /\ a <= b
  OBVIOUS
<1>2. x \in Nat /\ x * c <= a
  BY <1>1, Quotient
<1>3. y \in Nat /\ b < y * c + c
  BY <1>1, Quotient
<1>4. ShardStart(j, n, c) = x /\ ShardStart(k, n, c) = y
  BY DEF ShardStart
<1> HIDE DEF a, b, x, y
<1>5. x <= y
  <2> SUFFICES ASSUME x >= y + 1 PROVE FALSE
    BY <1>2, <1>3
  <2>1. x * c >= (y + 1) * c
    BY <1>2, <1>3
  <2>2. (y + 1) * c = y * c + c /\ x * c \in Nat /\ y * c \in Nat
    BY <1>2, <1>3
  <2> QED BY <1>1, <1>2, <1>3, <2>1, <2>2
<1> QED BY <1>4, <1>5

LEMMA RunStarts == Init => ParallelIInv
<1> SUFFICES ASSUME Init PROVE ParallelIInv
  OBVIOUS
<1>1. /\ batches \in {c.batches : c \in Cases}
      /\ at = [w \in Workers |-> 0] /\ wpc = [w \in Workers |-> "new"]
      /\ errs = [w \in Workers |-> NULL] /\ tokens = 0 /\ awaited = 0 /\ cpc = "spawn"
  BY DEF Init, RunInit
<1>2. Len(batches) \in Nat /\ DOMAIN batches = 1 .. Len(batches)
  BY <1>1, ParallelAssumption
<1>3. workers \in Nat \ {0}
  <2>1. PICK req \in Requests : workers = ClampWorkers(Len(batches), req)
    BY DEF Init, RunInit
  <2> QED BY <1>2, <2>1, ParallelAssumption DEF ClampWorkers
<1>4. RunTypes
  BY <1>1, <1>2, <1>3 DEF RunTypes
<1>5. TokensCounted
  <2>1. Done = {}
    BY <1>1 DEF Done
  <2> QED BY <1>1, <2>1, FS_EmptySet DEF TokensCounted
<1> QED BY <1>1, <1>4, <1>5 DEF ParallelIInv, Phases, Shards, Answer

\* The set of workers that are done is finite and no larger than all of them.
LEMMA DoneCounted ==
  ASSUME RunTypes
  PROVE  /\ IsFiniteSet(Done) /\ Cardinality(Done) \in Nat /\ Cardinality(Done) <= workers
         /\ Cardinality(Done) = workers => Done = Workers
<1>1. IsFiniteSet(Workers) /\ Cardinality(Workers) = workers
  BY FS_Interval DEF RunTypes, Workers
<1>2. Done \in SUBSET Workers
  BY DEF Done
<1> QED BY <1>1, <1>2, FS_Subset, FS_CardinalityType

LEMMA ShardStarts ==
  ASSUME RunTypes, NEW w \in Workers
  PROVE  ShardStart(w, Len(batches), workers) \in Nat /\ ShardEnd(w) \in 0 .. Len(batches)
<1>1. workers \in Nat \ {0} /\ Len(batches) \in Nat /\ w \in 0 .. workers /\ w + 1 \in 0 .. workers
  BY DEF RunTypes, Workers
<1>2. ShardStart(w, Len(batches), workers) \in 0 .. Len(batches)
  BY <1>1, ShardStartRange
<1>3. ShardStart(w + 1, Len(batches), workers) \in 0 .. Len(batches)
  BY <1>1, ShardStartRange
<1> QED BY <1>1, <1>2, <1>3 DEF ShardEnd

LEMMA TypesStep == RunTypes /\ RunNext => RunTypes'
<1> SUFFICES ASSUME RunTypes, RunNext PROVE RunTypes'
  OBVIOUS
<1>1. ASSUME NEW w \in Workers, Worker(w) PROVE RunTypes'
  <2> USE DEF RunTypes, Workers
  <2>1. CASE FoldBatch(w)
    BY <2>1 DEF FoldBatch
  <2>2. CASE RefuseBatch(w)
    BY <2>2 DEF RefuseBatch
  <2>3. CASE EndShard(w)
    BY <2>3 DEF EndShard
  <2>4. CASE SendDone(w)
    BY <2>4 DEF SendDone
  <2> QED BY <1>1, <2>1, <2>2, <2>3, <2>4 DEF Worker
<1>2. CASE Spawn
  <2>1. \A w \in Workers : ShardStart(w, Len(batches), workers) \in Nat
    BY ShardStarts
  <2> QED BY <1>2, <2>1 DEF Spawn, RunTypes, Workers
<1>3. CASE Await \/ ReturnError \/ StartMerge
  BY <1>3 DEF Await, ReturnError, StartMerge, RunTypes, Workers
<1> QED BY <1>1, <1>2, <1>3 DEF RunNext, RunCaller

LEMMA TokensStep == ParallelIInv /\ RunNext => TokensCounted'
<1> SUFFICES ASSUME ParallelIInv, RunNext PROVE TokensCounted'
  OBVIOUS
<1>1. CASE UNCHANGED <<workers, tokens, awaited>> /\ Done' = Done
  BY <1>1 DEF ParallelIInv, TokensCounted
<1>2. ASSUME NEW w \in Workers, FoldBatch(w) \/ RefuseBatch(w) \/ EndShard(w) PROVE TokensCounted'
  <2>1. wpc[w] = "run" /\ (wpc' = wpc \/ wpc' = [wpc EXCEPT ![w] = "send"])
        /\ UNCHANGED <<workers, tokens, awaited>>
    BY <1>2 DEF FoldBatch, RefuseBatch, EndShard
  <2>2. Done' = Done
    BY <2>1 DEF ParallelIInv, RunTypes, Done, Workers
  <2> QED BY <1>1, <2>1, <2>2
<1>3. ASSUME NEW w \in Workers, SendDone(w) PROVE TokensCounted'
  <2>1. wpc[w] = "send" /\ wpc' = [wpc EXCEPT ![w] = "done"] /\ tokens' = tokens + 1
        /\ UNCHANGED <<workers, awaited>>
    BY <1>3 DEF SendDone
  <2>2. Done' = Done \cup {w} /\ w \notin Done
    BY <2>1 DEF ParallelIInv, RunTypes, Done, Workers
  <2>3. Cardinality(Done') = Cardinality(Done) + 1
    BY <2>2, DoneCounted, FS_AddElement DEF ParallelIInv
  <2>4. tokens \in Nat /\ awaited \in Nat /\ tokens + awaited = Cardinality(Done)
    BY DEF ParallelIInv, RunTypes, TokensCounted
  <2> QED BY <2>1, <2>3, <2>4 DEF TokensCounted
<1>4. CASE Spawn
  <2>1. Done' = {} /\ tokens' = 0 /\ awaited' = 0
    BY <1>4 DEF Spawn, Done, Workers, ParallelIInv, Phases
  <2> QED BY <2>1, FS_EmptySet DEF TokensCounted
<1>5. CASE Await
  <2>1. Done' = Done
    BY <1>5 DEF Await, Done, Workers
  <2> QED BY <1>5, <2>1 DEF Await, ParallelIInv, RunTypes, TokensCounted
<1>6. CASE ReturnError \/ StartMerge
  BY <1>1, <1>6 DEF ReturnError, StartMerge, Done, Workers
<1> QED BY <1>2, <1>3, <1>4, <1>5, <1>6 DEF RunNext, RunCaller, Worker

LEMMA PhasesStep == ParallelIInv /\ RunNext => Phases'
<1> SUFFICES ASSUME ParallelIInv, RunNext PROVE Phases'
  OBVIOUS
<1> USE DEF ParallelIInv, RunTypes, Phases, Workers
<1>1. ASSUME NEW w \in Workers, Worker(w) PROVE Phases'
  BY <1>1 DEF Worker, FoldBatch, RefuseBatch, EndShard, SendDone
<1>2. CASE Spawn
  BY <1>2 DEF Spawn
<1>3. CASE Await \/ ReturnError \/ StartMerge
  BY <1>3 DEF Await, ReturnError, StartMerge, AwaitedAll
<1> QED BY <1>1, <1>2, <1>3 DEF RunNext, RunCaller

LEMMA ShardsStep == ParallelIInv /\ RunNext => Shards'
<1> SUFFICES ASSUME ParallelIInv, RunNext PROVE Shards'
  OBVIOUS
<1>1. CASE UNCHANGED <<batches, workers, at, wpc, errs>>
  BY <1>1 DEF ParallelIInv, Shards, Workers, ShardStart, ShardEnd, OutOfRange
<1>2. CASE Spawn
  <2>1. \A w \in Workers : /\ wpc'[w] = "run" /\ errs'[w] = NULL
                           /\ at'[w] = ShardStart(w, Len(batches), workers)
    BY <1>2 DEF Spawn, ParallelIInv, Phases
  <2>2. UNCHANGED <<batches, workers>>
    BY <1>2 DEF Spawn
  <2>3. \A w \in Workers : ShardStart(w, Len(batches), workers) \in Nat
    BY ShardStarts DEF ParallelIInv
  <2> QED BY <2>1, <2>2, <2>3 DEF Shards, Workers
<1>3. ASSUME NEW w \in Workers, FoldBatch(w) PROVE Shards'
  <2>1. /\ wpc[w] = "run" /\ ~OutOfRange(batches[at[w] + 1])
        /\ UNCHANGED <<batches, workers, wpc, errs>> /\ at' = [at EXCEPT ![w] = @ + 1]
    BY <1>3 DEF FoldBatch
  <2>2. at[w] \in Nat /\ at'[w] = at[w] + 1 /\ \A v \in Workers : v # w => at'[v] = at[v]
    BY <2>1 DEF ParallelIInv, RunTypes
  <2>3. Workers' = Workers /\ \A v \in Workers : ShardEnd(v)' = ShardEnd(v)
    BY <2>1 DEF Workers, ShardEnd
  <2>4. errs[w] = NULL
        /\ \A i \in ShardStart(w, Len(batches), workers) + 1 .. at[w] : ~OutOfRange(batches[i])
    BY <2>1 DEF ParallelIInv, Shards
  <2>5. ASSUME NEW i \in ShardStart(w, Len(batches), workers) + 1 .. at[w] + 1
        PROVE  ~OutOfRange(batches[i])
    <3>1. ShardStart(w, Len(batches), workers) \in Nat
      BY ShardStarts DEF ParallelIInv
    <3>2. i = at[w] + 1 \/ i \in ShardStart(w, Len(batches), workers) + 1 .. at[w]
      BY <2>2, <3>1
    <3> QED BY <2>1, <2>4, <3>2
  <2> SUFFICES ASSUME NEW v \in Workers, wpc[v] # "new"
               PROVE  /\ \A i \in ShardStart(v, Len(batches), workers) + 1 .. at'[v] :
                           ~OutOfRange(batches[i])
                      /\ wpc[v] = "run" => errs[v] = NULL
                      /\ wpc[v] # "run" /\ errs[v] = NULL => at'[v] >= ShardEnd(v)
                      /\ errs[v] # NULL => /\ errs[v] = at'[v] + 1
                                           /\ at'[v] < ShardEnd(v)
                                           /\ OutOfRange(batches[at'[v] + 1])
    BY <2>1, <2>3 DEF Shards
  <2>6. CASE v = w
    BY <2>1, <2>2, <2>4, <2>5, <2>6
  <2>7. CASE v # w
    BY <2>2, <2>7 DEF ParallelIInv, Shards
  <2> QED BY <2>6, <2>7
<1>4. ASSUME NEW w \in Workers, RefuseBatch(w) PROVE Shards'
  <2>1. /\ wpc[w] = "run" /\ at[w] < ShardEnd(w) /\ OutOfRange(batches[at[w] + 1])
        /\ UNCHANGED <<batches, workers, at>>
        /\ errs' = [errs EXCEPT ![w] = at[w] + 1] /\ wpc' = [wpc EXCEPT ![w] = "send"]
    BY <1>4 DEF RefuseBatch
  <2>2. errs'[w] = at[w] + 1 /\ wpc'[w] = "send"
        /\ \A v \in Workers : v # w => errs'[v] = errs[v] /\ wpc'[v] = wpc[v]
    BY <2>1 DEF ParallelIInv, RunTypes
  <2>3. errs'[w] # NULL
    BY <2>2, ParallelAssumption DEF ParallelIInv, RunTypes
  <2>4. Workers' = Workers /\ \A v \in Workers : ShardEnd(v)' = ShardEnd(v)
    BY <2>1 DEF Workers, ShardEnd
  <2>5. \A v \in Workers : wpc[v] # "new" =>
          \A i \in ShardStart(v, Len(batches), workers) + 1 .. at[v] : ~OutOfRange(batches[i])
    BY DEF ParallelIInv, Shards
  <2> SUFFICES ASSUME NEW v \in Workers, wpc'[v] # "new"
               PROVE  /\ \A i \in ShardStart(v, Len(batches), workers) + 1 .. at[v] :
                           ~OutOfRange(batches[i])
                      /\ wpc'[v] = "run" => errs'[v] = NULL
                      /\ wpc'[v] # "run" /\ errs'[v] = NULL => at[v] >= ShardEnd(v)
                      /\ errs'[v] # NULL => /\ errs'[v] = at[v] + 1
                                            /\ at[v] < ShardEnd(v)
                                            /\ OutOfRange(batches[at[v] + 1])
    BY <2>1, <2>4 DEF Shards
  <2>6. CASE v = w
    BY <2>1, <2>2, <2>3, <2>5, <2>6
  <2>7. CASE v # w
    BY <2>2, <2>7 DEF ParallelIInv, Shards
  <2> QED BY <2>6, <2>7
<1>5. ASSUME NEW w \in Workers, EndShard(w) PROVE Shards'
  BY <1>5 DEF EndShard, ParallelIInv, RunTypes, Shards, Workers, ShardEnd
<1>6. ASSUME NEW w \in Workers, SendDone(w) PROVE Shards'
  BY <1>6 DEF SendDone, ParallelIInv, RunTypes, Shards, Workers, ShardEnd
<1>7. CASE Await \/ ReturnError \/ StartMerge
  BY <1>1, <1>7 DEF Await, ReturnError, StartMerge
<1> QED BY <1>2, <1>3, <1>4, <1>5, <1>6, <1>7 DEF RunNext, RunCaller, Worker

\* After the barrier no worker is left to change the errors.
LEMMA AwaitedAreDone ==
  ASSUME ParallelIInv, awaited = workers
  PROVE  \A w \in Workers : wpc[w] = "done"
<1>1. Cardinality(Done) = workers
  BY DoneCounted DEF ParallelIInv, RunTypes, TokensCounted
<1> QED BY <1>1, DoneCounted DEF ParallelIInv, Done

LEMMA AnswerStep == ParallelIInv /\ RunNext => Answer'
<1> SUFFICES ASSUME ParallelIInv, RunNext PROVE Answer'
  OBVIOUS
<1>1. CASE ReturnError
  <2>1. Failed' = Failed /\ errs' = errs /\ Failed # {}
    BY <1>1 DEF ReturnError, Failed, Workers
  <2>2. FirstFailed' = FirstFailed
    BY <2>1 DEF FirstFailed
  <2> QED BY <1>1, <2>1, <2>2 DEF ReturnError, Answer
<1>2. ASSUME NEW w \in Workers, Worker(w) PROVE Answer'
  <2>1. wpc[w] # "done" /\ cpc' = cpc
    BY <1>2 DEF Worker, FoldBatch, RefuseBatch, EndShard, SendDone
  <2>2. cpc # "failed"
    BY <2>1, AwaitedAreDone DEF ParallelIInv, Phases
  <2> QED BY <2>1, <2>2 DEF Answer
<1>3. CASE Spawn \/ Await \/ StartMerge
  BY <1>3 DEF Spawn, Await, StartMerge, Answer
<1> QED BY <1>1, <1>2, <1>3 DEF RunNext, RunCaller

\* What holds in every reachable state.
THEOREM ParallelInductive == Spec => []ParallelIInv
<1>1. ParallelIInv /\ RunNext => ParallelIInv'
  <2> SUFFICES ASSUME ParallelIInv, RunNext PROVE ParallelIInv'
    OBVIOUS
  <2>1. RunTypes'
    BY TypesStep DEF ParallelIInv
  <2> QED BY <2>1, TokensStep, PhasesStep, ShardsStep, AnswerStep DEF ParallelIInv
<1>2. ParallelIInv /\ UNCHANGED shardVars /\ (cpc' = cpc \/ cpc' \notin {"spawn", "wait", "failed"})
        /\ (cpc' = cpc \/ cpc \notin {"spawn", "wait"})
      => ParallelIInv'
  <2> SUFFICES ASSUME ParallelIInv, UNCHANGED shardVars,
                      cpc' = cpc \/ cpc' \notin {"spawn", "wait", "failed"},
                      cpc' = cpc \/ cpc \notin {"spawn", "wait"}
               PROVE  ParallelIInv'
    OBVIOUS
  <2>1. RunTypes' /\ Shards'
    BY DEF shardVars, ParallelIInv, RunTypes, Workers, Shards, ShardEnd
  <2>2. Done' = Done /\ Failed' = Failed /\ Workers' = Workers
    BY DEF shardVars, Done, Failed, Workers
  <2>3. FirstFailed' = FirstFailed
    BY <2>2 DEF FirstFailed
  <2>4. TokensCounted' /\ Phases' /\ Answer'
    BY <2>2, <2>3 DEF shardVars, ParallelIInv, TokensCounted, Phases, Answer
  <2> QED BY <2>1, <2>4 DEF ParallelIInv
<1>3. ParallelIInv /\ [Next]_vars => ParallelIInv'
  <2> SUFFICES ASSUME ParallelIInv, [Next]_vars PROVE ParallelIInv'
    OBVIOUS
  <2>1. CASE RunNext
    BY <1>1, <2>1
  <2>2. CASE MergeCaller
    BY <1>2, <2>2 DEF MergeCaller, MergeArrays, SpawnMergers, Collect, MergeOA, Finish, Barrier,
                      MergeInSequence
  <2>3. ASSUME NEW p \in Mergers, Merger(p) PROVE ParallelIInv'
    <3>1. UNCHANGED shardVars /\ cpc' = cpc
      BY <2>3 DEF Merger, MergeCell, MergerDone
    <3> QED BY <1>2, <3>1
  <2>4. CASE UNCHANGED vars
    BY <1>2, <2>4 DEF vars
  <2> QED BY <2>1, <2>2, <2>3, <2>4 DEF Next
<1> QED BY <1>3, RunStarts, PTL DEF Spec

-----------------------------------------------------------------------------
(* The theorems.                                                            *)

\* The caller goes on only when every goroutine it started is done.
THEOREM NobodyLeft == Spec => []QuietAfterBarrier
<1>1. ParallelIInv => QuietAfterBarrier
  <2> SUFFICES ASSUME ParallelIInv, cpc \notin {"spawn", "wait"}
               PROVE  \A w \in Workers : wpc[w] = "done"
    BY DEF QuietAfterBarrier
  <2>1. awaited = workers
    BY DEF ParallelIInv, Phases
  <2> QED BY <2>1, AwaitedAreDone
<1> QED BY <1>1, ParallelInductive, PTL

\* FirstFailed is a worker that failed, and those before it did not.
LEMMA FirstFailedIsFirst ==
  ASSUME RunTypes, Failed # {}
  PROVE  FirstFailed \in Failed /\ \A v \in Failed : FirstFailed <= v
<1>1. Failed \in SUBSET Nat
  BY DEF Failed, Workers, RunTypes
<1>2. \E w \in Failed : \A v \in Failed : w <= v
  BY <1>1, Rest!LeastElement
<1> QED BY <1>2 DEF FirstFailed

\* The error returned is the first one of the whole input, however the batches
\* were sharded and whoever was faster.
THEOREM FirstErrorReturned == Spec => []EarliestError
<1>1. ParallelIInv => EarliestError
  <2> SUFFICES ASSUME ParallelIInv, cpc = "failed"
               PROVE  /\ failedAt \in DOMAIN batches
                      /\ OutOfRange(batches[failedAt])
                      /\ \A i \in 1 .. failedAt - 1 : ~OutOfRange(batches[i])
    BY DEF EarliestError
  <2> DEFINE f == FirstFailed
             n == Len(batches)
  <2>1. /\ n \in Nat /\ DOMAIN batches = 1 .. n /\ workers \in Nat \ {0}
        /\ at \in [Workers -> Nat] /\ Workers = 0 .. workers - 1
    BY DEF ParallelIInv, RunTypes, Workers
  <2>2. \A w \in Workers : wpc[w] = "done"
    BY AwaitedAreDone DEF ParallelIInv, Phases
  <2>3. f \in Workers /\ errs[f] # NULL /\ failedAt = errs[f]
        /\ \A v \in Workers : errs[v] # NULL => f <= v
    BY FirstFailedIsFirst DEF ParallelIInv, Answer, Failed
  <2> HIDE DEF f
  <2>4. /\ failedAt = at[f] + 1 /\ at[f] \in Nat
        /\ at[f] < ShardStart(f + 1, n, workers)
        /\ OutOfRange(batches[failedAt])
    BY <2>1, <2>2, <2>3 DEF ParallelIInv, Shards, ShardEnd
  <2>5. ShardStart(f + 1, n, workers) \in 0 .. n
    BY <2>3, ShardStarts DEF ParallelIInv, ShardEnd
  <2>6. failedAt \in DOMAIN batches
    BY <2>1, <2>4, <2>5
  <2>7. ASSUME NEW i \in 1 .. failedAt - 1 PROVE ~OutOfRange(batches[i])
    <3>1. i \in Nat \ {0} /\ i <= at[f] /\ i <= ShardStart(f + 1, n, workers)
      BY <2>4, <2>5
    <3>2. PICK w \in 0 .. f : i \in ShardStart(w, n, workers) + 1 .. ShardStart(w + 1, n, workers)
      BY <2>1, <2>3, <3>1, ShardOf
    <3>3. w \in Workers /\ (w = f \/ errs[w] = NULL)
      BY <2>1, <2>3, <3>2
    <3>4. i <= at[w]
      <4>1. CASE w = f
        BY <3>1, <4>1
      <4>2. CASE errs[w] = NULL
        <5>1. at[w] >= ShardStart(w + 1, n, workers)
          BY <2>2, <3>3, <4>2 DEF ParallelIInv, Shards, ShardEnd
        <5>2. ShardStart(w + 1, n, workers) \in Nat /\ at[w] \in Nat
          BY <2>1, <3>3, ShardStarts DEF ParallelIInv, ShardEnd
        <5> QED BY <3>1, <3>2, <5>1, <5>2
      <4> QED BY <3>3, <4>1, <4>2
    <3>5. ShardStart(w, n, workers) \in Nat /\ at[w] \in Nat
      BY <2>1, <3>3, ShardStarts DEF ParallelIInv
    <3>6. i \in ShardStart(w, n, workers) + 1 .. at[w]
      BY <3>1, <3>2, <3>4, <3>5
    <3> QED BY <2>2, <3>3, <3>6 DEF ParallelIInv, Shards
  <2> QED BY <2>4, <2>6, <2>7
<1> QED BY <1>1, ParallelInductive, PTL

-----------------------------------------------------------------------------
(* Lists put together, as FlattenSeq computes it.                           *)

\* The lists from the first to the k-th in one, for every k up to n.
ListsTo(f, q, n) == f = [i \in 1 .. n |-> IF i = 1 THEN q[i] ELSE f[i - 1] \o q[i]]

LEMMA JoinsExist ==
  ASSUME NEW q, NEW n \in Nat
  PROVE  \E f : ListsTo(f, q, n)
<1> DEFINE Bad == {k \in Nat : ~\E f : ListsTo(f, q, k)}
<1> SUFFICES ASSUME Bad # {} PROVE FALSE
  OBVIOUS
<1>1. PICK k \in Bad : \A j \in Bad : k <= j
  BY Rest!LeastElement
<1>2. k \in Nat /\ ~\E f : ListsTo(f, q, k)
  BY <1>1
<1>3. CASE k = 0
  <2>1. ListsTo([i \in 1 .. 0 |-> q], q, 0)
    BY DEF ListsTo
  <2> QED BY <1>2, <1>3, <2>1
<1>4. CASE k # 0
  <2>1. k - 1 \in Nat /\ k - 1 \notin Bad
    BY <1>1, <1>2, <1>4
  <2>2. PICK f : ListsTo(f, q, k - 1)
    BY <2>1
  <2> DEFINE g == [i \in 1 .. k |-> IF i = k THEN IF i = 1 THEN q[i] ELSE f[i - 1] \o q[i]
                                    ELSE f[i]]
  <2>3. ASSUME NEW i \in 1 .. k PROVE g[i] = IF i = 1 THEN q[i] ELSE g[i - 1] \o q[i]
    <3>1. CASE i = k
      <4>1. i # 1 => i - 1 \in 1 .. k /\ i - 1 # k /\ g[i - 1] = f[i - 1]
        BY <1>2, <3>1
      <4> QED BY <3>1, <4>1
    <3>2. CASE i # k
      <4>1. i \in 1 .. k - 1 /\ g[i] = f[i]
        BY <1>2, <3>2
      <4>2. f[i] = IF i = 1 THEN q[i] ELSE f[i - 1] \o q[i]
        BY <2>2, <4>1 DEF ListsTo
      <4>3. i # 1 => i - 1 \in 1 .. k /\ i - 1 # k /\ g[i - 1] = f[i - 1]
        BY <1>2, <4>1
      <4> QED BY <4>1, <4>2, <4>3
    <3> QED BY <3>1, <3>2
  <2>4. ListsTo(g, q, k)
    BY <2>3 DEF ListsTo
  <2> QED BY <1>2, <2>4
<1> QED BY <1>3, <1>4

LEMMA FlattenIsJoin ==
  ASSUME NEW q, Len(q) \in Nat \ {0}
  PROVE  \E f : ListsTo(f, q, Len(q)) /\ FlattenSeq(q) = f[Len(q)]
<1>1. \E f : ListsTo(f, q, Len(q))
  BY JoinsExist
<1> DEFINE h == CHOOSE f : ListsTo(f, q, Len(q))
<1>2. ListsTo(h, q, Len(q))
  BY <1>1
<1>3. FlattenSeq(q) = h[Len(q)]
  BY DEF FlattenSeq, ListsTo
<1> QED BY <1>2, <1>3

\* Two lists without a number in common.
LEMMA JoinTwo ==
  ASSUME NEW s \in Seq(Int), NEW t \in Seq(Int), IsInjective(s), IsInjective(t),
         Range(s) \cap Range(t) = {}
  PROVE  s \o t \in Seq(Int) /\ IsInjective(s \o t) /\ Range(s \o t) = Range(s) \cup Range(t)
<1> DEFINE j == s \o t
<1>0. j \in Seq(Int)
  OBVIOUS
<1>1. /\ Len(s) \in Nat /\ Len(t) \in Nat /\ DOMAIN j = 1 .. Len(s) + Len(t)
      /\ DOMAIN s = 1 .. Len(s) /\ DOMAIN t = 1 .. Len(t)
  OBVIOUS
<1>2. \A n \in 1 .. Len(s) : j[n] = s[n]
  OBVIOUS
<1>3. \A n \in Len(s) + 1 .. Len(s) + Len(t) : j[n] = t[n - Len(s)]
  OBVIOUS
<1> HIDE DEF j
<1>4. ASSUME NEW n \in DOMAIN j
      PROVE  \/ n \in DOMAIN s /\ j[n] = s[n]
             \/ n - Len(s) \in DOMAIN t /\ n \notin DOMAIN s /\ j[n] = t[n - Len(s)]
  <2>1. CASE n <= Len(s)
    <3>1. n \in 1 .. Len(s)
      BY <1>1, <2>1
    <3>2. j[n] = s[n]
      BY <1>2, <3>1
    <3> QED BY <1>1, <3>1, <3>2
  <2>2. CASE n > Len(s)
    <3>1. n \in Len(s) + 1 .. Len(s) + Len(t) /\ n - Len(s) \in 1 .. Len(t) /\ n \notin 1 .. Len(s)
      BY <1>1, <2>2
    <3> QED BY <1>1, <1>3, <3>1
  <2> QED BY <1>1, <2>1, <2>2
<1>5. IsInjective(j)
  <2> SUFFICES ASSUME NEW m \in DOMAIN j, NEW n \in DOMAIN j, j[m] = j[n] PROVE m = n
    BY DEF IsInjective
  <2>1. CASE m \in DOMAIN s /\ j[m] = s[m] /\ n \in DOMAIN s /\ j[n] = s[n]
    BY <2>1 DEF IsInjective
  <2>2. CASE m - Len(s) \in DOMAIN t /\ j[m] = t[m - Len(s)] /\ n - Len(s) \in DOMAIN t /\ j[n] = t[n - Len(s)]
    <3>1. m - Len(s) = n - Len(s)
      BY <2>2 DEF IsInjective
    <3> QED BY <1>1, <3>1
  <2>3. CASE m \in DOMAIN s /\ j[m] = s[m] /\ n - Len(s) \in DOMAIN t /\ j[n] = t[n - Len(s)]
    BY <2>3 DEF Range
  <2>4. CASE n \in DOMAIN s /\ j[n] = s[n] /\ m - Len(s) \in DOMAIN t /\ j[m] = t[m - Len(s)]
    BY <2>4 DEF Range
  <2> QED BY <1>4, <2>1, <2>2, <2>3, <2>4
<1>6. Range(j) \subseteq Range(s) \cup Range(t)
  BY <1>4 DEF Range
<1>7. Range(s) \subseteq Range(j)
  <2>1. \A n \in DOMAIN s : n \in DOMAIN j /\ j[n] = s[n]
    BY <1>1, <1>2
  <2> QED BY <2>1 DEF Range
<1>8. Range(t) \subseteq Range(j)
  <2>1. ASSUME NEW n \in DOMAIN t PROVE t[n] \in Range(j)
    <3>1. n \in Nat /\ 1 <= n /\ n <= Len(t)
      BY <1>1
    <3>2. n + Len(s) \in Len(s) + 1 .. Len(s) + Len(t) /\ (n + Len(s)) - Len(s) = n
      BY <1>1, <3>1
    <3>3. n + Len(s) \in DOMAIN j
      BY <1>1, <3>1
    <3>4. j[n + Len(s)] = t[n]
      BY <1>3, <3>2
    <3> QED BY <3>3, <3>4 DEF Range
  <2> QED BY <2>1 DEF Range
<1> QED BY <1>0, <1>5, <1>6, <1>7, <1>8 DEF j

\* Any number of them.
LEMMA JoinedLists ==
  ASSUME NEW q, NEW N \in Nat \ {0}, Len(q) = N,
         \A k \in 1 .. N : q[k] \in Seq(Int) /\ IsInjective(q[k]),
         \A j, k \in 1 .. N : j # k => Range(q[j]) \cap Range(q[k]) = {}
  PROVE  /\ FlattenSeq(q) \in Seq(Int) /\ IsInjective(FlattenSeq(q))
         /\ Range(FlattenSeq(q)) = UNION {Range(q[k]) : k \in 1 .. N}
<1>1. PICK f : ListsTo(f, q, N) /\ FlattenSeq(q) = f[N]
  BY FlattenIsJoin
<1> DEFINE Upto(k) == UNION {Range(q[j]) : j \in 1 .. k}
           Good(k) == f[k] \in Seq(Int) /\ IsInjective(f[k]) /\ Range(f[k]) = Upto(k)
           Bad == {k \in 1 .. N : ~Good(k)}
<1>2. Bad = {}
  <2> SUFFICES ASSUME Bad # {} PROVE FALSE
    OBVIOUS
  <2>1. PICK k \in Bad : \A j \in Bad : k <= j
    <3>1. Bad \in SUBSET Nat
      OBVIOUS
    <3> HIDE DEF Bad
    <3> QED BY <3>1, Rest!LeastElement
  <2>2. k \in 1 .. N /\ ~Good(k)
    OBVIOUS
  <2>3. f[k] = IF k = 1 THEN q[k] ELSE f[k - 1] \o q[k]
    BY <1>1, <2>2 DEF ListsTo
  <2>4. CASE k = 1
    <3>1. Upto(k) = Range(q[k])
      BY <2>4
    <3> QED BY <2>2, <2>3, <2>4, <3>1
  <2>5. CASE k # 1
    <3>1. k - 1 \in 1 .. N /\ k - 1 \notin Bad
      <4>1. k - 1 \in 1 .. N /\ ~(k <= k - 1)
        BY <2>2, <2>5
      <4> HIDE DEF Bad
      <4> QED BY <2>1, <4>1
    <3>2. Good(k - 1)
      BY <3>1
    <3>3. Upto(k) = Upto(k - 1) \cup Range(q[k])
      <4>1. \A j : j \in 1 .. k <=> j \in 1 .. k - 1 \/ j = k
        BY <2>2
      <4> QED BY <4>1
    <3>4. Upto(k - 1) \cap Range(q[k]) = {}
      <4>1. \A j \in 1 .. k - 1 : j \in 1 .. N /\ j # k
        BY <2>2
      <4> QED BY <2>2, <4>1
    <3>5. q[k] \in Seq(Int) /\ IsInjective(q[k])
      BY <2>2
    <3> HIDE DEF Upto
    <3>6. Good(k)
      BY <2>3, <2>5, <3>2, <3>3, <3>4, <3>5, JoinTwo
    <3> QED BY <2>2, <3>6
  <2> QED BY <2>4, <2>5
<1>3. Good(N)
  <2>1. N \in 1 .. N
    OBVIOUS
  <2> HIDE DEF Good
  <2> QED BY <1>2, <2>1
<1> QED BY <1>1, <1>3

-----------------------------------------------------------------------------
(* The parallel merge.                                                      *)

\* The ranges of the mergers follow one another through the whole array.
LEMMA LoRange ==
  ASSUME parts \in Nat \ {0}, Mod \in Nat \ {0}, NEW p \in 0 .. parts
  PROVE  Lo(p) \in 0 .. Mod
BY ShardStartRange DEF Lo

LEMMA Cancels ==
  ASSUME NEW c \in Nat \ {0}, NEW m \in Nat
  PROVE  (c * m) \div c = m
<1> DEFINE q == (c * m) \div c
<1>1. c * m \in Nat /\ c * m = m * c
  OBVIOUS
<1>2. q \in Nat /\ q * c <= m * c /\ m * c < q * c + c
  BY <1>1, Quotient
<1> HIDE DEF q
<1>3. (q + 1) * c = q * c + c
  BY <1>2
<1>4. ~(q >= m + 1)
  <2> SUFFICES ASSUME q >= m + 1 PROVE FALSE
    OBVIOUS
  <2>1. q * c >= (m + 1) * c /\ (m + 1) * c = m * c + c
    BY <1>2
  <2> QED BY <1>1, <1>2, <2>1
<1>5. ~(q + 1 <= m)
  <2> SUFFICES ASSUME q + 1 <= m PROVE FALSE
    OBVIOUS
  <2>1. (q + 1) * c <= m * c
    BY <1>2
  <2> QED BY <1>1, <1>2, <1>3, <2>1
<1>6. q = m
  BY <1>2, <1>4, <1>5
<1> QED BY <1>6 DEF q

LEMMA LoEnds ==
  ASSUME parts \in Nat \ {0}, Mod \in Nat \ {0}
  PROVE  Lo(parts) = Mod
BY Cancels DEF Lo, ShardStart

LEMMA LoMonotone ==
  ASSUME parts \in Nat \ {0}, Mod \in Nat \ {0}, NEW j \in 0 .. parts, NEW k \in 0 .. parts, j <= k
  PROVE  Lo(j) <= Lo(k)
BY ShardsFollow DEF Lo

\* No slot is in two ranges.
LEMMA SlotsApart ==
  ASSUME parts \in Nat \ {0}, Mod \in Nat \ {0}, NEW p \in Mergers, NEW r \in Mergers, p # r
  PROVE  SlotsOf(p) \cap SlotsOf(r) = {}
<1>1. ASSUME NEW j \in Mergers, NEW k \in Mergers, j < k PROVE SlotsOf(j) \cap SlotsOf(k) = {}
  <2>1. /\ j \in 0 .. parts /\ j + 1 \in 0 .. parts /\ k \in 0 .. parts /\ k + 1 \in 0 .. parts
        /\ j + 1 <= k
    BY <1>1 DEF Mergers
  <2>2. Lo(j + 1) <= Lo(k)
    BY <2>1, LoMonotone
  <2>3. Lo(j) \in Int /\ Lo(j + 1) \in Int /\ Lo(k) \in Int /\ Lo(k + 1) \in Int
    BY <2>1, LoRange
  <2> QED BY <2>2, <2>3 DEF SlotsOf
<1>2. p < r \/ r < p
  BY DEF Mergers
<1> QED BY <1>1, <1>2

\* Every slot is in one.
LEMMA SlotsCover ==
  ASSUME parts \in Nat \ {0}, Mod \in Nat \ {0}, NEW i \in 0 .. Mod - 1
  PROVE  \E p \in Mergers : i \in SlotsOf(p)
<1>1. /\ parts - 1 \in 0 .. parts - 1 /\ i + 1 \in Nat \ {0} /\ (parts - 1) + 1 = parts
      /\ i + 1 <= Mod
  OBVIOUS
<1>2. ShardStart(parts, Mod, parts) = Mod
  BY LoEnds DEF Lo
<1>3. PICK w \in 0 .. parts - 1 :
        i + 1 \in ShardStart(w, Mod, parts) + 1 .. ShardStart(w + 1, Mod, parts)
  BY <1>1, <1>2, ShardOf
<1>4. w \in Mergers /\ w \in 0 .. parts /\ w + 1 \in 0 .. parts
  BY DEF Mergers
<1>5. Lo(w) \in Int /\ Lo(w + 1) \in Int
  BY <1>4, LoRange
<1>6. i \in SlotsOf(w)
  BY <1>3, <1>5 DEF SlotsOf, Lo
<1> QED BY <1>4, <1>6

LEMMA MergeStarts == Init => MergeIInv
BY DEF Init, MergeIInv, MergePhases, ListsMatch, Collected

\* Whatever leaves the merge alone keeps its invariant.
LEMMA MergeFrame ==
  ASSUME MergeIInv, UNCHANGED <<kind, mergeVars>>, cpc' = cpc \/ parts = 0
  PROVE  MergeIInv'
<1>1. parts \in Nat /\ (parts > 0 => cpc' = cpc)
  BY DEF MergeIInv, MergePhases
<1>2. MergePhases'
  BY <1>1 DEF mergeVars, MergeIInv, MergePhases, Mergers
<1>3. ListsMatch' /\ Collected'
  BY <1>1 DEF mergeVars, MergeIInv, ListsMatch, Collected, Mergers, SlotsOf, Lo
<1> QED BY <1>2, <1>3 DEF MergeIInv

\* The workers are done before there are mergers.
LEMMA RunIsBefore == MergeIInv /\ RunNext => cpc' = cpc \/ parts = 0
<1> SUFFICES ASSUME MergeIInv, RunNext, parts # 0 PROVE cpc' = cpc
  OBVIOUS
<1>1. cpc \in {"barrier", "spill", "ok"}
  BY DEF MergeIInv, MergePhases
<1> QED BY <1>1 DEF RunNext, RunCaller, Spawn, Await, ReturnError, StartMerge, AwaitedAll,
                    Worker, FoldBatch, RefuseBatch, EndShard, SendDone

LEMMA SpawnStep == ParallelIInv /\ SpawnMergers => MergeIInv'
<1> SUFFICES ASSUME ParallelIInv, SpawnMergers PROVE MergeIInv'
  OBVIOUS
<1>1. /\ kind' = "int64" /\ UseDense(Mod) /\ out' = NewGroupBy(Mod, HasVal)
      /\ parts' = MergeParts /\ cpc' = "barrier"
      /\ mat' = [p \in 0 .. MergeParts - 1 |-> 0]
      /\ mpc' = [p \in 0 .. MergeParts - 1 |-> "run"]
      /\ occ' = [p \in 0 .. MergeParts - 1 |-> << >>]
  BY DEF SpawnMergers, NewAgg, WantDenseParallel, shardVars
<1>2. MergeParts \in Nat \ {0}
  BY ParallelAssumption DEF MergeParts, ParallelIInv, RunTypes
<1>3. Mod \in Nat \ {0}
  BY <1>1, ParallelAssumption DEF UseDense
<1>4. out' = [Literal(Mod, HasVal) EXCEPT !.dense = NewDense(Mod)]
  BY <1>1 DEF NewGroupBy, EnsureTable, Literal
<1>5. /\ "dense" \in DOMAIN out' /\ out'.dense = NewDense(Mod)
  BY <1>4 DEF Literal
<1>6. /\ {"present", "occupied"} \subseteq DOMAIN out'.dense
      /\ out'.dense.present = [i \in 0 .. Mod - 1 |-> FALSE]
  BY <1>5 DEF NewDense
<1>7. << >> \in Seq(Int) /\ DOMAIN << >> = {}
  OBVIOUS
<1>8. MergePhases'
  BY <1>1, <1>2, <1>3, <1>5, <1>6, <1>7 DEF MergePhases, Mergers
<1>9. ASSUME NEW p \in Mergers'
      PROVE  /\ IsInjective(occ'[p])
             /\ Range(occ'[p]) = {i \in SlotsOf(p)' : out'.dense.present[i]}
  <2>1. p \in 0 .. MergeParts - 1
    BY <1>1, <1>9 DEF Mergers
  <2>2. p \in 0 .. MergeParts /\ p + 1 \in 0 .. MergeParts
    BY <1>2, <2>1
  <2>3. occ'[p] = << >>
    BY <1>1, <2>1
  <2>4. SlotsOf(p)' \subseteq 0 .. Mod - 1
    <3>1. ShardStart(p, Mod, MergeParts) \in 0 .. Mod
      BY <1>2, <1>3, <2>2, ShardStartRange
    <3>2. ShardStart(p + 1, Mod, MergeParts) \in 0 .. Mod
      BY <1>2, <1>3, <2>2, ShardStartRange
    <3>3. SlotsOf(p)' = ShardStart(p, Mod, MergeParts) .. ShardStart(p + 1, Mod, MergeParts) - 1
      BY <1>1 DEF SlotsOf, Lo
    <3> QED BY <1>3, <3>1, <3>2, <3>3
  <2> QED BY <1>6, <1>7, <2>3, <2>4 DEF IsInjective, Range
<1>10. ListsMatch'
  BY <1>9 DEF ListsMatch
<1>11. Collected'
  BY <1>1 DEF Collected
<1> QED BY <1>8, <1>10, <1>11 DEF MergeIInv

\* The cell that merger p looks at next is in its range.
LEMMA CellInRange ==
  ASSUME RunTypes, parts \in Nat \ {0}, Mod \in Nat \ {0}, NEW p \in Mergers,
         mat[p] \in Nat, mat[p] < Cells(p)
  PROVE  Lo(p) + (mat[p] % (Cells(p) \div workers)) \in SlotsOf(p)
<1>1. p \in 0 .. parts /\ p + 1 \in 0 .. parts
  BY DEF Mergers
<1>2. Lo(p) \in Nat /\ Lo(p + 1) \in Nat /\ workers \in Nat \ {0}
  BY <1>1, LoRange DEF RunTypes
<1> DEFINE d == Lo(p + 1) - Lo(p)
<1>3. Lo(p) <= Lo(p + 1)
  BY <1>1, LoMonotone
<1>4. d \in Nat /\ Cells(p) = workers * d
  BY <1>2, <1>3 DEF Cells
<1>5. (workers * d) \div workers = d
  <2> HIDE DEF d
  <2> QED BY <1>2, <1>4, Cancels
<1>6. d # 0
  <2> HIDE DEF d
  <2> QED BY <1>2, <1>4
<1>7. mat[p] % d \in 0 .. d - 1
  <2> HIDE DEF d
  <2> QED BY <1>4, <1>6
<1> QED BY <1>2, <1>4, <1>5, <1>7 DEF SlotsOf

\* Where there is a merger, the facts about mergers hold.
LEMMA MergerTypes ==
  ASSUME MergeIInv, NEW p \in Mergers
  PROVE  /\ parts \in Nat \ {0} /\ Mod \in Nat \ {0} /\ kind = "int64"
         /\ cpc \in {"barrier", "spill", "ok"}
         /\ mat \in [Mergers -> Nat] /\ mpc \in [Mergers -> {"run", "done"}]
         /\ occ \in [Mergers -> Seq(Int)]
         /\ "dense" \in DOMAIN out /\ {"present", "occupied"} \subseteq DOMAIN out.dense
         /\ out.dense.present \in [0 .. Mod - 1 -> BOOLEAN]
         /\ IsInjective(occ[p])
         /\ Range(occ[p]) = {i \in SlotsOf(p) : out.dense.present[i]}
<1>1. parts \in Nat \ {0}
  BY DEF MergeIInv, MergePhases, Mergers
<1> QED BY <1>1 DEF MergeIInv, MergePhases, ListsMatch

\* A merger runs only while the caller waits at the barrier.
LEMMA RunningMerger ==
  ASSUME MergeIInv, NEW p \in Mergers, mpc[p] = "run"
  PROVE  cpc = "barrier"
<1>1. parts \in Nat /\ parts > 0
  BY MergerTypes
<1>2. ASSUME cpc # "barrier" PROVE FALSE
  <2>1. mpc[p] = "done"
    BY <1>1, <1>2 DEF MergeIInv, MergePhases
  <2> QED BY <2>1
<1> QED BY <1>2

\* A cell that changes nothing but how far the merger has come, and the measures.
LEMMA CellKeepsLists ==
  ASSUME MergeIInv, NEW p \in Mergers, mat' = [mat EXCEPT ![p] = @ + 1],
         UNCHANGED <<shardVars, cpc, parts, mpc, occ>>,
         "dense" \in DOMAIN out', {"present", "occupied"} \subseteq DOMAIN out'.dense,
         out'.dense.present = out.dense.present, out'.dense.occupied = out.dense.occupied
  PROVE  MergeIInv'
<1>1. kind' = kind
  BY DEF shardVars
<1>2. mat' \in [Mergers -> Nat]
  BY MergerTypes
<1>3. MergePhases'
  BY <1>1, <1>2 DEF MergeIInv, MergePhases, Mergers
<1>4. ListsMatch' /\ Collected'
  BY DEF MergeIInv, ListsMatch, Collected, Mergers, SlotsOf, Lo
<1> QED BY <1>3, <1>4 DEF MergeIInv

LEMMA CellStep ==
  ASSUME ParallelIInv, MergeIInv, NEW p \in Mergers, MergeCell(p)
  PROVE  MergeIInv'
<1> DEFINE width == Cells(p) \div workers
           i == Lo(p) + (mat[p] % width)
           l == locals[mat[p] \div width].dense
<1>1. /\ mpc[p] = "run" /\ mat[p] < Cells(p) /\ mat' = [mat EXCEPT ![p] = @ + 1]
      /\ UNCHANGED <<shardVars, cpc, parts, mpc>>
  BY DEF MergeCell
<1>2. /\ out' = [out EXCEPT !.dense = CellInto(@, i, l)]
      /\ occ' = IF l.present[i] /\ ~out.dense.present[i] THEN [occ EXCEPT ![p] = Append(@, i)] ELSE occ
  BY DEF MergeCell
<1>3. i \in SlotsOf(p)
  BY <1>1, MergerTypes, CellInRange DEF ParallelIInv
<1>4. p \in 0 .. parts /\ p + 1 \in 0 .. parts
  BY MergerTypes DEF Mergers
<1>5. Lo(p) \in 0 .. Mod /\ Lo(p + 1) \in 0 .. Mod
  <2>1. Lo(p) \in 0 .. Mod
    BY <1>4, MergerTypes, LoRange
  <2>2. Lo(p + 1) \in 0 .. Mod
    BY <1>4, MergerTypes, LoRange
  <2> QED BY <2>1, <2>2
<1>6. i \in 0 .. Mod - 1 /\ i \in Int
  <2> HIDE DEF i
  <2> QED BY <1>3, <1>5, MergerTypes DEF SlotsOf
<1> HIDE DEF i, l, width
<1>7. PICK d : d = out.dense
  OBVIOUS
<1>8. PICK e : e = CellInto(d, i, l)
  OBVIOUS
<1>9. "dense" \in DOMAIN out' /\ out'.dense = e
  <2>1. out' = [out EXCEPT !.dense = e]
    BY <1>2, <1>7, <1>8
  <2> QED BY <2>1, MergerTypes
<1>10. {"present", "occupied"} \subseteq DOMAIN d
  BY <1>7, MergerTypes
<1>11. CASE ~(l.present[i] /\ ~d.present[i])
  <2>1. {"present", "occupied"} \subseteq DOMAIN e /\ e.present = d.present /\ e.occupied = d.occupied
    BY <1>8, <1>10, <1>11 DEF CellInto
  <2>2. occ' = occ
    BY <1>2, <1>7, <1>11
  <2> QED BY <1>1, <1>7, <1>9, <2>1, <2>2, CellKeepsLists
<1>12. CASE l.present[i] /\ ~d.present[i]
  <2>12. occ' = [occ EXCEPT ![p] = Append(@, i)] /\ ~out.dense.present[i]
    BY <1>2, <1>7, <1>12
  <2>1. /\ "dense" \in DOMAIN out' /\ {"present", "occupied"} \subseteq DOMAIN out'.dense
        /\ out'.dense.present = [out.dense.present EXCEPT ![i] = TRUE]
    <3>1. {"present", "occupied"} \subseteq DOMAIN e /\ e.present = [d.present EXCEPT ![i] = TRUE]
      BY <1>8, <1>10, <1>12 DEF CellInto
    <3> QED BY <1>7, <1>9, <3>1
  <2>2. occ[p] \in Seq(Int) /\ i \notin Range(occ[p])
    BY <2>12, MergerTypes
  <2>3. /\ Append(occ[p], i) \in Seq(Int) /\ IsInjective(Append(occ[p], i))
        /\ Range(Append(occ[p], i)) = Range(occ[p]) \cup {i}
    BY <1>6, <2>2, MergerTypes, AppendNew
  <2>4. mat' \in [Mergers -> Nat] /\ occ' \in [Mergers -> Seq(Int)]
    BY <1>1, <2>12, <2>3, MergerTypes
  <2>5. kind' = kind /\ Mergers' = Mergers
    BY <1>1 DEF shardVars, Mergers
  <2>6. out'.dense.present \in [0 .. Mod - 1 -> BOOLEAN]
    BY <2>1, MergerTypes
  <2>7. cpc = "barrier"
    BY <1>1, RunningMerger
  <2>8. MergePhases'
    BY <1>1, <2>1, <2>4, <2>5, <2>6, <2>7 DEF MergeIInv, MergePhases
  <2>9. ASSUME NEW r \in Mergers
        PROVE  /\ IsInjective(occ'[r])
               /\ Range(occ'[r]) = {j \in SlotsOf(r) : out'.dense.present[j]}
    <3>1. \A j \in 0 .. Mod - 1 : out'.dense.present[j] <=> out.dense.present[j] \/ j = i
      BY <2>1, MergerTypes
    <3>2. SlotsOf(r) \subseteq 0 .. Mod - 1
      <4>1. r \in 0 .. parts /\ r + 1 \in 0 .. parts
        BY MergerTypes DEF Mergers
      <4>2. Lo(r) \in 0 .. Mod
        BY <4>1, MergerTypes, LoRange
      <4>3. Lo(r + 1) \in 0 .. Mod
        BY <4>1, MergerTypes, LoRange
      <4> QED BY <4>2, <4>3, MergerTypes DEF SlotsOf
    <3>3. IsInjective(occ[r]) /\ Range(occ[r]) = {j \in SlotsOf(r) : out.dense.present[j]}
      BY MergerTypes
    <3>4. CASE r = p
      <4>1. occ'[r] = Append(occ[p], i)
        BY <2>12, <3>4, MergerTypes
      <4> QED BY <1>3, <2>3, <3>1, <3>2, <3>3, <3>4, <4>1
    <3>5. CASE r # p
      <4>1. occ'[r] = occ[r]
        BY <2>12, <3>5, MergerTypes
      <4>2. i \notin SlotsOf(r)
        BY <1>3, <3>5, MergerTypes, SlotsApart
      <4> QED BY <3>1, <3>2, <3>3, <4>1, <4>2
    <3> QED BY <3>4, <3>5
  <2>10. ListsMatch'
    BY <1>1, <2>5, <2>9 DEF ListsMatch, SlotsOf, Lo
  <2>11. Collected'
    BY <1>1, <2>7 DEF Collected
  <2> QED BY <2>8, <2>10, <2>11 DEF MergeIInv
<1> QED BY <1>11, <1>12

LEMMA DoneStep ==
  ASSUME MergeIInv, NEW p \in Mergers, MergerDone(p)
  PROVE  MergeIInv'
<1>1. mpc' = [mpc EXCEPT ![p] = "done"] /\ UNCHANGED <<shardVars, cpc, out, parts, mat, occ>>
  BY DEF MergerDone
<1>2. kind' = kind /\ Mergers' = Mergers
  BY <1>1 DEF shardVars, Mergers
<1>3. mpc' \in [Mergers -> {"run", "done"}] /\ \A r \in Mergers : mpc[r] = "done" => mpc'[r] = "done"
  BY <1>1, MergerTypes
<1>4. MergePhases'
  BY <1>1, <1>2, <1>3 DEF MergeIInv, MergePhases
<1>5. ListsMatch' /\ Collected'
  BY <1>1, <1>2 DEF MergeIInv, ListsMatch, Collected, SlotsOf, Lo
<1> QED BY <1>4, <1>5 DEF MergeIInv

LEMMA CollectStep == MergeIInv /\ Collect => MergeIInv'
<1> SUFFICES ASSUME MergeIInv, Collect PROVE MergeIInv'
  OBVIOUS
<1>1. /\ cpc = "barrier" /\ \A p \in Mergers : mpc[p] = "done"
      /\ out' = [out EXCEPT !.dense.occupied = FlattenSeq([n \in 1 .. parts |-> occ[n - 1]])]
      /\ cpc' = "spill" /\ UNCHANGED <<shardVars, parts, mat, mpc, occ>>
  BY DEF Collect, Barrier
<1>2. kind' = kind /\ Mergers' = Mergers
  BY <1>1 DEF shardVars, Mergers
<1>3. CASE parts > 0
  <2>1. "dense" \in DOMAIN out /\ {"present", "occupied"} \subseteq DOMAIN out.dense
    BY <1>3 DEF MergeIInv, MergePhases
  <2>2. /\ "dense" \in DOMAIN out' /\ {"present", "occupied"} \subseteq DOMAIN out'.dense
        /\ out'.dense.present = out.dense.present
        /\ out'.dense.occupied = FlattenSeq([n \in 1 .. parts |-> occ[n - 1]])
    BY <1>1, <2>1
  <2>3. MergePhases'
    BY <1>1, <1>2, <1>3, <2>2 DEF MergeIInv, MergePhases
  <2>4. ListsMatch' /\ Collected'
    BY <1>1, <1>2, <2>2 DEF MergeIInv, ListsMatch, Collected, SlotsOf, Lo
  <2> QED BY <2>3, <2>4 DEF MergeIInv
<1>4. CASE ~(parts > 0)
  BY <1>1, <1>4 DEF MergeIInv, MergePhases, ListsMatch, Collected
<1> QED BY <1>3, <1>4

\* The fold of the locals' spill tables and NULL groups.
LEMMA RestKeepsDense ==
  ASSUME ParallelIInv, "dense" \in DOMAIN out
  PROVE  KeepsDense(FoldLeft(MergeRest, out, LocalSeq))
<1>1. workers \in Nat /\ DOMAIN LocalSeq = 1 .. workers
  BY DEF ParallelIInv, RunTypes, LocalSeq
<1>2. KeepsDense(out)
  BY DEF KeepsDense
<1>3. \A x : \A k \in 1 .. workers : KeepsDense(x) => KeepsDense(MergeRest(x, LocalSeq[k]))
  BY DEF KeepsDense, MergeRest, MergeNull, MergeSpill
<1>4. KeepsDense(Rest!FoldOf(out, LocalSeq))
  BY <1>1, <1>2, <1>3, Rest!FoldKeeps
<1>5. FoldLeft(MergeRest, out, LocalSeq) = Rest!FoldOf(out, LocalSeq)
  BY DEF Rest!FoldOf, Rest!Latest, FoldLeft, MapThenFoldSet, Max
<1> QED BY <1>4, <1>5

LEMMA FinishStep == ParallelIInv /\ MergeIInv /\ Finish => MergeIInv'
<1> SUFFICES ASSUME ParallelIInv, MergeIInv, Finish PROVE MergeIInv'
  OBVIOUS
<1>1. /\ cpc = "spill" /\ cpc' = "ok" /\ out' = FoldLeft(MergeRest, out, LocalSeq)
      /\ UNCHANGED <<shardVars, parts, mat, mpc, occ>>
  BY DEF Finish
<1>2. kind' = kind /\ Mergers' = Mergers
  BY <1>1 DEF shardVars, Mergers
<1>3. CASE parts > 0
  <2>1. "dense" \in DOMAIN out
    BY <1>3 DEF MergeIInv, MergePhases
  <2>2. "dense" \in DOMAIN out' /\ out'.dense = out.dense
    BY <1>1, <2>1, RestKeepsDense DEF KeepsDense
  <2>3. MergePhases'
    BY <1>1, <1>2, <1>3, <2>2 DEF MergeIInv, MergePhases
  <2>4. ListsMatch' /\ Collected'
    BY <1>1, <1>2, <2>2 DEF MergeIInv, ListsMatch, Collected, SlotsOf, Lo
  <2> QED BY <2>3, <2>4 DEF MergeIInv
<1>4. CASE ~(parts > 0)
  BY <1>1, <1>4 DEF MergeIInv, MergePhases, ListsMatch, Collected
<1> QED BY <1>3, <1>4

LEMMA MergeStep == ParallelIInv /\ MergeIInv /\ [Next]_vars => MergeIInv'
<1> SUFFICES ASSUME ParallelIInv, MergeIInv, [Next]_vars PROVE MergeIInv'
  OBVIOUS
<1>1. CASE RunNext /\ UNCHANGED <<kind, mergeVars>>
  BY <1>1, RunIsBefore, MergeFrame
<1>2. CASE MergeArrays \/ MergeOA \/ MergeInSequence
  <2>1. cpc = "merge" /\ UNCHANGED <<shardVars, parts, mat, mpc, occ>>
    BY <1>2 DEF MergeArrays, MergeOA, MergeInSequence
  <2>2. parts' = parts /\ ~(parts > 0) /\ parts \in Nat
    BY <2>1 DEF MergeIInv, MergePhases
  <2> QED BY <2>2 DEF MergeIInv, MergePhases, ListsMatch, Collected
<1>3. CASE SpawnMergers
  BY <1>3, SpawnStep
<1>4. CASE Collect
  BY <1>4, CollectStep
<1>5. CASE Finish
  BY <1>5, FinishStep
<1>6. ASSUME NEW p \in Mergers, Merger(p) PROVE MergeIInv'
  BY <1>6, CellStep, DoneStep DEF Merger
<1>7. CASE UNCHANGED vars
  BY <1>7, MergeFrame DEF vars, shardVars
<1> QED BY <1>1, <1>2, <1>3, <1>4, <1>5, <1>6, <1>7 DEF Next, MergeCaller

\* What holds of the mergers in every reachable state.
THEOREM MergeInductive == Spec => []MergeIInv
<1>1. ParallelIInv /\ MergeIInv /\ [Next]_vars => MergeIInv'
  BY MergeStep
<1> QED BY <1>1, MergeStarts, ParallelInductive, PTL DEF Spec

\* The lists of the mergers put together list the slots in use.
LEMMA OccJoined ==
  ASSUME MergeIInv, parts > 0, NEW o, o = FlattenSeq([n \in 1 .. parts |-> occ[n - 1]])
  PROVE  o \in Seq(Int) /\ IsInjective(o) /\ Range(o) = Used(out.dense)
<1> DEFINE q == [n \in 1 .. parts |-> occ[n - 1]]
           present == out.dense.present
<1>1. /\ parts \in Nat \ {0} /\ Mod \in Nat \ {0} /\ occ \in [Mergers -> Seq(Int)]
      /\ present \in [0 .. Mod - 1 -> BOOLEAN] /\ o = FlattenSeq(q)
  BY DEF MergeIInv, MergePhases
<1>2. Len(q) = parts
  BY <1>1
<1>3. ASSUME NEW n \in 1 .. parts
      PROVE  /\ n - 1 \in Mergers /\ q[n] \in Seq(Int) /\ IsInjective(q[n])
             /\ Range(q[n]) = {i \in SlotsOf(n - 1) : present[i]}
  <2>1. n - 1 \in Mergers /\ q[n] = occ[n - 1]
    BY <1>1 DEF Mergers
  <2> QED BY <1>1, <2>1 DEF MergeIInv, ListsMatch
<1>4. ASSUME NEW j \in 1 .. parts, NEW k \in 1 .. parts, j # k
      PROVE  Range(q[j]) \cap Range(q[k]) = {}
  <2>1. j - 1 # k - 1
    BY <1>1, <1>4
  <2>2. SlotsOf(j - 1) \cap SlotsOf(k - 1) = {}
    BY <1>1, <1>3, <2>1, SlotsApart
  <2> HIDE DEF q, present
  <2> QED BY <1>3, <2>2
<1> HIDE DEF q
<1>5. o \in Seq(Int) /\ IsInjective(o) /\ Range(o) = UNION {Range(q[k]) : k \in 1 .. parts}
  <2>1. \A k \in 1 .. parts : q[k] \in Seq(Int) /\ IsInjective(q[k])
    BY <1>3
  <2>2. \A j, k \in 1 .. parts : j # k => Range(q[j]) \cap Range(q[k]) = {}
    BY <1>4
  <2>3. o = FlattenSeq(q)
    BY <1>1
  <2>4. parts \in Nat \ {0}
    BY <1>1
  <2> QED BY <1>2, <2>1, <2>2, <2>3, <2>4, JoinedLists
<1>6. ASSUME NEW i \in DOMAIN present, present[i] PROVE i \in UNION {Range(q[k]) : k \in 1 .. parts}
  <2>1. PICK p \in Mergers : i \in SlotsOf(p)
    BY <1>1, SlotsCover
  <2>2. p + 1 \in 1 .. parts /\ (p + 1) - 1 = p
    BY <1>1, <2>1 DEF Mergers
  <2>3. i \in Range(q[p + 1])
    BY <1>3, <1>6, <2>1, <2>2
  <2> QED BY <2>2, <2>3
<1>7. ASSUME NEW k \in 1 .. parts, NEW i \in Range(q[k]) PROVE i \in DOMAIN present /\ present[i]
  <2>1. k - 1 \in 0 .. parts /\ (k - 1) + 1 \in 0 .. parts
    BY <1>1
  <2>2. Lo(k - 1) \in 0 .. Mod
    BY <1>1, <2>1, LoRange
  <2>3. Lo((k - 1) + 1) \in 0 .. Mod
    BY <1>1, <2>1, LoRange
  <2>4. i \in SlotsOf(k - 1) /\ present[i]
    BY <1>3
  <2>5. i \in 0 .. Mod - 1
    BY <1>1, <2>2, <2>3, <2>4 DEF SlotsOf
  <2> QED BY <1>1, <2>4, <2>5
<1>8. Range(o) = {i \in DOMAIN present : present[i]}
  BY <1>5, <1>6, <1>7
<1> QED BY <1>5, <1>8 DEF Used

\* After a parallel merge the list by which results are read and tables reset
\* names each slot in use once: the mergers share the array, but no slot.
THEOREM MergedOnce == Spec => []MergedListsEachSlot
<1>1. MergeIInv => MergedListsEachSlot
  <2> SUFFICES ASSUME MergeIInv, cpc = "ok", parts > 0
               PROVE  /\ IsInjective(out.dense.occupied)
                      /\ {out.dense.occupied[n] : n \in DOMAIN out.dense.occupied}
                            = {i \in DOMAIN out.dense.present : out.dense.present[i]}
    BY DEF MergedListsEachSlot
  <2>1. out.dense.occupied = FlattenSeq([n \in 1 .. parts |-> occ[n - 1]])
    BY DEF MergeIInv, Collected
  <2> QED BY <2>1, OccJoined DEF Range, Used
<1> QED BY <1>1, MergeInductive, PTL

-----------------------------------------------------------------------------
(* The groups of the locals.                                                *)

\* A new aggregator whose table is the map.
LEMMA OAMade ==
  ASSUME NilIsNoTable, NEW mod \in Int, NEW hasVal \in BOOLEAN,
         NEW g, g = [Literal(mod, hasVal) EXCEPT !.oa = EmptyMap]
  PROVE  /\ Fresh(g, "int64", mod, hasVal)
         /\ g.dense = NULL /\ g.oa = EmptyMap /\ g.oa # NULL
<1>1. /\ DOMAIN g = {"kind", "mod", "hasVal", "dense", "oa", "spill", "nullKey", "hasNull"}
      /\ g.kind = "int64" /\ g.mod = mod /\ g.hasVal = hasVal
      /\ g.dense = NULL /\ g.oa = EmptyMap /\ g.spill = NULL
      /\ g.hasNull = FALSE /\ g.nullKey = Zero
  BY DEF Literal
<1>2. NullFits(g) /\ NullGroup(g) = EmptyMap
  BY <1>1, NoNullGroup
<1>3. IsMap(EmptyMap, Int)
  BY EmptyIsMap
<1>4. g.oa # NULL
  BY <1>1, <1>3, MapNotNil
<1>5. IntFits(g)
  BY <1>1, <1>2, <1>3 DEF IntFits
<1>6. Held(g) = EmptyMap
  BY <1>1, <1>4 DEF Held
<1>7. MapInto(EmptyMap, EmptyMap) = EmptyMap
  BY EmptyIsMap, JoinEmpty
<1>8. GroupsOf(g) = EmptyMap
  BY <1>2, <1>6, <1>7 DEF GroupsOf
<1> QED BY <1>1, <1>4, <1>5, <1>8, IntFresh

LEMMA DenseMade ==
  ASSUME NilIsNoTable, NEW mod \in Int, UseDense(mod), NEW hasVal \in BOOLEAN,
         NEW g, g = NewGroupBy(mod, hasVal)
  PROVE  /\ Fresh(g, "int64", mod, hasVal)
         /\ mod \in Nat \ {0} /\ g.dense = NewDense(mod) /\ g.dense # NULL
<1>1. g = [Literal(mod, hasVal) EXCEPT !.dense = NewDense(mod)]
  BY DEF NewGroupBy, EnsureTable, Literal
<1>2. g.dense = NewDense(mod)
  BY <1>1 DEF Literal
<1>3. mod \in Nat \ {0}
  BY DEF UseDense
<1>4. DenseFits(NewDense(mod), mod)
  BY <1>3, NewDenseFits
<1>5. g.dense # NULL
  BY <1>2, <1>4, DenseNotNil
<1>6. Fresh(g, "int64", mod, hasVal)
  BY IntMade
<1> QED BY <1>2, <1>3, <1>5, <1>6

LEMMA NewAggFits ==
  ASSUME NilIsNoTable, kind \in {"int64", "string", "global"}
  PROVE  /\ StandsFor(kind, NewAgg, EmptyMap)
         /\ HasTables(kind, WantDenseParallel, NewAgg)
         /\ kind = "int64" /\ WantDenseParallel =>
              Mod \in Nat \ {0} /\ NewAgg.dense = NewDense(Mod)
         /\ kind = "int64" /\ ~WantDenseParallel => NewAgg.oa = EmptyMap
<1>0. Mod \in Int /\ HasVal \in BOOLEAN
  BY ParallelAssumption
<1>1. CASE kind = "global"
  <2>1. NewAgg = NewGlobal
    BY <1>1 DEF NewAgg
  <2>2. Fresh(NewAgg, kind, CallMod(kind), CallHasVal(kind))
    BY <1>1, <2>1, GlobalMade DEF CallMod, CallHasVal
  <2> QED BY <1>1, <2>2 DEF Fresh, StandsFor, HasTables
<1>2. CASE kind = "string"
  <2>1. NewAgg = NewString(HasVal)
    BY <1>2 DEF NewAgg
  <2>2. CallMod(kind) = 0 /\ CallHasVal(kind) = HasVal
    BY <1>0, <1>2 DEF CallMod, CallHasVal
  <2>3. Fresh(NewString(HasVal), "string", 0, HasVal)
    BY <1>0, StringMade
  <2> QED BY <1>2, <2>1, <2>2, <2>3 DEF Fresh, StandsFor, HasTables
<1>3. CASE kind = "int64" /\ WantDenseParallel
  <2>1. NewAgg = NewGroupBy(Mod, HasVal) /\ UseDense(Mod)
    BY <1>3 DEF NewAgg, WantDenseParallel
  <2>2. CallMod(kind) = Mod /\ CallHasVal(kind) = HasVal
    BY <1>0, <1>3 DEF CallMod, CallHasVal
  <2>3. /\ Fresh(NewAgg, "int64", Mod, HasVal)
        /\ Mod \in Nat \ {0} /\ NewAgg.dense = NewDense(Mod) /\ NewAgg.dense # NULL
    BY <1>0, <2>1, DenseMade
  <2> QED BY <1>3, <2>2, <2>3 DEF Fresh, StandsFor, HasTables
<1>4. CASE kind = "int64" /\ ~WantDenseParallel
  <2>1. NewAgg = [Literal(Mod, HasVal) EXCEPT !.oa = EmptyMap]
    BY <1>4 DEF NewAgg, NewGroupBy, EnsureTable, Literal, NewGroupByOA
  <2>2. CallMod(kind) = Mod /\ CallHasVal(kind) = HasVal
    BY <1>0, <1>4 DEF CallMod, CallHasVal
  <2>3. /\ Fresh(NewAgg, "int64", Mod, HasVal)
        /\ NewAgg.dense = NULL /\ NewAgg.oa = EmptyMap /\ NewAgg.oa # NULL
    BY <1>0, <2>1, OAMade
  <2> QED BY <1>4, <2>2, <2>3 DEF Fresh, StandsFor, HasTables
<1> QED BY <1>1, <1>2, <1>3, <1>4

\* What is known of the call.
LEMMA CallFacts ==
  ASSUME CallMade
  PROVE  /\ kind \in {"int64", "string", "global"}
         /\ CallMod(kind) \in Int /\ CallHasVal(kind) \in BOOLEAN
         /\ \A i \in DOMAIN batches : ~OutOfRange(batches[i]) => Selected(batches[i]) \in Seq(Rows)
<1>1. PICK c \in Cases : c.kind = kind /\ c.batches = batches
  BY DEF CallMade
<1>2. /\ kind \in {"int64", "string", "global"}
      /\ \A i \in DOMAIN batches : ~OutOfRange(batches[i]) => Selected(batches[i]) \in Seq(Rows)
  BY <1>1, ParallelAssumption
<1>3. CallMod(kind) \in Int /\ CallHasVal(kind) \in BOOLEAN
  BY ParallelAssumption DEF CallMod, CallHasVal
<1> QED BY <1>2, <1>3

LEMMA GroupsStart == NilIsNoTable /\ Init => AnswerIInv
<1> SUFFICES ASSUME NilIsNoTable, Init PROVE AnswerIInv
  OBVIOUS
<1>1. /\ CallMade /\ cpc = "spawn" /\ locals = [w \in Workers |-> NewAgg]
      /\ wpc = [w \in Workers |-> "new"]
  BY DEF Init, RunInit, CallMade
<1>2. StandsFor(kind, NewAgg, EmptyMap) /\ HasTables(kind, WantDenseParallel, NewAgg)
  BY <1>1, CallFacts, NewAggFits
<1>3. LocalsStand
  BY <1>1, <1>2 DEF LocalsStand
<1> QED BY <1>1, <1>3 DEF AnswerIInv, Outcome, SlotsMerged, TablesMerged, ResultStands

\* The groups of good batches are maps.
LEMMA GoodBatches ==
  ASSUME CallMade, RunTypes, NEW a \in Nat, NEW b \in Nat, b <= Len(batches),
         \A i \in a + 1 .. b : ~OutOfRange(batches[i])
  PROVE  AreMaps(BatchGroups(kind, batches), a, b, Keys)
<1> SUFFICES ASSUME NEW i \in a + 1 .. b PROVE IsMap(BatchGroups(kind, batches)[i], Keys)
  BY DEF AreMaps
<1>1. i \in DOMAIN batches
  BY DEF RunTypes
<1>2. Selected(batches[i]) \in Seq(Rows) /\ CallMod(kind) \in Int /\ CallHasVal(kind) \in BOOLEAN
  BY <1>1, CallFacts
<1>3. IsMap(EmptyMap, Keys)
  BY EmptyIsMap
<1>4. IsMap(RefRows(EmptyMap, Selected(batches[i]), CallMod(kind), CallHasVal(kind)), Keys)
  BY <1>2, <1>3, RefRowsIsMap
<1> QED BY <1>1, <1>4 DEF BatchGroups

\* One batch more.
LEMMA LocalGrows ==
  ASSUME NilIsNoTable, CallMade, RunTypes,
         NEW a \in Nat, NEW b \in Nat, a <= b, b + 1 <= Len(batches),
         \A i \in a + 1 .. b + 1 : ~OutOfRange(batches[i]),
         NEW dense, NEW g, StandsFor(kind, g, Joined(BatchGroups(kind, batches), a, b)),
         HasTables(kind, dense, g),
         NEW f, f = AddTo(g, batches[b + 1])
  PROVE  /\ StandsFor(kind, f, Joined(BatchGroups(kind, batches), a, b + 1))
         /\ HasTables(kind, dense, f)
<1> DEFINE E == BatchGroups(kind, batches)
           t == Joined(E, a, b)
           q == Selected(batches[b + 1])
<1>1. b + 1 \in DOMAIN batches /\ b + 1 \in a + 1 .. b + 1
  BY DEF RunTypes
<1>2. /\ kind \in {"int64", "string", "global"}
      /\ q \in Seq(Rows) /\ CallMod(kind) \in Int /\ CallHasVal(kind) \in BOOLEAN
  BY <1>1, CallFacts
<1>3. E[b + 1] = RefRows(EmptyMap, q, CallMod(kind), CallHasVal(kind))
  BY <1>1 DEF BatchGroups
<1>4. IsMap(t, Keys)
  <2>1. AreMaps(E, a, b, Keys)
    <3>1. b <= Len(batches) /\ \A i \in a + 1 .. b : ~OutOfRange(batches[i])
      BY DEF RunTypes
    <3> QED BY <3>1, GoodBatches
  <2> HIDE DEF E
  <2> QED BY <2>1, JoinedIsMap
<1>5. /\ g.kind = kind /\ ModOf(g) = CallMod(kind) /\ HasValOf(g) = CallHasVal(kind)
      /\ Fits(g) /\ Matches(g, t)
  BY DEF StandsFor
<1>6. NULL \notin Int
  BY ParallelAssumption
<1> HIDE DEF E, t
<1>7. Like(f, g) /\ Matches(f, RefRows(t, q, ModOf(g), HasValOf(g)))
  <2>1. PICK x : x = batches[b + 1]
    OBVIOUS
  <2>2. f = AddTo(g, x) /\ q = Selected(x) /\ Selected(x) \in Seq(Rows)
    BY <1>2, <2>1
  <2> HIDE DEF q
  <2>3. Like(f, g) /\ Matches(f, RefRows(t, Selected(x), ModOf(g), HasValOf(g)))
    BY <1>4, <1>5, <1>6, <2>2, AddFits
  <2> QED BY <2>2, <2>3
<1>8. RefRows(t, q, CallMod(kind), CallHasVal(kind)) = MapInto(t, E[b + 1])
  <2> HIDE DEF q
  <2>1. RefRows(t, q, CallMod(kind), CallHasVal(kind))
          = MapInto(t, RefRows(EmptyMap, q, CallMod(kind), CallHasVal(kind)))
    BY <1>2, <1>4, <1>6, RowsJoin
  <2> QED BY <1>3, <2>1
<1>9. Joined(E, a, b + 1) = MapInto(t, E[b + 1])
  BY JoinedMore DEF t
<1>10. Matches(f, Joined(E, a, b + 1))
  BY <1>5, <1>7, <1>8, <1>9
<1>11. StandsFor(kind, f, Joined(E, a, b + 1))
  BY <1>5, <1>7, <1>10 DEF StandsFor, Like
<1>12. HasTables(kind, dense, f)
  <2> SUFFICES ASSUME kind = "int64" PROVE HasTables(kind, dense, f)
    BY DEF HasTables
  <2>1. HasTable(g) /\ f = AddBatch(g, batches[b + 1]) /\ IntFits(g) /\ g.kind = "int64"
    BY <1>5 DEF HasTables, HasTable, AddTo, Fits
  <2>2. IntLike(f, g) /\ HasTable(f) /\ SameTable(f, g)
    BY <1>2, <2>1, AddBatchFits
  <2> QED BY <2>2 DEF HasTables, HasTable, SameTable
<1> QED BY <1>11, <1>12 DEF E

LEMMA StartEnd ==
  ASSUME RunTypes, NEW w \in Workers
  PROVE  /\ Start(w) \in Nat /\ ShardEnd(w) \in Nat
         /\ Start(w) <= ShardEnd(w) /\ ShardEnd(w) <= Len(batches)
<1>1. Start(w) \in Nat /\ ShardEnd(w) \in 0 .. Len(batches)
  BY ShardStarts DEF Start
<1>2. /\ workers \in Nat \ {0} /\ Len(batches) \in Nat /\ w \in 0 .. workers /\ w + 1 \in 0 .. workers
      /\ w <= w + 1
  BY DEF RunTypes, Workers
<1>3. ShardStart(w, Len(batches), workers) <= ShardStart(w + 1, Len(batches), workers)
  BY <1>2, ShardsFollow
<1> QED BY <1>1, <1>3, <1>2 DEF Start, ShardEnd

\* Whatever leaves the locals alone and starts no worker.
LEMMA LocalsFrame ==
  ASSUME LocalsStand, UNCHANGED <<kind, batches, workers, locals, at>>,
         \A w \in Workers : wpc'[w] = "new" <=> wpc[w] = "new"
  PROVE  LocalsStand'
<1>1. WantDenseParallel' = WantDenseParallel /\ Workers' = Workers
  BY DEF WantDenseParallel, Workers
<1>2. \A w : Start(w)' = Start(w) /\ ShardEnd(w)' = ShardEnd(w)
  BY DEF Start, ShardEnd
<1> QED BY <1>1, <1>2 DEF LocalsStand

LEMMA LocalsSpawn == NilIsNoTable /\ ParallelIInv /\ LocalsStand /\ Spawn /\ kind' = kind => LocalsStand'
<1> SUFFICES ASSUME ParallelIInv, LocalsStand, Spawn, kind' = kind PROVE LocalsStand'
  OBVIOUS
<1>1. /\ wpc' = [w \in Workers |-> "run"] /\ at' = [w \in Workers |-> Start(w)]
      /\ UNCHANGED <<batches, workers, locals>> /\ cpc = "spawn"
  BY DEF Spawn, Start
<1>2. WantDenseParallel' = WantDenseParallel /\ Workers' = Workers
  BY <1>1 DEF WantDenseParallel, Workers
<1>3. \A w : Start(w)' = Start(w) /\ ShardEnd(w)' = ShardEnd(w)
  BY <1>1 DEF Start, ShardEnd
<1>4. \A w \in Workers : StandsFor(kind, locals[w], EmptyMap)
  BY <1>1 DEF LocalsStand, ParallelIInv, Phases
<1>5. ASSUME NEW w \in Workers
      PROVE  /\ Start(w) <= at'[w] /\ at'[w] <= ShardEnd(w)
             /\ StandsFor(kind, locals[w], Joined(BatchGroups(kind, batches), Start(w), at'[w]))
  <2>1. Start(w) \in Nat /\ Start(w) <= ShardEnd(w) /\ at'[w] = Start(w)
    BY <1>1, StartEnd DEF ParallelIInv
  <2>2. Joined(BatchGroups(kind, batches), Start(w), Start(w)) = EmptyMap
    BY <2>1, JoinedNone
  <2> QED BY <1>4, <2>1, <2>2
<1> QED BY <1>1, <1>2, <1>3, <1>5 DEF LocalsStand

LEMMA LocalsFold ==
  ASSUME NilIsNoTable, ParallelIInv, CallMade, LocalsStand, NEW w \in Workers, FoldBatch(w), kind' = kind
  PROVE  LocalsStand'
<1>1. /\ wpc[w] = "run" /\ at[w] < ShardEnd(w) /\ ~OutOfRange(batches[at[w] + 1])
      /\ locals' = [locals EXCEPT ![w] = AddTo(@, batches[at[w] + 1])]
      /\ at' = [at EXCEPT ![w] = @ + 1]
      /\ UNCHANGED <<batches, workers, wpc>>
  BY DEF FoldBatch
<1>2. WantDenseParallel' = WantDenseParallel /\ Workers' = Workers
  BY <1>1 DEF WantDenseParallel, Workers
<1>3. \A v : Start(v)' = Start(v) /\ ShardEnd(v)' = ShardEnd(v)
  BY <1>1 DEF Start, ShardEnd
<1>4. /\ DOMAIN locals' = Workers
      /\ locals'[w] = AddTo(locals[w], batches[at[w] + 1])
      /\ at[w] \in Nat /\ at'[w] = at[w] + 1
      /\ \A v \in Workers : v # w => locals'[v] = locals[v] /\ at'[v] = at[v]
  BY <1>1 DEF LocalsStand, ParallelIInv, RunTypes
<1>5. /\ HasTables(kind, WantDenseParallel, locals[w])
      /\ Start(w) <= at[w] /\ at[w] <= ShardEnd(w)
      /\ StandsFor(kind, locals[w], Joined(BatchGroups(kind, batches), Start(w), at[w]))
  BY <1>1 DEF LocalsStand
<1>6. /\ Start(w) \in Nat /\ ShardEnd(w) \in Nat
      /\ Start(w) <= ShardEnd(w) /\ ShardEnd(w) <= Len(batches) /\ Len(batches) \in Nat
  BY StartEnd DEF ParallelIInv, RunTypes
<1>7. \A i \in Start(w) + 1 .. at[w] + 1 : ~OutOfRange(batches[i])
  <2>1. \A i \in Start(w) + 1 .. at[w] : ~OutOfRange(batches[i])
    BY <1>1 DEF ParallelIInv, Shards, Start
  <2>2. \A i \in Start(w) + 1 .. at[w] + 1 : i \in Start(w) + 1 .. at[w] \/ i = at[w] + 1
    BY <1>4, <1>6
  <2> QED BY <1>1, <2>1, <2>2
<1>8. /\ StandsFor(kind, locals'[w], Joined(BatchGroups(kind, batches), Start(w), at'[w]))
      /\ HasTables(kind, WantDenseParallel, locals'[w])
  <2>1. at[w] + 1 <= Len(batches)
    BY <1>1, <1>4, <1>6
  <2>2. PICK a \in Nat : a = Start(w)
    BY <1>6
  <2>3. PICK b \in Nat : b = at[w]
    BY <1>4
  <2>4. PICK g : g = locals[w]
    OBVIOUS
  <2>5. PICK f : f = AddTo(g, batches[b + 1])
    OBVIOUS
  <2>6. PICK dense : dense = WantDenseParallel
    OBVIOUS
  <2>7. /\ StandsFor(kind, f, Joined(BatchGroups(kind, batches), a, b + 1))
        /\ HasTables(kind, dense, f)
    <3>1. /\ a <= b /\ b + 1 <= Len(batches) /\ \A i \in a + 1 .. b + 1 : ~OutOfRange(batches[i])
          /\ StandsFor(kind, g, Joined(BatchGroups(kind, batches), a, b))
          /\ HasTables(kind, dense, g)
      BY <1>5, <1>7, <2>1, <2>2, <2>3, <2>4, <2>6
    <3>2. RunTypes
      BY DEF ParallelIInv
    <3> QED BY <3>1, <3>2, <2>2, <2>3, <2>5, LocalGrows
  <2> QED BY <1>4, <2>2, <2>3, <2>4, <2>5, <2>6, <2>7
<1>9. Start(w) <= at'[w] /\ at'[w] <= ShardEnd(w)
  BY <1>1, <1>4, <1>5, <1>6
<1>10. ASSUME NEW v \in Workers, v # w
       PROVE  /\ HasTables(kind, WantDenseParallel, locals'[v])
              /\ wpc[v] = "new" => StandsFor(kind, locals'[v], EmptyMap)
              /\ wpc[v] # "new" =>
                   /\ Start(v) <= at'[v] /\ at'[v] <= ShardEnd(v)
                   /\ StandsFor(kind, locals'[v], Joined(BatchGroups(kind, batches), Start(v), at'[v]))
  BY <1>4, <1>10 DEF LocalsStand
<1>11. ASSUME NEW v \in Workers
       PROVE  /\ HasTables(kind, WantDenseParallel, locals'[v])
              /\ wpc[v] = "new" => StandsFor(kind, locals'[v], EmptyMap)
              /\ wpc[v] # "new" =>
                   /\ Start(v) <= at'[v] /\ at'[v] <= ShardEnd(v)
                   /\ StandsFor(kind, locals'[v], Joined(BatchGroups(kind, batches), Start(v), at'[v]))
  BY <1>1, <1>8, <1>9, <1>10
<1> QED BY <1>1, <1>2, <1>3, <1>4, <1>11 DEF LocalsStand

\* The workers and the caller up to the merge.
LEMMA RunGroups ==
  ASSUME NilIsNoTable, ParallelIInv, MergeIInv, AnswerIInv, RunNext, UNCHANGED <<kind, mergeVars>>
  PROVE  AnswerIInv'
<1> USE DEF AnswerIInv
<1>0. CallMade'
  <2>1. batches' = batches /\ kind' = kind
    BY DEF RunNext, RunCaller, Spawn, Await, ReturnError, StartMerge, Worker, FoldBatch, RefuseBatch,
           EndShard, SendDone
  <2> QED BY <2>1 DEF CallMade
<1>1. cpc \in {"spawn", "wait"} /\ cpc' \notin {"barrier", "spill", "ok"}
  <2>1. CASE RunCaller
    BY <2>1 DEF RunCaller, Spawn, Await, ReturnError, StartMerge, AwaitedAll
  <2>2. ASSUME NEW w \in Workers, Worker(w) PROVE cpc \in {"spawn", "wait"} /\ cpc' = cpc
    <3>1. wpc[w] # "done" /\ cpc' = cpc
      BY <2>2 DEF Worker, FoldBatch, RefuseBatch, EndShard, SendDone
    <3> QED BY <3>1, AwaitedAreDone DEF ParallelIInv, Phases
  <2> QED BY <2>1, <2>2 DEF RunNext
<1>2. SlotsMerged' /\ TablesMerged' /\ ResultStands'
  BY <1>1 DEF SlotsMerged, TablesMerged, ResultStands
<1>3. Outcome'
  <2>1. CASE RunCaller
    BY <2>1 DEF RunCaller, Spawn, Await, ReturnError, StartMerge, Outcome, Failed, Workers
  <2>2. ASSUME NEW w \in Workers, Worker(w) PROVE Outcome'
    <3>1. cpc' = cpc
      BY <2>2 DEF Worker, FoldBatch, RefuseBatch, EndShard, SendDone
    <3> QED BY <1>1, <3>1 DEF Outcome
  <2> QED BY <2>1, <2>2 DEF RunNext
<1>4. LocalsStand'
  <2>1. CASE Spawn
    BY <2>1, LocalsSpawn
  <2>2. CASE Await \/ ReturnError \/ StartMerge
    BY <2>2, LocalsFrame DEF Await, ReturnError, StartMerge
  <2>3. ASSUME NEW w \in Workers, FoldBatch(w) PROVE LocalsStand'
    BY <2>3, LocalsFold
  <2>4. ASSUME NEW w \in Workers, RefuseBatch(w) \/ EndShard(w) \/ SendDone(w) PROVE LocalsStand'
    <3>1. UNCHANGED <<batches, workers, locals, at>>
      BY <2>4 DEF RefuseBatch, EndShard, SendDone
    <3>2. \A v \in Workers : wpc'[v] = "new" <=> wpc[v] = "new"
      BY <2>4 DEF RefuseBatch, EndShard, SendDone, ParallelIInv, RunTypes
    <3> QED BY <3>1, <3>2, LocalsFrame
  <2> QED BY <2>1, <2>2, <2>3, <2>4 DEF RunNext, RunCaller, Worker
<1> QED BY <1>0, <1>2, <1>3, <1>4

-----------------------------------------------------------------------------
(* The locals after the barrier.                                            *)

\* A call without a failure has folded every batch.
LEMMA AllFolded ==
  ASSUME ParallelIInv, LocalsStand, Failed = {}, cpc \notin {"spawn", "wait"}
  PROVE  /\ \A w \in Workers : wpc[w] = "done" /\ at[w] = ShardEnd(w)
         /\ \A i \in DOMAIN batches : ~OutOfRange(batches[i])
<1>1. awaited = workers
  BY DEF ParallelIInv, Phases
<1>2. \A w \in Workers : wpc[w] = "done"
  BY <1>1, AwaitedAreDone
<1>3. ASSUME NEW w \in Workers
      PROVE  /\ at[w] = ShardEnd(w)
             /\ \A i \in ShardStart(w, Len(batches), workers) + 1 .. at[w] : ~OutOfRange(batches[i])
  <2>1. errs[w] = NULL
    BY DEF Failed
  <2>2. at[w] >= ShardEnd(w)
    BY <1>2, <2>1 DEF ParallelIInv, Shards
  <2>3. at[w] <= ShardEnd(w)
    BY <1>2 DEF LocalsStand
  <2>4. at[w] \in Nat /\ ShardEnd(w) \in Nat
    BY StartEnd DEF ParallelIInv, RunTypes
  <2>5. \A i \in ShardStart(w, Len(batches), workers) + 1 .. at[w] : ~OutOfRange(batches[i])
    BY <1>2 DEF ParallelIInv, Shards
  <2> QED BY <2>2, <2>3, <2>4, <2>5
<1>4. ASSUME NEW i \in DOMAIN batches PROVE ~OutOfRange(batches[i])
  <2> DEFINE n == Len(batches)
  <2>1. n \in Nat /\ workers \in Nat \ {0} /\ i \in 1 .. n
    BY DEF ParallelIInv, RunTypes
  <2>2. ShardStart(workers, n, workers) = n
    BY <2>1, Cancels DEF ShardStart
  <2>3. (workers - 1) + 1 = workers /\ workers - 1 \in 0 .. workers - 1
    BY <2>1
  <2>4. i \in Nat \ {0} /\ i <= ShardStart((workers - 1) + 1, n, workers)
    BY <2>1, <2>2, <2>3
  <2>5. PICK w \in 0 .. workers - 1 : i \in ShardStart(w, n, workers) + 1 .. ShardStart(w + 1, n, workers)
    BY <2>1, <2>3, <2>4, ShardOf
  <2>6. w \in Workers
    BY DEF Workers
  <2> QED BY <1>3, <2>5, <2>6 DEF ShardEnd
<1> QED BY <1>2, <1>3, <1>4

Shares == [n \in 1 .. workers |->
             Joined(BatchGroups(kind, batches), ShardStart(n - 1, Len(batches), workers),
                                                ShardStart(n, Len(batches), workers))]

LEMMA SharesJoin ==
  ASSUME ParallelIInv, CallMade, LocalsStand, Failed = {}, cpc \notin {"spawn", "wait"}
  PROVE  /\ \A n \in 1 .. workers : /\ StandsFor(kind, LocalSeq[n], Shares[n])
                                    /\ HasTables(kind, WantDenseParallel, LocalSeq[n])
         /\ AreMaps(Shares, 0, workers, Keys)
         /\ Joined(Shares, 0, workers) = Joined(BatchGroups(kind, batches), 0, Len(batches))
         /\ AreMaps(BatchGroups(kind, batches), 0, Len(batches), Keys)
<1> DEFINE E == BatchGroups(kind, batches)
           s == [k \in 0 .. workers |-> ShardStart(k, Len(batches), workers)]
<1>1. /\ workers \in Nat \ {0} /\ Len(batches) \in Nat /\ DOMAIN batches = 1 .. Len(batches)
      /\ RunTypes
  BY DEF ParallelIInv, RunTypes
<1>2. ASSUME NEW n \in 1 .. workers
      PROVE  /\ StandsFor(kind, LocalSeq[n], Shares[n])
             /\ HasTables(kind, WantDenseParallel, LocalSeq[n])
  <2>1. n - 1 \in Workers /\ (n - 1) + 1 = n
    BY <1>1 DEF Workers
  <2>2. at[n - 1] = ShardEnd(n - 1) /\ wpc[n - 1] = "done"
    BY <2>1, AllFolded
  <2>3. ShardEnd(n - 1) = ShardStart(n, Len(batches), workers)
    BY <2>1 DEF ShardEnd
  <2>4. /\ StandsFor(kind, locals[n - 1], Joined(E, Start(n - 1), at[n - 1]))
        /\ HasTables(kind, WantDenseParallel, locals[n - 1])
    BY <2>1, <2>2 DEF LocalsStand
  <2>5. LocalSeq[n] = locals[n - 1]
    BY DEF LocalSeq
  <2> QED BY <2>2, <2>3, <2>4, <2>5 DEF Shares, Start
<1>3. ASSUME NEW k \in 0 .. workers PROVE ShardStart(k, Len(batches), workers) \in 0 .. Len(batches)
  BY <1>1, ShardStartRange
<1>4. ShardStart(0, Len(batches), workers) = 0
  <2>1. 0 \in 0 .. workers
    BY <1>1
  <2> QED BY <1>1, <2>1, ShardStartRange
<1>5. ShardStart(workers, Len(batches), workers) = Len(batches)
  BY <1>1, Cancels DEF ShardStart
<1>6. AreMaps(E, 0, Len(batches), Keys)
  <2>1. \A i \in 0 + 1 .. Len(batches) : ~OutOfRange(batches[i])
    BY <1>1, AllFolded
  <2>2. 0 \in Nat /\ Len(batches) <= Len(batches)
    BY <1>1
  <2> QED BY <1>1, <2>1, <2>2, GoodBatches
<1>7. s \in [0 .. workers -> Int] /\ s[0] = 0 /\ s[workers] = Len(batches)
  BY <1>1, <1>3, <1>4, <1>5
<1>8. \A k \in 1 .. workers : s[0] <= s[k - 1] /\ s[k - 1] <= s[k] /\ s[k] <= s[workers]
  <2> SUFFICES ASSUME NEW k \in 1 .. workers
               PROVE  s[0] <= s[k - 1] /\ s[k - 1] <= s[k] /\ s[k] <= s[workers]
    OBVIOUS
  <2>1. k \in 0 .. workers /\ k - 1 \in 0 .. workers /\ k - 1 <= k
    BY <1>1
  <2>2. ShardStart(k - 1, Len(batches), workers) <= ShardStart(k, Len(batches), workers)
    BY <1>1, <2>1, ShardsFollow
  <2>3. /\ ShardStart(k - 1, Len(batches), workers) \in 0 .. Len(batches)
        /\ ShardStart(k, Len(batches), workers) \in 0 .. Len(batches)
    BY <1>3, <2>1
  <2>4. /\ s[k] = ShardStart(k, Len(batches), workers)
        /\ s[k - 1] = ShardStart(k - 1, Len(batches), workers)
    BY <2>1
  <2> HIDE DEF s
  <2> QED BY <1>7, <2>2, <2>3, <2>4
<1>9. ASSUME NEW k \in 1 .. workers PROVE Shares[k] = Joined(E, s[k - 1], s[k])
  <2>1. k \in 0 .. workers /\ k - 1 \in 0 .. workers
    BY <1>1
  <2> QED BY <2>1 DEF Shares
<1>10. AreMaps(Shares, 0, workers, Keys)
  <2> SUFFICES ASSUME NEW k \in 0 + 1 .. workers PROVE IsMap(Shares[k], Keys)
    BY DEF AreMaps
  <2> HIDE DEF s, E
  <2>1. /\ s[k - 1] \in Int /\ s[k] \in Int
        /\ s[0] <= s[k - 1] /\ s[k - 1] <= s[k] /\ s[k] <= s[workers]
    BY <1>1, <1>7, <1>8
  <2>2. AreMaps(E, s[k - 1], s[k], Keys)
    BY <1>1, <1>6, <1>7, <2>1 DEF AreMaps
  <2>3. IsMap(Joined(E, s[k - 1], s[k]), Keys)
    BY <2>1, <2>2, JoinedIsMap
  <2> QED BY <1>9, <2>3
<1>11. Joined(Shares, 0, workers) = Joined(E, s[0], s[workers])
  <2> HIDE DEF s, E
  <2>1. AreMaps(E, s[0], s[workers], Keys)
    BY <1>6, <1>7
  <2>2. workers \in Nat /\ s \in [0 .. workers -> Int]
    BY <1>1, <1>7
  <2>3. \A k \in 1 .. workers : Shares[k] = Joined(E, s[k - 1], s[k])
    BY <1>9
  <2>4. PICK g : g = Shares
    OBVIOUS
  <2>5. Joined(g, 0, workers) = Joined(E, s[0], s[workers])
    BY <1>8, <2>1, <2>2, <2>3, <2>4, JoinedRuns
  <2> QED BY <2>4, <2>5
<1> HIDE DEF s
<1> QED BY <1>2, <1>6, <1>7, <1>10, <1>11

-----------------------------------------------------------------------------
(* One local after the other.                                               *)

Sequential == INSTANCE FoldLemmas WITH Step <- MergeAgg, Holds <- OnKeys

LEMMA SequentialSteps ==
  ASSUME NEW base, NEW q, NEW n \in Nat, DOMAIN q = 1 .. n
  PROVE  \E h : Sequential!Trace(h, base, q, n) /\ FoldLeft(MergeAgg, base, q) = h[n]
<1>1. FoldLeft(MergeAgg, base, q) = Sequential!FoldOf(base, q)
  BY DEF Sequential!FoldOf, Sequential!Latest, FoldLeft, MapThenFoldSet, Max
<1>2. \E h : Sequential!Trace(h, base, q, n) /\ Sequential!FoldOf(base, q) = h[n]
  BY Sequential!FoldSteps
<1> QED BY <1>1, <1>2

LEMMA MergedInSequence ==
  ASSUME NilIsNoTable, NEW k, NEW base, StandsFor(k, base, EmptyMap),
         NEW n \in Nat, NEW q, DOMAIN q = 1 .. n, NEW s, AreMaps(s, 0, n, Keys),
         \A j \in 1 .. n : StandsFor(k, q[j], s[j])
  PROVE  StandsFor(k, FoldLeft(MergeAgg, base, q), Joined(s, 0, n))
<1>1. PICK h : Sequential!Trace(h, base, q, n) /\ FoldLeft(MergeAgg, base, q) = h[n]
  BY SequentialSteps
<1>2. h[0] = base /\ \A j \in 1 .. n : h[j] = MergeAgg(h[j - 1], q[j])
  BY <1>1 DEF Sequential!Trace
<1> DEFINE S == {j \in 0 .. n : StandsFor(k, h[j], Joined(s, 0, j))}
<1>3. 0 \in S
  <2>1. Joined(s, 0, 0) = EmptyMap
    BY JoinedNone
  <2> QED BY <1>2, <2>1
<1>4. ASSUME NEW j \in 1 .. n, j - 1 \in S PROVE j \in S
  <2>1. j - 1 \in Int /\ 0 <= j - 1 /\ (j - 1) + 1 = j /\ j \in 0 + 1 .. n
    OBVIOUS
  <2> DEFINE t == Joined(s, 0, j - 1)
  <2>2. StandsFor(k, h[j - 1], t) /\ StandsFor(k, q[j], s[j])
    BY <1>4
  <2>3. IsMap(t, Keys) /\ IsMap(s[j], Keys)
    <3>1. AreMaps(s, 0, j - 1, Keys)
      BY <2>1 DEF AreMaps
    <3>2. IsMap(s[j], Keys)
      BY <2>1 DEF AreMaps
    <3> QED BY <2>1, <3>1, <3>2, JoinedIsMap
  <2>4. Joined(s, 0, (j - 1) + 1) = MapInto(t, s[(j - 1) + 1])
    BY <2>1, JoinedMore
  <2> HIDE DEF t
  <2>5. Like(h[j], h[j - 1]) /\ Matches(h[j], MapInto(t, s[j]))
    BY <1>2, <2>2, <2>3, MergeFits DEF StandsFor
  <2>6. StandsFor(k, h[j], Joined(s, 0, j))
    BY <2>1, <2>2, <2>4, <2>5 DEF StandsFor, Like
  <2> QED BY <2>6
<1>5. 0 .. n \subseteq S
  <2> HIDE DEF S
  <2> QED BY <1>3, <1>4, Sequential!UpTo
<1>6. n \in S
  BY <1>5
<1> QED BY <1>1, <1>6

\* A call that has its result keeps what holds of the locals.
LEMMA MergeKeeps ==
  ASSUME AnswerIInv, UNCHANGED shardVars,
         cpc \in {"merge", "barrier", "spill"}, cpc' \in {"barrier", "spill", "ok"}
  PROVE  CallMade' /\ Outcome' /\ LocalsStand'
<1>1. CallMade' /\ LocalsStand'
  BY LocalsFrame DEF AnswerIInv, CallMade, shardVars
<1>2. Failed' = Failed
  BY DEF shardVars, Failed, Workers
<1> QED BY <1>1, <1>2 DEF AnswerIInv, Outcome

LEMMA SequenceStep ==
  ASSUME NilIsNoTable, ParallelIInv, AnswerIInv, MergeInSequence
  PROVE  AnswerIInv'
<1>1. /\ cpc = "merge" /\ kind # "int64" /\ cpc' = "ok" /\ UNCHANGED shardVars
      /\ out' = FoldLeft(MergeAgg, NewAgg, LocalSeq)
  BY DEF MergeInSequence
<1>2. CallMade' /\ Outcome' /\ LocalsStand'
  BY <1>1, MergeKeeps
<1>3. /\ \A n \in 1 .. workers : StandsFor(kind, LocalSeq[n], Shares[n])
      /\ AreMaps(Shares, 0, workers, Keys)
      /\ Joined(Shares, 0, workers) = Joined(BatchGroups(kind, batches), 0, Len(batches))
  BY <1>1, SharesJoin DEF AnswerIInv, Outcome
<1>4. StandsFor(kind, NewAgg, EmptyMap)
  BY CallFacts, NewAggFits DEF AnswerIInv
<1>5. workers \in Nat /\ DOMAIN LocalSeq = 1 .. workers
  BY DEF ParallelIInv, RunTypes, LocalSeq
<1>6. StandsFor(kind, FoldLeft(MergeAgg, NewAgg, LocalSeq), Joined(Shares, 0, workers))
  BY <1>3, <1>4, <1>5, MergedInSequence
<1>7. ResultStands'
  BY <1>1, <1>3, <1>6 DEF ResultStands, shardVars
<1>8. SlotsMerged' /\ TablesMerged'
  BY <1>1 DEF SlotsMerged, TablesMerged
<1> QED BY <1>2, <1>7, <1>8 DEF AnswerIInv

-----------------------------------------------------------------------------
(* The tables first, then the rest.                                         *)

\* The groups of a local are those in its table and the rest.
LEMMA IntParts ==
  ASSUME NEW g, g.kind = "int64", Fits(g), NEW dense \in BOOLEAN, HasTables("int64", dense, g)
  PROVE  /\ IsMap(TableOf(dense, g), Int) /\ IsMap(TableOf(dense, g), Keys)
         /\ dense => DenseFits(g.dense, g.mod) /\ g.mod \in Nat \ {0}
         /\ IsMap(Spilled(g), Int \ (0 .. g.mod - 1)) /\ NullFits(g)
         /\ IsMap(NullGroup(g), Keys) /\ IsMap(RestOf(g), Keys)
         /\ GroupsOf(g) = MapInto(TableOf(dense, g), RestOf(g))
<1>1. IntFits(g) /\ NullFits(g)
  BY DEF Fits, IntFits
<1>2. IF dense THEN g.dense # NULL ELSE g.dense = NULL /\ g.oa # NULL
  BY DEF HasTables
<1>3. Int \subseteq Keys /\ (Int \ (0 .. g.mod - 1)) \subseteq Keys
  BY DEF Keys
<1>4. IsMap(Spilled(g), Int \ (0 .. g.mod - 1))
  BY <1>1, SpilledIsMap
<1>5. IsMap(Spilled(g), Keys)
  BY <1>3, <1>4, MapWidens
<1>6. IsMap(NullGroup(g), Keys)
  BY <1>1, NullIsMap
<1>7. IsMap(RestOf(g), Keys)
  BY <1>5, <1>6, JoinIsMap DEF RestOf
<1>8. CASE dense
  <2>1. g.mod \in Nat \ {0} /\ DenseFits(g.dense, g.mod)
    BY <1>1, <1>2, <1>8 DEF IntFits
  <2>2. IsMap(InDense(g.dense), 0 .. g.mod - 1)
    BY <2>1, DenseIsMap
  <2>3. IsMap(InDense(g.dense), Int)
    <3>1. 0 .. g.mod - 1 \subseteq Int
      OBVIOUS
    <3> QED BY <2>2, <3>1, MapWidens
  <2>4. IsMap(InDense(g.dense), Keys)
    BY <1>3, <2>3, MapWidens
  <2>5. Held(g) = MapInto(InDense(g.dense), Spilled(g))
    BY <1>2, <1>8 DEF Held
  <2>6. MapInto(MapInto(InDense(g.dense), Spilled(g)), NullGroup(g))
          = MapInto(InDense(g.dense), MapInto(Spilled(g), NullGroup(g)))
    BY <1>5, <1>6, <2>4, JoinAssociative
  <2>7. TableOf(dense, g) = InDense(g.dense)
    BY <1>8 DEF TableOf
  <2> QED BY <1>1, <1>4, <1>6, <1>7, <2>1, <2>3, <2>4, <2>5, <2>6, <2>7 DEF GroupsOf, RestOf
<1>9. CASE ~dense
  <2>1. IsMap(g.oa, Int) /\ g.spill = NULL
    BY <1>1, <1>2, <1>9 DEF IntFits
  <2>2. IsMap(g.oa, Keys)
    BY <1>3, <2>1, MapWidens
  <2>3. Held(g) = g.oa /\ Spilled(g) = EmptyMap
    BY <1>2, <1>9, <2>1 DEF Held, Spilled
  <2>4. MapInto(EmptyMap, NullGroup(g)) = NullGroup(g)
    BY <1>6, JoinEmpty
  <2>5. TableOf(dense, g) = g.oa
    BY <1>9 DEF TableOf
  <2> QED BY <1>1, <1>4, <1>6, <1>7, <1>9, <2>1, <2>2, <2>3, <2>4, <2>5 DEF GroupsOf, RestOf
<1> QED BY <1>8, <1>9

\* What Finish takes over from one local.
LEMMA RestGrows ==
  ASSUME NilIsNoTable, NEW g, g.kind = "int64", Fits(g),
         NEW dense \in BOOLEAN, HasTables("int64", dense, g),
         NEW l, l.kind = "int64", Fits(l), HasTables("int64", dense, l), l.mod = g.mod,
         NEW f, f = MergeRest(g, l)
  PROVE  /\ Like(f, g) /\ HasTables("int64", dense, f)
         /\ GroupsOf(f) = MapInto(GroupsOf(g), RestOf(l))
<1>1. PICK x : x = MergeSpill(g, l)
  OBVIOUS
<1>2. f = MergeNull(x, l)
  BY <1>1 DEF MergeRest
<1>3. /\ IsMap(Spilled(l), Int \ (0 .. g.mod - 1)) /\ NullFits(l) /\ IsMap(NullGroup(l), Keys)
  BY IntParts
<1>4. IntFits(g) /\ IntFits(l)
  BY DEF Fits
<1>5. IsMap(GroupsOf(g), Keys)
  BY HeldIsMap
<1>6. /\ Like(x, g) /\ x.kind = "int64" /\ HasTables("int64", dense, x)
      /\ GroupsOf(x) = MapInto(GroupsOf(g), Spilled(l))
  <2>1. CASE l.spill = NULL
    <3>1. x = g /\ Spilled(l) = EmptyMap
      BY <1>1, <2>1 DEF MergeSpill, Spilled
    <3>2. MapInto(GroupsOf(g), EmptyMap) = GroupsOf(g)
      BY <1>5, JoinEmpty
    <3> QED BY <3>1, <3>2 DEF Like
  <2>2. CASE l.spill # NULL
    <3>1. dense /\ g.dense # NULL
      BY <1>4, <2>2 DEF IntFits, HasTables
    <3>2. Spilled(l) = l.spill
      BY <2>2 DEF Spilled
    <3>3. x = [g EXCEPT !.spill = MapInto(EnsureSpill(g).spill, l.spill)]
      BY <1>1, <2>2 DEF MergeSpill
    <3>4. IsMap(l.spill, Int \ (0 .. g.mod - 1))
      BY <1>3, <3>2
    <3>5. IntLike(x, g) /\ x.dense = g.dense /\ GroupsOf(x) = MapInto(GroupsOf(g), l.spill)
      BY <1>4, <3>1, <3>3, <3>4, SpillIntoFits
    <3>6. Like(x, g) /\ x.kind = "int64"
      BY <3>5, IntIsLike DEF IntLike
    <3> QED BY <3>1, <3>2, <3>5, <3>6 DEF HasTables
  <2> QED BY <2>1, <2>2
<1>7. Fits(x) /\ x.kind # "global"
  BY <1>6 DEF Like
<1>8. Like(f, x) /\ GroupsOf(f) = MapInto(GroupsOf(x), NullGroup(l))
  BY <1>2, <1>3, <1>7, MergeNullFits
<1>9. HasTables("int64", dense, f)
  <2>1. DOMAIN x = {"kind", "mod", "hasVal", "dense", "oa", "spill", "nullKey", "hasNull"}
    BY <1>6, <1>7 DEF Fits, IntFits
  <2>2. f.dense = x.dense /\ f.oa = x.oa
    BY <1>2, <2>1 DEF MergeNull
  <2> QED BY <1>6, <2>2 DEF HasTables
<1>10. MapInto(MapInto(GroupsOf(g), Spilled(l)), NullGroup(l)) = MapInto(GroupsOf(g), RestOf(l))
  <2>1. IsMap(Spilled(l), Keys)
    <3>1. (Int \ (0 .. g.mod - 1)) \subseteq Keys
      BY DEF Keys
    <3> QED BY <1>3, <3>1, MapWidens
  <2> QED BY <1>3, <1>5, <2>1, JoinAssociative DEF RestOf
<1> QED BY <1>6, <1>8, <1>9, <1>10 DEF Like

\* What Finish makes of the result and the locals.
RestFold(base, q) == FoldLeft(MergeRest, base, q)

LEMMA RestSteps ==
  ASSUME NEW base, NEW q, NEW n \in Nat, DOMAIN q = 1 .. n
  PROVE  \E h : Rest!Trace(h, base, q, n) /\ RestFold(base, q) = h[n]
<1>1. RestFold(base, q) = Rest!FoldOf(base, q)
  BY DEF RestFold, Rest!FoldOf, Rest!Latest, FoldLeft, MapThenFoldSet, Max
<1>2. \E h : Rest!Trace(h, base, q, n) /\ Rest!FoldOf(base, q) = h[n]
  BY Rest!FoldSteps
<1> QED BY <1>1, <1>2

\* n locals like g, and what is left of each beside its table.
LocalsLike(q, n, dense, g) ==
  \A j \in 1 .. n : /\ q[j].kind = "int64" /\ Fits(q[j]) /\ HasTables("int64", dense, q[j])
                    /\ q[j].mod = g.mod
RestsHold(r, q, n) == \A j \in 1 .. n : r[j] = RestOf(q[j])

\* Finish takes over the rest of each local.
LEMMA RestsMerged ==
  ASSUME NilIsNoTable, NEW g, g.kind = "int64", Fits(g),
         NEW dense \in BOOLEAN, HasTables("int64", dense, g),
         NEW n \in Nat, NEW q, DOMAIN q = 1 .. n, LocalsLike(q, n, dense, g),
         NEW r, RestsHold(r, q, n), NEW f, f = RestFold(g, q)
  PROVE  Like(f, g) /\ GroupsOf(f) = MapInto(GroupsOf(g), Joined(r, 0, n))
<1>1. PICK h : Rest!Trace(h, g, q, n) /\ f = h[n]
  BY RestSteps
<1>2. h[0] = g /\ \A j \in 1 .. n : h[j] = MergeRest(h[j - 1], q[j])
  BY <1>1 DEF Rest!Trace
<1> DEFINE S == {j \in 0 .. n : Like(h[j], g) /\ HasTables("int64", dense, h[j])}
<1>3. 0 \in S
  BY <1>2 DEF Like
<1>4. ASSUME NEW j \in 1 .. n, j - 1 \in S
      PROVE  /\ Like(h[j], g) /\ HasTables("int64", dense, h[j])
             /\ GroupsOf(h[j]) = MapInto(GroupsOf(h[j - 1]), r[j])
  <2>1. Like(h[j - 1], g) /\ HasTables("int64", dense, h[j - 1])
    BY <1>4
  <2>2. h[j - 1].kind = "int64" /\ Fits(h[j - 1]) /\ h[j - 1].mod = g.mod
    BY <2>1 DEF Like, ModOf
  <2>3. /\ q[j].kind = "int64" /\ Fits(q[j]) /\ HasTables("int64", dense, q[j])
        /\ q[j].mod = h[j - 1].mod
    BY <2>2 DEF LocalsLike
  <2>4. /\ Like(h[j], h[j - 1]) /\ HasTables("int64", dense, h[j])
        /\ GroupsOf(h[j]) = MapInto(GroupsOf(h[j - 1]), RestOf(q[j]))
    BY <1>2, <2>1, <2>2, <2>3, RestGrows
  <2>5. r[j] = RestOf(q[j])
    BY DEF RestsHold
  <2> QED BY <2>1, <2>4, <2>5 DEF Like
<1>5. \A j \in 1 .. n : j - 1 \in S => j \in S
  BY <1>4
<1>6. 0 .. n \subseteq S
  <2> HIDE DEF S
  <2> QED BY <1>3, <1>5, Rest!UpTo
<1>7. \A j \in 1 .. n : GroupsOf(h[j]) = MapInto(GroupsOf(h[j - 1]), r[j])
  <2>1. \A j \in 1 .. n : j - 1 \in 0 .. n
    OBVIOUS
  <2> HIDE DEF S
  <2> QED BY <1>4, <1>6, <2>1
<1>8. Like(h[n], g)
  BY <1>6
<1> DEFINE G == [j \in 0 .. n |-> GroupsOf(h[j])]
<1>9. G[0] = GroupsOf(g) /\ G[n] = GroupsOf(h[n])
  BY <1>2
<1>10. \A j \in 1 .. n : G[j] = MapInto(G[j - 1], r[j])
  <2>1. \A j \in 1 .. n : j - 1 \in 0 .. n /\ j \in 0 .. n
    OBVIOUS
  <2> QED BY <1>7, <2>1
<1>11. IsMap(GroupsOf(g), Keys)
  BY HeldIsMap
<1>12. AreMaps(r, 0, n, Keys)
  <2> SUFFICES ASSUME NEW j \in 0 + 1 .. n PROVE IsMap(r[j], Keys)
    BY DEF AreMaps
  <2>1. j \in 1 .. n
    OBVIOUS
  <2>2. IsMap(RestOf(q[j]), Keys) /\ r[j] = RestOf(q[j])
    BY <2>1, IntParts DEF LocalsLike, RestsHold
  <2> QED BY <2>1, <2>2
<1> HIDE DEF G
<1>13. G[n] = MapInto(G[0], Joined(r, 0, n))
  BY <1>9, <1>10, <1>11, <1>12, JoinedFollows
<1> QED BY <1>1, <1>8, <1>9, <1>13

\* The locals of an int64 call, taken apart.
LEMMA LocalParts ==
  ASSUME ParallelIInv, AnswerIInv, cpc \in {"merge", "barrier", "spill"}, kind = "int64"
  PROVE  /\ \A n \in 1 .. workers :
              /\ LocalSeq[n].kind = "int64" /\ Fits(LocalSeq[n]) /\ LocalSeq[n].mod = Mod
              /\ HasTables("int64", WantDenseParallel, LocalSeq[n])
              /\ Tables[n] = TableOf(WantDenseParallel, LocalSeq[n])
              /\ Rests[n] = RestOf(LocalSeq[n])
         /\ AreMaps(Tables, 0, workers, Int)
         /\ WantDenseParallel => AreMaps(Tables, 0, workers, 0 .. Mod - 1)
         /\ Joined(BatchGroups(kind, batches), 0, Len(batches))
              = MapInto(Joined(Tables, 0, workers), Joined(Rests, 0, workers))
<1>0. workers \in Nat \ {0}
  BY DEF ParallelIInv, RunTypes
<1>1. /\ \A n \in 1 .. workers : /\ StandsFor(kind, LocalSeq[n], Shares[n])
                                 /\ HasTables(kind, WantDenseParallel, LocalSeq[n])
      /\ Joined(Shares, 0, workers) = Joined(BatchGroups(kind, batches), 0, Len(batches))
  BY SharesJoin DEF AnswerIInv, Outcome
<1>2. ASSUME NEW n \in 1 .. workers
      PROVE  /\ LocalSeq[n].kind = "int64" /\ Fits(LocalSeq[n]) /\ LocalSeq[n].mod = Mod
             /\ HasTables("int64", WantDenseParallel, LocalSeq[n])
             /\ Shares[n] = GroupsOf(LocalSeq[n])
             /\ Tables[n] = TableOf(WantDenseParallel, LocalSeq[n])
             /\ Rests[n] = RestOf(LocalSeq[n])
  <2>1. /\ LocalSeq[n].kind = "int64" /\ Fits(LocalSeq[n])
        /\ ModOf(LocalSeq[n]) = CallMod(kind) /\ Matches(LocalSeq[n], Shares[n])
    BY <1>1 DEF StandsFor
  <2>2. LocalSeq[n].mod = Mod /\ Shares[n] = GroupsOf(LocalSeq[n])
    BY <2>1 DEF ModOf, CallMod, Matches
  <2>3. LocalSeq[n] = locals[n - 1]
    BY DEF LocalSeq
  <2>4. Tables[n] = TableOf(WantDenseParallel, LocalSeq[n]) /\ Rests[n] = RestOf(LocalSeq[n])
    BY <2>3 DEF Tables, Rests
  <2> QED BY <1>1, <2>1, <2>2, <2>4
<1>3. PICK dense \in BOOLEAN : dense <=> WantDenseParallel
  OBVIOUS
<1>4. ASSUME NEW n \in 1 .. workers
      PROVE  /\ IsMap(Tables[n], Int) /\ IsMap(Tables[n], Keys) /\ IsMap(Rests[n], Keys)
             /\ WantDenseParallel => IsMap(Tables[n], 0 .. Mod - 1)
             /\ Shares[n] = MapInto(Tables[n], Rests[n])
  <2>1. PICK g : g = LocalSeq[n]
    OBVIOUS
  <2>2. /\ g.kind = "int64" /\ Fits(g) /\ g.mod = Mod
        /\ Shares[n] = GroupsOf(g) /\ Rests[n] = RestOf(g)
    BY <1>2, <2>1
  <2>3. HasTables("int64", dense, g) /\ Tables[n] = TableOf(dense, g)
    BY <1>2, <1>3, <2>1 DEF HasTables, TableOf
  <2>4. /\ IsMap(TableOf(dense, g), Int) /\ IsMap(TableOf(dense, g), Keys) /\ IsMap(RestOf(g), Keys)
        /\ GroupsOf(g) = MapInto(TableOf(dense, g), RestOf(g))
    BY <2>2, <2>3, IntParts
  <2>5. dense => IsMap(TableOf(dense, g), 0 .. Mod - 1)
    <3> SUFFICES ASSUME dense PROVE IsMap(InDense(g.dense), 0 .. Mod - 1)
      BY DEF TableOf
    <3>1. DenseFits(g.dense, g.mod) /\ g.mod \in Nat
      BY <2>2, <2>3, IntParts
    <3> QED BY <2>2, <3>1, DenseIsMap
  <2> QED BY <1>3, <2>2, <2>3, <2>4, <2>5
<1>5. /\ AreMaps(Tables, 0, workers, Int) /\ AreMaps(Tables, 0, workers, Keys)
      /\ AreMaps(Rests, 0, workers, Keys)
      /\ WantDenseParallel => AreMaps(Tables, 0, workers, 0 .. Mod - 1)
  <2>1. \A n \in 0 + 1 .. workers : n \in 1 .. workers
    OBVIOUS
  <2> QED BY <1>4, <2>1 DEF AreMaps
<1>6. Joined(Shares, 0, workers) = MapInto(Joined(Tables, 0, workers), Joined(Rests, 0, workers))
  <2>1. workers \in Nat /\ \A n \in 1 .. workers : Shares[n] = MapInto(Tables[n], Rests[n])
    BY <1>0, <1>4
  <2>2. PICK f : f = Tables
    OBVIOUS
  <2>3. PICK g : g = Rests
    OBVIOUS
  <2>4. PICK h : h = Shares
    OBVIOUS
  <2>5. AreMaps(f, 0, workers, Keys) /\ AreMaps(g, 0, workers, Keys)
    BY <1>5, <2>2, <2>3
  <2>6. \A n \in 1 .. workers : h[n] = MapInto(f[n], g[n])
    BY <2>1, <2>2, <2>3, <2>4
  <2>7. Joined(h, 0, workers) = MapInto(Joined(f, 0, workers), Joined(g, 0, workers))
    BY <2>1, <2>5, <2>6, JoinedPairs
  <2> QED BY <2>2, <2>3, <2>4, <2>7
<1> QED BY <1>1, <1>2, <1>5, <1>6

LEMMA FinishGroups ==
  ASSUME NilIsNoTable, ParallelIInv, AnswerIInv, Finish
  PROVE  AnswerIInv'
<1>1. /\ cpc = "spill" /\ cpc' = "ok" /\ UNCHANGED shardVars
      /\ out' = RestFold(out, LocalSeq)
  BY DEF Finish, RestFold
<1>2. CallMade' /\ Outcome' /\ LocalsStand'
  BY <1>1, MergeKeeps
<1>3. /\ kind = "int64" /\ StandsFor(kind, out, Joined(Tables, 0, workers))
      /\ HasTables(kind, WantDenseParallel, out)
  BY <1>1 DEF AnswerIInv, TablesMerged
<1>4. PICK dense \in BOOLEAN : dense <=> WantDenseParallel
  OBVIOUS
<1>5. /\ \A n \in 1 .. workers :
              /\ LocalSeq[n].kind = "int64" /\ Fits(LocalSeq[n]) /\ LocalSeq[n].mod = Mod
              /\ HasTables("int64", dense, LocalSeq[n])
              /\ Rests[n] = RestOf(LocalSeq[n])
      /\ Joined(BatchGroups(kind, batches), 0, Len(batches))
           = MapInto(Joined(Tables, 0, workers), Joined(Rests, 0, workers))
  <2>1. /\ \A n \in 1 .. workers :
              /\ LocalSeq[n].kind = "int64" /\ Fits(LocalSeq[n]) /\ LocalSeq[n].mod = Mod
              /\ HasTables("int64", WantDenseParallel, LocalSeq[n])
              /\ Rests[n] = RestOf(LocalSeq[n])
        /\ Joined(BatchGroups(kind, batches), 0, Len(batches))
             = MapInto(Joined(Tables, 0, workers), Joined(Rests, 0, workers))
    BY <1>1, <1>3, LocalParts
  <2> QED BY <1>4, <2>1 DEF HasTables
<1>6. PICK g : g = out
  OBVIOUS
<1>7. /\ g.kind = "int64" /\ Fits(g) /\ g.mod = Mod /\ HasTables("int64", dense, g)
      /\ ModOf(g) = CallMod(kind) /\ HasValOf(g) = CallHasVal(kind)
      /\ GroupsOf(g) = Joined(Tables, 0, workers)
  <2>1. /\ g.kind = "int64" /\ Fits(g) /\ ModOf(g) = CallMod(kind) /\ HasValOf(g) = CallHasVal(kind)
        /\ Matches(g, Joined(Tables, 0, workers))
    BY <1>3, <1>6 DEF StandsFor
  <2>2. g.mod = Mod /\ GroupsOf(g) = Joined(Tables, 0, workers)
    BY <1>3, <2>1 DEF ModOf, CallMod, Matches
  <2>3. HasTables("int64", dense, g)
    BY <1>3, <1>4, <1>6 DEF HasTables
  <2> QED BY <2>1, <2>2, <2>3
<1>8. workers \in Nat /\ DOMAIN LocalSeq = 1 .. workers
  BY DEF ParallelIInv, RunTypes, LocalSeq
<1>9. PICK q : q = LocalSeq
  OBVIOUS
<1>10. PICK r : r = Rests
  OBVIOUS
<1>11. PICK f : f = RestFold(g, q)
  OBVIOUS
<1>12. Like(f, g) /\ GroupsOf(f) = MapInto(GroupsOf(g), Joined(r, 0, workers))
  <2>1. DOMAIN q = 1 .. workers
    BY <1>8, <1>9
  <2>2. LocalsLike(q, workers, dense, g)
    BY <1>5, <1>7, <1>9 DEF LocalsLike
  <2>3. RestsHold(r, q, workers)
    BY <1>5, <1>9, <1>10 DEF RestsHold
  <2> HIDE DEF StandsFor
  <2> QED BY <1>7, <1>8, <1>11, <2>1, <2>2, <2>3, RestsMerged
<1>13. StandsFor(kind, f, Joined(BatchGroups(kind, batches), 0, Len(batches)))
  <2>1. GroupsOf(f) = Joined(BatchGroups(kind, batches), 0, Len(batches))
    BY <1>5, <1>7, <1>10, <1>12
  <2>2. f.kind = kind /\ Fits(f) /\ ModOf(f) = CallMod(kind) /\ HasValOf(f) = CallHasVal(kind)
    BY <1>3, <1>7, <1>12 DEF Like
  <2> QED BY <1>3, <2>1, <2>2 DEF StandsFor, Matches
<1>14. ResultStands'
  <2>1. out' = f
    BY <1>1, <1>6, <1>9, <1>11
  <2> QED BY <1>1, <1>13, <2>1 DEF ResultStands, shardVars
<1>15. SlotsMerged' /\ TablesMerged'
  BY <1>1 DEF SlotsMerged, TablesMerged
<1> QED BY <1>2, <1>14, <1>15 DEF AnswerIInv

\* A result whose array holds the groups of all tables.
LEMMA ArrayOut ==
  ASSUME NilIsNoTable, ParallelIInv, AnswerIInv, cpc \in {"merge", "barrier"}, kind = "int64", WantDenseParallel,
         NEW d, DenseFits(d, Mod), InDense(d) = Joined(Tables, 0, workers),
         NEW f, f = [NewAgg EXCEPT !.dense = d]
  PROVE  StandsFor(kind, f, Joined(Tables, 0, workers)) /\ HasTables(kind, WantDenseParallel, f)
<1>1. PICK g : g = NewAgg
  OBVIOUS
<1>2. /\ StandsFor(kind, g, EmptyMap) /\ HasTables(kind, WantDenseParallel, g)
      /\ Mod \in Nat \ {0} /\ g.dense = NewDense(Mod)
  BY <1>1, NewAggFits
<1>3. /\ g.kind = "int64" /\ Fits(g) /\ ModOf(g) = CallMod(kind) /\ HasValOf(g) = CallHasVal(kind)
      /\ Matches(g, EmptyMap)
  BY <1>2 DEF StandsFor
<1>4. IntFits(g) /\ g.mod = Mod /\ GroupsOf(g) = EmptyMap /\ g.dense # NULL
  BY <1>2, <1>3 DEF Fits, ModOf, CallMod, Matches, HasTables
<1>5. PICK t : t = Joined(Tables, 0, workers)
  OBVIOUS
<1>6. IsMap(t, 0 .. Mod - 1) /\ IsMap(t, Keys)
  <2>1. AreMaps(Tables, 0, workers, 0 .. Mod - 1)
    BY LocalParts
  <2>2. workers \in Nat
    BY DEF ParallelIInv, RunTypes
  <2>3. IsMap(t, 0 .. Mod - 1)
    BY <1>5, <2>1, <2>2, JoinedIsMap
  <2>4. 0 .. Mod - 1 \subseteq Keys
    BY DEF Keys
  <2> QED BY <2>3, <2>4, MapWidens
<1>7. MapInto(EmptyMap, t) = t
  BY <1>6, JoinEmpty
<1>8. InDense(NewDense(Mod)) = EmptyMap
  BY <1>2, NewDenseFits
<1>9. DenseFits(d, g.mod) /\ InDense(d) = MapInto(InDense(g.dense), t) /\ IsMap(t, 0 .. g.mod - 1)
  BY <1>2, <1>4, <1>5, <1>6, <1>7, <1>8
<1>10. f = [g EXCEPT !.dense = d]
  BY <1>1
<1>11. IntLike(f, g) /\ f.dense # NULL /\ GroupsOf(f) = MapInto(GroupsOf(g), t)
  <2>1. f = WithArray(g, d)
    BY <1>10 DEF WithArray
  <2> QED BY <1>3, <1>4, <1>9, <2>1, DenseGrows
<1>12. Like(f, g)
  BY <1>3, <1>11, IntIsLike
<1>13. GroupsOf(f) = t
  BY <1>4, <1>7, <1>11
<1> QED BY <1>3, <1>5, <1>11, <1>12, <1>13 DEF StandsFor, HasTables, Matches, Like

\* What MergeArrays folds.
ArrayFold(base, q) == FoldLeft(LAMBDA t, g : DenseMerge(t, g.dense), base, q)

Arrays == INSTANCE FoldLemmas WITH Step <- LAMBDA t, g : DenseMerge(t, g.dense), Holds <- OnKeys

LEMMA ArraySteps ==
  ASSUME NEW base, NEW q, NEW n \in Nat, DOMAIN q = 1 .. n
  PROVE  \E h : /\ Arrays!Trace(h, base, q, n)
                /\ ArrayFold(base, q) = h[n]
<1>1. ArrayFold(base, q) = Arrays!FoldOf(base, q)
  BY DEF ArrayFold, Arrays!FoldOf, Arrays!Latest, FoldLeft, MapThenFoldSet, Max
<1>2. \E h : Arrays!Trace(h, base, q, n) /\ Arrays!FoldOf(base, q) = h[n]
  BY Arrays!FoldSteps
<1> QED BY <1>1, <1>2

\* n locals with arrays of m slots, and the groups of each.
ArraysFit(q, n, m) == \A j \in 1 .. n : DenseFits(q[j].dense, m)
ArraysHold(s, q, n) == \A j \in 1 .. n : s[j] = InDense(q[j].dense)

\* The arrays of the locals merged into one, one after another.
LEMMA ArraysMerged ==
  ASSUME NEW m \in Nat, NEW base, DenseFits(base, m),
         NEW n \in Nat, NEW q, DOMAIN q = 1 .. n, ArraysFit(q, n, m),
         NEW s, ArraysHold(s, q, n),
         NEW d, d = ArrayFold(base, q)
  PROVE  DenseFits(d, m) /\ InDense(d) = MapInto(InDense(base), Joined(s, 0, n))
<1>1. PICK h : Arrays!Trace(h, base, q, n) /\ d = h[n]
  BY ArraySteps
<1>2. h[0] = base /\ \A j \in 1 .. n : h[j] = DenseMerge(h[j - 1], q[j].dense)
  BY <1>1 DEF Arrays!Trace
<1> DEFINE S == {j \in 0 .. n : DenseFits(h[j], m)}
<1>3. 0 \in S
  BY <1>2
<1>4. ASSUME NEW j \in 1 .. n, j - 1 \in S
      PROVE  j \in S /\ InDense(h[j]) = MapInto(InDense(h[j - 1]), s[j])
  <2>1. DenseFits(h[j - 1], m) /\ DenseFits(q[j].dense, m)
    BY <1>4 DEF ArraysFit
  <2>2. /\ DenseFits(DenseMerge(h[j - 1], q[j].dense), m)
        /\ InDense(DenseMerge(h[j - 1], q[j].dense)) = MapInto(InDense(h[j - 1]), InDense(q[j].dense))
    BY <2>1, DenseMergeFits
  <2>3. s[j] = InDense(q[j].dense)
    BY DEF ArraysHold
  <2> QED BY <1>2, <2>2, <2>3
<1>5. \A j \in 1 .. n : j - 1 \in S => j \in S
  BY <1>4
<1>6. 0 .. n \subseteq S
  <2> HIDE DEF S
  <2> QED BY <1>3, <1>5, Arrays!UpTo
<1>7. n \in S
  BY <1>6
<1> DEFINE G == [j \in 0 .. n |-> InDense(h[j])]
<1>8. \A j \in 1 .. n : j - 1 \in 0 .. n /\ j \in 0 .. n
  OBVIOUS
<1>9. \A j \in 1 .. n : G[j] = MapInto(G[j - 1], s[j])
  <2> HIDE DEF S
  <2> QED BY <1>4, <1>6, <1>8
<1>10. G[0] = InDense(base) /\ G[n] = InDense(d)
  BY <1>1, <1>2
<1>11. IsMap(InDense(base), 0 .. m - 1)
  BY DenseIsMap
<1>12. AreMaps(s, 0, n, 0 .. m - 1)
  <2> SUFFICES ASSUME NEW j \in 0 + 1 .. n PROVE IsMap(s[j], 0 .. m - 1)
    BY DEF AreMaps
  <2>1. j \in 1 .. n
    OBVIOUS
  <2>2. IsMap(InDense(q[j].dense), 0 .. m - 1)
    BY <2>1, DenseIsMap DEF ArraysFit
  <2>3. s[j] = InDense(q[j].dense)
    BY <2>1 DEF ArraysHold
  <2> QED BY <2>2, <2>3
<1> HIDE DEF G
<1>13. G[n] = MapInto(G[0], Joined(s, 0, n))
  BY <1>9, <1>10, <1>11, <1>12, JoinedFollows
<1> QED BY <1>1, <1>7, <1>10, <1>13

LEMMA ArraysGroups ==
  ASSUME NilIsNoTable, ParallelIInv, AnswerIInv, kind = "int64", MergeArrays
  PROVE  AnswerIInv'
<1>1. /\ cpc = "merge" /\ cpc' = "spill" /\ WantDenseParallel /\ UNCHANGED shardVars
      /\ out' = [NewAgg EXCEPT !.dense = ArrayFold(@, LocalSeq)]
  BY DEF MergeArrays, ArrayFold
<1>2. CallMade' /\ Outcome' /\ LocalsStand'
  BY <1>1, MergeKeeps
<1>3. PICK base : base = NewAgg.dense
  OBVIOUS
<1>4. PICK q : q = LocalSeq
  OBVIOUS
<1>5. PICK d : d = ArrayFold(base, q)
  OBVIOUS
<1>6. PICK f : f = [NewAgg EXCEPT !.dense = d]
  OBVIOUS
<1>7. out' = f
  BY <1>1, <1>3, <1>4, <1>5, <1>6
<1>8. Mod \in Nat \ {0} /\ base = NewDense(Mod)
  BY <1>1, <1>3, NewAggFits
<1>9. DenseFits(base, Mod) /\ InDense(base) = EmptyMap
  BY <1>8, NewDenseFits
<1>10. workers \in Nat /\ DOMAIN q = 1 .. workers
  BY <1>4 DEF ParallelIInv, RunTypes, LocalSeq
<1>11. PICK s : s = Tables
  OBVIOUS
<1>12. \A j \in 1 .. workers : DenseFits(q[j].dense, Mod) /\ s[j] = InDense(q[j].dense)
  <2> SUFFICES ASSUME NEW j \in 1 .. workers
               PROVE  DenseFits(q[j].dense, Mod) /\ s[j] = InDense(q[j].dense)
    OBVIOUS
  <2>1. /\ q[j].kind = "int64" /\ Fits(q[j]) /\ q[j].mod = Mod /\ HasTables("int64", TRUE, q[j])
        /\ s[j] = InDense(q[j].dense)
    <3>1. /\ LocalSeq[j].kind = "int64" /\ Fits(LocalSeq[j]) /\ LocalSeq[j].mod = Mod
          /\ HasTables("int64", WantDenseParallel, LocalSeq[j])
          /\ Tables[j] = TableOf(WantDenseParallel, LocalSeq[j])
      BY <1>1, LocalParts
    <3> QED BY <1>1, <1>4, <1>11, <3>1 DEF HasTables, TableOf
  <2>2. DenseFits(q[j].dense, q[j].mod)
    BY <2>1, IntParts
  <2> QED BY <2>1, <2>2
<1>13. AreMaps(s, 0, workers, 0 .. Mod - 1)
  <2>1. AreMaps(Tables, 0, workers, 0 .. Mod - 1)
    BY <1>1, LocalParts
  <2> QED BY <1>11, <2>1
<1>14. DenseFits(d, Mod) /\ InDense(d) = MapInto(InDense(base), Joined(s, 0, workers))
  <2>1. ArraysFit(q, workers, Mod)
    BY <1>12 DEF ArraysFit
  <2>2. ArraysHold(s, q, workers)
    BY <1>12 DEF ArraysHold
  <2>3. Mod \in Nat
    BY <1>8
  <2>4. DenseFits(base, Mod)
    BY <1>9
  <2> QED BY <1>5, <1>10, <2>1, <2>2, <2>3, <2>4, ArraysMerged
<1>15. InDense(d) = Joined(Tables, 0, workers)
  <2>1. IsMap(Joined(s, 0, workers), 0 .. Mod - 1)
    BY <1>10, <1>13, JoinedIsMap
  <2>2. MapInto(EmptyMap, Joined(s, 0, workers)) = Joined(s, 0, workers)
    BY <2>1, JoinEmpty
  <2> QED BY <1>9, <1>11, <1>14, <2>2
<1>16. StandsFor(kind, f, Joined(Tables, 0, workers)) /\ HasTables(kind, WantDenseParallel, f)
  BY <1>1, <1>6, <1>14, <1>15, ArrayOut
<1>17. TablesMerged'
  <2>1. Tables' = Tables /\ WantDenseParallel' = WantDenseParallel
    BY <1>1 DEF Tables, WantDenseParallel, shardVars
  <2> QED BY <1>1, <1>7, <1>16, <2>1 DEF TablesMerged, shardVars
<1>18. SlotsMerged' /\ ResultStands'
  BY <1>1 DEF SlotsMerged, ResultStands
<1> QED BY <1>2, <1>17, <1>18 DEF AnswerIInv

\* What MergeOA folds.
EntryFold(base, q) == FoldLeft(LAMBDA t, g : MapInto(t, g.oa), base, q)

Entries == INSTANCE FoldLemmas WITH Step <- LAMBDA t, g : MapInto(t, g.oa), Holds <- OnKeys

LEMMA EntrySteps ==
  ASSUME NEW base, NEW q, NEW n \in Nat, DOMAIN q = 1 .. n
  PROVE  \E h : /\ Entries!Trace(h, base, q, n)
                /\ EntryFold(base, q) = h[n]
<1>1. EntryFold(base, q) = Entries!FoldOf(base, q)
  BY DEF EntryFold, Entries!FoldOf, Entries!Latest, FoldLeft, MapThenFoldSet, Max
<1>2. \E h : Entries!Trace(h, base, q, n) /\ Entries!FoldOf(base, q) = h[n]
  BY Entries!FoldSteps
<1> QED BY <1>1, <1>2

LEMMA OAGroups ==
  ASSUME NilIsNoTable, ParallelIInv, AnswerIInv, MergeOA
  PROVE  AnswerIInv'
<1>1. /\ cpc = "merge" /\ cpc' = "spill" /\ kind = "int64" /\ ~WantDenseParallel /\ UNCHANGED shardVars
      /\ out' = [NewAgg EXCEPT !.oa = EntryFold(@, LocalSeq)]
  BY DEF MergeOA, EntryFold
<1>2. CallMade' /\ Outcome' /\ LocalsStand'
  BY <1>1, MergeKeeps
<1>3. PICK g : g = NewAgg
  OBVIOUS
<1>4. /\ StandsFor(kind, g, EmptyMap) /\ HasTables(kind, WantDenseParallel, g) /\ g.oa = EmptyMap
  BY <1>1, <1>3, NewAggFits
<1>5. PICK q : q = LocalSeq
  OBVIOUS
<1>6. PICK u : u = EntryFold(EmptyMap, q)
  OBVIOUS
<1>7. PICK f : f = [g EXCEPT !.oa = u]
  OBVIOUS
<1>8. out' = f
  BY <1>1, <1>3, <1>4, <1>5, <1>6, <1>7
<1>9. workers \in Nat /\ DOMAIN q = 1 .. workers
  BY <1>5 DEF ParallelIInv, RunTypes, LocalSeq
<1>10. PICK s : s = Tables
  OBVIOUS
<1>11. \A j \in 1 .. workers : s[j] = q[j].oa
  BY <1>1, <1>5, <1>10, LocalParts DEF TableOf
<1>12. AreMaps(s, 0, workers, Int)
  BY <1>1, <1>10, LocalParts
<1>13. PICK h : Entries!Trace(h, EmptyMap, q, workers) /\ u = h[workers]
  BY <1>6, <1>9, EntrySteps
<1>14. h[0] = EmptyMap /\ \A j \in 1 .. workers : h[j] = MapInto(h[j - 1], s[j])
  BY <1>11, <1>13 DEF Entries!Trace
<1>15. IsMap(Joined(s, 0, workers), Int)
  BY <1>9, <1>12, JoinedIsMap
<1>16. u = Joined(s, 0, workers)
  <2>1. IsMap(h[0], Int)
    BY <1>14, EmptyIsMap
  <2>2. h[workers] = MapInto(h[0], Joined(s, 0, workers))
    BY <1>9, <1>12, <1>14, <2>1, JoinedFollows
  <2> QED BY <1>13, <1>14, <1>15, <2>2, JoinEmpty
<1>17. /\ g.kind = "int64" /\ Fits(g) /\ ModOf(g) = CallMod(kind) /\ HasValOf(g) = CallHasVal(kind)
       /\ IntFits(g) /\ GroupsOf(g) = EmptyMap /\ g.dense = NULL /\ g.oa # NULL
  BY <1>1, <1>4 DEF StandsFor, HasTables, Matches, Fits
<1>18. IsMap(u, Int)
  BY <1>15, <1>16
<1>19. MapInto(EmptyMap, u) = u
  BY <1>18, JoinEmpty
<1>20. f = [g EXCEPT !.oa = MapInto(g.oa, u)]
  BY <1>4, <1>7, <1>19
<1>21. IntLike(f, g) /\ f.oa # NULL /\ GroupsOf(f) = MapInto(GroupsOf(g), u)
  BY <1>17, <1>18, <1>20, OAGrows
<1>22. f.dense = NULL
  BY <1>7, <1>17 DEF IntFits
<1>23. StandsFor(kind, f, Joined(Tables, 0, workers)) /\ HasTables(kind, WantDenseParallel, f)
  <2>1. Like(f, g)
    BY <1>17, <1>21, IntIsLike
  <2>2. GroupsOf(f) = Joined(Tables, 0, workers)
    BY <1>10, <1>16, <1>17, <1>19, <1>21
  <2> QED BY <1>1, <1>17, <1>21, <1>22, <2>1, <2>2 DEF StandsFor, HasTables, Matches, Like
<1>24. TablesMerged'
  <2>1. Tables' = Tables /\ WantDenseParallel' = WantDenseParallel
    BY <1>1 DEF Tables, WantDenseParallel, shardVars
  <2> QED BY <1>1, <1>8, <1>23, <2>1 DEF TablesMerged, shardVars
<1>25. SlotsMerged' /\ ResultStands'
  BY <1>1 DEF SlotsMerged, ResultStands
<1> QED BY <1>2, <1>24, <1>25 DEF AnswerIInv

-----------------------------------------------------------------------------
(* The mergers.                                                             *)

\* A merger that has merged a cell has come past one slot more, that of the cell.
LEMMA PassedMore ==
  ASSUME NEW c \in Nat \ {0}, NEW m \in Nat, NEW y \in 0 .. c - 1
  PROVE  /\ y = m % c => Passed(m, c, y) = m \div c /\ Passed(m + 1, c, y) = m \div c + 1
         /\ y # m % c => Passed(m + 1, c, y) = Passed(m, c, y)
         /\ m \div c \in Nat /\ m % c \in 0 .. c - 1
<1> DEFINE q == m \div c
           r == m % c
           x == (m + 1) \div c
           z == (m + 1) % c
<1>1. q \in Nat /\ r \in 0 .. c - 1 /\ m = q * c + r
  OBVIOUS
<1>2. x \in Nat /\ z \in 0 .. c - 1 /\ m + 1 = x * c + z
  OBVIOUS
<1>3. Passed(m, c, y) = q + (IF y < r THEN 1 ELSE 0) /\ Passed(m + 1, c, y) = x + (IF y < z THEN 1 ELSE 0)
  BY DEF Passed
<1> HIDE DEF q, r, x, z
<1>4. CASE r + 1 < c
  <2>1. x * c + z = q * c + (r + 1)
    BY <1>1, <1>2
  <2>2. x = q
    <3>1. ~(x >= q + 1)
      <4> SUFFICES ASSUME x >= q + 1 PROVE FALSE
        OBVIOUS
      <4>1. x * c >= (q + 1) * c /\ (q + 1) * c = q * c + c /\ q * c \in Nat /\ x * c \in Nat
        BY <1>1, <1>2
      <4> QED BY <1>1, <1>2, <1>4, <2>1, <4>1
    <3>2. ~(x + 1 <= q)
      <4> SUFFICES ASSUME x + 1 <= q PROVE FALSE
        OBVIOUS
      <4>1. (x + 1) * c <= q * c /\ (x + 1) * c = x * c + c /\ q * c \in Nat /\ x * c \in Nat
        BY <1>1, <1>2
      <4> QED BY <1>1, <1>2, <1>4, <2>1, <4>1
    <3> QED BY <1>1, <1>2, <3>1, <3>2
  <2>3. z = r + 1
    <3>1. q * c \in Nat
      BY <1>1
    <3> QED BY <1>1, <1>2, <2>1, <2>2, <3>1
  <2> QED BY <1>1, <1>3, <2>2, <2>3 DEF q, r
<1>5. CASE r + 1 = c
  <2>1. (q + 1) * c = q * c + c /\ q * c \in Nat /\ x * c \in Nat
    BY <1>1, <1>2
  <2>2. x * c + z = (q + 1) * c
    BY <1>1, <1>2, <1>5, <2>1
  <2>3. x = q + 1
    <3>1. ~(x >= q + 2)
      <4> SUFFICES ASSUME x >= q + 2 PROVE FALSE
        OBVIOUS
      <4>1. x * c >= (q + 2) * c /\ (q + 2) * c = (q + 1) * c + c /\ (q + 1) * c \in Nat
        BY <1>1, <1>2
      <4> QED BY <1>2, <2>1, <2>2, <4>1
    <3>2. ~(x <= q)
      <4> SUFFICES ASSUME x <= q PROVE FALSE
        OBVIOUS
      <4>1. x * c <= q * c
        BY <1>1, <1>2
      <4> QED BY <1>2, <2>1, <2>2, <4>1
    <3> QED BY <1>1, <1>2, <3>1, <3>2
  <2>4. z = 0
    BY <1>2, <2>1, <2>2, <2>3
  <2> QED BY <1>1, <1>3, <1>5, <2>3, <2>4 DEF q, r
<1>6. r + 1 < c \/ r + 1 = c
  BY <1>1
<1> QED BY <1>4, <1>5, <1>6

LEMMA PassedEnds ==
  ASSUME NEW c \in Nat \ {0}, NEW k \in Nat, NEW y \in 0 .. c - 1
  PROVE  Passed(0, c, y) = 0 /\ Passed(k * c, c, y) = k
<1>1. ASSUME NEW j \in Nat PROVE Passed(j * c, c, y) = j
  <2>1. j * c \in Nat /\ j * c = c * j
    OBVIOUS
  <2>2. (j * c) \div c = j
    BY <2>1, Cancels
  <2>3. (j * c) % c = 0
    <3>0. PICK x \in Nat : x = j * c
      BY <2>1
    <3> DEFINE q == x \div c
               r == x % c
    <3>1. r \in 0 .. c - 1 /\ x = q * c + r /\ q \in Nat
      OBVIOUS
    <3>2. q = j
      BY <2>2, <3>0
    <3> HIDE DEF q, r
    <3>3. r = 0
      BY <2>1, <3>0, <3>1, <3>2
    <3> QED BY <3>0, <3>3 DEF r
  <2> QED BY <2>2, <2>3 DEF Passed
<1>2. Passed(0 * c, c, y) = 0 /\ 0 * c = 0
  BY <1>1
<1> QED BY <1>1, <1>2

\* The new result with another array.
LEMMA NewWithArray ==
  ASSUME kind = "int64", WantDenseParallel, NEW d, NEW f, f = [NewAgg EXCEPT !.dense = d]
  PROVE  /\ "dense" \in DOMAIN f /\ f.dense = d /\ f = [NewAgg EXCEPT !.dense = f.dense]
         /\ \A e : [f EXCEPT !.dense = e] = [NewAgg EXCEPT !.dense = e]
         /\ NewAgg = [NewAgg EXCEPT !.dense = NewDense(Mod)]
<1>1. NewAgg = [Literal(Mod, HasVal) EXCEPT !.dense = NewDense(Mod)]
  BY DEF NewAgg, WantDenseParallel, NewGroupBy, EnsureTable, Literal
<1> QED BY <1>1 DEF Literal

\* An array without groups.
LEMMA NewArray ==
  ASSUME NEW n \in Nat, NEW d, d = NewDense(n)
  PROVE  /\ d \in [present : [0 .. n - 1 -> BOOLEAN], pay : [0 .. n - 1 -> Measures], occupied : {<< >>}]
         /\ \A i \in 0 .. n - 1 : ~d.present[i]
<1>1. PICK a, b : a = [i \in 0 .. n - 1 |-> FALSE] /\ b = [i \in 0 .. n - 1 |-> Zero]
  OBVIOUS
<1>2. d = [present |-> a, pay |-> b, occupied |-> << >>]
  BY <1>1 DEF NewDense
<1>3. Zero \in Measures
  BY DEF Zero, Measures
<1>4. a \in [0 .. n - 1 -> BOOLEAN] /\ b \in [0 .. n - 1 -> Measures] /\ \A i \in 0 .. n - 1 : ~a[i]
  BY <1>1, <1>3
<1>5. d \in [present : [0 .. n - 1 -> BOOLEAN], pay : [0 .. n - 1 -> Measures], occupied : {<< >>}]
  BY <1>2, <1>4
<1>6. d.present = a
  BY <1>2
<1> QED BY <1>4, <1>5, <1>6

LEMMA SpawnGroups ==
  ASSUME NilIsNoTable, ParallelIInv, AnswerIInv, kind = "int64", SpawnMergers
  PROVE  AnswerIInv'
<1>1. /\ cpc = "merge" /\ cpc' = "barrier" /\ WantDenseParallel /\ UNCHANGED shardVars
      /\ out' = NewAgg /\ parts' = MergeParts
      /\ mat' = [p \in 0 .. MergeParts - 1 |-> 0]
      /\ mpc' = [p \in 0 .. MergeParts - 1 |-> "run"]
  BY DEF SpawnMergers
<1>2. CallMade' /\ Outcome' /\ LocalsStand'
  BY <1>1, MergeKeeps
<1>3. MergeParts \in Nat \ {0} /\ workers \in Nat \ {0}
  BY ParallelAssumption DEF MergeParts, ParallelIInv, RunTypes
<1>4. Mod \in Nat \ {0} /\ NewAgg.dense = NewDense(Mod)
  BY <1>1, NewAggFits
<1>5. /\ WantDenseParallel' = WantDenseParallel /\ NewAgg' = NewAgg /\ Tables' = Tables
      /\ Mergers' = 0 .. MergeParts - 1
  <2>1. WantDenseParallel' = WantDenseParallel
    BY <1>1 DEF WantDenseParallel, shardVars
  <2> QED BY <1>1, <2>1 DEF NewAgg, Tables, Mergers, shardVars
<1>6. PICK d : d = NewDense(Mod)
  OBVIOUS
<1>7. /\ d \in [present : [0 .. Mod - 1 -> BOOLEAN], pay : [0 .. Mod - 1 -> Measures], occupied : {<< >>}]
      /\ \A i \in 0 .. Mod - 1 : ~d.present[i]
  BY <1>4, <1>6, NewArray
<1>8. out'.dense = d /\ out' = [NewAgg EXCEPT !.dense = d]
  <2>1. NewAgg = [NewAgg EXCEPT !.dense = d]
    BY <1>1, <1>6, NewWithArray
  <2> QED BY <1>1, <1>4, <1>6, <2>1
<1>9. ASSUME NEW p \in Mergers'
      PROVE  /\ mat'[p] <= Cells(p)' /\ mpc'[p] # "done"
             /\ \A i \in SlotsOf(p)' :
                  SlotStands(d, i, Joined(Tables, 0, Passed(mat'[p], (Lo(p + 1) - Lo(p))', i - Lo(p)')))
  <2> DEFINE a == ShardStart(p, Mod, MergeParts)
             b == ShardStart(p + 1, Mod, MergeParts)
  <2>1. p \in 0 .. MergeParts /\ p + 1 \in 0 .. MergeParts /\ p <= p + 1 /\ p \in 0 .. MergeParts - 1
    BY <1>3, <1>5
  <2>2. a \in 0 .. Mod
    BY <1>3, <1>4, <2>1, ShardStartRange
  <2>3. b \in 0 .. Mod
    BY <1>3, <1>4, <2>1, ShardStartRange
  <2>4. a <= b
    BY <1>3, <1>4, <2>1, ShardsFollow
  <2>5. /\ Lo(p)' = a /\ Lo(p + 1)' = b /\ SlotsOf(p)' = a .. b - 1 /\ Cells(p)' = workers * (b - a)
    BY <1>1 DEF Lo, SlotsOf, Cells, shardVars
  <2>6. mat'[p] = 0 /\ mpc'[p] = "run"
    BY <1>1, <2>1
  <2> HIDE DEF a, b
  <2>7. 0 <= workers * (b - a)
    BY <1>3, <2>2, <2>3, <2>4
  <2>8. ASSUME NEW i \in a .. b - 1
        PROVE  SlotStands(d, i, Joined(Tables, 0, Passed(0, b - a, i - a)))
    <3>1. b - a \in Nat \ {0} /\ i - a \in 0 .. (b - a) - 1 /\ i \in 0 .. Mod - 1
      BY <1>4, <2>2, <2>3
    <3>2. Passed(0, b - a, i - a) = 0
      BY <3>1, PassedEnds
    <3>3. Joined(Tables, 0, 0) = EmptyMap /\ DOMAIN EmptyMap = {}
      BY JoinedNone, EmptyIsMap
    <3> QED BY <1>7, <3>1, <3>2, <3>3 DEF SlotStands
  <2> QED BY <2>5, <2>6, <2>7, <2>8
<1>10. SlotsMerged'
  <2>1. kind' = "int64" /\ WantDenseParallel' /\ parts' > 0
    BY <1>1, <1>3, <1>5 DEF shardVars
  <2>2. out' = [NewAgg' EXCEPT !.dense = out'.dense]
    BY <1>5, <1>8
  <2> QED BY <1>5, <1>7, <1>8, <1>9, <2>1, <2>2 DEF SlotsMerged
<1>11. TablesMerged' /\ ResultStands'
  BY <1>1 DEF TablesMerged, ResultStands
<1> QED BY <1>2, <1>10, <1>11 DEF AnswerIInv

\* Slot i of e is that of d and l together.
CellStands(e, d, i, l) ==
  IF ~l.present[i] THEN (e.present[i] <=> d.present[i]) /\ e.pay[i] = d.pay[i]
  ELSE /\ e.present[i]
       /\ e.pay[i] = IF d.present[i] THEN Plus(d.pay[i], l.pay[i]) ELSE l.pay[i]

\* The other slots of e are those of d.
OthersKept(e, d, i) ==
  \A x \in 0 .. Mod - 1 : x # i => (e.present[x] <=> d.present[x]) /\ e.pay[x] = d.pay[x]

LEMMA SlotJoins ==
  ASSUME NEW d, NEW i, NEW t, SlotStands(d, i, t),
         NEW l, i \in DOMAIN l.present, NEW e, CellStands(e, d, i, l)
  PROVE  SlotStands(e, i, MapInto(t, InDense(l)))
<1> DEFINE s == InDense(l)
<1>1. (i \in DOMAIN s <=> l.present[i]) /\ (i \in DOMAIN s => s[i] = l.pay[i])
  BY DEF InDense, Used
<1> HIDE DEF s
<1>2. DOMAIN MapInto(t, s) = DOMAIN t \cup DOMAIN s
  BY JoinDomain
<1>3. i \in DOMAIN t \cup DOMAIN s =>
        /\ i \notin DOMAIN s => MapInto(t, s)[i] = t[i]
        /\ i \notin DOMAIN t => MapInto(t, s)[i] = s[i]
        /\ i \in DOMAIN t /\ i \in DOMAIN s => MapInto(t, s)[i] = Plus(t[i], s[i])
  BY JoinAt
<1>4. SlotStands(e, i, MapInto(t, s))
  BY <1>1, <1>2, <1>3 DEF SlotStands, CellStands
<1> QED BY <1>4 DEF s

\* The cell merger p looks at next: which slot of which local.
LEMMA CellOf ==
  ASSUME RunTypes, parts \in Nat \ {0}, Mod \in Nat \ {0}, NEW p \in Mergers,
         mat[p] \in Nat, mat[p] < Cells(p)
  PROVE  LET c == Lo(p + 1) - Lo(p)
         IN  /\ c \in Nat \ {0} /\ Cells(p) \div workers = c
             /\ mat[p] \div c \in 0 .. workers - 1 /\ mat[p] % c \in 0 .. c - 1
             /\ Lo(p) \in Nat /\ Lo(p + 1) \in 0 .. Mod
<1>1. p \in 0 .. parts /\ p + 1 \in 0 .. parts
  BY DEF Mergers
<1>2. Lo(p) \in 0 .. Mod
  BY <1>1, LoRange
<1>3. Lo(p + 1) \in 0 .. Mod
  BY <1>1, LoRange
<1>4. Lo(p) <= Lo(p + 1)
  BY <1>1, LoMonotone
<1> DEFINE c == Lo(p + 1) - Lo(p)
           m == mat[p]
<1>5. c \in Nat /\ Cells(p) = workers * c /\ workers \in Nat \ {0}
  BY <1>2, <1>3, <1>4 DEF Cells, RunTypes
<1>6. (workers * c) \div workers = c
  <2> HIDE DEF c
  <2> QED BY <1>5, Cancels
<1>7. m \in Nat /\ m < workers * c
  BY <1>5
<1> HIDE DEF c, m
<1>8. c # 0
  BY <1>5, <1>7
<1> DEFINE k == m \div c
<1>9. k \in Nat /\ k * c <= m
  BY <1>5, <1>7, <1>8, Quotient
<1>10. m % c \in 0 .. c - 1
  BY <1>5, <1>7, <1>8
<1>11. k < workers
  <2> HIDE DEF k
  <2> SUFFICES ASSUME k >= workers PROVE FALSE
    BY <1>5, <1>9
  <2>1. k * c >= workers * c
    BY <1>5, <1>9
  <2> QED BY <1>5, <1>7, <1>9, <2>1
<1>12. k \in 0 .. workers - 1
  BY <1>5, <1>9, <1>11
<1> HIDE DEF k
<1> QED BY <1>2, <1>3, <1>5, <1>6, <1>8, <1>10, <1>12 DEF c, m, k

\* The array while there are mergers.
ArrayType ==
  [present : [0 .. Mod - 1 -> BOOLEAN], pay : [0 .. Mod - 1 -> Measures], occupied : {<< >>}]

LEMMA BarrierFacts ==
  ASSUME MergeIInv, AnswerIInv, NEW p \in Mergers, cpc = "barrier"
  PROVE  /\ kind = "int64" /\ WantDenseParallel /\ parts \in Nat \ {0} /\ Mod \in Nat \ {0}
         /\ out = [NewAgg EXCEPT !.dense = out.dense] /\ out.dense \in ArrayType
         /\ mat \in [Mergers -> Nat] /\ mpc \in [Mergers -> {"run", "done"}]
         /\ mat[p] <= Cells(p)
         /\ mpc[p] = "done" => mat[p] = Cells(p)
         /\ \A i \in SlotsOf(p) :
              SlotStands(out.dense, i, Joined(Tables, 0, Passed(mat[p], Lo(p + 1) - Lo(p), i - Lo(p))))
<1>1. SlotsMerged
  BY DEF AnswerIInv
<1>2. /\ parts \in Nat \ {0} /\ Mod \in Nat \ {0}
      /\ mat \in [Mergers -> Nat] /\ mpc \in [Mergers -> {"run", "done"}]
  BY MergerTypes
<1> QED BY <1>1, <1>2 DEF SlotsMerged, ArrayType

LEMMA CellIntoArray ==
  ASSUME Mod \in Nat \ {0}, NEW d \in ArrayType, NEW i \in 0 .. Mod - 1, NEW l, DenseFits(l, Mod),
         NEW e, e = CellInto(d, i, l)
  PROVE  e \in ArrayType /\ CellStands(e, d, i, l) /\ OthersKept(e, d, i)
<1>1. PICK a \in [0 .. Mod - 1 -> BOOLEAN], b \in [0 .. Mod - 1 -> Measures] :
        d = [present |-> a, pay |-> b, occupied |-> << >>]
  BY DEF ArrayType
<1>2. d.present = a /\ d.pay = b
  BY <1>1
<1>3. l.pay[i] \in Measures
  BY DEF DenseFits
<1>4. Plus(b[i], l.pay[i]) \in Measures
  BY <1>1, <1>3, PlusLaws
<1>5. CASE ~l.present[i]
  <2>1. e = d
    BY <1>5 DEF CellInto
  <2> QED BY <1>5, <2>1 DEF CellStands, OthersKept
<1>6. CASE l.present[i] /\ a[i]
  <2>1. PICK pay : pay = [b EXCEPT ![i] = Plus(b[i], l.pay[i])]
    OBVIOUS
  <2>2. pay \in [0 .. Mod - 1 -> Measures] /\ pay[i] = Plus(b[i], l.pay[i])
        /\ \A x \in 0 .. Mod - 1 : x # i => pay[x] = b[x]
    BY <1>1, <1>4, <2>1
  <2>3. e = [d EXCEPT !.pay[i] = Plus(@, l.pay[i])]
    BY <1>2, <1>6 DEF CellInto
  <2>4. e = [present |-> a, pay |-> pay, occupied |-> << >>]
    BY <1>1, <2>1, <2>3
  <2>5. e \in ArrayType
    BY <1>1, <2>2, <2>4 DEF ArrayType
  <2>6. e.present = a /\ e.pay = pay
    BY <2>4
  <2>7. CellStands(e, d, i, l)
    BY <1>2, <1>6, <2>2, <2>6 DEF CellStands
  <2>8. OthersKept(e, d, i)
    BY <1>2, <2>2, <2>6 DEF OthersKept
  <2> QED BY <2>5, <2>7, <2>8
<1>7. CASE l.present[i] /\ ~a[i]
  <2>1. PICK pay : pay = [b EXCEPT ![i] = l.pay[i]]
    OBVIOUS
  <2>2. PICK present : present = [a EXCEPT ![i] = TRUE]
    OBVIOUS
  <2>3. pay \in [0 .. Mod - 1 -> Measures] /\ pay[i] = l.pay[i]
        /\ \A x \in 0 .. Mod - 1 : x # i => pay[x] = b[x]
    BY <1>1, <1>3, <2>1
  <2>4. present \in [0 .. Mod - 1 -> BOOLEAN] /\ present[i]
        /\ \A x \in 0 .. Mod - 1 : x # i => present[x] = a[x]
    BY <1>1, <2>2
  <2>5. e = [d EXCEPT !.present[i] = TRUE, !.pay[i] = l.pay[i]]
    BY <1>2, <1>7 DEF CellInto
  <2>6. e = [present |-> present, pay |-> pay, occupied |-> << >>]
    BY <1>1, <2>1, <2>2, <2>5
  <2>7. e \in ArrayType
    BY <2>3, <2>4, <2>6 DEF ArrayType
  <2>8. e.present = present /\ e.pay = pay
    BY <2>6
  <2>9. CellStands(e, d, i, l)
    BY <1>2, <1>7, <2>3, <2>4, <2>8 DEF CellStands
  <2>10. OthersKept(e, d, i)
    BY <1>2, <2>3, <2>4, <2>8 DEF OthersKept
  <2> QED BY <2>7, <2>9, <2>10
<1> QED BY <1>5, <1>6, <1>7

\* A merger changes the array of the result and nothing else.
LEMMA CellArray ==
  ASSUME kind = "int64", WantDenseParallel, out = [NewAgg EXCEPT !.dense = out.dense],
         NEW e, NEW o, o = [out EXCEPT !.dense = e]
  PROVE  o = [NewAgg EXCEPT !.dense = o.dense] /\ o.dense = e
<1>1. PICK d : d = out.dense
  OBVIOUS
<1>2. out = [NewAgg EXCEPT !.dense = d]
  BY <1>1
<1>3. "dense" \in DOMAIN out /\ [out EXCEPT !.dense = e] = [NewAgg EXCEPT !.dense = e]
  BY <1>2, NewWithArray
<1>4. o = [NewAgg EXCEPT !.dense = e] /\ o.dense = e
  BY <1>3
<1> QED BY <1>4

LEMMA CellGroups ==
  ASSUME NilIsNoTable, ParallelIInv, MergeIInv, AnswerIInv, NEW p \in Mergers, MergeCell(p)
  PROVE  AnswerIInv'
<1>1. /\ mpc[p] = "run" /\ mat[p] < Cells(p)
      /\ mat' = [mat EXCEPT ![p] = @ + 1] /\ UNCHANGED <<shardVars, cpc, parts, mpc>>
  BY DEF MergeCell
<1>2. cpc = "barrier"
  BY <1>1, RunningMerger
<1>3. /\ kind = "int64" /\ WantDenseParallel /\ parts \in Nat \ {0} /\ Mod \in Nat \ {0}
      /\ out = [NewAgg EXCEPT !.dense = out.dense] /\ out.dense \in ArrayType
      /\ mat \in [Mergers -> Nat]
  BY <1>2, BarrierFacts
<1>4. PICK c : c = Lo(p + 1) - Lo(p)
  OBVIOUS
<1>5. PICK k : k = mat[p] \div c
  OBVIOUS
<1>6. PICK i : i = Lo(p) + (mat[p] % c)
  OBVIOUS
<1>7. PICK l : l = locals[k].dense
  OBVIOUS
<1>8. /\ c \in Nat \ {0} /\ Cells(p) \div workers = c
      /\ k \in 0 .. workers - 1 /\ mat[p] % c \in 0 .. c - 1
      /\ Lo(p) \in Nat /\ Lo(p + 1) \in 0 .. Mod
  <2>1. RunTypes
    BY DEF ParallelIInv
  <2> QED BY <1>1, <1>3, <1>4, <1>5, <2>1, CellOf
<1>9. i \in SlotsOf(p) /\ i \in 0 .. Mod - 1 /\ i - Lo(p) = mat[p] % c
  BY <1>3, <1>4, <1>6, <1>8 DEF SlotsOf
<1>10. out' = [out EXCEPT !.dense = CellInto(out.dense, i, l)]
  BY <1>5, <1>6, <1>7, <1>8 DEF MergeCell
<1>11. DenseFits(l, Mod) /\ Tables[k + 1] = InDense(l)
  <2>1. PICK g : g = LocalSeq[k + 1]
    OBVIOUS
  <2>2. k + 1 \in 1 .. workers /\ (k + 1) - 1 = k
    BY <1>8 DEF ParallelIInv, RunTypes
  <2>3. g = locals[k]
    BY <2>1, <2>2 DEF LocalSeq
  <2>4. /\ g.kind = "int64" /\ Fits(g) /\ g.mod = Mod /\ HasTables("int64", TRUE, g)
        /\ Tables[k + 1] = InDense(g.dense)
    <3>1. /\ LocalSeq[k + 1].kind = "int64" /\ Fits(LocalSeq[k + 1]) /\ LocalSeq[k + 1].mod = Mod
          /\ HasTables("int64", WantDenseParallel, LocalSeq[k + 1])
          /\ Tables[k + 1] = TableOf(WantDenseParallel, LocalSeq[k + 1])
      BY <1>2, <1>3, <2>2, LocalParts
    <3> QED BY <1>3, <2>1, <3>1 DEF HasTables, TableOf
  <2>5. DenseFits(g.dense, g.mod)
    BY <2>4, IntParts
  <2> QED BY <1>7, <2>3, <2>4, <2>5
<1>12. PICK o : o = out'
  OBVIOUS
<1>13. /\ o = [NewAgg EXCEPT !.dense = o.dense] /\ o.dense \in ArrayType
       /\ CellStands(o.dense, out.dense, i, l) /\ OthersKept(o.dense, out.dense, i)
  <2>1. PICK d : d = out.dense
    OBVIOUS
  <2>2. PICK e : e = CellInto(d, i, l)
    OBVIOUS
  <2>3. o = [out EXCEPT !.dense = e]
    BY <1>10, <1>12, <2>1, <2>2
  <2>4. o = [NewAgg EXCEPT !.dense = o.dense] /\ o.dense = e
    BY <1>3, <2>3, CellArray
  <2>5. e \in ArrayType /\ CellStands(e, d, i, l) /\ OthersKept(e, d, i)
    BY <1>3, <1>9, <1>11, <2>1, <2>2, CellIntoArray
  <2> QED BY <2>1, <2>4, <2>5
<1>14. /\ WantDenseParallel' = WantDenseParallel /\ NewAgg' = NewAgg /\ Tables' = Tables
       /\ Mergers' = Mergers
       /\ \A r : Lo(r)' = Lo(r) /\ SlotsOf(r)' = SlotsOf(r) /\ Cells(r)' = Cells(r)
  <2>1. WantDenseParallel' = WantDenseParallel
    BY <1>1 DEF WantDenseParallel, shardVars
  <2> QED BY <1>1, <2>1 DEF NewAgg, Tables, Mergers, Lo, SlotsOf, Cells, shardVars
<1>15. ASSUME NEW r \in Mergers
       PROVE  /\ mat'[r] <= Cells(r)
              /\ mpc[r] = "done" => mat'[r] = Cells(r)
              /\ \A x \in SlotsOf(r) :
                   SlotStands(o.dense, x, Joined(Tables, 0, Passed(mat'[r], Lo(r + 1) - Lo(r), x - Lo(r))))
  <2>1. /\ mat[r] <= Cells(r)
        /\ mpc[r] = "done" => mat[r] = Cells(r)
        /\ \A x \in SlotsOf(r) :
             SlotStands(out.dense, x, Joined(Tables, 0, Passed(mat[r], Lo(r + 1) - Lo(r), x - Lo(r))))
    BY <1>2, BarrierFacts
  <2>2. SlotsOf(r) \subseteq 0 .. Mod - 1
    <3>1. r \in 0 .. parts /\ r + 1 \in 0 .. parts
      BY <1>3 DEF Mergers
    <3>2. Lo(r) \in 0 .. Mod
      BY <1>3, <3>1, LoRange
    <3>3. Lo(r + 1) \in 0 .. Mod
      BY <1>3, <3>1, LoRange
    <3> QED BY <1>3, <3>2, <3>3 DEF SlotsOf
  <2>3. ASSUME NEW x \in SlotsOf(r), x # i, NEW t, SlotStands(out.dense, x, t)
        PROVE  SlotStands(o.dense, x, t)
    BY <1>13, <2>2, <2>3 DEF SlotStands, OthersKept
  <2>4. CASE r # p
    <3>1. mat'[r] = mat[r]
      BY <1>1, <1>3, <2>4
    <3>2. i \notin SlotsOf(r)
      BY <1>3, <1>9, <2>4, SlotsApart
    <3>3. ASSUME NEW x \in SlotsOf(r)
          PROVE  SlotStands(o.dense, x, Joined(Tables, 0, Passed(mat'[r], Lo(r + 1) - Lo(r), x - Lo(r))))
      <4>1. PICK t : t = Joined(Tables, 0, Passed(mat[r], Lo(r + 1) - Lo(r), x - Lo(r)))
        OBVIOUS
      <4>2. SlotStands(out.dense, x, t)
        BY <2>1, <4>1
      <4>3. x # i
        BY <3>2
      <4>4. SlotStands(o.dense, x, t)
        BY <2>3, <4>2, <4>3
      <4> QED BY <3>1, <4>1, <4>4
    <3> QED BY <2>1, <3>1, <3>3
  <2>5. CASE r = p
    <3>1. mat'[r] = mat[p] + 1 /\ mat[p] \in Nat
      BY <1>1, <1>3, <2>5
    <3>2. Cells(p) \in Nat
      <4>1. Cells(p) = workers * c /\ workers \in Nat
        BY <1>4 DEF Cells, ParallelIInv, RunTypes
      <4> QED BY <1>8, <4>1
    <3>3. mat'[r] <= Cells(r)
      BY <1>1, <2>5, <3>1, <3>2
    <3>4. mpc[r] # "done"
      BY <1>1, <2>5
    <3>5. ASSUME NEW x \in SlotsOf(p)
          PROVE  SlotStands(o.dense, x, Joined(Tables, 0, Passed(mat[p] + 1, c, x - Lo(p))))
      <4>1. x - Lo(p) \in 0 .. c - 1 /\ (x - Lo(p) = mat[p] % c <=> x = i)
        BY <1>4, <1>6, <1>8, <3>5 DEF SlotsOf
      <4>2. SlotStands(out.dense, x, Joined(Tables, 0, Passed(mat[p], c, x - Lo(p))))
        BY <1>4, <2>1, <2>5
      <4>3. CASE x # i
        <5>1. Passed(mat[p] + 1, c, x - Lo(p)) = Passed(mat[p], c, x - Lo(p))
          BY <1>8, <3>1, <4>1, <4>3, PassedMore
        <5>2. PICK t : t = Joined(Tables, 0, Passed(mat[p], c, x - Lo(p)))
          OBVIOUS
        <5>3. SlotStands(out.dense, x, t)
          BY <4>2, <5>2
        <5>4. SlotStands(o.dense, x, t)
          BY <2>3, <2>5, <4>3, <5>3
        <5> QED BY <5>1, <5>2, <5>4
      <4>4. CASE x = i
        <5>1. Passed(mat[p], c, x - Lo(p)) = k /\ Passed(mat[p] + 1, c, x - Lo(p)) = k + 1
          BY <1>5, <1>8, <3>1, <4>1, <4>4, PassedMore
        <5>2. SlotStands(out.dense, i, Joined(Tables, 0, k))
          BY <4>2, <4>4, <5>1
        <5>3. i \in DOMAIN l.present
          BY <1>9, <1>11 DEF DenseFits
        <5>4. PICK t : t = Joined(Tables, 0, k)
          OBVIOUS
        <5>5. SlotStands(o.dense, i, MapInto(t, InDense(l)))
          BY <1>13, <5>2, <5>3, <5>4, SlotJoins
        <5>6. Joined(Tables, 0, k + 1) = MapInto(t, Tables[k + 1])
          <6>1. k \in Int /\ 0 <= k
            BY <1>8
          <6> QED BY <5>4, <6>1, JoinedMore
        <5> QED BY <1>11, <4>4, <5>1, <5>5, <5>6
      <4> QED BY <4>3, <4>4
    <3> QED BY <1>4, <2>5, <3>1, <3>3, <3>4, <3>5
  <2> QED BY <2>4, <2>5
<1>16. SlotsMerged'
  <2>1. kind' = kind /\ mpc' = mpc /\ parts' = parts
    BY <1>1 DEF shardVars
  <2>2. out' = [NewAgg' EXCEPT !.dense = out'.dense] /\ out'.dense \in ArrayType
    BY <1>12, <1>13, <1>14
  <2> QED BY <1>3, <1>12, <1>14, <1>15, <2>1, <2>2 DEF SlotsMerged, ArrayType
<1>17. CallMade' /\ Outcome' /\ LocalsStand'
  BY <1>1, <1>2, MergeKeeps
<1>18. TablesMerged' /\ ResultStands'
  BY <1>1, <1>2 DEF TablesMerged, ResultStands
<1> QED BY <1>16, <1>17, <1>18 DEF AnswerIInv

LEMMA DoneGroups ==
  ASSUME ParallelIInv, MergeIInv, AnswerIInv, NEW p \in Mergers, MergerDone(p)
  PROVE  AnswerIInv'
<1>1. /\ mpc[p] = "run" /\ mat[p] >= Cells(p)
      /\ mpc' = [mpc EXCEPT ![p] = "done"] /\ UNCHANGED <<shardVars, cpc, out, parts, mat, occ>>
  BY DEF MergerDone
<1>2. cpc = "barrier"
  BY <1>1, RunningMerger
<1>3. /\ WantDenseParallel' = WantDenseParallel /\ NewAgg' = NewAgg /\ Tables' = Tables
      /\ Mergers' = Mergers
      /\ \A r : Lo(r)' = Lo(r) /\ SlotsOf(r)' = SlotsOf(r) /\ Cells(r)' = Cells(r)
  <2>1. WantDenseParallel' = WantDenseParallel
    BY <1>1 DEF WantDenseParallel, shardVars
  <2> QED BY <1>1, <2>1 DEF NewAgg, Tables, Mergers, Lo, SlotsOf, Cells, shardVars
<1>4. ASSUME NEW r \in Mergers PROVE mpc'[r] = "done" => mat[r] = Cells(r)
  <2>1. /\ mat[r] <= Cells(r)
        /\ mpc[r] = "done" => mat[r] = Cells(r)
        /\ mpc \in [Mergers -> {"run", "done"}] /\ mat[r] \in Nat
    BY <1>2, BarrierFacts
  <2>2. CASE r # p
    <3>1. mpc'[r] = mpc[r]
      BY <1>1, <2>1, <2>2
    <3> QED BY <2>1, <3>1
  <2>3. CASE r = p
    <3>1. Cells(p) \in Int
      <4>0. parts \in Nat \ {0} /\ Mod \in Nat \ {0}
        BY <1>2, BarrierFacts
      <4>1. p \in 0 .. parts /\ p + 1 \in 0 .. parts
        BY <4>0 DEF Mergers
      <4>2. Lo(p) \in 0 .. Mod
        BY <4>0, <4>1, LoRange
      <4>3. Lo(p + 1) \in 0 .. Mod
        BY <4>0, <4>1, LoRange
      <4> QED BY <4>2, <4>3 DEF Cells, ParallelIInv, RunTypes
    <3> QED BY <1>1, <2>1, <2>3, <3>1
  <2> QED BY <2>2, <2>3
<1>5. SlotsMerged'
  BY <1>1, <1>3, <1>4 DEF AnswerIInv, SlotsMerged, shardVars
<1>6. CallMade' /\ Outcome' /\ LocalsStand'
  BY <1>1, <1>2, MergeKeeps
<1>7. TablesMerged' /\ ResultStands'
  BY <1>1, <1>2 DEF TablesMerged, ResultStands
<1> QED BY <1>5, <1>6, <1>7 DEF AnswerIInv

\* The lists put together make the shared array a table of its own.
LEMMA CollectGroups ==
  ASSUME NilIsNoTable, ParallelIInv, MergeIInv, AnswerIInv, Collect
  PROVE  AnswerIInv'
<1>1. /\ cpc = "barrier" /\ \A p \in Mergers : mpc[p] = "done"
      /\ out' = [out EXCEPT !.dense.occupied = FlattenSeq([n \in 1 .. parts |-> occ[n - 1]])]
      /\ cpc' = "spill" /\ UNCHANGED <<shardVars, parts, mat, mpc, occ>>
  BY DEF Collect, Barrier
<1>2. CallMade' /\ Outcome' /\ LocalsStand'
  BY <1>1, MergeKeeps
<1>3. parts > 0
  BY <1>1 DEF AnswerIInv, SlotsMerged
<1>4. /\ parts \in Nat \ {0} /\ Mod \in Nat \ {0} /\ kind = "int64" /\ WantDenseParallel
      /\ out = [NewAgg EXCEPT !.dense = out.dense] /\ out.dense \in ArrayType
      /\ workers \in Nat
  BY <1>1, <1>3 DEF AnswerIInv, SlotsMerged, ArrayType, MergeIInv, MergePhases, ParallelIInv, RunTypes
<1>5. PICK o : o = FlattenSeq([n \in 1 .. parts |-> occ[n - 1]])
  OBVIOUS
<1>6. o \in Seq(Int) /\ IsInjective(o) /\ Range(o) = Used(out.dense)
  BY <1>3, <1>5, OccJoined
<1>7. PICK d : d = out.dense
  OBVIOUS
<1>8. /\ d = [present |-> d.present, pay |-> d.pay, occupied |-> << >>]
      /\ d.present \in [0 .. Mod - 1 -> BOOLEAN] /\ d.pay \in [0 .. Mod - 1 -> Measures]
  BY <1>4, <1>7 DEF ArrayType
<1>9. PICK e : e = [present |-> d.present, pay |-> d.pay, occupied |-> o]
  OBVIOUS
<1>10. out' = [NewAgg EXCEPT !.dense = e]
  <2>1. "dense" \in DOMAIN out /\ \A x : [out EXCEPT !.dense = x] = [NewAgg EXCEPT !.dense = x]
    BY <1>4, NewWithArray
  <2>2. [d EXCEPT !.occupied = o] = e
    BY <1>8, <1>9
  <2>3. out' = [out EXCEPT !.dense = e]
    BY <1>1, <1>5, <1>7, <2>1, <2>2
  <2> QED BY <2>1, <2>3
<1>11. DenseFits(e, Mod)
  <2>1. Used(d) = {i \in 0 .. Mod - 1 : d.present[i]}
    BY <1>8 DEF Used
  <2>2. o \in Seq(0 .. Mod - 1)
    <3>1. o = [n \in 1 .. Len(o) |-> o[n]] /\ Len(o) \in Nat /\ DOMAIN o = 1 .. Len(o)
      BY <1>6
    <3>2. \A n \in 1 .. Len(o) : o[n] \in 0 .. Mod - 1
      <4>1. Range(o) \subseteq 0 .. Mod - 1
        BY <1>6, <1>7, <2>1
      <4> QED BY <3>1, <4>1 DEF Range
    <3>3. PICK S : S = 0 .. Mod - 1
      OBVIOUS
    <3>4. o \in [1 .. Len(o) -> S]
      BY <3>1, <3>2, <3>3
    <3>5. o \in Seq(S)
      BY <3>1, <3>4
    <3> QED BY <3>3, <3>5
  <2>3. e.present = d.present /\ e.pay = d.pay /\ e.occupied = o
    BY <1>9
  <2> QED BY <1>6, <1>7, <1>8, <1>9, <2>1, <2>2, <2>3 DEF DenseFits
<1>12. PICK s : s = Tables
  OBVIOUS
<1>13. IsMap(Joined(s, 0, workers), 0 .. Mod - 1)
  <2>1. AreMaps(s, 0, workers, 0 .. Mod - 1)
    BY <1>1, <1>4, <1>12, LocalParts
  <2> QED BY <1>4, <2>1, JoinedIsMap
<1>14. ASSUME NEW i \in 0 .. Mod - 1 PROVE SlotStands(e, i, Joined(s, 0, workers))
  <2>1. PICK p \in Mergers : i \in SlotsOf(p)
    BY <1>4, SlotsCover
  <2>2. PICK c : c = Lo(p + 1) - Lo(p)
    OBVIOUS
  <2>3. PICK y : y = i - Lo(p)
    OBVIOUS
  <2>4. p \in 0 .. parts /\ p + 1 \in 0 .. parts
    BY <1>4, <2>1 DEF Mergers
  <2>5. Lo(p) \in 0 .. Mod
    BY <1>4, <2>4, LoRange
  <2>6. Lo(p + 1) \in 0 .. Mod
    BY <1>4, <2>4, LoRange
  <2>7. c \in Nat \ {0} /\ y \in 0 .. c - 1
    BY <2>1, <2>2, <2>3, <2>5, <2>6 DEF SlotsOf
  <2>8. mat[p] = workers * c
    BY <1>1, <2>1, <2>2, BarrierFacts DEF Cells
  <2>9. Passed(workers * c, c, y) = workers
    BY <1>4, <2>7, PassedEnds
  <2>10. SlotStands(d, i, Joined(s, 0, Passed(mat[p], c, y)))
    BY <1>1, <1>7, <1>12, <2>1, <2>2, <2>3, BarrierFacts
  <2> QED BY <1>9, <2>8, <2>9, <2>10 DEF SlotStands
<1>15. InDense(e) = Joined(s, 0, workers)
  <2>1. IsMap(InDense(e), 0 .. Mod - 1)
    BY <1>4, <1>11, DenseIsMap
  <2>2. DOMAIN InDense(e) = {i \in 0 .. Mod - 1 : e.present[i]}
    BY <1>8, <1>9 DEF InDense, Used
  <2>3. DOMAIN Joined(s, 0, workers) \subseteq 0 .. Mod - 1
    BY <1>13 DEF IsMap
  <2>4. PICK t : t = Joined(s, 0, workers)
    OBVIOUS
  <2>5. DOMAIN InDense(e) = DOMAIN t
    BY <1>14, <2>2, <2>3, <2>4 DEF SlotStands
  <2>6. \A i \in DOMAIN InDense(e) : InDense(e)[i] = t[i]
    <3>1. \A i \in DOMAIN InDense(e) : InDense(e)[i] = e.pay[i]
      BY DEF InDense
    <3> QED BY <1>14, <2>2, <2>4, <3>1 DEF SlotStands
  <2> QED BY <1>13, <2>1, <2>4, <2>5, <2>6, MapsEqual
<1>16. PICK f : f = [NewAgg EXCEPT !.dense = e]
  OBVIOUS
<1>17. StandsFor(kind, f, Joined(Tables, 0, workers)) /\ HasTables(kind, WantDenseParallel, f)
  BY <1>1, <1>4, <1>11, <1>12, <1>15, <1>16, ArrayOut
<1>18. TablesMerged'
  <2>1. Tables' = Tables /\ WantDenseParallel' = WantDenseParallel
    BY <1>1 DEF Tables, WantDenseParallel, shardVars
  <2> QED BY <1>1, <1>4, <1>10, <1>16, <1>17, <2>1 DEF TablesMerged, shardVars
<1>19. SlotsMerged' /\ ResultStands'
  BY <1>1 DEF SlotsMerged, ResultStands
<1> QED BY <1>2, <1>18, <1>19 DEF AnswerIInv

\* The other steps, and none at all.
LEMMA GroupsStep ==
  ASSUME NilIsNoTable, ParallelIInv, MergeIInv, AnswerIInv, [Next]_vars
  PROVE  AnswerIInv'
<1>1. CASE RunNext /\ UNCHANGED <<kind, mergeVars>>
  BY <1>1, RunGroups
<1>2. CASE MergeArrays
  <2>1. kind = "int64"
    BY <1>2 DEF MergeArrays, WantDenseParallel
  <2> QED BY <1>2, <2>1, ArraysGroups
<1>3. CASE SpawnMergers
  <2>1. kind = "int64"
    BY <1>3 DEF SpawnMergers, WantDenseParallel
  <2> QED BY <1>3, <2>1, SpawnGroups
<1>4. CASE Collect
  BY <1>4, CollectGroups
<1>5. CASE MergeOA
  BY <1>5, OAGroups
<1>6. CASE Finish
  BY <1>6, FinishGroups
<1>7. CASE MergeInSequence
  BY <1>7, SequenceStep
<1>8. ASSUME NEW p \in Mergers, Merger(p) PROVE AnswerIInv'
  BY <1>8, CellGroups, DoneGroups DEF Merger
<1>9. CASE UNCHANGED vars
  <2>1. UNCHANGED <<shardVars, cpc, out, parts, mat, mpc>>
    BY <1>9 DEF vars, mergeVars
  <2>2. LocalsStand' /\ CallMade'
    BY <2>1, LocalsFrame DEF AnswerIInv, CallMade, shardVars
  <2>3. Failed' = Failed
    BY <2>1 DEF shardVars, Failed, Workers
  <2>4. /\ WantDenseParallel' = WantDenseParallel /\ Tables' = Tables /\ Mergers' = Mergers
        /\ \A r : Lo(r)' = Lo(r) /\ SlotsOf(r)' = SlotsOf(r) /\ Cells(r)' = Cells(r)
    BY <2>1 DEF WantDenseParallel, Tables, Mergers, Lo, SlotsOf, Cells, shardVars
  <2>5. NewAgg' = NewAgg
    BY <2>1, <2>4 DEF NewAgg, shardVars
  <2>6. SlotsMerged'
    BY <2>1, <2>4, <2>5 DEF AnswerIInv, SlotsMerged, shardVars
  <2>7. Outcome' /\ TablesMerged' /\ ResultStands'
    BY <2>1, <2>3, <2>4 DEF AnswerIInv, Outcome, TablesMerged, ResultStands, shardVars
  <2> QED BY <2>2, <2>6, <2>7 DEF AnswerIInv
<1> QED BY <1>1, <1>2, <1>3, <1>4, <1>5, <1>6, <1>7, <1>8, <1>9 DEF Next, MergeCaller

\* What holds of the groups in every reachable state.
THEOREM AnswerInductive == ASSUME NilIsNoTable PROVE Spec => []AnswerIInv
<1>1. Init => AnswerIInv
  BY GroupsStart
<1>2. ParallelIInv /\ MergeIInv /\ AnswerIInv /\ [Next]_vars => AnswerIInv'
  BY GroupsStep
<1> QED BY <1>1, <1>2, ParallelInductive, MergeInductive, PTL DEF Spec

-----------------------------------------------------------------------------
(* The answer.                                                              *)

\* The groups promised, batch by batch.
LEMMA GroupsJoined ==
  ASSUME ParallelIInv, CallMade, \A i \in DOMAIN batches : ~OutOfRange(batches[i])
  PROVE  Groups(kind, batches) = Joined(BatchGroups(kind, batches), 0, Len(batches))
<1>1. Len(batches) \in Nat /\ DOMAIN batches = 1 .. Len(batches)
  BY DEF ParallelIInv, RunTypes
<1>2. PICK mod, hasVal : mod = CallMod(kind) /\ hasVal = CallHasVal(kind)
  OBVIOUS
<1>3. mod \in Int /\ hasVal \in BOOLEAN
  BY <1>2, CallFacts
<1>4. PICK q : q = [i \in DOMAIN batches |-> Selected(batches[i])]
  OBVIOUS
<1>5. \A i \in 1 .. Len(batches) : q[i] \in Seq(Rows)
  BY <1>1, <1>4, CallFacts
<1>6. PICK e : e = [i \in 1 .. Len(batches) |-> RefEntries(q[i], mod, hasVal)]
  OBVIOUS
<1>7. Groups(kind, batches) = IntoGroups(e)
  <2>1. PICK z : z = [i \in DOMAIN batches |-> RefEntries(Selected(batches[i]), CallMod(kind), CallHasVal(kind))]
    OBVIOUS
  <2>2. z = e
    BY <1>1, <1>2, <1>4, <1>6, <2>1
  <2>3. Groups(kind, batches) = IntoGroups(z)
    BY <2>1 DEF Groups, CallMod, CallHasVal, IntoGroups
  <2> QED BY <2>2, <2>3
<1>8. PICK f : f = BatchGroups(kind, batches)
  OBVIOUS
<1>9. PICK n : n = Len(batches)
  OBVIOUS
<1>10. GroupLists(f, q, n, mod, hasVal)
  BY <1>1, <1>2, <1>4, <1>8, <1>9 DEF BatchGroups, GroupLists
<1>11. RowLists(q, n) /\ EntryLists(e, q, n, mod, hasVal) /\ n \in Nat
  BY <1>1, <1>5, <1>6, <1>9 DEF RowLists, EntryLists
<1>12. NULL \notin Int
  BY ParallelAssumption
<1>13. IntoGroups(e) = Joined(f, 0, n)
  BY <1>3, <1>10, <1>11, <1>12, ListsJoin
<1> QED BY <1>7, <1>8, <1>9, <1>13

\* A call that has come back says what was promised.
SaysPromised == Returned => Answered = Promise!Promised

LEMMA OkPromised ==
  ASSUME ParallelIInv, AnswerIInv, cpc = "ok"
  PROVE  SaysPromised
<1>1. CallMade /\ LocalsStand /\ Failed = {}
      /\ StandsFor(kind, out, Joined(BatchGroups(kind, batches), 0, Len(batches)))
  BY DEF AnswerIInv, Outcome, ResultStands
<1>2. \A i \in DOMAIN batches : ~OutOfRange(batches[i])
  BY <1>1, AllFolded
<1>3. PICK t : t = Groups(kind, batches)
  OBVIOUS
<1>4. t = Joined(BatchGroups(kind, batches), 0, Len(batches))
  BY <1>1, <1>2, <1>3, GroupsJoined
<1>5. IsMap(t, Keys)
  <2>1. AreMaps(BatchGroups(kind, batches), 0, Len(batches), Keys)
    BY <1>1, SharesJoin
  <2>2. Len(batches) \in Nat
    BY DEF ParallelIInv, RunTypes
  <2> QED BY <1>4, <2>1, <2>2, JoinedIsMap
<1>6. Reports(out, t)
  BY <1>1, <1>4, <1>5, MatchReports, ParallelAssumption DEF StandsFor
<1>7. Answered = [status |-> "ok", value |-> t]
  BY <1>3, <1>6 DEF Answered
<1>8. Promise!Promised = [status |-> "ok", value |-> t]
  BY <1>2, <1>3 DEF Promise!Promised, Promise!Bad
<1> QED BY <1>7, <1>8 DEF SaysPromised

LEMMA ErrorPromised ==
  ASSUME ParallelIInv, EarliestError, cpc = "failed"
  PROVE  SaysPromised
<1>1. Len(batches) \in Nat /\ DOMAIN batches = 1 .. Len(batches)
  BY DEF ParallelIInv, RunTypes
<1>2. /\ failedAt \in DOMAIN batches /\ OutOfRange(batches[failedAt])
      /\ \A i \in 1 .. failedAt - 1 : ~OutOfRange(batches[i])
  BY DEF EarliestError
<1>3. PICK B : B = {i \in DOMAIN batches : OutOfRange(batches[i])}
  OBVIOUS
<1>4. failedAt \in B /\ B \subseteq 1 .. Len(batches) /\ \A j \in B : failedAt <= j
  BY <1>1, <1>2, <1>3
<1>5. (CHOOSE i \in B : \A j \in B : i <= j) = failedAt
  <2>1. \A i \in B : (\A j \in B : i <= j) => i = failedAt
    BY <1>1, <1>4
  <2> QED BY <1>4, <2>1
<1>6. Promise!Promised = [status |-> "error", batch |-> failedAt]
  <2>1. Promise!Bad = B
    BY <1>3 DEF Promise!Bad
  <2> QED BY <1>4, <1>5, <2>1 DEF Promise!Promised
<1>7. Answered = [status |-> "error", batch |-> failedAt]
  BY DEF Answered
<1> QED BY <1>6, <1>7 DEF SaysPromised

\* The call answers in one step and never changes its answer.
LEMMA PromiseStep ==
  ASSUME MergeIInv, SaysPromised', [Next]_vars
  PROVE  [Promise!Answer]_(Promise!vars)
<1>1. kind' = kind /\ batches' = batches
  BY DEF Next, RunNext, RunCaller, Spawn, Await, ReturnError, StartMerge, Worker, FoldBatch, RefuseBatch,
         EndShard, SendDone, MergeCaller, MergeArrays, SpawnMergers, Collect, MergeOA, Finish, MergeInSequence,
         Merger, MergeCell, MergerDone, vars, shardVars
<1>2. Returned => UNCHANGED <<cpc, out, failedAt>>
  <2> SUFFICES ASSUME cpc \in {"ok", "failed"} PROVE UNCHANGED <<cpc, out, failedAt>>
    BY DEF Returned
  <2>1. CASE RunNext /\ UNCHANGED <<kind, mergeVars>>
    BY <2>1 DEF RunNext, RunCaller, Spawn, Await, AwaitedAll, ReturnError, StartMerge, Worker, FoldBatch,
                RefuseBatch, EndShard, SendDone, mergeVars
  <2>2. ~MergeCaller
    BY DEF MergeCaller, MergeArrays, SpawnMergers, Collect, Barrier, MergeOA, Finish, MergeInSequence
  <2>3. ASSUME NEW p \in Mergers, Merger(p) PROVE FALSE
    <3>1. mpc[p] = "run"
      BY <2>3 DEF Merger, MergeCell, MergerDone
    <3> QED BY <2>3, <3>1, RunningMerger
  <2>4. CASE UNCHANGED vars
    BY <2>4 DEF vars, shardVars, mergeVars
  <2> QED BY <2>1, <2>2, <2>3, <2>4 DEF Next
<1>3. CASE Returned
  <2>1. Answered' = Answered
    BY <1>1, <1>2, <1>3 DEF Answered
  <2> QED BY <1>1, <2>1 DEF Promise!vars
<1>4. CASE ~Returned /\ ~Returned'
  <2>1. Answered = Promise!Pending /\ Answered' = Promise!Pending
    BY <1>4 DEF Returned, Answered, Promise!Pending
  <2> QED BY <1>1, <2>1 DEF Promise!vars
<1>5. CASE ~Returned /\ Returned'
  <2>1. Answered = Promise!Pending
    BY <1>5 DEF Returned, Answered, Promise!Pending
  <2>2. Promise!Promised' = Promise!Promised
    BY <1>1 DEF Promise!Promised, Promise!Bad
  <2>3. Answered' = Promise!Promised
    BY <1>5, <2>2 DEF SaysPromised
  <2> QED BY <1>1, <2>1, <2>3 DEF Promise!Answer
<1> QED BY <1>3, <1>4, <1>5

\* However the batches are sharded, the folds interleaved and the locals merged,
\* the call answers once, with the groups of a sequential fold or its first error.
THEOREM RefinesCall == ASSUME NilIsNoTable PROVE Spec => RefinesAggCall
<1>1. Init => Promise!Init
  BY DEF Init, RunInit, Answered, Promise!Init, Promise!Pending
<1>2. ParallelIInv /\ AnswerIInv /\ EarliestError => SaysPromised
  BY OkPromised, ErrorPromised DEF SaysPromised, Returned
<1>3. MergeIInv /\ SaysPromised' /\ [Next]_vars => [Promise!Answer]_(Promise!vars)
  BY PromiseStep
<1>4. Spec => []AnswerIInv
  BY AnswerInductive
<1> QED BY <1>1, <1>2, <1>3, <1>4, ParallelInductive, MergeInductive, FirstErrorReturned, PTL
        DEF Spec, RefinesAggCall, Promise!Spec
=============================================================================
