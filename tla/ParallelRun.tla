---------------------------- MODULE ParallelRun -----------------------------
(***************************************************************************)
(* The fan-out of the Parallel* calls: clampWorkers, parallelRun and the   *)
(* goroutines it starts.  What a worker folds its shard into is left to    *)
(* the modules that instantiate this one.                                  *)
(***************************************************************************)
EXTENDS Integers, Sequences

CONSTANTS
  NULL,
  Inputs,           \* sequences of batches a caller may pass
  Requests,         \* values of the argument workers
  IsBad(_),         \* does Add refuse this batch (checkAggColumn)?
  Fold(_, _)        \* what Add makes of a local aggregator and a good batch

VARIABLES
  batches,
  workers,          \* the clamped count
  locals,           \* one aggregator per worker
  at,               \* per worker: batches before this one are folded
  wpc,              \* per worker: "new", "run", "send", "done"
  errs,             \* per worker: the batch it stopped at, or NULL
  tokens,           \* done: a buffered channel of struct{}
  awaited,          \* tokens the caller has received
  cpc,              \* caller: "spawn", "wait", "failed", "merge", ...
  failedAt          \* the batch whose error the call returns, or NULL

runVars == <<batches, workers, locals, at, wpc, errs, tokens, awaited, cpc, failedAt>>

Workers == 0 .. workers - 1

ClampWorkers(n, req) ==
  LET w == IF req < 1 THEN 1 ELSE req
  IN  IF n > 0 /\ w > n THEN n ELSE w

\* Shard w of count is ShardStart(w, n, count) + 1 .. ShardStart(w + 1, n, count).
ShardStart(w, n, count) == (w * n) \div count

ShardEnd(w) == ShardStart(w + 1, Len(batches), workers)

\* The modules that instantiate this one add the fresh locals.
RunInit ==
  /\ batches \in Inputs
  /\ \E req \in Requests : workers = ClampWorkers(Len(batches), req)
  /\ at = [w \in Workers |-> 0]
  /\ wpc = [w \in Workers |-> "new"]
  /\ errs = [w \in Workers |-> NULL]
  /\ tokens = 0
  /\ awaited = 0
  /\ cpc = "spawn"
  /\ failedAt = NULL

-----------------------------------------------------------------------------
(* Worker w.  Writing errs[w] and sending the token are two steps. *)

FoldBatch(w) ==
  /\ wpc[w] = "run"
  /\ at[w] < ShardEnd(w)
  /\ ~IsBad(batches[at[w] + 1])
  /\ locals' = [locals EXCEPT ![w] = Fold(@, batches[at[w] + 1])]
  /\ at' = [at EXCEPT ![w] = @ + 1]
  /\ UNCHANGED <<batches, workers, wpc, errs, tokens, awaited, cpc, failedAt>>

RefuseBatch(w) ==
  /\ wpc[w] = "run"
  /\ at[w] < ShardEnd(w)
  /\ IsBad(batches[at[w] + 1])
  /\ errs' = [errs EXCEPT ![w] = at[w] + 1]
  /\ wpc' = [wpc EXCEPT ![w] = "send"]
  /\ UNCHANGED <<batches, workers, locals, at, tokens, awaited, cpc, failedAt>>

EndShard(w) ==
  /\ wpc[w] = "run"
  /\ at[w] >= ShardEnd(w)
  /\ wpc' = [wpc EXCEPT ![w] = "send"]
  /\ UNCHANGED <<batches, workers, locals, at, errs, tokens, awaited, cpc, failedAt>>

\* Mutant of SendDone: a worker that failed leaves without a token.
SendDoneUnlessFailed(w) ==
  /\ wpc[w] = "send"
  /\ tokens' = IF errs[w] = NULL THEN tokens + 1 ELSE tokens
  /\ wpc' = [wpc EXCEPT ![w] = "done"]
  /\ UNCHANGED <<batches, workers, locals, at, errs, awaited, cpc, failedAt>>

\* The channel has room for every worker's token: this never blocks.
SendDone(w) ==
  /\ wpc[w] = "send"
  /\ tokens' = tokens + 1
  /\ wpc' = [wpc EXCEPT ![w] = "done"]
  /\ UNCHANGED <<batches, workers, locals, at, errs, awaited, cpc, failedAt>>

Worker(w) == FoldBatch(w) \/ RefuseBatch(w) \/ EndShard(w) \/ SendDone(w)

-----------------------------------------------------------------------------
(* The caller.  With one worker parallelRun calls run itself instead of    *)
(* starting a goroutine: the same steps in the only order there is.        *)

\* Nothing a worker does depends on which others were started already.
Spawn ==
  /\ cpc = "spawn"
  /\ wpc' = [w \in Workers |-> "run"]
  /\ at' = [w \in Workers |-> ShardStart(w, Len(batches), workers)]
  /\ cpc' = "wait"
  /\ UNCHANGED <<batches, workers, locals, errs, tokens, awaited, failedAt>>

Await ==
  /\ cpc = "wait"
  /\ awaited < workers
  /\ tokens > 0
  /\ tokens' = tokens - 1
  /\ awaited' = awaited + 1
  /\ UNCHANGED <<batches, workers, locals, at, wpc, errs, cpc, failedAt>>

\* Mutant of AwaitedAll: one token short.
AwaitedAllButOne == cpc = "wait" /\ awaited + 1 >= workers

AwaitedAll == cpc = "wait" /\ awaited = workers

Failed == {w \in Workers : errs[w] # NULL}

\* Mutant of FirstFailed: the last failed worker wins.
LastFailed == CHOOSE w \in Failed : \A v \in Failed : v <= w

FirstFailed == CHOOSE w \in Failed : \A v \in Failed : w <= v

ReturnError ==
  /\ AwaitedAll
  /\ Failed # {}
  /\ failedAt' = errs[FirstFailed]
  /\ cpc' = "failed"
  /\ UNCHANGED <<batches, workers, locals, at, wpc, errs, tokens, awaited>>

StartMerge ==
  /\ AwaitedAll
  /\ Failed = {}
  /\ cpc' = "merge"
  /\ UNCHANGED <<batches, workers, locals, at, wpc, errs, tokens, awaited, failedAt>>

RunCaller == Spawn \/ Await \/ ReturnError \/ StartMerge

RunNext == RunCaller \/ \E w \in Workers : Worker(w)

-----------------------------------------------------------------------------
(* Properties. *)

\* The call looks at the locals and the errors, or returns, only after every
\* goroutine it started has written its last word: no worker touches a batch
\* or a table of a call that has gone on.
QuietAfterBarrier == (cpc \notin {"spawn", "wait"}) => \A w \in Workers : wpc[w] = "done"

\* The error returned is that of the first bad batch of the whole input,
\* whichever worker met its own first.
EarliestError ==
  (cpc = "failed") =>
    /\ failedAt \in DOMAIN batches
    /\ IsBad(batches[failedAt])
    /\ \A i \in 1 .. failedAt - 1 : ~IsBad(batches[i])
=============================================================================
