# A TLA+ model of qpx

qpx runs one query against a source, passes its rows chunk by chunk through a
chain of operators on a pool of workers, and hands the results to the caller in
source order. This directory models the parts of it that are hard to test:
goroutines, channels and contexts that end in every possible order, hash tables
that grow under a call, partial aggregates that are merged, batches whose null
bitmaps and selections come and go, and a database connection that may fail or
fall silent at any point.

## The system

| Part | Code | State it keeps | Operations |
|---|---|---|---|
| Scheduler, worker pool | `engine/scheduler.go`, `engine/reassemble.go` | channels `jobs`, `results`, `out`, `errCh`, `readerDone`; the derived context `runCtx`; the reassembler's `pending` and `next` | `Run`: reader, workers, closer, reassembler, teardown |
| Scheduler, straight stream | `engine/scheduler.go` `runStraight` | `out`, `errCh`, `runCtx` | one goroutine from scanner to `out`, deferred teardown |
| Iterator | `engine/iterator.go` | `done`, `err`, `cancelOnce` | `Next`, `Close`, from any goroutine |
| Entry points | `qpx.go`, `qpx_vector.go` | a context of their own | `Execute`, `ExecuteVector` |
| Vector scheduler, iterator | `engine/vector/schedule.go` | as above, and the batches in flight, which are changed in place | as above, over `*Batch` |
| Row operators | `engine/chunk.go`, `operator.go` | none across chunks | `Filter`, `Project` |
| Vector batches, operators | `engine/vector/vector.go`, `ops.go`, `convert.go` | arrays, null bitmaps, selection vector of one batch | append, filter, project, compact, convert |
| Hash tables | `engine/vector/ht.go` | slots with cached hashes, measures and an `occupied` list; a dense array; a string dictionary | `add`, `foldPayload`, `reserve`, `grow`, `reset` |
| Aggregation | `engine/vector/agg.go`, `parthash.go` | per aggregator: dense array, spill table, open table or dictionary, NULL group, running total; per call: locals, errors, a done channel | `Add`, `Merge`, `Reset`, `Len`; `Parallel*` calls |
| PostgreSQL sources | `postgres/*.go` | connection, rows, first scan error, closed flag | open, next, close, wire decoding |

How they interact: `Execute` derives a context from the caller's and calls
`Run`, which opens the source and returns two channels. `Iterator.Next` receives
from the chunk channel and, when it is closed, takes the terminal error from
the error channel. `Iterator.Close`, and the caller's own cancellation, end the
derived context, which ends `runCtx`. Inside the pool the reader numbers chunks
and queues them, each worker applies the operators and queues a result, and the
reassembler restores the order. The reassembler alone closes `out` and `errCh`,
and only after the reader has signalled that it will report nothing more.

What is hard here: a `select` takes any ready case, so a goroutine may or may
not notice the end of `runCtx` before its next send; four kinds of error compete
for the single slot of `errCh`; the end of the stream is inferred from closed
channels; every blocking send must have a way out when nobody receives.
`PROJECT.json` lists the hazards at their lines and the properties that cover
each.

What makes each part correct:

- pool: the output is the source in order, without repetition, and without
  holes until the run is stopped; a clean end means a complete run; no send on a
  closed channel; every goroutine returns when the caller drains, cancels, or
  the scan fails;
- straight stream: the same, and no holes even when stopped;
- iterator: a clean end reported by `Next` is true, the terminal result does not
  change, no call blocks for ever, `Close` releases the run;
- hash table: it is a map from keys to measures, whatever collides, whenever it
  grows and however often it is reused; every probe ends;
- aggregation: an aggregator reports exactly the groups of the rows it stands
  for, each once, through every representation and merge; a parallel call
  answers what a sequential fold would;
- batches: the compact representation holds the rows the row path would hold,
  from the bytes on the wire on; a batch in flight is in one hand at a time;
- sources: chunks are full except the last, an error never passes for the end of
  the result or for a short chunk, the connection is released whatever fails.

## The modules

| Module | Models |
|---|---|
| `RunChannels` | what a run shares with its caller: the caller's context, `runCtx`, `out`, `errCh`; a caller that receives from both as it likes |
| `Pool` | `Scheduler.Run` with operators, one program counter per goroutine |
| `Straight` | `runStraight` |
| `OrderedStream` | the abstract specification: an ordered stream that ends once, clean or failed |
| `Iterator` | `Iterator.Next` and `Close` called concurrently by readers and closers |
| `ExecuteStraight`, `ExecutePool` | `Execute`: an engine and an iterator composed on the shared channels |
| `GroupMap` | the abstract specification of an aggregation table: a map from keys to measures |
| `IntHashTable` | `int64HashAgg`: open addressing, growth step by step, reuse after a reset |
| `Agg` | `GroupByInt64` as a value: `Add`, `Merge`, `Reset` over dense, spill and open tables |
| `Aggregators` | `GroupByString` with its dictionary and `GlobalFloatAgg` as values, and what the three aggregators have in common |
| `GroupBy` | aggregators of several kinds, domains and representations, used and merged in any order |
| `AggCall` | the abstract specification of a `Parallel*` call: one answer |
| `ParallelRun` | `parallelRun`, its goroutines and `clampWorkers`; instantiated with what the workers do |
| `ParallelCalls` | the three `Parallel*` calls: `ParallelRun` over `Aggregators`, then the merge, concurrent past its gate |
| `Batch` | columns over arrays, bitmaps, selections, chunks and the operators of both paths, as values |
| `Wire` | PostgreSQL's binary formats and the vector scanner's decoding of them |
| `BatchPath` | the life of one batch from the wire on, beside the chunk the row path makes of the same rows |
| `PgScanner` | the steps of a PostgreSQL source, row or vector, from `Open` to `Close` |
| `ExecuteVector` | `ExecuteVector` over a PostgreSQL source: `PgScanner`, `Straight` and `Iterator` composed |
| `VectorPool` | `vector.Scheduler.Run` with operators: `Pool`, and what each batch object holds |
| `PoolInv`, `PoolProofs` | the inductive invariant of `Pool`; the theorems about `Pool`, `VectorPool` and `ExecutePool` |
| `IteratorInv`, `IteratorProofs` | the invariant of the reader of an `Iterator`, over any engine; the lemmas about it |
| `StraightInv`, `ExecuteVectorInv`, `StraightProofs` | the invariants of `ExecuteStraight` and `ExecuteVector`; the theorems about both |
| `IntHashTableInv`, `IntHashTableProofs` | the inductive invariant of `IntHashTable`; the theorems about it |
| `FoldLemmas` | what a fold over a sequence comes to, step by step, for any step |
| `AggInv`, `AggLemmas` | what keeps an aggregator well formed and which groups it stands for; the lemmas about every operation on one |
| `GroupByInv`, `ParallelCallsInv`, `AggProofs` | the inductive invariants of `GroupBy` and of the `Parallel*` calls; the theorems about both |
| `BatchPathInv`, `BatchPathProofs` | the inductive invariant of `BatchPath`; the theorems about it and about `Wire` |
| `MCPool`, `MCVectorPool`, `MCExecutePool`, `MCIntHashTable`, `MCGroupBy`, `MCParallelCalls`, `MCBatchPath` | constants, symmetry and restricted initial states for TLC |

Chunks are named by their position in the source, `0 .. NumChunks-1`; what is
in them does not matter to the scheduler. A channel the caller can see is an
immutable queue: `emitted` is everything ever sent on `out` and `taken` how much
of it was received, likewise `errs` and `errsTaken`; `jobs` and `results` are
plain sequences. Errors are named by their origin: `scan`, `close`, `op`, `ctx`.

Correspondence of `Pool`'s program counters:

- `rpc` is the reader: `next` (`scanner.Next`), `send` (the select on `jobs`),
  `scanErr` and `cancel` (after the loop), `closeJobs`, `close`, `closeErr`
  (the deferred function), `signal` (`close(readerDone)`), `done`. The reader
  having reached `done` is what `<-readerDone` waits for.
- `wpc[w]` is worker `w`: `recv` (the first select), `send` (the second),
  `exit`. Applying the operators is part of receiving; whether the chain rejects
  a chunk (`opFails`) is chosen once, at the start.
- `apc` is the reassembler: `select` (its loop), `emit` and `send` (the emit
  closure), `cancel`, `wait`, `parent`, `closeOut`, `closeErr` (the deferred
  function). `drained` remembers that `results` was found closed, so that emit
  returns to the teardown and not to the loop.

`sendErr` runs under a mutex that nobody holds across a blocking operation, so
it is one step. Where several cases of a `select` are ready the model has one
action for each. The scanner may fail at any call and `Close` may fail or
succeed. Cancelling a context is two steps, the parent's error first and the
child's `Done` after it, since Go cancels children one after the other.

In `Iterator` a call has its own context, which may end at any time
(`NextCallCancelled`). Reading `errCh` and publishing the result under `it.mu`
are separate steps, as in the code. `Close` is two steps: cancelling (under
`cancelOnce`), and marking the iterator done.

The vector package's scheduler and iterator (`engine/vector/schedule.go`) are
the same program over `*Batch`; they were compared statement by statement, and
`Pool`, `Straight` and `Iterator` hold their steps. What differs is that a chunk
is a value and a batch an object. `VectorPool` superposes on every step of `Pool`
what the batch objects hold: `FillBatch` is the scanner's `Next`, which makes an
object per batch, `ApplyOps` the operators, which change it in place, and
`TakeBatch` a caller that receives it and overwrites it at once. Where a step of
`Pool` moves a chunk, the pointer moves and the heap stays.

`ExecuteVector` composes three modules over the contexts of `RunChannels`: the
scanner's context is `runCtx`. `OpenBatch` runs inside the call of `Run`, before
there is a goroutine or an Iterator; `ReturnOpenError` is the path back when it
fails, which ends both derived contexts (`parentErr` stands for the one
`ExecuteVector` makes). From then on `runStraight` calls: `ScannerNext` is the
inside of `Next`, `NextIsBatch`, `NextIsEnd` and `NextFails` its three returns, each
one step with what `runStraight` does on it; `CloseBegins` and `CloseEnds` are
`Close`; everything else `runStraight` does is `Passing`. A step of `Straight` that
would answer for an abstract scanner is thereby tied to what the real one found.

`IntHashTable` keeps a slot's hash, key and measure in one record. A call is
checked against the load factor, grows if it must, and probes: `pc` is `grow`
and `move` while `grow` runs (one step per entry), `probe` when `slotFor` is about
to run. The probe itself is one step that finds the first slot to stop it; that
there is one is a property. `add` is `foldPayload` of a measure of one row. A
record's `hash` is a value of the constant function `Hash`; `mixInt64` is one.

`Agg` uses maps for the open tables, which is what `IntHashTable` is shown to
implement, and keeps the dense array's measures across resets as the code does. An entry is a
key and its measure; folding a list of entries into a table is a fold with `IntoMap`,
whether the list is another table's or, for the reference, the rows' (`RefEntries`).
Measures are integers: `sum` stands for a float64 whose additions are exact, so
the rounding of sums added in another order is out of the model, and so is the
overflow of 64-bit counts. `Aggregators` keeps a dictionary's `ids` beside the
arrays they index, and sums a batch without NULLs and selection in four
accumulators, as `GlobalFloatAgg` does; its NULL-skipping and selecting loops are one
sum over the values that are not NULL. In `ParallelCalls` a worker folds one batch
per step (`FoldBatch`), stops at the first that `checkAggColumn` refuses, writes `errs[w]` and
then sends its token; `Spawn` starts all workers in one step, since nothing a
worker does depends on which others run. The constants of the memory and merge
gates are parameters: the code's (4 workers and more entries than a model can
hold) are replaced by smaller ones so that both sides of each gate are reached.

In `Batch` the values of a column are in an array, an object that `Project` shares
and `Reset` keeps: a column is a length over it, and a value past the length stays
until it is written over. `append` writes within the capacity (`Put`); that it may
move to a larger array first, and so end the sharing, is left out. `Comparison` is the
comparison a filter's loop makes, which for a bool is always equality; the row path's
predicate (`PassingChunk`) is what the documentation of `Filter` says of the same fields.

In `BatchPath` a step is a cell decoded and appended, an operator, a conversion, rows
selected by an operator of the caller's (`Choose`), or an owner taking the batch back,
whatever operators it went through, and filling
it with cells of its own. `Wire` decodes bytes: `Encoded` is what a server sends for
a value, big-endian two's complement of the column's width, and the decoders are
the code's. A byte has two values and a second ten microseconds, so that a width of
eight bytes can be looked through; the arithmetic is parameterised by these, and proved
right for all of them. The row
path is given what pgx makes of the same cell (`Meant`), computed by flooring division where
`Wire` follows Go's truncation. Widths a server does not send, and infinities, end
the scan on the vector path.

`PgScanner` serves both scanners, whose control is the same statement by
statement; `rejects` (a column type `OpenBatch` refuses) only concerns the vector
one. A pgx call returns when the server answers or the context given to it has
ended (`Answers`); `conn.Close` under `closeTimeout` always returns.

Definitions whose comment begins "Mutant of" are faulty variants of the
definition that follows. No specification uses them; each exists to show that a
property would notice that mistake.

## What TLC checks

| Run | Instance | Question |
|---|---|---|
| `pool_safety` | 2 workers, 3 batches, queues of 1 | order, no holes until stopped, clean end complete, channel safety, error precedence, refinement of `OrderedStream`, and the inductive invariant; is a batch in one hand at a time (`OneHolder`) and does it hold what it should, and what does `pending` wait for? |
| `pool_release` | 1 worker, 6 chunks, queues of 1, at most the second chunk rejected, a `Close` that succeeds or hangs, a caller that receives no error | does cancelling, or a scan error, release everyone while every queue is full and nobody receives? Does draining, whatever fails? If `Close` hangs, do workers leave and chunks come out all the same? |
| `execute_straight` | 3 chunks, a reader and a closer | is what `Next` reports true and stable, do calls return, does `Close` release? Does the straight path refine the stream without gaps? |
| `execute_pool` | 1 worker, 2 chunks, a reader and a closer, at most the first chunk rejected | the same truth over the pool, that the reported error is the only one, that calls return and `Close` releases |
| `int_hash_table` | 3 keys, 2 rows per key, a table of 2 slots that grows, `reserve` of up to 3 | is the table a map, do probes end, does its invariant hold (`occupied` exact, no key twice, no probe broken), through growth and reuse? |
| `group_by` | three integer aggregators, two of strings, or two global ones; 3 rows in all, five kinds of batches | do they report exactly the groups of their rows after any adds, merges (into themselves too) and resets? |
| `parallel_calls` | up to 4 batches, 1 to 4 workers, a domain of 3, each of the three calls | is the answer that of a sequential fold, does the call wait for everyone and come back? |
| `batch_path` | an integer with a text column, or one of timestamps, dates or booleans; 3 scanned rows or 2 refilled ones, six filters, three projections, a caller's operator that reorders and repeats rows | does the vector path hold the rows of the row path, but for three named steps? |
| `execute_vector` | up to 5 rows, 2 per batch, a reader and a closer, a server that may fail or fall silent | are batches whole, ends true, connections released, and do cancelled and closing runs end? |

Why these bounds are enough to be interesting: with queues of one and two
workers, three chunks can overtake each other in every way (one held by a
worker, one in `results`, one in `pending`); six chunks fill a one-worker
pipeline completely (out, reassembler, results, worker, jobs, reader), so every
goroutine is blocked at a send when the cancellation comes; a run of two chunks
already blocks on `out` when nobody reads. The order of the input and the
failures are free: every subset of chunks may be rejected by the operators
(in the liveness runs `pool_release` and `execute_pool` a smaller choice, to
afford them), the scan may fail at any point, the close may fail (except in
`pool_release`), and the caller may cancel at any point.
Symmetry (over workers) is used in `pool_safety` only, never with liveness.
Deadlock is checked wherever the system goes on for ever or has a step for its
end; `parallel_calls` and the `execute_vector` runs model one call and one run, which stop.

Of the three keys of `int_hash_table` two have the same hash and the third is
next to them, so that probes run into one another and wrap around, growth changes
who collides, and a reset leaves measures to be inherited. The aggregators of
`group_by` are chosen so that each way of merging is taken: two of one dense
domain, one of them without a value column and made on first use, and one of a
wider domain whose groups are foreign to the others; its rows have keys inside,
above and below the domain, negative keys that reduce to zero, and NULLs. Four
batches over three workers do not divide evenly; the gates of `parallel_calls`
admit the dense path for up to three workers, the open path for four, and
concurrent mergers once two workers hold three groups; a batch of six values goes
through the unrolled sum once with two left over. The cells of `batch_path` have
both signs, two widths and one that no integer has, times before and after 2000 and
both infinities; three rows show a filter keeping all, some or none, and a bitmap
that starts before, at or after a row; two refilled rows meet what three scanned
ones left behind (`MaxRefill` is smaller than `MaxRows` to bound the run). Five rows in
batches of two leave a short last batch, and four a full one with an empty call after
it; with a queue of one, `runStraight` blocks on `out` with rows still to come.

Three runs show a disagreement between the code and its documentation:

- `pool_cancel_masked`: after an external cancellation a failing `scanner.Close`
  keeps the only slot of `errCh`, and the wrapped `ctx.Err()` is dropped;
- `execute_two_readers`: two concurrent `Next` calls at the end of a failed run
  can both report a clean end. `Iterator` does not forbid concurrent `Next`, and
  its locking and its `if !it.done` re-check suggest that it is meant to allow it;
- `execute_vector_reject`: rejecting a column, `OpenBatch` closes the connection without
  the timeout that is meant to bound every teardown.

More observations of the same kind were made while modelling; no run is about
them:

- `errCh` can carry two errors when the caller receives the first before the run
  ends (`scheduler.go:64` says at most one). `Iterator` reads it only at the end,
  and `FirstErrorWins` shows that it then sees one;
- `occupied` of a parallel dense merge is not in index order, as the comment at
  `parthash.go:77-78` says it is: a merger lists the slots of its first local
  before those only its second one has. Nothing relies on it but speed;
- a `Filter` of kind Bool ignores `Cmp` (`ops.go:102-103`, `filterBoolInto`), though
  column `Col` is said to be compared by `Cmp` (`ops.go:47-51`) and `Process` refuses
  no `Cmp` for a bool: with `Ne` it keeps the rows it should drop. `NewBoolFilter`
  only makes `Eq`;
- `Filter` takes a selection as long as the batch for the identity (`ops.go:107`).
  That holds of the increasing selections the repository's operators make; one that
  repeats or reorders rows, which `Validate` accepts and an operator of the caller's can
  make (`Choose`), is forgotten;
- `Batch.Reset` asks only that the batch is owned exclusively (`vector.go:92-95`). A
  batch that `Project` made with a repeated index is, and yet, refilled, its columns
  write over each other, since they share an array;
- `vector.Scanner` says a batch is "owned by the caller until the next Next call"
  (`schedule.go:19`), but `runReader` calls `Next` with batches still in flight: a scanner
  that took this at its word and reused one batch would break `BatchesIntact`. The
  PostgreSQL scanner makes a new one each time, as its own comment says;
- `SortedRows` is said to sort the NULL group last (`agg.go:745`); it leaves it out.

Three of these are in reach of `batch_path`: a bool's `Cmp`, a forgotten order, columns
over one array. There the two paths part.
`apart` is a history variable that no guard reads: it is set by the step that does it
and by no other, `IgnoresCmp` for a bool filter whose `Cmp` is not Eq, `ForgetsOrder` for a
filter that drops a selection not in order, `Overwrites` for a cell that changes another.
`RowPathAgrees` is claimed until then. The run meets all three: without any one of
them `RowPathAgrees` is violated. Before such a step, and where a repeated column or a
reordering selection does no harm, it is checked like everything else.

Not a disagreement but worth knowing: once `runCtx` has ended, `emit` may drop
the chunk in its hand and the main loop, whose `select` is free to take another
result first, may emit a later one. A stopped run's output is in order but can
have a hole. `OrderedStream` permits this with `GapsAfterStop`; the straight path
refines it without.

### Fairness

`Fairness` in `Pool` assumes that Go runs every goroutine that can run: weak
fairness of each goroutine as a whole, not of the cases of a `select`, of which
Go promises none. It also assumes that a cancelled context cancels its children,
and that the source answers `Next`. That the source answers `Close`
(`SourceCloses`) and that the caller keeps receiving from the chunk channel
(`Draining`), which the documentation of `Run` demands of it, are hypotheses of
the properties that need them: `CancelReleases` and `ScanErrorReleases` assume the
first, `HungCloseWedgesNoWorker` the second, `DrainReleases` both. No run assumes
that the caller ever reads the error channel, cancels, or closes. In the composed
modules the source answers everything; a call that was made goes on when it can,
but nobody has to make a call, and a call's own context need not end.

A hash-table call in progress goes on (`RunSpec`): it is a single thread. The
caller, each worker and each merger of a `Parallel*` call run while they can. In
`ExecuteVector` the call of `Run` and the goroutine run while they can, and the server is
bound only by not being silent: it may fall silent at any time and stay so.

## What is proved

`PoolProofs` proves for every finite non-empty set of workers, every number of
chunks and every positive queue size (`RunAssumption`, `PoolAssumption`):
`TypeCorrect`, `NeverSendsOnClosed`, `InOrder`, `Contiguous`, `CleanEOF`,
`ScanBeforeClose`, and `Refinement` (`Spec => RefinesStream`).

The argument is one inductive invariant, `IInv` (theorem `Inductive`), because
none of the properties is inductive by itself. Its parts, in the order in which
the lemmas establish them:

1. `TypeOK` and `Hands`: types, and what each goroutine holds at a send;
2. `Protocol`: the order of the closes; `StopHasCause`: `runCtx` ends only because the
   caller cancelled, an error was reported, or the teardown began;
   `FailuresReported`: each failure of the source reaches `errCh`;
3. `EmittedBehind`, `NoHoles`, `OpsPassed`: what came out so far;
4. `NothingLost`: while nothing stopped or failed the run, each scanned chunk is
   emitted, in a channel, in a goroutine's hands, or in `pending`;
5. `Settled`: when the teardown begins the run is complete, or an error is
   reported, or the caller has cancelled.

`CleanEOF` is the point of it: when the reassembler finds `results` closed and
empty, every worker has left; if nothing stopped the run they left because `jobs`
was closed and empty, so the reader had scanned everything; by `NothingLost` no
chunk is anywhere but emitted or in `pending`, and with `next` not in `pending`
all are emitted (`DrainedIsComplete`). In every other case there was a cause, and
the cause is an error in `errCh` or a cancellation that becomes one before `out` is
closed.

Refinement maps `phase` to `clean` or `failed` once `out` is closed (by whether an
error was reported), to `stopping` once `runCtx` has ended, and else to `open`.

For the vector scheduler `PoolProofs` starts from `VectorIsPool`: every step of `VectorPool` is one of `Pool` or
leaves `Pool`'s state alone, so `IInv` and every theorem above hold of the vector scheduler
too (`VectorCleanEOF`, `VectorRefinement`). Under the same assumptions are proved
`EachChunkOnce`, `NoBatchAliased` and `PendingWaits`. What a batch holds is inductive only
together with who else could have it (`VInv`): `OneHolder` says that no two goroutines or
queues have the same chunk, and orders them: emitted chunks are below `next`, what the
workers have taken is between `next` and every queued job, and the reader's is above all. So
the scanner's new batch, the one a worker has just taken and the one the caller has just
received are each nobody else's. `InTurn` is `NothingLost` without its condition on
`errs`, which an error reported by the reader would end while the reassembler goes on
waiting; since `next` is not in `pending` and, by the order, not in `jobs` or with the
reader, a worker has it or has sent it.

`IntHashTableProofs` proves for every non-empty set of keys, every hash function
into the naturals, every initial capacity and every bound (`TableAssumption`):
`TypeCorrect`, `ProbesEnd`, `ProbesUnbroken`, `OccupiedIsExact`, `KeysAreUnique`, and
`Refinement` (`Spec => RefinesGroupMap`). The capacity need not be a power of two
for this; the code's masks are `%` of one that is. Its invariant adds to the
parts that are properties of the table three that make them inductive: `HashesCached` (a live slot's hash
is its key's, so that `slotFor`'s comparison of hash and key is one of keys),
`RestMovable` (what `grow` still has to move has distinct keys, and fits in half
of the new table), and `Room` (a probe starts below the load factor). A counting
argument over `occupied` (`FreeSlot`) turns `Room` into a free slot, which ends the
probe and, being the first on the key's path, keeps every path unbroken. Refinement
reads a key's measure from its one entry, in the new table or among those still
to be moved, so a step of `grow` is a stutter.

`ExecutePool` is `Pool` under an `Iterator`. `ExecuteIsPool`: what its channels do is a
behaviour of `Pool`, so that `IInv` and the refinement hold of it (`ExecuteRefinement`).
`CleanNext` and `FirstError` say that what `Next` reports is true.
They rest on an invariant of the reader, `IteratorIInv`, proved once for any engine that
only ever sends on `out` and `errCh` and closes `errCh` after `out` (`IteratorInv`): a reader that
found `out` closed has taken everything, and takes the first error there is. They
have the hypothesis that there is one reader (`OneReader`), and it is needed: the run
`execute_two_readers` refutes them for two.

`StraightProofs` treats the path without operators the same way. `StraightIInv` says how
far `runStraight` and its teardown have come and what each error has to do with it; from
it (`StraightInductive`) follow, for any number of chunks, any queue, readers and closers, `StraightTypeCorrect`,
`TerminalStays` (an action property: what `Next` has reported as the end, it reports for
ever), `CleanNext` (with one reader) and `StraightRefinement`, which is
`OrderedStream` without gaps. For `ExecuteVector` `VectorIInv` adds the scanner: which of its
calls `runStraight` is in, whether the connection is open, and how many rows of the result
are in batches (`VectorInductive`). `ConnAlwaysReleased`, `BatchesAreTheRows` and
`CleanNextEveryRow` (with one reader) are for results, batches and queues of any size.

Aggregation is proved by comparison with maps. `AggInv` defines `Fits`, what keeps an
aggregator well formed (the occupied list names each slot in use once, no key is both in the
array and in the spill table, a dictionary's arrays agree), and `GroupsOf`, the map from
keys, NULL among them, to measures that its tables stand for. `MapInto` joins two such maps;
it is associative and commutative with `EmptyMap` its unit. `AggLemmas` shows of each
operation that it keeps `Fits` and what it joins to `GroupsOf`: a row is a map of one key,
a batch the join of its rows, a merge the join of the two sides, whatever the
representation of either and whether they are the same aggregator. Of a `GlobalFloatAgg` only the
total is kept: `Total` of a join is the sum of the totals, and the four accumulators
of a batch come to the plain sum (`UnrolledIsSum`, `RowsCounted`). With these lemmas
`GroupIInv` (every aggregator fits and stands for the groups of its rows) is inductive
(`GroupInductive`), and `ReportsRows` and `GroupsReportedOnce` follow, for any rows,
selections, keys, moduli and number of aggregators. A proof by induction over data is made
here from the least element of a set of naturals where it would not hold (`LeastElement`,
`UpTo`): `FoldLemmas` does this once for the fold of a sequence (`FoldSteps`), and is
instantiated for each step folded.

`AggProofs` has two invariants of the `Parallel*` calls. `ParallelIInv` (`ParallelInductive`): a worker
sends one token, after its last word, so that as many tokens as workers mean that all have
left (`NobodyLeft`); it stops at the first bad batch of its shard, shards are in order and leave
no batch out, so the first worker's error is the first bad batch (`FirstErrorReturned`).
`MergeIInv` (`MergeInductive`): mergers' ranges are disjoint, and each lists the slots in use in its range
once, so that their lists together are the slots in use, each once (`MergedOnce`). For any
batches, workers, mergers and gates.

A third, `AnswerIInv` (`AnswerInductive`), says which groups everything stands for at every
moment of a call. With `Joined(f, a, b)` the maps `f[a + 1]` to `f[b]` joined in order:

- a local stands for the groups of the batches of its shard it has folded so far
  (`LocalsStand`), so after the barrier the locals, first worker first, are all the batches
  (`ShardsFollow`, `JoinedPairs`);
- while mergers run, slot `i` of the shared array is slot `i` of the first `k` locals joined,
  where `k` is how often the merger that owns `i` has come past it (`SlotsMerged`,
  `Passed`). That other mergers run in between changes nothing, because their ranges are
  disjoint (`SlotsApart`). A merger that is done has come past each of its slots once per
  local, so `Collect` finds the join of all the arrays;
- before `Finish` the result stands for the tables of all locals (`TablesMerged`), after it for
  the groups of all batches (`ResultStands`). The code merges all the tables first and then
  all the spill tables and NULL groups; that this is the same as local after local
  needs the join to be commutative.

`RefinesCall` (`Spec => RefinesAggCall`) follows: a call answers once, and answers what one
map would hold that is fed all the batches in order (`GroupsJoined`), or the first bad batch
(`FirstErrorReturned`). It is for any batches, workers, mergers, gates, moduli and
thresholds, for dense arrays, open addressing, dictionaries and global sums alike.

The theorems on aggregation assume of the constants what the code has from their types
(`GroupByAssumption`, `ParallelAssumption`): NULL is no number, a selection that
`checkAggColumn` lets through picks rows that exist, strings are not reduced, a global
aggregate has a value column. They have one more hypothesis, `NilIsNoTable`: nil is
not a function. TLC cannot evaluate it, so it is not an ASSUME; it is true of any model
value.

`BatchPathProofs` proves both invariants of `BatchPath` for any results, cells, values,
filters, projections, selections and bounds. `RowPathAgrees` alone is not inductive: it says nothing of a
batch that is half filled, dropped or reset. `PathIInv` (`PathInductive`) adds that:

- `Sound`, in every phase: a column's cached flag says whether it has a bitmap, the bitmap
  is absent or as long as the column (`BitmapsFit` is this), and the array under a column
  reaches as far as the column, however many columns share it and whatever an earlier life of
  the batch has left behind it;
- `Filling`, while cells arrive and the paths have not parted: every column
  shows the cells appended to it and no others. `AppendFilling` is the step: a cell that
  overwrites no other changes what one column shows, the bitmap made at the first NULL marks none
  of the rows before it, and what `Put` overwrites is beyond the end. In a batch of the scanner's
  no two columns share an array, so no cell overwrites another (`AppendOwn`);
- `Full`, once the batch is handed over: columns as long as the batch, and a selection of its
  rows (`Selects`). The cells it shows (`Shown`) are the chunk's.

A filter keeps the places of the rows that pass (`Places`), which depend on the
tests alone: both paths make the same tests (`FilterAgrees`; an array has no nil in it, so a
cell is NULL on the row path exactly when its bit is set), hence keep the same places. That a
selection as long as the batch may be dropped needs that it goes up: then it is all of the rows
(`AllRows`). Without that it is a step at which the paths part. Rows that an operator of the
caller's chooses on both paths are the same (`ChooseAgrees`). Boxing and unboxing fold the
cells of a chunk into a new batch (`Unboxed`).

That the wire says what the server meant (`WireMeans`) is arithmetic, for any radix, width,
units and epoch, so for real bytes and microseconds and not only those of the run: the digits of
a number sum to it (`UnsignedEncoded`), a number that fits its width keeps its sign
(`SignedEncoded`), and truncating division and remainder, put right by `time.Unix`, are the
floor (`UnixFloor`). `PathAssumption` and `WireAssumption` have what the server's types and
Go's nil give: a value fits the width it is sent in, a bool is 0 or 1, nil is no number, no
selection and no time; columns are of the five kinds modelled.

Each invariant was checked by TLC on the runs' instances before it was proved.

Only model-checked: liveness, since fairness and ENABLED are beyond the prover. Every
invariant a passing run checks is proved.

## Not modelled

- The network protocol and pgx. Text formats, floats, bytea and numeric, whose
  decoding is a library call or a copy, and rows with fewer cells than columns.
  `PackChunk`, which has no caller.
- `Len`, the averages of `SortedRows` and its order.
- Float rounding and 64-bit overflow in sums and counts.
- When `append` moves a column to a larger array; cells of a wrong Go type in `FromChunk`.
- Wording of errors, option defaults, benchmarks and examples.

## Plan

1. Done: `RunChannels`, `Pool`, `Straight`, `OrderedStream`, `Iterator`,
   `ExecuteStraight`, `ExecutePool`, and the proofs about `Pool`.
2. Done: `IntHashTable` with `GroupMap`, and its proofs.
3. Done: `Agg`, `Aggregators`, `GroupBy`; `ParallelRun`, `ParallelCalls` with `AggCall`.
4. Done: `Batch`, `Wire`, `BatchPath`; `PgScanner`, and `ExecuteVector` over it.
5. Done: `VectorPool`, the pool over batches as objects, and its proofs.
6. Done: proofs about the iterator, the straight path, `ExecutePool`, `ExecuteVector`,
   aggregation, and the fan-out, slots and answer of the `Parallel*` calls.
7. Done: proofs about `BatchPath` and `Wire`.
8. `PgScanner` composed with `Pool`, if an instance small enough to check can be found.
