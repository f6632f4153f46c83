----------------------------- MODULE VectorPool -----------------------------
(***************************************************************************)
(* vector.Scheduler.Run with operators.  Its goroutines are Pool's, but     *)
(* what they hand on is a pointer to a batch, which the operators change    *)
(* in place and which the caller may do as it likes with once it has        *)
(* received it.  Superposed on Pool is therefore what every batch object    *)
(* holds.                                                                   *)
(***************************************************************************)
EXTENDS PoolInv

VARIABLE heap   \* per batch object: the chunk in it, and how often the
                \* operator chain has been applied to it

vectorVars == <<vars, heap>>

Nobody == NumChunks   \* in place of a chunk: what a caller has made of a batch

\* Mutant of Object: the scanner refills the one batch it has.
OneObject(s) == 0

\* Next allocates a batch for every chunk.
Object(s) == s

VectorInit == Init /\ heap = [o \in Chunks |-> [rows |-> Nobody, ops |-> 0]]

-----------------------------------------------------------------------------
FillBatch ==
  /\ ScanChunk
  /\ heap' = [heap EXCEPT ![Object(seq)] = [rows |-> seq, ops |-> 0]]

\* Process changes the batch it is given.  Where it fails the result carries
\* the error and no batch.
ApplyOps(w) ==
  /\ WorkerRecv(w)
  /\ heap' = [heap EXCEPT ![Object(Head(jobs))] =
                                [rows |-> @.rows, ops |-> @.ops + 1]]

TakeBatch ==
  /\ RecvChunk /\ UNCHANGED poolVars
  /\ heap' = [heap EXCEPT ![Object(emitted[taken + 1])] = [rows |-> Nobody, ops |-> 0]]

-----------------------------------------------------------------------------
VectorReader ==
  \/ FillBatch
  \/ /\ \/ ScanEnd \/ ScanFail \/ SendJob \/ ReaderStopped \/ ReportScanErr
        \/ CancelOnScanErr \/ CloseJobs \/ CloseScanner \/ ReportAndSignal
     /\ UNCHANGED heap

VectorWorker(w) ==
  \/ ApplyOps(w)
  \/ (WorkerStopped(w) \/ WorkerNoJobs(w) \/ WorkerSend(w)) /\ UNCHANGED heap

VectorCloser == CloseResults /\ UNCHANGED heap

VectorReassembler == Reassembler /\ UNCHANGED heap

VectorCaller ==
  \/ TakeBatch
  \/ (Contexts \/ RecvErr) /\ UNCHANGED <<poolVars, heap>>

VectorNext ==
  \/ VectorReader
  \/ \E w \in Workers : VectorWorker(w)
  \/ VectorCloser
  \/ VectorReassembler
  \/ VectorCaller
  \/ Finished /\ UNCHANGED heap

VectorSpec == VectorInit /\ [][VectorNext]_vectorVars

-----------------------------------------------------------------------------
Holds(s, n) == heap[Object(s)] = [rows |-> s, ops |-> n]

\* Batches in flight are never aliased (vector.go:107-113): from the scanner to
\* the caller each holds the rows it was filled with, untouched by the operators
\* until a worker has it and by one pass of them from then on, however fast the
\* caller, who may overwrite what it was given, and the scanner go ahead.
BatchesIntact ==
  /\ rpc = "send" => Holds(seq - 1, 0)
  /\ \A s \in Contents(jobs) : Holds(s, 0)
  /\ \A w \in Workers : wpc[w] = "send" => Holds(wseq[w], 1)
  /\ \A s \in Contents(results) \cup pending : Holds(s, 1)
  /\ apc = "send" => Holds(next - 1, 1)
  /\ \A i \in taken + 1 .. Len(emitted) : Holds(emitted[i], 1)

\* A chunk waits in pending only for one that a worker has taken before it, and
\* that is in this worker's hands or on its way: never for one still in jobs, so
\* what pending costs is the time of one batch, though its size has no bound.
PendingWaitsForNext ==
  apc = "select" /\ ~runDone /\ pending # {} =>
    \/ \E w \in Workers : wpc[w] = "send" /\ wseq[w] = next
    \/ next \in Contents(results)
-----------------------------------------------------------------------------
\* The reader has queued, or is rid of, the chunks below this one.
Queued == IF rpc = "send" THEN seq - 1 ELSE seq

\* What the workers have taken and the reassembler has not taken out again.
InHands == {wseq[w] : w \in {v \in Workers : wpc[v] = "send"}}
Ahead   == InHands \cup Contents(results) \cup pending

\* No two hold a batch: a chunk is in one goroutine's hands, or in one channel
\* once, or in pending, and reassemble.go:37 deletes what it passes on.  The
\* chunks advance in source order as far as the job queue, so what the workers
\* have taken lies between the next chunk to emit and the next job.
OneHolder ==
  /\ \A i, j \in 1 .. Len(jobs) : i < j => jobs[i] < jobs[j]
  /\ next <= Queued
  /\ \A s \in Contents(jobs) : next <= s /\ s < Queued
  /\ \A s \in Ahead :
       next <= s /\ s < Queued /\ \A j \in Contents(jobs) : s < j
  /\ \A v, w \in Workers :
       wpc[v] = "send" /\ wpc[w] = "send" /\ wseq[v] = wseq[w] => v = w
  /\ \A i, j \in 1 .. Len(results) : results[i] = results[j] => i = j
  /\ InHands \cap Contents(results) = {}
  /\ InHands \cap pending = {}
  /\ Contents(results) \cap pending = {}

\* While the reassembler has not turned to the teardown and nothing stopped
\* the run, no scanned chunk is dropped, and it is back in its main loop only
\* when the next chunk is not there.
InTurn ==
  ~runDone /\ apc \in {"select", "emit", "send"} =>
    /\ apc = "select" => next \notin pending
    /\ \A s \in Chunks : s < seq => s < next \/ InFlight(s)

HeapTypeOK == heap \in [Chunks -> [rows : 0 .. NumChunks, ops : Nat]]

\* With IInv, the inductive invariant behind BatchesIntact and
\* PendingWaitsForNext.
VInv == HeapTypeOK /\ OneHolder /\ InTurn /\ BatchesIntact
=============================================================================
