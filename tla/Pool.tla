-------------------------------- MODULE Pool --------------------------------
(***************************************************************************)
(* Scheduler.Run with operators: a reader numbers the source's chunks and   *)
(* queues them as jobs, Workers apply the operator chain and queue the      *)
(* results, a closer closes the result queue once every worker has left,    *)
(* and the reassembler puts the results back in source order and owns the   *)
(* teardown.  Each goroutine is a program counter; a step ends where the    *)
(* code blocks or where another goroutine could observe the difference.     *)
(***************************************************************************)
EXTENDS RunChannels, FiniteSets

CONSTANT Workers   \* the worker goroutines

ASSUME PoolAssumption == IsFiniteSet(Workers) /\ Workers # {}

VARIABLES
  opFails,                       \* chunks the operator chain rejects
  rpc, seq,                      \* reader: where it is, next sequence number
  scanFailed, closeFailed,       \* scanner.Err() / scanner.Close() was an error
  jobs, jobsClosed,              \* chan seqChunk
  wpc, wseq,                     \* workers: where each is, the job it holds
  results, resultsClosed,        \* chan seqResult (an error iff in opFails)
  apc, pending, next, drained    \* reassembler; drained: results closed and empty

readerVars == <<rpc, seq, scanFailed, closeFailed>>
jobVars    == <<jobs, jobsClosed>>
workerVars == <<wpc, wseq>>
resultVars == <<results, resultsClosed>>
asmVars    == <<apc, pending, next, drained>>
poolVars   == <<opFails, readerVars, jobVars, workerVars, resultVars, asmVars>>
vars       == <<chanVars, poolVars>>

ReaderPcs == {"next", "send", "scanErr", "cancel", "closeJobs", "close",
              "closeErr", "signal", "done"}
AsmPcs    == {"select", "emit", "send",
              "cancel", "wait", "parent", "closeOut", "closeErr", "done"}

TypeOK ==
  /\ ChanTypeOK
  /\ opFails \subseteq Chunks
  /\ rpc \in ReaderPcs /\ seq \in 0 .. NumChunks
  /\ scanFailed \in BOOLEAN /\ closeFailed \in BOOLEAN
  /\ jobs \in Seq(Chunks) /\ Len(jobs) <= QueueSize /\ jobsClosed \in BOOLEAN
  /\ wpc \in [Workers -> {"recv", "send", "exit"}]
  /\ wseq \in [Workers -> Nat]
  /\ results \in Seq(Chunks) /\ Len(results) <= QueueSize
  /\ resultsClosed \in BOOLEAN
  /\ apc \in AsmPcs /\ pending \subseteq Chunks
  /\ next \in 0 .. NumChunks /\ drained \in BOOLEAN

Init ==
  /\ ChanInit
  /\ opFails \in SUBSET Chunks
  /\ rpc = "next" /\ seq = 0 /\ scanFailed = FALSE /\ closeFailed = FALSE
  /\ jobs = << >> /\ jobsClosed = FALSE
  /\ wpc = [w \in Workers |-> "recv"] /\ wseq = [w \in Workers |-> 0]
  /\ results = << >> /\ resultsClosed = FALSE
  /\ apc = "select" /\ pending = {} /\ next = 0 /\ drained = FALSE

\* Mutant of SendErr: the latest error replaces the one in errCh.
SendLatestErr(e) ==
  /\ errs' = IF errClosed THEN errs ELSE <<e>>
  /\ UNCHANGED <<errsTaken, errClosed>>

\* sendErr: under errMu, a no-op once errCh is closed.
SendErr(e) ==
  /\ IF errClosed THEN errs' = errs ELSE OfferErr(e)
  /\ UNCHANGED <<errsTaken, errClosed>>

\* cancel() from inside the run; the caller's context is untouched.
CancelRun == runDone' = TRUE /\ UNCHANGED parentErr

-----------------------------------------------------------------------------
(* The reader.  scanner.Next may fail on any call; a source that does not    *)
(* fail yields exactly NumChunks chunks.                                     *)

ScanChunk ==
  /\ rpc = "next" /\ seq < NumChunks
  /\ rpc' = "send" /\ seq' = seq + 1
  /\ UNCHANGED <<chanVars, opFails, scanFailed, closeFailed, jobVars,
                 workerVars, resultVars, asmVars>>

ScanEnd ==
  /\ rpc = "next" /\ seq = NumChunks
  /\ rpc' = "closeJobs"
  /\ UNCHANGED <<chanVars, opFails, seq, scanFailed, closeFailed, jobVars,
                 workerVars, resultVars, asmVars>>

ScanFail ==
  /\ rpc = "next"
  /\ rpc' = "scanErr" /\ scanFailed' = TRUE
  /\ UNCHANGED <<chanVars, opFails, seq, closeFailed, jobVars,
                 workerVars, resultVars, asmVars>>

SendJob ==
  /\ rpc = "send" /\ Len(jobs) < QueueSize
  /\ jobs' = Append(jobs, seq - 1)
  /\ rpc' = "next"
  /\ UNCHANGED <<chanVars, opFails, seq, scanFailed, closeFailed, jobsClosed,
                 workerVars, resultVars, asmVars>>

ReaderStopped ==
  /\ rpc = "send" /\ runDone
  /\ rpc' = "closeJobs"
  /\ UNCHANGED <<chanVars, opFails, seq, scanFailed, closeFailed, jobVars,
                 workerVars, resultVars, asmVars>>

ReportScanErr ==
  /\ rpc = "scanErr"
  /\ SendErr("scan")
  /\ rpc' = "cancel"
  /\ UNCHANGED <<ctxVars, outVars, opFails, seq, scanFailed, closeFailed,
                 jobVars, workerVars, resultVars, asmVars>>

\* Mutant of CancelOnScanErr: the reader leaves without cancelling the run.
ScanErrWithoutCancel ==
  /\ rpc = "cancel"
  /\ rpc' = "closeJobs"
  /\ UNCHANGED <<chanVars, opFails, seq, scanFailed, closeFailed, jobVars,
                 workerVars, resultVars, asmVars>>

CancelOnScanErr ==
  /\ rpc = "cancel"
  /\ CancelRun
  /\ rpc' = "closeJobs"
  /\ UNCHANGED <<outVars, errVars, opFails, seq, scanFailed, closeFailed,
                 jobVars, workerVars, resultVars, asmVars>>

\* Mutant of CloseJobs: jobs is never closed.
CloseJobsForgotten ==
  /\ rpc = "closeJobs"
  /\ rpc' = "close"
  /\ UNCHANGED <<chanVars, opFails, seq, scanFailed, closeFailed, jobVars,
                 workerVars, resultVars, asmVars>>

\* Mutant of CloseJobs: jobs is closed only after scanner.Close has returned.
CloseJobsLast ==
  /\ \/ rpc = "closeJobs" /\ rpc' = "close" /\ UNCHANGED jobsClosed
     \/ rpc \in {"signal", "done"} /\ ~jobsClosed /\ jobsClosed' = TRUE /\ UNCHANGED rpc
  /\ UNCHANGED <<chanVars, opFails, seq, scanFailed, closeFailed, jobs,
                 workerVars, resultVars, asmVars>>

CloseJobs ==
  /\ rpc = "closeJobs"
  /\ jobsClosed' = TRUE
  /\ rpc' = "close"
  /\ UNCHANGED <<chanVars, opFails, seq, scanFailed, closeFailed, jobs,
                 workerVars, resultVars, asmVars>>

CloseScanner ==
  /\ rpc = "close"
  /\ \E failed \in BOOLEAN :
       /\ closeFailed' = failed
       /\ rpc' = IF failed THEN "closeErr" ELSE "signal"
  /\ UNCHANGED <<chanVars, opFails, seq, scanFailed, jobVars,
                 workerVars, resultVars, asmVars>>

ReportCloseErr ==
  /\ rpc = "closeErr"
  /\ SendErr("close")
  /\ rpc' = "signal"
  /\ UNCHANGED <<ctxVars, outVars, opFails, seq, scanFailed, closeFailed,
                 jobVars, workerVars, resultVars, asmVars>>

\* Mutant of SignalReaderDone: readerDone is never closed.
ReaderNeverSignals == FALSE

\* close(readerDone): the deferred call that runs last.
SignalReaderDone ==
  /\ rpc = "signal"
  /\ rpc' = "done"
  /\ UNCHANGED <<chanVars, opFails, seq, scanFailed, closeFailed, jobVars,
                 workerVars, resultVars, asmVars>>

ReadSource == ScanChunk \/ ScanEnd \/ ScanFail \/ SendJob \/ ReaderStopped
                \/ ReportScanErr \/ CancelOnScanErr \/ CloseJobs
ReportAndSignal == ReportCloseErr \/ SignalReaderDone
Reader == ReadSource \/ CloseScanner \/ ReportAndSignal

-----------------------------------------------------------------------------
(* A worker.  Where a select has several ready cases Go picks any of them,   *)
(* so leaving on runCtx.Done() and going on are separate actions.            *)

WorkerLeave(w) ==
  /\ wpc' = [wpc EXCEPT ![w] = "exit"]
  /\ wseq' = [wseq EXCEPT ![w] = 0]
  /\ UNCHANGED <<chanVars, opFails, readerVars, jobVars, resultVars, asmVars>>

WorkerStopped(w) == wpc[w] \in {"recv", "send"} /\ runDone /\ WorkerLeave(w)

WorkerNoJobs(w) ==
  wpc[w] = "recv" /\ jobs = << >> /\ jobsClosed /\ WorkerLeave(w)

WorkerRecv(w) ==
  /\ wpc[w] = "recv" /\ jobs # << >>
  /\ jobs' = Tail(jobs)
  /\ wpc' = [wpc EXCEPT ![w] = "send"]
  /\ wseq' = [wseq EXCEPT ![w] = Head(jobs)]
  /\ UNCHANGED <<chanVars, opFails, readerVars, jobsClosed, resultVars, asmVars>>

WorkerSend(w) ==
  /\ wpc[w] = "send" /\ Len(results) < QueueSize
  /\ results' = Append(results, wseq[w])
  /\ wpc' = [wpc EXCEPT ![w] = "recv"]
  /\ wseq' = [wseq EXCEPT ![w] = 0]
  /\ UNCHANGED <<chanVars, opFails, readerVars, jobVars, resultsClosed, asmVars>>

Worker(w) ==
  WorkerStopped(w) \/ WorkerNoJobs(w) \/ WorkerRecv(w) \/ WorkerSend(w)

\* Mutant of CloseResults: it waits for one worker, not for all of them.
CloseResultsEarly ==
  /\ \E w \in Workers : wpc[w] = "exit"
  /\ ~resultsClosed
  /\ resultsClosed' = TRUE
  /\ UNCHANGED <<chanVars, opFails, readerVars, jobVars, workerVars, results,
                 asmVars>>

\* The closer: wg.Wait(), then close(results).
CloseResults ==
  /\ \A w \in Workers : wpc[w] = "exit"
  /\ ~resultsClosed
  /\ resultsClosed' = TRUE
  /\ UNCHANGED <<chanVars, opFails, readerVars, jobVars, workerVars, results,
                 asmVars>>

-----------------------------------------------------------------------------
(* The reassembler: the main loop ("select"), the emit closure ("emit",      *)
(* "send") and the deferred teardown ("cancel" .. "closeErr").               *)

AsmFrame == UNCHANGED <<opFails, readerVars, jobVars, workerVars>>

AsmStopped ==
  /\ apc = "select" /\ runDone
  /\ apc' = "cancel"
  /\ UNCHANGED <<chanVars, pending, next, drained, resultVars>> /\ AsmFrame

AsmResult ==
  /\ apc = "select" /\ results # << >> /\ Head(results) \notin opFails
  /\ results' = Tail(results)
  /\ pending' = pending \cup {Head(results)}
  /\ apc' = "emit"
  /\ UNCHANGED <<chanVars, next, drained, resultsClosed>> /\ AsmFrame

\* Mutant of AsmOpError: the reassembler returns without reporting the error.
AsmOpErrorSilent ==
  /\ apc = "select" /\ results # << >> /\ Head(results) \in opFails
  /\ results' = Tail(results)
  /\ apc' = "cancel"
  /\ UNCHANGED <<chanVars, pending, next, drained, resultsClosed>>
  /\ AsmFrame

AsmOpError ==
  /\ apc = "select" /\ results # << >> /\ Head(results) \in opFails
  /\ results' = Tail(results)
  /\ SendErr("op")
  /\ apc' = "cancel"
  /\ UNCHANGED <<ctxVars, outVars, pending, next, drained, resultsClosed>>
  /\ AsmFrame

AsmResultsEnd ==
  /\ apc = "select" /\ results = << >> /\ resultsClosed
  /\ drained' = TRUE
  /\ apc' = "emit"
  /\ UNCHANGED <<chanVars, pending, next, resultVars>> /\ AsmFrame

\* Where emit returns to: the main loop, or its caller's return.
AfterEmit == IF drained THEN "cancel" ELSE "select"

\* Mutant of EmitTake: the chunk passed on is not deleted from pending.
EmitTakeKeeps ==
  /\ apc = "emit" /\ next \in pending
  /\ next' = next + 1
  /\ apc' = "send"
  /\ UNCHANGED <<chanVars, pending, drained, resultVars>> /\ AsmFrame

EmitTake ==
  /\ apc = "emit" /\ next \in pending
  /\ pending' = pending \ {next}
  /\ next' = next + 1
  /\ apc' = "send"
  /\ UNCHANGED <<chanVars, drained, resultVars>> /\ AsmFrame

EmitMissing ==
  /\ apc = "emit" /\ next \notin pending
  /\ apc' = AfterEmit
  /\ UNCHANGED <<chanVars, pending, next, drained, resultVars>> /\ AsmFrame

\* Mutant of EmitSend: one chunk for every result.
EmitSendOne ==
  /\ apc = "send" /\ OutHasRoom
  /\ emitted' = Append(emitted, next - 1)
  /\ apc' = AfterEmit
  /\ UNCHANGED <<ctxVars, taken, outClosed, errVars, pending, next, drained,
                 resultVars>>
  /\ AsmFrame

EmitSend ==
  /\ apc = "send" /\ OutHasRoom
  /\ emitted' = Append(emitted, next - 1)
  /\ apc' = "emit"
  /\ UNCHANGED <<ctxVars, taken, outClosed, errVars, pending, next, drained,
                 resultVars>>
  /\ AsmFrame

\* Mutant of EmitStopped: the send on out ignores runCtx.
EmitNeverStops == FALSE

\* The chunk in hand is dropped, but the main loop may well take another
\* result before it notices runCtx.Done() itself.
EmitStopped ==
  /\ apc = "send" /\ runDone
  /\ apc' = AfterEmit
  /\ UNCHANGED <<chanVars, pending, next, drained, resultVars>> /\ AsmFrame

\* Mutant of TeardownCancel: out is closed before the reader is done.
TeardownClosesOutFirst ==
  /\ apc = "cancel"
  /\ CancelRun
  /\ outClosed' = TRUE
  /\ apc' = "wait"
  /\ UNCHANGED <<emitted, taken, errVars, pending, next, drained, resultVars>>
  /\ AsmFrame

TeardownCancel ==
  /\ apc = "cancel"
  /\ CancelRun
  /\ apc' = "wait"
  /\ UNCHANGED <<outVars, errVars, pending, next, drained, resultVars>>
  /\ AsmFrame

\* Mutant of TeardownWait: the teardown does not wait for readerDone.
TeardownDoesNotWait ==
  /\ apc = "wait"
  /\ apc' = "parent"
  /\ UNCHANGED <<chanVars, pending, next, drained, resultVars>> /\ AsmFrame

TeardownWait ==
  /\ apc = "wait" /\ rpc = "done"
  /\ apc' = "parent"
  /\ UNCHANGED <<chanVars, pending, next, drained, resultVars>> /\ AsmFrame

\* Mutant of TeardownParent: a cancellation is not recorded.
TeardownIgnoresParent ==
  /\ apc = "parent"
  /\ apc' = "closeOut"
  /\ UNCHANGED <<chanVars, pending, next, drained, resultVars>>
  /\ AsmFrame

TeardownParent ==
  /\ apc = "parent"
  /\ IF parentErr THEN SendErr("ctx") ELSE UNCHANGED errVars
  /\ apc' = "closeOut"
  /\ UNCHANGED <<ctxVars, outVars, pending, next, drained, resultVars>>
  /\ AsmFrame

TeardownCloseOut ==
  /\ apc = "closeOut"
  /\ outClosed' = TRUE
  /\ apc' = "closeErr"
  /\ UNCHANGED <<ctxVars, emitted, taken, errVars, pending, next, drained,
                 resultVars>>
  /\ AsmFrame

TeardownCloseErr ==
  /\ apc = "closeErr"
  /\ errClosed' = TRUE
  /\ apc' = "done"
  /\ UNCHANGED <<ctxVars, outVars, errs, errsTaken, pending, next, drained,
                 resultVars>>
  /\ AsmFrame

Assemble == AsmStopped \/ AsmResult \/ AsmOpError \/ AsmResultsEnd
Emit     == EmitTake \/ EmitMissing \/ EmitSend \/ EmitStopped
Teardown == TeardownCancel \/ TeardownWait \/ TeardownParent
              \/ TeardownCloseOut \/ TeardownCloseErr
Reassembler == Assemble \/ Emit \/ Teardown

-----------------------------------------------------------------------------
Engine == Reader \/ (\E w \in Workers : Worker(w)) \/ CloseResults \/ Reassembler

\* Every goroutine of the run has returned.
Released ==
  /\ rpc = "done" /\ apc = "done" /\ resultsClosed
  /\ \A w \in Workers : wpc[w] = "exit"

Finished == Released /\ UNCHANGED vars

Next ==
  \/ Engine
  \/ (Contexts \/ Consumer) /\ UNCHANGED poolVars
  \/ Finished

Spec == Init /\ [][Next]_vars

(* Fairness: the Go scheduler runs every goroutine that can run, and a       *)
(* context that is cancelled cancels its children.  Of a select's ready      *)
(* cases none is promised, so each goroutine is fair as a whole.  The source *)
(* answers every Next.  That it answers Close (SourceCloses) and that the    *)
(* caller receives (Draining) are assumed only where a property says so.     *)
Fairness ==
  /\ WF_vars(ReadSource) /\ WF_vars(ReportAndSignal)
  /\ \A w \in Workers : WF_vars(Worker(w))
  /\ WF_vars(CloseResults) /\ WF_vars(Reassembler)
  /\ WF_vars(PropagateCancel /\ UNCHANGED poolVars)

SourceCloses == WF_vars(CloseScanner)
Draining     == WF_vars(RecvChunk /\ UNCHANGED poolVars)

FairSpec == Spec /\ Fairness

-----------------------------------------------------------------------------
(* Properties.                                                               *)

\* No goroutine stands at a send on, or a close of, a channel that is already
\* closed (a panic in Go), and errCh stays open until the reader can report
\* nothing more, so a close error is never lost to an early close
\* (scheduler.go:69-74).
NoSendOnClosed ==
  /\ jobsClosed => rpc \notin {"next", "send", "closeJobs"}
  /\ resultsClosed => \A w \in Workers : wpc[w] = "exit"
  /\ outClosed => apc \in {"closeErr", "done"}
  /\ errClosed => apc = "done" /\ rpc = "done"

\* Whatever order the workers finish in, chunks come out in source order and
\* none twice (reassemble.go's pending map and next).
OutputInOrder ==
  \A i, j \in 1 .. Len(emitted) : i < j => emitted[i] < emitted[j]

\* As long as nothing stopped the run, what came out is a prefix of the
\* source without holes.  (Once runCtx is done, emit may drop a chunk and the
\* main loop still emit a later one.)
ContiguousUntilStop ==
  ~runDone => \A i \in 1 .. Len(emitted) : emitted[i] = i - 1

\* A stream that ends without an error is the whole source: every chunk came
\* out, no operator rejected one, and neither the scan nor the close failed,
\* whichever of them raced the teardown (scheduler.go:63-79).
CleanEOFIsComplete ==
  outClosed /\ errs = << >> =>
    /\ Len(emitted) = NumChunks
    /\ opFails = {} /\ ~scanFailed /\ ~closeFailed

\* A source whose scan fails and whose close fails too reports the scan
\* error, never the close error in its place (gaps_test.go:235).
ScanErrorBeatsCloseError ==
  scanFailed /\ errs # << >> => errs[1] # "close"

\* The run behaves as the abstract stream, which may skip chunks only after
\* it was stopped.
Stream == INSTANCE OrderedStream WITH
  GapsAfterStop <- TRUE,
  phase <- IF outClosed THEN (IF errs = << >> THEN "clean" ELSE "failed")
           ELSE IF runDone THEN "stopping" ELSE "open"
RefinesStream == Stream!Spec

\* A caller that drains the chunk channel sees the run end and every
\* goroutine return, whatever failed (scheduler.go:65-67).
DrainReleases == SourceCloses /\ Draining => <>Released

\* So does a caller that cancels instead, without receiving anything.
CancelReleases == SourceCloses => (parentErr ~> Released)

\* A failing scan releases every goroutine by itself, with nobody receiving.
ScanErrorReleases == SourceCloses => (scanFailed ~> Released)

\* A scanner.Close that never returns wedges no worker, and the chunks
\* already scanned still come out (scheduler.go:205-208).
HungCloseWedgesNoWorker ==
  Draining =>
    /\ <>(\A w \in Workers : wpc[w] = "exit")
    /\ <>(runDone \/ errs # << >> \/ Len(emitted) = NumChunks)

\* When the caller has cancelled a run that had reported nothing and not yet
\* delivered everything, a close error does not take the place of the wrapped
\* ctx.Err() (scheduler.go:76-79).
CancellationSurfaces ==
  [][parentErr /\ errs = << >> /\ Len(emitted) < NumChunks =>
       errs' # <<"close">>]_vars
=============================================================================
