--------------------------- MODULE ExecuteVector ---------------------------
(***************************************************************************)
(* qpx.ExecuteVector on a PostgreSQL source without operators: OpenBatch,  *)
(* runStraight pulling batches out of the scanner, and an Iterator, the    *)
(* three of them held together by one chain of contexts.  A query may be   *)
(* rejected, the server may fail or fall silent, and the caller may cancel *)
(* or close, at any point.                                                 *)
(***************************************************************************)
EXTENDS Straight, Iterator

CONSTANTS
  NULL,
  MaxRows,     \* bound: rows in the result
  Size         \* rows per batch

VARIABLES
  total, rejects, silent, conn, rows, rowsErr, served, packing, delivered, scanErr,
  spc          \* where the scanner is; pc is runStraight's

scannerVars == <<total, rejects, silent, conn, rows, rowsErr, served, packing, delivered,
                 scanErr, spc>>

vars == <<straightVars, iteratorVars, scannerVars>>

\* The context OpenBatch is given is runCtx.
Pg == INSTANCE PgScanner WITH ctx <- runDone, pc <- spc

ASSUME VectorAssumption ==
  /\ MaxRows \in Nat
  /\ Size \in Nat \ {0}
  /\ NumChunks * Size >= MaxRows

Init == StraightInit /\ IteratorInit /\ Pg!ScannerInit

-----------------------------------------------------------------------------
(* Run and ExecuteVector, before there is anything to iterate over. *)

OpenBatch == Pg!Open /\ UNCHANGED <<straightVars, iteratorVars>>

\* Run ends the context it made, ExecuteVector its own; no goroutine was
\* started and no Iterator is returned.
ReturnOpenError ==
  /\ spc = "openFailed"
  /\ ~parentErr \/ ~runDone
  /\ parentErr' = TRUE
  /\ runDone' = TRUE
  /\ UNCHANGED <<outVars, errVars, streamerVars, iteratorVars, scannerVars>>

-----------------------------------------------------------------------------
(* runStraight. *)

ScannerNext == pc = "next" /\ Pg!Fetch /\ UNCHANGED <<straightVars, iteratorVars>>

NextIsBatch == ScanChunk /\ Pg!HandOut /\ UNCHANGED iteratorVars

\* scanner.Err() is nil.
NextIsEnd ==
  /\ pc = "next"
  /\ Pg!EndOfRows
  /\ pc' = "close"
  /\ UNCHANGED <<chanVars, chunk, scanFailed, closeFailed, iteratorVars>>

NextFails ==
  /\ ScanFail
  /\ Pg!DecodeFails \/ Pg!ReportRowsErr
  /\ UNCHANGED iteratorVars

\* What runStraight does without the scanner: the send on out, the errors, the
\* contexts and the channels it closes.
Passing ==
  /\ SendChunk \/ Stopped \/ ReportScanErr \/ CancelRun \/ ReportCloseErr \/ ReportParentErr
       \/ CloseOut \/ CloseErrCh
  /\ UNCHANGED <<iteratorVars, scannerVars>>

CloseBegins ==
  /\ pc = "close"
  /\ Pg!CloseCall \/ Pg!CloseRows
  /\ UNCHANGED <<straightVars, iteratorVars>>

CloseEnds == CloseScanner /\ Pg!CloseConn /\ UNCHANGED iteratorVars

Streamer ==
  /\ Pg!Opened
  /\ \/ ScannerNext \/ NextIsBatch \/ NextIsEnd \/ NextFails
     \/ Passing \/ CloseBegins \/ CloseEnds

-----------------------------------------------------------------------------
\* The Iterator exists once ExecuteVector has returned.
IteratorCalls == Pg!Opened /\ Calls /\ UNCHANGED <<streamerVars, scannerVars>>

Cancellation == Contexts /\ UNCHANGED <<streamerVars, iteratorVars, scannerVars>>

ServerFallsSilent == Pg!FallSilent /\ UNCHANGED <<chanVars, streamerVars, iteratorVars>>

Next ==
  \/ OpenBatch \/ ReturnOpenError
  \/ Streamer
  \/ IteratorCalls
  \/ Cancellation
  \/ ServerFallsSilent

Spec == Init /\ [][Next]_vars

\* Goroutines run while they can; a server that is not silent answers; calls
\* that were made go on.
FairSpec ==
  /\ Spec
  /\ WF_vars(OpenBatch \/ ReturnOpenError)
  /\ WF_vars(Streamer)
  /\ WF_vars(PropagateCancel /\ UNCHANGED <<streamerVars, iteratorVars, scannerVars>>)
  /\ \A c \in Callers : WF_vars(CallProgress(c) /\ UNCHANGED <<streamerVars, scannerVars>>)

-----------------------------------------------------------------------------
(* Properties. *)

Ended == pc = "done" \/ spc = "openFailed"

\* Whatever fails, and wherever, the connection is closed when the run is over,
\* and when there was no run.
ConnReleased == Ended => conn # "open"

\* The batches the caller has received, in order.
Received == [k \in 1 .. taken |-> delivered[emitted[k] + 1]]

\* The batches the caller gets are the rows in order, none left out, none empty,
\* and each full but the last of a result that came to its end: a batch cut
\* short by an error is never handed out.
ChunksAreTheRows ==
  \A k \in 1 .. taken :
    /\ Len(Received[k]) \in 1 .. Size
    /\ \A i \in 1 .. Len(Received[k]) : Received[k][i] = (k - 1) * Size + i
    /\ Len(Received[k]) < Size =>
         k = taken /\ (k - 1) * Size + Len(Received[k]) = total /\ ~rowsErr

\* How many rows they are, all but the last being full.
RowsReceived == IF taken = 0 THEN 0 ELSE (taken - 1) * Size + Len(Received[taken])

\* A clean end of the stream means that every row of the result was received,
\* whatever happened to the server, unless somebody closed the iterator.
CleanNextIsEveryRow ==
  \A r \in Readers : ret[r] = "nil" /\ ~cancelOnce => RowsReceived = total

\* A cancelled or closed run gets its source closed and unblocks whoever waits
\* in Next, though the server be silent and nobody receives.  OpenBatch while
\* it rejects a column is the exception, see TeardownBounded.
CancelEnds ==
  /\ (parentErr /\ ~rejects) ~> Ended
  /\ \A r \in Readers : (parentErr /\ cpc[r] = "select") ~> cpc[r] = "idle"

\* Close comes back though the server be silent: a scan that fails while rows
\* are still to come has ended the context that rows.Close waits under.
CloseReturns == (spc \in {"queryFailed", "closeRows", "closeConn"}) ~> Ended

\* The comment of closeTimeout (source.go): it "bounds connection teardown so a
\* hung close cannot block a Scheduler run forever".
TeardownBounded ==
  (spc \in {"queryFailed", "rejectConn", "rejectRows", "closeRows", "closeConn"}) ~> Ended
=============================================================================
