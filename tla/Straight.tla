------------------------------ MODULE Straight ------------------------------
(***************************************************************************)
(* Scheduler.Run without operators: one goroutine, runStraight, moves       *)
(* chunks from the scanner to out and owns both channels.                   *)
(***************************************************************************)
EXTENDS RunChannels

VARIABLES
  pc,            \* "next" .. "scanErr", then the deferred teardown
  chunk,         \* chunks scanned so far; the one at "send" is chunk - 1
  scanFailed, closeFailed   \* scanner.Err() / scanner.Close() was an error

streamerVars == <<pc, chunk, scanFailed, closeFailed>>
straightVars == <<chanVars, streamerVars>>

StraightPcs == {"next", "send", "scanErr", "scanCancel", "close", "closeErr",
                "parent", "cancel", "closeOut", "closeErrCh", "done"}

StraightTypeOK ==
  /\ ChanTypeOK
  /\ pc \in StraightPcs /\ chunk \in 0 .. NumChunks
  /\ scanFailed \in BOOLEAN /\ closeFailed \in BOOLEAN

StraightInit ==
  /\ ChanInit
  /\ pc = "next" /\ chunk = 0 /\ scanFailed = FALSE /\ closeFailed = FALSE

\* select { case errCh <- e: default: }; errCh is never closed before this.
TrySendErr(e) == OfferErr(e) /\ UNCHANGED <<errsTaken, errClosed>>

-----------------------------------------------------------------------------
ScanChunk ==
  /\ pc = "next" /\ chunk < NumChunks
  /\ pc' = "send" /\ chunk' = chunk + 1
  /\ UNCHANGED <<chanVars, scanFailed, closeFailed>>

ScanEnd ==
  /\ pc = "next" /\ chunk = NumChunks
  /\ pc' = "close"
  /\ UNCHANGED <<chanVars, chunk, scanFailed, closeFailed>>

ScanFail ==
  /\ pc = "next"
  /\ pc' = "scanErr" /\ scanFailed' = TRUE
  /\ UNCHANGED <<chanVars, chunk, closeFailed>>

SendChunk ==
  /\ pc = "send" /\ OutHasRoom
  /\ emitted' = Append(emitted, chunk - 1)
  /\ pc' = "next"
  /\ UNCHANGED <<ctxVars, taken, outClosed, errVars, chunk, scanFailed, closeFailed>>

\* Mutant of Stopped: break, which only leaves the select, instead of return.
StoppedBreaks ==
  /\ pc = "send" /\ runDone
  /\ pc' = "next"
  /\ UNCHANGED <<chanVars, chunk, scanFailed, closeFailed>>

Stopped ==
  /\ pc = "send" /\ runDone
  /\ pc' = "close"
  /\ UNCHANGED <<chanVars, chunk, scanFailed, closeFailed>>

\* Mutant of ReportScanErr: the run is cancelled in the deferred teardown only.
ReportScanErrOnly ==
  /\ pc = "scanErr"
  /\ TrySendErr("scan")
  /\ pc' = "close"
  /\ UNCHANGED <<ctxVars, outVars, chunk, scanFailed, closeFailed>>

ReportScanErr ==
  /\ pc = "scanErr"
  /\ TrySendErr("scan")
  /\ pc' = "scanCancel"
  /\ UNCHANGED <<ctxVars, outVars, chunk, scanFailed, closeFailed>>

\* cancel() runs twice: after a scan error, and in the deferred teardown.
CancelRun ==
  /\ pc \in {"scanCancel", "cancel"}
  /\ runDone' = TRUE
  /\ pc' = IF pc = "cancel" THEN "closeOut" ELSE "close"
  /\ UNCHANGED <<parentErr, outVars, errVars, chunk, scanFailed, closeFailed>>

CloseScanner ==
  /\ pc = "close"
  /\ \E failed \in BOOLEAN :
       /\ closeFailed' = failed
       /\ pc' = IF failed THEN "closeErr" ELSE "parent"
  /\ UNCHANGED <<chanVars, chunk, scanFailed>>

ReportCloseErr ==
  /\ pc = "closeErr"
  /\ TrySendErr("close")
  /\ pc' = "parent"
  /\ UNCHANGED <<ctxVars, outVars, chunk, scanFailed, closeFailed>>

ReportParentErr ==
  /\ pc = "parent"
  /\ IF parentErr THEN TrySendErr("ctx") ELSE UNCHANGED errVars
  /\ pc' = "cancel"
  /\ UNCHANGED <<ctxVars, outVars, chunk, scanFailed, closeFailed>>

\* Mutant of CloseOut: out is never closed.
CloseOutForgotten ==
  /\ pc = "closeOut"
  /\ pc' = "closeErrCh"
  /\ UNCHANGED <<chanVars, chunk, scanFailed, closeFailed>>

CloseOut ==
  /\ pc = "closeOut"
  /\ outClosed' = TRUE
  /\ pc' = "closeErrCh"
  /\ UNCHANGED <<ctxVars, emitted, taken, errVars, chunk, scanFailed, closeFailed>>

CloseErrCh ==
  /\ pc = "closeErrCh"
  /\ errClosed' = TRUE
  /\ pc' = "done"
  /\ UNCHANGED <<ctxVars, outVars, errs, errsTaken, chunk, scanFailed, closeFailed>>

RunStraight ==
  \/ ScanChunk \/ ScanEnd \/ ScanFail
  \/ SendChunk \/ Stopped
  \/ ReportScanErr \/ CancelRun
  \/ CloseScanner \/ ReportCloseErr \/ ReportParentErr
  \/ CloseOut \/ CloseErrCh

-----------------------------------------------------------------------------
\* Without the pool not even a stopping run skips a chunk: the straight path
\* implements the abstract stream that allows no gaps.
Stream == INSTANCE OrderedStream WITH
  GapsAfterStop <- FALSE,
  phase <- IF outClosed THEN (IF errs = << >> THEN "clean" ELSE "failed")
           ELSE IF runDone THEN "stopping" ELSE "open"
StraightRefinesStream == Stream!Spec
=============================================================================
