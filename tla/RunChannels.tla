---------------------------- MODULE RunChannels ----------------------------
(***************************************************************************)
(* What every run of a qpx scheduler shares with its caller: the context   *)
(* the caller owns (parent), the context the run derives from it (runCtx), *)
(* the chunk channel out and the error channel errCh.  The two scheduler   *)
(* paths (Pool, Straight) and the two consumers (a caller that reads the   *)
(* channels itself, below, and Iterator) are built on this module.         *)
(*                                                                         *)
(* A chunk is named by its position in the source, 0 .. NumChunks-1.  A    *)
(* channel is an immutable queue: the sequence of everything sent on it    *)
(* and the number of items received, so properties can speak of history.   *)
(***************************************************************************)
EXTENDS Integers, Sequences

CONSTANTS
  NumChunks,   \* chunks the source yields when no scan error cuts it short
  QueueSize    \* capacity of the out channel (and of jobs and results)

ASSUME RunAssumption == NumChunks \in Nat /\ QueueSize \in Nat \ {0}

VARIABLES
  parentErr,   \* the caller's context is cancelled (parent.Err() != nil)
  runDone,     \* runCtx.Done() is closed
  emitted,     \* chunks sent on out so far, in order
  taken,       \* how many of them have been received
  outClosed,   \* close(out) has happened
  errs,        \* errors accepted by errCh so far
  errsTaken,   \* how many of them have been received
  errClosed    \* close(errCh) has happened

ctxVars  == <<parentErr, runDone>>
outVars  == <<emitted, taken, outClosed>>
errVars  == <<errs, errsTaken, errClosed>>
chanVars == <<ctxVars, outVars, errVars>>

Chunks == 0 .. NumChunks - 1

\* Which part of a run produced an error: scanner.Next, scanner.Close, an
\* operator, or the caller's cancelled context.
Errors == {"scan", "close", "op", "ctx"}

ChanTypeOK ==
  /\ parentErr \in BOOLEAN /\ runDone \in BOOLEAN
  /\ emitted \in Seq(Nat)  /\ taken \in Nat     /\ outClosed \in BOOLEAN
  /\ errs \in Seq(Errors)  /\ errsTaken \in Nat /\ errClosed \in BOOLEAN
  /\ taken <= Len(emitted) /\ Len(emitted) - taken <= QueueSize
  /\ errsTaken <= Len(errs) /\ Len(errs) - errsTaken <= 1

ChanInit ==
  /\ parentErr = FALSE /\ runDone = FALSE
  /\ emitted = << >>   /\ taken = 0     /\ outClosed = FALSE
  /\ errs = << >>      /\ errsTaken = 0 /\ errClosed = FALSE

OutHasRoom == Len(emitted) - taken < QueueSize

\* Mutant of OfferErr: errCh has room for every error.
OfferEveryErr(e) == errs' = Append(errs, e)

\* select { case errCh <- e: default: } on a channel of capacity one.
OfferErr(e) ==
  errs' = IF Len(errs) - errsTaken < 1 THEN Append(errs, e) ELSE errs

-----------------------------------------------------------------------------
(* Contexts.  context.WithCancel sets the parent's error first and then     *)
(* cancels its children, so a goroutine can see parent.Err() before         *)
(* runCtx.Done().                                                           *)

CancelParent ==
  /\ ~parentErr
  /\ parentErr' = TRUE
  /\ UNCHANGED <<runDone, outVars, errVars>>

PropagateCancel ==
  /\ parentErr /\ ~runDone
  /\ runDone' = TRUE
  /\ UNCHANGED <<parentErr, outVars, errVars>>

Contexts == CancelParent \/ PropagateCancel

-----------------------------------------------------------------------------
(* A caller that uses the channels Run returned directly, receiving from    *)
(* both whenever it likes.                                                  *)

RecvChunk ==
  /\ taken < Len(emitted)
  /\ taken' = taken + 1
  /\ UNCHANGED <<ctxVars, emitted, outClosed, errVars>>

RecvErr ==
  /\ errsTaken < Len(errs)
  /\ errsTaken' = errsTaken + 1
  /\ UNCHANGED <<ctxVars, outVars, errs, errClosed>>

Consumer == RecvChunk \/ RecvErr

-----------------------------------------------------------------------------
(* Both channels closed and out drained: the caller has seen the whole run. *)
Drained == outClosed /\ errClosed /\ taken = Len(emitted)
=============================================================================
