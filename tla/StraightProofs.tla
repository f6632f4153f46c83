--------------------------- MODULE StraightProofs ---------------------------
(***************************************************************************)
(* Proofs about runStraight and the two calls over it, for any number of    *)
(* chunks and closers and any queue size.  qpx.Execute without operators    *)
(* first; the lemmas on the goroutine leave open where its source ends, so  *)
(* they serve every source.  Then qpx.ExecuteVector over a PostgreSQL       *)
(* source, for results and batches of any size: the connection is released, *)
(* the batches are the rows in order, and a clean end is the whole result.  *)
(***************************************************************************)
EXTENDS ExecuteStraight, ExecuteVectorInv, IteratorProofs

-----------------------------------------------------------------------------
(* The goroutine.                                                           *)

\* What trySendErr does to the error channel.
LEMMA TrySendErrEffect ==
  ASSUME ChanTypeOK, NEW e \in Errors, TrySendErr(e)
  PROVE  /\ errs' \in Seq(Errors) /\ errsTaken' = errsTaken /\ errClosed' = errClosed
         /\ errsTaken' <= Len(errs') /\ Len(errs') - errsTaken' <= 1
         /\ errs' # << >>
<1>1. errs \in Seq(Errors) /\ errsTaken \in Nat /\ Len(errs) \in Nat
      /\ errsTaken <= Len(errs) /\ Len(errs) - errsTaken <= 1
  BY DEF ChanTypeOK
<1>2. errsTaken' = errsTaken /\ errClosed' = errClosed
  BY DEF TrySendErr
<1>3. CASE Len(errs) - errsTaken < 1 /\ errs' = Append(errs, e)
  <2>1. errs' \in Seq(Errors) /\ Len(errs') = Len(errs) + 1
    BY <1>1, <1>3
  <2> QED BY <1>1, <1>2, <1>3, <2>1
<1>4. CASE ~(Len(errs) - errsTaken < 1) /\ errs' = errs
  <2>1. Len(errs) > 0
    BY <1>1, <1>4
  <2> QED BY <1>1, <1>2, <1>4, <2>1
<1> QED BY <1>3, <1>4 DEF TrySendErr, OfferErr

\* A source that ends, at whatever chunk.
EndOfSource ==
  /\ pc = "next"
  /\ pc' = "close"
  /\ UNCHANGED <<chanVars, chunk, scanFailed, closeFailed>>

\* The goroutine, its contexts and its consumer.
Moves == RunStraight \/ EndOfSource
Around == Contexts \/ Consumer

LEMMA StreamerInit == StraightInit => StreamerInv
<1> SUFFICES ASSUME StraightInit PROVE StreamerInv
  OBVIOUS
<1>1. << >> \in Seq(Nat) /\ << >> \in Seq(Errors) /\ Len(<< >>) = 0
  OBVIOUS
<1>2. QueueSize \in Nat /\ NumChunks \in Nat
  BY RunAssumption
<1>3. /\ parentErr \in BOOLEAN /\ runDone \in BOOLEAN
      /\ outClosed \in BOOLEAN /\ errClosed \in BOOLEAN
      /\ scanFailed \in BOOLEAN /\ closeFailed \in BOOLEAN
  BY DEF StraightInit, ChanInit
<1>4. emitted = << >> /\ taken = 0 /\ errs = << >> /\ errsTaken = 0 /\ chunk = 0 /\ pc = "next"
  BY DEF StraightInit, ChanInit
<1>5. ChanTypeOK
  BY <1>1, <1>2, <1>3, <1>4 DEF ChanTypeOK
<1>6. StraightTypeOK
  BY <1>2, <1>3, <1>4, <1>5 DEF StraightTypeOK, StraightPcs
<1>7. CloseOrder /\ EmittedPrefix /\ StopHasCause /\ FailuresReported
  BY <1>1 DEF StraightInit, ChanInit, CloseOrder, EmittedPrefix, StopHasCause, FailuresReported
<1> QED BY <1>6, <1>7 DEF StreamerInv

\* The three places where the goroutine reports an error.
LEMMA ReportInv ==
  ASSUME StreamerInv, ReportScanErr \/ ReportCloseErr \/ ReportParentErr
  PROVE  StreamerInv'
<1>1. ChanTypeOK /\ ~outClosed /\ ~errClosed
  BY DEF StreamerInv, StraightTypeOK, CloseOrder, ReportScanErr, ReportCloseErr, ReportParentErr
<1>2. {"scan", "close", "ctx"} \subseteq Errors
  BY DEF Errors
<1>3. \/ errs' = errs /\ errsTaken' = errsTaken /\ errClosed' = errClosed /\ pc = "parent"
      \/ /\ errs' \in Seq(Errors) /\ errsTaken' = errsTaken /\ errClosed' = errClosed
         /\ errsTaken' <= Len(errs') /\ Len(errs') - errsTaken' <= 1
         /\ errs' # << >>
  BY <1>1, <1>2, TrySendErrEffect DEF ReportScanErr, ReportCloseErr, ReportParentErr, errVars
<1>4. UNCHANGED <<ctxVars, outVars, chunk, scanFailed, closeFailed>>
  BY DEF ReportScanErr, ReportCloseErr, ReportParentErr
<1>5. \/ pc = "scanErr" /\ pc' = "scanCancel"
      \/ pc = "closeErr" /\ pc' = "parent"
      \/ pc = "parent" /\ pc' = "cancel"
  BY DEF ReportScanErr, ReportCloseErr, ReportParentErr
<1> USE DEF StreamerInv, ctxVars, outVars
<1>6. StraightTypeOK'
  BY <1>3, <1>4, <1>5 DEF StraightTypeOK, ChanTypeOK, StraightPcs
<1>7. CloseOrder' /\ EmittedPrefix'
  BY <1>3, <1>4, <1>5 DEF CloseOrder, EmittedPrefix
<1>8. errs # << >> => errs' # << >>
  BY <1>3
<1>9. StopHasCause'
  BY <1>4, <1>5, <1>8 DEF StopHasCause
<1>10. FailuresReported'
  BY <1>3, <1>4, <1>5, <1>8 DEF FailuresReported
<1> QED BY <1>6, <1>7, <1>9, <1>10

\* The send on out.
LEMMA SendInv == StreamerInv /\ SendChunk => StreamerInv'
<1> SUFFICES ASSUME StreamerInv, SendChunk PROVE StreamerInv'
  OBVIOUS
<1>1. emitted \in Seq(Nat) /\ Len(emitted) \in Nat /\ chunk - 1 \in Nat /\ Len(emitted) = chunk - 1
  BY DEF StreamerInv, StraightTypeOK, ChanTypeOK, EmittedPrefix, SendChunk
<1>2. /\ emitted' \in Seq(Nat) /\ Len(emitted') = Len(emitted) + 1
      /\ \A i \in 1 .. Len(emitted) : emitted'[i] = emitted[i]
      /\ emitted'[Len(emitted) + 1] = chunk - 1
  <2>1. emitted' = Append(emitted, chunk - 1)
    BY DEF SendChunk
  <2> QED BY <1>1, <2>1
<1> USE DEF SendChunk, StreamerInv, ctxVars, errVars
<1>3. StraightTypeOK'
  <2>1. /\ taken \in Nat /\ taken <= Len(emitted) /\ QueueSize \in Nat
        /\ Len(emitted) - taken < QueueSize
    BY RunAssumption DEF StraightTypeOK, ChanTypeOK, OutHasRoom
  <2>2. taken <= Len(emitted') /\ Len(emitted') - taken <= QueueSize
    BY <1>1, <1>2, <2>1
  <2>3. UNCHANGED <<parentErr, runDone, taken, outClosed, errs, errsTaken, errClosed, chunk,
                    scanFailed, closeFailed>> /\ pc' = "next"
    OBVIOUS
  <2>4. ChanTypeOK'
    BY <1>2, <2>2, <2>3 DEF StraightTypeOK, ChanTypeOK
  <2> QED BY <2>3, <2>4 DEF StraightTypeOK, StraightPcs
<1>4. EmittedPrefix'
  <2>1. pc' = "next" /\ chunk' = chunk /\ chunk \in Nat
    BY DEF StraightTypeOK
  <2>2. Len(emitted') = chunk
    BY <1>1, <1>2, <2>1
  <2>3. \A i \in 1 .. Len(emitted) : emitted[i] = i - 1
    BY DEF EmittedPrefix
  <2>4. \A i \in 1 .. Len(emitted') : emitted'[i] = i - 1
    <3> HIDE DEF SendChunk, StreamerInv
    <3> TAKE i \in 1 .. Len(emitted')
    <3>1. i \in 1 .. Len(emitted) \/ i = Len(emitted) + 1
      BY <1>1, <1>2
    <3> QED BY <1>1, <1>2, <2>3, <3>1
  <2> QED BY <2>1, <2>2, <2>4 DEF EmittedPrefix
<1>5. CloseOrder' /\ StopHasCause' /\ FailuresReported'
  BY DEF CloseOrder, StopHasCause, FailuresReported
<1> QED BY <1>3, <1>4, <1>5

\* Every other step of the goroutine.
LEMMA QuietMoveInv ==
  ASSUME StreamerInv,
         EndOfSource \/ ScanChunk \/ ScanFail \/ Stopped \/ CancelRun \/ CloseScanner
           \/ CloseOut \/ CloseErrCh
  PROVE  StreamerInv'
<1> USE DEF StreamerInv, chanVars, ctxVars, outVars, errVars
<1>1. UNCHANGED <<emitted, taken, errs, errsTaken>> /\ (parentErr => parentErr')
  BY DEF EndOfSource, ScanChunk, ScanFail, Stopped, CancelRun, CloseScanner, CloseOut, CloseErrCh
<1>2. StraightTypeOK'
  <2>1. UNCHANGED chunk \/ (chunk < NumChunks /\ chunk' = chunk + 1)
    BY DEF EndOfSource, ScanChunk, ScanFail, Stopped, CancelRun, CloseScanner, CloseOut, CloseErrCh
  <2>2. chunk' \in 0 .. NumChunks
    BY <2>1, RunAssumption DEF StraightTypeOK
  <2>3. ChanTypeOK'
    BY <1>1 DEF EndOfSource, ScanChunk, ScanFail, Stopped, CancelRun, CloseScanner, CloseOut,
                CloseErrCh, StraightTypeOK, ChanTypeOK
  <2>4. pc' \in StraightPcs /\ scanFailed' \in BOOLEAN /\ closeFailed' \in BOOLEAN
    BY DEF EndOfSource, ScanChunk, ScanFail, Stopped, CancelRun, CloseScanner, CloseOut, CloseErrCh,
           StraightTypeOK, StraightPcs
  <2> QED BY <2>2, <2>3, <2>4 DEF StraightTypeOK
<1>3. CloseOrder'
  BY DEF EndOfSource, ScanChunk, ScanFail, Stopped, CancelRun, CloseScanner, CloseOut, CloseErrCh,
         CloseOrder
<1>4. EmittedPrefix'
  <2>1. Len(emitted) \in Nat /\ chunk \in Nat
    BY DEF StraightTypeOK, ChanTypeOK
  <2> QED BY <1>1, <2>1 DEF EndOfSource, ScanChunk, ScanFail, Stopped, CancelRun, CloseScanner,
                            CloseOut, CloseErrCh, EmittedPrefix
<1>5. FailuresReported'
  BY <1>1 DEF EndOfSource, ScanChunk, ScanFail, Stopped, CancelRun, CloseScanner, CloseOut,
              CloseErrCh, FailuresReported
<1>6. StopHasCause'
  BY <1>1 DEF EndOfSource, ScanChunk, ScanFail, Stopped, CancelRun, CloseScanner, CloseOut,
              CloseErrCh, StopHasCause, FailuresReported
<1> QED BY <1>2, <1>3, <1>4, <1>5, <1>6

\* Contexts end and items are received.
LEMMA AroundInv == StreamerInv /\ Around /\ UNCHANGED streamerVars => StreamerInv'
<1> SUFFICES ASSUME StreamerInv, Around, UNCHANGED streamerVars PROVE StreamerInv'
  OBVIOUS
<1> USE DEF Around, Contexts, CancelParent, PropagateCancel, Consumer, RecvChunk, RecvErr,
            StreamerInv, ctxVars, outVars, errVars, streamerVars
<1>1. UNCHANGED <<emitted, outClosed, errs, errClosed, pc, chunk, scanFailed, closeFailed>>
  OBVIOUS
<1>2. StraightTypeOK'
  <2>1. Len(emitted) \in Nat /\ Len(errs) \in Nat /\ taken \in Nat /\ errsTaken \in Nat
    BY DEF StraightTypeOK, ChanTypeOK
  <2>2. taken' \in Nat /\ taken' <= Len(emitted) /\ Len(emitted) - taken' <= QueueSize
    BY <2>1, RunAssumption DEF StraightTypeOK, ChanTypeOK
  <2>3. errsTaken' \in Nat /\ errsTaken' <= Len(errs) /\ Len(errs) - errsTaken' <= 1
    BY <2>1 DEF StraightTypeOK, ChanTypeOK
  <2>4. parentErr' \in BOOLEAN /\ runDone' \in BOOLEAN
    BY DEF StraightTypeOK, ChanTypeOK
  <2> QED BY <1>1, <2>2, <2>3, <2>4 DEF StraightTypeOK, ChanTypeOK
<1>3. StopHasCause'
  BY DEF StopHasCause
<1>4. CloseOrder' /\ EmittedPrefix' /\ FailuresReported'
  BY <1>1 DEF CloseOrder, EmittedPrefix, FailuresReported
<1> QED BY <1>2, <1>3, <1>4

LEMMA MovesInv == StreamerInv /\ Moves => StreamerInv'
<1>1. ScanEnd => EndOfSource
  BY DEF ScanEnd, EndOfSource
<1> QED BY <1>1, ReportInv, SendInv, QuietMoveInv DEF Moves, RunStraight

\* To the Iterator these are steps of a run.
LEMMA MovesAreRunSteps == StreamerInv /\ Moves /\ UNCHANGED iteratorVars => RunStep
<1> SUFFICES ASSUME StreamerInv, Moves, UNCHANGED iteratorVars PROVE RunStep
  OBVIOUS
<1>1. outClosed => pc \in {"closeErrCh", "done"}
  BY DEF StreamerInv, CloseOrder
<1> QED BY <1>1 DEF Moves, RunStraight, EndOfSource, ScanChunk, ScanEnd, ScanFail, SendChunk, Stopped,
                    ReportScanErr, CancelRun, CloseScanner, ReportCloseErr, ReportParentErr,
                    CloseOut, CloseErrCh, TrySendErr, RunStep, chanVars, outVars, errVars

LEMMA ContextsAreRunSteps == Contexts /\ UNCHANGED iteratorVars => RunStep
BY DEF Contexts, CancelParent, PropagateCancel, RunStep, outVars, errVars
-----------------------------------------------------------------------------
(* A source of NumChunks chunks.                                            *)

LEMMA SettledStep == StraightIInv /\ RunStraight => Settled'
<1> SUFFICES ASSUME StraightIInv, RunStraight PROVE Settled'
  OBVIOUS
<1> USE DEF StraightIInv, StreamerInv, Settled, SettledAs, chanVars, ctxVars, outVars, errVars
<1>1. CASE ScanEnd
  BY <1>1 DEF ScanEnd, EmittedPrefix
<1>2. CASE Stopped
  BY <1>2 DEF Stopped, StopHasCause
<1>3. CASE CancelRun
  BY <1>3 DEF CancelRun, FailuresReported
<1>4. CASE ReportScanErr
  BY <1>4 DEF ReportScanErr
<1>5. CASE ReportCloseErr
  <2>1. errs' # << >>
    BY <1>5, TrySendErrEffect DEF ReportCloseErr, StraightTypeOK, Errors
  <2> QED BY <1>5, <2>1 DEF ReportCloseErr
<1>6. CASE ReportParentErr
  <2>1. parentErr => errs' # << >>
    BY <1>6, TrySendErrEffect DEF ReportParentErr, StraightTypeOK, Errors
  <2> QED BY <1>6, <2>1 DEF ReportParentErr
<1>7. CASE ScanChunk \/ ScanFail \/ SendChunk
  BY <1>7 DEF ScanChunk, ScanFail, SendChunk
<1>8. CASE CloseScanner \/ CloseOut \/ CloseErrCh
  BY <1>8 DEF CloseScanner, CloseOut, CloseErrCh
<1> QED BY <1>1, <1>2, <1>3, <1>4, <1>5, <1>6, <1>7, <1>8 DEF RunStraight

\* A call, to the goroutine.
LEMMA CallsAreAround ==
  ASSUME ChanTypeOK, Calls
  PROVE  Around \/ UNCHANGED chanVars
<1>1. CASE parentErr' = TRUE /\ UNCHANGED <<runDone, outVars, errVars>>
  BY <1>1 DEF Around, Contexts, CancelParent, ChanTypeOK, chanVars, ctxVars
<1> QED BY <1>1, CallEffect DEF Around, Consumer

LEMMA SettledAround == Settled /\ Around /\ UNCHANGED streamerVars => Settled'
BY DEF Settled, SettledAs, Around, Contexts, CancelParent, PropagateCancel, Consumer, RecvChunk,
       RecvErr, ctxVars, outVars, errVars, streamerVars

\* What holds in every reachable state, of the goroutine alone and of the calls.
THEOREM StraightInductive == ExecuteSpec => []StraightIInv
<1>1. ExecuteInit => StraightIInv
  BY StreamerInit DEF ExecuteInit, StraightInit, StraightIInv, Settled, SettledAs
<1>2. StraightIInv /\ [ExecuteNext]_executeVars => StraightIInv'
  <2> SUFFICES ASSUME StraightIInv, [ExecuteNext]_executeVars PROVE StraightIInv'
    OBVIOUS
  <2>1. CASE RunStraight
    BY <2>1, MovesInv, SettledStep DEF StraightIInv, Moves
  <2>2. CASE Around /\ UNCHANGED streamerVars
    BY <2>2, AroundInv, SettledAround DEF StraightIInv
  <2>3. CASE UNCHANGED straightVars
    BY <2>3 DEF straightVars, streamerVars, chanVars, ctxVars, outVars, errVars, StraightIInv,
                StreamerInv, StraightTypeOK, ChanTypeOK, CloseOrder, EmittedPrefix, StopHasCause,
                FailuresReported, Settled, SettledAs
  <2>4. CASE Calls /\ UNCHANGED streamerVars
    BY <2>2, <2>3, <2>4, CallsAreAround DEF StraightIInv, StreamerInv, StraightTypeOK, straightVars
  <2> QED BY <2>1, <2>2, <2>3, <2>4 DEF ExecuteNext, Around, executeVars
<1> QED BY <1>1, <1>2, PTL DEF ExecuteSpec

\* The types of the calls' variables and what readers were told to the end need
\* no assumption on who calls Next.
LEMMA CallTypesAlways == ExecuteSpec => [](IteratorTypeOK /\ ToldIsPublished)
<1>1. ExecuteInit => IteratorTypeOK /\ ToldIsPublished
  BY IteratorInitInv DEF ExecuteInit, StraightInit, IteratorIInv
<1>2. StraightIInv /\ IteratorTypeOK /\ ToldIsPublished /\ [ExecuteNext]_executeVars
        => IteratorTypeOK' /\ ToldIsPublished'
  <2> SUFFICES ASSUME StraightIInv, IteratorTypeOK, ToldIsPublished, [ExecuteNext]_executeVars
               PROVE  IteratorTypeOK' /\ ToldIsPublished'
    OBVIOUS
  <2>1. CASE Calls
    BY <2>1, CallTypes, ToldStep DEF StraightIInv, StreamerInv, StraightTypeOK
  <2>2. CASE UNCHANGED iteratorVars
    BY <2>2 DEF iteratorVars, callerVars, IteratorTypeOK, ToldIsPublished
  <2> QED BY <2>1, <2>2 DEF ExecuteNext, executeVars
<1> QED BY <1>1, <1>2, StraightInductive, PTL DEF ExecuteSpec

\* Every variable keeps its type, out never holds more than its capacity and
\* errCh never more than one error.
THEOREM StraightTypeCorrect == ExecuteSpec => []ExecuteTypeOK
<1>1. StraightIInv /\ IteratorTypeOK => ExecuteTypeOK
  BY DEF StraightIInv, StreamerInv, ExecuteTypeOK
<1> QED BY <1>1, StraightInductive, CallTypesAlways, PTL

\* A reader that was told how the run ended is told the same ever after,
\* whoever else calls Next or Close.
THEOREM TerminalStays == ExecuteSpec => TerminalIsStable
<1>1. IteratorTypeOK /\ ToldIsPublished /\ [ExecuteNext]_executeVars
        => [\A r \in Readers : ret[r] \in Terminals => ret'[r] = ret[r]]_executeVars
  <2> SUFFICES ASSUME IteratorTypeOK, ToldIsPublished, ExecuteNext, NEW r \in Readers,
                      ret[r] \in Terminals
               PROVE  ret'[r] = ret[r]
    OBVIOUS
  <2>1. CASE Calls
    BY <2>1, CallsKeepTold
  <2>2. CASE UNCHANGED iteratorVars
    BY <2>2 DEF iteratorVars, callerVars
  <2> QED BY <2>1, <2>2 DEF ExecuteNext
<1> QED BY <1>1, CallTypesAlways, PTL DEF ExecuteSpec, TerminalIsStable

-----------------------------------------------------------------------------
(* What the reader is told.                                                 *)

LEMMA ExecuteCalls == ASSUME OneReader PROVE ExecuteSpec => []IteratorIInv
<1>1. ExecuteInit => IteratorIInv
  BY IteratorInitInv DEF ExecuteInit, StraightInit
<1>2. StraightIInv /\ IteratorIInv /\ [ExecuteNext]_executeVars => IteratorIInv'
  <2> SUFFICES ASSUME StraightIInv, IteratorIInv, [ExecuteNext]_executeVars PROVE IteratorIInv'
    OBVIOUS
  <2>1. CASE RunStraight /\ UNCHANGED iteratorVars
    BY <2>1, MovesAreRunSteps, RunStepInv DEF StraightIInv, Moves
  <2>2. CASE Contexts /\ UNCHANGED iteratorVars
    BY <2>2, ContextsAreRunSteps, RunStepInv
  <2>3. CASE Calls
    BY <2>3, OneReader, CallsInv DEF StraightIInv, StreamerInv, StraightTypeOK
  <2>4. CASE UNCHANGED executeVars
    <3>1. RunStep
      BY <2>4 DEF executeVars, straightVars, chanVars, outVars, errVars, RunStep
    <3> QED BY <3>1, RunStepInv
  <2> QED BY <2>1, <2>2, <2>3, <2>4 DEF ExecuteNext
<1> QED BY <1>1, <1>2, StraightInductive, PTL DEF ExecuteSpec

\* With one reader a clean end of stream from Next means the whole source was
\* received and nothing failed, unless somebody closed the iterator.
THEOREM CleanNext == ASSUME OneReader PROVE ExecuteSpec => []CleanNextIsComplete
<1>1. StraightIInv /\ IteratorIInv => CleanNextIsComplete
  <2> SUFFICES ASSUME StraightIInv, IteratorIInv, NEW r \in Readers, ret[r] = "nil", ~cancelOnce
               PROVE  taken = NumChunks /\ ~scanFailed /\ ~closeFailed
    BY DEF CleanNextIsComplete
  <2>1. outClosed /\ taken = Len(emitted) /\ errs = << >>
    BY ToldClean DEF AtEnd
  <2>2. pc \in {"closeErrCh", "done"}
    BY <2>1 DEF StraightIInv, StreamerInv, CloseOrder
  <2> QED BY <2>1, <2>2 DEF StraightIInv, StreamerInv, FailuresReported, Settled, SettledAs
<1> QED BY <1>1, StraightInductive, ExecuteCalls, PTL

-----------------------------------------------------------------------------
(* The abstract stream, without gaps.                                       *)

LEMMA StreamInit == ExecuteInit => Stream!Init
BY DEF ExecuteInit, StraightInit, ChanInit, Stream!Init

\* Cancelling an open run is the stream's Stop; cancelling it again, or after
\* its end, is a stutter.
LEMMA CancelMaps ==
  ASSUME runDone' = TRUE, runDone \in BOOLEAN, UNCHANGED <<emitted, outClosed, errs>>
  PROVE  [Stream!Next]_Stream!streamVars
<1>1. CASE outClosed \/ runDone
  BY <1>1 DEF Stream!streamVars
<1>2. CASE ~outClosed /\ ~runDone
  <2>1. Stream!Stop BY <1>2 DEF Stream!Stop
  <2> QED BY <2>1 DEF Stream!Next
<1> QED BY <1>1, <1>2

\* An error reported before the close of out is not seen yet.
LEMMA QuietMaps ==
  ASSUME UNCHANGED <<emitted, outClosed, runDone>>, errs' = errs \/ ~outClosed
  PROVE  UNCHANGED Stream!streamVars
BY DEF Stream!streamVars

\* The send on out is the abstract stream's next chunk, the close of out its
\* end; the rest stops the stream or is not seen.
LEMMA StreamStep == StraightIInv /\ [ExecuteNext]_executeVars => [Stream!Next]_Stream!streamVars
<1> SUFFICES ASSUME StraightIInv, [ExecuteNext]_executeVars
             PROVE  [Stream!Next]_Stream!streamVars
  OBVIOUS
<1>1. /\ ChanTypeOK /\ runDone \in BOOLEAN /\ chunk \in 0 .. NumChunks
      /\ (outClosed <=> pc \in {"closeErrCh", "done"})
  BY DEF StraightIInv, StreamerInv, StraightTypeOK, ChanTypeOK, CloseOrder
<1> USE DEF chanVars, ctxVars, outVars, errVars
<1>2. CASE SendChunk
  <2>1. /\ pc = "send" /\ emitted' = Append(emitted, chunk - 1)
        /\ UNCHANGED <<outClosed, errs, runDone>>
    BY <1>2 DEF SendChunk
  <2>2. Len(emitted) = chunk - 1 /\ Len(emitted) \in Nat /\ NumChunks \in Nat
        /\ \A i \in 1 .. Len(emitted) : emitted[i] = i - 1
    BY <2>1, <1>1, RunAssumption DEF StraightIInv, StreamerInv, EmittedPrefix, ChanTypeOK
  <2>3. chunk - 1 \in 0 .. NumChunks - 1 /\ \A i \in 1 .. Len(emitted) : emitted[i] < chunk - 1
    BY <2>2, <1>1
  <2>4. ~outClosed
    BY <2>1, <1>1
  <2>5. Stream!Emit(chunk - 1)
    BY <2>1, <2>2, <2>3, <2>4 DEF Stream!Emit, Stream!Running
  <2> QED BY <2>3, <2>5 DEF Stream!Next
<1>3. CASE CloseOut
  <2>1. pc = "closeOut" /\ outClosed' = TRUE /\ UNCHANGED <<emitted, errs, runDone>>
    BY <1>3 DEF CloseOut
  <2>2. ~outClosed
    BY <2>1, <1>1
  <2>3. errs # << >> \/ Len(emitted) = NumChunks
    BY <2>1 DEF StraightIInv, Settled, SettledAs
  <2>4. CASE errs = << >>
    <3>1. Stream!EndClean
      BY <2>1, <2>2, <2>3, <2>4 DEF Stream!EndClean, Stream!Running
    <3> QED BY <3>1 DEF Stream!Next
  <2>5. CASE errs # << >>
    <3>1. Stream!EndFailed
      BY <2>1, <2>2, <2>5 DEF Stream!EndFailed, Stream!Running
    <3> QED BY <3>1 DEF Stream!Next
  <2> QED BY <2>4, <2>5
<1>4. CASE CancelRun
  BY <1>1, <1>4, CancelMaps DEF CancelRun
<1>5. CASE ReportScanErr \/ ReportCloseErr \/ ReportParentErr
  BY <1>1, <1>5, QuietMaps DEF ReportScanErr, ReportCloseErr, ReportParentErr
<1>6. CASE ScanChunk \/ ScanEnd \/ ScanFail \/ Stopped \/ CloseScanner \/ CloseErrCh
  BY <1>6, QuietMaps DEF ScanChunk, ScanEnd, ScanFail, Stopped, CloseScanner, CloseErrCh
<1>7. CASE Around
  <2>1. CASE PropagateCancel
    BY <1>1, <2>1, CancelMaps DEF PropagateCancel
  <2>2. CASE CancelParent \/ Consumer
    BY <2>2, QuietMaps DEF CancelParent, Consumer, RecvChunk, RecvErr
  <2> QED BY <1>7, <2>1, <2>2 DEF Around, Contexts
<1>8. CASE UNCHANGED chanVars
  BY <1>8, QuietMaps
<1>9. CASE Calls
  BY <1>1, <1>7, <1>8, <1>9, CallsAreAround
<1>10. CASE RunStraight
  BY <1>2, <1>3, <1>4, <1>5, <1>6, <1>10 DEF RunStraight
<1>11. CASE UNCHANGED executeVars
  BY <1>8, <1>11 DEF executeVars, straightVars
<1> QED
  <2> HIDE DEF chanVars
  <2> QED BY <1>7, <1>9, <1>10, <1>11 DEF ExecuteNext, Around

\* Every run of Execute without operators is a behaviour of the stream that
\* skips no chunk, not even when it is stopped.
THEOREM StraightRefinement == ExecuteSpec => StraightRefinesStream
<1>1. StraightIInv /\ [ExecuteNext]_executeVars => [Stream!Next]_Stream!streamVars
  BY StreamStep
<1> QED BY <1>1, StreamInit, StraightInductive, PTL DEF ExecuteSpec, StraightRefinesStream, Stream!Spec

-----------------------------------------------------------------------------
(* ExecuteVector.                                                           *)

\* Everything the scanner keeps but where it stands.
rowVars == <<total, rows, rowsErr, served, packing, delivered>>

-----------------------------------------------------------------------------
(* The goroutine and the scanner move together.                             *)

\* To the channels and the goroutine, what Streamer does is a step of
\* runStraight over some source, or nothing.
LEMMA StreamerMoves == Streamer => Moves \/ UNCHANGED straightVars
BY DEF Streamer, ScannerNext, NextIsBatch, NextIsEnd, NextFails, Passing, CloseBegins, CloseEnds,
       Moves, EndOfSource, RunStraight

LEMMA StreamerStep == StreamerInv /\ ChanTypeOK /\ [Next]_vars => StreamerInv'
<1> SUFFICES ASSUME StreamerInv, ChanTypeOK, [Next]_vars PROVE StreamerInv'
  OBVIOUS
<1>1. CASE UNCHANGED straightVars
  BY <1>1 DEF straightVars, streamerVars, chanVars, ctxVars, outVars, errVars,
              StreamerInv, StraightTypeOK, ChanTypeOK, CloseOrder, EmittedPrefix, StopHasCause,
              FailuresReported
<1>2. CASE Streamer
  BY <1>1, <1>2, StreamerMoves, MovesInv
<1>3. CASE Around /\ UNCHANGED streamerVars
  BY <1>3, AroundInv
<1>4. CASE IteratorCalls
  BY <1>1, <1>3, <1>4, CallsAreAround DEF IteratorCalls, straightVars
<1>5. CASE ReturnOpenError
  BY <1>5 DEF ReturnOpenError, streamerVars, outVars, errVars,
              StreamerInv, StraightTypeOK, ChanTypeOK, CloseOrder, EmittedPrefix, StopHasCause,
              FailuresReported
<1> QED BY <1>1, <1>2, <1>3, <1>4, <1>5
    DEF Next, OpenBatch, Cancellation, ServerFallsSilent, Around, vars, straightVars

\* The phases of the two together, and of the connection.
Phases == InStep /\ ConnHeld

LEMMA OpenPhases == Phases /\ OpenBatch => Phases'
BY DEF Phases, InStep, ConnHeld, OpenBatch, straightVars, streamerVars, Pg!Open, Pg!Connect, Pg!ConnectFails,
       Pg!Query, Pg!QueryFails, Pg!CloseAfterQuery, Pg!RejectConn, Pg!RejectRows, Pg!Opened

LEMMA StreamerPhases == Phases /\ Streamer => Phases'
<1> SUFFICES ASSUME Phases, Streamer PROVE Phases'
  OBVIOUS
<1> USE DEF Phases, InStep, ConnHeld, Pg!Opened
<1>1. CASE ScannerNext
  BY <1>1 DEF ScannerNext, straightVars, streamerVars, Pg!Fetch, Pg!NextCall, Pg!RowArrives, Pg!RowsEnd,
              Pg!RowsFail, Pg!LoopEnds, Pg!PackRow
<1>2. CASE NextIsBatch \/ NextIsEnd \/ NextFails
  BY <1>2 DEF NextIsBatch, ScanChunk, Pg!HandOut, NextIsEnd, Pg!EndOfRows, NextFails, ScanFail,
              Pg!DecodeFails, Pg!ReportRowsErr
<1>3. CASE Passing
  BY <1>3, Streamer DEF Streamer, Passing, scannerVars, SendChunk, Stopped, ReportScanErr, CancelRun, ReportCloseErr,
              ReportParentErr, CloseOut, CloseErrCh
<1>4. CASE CloseBegins \/ CloseEnds
  BY <1>4 DEF CloseBegins, CloseEnds, straightVars, streamerVars, Pg!CloseCall, Pg!CloseRows,
              CloseScanner, Pg!CloseConn
<1> QED BY <1>1, <1>2, <1>3, <1>4 DEF Streamer

LEMMA PhasesStep == Phases /\ [Next]_vars => Phases'
<1> SUFFICES ASSUME Phases, [Next]_vars PROVE Phases'
  OBVIOUS
<1>1. CASE UNCHANGED <<streamerVars, conn, spc>>
  BY <1>1 DEF Phases, InStep, ConnHeld, streamerVars, Pg!Opened
<1>2. CASE ReturnOpenError \/ IteratorCalls \/ Cancellation \/ ServerFallsSilent \/ UNCHANGED vars
  BY <1>1, <1>2 DEF ReturnOpenError, IteratorCalls, Cancellation, ServerFallsSilent, Pg!FallSilent,
                    vars, straightVars, scannerVars
<1> QED BY <1>2, OpenPhases, StreamerPhases DEF Next
-----------------------------------------------------------------------------
(* The rows.                                                                *)

RowsInv == RowTypes /\ BatchesAreRows /\ RowsCounted /\ RowsOver

\* What the full batches hold.
LEMMA Multiples ==
  /\ \A n \in Nat : n * Size \in Nat
  /\ \A n \in Nat : (n + 1) * Size = n * Size + Size
<1>1. Size \in Nat
  BY VectorAssumption
<1> QED BY <1>1

\* As long as rows may still come no batch is short.
LEMMA NoShortBatch ==
  ASSUME RowsInv, rows = "open" \/ packing # << >>, spc \in {"scan", "values", "rowsErr"}
  PROVE  /\ \A k \in 1 .. Len(delivered) : Len(delivered[k]) = Size
         /\ Handed = Len(delivered) * Size
<1>1. Len(delivered) \in Nat /\ Size \in Nat
  BY VectorAssumption DEF RowsInv, RowTypes
<1>2. ASSUME delivered # << >> PROVE Len(delivered[Len(delivered)]) = Size
  <2>1. Len(delivered) \in 1 .. Len(delivered)
    BY <1>1, <1>2 DEF RowsInv, RowTypes
  <2>2. Len(delivered[Len(delivered)]) \in 1 .. Size
        /\ (Len(delivered[Len(delivered)]) < Size => rows = "done")
    BY <2>1 DEF RowsInv, BatchesAreRows
  <2>3. CASE rows = "open"
    BY <1>1, <2>2, <2>3
  <2>4. CASE rows # "open" /\ packing # << >>
    BY <1>2, <2>4 DEF RowsInv, RowsOver, RowsCounted
  <2> QED BY <2>3, <2>4
<1>3. ASSUME NEW k \in 1 .. Len(delivered) PROVE Len(delivered[k]) = Size
  <2>1. delivered # << >>
    BY <1>1, <1>3
  <2>2. Len(delivered[k]) \in 1 .. Size /\ (Len(delivered[k]) < Size => k = Len(delivered))
    BY DEF RowsInv, BatchesAreRows
  <2> QED BY <1>1, <1>2, <2>1, <2>2
<1>4. CASE delivered = << >>
  <2>1. Len(delivered) = 0 /\ 0 * Size = 0
    BY <1>1, <1>4
  <2> QED BY <1>3, <1>4, <2>1 DEF Handed
<1>5. CASE delivered # << >>
  <2>1. Len(delivered) - 1 \in Nat /\ (Len(delivered) - 1) + 1 = Len(delivered)
    BY <1>1, <1>5 DEF RowsInv, RowTypes
  <2>2. Len(delivered) * Size = (Len(delivered) - 1) * Size + Size
    BY <2>1, Multiples
  <2> QED BY <1>2, <1>3, <1>5, <2>2 DEF Handed
<1> QED BY <1>4, <1>5

LEMMA HandedNat == RowsInv => Handed \in Nat
<1> SUFFICES ASSUME RowsInv, delivered # << >> PROVE Handed \in Nat
  BY DEF Handed
<1>1. Len(delivered) \in Nat /\ Len(delivered) - 1 \in Nat /\ Len(delivered) \in 1 .. Len(delivered)
  BY DEF RowsInv, RowTypes
<1>2. Len(delivered[Len(delivered)]) \in Nat
  BY <1>1 DEF RowsInv, RowTypes
<1>3. (Len(delivered) - 1) * Size \in Nat
  BY <1>1, Multiples
<1> QED BY <1>2, <1>3 DEF Handed

\* Nothing is handed out, and if a batch is short the rows stay over.
LEMMA BatchesFrame ==
  ASSUME BatchesAreRows, UNCHANGED <<total, delivered>>,
         \/ rows = "done" /\ ~rowsErr => rows' = "done" /\ ~rowsErr'
         \/ \A k \in 1 .. Len(delivered) : Len(delivered[k]) = Size
  PROVE  BatchesAreRows'
<1>1. Size \in Nat /\ Handed' = Handed
  BY VectorAssumption DEF Handed
<1> SUFFICES ASSUME NEW k \in 1 .. Len(delivered)
             PROVE  /\ Len(delivered[k]) \in 1 .. Size
                    /\ \A i \in 1 .. Len(delivered[k]) : delivered[k][i] = (k - 1) * Size + i
                    /\ Len(delivered[k]) < Size =>
                         k = Len(delivered) /\ Handed = total /\ rows' = "done" /\ ~rowsErr'
  BY <1>1 DEF BatchesAreRows
<1>2. /\ Len(delivered[k]) \in 1 .. Size
      /\ \A i \in 1 .. Len(delivered[k]) : delivered[k][i] = (k - 1) * Size + i
      /\ Len(delivered[k]) < Size =>
           k = Len(delivered) /\ Handed = total /\ rows = "done" /\ ~rowsErr
  BY DEF BatchesAreRows
<1>3. Len(delivered[k]) < Size => rows' = "done" /\ ~rowsErr'
  <2>1. CASE Len(delivered[k]) = Size
    BY <1>1, <2>1
  <2>2. CASE Len(delivered[k]) # Size
    BY <1>2, <2>2
  <2> QED BY <2>1, <2>2
<1> QED BY <1>2, <1>3

\* Steps that leave the rows alone.
LEMMA RowsFrame == RowsInv /\ UNCHANGED <<rowVars, spc, chunk>> => RowsInv'
BY DEF RowsInv, RowTypes, BatchesAreRows, RowsCounted, RowsOver, rowVars, Handed

\* Opening: nothing has been received.
LEMMA OpenRows == RowsInv /\ Pg!Open /\ UNCHANGED chunk => RowsInv'
<1> SUFFICES ASSUME RowsInv, Pg!Open, UNCHANGED chunk PROVE RowsInv'
  OBVIOUS
<1>1. UNCHANGED <<total, rowsErr, served, packing, delivered>>
  BY DEF Pg!Open, Pg!Connect, Pg!ConnectFails, Pg!Query, Pg!QueryFails, Pg!CloseAfterQuery,
         Pg!RejectConn, Pg!RejectRows
<1>2. Handed' = Handed
  BY <1>1 DEF Handed
<1>3. CASE Pg!Query
  BY <1>1, <1>2, <1>3 DEF Pg!Query, RowsInv, RowTypes, BatchesAreRows, RowsCounted, RowsOver
<1>4. CASE Pg!Connect \/ Pg!ConnectFails \/ Pg!QueryFails \/ Pg!CloseAfterQuery \/ Pg!RejectConn
  BY <1>1, <1>2, <1>4 DEF Pg!Connect, Pg!ConnectFails, Pg!QueryFails, Pg!CloseAfterQuery,
     Pg!RejectConn, RowsInv, RowTypes, BatchesAreRows, RowsCounted, RowsOver
<1>5. CASE Pg!RejectRows
  BY <1>1, <1>2, <1>5 DEF Pg!RejectRows, RowsInv, RowTypes, BatchesAreRows, RowsCounted, RowsOver
<1> QED BY <1>3, <1>4, <1>5 DEF Pg!Open

\* A Next that comes to no batch, and Close.
LEMMA LeaveRows ==
  ASSUME RowsInv, UNCHANGED chunk,
         Pg!DecodeFails \/ Pg!ReportRowsErr \/ Pg!EndOfRows \/ Pg!CloseCall \/ Pg!CloseRows
           \/ Pg!CloseConn
  PROVE  RowsInv'
<1>1. UNCHANGED <<total, rowsErr, served, packing, delivered>>
  BY DEF Pg!DecodeFails, Pg!ReportRowsErr, Pg!EndOfRows, Pg!CloseCall, Pg!CloseRows, Pg!CloseConn
<1>2. Handed' = Handed
  BY <1>1 DEF Handed
<1>3. spc' \in {"ended", "closeRows", "closeConn", "closed"}
  BY DEF Pg!DecodeFails, Pg!ReportRowsErr, Pg!EndOfRows, Pg!CloseCall, Pg!CloseRows, Pg!CloseConn
<1>4. RowsCounted' /\ RowsOver'
  BY <1>3 DEF RowsCounted, RowsOver
<1>5. rows' \in {"none", "open", "done"} /\ (rows = "done" => rows' = "done" \/ Pg!DecodeFails)
  BY DEF Pg!DecodeFails, Pg!ReportRowsErr, Pg!EndOfRows, Pg!CloseCall, Pg!CloseRows, Pg!CloseConn,
         RowsInv, RowTypes
<1>6. Pg!DecodeFails => rows = "open"
  BY DEF Pg!DecodeFails, RowsInv, RowsCounted
<1>7. RowTypes' /\ BatchesAreRows'
  <2>1. Pg!DecodeFails => \A k \in 1 .. Len(delivered) : Len(delivered[k]) = Size
    BY <1>6, NoShortBatch DEF Pg!DecodeFails
  <2>2. RowTypes'
    BY <1>1, <1>5, <1>6 DEF RowsInv, RowTypes, Pg!DecodeFails
  <2>3. BatchesAreRows'
    BY <1>1, <1>5, <2>1, BatchesFrame DEF RowsInv
  <2> QED BY <2>2, <2>3
<1> QED BY <1>4, <1>7 DEF RowsInv

\* Next fetches.
LEMMA FetchRows == RowsInv /\ Pg!Fetch /\ UNCHANGED chunk => RowsInv'
<1> SUFFICES ASSUME RowsInv, Pg!Fetch, UNCHANGED chunk PROVE RowsInv'
  OBVIOUS
<1>1. UNCHANGED <<total, delivered>>
  BY DEF Pg!Fetch, Pg!NextCall, Pg!RowArrives, Pg!RowsEnd, Pg!RowsFail, Pg!LoopEnds, Pg!PackRow
<1>2. Handed' = Handed /\ Handed \in Nat /\ Len(packing) \in Nat /\ served \in Nat /\ Size \in Nat \ {0}
  <2>1. Handed' = Handed
    BY <1>1 DEF Handed
  <2> QED BY <2>1, HandedNat, VectorAssumption DEF RowsInv, RowTypes
<1>3. CASE Pg!NextCall
  <2>1. << >> \in Seq(Nat) /\ Len(<< >>) = 0
    OBVIOUS
  <2>2. packing' = << >> /\ Len(packing') = 0 /\ packing' \in Seq(Nat)
        /\ UNCHANGED <<rows, rowsErr, served>> /\ spc = "idle" /\ spc' = "scan"
    BY <1>3, <2>1 DEF Pg!NextCall
  <2>3. RowTypes' /\ BatchesAreRows'
    BY <1>1, <1>2, <2>2, BatchesFrame DEF RowsInv, RowTypes
  <2>4. RowsCounted' /\ RowsOver'
    BY <1>1, <1>2, <2>2 DEF RowsInv, RowsCounted, RowsOver
  <2> QED BY <2>3, <2>4 DEF RowsInv
<1>4. CASE Pg!RowArrives \/ Pg!LoopEnds
  <2>1. RowTypes' /\ BatchesAreRows'
    BY <1>1, <1>2, <1>4, BatchesFrame DEF Pg!RowArrives, Pg!LoopEnds, RowsInv, RowTypes
  <2>2. RowsCounted' /\ RowsOver'
    BY <1>1, <1>2, <1>4 DEF Pg!RowArrives, Pg!LoopEnds, RowsInv, RowTypes, RowsCounted, RowsOver
  <2> QED BY <2>1, <2>2 DEF RowsInv
<1>5. CASE Pg!RowsEnd \/ Pg!RowsFail
  <2>1. rows = "open" /\ spc = "scan" /\ rows' = "done"
    BY <1>5 DEF Pg!RowsEnd, Pg!RowsFail
  <2>2. \A k \in 1 .. Len(delivered) : Len(delivered[k]) = Size
    BY <2>1, NoShortBatch
  <2>3. ~rowsErr /\ (rowsErr' \/ served = total)
    BY <1>5, <2>1 DEF Pg!RowsEnd, Pg!RowsFail, RowsInv, RowTypes
  <2>4. RowTypes' /\ BatchesAreRows'
    BY <1>1, <1>2, <1>5, <2>1, <2>2, BatchesFrame DEF Pg!RowsEnd, Pg!RowsFail, RowsInv, RowTypes
  <2>5. RowsCounted' /\ RowsOver'
    BY <1>1, <1>2, <1>5, <2>1, <2>3 DEF Pg!RowsEnd, Pg!RowsFail, RowsInv, RowsCounted, RowsOver
  <2> QED BY <2>4, <2>5 DEF RowsInv
<1>6. CASE Pg!PackRow
  <2>1. /\ spc = "values" /\ spc' = "scan" /\ packing' = Append(packing, served)
        /\ UNCHANGED <<rows, rowsErr, served>>
    BY <1>6 DEF Pg!PackRow
  <2>2. rows = "open" /\ Len(packing) < Size /\ served = Handed + Len(packing) + 1
    BY <2>1 DEF RowsInv, RowsCounted
  <2>3. \A k \in 1 .. Len(delivered) : Len(delivered[k]) = Size
    BY <2>1, <2>2, NoShortBatch
  <2>4. /\ packing' \in Seq(Nat) /\ Len(packing') = Len(packing) + 1
        /\ \A i \in 1 .. Len(packing) : packing'[i] = packing[i]
        /\ packing'[Len(packing) + 1] = served
    BY <1>2, <2>1 DEF RowsInv, RowTypes
  <2>5. RowTypes'
    BY <1>1, <1>2, <2>1, <2>2, <2>4 DEF RowsInv, RowTypes
  <2>6. \A i \in 1 .. Len(packing') : packing'[i] = Handed + i
    <3>1. \A i \in 1 .. Len(packing) : packing[i] = Handed + i
      BY <2>1 DEF RowsInv, RowsCounted
    <3> TAKE i \in 1 .. Len(packing')
    <3>2. CASE i \in 1 .. Len(packing)
      BY <2>4, <3>1, <3>2
    <3>3. CASE i = Len(packing) + 1
      BY <1>2, <2>2, <2>4, <3>3
    <3> QED BY <1>2, <2>4, <3>2, <3>3
  <2>7. RowsCounted'
    BY <1>2, <2>1, <2>2, <2>4, <2>6 DEF RowsCounted
  <2>8. delivered # << >> => Len(delivered[Len(delivered)]) = Size
    BY <2>3 DEF RowsInv, RowTypes
  <2>9. RowsOver' /\ BatchesAreRows'
    BY <1>1, <2>1, <2>2, <2>8, BatchesFrame DEF RowsInv, RowsOver
  <2> QED BY <2>5, <2>7, <2>9 DEF RowsInv
<1> QED BY <1>3, <1>4, <1>5, <1>6 DEF Pg!Fetch

\* Next hands a batch out: every one before it is full.
LEMMA HandOutRows == RowsInv /\ Pg!HandOut /\ chunk' = chunk + 1 => RowsInv'
<1> SUFFICES ASSUME RowsInv, Pg!HandOut, chunk' = chunk + 1 PROVE RowsInv'
  OBVIOUS
<1> DEFINE n == Len(delivered)
<1>1. /\ spc = "rowsErr" /\ spc' = "idle" /\ ~rowsErr /\ packing # << >>
      /\ delivered' = Append(delivered, packing)
      /\ UNCHANGED <<total, rows, rowsErr, served, packing>>
  BY DEF Pg!HandOut
<1>2. /\ n \in Nat /\ Len(packing) \in 1 .. Size /\ Size \in Nat /\ n * Size \in Nat
      /\ packing \in Seq(Nat) /\ delivered \in Seq(Seq(Nat))
  BY <1>1, Multiples, VectorAssumption DEF RowsInv, RowTypes
<1>3. (\A k \in 1 .. n : Len(delivered[k]) = Size) /\ Handed = n * Size
  BY <1>1, NoShortBatch
<1>4. /\ delivered' \in Seq(Seq(Nat)) /\ Len(delivered') = n + 1
      /\ \A k \in 1 .. n : delivered'[k] = delivered[k]
      /\ delivered'[n + 1] = packing
  BY <1>1, <1>2
<1>5. delivered' # << >> /\ (n + 1) - 1 = n
  BY <1>2, <1>4
<1>6. Handed' = n * Size + Len(packing)
  BY <1>4, <1>5 DEF Handed
<1>7. served = Handed'
  BY <1>1, <1>3, <1>6 DEF RowsInv, RowsCounted
<1>8. Len(packing) < Size => rows = "done" /\ Handed' = total
  BY <1>1, <1>2, <1>7 DEF RowsInv, RowsOver
<1>9. RowTypes'
  BY <1>1, <1>2, <1>4 DEF RowsInv, RowTypes
<1>10. BatchesAreRows'
  <2> SUFFICES ASSUME NEW k \in 1 .. n + 1
               PROVE  /\ Len(delivered'[k]) \in 1 .. Size
                      /\ \A i \in 1 .. Len(delivered'[k]) : delivered'[k][i] = (k - 1) * Size + i
                      /\ Len(delivered'[k]) < Size =>
                           k = n + 1 /\ Handed' = total /\ rows' = "done" /\ ~rowsErr'
    BY <1>1, <1>4 DEF BatchesAreRows
  <2>1. CASE k \in 1 .. n
    <3>1. delivered'[k] = delivered[k] /\ Len(delivered[k]) = Size
      BY <1>3, <1>4, <2>1
    <3>2. Size \in 1 .. Size /\ ~(Size < Size)
      BY <1>2
    <3>3. \A i \in 1 .. Len(delivered[k]) : delivered[k][i] = (k - 1) * Size + i
      BY <2>1 DEF RowsInv, BatchesAreRows
    <3> QED BY <3>1, <3>2, <3>3
  <2>2. CASE k = n + 1
    <3>1. \A i \in 1 .. Len(packing) : packing[i] = n * Size + i
      BY <1>1, <1>3 DEF RowsInv, RowsCounted
    <3>2. delivered'[k] = packing /\ k - 1 = n /\ k = n + 1
      BY <1>4, <1>5, <2>2
    <3>3. \A i \in 1 .. Len(packing) : packing[i] = (k - 1) * Size + i
      BY <3>1, <3>2
    <3> QED BY <1>1, <1>2, <1>8, <3>2, <3>3
  <2>3. k \in 1 .. n \/ k = n + 1
    BY <1>2
  <2> HIDE DEF n
  <2> QED BY <2>1, <2>2, <2>3
<1>11. RowsCounted'
  BY <1>1, <1>7 DEF RowsCounted
<1>12. RowsOver'
  BY <1>1, <1>7 DEF RowsInv, RowsOver
<1> QED BY <1>9, <1>10, <1>11, <1>12 DEF RowsInv

LEMMA RowsInit == Init => RowsInv
<1> SUFFICES ASSUME Init PROVE RowsInv
  OBVIOUS
<1>1. << >> \in Seq(Nat) /\ << >> \in Seq(Seq(Nat)) /\ Len(<< >>) = 0
  OBVIOUS
<1>2. /\ total \in Nat /\ served = 0 /\ packing = << >> /\ delivered = << >> /\ chunk = 0
      /\ rows = "none" /\ rowsErr = FALSE /\ spc = "connect"
  BY VectorAssumption DEF Init, Pg!ScannerInit, StraightInit
<1>3. Handed = 0 /\ Size \in Nat
  BY <1>2, VectorAssumption DEF Handed
<1>4. /\ packing \in Seq(Nat) /\ Len(packing) = 0
      /\ delivered \in Seq(Seq(Nat)) /\ Len(delivered) = 0
  BY <1>1, <1>2
<1>5. RowTypes
  <2>1. total \in Nat /\ served \in Nat /\ Len(packing) <= Size /\ chunk = Len(delivered)
    BY <1>2, <1>3, <1>4
  <2>2. rows \in {"none", "open", "done"} /\ rowsErr \in BOOLEAN /\ (rowsErr => rows = "done")
    BY <1>2
  <2> QED BY <1>4, <2>1, <2>2 DEF RowTypes
<1>6. BatchesAreRows
  BY <1>4 DEF BatchesAreRows
<1>7. RowsCounted /\ RowsOver
  BY <1>2, <1>3 DEF RowsCounted, RowsOver
<1> QED BY <1>5, <1>6, <1>7 DEF RowsInv

LEMMA RowsStep == RowsInv /\ [Next]_vars => RowsInv'
<1> SUFFICES ASSUME RowsInv, [Next]_vars PROVE RowsInv'
  OBVIOUS
<1>1. CASE OpenBatch
  BY <1>1, OpenRows DEF OpenBatch, straightVars, streamerVars
<1>2. CASE ScannerNext
  BY <1>2, FetchRows DEF ScannerNext, straightVars, streamerVars
<1>3. CASE NextIsBatch
  BY <1>3, HandOutRows DEF NextIsBatch, ScanChunk
<1>4. CASE NextIsEnd \/ NextFails \/ CloseBegins \/ CloseEnds
  BY <1>4, LeaveRows DEF NextIsEnd, NextFails, ScanFail, CloseBegins, CloseEnds, CloseScanner,
                         straightVars, streamerVars
<1>5. CASE UNCHANGED <<rowVars, spc, chunk>>
  BY <1>5, RowsFrame
<1>6. CASE Passing
  BY <1>5, <1>6 DEF Passing, SendChunk, Stopped, ReportScanErr, CancelRun, ReportCloseErr,
                    ReportParentErr, CloseOut, CloseErrCh, scannerVars, rowVars
<1>7. CASE ReturnOpenError \/ IteratorCalls \/ Cancellation \/ ServerFallsSilent \/ UNCHANGED vars
  BY <1>5, <1>7 DEF ReturnOpenError, IteratorCalls, Cancellation, ServerFallsSilent,
                    Pg!FallSilent, streamerVars, scannerVars, rowVars, vars, straightVars
<1> QED BY <1>1, <1>2, <1>3, <1>4, <1>6, <1>7 DEF Next, Streamer

-----------------------------------------------------------------------------
(* The outcome.                                                             *)

\* The scanner reports the end of the rows only when every row is in a batch.
LEMMA EndIsWhole ==
  ASSUME RowsInv, EmittedPrefix, NextIsEnd
  PROVE  Whole
<1>1. spc = "rowsErr" /\ ~rowsErr /\ packing = << >> /\ pc = "next"
  BY DEF NextIsEnd, Pg!EndOfRows
<1>2. Len(packing) = 0 /\ Size > 0 /\ Handed \in Nat
  BY <1>1, HandedNat, VectorAssumption
<1>3. rows = "done" /\ served = total
  BY <1>1, <1>2 DEF RowsInv, RowsOver
<1>4. served = Handed + Len(packing)
  BY <1>1 DEF RowsInv, RowsCounted
<1> QED BY <1>1, <1>2, <1>3, <1>4 DEF EmittedPrefix, RowsInv, RowTypes, Whole

LEMMA SettledVector ==
  ASSUME StreamerInv, RowsInv, SettledAs(Whole), [Next]_vars
  PROVE  SettledAs(Whole)'
<1> USE DEF StreamerInv, SettledAs, chanVars, ctxVars, outVars, errVars
<1>1. CASE UNCHANGED <<emitted, delivered, total, pc, errs>> /\ (parentErr => parentErr')
  BY <1>1 DEF Whole, Handed
<1>2. CASE NextIsEnd
  <2>1. Whole /\ UNCHANGED <<emitted, delivered, total>>
    BY <1>2, EndIsWhole DEF NextIsEnd, Pg!EndOfRows
  <2>2. Whole'
    BY <2>1 DEF Whole, Handed
  <2> QED BY <2>2
<1>3. CASE NextIsBatch \/ NextFails
  BY <1>3 DEF NextIsBatch, NextFails, ScanChunk, ScanFail
<1>4. CASE Passing \/ CloseEnds
  <2>1. UNCHANGED <<delivered, total>>
    BY <1>4 DEF Passing, CloseEnds, Pg!CloseConn, scannerVars
  <2>2. CASE SendChunk
    BY <2>2 DEF SendChunk
  <2>3. Whole => Whole' \/ SendChunk
    BY <1>4, <2>1 DEF Passing, CloseEnds, Whole, Handed, Stopped, ReportScanErr, CancelRun,
                      ReportCloseErr, ReportParentErr, CloseOut, CloseErrCh, CloseScanner
  <2> HIDE DEF Whole
  <2>4. CASE Stopped
    BY <2>4 DEF Stopped, StopHasCause
  <2>5. CASE CancelRun
    BY <2>3, <2>5 DEF CancelRun, FailuresReported, SendChunk
  <2>6. CASE ReportScanErr
    BY <2>6 DEF ReportScanErr
  <2>7. CASE ReportCloseErr
    <3>1. errs' # << >>
      BY <2>7, TrySendErrEffect DEF ReportCloseErr, StraightTypeOK, Errors
    <3> QED BY <2>7, <3>1 DEF ReportCloseErr
  <2>8. CASE ReportParentErr
    <3>1. parentErr => errs' # << >>
      BY <2>8, TrySendErrEffect DEF ReportParentErr, StraightTypeOK, Errors
    <3> QED BY <2>3, <2>8, <3>1 DEF ReportParentErr, SendChunk
  <2>9. CASE CloseScanner \/ CloseOut \/ CloseErrCh
    BY <2>3, <2>9 DEF CloseScanner, CloseOut, CloseErrCh, SendChunk
  <2> QED BY <1>4, <2>2, <2>4, <2>5, <2>6, <2>7, <2>8, <2>9 DEF Passing, CloseEnds
<1>5. CASE ScannerNext \/ CloseBegins
  BY <1>1, <1>5 DEF ScannerNext, CloseBegins, straightVars, streamerVars, Pg!Fetch, Pg!NextCall,
                    Pg!RowArrives, Pg!RowsEnd, Pg!RowsFail, Pg!LoopEnds, Pg!PackRow, Pg!CloseCall,
                    Pg!CloseRows
<1>6. CASE OpenBatch
  BY <1>1, <1>6 DEF OpenBatch, straightVars, streamerVars, Pg!Open, Pg!Connect, Pg!ConnectFails,
                    Pg!Query, Pg!QueryFails, Pg!CloseAfterQuery, Pg!RejectConn, Pg!RejectRows
<1>7. CASE IteratorCalls
  <2>1. UNCHANGED <<emitted, errs>> /\ (parentErr => parentErr')
    BY <1>7, CallEffect DEF IteratorCalls, RecvChunk, RecvErr
  <2> QED BY <1>1, <1>7, <2>1 DEF IteratorCalls, streamerVars, scannerVars
<1>8. CASE ReturnOpenError \/ Cancellation \/ ServerFallsSilent \/ UNCHANGED vars
  BY <1>1, <1>8 DEF ReturnOpenError, Cancellation, Contexts, CancelParent, PropagateCancel,
                    ServerFallsSilent, Pg!FallSilent, streamerVars, scannerVars, vars, straightVars
<1> QED BY <1>2, <1>3, <1>4, <1>5, <1>6, <1>7, <1>8 DEF Next, Streamer

-----------------------------------------------------------------------------
(* The theorems.                                                            *)

LEMMA VectorParts == VectorIInv <=> StreamerInv /\ Phases /\ RowsInv /\ SettledAs(Whole)
BY DEF VectorIInv, Phases, RowsInv

\* What holds in every reachable state.
THEOREM VectorInductive == Spec => []VectorIInv
<1>1. Init => VectorIInv
  <2> SUFFICES ASSUME Init PROVE VectorIInv
    OBVIOUS
  <2>1. StreamerInv
    BY StreamerInit DEF Init
  <2>2. Phases /\ SettledAs(Whole)
    BY DEF Init, StraightInit, Pg!ScannerInit, Phases, InStep, ConnHeld, SettledAs, Pg!Opened
  <2> QED BY <2>1, <2>2, RowsInit, VectorParts
<1>2. VectorIInv /\ [Next]_vars => VectorIInv'
  <2> SUFFICES ASSUME VectorIInv, [Next]_vars PROVE VectorIInv'
    OBVIOUS
  <2>1. StreamerInv /\ Phases /\ RowsInv /\ SettledAs(Whole) /\ ChanTypeOK
    BY VectorParts DEF StreamerInv, StraightTypeOK
  <2>2. StreamerInv' /\ Phases' /\ RowsInv' /\ SettledAs(Whole)'
    BY <2>1, StreamerStep, PhasesStep, RowsStep, SettledVector
  <2> QED BY <2>2 DEF VectorIInv, Phases, RowsInv
<1> QED BY <1>1, <1>2, PTL DEF Spec

\* When the run is over, or ended before it began, the connection is closed or
\* was never opened.
THEOREM ConnAlwaysReleased == Spec => []ConnReleased
<1>1. VectorIInv => ConnReleased
  BY DEF VectorIInv, InStep, ConnHeld, ConnReleased, Ended
<1> QED BY <1>1, VectorInductive, PTL

\* What was received is what was handed out, up to the chunk taken last.
LEMMA ReceivedIsDelivered ==
  ASSUME VectorIInv
  PROVE  /\ taken \in Nat /\ taken <= Len(delivered)
         /\ \A k \in 1 .. taken : Received[k] = delivered[k]
<1>1. taken \in Nat /\ Len(emitted) \in Nat /\ taken <= Len(emitted) /\ Len(emitted) <= chunk
      /\ chunk = Len(delivered) /\ chunk \in Nat
  BY DEF VectorIInv, StreamerInv, StraightTypeOK, ChanTypeOK, EmittedPrefix, RowTypes
<1>2. \A k \in 1 .. taken : emitted[k] + 1 = k
  BY <1>1 DEF VectorIInv, StreamerInv, EmittedPrefix
<1> QED BY <1>1, <1>2 DEF Received

\* The batches the caller gets are the rows in order, full but for the last of
\* a result that came to its end.
THEOREM BatchesAreTheRows == Spec => []ChunksAreTheRows
<1>1. VectorIInv => ChunksAreTheRows
  <2> SUFFICES ASSUME VectorIInv, NEW k \in 1 .. taken
               PROVE  /\ Len(Received[k]) \in 1 .. Size
                      /\ \A i \in 1 .. Len(Received[k]) : Received[k][i] = (k - 1) * Size + i
                      /\ Len(Received[k]) < Size =>
                           k = taken /\ (k - 1) * Size + Len(Received[k]) = total /\ ~rowsErr
    BY DEF ChunksAreTheRows
  <2>1. taken \in Nat /\ taken <= Len(delivered) /\ Received[k] = delivered[k]
        /\ k \in 1 .. Len(delivered) /\ Len(delivered) \in Nat
    BY ReceivedIsDelivered DEF VectorIInv, RowTypes
  <2>2. /\ Len(delivered[k]) \in 1 .. Size
        /\ \A i \in 1 .. Len(delivered[k]) : delivered[k][i] = (k - 1) * Size + i
        /\ Len(delivered[k]) < Size => k = Len(delivered) /\ Handed = total /\ ~rowsErr
    BY <2>1 DEF VectorIInv, BatchesAreRows
  <2>3. k = Len(delivered) => k = taken /\ Handed = (k - 1) * Size + Len(delivered[k])
    BY <2>1 DEF Handed
  <2> QED BY <2>1, <2>2, <2>3
<1> QED BY <1>1, VectorInductive, PTL

\* The Iterator's invariant, with one reader.
LEMMA VectorCalls == ASSUME OneReader PROVE Spec => []IteratorIInv
<1>1. Init => IteratorIInv
  BY IteratorInitInv DEF Init, StraightInit
<1>2. VectorIInv /\ IteratorIInv /\ [Next]_vars => IteratorIInv'
  <2> SUFFICES ASSUME VectorIInv, IteratorIInv, [Next]_vars PROVE IteratorIInv'
    OBVIOUS
  <2>1. CASE UNCHANGED <<iteratorVars, outVars, errVars>>
    <3>1. RunStep
      BY <2>1 DEF outVars, errVars, RunStep
    <3> QED BY <3>1, RunStepInv
  <2>2. CASE Streamer
    <3>1. UNCHANGED iteratorVars
      BY <2>2 DEF Streamer, ScannerNext, NextIsBatch, NextIsEnd, NextFails, Passing, CloseBegins,
                  CloseEnds
    <3>2. CASE Moves
      BY <3>1, <3>2, MovesAreRunSteps, RunStepInv DEF VectorIInv
    <3>3. CASE UNCHANGED straightVars
      BY <2>1, <3>1, <3>3 DEF straightVars, chanVars
    <3> QED BY <2>2, <3>2, <3>3, StreamerMoves
  <2>3. CASE Cancellation
    BY <2>3, ContextsAreRunSteps, RunStepInv DEF Cancellation
  <2>4. CASE IteratorCalls
    BY <2>4, OneReader, CallsInv DEF IteratorCalls, VectorIInv, StreamerInv, StraightTypeOK
  <2>5. CASE OpenBatch \/ ReturnOpenError \/ ServerFallsSilent \/ UNCHANGED vars
    BY <2>1, <2>5 DEF OpenBatch, ReturnOpenError, ServerFallsSilent, vars, straightVars, chanVars
  <2> QED BY <2>2, <2>3, <2>4, <2>5 DEF Next
<1> QED BY <1>1, <1>2, VectorInductive, PTL DEF Spec

\* With one reader a clean end of stream means that every row of the result was
\* received, unless somebody closed the iterator.
THEOREM CleanNextEveryRow == ASSUME OneReader PROVE Spec => []CleanNextIsEveryRow
<1>1. VectorIInv /\ IteratorIInv => CleanNextIsEveryRow
  <2> SUFFICES ASSUME VectorIInv, IteratorIInv, NEW r \in Readers, ret[r] = "nil", ~cancelOnce
               PROVE  RowsReceived = total
    BY DEF CleanNextIsEveryRow
  <2>1. outClosed /\ taken = Len(emitted) /\ errs = << >>
    BY ToldClean DEF AtEnd
  <2>2. pc \in {"closeErrCh", "done"}
    BY <2>1 DEF VectorIInv, StreamerInv, CloseOrder
  <2>3. taken = Len(delivered) /\ Handed = total
    BY <2>1, <2>2 DEF VectorIInv, SettledAs, Whole
  <2>4. delivered \in Seq(Seq(Nat)) /\ (taken = 0 <=> delivered = << >>)
    BY <2>3 DEF VectorIInv, RowTypes
  <2>5. taken # 0 => Received[taken] = delivered[taken]
    BY ReceivedIsDelivered
  <2> QED BY <2>3, <2>4, <2>5 DEF Handed, RowsReceived
<1> QED BY <1>1, VectorInductive, VectorCalls, PTL
=============================================================================
