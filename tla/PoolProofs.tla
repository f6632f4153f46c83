----------------------------- MODULE PoolProofs -----------------------------
(***************************************************************************)
(* Proofs of Pool's safety properties, and about the two that run on its    *)
(* goroutines, for any number of workers and chunks and any queue size.     *)
(* VectorPool, whose chunks lie in pooled batches, is Pool as far as the    *)
(* goroutines go, so Pool's theorems hold of it, and no batch is ever in    *)
(* two hands.  In ExecutePool, qpx.Execute with operators, the Iterator is  *)
(* one more caller to the pool, and what its one reader is told is how the  *)
(* run ended.                                                               *)
(***************************************************************************)
EXTENDS VectorPool, ExecutePool, IteratorProofs

-----------------------------------------------------------------------------
(* Queues.                                                                  *)

\* What a queue holds after a send.
LEMMA AppendContents ==
  ASSUME NEW S, NEW q \in Seq(S), NEW x \in S
  PROVE  /\ Append(q, x) \in Seq(S)
         /\ Len(Append(q, x)) = Len(q) + 1
         /\ \A i \in 1 .. Len(q) : Append(q, x)[i] = q[i]
         /\ Append(q, x)[Len(q) + 1] = x
         /\ Contents(Append(q, x)) = Contents(q) \cup {x}
BY DEF Contents

\* What a queue holds after a receive.
LEMMA TailContents ==
  ASSUME NEW S, NEW q \in Seq(S), q # << >>
  PROVE  /\ Head(q) \in S
         /\ Tail(q) \in Seq(S)
         /\ Len(Tail(q)) = Len(q) - 1
         /\ Contents(q) = Contents(Tail(q)) \cup {Head(q)}
<1>1. Head(q) = q[1] /\ Head(q) \in S /\ Len(q) \in Nat \ {0}
  OBVIOUS
<1>2. Tail(q) \in Seq(S) /\ Len(Tail(q)) = Len(q) - 1
  OBVIOUS
<1>3. \A i \in 1 .. Len(q) - 1 : Tail(q)[i] = q[i + 1]
  OBVIOUS
<1>4. \A i \in 2 .. Len(q) : \E j \in 1 .. Len(q) - 1 : q[i] = Tail(q)[j]
  <2> TAKE i \in 2 .. Len(q)
  <2>1. i - 1 \in 1 .. Len(q) - 1 /\ (i - 1) + 1 = i  BY <1>1
  <2>2. Tail(q)[i - 1] = q[(i - 1) + 1]  BY <2>1, <1>3
  <2> QED BY <2>1, <2>2
<1>5. Contents(q) \subseteq Contents(Tail(q)) \cup {Head(q)}
  <2> SUFFICES ASSUME NEW i \in 1 .. Len(q), i # 1 PROVE q[i] \in Contents(Tail(q))
    BY <1>1 DEF Contents
  <2>1. i \in 2 .. Len(q) BY <1>1
  <2> QED BY <2>1, <1>2, <1>4 DEF Contents
<1>6. Contents(Tail(q)) \subseteq Contents(q) /\ Head(q) \in Contents(q)
  <2>1. \A i \in 1 .. Len(q) - 1 : i + 1 \in 1 .. Len(q) BY <1>1
  <2> QED BY <1>1, <1>2, <1>3, <2>1 DEF Contents
<1> QED BY <1>1, <1>2, <1>5, <1>6

-----------------------------------------------------------------------------
(* Types, and what each goroutine holds.                                    *)

TypeInv == TypeOK /\ Hands

\* A run starts with well-typed variables.
LEMMA TypeInit == Init => TypeInv
<1> SUFFICES ASSUME Init PROVE TypeInv
  OBVIOUS
<1>1. << >> \in Seq(Nat) /\ << >> \in Seq(Errors) /\ << >> \in Seq(Chunks) /\ Len(<< >>) = 0
  OBVIOUS
<1>2. QueueSize \in Nat /\ NumChunks \in Nat
  BY RunAssumption
<1>3. /\ parentErr \in BOOLEAN /\ runDone \in BOOLEAN
      /\ outClosed \in BOOLEAN /\ errClosed \in BOOLEAN
      /\ scanFailed \in BOOLEAN /\ closeFailed \in BOOLEAN
      /\ jobsClosed \in BOOLEAN /\ resultsClosed \in BOOLEAN /\ drained \in BOOLEAN
  BY DEF Init, ChanInit
<1>4. emitted = << >> /\ taken = 0 /\ errs = << >> /\ errsTaken = 0
  BY DEF Init, ChanInit
<1>5. ChanTypeOK
  BY <1>1, <1>2, <1>3, <1>4 DEF ChanTypeOK
<1>6. TypeOK
  <2>1. jobs = << >> /\ results = << >> /\ pending = {} /\ next = 0 /\ seq = 0
        /\ opFails \in SUBSET Chunks /\ rpc = "next" /\ apc = "select"
        /\ wpc = [w \in Workers |-> "recv"] /\ wseq = [w \in Workers |-> 0]
    BY DEF Init
  <2> QED BY <1>1, <1>2, <1>3, <1>5, <2>1 DEF TypeOK, ReaderPcs, AsmPcs
<1>7. Hands
  BY DEF Init, Hands
<1> QED BY <1>6, <1>7 DEF TypeInv

\* What sendErr does to the error channel.
LEMMA SendErrEffect ==
  ASSUME ChanTypeOK, NEW e \in Errors, SendErr(e)
  PROVE  /\ errs' \in Seq(Errors) /\ errsTaken' = errsTaken /\ errClosed' = errClosed
         /\ errsTaken' <= Len(errs') /\ Len(errs') - errsTaken' <= 1
         /\ errs # << >> => errs' # << >> /\ errs'[1] = errs[1]
         /\ errs = << >> => errs' = IF errClosed THEN << >> ELSE <<e>>
<1>1. errs \in Seq(Errors) /\ errsTaken \in Nat /\ Len(errs) \in Nat
      /\ errsTaken <= Len(errs) /\ Len(errs) - errsTaken <= 1
  BY DEF ChanTypeOK
<1>2. errsTaken' = errsTaken /\ errClosed' = errClosed
  BY DEF SendErr
<1>3. CASE errs' = errs
  <2>1. errs = << >> => errClosed
    BY <1>1, <1>3 DEF SendErr, OfferErr
  <2> QED BY <1>1, <1>2, <1>3, <2>1
<1>4. CASE errs' = Append(errs, e) /\ Len(errs) - errsTaken < 1 /\ ~errClosed
  <2>1. errs' \in Seq(Errors) /\ Len(errs') = Len(errs) + 1
        /\ (\A i \in 1 .. Len(errs) : errs'[i] = errs[i]) /\ errs'[Len(errs) + 1] = e
    BY <1>1, <1>4, AppendContents
  <2>2. errs # << >> => Len(errs) >= 1
    BY <1>1
  <2>3. errs = << >> => errs' = <<e>>
    BY <1>4
  <2> QED BY <1>1, <1>2, <1>4, <2>1, <2>2, <2>3
<1> QED BY <1>3, <1>4 DEF SendErr, OfferErr

\* Every step keeps the types and what each goroutine holds at a send.
LEMMA TypeStep == TypeInv /\ [Next]_vars => TypeInv'
<1> SUFFICES ASSUME TypeInv, [Next]_vars PROVE TypeInv'
  OBVIOUS
<1> USE RunAssumption, PoolAssumption
    DEF TypeInv, TypeOK, ChanTypeOK, Hands, Chunks, ReaderPcs, AsmPcs,
        vars, chanVars, ctxVars, outVars, errVars, poolVars, readerVars, jobVars,
        workerVars, resultVars, asmVars
<1>0. UNCHANGED chanVars => ChanTypeOK'
  OBVIOUS
<1>1. CASE Reader
  <2>1. CASE ScanChunk BY <2>1 DEF ScanChunk
  <2>2. CASE ScanEnd BY <2>2 DEF ScanEnd
  <2>3. CASE ScanFail BY <2>3 DEF ScanFail
  <2>4. CASE SendJob BY <2>4, SMTT(20) DEF SendJob
  <2>5. CASE ReaderStopped BY <2>5 DEF ReaderStopped
  <2>6. CASE ReportScanErr
    <3>1. SendErr("scan") /\ "scan" \in Errors BY <2>6 DEF ReportScanErr, Errors
    <3>2. ChanTypeOK'
      <4> HIDE DEF TypeInv, Hands
      <4> QED BY <2>6, <3>1, SendErrEffect DEF ReportScanErr, TypeInv
    <3> HIDE DEF ChanTypeOK
    <3> QED BY <2>6, <3>2 DEF ReportScanErr
  <2>7. CASE CancelOnScanErr BY <2>7 DEF CancelOnScanErr, CancelRun
  <2>8. CASE CloseJobs BY <2>8 DEF CloseJobs
  <2>9. CASE CloseScanner BY <2>9 DEF CloseScanner
  <2>10. CASE ReportCloseErr
    <3>1. SendErr("close") /\ "close" \in Errors BY <2>10 DEF ReportCloseErr, Errors
    <3>2. ChanTypeOK' BY <2>10, <3>1, SendErrEffect DEF ReportCloseErr
    <3> QED BY <2>10, <3>2, SMTT(20) DEF ReportCloseErr
  <2>11. CASE SignalReaderDone BY <2>11 DEF SignalReaderDone
  <2> QED BY <1>1, <2>1, <2>2, <2>3, <2>4, <2>5, <2>6, <2>7, <2>8, <2>9, <2>10, <2>11
      DEF Reader, ReadSource, ReportAndSignal
<1>2. ASSUME NEW w \in Workers, Worker(w) PROVE TypeInv'
  <2>1. CASE WorkerStopped(w) BY <2>1 DEF WorkerStopped, WorkerLeave
  <2>2. CASE WorkerNoJobs(w) BY <2>2 DEF WorkerNoJobs, WorkerLeave
  <2>3. CASE WorkerRecv(w)
    <3>1. Head(jobs) \in Chunks /\ Tail(jobs) \in Seq(Chunks) /\ Len(Tail(jobs)) = Len(jobs) - 1
      BY <2>3, TailContents DEF WorkerRecv
    <3>2. UNCHANGED <<chanVars, readerVars, resultVars, asmVars>> /\ jobs' = Tail(jobs)
          /\ wseq' = [wseq EXCEPT ![w] = Head(jobs)] /\ wpc' = [wpc EXCEPT ![w] = "send"]
      BY <2>3 DEF WorkerRecv
    <3>3. ChanTypeOK'
      BY <3>2
    <3>4. wseq' \in [Workers -> Nat] /\ wpc' \in [Workers -> {"recv", "send", "exit"}]
      <4>1. wseq \in [Workers -> Nat] /\ wpc \in [Workers -> {"recv", "send", "exit"}]
        OBVIOUS
      <4>2. Head(jobs) \in Nat
        BY <3>1
      <4> HIDE DEF TypeInv
      <4> QED BY <3>2, <4>1, <4>2
    <3>5. \A v \in Workers : wpc'[v] = "send" => wseq'[v] \in Chunks
      <4> TAKE v \in Workers
      <4>1. CASE v = w
        BY <3>1, <3>2, <4>1
      <4>2. CASE v # w
        BY <3>2, <4>2
      <4> QED BY <4>1, <4>2
    <3> HIDE DEF ChanTypeOK
    <3> QED BY <2>3, <3>1, <3>3, <3>4, <3>5 DEF WorkerRecv
  <2>4. CASE WorkerSend(w) BY <2>4, SMTT(20) DEF WorkerSend
  <2> QED BY <1>2, <2>1, <2>2, <2>3, <2>4 DEF Worker
<1>3. CASE CloseResults BY <1>3 DEF CloseResults
<1>4. CASE Assemble
  <2> USE DEF AsmFrame
  <2>1. CASE AsmStopped BY <2>1 DEF AsmStopped
  <2>2. results # << >> => /\ Head(results) \in Chunks /\ Tail(results) \in Seq(Chunks)
                           /\ Len(Tail(results)) = Len(results) - 1
    BY TailContents
  <2>3. CASE AsmResult
    <3>1. results' \in Seq(Chunks) /\ Len(results') <= QueueSize BY <2>2, <2>3 DEF AsmResult
    <3>2. pending' \subseteq Chunks BY <2>2, <2>3 DEF AsmResult
    <3> QED BY <2>3, <3>1, <3>2, SMTT(20) DEF AsmResult
  <2>4. CASE AsmOpError
    <3>1. SendErr("op") /\ "op" \in Errors BY <2>4 DEF AsmOpError, Errors
    <3>2. ChanTypeOK' BY <2>4, <3>1, SendErrEffect DEF AsmOpError
    <3>3. results' \in Seq(Chunks) /\ Len(results') <= QueueSize BY <2>2, <2>4 DEF AsmOpError
    <3> QED BY <2>4, <3>2, <3>3 DEF AsmOpError
  <2> HIDE DEF ChanTypeOK, chanVars
  <2>5. CASE AsmResultsEnd BY <1>0, <2>5 DEF AsmResultsEnd
  <2> QED BY <1>4, <2>1, <2>3, <2>4, <2>5 DEF Assemble
<1>5. CASE Emit
  <2> USE DEF AsmFrame, AfterEmit
  <2>5. EmitSend => ChanTypeOK'
    <3> SUFFICES ASSUME EmitSend PROVE ChanTypeOK'
      OBVIOUS
    <3>1. next - 1 \in Nat
      BY DEF EmitSend
    <3>2. emitted' \in Seq(Nat) /\ Len(emitted') = Len(emitted) + 1
      BY <3>1 DEF EmitSend
    <3> QED BY <3>2 DEF EmitSend, OutHasRoom
  <2> HIDE DEF ChanTypeOK, chanVars
  <2>3. CASE EmitSend BY <2>3, <2>5 DEF EmitSend
  <2>1. CASE EmitTake BY <1>0, <2>1 DEF EmitTake
  <2>2. CASE EmitMissing BY <1>0, <2>2 DEF EmitMissing
  <2>4. CASE EmitStopped BY <1>0, <2>4 DEF EmitStopped
  <2> QED BY <1>5, <2>1, <2>2, <2>3, <2>4 DEF Emit
<1>6. CASE Teardown
  <2> USE DEF AsmFrame
  <2>1. CASE TeardownCancel BY <2>1 DEF TeardownCancel, CancelRun
  <2>2. CASE TeardownWait BY <2>2 DEF TeardownWait
  <2>3. CASE TeardownParent
    <3>1. ChanTypeOK'
      <4>1. CASE parentErr
        <5>1. SendErr("ctx") /\ "ctx" \in Errors BY <2>3, <4>1 DEF TeardownParent, Errors
        <5> QED BY <2>3, <5>1, SendErrEffect DEF TeardownParent
      <4>2. CASE ~parentErr BY <2>3, <4>2 DEF TeardownParent
      <4> QED BY <4>1, <4>2
    <3> QED BY <2>3, <3>1 DEF TeardownParent
  <2>4. CASE TeardownCloseOut BY <2>4 DEF TeardownCloseOut
  <2>5. CASE TeardownCloseErr BY <2>5 DEF TeardownCloseErr
  <2> QED BY <1>6, <2>1, <2>2, <2>3, <2>4, <2>5 DEF Teardown
<1>7. CASE (Contexts \/ Consumer) /\ UNCHANGED poolVars
  <2>1. CASE CancelParent BY <1>7, <2>1 DEF CancelParent
  <2>2. CASE PropagateCancel BY <1>7, <2>2 DEF PropagateCancel
  <2>3. CASE RecvChunk
    <3>1. UNCHANGED <<parentErr, runDone, emitted, outClosed, errs, errsTaken, errClosed>>
      BY <2>3 DEF RecvChunk
    <3>2. ChanTypeOK'
      <4>1. taken' \in Nat /\ taken' <= Len(emitted) /\ Len(emitted) - taken' <= QueueSize
        BY <2>3 DEF RecvChunk
      <4> QED BY <3>1, <4>1
    <3> HIDE DEF ChanTypeOK
    <3> QED BY <1>7, <3>1, <3>2
  <2>4. CASE RecvErr BY <1>7, <2>4 DEF RecvErr
  <2> QED BY <1>7, <2>1, <2>2, <2>3, <2>4 DEF Contexts, Consumer
<1>8. CASE UNCHANGED vars BY <1>8
<1> QED
  <2> HIDE DEF TypeInv, vars, poolVars
  <2> QED BY <1>1, <1>2, <1>3, <1>4, <1>5, <1>6, <1>7, <1>8 DEF Next, Engine, Reassembler, Finished

-----------------------------------------------------------------------------
(* The order of closes, what can stop the run, and which failures reach     *)
(* errCh.                                                                   *)

Control == Protocol /\ StopHasCause /\ FailuresReported

\* A run starts before any close and without a failure.
LEMMA ControlInit == Init => Control
<1> SUFFICES ASSUME Init PROVE Control
  OBVIOUS
<1>1. errs = << >> BY DEF Init, ChanInit
<1>2. Protocol BY DEF Init, ChanInit, Protocol
<1>3. StopHasCause /\ FailuresReported
  BY <1>1 DEF Init, ChanInit, StopHasCause, FailuresReported
<1> QED BY <1>2, <1>3 DEF Control

\* While the reassembler runs, sendErr leaves an error behind: the one that was
\* there first, or else its own.
LEMMA SendErrReports ==
  ASSUME TypeInv, Protocol, NEW e \in Errors, SendErr(e), apc # "done"
  PROVE  /\ errs' # << >>
         /\ errs'[1] = IF errs = << >> THEN e ELSE errs[1]
         /\ errClosed' = errClosed
<1>1. ChanTypeOK /\ ~errClosed BY DEF TypeInv, TypeOK, Protocol
<1> QED BY <1>1, SendErrEffect

\* Every step keeps the order of the closes and reports the failures it makes.
LEMMA ControlStep == TypeInv /\ Control /\ [Next]_vars => Control'
<1> SUFFICES ASSUME TypeInv, Control, [Next]_vars PROVE Control'
  OBVIOUS
<1>1. Protocol BY DEF Control
<1> USE DEF Control, Protocol, StopHasCause, FailuresReported,
            vars, chanVars, ctxVars, outVars, errVars, poolVars, readerVars, jobVars,
            workerVars, resultVars, asmVars
<1>2. CASE Reader
  <2>1. CASE ScanChunk BY <2>1 DEF ScanChunk
  <2>2. CASE ScanEnd BY <2>2 DEF ScanEnd
  <2>3. CASE ScanFail BY <2>3 DEF ScanFail
  <2>4. CASE SendJob BY <2>4 DEF SendJob
  <2>5. CASE ReaderStopped BY <2>5 DEF ReaderStopped
  <2>6. CASE ReportScanErr
    <3>1. SendErr("scan") /\ "scan" \in Errors /\ apc # "done" BY <2>6 DEF ReportScanErr, Errors
    <3>2. errs' # << >> /\ errs'[1] = (IF errs = << >> THEN "scan" ELSE errs[1]) /\ errClosed' = errClosed
      BY <3>1, <1>1, SendErrReports
    <3> QED BY <2>6, <3>2 DEF ReportScanErr
  <2>7. CASE CancelOnScanErr BY <2>7 DEF CancelOnScanErr, CancelRun
  <2>8. CASE CloseJobs BY <2>8 DEF CloseJobs
  <2>9. CASE CloseScanner BY <2>9 DEF CloseScanner
  <2>10. CASE ReportCloseErr
    <3>1. SendErr("close") /\ "close" \in Errors /\ apc # "done" BY <2>10 DEF ReportCloseErr, Errors
    <3>2. errs' # << >> /\ errs'[1] = (IF errs = << >> THEN "close" ELSE errs[1]) /\ errClosed' = errClosed
      BY <3>1, <1>1, SendErrReports
    <3> QED BY <2>10, <3>2 DEF ReportCloseErr
  <2>11. CASE SignalReaderDone BY <2>11 DEF SignalReaderDone
  <2> QED BY <1>2, <2>1, <2>2, <2>3, <2>4, <2>5, <2>6, <2>7, <2>8, <2>9, <2>10, <2>11
      DEF Reader, ReadSource, ReportAndSignal
<1>3. ASSUME NEW w \in Workers, Worker(w) PROVE Control'
  <2>1. wpc \in [Workers -> {"recv", "send", "exit"}] BY DEF TypeInv, TypeOK
  <2>2. CASE WorkerStopped(w) BY <2>1, <2>2 DEF WorkerStopped, WorkerLeave
  <2>3. CASE WorkerNoJobs(w) BY <2>1, <2>3 DEF WorkerNoJobs, WorkerLeave
  <2>4. CASE WorkerRecv(w)
    <3>1. \A v \in Workers : wpc'[v] = "exit" => wpc[v] = "exit" BY <2>1, <2>4 DEF WorkerRecv
    <3>2. wpc[w] # "exit" /\ jobs # << >> BY <2>4 DEF WorkerRecv
    <3>3. \A v \in Workers : wpc'[v] = "exit" => runDone BY <3>1, <3>2
    <3> QED BY <2>4, <3>2, <3>3 DEF WorkerRecv
  <2>5. CASE WorkerSend(w) BY <2>1, <2>5 DEF WorkerSend
  <2> QED BY <1>3, <2>2, <2>3, <2>4, <2>5 DEF Worker
<1>4. CASE CloseResults BY <1>4 DEF CloseResults
<1>5. CASE Assemble
  <2> USE DEF AsmFrame
  <2>1. CASE AsmStopped BY <2>1 DEF AsmStopped
  <2>2. CASE AsmResult BY <2>2 DEF AsmResult
  <2>3. CASE AsmOpError
    <3>1. SendErr("op") /\ "op" \in Errors /\ apc # "done" BY <2>3 DEF AsmOpError, Errors
    <3>2. errs' # << >> /\ errs'[1] = (IF errs = << >> THEN "op" ELSE errs[1]) /\ errClosed' = errClosed
      BY <3>1, <1>1, SendErrReports
    <3> QED BY <2>3, <3>2 DEF AsmOpError
  <2>4. CASE AsmResultsEnd BY <2>4 DEF AsmResultsEnd
  <2> QED BY <1>5, <2>1, <2>2, <2>3, <2>4 DEF Assemble
<1>6. CASE Emit
  <2> USE DEF AsmFrame, AfterEmit
  <2>1. CASE EmitTake BY <2>1 DEF EmitTake
  <2>2. CASE EmitMissing BY <2>2 DEF EmitMissing
  <2>3. CASE EmitSend BY <2>3 DEF EmitSend
  <2>4. CASE EmitStopped BY <2>4 DEF EmitStopped
  <2> QED BY <1>6, <2>1, <2>2, <2>3, <2>4 DEF Emit
<1>7. CASE Teardown
  <2> USE DEF AsmFrame
  <2>1. CASE TeardownCancel BY <2>1 DEF TeardownCancel, CancelRun
  <2>2. CASE TeardownWait BY <2>2 DEF TeardownWait
  <2>3. CASE TeardownParent
    <3>1. CASE parentErr
      <4>1. SendErr("ctx") /\ "ctx" \in Errors /\ apc # "done" BY <2>3, <3>1 DEF TeardownParent, Errors
      <4>2. errs' # << >> /\ errs'[1] = (IF errs = << >> THEN "ctx" ELSE errs[1]) /\ errClosed' = errClosed
        BY <4>1, <1>1, SendErrReports
      <4> QED BY <2>3, <4>2 DEF TeardownParent
    <3>2. CASE ~parentErr BY <2>3, <3>2 DEF TeardownParent
    <3> QED BY <3>1, <3>2
  <2>4. CASE TeardownCloseOut BY <2>4 DEF TeardownCloseOut
  <2>5. CASE TeardownCloseErr BY <2>5 DEF TeardownCloseErr
  <2> QED BY <1>7, <2>1, <2>2, <2>3, <2>4, <2>5 DEF Teardown
<1>8. CASE (Contexts \/ Consumer) /\ UNCHANGED poolVars
  BY <1>8 DEF Contexts, Consumer, CancelParent, PropagateCancel, RecvChunk, RecvErr
<1>9. CASE UNCHANGED vars BY <1>9
<1> QED
  <2> HIDE DEF Control, vars, poolVars
  <2> QED BY <1>2, <1>3, <1>4, <1>5, <1>6, <1>7, <1>8, <1>9 DEF Next, Engine, Reassembler, Finished

-----------------------------------------------------------------------------
(* The order of what comes out.                                            *)

Order == EmittedBehind /\ NoHoles /\ OpsPassed

\* A run starts with nothing emitted.
LEMMA OrderInit == Init => Order
<1> SUFFICES ASSUME Init PROVE Order
  OBVIOUS
<1>1. emitted = << >> /\ next = 0 /\ apc = "select" /\ pending = {}
  BY DEF Init, ChanInit
<1>2. Len(emitted) = 0 /\ 1 .. Len(emitted) = {}
  BY <1>1
<1> QED BY <1>1, <1>2 DEF Order, EmittedBehind, OutputInOrder, NoHoles, OpsPassed, Contents

\* What came out stays behind the reassembler's next chunk, in order, and free of holes until the run is stopped.
LEMMA OrderStep == TypeInv /\ Order /\ [Next]_vars => Order'
<1> SUFFICES ASSUME TypeInv, Order, [Next]_vars PROVE Order'
  OBVIOUS
<1>0. next \in Nat /\ emitted \in Seq(Nat) /\ Len(emitted) \in Nat /\ pending \subseteq Nat
      /\ (apc = "send" => next > 0)
  BY RunAssumption DEF TypeInv, TypeOK, ChanTypeOK, Hands, Chunks
<1> USE DEF Order, EmittedBehind, OutputInOrder, NoHoles, OpsPassed, Contents
<1>1. ASSUME UNCHANGED <<emitted, apc, next, pending, opFails>>, runDone => runDone'
      PROVE  Order'
  BY <1>0, <1>1
<1> USE DEF vars, chanVars, ctxVars, outVars, errVars, poolVars, readerVars, jobVars,
            workerVars, resultVars, asmVars, AsmFrame
<1>2. CASE Reader
  BY <1>1, <1>2 DEF Reader, ReadSource, ReportAndSignal, ScanChunk, ScanEnd, ScanFail, SendJob,
     ReaderStopped, ReportScanErr, CancelOnScanErr, CancelRun, CloseJobs, CloseScanner,
     ReportCloseErr, SignalReaderDone
<1>3. ASSUME NEW w \in Workers, Worker(w) PROVE Order'
  BY <1>1, <1>3 DEF Worker, WorkerStopped, WorkerNoJobs, WorkerLeave, WorkerRecv, WorkerSend
<1>4. CASE CloseResults
  BY <1>1, <1>4 DEF CloseResults
\* Leaving the main loop, or entering emit, neither emits nor takes anything.
<1>5. ASSUME UNCHANGED <<emitted, next, opFails>>, runDone => runDone',
             apc # "send", apc' # "send", pending' \cap opFails = {}
      PROVE  Order'
  BY <1>0, <1>5
<1>6. CASE Assemble
  <2>1. pending' \cap opFails = {} /\ apc = "select" /\ apc' # "send"
    BY <1>6 DEF Assemble, AsmStopped, AsmResult, AsmOpError, AsmResultsEnd
  <2> QED BY <2>1, <1>5, <1>6 DEF Assemble, AsmStopped, AsmResult, AsmOpError, AsmResultsEnd
<1>7. CASE EmitTake
  <2>1. apc = "emit" /\ next \in pending /\ apc' = "send" /\ next' = next + 1 /\ next' - 1 = next
        /\ pending' = pending \ {next} /\ UNCHANGED <<emitted, opFails, runDone>>
    BY <1>0, <1>7 DEF EmitTake
  <2> QED BY <1>0, <2>1
<1>8. CASE EmitMissing
  BY <1>5, <1>8 DEF EmitMissing, AfterEmit
<1>9. CASE EmitSend
  <2>1. apc = "send" /\ apc' = "emit" /\ emitted' = Append(emitted, next - 1) /\ next - 1 \in Nat
        /\ UNCHANGED <<next, pending, opFails, runDone>>
    BY <1>0, <1>9 DEF EmitSend
  <2>2. /\ Len(emitted') = Len(emitted) + 1
        /\ \A i \in 1 .. Len(emitted) : emitted'[i] = emitted[i]
        /\ emitted'[Len(emitted) + 1] = next - 1
        /\ Contents(emitted') = Contents(emitted) \cup {next - 1}
    BY <1>0, <2>1, AppendContents
  <2>3. EmittedBehind' BY <1>0, <2>1, <2>2
  <2>4. NoHoles' BY <1>0, <2>1, <2>2
  <2>5. OpsPassed'
    <3> HIDE DEF Contents
    <3> QED BY <2>1, <2>2
  <2> QED BY <2>3, <2>4, <2>5
<1>10. CASE EmitStopped
  <2>1. apc = "send" /\ apc' # "send" /\ runDone /\ UNCHANGED <<runDone, emitted, next, pending, opFails>>
    BY <1>10 DEF EmitStopped, AfterEmit
  <2> QED BY <1>0, <2>1
<1>11. CASE Teardown
  BY <1>5, <1>11 DEF Teardown, TeardownCancel, CancelRun, TeardownWait, TeardownParent,
     TeardownCloseOut, TeardownCloseErr
<1>12. CASE (Contexts \/ Consumer) /\ UNCHANGED poolVars
  BY <1>1, <1>12 DEF Contexts, Consumer, CancelParent, PropagateCancel, RecvChunk, RecvErr
<1>13. CASE UNCHANGED vars
  BY <1>1, <1>13
<1> QED
  <2> HIDE DEF Order, vars, poolVars
  <2> QED BY <1>2, <1>3, <1>4, <1>6, <1>7, <1>8, <1>9, <1>10, <1>11, <1>12, <1>13
      DEF Next, Engine, Reassembler, Emit, Finished

-----------------------------------------------------------------------------
(* No chunk is lost while nothing stopped the run.                         *)

\* At the start no chunk is scanned.
LEMMA NothingLostInit == Init => NothingLost
BY RunAssumption DEF Init, ChanInit, NothingLost, Chunks

\* While nothing stops the run each step leaves every scanned chunk somewhere.
LEMMA NothingLostStep ==
  TypeInv /\ Control /\ NothingLost /\ [Next]_vars => NothingLost'
<1> SUFFICES ASSUME TypeInv, Control, NothingLost, [Next]_vars, ~runDone', errs' = << >>
             PROVE  /\ \A s \in Chunks : s < seq' => s < next' \/ InFlight(s)'
                    /\ rpc' \in {"closeJobs", "close", "closeErr", "signal", "done"} => seq' = NumChunks
  BY DEF NothingLost
<1> DEFINE Goal == /\ \A s \in Chunks : s < seq' => s < next' \/ InFlight(s)'
                   /\ rpc' \in {"closeJobs", "close", "closeErr", "signal", "done"} => seq' = NumChunks
<1>0. /\ NumChunks \in Nat /\ seq \in Nat /\ next \in Nat /\ seq <= NumChunks
      /\ jobs \in Seq(Chunks) /\ results \in Seq(Chunks)
      /\ wpc \in [Workers -> {"recv", "send", "exit"}] /\ wseq \in [Workers -> Nat]
      /\ (rpc = "send" => seq - 1 \in Chunks)
      /\ \A w \in Workers : wpc[w] = "send" => wseq[w] \in Chunks
  BY RunAssumption DEF TypeInv, TypeOK, Hands, Chunks
\* No error goes unnoticed here: a step that reports one leaves errs non-empty.
<1>1. ASSUME NEW e \in Errors, SendErr(e), apc # "done" PROVE FALSE
  BY <1>1, SendErrReports DEF Control
<1>2. ASSUME ~runDone, errs = << >>
      PROVE  /\ \A s \in Chunks : s < seq => s < next \/ InFlight(s)
             /\ rpc \in {"closeJobs", "close", "closeErr", "signal", "done"} => seq = NumChunks
  BY <1>2 DEF NothingLost
\* Steps that leave the chunks where they are.
<1>3. ASSUME UNCHANGED <<runDone, errs, seq, next, rpc, jobs, wpc, wseq, results, pending>> PROVE Goal
  BY <1>2, <1>3 DEF InFlight, Contents
<1> USE DEF vars, chanVars, ctxVars, outVars, errVars, poolVars, readerVars, jobVars,
            workerVars, resultVars, asmVars, AsmFrame
<1>4. CASE Reader
  <2>1. CASE ScanChunk
    <3>1. /\ UNCHANGED <<runDone, errs, next, jobs, wpc, wseq, results, pending>>
          /\ rpc = "next" /\ rpc' = "send" /\ seq' = seq + 1
      BY <2>1 DEF ScanChunk
    <3>2. ASSUME NEW s \in Chunks, s < seq' PROVE s = seq' - 1 \/ s < seq
      BY <3>1, <3>2, <1>0 DEF Chunks
    <3> QED BY <3>1, <3>2, <1>2 DEF InFlight, Contents
  <2>2. CASE ScanEnd
    BY <2>2, <1>2 DEF ScanEnd, InFlight, Contents
  <2>3. CASE ScanFail
    BY <2>3, <1>2 DEF ScanFail, InFlight, Contents
  <2>4. CASE SendJob
    <3>1. /\ UNCHANGED <<runDone, errs, seq, next, wpc, wseq, results, pending>>
          /\ rpc = "send" /\ rpc' = "next" /\ jobs' = Append(jobs, seq - 1)
      BY <2>4 DEF SendJob
    <3>2. Contents(jobs') = Contents(jobs) \cup {seq - 1}
      BY <3>1, <1>0, AppendContents
    <3> QED BY <3>1, <3>2, <1>2 DEF InFlight
  <2>5. CASE ReaderStopped
    BY <2>5 DEF ReaderStopped
  <2>6. CASE ReportScanErr
    <3>1. SendErr("scan") /\ apc # "done" BY <2>6 DEF ReportScanErr, Control, Protocol
    <3> QED BY <3>1, <1>1 DEF Errors
  <2>7. CASE CancelOnScanErr
    BY <2>7 DEF CancelOnScanErr, CancelRun
  <2>8. CASE CloseJobs
    BY <2>8, <1>2 DEF CloseJobs, InFlight, Contents
  <2>9. CASE CloseScanner
    BY <2>9, <1>2 DEF CloseScanner, InFlight, Contents
  <2>10. CASE ReportCloseErr
    <3>1. SendErr("close") /\ apc # "done" BY <2>10 DEF ReportCloseErr, Control, Protocol
    <3> QED BY <3>1, <1>1 DEF Errors
  <2>11. CASE SignalReaderDone
    BY <2>11, <1>2 DEF SignalReaderDone, InFlight, Contents
  <2> QED BY <1>4, <2>1, <2>2, <2>3, <2>4, <2>5, <2>6, <2>7, <2>8, <2>9, <2>10, <2>11
      DEF Reader, ReadSource, ReportAndSignal
<1>5. ASSUME NEW w \in Workers, Worker(w) PROVE Goal
  <2>1. CASE WorkerStopped(w)
    BY <2>1 DEF WorkerStopped, WorkerLeave
  <2>2. CASE WorkerNoJobs(w)
    <3>1. UNCHANGED <<runDone, errs, seq, next, rpc, jobs, results, pending>>
      BY <2>2 DEF WorkerNoJobs, WorkerLeave
    <3>2. \A v \in Workers : wpc[v] = "send" => wpc'[v] = "send" /\ wseq'[v] = wseq[v]
      BY <2>2, <1>0 DEF WorkerNoJobs, WorkerLeave
    <3> QED BY <3>1, <3>2, <1>2 DEF InFlight, Contents
  <2>3. CASE WorkerRecv(w)
    <3>1. UNCHANGED <<runDone, errs, seq, next, rpc, results, pending>> /\ jobs' = Tail(jobs) /\ jobs # << >>
      BY <2>3 DEF WorkerRecv
    <3>2. Contents(jobs) = Contents(jobs') \cup {Head(jobs)}
      BY <3>1, <1>0, TailContents
    <3>3. wpc'[w] = "send" /\ wseq'[w] = Head(jobs)
      BY <2>3, <1>0 DEF WorkerRecv
    <3>4. \A v \in Workers : wpc[v] = "send" => wpc'[v] = "send" /\ wseq'[v] = wseq[v]
      BY <2>3, <1>0 DEF WorkerRecv
    <3> HIDE DEF Contents
    <3>5. ASSUME NEW s \in Chunks, InFlight(s) PROVE InFlight(s)'
      BY <3>1, <3>2, <3>3, <3>4, <3>5 DEF InFlight, Contents
    <3> QED BY <3>1, <3>5, <1>2
  <2>4. CASE WorkerSend(w)
    <3>1. UNCHANGED <<runDone, errs, seq, next, rpc, jobs, pending>> /\ results' = Append(results, wseq[w])
          /\ wpc[w] = "send"
      BY <2>4 DEF WorkerSend
    <3>2. Contents(results') = Contents(results) \cup {wseq[w]}
      BY <3>1, <1>0, AppendContents
    <3>3. \A v \in Workers \ {w} : wpc[v] = "send" => wpc'[v] = "send" /\ wseq'[v] = wseq[v]
      BY <2>4, <1>0 DEF WorkerSend
    <3>4. ASSUME NEW s \in Chunks, InFlight(s) PROVE InFlight(s)'
      BY <3>1, <3>2, <3>3, <3>4 DEF InFlight, Contents
    <3> QED BY <3>1, <3>4, <1>2
  <2> QED BY <1>5, <2>1, <2>2, <2>3, <2>4 DEF Worker
<1>6. CASE CloseResults
  BY <1>6, <1>3 DEF CloseResults
<1>7. CASE Assemble
  <2>1. CASE AsmStopped BY <2>1, <1>3 DEF AsmStopped
  <2>2. CASE AsmResult
    <3>1. /\ UNCHANGED <<runDone, errs, seq, next, rpc, jobs, wpc, wseq>>
          /\ results' = Tail(results) /\ results # << >> /\ pending' = pending \cup {Head(results)}
      BY <2>2 DEF AsmResult
    <3>2. Contents(results) = Contents(results') \cup {Head(results)}
      BY <3>1, <1>0, TailContents
    <3>3. ASSUME NEW s \in Chunks, InFlight(s) PROVE InFlight(s)'
      BY <3>1, <3>2, <3>3 DEF InFlight, Contents
    <3> QED BY <3>1, <3>3, <1>2
  <2>3. CASE AsmOpError
    <3>1. SendErr("op") /\ apc # "done" BY <2>3 DEF AsmOpError
    <3> QED BY <3>1, <1>1 DEF Errors
  <2>4. CASE AsmResultsEnd BY <2>4, <1>3 DEF AsmResultsEnd
  <2> QED BY <1>7, <2>1, <2>2, <2>3, <2>4 DEF Assemble
<1>8. CASE Emit
  <2>1. CASE EmitTake
    <3>1. /\ UNCHANGED <<runDone, errs, seq, rpc, jobs, wpc, wseq, results>>
          /\ pending' = pending \ {next} /\ next' = next + 1
      BY <2>1 DEF EmitTake
    <3>2. ASSUME NEW s \in Chunks, s < next \/ InFlight(s) PROVE s < next' \/ InFlight(s)'
      <4>1. CASE s < next BY <4>1, <3>1, <1>0 DEF Chunks
      <4>2. CASE s = next BY <4>2, <3>1, <1>0
      <4>3. CASE InFlight(s) /\ s # next BY <4>3, <3>1 DEF InFlight, Contents
      <4> QED BY <3>2, <4>1, <4>2, <4>3
    <3> QED BY <3>1, <3>2, <1>2
  <2>2. CASE EmitMissing BY <2>2, <1>3 DEF EmitMissing
  <2>3. CASE EmitSend BY <2>3, <1>3 DEF EmitSend
  <2>4. CASE EmitStopped BY <2>4, <1>3 DEF EmitStopped
  <2> QED BY <1>8, <2>1, <2>2, <2>3, <2>4 DEF Emit
<1>9. CASE Teardown
  <2>1. CASE TeardownCancel BY <2>1 DEF TeardownCancel, CancelRun
  <2>2. CASE TeardownWait BY <2>2, <1>3 DEF TeardownWait
  <2>3. CASE TeardownParent
    <3>1. ~parentErr
      <4> SUFFICES ASSUME parentErr PROVE FALSE
        OBVIOUS
      <4>1. SendErr("ctx") /\ apc # "done" BY <2>3 DEF TeardownParent
      <4> QED BY <4>1, <1>1 DEF Errors
    <3> QED BY <2>3, <3>1, <1>3 DEF TeardownParent
  <2>4. CASE TeardownCloseOut BY <2>4, <1>3 DEF TeardownCloseOut
  <2>5. CASE TeardownCloseErr BY <2>5, <1>3 DEF TeardownCloseErr
  <2> QED BY <1>9, <2>1, <2>2, <2>3, <2>4, <2>5 DEF Teardown
<1>10. CASE (Contexts \/ Consumer) /\ UNCHANGED poolVars
  BY <1>10, <1>3 DEF Contexts, Consumer, CancelParent, PropagateCancel, RecvChunk, RecvErr
<1>11. CASE UNCHANGED vars
  BY <1>11, <1>3
<1> QED
  <2> HIDE DEF vars, poolVars
  <2> QED BY <1>4, <1>5, <1>6, <1>7, <1>8, <1>9, <1>10, <1>11 DEF Next, Engine, Reassembler, Finished

-----------------------------------------------------------------------------
(* How the run ended is settled before the channels close.                *)

\* When the reassembler has drained the results of a run nothing stopped, no
\* chunk can be anywhere else, so all of them are out.
LEMMA DrainedIsComplete ==
  ASSUME TypeInv, Control, Order, NothingLost,
         apc = "emit", drained, next \notin pending, ~runDone, errs = << >>
  PROVE  Complete
<1>1. PICK w \in Workers : TRUE
  BY PoolAssumption
<1>2. results = << >> /\ \A v \in Workers : wpc[v] = "exit"
  BY DEF Control, Protocol
<1>3. jobsClosed /\ jobs = << >>
  BY <1>1, <1>2 DEF Control, Protocol
<1>4. rpc \in {"close", "closeErr", "signal", "done"} /\ seq = NumChunks
  BY <1>3 DEF Control, Protocol, NothingLost
<1>5. Contents(jobs) = {} /\ Contents(results) = {}
  BY <1>2, <1>3 DEF Contents
<1>6. \A s \in Chunks : ~(s < seq) \/ s < next \/ s \in pending
  BY <1>2, <1>4, <1>5 DEF NothingLost, InFlight
<1>7. NumChunks \in Nat /\ next \in 0 .. NumChunks
  BY RunAssumption DEF TypeInv, TypeOK
<1>8. next = NumChunks
  <2> SUFFICES ASSUME next < NumChunks PROVE FALSE
    BY <1>7
  <2>1. next \in Chunks /\ next < seq /\ ~(next < next)
    BY <1>4, <1>7 DEF Chunks
  <2> QED BY <2>1, <1>6
<1>9. Len(emitted) = NumChunks /\ \A i \in 1 .. NumChunks : emitted[i] = i - 1
  BY <1>8 DEF Order, NoHoles
<1>10. ASSUME NEW s \in opFails PROVE FALSE
  <2>1. s \in 0 .. NumChunks - 1
    BY <1>10 DEF TypeInv, TypeOK, Chunks
  <2>2. s + 1 \in 1 .. NumChunks /\ (s + 1) - 1 = s
    BY <2>1, <1>7
  <2>3. emitted[s + 1] = s
    BY <2>2, <1>9
  <2>4. s \in Contents(emitted)
    BY <2>2, <2>3, <1>9 DEF Contents
  <2> QED BY <2>4, <1>10 DEF Order, OpsPassed
<1> QED BY <1>9, <1>10 DEF Complete

\* A run does not start in its teardown.
LEMMA SettledInit == Init => Settled
BY DEF Init, Settled

\* The teardown begins with a complete run or a cause for an incomplete one.
LEMMA SettledStep ==
  TypeInv /\ Control /\ Order /\ NothingLost /\ Settled /\ [Next]_vars => Settled'
<1> SUFFICES ASSUME TypeInv, Control, Order, NothingLost, Settled, [Next]_vars PROVE Settled'
  OBVIOUS
\* An outcome that is settled stays so: nothing is emitted any more, and errors
\* and the caller's cancellation do not go away.
<1>1. ASSUME apc' = apc, emitted' = emitted \/ apc = "send", opFails' = opFails,
             errs # << >> => errs' # << >>, parentErr => parentErr'
      PROVE  Settled'
  BY <1>1 DEF Settled, Complete
<1>2. ASSUME NEW e \in Errors, SendErr(e), apc # "done" PROVE errs' # << >>
  BY <1>2, SendErrReports DEF Control
\* On an ended runCtx the reassembler leaves its loop for a reason.
<1>3. ASSUME runDone, apc \in {"select", "emit", "send"} PROVE errs # << >> \/ parentErr
  BY <1>3 DEF Control, StopHasCause
<1> USE DEF vars, chanVars, ctxVars, outVars, errVars, poolVars, readerVars, jobVars,
            workerVars, resultVars, asmVars, AsmFrame
<1>4. CASE Reader
  <2>1. UNCHANGED <<apc, emitted, opFails, parentErr>>
    BY <1>4 DEF Reader, ReadSource, ReportAndSignal, ScanChunk, ScanEnd, ScanFail, SendJob,
       ReaderStopped, ReportScanErr, CancelOnScanErr, CancelRun, CloseJobs, CloseScanner,
       ReportCloseErr, SignalReaderDone
  <2>2. errs' = errs \/ \E e \in {"scan", "close"} : SendErr(e) /\ rpc # "done"
    BY <1>4 DEF Reader, ReadSource, ReportAndSignal, ScanChunk, ScanEnd, ScanFail, SendJob,
       ReaderStopped, ReportScanErr, CancelOnScanErr, CloseJobs, CloseScanner,
       ReportCloseErr, SignalReaderDone
  <2>3. rpc # "done" => apc # "done" BY DEF Control, Protocol
  <2>4. errs # << >> => errs' # << >> BY <2>2, <2>3, <1>2 DEF Errors
  <2> QED BY <2>1, <2>4, <1>1
<1>5. ASSUME NEW w \in Workers, Worker(w) PROVE Settled'
  BY <1>1, <1>5 DEF Worker, WorkerStopped, WorkerNoJobs, WorkerLeave, WorkerRecv, WorkerSend
<1>6. CASE CloseResults
  BY <1>1, <1>6 DEF CloseResults
<1>7. CASE Assemble
  <2>1. CASE AsmStopped BY <2>1, <1>3 DEF AsmStopped, Settled
  <2>2. CASE AsmResult BY <2>2 DEF AsmResult, Settled
  <2>3. CASE AsmOpError
    <3>1. errs' # << >> BY <2>3, <1>2 DEF AsmOpError, Errors
    <3> QED BY <2>3, <3>1 DEF AsmOpError, Settled
  <2>4. CASE AsmResultsEnd BY <2>4 DEF AsmResultsEnd, Settled
  <2> QED BY <1>7, <2>1, <2>2, <2>3, <2>4 DEF Assemble
<1>8. CASE Emit
  <2>1. CASE EmitTake BY <2>1 DEF EmitTake, Settled
  <2>2. CASE EmitMissing
    <3>1. CASE drained
      <4>1. Complete \/ errs # << >> \/ parentErr
        BY <2>2, <3>1, <1>3, DrainedIsComplete DEF EmitMissing
      <4> QED BY <2>2, <3>1, <4>1 DEF EmitMissing, AfterEmit, Settled, Complete
    <3>2. CASE ~drained BY <2>2, <3>2 DEF EmitMissing, AfterEmit, Settled
    <3> QED BY <3>1, <3>2
  <2>3. CASE EmitSend BY <2>3 DEF EmitSend, Settled
  <2>4. CASE EmitStopped BY <2>4, <1>3 DEF EmitStopped, AfterEmit, Settled
  <2> QED BY <1>8, <2>1, <2>2, <2>3, <2>4 DEF Emit
<1>9. CASE Teardown
  <2>1. CASE TeardownCancel BY <2>1 DEF TeardownCancel, CancelRun, Settled, Complete
  <2>2. CASE TeardownWait BY <2>2 DEF TeardownWait, Settled, Complete
  <2>3. CASE TeardownParent
    <3>1. CASE parentErr
      <4>1. errs' # << >> BY <2>3, <3>1, <1>2 DEF TeardownParent, Errors
      <4> QED BY <2>3, <4>1 DEF TeardownParent, Settled
    <3>2. CASE ~parentErr BY <2>3, <3>2 DEF TeardownParent, Settled, Complete
    <3> QED BY <3>1, <3>2
  <2>4. CASE TeardownCloseOut BY <2>4 DEF TeardownCloseOut, Settled, Complete
  <2>5. CASE TeardownCloseErr BY <2>5 DEF TeardownCloseErr, Settled, Complete
  <2> QED BY <1>9, <2>1, <2>2, <2>3, <2>4, <2>5 DEF Teardown
<1>10. CASE (Contexts \/ Consumer) /\ UNCHANGED poolVars
  <2>1. CASE Contexts \/ RecvErr
    BY <1>10, <2>1, <1>1 DEF Contexts, CancelParent, PropagateCancel, RecvErr
  <2>2. CASE RecvChunk BY <1>10, <2>2, <1>1 DEF RecvChunk
  <2> QED BY <1>10, <2>1, <2>2 DEF Consumer
<1>11. CASE UNCHANGED vars
  BY <1>1, <1>11
<1> QED
  <2> HIDE DEF vars, poolVars
  <2> QED BY <1>4, <1>5, <1>6, <1>7, <1>8, <1>9, <1>10, <1>11 DEF Next, Engine, Reassembler, Finished

-----------------------------------------------------------------------------
(* The theorems.                                                            *)

\* The invariant by the parts the lemmas are about.
LEMMA IInvParts == IInv <=> TypeInv /\ Control /\ Order /\ NothingLost /\ Settled
BY DEF IInv, TypeInv, Control, Order

\* The inductive invariant holds in every reachable state.
THEOREM Inductive == Spec => []IInv
<1>1. Init => IInv
  BY IInvParts, TypeInit, ControlInit, OrderInit, NothingLostInit, SettledInit
<1>2. IInv /\ [Next]_vars => IInv'
  <2> SUFFICES ASSUME IInv, [Next]_vars PROVE IInv'
    OBVIOUS
  <2>1. TypeInv /\ Control /\ Order /\ NothingLost /\ Settled
    BY IInvParts
  <2>2. TypeInv' /\ Control' /\ Order' /\ NothingLost' /\ Settled'
    BY <2>1, TypeStep, ControlStep, OrderStep, NothingLostStep, SettledStep
  <2> QED BY <2>2 DEF IInv, TypeInv, Control, Order
<1> QED BY <1>1, <1>2, PTL DEF Spec

\* Every variable keeps its type and no channel holds more than its capacity.
THEOREM TypeCorrect == Spec => []TypeOK
<1>1. IInv => TypeOK BY DEF IInv
<1> QED BY <1>1, Inductive, PTL

\* No goroutine ever sends on, or closes again, a channel that is closed, and
\* errCh outlives everything the reader could report.
THEOREM NeverSendsOnClosed == Spec => []NoSendOnClosed
<1>1. IInv => NoSendOnClosed
  BY DEF IInv, Protocol, NoSendOnClosed
<1> QED BY <1>1, Inductive, PTL

\* Chunks come out in source order, none twice, for any number of workers.
THEOREM InOrder == Spec => []OutputInOrder
<1>1. IInv => OutputInOrder BY DEF IInv, EmittedBehind
<1> QED BY <1>1, Inductive, PTL

\* Until something stops the run its output is a prefix of the source.
THEOREM Contiguous == Spec => []ContiguousUntilStop
<1>1. IInv => ContiguousUntilStop BY DEF IInv, NoHoles, ContiguousUntilStop
<1> QED BY <1>1, Inductive, PTL

LEMMA InvCleanEOF == IInv => CleanEOFIsComplete
<1> SUFFICES ASSUME IInv, outClosed, errs = << >>
             PROVE  Len(emitted) = NumChunks /\ opFails = {} /\ ~scanFailed /\ ~closeFailed
  BY DEF CleanEOFIsComplete
<1>1. apc \in {"closeErr", "done"} /\ rpc = "done"
  BY DEF IInv, Protocol
<1>2. Complete
  BY <1>1 DEF IInv, Settled
<1>3. ~scanFailed /\ ~closeFailed
  BY <1>1 DEF IInv, FailuresReported
<1> QED BY <1>2, <1>3 DEF Complete

\* A run that ends without an error delivered the whole source, and nothing in
\* it failed.
THEOREM CleanEOF == Spec => []CleanEOFIsComplete
BY InvCleanEOF, Inductive, PTL

\* Of a scan error and a close error the scan error is the one reported.
THEOREM ScanBeforeClose == Spec => []ScanErrorBeatsCloseError
<1>1. IInv => ScanErrorBeatsCloseError
  BY DEF IInv, FailuresReported, ScanErrorBeatsCloseError
<1> QED BY <1>1, Inductive, PTL

-----------------------------------------------------------------------------
(* Refinement.                                                              *)

\* A run that starts is an open stream without output.
LEMMA StreamInit == Init => Stream!Init
BY DEF Init, ChanInit, Stream!Init

\* Cancelling an open run is the stream's Stop; cancelling it again, or after
\* its end, is a stutter.
LEMMA CancelMaps ==
  ASSUME runDone' = TRUE, runDone \in BOOLEAN, outClosed \in BOOLEAN,
         UNCHANGED <<emitted, outClosed, errs>>
  PROVE  [Stream!Next]_Stream!streamVars
<1>1. CASE outClosed \/ runDone
  BY <1>1 DEF Stream!streamVars
<1>2. CASE ~outClosed /\ ~runDone
  <2>1. Stream!Stop BY <1>2 DEF Stream!Stop
  <2> QED BY <2>1 DEF Stream!Next
<1> QED BY <1>1, <1>2

\* Errors come before the close of out, so a step that reports one, or that
\* touches neither out nor runCtx, changes nothing the stream shows.
LEMMA QuietMaps ==
  ASSUME UNCHANGED <<emitted, outClosed, runDone>>, errs' = errs \/ outClosed = FALSE
  PROVE  UNCHANGED Stream!streamVars
BY DEF Stream!streamVars

\* Each step of the pool is a step of the stream or none of its business.
LEMMA StreamStep == IInv /\ [Next]_vars => [Stream!Next]_Stream!streamVars
<1> SUFFICES ASSUME IInv, [Next]_vars PROVE [Stream!Next]_Stream!streamVars
  OBVIOUS
<1>0. /\ runDone \in BOOLEAN /\ outClosed \in BOOLEAN
      /\ (outClosed <=> apc \in {"closeErr", "done"}) /\ (apc \in {"closeErr", "done"} => rpc = "done")
  BY DEF IInv, TypeOK, ChanTypeOK, Protocol
<1> USE DEF vars, chanVars, ctxVars, outVars, errVars, poolVars, readerVars, jobVars,
            workerVars, resultVars, asmVars, AsmFrame
<1>1. CASE Reader
  <2>1. CASE CancelOnScanErr
    BY <1>0, <2>1, CancelMaps DEF CancelOnScanErr, CancelRun
  <2>2. CASE ~CancelOnScanErr
    <3>1. UNCHANGED <<emitted, outClosed, runDone>> /\ (errs' = errs \/ rpc # "done")
      BY <1>1, <2>2 DEF Reader, ReadSource, ReportAndSignal, ScanChunk, ScanEnd, ScanFail, SendJob,
         ReaderStopped, ReportScanErr, CloseJobs, CloseScanner, ReportCloseErr, SignalReaderDone
    <3> QED BY <1>0, <3>1, QuietMaps
  <2> QED BY <2>1, <2>2
<1>2. ASSUME NEW w \in Workers, Worker(w) PROVE UNCHANGED Stream!streamVars
  BY <1>2, QuietMaps DEF Worker, WorkerStopped, WorkerNoJobs, WorkerLeave, WorkerRecv, WorkerSend
<1>3. CASE CloseResults
  BY <1>3, QuietMaps DEF CloseResults
<1>4. CASE Assemble
  <2>1. UNCHANGED <<emitted, outClosed, runDone>> /\ apc = "select"
    BY <1>4 DEF Assemble, AsmStopped, AsmResult, AsmOpError, AsmResultsEnd
  <2> QED BY <1>0, <2>1, QuietMaps
<1>5. CASE EmitTake \/ EmitMissing \/ EmitStopped
  BY <1>5, QuietMaps DEF EmitTake, EmitMissing, EmitStopped
<1>6. CASE EmitSend
  <2>1. /\ apc = "send" /\ emitted' = Append(emitted, next - 1)
        /\ UNCHANGED <<outClosed, errs, runDone>>
    BY <1>6 DEF EmitSend
  <2>2. next \in 1 .. NumChunks /\ NumChunks \in Nat
    BY <2>1, RunAssumption DEF IInv, TypeOK, Hands
  <2>3. \A i \in 1 .. Len(emitted) : emitted[i] < next - 1
    BY <2>1 DEF IInv, EmittedBehind
  <2>4. ~runDone => next - 1 = Len(emitted)
    BY <2>1 DEF IInv, NoHoles
  <2>5. ~outClosed
    BY <2>1, <1>0
  <2>6. Stream!Emit(next - 1)
    BY <2>1, <2>2, <2>3, <2>4, <2>5 DEF Stream!Emit, Stream!Running
  <2>7. next - 1 \in 0 .. NumChunks - 1
    BY <2>2
  <2> QED BY <2>6, <2>7 DEF Stream!Next
<1>7. CASE Teardown
  <2>1. CASE TeardownCancel
    BY <1>0, <2>1, CancelMaps DEF TeardownCancel, CancelRun
  <2>2. CASE TeardownWait \/ TeardownParent \/ TeardownCloseErr
    <3>1. UNCHANGED <<emitted, outClosed, runDone>> /\ (errs' = errs \/ apc = "parent")
      BY <2>2 DEF TeardownWait, TeardownParent, TeardownCloseErr
    <3> QED BY <1>0, <3>1, QuietMaps
  <2>3. CASE TeardownCloseOut
    <3>1. apc = "closeOut" /\ outClosed' = TRUE /\ UNCHANGED <<emitted, errs, runDone>>
      BY <2>3 DEF TeardownCloseOut
    <3>2. ~outClosed
      BY <3>1, <1>0
    <3>3. errs # << >> \/ Len(emitted) = NumChunks
      BY <3>1 DEF IInv, Settled, Complete
    <3>4. CASE errs = << >>
      <4>1. Stream!EndClean
        BY <3>1, <3>2, <3>3, <3>4 DEF Stream!EndClean, Stream!Running
      <4> QED BY <4>1 DEF Stream!Next
    <3>5. CASE errs # << >>
      <4>1. Stream!EndFailed
        BY <3>1, <3>2, <3>5 DEF Stream!EndFailed, Stream!Running
      <4> QED BY <4>1 DEF Stream!Next
    <3> QED BY <3>4, <3>5
  <2> QED BY <1>7, <2>1, <2>2, <2>3 DEF Teardown
<1>8. CASE (Contexts \/ Consumer) /\ UNCHANGED poolVars
  <2>1. CASE PropagateCancel
    BY <1>0, <2>1, CancelMaps DEF PropagateCancel
  <2>2. CASE CancelParent \/ Consumer
    BY <2>2, QuietMaps DEF CancelParent, Consumer, RecvChunk, RecvErr
  <2> QED BY <1>8, <2>1, <2>2 DEF Contexts
<1>9. CASE UNCHANGED vars
  BY <1>9, QuietMaps
<1> QED
  <2> HIDE DEF vars, poolVars
  <2> QED BY <1>1, <1>2, <1>3, <1>4, <1>5, <1>6, <1>7, <1>8, <1>9
      DEF Next, Engine, Reassembler, Emit, Finished

\* Every run of the pool is a behaviour of the abstract stream: in order, without
\* holes while it is open, ended once, and clean only when complete.
THEOREM Refinement == Spec => RefinesStream
<1>1. IInv /\ [Next]_vars => [Stream!Next]_Stream!streamVars
  BY StreamStep
<1> QED BY <1>1, StreamInit, Inductive, PTL DEF Spec, RefinesStream, Stream!Spec

-----------------------------------------------------------------------------
(* VectorPool is Pool.                                                      *)

\* Every step of VectorPool is one of Pool's, or leaves Pool's state alone.
LEMMA VectorStep == [VectorNext]_vectorVars => [Next]_vars
<1> SUFFICES ASSUME [VectorNext]_vectorVars PROVE [Next]_vars
  OBVIOUS
<1>1. CASE VectorReader
  BY <1>1 DEF VectorReader, FillBatch, Next, Engine, Reader, ReadSource
<1>2. ASSUME NEW w \in Workers, VectorWorker(w) PROVE Next
  <2>1. Worker(w) BY <1>2 DEF VectorWorker, ApplyOps, Worker
  <2> QED BY <2>1 DEF Next, Engine
<1>3. CASE VectorCloser \/ VectorReassembler
  BY <1>3 DEF VectorCloser, VectorReassembler, Next, Engine
<1>4. CASE VectorCaller
  BY <1>4 DEF VectorCaller, TakeBatch, Next, Consumer
<1>5. CASE Finished
  BY <1>5 DEF Next
<1>6. CASE UNCHANGED vectorVars
  BY <1>6 DEF vectorVars
<1> QED BY <1>1, <1>2, <1>3, <1>4, <1>5, <1>6 DEF VectorNext

\* The vector scheduler's goroutines do what the scheduler's do, whatever the
\* batches hold: what is proved of Pool's runs holds of VectorPool's.
THEOREM VectorIsPool == VectorSpec => Spec
<1>1. VectorInit => Init
  BY DEF VectorInit
<1> QED BY <1>1, VectorStep, PTL DEF VectorSpec, Spec

\* Pool's inductive invariant holds of VectorPool's runs.
LEMMA VectorInductive == VectorSpec => []IInv
BY VectorIsPool, Inductive

\* A vector stream that ends without an error is the whole source.
THEOREM VectorCleanEOF == VectorSpec => []CleanEOFIsComplete
BY VectorIsPool, CleanEOF

\* The vector scheduler refines the abstract stream as well.
THEOREM VectorRefinement == VectorSpec => RefinesStream
BY VectorIsPool, Refinement
-----------------------------------------------------------------------------
(* Nobody shares a chunk.                                                   *)

\* At the start nobody holds a chunk.
LEMMA OneHolderInit == Init => OneHolder
BY DEF Init, OneHolder, Queued, Ahead, InHands, Contents

\* The types the lemmas below need.
LEMMA HolderTypes ==
  ASSUME TypeInv
  PROVE  /\ NumChunks \in Nat /\ seq \in Nat /\ next \in Nat /\ Queued \in Int /\ Queued <= seq
         /\ seq <= NumChunks /\ Chunks \subseteq Nat
         /\ jobs \in Seq(Chunks) /\ Len(jobs) \in Nat
         /\ results \in Seq(Chunks) /\ Len(results) \in Nat
         /\ Contents(jobs) \subseteq Chunks /\ Contents(results) \subseteq Chunks
         /\ InHands \subseteq Chunks /\ pending \subseteq Chunks /\ Ahead \subseteq Chunks
         /\ wpc \in [Workers -> {"recv", "send", "exit"}] /\ wseq \in [Workers -> Nat]
<1>1. /\ NumChunks \in Nat /\ seq \in 0 .. NumChunks /\ next \in Nat
      /\ jobs \in Seq(Chunks) /\ results \in Seq(Chunks) /\ pending \subseteq Chunks
      /\ wpc \in [Workers -> {"recv", "send", "exit"}] /\ wseq \in [Workers -> Nat]
      /\ \A w \in Workers : wpc[w] = "send" => wseq[w] \in Chunks
  BY RunAssumption DEF TypeInv, TypeOK, Hands
<1>2. Contents(jobs) \subseteq Chunks /\ Contents(results) \subseteq Chunks
  BY <1>1 DEF Contents
<1>3. InHands \subseteq Chunks
  BY <1>1 DEF InHands
<1>4. Queued \in Int /\ Queued <= seq
  BY <1>1 DEF Queued
<1>5. seq \in Nat /\ seq <= NumChunks /\ Chunks \subseteq Nat
  BY <1>1 DEF Chunks
<1>6. Len(jobs) \in Nat /\ Len(results) \in Nat
  BY <1>1
<1>7. Ahead \subseteq Chunks
  BY <1>1, <1>2, <1>3 DEF Ahead
<1> QED BY <1>1, <1>2, <1>3, <1>4, <1>5, <1>6, <1>7

\* The reader going on, or dropping the chunk it has, disturbs no holder.
LEMMA ReaderOneHolder ==
  ASSUME TypeInv, OneHolder, Reader
  PROVE  OneHolder'
<1>0. /\ seq \in Nat /\ next \in Nat /\ Queued \in Int /\ Queued <= seq
      /\ jobs \in Seq(Chunks) /\ Len(jobs) \in Nat
      /\ Contents(jobs) \subseteq Nat /\ Ahead \subseteq Nat
  BY HolderTypes
<1> USE DEF readerVars, jobVars, workerVars, resultVars, asmVars
<1>1. ASSUME UNCHANGED <<next, jobs, wpc, wseq, results, pending>>,
             Queued' \in Int, Queued <= Queued'
      PROVE  OneHolder'
  <2>1. UNCHANGED <<InHands, Contents(jobs), Contents(results), Ahead>>
    BY <1>1 DEF InHands, Contents, Ahead
  <2>2. next' <= Queued' /\ (\A s \in Contents(jobs) : s < Queued') /\ \A s \in Ahead : s < Queued'
    BY <1>0, <1>1 DEF OneHolder
  <2> QED BY <1>1, <2>1, <2>2 DEF OneHolder
<1>2. CASE ScanChunk
  <2>1. UNCHANGED <<next, jobs, wpc, wseq, results, pending>>
        /\ rpc = "next" /\ rpc' = "send" /\ seq' = seq + 1
    BY <1>2 DEF ScanChunk
  <2>2. Queued' = Queued BY <2>1, <1>0 DEF Queued
  <2> QED BY <2>1, <2>2, <1>0, <1>1
<1>3. CASE SendJob
  <2>1. UNCHANGED <<seq, next, wpc, wseq, results, pending>> /\ jobs' = Append(jobs, seq - 1)
        /\ rpc = "send" /\ rpc' = "next" /\ seq - 1 \in Chunks
    BY <1>3, HolderTypes DEF SendJob, TypeInv, Hands, Chunks
  <2>2. Queued = seq - 1 /\ Queued' = seq
    BY <2>1 DEF Queued
  <2>3. /\ Len(jobs') = Len(jobs) + 1
        /\ \A i \in 1 .. Len(jobs) : jobs'[i] = jobs[i] /\ jobs[i] < seq - 1
        /\ jobs'[Len(jobs) + 1] = seq - 1
        /\ Contents(jobs') = Contents(jobs) \cup {seq - 1}
    <3>1. \A i \in 1 .. Len(jobs) : jobs[i] \in Contents(jobs)
      BY DEF Contents
    <3> QED BY <2>1, <2>2, <3>1, <1>0, AppendContents DEF OneHolder
  <2>4. \A i, j \in 1 .. Len(jobs') : i < j => jobs'[i] < jobs'[j]
    <3> TAKE i, j \in 1 .. Len(jobs')
    <3> HAVE i < j
    <3>1. CASE j = Len(jobs) + 1 BY <3>1, <2>3, <1>0
    <3>2. CASE j # Len(jobs) + 1
      <4>1. i \in 1 .. Len(jobs) /\ j \in 1 .. Len(jobs) BY <3>2, <2>3, <1>0
      <4> QED BY <4>1, <2>3 DEF OneHolder
    <3> QED BY <3>1, <3>2
  <2>5. UNCHANGED <<InHands, Contents(results), Ahead>>
    BY <2>1 DEF InHands, Contents, Ahead
  <2>6. /\ next' <= Queued'
        /\ \A s \in Contents(jobs') : next' <= s /\ s < Queued'
        /\ \A s \in Ahead : next' <= s /\ s < Queued' /\ \A j \in Contents(jobs') : s < j
    BY <2>1, <2>2, <2>3, <1>0 DEF OneHolder
  <2> QED BY <2>1, <2>4, <2>5, <2>6 DEF OneHolder
<1>4. CASE Reader /\ ~ScanChunk /\ ~SendJob
  <2>1. UNCHANGED <<seq, next, jobs, wpc, wseq, results, pending>> /\ rpc' # "send"
    BY <1>4 DEF Reader, ReadSource, ReportAndSignal, ScanEnd, ScanFail, ReaderStopped,
                ReportScanErr, CancelOnScanErr, CloseJobs, CloseScanner, ReportCloseErr,
                SignalReaderDone
  <2>2. Queued' = seq BY <2>1 DEF Queued
  <2> QED BY <2>1, <2>2, <1>0, <1>1
<1> QED BY <1>2, <1>3, <1>4

\* A worker takes the oldest job and hands on what it took.
LEMMA WorkerOneHolder ==
  ASSUME TypeInv, OneHolder, NEW u \in Workers, Worker(u)
  PROVE  OneHolder'
<1>0. /\ seq \in Nat /\ next \in Nat /\ Queued \in Int
      /\ jobs \in Seq(Chunks) /\ Len(jobs) \in Nat
      /\ results \in Seq(Chunks) /\ Len(results) \in Nat
      /\ Contents(jobs) \subseteq Nat /\ Ahead \subseteq Nat
      /\ wpc \in [Workers -> {"recv", "send", "exit"}] /\ wseq \in [Workers -> Nat]
  BY HolderTypes
<1> USE DEF readerVars, jobVars, workerVars, resultVars, asmVars
<1>1. UNCHANGED <<seq, rpc, next, pending>> /\ Queued' = Queued
  BY DEF Worker, WorkerStopped, WorkerNoJobs, WorkerLeave, WorkerRecv, WorkerSend, Queued
<1>2. CASE WorkerStopped(u) \/ WorkerNoJobs(u)
  <2>1. UNCHANGED <<jobs, results>> /\ wpc' = [wpc EXCEPT ![u] = "exit"] /\ wseq' = [wseq EXCEPT ![u] = 0]
    BY <1>2 DEF WorkerStopped, WorkerNoJobs, WorkerLeave
  <2>2. \A w \in Workers : wpc'[w] = "send" => wpc[w] = "send" /\ wseq'[w] = wseq[w]
    BY <2>1, <1>0
  <2>3. InHands' \subseteq InHands BY <2>2 DEF InHands
  <2>4. UNCHANGED <<Contents(jobs), Contents(results)>> BY <2>1 DEF Contents
  <2>5. Ahead' \subseteq Ahead BY <2>3, <2>4, <1>1 DEF Ahead
  <2> QED BY <1>1, <2>1, <2>2, <2>3, <2>4, <2>5 DEF OneHolder
<1>3. CASE WorkerRecv(u)
  <2>1. /\ results' = results /\ jobs # << >> /\ jobs' = Tail(jobs) /\ wpc[u] = "recv"
        /\ wpc' = [wpc EXCEPT ![u] = "send"] /\ wseq' = [wseq EXCEPT ![u] = Head(jobs)]
    BY <1>3 DEF WorkerRecv
  <2>2. Contents(jobs) = Contents(jobs') \cup {Head(jobs)} /\ Len(jobs') = Len(jobs) - 1
    BY <2>1, <1>0, TailContents
  <2>3. Head(jobs) = jobs[1] /\ \A i \in 1 .. Len(jobs') : jobs'[i] = jobs[i + 1]
    BY <2>1, <2>2, <1>0
  <2>4. \A i, j \in 1 .. Len(jobs') : i < j => jobs'[i] < jobs'[j]
    <3> TAKE i, j \in 1 .. Len(jobs')
    <3> HAVE i < j
    <3>1. i + 1 \in 1 .. Len(jobs) /\ j + 1 \in 1 .. Len(jobs) /\ i + 1 < j + 1 BY <2>2, <1>0
    <3> QED BY <3>1, <2>3 DEF OneHolder
  <2>5. \A j \in Contents(jobs') : Head(jobs) < j
    <3>1. \A i \in 1 .. Len(jobs') : 1 \in 1 .. Len(jobs) /\ i + 1 \in 1 .. Len(jobs) /\ 1 < i + 1
      BY <2>2, <1>0
    <3> QED BY <3>1, <2>3 DEF OneHolder, Contents
  <2>6. wpc'[u] = "send" /\ wseq'[u] = Head(jobs)
        /\ \A w \in Workers \ {u} : wpc'[w] = wpc[w] /\ wseq'[w] = wseq[w]
    BY <2>1, <1>0
  <2>7. InHands' = InHands \cup {Head(jobs)} BY <2>1, <2>6 DEF InHands
  <2>8. Contents(results)' = Contents(results) BY <2>1 DEF Contents
  <2>9. Ahead' = Ahead \cup {Head(jobs)} BY <2>7, <2>8, <1>1 DEF Ahead
  <2>10. Head(jobs) \in Nat /\ Head(jobs) \notin Ahead /\ \A s \in Ahead : s < Head(jobs)
    <3>1. Head(jobs) \in Contents(jobs) BY <2>2
    <3>2. \A s \in Ahead : s \in Nat /\ s < Head(jobs) BY <3>1, <1>0 DEF OneHolder
    <3>3. Head(jobs) \in Nat BY <3>1, <1>0
    <3> QED BY <3>2, <3>3
  <2>11. /\ \A s \in Contents(jobs') : next' <= s /\ s < Queued'
         /\ \A s \in Ahead' : next' <= s /\ s < Queued' /\ \A j \in Contents(jobs') : s < j
    BY <1>1, <2>2, <2>5, <2>9 DEF OneHolder
  <2>12. \A v, w \in Workers :
           wpc'[v] = "send" /\ wpc'[w] = "send" /\ wseq'[v] = wseq'[w] => v = w
    <3>1. \A w \in Workers \ {u} : wpc'[w] = "send" => wseq'[w] # Head(jobs)
      BY <2>6, <2>10 DEF Ahead, InHands
    <3> QED BY <2>6, <3>1 DEF OneHolder
  <2>13. Head(jobs) \notin Contents(results) \cup pending BY <2>10 DEF Ahead
  <2> QED BY <1>1, <2>1, <2>4, <2>7, <2>8, <2>11, <2>12, <2>13 DEF OneHolder
<1>4. CASE WorkerSend(u)
  <2>1. /\ jobs' = jobs /\ results' = Append(results, wseq[u]) /\ wpc[u] = "send"
        /\ wpc' = [wpc EXCEPT ![u] = "recv"] /\ wseq' = [wseq EXCEPT ![u] = 0]
    BY <1>4 DEF WorkerSend
  <2>2. wseq[u] \in Chunks /\ wseq[u] \in InHands
    BY <2>1 DEF TypeInv, Hands, InHands
  <2>3. /\ Len(results') = Len(results) + 1
        /\ \A i \in 1 .. Len(results) : results'[i] = results[i]
        /\ results'[Len(results) + 1] = wseq[u]
        /\ Contents(results') = Contents(results) \cup {wseq[u]}
    BY <2>1, <2>2, <1>0, AppendContents
  <2>4. \A w \in Workers : wpc'[w] = "send" => w # u /\ wpc[w] = "send" /\ wseq'[w] = wseq[w]
    BY <2>1, <1>0
  <2>5. InHands' \subseteq InHands /\ wseq[u] \notin InHands'
    BY <2>1, <2>4 DEF InHands, OneHolder
  <2>6. Contents(jobs)' = Contents(jobs) BY <2>1 DEF Contents
  <2>7. Ahead' \subseteq Ahead BY <2>2, <2>3, <2>5, <1>1 DEF Ahead, Contents
  <2>8. \A i \in 1 .. Len(results) : results[i] # wseq[u]
    BY <2>2 DEF OneHolder, Contents
  <2>9. \A i, j \in 1 .. Len(results') : results'[i] = results'[j] => i = j
    <3>1. \A i \in 1 .. Len(results') : i \in 1 .. Len(results) \/ i = Len(results) + 1
      BY <2>3, <1>0
    <3> QED BY <2>3, <2>8, <3>1 DEF OneHolder
  <2>10. wseq[u] \notin pending /\ wseq[u] \notin Contents(results)
    BY <2>2 DEF OneHolder
  <2>11. /\ InHands' \cap Contents(results') = {} /\ InHands' \cap pending' = {}
         /\ Contents(results') \cap pending' = {}
    BY <1>1, <2>3, <2>5, <2>10 DEF OneHolder
  <2>12. \A v, w \in Workers :
           wpc'[v] = "send" /\ wpc'[w] = "send" /\ wseq'[v] = wseq'[w] => v = w
    BY <2>4 DEF OneHolder
  <2>13. \A s \in Ahead' : next' <= s /\ s < Queued' /\ \A j \in Contents(jobs)' : s < j
    BY <1>1, <2>6, <2>7 DEF OneHolder
  <2> QED BY <1>1, <2>1, <2>6, <2>9, <2>11, <2>12, <2>13 DEF OneHolder, Contents
<1> QED BY <1>2, <1>3, <1>4 DEF Worker

\* The reassembler moves a chunk from results to pending and gives it up when it
\* is that chunk's turn.
LEMMA ReassemblerOneHolder ==
  ASSUME TypeInv, OneHolder, Reassembler
  PROVE  OneHolder'
<1>0. /\ seq \in Nat /\ next \in Nat /\ Queued \in Int
      /\ results \in Seq(Chunks) /\ Len(results) \in Nat
      /\ Contents(jobs) \subseteq Nat /\ Ahead \subseteq Nat
  BY HolderTypes
<1> USE DEF readerVars, jobVars, workerVars, resultVars, asmVars, AsmFrame
<1>1. UNCHANGED <<seq, rpc, jobs, wpc, wseq>> /\ Queued' = Queued
  BY DEF Reassembler, Assemble, Emit, Teardown, AsmStopped, AsmResult, AsmOpError,
         AsmResultsEnd, EmitTake, EmitMissing, EmitSend, EmitStopped, TeardownCancel,
         TeardownWait, TeardownParent, TeardownCloseOut, TeardownCloseErr, Queued
<1>2. InHands' = InHands /\ Contents(jobs)' = Contents(jobs)
  BY <1>1 DEF InHands, Contents
\* A result leaves the channel, for pending or for good.
<1>3. ASSUME results # << >>, results' = Tail(results), next' = next,
             pending' = pending \/ pending' = pending \cup {Head(results)}
      PROVE  OneHolder'
  <2>1. Contents(results) = Contents(results') \cup {Head(results)} /\ Len(results') = Len(results) - 1
    BY <1>3, <1>0, TailContents
  <2>2. Head(results) = results[1] /\ \A i \in 1 .. Len(results') : results'[i] = results[i + 1]
    BY <1>3, <2>1, <1>0
  <2>3. \A i \in 1 .. Len(results') : 1 \in 1 .. Len(results) /\ i + 1 \in 1 .. Len(results) /\ i + 1 # 1
    BY <2>1, <1>0
  <2>4. \A i, j \in 1 .. Len(results') : results'[i] = results'[j] => i = j
    <3> TAKE i, j \in 1 .. Len(results')
    <3> HAVE results'[i] = results'[j]
    <3>1. i + 1 = j + 1 BY <2>2, <2>3 DEF OneHolder
    <3> QED BY <3>1
  <2>5. Head(results) \notin Contents(results')
    BY <2>2, <2>3 DEF OneHolder, Contents
  <2>6. Contents(results)' = Contents(results') BY DEF Contents
  <2>7. Ahead' \subseteq Ahead BY <1>2, <1>3, <2>1, <2>6 DEF Ahead
  <2>8. \A s \in Ahead' : next' <= s /\ s < Queued' /\ \A j \in Contents(jobs)' : s < j
    BY <1>1, <1>2, <1>3, <2>7 DEF OneHolder
  <2>9. /\ InHands' \cap Contents(results)' = {} /\ InHands' \cap pending' = {}
        /\ Contents(results)' \cap pending' = {}
    BY <1>2, <1>3, <2>1, <2>5, <2>6 DEF OneHolder
  <2> QED BY <1>1, <1>2, <1>3, <2>4, <2>8, <2>9 DEF OneHolder
<1>4. CASE AsmResult \/ AsmOpError
  BY <1>3, <1>4 DEF AsmResult, AsmOpError
<1>5. CASE EmitTake
  <2>1. /\ results' = results /\ next \in pending
        /\ pending' = pending \ {next} /\ next' = next + 1
    BY <1>5 DEF EmitTake
  <2>2. Contents(results)' = Contents(results) BY <2>1 DEF Contents
  <2>3. Ahead' = Ahead \ {next}
    BY <1>2, <2>1, <2>2 DEF OneHolder, Ahead
  <2>4. next < Queued /\ \A j \in Contents(jobs) : next < j
    BY <2>1 DEF OneHolder, Ahead
  <2>5. next' <= Queued' /\ \A s \in Contents(jobs)' : next' <= s /\ s < Queued'
    BY <1>0, <1>1, <1>2, <2>1, <2>4 DEF OneHolder
  <2>6. \A s \in Ahead' : next' <= s /\ s < Queued' /\ \A j \in Contents(jobs)' : s < j
    <3> TAKE s \in Ahead'
    <3>1. s \in Ahead /\ s # next /\ s \in Nat BY <2>3, <1>0
    <3>2. next <= s /\ s < Queued /\ \A j \in Contents(jobs) : s < j BY <3>1 DEF OneHolder
    <3> QED BY <3>1, <3>2, <1>0, <1>1, <1>2, <2>1
  <2> QED BY <1>1, <1>2, <2>1, <2>2, <2>5, <2>6 DEF OneHolder
<1>6. CASE UNCHANGED <<results, pending, next>>
  <2>1. Contents(results)' = Contents(results) BY <1>6 DEF Contents
  <2>2. Ahead' = Ahead BY <1>2, <1>6, <2>1 DEF Ahead
  <2> QED BY <1>1, <1>2, <1>6, <2>1, <2>2 DEF OneHolder
<1>7. AsmResult \/ AsmOpError \/ EmitTake \/ UNCHANGED <<results, pending, next>>
  BY DEF Reassembler, Assemble, Emit, Teardown, AsmStopped, AsmResultsEnd,
         EmitMissing, EmitSend, EmitStopped, TeardownCancel,
         TeardownWait, TeardownParent, TeardownCloseOut, TeardownCloseErr
<1> QED BY <1>4, <1>5, <1>6, <1>7

\* No step of the run puts a chunk into a second pair of hands.
LEMMA OneHolderStep == TypeInv /\ OneHolder /\ [Next]_vars => OneHolder'
<1> SUFFICES ASSUME TypeInv, OneHolder, [Next]_vars PROVE OneHolder'
  OBVIOUS
<1>1. ASSUME UNCHANGED <<rpc, seq, jobs, wpc, wseq, results, pending, next>> PROVE OneHolder'
  <2>1. UNCHANGED <<Queued, InHands, Contents(jobs), Contents(results)>>
    BY <1>1 DEF Queued, InHands, Contents
  <2>2. Ahead' = Ahead BY <1>1, <2>1 DEF Ahead
  <2> QED BY <1>1, <2>1, <2>2 DEF OneHolder
<1>2. CASE Reader BY <1>2, ReaderOneHolder
<1>3. ASSUME NEW w \in Workers, Worker(w) PROVE OneHolder'
  BY <1>3, WorkerOneHolder
<1>4. CASE Reassembler BY <1>4, ReassemblerOneHolder
<1>5. CASE CloseResults
  BY <1>1, <1>5 DEF CloseResults, readerVars, jobVars, workerVars, asmVars
<1>6. CASE UNCHANGED poolVars
  BY <1>1, <1>6 DEF poolVars, readerVars, jobVars, workerVars, resultVars, asmVars
<1> QED BY <1>2, <1>3, <1>4, <1>5, <1>6 DEF Next, Engine, Finished, vars

-----------------------------------------------------------------------------
(* Why the reassembler waits.                                               *)

\* At the start no chunk is scanned.
LEMMA InTurnInit == Init => InTurn
BY RunAssumption DEF Init, InTurn, Chunks

\* Until the teardown, and while nothing stops the run, each step leaves every
\* scanned chunk somewhere, and emit returns only when the next one is missing.
LEMMA InTurnStep == TypeInv /\ InTurn /\ [Next]_vars => InTurn'
<1> DEFINE Main == {"select", "emit", "send"}
           Kept == \A s \in Chunks : s < seq' => s < next' \/ InFlight(s)'
<1> SUFFICES ASSUME TypeInv, InTurn, [Next]_vars, ~runDone', apc' \in Main
             PROVE  (apc' = "select" => next' \notin pending') /\ Kept
  BY DEF InTurn
<1> DEFINE Goal == (apc' = "select" => next' \notin pending') /\ Kept
<1>0. /\ NumChunks \in Nat /\ seq \in Nat /\ next \in Nat
      /\ jobs \in Seq(Chunks) /\ results \in Seq(Chunks)
      /\ wpc \in [Workers -> {"recv", "send", "exit"}] /\ wseq \in [Workers -> Nat]
      /\ (rpc = "send" => seq - 1 \in Chunks)
      /\ \A w \in Workers : wpc[w] = "send" => wseq[w] \in Chunks
  BY RunAssumption DEF TypeInv, TypeOK, Hands, Chunks
<1>1. ASSUME ~runDone, apc \in Main
      PROVE  /\ apc = "select" => next \notin pending
             /\ \A s \in Chunks : s < seq => s < next \/ InFlight(s)
  BY <1>1 DEF InTurn
\* Steps that leave the chunks where they are.
<1>2. ASSUME UNCHANGED <<runDone, seq, rpc, jobs, wpc, wseq, results, pending, next>>,
             apc \in Main, apc' = apc \/ apc' = "emit" \/ next \notin pending
      PROVE  Goal
  BY <1>1, <1>2 DEF InFlight, Contents
<1> USE DEF vars, chanVars, ctxVars, outVars, errVars, poolVars, readerVars, jobVars,
            workerVars, resultVars, asmVars, AsmFrame
<1>3. CASE Reader
  <2>0. UNCHANGED <<apc, next, pending, results, wpc, wseq>>
    BY <1>3 DEF Reader, ReadSource, ReportAndSignal, ScanChunk, ScanEnd, ScanFail, SendJob,
                ReaderStopped, ReportScanErr, CancelOnScanErr, CloseJobs, CloseScanner,
                ReportCloseErr, SignalReaderDone
  <2>1. CASE ScanChunk
    <3>1. UNCHANGED <<runDone, jobs>> /\ rpc = "next" /\ rpc' = "send" /\ seq' = seq + 1
      BY <2>1 DEF ScanChunk
    <3>2. ASSUME NEW s \in Chunks, s < seq' PROVE s = seq' - 1 \/ s < seq
      BY <3>1, <3>2, <1>0 DEF Chunks
    <3> QED BY <2>0, <3>1, <3>2, <1>1 DEF InFlight, Contents
  <2>2. CASE SendJob
    <3>1. UNCHANGED <<runDone, seq>> /\ rpc = "send" /\ rpc' = "next" /\ jobs' = Append(jobs, seq - 1)
      BY <2>2 DEF SendJob
    <3>2. Contents(jobs') = Contents(jobs) \cup {seq - 1}
      BY <3>1, <1>0, AppendContents
    <3>3. Contents(jobs)' = Contents(jobs') /\ Contents(results)' = Contents(results)
      BY <2>0 DEF Contents
    <3> QED BY <2>0, <3>1, <3>2, <3>3, <1>1 DEF InFlight
  <2>3. CASE ReaderStopped \/ CancelOnScanErr
    BY <2>3 DEF ReaderStopped, CancelOnScanErr, CancelRun
  <2>4. CASE Reader /\ ~ScanChunk /\ ~SendJob /\ ~ReaderStopped /\ ~CancelOnScanErr
    <3>1. UNCHANGED <<runDone, seq, jobs>> /\ rpc # "send"
      BY <2>4 DEF Reader, ReadSource, ReportAndSignal, ScanEnd, ScanFail, ReportScanErr,
                  CloseJobs, CloseScanner, ReportCloseErr, SignalReaderDone
    <3> QED BY <2>0, <3>1, <1>1 DEF InFlight, Contents
  <2> QED BY <1>3, <2>1, <2>2, <2>3, <2>4
<1>4. ASSUME NEW w \in Workers, Worker(w) PROVE Goal
  <2>0. UNCHANGED <<runDone, seq, rpc, apc, next, pending>>
    BY <1>4 DEF Worker, WorkerStopped, WorkerNoJobs, WorkerLeave, WorkerRecv, WorkerSend
  <2>1. SUFFICES ASSUME NEW s \in Chunks, InFlight(s) PROVE InFlight(s)' \/ runDone
    BY <2>0, <1>1
  <2>2. CASE WorkerStopped(w)
    BY <2>2 DEF WorkerStopped
  <2>3. CASE WorkerNoJobs(w)
    <3>1. UNCHANGED <<jobs, results>> /\ wpc[w] = "recv"
      BY <2>3 DEF WorkerNoJobs, WorkerLeave
    <3>2. \A v \in Workers : wpc[v] = "send" => wpc'[v] = "send" /\ wseq'[v] = wseq[v]
      BY <2>3, <1>0 DEF WorkerNoJobs, WorkerLeave
    <3> QED BY <2>0, <2>1, <3>1, <3>2 DEF InFlight, Contents
  <2>4. CASE WorkerRecv(w)
    <3>1. results' = results /\ jobs' = Tail(jobs) /\ jobs # << >>
      BY <2>4 DEF WorkerRecv
    <3>2. Contents(jobs) = Contents(jobs') \cup {Head(jobs)}
      BY <3>1, <1>0, TailContents
    <3>3. wpc'[w] = "send" /\ wseq'[w] = Head(jobs)
      BY <2>4, <1>0 DEF WorkerRecv
    <3>4. \A v \in Workers : wpc[v] = "send" => wpc'[v] = "send" /\ wseq'[v] = wseq[v]
      BY <2>4, <1>0 DEF WorkerRecv
    <3> QED BY <2>0, <2>1, <3>1, <3>2, <3>3, <3>4 DEF InFlight, Contents
  <2>5. CASE WorkerSend(w)
    <3>1. jobs' = jobs /\ results' = Append(results, wseq[w]) /\ wpc[w] = "send"
      BY <2>5 DEF WorkerSend
    <3>2. Contents(results') = Contents(results) \cup {wseq[w]}
      BY <3>1, <1>0, AppendContents
    <3>3. \A v \in Workers \ {w} : wpc[v] = "send" => wpc'[v] = "send" /\ wseq'[v] = wseq[v]
      BY <2>5, <1>0 DEF WorkerSend
    <3> QED BY <2>0, <2>1, <3>1, <3>2, <3>3 DEF InFlight, Contents
  <2> QED BY <1>4, <2>2, <2>3, <2>4, <2>5 DEF Worker
<1>5. CASE CloseResults
  BY <1>2, <1>5 DEF CloseResults
<1>6. CASE Assemble
  <2>1. CASE AsmStopped \/ AsmOpError
    BY <2>1 DEF AsmStopped, AsmOpError
  <2>2. CASE AsmResult
    <3>1. /\ UNCHANGED <<runDone, seq, next, rpc, jobs, wpc, wseq>> /\ apc = "select" /\ apc' = "emit"
          /\ results' = Tail(results) /\ results # << >> /\ pending' = pending \cup {Head(results)}
      BY <2>2 DEF AsmResult
    <3>2. Contents(results) = Contents(results') \cup {Head(results)}
      BY <3>1, <1>0, TailContents
    <3>3. ASSUME NEW s \in Chunks, InFlight(s) PROVE InFlight(s)'
      BY <3>1, <3>2, <3>3 DEF InFlight, Contents
    <3> QED BY <3>1, <3>3, <1>1
  <2>3. CASE AsmResultsEnd
    BY <1>2, <2>3 DEF AsmResultsEnd
  <2> QED BY <1>6, <2>1, <2>2, <2>3 DEF Assemble
<1>7. CASE Emit
  <2>1. CASE EmitTake
    <3>1. /\ UNCHANGED <<runDone, seq, rpc, jobs, wpc, wseq, results>> /\ apc = "emit" /\ apc' = "send"
          /\ pending' = pending \ {next} /\ next' = next + 1
      BY <2>1 DEF EmitTake
    <3>2. ASSUME NEW s \in Chunks, s < next \/ InFlight(s) PROVE s < next' \/ InFlight(s)'
      <4>1. CASE s < next BY <4>1, <3>1, <1>0 DEF Chunks
      <4>2. CASE s = next BY <4>2, <3>1, <1>0
      <4>3. CASE InFlight(s) /\ s # next BY <4>3, <3>1 DEF InFlight, Contents
      <4> QED BY <3>2, <4>1, <4>2, <4>3
    <3> QED BY <3>1, <3>2, <1>1
  <2>2. CASE EmitMissing BY <1>2, <2>2 DEF EmitMissing
  <2>3. CASE EmitSend BY <1>2, <2>3 DEF EmitSend
  <2>4. CASE EmitStopped BY <2>4 DEF EmitStopped
  <2> QED BY <1>7, <2>1, <2>2, <2>3, <2>4 DEF Emit
<1>8. CASE Teardown
  BY <1>8 DEF Teardown, TeardownCancel, TeardownWait, TeardownParent, TeardownCloseOut,
              TeardownCloseErr
<1>9. CASE (Contexts \/ Consumer) /\ UNCHANGED poolVars
  BY <1>2, <1>9 DEF Contexts, Consumer, CancelParent, PropagateCancel, RecvChunk, RecvErr
<1>10. CASE UNCHANGED vars
  BY <1>2, <1>10
<1> QED
  <2> HIDE DEF vars, poolVars
  <2> QED BY <1>3, <1>4, <1>5, <1>6, <1>7, <1>8, <1>9, <1>10
      DEF Next, Engine, Reassembler, Finished

-----------------------------------------------------------------------------
(* What the batches hold.                                                   *)

\* The batch a goroutine stands at a send with, and those on their way out.
LEMMA BatchTypes ==
  ASSUME IInv, VInv
  PROVE  /\ rpc = "send" => seq - 1 \in Chunks /\ Queued = seq - 1
         /\ rpc # "send" => Queued = seq
         /\ apc = "send" => next - 1 \in Chunks
         /\ \A i \in 1 .. Len(emitted) :
              emitted[i] \in Chunks /\ emitted[i] < next /\ (apc = "send" => emitted[i] < next - 1)
         /\ Len(emitted) \in Nat /\ taken \in Nat /\ emitted \in Seq(Nat)
<1>0. TypeInv /\ NumChunks \in Nat /\ emitted \in Seq(Nat) /\ taken \in Nat
  BY RunAssumption DEF IInv, TypeInv, TypeOK, ChanTypeOK
<1>1. seq \in Nat /\ next \in Nat /\ seq <= NumChunks /\ Queued \in Int /\ Queued <= seq
  BY <1>0, HolderTypes
<1>2. next <= Queued BY DEF VInv, OneHolder
<1>3. (rpc = "send" => seq > 0) /\ (apc = "send" => next > 0)
  BY DEF IInv, Hands
<1>4. \A i \in 1 .. Len(emitted) :
        emitted[i] < next /\ (apc = "send" => emitted[i] < next - 1)
  <2> TAKE i \in 1 .. Len(emitted)
  <2>1. emitted[i] \in Nat BY <1>0
  <2>2. emitted[i] < (IF apc = "send" THEN next - 1 ELSE next) BY DEF IInv, EmittedBehind
  <2> QED BY <2>1, <2>2, <1>1
<1>5. \A i \in 1 .. Len(emitted) : emitted[i] \in Chunks
  BY <1>0, <1>1, <1>2, <1>4 DEF Chunks
<1>6. (rpc = "send" => seq - 1 \in Chunks) /\ (apc = "send" => next - 1 \in Chunks)
  BY <1>0, <1>1, <1>2, <1>3 DEF Chunks
<1>7. Len(emitted) \in Nat BY <1>0
<1> QED BY <1>0, <1>4, <1>5, <1>6, <1>7 DEF Queued

\* A new batch is nobody else's.
LEMMA FillKeepsBatches ==
  ASSUME IInv, VInv, FillBatch
  PROVE  HeapTypeOK' /\ BatchesIntact'
<1>0. TypeInv BY DEF IInv, TypeInv
<1>1. /\ rpc = "next" /\ rpc' = "send" /\ seq < NumChunks /\ seq' = seq + 1
      /\ UNCHANGED <<jobs, wpc, wseq, results, pending, apc, next, taken, emitted>>
      /\ heap' = [heap EXCEPT ![seq] = [rows |-> seq, ops |-> 0]]
  BY DEF FillBatch, ScanChunk, Object, chanVars, ctxVars, outVars, errVars, jobVars,
         workerVars, resultVars, asmVars
<1>2. seq \in Chunks /\ seq \in 0 .. NumChunks /\ Queued = seq /\ next \in Nat
  BY <1>0, <1>1, HolderTypes DEF Queued, Chunks
<1>3. HeapTypeOK'
  <2>1. [rows |-> seq, ops |-> 0] \in [rows : 0 .. NumChunks, ops : Nat] BY <1>2
  <2> QED BY <1>1, <2>1 DEF VInv, HeapTypeOK
<1>4. \A s \in Chunks : s < seq => heap'[s] = heap[s]
  BY <1>1, <1>2 DEF VInv, HeapTypeOK, Chunks
<1>5. heap'[seq' - 1] = [rows |-> seq' - 1, ops |-> 0]
  BY <1>1, <1>2 DEF VInv, HeapTypeOK
<1>6. /\ \A s \in Contents(jobs) \cup Ahead : s \in Chunks /\ s < seq
      /\ next <= seq
  BY <1>0, <1>2, HolderTypes DEF VInv, OneHolder
<1>7. \A s \in Contents(jobs) : heap'[s] = [rows |-> s, ops |-> 0]
  BY <1>4, <1>6 DEF VInv, BatchesIntact, Holds, Object
<1>8. \A s \in Ahead : heap'[s] = [rows |-> s, ops |-> 1]
  <2>1. \A s \in Ahead : heap[s] = [rows |-> s, ops |-> 1]
    BY DEF VInv, BatchesIntact, Holds, Object, Ahead, InHands
  <2> QED BY <1>4, <1>6, <2>1
<1>9. apc = "send" => heap'[next - 1] = [rows |-> next - 1, ops |-> 1]
  <2> SUFFICES ASSUME apc = "send" PROVE heap'[next - 1] = [rows |-> next - 1, ops |-> 1]
    OBVIOUS
  <2>1. next - 1 \in Chunks /\ next - 1 < seq BY <1>2, <1>6, BatchTypes
  <2> QED BY <1>4, <2>1 DEF VInv, BatchesIntact, Holds, Object
<1>10. \A i \in taken + 1 .. Len(emitted) : heap'[emitted[i]] = [rows |-> emitted[i], ops |-> 1]
  <2> TAKE i \in taken + 1 .. Len(emitted)
  <2>1. emitted[i] \in Chunks /\ emitted[i] < seq
    BY <1>2, <1>6, BatchTypes DEF Chunks
  <2> QED BY <1>4, <2>1 DEF VInv, BatchesIntact, Holds, Object
<1> QED BY <1>1, <1>3, <1>5, <1>7, <1>8, <1>9, <1>10
    DEF BatchesIntact, Holds, Object, Ahead, InHands, Contents

\* A worker changes the batch it has just taken, which nobody else has.
LEMMA ApplyKeepsBatches ==
  ASSUME IInv, VInv, NEW u \in Workers, ApplyOps(u)
  PROVE  HeapTypeOK' /\ BatchesIntact'
<1>0. TypeInv BY DEF IInv, TypeInv
<1> DEFINE h == Head(jobs)
<1>1. /\ jobs # << >> /\ jobs' = Tail(jobs)
      /\ wpc' = [wpc EXCEPT ![u] = "send"] /\ wseq' = [wseq EXCEPT ![u] = h]
      /\ UNCHANGED <<rpc, seq, results, pending, apc, next, taken, emitted>>
      /\ heap' = [heap EXCEPT ![h] = [rows |-> @.rows, ops |-> @.ops + 1]]
  BY DEF ApplyOps, WorkerRecv, Object, chanVars, ctxVars, outVars, errVars, readerVars,
         resultVars, asmVars
<1>2. /\ Contents(jobs) = Contents(jobs') \cup {h} /\ h \in Chunks
      /\ jobs' \in Seq(Chunks) /\ Len(jobs') = Len(jobs) - 1
  BY <1>0, <1>1, TailContents, HolderTypes
<1>3. heap[h] = [rows |-> h, ops |-> 0] /\ h \in 0 .. NumChunks
  <2>1. \A s \in Contents(jobs) : heap[s] = [rows |-> s, ops |-> 0]
    BY DEF VInv, BatchesIntact, Holds, Object
  <2>2. Chunks \subseteq 0 .. NumChunks
    BY <1>0, HolderTypes DEF Chunks
  <2> QED BY <1>2, <2>1, <2>2
<1>4. heap' = [heap EXCEPT ![h] = [rows |-> h, ops |-> 1]]
  BY <1>1, <1>3
<1> HIDE DEF h
<1>5. HeapTypeOK'
  <2>1. [rows |-> h, ops |-> 1] \in [rows : 0 .. NumChunks, ops : Nat] BY <1>3
  <2> QED BY <1>4, <2>1 DEF VInv, HeapTypeOK
<1>6. heap'[h] = [rows |-> h, ops |-> 1] /\ \A s \in Chunks : s # h => heap'[s] = heap[s]
  BY <1>2, <1>4 DEF VInv, HeapTypeOK
<1>7. next <= h /\ h < Queued /\ \A s \in Ahead : s \in Chunks /\ s # h
  <2>1. h \in Nat /\ Ahead \subseteq Chunks /\ Chunks \subseteq Nat BY <1>0, <1>2, HolderTypes
  <2>2. h \in Contents(jobs) BY <1>2
  <2>3. \A s \in Ahead : s < h BY <2>2 DEF VInv, OneHolder
  <2>4. next <= h /\ h < Queued BY <2>2 DEF VInv, OneHolder
  <2> QED BY <2>1, <2>3, <2>4
<1>8. h \notin Contents(jobs') /\ Contents(jobs') \subseteq Chunks
  <2>1. \A i \in 1 .. Len(jobs') : jobs'[i] = jobs[i + 1] /\ i + 1 \in 1 .. Len(jobs) /\ 1 < i + 1
    <3>1. jobs \in Seq(Chunks) /\ Len(jobs) \in Nat BY <1>0, HolderTypes
    <3>2. \A i \in 1 .. Len(jobs') : i + 1 \in 1 .. Len(jobs) /\ 1 < i + 1 BY <1>2, <3>1
    <3>3. \A i \in 1 .. Len(jobs') : jobs'[i] = jobs[i + 1] BY <1>1, <1>2, <3>1
    <3> QED BY <3>2, <3>3
  <2>2. h = jobs[1] /\ 1 \in 1 .. Len(jobs) BY <1>0, <1>1, HolderTypes DEF h
  <2>3. \A i \in 1 .. Len(jobs') : h < jobs'[i] BY <2>1, <2>2 DEF VInv, OneHolder
  <2>4. \A s \in Contents(jobs') : h < s BY <2>3 DEF Contents
  <2>5. h \in Nat BY <1>0, <1>2, HolderTypes
  <2> QED BY <1>0, <1>2, <2>4, <2>5, HolderTypes
<1>9. rpc = "send" => heap'[seq - 1] = [rows |-> seq - 1, ops |-> 0]
  <2> SUFFICES ASSUME rpc = "send" PROVE heap'[seq - 1] = [rows |-> seq - 1, ops |-> 0]
    OBVIOUS
  <2>1. seq - 1 \in Chunks /\ seq - 1 # h
    BY <1>0, <1>2, <1>7, BatchTypes, HolderTypes
  <2> QED BY <1>6, <2>1 DEF VInv, BatchesIntact, Holds, Object
<1>10. \A s \in Contents(jobs') : heap'[s] = [rows |-> s, ops |-> 0]
  BY <1>2, <1>6, <1>8 DEF VInv, BatchesIntact, Holds, Object
<1>11. \A s \in Ahead : heap'[s] = [rows |-> s, ops |-> 1]
  <2>1. \A s \in Ahead : heap[s] = [rows |-> s, ops |-> 1]
    BY DEF VInv, BatchesIntact, Holds, Object, Ahead, InHands
  <2> QED BY <1>6, <1>7, <2>1
<1>12. \A w \in Workers : wpc'[w] = "send" => heap'[wseq'[w]] = [rows |-> wseq'[w], ops |-> 1]
  <2>1. wseq'[u] = h /\ \A w \in Workers \ {u} : wpc'[w] = wpc[w] /\ wseq'[w] = wseq[w]
    BY <1>0, <1>1, HolderTypes
  <2> QED BY <1>6, <1>11, <2>1 DEF Ahead, InHands
<1>13. apc = "send" => heap'[next - 1] = [rows |-> next - 1, ops |-> 1]
  <2> SUFFICES ASSUME apc = "send" PROVE heap'[next - 1] = [rows |-> next - 1, ops |-> 1]
    OBVIOUS
  <2>1. next - 1 \in Chunks /\ next - 1 # h
    BY <1>0, <1>2, <1>7, BatchTypes, HolderTypes
  <2> QED BY <1>6, <2>1 DEF VInv, BatchesIntact, Holds, Object
<1>14. \A i \in taken + 1 .. Len(emitted) : heap'[emitted[i]] = [rows |-> emitted[i], ops |-> 1]
  <2> TAKE i \in taken + 1 .. Len(emitted)
  <2>1. i \in 1 .. Len(emitted) BY BatchTypes
  <2>2. emitted[i] \in Chunks /\ emitted[i] < next
    BY <2>1, BatchTypes
  <2>3. emitted[i] # h
    BY <1>0, <1>2, <1>7, <2>2, HolderTypes
  <2> QED BY <1>6, <2>2, <2>3 DEF VInv, BatchesIntact, Holds, Object
<1>15. Contents(jobs)' = Contents(jobs') /\ Contents(results)' = Contents(results)
  BY <1>1 DEF Contents
<1> QED BY <1>1, <1>5, <1>9, <1>10, <1>11, <1>12, <1>13, <1>14, <1>15
    DEF BatchesIntact, Holds, Object, Ahead

\* The caller may overwrite what it has received: nobody else has it any more.
LEMMA TakeKeepsBatches ==
  ASSUME IInv, VInv, TakeBatch
  PROVE  HeapTypeOK' /\ BatchesIntact'
<1>0. TypeInv /\ OutputInOrder BY DEF IInv, TypeInv, EmittedBehind
<1> DEFINE e == emitted[taken + 1]
<1>1. /\ UNCHANGED <<rpc, seq, jobs, wpc, wseq, results, pending, apc, next, emitted>>
      /\ taken < Len(emitted) /\ taken' = taken + 1
      /\ heap' = [heap EXCEPT ![e] = [rows |-> Nobody, ops |-> 0]]
  BY DEF TakeBatch, RecvChunk, Object, poolVars, readerVars, jobVars, workerVars, resultVars, asmVars
<1>2. taken + 1 \in 1 .. Len(emitted) /\ taken \in Nat /\ Len(emitted) \in Nat
  BY <1>1, BatchTypes
<1>3. e \in Chunks /\ e < next /\ (apc = "send" => e < next - 1)
  BY <1>2, BatchTypes
<1>4. \A i \in taken' + 1 .. Len(emitted) :
        i \in 1 .. Len(emitted) /\ i \in taken + 1 .. Len(emitted) /\ e < emitted[i]
  BY <1>0, <1>1, <1>2 DEF OutputInOrder
<1> HIDE DEF e
<1>5. HeapTypeOK'
  <2>1. [rows |-> Nobody, ops |-> 0] \in [rows : 0 .. NumChunks, ops : Nat]
    BY <1>0, HolderTypes DEF Nobody
  <2> QED BY <1>1, <2>1 DEF VInv, HeapTypeOK
<1>6. \A s \in Chunks : e < s => heap'[s] = heap[s]
  <2>1. e \in Nat BY <1>0, <1>3, HolderTypes
  <2> QED BY <1>1, <2>1 DEF VInv, HeapTypeOK
<1>7. next \in Nat /\ e \in Nat /\ next <= Queued /\ Queued \in Int
  BY <1>0, <1>3, HolderTypes DEF VInv, OneHolder
<1>8. \A s \in Contents(jobs) \cup Ahead : s \in Chunks /\ e < s
  <2>1. \A s \in Contents(jobs) \cup Ahead : s \in Chunks /\ s \in Nat
    BY <1>0, HolderTypes
  <2>2. \A s \in Contents(jobs) \cup Ahead : next <= s BY DEF VInv, OneHolder
  <2> QED BY <1>3, <1>7, <2>1, <2>2
<1>9. rpc = "send" => heap'[seq - 1] = [rows |-> seq - 1, ops |-> 0]
  <2> SUFFICES ASSUME rpc = "send" PROVE heap'[seq - 1] = [rows |-> seq - 1, ops |-> 0]
    OBVIOUS
  <2>1. seq - 1 \in Chunks /\ Queued = seq - 1 BY BatchTypes
  <2>2. e < seq - 1 BY <1>3, <1>7, <2>1
  <2> QED BY <1>6, <2>1, <2>2 DEF VInv, BatchesIntact, Holds, Object
<1>10. \A s \in Contents(jobs) : heap'[s] = [rows |-> s, ops |-> 0]
  BY <1>6, <1>8 DEF VInv, BatchesIntact, Holds, Object
<1>11. \A s \in Ahead : heap'[s] = [rows |-> s, ops |-> 1]
  <2>1. \A s \in Ahead : heap[s] = [rows |-> s, ops |-> 1]
    BY DEF VInv, BatchesIntact, Holds, Object, Ahead, InHands
  <2> QED BY <1>6, <1>8, <2>1
<1>12. apc = "send" => heap'[next - 1] = [rows |-> next - 1, ops |-> 1]
  <2> SUFFICES ASSUME apc = "send" PROVE heap'[next - 1] = [rows |-> next - 1, ops |-> 1]
    OBVIOUS
  <2>1. next - 1 \in Chunks /\ e < next - 1 BY <1>3, BatchTypes
  <2> QED BY <1>6, <2>1 DEF VInv, BatchesIntact, Holds, Object
<1>13. \A i \in taken' + 1 .. Len(emitted) : heap'[emitted[i]] = [rows |-> emitted[i], ops |-> 1]
  <2> TAKE i \in taken' + 1 .. Len(emitted)
  <2>1. emitted[i] \in Chunks /\ e < emitted[i] BY <1>4, BatchTypes
  <2> QED BY <1>4, <1>6, <2>1 DEF VInv, BatchesIntact, Holds, Object
<1>14. UNCHANGED <<Contents(jobs), Contents(results)>> BY <1>1 DEF Contents
<1> QED BY <1>1, <1>5, <1>9, <1>10, <1>11, <1>12, <1>13, <1>14
    DEF BatchesIntact, Holds, Object, Ahead, InHands

\* The other steps: they hand batches on as they are, or drop them.
ReaderHandsOn ==
  \/ ScanEnd \/ ScanFail \/ SendJob \/ ReaderStopped \/ ReportScanErr
  \/ CancelOnScanErr \/ CloseJobs \/ CloseScanner \/ ReportAndSignal
WorkerHandsOn(w) == WorkerStopped(w) \/ WorkerNoJobs(w) \/ WorkerSend(w)
HandOn ==
  \/ ReaderHandsOn \/ (\E w \in Workers : WorkerHandsOn(w))
  \/ CloseResults \/ Reassembler
  \/ (Contexts \/ RecvErr) /\ UNCHANGED poolVars
  \/ UNCHANGED vars

\* The batches the operators have still to be applied to, and the others.
Fresh == Contents(jobs) \cup (IF rpc = "send" THEN {seq - 1} ELSE {})
OnItsWay == {emitted[i] : i \in taken + 1 .. Len(emitted)}
Applied ==
  Ahead \cup (IF apc = "send" THEN {next - 1} ELSE {}) \cup OnItsWay

\* BatchesIntact by them.
LEMMA IntactSets ==
  BatchesIntact <=>
    /\ \A s \in Fresh : heap[s] = [rows |-> s, ops |-> 0]
    /\ \A s \in Applied : heap[s] = [rows |-> s, ops |-> 1]
<1>1. (\A s \in Fresh : heap[s] = [rows |-> s, ops |-> 0]) <=>
        /\ rpc = "send" => heap[seq - 1] = [rows |-> seq - 1, ops |-> 0]
        /\ \A s \in Contents(jobs) : heap[s] = [rows |-> s, ops |-> 0]
  BY DEF Fresh
<1>2. (\A s \in Ahead : heap[s] = [rows |-> s, ops |-> 1]) <=>
        /\ \A w \in Workers : wpc[w] = "send" => heap[wseq[w]] = [rows |-> wseq[w], ops |-> 1]
        /\ \A s \in Contents(results) \cup pending : heap[s] = [rows |-> s, ops |-> 1]
  BY DEF Ahead, InHands
<1>3. (\A s \in OnItsWay : heap[s] = [rows |-> s, ops |-> 1]) <=>
        \A i \in taken + 1 .. Len(emitted) : heap[emitted[i]] = [rows |-> emitted[i], ops |-> 1]
  BY DEF OnItsWay
<1>4. (\A s \in Applied : heap[s] = [rows |-> s, ops |-> 1]) <=>
        /\ \A s \in Ahead : heap[s] = [rows |-> s, ops |-> 1]
        /\ apc = "send" => heap[next - 1] = [rows |-> next - 1, ops |-> 1]
        /\ \A s \in OnItsWay : heap[s] = [rows |-> s, ops |-> 1]
  BY DEF Applied
<1> QED BY <1>1, <1>2, <1>3, <1>4 DEF BatchesIntact, Holds, Object

\* Where no batch changes and nobody comes by one that was not in the same
\* state before, what the batches hold stays right.
LEMMA SameBatches ==
  ASSUME BatchesIntact, heap' = heap, Fresh' \subseteq Fresh, Applied' \subseteq Applied
  PROVE  BatchesIntact'
<1>1. /\ \A s \in Fresh : heap[s] = [rows |-> s, ops |-> 0]
      /\ \A s \in Applied : heap[s] = [rows |-> s, ops |-> 1]
  BY IntactSets
<1>2. /\ \A s \in Fresh' : heap'[s] = [rows |-> s, ops |-> 0]
      /\ \A s \in Applied' : heap'[s] = [rows |-> s, ops |-> 1]
  BY <1>1
<1>3. (/\ \A s \in Fresh : heap[s] = [rows |-> s, ops |-> 0]
       /\ \A s \in Applied : heap[s] = [rows |-> s, ops |-> 1])' => BatchesIntact'
  BY IntactSets, PTL
<1> QED BY <1>2, <1>3

\* The steps of HandOn keep the batches as they are.
LEMMA HandOnKeepsBatches ==
  ASSUME IInv, VInv, HandOn, heap' = heap
  PROVE  HeapTypeOK' /\ BatchesIntact'
<1>0. TypeInv BY DEF IInv, TypeInv
<1>1. HeapTypeOK' BY DEF VInv, HeapTypeOK
<1>2. /\ jobs \in Seq(Chunks) /\ results \in Seq(Chunks) /\ next \in Nat
      /\ wpc \in [Workers -> {"recv", "send", "exit"}] /\ wseq \in [Workers -> Nat]
      /\ emitted \in Seq(Nat) /\ taken \in Nat /\ Len(emitted) \in Nat
  BY <1>0, HolderTypes, BatchTypes
<1>3. SUFFICES Fresh' \subseteq Fresh /\ Applied' \subseteq Applied
  BY <1>1, SameBatches DEF VInv
<1> USE DEF chanVars, ctxVars, outVars, errVars, poolVars, readerVars, jobVars,
            workerVars, resultVars, asmVars, AsmFrame
<1>4. ASSUME UNCHANGED <<rpc, seq, jobs>> PROVE Fresh' = Fresh
  BY <1>4 DEF Fresh, Contents
<1>5. ASSUME UNCHANGED <<apc, next, emitted, taken>>, Ahead' \subseteq Ahead
      PROVE  Applied' \subseteq Applied
  BY <1>5 DEF Applied, OnItsWay
<1>6. ASSUME UNCHANGED <<wpc, wseq, results, pending>> PROVE Ahead' = Ahead
  BY <1>6 DEF Ahead, InHands, Contents
<1>7. CASE ReaderHandsOn
  <2>1. UNCHANGED <<wpc, wseq, results, pending, apc, next, emitted, taken>> /\ rpc' # "send"
    BY <1>7 DEF ReaderHandsOn, ReportAndSignal, ScanEnd, ScanFail, SendJob, ReaderStopped,
                ReportScanErr, CancelOnScanErr, CloseJobs, CloseScanner, ReportCloseErr,
                SignalReaderDone
  <2>2. SendJob \/ jobs' = jobs
    BY <1>7 DEF ReaderHandsOn, ReportAndSignal, ScanEnd, ScanFail, ReaderStopped,
                ReportScanErr, CancelOnScanErr, CloseJobs, CloseScanner, ReportCloseErr,
                SignalReaderDone
  <2>3. Contents(jobs)' \subseteq Fresh
    <3>1. CASE SendJob
      <4>1. rpc = "send" /\ jobs' = Append(jobs, seq - 1) /\ seq - 1 \in Chunks
        BY <3>1, BatchTypes DEF SendJob
      <4>2. Contents(jobs') = Contents(jobs) \cup {seq - 1}
        BY <4>1, <1>2, AppendContents
      <4>3. Contents(jobs)' = Contents(jobs') BY DEF Contents
      <4> QED BY <4>1, <4>2, <4>3 DEF Fresh
    <3>2. CASE jobs' = jobs BY <3>2 DEF Fresh, Contents
    <3> QED BY <2>2, <3>1, <3>2
  <2>4. Fresh' \subseteq Fresh BY <2>1, <2>3 DEF Fresh
  <2> QED BY <1>5, <1>6, <2>1, <2>4
<1>8. ASSUME NEW w \in Workers, WorkerHandsOn(w)
      PROVE  Fresh' \subseteq Fresh /\ Applied' \subseteq Applied
  <2>1. UNCHANGED <<rpc, seq, jobs, pending, apc, next, emitted, taken>>
    BY <1>8 DEF WorkerHandsOn, WorkerStopped, WorkerNoJobs, WorkerLeave, WorkerSend
  <2>2. \A v \in Workers : wpc'[v] = "send" => wpc[v] = "send" /\ wseq'[v] = wseq[v]
    BY <1>2, <1>8 DEF WorkerHandsOn, WorkerStopped, WorkerNoJobs, WorkerLeave, WorkerSend
  <2>3. InHands' \subseteq InHands BY <2>2 DEF InHands
  <2>4. Contents(results)' \subseteq Contents(results) \cup InHands
    <3>1. CASE WorkerSend(w)
      <4>1. results' = Append(results, wseq[w]) /\ wseq[w] \in InHands /\ wseq[w] \in Chunks
        BY <1>0, <3>1 DEF WorkerSend, InHands, TypeInv, Hands
      <4>2. Contents(results') = Contents(results) \cup {wseq[w]}
        BY <4>1, <1>2, AppendContents
      <4>3. Contents(results)' = Contents(results') BY DEF Contents
      <4> QED BY <4>1, <4>2, <4>3
    <3>2. CASE WorkerStopped(w) \/ WorkerNoJobs(w)
      BY <3>2 DEF WorkerStopped, WorkerNoJobs, WorkerLeave, Contents
    <3> QED BY <1>8, <3>1, <3>2 DEF WorkerHandsOn
  <2>5. Ahead' \subseteq Ahead BY <2>1, <2>3, <2>4 DEF Ahead
  <2> QED BY <1>4, <1>5, <2>1, <2>5
<1>9. CASE Reassembler
  <2>1. UNCHANGED <<rpc, seq, jobs, wpc, wseq, taken>>
    BY <1>9 DEF Reassembler, Assemble, Emit, Teardown, AsmStopped, AsmResult, AsmOpError,
         AsmResultsEnd, EmitTake, EmitMissing, EmitSend, EmitStopped, TeardownCancel,
         TeardownWait, TeardownParent, TeardownCloseOut, TeardownCloseErr
  <2>2. InHands' = InHands BY <2>1 DEF InHands
  <2>3. SUFFICES Applied' \subseteq Applied
    BY <1>4, <2>1
  <2>4. CASE AsmResult \/ AsmOpError
    <3>1. /\ UNCHANGED <<next, emitted>> /\ apc' # "send"
          /\ results # << >> /\ results' = Tail(results)
          /\ pending' \subseteq pending \cup {Head(results)}
      BY <2>4 DEF AsmResult, AsmOpError
    <3>2. Contents(results) = Contents(results') \cup {Head(results)}
      BY <3>1, <1>2, TailContents
    <3>3. Contents(results)' = Contents(results') BY DEF Contents
    <3>4. Ahead' \subseteq Ahead BY <2>2, <3>1, <3>2, <3>3 DEF Ahead
    <3>5. OnItsWay' = OnItsWay BY <2>1, <3>1 DEF OnItsWay
    <3> QED BY <3>1, <3>4, <3>5 DEF Applied
  <2>5. CASE EmitTake
    <3>1. /\ UNCHANGED <<results, emitted>> /\ next \in pending
          /\ pending' = pending \ {next} /\ next' - 1 = next
      BY <2>5, <1>2 DEF EmitTake
    <3>2. Contents(results)' = Contents(results) BY <3>1 DEF Contents
    <3>3. Ahead' \subseteq Ahead /\ next \in Ahead BY <2>2, <3>1, <3>2 DEF Ahead
    <3>4. OnItsWay' = OnItsWay BY <2>1, <3>1 DEF OnItsWay
    <3> QED BY <3>1, <3>3, <3>4 DEF Applied
  <2>6. CASE EmitSend
    <3>1. /\ UNCHANGED <<results, pending, next>> /\ apc = "send" /\ apc' = "emit"
          /\ emitted' = Append(emitted, next - 1) /\ next - 1 \in Nat
      BY <2>6, <1>0, BatchTypes, HolderTypes DEF EmitSend
    <3>2. /\ Len(emitted') = Len(emitted) + 1 /\ emitted'[Len(emitted) + 1] = next - 1
          /\ \A i \in 1 .. Len(emitted) : emitted'[i] = emitted[i]
      BY <3>1, <1>2, AppendContents
    <3>3. OnItsWay' \subseteq OnItsWay \cup {next - 1}
      <4> SUFFICES ASSUME NEW i \in taken + 1 .. Len(emitted') PROVE emitted'[i] \in OnItsWay \cup {next - 1}
        BY <2>1 DEF OnItsWay
      <4>1. CASE i = Len(emitted) + 1 BY <3>2, <4>1
      <4>2. CASE i # Len(emitted) + 1
        <5>1. i \in 1 .. Len(emitted) /\ i \in taken + 1 .. Len(emitted) BY <1>2, <3>2, <4>2
        <5> QED BY <3>2, <5>1 DEF OnItsWay
      <4> QED BY <4>1, <4>2
    <3>4. Ahead' = Ahead BY <1>6, <2>1, <3>1
    <3> QED BY <3>1, <3>3, <3>4 DEF Applied
  <2>7. CASE UNCHANGED <<results, pending, next, emitted>> /\ (apc' = "send" => apc = "send")
    <3>1. Ahead' = Ahead BY <1>6, <2>1, <2>7
    <3>2. OnItsWay' = OnItsWay BY <2>1, <2>7 DEF OnItsWay
    <3> QED BY <2>7, <3>1, <3>2 DEF Applied
  <2>8. \/ AsmResult \/ AsmOpError \/ EmitTake \/ EmitSend
        \/ UNCHANGED <<results, pending, next, emitted>> /\ (apc' = "send" => apc = "send")
    BY <1>9 DEF Reassembler, Assemble, Emit, Teardown, AsmStopped, AsmResultsEnd, EmitMissing,
         EmitStopped, AfterEmit, TeardownCancel, TeardownWait, TeardownParent, TeardownCloseOut,
         TeardownCloseErr
  <2> QED BY <2>4, <2>5, <2>6, <2>7, <2>8
<1>10. CASE CloseResults \/ ((Contexts \/ RecvErr) /\ UNCHANGED poolVars) \/ UNCHANGED vars
  <2>1. UNCHANGED <<rpc, seq, jobs, wpc, wseq, results, pending, apc, next, emitted, taken>>
    BY <1>10 DEF CloseResults, Contexts, CancelParent, PropagateCancel, RecvErr, vars
  <2> QED BY <1>4, <1>5, <1>6, <2>1
<1> QED
  <2> HIDE DEF poolVars
  <2> QED BY <1>7, <1>8, <1>9, <1>10 DEF HandOn

\* The invariant of the batches.
LEMMA VInvInit == VectorInit => VInv
<1> SUFFICES ASSUME VectorInit PROVE VInv
  OBVIOUS
<1>1. Init /\ heap = [o \in Chunks |-> [rows |-> Nobody, ops |-> 0]]
  BY DEF VectorInit
<1>2. HeapTypeOK BY <1>1, RunAssumption DEF HeapTypeOK, Nobody
<1>3. BatchesIntact BY <1>1 DEF Init, ChanInit, BatchesIntact, Contents
<1> QED BY <1>1, <1>2, <1>3, OneHolderInit, InTurnInit DEF VInv

\* Every step keeps it.
LEMMA VInvStep == IInv /\ VInv /\ [VectorNext]_vectorVars => VInv'
<1> SUFFICES ASSUME IInv, VInv, [VectorNext]_vectorVars PROVE VInv'
  OBVIOUS
<1>1. TypeInv /\ OneHolder /\ InTurn BY DEF IInv, TypeInv, VInv
<1>2. [Next]_vars BY VectorStep
<1>3. OneHolder' /\ InTurn' BY <1>1, <1>2, OneHolderStep, InTurnStep
<1>4. HeapTypeOK' /\ BatchesIntact'
  <2>1. CASE FillBatch BY <2>1, FillKeepsBatches
  <2>2. ASSUME NEW w \in Workers, ApplyOps(w) PROVE HeapTypeOK' /\ BatchesIntact'
    BY <2>2, ApplyKeepsBatches
  <2>3. CASE TakeBatch BY <2>3, TakeKeepsBatches
  <2>4. CASE HandOn /\ heap' = heap BY <2>4, HandOnKeepsBatches
  <2>5. FillBatch \/ (\E w \in Workers : ApplyOps(w)) \/ TakeBatch \/ (HandOn /\ heap' = heap)
    BY DEF VectorNext, VectorReader, VectorWorker, VectorCloser, VectorReassembler,
           VectorCaller, Finished, vectorVars, HandOn, ReaderHandsOn, WorkerHandsOn
  <2> QED BY <2>1, <2>2, <2>3, <2>4, <2>5
<1> QED BY <1>3, <1>4 DEF VInv


-----------------------------------------------------------------------------
(* The theorems.                                                            *)

\* The batches' invariant holds in every reachable state.
THEOREM VectorInvariant == VectorSpec => []VInv
BY VInvInit, VInvStep, VectorInductive, PTL DEF VectorSpec

\* A chunk is in one goroutine's hands or in one queue, once.
THEOREM EachChunkOnce == VectorSpec => []OneHolder
<1>1. VInv => OneHolder BY DEF VInv
<1> QED BY <1>1, VectorInvariant, PTL

\* From the scanner to the caller a batch holds the rows it was filled with,
\* with every operator applied to it once.
THEOREM NoBatchAliased == VectorSpec => []BatchesIntact
<1>1. VInv => BatchesIntact BY DEF VInv
<1> QED BY <1>1, VectorInvariant, PTL

\* What keeps the reassembler waiting with chunks in pending is in a worker's
\* hands or behind one result in the result queue.
THEOREM PendingWaits == VectorSpec => []PendingWaitsForNext
<1>1. IInv /\ VInv => PendingWaitsForNext
  <2> SUFFICES ASSUME IInv, VInv, apc = "select", ~runDone, NEW p \in pending
               PROVE  \/ \E w \in Workers : wpc[w] = "send" /\ wseq[w] = next
                      \/ next \in Contents(results)
    BY DEF PendingWaitsForNext
  <2>1. TypeInv BY DEF IInv, TypeInv
  <2>2. p \in Ahead /\ p \in Nat /\ p \in Chunks /\ next \in Nat /\ Queued \in Int /\ Queued <= seq
    BY <2>1, HolderTypes DEF Ahead
  <2>3. next <= p /\ p < Queued /\ \A j \in Contents(jobs) : p < j
    BY <2>2 DEF VInv, OneHolder
  <2>4. next \notin pending /\ \A s \in Chunks : s < seq => s < next \/ InFlight(s)
    BY DEF VInv, InTurn
  <2>5. next < p
    BY <2>2, <2>3, <2>4
  <2>6. next \in Chunks /\ next < seq
    BY <2>1, <2>2, <2>3, <2>5, HolderTypes DEF Chunks
  <2>7. InFlight(next)
    BY <2>2, <2>4, <2>6
  <2>8. ~(rpc = "send" /\ next = seq - 1)
    BY <2>2, <2>3, <2>5 DEF Queued
  <2>9. next \notin Contents(jobs)
    <3>1. Contents(jobs) \subseteq Nat BY <2>1, HolderTypes
    <3> QED BY <2>2, <2>3, <2>5, <3>1
  <2> QED BY <2>4, <2>7, <2>8, <2>9 DEF InFlight
<1> QED BY <1>1, VectorInductive, VectorInvariant, PTL

-----------------------------------------------------------------------------
(* The pool under an Iterator.                                              *)

\* What a call does to the run a caller of Run could have done.
LEMMA ExecuteStep == [ExecuteNext]_executeVars => [Next]_vars
<1> SUFFICES ASSUME [ExecuteNext]_executeVars PROVE [Next]_vars
  OBVIOUS
<1>1. CASE Engine
  BY <1>1 DEF Next
<1>2. CASE Contexts /\ UNCHANGED poolVars
  BY <1>2 DEF Next
<1>3. CASE Calls /\ UNCHANGED poolVars
  <2>1. CASE RecvChunk \/ RecvErr
    BY <1>3, <2>1 DEF Next, Consumer
  <2>2. CASE UNCHANGED chanVars
    BY <1>3, <2>2 DEF vars
  <2>3. CASE parentErr' = TRUE /\ UNCHANGED <<runDone, outVars, errVars>>
    <3>1. CASE parentErr # TRUE
      <4>1. CASE parentErr
        BY <1>3, <2>3, <4>1 DEF vars, chanVars, ctxVars
      <4>2. CASE ~parentErr
        BY <1>3, <2>3, <4>2 DEF Next, Contexts, CancelParent
      <4> QED BY <4>1, <4>2
    <3>2. CASE parentErr = TRUE
      BY <1>3, <2>3, <3>2 DEF vars, chanVars, ctxVars
    <3> QED BY <3>1, <3>2
  <2> QED BY <1>3, <2>1, <2>2, <2>3, CallEffect
<1>4. CASE UNCHANGED executeVars
  BY <1>4 DEF executeVars
<1> QED BY <1>1, <1>2, <1>3, <1>4 DEF ExecuteNext

\* The pool's goroutines under Execute do what they do under Run: whatever is
\* proved of the pool holds behind an Iterator.
THEOREM ExecuteIsPool == ExecuteSpec => Spec
<1>1. ExecuteInit => Init
  BY DEF ExecuteInit
<1> QED BY <1>1, ExecuteStep, PTL DEF ExecuteSpec, Spec

\* Pool's inductive invariant holds of Execute's runs.
LEMMA ExecuteInductive == ExecuteSpec => []IInv
BY ExecuteIsPool, Inductive

\* What Execute's run puts out is the abstract stream.
THEOREM ExecuteRefinement == ExecuteSpec => RefinesStream
BY ExecuteIsPool, Refinement

-----------------------------------------------------------------------------
(* What the reader is told.                                                 *)

\* Once out is closed the run reports no more: errCh is still open, but the
\* reader goroutine is done and the reassembler past its last report.
LEMMA EngineIsRunStep == IInv /\ Engine /\ UNCHANGED iteratorVars => RunStep
<1> SUFFICES ASSUME IInv, Engine, UNCHANGED iteratorVars PROVE RunStep
  OBVIOUS
<1>1. outClosed => apc \in {"closeErr", "done"} /\ rpc = "done"
  BY DEF IInv, Protocol
<1> USE DEF RunStep, chanVars, ctxVars, outVars, errVars
<1>2. CASE Reader
  <2>1. CASE ReadSource
    BY <1>1, <2>1 DEF ReadSource, ScanChunk, ScanEnd, ScanFail, SendJob, ReaderStopped,
                      ReportScanErr, SendErr, CancelOnScanErr, CancelRun, CloseJobs
  <2>2. CASE CloseScanner \/ ReportAndSignal
    BY <1>1, <2>2 DEF CloseScanner, ReportAndSignal, ReportCloseErr, SendErr, SignalReaderDone
  <2> QED BY <1>2, <2>1, <2>2 DEF Reader
<1>3. ASSUME NEW w \in Workers, Worker(w) PROVE RunStep
  BY <1>3 DEF Worker, WorkerStopped, WorkerNoJobs, WorkerLeave, WorkerRecv, WorkerSend
<1>4. CASE CloseResults
  BY <1>4 DEF CloseResults
<1>5. CASE Assemble
  BY <1>1, <1>5 DEF Assemble, AsmStopped, AsmResult, AsmOpError, SendErr, AsmResultsEnd
<1>6. CASE Emit
  BY <1>1, <1>6 DEF Emit, EmitTake, EmitMissing, EmitSend, EmitStopped
<1>7. CASE Teardown
  BY <1>1, <1>7 DEF Teardown, TeardownCancel, CancelRun, TeardownWait, TeardownParent, SendErr,
                    TeardownCloseOut, TeardownCloseErr
<1> QED BY <1>2, <1>3, <1>4, <1>5, <1>6, <1>7 DEF Engine, Reassembler

LEMMA ContextsIsRunStep == Contexts /\ UNCHANGED iteratorVars => RunStep
BY DEF Contexts, CancelParent, PropagateCancel, RunStep, outVars, errVars

\* The Iterator's invariant holds behind the pool.
LEMMA ExecuteCalls == ASSUME OneReader PROVE ExecuteSpec => []IteratorIInv
<1>1. ExecuteInit => IteratorIInv
  BY IteratorInitInv DEF ExecuteInit, Init
<1>2. IInv /\ IteratorIInv /\ [ExecuteNext]_executeVars => IteratorIInv'
  <2> SUFFICES ASSUME IInv, IteratorIInv, [ExecuteNext]_executeVars PROVE IteratorIInv'
    OBVIOUS
  <2>1. CASE Engine /\ UNCHANGED iteratorVars
    BY <2>1, EngineIsRunStep, RunStepInv
  <2>2. CASE Contexts /\ UNCHANGED iteratorVars
    BY <2>2, ContextsIsRunStep, RunStepInv
  <2>3. CASE Calls
    BY <2>3, OneReader, CallsInv DEF IInv, TypeOK
  <2>4. CASE UNCHANGED executeVars
    <3>1. RunStep
      BY <2>4 DEF executeVars, vars, chanVars, outVars, errVars, RunStep
    <3> QED BY <3>1, RunStepInv
  <2> QED BY <2>1, <2>2, <2>3, <2>4 DEF ExecuteNext
<1> QED BY <1>1, <1>2, ExecuteInductive, PTL DEF ExecuteSpec

\* With one reader a clean end of stream from Next means the whole source was
\* received and nothing failed, unless somebody closed the iterator.
THEOREM CleanNext == ASSUME OneReader PROVE ExecuteSpec => []CleanNextIsComplete
<1>1. IInv /\ IteratorIInv => CleanNextIsComplete
  <2> SUFFICES ASSUME IInv, IteratorIInv, NEW r \in Readers, ret[r] = "nil", ~cancelOnce
               PROVE  taken = NumChunks /\ opFails = {} /\ ~scanFailed /\ ~closeFailed
    BY DEF CleanNextIsComplete
  <2>1. outClosed /\ taken = Len(emitted) /\ errs = << >>
    BY ToldClean DEF AtEnd
  <2>2. CleanEOFIsComplete
    BY InvCleanEOF
  <2> QED BY <2>1, <2>2 DEF CleanEOFIsComplete
<1> QED BY <1>1, ExecuteInductive, ExecuteCalls, PTL

\* The error a lone reader is told at the end is the first one the run
\* reported, and the only one.
THEOREM FirstError == ASSUME OneReader PROVE ExecuteSpec => []FirstErrorWins
<1>1. IteratorIInv => FirstErrorWins
  BY ToldError DEF FirstErrorWins
<1> QED BY <1>1, ExecuteCalls, PTL
=============================================================================
