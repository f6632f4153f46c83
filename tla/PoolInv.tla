------------------------------ MODULE PoolInv ------------------------------
(***************************************************************************)
(* The inductive invariant behind Pool's safety properties.  None of them   *)
(* is inductive alone: why a clean end is a complete one, for example,      *)
(* depends on where every scanned chunk is (NothingLost), on what can have  *)
(* stopped the run (StopHasCause), and on the order of the teardown         *)
(* (Protocol, Settled).                                                     *)
(***************************************************************************)
EXTENDS Pool

Contents(q) == {q[i] : i \in 1 .. Len(q)}

\* What a goroutine holds while it stands at a send.
Hands ==
  /\ rpc = "send" => seq > 0
  /\ apc = "send" => next > 0
  /\ \A w \in Workers : wpc[w] = "send" => wseq[w] \in Chunks

\* The order of the closes.
Protocol ==
  /\ jobsClosed <=> rpc \in {"close", "closeErr", "signal", "done"}
  /\ resultsClosed => \A w \in Workers : wpc[w] = "exit"
  /\ drained => resultsClosed /\ results = << >>
  /\ outClosed <=> apc \in {"closeErr", "done"}
  /\ errClosed <=> apc = "done"
  /\ apc \in {"parent", "closeOut", "closeErr", "done"} => rpc = "done"
  /\ \A w \in Workers : wpc[w] = "exit" => runDone \/ (jobsClosed /\ jobs = << >>)

\* runCtx ends because the caller cancelled, because an error was reported
\* first, or because the reassembler is tearing the run down.
StopHasCause ==
  runDone => \/ parentErr
             \/ errs # << >>
             \/ apc \in {"wait", "parent", "closeOut", "closeErr", "done"}

\* A failure of the source reaches errCh, and the scan's before the close's.
FailuresReported ==
  /\ rpc \in {"scanErr", "cancel"} => scanFailed
  /\ scanFailed => rpc = "scanErr" \/ errs # << >>
  /\ closeFailed => rpc = "closeErr" \/ errs # << >>
  /\ errs # << >> /\ errs[1] = "close" => ~scanFailed /\ rpc \in {"signal", "done"}

\* Chunks emitted so far are behind the one at hand, in order.
EmittedBehind ==
  /\ \A i \in 1 .. Len(emitted) :
       emitted[i] < (IF apc = "send" THEN next - 1 ELSE next)
  /\ OutputInOrder

NoHoles ==
  ~runDone =>
    /\ Len(emitted) = (IF apc = "send" THEN next - 1 ELSE next)
    /\ \A i \in 1 .. Len(emitted) : emitted[i] = i - 1

\* Only chunks the operators accepted get past the reassembler's error check.
OpsPassed ==
  /\ pending \cap opFails = {}
  /\ apc = "send" => next - 1 \notin opFails
  /\ Contents(emitted) \cap opFails = {}

\* While nothing stopped or failed the run, a scanned chunk is emitted, or
\* in a goroutine's hands, or in a channel, or waiting for its turn.
InFlight(s) ==
  \/ rpc = "send" /\ s = seq - 1
  \/ s \in Contents(jobs)
  \/ \E w \in Workers : wpc[w] = "send" /\ wseq[w] = s
  \/ s \in Contents(results)
  \/ s \in pending

NothingLost ==
  ~runDone /\ errs = << >> =>
    /\ \A s \in Chunks : s < seq => s < next \/ InFlight(s)
    /\ rpc \in {"closeJobs", "close", "closeErr", "signal", "done"} => seq = NumChunks

Complete == Len(emitted) = NumChunks /\ opFails = {}

\* Once the reassembler tears down, the outcome is settled: everything is out,
\* or an error is reported, or (until it looks) the caller has cancelled.
Settled ==
  /\ apc \in {"cancel", "wait", "parent"} => Complete \/ errs # << >> \/ parentErr
  /\ apc \in {"closeOut", "closeErr", "done"} => Complete \/ errs # << >>

IInv ==
  /\ TypeOK /\ Hands
  /\ Protocol
  /\ StopHasCause
  /\ FailuresReported
  /\ EmittedBehind
  /\ NoHoles
  /\ OpsPassed
  /\ NothingLost
  /\ Settled
=============================================================================
