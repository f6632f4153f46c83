---------------------------- MODULE StraightInv -----------------------------
(***************************************************************************)
(* The invariants of runStraight that hold whatever source it reads: where  *)
(* the goroutine stands says which channels are closed, what has come out   *)
(* and which failures were reported.                                        *)
(***************************************************************************)
EXTENDS Straight

\* The goroutine owns both channels and closes out first.
CloseOrder ==
  /\ outClosed <=> pc \in {"closeErrCh", "done"}
  /\ errClosed <=> pc = "done"

\* No chunk is skipped: only the one in hand can be missing.
EmittedPrefix ==
  /\ \A i \in 1 .. Len(emitted) : emitted[i] = i - 1
  /\ pc = "next" => Len(emitted) = chunk
  /\ pc = "send" => Len(emitted) = chunk - 1
  /\ Len(emitted) <= chunk

\* runCtx ends because the caller cancelled, because a scan error was reported
\* first, or because the goroutine is about to close out.
StopHasCause ==
  runDone => parentErr \/ errs # << >> \/ pc \in {"closeOut", "closeErrCh", "done"}

\* A failure of the source reaches errCh before the goroutine goes on.
FailuresReported ==
  /\ scanFailed => pc \notin {"next", "send"} /\ (pc = "scanErr" \/ errs # << >>)
  /\ pc \in {"scanErr", "scanCancel"} => scanFailed
  /\ closeFailed => pc \in {"closeErr", "parent", "cancel", "closeOut", "closeErrCh", "done"}
                      /\ (pc = "closeErr" \/ errs # << >>)

StreamerInv ==
  /\ StraightTypeOK
  /\ CloseOrder
  /\ EmittedPrefix
  /\ StopHasCause
  /\ FailuresReported

\* Once the source is closed the outcome is settled: it came out whole, or an
\* error is reported, or (until the goroutine looks) the caller has cancelled.
SettledAs(whole) ==
  /\ pc \in {"close", "closeErr", "parent"} => whole \/ errs # << >> \/ parentErr
  /\ pc \in {"cancel", "closeOut", "closeErrCh", "done"} => whole \/ errs # << >>

\* For a source of NumChunks chunks.
Settled == SettledAs(Len(emitted) = NumChunks)

StraightIInv == StreamerInv /\ Settled
=============================================================================
