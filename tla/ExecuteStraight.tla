-------------------------- MODULE ExecuteStraight --------------------------
(***************************************************************************)
(* qpx.Execute without operators: runStraight feeds an Iterator, which is   *)
(* the only consumer of the run's channels.  The context Run calls parent   *)
(* is the one Execute derives: the caller's own cancellation and            *)
(* Iterator.Close both end it.                                              *)
(***************************************************************************)
EXTENDS Straight, Iterator

executeVars == <<straightVars, iteratorVars>>

ExecuteInit == StraightInit /\ IteratorInit

ExecuteNext ==
  \/ RunStraight /\ UNCHANGED iteratorVars
  \/ Contexts /\ UNCHANGED <<streamerVars, iteratorVars>>
  \/ Calls /\ UNCHANGED streamerVars

ExecuteSpec == ExecuteInit /\ [][ExecuteNext]_executeVars

ExecuteFairSpec ==
  /\ ExecuteSpec
  /\ WF_executeVars(RunStraight /\ UNCHANGED iteratorVars)
  /\ WF_executeVars(PropagateCancel /\ UNCHANGED <<streamerVars, iteratorVars>>)
  /\ \A c \in Callers : WF_executeVars(CallProgress(c) /\ UNCHANGED streamerVars)

ExecuteTypeOK == StraightTypeOK /\ IteratorTypeOK

-----------------------------------------------------------------------------
\* Next reports a clean end of stream only for a run that delivered the whole
\* source without a failure, unless somebody closed the iterator
\* (iterator.go:8-16): a failed or cancelled run never looks like a clean EOF.
CleanNextIsComplete ==
  \A r \in Readers : ret[r] = "nil" /\ ~cancelOnce =>
    taken = NumChunks /\ ~scanFailed /\ ~closeFailed

\* A reader that was told how the run ended is told the same ever after, also
\* when a Close comes later (iterator.go:8-10).
TerminalIsStable ==
  [][\A r \in Readers : ret[r] \in Terminals => ret'[r] = ret[r]]_executeVars

\* Close never waits for a blocked Next, and a blocked Next always returns,
\* with a chunk or with the end of the stream (iterator.go:74-75).
CallsReturn == \A c \in Callers : cpc[c] # "idle" ~> cpc[c] = "idle"

\* After Close the run's goroutine exits though nobody receives any more.
CloseReleases == cancelOnce ~> pc = "done"
=============================================================================
