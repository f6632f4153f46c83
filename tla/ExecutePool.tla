---------------------------- MODULE ExecutePool ----------------------------
(***************************************************************************)
(* qpx.Execute with operators: the worker pool feeds an Iterator, which is  *)
(* the only consumer of the run's channels.  Here the race is between the   *)
(* reassembler, which sends errors before it closes out but closes errCh    *)
(* after it, and a Next that reads errCh as soon as out is closed.          *)
(***************************************************************************)
EXTENDS Pool, Iterator

executeVars == <<vars, iteratorVars>>

ExecuteInit == Init /\ IteratorInit

ExecuteNext ==
  \/ Engine /\ UNCHANGED iteratorVars
  \/ Contexts /\ UNCHANGED <<poolVars, iteratorVars>>
  \/ Calls /\ UNCHANGED poolVars

ExecuteSpec == ExecuteInit /\ [][ExecuteNext]_executeVars

ExecuteFairness ==
  /\ WF_executeVars(Reader /\ UNCHANGED iteratorVars)
  /\ \A w \in Workers : WF_executeVars(Worker(w) /\ UNCHANGED iteratorVars)
  /\ WF_executeVars(CloseResults /\ UNCHANGED iteratorVars)
  /\ WF_executeVars(Reassembler /\ UNCHANGED iteratorVars)
  /\ WF_executeVars(PropagateCancel /\ UNCHANGED <<poolVars, iteratorVars>>)
  /\ \A c \in Callers : WF_executeVars(CallProgress(c) /\ UNCHANGED poolVars)

-----------------------------------------------------------------------------
\* A clean end of stream from Next means the whole source was delivered, every
\* operator accepted every chunk and scan and close succeeded, unless somebody
\* closed the iterator (iterator.go:8-16, qpx.go:42-45).
CleanNextIsComplete ==
  \A r \in Readers : ret[r] = "nil" /\ ~cancelOnce =>
    taken = NumChunks /\ opFails = {} /\ ~scanFailed /\ ~closeFailed

\* The error a Next returns at the end of the stream is the first one the run
\* reported, not one that raced it into errCh later (scheduler.go:63-64).
FirstErrorWins ==
  \A r \in Readers : ret[r] \in Errors => ret[r] = errs[1] /\ Len(errs) = 1

\* A blocked Next always returns, and Close never waits for one
\* (iterator.go:74-75).
CallsReturn == \A c \in Callers : cpc[c] # "idle" ~> cpc[c] = "idle"

\* After Close every goroutine of the run exits, though nobody receives any
\* more (qpx.go:41, scheduler.go:65-67).
CloseReleases == cancelOnce ~> Released
=============================================================================
