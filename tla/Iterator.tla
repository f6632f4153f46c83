------------------------------ MODULE Iterator ------------------------------
(***************************************************************************)
(* engine.Iterator over the channels of a run.  Readers call Next as often  *)
(* as they like, each call with a context of its own that may end at any    *)
(* moment; Closers call Close, possibly while a Next is blocked.            *)
(***************************************************************************)
EXTENDS RunChannels

CONSTANTS Readers, Closers

ASSUME IteratorAssumption == Readers \cap Closers = {}

VARIABLES
  itDone, itErr,    \* it.done and it.err, under it.mu
  cancelOnce,       \* it.cancel has been issued
  cpc,              \* where each caller is: in no call, or in Next or Close
  cterm,            \* the terminal error a Next has read but not published
  ret               \* what each caller's latest finished call returned

callerVars   == <<cpc, cterm, ret>>
iteratorVars == <<itDone, itErr, cancelOnce, callerVars>>

Callers   == Readers \cup Closers
Terminals == Errors \cup {"nil"}      \* what Next returns with ok = false

IteratorTypeOK ==
  /\ itDone \in BOOLEAN /\ itErr \in Terminals /\ cancelOnce \in BOOLEAN
  /\ cpc \in [Callers -> {"idle", "select", "publish", "close"}]
  /\ cterm \in [Callers -> Terminals]
  /\ ret \in [Callers -> Terminals \cup {"none", "chunk", "callCtx", "closed"}]

IteratorInit ==
  /\ itDone = FALSE /\ itErr = "nil" /\ cancelOnce = FALSE
  /\ cpc = [c \in Callers |-> "idle"]
  /\ cterm = [c \in Callers |-> "nil"]
  /\ ret = [c \in Callers |-> "none"]

Go(c, to)      == cpc[c] # to /\ cpc' = [cpc EXCEPT ![c] = to]
Returns(c, r)  == /\ cpc' = [cpc EXCEPT ![c] = "idle"]
                  /\ ret' = [ret EXCEPT ![c] = r]
                  /\ cterm' = [cterm EXCEPT ![c] = "nil"]

-----------------------------------------------------------------------------
NextBegin(c) ==
  /\ cpc[c] = "idle" /\ ~itDone
  /\ Go(c, "select")
  /\ UNCHANGED <<chanVars, itDone, itErr, cancelOnce, cterm, ret>>

NextAfterDone(c) ==
  /\ cpc[c] = "idle" /\ itDone
  /\ Returns(c, itErr)
  /\ UNCHANGED <<chanVars, itDone, itErr, cancelOnce>>

NextCallCancelled(c) ==
  /\ cpc[c] = "select"
  /\ Returns(c, "callCtx")
  /\ UNCHANGED <<chanVars, itDone, itErr, cancelOnce>>

NextChunk(c) ==
  /\ cpc[c] = "select"
  /\ RecvChunk
  /\ Returns(c, "chunk")
  /\ UNCHANGED <<itDone, itErr, cancelOnce>>

\* Mutant of NextClosed: the end of the stream is taken for a clean one.
NextClosedClean(c) ==
  /\ cpc[c] = "select" /\ outClosed /\ taken = Len(emitted)
  /\ Go(c, "publish")
  /\ UNCHANGED <<chanVars, cterm, itDone, itErr, cancelOnce, ret>>

\* chunks is closed and empty: read errCh without blocking, outside it.mu.
NextClosed(c) ==
  /\ cpc[c] = "select" /\ outClosed /\ taken = Len(emitted)
  /\ Go(c, "publish")
  /\ \/ /\ RecvErr
        /\ cterm' = [cterm EXCEPT ![c] = errs[errsTaken + 1]]
     \/ /\ errsTaken = Len(errs)
        /\ UNCHANGED <<chanVars, cterm>>
  /\ UNCHANGED <<itDone, itErr, cancelOnce, ret>>

\* Mutant of NextPublish: it returns the error it read, not the one published.
NextReturnsOwn(c) ==
  /\ cpc[c] = "publish"
  /\ itDone' = TRUE
  /\ itErr' = IF itDone THEN itErr ELSE cterm[c]
  /\ Returns(c, cterm[c])
  /\ UNCHANGED <<chanVars, cancelOnce>>

\* Under it.mu: the first to get here decides the terminal error for everyone.
NextPublish(c) ==
  /\ cpc[c] = "publish"
  /\ itDone' = TRUE
  /\ itErr' = IF itDone THEN itErr ELSE cterm[c]
  /\ Returns(c, itErr')
  /\ UNCHANGED <<chanVars, cancelOnce>>

\* Mutant of CloseCancel: Close does not cancel the run.
CloseWithoutCancel(c) ==
  /\ cpc[c] = "idle"
  /\ Go(c, "close")
  /\ cancelOnce' = TRUE
  /\ UNCHANGED <<chanVars, itDone, itErr, cterm, ret>>

\* it.cancel cancels the context Execute derived from the caller's.
CloseCancel(c) ==
  /\ cpc[c] = "idle"
  /\ Go(c, "close")
  /\ cancelOnce' = TRUE
  /\ parentErr' = TRUE
  /\ UNCHANGED <<runDone, outVars, errVars, itDone, itErr, cterm, ret>>

\* cancel returns, and with it every waiting once.Do, when the contexts below
\* are cancelled too.
CloseFinish(c) ==
  /\ cpc[c] = "close" /\ runDone
  /\ itDone' = TRUE
  /\ Returns(c, "closed")
  /\ UNCHANGED <<chanVars, itErr, cancelOnce>>

NextCall(c) == NextBegin(c) \/ NextAfterDone(c) \/ NextCallCancelled(c)
                 \/ NextChunk(c) \/ NextClosed(c) \/ NextPublish(c)
CloseCall(c) == CloseCancel(c) \/ CloseFinish(c)

Calls == (\E r \in Readers : NextCall(r)) \/ (\E c \in Closers : CloseCall(c))

\* A call that was made goes on whenever it can; nobody has to make a call.
CallProgress(c) == NextChunk(c) \/ NextClosed(c) \/ NextPublish(c) \/ CloseFinish(c)
=============================================================================
