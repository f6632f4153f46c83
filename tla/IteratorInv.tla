---------------------------- MODULE IteratorInv -----------------------------
(***************************************************************************)
(* The inductive invariant of the Iterator's calls, whatever run fills the  *)
(* channels.  What a reader is told depends on what it found when chunks    *)
(* was closed and empty, and on nobody having drained errCh before it: with *)
(* two readers ErrTakenOnce fails, and with it all that follows.            *)
(***************************************************************************)
EXTENDS Iterator

\* The caller can learn no more from the run: chunks is closed and empty.
AtEnd == outClosed /\ taken = Len(emitted)

\* The run ended with e, all of it that errCh ever accepted.
EndedWith(e) == AtEnd /\ errs = (IF e = "nil" THEN << >> ELSE <<e>>)

CallPcs ==
  /\ \A c \in Callers : cpc[c] \in {"select", "publish"} => c \in Readers
  /\ \A c \in Callers : cpc[c] = "close" => cancelOnce
  /\ \A c \in Callers : cterm[c] # "nil" => cpc[c] = "publish"

\* Only the reader takes from errCh, and at most once.
ErrTakenOnce ==
  errsTaken > 0 =>
    \A r \in Readers : cpc[r] = "publish" \/ (cpc[r] = "idle" /\ itDone)

\* What a reader is about to publish is how the run ended; so is what was
\* published, unless Close got there first.
TermIsTheEnd ==
  /\ \A c \in Callers : cpc[c] = "publish" => EndedWith(cterm[c])
  /\ itErr # "nil" => itDone /\ EndedWith(itErr)
  /\ itDone /\ ~cancelOnce => EndedWith(itErr)

\* A reader that was told the end was told what is published, and has no call
\* under way that could be told anything else.
ToldIsPublished ==
  \A r \in Readers : ret[r] \in Terminals => itDone /\ ret[r] = itErr /\ cpc[r] = "idle"

IteratorIInv ==
  /\ IteratorTypeOK
  /\ CallPcs
  /\ ErrTakenOnce
  /\ TermIsTheEnd
  /\ ToldIsPublished

\* A step of anything but a call: it leaves the Iterator alone, receives
\* nothing, and once out is closed neither sends a chunk nor reports an error.
RunStep ==
  /\ UNCHANGED <<iteratorVars, taken, errsTaken>>
  /\ outClosed => outClosed' /\ UNCHANGED <<emitted, errs>>
=============================================================================
