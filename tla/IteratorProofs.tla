--------------------------- MODULE IteratorProofs ---------------------------
(***************************************************************************)
(* Proofs about the Iterator's calls for any run behind the channels: what  *)
(* a call does to them, and that one reader's calls, any number of closers  *)
(* and the steps of the run keep IteratorIInv.                              *)
(***************************************************************************)
EXTENDS IteratorInv, TLAPS

\* Next is called by one goroutine.
OneReader == \A r, s \in Readers : r = s

-----------------------------------------------------------------------------
\* To the run, a call is a receive, a cancellation of its parent, or nothing.
LEMMA CallEffect ==
  ASSUME Calls
  PROVE  RecvChunk \/ RecvErr \/ UNCHANGED chanVars
           \/ (parentErr' = TRUE /\ UNCHANGED <<runDone, outVars, errVars>>)
BY DEF Calls, NextCall, CloseCall, NextBegin, NextAfterDone, NextCallCancelled, NextChunk,
       NextClosed, NextPublish, CloseCancel, CloseFinish

\* No call is made yet.
LEMMA IteratorInitInv == IteratorInit /\ ChanInit => IteratorIInv
<1> SUFFICES ASSUME IteratorInit, ChanInit PROVE IteratorIInv
  OBVIOUS
<1>1. IteratorTypeOK
  BY DEF IteratorInit, IteratorTypeOK, Terminals
<1>2. CallPcs /\ ErrTakenOnce /\ TermIsTheEnd /\ ToldIsPublished
  BY DEF IteratorInit, ChanInit, CallPcs, ErrTakenOnce, TermIsTheEnd, ToldIsPublished,
         Terminals, Errors, Callers
<1> QED BY <1>1, <1>2 DEF IteratorIInv

\* The run cannot change an end that was seen.
LEMMA RunStepInv == IteratorIInv /\ RunStep => IteratorIInv'
<1> SUFFICES ASSUME IteratorIInv, RunStep PROVE IteratorIInv'
  OBVIOUS
<1>1. \A e : EndedWith(e) => EndedWith(e)'
  BY DEF RunStep, EndedWith, AtEnd
<1>2. UNCHANGED <<itDone, itErr, cancelOnce, cpc, cterm, ret, errsTaken>>
  BY DEF RunStep, iteratorVars, callerVars
<1>3. TermIsTheEnd'
  BY <1>1, <1>2 DEF IteratorIInv, TermIsTheEnd
<1>4. IteratorTypeOK' /\ CallPcs' /\ ErrTakenOnce' /\ ToldIsPublished'
  BY <1>2 DEF IteratorIInv, IteratorTypeOK, CallPcs, ErrTakenOnce, ToldIsPublished
<1> QED BY <1>3, <1>4 DEF IteratorIInv

-----------------------------------------------------------------------------
(* The calls.  At the end of the stream errCh holds at most one error and   *)
(* nothing can be added to it.                                              *)

LEMMA CallTypes == IteratorTypeOK /\ ChanTypeOK /\ Calls => IteratorTypeOK'
<1> SUFFICES ASSUME IteratorTypeOK, ChanTypeOK, Calls PROVE IteratorTypeOK'
  OBVIOUS
<1> USE DEF IteratorTypeOK, Go, Returns
<1>1. ASSUME NEW c \in Callers, NextBegin(c) \/ CloseCancel(c) PROVE IteratorTypeOK'
  BY <1>1 DEF NextBegin, CloseCancel
<1>2. ASSUME NEW c \in Callers, NextAfterDone(c) \/ NextCallCancelled(c) \/ NextChunk(c)
      PROVE IteratorTypeOK'
  BY <1>2 DEF NextAfterDone, NextCallCancelled, NextChunk, Terminals
<1>3. ASSUME NEW c \in Callers, NextClosed(c) PROVE IteratorTypeOK'
  <2>1. CASE errsTaken < Len(errs) /\ cterm' = [cterm EXCEPT ![c] = errs[errsTaken + 1]]
    <3>1. errs[errsTaken + 1] \in Errors
      BY <2>1 DEF ChanTypeOK
    <3> QED BY <1>3, <2>1, <3>1 DEF NextClosed, Terminals
  <2>2. CASE cterm' = cterm
    BY <1>3, <2>2 DEF NextClosed
  <2> QED BY <1>3, <2>1, <2>2 DEF NextClosed, RecvErr
<1>4. ASSUME NEW c \in Callers, NextPublish(c) PROVE IteratorTypeOK'
  <2>1. itErr' \in Terminals
    BY <1>4 DEF NextPublish
  <2> QED BY <1>4, <2>1 DEF NextPublish, Terminals
<1>5. ASSUME NEW c \in Callers, CloseFinish(c) PROVE IteratorTypeOK'
  BY <1>5 DEF CloseFinish, Terminals
<1> QED BY <1>1, <1>2, <1>3, <1>4, <1>5 DEF Calls, NextCall, CloseCall, Callers

\* One reader has taken from errCh at most once when it asks for the last time,
\* so what it gets is all there was.
LEMMA LearnsTheEnd ==
  ASSUME OneReader, ChanTypeOK, IteratorIInv, NEW r \in Readers, NextClosed(r)
  PROVE  EndedWith(cterm'[r])
<1>1. r \in Callers /\ cpc[r] = "select" /\ AtEnd /\ cterm[r] = "nil" /\ r \in DOMAIN cterm
  BY DEF NextClosed, AtEnd, Callers, IteratorIInv, CallPcs, IteratorTypeOK
<1>2. errsTaken = 0
  BY <1>1 DEF IteratorIInv, ErrTakenOnce, ChanTypeOK
<1>3. errs \in Seq(Errors) /\ Len(errs) \in Nat /\ Len(errs) <= 1
  BY <1>2 DEF ChanTypeOK
<1>4. CASE errsTaken < Len(errs) /\ cterm' = [cterm EXCEPT ![r] = errs[errsTaken + 1]]
  <2>1. Len(errs) = 1 /\ errs[1] \in Errors /\ errs = <<errs[1]>> /\ cterm'[r] = errs[1]
    BY <1>1, <1>2, <1>3, <1>4
  <2>2. cterm'[r] # "nil"
    BY <2>1 DEF Errors
  <2> QED BY <1>1, <2>1, <2>2 DEF EndedWith
<1>5. CASE errsTaken = Len(errs) /\ cterm' = cterm
  <2>1. errs = << >>
    BY <1>2, <1>3, <1>5
  <2> QED BY <1>1, <1>5, <2>1 DEF EndedWith
<1> QED BY <1>4, <1>5 DEF NextClosed, RecvErr

\* A reader that receives a chunk was not told the end before.
LEMMA EndStays ==
  ASSUME ChanTypeOK, Calls, NEW e, EndedWith(e)
  PROVE  EndedWith(e)'
<1>1. taken = Len(emitted) /\ taken \in Nat
  BY DEF EndedWith, AtEnd, ChanTypeOK
<1>2. ~RecvChunk
  BY <1>1 DEF RecvChunk
<1>3. UNCHANGED <<outVars, errs>>
  BY <1>2, CallEffect DEF RecvErr, chanVars, errVars
<1> QED BY <1>3 DEF EndedWith, AtEnd, outVars

LEMMA CallPcsStep == IteratorIInv /\ Calls => CallPcs'
<1> SUFFICES ASSUME IteratorIInv, Calls PROVE CallPcs'
  OBVIOUS
<1> USE DEF IteratorIInv, IteratorTypeOK, CallPcs, Go, Returns, Callers
<1>1. ASSUME NEW r \in Readers, NextBegin(r) \/ NextClosed(r) PROVE CallPcs'
  BY <1>1 DEF NextBegin, NextClosed
<1>2. ASSUME NEW r \in Readers,
             NextAfterDone(r) \/ NextCallCancelled(r) \/ NextChunk(r) \/ NextPublish(r)
      PROVE  CallPcs'
  BY <1>2 DEF NextAfterDone, NextCallCancelled, NextChunk, NextPublish
<1>3. ASSUME NEW c \in Closers, CloseCancel(c) \/ CloseFinish(c) PROVE CallPcs'
  BY <1>3 DEF CloseCancel, CloseFinish
<1> QED BY <1>1, <1>2, <1>3 DEF Calls, NextCall, CloseCall

LEMMA ErrTakenOnceStep == OneReader /\ ChanTypeOK /\ IteratorIInv /\ Calls => ErrTakenOnce'
<1> SUFFICES ASSUME OneReader, ChanTypeOK, IteratorIInv, Calls PROVE ErrTakenOnce'
  OBVIOUS
<1> USE IteratorAssumption DEF IteratorIInv, IteratorTypeOK, ErrTakenOnce, Go, Returns, Callers
<1>1. ASSUME NEW r \in Readers, NextBegin(r) \/ NextCallCancelled(r) \/ NextChunk(r)
      PROVE  ErrTakenOnce'
  <2>1. errsTaken' = errsTaken /\ ~(errsTaken > 0)
    BY <1>1 DEF NextBegin, NextCallCancelled, NextChunk, RecvChunk, chanVars, errVars, ChanTypeOK
  <2> QED BY <2>1
<1>2. ASSUME NEW r \in Readers, NextAfterDone(r) \/ NextPublish(r) PROVE ErrTakenOnce'
  BY <1>2 DEF NextAfterDone, NextPublish, chanVars, errVars, OneReader
<1>3. ASSUME NEW r \in Readers, NextClosed(r) PROVE ErrTakenOnce'
  <2>1. cpc'[r] = "publish"
    BY <1>3 DEF NextClosed
  <2> QED BY <2>1 DEF OneReader
<1>4. ASSUME NEW c \in Closers, CloseCancel(c) \/ CloseFinish(c) PROVE ErrTakenOnce'
  <2>1. \A r \in Readers : cpc'[r] = cpc[r]
    BY <1>4 DEF CloseCancel, CloseFinish
  <2>2. errsTaken' = errsTaken /\ (itDone => itDone')
    BY <1>4 DEF CloseCancel, CloseFinish, chanVars, errVars
  <2> QED BY <2>1, <2>2
<1> QED BY <1>1, <1>2, <1>3, <1>4 DEF Calls, NextCall, CloseCall

LEMMA TermIsTheEndStep == OneReader /\ ChanTypeOK /\ IteratorIInv /\ Calls => TermIsTheEnd'
<1> SUFFICES ASSUME OneReader, ChanTypeOK, IteratorIInv, Calls PROVE TermIsTheEnd'
  OBVIOUS
<1>1. \A e : EndedWith(e) => EndedWith(e)'
  BY EndStays
<1>2. ASSUME NEW r \in Readers, NextBegin(r) \/ NextAfterDone(r) \/ NextCallCancelled(r) \/ NextChunk(r)
      PROVE  TermIsTheEnd'
  <2>1. itDone' = itDone /\ itErr' = itErr /\ cancelOnce' = cancelOnce
    BY <1>2 DEF NextBegin, NextAfterDone, NextCallCancelled, NextChunk
  <2>2. \A c \in Callers : cpc'[c] = "publish" => cpc[c] = "publish" /\ cterm'[c] = cterm[c]
    BY <1>2 DEF NextBegin, NextAfterDone, NextCallCancelled, NextChunk, Go, Returns,
                IteratorIInv, IteratorTypeOK, Callers
  <2> QED BY <1>1, <2>1, <2>2 DEF IteratorIInv, TermIsTheEnd
<1>3. ASSUME NEW r \in Readers, NextClosed(r) PROVE TermIsTheEnd'
  <2>1. EndedWith(cterm'[r])
    BY <1>3, LearnsTheEnd
  <2>2. itDone' = itDone /\ itErr' = itErr /\ cancelOnce' = cancelOnce
    BY <1>3 DEF NextClosed
  <2>3. \A c \in Callers : c # r /\ cpc'[c] = "publish" => cpc[c] = "publish" /\ cterm'[c] = cterm[c]
    BY <1>3 DEF NextClosed, Go, RecvErr, IteratorIInv, IteratorTypeOK, Callers
  <2> QED BY <1>1, <2>1, <2>2, <2>3 DEF IteratorIInv, TermIsTheEnd
<1>4. ASSUME NEW r \in Readers, NextPublish(r) PROVE TermIsTheEnd'
  <2>1. EndedWith(cterm[r]) /\ itDone' /\ cancelOnce' = cancelOnce /\ itDone \in BOOLEAN
    BY <1>4 DEF NextPublish, IteratorIInv, TermIsTheEnd, Callers, IteratorTypeOK
  <2>2. itErr' = (IF itDone THEN itErr ELSE cterm[r])
    BY <1>4 DEF NextPublish
  <2>3. \A c \in Callers : cpc'[c] = "publish" => cpc[c] = "publish" /\ cterm'[c] = cterm[c]
    BY <1>4 DEF NextPublish, Returns, IteratorIInv, IteratorTypeOK, Callers
  <2> QED BY <1>1, <2>1, <2>2, <2>3 DEF IteratorIInv, TermIsTheEnd
<1>5. ASSUME NEW c \in Closers, CloseCancel(c) \/ CloseFinish(c) PROVE TermIsTheEnd'
  <2>1. itErr' = itErr /\ cancelOnce' /\ (itDone => itDone')
    BY <1>5 DEF CloseCancel, CloseFinish, IteratorIInv, CallPcs, Callers
  <2>2. \A d \in Callers : cpc'[d] = "publish" => cpc[d] = "publish" /\ cterm'[d] = cterm[d]
    BY <1>5 DEF CloseCancel, CloseFinish, Go, Returns, IteratorIInv, IteratorTypeOK, Callers
  <2> QED BY <1>1, <2>1, <2>2 DEF IteratorIInv, TermIsTheEnd
<1> QED BY <1>2, <1>3, <1>4, <1>5 DEF Calls, NextCall, CloseCall

\* This part needs neither the channels nor a single reader.
LEMMA ToldStep == IteratorTypeOK /\ ToldIsPublished /\ Calls => ToldIsPublished'
<1> SUFFICES ASSUME IteratorTypeOK, ToldIsPublished, Calls PROVE ToldIsPublished'
  OBVIOUS
<1> USE DEF IteratorTypeOK, ToldIsPublished, Returns, Callers
<1>1. ASSUME NEW r \in Readers, NextBegin(r) \/ NextClosed(r) PROVE ToldIsPublished'
  <2>1. cpc[r] # "idle" \/ ~itDone
    BY <1>1 DEF NextBegin, NextClosed
  <2>2. ret' = ret /\ itDone' = itDone /\ itErr' = itErr
    BY <1>1 DEF NextBegin, NextClosed
  <2>3. \A s \in Readers : s # r => cpc'[s] = cpc[s]
    BY <1>1 DEF NextBegin, NextClosed, Go
  <2> QED BY <2>1, <2>2, <2>3
<1>2. ASSUME NEW r \in Readers, NextCallCancelled(r) \/ NextChunk(r) PROVE ToldIsPublished'
  <2>1. ret'[r] \notin Terminals
    BY <1>2 DEF NextCallCancelled, NextChunk, Terminals, Errors
  <2>2. itDone' = itDone /\ itErr' = itErr
    BY <1>2 DEF NextCallCancelled, NextChunk
  <2>3. \A s \in Readers : s # r => cpc'[s] = cpc[s] /\ ret'[s] = ret[s]
    BY <1>2 DEF NextCallCancelled, NextChunk
  <2> QED BY <2>1, <2>2, <2>3
<1>3. ASSUME NEW r \in Readers, NextAfterDone(r) \/ NextPublish(r) PROVE ToldIsPublished'
  <2>1. itDone' /\ ret'[r] = itErr' /\ cpc'[r] = "idle" /\ (itDone => itErr' = itErr)
    BY <1>3 DEF NextAfterDone, NextPublish
  <2>2. \A s \in Readers : s # r => cpc'[s] = cpc[s] /\ ret'[s] = ret[s]
    BY <1>3 DEF NextAfterDone, NextPublish
  <2> QED BY <2>1, <2>2
<1>4. ASSUME NEW c \in Closers, CloseCancel(c) \/ CloseFinish(c) PROVE ToldIsPublished'
  <2>1. c \notin Readers
    BY IteratorAssumption
  <2> QED BY <1>4, <2>1 DEF CloseCancel, CloseFinish, Go
<1> QED BY <1>1, <1>2, <1>3, <1>4 DEF Calls, NextCall, CloseCall

LEMMA CallsInv == OneReader /\ ChanTypeOK /\ IteratorIInv /\ Calls => IteratorIInv'
BY CallTypes, CallPcsStep, ErrTakenOnceStep, TermIsTheEndStep, ToldStep DEF IteratorIInv

-----------------------------------------------------------------------------
(* What readers are told. *)

\* A reader that was told the end is told the same by every later call.
LEMMA CallsKeepTold ==
  ASSUME IteratorTypeOK, ToldIsPublished, Calls, NEW r \in Readers, ret[r] \in Terminals
  PROVE  ret'[r] = ret[r]
<1>1. r \in Callers /\ itDone /\ ret[r] = itErr /\ cpc[r] = "idle"
  BY DEF ToldIsPublished, Callers
<1>2. ASSUME NEW c \in Callers, NextBegin(c) \/ NextClosed(c) \/ CloseCancel(c)
      PROVE  ret'[r] = ret[r]
  BY <1>2 DEF NextBegin, NextClosed, CloseCancel
<1>3. ASSUME NEW c \in Callers,
             NextCallCancelled(c) \/ NextChunk(c) \/ NextPublish(c) \/ CloseFinish(c)
      PROVE  ret'[r] = ret[r]
  BY <1>1, <1>3 DEF NextCallCancelled, NextChunk, NextPublish, CloseFinish, Returns, IteratorTypeOK
<1>4. ASSUME NEW c \in Callers, NextAfterDone(c) PROVE ret'[r] = ret[r]
  BY <1>1, <1>4 DEF NextAfterDone, Returns, IteratorTypeOK
<1> QED BY <1>2, <1>3, <1>4 DEF Calls, NextCall, CloseCall, Callers

\* A reader was told an error only if it is all that the run reported ...
LEMMA ToldError ==
  ASSUME IteratorIInv, NEW r \in Readers, ret[r] \in Errors
  PROVE  AtEnd /\ errs = <<ret[r]>>
BY DEF IteratorIInv, ToldIsPublished, TermIsTheEnd, Terminals, EndedWith, Errors

\* ... and the end without one, unless the iterator was closed, only if the
\* run reported none.
LEMMA ToldClean ==
  ASSUME IteratorIInv, NEW r \in Readers, ret[r] = "nil", ~cancelOnce
  PROVE  AtEnd /\ errs = << >>
BY DEF IteratorIInv, ToldIsPublished, TermIsTheEnd, Terminals, EndedWith
=============================================================================
