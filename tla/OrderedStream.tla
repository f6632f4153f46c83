--------------------------- MODULE OrderedStream ---------------------------
(***************************************************************************)
(* What a scheduler run promises its consumer, whatever the goroutines     *)
(* behind it: chunks come out in source order, none twice; while the run   *)
(* is open nothing is skipped; the stream ends once, and it ends clean     *)
(* only if every chunk of the source came out.  How it ended is fixed at   *)
(* that moment.                                                            *)
(***************************************************************************)
EXTENDS Integers, Sequences

CONSTANTS
  NumChunks,
  GapsAfterStop   \* may a stopping run skip chunks it still emits beyond?

VARIABLES
  emitted,        \* chunks handed to the consumer's channel
  phase           \* "open", "stopping", then "clean" or "failed" for ever

streamVars == <<emitted, phase>>

Running == phase \in {"open", "stopping"}

Init == emitted = << >> /\ phase = "open"

Emit(s) ==
  /\ Running
  /\ s < NumChunks
  /\ \A i \in 1 .. Len(emitted) : emitted[i] < s
  /\ (phase = "open" \/ ~GapsAfterStop) => s = Len(emitted)
  /\ emitted' = Append(emitted, s)
  /\ UNCHANGED phase

Stop == phase = "open" /\ phase' = "stopping" /\ UNCHANGED emitted

EndClean ==
  /\ Running
  /\ Len(emitted) = NumChunks
  /\ phase' = "clean"
  /\ UNCHANGED emitted

EndFailed == Running /\ phase' = "failed" /\ UNCHANGED emitted

Next ==
  \/ \E s \in 0 .. NumChunks - 1 : Emit(s)
  \/ Stop
  \/ EndClean
  \/ EndFailed

Spec == Init /\ [][Next]_streamVars
=============================================================================
