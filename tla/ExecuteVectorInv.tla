-------------------------- MODULE ExecuteVectorInv --------------------------
(***************************************************************************)
(* The inductive invariant of ExecuteVector: where the scanner stands while *)
(* runStraight stands where it does, what that says of the connection, and  *)
(* which rows of the result are in which batch.                             *)
(***************************************************************************)
EXTENDS ExecuteVector, IteratorInv, StraightInv

\* runStraight starts when OpenBatch is through, and from then on the two move
\* together: the scanner is closed as soon as the goroutine gets past "close".
InStep ==
  /\ spc \in {"connect", "query", "queryFailed", "rejectConn", "rejectRows", "openFailed"} =>
       pc = "next"
  /\ pc = "send" => spc = "idle"
  /\ pc = "next" /\ Pg!Opened => spc \in {"idle", "scan", "values", "rowsErr"}
  /\ pc \in {"scanErr", "scanCancel"} => spc = "ended"
  /\ pc = "close" => spc \in {"idle", "ended", "closeRows", "closeConn"}
  /\ pc \in {"closeErr", "parent", "cancel", "closeOut", "closeErrCh", "done"} => spc = "closed"

\* Opened once and closed once, unless it was never opened.
ConnHeld ==
  /\ spc \in {"connect", "query", "queryFailed", "rejectConn", "rejectRows", "openFailed",
              "idle", "scan", "values", "rowsErr", "ended", "closeRows", "closeConn", "closed"}
  /\ spc = "connect" => conn = "none"
  /\ spc \in {"rejectRows", "closed"} => conn = "closed"
  /\ spc = "openFailed" => conn # "open"

RowTypes ==
  /\ total \in Nat /\ served \in Nat
  /\ packing \in Seq(Nat) /\ Len(packing) <= Size
  /\ delivered \in Seq(Seq(Nat))
  /\ rows \in {"none", "open", "done"} /\ rowsErr \in BOOLEAN
  /\ rowsErr => rows = "done"
  /\ chunk = Len(delivered)

\* Rows in the batches handed out, all of them full but perhaps the last.
Handed ==
  IF delivered = << >> THEN 0
  ELSE (Len(delivered) - 1) * Size + Len(delivered[Len(delivered)])

\* A batch that is not full is the last one of a result that came to its end.
BatchesAreRows ==
  \A k \in 1 .. Len(delivered) :
    /\ Len(delivered[k]) \in 1 .. Size
    /\ \A i \in 1 .. Len(delivered[k]) : delivered[k][i] = (k - 1) * Size + i
    /\ Len(delivered[k]) < Size =>
         k = Len(delivered) /\ Handed = total /\ rows = "done" /\ ~rowsErr

\* Every row received is handed out, in the batch being filled, or at hand.
RowsCounted ==
  /\ spc \in {"connect", "query", "idle"} => served = Handed
  /\ spc \in {"scan", "rowsErr"} => served = Handed + Len(packing)
  /\ spc = "values" => served = Handed + Len(packing) + 1 /\ Len(packing) < Size /\ rows = "open"
  /\ spc \in {"scan", "values", "rowsErr"} =>
       \A i \in 1 .. Len(packing) : packing[i] = Handed + i

\* After the last row there is nothing to fill a batch with.
RowsOver ==
  /\ spc \in {"idle", "scan", "rowsErr"} /\ rows = "done" /\ ~rowsErr => served = total
  /\ spc \in {"scan", "rowsErr"} /\ packing # << >> =>
       delivered = << >> \/ Len(delivered[Len(delivered)]) = Size
  /\ spc = "rowsErr" => rows = "done" \/ Len(packing) = Size
  /\ spc \in {"connect", "query"} => rows = "none"

\* What a stream that ends clean has put out.
Whole == Len(emitted) = Len(delivered) /\ Handed = total

VectorIInv ==
  /\ StreamerInv
  /\ InStep
  /\ ConnHeld
  /\ RowTypes
  /\ BatchesAreRows
  /\ RowsCounted
  /\ RowsOver
  /\ SettledAs(Whole)
=============================================================================
