----------------------------- MODULE PgScanner ------------------------------
(***************************************************************************)
(* A PostgreSQL source: Open, Next and Close of the row scanner and of the *)
(* vector scanner, whose control is the same, against a server that may    *)
(* fail or fall silent at any point.  Who calls them, and when, is the     *)
(* business of the module that composes this one with a scheduler.         *)
(***************************************************************************)
EXTENDS Integers, Sequences

CONSTANTS
  NULL,
  MaxRows,     \* bound: rows in the result
  Size         \* rows per chunk

VARIABLES
  total,       \* rows of this result
  rejects,     \* has it a column OpenBatch rejects (time, timetz, interval)?
  ctx,         \* has the context given to Open ended?  Not changed here
  silent,      \* has the server stopped answering?
  conn,        \* "none", "open" or "closed"
  rows,        \* pgx.Rows: "none", "open" or "done" (exhausted, failed, closed)
  rowsErr,     \* rows.Err() # nil
  served,      \* rows received from the server
  packing,     \* Next: rows of the chunk being filled
  delivered,   \* chunks of rows Next has handed out
  scanErr,     \* sc.scanErr
  pc

ScannerInit ==
  /\ total \in 0 .. MaxRows
  /\ rejects \in BOOLEAN
  /\ silent = FALSE
  /\ conn = "none"
  /\ rows = "none"
  /\ rowsErr = FALSE
  /\ served = 0
  /\ packing = << >>
  /\ delivered = << >>
  /\ scanErr = NULL
  /\ pc = "connect"

\* pgx comes back from a call when the server answers or the call's context
\* ends, with an error in the second case at the latest.
Answers == ~silent \/ ctx

-----------------------------------------------------------------------------
(* Open. *)

Connect ==
  /\ pc = "connect"
  /\ ~silent
  /\ conn' = "open"
  /\ pc' = "query"
  /\ UNCHANGED <<total, rejects, ctx, silent, rows, rowsErr, served, packing, delivered, scanErr>>

ConnectFails ==
  /\ pc = "connect"
  /\ Answers
  /\ pc' = "openFailed"
  /\ UNCHANGED <<total, rejects, ctx, silent, conn, rows, rowsErr, served, packing, delivered, scanErr>>

Query ==
  /\ pc = "query"
  /\ ~silent
  /\ rows' = "open"
  /\ pc' = IF rejects THEN "rejectConn" ELSE "idle"
  /\ UNCHANGED <<total, rejects, ctx, silent, conn, rowsErr, served, packing, delivered, scanErr>>

QueryFails ==
  /\ pc = "query"
  /\ Answers
  /\ pc' = "queryFailed"
  /\ UNCHANGED <<total, rejects, ctx, silent, conn, rows, rowsErr, served, packing, delivered, scanErr>>

\* Mutant of CloseAfterQuery: returns the error only.
LeaveAfterQuery ==
  /\ pc = "queryFailed"
  /\ pc' = "openFailed"
  /\ UNCHANGED <<total, rejects, ctx, silent, conn, rows, rowsErr, served, packing, delivered, scanErr>>

\* The close has a timeout and a context that does not end with the run's.
CloseAfterQuery ==
  /\ pc = "queryFailed"
  /\ conn' = "closed"
  /\ pc' = "openFailed"
  /\ UNCHANGED <<total, rejects, ctx, silent, rows, rowsErr, served, packing, delivered, scanErr>>

\* A close whose context never ends waits for the server.
RejectConn ==
  /\ pc = "rejectConn"
  /\ ~silent
  /\ conn' = "closed"
  /\ pc' = "rejectRows"
  /\ UNCHANGED <<total, rejects, ctx, silent, rows, rowsErr, served, packing, delivered, scanErr>>

RejectRows ==
  /\ pc = "rejectRows"
  /\ rows' = "done"
  /\ pc' = "openFailed"
  /\ UNCHANGED <<total, rejects, ctx, silent, conn, rowsErr, served, packing, delivered, scanErr>>

-----------------------------------------------------------------------------
(* Next. *)

NextCall ==
  /\ pc = "idle"
  /\ packing' = << >>
  /\ pc' = "scan"
  /\ UNCHANGED <<total, rejects, ctx, silent, conn, rows, rowsErr, served, delivered, scanErr>>

RowArrives ==
  /\ pc = "scan"
  /\ Len(packing) < Size
  /\ rows = "open"
  /\ ~silent
  /\ served < total
  /\ served' = served + 1
  /\ pc' = "values"
  /\ UNCHANGED <<total, rejects, ctx, silent, conn, rows, rowsErr, packing, delivered, scanErr>>

RowsEnd ==
  /\ pc = "scan"
  /\ Len(packing) < Size
  /\ rows = "open"
  /\ ~silent
  /\ served = total
  /\ rows' = "done"
  /\ UNCHANGED <<total, rejects, ctx, silent, conn, rowsErr, served, packing, delivered, scanErr, pc>>

RowsFail ==
  /\ pc = "scan"
  /\ Len(packing) < Size
  /\ rows = "open"
  /\ Answers
  /\ rows' = "done"
  /\ rowsErr' = TRUE
  /\ UNCHANGED <<total, rejects, ctx, silent, conn, served, packing, delivered, scanErr, pc>>

\* rows.Next() is false, or the chunk is full.
LoopEnds ==
  /\ pc = "scan"
  /\ rows = "done" \/ Len(packing) = Size
  /\ pc' = "rowsErr"
  /\ UNCHANGED <<total, rejects, ctx, silent, conn, rows, rowsErr, served, packing, delivered, scanErr>>

PackRow ==
  /\ pc = "values"
  /\ packing' = Append(packing, served)
  /\ pc' = "scan"
  /\ UNCHANGED <<total, rejects, ctx, silent, conn, rows, rowsErr, served, delivered, scanErr>>

\* The rows are left open; the row path's Values may have closed them.
DecodeFails ==
  /\ pc = "values"
  /\ scanErr' = "decode"
  /\ rows' \in {"open", "done"}
  /\ pc' = "ended"
  /\ UNCHANGED <<total, rejects, ctx, silent, conn, rowsErr, served, packing, delivered>>

ReportRowsErr ==
  /\ pc = "rowsErr"
  /\ rowsErr
  /\ scanErr' = "rows"
  /\ pc' = "ended"
  /\ UNCHANGED <<total, rejects, ctx, silent, conn, rows, rowsErr, served, packing, delivered>>

\* Mutant of EndOfRows: an empty chunk is the end, error or not.
EndOfRowsUnchecked ==
  /\ pc = "rowsErr"
  /\ packing = << >>
  /\ pc' = "ended"
  /\ UNCHANGED <<total, rejects, ctx, silent, conn, rows, rowsErr, served, packing, delivered, scanErr>>

EndOfRows ==
  /\ pc = "rowsErr"
  /\ ~rowsErr
  /\ packing = << >>
  /\ pc' = "ended"
  /\ UNCHANGED <<total, rejects, ctx, silent, conn, rows, rowsErr, served, packing, delivered, scanErr>>

\* Mutant of HandOut: rows.Err() is not asked.
HandOutUnchecked ==
  /\ pc = "rowsErr"
  /\ packing # << >>
  /\ delivered' = Append(delivered, packing)
  /\ pc' = "idle"
  /\ UNCHANGED <<total, rejects, ctx, silent, conn, rows, rowsErr, served, packing, scanErr>>

\* The row scanner's NewChunk refuses only columns of unequal length, which the
\* packing never makes.
HandOut ==
  /\ pc = "rowsErr"
  /\ ~rowsErr
  /\ packing # << >>
  /\ delivered' = Append(delivered, packing)
  /\ pc' = "idle"
  /\ UNCHANGED <<total, rejects, ctx, silent, conn, rows, rowsErr, served, packing, scanErr>>

-----------------------------------------------------------------------------
(* Close. *)

\* sc.closed is set: a second call returns at once.
CloseCall ==
  /\ pc \in {"idle", "ended"}
  /\ pc' = "closeRows"
  /\ UNCHANGED <<total, rejects, ctx, silent, conn, rows, rowsErr, served, packing, delivered, scanErr>>

\* rows.Close reads what the server still has to send.
CloseRows ==
  /\ pc = "closeRows"
  /\ rows = "done" \/ Answers
  /\ rows' = "done"
  /\ pc' = "closeConn"
  /\ UNCHANGED <<total, rejects, ctx, silent, conn, rowsErr, served, packing, delivered, scanErr>>

\* Mutant of CloseConn: the close has no timeout.
CloseConnUnbounded ==
  /\ pc = "closeConn"
  /\ ~silent
  /\ conn' = "closed"
  /\ pc' = "closed"
  /\ UNCHANGED <<total, rejects, ctx, silent, rows, rowsErr, served, packing, delivered, scanErr>>

\* Bounded by closeTimeout, whatever has become of the run's context.
CloseConn ==
  /\ pc = "closeConn"
  /\ conn' = "closed"
  /\ pc' = "closed"
  /\ UNCHANGED <<total, rejects, ctx, silent, rows, rowsErr, served, packing, delivered, scanErr>>

-----------------------------------------------------------------------------
(* The server. *)

FallSilent ==
  /\ ~silent
  /\ silent' = TRUE
  /\ UNCHANGED <<total, rejects, ctx, conn, rows, rowsErr, served, packing, delivered, scanErr, pc>>

\* Open runs to "idle" or to "openFailed".
Open == Connect \/ ConnectFails \/ Query \/ QueryFails \/ CloseAfterQuery \/ RejectConn \/ RejectRows

Opened == pc \notin {"connect", "query", "queryFailed", "rejectConn", "rejectRows", "openFailed"}

\* A call of Next up to the point where it is known what it returns.
Fetch == NextCall \/ RowArrives \/ RowsEnd \/ RowsFail \/ LoopEnds \/ PackRow
=============================================================================
