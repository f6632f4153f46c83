-------------------------------- MODULE Wire --------------------------------
(***************************************************************************)
(* Cells as PostgreSQL sends them in binary, big-endian, and what the       *)
(* vector scanner decodes them to.  A byte has Radix values and a second    *)
(* few microseconds, so that a width of eight bytes can be looked through.  *)
(***************************************************************************)
EXTENDS Integers, Sequences, SequencesExt

CONSTANTS
  Undecodable,    \* an error in place of a value
  Radix,          \* values of a byte
  MicrosPerSec,   \* microseconds in a second
  SecsPerDay,     \* seconds in a day
  Y2K             \* 2000-01-01, in seconds of the Unix clock

ASSUME WireAssumption ==
  /\ Radix \in Nat \ {0, 1} /\ MicrosPerSec \in Nat \ {0}
  /\ SecsPerDay \in Nat /\ Y2K \in Int

Shifted(n, d) == Radix * n + d

Unsigned(buf) == FoldLeft(Shifted, 0, buf)

\* As many values as n bytes have: a one and n zeros.
Power(n) == FoldLeft(Shifted, 1, [i \in 1 .. n |-> 0])

\* Mutant of Signed: the conversion to a signed type of that width is left out.
SignedUnconverted(buf) == Unsigned(buf)

\* int16(u), int32(u), int64(u) for u as wide as that.
Signed(buf) ==
  LET range == Power(Len(buf))
  IN  IF 2 * Unsigned(buf) >= range THEN Unsigned(buf) - range ELSE Unsigned(buf)

\* decodeInt takes the width from the payload.
DecodeInt(buf) == IF Len(buf) \in {2, 4, 8} THEN Signed(buf) ELSE Undecodable

DecodeBool(buf) ==
  IF Len(buf) # 1 THEN Undecodable ELSE IF buf[1] # 0 THEN 1 ELSE 0

\* The least and the greatest value of a width stand for the infinities.
Infinite(buf) ==
  LET half == Power(Len(buf)) \div 2
  IN  Signed(buf) \in {-half, half - 1}

\* Go's / and %, which truncate toward zero.
Quot(a, m)      == IF a < 0 THEN -((-a) \div m) ELSE a \div m
Remainder(a, m) == a - m * Quot(a, m)

\* time.Unix makes the fraction non-negative.
Unix(sec, micros) ==
  IF micros < 0 THEN [sec |-> sec - 1, micros |-> micros + MicrosPerSec]
                ELSE [sec |-> sec, micros |-> micros]

DecodeTimestamp(buf) ==
  IF Len(buf) # 8 \/ Infinite(buf) THEN Undecodable
  ELSE Unix(Y2K + Quot(Signed(buf), MicrosPerSec), Remainder(Signed(buf), MicrosPerSec))

DecodeDate(buf) ==
  IF Len(buf) # 4 \/ Infinite(buf) THEN Undecodable
  ELSE Unix(Y2K + Signed(buf) * SecsPerDay, 0)

Decode(oid, buf) ==
  CASE oid = "int"       -> DecodeInt(buf)
    [] oid = "bool"      -> DecodeBool(buf)
    [] oid = "timestamp" -> DecodeTimestamp(buf)
    [] oid = "date"      -> DecodeDate(buf)
    [] oid = "text"      -> buf

-----------------------------------------------------------------------------
(* The server, and what pgx gives the row path for the same cell. *)

\* v in two's complement, width bytes.
Encoded(v, width) ==
  LET u == v % Power(width)
  IN  [i \in 1 .. width |-> (u \div Power(width - i)) % Radix]

Sent(oid, cell) == IF oid = "text" THEN cell.v ELSE Encoded(cell.v, cell.width)

Meant(oid, cell) ==
  CASE oid = "timestamp" -> [sec |-> Y2K + cell.v \div MicrosPerSec, micros |-> cell.v % MicrosPerSec]
    [] oid = "date"      -> [sec |-> Y2K + cell.v * SecsPerDay, micros |-> 0]
    [] OTHER             -> cell.v
=============================================================================
