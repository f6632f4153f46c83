----------------------------- MODULE MCGroupBy ------------------------------
(* Two dense aggregators of one domain, one of them a count-only zero value *)
(* that gets its table on first use, and an open-addressing one whose wider *)
(* domain holds keys theirs does not; two of strings; two global ones.       *)
EXTENDS GroupBy

Row(k, v) == [key |-> k, val |-> v]

ThreeShapes == [dense |-> [mod |-> 2, hasVal |-> TRUE, made |-> "int64"],
                peer  |-> [mod |-> 2, hasVal |-> FALSE, made |-> "int64 literal"],
                wide  |-> [mod |-> 3, hasVal |-> TRUE, made |-> "int64"]]

Strings == [names |-> [mod |-> 0, hasVal |-> TRUE, made |-> "string"],
            peer  |-> [mod |-> 0, hasVal |-> FALSE, made |-> "string literal"]]

Globals == [all |-> [mod |-> 0, hasVal |-> TRUE, made |-> "global"],
            peer |-> [mod |-> 0, hasVal |-> TRUE, made |-> "global"]]

AllFamilies == {ThreeShapes, Strings, Globals}

\* A key all domains have; one that every domain reduces, without a value; a
\* negative key; a batch whose selection drops a row, keeps a NULL key and a
\* negative key that reduces to zero in the narrow domain; an empty selection.
SomeBatches ==
  {[rows |-> <<Row(1, 1)>>, sel |-> NULL],
   [rows |-> <<Row(5, NULL)>>, sel |-> NULL],
   [rows |-> <<Row(-1, 1)>>, sel |-> NULL],
   [rows |-> <<Row(1, 1), Row(-2, 1), Row(NULL, 1)>>, sel |-> <<1, 2>>],
   [rows |-> <<Row(1, 1)>>, sel |-> << >>]}
=============================================================================
