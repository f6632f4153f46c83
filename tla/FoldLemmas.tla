----------------------------- MODULE FoldLemmas -----------------------------
(***************************************************************************)
(* Induction and folding a sequence, for any predicate and any step.  A     *)
(* module that folds instantiates this one for its step and cites the       *)
(* lemmas by the instance's name; it extends no more than it needs because  *)
(* every instance brings everything along.                                  *)
(***************************************************************************)
EXTENDS Integers, Sequences, WellFoundedInduction

CONSTANTS
  Holds(_),      \* what is claimed of what has been folded
  Step(_, _)     \* what the fold makes of its result so far and one element

\* A set of numbers has a least one.
LEMMA LeastElement ==
  ASSUME NEW S \in SUBSET Nat, S # {}
  PROVE  \E m \in S : \A n \in S : m <= n
<1>1. PICK m \in S : \A n \in S : ~(<<n, m>> \in OpToRel(<, Nat))
  BY NatLessThanWellFounded, WFMin
<1>2. m \in S /\ m \in Nat
  BY <1>1
<1>3. ASSUME NEW n \in S PROVE m <= n
  <2>1. n \in Nat /\ ~(n < m)
    BY <1>1, <1>2 DEF OpToRel
  <2> QED BY <1>2, <2>1
<1> QED BY <1>2, <1>3

\* Induction up to a bound.
LEMMA UpTo ==
  ASSUME NEW n \in Nat, NEW S, 0 \in S, \A k \in 1 .. n : k - 1 \in S => k \in S
  PROVE  0 .. n \subseteq S
<1> DEFINE Bad == (0 .. n) \ S
<1> SUFFICES ASSUME Bad # {} PROVE FALSE
  OBVIOUS
<1>1. PICK k \in Bad : \A j \in Bad : k <= j
  <2>1. Bad \in SUBSET Nat
    OBVIOUS
  <2> HIDE DEF Bad
  <2> QED BY <2>1, LeastElement
<1>2. k \in 0 .. n /\ k \notin S /\ k # 0
  OBVIOUS
<1>3. k \in 1 .. n /\ k - 1 \in 0 .. n /\ ~(k <= k - 1)
  BY <1>2
<1>4. k - 1 \notin Bad
  <2> HIDE DEF Bad
  <2> QED BY <1>1, <1>3
<1> QED BY <1>2, <1>3, <1>4

-----------------------------------------------------------------------------
(* The fold of a set of indices, as MapThenFoldSet computes it.             *)

Latest(s) == CHOOSE x \in s : \A y \in s : x >= y

Table(t, base, q, n) ==
  t = [s \in SUBSET (1 .. n) |->
         IF s = {} THEN base ELSE Step(t[s \ {Latest(s)}], q[Latest(s)])]

\* The greatest of a set that reaches up to k.
LEMMA Greatest ==
  ASSUME NEW k \in Nat, NEW s \in SUBSET (1 .. k), k \in s
  PROVE  Latest(s) = k
<1>1. \A y \in s : y \in Int /\ k >= y
  OBVIOUS
<1>2. \E x \in s : \A y \in s : x >= y
  BY <1>1
<1> DEFINE x == CHOOSE x \in s : \A y \in s : x >= y
<1>3. x \in s /\ x >= k
  BY <1>2
<1>4. Latest(s) = x
  BY DEF Latest
<1> HIDE DEF x
<1> QED BY <1>1, <1>3, <1>4

LEMMA TableExists ==
  ASSUME NEW base, NEW q, NEW n \in Nat
  PROVE  \E t : Table(t, base, q, n)
<1> DEFINE Bad == {k \in Nat : ~\E t : Table(t, base, q, k)}
<1> SUFFICES ASSUME Bad # {} PROVE FALSE
  OBVIOUS
<1>1. PICK k \in Bad : \A j \in Bad : k <= j
  BY LeastElement
<1>2. k \in Nat /\ ~\E t : Table(t, base, q, k)
  BY <1>1
<1>3. CASE k = 0
  <2> DEFINE g == [s \in SUBSET (1 .. 0) |-> base]
  <2>1. ASSUME NEW s \in SUBSET (1 .. 0)
        PROVE  g[s] = IF s = {} THEN base ELSE Step(g[s \ {Latest(s)}], q[Latest(s)])
    OBVIOUS
  <2>2. Table(g, base, q, 0)
    BY <2>1 DEF Table
  <2> QED BY <1>2, <1>3, <2>2
<1>4. CASE k # 0
  <2>1. k - 1 \in Nat /\ k - 1 \notin Bad
    BY <1>1, <1>2, <1>4
  <2>2. PICK t : Table(t, base, q, k - 1)
    BY <2>1
  <2> DEFINE g == [s \in SUBSET (1 .. k) |-> IF k \in s THEN Step(t[s \ {k}], q[k]) ELSE t[s]]
  <2>3. ASSUME NEW s \in SUBSET (1 .. k), k \notin s PROVE s \in SUBSET (1 .. k - 1)
    BY <1>2, <2>3
  <2>4. ASSUME NEW s \in SUBSET (1 .. k)
        PROVE  g[s] = IF s = {} THEN base ELSE Step(g[s \ {Latest(s)}], q[Latest(s)])
    <3>1. CASE k \in s
      <4>1. Latest(s) = k
        BY <1>2, <3>1, Greatest
      <4>2. s \ {k} \in SUBSET (1 .. k) /\ k \notin s \ {k}
        OBVIOUS
      <4>3. g[s \ {k}] = t[s \ {k}] /\ g[s] = Step(t[s \ {k}], q[k])
        BY <3>1, <4>2
      <4> HIDE DEF g
      <4> QED BY <3>1, <4>1, <4>3
    <3>2. CASE k \notin s
      <4>1. s \in SUBSET (1 .. k - 1) /\ g[s] = t[s]
        BY <2>3, <3>2
      <4>2. t[s] = IF s = {} THEN base ELSE Step(t[s \ {Latest(s)}], q[Latest(s)])
        BY <2>2, <4>1 DEF Table
      <4>3. s \ {Latest(s)} \in SUBSET (1 .. k) /\ k \notin s \ {Latest(s)}
        BY <3>2
      <4>4. g[s \ {Latest(s)}] = t[s \ {Latest(s)}]
        BY <4>3
      <4> HIDE DEF g
      <4> QED BY <4>1, <4>2, <4>4
    <3> QED BY <3>1, <3>2
  <2>5. Table(g, base, q, k)
    BY <2>4 DEF Table
  <2> QED BY <1>2, <2>5
<1> QED BY <1>3, <1>4

\* FoldLeft(Step, base, q), written out.  A module that cites the lemmas rewrites
\* its own FoldLeft to this one by the definitions of both.
FoldOf(base, q) ==
  LET iter[s \in SUBSET DOMAIN q] ==
        IF s = {} THEN base ELSE Step(iter[s \ {Latest(s)}], q[Latest(s)])
  IN  iter[DOMAIN q]

\* h holds what the fold has come to after each of the n elements of q.
Trace(h, base, q, n) ==
  /\ h[0] = base
  /\ \A k \in 1 .. n : h[k] = Step(h[k - 1], q[k])

\* A fold goes through its sequence from the first element to the last.
LEMMA FoldSteps ==
  ASSUME NEW base, NEW q, NEW n \in Nat, DOMAIN q = 1 .. n
  PROVE  \E h : Trace(h, base, q, n) /\ FoldOf(base, q) = h[n]
<1>1. \E t : Table(t, base, q, n)
  BY TableExists
<1> DEFINE t == CHOOSE t : Table(t, base, q, n)
<1>2. Table(t, base, q, n)
  BY <1>1
<1>3. FoldOf(base, q) = t[1 .. n]
  BY DEF FoldOf, Table
<1> HIDE DEF t
<1> DEFINE h == [k \in 0 .. n |-> t[1 .. k]]
<1>4. h[0] = base
  <2>1. {} \in SUBSET (1 .. n) /\ 1 .. 0 = {}
    OBVIOUS
  <2>2. t[{}] = base
    BY <1>2, <2>1 DEF Table
  <2> QED BY <2>1, <2>2
<1>5. ASSUME NEW k \in 1 .. n PROVE h[k] = Step(h[k - 1], q[k])
  <2>1. k \in Nat /\ k \in 1 .. k /\ 1 .. k \in SUBSET (1 .. n) /\ 1 .. k # {}
    OBVIOUS
  <2>2. Latest(1 .. k) = k
    BY <2>1, Greatest
  <2>3. (1 .. k) \ {k} = 1 .. k - 1
    OBVIOUS
  <2>4. t[1 .. k] = Step(t[(1 .. k) \ {Latest(1 .. k)}], q[Latest(1 .. k)])
    BY <1>2, <2>1 DEF Table
  <2>5. k \in 0 .. n /\ k - 1 \in 0 .. n
    OBVIOUS
  <2> QED BY <2>2, <2>3, <2>4, <2>5
<1>6. FoldOf(base, q) = h[n]
  BY <1>3
<1> QED BY <1>4, <1>5, <1>6 DEF Trace

\* Whatever starts where a fold starts and takes its steps ends where it ends.
LEMMA TraceIsFold ==
  ASSUME NEW base, NEW q, NEW n \in Nat, DOMAIN q = 1 .. n, NEW g, Trace(g, base, q, n)
  PROVE  FoldOf(base, q) = g[n]
<1>1. PICK h : Trace(h, base, q, n) /\ FoldOf(base, q) = h[n]
  BY FoldSteps
<1> DEFINE S == {k \in 0 .. n : h[k] = g[k]}
<1>2. 0 \in S
  BY <1>1 DEF Trace
<1>3. ASSUME NEW k \in 1 .. n, k - 1 \in S PROVE k \in S
  <2>1. h[k] = Step(h[k - 1], q[k]) /\ g[k] = Step(g[k - 1], q[k])
    BY <1>1 DEF Trace
  <2>2. h[k - 1] = g[k - 1]
    BY <1>3
  <2> QED BY <2>1, <2>2
<1>4. 0 .. n \subseteq S
  <2> HIDE DEF S
  <2> QED BY <1>2, <1>3, UpTo
<1>5. n \in S
  BY <1>4
<1> QED BY <1>1, <1>5

\* One element more is one step more.
LEMMA FoldSnoc ==
  ASSUME NEW E, NEW base, NEW q \in Seq(E), NEW x \in E
  PROVE  FoldOf(base, Append(q, x)) = Step(FoldOf(base, q), x)
<1> DEFINE n == Len(q)
           a == Append(q, x)
<1>1. /\ n \in Nat /\ DOMAIN q = 1 .. n /\ DOMAIN a = 1 .. n + 1 /\ a[n + 1] = x
      /\ \A k \in 1 .. n : a[k] = q[k]
  OBVIOUS
<1>2. PICK h : Trace(h, base, q, n) /\ FoldOf(base, q) = h[n]
  BY <1>1, FoldSteps
<1> DEFINE g == [k \in 0 .. n + 1 |-> IF k = n + 1 THEN Step(h[n], x) ELSE h[k]]
<1>3. g[n + 1] = Step(h[n], x) /\ g[0] = h[0]
  BY <1>1
<1>4. \A k \in 0 .. n : g[k] = h[k]
  BY <1>1
<1> HIDE DEF n, a, g
<1>5. ASSUME NEW k \in 1 .. n + 1 PROVE g[k] = Step(g[k - 1], a[k])
  <2>1. CASE k = n + 1
    <3>1. k - 1 = n /\ n \in 0 .. n
      BY <1>1, <2>1
    <3> QED BY <1>1, <1>3, <1>4, <2>1, <3>1
  <2>2. CASE k # n + 1
    <3>1. k \in 1 .. n /\ k \in 0 .. n /\ k - 1 \in 0 .. n
      BY <1>1, <2>2
    <3>2. h[k] = Step(h[k - 1], q[k])
      BY <1>2, <3>1 DEF Trace
    <3> QED BY <1>1, <1>4, <3>1, <3>2
  <2> QED BY <2>1, <2>2
<1>6. Trace(g, base, a, n + 1)
  BY <1>2, <1>3, <1>5 DEF Trace
<1>7. FoldOf(base, a) = g[n + 1]
  BY <1>1, <1>6, TraceIsFold
<1> QED BY <1>2, <1>3, <1>7 DEF a

\* What every step keeps, the fold keeps.
LEMMA FoldKeeps ==
  ASSUME NEW base, NEW q, NEW n \in Nat, DOMAIN q = 1 .. n,
         Holds(base), \A x : \A k \in 1 .. n : Holds(x) => Holds(Step(x, q[k]))
  PROVE  Holds(FoldOf(base, q))
<1>1. PICK h : Trace(h, base, q, n) /\ FoldOf(base, q) = h[n]
  BY FoldSteps
<1> DEFINE S == {k \in 0 .. n : Holds(h[k])}
<1>2. 0 \in S
  BY <1>1 DEF Trace
<1>3. ASSUME NEW k \in 1 .. n, k - 1 \in S PROVE k \in S
  <2>1. h[k] = Step(h[k - 1], q[k])
    BY <1>1 DEF Trace
  <2> QED BY <1>3, <2>1
<1>4. 0 .. n \subseteq S
  <2> HIDE DEF S
  <2> QED BY <1>2, <1>3, UpTo
<1>5. n \in S
  BY <1>4
<1> QED BY <1>1, <1>5
=============================================================================
