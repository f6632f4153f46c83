----------------------------- MODULE AggLemmas ------------------------------
(***************************************************************************)
(* What Add, Merge and Reset make of the groups an aggregator stands for,   *)
(* for any rows and whatever table holds them.  Every step of theirs joins  *)
(* a map of groups to another, and joining is associative and commutative.  *)
(***************************************************************************)
EXTENDS AggInv, FiniteSetTheorems, SequenceTheorems, TLAPS

-----------------------------------------------------------------------------
(* Measures and maps.                                                       *)

LEMMA PlusLaws ==
  ASSUME NEW a \in Measures, NEW b \in Measures
  PROVE  /\ Plus(a, b) \in Measures
         /\ Plus(a, b) = Plus(b, a)
         /\ Zero \in Measures /\ Plus(a, Zero) = a /\ Plus(Zero, a) = a
BY DEF Plus, Measures, Zero

LEMMA PlusAssociative ==
  ASSUME NEW a \in Measures, NEW b \in Measures, NEW c \in Measures
  PROVE  Plus(Plus(a, b), c) = Plus(a, Plus(b, c))
BY DEF Plus, Measures

\* A function is not nil.
LEMMA NotNil ==
  ASSUME NilIsNoTable, NEW f, f = [x \in DOMAIN f |-> f[x]]
  PROVE  f # NULL
BY DEF NilIsNoTable

LEMMA MapNotNil ==
  ASSUME NilIsNoTable, NEW K, NEW t, IsMap(t, K)
  PROVE  t # NULL
<1>1. t = [x \in DOMAIN t |-> t[x]]
  BY DEF IsMap
<1> QED BY <1>1, NotNil

\* A map by its groups.
LEMMA MapsEqual ==
  ASSUME NEW K, NEW t, NEW s, IsMap(t, K), IsMap(s, K), DOMAIN t = DOMAIN s,
         \A k \in DOMAIN t : t[k] = s[k]
  PROVE  t = s
BY DEF IsMap

LEMMA EmptyIsMap == ASSUME NEW K PROVE IsMap(EmptyMap, K) /\ DOMAIN EmptyMap = {}
<1>1. DOMAIN EmptyMap = {}
  BY DEF EmptyMap
<1> QED BY <1>1, FS_EmptySet DEF IsMap, EmptyMap

LEMMA SingleIsMap ==
  ASSUME NEW K, NEW k \in K, NEW m \in Measures
  PROVE  IsMap([x \in {k} |-> m], K)
BY FS_Singleton DEF IsMap

\* A map with keys in K is one with keys in a larger set.
LEMMA MapWidens ==
  ASSUME NEW K, NEW L, K \subseteq L, NEW t, IsMap(t, K)
  PROVE  IsMap(t, L)
BY DEF IsMap

LEMMA JoinDomain ==
  ASSUME NEW t, NEW s PROVE DOMAIN MapInto(t, s) = DOMAIN t \cup DOMAIN s
BY DEF MapInto

LEMMA JoinIsMap ==
  ASSUME NEW K, NEW t, NEW s, IsMap(t, K), IsMap(s, K)
  PROVE  IsMap(MapInto(t, s), K)
<1> DEFINE j == MapInto(t, s)
<1>1. DOMAIN j = DOMAIN t \cup DOMAIN s
  BY DEF MapInto
<1>2. IsFiniteSet(DOMAIN j)
  BY <1>1, FS_Union DEF IsMap
<1>3. ASSUME NEW k \in DOMAIN j PROVE j[k] \in Measures
  BY <1>1, PlusLaws DEF IsMap, MapInto
<1>4. j \in [DOMAIN j -> Measures]
  BY <1>3 DEF MapInto
<1> QED BY <1>1, <1>2, <1>4 DEF IsMap

\* What a join holds under one key.
LEMMA JoinAt ==
  ASSUME NEW t, NEW s, NEW k \in DOMAIN t \cup DOMAIN s
  PROVE  /\ k \notin DOMAIN s => MapInto(t, s)[k] = t[k]
         /\ k \notin DOMAIN t => MapInto(t, s)[k] = s[k]
         /\ k \in DOMAIN t /\ k \in DOMAIN s => MapInto(t, s)[k] = Plus(t[k], s[k])
BY DEF MapInto

LEMMA JoinEmpty ==
  ASSUME NEW K, NEW t, IsMap(t, K)
  PROVE  MapInto(t, EmptyMap) = t /\ MapInto(EmptyMap, t) = t
<1>1. DOMAIN EmptyMap = {}
  BY EmptyIsMap
<1>2. DOMAIN t \cup {} = DOMAIN t /\ {} \cup DOMAIN t = DOMAIN t
  OBVIOUS
<1> QED BY <1>1, <1>2 DEF MapInto, IsMap

LEMMA JoinCommutes ==
  ASSUME NEW K, NEW t, NEW s, IsMap(t, K), IsMap(s, K)
  PROVE  MapInto(t, s) = MapInto(s, t)
<1>1. \A k \in DOMAIN t \cap DOMAIN s : Plus(t[k], s[k]) = Plus(s[k], t[k])
  BY PlusLaws DEF IsMap
<1> QED BY <1>1 DEF MapInto

LEMMA JoinAssociative ==
  ASSUME NEW K, NEW t, NEW s, NEW u, IsMap(t, K), IsMap(s, K), IsMap(u, K)
  PROVE  MapInto(MapInto(t, s), u) = MapInto(t, MapInto(s, u))
<1> DEFINE ts == MapInto(t, s)
           su == MapInto(s, u)
           a == MapInto(ts, u)
           b == MapInto(t, su)
<1>1. IsMap(ts, K)
  BY JoinIsMap
<1>2. IsMap(su, K)
  BY JoinIsMap
<1>3. DOMAIN ts = DOMAIN t \cup DOMAIN s /\ DOMAIN su = DOMAIN s \cup DOMAIN u
  BY JoinDomain
<1>4. \A k \in DOMAIN ts : /\ k \notin DOMAIN s => ts[k] = t[k]
                           /\ k \notin DOMAIN t => ts[k] = s[k]
                           /\ k \in DOMAIN t /\ k \in DOMAIN s => ts[k] = Plus(t[k], s[k])
  BY <1>3, JoinAt
<1>5. \A k \in DOMAIN su : /\ k \notin DOMAIN u => su[k] = s[k]
                           /\ k \notin DOMAIN s => su[k] = u[k]
                           /\ k \in DOMAIN s /\ k \in DOMAIN u => su[k] = Plus(s[k], u[k])
  BY <1>3, JoinAt
<1> HIDE DEF ts, su
<1>6. IsMap(a, K)
  BY <1>1, JoinIsMap
<1>7. IsMap(b, K)
  BY <1>2, JoinIsMap
<1>8. DOMAIN a = DOMAIN ts \cup DOMAIN u /\ DOMAIN b = DOMAIN t \cup DOMAIN su
  BY JoinDomain
<1>9. \A k \in DOMAIN ts \cup DOMAIN u :
        /\ k \notin DOMAIN u => a[k] = ts[k]
        /\ k \notin DOMAIN ts => a[k] = u[k]
        /\ k \in DOMAIN ts /\ k \in DOMAIN u => a[k] = Plus(ts[k], u[k])
  BY JoinAt
<1>10. \A k \in DOMAIN t \cup DOMAIN su :
        /\ k \notin DOMAIN su => b[k] = t[k]
        /\ k \notin DOMAIN t => b[k] = su[k]
        /\ k \in DOMAIN t /\ k \in DOMAIN su => b[k] = Plus(t[k], su[k])
  BY JoinAt
<1> HIDE DEF a, b
<1>11. DOMAIN a = DOMAIN b
  BY <1>3, <1>8
<1>12. ASSUME NEW k \in DOMAIN a PROVE a[k] = b[k]
  <2>1. CASE k \in DOMAIN t /\ k \in DOMAIN s /\ k \in DOMAIN u
    <3>1. t[k] \in Measures /\ s[k] \in Measures /\ u[k] \in Measures
      BY <2>1 DEF IsMap
    <3> QED BY <1>3, <1>4, <1>5, <1>9, <1>10, <2>1, <3>1, PlusAssociative
  <2>2. CASE ~(k \in DOMAIN t /\ k \in DOMAIN s /\ k \in DOMAIN u)
    BY <1>3, <1>4, <1>5, <1>8, <1>9, <1>10, <2>2
  <2> QED BY <2>1, <2>2
<1>13. a = b
  BY <1>6, <1>7, <1>11, <1>12, MapsEqual
<1> QED BY <1>13 DEF a, b, ts, su

LEMMA JoinsSwap ==
  ASSUME NEW K, NEW t, NEW s, NEW u, NEW v,
         IsMap(t, K), IsMap(s, K), IsMap(u, K), IsMap(v, K)
  PROVE  MapInto(MapInto(t, s), MapInto(u, v)) = MapInto(MapInto(t, u), MapInto(s, v))
<1>1. IsMap(MapInto(u, v), K) /\ IsMap(MapInto(s, v), K)
  BY JoinIsMap
<1>2. MapInto(MapInto(t, s), MapInto(u, v)) = MapInto(t, MapInto(s, MapInto(u, v)))
  BY <1>1, JoinAssociative
<1>3. MapInto(MapInto(t, u), MapInto(s, v)) = MapInto(t, MapInto(u, MapInto(s, v)))
  BY <1>1, JoinAssociative
<1>4. MapInto(s, MapInto(u, v)) = MapInto(MapInto(s, u), v)
  BY JoinAssociative
<1>5. MapInto(u, MapInto(s, v)) = MapInto(MapInto(u, s), v)
  BY JoinAssociative
<1>6. MapInto(s, u) = MapInto(u, s)
  BY JoinCommutes
<1> QED BY <1>2, <1>3, <1>4, <1>5, <1>6

\* One entry is a map of one key.
LEMMA IntoIsJoin ==
  ASSUME NEW t, NEW k, NEW m
  PROVE  Into(t, k, m) = MapInto(t, [x \in {k} |-> m])
<1>1. CASE k \in DOMAIN t
  <2>1. DOMAIN t \cup {k} = DOMAIN t
    BY <1>1
  <2> QED BY <1>1, <2>1 DEF Into, MapInto
<1>2. CASE k \notin DOMAIN t
  BY <1>2 DEF Into, MapInto
<1> QED BY <1>1, <1>2

-----------------------------------------------------------------------------
(* Entries.  A list of entries goes into a map one by one; when the list is *)
(* that of another map, the result is the join of the two.                  *)

OnKeys(t) == IsMap(t, Keys)

Maps == INSTANCE FoldLemmas WITH Step <- IntoMap, Holds <- OnKeys

LEMMA IntoMapFold ==
  ASSUME NEW t, NEW e PROVE FoldLeft(IntoMap, t, e) = Maps!FoldOf(t, e)
BY DEF Maps!FoldOf, Maps!Latest, FoldLeft, MapThenFoldSet, Max

\* e lists the n groups of map s.
Lists(e, n, s) ==
  /\ DOMAIN e = 1 .. n
  /\ \A i, j \in 1 .. n : e[i].key = e[j].key => i = j
  /\ DOMAIN s = {e[i].key : i \in 1 .. n}
  /\ \A i \in 1 .. n : e[i].measure = s[e[i].key]

LEMMA EntriesJoin ==
  ASSUME NEW K, NEW t, NEW s, IsMap(t, K), IsMap(s, K), NEW e, NEW n \in Nat, Lists(e, n, s)
  PROVE  FoldLeft(IntoMap, t, e) = MapInto(t, s)
<1> DEFINE D(k) == {e[i].key : i \in 1 .. k}
           first == [k \in 0 .. n |-> [x \in D(k) |-> s[x]]]
           g == [k \in 0 .. n |-> MapInto(t, first[k])]
<1>1. \A k \in 0 .. n : IsMap(first[k], K)
  <2> SUFFICES ASSUME NEW k \in 0 .. n PROVE IsMap(first[k], K)
    OBVIOUS
  <2>1. D(k) \subseteq DOMAIN s
    BY DEF Lists
  <2>2. IsFiniteSet(D(k)) /\ D(k) \subseteq K
    BY <2>1, FS_Subset DEF IsMap
  <2>3. [x \in D(k) |-> s[x]] \in [D(k) -> Measures]
    BY <2>1 DEF IsMap
  <2> QED BY <2>2, <2>3 DEF IsMap
<1>2. first[0] = EmptyMap
  BY DEF EmptyMap
<1>3. first[n] = s
  <2>1. D(n) = DOMAIN s /\ n \in 0 .. n
    BY DEF Lists
  <2>2. s = [x \in DOMAIN s |-> s[x]]
    BY DEF IsMap
  <2> QED BY <2>1, <2>2
<1>4. ASSUME NEW k \in 1 .. n
      PROVE  /\ e[k].key \in K /\ e[k].measure \in Measures
             /\ first[k] = Into(first[k - 1], e[k].key, e[k].measure)
  <2>1. k \in 0 .. n /\ k - 1 \in 0 .. n
    OBVIOUS
  <2>2. D(k) = D(k - 1) \cup {e[k].key}
    <3>1. \A i : i \in 1 .. k <=> i \in 1 .. k - 1 \/ i = k
      OBVIOUS
    <3> QED BY <3>1
  <2>3. e[k].key \notin D(k - 1)
    <3>1. \A i \in 1 .. k - 1 : i \in 1 .. n /\ i # k
      OBVIOUS
    <3> QED BY <3>1 DEF Lists
  <2>4. e[k].key \in DOMAIN s /\ e[k].measure = s[e[k].key]
    BY DEF Lists
  <2>5. e[k].key \in K /\ e[k].measure \in Measures
    BY <2>4 DEF IsMap
  <2> HIDE DEF D
  <2>6. first[k] = [x \in D(k) |-> s[x]] /\ first[k - 1] = [x \in D(k - 1) |-> s[x]]
    BY <2>1
  <2> HIDE DEF first
  <2>7. Into(first[k - 1], e[k].key, e[k].measure)
          = MapInto(first[k - 1], [x \in {e[k].key} |-> e[k].measure])
    BY IntoIsJoin
  <2>8. first[k] = MapInto(first[k - 1], [x \in {e[k].key} |-> e[k].measure])
    BY <2>2, <2>3, <2>4, <2>6 DEF MapInto
  <2> QED BY <2>5, <2>7, <2>8
<1>5. g[0] = t
  <2>1. MapInto(t, EmptyMap) = t
    BY JoinEmpty
  <2> QED BY <1>2, <2>1
<1>6. ASSUME NEW k \in 1 .. n PROVE g[k] = IntoMap(g[k - 1], e[k])
  <2> DEFINE one == [x \in {e[k].key} |-> e[k].measure]
  <2>1. k \in 0 .. n /\ k - 1 \in 0 .. n
    OBVIOUS
  <2>2. IsMap(one, K)
    BY <1>4, SingleIsMap
  <2>3. IsMap(first[k - 1], K)
    BY <1>1, <2>1
  <2>4. first[k] = MapInto(first[k - 1], one)
    BY <1>4, IntoIsJoin
  <2>5. g[k] = MapInto(t, first[k]) /\ g[k - 1] = MapInto(t, first[k - 1])
    BY <2>1
  <2> HIDE DEF first, g, one
  <2>6. MapInto(MapInto(t, first[k - 1]), one) = MapInto(t, MapInto(first[k - 1], one))
    BY <2>2, <2>3, JoinAssociative
  <2>7. IntoMap(g[k - 1], e[k]) = MapInto(g[k - 1], one)
    BY IntoIsJoin DEF IntoMap, one
  <2> QED BY <2>4, <2>5, <2>6, <2>7
<1>7. g[n] = MapInto(t, s)
  <2>1. n \in 0 .. n
    OBVIOUS
  <2> HIDE DEF first
  <2> QED BY <1>3, <2>1
<1>8. Maps!FoldOf(t, e) = g[n]
  <2> HIDE DEF g
  <2>1. Maps!Trace(g, t, e, n)
    BY <1>5, <1>6 DEF Maps!Trace
  <2>2. DOMAIN e = 1 .. n
    BY DEF Lists
  <2> QED BY <2>1, <2>2, Maps!TraceIsFold
<1> QED BY <1>7, <1>8, IntoMapFold

-----------------------------------------------------------------------------
(* Dense tables.                                                            *)

\* A list to which a number is added that is not in it.
LEMMA AppendNew ==
  ASSUME NEW s \in Seq(Int), NEW i \in Int, IsInjective(s), i \notin Range(s)
  PROVE  /\ Append(s, i) \in Seq(Int) /\ IsInjective(Append(s, i))
         /\ Range(Append(s, i)) = Range(s) \cup {i}
<1> DEFINE t == Append(s, i)
<1>1. t \in Seq(Int) /\ Len(s) \in Nat /\ DOMAIN s = 1 .. Len(s) /\ DOMAIN t = 1 .. Len(s) + 1
  OBVIOUS
<1>2. t[Len(s) + 1] = i /\ \A n \in 1 .. Len(s) : t[n] = s[n]
  OBVIOUS
<1> HIDE DEF t
<1>3. \A n : n \in DOMAIN t <=> n \in DOMAIN s \/ n = Len(s) + 1
  BY <1>1
<1>4. \A n \in DOMAIN s : t[n] = s[n]
  BY <1>1, <1>2
<1>5. Range(t) = Range(s) \cup {i}
  BY <1>2, <1>3, <1>4 DEF Range
<1>6. IsInjective(t)
  <2> SUFFICES ASSUME NEW m \in DOMAIN t, NEW n \in DOMAIN t, t[m] = t[n] PROVE m = n
    BY DEF IsInjective
  <2>1. CASE m \in DOMAIN s /\ n \in DOMAIN s
    BY <1>4, <2>1 DEF IsInjective
  <2>2. CASE m \in DOMAIN s /\ n = Len(s) + 1
    BY <1>2, <1>4, <2>2 DEF Range
  <2>3. CASE n \in DOMAIN s /\ m = Len(s) + 1
    BY <1>2, <1>4, <2>3 DEF Range
  <2> QED BY <1>3, <2>1, <2>2, <2>3
<1> QED BY <1>1, <1>5, <1>6 DEF t

LEMMA DenseIsMap ==
  ASSUME NEW n \in Nat, NEW d, DenseFits(d, n)
  PROVE  /\ IsMap(InDense(d), 0 .. n - 1)
         /\ DOMAIN InDense(d) = Range(d.occupied)
<1>1. Used(d) = {i \in 0 .. n - 1 : d.present[i]}
  BY DEF DenseFits, Used
<1>2. Used(d) = Range(d.occupied)
  BY <1>1 DEF DenseFits
<1>3. IsFiniteSet(0 .. n - 1)
  BY FS_Interval
<1>4. IsFiniteSet(Used(d))
  BY <1>1, <1>3, FS_Subset
<1>5. InDense(d) \in [Used(d) -> Measures]
  BY <1>1 DEF InDense, DenseFits
<1> QED BY <1>1, <1>2, <1>4, <1>5 DEF IsMap, InDense

LEMMA DenseIntoFits ==
  ASSUME NEW n \in Nat, NEW d, DenseFits(d, n), NEW i \in 0 .. n - 1, NEW m \in Measures
  PROVE  /\ DenseFits(DenseInto(d, i, m), n)
         /\ InDense(DenseInto(d, i, m)) = Into(InDense(d), i, m)
<1> DEFINE e == DenseInto(d, i, m)
<1>1. /\ d.present \in [0 .. n - 1 -> BOOLEAN] /\ d.pay \in [0 .. n - 1 -> Measures]
      /\ d.occupied \in Seq(0 .. n - 1) /\ IsInjective(d.occupied)
      /\ Range(d.occupied) = {x \in 0 .. n - 1 : d.present[x]}
      /\ d = [present |-> d.present, pay |-> d.pay, occupied |-> d.occupied]
  BY DEF DenseFits
<1>2. CASE d.present[i]
  <2>1. e = [d EXCEPT !.pay[i] = Plus(@, m)]
    BY <1>2 DEF DenseInto
  <2>2. Plus(d.pay[i], m) \in Measures
    BY <1>1, PlusLaws
  <2>3. /\ e.present = d.present /\ e.occupied = d.occupied
        /\ e.pay = [d.pay EXCEPT ![i] = Plus(d.pay[i], m)]
        /\ e = [present |-> d.present, pay |-> e.pay, occupied |-> d.occupied]
    BY <1>1, <2>1
  <2> HIDE DEF e
  <2>4. e.pay \in [0 .. n - 1 -> Measures]
    BY <1>1, <2>2, <2>3
  <2>5. DenseFits(e, n)
    BY <1>1, <2>3, <2>4 DEF DenseFits
  <2>6. Used(e) = Used(d) /\ i \in Used(d) /\ Used(d) \cup {i} = Used(d) /\ Used(d) \subseteq 0 .. n - 1
    BY <1>1, <1>2, <2>3 DEF Used
  <2>7. InDense(e) = Into(InDense(d), i, m)
    BY <1>1, <2>3, <2>6, IntoIsJoin DEF MapInto, InDense
  <2> QED BY <2>5, <2>7 DEF e
<1>3. CASE ~d.present[i]
  <2>1. /\ e.present = [d.present EXCEPT ![i] = TRUE] /\ e.occupied = Append(d.occupied, i)
        /\ e.pay = [d.pay EXCEPT ![i] = m]
        /\ e = [present |-> e.present, pay |-> e.pay, occupied |-> e.occupied]
    BY <1>3 DEF DenseInto
  <2> HIDE DEF e
  <2>2. e.present \in [0 .. n - 1 -> BOOLEAN] /\ e.pay \in [0 .. n - 1 -> Measures]
    BY <1>1, <2>1
  <2>3. i \notin Range(d.occupied)
    BY <1>1, <1>3
  <2>4. d.occupied \in Seq(Int) /\ i \in Int
    BY <1>1
  <2>5. IsInjective(e.occupied) /\ Range(e.occupied) = Range(d.occupied) \cup {i}
    BY <1>1, <2>1, <2>3, <2>4, AppendNew
  <2>6. e.occupied \in Seq(0 .. n - 1)
    BY <1>1, <2>1
  <2>7. {x \in 0 .. n - 1 : e.present[x]} = {x \in 0 .. n - 1 : d.present[x]} \cup {i}
    BY <1>1, <2>1
  <2>8. DenseFits(e, n)
    BY <1>1, <2>1, <2>2, <2>5, <2>6, <2>7 DEF DenseFits
  <2>9. Used(e) = Used(d) \cup {i} /\ i \notin Used(d) /\ Used(d) \subseteq 0 .. n - 1
    BY <1>1, <1>3, <2>1, <2>7 DEF Used
  <2>10. InDense(e) = Into(InDense(d), i, m)
    BY <1>1, <2>1, <2>9, IntoIsJoin DEF MapInto, InDense
  <2> QED BY <2>8, <2>10 DEF e
<1> QED BY <1>1, <1>2, <1>3

-----------------------------------------------------------------------------
(* Dictionaries.                                                            *)

LEMMA DictIsMap ==
  ASSUME NEW d, DictFits(d)
  PROVE  IsMap(InDict(d), Int) /\ DOMAIN InDict(d) = Range(d.keys)
<1>1. DOMAIN d.ids = Range(d.keys) /\ Range(d.keys) \subseteq Int /\ DOMAIN d.pay = DOMAIN d.keys
  BY DEF DictFits, Range
<1>2. IsFiniteSet(Range(d.keys))
  <2>1. Len(d.keys) \in Nat /\ DOMAIN d.keys = 1 .. Len(d.keys)
    BY DEF DictFits
  <2>2. IsFiniteSet(1 .. Len(d.keys))
    BY <2>1, FS_Interval
  <2>3. d.ids \in [Range(d.keys) -> 1 .. Len(d.keys)] /\ \A n \in DOMAIN d.keys : d.ids[d.keys[n]] = n
    BY <2>1 DEF DictFits
  <2>4. \A x \in Range(d.keys) : d.keys[d.ids[x]] = x
    BY <2>3 DEF Range
  <2>5. d.ids \in Injection(Range(d.keys), 1 .. Len(d.keys))
    BY <2>3, <2>4 DEF Injection, IsInjective
  <2> QED BY <2>2, <2>5, FS_Injection
<1>3. InDict(d) \in [DOMAIN d.ids -> Measures]
  BY <1>1 DEF InDict, DictFits
<1> QED BY <1>1, <1>2, <1>3 DEF IsMap, InDict

-----------------------------------------------------------------------------
(* What an aggregator stands for.                                           *)

LEMMA SpilledIsMap ==
  ASSUME NEW g, IntFits(g), NEW n, n = g.mod
  PROVE  IsMap(Spilled(g), Int \ (0 .. n - 1))
BY EmptyIsMap DEF IntFits, Spilled

LEMMA IntHeldIsMap ==
  ASSUME NEW g, g.kind = "int64", IntFits(g)
  PROVE  IsMap(Held(g), Int)
<1>1. CASE g.dense # NULL
  <2>1. g.mod \in Nat /\ DenseFits(g.dense, g.mod)
    BY <1>1 DEF IntFits
  <2>2. IsMap(InDense(g.dense), 0 .. g.mod - 1)
    BY <2>1, DenseIsMap
  <2>3. IsMap(InDense(g.dense), Int)
    BY <2>2 DEF IsMap
  <2>4. IsMap(Spilled(g), Int \ (0 .. g.mod - 1))
    BY SpilledIsMap
  <2>5. IsMap(Spilled(g), Int)
    BY <2>4 DEF IsMap
  <2>6. Held(g) = MapInto(InDense(g.dense), Spilled(g))
    BY <1>1 DEF Held
  <2> QED BY <2>3, <2>5, <2>6, JoinIsMap
<1>2. CASE g.dense = NULL /\ g.oa # NULL
  BY <1>2 DEF Held, IntFits
<1>3. CASE g.dense = NULL /\ g.oa = NULL
  BY <1>3, EmptyIsMap DEF Held
<1> QED BY <1>1, <1>2, <1>3

LEMMA StringHeldIsMap ==
  ASSUME NEW g, g.kind = "string", StringFits(g)
  PROVE  IsMap(Held(g), Int)
<1>1. CASE g.dict = NULL
  BY <1>1, EmptyIsMap DEF Held
<1>2. CASE g.dict # NULL
  <2>1. DictFits(g.dict) /\ Held(g) = InDict(g.dict)
    BY <1>2 DEF StringFits, Held
  <2> QED BY <2>1, DictIsMap
<1> QED BY <1>1, <1>2

LEMMA NullIsMap ==
  ASSUME NEW g, NullFits(g)
  PROVE  IsMap(NullGroup(g), {NULL}) /\ IsMap(NullGroup(g), Keys)
<1>1. IsMap(NullGroup(g), {NULL})
  BY SingleIsMap, EmptyIsMap DEF NullFits, NullGroup
<1>2. {NULL} \subseteq Keys
  BY DEF Keys
<1> QED BY <1>1, <1>2, MapWidens

LEMMA HeldIsMap ==
  ASSUME NEW g, Fits(g), g.kind # "global"
  PROVE  /\ IsMap(Held(g), Int)
         /\ IsMap(Held(g), Keys)
         /\ IsMap(NullGroup(g), Keys)
         /\ IsMap(GroupsOf(g), Keys)
<1>1. IsMap(Held(g), Int) /\ NullFits(g)
  BY IntHeldIsMap, StringHeldIsMap DEF Fits, IntFits, StringFits
<1>2. IsMap(Held(g), Keys)
  BY <1>1, MapWidens DEF Keys
<1>3. IsMap(NullGroup(g), Keys)
  BY <1>1, NullIsMap
<1>4. IsMap(GroupsOf(g), Keys)
  BY <1>2, <1>3, JoinIsMap DEF GroupsOf
<1> QED BY <1>1, <1>2, <1>3, <1>4

\* What comes into the tables comes into the groups.
LEMMA GroupsGrow ==
  ASSUME NEW h, NEW s, NEW u, IsMap(h, Int), IsMap(s, Int), IsMap(u, Keys)
  PROVE  MapInto(MapInto(h, s), u) = MapInto(MapInto(h, u), s)
<1>1. IsMap(h, Keys)
  BY MapWidens DEF Keys
<1>2. IsMap(s, Keys)
  BY MapWidens DEF Keys
<1>3. MapInto(MapInto(h, s), u) = MapInto(h, MapInto(s, u))
  BY <1>1, <1>2, JoinAssociative
<1>4. MapInto(MapInto(h, u), s) = MapInto(h, MapInto(u, s))
  BY <1>1, <1>2, JoinAssociative
<1>5. MapInto(s, u) = MapInto(u, s)
  BY <1>2, JoinCommutes
<1> QED BY <1>3, <1>4, <1>5

\* Rows under NULL come into the NULL group, which is empty until the first.
LEMMA NullGrows ==
  ASSUME NEW g, NullFits(g), NEW m \in Measures,
         NEW f, f.hasNull = TRUE, f.nullKey = Plus(g.nullKey, m)
  PROVE  /\ NullFits(f)
         /\ NullGroup(f) = Into(NullGroup(g), NULL, m)
<1>1. g.nullKey \in Measures /\ Plus(g.nullKey, m) \in Measures /\ Plus(Zero, m) = m
  BY PlusLaws DEF NullFits
<1>2. NullFits(f)
  BY <1>1 DEF NullFits
<1>3. NullGroup(f) = [k \in {NULL} |-> Plus(g.nullKey, m)]
  BY DEF NullGroup
<1>4. CASE g.hasNull
  <2>1. NullGroup(g) = [k \in {NULL} |-> g.nullKey]
    BY <1>4 DEF NullGroup
  <2>2. {NULL} \cup {NULL} = {NULL}
    OBVIOUS
  <2> QED BY <1>2, <1>3, <2>1, <2>2, IntoIsJoin DEF MapInto
<1>5. CASE ~g.hasNull
  <2>1. g.nullKey = Zero /\ NullGroup(g) = EmptyMap
    BY <1>5 DEF NullFits, NullGroup
  <2>2. IsMap([k \in {NULL} |-> m], {NULL})
    BY SingleIsMap
  <2>3. MapInto(EmptyMap, [k \in {NULL} |-> m]) = [k \in {NULL} |-> m]
    BY <2>2, JoinEmpty
  <2> QED BY <1>1, <1>2, <1>3, <2>1, <2>3, IntoIsJoin
<1> QED BY <1>4, <1>5 DEF NullFits

-----------------------------------------------------------------------------
(* GroupByInt64.                                                            *)

HasTable(g) == g.dense # NULL \/ g.oa # NULL

\* Both have an array, or neither.
SameTable(f, g) == (f.dense = NULL) <=> (g.dense = NULL)

\* f is fit, and reduces and measures rows as g does.
IntLike(f, g) ==
  /\ IntFits(f) /\ f.kind = "int64"
  /\ f.mod = g.mod /\ f.hasVal = g.hasVal

LEMMA SpillIntoFits ==
  ASSUME NilIsNoTable, NEW g, g.kind = "int64", IntFits(g), g.dense # NULL,
         NEW t, IsMap(t, Int \ (0 .. g.mod - 1)),
         NEW f, f = [g EXCEPT !.spill = MapInto(EnsureSpill(g).spill, t)]
  PROVE  /\ IntLike(f, g) /\ f.dense = g.dense
         /\ GroupsOf(f) = MapInto(GroupsOf(g), t)
<1> DEFINE K == Int \ (0 .. g.mod - 1)
           s == MapInto(Spilled(g), t)
<1>1. EnsureSpill(g).spill = Spilled(g)
  BY DEF EnsureSpill, Spilled, IntFits
<1>2. IsMap(Spilled(g), K)
  BY SpilledIsMap
<1>3. IsMap(s, K)
  BY <1>2, JoinIsMap
<1>4. s # NULL
  BY <1>3, MapNotNil
<1>5. f = [g EXCEPT !.spill = s]
  BY <1>1
<1> HIDE DEF s
<1>6. /\ f.spill = s /\ f.kind = g.kind /\ f.mod = g.mod /\ f.hasVal = g.hasVal /\ f.dense = g.dense
      /\ f.oa = g.oa /\ f.nullKey = g.nullKey /\ f.hasNull = g.hasNull /\ DOMAIN f = DOMAIN g
  BY <1>5 DEF IntFits
<1>7. IntFits(f)
  BY <1>3, <1>6 DEF IntFits, NullFits
<1>8. Held(f) = MapInto(Held(g), t)
  <2>1. Held(g) = MapInto(InDense(g.dense), Spilled(g))
    BY DEF Held
  <2>2. Held(f) = MapInto(InDense(g.dense), s)
    BY <1>4, <1>6 DEF Held, Spilled
  <2>3. g.mod \in Nat /\ DenseFits(g.dense, g.mod)
    BY DEF IntFits
  <2>4. IsMap(InDense(g.dense), 0 .. g.mod - 1)
    BY <2>3, DenseIsMap
  <2>5. IsMap(InDense(g.dense), Int)
    BY <2>4 DEF IsMap
  <2>6. IsMap(Spilled(g), Int)
    BY <1>2 DEF IsMap
  <2>7. IsMap(t, Int)
    BY DEF IsMap
  <2>8. MapInto(MapInto(InDense(g.dense), Spilled(g)), t) = MapInto(InDense(g.dense), MapInto(Spilled(g), t))
    BY <2>5, <2>6, <2>7, JoinAssociative
  <2> QED BY <2>1, <2>2, <2>8 DEF s
<1>9. GroupsOf(f) = MapInto(GroupsOf(g), t)
  <2>1. IsMap(Held(g), Int)
    BY IntHeldIsMap
  <2>2. IsMap(t, Int)
    BY DEF IsMap
  <2>3. IsMap(NullGroup(g), Keys) /\ NullGroup(f) = NullGroup(g)
    BY <1>6, NullIsMap DEF IntFits, NullGroup
  <2> QED BY <1>8, <2>1, <2>2, <2>3, GroupsGrow DEF GroupsOf
<1> QED BY <1>6, <1>7, <1>9 DEF IntLike

LEMMA DenseNotNil ==
  ASSUME NilIsNoTable, NEW n, NEW d, DenseFits(d, n)
  PROVE  d # NULL
<1>1. d = [x \in DOMAIN d |-> d[x]]
  BY DEF DenseFits
<1> QED BY <1>1, NotNil

\* g with d for its array.
WithArray(g, d) == [g EXCEPT !.dense = d]

LEMMA DenseGrows ==
  ASSUME NilIsNoTable, NEW g, g.kind = "int64", IntFits(g), g.dense # NULL,
         NEW t, IsMap(t, 0 .. g.mod - 1),
         NEW d, DenseFits(d, g.mod), InDense(d) = MapInto(InDense(g.dense), t),
         NEW f, f = WithArray(g, d)
  PROVE  /\ IntLike(f, g) /\ f.dense # NULL
         /\ GroupsOf(f) = MapInto(GroupsOf(g), t)
<1>1. /\ f.dense = d /\ f.kind = g.kind /\ f.mod = g.mod /\ f.hasVal = g.hasVal /\ f.spill = g.spill
      /\ f.oa = g.oa /\ f.nullKey = g.nullKey /\ f.hasNull = g.hasNull /\ DOMAIN f = DOMAIN g
  BY DEF IntFits, WithArray
<1>2. d # NULL
  BY DenseNotNil
<1>3. IntFits(f)
  BY <1>1, <1>2 DEF IntFits, NullFits
<1>4. g.mod \in Nat /\ DenseFits(g.dense, g.mod)
  BY DEF IntFits
<1>5. IsMap(InDense(g.dense), 0 .. g.mod - 1)
  BY <1>4, DenseIsMap
<1>6. IsMap(InDense(g.dense), Int)
  BY <1>5 DEF IsMap
<1>7. IsMap(t, Int)
  BY DEF IsMap
<1>8. IsMap(Spilled(g), Int \ (0 .. g.mod - 1))
  BY SpilledIsMap
<1>9. IsMap(Spilled(g), Keys)
  BY <1>8 DEF IsMap, Keys
<1>10. IsMap(NullGroup(g), Keys) /\ NullGroup(f) = NullGroup(g) /\ Spilled(f) = Spilled(g)
  BY <1>1, NullIsMap DEF IntFits, NullGroup, Spilled
<1>11. Held(g) = MapInto(InDense(g.dense), Spilled(g))
  BY DEF Held
<1>12. Held(f) = MapInto(MapInto(InDense(g.dense), t), Spilled(g))
  BY <1>1, <1>2, <1>10 DEF Held
<1>13. Held(f) = MapInto(Held(g), t)
  BY <1>6, <1>7, <1>9, <1>11, <1>12, GroupsGrow
<1>14. IsMap(Held(g), Int)
  BY IntHeldIsMap
<1>15. GroupsOf(f) = MapInto(GroupsOf(g), t)
  BY <1>7, <1>10, <1>13, <1>14, GroupsGrow DEF GroupsOf
<1> QED BY <1>1, <1>2, <1>3, <1>15 DEF IntLike

LEMMA OAGrows ==
  ASSUME NilIsNoTable, NEW g, g.kind = "int64", IntFits(g), g.dense = NULL, g.oa # NULL,
         NEW t, IsMap(t, Int),
         NEW f, f = [g EXCEPT !.oa = MapInto(g.oa, t)]
  PROVE  /\ IntLike(f, g) /\ f.oa # NULL
         /\ GroupsOf(f) = MapInto(GroupsOf(g), t)
<1>1. /\ f.oa = MapInto(g.oa, t) /\ f.kind = g.kind /\ f.mod = g.mod /\ f.hasVal = g.hasVal
      /\ f.spill = g.spill /\ f.dense = g.dense /\ f.nullKey = g.nullKey /\ f.hasNull = g.hasNull
      /\ DOMAIN f = DOMAIN g
  BY DEF IntFits
<1>2. IsMap(g.oa, Int)
  BY DEF IntFits
<1>3. IsMap(f.oa, Int)
  BY <1>1, <1>2, JoinIsMap
<1>4. f.oa # NULL
  BY <1>3, MapNotNil
<1>5. IntFits(f)
  BY <1>1, <1>3 DEF IntFits, NullFits
<1>6. Held(g) = g.oa /\ Held(f) = MapInto(g.oa, t)
  BY <1>1, <1>4 DEF Held
<1>7. IsMap(NullGroup(g), Keys) /\ NullGroup(f) = NullGroup(g)
  BY <1>1, NullIsMap DEF IntFits, NullGroup
<1>8. GroupsOf(f) = MapInto(GroupsOf(g), t)
  BY <1>2, <1>6, <1>7, GroupsGrow DEF GroupsOf
<1> QED BY <1>1, <1>4, <1>5, <1>8 DEF IntLike

\* One group comes into whichever table takes its key.
LEMMA FoldPayloadFits ==
  ASSUME NilIsNoTable, NEW g, g.kind = "int64", IntFits(g), HasTable(g),
         NEW k \in Int, NEW m \in Measures,
         NEW f, f = FoldPayload(g, k, m)
  PROVE  /\ IntLike(f, g) /\ HasTable(f) /\ SameTable(f, g)
         /\ GroupsOf(f) = Into(GroupsOf(g), k, m)
<1> DEFINE one == [x \in {k} |-> m]
<1>1. CASE g.dense = NULL
  <2>1. f = [g EXCEPT !.oa = MapInto(g.oa, one)]
    BY <1>1, IntoIsJoin DEF FoldPayload
  <2>2. IsMap(one, Int)
    BY SingleIsMap
  <2> HIDE DEF one
  <2>3. IntLike(f, g) /\ f.oa # NULL /\ GroupsOf(f) = MapInto(GroupsOf(g), one)
    BY <1>1, <2>1, <2>2, OAGrows DEF HasTable
  <2>4. f.dense = g.dense
    BY <2>1 DEF IntFits
  <2> QED BY <2>3, <2>4, IntoIsJoin DEF HasTable, SameTable, one
<1>2. CASE g.dense # NULL /\ (k < 0 \/ k >= g.mod)
  <2>1. f = [g EXCEPT !.spill = MapInto(EnsureSpill(g).spill, one)]
    BY <1>2, IntoIsJoin DEF FoldPayload, SpillInto
  <2>2. k \in Int \ (0 .. g.mod - 1)
    BY <1>2 DEF IntFits
  <2>3. IsMap(one, Int \ (0 .. g.mod - 1))
    BY <2>2, SingleIsMap
  <2> HIDE DEF one
  <2>4. IntLike(f, g) /\ f.dense = g.dense /\ GroupsOf(f) = MapInto(GroupsOf(g), one)
    BY <1>2, <2>1, <2>3, SpillIntoFits
  <2> QED BY <1>2, <2>4, IntoIsJoin DEF HasTable, SameTable, one
<1>3. CASE g.dense # NULL /\ ~(k < 0 \/ k >= g.mod)
  <2> DEFINE d == DenseInto(g.dense, k, m)
  <2>1. f = [g EXCEPT !.dense = d]
    BY <1>3 DEF FoldPayload
  <2>2. g.mod \in Nat /\ DenseFits(g.dense, g.mod) /\ k \in 0 .. g.mod - 1
    BY <1>3 DEF IntFits
  <2>3. DenseFits(d, g.mod) /\ InDense(d) = Into(InDense(g.dense), k, m)
    <3> HIDE DEF one
    <3> QED BY <2>2, DenseIntoFits
  <2>4. IsMap(one, 0 .. g.mod - 1)
    BY <2>2, SingleIsMap
  <2> HIDE DEF one, d
  <2>5. IntLike(f, g) /\ f.dense # NULL /\ GroupsOf(f) = MapInto(GroupsOf(g), one)
    <3>1. f = WithArray(g, d)
      BY <2>1 DEF WithArray
    <3>2. InDense(d) = MapInto(InDense(g.dense), one)
      BY <2>3, IntoIsJoin DEF one
    <3> QED BY <1>3, <2>3, <2>4, <3>1, <3>2, DenseGrows
  <2> QED BY <1>3, <2>5, IntoIsJoin DEF HasTable, SameTable, one
<1> QED BY <1>1, <1>2, <1>3

\* Go's remainder is smaller than the divisor.
LEMMA RemBound ==
  ASSUME NEW k \in Int, NEW m \in Int, m > 0
  PROVE  Rem(k, m) \in Int /\ Rem(k, m) < m
<1>1. CASE k < 0
  <2>1. (-k) % m \in 0 .. m - 1
    BY <1>1
  <2> QED BY <1>1, <2>1 DEF Rem
<1>2. CASE k >= 0
  <2>1. k % m \in 0 .. m - 1
    BY <1>2
  <2> QED BY <1>2, <2>1 DEF Rem
<1> QED BY <1>1, <1>2

LEMMA KeyOfType ==
  ASSUME NEW k \in Int, NEW m \in Int
  PROVE  KeyOf(k, m) \in Int
<1>1. CASE m = 0
  BY <1>1 DEF KeyOf
<1>2. CASE m # 0
  <2> DEFINE n == IF m < 0 THEN -m ELSE m
  <2>1. n \in Int /\ n > 0
    BY <1>2
  <2> HIDE DEF n
  <2>2. k < 0 => (-k) % n \in 0 .. n - 1
    BY <2>1
  <2>3. k >= 0 => k % n \in 0 .. n - 1
    BY <2>1
  <2>4. Rem(k, m) = IF k < 0 THEN -((-k) % n) ELSE k % n
    BY DEF Rem, n
  <2> QED BY <1>2, <2>2, <2>3, <2>4 DEF KeyOf
<1> QED BY <1>1, <1>2

\* Add hands a row's reduced key to the table that takes it.
LEMMA AddKeyIsFold ==
  ASSUME NEW g, IntFits(g), NEW k \in Int, NEW m
  PROVE  AddKey(g, k, m) = FoldPayload(g, KeyOf(k, g.mod), m)
<1>1. CASE g.dense = NULL
  BY <1>1 DEF AddKey, FoldPayload
<1>2. CASE g.dense # NULL
  <2>1. g.mod \in Int /\ g.mod > 0
    BY <1>2 DEF IntFits
  <2>2. KeyOf(k, g.mod) = Rem(k, g.mod) /\ Rem(k, g.mod) \in Int /\ Rem(k, g.mod) < g.mod
    BY <2>1, RemBound DEF KeyOf
  <2> QED BY <1>2, <2>1, <2>2 DEF AddKey, FoldPayload
<1> QED BY <1>1, <1>2

LEMMA MeasureType ==
  ASSUME NEW r \in Rows, NEW hasVal PROVE MeasureAt(r, hasVal) \in Measures
BY DEF MeasureAt, Rows, Measures

LEMMA NewDenseFits ==
  ASSUME NEW n \in Nat
  PROVE  DenseFits(NewDense(n), n) /\ InDense(NewDense(n)) = EmptyMap
<1> DEFINE d == NewDense(n)
<1>1. /\ d = [present |-> d.present, pay |-> d.pay, occupied |-> d.occupied]
      /\ d.present = [i \in 0 .. n - 1 |-> FALSE] /\ d.pay = [i \in 0 .. n - 1 |-> Zero]
      /\ d.occupied = << >>
  BY DEF NewDense
<1> HIDE DEF d
<1>2. d.present \in [0 .. n - 1 -> BOOLEAN] /\ d.pay \in [0 .. n - 1 -> Measures]
  BY <1>1, PlusLaws DEF Measures, Zero
<1>3. << >> \in Seq(0 .. n - 1) /\ DOMAIN << >> = {}
  OBVIOUS
<1>4. IsInjective(d.occupied) /\ Range(d.occupied) = {}
  BY <1>1, <1>3 DEF IsInjective, Range
<1>5. {i \in 0 .. n - 1 : d.present[i]} = {}
  BY <1>1
<1>6. DenseFits(d, n)
  BY <1>1, <1>2, <1>3, <1>4, <1>5 DEF DenseFits
<1>7. Used(d) = {}
  BY <1>1 DEF Used
<1>8. InDense(d) = EmptyMap
  BY <1>7 DEF InDense, EmptyMap
<1> QED BY <1>6, <1>8 DEF d

\* A table that holds nothing yet.
LEMMA EnsureTableFits ==
  ASSUME NilIsNoTable, NEW g, g.kind = "int64", IntFits(g), NEW f, f = EnsureTable(g)
  PROVE  /\ IntLike(f, g) /\ HasTable(f)
         /\ Held(f) = Held(g) /\ GroupsOf(f) = GroupsOf(g)
<1>1. CASE HasTable(g)
  BY <1>1 DEF HasTable, EnsureTable, IntLike
<1>2. CASE ~HasTable(g) /\ UseDense(g.mod)
  <2>1. g.mod \in Nat /\ g.mod > 0 /\ g.dense = NULL /\ g.oa = NULL /\ g.spill = NULL
    BY <1>2 DEF IntFits, HasTable, UseDense
  <2> DEFINE d == NewDense(g.mod)
  <2>2. DenseFits(d, g.mod) /\ InDense(d) = EmptyMap
    <3> DEFINE n == g.mod
    <3> HIDE DEF n
    <3>1. DenseFits(NewDense(n), n) /\ InDense(NewDense(n)) = EmptyMap
      BY <2>1, NewDenseFits DEF n
    <3> QED BY <3>1 DEF n
  <2>3. f = [g EXCEPT !.dense = d]
    BY <1>2 DEF EnsureTable, HasTable
  <2> HIDE DEF d
  <2>4. d # NULL
    BY <2>2, DenseNotNil
  <2>5. /\ f.dense = d /\ f.kind = g.kind /\ f.mod = g.mod /\ f.hasVal = g.hasVal /\ f.spill = g.spill
        /\ f.oa = g.oa /\ f.nullKey = g.nullKey /\ f.hasNull = g.hasNull /\ DOMAIN f = DOMAIN g
    BY <2>3 DEF IntFits
  <2>6. IntFits(f)
    BY <2>1, <2>2, <2>4, <2>5 DEF IntFits, NullFits
  <2>7. Held(g) = EmptyMap /\ Spilled(f) = EmptyMap
    BY <2>1, <2>5 DEF Held, Spilled
  <2>8. MapInto(EmptyMap, EmptyMap) = EmptyMap
    BY EmptyIsMap, JoinEmpty
  <2>9. Held(f) = EmptyMap
    BY <2>2, <2>4, <2>5, <2>7, <2>8 DEF Held
  <2>10. GroupsOf(f) = GroupsOf(g)
    BY <2>5, <2>7, <2>9 DEF GroupsOf, NullGroup
  <2> QED BY <2>4, <2>5, <2>6, <2>7, <2>9, <2>10 DEF IntLike, HasTable
<1>3. CASE ~HasTable(g) /\ ~UseDense(g.mod)
  <2>1. g.dense = NULL /\ g.oa = NULL /\ f = [g EXCEPT !.oa = EmptyMap]
    BY <1>3 DEF EnsureTable, HasTable
  <2>2. IsMap(EmptyMap, Int)
    BY EmptyIsMap
  <2>3. EmptyMap # NULL
    BY <2>2, MapNotNil
  <2>4. /\ f.oa = EmptyMap /\ f.kind = g.kind /\ f.mod = g.mod /\ f.hasVal = g.hasVal /\ f.spill = g.spill
        /\ f.dense = g.dense /\ f.nullKey = g.nullKey /\ f.hasNull = g.hasNull /\ DOMAIN f = DOMAIN g
    BY <2>1 DEF IntFits
  <2>5. IntFits(f)
    BY <2>1, <2>2, <2>4 DEF IntFits, NullFits
  <2>6. Held(g) = EmptyMap /\ Held(f) = EmptyMap
    BY <2>1, <2>3, <2>4 DEF Held
  <2>7. GroupsOf(f) = GroupsOf(g)
    BY <2>4, <2>6 DEF GroupsOf, NullGroup
  <2> QED BY <2>3, <2>4, <2>5, <2>6, <2>7 DEF IntLike, HasTable
<1> QED BY <1>1, <1>2, <1>3

\* A row under NULL comes into the NULL group of g, whatever table it has.
LEMMA NullRowGrows ==
  ASSUME NEW g, NEW f, NEW m \in Measures, NullFits(g), IsMap(Held(g), Keys), Held(f) = Held(g),
         f.hasNull = TRUE, f.nullKey = Plus(g.nullKey, m)
  PROVE  NullFits(f) /\ GroupsOf(f) = Into(GroupsOf(g), NULL, m)
<1> DEFINE one == [x \in {NULL} |-> m]
<1>1. NullFits(f) /\ NullGroup(f) = MapInto(NullGroup(g), one)
  BY NullGrows, IntoIsJoin
<1>2. IsMap(NullGroup(g), Keys)
  BY NullIsMap
<1>3. IsMap(one, Keys)
  BY SingleIsMap DEF Keys
<1> HIDE DEF one
<1>4. MapInto(MapInto(Held(g), NullGroup(g)), one) = MapInto(Held(g), MapInto(NullGroup(g), one))
  BY <1>2, <1>3, JoinAssociative
<1> QED BY <1>1, <1>4, IntoIsJoin DEF GroupsOf, one

\* One row.
LEMMA AddRowFits ==
  ASSUME NilIsNoTable, NEW g, g.kind = "int64", IntFits(g), HasTable(g), NEW r \in Rows,
         NEW f, f = AddRow(g, r)
  PROVE  /\ IntLike(f, g) /\ HasTable(f) /\ SameTable(f, g)
         /\ GroupsOf(f) = Into(GroupsOf(g), IF r.key = NULL THEN NULL ELSE KeyOf(r.key, g.mod),
                               MeasureAt(r, g.hasVal))
<1> DEFINE m == MeasureAt(r, g.hasVal)
<1>1. m \in Measures
  BY MeasureType
<1>2. CASE r.key = NULL
  <2>1. f = [g EXCEPT !.hasNull = TRUE, !.nullKey = Plus(g.nullKey, m)]
    BY <1>2 DEF AddRow
  <2> HIDE DEF m
  <2>2. /\ f.kind = g.kind /\ f.mod = g.mod /\ f.hasVal = g.hasVal /\ f.spill = g.spill
        /\ f.dense = g.dense /\ f.oa = g.oa /\ f.nullKey = Plus(g.nullKey, m) /\ f.hasNull = TRUE
        /\ DOMAIN f = DOMAIN g
    BY <2>1 DEF IntFits
  <2>3. IsMap(Held(g), Int) /\ NullFits(g)
    BY IntHeldIsMap DEF IntFits
  <2>4. IsMap(Held(g), Keys) /\ Held(f) = Held(g)
    BY <2>2, <2>3, MapWidens DEF Keys, Held, Spilled
  <2>5. NullFits(f) /\ GroupsOf(f) = Into(GroupsOf(g), NULL, m)
    BY <1>1, <2>2, <2>3, <2>4, NullRowGrows
  <2>6. IntLike(f, g) /\ HasTable(f) /\ SameTable(f, g)
    BY <2>2, <2>5 DEF IntLike, IntFits, HasTable, SameTable
  <2> QED BY <1>2, <2>5, <2>6 DEF m
<1>3. CASE r.key # NULL
  <2>1. r.key \in Int /\ g.mod \in Int
    BY <1>3 DEF Rows, IntFits
  <2>2. KeyOf(r.key, g.mod) \in Int
    BY <2>1, KeyOfType
  <2>3. f = FoldPayload(g, KeyOf(r.key, g.mod), m)
    BY <1>3, <2>1, AddKeyIsFold DEF AddRow
  <2> HIDE DEF m
  <2>4. /\ IntLike(f, g) /\ HasTable(f) /\ SameTable(f, g)
        /\ GroupsOf(f) = Into(GroupsOf(g), KeyOf(r.key, g.mod), m)
    BY <1>1, <2>2, <2>3, FoldPayloadFits
  <2> QED BY <1>3, <2>4 DEF m
<1> QED BY <1>2, <1>3

\* Groups that take in the entries of e one by one.
LEMMA GroupsFollow ==
  ASSUME NEW h, NEW n \in Nat, NEW e, DOMAIN e = 1 .. n,
         \A k \in 1 .. n : GroupsOf(h[k]) = Into(GroupsOf(h[k - 1]), e[k].key, e[k].measure)
  PROVE  GroupsOf(h[n]) = FoldLeft(IntoMap, GroupsOf(h[0]), e)
<1> DEFINE g == [k \in 0 .. n |-> GroupsOf(h[k])]
<1>1. ASSUME NEW k \in 1 .. n PROVE g[k] = IntoMap(g[k - 1], e[k])
  <2>1. k \in 0 .. n /\ k - 1 \in 0 .. n
    OBVIOUS
  <2> QED BY <2>1 DEF IntoMap
<1>2. g[0] = GroupsOf(h[0]) /\ g[n] = GroupsOf(h[n])
  <2>1. 0 \in 0 .. n /\ n \in 0 .. n
    OBVIOUS
  <2> QED BY <2>1
<1> HIDE DEF g
<1>3. Maps!Trace(g, GroupsOf(h[0]), e, n)
  BY <1>1, <1>2 DEF Maps!Trace
<1>4. Maps!FoldOf(GroupsOf(h[0]), e) = g[n]
  BY <1>3, Maps!TraceIsFold
<1> QED BY <1>2, <1>4, IntoMapFold

\* Nothing added is nothing changed.
LEMMA RefNoRows ==
  ASSUME NEW t, NEW mod, NEW hasVal PROVE RefRows(t, << >>, mod, hasVal) = t
<1> DEFINE e == RefEntries(<< >>, mod, hasVal)
<1>1. DOMAIN e = 1 .. 0
  BY DEF RefEntries
<1>2. Maps!Trace([k \in 0 .. 0 |-> t], t, e, 0)
  BY DEF Maps!Trace
<1> HIDE DEF e
<1>3. Maps!FoldOf(t, e) = [k \in 0 .. 0 |-> t][0]
  BY <1>1, <1>2, Maps!TraceIsFold
<1> QED BY <1>3, IntoMapFold DEF RefRows, IntoAll, e

IntRows == INSTANCE FoldLemmas WITH Step <- AddRow, Holds <- OnKeys

LEMMA AddRowsFits ==
  ASSUME NilIsNoTable, NEW g, g.kind = "int64", IntFits(g), HasTable(g), NEW q \in Seq(Rows),
         NEW f, f = FoldLeft(AddRow, g, q)
  PROVE  /\ IntLike(f, g) /\ HasTable(f) /\ SameTable(f, g)
         /\ GroupsOf(f) = RefRows(GroupsOf(g), q, g.mod, g.hasVal)
<1> DEFINE n == Len(q)
           e == RefEntries(q, g.mod, g.hasVal)
<1>1. n \in Nat /\ DOMAIN q = 1 .. n /\ DOMAIN e = 1 .. n /\ \A k \in 1 .. n : q[k] \in Rows
  BY DEF RefEntries
<1>2. f = IntRows!FoldOf(g, q)
  BY DEF IntRows!FoldOf, IntRows!Latest, FoldLeft, MapThenFoldSet, Max
<1>3. \A k \in 1 .. n : /\ e[k].key = IF q[k].key = NULL THEN NULL ELSE KeyOf(q[k].key, g.mod)
                        /\ e[k].measure = MeasureAt(q[k], g.hasVal)
  BY <1>1 DEF RefEntries, Entry
<1> HIDE DEF n, e
<1>4. PICK h : IntRows!Trace(h, g, q, n) /\ IntRows!FoldOf(g, q) = h[n]
  BY <1>1, IntRows!FoldSteps
<1> DEFINE Good(k) == IntLike(h[k], g) /\ HasTable(h[k]) /\ SameTable(h[k], g)
           S == {k \in 0 .. n : Good(k)}
<1>5. 0 \in S
  BY <1>1, <1>4 DEF IntRows!Trace, IntLike, SameTable
<1>6. ASSUME NEW k \in 1 .. n, Good(k - 1)
      PROVE  /\ Good(k)
             /\ GroupsOf(h[k]) = Into(GroupsOf(h[k - 1]), e[k].key, e[k].measure)
  <2>1. h[k] = AddRow(h[k - 1], q[k]) /\ q[k] \in Rows
    BY <1>1, <1>4 DEF IntRows!Trace
  <2> DEFINE x == h[k - 1]
             y == h[k]
  <2>2. /\ x.kind = "int64" /\ IntFits(x) /\ HasTable(x) /\ x.mod = g.mod /\ x.hasVal = g.hasVal
        /\ SameTable(x, g)
    BY <1>6 DEF IntLike
  <2>3. y = AddRow(x, q[k])
    BY <2>1
  <2> HIDE DEF x, y
  <2>4. /\ IntLike(y, x) /\ HasTable(y) /\ SameTable(y, x)
        /\ GroupsOf(y) = Into(GroupsOf(x), IF q[k].key = NULL THEN NULL ELSE KeyOf(q[k].key, x.mod),
                              MeasureAt(q[k], x.hasVal))
    BY <2>1, <2>2, <2>3, AddRowFits
  <2>5. IntLike(y, g) /\ SameTable(y, g)
    BY <2>2, <2>4 DEF IntLike, SameTable
  <2>6. GroupsOf(y) = Into(GroupsOf(x), e[k].key, e[k].measure)
    BY <1>3, <2>2, <2>4
  <2> QED BY <2>4, <2>5, <2>6 DEF x, y
<1>7. \A k \in 1 .. n : k - 1 \in S => k \in S
  <2>1. ASSUME NEW k \in 1 .. n, k - 1 \in S PROVE k \in S
    <3>1. Good(k - 1)
      BY <2>1
    <3>2. Good(k)
      BY <1>6, <3>1
    <3> QED BY <1>1, <3>2
  <2> QED BY <2>1
<1>8. 0 .. n \subseteq S
  <2> HIDE DEF S
  <2> QED BY <1>1, <1>5, <1>7, IntRows!UpTo
<1>9. \A k \in 0 .. n : Good(k)
  BY <1>8
<1> HIDE DEF Good
<1>10. \A k \in 1 .. n : GroupsOf(h[k]) = Into(GroupsOf(h[k - 1]), e[k].key, e[k].measure)
  <2>1. \A k \in 1 .. n : k - 1 \in 0 .. n
    BY <1>1
  <2> QED BY <1>6, <1>9, <2>1
<1>11. GroupsOf(h[n]) = FoldLeft(IntoMap, GroupsOf(h[0]), e)
  BY <1>1, <1>10, GroupsFollow
<1>12. h[0] = g /\ h[n] = f /\ Good(n)
  <2>1. n \in 0 .. n
    BY <1>1
  <2> QED BY <1>2, <1>4, <1>9, <2>1 DEF IntRows!Trace
<1> QED BY <1>11, <1>12 DEF RefRows, IntoAll, e, Good

LEMMA AddBatchFits ==
  ASSUME NilIsNoTable, NEW g, g.kind = "int64", IntFits(g), NEW b, Selected(b) \in Seq(Rows),
         NEW f, f = AddBatch(g, b)
  PROVE  /\ IntLike(f, g) /\ (HasTable(g) => HasTable(f) /\ SameTable(f, g))
         /\ GroupsOf(f) = RefRows(GroupsOf(g), Selected(b), g.mod, g.hasVal)
<1>1. CASE Selected(b) = << >>
  <2>1. f = g
    BY <1>1 DEF AddBatch
  <2>2. RefRows(GroupsOf(g), Selected(b), g.mod, g.hasVal) = GroupsOf(g)
    BY <1>1, RefNoRows
  <2> QED BY <2>1, <2>2 DEF IntLike, SameTable
<1>2. CASE Selected(b) # << >>
  <2> DEFINE t == EnsureTable(g)
  <2>1. IntLike(t, g) /\ HasTable(t) /\ GroupsOf(t) = GroupsOf(g)
    BY EnsureTableFits
  <2>2. HasTable(g) => t = g
    BY DEF HasTable, EnsureTable
  <2>3. f = FoldLeft(AddRow, t, Selected(b))
    BY <1>2 DEF AddBatch
  <2> HIDE DEF t
  <2>4. /\ IntLike(f, t) /\ HasTable(f) /\ SameTable(f, t)
        /\ GroupsOf(f) = RefRows(GroupsOf(t), Selected(b), t.mod, t.hasVal)
    BY <2>1, <2>3, AddRowsFits DEF IntLike
  <2> QED BY <2>1, <2>2, <2>4 DEF IntLike
<1> QED BY <1>1, <1>2

Slots == INSTANCE FoldLemmas WITH Step <- LAMBDA x, e : DenseInto(x, e.key, e.measure), Holds <- OnKeys

\* The entries of a dense table are the groups of its slots in use.
LEMMA DenseMergeFits ==
  ASSUME NEW n \in Nat, NEW t, DenseFits(t, n), NEW s, DenseFits(s, n)
  PROVE  /\ DenseFits(DenseMerge(t, s), n)
         /\ InDense(DenseMerge(t, s)) = MapInto(InDense(t), InDense(s))
<1> DEFINE e == [i \in DOMAIN s.occupied |-> Entry(s.occupied[i], s.pay[s.occupied[i]])]
           c == Len(s.occupied)
<1>1. c \in Nat /\ DOMAIN s.occupied = 1 .. c /\ DOMAIN e = 1 .. c
  BY DEF DenseFits
<1>2. /\ IsMap(InDense(t), 0 .. n - 1) /\ IsMap(InDense(s), 0 .. n - 1)
      /\ DOMAIN InDense(s) = Range(s.occupied) /\ DOMAIN InDense(s) = Used(s)
  BY DenseIsMap DEF InDense
<1>3. ASSUME NEW i \in 1 .. c
      PROVE  /\ s.occupied[i] \in 0 .. n - 1 /\ s.occupied[i] \in Range(s.occupied)
             /\ e[i].key = s.occupied[i] /\ e[i].measure = s.pay[s.occupied[i]]
             /\ e[i].measure \in Measures
  BY <1>1 DEF Entry, Range, DenseFits
<1>4. Lists(e, c, InDense(s))
  <2> HIDE DEF e, c
  <2>1. \A i \in 1 .. c : InDense(s)[s.occupied[i]] = s.pay[s.occupied[i]]
    BY <1>2, <1>3 DEF InDense
  <2>2. \A i, j \in 1 .. c : s.occupied[i] = s.occupied[j] => i = j
    BY <1>1 DEF DenseFits, IsInjective
  <2>3. \A i \in 1 .. c : e[i].key = s.occupied[i] /\ e[i].measure = s.pay[s.occupied[i]]
    BY <1>3
  <2>4. Range(s.occupied) = {s.occupied[i] : i \in 1 .. c}
    BY <1>1 DEF Range
  <2>5. {s.occupied[i] : i \in 1 .. c} = {e[i].key : i \in 1 .. c}
    BY <2>3
  <2>6. DOMAIN InDense(s) = {e[i].key : i \in 1 .. c}
    BY <1>2, <2>4, <2>5
  <2>7. \A i, j \in 1 .. c : e[i].key = e[j].key => i = j
    BY <2>2, <2>3
  <2>8. \A i \in 1 .. c : e[i].measure = InDense(s)[e[i].key]
    BY <2>1, <2>3
  <2> QED BY <1>1, <2>6, <2>7, <2>8 DEF Lists
<1>5. DenseMerge(t, s) = Slots!FoldOf(t, e)
  BY DEF DenseMerge, Slots!FoldOf, Slots!Latest, FoldLeft, MapThenFoldSet, Max
<1> HIDE DEF e, c
<1>6. PICK h : Slots!Trace(h, t, e, c) /\ Slots!FoldOf(t, e) = h[c]
  BY <1>1, Slots!FoldSteps
<1> DEFINE S == {k \in 0 .. c : DenseFits(h[k], n)}
<1>7. 0 \in S
  BY <1>1, <1>6 DEF Slots!Trace
<1>8. ASSUME NEW k \in 1 .. c, DenseFits(h[k - 1], n)
      PROVE  /\ DenseFits(h[k], n)
             /\ InDense(h[k]) = Into(InDense(h[k - 1]), e[k].key, e[k].measure)
  <2>1. h[k] = DenseInto(h[k - 1], e[k].key, e[k].measure)
    BY <1>6 DEF Slots!Trace
  <2>2. e[k].key \in 0 .. n - 1 /\ e[k].measure \in Measures
    BY <1>3
  <2> QED BY <1>8, <2>1, <2>2, DenseIntoFits
<1>9. \A k \in 1 .. c : k - 1 \in S => k \in S
  BY <1>1, <1>8
<1>10. 0 .. c \subseteq S
  <2> HIDE DEF S
  <2> QED BY <1>1, <1>7, <1>9, Slots!UpTo
<1> DEFINE g == [k \in 0 .. c |-> InDense(h[k])]
<1>11. \A k \in 1 .. c : g[k] = IntoMap(g[k - 1], e[k])
  <2>1. \A k \in 1 .. c : k \in 0 .. c /\ k - 1 \in 0 .. c
    BY <1>1
  <2> QED BY <1>8, <1>10, <2>1 DEF IntoMap
<1>12. g[0] = InDense(t) /\ g[c] = InDense(h[c])
  <2>1. 0 \in 0 .. c /\ c \in 0 .. c /\ h[0] = t
    BY <1>1, <1>6 DEF Slots!Trace
  <2> QED BY <2>1
<1> HIDE DEF g
<1>13. Maps!Trace(g, InDense(t), e, c)
  BY <1>11, <1>12 DEF Maps!Trace
<1>14. Maps!FoldOf(InDense(t), e) = InDense(h[c])
  BY <1>1, <1>12, <1>13, Maps!TraceIsFold
<1>15. FoldLeft(IntoMap, InDense(t), e) = MapInto(InDense(t), InDense(s))
  BY <1>1, <1>2, <1>4, EntriesJoin
<1>16. DenseFits(h[c], n)
  <2>1. c \in 0 .. c
    BY <1>1
  <2> QED BY <1>10, <2>1
<1> QED BY <1>5, <1>6, <1>14, <1>15, <1>16, IntoMapFold

-----------------------------------------------------------------------------
(* The live groups, each reported once.                                     *)

\* The records of R report the groups of t.
Report(R, t) ==
  /\ \A r \in R : r.key \in DOMAIN t /\ r.measure = t[r.key]
  /\ \A k \in DOMAIN t : \E r \in R : r.key = k
  /\ \A r, s \in R : r.key = s.key => r = s

LEMMA GroupRowsReport ==
  ASSUME NEW g, g.kind = "int64", IntFits(g)
  PROVE  Report(GroupRows(g), Held(g))
<1>1. CASE g.dense # NULL
  <2> DEFINE d == g.dense
             A == {[part |-> "dense", key |-> d.occupied[n], measure |-> d.pay[d.occupied[n]]] :
                     n \in DOMAIN d.occupied}
             B == {[part |-> "spill", key |-> k, measure |-> Spilled(g)[k]] : k \in DOMAIN Spilled(g)}
             t == InDense(d)
             s == Spilled(g)
  <2>1. g.mod \in Nat /\ DenseFits(d, g.mod)
    BY <1>1 DEF IntFits
  <2>2. IsMap(t, 0 .. g.mod - 1) /\ DOMAIN t = Range(d.occupied) /\ DOMAIN t = Used(d)
    BY <2>1, DenseIsMap DEF InDense
  <2>3. IsMap(s, Int \ (0 .. g.mod - 1))
    BY SpilledIsMap
  <2>4. \A k : ~(k \in DOMAIN t /\ k \in DOMAIN s)
    BY <2>2, <2>3 DEF IsMap
  <2>5. GroupRows(g) = A \cup B
    <3>1. CASE g.spill = NULL
      <4>1. B = {}
        BY <3>1 DEF Spilled, EmptyMap
      <4> QED BY <1>1, <3>1, <4>1 DEF GroupRows
    <3>2. CASE g.spill # NULL
      BY <1>1, <3>2 DEF GroupRows, Spilled
    <3> QED BY <3>1, <3>2
  <2>6. Held(g) = MapInto(t, s)
    BY <1>1 DEF Held
  <2>7. \A r \in A : r.part = "dense" /\ r.key \in DOMAIN t /\ r.measure = t[r.key]
    BY <2>2 DEF Range, InDense
  <2>8. \A k \in DOMAIN t : \E r \in A : r.key = k
    <3> SUFFICES ASSUME NEW k \in DOMAIN t PROVE \E r \in A : r.key = k
      OBVIOUS
    <3>1. PICK n \in DOMAIN d.occupied : d.occupied[n] = k
      BY <2>2 DEF Range
    <3>2. [part |-> "dense", key |-> d.occupied[n], measure |-> d.pay[d.occupied[n]]] \in A
      OBVIOUS
    <3> QED BY <3>1, <3>2
  <2>9. \A r, x \in A : r.key = x.key => r = x
    OBVIOUS
  <2>10. \A r \in B : r.part = "spill" /\ r.key \in DOMAIN s /\ r.measure = s[r.key]
    OBVIOUS
  <2>11. \A k \in DOMAIN s : \E r \in B : r.key = k
    <3> SUFFICES ASSUME NEW k \in DOMAIN s PROVE \E r \in B : r.key = k
      OBVIOUS
    <3>1. [part |-> "spill", key |-> k, measure |-> Spilled(g)[k]] \in B
      OBVIOUS
    <3> QED BY <3>1
  <2>12. \A r, x \in B : r.key = x.key => r = x
    OBVIOUS
  <2> HIDE DEF A, B, t, s
  <2>13. DOMAIN Held(g) = DOMAIN t \cup DOMAIN s
    BY <2>6, JoinDomain
  <2>14. /\ \A k \in DOMAIN t : Held(g)[k] = t[k]
         /\ \A k \in DOMAIN s : Held(g)[k] = s[k]
    BY <2>4, <2>6, JoinAt
  <2> QED BY <2>4, <2>5, <2>7, <2>8, <2>9, <2>10, <2>11, <2>12, <2>13, <2>14 DEF Report
<1>2. CASE g.dense = NULL /\ g.oa # NULL
  <2> DEFINE C == {[part |-> "oa", key |-> k, measure |-> g.oa[k]] : k \in DOMAIN g.oa}
  <2>1. GroupRows(g) = C /\ Held(g) = g.oa
    BY <1>2 DEF GroupRows, Held
  <2>2. \A r \in C : r.key \in DOMAIN g.oa /\ r.measure = g.oa[r.key]
    OBVIOUS
  <2>3. \A k \in DOMAIN g.oa : \E r \in C : r.key = k
    <3> SUFFICES ASSUME NEW k \in DOMAIN g.oa PROVE \E r \in C : r.key = k
      OBVIOUS
    <3>1. [part |-> "oa", key |-> k, measure |-> g.oa[k]] \in C
      OBVIOUS
    <3> QED BY <3>1
  <2>4. \A r, x \in C : r.key = x.key => r = x
    OBVIOUS
  <2> HIDE DEF C
  <2> QED BY <2>1, <2>2, <2>3, <2>4 DEF Report
<1>3. CASE g.dense = NULL /\ g.oa = NULL
  <2>1. GroupRows(g) = {} /\ Held(g) = EmptyMap /\ DOMAIN EmptyMap = {}
    BY <1>3 DEF GroupRows, Held, EmptyMap
  <2> QED BY <2>1 DEF Report
<1> QED BY <1>1, <1>2, <1>3

\* The records of a report, put in a list.
LEMMA ReportList ==
  ASSUME NEW R, NEW K, NEW t, IsMap(t, K), Report(R, t)
  PROVE  \E n \in Nat : Lists(SetToSeq(R), n, t)
<1> DEFINE n == Cardinality(R)
           key == [r \in R |-> r.key]
           q == SetToSeq(R)
<1>1. IsFiniteSet(R)
  <2>1. key \in Injection(R, DOMAIN t)
    BY DEF Report, Injection, IsInjective
  <2> HIDE DEF key
  <2> QED BY <2>1, FS_Injection DEF IsMap
<1>2. n \in Nat /\ ExistsBijection(1 .. n, R)
  BY <1>1, FS_CardinalityType
<1>3. \E f \in [1 .. n -> R] : IsInjective(f)
  BY <1>2 DEF ExistsBijection, Bijection, Injection
<1>4. q \in [1 .. n -> R] /\ IsInjective(q)
  BY <1>3 DEF SetToSeq
<1>5. IsFiniteSet(1 .. n) /\ Cardinality(1 .. n) = n
  BY <1>2, FS_Interval
<1> HIDE DEF q
<1>6. \A r \in R : \E i \in 1 .. n : q[i] = r
  <2>1. q \in Injection(1 .. n, R)
    BY <1>4 DEF Injection
  <2>2. q \in Surjection(1 .. n, R)
    BY <1>1, <1>5, <2>1, FS_Injection
  <2> QED BY <2>2 DEF Surjection
<1> HIDE DEF n
<1>7. \A i, j \in 1 .. n : q[i].key = q[j].key => i = j
  BY <1>4 DEF Report, IsInjective
<1>8. \A i \in 1 .. n : q[i].key \in DOMAIN t /\ q[i].measure = t[q[i].key]
  BY <1>4 DEF Report
<1>9. DOMAIN t = {q[i].key : i \in 1 .. n}
  <2>1. \A k \in DOMAIN t : \E i \in 1 .. n : q[i].key = k
    BY <1>6 DEF Report
  <2> QED BY <1>8, <2>1
<1>10. Lists(q, n, t)
  BY <1>4, <1>7, <1>8, <1>9 DEF Lists
<1> QED BY <1>2, <1>10 DEF q

Payloads == INSTANCE FoldLemmas WITH Step <- LAMBDA x, r : FoldPayload(x, r.key, r.measure),
                                     Holds <- OnKeys

\* Groups of whatever representation, folded in one by one.
FoldPayloads(g, q) == FoldLeft(LAMBDA x, r : FoldPayload(x, r.key, r.measure), g, q)

LEMMA FoldPayloadsFit ==
  ASSUME NilIsNoTable, NEW g, g.kind = "int64", IntFits(g), HasTable(g),
         NEW t, IsMap(t, Int), NEW q, NEW n \in Nat, Lists(q, n, t),
         NEW f, f = FoldPayloads(g, q)
  PROVE  IntLike(f, g) /\ GroupsOf(f) = MapInto(GroupsOf(g), t)
<1>1. DOMAIN q = 1 .. n /\ \A k \in 1 .. n : q[k].key \in Int /\ q[k].measure \in Measures
  BY DEF Lists, IsMap
<1>2. f = Payloads!FoldOf(g, q)
  BY DEF FoldPayloads, Payloads!FoldOf, Payloads!Latest, FoldLeft, MapThenFoldSet, Max
<1>3. PICK h : Payloads!Trace(h, g, q, n) /\ Payloads!FoldOf(g, q) = h[n]
  BY <1>1, Payloads!FoldSteps
<1> DEFINE Good(k) == IntLike(h[k], g) /\ HasTable(h[k])
           S == {k \in 0 .. n : Good(k)}
<1>4. 0 \in S
  BY <1>3 DEF Payloads!Trace, IntLike
<1>5. ASSUME NEW k \in 1 .. n, Good(k - 1)
      PROVE  /\ Good(k)
             /\ GroupsOf(h[k]) = Into(GroupsOf(h[k - 1]), q[k].key, q[k].measure)
  <2> DEFINE x == h[k - 1]
             y == h[k]
  <2>1. y = FoldPayload(x, q[k].key, q[k].measure)
    BY <1>3 DEF Payloads!Trace
  <2>2. x.kind = "int64" /\ IntFits(x) /\ HasTable(x) /\ x.mod = g.mod /\ x.hasVal = g.hasVal
    BY <1>5 DEF IntLike
  <2>3. q[k].key \in Int /\ q[k].measure \in Measures
    BY <1>1
  <2> HIDE DEF x, y
  <2>4. IntLike(y, x) /\ HasTable(y) /\ GroupsOf(y) = Into(GroupsOf(x), q[k].key, q[k].measure)
    BY <2>1, <2>2, <2>3, FoldPayloadFits
  <2>5. IntLike(y, g)
    BY <2>2, <2>4 DEF IntLike
  <2> QED BY <2>4, <2>5 DEF x, y
<1>6. \A k \in 1 .. n : k - 1 \in S => k \in S
  <2>1. ASSUME NEW k \in 1 .. n, k - 1 \in S PROVE k \in S
    <3>1. Good(k - 1)
      BY <2>1
    <3>2. Good(k)
      BY <1>5, <3>1
    <3> QED BY <3>2
  <2> QED BY <2>1
<1>7. 0 .. n \subseteq S
  <2> HIDE DEF S
  <2> QED BY <1>4, <1>6, Payloads!UpTo
<1>8. \A k \in 0 .. n : Good(k)
  BY <1>7
<1> HIDE DEF Good
<1>9. \A k \in 1 .. n : GroupsOf(h[k]) = Into(GroupsOf(h[k - 1]), q[k].key, q[k].measure)
  BY <1>5, <1>8
<1>10. GroupsOf(h[n]) = FoldLeft(IntoMap, GroupsOf(h[0]), q)
  BY <1>1, <1>9, GroupsFollow
<1>11. h[0] = g /\ h[n] = f /\ Good(n)
  BY <1>2, <1>3, <1>8 DEF Payloads!Trace
<1>12. IsMap(GroupsOf(g), Keys) /\ IsMap(t, Keys)
  BY HeldIsMap, MapWidens DEF Fits, Keys
<1>13. FoldLeft(IntoMap, GroupsOf(g), q) = MapInto(GroupsOf(g), t)
  BY <1>12, EntriesJoin
<1> QED BY <1>10, <1>11, <1>13 DEF Good

\* Whatever tables the two sides have.
LEMMA MergeTablesFit ==
  ASSUME NilIsNoTable, NEW g, g.kind = "int64", IntFits(g), HasTable(g),
         NEW o, o.kind = "int64", IntFits(o), HasTable(o),
         NEW f, f = MergeTables(g, o)
  PROVE  IntLike(f, g) /\ GroupsOf(f) = MapInto(GroupsOf(g), Held(o))
<1>1. IsMap(Held(o), Int)
  BY IntHeldIsMap
<1>2. CASE g.dense # NULL /\ o.dense # NULL /\ g.mod = o.mod
  <2> DEFINE d == DenseMerge(g.dense, o.dense)
             x == WithArray(g, d)
             t == InDense(o.dense)
  <2>1. f = MergeSpill(x, o)
    BY <1>2 DEF MergeTables, WithArray
  <2>2. g.mod \in Nat /\ DenseFits(g.dense, g.mod) /\ DenseFits(o.dense, g.mod)
    BY <1>2 DEF IntFits
  <2>3. DenseFits(d, g.mod) /\ InDense(d) = MapInto(InDense(g.dense), t)
    BY <2>2, DenseMergeFits
  <2>4. IsMap(t, 0 .. g.mod - 1)
    BY <2>2, DenseIsMap
  <2> HIDE DEF d, t
  <2>5. IntLike(x, g) /\ x.dense # NULL /\ GroupsOf(x) = MapInto(GroupsOf(g), t)
    BY <1>2, <2>3, <2>4, DenseGrows
  <2> HIDE DEF x
  <2>6. Held(o) = MapInto(t, Spilled(o))
    BY <1>2 DEF Held, t
  <2>7. CASE o.spill = NULL
    <3>1. f = x /\ Spilled(o) = EmptyMap
      BY <2>1, <2>7 DEF MergeSpill, Spilled
    <3>2. MapInto(t, EmptyMap) = t
      BY <2>4, JoinEmpty
    <3> QED BY <2>5, <2>6, <3>1, <3>2
  <2>8. CASE o.spill # NULL
    <3>1. f = [x EXCEPT !.spill = MapInto(EnsureSpill(x).spill, o.spill)] /\ Spilled(o) = o.spill
      BY <2>1, <2>8 DEF MergeSpill, Spilled
    <3>2. x.kind = "int64" /\ IntFits(x) /\ x.mod = o.mod
      BY <1>2, <2>5 DEF IntLike
    <3>3. IsMap(o.spill, Int \ (0 .. x.mod - 1))
      BY <2>8, <3>2 DEF IntFits
    <3>4. IntLike(f, x) /\ GroupsOf(f) = MapInto(GroupsOf(x), o.spill)
      BY <2>5, <3>1, <3>2, <3>3, SpillIntoFits
    <3>5. IsMap(GroupsOf(g), Keys)
      BY HeldIsMap DEF Fits
    <3>6. IsMap(t, Keys)
      BY <2>4 DEF IsMap, Keys
    <3>7. IsMap(o.spill, Keys)
      BY <3>3 DEF IsMap, Keys
    <3>8. MapInto(MapInto(GroupsOf(g), t), o.spill) = MapInto(GroupsOf(g), MapInto(t, o.spill))
      BY <3>5, <3>6, <3>7, JoinAssociative
    <3> QED BY <2>5, <2>6, <3>1, <3>4, <3>8 DEF IntLike
  <2> QED BY <2>7, <2>8
<1>3. CASE ~(g.dense # NULL /\ o.dense # NULL /\ g.mod = o.mod) /\ g.oa # NULL /\ o.oa # NULL
  <2>1. f = [g EXCEPT !.oa = MapInto(g.oa, o.oa)]
    BY <1>3 DEF MergeTables
  <2>2. g.dense = NULL /\ o.dense = NULL /\ IsMap(o.oa, Int)
    BY <1>3 DEF IntFits
  <2>3. Held(o) = o.oa
    BY <1>3, <2>2 DEF Held
  <2> QED BY <1>3, <2>1, <2>2, <2>3, OAGrows
<1>4. CASE /\ ~(g.dense # NULL /\ o.dense # NULL /\ g.mod = o.mod)
           /\ ~(g.oa # NULL /\ o.oa # NULL)
  <2>1. f = FoldPayloads(g, SetToSeq(GroupRows(o)))
    BY <1>4 DEF MergeTables, FoldPayloads
  <2>2. Report(GroupRows(o), Held(o))
    BY GroupRowsReport
  <2>3. PICK n \in Nat : Lists(SetToSeq(GroupRows(o)), n, Held(o))
    BY <1>1, <2>2, ReportList
  <2> QED BY <1>1, <2>1, <2>3, FoldPayloadsFit
<1> QED BY <1>2, <1>3, <1>4

-----------------------------------------------------------------------------
(* The NULL group, and all of a merge and of a reset.                       *)

\* f is fit, and of the kind of g.
Like(f, g) ==
  /\ Fits(f) /\ f.kind = g.kind
  /\ ModOf(f) = ModOf(g) /\ HasValOf(f) = HasValOf(g)

LEMMA IntIsLike ==
  ASSUME NEW f, NEW g, g.kind = "int64", IntLike(f, g)
  PROVE  Like(f, g)
BY DEF IntLike, Like, Fits, ModOf, HasValOf

LEMMA MergeNullFits ==
  ASSUME NEW g, Fits(g), g.kind # "global", NEW o, NullFits(o), NEW f, f = MergeNull(g, o)
  PROVE  /\ Like(f, g)
         /\ GroupsOf(f) = MapInto(GroupsOf(g), NullGroup(o))
<1>1. IsMap(Held(g), Keys) /\ IsMap(GroupsOf(g), Keys)
  BY HeldIsMap
<1>2. CASE ~o.hasNull
  <2>1. f = g /\ NullGroup(o) = EmptyMap
    BY <1>2 DEF MergeNull, NullGroup
  <2>2. MapInto(GroupsOf(g), EmptyMap) = GroupsOf(g)
    BY <1>1, JoinEmpty
  <2> QED BY <2>1, <2>2 DEF Like
<1>3. CASE o.hasNull
  <2>1. f = [g EXCEPT !.hasNull = TRUE, !.nullKey = Plus(g.nullKey, o.nullKey)]
    BY <1>3 DEF MergeNull
  <2>2. o.nullKey \in Measures /\ NullGroup(o) = [x \in {NULL} |-> o.nullKey]
    BY <1>3 DEF NullFits, NullGroup
  <2>3. CASE g.kind = "int64"
    <3>1. /\ f.kind = g.kind /\ f.mod = g.mod /\ f.hasVal = g.hasVal /\ f.spill = g.spill
          /\ f.dense = g.dense /\ f.oa = g.oa /\ f.nullKey = Plus(g.nullKey, o.nullKey)
          /\ f.hasNull = TRUE /\ DOMAIN f = DOMAIN g
      BY <2>1, <2>3 DEF Fits, IntFits
    <3>2. IntFits(g) /\ NullFits(g)
      BY <2>3 DEF Fits, IntFits
    <3>3. Held(f) = Held(g)
      BY <2>3, <3>1 DEF Held, Spilled
    <3>4. NullFits(f) /\ GroupsOf(f) = Into(GroupsOf(g), NULL, o.nullKey)
      <4>1. o.nullKey \in Measures /\ IsMap(Held(g), Keys) /\ NullFits(g)
        BY <1>1, <2>2, <3>2
      <4>2. f.hasNull = TRUE /\ f.nullKey = Plus(g.nullKey, o.nullKey)
        BY <3>1
      <4> QED BY <3>3, <4>1, <4>2, NullRowGrows
    <3>5. IntFits(f)
      BY <3>1, <3>2, <3>4 DEF IntFits
    <3>6. Like(f, g)
      BY <2>3, <3>1, <3>5 DEF Like, Fits, ModOf, HasValOf
    <3> QED BY <2>2, <3>4, <3>6, IntoIsJoin
  <2>4. CASE g.kind = "string"
    <3>1. /\ f.kind = g.kind /\ f.hasVal = g.hasVal /\ f.dict = g.dict
          /\ f.nullKey = Plus(g.nullKey, o.nullKey) /\ f.hasNull = TRUE /\ DOMAIN f = DOMAIN g
      BY <2>1, <2>4 DEF Fits, StringFits
    <3>2. StringFits(g) /\ NullFits(g)
      BY <2>4 DEF Fits, StringFits
    <3>3. Held(f) = Held(g)
      BY <2>4, <3>1 DEF Held
    <3>4. NullFits(f) /\ GroupsOf(f) = Into(GroupsOf(g), NULL, o.nullKey)
      <4>1. o.nullKey \in Measures /\ IsMap(Held(g), Keys) /\ NullFits(g)
        BY <1>1, <2>2, <3>2
      <4>2. f.hasNull = TRUE /\ f.nullKey = Plus(g.nullKey, o.nullKey)
        BY <3>1
      <4> QED BY <3>3, <4>1, <4>2, NullRowGrows
    <3>5. StringFits(f)
      BY <3>1, <3>2, <3>4 DEF StringFits
    <3>6. Like(f, g)
      BY <2>4, <3>1, <3>5 DEF Like, Fits, ModOf, HasValOf
    <3> QED BY <2>2, <3>4, <3>6, IntoIsJoin
  <2> QED BY <2>3, <2>4 DEF Fits
<1> QED BY <1>2, <1>3

\* The tables of another aggregator and then its NULL group are its groups.
LEMMA TablesThenNull ==
  ASSUME NEW t, IsMap(t, Keys), NEW o, Fits(o), o.kind # "global"
  PROVE  MapInto(MapInto(t, Held(o)), NullGroup(o)) = MapInto(t, GroupsOf(o))
<1>1. IsMap(Held(o), Keys) /\ IsMap(NullGroup(o), Keys)
  BY HeldIsMap
<1> QED BY <1>1, JoinAssociative DEF GroupsOf

LEMMA MergeIntoFits ==
  ASSUME NilIsNoTable, NEW g, g.kind = "int64", Fits(g), NEW o, o.kind = "int64", Fits(o),
         NEW f, f = MergeInto(g, o)
  PROVE  Like(f, g) /\ GroupsOf(f) = MapInto(GroupsOf(g), GroupsOf(o))
<1> DEFINE a == EnsureTable(g)
           b == EnsureTable(o)
           t == MergeTables(a, b)
<1>1. IntFits(g) /\ IntFits(o) /\ NullFits(o)
  BY DEF Fits, IntFits
<1>2. IntLike(a, g) /\ HasTable(a) /\ GroupsOf(a) = GroupsOf(g)
  BY <1>1, EnsureTableFits
<1>3. IntLike(b, o) /\ HasTable(b) /\ Held(b) = Held(o)
  BY <1>1, EnsureTableFits
<1>4. f = MergeNull(t, o)
  BY DEF MergeInto
<1>5. t = MergeTables(a, b)
  OBVIOUS
<1> HIDE DEF a, b, t
<1>6. IntLike(t, a) /\ GroupsOf(t) = MapInto(GroupsOf(a), Held(b))
  BY <1>2, <1>3, <1>5, MergeTablesFit DEF IntLike
<1>7. IntLike(t, g) /\ t.kind = "int64"
  BY <1>2, <1>6 DEF IntLike
<1>8. Like(t, g)
  BY <1>7, IntIsLike
<1>9. Like(f, t) /\ GroupsOf(f) = MapInto(GroupsOf(t), NullGroup(o))
  BY <1>1, <1>4, <1>7, <1>8, MergeNullFits DEF Like
<1>10. IsMap(GroupsOf(g), Keys)
  BY HeldIsMap
<1>11. MapInto(MapInto(GroupsOf(g), Held(o)), NullGroup(o)) = MapInto(GroupsOf(g), GroupsOf(o))
  BY <1>10, TablesThenNull
<1> QED BY <1>2, <1>3, <1>6, <1>8, <1>9, <1>11 DEF Like

LEMMA DenseResetFits ==
  ASSUME NEW n \in Nat, NEW d, DenseFits(d, n)
  PROVE  DenseFits(DenseReset(d), n) /\ InDense(DenseReset(d)) = EmptyMap
<1> DEFINE e == DenseReset(d)
<1>1. d = [present |-> d.present, pay |-> d.pay, occupied |-> d.occupied] /\ DOMAIN d.present = 0 .. n - 1
  BY DEF DenseFits
<1>2. d.occupied \in Seq(0 .. n - 1) /\ Range(d.occupied) = {i \in 0 .. n - 1 : d.present[i]}
  BY DEF DenseFits
<1>3. \A i \in 0 .. n - 1 : d.present[i] => Contains(d.occupied, i)
  <2>0. DOMAIN d.occupied = 1 .. Len(d.occupied)
    BY <1>2
  <2>1. \A i \in Range(d.occupied) : \E k \in 1 .. Len(d.occupied) : d.occupied[k] = i
    BY <2>0 DEF Range
  <2> QED BY <1>2, <2>1 DEF Contains
<1>4. /\ e.occupied = << >> /\ e.pay = d.pay
       /\ e.present = [i \in 0 .. n - 1 |-> d.present[i] /\ ~Contains(d.occupied, i)]
       /\ e = [present |-> e.present, pay |-> e.pay, occupied |-> e.occupied]
  <2> DEFINE p == [i \in 0 .. n - 1 |-> d.present[i] /\ ~Contains(d.occupied, i)]
  <2>1. e = [d EXCEPT !.present = p, !.occupied = << >>]
    BY <1>1 DEF DenseReset
  <2> HIDE DEF e, p
  <2>2. /\ e.occupied = << >> /\ e.pay = d.pay /\ e.present = p
        /\ e = [present |-> e.present, pay |-> e.pay, occupied |-> e.occupied]
    BY <1>1, <2>1
  <2> QED BY <2>2 DEF p
<1> HIDE DEF e
<1>5. \A i \in 0 .. n - 1 : e.present[i] = FALSE
  BY <1>3, <1>4
<1>6. e.present \in [0 .. n - 1 -> BOOLEAN]
  BY <1>4
<1>7. << >> \in Seq(0 .. n - 1) /\ DOMAIN << >> = {}
  OBVIOUS
<1>8. IsInjective(e.occupied) /\ Range(e.occupied) = {} /\ {i \in 0 .. n - 1 : e.present[i]} = {}
  BY <1>5, <1>7, <1>4 DEF IsInjective, Range
<1>9. d.pay \in [0 .. n - 1 -> Measures]
  BY DEF DenseFits
<1>10. DenseFits(e, n)
  BY <1>6, <1>7, <1>8, <1>9, <1>4 DEF DenseFits
<1>11. Used(e) = {}
  BY <1>5, <1>6 DEF Used
<1>12. InDense(e) = EmptyMap
  BY <1>11 DEF InDense, EmptyMap
<1> QED BY <1>10, <1>12 DEF e

LEMMA ResetGroupsFits ==
  ASSUME NilIsNoTable, NEW g, g.kind = "int64", Fits(g), NEW f, f = ResetGroups(g)
  PROVE  Like(f, g) /\ GroupsOf(f) = EmptyMap
<1>1. /\ f.kind = g.kind /\ f.mod = g.mod /\ f.hasVal = g.hasVal /\ DOMAIN f = DOMAIN g
      /\ f.dense = (IF g.dense = NULL THEN NULL ELSE DenseReset(g.dense))
      /\ f.spill = (IF g.spill = NULL THEN NULL ELSE EmptyMap)
      /\ f.oa = (IF g.oa = NULL THEN NULL ELSE EmptyMap)
      /\ f.nullKey = Zero /\ f.hasNull = FALSE
  BY DEF ResetGroups, Fits, IntFits
<1>2. IntFits(g)
  BY DEF Fits
<1>3. IsMap(EmptyMap, Int) /\ IsMap(EmptyMap, Int \ (0 .. g.mod - 1)) /\ EmptyMap # NULL
  BY EmptyIsMap, MapNotNil
<1>4. Zero \in Measures
  BY DEF Measures, Zero
<1>5. NullFits(f) /\ NullGroup(f) = EmptyMap
  BY <1>1, <1>4 DEF NullFits, NullGroup
<1>6. MapInto(EmptyMap, EmptyMap) = EmptyMap
  BY <1>3, JoinEmpty
<1>7. CASE g.dense # NULL
  <2>1. g.mod \in Nat /\ g.mod > 0 /\ DenseFits(g.dense, g.mod) /\ g.oa = NULL
    BY <1>2, <1>7 DEF IntFits
  <2>2. DenseFits(f.dense, f.mod) /\ InDense(f.dense) = EmptyMap
    BY <1>1, <1>7, <2>1, DenseResetFits
  <2>3. f.dense # NULL
    BY <2>2, DenseNotNil
  <2>4. IntFits(f)
    BY <1>1, <1>2, <1>3, <1>5, <2>1, <2>2, <2>3 DEF IntFits
  <2>5. Spilled(f) = EmptyMap
    BY <1>1 DEF Spilled
  <2>6. Held(f) = EmptyMap
    BY <1>1, <1>6, <2>2, <2>3, <2>5 DEF Held
  <2> QED BY <1>1, <1>5, <1>6, <2>4, <2>6 DEF Like, Fits, ModOf, HasValOf, GroupsOf
<1>8. CASE g.dense = NULL
  <2>1. f.dense = NULL /\ g.spill = NULL
    BY <1>1, <1>2, <1>8 DEF IntFits
  <2>2. IntFits(f)
    BY <1>1, <1>2, <1>3, <1>5, <2>1 DEF IntFits
  <2>3. Held(f) = EmptyMap
    BY <1>1, <2>1 DEF Held
  <2> QED BY <1>1, <1>5, <1>6, <2>2, <2>3 DEF Like, Fits, ModOf, HasValOf, GroupsOf
<1> QED BY <1>7, <1>8

-----------------------------------------------------------------------------
(* GroupByString.                                                           *)

LEMMA DictNotNil ==
  ASSUME NilIsNoTable, NEW d, DictFits(d)
  PROVE  d # NULL
<1>1. d = [x \in DOMAIN d |-> d[x]]
  BY DEF DictFits
<1> QED BY <1>1, NotNil

LEMMA NewDictFits == DictFits(NewDict) /\ InDict(NewDict) = EmptyMap
<1>1. << >> \in Seq(Int) /\ << >> \in Seq(Measures) /\ DOMAIN << >> = {} /\ Len(<< >>) = 0
  OBVIOUS
<1>2. IsInjective(<< >>) /\ Range(<< >>) = {}
  BY <1>1 DEF IsInjective, Range
<1>3. NewDict.ids = [k \in {} |-> 0] /\ NewDict.keys = << >> /\ NewDict.pay = << >>
  BY DEF NewDict
<1>4. NewDict = [ids |-> NewDict.ids, keys |-> NewDict.keys, pay |-> NewDict.pay]
  BY DEF NewDict
<1>5. DictFits(NewDict)
  BY <1>1, <1>2, <1>3, <1>4 DEF DictFits
<1>6. InDict(NewDict) = EmptyMap
  BY <1>3 DEF InDict, EmptyMap
<1> QED BY <1>5, <1>6

LEMMA DictIntoFits ==
  ASSUME NEW d, DictFits(d), NEW k \in Int, NEW m \in Measures
  PROVE  /\ DictFits(DictInto(d, k, m))
         /\ InDict(DictInto(d, k, m)) = Into(InDict(d), k, m)
<1> DEFINE e == DictInto(d, k, m)
           n == Len(d.keys)
<1>1. /\ d.keys \in Seq(Int) /\ IsInjective(d.keys) /\ d.pay \in Seq(Measures)
      /\ n \in Nat /\ DOMAIN d.keys = 1 .. n /\ DOMAIN d.pay = 1 .. n
      /\ d.ids \in [Range(d.keys) -> 1 .. n]
      /\ \A i \in 1 .. n : d.ids[d.keys[i]] = i
      /\ d = [ids |-> d.ids, keys |-> d.keys, pay |-> d.pay]
  BY DEF DictFits
<1>2. CASE k \in DOMAIN d.ids
  <2>1. d.ids[k] \in 1 .. n
    BY <1>1, <1>2
  <2>2. Plus(d.pay[d.ids[k]], m) \in Measures
    BY <1>1, <2>1, PlusLaws
  <2>3. e = [d EXCEPT !.pay[d.ids[k]] = Plus(@, m)]
    BY <1>2 DEF DictInto
  <2> HIDE DEF e
  <2>4. /\ e.ids = d.ids /\ e.keys = d.keys
        /\ e.pay = [d.pay EXCEPT ![d.ids[k]] = Plus(d.pay[d.ids[k]], m)]
        /\ e = [ids |-> d.ids, keys |-> d.keys, pay |-> e.pay]
    BY <1>1, <2>3
  <2>5. e.pay \in Seq(Measures) /\ Len(e.pay) = n
    BY <1>1, <2>1, <2>2, <2>4
  <2>6. DictFits(e)
    BY <1>1, <2>4, <2>5 DEF DictFits
  <2>11. \A x \in Range(d.keys) : d.keys[d.ids[x]] = x
    BY <1>1 DEF Range
  <2>7. \A x \in DOMAIN d.ids : d.ids[x] \in 1 .. n /\ (x # k => d.ids[x] # d.ids[k])
    BY <1>1, <1>2, <2>11
  <2>8. \A x \in DOMAIN d.ids : e.pay[d.ids[x]] = IF x = k THEN Plus(d.pay[d.ids[k]], m) ELSE d.pay[d.ids[x]]
    BY <1>1, <2>1, <2>4, <2>7
  <2>9. DOMAIN d.ids \cup {k} = DOMAIN d.ids
    BY <1>2
  <2>10. InDict(e) = Into(InDict(d), k, m)
    BY <1>2, <2>4, <2>8, <2>9, IntoIsJoin DEF MapInto, InDict
  <2> QED BY <2>6, <2>10 DEF e
<1>3. CASE k \notin DOMAIN d.ids
  <2>1. /\ e.ids = [x \in DOMAIN d.ids \cup {k} |-> IF x = k THEN n + 1 ELSE d.ids[x]]
        /\ e.keys = Append(d.keys, k) /\ e.pay = Append(d.pay, m)
        /\ e = [ids |-> e.ids, keys |-> e.keys, pay |-> e.pay]
    BY <1>3 DEF DictInto
  <2> HIDE DEF e
  <2>2. k \notin Range(d.keys)
    BY <1>1, <1>3
  <2>3. e.keys \in Seq(Int) /\ IsInjective(e.keys) /\ Range(e.keys) = Range(d.keys) \cup {k}
    BY <1>1, <2>1, <2>2, AppendNew
  <2>4. DOMAIN e.keys = 1 .. n + 1 /\ e.keys[n + 1] = k /\ \A i \in 1 .. n : e.keys[i] = d.keys[i]
    BY <1>1, <2>1
  <2>5. /\ e.pay \in Seq(Measures) /\ DOMAIN e.pay = 1 .. n + 1 /\ e.pay[n + 1] = m
        /\ Len(e.pay) = n + 1 /\ \A i \in 1 .. n : e.pay[i] = d.pay[i]
    BY <1>1, <2>1
  <2>6. Len(e.keys) = n + 1
    BY <1>1, <2>1
  <2> HIDE DEF n
  <2>7. \A x \in DOMAIN d.ids : d.ids[x] \in 1 .. n /\ d.ids[x] \in 1 .. n + 1
    BY <1>1
  <2>8. e.ids \in [Range(e.keys) -> 1 .. n + 1]
    <3>1. n + 1 \in 1 .. n + 1
      BY <1>1
    <3> QED BY <1>1, <2>1, <2>3, <2>7, <3>1
  <2>9. \A i \in 1 .. n + 1 : e.ids[e.keys[i]] = i
    <3>1. \A i \in 1 .. n + 1 : i \in 1 .. n \/ i = n + 1
      BY <1>1
    <3>2. \A i \in 1 .. n : d.keys[i] \in DOMAIN d.ids /\ d.keys[i] # k
      BY <1>1, <2>2 DEF Range
    <3> QED BY <1>1, <2>1, <2>4, <3>1, <3>2
  <2>10. DictFits(e)
    BY <2>1, <2>3, <2>4, <2>5, <2>6, <2>8, <2>9 DEF DictFits
  <2>11. \A x \in DOMAIN d.ids : x # k /\ e.ids[x] = d.ids[x] /\ e.pay[e.ids[x]] = d.pay[d.ids[x]]
    BY <1>3, <2>1, <2>5, <2>7
  <2>12. DOMAIN e.ids = DOMAIN d.ids \cup {k} /\ e.pay[e.ids[k]] = m
    BY <2>1, <2>5
  <2>13. InDict(e) = Into(InDict(d), k, m)
    BY <1>3, <2>11, <2>12, IntoIsJoin DEF MapInto, InDict
  <2> QED BY <2>10, <2>13 DEF e
<1> QED BY <1>2, <1>3

\* f is fit, and measures rows as g does.
StringLike(f, g) ==
  /\ StringFits(f) /\ f.kind = "string"
  /\ f.hasVal = g.hasVal

LEMMA StringIsLike ==
  ASSUME NEW f, NEW g, g.kind = "string", StringLike(f, g)
  PROVE  Like(f, g)
BY DEF StringLike, Like, Fits, ModOf, HasValOf

LEMMA DictGrows ==
  ASSUME NilIsNoTable, NEW g, g.kind = "string", StringFits(g),
         NEW t, IsMap(t, Int),
         NEW d, DictFits(d), InDict(d) = MapInto(Held(g), t),
         NEW f, f = [g EXCEPT !.dict = d]
  PROVE  /\ StringLike(f, g) /\ f.dict # NULL
         /\ GroupsOf(f) = MapInto(GroupsOf(g), t)
<1>1. /\ f.dict = d /\ f.kind = g.kind /\ f.hasVal = g.hasVal
      /\ f.nullKey = g.nullKey /\ f.hasNull = g.hasNull /\ DOMAIN f = DOMAIN g
  BY DEF StringFits
<1>2. d # NULL
  BY DictNotNil
<1>3. StringFits(f)
  BY <1>1 DEF StringFits, NullFits
<1>4. Held(f) = MapInto(Held(g), t)
  BY <1>1, <1>2 DEF Held
<1>5. IsMap(Held(g), Int)
  BY StringHeldIsMap
<1>6. IsMap(NullGroup(g), Keys) /\ NullGroup(f) = NullGroup(g)
  BY <1>1, NullIsMap DEF StringFits, NullGroup
<1>7. GroupsOf(f) = MapInto(GroupsOf(g), t)
  BY <1>4, <1>5, <1>6, GroupsGrow DEF GroupsOf
<1> QED BY <1>1, <1>2, <1>3, <1>7 DEF StringLike

LEMMA EnsureDictFits ==
  ASSUME NilIsNoTable, NEW g, g.kind = "string", StringFits(g), NEW f, f = EnsureDict(g)
  PROVE  /\ StringLike(f, g) /\ f.dict # NULL
         /\ GroupsOf(f) = GroupsOf(g)
<1>1. CASE g.dict # NULL
  BY <1>1 DEF EnsureDict, StringLike
<1>2. CASE g.dict = NULL
  <2>1. f = [g EXCEPT !.dict = NewDict] /\ Held(g) = EmptyMap
    BY <1>2 DEF EnsureDict, Held
  <2>2. DictFits(NewDict) /\ InDict(NewDict) = EmptyMap
    BY NewDictFits
  <2>3. IsMap(EmptyMap, Int)
    BY EmptyIsMap
  <2>4. MapInto(EmptyMap, EmptyMap) = EmptyMap
    BY <2>3, JoinEmpty
  <2>5. StringLike(f, g) /\ f.dict # NULL /\ GroupsOf(f) = MapInto(GroupsOf(g), EmptyMap)
    <3>1. InDict(NewDict) = MapInto(Held(g), EmptyMap)
      BY <2>1, <2>2, <2>4
    <3> DEFINE d == NewDict
               t == EmptyMap
    <3>2. f = [g EXCEPT !.dict = d] /\ DictFits(d) /\ IsMap(t, Int) /\ InDict(d) = MapInto(Held(g), t)
      BY <2>1, <2>2, <2>3, <3>1
    <3> HIDE DEF d, t
    <3>3. StringLike(f, g) /\ f.dict # NULL /\ GroupsOf(f) = MapInto(GroupsOf(g), t)
      BY <3>2, DictGrows
    <3> QED BY <3>3 DEF t
  <2>6. IsMap(GroupsOf(g), Keys)
    BY HeldIsMap DEF Fits
  <2>7. MapInto(GroupsOf(g), EmptyMap) = GroupsOf(g)
    BY <2>6, JoinEmpty
  <2> QED BY <2>5, <2>7
<1> QED BY <1>1, <1>2

LEMMA AddStringRowFits ==
  ASSUME NilIsNoTable, NEW g, g.kind = "string", StringFits(g), g.dict # NULL, NEW r \in Rows,
         NEW f, f = AddStringRow(g, r)
  PROVE  /\ StringLike(f, g) /\ f.dict # NULL
         /\ GroupsOf(f) = Into(GroupsOf(g), r.key, MeasureAt(r, g.hasVal))
<1> DEFINE m == MeasureAt(r, g.hasVal)
<1>1. m \in Measures
  BY MeasureType
<1>2. IsMap(Held(g), Int) /\ Held(g) = InDict(g.dict) /\ DictFits(g.dict)
  BY StringHeldIsMap DEF Held, StringFits
<1>3. CASE r.key = NULL
  <2>1. f = [g EXCEPT !.hasNull = TRUE, !.nullKey = Plus(g.nullKey, m)]
    BY <1>3 DEF AddStringRow
  <2> HIDE DEF m
  <2>2. /\ f.kind = g.kind /\ f.hasVal = g.hasVal /\ f.dict = g.dict
        /\ f.nullKey = Plus(g.nullKey, m) /\ f.hasNull = TRUE /\ DOMAIN f = DOMAIN g
    BY <2>1 DEF StringFits
  <2>3. IsMap(Held(g), Keys) /\ NullFits(g)
    BY <1>2, MapWidens DEF Keys, StringFits
  <2>4. Held(f) = Held(g)
    BY <2>2 DEF Held
  <2>5. NullFits(f) /\ GroupsOf(f) = Into(GroupsOf(g), NULL, m)
    BY <1>1, <2>2, <2>3, <2>4, NullRowGrows
  <2>6. StringLike(f, g) /\ f.dict # NULL
    BY <2>2, <2>5 DEF StringLike, StringFits
  <2> QED BY <1>3, <2>5, <2>6 DEF m
<1>4. CASE r.key # NULL
  <2> DEFINE d == DictInto(g.dict, r.key, m)
             one == [x \in {r.key} |-> m]
  <2>1. r.key \in Int
    BY <1>4 DEF Rows
  <2>2. f = [g EXCEPT !.dict = d]
    BY <1>4 DEF AddStringRow
  <2>3. DictFits(d) /\ InDict(d) = Into(InDict(g.dict), r.key, m)
    <3> HIDE DEF m
    <3> QED BY <1>1, <1>2, <2>1, DictIntoFits
  <2>4. IsMap(one, Int)
    BY <1>1, <2>1, SingleIsMap
  <2>5. DictFits(d) /\ InDict(d) = MapInto(InDict(g.dict), one)
    <3> HIDE DEF d, m
    <3> QED BY <2>3, IntoIsJoin
  <2> HIDE DEF d, one, m
  <2>6. StringLike(f, g) /\ f.dict # NULL /\ GroupsOf(f) = MapInto(GroupsOf(g), one)
    BY <1>2, <2>2, <2>4, <2>5, DictGrows
  <2> QED BY <2>6, IntoIsJoin DEF one, m
<1> QED BY <1>3, <1>4

StringRows == INSTANCE FoldLemmas WITH Step <- AddStringRow, Holds <- OnKeys

LEMMA AddStringRowsFit ==
  ASSUME NilIsNoTable, NEW g, g.kind = "string", StringFits(g), g.dict # NULL, NEW q \in Seq(Rows),
         NEW f, f = FoldLeft(AddStringRow, g, q)
  PROVE  StringLike(f, g) /\ GroupsOf(f) = RefRows(GroupsOf(g), q, 0, g.hasVal)
<1> DEFINE n == Len(q)
           e == RefEntries(q, 0, g.hasVal)
<1>1. n \in Nat /\ DOMAIN q = 1 .. n /\ DOMAIN e = 1 .. n /\ \A k \in 1 .. n : q[k] \in Rows
  BY DEF RefEntries
<1>2. f = StringRows!FoldOf(g, q)
  BY DEF StringRows!FoldOf, StringRows!Latest, FoldLeft, MapThenFoldSet, Max
<1>3. \A k \in 1 .. n : e[k].key = q[k].key /\ e[k].measure = MeasureAt(q[k], g.hasVal)
  BY <1>1 DEF RefEntries, Entry, KeyOf
<1> HIDE DEF n, e
<1>4. PICK h : StringRows!Trace(h, g, q, n) /\ StringRows!FoldOf(g, q) = h[n]
  BY <1>1, StringRows!FoldSteps
<1> DEFINE Good(k) == StringLike(h[k], g) /\ h[k].dict # NULL
           S == {k \in 0 .. n : Good(k)}
<1>5. 0 \in S
  BY <1>1, <1>4 DEF StringRows!Trace, StringLike
<1>6. ASSUME NEW k \in 1 .. n, Good(k - 1)
      PROVE  /\ Good(k)
             /\ GroupsOf(h[k]) = Into(GroupsOf(h[k - 1]), e[k].key, e[k].measure)
  <2> DEFINE x == h[k - 1]
             y == h[k]
  <2>1. y = AddStringRow(x, q[k]) /\ q[k] \in Rows
    BY <1>1, <1>4 DEF StringRows!Trace
  <2>2. x.kind = "string" /\ StringFits(x) /\ x.dict # NULL /\ x.hasVal = g.hasVal
    BY <1>6 DEF StringLike
  <2> HIDE DEF x, y
  <2>3. /\ StringLike(y, x) /\ y.dict # NULL
        /\ GroupsOf(y) = Into(GroupsOf(x), q[k].key, MeasureAt(q[k], x.hasVal))
    BY <2>1, <2>2, AddStringRowFits
  <2>4. StringLike(y, g)
    BY <2>2, <2>3 DEF StringLike
  <2>5. GroupsOf(y) = Into(GroupsOf(x), e[k].key, e[k].measure)
    BY <1>3, <2>2, <2>3
  <2> QED BY <2>3, <2>4, <2>5 DEF x, y
<1>7. \A k \in 1 .. n : k - 1 \in S => k \in S
  <2>1. ASSUME NEW k \in 1 .. n, k - 1 \in S PROVE k \in S
    <3>1. Good(k - 1)
      BY <2>1
    <3>2. Good(k)
      BY <1>6, <3>1
    <3> QED BY <1>1, <3>2
  <2> QED BY <2>1
<1>8. 0 .. n \subseteq S
  <2> HIDE DEF S
  <2> QED BY <1>1, <1>5, <1>7, StringRows!UpTo
<1>9. \A k \in 0 .. n : Good(k)
  BY <1>8
<1> HIDE DEF Good
<1>10. \A k \in 1 .. n : GroupsOf(h[k]) = Into(GroupsOf(h[k - 1]), e[k].key, e[k].measure)
  <2>1. \A k \in 1 .. n : k - 1 \in 0 .. n
    BY <1>1
  <2> QED BY <1>6, <1>9, <2>1
<1>11. GroupsOf(h[n]) = FoldLeft(IntoMap, GroupsOf(h[0]), e)
  BY <1>1, <1>10, GroupsFollow
<1>12. h[0] = g /\ h[n] = f /\ Good(n)
  <2>1. n \in 0 .. n
    BY <1>1
  <2> QED BY <1>2, <1>4, <1>9, <2>1 DEF StringRows!Trace
<1> QED BY <1>11, <1>12 DEF RefRows, IntoAll, e, Good

LEMMA AddStringsFits ==
  ASSUME NilIsNoTable, NEW g, g.kind = "string", StringFits(g), NEW b, Selected(b) \in Seq(Rows),
         NEW f, f = AddStrings(g, b)
  PROVE  StringLike(f, g) /\ GroupsOf(f) = RefRows(GroupsOf(g), Selected(b), 0, g.hasVal)
<1>1. CASE Selected(b) = << >>
  <2>1. f = g
    BY <1>1 DEF AddStrings
  <2>2. RefRows(GroupsOf(g), Selected(b), 0, g.hasVal) = GroupsOf(g)
    BY <1>1, RefNoRows
  <2> QED BY <2>1, <2>2 DEF StringLike
<1>2. CASE Selected(b) # << >>
  <2> DEFINE t == EnsureDict(g)
  <2>1. StringLike(t, g) /\ t.dict # NULL /\ GroupsOf(t) = GroupsOf(g)
    BY EnsureDictFits
  <2>2. f = FoldLeft(AddStringRow, t, Selected(b))
    BY <1>2 DEF AddStrings
  <2> HIDE DEF t
  <2>3. StringLike(f, t) /\ GroupsOf(f) = RefRows(GroupsOf(t), Selected(b), 0, t.hasVal)
    BY <2>1, <2>2, AddStringRowsFit DEF StringLike
  <2> QED BY <2>1, <2>3 DEF StringLike
<1> QED BY <1>1, <1>2

Dicts == INSTANCE FoldLemmas WITH Step <- LAMBDA x, e : DictInto(x, e.key, e.measure), Holds <- OnKeys

\* The entries of a dictionary are its groups, in the order they came in.
LEMMA DictMergeFits ==
  ASSUME NEW t, DictFits(t), NEW s, DictFits(s)
  PROVE  /\ DictFits(DictMerge(t, s))
         /\ InDict(DictMerge(t, s)) = MapInto(InDict(t), InDict(s))
<1> DEFINE e == [i \in DOMAIN s.keys |-> Entry(s.keys[i], s.pay[i])]
           c == Len(s.keys)
<1>1. /\ c \in Nat /\ DOMAIN s.keys = 1 .. c /\ DOMAIN e = 1 .. c
      /\ s.keys \in [1 .. c -> Int] /\ s.pay \in [1 .. c -> Measures]
  BY DEF DictFits
<1>2. /\ IsMap(InDict(t), Int) /\ IsMap(InDict(s), Int)
      /\ DOMAIN InDict(s) = Range(s.keys)
  BY DictIsMap
<1>3. \A i \in 1 .. c : e[i].key = s.keys[i] /\ e[i].measure = s.pay[i]
  BY <1>1 DEF Entry
<1>4. Lists(e, c, InDict(s))
  <2> HIDE DEF e, c
  <2>1. \A i \in 1 .. c : s.keys[i] \in DOMAIN s.ids /\ s.ids[s.keys[i]] = i
    BY <1>1 DEF DictFits, Range
  <2>2. \A i \in 1 .. c : InDict(s)[s.keys[i]] = s.pay[i]
    BY <2>1 DEF InDict
  <2>3. \A i, j \in 1 .. c : s.keys[i] = s.keys[j] => i = j
    BY <2>1
  <2>4. Range(s.keys) = {s.keys[i] : i \in 1 .. c}
    BY <1>1 DEF Range
  <2>5. {s.keys[i] : i \in 1 .. c} = {e[i].key : i \in 1 .. c}
    BY <1>3
  <2>6. DOMAIN InDict(s) = {e[i].key : i \in 1 .. c}
    BY <1>2, <2>4, <2>5
  <2>7. \A i, j \in 1 .. c : e[i].key = e[j].key => i = j
    BY <1>3, <2>3
  <2>8. \A i \in 1 .. c : e[i].measure = InDict(s)[e[i].key]
    BY <1>3, <2>2
  <2> QED BY <1>1, <2>6, <2>7, <2>8 DEF Lists
<1>5. DictMerge(t, s) = Dicts!FoldOf(t, e)
  BY DEF DictMerge, Dicts!FoldOf, Dicts!Latest, FoldLeft, MapThenFoldSet, Max
<1> HIDE DEF e, c
<1>6. PICK h : Dicts!Trace(h, t, e, c) /\ Dicts!FoldOf(t, e) = h[c]
  BY <1>1, Dicts!FoldSteps
<1> DEFINE S == {k \in 0 .. c : DictFits(h[k])}
<1>7. 0 \in S
  BY <1>1, <1>6 DEF Dicts!Trace
<1>8. ASSUME NEW k \in 1 .. c, DictFits(h[k - 1])
      PROVE  /\ DictFits(h[k])
             /\ InDict(h[k]) = Into(InDict(h[k - 1]), e[k].key, e[k].measure)
  <2>1. h[k] = DictInto(h[k - 1], e[k].key, e[k].measure)
    BY <1>6 DEF Dicts!Trace
  <2>2. e[k].key \in Int /\ e[k].measure \in Measures
    BY <1>1, <1>3
  <2> QED BY <1>8, <2>1, <2>2, DictIntoFits
<1>9. \A k \in 1 .. c : k - 1 \in S => k \in S
  BY <1>1, <1>8
<1>10. 0 .. c \subseteq S
  <2> HIDE DEF S
  <2> QED BY <1>1, <1>7, <1>9, Dicts!UpTo
<1> DEFINE g == [k \in 0 .. c |-> InDict(h[k])]
<1>11. \A k \in 1 .. c : g[k] = IntoMap(g[k - 1], e[k])
  <2>1. \A k \in 1 .. c : k \in 0 .. c /\ k - 1 \in 0 .. c
    BY <1>1
  <2> QED BY <1>8, <1>10, <2>1 DEF IntoMap
<1>12. g[0] = InDict(t) /\ g[c] = InDict(h[c])
  <2>1. 0 \in 0 .. c /\ c \in 0 .. c /\ h[0] = t
    BY <1>1, <1>6 DEF Dicts!Trace
  <2> QED BY <2>1
<1> HIDE DEF g
<1>13. Maps!Trace(g, InDict(t), e, c)
  BY <1>11, <1>12 DEF Maps!Trace
<1>14. Maps!FoldOf(InDict(t), e) = InDict(h[c])
  BY <1>1, <1>12, <1>13, Maps!TraceIsFold
<1>15. FoldLeft(IntoMap, InDict(t), e) = MapInto(InDict(t), InDict(s))
  BY <1>1, <1>2, <1>4, EntriesJoin
<1>16. DictFits(h[c])
  <2>1. c \in 0 .. c
    BY <1>1
  <2> QED BY <1>10, <2>1
<1> QED BY <1>5, <1>6, <1>14, <1>15, <1>16, IntoMapFold

LEMMA MergeStringsFits ==
  ASSUME NilIsNoTable, NEW g, g.kind = "string", Fits(g), NEW o, o.kind = "string", Fits(o),
         NEW f, f = MergeStrings(g, o)
  PROVE  Like(f, g) /\ GroupsOf(f) = MapInto(GroupsOf(g), GroupsOf(o))
<1>1. StringFits(g) /\ StringFits(o) /\ NullFits(o) /\ IsMap(GroupsOf(g), Keys)
  BY HeldIsMap DEF Fits, StringFits
<1>2. CASE o.dict = NULL /\ ~o.hasNull
  <2>1. f = g
    BY <1>2 DEF MergeStrings
  <2>2. Held(o) = EmptyMap /\ NullGroup(o) = EmptyMap
    BY <1>2 DEF Held, NullGroup
  <2>3. IsMap(EmptyMap, Keys)
    BY EmptyIsMap
  <2>4. GroupsOf(o) = EmptyMap /\ MapInto(GroupsOf(g), EmptyMap) = GroupsOf(g)
    BY <1>1, <2>2, <2>3, JoinEmpty DEF GroupsOf
  <2> QED BY <2>1, <2>4 DEF Like
<1>3. CASE ~(o.dict = NULL /\ ~o.hasNull)
  <2> DEFINE a == EnsureDict(g)
             t == IF o.dict = NULL THEN a ELSE [a EXCEPT !.dict = DictMerge(@, o.dict)]
  <2>1. StringLike(a, g) /\ a.dict # NULL /\ GroupsOf(a) = GroupsOf(g)
    BY <1>1, EnsureDictFits
  <2>2. f = MergeNull(t, o)
    BY <1>3 DEF MergeStrings
  <2>3. StringLike(t, a) /\ GroupsOf(t) = MapInto(GroupsOf(a), Held(o))
    <3>1. CASE o.dict = NULL
      <4>1. t = a /\ Held(o) = EmptyMap
        BY <3>1 DEF Held
      <4>2. MapInto(GroupsOf(a), EmptyMap) = GroupsOf(a)
        BY <1>1, <2>1, JoinEmpty
      <4> QED BY <2>1, <4>1, <4>2 DEF StringLike
    <3>2. CASE o.dict # NULL
      <4> DEFINE d == DictMerge(a.dict, o.dict)
      <4>1. t = [a EXCEPT !.dict = d]
        BY <3>2
      <4> HIDE DEF t, a
      <4>2. DictFits(a.dict) /\ DictFits(o.dict) /\ Held(a) = InDict(a.dict) /\ Held(o) = InDict(o.dict)
        BY <1>1, <2>1, <3>2 DEF StringLike, StringFits, Held
      <4>3. DictFits(d) /\ InDict(d) = MapInto(Held(a), Held(o))
        BY <4>2, DictMergeFits
      <4>4. IsMap(Held(o), Int) /\ a.kind = "string" /\ StringFits(a)
        BY <1>1, <2>1, StringHeldIsMap DEF StringLike
      <4> HIDE DEF d
      <4> QED BY <4>1, <4>3, <4>4, DictGrows
    <3> QED BY <3>1, <3>2
  <2> HIDE DEF a, t
  <2>4. StringLike(t, g) /\ t.kind = "string"
    BY <2>1, <2>3 DEF StringLike
  <2>5. Like(t, g)
    BY <2>4, StringIsLike
  <2>6. Like(f, t) /\ GroupsOf(f) = MapInto(GroupsOf(t), NullGroup(o))
    BY <1>1, <2>2, <2>4, <2>5, MergeNullFits DEF Like
  <2>7. MapInto(MapInto(GroupsOf(g), Held(o)), NullGroup(o)) = MapInto(GroupsOf(g), GroupsOf(o))
    BY <1>1, TablesThenNull
  <2> QED BY <2>1, <2>3, <2>5, <2>6, <2>7 DEF Like
<1> QED BY <1>2, <1>3

LEMMA ResetStringsFits ==
  ASSUME NilIsNoTable, NEW g, g.kind = "string", Fits(g), NEW f, f = ResetStrings(g)
  PROVE  Like(f, g) /\ GroupsOf(f) = EmptyMap
<1>1. /\ f.kind = g.kind /\ f.hasVal = g.hasVal /\ DOMAIN f = DOMAIN g
      /\ f.dict = (IF g.dict = NULL THEN NULL ELSE NewDict)
      /\ f.nullKey = Zero /\ f.hasNull = FALSE
  BY DEF ResetStrings, Fits, StringFits
<1>2. Zero \in Measures
  BY DEF Measures, Zero
<1>3. NullFits(f) /\ NullGroup(f) = EmptyMap
  BY <1>1, <1>2 DEF NullFits, NullGroup
<1>4. DictFits(NewDict) /\ InDict(NewDict) = EmptyMap /\ NewDict # NULL
  BY NewDictFits, DictNotNil
<1>5. StringFits(f)
  BY <1>1, <1>3, <1>4 DEF Fits, StringFits
<1>6. Held(f) = EmptyMap
  BY <1>1, <1>4 DEF Held
<1>7. MapInto(EmptyMap, EmptyMap) = EmptyMap
  BY EmptyIsMap, JoinEmpty
<1> QED BY <1>1, <1>3, <1>5, <1>6, <1>7 DEF Like, Fits, ModOf, HasValOf, GroupsOf

LEMMA DictReports ==
  ASSUME NEW g, g.kind = "string", StringFits(g)
  PROVE  Report(LiveGroups(g), Held(g))
<1>1. CASE g.dict = NULL
  <2>1. LiveGroups(g) = {} /\ Held(g) = EmptyMap /\ DOMAIN EmptyMap = {}
    BY <1>1 DEF LiveGroups, Held, EmptyMap
  <2> QED BY <2>1 DEF Report
<1>2. CASE g.dict # NULL
  <2> DEFINE d == g.dict
             C == {[part |-> n, key |-> d.keys[n], measure |-> d.pay[n]] : n \in DOMAIN d.keys}
  <2>1. LiveGroups(g) = C /\ Held(g) = InDict(d)
    BY <1>2 DEF LiveGroups, Held
  <2>2. DictFits(d)
    BY <1>2 DEF StringFits
  <2>3. \A n \in DOMAIN d.keys : d.keys[n] \in DOMAIN d.ids /\ d.ids[d.keys[n]] = n
    BY <2>2 DEF DictFits, Range
  <2>4. DOMAIN InDict(d) = Range(d.keys) /\ DOMAIN InDict(d) = DOMAIN d.ids
    BY <2>2, DictIsMap DEF InDict
  <2>5. \A r \in C : r.key \in DOMAIN InDict(d) /\ r.measure = InDict(d)[r.key]
    BY <2>3 DEF InDict
  <2>6. \A k \in Range(d.keys) : \E r \in C : r.key = k
    <3> SUFFICES ASSUME NEW k \in Range(d.keys) PROVE \E r \in C : r.key = k
      OBVIOUS
    <3>1. PICK n \in DOMAIN d.keys : d.keys[n] = k
      BY DEF Range
    <3>2. [part |-> n, key |-> d.keys[n], measure |-> d.pay[n]] \in C
      OBVIOUS
    <3> QED BY <3>1, <3>2
  <2>7. \A r, x \in C : r.key = x.key => r = x
    BY <2>3
  <2> HIDE DEF C
  <2> QED BY <2>1, <2>4, <2>5, <2>6, <2>7 DEF Report
<1> QED BY <1>1, <1>2

-----------------------------------------------------------------------------
(* The total of a map, which does not depend on the order it is taken in.   *)

Pick(s) == CHOOSE x \in s : TRUE

SumStep(u, t, s) == IF s = {} THEN Zero ELSE Plus(t[Pick(s)], u[s \ {Pick(s)}])

\* The totals of all parts of S.
SumTable(u, t, S) == u = [s \in SUBSET S |-> IF s = {} THEN Zero ELSE Plus(t[Pick(s)], u[s \ {Pick(s)}])]

LEMMA PickIn == ASSUME NEW s, s # {} PROVE Pick(s) \in s
BY DEF Pick

LEMMA SmallerPart ==
  ASSUME NEW S, IsFiniteSet(S), NEW s \in SUBSET S, NEW x \in s
  PROVE  /\ s \ {x} \in SUBSET S
         /\ Cardinality(s) \in Nat \ {0}
         /\ Cardinality(s \ {x}) = Cardinality(s) - 1
<1>1. IsFiniteSet(s)
  BY FS_Subset
<1>2. Cardinality(s \ {x}) = Cardinality(s) - 1 /\ Cardinality(s) \in Nat
  BY <1>1, FS_RemoveElement, FS_CardinalityType
<1>3. Cardinality(s) # 0
  BY <1>1, FS_EmptySet
<1> QED BY <1>2, <1>3

LEMMA SumTableExists ==
  ASSUME NEW S, IsFiniteSet(S), NEW t
  PROVE  \E u : SumTable(u, t, S)
<1> DEFINE n == Cardinality(S)
           Parts(k) == {s \in SUBSET S : Cardinality(s) <= k}
           Upto(u, k) == u = [s \in Parts(k) |-> SumStep(u, t, s)]
           Q == {k \in Nat : \E u : Upto(u, k)}
<1>1. n \in Nat /\ \A s \in SUBSET S : Cardinality(s) \in Nat /\ Cardinality(s) <= n
  BY FS_Subset, FS_CardinalityType
<1>2. 0 \in Q
  <2> DEFINE g == [s \in Parts(0) |-> Zero]
  <2>1. \A s \in Parts(0) : s = {}
    BY <1>1, FS_Subset, FS_EmptySet
  <2>2. Upto(g, 0)
    BY <2>1 DEF SumStep
  <2> QED BY <2>2
<1>3. ASSUME NEW k \in 1 .. n, k - 1 \in Q PROVE k \in Q
  <2>1. PICK u : Upto(u, k - 1)
    BY <1>3
  <2> DEFINE g == [s \in Parts(k) |-> IF Cardinality(s) = k THEN Plus(t[Pick(s)], u[s \ {Pick(s)}]) ELSE u[s]]
  <2>2. ASSUME NEW s \in Parts(k) PROVE g[s] = SumStep(g, t, s)
    <3>1. CASE s = {}
      <4>1. Cardinality(s) = 0
        BY <3>1, FS_EmptySet
      <4>2. s \in Parts(k - 1) /\ Cardinality(s) # k
        BY <4>1
      <4>3. u[s] = SumStep(u, t, s)
        BY <2>1, <4>2
      <4>4. g[s] = u[s]
        BY <4>2
      <4> QED BY <3>1, <4>3, <4>4 DEF SumStep
    <3>2. CASE s # {}
      <4> DEFINE r == s \ {Pick(s)}
      <4>1. Pick(s) \in s
        BY <3>2, PickIn
      <4>2. r \in SUBSET S /\ Cardinality(r) = Cardinality(s) - 1 /\ Cardinality(s) \in Nat
        BY <4>1, SmallerPart
      <4>3. r \in Parts(k - 1) /\ r \in Parts(k) /\ Cardinality(r) # k
        BY <1>1, <4>2
      <4>4. g[r] = u[r]
        BY <4>3
      <4>5. g[s] = Plus(t[Pick(s)], u[r])
        <5>1. CASE Cardinality(s) = k
          BY <5>1
        <5>2. CASE Cardinality(s) # k
          <6>1. s \in Parts(k - 1)
            BY <1>1, <5>2
          <6>2. u[s] = SumStep(u, t, s)
            BY <2>1, <6>1
          <6> QED BY <3>2, <5>2, <6>2 DEF SumStep
        <5> QED BY <5>1, <5>2
      <4> HIDE DEF g
      <4> QED BY <3>2, <4>4, <4>5 DEF SumStep
    <3> QED BY <3>1, <3>2
  <2>3. Upto(g, k)
    BY <2>2
  <2> HIDE DEF Upto
  <2> QED BY <2>3
<1>4. 0 .. n \subseteq Q
  <2> HIDE DEF Q, n
  <2> QED BY <1>1, <1>2, <1>3, Maps!UpTo
<1>5. n \in Q
  <2> HIDE DEF Q, n
  <2> QED BY <1>1, <1>4
<1>6. Parts(n) = SUBSET S
  BY <1>1
<1>7. PICK u : Upto(u, n)
  BY <1>5
<1>8. SumTable(u, t, S)
  BY <1>6, <1>7 DEF SumTable, SumStep
<1> QED BY <1>8

LEMMA TotalTable ==
  ASSUME NEW t, IsFiniteSet(DOMAIN t)
  PROVE  \E u : SumTable(u, t, DOMAIN t) /\ Total(t) = u[DOMAIN t]
<1> DEFINE u == CHOOSE u : SumTable(u, t, DOMAIN t)
<1>1. SumTable(u, t, DOMAIN t)
  BY SumTableExists
<1>2. Total(t) = u[DOMAIN t]
  BY DEF Total, FoldFunction, FoldFunctionOnSet, MapThenFoldSet, SumTable, Pick
<1> QED BY <1>1, <1>2

SumTableSteps(u, t, S) ==
  /\ u[{}] = Zero
  /\ \A s \in SUBSET S : s # {} => u[s] = Plus(t[Pick(s)], u[s \ {Pick(s)}])

LEMMA SumTableAt ==
  ASSUME NEW u, NEW t, NEW S, SumTable(u, t, S)
  PROVE  SumTableSteps(u, t, S)
<1>1. {} \in SUBSET S
  OBVIOUS
<1> QED BY <1>1 DEF SumTable, SumTableSteps

\* The element picked first makes no difference.
LEMMA SumTableOrder ==
  ASSUME NEW S, IsFiniteSet(S), NEW t, \A x \in S : t[x] \in Measures, NEW u, SumTable(u, t, S)
  PROVE  \A s \in SUBSET S : /\ u[s] \in Measures
                             /\ \A x \in s : u[s] = Plus(t[x], u[s \ {x}])
<1> DEFINE Good(s) == /\ u[s] \in Measures
                      /\ \A x \in s : u[s] = Plus(t[x], u[s \ {x}])
           n == Cardinality(S)
           Q == {k \in Nat : \A s \in SUBSET S : Cardinality(s) <= k => Good(s)}
<1>1. n \in Nat /\ \A s \in SUBSET S : Cardinality(s) \in Nat /\ Cardinality(s) <= n
  BY FS_Subset, FS_CardinalityType
<1>2. u[{}] = Zero /\ \A s \in SUBSET S : s # {} => u[s] = Plus(t[Pick(s)], u[s \ {Pick(s)}])
  BY SumTableAt DEF SumTableSteps
<1>3. Good({})
  BY <1>2 DEF Zero, Measures
<1>4. 0 \in Q
  <2>1. \A s \in SUBSET S : Cardinality(s) <= 0 => s = {}
    BY <1>1, FS_Subset, FS_EmptySet
  <2> HIDE DEF Good
  <2> QED BY <1>3, <2>1
<1>5. ASSUME NEW k \in 1 .. n, k - 1 \in Q PROVE k \in Q
  <2> SUFFICES ASSUME NEW s \in SUBSET S, Cardinality(s) <= k PROVE Good(s)
    OBVIOUS
  <2>1. \A r \in SUBSET S : Cardinality(r) <= k - 1 => Good(r)
    BY <1>5
  <2>2. CASE s = {}
    <3> HIDE DEF Good
    <3> QED BY <1>3, <2>2
  <2>3. CASE s # {}
    <3> DEFINE c == Pick(s)
               r == s \ {c}
    <3>1. c \in s
      BY <2>3, PickIn
    <3>2. r \in SUBSET S /\ Cardinality(r) = Cardinality(s) - 1 /\ Cardinality(s) \in Nat
      BY <3>1, SmallerPart
    <3>3. Good(r)
      <4>1. Cardinality(r) <= k - 1
        BY <1>1, <3>2
      <4> HIDE DEF Good, r
      <4> QED BY <2>1, <3>2, <4>1
    <3>4. u[s] = Plus(t[c], u[r])
      BY <1>2, <2>3
    <3> HIDE DEF c
    <3>5. t[c] \in Measures /\ u[r] \in Measures
      BY <3>1, <3>3
    <3>6. u[s] \in Measures
      BY <3>4, <3>5, PlusLaws
    <3>7. ASSUME NEW x \in s PROVE u[s] = Plus(t[x], u[s \ {x}])
      <4>1. CASE x = c
        BY <3>4, <4>1
      <4>2. CASE x # c
        <5> DEFINE p == s \ {x}
                   q == (s \ {c}) \ {x}
        <5>1. x \in r /\ u[r] = Plus(t[x], u[r \ {x}])
          BY <3>3, <4>2
        <5>2. p \in SUBSET S /\ Cardinality(p) = Cardinality(s) - 1
          BY SmallerPart
        <5>3. Good(p)
          <6>1. Cardinality(p) <= k - 1
            BY <1>1, <3>2, <5>2
          <6> HIDE DEF Good, p
          <6> QED BY <2>1, <5>2, <6>1
        <5>4. u[p] = Plus(t[c], u[p \ {c}])
          BY <3>1, <4>2, <5>3
        <5>5. p \ {c} = q /\ r \ {x} = q
          OBVIOUS
        <5>6. q \in SUBSET S /\ Cardinality(q) <= k - 1
          <6>1. Cardinality(q) = Cardinality(r) - 1 /\ q \in SUBSET S
            BY <3>2, <5>1, SmallerPart
          <6> QED BY <3>2, <6>1
        <5>7. u[q] \in Measures
          BY <2>1, <5>6
        <5>8. t[x] \in Measures
          OBVIOUS
        <5> HIDE DEF Good, r, p, q
        <5>9. u[s] = Plus(t[c], Plus(t[x], u[q])) /\ u[p] = Plus(t[c], u[q])
          BY <3>4, <5>1, <5>4, <5>5
        <5>10. Plus(t[c], Plus(t[x], u[q])) = Plus(t[x], Plus(t[c], u[q]))
          BY <3>5, <5>7, <5>8 DEF Plus, Measures
        <5> QED BY <5>9, <5>10 DEF p
      <4> QED BY <4>1, <4>2
    <3> QED BY <3>6, <3>7
  <2> QED BY <2>2, <2>3
<1>6. 0 .. n \subseteq Q
  <2> HIDE DEF Q, n
  <2> QED BY <1>1, <1>4, <1>5, Maps!UpTo
<1>7. n \in Q
  <2> HIDE DEF Q, n
  <2> QED BY <1>1, <1>6
<1>8. \A s \in SUBSET S : Good(s)
  BY <1>1, <1>7
<1> QED BY <1>8

\* Tables agree where their maps do.
LEMMA SumTablesAgree ==
  ASSUME NEW S, NEW t, NEW u, SumTable(u, t, S), NEW T, NEW w, NEW v, SumTable(v, w, T),
         NEW D, IsFiniteSet(D), D \subseteq S, D \subseteq T, \A x \in D : t[x] = w[x]
  PROVE  u[D] = v[D]
<1> DEFINE n == Cardinality(D)
           Q == {k \in Nat : \A s \in SUBSET D : Cardinality(s) <= k => u[s] = v[s]}
<1>1. n \in Nat /\ \A s \in SUBSET D : Cardinality(s) \in Nat /\ Cardinality(s) <= n
  BY FS_Subset, FS_CardinalityType
<1>2. u[{}] = Zero /\ \A s \in SUBSET D : s # {} => u[s] = Plus(t[Pick(s)], u[s \ {Pick(s)}])
  <2>1. SumTableSteps(u, t, S)
    BY SumTableAt
  <2> QED BY <2>1 DEF SumTableSteps
<1>3. v[{}] = Zero /\ \A s \in SUBSET D : s # {} => v[s] = Plus(w[Pick(s)], v[s \ {Pick(s)}])
  <2>1. SumTableSteps(v, w, T)
    BY SumTableAt
  <2> QED BY <2>1 DEF SumTableSteps
<1>4. 0 \in Q
  <2>1. \A s \in SUBSET D : Cardinality(s) <= 0 => s = {}
    BY <1>1, FS_Subset, FS_EmptySet
  <2> QED BY <1>2, <1>3, <2>1
<1>5. ASSUME NEW k \in 1 .. n, k - 1 \in Q PROVE k \in Q
  <2> SUFFICES ASSUME NEW s \in SUBSET D, Cardinality(s) <= k PROVE u[s] = v[s]
    OBVIOUS
  <2>1. CASE s = {}
    BY <1>2, <1>3, <2>1
  <2>2. CASE s # {}
    <3> DEFINE c == Pick(s)
               r == s \ {c}
    <3>1. c \in s
      BY <2>2, PickIn
    <3>2. r \in SUBSET D /\ Cardinality(r) = Cardinality(s) - 1 /\ Cardinality(s) \in Nat
      BY <3>1, SmallerPart
    <3>3. u[r] = v[r]
      BY <1>5, <3>2
    <3>4. u[s] = Plus(t[c], u[r]) /\ v[s] = Plus(w[c], v[r])
      BY <1>2, <1>3, <2>2
    <3> HIDE DEF c, r
    <3> QED BY <3>1, <3>3, <3>4
  <2> QED BY <2>1, <2>2
<1>6. 0 .. n \subseteq Q
  <2> HIDE DEF Q, n
  <2> QED BY <1>1, <1>4, <1>5, Maps!UpTo
<1>7. n \in Q
  <2> HIDE DEF Q, n
  <2> QED BY <1>1, <1>6
<1> QED BY <1>1, <1>7

LEMMA TotalType ==
  ASSUME NEW K, NEW t, IsMap(t, K)
  PROVE  Total(t) \in Measures
<1>1. PICK u : SumTable(u, t, DOMAIN t) /\ Total(t) = u[DOMAIN t]
  BY TotalTable DEF IsMap
<1>2. IsFiniteSet(DOMAIN t) /\ \A x \in DOMAIN t : t[x] \in Measures
  BY DEF IsMap
<1>3. \A s \in SUBSET DOMAIN t : u[s] \in Measures
  BY <1>1, <1>2, SumTableOrder
<1> QED BY <1>1, <1>3

LEMMA TotalEmpty == Total(EmptyMap) = Zero
<1>1. DOMAIN EmptyMap = {} /\ IsFiniteSet({})
  BY EmptyIsMap, FS_EmptySet
<1>2. PICK u : SumTable(u, EmptyMap, DOMAIN EmptyMap) /\ Total(EmptyMap) = u[DOMAIN EmptyMap]
  BY <1>1, TotalTable
<1> QED BY <1>1, <1>2, SumTableAt DEF SumTableSteps

\* One more entry is that much more in total.
LEMMA TotalInto ==
  ASSUME NEW K, NEW t, IsMap(t, K), NEW k \in K, NEW m \in Measures
  PROVE  Total(Into(t, k, m)) = Plus(Total(t), m)
<1> DEFINE w == Into(t, k, m)
           D == DOMAIN t
           R == DOMAIN t \ {k}
<1>1. IsMap([x \in {k} |-> m], K)
  BY SingleIsMap
<1>2. IsMap(w, K)
  BY <1>1, JoinIsMap, IntoIsJoin
<1>3. DOMAIN w = D \cup {k}
  BY JoinDomain, IntoIsJoin
<1>4. /\ \A x \in R : w[x] = t[x]
      /\ k \notin D => w[k] = m
      /\ k \in D => w[k] = Plus(t[k], m)
  BY IntoIsJoin DEF MapInto
<1> HIDE DEF w
<1>5. PICK u : SumTable(u, t, D) /\ Total(t) = u[D]
  BY TotalTable DEF IsMap
<1>6. PICK v : SumTable(v, w, DOMAIN w) /\ Total(w) = v[DOMAIN w]
  BY <1>2, TotalTable DEF IsMap
<1>7. IsFiniteSet(D) /\ \A x \in D : t[x] \in Measures
  BY DEF IsMap
<1>8. IsFiniteSet(DOMAIN w) /\ \A x \in DOMAIN w : w[x] \in Measures
  BY <1>2 DEF IsMap
<1>9. IsFiniteSet(R) /\ R \subseteq D /\ R \subseteq DOMAIN w
  BY <1>3, <1>7, FS_Subset
<1>10. u[R] = v[R]
  BY <1>4, <1>5, <1>6, <1>9, SumTablesAgree
<1>11. u[R] \in Measures /\ (k \in D => u[D] = Plus(t[k], u[R]))
  <2>1. \A s \in SUBSET D : u[s] \in Measures /\ \A x \in s : u[s] = Plus(t[x], u[s \ {x}])
    BY <1>5, <1>7, SumTableOrder
  <2> QED BY <1>9, <2>1
<1>12. k \in DOMAIN w /\ DOMAIN w \ {k} = R
  BY <1>3
<1>13. v[DOMAIN w] = Plus(w[k], v[R])
  <2>1. \A s \in SUBSET DOMAIN w : v[s] \in Measures /\ \A x \in s : v[s] = Plus(w[x], v[s \ {x}])
    BY <1>6, <1>8, SumTableOrder
  <2> QED BY <1>12, <2>1
<1>14. CASE k \in D
  <2>1. t[k] \in Measures
    BY <1>7, <1>14
  <2>2. Total(w) = Plus(Plus(t[k], m), u[R]) /\ Total(t) = Plus(t[k], u[R])
    BY <1>4, <1>5, <1>6, <1>10, <1>11, <1>13, <1>14
  <2>3. Plus(Plus(t[k], m), u[R]) = Plus(Plus(t[k], u[R]), m)
    BY <1>11, <2>1 DEF Plus, Measures
  <2> QED BY <2>2, <2>3 DEF w
<1>15. CASE k \notin D
  <2>1. R = D
    BY <1>15
  <2>2. Total(w) = Plus(m, u[R]) /\ Total(t) = u[R]
    BY <1>4, <1>5, <1>6, <1>10, <1>13, <1>15, <2>1
  <2>3. Plus(m, u[R]) = Plus(u[R], m)
    BY <1>11, PlusLaws
  <2> QED BY <2>2, <2>3 DEF w
<1> QED BY <1>14, <1>15

LEMMA TotalJoin ==
  ASSUME NEW K, NEW t, NEW s, IsMap(t, K), IsMap(s, K)
  PROVE  Total(MapInto(t, s)) = Plus(Total(t), Total(s))
<1> DEFINE R == {Entry(k, s[k]) : k \in DOMAIN s}
           e == SetToSeq(R)
<1>1. Report(R, s)
  <2>1. \A r \in R : r.key \in DOMAIN s /\ r.measure = s[r.key]
    BY DEF Entry
  <2>2. \A r, q \in R : r.key = q.key => r = q
    BY DEF Entry
  <2>3. \A k \in DOMAIN s : \E r \in R : r.key = k
    <3>1. ASSUME NEW k \in DOMAIN s PROVE \E r \in R : r.key = k
      <4>1. Entry(k, s[k]) \in R /\ Entry(k, s[k]).key = k
        BY DEF Entry
      <4> HIDE DEF R
      <4> QED BY <4>1
    <3> QED BY <3>1
  <2> HIDE DEF R
  <2> QED BY <2>1, <2>2, <2>3 DEF Report
<1>2. PICK n \in Nat : Lists(e, n, s)
  BY <1>1, ReportList
<1> HIDE DEF e
<1>3. DOMAIN e = 1 .. n /\ \A k \in 1 .. n : e[k].key \in K /\ e[k].measure \in Measures
  BY <1>2 DEF Lists, IsMap
<1>4. PICK h : Maps!Trace(h, t, e, n) /\ Maps!FoldOf(t, e) = h[n]
  BY <1>3, Maps!FoldSteps
<1>5. PICK g : Maps!Trace(g, EmptyMap, e, n) /\ Maps!FoldOf(EmptyMap, e) = g[n]
  BY <1>3, Maps!FoldSteps
<1>6. IsMap(EmptyMap, K)
  BY EmptyIsMap
<1>7. Total(t) \in Measures
  BY TotalType
<1> DEFINE Good(k) == /\ IsMap(h[k], K) /\ IsMap(g[k], K)
                      /\ Total(h[k]) = Plus(Total(t), Total(g[k]))
           Q == {k \in 0 .. n : Good(k)}
<1>8. Good(0)
  <2>1. h[0] = t /\ g[0] = EmptyMap
    BY <1>4, <1>5 DEF Maps!Trace
  <2>2. Plus(Total(t), Zero) = Total(t)
    BY <1>7, PlusLaws
  <2> QED BY <1>6, <2>1, <2>2, TotalEmpty
<1>9. ASSUME NEW k \in 1 .. n, Good(k - 1) PROVE Good(k)
  <2> DEFINE x == h[k - 1]
             y == g[k - 1]
             i == e[k].key
             m == e[k].measure
  <2>1. h[k] = Into(x, i, m) /\ g[k] = Into(y, i, m)
    BY <1>4, <1>5 DEF Maps!Trace, IntoMap
  <2>2. i \in K /\ m \in Measures
    BY <1>3
  <2>3. IsMap(x, K) /\ IsMap(y, K) /\ Total(x) = Plus(Total(t), Total(y))
    BY <1>9
  <2> HIDE DEF x, y, i, m, Good
  <2>4. IsMap([z \in {i} |-> m], K)
    BY <2>2, SingleIsMap
  <2>5. IsMap(h[k], K)
    BY <2>1, <2>3, <2>4, JoinIsMap, IntoIsJoin
  <2>6. IsMap(g[k], K)
    BY <2>1, <2>3, <2>4, JoinIsMap, IntoIsJoin
  <2>7. Total(h[k]) = Plus(Total(x), m)
    BY <2>1, <2>2, <2>3, TotalInto
  <2>8. Total(g[k]) = Plus(Total(y), m)
    BY <2>1, <2>2, <2>3, TotalInto
  <2>9. Total(y) \in Measures
    BY <2>3, TotalType
  <2>10. Plus(Plus(Total(t), Total(y)), m) = Plus(Total(t), Plus(Total(y), m))
    BY <1>7, <2>2, <2>9, PlusAssociative
  <2> QED BY <2>3, <2>5, <2>6, <2>7, <2>8, <2>10 DEF Good
<1>10. \A k \in 1 .. n : k - 1 \in Q => k \in Q
  <2>1. ASSUME NEW k \in 1 .. n, k - 1 \in Q PROVE k \in Q
    <3>1. Good(k - 1)
      BY <2>1
    <3>2. Good(k)
      BY <1>9, <3>1
    <3> HIDE DEF Good
    <3> QED BY <3>2
  <2> QED BY <2>1
<1>11. 0 .. n \subseteq Q
  <2>1. 0 \in Q
    <3> HIDE DEF Good
    <3> QED BY <1>8
  <2> HIDE DEF Q
  <2> QED BY <1>10, <2>1, Maps!UpTo
<1>12. Good(n)
  <2>1. n \in 0 .. n
    OBVIOUS
  <2> HIDE DEF Good
  <2> QED BY <1>11, <2>1
<1>13. h[n] = MapInto(t, s) /\ g[n] = MapInto(EmptyMap, s)
  BY <1>2, <1>4, <1>5, <1>6, EntriesJoin, IntoMapFold
<1>14. MapInto(EmptyMap, s) = s
  BY JoinEmpty
<1> QED BY <1>12, <1>13, <1>14

-----------------------------------------------------------------------------
(* Sums of values.                                                          *)

Sums == INSTANCE FoldLemmas WITH Step <- +, Holds <- OnKeys

LEMMA SumIsFold == ASSUME NEW vals PROVE SumOf(vals) = Sums!FoldOf(0, vals)
BY DEF SumOf, Sums!FoldOf, Sums!Latest, FoldLeft, MapThenFoldSet, Max

\* h[k] is the sum of the first k of n values.
RunningSums(h, vals, n) ==
  /\ h \in [0 .. n -> Int]
  /\ h[0] = 0 /\ \A k \in 1 .. n : h[k] = h[k - 1] + vals[k]
  /\ SumOf(vals) = h[n]

LEMMA SumTrace ==
  ASSUME NEW vals, NEW n \in Nat, vals \in [1 .. n -> Int]
  PROVE  \E h : RunningSums(h, vals, n)
<1>1. DOMAIN vals = 1 .. n
  OBVIOUS
<1>2. PICK g : Sums!Trace(g, 0, vals, n) /\ Sums!FoldOf(0, vals) = g[n]
  BY <1>1, Sums!FoldSteps
<1>3. g[0] = 0 /\ \A k \in 1 .. n : g[k] = g[k - 1] + vals[k]
  BY <1>2 DEF Sums!Trace
<1> DEFINE Q == {k \in 0 .. n : g[k] \in Int}
<1>4. 0 \in Q
  BY <1>3
<1>5. \A k \in 1 .. n : k - 1 \in Q => k \in Q
  BY <1>3
<1>6. 0 .. n \subseteq Q
  <2> HIDE DEF Q
  <2> QED BY <1>4, <1>5, Maps!UpTo
<1>7. \A k \in 0 .. n : g[k] \in Int
  BY <1>6
<1> DEFINE h == [k \in 0 .. n |-> g[k]]
<1>8. /\ h \in [0 .. n -> Int] /\ h[0] = 0 /\ h[n] = g[n]
      /\ \A k \in 1 .. n : h[k] = h[k - 1] + vals[k]
  <2>1. \A k \in 1 .. n : k \in 0 .. n /\ k - 1 \in 0 .. n
    OBVIOUS
  <2> QED BY <1>3, <1>7, <2>1
<1> HIDE DEF h
<1>9. RunningSums(h, vals, n)
  BY <1>2, <1>8, SumIsFold DEF RunningSums
<1> QED BY <1>9

LEMMA SumType ==
  ASSUME NEW vals \in Seq(Int) PROVE SumOf(vals) \in Int
<1>1. Len(vals) \in Nat /\ vals \in [1 .. Len(vals) -> Int]
  OBVIOUS
<1>2. PICK h : RunningSums(h, vals, Len(vals))
  BY <1>1, SumTrace
<1> QED BY <1>1, <1>2 DEF RunningSums

LEMMA SumAppend ==
  ASSUME NEW vals \in Seq(Int), NEW x \in Int
  PROVE  SumOf(Append(vals, x)) = SumOf(vals) + x
BY SumIsFold, Sums!FoldSnoc

\* What follows the first m elements.
LEMMA TailOf ==
  ASSUME NEW vals \in Seq(Int), NEW m \in 0 .. Len(vals)
  PROVE  /\ SubSeq(vals, m + 1, Len(vals)) \in [1 .. Len(vals) - m -> Int]
         /\ \A j \in 1 .. Len(vals) - m : SubSeq(vals, m + 1, Len(vals))[j] = vals[m + j]
<1> DEFINE n == Len(vals)
           q == SubSeq(vals, m + 1, n)
<1>1. m + 1 \in 1 .. n + 1 /\ n \in Nat /\ n - (m + 1) + 1 = n - m /\ n - m \in Nat
  OBVIOUS
<1>2. \A i \in m + 1 .. n : vals[i] \in Int
  <2>1. \A i \in m + 1 .. n : i \in 1 .. Len(vals)
    BY <1>1
  <2> QED BY <2>1
<1>3. /\ q \in Seq(Int)
      /\ Len(q) = IF m + 1 <= n THEN n - (m + 1) + 1 ELSE 0
      /\ \A j \in 1 .. n - (m + 1) + 1 : q[j] = vals[m + 1 + j - 1]
  <2>1. m + 1 \in Int /\ n \in Int
    BY <1>1
  <2> HIDE DEF n
  <2> QED BY <1>2, <2>1, SubSeqProperties
<1> HIDE DEF q
<1>4. Len(q) = n - m
  <2>1. m \in Nat /\ n \in Nat /\ m <= n
    OBVIOUS
  <2> HIDE DEF n
  <2>2. CASE m + 1 <= n
    BY <1>1, <1>3, <2>2
  <2>3. CASE ~(m + 1 <= n)
    <3>1. n - m = 0
      BY <2>1, <2>3
    <3> QED BY <1>3, <2>3, <3>1
  <2> QED BY <2>2, <2>3
<1>5. q \in [1 .. Len(q) -> Int]
  BY <1>3
<1>6. ASSUME NEW j \in 1 .. n - m PROVE q[j] = vals[m + j]
  <2>1. m + 1 + j - 1 = m + j /\ j \in 1 .. n - (m + 1) + 1
    BY <1>1
  <2> QED BY <1>3, <2>1
<1> QED BY <1>4, <1>5, <1>6 DEF q

\* Four accumulators come to the same as one.
LEMMA UnrolledIsSum ==
  ASSUME NEW vals \in Seq(Int)
  PROVE  UnrolledSum(vals) = SumOf(vals)
<1> DEFINE n == Len(vals)
           c == n \div 4
           m == 4 * c
           Part(a) == [i \in 1 .. c |-> vals[4 * (i - 1) + a + 1]]
           rest == SubSeq(vals, m + 1, n)
<1>1. /\ n \in Nat /\ c \in Nat /\ m \in 0 .. n /\ m \div 4 = c
      /\ vals \in [1 .. n -> Int]
  OBVIOUS
<1>2. PICK h : RunningSums(h, vals, n)
  BY <1>1, SumTrace
<1>3. /\ rest \in [1 .. n - m -> Int]
      /\ \A j \in 1 .. n - m : rest[j] = vals[m + j]
  BY <1>1, TailOf
<1>4. UnrolledSum(vals) = SumOf(Part(0)) + SumOf(rest) + SumOf(Part(1)) + SumOf(Part(2)) + SumOf(Part(3))
  <2>1. 0 \in 0 .. 3 /\ 1 \in 0 .. 3 /\ 2 \in 0 .. 3 /\ 3 \in 0 .. 3
    OBVIOUS
  <2> QED BY <1>1, <2>1 DEF UnrolledSum
<1> HIDE DEF n, c, rest
<1>5. /\ Part(0) \in [1 .. c -> Int] /\ Part(1) \in [1 .. c -> Int]
      /\ Part(2) \in [1 .. c -> Int] /\ Part(3) \in [1 .. c -> Int]
  <2>1. ASSUME NEW a \in 0 .. 3, NEW i \in 1 .. c PROVE vals[4 * (i - 1) + a + 1] \in Int
    <3>1. 4 * (i - 1) + a + 1 \in 1 .. n
      BY <1>1
    <3> QED BY <1>1, <3>1
  <2>2. 0 \in 0 .. 3 /\ 1 \in 0 .. 3 /\ 2 \in 0 .. 3 /\ 3 \in 0 .. 3
    OBVIOUS
  <2> QED BY <2>1, <2>2
<1> HIDE DEF Part
<1>6. PICK p0 : RunningSums(p0, Part(0), c)
  BY <1>1, <1>5, SumTrace
<1>7. PICK p1 : RunningSums(p1, Part(1), c)
  BY <1>1, <1>5, SumTrace
<1>8. PICK p2 : RunningSums(p2, Part(2), c)
  BY <1>1, <1>5, SumTrace
<1>9. PICK p3 : RunningSums(p3, Part(3), c)
  BY <1>1, <1>5, SumTrace
<1>10. PICK r : RunningSums(r, rest, n - m)
  <2>1. n - m \in Nat
    BY <1>1
  <2> QED BY <1>3, <2>1, SumTrace
\* After k rounds.
<1> DEFINE Q == {k \in 0 .. c : h[4 * k] = p0[k] + p1[k] + p2[k] + p3[k]}
<1>11. 0 \in Q
  <2>1. 4 * 0 = 0 /\ 0 \in 0 .. c
    BY <1>1
  <2> QED BY <1>2, <1>6, <1>7, <1>8, <1>9, <2>1 DEF RunningSums
<1>12. ASSUME NEW k \in 1 .. c, k - 1 \in Q PROVE k \in Q
  <2> DEFINE b == 4 * (k - 1)
  <2>1. /\ b \in 0 .. n /\ b + 1 \in 1 .. n /\ b + 2 \in 1 .. n /\ b + 3 \in 1 .. n /\ b + 4 \in 1 .. n
        /\ 4 * k = b + 4 /\ b \in Int /\ k \in 0 .. c /\ k - 1 \in 0 .. c
    BY <1>1
  <2>2. /\ Part(0)[k] = vals[b + 1] /\ Part(1)[k] = vals[b + 2]
        /\ Part(2)[k] = vals[b + 3] /\ Part(3)[k] = vals[b + 4]
    BY DEF Part
  <2> HIDE DEF b
  <2>3. /\ (b + 1) - 1 = b /\ (b + 2) - 1 = b + 1 /\ (b + 3) - 1 = b + 2 /\ (b + 4) - 1 = b + 3
    BY <2>1
  <2>4. /\ h[b + 1] = h[b] + vals[b + 1] /\ h[b + 2] = h[b + 1] + vals[b + 2]
        /\ h[b + 3] = h[b + 2] + vals[b + 3] /\ h[b + 4] = h[b + 3] + vals[b + 4]
    BY <1>2, <2>1, <2>3 DEF RunningSums
  <2>5. h[b] = p0[k - 1] + p1[k - 1] + p2[k - 1] + p3[k - 1]
    BY <1>12 DEF b
  <2>6. /\ p0[k] = p0[k - 1] + vals[b + 1] /\ p1[k] = p1[k - 1] + vals[b + 2]
        /\ p2[k] = p2[k - 1] + vals[b + 3] /\ p3[k] = p3[k - 1] + vals[b + 4]
    BY <1>6, <1>7, <1>8, <1>9, <2>2 DEF RunningSums
  <2>7. /\ vals[b + 1] \in Int /\ vals[b + 2] \in Int /\ vals[b + 3] \in Int /\ vals[b + 4] \in Int
        /\ p0[k - 1] \in Int /\ p1[k - 1] \in Int /\ p2[k - 1] \in Int /\ p3[k - 1] \in Int
    BY <1>1, <1>6, <1>7, <1>8, <1>9, <2>1 DEF RunningSums
  <2> DEFINE v1 == vals[b + 1]
             v2 == vals[b + 2]
             v3 == vals[b + 3]
             v4 == vals[b + 4]
             s0 == p0[k - 1]
             s1 == p1[k - 1]
             s2 == p2[k - 1]
             s3 == p3[k - 1]
  <2>9. h[b + 4] = (((s0 + s1 + s2 + s3) + v1) + v2) + v3 + v4
    BY <2>4, <2>5
  <2>10. p0[k] + p1[k] + p2[k] + p3[k] = (s0 + v1) + (s1 + v2) + (s2 + v3) + (s3 + v4)
    BY <2>6
  <2>11. /\ v1 \in Int /\ v2 \in Int /\ v3 \in Int /\ v4 \in Int
         /\ s0 \in Int /\ s1 \in Int /\ s2 \in Int /\ s3 \in Int
    BY <2>7
  <2> HIDE DEF v1, v2, v3, v4, s0, s1, s2, s3
  <2>12. (((s0 + s1 + s2 + s3) + v1) + v2) + v3 + v4 = (s0 + v1) + (s1 + v2) + (s2 + v3) + (s3 + v4)
    BY <2>11
  <2>13. h[b + 4] = p0[k] + p1[k] + p2[k] + p3[k]
    BY <2>9, <2>10, <2>12
  <2> QED BY <2>1, <2>13
<1>13. 0 .. c \subseteq Q
  <2> HIDE DEF Q
  <2> QED BY <1>1, <1>11, <1>12, Maps!UpTo
<1>14. h[m] = p0[c] + p1[c] + p2[c] + p3[c]
  <2>1. c \in 0 .. c
    BY <1>1
  <2> QED BY <1>13, <2>1
\* And through what is left over.
<1> HIDE DEF m
<1> DEFINE P == {j \in 0 .. n - m : h[m + j] = h[m] + r[j]}
<1>15. 0 \in P
  <2>1. h[m] \in Int /\ m + 0 = m /\ 0 \in 0 .. n - m
    BY <1>1, <1>2 DEF RunningSums
  <2> QED BY <1>10, <2>1 DEF RunningSums
<1>16. ASSUME NEW j \in 1 .. n - m, j - 1 \in P PROVE j \in P
  <2>1. m + j \in 1 .. n /\ (m + j) - 1 = m + (j - 1) /\ j - 1 \in 0 .. n - m /\ j \in 0 .. n - m
    BY <1>1
  <2>2. h[m + j] = h[m + (j - 1)] + vals[m + j]
    BY <1>2, <2>1 DEF RunningSums
  <2>3. r[j] = r[j - 1] + vals[m + j]
    BY <1>3, <1>10 DEF RunningSums
  <2>4. h[m] \in Int /\ r[j - 1] \in Int /\ vals[m + j] \in Int
    BY <1>1, <1>2, <1>10, <2>1 DEF RunningSums
  <2>5. h[m + (j - 1)] = h[m] + r[j - 1]
    BY <1>16
  <2>6. h[m + j] = h[m] + r[j]
    BY <2>2, <2>3, <2>4, <2>5
  <2> QED BY <2>1, <2>6
<1>17. 0 .. n - m \subseteq P
  <2>1. n - m \in Nat
    BY <1>1
  <2> HIDE DEF P
  <2> QED BY <1>15, <1>16, <2>1, Maps!UpTo
<1>18. h[n] = h[m] + r[n - m]
  <2>1. n - m \in 0 .. n - m /\ m + (n - m) = n
    BY <1>1
  <2> QED BY <1>17, <2>1
<1>19. /\ p0[c] \in Int /\ p1[c] \in Int /\ p2[c] \in Int /\ p3[c] \in Int /\ r[n - m] \in Int
  <2>1. c \in 0 .. c /\ n - m \in 0 .. n - m
    BY <1>1
  <2>2. p0[c] \in Int
    BY <1>6, <2>1 DEF RunningSums
  <2>3. p1[c] \in Int
    BY <1>7, <2>1 DEF RunningSums
  <2>4. p2[c] \in Int
    BY <1>8, <2>1 DEF RunningSums
  <2>5. p3[c] \in Int
    BY <1>9, <2>1 DEF RunningSums
  <2>6. r[n - m] \in Int
    BY <1>10, <2>1 DEF RunningSums
  <2> QED BY <2>2, <2>3, <2>4, <2>5, <2>6
<1> QED BY <1>2, <1>4, <1>6, <1>7, <1>8, <1>9, <1>10, <1>14, <1>18, <1>19 DEF RunningSums

-----------------------------------------------------------------------------
(* GlobalFloatAgg: the total of the groups, without the groups.             *)

LEMMA RefRowsIsMap ==
  ASSUME NEW t, IsMap(t, Keys), NEW q \in Seq(Rows), NEW mod \in Int, NEW hasVal \in BOOLEAN
  PROVE  IsMap(RefRows(t, q, mod, hasVal), Keys)
<1> DEFINE n == Len(q)
           e == RefEntries(q, mod, hasVal)
<1>1. n \in Nat /\ DOMAIN q = 1 .. n /\ DOMAIN e = 1 .. n /\ \A k \in 1 .. n : q[k] \in Rows
  BY DEF RefEntries
<1>2. ASSUME NEW k \in 1 .. n PROVE e[k].key \in Keys /\ e[k].measure \in Measures
  <2>1. /\ e[k].key = IF q[k].key = NULL THEN NULL ELSE KeyOf(q[k].key, mod)
        /\ e[k].measure = MeasureAt(q[k], hasVal)
    BY <1>1 DEF RefEntries, Entry
  <2>2. q[k] \in Rows
    BY <1>1
  <2>3. MeasureAt(q[k], hasVal) \in Measures
    BY <2>2, MeasureType
  <2>4. q[k].key # NULL => q[k].key \in Int
    BY <2>2 DEF Rows
  <2>5. q[k].key # NULL => KeyOf(q[k].key, mod) \in Int
    BY <2>4, KeyOfType
  <2> HIDE DEF e
  <2> QED BY <2>1, <2>3, <2>5 DEF Keys
<1> HIDE DEF e
<1>3. ASSUME NEW u, OnKeys(u), NEW k \in 1 .. n PROVE OnKeys(IntoMap(u, e[k]))
  <2>1. IsMap([x \in {e[k].key} |-> e[k].measure], Keys)
    BY <1>2, SingleIsMap
  <2> QED BY <1>3, <2>1, JoinIsMap, IntoIsJoin DEF OnKeys, IntoMap
<1>4. OnKeys(t)
  BY DEF OnKeys
<1> HIDE DEF n
<1>5. OnKeys(Maps!FoldOf(t, e))
  BY <1>1, <1>3, <1>4, Maps!FoldKeeps
<1> QED BY <1>5, IntoMapFold DEF RefRows, IntoAll, OnKeys, e

Values == INSTANCE FoldLemmas WITH Step <- LAMBDA vs, r : IF r.val = NULL THEN vs ELSE Append(vs, r.val),
                                   Holds <- OnKeys

LEMMA ValuesFold == ASSUME NEW q PROVE ValuesIn(q) = Values!FoldOf(<< >>, q)
BY DEF ValuesIn, Values!FoldOf, Values!Latest, FoldLeft, MapThenFoldSet, Max

\* What n rows with these values add to a total.
Counted(n, vals) == [rows |-> n, count |-> Len(vals), sum |-> SumOf(vals)]

\* The values after one more row.
Valued(vals, r) == IF r.val = NULL THEN vals ELSE Append(vals, r.val)

LEMMA ValuedGrows ==
  ASSUME NULL \notin Int, NEW vals \in Seq(Int), NEW r \in Rows, r.val # NULL
  PROVE  /\ r.val \in Int
         /\ Valued(vals, r) \in Seq(Int)
         /\ Len(Valued(vals, r)) = Len(vals) + 1
         /\ SumOf(Valued(vals, r)) = SumOf(vals) + r.val
<1>1. r.val \in Int
  BY DEF Rows
<1>2. Valued(vals, r) = Append(vals, r.val)
  BY DEF Valued
<1>3. Append(vals, r.val) \in Seq(Int) /\ Len(Append(vals, r.val)) = Len(vals) + 1
  BY <1>1
<1>4. SumOf(Append(vals, r.val)) = SumOf(vals) + r.val
  BY <1>1, SumAppend
<1> QED BY <1>1, <1>2, <1>3, <1>4

LEMMA PlusFields ==
  ASSUME NEW n, NEW c, NEW s, NEW d, NEW x
  PROVE  Plus([rows |-> n, count |-> c, sum |-> s], [rows |-> 1, count |-> d, sum |-> x])
           = [rows |-> n + 1, count |-> c + d, sum |-> s + x]
BY DEF Plus

LEMMA CountedGrows ==
  ASSUME NULL \notin Int, NEW k \in Nat \ {0}, NEW vals \in Seq(Int), NEW r \in Rows
  PROVE  /\ Valued(vals, r) \in Seq(Int)
         /\ Counted(k - 1, vals) \in Measures
         /\ Counted(k, Valued(vals, r)) = Plus(Counted(k - 1, vals), MeasureAt(r, TRUE))
<1> DEFINE l == Len(vals)
           s == SumOf(vals)
<1>1. s \in Int /\ l \in Nat
  BY SumType
<1>2. Counted(k - 1, vals) = [rows |-> k - 1, count |-> l, sum |-> s]
  BY DEF Counted
<1>3. (k - 1) + 1 = k /\ k - 1 \in Int
  OBVIOUS
<1> HIDE DEF l, s
<1>4. Counted(k - 1, vals) \in Measures
  BY <1>1, <1>2, <1>3 DEF Measures
<1>5. CASE r.val = NULL
  <2>1. Valued(vals, r) = vals
    BY <1>5 DEF Valued
  <2>2. MeasureAt(r, TRUE) = [rows |-> 1, count |-> 0, sum |-> 0]
    BY <1>5 DEF MeasureAt
  <2>3. Counted(k, vals) = [rows |-> k, count |-> l, sum |-> s]
    BY DEF Counted, l, s
  <2>4. Plus(Counted(k - 1, vals), MeasureAt(r, TRUE)) = [rows |-> (k - 1) + 1, count |-> l + 0, sum |-> s + 0]
    <3>1. Plus([rows |-> k - 1, count |-> l, sum |-> s], [rows |-> 1, count |-> 0, sum |-> 0])
            = [rows |-> (k - 1) + 1, count |-> l + 0, sum |-> s + 0]
      BY PlusFields
    <3> QED BY <1>2, <2>2, <3>1
  <2>5. l + 0 = l /\ s + 0 = s
    BY <1>1
  <2> QED BY <1>3, <1>4, <2>1, <2>3, <2>4, <2>5
<1>6. CASE r.val # NULL
  <2> DEFINE next == Valued(vals, r)
  <2>1. next \in Seq(Int) /\ Len(next) = l + 1 /\ SumOf(next) = s + r.val
    BY <1>6, ValuedGrows DEF l, s
  <2>2. MeasureAt(r, TRUE) = [rows |-> 1, count |-> 1, sum |-> r.val]
    BY <1>6 DEF MeasureAt
  <2> HIDE DEF next
  <2>3. Counted(k, next) = [rows |-> k, count |-> l + 1, sum |-> s + r.val]
    BY <2>1 DEF Counted
  <2>4. Plus(Counted(k - 1, vals), MeasureAt(r, TRUE))
          = [rows |-> (k - 1) + 1, count |-> l + 1, sum |-> s + r.val]
    <3>1. Plus([rows |-> k - 1, count |-> l, sum |-> s], [rows |-> 1, count |-> 1, sum |-> r.val])
            = [rows |-> (k - 1) + 1, count |-> l + 1, sum |-> s + r.val]
      BY PlusFields
    <3> QED BY <1>2, <2>2, <3>1
  <2>5. Counted(k, next) = Plus(Counted(k - 1, vals), MeasureAt(r, TRUE))
    BY <1>3, <2>3, <2>4
  <2> QED BY <1>4, <2>1, <2>5 DEF next
<1> QED BY <1>5, <1>6

LEMMA NoneCounted == Counted(0, << >>) = Zero /\ << >> \in Seq(Int)
<1>1. << >> \in Seq(Int) /\ Len(<< >>) = 0
  OBVIOUS
<1>2. << >> \in [1 .. 0 -> Int]
  BY <1>1
<1>3. PICK h : RunningSums(h, << >>, 0)
  BY <1>2, SumTrace
<1>4. SumOf(<< >>) = 0
  BY <1>3 DEF RunningSums
<1> QED BY <1>1, <1>4 DEF Counted, Zero

\* Rows enter the total of a map as they enter its groups.
LEMMA RowsCounted ==
  ASSUME NULL \notin Int, NEW t, IsMap(t, Keys), NEW q \in Seq(Rows)
  PROVE  /\ ValuesIn(q) \in Seq(Int)
         /\ Total(RefRows(t, q, 0, TRUE)) = Plus(Total(t), Counted(Len(q), ValuesIn(q)))
<1> DEFINE n == Len(q)
           e == RefEntries(q, 0, TRUE)
<1>1. n \in Nat /\ DOMAIN q = 1 .. n /\ DOMAIN e = 1 .. n /\ \A k \in 1 .. n : q[k] \in Rows
  BY DEF RefEntries
<1>2. \A k \in 1 .. n : e[k].key = q[k].key /\ e[k].measure = MeasureAt(q[k], TRUE)
  BY <1>1 DEF RefEntries, Entry, KeyOf
<1>3. \A k \in 1 .. n : q[k].key \in Keys
  BY <1>1 DEF Rows, Keys
<1> HIDE DEF n, e
<1>4. PICK R : Maps!Trace(R, t, e, n) /\ Maps!FoldOf(t, e) = R[n]
  BY <1>1, Maps!FoldSteps
<1>5. PICK v : Values!Trace(v, << >>, q, n) /\ Values!FoldOf(<< >>, q) = v[n]
  BY <1>1, Values!FoldSteps
<1>6. Total(t) \in Measures
  BY TotalType
<1> DEFINE Good(k) == /\ IsMap(R[k], Keys)
                      /\ v[k] \in Seq(Int)
                      /\ Total(R[k]) = Plus(Total(t), Counted(k, v[k]))
           Q == {k \in 0 .. n : Good(k)}
<1>7. Good(0)
  <2>1. R[0] = t /\ v[0] = << >>
    BY <1>4, <1>5 DEF Maps!Trace, Values!Trace
  <2>2. Plus(Total(t), Zero) = Total(t)
    BY <1>6, PlusLaws
  <2> QED BY <2>1, <2>2, NoneCounted
<1>8. ASSUME NEW k \in 1 .. n, Good(k - 1) PROVE Good(k)
  <2> DEFINE x == R[k - 1]
             w == v[k - 1]
             r == q[k]
             m == MeasureAt(r, TRUE)
  <2>1. R[k] = Into(x, r.key, m)
    BY <1>2, <1>4 DEF Maps!Trace, IntoMap
  <2>2. v[k] = Valued(w, r)
    BY <1>5 DEF Values!Trace, Valued
  <2>3. r \in Rows /\ r.key \in Keys /\ k \in Nat \ {0}
    BY <1>1, <1>3
  <2>4. IsMap(x, Keys) /\ w \in Seq(Int) /\ Total(x) = Plus(Total(t), Counted(k - 1, w))
    BY <1>8
  <2>5. m \in Measures
    BY <2>3, MeasureType
  <2> HIDE DEF x, w, r, Good
  <2>6. /\ v[k] \in Seq(Int) /\ Counted(k - 1, w) \in Measures
        /\ Counted(k, v[k]) = Plus(Counted(k - 1, w), m)
    <3>1. /\ Valued(w, r) \in Seq(Int) /\ Counted(k - 1, w) \in Measures
          /\ Counted(k, Valued(w, r)) = Plus(Counted(k - 1, w), MeasureAt(r, TRUE))
      <4>1. r \in Rows /\ k \in Nat \ {0} /\ w \in Seq(Int)
        BY <2>3, <2>4
      <4> HIDE DEF m
      <4> QED BY <4>1, CountedGrows
    <3> QED BY <2>2, <3>1
  <2> HIDE DEF m
  <2>7. IsMap([z \in {r.key} |-> m], Keys)
    BY <2>3, <2>5, SingleIsMap
  <2>8. IsMap(R[k], Keys)
    BY <2>1, <2>4, <2>7, JoinIsMap, IntoIsJoin
  <2>9. Total(R[k]) = Plus(Total(x), m)
    BY <2>1, <2>3, <2>4, <2>5, TotalInto
  <2>10. Plus(Plus(Total(t), Counted(k - 1, w)), m) = Plus(Total(t), Plus(Counted(k - 1, w), m))
    BY <1>6, <2>5, <2>6, PlusAssociative
  <2> QED BY <2>4, <2>6, <2>8, <2>9, <2>10 DEF Good
<1>9. \A k \in 1 .. n : k - 1 \in Q => k \in Q
  <2>1. ASSUME NEW k \in 1 .. n, k - 1 \in Q PROVE k \in Q
    <3>1. Good(k - 1)
      BY <2>1
    <3>2. Good(k)
      BY <1>8, <3>1
    <3> HIDE DEF Good
    <3> QED BY <1>1, <3>2
  <2> QED BY <2>1
<1>10. 0 .. n \subseteq Q
  <2>1. 0 \in Q
    <3> HIDE DEF Good
    <3> QED BY <1>1, <1>7
  <2> HIDE DEF Q
  <2> QED BY <1>1, <1>9, <2>1, Maps!UpTo
<1>11. Good(n)
  <2>1. n \in 0 .. n
    BY <1>1
  <2> HIDE DEF Good
  <2> QED BY <1>10, <2>1
<1>12. R[n] = RefRows(t, q, 0, TRUE)
  BY <1>4, IntoMapFold DEF RefRows, IntoAll, e
<1>13. v[n] = ValuesIn(q)
  BY <1>5, ValuesFold
<1> QED BY <1>11, <1>12, <1>13 DEF n

LEMMA AddGlobalFits ==
  ASSUME NULL \notin Int, NEW g, g.kind = "global", GlobalFits(g),
         NEW b, Selected(b) \in Seq(Rows), NEW f, f = AddGlobal(g, b),
         NEW t, IsMap(t, Keys), g.total = Total(t)
  PROVE  /\ f.kind = "global" /\ GlobalFits(f)
         /\ f.total = Total(RefRows(t, Selected(b), 0, TRUE))
<1> DEFINE q == Selected(b)
           vals == ValuesIn(q)
           u == RefRows(t, q, 0, TRUE)
<1>1. vals \in Seq(Int) /\ Total(u) = Plus(Total(t), Counted(Len(q), vals))
  BY RowsCounted
<1>2. UnrolledSum(vals) = SumOf(vals)
  BY <1>1, UnrolledIsSum
<1>3. f = [g EXCEPT !.total = Plus(@, Counted(Len(q), vals))]
  BY <1>2 DEF AddGlobal, Counted
<1>4. IsMap(u, Keys)
  <2>1. 0 \in Int /\ TRUE \in BOOLEAN
    OBVIOUS
  <2> QED BY <2>1, RefRowsIsMap
<1>5. Total(u) \in Measures
  BY <1>4, TotalType
<1> HIDE DEF q, vals, u
<1>6. DOMAIN f = DOMAIN g /\ f.kind = g.kind /\ f.total = Total(u)
  BY <1>1, <1>3 DEF GlobalFits
<1> QED BY <1>5, <1>6 DEF GlobalFits, u, q

-----------------------------------------------------------------------------
(* One operation on one aggregator.                                         *)

LEMMA GlobalIsLike ==
  ASSUME NEW g, g.kind = "global", NEW f, f.kind = "global", GlobalFits(f)
  PROVE  Like(f, g)
BY DEF Like, Fits, ModOf, HasValOf

\* A batch adds its rows.
LEMMA AddFits ==
  ASSUME NilIsNoTable, NULL \notin Int, NEW g, Fits(g), NEW b, Selected(b) \in Seq(Rows),
         NEW f, f = AddTo(g, b), NEW t, IsMap(t, Keys), Matches(g, t)
  PROVE  Like(f, g) /\ Matches(f, RefRows(t, Selected(b), ModOf(g), HasValOf(g)))
<1> DEFINE q == Selected(b)
<1>1. CASE g.kind = "int64"
  <2>1. IntFits(g) /\ GroupsOf(g) = t
    BY <1>1 DEF Fits, Matches
  <2>2. f = AddBatch(g, b)
    BY <1>1 DEF AddTo
  <2>3. IntLike(f, g) /\ GroupsOf(f) = RefRows(t, q, g.mod, g.hasVal)
    BY <1>1, <2>1, <2>2, AddBatchFits
  <2>4. ModOf(g) = g.mod /\ HasValOf(g) = g.hasVal
    BY <1>1, <2>1 DEF ModOf, HasValOf, IntFits
  <2>5. Like(f, g)
    BY <1>1, <2>3, IntIsLike
  <2>6. f.kind # "global"
    BY <2>3 DEF IntLike
  <2> HIDE DEF q
  <2> QED BY <2>3, <2>4, <2>5, <2>6 DEF Matches, q
<1>2. CASE g.kind = "string"
  <2>1. StringFits(g) /\ GroupsOf(g) = t
    BY <1>2 DEF Fits, Matches
  <2>2. f = AddStrings(g, b)
    BY <1>2 DEF AddTo
  <2>3. StringLike(f, g) /\ GroupsOf(f) = RefRows(t, q, 0, g.hasVal)
    BY <1>2, <2>1, <2>2, AddStringsFits
  <2>4. ModOf(g) = 0 /\ HasValOf(g) = g.hasVal
    BY <1>2, <2>1 DEF ModOf, HasValOf, StringFits
  <2>5. Like(f, g)
    BY <1>2, <2>3, StringIsLike
  <2>6. f.kind # "global"
    BY <2>3 DEF StringLike
  <2> HIDE DEF q
  <2> QED BY <2>3, <2>4, <2>5, <2>6 DEF Matches, q
<1>3. CASE g.kind = "global"
  <2>1. GlobalFits(g) /\ g.total = Total(t)
    BY <1>3 DEF Fits, Matches
  <2>2. f = AddGlobal(g, b)
    BY <1>3 DEF AddTo
  <2>3. f.kind = "global" /\ GlobalFits(f) /\ f.total = Total(RefRows(t, q, 0, TRUE))
    BY <1>3, <2>1, <2>2, AddGlobalFits
  <2>4. ModOf(g) = 0 /\ HasValOf(g) = TRUE
    BY <1>3 DEF ModOf, HasValOf
  <2>5. Like(f, g)
    BY <1>3, <2>3, GlobalIsLike
  <2> HIDE DEF q
  <2> QED BY <2>3, <2>4, <2>5 DEF Matches, q
<1> QED BY <1>1, <1>2, <1>3 DEF Fits

\* A merge adds the other's groups.
LEMMA MergeFits ==
  ASSUME NilIsNoTable, NEW g, Fits(g), NEW o, Fits(o), g.kind = o.kind,
         NEW f, f = MergeAgg(g, o),
         NEW t, IsMap(t, Keys), Matches(g, t), NEW u, IsMap(u, Keys), Matches(o, u)
  PROVE  Like(f, g) /\ Matches(f, MapInto(t, u))
<1>1. CASE g.kind = "int64"
  <2>1. GroupsOf(g) = t /\ GroupsOf(o) = u
    BY <1>1 DEF Matches
  <2>2. f = MergeInto(g, o)
    BY <1>1 DEF MergeAgg
  <2>3. Like(f, g) /\ GroupsOf(f) = MapInto(t, u)
    BY <1>1, <2>1, <2>2, MergeIntoFits
  <2> QED BY <1>1, <2>3 DEF Matches, Like
<1>2. CASE g.kind = "string"
  <2>1. GroupsOf(g) = t /\ GroupsOf(o) = u
    BY <1>2 DEF Matches
  <2>2. f = MergeStrings(g, o)
    BY <1>2 DEF MergeAgg
  <2>3. Like(f, g) /\ GroupsOf(f) = MapInto(t, u)
    BY <1>2, <2>1, <2>2, MergeStringsFits
  <2> QED BY <1>2, <2>3 DEF Matches, Like
<1>3. CASE g.kind = "global"
  <2>1. /\ GlobalFits(g) /\ g.total = Total(t)
        /\ GlobalFits(o) /\ o.total = Total(u)
    BY <1>3 DEF Fits, Matches
  <2>2. f = [g EXCEPT !.total = Plus(@, o.total)]
    BY <1>3 DEF MergeAgg
  <2>3. Total(MapInto(t, u)) = Plus(Total(t), Total(u))
    BY TotalJoin
  <2>4. Plus(g.total, o.total) \in Measures
    BY <2>1, PlusLaws DEF GlobalFits
  <2>5. DOMAIN f = DOMAIN g /\ f.kind = g.kind /\ f.total = Plus(g.total, o.total)
    BY <2>1, <2>2 DEF GlobalFits
  <2>6. GlobalFits(f)
    BY <2>1, <2>4, <2>5 DEF GlobalFits
  <2>7. Like(f, g)
    BY <1>3, <2>5, <2>6, GlobalIsLike
  <2> QED BY <1>3, <2>1, <2>3, <2>5, <2>7 DEF Matches
<1> QED BY <1>1, <1>2, <1>3 DEF Fits

\* The other side keeps its groups.
LEMMA MergedFromFits ==
  ASSUME NilIsNoTable, NEW g, Fits(g), NEW f, f = MergedFrom(g), NEW t, Matches(g, t)
  PROVE  Like(f, g) /\ Matches(f, t)
<1>1. CASE g.kind = "int64"
  <2>1. IntFits(g) /\ GroupsOf(g) = t
    BY <1>1 DEF Fits, Matches
  <2>2. f = EnsureTable(g)
    BY <1>1 DEF MergedFrom
  <2>3. IntLike(f, g) /\ GroupsOf(f) = GroupsOf(g)
    BY <1>1, <2>1, <2>2, EnsureTableFits
  <2>4. Like(f, g)
    BY <1>1, <2>3, IntIsLike
  <2> QED BY <1>1, <2>1, <2>3, <2>4 DEF Matches, Like
<1>2. CASE g.kind # "int64"
  BY <1>2 DEF MergedFrom, Like
<1> QED BY <1>1, <1>2

LEMMA NewGlobalFits ==
  ASSUME NEW g, g = NewGlobal
  PROVE  g.kind = "global" /\ GlobalFits(g) /\ g.total = Zero
<1>1. Zero \in Measures
  BY DEF Zero, Measures
<1>2. DOMAIN g = {"kind", "total"} /\ g.kind = "global" /\ g.total = Zero
  BY DEF NewGlobal
<1> QED BY <1>1, <1>2 DEF GlobalFits

\* A reset leaves no group.
LEMMA ResetFits ==
  ASSUME NilIsNoTable, NEW g, Fits(g), NEW f, f = ResetAgg(g)
  PROVE  Like(f, g) /\ Matches(f, EmptyMap)
<1>1. CASE g.kind = "int64"
  <2>1. f = ResetGroups(g)
    BY <1>1 DEF ResetAgg
  <2>2. Like(f, g) /\ GroupsOf(f) = EmptyMap
    BY <1>1, <2>1, ResetGroupsFits
  <2> QED BY <1>1, <2>2 DEF Matches, Like
<1>2. CASE g.kind = "string"
  <2>1. f = ResetStrings(g)
    BY <1>2 DEF ResetAgg
  <2>2. Like(f, g) /\ GroupsOf(f) = EmptyMap
    BY <1>2, <2>1, ResetStringsFits
  <2> QED BY <1>2, <2>2 DEF Matches, Like
<1>3. CASE g.kind = "global"
  <2>1. f = NewGlobal
    BY <1>3 DEF ResetAgg
  <2>2. f.kind = "global" /\ GlobalFits(f) /\ f.total = Zero
    BY <2>1, NewGlobalFits
  <2>3. Like(f, g)
    BY <1>3, <2>2, GlobalIsLike
  <2> QED BY <2>2, <2>3, TotalEmpty DEF Matches
<1> QED BY <1>1, <1>2, <1>3 DEF Fits

-----------------------------------------------------------------------------
(* New aggregators.                                                         *)

LEMMA NoNullGroup ==
  ASSUME NEW g, g.hasNull = FALSE, g.nullKey = Zero
  PROVE  NullFits(g) /\ NullGroup(g) = EmptyMap
<1>1. Zero \in Measures
  BY DEF Zero, Measures
<1>2. NullFits(g)
  BY <1>1 DEF NullFits
<1>3. NullGroup(g) = EmptyMap
  BY DEF NullGroup
<1> QED BY <1>2, <1>3

LEMMA LiteralFits ==
  ASSUME NilIsNoTable, NEW mod \in Int, NEW hasVal \in BOOLEAN, NEW g, g = Literal(mod, hasVal)
  PROVE  /\ g.kind = "int64" /\ g.mod = mod /\ g.hasVal = hasVal
         /\ IntFits(g) /\ GroupsOf(g) = EmptyMap
<1>1. /\ DOMAIN g = {"kind", "mod", "hasVal", "dense", "oa", "spill", "nullKey", "hasNull"}
      /\ g.kind = "int64" /\ g.mod = mod /\ g.hasVal = hasVal
      /\ g.dense = NULL /\ g.oa = NULL /\ g.spill = NULL
      /\ g.hasNull = FALSE /\ g.nullKey = Zero
  BY DEF Literal
<1>2. NullFits(g) /\ NullGroup(g) = EmptyMap
  BY <1>1, NoNullGroup
<1>3. IntFits(g)
  BY <1>1, <1>2 DEF IntFits
<1>4. Held(g) = EmptyMap
  BY <1>1 DEF Held
<1>5. MapInto(EmptyMap, EmptyMap) = EmptyMap
  BY EmptyIsMap, JoinEmpty
<1> QED BY <1>1, <1>2, <1>3, <1>4, <1>5 DEF GroupsOf

LEMMA StringLiteralFits ==
  ASSUME NilIsNoTable, NEW hasVal \in BOOLEAN, NEW g, g = StringLiteral(hasVal)
  PROVE  /\ g.kind = "string" /\ g.hasVal = hasVal
         /\ StringFits(g) /\ GroupsOf(g) = EmptyMap
<1>1. /\ DOMAIN g = {"kind", "hasVal", "dict", "nullKey", "hasNull"}
      /\ g.kind = "string" /\ g.hasVal = hasVal /\ g.dict = NULL
      /\ g.hasNull = FALSE /\ g.nullKey = Zero
  BY DEF StringLiteral
<1>2. NullFits(g) /\ NullGroup(g) = EmptyMap
  BY <1>1, NoNullGroup
<1>3. StringFits(g)
  BY <1>1, <1>2 DEF StringFits
<1>4. Held(g) = EmptyMap
  BY <1>1 DEF Held
<1>5. MapInto(EmptyMap, EmptyMap) = EmptyMap
  BY EmptyIsMap, JoinEmpty
<1> QED BY <1>1, <1>2, <1>3, <1>4, <1>5 DEF GroupsOf

\* g is made for these rows and holds no group.
Fresh(g, kind, mod, hasVal) ==
  /\ g.kind = kind /\ ModOf(g) = mod /\ HasValOf(g) = hasVal
  /\ Fits(g) /\ Matches(g, EmptyMap)

LEMMA IntFresh ==
  ASSUME NEW mod, NEW hasVal, NEW g, g.kind = "int64", g.mod = mod, g.hasVal = hasVal,
         IntFits(g), GroupsOf(g) = EmptyMap
  PROVE  Fresh(g, "int64", mod, hasVal)
<1>1. HasValOf(g) = hasVal
  BY DEF HasValOf, IntFits
<1> QED BY <1>1 DEF Fresh, ModOf, Fits, Matches

LEMMA StringFresh ==
  ASSUME NEW hasVal, NEW g, g.kind = "string", g.hasVal = hasVal,
         StringFits(g), GroupsOf(g) = EmptyMap
  PROVE  Fresh(g, "string", 0, hasVal)
<1>1. HasValOf(g) = hasVal
  BY DEF HasValOf, StringFits
<1> QED BY <1>1 DEF Fresh, ModOf, Fits, Matches

LEMMA IntMade ==
  ASSUME NilIsNoTable, NEW mod \in Int, NEW hasVal \in BOOLEAN
  PROVE  /\ Fresh(Literal(mod, hasVal), "int64", mod, hasVal)
         /\ Fresh(NewGroupBy(mod, hasVal), "int64", mod, hasVal)
<1>1. PICK l : l = Literal(mod, hasVal)
  OBVIOUS
<1>2. /\ l.kind = "int64" /\ l.mod = mod /\ l.hasVal = hasVal
      /\ IntFits(l) /\ GroupsOf(l) = EmptyMap
  BY <1>1, LiteralFits
<1>3. PICK g : g = EnsureTable(l)
  OBVIOUS
<1>4. IntLike(g, l) /\ GroupsOf(g) = EmptyMap
  BY <1>2, <1>3, EnsureTableFits
<1>5. Fresh(l, "int64", mod, hasVal)
  BY <1>2, IntFresh
<1>6. Fresh(g, "int64", mod, hasVal)
  <2>1. g.kind = "int64" /\ g.mod = mod /\ g.hasVal = hasVal /\ IntFits(g)
    BY <1>2, <1>4 DEF IntLike
  <2> QED BY <1>4, <2>1, IntFresh
<1> QED BY <1>1, <1>3, <1>5, <1>6 DEF NewGroupBy

LEMMA StringMade ==
  ASSUME NilIsNoTable, NEW hasVal \in BOOLEAN
  PROVE  /\ Fresh(StringLiteral(hasVal), "string", 0, hasVal)
         /\ Fresh(NewString(hasVal), "string", 0, hasVal)
<1>1. PICK l : l = StringLiteral(hasVal)
  OBVIOUS
<1>2. /\ l.kind = "string" /\ l.hasVal = hasVal
      /\ StringFits(l) /\ GroupsOf(l) = EmptyMap
  BY <1>1, StringLiteralFits
<1>3. PICK g : g = EnsureDict(l)
  OBVIOUS
<1>4. StringLike(g, l) /\ GroupsOf(g) = EmptyMap
  BY <1>2, <1>3, EnsureDictFits
<1>5. Fresh(l, "string", 0, hasVal)
  BY <1>2, StringFresh
<1>6. Fresh(g, "string", 0, hasVal)
  <2>1. g.kind = "string" /\ g.hasVal = hasVal /\ StringFits(g)
    BY <1>2, <1>4 DEF StringLike
  <2> QED BY <1>4, <2>1, StringFresh
<1> QED BY <1>1, <1>3, <1>5, <1>6 DEF NewString

LEMMA GlobalMade == Fresh(NewGlobal, "global", 0, TRUE)
<1>1. PICK g : g = NewGlobal
  OBVIOUS
<1>2. g.kind = "global" /\ GlobalFits(g) /\ g.total = Zero
  BY <1>1, NewGlobalFits
<1>3. Fits(g) /\ Matches(g, EmptyMap)
  BY <1>2, TotalEmpty DEF Fits, Matches
<1> QED BY <1>1, <1>2, <1>3 DEF Fresh, ModOf, HasValOf

-----------------------------------------------------------------------------
(* What is reported.                                                        *)

LEMMA LiveGroupsReport ==
  ASSUME NEW g, Fits(g), g.kind # "global"
  PROVE  Report(LiveGroups(g), Held(g))
<1>1. CASE g.kind = "int64"
  BY <1>1, GroupRowsReport DEF Fits, LiveGroups
<1>2. CASE g.kind = "string"
  BY <1>2, DictReports DEF Fits
<1> QED BY <1>1, <1>2 DEF Fits

\* An aggregator that stands for the groups of t reports them.
LEMMA MatchReports ==
  ASSUME NULL \notin Int, NEW g, Fits(g), NEW t, IsMap(t, Keys), Matches(g, t)
  PROVE  Reports(g, t)
<1>1. CASE g.kind = "global"
  BY <1>1 DEF Reports, Matches, Total
<1>2. CASE g.kind # "global"
  <2> DEFINE h == Held(g)
             z == NullGroup(g)
             R == LiveGroups(g)
  <2>1. Report(R, h)
    BY <1>2, LiveGroupsReport
  <2>2. IsMap(h, Int) /\ NullFits(g)
    <3>1. IsMap(h, Int)
      BY <1>2, HeldIsMap
    <3>2. NullFits(g)
      BY <1>2 DEF Fits, IntFits, StringFits
    <3> QED BY <3>1, <3>2
  <2>3. t = MapInto(h, z)
    BY <1>2 DEF Matches, GroupsOf
  <2>4. DOMAIN z = IF g.hasNull THEN {NULL} ELSE {}
    BY EmptyIsMap DEF NullGroup
  <2>5. g.hasNull => z[NULL] = g.nullKey
    BY DEF NullGroup
  <2>6. DOMAIN h \subseteq Int /\ NULL \notin DOMAIN h
    BY <2>2 DEF IsMap
  <2> HIDE DEF h, z, R
  <2>7. DOMAIN t = DOMAIN h \cup DOMAIN z
    BY <2>3, JoinDomain
  <2>8. DOMAIN t \ {NULL} = DOMAIN h
    BY <2>4, <2>6, <2>7
  <2>9. \A k \in DOMAIN h : t[k] = h[k]
    <3>1. ASSUME NEW k \in DOMAIN h PROVE t[k] = h[k]
      <4>1. k \notin DOMAIN z /\ k \in DOMAIN h \cup DOMAIN z
        BY <2>4, <2>6
      <4> QED BY <2>3, <4>1, JoinAt
    <3> QED BY <3>1
  <2>10. NULL \in DOMAIN t <=> g.hasNull
    BY <2>2, <2>4, <2>6, <2>7 DEF NullFits
  <2>11. g.hasNull => t[NULL] = g.nullKey
    <3>1. SUFFICES ASSUME g.hasNull PROVE t[NULL] = g.nullKey
      OBVIOUS
    <3>2. NULL \in DOMAIN h \cup DOMAIN z /\ NULL \notin DOMAIN h
      BY <2>4, <2>6, <3>1
    <3>3. t[NULL] = z[NULL]
      BY <2>3, <3>2, JoinAt
    <3> QED BY <2>5, <3>1, <3>3
  <2>12. {<<r.key, r.measure>> : r \in R} = {<<k, t[k]>> : k \in DOMAIN h}
    <3>1. \A r \in R : r.key \in DOMAIN h /\ <<r.key, r.measure>> = <<r.key, t[r.key]>>
      BY <2>1, <2>9 DEF Report
    <3>2. \A k \in DOMAIN h : \E r \in R : <<r.key, r.measure>> = <<k, t[k]>>
      BY <2>1, <2>9 DEF Report
    <3> QED BY <3>1, <3>2
  <2>13. g.nullKey = IF NULL \in DOMAIN t THEN t[NULL] ELSE Zero
    BY <2>2, <2>10, <2>11 DEF NullFits
  <2> QED BY <1>2, <2>8, <2>10, <2>12, <2>13 DEF Reports, R
<1> QED BY <1>1, <1>2

-----------------------------------------------------------------------------
(* Any number of maps joined.                                               *)

Joins == INSTANCE FoldLemmas WITH Step <- MapInto, Holds <- OnKeys

LEMMA JoinedFold ==
  ASSUME NEW f, NEW a, NEW b
  PROVE  Joined(f, a, b) = Joins!FoldOf(EmptyMap, [i \in 1 .. b - a |-> f[a + i]])
BY DEF Joined, Joins!FoldOf, Joins!Latest, FoldLeft, MapThenFoldSet, Max

LEMMA JoinedNone ==
  ASSUME NEW f, NEW a \in Int
  PROVE  Joined(f, a, a) = EmptyMap
<1> DEFINE q == [i \in 1 .. a - a |-> f[a + i]]
<1>1. DOMAIN q = 1 .. 0
  OBVIOUS
<1> HIDE DEF q
<1>2. Joins!Trace([k \in 0 .. 0 |-> EmptyMap], EmptyMap, q, 0)
  BY DEF Joins!Trace
<1>3. Joins!FoldOf(EmptyMap, q) = [k \in 0 .. 0 |-> EmptyMap][0]
  BY <1>1, <1>2, Joins!TraceIsFold
<1>4. Joined(f, a, a) = Joins!FoldOf(EmptyMap, q)
  BY JoinedFold DEF q
<1> QED BY <1>3, <1>4

\* One map more.
LEMMA JoinedMore ==
  ASSUME NEW f, NEW a \in Int, NEW b \in Int, a <= b
  PROVE  Joined(f, a, b + 1) = MapInto(Joined(f, a, b), f[b + 1])
<1> DEFINE n == b - a
           q == [i \in 1 .. n |-> f[a + i]]
           r == [i \in 1 .. (b + 1) - a |-> f[a + i]]
<1>1. n \in Nat /\ (b + 1) - a = n + 1 /\ a + (n + 1) = b + 1
  OBVIOUS
<1>2. DOMAIN q = 1 .. n /\ DOMAIN r = 1 .. n + 1
  BY <1>1
<1>3. r[n + 1] = f[b + 1]
  BY <1>1
<1>4. \A k \in 1 .. n : r[k] = q[k]
  BY <1>1
<1>5. Joined(f, a, b) = Joins!FoldOf(EmptyMap, q)
  BY JoinedFold
<1>6. Joined(f, a, b + 1) = Joins!FoldOf(EmptyMap, r)
  BY JoinedFold
<1> HIDE DEF n, q, r
<1>7. n + 1 \in Nat
  BY <1>1
<1>8. PICK h : Joins!Trace(h, EmptyMap, r, n + 1) /\ Joins!FoldOf(EmptyMap, r) = h[n + 1]
  BY <1>2, <1>7, Joins!FoldSteps
<1>9. Joins!Trace(h, EmptyMap, q, n)
  <2>1. \A k \in 1 .. n : k \in 1 .. n + 1
    BY <1>1
  <2> QED BY <1>4, <1>8, <2>1 DEF Joins!Trace
<1>10. Joins!FoldOf(EmptyMap, q) = h[n]
  BY <1>1, <1>2, <1>9, Joins!TraceIsFold
<1>11. h[n + 1] = MapInto(h[n], r[n + 1])
  <2>1. n + 1 \in 1 .. n + 1 /\ (n + 1) - 1 = n
    BY <1>1
  <2>2. h[n + 1] = MapInto(h[(n + 1) - 1], r[n + 1])
    BY <1>8, <2>1 DEF Joins!Trace
  <2> QED BY <2>1, <2>2
<1> QED BY <1>3, <1>5, <1>6, <1>8, <1>10, <1>11

\* The maps of f from a + 1 to b are maps with keys in K.
AreMaps(f, a, b, K) == \A i \in a + 1 .. b : IsMap(f[i], K)

LEMMA JoinedIsMap ==
  ASSUME NEW f, NEW a \in Int, NEW b \in Int, a <= b, NEW K, AreMaps(f, a, b, K)
  PROVE  IsMap(Joined(f, a, b), K)
<1> DEFINE n == b - a
           S == {k \in 0 .. n : IsMap(Joined(f, a, a + k), K)}
<1>1. n \in Nat /\ a + n = b
  OBVIOUS
<1>2. 0 \in S
  <2>1. a + 0 = a /\ Joined(f, a, a) = EmptyMap
    BY JoinedNone
  <2> QED BY <1>1, <2>1, EmptyIsMap
<1>3. ASSUME NEW k \in 1 .. n, k - 1 \in S PROVE k \in S
  <2>1. a + (k - 1) \in Int /\ a <= a + (k - 1) /\ (a + (k - 1)) + 1 = a + k /\ a + k \in a + 1 .. b
    BY <1>1
  <2>2. Joined(f, a, a + k) = MapInto(Joined(f, a, a + (k - 1)), f[a + k])
    BY <2>1, JoinedMore
  <2>3. IsMap(f[a + k], K) /\ IsMap(Joined(f, a, a + (k - 1)), K)
    BY <1>3, <2>1 DEF AreMaps
  <2>4. IsMap(Joined(f, a, a + k), K)
    BY <2>2, <2>3, JoinIsMap
  <2> QED BY <1>1, <2>4
<1> HIDE DEF n
<1>4. 0 .. n \subseteq S
  <2> HIDE DEF S
  <2> QED BY <1>1, <1>2, <1>3, Joins!UpTo
<1>5. n \in S
  BY <1>1, <1>4
<1> QED BY <1>1, <1>5

\* The maps up to b, and from there on.
LEMMA JoinedSplit ==
  ASSUME NEW f, NEW a \in Int, NEW b \in Int, NEW c \in Int, a <= b, b <= c, NEW K, AreMaps(f, a, c, K)
  PROVE  Joined(f, a, c) = MapInto(Joined(f, a, b), Joined(f, b, c))
<1> DEFINE n == c - b
           S == {k \in 0 .. n : Joined(f, a, b + k) = MapInto(Joined(f, a, b), Joined(f, b, b + k))}
<1>1. n \in Nat /\ b + n = c
  OBVIOUS
<1>2. AreMaps(f, a, b, K)
  BY DEF AreMaps
<1>3. IsMap(Joined(f, a, b), K)
  BY <1>2, JoinedIsMap
<1>4. 0 \in S
  <2>1. b + 0 = b /\ Joined(f, b, b) = EmptyMap
    BY JoinedNone
  <2>2. MapInto(Joined(f, a, b), EmptyMap) = Joined(f, a, b)
    BY <1>3, JoinEmpty
  <2> QED BY <1>1, <2>1, <2>2
<1>5. ASSUME NEW k \in 1 .. n, k - 1 \in S PROVE k \in S
  <2> DEFINE m == b + (k - 1)
  <2>1. m \in Int /\ a <= m /\ b <= m /\ m <= c /\ m + 1 = b + k /\ m + 1 \in a + 1 .. c
    BY <1>1
  <2>2. Joined(f, a, m) = MapInto(Joined(f, a, b), Joined(f, b, m))
    BY <1>5
  <2> HIDE DEF m
  <2>3. Joined(f, a, m + 1) = MapInto(Joined(f, a, m), f[m + 1])
    BY <2>1, JoinedMore
  <2>4. Joined(f, b, m + 1) = MapInto(Joined(f, b, m), f[m + 1])
    BY <2>1, JoinedMore
  <2>5. IsMap(f[m + 1], K)
    BY <2>1 DEF AreMaps
  <2>6. IsMap(Joined(f, b, m), K)
    <3>1. AreMaps(f, b, m, K)
      BY <2>1 DEF AreMaps
    <3> QED BY <2>1, <3>1, JoinedIsMap
  <2>7. MapInto(MapInto(Joined(f, a, b), Joined(f, b, m)), f[m + 1])
          = MapInto(Joined(f, a, b), MapInto(Joined(f, b, m), f[m + 1]))
    BY <1>3, <2>5, <2>6, JoinAssociative
  <2>8. Joined(f, a, b + k) = MapInto(Joined(f, a, b), Joined(f, b, b + k))
    BY <2>1, <2>2, <2>3, <2>4, <2>7
  <2> QED BY <1>1, <2>8
<1> HIDE DEF n
<1>6. 0 .. n \subseteq S
  <2> HIDE DEF S
  <2> QED BY <1>1, <1>4, <1>5, Joins!UpTo
<1>7. n \in S
  BY <1>1, <1>6
<1> QED BY <1>1, <1>7

\* Steps that join one map each have joined them all.
LEMMA JoinedFollows ==
  ASSUME NEW f, NEW n \in Nat, NEW K, AreMaps(f, 0, n, K),
         NEW h, IsMap(h[0], K), \A k \in 1 .. n : h[k] = MapInto(h[k - 1], f[k])
  PROVE  h[n] = MapInto(h[0], Joined(f, 0, n))
<1> DEFINE S == {k \in 0 .. n : h[k] = MapInto(h[0], Joined(f, 0, k))}
<1>1. 0 \in S
  <2>1. Joined(f, 0, 0) = EmptyMap
    BY JoinedNone
  <2>2. MapInto(h[0], EmptyMap) = h[0]
    BY JoinEmpty
  <2> QED BY <2>1, <2>2
<1>2. ASSUME NEW k \in 1 .. n, k - 1 \in S PROVE k \in S
  <2>1. h[k] = MapInto(MapInto(h[0], Joined(f, 0, k - 1)), f[k])
    BY <1>2
  <2>2. k - 1 \in Int /\ 0 <= k - 1 /\ (k - 1) + 1 = k /\ k \in 0 + 1 .. n
    OBVIOUS
  <2>3. Joined(f, 0, (k - 1) + 1) = MapInto(Joined(f, 0, k - 1), f[(k - 1) + 1])
    BY <2>2, JoinedMore
  <2>4. IsMap(f[k], K)
    BY <2>2 DEF AreMaps
  <2>5. IsMap(Joined(f, 0, k - 1), K)
    <3>1. AreMaps(f, 0, k - 1, K)
      BY <2>2 DEF AreMaps
    <3> QED BY <2>2, <3>1, JoinedIsMap
  <2>6. MapInto(MapInto(h[0], Joined(f, 0, k - 1)), f[k])
          = MapInto(h[0], MapInto(Joined(f, 0, k - 1), f[k]))
    BY <2>4, <2>5, JoinAssociative
  <2>7. h[k] = MapInto(h[0], Joined(f, 0, k))
    BY <2>1, <2>2, <2>3, <2>6
  <2> QED BY <2>7
<1>3. 0 .. n \subseteq S
  <2> HIDE DEF S
  <2> QED BY <1>1, <1>2, Joins!UpTo
<1>4. n \in S
  BY <1>3
<1> QED BY <1>4

\* Maps that are joined in consecutive runs of them.
LEMMA JoinedRuns ==
  ASSUME NEW f, NEW n \in Nat, NEW s \in [0 .. n -> Int], NEW K, AreMaps(f, s[0], s[n], K),
         \A k \in 1 .. n : s[0] <= s[k - 1] /\ s[k - 1] <= s[k] /\ s[k] <= s[n],
         NEW g, \A k \in 1 .. n : g[k] = Joined(f, s[k - 1], s[k])
  PROVE  Joined(g, 0, n) = Joined(f, s[0], s[n])
<1> DEFINE S == {k \in 0 .. n : Joined(g, 0, k) = Joined(f, s[0], s[k])}
<1>0. 0 \in 0 .. n /\ n \in 0 .. n /\ \A k \in 1 .. n : k \in 0 .. n /\ k - 1 \in 0 .. n
  OBVIOUS
<1>1. 0 \in S
  <2>1. Joined(g, 0, 0) = EmptyMap /\ Joined(f, s[0], s[0]) = EmptyMap
    BY <1>0, JoinedNone
  <2> QED BY <1>0, <2>1
<1>2. ASSUME NEW k \in 1 .. n, k - 1 \in S PROVE k \in S
  <2>1. k - 1 \in Int /\ 0 <= k - 1 /\ (k - 1) + 1 = k
    OBVIOUS
  <2>2. Joined(g, 0, (k - 1) + 1) = MapInto(Joined(g, 0, k - 1), g[(k - 1) + 1])
    BY <2>1, JoinedMore
  <2>3. /\ s[0] \in Int /\ s[k - 1] \in Int /\ s[k] \in Int /\ s[n] \in Int
        /\ s[0] <= s[k - 1] /\ s[k - 1] <= s[k] /\ s[k] <= s[n]
    BY <1>0
  <2>4. AreMaps(f, s[0], s[k], K)
    BY <2>3 DEF AreMaps
  <2>5. Joined(f, s[0], s[k]) = MapInto(Joined(f, s[0], s[k - 1]), Joined(f, s[k - 1], s[k]))
    BY <2>3, <2>4, JoinedSplit
  <2>6. Joined(g, 0, k - 1) = Joined(f, s[0], s[k - 1]) /\ g[k] = Joined(f, s[k - 1], s[k])
    BY <1>2
  <2>7. Joined(g, 0, k) = Joined(f, s[0], s[k])
    BY <2>1, <2>2, <2>5, <2>6
  <2> QED BY <1>0, <2>7
<1>3. 0 .. n \subseteq S
  <2> HIDE DEF S
  <2> QED BY <1>1, <1>2, Joins!UpTo
<1>4. n \in S
  BY <1>0, <1>3
<1> QED BY <1>4

\* Maps that are joined of two each.
LEMMA JoinedPairs ==
  ASSUME NEW n \in Nat, NEW K, NEW f, AreMaps(f, 0, n, K), NEW g, AreMaps(g, 0, n, K),
         NEW h, \A k \in 1 .. n : h[k] = MapInto(f[k], g[k])
  PROVE  Joined(h, 0, n) = MapInto(Joined(f, 0, n), Joined(g, 0, n))
<1> DEFINE S == {k \in 0 .. n : Joined(h, 0, k) = MapInto(Joined(f, 0, k), Joined(g, 0, k))}
<1>1. 0 \in S
  <2>1. Joined(h, 0, 0) = EmptyMap /\ Joined(f, 0, 0) = EmptyMap /\ Joined(g, 0, 0) = EmptyMap
    BY JoinedNone
  <2>2. MapInto(EmptyMap, EmptyMap) = EmptyMap
    BY EmptyIsMap, JoinEmpty
  <2> QED BY <2>1, <2>2
<1>2. ASSUME NEW k \in 1 .. n, k - 1 \in S PROVE k \in S
  <2> DEFINE x == Joined(f, 0, k - 1)
             y == Joined(g, 0, k - 1)
  <2>1. k - 1 \in Int /\ 0 <= k - 1 /\ (k - 1) + 1 = k /\ k \in 0 + 1 .. n
    OBVIOUS
  <2>2. Joined(h, 0, (k - 1) + 1) = MapInto(Joined(h, 0, k - 1), h[(k - 1) + 1])
    BY <2>1, JoinedMore
  <2>3. Joined(f, 0, (k - 1) + 1) = MapInto(x, f[(k - 1) + 1])
    BY <2>1, JoinedMore
  <2>4. Joined(g, 0, (k - 1) + 1) = MapInto(y, g[(k - 1) + 1])
    BY <2>1, JoinedMore
  <2>5. IsMap(f[k], K) /\ IsMap(g[k], K)
    BY <2>1 DEF AreMaps
  <2>6. IsMap(x, K)
    <3>1. AreMaps(f, 0, k - 1, K)
      BY <2>1 DEF AreMaps
    <3> QED BY <2>1, <3>1, JoinedIsMap
  <2>7. IsMap(y, K)
    <3>1. AreMaps(g, 0, k - 1, K)
      BY <2>1 DEF AreMaps
    <3> QED BY <2>1, <3>1, JoinedIsMap
  <2>8. Joined(h, 0, k - 1) = MapInto(x, y) /\ h[k] = MapInto(f[k], g[k])
    BY <1>2
  <2> HIDE DEF x, y
  <2>9. MapInto(MapInto(x, y), MapInto(f[k], g[k])) = MapInto(MapInto(x, f[k]), MapInto(y, g[k]))
    BY <2>5, <2>6, <2>7, JoinsSwap
  <2>10. Joined(h, 0, k) = MapInto(Joined(f, 0, k), Joined(g, 0, k))
    BY <2>1, <2>2, <2>3, <2>4, <2>8, <2>9
  <2> QED BY <2>10
<1>3. 0 .. n \subseteq S
  <2> HIDE DEF S
  <2> QED BY <1>1, <1>2, Joins!UpTo
<1>4. n \in S
  BY <1>3
<1> QED BY <1>4

\* Rows added to groups are their own groups joined to them.
LEMMA RowsJoin ==
  ASSUME NULL \notin Int, NEW t, IsMap(t, Keys), NEW q \in Seq(Rows), NEW mod \in Int, NEW hasVal \in BOOLEAN
  PROVE  RefRows(t, q, mod, hasVal) = MapInto(t, RefRows(EmptyMap, q, mod, hasVal))
<1> DEFINE n == Len(q)
           e == RefEntries(q, mod, hasVal)
           one(k) == [x \in {e[k].key} |-> e[k].measure]
<1>1. n \in Nat /\ DOMAIN e = 1 .. n
  BY DEF RefEntries
<1>2. \A k \in 1 .. n : IsMap(one(k), Keys)
  <2> SUFFICES ASSUME NEW k \in 1 .. n PROVE IsMap(one(k), Keys)
    OBVIOUS
  <2>1. /\ e[k].key = IF q[k].key = NULL THEN NULL ELSE KeyOf(q[k].key, mod)
        /\ e[k].measure = MeasureAt(q[k], hasVal)
    BY DEF RefEntries, Entry
  <2>2. q[k] \in Rows
    OBVIOUS
  <2>3. MeasureAt(q[k], hasVal) \in Measures
    BY <2>2, MeasureType
  <2>4. q[k].key # NULL => q[k].key \in Int
    BY <2>2 DEF Rows
  <2>5. q[k].key # NULL => KeyOf(q[k].key, mod) \in Int
    BY <2>4, KeyOfType
  <2> HIDE DEF e
  <2>6. e[k].key \in Keys /\ e[k].measure \in Measures
    BY <2>1, <2>3, <2>5 DEF Keys
  <2> QED BY <2>6, SingleIsMap
<1> DEFINE f == [k \in 1 .. n |-> one(k)]
<1> HIDE DEF e, n
<1>3. AreMaps(f, 0, n, Keys)
  <2>1. \A k \in 1 .. n : f[k] = one(k)
    OBVIOUS
  <2>2. 0 + 1 = 1
    OBVIOUS
  <2> HIDE DEF f, one
  <2> QED BY <1>2, <2>1, <2>2 DEF AreMaps
<1>4. ASSUME NEW base, IsMap(base, Keys)
      PROVE  RefRows(base, q, mod, hasVal) = MapInto(base, Joined(f, 0, n))
  <2>1. PICK h : Maps!Trace(h, base, e, n) /\ Maps!FoldOf(base, e) = h[n]
    BY <1>1, Maps!FoldSteps
  <2>2. h[0] = base /\ \A k \in 1 .. n : h[k] = MapInto(h[k - 1], f[k])
    BY <2>1, IntoIsJoin DEF Maps!Trace, IntoMap
  <2>3. h[n] = MapInto(base, Joined(f, 0, n))
    <3>1. IsMap(h[0], Keys)
      BY <1>4, <2>2
    <3> HIDE DEF f
    <3> QED BY <1>1, <1>3, <2>2, <3>1, JoinedFollows
  <2> QED BY <2>1, <2>3, IntoMapFold DEF RefRows, IntoAll, e
<1>5. RefRows(t, q, mod, hasVal) = MapInto(t, Joined(f, 0, n))
  BY <1>4
<1>6. IsMap(EmptyMap, Keys)
  BY EmptyIsMap
<1>7. RefRows(EmptyMap, q, mod, hasVal) = MapInto(EmptyMap, Joined(f, 0, n))
  BY <1>4, <1>6
<1>8. MapInto(EmptyMap, Joined(f, 0, n)) = Joined(f, 0, n)
  <2>1. 0 \in Int /\ n \in Int /\ 0 <= n
    BY <1>1
  <2> HIDE DEF f
  <2>2. IsMap(Joined(f, 0, n), Keys)
    BY <1>3, <2>1, JoinedIsMap
  <2> QED BY <2>2, JoinEmpty
<1> QED BY <1>5, <1>7, <1>8

All == INSTANCE FoldLemmas WITH Step <- IntoAll, Holds <- OnKeys

\* Lists folded one after another.
LEMMA AllSteps ==
  ASSUME NEW n \in Nat, NEW e, DOMAIN e = 1 .. n
  PROVE  \E h : All!Trace(h, EmptyMap, e, n) /\ FoldLeft(IntoAll, EmptyMap, e) = h[n]
<1>1. FoldLeft(IntoAll, EmptyMap, e) = All!FoldOf(EmptyMap, e)
  BY DEF All!FoldOf, All!Latest, FoldLeft, MapThenFoldSet, Max
<1>2. \E h : All!Trace(h, EmptyMap, e, n) /\ All!FoldOf(EmptyMap, e) = h[n]
  BY All!FoldSteps
<1> QED BY <1>1, <1>2

\* The entries of several batches put into one map.
IntoGroups(e) == FoldLeft(IntoAll, EmptyMap, e)

\* n lists of rows, their entries and their groups.
RowLists(q, n) == \A i \in 1 .. n : q[i] \in Seq(Rows)
EntryLists(e, q, n, mod, hasVal) == e = [i \in 1 .. n |-> RefEntries(q[i], mod, hasVal)]
GroupLists(f, q, n, mod, hasVal) == \A i \in 1 .. n : f[i] = RefRows(EmptyMap, q[i], mod, hasVal)

\* The rows of one list after another are the groups of each list joined.
LEMMA ListsJoin ==
  ASSUME NULL \notin Int, NEW n \in Nat, NEW q, NEW mod \in Int, NEW hasVal \in BOOLEAN,
         RowLists(q, n), NEW e, EntryLists(e, q, n, mod, hasVal), NEW f, GroupLists(f, q, n, mod, hasVal)
  PROVE  IntoGroups(e) = Joined(f, 0, n)
<1>1. e = [i \in 1 .. n |-> RefEntries(q[i], mod, hasVal)] /\ DOMAIN e = 1 .. n
  BY DEF EntryLists
<1>2. PICK h : All!Trace(h, EmptyMap, e, n) /\ IntoGroups(e) = h[n]
  BY <1>1, AllSteps DEF IntoGroups
<1>3. h[0] = EmptyMap /\ \A k \in 1 .. n : h[k] = RefRows(h[k - 1], q[k], mod, hasVal)
  BY <1>1, <1>2 DEF All!Trace, RefRows
<1>4. IsMap(EmptyMap, Keys)
  BY EmptyIsMap
<1>5. \A k \in 1 .. n : IsMap(f[k], Keys)
  BY <1>4, RefRowsIsMap DEF RowLists, GroupLists
<1> DEFINE S == {k \in 0 .. n : IsMap(h[k], Keys)}
<1>6. 0 \in S
  BY <1>3, <1>4
<1>7. \A k \in 1 .. n : k - 1 \in S => k \in S
  <2> SUFFICES ASSUME NEW k \in 1 .. n, IsMap(h[k - 1], Keys) PROVE IsMap(h[k], Keys)
    OBVIOUS
  <2>1. q[k] \in Seq(Rows) /\ h[k] = RefRows(h[k - 1], q[k], mod, hasVal)
    BY <1>3 DEF RowLists
  <2> QED BY <2>1, RefRowsIsMap
<1>8. 0 .. n \subseteq S
  <2> HIDE DEF S
  <2> QED BY <1>6, <1>7, All!UpTo
<1>9. \A k \in 1 .. n : h[k] = MapInto(h[k - 1], f[k])
  <2> SUFFICES ASSUME NEW k \in 1 .. n PROVE h[k] = MapInto(h[k - 1], f[k])
    OBVIOUS
  <2>1. k - 1 \in 0 .. n
    OBVIOUS
  <2>2. IsMap(h[k - 1], Keys) /\ q[k] \in Seq(Rows)
    BY <1>8, <2>1 DEF RowLists
  <2>3. f[k] = RefRows(EmptyMap, q[k], mod, hasVal)
    BY DEF GroupLists
  <2> QED BY <1>3, <2>2, <2>3, RowsJoin
<1>10. AreMaps(f, 0, n, Keys)
  BY <1>5 DEF AreMaps
<1>11. h[n] = MapInto(EmptyMap, Joined(f, 0, n))
  BY <1>3, <1>4, <1>9, <1>10, JoinedFollows
<1>12. IsMap(Joined(f, 0, n), Keys)
  <2>1. 0 \in Int /\ n \in Int /\ 0 <= n
    OBVIOUS
  <2> QED BY <1>10, <2>1, JoinedIsMap
<1> QED BY <1>2, <1>11, <1>12, JoinEmpty
=============================================================================
