----------------------------- MODULE BasicLemmas ----------------------------
(***************************************************************************)
(* What the operators the models are built from return: the rows a         *)
(* transaction sees, least and greatest elements, and sums over the rows   *)
(* of a table.                                                             *)
(***************************************************************************)
EXTENDS Integers, Sequences, FiniteSetsExt, SequencesExt, Functions, Tables, FiniteSetTheorems, TLAPS

-----------------------------------------------------------------------------
(* Tables.                                                                 *)

\* A transaction sees each row it has written, and the stored value of the others.
LEMMA OverFacts ==
  ASSUME NEW f, NEW g
  PROVE  /\ DOMAIN Over(f, g) = DOMAIN f \union DOMAIN g
         /\ \A x \in DOMAIN f : Over(f, g)[x] = f[x]
         /\ \A x \in DOMAIN g \ DOMAIN f : Over(f, g)[x] = g[x]
  BY DEF Over

\* What it sees has the type of the table.
LEMMA OverType ==
  ASSUME NEW K, NEW V, NEW f \in Partial(K, V), NEW g \in Partial(K, V)
  PROVE  Over(f, g) \in Partial(K, V)
  <1>1. PICK A \in SUBSET K : f \in [A -> V]
    BY DEF Partial
  <1>2. PICK B \in SUBSET K : g \in [B -> V]
    BY DEF Partial
  <1>3. Over(f, g) \in [A \union B -> V]
    BY <1>1, <1>2 DEF Over
  <1> QED
    BY <1>3 DEF Partial

\* A partial function is one on part of its keys, and the converse.
LEMMA PartialFacts ==
  ASSUME NEW K, NEW V, NEW f \in Partial(K, V)
  PROVE  DOMAIN f \subseteq K /\ \A x \in DOMAIN f : f[x] \in V
  BY DEF Partial

LEMMA PartialIntro ==
  ASSUME NEW K, NEW V, NEW A \in SUBSET K, NEW f \in [A -> V]
  PROVE  f \in Partial(K, V)
  BY DEF Partial

\* The rows of a table in the order of their keys, and a row appended.
LEMMA SeqIsFunction ==
  ASSUME NEW V, NEW t \in Seq(V)
  PROVE  Len(t) \in Nat /\ DOMAIN t = 1 .. Len(t) /\ t \in [1 .. Len(t) -> V]
  OBVIOUS

LEMMA FunctionIsSeq ==
  ASSUME NEW V, NEW n \in Nat, NEW f \in [1 .. n -> V]
  PROVE  f \in Seq(V) /\ Len(f) = n
  OBVIOUS

LEMMA AppendFacts ==
  ASSUME NEW V, NEW t \in Seq(V), NEW e \in V
  PROVE  /\ Append(t, e) \in Seq(V) /\ Len(Append(t, e)) = Len(t) + 1 /\ Len(t) + 1 \in Nat
         /\ DOMAIN Append(t, e) = 1 .. Len(t) + 1 /\ DOMAIN t = 1 .. Len(t) /\ Len(t) \in Nat
         /\ \A k \in DOMAIN t : k \in DOMAIN Append(t, e) /\ Append(t, e)[k] = t[k]
         /\ Append(t, e)[Len(t) + 1] = e /\ Len(t) + 1 \in DOMAIN Append(t, e)
         /\ \A k \in DOMAIN Append(t, e) : k \in DOMAIN t \/ k = Len(t) + 1
  OBVIOUS

\* A sequence of whatever elements it has: a row appended, rows changed in place.
IsSeq(t) == t \in Seq({t[k] : k \in DOMAIN t})

LEMMA IsSeqFacts ==
  ASSUME NEW t, IsSeq(t)
  PROVE  Len(t) \in Nat /\ DOMAIN t = 1 .. Len(t) /\ (t = <<>> <=> Len(t) = 0)
  BY SeqIsFunction DEF IsSeq

LEMMA IsSeqIntro ==
  ASSUME NEW V, NEW t \in Seq(V)
  PROVE  IsSeq(t)
  <1> DEFINE W == {t[k] : k \in DOMAIN t}
  <1>1. Len(t) \in Nat /\ DOMAIN t = 1 .. Len(t) /\ t \in [1 .. Len(t) -> V]
    BY SeqIsFunction
  <1>2. t \in [1 .. Len(t) -> W]
    BY <1>1
  <1> HIDE DEF W
  <1>3. t \in Seq(W)
    BY <1>1, <1>2, FunctionIsSeq
  <1>4. t \in Seq({t[k] : k \in DOMAIN t})
    BY <1>3 DEF W
  <1> QED
    BY <1>4 DEF IsSeq

LEMMA SeqInMore ==
  ASSUME NEW t, IsSeq(t), NEW V, {t[k] : k \in DOMAIN t} \subseteq V
  PROVE  t \in Seq(V)
  <1>1. Len(t) \in Nat /\ DOMAIN t = 1 .. Len(t) /\ t \in [1 .. Len(t) -> {t[k] : k \in DOMAIN t}]
    BY SeqIsFunction DEF IsSeq
  <1>2. t \in [1 .. Len(t) -> V]
    BY <1>1
  <1> QED
    BY <1>1, <1>2, FunctionIsSeq

LEMMA IsSeqAppend ==
  ASSUME NEW t, IsSeq(t), NEW e
  PROVE  /\ IsSeq(Append(t, e)) /\ Len(Append(t, e)) = Len(t) + 1 /\ Append(t, e) # <<>>
         /\ Append(t, e)[Len(t) + 1] = e
         /\ \A k \in DOMAIN t : k \in DOMAIN Append(t, e) /\ Append(t, e)[k] = t[k]
         /\ \A k \in DOMAIN Append(t, e) : k \in DOMAIN t \/ k = Len(t) + 1
         /\ Len(t) + 1 \in DOMAIN Append(t, e) /\ Len(t) + 1 \notin DOMAIN t
  <1> DEFINE V == {t[k] : k \in DOMAIN t} \union {e}
  <1>1. t \in Seq(V) /\ e \in V
    BY SeqInMore
  <1> HIDE DEF V
  <1>2. Append(t, e) \in Seq(V)
    BY <1>1, AppendFacts
  <1>3. Append(t, e) # <<>>
    BY <1>1, <1>2, AppendFacts
  <1>4. IsSeq(Append(t, e))
    BY <1>2, IsSeqIntro
  <1>5. Len(t) + 1 \notin DOMAIN t
    BY IsSeqFacts
  <1>6. /\ Len(Append(t, e)) = Len(t) + 1 /\ Append(t, e)[Len(t) + 1] = e
        /\ \A k \in DOMAIN t : k \in DOMAIN Append(t, e) /\ Append(t, e)[k] = t[k]
        /\ \A k \in DOMAIN Append(t, e) : k \in DOMAIN t \/ k = Len(t) + 1
        /\ Len(t) + 1 \in DOMAIN Append(t, e)
    BY <1>1, AppendFacts
  <1> QED
    BY <1>3, <1>4, <1>5, <1>6

LEMMA IsSeqChange ==
  ASSUME NEW t, IsSeq(t), NEW u, u = [k \in DOMAIN t |-> u[k]]
  PROVE  IsSeq(u) /\ Len(u) = Len(t) /\ DOMAIN u = DOMAIN t
  <1> DEFINE V == {u[k] : k \in DOMAIN t}
  <1>1. Len(t) \in Nat /\ DOMAIN t = 1 .. Len(t) /\ DOMAIN u = DOMAIN t
    BY IsSeqFacts
  <1>2. u \in [1 .. Len(t) -> V]
    BY <1>1
  <1> HIDE DEF V
  <1>3. u \in Seq(V) /\ Len(u) = Len(t)
    BY <1>1, <1>2, FunctionIsSeq
  <1> QED
    BY <1>1, <1>3, IsSeqIntro

LEMMA IsSeqConcat ==
  ASSUME NEW t, IsSeq(t), NEW u, IsSeq(u)
  PROVE  /\ IsSeq(t \o u) /\ Len(t \o u) = Len(t) + Len(u)
         /\ \A k \in DOMAIN t : k \in DOMAIN (t \o u) /\ (t \o u)[k] = t[k]
         /\ \A k \in DOMAIN (t \o u) : k \in DOMAIN t \/ \E j \in DOMAIN u : (t \o u)[k] = u[j]
  <1> DEFINE V == {t[k] : k \in DOMAIN t} \union {u[k] : k \in DOMAIN u}
  <1>1. t \in Seq(V) /\ u \in Seq(V)
    BY SeqInMore
  <1> HIDE DEF V
  <1>2. t \o u \in Seq(V) /\ Len(t \o u) = Len(t) + Len(u) /\ Len(t) \in Nat /\ Len(u) \in Nat
    BY <1>1
  <1>3. \A k \in 1 .. Len(t) + Len(u) : (t \o u)[k] = IF k <= Len(t) THEN t[k] ELSE u[k - Len(t)]
    BY <1>1
  <1>4. DOMAIN t = 1 .. Len(t) /\ DOMAIN u = 1 .. Len(u) /\ DOMAIN (t \o u) = 1 .. Len(t) + Len(u)
    BY <1>1, <1>2
  <1>5. ASSUME NEW k \in DOMAIN (t \o u), k \notin DOMAIN t
        PROVE  \E j \in DOMAIN u : (t \o u)[k] = u[j]
    <2>1. k - Len(t) \in DOMAIN u /\ (t \o u)[k] = u[k - Len(t)]
      BY <1>2, <1>3, <1>4, <1>5
    <2> QED
      BY <2>1
  <1>6. \A k \in DOMAIN t : k \in DOMAIN (t \o u) /\ (t \o u)[k] = t[k]
    BY <1>2, <1>3, <1>4
  <1> QED
    BY <1>2, <1>5, <1>6, IsSeqIntro

-----------------------------------------------------------------------------
(* At most one.                                                            *)

AtMostOne(S) == \A x, y \in S : x = y

LEMMA AtMostOneFacts ==
  ASSUME NEW S, AtMostOne(S)
  PROVE  Cardinality(S) <= 1
  <1>1. S = {} \/ \E x : S = {x}
    BY DEF AtMostOne
  <1>2. CASE S = {}
    BY <1>2, FS_EmptySet
  <1>3. ASSUME NEW x, S = {x} PROVE Cardinality(S) <= 1
    <2>1. Cardinality({x}) = 1
      BY FS_Singleton
    <2> QED
      BY <1>3, <2>1
  <1> QED
    BY <1>1, <1>2, <1>3

-----------------------------------------------------------------------------
(* Natural numbers.                                                        *)

\* A non-empty set of naturals has a least element.
LEMMA LeastNatural ==
  ASSUME NEW T \in SUBSET Nat, T # {}
  PROVE  \E m \in T : \A n \in T : m <= n
  <1> DEFINE R == OpToRel(<, Nat)
  <1>1. IsWellFoundedOn(R, Nat)
    BY NatLessThanWellFounded
  <1>2. \A m, n \in Nat : n < m => <<n, m>> \in R
    BY DEF OpToRel
  <1> HIDE DEF R
  <1>3. PICK m \in T : \A n \in T : ~ (<<n, m>> \in R)
    BY <1>1, WFMin
  <1>4. ASSUME NEW n \in T PROVE m <= n
    <2>1. m \in Nat /\ n \in Nat
      OBVIOUS
    <2>2. ~(n < m)
      BY <1>2, <1>3, <2>1
    <2> QED
      BY <2>1, <2>2
  <1> QED
    BY <1>4

\* Induction: a set of naturals with 0 and every successor is all of them.
LEMMA InductiveSet ==
  ASSUME NEW T \in SUBSET Nat, 0 \in T, \A n \in T : n + 1 \in T
  PROVE  T = Nat
  <1> SUFFICES ASSUME Nat \ T # {} PROVE FALSE
    OBVIOUS
  <1>1. PICK m \in Nat \ T : \A n \in Nat \ T : m <= n
    BY LeastNatural
  <1>2. m # 0 /\ m - 1 \in Nat
    BY <1>1
  <1>3. m - 1 \in T
    BY <1>1, <1>2
  <1> QED
    BY <1>1, <1>2, <1>3

\* The maximum of a finite, non-empty set of naturals.
LEMMA MaxNat ==
  ASSUME NEW S \in SUBSET Nat, IsFiniteSet(S), S # {}
  PROVE  Max(S) \in S /\ \A x \in S : x <= Max(S)
  <1> DEFINE P(n) == \A f \in [1 .. n -> Nat] :
                       n > 0 => \E k \in 1 .. n : \A j \in 1 .. n : f[j] <= f[k]
             T == {n \in Nat : P(n)}
  <1>1. 0 \in T
    OBVIOUS
  <1>2. ASSUME NEW n \in T PROVE n + 1 \in T
    <2> SUFFICES P(n + 1)
      <3>1. n + 1 \in Nat
        BY <1>2
      <3> HIDE DEF P
      <3> QED BY <3>1
    <2> SUFFICES ASSUME NEW f \in [1 .. n + 1 -> Nat]
                 PROVE  \E k \in 1 .. n + 1 : \A j \in 1 .. n + 1 : f[j] <= f[k]
      OBVIOUS
    <2> DEFINE g == [j \in 1 .. n |-> f[j]]
    <2>1. CASE n = 0
      BY <2>1
    <2>2. CASE n > 0
      <3>1. g \in [1 .. n -> Nat]
        OBVIOUS
      <3>2. PICK k \in 1 .. n : \A j \in 1 .. n : g[j] <= g[k]
        BY <1>2, <2>2, <3>1
      <3>3. \A j \in 1 .. n : f[j] <= f[k]
        BY <3>2
      <3>4. k \in 1 .. n + 1 /\ n + 1 \in 1 .. n + 1 /\ \A j \in 1 .. n + 1 : j \in 1 .. n \/ j = n + 1
        BY <1>2
      <3>5. f[k] \in Nat /\ f[n + 1] \in Nat /\ \A j \in 1 .. n + 1 : f[j] \in Nat
        BY <3>4
      <3>6. CASE f[k] <= f[n + 1]
        <4>1. \A j \in 1 .. n + 1 : f[j] <= f[n + 1]
          BY <3>3, <3>4, <3>5, <3>6
        <4> QED BY <3>4, <4>1
      <3>7. CASE ~(f[k] <= f[n + 1])
        <4>1. \A j \in 1 .. n + 1 : f[j] <= f[k]
          BY <3>3, <3>4, <3>5, <3>7
        <4> QED BY <3>4, <4>1
      <3> QED BY <3>6, <3>7
    <2> QED BY <1>2, <2>1, <2>2
  <1>3. T = Nat
    <2> HIDE DEF T
    <2>1. T \subseteq Nat
      BY DEF T
    <2> QED BY <1>1, <1>2, <2>1, InductiveSet
  <1>4. PICK n \in Nat : ExistsSurjection(1 .. n, S)
    BY FS_NatSurjection
  <1>5. PICK f \in Surjection(1 .. n, S) : TRUE
    BY <1>4 DEF ExistsSurjection
  <1>6. f \in [1 .. n -> S] /\ \A x \in S : \E k \in 1 .. n : f[k] = x
    BY <1>5 DEF Surjection
  <1>7. n > 0
    <2>1. PICK x \in S : TRUE
      OBVIOUS
    <2>2. PICK k \in 1 .. n : f[k] = x
      BY <1>6
    <2> QED BY <2>2
  <1>8. PICK k \in 1 .. n : \A j \in 1 .. n : f[j] <= f[k]
    <2>1. f \in [1 .. n -> Nat]
      BY <1>6
    <2> QED BY <1>3, <1>7, <2>1
  <1>9. f[k] \in S /\ \A x \in S : f[k] >= x
    BY <1>6, <1>8
  <1>10. Max(S) \in S /\ \A x \in S : Max(S) >= x
    BY <1>9 DEF Max
  <1> QED
    BY <1>10

\* The minimum of a non-empty set of naturals.
LEMMA MinNat ==
  ASSUME NEW S \in SUBSET Nat, S # {}
  PROVE  Min(S) \in S /\ \A x \in S : Min(S) <= x
  BY LeastNatural DEF Min

\* The elements of a finite set one after the other.
LEMMA SetToSeqFacts ==
  ASSUME NEW S, IsFiniteSet(S)
  PROVE  /\ SetToSeq(S) \in Seq(S) /\ \A x \in S : \E k \in DOMAIN SetToSeq(S) : SetToSeq(S)[k] = x
         /\ Len(SetToSeq(S)) = Cardinality(S) /\ Cardinality(S) \in Nat
         /\ \A i, j \in DOMAIN SetToSeq(S) : SetToSeq(S)[i] = SetToSeq(S)[j] => i = j
  <1> DEFINE n == Cardinality(S)
             q == SetToSeq(S)
  <1>1. n \in Nat /\ ExistsBijection(1 .. n, S)
    BY FS_CardinalityType
  <1>2. \E f \in [1 .. n -> S] : IsInjective(f)
    BY <1>1 DEF ExistsBijection, Bijection, Injection
  <1>3. q \in [1 .. n -> S] /\ IsInjective(q)
    BY <1>2 DEF SetToSeq
  <1> HIDE DEF q
  <1>4. q \in Injection(1 .. n, S)
    BY <1>3 DEF Injection
  <1>5. Cardinality(1 .. n) = n
    BY <1>1, FS_Interval
  <1>6. q \in Surjection(1 .. n, S)
    <2> HIDE DEF n
    <2>1. Cardinality(1 .. n) = Cardinality(S) <=> q \in Surjection(1 .. n, S)
      BY <1>4, FS_Injection
    <2> QED BY <1>5, <2>1 DEF n
  <1>7. q \in Seq(S) /\ DOMAIN q = 1 .. n /\ Len(q) = n
    BY <1>1, <1>3
  <1>8. \A i, j \in DOMAIN q : q[i] = q[j] => i = j
    BY <1>3, <1>7 DEF IsInjective
  <1> QED
    BY <1>1, <1>6, <1>7, <1>8 DEF Surjection, q

-----------------------------------------------------------------------------
(* Sums.                                                                   *)

\* What the fold of the library computes: the element it takes first, and the function
\* on the subsets of S it defines.
Pick(s) == CHOOSE x \in s : TRUE
IsSum(g, f, S) == g = [s \in SUBSET S |-> IF s = {} THEN 0 ELSE f[Pick(s)] + g[s \ {Pick(s)}]]

LEMMA SumIs ==
  ASSUME NEW f, NEW S
  PROVE  SumFunctionOnSet(f, S) = (CHOOSE g : IsSum(g, f, S))[S]
  BY DEF SumFunctionOnSet, FoldFunctionOnSet, MapThenFoldSet, IsSum, Pick

LEMMA PickFacts ==
  ASSUME NEW s, IsFiniteSet(s), s # {}
  PROVE  /\ Pick(s) \in s /\ IsFiniteSet(s \ {Pick(s)})
         /\ Cardinality(s) \in Nat /\ Cardinality(s \ {Pick(s)}) = Cardinality(s) - 1
  <1>1. Pick(s) \in s
    BY DEF Pick
  <1> QED
    BY <1>1, FS_RemoveElement, FS_CardinalityType

\* Such a function exists on the subsets of a finite set.
LEMMA SumExists ==
  ASSUME NEW f, NEW S, IsFiniteSet(S)
  PROVE  \E g : IsSum(g, f, S)
  <1> DEFINE D(n) == {s \in SUBSET S : Cardinality(s) <= n}
             Body(g, s) == IF s = {} THEN 0 ELSE f[Pick(s)] + g[s \ {Pick(s)}]
             P(n) == \E g : /\ g = [s \in D(n) |-> g[s]]
                            /\ \A s \in D(n) : g[s] = Body(g, s)
             T == {n \in Nat : P(n)}
  <1>1. \A s \in SUBSET S : IsFiniteSet(s) /\ Cardinality(s) \in Nat /\ Cardinality(s) <= Cardinality(S)
    BY FS_Subset, FS_CardinalityType
  <1>2. 0 \in T
    <2> DEFINE z == [s \in D(0) |-> 0]
    <2>1. \A s \in D(0) : s = {}
      BY <1>1, FS_EmptySet
    <2>2. z = [s \in D(0) |-> z[s]] /\ \A s \in D(0) : z[s] = Body(z, s)
      BY <2>1
    <2> HIDE DEF z, Body, D
    <2>3. P(0)
      BY <2>2
    <2> QED BY <2>3
  <1>3. ASSUME NEW n \in T PROVE n + 1 \in T
    <2>1. n \in Nat /\ n + 1 \in Nat /\ P(n)
      <3> HIDE DEF P
      <3> QED BY <1>3
    <2>2. PICK g : g = [s \in D(n) |-> g[s]] /\ \A s \in D(n) : g[s] = Body(g, s)
      BY <2>1
    <2> DEFINE h == [s \in D(n + 1) |-> Body(g, s)]
    <2>3. ASSUME NEW s \in D(n + 1), s # {}
          PROVE  s \ {Pick(s)} \in D(n)
      <3>1. /\ IsFiniteSet(s) /\ Cardinality(s) \in Nat /\ Cardinality(s) <= n + 1
            /\ s \ {Pick(s)} \in SUBSET S
        BY <1>1
      <3>2. Cardinality(s \ {Pick(s)}) = Cardinality(s) - 1
        BY <2>3, <3>1, PickFacts
      <3> QED BY <2>1, <3>1, <3>2
    <2>4. \A s \in D(n) : s \in D(n + 1)
      BY <1>1, <2>1
    <2>5. ASSUME NEW s \in D(n + 1) PROVE h[s] = Body(h, s)
      <3>1. CASE s = {}
        BY <3>1
      <3>2. CASE s # {}
        <4> DEFINE q == s \ {Pick(s)}
        <4>1. q \in D(n) /\ q \in D(n + 1)
          BY <2>3, <2>4, <3>2
        <4> HIDE DEF q, D
        <4>2. h[q] = Body(g, q) /\ g[q] = Body(g, q)
          BY <2>2, <4>1
        <4>3. h[s] = f[Pick(s)] + g[q]
          BY <3>2 DEF q
        <4> QED BY <3>2, <4>2, <4>3 DEF q
      <3> QED BY <3>1, <3>2
    <2>6. h = [s \in D(n + 1) |-> h[s]]
      OBVIOUS
    <2> HIDE DEF h, Body, D
    <2>7. P(n + 1)
      BY <2>5, <2>6
    <2> QED BY <2>1, <2>7
  <1>4. Cardinality(S) \in T
    <2> HIDE DEF T
    <2>1. T \subseteq Nat
      BY DEF T
    <2> QED BY <1>1, <1>2, <1>3, <2>1, InductiveSet
  <1>5. PICK g : g = [s \in D(Cardinality(S)) |-> g[s]] /\ \A s \in D(Cardinality(S)) : g[s] = Body(g, s)
    BY <1>4
  <1>6. D(Cardinality(S)) = SUBSET S
    BY <1>1
  <1> HIDE DEF D
  <1>7. IsSum(g, f, S)
    BY <1>5, <1>6 DEF IsSum
  <1> QED
    BY <1>7

\* It is the same on the subsets of two sets.
LEMMA SumUnique ==
  ASSUME NEW f, NEW S, NEW R \in SUBSET S, IsFiniteSet(S), NEW g, NEW h, IsSum(g, f, S), IsSum(h, f, R)
  PROVE  g[R] = h[R]
  <1> DEFINE T == {n \in Nat : \A s \in SUBSET R : Cardinality(s) = n => g[s] = h[s]}
  <1>1. \A s \in SUBSET R : IsFiniteSet(s) /\ Cardinality(s) \in Nat
    BY FS_Subset, FS_CardinalityType
  <1>2. \A s \in SUBSET R : /\ g[s] = IF s = {} THEN 0 ELSE f[Pick(s)] + g[s \ {Pick(s)}]
                            /\ h[s] = IF s = {} THEN 0 ELSE f[Pick(s)] + h[s \ {Pick(s)}]
    BY DEF IsSum
  <1>3. 0 \in T
    BY <1>1, <1>2, FS_EmptySet
  <1>4. ASSUME NEW n \in T PROVE n + 1 \in T
    <2>1. n \in Nat /\ n + 1 \in Nat
      OBVIOUS
    <2>2. ASSUME NEW s \in SUBSET R, Cardinality(s) = n + 1 PROVE g[s] = h[s]
      <3>1. s # {}
        BY <2>1, <2>2, FS_EmptySet
      <3>2. Cardinality(s \ {Pick(s)}) = n /\ s \ {Pick(s)} \in SUBSET R
        BY <1>1, <2>1, <2>2, <3>1, PickFacts
      <3>3. g[s \ {Pick(s)}] = h[s \ {Pick(s)}]
        BY <1>4, <3>2
      <3> QED BY <1>2, <3>1, <3>3
    <2> QED BY <2>1, <2>2
  <1>5. T = Nat
    <2> HIDE DEF T
    <2>1. T \subseteq Nat
      BY DEF T
    <2> QED BY <1>3, <1>4, <2>1, InductiveSet
  <1>6. Cardinality(R) \in T
    BY <1>1, <1>5
  <1> QED
    BY <1>6

\* The sum takes an element at a time.
LEMMA SumRecursion ==
  ASSUME NEW f, NEW S, IsFiniteSet(S)
  PROVE  SumFunctionOnSet(f, S) =
           IF S = {} THEN 0 ELSE f[Pick(S)] + SumFunctionOnSet(f, S \ {Pick(S)})
  <1> DEFINE g == CHOOSE k : IsSum(k, f, S)
             R == S \ {Pick(S)}
             h == CHOOSE k : IsSum(k, f, R)
  <1>1. IsSum(g, f, S)
    BY SumExists
  <1>2. IsFiniteSet(R)
    BY FS_Subset
  <1>3. IsSum(h, f, R)
    BY <1>2, SumExists
  <1>4. SumFunctionOnSet(f, S) = g[S] /\ SumFunctionOnSet(f, R) = h[R]
    BY SumIs
  <1> HIDE DEF g, h
  <1>5. g[R] = h[R]
    BY <1>1, <1>3, SumUnique
  <1>6. g[S] = IF S = {} THEN 0 ELSE f[Pick(S)] + g[R]
    BY <1>1 DEF IsSum
  <1> QED
    BY <1>4, <1>5, <1>6

LEMMA SumEmpty ==
  ASSUME NEW f
  PROVE  SumFunctionOnSet(f, {}) = 0
  BY SumRecursion, FS_EmptySet

\* The subsets of a finite set by their size, for the inductions below.
LEMMA Smaller ==
  ASSUME NEW S, IsFiniteSet(S), NEW s \in SUBSET S
  PROVE  /\ IsFiniteSet(s) /\ Cardinality(s) \in Nat
         /\ Cardinality(s) = 0 => s = {}
         /\ \A x \in s : s \ {x} \in SUBSET S /\ Cardinality(s \ {x}) = Cardinality(s) - 1
         /\ s # {} => Pick(s) \in s
  <1>1. IsFiniteSet(s)
    BY FS_Subset
  <1>2. Cardinality(s) \in Nat /\ (Cardinality(s) = 0 => s = {})
    BY <1>1, FS_CardinalityType, FS_EmptySet
  <1>3. \A x \in s : Cardinality(s \ {x}) = Cardinality(s) - 1
    BY <1>1, FS_RemoveElement
  <1>4. s # {} => Pick(s) \in s
    BY DEF Pick
  <1> QED
    BY <1>1, <1>2, <1>3, <1>4

\* A sum of integers is one.
LEMMA SumType ==
  ASSUME NEW S, IsFiniteSet(S), NEW f, \A x \in S : f[x] \in Int
  PROVE  SumFunctionOnSet(f, S) \in Int
  <1> DEFINE T == {n \in Nat : \A s \in SUBSET S : Cardinality(s) = n => SumFunctionOnSet(f, s) \in Int}
  <1>1. \A s \in SUBSET S : IsFiniteSet(s) /\ Cardinality(s) \in Nat /\ (Cardinality(s) = 0 => s = {})
    BY Smaller
  <1>2. 0 \in T
    BY <1>1, SumEmpty
  <1>3. ASSUME NEW n \in T PROVE n + 1 \in T
    <2>1. n \in Nat /\ n + 1 \in Nat
      OBVIOUS
    <2>2. ASSUME NEW s \in SUBSET S, Cardinality(s) = n + 1 PROVE SumFunctionOnSet(f, s) \in Int
      <3>1. IsFiniteSet(s) /\ s # {}
        BY <1>1, <2>1, <2>2, FS_EmptySet
      <3>2. Pick(s) \in s /\ \A x \in s : s \ {x} \in SUBSET S /\ Cardinality(s \ {x}) = n
        BY <2>1, <2>2, <3>1, Smaller
      <3>3. SumFunctionOnSet(f, s \ {Pick(s)}) \in Int
        BY <1>3, <3>2
      <3> QED BY <3>1, <3>2, <3>3, SumRecursion
    <2> QED BY <2>1, <2>2
  <1>4. T = Nat
    <2> HIDE DEF T
    <2>1. T \subseteq Nat
      BY DEF T
    <2> QED BY <1>2, <1>3, <2>1, InductiveSet
  <1>5. Cardinality(S) \in T
    BY <1>1, <1>4
  <1> QED
    BY <1>5

\* Functions that agree on a set have the same sum over it.
LEMMA SumAgree ==
  ASSUME NEW S, IsFiniteSet(S), NEW f, NEW g, \A x \in S : f[x] = g[x]
  PROVE  SumFunctionOnSet(f, S) = SumFunctionOnSet(g, S)
  <1> DEFINE T == {n \in Nat : \A s \in SUBSET S :
                     Cardinality(s) = n => SumFunctionOnSet(f, s) = SumFunctionOnSet(g, s)}
  <1>1. \A s \in SUBSET S : IsFiniteSet(s) /\ Cardinality(s) \in Nat /\ (Cardinality(s) = 0 => s = {})
    BY Smaller
  <1>2. 0 \in T
    BY <1>1, SumEmpty
  <1>3. ASSUME NEW n \in T PROVE n + 1 \in T
    <2>1. n \in Nat /\ n + 1 \in Nat
      OBVIOUS
    <2>2. ASSUME NEW s \in SUBSET S, Cardinality(s) = n + 1
          PROVE  SumFunctionOnSet(f, s) = SumFunctionOnSet(g, s)
      <3>1. IsFiniteSet(s) /\ s # {}
        BY <1>1, <2>1, <2>2, FS_EmptySet
      <3>2. Pick(s) \in s /\ \A x \in s : s \ {x} \in SUBSET S /\ Cardinality(s \ {x}) = n
        BY <2>1, <2>2, <3>1, Smaller
      <3>3. SumFunctionOnSet(f, s \ {Pick(s)}) = SumFunctionOnSet(g, s \ {Pick(s)})
        BY <1>3, <3>2
      <3> QED BY <3>1, <3>2, <3>3, SumRecursion
    <2> QED BY <2>1, <2>2
  <1>4. T = Nat
    <2> HIDE DEF T
    <2>1. T \subseteq Nat
      BY DEF T
    <2> QED BY <1>2, <1>3, <2>1, InductiveSet
  <1>5. Cardinality(S) \in T
    BY <1>1, <1>4
  <1> QED
    BY <1>5

\* The order does not matter: any element can be taken apart.
LEMMA SumRemove ==
  ASSUME NEW S, IsFiniteSet(S), NEW f, \A x \in S : f[x] \in Int, NEW a \in S
  PROVE  SumFunctionOnSet(f, S) = f[a] + SumFunctionOnSet(f, S \ {a})
  <1> DEFINE Sum(s) == SumFunctionOnSet(f, s)
             T == {n \in Nat : \A s \in SUBSET S : Cardinality(s) = n =>
                     \A x \in s : Sum(s) = f[x] + Sum(s \ {x})}
  <1>1. \A s \in SUBSET S : IsFiniteSet(s) /\ Cardinality(s) \in Nat
    BY FS_Subset, FS_CardinalityType
  <1>2. \A s \in SUBSET S : Sum(s) \in Int
    BY <1>1, SumType
  <1>3. \A s \in SUBSET S : s # {} => Sum(s) = f[Pick(s)] + Sum(s \ {Pick(s)})
    BY <1>1, SumRecursion
  <1> HIDE DEF Sum
  <1>4. 0 \in T
    BY <1>1, FS_EmptySet
  <1>5. ASSUME NEW n \in T PROVE n + 1 \in T
    <2>1. n \in Nat /\ n + 1 \in Nat
      OBVIOUS
    <2>2. ASSUME NEW s \in SUBSET S, Cardinality(s) = n + 1, NEW x \in s
          PROVE  Sum(s) = f[x] + Sum(s \ {x})
      <3> DEFINE p == Pick(s)
      <3>1. IsFiniteSet(s) /\ s # {}
        BY <1>1
      <3>2. \A y \in s : Cardinality(s \ {y}) = n /\ s \ {y} \in SUBSET S
        BY <2>1, <2>2, Smaller
      <3>3. p \in s /\ p \in S /\ Sum(s) = f[p] + Sum(s \ {p})
        BY <1>3, <3>1, Smaller
      <3> HIDE DEF p
      <3>4. CASE x = p
        BY <3>3, <3>4
      <3>5. CASE x # p
        <4> DEFINE r == (s \ {p}) \ {x}
        <4>1. Sum(s \ {p}) = f[x] + Sum(r)
          BY <1>5, <3>2, <3>3, <3>5
        <4>2. r = (s \ {x}) \ {p}
          OBVIOUS
        <4>3. Sum(s \ {x}) = f[p] + Sum(r)
          BY <1>5, <3>2, <3>3, <3>5, <4>2
        <4>4. f[p] \in Int /\ f[x] \in Int /\ Sum(r) \in Int
          BY <1>2, <3>2, <3>3
        <4> HIDE DEF r
        <4> QED BY <3>3, <4>1, <4>3, <4>4
      <3> QED BY <3>4, <3>5
    <2> QED BY <2>1, <2>2
  <1>6. T = Nat
    <2> HIDE DEF T
    <2>1. T \subseteq Nat
      BY DEF T
    <2> QED BY <1>4, <1>5, <2>1, InductiveSet
  <1>7. Cardinality(S) \in T
    BY <1>1, <1>6
  <1> QED
    BY <1>7 DEF Sum

\* A row more, and a row changed.
LEMMA SumAdd ==
  ASSUME NEW S, IsFiniteSet(S), NEW a, a \notin S, NEW f, \A x \in S \union {a} : f[x] \in Int
  PROVE  /\ IsFiniteSet(S \union {a})
         /\ SumFunctionOnSet(f, S \union {a}) = f[a] + SumFunctionOnSet(f, S)
  <1>1. IsFiniteSet(S \union {a})
    BY FS_AddElement
  <1>2. (S \union {a}) \ {a} = S
    OBVIOUS
  <1> DEFINE R == S \union {a}
  <1>3. R \ {a} = S /\ a \in R /\ \A x \in R : f[x] \in Int
    BY <1>2
  <1> HIDE DEF R
  <1>4. SumFunctionOnSet(f, R) = f[a] + SumFunctionOnSet(f, R \ {a})
    BY <1>1, <1>3, SumRemove DEF R
  <1> QED
    BY <1>1, <1>3, <1>4 DEF R

LEMMA SumChange ==
  ASSUME NEW S, IsFiniteSet(S), NEW a \in S, NEW f, NEW g,
         \A x \in S : f[x] \in Int /\ g[x] \in Int, \A x \in S \ {a} : f[x] = g[x]
  PROVE  SumFunctionOnSet(g, S) = SumFunctionOnSet(f, S) + g[a] - f[a]
  <1>1. SumFunctionOnSet(f, S) = f[a] + SumFunctionOnSet(f, S \ {a})
    BY SumRemove
  <1>2. SumFunctionOnSet(g, S) = g[a] + SumFunctionOnSet(g, S \ {a})
    BY SumRemove
  <1>3. IsFiniteSet(S \ {a})
    BY FS_RemoveElement
  <1>4. SumFunctionOnSet(f, S \ {a}) = SumFunctionOnSet(g, S \ {a}) /\ SumFunctionOnSet(f, S \ {a}) \in Int
    BY <1>3, SumAgree, SumType
  <1> QED
    BY <1>1, <1>2, <1>4

\* Induction over a finite set, one element at a time.
LEMMA FiniteInduction ==
  ASSUME NEW S, IsFiniteSet(S), NEW F \in SUBSET SUBSET S, {} \in F,
         \A s \in F : \A x \in S \ s : s \union {x} \in F
  PROVE  S \in F
  <1> DEFINE T == {n \in Nat : \A s \in SUBSET S : Cardinality(s) = n => s \in F}
  <1>1. \A s \in SUBSET S : IsFiniteSet(s) /\ Cardinality(s) \in Nat /\ (Cardinality(s) = 0 => s = {})
    BY Smaller
  <1>2. 0 \in T
    BY <1>1
  <1>3. ASSUME NEW n \in T PROVE n + 1 \in T
    <2>1. n \in Nat /\ n + 1 \in Nat
      OBVIOUS
    <2>2. ASSUME NEW s \in SUBSET S, Cardinality(s) = n + 1 PROVE s \in F
      <3>1. PICK x \in s : TRUE
        <4>1. s # {}
          BY <1>1, <2>1, <2>2, FS_EmptySet
        <4> QED BY <4>1
      <3> DEFINE r == s \ {x}
      <3>2. r \in SUBSET S /\ Cardinality(r) = n
        <4>1. r \in SUBSET S /\ Cardinality(r) = Cardinality(s) - 1
          BY Smaller
        <4> QED BY <2>1, <2>2, <4>1
      <3>3. r \in F /\ x \in S \ r /\ r \union {x} = s
        BY <1>3, <3>2
      <3> QED BY <3>3
    <2> QED BY <2>1, <2>2
  <1>4. T = Nat
    <2> HIDE DEF T
    <2>1. T \subseteq Nat
      BY DEF T
    <2> QED BY <1>2, <1>3, <2>1, InductiveSet
  <1> QED
    BY <1>1, <1>4

\* A sum of natural numbers is one, at least each of them.
LEMMA SumNat ==
  ASSUME NEW S, IsFiniteSet(S), NEW f, \A x \in S : f[x] \in Nat
  PROVE  /\ SumFunctionOnSet(f, S) \in Nat
         /\ \A x \in S : f[x] <= SumFunctionOnSet(f, S)
  <1>1. \A s \in SUBSET S : SumFunctionOnSet(f, s) \in Nat
    <2> SUFFICES ASSUME NEW R \in SUBSET S PROVE SumFunctionOnSet(f, R) \in Nat
      OBVIOUS
    <2> DEFINE G == {s \in SUBSET R : SumFunctionOnSet(f, s) \in Nat}
    <2>1. {} \in G
      BY SumEmpty
    <2>2. ASSUME NEW s \in G, NEW x \in R \ s PROVE s \union {x} \in G
      <3>1. IsFiniteSet(s) /\ \A y \in s \union {x} : f[y] \in Int
        BY FS_Subset
      <3>2. SumFunctionOnSet(f, s \union {x}) = f[x] + SumFunctionOnSet(f, s)
        BY <3>1, SumAdd
      <3> QED BY <3>2
    <2>3. R \in G
      <3> HIDE DEF G
      <3>1. G \in SUBSET SUBSET R /\ IsFiniteSet(R)
        BY FS_Subset DEF G
      <3> QED BY <2>1, <2>2, <3>1, FiniteInduction
    <2> QED BY <2>3
  <1>2. ASSUME NEW x \in S PROVE f[x] <= SumFunctionOnSet(f, S)
    <2>1. SumFunctionOnSet(f, S) = f[x] + SumFunctionOnSet(f, S \ {x})
      BY SumRemove
    <2> QED BY <1>1, <2>1
  <1> QED
    BY <1>1, <1>2

\* Sums over two sets that have nothing in common.
LEMMA SumSplit ==
  ASSUME NEW A, NEW B, IsFiniteSet(A), IsFiniteSet(B), A \intersect B = {},
         NEW f, \A x \in A \union B : f[x] \in Int
  PROVE  SumFunctionOnSet(f, A \union B) = SumFunctionOnSet(f, A) + SumFunctionOnSet(f, B)
  <1> DEFINE Sum(s) == SumFunctionOnSet(f, s)
             F == {s \in SUBSET B : Sum(A \union s) = Sum(A) + Sum(s)}
  <1>1. \A s \in SUBSET (A \union B) : IsFiniteSet(s) /\ Sum(s) \in Int
    <2>1. IsFiniteSet(A \union B)
      BY FS_Union
    <2> QED BY <2>1, FS_Subset, SumType
  <1>2. \A s \in SUBSET (A \union B), x \in A \union B : x \notin s => Sum(s \union {x}) = f[x] + Sum(s)
    BY <1>1, SumAdd
  <1>3. Sum({}) = 0
    BY SumEmpty
  <1> HIDE DEF Sum
  <1>4. {} \in F
    <2>1. A \union {} = A
      OBVIOUS
    <2> QED BY <1>1, <1>3, <2>1
  <1>5. ASSUME NEW s \in F, NEW x \in B \ s PROVE s \union {x} \in F
    <2>1. x \notin A \union s /\ A \union (s \union {x}) = (A \union s) \union {x}
      OBVIOUS
    <2>2. Sum((A \union s) \union {x}) = f[x] + Sum(A \union s) /\ Sum(s \union {x}) = f[x] + Sum(s)
      BY <1>2, <2>1
    <2>3. Sum(A) \in Int /\ Sum(s) \in Int /\ f[x] \in Int /\ Sum(A \union s) = Sum(A) + Sum(s)
      BY <1>1
    <2> DEFINE a == Sum(A)
               b == Sum(s)
               c == Sum(A \union s)
               d == Sum(s \union {x})
               e == Sum(A \union (s \union {x}))
    <2>4. e = f[x] + c /\ d = f[x] + b /\ a \in Int /\ b \in Int /\ f[x] \in Int /\ c = a + b
      BY <2>1, <2>2, <2>3
    <2> HIDE DEF a, b, c, d, e
    <2>5. e = a + d
      BY <2>4
    <2> QED BY <2>5 DEF a, d, e
  <1>6. B \in F
    <2> HIDE DEF F
    <2>1. F \in SUBSET SUBSET B
      BY DEF F
    <2> QED BY <1>4, <1>5, <2>1, FiniteInduction
  <1> QED
    BY <1>6 DEF Sum

\* A sum of zeros; what adds nothing can be left out.
LEMMA SumZero ==
  ASSUME NEW S, IsFiniteSet(S), NEW f, \A x \in S : f[x] = 0
  PROVE  SumFunctionOnSet(f, S) = 0
  <1> DEFINE F == {s \in SUBSET S : SumFunctionOnSet(f, s) = 0}
  <1>1. {} \in F
    BY SumEmpty
  <1>2. ASSUME NEW s \in F, NEW x \in S \ s PROVE s \union {x} \in F
    <2>1. IsFiniteSet(s) /\ \A y \in s \union {x} : f[y] \in Int
      BY FS_Subset
    <2>2. SumFunctionOnSet(f, s \union {x}) = f[x] + SumFunctionOnSet(f, s)
      BY <2>1, SumAdd
    <2> QED BY <2>2
  <1>3. S \in F
    <2> HIDE DEF F
    <2>1. F \in SUBSET SUBSET S
      BY DEF F
    <2> QED BY <1>1, <1>2, <2>1, FiniteInduction
  <1> QED
    BY <1>3

LEMMA SumLeaveOut ==
  ASSUME NEW S, IsFiniteSet(S), NEW R \in SUBSET S, NEW f, \A x \in S : f[x] \in Int,
         \A x \in S \ R : f[x] = 0
  PROVE  SumFunctionOnSet(f, S) = SumFunctionOnSet(f, R)
  <1> DEFINE Q == S \ R
  <1>1. IsFiniteSet(R) /\ IsFiniteSet(Q) /\ R \union Q = S /\ R \intersect Q = {}
    BY FS_Subset
  <1>2. SumFunctionOnSet(f, Q) = 0
    BY <1>1, SumZero
  <1>3. SumFunctionOnSet(f, R \union Q) = SumFunctionOnSet(f, R) + SumFunctionOnSet(f, Q)
    <2> HIDE DEF Q
    <2> QED BY <1>1, SumSplit
  <1>4. SumFunctionOnSet(f, R) \in Int
    BY <1>1, SumType
  <1> HIDE DEF Q
  <1>5. SumFunctionOnSet(f, R \union Q) = SumFunctionOnSet(f, R)
    BY <1>2, <1>3, <1>4
  <1> QED
    BY <1>1, <1>5

\* The sum of a sum, and of less.
LEMMA SumPlus ==
  ASSUME NEW S, IsFiniteSet(S), NEW f, NEW g, NEW h,
         \A x \in S : f[x] \in Int /\ g[x] \in Int /\ h[x] = f[x] + g[x]
  PROVE  SumFunctionOnSet(h, S) = SumFunctionOnSet(f, S) + SumFunctionOnSet(g, S)
  <1> DEFINE F == {s \in SUBSET S : SumFunctionOnSet(h, s) = SumFunctionOnSet(f, s) + SumFunctionOnSet(g, s)}
  <1>1. {} \in F
    BY SumEmpty
  <1>2. ASSUME NEW s \in F, NEW x \in S \ s PROVE s \union {x} \in F
    <2>1. IsFiniteSet(s) /\ \A y \in s \union {x} : f[y] \in Int /\ g[y] \in Int /\ h[y] \in Int
      BY FS_Subset
    <2>2. /\ SumFunctionOnSet(f, s) \in Int /\ SumFunctionOnSet(g, s) \in Int
      BY <2>1, SumType
    <2>3. SumFunctionOnSet(f, s \union {x}) = f[x] + SumFunctionOnSet(f, s)
      BY <2>1, SumAdd
    <2>4. SumFunctionOnSet(g, s \union {x}) = g[x] + SumFunctionOnSet(g, s)
      BY <2>1, SumAdd
    <2>5. SumFunctionOnSet(h, s \union {x}) = h[x] + SumFunctionOnSet(h, s)
      BY <2>1, SumAdd
    <2>6. f[x] \in Int /\ g[x] \in Int /\ h[x] = f[x] + g[x]
      OBVIOUS
    <2> QED BY <2>2, <2>3, <2>4, <2>5, <2>6
  <1>3. S \in F
    <2> HIDE DEF F
    <2>1. F \in SUBSET SUBSET S
      BY DEF F
    <2> QED BY <1>1, <1>2, <2>1, FiniteInduction
  <1> QED
    BY <1>3

LEMMA SumMonotone ==
  ASSUME NEW S, IsFiniteSet(S), NEW f, NEW g,
         \A x \in S : f[x] \in Int /\ g[x] \in Int /\ f[x] <= g[x]
  PROVE  SumFunctionOnSet(f, S) <= SumFunctionOnSet(g, S)
  <1> DEFINE d == [x \in S |-> g[x] - f[x]]
  <1>1. \A x \in S : f[x] \in Int /\ d[x] \in Int /\ g[x] = f[x] + d[x] /\ d[x] \in Nat
    OBVIOUS
  <1> HIDE DEF d
  <1>2. SumFunctionOnSet(g, S) = SumFunctionOnSet(f, S) + SumFunctionOnSet(d, S)
    BY <1>1, SumPlus
  <1>3. SumFunctionOnSet(d, S) \in Nat /\ SumFunctionOnSet(f, S) \in Int
    BY <1>1, SumNat, SumType
  <1> QED
    BY <1>2, <1>3

LEMMA SumPart ==
  ASSUME NEW S, IsFiniteSet(S), NEW R \in SUBSET S, NEW f, \A x \in S : f[x] \in Nat
  PROVE  /\ SumFunctionOnSet(f, R) \in Nat
         /\ SumFunctionOnSet(f, R) <= SumFunctionOnSet(f, S)
  <1> DEFINE Q == S \ R
  <1>1. IsFiniteSet(R) /\ IsFiniteSet(Q) /\ R \union Q = S /\ R \intersect Q = {}
    BY FS_Subset
  <1>2. \A x \in R \union Q : f[x] \in Int
    BY <1>1
  <1>3. SumFunctionOnSet(f, R \union Q) = SumFunctionOnSet(f, R) + SumFunctionOnSet(f, Q)
    <2> HIDE DEF Q
    <2> QED BY <1>1, <1>2, SumSplit
  <1>4. SumFunctionOnSet(f, R) \in Nat
    BY <1>1, SumNat
  <1>5. SumFunctionOnSet(f, Q) \in Nat
    BY <1>1, SumNat
  <1> HIDE DEF Q
  <1>6. SumFunctionOnSet(f, S) = SumFunctionOnSet(f, R) + SumFunctionOnSet(f, Q)
    BY <1>1, <1>3
  <1> QED
    BY <1>4, <1>5, <1>6

\* A sum of which one element only is not zero.
LEMMA SumOne ==
  ASSUME NEW S, IsFiniteSet(S), NEW a \in S, NEW f, f[a] \in Int, \A x \in S \ {a} : f[x] = 0
  PROVE  SumFunctionOnSet(f, S) = f[a]
  <1>1. \A x \in S : f[x] \in Int
    OBVIOUS
  <1>2. SumFunctionOnSet(f, S) = f[a] + SumFunctionOnSet(f, S \ {a})
    BY <1>1, SumRemove
  <1>3. IsFiniteSet(S \ {a})
    BY FS_RemoveElement
  <1>4. SumFunctionOnSet(f, S \ {a}) = 0
    BY <1>3, SumZero
  <1> QED
    BY <1>2, <1>4

\* The sums of f over what p maps to each element of T.
SumsByPart(f, S, p, T) == [t \in T |-> SumFunctionOnSet(f, {x \in S : p[x] = t})]

\* A sum by parts.
LEMMA SumFibres ==
  ASSUME NEW S, IsFiniteSet(S), NEW T, IsFiniteSet(T), NEW f, \A x \in S : f[x] \in Int,
         NEW p, \A x \in S : p[x] \in T
  PROVE  SumFunctionOnSet(f, S) = SumFunctionOnSet(SumsByPart(f, S, p, T), T)
  <1> DEFINE h == SumsByPart(f, S, p, T)
  <1>0. \A t \in T : h[t] = SumFunctionOnSet(f, {x \in S : p[x] = t})
    BY DEF SumsByPart
  <1> HIDE DEF h
  <1> DEFINE Upto(R) == {x \in S : p[x] \in R}
             F == {R \in SUBSET T : SumFunctionOnSet(f, Upto(R)) = SumFunctionOnSet(h, R)}
  <1>1. {} \in F
    <2>1. Upto({}) = {}
      OBVIOUS
    <2> QED BY <2>1, SumEmpty
  <1>2. \A t \in T : h[t] \in Int
    <2> SUFFICES ASSUME NEW t \in T PROVE h[t] \in Int
      OBVIOUS
    <2> DEFINE A == {x \in S : p[x] = t}
    <2>1. IsFiniteSet(A) /\ \A x \in A : f[x] \in Int
      BY FS_Subset
    <2>2. h[t] = SumFunctionOnSet(f, A)
      BY <1>0
    <2> HIDE DEF A
    <2> QED BY <2>1, <2>2, SumType
  <1>3. ASSUME NEW R \in F, NEW t \in T \ R PROVE R \union {t} \in F
    <2> DEFINE A == Upto(R)
               B == {x \in S : p[x] = t}
    <2>1. IsFiniteSet(A) /\ IsFiniteSet(B) /\ A \intersect B = {} /\ \A x \in A \union B : f[x] \in Int
      BY FS_Subset
    <2>2. Upto(R \union {t}) = A \union B
      OBVIOUS
    <2>3. SumFunctionOnSet(f, A) = SumFunctionOnSet(h, R) /\ h[t] = SumFunctionOnSet(f, B)
      BY <1>0
    <2>4. IsFiniteSet(R) /\ t \notin R /\ \A x \in R \union {t} : h[x] \in Int
      BY <1>2, FS_Subset
    <2> HIDE DEF A, B, Upto
    <2>5. SumFunctionOnSet(f, A \union B) = SumFunctionOnSet(f, A) + SumFunctionOnSet(f, B)
      BY <2>1, SumSplit
    <2>6. SumFunctionOnSet(h, R \union {t}) = h[t] + SumFunctionOnSet(h, R) /\ SumFunctionOnSet(h, R) \in Int
      BY <2>4, SumAdd, SumType
    <2>7. h[t] \in Int
      BY <1>2
    <2> DEFINE a == SumFunctionOnSet(h, R)
    <2>8. SumFunctionOnSet(f, A \union B) = a + h[t] /\ a \in Int
      BY <2>3, <2>5, <2>6
    <2>9. SumFunctionOnSet(h, R \union {t}) = h[t] + a
      BY <2>6
    <2> HIDE DEF a
    <2>10. SumFunctionOnSet(f, Upto(R \union {t})) = SumFunctionOnSet(h, R \union {t})
      <3>1. SumFunctionOnSet(f, A \union B) = SumFunctionOnSet(h, R \union {t})
        BY ONLY <2>7, <2>8, <2>9
      <3> QED BY ONLY <2>2, <3>1
    <2>11. R \union {t} \in SUBSET T
      OBVIOUS
    <2> QED BY <2>10, <2>11
  <1>4. T \in F
    <2> HIDE DEF F
    <2>1. F \in SUBSET SUBSET T
      BY DEF F
    <2> QED BY <1>1, <1>3, <2>1, FiniteInduction
  <1>5. Upto(T) = S
    OBVIOUS
  <1> QED
    BY <1>4, <1>5 DEF h
=============================================================================
