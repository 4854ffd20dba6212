--------------------------- MODULE ProductionProofs -------------------------
(***************************************************************************)
(* Proofs about Production: the books of work orders under concurrent      *)
(* sessions.                                                               *)
(***************************************************************************)
EXTENDS Production, BasicLemmas, FunctionTheorems

-----------------------------------------------------------------------------
(* Quantities.                                                             *)

\* A table of quantities of materials from items.
Quantities == [Materials -> [Items -> Nat]]

\* The quantity of a material, and of an item, in such a table.
LEMMA QuantityType ==
  ASSUME NEW take \in Quantities
  PROVE  /\ \A m \in Materials : /\ DOMAIN take[m] = Items /\ SumOf(take[m]) \in Nat
                                 /\ \A i \in Items : take[m][i] \in Nat /\ take[m][i] <= SumOf(take[m])
         /\ \A i \in Items : OfItem(take, i) \in Nat
  <1>1. ASSUME NEW m \in Materials
        PROVE  /\ DOMAIN take[m] = Items /\ SumOf(take[m]) \in Nat
               /\ \A i \in Items : take[m][i] \in Nat /\ take[m][i] <= SumOf(take[m])
    <2>1. DOMAIN take[m] = Items /\ \A i \in Items : take[m][i] \in Nat
      BY DEF Quantities
    <2>2. SumFunctionOnSet(take[m], Items) \in Nat /\ \A i \in Items : take[m][i] <= SumFunctionOnSet(take[m], Items)
      BY <2>1, TablesAreFinite, SumNat
    <2> QED
      BY <2>1, <2>2 DEF SumOf
  <1>2. ASSUME NEW i \in Items PROVE OfItem(take, i) \in Nat
    <2> DEFINE f == [m \in Materials |-> take[m][i]]
    <2>1. \A m \in Materials : f[m] \in Nat
      BY DEF Quantities
    <2> HIDE DEF f
    <2>2. SumFunctionOnSet(f, Materials) \in Nat
      BY <2>1, TablesAreFinite, SumNat
    <2> QED
      BY <2>2 DEF OfItem, f
  <1> QED
    BY <1>1, <1>2

\* Tables that differ by a third.
LEMMA QuantityPlus ==
  ASSUME NEW f \in Quantities, NEW g \in Quantities, NEW h \in Quantities,
         \A m \in Materials, i \in Items : h[m][i] = f[m][i] + g[m][i]
  PROVE  /\ \A m \in Materials : SumOf(h[m]) = SumOf(f[m]) + SumOf(g[m])
         /\ \A i \in Items : OfItem(h, i) = OfItem(f, i) + OfItem(g, i)
  <1>1. ASSUME NEW m \in Materials PROVE SumOf(h[m]) = SumOf(f[m]) + SumOf(g[m])
    <2> DEFINE u == f[m]
               v == g[m]
               w == h[m]
    <2>1. \A i \in Items : u[i] \in Int /\ v[i] \in Int /\ w[i] = u[i] + v[i]
      BY DEF Quantities
    <2>2. DOMAIN u = Items /\ DOMAIN v = Items /\ DOMAIN w = Items
      BY DEF Quantities
    <2> HIDE DEF u, v, w
    <2>3. SumFunctionOnSet(w, Items) = SumFunctionOnSet(u, Items) + SumFunctionOnSet(v, Items)
      BY <2>1, TablesAreFinite, SumPlus
    <2>4. SumOf(w) = SumOf(u) + SumOf(v)
      BY <2>2, <2>3 DEF SumOf
    <2> QED
      BY <2>4 DEF u, v, w
  <1>2. ASSUME NEW i \in Items PROVE OfItem(h, i) = OfItem(f, i) + OfItem(g, i)
    <2> DEFINE u == [m \in Materials |-> f[m][i]]
               v == [m \in Materials |-> g[m][i]]
               w == [m \in Materials |-> h[m][i]]
    <2>1. \A m \in Materials : u[m] \in Int /\ v[m] \in Int /\ w[m] = u[m] + v[m]
      BY DEF Quantities
    <2> HIDE DEF u, v, w
    <2>2. SumFunctionOnSet(w, Materials) = SumFunctionOnSet(u, Materials) + SumFunctionOnSet(v, Materials)
      BY <2>1, TablesAreFinite, SumPlus
    <2> QED
      BY <2>2 DEF OfItem, u, v, w
  <1> QED
    BY <1>1, <1>2

\* Pairs.
LEMMA PairsAreEqual ==
  ASSUME NEW a, NEW b, NEW c, NEW d
  PROVE  <<a, b>> = <<c, d>> <=> a = c /\ b = d
  OBVIOUS

\* The draws of a call: a finite table.
Drawings == [Uses -> Nat]

LEMMA UsesFacts ==
  /\ IsFiniteSet(Uses)
  /\ \A u \in Uses : /\ u[1] \in Materials /\ u[2] \in Reservations
                     /\ u[2][1] \in Materials /\ u[2][2] \in Items /\ u[2] = <<u[2][1], u[2][2]>>
                     /\ u = <<u[1], u[2]>> /\ u[2][1] \in Alike(u[1])
                     /\ u[2][2] \in Sources(u[2][1])
  <1>1. IsFiniteSet(Materials \X Items)
    BY TablesAreFinite, FS_Product
  <1>2. IsFiniteSet(Reservations)
    BY <1>1, FS_Subset DEF Reservations
  <1>3. IsFiniteSet(Materials \X Reservations)
    BY <1>2, TablesAreFinite, FS_Product
  <1>4. IsFiniteSet(Uses)
    BY <1>3, FS_Subset DEF Uses
  <1>5. ASSUME NEW u \in Uses
        PROVE  /\ u[1] \in Materials /\ u[2] \in Reservations
               /\ u[2][1] \in Materials /\ u[2][2] \in Items /\ u[2] = <<u[2][1], u[2][2]>>
               /\ u = <<u[1], u[2]>> /\ u[2][1] \in Alike(u[1])
               /\ u[2][2] \in Sources(u[2][1])
    <2>1. u \in Materials \X Reservations /\ u[2][1] \in Alike(u[1])
      BY DEF Uses
    <2>2. u[1] \in Materials /\ u[2] \in Reservations /\ u = <<u[1], u[2]>>
      BY <2>1
    <2>3. u[2] \in Materials \X Items /\ u[2][2] \in Sources(u[2][1])
      BY <2>2 DEF Reservations
    <2> QED BY <2>1, <2>2, <2>3
  <1> QED
    BY <1>4, <1>5

LEMMA AlikeFacts ==
  ASSUME NEW m \in Materials
  PROVE  /\ m \in Alike(m) /\ Alike(m) \in SUBSET Materials /\ IsFiniteSet(Alike(m))
         /\ \A n \in Alike(m) : OrderOf[n] = OrderOf[m]
         /\ \A n \in Materials : \A k \in Alike(n) : n \in Alike(m) <=> k \in Alike(m)
  <1>1. Alike(m) \in SUBSET Materials
    BY DEF Alike
  <1>2. IsFiniteSet(Alike(m))
    BY <1>1, TablesAreFinite, FS_Subset
  <1> QED
    BY <1>1, <1>2 DEF Alike

\* The sums of a drawing: by the material drawn for, by the reservation, by its material
\* and by its item.
LEMMA DrawSums ==
  ASSUME NEW draw \in Drawings
  PROVE  /\ Drawn(draw) \in Quantities
         /\ \A m \in Materials : DrawnBy(draw, m) \in Nat
         /\ \A m \in Materials, i \in Items :
              Drawn(draw)[m][i] = DrawnFrom(draw, m, i) /\ DrawnFrom(draw, m, i) \in Nat
         /\ \A m \in Materials :
              SumOf(Drawn(draw)[m]) = SumFunctionOnSet(draw, {u \in Uses : u[2][1] = m})
         /\ \A i \in Items :
              OfItem(Drawn(draw), i) = SumFunctionOnSet(draw, {u \in Uses : u[2][2] = i})
  <1>1. \A R \in SUBSET Uses : IsFiniteSet(R) /\ SumFunctionOnSet(draw, R) \in Nat
    <2> SUFFICES ASSUME NEW R \in SUBSET Uses
                 PROVE  IsFiniteSet(R) /\ SumFunctionOnSet(draw, R) \in Nat
      OBVIOUS
    <2>1. IsFiniteSet(R) /\ \A u \in R : draw[u] \in Nat
      BY UsesFacts, FS_Subset DEF Drawings
    <2> QED BY <2>1, SumNat
  <1>2. \A m \in Materials : DrawnBy(draw, m) \in Nat
    BY <1>1 DEF DrawnBy
  <1>3. \A m \in Materials, i \in Items : DrawnFrom(draw, m, i) \in Nat
    BY <1>1 DEF DrawnFrom
  <1>4. Drawn(draw) \in Quantities
        /\ \A m \in Materials, i \in Items : Drawn(draw)[m][i] = DrawnFrom(draw, m, i)
    BY <1>3 DEF Drawn, Quantities
  <1>5. ASSUME NEW m \in Materials
        PROVE  SumOf(Drawn(draw)[m]) = SumFunctionOnSet(draw, {u \in Uses : u[2][1] = m})
    <2> DEFINE S == {u \in Uses : u[2][1] = m}
               p == [u \in S |-> u[2][2]]
               h == Drawn(draw)[m]
    <2>1. DOMAIN h = Items
      BY <1>4 DEF Quantities
    <2>2. IsFiniteSet(S) /\ (\A u \in S : draw[u] \in Int) /\ \A u \in S : p[u] \in Items
      BY <1>1, UsesFacts DEF Drawings
    <2>3. ASSUME NEW i \in Items PROVE h[i] = SumFunctionOnSet(draw, {u \in S : p[u] = i})
      <3>1. \A u \in Uses : u[2] = <<m, i>> <=> u[2][1] = m /\ u[2][2] = i
        BY UsesFacts, PairsAreEqual
      <3>2. \A u \in S : p[u] = u[2][2]
        OBVIOUS
      <3>3. {u \in S : p[u] = i} = {u \in Uses : u[2][1] = m /\ u[2][2] = i}
        BY <3>2
      <3>4. {u \in Uses : u[2][1] = m /\ u[2][2] = i} = {u \in Uses : u[2] = <<m, i>>}
        BY <3>1
      <3>5. h[i] = DrawnFrom(draw, m, i)
        BY <1>4
      <3> QED BY <3>3, <3>4, <3>5 DEF DrawnFrom
    <2> HIDE DEF S, p, h
    <2>4. SumFunctionOnSet(draw, S) = SumFunctionOnSet(SumsByPart(draw, S, p, Items), Items)
      BY <2>2, TablesAreFinite, SumFibres
    <2>5. SumFunctionOnSet(draw, S) = SumFunctionOnSet(h, Items)
      BY <2>3, <2>4, TablesAreFinite, SumAgree DEF SumsByPart
    <2> QED BY <2>1, <2>5 DEF SumOf, S, h
  <1>6. ASSUME NEW i \in Items
        PROVE  OfItem(Drawn(draw), i) = SumFunctionOnSet(draw, {u \in Uses : u[2][2] = i})
    <2> DEFINE S == {u \in Uses : u[2][2] = i}
               p == [u \in S |-> u[2][1]]
               h == [m \in Materials |-> Drawn(draw)[m][i]]
    <2>1. OfItem(Drawn(draw), i) = SumFunctionOnSet(h, Materials)
      BY DEF OfItem
    <2>2. IsFiniteSet(S) /\ (\A u \in S : draw[u] \in Int) /\ \A u \in S : p[u] \in Materials
      BY <1>1, UsesFacts DEF Drawings
    <2>3. ASSUME NEW m \in Materials PROVE h[m] = SumFunctionOnSet(draw, {u \in S : p[u] = m})
      <3>1. \A u \in Uses : u[2] = <<m, i>> <=> u[2][1] = m /\ u[2][2] = i
        BY UsesFacts, PairsAreEqual
      <3>2. \A u \in S : p[u] = u[2][1]
        OBVIOUS
      <3>3. {u \in S : p[u] = m} = {u \in Uses : u[2][1] = m /\ u[2][2] = i}
        BY <3>2
      <3>4. {u \in Uses : u[2][1] = m /\ u[2][2] = i} = {u \in Uses : u[2] = <<m, i>>}
        BY <3>1
      <3>5. h[m] = DrawnFrom(draw, m, i)
        BY <1>4
      <3> QED BY <3>3, <3>4, <3>5 DEF DrawnFrom
    <2> HIDE DEF S, p, h
    <2>4. SumFunctionOnSet(draw, S) = SumFunctionOnSet(SumsByPart(draw, S, p, Materials), Materials)
      BY <2>2, TablesAreFinite, SumFibres
    <2>5. SumFunctionOnSet(draw, S) = SumFunctionOnSet(h, Materials)
      BY <2>3, <2>4, TablesAreFinite, SumAgree DEF SumsByPart
    <2> QED BY <2>1, <2>5 DEF S
  <1> QED
    BY <1>2, <1>3, <1>4, <1>5, <1>6

\* Materials alike draw from the reservations of one another only: together they draw what
\* is drawn from these.
LEMMA GroupSums ==
  ASSUME NEW draw \in Drawings, NEW m \in Materials
  PROVE  /\ SumFunctionOnSet([n \in Materials |-> DrawnBy(draw, n)], Alike(m)) =
              SumFunctionOnSet([n \in Materials |-> SumOf(Drawn(draw)[n])], Alike(m))
         /\ SumFunctionOnSet([n \in Materials |-> DrawnBy(draw, n)], Alike(m)) =
              SumFunctionOnSet(draw, {u \in Uses : u[2][1] \in Alike(m)})
  <1> DEFINE G == Alike(m)
             S == {u \in Uses : u[2][1] \in G}
             f == [n \in Materials |-> DrawnBy(draw, n)]
             g == [n \in Materials |-> SumOf(Drawn(draw)[n])]
             p == [u \in S |-> u[1]]
             q == [u \in S |-> u[2][1]]
  <1>1. IsFiniteSet(G) /\ G \in SUBSET Materials
    BY AlikeFacts
  <1>2. IsFiniteSet(S) /\ \A u \in S : draw[u] \in Int
    BY UsesFacts, FS_Subset DEF Drawings
  <1>3. ASSUME NEW u \in Uses PROVE u[1] \in G <=> u[2][1] \in G
    <2> DEFINE n == u[1]
               k == u[2][1]
    <2>1. n \in Materials /\ k \in Alike(n)
      BY UsesFacts
    <2> HIDE DEF n, k
    <2>2. n \in Alike(m) <=> k \in Alike(m)
      BY <2>1, AlikeFacts
    <2> QED BY <2>2 DEF n, k
  <1>4. ASSUME NEW u \in S PROVE p[u] \in G /\ q[u] \in G
    <2>1. u \in Uses /\ u[2][1] \in G
      OBVIOUS
    <2>2. p[u] = u[1] /\ q[u] = u[2][1]
      OBVIOUS
    <2> HIDE DEF G, S, p, q
    <2> QED BY <1>3, <2>1, <2>2
  <1>5. ASSUME NEW n \in G PROVE f[n] = SumFunctionOnSet(draw, {u \in S : p[u] = n})
    <2>1. {u \in S : p[u] = n} = {u \in Uses : u[1] = n}
      BY <1>3
    <2>2. f[n] = DrawnBy(draw, n)
      BY <1>1
    <2> QED BY <2>1, <2>2 DEF DrawnBy
  <1>6. ASSUME NEW n \in G PROVE g[n] = SumFunctionOnSet(draw, {u \in S : q[u] = n})
    <2>1. {u \in S : q[u] = n} = {u \in Uses : u[2][1] = n}
      OBVIOUS
    <2>2. g[n] = SumFunctionOnSet(draw, {u \in Uses : u[2][1] = n})
      BY <1>1, DrawSums
    <2> QED BY <2>1, <2>2
  <1> HIDE DEF G, S, f, g, p, q
  <1>7. SumFunctionOnSet(draw, S) = SumFunctionOnSet(f, G)
    <2>1. SumFunctionOnSet(draw, S) = SumFunctionOnSet(SumsByPart(draw, S, p, G), G)
      BY <1>1, <1>2, <1>4, SumFibres
    <2> QED BY <1>1, <1>5, <2>1, SumAgree DEF SumsByPart
  <1>8. SumFunctionOnSet(draw, S) = SumFunctionOnSet(g, G)
    <2>1. SumFunctionOnSet(draw, S) = SumFunctionOnSet(SumsByPart(draw, S, q, G), G)
      BY <1>1, <1>2, <1>4, SumFibres
    <2> QED BY <1>1, <1>6, <2>1, SumAgree DEF SumsByPart
  <1> QED
    BY <1>7, <1>8 DEF G, S, f, g

\* The rows of a posting are finite in number, and each is that of a use.
LEMMA PostingFacts ==
  ASSUME NEW draw \in Drawings, NEW key \in Keys
  PROVE  /\ IsFiniteSet(Posting(draw, key))
         /\ Posting(draw, key) \subseteq [key : Keys, reservation : Reservations, qty : Nat]
         /\ \A r \in Posting(draw, key) : r.key = key
         /\ \A r \in Posting(draw, key) :
              \E u \in Uses : draw[u] > 0 /\ r = Row(draw, key, u)
  <1> DEFINE Q == {v \in Uses : draw[v] > 0}
             f == [u \in Q |-> Row(draw, key, u)]
             P == {Row(draw, key, u) : u \in Q}
  <1>1. IsFiniteSet(Q)
    BY UsesFacts, FS_Subset
  <1>2. f \in Surjection(Q, P)
    BY DEF Surjection
  <1>3. IsFiniteSet(P)
    <2> HIDE DEF f, P, Q
    <2> QED BY <1>1, <1>2, FS_Surjection
  <1>4. Posting(draw, key) = P
    BY DEF Posting
  <1>5. ASSUME NEW r \in Posting(draw, key)
        PROVE  /\ r \in [key : Keys, reservation : Reservations, qty : Nat] /\ r.key = key
               /\ \E u \in Uses : draw[u] > 0 /\ r = Row(draw, key, u)
    <2>1. PICK u \in Uses : draw[u] > 0 /\ r = Row(draw, key, u)
      BY DEF Posting
    <2>2. draw[u] \in Nat /\ u[2] \in Reservations
      BY UsesFacts DEF Drawings
    <2> QED BY <2>1, <2>2 DEF Row
  <1> QED
    BY <1>3, <1>4, <1>5

\* What moves is part of what is drawn.
LEMMA MovingFacts ==
  ASSUME NEW draw \in Drawings, NEW key \in Keys, NEW i \in Items
  PROVE  Moving(draw, key, i) \in Nat /\ Moving(draw, key, i) <= OfItem(Drawn(draw), i)
  <1> DEFINE P == Posting(draw, key)
             g == [r \in P |-> r.qty]
             T == {r \in P : r.reservation[2] = i}
             M == {r \in P \ issues : r.reservation[2] = i}
             S == {u \in Uses : draw[u] > 0 /\ u[2][2] = i}
             A == {u \in Uses : u[2][2] = i}
             p == [u \in S |-> Row(draw, key, u)]
             h == [t \in T |-> SumFunctionOnSet(draw, {u \in S : p[u] = t})]
  <1>1. IsFiniteSet(T) /\ M \in SUBSET T /\ \A r \in T : g[r] \in Nat
    <2>1. IsFiniteSet(P) /\ \A r \in P : r.qty \in Nat
      BY PostingFacts
    <2> QED BY <2>1, FS_Subset
  <1>2. IsFiniteSet(S) /\ IsFiniteSet(A) /\ S \in SUBSET A
        /\ (\A u \in S : draw[u] \in Int) /\ (\A u \in A : draw[u] \in Nat)
    BY UsesFacts, FS_Subset DEF Drawings
  <1>3. ASSUME NEW u \in S PROVE p[u] \in T
    <2>1. u \in Uses /\ draw[u] > 0 /\ u[2][2] = i /\ p[u] = Row(draw, key, u)
      OBVIOUS
    <2>2. Row(draw, key, u) \in P
      BY <2>1 DEF Posting
    <2>3. Row(draw, key, u).reservation = u[2]
      BY DEF Row
    <2> HIDE DEF P, S, p
    <2> QED BY <2>1, <2>2, <2>3
  <1>4. ASSUME NEW t \in T
        PROVE  g[t] \in Int /\ h[t] \in Int /\ g[t] <= h[t]
    <2>1. PICK u \in Uses : draw[u] > 0 /\ t = Row(draw, key, u)
      BY PostingFacts
    <2> DEFINE U == {v \in S : p[v] = t}
    <2>2. u \in U /\ g[t] = draw[u]
      BY <2>1 DEF Row
    <2>3. IsFiniteSet(U) /\ \A v \in U : draw[v] \in Nat
      BY <1>2, FS_Subset DEF Drawings
    <2>4. h[t] = SumFunctionOnSet(draw, U)
      OBVIOUS
    <2> HIDE DEF U, g, h
    <2>5. SumFunctionOnSet(draw, U) \in Nat /\ draw[u] <= SumFunctionOnSet(draw, U) /\ draw[u] \in Nat
      BY <2>2, <2>3, SumNat
    <2> QED BY <2>2, <2>4, <2>5
  <1>5. \A t \in T : h[t] = SumFunctionOnSet(draw, {u \in S : p[u] = t})
    OBVIOUS
  <1>6. Moving(draw, key, i) = SumFunctionOnSet(g, M)
    BY DEF Moving
  <1>7. OfItem(Drawn(draw), i) = SumFunctionOnSet(draw, A)
    BY DrawSums
  <1> HIDE DEF P, g, T, M, S, A, p, h
  <1>8. SumFunctionOnSet(g, M) \in Nat /\ SumFunctionOnSet(g, M) <= SumFunctionOnSet(g, T)
    BY <1>1, SumPart
  <1>9. SumFunctionOnSet(g, T) \in Nat
    BY <1>1, SumNat
  <1>10. SumFunctionOnSet(g, T) <= SumFunctionOnSet(h, T)
    BY <1>1, <1>4, SumMonotone
  <1>11. SumFunctionOnSet(draw, S) = SumFunctionOnSet(h, T)
    <2>1. SumFunctionOnSet(draw, S) = SumFunctionOnSet(SumsByPart(draw, S, p, T), T)
      BY <1>1, <1>2, <1>3, SumFibres
    <2> QED BY <1>1, <1>5, <2>1, SumAgree DEF SumsByPart
  <1>12. SumFunctionOnSet(draw, S) \in Nat /\ SumFunctionOnSet(draw, S) <= SumFunctionOnSet(draw, A)
    BY <1>2, SumPart
  <1>13. SumFunctionOnSet(draw, A) \in Nat
    BY <1>2, SumNat
  <1> DEFINE a == SumFunctionOnSet(g, M)
             b == SumFunctionOnSet(g, T)
             c == SumFunctionOnSet(draw, S)
             d == SumFunctionOnSet(draw, A)
  <1>14. a \in Nat /\ b \in Nat /\ c \in Nat /\ d \in Nat /\ a <= b /\ b <= c /\ c <= d
    BY <1>8, <1>9, <1>10, <1>11, <1>12, <1>13
  <1> HIDE DEF a, b, c, d
  <1>15. a <= d
    BY <1>14
  <1> QED
    BY <1>6, <1>7, <1>14, <1>15 DEF a, d

\* The quantities required are within the bound of a table, and of a draw.
LEMMA RequiredBounded ==
  \E mx \in Nat : /\ mx = Max({Required[m] : m \in Materials})
                  /\ \A m \in Materials : Required[m] \in Nat /\ Required[m] <= mx
  <1> DEFINE R == {Required[m] : m \in Materials}
  <1>1. Materials # {}
    BY CallsOfClients DEF Call
  <1>2. R \in SUBSET Nat /\ R # {}
    BY <1>1, QuantitiesArePositive
  <1>3. IsFiniteSet(R)
    <2> DEFINE f == [m \in Materials |-> Required[m]]
    <2>1. f \in Surjection(Materials, R)
      BY DEF Surjection
    <2> HIDE DEF f, R
    <2> QED BY <2>1, TablesAreFinite, FS_Surjection
  <1>4. Max(R) \in R /\ \A x \in R : x <= Max(R)
    <2> HIDE DEF R
    <2> QED BY <1>2, <1>3, MaxNat
  <1> QED
    BY <1>2, <1>4

LEMMA TakesAreQuantities == Takes \subseteq Quantities
  <1>1. PICK mx \in Nat : mx = Max({Required[m] : m \in Materials})
    BY RequiredBounded
  <1>2. Takes = [Materials -> [Items -> 0 .. mx]]
    BY <1>1 DEF Takes
  <1> QED
    BY <1>2 DEF Quantities

LEMMA DrawsAreDrawings ==
  /\ Draws \subseteq Drawings
  /\ \A draw \in Drawings :
       (\A u \in Uses : \E m \in Materials : draw[u] <= Required[m]) => draw \in Draws
  <1>1. PICK mx \in Nat : /\ mx = Max({Required[m] : m \in Materials})
                         /\ \A m \in Materials : Required[m] \in Nat /\ Required[m] <= mx
    BY RequiredBounded
  <1>2. Draws = [Uses -> 0 .. mx]
    BY <1>1 DEF Draws
  <1>3. ASSUME NEW draw \in Drawings, \A u \in Uses : \E m \in Materials : draw[u] <= Required[m]
        PROVE  draw \in Draws
    <2>1. ASSUME NEW u \in Uses PROVE draw[u] \in 0 .. mx
      <3>1. PICK m \in Materials : draw[u] <= Required[m]
        BY <1>3
      <3>2. draw[u] \in Nat /\ Required[m] \in Nat /\ Required[m] <= mx
        BY <1>1 DEF Drawings
      <3> QED BY <3>1, <3>2
    <2> QED BY <1>2, <2>1 DEF Drawings
  <1>4. Draws \subseteq Drawings
    BY <1>2 DEF Drawings
  <1> QED
    BY <1>3, <1>4

-----------------------------------------------------------------------------
(* The inductive invariant.                                                *)

Rows == IsFiniteSet(completions) /\ IsFiniteSet(issues)

\* A session past the lock of its order holds it, and the row it read is current.
Locked(s) == pc[s] \in {"materials", "next", "commit"}
Current(s) ==
  /\ orderHolder[call[s].order] = s
  /\ row[s].status = status[call[s].order]
  /\ row[s].completed = completed[call[s].order]
  /\ Acceptable(call[s], row[s])
InCall(s) ==
  /\ pc[s] = "check" => call[s].kind \in {"complete", "issue"}
  /\ Locked(s) => Current(s)
SessionsInv == \A s \in Sessions : InCall(s)

\* An order that is not released has nothing issued and nothing reserved.
Unreleased ==
  \A m \in Materials : status[OrderOf[m]] = "PLANNED" => issued[m] = 0 /\ SumOf(reserved[m]) = 0

\* No material has more issued than it requires, and what is reserved for it is on its
\* own items.
WithinRequired == \A m \in Materials : issued[m] <= Required[m]
FromSources == \A m \in Materials, i \in Items : reserved[m][i] > 0 => i \in Sources(m)

\* What is issued to each material and reserved for it.
Secured == [n \in Materials |-> issued[n] + SumOf(reserved[n])]

MaterialsInv == Unreleased /\ MaterialSecured /\ WithinRequired /\ FromSources

IInv ==
  /\ TypeOK /\ Rows
  /\ SessionsInv
  /\ CompletionsAddUp
  /\ MaterialsInv
  /\ BackflushIssuesAll

\* The calls have the fields of a call.
LEMMA CallFields ==
  ASSUME NEW c \in Calls
  PROVE  /\ c.order \in Orders /\ c.material \in Materials /\ c.operation \in Operations
         /\ c.item \in Items /\ c.key \in Keys /\ c.kind \in Kinds
         /\ c.good \in Nat /\ c.scrap \in Nat /\ c.qty \in Nat /\ c.backflush \in BOOLEAN
         /\ OrderOf[c.material] = c.order /\ OrderOf[c.operation] = c.order
  BY CallsOfClients DEF Call

\* What the end of a transaction does to the sessions and the locks.
SessionTypes ==
  /\ pc \in [Sessions -> {"idle", "check", "material", "operation", "order", "materials",
                          "next", "commit"}]
  /\ call \in [Sessions -> Calls]
  /\ reply \in [Sessions -> {"none", "done", "replayed", "refused", "lost"}]
  /\ row \in [Sessions -> [status : OrderStatus, completed : Nat]]
  /\ orderHolder \in [Orders -> Sessions \union {NoSession}]
  /\ materialHolder \in [Materials -> Sessions \union {NoSession}]
  /\ operationHolder \in [Operations -> Sessions \union {NoSession}]
  /\ started \in 0 .. MaxCalls
BookTypes ==
  /\ status \in [Orders -> OrderStatus]
  /\ completed \in [Orders -> Nat]
  /\ issued \in [Materials -> Nat]
  /\ reserved \in [Materials -> [Items -> Nat]]
  /\ opStatus \in [Operations -> OperationStatus]
  /\ onHand \in [Items -> Nat]
  /\ allocated \in [Items -> Nat]
  /\ issues \subseteq [key : Keys, reservation : Reservations, qty : Nat]
  /\ completions \subseteq WorkOrderCompletion

LEMMA TypesSplit == TypeOK <=> SessionTypes /\ BookTypes
  BY DEF TypeOK, SessionTypes, BookTypes

LEMMA DoneFacts ==
  ASSUME SessionTypes, NEW s \in Sessions, NEW r \in {"none", "done", "replayed", "refused", "lost"},
         Done(s, r)
  PROVE  /\ SessionTypes'
         /\ InCall(s)'
         /\ \A t \in Sessions \ {s} : pc'[t] = pc[t] /\ call'[t] = call[t] /\ row'[t] = row[t]
         /\ \A x \in Orders : orderHolder[x] # s => orderHolder'[x] = orderHolder[x]
  <1> USE DEF Done
  <1>2. pc' \in [Sessions -> {"idle", "check", "material", "operation", "order", "materials", "next", "commit"}]
    BY DEF SessionTypes
  <1>3. reply' \in [Sessions -> {"none", "done", "replayed", "refused", "lost"}] /\ call' \in [Sessions -> Calls]
        /\ started' \in 0 .. MaxCalls
    BY DEF SessionTypes
  <1>4. row' \in [Sessions -> [status : OrderStatus, completed : Nat]]
    BY DEF SessionTypes, NoRow, OrderStatus
  <1>5. orderHolder' \in [Orders -> Sessions \union {NoSession}]
    BY DEF SessionTypes, Without
  <1>6. materialHolder' \in [Materials -> Sessions \union {NoSession}]
    BY DEF SessionTypes, Without
  <1>7. operationHolder' \in [Operations -> Sessions \union {NoSession}]
    BY DEF SessionTypes, Without
  <1>8. SessionTypes'
    BY <1>2, <1>3, <1>4, <1>5, <1>6, <1>7 DEF SessionTypes
  <1>9. InCall(s)'
    BY DEF SessionTypes, Locked, InCall
  <1>10. \A t \in Sessions \ {s} : pc'[t] = pc[t] /\ call'[t] = call[t] /\ row'[t] = row[t]
    BY DEF SessionTypes
  <1>11. \A x \in Orders : orderHolder[x] # s => orderHolder'[x] = orderHolder[x]
    BY DEF SessionTypes, Without
  <1> QED
    BY <1>8, <1>9, <1>10, <1>11

\* A session whose lock is held by another one leaves its row alone.
LEMMA OthersCurrent ==
  ASSUME IInv, NEW s \in Sessions,
         \A t \in Sessions \ {s} : pc'[t] = pc[t] /\ call'[t] = call[t] /\ row'[t] = row[t],
         \A x \in Orders : orderHolder[x] \in Sessions \ {s} =>
           orderHolder'[x] = orderHolder[x] /\ status'[x] = status[x] /\ completed'[x] = completed[x]
  PROVE  \A t \in Sessions \ {s} : InCall(t)'
  <1> SUFFICES ASSUME NEW t \in Sessions \ {s} PROVE InCall(t)'
    OBVIOUS
  <1>0. InCall(t) /\ pc'[t] = pc[t] /\ call'[t] = call[t]
    BY DEF IInv, SessionsInv
  <1> SUFFICES ASSUME Locked(t)' PROVE Current(t)'
    BY <1>0 DEF InCall
  <1>1. Locked(t) /\ pc'[t] = pc[t] /\ call'[t] = call[t] /\ row'[t] = row[t]
    BY DEF Locked
  <1>2. Current(t)
    BY <1>0, <1>1 DEF InCall
  <1>3. call[t].order \in Orders
    BY CallFields DEF IInv, TypeOK
  <1>4. orderHolder[call[t].order] = t
    BY <1>2 DEF Current
  <1>5. /\ orderHolder'[call[t].order] = t
        /\ status'[call[t].order] = status[call[t].order]
        /\ completed'[call[t].order] = completed[call[t].order]
    BY <1>3, <1>4
  <1>6. Acceptable(call[t], row[t])
    BY <1>2 DEF Current
  <1> QED
    BY <1>1, <1>2, <1>5, <1>6 DEF Current

-----------------------------------------------------------------------------
(* Steps that leave the books alone.                                       *)

LEMMA BooksKept ==
  ASSUME IInv, UNCHANGED books
  PROVE  BookTypes' /\ Rows' /\ CompletionsAddUp' /\ MaterialsInv' /\ BackflushIssuesAll'
  <1>1. /\ status' = status /\ completed' = completed /\ issued' = issued /\ reserved' = reserved
        /\ opStatus' = opStatus /\ onHand' = onHand /\ allocated' = allocated /\ issues' = issues
        /\ completions' = completions
    BY DEF books, stock
  <1>2. BookTypes'
    BY <1>1, TypesSplit DEF IInv, BookTypes
  <1>3. Rows'
    BY <1>1 DEF IInv, Rows
  <1>4. CompletionsAddUp'
    BY <1>1 DEF IInv, CompletionsAddUp, CompletionsOf
  <1>5. MaterialsInv'
    BY <1>1 DEF IInv, MaterialsInv, Unreleased, MaterialSecured, WithinRequired, FromSources
  <1>6. BackflushIssuesAll'
    BY <1>1 DEF IInv, BackflushIssuesAll
  <1> QED
    BY <1>2, <1>3, <1>4, <1>5, <1>6

\* A step of the session that keeps the books, its own row and its order's lock.
LEMMA QuietStep ==
  ASSUME IInv, NEW s \in Sessions, UNCHANGED books, SessionTypes',
         \A t \in Sessions \ {s} : pc'[t] = pc[t] /\ call'[t] = call[t] /\ row'[t] = row[t],
         \A x \in Orders : orderHolder[x] \in Sessions \ {s} => orderHolder'[x] = orderHolder[x],
         InCall(s)'
  PROVE  IInv'
  <1>1. status' = status /\ completed' = completed
    BY DEF books
  <1>2. \A t \in Sessions \ {s} : InCall(t)'
    BY <1>1, OthersCurrent
  <1>3. SessionsInv'
    BY <1>2 DEF SessionsInv
  <1>4. BookTypes' /\ Rows' /\ CompletionsAddUp' /\ MaterialsInv' /\ BackflushIssuesAll'
    BY BooksKept
  <1>5. TypeOK'
    BY <1>4 DEF TypeOK, SessionTypes, BookTypes
  <1> QED
    BY <1>3, <1>4, <1>5 DEF IInv

LEMMA FinishInv ==
  ASSUME IInv, NEW s \in Sessions, NEW r \in {"none", "done", "replayed", "refused", "lost"},
         Finish(s, r)
  PROVE  IInv'
  <1>1. Done(s, r) /\ UNCHANGED books
    BY DEF Finish
  <1>2. SessionTypes
    BY TypesSplit DEF IInv
  <1>3. /\ SessionTypes'
        /\ InCall(s)'
        /\ \A t \in Sessions \ {s} : pc'[t] = pc[t] /\ call'[t] = call[t] /\ row'[t] = row[t]
        /\ \A x \in Orders : orderHolder[x] # s => orderHolder'[x] = orderHolder[x]
    BY <1>1, <1>2, DoneFacts
  <1>4. \A x \in Orders : orderHolder[x] \in Sessions \ {s} => orderHolder'[x] = orderHolder[x]
    BY <1>3
  <1> QED
    BY <1>1, <1>3, <1>4, QuietStep

LEMMA BeginInv ==
  ASSUME IInv, NEW s \in Sessions, NEW c \in Calls, Begin(s, c)
  PROVE  IInv'
  <1> DEFINE first == CASE c.kind = "release" -> "order"
                        [] c.kind \in {"complete", "issue"} -> "check"
                        [] c.kind \in {"advance", "report"} -> "operation"
  <1>1. c.kind \in Kinds
    BY CallFields
  <1>2. first \in {"order", "check", "operation"}
    BY <1>1 DEF Kinds
  <1>3. /\ pc' = [pc EXCEPT ![s] = first] /\ call' = [call EXCEPT ![s] = c]
        /\ reply' = [reply EXCEPT ![s] = "none"] /\ started' = started + 1 /\ started < MaxCalls
        /\ UNCHANGED <<row, locks>> /\ UNCHANGED books
    BY DEF Begin
  <1> HIDE DEF first
  <1>4. SessionTypes
    BY TypesSplit DEF IInv
  <1>5. SessionTypes'
    <2>1. pc' \in [Sessions -> {"idle", "check", "material", "operation", "order", "materials",
                                "next", "commit"}]
      BY <1>2, <1>3, <1>4 DEF SessionTypes
    <2>2. /\ call' \in [Sessions -> Calls]
          /\ reply' \in [Sessions -> {"none", "done", "replayed", "refused", "lost"}]
      BY <1>3, <1>4 DEF SessionTypes
    <2>3. started' \in 0 .. MaxCalls
      BY <1>3, <1>4, MaxCallsOfClients DEF SessionTypes
    <2> QED
      BY <1>3, <1>4, <2>1, <2>2, <2>3 DEF SessionTypes, locks
  <1>6. InCall(s)'
    <2>1. first = "check" => c.kind \in {"complete", "issue"}
      BY <1>1 DEF first, Kinds
    <2>2. pc'[s] = first /\ call'[s] = c
      BY <1>3, <1>4 DEF SessionTypes
    <2> QED BY <1>2, <2>1, <2>2 DEF InCall, Locked
  <1>7. \A t \in Sessions \ {s} : pc'[t] = pc[t] /\ call'[t] = call[t] /\ row'[t] = row[t]
    BY <1>3, <1>4 DEF SessionTypes
  <1>8. \A x \in Orders : orderHolder[x] \in Sessions \ {s} => orderHolder'[x] = orderHolder[x]
    BY <1>3 DEF locks
  <1> QED
    BY <1>3, <1>5, <1>6, <1>7, <1>8, QuietStep

\* A step that goes on with its call, perhaps with locks on materials or operations.
LEMMA OnwardInv ==
  ASSUME IInv, NEW s \in Sessions,
         NEW step \in {"material", "operation", "order", "materials", "next", "commit"},
         Goto(s, step), UNCHANGED <<row, orderHolder>>,
         materialHolder' \in [Materials -> Sessions \union {NoSession}],
         operationHolder' \in [Operations -> Sessions \union {NoSession}],
         Locked(s) \/ step \in {"material", "order"}
  PROVE  IInv'
  <1>1. pc' = [pc EXCEPT ![s] = step] /\ UNCHANGED books /\ UNCHANGED <<call, reply, started>>
    BY DEF Goto
  <1>2. SessionTypes
    BY TypesSplit DEF IInv
  <1>3. SessionTypes'
    <2>1. pc' \in [Sessions -> {"idle", "check", "material", "operation", "order", "materials",
                                "next", "commit"}]
      BY <1>1, <1>2 DEF SessionTypes
    <2> QED
      BY <1>1, <1>2, <2>1 DEF SessionTypes
  <1>4. \A t \in Sessions \ {s} : pc'[t] = pc[t] /\ call'[t] = call[t] /\ row'[t] = row[t]
    BY <1>1, <1>2 DEF SessionTypes
  <1>5. \A x \in Orders : orderHolder[x] \in Sessions \ {s} => orderHolder'[x] = orderHolder[x]
    OBVIOUS
  <1>6. InCall(s)'
    <2>1. pc'[s] = step
      BY <1>1, <1>2 DEF SessionTypes
    <2>2. Locked(s)' => Locked(s)
      BY <2>1 DEF Locked
    <2>3. Locked(s) => Current(s)
      BY DEF IInv, SessionsInv, InCall
    <2>4. status' = status /\ completed' = completed /\ call' = call
      BY <1>1 DEF books
    <2>5. Current(s) => Current(s)'
      BY <2>4 DEF Current
    <2> QED
      BY <2>1, <2>2, <2>3, <2>5 DEF InCall
  <1> QED
    BY <1>1, <1>3, <1>4, <1>5, <1>6, QuietStep

LEMMA CheckKeyInv ==
  ASSUME IInv, NEW s \in Sessions, CheckKey(s)
  PROVE  IInv'
  <1>1. SessionTypes
    BY TypesSplit DEF IInv
  <1>2. \/ \E r \in {"none", "done", "replayed", "refused", "lost"} : Finish(s, r)
        \/ \E step \in {"order", "material"} : Goto(s, step) /\ UNCHANGED <<row, locks>>
    <2> DEFINE c == call[s]
    <2>1. c \in Calls /\ c.kind \in Kinds
      BY <1>1, CallFields DEF SessionTypes
    <2>4. c.kind \in {"complete", "issue"}
      BY DEF IInv, SessionsInv, InCall, CheckKey
    <2>2. CASE c.kind = "complete"
      BY <2>2 DEF CheckKey, ReplayCompletion
    <2>3. CASE c.kind = "issue"
      BY <2>3 DEF CheckKey
    <2> QED BY <2>2, <2>3, <2>4
  <1>3. CASE \E r \in {"none", "done", "replayed", "refused", "lost"} : Finish(s, r)
    BY <1>3, FinishInv
  <1>4. ASSUME NEW step \in {"order", "material"}, Goto(s, step) /\ UNCHANGED <<row, locks>>
        PROVE  IInv'
    BY <1>1, <1>4, OnwardInv DEF locks, SessionTypes
  <1> QED
    BY <1>2, <1>3, <1>4

LEMMA LockRowInv ==
  ASSUME IInv, NEW s \in Sessions, LockMaterial(s) \/ LockOperation(s)
  PROVE  IInv'
  <1>1. SessionTypes /\ call[s] \in Calls
    BY TypesSplit DEF IInv, SessionTypes
  <1>2. call[s].material \in Materials /\ call[s].operation \in Operations
    BY <1>1, CallFields
  <1>3. Goto(s, "order") /\ UNCHANGED <<row, orderHolder>>
    BY DEF LockMaterial, LockOperation
  <1>4. materialHolder' \in [Materials -> Sessions \union {NoSession}]
    BY <1>1, <1>2 DEF LockMaterial, LockOperation, SessionTypes
  <1>5. operationHolder' \in [Operations -> Sessions \union {NoSession}]
    BY <1>1, <1>2 DEF LockMaterial, LockOperation, SessionTypes
  <1> QED
    BY <1>3, <1>4, <1>5, OnwardInv

LEMMA LockRowsInv ==
  ASSUME IInv, NEW s \in Sessions, LockMaterials(s) \/ LockNext(s)
  PROVE  IInv'
  <1>1. SessionTypes
    BY TypesSplit DEF IInv
  <1>2. Locked(s) /\ Goto(s, "commit") /\ UNCHANGED <<row, orderHolder>>
    BY DEF LockMaterials, LockNext, Locked
  <1>3. materialHolder' \in [Materials -> Sessions \union {NoSession}]
    BY <1>1 DEF LockMaterials, LockNext, SessionTypes
  <1>4. operationHolder' \in [Operations -> Sessions \union {NoSession}]
    BY <1>1 DEF LockMaterials, LockNext, SessionTypes
  <1> QED
    BY <1>2, <1>3, <1>4, OnwardInv

\* The order's lock is free, so no session is past it on that order.
LEMMA LockOrderInv ==
  ASSUME IInv, NEW s \in Sessions, LockOrder(s)
  PROVE  IInv'
  <1> DEFINE c == call[s]
             r == [status |-> status[c.order], completed |-> completed[c.order]]
  <1>1. SessionTypes /\ BookTypes
    BY TypesSplit DEF IInv
  <1>2. c \in Calls /\ c.order \in Orders
    BY <1>1, CallFields DEF SessionTypes
  <1>3. CASE \E a \in {"none", "done", "replayed", "refused", "lost"} : Finish(s, a)
    BY <1>3, FinishInv
  <1>4. CASE /\ orderHolder' = [orderHolder EXCEPT ![c.order] = s]
             /\ row' = [row EXCEPT ![s] = r]
             /\ Goto(s, NextLock(c))
             /\ UNCHANGED <<materialHolder, operationHolder>>
             /\ Acceptable(c, r)
    <2>1. NextLock(c) \in {"materials", "next", "commit"}
      BY DEF NextLock
    <2> DEFINE step == NextLock(c)
    <2>2. /\ pc' = [pc EXCEPT ![s] = step] /\ UNCHANGED books /\ UNCHANGED <<call, reply, started>>
      BY <1>4 DEF Goto
    <2> HIDE DEF step
    <2>3. SessionTypes'
      <3>1. pc' \in [Sessions -> {"idle", "check", "material", "operation", "order", "materials",
                                  "next", "commit"}]
        BY <1>1, <2>1, <2>2 DEF SessionTypes, step
      <3>2. r \in [status : OrderStatus, completed : Nat]
        BY <1>1, <1>2 DEF BookTypes
      <3>3. row' \in [Sessions -> [status : OrderStatus, completed : Nat]]
        <4> HIDE DEF r
        <4> QED BY <1>1, <1>4, <3>2 DEF SessionTypes
      <3>4. orderHolder' \in [Orders -> Sessions \union {NoSession}]
        BY <1>1, <1>2, <1>4 DEF SessionTypes
      <3> QED
        BY <1>1, <1>4, <2>2, <3>1, <3>3, <3>4 DEF SessionTypes
    <2>4. \A t \in Sessions \ {s} : pc'[t] = pc[t] /\ call'[t] = call[t] /\ row'[t] = row[t]
      BY <1>1, <1>4, <2>2 DEF SessionTypes
    <2>5. \A x \in Orders : orderHolder[x] \in Sessions \ {s} => orderHolder'[x] = orderHolder[x]
      <3>1. orderHolder[c.order] = NoSession
        BY DEF LockOrder, OrderFree
      <3> QED BY <1>1, <1>2, <1>4, <3>1, NoSessionHere DEF SessionTypes
    <2>6. InCall(s)'
      <3>1. pc'[s] = step /\ call' = call /\ status' = status /\ completed' = completed
        BY <1>1, <2>2 DEF SessionTypes, books
      <3>2. orderHolder'[c.order] = s /\ row'[s] = r
        BY <1>1, <1>2, <1>4 DEF SessionTypes
      <3>3. r.status = status[c.order] /\ r.completed = completed[c.order] /\ Acceptable(c, r)
        BY <1>4
      <3> HIDE DEF r
      <3>4. Current(s)'
        BY <3>1, <3>2, <3>3 DEF Current
      <3> QED BY <2>1, <3>1, <3>4 DEF InCall, step
    <2> QED
      BY <2>2, <2>3, <2>4, <2>5, <2>6, QuietStep
  <1> QED
    BY <1>3, <1>4 DEF LockOrder, ReplayCompletion

-----------------------------------------------------------------------------
(* Commits.                                                                *)

\* A session that commits holds the order, whose row it knows.
LEMMA Committer ==
  ASSUME IInv, NEW s \in Sessions, NEW kind, Committing(s, kind)
  PROVE  /\ call[s] \in Calls /\ call[s].order \in Orders /\ call[s].kind = kind
         /\ orderHolder[call[s].order] = s
         /\ row[s].status = status[call[s].order] /\ row[s].completed = completed[call[s].order]
         /\ Acceptable(call[s], row[s])
  <1>1. call[s] \in Calls
    BY DEF IInv, TypeOK
  <1>2. Locked(s) /\ call[s].kind = kind
    BY DEF Committing, Locked
  <1>3. Current(s)
    BY <1>2 DEF IInv, SessionsInv, InCall
  <1> QED
    BY <1>1, <1>2, <1>3, CallFields DEF Current

LEMMA CommitSessions ==
  ASSUME IInv, NEW s \in Sessions, NEW kind, Committing(s, kind), Done(s, "done"),
         \A x \in Orders \ {call[s].order} : status'[x] = status[x] /\ completed'[x] = completed[x]
  PROVE  SessionTypes' /\ SessionsInv'
  <1>1. SessionTypes
    BY TypesSplit DEF IInv
  <1>2. /\ SessionTypes' /\ InCall(s)'
        /\ \A t \in Sessions \ {s} : pc'[t] = pc[t] /\ call'[t] = call[t] /\ row'[t] = row[t]
        /\ \A x \in Orders : orderHolder[x] # s => orderHolder'[x] = orderHolder[x]
    BY <1>1, DoneFacts
  <1>3. orderHolder[call[s].order] = s
    BY Committer
  <1>4. \A x \in Orders : orderHolder[x] \in Sessions \ {s} =>
          orderHolder'[x] = orderHolder[x] /\ status'[x] = status[x] /\ completed'[x] = completed[x]
    BY <1>2, <1>3
  <1>5. \A t \in Sessions \ {s} : InCall(t)'
    BY <1>2, <1>4, OthersCurrent
  <1> QED
    BY <1>2, <1>5 DEF SessionsInv

\* A change of an order's status that keeps its books: a release, the start of an operation.
LEMMA StatusOnly ==
  ASSUME IInv, NEW o \in Orders, NEW new \in {"RELEASED", "IN_PROGRESS"},
         status[o] \in {"PLANNED", "RELEASED", "IN_PROGRESS"},
         status[o] = "PLANNED" \/ new = "IN_PROGRESS",
         status' = [status EXCEPT ![o] = new], UNCHANGED <<completed, completions>>
  PROVE  CompletionsAddUp'
  <1>1. status \in [Orders -> OrderStatus]
    BY DEF IInv, TypeOK
  <1>2. \A x \in Orders : CompletionsOf(x)' = CompletionsOf(x)
    BY DEF CompletionsOf
  <1>3. \A x \in Orders : status'[x] = IF x = o THEN new ELSE status[x]
    BY <1>1
  <1>4. CompletionsAddUp
    BY DEF IInv
  <1>5. ASSUME NEW x \in Orders
        PROVE  /\ (completed[x] = SumFunctionOnSet([r \in completions |-> r.good], CompletionsOf(x)))'
               /\ (completed[x] <= Quantity[x])'
               /\ (status[x] = "CLOSED" <=> completed[x] = Quantity[x])'
               /\ (CompletionsOf(x) # {} => status[x] \in {"IN_PROGRESS", "CLOSED"})'
    <2>1. /\ completed[x] = SumFunctionOnSet([r \in completions |-> r.good], CompletionsOf(x))
          /\ completed[x] <= Quantity[x]
          /\ status[x] = "CLOSED" <=> completed[x] = Quantity[x]
          /\ CompletionsOf(x) # {} => status[x] \in {"IN_PROGRESS", "CLOSED"}
      BY <1>4 DEF CompletionsAddUp
    <2>2. completed' = completed /\ completions' = completions
      OBVIOUS
    <2>3. CASE x = o
      BY <1>2, <1>3, <2>1, <2>2, <2>3
    <2>4. CASE x # o
      BY <1>2, <1>3, <2>1, <2>2, <2>4
    <2> QED BY <2>3, <2>4
  <1>6. \A r, x \in completions' : r.key = x.key => r = x
    BY <1>4 DEF CompletionsAddUp
  <1> QED
    BY <1>5, <1>6 DEF CompletionsAddUp

-----------------------------------------------------------------------------
(* Release.                                                                *)

LEMMA ReleaseInv ==
  ASSUME IInv, NEW s \in Sessions, CommitRelease(s)
  PROVE  IInv'
  <1> DEFINE o == call[s].order
  <1>1. SessionTypes /\ BookTypes
    BY TypesSplit DEF IInv
  <1>2. CASE Finish(s, "refused")
    BY <1>2, FinishInv
  <1>3. ASSUME NEW take \in Reservable(o),
               reserved' = [m \in Materials |-> [i \in Items |-> reserved[m][i] + take[m][i]]],
               allocated' = [i \in Items |-> allocated[i] + OfItem(take, i)],
               status' = [status EXCEPT ![o] = "RELEASED"],
               Done(s, "done"), Committing(s, "release"),
               UNCHANGED <<completed, issued, opStatus, onHand, issues, completions>>
        PROVE  IInv'
    <2>1. o \in Orders /\ status[o] = "PLANNED"
      <3>1. /\ call[s].order \in Orders /\ call[s].kind = "release"
            /\ row[s].status = status[call[s].order]
            /\ Acceptable(call[s], row[s])
        BY <1>3, Committer
      <3> QED BY <3>1 DEF Acceptable
    <2>2. /\ take \in Quantities
          /\ \A m \in Materials : SumOf(take[m]) = IF m \in MaterialsOf(o) THEN Required[m] ELSE 0
          /\ \A m \in Materials, i \in Items : take[m][i] > 0 => i \in Sources(m)
          /\ \A i \in Items : OfItem(take, i) > 0 => OfItem(take, i) <= Available(i)
      BY TakesAreQuantities DEF Reservable
    <2>3. reserved \in Quantities
      BY <1>1 DEF BookTypes, Quantities
    <2>4. reserved' \in Quantities /\ \A m \in Materials, i \in Items : reserved'[m][i] = reserved[m][i] + take[m][i]
      BY <1>3, <2>2, <2>3 DEF Quantities
    <2>5. /\ \A m \in Materials : SumOf(reserved'[m]) = SumOf(reserved[m]) + SumOf(take[m])
          /\ \A i \in Items : OfItem(reserved', i) = OfItem(reserved, i) + OfItem(take, i)
      BY <2>2, <2>3, <2>4, QuantityPlus
    <2>6. /\ \A i \in Items : OfItem(take, i) \in Nat /\ OfItem(reserved, i) \in Nat
          /\ \A m \in Materials : SumOf(take[m]) \in Nat /\ SumOf(reserved[m]) \in Nat
      BY <2>2, <2>3, QuantityType
    <2>7. \A x \in Orders : status'[x] = IF x = o THEN "RELEASED" ELSE status[x]
      BY <1>1, <1>3 DEF BookTypes
    <2>8. SessionTypes' /\ SessionsInv'
      BY <1>3, <2>7, CommitSessions
    <2>9. BookTypes'
      <3>1. status' \in [Orders -> OrderStatus]
        BY <1>1, <1>3 DEF BookTypes, OrderStatus
      <3>2. allocated' \in [Items -> Nat]
        BY <1>1, <1>3, <2>6 DEF BookTypes
      <3> QED BY <1>1, <1>3, <2>4, <3>1, <3>2 DEF BookTypes, Quantities
    <2>10. Rows'
      BY <1>3 DEF IInv, Rows
    <2>11. CompletionsAddUp'
      BY <1>3, <2>1, StatusOnly
    <2>12. ASSUME NEW m \in Materials
           PROVE  /\ status'[OrderOf[m]] = "PLANNED" => issued'[m] = 0 /\ SumOf(reserved'[m]) = 0
                  /\ OrderOf[m] = o => Secured'[m] = Required[m]
                  /\ OrderOf[m] # o => Secured'[m] = Secured[m] /\ status'[OrderOf[m]] = status[OrderOf[m]]
      <3>1. OrderOf[m] \in Orders /\ Required[m] \in Nat /\ issued[m] \in Nat /\ issued' = issued
        BY <1>1, <1>3, OrderOfRows, QuantitiesArePositive DEF BookTypes
      <3>2. status[OrderOf[m]] = "PLANNED" => issued[m] = 0 /\ SumOf(reserved[m]) = 0
        BY DEF IInv, MaterialsInv, Unreleased
      <3>3. SumOf(reserved'[m]) = SumOf(reserved[m]) + SumOf(take[m])
        BY <2>5
      <3> DEFINE a == SumOf(reserved'[m])
                 b == SumOf(reserved[m])
                 t == SumOf(take[m])
      <3>4. a = b + t /\ b \in Nat /\ t \in Nat
        BY <2>6, <3>3
      <3>5. Secured'[m] = issued[m] + a /\ Secured[m] = issued[m] + b
        BY <3>1 DEF Secured
      <3>6. CASE OrderOf[m] = o
        <4>1. t = Required[m] /\ b = 0 /\ issued[m] = 0 /\ status'[OrderOf[m]] = "RELEASED"
          BY <2>1, <2>2, <2>7, <3>1, <3>2, <3>6 DEF MaterialsOf
        <4> HIDE DEF a, b, t
        <4>2. issued[m] + a = Required[m]
          BY <3>1, <3>4, <4>1
        <4> QED BY <3>5, <3>6, <4>1, <4>2
      <3>7. CASE OrderOf[m] # o
        <4>1. t = 0 /\ status'[OrderOf[m]] = status[OrderOf[m]]
          BY <2>2, <2>7, <3>1, <3>7 DEF MaterialsOf
        <4>2. status[OrderOf[m]] = "PLANNED" => issued[m] = 0 /\ b = 0
          BY <3>2
        <4> HIDE DEF a, b, t
        <4>3. a = b
          BY <3>4, <4>1
        <4> QED BY <3>1, <3>5, <3>7, <4>1, <4>2, <4>3 DEF a
      <3> QED BY <3>6, <3>7
    <2>17. ASSUME NEW m \in Materials, status'[OrderOf[m]] # "PLANNED"
           PROVE  SumFunctionOnSet(Secured', Alike(m)) = SumFunctionOnSet(Required, Alike(m))
      <3>1. IsFiniteSet(Alike(m)) /\ \A n \in Alike(m) : n \in Materials /\ OrderOf[n] = OrderOf[m]
        BY AlikeFacts
      <3> DEFINE new == Secured'
      <3>2. CASE OrderOf[m] = o
        <4>1. \A n \in Alike(m) : new[n] = Required[n]
          BY <2>12, <3>1, <3>2
        <4> HIDE DEF new
        <4>2. SumFunctionOnSet(new, Alike(m)) = SumFunctionOnSet(Required, Alike(m))
          BY <3>1, <4>1, SumAgree
        <4> QED BY <4>2 DEF new
      <3>3. CASE OrderOf[m] # o
        <4>1. \A n \in Alike(m) : new[n] = Secured[n]
          BY <2>12, <3>1, <3>3
        <4>2. status[OrderOf[m]] # "PLANNED"
          BY <2>12, <2>17, <3>3
        <4>3. SumFunctionOnSet(Secured, Alike(m)) = SumFunctionOnSet(Required, Alike(m))
          BY <4>2 DEF IInv, MaterialsInv, MaterialSecured, Secured
        <4> HIDE DEF new
        <4>4. SumFunctionOnSet(new, Alike(m)) = SumFunctionOnSet(Secured, Alike(m))
          BY <3>1, <4>1, SumAgree
        <4> QED BY <4>3, <4>4 DEF new
      <3> QED BY <3>2, <3>3
    <2>13. ASSUME NEW i \in Items
           PROVE  allocated'[i] = OfItem(reserved', i) /\ allocated'[i] <= onHand'[i]
      <3> DEFINE a == OfItem(reserved, i)
                 t == OfItem(take, i)
                 n == OfItem(reserved', i)
      <3>1. n = a + t /\ a \in Nat /\ t \in Nat
        BY <2>5, <2>6
      <3>2. allocated[i] = a /\ a <= onHand[i] /\ onHand[i] \in Nat
        BY <1>1 DEF IInv, MaterialsInv, MaterialSecured, BookTypes
      <3>3. allocated'[i] = allocated[i] + t /\ onHand'[i] = onHand[i]
        BY <1>3
      <3>4. t > 0 => t <= onHand[i] - allocated[i]
        BY <2>2 DEF Available
      <3> HIDE DEF a, t, n
      <3>5. allocated'[i] = n /\ allocated'[i] <= onHand'[i]
        BY <3>1, <3>2, <3>3, <3>4
      <3> QED BY <3>5 DEF n
    <2>14. MaterialsInv'
      <3>1. Unreleased'
        BY <2>12 DEF Unreleased
      <3>2. MaterialSecured'
        BY <2>13, <2>17 DEF MaterialSecured, Secured
      <3>3. WithinRequired'
        BY <1>3 DEF IInv, MaterialsInv, WithinRequired
      <3>4. ASSUME NEW m \in Materials, NEW i \in Items, reserved'[m][i] > 0
            PROVE  i \in Sources(m)
        <4>1. reserved[m][i] \in Nat /\ take[m][i] \in Nat /\ reserved'[m][i] = reserved[m][i] + take[m][i]
          BY <2>2, <2>3, <2>4 DEF Quantities
        <4>2. reserved[m][i] > 0 \/ take[m][i] > 0
          BY <3>4, <4>1
        <4> QED BY <2>2, <4>2 DEF IInv, MaterialsInv, FromSources
      <3> QED BY <3>1, <3>2, <3>3, <3>4 DEF MaterialsInv, FromSources
    <2>15. BackflushIssuesAll'
      BY <1>3 DEF IInv, BackflushIssuesAll
    <2>16. TypeOK'
      BY <2>8, <2>9 DEF TypeOK, SessionTypes, BookTypes
    <2> QED
      BY <2>8, <2>10, <2>11, <2>14, <2>15, <2>16 DEF IInv
  <1> QED
    BY <1>2, <1>3 DEF CommitRelease

-----------------------------------------------------------------------------
(* Operations.                                                             *)

LEMMA OperationInv ==
  ASSUME IInv, NEW s \in Sessions, CommitAdvance(s) \/ CommitReport(s)
  PROVE  IInv'
  <1> DEFINE o == call[s].order
  <1>1. SessionTypes /\ BookTypes
    BY TypesSplit DEF IInv
  <1>2. PICK kind \in {"advance", "report"} : Committing(s, kind)
    BY DEF CommitAdvance, CommitReport
  <1>3. /\ call[s] \in Calls /\ o \in Orders /\ call[s].kind = kind
        /\ row[s].status = status[o] /\ Acceptable(call[s], row[s])
    BY <1>2, Committer
  <1>4. CASE Finish(s, "refused")
    BY <1>4, FinishInv
  <1>5. ASSUME \/ status' = status
               \/ row[s].status = "RELEASED" /\ status' = [status EXCEPT ![o] = "IN_PROGRESS"],
               Done(s, "done"),
               opStatus' \in [Operations -> OperationStatus],
               UNCHANGED <<completed, issued, reserved, stock, completions>>
        PROVE  IInv'
    <2>1. \/ status' = status
          \/ status[o] = "RELEASED" /\ status' = [status EXCEPT ![o] = "IN_PROGRESS"]
      BY <1>3, <1>5
    <2>2. \A x \in Orders : \/ status'[x] = status[x]
                            \/ x = o /\ status[x] = "RELEASED" /\ status'[x] = "IN_PROGRESS"
      BY <1>1, <1>3, <2>1 DEF BookTypes
    <2>3. SessionTypes' /\ SessionsInv'
      <3>1. \A x \in Orders \ {o} : status'[x] = status[x] /\ completed'[x] = completed[x]
        BY <1>5, <2>2
      <3> QED BY <1>2, <1>5, <3>1, CommitSessions
    <2>4. BookTypes'
      <3>1. status' \in [Orders -> OrderStatus]
        BY <1>1, <2>1 DEF BookTypes, OrderStatus
      <3> QED BY <1>1, <1>5, <3>1 DEF BookTypes, stock
    <2>5. Rows'
      BY <1>5 DEF IInv, Rows, stock
    <2>6. CompletionsAddUp'
      <3>1. CASE status' = status
        BY <1>5, <3>1 DEF IInv, CompletionsAddUp, CompletionsOf
      <3>2. CASE status[o] = "RELEASED" /\ status' = [status EXCEPT ![o] = "IN_PROGRESS"]
        BY <1>3, <1>5, <3>2, StatusOnly
      <3> QED BY <2>1, <3>1, <3>2
    <2>7. \A x \in Orders : /\ status'[x] = "PLANNED" <=> status[x] = "PLANNED"
                            /\ status'[x] = "CLOSED" <=> status[x] = "CLOSED"
      BY <2>2
    <2>8. \A m \in Materials : OrderOf[m] \in Orders
      BY OrderOfRows
    <2>9. MaterialsInv'
      BY <1>5, <2>7, <2>8
         DEF IInv, MaterialsInv, Unreleased, MaterialSecured, WithinRequired, FromSources, stock
    <2>10. BackflushIssuesAll'
      BY <1>5 DEF IInv, BackflushIssuesAll
    <2>11. TypeOK'
      BY <2>3, <2>4 DEF TypeOK, SessionTypes, BookTypes
    <2> QED
      BY <2>3, <2>5, <2>6, <2>9, <2>10, <2>11 DEF IInv
  <1>6. call[s].operation \in Operations
    BY <1>3, CallFields
  <1>7. CASE CommitAdvance(s)
    <2>1. call[s].action \in OperationActions
      BY <1>3, CallsOfClients DEF Call
    <2>2. Target(call[s].action) \in OperationStatus
      BY <2>1 DEF OperationActions, Target, OperationStatus
    <2> DEFINE new == Target(call[s].action)
    <2>3. CASE /\ opStatus' = [opStatus EXCEPT ![call[s].operation] = new]
               /\ status' = InProgress(s, new \in {"SETUP", "RUNNING"})
               /\ Done(s, "done")
               /\ UNCHANGED <<completed, issued, reserved, stock, completions>>
      <3>1. opStatus' \in [Operations -> OperationStatus]
        <4> HIDE DEF new
        <4> QED BY <1>1, <1>6, <2>2, <2>3 DEF BookTypes, new
      <3>2. \/ status' = status
            \/ row[s].status = "RELEASED" /\ status' = [status EXCEPT ![o] = "IN_PROGRESS"]
        BY <2>3 DEF InProgress
      <3> QED BY <1>5, <2>3, <3>1, <3>2
    <2> QED BY <1>4, <1>7, <2>3 DEF CommitAdvance
  <1>8. CASE CommitReport(s)
    <2> DEFINE p == call[s].operation
               next == {q \in Following(p) : operationHolder[q] = s}
    <2>1. CASE /\ opStatus' = [q \in Operations |->
                    IF q = p THEN "COMPLETED" ELSE IF q \in next THEN "READY" ELSE opStatus[q]]
               /\ status' = InProgress(s, TRUE)
               /\ Done(s, "done")
               /\ UNCHANGED <<completed, issued, reserved, stock, completions>>
      <3>1. opStatus' \in [Operations -> OperationStatus]
        BY <1>1, <2>1 DEF BookTypes, OperationStatus
      <3>2. \/ status' = status
            \/ row[s].status = "RELEASED" /\ status' = [status EXCEPT ![o] = "IN_PROGRESS"]
        BY <2>1 DEF InProgress
      <3> QED BY <1>5, <2>1, <3>1, <3>2
    <2> QED BY <1>4, <1>8, <2>1 DEF CommitReport
  <1> QED
    BY <1>7, <1>8 DEF CommitAdvance, CommitReport

-----------------------------------------------------------------------------
(* Consumption of material.                                                *)

\* What a call draws from the reservations comes out of the allocated quantity, and no
\* more of it out of the stock.
LEMMA ConsumeFacts ==
  ASSUME IInv, NEW draw \in Drawings, NEW key \in Keys,
         \A m \in Materials, i \in Items : DrawnFrom(draw, m, i) <= reserved[m][i],
         Postable(draw, key), Consume(draw, key)
  PROVE  /\ onHand' \in [Items -> Nat] /\ allocated' \in [Items -> Nat]
         /\ reserved' \in Quantities
         /\ issues' \subseteq [key : Keys, reservation : Reservations, qty : Nat]
         /\ IsFiniteSet(issues')
         /\ \A m \in Materials, i \in Items : reserved'[m][i] <= reserved[m][i]
         /\ \A m \in Materials :
              /\ SumOf(reserved'[m]) \in Nat /\ SumOf(Drawn(draw)[m]) \in Nat
              /\ SumOf(reserved[m]) = SumOf(reserved'[m]) + SumOf(Drawn(draw)[m])
         /\ \A i \in Items : allocated'[i] = OfItem(reserved', i) /\ allocated'[i] <= onHand'[i]
  <1>1. BookTypes /\ reserved \in Quantities
    BY TypesSplit DEF IInv, BookTypes, Quantities
  <1>2. PICK take \in Quantities : take = Drawn(draw)
    BY DrawSums
  <1>3. \A m \in Materials, i \in Items : take[m][i] = DrawnFrom(draw, m, i)
    BY <1>2, DrawSums
  <1>4. /\ onHand' = [i \in Items |-> onHand[i] - Moving(draw, key, i)]
        /\ allocated' = [i \in Items |->
             IF allocated[i] >= OfItem(take, i) THEN allocated[i] - OfItem(take, i) ELSE 0]
        /\ issues' = issues \union Posting(draw, key)
        /\ reserved' = [m \in Materials |-> [i \in Items |-> reserved[m][i] - DrawnFrom(draw, m, i)]]
    BY <1>2 DEF Consume
  <1>5. /\ reserved' \in Quantities
        /\ \A m \in Materials, i \in Items : /\ reserved[m][i] = reserved'[m][i] + take[m][i]
                                             /\ reserved'[m][i] <= reserved[m][i]
    <2>1. ASSUME NEW m \in Materials, NEW i \in Items
          PROVE  /\ reserved[m][i] - take[m][i] \in Nat
                 /\ reserved[m][i] = (reserved[m][i] - take[m][i]) + take[m][i]
                 /\ reserved[m][i] - take[m][i] <= reserved[m][i]
      <3>1. reserved[m][i] \in Nat /\ take[m][i] \in Nat /\ take[m][i] <= reserved[m][i]
        BY <1>1, <1>3 DEF Quantities
      <3> QED BY <3>1
    <2>2. \A m \in Materials, i \in Items : reserved'[m][i] = reserved[m][i] - take[m][i]
      BY <1>3, <1>4
    <2>3. reserved' \in Quantities
      BY <1>3, <1>4, <2>1 DEF Quantities
    <2> QED BY <2>1, <2>2, <2>3
  <1>6. /\ \A m \in Materials : SumOf(reserved[m]) = SumOf(reserved'[m]) + SumOf(take[m])
        /\ \A i \in Items : OfItem(reserved, i) = OfItem(reserved', i) + OfItem(take, i)
    BY <1>1, <1>5, QuantityPlus
  <1>7. /\ \A i \in Items : OfItem(take, i) \in Nat /\ OfItem(reserved', i) \in Nat
        /\ \A m \in Materials : SumOf(reserved'[m]) \in Nat /\ SumOf(take[m]) \in Nat
    BY <1>5, QuantityType
  <1>8. ASSUME NEW i \in Items
        PROVE  /\ allocated'[i] = OfItem(reserved', i) /\ allocated'[i] <= onHand'[i]
               /\ onHand'[i] \in Nat /\ allocated'[i] \in Nat
    <2> DEFINE a == OfItem(reserved, i)
               t == OfItem(take, i)
               n == OfItem(reserved', i)
               v == Moving(draw, key, i)
    <2>1. a = n + t /\ n \in Nat /\ t \in Nat
      BY <1>6, <1>7
    <2>2. v \in Nat /\ v <= t
      BY <1>2, MovingFacts
    <2>3. allocated[i] = a /\ a <= onHand[i] /\ onHand[i] \in Nat
      BY <1>1 DEF IInv, MaterialsInv, MaterialSecured, BookTypes
    <2>4. /\ onHand'[i] = onHand[i] - v
          /\ allocated'[i] = IF allocated[i] >= t THEN allocated[i] - t ELSE 0
      BY <1>4
    <2>5. onHand[i] >= v
      BY DEF Postable
    <2> HIDE DEF a, t, n, v
    <2>6. allocated'[i] = n /\ n <= onHand'[i] /\ onHand'[i] \in Nat
      BY <2>1, <2>2, <2>3, <2>4, <2>5
    <2> QED BY <2>1, <2>6 DEF n
  <1>9. onHand' \in [Items -> Nat] /\ allocated' \in [Items -> Nat]
    BY <1>4, <1>8
  <1>10. IsFiniteSet(issues') /\ issues' \subseteq [key : Keys, reservation : Reservations, qty : Nat]
    <2>1. /\ IsFiniteSet(Posting(draw, key))
          /\ Posting(draw, key) \subseteq [key : Keys, reservation : Reservations, qty : Nat]
      BY PostingFacts
    <2>2. IsFiniteSet(issues) /\ issues \subseteq [key : Keys, reservation : Reservations, qty : Nat]
      BY <1>1 DEF IInv, Rows, BookTypes
    <2> QED BY <1>4, <2>1, <2>2, FS_Union
  <1> QED
    BY <1>2, <1>5, <1>6, <1>7, <1>8, <1>9, <1>10

\* What is issued to the materials of a component comes out of their reservations.
LEMMA ConsumedMaterials ==
  ASSUME IInv, NEW draw \in Drawings, NEW key \in Keys,
         \A m \in Materials, i \in Items : DrawnFrom(draw, m, i) <= reserved[m][i],
         Postable(draw, key), Consume(draw, key),
         NEW o \in Orders, \A m \in Materials : OrderOf[m] # o => DrawnBy(draw, m) = 0,
         \A m \in Materials : issued[m] + DrawnBy(draw, m) <= Required[m],
         status[o] # "PLANNED", status'[o] # "PLANNED", \A x \in Orders \ {o} : status'[x] = status[x]
  PROVE  /\ issued' \in [Materials -> Nat] /\ MaterialsInv'
         /\ \A m \in Materials : issued'[m] = issued[m] + DrawnBy(draw, m)
  <1>1. BookTypes
    BY TypesSplit DEF IInv
  <1>2. /\ \A m \in Materials :
             /\ SumOf(reserved'[m]) \in Nat /\ SumOf(Drawn(draw)[m]) \in Nat
             /\ SumOf(reserved[m]) = SumOf(reserved'[m]) + SumOf(Drawn(draw)[m])
        /\ \A i \in Items : allocated'[i] = OfItem(reserved', i) /\ allocated'[i] <= onHand'[i]
        /\ \A m \in Materials, i \in Items : reserved'[m][i] <= reserved[m][i]
        /\ reserved' \in Quantities
    BY ConsumeFacts
  <1>3. \A m \in Materials : DrawnBy(draw, m) \in Nat /\ issued[m] \in Nat /\ OrderOf[m] \in Orders
    BY <1>1, DrawSums, OrderOfRows DEF BookTypes
  <1>4. issued' = [m \in Materials |-> issued[m] + DrawnBy(draw, m)]
    BY DEF Consume
  <1>5. issued' \in [Materials -> Nat] /\ \A m \in Materials : issued'[m] = issued[m] + DrawnBy(draw, m)
    BY <1>3, <1>4
  <1>6. \A x \in Orders : status'[x] = "PLANNED" <=> status[x] = "PLANNED"
    OBVIOUS
  <1>7. Unreleased'
    <2> SUFFICES ASSUME NEW m \in Materials, status'[OrderOf[m]] = "PLANNED"
                 PROVE  issued'[m] = 0 /\ SumOf(reserved'[m]) = 0
      BY DEF Unreleased
    <2> DEFINE n == SumOf(reserved'[m])
               b == SumOf(reserved[m])
               t == SumOf(Drawn(draw)[m])
    <2>1. n \in Nat /\ t \in Nat /\ b = n + t
      BY <1>2
    <2>2. status[OrderOf[m]] = "PLANNED" /\ OrderOf[m] # o
      BY <1>3, <1>6
    <2>3. issued[m] = 0 /\ b = 0
      BY <2>2 DEF IInv, MaterialsInv, Unreleased
    <2>4. issued'[m] = issued[m] + DrawnBy(draw, m) /\ DrawnBy(draw, m) = 0
      BY <1>5, <2>2
    <2> HIDE DEF n, b, t
    <2>5. issued'[m] = 0 /\ n = 0
      BY <2>1, <2>3, <2>4
    <2> QED BY <2>5 DEF n
  <1>8. ASSUME NEW m \in Materials, status'[OrderOf[m]] # "PLANNED"
        PROVE  SumFunctionOnSet(Secured', Alike(m)) = SumFunctionOnSet(Required, Alike(m))
    <2> DEFINE G == Alike(m)
               new == Secured'
               old == Secured
               by == [n \in Materials |-> DrawnBy(draw, n)]
               from == [n \in Materials |-> SumOf(Drawn(draw)[n])]
               both == [n \in Materials |-> old[n] + by[n]]
    <2>1. IsFiniteSet(G) /\ G \in SUBSET Materials
      BY AlikeFacts
    <2>2. ASSUME NEW n \in Materials
          PROVE  /\ old[n] \in Int /\ by[n] \in Int /\ new[n] \in Int /\ from[n] \in Int
                 /\ both[n] = old[n] + by[n] /\ both[n] = new[n] + from[n]
      <3> DEFINE a == SumOf(reserved'[n])
                 b == SumOf(reserved[n])
                 t == SumOf(Drawn(draw)[n])
                 d == DrawnBy(draw, n)
      <3>1. a \in Nat /\ t \in Nat /\ b = a + t /\ d \in Nat /\ issued[n] \in Nat
        BY <1>2, <1>3
      <3>2. new[n] = issued'[n] + a /\ old[n] = issued[n] + b /\ by[n] = d /\ from[n] = t
        BY DEF Secured
      <3>3. issued'[n] = issued[n] + d
        BY <1>5
      <3>4. both[n] = old[n] + by[n]
        OBVIOUS
      <3> HIDE DEF a, b, t, d, new, old, by, from, both
      <3> QED BY <3>1, <3>2, <3>3, <3>4
    <2>3. SumFunctionOnSet(by, G) = SumFunctionOnSet(from, G)
      BY GroupSums
    <2>4. SumFunctionOnSet(old, G) = SumFunctionOnSet(Required, G)
      <3>1. status[OrderOf[m]] # "PLANNED"
        BY <1>3, <1>6, <1>8
      <3> QED BY <3>1 DEF IInv, MaterialsInv, MaterialSecured, Secured
    <2> HIDE DEF G, new, old, by, from, both
    <2>5. SumFunctionOnSet(both, G) = SumFunctionOnSet(old, G) + SumFunctionOnSet(by, G)
      BY <2>1, <2>2, SumPlus
    <2>6. SumFunctionOnSet(both, G) = SumFunctionOnSet(new, G) + SumFunctionOnSet(from, G)
      BY <2>1, <2>2, SumPlus
    <2>7. /\ SumFunctionOnSet(old, G) \in Int /\ SumFunctionOnSet(by, G) \in Int
          /\ SumFunctionOnSet(new, G) \in Int
      BY <2>1, <2>2, SumType
    <2> DEFINE a == SumFunctionOnSet(old, G)
               b == SumFunctionOnSet(by, G)
               c == SumFunctionOnSet(new, G)
    <2>8. a + b = c + b /\ a \in Int /\ b \in Int /\ c \in Int
      BY <2>3, <2>5, <2>6, <2>7
    <2> HIDE DEF a, b, c
    <2>9. c = a
      BY <2>8
    <2> QED BY <2>4, <2>9 DEF a, c, new, G
  <1>9. MaterialSecured'
    BY <1>2, <1>8 DEF MaterialSecured, Secured
  <1>10. WithinRequired'
    BY <1>5 DEF WithinRequired
  <1>11. ASSUME NEW m \in Materials, NEW i \in Items, reserved'[m][i] > 0
         PROVE  i \in Sources(m)
    <2>1. reserved'[m][i] \in Nat /\ reserved[m][i] \in Nat /\ reserved'[m][i] <= reserved[m][i]
      BY <1>1, <1>2 DEF BookTypes, Quantities
    <2>2. reserved[m][i] > 0
      BY <1>11, <2>1
    <2> QED BY <2>2 DEF IInv, MaterialsInv, FromSources
  <1> QED
    BY <1>5, <1>7, <1>9, <1>10, <1>11 DEF MaterialsInv, FromSources

\* Quantities issued grow up to what is required, so the closed orders stay issued.
LEMMA ClosedStayIssued ==
  ASSUME BackflushIssuesAll, WithinRequired', issued \in [Materials -> Nat],
         issued' \in [Materials -> Nat], \A m \in Materials : issued[m] <= issued'[m],
         NEW r \in completions, r.closed, r.backflush, NEW m \in MaterialsOf(r.order)
  PROVE  issued'[m] = Required[m]
  <1>1. m \in Materials /\ issued[m] = Required[m]
    BY DEF BackflushIssuesAll, MaterialsOf
  <1>2. Required[m] \in Nat /\ issued'[m] \in Nat /\ issued[m] <= issued'[m] /\ issued'[m] <= Required[m]
    BY <1>1, QuantitiesArePositive DEF WithinRequired
  <1> QED
    BY <1>1, <1>2

\* What an issue draws: its quantity, for its material.
LEMMA IssuableFacts ==
  ASSUME IInv, NEW c \in Calls, NEW draw \in Issuable(c)
  PROVE  /\ draw \in Drawings
         /\ \A m \in Materials, i \in Items : DrawnFrom(draw, m, i) <= reserved[m][i]
         /\ \A m \in Materials : OrderOf[m] # c.order => DrawnBy(draw, m) = 0
         /\ \A m \in Materials : issued[m] + DrawnBy(draw, m) <= Required[m]
  <1>1. draw \in Drawings /\ \A m \in Materials, i \in Items : DrawnFrom(draw, m, i) <= reserved[m][i]
    BY DrawsAreDrawings DEF Issuable, Drawable
  <1>2. c.material \in Materials /\ c.qty \in Nat /\ OrderOf[c.material] = c.order
    BY CallFields
  <1>3. /\ \A m \in Materials : DrawnBy(draw, m) = IF m = c.material THEN c.qty ELSE 0
        /\ c.qty <= Required[c.material] - issued[c.material]
    BY DEF Issuable
  <1>4. \A m \in Materials : issued[m] \in Nat /\ Required[m] \in Nat /\ issued[m] <= Required[m]
    BY QuantitiesArePositive DEF IInv, TypeOK, MaterialsInv, WithinRequired
  <1>5. \A m \in Materials : issued[m] + DrawnBy(draw, m) <= Required[m]
    BY <1>2, <1>3, <1>4
  <1>6. \A m \in Materials : OrderOf[m] # c.order => DrawnBy(draw, m) = 0
    BY <1>2, <1>3
  <1> QED
    BY <1>1, <1>5, <1>6

LEMMA IssueInv ==
  ASSUME IInv, NEW s \in Sessions, CommitIssue(s)
  PROVE  IInv'
  <1>1. SessionTypes /\ BookTypes
    BY TypesSplit DEF IInv
  <1>2. Committing(s, "issue")
    BY DEF CommitIssue
  <1>3. PICK c \in Calls : c = call[s]
    BY <1>2, Committer
  <1>4. PICK o \in Orders : o = c.order
    BY CallFields
  <1>5. c.kind = "issue" /\ row[s].status = status[o] /\ Acceptable(c, row[s]) /\ c.key \in Keys
    BY <1>2, <1>3, <1>4, Committer, CallFields
  <1>6. status[o] \in {"RELEASED", "IN_PROGRESS"}
    BY <1>5 DEF Acceptable
  <1>7. CASE Finish(s, "refused")
    BY <1>7, FinishInv
  <1>8. ASSUME NEW draw \in Issuable(c), Postable(draw, c.key), Consume(draw, c.key), Done(s, "done"),
               UNCHANGED <<status, completed, opStatus, completions>>
        PROVE  IInv'
    <2>1. /\ draw \in Drawings
          /\ \A m \in Materials, i \in Items : DrawnFrom(draw, m, i) <= reserved[m][i]
          /\ \A m \in Materials : OrderOf[m] # o => DrawnBy(draw, m) = 0
          /\ \A m \in Materials : issued[m] + DrawnBy(draw, m) <= Required[m]
      BY <1>4, IssuableFacts
    <2> DEFINE key == c.key
    <2>2. key \in Keys /\ Postable(draw, key) /\ Consume(draw, key)
      BY <1>5, <1>8
    <2>3. status[o] # "PLANNED" /\ status'[o] # "PLANNED" /\ \A x \in Orders \ {o} : status'[x] = status[x]
      BY <1>6, <1>8
    <2> HIDE DEF key
    <2>4. /\ issued' \in [Materials -> Nat] /\ MaterialsInv'
          /\ \A m \in Materials : issued'[m] = issued[m] + DrawnBy(draw, m)
      BY <2>1, <2>2, <2>3, ConsumedMaterials
    <2>5. /\ onHand' \in [Items -> Nat] /\ allocated' \in [Items -> Nat] /\ reserved' \in Quantities
          /\ issues' \subseteq [key : Keys, reservation : Reservations, qty : Nat]
          /\ IsFiniteSet(issues')
      BY <2>1, <2>2, ConsumeFacts
    <2>6. SessionTypes' /\ SessionsInv'
      BY <1>2, <1>8, CommitSessions
    <2>7. BookTypes'
      BY <1>1, <1>8, <2>4, <2>5 DEF BookTypes, Quantities
    <2>8. Rows'
      BY <1>8, <2>5 DEF IInv, Rows
    <2>9. CompletionsAddUp'
      BY <1>8 DEF IInv, CompletionsAddUp, CompletionsOf
    <2>10. BackflushIssuesAll'
      <3>1. issued \in [Materials -> Nat] /\ \A m \in Materials : issued[m] <= issued'[m]
        BY <1>1, <2>1, <2>4, DrawSums DEF BookTypes
      <3>2. BackflushIssuesAll /\ WithinRequired' /\ completions' = completions
        BY <1>8, <2>4 DEF IInv, MaterialsInv
      <3>3. \A r \in completions : r.closed /\ r.backflush =>
              \A m \in MaterialsOf(r.order) : issued'[m] = Required[m]
        BY <2>4, <3>1, <3>2, ClosedStayIssued
      <3> QED BY <3>2, <3>3 DEF BackflushIssuesAll
    <2>11. TypeOK'
      BY <2>6, <2>7 DEF TypeOK, SessionTypes, BookTypes
    <2> QED
      BY <2>4, <2>6, <2>8, <2>9, <2>10, <2>11 DEF IInv
  <1>9. \/ Finish(s, "refused")
        \/ \E draw \in Issuable(c) : /\ Postable(draw, c.key) /\ Consume(draw, c.key) /\ Done(s, "done")
                                     /\ UNCHANGED <<status, completed, opStatus, completions>>
    BY <1>3 DEF CommitIssue
  <1> QED
    BY <1>7, <1>8, <1>9

-----------------------------------------------------------------------------
(* Completion.                                                             *)

\* What is reported is what is completed, and the scrap.
LEMMA ReportedFacts ==
  ASSUME IInv, NEW o \in Orders
  PROVE  Reported(o) \in Nat /\ completed[o] <= Reported(o)
  <1> DEFINE S == CompletionsOf(o)
             f == [r \in completions |-> r.good]
             g == [r \in completions |-> r.good + r.scrap]
  <1>1. S \subseteq completions /\ IsFiniteSet(S)
    <2>1. S \subseteq completions
      BY DEF CompletionsOf
    <2> QED BY <2>1, FS_Subset DEF IInv, Rows
  <1>2. \A r \in completions : r.good \in Nat /\ r.scrap \in Nat
    BY DEF IInv, TypeOK, WorkOrderCompletion
  <1>3. \A r \in S : f[r] \in Int /\ g[r] \in Int /\ f[r] <= g[r] /\ g[r] \in Nat
    BY <1>1, <1>2
  <1>4. completed[o] = SumFunctionOnSet(f, S)
    BY DEF IInv, CompletionsAddUp
  <1> HIDE DEF f, g, S
  <1>5. SumFunctionOnSet(f, S) <= SumFunctionOnSet(g, S) /\ SumFunctionOnSet(g, S) \in Nat
    BY <1>1, <1>3, SumMonotone, SumNat
  <1> QED
    BY <1>4, <1>5 DEF Reported, g, S

\* A row more: the completions of its order have its quantity more.
LEMMA CompletionAdded ==
  ASSUME IInv, NEW o \in Orders, NEW n \in WorkOrderCompletion, n.order = o,
         ~KeyCompleted(n.key), completions' = completions \union {n}
  PROVE  /\ IsFiniteSet(completions')
         /\ \A x \in Orders : CompletionsOf(x)' = IF x = o THEN CompletionsOf(o) \union {n} ELSE CompletionsOf(x)
         /\ \A x \in Orders :
              SumFunctionOnSet([r \in completions |-> r.good], CompletionsOf(x))' =
                SumFunctionOnSet([r \in completions |-> r.good], CompletionsOf(x)) +
                  IF x = o THEN n.good ELSE 0
         /\ \A r, x \in completions' : r.key = x.key => r = x
  <1> DEFINE f == [r \in completions |-> r.good]
             g == [r \in completions \union {n} |-> r.good]
  <1>1. n \notin completions /\ IsFiniteSet(completions)
    BY DEF IInv, Rows, KeyCompleted
  <1>2. IsFiniteSet(completions')
    BY <1>1, FS_AddElement
  <1>3. \A x \in Orders : CompletionsOf(x)' = IF x = o THEN CompletionsOf(o) \union {n} ELSE CompletionsOf(x)
    BY DEF CompletionsOf
  <1>4. \A r \in completions \union {n} : r.good \in Nat
    BY DEF IInv, TypeOK, WorkOrderCompletion
  <1>5. ASSUME NEW x \in Orders
        PROVE  SumFunctionOnSet([r \in completions |-> r.good], CompletionsOf(x))' =
                 SumFunctionOnSet(f, CompletionsOf(x)) + IF x = o THEN n.good ELSE 0
    <2> DEFINE S == CompletionsOf(x)
    <2>1. S \subseteq completions /\ IsFiniteSet(S) /\ n \notin S
      <3>1. S \subseteq completions
        BY DEF CompletionsOf
      <3> QED BY <1>1, <3>1, FS_Subset
    <2>2. (\A r \in S : f[r] = g[r] /\ f[r] \in Int) /\ g[n] = n.good /\ \A r \in S \union {n} : g[r] \in Int
      BY <1>4, <2>1
    <2>3. [r \in completions' |-> r.good] = g
      OBVIOUS
    <2> DEFINE S2 == CompletionsOf(x)'
    <2>4. S2 = IF x = o THEN S \union {n} ELSE S
      BY <1>3
    <2>5. SumFunctionOnSet([r \in completions |-> r.good], CompletionsOf(x))' = SumFunctionOnSet(g, S2)
      BY <2>3
    <2> HIDE DEF f, g, S, S2
    <2>6. SumFunctionOnSet(f, S) = SumFunctionOnSet(g, S) /\ SumFunctionOnSet(f, S) \in Int
      BY <2>1, <2>2, SumAgree, SumType
    <2>7. SumFunctionOnSet(g, S \union {n}) = g[n] + SumFunctionOnSet(g, S)
      BY <2>1, <2>2, SumAdd
    <2>8. g[n] \in Int
      BY <2>2
    <2>9. SumFunctionOnSet(g, S2) = SumFunctionOnSet(f, S) + IF x = o THEN g[n] ELSE 0
      BY <2>4, <2>6, <2>7, <2>8
    <2> QED BY <2>2, <2>5, <2>9 DEF f, S
  <1>6. \A r, x \in completions' : r.key = x.key => r = x
    BY DEF IInv, CompletionsAddUp, KeyCompleted
  <1> QED
    BY <1>2, <1>3, <1>5, <1>6

\* Nothing drawn.
LEMMA NothingFacts ==
  /\ NothingDrawn \in Drawings
  /\ \A m \in Materials : DrawnBy(NothingDrawn, m) = 0
  /\ \A m \in Materials, i \in Items : DrawnFrom(NothingDrawn, m, i) = 0
  <1>1. NothingDrawn \in Drawings /\ \A u \in Uses : NothingDrawn[u] = 0
    BY DEF NothingDrawn, Drawings
  <1>2. \A R \in SUBSET Uses : SumFunctionOnSet(NothingDrawn, R) = 0
    <2> SUFFICES ASSUME NEW R \in SUBSET Uses PROVE SumFunctionOnSet(NothingDrawn, R) = 0
      OBVIOUS
    <2>1. IsFiniteSet(R) /\ \A u \in R : NothingDrawn[u] = 0
      BY <1>1, UsesFacts, FS_Subset
    <2> QED BY <2>1, SumZero
  <1> QED
    BY <1>1, <1>2 DEF DrawnBy, DrawnFrom

\* What a backflush draws: for the order's materials only, no more than they require, and,
\* when all of the order is reported, all that is not issued yet.
LEMMA BackflushedFacts ==
  ASSUME IInv, NEW o \in Orders, NEW total \in Nat, NEW draw \in Backflushed(o, total)
  PROVE  /\ draw \in Drawings
         /\ \A m \in Materials, i \in Items : DrawnFrom(draw, m, i) <= reserved[m][i]
         /\ \A m \in Materials : OrderOf[m] # o => DrawnBy(draw, m) = 0
         /\ \A m \in Materials : issued[m] + DrawnBy(draw, m) <= Required[m]
         /\ total >= Quantity[o] =>
              \A m \in MaterialsOf(o) : issued[m] + DrawnBy(draw, m) = Required[m]
  <1>1. draw \in Drawings /\ \A m \in Materials, i \in Items : DrawnFrom(draw, m, i) <= reserved[m][i]
    BY DrawsAreDrawings DEF Backflushed, Drawable
  <1>2. \A m \in Materials : OrderOf[m] # o => DrawnBy(draw, m) = 0
    BY DEF Backflushed, MaterialsOf
  <1>3. ASSUME NEW m \in Materials
        PROVE  /\ issued[m] + DrawnBy(draw, m) <= Required[m]
               /\ OrderOf[m] = o /\ total >= Quantity[o] => issued[m] + DrawnBy(draw, m) = Required[m]
    <2> DEFINE t == DrawnBy(draw, m)
               q == Quantity[o]
               a == issued[m]
               n == Required[m]
    <2>1. t \in Nat /\ a \in Nat /\ n \in Nat /\ a <= n /\ q \in Nat \ {0}
      BY <1>1, DrawSums, QuantitiesArePositive DEF IInv, TypeOK, MaterialsInv, WithinRequired
    <2>2. CASE OrderOf[m] # o
      <3>1. t = 0
        BY <1>2, <2>2
      <3> HIDE DEF t, q, a, n
      <3>2. a + t <= n
        BY <2>1, <3>1
      <3> QED BY <2>2, <3>2 DEF a, t, n
    <2>3. CASE OrderOf[m] = o
      <3>1. ToIssue(m, total) = n * (IF total < q THEN total ELSE q) - a * q
        BY <2>3 DEF ToIssue
      <3>2. IF ToIssue(m, total) > 0 THEN total >= q /\ t * q = ToIssue(m, total) ELSE t = 0
        BY <2>3 DEF Backflushed, MaterialsOf
      <3> HIDE DEF t, q, a, n
      <3>3. PICK b \in Nat : n = a + b
        <4>1. n - a \in Nat /\ n = a + (n - a)
          BY <2>1
        <4> QED BY <4>1
      <3>4. total >= q => ToIssue(m, total) = b * q
        <4>1. (a + b) * q = a * q + b * q
          BY <2>1, <3>3
        <4>2. a * q \in Int /\ b * q \in Int
          BY <2>1, <3>3
        <4>3. total >= q => ToIssue(m, total) = (a + b) * q - a * q
          BY <2>1, <3>1, <3>3
        <4> QED BY <4>1, <4>2, <4>3
      <3>5. CASE t = 0
        <4>1. total >= q => b = 0
          <5>1. b # 0 => b * q > 0
            BY <2>1, <3>3
          <5>2. b * q > 0 /\ total >= q => t * q > 0
            BY <3>2, <3>4
          <5>3. t * q = 0
            BY <2>1, <3>5
          <5> QED BY <5>1, <5>2, <5>3
        <4>2. a + t <= n /\ (total >= q => a + t = n)
          BY <2>1, <3>3, <3>5, <4>1
        <4> QED BY <4>2 DEF a, t, n, q
      <3>6. CASE t # 0
        <4>1. total >= q /\ t * q = b * q
          BY <3>2, <3>4, <3>6
        <4>2. t = b
          BY <2>1, <3>3, <4>1
        <4>3. a + t <= n /\ a + t = n
          BY <2>1, <3>3, <4>2
        <4> QED BY <4>3 DEF a, t, n, q
      <3> QED BY <3>5, <3>6
    <2> QED BY <2>2, <2>3
  <1> QED
    BY <1>1, <1>2, <1>3 DEF MaterialsOf

\* What a completion draws, with a backflush or without.
CompletionDraws(c, total) ==
  IF c.backflush THEN Backflushed(c.order, total) ELSE {NothingDrawn}

LEMMA CompletionDrawsFacts ==
  ASSUME IInv, NEW c \in Calls, NEW total \in Nat, NEW draw \in CompletionDraws(c, total)
  PROVE  /\ draw \in Drawings
         /\ \A m \in Materials, i \in Items : DrawnFrom(draw, m, i) <= reserved[m][i]
         /\ \A m \in Materials : OrderOf[m] # c.order => DrawnBy(draw, m) = 0
         /\ \A m \in Materials : issued[m] + DrawnBy(draw, m) <= Required[m]
         /\ c.backflush /\ total >= Quantity[c.order] =>
              \A m \in MaterialsOf(c.order) : issued[m] + DrawnBy(draw, m) = Required[m]
  <1>1. c.order \in Orders
    BY CallFields
  <1>2. CASE c.backflush
    <2>1. draw \in Backflushed(c.order, total)
      BY <1>2 DEF CompletionDraws
    <2> QED BY <1>1, <2>1, BackflushedFacts
  <1>3. CASE ~c.backflush
    <2>1. draw = NothingDrawn
      BY <1>3 DEF CompletionDraws
    <2>2. \A m \in Materials, i \in Items : reserved[m][i] \in Nat
      BY DEF IInv, TypeOK
    <2>3. \A m \in Materials : issued[m] \in Nat /\ Required[m] \in Nat /\ issued[m] <= Required[m]
      BY QuantitiesArePositive DEF IInv, TypeOK, MaterialsInv, WithinRequired
    <2> QED BY <1>3, <2>1, <2>2, <2>3, NothingFacts
  <1> QED
    BY <1>2, <1>3

\* The completion of a call, when its order has made that many.
CompletionRow(c, made) ==
  [key |-> c.key, order |-> c.order, good |-> c.good, scrap |-> c.scrap,
   backflush |-> c.backflush, closed |-> made >= Quantity[c.order]]

\* A completion that is accepted.
Completes(s, c, draw, made) ==
  /\ Postable(draw, c.key)
  /\ Consume(draw, c.key)
  /\ completed' = [completed EXCEPT ![c.order] = made]
  /\ status' = [status EXCEPT ![c.order] = IF made >= Quantity[c.order] THEN "CLOSED" ELSE "IN_PROGRESS"]
  /\ completions' = completions \union {CompletionRow(c, made)}
  /\ Done(s, "done")
  /\ UNCHANGED opStatus

\* The two ends of a completion.
LEMMA CompletionEnds ==
  ASSUME IInv, NEW s \in Sessions, CommitCompletion(s)
  PROVE  \E c \in Calls, total \in Nat, made \in Nat :
           /\ c = call[s] /\ c.kind = "complete" /\ Committing(s, "complete")
           /\ status[c.order] \in {"RELEASED", "IN_PROGRESS"} /\ c.good > 0
           /\ total = Reported(c.order) + c.good + c.scrap
           /\ made = completed[c.order] + c.good /\ made <= Quantity[c.order] /\ made <= total
           /\ \/ Finish(s, "refused")
                 /\ \/ CompletionDraws(c, total) = {} \/ KeyCompleted(c.key)
                    \/ \E draw \in CompletionDraws(c, total) : ~Postable(draw, c.key)
              \/ ~KeyCompleted(c.key) /\ \E draw \in CompletionDraws(c, total) : Completes(s, c, draw, made)
  <1>1. Committing(s, "complete")
    BY DEF CommitCompletion
  <1>2. PICK c \in Calls : c = call[s]
    BY <1>1, Committer
  <1>3. /\ c.kind = "complete" /\ row[s].status = status[c.order]
        /\ row[s].completed = completed[c.order] /\ Acceptable(c, row[s])
    BY <1>1, <1>2, Committer
  <1>4. c.order \in Orders /\ c.good \in Nat /\ c.scrap \in Nat
    BY CallFields
  <1>5. /\ status[c.order] \in {"RELEASED", "IN_PROGRESS"} /\ c.good > 0
        /\ completed[c.order] + c.good <= Quantity[c.order]
    BY <1>3 DEF Acceptable
  <1>6. Reported(c.order) \in Nat /\ completed[c.order] <= Reported(c.order) /\ completed[c.order] \in Nat
    BY <1>4, ReportedFacts DEF IInv, TypeOK
  <1>7. PICK total \in Nat : total = Reported(c.order) + c.good + c.scrap
    BY <1>4, <1>6
  <1>8. PICK made \in Nat : made = completed[c.order] + c.good
    BY <1>4, <1>6
  <1>9. made <= Quantity[c.order] /\ made <= total
    BY <1>4, <1>5, <1>6, <1>7, <1>8
  <1>10. IF CompletionDraws(c, total) = {} \/ KeyCompleted(c.key) THEN Finish(s, "refused")
         ELSE \E draw \in CompletionDraws(c, total) :
                IF ~Postable(draw, c.key) THEN Finish(s, "refused")
                ELSE /\ Consume(draw, c.key)
                     /\ completed' = [completed EXCEPT ![c.order] = made]
                     /\ status' = [status EXCEPT ![c.order] = IF made >= Quantity[c.order] THEN "CLOSED" ELSE "IN_PROGRESS"]
                     /\ completions' = completions \union {CompletionRow(c, made)}
                     /\ Done(s, "done")
                     /\ UNCHANGED opStatus
    BY <1>2, <1>3, <1>7, <1>8 DEF CommitCompletion, CompletionDraws, CompletionRow
  <1> QED
    BY <1>1, <1>2, <1>3, <1>5, <1>7, <1>8, <1>9, <1>10 DEF Completes

LEMMA CompletionInv ==
  ASSUME IInv, NEW s \in Sessions, CommitCompletion(s)
  PROVE  IInv'
  <1>1. SessionTypes /\ BookTypes
    BY TypesSplit DEF IInv
  <1>2. PICK c \in Calls, total \in Nat, made \in Nat :
           /\ c = call[s] /\ c.kind = "complete" /\ Committing(s, "complete")
           /\ status[c.order] \in {"RELEASED", "IN_PROGRESS"} /\ c.good > 0
           /\ total = Reported(c.order) + c.good + c.scrap
           /\ made = completed[c.order] + c.good /\ made <= Quantity[c.order] /\ made <= total
           /\ \/ Finish(s, "refused")
              \/ ~KeyCompleted(c.key) /\ \E draw \in CompletionDraws(c, total) : Completes(s, c, draw, made)
    BY CompletionEnds
  <1>3. PICK o \in Orders : o = c.order
    BY CallFields
  <1>4. c.key \in Keys /\ c.good \in Nat /\ c.scrap \in Nat /\ c.backflush \in BOOLEAN
    BY CallFields
  <1>5. completed[o] \in Nat /\ Quantity[o] \in Nat \ {0}
    BY <1>1, QuantitiesArePositive DEF BookTypes
  <1>6. CASE Finish(s, "refused")
    BY <1>6, FinishInv
  <1>7. ASSUME NEW draw \in CompletionDraws(c, total), ~KeyCompleted(c.key), Completes(s, c, draw, made)
        PROVE  IInv'
    <2>1. /\ draw \in Drawings
          /\ \A m \in Materials, i \in Items : DrawnFrom(draw, m, i) <= reserved[m][i]
          /\ \A m \in Materials : OrderOf[m] # o => DrawnBy(draw, m) = 0
          /\ \A m \in Materials : issued[m] + DrawnBy(draw, m) <= Required[m]
          /\ c.backflush /\ total >= Quantity[o] =>
               \A m \in MaterialsOf(o) : issued[m] + DrawnBy(draw, m) = Required[m]
      BY <1>3, CompletionDrawsFacts
    <2> DEFINE key == c.key
               n == CompletionRow(c, made)
    <2>2. /\ Postable(draw, key) /\ Consume(draw, key) /\ key \in Keys
          /\ completed' = [completed EXCEPT ![o] = made]
          /\ status' = [status EXCEPT ![o] = IF made >= Quantity[o] THEN "CLOSED" ELSE "IN_PROGRESS"]
          /\ completions' = completions \union {n}
          /\ Done(s, "done") /\ UNCHANGED opStatus
      BY <1>3, <1>4, <1>7 DEF Completes
    <2>3. /\ n \in WorkOrderCompletion /\ n.order = o /\ ~KeyCompleted(n.key) /\ n.good = c.good
          /\ n.closed = (made >= Quantity[o]) /\ n.backflush = c.backflush
      BY <1>3, <1>4, <1>7 DEF WorkOrderCompletion, CompletionRow
    <2> HIDE DEF key, n
    <2>4. \A x \in Orders :
            /\ completed'[x] = IF x = o THEN made ELSE completed[x]
            /\ status'[x] = IF x = o THEN (IF made >= Quantity[o] THEN "CLOSED" ELSE "IN_PROGRESS")
                            ELSE status[x]
      BY <1>1, <2>2 DEF BookTypes
    <2>5. SessionTypes' /\ SessionsInv'
      <3>1. \A x \in Orders \ {call[s].order} : status'[x] = status[x] /\ completed'[x] = completed[x]
        BY <1>2, <1>3, <2>4
      <3> QED BY <1>2, <2>2, <3>1, CommitSessions
    <2>6. /\ issued' \in [Materials -> Nat] /\ MaterialsInv'
          /\ \A m \in Materials : issued'[m] = issued[m] + DrawnBy(draw, m)
      <3>1. status[o] # "PLANNED" /\ status'[o] # "PLANNED" /\ \A x \in Orders \ {o} : status'[x] = status[x]
        BY <1>2, <1>3, <2>4
      <3> QED BY <2>1, <2>2, <3>1, ConsumedMaterials
    <2>7. /\ onHand' \in [Items -> Nat] /\ allocated' \in [Items -> Nat] /\ reserved' \in Quantities
          /\ issues' \subseteq [key : Keys, reservation : Reservations, qty : Nat]
          /\ IsFiniteSet(issues')
      BY <2>1, <2>2, ConsumeFacts
    <2>8. PICK new \in WorkOrderCompletion : new = n
      BY <2>3
    <2>9. new.order = o /\ ~KeyCompleted(new.key) /\ completions' = completions \union {new} /\ new.good = c.good
      BY <2>2, <2>3, <2>8
    <2>10. /\ IsFiniteSet(completions')
           /\ \A x \in Orders : CompletionsOf(x)' = IF x = o THEN CompletionsOf(o) \union {new} ELSE CompletionsOf(x)
           /\ \A x \in Orders :
                SumFunctionOnSet([r \in completions |-> r.good], CompletionsOf(x))' =
                  SumFunctionOnSet([r \in completions |-> r.good], CompletionsOf(x)) +
                    IF x = o THEN new.good ELSE 0
           /\ \A r, x \in completions' : r.key = x.key => r = x
      BY <2>9, CompletionAdded
    <2>11. BookTypes'
      <3>1. status' \in [Orders -> OrderStatus]
        BY <1>1, <2>2 DEF BookTypes, OrderStatus
      <3>2. completed' \in [Orders -> Nat]
        BY <1>1, <2>2 DEF BookTypes
      <3>3. completions' \subseteq WorkOrderCompletion
        BY <1>1, <2>9 DEF BookTypes
      <3>4. opStatus' \in [Operations -> OperationStatus]
        BY <1>1, <2>2 DEF BookTypes
      <3> QED BY <2>6, <2>7, <3>1, <3>2, <3>3, <3>4 DEF BookTypes, Quantities
    <2>12. Rows'
      BY <2>7, <2>10 DEF Rows
    <2>13. ASSUME NEW x \in Orders
           PROVE  /\ (completed[x] = SumFunctionOnSet([r \in completions |-> r.good], CompletionsOf(x)))'
                  /\ (completed[x] <= Quantity[x])'
                  /\ (status[x] = "CLOSED" <=> completed[x] = Quantity[x])'
                  /\ (CompletionsOf(x) # {} => status[x] \in {"IN_PROGRESS", "CLOSED"})'
      <3> DEFINE a == SumFunctionOnSet([r \in completions |-> r.good], CompletionsOf(x))
                 b == SumFunctionOnSet([r \in completions |-> r.good], CompletionsOf(x))'
      <3>1. /\ completed[x] = a /\ completed[x] <= Quantity[x]
            /\ status[x] = "CLOSED" <=> completed[x] = Quantity[x]
            /\ CompletionsOf(x) # {} => status[x] \in {"IN_PROGRESS", "CLOSED"}
        BY DEF IInv, CompletionsAddUp
      <3>2. b = a + IF x = o THEN new.good ELSE 0
        BY <2>10
      <3>3. completed[x] \in Nat /\ made = completed[o] + c.good /\ made <= Quantity[o]
        BY <1>1, <1>2, <1>3 DEF BookTypes
      <3> HIDE DEF a, b
      <3>4. completed'[x] = b
        BY <1>4, <2>4, <2>9, <3>1, <3>2, <3>3
      <3>5. CASE x = o
        BY <1>4, <1>5, <2>4, <3>3, <3>4, <3>5 DEF b
      <3>6. CASE x # o
        BY <2>4, <2>10, <3>1, <3>4, <3>6 DEF b
      <3> QED BY <3>5, <3>6
    <2>14. CompletionsAddUp'
      BY <2>10, <2>13 DEF CompletionsAddUp
    <2>15. BackflushIssuesAll'
      <3>1. issued \in [Materials -> Nat] /\ \A m \in Materials : issued[m] <= issued'[m]
        BY <1>1, <2>1, <2>6, DrawSums DEF BookTypes
      <3>2. BackflushIssuesAll /\ WithinRequired'
        BY <2>6 DEF IInv, MaterialsInv
      <3>3. \A r \in completions : r.closed /\ r.backflush =>
              \A m \in MaterialsOf(r.order) : issued'[m] = Required[m]
        BY <2>6, <3>1, <3>2, ClosedStayIssued
      <3>4. new.closed /\ new.backflush => \A m \in MaterialsOf(new.order) : issued'[m] = Required[m]
        <4>1. made >= Quantity[o] => total >= Quantity[o]
          BY <1>2, <1>5
        <4>2. \A m \in MaterialsOf(o) : issued'[m] = issued[m] + DrawnBy(draw, m)
          BY <2>6 DEF MaterialsOf
        <4> QED BY <2>1, <2>3, <2>8, <2>9, <4>1, <4>2
      <3> QED BY <2>9, <3>3, <3>4 DEF BackflushIssuesAll
    <2>16. TypeOK'
      BY <2>5, <2>11 DEF TypeOK, SessionTypes, BookTypes
    <2> QED
      BY <2>5, <2>6, <2>12, <2>14, <2>15, <2>16 DEF IInv
  <1> QED
    BY <1>2, <1>6, <1>7

-----------------------------------------------------------------------------
(* The invariant holds.                                                    *)

LEMMA InitInv == Init => IInv
  <1> SUFFICES ASSUME Init PROVE IInv
    OBVIOUS
  <1>1. \E c \in Calls : TRUE
    BY CallsOfClients
  <1>2. SessionTypes
    BY <1>1, MaxCallsOfClients DEF Init, SessionTypes, NoRow, OrderStatus
  <1>3. BookTypes
    BY StockOfItems DEF Init, BookTypes, OrderStatus, OperationStatus
  <1>4. Rows
    BY FS_EmptySet DEF Init, Rows
  <1>5. SessionsInv
    BY DEF Init, SessionsInv, InCall, Locked
  <1>6. CompletionsAddUp
    <2>1. \A o \in Orders : CompletionsOf(o) = {}
      BY DEF Init, CompletionsOf
    <2>2. \A o \in Orders : SumFunctionOnSet([r \in completions |-> r.good], CompletionsOf(o)) = 0
      BY <2>1, SumEmpty
    <2> QED
      BY <2>1, <2>2, QuantitiesArePositive DEF Init, CompletionsAddUp
  <1>7. \A m \in Materials : SumOf(reserved[m]) = 0
    <2> SUFFICES ASSUME NEW m \in Materials PROVE SumOf(reserved[m]) = 0
      OBVIOUS
    <2> DEFINE f == reserved[m]
    <2>1. DOMAIN f = Items /\ \A i \in Items : f[i] = 0
      BY DEF Init
    <2> HIDE DEF f
    <2>2. SumFunctionOnSet(f, Items) = 0
      BY <2>1, TablesAreFinite, SumZero
    <2> QED BY <2>1, <2>2 DEF SumOf, f
  <1>8. Unreleased
    BY <1>7 DEF Init, Unreleased
  <1>9. \A i \in Items : OfItem(reserved, i) = 0
    <2> SUFFICES ASSUME NEW i \in Items PROVE OfItem(reserved, i) = 0
      OBVIOUS
    <2> DEFINE f == [m \in Materials |-> reserved[m][i]]
    <2>1. \A m \in Materials : f[m] = 0
      BY DEF Init
    <2> HIDE DEF f
    <2>2. SumFunctionOnSet(f, Materials) = 0
      BY <2>1, TablesAreFinite, SumZero
    <2> QED BY <2>2 DEF OfItem, f
  <1>10. MaterialsInv
    <2>1. \A i \in Items : allocated[i] = 0 /\ onHand[i] \in Nat
      BY StockOfItems DEF Init
    <2>2. \A m \in Materials : status[OrderOf[m]] = "PLANNED"
      BY OrderOfRows DEF Init
    <2>3. MaterialSecured
      BY <1>9, <2>1, <2>2 DEF MaterialSecured
    <2>4. WithinRequired
      BY QuantitiesArePositive DEF Init, WithinRequired
    <2>5. FromSources
      BY DEF Init, FromSources
    <2> QED
      BY <1>8, <2>3, <2>4, <2>5 DEF MaterialsInv
  <1>11. BackflushIssuesAll
    BY DEF Init, BackflushIssuesAll
  <1> QED
    BY <1>2, <1>3, <1>4, <1>5, <1>6, <1>10, <1>11, TypesSplit DEF IInv

LEMMA NextInv == IInv /\ [Next]_vars => IInv'
  <1> SUFFICES ASSUME IInv, [Next]_vars PROVE IInv'
    OBVIOUS
  <1>1. CASE UNCHANGED vars
    <2>1. UNCHANGED books /\ UNCHANGED <<pc, call, reply, row, locks, started>>
      BY <1>1 DEF vars, books, stock, locks
    <2>2. BookTypes' /\ Rows' /\ CompletionsAddUp' /\ MaterialsInv' /\ BackflushIssuesAll'
      BY <2>1, BooksKept
    <2>3. SessionTypes'
      BY <2>1, TypesSplit DEF IInv, SessionTypes, locks
    <2>4. SessionsInv'
      BY <2>1 DEF IInv, SessionsInv, InCall, Locked, Current, books, locks
    <2>5. TypeOK'
      BY <2>2, <2>3 DEF TypeOK, SessionTypes, BookTypes
    <2> QED BY <2>2, <2>4, <2>5 DEF IInv
  <1>2. ASSUME NEW s \in Sessions, NEW c \in Calls, Begin(s, c) PROVE IInv'
    BY <1>2, BeginInv
  <1>3. ASSUME NEW s \in Sessions, Run(s) PROVE IInv'
    BY <1>3, CheckKeyInv, LockRowInv, LockOrderInv, LockRowsInv, ReleaseInv, CompletionInv,
       IssueInv, OperationInv DEF Run
  <1>4. ASSUME NEW s \in Sessions, DeadlockAbort(s) \/ Crash(s) PROVE IInv'
    BY <1>4, FinishInv DEF DeadlockAbort, Crash
  <1> QED
    BY <1>1, <1>2, <1>3, <1>4 DEF Next

\* The invariant is one of every behaviour.
LEMMA Invariance == Spec => []IInv
  BY InitInv, NextInv, PTL DEF Spec

\* The tables and the sessions keep their types; the balances of the stock do not go
\* below zero.
THEOREM ProductionTypeCorrect == Spec => []TypeOK
  <1>1. IInv => TypeOK
    BY DEF IInv
  <1> QED
    BY Invariance, <1>1, PTL

\* complete_work_order: completions of concurrent workers lose no quantity, do not exceed
\* the order, and close it when they reach its quantity.
THEOREM CompletionsStayAddedUp == Spec => []CompletionsAddUp
  <1>1. IInv => CompletionsAddUp
    BY DEF IInv
  <1> QED
    BY Invariance, <1>1, PTL

\* release_work_order and _consume_reservation: what a released order requires of a component
\* is issued or reserved, and the stock covers the reservations.
THEOREM MaterialStaysSecured == Spec => []MaterialSecured
  <1>1. IInv => MaterialSecured
    BY DEF IInv, MaterialsInv
  <1> QED
    BY Invariance, <1>1, PTL

\* complete_work_order: the backflush of the completion that closes an order issues all that
\* is left, whatever was issued by hand or completed without a backflush before it.
THEOREM ClosedOrdersAreIssued == Spec => []BackflushIssuesAll
  <1>1. IInv => BackflushIssuesAll
    BY DEF IInv
  <1> QED
    BY Invariance, <1>1, PTL

-----------------------------------------------------------------------------
(* The rows of an issue.                                                   *)

\* Every row has the key of a completion that is there or of a call to issue.
KeyOwners ==
  \A r \in issues : KeyCompleted(r.key) \/ \E c \in Calls : c.kind = "issue" /\ c.key = r.key

\* No two running issues have one key, and past its look at the key an issue has no row.
OneIssue == \A s, t \in Sessions : s # t /\ pc[s] # "idle" => ~SameIssue(t, call[s])
Fresh(s) == pc[s] \notin {"idle", "check"} /\ call[s].kind = "issue" => ~KeyIssued(call[s].key)
FreshIssue == \A s \in Sessions : Fresh(s)

RowsInv == KeyOwners /\ (WaitToRetry => OneIssue /\ FreshIssue /\ (ComponentsApart => IssuedLeftStock))

\* A sum over one element.
LEMMA SumSingle ==
  ASSUME NEW f, NEW a, f[a] \in Int
  PROVE  SumFunctionOnSet(f, {a}) = f[a]
  <1> DEFINE S == {a}
  <1>1. IsFiniteSet(S) /\ a \in S /\ \A x \in S \ {a} : f[x] = 0
    BY FS_Singleton
  <1> HIDE DEF S
  <1>2. SumFunctionOnSet(f, S) = f[a]
    BY <1>1, SumOne
  <1> QED
    BY <1>2 DEF S

\* Where no order lists a component twice a material has its own reservations, and the
\* rows of a posting are as many as the draws.
LEMMA ApartFacts ==
  ASSUME ComponentsApart
  PROVE  /\ \A m \in Materials : Alike(m) = {m}
         /\ \A u \in Uses : u[2][1] = u[1]
         /\ \A u, v \in Uses : u[2] = v[2] => u = v
  <1>1. \A m \in Materials : Alike(m) = {m}
    BY DEF ComponentsApart
  <1>2. ASSUME NEW u \in Uses PROVE u[2][1] = u[1]
    <2>1. u[1] \in Materials /\ u[2][1] \in Alike(u[1])
      BY UsesFacts
    <2> QED BY <1>1, <2>1
  <1>3. ASSUME NEW u \in Uses, NEW v \in Uses, u[2] = v[2] PROVE u = v
    <2>1. u = <<u[1], u[2]>> /\ v = <<v[1], v[2]>>
      BY UsesFacts
    <2>2. u[1] = v[1]
      BY <1>2, <1>3
    <2> QED BY <1>3, <2>1, <2>2
  <1> QED
    BY <1>1, <1>2, <1>3

\* The rows of a posting for a material add up to what is drawn for it.
LEMMA PostingSum ==
  ASSUME ComponentsApart, NEW draw \in Drawings, NEW key \in Keys, NEW m \in Materials, NEW g,
         \A r \in Posting(draw, key) : g[r] = r.qty
  PROVE  SumFunctionOnSet(g, {r \in Posting(draw, key) : r.reservation[1] \in Alike(m)}) = DrawnBy(draw, m)
  <1> DEFINE P == Posting(draw, key)
             T == {r \in P : r.reservation[1] \in Alike(m)}
             A == {u \in Uses : u[1] = m}
             S == {u \in Uses : u[1] = m /\ draw[u] > 0}
             p == [u \in S |-> Row(draw, key, u)]
             h == SumsByPart(draw, S, p, T)
  <1>1. IsFiniteSet(T)
    BY PostingFacts, FS_Subset
  <1>2. IsFiniteSet(A) /\ IsFiniteSet(S) /\ S \in SUBSET A /\ \A u \in A : draw[u] \in Nat
    BY UsesFacts, FS_Subset DEF Drawings
  <1>3. \A u \in A \ S : draw[u] = 0
    BY <1>2
  <1>4. ASSUME NEW u \in S PROVE p[u] \in T
    <2>1. u \in Uses /\ draw[u] > 0 /\ u[1] = m /\ p[u] = Row(draw, key, u)
      OBVIOUS
    <2>2. Row(draw, key, u) \in P
      BY <2>1 DEF Posting
    <2>3. Row(draw, key, u).reservation = u[2]
      BY DEF Row
    <2>4. u[2][1] = m /\ Alike(m) = {m}
      BY <2>1, ApartFacts
    <2> HIDE DEF P, S, p
    <2> QED BY <2>1, <2>2, <2>3, <2>4
  <1>5. ASSUME NEW t \in T PROVE g[t] = h[t]
    <2>1. PICK u \in Uses : draw[u] > 0 /\ t = Row(draw, key, u)
      BY PostingFacts
    <2> DEFINE U == {v \in S : p[v] = t}
    <2>2. t.reservation = u[2] /\ t.qty = draw[u]
      BY <2>1 DEF Row
    <2>3. u[1] = m
      <3>1. u[2][1] \in Alike(m)
        BY <2>2
      <3> QED BY <3>1, ApartFacts
    <2>4. U = {u}
      <3>1. ASSUME NEW v \in S, p[v] = t PROVE v = u
        <4>1. Row(draw, key, v).reservation = v[2]
          BY DEF Row
        <4>2. v[2] = u[2] /\ v \in Uses
          BY <2>2, <3>1, <4>1
        <4> QED BY <4>2, ApartFacts
      <3>2. u \in S /\ p[u] = t
        BY <2>1, <2>3
      <3> HIDE DEF S, p
      <3> QED BY <3>1, <3>2
    <2>5. h[t] = SumFunctionOnSet(draw, U)
      BY DEF SumsByPart
    <2>6. draw[u] \in Int
      BY DEF Drawings
    <2>7. g[t] = draw[u]
      BY <2>2
    <2> HIDE DEF U, h
    <2> QED BY <2>4, <2>5, <2>6, <2>7, SumSingle
  <1>6. \A u \in S : draw[u] \in Int
    BY <1>2
  <1> HIDE DEF P, T, A, S, p
  <1>7. SumFunctionOnSet(draw, S) = SumFunctionOnSet(SumsByPart(draw, S, p, T), T)
    BY <1>1, <1>2, <1>4, <1>6, SumFibres
  <1>8. SumFunctionOnSet(g, T) = SumFunctionOnSet(h, T)
    <2> HIDE DEF h
    <2> QED BY <1>1, <1>5, SumAgree
  <1>9. SumFunctionOnSet(draw, A) = SumFunctionOnSet(draw, S)
    BY <1>2, <1>3, SumLeaveOut
  <1> QED
    BY <1>7, <1>8, <1>9 DEF T, A, P, DrawnBy

\* What the rows say was issued to the materials alike.
Posted(m) == SumFunctionOnSet([r \in issues |-> r.qty], {r \in issues : r.reservation[1] \in Alike(m)})

\* Rows under a new key add what is drawn to the rows of each material.
LEMMA RowsAdded ==
  ASSUME IInv, ComponentsApart, NEW draw \in Drawings, NEW key \in Keys, ~KeyIssued(key),
         issues' = issues \union Posting(draw, key), NEW m \in Materials
  PROVE  Posted(m)' = Posted(m) + DrawnBy(draw, m)
  <1> DEFINE P == Posting(draw, key)
             f == [r \in issues |-> r.qty]
             g == [r \in issues \union P |-> r.qty]
             A == {r \in issues : r.reservation[1] \in Alike(m)}
             B == {r \in P : r.reservation[1] \in Alike(m)}
  <1>1. IsFiniteSet(issues) /\ IsFiniteSet(P) /\ issues \intersect P = {}
    <2>1. IsFiniteSet(P) /\ \A r \in P : r.key = key
      BY PostingFacts
    <2> QED BY <2>1 DEF IInv, Rows, KeyIssued
  <1>2. IsFiniteSet(A) /\ IsFiniteSet(B) /\ A \intersect B = {}
    BY <1>1, FS_Subset
  <1>3. {r \in issues \union P : r.reservation[1] \in Alike(m)} = A \union B
    OBVIOUS
  <1>4. /\ \A r \in A : f[r] = g[r] /\ f[r] \in Int
        /\ \A r \in A \union B : g[r] \in Int
        /\ \A r \in P : g[r] = r.qty
    <2>1. \A r \in issues \union P : r.qty \in Nat
      BY PostingFacts DEF IInv, TypeOK
    <2> QED BY <2>1
  <1>5. Posted(m)' = SumFunctionOnSet(g, A \union B)
    BY <1>3 DEF Posted
  <1>6. SumFunctionOnSet(g, B) = DrawnBy(draw, m)
    <2> HIDE DEF g
    <2> QED BY <1>4, PostingSum
  <1>9. Posted(m) = SumFunctionOnSet(f, A)
    BY DEF Posted
  <1> HIDE DEF A, B, f, g
  <1>7. SumFunctionOnSet(g, A \union B) = SumFunctionOnSet(g, A) + SumFunctionOnSet(g, B)
    BY <1>2, <1>4, SumSplit
  <1>8. SumFunctionOnSet(g, A) = SumFunctionOnSet(f, A)
    BY <1>2, <1>4, SumAgree
  <1> QED
    BY <1>5, <1>6, <1>7, <1>8, <1>9

\* A step that posts no row and completes nothing.
LEMMA RowsKept ==
  ASSUME RowsInv, NEW s \in Sessions, UNCHANGED <<issues, completions, issued>>,
         \A t \in Sessions \ {s} : pc'[t] = pc[t] /\ call'[t] = call[t],
         WaitToRetry /\ OneIssue /\ FreshIssue =>
           /\ pc'[s] # "idle" => \A t \in Sessions \ {s} : ~SameIssue(t, call'[s])
           /\ Fresh(s)'
  PROVE  RowsInv'
  <1>1. KeyOwners'
    BY DEF RowsInv, KeyOwners, KeyCompleted
  <1>2. ASSUME WaitToRetry PROVE OneIssue' /\ FreshIssue' /\ (ComponentsApart => IssuedLeftStock')
    <2>1. OneIssue /\ FreshIssue /\ (ComponentsApart => IssuedLeftStock)
      BY <1>2 DEF RowsInv
    <2>2. ComponentsApart => IssuedLeftStock'
      BY <2>1 DEF IssuedLeftStock
    <2>3. ASSUME NEW t \in Sessions PROVE Fresh(t)'
      <3>1. CASE t = s
        BY <1>2, <2>1, <3>1
      <3>2. CASE t # s
        BY <2>1, <3>2 DEF FreshIssue, Fresh, KeyIssued
      <3> QED BY <3>1, <3>2
    <2>4. ASSUME NEW u \in Sessions, NEW t \in Sessions, u # t, pc'[u] # "idle", SameIssue(t, call[u])'
          PROVE  FALSE
      <3>1. /\ pc'[t] # "idle" /\ call'[t].kind = "issue" /\ call'[u].kind = "issue"
            /\ call'[t].key = call'[u].key
        BY <2>4 DEF SameIssue
      <3>2. CASE u = s
        <4>1. ~SameIssue(t, call'[s]) /\ pc'[t] = pc[t] /\ call'[t] = call[t]
          BY <1>2, <2>1, <2>4, <3>2
        <4> QED BY <3>1, <3>2, <4>1 DEF SameIssue
      <3>3. CASE t = s
        <4>1. ~SameIssue(u, call'[s]) /\ pc'[u] = pc[u] /\ call'[u] = call[u]
          BY <1>2, <2>1, <2>4, <3>1, <3>3
        <4> QED BY <2>4, <3>1, <3>3, <4>1 DEF SameIssue
      <3>4. CASE u # s /\ t # s
        <4>1. pc'[t] = pc[t] /\ call'[t] = call[t] /\ pc'[u] = pc[u] /\ call'[u] = call[u]
          BY <3>4
        <4> QED BY <2>1, <2>4, <3>1, <4>1 DEF OneIssue, SameIssue
      <3> QED BY <3>2, <3>3, <3>4
    <2>5. OneIssue'
      BY <2>4 DEF OneIssue
    <2> QED BY <2>2, <2>3, <2>5 DEF FreshIssue
  <1> QED
    BY <1>1, <1>2 DEF RowsInv, ComponentsApart

\* A commit that posts rows under the key of its call, which has none.
LEMMA RowsCommitted ==
  ASSUME IInv, RowsInv, KeysApart, NEW s \in Sessions, NEW c \in Calls, c = call[s], pc[s] = "commit",
         NEW draw \in Drawings, Consume(draw, c.key), Done(s, "done"),
         \/ c.kind = "issue" /\ completions' = completions
         \/ c.kind = "complete" /\ ~KeyCompleted(c.key) /\ KeyCompleted(c.key)' /\ completions \subseteq completions'
  PROVE  RowsInv'
  <1>1. SessionTypes
    BY TypesSplit DEF IInv
  <1>2. \A t \in Sessions \ {s} : pc'[t] = pc[t] /\ call'[t] = call[t]
    BY <1>1, DoneFacts
  <1>3. pc'[s] = "idle"
    BY <1>1 DEF Done, SessionTypes
  <1>4. c.key \in Keys /\ issues' = issues \union Posting(draw, c.key)
    BY CallFields DEF Consume
  <1>5. \A r \in Posting(draw, c.key) : r.key = c.key
    BY <1>4, PostingFacts
  <1>6. KeyOwners'
    <2> SUFFICES ASSUME NEW r \in issues'
                 PROVE  KeyCompleted(r.key)' \/ \E d \in Calls : d.kind = "issue" /\ d.key = r.key
      BY DEF KeyOwners
    <2>1. CASE r \in issues
      <3>1. KeyCompleted(r.key) \/ \E d \in Calls : d.kind = "issue" /\ d.key = r.key
        BY <2>1 DEF RowsInv, KeyOwners
      <3>2. completions \subseteq completions'
        OBVIOUS
      <3> QED BY <3>1, <3>2 DEF KeyCompleted
    <2>2. CASE r \in Posting(draw, c.key)
      <3>1. r.key = c.key
        BY <1>5, <2>2
      <3>2. CASE c.kind = "issue"
        BY <3>1, <3>2
      <3>3. CASE c.kind = "complete"
        BY <3>1, <3>3
      <3> QED BY <3>2, <3>3
    <2> QED BY <1>4, <2>1, <2>2
  <1>7. ASSUME WaitToRetry PROVE OneIssue' /\ FreshIssue' /\ (ComponentsApart => IssuedLeftStock')
    <2>1. OneIssue /\ FreshIssue /\ (ComponentsApart => IssuedLeftStock)
      BY <1>7 DEF RowsInv
    <2>2. ~KeyIssued(c.key)
      <3>1. CASE c.kind = "issue"
        BY <2>1, <3>1 DEF FreshIssue, Fresh
      <3>2. CASE c.kind = "complete"
        BY <3>2 DEF RowsInv, KeyOwners, KeyIssued, KeysApart
      <3> QED BY <3>1, <3>2
    <2>3. ASSUME NEW t \in Sessions PROVE Fresh(t)'
      <3>1. CASE t = s
        BY <1>3, <3>1 DEF Fresh
      <3>2. ASSUME t # s, pc'[t] \notin {"idle", "check"}, call'[t].kind = "issue", KeyIssued(call[t].key)'
            PROVE  FALSE
        <4>1. pc'[t] = pc[t] /\ call'[t] = call[t] /\ call[t] \in Calls
          BY <1>1, <1>2, <3>2 DEF SessionTypes
        <4>2. ~KeyIssued(call[t].key)
          BY <2>1, <3>2, <4>1 DEF FreshIssue, Fresh
        <4>3. call[t].key = c.key
          BY <1>4, <1>5, <3>2, <4>1, <4>2 DEF KeyIssued
        <4>4. CASE c.kind = "issue"
          BY <2>1, <3>2, <4>1, <4>3, <4>4 DEF OneIssue, SameIssue
        <4>5. CASE c.kind = "complete"
          BY <3>2, <4>1, <4>3, <4>5 DEF KeysApart
        <4> QED BY <4>4, <4>5
      <3> QED BY <3>1, <3>2 DEF Fresh
    <2>4. OneIssue'
      BY <1>2, <1>3, <2>1 DEF OneIssue, SameIssue
    <2>5. ASSUME ComponentsApart, NEW m \in Materials
          PROVE  SumFunctionOnSet(issued', Alike(m)) = Posted(m)'
      <3>1. Posted(m)' = Posted(m) + DrawnBy(draw, m)
        <4> DEFINE key == c.key
        <4>1. key \in Keys /\ ~KeyIssued(key) /\ issues' = issues \union Posting(draw, key)
          BY <1>4, <2>2
        <4> HIDE DEF key
        <4> QED BY <2>5, <4>1, RowsAdded
      <3>2. Alike(m) = {m}
        BY <2>5, ApartFacts
      <3>3. issued[m] \in Nat /\ DrawnBy(draw, m) \in Nat /\ issued'[m] = issued[m] + DrawnBy(draw, m)
        BY DrawSums DEF IInv, TypeOK, Consume
      <3>4. SumFunctionOnSet(issued, {m}) = issued[m] /\ SumFunctionOnSet(issued', {m}) = issued'[m]
        <4> DEFINE new == issued'
        <4>1. new[m] \in Int /\ issued[m] \in Int
          BY <3>3
        <4> HIDE DEF new
        <4>2. SumFunctionOnSet(issued, {m}) = issued[m] /\ SumFunctionOnSet(new, {m}) = new[m]
          BY <4>1, SumSingle
        <4> QED BY <4>2 DEF new
      <3>5. SumFunctionOnSet(issued, Alike(m)) = Posted(m)
        BY <2>1, <2>5 DEF IssuedLeftStock, Posted
      <3> QED BY <3>1, <3>2, <3>3, <3>4, <3>5
    <2>6. ComponentsApart => IssuedLeftStock'
      BY <2>5 DEF IssuedLeftStock, Posted
    <2> QED BY <2>3, <2>4, <2>6 DEF FreshIssue
  <1> QED
    BY <1>6, <1>7 DEF RowsInv, ComponentsApart

LEMMA RowsDone ==
  ASSUME IInv, RowsInv, NEW s \in Sessions, NEW r, Done(s, r), UNCHANGED <<issues, completions, issued>>
  PROVE  RowsInv'
  <1>1. pc \in [Sessions -> {"idle", "check", "material", "operation", "order", "materials",
                             "next", "commit"}]
    BY DEF IInv, TypeOK
  <1>2. pc'[s] = "idle" /\ \A t \in Sessions \ {s} : pc'[t] = pc[t] /\ call'[t] = call[t]
    BY <1>1 DEF Done
  <1>3. Fresh(s)'
    BY <1>2 DEF Fresh
  <1> QED
    BY <1>2, <1>3, RowsKept

\* A session that goes on with its call has no row, unless it has still to look.
LEMMA RowsOnward ==
  ASSUME IInv, RowsInv, NEW s \in Sessions,
         NEW step \in {"material", "operation", "order", "materials", "next", "commit"},
         Goto(s, step), pc[s] # "idle",
         pc[s] = "check" => (call[s].kind = "issue" => ~KeyIssued(call[s].key))
  PROVE  RowsInv'
  <1>1. pc \in [Sessions -> {"idle", "check", "material", "operation", "order", "materials",
                             "next", "commit"}]
    BY DEF IInv, TypeOK
  <1>2. pc'[s] = step /\ call' = call /\ \A t \in Sessions \ {s} : pc'[t] = pc[t]
    BY <1>1 DEF Goto
  <1>3. UNCHANGED <<issues, completions, issued>>
    BY DEF Goto, books, stock
  <1>4. ASSUME WaitToRetry /\ OneIssue /\ FreshIssue
        PROVE  (\A t \in Sessions \ {s} : ~SameIssue(t, call'[s])) /\ Fresh(s)'
    <2>1. \A t \in Sessions \ {s} : ~SameIssue(t, call[s])
      BY <1>4 DEF OneIssue
    <2>2. Fresh(s)'
      BY <1>2, <1>3, <1>4 DEF FreshIssue, Fresh, KeyIssued
    <2> QED BY <1>2, <2>1, <2>2
  <1> QED
    BY <1>2, <1>3, <1>4, RowsKept

LEMMA RowsBegin ==
  ASSUME IInv, RowsInv, NEW s \in Sessions, NEW c \in Calls, Begin(s, c)
  PROVE  RowsInv'
  <1>1. pc \in [Sessions -> {"idle", "check", "material", "operation", "order", "materials",
                             "next", "commit"}] /\ call \in [Sessions -> Calls]
    BY DEF IInv, TypeOK
  <1>2. /\ call'[s] = c /\ \A t \in Sessions \ {s} : pc'[t] = pc[t] /\ call'[t] = call[t]
        /\ c.kind = "issue" => pc'[s] = "check"
    BY <1>1 DEF Begin
  <1>3. UNCHANGED <<issues, completions, issued>>
    BY DEF Begin, books, stock
  <1>4. WaitToRetry => \A t \in Sessions : ~SameIssue(t, call'[s])
    BY <1>2 DEF Begin
  <1>5. Fresh(s)'
    BY <1>2 DEF Fresh
  <1> QED
    BY <1>2, <1>3, <1>4, <1>5, RowsKept

LEMMA RowsRun ==
  ASSUME IInv, RowsInv, KeysApart, NEW s \in Sessions, Run(s)
  PROVE  RowsInv'
  <1>1. \A r : Finish(s, r) => RowsInv'
    <2> SUFFICES ASSUME NEW r, Finish(s, r) PROVE RowsInv'
      OBVIOUS
    <2>1. Done(s, r) /\ UNCHANGED <<issues, completions, issued>>
      BY DEF Finish, books, stock
    <2> QED BY <2>1, RowsDone
  <1>2. CASE CheckKey(s)
    <2>1. call[s].kind \in {"complete", "issue"} /\ pc[s] = "check"
      BY <1>2 DEF IInv, SessionsInv, InCall, CheckKey
    <2>2. CASE call[s].kind = "complete"
      <3>1. (\E r \in {"replayed", "refused"} : Finish(s, r)) \/ Goto(s, "order")
        BY <1>2, <2>2 DEF CheckKey, ReplayCompletion
      <3> QED BY <1>1, <2>1, <2>2, <3>1, RowsOnward
    <2>3. CASE call[s].kind = "issue"
      <3>1. (\E r \in {"replayed", "refused"} : Finish(s, r)) \/ (Goto(s, "material") /\ ~KeyIssued(call[s].key))
        BY <1>2, <2>3 DEF CheckKey
      <3> QED BY <1>1, <2>1, <3>1, RowsOnward
    <2> QED BY <2>1, <2>2, <2>3
  <1>3. CASE LockMaterial(s) \/ LockOperation(s) \/ LockMaterials(s) \/ LockNext(s)
    <2>1. pc[s] \notin {"idle", "check"} /\ (Goto(s, "order") \/ Goto(s, "commit"))
      BY <1>3 DEF LockMaterial, LockOperation, LockMaterials, LockNext
    <2> QED BY <2>1, RowsOnward
  <1>4. CASE LockOrder(s)
    <2>1. pc[s] = "order"
      BY <1>4 DEF LockOrder
    <2> DEFINE step == NextLock(call[s])
    <2>2. step \in {"materials", "next", "commit"}
      BY DEF NextLock
    <2>3. (\E r \in {"replayed", "refused"} : Finish(s, r)) \/ Goto(s, step)
      BY <1>4 DEF LockOrder, ReplayCompletion
    <2> HIDE DEF step
    <2> QED BY <1>1, <2>1, <2>2, <2>3, RowsOnward
  <1>5. CASE CommitRelease(s) \/ CommitAdvance(s) \/ CommitReport(s)
    <2>1. \/ Finish(s, "refused")
          \/ Done(s, "done") /\ UNCHANGED <<issues, completions, issued>>
      BY <1>5 DEF CommitRelease, CommitAdvance, CommitReport, stock
    <2> QED BY <1>1, <2>1, RowsDone
  <1>6. CASE CommitIssue(s)
    <2>1. Committing(s, "issue") /\ pc[s] = "commit"
      BY <1>6 DEF CommitIssue, Committing
    <2>2. PICK c \in Calls : c = call[s] /\ c.kind = "issue"
      BY <2>1, Committer
    <2>3. \/ Finish(s, "refused")
          \/ \E draw \in Issuable(c) : Consume(draw, c.key) /\ Done(s, "done") /\ UNCHANGED completions
      BY <1>6, <2>2 DEF CommitIssue
    <2>4. ASSUME NEW draw \in Issuable(c), Consume(draw, c.key), Done(s, "done"), UNCHANGED completions
          PROVE  RowsInv'
      <3>1. draw \in Drawings
        BY IssuableFacts
      <3> QED BY <2>1, <2>2, <2>4, <3>1, RowsCommitted
    <2> QED BY <1>1, <2>3, <2>4
  <1>7. CASE CommitCompletion(s)
    <2>1. PICK c \in Calls, total \in Nat, made \in Nat :
             /\ c = call[s] /\ c.kind = "complete" /\ Committing(s, "complete")
             /\ \/ Finish(s, "refused")
                \/ ~KeyCompleted(c.key) /\ \E draw \in CompletionDraws(c, total) : Completes(s, c, draw, made)
      BY <1>7, CompletionEnds
    <2>2. ASSUME NEW draw \in CompletionDraws(c, total), ~KeyCompleted(c.key), Completes(s, c, draw, made)
          PROVE  RowsInv'
      <3>1. draw \in Drawings
        BY CompletionDrawsFacts
      <3>2. KeyCompleted(c.key)' /\ completions \subseteq completions'
        <4> DEFINE n == CompletionRow(c, made)
        <4>1. n \in completions' /\ completions \subseteq completions' /\ n.key = c.key
          BY <2>2 DEF Completes, CompletionRow
        <4> HIDE DEF n
        <4> QED BY <4>1 DEF KeyCompleted
      <3>3. Consume(draw, c.key) /\ Done(s, "done") /\ pc[s] = "commit"
        BY <2>1, <2>2 DEF Completes, Committing
      <3> QED BY <2>1, <2>2, <3>1, <3>2, <3>3, RowsCommitted
    <2> QED BY <1>1, <2>1, <2>2
  <1> QED
    BY <1>2, <1>3, <1>4, <1>5, <1>6, <1>7 DEF Run

LEMMA RowsInit == Init => RowsInv
  <1> SUFFICES ASSUME Init PROVE RowsInv
    OBVIOUS
  <1>1. KeyOwners /\ OneIssue /\ FreshIssue
    BY DEF Init, KeyOwners, OneIssue, FreshIssue, Fresh
  <1>2. ASSUME NEW m \in Materials
        PROVE  SumFunctionOnSet(issued, Alike(m)) =
                 SumFunctionOnSet([r \in issues |-> r.qty], {r \in issues : r.reservation[1] \in Alike(m)})
    <2>1. {r \in issues : r.reservation[1] \in Alike(m)} = {}
      BY DEF Init
    <2>2. IsFiniteSet(Alike(m)) /\ \A n \in Alike(m) : issued[n] = 0
      BY AlikeFacts DEF Init
    <2>3. SumFunctionOnSet(issued, Alike(m)) = 0
      BY <2>2, SumZero
    <2> QED BY <2>1, <2>3, SumEmpty
  <1>3. IssuedLeftStock
    BY <1>2 DEF IssuedLeftStock
  <1> QED
    BY <1>1, <1>3 DEF RowsInv

LEMMA RowsNext == KeysApart /\ IInv /\ RowsInv /\ [Next]_vars => RowsInv'
  <1> SUFFICES ASSUME KeysApart, IInv, RowsInv, [Next]_vars PROVE RowsInv'
    OBVIOUS
  <1>1. CASE UNCHANGED vars
    BY <1>1 DEF vars, RowsInv, KeyOwners, KeyCompleted, OneIssue, SameIssue, FreshIssue, Fresh,
                KeyIssued, IssuedLeftStock, ComponentsApart
  <1>2. ASSUME NEW s \in Sessions, NEW c \in Calls, Begin(s, c) PROVE RowsInv'
    BY <1>2, RowsBegin
  <1>3. ASSUME NEW s \in Sessions, Run(s) PROVE RowsInv'
    BY <1>3, RowsRun
  <1>4. ASSUME NEW s \in Sessions, DeadlockAbort(s) \/ Crash(s) PROVE RowsInv'
    <2>1. Done(s, "lost") /\ UNCHANGED <<issues, completions, issued>>
      BY <1>4 DEF DeadlockAbort, Crash, Finish, books, stock
    <2> QED BY <2>1, RowsDone
  <1> QED
    BY <1>1, <1>2, <1>3, <1>4 DEF Next

LEMMA KeysStayApart == KeysApart => []KeysApart
  <1>1. KeysApart => KeysApart'
    BY DEF KeysApart
  <1> QED
    BY <1>1, PTL

LEMMA ComponentsStayApart == ComponentsApart => []ComponentsApart
  <1>1. ComponentsApart => ComponentsApart'
    BY DEF ComponentsApart
  <1> QED
    BY <1>1, PTL

LEMMA RowsInvariance == KeysApart => (Spec => []RowsInv)
  <1>1. KeysApart /\ Init => RowsInv
    BY RowsInit
  <1> QED
    BY <1>1, RowsNext, KeysStayApart, Invariance, PTL DEF Spec

\* issue_work_order_material: if clients wait for the answer before they send an issue
\* again, and no order lists a component twice, what is issued to a material is what has
\* left the stock for it.
THEOREM IssuesLeaveStock == WaitToRetry /\ KeysApart /\ ComponentsApart => (Spec => []IssuedLeftStock)
  <1>1. WaitToRetry /\ ComponentsApart /\ RowsInv => IssuedLeftStock
    BY DEF RowsInv
  <1>2. WaitToRetry => []WaitToRetry
    <2>1. WaitToRetry => WaitToRetry'
      OBVIOUS
    <2> QED BY <2>1, PTL
  <1> QED
    BY <1>1, <1>2, ComponentsStayApart, RowsInvariance, PTL

-----------------------------------------------------------------------------
(* The completion of the total.                                            *)

\* All the reservations of an order, each drawn by its material.
AllReserved(o) == [u \in Uses |-> IF OrderOf[u[1]] = o THEN reserved[u[2][1]][u[2][2]] ELSE 0]

\* A posting of a new key draws no more than is reserved, so it is accepted.
LEMMA FreshPostable ==
  ASSUME IInv, ComponentsApart, NEW draw \in Drawings, NEW key \in Keys, ~KeyIssued(key),
         \A m \in Materials, i \in Items : DrawnFrom(draw, m, i) <= reserved[m][i]
  PROVE  Postable(draw, key)
  <1>1. BookTypes /\ reserved \in Quantities
    BY TypesSplit DEF IInv, BookTypes, Quantities
  <1>2. \A r \in Posting(draw, key), x \in issues : x.key # r.key
    BY PostingFacts DEF KeyIssued
  <1>3. ASSUME NEW r \in Posting(draw, key), NEW x \in Posting(draw, key), x.reservation = r.reservation
        PROVE  x.qty = r.qty
    <2>1. PICK u \in Uses : r = Row(draw, key, u)
      BY PostingFacts
    <2>2. PICK v \in Uses : x = Row(draw, key, v)
      BY PostingFacts
    <2>3. u[2] = v[2]
      BY <1>3, <2>1, <2>2 DEF Row
    <2>4. u = v
      BY <2>3, ApartFacts
    <2> QED BY <2>1, <2>2, <2>4
  <1>4. ASSUME NEW i \in Items PROVE onHand[i] >= Moving(draw, key, i)
    <2> DEFINE take == Drawn(draw)
               f == [m \in Materials |-> take[m][i]]
               g == [m \in Materials |-> reserved[m][i]]
    <2>1. take \in Quantities /\ \A m \in Materials : take[m][i] = DrawnFrom(draw, m, i)
      BY DrawSums
    <2>2. \A m \in Materials : f[m] \in Int /\ g[m] \in Int /\ f[m] <= g[m]
      <3> HIDE DEF take
      <3> QED BY <1>1, <2>1 DEF Quantities
    <2>3. OfItem(take, i) = SumFunctionOnSet(f, Materials) /\ OfItem(reserved, i) = SumFunctionOnSet(g, Materials)
      BY DEF OfItem
    <2>4. Moving(draw, key, i) \in Nat /\ Moving(draw, key, i) <= OfItem(take, i)
      BY MovingFacts
    <2>5. OfItem(take, i) \in Nat /\ OfItem(reserved, i) \in Nat
      BY <1>1, <2>1, QuantityType
    <2>6. OfItem(reserved, i) <= onHand[i] /\ onHand[i] \in Nat
      BY <1>1 DEF IInv, MaterialsInv, MaterialSecured, BookTypes
    <2> HIDE DEF f, g, take
    <2>7. SumFunctionOnSet(f, Materials) <= SumFunctionOnSet(g, Materials)
      BY <2>2, TablesAreFinite, SumMonotone
    <2> DEFINE a == Moving(draw, key, i)
               b == OfItem(take, i)
               d == OfItem(reserved, i)
    <2>8. a \in Nat /\ a <= b /\ b \in Nat /\ d \in Nat /\ b <= d /\ d <= onHand[i] /\ onHand[i] \in Nat
      BY <2>3, <2>4, <2>5, <2>6, <2>7
    <2> HIDE DEF a, b, d
    <2>9. onHand[i] >= a
      BY <2>8
    <2> QED BY <2>9 DEF a
  <1> QED
    BY <1>2, <1>3, <1>4 DEF Postable

\* There are turns.
LEMMA TurnsExist == \E turn \in Turns : \A m \in Materials : turn[m] \in Int
  <1> DEFINE n == Cardinality(Materials)
  <1>1. n \in Nat /\ ExistsBijection(1 .. n, Materials)
    BY TablesAreFinite, FS_CardinalityType
  <1> HIDE DEF n
  <1>2. PICK f : f \in Bijection(1 .. n, Materials)
    BY <1>1, Fun_ExistsBij
  <1>3. PICK turn : turn \in Bijection(Materials, 1 .. n)
    BY <1>2, Fun_BijInverse
  <1>4. turn \in Injection(Materials, 1 .. n) /\ turn \in [Materials -> 1 .. n]
    BY <1>3, Fun_BijectionProperties
  <1> QED
    BY <1>1, <1>4 DEF Turns, n

\* The completion that reports all of an order can draw all its reservations: they are
\* within the bounds, they are all that is left to issue, and all of them are exhausted.
LEMMA TotalDraws ==
  ASSUME IInv, ComponentsApart, NEW o \in Orders, status[o] # "PLANNED",
         NEW total \in Nat, total >= Quantity[o]
  PROVE  Backflushed(o, total) # {}
  <1>1. BookTypes /\ reserved \in Quantities
    BY TypesSplit DEF IInv, BookTypes, Quantities
  <1>2. PICK draw : draw = AllReserved(o)
    OBVIOUS
  <1>3. ASSUME NEW u \in Uses
        PROVE  /\ draw[u] = IF OrderOf[u[1]] = o THEN reserved[u[2][1]][u[2][2]] ELSE 0
               /\ draw[u] \in Nat
    BY <1>1, <1>2, UsesFacts DEF AllReserved, Quantities
  <1>4. draw \in Drawings
    <2>1. draw = [u \in Uses |-> draw[u]]
      BY <1>2 DEF AllReserved
    <2> QED BY <1>3, <2>1 DEF Drawings
  <1>5. ASSUME NEW m \in Materials, OrderOf[m] = o
        PROVE  issued[m] + SumOf(reserved[m]) = Required[m]
    <2>1. Alike(m) = {m}
      BY ApartFacts
    <2>2. SumFunctionOnSet(Secured, {m}) = SumFunctionOnSet(Required, {m})
      BY <1>5, <2>1 DEF IInv, MaterialsInv, MaterialSecured, Secured
    <2>3. Secured[m] = issued[m] + SumOf(reserved[m]) /\ Secured[m] \in Int /\ Required[m] \in Int
      BY <1>1, QuantityType, QuantitiesArePositive DEF Secured, BookTypes
    <2>4. SumFunctionOnSet(Secured, {m}) = Secured[m]
      BY <2>3, SumSingle
    <2>5. SumFunctionOnSet(Required, {m}) = Required[m]
      BY <2>3, SumSingle
    <2> QED BY <2>2, <2>3, <2>4, <2>5
  \* Each reservation has one use, that of its material.
  <1>6. ASSUME NEW r \in Reservations
        PROVE  /\ <<r[1], r>> \in Uses /\ r[1] \in Materials /\ r[2] \in Items /\ r = <<r[1], r[2]>>
               /\ {v \in Uses : v[2] = r} = {<<r[1], r>>}
               /\ draw[<<r[1], r>>] = IF OrderOf[r[1]] = o THEN reserved[r[1]][r[2]] ELSE 0
               /\ SumFunctionOnSet(draw, {v \in Uses : v[2] = r}) =
                    IF OrderOf[r[1]] = o THEN reserved[r[1]][r[2]] ELSE 0
    <2> DEFINE x == <<r[1], r>>
    <2>1. r[1] \in Materials /\ r[2] \in Items /\ r = <<r[1], r[2]>>
      BY DEF Reservations
    <2>2. x \in Uses
      BY <2>1, AlikeFacts DEF Uses
    <2>3. ASSUME NEW v \in Uses, v[2] = r PROVE v = x
      <3>1. x[2] = r
        OBVIOUS
      <3> HIDE DEF x
      <3> QED BY <2>2, <2>3, <3>1, ApartFacts
    <2>4. x[1] = r[1] /\ x[2] = r
      OBVIOUS
    <2> HIDE DEF x
    <2>5. {v \in Uses : v[2] = r} = {x}
      BY <2>2, <2>3, <2>4
    <2>6. draw[x] = IF OrderOf[r[1]] = o THEN reserved[r[1]][r[2]] ELSE 0
      BY <1>3, <2>2, <2>4
    <2>7. draw[x] \in Int
      BY <1>3, <2>2
    <2>8. SumFunctionOnSet(draw, {x}) = draw[x]
      BY <2>7, SumSingle
    <2> QED BY <2>1, <2>2, <2>5, <2>6, <2>8 DEF x
  <1>7. ASSUME NEW m \in Materials, NEW i \in Items
        PROVE  DrawnFrom(draw, m, i) = IF OrderOf[m] = o THEN reserved[m][i] ELSE 0
    <2> DEFINE r == <<m, i>>
    <2>1. CASE i \in Sources(m)
      <3>1. r \in Reservations /\ r[1] = m /\ r[2] = i
        BY <2>1 DEF Reservations
      <3>2. DrawnFrom(draw, m, i) = SumFunctionOnSet(draw, {v \in Uses : v[2] = r})
        BY DEF DrawnFrom
      <3> HIDE DEF r
      <3> QED BY <1>6, <3>1, <3>2
    <2>2. CASE i \notin Sources(m)
      <3>1. \A u \in Uses : u[2] # r
        BY <2>2, UsesFacts
      <3>2. {u \in Uses : u[2] = r} = {}
        BY <3>1
      <3>3. DrawnFrom(draw, m, i) = 0
        BY <3>2, SumEmpty DEF DrawnFrom
      <3>4. reserved[m][i] = 0
        <4>1. reserved[m][i] \in Nat /\ ~(reserved[m][i] > 0)
          BY <1>1, <2>2 DEF IInv, MaterialsInv, FromSources, Quantities
        <4> QED BY <4>1
      <3> QED BY <3>3, <3>4
    <2> QED BY <2>1, <2>2
  <1>8. \A m \in Materials, i \in Items : DrawnFrom(draw, m, i) <= reserved[m][i]
    BY <1>1, <1>7 DEF Quantities
  <1>9. ASSUME NEW m \in Materials
        PROVE  /\ OrderOf[m] = o => DrawnBy(draw, m) = SumOf(reserved[m])
               /\ OrderOf[m] # o => DrawnBy(draw, m) = 0
    <2> DEFINE by == [n \in Materials |-> DrawnBy(draw, n)]
               from == [n \in Materials |-> SumOf(Drawn(draw)[n])]
               f == Drawn(draw)[m]
               g == reserved[m]
    <2>1. SumFunctionOnSet(by, {m}) = SumFunctionOnSet(from, {m})
      <3>1. SumFunctionOnSet(by, Alike(m)) = SumFunctionOnSet(from, Alike(m))
        BY <1>4, GroupSums
      <3>2. Alike(m) = {m}
        BY ApartFacts
      <3> HIDE DEF by, from
      <3> QED BY <3>1, <3>2
    <2>2. Drawn(draw) \in Quantities /\ DrawnBy(draw, m) \in Nat
          /\ \A i \in Items : f[i] = DrawnFrom(draw, m, i)
      BY <1>4, DrawSums
    <2>3. DOMAIN f = Items /\ DOMAIN g = Items /\ SumOf(f) \in Nat
      BY <1>1, <2>2, QuantityType
    <2>4. by[m] = DrawnBy(draw, m) /\ from[m] = SumOf(f) /\ by[m] \in Int /\ from[m] \in Int
      BY <2>2, <2>3
    <2>5. \A i \in Items : f[i] = IF OrderOf[m] = o THEN g[i] ELSE 0
      BY <1>7, <2>2
    <2> HIDE DEF by, from, f, g
    <2>6. SumFunctionOnSet(by, {m}) = by[m]
      BY <2>4, SumSingle
    <2>7. SumFunctionOnSet(from, {m}) = from[m]
      BY <2>4, SumSingle
    <2>8. DrawnBy(draw, m) = SumOf(f)
      BY <2>1, <2>4, <2>6, <2>7
    <2>9. ASSUME OrderOf[m] = o PROVE SumOf(f) = SumOf(g)
      <3>1. SumFunctionOnSet(f, Items) = SumFunctionOnSet(g, Items)
        BY <2>5, <2>9, TablesAreFinite, SumAgree
      <3> QED BY <2>3, <3>1 DEF SumOf
    <2>10. ASSUME OrderOf[m] # o PROVE SumOf(f) = 0
      <3>1. SumFunctionOnSet(f, Items) = 0
        BY <2>5, <2>10, TablesAreFinite, SumZero
      <3> QED BY <2>3, <3>1 DEF SumOf
    <2> QED BY <2>8, <2>9, <2>10 DEF g
  <1>10. draw \in Draws
    <2>1. ASSUME NEW u \in Uses PROVE draw[u] <= Required[u[1]] /\ u[1] \in Materials
      <3> DEFINE m == u[1]
                 i == u[2][2]
                 b == SumOf(reserved[m])
      <3>1. m \in Materials /\ i \in Items /\ u[2][1] = m
        BY UsesFacts, ApartFacts
      <3>2. draw[u] = IF OrderOf[m] = o THEN reserved[m][i] ELSE 0
        BY <1>3, <3>1
      <3>3. reserved[m][i] \in Nat /\ b \in Nat /\ reserved[m][i] <= b
        BY <1>1, <3>1, QuantityType
      <3>4. issued[m] \in Nat /\ Required[m] \in Nat
        BY <1>1, <3>1, QuantitiesArePositive DEF BookTypes
      <3>5. OrderOf[m] = o => issued[m] + b = Required[m]
        BY <1>5, <3>1
      <3> HIDE DEF m, i, b
      <3>6. draw[u] <= Required[m]
        BY <3>2, <3>3, <3>4, <3>5
      <3> QED BY <3>1, <3>6 DEF m
    <2> QED BY <1>4, <2>1, DrawsAreDrawings
  <1>11. PICK turn \in Turns : \A m \in Materials : turn[m] \in Int
    BY TurnsExist
  <1>12. OldestFirst(draw, turn, Items)
    <2> SUFFICES ASSUME NEW u \in Uses, NEW r \in Reservations, draw[u] > 0, r[1] \in Alike(u[1])
                 PROVE  SumFunctionOnSet(draw, {v \in Uses : v[2] = r /\ turn[v[1]] <= turn[u[1]]}) =
                          reserved[r[1]][r[2]]
      BY DEF OldestFirst
    <2>1. u[1] \in Materials /\ r[1] = u[1] /\ OrderOf[u[1]] = o
      <3>1. u[1] \in Materials
        BY UsesFacts
      <3>2. OrderOf[u[1]] = o
        BY <1>3
      <3> QED BY <3>1, <3>2, ApartFacts
    <2>2. \A v \in Uses : v[2] = r => v[1] = u[1]
      BY <2>1, ApartFacts
    <2>3. turn[u[1]] <= turn[u[1]]
      BY <1>11, <2>1
    <2>4. {v \in Uses : v[2] = r /\ turn[v[1]] <= turn[u[1]]} = {v \in Uses : v[2] = r}
      BY <2>2, <2>3
    <2>5. SumFunctionOnSet(draw, {v \in Uses : v[2] = r}) = reserved[r[1]][r[2]]
      BY <1>6, <2>1
    <2> QED BY <2>4, <2>5
  <1>13. ASSUME NEW m \in Materials
         PROVE  IF m \in MaterialsOf(o) /\ ToIssue(m, total) > 0
                THEN total >= Quantity[o] /\ DrawnBy(draw, m) * Quantity[o] = ToIssue(m, total)
                ELSE DrawnBy(draw, m) = 0
    <2>1. CASE OrderOf[m] # o
      BY <1>9, <2>1 DEF MaterialsOf
    <2>2. CASE OrderOf[m] = o
      <3> DEFINE t == DrawnBy(draw, m)
                 q == Quantity[o]
                 a == issued[m]
                 n == Required[m]
      <3>1. a \in Nat /\ n \in Nat /\ q \in Nat \ {0}
        BY <1>1, QuantitiesArePositive DEF BookTypes
      <3>2. t \in Nat /\ a + t = n
        BY <1>4, <1>5, <1>9, <2>2, DrawSums
      <3>3. ToIssue(m, total) = n * q - a * q
        <4>1. ToIssue(m, total) = n * (IF total < q THEN total ELSE q) - a * q
          BY <2>2 DEF ToIssue
        <4>2. ~(total < q)
          BY <3>1
        <4> QED BY <4>1, <4>2
      <3> HIDE DEF t, q, a, n
      <3>4. n * q - a * q = t * q
        <4>1. (a + t) * q = a * q + t * q
          BY <3>1, <3>2
        <4>2. a * q \in Int /\ t * q \in Int
          BY <3>1, <3>2
        <4>3. n = a + t
          BY <3>2
        <4> QED BY <4>1, <4>2, <4>3
      <3>5. t = 0 \/ t * q > 0
        BY <3>1, <3>2
      <3>6. IF ToIssue(m, total) > 0 THEN t * q = ToIssue(m, total) ELSE t = 0
        BY <3>3, <3>4, <3>5
      <3> QED BY <2>2, <3>6 DEF t, q, MaterialsOf
    <2> QED BY <2>1, <2>2
  <1>14. draw \in Drawable(Items)
    <2>1. \A u \in Uses : u[2][2] \in Items
      BY UsesFacts
    <2> QED BY <1>8, <1>10, <1>11, <1>12, <2>1 DEF Drawable
  <1> QED
    BY <1>13, <1>14 DEF Backflushed

\* The answer to a running call is that of its own commit, or of its loss.
LEMMA AnswerOfCommit ==
  ASSUME IInv, NEW s \in Sessions, Committing(s, "complete"), [Next]_vars
  PROVE  reply'[s] \in {reply[s], "lost"} \/ CommitCompletion(s)
  <1>1. reply \in [Sessions -> {"none", "done", "replayed", "refused", "lost"}]
    BY DEF IInv, TypeOK
  <1>2. pc[s] = "commit" /\ call[s].kind = "complete"
    BY DEF Committing
  <1>3. CASE UNCHANGED vars
    BY <1>3 DEF vars
  <1>4. ASSUME NEW t \in Sessions, NEW c \in Calls, Begin(t, c) PROVE reply'[s] = reply[s]
    BY <1>1, <1>2, <1>4 DEF Begin
  <1>5. ASSUME NEW t \in Sessions, DeadlockAbort(t) \/ Crash(t) PROVE reply'[s] \in {reply[s], "lost"}
    BY <1>1, <1>5 DEF DeadlockAbort, Crash, Finish, Done
  <1>6. ASSUME NEW t \in Sessions, Run(t) PROVE reply'[s] = reply[s] \/ CommitCompletion(s)
    <2>1. CASE t = s
      BY <1>2, <1>6, <2>1
         DEF Run, CheckKey, LockMaterial, LockOperation, LockOrder, LockMaterials, LockNext,
             CommitRelease, CommitIssue, CommitAdvance, CommitReport, Committing
    <2>2. CASE t # s
      <3>1. CASE CheckKey(t)
        <4>1. call[t].kind \in {"complete", "issue"}
          BY <3>1 DEF IInv, SessionsInv, InCall, CheckKey
        <4>2. (\E r : Finish(t, r)) \/ (\E step : Goto(t, step))
          BY <3>1, <4>1 DEF CheckKey, ReplayCompletion
        <4> QED BY <1>1, <2>2, <4>2 DEF Finish, Done, Goto
      <3>2. CASE LockMaterial(t) \/ LockOperation(t) \/ LockOrder(t) \/ LockMaterials(t) \/ LockNext(t)
        <4>1. (\E r : Finish(t, r)) \/ (\E step : Goto(t, step))
          BY <3>2 DEF LockMaterial, LockOperation, LockOrder, LockMaterials, LockNext, ReplayCompletion
        <4> QED BY <1>1, <2>2, <4>1 DEF Finish, Done, Goto
      <3>3. CASE CommitRelease(t) \/ CommitCompletion(t) \/ CommitIssue(t) \/ CommitAdvance(t) \/ CommitReport(t)
        <4>1. \E r : Done(t, r)
          BY <3>3 DEF CommitRelease, CommitCompletion, CommitIssue, CommitAdvance, CommitReport, Finish
        <4> QED BY <1>1, <2>2, <4>1 DEF Done
      <3> QED BY <1>6, <3>1, <3>2, <3>3 DEF Run
    <2> QED BY <2>1, <2>2
  <1> QED
    BY <1>3, <1>4, <1>5, <1>6 DEF Next

\* complete_work_order: where no order lists a component twice, the completion that reports
\* all of an open, released order is accepted, whatever was issued by hand and completed
\* before it.
THEOREM TotalsAreAccepted == KeysApart /\ ComponentsApart => (Spec => TotalAccepted)
  <1>1. KeysApart /\ ComponentsApart /\ IInv /\ RowsInv /\ [Next]_vars =>
          [\A s \in Sessions :
             Reported(call[s].order) + call[s].good + call[s].scrap >= Quantity[call[s].order]
               => Accepted(s)]_vars
    <2> SUFFICES ASSUME KeysApart, ComponentsApart, IInv, RowsInv, [Next]_vars, NEW s \in Sessions,
                        Reported(call[s].order) + call[s].good + call[s].scrap >= Quantity[call[s].order],
                        Committing(s, "complete"), Due(call[s])
                 PROVE  reply'[s] \in {reply[s], "done", "lost"}
      BY DEF Accepted
    <2>1. CASE CommitCompletion(s)
      <3>1. PICK c \in Calls, total \in Nat, made \in Nat :
              /\ c = call[s] /\ c.kind = "complete"
              /\ status[c.order] \in {"RELEASED", "IN_PROGRESS"}
              /\ total = Reported(c.order) + c.good + c.scrap
              /\ \/ Finish(s, "refused")
                    /\ \/ CompletionDraws(c, total) = {} \/ KeyCompleted(c.key)
                       \/ \E draw \in CompletionDraws(c, total) : ~Postable(draw, c.key)
                 \/ \E draw \in CompletionDraws(c, total) : Completes(s, c, draw, made)
        BY <2>1, CompletionEnds
      <3>2. c.order \in Orders /\ c.key \in Keys
        BY CallFields
      <3>3. ~KeyCompleted(c.key) /\ status[c.order] # "PLANNED" /\ total >= Quantity[c.order]
        BY <3>1 DEF Due
      <3>4. ~KeyIssued(c.key)
        BY <3>1, <3>3 DEF RowsInv, KeyOwners, KeyIssued, KeysApart
      <3>5. ASSUME NEW draw \in CompletionDraws(c, total) PROVE Postable(draw, c.key)
        <4>1. draw \in Drawings /\ \A m \in Materials, i \in Items : DrawnFrom(draw, m, i) <= reserved[m][i]
          BY CompletionDrawsFacts
        <4> DEFINE key == c.key
        <4>2. key \in Keys /\ ~KeyIssued(key)
          BY <3>2, <3>4
        <4> HIDE DEF key
        <4>3. Postable(draw, key)
          BY <4>1, <4>2, FreshPostable
        <4> QED BY <4>3 DEF key
      <3>6. CompletionDraws(c, total) # {}
        BY <3>2, <3>3, TotalDraws DEF CompletionDraws
      <3>7. Done(s, "done")
        BY <3>1, <3>3, <3>5, <3>6 DEF Completes
      <3>8. reply'[s] = "done"
        BY <3>7 DEF Done, IInv, TypeOK
      <3> QED BY <3>8
    <2> QED BY <2>1, AnswerOfCommit
  <1> QED
    BY <1>1, KeysStayApart, ComponentsStayApart, RowsInvariance, Invariance, PTL DEF Spec, TotalAccepted
=============================================================================
