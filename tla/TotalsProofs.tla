---------------------------- MODULE TotalsProofs ----------------------------
(***************************************************************************)
(* The laws of totals: a total is a natural number, the total of a         *)
(* function split over two parts of its domain, or into two addends, is    *)
(* the sum of the totals, and equal terms give equal totals.               *)
(*                                                                         *)
(* And what they say of first-in-first-out matching, for every book: no    *)
(* order gives more than it has, an order is paired only once those ahead  *)
(* of it are exhausted, one that is left over exhausts the incoming order, *)
(* and the pairings add up to the amount filled.                           *)
(***************************************************************************)
EXTENDS Fifo, FiniteSetTheorems, WellFoundedInduction, NaturalsInduction, TLAPS

-----------------------------------------------------------------------------
(* Totals *)

\* Amounts over a finite set: what Total can be applied to.
AmountsOver(D) == [D -> Nat]

\* The units of finitely many amounts are finitely many.
LEMMA UnitsFinite ==
    ASSUME NEW D, IsFiniteSet(D), NEW f \in AmountsOver(D)
    PROVE  IsFiniteSet(Units(f))
<1> DEFINE cell(x) == {x} \X (1 .. f[x])
           cells == {cell(x) : x \in D}
           g == [x \in D |-> cell(x)]
<1>1. g \in Surjection(D, cells)
  BY DEF Surjection
<1>2. IsFiniteSet(cells)
  BY <1>1, FS_Surjection
<1>3. ASSUME NEW x \in D PROVE IsFiniteSet(cell(x))
  <2>1. f[x] \in Nat
    BY DEF AmountsOver
  <2>2. IsFiniteSet(1 .. f[x])
    BY <2>1, FS_Interval
  <2>3. IsFiniteSet({x})
    BY FS_Singleton, Zenon
  <2>4. QED
    BY <2>2, <2>3, FS_Product
<1>4. IsFiniteSet(UNION cells)
  BY <1>2, <1>3, FS_UNION
<1>5. Units(f) = UNION cells
  BY DEF Units, AmountsOver
<1>6. QED
  BY <1>4, <1>5

\* A total is a number of units.
THEOREM TotalType ==
    ASSUME NEW D, IsFiniteSet(D), NEW f \in AmountsOver(D)
    PROVE  Total(f) \in Nat
  BY UnitsFinite, FS_CardinalityType DEF Total

\* An empty amount adds nothing.
THEOREM TotalZero ==
    ASSUME NEW D, NEW f \in AmountsOver(D), \A x \in D : f[x] = 0
    PROVE  Total(f) = 0
<1>1. Units(f) = {}
  BY DEF Units, AmountsOver
<1>2. QED
  BY <1>1, FS_EmptySet DEF Total

\* A single amount is its own total.
THEOREM TotalSingle ==
    ASSUME NEW x, NEW n \in Nat
    PROVE  Total([y \in {x} |-> n]) = n
<1> DEFINE f == [y \in {x} |-> n]
<1>1. Units(f) = {x} \X (1 .. n)
  BY DEF Units
<1>2. IsFiniteSet({x}) /\ Cardinality({x}) = 1
  BY FS_Singleton, Zenon
<1>3. IsFiniteSet(1 .. n) /\ Cardinality(1 .. n) = n
  BY FS_Interval
<1>4. Cardinality({x} \X (1 .. n)) = Cardinality({x}) * Cardinality(1 .. n)
  BY <1>2, <1>3, FS_Product
<1>5. Cardinality({x} \X (1 .. n)) = n
  BY <1>2, <1>3, <1>4
<1>6. Total(f) = n
  BY <1>1, <1>5, Zenon DEF Total
<1>7. QED
  BY <1>6

\* Over two disjoint parts, totals add up.
THEOREM TotalSplit ==
    ASSUME NEW D, IsFiniteSet(D), NEW f \in AmountsOver(D),
           NEW S, NEW T, D = S \cup T, S \cap T = {}
    PROVE  Total(f) = Total([x \in S |-> f[x]]) + Total([x \in T |-> f[x]])
<1> DEFINE g == [x \in S |-> f[x]]
           h == [x \in T |-> f[x]]
<1>1. IsFiniteSet(S) /\ IsFiniteSet(T)
  BY FS_Subset
<1>2. g \in AmountsOver(S) /\ h \in AmountsOver(T)
  BY DEF AmountsOver
<1>3. IsFiniteSet(Units(g)) /\ IsFiniteSet(Units(h))
  BY <1>1, <1>2, UnitsFinite
<1>4. Units(f) = Units(g) \cup Units(h)
  BY DEF Units, AmountsOver
<1>5. Units(g) \cap Units(h) = {}
  BY DEF Units, AmountsOver
<1>6. Cardinality(Units(g)) \in Nat /\ Cardinality(Units(h)) \in Nat
  BY <1>3, FS_CardinalityType
<1>7. Cardinality(Units(f))
        = Cardinality(Units(g)) + Cardinality(Units(h)) - Cardinality({})
  BY <1>3, <1>4, <1>5, FS_Union
<1>8. QED
  BY <1>6, <1>7, FS_EmptySet DEF Total

\* The total of a part is at most the whole.
THEOREM TotalPart ==
    ASSUME NEW D, IsFiniteSet(D), NEW f \in AmountsOver(D), NEW S, S \subseteq D
    PROVE  Total([x \in S |-> f[x]]) =< Total(f)
<1> DEFINE T == D \ S
           g == [x \in S |-> f[x]]
           h == [x \in T |-> f[x]]
<1>1. IsFiniteSet(S) /\ IsFiniteSet(T)
  BY FS_Subset
<1>2. g \in AmountsOver(S) /\ h \in AmountsOver(T)
  BY DEF AmountsOver
<1>3. Total(g) \in Nat /\ Total(h) \in Nat
  BY <1>1, <1>2, TotalType
<1>4. Total(f) = Total(g) + Total(h)
  BY TotalSplit, D = S \cup T, S \cap T = {}
<1>5. QED
  BY <1>3, <1>4

\* The units of the amounts f.
LEMMA UnitsMember ==
    ASSUME NEW D, NEW f \in AmountsOver(D)
    PROVE  /\ \A x, i : <<x, i>> \in Units(f) <=> x \in D /\ i \in 1 .. f[x]
           /\ \A z \in Units(f) : z = <<z[1], z[2]>>
  BY DEF Units, AmountsOver

\* Where every amount is the sum of two, so is the total.
THEOREM TotalSum ==
    ASSUME NEW D, IsFiniteSet(D),
           NEW f \in AmountsOver(D), NEW g \in AmountsOver(D), NEW h \in AmountsOver(D),
           \A x \in D : f[x] = g[x] + h[x]
    PROVE  Total(f) = Total(g) + Total(h)
<1> DEFINE above == {z \in Units(f) : z[2] > g[z[1]]}
           lift == [z \in Units(h) |-> <<z[1], z[2] + g[z[1]]>>]
<1>1. \A x \in D : f[x] \in Nat /\ g[x] \in Nat /\ h[x] \in Nat
  BY DEF AmountsOver
<1>2. /\ \A x, i : <<x, i>> \in Units(f) <=> x \in D /\ i \in 1 .. f[x]
      /\ \A x, i : <<x, i>> \in Units(g) <=> x \in D /\ i \in 1 .. g[x]
      /\ \A x, i : <<x, i>> \in Units(h) <=> x \in D /\ i \in 1 .. h[x]
      /\ \A z \in Units(f) \cup Units(g) \cup Units(h) : z = <<z[1], z[2]>>
  BY UnitsMember
<1>3. Units(f) = Units(g) \cup above /\ Units(g) \cap above = {}
  <2>1. ASSUME NEW z \in Units(g) PROVE z \in Units(f) /\ z \notin above
    BY <1>1, <1>2
  <2>2. ASSUME NEW z \in Units(f), z \notin above PROVE z \in Units(g)
    BY <1>1, <1>2, <2>2
  <2>3. QED
    BY <2>1, <2>2
<1>4. lift \in Bijection(Units(h), above)
  <2>1. ASSUME NEW z \in Units(h) PROVE lift[z] \in above
    BY <1>1, <1>2
  <2>2. ASSUME NEW y \in Units(h), NEW z \in Units(h), lift[y] = lift[z] PROVE y = z
    BY <1>1, <1>2, <2>2
  <2>3. ASSUME NEW z \in above PROVE \E y \in Units(h) : lift[y] = z
    <3>1. <<z[1], z[2] - g[z[1]]>> \in Units(h)
      BY <1>1, <1>2
    <3>2. lift[<<z[1], z[2] - g[z[1]]>>] = z
      BY <1>1, <1>2, <3>1
    <3>3. QED
      BY <3>1, <3>2
  <2>4. lift \in [Units(h) -> above]
    BY <2>1
  <2>5. QED
    BY <2>2, <2>3, <2>4 DEF Bijection, Injection, Surjection, IsInjective
<1>5. IsFiniteSet(Units(f)) /\ IsFiniteSet(Units(g)) /\ IsFiniteSet(Units(h))
  BY UnitsFinite
<1>6. IsFiniteSet(above) /\ Cardinality(above) = Cardinality(Units(h))
  <2>1. ExistsBijection(Units(h), above)
    BY <1>4 DEF ExistsBijection
  <2>2. QED
    BY <1>5, <2>1, FS_Bijection
<1>7. Cardinality(Units(f)) = Cardinality(Units(g)) + Cardinality(above) - Cardinality({})
  BY <1>3, <1>5, <1>6, FS_Union
<1>8. Cardinality(Units(g)) \in Nat /\ Cardinality(Units(h)) \in Nat
  BY <1>5, FS_CardinalityType
<1>9. QED
  BY <1>6, <1>7, <1>8, FS_EmptySet DEF Total

\* One more amount adds itself.
THEOREM TotalAdd ==
    ASSUME NEW D, IsFiniteSet(D), NEW f \in AmountsOver(D), NEW x, x \notin D,
           NEW g \in AmountsOver(D \cup {x}), \A y \in D : g[y] = f[y]
    PROVE  Total(g) = Total(f) + g[x]
<1>1. IsFiniteSet(D \cup {x})
  BY FS_AddElement
<1>2. Total(g) = Total([y \in D |-> g[y]]) + Total([y \in {x} |-> g[y]])
  BY <1>1, TotalSplit, D \cap {x} = {}
<1>3. [y \in D |-> g[y]] = f
  BY DEF AmountsOver
<1>4. [y \in {x} |-> g[y]] = [y \in {x} |-> g[x]]
  OBVIOUS
<1>5. g[x] \in Nat
  BY DEF AmountsOver
<1>6. Total([y \in {x} |-> g[x]]) = g[x]
  BY <1>5, TotalSingle
<1> QED
  BY <1>2, <1>3, <1>4, <1>6

\* Where no amount is above m, the total is at most m for each of them.
THEOREM TotalBound ==
    ASSUME NEW D, IsFiniteSet(D), NEW f \in AmountsOver(D),
           NEW m \in Nat, \A x \in D : f[x] =< m
    PROVE  Total(f) =< Cardinality(D) * m
<1>1. Units(f) \in SUBSET (D \X (1 .. m))
  BY DEF Units, AmountsOver
<1>2. IsFiniteSet(1 .. m) /\ Cardinality(1 .. m) = m
  BY FS_Interval
<1>3. IsFiniteSet(D \X (1 .. m)) /\ Cardinality(D \X (1 .. m)) = Cardinality(D) * m
  BY <1>2, FS_Product
<1> QED
  BY <1>1, <1>3, FS_Subset DEF Total

\* A total does not depend on how the amounts are named.
THEOREM TotalReindex ==
    ASSUME NEW S, NEW T, IsFiniteSet(S), NEW f \in AmountsOver(T),
           NEW g \in Bijection(S, T)
    PROVE  Total([x \in S |-> f[g[x]]]) = Total(f)
<1> DEFINE h == [x \in S |-> f[g[x]]]
           rename == [z \in Units(h) |-> <<g[z[1]], z[2]>>]
<1>1. /\ g \in [S -> T]
      /\ \A x, y \in S : g[x] = g[y] => x = y
      /\ \A y \in T : \E x \in S : g[x] = y
  BY DEF Bijection, Injection, Surjection, IsInjective
<1>2. h \in AmountsOver(S) /\ \A x \in S : h[x] = f[g[x]]
  BY <1>1 DEF AmountsOver
<1> HIDE DEF h
<1>3. /\ \A x, i : <<x, i>> \in Units(h) <=> x \in S /\ i \in 1 .. h[x]
      /\ \A x, i : <<x, i>> \in Units(f) <=> x \in T /\ i \in 1 .. f[x]
      /\ \A z \in Units(f) \cup Units(h) : z = <<z[1], z[2]>>
  BY <1>2, UnitsMember
<1>4. rename \in Bijection(Units(h), Units(f))
  <2>1. ASSUME NEW z \in Units(h) PROVE rename[z] \in Units(f)
    BY <1>1, <1>2, <1>3
  <2>2. ASSUME NEW y \in Units(h), NEW z \in Units(h), rename[y] = rename[z] PROVE y = z
    BY <1>1, <1>3, <2>2
  <2>3. ASSUME NEW z \in Units(f) PROVE \E y \in Units(h) : rename[y] = z
    <3>1. PICK x \in S : g[x] = z[1]
      BY <1>1, <1>3
    <3>2. <<x, z[2]>> \in Units(h)
      BY <1>2, <1>3, <3>1
    <3>3. rename[<<x, z[2]>>] = z
      BY <1>3, <3>1, <3>2
    <3>4. QED
      BY <3>2, <3>3
  <2>4. rename \in [Units(h) -> Units(f)]
    BY <2>1
  <2>5. QED
    BY <2>2, <2>3, <2>4 DEF Bijection, Injection, Surjection, IsInjective
<1>5. IsFiniteSet(Units(h))
  BY <1>2, UnitsFinite
<1>6. ExistsBijection(Units(h), Units(f))
  BY <1>4 DEF ExistsBijection
<1>7. Total(h) = Total(f)
  BY <1>5, <1>6, FS_Bijection DEF Total
<1> QED
  BY <1>7 DEF h

\* Elsewhere than on its domain, an amount may be taken to be zero.
THEOREM TotalPad ==
    ASSUME NEW D, NEW S, S \subseteq D, NEW f \in AmountsOver(S)
    PROVE  Total([x \in D |-> IF x \in S THEN f[x] ELSE 0]) = Total(f)
<1> DEFINE h == [x \in D |-> IF x \in S THEN f[x] ELSE 0]
<1>1. \A x \in D \ S : h[x] = 0 /\ 1 .. h[x] = {}
  OBVIOUS
<1>2. \A x \in S : h[x] = f[x]
  OBVIOUS
<1>3. DOMAIN h = D /\ DOMAIN f = S
  BY DEF AmountsOver
<1> HIDE DEF h
<1>4. Units(h) = Units(f)
  BY <1>1, <1>2, <1>3 DEF Units
<1> QED
  BY <1>4 DEF Total, h

\* The amounts of each group, added up over the groups, are all the amounts.
THEOREM TotalGroup ==
    ASSUME NEW D, IsFiniteSet(D), NEW f \in AmountsOver(D),
           NEW U, IsFiniteSet(U), NEW g \in [D -> U]
    PROVE  /\ [u \in U |-> Total([x \in {y \in D : g[y] = u} |-> f[x]])] \in AmountsOver(U)
           /\ Total([u \in U |-> Total([x \in {y \in D : g[y] = u} |-> f[x]])]) = Total(f)
<1> DEFINE group(u) == {y \in D : g[y] = u}
           part(u) == [x \in group(u) |-> f[x]]
           sums == [u \in U |-> Total(part(u))]
<1>1. ASSUME NEW u \in U
      PROVE  /\ part(u) \in AmountsOver(group(u))
             /\ IsFiniteSet(Units(part(u)))
             /\ Total(part(u)) \in Nat
             /\ \E b : b \in Bijection(1 .. Total(part(u)), Units(part(u)))
  <2>1. IsFiniteSet(group(u))
    BY FS_Subset
  <2>2. part(u) \in AmountsOver(group(u))
    BY DEF AmountsOver
  <2> HIDE DEF part, group
  <2>3. IsFiniteSet(Units(part(u))) /\ Total(part(u)) \in Nat
    BY <2>1, <2>2, UnitsFinite, TotalType
  <2>4. ExistsBijection(1 .. Total(part(u)), Units(part(u)))
    BY <2>3, FS_CardinalityType DEF Total
  <2>5. QED
    BY <2>2, <2>3, <2>4 DEF ExistsBijection
<1> DEFINE B == [u \in U |-> CHOOSE b : b \in Bijection(1 .. Total(part(u)), Units(part(u)))]
<1>2. ASSUME NEW u \in U
      PROVE  B[u] \in Bijection(1 .. Total(part(u)), Units(part(u)))
  BY <1>1
<1>3. sums \in AmountsOver(U) /\ \A u \in U : sums[u] = Total(part(u))
  BY <1>1 DEF AmountsOver
<1> HIDE DEF B, sums
<1>4. /\ \A u \in U : \A x, i : <<x, i>> \in Units(part(u))
                              <=> x \in D /\ g[x] = u /\ i \in 1 .. f[x]
      /\ \A x, i : <<x, i>> \in Units(f) <=> x \in D /\ i \in 1 .. f[x]
      /\ \A u, i : <<u, i>> \in Units(sums) <=> u \in U /\ i \in 1 .. sums[u]
      /\ \A z \in Units(sums) : z = <<z[1], z[2]>>
      /\ \A z \in Units(f) : z = <<z[1], z[2]>>
      /\ \A u \in U : \A z \in Units(part(u)) : z = <<z[1], z[2]>>
  <2>1. ASSUME NEW u \in U
        PROVE  /\ \A x, i : <<x, i>> \in Units(part(u))
                              <=> x \in D /\ g[x] = u /\ i \in 1 .. f[x]
               /\ \A z \in Units(part(u)) : z = <<z[1], z[2]>>
    <3>1. /\ \A x, i : <<x, i>> \in Units(part(u))
                              <=> x \in group(u) /\ i \in 1 .. part(u)[x]
          /\ \A z \in Units(part(u)) : z = <<z[1], z[2]>>
      BY <1>1, UnitsMember
    <3>2. QED
      BY <3>1
  <2>2. QED
    BY <1>3, <2>1, UnitsMember
<1> HIDE DEF part
<1>5. \A u \in U : /\ B[u] \in [1 .. sums[u] -> Units(part(u))]
                   /\ \A i, j \in 1 .. sums[u] : B[u][i] = B[u][j] => i = j
                   /\ \A z \in Units(part(u)) : \E i \in 1 .. sums[u] : B[u][i] = z
  BY <1>2, <1>3 DEF Bijection, Injection, Surjection, IsInjective
<1> DEFINE all == [z \in Units(sums) |-> B[z[1]][z[2]]]
<1>6. all \in Bijection(Units(sums), Units(f))
  <2>1. ASSUME NEW z \in Units(sums)
        PROVE  /\ z[1] \in U /\ z[2] \in 1 .. sums[z[1]]
               /\ all[z] = B[z[1]][z[2]]
               /\ all[z] \in Units(part(z[1]))
               /\ all[z] \in Units(f) /\ g[all[z][1]] = z[1]
    <3>1. z[1] \in U /\ z[2] \in 1 .. sums[z[1]] /\ all[z] = B[z[1]][z[2]]
      BY <1>4
    <3>2. all[z] \in Units(part(z[1]))
      BY <1>5, <3>1
    <3>3. all[z] = <<all[z][1], all[z][2]>>
      BY <1>4, <3>1, <3>2
    <3>4. QED
      BY <1>4, <3>1, <3>2, <3>3
  <2>2. ASSUME NEW y \in Units(sums), NEW z \in Units(sums), all[y] = all[z] PROVE y = z
    <3>1. y[1] = z[1]
      BY <2>1, <2>2
    <3>2. y[2] = z[2]
      BY <1>5, <2>1, <2>2, <3>1
    <3>3. QED
      BY <1>4, <3>1, <3>2
  <2>3. ASSUME NEW z \in Units(f) PROVE \E y \in Units(sums) : all[y] = z
    <3>1. z[1] \in D /\ g[z[1]] \in U /\ z \in Units(part(g[z[1]]))
      BY <1>4
    <3>2. PICK i \in 1 .. sums[g[z[1]]] : B[g[z[1]]][i] = z
      BY <1>5, <3>1
    <3>3. <<g[z[1]], i>> \in Units(sums)
      BY <1>4, <3>1
    <3>4. all[<<g[z[1]], i>>] = z
      BY <3>2, <3>3
    <3>5. QED
      BY <3>3, <3>4
  <2>4. all \in [Units(sums) -> Units(f)]
    BY <2>1
  <2>5. QED
    BY <2>2, <2>3, <2>4 DEF Bijection, Injection, Surjection, IsInjective
<1>7. IsFiniteSet(Units(sums))
  BY <1>3, UnitsFinite
<1>8. ExistsBijection(Units(sums), Units(f))
  BY <1>6 DEF ExistsBijection
<1>9. Total(sums) = Total(f)
  BY <1>7, <1>8, FS_Bijection DEF Total
<1> QED
  BY <1>3, <1>9 DEF sums, part

-----------------------------------------------------------------------------
(* First-in-first-out matching *)

\* A set of natural numbers has a least element.
LEMMA LeastExists ==
    ASSUME NEW S, S \subseteq Nat, S # {}
    PROVE  \E x \in S : \A y \in S : x =< y
<1>1. PICK x \in S : \A y \in S : <<y, x>> \notin OpToRel(<, Nat)
  BY NatLessThanWellFounded, WFMin, Zenon
<1>2. \A y \in S : ~(y < x)
  BY <1>1 DEF OpToRel
<1>3. QED
  BY <1>2

\* A bounded set of time ranks has a greatest element.
LEMMA GreatestExists ==
    ASSUME NEW n \in Nat, NEW S, S \subseteq 1 .. n, S # {}
    PROVE  \E x \in S : \A y \in S : y =< x
<1> DEFINE R == {n - x : x \in S}
<1>0. \A x \in S : x \in Nat /\ n - x \in Nat
  OBVIOUS
<1>1. R \subseteq Nat /\ R # {}
  BY <1>0, Zenon
<1>2. PICK m \in R : \A y \in R : m =< y
  BY <1>1, LeastExists
<1>3. PICK x \in S : m = n - x
  OBVIOUS
<1>4. ASSUME NEW y \in S PROVE y =< x
  <2>1. n - y \in R
    OBVIOUS
  <2>2. QED
    BY <1>2, <1>3, <2>1
<1>5. QED
  BY <1>4

\* The book of an order: amounts at finitely many time ranks.
IsBook(book, n) == n \in Nat /\ DOMAIN book \subseteq 1 .. n /\ book \in AmountsOver(DOMAIN book)

\* A book has a total, and what is ahead of an order is an amount.
LEMMA BookType ==
    ASSUME NEW book, NEW n, IsBook(book, n)
    PROVE  /\ IsFiniteSet(DOMAIN book)
           /\ \A r \in DOMAIN book : book[r] \in Nat /\ r \in Nat
           /\ Total(book) \in Nat
           /\ \A r \in DOMAIN book : Ahead(book, r) \in Nat
<1> USE DEF IsBook
<1>1. IsFiniteSet(DOMAIN book)
  <2>1. IsFiniteSet(1 .. n)
    BY FS_Interval
  <2>2. QED
    BY <2>1, FS_Subset
<1>2. \A r \in DOMAIN book : book[r] \in Nat /\ r \in Nat
  BY DEF AmountsOver
<1>3. Total(book) \in Nat
  BY <1>1, TotalType
<1>4. ASSUME NEW r \in DOMAIN book PROVE Ahead(book, r) \in Nat
  <2> DEFINE S == {x \in DOMAIN book : x < r}
             f == [p \in S |-> book[p]]
  <2>1. IsFiniteSet(S)
    BY <1>1, FS_Subset
  <2>2. f \in AmountsOver(S)
    BY <1>2 DEF AmountsOver
  <2>3. Total(f) \in Nat
    BY <2>1, <2>2, TotalType
  <2>4. QED
    BY <2>3 DEF Ahead
<1>5. QED
  BY <1>1, <1>2, <1>3, <1>4

\* The book cut down to a set of its orders.
Part(book, S) == [x \in S |-> book[x]]

UpTo(book, r) == {x \in DOMAIN book : x =< r}

Below(book, r) == {x \in DOMAIN book : x < r}

\* A part of a book has a total.
LEMMA PartType ==
    ASSUME NEW book, NEW n, IsBook(book, n), NEW S, S \subseteq DOMAIN book
    PROVE  /\ IsFiniteSet(S)
           /\ Part(book, S) \in AmountsOver(S)
  BY BookType, FS_Subset DEF AmountsOver, Part

\* What an order has comes on top of what is ahead of it.
LEMMA UpToTotal ==
    ASSUME NEW book, NEW n, IsBook(book, n), NEW r \in DOMAIN book
    PROVE  Total(Part(book, UpTo(book, r))) = Ahead(book, r) + book[r]
<1> DEFINE S == UpTo(book, r)
           T == Below(book, r)
           f == Part(book, S)
<1>1. S = T \cup {r} /\ T \cap {r} = {}
  BY BookType DEF UpTo, Below
<1>2. IsFiniteSet(S) /\ f \in AmountsOver(S)
  BY PartType DEF UpTo
<1>3. Total(f) = Total([x \in T |-> f[x]]) + Total([x \in {r} |-> f[x]])
  BY <1>1, <1>2, TotalSplit
<1>4. [x \in T |-> f[x]] = [x \in T |-> book[x]]
  BY <1>1 DEF Part
<1>5. [x \in {r} |-> f[x]] = [x \in {r} |-> book[r]]
  BY <1>1 DEF Part
<1>6. Total([x \in {r} |-> book[r]]) = book[r]
  BY BookType, TotalSingle
<1>7. QED
  BY <1>3, <1>4, <1>5, <1>6 DEF Ahead, Below

\* What is ahead of b includes r, if r is ahead of b, and is no more than that
\* if no order stands between them.
LEMMA AheadStep ==
    ASSUME NEW book, NEW n, IsBook(book, n),
           NEW r \in DOMAIN book, NEW b \in DOMAIN book, r < b
    PROVE  /\ Ahead(book, r) + book[r] =< Ahead(book, b)
           /\ (\A x \in DOMAIN book : x < b => x =< r)
                => Ahead(book, r) + book[r] = Ahead(book, b)
<1> DEFINE S == UpTo(book, r)
           T == Below(book, b)
           f == Part(book, T)
<1>1. Total(f) = Ahead(book, b)
  BY DEF Ahead, Part, Below
<1>2. S \subseteq T
  BY BookType DEF UpTo, Below
<1>3. Total(Part(book, S)) =< Total(f)
  <2>1. IsFiniteSet(T) /\ f \in AmountsOver(T)
    BY PartType DEF Below
  <2>2. [x \in S |-> f[x]] = Part(book, S)
    BY <1>2 DEF Part
  <2>3. Total([x \in S |-> f[x]]) =< Total(f)
    BY <1>2, <2>1, TotalPart
  <2>4. QED
    BY <2>2, <2>3
<1>4. (\A x \in DOMAIN book : x < b => x =< r) => S = T
  BY BookType DEF UpTo, Below
<1>5. QED
  BY <1>1, <1>3, <1>4, UpToTotal

\* Nothing is ahead of the first order of the book.
LEMMA AheadOfFirst ==
    ASSUME NEW book, NEW n, IsBook(book, n),
           NEW r \in DOMAIN book, \A x \in DOMAIN book : r =< x
    PROVE  Ahead(book, r) = 0
<1> DEFINE S == {x \in DOMAIN book : x < r}
           f == [p \in S |-> book[p]]
<1>1. S = {}
  BY BookType
<1>2. f \in AmountsOver(S) /\ \A x \in S : f[x] = 0
  BY <1>1 DEF AmountsOver
<1>3. Total(f) = 0
  BY <1>2, TotalZero
<1>4. QED
  BY <1>3 DEF Ahead

\* The book up to an order is no more than the whole, and is the whole at the
\* last order.
LEMMA AheadWithin ==
    ASSUME NEW book, NEW n, IsBook(book, n), NEW r \in DOMAIN book
    PROVE  /\ Ahead(book, r) + book[r] =< Total(book)
           /\ (\A x \in DOMAIN book : x =< r)
                => Ahead(book, r) + book[r] = Total(book)
<1> DEFINE S == UpTo(book, r)
<1>1. Total([x \in S |-> book[x]]) =< Total(book)
  BY BookType, TotalPart DEF IsBook, UpTo
<1>2. (\A x \in DOMAIN book : x =< r) => Part(book, S) = book
  BY DEF IsBook, AmountsOver, Part, UpTo
<1>3. QED
  BY <1>1, <1>2, UpToTotal DEF Part

\* The plan takes from each order at most what it has, and from the incoming
\* one at most what it asks for.
THEOREM FifoBounds ==
    ASSUME NEW book, NEW n, IsBook(book, n), NEW q \in Nat
    PROVE  /\ FifoPlan(q, book) \in AmountsOver(DOMAIN book)
           /\ \A r \in DOMAIN book : FifoPlan(q, book)[r] =< book[r]
           /\ FifoFilled(q, book) \in Nat
           /\ FifoFilled(q, book) =< q
  BY BookType DEF FifoPlan, FifoFilled, Smaller, Beyond, AmountsOver

\* An order is paired only once every order ahead of it is exhausted.
THEOREM FifoInOrder ==
    ASSUME NEW book, NEW n, IsBook(book, n), NEW q \in Nat,
           NEW r \in DOMAIN book, NEW b \in DOMAIN book, r < b,
           FifoPlan(q, book)[b] > 0
    PROVE  FifoPlan(q, book)[r] = book[r]
  BY BookType, AheadStep DEF FifoPlan, Smaller, Beyond

\* If anything is left of an order, nothing is left of the incoming one.
THEOREM FifoComplete ==
    ASSUME NEW book, NEW n, IsBook(book, n), NEW q \in Nat,
           NEW r \in DOMAIN book, FifoPlan(q, book)[r] # book[r]
    PROVE  FifoFilled(q, book) = q
  BY BookType, AheadWithin DEF FifoPlan, FifoFilled, Smaller, Beyond

\* Each unit of the amount filled falls within one order of the book.
LEMMA UnitFalls ==
    ASSUME NEW book, NEW n, IsBook(book, n), NEW m \in 1 .. Total(book)
    PROVE  \E r \in DOMAIN book : /\ Ahead(book, r) < m
                                  /\ m =< Ahead(book, r) + book[r]
<1> DEFINE D == DOMAIN book
           late == {r \in D : m =< Ahead(book, r) + book[r]}
<1>1. Total(book) \in Nat /\ \A r \in D : r \in Nat
  BY BookType
<1>2. D # {}
  <2>1. SUFFICES ASSUME D = {} PROVE FALSE
    OBVIOUS
  <2>2. Total(book) = 0
    BY <2>1, TotalZero DEF IsBook
  <2>3. QED
    BY <2>2
<1>3. PICK last \in D : \A x \in D : x =< last
  BY <1>2, GreatestExists DEF IsBook
<1>4. last \in late
  BY <1>1, <1>3, AheadWithin
<1>5. PICK r \in late : \A x \in late : r =< x
  <2>1. late \subseteq Nat /\ late # {}
    BY <1>1, <1>4
  <2>2. QED
    BY <2>1, LeastExists
<1>6. Ahead(book, r) < m
  <2>1. CASE Below(book, r) = {}
    <3>1. \A x \in D : r =< x
      BY <1>1, <2>1 DEF Below
    <3>2. Ahead(book, r) = 0
      BY <3>1, AheadOfFirst
    <3>3. QED
      BY <3>2
  <2>2. CASE Below(book, r) # {}
    <3>1. Below(book, r) \subseteq 1 .. n /\ n \in Nat
      BY DEF Below, IsBook
    <3>2. PICK p \in Below(book, r) : \A x \in Below(book, r) : x =< p
      BY <2>2, <3>1, GreatestExists
    <3>3. p \in D /\ p < r /\ \A x \in D : x < r => x =< p
      BY <3>2 DEF Below
    <3>4. Ahead(book, p) + book[p] = Ahead(book, r)
      BY <3>3, AheadStep
    <3>5. p \notin late
      BY <1>1, <1>5, <3>3
    <3>6. QED
      BY <3>3, <3>4, <3>5, BookType
  <2>3. QED
    BY <2>1, <2>2
<1>7. QED
  BY <1>5, <1>6

\* The amounts paired with the resting orders add up to the amount filled.
THEOREM FifoSum ==
    ASSUME NEW book, NEW n, IsBook(book, n), NEW q \in Nat
    PROVE  Total(FifoPlan(q, book)) = FifoFilled(q, book)
<1> DEFINE D == DOMAIN book
           plan == FifoPlan(q, book)
           filled == FifoFilled(q, book)
           rank == [z \in Units(plan) |-> Ahead(book, z[1]) + z[2]]
<1>1. /\ IsFiniteSet(D) /\ Total(book) \in Nat
      /\ \A r \in D : r \in Nat /\ book[r] \in Nat /\ Ahead(book, r) \in Nat
  BY BookType
<1>2. /\ plan \in AmountsOver(D)
      /\ \A r \in D : plan[r] \in Nat /\ plan[r] =< book[r]
      /\ filled \in Nat
  BY FifoBounds DEF AmountsOver
<1>3. /\ \A x, i : <<x, i>> \in Units(plan) <=> x \in D /\ i \in 1 .. plan[x]
      /\ \A z \in Units(plan) : z = <<z[1], z[2]>>
  BY <1>2, UnitsMember
<1>4. ASSUME NEW z \in Units(plan) PROVE rank[z] \in 1 .. filled
  <2>1. z[1] \in D /\ z[2] \in 1 .. plan[z[1]]
    BY <1>3
  <2>2. plan[z[1]] = Smaller(book[z[1]], Beyond(q, Ahead(book, z[1])))
    BY <2>1 DEF FifoPlan
  <2>3. Ahead(book, z[1]) + book[z[1]] =< Total(book)
    BY <2>1, AheadWithin
  <2>4. rank[z] = Ahead(book, z[1]) + z[2]
    OBVIOUS
  <2>5. QED
    BY <1>1, <1>2, <2>1, <2>2, <2>3, <2>4 DEF Smaller, Beyond, FifoFilled
<1>5. ASSUME NEW y \in Units(plan), NEW z \in Units(plan), y[1] < z[1]
      PROVE  rank[y] < rank[z]
  <2>1. /\ y[1] \in D /\ y[2] \in 1 .. plan[y[1]]
        /\ z[1] \in D /\ z[2] \in 1 .. plan[z[1]]
    BY <1>3
  <2>2. Ahead(book, y[1]) + book[y[1]] =< Ahead(book, z[1])
    BY <1>5, <2>1, AheadStep
  <2>3. rank[y] = Ahead(book, y[1]) + y[2] /\ rank[z] = Ahead(book, z[1]) + z[2]
    OBVIOUS
  <2>4. QED
    BY <1>1, <1>2, <2>1, <2>2, <2>3
<1>6. ASSUME NEW y \in Units(plan), NEW z \in Units(plan), rank[y] = rank[z]
      PROVE  y = z
  <2>1. /\ y[1] \in D /\ y[2] \in 1 .. plan[y[1]] /\ y = <<y[1], y[2]>>
        /\ z[1] \in D /\ z[2] \in 1 .. plan[z[1]] /\ z = <<z[1], z[2]>>
    BY <1>3
  <2>2. y[1] = z[1]
    BY <1>1, <1>4, <1>5, <1>6, <2>1
  <2>3. y[2] = z[2]
    BY <1>1, <1>2, <1>6, <2>1, <2>2
  <2>4. QED
    BY <2>1, <2>2, <2>3
<1>7. ASSUME NEW m \in 1 .. filled PROVE \E z \in Units(plan) : rank[z] = m
  <2>1. m \in 1 .. Total(book) /\ m =< q
    BY <1>1 DEF FifoFilled, Smaller
  <2>2. PICK r \in D : Ahead(book, r) < m /\ m =< Ahead(book, r) + book[r]
    BY <2>1, UnitFalls
  <2>3. m - Ahead(book, r) \in 1 .. plan[r]
    BY <1>1, <2>1, <2>2 DEF FifoPlan, Smaller, Beyond
  <2>4. <<r, m - Ahead(book, r)>> \in Units(plan)
    BY <1>3, <2>3
  <2>5. rank[<<r, m - Ahead(book, r)>>] = m
    BY <1>1, <2>4
  <2>6. QED
    BY <2>4, <2>5
<1>8. rank \in Bijection(Units(plan), 1 .. filled)
  BY <1>4, <1>6, <1>7 DEF Bijection, Injection, Surjection, IsInjective
<1>9. IsFiniteSet(Units(plan))
  BY <1>1, <1>2, UnitsFinite
<1>10. Cardinality(Units(plan)) = Cardinality(1 .. filled)
  BY <1>8, <1>9, FS_Bijection DEF ExistsBijection
<1>11. QED
  BY <1>2, <1>10, FS_Interval DEF Total
=============================================================================
