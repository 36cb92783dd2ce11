--------------------------- MODULE Ordering_proofs ---------------------------
(***************************************************************************)
(* What sorting, adding up, minimum and maximum compute, for every input:  *)
(* the lemmas that the proofs about the relay, the routing and the queries *)
(* share.  The smallest member of a set of numbers, which exists because < *)
(* is well-founded, takes the place of induction: the smallest             *)
(* counterexample to a claim is none.                                      *)
(***************************************************************************)
EXTENDS Ordering, FiniteSetsExt, FiniteSetTheorems, WellFoundedInduction, SequenceTheorems, TLAPS

\* A set of natural numbers that is not empty has a smallest member.
LEMMA SmallestExists ==
    ASSUME NEW T, T \subseteq Nat, T # {}
    PROVE  \E x \in T : \A y \in T : x <= y
  <1>1. PICK x \in T : \A y \in T : ~(<<y, x>> \in OpToRel(<, Nat))
    BY NatLessThanWellFounded, WFMin
  <1>2. ASSUME NEW y \in T
        PROVE  x <= y
    <2>1. x \in Nat /\ y \in Nat
      OBVIOUS
    <2>2. <<y, x>> \in OpToRel(<, Nat) <=> y < x
      BY <2>1 DEF OpToRel
    <2>3. ~(y < x)
      BY <1>1, <2>2, Zenon
    <2> QED BY <2>1, <2>3
  <1> QED BY <1>2

\* Min is the smallest member.
LEMMA MinFacts ==
    ASSUME NEW T, T \subseteq Nat, T # {}
    PROVE  Min(T) \in T /\ \A y \in T : Min(T) <= y
  BY SmallestExists, Zenon DEF Min

\* A set of natural numbers with a bound, not empty, has a maximum.
LEMMA MaxFacts ==
    ASSUME NEW n \in Nat, NEW T, T \subseteq 0..n, T # {}
    PROVE  Max(T) \in T /\ \A y \in T : y <= Max(T)
  <1> DEFINE D == {d \in Nat : \E x \in T : d = n - x}
  <1>1. \A x \in T : n - x \in Nat /\ x \in Nat
    OBVIOUS
  <1>2. D \subseteq Nat /\ D # {}
    BY <1>1
  <1>3. PICK m \in D : \A d \in D : m <= d
    BY <1>2, SmallestExists
  <1>4. PICK x \in T : m = n - x
    OBVIOUS
  <1>5. ASSUME NEW y \in T
        PROVE  x >= y
    <2>1. n - y \in D
      BY <1>1
    <2>2. n - x <= n - y
      BY <1>3, <1>4, <2>1
    <2> QED BY <1>1, <2>2
  <1>6. \E z \in T : \A y \in T : z >= y
    BY <1>5
  <1>7. Max(T) \in T /\ \A y \in T : Max(T) >= y
    BY <1>6, Zenon DEF Max
  <1> QED BY <1>1, <1>7

\* A finite set of natural numbers that is not empty has a maximum.
LEMMA FiniteMaxFacts ==
    ASSUME NEW T, T \subseteq Nat, T # {}, IsFiniteSet(T)
    PROVE  Max(T) \in T /\ \A y \in T : y <= Max(T)
  <1> DEFINE above(y) == {z \in T : z > y}
             D == {Cardinality(above(y)) : y \in T}
  <1>1. ASSUME NEW y \in T
        PROVE  IsFiniteSet(above(y)) /\ Cardinality(above(y)) \in Nat
    BY FS_Subset, FS_CardinalityType
  <1>2. PICK y \in T : \A z \in T : Cardinality(above(y)) <= Cardinality(above(z))
    <2>1. D \subseteq Nat /\ D # {}
      BY <1>1
    <2>2. PICK d \in D : \A e \in D : d <= e
      BY <2>1, SmallestExists
    <2> QED BY <2>2
  <1>3. ASSUME NEW z \in T, z > y
        PROVE  FALSE
    <2>0. y \in Nat /\ z \in Nat /\ \A w \in T : w \in Nat
      OBVIOUS
    <2>1. above(z) \in SUBSET above(y) /\ z \in above(y) /\ z \notin above(z)
      <3>1. ASSUME NEW w \in T, w > z
            PROVE  w > y
        BY <1>3, <2>0, <3>1
      <3>2. ~(z > z)
        BY <2>0
      <3> QED BY <1>3, <3>1, <3>2
    <2>2. Cardinality(above(z)) <= Cardinality(above(y)) /\ Cardinality(above(z)) # Cardinality(above(y))
      BY <1>1, <2>1, FS_Subset
    <2> HIDE DEF above
    <2> QED BY <1>1, <1>2, <2>2
  <1>4. \A z \in T : y >= z
    BY <1>3
  <1>5. Max(T) \in T /\ \A z \in T : Max(T) >= z
    BY <1>4, Zenon DEF Max
  <1> QED BY <1>5

\* A function on the first n positions is a sequence of length n.
LEMMA SeqOfFunction ==
    ASSUME NEW S, NEW n \in Nat, NEW f \in [1..n -> S]
    PROVE  f \in Seq(S) /\ Len(f) = n
  <1>1. f \in Seq(S)
    OBVIOUS
  <1> QED BY <1>1

\* A part of a finite set is no larger.
LEMMA CardinalityGrows ==
    ASSUME NEW S, NEW T, IsFiniteSet(T), S \subseteq T
    PROVE  Cardinality(S) \in Nat /\ Cardinality(T) \in Nat /\ Cardinality(S) <= Cardinality(T)
  BY FS_Subset, FS_CardinalityType

\* A function takes finitely many values on a finite set.
LEMMA FiniteImage ==
    ASSUME NEW S, IsFiniteSet(S), NEW f
    PROVE  IsFiniteSet({f[x] : x \in S})
  <1> DEFINE T == {f[x] : x \in S}
             g == [x \in S |-> f[x]]
  <1>1. g \in [S -> T] /\ \A y \in T : \E x \in S : g[x] = y
    OBVIOUS
  <1>2. g \in Surjection(S, T)
    BY <1>1 DEF Surjection
  <1> QED BY <1>2, FS_Surjection

\* R is a strict order of all members of S.
Orders(R, S) ==
    /\ \A i \in S : <<i, i>> \notin R
    /\ \A i, j \in S : i # j => <<i, j>> \in R \/ <<j, i>> \in R
    /\ \A i, j, k \in S : <<i, j>> \in R /\ <<j, k>> \in R => <<i, k>> \in R

\* The members before i.
Predecessors(S, R, i) == {j \in S : <<j, i>> \in R}

\* Members of S have different numbers of members before them, in the order
\* of R, and all numbers below the size of S occur.
LEMMA RankFacts ==
    ASSUME NEW S, NEW R, IsFiniteSet(S), Orders(R, S)
    PROVE  /\ \A i \in S : Cardinality(Predecessors(S, R, i)) \in 0..(Cardinality(S) - 1)
           /\ \A i, j \in S : <<i, j>> \in R <=>
                 Cardinality(Predecessors(S, R, i)) < Cardinality(Predecessors(S, R, j))
           /\ \A k \in 1..Cardinality(S) : \E i \in S : Cardinality(Predecessors(S, R, i)) = k - 1
  <1> DEFINE n == Cardinality(S)
             c(i) == Cardinality(Predecessors(S, R, i))
  <1>0. n \in Nat
    BY FS_CardinalityType
  <1>1. ASSUME NEW i \in S
        PROVE  /\ Predecessors(S, R, i) \in SUBSET S /\ IsFiniteSet(Predecessors(S, R, i))
               /\ c(i) \in Nat /\ c(i) <= n - 1
    <2>1. Predecessors(S, R, i) \in SUBSET S /\ i \notin Predecessors(S, R, i)
      BY DEF Predecessors, Orders
    <2>2. IsFiniteSet(Predecessors(S, R, i)) /\ c(i) <= n /\ (n = c(i) => S = Predecessors(S, R, i))
      BY <2>1, FS_Subset
    <2>3. c(i) \in Nat
      BY <2>2, FS_CardinalityType
    <2>4. c(i) # n
      BY <2>1, <2>2
    <2> QED BY <1>0, <2>1, <2>2, <2>3, <2>4
  <1>2. ASSUME NEW i \in S, NEW j \in S, <<i, j>> \in R
        PROVE  c(i) < c(j)
    <2>1. Predecessors(S, R, i) \in SUBSET Predecessors(S, R, j)
      BY <1>2 DEF Predecessors, Orders
    <2>2. i \in Predecessors(S, R, j) /\ i \notin Predecessors(S, R, i)
      BY <1>2 DEF Predecessors, Orders
    <2>3. c(i) <= c(j) /\ (c(j) = c(i) => Predecessors(S, R, j) = Predecessors(S, R, i))
      BY <1>1, <2>1, FS_Subset
    <2>4. c(i) # c(j)
      BY <2>2, <2>3
    <2> QED BY <1>1, <2>3, <2>4
  <1>3. ASSUME NEW i \in S, NEW j \in S, c(i) < c(j)
        PROVE  <<i, j>> \in R
    <2>1. i # j /\ ~(c(j) < c(i))
      BY <1>1, <1>3
    <2>2. <<j, i>> \notin R
      BY <1>2, <2>1
    <2> QED BY <2>1, <2>2 DEF Orders
  <1>4. ASSUME NEW k \in 1..n
        PROVE  \E i \in S : c(i) = k - 1
    <2> DEFINE f == [i \in S |-> c(i) + 1]
    <2>1. f \in Injection(S, 1..n)
      <3>1. f \in [S -> 1..n]
        BY <1>0, <1>1
      <3>2. ASSUME NEW i \in S, NEW j \in S, f[i] = f[j]
            PROVE  i = j
        <4>1. c(i) = c(j)
          BY <1>1, <3>2
        <4>2. ~(c(i) < c(j)) /\ ~(c(j) < c(i))
          BY <1>1, <4>1
        <4> QED BY <1>2, <4>2 DEF Orders
      <3> QED BY <3>1, <3>2 DEF Injection, IsInjective
    <2>2. IsFiniteSet(1..n) /\ Cardinality(1..n) = n
      BY <1>0, FS_Interval
    <2>3. f \in Surjection(S, 1..n)
      BY <2>1, <2>2, FS_Injection
    <2>4. PICK i \in S : f[i] = k
      BY <2>3 DEF Surjection
    <2> QED BY <1>1, <2>4
  <1> HIDE DEF c
  <1>5. \A i \in S : c(i) \in 0..(n - 1)
    BY <1>0, <1>1
  <1>6. \A i, j \in S : <<i, j>> \in R <=> c(i) < c(j)
    BY <1>2, <1>3
  <1> QED BY <1>4, <1>5, <1>6 DEF c

\* Arranged lists the members of S in the order of R, each once.
LEMMA ArrangedFacts ==
    ASSUME NEW S, NEW R, IsFiniteSet(S), Orders(R, S)
    PROVE  /\ Cardinality(S) \in Nat
           /\ Arranged(S, R) \in [1..Cardinality(S) -> S]
           /\ \A i \in S : \E k \in 1..Cardinality(S) : Arranged(S, R)[k] = i
           /\ \A k, l \in 1..Cardinality(S) : k < l <=> <<Arranged(S, R)[k], Arranged(S, R)[l]>> \in R
           /\ \A k \in 1..Cardinality(S) :
                 Cardinality(Predecessors(S, R, Arranged(S, R)[k])) = k - 1
  <1> DEFINE n == Cardinality(S)
             c(i) == Cardinality(Predecessors(S, R, i))
             a == Arranged(S, R)
  <1>0. n \in Nat
    BY FS_CardinalityType
  <1>1. /\ \A i \in S : c(i) \in 0..(n - 1)
        /\ \A i, j \in S : <<i, j>> \in R <=> c(i) < c(j)
        /\ \A k \in 1..n : \E i \in S : c(i) = k - 1
    BY RankFacts
  <1>2. a = [k \in 1..n |-> CHOOSE i \in S : c(i) = k - 1]
    BY DEF Arranged, Predecessors
  <1> HIDE DEF c, a, n
  <1>3. ASSUME NEW k \in 1..n
        PROVE  a[k] \in S /\ c(a[k]) = k - 1
    BY <1>1, <1>2
  <1>4. a \in [1..n -> S]
    BY <1>2, <1>3
  <1>5. ASSUME NEW i \in S
        PROVE  \E k \in 1..n : a[k] = i
    <2>1. c(i) + 1 \in 1..n /\ (c(i) + 1) - 1 = c(i)
      BY <1>0, <1>1
    <2>2. a[c(i) + 1] \in S /\ c(a[c(i) + 1]) = c(i)
      BY <1>3, <2>1
    <2>3. ~(c(i) < c(i))
      BY <1>0, <1>1
    <2>4. <<i, a[c(i) + 1]>> \notin R /\ <<a[c(i) + 1], i>> \notin R
      BY <1>1, <2>2, <2>3
    <2>5. a[c(i) + 1] = i
      BY <2>2, <2>4 DEF Orders
    <2> QED BY <2>1, <2>5
  <1>6. ASSUME NEW k \in 1..n, NEW l \in 1..n
        PROVE  k < l <=> <<a[k], a[l]>> \in R
    <2>1. <<a[k], a[l]>> \in R <=> k - 1 < l - 1
      BY <1>1, <1>3
    <2> QED BY <1>0, <2>1
  <1> QED BY <1>0, <1>3, <1>4, <1>5, <1>6 DEF n, a, c

\* There is only one such list.
LEMMA ArrangedUnique ==
    ASSUME NEW S, NEW R, IsFiniteSet(S), Orders(R, S),
           NEW n \in Nat, NEW s \in [1..n -> S],
           \A i \in S : \E k \in 1..n : s[k] = i,
           \A k, l \in 1..n : k < l => <<s[k], s[l]>> \in R
    PROVE  n = Cardinality(S) /\ s = Arranged(S, R)
  <1> DEFINE c(i) == Cardinality(Predecessors(S, R, i))
  <1>1. ASSUME NEW k \in 1..n, NEW l \in 1..n, s[k] = s[l]
        PROVE  k = l
    <2>1. <<s[k], s[l]>> \notin R /\ <<s[l], s[k]>> \notin R
      BY <1>1 DEF Orders
    <2> QED BY <2>1
  <1>2. n = Cardinality(S)
    <2>1. s \in Bijection(1..n, S)
      BY <1>1 DEF Bijection, Injection, Surjection, IsInjective
    <2> QED BY <2>1, FS_CountingElements DEF ExistsBijection
  <1>3. ASSUME NEW k \in 1..n
        PROVE  c(s[k]) = k - 1
    <2> DEFINE P == Predecessors(S, R, s[k])
               t == [l \in 1..(k - 1) |-> s[l]]
    <2>1. k - 1 \in Nat /\ \A l \in 1..(k - 1) : l \in 1..n /\ l < k
      OBVIOUS
    <2>2. ASSUME NEW i \in P
          PROVE  \E l \in 1..(k - 1) : s[l] = i
      <3>1. PICK l \in 1..n : s[l] = i
        BY DEF Predecessors
      <3>2. <<s[l], s[k]>> \in R /\ <<s[k], s[l]>> \notin R /\ l # k
        BY <3>1 DEF Predecessors, Orders
      <3>3. ~(k < l)
        BY <3>2
      <3> QED BY <3>1, <3>2, <3>3
    <2>3. t \in Bijection(1..(k - 1), P)
      <3>1. t \in [1..(k - 1) -> P]
        BY <2>1 DEF Predecessors
      <3> QED BY <1>1, <2>1, <2>2, <3>1 DEF Bijection, Injection, Surjection, IsInjective
    <2> QED BY <2>1, <2>3, FS_CountingElements DEF ExistsBijection
  <1>4. ASSUME NEW k \in 1..n
        PROVE  s[k] = Arranged(S, R)[k]
    <2> DEFINE i == Arranged(S, R)[k]
    <2>1. i \in S /\ c(i) = k - 1
      BY <1>2, ArrangedFacts
    <2>2. /\ <<i, s[k]>> \in R <=> c(i) < c(s[k])
          /\ <<s[k], i>> \in R <=> c(s[k]) < c(i)
      BY <2>1, RankFacts
    <2> HIDE DEF i, c
    <2>3. <<i, s[k]>> \notin R /\ <<s[k], i>> \notin R
      BY <1>3, <2>1, <2>2
    <2> QED BY <2>1, <2>3 DEF Orders, i
  <1>5. Arranged(S, R) \in [1..n -> S]
    BY <1>2, ArrangedFacts
  <1> QED BY <1>2, <1>4, <1>5

\* The order of positions.
LEMMA UpwardsOrders ==
    ASSUME NEW S, S \subseteq Nat
    PROVE  Orders(Upwards(S), S) /\ \A i, j \in S : <<i, j>> \in Upwards(S) <=> i < j
  BY DEF Orders, Upwards
-----------------------------------------------------------------------------
\* g holds the sums of the first members of s.
SumsUp(g, s) ==
    /\ g \in [0..Len(s) -> Nat]
    /\ g[0] = 0
    /\ \A n \in 1..Len(s) : g[n] = g[n - 1] + s[n]

\* The function that Total is defined by exists.
LEMMA SumsExist ==
    ASSUME NEW s \in Seq(Nat)
    PROVE  \E g : SumsUp(g, s)
  <1> DEFINE upTo(m, g) == /\ g \in [0..m -> Nat]
                           /\ g[0] = 0
                           /\ \A n \in 1..m : g[n] = g[n - 1] + s[n]
             T == {m \in 0..Len(s) : ~ \E g : upTo(m, g)}
  <1>0. Len(s) \in Nat /\ \A n \in 1..Len(s) : s[n] \in Nat
    BY LenProperties, ElementOfSeq
  <1>1. CASE T # {}
    <2>1. PICK m \in T : \A x \in T : m <= x
      <3>1. T \subseteq Nat
        BY <1>0
      <3> HIDE DEF T
      <3> QED BY <1>1, <3>1, SmallestExists
    <2>2. m \in Nat /\ m <= Len(s) /\ ~ \E g : upTo(m, g)
      BY <1>0, SMTT(30)
    <2>3. m # 0
      <3>1. upTo(0, [n \in 0..0 |-> 0])
        OBVIOUS
      <3> HIDE DEF upTo
      <3> QED BY <2>2, <3>1
    <2>4. m - 1 \in 0..Len(s) /\ m - 1 \notin T
      <3>1. m - 1 \in 0..Len(s) /\ ~(m <= m - 1)
        BY <1>0, <2>2, <2>3
      <3> HIDE DEF T
      <3> QED BY <2>1, <3>1
    <2>5. PICK g : upTo(m - 1, g)
      BY <2>4
    <2> DEFINE h == [n \in 0..m |-> IF n = m THEN g[m - 1] + s[m] ELSE g[n]]
    <2>6. h \in [0..m -> Nat]
      <3>1. g[m - 1] + s[m] \in Nat
        BY <1>0, <2>2, <2>3, <2>5
      <3>2. \A n \in 0..m : n # m => g[n] \in Nat
        BY <2>2, <2>3, <2>5
      <3> QED BY <3>1, <3>2
    <2>7. h[0] = 0
      BY <2>2, <2>3, <2>5
    <2>8. ASSUME NEW n \in 1..m
          PROVE  h[n] = h[n - 1] + s[n]
      <3>1. CASE n = m
        BY <2>2, <2>3, <3>1
      <3>2. CASE n # m
        BY <2>2, <2>5, <3>2
      <3> QED BY <3>1, <3>2
    <2>9. upTo(m, h)
      BY <2>6, <2>7, <2>8
    <2> HIDE DEF upTo, h
    <2> QED BY <2>2, <2>9
  <1>2. CASE T = {}
    <2>1. Len(s) \in 0..Len(s)
      BY <1>0
    <2>2. \E g : upTo(Len(s), g)
      BY <1>2, <2>1
    <2> QED BY <2>2 DEF SumsUp
  <1> QED BY <1>1, <1>2

\* Sums of a sequence and of one that goes on agree where both are defined.
LEMMA SumsAgree ==
    ASSUME NEW s \in Seq(Nat), NEW t \in Seq(Nat), NEW g, NEW h, SumsUp(g, s), SumsUp(h, t),
           Len(s) <= Len(t), \A n \in 1..Len(s) : s[n] = t[n]
    PROVE  \A n \in 0..Len(s) : g[n] = h[n]
  <1> DEFINE T == {n \in 0..Len(s) : g[n] # h[n]}
  <1>0. Len(s) \in Nat /\ Len(t) \in Nat
    BY LenProperties
  <1>1. SUFFICES ASSUME T # {} PROVE FALSE
    OBVIOUS
  <1>2. PICK m \in T : \A x \in T : m <= x
    <2>1. T \subseteq Nat
      BY <1>0
    <2> HIDE DEF T
    <2> QED BY <1>1, <2>1, SmallestExists
  <1>3. m \in 0..Len(s) /\ g[m] # h[m]
    OBVIOUS
  <1>4. m # 0
    BY <1>3 DEF SumsUp
  <1>5. m - 1 \in 0..Len(s) /\ m \in 1..Len(s) /\ m \in 1..Len(t) /\ ~(m <= m - 1)
    BY <1>0, <1>3, <1>4
  <1>6. g[m - 1] = h[m - 1]
    BY <1>2, <1>5
  <1> QED BY <1>3, <1>5, <1>6 DEF SumsUp

\* Total is the last of the sums.
LEMMA TotalIsLast ==
    ASSUME NEW s \in Seq(Nat), NEW g, SumsUp(g, s)
    PROVE  Total(s) = g[Len(s)]
  <1> DEFINE step(f) == [n \in 0..Len(s) |-> IF n = 0 THEN 0 ELSE f[n - 1] + s[n]]
             u == CHOOSE f : f = step(f)
  <1>0. Len(s) \in Nat
    BY LenProperties
  <1>1. g = step(g)
    BY <1>0 DEF SumsUp
  <1>2. u = step(u)
    BY <1>1, Zenon
  <1>3. Total(s) = u[Len(s)]
    BY DEF Total
  <1> HIDE DEF u
  <1>4. u[0] = 0 /\ \A n \in 1..Len(s) : u[n] = u[n - 1] + s[n]
    BY <1>0, <1>2
  <1> DEFINE T == {n \in 0..Len(s) : g[n] # u[n]}
  <1>5. CASE T # {}
    <2>1. T \subseteq Nat
      BY <1>0
    <2> HIDE DEF T
    <2>2. PICK m \in T : \A x \in T : m <= x
      BY <1>5, <2>1, SmallestExists
    <2> USE DEF T
    <2>3. m \in 0..Len(s) /\ g[m] # u[m] /\ m # 0
      BY <1>4 DEF SumsUp
    <2>4. m - 1 \in 0..Len(s) /\ m \in 1..Len(s) /\ ~(m <= m - 1)
      BY <1>0, <2>3
    <2>5. g[m - 1] = u[m - 1]
      BY <2>2, <2>4
    <2> QED BY <1>4, <2>3, <2>4, <2>5 DEF SumsUp
  <1>6. CASE T = {}
    BY <1>0, <1>3, <1>6
  <1> QED BY <1>5, <1>6

\* A sum is a number, and grows by what is appended.
LEMMA TotalFacts ==
    ASSUME NEW s \in Seq(Nat), NEW x \in Nat
    PROVE  Total(s) \in Nat /\ Total(Append(s, x)) = Total(s) + x
  <1> DEFINE t == Append(s, x)
  <1>1. /\ t \in Seq(Nat) /\ Len(t) = Len(s) + 1 /\ Len(s) \in Nat
        /\ t[Len(t)] = x /\ \A n \in 1..Len(s) : t[n] = s[n]
    BY AppendProperties, LenProperties
  <1> HIDE DEF t
  <1>2. PICK g : SumsUp(g, s)
    BY SumsExist
  <1>3. PICK h : SumsUp(h, t)
    BY <1>1, SumsExist
  <1>4. Total(s) = g[Len(s)] /\ Total(t) = h[Len(t)]
    BY <1>1, <1>2, <1>3, TotalIsLast
  <1>5. g[Len(s)] = h[Len(s)]
    BY <1>1, <1>2, <1>3, SumsAgree
  <1>6. g[Len(s)] \in Nat /\ h[Len(t)] = h[Len(s)] + x
    <2>1. Len(s) \in 0..Len(s) /\ Len(t) \in 1..Len(t) /\ Len(t) - 1 = Len(s)
      BY <1>1
    <2>2. g[Len(s)] \in Nat
      BY <1>2, <2>1 DEF SumsUp
    <2>3. h[Len(t)] = h[Len(t) - 1] + t[Len(t)]
      BY <1>3, <2>1 DEF SumsUp
    <2> QED BY <1>1, <2>1, <2>2, <2>3
  <1> QED BY <1>4, <1>5, <1>6 DEF t

\* A sum grows with what is added up.
LEMMA TotalGrows ==
    ASSUME NEW s \in Seq(Nat), NEW t \in Seq(Nat), Len(s) = Len(t),
           \A n \in 1..Len(s) : s[n] <= t[n]
    PROVE  Total(s) \in Nat /\ Total(t) \in Nat /\ Total(s) <= Total(t)
  <1>0. /\ Len(s) \in Nat
        /\ \A n \in 1..Len(s) : s[n] \in Nat /\ t[n] \in Nat
    BY LenProperties, ElementOfSeq
  <1>1. PICK g : SumsUp(g, s)
    BY SumsExist
  <1>2. PICK h : SumsUp(h, t)
    BY SumsExist
  <1>3. Total(s) = g[Len(s)] /\ Total(t) = h[Len(s)]
    BY <1>1, <1>2, TotalIsLast
  <1>4. \A n \in 0..Len(s) : g[n] \in Nat /\ h[n] \in Nat
    BY <1>1, <1>2 DEF SumsUp
  <1> DEFINE T == {n \in 0..Len(s) : ~(g[n] <= h[n])}
  <1>5. CASE T # {}
    <2>1. T \subseteq Nat
      BY <1>0
    <2> HIDE DEF T
    <2>2. PICK m \in T : \A x \in T : m <= x
      BY <1>5, <2>1, SmallestExists
    <2> USE DEF T
    <2>3. m \in 0..Len(s) /\ ~(g[m] <= h[m]) /\ m # 0
      BY <1>1, <1>2 DEF SumsUp
    <2>4. m - 1 \in 0..Len(s) /\ m \in 1..Len(s) /\ ~(m <= m - 1)
      BY <1>0, <2>3
    <2>5. g[m - 1] <= h[m - 1]
      BY <2>2, <2>4
    <2>6. g[m] = g[m - 1] + s[m] /\ h[m] = h[m - 1] + t[m]
      BY <1>1, <1>2, <2>4 DEF SumsUp
    <2>7. /\ g[m - 1] \in Nat /\ h[m - 1] \in Nat
          /\ s[m] \in Nat /\ t[m] \in Nat /\ s[m] <= t[m]
      BY <1>0, <1>4, <2>4
    <2> QED BY <2>3, <2>5, <2>6, <2>7
  <1>6. CASE T = {}
    <2>1. Len(s) \in 0..Len(s)
      BY <1>0
    <2> QED BY <1>3, <1>4, <1>6, <2>1
  <1> QED BY <1>5, <1>6
-----------------------------------------------------------------------------
\* Products and quotients grow with what is multiplied or divided.
LEMMA ProductGrows ==
    ASSUME NEW x \in Nat, NEW y \in Nat, NEW w \in Nat, x <= y
    PROVE  x * w \in Nat /\ y * w \in Nat /\ x * w <= y * w
  <1>1. y * w = x * w + (y - x) * w
    OBVIOUS
  <1>2. (y - x) * w >= 0
    OBVIOUS
  <1> QED BY <1>1, <1>2

\* The same for quotients.
LEMMA QuotientGrows ==
    ASSUME NEW x \in Nat, NEW y \in Nat, NEW w \in Nat \ {0}, x <= y
    PROVE  x \div w \in Nat /\ y \div w \in Nat /\ x \div w <= y \div w
  OBVIOUS
-----------------------------------------------------------------------------
\* Going up: what holds of a number whenever it holds of those below it, from a
\* on, holds of all of a..b.  P is the set of the numbers it holds of.
LEMMA GoingUp ==
    ASSUME NEW a \in Int, NEW b \in Int, NEW P,
           \A k \in a..b : (\A j \in a..(k - 1) : j \in P) => k \in P
    PROVE  \A k \in a..b : k \in P
  <1> DEFINE T == {d \in Nat : a + d <= b /\ a + d \notin P}
  <1>1. CASE T # {}
    <2>1. T \subseteq Nat
      OBVIOUS
    <2> HIDE DEF T
    <2>2. PICK d \in T : \A e \in T : d <= e
      BY <1>1, <2>1, SmallestExists
    <2> USE DEF T
    <2>3. d \in Nat /\ a + d \in a..b /\ a + d \notin P
      OBVIOUS
    <2>4. ASSUME NEW j \in a..(a + d - 1)
          PROVE  j \in P
      <3>1. j - a \in Nat /\ a + (j - a) = j /\ j <= b /\ ~(d <= j - a)
        BY <2>3
      <3> QED BY <2>2, <3>1
    <2> QED BY <2>3, <2>4
  <1>2. CASE T = {}
    <2>1. ASSUME NEW k \in a..b
          PROVE  k \in P
      <3>1. k - a \in Nat /\ a + (k - a) = k /\ k <= b
        OBVIOUS
      <3> QED BY <1>2, <3>1
    <2> QED BY <2>1
  <1> QED BY <1>1, <1>2

\* Going down, from b.
LEMMA GoingDown ==
    ASSUME NEW a \in Int, NEW b \in Int, NEW P,
           \A k \in a..b : (\A j \in (k + 1)..b : j \in P) => k \in P
    PROVE  \A k \in a..b : k \in P
  <1> DEFINE Q == {k \in Int : a + b - k \in P}
  <1>1. ASSUME NEW k \in a..b, \A j \in a..(k - 1) : j \in Q
        PROVE  k \in Q
    <2>1. a + b - k \in a..b
      OBVIOUS
    <2>2. ASSUME NEW j \in (a + b - k + 1)..b
          PROVE  j \in P
      <3>1. a + b - j \in a..(k - 1) /\ a + b - (a + b - j) = j
        OBVIOUS
      <3> QED BY <1>1, <3>1
    <2> QED BY <2>1, <2>2
  <1> HIDE DEF Q
  <1>2. \A k \in a..b : k \in Q
    BY <1>1, GoingUp
  <1>3. ASSUME NEW k \in a..b
        PROVE  k \in P
    <2>1. a + b - k \in a..b /\ a + b - (a + b - k) = k
      OBVIOUS
    <2>2. a + b - k \in Q
      BY <1>2, <2>1
    <2> QED BY <2>1, <2>2 DEF Q
  <1> QED BY <1>3
=============================================================================
