------------------------------ MODULE DataLemmas ------------------------------
(***************************************************************************)
(* Facts about sets of numbers, sums and lists that the proofs of several    *)
(* components rest on.                                                      *)
(***************************************************************************)
EXTENDS Integers, Sequences, FiniteSets, Sums, FiniteSetTheorems, WellFoundedInduction, TLAPS

-----------------------------------------------------------------------------
(* Finite sets of numbers *)

\* One of them is the least: fewest are below it.  One is the greatest likewise.
LEMMA Extremes ==
  ASSUME NEW S \in SUBSET Nat, IsFiniteSet(S), S # {}
  PROVE  (\E m \in S : \A n \in S : m <= n) /\ (\E m \in S : \A n \in S : n <= m)
<1> DEFINE Below(x) == {y \in S : y < x}
           Above(x) == {y \in S : y > x}
           R == StrictSubsetOrdering(S)
<1>1. IsWellFoundedOn(R, FiniteSubsetsOf(S))
  BY FS_StrictSubsetOrderingWellFounded
<1>2. \A T, U \in SUBSET S : T \subseteq U /\ T # U => <<T, U>> \in R
  BY DEF StrictSubsetOrdering
<1>3. \A T \in SUBSET S : T \in FiniteSubsetsOf(S)
  BY FS_Subset DEF FiniteSubsetsOf
<1>4. PICK m \in S : \A n \in S : ~(<<Below(n), Below(m)>> \in R)
  <2> DEFINE Ts == {Below(n) : n \in S}
  <2>1. Ts \subseteq FiniteSubsetsOf(S) /\ Ts # {}
    BY <1>3
  <2>2. PICK T \in Ts : \A U \in Ts : ~(<<U, T>> \in R)
    <3> HIDE DEF Ts, R
    <3> QED BY <1>1, <2>1, WFMin
  <2> QED BY <2>2
<1>5. PICK k \in S : \A n \in S : ~(<<Above(n), Above(k)>> \in R)
  <2> DEFINE Ts == {Above(n) : n \in S}
  <2>1. Ts \subseteq FiniteSubsetsOf(S) /\ Ts # {}
    BY <1>3
  <2>2. PICK T \in Ts : \A U \in Ts : ~(<<U, T>> \in R)
    <3> HIDE DEF Ts, R
    <3> QED BY <1>1, <2>1, WFMin
  <2> QED BY <2>2
<1> HIDE DEF R
<1>n. m \in Nat /\ k \in Nat /\ \A n \in S : n \in Nat
  BY <1>4, <1>5
<1>6. ASSUME NEW n \in S, n < m PROVE FALSE
  <2>a. ASSUME NEW y \in Below(n) PROVE y \in Below(m)
    BY <1>4, <1>6, <1>n
  <2>b. n \in Below(m) /\ n \notin Below(n)
    BY <1>6, <1>n
  <2>1. Below(n) \subseteq Below(m) /\ n \in Below(m) /\ n \notin Below(n)
    <3> HIDE DEF Below
    <3> QED BY <2>a, <2>b
  <2>2. Below(n) \in SUBSET S /\ Below(m) \in SUBSET S /\ Below(n) # Below(m)
    BY <2>1
  <2> QED BY <1>2, <1>4, <2>1, <2>2
<1>7. ASSUME NEW n \in S, n > k PROVE FALSE
  <2>a. ASSUME NEW y \in Above(n) PROVE y \in Above(k)
    BY <1>5, <1>7, <1>n
  <2>b. n \in Above(k) /\ n \notin Above(n)
    BY <1>7, <1>n
  <2>1. Above(n) \subseteq Above(k) /\ n \in Above(k) /\ n \notin Above(n)
    <3> HIDE DEF Above
    <3> QED BY <2>a, <2>b
  <2>2. Above(n) \in SUBSET S /\ Above(k) \in SUBSET S /\ Above(n) # Above(k)
    BY <2>1
  <2> QED BY <1>2, <1>5, <2>1, <2>2
<1>8. (\A n \in S : m <= n) /\ (\A n \in S : n <= k)
  BY <1>6, <1>7
<1> QED BY <1>8

-----------------------------------------------------------------------------
(* Sums *)

LEMMA UnitMembers ==
  ASSUME NEW f, NEW u
  PROVE  u \in Units(f) <=> \E x \in DOMAIN f : \E n \in 1..f[x] : u = <<x, n>>
BY DEF Units

\* The units of x after its first a.
Column(x, a, n) == {x} \X (a+1..a+n)

LEMMA ColumnCounts ==
  ASSUME NEW x, NEW a \in Nat, NEW n \in Nat
  PROVE  IsFiniteSet(Column(x, a, n)) /\ Cardinality(Column(x, a, n)) = n
<1> DEFINE I == a+1..a+n
           T == {x} \X I
           g == [i \in I |-> <<x, i>>]
<1>1. IsFiniteSet(I) /\ Cardinality(I) = n
  BY FS_Interval
<1>2. g \in [I -> T] /\ (\A i \in I : g[i] = <<x, i>>)
  OBVIOUS
<1>3. \A i, j \in I : g[i] = g[j] => i = j
  BY <1>2
<1>4. \A t \in T : \E i \in I : g[i] = t
  BY <1>2
<1>5. g \in Bijection(I, T)
  <2> HIDE DEF g, I, T
  <2> QED BY <1>2, <1>3, <1>4 DEF Bijection, Injection, Surjection, IsInjective
<1> HIDE DEF I, T, g
<1> QED BY <1>1, <1>5, FS_Bijection DEF ExistsBijection, T, I, Column

\* A number that grows by n, or a new one, adds n to the sum.
LEMMA SumGrows ==
  ASSUME NEW S, NEW x, NEW n \in Nat, NEW f \in [S -> Nat],
         NEW g \in [S \union {x} -> Nat],
         g[x] = (IF x \in S THEN f[x] ELSE 0) + n,
         \A y \in S : y # x => g[y] = f[y],
         IsFiniteSet(Units(f))
  PROVE  IsFiniteSet(Units(g)) /\ SumOf(g) = SumOf(f) + n /\ SumOf(f) \in Nat
<1> DEFINE a == IF x \in S THEN f[x] ELSE 0
           C == Column(x, a, n)
<1>0. a \in Nat /\ g[x] = a + n
  OBVIOUS
<1>m. \A u : u \in C <=> \E j \in a+1..a+n : u = <<x, j>>
  BY DEF Column
<1> HIDE DEF a
<1>1. IsFiniteSet(C) /\ Cardinality(C) = n
  BY <1>0, ColumnCounts
<1> HIDE DEF C
<1> USE DEF a
<1>2. Units(f) \intersect C = {}
  <2> SUFFICES ASSUME NEW u, u \in Units(f), u \in C PROVE FALSE
    OBVIOUS
  <2>1. PICK y \in DOMAIN f : \E i \in 1..f[y] : u = <<y, i>>
    BY UnitMembers
  <2>2. PICK i \in 1..f[y] : u = <<y, i>>
    BY <2>1
  <2>3. PICK j \in a+1..a+n : u = <<x, j>>
    BY <1>m
  <2>4. y = x /\ i = j /\ x \in S /\ f[x] \in Nat
    BY <2>2, <2>3
  <2> QED BY <2>2, <2>3, <2>4
<1>3. Units(g) = Units(f) \union C
  <2>1. ASSUME NEW u, u \in Units(g) PROVE u \in Units(f) \union C
    <3>1. PICK y \in S \union {x} : \E i \in 1..g[y] : u = <<y, i>>
      BY <2>1, UnitMembers
    <3>2. PICK i \in 1..g[y] : u = <<y, i>>
      BY <3>1
    <3>3. CASE y # x
      <4>1. y \in S /\ i \in 1..f[y]
        BY <3>2, <3>3
      <4> QED BY <3>2, <4>1, UnitMembers
    <3>4. CASE y = x /\ i > a
      <4>1. i \in a+1..a+n
        BY <3>2, <3>4, <1>0
      <4> HIDE DEF a
      <4> QED BY <3>2, <3>4, <4>1, <1>m
    <3>5. CASE y = x /\ i <= a
      <4>1. x \in S /\ i \in 1..f[x]
        BY <3>2, <3>5, <1>0
      <4> QED BY <3>2, <3>5, <4>1, UnitMembers
    <3>6. i > a \/ i <= a
      BY <3>2, <1>0
    <3> QED BY <3>3, <3>4, <3>5, <3>6
  <2>2. ASSUME NEW u, u \in Units(f) PROVE u \in Units(g)
    <3>1. PICK y \in S : \E i \in 1..f[y] : u = <<y, i>>
      BY <2>2, UnitMembers
    <3>2. PICK i \in 1..f[y] : u = <<y, i>>
      BY <3>1
    <3>3. i \in 1..g[y]
      BY <3>2, <1>0
    <3> QED BY <3>2, <3>3, UnitMembers
  <2>3. ASSUME NEW u, u \in C PROVE u \in Units(g)
    <3>1. PICK j \in a+1..a+n : u = <<x, j>>
      BY <2>3, <1>m
    <3>2. j \in 1..g[x]
      BY <3>1, <1>0
    <3> QED BY <3>1, <3>2, UnitMembers
  <2> HIDE DEF C
  <2> QED BY <2>1, <2>2, <2>3
<1> HIDE DEF C, a
<1>4. Cardinality(Units(f)) \in Nat
  BY FS_CardinalityType
<1>5. /\ IsFiniteSet(Units(f) \union C)
      /\ Cardinality(Units(f) \union C) = Cardinality(Units(f)) + Cardinality(C) - Cardinality(Units(f) \intersect C)
  BY <1>1, FS_Union
<1>6. Cardinality(Units(f) \intersect C) = 0
  BY <1>2, FS_EmptySet
<1>7. Cardinality(Units(f) \union C) = Cardinality(Units(f)) + n
  BY <1>1, <1>4, <1>5, <1>6
<1> QED BY <1>3, <1>4, <1>5, <1>7 DEF SumOf

\* No number is more than the sum.
LEMMA SumBounds ==
  ASSUME NEW S, NEW f \in [S -> Nat], NEW x \in S, IsFiniteSet(Units(f))
  PROVE  f[x] <= SumOf(f) /\ SumOf(f) \in Nat
<1>1. PICK k \in Nat, a \in Nat : k = f[x] /\ a = 0
  OBVIOUS
<1> DEFINE C == Column(x, a, k)
<1>2. C \subseteq Units(f)
  <2> SUFFICES ASSUME NEW i \in a+1..a+k PROVE <<x, i>> \in Units(f)
    BY DEF Column
  <2>1. i \in 1..f[x]
    BY <1>1
  <2> QED BY <2>1, UnitMembers
<1>3. Cardinality(C) = k
  BY ColumnCounts
<1> HIDE DEF C
<1>4. Cardinality(C) <= Cardinality(Units(f))
  BY <1>2, FS_Subset
<1> QED BY <1>1, <1>3, <1>4, FS_CardinalityType DEF SumOf

\* Zeros add up to zero.
LEMMA SumOfNothing ==
  ASSUME NEW f, \A x \in DOMAIN f : f[x] = 0
  PROVE  IsFiniteSet(Units(f)) /\ SumOf(f) = 0
<1>1. Units(f) = {}
  <2> SUFFICES ASSUME NEW u, u \in Units(f) PROVE FALSE
    OBVIOUS
  <2> QED BY UnitMembers
<1> QED BY <1>1, FS_EmptySet DEF SumOf

\* One number more adds as much to the sum.
LEMMA SumGains ==
  ASSUME NEW S, NEW x, x \notin S, NEW f \in [S -> Nat], NEW g \in [S \union {x} -> Nat],
         \A y \in S : g[y] = f[y], IsFiniteSet(Units(f))
  PROVE  IsFiniteSet(Units(g)) /\ SumOf(g) = SumOf(f) + g[x] /\ SumOf(f) \in Nat
<1>1. PICK n \in Nat : n = g[x]
  OBVIOUS
<1>2. g[x] = (IF x \in S THEN f[x] ELSE 0) + n
  BY <1>1
<1>3. \A y \in S : y # x => g[y] = f[y]
  OBVIOUS
<1> QED BY <1>1, <1>2, <1>3, SumGrows

LEMMA SumOfLonger ==
  \A m \in Nat : \A f, g :
    /\ f \in [1..m -> Nat] /\ g \in [1..m+1 -> Nat]
    /\ \A i \in 1..m : g[i] = f[i]
    /\ IsFiniteSet(Units(f))
    => IsFiniteSet(Units(g)) /\ SumOf(g) = SumOf(f) + g[m+1] /\ SumOf(f) \in Nat
<1>1. ASSUME NEW m \in Nat, NEW f, NEW g, f \in [1..m -> Nat], g \in [1..m+1 -> Nat],
             \A i \in 1..m : g[i] = f[i], IsFiniteSet(Units(f))
      PROVE  IsFiniteSet(Units(g)) /\ SumOf(g) = SumOf(f) + g[m+1] /\ SumOf(f) \in Nat
  <2>1. PICK S, x : S = 1..m /\ x = m+1
    OBVIOUS
  <2>2. x \notin S /\ 1..m+1 = S \union {x}
    BY <2>1
  <2>3. /\ f \in [S -> Nat] /\ g \in [S \union {x} -> Nat] /\ x \notin S
        /\ (\A y \in S : g[y] = f[y]) /\ IsFiniteSet(Units(f))
    BY <1>1, <2>1, <2>2
  <2>4. IsFiniteSet(Units(g)) /\ SumOf(g) = SumOf(f) + g[x] /\ SumOf(f) \in Nat
    BY <2>3, SumGains
  <2> QED BY <2>1, <2>4
<1> QED BY <1>1

\* A list without its first number adds up to no more.
LEMMA SumOfTail ==
  ASSUME NEW m \in Nat, NEW f \in [1..m+1 -> Nat], NEW g \in [1..m -> Nat],
         \A i \in 1..m : g[i] = f[i+1], IsFiniteSet(Units(f))
  PROVE  IsFiniteSet(Units(g)) /\ SumOf(g) <= SumOf(f) /\ SumOf(f) \in Nat
<1> DEFINE h == [u \in Units(g) |-> <<u[1] + 1, u[2]>>]
<1>1. ASSUME NEW u \in Units(g)
      PROVE  u = <<u[1], u[2]>> /\ u[1] \in Nat /\ h[u] \in Units(f)
  <2>1. PICK i \in 1..m : \E n \in 1..g[i] : u = <<i, n>>
    BY UnitMembers
  <2>2. PICK n \in 1..g[i] : u = <<i, n>>
    BY <2>1
  <2>3. i + 1 \in DOMAIN f /\ n \in 1..f[i+1]
    BY <2>2
  <2>4. h[u] = <<i+1, n>>
    BY <2>2
  <2>5. h[u] \in Units(f)
    BY <2>3, <2>4, UnitMembers
  <2> QED BY <2>2, <2>5
<1>2. h \in [Units(g) -> Units(f)]
  BY <1>1
<1>3. ASSUME NEW u \in Units(g), NEW v \in Units(g), h[u] = h[v] PROVE u = v
  <2>1. u[1] + 1 = v[1] + 1 /\ u[2] = v[2]
    BY <1>3
  <2>2. u = <<u[1], u[2]>> /\ v = <<v[1], v[2]>> /\ u[1] \in Nat /\ v[1] \in Nat
    BY <1>1
  <2>3. u[1] = v[1]
    BY <2>1, <2>2
  <2> QED BY <2>1, <2>2, <2>3
<1>4. h \in Injection(Units(g), Units(f))
  <2> HIDE DEF h
  <2> QED BY <1>2, <1>3 DEF Injection, IsInjective
<1> HIDE DEF h
<1> QED BY <1>4, FS_Injection, FS_CardinalityType DEF SumOf
-----------------------------------------------------------------------------
(* Lists *)

\* The newest n entries of a list.
NewestPart(s, n) == SubSeq(s, IF Len(s) > n THEN Len(s) - n + 1 ELSE 1, Len(s))

\* They are a part of it, in order, and shorter only if it was longer than n.
LEMMA NewestPartKept ==
  ASSUME NEW S, NEW s \in Seq(S), NEW n \in Nat \ {0}
  PROVE  /\ NewestPart(s, n) \in Seq(S)
         /\ Len(NewestPart(s, n)) <= n
         /\ \E d \in Nat : /\ Len(s) = Len(NewestPart(s, n)) + d
                           /\ d > 0 => Len(NewestPart(s, n)) = n
                           /\ \A i \in 1..Len(NewestPart(s, n)) : NewestPart(s, n)[i] = s[i + d]
<1> DEFINE t == NewestPart(s, n)
<1>0. t = SubSeq(s, IF Len(s) > n THEN Len(s) - n + 1 ELSE 1, Len(s))
  BY DEF NewestPart
<1> HIDE DEF t
<1>1. CASE Len(s) > n
  <2> DEFINE d == Len(s) - n
             u == SubSeq(s, d + 1, Len(s))
  <2>1. t = u /\ d \in Nat /\ d > 0 /\ d <= Len(s) /\ Len(s) \in Nat
    BY <1>0, <1>1
  <2>2. u \in Seq(S) /\ Len(u) = Len(s) - d /\ \A i \in 1..Len(s) - d : u[i] = s[i + d]
    <3> HIDE DEF d
    <3> QED BY <2>1
  <2>3. Len(s) - d = n
    BY <2>1
  <2> HIDE DEF d, u
  <2>4. t \in Seq(S) /\ Len(t) = n
    BY <2>1, <2>2, <2>3
  <2>5. Len(s) = Len(t) + d
    BY <2>1, <2>3, <2>4
  <2>6. \A i \in 1..Len(t) : t[i] = s[i + d]
    BY <2>1, <2>2, <2>3, <2>4
  <2> QED BY <2>1, <2>4, <2>5, <2>6 DEF t
<1>2. CASE Len(s) <= n
  <2> DEFINE u == SubSeq(s, 1, Len(s))
  <2>0. Len(s) \in Nat /\ ~(Len(s) > n)
    BY <1>2
  <2>1. t = u
    BY <1>0, <2>0
  <2>2. u \in Seq(S) /\ Len(u) = Len(s) /\ \A i \in 1..Len(s) : u[i] = s[i]
    BY <2>0
  <2> HIDE DEF u
  <2>3. t \in Seq(S) /\ Len(t) <= n /\ Len(s) = Len(t) + 0 /\ ~(0 > 0)
    BY <1>2, <2>0, <2>1, <2>2
  <2>4. \A i \in 1..Len(t) : t[i] = s[i + 0]
    BY <2>0, <2>1, <2>2
  <2> QED BY <2>3, <2>4 DEF t
<1>3. Len(s) > n \/ Len(s) <= n
  OBVIOUS
<1> QED BY <1>1, <1>2, <1>3 DEF t

LEMMA ConcatParts ==
  ASSUME NEW S, NEW s \in Seq(S), NEW t \in Seq(S)
  PROVE  /\ s \o t \in Seq(S) /\ Len(s) \in Nat /\ Len(t) \in Nat
         /\ Len(s \o t) = Len(s) + Len(t)
         /\ \A i \in 1..Len(s) : (s \o t)[i] = s[i]
         /\ \A i \in 1..Len(t) : (s \o t)[Len(s) + i] = t[i]
OBVIOUS

\* One more entry at the end of the second part is one more at the end of the whole.
LEMMA ConcatGrows ==
  ASSUME NEW S, NEW s \in Seq(S), NEW t \in Seq(S), NEW u \in Seq(S),
         Len(u) = Len(t) + 1, \A i \in 1..Len(t) : u[i] = t[i]
  PROVE  /\ Len(s \o u) = Len(s \o t) + 1
         /\ \A i \in 1..Len(s \o t) : (s \o u)[i] = (s \o t)[i]
         /\ (s \o u)[Len(s \o u)] = u[Len(u)]
<1>1. /\ Len(s) \in Nat /\ Len(t) \in Nat
      /\ Len(s \o u) = Len(s) + Len(u) /\ Len(s \o t) = Len(s) + Len(t)
  OBVIOUS
<1>2. ASSUME NEW i \in 1..Len(s \o t) PROVE (s \o u)[i] = (s \o t)[i]
  <2>1. CASE i <= Len(s)
    BY <1>1, <2>1
  <2>2. CASE i > Len(s)
    <3>1. (s \o u)[i] = u[i - Len(s)] /\ (s \o t)[i] = t[i - Len(s)]
      BY <1>1, <2>2
    <3>2. i - Len(s) \in 1..Len(t)
      BY <1>1, <2>2
    <3> QED BY <3>1, <3>2
  <2> QED BY <1>1, <2>1, <2>2
<1>3. (s \o u)[Len(s \o u)] = u[Len(u)]
  <2>1. Len(s \o u) \in 1..Len(s \o u) /\ Len(s \o u) > Len(s) /\ Len(s \o u) - Len(s) = Len(u)
    BY <1>1
  <2> QED BY <2>1
<1> QED BY <1>1, <1>2, <1>3
=============================================================================
