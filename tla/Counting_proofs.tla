-------------------------- MODULE Counting_proofs --------------------------
(***************************************************************************)
(* Natural numbers: least and greatest elements of a set, induction, the   *)
(* rank of an element in a set, which rank and select structures and       *)
(* alphabets are about, division, and functions defined by recursion.      *)
(***************************************************************************)
EXTENDS Integers, FiniteSets, FiniteSetTheorems, WellFoundedInduction, TLAPS

\* a set of natural numbers has a least element
LEMMA LeastOf ==
    ASSUME NEW S \in SUBSET Nat, S # {}
    PROVE  \E n \in S : \A m \in S : n <= m
<1> DEFINE R == {ss \in Nat \X Nat : ss[1] < ss[2]}
<1>1. IsWellFoundedOn(R, Nat)
  BY NatLessThanWellFounded DEF OpToRel
<1>2. PICK n \in S : \A m \in S : ~ (<<m, n>> \in R)
  <2> HIDE DEF R
  <2> QED
    BY <1>1, WFMin
<1>3. \A m \in S : ~ (m < n)
  BY <1>2
<1>4. QED
  BY <1>3

\* a bounded one has a greatest element
LEMMA GreatestOf ==
    ASSUME NEW S \in SUBSET Nat, S # {}, NEW bound \in Nat, \A n \in S : n <= bound
    PROVE  \E n \in S : \A m \in S : m <= n
<1> DEFINE T == {k \in Nat : \A n \in S : n <= k}
<1>1. T \in SUBSET Nat /\ bound \in T
  OBVIOUS
<1>2. PICK k \in T : \A l \in T : k <= l
  <2> HIDE DEF T
  <2> QED
    BY <1>1, LeastOf
<1>3. k \in S
  <2> SUFFICES ASSUME k \notin S PROVE FALSE
    OBVIOUS
  <2>1. \A n \in S : n \in Nat /\ n <= k /\ n # k
    OBVIOUS
  <2>2. PICK n \in S : TRUE
    OBVIOUS
  <2>3. k - 1 \in Nat /\ \A m \in S : m <= k - 1
    BY <2>1, <2>2
  <2>4. k - 1 \in T
    BY <2>3
  <2>5. QED
    BY <1>2, <2>4
<1>4. QED
  BY <1>2, <1>3

\* induction over the natural numbers, for a set in place of a predicate
LEMMA AllNaturals ==
    ASSUME NEW S, 0 \in S, \A n \in Nat : n \in S => n + 1 \in S
    PROVE  Nat \subseteq S
<1> SUFFICES ASSUME NEW x \in Nat, x \notin S PROVE FALSE
  OBVIOUS
<1> DEFINE T == Nat \ S
<1>1. PICK n \in T : \A m \in T : n <= m
  <2>1. T \in SUBSET Nat /\ x \in T
    OBVIOUS
  <2> HIDE DEF T
  <2> QED
    BY <2>1, LeastOf
<1>2. n # 0 /\ n \in Nat
  OBVIOUS
<1>3. n - 1 \in Nat /\ n - 1 \notin T
  BY <1>1, <1>2
<1>4. (n - 1) + 1 \in S
  BY <1>3
<1>5. QED
  BY <1>2, <1>4

\* the elements below a number, and how many they are
Below(S, n) == {u \in S : u < n}
RankIn(S, n) == Cardinality(Below(S, n))

\* a rank is a number not above the size of the set nor the number itself
LEMMA RankType ==
    ASSUME NEW S \in SUBSET Nat, IsFiniteSet(S), NEW n \in Nat
    PROVE  /\ IsFiniteSet(Below(S, n)) /\ RankIn(S, n) \in Nat
           /\ RankIn(S, n) <= Cardinality(S) /\ RankIn(S, n) <= n
<1>1. Below(S, n) \in SUBSET S
  BY DEF Below
<1>2. IsFiniteSet(Below(S, n)) /\ RankIn(S, n) <= Cardinality(S)
  BY <1>1, FS_Subset DEF RankIn
<1>3. RankIn(S, n) \in Nat
  BY <1>2, FS_CardinalityType DEF RankIn
<1>4. RankIn(S, n) <= n
  <2>1. Below(S, n) \in SUBSET (0 .. n - 1)
    <3>1. \A u \in Below(S, n) : u \in Nat /\ u < n
      BY DEF Below
    <3>2. \A u \in Below(S, n) : u \in 0 .. n - 1
      BY <3>1
    <3>3. QED
      BY <3>2
  <2>2. IsFiniteSet(0 .. n - 1) /\ Cardinality(0 .. n - 1) = n
    BY FS_Interval
  <2>3. QED
    BY <2>1, <2>2, FS_Subset DEF RankIn
<1>5. QED
  BY <1>2, <1>3, <1>4

\* the rank grows from one element to the next
LEMMA RankGrows ==
    ASSUME NEW S \in SUBSET Nat, IsFiniteSet(S), NEW m \in S, NEW n \in Nat, m < n
    PROVE  RankIn(S, m) < RankIn(S, n)
<1>1. Below(S, m) \cup {m} \in SUBSET Below(S, n) /\ m \notin Below(S, m)
  <2>1. m \in Nat /\ \A u \in Below(S, m) : u \in S /\ u \in Nat /\ u < m
    BY DEF Below
  <2>2. \A u \in Below(S, m) : u < n
    BY <2>1
  <2>3. m \in Below(S, n) /\ \A u \in Below(S, m) : u \in Below(S, n)
    BY <2>1, <2>2 DEF Below
  <2>4. m \notin Below(S, m)
    BY <2>1
  <2>5. QED
    BY <2>3, <2>4
<1>2. /\ IsFiniteSet(Below(S, m)) /\ IsFiniteSet(Below(S, n))
      /\ RankIn(S, m) \in Nat /\ RankIn(S, n) \in Nat
  BY RankType
<1>3. Cardinality(Below(S, m) \cup {m}) = RankIn(S, m) + 1
  BY <1>1, <1>2, FS_AddElement DEF RankIn
<1>4. Cardinality(Below(S, m) \cup {m}) <= RankIn(S, n)
  BY <1>1, <1>2, FS_Subset DEF RankIn
<1>5. QED
  BY <1>2, <1>3, <1>4

\* ranks order the elements as they are
LEMMA RankOrder ==
    ASSUME NEW S \in SUBSET Nat, IsFiniteSet(S), NEW m \in S, NEW n \in S
    PROVE  /\ m < n <=> RankIn(S, m) < RankIn(S, n)
           /\ RankIn(S, m) = RankIn(S, n) => m = n
<1>1. RankIn(S, m) \in Nat /\ RankIn(S, n) \in Nat
  BY RankType
<1>2. m \in Nat /\ n \in Nat
  OBVIOUS
<1>3. CASE m < n
  BY <1>1, <1>3, RankGrows
<1>4. CASE n < m
  BY <1>1, <1>4, RankGrows
<1>5. CASE m = n
  BY <1>1, <1>5
<1>6. QED
  BY <1>2, <1>3, <1>4, <1>5

\* an element is not below all of them
LEMMA RankBelowSize ==
    ASSUME NEW S \in SUBSET Nat, IsFiniteSet(S), NEW m \in S
    PROVE  RankIn(S, m) < Cardinality(S)
<1>1. Below(S, m) \in SUBSET S /\ Below(S, m) # S
  BY DEF Below
<1>2. QED
  BY <1>1, FS_Subset, RankType, FS_CardinalityType DEF RankIn

\* every rank is that of an element
LEMMA RankTaken ==
    ASSUME NEW S \in SUBSET Nat, IsFiniteSet(S)
    PROVE  \A k \in Nat : k < Cardinality(S) => \E n \in S : RankIn(S, n) = k
<1> DEFINE T == {k \in Nat : k < Cardinality(S) => \E n \in S : RankIn(S, n) = k}
<1>1. Cardinality(S) \in Nat
  BY FS_CardinalityType
<1>2. 0 \in T
  <2> SUFFICES ASSUME 0 < Cardinality(S) PROVE \E n \in S : RankIn(S, n) = 0
    OBVIOUS
  <2>1. S # {}
    BY FS_EmptySet
  <2>2. PICK n \in S : \A m \in S : n <= m
    BY <2>1, LeastOf
  <2>3. Below(S, n) = {}
    <3>1. \A m \in S : m \in Nat /\ n \in Nat /\ ~ (m < n)
      BY <2>2
    <3>2. QED
      BY <3>1 DEF Below
  <2>4. QED
    BY <2>3, FS_EmptySet DEF RankIn
<1>3. ASSUME NEW k \in Nat, k \in T PROVE k + 1 \in T
  <2> SUFFICES ASSUME k + 1 < Cardinality(S) PROVE \E n \in S : RankIn(S, n) = k + 1
    OBVIOUS
  <2>1. k < Cardinality(S)
    BY <1>1
  <2>2. PICK m \in S : RankIn(S, m) = k
    BY <1>3, <2>1
  <2> DEFINE Above == {u \in S : m < u}
             Upto == Below(S, m) \cup {m}
  <2>3. IsFiniteSet(Upto) /\ Cardinality(Upto) = k + 1
    <3>1. m \notin Below(S, m) /\ IsFiniteSet(Below(S, m))
      BY RankType DEF Below
    <3>2. QED
      BY <2>2, <3>1, FS_AddElement DEF RankIn
  <2>4. Above # {}
    <3> SUFFICES ASSUME Above = {} PROVE FALSE
      OBVIOUS
    <3>1. S \subseteq Upto
      BY DEF Below
    <3>2. Cardinality(S) <= k + 1
      BY <2>3, <3>1, FS_Subset
    <3>3. QED
      BY <1>1, <3>2
  <2>5. PICK n \in Above : \A u \in Above : n <= u
    <3>1. Above \in SUBSET Nat
      OBVIOUS
    <3> HIDE DEF Above
    <3>2. QED
      BY <2>4, <3>1, LeastOf
  <2>6. Below(S, n) = Upto
    <3>1. m \in Nat /\ n \in Nat /\ m < n /\ \A u \in S : u \in Nat
      OBVIOUS
    <3>2. \A u \in S : u < n <=> u < m \/ u = m
      BY <2>5, <3>1
    <3>3. QED
      BY <3>2 DEF Below
  <2>7. QED
    BY <2>3, <2>5, <2>6 DEF RankIn
<1>4. Nat \subseteq T
  <2> HIDE DEF T
  <2> QED
    BY <1>2, <1>3, AllNaturals
<1>5. QED
  BY <1>4

-----------------------------------------------------------------------------
\* quotient and remainder make up the number
LEMMA Division ==
    ASSUME NEW x \in Nat, NEW p \in Nat \ {0}
    PROVE  /\ x \div p \in Nat /\ x % p \in 0 .. p - 1
           /\ x = (x \div p) * p + (x % p)
  OBVIOUS

\* a number given by quotient and remainder
LEMMA QuotientIs ==
    ASSUME NEW m \in Nat, NEW p \in Nat \ {0}, NEW r \in 0 .. p - 1
    PROVE  (m * p + r) \div p = m /\ (m * p + r) % p = r
  OBVIOUS

\* quotients are in the order of the numbers
LEMMA QuotientGrows ==
    ASSUME NEW x \in Nat, NEW y \in Nat, NEW p \in Nat \ {0}, x <= y
    PROVE  x \div p <= y \div p
  OBVIOUS

\* the next multiple
LEMMA NextMultiple ==
    ASSUME NEW m \in Nat, NEW p \in Nat \ {0}, NEW h \in Nat, h = m * p
    PROVE  (h + p) % p = 0
<1> DEFINE k == m + 1
           q == k * p
<1>1. k \in Nat /\ 0 \in 0 .. p - 1
  OBVIOUS
<1>2. q = h + p
  OBVIOUS
<1>3. (k * p + 0) % p = 0
  <2> HIDE DEF k
  <2>1. QED
    BY <1>1, QuotientIs
<1> HIDE DEF q
<1>4. q + 0 = h + p
  BY <1>2
<1>5. QED
  BY <1>3, <1>4 DEF q

\* f[0] is z, and F makes each further value of the one before
Unfolds(f, V, z, F, n) ==
    /\ f \in [0 .. n -> V] /\ f[0] = z
    /\ \A k \in 1 .. n : f[k] = F[<<f[k - 1], k>>]

\* a function may be defined by recursion over the numbers up to n
LEMMA Recursion ==
    ASSUME NEW V, NEW z \in V, NEW F \in [V \X Nat -> V], NEW n \in Nat
    PROVE  \E f : Unfolds(f, V, z, F, n)
<1> DEFINE Is(f, l) == /\ f \in [0 .. l -> V] /\ f[0] = z
                       /\ \A k \in 1 .. l : f[k] = F[<<f[k - 1], k>>]
           T == {l \in Nat : \E f : Is(f, l)}
<1>1. 0 \in T
  <2>1. Is([k \in 0 .. 0 |-> z], 0)
    OBVIOUS
  <2>2. QED
    BY <2>1
<1>2. ASSUME NEW l \in Nat, l \in T PROVE l + 1 \in T
  <2>1. PICK f : Is(f, l)
    BY <1>2
  <2> DEFINE v == F[<<f[l], l + 1>>]
             g == [k \in 0 .. l + 1 |-> IF k <= l THEN f[k] ELSE v]
  <2>2. f \in [0 .. l -> V] /\ f[0] = z /\ \A k \in 1 .. l : f[k] = F[<<f[k - 1], k>>]
    BY <2>1
  <2>3. v \in V
    <3>1. l \in 0 .. l /\ l + 1 \in Nat
      OBVIOUS
    <3>2. <<f[l], l + 1>> \in V \X Nat
      BY <2>2, <3>1
    <3>3. QED
      BY <3>2
  <2> HIDE DEF v
  <2>4. g \in [0 .. l + 1 -> V]
    <3> SUFFICES ASSUME NEW k \in 0 .. l + 1 PROVE (IF k <= l THEN f[k] ELSE v) \in V
      OBVIOUS
    <3>1. k <= l => k \in 0 .. l
      OBVIOUS
    <3>2. QED
      BY <2>2, <2>3, <3>1
  <2>5. g[0] = z
    BY <2>2
  <2>6. ASSUME NEW k \in 1 .. l + 1 PROVE g[k] = F[<<g[k - 1], k>>]
    <3>1. CASE k <= l
      <4>1. k \in 1 .. l /\ k - 1 <= l /\ k \in 0 .. l + 1 /\ k - 1 \in 0 .. l + 1
        BY <3>1
      <4>2. g[k] = f[k] /\ g[k - 1] = f[k - 1]
        BY <3>1, <4>1
      <4>3. QED
        BY <2>2, <4>1, <4>2
    <3>2. CASE k = l + 1
      <4>1. ~ (k <= l) /\ k - 1 = l /\ l <= l /\ k \in 0 .. l + 1 /\ l \in 0 .. l + 1
        BY <3>2
      <4>2. g[k] = v /\ g[k - 1] = f[l]
        BY <4>1
      <4>3. QED
        BY <3>2, <4>2 DEF v
    <3>3. QED
      BY <3>1, <3>2
  <2>7. Is(g, l + 1)
    BY <2>4, <2>5, <2>6
  <2> HIDE DEF g
  <2>8. QED
    BY <2>7
<1>3. n \in T
  <2> HIDE DEF T
  <2> QED
    BY <1>1, <1>2, AllNaturals
<1>4. QED
  BY <1>3 DEF Unfolds

\* induction from a number down to 0
LEMMA DownTo ==
    ASSUME NEW n \in Nat, NEW S, n \in S, \A k \in 0 .. n - 1 : k + 1 \in S => k \in S
    PROVE  0 .. n \subseteq S
<1> DEFINE T == {k \in Nat : k <= n => n - k \in S}
<1>1. 0 \in T
  OBVIOUS
<1>2. ASSUME NEW k \in Nat, k \in T PROVE k + 1 \in T
  <2> SUFFICES ASSUME k + 1 <= n PROVE n - (k + 1) \in S
    OBVIOUS
  <2>1. n - k \in S /\ n - (k + 1) \in 0 .. n - 1 /\ (n - (k + 1)) + 1 = n - k
    BY <1>2
  <2> QED
    BY <2>1
<1>3. Nat \subseteq T
  <2> HIDE DEF T
  <2> QED
    BY <1>1, <1>2, AllNaturals
<1>4. ASSUME NEW k \in 0 .. n PROVE k \in S
  <2>1. n - k \in Nat /\ n - k <= n /\ n - (n - k) = k
    OBVIOUS
  <2> QED
    BY <1>3, <2>1
<1> QED
  BY <1>4

LEMMA NextAbove ==
    ASSUME NEW n \in Nat, NEW k \in 0 .. n, NEW a \in 0 .. n, a >= k, a # k
    PROVE  a >= k + 1
  OBVIOUS

\* F makes the value at an element from the values at those of greater measure
Measured(X, V, n, m, F) ==
    /\ m \in [X -> 0 .. n] /\ F \in [[X -> V] \X X -> V]
    /\ \A x \in X : \A g, h \in [X -> V] :
          (\A y \in X : m[y] > m[x] => g[y] = h[y]) => F[<<g, x>>] = F[<<h, x>>]

Recurs(f, X, V, F) == f \in [X -> V] /\ \A x \in X : f[x] = F[<<f, x>>]

\* a function may be defined by such a recursion
LEMMA MeasuredRecursion ==
    ASSUME NEW X, NEW V, NEW v \in V, NEW n \in Nat, NEW m, NEW F,
           Measured(X, V, n, m, F)
    PROVE  \E f : Recurs(f, X, V, F)
<1>0. /\ m \in [X -> 0 .. n] /\ F \in [[X -> V] \X X -> V]
      /\ \A x \in X : \A g, h \in [X -> V] :
            (\A y \in X : m[y] > m[x] => g[y] = h[y]) => F[<<g, x>>] = F[<<h, x>>]
  BY DEF Measured
<1> DEFINE Is(g, k) == \A x \in X : m[x] >= k => g[x] = F[<<g, x>>]
           T == {k \in Nat : \E g \in [X -> V] : Is(g, k)}
<1>1. n + 1 \in T
  <2> DEFINE g == [x \in X |-> v]
  <2>1. g \in [X -> V] /\ n + 1 \in Nat
    OBVIOUS
  <2>2. \A x \in X : m[x] \in 0 .. n
    BY <1>0
  <2>3. Is(g, n + 1)
    <3> HIDE DEF g
    <3> QED
      BY <2>2
  <2> HIDE DEF g, Is
  <2> QED
    BY <2>1, <2>3
<1>2. ASSUME NEW k \in 0 .. n, k + 1 \in T PROVE k \in T
  <2>1. PICK g \in [X -> V] : Is(g, k + 1)
    <3> HIDE DEF Is
    <3> QED
      BY <1>2
  <2> DEFINE h == [x \in X |-> IF m[x] = k THEN F[<<g, x>>] ELSE g[x]]
  <2>2. h \in [X -> V]
    <3>1. \A x \in X : F[<<g, x>>] \in V
      BY <1>0
    <3> QED
      BY <3>1
  <2>3. ASSUME NEW x \in X, m[x] >= k PROVE h[x] = F[<<h, x>>]
    <3>1. m[x] \in 0 .. n /\ \A y \in X : m[y] \in 0 .. n
      BY <1>0
    <3>2. \A y \in X : m[y] > m[x] => h[y] = g[y]
      BY <2>3, <3>1
    <3>3. F[<<g, x>>] = F[<<h, x>>]
      <4> HIDE DEF h
      <4> QED
        BY <1>0, <2>2, <3>2
    <3>4. m[x] # k => g[x] = F[<<g, x>>]
      <4>1. \A a \in 0 .. n : a >= k /\ a # k => a >= k + 1
        BY NextAbove
      <4>2. m[x] # k => m[x] >= k + 1
        BY <2>3, <3>1, <4>1, Zenon
      <4> QED
        BY <2>1, <4>2
    <3>5. h[x] = F[<<g, x>>]
      <4>1. h[x] = IF m[x] = k THEN F[<<g, x>>] ELSE g[x]
        OBVIOUS
      <4> HIDE DEF h
      <4> QED
        BY <3>4, <4>1
    <3> QED
      BY <3>3, <3>5
  <2>4. Is(h, k)
    <3> HIDE DEF h
    <3> QED
      BY <2>3
  <2> HIDE DEF h, Is
  <2> QED
    BY <2>2, <2>4
<1>3. 0 \in T
  <2> HIDE DEF T
  <2>1. 0 .. n + 1 \subseteq T
    BY <1>1, <1>2, DownTo
  <2> QED
    BY <2>1
<1>4. PICK f \in [X -> V] : Is(f, 0)
  <2> HIDE DEF Is
  <2> QED
    BY <1>3
<1>5. \A x \in X : m[x] >= 0
  BY <1>0
<1> QED
  BY <1>4, <1>5 DEF Recurs
=============================================================================
