-------------------------- MODULE HashParts_proofs --------------------------
(***************************************************************************)
(* What the parts that the hash functions share return: a retrieval        *)
(* structure that was built, for a key it was built with and every width   *)
(* of its tables; the longest common prefix of two strings; the numbers    *)
(* that are written with ranks of characters as digits; and the positions  *)
(* that bucket offsets are read at.                                        *)
(***************************************************************************)
EXTENDS AlphabetMap, Retrieval, Counting_proofs, SequenceTheorems

(***************************************************************************)
(* addInput and query agree on the table, and a value smaller than the     *)
(* range loses no bit in it.                                               *)
(***************************************************************************)
LEMMA TableFits ==
    ASSUME NEW range \in Nat, NEW v \in Nat, v < range, range <= WideCapacity
    PROVE  v % Capacity[TableFor(range)] = v
<1> USE WideCapacityAssumption
<1> DEFINE Fits(t) == /\ t = 10 \/ range <= Capacity[t]
                      /\ \A u \in 1 .. t - 1 : range > Capacity[u]
<1>1. \E t \in Tables : Fits(t)
  <2>1. CASE range <= 2
    BY <2>1 DEF Capacity, Tables
  <2>2. CASE 2 < range /\ range <= 4
    <3>1. Fits(2)
      BY <2>2 DEF Capacity
    <3>2. QED
      BY <3>1 DEF Tables
  <2>3. CASE 4 < range /\ range <= 8
    <3>1. Fits(3)
      BY <2>3 DEF Capacity
    <3>2. QED
      BY <3>1 DEF Tables
  <2>4. CASE 8 < range /\ range <= 16
    <3>1. Fits(4)
      BY <2>4 DEF Capacity
    <3>2. QED
      BY <3>1 DEF Tables
  <2>5. CASE 16 < range /\ range <= 32
    <3>1. Fits(5)
      BY <2>5 DEF Capacity
    <3>2. QED
      BY <3>1 DEF Tables
  <2>6. CASE 32 < range /\ range <= 64
    <3>1. Fits(6)
      BY <2>6 DEF Capacity
    <3>2. QED
      BY <3>1 DEF Tables
  <2>7. CASE 64 < range /\ range <= 128
    <3>1. Fits(7)
      BY <2>7 DEF Capacity
    <3>2. QED
      BY <3>1 DEF Tables
  <2>8. CASE 128 < range /\ range <= 256
    <3>1. Fits(8)
      BY <2>8 DEF Capacity
    <3>2. QED
      BY <3>1 DEF Tables
  <2>9. CASE 256 < range /\ range <= 512
    <3>1. Fits(9)
      BY <2>9 DEF Capacity
    <3>2. QED
      BY <3>1 DEF Tables
  <2>10. CASE 512 < range
    <3>1. Fits(10)
      BY <2>10 DEF Capacity
    <3>2. QED
      BY <3>1 DEF Tables
  <2>11. QED
    BY <2>1, <2>2, <2>3, <2>4, <2>5, <2>6, <2>7, <2>8, <2>9, <2>10
<1>2. TableFor(range) = CHOOSE t \in Tables : Fits(t)
  BY DEF TableFor
<1>3. TableFor(range) \in Tables /\ Fits(TableFor(range))
  BY <1>1, <1>2
<1>4. ASSUME NEW t \in Tables, Fits(t)
      PROVE  Capacity[t] \in Nat /\ v < Capacity[t]
  <2>1. CASE t = 10
    BY <2>1 DEF Capacity
  <2>2. CASE t # 10
    <3>1. t \in 1 .. 9 /\ range <= Capacity[t]
      BY <1>4, <2>2 DEF Tables
    <3>2. Capacity[t] \in Nat
      BY <3>1 DEF Capacity
    <3>3. QED
      BY <3>1, <3>2
  <2>3. QED
    BY <2>1, <2>2
<1>5. Capacity[TableFor(range)] \in Nat /\ v < Capacity[TableFor(range)]
  <2> HIDE DEF Fits
  <2> QED
    BY <1>3, <1>4
<1>6. QED
  BY <1>5

(***************************************************************************)
(* A key with one value, handed over with a range the value is below, is   *)
(* answered with that value and nothing else.                              *)
(***************************************************************************)
LEMMA RetrieveHit ==
    ASSUME NEW S, NEW key, NEW range \in Nat, NEW v \in Nat,
           v < range, range <= WideCapacity,
           Input(range, key, v) \in S,
           \A e \in S : e.key = key => e = Input(range, key, v)
    PROVE  Retrieve(S, range, key) = {v}
<1> DEFINE hits == {e \in S : e.key = key /\ e.table = TableFor(range)}
           hit == Input(range, key, v)
<1>1. hit = [table |-> TableFor(range), key |-> key, value |-> v]
  BY TableFits DEF Input
<1>2. hit \in hits /\ hit.value = v
  BY <1>1
<1>3. \A e \in hits : e = hit
  OBVIOUS
<1> HIDE DEF hit
<1>4. {e.value : e \in hits} = {v}
  BY <1>2, <1>3
<1>5. hits # {} /\ \A e1, e2 \in hits : e1.value = e2.value
  BY <1>2, <1>3
<1>6. Retrieve(S, range, key) = {e.value : e \in hits}
  BY <1>5 DEF Retrieve
<1>7. QED
  BY <1>4, <1>6

-----------------------------------------------------------------------------
(* The longest common prefix of two strings in order. *)

Texts == Seq(Chars \ {0})

\* characters are finitely many numbers, 0 among them
LEMMA CharsFinite ==
    /\ IsFiniteSet(Chars) /\ Cardinality(Chars) \in Nat
    /\ 0 \in Chars /\ \A c \in Chars : c \in Nat
<1> DEFINE m == 255
<1>1. m \in Nat /\ 0 \in Chars /\ Chars \subseteq 0 .. m
  <2>1. m \in Nat
    OBVIOUS
  <2>2. 0 \in Chars /\ Chars \subseteq 0 .. m
    BY AlphabetMapAssumption
  <2>3. QED
    BY <2>1, <2>2
<1> HIDE DEF m
<1>2. \A c \in Chars : c \in Nat
  BY <1>1
<1>3. IsFiniteSet(0 .. m)
  BY <1>1, FS_Interval
<1>4. IsFiniteSet(Chars)
  BY <1>1, <1>3, FS_Subset
<1>5. QED
  BY <1>1, <1>2, <1>4, FS_CardinalityType

\* the characters of a string, with its terminator
LEMMA Bytes ==
    ASSUME NEW s \in Texts, NEW n \in 0 .. Len(s), NEW b
    PROVE  /\ Len(s) \in Nat /\ Byte(s, n, b) \in Chars
           /\ n < Len(s) => Byte(s, n, b) = s[n + 1] /\ Byte(s, n, b) > 0
           /\ n = Len(s) => Byte(s, n, b) = 0
<1>1. Len(s) \in Nat /\ \A k \in 1 .. Len(s) : s[k] \in Chars \ {0}
  BY DEF Texts
<1>2. \A c \in Chars \ {0} : c > 0
  <2> SUFFICES ASSUME NEW c \in Chars, c # 0 PROVE c > 0
    OBVIOUS
  <2>1. c \in Nat
    BY CharsFinite
  <2>2. QED
    BY <2>1
<1>3. CASE n < Len(s)
  <2>1. n + 1 \in 1 .. Len(s)
    BY <1>1, <1>3
  <2>2. QED
    BY <1>1, <1>2, <1>3, <2>1 DEF Byte
<1>4. CASE n = Len(s)
  BY <1>1, <1>4, CharsFinite DEF Byte
<1>5. QED
  BY <1>1, <1>3, <1>4

(***************************************************************************)
(* LCP finds the position at which two strings in order differ, and        *)
(* records the smaller character of the first and the larger of the other. *)
(***************************************************************************)
LEMMA LCPOfPair ==
    ASSUME NEW s \in Texts, NEW t \in Texts, Precedes(s, t)
    PROVE  LET n == LCP(s, t).lcp
           IN  /\ n \in Nat /\ n <= Len(s) /\ n < Len(t)
               /\ \A k \in 1 .. n : s[k] = t[k]
               /\ \A b, c : Byte(s, n, b) < Byte(t, n, c)
               /\ \A b, c : LCP(s, t).branchingCharacters
                               = {Byte(s, n, b), Byte(t, n, c)}
<1> DEFINE shorter == Least(Len(s), Len(t))
           P(j) == /\ \A k \in 1 .. j : s[k] = t[k]
                   /\ j < shorter => s[j + 1] # t[j + 1]
<1>1. /\ Len(s) \in Nat /\ Len(t) \in Nat /\ shorter \in Nat
      /\ shorter <= Len(s) /\ shorter <= Len(t)
      /\ shorter = Len(s) \/ shorter = Len(t)
  BY DEF Texts, Least
<1>2. PICK n \in 0 .. shorter : /\ \A k \in 1 .. n : s[k] = t[k]
                                /\ Byte(s, n, <<>>) < Byte(t, n, <<>>)
  BY DEF Precedes
<1> HIDE DEF shorter
<1>3. n \in Nat /\ n <= Len(s) /\ n <= Len(t) /\ n <= shorter
  BY <1>1
<1>4. /\ \A b, c : Byte(s, n, b) = Byte(s, n, c)
      /\ \A b, c : Byte(t, n, b) = Byte(t, n, c)
  BY <1>1, <1>3 DEF Byte
<1>5. n < Len(t)
  <2> SUFFICES ASSUME n = Len(t) PROVE FALSE
    BY <1>1, <1>3
  <2>1. Byte(t, n, <<>>) = 0 /\ Byte(s, n, <<>>) \in Nat
    BY <1>1, <1>3, Bytes, CharsFinite
  <2>2. QED
    BY <1>2, <2>1, CharsFinite
<1>6. P(n)
  <2>1. n < shorter => s[n + 1] # t[n + 1]
    <3> SUFFICES ASSUME n < shorter PROVE s[n + 1] # t[n + 1]
      OBVIOUS
    <3>1. n < Len(s) /\ n < Len(t)
      BY <1>1, <1>3
    <3>2. Byte(s, n, <<>>) = s[n + 1] /\ Byte(t, n, <<>>) = t[n + 1]
      BY <3>1 DEF Byte
    <3>3. Byte(s, n, <<>>) \in Nat /\ Byte(t, n, <<>>) \in Nat
      <4>1. n \in 0 .. Len(s) /\ n \in 0 .. Len(t)
        BY <1>1, <1>3
      <4>2. QED
        BY <4>1, Bytes, CharsFinite
    <3>4. QED
      BY <1>2, <3>2, <3>3
  <2>2. QED
    BY <1>2, <2>1
<1>7. ASSUME NEW j \in 0 .. shorter, P(j) PROVE j = n
  <2>1. CASE j < n
    <3>1. j < shorter /\ j + 1 \in 1 .. n
      BY <1>1, <1>3, <2>1
    <3>2. QED
      BY <1>2, <1>7, <3>1
  <2>2. CASE n < j
    <3>1. n < shorter /\ n + 1 \in 1 .. j
      BY <1>1, <1>3, <2>2
    <3>2. QED
      BY <1>6, <1>7, <3>1
  <2>3. QED
    BY <1>1, <1>3, <2>1, <2>2
<1> DEFINE m == CHOOSE j \in 0 .. shorter : P(j)
<1>8. m = n
  <2>1. m \in 0 .. shorter /\ P(m)
    BY <1>1, <1>3, <1>6
  <2> HIDE DEF m, P
  <2> QED
    BY <1>7, <2>1
<1>9. LCP(s, t) = [lcp |-> m, branchingCharacters |-> {Byte(s, m, <<>>), Byte(t, m, <<>>)}]
  BY DEF LCP, shorter
<1> HIDE DEF m, P
<1>10. LCP(s, t).lcp = n
       /\ LCP(s, t).branchingCharacters = {Byte(s, n, <<>>), Byte(t, n, <<>>)}
  BY <1>8, <1>9
<1>11. QED
  BY <1>2, <1>3, <1>4, <1>5, <1>10

\* MinLCP is below every LCP
LEMMA SmallestLCP ==
    ASSUME NEW ls, Len(ls) \in Nat \ {0}, \A k \in 1 .. Len(ls) : ls[k].lcp \in Nat
    PROVE  MinLCP(ls) \in Nat /\ \A k \in 1 .. Len(ls) : MinLCP(ls) <= ls[k].lcp
<1> DEFINE S == {ls[k].lcp : k \in 1 .. Len(ls)}
<1>1. S \in SUBSET Nat /\ S # {}
  <2>1. 1 \in 1 .. Len(ls)
    OBVIOUS
  <2>2. QED
    BY <2>1
<1>2. \E n \in S : \A m \in S : n <= m
  <2> HIDE DEF S
  <2> QED
    BY <1>1, LeastOf
<1>3. \E n \in S : \A k \in 1 .. Len(ls) : n <= ls[k].lcp
  BY <1>2
<1>4. MinLCP(ls) \in S /\ \A k \in 1 .. Len(ls) : MinLCP(ls) <= ls[k].lcp
  BY <1>3 DEF MinLCP
<1>5. QED
  BY <1>1, <1>4

-----------------------------------------------------------------------------
(* Sets of numbers as increasing sequences. *)

\* a holds the numbers of S, in increasing order
Orders(a, S) ==
    /\ Len(a) \in Nat
    /\ \A k \in 1 .. Len(a) : a[k] \in S
    /\ \A k, l \in 1 .. Len(a) : k < l => a[k] < a[l]
    /\ \A n \in S : \E k \in 1 .. Len(a) : a[k] = n

LEMMA AscendingOrders ==
    ASSUME NEW S \in SUBSET Nat, IsFiniteSet(S)
    PROVE  LET a == Ascending(S)
           IN  /\ Orders(a, S) /\ a \in Seq(S) /\ Len(a) = Cardinality(S)
               /\ \A k \in 1 .. Len(a) : a[k] \in Nat /\ k - 1 <= a[k]
<1> DEFINE a == Ascending(S)
           n == Cardinality(S)
           of(k) == CHOOSE u \in S : RankIn(S, u) = k - 1
<1>1. n \in Nat
  BY FS_CardinalityType
<1>2. a = [k \in 1 .. n |-> of(k)]
  BY DEF Ascending, RankIn, Below
<1> HIDE DEF a
<1>3. Len(a) = n
  BY <1>1, <1>2
<1>4. ASSUME NEW k \in 1 .. n
      PROVE  a[k] \in S /\ RankIn(S, a[k]) = k - 1
  <2>1. k - 1 \in Nat /\ k - 1 < n
    BY <1>1
  <2>2. \E u \in S : RankIn(S, u) = k - 1
    BY <2>1, RankTaken
  <2>3. QED
    BY <1>2, <2>2
<1>5. a \in Seq(S)
  <2>1. \A k \in 1 .. n : of(k) \in S
    BY <1>2, <1>4
  <2> HIDE DEF of
  <2>2. a \in [1 .. n -> S]
    BY <1>2, <2>1
  <2>3. QED
    BY <1>1, <2>2
<1> HIDE DEF of, n
<1>6. \A k \in 1 .. n : a[k] \in Nat /\ k - 1 <= a[k]
  <2> SUFFICES ASSUME NEW k \in 1 .. n PROVE a[k] \in Nat /\ k - 1 <= a[k]
    OBVIOUS
  <2>1. a[k] \in Nat /\ RankIn(S, a[k]) = k - 1
    BY <1>4
  <2>2. QED
    BY <2>1, RankType
<1>7. \A k, l \in 1 .. n : k < l => a[k] < a[l]
  <2> SUFFICES ASSUME NEW k \in 1 .. n, NEW l \in 1 .. n, k < l PROVE a[k] < a[l]
    OBVIOUS
  <2>1. RankIn(S, a[k]) < RankIn(S, a[l])
    BY <1>1, <1>4
  <2>2. QED
    BY <1>4, <2>1, RankOrder
<1>8. ASSUME NEW u \in S PROVE \E k \in 1 .. n : a[k] = u
  <2>1. RankIn(S, u) \in Nat /\ RankIn(S, u) < n
    <3>1. u \in Nat
      OBVIOUS
    <3>2. QED
      BY <3>1, RankType, RankBelowSize DEF n
  <2> DEFINE k == RankIn(S, u) + 1
  <2>2. k \in 1 .. n /\ k - 1 = RankIn(S, u)
    BY <1>1, <2>1
  <2>3. a[k] = u
    BY <1>4, <2>2, RankOrder
  <2>4. QED
    BY <2>2, <2>3
<1>9. QED
  BY <1>1, <1>3, <1>4, <1>5, <1>6, <1>7, <1>8 DEF Orders, a, n

-----------------------------------------------------------------------------
(* Numbers written in digits, as readChunk computes them. *)

\* c[k] is the number with the first k of the digits d to the base b
IsNumber(c, d, b, n) ==
    /\ c[0] = 0
    /\ \A k \in 1 .. n : c[k] = (c[k - 1] * b + d[k]) % 2^ChunkBits

\* a smaller number is its own remainder
LEMMA Remainder ==
    ASSUME NEW x \in Nat, NEW y \in Nat, x < y
    PROVE  x % y = x
  OBVIOUS

\* multiplying keeps the order
LEMMA Times ==
    ASSUME NEW x \in Nat, NEW y \in Nat, NEW b \in Nat, x <= y
    PROVE  x * b <= y * b /\ x * b \in Nat /\ y * b \in Nat
  OBVIOUS

\* the powers of b up to the one after the n-th are what they should be
Powers(b, n) ==
    /\ b \in Nat \ {0} /\ n \in Nat /\ 2^ChunkBits \in Nat
    /\ \A k \in 0 .. n : b^k \in Nat /\ b^0 = 1 /\ b^(k + 1) = b^k * b

\* powers of a base grow with the exponent
LEMMA PowersGrow ==
    ASSUME NEW b, NEW n, Powers(b, n)
    PROVE  /\ b^0 = 1 /\ b^n \in Nat
           /\ \A k \in 0 .. n : b^k \in Nat /\ b^k <= b^n
<1> DEFINE T == {l \in Nat : l <= n => \A k \in 0 .. l : b^k \in Nat /\ b^k <= b^l}
<1>1. /\ n \in Nat /\ b \in Nat /\ b >= 1
      /\ \A k \in 0 .. n : b^k \in Nat /\ b^0 = 1 /\ b^(k + 1) = b^k * b
  BY DEF Powers
<1>2. 0 \in T
  <2>1. b^0 \in Nat /\ \A k \in 0 .. 0 : k = 0
    BY <1>1
  <2>2. QED
    BY <2>1
<1>3. ASSUME NEW l \in Nat, l \in T PROVE l + 1 \in T
  <2> SUFFICES ASSUME l + 1 <= n, NEW k \in 0 .. l + 1
               PROVE  b^k \in Nat /\ b^k <= b^(l + 1)
    OBVIOUS
  <2>1. /\ l \in 0 .. n /\ l + 1 \in 0 .. n
        /\ b^l \in Nat /\ b^(l + 1) \in Nat /\ b^(l + 1) = b^l * b
    BY <1>1
  <2>2. b^l <= b^(l + 1)
    <3>1. \A x \in Nat : x <= x * b
      BY <1>1
    <3>2. QED
      BY <2>1, <3>1
  <2>3. CASE k <= l
    <3>1. k \in 0 .. l /\ l <= n
      BY <2>1, <2>3
    <3>2. b^k \in Nat /\ b^k <= b^l
      BY <1>3, <3>1
    <3>3. QED
      BY <2>1, <2>2, <3>2
  <2>4. CASE k = l + 1
    BY <2>1, <2>4
  <2>5. QED
    BY <2>3, <2>4
<1>4. Nat \subseteq T
  <2> HIDE DEF T
  <2> QED
    BY <1>2, <1>3, AllNaturals
<1>5. n \in T /\ n <= n /\ n \in Nat
  BY <1>1, <1>4
<1>6. QED
  BY <1>1, <1>5

\* digits smaller than the base: nothing wraps around
LEMMA NumberExact ==
    ASSUME NEW b, NEW n, Powers(b, n), b^n <= 2^ChunkBits,
           NEW c, NEW d, IsNumber(c, d, b, n), \A k \in 1 .. n : d[k] \in 0 .. b - 1
    PROVE  /\ \A k \in 0 .. n : c[k] \in Nat /\ c[k] < b^k
           /\ \A k \in 1 .. n : c[k] = c[k - 1] * b + d[k]
<1> DEFINE T == {k \in Nat : k <= n => /\ c[k] \in Nat /\ c[k] < b^k
                                       /\ k > 0 => c[k] = c[k - 1] * b + d[k]}
<1>1. /\ b \in Nat /\ b >= 1 /\ 2^ChunkBits \in Nat /\ n \in Nat
      /\ \A k \in 0 .. n : b^k \in Nat /\ b^0 = 1 /\ b^(k + 1) = b^k * b
  BY DEF Powers
<1>2. \A k \in 0 .. n : b^k \in Nat /\ b^k <= 2^ChunkBits
  <2>1. \A k \in 0 .. n : b^k \in Nat /\ b^k <= b^n
    BY PowersGrow
  <2>2. b^n \in Nat
    BY PowersGrow
  <2>3. QED
    BY <1>1, <2>1, <2>2
<1>3. 0 \in T
  BY <1>1 DEF IsNumber
<1>4. ASSUME NEW k \in Nat, k \in T PROVE k + 1 \in T
  <2> SUFFICES ASSUME k + 1 <= n
               PROVE  /\ c[k + 1] \in Nat /\ c[k + 1] < b^(k + 1)
                      /\ c[k + 1] = c[k] * b + d[k + 1]
    BY <1>1
  <2>1. /\ k + 1 \in 1 .. n /\ k + 1 \in 0 .. n /\ k \in 0 .. n
        /\ (k + 1) - 1 = k /\ c[k] \in Nat /\ c[k] < b^k
    BY <1>1, <1>4
  <2>2. d[k + 1] \in 0 .. b - 1
    BY <2>1
  <2>3. b^k \in Nat /\ b^(k + 1) = b^k * b /\ b^(k + 1) <= 2^ChunkBits
    BY <1>1, <1>2, <2>1
  <2>4. (c[k] + 1) * b <= b^k * b /\ c[k] * b \in Nat
    <3> DEFINE x == c[k]
               y == b^k
    <3>1. x \in Nat /\ x + 1 \in Nat /\ y \in Nat /\ x + 1 <= y /\ b \in Nat
      BY <1>1, <2>1, <2>3
    <3> HIDE DEF x, y
    <3>2. (x + 1) * b <= y * b /\ x * b \in Nat
      BY <3>1, Times
    <3>3. QED
      BY <3>2 DEF x, y
  <2>5. (c[k] + 1) * b = c[k] * b + b
    BY <1>1, <2>1
  <2>6. c[k] * b + d[k + 1] \in Nat /\ c[k] * b + d[k + 1] < b^(k + 1)
    BY <1>1, <2>2, <2>3, <2>4, <2>5
  <2>7. c[k + 1] = (c[k] * b + d[k + 1]) % 2^ChunkBits
    BY <2>1 DEF IsNumber
  <2>8. (c[k] * b + d[k + 1]) % 2^ChunkBits = c[k] * b + d[k + 1]
    <3> DEFINE x == c[k] * b + d[k + 1]
               p == b^(k + 1)
               y == 2^ChunkBits
    <3>1. x \in Nat /\ p \in Nat /\ y \in Nat /\ x < p /\ p <= y
      BY <1>1, <1>2, <2>1, <2>3, <2>6
    <3> HIDE DEF x, p, y
    <3>2. x < y
      BY <3>1
    <3>3. x % y = x
      BY <3>1, <3>2, Remainder
    <3>4. QED
      BY <3>3 DEF x, y
  <2>9. QED
    BY <2>6, <2>7, <2>8
<1>5. Nat \subseteq T
  <2> HIDE DEF T
  <2> QED
    BY <1>3, <1>4, AllNaturals
<1>6. \A k \in 0 .. n : k \in T /\ k <= n
  BY <1>1, <1>5
<1>7. \A k \in 1 .. n : k \in T /\ k <= n /\ k > 0
  BY <1>1, <1>5
<1>8. QED
  BY <1>6, <1>7

(***************************************************************************)
(* The number whose first different digit is smaller is the smaller one.   *)
(***************************************************************************)
LEMMA SmallerNumber ==
    ASSUME NEW b, NEW n, Powers(b, n), b^n <= 2^ChunkBits,
           NEW c1, NEW d1, IsNumber(c1, d1, b, n), \A k \in 1 .. n : d1[k] \in 0 .. b - 1,
           NEW c2, NEW d2, IsNumber(c2, d2, b, n), \A k \in 1 .. n : d2[k] \in 0 .. b - 1,
           NEW q \in 1 .. n, \A k \in 1 .. q - 1 : d1[k] = d2[k], d1[q] < d2[q]
    PROVE  c1[n] < c2[n]
<1> DEFINE T == {k \in Nat : k <= n => IF k < q THEN c1[k] = c2[k] ELSE c1[k] < c2[k]}
<1>1. n \in Nat /\ q \in Nat /\ b \in Nat /\ b >= 1
  BY DEF Powers
<1>2. /\ \A k \in 0 .. n : c1[k] \in Nat
      /\ \A k \in 1 .. n : c1[k] = c1[k - 1] * b + d1[k]
  BY NumberExact
<1>3. /\ \A k \in 0 .. n : c2[k] \in Nat
      /\ \A k \in 1 .. n : c2[k] = c2[k - 1] * b + d2[k]
  BY NumberExact
<1>4. 0 \in T
  BY <1>1 DEF IsNumber
<1>5. ASSUME NEW k \in Nat, k \in T PROVE k + 1 \in T
  <2> SUFFICES ASSUME k + 1 <= n
               PROVE  IF k + 1 < q THEN c1[k + 1] = c2[k + 1] ELSE c1[k + 1] < c2[k + 1]
    OBVIOUS
  <2>1. k + 1 \in 1 .. n /\ (k + 1) - 1 = k /\ k \in 0 .. n
    BY <1>1
  <2>2. /\ c1[k + 1] = c1[k] * b + d1[k + 1] /\ c1[k] \in Nat /\ d1[k + 1] \in 0 .. b - 1
        /\ c2[k + 1] = c2[k] * b + d2[k + 1] /\ c2[k] \in Nat /\ d2[k + 1] \in 0 .. b - 1
    BY <1>2, <1>3, <2>1
  <2>3. CASE k + 1 < q
    <3>1. k < q /\ k <= n /\ k + 1 \in 1 .. q - 1
      BY <1>1, <2>1, <2>3
    <3>2. c1[k] = c2[k] /\ d1[k + 1] = d2[k + 1]
      BY <1>5, <3>1
    <3>3. QED
      BY <2>2, <2>3, <3>2
  <2>4. CASE k + 1 = q
    <3>1. k < q /\ k <= n
      BY <1>1, <2>1, <2>4
    <3>2. c1[k] = c2[k] /\ d1[k + 1] < d2[k + 1]
      BY <1>5, <2>4, <3>1
    <3>3. c1[k] * b \in Nat
      BY <1>1, <2>2
    <3>4. QED
      BY <1>1, <2>2, <2>4, <3>2, <3>3
  <2>5. CASE q < k + 1
    <3>1. ~ (k < q) /\ k <= n
      BY <1>1, <2>1, <2>5
    <3>2. c1[k] < c2[k]
      BY <1>5, <3>1
    <3>3. (c1[k] + 1) * b <= c2[k] * b /\ c2[k] * b \in Nat
      <4>1. c1[k] + 1 \in Nat /\ c1[k] + 1 <= c2[k]
        BY <2>2, <3>2
      <4>2. QED
        BY <1>1, <2>2, <4>1, Times
    <3>4. (c1[k] + 1) * b = c1[k] * b + b /\ c1[k] * b \in Nat
      BY <1>1, <2>2
    <3>5. c1[k + 1] < c2[k + 1]
      BY <1>1, <2>2, <3>3, <3>4
    <3>6. QED
      BY <1>1, <2>5, <3>5
  <2>6. QED
    BY <1>1, <2>3, <2>4, <2>5
<1>6. Nat \subseteq T
  <2> HIDE DEF T
  <2> QED
    BY <1>4, <1>5, AllNaturals
<1>7. n \in T /\ n <= n /\ ~ (n < q)
  BY <1>1, <1>6
<1>8. QED
  BY <1>7

\* the recursive function that readChunk computes with exists
LEMMA NumberExists ==
    ASSUME NEW d, NEW b, NEW n \in Nat
    PROVE  \E f : f = [k \in 0 .. n |-> IF k = 0 THEN 0
                                        ELSE (f[k - 1] * b + d[k]) % 2^ChunkBits]
<1> DEFINE Step(v, k) == (v * b + d[k]) % 2^ChunkBits
           Is(f, l) == f = [k \in 0 .. l |-> IF k = 0 THEN 0 ELSE Step(f[k - 1], k)]
           T == {l \in Nat : \E f : Is(f, l)}
<1> HIDE DEF Step
<1>1. 0 \in T
  <2>1. Is([k \in 0 .. 0 |-> 0], 0)
    OBVIOUS
  <2>2. QED
    BY <2>1
<1>2. ASSUME NEW l \in Nat, l \in T PROVE l + 1 \in T
  <2>1. PICK f : Is(f, l)
    BY <1>2
  <2> DEFINE g == [k \in 0 .. l + 1 |-> IF k <= l THEN f[k] ELSE Step(f[l], l + 1)]
             body == [k \in 0 .. l + 1 |-> IF k = 0 THEN 0 ELSE Step(g[k - 1], k)]
  <2>2. ASSUME NEW k \in 0 .. l + 1 PROVE g[k] = body[k]
    <3>1. CASE k = 0
      BY <2>1, <3>1
    <3>2. CASE k # 0 /\ k <= l
      <4>1. k \in 0 .. l /\ k - 1 \in 0 .. l + 1 /\ k - 1 <= l
        BY <3>2
      <4>2. f[k] = Step(f[k - 1], k)
        BY <2>1, <3>2, <4>1
      <4>3. g[k] = f[k] /\ g[k - 1] = f[k - 1] /\ body[k] = Step(g[k - 1], k)
        BY <3>2, <4>1
      <4>4. QED
        BY <4>2, <4>3
    <3>3. CASE k = l + 1
      <4>1. l \in 0 .. l + 1 /\ l <= l /\ k - 1 = l /\ ~ (k <= l) /\ k # 0
        BY <3>3
      <4>2. g[k] = Step(f[l], l + 1) /\ g[l] = f[l] /\ body[k] = Step(g[k - 1], k)
        BY <4>1
      <4>3. QED
        BY <3>3, <4>1, <4>2
    <3>4. QED
      BY <3>1, <3>2, <3>3
  <2>3. Is(g, l + 1)
    <3>1. g = body
      <4>1. g = [k \in 0 .. l + 1 |-> g[k]] /\ body = [k \in 0 .. l + 1 |-> body[k]]
        OBVIOUS
      <4> HIDE DEF g, body
      <4>2. QED
        BY <2>2, <4>1
    <3>2. QED
      BY <3>1
  <2> HIDE DEF g
  <2>4. QED
    BY <2>3
<1>3. n \in T
  <2> HIDE DEF T
  <2> QED
    BY <1>1, <1>2, AllNaturals
<1>4. QED
  BY <1>3 DEF Step

-----------------------------------------------------------------------------
\* ranks of characters of an alphabet
LEMMA RankInAlphabet ==
    ASSUME NEW A \in SUBSET Chars, NEW b \in A
    PROVE  /\ rank(A, b) \in Nat /\ rank(A, b) < Cardinality(A)
           /\ \A c \in A : b < c => rank(A, b) < rank(A, c)
<1>1. IsFiniteSet(A) /\ A \in SUBSET Nat
  BY CharsFinite, FS_Subset
<1>2. \A c \in A : rank(A, c) = RankIn(A, c)
  BY DEF rank, RankIn, Below
<1>3. RankIn(A, b) \in Nat /\ RankIn(A, b) < Cardinality(A)
  <2>1. b \in Nat
    BY <1>1
  <2>2. QED
    BY <1>1, <2>1, RankType, RankBelowSize
<1>4. \A c \in A : b < c => RankIn(A, b) < RankIn(A, c)
  BY <1>1, RankOrder
<1>5. QED
  BY <1>2, <1>3, <1>4

\* the rank of a character that the alphabet need not have
LEMMA RankOfAny ==
    ASSUME NEW A \in SUBSET Chars, NEW c
    PROVE  rank(A, c) \in Nat
<1>1. CASE c \in A
  BY <1>1, RankInAlphabet
<1>2. CASE c \notin A
  BY <1>2 DEF rank
<1>3. QED
  BY <1>1, <1>2
=============================================================================
