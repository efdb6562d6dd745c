--------------------------- MODULE Spline_proofs ---------------------------
(***************************************************************************)
(* For all keys, errors and radix bits: no assertion of the spline builder *)
(* fails, the corridor is sound, the radix table never changes a search,   *)
(* and the spline meets its error bound, and stays below one of one and    *)
(* more, if the largest key is stored once.                                *)
(*                                                                         *)
(* What the users of the spline rely on: the containers that search their  *)
(* keys through it answer as std::multimap does, if the largest key is     *)
(* stored once, since the search bound, computed from one truncated        *)
(* estimate, always contains the position to be found.  RSHash with the    *)
(* spline its constructor builds is an RSHash whose estimates meet         *)
(* EstimateContract, and its buckets are bounded by the error.             *)
(***************************************************************************)
EXTENDS SplineIndex, RSHashSpline, Counting_proofs


Coords == [x : Nat, y : Nat]

\* the prefix of a key in the radix table
Shift(x) == ShiftRight(x - min_key, num_shift_bits)

\* CdfPoints of the first n keys of d
CdfOf(d, n) ==
    {Coord(d[h], h - 1) : h \in {j \in 1 .. n : j = 1 \/ d[j - 1] # d[j]}}

LargestKeyUnique == Len(data) = 1 \/ data[Len(data) - 1] # max_key

-----------------------------------------------------------------------------
(* The parts of the invariant. *)

Types ==
    /\ data \in Inputs /\ max_error \in Nat /\ num_shift_bits \in 0 .. KeyBits
    /\ built \in BOOLEAN /\ curr_num_keys \in 0 .. Len(data)
    /\ curr_num_distinct_keys \in Nat
    /\ prev_key \in Nat /\ prev_position \in Nat /\ prev_prefix \in Nat
    /\ spline_points \in Seq(Coords)
    /\ radix_table \in [0 .. Shift(max_key) + 1 -> Nat]
    /\ upper_limit \in Coords /\ lower_limit \in Coords /\ prev_point \in Coords
    /\ built => curr_num_keys = Len(data)

BeforeFirstKey ==
    curr_num_keys = 0 =>
        /\ curr_num_distinct_keys = 0 /\ spline_points = <<>>
        /\ prev_key = min_key /\ prev_prefix = 0
        /\ \A p \in DOMAIN radix_table : radix_table[p] = 0

\* positions grow with the keys, and prev_point is the last point of the CDF
Cdf ==
    curr_num_keys > 0 =>
        /\ curr_num_distinct_keys >= 1
        /\ prev_key = data[curr_num_keys] /\ prev_position = curr_num_keys - 1
        /\ prev_point \in CdfPoints /\ prev_point.x = prev_key
        /\ \A c \in CdfPoints : c.x <= prev_key /\ c.y <= prev_position
        /\ \A c, e \in CdfPoints : c.x <= e.x => c.y <= e.y

Points ==
    curr_num_keys > 0 =>
        /\ spline_points # <<>>
        /\ spline_points[1] = Coord(min_key, 0)
        /\ \A h \in 1 .. Len(spline_points) :
              min_key <= spline_points[h].x /\ spline_points[h].x <= LastPoint.x
        /\ built => LastPoint.x = max_key
        /\ ~ built => LastPoint \in CdfPoints

\* the last CDF point is a candidate for the spline, the limits lie right of it
Candidate ==
    (curr_num_keys > 0 /\ ~ built) =>
        /\ curr_num_distinct_keys = 1 => LastPoint = prev_point
        /\ curr_num_distinct_keys >= 2 =>
              /\ prev_point.x > LastPoint.x
              /\ upper_limit.x > LastPoint.x /\ lower_limit.x > LastPoint.x
              /\ upper_limit.y >= LastPoint.y

\* the points with prefixes below p are those before index t
Splits(points, t, p) ==
    /\ t <= Len(points)
    /\ \A h \in 1 .. Len(points) : IF h <= t THEN Shift(points[h].x) < p
                                   ELSE Shift(points[h].x) >= p

Table ==
    curr_num_keys > 0 =>
        /\ ~ built => prev_prefix = Shift(LastPoint.x)
        /\ \A p \in DOMAIN radix_table : 
              (built \/ p <= prev_prefix) => Splits(spline_points, radix_table[p], p)

\* Seen from o, the vector to a is at least as steep as the vector to b.
Steeper(o, a, b) ==
    (a.y - o.y) * (b.x - o.x) >= (b.y - o.y) * (a.x - o.x)

\* rays from o between the limits pass within e of C, the ray to p is one
Between(o, upper, lower, p, C, e) ==
    /\ Steeper(o, upper, p) /\ Steeper(o, p, lower)
    /\ \A c \in C : c.x > o.x => /\ Steeper(o, Coord(c.x, c.y + e), upper)
                                 /\ Steeper(o, lower, Coord(c.x, c.y - e))

Corridor ==
    (curr_num_keys > 0 /\ ~ built /\ curr_num_distinct_keys >= 2) =>
        Between(LastPoint, upper_limit, lower_limit, prev_point, CdfPoints, max_error)

\* the segment from a to b passes within e of c
Near(a, b, c, e) ==
    /\ Steeper(a, Coord(c.x, c.y + e), b)
    /\ Steeper(a, b, Coord(c.x, c.y - e))

SegmentsNear(points, C, e) ==
    \A h \in 1 .. Len(points) - 1 : \A c \in C :
        (points[h].x <= c.x /\ c.x <= points[h + 1].x) =>
            Near(points[h], points[h + 1], c, e)

Segments ==
    (built => LargestKeyUnique) => SegmentsNear(spline_points, CdfPoints, max_error)

IInv == /\ Types /\ BeforeFirstKey /\ Cdf /\ Points /\ Candidate /\ Table
        /\ Corridor /\ Segments

-----------------------------------------------------------------------------
(* Arithmetic. *)

LEMMA DivisionBy ==
    ASSUME NEW a \in Nat, NEW k \in Nat \ {0}
    PROVE  /\ a \div k \in Nat /\ a % k \in 0 .. k - 1
           /\ a = k * (a \div k) + (a % k)
  OBVIOUS

LEMMA ProductsMonotone ==
    ASSUME NEW a \in Int, NEW b \in Int, NEW k \in Nat, a <= b
    PROVE  k * a <= k * b
  OBVIOUS

LEMMA QuotientsMonotone ==
    ASSUME NEW a \in Nat, NEW b \in Nat, NEW k \in Nat \ {0}, a <= b
    PROVE  a \div k <= b \div k
<1>1. SUFFICES ASSUME b \div k + 1 <= a \div k PROVE FALSE
  BY DivisionBy
<1>2. k * (b \div k + 1) <= k * (a \div k)
  BY <1>1, DivisionBy, ProductsMonotone
<1>3. k * (b \div k + 1) = k * (b \div k) + k
  BY DivisionBy
<1> QED
  BY <1>2, <1>3, DivisionBy

LEMMA Distribute ==
    ASSUME NEW a \in Int, NEW b \in Int, NEW k \in Int
    PROVE  (a - b) * k = a * k - b * k
  OBVIOUS

LEMMA CancelFactor ==
    ASSUME NEW a \in Int, NEW b \in Int, NEW k \in Nat \ {0}, k * a <= k * b
    PROVE  a <= b
<1>1. SUFFICES ASSUME b + 1 <= a PROVE FALSE
  OBVIOUS
<1>2. k * (b + 1) <= k * a
  BY <1>1, ProductsMonotone
<1>3. k * (b + 1) = k * b + k
  OBVIOUS
<1> QED
  BY <1>2, <1>3

\* a set of naturals has one least element
LEMMA LeastIndexOf ==
    ASSUME NEW I \in SUBSET Nat, I # {}
    PROVE  LeastIndex(I) \in I /\ \A j \in I : LeastIndex(I) <= j
<1> DEFINE R == {ss \in Nat \X Nat : ss[1] < ss[2]}
<1>1. IsWellFoundedOn(R, Nat)
  BY NatLessThanWellFounded DEF OpToRel
<1>2. PICK x \in I : \A y \in I : ~ (<<y, x>> \in R)
  <2> HIDE DEF R
  <2> QED
    BY <1>1, WFMin
<1>3. \A y \in I : ~ (y < x)
  BY <1>2
<1>4. \A y \in I : x <= y
  BY <1>3
<1> HIDE DEF R
<1> QED
  BY <1>4 DEF LeastIndex

\* slopes seen from one point are ordered
LEMMA SteeperTransitive ==
    ASSUME NEW ax \in Nat \ {0}, NEW bx \in Nat \ {0}, NEW cx \in Nat \ {0},
           NEW ay \in Int, NEW by \in Int, NEW cy \in Int,
           ay * bx >= by * ax, by * cx >= cy * bx
    PROVE  ay * cx >= cy * ax
<1>1. cx * (by * ax) <= cx * (ay * bx)
  BY ProductsMonotone
<1>2. ax * (cy * bx) <= ax * (by * cx)
  BY ProductsMonotone
<1>3. /\ cx * (ay * bx) = bx * (ay * cx) /\ ax * (cy * bx) = bx * (cy * ax)
      /\ cx * (by * ax) = ax * (by * cx)
  OBVIOUS
<1>4. /\ bx * (cy * ax) \in Int /\ bx * (ay * cx) \in Int /\ ax * (by * cx) \in Int
  OBVIOUS
<1>5. bx * (cy * ax) <= bx * (ay * cx)
  BY <1>1, <1>2, <1>3, <1>4
<1> QED
  BY <1>5, CancelFactor

-----------------------------------------------------------------------------
(* The parameters, and the initial states. *)

LEMMA ElementOf ==
    ASSUME NEW S, NEW d \in Seq(S), NEW h \in 1 .. Len(d)
    PROVE  d[h] \in S
  OBVIOUS

LEMMA KeysGiven ==
    ASSUME NEW d \in Inputs
    PROVE  /\ Len(d) \in Nat \ {0}
           /\ \A h \in 1 .. Len(d) : d[h] \in Nat
           /\ \A h, j \in 1 .. Len(d) : h <= j => d[h] <= d[j]
<1>1. d \in Seq(0 .. 2^KeyBits - 1) /\ d # <<>>
  BY InputsAssumption
<1>2. \A h \in 1 .. Len(d) : d[h] \in 0 .. 2^KeyBits - 1
  BY <1>1, ElementOf
<1>3. 2^KeyBits \in Nat
  BY PowersAssumption, KeyBitsAssumption
<1> QED
  BY <1>1, <1>2, <1>3, InputsAssumption

LEMMA BitWidthBounded ==
    ASSUME NEW n \in Nat
    PROVE  BitWidth(n) \in 0 .. KeyBits
<1> DEFINE B == {b \in 0 .. KeyBits - 1 : 2^b <= n}
<1>1. IsFiniteSet(0 .. KeyBits - 1) /\ Cardinality(0 .. KeyBits - 1) = KeyBits
  BY KeyBitsAssumption, FS_Interval
<1>2. B \subseteq 0 .. KeyBits - 1
  OBVIOUS
<1> HIDE DEF B
<1>3. IsFiniteSet(B) /\ Cardinality(B) <= KeyBits
  BY <1>1, <1>2, FS_Subset
<1>4. Cardinality(B) \in Nat
  BY <1>3, FS_CardinalityType
<1> QED
  BY <1>3, <1>4, KeyBitsAssumption DEF BitWidth, B

LEMMA ShiftsBounded ==
    ASSUME NEW diff \in Nat, NEW bits \in RadixBits
    PROVE  GetNumShiftBits(diff, bits) \subseteq 0 .. KeyBits
<1>1. bits \in Nat \ {0} /\ UndefinedShifts \subseteq 0 .. KeyBits
  BY ParametersAssumption
<1>2. PICK w \in 0 .. KeyBits : w = BitWidth(diff)
  BY BitWidthBounded
<1>3. GetNumShiftBits(diff, bits) =
          IF diff = 0 THEN UndefinedShifts ELSE {IF w < bits THEN 0 ELSE w - bits}
  BY <1>2 DEF GetNumShiftBits
<1>4. (IF w < bits THEN 0 ELSE w - bits) \in 0 .. KeyBits
  BY <1>1, KeyBitsAssumption
<1> QED
  BY <1>1, <1>3, <1>4

LEMMA KeysBetween ==
    ASSUME data \in Inputs
    PROVE  /\ min_key \in Nat /\ max_key \in Nat
           /\ \A h \in 1 .. Len(data) : min_key <= data[h] /\ data[h] <= max_key
<1>1. /\ Len(data) \in Nat \ {0} /\ \A h \in 1 .. Len(data) : data[h] \in Nat
      /\ \A h, j \in 1 .. Len(data) : h <= j => data[h] <= data[j]
  BY KeysGiven
<1>2. 1 \in 1 .. Len(data) /\ Len(data) \in 1 .. Len(data)
  BY <1>1
<1> QED
  BY <1>1, <1>2 DEF min_key, max_key

LEMMA ShiftMonotone ==
    ASSUME data \in Inputs, num_shift_bits \in 0 .. KeyBits,
           NEW x \in Nat, NEW y \in Nat, min_key <= x, x <= y
    PROVE  Shift(x) \in Nat /\ Shift(y) \in Nat /\ Shift(x) <= Shift(y)
<1>1. 2^num_shift_bits \in Nat \ {0}
  BY PowersAssumption
<1>2. min_key \in Nat /\ x - min_key \in Nat /\ y - min_key \in Nat
  BY KeysBetween
<1> DEFINE k == 2^num_shift_bits
<1> HIDE DEF k
<1>3. k \in Nat \ {0}
  BY <1>1 DEF k
<1>4. x - min_key <= y - min_key
  BY <1>2
<1> HIDE DEF min_key
<1>5. /\ (x - min_key) \div k \in Nat /\ (y - min_key) \div k \in Nat
      /\ (x - min_key) \div k <= (y - min_key) \div k
  BY <1>2, <1>3, <1>4, DivisionBy, QuotientsMonotone
<1> QED
  BY <1>5 DEF k, Shift, ShiftRight

LEMMA ShiftOfFirst ==
    ASSUME data \in Inputs, num_shift_bits \in 0 .. KeyBits
    PROVE  Shift(min_key) = 0
<1>1. 2^num_shift_bits \in Nat \ {0} /\ min_key \in Nat
  BY PowersAssumption, KeysBetween
<1> DEFINE k == 2^num_shift_bits
<1> HIDE DEF k
<1>2. k \in Nat \ {0}
  BY <1>1 DEF k
<1>3. min_key - min_key = 0 /\ 0 \div k = 0
  BY <1>1, <1>2
<1> QED
  BY <1>3 DEF Shift, ShiftRight, k

LEMMA Initially == Init => IInv
<1> SUFFICES ASSUME Init PROVE IInv
  OBVIOUS
<1>1. data \in Inputs /\ max_error \in Nat
  BY ParametersAssumption DEF Init
<1>2. /\ Len(data) \in Nat \ {0} /\ min_key \in Nat /\ max_key \in Nat
      /\ min_key <= max_key
  BY <1>1, KeysGiven, KeysBetween DEF min_key, max_key
<1>3. num_shift_bits \in 0 .. KeyBits
  <2>1. PICK bits \in RadixBits :
           num_shift_bits \in GetNumShiftBits(max_key - min_key, bits)
    BY DEF Init
  <2> QED
    BY <2>1, <1>2, ShiftsBounded
<1>4. radix_table \in [0 .. Shift(max_key) + 1 -> Nat]
  BY DEF Init, Shift
<1>5. curr_num_keys = 0 /\ curr_num_keys \in 0 .. Len(data)
  BY <1>2 DEF Init
<1>6. /\ curr_num_distinct_keys \in Nat /\ prev_position \in Nat /\ prev_prefix \in Nat
      /\ prev_key = min_key /\ spline_points \in Seq(Coords) /\ built = FALSE
  BY DEF Init
<1>7. upper_limit \in Coords /\ lower_limit \in Coords /\ prev_point \in Coords
  BY DEF Init, Coords, Coord
<1>8. Types
  BY <1>1, <1>2, <1>3, <1>4, <1>5, <1>6, <1>7 DEF Types
<1>9. BeforeFirstKey
  BY <1>4 DEF Init, BeforeFirstKey, Shift
<1> QED
  BY <1>5, <1>6, <1>8, <1>9 DEF Init, IInv, Cdf, Points, Candidate, Table, Corridor, Segments,
                                SegmentsNear

-----------------------------------------------------------------------------
(* The points of the CDF. *)

LEMMA CdfGrows ==
    ASSUME NEW d \in Inputs, NEW n \in 0 .. Len(d) - 1
    PROVE  CdfOf(d, n + 1) = IF n = 0 \/ d[n] # d[n + 1]
                             THEN CdfOf(d, n) \cup {Coord(d[n + 1], n)}
                             ELSE CdfOf(d, n)
<1> DEFINE First(m) == {j \in 1 .. m : j = 1 \/ d[j - 1] # d[j]}
<1>1. First(n + 1) = IF n = 0 \/ d[n] # d[n + 1] THEN First(n) \cup {n + 1}
                     ELSE First(n)
  <2>1. 1 .. n + 1 = (1 .. n) \cup {n + 1} /\ (n + 1) - 1 = n /\ n + 1 \notin 1 .. n
    BY KeysGiven
  <2>2. n + 1 = 1 <=> n = 0
    OBVIOUS
  <2> QED
    BY <2>1, <2>2
<1>2. CdfOf(d, n) = {Coord(d[h], h - 1) : h \in First(n)}
  BY DEF CdfOf
<1>3. CdfOf(d, n + 1) = {Coord(d[h], h - 1) : h \in First(n + 1)}
  BY DEF CdfOf
<1>4. (n + 1) - 1 = n
  OBVIOUS
<1> HIDE DEF First
<1> QED
  BY <1>1, <1>2, <1>3, <1>4

LEMMA CdfOfKeys ==
    ASSUME data \in Inputs, NEW n \in 0 .. Len(data), NEW c \in CdfOf(data, n)
    PROVE  /\ c \in Coords /\ c.y <= n - 1
           /\ min_key <= c.x /\ c.x <= max_key
<1>1. PICK h \in 1 .. n : c = Coord(data[h], h - 1)
  BY DEF CdfOf
<1>2. /\ Len(data) \in Nat \ {0} /\ h \in 1 .. Len(data) /\ data[h] \in Nat
      /\ h - 1 \in Nat /\ h - 1 <= n - 1
  BY <1>1, KeysGiven
<1> QED
  BY <1>1, <1>2, KeysBetween DEF Coord, Coords

LEMMA CdfIsCdfOf == CdfPoints = CdfOf(data, curr_num_keys)
  BY DEF CdfPoints, CdfOf

\* the only copy of the largest key is the last point of the CDF
LEMMA LastKeyUnique ==
    ASSUME Types, Cdf, curr_num_keys = Len(data), LargestKeyUnique
    PROVE  prev_point = Coord(prev_key, prev_position)
<1>1. Len(data) \in Nat \ {0} /\ data \in Inputs
  BY KeysGiven DEF Types
<1>2. Coord(data[Len(data)], Len(data) - 1) \in CdfPoints
  <2>1. Len(data) = 1 \/ data[Len(data) - 1] # data[Len(data)]
    BY <1>1 DEF LargestKeyUnique, max_key
  <2> QED
    BY <1>1, <2>1 DEF CdfPoints
<1>3. /\ prev_key = data[Len(data)] /\ prev_position = Len(data) - 1
      /\ prev_point \in CdfPoints /\ prev_point.x = prev_key
      /\ \A c, e \in CdfPoints : c.x <= e.x => c.y <= e.y
  BY <1>1 DEF Cdf
<1>4. prev_point \in Coords /\ prev_key \in Nat /\ prev_position \in Nat
  BY DEF Types
<1>5. Coord(prev_key, prev_position) \in CdfPoints
  BY <1>2, <1>3
<1>6. prev_point.y = prev_position
  BY <1>3, <1>4, <1>5 DEF Coord, Coords
<1> QED
  BY <1>3, <1>4, <1>6 DEF Coord, Coords

-----------------------------------------------------------------------------
(* The entries of the radix table, and the segments of the spline. *)

LEMMA SplitsGrow ==
    ASSUME data \in Inputs, num_shift_bits \in 0 .. KeyBits,
           NEW P \in Seq(Coords), P # <<>>, NEW point \in Coords,
           \A h \in 1 .. Len(P) : min_key <= P[h].x /\ P[h].x <= P[Len(P)].x,
           P[Len(P)].x <= point.x, NEW p \in Nat, NEW t \in Nat
    PROVE  /\ p <= Shift(P[Len(P)].x) /\ Splits(P, t, p) => Splits(Append(P, point), t, p)
           /\ Shift(P[Len(P)].x) < p /\ p <= Shift(point.x) =>
                 Splits(Append(P, point), Len(P), p)
<1> DEFINE Q == Append(P, point)
<1>1. /\ Len(P) \in Nat \ {0} /\ Len(P) \in 1 .. Len(P) /\ Len(Q) = Len(P) + 1
      /\ \A h \in 1 .. Len(P) : Q[h] = P[h] /\ P[h] \in Coords
      /\ Q[Len(P) + 1] = point
  OBVIOUS
<1>2. P[Len(P)] \in Coords /\ P[Len(P)].x \in Nat /\ point.x \in Nat
  BY <1>1 DEF Coords
<1>3. \A h \in 1 .. Len(P) : P[h].x \in Nat
  BY <1>1 DEF Coords
<1>4. \A h \in 1 .. Len(P) : /\ Shift(P[h].x) \in Nat
                             /\ Shift(P[h].x) <= Shift(P[Len(P)].x)
  BY <1>2, <1>3, ShiftMonotone
<1>5. /\ Shift(P[Len(P)].x) \in Nat /\ Shift(point.x) \in Nat
      /\ Shift(P[Len(P)].x) <= Shift(point.x)
  BY <1>1, <1>2, ShiftMonotone
<1>6. \A h \in 1 .. Len(Q) : h \in 1 .. Len(P) \/ h = Len(P) + 1
  BY <1>1
<1> HIDE DEF Q
<1>7. ASSUME p <= Shift(P[Len(P)].x), Splits(P, t, p)
      PROVE  Splits(Q, t, p)
  <2>1. /\ t <= Len(P)
        /\ \A h \in 1 .. Len(P) : IF h <= t THEN Shift(P[h].x) < p ELSE Shift(P[h].x) >= p
    BY <1>7 DEF Splits
  <2>2. t <= Len(Q) /\ ~ (Len(P) + 1 <= t) /\ Shift(point.x) >= p
    BY <1>1, <1>5, <1>7, <2>1
  <2>3. ASSUME NEW h \in 1 .. Len(Q)
        PROVE  IF h <= t THEN Shift(Q[h].x) < p ELSE Shift(Q[h].x) >= p
    <3>1. CASE h \in 1 .. Len(P)
      BY <1>1, <2>1, <3>1
    <3>2. CASE h = Len(P) + 1
      BY <1>1, <2>2, <3>2
    <3> QED
      BY <1>6, <3>1, <3>2
  <2> QED
    BY <2>2, <2>3 DEF Splits
<1>8. ASSUME Shift(P[Len(P)].x) < p, p <= Shift(point.x)
      PROVE  Splits(Q, Len(P), p)
  BY <1>1, <1>4, <1>5, <1>6, <1>8 DEF Splits
<1> QED
  BY <1>7, <1>8 DEF Q

\* all prefixes of the points are below p
LEMMA SplitsPast ==
    ASSUME data \in Inputs, num_shift_bits \in 0 .. KeyBits,
           NEW P \in Seq(Coords), NEW x \in Nat, NEW p \in Nat, Shift(x) < p,
           \A h \in 1 .. Len(P) : min_key <= P[h].x /\ P[h].x <= x
    PROVE  Splits(P, Len(P), p)
<1>1. \A h \in 1 .. Len(P) : P[h] \in Coords
  BY ElementOf
<1>2. \A h \in 1 .. Len(P) : P[h].x \in Nat
  BY <1>1 DEF Coords
<1>3. \A h \in 1 .. Len(P) : /\ Shift(P[h].x) \in Nat /\ Shift(x) \in Nat
                             /\ Shift(P[h].x) <= Shift(x)
  BY <1>2, ShiftMonotone
<1>4. Len(P) \in Nat
  OBVIOUS
<1> QED
  BY <1>3, <1>4 DEF Splits

LEMMA SegmentAdded ==
    ASSUME NEW P \in Seq(Coords), P # <<>>, NEW point \in Coords, NEW C,
           NEW e, SegmentsNear(P, C, e),
           \A c \in C : (P[Len(P)].x <= c.x /\ c.x <= point.x) => Near(P[Len(P)], point, c, e)
    PROVE  SegmentsNear(Append(P, point), C, e)
<1> DEFINE Q == Append(P, point)
<1>1. /\ Len(P) \in Nat \ {0} /\ Len(Q) = Len(P) + 1
      /\ \A h \in 1 .. Len(P) : Q[h] = P[h]
      /\ Q[Len(P) + 1] = point
  OBVIOUS
<1> HIDE DEF Q
<1>2. SUFFICES ASSUME NEW h \in 1 .. Len(Q) - 1, NEW c \in C,
                      Q[h].x <= c.x, c.x <= Q[h + 1].x
               PROVE  Near(Q[h], Q[h + 1], c, e)
  BY DEF SegmentsNear, Q
<1>3. CASE h = Len(P)
  BY <1>1, <1>2, <1>3
<1>4. CASE h # Len(P)
  <2>1. h \in 1 .. Len(P) - 1 /\ h \in 1 .. Len(P) /\ h + 1 \in 1 .. Len(P)
    BY <1>1, <1>4
  <2> QED
    BY <1>1, <1>2, <2>1 DEF SegmentsNear
<1> QED
  BY <1>3, <1>4

\* a key right of the spline is on none of its segments
LEMMA SegmentsKept ==
    ASSUME NEW P \in Seq(Coords), NEW C, NEW c \in Coords,
           NEW e, SegmentsNear(P, C, e),
           \A h \in 1 .. Len(P) : P[h].x < c.x
    PROVE  SegmentsNear(P, C \cup {c}, e)
<1>1. \A h \in 1 .. Len(P) : P[h] \in Coords
  BY ElementOf
<1>2. Len(P) \in Nat /\ c.x \in Nat /\ \A h \in 1 .. Len(P) : P[h].x \in Nat
  BY <1>1 DEF Coords
<1> QED
  BY <1>2 DEF SegmentsNear

-----------------------------------------------------------------------------
(* Slopes. *)

\* what the corridor compares: a key, and a position that may be negative
Marks == [x : Nat, y : Int]

LEMMA CoordsAreMarks ==
    ASSUME NEW c \in Coords, NEW e \in Nat
    PROVE  /\ c \in Marks /\ c.x \in Nat /\ c.y \in Nat
           /\ Coord(c.x, c.y + e) \in Marks /\ Coord(c.x, c.y - e) \in Marks
           /\ Coord(c.x, c.y + e).x = c.x /\ Coord(c.x, c.y + e).y = c.y + e
           /\ Coord(c.x, c.y - e).x = c.x /\ Coord(c.x, c.y - e).y = c.y - e
  BY DEF Coords, Marks, Coord

LEMMA SteeperOrder ==
    ASSUME NEW o \in Marks, NEW a \in Marks, NEW b \in Marks, NEW c \in Marks,
           a.x > o.x, b.x > o.x, c.x > o.x, Steeper(o, a, b), Steeper(o, b, c)
    PROVE  Steeper(o, a, c)
<1>1. /\ a.x - o.x \in Nat \ {0} /\ b.x - o.x \in Nat \ {0} /\ c.x - o.x \in Nat \ {0}
      /\ a.y - o.y \in Int /\ b.y - o.y \in Int /\ c.y - o.y \in Int
  BY DEF Marks
<1> QED
  BY <1>1, SteeperTransitive DEF Steeper

LEMMA Higher ==
    ASSUME NEW o \in Marks, NEW a \in Marks, NEW b \in Marks,
           a.x = b.x, a.x >= o.x, a.y >= b.y
    PROVE  Steeper(o, a, b)
<1>1. /\ a.x - o.x \in Nat /\ a.y - o.y \in Int /\ b.y - o.y \in Int
      /\ b.y - o.y <= a.y - o.y
  BY DEF Marks
<1>2. (a.x - o.x) * (b.y - o.y) <= (a.x - o.x) * (a.y - o.y)
  BY <1>1, ProductsMonotone
<1> QED
  BY <1>1, <1>2 DEF Steeper

\* a ray from a point runs at any error below and above the point itself
LEMMA NearItself ==
    ASSUME NEW o \in Coords, NEW p \in Coords, p.x >= o.x, NEW e \in Nat
    PROVE  Near(o, p, o, e)
<1>1. /\ p.x - o.x \in Nat /\ 0 <= e /\ p.y - o.y \in Int
      /\ o.x - o.x = 0 /\ (o.y + e) - o.y = e /\ (o.y - e) - o.y = -e
  BY DEF Coords
<1>2. (p.x - o.x) * 0 <= (p.x - o.x) * e
  BY <1>1, ProductsMonotone
<1>3. /\ e * (p.x - o.x) >= 0 /\ (-e) * (p.x - o.x) <= 0 /\ (p.y - o.y) * 0 = 0
  BY <1>1, <1>2
<1> QED
  BY <1>1, <1>3 DEF Near, Steeper, Coord

LEMMA TurnIsSteeper ==
    ASSUME LastPoint \in Marks, NEW a \in Marks, NEW b \in Marks
    PROVE  /\ Turn(a, b) = "CW" <=> ~ Steeper(LastPoint, b, a)
           /\ Turn(a, b) = "CCW" <=> ~ Steeper(LastPoint, a, b)
<1> DEFINE L == LastPoint
<1> HIDE DEF L
<1>1. L \in Marks
  BY DEF L
<1> DEFINE A == (a.y - L.y) * (b.x - L.x)
           B == (b.y - L.y) * (a.x - L.x)
<1>2. A \in Int /\ B \in Int
  BY <1>1 DEF Marks
<1>3. ComputeOrientation(a.x - L.x, a.y - L.y, b.x - L.x, b.y - L.y) =
          IF A - B > 0 THEN "CW" ELSE IF A - B < 0 THEN "CCW" ELSE "Collinear"
  BY DEF ComputeOrientation
<1>4. (Steeper(L, b, a) <=> B >= A) /\ (Steeper(L, a, b) <=> A >= B)
  BY DEF Steeper
<1> HIDE DEF A, B
<1>5. /\ Turn(a, b) = IF A - B > 0 THEN "CW"
                      ELSE IF A - B < 0 THEN "CCW" ELSE "Collinear"
  BY <1>3 DEF Turn, L
<1>6. /\ Turn(a, b) = "CW" <=> ~ (B >= A)
      /\ Turn(a, b) = "CCW" <=> ~ (A >= B)
  BY <1>2, <1>5
<1> QED
  BY <1>4, <1>6 DEF L

LEMMA SteeperTotal ==
    ASSUME NEW o \in Marks, NEW a \in Marks, NEW b \in Marks, ~ Steeper(o, b, a)
    PROVE  Steeper(o, a, b)
<1>1. (a.y - o.y) * (b.x - o.x) \in Int /\ (b.y - o.y) * (a.x - o.x) \in Int
  BY DEF Marks
<1> QED
  BY <1>1 DEF Steeper

-----------------------------------------------------------------------------
(* The corridor: it opens at a point, tightens, and closes at a point. *)

LEMMA CorridorOpens ==
    ASSUME NEW o \in Coords, NEW p \in Coords, NEW u \in Coords, NEW w \in Coords,
           NEW e \in Nat, NEW C, p.x > o.x, u.x = p.x, u.y = p.y + e,
           w.x = p.x, w.y <= p.y, w.y >= p.y - e,
           \A c \in C : c.x > o.x => c = p
    PROVE  Between(o, u, w, p, C, e)
<1>1. /\ o \in Marks /\ p \in Marks /\ u \in Marks /\ w \in Marks
      /\ p.x \in Nat /\ p.y \in Nat /\ o.x \in Nat /\ w.y \in Nat
      /\ Coord(p.x, p.y + e) \in Marks /\ Coord(p.x, p.y - e) \in Marks
      /\ Coord(p.x, p.y + e).x = p.x /\ Coord(p.x, p.y + e).y = p.y + e
      /\ Coord(p.x, p.y - e).x = p.x /\ Coord(p.x, p.y - e).y = p.y - e
  BY CoordsAreMarks
<1>2. Steeper(o, u, p)
  BY <1>1, Higher
<1>3. Steeper(o, p, w)
  BY <1>1, Higher
<1>4. Steeper(o, Coord(p.x, p.y + e), u)
  BY <1>1, Higher
<1>5. Steeper(o, w, Coord(p.x, p.y - e))
  BY <1>1, Higher
<1> QED
  BY <1>2, <1>3, <1>4, <1>5 DEF Between

LEMMA CorridorTightens ==
    ASSUME NEW o \in Coords, NEW p \in Coords, NEW u \in Coords, NEW w \in Coords,
           NEW C \in SUBSET Coords, NEW e \in Nat, Between(o, u, w, p, C, e),
           NEW q \in Coords, NEW v \in Coords, NEW z \in Coords,
           q.x > o.x, u.x > o.x, w.x > o.x,
           v.x = q.x, v.y = q.y + e, z.x = q.x, z.y <= q.y, z.y >= q.y - e,
           ~ Steeper(o, q, u), ~ Steeper(o, w, q)
    PROVE  Between(o, IF ~ Steeper(o, v, u) THEN v ELSE u,
                      IF ~ Steeper(o, w, z) THEN z ELSE w, q, C \cup {q}, e)
<1>1. /\ o \in Marks /\ q \in Marks /\ v \in Marks /\ z \in Marks
      /\ u \in Marks /\ w \in Marks /\ u.x \in Nat /\ u.y \in Nat
      /\ w.x \in Nat /\ w.y \in Nat
      /\ q.x \in Nat /\ q.y \in Nat /\ o.x \in Nat /\ z.y \in Nat
      /\ Coord(q.x, q.y + e) \in Marks /\ Coord(q.x, q.y - e) \in Marks
      /\ Coord(q.x, q.y + e).x = q.x /\ Coord(q.x, q.y + e).y = q.y + e
      /\ Coord(q.x, q.y - e).x = q.x /\ Coord(q.x, q.y - e).y = q.y - e
  BY CoordsAreMarks
<1>2. /\ Steeper(o, v, q) /\ Steeper(o, q, z)
      /\ Steeper(o, Coord(q.x, q.y + e), v) /\ Steeper(o, z, Coord(q.x, q.y - e))
  <2>1. Steeper(o, v, q)
    BY <1>1, Higher
  <2>2. Steeper(o, q, z)
    BY <1>1, Higher
  <2>3. Steeper(o, Coord(q.x, q.y + e), v)
    BY <1>1, Higher
  <2>4. Steeper(o, z, Coord(q.x, q.y - e))
    BY <1>1, Higher
  <2> QED
    BY <2>1, <2>2, <2>3, <2>4
<1>3. Steeper(o, u, q) /\ Steeper(o, q, w)
  BY <1>1, SteeperTotal
<1> DEFINE u2 == IF ~ Steeper(o, v, u) THEN v ELSE u
           w2 == IF ~ Steeper(o, w, z) THEN z ELSE w
<1>4. /\ u2 \in Marks /\ u2.x > o.x /\ Steeper(o, u2, q)
      /\ Steeper(o, u, u2) /\ Steeper(o, v, u2)
  <2>1. CASE Steeper(o, v, u)
    <3>1. u2 = u
      BY <2>1
    <3>2. Steeper(o, u, u)
      BY <1>1, Higher
    <3> QED
      BY <1>1, <1>3, <2>1, <3>1, <3>2
  <2>2. CASE ~ Steeper(o, v, u)
    <3>1. u2 = v /\ Steeper(o, v, v) /\ Steeper(o, u, v)
      BY <1>1, <2>2, Higher, SteeperTotal
    <3> QED
      BY <1>1, <1>2, <3>1
  <2> QED
    BY <2>1, <2>2
<1>5. /\ w2 \in Marks /\ w2.x > o.x /\ Steeper(o, q, w2)
      /\ Steeper(o, w2, w) /\ Steeper(o, w2, z)
  <2>1. CASE Steeper(o, w, z)
    <3>1. w2 = w
      BY <2>1
    <3>2. Steeper(o, w, w)
      BY <1>1, Higher
    <3> QED
      BY <1>1, <1>3, <2>1, <3>1, <3>2
  <2>2. CASE ~ Steeper(o, w, z)
    <3>1. w2 = z /\ Steeper(o, z, z) /\ Steeper(o, z, w)
      BY <1>1, <2>2, Higher, SteeperTotal
    <3> QED
      BY <1>1, <1>2, <3>1
  <2> QED
    BY <2>1, <2>2
<1> HIDE DEF u2, w2
<1>6. ASSUME NEW c \in C \cup {q}, c.x > o.x
      PROVE  /\ Steeper(o, Coord(c.x, c.y + e), u2)
             /\ Steeper(o, w2, Coord(c.x, c.y - e))
  <2>1. /\ c.x \in Nat /\ c.y \in Nat
        /\ Coord(c.x, c.y + e) \in Marks /\ Coord(c.x, c.y - e) \in Marks
        /\ Coord(c.x, c.y + e).x = c.x /\ Coord(c.x, c.y - e).x = c.x
    BY CoordsAreMarks
  <2>2. CASE c \in C
    <3>1. /\ Steeper(o, Coord(c.x, c.y + e), u)
          /\ Steeper(o, w, Coord(c.x, c.y - e))
      BY <1>6, <2>2 DEF Between
    <3>2. Steeper(o, Coord(c.x, c.y + e), u2)
      BY <1>1, <1>4, <1>6, <2>1, <3>1, SteeperOrder
    <3>3. Steeper(o, w2, Coord(c.x, c.y - e))
      BY <1>1, <1>5, <1>6, <2>1, <3>1, SteeperOrder
    <3> QED
      BY <3>2, <3>3
  <2>3. CASE c = q
    <3>1. Steeper(o, Coord(q.x, q.y + e), u2)
      BY <1>1, <1>2, <1>4, SteeperOrder
    <3>2. Steeper(o, w2, Coord(q.x, q.y - e))
      BY <1>1, <1>2, <1>5, SteeperOrder
    <3> QED
      BY <2>3, <3>1, <3>2
  <2> QED
    BY <2>2, <2>3
<1>7. Between(o, u2, w2, q, C \cup {q}, e)
  BY <1>4, <1>5, <1>6 DEF Between
<1> QED
  BY <1>7 DEF u2, w2

LEMMA CorridorCloses ==
    ASSUME NEW o \in Coords, NEW p \in Coords, NEW u \in Coords, NEW w \in Coords,
           NEW C \in SUBSET Coords, NEW e \in Nat, Between(o, u, w, p, C, e),
           p.x > o.x, u.x > o.x, w.x > o.x, o \in C,
           \A c, d \in C : c.x <= d.x => c.y <= d.y,
           NEW c \in C, o.x <= c.x
    PROVE  Near(o, p, c, e)
<1>1. /\ o \in Marks /\ p \in Marks /\ u \in Marks /\ w \in Marks
      /\ c \in Coords /\ c.x \in Nat /\ c.y \in Nat /\ o.x \in Nat /\ o.y \in Nat
      /\ p.x \in Nat
      /\ Coord(c.x, c.y + e) \in Marks /\ Coord(c.x, c.y - e) \in Marks
      /\ Coord(c.x, c.y + e).x = c.x /\ Coord(c.x, c.y - e).x = c.x
  BY CoordsAreMarks
<1>2. CASE c.x = o.x
  <2>1. c.y <= o.y /\ o.y <= c.y
    BY <1>1, <1>2
  <2>2. c = o
    BY <1>1, <1>2, <2>1 DEF Coords
  <2> QED
    BY <1>1, <2>2, NearItself
<1>3. CASE c.x > o.x
  <2>1. /\ Steeper(o, u, p) /\ Steeper(o, p, w)
        /\ Steeper(o, Coord(c.x, c.y + e), u) /\ Steeper(o, w, Coord(c.x, c.y - e))
    BY <1>3 DEF Between
  <2>2. Steeper(o, Coord(c.x, c.y + e), p)
    BY <1>1, <1>3, <2>1, SteeperOrder
  <2>3. Steeper(o, p, Coord(c.x, c.y - e))
    BY <1>1, <1>3, <2>1, SteeperOrder
  <2> QED
    BY <2>2, <2>3 DEF Near
<1> QED
  BY <1>1, <1>2, <1>3

-----------------------------------------------------------------------------
(* What every AddKey does, and what a new key does to the CDF. *)

Adding(key) ==
    /\ ~ built /\ built' = FALSE /\ UNCHANGED params
    /\ curr_num_keys < Len(data) /\ key = data[curr_num_keys + 1] /\ key >= prev_key
    /\ curr_num_keys' = curr_num_keys + 1
    /\ prev_key' = key /\ prev_position' = curr_num_keys

LEMMA SameParameters ==
    ASSUME UNCHANGED params
    PROVE  /\ data' = data /\ num_shift_bits' = num_shift_bits /\ max_error' = max_error
           /\ min_key' = min_key /\ max_key' = max_key
           /\ \A x : Shift(x)' = Shift(x)
  BY DEF params, min_key, max_key, Shift, ShiftRight

LEMMA NextKey ==
    ASSUME IInv, AddNextKey
    PROVE  \E key \in Nat :
              /\ Adding(key) /\ min_key <= key /\ key <= max_key
              /\ \/ FirstKey(key, curr_num_keys)
                 \/ DuplicateKey(key, curr_num_keys)
                 \/ SecondKey(key, curr_num_keys)
                 \/ CutCorridor(key, curr_num_keys)
                 \/ TightenCorridor(key, curr_num_keys)
<1>1. Types /\ Cdf
  BY DEF IInv
<1>2. Len(data) \in Nat \ {0} /\ curr_num_keys \in 0 .. Len(data)
  BY <1>1, KeysGiven DEF Types
<1>3. NextPosition = curr_num_keys
  BY <1>1, <1>2 DEF NextPosition, Cdf
<1> DEFINE key == data[curr_num_keys + 1]
<1>4. /\ curr_num_keys < Len(data) /\ key >= prev_key
      /\ AddKey(key)
  BY DEF AddNextKey
<1>5. curr_num_keys + 1 \in 1 .. Len(data)
  BY <1>2, <1>4
<1>6. key \in Nat /\ min_key <= key /\ key <= max_key
  BY <1>1, <1>5, KeysGiven, KeysBetween DEF Types
<1> HIDE DEF key
<1>7. /\ ~ built /\ curr_num_keys' = curr_num_keys + 1
      /\ prev_key' = key /\ prev_position' = curr_num_keys
      /\ UNCHANGED <<params, built>>
      /\ \/ FirstKey(key, curr_num_keys)
         \/ DuplicateKey(key, curr_num_keys)
         \/ SecondKey(key, curr_num_keys)
         \/ CutCorridor(key, curr_num_keys)
         \/ TightenCorridor(key, curr_num_keys)
  BY <1>3, <1>4 DEF AddKey
<1>8. Adding(key)
  BY <1>1, <1>4, <1>7 DEF Adding, Types, key
<1> QED
  BY <1>6, <1>7, <1>8

LEMMA CdfPointsGrow ==
    ASSUME Types, Cdf, NEW key \in Nat, Adding(key)
    PROVE  /\ CdfPoints \subseteq Coords
           /\ CdfPoints' = IF curr_num_keys = 0 \/ key # prev_key
                           THEN CdfPoints \cup {Coord(key, curr_num_keys)}
                           ELSE CdfPoints
<1>1. data \in Inputs /\ curr_num_keys \in 0 .. Len(data) - 1 /\ Len(data) \in Nat
  BY KeysGiven DEF Types, Adding
<1>2. CdfPoints' = CdfOf(data, curr_num_keys + 1)
  BY SameParameters DEF CdfPoints, CdfOf, Adding
<1>3. /\ curr_num_keys > 0 => prev_key = data[curr_num_keys]
      /\ key = data[curr_num_keys + 1]
  BY DEF Cdf, Adding
<1>4. CdfPoints' = IF curr_num_keys = 0 \/ data[curr_num_keys] # data[curr_num_keys + 1]
                   THEN CdfOf(data, curr_num_keys) \cup
                        {Coord(data[curr_num_keys + 1], curr_num_keys)}
                   ELSE CdfOf(data, curr_num_keys)
  BY <1>1, <1>2, CdfGrows
<1>5. \A c \in CdfPoints : c \in Coords
  BY <1>1, CdfIsCdfOf, CdfOfKeys
<1> QED
  BY <1>1, <1>3, <1>4, <1>5, CdfIsCdfOf

LEMMA CdfKept ==
    ASSUME Types, Cdf, NEW key \in Nat, Adding(key), curr_num_keys > 0, key = prev_key,
           UNCHANGED <<curr_num_distinct_keys, prev_point>>
    PROVE  Cdf' /\ CdfPoints' = CdfPoints
<1>1. CdfPoints' = CdfPoints /\ CdfPoints \subseteq Coords
  BY CdfPointsGrow
<1>2. data' = data /\ curr_num_keys \in Nat
  BY SameParameters DEF Adding, Types
<1>3. \A c \in CdfPoints : c.x \in Nat /\ c.y \in Nat
  BY <1>1 DEF Coords
<1>4. /\ curr_num_keys' = curr_num_keys + 1 /\ prev_key' = prev_key
      /\ prev_position' = curr_num_keys /\ prev_point' = prev_point
      /\ curr_num_distinct_keys' = curr_num_distinct_keys
      /\ prev_key = data[curr_num_keys + 1]
  BY DEF Adding
<1>5. /\ curr_num_distinct_keys >= 1 /\ prev_position = curr_num_keys - 1
      /\ prev_point \in CdfPoints /\ prev_point.x = prev_key
      /\ \A c \in CdfPoints : c.x <= prev_key /\ c.y <= prev_position
      /\ \A c, d \in CdfPoints : c.x <= d.x => c.y <= d.y
  BY DEF Cdf
<1>6. \A c \in CdfPoints : c.x <= prev_key /\ c.y <= curr_num_keys
  BY <1>2, <1>3, <1>5
<1> QED
  BY <1>1, <1>2, <1>4, <1>5, <1>6 DEF Cdf

LEMMA CdfExtended ==
    ASSUME Types, Cdf, BeforeFirstKey, NEW key \in Nat, Adding(key),
           curr_num_keys = 0 \/ key # prev_key,
           curr_num_distinct_keys' = curr_num_distinct_keys + 1,
           prev_point' = Coord(key, curr_num_keys)
    PROVE  /\ Cdf' /\ CdfPoints' = CdfPoints \cup {Coord(key, curr_num_keys)}
           /\ \A c \in CdfPoints : c.x < key /\ c.y < curr_num_keys
           /\ Coord(key, curr_num_keys) \in Coords
<1> DEFINE q == Coord(key, curr_num_keys)
<1>1. CdfPoints' = CdfPoints \cup {q} /\ CdfPoints \subseteq Coords
  BY CdfPointsGrow
<1>2. /\ data' = data /\ curr_num_keys \in Nat /\ curr_num_distinct_keys \in Nat
      /\ prev_key \in Nat /\ key >= prev_key
  BY SameParameters DEF Adding, Types
<1>3. q \in Coords /\ q.x = key /\ q.y = curr_num_keys
  BY <1>2 DEF Coord, Coords
<1>4. \A c \in CdfPoints : c.x \in Nat /\ c.y \in Nat
  BY <1>1 DEF Coords
<1>5. curr_num_keys = 0 => CdfPoints = {}
  BY DEF CdfPoints
<1>6. \A c \in CdfPoints : c.x < key /\ c.y < curr_num_keys
  <2>1. CASE curr_num_keys = 0
    BY <1>5, <2>1
  <2>2. CASE curr_num_keys > 0
    <3>1. /\ \A c \in CdfPoints : c.x <= prev_key /\ c.y <= prev_position
          /\ prev_position = curr_num_keys - 1
      BY <2>2 DEF Cdf
    <3> QED
      BY <1>2, <1>4, <2>2, <3>1
  <2> QED
    BY <1>2, <2>1, <2>2
<1>7. \A c, d \in CdfPoints : c.x <= d.x => c.y <= d.y
  BY <1>5, <1>2 DEF Cdf
<1> HIDE DEF q
<1>8. \A c, d \in CdfPoints \cup {q} : c.x <= d.x => c.y <= d.y
  BY <1>2, <1>3, <1>4, <1>6, <1>7
<1>9. \A c \in CdfPoints \cup {q} : c.x <= key /\ c.y <= curr_num_keys
  BY <1>2, <1>3, <1>4, <1>6
<1>10. /\ curr_num_keys' = curr_num_keys + 1 /\ prev_key' = key
       /\ prev_position' = curr_num_keys /\ prev_point' = q
       /\ key = data[curr_num_keys + 1]
  BY DEF Adding, q
<1>11. Cdf'
  BY <1>1, <1>2, <1>3, <1>8, <1>9, <1>10 DEF Cdf
<1> QED
  BY <1>1, <1>3, <1>6, <1>11 DEF q

-----------------------------------------------------------------------------
(* The first key, and further copies of a key. *)

LEMMA TypesKept ==
    ASSUME Types, NEW key \in Nat, Adding(key), curr_num_distinct_keys' \in Nat,
           spline_points' \in Seq(Coords), prev_prefix' \in Nat,
           radix_table' \in [0 .. Shift(max_key) + 1 -> Nat],
           upper_limit' \in Coords, lower_limit' \in Coords, prev_point' \in Coords
    PROVE  Types'
<1>1. /\ data' \in Inputs /\ max_error' \in Nat /\ num_shift_bits' \in 0 .. KeyBits
      /\ Len(data') = Len(data) /\ Shift(max_key)' = Shift(max_key)
  BY SameParameters DEF Adding, Types
<1>2. Len(data) \in Nat /\ curr_num_keys \in 0 .. Len(data)
  BY KeysGiven DEF Types
<1>3. /\ built' = FALSE /\ curr_num_keys < Len(data)
      /\ curr_num_keys' = curr_num_keys + 1
      /\ prev_key' = key /\ prev_position' = curr_num_keys
  BY DEF Adding
<1>4. curr_num_keys' \in 0 .. Len(data') /\ prev_position' \in Nat
  BY <1>1, <1>2, <1>3
<1> QED
  BY <1>1, <1>3, <1>4 DEF Types

LEMMA ShiftOfMax ==
    ASSUME Types
    PROVE  Shift(max_key) \in Nat /\ 0 \in 0 .. Shift(max_key) + 1
<1>1. data \in Inputs /\ num_shift_bits \in 0 .. KeyBits
  BY DEF Types
<1>2. max_key \in Nat /\ min_key <= max_key
  BY <1>1, KeysBetween, KeysGiven DEF max_key
<1>3. Shift(max_key) \in Nat
  BY <1>1, <1>2, ShiftMonotone
<1> QED
  BY <1>3

\* PossiblyAddKeyToRadixTable leaves a table of the same size
LEMMA TableTyped ==
    ASSUME Types, NEW P \in Seq(Coords), P # <<>>, NEW key
    PROVE  TableWith(P, key) \in [0 .. Shift(max_key) + 1 -> Nat]
<1>1. Len(P) - 1 \in Nat
  OBVIOUS
<1>2. radix_table \in [0 .. Shift(max_key) + 1 -> Nat]
  BY DEF Types
<1> QED
  BY <1>1, <1>2 DEF TableWith

LEMMA FirstKeyPreserves ==
    ASSUME IInv, NEW key \in Nat, Adding(key), FirstKey(key, curr_num_keys)
    PROVE  IInv'
<1> DEFINE point == Coord(key, 0)
<1>1. Types /\ Cdf /\ BeforeFirstKey /\ data \in Inputs /\ num_shift_bits \in 0 .. KeyBits
  BY DEF IInv, Types
<1>2. /\ curr_num_keys = 0 /\ spline_points = <<>> /\ curr_num_distinct_keys = 0
      /\ prev_prefix = 0 /\ \A p \in DOMAIN radix_table : radix_table[p] = 0
  BY <1>1 DEF FirstKey, BeforeFirstKey
<1>3. /\ spline_points' = <<point>> /\ prev_point' = point
      /\ radix_table' = TableWith(<<point>>, key)
      /\ prev_prefix' = Shift(key) /\ curr_num_distinct_keys' = 1
      /\ UNCHANGED limits
  BY <1>2 DEF FirstKey, AddKeyToSpline, Shift, Coord
<1>4. key = min_key /\ point \in Coords /\ point.x = key /\ Shift(key) = 0
  BY <1>1, <1>2, ShiftOfFirst DEF Adding, min_key, Coords, Coord
<1>5. /\ Cdf' /\ CdfPoints' = CdfPoints \cup {point}
  BY <1>1, <1>2, <1>3, CdfExtended
<1> HIDE DEF point
<1>6. <<point>> \in Seq(Coords) /\ Len(<<point>>) = 1 /\ <<point>>[1] = point
  BY <1>4
<1>7. Types'
  <2>1. radix_table' \in [0 .. Shift(max_key) + 1 -> Nat]
    BY <1>1, <1>3, <1>6, TableTyped
  <2>2. upper_limit' \in Coords /\ lower_limit' \in Coords
    BY <1>1, <1>3 DEF Types, limits
  <2> QED
    BY <1>1, <1>3, <1>4, <1>6, <2>1, <2>2, TypesKept
<1>8. LastPoint' = point /\ curr_num_keys' = 1 /\ built' = FALSE
  BY <1>2, <1>3, <1>6 DEF LastPoint, Adding
<1>9. Points'
  <2>1. min_key' = key /\ min_key \in Nat
    BY <1>1, <1>4, SameParameters, KeysBetween DEF Adding
  <2>2. point = Coord(min_key', 0)
    BY <2>1 DEF point
  <2>3. spline_points' # <<>> /\ Len(spline_points') = 1 /\ spline_points'[1] = point
    BY <1>3, <1>6
  <2>4. \A h \in 1 .. Len(spline_points') : h = 1
    BY <2>3
  <2> QED
    BY <1>4, <1>5, <1>8, <2>1, <2>2, <2>3, <2>4 DEF Points
<1>10. Candidate'
  BY <1>3, <1>8 DEF Candidate
<1>11. Table'
  <2>1. prev_prefix' = 0 /\ Shift(LastPoint.x)' = 0
    <3>1. Shift(key)' = 0
      BY <1>4, SameParameters DEF Adding
    <3> QED
      BY <1>3, <1>4, <1>8, <3>1 DEF Shift
  <2>2. DOMAIN radix_table' = DOMAIN radix_table /\ radix_table'[0] = 0
        /\ DOMAIN radix_table = 0 .. Shift(max_key) + 1
    <3>1. DOMAIN radix_table = 0 .. Shift(max_key) + 1 /\ 0 \in DOMAIN radix_table
      BY <1>1, ShiftOfMax DEF Types
    <3>2. ~ (prev_prefix < 0)
      BY <1>2
    <3> QED
      BY <1>2, <1>3, <3>1, <3>2 DEF TableWith
  <2>3. Splits(spline_points, radix_table[0], 0)'
    <3>1. \A h \in 1 .. Len(spline_points') : spline_points'[h].x = key /\ h > 0
      BY <1>3, <1>4, <1>6
    <3>2. Shift(key)' = 0
      BY <1>4, SameParameters DEF Adding
    <3>3. \A h \in 1 .. Len(spline_points') : Shift(spline_points[h].x)' = 0
      BY <3>1, <3>2 DEF Shift
    <3>4. Len(spline_points') = 1 /\ radix_table'[0] = 0
      BY <1>3, <1>6, <2>2
    <3>5. /\ 0 <= Len(spline_points')
          /\ \A h \in 1 .. Len(spline_points') :
                ~ (h <= 0) /\ Shift(spline_points[h].x)' >= 0
      BY <3>3, <3>4
    <3> QED
      BY <3>4, <3>5 DEF Splits
  <2>4. \A p \in DOMAIN radix_table' : p <= 0 => p = 0
    BY <2>2
  <2> QED
    BY <1>8, <2>1, <2>3, <2>4 DEF Table
<1>12. Segments'
  <2>1. Len(spline_points') = 1
    BY <1>3, <1>6
  <2>2. \A h \in 1 .. Len(spline_points') - 1 : FALSE
    BY <2>1
  <2> QED
    BY <2>2 DEF Segments, SegmentsNear
<1> QED
  BY <1>3, <1>5, <1>7, <1>8, <1>9, <1>10, <1>11, <1>12
     DEF IInv, BeforeFirstKey, Corridor

LEMMA DuplicateKeyPreserves ==
    ASSUME IInv, NEW key \in Nat, Adding(key), DuplicateKey(key, curr_num_keys)
    PROVE  IInv'
<1>1. Types /\ Cdf /\ Points /\ Candidate /\ Table /\ Corridor /\ Segments
  BY DEF IInv
<1>2. /\ curr_num_keys > 0 /\ curr_num_keys \in Nat /\ key = prev_key
      /\ UNCHANGED <<spline_points, radix_table, prev_prefix, upper_limit, lower_limit,
                     curr_num_distinct_keys, prev_point>>
  BY <1>1 DEF DuplicateKey, spline, limits, Types
<1>3. Cdf' /\ CdfPoints' = CdfPoints
  BY <1>1, <1>2, CdfKept
<1>4. Types'
  BY <1>1, <1>2, TypesKept DEF Types
<1>5. /\ built' = FALSE /\ built = FALSE /\ curr_num_keys' = curr_num_keys + 1
      /\ max_error' = max_error /\ min_key' = min_key /\ max_key' = max_key
      /\ \A x : Shift(x)' = Shift(x)
      /\ LastPoint' = LastPoint
  BY <1>1, <1>2, SameParameters DEF Adding, LastPoint, Types
<1>6. Points'
  BY <1>1, <1>2, <1>3, <1>5 DEF Points
<1>7. Candidate'
  BY <1>1, <1>2, <1>5 DEF Candidate
<1>8. Table'
  BY <1>1, <1>2, <1>5 DEF Table, Splits
<1>9. Corridor' /\ Segments'
  BY <1>1, <1>2, <1>3, <1>5 DEF Corridor, Segments
<1> QED
  BY <1>2, <1>3, <1>4, <1>5, <1>6, <1>7, <1>8, <1>9 DEF IInv, BeforeFirstKey

-----------------------------------------------------------------------------
(* A new key: it is right of the spline, and so are the limits it may set. *)

LEMMA LimitsOfKey ==
    ASSUME Types, NEW key \in Nat, NEW location \in Nat
    PROVE  /\ Upper(key, location) \in Coords /\ Lower(key, location) \in Coords
           /\ Upper(key, location).x = key /\ Lower(key, location).x = key
           /\ Upper(key, location).y = location + max_error
           /\ Lower(key, location).y <= location
           /\ Lower(key, location).y >= location - max_error
<1>1. max_error \in Nat
  BY DEF Types
<1>2. (IF location < max_error THEN 0 ELSE location - max_error) \in Nat
  BY <1>1
<1> QED
  BY <1>1, <1>2 DEF Upper, Lower, Coord, Coords

LEMMA NewKey ==
    ASSUME IInv, NEW key \in Nat, Adding(key), NewDistinctKey(key, curr_num_keys),
           NEW q, q = Coord(key, curr_num_keys)
    PROVE  /\ curr_num_keys \in Nat \ {0} /\ curr_num_keys' > 0 /\ built' = FALSE
           /\ q \in Coords /\ q.x = key /\ q.y = curr_num_keys /\ prev_point' = q
           /\ Cdf' /\ CdfPoints' = CdfPoints \cup {q} /\ CdfPoints \subseteq Coords
           /\ \A c \in CdfPoints : c.x < key /\ c.x <= prev_point.x /\ c.y < curr_num_keys
           /\ LastPoint \in CdfPoints /\ prev_point \in CdfPoints
           /\ spline_points \in Seq(Coords) /\ spline_points # <<>>
           /\ \A h \in 1 .. Len(spline_points) :
                 /\ spline_points[h] \in Coords /\ spline_points[h].x <= LastPoint.x
                 /\ spline_points[h].x < key
           /\ \A c, d \in CdfPoints : c.x <= d.x => c.y <= d.y
<1>1. Types /\ Cdf /\ Points /\ BeforeFirstKey
  BY DEF IInv
<1>2. /\ curr_num_keys \in Nat \ {0} /\ key # prev_key
      /\ curr_num_distinct_keys' = curr_num_distinct_keys + 1
      /\ prev_point' = q
  BY <1>1 DEF NewDistinctKey, Types
<1>3. /\ Cdf' /\ CdfPoints' = CdfPoints \cup {q}
      /\ \A c \in CdfPoints : c.x < key /\ c.y < curr_num_keys
      /\ q \in Coords
  BY <1>1, <1>2, CdfExtended
<1>4. CdfPoints \subseteq Coords
  BY <1>1, CdfPointsGrow
<1>5. LastPoint \in CdfPoints /\ spline_points # <<>> /\ spline_points \in Seq(Coords)
  BY <1>1, <1>2 DEF Points, Adding, Types
<1>6. \A h \in 1 .. Len(spline_points) : spline_points[h].x <= LastPoint.x
  BY <1>1, <1>2 DEF Points
<1>7. LastPoint.x \in Nat /\ LastPoint.x < key
  BY <1>3, <1>4, <1>5 DEF Coords
<1>8. \A h \in 1 .. Len(spline_points) :
          spline_points[h] \in Coords /\ spline_points[h].x \in Nat
  <2>1. \A h \in 1 .. Len(spline_points) : spline_points[h] \in Coords
    BY <1>5, ElementOf
  <2> QED
    BY <2>1 DEF Coords
<1>9. /\ prev_point \in CdfPoints /\ prev_point.x = prev_key
      /\ \A c \in CdfPoints : c.x <= prev_key
      /\ \A c, d \in CdfPoints : c.x <= d.x => c.y <= d.y
  BY <1>1, <1>2 DEF Cdf
<1>10. curr_num_keys' > 0 /\ built' = FALSE /\ q.x = key /\ q.y = curr_num_keys
  BY <1>2 DEF Adding, Coord
<1>11. \A h \in 1 .. Len(spline_points) : spline_points[h].x < key
  BY <1>6, <1>7, <1>8
<1> QED
  BY <1>2, <1>3, <1>4, <1>5, <1>6, <1>8, <1>9, <1>10, <1>11

\* as long as the spline stays, so do its table and its segments
LEMMA SplineKept ==
    ASSUME IInv, NEW key \in Nat, Adding(key), NewDistinctKey(key, curr_num_keys),
           UNCHANGED spline
    PROVE  /\ Points' /\ Table' /\ Segments' /\ LastPoint' = LastPoint
           /\ spline_points' \in Seq(Coords) /\ prev_prefix' \in Nat
           /\ radix_table' \in [0 .. Shift(max_key) + 1 -> Nat]
<1> DEFINE q == Coord(key, curr_num_keys)
<1> HIDE DEF q
<1>1. Types /\ Points /\ Table /\ Segments /\ built = FALSE
  BY DEF IInv, Adding, Types
<1>2. /\ curr_num_keys \in Nat \ {0} /\ curr_num_keys' > 0 /\ built' = FALSE
      /\ q \in Coords /\ q.x = key
      /\ CdfPoints' = CdfPoints \cup {q}
      /\ \A h \in 1 .. Len(spline_points) : spline_points[h].x < key
      /\ spline_points \in Seq(Coords)
  BY NewKey DEF q
<1>3. /\ spline_points' = spline_points /\ radix_table' = radix_table
      /\ prev_prefix' = prev_prefix /\ LastPoint' = LastPoint
  BY DEF spline, LastPoint
<1>4. /\ max_error' = max_error /\ min_key' = min_key /\ max_key' = max_key
      /\ \A x : Shift(x)' = Shift(x)
  BY SameParameters DEF Adding
<1>5. Points'
  BY <1>1, <1>2, <1>3, <1>4 DEF Points
<1>6. Table'
  BY <1>1, <1>2, <1>3, <1>4 DEF Table, Splits
<1>7. SegmentsNear(spline_points, CdfPoints, max_error)
  BY <1>1 DEF Segments
<1>8. SegmentsNear(spline_points, CdfPoints \cup {q}, max_error)
  BY <1>2, <1>7, SegmentsKept
<1>9. Segments'
  BY <1>2, <1>3, <1>4, <1>8 DEF Segments
<1> QED
  BY <1>1, <1>3, <1>5, <1>6, <1>9 DEF Types

LEMMA SecondKeyPreserves ==
    ASSUME IInv, NEW key \in Nat, Adding(key), SecondKey(key, curr_num_keys)
    PROVE  IInv'
<1> DEFINE q == Coord(key, curr_num_keys)
           u == Upper(key, curr_num_keys)
           w == Lower(key, curr_num_keys)
<1> HIDE DEF q, u, w
<1>1. Types /\ Candidate /\ NewDistinctKey(key, curr_num_keys) /\ UNCHANGED spline
  BY DEF IInv, SecondKey
<1>2. /\ curr_num_keys \in Nat \ {0} /\ curr_num_keys' > 0 /\ built' = FALSE
      /\ q \in Coords /\ q.x = key /\ q.y = curr_num_keys /\ prev_point' = q
      /\ Cdf' /\ CdfPoints' = CdfPoints \cup {q} /\ CdfPoints \subseteq Coords
      /\ \A c \in CdfPoints : c.x < key /\ c.x <= prev_point.x /\ c.y < curr_num_keys
      /\ LastPoint \in CdfPoints
  BY <1>1, NewKey DEF q
<1>3. /\ u \in Coords /\ w \in Coords /\ u.x = key /\ w.x = key
      /\ u.y = curr_num_keys + max_error
      /\ w.y <= curr_num_keys /\ w.y >= curr_num_keys - max_error
  BY <1>1, <1>2, LimitsOfKey DEF u, w
<1>4. /\ upper_limit' = u /\ lower_limit' = w /\ curr_num_distinct_keys' = 2
      /\ curr_num_distinct_keys = 1 /\ max_error' = max_error /\ max_error \in Nat
  BY <1>1, SameParameters
     DEF SecondKey, SetLimits, u, w, NewDistinctKey, Types, Adding
<1>5. /\ Points' /\ Table' /\ Segments' /\ LastPoint' = LastPoint
      /\ spline_points' \in Seq(Coords) /\ prev_prefix' \in Nat
      /\ radix_table' \in [0 .. Shift(max_key) + 1 -> Nat]
  BY <1>1, SplineKept
<1>6. Types'
  BY <1>1, <1>2, <1>3, <1>4, <1>5, TypesKept
<1>7. LastPoint \in Coords /\ LastPoint.x < key /\ LastPoint = prev_point
  BY <1>1, <1>2, <1>4 DEF Candidate, Adding
<1>8. LastPoint.x \in Nat /\ LastPoint.y \in Nat
  BY <1>7 DEF Coords
<1>9. Candidate'
  <2>1. u.y >= LastPoint.y
    BY <1>2, <1>3, <1>4, <1>8
  <2> QED
    BY <1>2, <1>3, <1>4, <1>5, <1>7, <1>8, <2>1 DEF Candidate
<1>10. Between(LastPoint, u, w, q, CdfPoints \cup {q}, max_error)
  <2>1. \A c \in CdfPoints \cup {q} : c.x > LastPoint.x => c = q
    <3>1. \A c \in CdfPoints : c.x \in Nat
      BY <1>2 DEF Coords
    <3> QED
      BY <1>2, <1>7, <1>8, <3>1
  <2> QED
    BY <1>2, <1>3, <1>4, <1>7, <1>8, <2>1, CorridorOpens
<1>11. Corridor'
  BY <1>2, <1>4, <1>5, <1>10 DEF Corridor
<1> QED
  BY <1>2, <1>5, <1>6, <1>9, <1>11 DEF IInv, BeforeFirstKey

\* the turns the builder compares, as slopes
LEMMA Turns ==
    ASSUME NEW a \in Coords, NEW b \in Coords, LastPoint \in Coords
    PROVE  /\ Turn(a, b) = "CW" <=> ~ Steeper(LastPoint, b, a)
           /\ Turn(a, b) = "CCW" <=> ~ Steeper(LastPoint, a, b)
<1>1. a \in Marks /\ b \in Marks /\ LastPoint \in Marks
  BY DEF Coords, Marks
<1> QED
  BY <1>1, TurnIsSteeper

LEMMA TightenCorridorPreserves ==
    ASSUME IInv, NEW key \in Nat, Adding(key), TightenCorridor(key, curr_num_keys)
    PROVE  IInv'
<1> DEFINE q == Coord(key, curr_num_keys)
           v == Upper(key, curr_num_keys)
           z == Lower(key, curr_num_keys)
           u == IF ~ Steeper(LastPoint, v, upper_limit) THEN v ELSE upper_limit
           w == IF ~ Steeper(LastPoint, lower_limit, z) THEN z ELSE lower_limit
<1> HIDE DEF q, v, z, u, w
<1>1. /\ Types /\ Candidate /\ Corridor
      /\ NewDistinctKey(key, curr_num_keys) /\ UNCHANGED spline
  BY DEF IInv, TightenCorridor
<1>2. /\ curr_num_keys \in Nat \ {0} /\ curr_num_keys' > 0 /\ built' = FALSE
      /\ q \in Coords /\ q.x = key /\ q.y = curr_num_keys /\ prev_point' = q
      /\ Cdf' /\ CdfPoints' = CdfPoints \cup {q} /\ CdfPoints \subseteq Coords
      /\ \A c \in CdfPoints : c.x < key /\ c.x <= prev_point.x /\ c.y < curr_num_keys
      /\ LastPoint \in CdfPoints /\ prev_point \in CdfPoints
  BY <1>1, NewKey DEF q
<1>3. /\ v \in Coords /\ z \in Coords /\ v.x = key /\ z.x = key
      /\ v.y = curr_num_keys + max_error
      /\ z.y <= curr_num_keys /\ z.y >= curr_num_keys - max_error
  BY <1>1, <1>2, LimitsOfKey DEF v, z
<1>4. /\ curr_num_distinct_keys >= 2 /\ curr_num_distinct_keys' \in Nat
      /\ curr_num_distinct_keys' > 2 /\ max_error' = max_error /\ max_error \in Nat
      /\ built = FALSE
  BY <1>1, SameParameters DEF TightenCorridor, NewDistinctKey, Types, Adding
<1>5. /\ Points' /\ Table' /\ Segments' /\ LastPoint' = LastPoint
      /\ spline_points' \in Seq(Coords) /\ prev_prefix' \in Nat
      /\ radix_table' \in [0 .. Shift(max_key) + 1 -> Nat]
  BY <1>1, SplineKept
<1>6. /\ LastPoint \in Coords /\ prev_point \in Coords /\ LastPoint.x < key
      /\ LastPoint.y < curr_num_keys
      /\ upper_limit \in Coords /\ lower_limit \in Coords
  BY <1>1, <1>2 DEF Types
<1>7. /\ upper_limit.x > LastPoint.x /\ lower_limit.x > LastPoint.x
      /\ upper_limit.y >= LastPoint.y
  BY <1>1, <1>2, <1>4 DEF Candidate
<1>8. /\ LastPoint.x \in Nat /\ LastPoint.y \in Nat
  BY <1>6 DEF Coords
<1>9. upper_limit' = u /\ lower_limit' = w
  <2>1. /\ Turn(upper_limit, v) = "CW" <=> ~ Steeper(LastPoint, v, upper_limit)
        /\ Turn(lower_limit, z) = "CCW" <=> ~ Steeper(LastPoint, lower_limit, z)
    BY <1>3, <1>6, Turns
  <2>2. /\ upper_limit' = IF Turn(upper_limit, v) = "CW" THEN v ELSE upper_limit
        /\ lower_limit' = IF Turn(lower_limit, z) = "CCW" THEN z ELSE lower_limit
    BY DEF TightenCorridor, v, z
  <2> QED
    BY <2>1, <2>2 DEF u, w
<1>10. ~ Steeper(LastPoint, q, upper_limit) /\ ~ Steeper(LastPoint, lower_limit, q)
  <2>1. Turn(upper_limit, q) = "CW" /\ Turn(lower_limit, q) = "CCW"
    BY DEF TightenCorridor, CutsCorridor, q
  <2> QED
    BY <1>2, <1>6, <2>1, Turns
<1>11. Between(LastPoint, upper_limit, lower_limit, prev_point, CdfPoints, max_error)
  BY <1>1, <1>2, <1>4 DEF Corridor
<1>12. Between(LastPoint, u, w, q, CdfPoints \cup {q}, max_error)
  BY <1>2, <1>3, <1>4, <1>6, <1>7, <1>10, <1>11, CorridorTightens DEF u, w
<1>13. /\ u \in Coords /\ w \in Coords /\ u.x > LastPoint.x /\ w.x > LastPoint.x
       /\ u.y >= LastPoint.y
  <2>1. v.y >= LastPoint.y
    BY <1>2, <1>3, <1>4, <1>6, <1>8
  <2> QED
    BY <1>3, <1>6, <1>7, <2>1 DEF u, w
<1>14. Types'
  BY <1>1, <1>2, <1>4, <1>5, <1>9, <1>13, TypesKept
<1>15. Candidate'
  BY <1>2, <1>4, <1>5, <1>6, <1>8, <1>9, <1>13 DEF Candidate
<1>16. Corridor'
  BY <1>2, <1>4, <1>5, <1>9, <1>12 DEF Corridor
<1> QED
  BY <1>2, <1>5, <1>14, <1>15, <1>16 DEF IInv, BeforeFirstKey

\* the corridor has closed: its segment ends at the last CDF point
LEMMA ClosingSegment ==
    ASSUME Types, Cdf, Points, Candidate, Corridor, curr_num_keys > 0, ~ built,
           curr_num_distinct_keys >= 2,
           NEW c \in CdfPoints, LastPoint.x <= c.x
    PROVE  Near(LastPoint, prev_point, c, max_error)
<1>1. /\ LastPoint \in CdfPoints /\ prev_point \in Coords /\ max_error \in Nat
      /\ upper_limit \in Coords /\ lower_limit \in Coords
      /\ \A d, e \in CdfPoints : d.x <= e.x => d.y <= e.y
  BY DEF Types, Cdf, Points
<1>2. CdfPoints \subseteq Coords
  <2>1. data \in Inputs /\ curr_num_keys \in 0 .. Len(data)
    BY DEF Types
  <2> QED
    BY <2>1, CdfIsCdfOf, CdfOfKeys
<1>3. /\ prev_point.x > LastPoint.x /\ upper_limit.x > LastPoint.x
      /\ lower_limit.x > LastPoint.x
  BY DEF Candidate
<1>4. Between(LastPoint, upper_limit, lower_limit, prev_point, CdfPoints, max_error)
  BY DEF Corridor
<1> QED
  BY <1>1, <1>2, <1>3, <1>4, CorridorCloses

-----------------------------------------------------------------------------
(* A new spline point. *)

\* the points of the spline stay in order
LEMMA PointsExtended ==
    ASSUME Types, Points, curr_num_keys > 0, NEW point \in Coords, LastPoint.x <= point.x,
           NEW P, P = Append(spline_points, point)
    PROVE  /\ P \in Seq(Coords) /\ P # <<>> /\ P[1] = spline_points[1]
           /\ Len(P) = Len(spline_points) + 1 /\ P[Len(P)] = point
           /\ \A h \in 1 .. Len(P) : min_key <= P[h].x /\ P[h].x <= point.x
<1>1. /\ data \in Inputs /\ spline_points \in Seq(Coords) /\ spline_points # <<>>
      /\ \A h \in 1 .. Len(spline_points) :
            min_key <= spline_points[h].x /\ spline_points[h].x <= LastPoint.x
  BY DEF Types, Points
<1>2. /\ P \in Seq(Coords) /\ Len(P) = Len(spline_points) + 1 /\ P # <<>>
      /\ Len(spline_points) \in Nat \ {0} /\ P[Len(P)] = point
      /\ P[1] = spline_points[1]
      /\ \A h \in 1 .. Len(P) : P[h] = point \/ \E j \in 1 .. Len(spline_points) :
                                                   P[h] = spline_points[j]
  BY <1>1
<1>3. \A j \in 1 .. Len(spline_points) : spline_points[j].x \in Nat
  <2>1. \A j \in 1 .. Len(spline_points) : spline_points[j] \in Coords
    BY <1>1, ElementOf
  <2> QED
    BY <2>1 DEF Coords
<1>4. /\ point.x \in Nat /\ LastPoint.x \in Nat /\ min_key \in Nat
      /\ min_key <= LastPoint.x
  BY <1>1, <1>2, <1>3, KeysBetween DEF Coords, LastPoint
<1> QED
  BY <1>1, <1>2, <1>3, <1>4

LEMMA TableExtended ==
    ASSUME Types, Points, Table, curr_num_keys > 0, ~ built,
           NEW point \in Coords, LastPoint.x <= point.x,
           NEW P, P = Append(spline_points, point),
           NEW p \in DOMAIN radix_table
    PROVE  /\ p <= Shift(point.x) => Splits(P, TableWith(P, point.x)[p], p)
           /\ p > Shift(point.x) => Splits(P, Len(P), p)
<1>1. /\ data \in Inputs /\ num_shift_bits \in 0 .. KeyBits
      /\ spline_points \in Seq(Coords) /\ spline_points # <<>>
      /\ DOMAIN radix_table = 0 .. Shift(max_key) + 1
      /\ radix_table[p] \in Nat
      /\ \A h \in 1 .. Len(spline_points) :
            min_key <= spline_points[h].x /\ spline_points[h].x <= LastPoint.x
      /\ prev_prefix = Shift(LastPoint.x)
      /\ p <= prev_prefix => Splits(spline_points, radix_table[p], p)
  BY DEF Types, Points, Table
<1>2. p \in Nat
  BY <1>1, ShiftOfMax
<1>3. /\ P \in Seq(Coords) /\ Len(P) = Len(spline_points) + 1 /\ P # <<>>
      /\ Len(spline_points) \in Nat \ {0} /\ P[Len(P)] = point
  BY <1>1
<1>4. LastPoint \in Coords /\ min_key <= LastPoint.x
  BY <1>1, <1>3, ElementOf DEF LastPoint
<1>5. /\ Shift(LastPoint.x) \in Nat /\ Shift(point.x) \in Nat
      /\ Shift(LastPoint.x) <= Shift(point.x)
  BY <1>1, <1>4, ShiftMonotone DEF Coords
<1>6. /\ p <= Shift(LastPoint.x) /\ Splits(spline_points, radix_table[p], p) =>
            Splits(P, radix_table[p], p)
      /\ Shift(LastPoint.x) < p /\ p <= Shift(point.x) =>
            Splits(P, Len(spline_points), p)
  BY <1>1, <1>2, SplitsGrow DEF LastPoint
<1>7. TableWith(P, point.x)[p] =
          IF prev_prefix < p /\ p <= Shift(point.x) THEN Len(spline_points)
          ELSE radix_table[p]
  BY <1>3 DEF TableWith, Shift
<1>8. ASSUME p <= Shift(point.x)
      PROVE  Splits(P, TableWith(P, point.x)[p], p)
  <2>1. CASE p <= Shift(LastPoint.x)
    BY <1>1, <1>2, <1>5, <1>6, <1>7, <2>1
  <2>2. CASE p > Shift(LastPoint.x)
    BY <1>1, <1>2, <1>5, <1>6, <1>7, <1>8, <2>2
  <2> QED
    BY <1>2, <1>5, <2>1, <2>2
<1>9. ASSUME p > Shift(point.x)
      PROVE  Splits(P, Len(P), p)
  <2>1. \A h \in 1 .. Len(P) : min_key <= P[h].x /\ P[h].x <= point.x
    BY PointsExtended
  <2>2. point.x \in Nat
    BY DEF Coords
  <2> QED
    BY <1>1, <1>2, <1>3, <1>9, <2>1, <2>2, SplitsPast
<1> QED
  BY <1>8, <1>9

LEMMA CutCorridorPreserves ==
    ASSUME IInv, NEW key \in Nat, Adding(key), CutCorridor(key, curr_num_keys)
    PROVE  IInv'
<1> DEFINE q == Coord(key, curr_num_keys)
           u == Upper(key, curr_num_keys)
           w == Lower(key, curr_num_keys)
           P == Append(spline_points, prev_point)
<1> HIDE DEF q, u, w, P
<1>1. /\ Types /\ Cdf /\ Points /\ Candidate /\ Table /\ Corridor /\ Segments
      /\ NewDistinctKey(key, curr_num_keys)
  BY DEF IInv, CutCorridor
<1>2. /\ curr_num_keys \in Nat \ {0} /\ curr_num_keys' > 0 /\ built' = FALSE
      /\ q \in Coords /\ q.x = key /\ q.y = curr_num_keys /\ prev_point' = q
      /\ Cdf' /\ CdfPoints' = CdfPoints \cup {q} /\ CdfPoints \subseteq Coords
      /\ \A c \in CdfPoints : c.x < key /\ c.x <= prev_point.x /\ c.y < curr_num_keys
      /\ LastPoint \in CdfPoints /\ prev_point \in CdfPoints
  BY <1>1, NewKey DEF q
<1>3. /\ u \in Coords /\ w \in Coords /\ u.x = key /\ w.x = key
      /\ u.y = curr_num_keys + max_error
      /\ w.y <= curr_num_keys /\ w.y >= curr_num_keys - max_error
  BY <1>1, <1>2, LimitsOfKey DEF u, w
<1>4. /\ curr_num_distinct_keys >= 2 /\ curr_num_distinct_keys' \in Nat
      /\ curr_num_distinct_keys' > 2 /\ max_error' = max_error /\ max_error \in Nat
      /\ built = FALSE
  BY <1>1, SameParameters DEF CutCorridor, NewDistinctKey, Types, Adding
<1>5. /\ LastPoint.x < prev_point.x /\ prev_point \in Coords /\ LastPoint \in Coords
      /\ LastPoint.x \in Nat /\ prev_point.x \in Nat /\ prev_point.y \in Nat
      /\ prev_point.x < key /\ prev_point.y < curr_num_keys
      /\ LastPoint.x <= prev_point.x
  BY <1>1, <1>2, <1>4 DEF Candidate, Coords
<1>6. /\ spline_points' = P /\ upper_limit' = u /\ lower_limit' = w
      /\ radix_table' = TableWith(P, prev_point.x)
      /\ prev_prefix' = Shift(prev_point.x)
  BY DEF CutCorridor, AddKeyToSpline, SetLimits, u, w, P, Shift
<1>7. /\ P \in Seq(Coords) /\ P # <<>> /\ P[1] = spline_points[1]
      /\ Len(P) = Len(spline_points) + 1 /\ P[Len(P)] = prev_point
      /\ \A h \in 1 .. Len(P) : min_key <= P[h].x /\ P[h].x <= prev_point.x
  <2>1. P = Append(spline_points, prev_point) /\ curr_num_keys > 0
    BY <1>2 DEF P
  <2> QED
    BY <1>1, <1>5, <2>1, PointsExtended
<1>8. LastPoint' = prev_point
  BY <1>6, <1>7 DEF LastPoint
<1>9. /\ min_key' = min_key /\ max_key' = max_key /\ \A x : Shift(x)' = Shift(x)
  BY SameParameters DEF Adding
<1>10. DOMAIN radix_table = DOMAIN radix_table' /\ prev_prefix' \in Nat
       /\ radix_table' \in [0 .. Shift(max_key) + 1 -> Nat]
  <2>1. radix_table' \in [0 .. Shift(max_key) + 1 -> Nat]
    BY <1>1, <1>6, <1>7, TableTyped
  <2>2. min_key <= prev_point.x
    <3>1. data \in Inputs /\ curr_num_keys \in 0 .. Len(data)
      BY <1>1 DEF Types
    <3> QED
      BY <1>2, <3>1, CdfIsCdfOf, CdfOfKeys
  <2>3. prev_prefix' \in Nat
    BY <1>1, <1>5, <1>6, <2>2, ShiftMonotone DEF Types
  <2> QED
    BY <1>1, <2>1, <2>3 DEF Types
<1>11. Types'
  BY <1>1, <1>2, <1>3, <1>4, <1>6, <1>7, <1>10, TypesKept
<1>12. Points'
  <2>1. spline_points[1] = Coord(min_key, 0)
    BY <1>1, <1>2 DEF Points
  <2> QED
    BY <1>2, <1>6, <1>7, <1>8, <1>9, <2>1 DEF Points
<1>13. Candidate'
  BY <1>2, <1>3, <1>4, <1>5, <1>6, <1>8 DEF Candidate
<1>14. Table'
  <2>1. ASSUME NEW p \in DOMAIN radix_table, p <= Shift(prev_point.x)
        PROVE  Splits(P, TableWith(P, prev_point.x)[p], p)
    <3>1. P = Append(spline_points, prev_point) /\ curr_num_keys > 0
      BY <1>2 DEF P
    <3> QED
      BY <1>1, <1>4, <1>5, <2>1, <3>1, TableExtended
  <2>2. ASSUME NEW p \in DOMAIN radix_table', p <= prev_prefix'
        PROVE  Splits(spline_points, radix_table[p], p)'
    <3>1. Splits(P, TableWith(P, prev_point.x)[p], p)
      BY <1>6, <1>10, <2>1, <2>2
    <3> QED
      BY <1>6, <1>9, <3>1 DEF Splits
  <2>3. prev_prefix' = Shift(LastPoint.x)'
    BY <1>6, <1>8, <1>9
  <2> QED
    BY <1>2, <2>2, <2>3 DEF Table
<1>15. Segments'
  <2>1. SegmentsNear(spline_points, CdfPoints, max_error)
    BY <1>1, <1>4 DEF Segments
  <2>2. \A c \in CdfPoints : LastPoint.x <= c.x => Near(LastPoint, prev_point, c, max_error)
    BY <1>1, <1>2, <1>4, ClosingSegment
  <2>3. SegmentsNear(P, CdfPoints, max_error)
    <3>1. spline_points \in Seq(Coords) /\ spline_points # <<>>
      BY <1>1, <1>2 DEF Types, Points
    <3> QED
      BY <1>5, <2>1, <2>2, <3>1, SegmentAdded DEF P, LastPoint
  <2>4. \A h \in 1 .. Len(P) : P[h].x < q.x
    <3>1. \A h \in 1 .. Len(P) : P[h] \in Coords
      BY <1>7, ElementOf
    <3>2. \A h \in 1 .. Len(P) : P[h].x \in Nat
      BY <3>1 DEF Coords
    <3> QED
      BY <1>2, <1>5, <1>7, <3>2
  <2>5. SegmentsNear(P, CdfPoints \cup {q}, max_error)
    BY <1>2, <1>7, <2>3, <2>4, SegmentsKept
  <2> QED
    BY <1>2, <1>4, <1>6, <2>5 DEF Segments
<1>16. Corridor'
  <2>1. \A c \in CdfPoints \cup {q} : c.x > prev_point.x => c = q
    <3>1. \A c \in CdfPoints : c.x \in Nat
      BY <1>2 DEF Coords
    <3> QED
      BY <1>2, <1>5, <3>1
  <2>2. Between(prev_point, u, w, q, CdfPoints \cup {q}, max_error)
    BY <1>2, <1>3, <1>4, <1>5, <2>1, CorridorOpens
  <2> QED
    BY <1>2, <1>4, <1>6, <1>8, <2>2 DEF Corridor
<1> QED
  BY <1>2, <1>11, <1>12, <1>13, <1>14, <1>15, <1>16 DEF IInv, BeforeFirstKey

-----------------------------------------------------------------------------
(* Finalize. *)

\* what Finalize makes of the table that was filled for points up to reached
Completed(filled, reached, size) ==
    [p \in DOMAIN filled |-> IF p > reached THEN size ELSE filled[p]]

LEMMA FinalizePreserves ==
    ASSUME IInv, FinalizeAtEnd
    PROVE  IInv'
<1> DEFINE point == Coord(prev_key, prev_position)
           P == FinalPoints
           T == radix_table'
<1> HIDE DEF point, P, T
<1>1. /\ Types /\ Cdf /\ Points /\ Candidate /\ Table /\ Corridor /\ Segments
      /\ data \in Inputs /\ num_shift_bits \in 0 .. KeyBits /\ max_error \in Nat
      /\ spline_points \in Seq(Coords) /\ built = FALSE
  BY DEF IInv, FinalizeAtEnd, Finalize, Types
<1>2. /\ curr_num_keys = Len(data) /\ curr_num_keys > 0
      /\ spline_points' = P /\ built' = TRUE
      /\ prev_prefix' = Cardinality(DOMAIN radix_table)
      /\ UNCHANGED <<params, cdf, limits>>
  BY <1>1, KeysGiven DEF FinalizeAtEnd, Finalize, P
<1>3. /\ min_key' = min_key /\ max_key' = max_key /\ \A x : Shift(x)' = Shift(x)
      /\ data' = data /\ max_error' = max_error /\ num_shift_bits' = num_shift_bits
  BY <1>2, SameParameters
<1>4. /\ CdfPoints' = CdfPoints /\ curr_num_keys' = curr_num_keys
      /\ curr_num_distinct_keys' = curr_num_distinct_keys /\ prev_key' = prev_key
      /\ prev_position' = prev_position /\ prev_point' = prev_point
      /\ upper_limit' = upper_limit /\ lower_limit' = lower_limit
  BY <1>2, <1>3 DEF cdf, limits, CdfPoints
<1>5. /\ prev_key = max_key /\ prev_key \in Nat /\ prev_position \in Nat
      /\ point \in Coords /\ point.x = prev_key
  BY <1>1, <1>2 DEF Cdf, Types, max_key, point, Coord, Coords
<1>6. /\ LastPoint \in CdfPoints /\ spline_points # <<>>
      /\ spline_points[1] = Coord(min_key, 0)
      /\ \A h \in 1 .. Len(spline_points) :
            min_key <= spline_points[h].x /\ spline_points[h].x <= LastPoint.x
  BY <1>1, <1>2 DEF Points
<1>7. LastPoint \in Coords /\ LastPoint.x \in Nat /\ LastPoint.x <= prev_key
  <2>1. LastPoint \in Coords
    BY <1>1, <1>6, ElementOf DEF LastPoint
  <2>2. LastPoint.x <= prev_key
    BY <1>1, <1>2, <1>6 DEF Cdf
  <2> QED
    BY <2>1, <2>2 DEF Coords
<1>8. /\ P \in Seq(Coords) /\ P # <<>> /\ P[1] = spline_points[1] /\ P[Len(P)].x = max_key
      /\ \A h \in 1 .. Len(P) : min_key <= P[h].x /\ P[h].x <= max_key
  <2>1. CASE LastPoint.x = prev_key
    <3>1. P = spline_points
      BY <2>1 DEF P, FinalPoints
    <3> QED
      BY <1>1, <1>5, <1>6, <2>1, <3>1 DEF LastPoint
  <2>2. CASE LastPoint.x # prev_key
    <3>1. P = Append(spline_points, point)
      BY <2>2 DEF P, FinalPoints, point
    <3> QED
      BY ZenonT(30), <1>1, <1>2, <1>5, <1>7, <3>1, PointsExtended
  <2> QED
    BY <2>1, <2>2
<1>9. /\ DOMAIN T = DOMAIN radix_table /\ T \in [0 .. Shift(max_key) + 1 -> Nat]
      /\ \A p \in DOMAIN radix_table : Splits(P, T[p], p)
  <2>1. /\ radix_table \in [0 .. Shift(max_key) + 1 -> Nat]
        /\ \A p \in DOMAIN radix_table : p \in Nat
        /\ Len(P) \in Nat /\ prev_prefix \in Nat /\ prev_prefix = Shift(LastPoint.x)
        /\ \A p \in DOMAIN radix_table :
              p <= prev_prefix => Splits(spline_points, radix_table[p], p)
    BY <1>1, <1>2, <1>8, ShiftOfMax DEF Types, Table
  <2>2. CASE LastPoint.x = prev_key
    <3>1. P = spline_points
      BY <2>2 DEF P, FinalPoints
    <3>2. T = Completed(radix_table, prev_prefix, Len(P))
      BY <3>1 DEF FinalizeAtEnd, Finalize, Completed, P, T
    <3>3. /\ DOMAIN T = DOMAIN radix_table
          /\ \A p \in DOMAIN radix_table :
                T[p] = IF p > prev_prefix THEN Len(P) ELSE radix_table[p]
          /\ T \in [0 .. Shift(max_key) + 1 -> Nat]
      BY <2>1, <3>2 DEF Completed
    <3>4. ASSUME NEW p \in DOMAIN radix_table, p > prev_prefix
          PROVE  Splits(P, Len(P), p)
      BY <1>1, <1>6, <1>7, <2>1, <3>1, <3>4, SplitsPast
    <3> QED
      BY <2>1, <3>1, <3>3, <3>4
  <2>3. CASE LastPoint.x # prev_key
    <3> DEFINE F == TableWith(P, prev_key)
    <3> HIDE DEF F
    <3>1. P = Append(spline_points, point) /\ P # spline_points
      <4>1. P = Append(spline_points, point)
        BY <2>3 DEF P, FinalPoints, point
      <4>2. Len(P) # Len(spline_points)
        BY <1>1, <1>5, <4>1
      <4> QED
        BY <4>1, <4>2
    <3>2. T = Completed(F, Shift(prev_key), Len(P))
      BY <3>1 DEF FinalizeAtEnd, Finalize, Completed, P, T, F, Shift
    <3>3. F \in [0 .. Shift(max_key) + 1 -> Nat]
      BY <1>1, <1>8, TableTyped DEF F
    <3>4. /\ DOMAIN T = DOMAIN radix_table
          /\ \A p \in DOMAIN radix_table :
                T[p] = IF p > Shift(prev_key) THEN Len(P) ELSE F[p]
          /\ T \in [0 .. Shift(max_key) + 1 -> Nat]
      BY <2>1, <3>2, <3>3 DEF Completed
    <3>5. Shift(prev_key) \in Nat
      BY <1>1, <1>5, ShiftOfMax
    <3>6. ASSUME NEW p \in DOMAIN radix_table
          PROVE  /\ p <= Shift(prev_key) => Splits(P, F[p], p)
                 /\ p > Shift(prev_key) => Splits(P, Len(P), p)
      BY <1>1, <1>2, <1>5, <1>7, <3>1, TableExtended DEF F
    <3> QED
      BY <2>1, <3>4, <3>5, <3>6
  <2> QED
    BY <2>2, <2>3
<1>10. Types'
  <2>1. prev_prefix' \in Nat
    <3>1. DOMAIN radix_table = 0 .. Shift(max_key) + 1 /\ Shift(max_key) + 1 \in Int
      BY <1>1, ShiftOfMax DEF Types
    <3> QED
      BY <1>2, <3>1, FS_Interval, FS_CardinalityType
  <2>2. radix_table' \in [0 .. Shift(max_key)' + 1 -> Nat]
    BY <1>3, <1>9 DEF T
  <2> QED
    BY <1>1, <1>2, <1>3, <1>4, <1>8, <2>1, <2>2 DEF Types
<1>11. Cdf'
  BY <1>1, <1>3, <1>4 DEF Cdf
<1>12. LastPoint' = P[Len(P)]
  BY <1>2 DEF LastPoint
<1>13. Points'
  BY <1>2, <1>3, <1>6, <1>8, <1>12 DEF Points
<1>14. Table'
  BY <1>2, <1>3, <1>9 DEF Table, Splits, T
<1>15. Segments'
  <2>1. SUFFICES ASSUME LargestKeyUnique
                 PROVE  SegmentsNear(P, CdfPoints, max_error)
    BY <1>2, <1>3, <1>4 DEF Segments, LargestKeyUnique
  <2>2. SegmentsNear(spline_points, CdfPoints, max_error)
    BY <1>1 DEF Segments
  <2>3. CASE LastPoint.x = prev_key
    BY <2>2, <2>3 DEF P, FinalPoints
  <2>4. CASE LastPoint.x # prev_key
    <3>1. P = Append(spline_points, point)
      BY <2>4 DEF P, FinalPoints, point
    <3>2. point = prev_point /\ prev_point.x = prev_key
      BY <1>1, <1>2, <1>5, <2>1, LastKeyUnique DEF point
    <3>3. curr_num_distinct_keys >= 2
      <4>1. curr_num_distinct_keys \in Nat /\ curr_num_distinct_keys >= 1
        BY <1>1, <1>2 DEF Types, Cdf
      <4>2. curr_num_distinct_keys # 1
        BY <1>1, <1>2, <2>4, <3>2 DEF Candidate
      <4> QED
        BY <4>1, <4>2
    <3>4. \A c \in CdfPoints : LastPoint.x <= c.x => Near(LastPoint, point, c, max_error)
      BY <1>1, <1>2, <3>2, <3>3, ClosingSegment
    <3> QED
      BY <1>1, <1>5, <1>6, <2>2, <3>1, <3>4, SegmentAdded DEF LastPoint
  <2> QED
    BY <2>3, <2>4
<1> QED
  BY <1>2, <1>4, <1>10, <1>11, <1>13, <1>14, <1>15
     DEF IInv, BeforeFirstKey, Candidate, Corridor

-----------------------------------------------------------------------------
(* The invariant, and what follows from it. *)

LEMMA Unchanged ==
    ASSUME IInv, UNCHANGED vars
    PROVE  IInv'
<1>1. /\ UNCHANGED params /\ UNCHANGED <<curr_num_keys, curr_num_distinct_keys, prev_key>>
      /\ UNCHANGED <<prev_position, prev_point, spline_points, radix_table, prev_prefix>>
      /\ UNCHANGED <<upper_limit, lower_limit, built>>
  BY DEF vars, cdf, spline, limits
<1>2. /\ min_key' = min_key /\ max_key' = max_key /\ \A x : Shift(x)' = Shift(x)
      /\ data' = data /\ max_error' = max_error /\ num_shift_bits' = num_shift_bits
  BY <1>1, SameParameters
<1>3. CdfPoints' = CdfPoints /\ LastPoint' = LastPoint
  BY <1>1, <1>2 DEF CdfPoints, LastPoint
<1>4. Types' /\ BeforeFirstKey' /\ Cdf'
  BY <1>1, <1>2, <1>3 DEF IInv, Types, BeforeFirstKey, Cdf
<1>5. Points' /\ Candidate' /\ Corridor' /\ Segments'
  BY <1>1, <1>2, <1>3
     DEF IInv, Points, Candidate, Corridor, Segments, LargestKeyUnique
<1>6. Table'
  BY <1>1, <1>2, <1>3 DEF IInv, Table, Splits
<1> QED
  BY <1>4, <1>5, <1>6 DEF IInv

(***************************************************************************)
(* The invariant holds in every state of every construction.               *)
(***************************************************************************)
THEOREM Invariance == Spec => []IInv
<1>1. Init => IInv
  BY Initially
<1>2. IInv /\ [Next]_vars => IInv'
  <2> SUFFICES ASSUME IInv, [Next]_vars PROVE IInv'
    OBVIOUS
  <2>1. CASE AddNextKey
    BY <2>1, NextKey, FirstKeyPreserves, DuplicateKeyPreserves, SecondKeyPreserves,
       CutCorridorPreserves, TightenCorridorPreserves
  <2>2. CASE FinalizeAtEnd
    BY <2>2, FinalizePreserves
  <2>3. CASE Lookup
    BY <2>3, Unchanged DEF Lookup
  <2>4. CASE UNCHANGED vars
    BY <2>4, Unchanged
  <2> QED
    BY <2>1, <2>2, <2>3, <2>4 DEF Next
<1> QED
  BY <1>1, <1>2, PTL DEF Spec

(***************************************************************************)
(* No assertion of AddKey, PossiblyAddKeyToSpline and Finalize can fail on *)
(* sorted keys, for any of their errors, radix bits and duplicates.        *)
(***************************************************************************)
THEOREM AssertionsTheorem == Spec => []AssertionsHold
<1>1. IInv => AssertionsHold
  <2> SUFFICES ASSUME IInv PROVE AssertionsHold
    OBVIOUS
  <2> DEFINE key == data[curr_num_keys + 1]
  <2>1. /\ Types /\ BeforeFirstKey /\ Cdf /\ Points /\ Candidate /\ data \in Inputs
        /\ curr_num_keys \in 0 .. Len(data) /\ Len(data) \in Nat \ {0} /\ max_error \in Nat
    BY KeysGiven DEF IInv, Types
  <2>2. NextPosition = curr_num_keys
    BY <2>1 DEF NextPosition, Cdf
  <2>3. curr_num_keys = Len(data) => prev_key = max_key
    BY <2>1 DEF Cdf, max_key
  <2>4. ASSUME ~ built, curr_num_keys < Len(data)
        PROVE  /\ key >= prev_key /\ key \in Nat
               /\ curr_num_keys = 0 \/ curr_num_keys > prev_position
    <3>1. curr_num_keys + 1 \in 1 .. Len(data)
      BY <2>1, <2>4
    <3>2. key \in Nat /\ min_key <= key
      BY <2>1, <3>1, KeysGiven, KeysBetween
    <3>3. CASE curr_num_keys = 0
      BY <2>1, <3>2, <3>3 DEF BeforeFirstKey
    <3>4. CASE curr_num_keys > 0
      <4>1. /\ prev_key = data[curr_num_keys] /\ prev_position = curr_num_keys - 1
            /\ curr_num_keys \in 1 .. Len(data) /\ curr_num_keys <= curr_num_keys + 1
        BY <2>1, <3>4 DEF Cdf
      <4>2. data[curr_num_keys] <= data[curr_num_keys + 1]
        BY <2>1, <3>1, <4>1, KeysGiven
      <4> QED
        BY <2>1, <3>2, <4>1, <4>2, KeysGiven
    <3> QED
      BY <2>1, <3>3, <3>4
  <2>5. ASSUME ~ built, curr_num_keys < Len(data), curr_num_distinct_keys >= 2,
               key # prev_key
        PROVE  /\ upper_limit.x >= LastPoint.x /\ lower_limit.x >= LastPoint.x
               /\ key >= LastPoint.x
               /\ upper_limit.y >= LastPoint.y /\ curr_num_keys >= LastPoint.y
               /\ prev_point.x # LastPoint.x
               /\ Upper(key, curr_num_keys).y >= LastPoint.y
    <3>1. curr_num_keys > 0
      BY <2>1, <2>5 DEF BeforeFirstKey
    <3>2. /\ LastPoint \in CdfPoints /\ CdfPoints \subseteq Coords
          /\ LastPoint.x <= prev_key /\ LastPoint.y <= prev_position
          /\ prev_position = curr_num_keys - 1
      BY <2>1, <2>5, <3>1, CdfIsCdfOf, CdfOfKeys DEF Points, Cdf
    <3>3. /\ prev_point.x > LastPoint.x /\ upper_limit.x > LastPoint.x
          /\ lower_limit.x > LastPoint.x /\ upper_limit.y >= LastPoint.y
      BY <2>1, <2>5, <3>1 DEF Candidate
    <3>4. /\ LastPoint.x \in Nat /\ LastPoint.y \in Nat /\ prev_key \in Nat
          /\ upper_limit.x \in Nat /\ lower_limit.x \in Nat /\ prev_point.x \in Nat
      BY <2>1, <3>2 DEF Types, Coords
    <3>5. Upper(key, curr_num_keys).y = curr_num_keys + max_error
      BY DEF Upper, Coord
    <3> QED
      BY SMTT(20), <2>1, <2>4, <2>5, <3>2, <3>3, <3>4, <3>5
  <2> HIDE DEF key
  <2> QED
    BY <2>2, <2>3, <2>4, <2>5 DEF AssertionsHold, key
<1> QED
  BY <1>1, Invariance, PTL

(***************************************************************************)
(* Every ray from the last spline point between the limits passes within   *)
(* max_error of every CDF point it crosses.                                *)
(***************************************************************************)
THEOREM CorridorTheorem == Spec => []CorridorSound
<1>1. IInv => CorridorSound
  <2> SUFFICES ASSUME IInv, ~ built, curr_num_distinct_keys >= 2,
                      NEW c \in CdfPoints, c.x > LastPoint.x
               PROVE  /\ Turn(Coord(c.x, c.y + max_error), upper_limit) # "CCW"
                      /\ Turn(Coord(c.x, c.y - max_error), lower_limit) # "CW"
    BY DEF CorridorSound
  <2>1. /\ Types /\ BeforeFirstKey /\ Points /\ Corridor /\ data \in Inputs
        /\ curr_num_keys \in 0 .. Len(data) /\ max_error \in Nat
        /\ upper_limit \in Coords /\ lower_limit \in Coords
    BY DEF IInv, Types
  <2>2. curr_num_keys > 0
    BY <2>1, KeysGiven DEF BeforeFirstKey
  <2>3. /\ Steeper(LastPoint, Coord(c.x, c.y + max_error), upper_limit)
        /\ Steeper(LastPoint, lower_limit, Coord(c.x, c.y - max_error))
    BY <2>1, <2>2 DEF Corridor, Between
  <2>4. c \in Coords /\ LastPoint \in Coords
    BY <2>1, <2>2, CdfIsCdfOf, CdfOfKeys DEF Points
  <2>5. /\ Coord(c.x, c.y + max_error) \in Marks /\ Coord(c.x, c.y - max_error) \in Marks
        /\ upper_limit \in Marks /\ lower_limit \in Marks /\ LastPoint \in Marks
    BY <2>1, <2>4, CoordsAreMarks
  <2> QED
    BY <2>3, <2>5, TurnIsSteeper
<1> QED
  BY <1>1, Invariance, PTL

-----------------------------------------------------------------------------
(* Searches of the finished spline. *)

\* 0-based indices of the points at or above a key
AtLeast(key) == {h \in 0 .. Len(spline_points) - 1 : spline_points[h + 1].x >= key}

LEMMA SearchExact ==
    ASSUME IInv, built, NEW key \in Nat, min_key < key, key < max_key,
           NEW segment, segment = LeastIndex(AtLeast(key))
    PROVE  /\ GetSplineSegment(Spline, key) = segment
           /\ radix_table[Prefix(Spline, key)] <= segment
           /\ segment \in 1 .. Len(spline_points) - 1
           /\ spline_points[segment].x < key
           /\ key <= spline_points[segment + 1].x
<1> DEFINE P == spline_points
           S == AtLeast(key)
           p == Shift(key)
           begin == radix_table[p]
           fin == radix_table[p + 1]
<1> HIDE DEF P, S, p, begin, fin
<1>1. /\ Types /\ Points /\ Table /\ data \in Inputs /\ num_shift_bits \in 0 .. KeyBits
      /\ P \in Seq(Coords) /\ min_key \in Nat /\ max_key \in Nat
      /\ curr_num_keys > 0 /\ curr_num_keys \in Nat
      /\ radix_table \in [0 .. Shift(max_key) + 1 -> Nat]
  BY KeysGiven, KeysBetween DEF IInv, Types, P
<1>2. /\ P # <<>> /\ P[1] = Coord(min_key, 0) /\ P[Len(P)].x = max_key
      /\ \A h \in 1 .. Len(P) : min_key <= P[h].x
  BY <1>1 DEF Points, P, LastPoint
<1>3. /\ Len(P) \in Nat \ {0}
      /\ \A h \in 1 .. Len(P) : P[h] \in Coords /\ P[h].x \in Nat
  <2>1. Len(P) \in Nat \ {0} /\ \A h \in 1 .. Len(P) : P[h] \in Coords
    BY <1>1, <1>2, ElementOf
  <2> QED
    BY <2>1 DEF Coords
<1>4. /\ p \in Nat /\ p \in DOMAIN radix_table /\ p + 1 \in DOMAIN radix_table
      /\ begin \in Nat /\ fin \in Nat
  <2>1. p \in Nat /\ Shift(max_key) \in Nat /\ p <= Shift(max_key)
    BY <1>1, ShiftMonotone DEF p
  <2> QED
    BY <1>1, <2>1 DEF begin, fin
<1>5. \A h \in 1 .. Len(P) : /\ Shift(P[h].x) \in Nat
                             /\ P[h].x >= key => Shift(P[h].x) >= p
                             /\ P[h].x <= key => Shift(P[h].x) <= p
  BY SMTT(20), <1>1, <1>2, <1>3, ShiftMonotone DEF p
<1>6. Splits(P, begin, p) /\ Splits(P, fin, p + 1)
  BY <1>1, <1>4 DEF Table, P, begin, fin
<1>7. /\ begin <= Len(P) /\ fin <= Len(P)
      /\ \A h \in 1 .. Len(P) : h <= begin => P[h].x < key
      /\ \A h \in 1 .. Len(P) : h > fin => P[h].x >= key
  <2>1. \A h \in 1 .. Len(P) : h <= begin => Shift(P[h].x) < p
    BY <1>6 DEF Splits
  <2>2. \A h \in 1 .. Len(P) : h > fin => Shift(P[h].x) >= p + 1
    BY <1>3, <1>4, <1>6 DEF Splits
  <2>3. begin <= Len(P) /\ fin <= Len(P)
    BY <1>6 DEF Splits
  <2>4. ASSUME NEW h \in 1 .. Len(P), h <= begin
        PROVE  P[h].x < key
    <3>1. Shift(P[h].x) < p /\ Shift(P[h].x) \in Nat
      BY <1>5, <2>1, <2>4
    <3>2. ~ (P[h].x >= key)
      BY <1>4, <1>5, <3>1
    <3> QED
      BY <1>3, <3>2
  <2>5. ASSUME NEW h \in 1 .. Len(P), h > fin
        PROVE  P[h].x >= key
    <3>1. Shift(P[h].x) >= p + 1 /\ Shift(P[h].x) \in Nat
      BY <1>5, <2>2, <2>5
    <3>2. ~ (P[h].x <= key)
      BY <1>4, <1>5, <3>1
    <3> QED
      BY <1>3, <3>2
  <2> QED
    BY <2>3, <2>4, <2>5
<1>8. /\ S \in SUBSET Nat /\ S # {}
      /\ \A h : h \in S <=> h \in 0 .. Len(P) - 1 /\ P[h + 1].x >= key
  <2>1. \A h : h \in S <=> h \in 0 .. Len(P) - 1 /\ P[h + 1].x >= key
    BY DEF S, AtLeast, P
  <2>2. Len(P) - 1 \in S
    BY <1>1, <1>2, <1>3, <2>1
  <2> QED
    BY <1>3, <2>1, <2>2
<1>9. segment \in S /\ \A j \in S : segment <= j
  BY <1>8, LeastIndexOf DEF S
<1>10. /\ segment \in 1 .. Len(P) - 1 /\ P[segment].x < key /\ key <= P[segment + 1].x
  <2>1. 0 \notin S
    BY <1>1, <1>2, <1>8 DEF Coord
  <2>2. segment \in 1 .. Len(P) - 1 /\ P[segment + 1].x >= key
    BY <1>3, <1>8, <1>9, <2>1
  <2>3. segment - 1 \notin S
    BY <1>9, <2>2
  <2>4. segment - 1 \in 0 .. Len(P) - 1 /\ (segment - 1) + 1 = segment
    BY <1>3, <2>2
  <2>5. ~ (P[segment].x >= key)
    BY <1>8, <2>3, <2>4
  <2> QED
    BY <1>3, <2>2, <2>5
<1>11. begin <= segment
  <2>1. SUFFICES ASSUME segment + 1 <= begin PROVE FALSE
    BY <1>4, <1>10
  <2>2. segment + 1 \in 1 .. Len(P)
    BY <1>3, <1>10
  <2> QED
    BY <1>3, <1>7, <1>10, <2>1, <2>2
<1>12. /\ Prefix(Spline, key) = p /\ Spline.radix_table = radix_table
       /\ Spline.spline_points = P
       /\ \A h : PointX(Spline, h) = P[h + 1].x
  BY DEF Prefix, Spline, PointX, P, p, Shift
<1>13. LinearScan(Spline, begin, key) = segment
  <2>1. {h \in begin .. Len(P) - 1 : P[h + 1].x >= key} = S
    <3>1. ASSUME NEW h \in 0 .. Len(P) - 1, P[h + 1].x >= key
          PROVE  h >= begin
      <4>1. h + 1 \in 1 .. Len(P) /\ h \in Nat
        BY <1>3
      <4>2. ~ (h + 1 <= begin)
        BY <1>3, <1>7, <3>1, <4>1
      <4> QED
        BY <1>4, <4>1, <4>2
    <3> QED
      BY <1>3, <1>4, <1>8, <3>1
  <2> QED
    BY <1>12, <2>1 DEF LinearScan, S
<1>14. BinarySearch(Spline, begin, fin, key) = segment
  <2> DEFINE I == {h \in begin .. fin - 1 : P[h + 1].x >= key} \cup {fin}
  <2>1. I \in SUBSET Nat /\ I # {}
    BY <1>4
  <2>2. LeastIndex(I) \in I /\ \A j \in I : LeastIndex(I) <= j
    BY <2>1, LeastIndexOf
  <2>3. ASSUME NEW j \in I, j # fin
        PROVE  j \in S
    <3>1. j \in begin .. fin - 1 /\ P[j + 1].x >= key
      BY <2>3
    <3>2. j \in 0 .. Len(P) - 1
      BY <1>3, <1>4, <1>7, <3>1
    <3> QED
      BY <1>8, <3>1, <3>2
  <2>4. segment \in I /\ \A j \in I : segment <= j
    <3>1. CASE segment < fin
      <4>1. segment \in I
        BY <1>4, <1>10, <1>11, <3>1
      <4>2. segment <= fin
        BY <1>4, <1>10, <3>1
      <4> QED
        BY <1>9, <2>3, <4>1, <4>2
    <3>2. CASE segment >= fin
      <4>1. fin \in 0 .. Len(P) - 1 /\ fin + 1 \in 1 .. Len(P) /\ fin + 1 > fin
        BY <1>3, <1>4, <1>10, <3>2
      <4>2. fin \in S
        BY <1>7, <1>8, <4>1
      <4>3. segment = fin
        BY <1>4, <1>9, <1>10, <3>2, <4>2
      <4> QED
        BY <1>4, <1>9, <2>3, <4>3
    <3> QED
      BY <1>4, <1>10, <3>1, <3>2
  <2>5. \A j \in I : j \in Nat
    BY <2>1
  <2> HIDE DEF I
  <2>6. LeastIndex(I) = segment
    BY <2>2, <2>4, <2>5
  <2> QED
    BY <1>12, <2>6 DEF BinarySearch, I
<1>15. GetSplineSegment(Spline, key) = segment
  BY <1>12, <1>13, <1>14 DEF GetSplineSegment, begin, fin
<1> QED
  BY <1>10, <1>11, <1>12, <1>15 DEF P, begin

(***************************************************************************)
(* The radix table never changes the answer of a search.                   *)
(***************************************************************************)
THEOREM RadixTableTheorem == Spec => []RadixTableExact
<1>1. IInv => RadixTableExact
  <2> SUFFICES ASSUME IInv, built, NEW key \in min_key + 1 .. max_key - 1
               PROVE  LET segment == LeastIndex({h \in 0 .. Len(spline_points) - 1 :
                                                     PointX(Spline, h) >= key})
                      IN  /\ radix_table[Prefix(Spline, key)] <= segment
                          /\ GetSplineSegment(Spline, key) = segment
    BY DEF RadixTableExact
  <2>1. data \in Inputs /\ min_key \in Nat /\ max_key \in Nat
    BY KeysBetween DEF IInv, Types
  <2>2. key \in Nat /\ min_key < key /\ key < max_key
    BY <2>1
  <2>3. AtLeast(key) = {h \in 0 .. Len(spline_points) - 1 : PointX(Spline, h) >= key}
    BY DEF AtLeast, PointX, Spline
  <2> QED
    BY <2>2, <2>3, SearchExact
<1> QED
  BY <1>1, Invariance, PTL

(***************************************************************************)
(* At every distinct key below the largest the estimate of the finished    *)
(* spline is within max_error of the key's first position, unless copies   *)
(* of the largest key moved the end of the last segment.                   *)
(***************************************************************************)
THEOREM ErrorBoundTheorem == Spec => [](LargestKeyUnique => ErrorBound)
<1>1. IInv => (LargestKeyUnique => ErrorBound)
  <2> SUFFICES ASSUME IInv, LargestKeyUnique, built, NEW c \in CdfPoints, c.x < max_key,
                      NEW e, e = GetEstimatedPosition(Spline, c.x)
               PROVE  /\ e.num <= (c.y + max_error) * e.den
                      /\ e.num >= (c.y - max_error) * e.den
    BY DEF ErrorBound
  <2>1. /\ Types /\ Cdf /\ Points /\ Segments /\ data \in Inputs /\ max_error \in Nat
        /\ curr_num_keys \in 1 .. Len(data) /\ min_key \in Nat /\ max_key \in Nat
        /\ spline_points \in Seq(Coords)
    BY KeysGiven, KeysBetween DEF IInv, Types
  <2>2. /\ c \in Coords /\ c.x \in Nat /\ c.y \in Nat /\ min_key <= c.x
        /\ \A d \in CdfPoints : min_key <= d.x
    BY <2>1, CdfIsCdfOf, CdfOfKeys DEF Coords
  <2>3. Spline.min_key = min_key /\ Spline.max_key = max_key
        /\ Spline.spline_points = spline_points
    BY DEF Spline
  <2>4. CASE c.x = min_key
    <3>1. Coord(data[1], 0) \in CdfPoints
      BY <2>1 DEF CdfPoints
    <3>2. Coord(data[1], 0).x = c.x /\ Coord(data[1], 0).y = 0
      BY <2>4 DEF Coord, min_key
    <3>3. c.y = 0
      BY <2>1, <2>2, <3>1, <3>2 DEF Cdf
    <3>4. e.num = 0 /\ e.den = 1
      BY <2>2, <2>3, <2>4 DEF GetEstimatedPosition
    <3> QED
      BY <2>1, <3>3, <3>4
  <2>5. CASE c.x > min_key
    <3> DEFINE segment == LeastIndex(AtLeast(c.x))
               a == spline_points[segment]
               b == spline_points[segment + 1]
    <3> HIDE DEF segment
    <3>1. /\ GetSplineSegment(Spline, c.x) = segment
          /\ segment \in 1 .. Len(spline_points) - 1 /\ a.x < c.x /\ c.x <= b.x
      BY <2>2, <2>5, SearchExact DEF segment
    <3>2. e = Interpolate(a, b, c.x)
      BY <2>1, <2>2, <2>3, <2>5, <3>1 DEF GetEstimatedPosition
    <3>3. a \in Coords /\ b \in Coords
      <4>1. segment \in 1 .. Len(spline_points) /\ segment + 1 \in 1 .. Len(spline_points)
        BY <2>1, <3>1
      <4> QED
        BY <2>1, <4>1, ElementOf
    <3>4. /\ a.x \in Nat /\ a.y \in Nat /\ b.x \in Nat /\ b.y \in Nat
          /\ c.x \in Nat /\ c.y \in Nat /\ max_error \in Nat
      BY <2>1, <2>2, <3>3 DEF Coords
    <3>5. Near(a, b, c, max_error)
      <4>1. SegmentsNear(spline_points, CdfPoints, max_error)
        BY <2>1 DEF Segments
      <4>2. a.x <= c.x
        BY <2>2, <3>1, <3>4
      <4> QED
        BY <3>1, <4>1, <4>2 DEF SegmentsNear
    <3> HIDE DEF a, b
    <3>6. /\ ((c.y + max_error) - a.y) * (b.x - a.x) >= (b.y - a.y) * (c.x - a.x)
          /\ (b.y - a.y) * (c.x - a.x) >= ((c.y - max_error) - a.y) * (b.x - a.x)
      BY <3>5 DEF Near, Steeper, Coord
    <3>7. /\ e.num = a.y * (b.x - a.x) + (c.x - a.x) * (b.y - a.y)
          /\ e.den = b.x - a.x
      BY <3>2 DEF Interpolate
    <3> DEFINE w == b.x - a.x
               r == b.y - a.y
               t == c.x - a.x
               y == a.y
               high == c.y + max_error
               low == c.y - max_error
    <3>8. /\ w \in Int /\ r \in Int /\ t \in Int /\ y \in Int
          /\ high \in Int /\ low \in Int
      BY <3>4
    <3> HIDE DEF w, r, t, y, high, low
    <3>9. (high - y) * w = high * w - y * w /\ (low - y) * w = low * w - y * w
      BY <3>8, Distribute
    <3>10. r * t = t * r /\ r * t \in Int /\ y * w \in Int /\ high * w \in Int /\ low * w \in Int
      BY <3>8
    <3>11. (high - y) * w >= r * t /\ r * t >= (low - y) * w
      BY <3>6 DEF w, r, t, y, high, low
    <3>12. e.num = y * w + t * r /\ e.den = w
      BY <3>7 DEF w, r, t, y
    <3>13. e.num <= high * w /\ e.num >= low * w
      BY <3>9, <3>10, <3>11, <3>12
    <3> QED
      BY <3>12, <3>13 DEF high, low
  <2> QED
    BY <2>1, <2>2, <2>4, <2>5
<1> QED
  BY <1>1, Invariance, PTL

-----------------------------------------------------------------------------
(***************************************************************************)
(* What the users of a spline rely on as well: its points rise, are points *)
(* of the CDF, and a count of distinct keys that is the count of keys      *)
(* means that no key is repeated.                                          *)
(***************************************************************************)
Rising(points) ==
    \A h, j \in 1 .. Len(points) :
        h < j => points[h].x < points[j].x /\ points[h].y < points[j].y

Order ==
    /\ Rising(spline_points)
    /\ \A h \in 1 .. Len(spline_points) : spline_points[h].y <= prev_position
    /\ (built => LargestKeyUnique) =>
          \A h \in 1 .. Len(spline_points) : spline_points[h] \in CdfPoints
    /\ curr_num_distinct_keys <= curr_num_keys
    /\ curr_num_distinct_keys = curr_num_keys =>
          \A h \in 1 .. curr_num_keys - 1 : data[h] # data[h + 1]

LEMMA RisingGrows ==
    ASSUME NEW P \in Seq(Coords), NEW point \in Coords, Rising(P),
           P # <<>> => P[Len(P)].x < point.x /\ P[Len(P)].y < point.y
    PROVE  Rising(Append(P, point))
<1> DEFINE Q == Append(P, point)
<1>1. /\ Len(P) \in Nat /\ Len(Q) = Len(P) + 1
      /\ \A h \in 1 .. Len(P) : Q[h] = P[h]
      /\ Q[Len(P) + 1] = point
  OBVIOUS
<1>2. \A h \in 1 .. Len(P) : P[h] \in Coords
  BY ElementOf
<1>3. \A h \in 1 .. Len(P) : P[h].x \in Nat /\ P[h].y \in Nat
  BY <1>2 DEF Coords
<1>4. point.x \in Nat /\ point.y \in Nat
  BY DEF Coords
<1> HIDE DEF Q
<1>5. SUFFICES ASSUME NEW h \in 1 .. Len(Q), NEW j \in 1 .. Len(Q), h < j
               PROVE  Q[h].x < Q[j].x /\ Q[h].y < Q[j].y
  BY DEF Rising, Q
<1>6. CASE j \in 1 .. Len(P)
  <2>1. h \in 1 .. Len(P)
    BY <1>1, <1>5, <1>6
  <2> QED
    BY <1>1, <1>5, <1>6, <2>1 DEF Rising
<1>7. CASE j = Len(P) + 1
  <2>1. h \in 1 .. Len(P) /\ Len(P) \in 1 .. Len(P) /\ P # <<>>
    BY <1>1, <1>5, <1>7
  <2>2. /\ P[h].x <= P[Len(P)].x /\ P[h].y <= P[Len(P)].y
    <3>1. CASE h = Len(P)
      BY <1>3, <2>1, <3>1
    <3>2. CASE h < Len(P)
      BY <1>3, <2>1, <3>2 DEF Rising
    <3> QED
      BY <1>1, <2>1, <3>1, <3>2
  <2> QED
    BY <1>1, <1>3, <1>4, <1>7, <2>1, <2>2
<1> QED
  BY <1>1, <1>6, <1>7

\* positions grow strictly with the keys
LEMMA CdfStrict ==
    ASSUME data \in Inputs, NEW n \in 0 .. Len(data),
           NEW c \in CdfOf(data, n), NEW j \in 1 .. n, c.x < data[j]
    PROVE  c.y < j - 1
<1>1. PICK h \in 1 .. n : c = Coord(data[h], h - 1)
  BY DEF CdfOf
<1>2. /\ Len(data) \in Nat /\ h \in 1 .. Len(data) /\ j \in 1 .. Len(data)
      /\ data[h] \in Nat /\ data[j] \in Nat
      /\ j <= h => data[j] <= data[h]
  BY KeysGiven
<1>3. c.x = data[h] /\ c.y = h - 1
  BY <1>1 DEF Coord
<1> QED
  BY <1>2, <1>3

LEMMA OrderOfPoints ==
    ASSUME IInv, Order, NEW point \in CdfPoints, curr_num_keys > 0, ~ built,
           LastPoint.x < point.x
    PROVE  /\ Rising(Append(spline_points, point))
           /\ \A h \in 1 .. Len(Append(spline_points, point)) :
                 Append(spline_points, point)[h] \in CdfPoints
<1>1. /\ Types /\ Points /\ data \in Inputs /\ curr_num_keys \in 0 .. Len(data)
      /\ spline_points \in Seq(Coords) /\ spline_points # <<>>
      /\ LastPoint \in CdfPoints /\ Rising(spline_points)
      /\ \A h \in 1 .. Len(spline_points) : spline_points[h] \in CdfPoints
  BY DEF IInv, Types, Points, Order
<1>2. point \in Coords
  BY <1>1, CdfIsCdfOf, CdfOfKeys
<1>3. LastPoint.y < point.y
  <2>1. PICK j \in 1 .. curr_num_keys : point = Coord(data[j], j - 1)
    BY DEF CdfPoints
  <2>2. point.x = data[j] /\ point.y = j - 1
    BY <2>1 DEF Coord
  <2> QED
    BY <1>1, <2>2, CdfIsCdfOf, CdfStrict
<1>4. Rising(Append(spline_points, point))
  BY <1>1, <1>2, <1>3, RisingGrows DEF LastPoint
<1>5. \A h \in 1 .. Len(Append(spline_points, point)) :
          Append(spline_points, point)[h] \in CdfPoints
  BY <1>1
<1> QED
  BY <1>4, <1>5

LEMMA DistinctCounted ==
    ASSUME IInv, Order, NEW key \in Nat, Adding(key),
           curr_num_distinct_keys' = IF curr_num_keys = 0 \/ key # prev_key
                                     THEN curr_num_distinct_keys + 1
                                     ELSE curr_num_distinct_keys
    PROVE  /\ curr_num_distinct_keys' <= curr_num_keys'
           /\ curr_num_distinct_keys' = curr_num_keys' =>
                 \A h \in 1 .. curr_num_keys' - 1 : data'[h] # data'[h + 1]
<1>1. /\ curr_num_keys \in Nat /\ curr_num_distinct_keys \in Nat
      /\ curr_num_keys' = curr_num_keys + 1 /\ data' = data
      /\ key = data[curr_num_keys + 1]
      /\ curr_num_keys > 0 => prev_key = data[curr_num_keys]
      /\ curr_num_distinct_keys <= curr_num_keys
      /\ curr_num_distinct_keys = curr_num_keys =>
            \A h \in 1 .. curr_num_keys - 1 : data[h] # data[h + 1]
  BY SameParameters DEF IInv, Types, Adding, Cdf, Order
<1>2. curr_num_distinct_keys' <= curr_num_keys'
  BY <1>1
<1>3. ASSUME curr_num_distinct_keys' = curr_num_keys', NEW h \in 1 .. curr_num_keys' - 1
      PROVE  data[h] # data[h + 1]
  <2>1. /\ curr_num_keys > 0 /\ key # prev_key
        /\ curr_num_distinct_keys = curr_num_keys
    BY <1>1, <1>3
  <2>2. CASE h = curr_num_keys
    BY <1>1, <2>1, <2>2
  <2>3. CASE h # curr_num_keys
    BY <1>1, <1>3, <2>1, <2>3
  <2> QED
    BY <2>2, <2>3
<1> QED
  BY <1>1, <1>2, <1>3

\* what the cases of AddKey do to the spline and to the count of distinct keys
LEMMA SplineSteps ==
    ASSUME IInv, NEW key \in Nat, Adding(key), curr_num_keys > 0,
           \/ DuplicateKey(key, curr_num_keys) \/ SecondKey(key, curr_num_keys)
           \/ CutCorridor(key, curr_num_keys) \/ TightenCorridor(key, curr_num_keys)
    PROVE  /\ \/ spline_points' = spline_points
              \/ /\ spline_points' = Append(spline_points, prev_point)
                 /\ LastPoint.x < prev_point.x
           /\ curr_num_distinct_keys' = IF curr_num_keys = 0 \/ key # prev_key
                                        THEN curr_num_distinct_keys + 1
                                        ELSE curr_num_distinct_keys
<1>1. Types /\ Candidate /\ ~ built
  BY DEF IInv, Adding
<1>2. CASE DuplicateKey(key, curr_num_keys)
  BY <1>2 DEF DuplicateKey, spline
<1>3. CASE SecondKey(key, curr_num_keys)
  BY <1>3 DEF SecondKey, NewDistinctKey, spline
<1>4. CASE TightenCorridor(key, curr_num_keys)
  BY <1>4 DEF TightenCorridor, NewDistinctKey, spline
<1>5. CASE CutCorridor(key, curr_num_keys)
  <2>1. curr_num_distinct_keys >= 2
    BY <1>1, <1>5 DEF CutCorridor, NewDistinctKey, Types
  <2>2. prev_point.x > LastPoint.x
    BY <1>1, <2>1 DEF Candidate
  <2>3. LastPoint.x < prev_point.x
    BY <2>2
  <2> QED
    BY <1>5, <2>3 DEF CutCorridor, NewDistinctKey, AddKeyToSpline
<1> QED
  BY <1>2, <1>3, <1>4, <1>5

LEMMA OrderKept ==
    ASSUME IInv, IInv', Order, AddNextKey
    PROVE  Order'
<1>1. PICK key \in Nat : /\ Adding(key)
                         /\ \/ FirstKey(key, curr_num_keys)
                            \/ DuplicateKey(key, curr_num_keys)
                            \/ SecondKey(key, curr_num_keys)
                            \/ CutCorridor(key, curr_num_keys)
                            \/ TightenCorridor(key, curr_num_keys)
  BY NextKey
<1>2. /\ Types /\ Cdf /\ BeforeFirstKey /\ Points /\ built = FALSE /\ built' = FALSE
      /\ Types' /\ Cdf' /\ Points'
      /\ curr_num_keys \in Nat /\ curr_num_keys' = curr_num_keys + 1
      /\ prev_position' = curr_num_keys
  BY <1>1 DEF IInv, Adding, Types
<1>3. SUFFICES /\ Rising(spline_points')
               /\ \A h \in 1 .. Len(spline_points') : spline_points'[h] \in CdfPoints'
               /\ curr_num_distinct_keys' = IF curr_num_keys = 0 \/ key # prev_key
                                            THEN curr_num_distinct_keys + 1
                                            ELSE curr_num_distinct_keys
  <2>1. ASSUME \A h \in 1 .. Len(spline_points') : spline_points'[h] \in CdfPoints'
        PROVE  \A h \in 1 .. Len(spline_points') : spline_points'[h].y <= prev_position'
    <3>1. \A c \in CdfPoints' : c.y <= prev_position'
      BY <1>2 DEF Cdf
    <3> QED
      BY <2>1, <3>1
  <2>2. ASSUME curr_num_distinct_keys' = IF curr_num_keys = 0 \/ key # prev_key
                                         THEN curr_num_distinct_keys + 1
                                         ELSE curr_num_distinct_keys
        PROVE  /\ curr_num_distinct_keys' <= curr_num_keys'
               /\ curr_num_distinct_keys' = curr_num_keys' =>
                     \A h \in 1 .. curr_num_keys' - 1 : data'[h] # data'[h + 1]
    BY <1>1, <2>2, DistinctCounted
  <2> QED
    BY <2>1, <2>2 DEF Order
<1>4. CASE FirstKey(key, curr_num_keys)
  <2>1. curr_num_keys = 0 /\ spline_points = <<>>
    BY <1>2, <1>4 DEF FirstKey, BeforeFirstKey
  <2>2. PICK point : spline_points' = <<point>>
    BY <1>4, <2>1 DEF FirstKey, AddKeyToSpline
  <2>3. Len(spline_points') = 1 /\ spline_points'[1] = LastPoint'
    BY <2>2 DEF LastPoint
  <2>4. LastPoint' \in CdfPoints'
    BY <1>2, <2>1 DEF Points
  <2>5. curr_num_distinct_keys' = curr_num_distinct_keys + 1
    BY <1>4 DEF FirstKey
  <2>6. \A h \in 1 .. Len(spline_points') : h = 1
    BY <2>3
  <2>7. Rising(spline_points')
    BY <2>6 DEF Rising
  <2> QED
    BY <2>1, <2>3, <2>4, <2>5, <2>6, <2>7
<1>5. CASE ~ FirstKey(key, curr_num_keys)
  <2>1. curr_num_keys > 0
    BY <1>1, <1>2, <1>5
       DEF DuplicateKey, SecondKey, CutCorridor, TightenCorridor, NewDistinctKey
  <2>2. CdfPoints \subseteq CdfPoints'
    BY <1>1, <1>2, CdfPointsGrow
  <2>3. /\ \/ spline_points' = spline_points
           \/ /\ spline_points' = Append(spline_points, prev_point)
              /\ LastPoint.x < prev_point.x
        /\ curr_num_distinct_keys' = IF curr_num_keys = 0 \/ key # prev_key
                                     THEN curr_num_distinct_keys + 1
                                     ELSE curr_num_distinct_keys
    BY <1>1, <1>5, <2>1, SplineSteps
  <2>4. /\ Rising(spline_points)
        /\ \A h \in 1 .. Len(spline_points) : spline_points[h] \in CdfPoints
    BY <1>2 DEF Order
  <2>5. prev_point \in CdfPoints
    BY <1>2, <2>1 DEF Cdf
  <2>6. CASE spline_points' = spline_points
    BY <2>2, <2>3, <2>4, <2>6
  <2>7. CASE /\ spline_points' = Append(spline_points, prev_point)
             /\ LastPoint.x < prev_point.x
    <3>1. /\ Rising(Append(spline_points, prev_point))
          /\ \A h \in 1 .. Len(Append(spline_points, prev_point)) :
                Append(spline_points, prev_point)[h] \in CdfPoints
      BY <1>2, <2>1, <2>5, <2>7, OrderOfPoints
    <3> QED
      BY <2>2, <2>3, <2>7, <3>1
  <2> QED
    BY <2>3, <2>6, <2>7
<1> QED
  BY <1>4, <1>5

LEMMA OrderFinalized ==
    ASSUME IInv, Order, FinalizeAtEnd
    PROVE  Order'
<1> DEFINE point == Coord(prev_key, prev_position)
<1> HIDE DEF point
<1>1. /\ Types /\ Cdf /\ Points /\ data \in Inputs /\ built = FALSE
      /\ spline_points \in Seq(Coords) /\ curr_num_keys = Len(data)
      /\ curr_num_keys \in 0 .. Len(data) /\ Len(data) \in Nat \ {0}
      /\ UNCHANGED <<params, cdf, limits>> /\ spline_points' = FinalPoints
      /\ built' = TRUE
  BY KeysGiven DEF IInv, Types, FinalizeAtEnd, Finalize
<1>2. /\ data' = data /\ CdfPoints' = CdfPoints /\ prev_position' = prev_position
      /\ curr_num_keys' = curr_num_keys /\ LargestKeyUnique' = LargestKeyUnique
      /\ curr_num_distinct_keys' = curr_num_distinct_keys
  BY <1>1, SameParameters DEF cdf, CdfPoints, LargestKeyUnique
<1>3. /\ spline_points # <<>> /\ LastPoint \in CdfPoints /\ LastPoint.x <= prev_key
      /\ prev_key = data[Len(data)] /\ prev_position = Len(data) - 1
      /\ Rising(spline_points)
      /\ \A h \in 1 .. Len(spline_points) : spline_points[h].y <= prev_position
      /\ \A h \in 1 .. Len(spline_points) : spline_points[h] \in CdfPoints
  BY <1>1 DEF Points, Cdf, Order
<1>4. point \in Coords /\ point.x = prev_key /\ point.y = prev_position
  BY <1>1 DEF Types, point, Coord, Coords
<1>5. LargestKeyUnique => point \in CdfPoints
  <2>1. SUFFICES ASSUME LargestKeyUnique PROVE point \in CdfPoints
    OBVIOUS
  <2>2. prev_point = point
    BY <1>1, <2>1, LastKeyUnique DEF point
  <2> QED
    BY <1>1, <2>2 DEF Cdf
<1>6. CASE LastPoint.x = prev_key
  <2>1. spline_points' = spline_points
    BY <1>1, <1>6 DEF FinalPoints
  <2> QED
    BY <1>2, <1>3, <2>1 DEF Order
<1>7. CASE LastPoint.x # prev_key
  <2>1. spline_points' = Append(spline_points, point)
    BY <1>1, <1>7 DEF FinalPoints, point
  <2>2. LastPoint \in Coords
    BY <1>1, <1>3, ElementOf DEF LastPoint
  <2>3. LastPoint.x < data[Len(data)] /\ Len(data) \in 1 .. curr_num_keys
    BY <1>1, <1>3, <1>4, <1>7, <2>2 DEF Coords
  <2>4. LastPoint.y < Len(data) - 1
    BY <1>1, <1>3, <2>3, CdfIsCdfOf, CdfStrict
  <2>5. Rising(Append(spline_points, point))
    BY <1>1, <1>3, <1>4, <2>3, <2>4, RisingGrows DEF LastPoint
  <2>6. ASSUME NEW h \in 1 .. Len(Append(spline_points, point))
        PROVE  /\ Append(spline_points, point)[h].y <= prev_position
               /\ LargestKeyUnique => Append(spline_points, point)[h] \in CdfPoints
    <3>1. CASE h \in 1 .. Len(spline_points)
      BY <1>1, <1>3, <3>1
    <3>2. CASE h = Len(spline_points) + 1
      <4>1. Append(spline_points, point)[h] = point /\ prev_position <= prev_position
        BY <1>1, <1>3, <3>2
      <4> QED
        BY <1>4, <1>5, <4>1
    <3> QED
      BY <1>1, <3>1, <3>2
  <2>7. /\ Rising(spline_points')
        /\ \A h \in 1 .. Len(spline_points') : spline_points'[h].y <= prev_position'
    BY <1>2, <2>1, <2>5, <2>6
  <2>8. (built' => LargestKeyUnique') =>
           \A h \in 1 .. Len(spline_points') : spline_points'[h] \in CdfPoints'
    BY <1>1, <1>2, <2>1, <2>6
  <2>9. /\ curr_num_distinct_keys' <= curr_num_keys'
        /\ curr_num_distinct_keys' = curr_num_keys' =>
              \A h \in 1 .. curr_num_keys' - 1 : data'[h] # data'[h + 1]
    BY <1>2 DEF Order
  <2> QED
    BY <2>7, <2>8, <2>9 DEF Order
<1> QED
  BY <1>6, <1>7

LEMMA OrderUnchanged ==
    ASSUME Order, UNCHANGED vars
    PROVE  Order'
<1>1. /\ data' = data /\ curr_num_keys' = curr_num_keys /\ built' = built
      /\ curr_num_distinct_keys' = curr_num_distinct_keys
      /\ prev_position' = prev_position /\ spline_points' = spline_points
  BY DEF vars, params, cdf, spline
<1>2. CdfPoints' = CdfPoints /\ LargestKeyUnique' = LargestKeyUnique
  BY <1>1 DEF CdfPoints, LargestKeyUnique, max_key
<1> QED
  BY <1>1, <1>2 DEF Order

LEMMA OrderInitially == Init => Order
<1> SUFFICES ASSUME Init PROVE Order
  OBVIOUS
<1>1. /\ spline_points = <<>> /\ curr_num_keys = 0 /\ curr_num_distinct_keys = 0
  BY DEF Init
<1> QED
  BY <1>1 DEF Order, Rising

(***************************************************************************)
(* The points of the spline rise strictly, stay below the number of keys   *)
(* and are points of the CDF unless the largest key is repeated.           *)
(***************************************************************************)
THEOREM OrderInvariance == Spec => []Order
<1>1. Init => Order
  BY OrderInitially
<1>2. IInv /\ IInv' /\ Order /\ [Next]_vars => Order'
  <2> SUFFICES ASSUME IInv, IInv', Order, [Next]_vars PROVE Order'
    OBVIOUS
  <2>1. CASE AddNextKey
    BY <2>1, OrderKept
  <2>2. CASE FinalizeAtEnd
    BY <2>2, OrderFinalized
  <2>3. CASE Lookup
    BY <2>3, OrderUnchanged DEF Lookup
  <2>4. CASE UNCHANGED vars
    BY <2>4, OrderUnchanged
  <2> QED
    BY <2>1, <2>2, <2>3, <2>4 DEF Next
<1> QED
  BY <1>1, <1>2, Invariance, PTL DEF Spec

-----------------------------------------------------------------------------
(***************************************************************************)
(* The corridor excludes its limits: a key on a limit cuts it.  An error   *)
(* of one and more is therefore never reached, which RSHash counts on.     *)
(***************************************************************************)
\* the segment from a to b passes by less than e of c
Within(a, b, c, e) ==
    /\ ~ Steeper(a, b, Coord(c.x, c.y + e))
    /\ ~ Steeper(a, Coord(c.x, c.y - e), b)

SegmentsWithin(points, C, e) ==
    \A h \in 1 .. Len(points) - 1 : \A c \in C :
        (points[h].x <= c.x /\ c.x <= points[h + 1].x) =>
            Within(points[h], points[h + 1], c, e)

CandidateInside ==
    (curr_num_keys > 0 /\ ~ built /\ curr_num_distinct_keys >= 2) =>
        /\ ~ Steeper(LastPoint, prev_point, upper_limit)
        /\ ~ Steeper(LastPoint, lower_limit, prev_point)

ErrorNotReached ==
    (built => LargestKeyUnique) => SegmentsWithin(spline_points, CdfPoints, max_error)

Strict == max_error > 0 => CandidateInside /\ ErrorNotReached

LEMMA StrictlyHigher ==
    ASSUME NEW o \in Marks, NEW a \in Marks, NEW b \in Marks,
           a.x = b.x, a.x > o.x, a.y > b.y
    PROVE  ~ Steeper(o, b, a)
<1> DEFINE w == a.x - o.x
           p == b.y - o.y
           q == a.y - o.y
<1>1. w \in Nat \ {0} /\ p \in Int /\ q \in Int /\ p + 1 <= q /\ b.x - o.x = w
  BY DEF Marks
<1>2. Steeper(o, b, a) <=> p * w >= q * w
  BY <1>1 DEF Steeper
<1> HIDE DEF w, p, q
<1>3. w * (p + 1) <= w * q
  BY <1>1, ProductsMonotone
<1>4. w * (p + 1) = p * w + w /\ w * q = q * w /\ p * w \in Int /\ q * w \in Int
  BY <1>1
<1>5. ~ (p * w >= q * w)
  BY <1>1, <1>3, <1>4
<1> QED
  BY <1>2, <1>5

LEMMA StrictOrder ==
    ASSUME NEW o \in Marks, NEW a \in Marks, NEW b \in Marks, NEW c \in Marks,
           a.x > o.x, b.x > o.x, c.x > o.x
    PROVE  /\ Steeper(o, a, b) /\ ~ Steeper(o, c, b) => ~ Steeper(o, c, a)
           /\ ~ Steeper(o, b, a) /\ Steeper(o, b, c) => ~ Steeper(o, c, a)
  BY SteeperOrder

LEMMA WithinItself ==
    ASSUME NEW o \in Coords, NEW p \in Coords, p.x > o.x, NEW e \in Nat \ {0}
    PROVE  Within(o, p, o, e)
<1> DEFINE w == p.x - o.x
<1>1. /\ w \in Nat \ {0} /\ p.y - o.y \in Int /\ o.x - o.x = 0
      /\ (o.y + e) - o.y = e /\ (o.y - e) - o.y = -e
  BY DEF Coords
<1> HIDE DEF w
<1>2. w * 1 <= w * e
  BY <1>1, ProductsMonotone
<1>3. ~ ((p.y - o.y) * 0 >= e * w) /\ ~ ((-e) * w >= (p.y - o.y) * 0)
  BY <1>1, <1>2
<1> QED
  BY <1>1, <1>3 DEF Within, Steeper, Coord, w

LEMMA WithinAdded ==
    ASSUME NEW P \in Seq(Coords), P # <<>>, NEW point \in Coords, NEW C,
           NEW e, SegmentsWithin(P, C, e),
           \A c \in C : (P[Len(P)].x <= c.x /\ c.x <= point.x) =>
                            Within(P[Len(P)], point, c, e)
    PROVE  SegmentsWithin(Append(P, point), C, e)
<1> DEFINE Q == Append(P, point)
<1>1. /\ Len(P) \in Nat \ {0} /\ Len(Q) = Len(P) + 1
      /\ \A h \in 1 .. Len(P) : Q[h] = P[h]
      /\ Q[Len(P) + 1] = point
  OBVIOUS
<1> HIDE DEF Q
<1>2. SUFFICES ASSUME NEW h \in 1 .. Len(Q) - 1, NEW c \in C,
                      Q[h].x <= c.x, c.x <= Q[h + 1].x
               PROVE  Within(Q[h], Q[h + 1], c, e)
  BY DEF SegmentsWithin, Q
<1>3. CASE h = Len(P)
  BY <1>1, <1>2, <1>3
<1>4. CASE h # Len(P)
  <2>1. h \in 1 .. Len(P) - 1 /\ h \in 1 .. Len(P) /\ h + 1 \in 1 .. Len(P)
    BY <1>1, <1>4
  <2> QED
    BY <1>1, <1>2, <2>1 DEF SegmentsWithin
<1> QED
  BY <1>3, <1>4

LEMMA WithinKept ==
    ASSUME NEW P \in Seq(Coords), NEW C, NEW c \in Coords,
           NEW e, SegmentsWithin(P, C, e),
           \A h \in 1 .. Len(P) : P[h].x < c.x
    PROVE  SegmentsWithin(P, C \cup {c}, e)
<1>1. \A h \in 1 .. Len(P) : P[h] \in Coords
  BY ElementOf
<1>2. Len(P) \in Nat /\ c.x \in Nat /\ \A h \in 1 .. Len(P) : P[h].x \in Nat
  BY <1>1 DEF Coords
<1> QED
  BY <1>2 DEF SegmentsWithin

\* a candidate inside the corridor ends a segment that never reaches the error
LEMMA ClosingWithin ==
    ASSUME Types, Cdf, Points, Candidate, Corridor, CandidateInside,
           curr_num_keys > 0, ~ built, curr_num_distinct_keys >= 2, max_error > 0,
           NEW c \in CdfPoints, LastPoint.x <= c.x
    PROVE  Within(LastPoint, prev_point, c, max_error)
<1> DEFINE o == LastPoint
           p == prev_point
           u == upper_limit
           w == lower_limit
           high == Coord(c.x, c.y + max_error)
           low == Coord(c.x, c.y - max_error)
<1>1. /\ o \in CdfPoints /\ p \in Coords /\ max_error \in Nat \ {0}
      /\ u \in Coords /\ w \in Coords
      /\ \A d, e \in CdfPoints : d.x <= e.x => d.y <= e.y
  BY DEF Types, Cdf, Points
<1>2. c \in Coords /\ o \in Coords
  <2>1. data \in Inputs /\ curr_num_keys \in 0 .. Len(data)
    BY DEF Types
  <2> QED
    BY <1>1, <2>1, CdfIsCdfOf, CdfOfKeys
<1>3. p.x > o.x /\ u.x > o.x /\ w.x > o.x
  BY DEF Candidate
<1>4. /\ ~ Steeper(o, p, u) /\ ~ Steeper(o, w, p)
      /\ c.x > o.x => Steeper(o, high, u) /\ Steeper(o, w, low)
  BY DEF Corridor, CandidateInside, Between
<1>5. /\ o \in Marks /\ p \in Marks /\ u \in Marks /\ w \in Marks
      /\ high \in Marks /\ low \in Marks /\ high.x = c.x /\ low.x = c.x
      /\ c.x \in Nat /\ c.y \in Nat /\ o.x \in Nat /\ o.y \in Nat
  BY <1>1, <1>2, CoordsAreMarks
<1>6. CASE c.x = o.x
  <2>1. c.y <= o.y /\ o.y <= c.y
    BY <1>1, <1>5, <1>6
  <2>2. c = o
    BY <1>2, <1>5, <1>6, <2>1 DEF Coords
  <2> QED
    BY <1>1, <1>2, <1>3, <2>2, WithinItself
<1> HIDE DEF o, p, u, w, high, low
<1>7. CASE c.x > o.x
  <2>1. high.x > o.x /\ low.x > o.x
    BY <1>5, <1>7
  <2>2. ~ Steeper(o, p, high)
    BY <1>3, <1>4, <1>5, <1>7, <2>1, StrictOrder
  <2>3. ~ Steeper(o, low, p)
    BY <1>3, <1>4, <1>5, <1>7, <2>1, StrictOrder
  <2> QED
    BY <2>2, <2>3 DEF Within, o, p, high, low
<1> QED
  BY <1>5, <1>6, <1>7 DEF o

\* limits just set at a key leave it inside
LEMMA KeyInside ==
    ASSUME NEW o \in Coords, NEW q \in Coords, NEW u \in Coords, NEW w \in Coords,
           q.x > o.x, u.x = q.x, u.y > q.y, w.x = q.x, w.y < q.y
    PROVE  ~ Steeper(o, q, u) /\ ~ Steeper(o, w, q)
<1>1. /\ o \in Marks /\ q \in Marks /\ u \in Marks /\ w \in Marks
      /\ u.x > o.x /\ q.y > w.y /\ q.x = w.x
  <2>1. o \in Marks /\ q \in Marks /\ u \in Marks /\ w \in Marks
    BY DEF Coords, Marks
  <2>2. q.y > w.y /\ u.x > o.x
    BY DEF Coords
  <2> QED
    BY <2>1, <2>2
<1>2. ~ Steeper(o, q, u)
  BY <1>1, StrictlyHigher
<1>3. ~ Steeper(o, w, q)
  BY <1>1, StrictlyHigher
<1> QED
  BY <1>2, <1>3

LEMMA LimitsApart ==
    ASSUME Types, max_error > 0, NEW key \in Nat, NEW location \in Nat \ {0}
    PROVE  Upper(key, location).y > location /\ Lower(key, location).y < location
<1>1. max_error \in Nat \ {0}
  BY DEF Types
<1> QED
  BY <1>1 DEF Upper, Lower, Coord

\* as long as the spline stays, no segment reaches a new key
LEMMA WithinStays ==
    ASSUME IInv, NEW key \in Nat, Adding(key), NewDistinctKey(key, curr_num_keys),
           ErrorNotReached, UNCHANGED spline
    PROVE  ErrorNotReached'
<1> DEFINE q == Coord(key, curr_num_keys)
<1> HIDE DEF q
<1>1. /\ q \in Coords /\ q.x = key /\ built = FALSE /\ built' = FALSE
      /\ CdfPoints' = CdfPoints \cup {q}
      /\ \A h \in 1 .. Len(spline_points) : spline_points[h].x < key
      /\ spline_points \in Seq(Coords)
  BY NewKey DEF q, IInv, Types, Adding
<1>2. spline_points' = spline_points /\ max_error' = max_error
  BY SameParameters DEF spline, Adding
<1>3. SegmentsWithin(spline_points, CdfPoints \cup {q}, max_error)
  BY <1>1, WithinKept DEF ErrorNotReached
<1> QED
  BY <1>1, <1>2, <1>3 DEF ErrorNotReached

LEMMA StrictSecondKey ==
    ASSUME IInv, Strict, max_error > 0, NEW key \in Nat, Adding(key),
           SecondKey(key, curr_num_keys)
    PROVE  CandidateInside' /\ ErrorNotReached'
<1> DEFINE q == Coord(key, curr_num_keys)
           u == Upper(key, curr_num_keys)
           w == Lower(key, curr_num_keys)
<1> HIDE DEF q, u, w
<1>1. Types /\ NewDistinctKey(key, curr_num_keys) /\ UNCHANGED spline
  BY DEF IInv, SecondKey
<1>2. /\ curr_num_keys \in Nat \ {0} /\ q \in Coords /\ q.x = key /\ q.y = curr_num_keys
      /\ prev_point' = q /\ LastPoint \in CdfPoints /\ CdfPoints \subseteq Coords
      /\ \A c \in CdfPoints : c.x < key
  BY <1>1, NewKey DEF q
<1>3. /\ u \in Coords /\ w \in Coords /\ u.x = key /\ w.x = key
      /\ u.y > curr_num_keys /\ w.y < curr_num_keys
  BY <1>1, <1>2, LimitsOfKey, LimitsApart DEF u, w
<1>4. upper_limit' = u /\ lower_limit' = w /\ LastPoint' = LastPoint
  BY <1>1 DEF SecondKey, SetLimits, u, w, spline, LastPoint
<1>5. q.x > LastPoint.x /\ LastPoint \in Coords
  BY <1>2 DEF Coords
<1>6. ~ Steeper(LastPoint, q, u) /\ ~ Steeper(LastPoint, w, q)
  BY <1>2, <1>3, <1>5, KeyInside
<1> QED
  BY <1>1, <1>2, <1>4, <1>6, WithinStays DEF CandidateInside, Strict

LEMMA StrictTighten ==
    ASSUME IInv, Strict, max_error > 0, NEW key \in Nat, Adding(key),
           TightenCorridor(key, curr_num_keys)
    PROVE  CandidateInside' /\ ErrorNotReached'
<1> DEFINE q == Coord(key, curr_num_keys)
           v == Upper(key, curr_num_keys)
           z == Lower(key, curr_num_keys)
<1> HIDE DEF q, v, z
<1>1. Types /\ NewDistinctKey(key, curr_num_keys) /\ UNCHANGED spline
  BY DEF IInv, TightenCorridor
<1>2. /\ curr_num_keys \in Nat \ {0} /\ q \in Coords /\ q.x = key /\ q.y = curr_num_keys
      /\ prev_point' = q /\ LastPoint \in CdfPoints /\ CdfPoints \subseteq Coords
      /\ \A c \in CdfPoints : c.x < key
  BY <1>1, NewKey DEF q
<1>3. /\ v \in Coords /\ z \in Coords /\ v.x = key /\ z.x = key
      /\ v.y > curr_num_keys /\ z.y < curr_num_keys
  BY <1>1, <1>2, LimitsOfKey, LimitsApart DEF v, z
<1>4. /\ upper_limit' \in {v, upper_limit} /\ lower_limit' \in {z, lower_limit}
      /\ LastPoint' = LastPoint
  BY <1>1 DEF TightenCorridor, v, z, spline, LastPoint
<1>5. q.x > LastPoint.x /\ LastPoint \in Coords
  BY <1>2 DEF Coords
<1>6. ~ Steeper(LastPoint, q, v) /\ ~ Steeper(LastPoint, z, q)
  BY <1>2, <1>3, <1>5, KeyInside
<1>7. ~ Steeper(LastPoint, q, upper_limit) /\ ~ Steeper(LastPoint, lower_limit, q)
  <2>1. Turn(upper_limit, q) = "CW" /\ Turn(lower_limit, q) = "CCW"
    BY DEF TightenCorridor, CutsCorridor, q
  <2> QED
    BY <1>1, <1>2, <1>5, <2>1, Turns DEF Types
<1>8. ~ Steeper(LastPoint, q, upper_limit') /\ ~ Steeper(LastPoint, lower_limit', q)
  BY <1>4, <1>6, <1>7
<1> QED
  BY <1>1, <1>2, <1>4, <1>8, WithinStays DEF CandidateInside, Strict

LEMMA StrictCut ==
    ASSUME IInv, Strict, max_error > 0, NEW key \in Nat, Adding(key),
           CutCorridor(key, curr_num_keys)
    PROVE  CandidateInside' /\ ErrorNotReached'
<1> DEFINE q == Coord(key, curr_num_keys)
           u == Upper(key, curr_num_keys)
           w == Lower(key, curr_num_keys)
           P == Append(spline_points, prev_point)
<1> HIDE DEF q, u, w, P
<1>1. /\ Types /\ Cdf /\ Points /\ Candidate /\ Corridor /\ CandidateInside
      /\ ErrorNotReached /\ NewDistinctKey(key, curr_num_keys)
      /\ built = FALSE /\ built' = FALSE
  BY DEF IInv, CutCorridor, Strict, Adding, Types
<1>2. /\ curr_num_keys \in Nat \ {0} /\ q \in Coords /\ q.x = key /\ q.y = curr_num_keys
      /\ prev_point' = q /\ prev_point \in CdfPoints /\ CdfPoints \subseteq Coords
      /\ \A c \in CdfPoints : c.x < key
      /\ CdfPoints' = CdfPoints \cup {q}
      /\ spline_points \in Seq(Coords) /\ spline_points # <<>>
      /\ \A h \in 1 .. Len(spline_points) : spline_points[h].x < key
  BY <1>1, NewKey DEF q
<1>3. /\ u \in Coords /\ w \in Coords /\ u.x = key /\ w.x = key
      /\ u.y > curr_num_keys /\ w.y < curr_num_keys
  BY <1>1, <1>2, LimitsOfKey, LimitsApart DEF u, w
<1>4. /\ spline_points' = P /\ upper_limit' = u /\ lower_limit' = w
      /\ max_error' = max_error /\ curr_num_distinct_keys >= 2
  BY <1>1, SameParameters
     DEF CutCorridor, AddKeyToSpline, SetLimits, u, w, P, NewDistinctKey, Types, Adding
<1>5. prev_point \in Coords /\ prev_point.x < key
  BY <1>2
<1>6. /\ P \in Seq(Coords) /\ Len(P) = Len(spline_points) + 1 /\ P[Len(P)] = prev_point
      /\ \A h \in 1 .. Len(P) : P[h].x < key
  <2>1. /\ Len(P) = Len(spline_points) + 1 /\ Len(spline_points) \in Nat
        /\ \A h \in 1 .. Len(spline_points) : P[h] = spline_points[h]
        /\ P[Len(spline_points) + 1] = prev_point /\ P \in Seq(Coords)
    BY <1>2, <1>5 DEF P
  <2>2. ASSUME NEW h \in 1 .. Len(P)
        PROVE  P[h].x < key
    <3>1. CASE h \in 1 .. Len(spline_points)
      BY <1>2, <2>1, <3>1
    <3>2. CASE h = Len(spline_points) + 1
      BY <1>5, <2>1, <3>2
    <3> QED
      BY <2>1, <3>1, <3>2
  <2> QED
    BY <2>1, <2>2
<1>7. LastPoint' = prev_point
  BY <1>4, <1>6 DEF LastPoint
<1>8. ~ Steeper(prev_point, q, u) /\ ~ Steeper(prev_point, w, q)
  <2>1. q.x > prev_point.x
    BY <1>2, <1>5 DEF Coords
  <2> QED
    BY <1>2, <1>3, <1>5, <2>1, KeyInside
<1>9. CandidateInside'
  BY <1>2, <1>4, <1>7, <1>8 DEF CandidateInside
<1>10. SegmentsWithin(P, CdfPoints, max_error)
  <2>1. SegmentsWithin(spline_points, CdfPoints, max_error)
    BY <1>1 DEF ErrorNotReached
  <2>2. \A c \in CdfPoints : LastPoint.x <= c.x =>
                                 Within(LastPoint, prev_point, c, max_error)
    BY <1>1, <1>2, <1>4, ClosingWithin
  <2> QED
    BY <1>2, <1>5, <2>1, <2>2, WithinAdded DEF P, LastPoint
<1>11. SegmentsWithin(P, CdfPoints \cup {q}, max_error)
  BY <1>2, <1>6, <1>10, WithinKept
<1> QED
  BY <1>1, <1>2, <1>4, <1>9, <1>11 DEF ErrorNotReached

LEMMA StrictAddNextKey ==
    ASSUME IInv, Strict, AddNextKey
    PROVE  Strict'
<1>1. PICK key \in Nat : /\ Adding(key)
                         /\ \/ FirstKey(key, curr_num_keys)
                            \/ DuplicateKey(key, curr_num_keys)
                            \/ SecondKey(key, curr_num_keys)
                            \/ CutCorridor(key, curr_num_keys)
                            \/ TightenCorridor(key, curr_num_keys)
  BY NextKey
<1>2. max_error' = max_error
  BY <1>1, SameParameters DEF Adding
<1>3. SUFFICES ASSUME max_error > 0 PROVE CandidateInside' /\ ErrorNotReached'
  BY <1>2 DEF Strict
<1>4. CASE FirstKey(key, curr_num_keys)
  <2>1. curr_num_distinct_keys = 0 /\ spline_points = <<>>
    BY <1>4 DEF FirstKey, IInv, BeforeFirstKey
  <2>2. curr_num_distinct_keys' = 1 /\ Len(spline_points') = 1
    BY <1>4, <2>1 DEF FirstKey, AddKeyToSpline
  <2>3. \A h \in 1 .. Len(spline_points') - 1 : FALSE
    BY <2>2
  <2> QED
    BY <2>2, <2>3 DEF CandidateInside, ErrorNotReached, SegmentsWithin
<1>5. CASE DuplicateKey(key, curr_num_keys)
  <2>1. /\ Types /\ Cdf /\ curr_num_keys > 0 /\ key = prev_key
        /\ UNCHANGED <<spline_points, upper_limit, lower_limit,
                       curr_num_distinct_keys, prev_point>>
    BY <1>5 DEF DuplicateKey, spline, limits, IInv
  <2>2. CdfPoints' = CdfPoints /\ LastPoint' = LastPoint
    BY <1>1, <2>1, CdfKept DEF LastPoint
  <2>3. ~ built /\ built' = FALSE
    BY <1>1 DEF Adding
  <2> QED
    BY <1>2, <1>3, <2>1, <2>2, <2>3 DEF Strict, CandidateInside, ErrorNotReached
<1> QED
  BY <1>1, <1>3, <1>4, <1>5, StrictSecondKey, StrictTighten, StrictCut

LEMMA StrictFinalize ==
    ASSUME IInv, Strict, FinalizeAtEnd
    PROVE  Strict'
<1> DEFINE point == Coord(prev_key, prev_position)
<1>1. /\ Types /\ Cdf /\ Points /\ Candidate /\ Corridor /\ built = FALSE
      /\ data \in Inputs /\ spline_points \in Seq(Coords)
      /\ curr_num_keys = Len(data) /\ spline_points' = FinalPoints /\ built' = TRUE
      /\ UNCHANGED <<params, cdf, limits>>
  BY DEF IInv, Types, FinalizeAtEnd, Finalize
<1>2. curr_num_keys > 0
  BY <1>1, KeysGiven
<1>3. /\ max_error' = max_error /\ data' = data /\ CdfPoints' = CdfPoints
      /\ LargestKeyUnique' = LargestKeyUnique
  BY <1>1, SameParameters DEF cdf, CdfPoints, LargestKeyUnique
<1>4. CandidateInside'
  BY <1>1 DEF CandidateInside
<1>5. SUFFICES ASSUME LargestKeyUnique, max_error > 0
               PROVE  SegmentsWithin(FinalPoints, CdfPoints, max_error)
  BY <1>1, <1>3, <1>4 DEF Strict, ErrorNotReached
<1>6. CandidateInside /\ SegmentsWithin(spline_points, CdfPoints, max_error)
  BY <1>1, <1>5 DEF Strict, ErrorNotReached
<1>7. CASE LastPoint.x = prev_key
  BY <1>6, <1>7 DEF FinalPoints
<1>8. CASE LastPoint.x # prev_key
  <2> HIDE DEF point
  <2>1. FinalPoints = Append(spline_points, point)
    BY <1>8 DEF FinalPoints, point
  <2>2. point = prev_point /\ prev_point.x = prev_key /\ prev_point \in Coords
    BY <1>1, <1>2, <1>5, LastKeyUnique DEF point, Cdf, Types
  <2>3. curr_num_distinct_keys >= 2
    <3>1. curr_num_distinct_keys \in Nat /\ curr_num_distinct_keys >= 1
      BY <1>1, <1>2 DEF Types, Cdf
    <3>2. curr_num_distinct_keys # 1
      BY <1>1, <1>2, <1>8, <2>2 DEF Candidate
    <3> QED
      BY <3>1, <3>2
  <2>4. \A c \in CdfPoints : LastPoint.x <= c.x => Within(LastPoint, point, c, max_error)
    BY <1>1, <1>2, <1>5, <1>6, <2>2, <2>3, ClosingWithin
  <2>5. spline_points # <<>>
    BY <1>1, <1>2 DEF Points
  <2> QED
    BY <1>1, <1>6, <2>1, <2>2, <2>4, <2>5, WithinAdded DEF LastPoint
<1> QED
  BY <1>7, <1>8

(***************************************************************************)
(* With an error of one and more, no segment reaches it at any key, unless *)
(* the largest key is repeated.                                            *)
(***************************************************************************)
THEOREM StrictInvariance == Spec => []Strict
<1>1. Init => Strict
  <2> SUFFICES ASSUME Init PROVE Strict
    OBVIOUS
  <2>1. spline_points = <<>> /\ curr_num_keys = 0
    BY DEF Init
  <2> QED
    BY <2>1 DEF Strict, CandidateInside, ErrorNotReached, SegmentsWithin
<1>2. IInv /\ Strict /\ [Next]_vars => Strict'
  <2> SUFFICES ASSUME IInv, Strict, [Next]_vars PROVE Strict'
    OBVIOUS
  <2>1. ASSUME UNCHANGED vars PROVE Strict'
    <3>1. /\ UNCHANGED params
          /\ UNCHANGED <<curr_num_keys, curr_num_distinct_keys, prev_point>>
          /\ UNCHANGED <<spline_points, upper_limit, lower_limit, built>>
      BY <2>1 DEF vars, cdf, spline, limits
    <3>2. /\ max_error' = max_error /\ data' = data
          /\ LargestKeyUnique' = LargestKeyUnique
      BY <3>1, SameParameters DEF LargestKeyUnique
    <3>3. CdfPoints' = CdfPoints /\ LastPoint' = LastPoint
      BY <3>1, <3>2 DEF CdfPoints, LastPoint
    <3> QED
      BY <3>1, <3>2, <3>3 DEF Strict, CandidateInside, ErrorNotReached
  <2> QED
    BY <2>1, StrictAddNextKey, StrictFinalize DEF Next, Lookup
<1> QED
  BY <1>1, <1>2, Invariance, PTL DEF Spec

-----------------------------------------------------------------------------

(* The position to be found, and the search inside a bound. *)

LEMMA FirstAtLeastSplits ==
    ASSUME data \in Inputs, NEW key \in Nat
    PROVE  /\ FirstAtLeast(key) \in 0 .. Len(data)
           /\ \A h \in 1 .. Len(data) : data[h] >= key <=> h > FirstAtLeast(key)
<1> DEFINE n == Len(data)
           I == {j \in 0 .. n - 1 : data[j + 1] >= key} \cup {n}
           F == FirstAtLeast(key)
<1> HIDE DEF n, I, F
<1>1. /\ n \in Nat \ {0} /\ \A h \in 1 .. n : data[h] \in Nat
      /\ \A h, j \in 1 .. n : h <= j => data[h] <= data[j]
  BY KeysGiven DEF n
<1>2. /\ I \in SUBSET Nat /\ I # {}
      /\ \A j : j \in I <=> j = n \/ (j \in 0 .. n - 1 /\ data[j + 1] >= key)
  BY <1>1 DEF I
<1>3. F = LeastIndex(I)
  BY DEF F, FirstAtLeast, I, end, n
<1>4. F \in I /\ \A j \in I : F <= j
  BY <1>2, <1>3, LeastIndexOf
<1>5. F \in 0 .. n
  BY <1>1, <1>2, <1>4
<1>6. ASSUME NEW h \in 1 .. n, data[h] >= key
      PROVE  h > F
  <2>1. h - 1 \in 0 .. n - 1 /\ (h - 1) + 1 = h
    BY <1>1
  <2>2. h - 1 \in I
    BY <1>2, <1>6, <2>1
  <2> QED
    BY <1>4, <1>5, <2>1, <2>2
<1>7. ASSUME NEW h \in 1 .. n, h > F
      PROVE  data[h] >= key
  <2>1. F \in 0 .. n - 1 /\ F + 1 \in 1 .. n /\ F + 1 <= h /\ F # n
    BY <1>1, <1>5, <1>7
  <2>2. data[F + 1] >= key
    BY <1>2, <1>4, <2>1
  <2>3. data[F + 1] <= data[h] /\ data[F + 1] \in Nat /\ data[h] \in Nat
    BY <1>1, <2>1
  <2> QED
    BY <2>2, <2>3
<1> QED
  BY <1>5, <1>6, <1>7 DEF F, n

LEMMA BoundSuffices ==
    ASSUME data \in Inputs, NEW key \in Nat, NEW bound,
           bound.begin \in Nat, bound.end \in 0 .. Len(data),
           bound.begin <= FirstAtLeast(key), FirstAtLeast(key) <= bound.end
    PROVE  LowerBoundIn(bound, key) = FirstAtLeast(key)
<1> DEFINE from == bound.begin
           to == bound.end
           F == FirstAtLeast(key)
           I == {j \in from .. to - 1 : data[j + 1] >= key} \cup {to}
<1> HIDE DEF from, to, F, I
<1>1. /\ Len(data) \in Nat /\ F \in 0 .. Len(data)
      /\ from \in Nat /\ to \in 0 .. Len(data) /\ from <= F /\ F <= to
      /\ \A h \in 1 .. Len(data) : data[h] >= key <=> h > F
  BY KeysGiven, FirstAtLeastSplits DEF F, from, to
<1>2. /\ I \in SUBSET Nat /\ I # {}
      /\ \A j : j \in I <=> j = to \/ (j \in from .. to - 1 /\ data[j + 1] >= key)
  BY <1>1 DEF I
<1>3. LeastIndex(I) \in I /\ \A j \in I : LeastIndex(I) <= j
  BY <1>2, LeastIndexOf
<1>4. ASSUME NEW j \in I
      PROVE  F <= j
  <2>1. CASE j = to
    BY <1>1, <2>1
  <2>2. CASE j \in from .. to - 1 /\ data[j + 1] >= key
    <3>1. j \in Nat /\ j + 1 \in 1 .. Len(data)
      BY <1>1, <2>2
    <3>2. j + 1 > F
      BY <1>1, <2>2, <3>1
    <3> QED
      BY <1>1, <3>1, <3>2
  <2> QED
    BY <1>2, <2>1, <2>2
<1>5. F \in I
  <2>1. CASE F = to
    BY <1>2, <2>1
  <2>2. CASE F # to
    <3>1. F \in from .. to - 1 /\ F + 1 \in 1 .. Len(data) /\ F + 1 > F
      BY <1>1, <2>2
    <3>2. data[F + 1] >= key
      BY <1>1, <3>1
    <3> QED
      BY <1>2, <3>1, <3>2
  <2> QED
    BY <2>1, <2>2
<1>6. LeastIndex(I) = F
  <2>1. F <= LeastIndex(I) /\ LeastIndex(I) <= F /\ LeastIndex(I) \in Nat
    BY <1>2, <1>3, <1>4, <1>5
  <2> QED
    BY <1>1, <2>1
<1> QED
  BY <1>6 DEF LowerBoundIn, I, F, from, to

\* a truncated estimate stays within whole limits, but for the one it may lose
LEMMA TruncationsBetween ==
    ASSUME NEW e, e.num \in Nat, e.den \in Nat \ {0}, NEW v \in Truncations(e),
           NEW low \in Int, NEW high \in Int,
           low * e.den <= e.num, e.num <= high * e.den
    PROVE  v \in Nat /\ low - 1 <= v /\ v <= high
<1> DEFINE num == e.num
           den == e.den
           q == num \div den
           r == num % den
<1> HIDE DEF num, den, q, r
<1>1. num \in Nat /\ den \in Nat \ {0} /\ low * den <= num /\ num <= high * den
  BY DEF num, den
<1>2. q \in Nat /\ r \in 0 .. den - 1 /\ num = den * q + r
  BY <1>1, DivisionBy DEF q, r
<1>3. v = q \/ (v = q - 1 /\ r = 0 /\ num > 0)
  BY DEF Truncations, MayLoseOne, q, r, num, den
<1>4. low <= q
  <2>1. SUFFICES ASSUME q + 1 <= low PROVE FALSE
    BY <1>2
  <2>2. den * (q + 1) <= den * low
    BY <1>1, <1>2, <2>1, ProductsMonotone
  <2>3. den * (q + 1) = den * q + den /\ den * low = low * den
    BY <1>1, <1>2
  <2> QED
    BY <1>1, <1>2, <2>2, <2>3
<1>5. q <= high
  <2>1. den * q <= den * high
    <3>1. den * high = high * den /\ den * q \in Int /\ high * den \in Int
      BY <1>1, <1>2
    <3> QED
      BY <1>1, <1>2, <3>1
  <2> QED
    BY <1>1, <1>2, <2>1, CancelFactor
<1>6. (r = 0 /\ num > 0) => q >= 1
  <2>1. q = 0 => den * q = 0
    BY <1>1
  <2> QED
    BY <1>1, <1>2, <2>1
<1> QED
  BY <1>2, <1>3, <1>4, <1>5, <1>6

\* the position of x on the line through a and b, as a numerator
Above(a, b, x) == a.y * (b.x - a.x) + (x - a.x) * (b.y - a.y)

LEMMA AboveMonotone ==
    ASSUME NEW a \in Coords, NEW b \in Coords, a.x < b.x, a.y <= b.y,
           NEW x \in Nat, NEW z \in Nat, x <= z
    PROVE  /\ Above(a, b, x) \in Int /\ Above(a, b, z) \in Int
           /\ Above(a, b, x) <= Above(a, b, z)
           /\ a.x <= x => Above(a, b, x) \in Nat
<1> DEFINE w == b.x - a.x
           r == b.y - a.y
           y == a.y
           s == x - a.x
           t == z - a.x
<1>1. /\ w \in Nat /\ r \in Nat /\ y \in Nat /\ s \in Int /\ t \in Int /\ s <= t
      /\ a.x <= x => s \in Nat
  BY DEF Coords
<1>2. Above(a, b, x) = y * w + s * r /\ Above(a, b, z) = y * w + t * r
  BY DEF Above
<1> HIDE DEF w, r, y, s, t
<1>3. r * s <= r * t
  BY <1>1, ProductsMonotone
<1>4. r * s = s * r /\ r * t = t * r /\ s * r \in Int /\ t * r \in Int /\ y * w \in Nat
  BY <1>1
<1>5. s \in Nat => s * r \in Nat
  BY <1>1
<1> QED
  BY <1>1, <1>2, <1>3, <1>4, <1>5

LEMMA NearAbove ==
    ASSUME NEW a \in Coords, NEW b \in Coords, NEW c \in Coords, NEW e \in Nat,
           Near(a, b, c, e)
    PROVE  /\ (c.y - e) * (b.x - a.x) <= Above(a, b, c.x)
           /\ Above(a, b, c.x) <= (c.y + e) * (b.x - a.x)
<1> DEFINE w == b.x - a.x
           r == b.y - a.y
           t == c.x - a.x
           y == a.y
           high == c.y + e
           low == c.y - e
<1>1. /\ (high - y) * w >= r * t /\ r * t >= (low - y) * w
  BY DEF Near, Steeper, Coord
<1>2. /\ w \in Int /\ r \in Int /\ t \in Int /\ y \in Int
      /\ high \in Int /\ low \in Int
  BY DEF Coords
<1>3. Above(a, b, c.x) = y * w + t * r
  BY DEF Above
<1> HIDE DEF w, r, t, y, high, low
<1>4. (high - y) * w = high * w - y * w /\ (low - y) * w = low * w - y * w
  BY <1>2, Distribute
<1>5. r * t = t * r /\ r * t \in Int /\ y * w \in Int /\ high * w \in Int /\ low * w \in Int
  BY <1>2
<1>6. low * w <= y * w + t * r /\ y * w + t * r <= high * w
  BY <1>1, <1>4, <1>5
<1> QED
  BY <1>3, <1>6 DEF high, low, w

-----------------------------------------------------------------------------
(* The spline around a key. *)

NoKeyRepeated == \A h \in 1 .. Len(data) - 1 : data[h] # data[h + 1]

\* the points of the CDF next to a key, on both sides
LEMMA CdfAround ==
    ASSUME data \in Inputs, curr_num_keys = Len(data), NEW key \in Nat,
           min_key < key, key < max_key, key \in Keys \/ NoKeyRepeated
    PROVE  \E c, d \in CdfPoints :
               /\ c.x <= key /\ key <= d.x
               /\ FirstAtLeast(key) - 1 <= c.y /\ d.y <= FirstAtLeast(key)
               /\ \A p \in CdfPoints : /\ p.x < key => p.x <= c.x
                                       /\ p.x >= key => d.x <= p.x
<1> DEFINE n == Len(data)
           F == FirstAtLeast(key)
<1> HIDE DEF F
<1>1. /\ n \in Nat \ {0} /\ \A h \in 1 .. n : data[h] \in Nat
      /\ \A h, j \in 1 .. n : h <= j => data[h] <= data[j]
      /\ F \in 0 .. n /\ \A h \in 1 .. n : data[h] >= key <=> h > F
  BY KeysGiven, FirstAtLeastSplits DEF F
<1>2. F \in 1 .. n - 1
  <2>1. 1 \in 1 .. n /\ n \in 1 .. n /\ data[1] \in Nat /\ data[n] \in Nat
    BY <1>1
  <2>2. ~ (data[1] >= key) /\ data[n] >= key
    BY <2>1 DEF min_key, max_key
  <2> QED
    BY <1>1, <2>1, <2>2
<1>3. /\ F \in 1 .. n /\ F + 1 \in 1 .. n /\ data[F] \in Nat /\ data[F + 1] \in Nat
      /\ data[F] < key /\ key <= data[F + 1]
  <2>1. F \in 1 .. n /\ F + 1 \in 1 .. n /\ ~ (F > F) /\ F + 1 > F
    BY <1>1, <1>2
  <2> QED
    BY <1>1, <2>1
<1>4. ASSUME NEW p \in CdfPoints
      PROVE  /\ p.x < key => p.x <= data[F]
             /\ p.x >= key => data[F + 1] <= p.x
  <2>1. PICK h \in 1 .. n : p = Coord(data[h], h - 1)
    BY DEF CdfPoints
  <2>2. p.x = data[h] /\ data[h] \in Nat
    BY <1>1, <2>1 DEF Coord
  <2>3. CASE h > F
    <3>1. F + 1 <= h /\ data[h] >= key
      BY <1>1, <1>2, <2>3
    <3> QED
      BY <1>1, <1>3, <2>2, <3>1
  <2>4. CASE ~ (h > F)
    <3>1. h <= F /\ ~ (data[h] >= key)
      BY <1>1, <1>2, <2>4
    <3> QED
      BY <1>1, <1>3, <2>2, <3>1
  <2> QED
    BY <2>3, <2>4
<1>5. /\ Coord(data[F + 1], F) \in CdfPoints
      /\ Coord(data[F + 1], F).x = data[F + 1] /\ Coord(data[F + 1], F).y = F
  <2>1. data[(F + 1) - 1] # data[F + 1] /\ (F + 1) - 1 = F
    BY <1>2, <1>3
  <2> QED
    BY <1>3, <2>1 DEF CdfPoints, Coord
<1>6. CASE key \in Keys
  <2>1. PICK h \in 1 .. n : data[h] = key
    BY <1>6 DEF Keys
  <2>2. h > F /\ F + 1 <= h
    BY <1>1, <1>2, <2>1
  <2>3. data[F + 1] = key
    BY <1>1, <1>3, <2>1, <2>2
  <2>4. \A p \in CdfPoints : /\ p.x < key => p.x <= data[F + 1]
                             /\ p.x >= key => data[F + 1] <= p.x
    <3>1. SUFFICES ASSUME NEW p \in CdfPoints, p.x < key PROVE p.x <= data[F + 1]
      BY <1>4
    <3>2. p.x \in Nat
      BY CdfIsCdfOf, CdfOfKeys DEF Coords
    <3> QED
      BY <2>3, <3>1, <3>2
  <2> DEFINE c == Coord(data[F + 1], F)
  <2>5. c.x <= key /\ key <= c.x /\ F - 1 <= c.y /\ c.y <= F
    BY <1>2, <1>5, <2>3
  <2>6. \A p \in CdfPoints : (p.x < key => p.x <= c.x) /\ (p.x >= key => c.x <= p.x)
    BY <1>5, <2>4
  <2> QED
    BY <1>5, <2>5, <2>6 DEF F
<1>7. CASE NoKeyRepeated
  <2> DEFINE c == Coord(data[F], F - 1)
             d == Coord(data[F + 1], F)
  <2>1. c \in CdfPoints /\ c.x = data[F] /\ c.y = F - 1
    <3>1. F = 1 \/ data[F - 1] # data[F]
      <4>1. SUFFICES ASSUME F # 1 PROVE data[F - 1] # data[F]
        OBVIOUS
      <4>2. F - 1 \in 1 .. n - 1 /\ (F - 1) + 1 = F
        BY <1>1, <1>2, <4>1
      <4>3. data[F - 1] # data[(F - 1) + 1]
        BY <1>7, <4>2 DEF NoKeyRepeated
      <4> QED
        BY <4>2, <4>3
    <3> QED
      BY <1>3, <3>1 DEF CdfPoints, Coord
  <2>2. c.x <= key /\ key <= d.x /\ F - 1 <= c.y /\ d.y <= F
    BY <1>2, <1>3, <1>5, <2>1
  <2>3. \A p \in CdfPoints : (p.x < key => p.x <= c.x) /\ (p.x >= key => d.x <= p.x)
    BY <1>4, <1>5, <2>1
  <2> QED
    BY <1>5, <2>1, <2>2, <2>3 DEF F
<1> QED
  BY <1>6, <1>7

\* the segment a key is interpolated on
LEMMA SegmentOf ==
    ASSUME IInv, built, NEW key \in Nat, min_key < key, key < max_key
    PROVE  \E k \in 1 .. Len(spline_points) - 1 :
               /\ GetEstimatedPosition(Spline, key) =
                     Interpolate(spline_points[k], spline_points[k + 1], key)
               /\ spline_points[k].x < key /\ key <= spline_points[k + 1].x
<1> DEFINE k == LeastIndex(AtLeast(key))
<1> HIDE DEF k
<1>1. /\ GetSplineSegment(Spline, key) = k
      /\ k \in 1 .. Len(spline_points) - 1
      /\ spline_points[k].x < key /\ key <= spline_points[k + 1].x
  BY SearchExact DEF k
<1>2. GetEstimatedPosition(Spline, key) =
          Interpolate(spline_points[k], spline_points[k + 1], key)
  <2>1. /\ Spline.min_key = min_key /\ Spline.max_key = max_key
        /\ Spline.spline_points = spline_points
    BY DEF Spline
  <2>2. ~ (key <= min_key) /\ ~ (key >= max_key)
    BY KeysBetween DEF IInv, Types
  <2> QED
    BY <1>1, <2>1, <2>2 DEF GetEstimatedPosition
<1> QED
  BY <1>1, <1>2

\* the ends of that segment, and the CDF points it has to pass
LEMMA SegmentAround ==
    ASSUME IInv, Order, built, LargestKeyUnique, NEW key \in Nat,
           min_key < key, key < max_key
    PROVE  \E a, b \in CdfPoints :
               /\ GetEstimatedPosition(Spline, key) = Interpolate(a, b, key)
               /\ a \in Coords /\ b \in Coords
               /\ a.x < key /\ key <= b.x /\ a.y < b.y
               /\ \A c \in CdfPoints : (a.x <= c.x /\ c.x <= b.x) => Near(a, b, c, max_error)
<1>1. PICK h \in 1 .. Len(spline_points) - 1 :
          /\ GetEstimatedPosition(Spline, key) =
                Interpolate(spline_points[h], spline_points[h + 1], key)
          /\ spline_points[h].x < key /\ key <= spline_points[h + 1].x
  BY SegmentOf
<1> DEFINE a == spline_points[h]
           b == spline_points[h + 1]
<1>2. /\ data \in Inputs
      /\ spline_points \in Seq(Coords) /\ Len(spline_points) \in Nat
      /\ Rising(spline_points)
      /\ \A j \in 1 .. Len(spline_points) : spline_points[j] \in CdfPoints
      /\ SegmentsNear(spline_points, CdfPoints, max_error)
  BY DEF IInv, Types, Segments, Order
<1>3. h \in 1 .. Len(spline_points) /\ h + 1 \in 1 .. Len(spline_points) /\ h < h + 1
  BY <1>2
<1>4. /\ a \in CdfPoints /\ b \in CdfPoints /\ a \in Coords /\ b \in Coords
      /\ a.y < b.y
  BY <1>2, <1>3, ElementOf DEF Rising
<1>5. GetEstimatedPosition(Spline, key) = Interpolate(a, b, key) /\ a.x < key /\ key <= b.x
  BY <1>1
<1>6. \A c \in CdfPoints : (a.x <= c.x /\ c.x <= b.x) => Near(a, b, c, max_error)
  BY <1>1, <1>2 DEF SegmentsNear
<1> HIDE DEF a, b
<1> QED
  BY <1>4, <1>5, <1>6

(***************************************************************************)
(* The estimate of a key, truncated and perhaps one too low, is within the *)
(* reach of the search bound from the position to be found.                *)
(***************************************************************************)
LEMMA EstimateNear ==
    ASSUME IInv, Order, built, LargestKeyUnique, NEW key \in Nat,
           key \in Keys \/ NoKeyRepeated, NEW v \in Estimates(Spline, key)
    PROVE  /\ v \in Nat
           /\ FirstAtLeast(key) - max_error - 2 <= v
           /\ v <= FirstAtLeast(key) + max_error
<1> DEFINE n == Len(data)
           F == FirstAtLeast(key)
           e == GetEstimatedPosition(Spline, key)
<1> HIDE DEF F
<1>1. /\ data \in Inputs /\ max_error \in Nat /\ curr_num_keys = n
      /\ n \in Nat \ {0} /\ \A h \in 1 .. n : data[h] \in Nat
      /\ min_key \in Nat /\ max_key \in Nat /\ data[1] = min_key /\ data[n] = max_key
      /\ F \in 0 .. n /\ \A h \in 1 .. n : data[h] >= key <=> h > F
      /\ \A h \in 1 .. n : data[h] <= max_key
  BY KeysGiven, KeysBetween, FirstAtLeastSplits DEF F, IInv, Types, min_key, max_key
<1>2. /\ v \in Truncations(e) /\ Spline.min_key = min_key /\ Spline.max_key = max_key
      /\ Spline.num_keys = n
  BY <1>1 DEF Estimates, Spline
<1>3. CASE key <= min_key
  <2>1. e.num = 0 /\ e.den = 1
    BY <1>2, <1>3 DEF GetEstimatedPosition
  <2> HIDE DEF e
  <2>2. v \in Nat /\ 0 - 1 <= v /\ v <= 0
    BY <1>2, <2>1, TruncationsBetween
  <2>3. F = 0
    BY <1>1, <1>3
  <2> QED
    BY <1>1, <2>2, <2>3 DEF F
<1>4. CASE ~ (key <= min_key) /\ key >= max_key
  <2>1. e.num = n - 1 /\ e.den = 1
    BY <1>2, <1>4 DEF GetEstimatedPosition
  <2> HIDE DEF e
  <2>2. /\ e.num \in Nat /\ e.den \in Nat \ {0} /\ n - 1 \in Int
        /\ (n - 1) * e.den <= e.num /\ e.num <= (n - 1) * e.den
    BY <1>1, <2>1
  <2>3. v \in Nat /\ (n - 1) - 1 <= v /\ v <= n - 1
    BY <1>2, <2>2, TruncationsBetween
  <2>4. n - 1 <= F
    <3>1. SUFFICES ASSUME n > 1 PROVE n - 1 <= F
      BY <1>1
    <3>2. n - 1 \in 1 .. n /\ data[n - 1] \in Nat /\ data[n - 1] # max_key
          /\ data[n - 1] <= max_key
      BY <1>1, <3>1 DEF LargestKeyUnique
    <3>3. ~ (data[n - 1] >= key)
      BY <1>1, <1>4, <3>2
    <3> QED
      BY <1>1, <3>2, <3>3
  <2> QED
    BY SMTT(20), <1>1, <2>3, <2>4 DEF F
<1>5. CASE ~ (key <= min_key) /\ ~ (key >= max_key)
  <2>1. min_key < key /\ key < max_key
    BY <1>1, <1>5
  <2>2. PICK a, b \in CdfPoints :
            /\ e = Interpolate(a, b, key) /\ a \in Coords /\ b \in Coords
            /\ a.x < key /\ key <= b.x /\ a.y < b.y
            /\ \A c \in CdfPoints :
                  (a.x <= c.x /\ c.x <= b.x) => Near(a, b, c, max_error)
    BY <2>1, SegmentAround
  <2>3. PICK c, d \in CdfPoints :
            /\ c.x <= key /\ key <= d.x /\ F - 1 <= c.y /\ d.y <= F
            /\ \A p \in CdfPoints : /\ p.x < key => p.x <= c.x
                                    /\ p.x >= key => d.x <= p.x
    BY <1>1, <2>1, CdfAround DEF F
  <2> HIDE DEF e
  <2>4. /\ c \in Coords /\ d \in Coords
        /\ a.x \in Nat /\ b.x \in Nat /\ c.x \in Nat /\ d.x \in Nat
        /\ a.y \in Nat /\ b.y \in Nat /\ c.y \in Nat /\ d.y \in Nat
    <3>1. c \in Coords /\ d \in Coords
      BY <1>1, <2>3, CdfIsCdfOf, CdfOfKeys
    <3> QED
      BY <2>2, <3>1 DEF Coords
  <2>5. a.x <= c.x /\ d.x <= b.x
    BY <2>2, <2>3
  <2>6. c.x <= b.x /\ a.x <= d.x /\ a.x < b.x /\ a.y <= b.y
    <3>1. a.x < key /\ key <= b.x /\ a.y < b.y /\ c.x <= key /\ key <= d.x
      BY <2>2, <2>3
    <3> QED
      BY <2>4, <3>1
  <2>7. Near(a, b, c, max_error) /\ Near(a, b, d, max_error)
    BY <2>2, <2>3, <2>5, <2>6
  <2> DEFINE low == c.y - max_error
             high == d.y + max_error
             w == b.x - a.x
  <2>8. low * w <= Above(a, b, c.x) /\ Above(a, b, d.x) <= high * w
    BY <1>1, <2>2, <2>4, <2>7, NearAbove
  <2>9. /\ Above(a, b, c.x) \in Int /\ Above(a, b, key) \in Nat /\ Above(a, b, d.x) \in Int
        /\ Above(a, b, c.x) <= Above(a, b, key) /\ Above(a, b, key) <= Above(a, b, d.x)
    <3>1. c.x <= key /\ key <= d.x /\ a.x <= key
      BY <2>2, <2>3, <2>4
    <3> QED
      BY <2>2, <2>4, <2>6, <3>1, AboveMonotone
  <2>10. e.num = Above(a, b, key) /\ e.den = w
    BY <2>2 DEF Interpolate, Above
  <2>11. low \in Int /\ high \in Int /\ w \in Nat \ {0} /\ low * w \in Int /\ high * w \in Int
    <3>1. max_error \in Nat
      BY <1>1
    <3> QED
      BY <2>4, <2>6, <3>1
  <2>12. /\ F - 1 <= c.y /\ d.y <= F
    BY <2>3
  <2>13. F - max_error - 2 <= low - 1 /\ high <= F + max_error
    <3>1. max_error \in Nat /\ F \in Nat
      BY <1>1
    <3> QED
      BY <2>4, <2>12, <3>1
  <2> HIDE DEF low, high, w
  <2>14. /\ e.num \in Nat /\ e.den \in Nat \ {0}
         /\ low * e.den <= e.num /\ e.num <= high * e.den
    BY <2>8, <2>9, <2>10, <2>11
  <2>15. v \in Nat /\ low - 1 <= v /\ v <= high
    BY <1>2, <2>11, <2>14, TruncationsBetween
  <2> QED
    BY SMTT(20), <1>1, <2>11, <2>13, <2>15 DEF F
<1> QED
  BY <1>3, <1>4, <1>5

LEMMA LowerBoundExact ==
    ASSUME IInv, Order, built, LargestKeyUnique, NEW key \in Nat,
           key \in Keys \/ NoKeyRepeated, NEW bound \in SearchBounds(Spline, key)
    PROVE  LowerBoundIn(bound, key) = FirstAtLeast(key)
<1> DEFINE n == Len(data)
           F == FirstAtLeast(key)
<1> HIDE DEF F
<1>1. PICK v \in Estimates(Spline, key) : bound = BoundAround(Spline, v)
  BY DEF SearchBounds
<1>2. /\ data \in Inputs /\ max_error \in Nat /\ n \in Nat /\ F \in 0 .. n
      /\ v \in Nat /\ F - max_error - 2 <= v /\ v <= F + max_error
  BY KeysGiven, FirstAtLeastSplits, EstimateNear DEF IInv, Types, F
<1>3. Spline.max_error = max_error /\ Spline.num_keys = n
  BY DEF Spline, IInv, Types
<1>4. /\ bound.begin = (IF v < max_error THEN 0 ELSE v - max_error)
      /\ bound.end = (IF v + max_error + 2 > n THEN n ELSE v + max_error + 2)
  BY <1>1, <1>3 DEF BoundAround
<1>5. /\ bound.begin \in Nat /\ bound.end \in 0 .. n
      /\ bound.begin <= F /\ F <= bound.end
  BY <1>2, <1>4
<1> QED
  BY <1>2, <1>5, BoundSuffices DEF F

\* whatever the key, an estimate is a position and the search stays inside
LEMMA EstimateNatural ==
    ASSUME IInv, Order, built, LargestKeyUnique, NEW key \in Nat,
           NEW v \in Estimates(Spline, key)
    PROVE  v \in Nat
<1> DEFINE e == GetEstimatedPosition(Spline, key)
<1>1. /\ Len(data) \in Nat \ {0} /\ curr_num_keys = Len(data)
      /\ min_key \in Nat /\ max_key \in Nat
      /\ Spline.min_key = min_key /\ Spline.max_key = max_key
      /\ Spline.num_keys = Len(data)
  BY KeysGiven, KeysBetween DEF IInv, Types, Spline
<1>2. e.num \in Nat /\ e.den \in Nat \ {0}
  <2>1. CASE key <= min_key
    BY <1>1, <2>1 DEF GetEstimatedPosition
  <2>2. CASE ~ (key <= min_key) /\ key >= max_key
    BY <1>1, <2>2 DEF GetEstimatedPosition
  <2>3. CASE min_key < key /\ key < max_key
    <3>1. PICK a, b \in CdfPoints :
              /\ e = Interpolate(a, b, key) /\ a \in Coords /\ b \in Coords
              /\ a.x < key /\ key <= b.x /\ a.y < b.y
      BY <2>3, SegmentAround
    <3> HIDE DEF e
    <3>2. /\ a.x \in Nat /\ b.x \in Nat /\ a.y \in Nat /\ b.y \in Nat
          /\ a.x < key /\ key <= b.x /\ a.y < b.y
      BY <3>1 DEF Coords
    <3>3. a.x < b.x /\ a.y <= b.y /\ a.x <= key
      BY <3>2
    <3>4. Above(a, b, key) \in Nat
      BY <3>1, <3>3, AboveMonotone
    <3>5. e.num = Above(a, b, key) /\ e.den = b.x - a.x
      BY <3>1 DEF Interpolate, Above
    <3> QED
      BY <3>2, <3>3, <3>4, <3>5
  <2> QED
    BY <1>1, <2>1, <2>2, <2>3
<1>3. v \in Truncations(e)
  BY DEF Estimates
<1> HIDE DEF e
<1>4. 0 * e.den <= e.num /\ e.num <= e.num * e.den
  <2>1. e.num * 1 <= e.num * e.den
    BY <1>2, ProductsMonotone
  <2> QED
    BY <1>2, <2>1
<1> QED
  BY <1>2, <1>3, <1>4, TruncationsBetween

LEMMA LowerBoundInside ==
    ASSUME IInv, Order, built, LargestKeyUnique, NEW key \in Nat,
           NEW bound \in SearchBounds(Spline, key)
    PROVE  LowerBoundIn(bound, key) \in 0 .. Len(data)
<1> DEFINE n == Len(data)
           from == bound.begin
           to == bound.end
           I == {j \in from .. to - 1 : data[j + 1] >= key} \cup {to}
<1>1. PICK v \in Estimates(Spline, key) : bound = BoundAround(Spline, v)
  BY DEF SearchBounds
<1>2. max_error \in Nat /\ n \in Nat /\ v \in Nat
  BY KeysGiven, EstimateNatural DEF IInv, Types
<1>3. Spline.max_error = max_error /\ Spline.num_keys = n
  BY DEF Spline, IInv, Types
<1>4. /\ from = (IF v < max_error THEN 0 ELSE v - max_error)
      /\ to = (IF v + max_error + 2 > n THEN n ELSE v + max_error + 2)
  BY <1>1, <1>3 DEF BoundAround
<1> HIDE DEF from, to
<1>5. from \in Nat /\ to \in 0 .. n
  BY <1>2, <1>4
<1>6. I \in SUBSET (0 .. n) /\ I \in SUBSET Nat /\ I # {}
  BY <1>2, <1>5
<1>7. LeastIndex(I) \in I
  <2> HIDE DEF I
  <2> QED
    BY <1>6, LeastIndexOf
<1>8. LowerBoundIn(bound, key) = LeastIndex(I)
  BY DEF LowerBoundIn, from, to
<1> QED
  BY <1>6, <1>7, <1>8

LEMMA EstimatesExist ==
    ASSUME NEW key
    PROVE  SearchBounds(Spline, key) # {}
  BY DEF SearchBounds, Estimates, Truncations

(***************************************************************************)
(* MultiMap and RS answer as std::multimap, whatever the distribution of   *)
(* the keys, if the largest key is stored once.                            *)
(***************************************************************************)
THEOREM LookupsTheorem == Spec => [](LargestKeyUnique => LookupsLikeMultimap)
<1>1. (IInv /\ Order) => (LargestKeyUnique => LookupsLikeMultimap)
  <2> SUFFICES ASSUME IInv, Order, LargestKeyUnique, built, NEW key \in Probes
               PROVE  /\ \A j \in find(key) :
                             /\ key \in Keys <=> j # end
                             /\ j # end => data[j + 1] = key
                      /\ curr_num_distinct_keys = Len(data) =>
                             lower_bound(key) = {FirstAtLeast(key)}
    BY DEF LookupsLikeMultimap
  <2>1. /\ data \in Inputs /\ curr_num_keys = Len(data) /\ Len(data) \in Nat
        /\ key \in Nat /\ \A h \in 1 .. Len(data) : data[h] \in Nat
    <3>1. data \in Inputs /\ curr_num_keys = Len(data)
      BY DEF IInv, Types
    <3>2. max_key \in Nat
      BY <3>1, KeysBetween
    <3> QED
      BY <3>1, <3>2, KeysGiven DEF Probes
  <2>2. /\ FirstAtLeast(key) \in 0 .. Len(data)
        /\ \A h \in 1 .. Len(data) : data[h] >= key <=> h > FirstAtLeast(key)
    BY <2>1, FirstAtLeastSplits
  <2>3. ASSUME NEW j \in find(key)
        PROVE  (key \in Keys <=> j # end) /\ (j # end => data[j + 1] = key)
    <3>1. PICK bound \in SearchBounds(Spline, key) :
              j = IF LowerBoundIn(bound, key) # end
                     /\ data[LowerBoundIn(bound, key) + 1] = key
                  THEN LowerBoundIn(bound, key) ELSE end
      BY DEF find, lower_bound
    <3>2. CASE key \in Keys
      <4>1. LowerBoundIn(bound, key) = FirstAtLeast(key)
        BY <2>1, <3>2, LowerBoundExact
      <4>2. PICK h \in 1 .. Len(data) : data[h] = key
        BY <3>2 DEF Keys
      <4> DEFINE f == FirstAtLeast(key)
      <4> HIDE DEF f
      <4>3. f \in 0 .. Len(data) /\ \A k \in 1 .. Len(data) : data[k] >= key <=> k > f
        BY <2>2 DEF f
      <4>4. h > f /\ f # Len(data) /\ f + 1 \in 1 .. Len(data) /\ f + 1 > f /\ f + 1 <= h
        BY <2>1, <4>2, <4>3
      <4>5. data[f + 1] >= key /\ data[f + 1] <= data[h]
        BY <2>1, <4>3, <4>4, KeysGiven
      <4>6. data[f + 1] = key
        BY <2>1, <4>2, <4>4, <4>5
      <4>7. j = f
        BY <3>1, <4>1, <4>4, <4>6 DEF f, end
      <4> QED
        BY <3>2, <4>4, <4>6, <4>7 DEF end
    <3>3. CASE key \notin Keys
      <4> DEFINE l == LowerBoundIn(bound, key)
      <4>1. l \in 0 .. Len(data)
        BY <2>1, LowerBoundInside
      <4>2. j = end
        BY <2>1, <3>1, <3>3, <4>1 DEF Keys, end
      <4> QED
        BY <3>3, <4>2
    <3> QED
      BY <3>2, <3>3
  <2>4. ASSUME curr_num_distinct_keys = Len(data)
        PROVE  lower_bound(key) = {FirstAtLeast(key)}
    <3>1. NoKeyRepeated
      BY <2>1, <2>4 DEF Order, NoKeyRepeated
    <3>2. \A bound \in SearchBounds(Spline, key) :
              LowerBoundIn(bound, key) = FirstAtLeast(key)
      BY <2>1, <3>1, LowerBoundExact
    <3> QED
      BY <3>2, EstimatesExist DEF lower_bound
  <2> QED
    BY <2>3, <2>4
<1> QED
  BY <1>1, Invariance, OrderInvariance, PTL

-----------------------------------------------------------------------------

(* Truncated fractions. *)

\* truncation, with the one it may lose, keeps the order of different fractions
LEMMA TruncationsKeepOrder ==
    ASSUME NEW e, e.num \in Nat, e.den \in Nat \ {0}, NEW v \in Truncations(e),
           NEW f, f.num \in Nat, f.den \in Nat \ {0}, NEW u \in Truncations(f),
           e.num * f.den < f.num * e.den
    PROVE  v <= u
<1>1. v \in Nat /\ u \in Nat /\ v * e.den <= e.num /\ f.num <= (u + 1) * f.den
  <2> DEFINE num == e.num
             den == e.den
             q == num \div den
             top == f.num
             bot == f.den
             p == top \div bot
  <2> HIDE DEF num, den, q, top, bot, p
  <2>1. /\ num \in Nat /\ den \in Nat \ {0} /\ top \in Nat /\ bot \in Nat \ {0}
    BY DEF num, den, top, bot
  <2>2. /\ q \in Nat /\ num % den \in 0 .. den - 1 /\ num = den * q + (num % den)
        /\ p \in Nat /\ top % bot \in 0 .. bot - 1 /\ top = bot * p + (top % bot)
    BY <2>1, DivisionBy DEF q, p
  <2>3. /\ v = q \/ (v = q - 1 /\ num % den = 0 /\ num > 0)
        /\ u = p \/ (u = p - 1 /\ top % bot = 0 /\ top > 0)
    BY DEF Truncations, MayLoseOne, q, num, den, top, bot, p
  <2>4. /\ (num % den = 0 /\ num > 0) => q # 0
        /\ (top % bot = 0 /\ top > 0) => p # 0
    <3>1. (q = 0 => den * q = 0) /\ (p = 0 => bot * p = 0)
      BY <2>1
    <3> QED
      BY <2>1, <2>2, <3>1
  <2>5. v \in Nat /\ u \in Nat /\ v <= q /\ (u = p - 1 => top % bot = 0) /\ (u = p \/ u = p - 1)
    BY <2>2, <2>3, <2>4
  <2>6. v * den <= num
    <3>1. den * v <= den * q /\ den * v = v * den /\ den * v \in Nat /\ den * q \in Nat
      BY <2>1, <2>2, <2>5, ProductsMonotone
    <3> QED
      BY <2>1, <2>2, <3>1
  <2>7. top <= (u + 1) * bot
    <3>1. CASE u = p
      <4>1. (p + 1) * bot = bot * p + bot
        BY <2>1, <2>2
      <4> QED
        BY <2>1, <2>2, <3>1, <4>1
    <3>2. CASE u = p - 1
      <4>1. u + 1 = p /\ p * bot = bot * p /\ top % bot = 0
        BY <2>1, <2>2, <2>5, <3>2
      <4> QED
        BY <2>1, <2>2, <4>1
    <3> QED
      BY <2>5, <3>1, <3>2
  <2> QED
    BY <2>5, <2>6, <2>7 DEF num, den, top, bot
<1> DEFINE num == e.num
           den == e.den
           top == f.num
           bot == f.den
<1>2. /\ num \in Nat /\ den \in Nat /\ top \in Nat /\ bot \in Nat
      /\ v \in Nat /\ u \in Nat /\ v * den <= num /\ top <= (u + 1) * bot
      /\ num * bot < top * den
  BY <1>1
<1> HIDE DEF num, den, top, bot
<1>3. SUFFICES ASSUME u + 1 <= v PROVE FALSE
  BY <1>2
<1>4. bot * (v * den) <= bot * num
  BY <1>2, ProductsMonotone
<1>5. den * top <= den * ((u + 1) * bot)
  BY <1>2, ProductsMonotone
<1>6. (den * bot) * (u + 1) <= (den * bot) * v
  <2>1. den * bot \in Nat
    BY <1>2
  <2> QED
    BY <1>2, <1>3, <2>1, ProductsMonotone
<1>7. /\ bot * (v * den) = (den * bot) * v /\ den * ((u + 1) * bot) = (den * bot) * (u + 1)
      /\ bot * num = num * bot /\ den * top = top * den
      /\ (den * bot) * v \in Int /\ (den * bot) * (u + 1) \in Int
      /\ num * bot \in Int /\ top * den \in Int
  BY <1>2
<1> QED
  BY <1>2, <1>4, <1>5, <1>6, <1>7

-----------------------------------------------------------------------------
(* The estimates of the finished spline. *)

\* inside its segment an estimate is above the start and grows to the end
LEMMA AboveBetween ==
    ASSUME NEW a \in Coords, NEW b \in Coords, a.y < b.y,
           NEW x \in Nat, a.x < x, x <= b.x
    PROVE  /\ b.x - a.x \in Nat \ {0} /\ Above(a, b, x) \in Nat
           /\ a.y * (b.x - a.x) < Above(a, b, x)
           /\ Above(a, b, x) <= b.y * (b.x - a.x)
           /\ x < b.x => Above(a, b, x) < b.y * (b.x - a.x)
<1> DEFINE w == b.x - a.x
           r == b.y - a.y
           y == a.y
           s == x - a.x
<1>1. /\ w \in Nat \ {0} /\ r \in Nat \ {0} /\ y \in Nat /\ s \in Nat \ {0} /\ s <= w
      /\ b.y = y + r /\ (x < b.x => s + 1 <= w)
  BY DEF Coords
<1>2. Above(a, b, x) = y * w + s * r
  BY DEF Above
<1> HIDE DEF w, r, y, s
<1>3. s * r \in Nat \ {0} /\ y * w \in Nat /\ w * r \in Nat /\ (y + r) * w = y * w + w * r
  BY <1>1
<1>4. s * r <= w * r
  <2>1. r * s <= r * w /\ r * s = s * r /\ r * w = w * r
    BY <1>1, ProductsMonotone
  <2> QED
    BY <2>1
<1>5. s + 1 <= w => s * r < w * r
  <2>1. SUFFICES ASSUME s + 1 <= w PROVE s * r < w * r
    OBVIOUS
  <2>2. r * (s + 1) <= r * w /\ r * (s + 1) = s * r + r /\ r * w = w * r
    BY <1>1, <2>1, ProductsMonotone
  <2> QED
    BY <1>1, <1>3, <2>2
<1>6. /\ y * w + s * r \in Nat /\ y * w < y * w + s * r
      /\ y * w + s * r <= (y + r) * w
      /\ s + 1 <= w => y * w + s * r < (y + r) * w
  BY <1>3, <1>4, <1>5
<1> QED
  BY <1>1, <1>2, <1>6 DEF w, y

LEMMA AboveGrows ==
    ASSUME NEW a \in Coords, NEW b \in Coords, a.y < b.y,
           NEW x \in Nat, NEW z \in Nat, x < z
    PROVE  Above(a, b, x) < Above(a, b, z)
<1> DEFINE w == b.x - a.x
           r == b.y - a.y
           y == a.y
           s == x - a.x
           t == z - a.x
<1>1. /\ w \in Int /\ r \in Nat \ {0} /\ y \in Nat /\ s \in Int /\ t \in Int /\ s + 1 <= t
  BY DEF Coords
<1>2. Above(a, b, x) = y * w + s * r /\ Above(a, b, z) = y * w + t * r
  BY DEF Above
<1> HIDE DEF w, r, y, s, t
<1>3. r * (s + 1) <= r * t
  BY <1>1, ProductsMonotone
<1>4. r * (s + 1) = s * r + r /\ r * t = t * r /\ s * r \in Int /\ t * r \in Int /\ y * w \in Int
  BY <1>1
<1> QED
  BY <1>1, <1>2, <1>3, <1>4

\* what is known of the points of a finished spline
LEMMA FinishedPoints ==
    ASSUME IInv, Order, built
    PROVE  /\ data \in Inputs /\ Len(data) \in Nat \ {0} /\ curr_num_keys = Len(data)
           /\ min_key \in Nat /\ max_key \in Nat
           /\ Len(spline_points) \in Nat \ {0}
           /\ \A k \in 1 .. Len(spline_points) :
                 /\ spline_points[k] \in Coords
                 /\ spline_points[k].x \in Nat /\ spline_points[k].y \in Nat
                 /\ spline_points[k].y <= Len(data) - 1
           /\ spline_points[Len(spline_points)].x = max_key
           /\ \A k, m \in 1 .. Len(spline_points) : k < m =>
                 spline_points[k].x < spline_points[m].x
                 /\ spline_points[k].y < spline_points[m].y
<1>1. /\ data \in Inputs /\ curr_num_keys = Len(data) /\ spline_points \in Seq(Coords)
      /\ Points /\ Cdf
  BY DEF IInv, Types
<1>2. Len(data) \in Nat \ {0} /\ min_key \in Nat /\ max_key \in Nat
  BY <1>1, KeysGiven, KeysBetween
<1>3. /\ spline_points # <<>> /\ LastPoint.x = max_key
      /\ prev_position = Len(data) - 1
  BY <1>1, <1>2 DEF Points, Cdf
<1>4. Len(spline_points) \in Nat \ {0}
  BY <1>1, <1>3
<1>5. \A k \in 1 .. Len(spline_points) : spline_points[k] \in Coords
  BY <1>1, ElementOf
<1>6. \A k \in 1 .. Len(spline_points) : spline_points[k].y <= Len(data) - 1
  BY <1>3 DEF Order
<1>7. \A k, m \in 1 .. Len(spline_points) : k < m =>
          spline_points[k].x < spline_points[m].x
          /\ spline_points[k].y < spline_points[m].y
  BY DEF Order, Rising
<1> QED
  BY <1>1, <1>2, <1>3, <1>4, <1>5, <1>6, <1>7 DEF LastPoint, Coords

\* at the ends of the keys, and between them
LEMMA EstimateAtEnds ==
    ASSUME IInv, Order, built, NEW key \in Nat
    PROVE  /\ key <= min_key => /\ GetEstimatedPosition(Spline, key).num = 0
                                /\ GetEstimatedPosition(Spline, key).den = 1
           /\ (min_key < key /\ key >= max_key) =>
                 /\ GetEstimatedPosition(Spline, key).num = Len(data) - 1
                 /\ GetEstimatedPosition(Spline, key).den = 1
<1>1. /\ min_key \in Nat /\ max_key \in Nat
      /\ Spline.min_key = min_key /\ Spline.max_key = max_key
      /\ Spline.num_keys = Len(data)
  BY FinishedPoints DEF Spline
<1> QED
  BY <1>1 DEF GetEstimatedPosition

LEMMA EstimateInside ==
    ASSUME IInv, Order, built, NEW key \in Nat, min_key < key, key < max_key
    PROVE  /\ GetEstimatedPosition(Spline, key).num \in Nat \ {0}
           /\ GetEstimatedPosition(Spline, key).den \in Nat \ {0}
           /\ GetEstimatedPosition(Spline, key).num <
                 (Len(data) - 1) * GetEstimatedPosition(Spline, key).den
<1> DEFINE e == GetEstimatedPosition(Spline, key)
           n == Len(data)
           m == Len(spline_points)
<1>1. PICK k \in 1 .. m - 1 :
          /\ e = Interpolate(spline_points[k], spline_points[k + 1], key)
          /\ spline_points[k].x < key /\ key <= spline_points[k + 1].x
  BY SegmentOf
<1> DEFINE a == spline_points[k]
           b == spline_points[k + 1]
           w == b.x - a.x
<1>2. /\ n \in Nat \ {0} /\ m \in Nat /\ max_key \in Nat
      /\ k \in 1 .. m /\ k + 1 \in 1 .. m /\ m \in 1 .. m /\ k < k + 1
  BY FinishedPoints
<1>3. /\ a \in Coords /\ b \in Coords /\ a.y < b.y /\ a.y \in Nat
      /\ b.x \in Nat /\ b.y \in Nat /\ b.y <= n - 1
      /\ a.x < key /\ key <= b.x
  BY <1>1, <1>2, FinishedPoints
<1>4. key = b.x => b.y < n - 1
  <2>1. SUFFICES ASSUME key = b.x PROVE b.y < n - 1
    OBVIOUS
  <2>2. k + 1 # m
    BY <2>1, FinishedPoints
  <2>3. k + 1 < m
    BY <1>2, <2>2
  <2>4. /\ b.y < spline_points[m].y /\ spline_points[m].y <= n - 1
        /\ spline_points[m].y \in Nat
    BY <1>2, <2>3, FinishedPoints
  <2> QED
    BY <1>2, <1>3, <2>4
<1>5. e.num = Above(a, b, key) /\ e.den = w
  BY <1>1 DEF Interpolate, Above
<1> HIDE DEF a, b, e
<1>6. /\ w \in Nat \ {0} /\ Above(a, b, key) \in Nat
      /\ a.y * w < Above(a, b, key) /\ Above(a, b, key) <= b.y * w
      /\ key < b.x => Above(a, b, key) < b.y * w
  BY <1>3, AboveBetween
<1> HIDE DEF w, n
<1>7. a.y * w \in Nat /\ b.y * w \in Nat /\ (n - 1) * w \in Nat
  BY SMTT(20), <1>2, <1>3, <1>6
<1>8. b.y * w <= (n - 1) * w
  <2> DEFINE y == b.y
             z == n - 1
  <2>1. y \in Nat /\ z \in Int /\ w \in Nat \ {0} /\ y <= z
    BY <1>2, <1>3, <1>6
  <2> HIDE DEF y, z
  <2>2. w * y <= w * z
    BY <2>1, ProductsMonotone
  <2>3. w * y = y * w /\ w * z = z * w
    BY <2>1
  <2>4. y * w <= z * w
    BY <2>2, <2>3
  <2> QED
    BY <2>4 DEF y, z
<1>9. b.y < n - 1 => b.y * w < (n - 1) * w
  <2>1. SUFFICES ASSUME b.y + 1 <= n - 1 PROVE b.y * w < (n - 1) * w
    BY <1>2, <1>3
  <2> DEFINE y == b.y
             z == n - 1
  <2>2. y \in Nat /\ z \in Int /\ w \in Nat \ {0} /\ y + 1 <= z
    BY <1>2, <1>3, <1>6, <2>1
  <2>3. y * w \in Nat /\ z * w \in Nat
    BY <1>7
  <2> HIDE DEF y, z
  <2>4. w * (y + 1) <= w * z
    BY <2>2, ProductsMonotone
  <2>5. w * (y + 1) = y * w + w /\ w * z = z * w
    BY <2>2
  <2>6. y * w < z * w
    BY <2>2, <2>3, <2>4, <2>5
  <2> QED
    BY <2>6 DEF y, z
<1>10. Above(a, b, key) < (n - 1) * w
  <2>1. CASE key < b.x
    BY <1>6, <1>7, <1>8, <2>1
  <2>2. CASE key = b.x
    BY <1>4, <1>6, <1>7, <1>9, <2>2
  <2> QED
    BY <1>3, <2>1, <2>2
<1>11. Above(a, b, key) \in Nat \ {0}
  BY <1>6, <1>7
<1> QED
  BY <1>5, <1>6, <1>10, <1>11 DEF e, n, w

(***************************************************************************)
(* Exact estimates of two stored keys are in the order of the keys and     *)
(* differ.                                                                 *)
(***************************************************************************)
LEMMA EstimatesGrow ==
    ASSUME IInv, Order, built, NEW x \in Nat, NEW z \in Nat,
           min_key <= x, x < z, z <= max_key
    PROVE  GetEstimatedPosition(Spline, x).num * GetEstimatedPosition(Spline, z).den <
              GetEstimatedPosition(Spline, z).num * GetEstimatedPosition(Spline, x).den
<1> DEFINE e == GetEstimatedPosition(Spline, x)
           f == GetEstimatedPosition(Spline, z)
           n == Len(data)
<1>1. min_key \in Nat /\ max_key \in Nat /\ n \in Nat \ {0} /\ data \in Inputs
  BY FinishedPoints
<1>2. n - 1 \in Nat \ {0}
  <2>1. SUFFICES ASSUME n = 1 PROVE FALSE
    BY <1>1
  <2>2. min_key = max_key
    BY <2>1 DEF min_key, max_key
  <2> QED
    BY <1>1, <2>2
<1>3. CASE x <= min_key
  <2>1. e.num = 0 /\ e.den = 1
    BY <1>3, EstimateAtEnds
  <2>2. f.num \in Nat \ {0} /\ f.den \in Nat \ {0}
    <3>1. CASE z < max_key
      BY <1>1, <1>3, <3>1, EstimateInside
    <3>2. CASE ~ (z < max_key)
      <4>1. min_key < z /\ z >= max_key
        BY <1>1, <1>3, <3>2
      <4>2. f.num = n - 1 /\ f.den = 1
        BY <4>1, EstimateAtEnds
      <4> QED
        BY <1>2, <4>2
    <3> QED
      BY <3>1, <3>2
  <2> HIDE DEF e, f
  <2>3. e.num * f.den < f.num * e.den
    BY <2>1, <2>2
  <2> QED
    BY <2>3 DEF e, f
<1>4. CASE ~ (x <= min_key) /\ ~ (z < max_key)
  <2>1. f.num = n - 1 /\ f.den = 1
    BY <1>1, <1>4, EstimateAtEnds
  <2>2. e.num \in Nat /\ e.den \in Nat /\ e.num < (n - 1) * e.den
    BY <1>1, <1>4, EstimateInside
  <2> HIDE DEF e, f
  <2>3. e.num * f.den < f.num * e.den
    BY <1>2, <2>1, <2>2
  <2> QED
    BY <2>3 DEF e, f
<1>5. CASE ~ (x <= min_key) /\ z < max_key
  <2> DEFINE m == Len(spline_points)
  <2>1. /\ min_key < x /\ x < max_key /\ min_key < z
    BY <1>1, <1>5
  <2>2. PICK k \in 1 .. m - 1 :
            /\ e = Interpolate(spline_points[k], spline_points[k + 1], x)
            /\ spline_points[k].x < x /\ x <= spline_points[k + 1].x
    BY <2>1, SegmentOf
  <2>3. PICK l \in 1 .. m - 1 :
            /\ f = Interpolate(spline_points[l], spline_points[l + 1], z)
            /\ spline_points[l].x < z /\ z <= spline_points[l + 1].x
    BY <1>5, <2>1, SegmentOf
  <2> DEFINE a == spline_points[k]
             b == spline_points[k + 1]
             c == spline_points[l]
             d == spline_points[l + 1]
             v == b.x - a.x
             w == d.x - c.x
  <2>4. /\ m \in Nat /\ k \in 1 .. m /\ l \in 1 .. m /\ k + 1 \in 1 .. m /\ l + 1 \in 1 .. m
        /\ k < k + 1 /\ l < l + 1
    BY FinishedPoints
  <2>5. /\ a \in Coords /\ b \in Coords /\ c \in Coords /\ d \in Coords
        /\ a.y < b.y /\ c.y < d.y
        /\ a.x \in Nat /\ b.x \in Nat /\ c.x \in Nat /\ d.x \in Nat
        /\ a.y \in Nat /\ b.y \in Nat /\ c.y \in Nat /\ d.y \in Nat
        /\ a.x < x /\ x <= b.x /\ c.x < z /\ z <= d.x
    BY <2>2, <2>3, <2>4, FinishedPoints
  <2>6. k <= l
    <3>1. SUFFICES ASSUME l + 1 <= k PROVE FALSE
      BY <2>4
    <3>2. d.x <= a.x
      <4>1. CASE l + 1 = k
        BY <2>5, <4>1
      <4>2. CASE l + 1 < k
        <5>1. l + 1 \in 1 .. m /\ k \in 1 .. m
          BY <2>4
        <5>2. spline_points[l + 1].x < spline_points[k].x
          BY <4>2, <5>1, FinishedPoints
        <5> QED
          BY SMTT(20), <2>5, <5>2
      <4> QED
        BY <2>4, <3>1, <4>1, <4>2
    <3> QED
      BY <2>5, <3>2
  <2>7. k # l => b.y <= c.y
    <3>1. SUFFICES ASSUME k + 1 <= l PROVE b.y <= c.y
      BY <2>4, <2>6
    <3>2. CASE k + 1 = l
      BY <2>5, <3>2
    <3>3. CASE k + 1 < l
      <4>1. k + 1 \in 1 .. m /\ l \in 1 .. m /\ k + 1 < l
        BY <2>4, <3>3
      <4>2. spline_points[k + 1].y < spline_points[l].y
        BY <4>1, FinishedPoints
      <4> QED
        BY SMTT(20), <2>5, <4>2
    <3> QED
      BY <2>4, <3>1, <3>2, <3>3
  <2>8. k = l => a = c /\ b = d
    OBVIOUS
  <2>9. /\ e.num = Above(a, b, x) /\ e.den = v
        /\ f.num = Above(c, d, z) /\ f.den = w
    BY <2>2, <2>3 DEF Interpolate, Above
  <2> HIDE DEF a, b, c, d, e, f
  <2>10. /\ v \in Nat \ {0} /\ Above(a, b, x) \in Nat /\ Above(a, b, x) <= b.y * v
         /\ w \in Nat \ {0} /\ Above(c, d, z) \in Nat /\ c.y * w < Above(c, d, z)
    BY <2>5, AboveBetween
  <2>11. CASE k = l
    <3>1. Above(a, b, x) < Above(a, b, z)
      BY <2>5, AboveGrows
    <3>2. Above(c, d, z) = Above(a, b, z) /\ w = v
      BY <2>8, <2>11
    <3> HIDE DEF v, w
    <3> DEFINE p == Above(a, b, x)
               q == Above(a, b, z)
    <3>3. p \in Nat /\ q \in Nat /\ v \in Nat \ {0} /\ p < q
      BY <2>10, <3>1, <3>2
    <3>4. e.num = p /\ e.den = v /\ f.num = q /\ f.den = v
      BY <2>9, <3>2
    <3> HIDE DEF p, q
    <3>5. p * v < q * v
      <4>1. v * (p + 1) <= v * q /\ v * (p + 1) = p * v + v /\ v * q = q * v
        BY <3>3, ProductsMonotone
      <4>2. p * v \in Nat /\ q * v \in Nat
        BY <3>3
      <4> QED
        BY <3>3, <4>1, <4>2
    <3> QED
      BY <3>4, <3>5 DEF e, f
  <2>12. CASE k # l
    <3> HIDE DEF v, w
    <3> DEFINE p == Above(a, b, x)
               q == Above(c, d, z)
    <3>1. /\ p \in Nat /\ q \in Nat /\ v \in Nat \ {0} /\ w \in Nat \ {0}
          /\ b.y \in Nat /\ c.y \in Nat /\ b.y <= c.y
          /\ p <= b.y * v /\ c.y * w < q
      BY <2>5, <2>7, <2>10, <2>12
    <3>2. e.num = p /\ e.den = v /\ f.num = q /\ f.den = w
      BY <2>9
    <3> DEFINE r == b.y
               s == c.y
    <3> HIDE DEF p, q, r, s
    <3>3. /\ p \in Nat /\ q \in Nat /\ v \in Nat \ {0} /\ w \in Nat \ {0}
          /\ r \in Nat /\ s \in Nat /\ r <= s /\ p <= r * v /\ s * w < q
      BY <3>1 DEF r, s
    <3>4. w * p <= w * (r * v)
      BY <3>3, ProductsMonotone
    <3>5. v * (s * w + 1) <= v * q
      <4>1. s * w \in Nat /\ s * w + 1 <= q
        BY <3>3
      <4> QED
        BY <3>3, <4>1, ProductsMonotone
    <3>6. (v * w) * r <= (v * w) * s
      <4>1. v * w \in Nat
        BY <3>3
      <4> QED
        BY <3>3, <4>1, ProductsMonotone
    <3>7. /\ w * p = p * w /\ w * (r * v) = (v * w) * r
          /\ v * (s * w + 1) = (v * w) * s + v /\ v * q = q * v
          /\ (v * w) * r \in Nat /\ (v * w) * s \in Nat /\ p * w \in Nat /\ q * v \in Nat
      BY <3>3
    <3>8. p * w < q * v
      BY <3>3, <3>4, <3>5, <3>6, <3>7
    <3> QED
      BY <3>2, <3>8 DEF e, f
  <2> QED
    BY <2>11, <2>12
<1> QED
  BY <1>3, <1>4, <1>5

-----------------------------------------------------------------------------
(* The contract of RSHash. *)

ContractMet ==
    built => \A lost \in SUBSET MayLose(Spline) :
                 Hash!EstimateContract(Truncated(Spline, lost))

LEMMA KeySetIsKeys ==
    /\ Hash!N = Len(data) /\ Hash!KeySet = {data[k] : k \in 1 .. Len(data)}
  BY DEF Hash!N, Hash!KeySet

LEMMA EstimateBounded ==
    ASSUME IInv, Order, built, NEW key \in Nat, min_key <= key, key <= max_key
    PROVE  /\ GetEstimatedPosition(Spline, key).num \in Nat
           /\ GetEstimatedPosition(Spline, key).den \in Nat \ {0}
           /\ GetEstimatedPosition(Spline, key).num <=
                 (Len(data) - 1) * GetEstimatedPosition(Spline, key).den
<1> DEFINE e == GetEstimatedPosition(Spline, key)
           n == Len(data)
<1>1. n \in Nat \ {0} /\ min_key \in Nat /\ max_key \in Nat
  BY FinishedPoints
<1>2. CASE key <= min_key
  <2>1. e.num = 0 /\ e.den = 1
    BY <1>2, EstimateAtEnds
  <2> QED
    BY <1>1, <2>1
<1>3. CASE min_key < key /\ key >= max_key
  <2>1. e.num = n - 1 /\ e.den = 1
    BY <1>3, EstimateAtEnds
  <2> QED
    BY <1>1, <2>1
<1>4. CASE min_key < key /\ key < max_key
  <2>1. e.num \in Nat \ {0} /\ e.den \in Nat \ {0} /\ e.num < (n - 1) * e.den
    BY <1>4, EstimateInside
  <2> HIDE DEF e, n
  <2>2. e.num \in Nat /\ (n - 1) * e.den \in Int
    BY <1>1, <2>1
  <2> QED
    BY <2>1, <2>2 DEF e, n
<1> QED
  BY <1>1, <1>2, <1>3, <1>4

\* an estimate is one the lookup may compute, whichever keys lose one
LEMMA TruncatedEstimate ==
    ASSUME IInv, Order, HashableKeys, built, NEW lost \in SUBSET MayLose(Spline),
           NEW k \in 1 .. Len(data)
    PROVE  Truncated(Spline, lost)[data[k]] \in Estimates(Spline, data[k])
<1> DEFINE e == GetEstimatedPosition(Spline, data[k])
           f == Truncated(Spline, lost)
<1>1. data[k] \in Hash!KeySet
  BY KeySetIsKeys
<1>2. f[data[k]] = e.num \div e.den - (IF data[k] \in lost THEN 1 ELSE 0)
  BY <1>1 DEF Truncated
<1>3. data[k] \in lost => MayLoseOne(e)
  BY DEF MayLose
<1>4. e.num \div e.den \in Nat
  <2>1. data[k] \in Nat /\ min_key <= data[k] /\ data[k] <= max_key
    BY FinishedPoints, KeysGiven, KeysBetween
  <2> QED
    BY <2>1, EstimateBounded, DivisionBy
<1> HIDE DEF e, f
<1>5. f[data[k]] = e.num \div e.den
      \/ (f[data[k]] = e.num \div e.den - 1 /\ MayLoseOne(e))
  BY <1>2, <1>3, <1>4
<1> QED
  BY <1>5 DEF Estimates, Truncations, e, f

(***************************************************************************)
(* However the estimates of the keys in the set lost were rounded, they    *)
(* are a function RSHash can scan.                                         *)
(***************************************************************************)
LEMMA EstimatesMeetContract ==
    ASSUME IInv, Order, HashableKeys
    PROVE  ContractMet
<1> SUFFICES ASSUME built, NEW lost \in SUBSET MayLose(Spline)
             PROVE  Hash!EstimateContract(Truncated(Spline, lost))
  BY DEF ContractMet
<1> DEFINE n == Len(data)
           f == Truncated(Spline, lost)
<1>1. /\ data \in Inputs /\ n \in Nat \ {0} /\ min_key \in Nat /\ max_key \in Nat
      /\ \A k \in 1 .. n : /\ data[k] \in Nat
                           /\ min_key <= data[k] /\ data[k] <= max_key
      /\ \A j, k \in 1 .. n : j < k => data[j] < data[k]
      /\ 0 .. n - 1 \subseteq 0 .. MaxEstimate
  <2>1. /\ data \in Inputs /\ n \in Nat \ {0}
        /\ min_key \in Nat /\ max_key \in Nat
    BY FinishedPoints
  <2>2. \A k \in 1 .. n : /\ data[k] \in Nat
                           /\ min_key <= data[k] /\ data[k] <= max_key
    BY <2>1, KeysGiven, KeysBetween
  <2>3. \A j, k \in 1 .. n : j < k => data[j] < data[k]
    BY DEF HashableKeys
  <2>4. 0 .. n - 1 \subseteq 0 .. MaxEstimate
    BY DEF HashableKeys
  <2> QED
    BY <2>1, <2>2, <2>3, <2>4
<1>2. \A k \in 1 .. n : data[k] \in Hash!KeySet
  BY KeySetIsKeys
<1>3. \A key \in Hash!KeySet : \E k \in 1 .. n : key = data[k]
  BY KeySetIsKeys
<1>4. ASSUME NEW key \in Hash!KeySet
      PROVE  f[key] \in Estimates(Spline, key)
  BY <1>3, TruncatedEstimate
<1>5. DOMAIN f = Hash!KeySet /\ f = [key \in Hash!KeySet |-> f[key]]
  BY DEF Truncated
<1>6. ASSUME NEW k \in 1 .. n
      PROVE  f[data[k]] \in 0 .. n - 1
  <2> DEFINE e == GetEstimatedPosition(Spline, data[k])
             v == f[data[k]]
  <2>1. /\ e.num \in Nat /\ e.den \in Nat \ {0} /\ e.num <= (n - 1) * e.den
        /\ v \in Truncations(e)
    BY <1>1, <1>2, <1>4, EstimateBounded DEF Estimates
  <2> HIDE DEF e, v, n
  <2>2. 0 * e.den <= e.num /\ n - 1 \in Int /\ 0 \in Int
    BY <1>1, <2>1
  <2>3. v \in Nat /\ v <= n - 1
    BY <2>1, <2>2, TruncationsBetween
  <2> QED
    BY <1>1, <2>3 DEF v
<1>7. ASSUME NEW j \in 1 .. n, NEW k \in 1 .. n, j <= k
      PROVE  f[data[j]] <= f[data[k]]
  <2>1. CASE j = k
    <3>1. f[data[k]] \in Nat
      BY <1>1, <1>6
    <3> QED
      BY <2>1, <3>1
  <2>2. CASE j < k
    <3> DEFINE e == GetEstimatedPosition(Spline, data[j])
               g == GetEstimatedPosition(Spline, data[k])
    <3>1. /\ data[j] \in Nat /\ data[k] \in Nat /\ data[j] < data[k]
          /\ min_key <= data[j] /\ data[k] <= max_key
          /\ min_key <= data[k] /\ data[j] <= max_key
      BY <1>1, <2>2
    <3>2. /\ e.num \in Nat /\ e.den \in Nat \ {0}
          /\ g.num \in Nat /\ g.den \in Nat \ {0}
      BY <3>1, EstimateBounded
    <3>3. e.num * g.den < g.num * e.den
      BY <3>1, EstimatesGrow
    <3>4. f[data[j]] \in Truncations(e) /\ f[data[k]] \in Truncations(g)
      BY <1>2, <1>4 DEF Estimates
    <3> HIDE DEF e, g, f
    <3> QED
      BY <3>2, <3>3, <3>4, TruncationsKeepOrder
  <2> QED
    BY <1>1, <1>7, <2>1, <2>2
<1>8. f[data[1]] = 0
  <2> DEFINE e == GetEstimatedPosition(Spline, data[1])
             v == f[data[1]]
  <2>1. data[1] \in Nat /\ data[1] <= min_key /\ 1 \in 1 .. n
    BY <1>1 DEF min_key
  <2>2. e.num = 0 /\ e.den = 1
    BY <2>1, EstimateAtEnds
  <2>3. v \in Truncations(e)
    BY <1>2, <1>4, <2>1 DEF Estimates
  <2> HIDE DEF e, v
  <2>4. v \in Nat /\ v <= 0
    BY <2>2, <2>3, TruncationsBetween
  <2> QED
    BY <2>4 DEF v
<1> HIDE DEF f
<1>9. f \in [Hash!KeySet -> 0 .. MaxEstimate]
  <2>1. \A key \in Hash!KeySet : f[key] \in 0 .. MaxEstimate
    BY <1>1, <1>3, <1>6
  <2> QED
    BY <1>5, <2>1
<1> QED
  BY <1>7, <1>8, <1>9, KeySetIsKeys DEF Hash!EstimateContract, f

-----------------------------------------------------------------------------
(* The builder and RSHash take their steps in turn. *)

LEMMA ComposedSteps == [ComposedNext]_<<vars, hashVars>> => [Next]_vars
<1> SUFFICES ASSUME [ComposedNext]_<<vars, hashVars>> PROVE [Next]_vars
  OBVIOUS
<1>1. CASE AddKeyOfData
  BY <1>1 DEF AddKeyOfData, Next
<1>2. CASE UseSpline
  BY <1>2 DEF UseSpline, Next
<1>3. CASE UNCHANGED vars
  BY <1>3
<1>4. CASE UNCHANGED <<vars, hashVars>>
  BY <1>4
<1> QED
  BY <1>1, <1>2, <1>3, <1>4 DEF ComposedNext, ComposedConstructor, WithSpline

LEMMA HashableKept == HashableKeys /\ [Next]_vars => HashableKeys'
<1>1. [Next]_vars => data' = data
  BY DEF Next, AddNextKey, AddKey, FinalizeAtEnd, Finalize, Lookup, vars, params
<1> QED
  BY <1>1 DEF HashableKeys

(***************************************************************************)
(* RSHash with the real builder implements RSHash with any estimates that  *)
(* meet EstimateContract.  With the theorems of RSHash_proofs about the    *)
(* latter, every key is mapped to its rank.                                *)
(***************************************************************************)
THEOREM Refinement == ComposedSpec => ImplementsRSHash
<1> DEFINE composed == <<vars, hashVars>>
<1>1. ComposedInit => Init /\ HashableKeys /\ Hash!Init
  BY DEF ComposedInit
<1>2. [ComposedNext]_composed => [Next]_vars
  BY ComposedSteps
<1>3. HashableKeys /\ [Next]_vars => HashableKeys'
  BY HashableKept
<1>4. IInv /\ Order /\ HashableKeys => ContractMet
  BY EstimatesMeetContract
<1>5. ContractMet' /\ [ComposedNext]_composed => [Hash!Next]_Hash!vars
  <2> SUFFICES ASSUME ContractMet', [ComposedNext]_composed
               PROVE  [Hash!Next]_Hash!vars
    OBVIOUS
  <2>1. CASE AddKeyOfData
    <3>1. data' = data /\ UNCHANGED hashVars
      BY <2>1 DEF AddKeyOfData, AddNextKey, AddKey, params
    <3> QED
      BY <3>1 DEF hashVars, Hash!vars, Hash!scanVars, Hash!offsetVars
  <2>2. CASE UseSpline
    <3>1. /\ data' = data /\ built' = TRUE
      BY <2>2 DEF UseSpline, FinalizeAtEnd, Finalize, params
    <3>2. Hash!KeySet' = Hash!KeySet /\ Hash!N' = Hash!N
      BY <3>1 DEF Hash!KeySet, Hash!N
    <3>3. PICK lost \in SUBSET MayLose(Spline') : est' = Truncated(Spline', lost)
      BY <2>2 DEF UseSpline
    <3>4. \A l \in SUBSET MayLose(Spline)' :
              Hash!EstimateContract(Truncated(Spline, l))'
      BY <3>1 DEF ContractMet
    <3>5. Hash!EstimateContract(est')
      <4>1. MayLose(Spline)' = MayLose(Spline')
        BY <3>2 DEF MayLose
      <4>2. Truncated(Spline, lost)' = est'
        BY <3>2, <3>3 DEF Truncated
      <4>3. Hash!EstimateContract(Truncated(Spline, lost))'
        BY <3>3, <3>4, <4>1
      <4> QED
        BY <3>1, <3>2, <4>2, <4>3 DEF Hash!EstimateContract
    <3>6. est' \in [Hash!KeySet -> 0 .. MaxEstimate]
      BY <3>5 DEF Hash!EstimateContract
    <3>7. Hash!BuildSpline
      BY <2>2, <3>1, <3>5, <3>6
         DEF UseSpline, Hash!BuildSpline, Hash!scanVars, Hash!offsetVars
    <3> QED
      BY <3>7 DEF Hash!Next, Hash!Constructor
  <2>3. CASE WithSpline(Hash!ScanRound)
    BY <2>3 DEF WithSpline, Hash!Next, Hash!Constructor
  <2>4. CASE WithSpline(Hash!BuildRetrieval)
    BY <2>4 DEF WithSpline, Hash!Next, Hash!Constructor
  <2>5. CASE WithSpline(Hash!PushCount)
    BY <2>5 DEF WithSpline, Hash!Next, Hash!Constructor
  <2>6. CASE WithSpline(Hash!Finish)
    BY <2>6 DEF WithSpline, Hash!Next, Hash!Constructor
  <2>7. CASE WithSpline(Hash!Query)
    BY <2>7 DEF WithSpline, Hash!Next
  <2>8. CASE UNCHANGED composed
    BY <2>8 DEF vars, params, hashVars, Hash!vars, Hash!scanVars, Hash!offsetVars
  <2> QED
    BY <2>1, <2>2, <2>3, <2>4, <2>5, <2>6, <2>7, <2>8
       DEF ComposedNext, ComposedConstructor
<1> QED
  BY <1>1, <1>2, <1>3, <1>4, <1>5, Invariance, OrderInvariance, PTL
     DEF ComposedSpec, Spec, ImplementsRSHash, Hash!Spec

-----------------------------------------------------------------------------
(* The size of the buckets. *)

\* an estimate strictly between whole limits stays there, rounded down and one lost
LEMMA TruncationsInside ==
    ASSUME NEW e, e.num \in Nat, e.den \in Nat \ {0}, NEW v \in Truncations(e),
           NEW low \in Int, NEW high \in Int,
           low * e.den < e.num, e.num < high * e.den
    PROVE  v \in Int /\ low <= v /\ v < high
<1> DEFINE num == e.num
           den == e.den
           q == num \div den
           r == num % den
<1> HIDE DEF num, den, q, r
<1>1. num \in Nat /\ den \in Nat \ {0} /\ low * den < num /\ num < high * den
  BY DEF num, den
<1>2. q \in Nat /\ r \in 0 .. den - 1 /\ num = den * q + r
  BY <1>1, DivisionBy DEF q, r
<1>3. v = q \/ (v = q - 1 /\ r = 0)
  BY DEF Truncations, MayLoseOne, q, r, num, den
<1>4. low <= q
  <2>1. SUFFICES ASSUME q + 1 <= low PROVE FALSE
    BY <1>2
  <2>2. den * (q + 1) <= den * low
    BY <1>1, <1>2, <2>1, ProductsMonotone
  <2>3. den * (q + 1) = den * q + den /\ den * low = low * den
    BY <1>1, <1>2
  <2> QED
    BY <1>1, <1>2, <2>2, <2>3
<1>5. r = 0 => low <= q - 1
  <2>1. SUFFICES ASSUME r = 0, q <= low PROVE FALSE
    BY <1>2
  <2>2. den * q <= den * low
    BY <1>1, <1>2, <2>1, ProductsMonotone
  <2>3. den * low = low * den /\ num = den * q
    BY <1>1, <1>2, <2>1
  <2> QED
    BY <1>1, <2>2, <2>3
<1>6. q < high
  <2>1. SUFFICES ASSUME high <= q PROVE FALSE
    BY <1>2
  <2>2. den * high <= den * q
    BY <1>1, <1>2, <2>1, ProductsMonotone
  <2>3. den * high = high * den /\ den * q \in Int /\ high * den \in Int
    BY <1>1, <1>2
  <2> QED
    BY <1>1, <1>2, <2>2, <2>3
<1> QED
  BY <1>2, <1>3, <1>4, <1>5, <1>6

LEMMA WithinAbove ==
    ASSUME NEW a \in Coords, NEW b \in Coords, NEW c \in Coords, NEW e \in Nat,
           Within(a, b, c, e)
    PROVE  /\ (c.y - e) * (b.x - a.x) < Above(a, b, c.x)
           /\ Above(a, b, c.x) < (c.y + e) * (b.x - a.x)
<1> DEFINE w == b.x - a.x
           r == b.y - a.y
           t == c.x - a.x
           y == a.y
           high == c.y + e
           low == c.y - e
<1>1. ~ (r * t >= (high - y) * w) /\ ~ ((low - y) * w >= r * t)
  BY DEF Within, Steeper, Coord
<1>2. /\ w \in Int /\ r \in Int /\ t \in Int /\ y \in Int
      /\ high \in Int /\ low \in Int
  BY DEF Coords
<1>3. Above(a, b, c.x) = y * w + t * r
  BY DEF Above
<1> HIDE DEF w, r, t, y, high, low
<1>4. (high - y) * w = high * w - y * w /\ (low - y) * w = low * w - y * w
  BY <1>2, Distribute
<1>5. r * t = t * r /\ r * t \in Int /\ y * w \in Int /\ high * w \in Int /\ low * w \in Int
  BY <1>2
<1>6. low * w < y * w + t * r /\ y * w + t * r < high * w
  BY <1>1, <1>4, <1>5
<1> QED
  BY <1>3, <1>6 DEF high, low, w

\* the estimate of a stored key against its position
LEMMA EstimateOfStored ==
    ASSUME IInv, Order, Strict, HashableKeys, built, max_error > 0,
           NEW k \in 1 .. Len(data), NEW v \in Estimates(Spline, data[k])
    PROVE  v \in Int /\ k - 1 - max_error <= v /\ v < k - 1 + max_error
<1> DEFINE n == Len(data)
           m == Len(spline_points)
           key == data[k]
           e == GetEstimatedPosition(Spline, key)
           c == Coord(key, k - 1)
<1>1. /\ n \in Nat \ {0} /\ min_key \in Nat /\ max_key \in Nat /\ data \in Inputs
      /\ key \in Nat /\ min_key <= key /\ key <= max_key
      /\ max_error \in Nat \ {0} /\ spline_points \in Seq(Coords)
  BY FinishedPoints, KeysGiven, KeysBetween DEF IInv, Types
<1>2. \A j, l \in 1 .. n : j < l => data[j] < data[l]
  BY DEF HashableKeys
<1>3. e.num \in Nat /\ e.den \in Nat \ {0} /\ v \in Truncations(e)
  BY <1>1, EstimateBounded DEF Estimates
<1>4. CASE key <= min_key
  <2>1. e.num = 0 /\ e.den = 1
    BY <1>1, <1>4, EstimateAtEnds
  <2>2. k = 1
    <3>1. 1 \in 1 .. n /\ ~ (1 < k)
      BY <1>1, <1>2, <1>4 DEF min_key
    <3> QED
      BY <3>1
  <2>3. v \in Nat /\ v <= 0
    BY <1>3, <2>1, TruncationsBetween
  <2> QED
    BY <1>1, <2>2, <2>3
<1>5. CASE min_key < key /\ key >= max_key
  <2>1. e.num = n - 1 /\ e.den = 1
    BY <1>1, <1>5, EstimateAtEnds
  <2>2. k = n
    <3>1. n \in 1 .. n /\ ~ (k < n)
      BY <1>1, <1>2, <1>5 DEF max_key
    <3> QED
      BY <3>1
  <2> HIDE DEF e
  <2>3. v \in Nat /\ (n - 1) - 1 <= v /\ v <= n - 1
    <3>1. n - 1 \in Int /\ (n - 1) * 1 = n - 1
      BY <1>1
    <3> QED
      BY <1>3, <2>1, <3>1, TruncationsBetween
  <2> QED
    BY <1>1, <2>2, <2>3
<1>6. CASE min_key < key /\ key < max_key
  <2>1. PICK l \in 1 .. m - 1 :
            /\ e = Interpolate(spline_points[l], spline_points[l + 1], key)
            /\ spline_points[l].x < key /\ key <= spline_points[l + 1].x
    BY <1>1, <1>6, SegmentOf
  <2> DEFINE a == spline_points[l]
             b == spline_points[l + 1]
  <2>2. l \in 1 .. m /\ l + 1 \in 1 .. m /\ m \in Nat
    BY <1>1
  <2>3. a \in Coords /\ b \in Coords /\ c \in Coords
    <3>1. a \in Coords /\ b \in Coords
      BY <1>1, <2>2, ElementOf
    <3>2. c \in Coords
      BY <1>1 DEF Coords, Coord
    <3> QED
      BY <3>1, <3>2
  <2>4. c \in CdfPoints /\ c.x = key /\ c.y = k - 1
    <3>1. curr_num_keys = n
      BY DEF IInv, Types
    <3>2. k = 1 \/ data[k - 1] # data[k]
      <4>1. SUFFICES ASSUME k > 1 PROVE data[k - 1] # data[k]
        OBVIOUS
      <4>2. k - 1 \in 1 .. n /\ k - 1 < k
        BY <1>1, <4>1
      <4>3. data[k - 1] < data[k]
        BY <1>2, <4>2
      <4>4. data[k - 1] \in Nat /\ data[k] \in Nat
        BY <1>1, <4>2, KeysGiven
      <4> QED
        BY <4>3, <4>4
    <3> QED
      BY <3>1, <3>2 DEF CdfPoints, Coord
  <2>5. LargestKeyUnique
    <3>1. SUFFICES ASSUME n # 1 PROVE data[n - 1] # data[n]
      BY DEF LargestKeyUnique, max_key
    <3>2. n - 1 \in 1 .. n /\ n \in 1 .. n /\ n - 1 < n
      <4>1. n \in Nat \ {0} /\ n # 1
        BY <1>1, <3>1
      <4> HIDE DEF n
      <4> QED
        BY <4>1
    <3>3. data[n - 1] < data[n] /\ data[n - 1] \in Nat /\ data[n] \in Nat
      BY <1>1, <1>2, <3>2, KeysGiven
    <3> QED
      BY <3>3
  <2>6. Within(a, b, c, max_error)
    <3>1. SegmentsWithin(spline_points, CdfPoints, max_error)
      BY <2>5 DEF Strict, ErrorNotReached
    <3>2. a.x <= c.x /\ c.x <= b.x
      <4>1. a.x \in Nat
        BY <2>3 DEF Coords
      <4> QED
        BY <1>1, <2>1, <2>4, <4>1
    <3> QED
      BY <2>4, <3>1, <3>2 DEF SegmentsWithin
  <2>7. e.num = Above(a, b, key) /\ e.den = b.x - a.x
    BY <2>1 DEF Interpolate, Above
  <2> HIDE DEF a, b, c, e
  <2>8. /\ (k - 1 - max_error) * e.den < e.num
        /\ e.num < (k - 1 + max_error) * e.den
    BY <1>1, <2>3, <2>4, <2>6, <2>7, WithinAbove
  <2>9. k - 1 - max_error \in Int /\ k - 1 + max_error \in Int
    BY <1>1
  <2> QED
    BY <1>3, <2>8, <2>9, TruncationsInside
<1> QED
  BY <1>1, <1>4, <1>5, <1>6

\* keys with one estimate are less than two errors apart
Close(f) ==
    \A j, k \in 1 .. Len(data) :
        /\ f[data[j]] \in Int
        /\ f[data[j]] = f[data[k]] => k - j < 2 * max_error

EstimatesClose ==
    (built /\ max_error > 0) =>
        \A lost \in SUBSET MayLose(Spline) : Close(Truncated(Spline, lost))

LEMMA EstimatesAreClose ==
    ASSUME IInv, Order, Strict, HashableKeys
    PROVE  EstimatesClose
<1>1. SUFFICES ASSUME built, max_error > 0, NEW lost \in SUBSET MayLose(Spline),
                      NEW j \in 1 .. Len(data), NEW k \in 1 .. Len(data)
               PROVE  LET f == Truncated(Spline, lost)
                      IN  /\ f[data[j]] \in Int
                          /\ f[data[j]] = f[data[k]] => k - j < 2 * max_error
  BY DEF EstimatesClose, Close
<1> DEFINE v == Truncated(Spline, lost)[data[j]]
           w == Truncated(Spline, lost)[data[k]]
<1>2. v \in Estimates(Spline, data[j]) /\ w \in Estimates(Spline, data[k])
  BY <1>1, TruncatedEstimate
<1> HIDE DEF v, w
<1>3. /\ v \in Int /\ v < j - 1 + max_error
      /\ w \in Int /\ k - 1 - max_error <= w
  BY <1>1, <1>2, EstimateOfStored
<1>4. max_error \in Nat
  BY DEF IInv, Types
<1>5. v = w => k - j < 2 * max_error
  BY <1>3, <1>4
<1> QED
  BY <1>3, <1>5 DEF v, w

SizesInv ==
    /\ data \in Inputs /\ max_error \in Nat
    /\ i \in Nat
    /\ max_error > 0 =>
          /\ pc # "spline" => Close(est)
          /\ last_p \in Int /\ counts \in Seq(Nat)
          /\ \A b \in 1 .. Len(counts) : counts[b] <= 2 * max_error

LEMMA SizesKept ==
    ASSUME SizesInv,
           UNCHANGED <<data, max_error, pc, est, i, last_p, counts>>
    PROVE  SizesInv'
<1>1. Close(est)' <=> Close(est)
  BY DEF Close
<1> QED
  BY <1>1 DEF SizesInv

\* a finished scan stays finished, whatever is built from its counts
LEMMA SizesAfterScan ==
    ASSUME SizesInv, pc # "spline", pc' # "spline",
           UNCHANGED <<data, max_error, est, i, last_p, counts>>
    PROVE  SizesInv'
<1>1. Close(est)' <=> Close(est)
  BY DEF Close
<1> QED
  BY <1>1 DEF SizesInv

LEMMA SizesOfScan ==
    ASSUME SizesInv, Hash!ScanRound, UNCHANGED vars
    PROVE  SizesInv'
<1> DEFINE n == Len(data)
<1>1. /\ pc = "scan" /\ pc' = "scan" /\ i < n /\ est' = est
      /\ data' = data /\ max_error' = max_error /\ last_p' = Hash!E(i)
      /\ Hash!ScanBucket \/ UNCHANGED <<i, counts>>
      /\ data \in Inputs /\ max_error \in Nat /\ i \in Nat
  BY DEF Hash!ScanRound, Hash!N, vars, params, SizesInv
<1>2. SUFFICES /\ i' \in Nat
               /\ max_error > 0 =>
                     /\ last_p' \in Int /\ counts' \in Seq(Nat)
                     /\ \A b \in 1 .. Len(counts') : counts'[b] <= 2 * max_error
  <2>1. Close(est)' <=> Close(est)
    BY <1>1 DEF Close
  <2> QED
    BY <1>1, <2>1 DEF SizesInv
<1>3. n \in Nat
  BY <1>1, KeysGiven
<1>4. max_error > 0 => Close(est) /\ Hash!E(i) \in Int
  <2>1. SUFFICES ASSUME max_error > 0 PROVE Close(est) /\ Hash!E(i) \in Int
    OBVIOUS
  <2>2. Close(est) /\ i + 1 \in 1 .. n
    BY <1>1, <1>3, <2>1 DEF SizesInv
  <2> QED
    BY <2>2 DEF Close, Hash!E
<1>5. CASE UNCHANGED <<i, counts>>
  BY <1>1, <1>4, <1>5 DEF SizesInv
<1>6. CASE Hash!ScanBucket
  <2>1. PICK j \in i + 1 .. n :
            /\ Hash!IsRun(j, Hash!E(i))
            /\ counts' = (counts \o Hash!EmptyBuckets(Hash!E(i))) \o <<j - i>>
            /\ i' = j
    BY <1>6 DEF Hash!ScanBucket, Hash!N
  <2>2. j \in Nat /\ i + 1 <= j /\ j <= n
    BY <1>1, <1>3, <2>1
  <2> SUFFICES ASSUME max_error > 0
               PROVE  /\ counts' \in Seq(Nat)
                      /\ \A b \in 1 .. Len(counts') : counts'[b] <= 2 * max_error
    BY <1>1, <1>4, <2>1, <2>2
  <2>3. /\ Close(est) /\ Hash!E(i) \in Int /\ last_p \in Int /\ counts \in Seq(Nat)
        /\ \A b \in 1 .. Len(counts) : counts[b] <= 2 * max_error
    BY <1>4 DEF SizesInv
  <2>4. j - i <= 2 * max_error
    <3>1. j - 1 \in i .. j - 1 /\ (j - 1) + 1 = j
      BY <1>1, <2>2
    <3>2. est[data[j]] = est[data[i + 1]]
      <4>1. Hash!E(j - 1) = Hash!E(i)
        BY <2>1, <3>1 DEF Hash!IsRun
      <4> QED
        BY <3>1, <4>1 DEF Hash!E
    <3>3. i + 1 \in 1 .. n /\ j \in 1 .. n
      BY <1>1, <1>3, <2>2
    <3>4. j - (i + 1) < 2 * max_error
      BY <2>3, <3>2, <3>3 DEF Close
    <3> QED
      BY <1>1, <2>2, <3>4
  <2>5. PICK z : z = Hash!EmptyBuckets(Hash!E(i))
    OBVIOUS
  <2>6. z \in Seq(Nat) /\ \A t \in 1 .. Len(z) : z[t] = 0
    <3> DEFINE p == Hash!E(i)
               r == IF p - last_p > 1 THEN p - last_p - 1 ELSE 0
    <3>1. z = [t \in 1 .. r |-> 0]
      BY <2>5 DEF Hash!EmptyBuckets
    <3>2. r \in Nat
      BY <2>3
    <3> HIDE DEF r
    <3> QED
      BY <3>1, <3>2
  <2>7. /\ counts' \in Seq(Nat)
        /\ Len(counts') = Len(counts) + Len(z) + 1
        /\ \A b \in 1 .. Len(counts) : counts'[b] = counts[b]
        /\ \A b \in Len(counts) + 1 .. Len(counts) + Len(z) :
              counts'[b] = z[b - Len(counts)]
        /\ counts'[Len(counts) + Len(z) + 1] = j - i
    <3>1. j - i \in Nat /\ counts' = (counts \o z) \o <<j - i>>
      BY <1>1, <2>1, <2>2, <2>5
    <3> QED
      BY <2>3, <2>6, <3>1
  <2>8. ASSUME NEW b \in 1 .. Len(counts')
        PROVE  counts'[b] <= 2 * max_error
    <3>1. Len(counts) \in Nat /\ Len(z) \in Nat
      BY <2>3, <2>6
    <3>2. CASE b \in 1 .. Len(counts)
      BY <2>3, <2>7, <3>2
    <3>3. CASE b \in Len(counts) + 1 .. Len(counts) + Len(z)
      <4>1. b - Len(counts) \in 1 .. Len(z)
        BY <3>1, <3>3
      <4>2. counts'[b] = 0
        BY <2>6, <2>7, <3>3, <4>1
      <4> QED
        BY <1>1, <4>2
    <3>4. CASE b = Len(counts) + Len(z) + 1
      BY <2>4, <2>7, <3>4
    <3>5. \/ b \in 1 .. Len(counts) \/ b = Len(counts) + Len(z) + 1
          \/ b \in Len(counts) + 1 .. Len(counts) + Len(z)
      <4> DEFINE x == Len(counts)
                 y == Len(z)
      <4>1. x \in Nat /\ y \in Nat /\ b \in 1 .. x + y + 1
        BY <2>7, <3>1
      <4> HIDE DEF x, y
      <4>2. b \in 1 .. x \/ b = x + y + 1 \/ b \in x + 1 .. x + y
        BY <4>1
      <4> QED
        BY <4>2 DEF x, y
    <3> QED
      BY <3>2, <3>3, <3>4, <3>5
  <2> QED
    BY <2>7, <2>8
<1> QED
  BY <1>1, <1>5, <1>6

LEMMA SizesOfUse ==
    ASSUME SizesInv, EstimatesClose', UseSpline
    PROVE  SizesInv'
<1>1. /\ pc = "spline" /\ pc' = "scan" /\ built' = TRUE
      /\ data' = data /\ max_error' = max_error
      /\ i' = i /\ last_p' = last_p /\ counts' = counts
  BY DEF UseSpline, FinalizeAtEnd, Finalize, params
<1>2. PICK lost \in SUBSET MayLose(Spline') : est' = Truncated(Spline', lost)
  BY DEF UseSpline
<1>3. Hash!KeySet' = Hash!KeySet
  BY <1>1 DEF Hash!KeySet, Hash!N
<1>4. MayLose(Spline)' = MayLose(Spline')
  BY <1>3 DEF MayLose
<1>5. Truncated(Spline, lost)' = est'
  BY <1>2, <1>3 DEF Truncated
<1>6. max_error' > 0 => Close(Truncated(Spline, lost))'
  BY <1>1, <1>2, <1>4 DEF EstimatesClose
<1>7. max_error' > 0 => Close(est)'
  BY <1>5, <1>6 DEF Close
<1> QED
  BY <1>1, <1>7 DEF SizesInv

(***************************************************************************)
(* The error bound of the spline bounds the buckets, if it is not zero.    *)
(***************************************************************************)
THEOREM BucketsTheorem == ComposedSpec => [](max_error > 0 => BucketsBounded)
<1> DEFINE composed == <<vars, hashVars>>
<1>1. ComposedInit => Init /\ HashableKeys /\ SizesInv
  <2> SUFFICES ASSUME ComposedInit PROVE Init /\ HashableKeys /\ SizesInv
    OBVIOUS
  <2>1. /\ Init /\ HashableKeys /\ data \in Inputs /\ max_error \in Nat
        /\ i = 0 /\ last_p = 0 /\ counts = <<>> /\ pc = "spline"
    BY ParametersAssumption DEF ComposedInit, Init, Hash!Init
  <2> QED
    BY <2>1 DEF SizesInv
<1>2. [ComposedNext]_composed => [Next]_vars
  BY ComposedSteps
<1>3. HashableKeys /\ [Next]_vars => HashableKeys'
  BY HashableKept
<1>4. IInv /\ Order /\ Strict /\ HashableKeys => EstimatesClose
  BY EstimatesAreClose
<1>5. SizesInv /\ EstimatesClose' /\ [ComposedNext]_composed => SizesInv'
  <2> SUFFICES ASSUME SizesInv, EstimatesClose', [ComposedNext]_composed
               PROVE  SizesInv'
    OBVIOUS
  <2>1. CASE AddKeyOfData
    <3>1. UNCHANGED <<data, max_error, pc, est, i, last_p, counts>>
      BY <2>1 DEF AddKeyOfData, AddNextKey, AddKey, params, hashVars
    <3> QED
      BY <3>1, SizesKept
  <2>2. CASE UseSpline
    BY <2>2, SizesOfUse
  <2>3. CASE WithSpline(Hash!ScanRound)
    BY <2>3, SizesOfScan DEF WithSpline
  <2>4. CASE WithSpline(Hash!BuildRetrieval) \/ WithSpline(Hash!PushCount)
             \/ WithSpline(Hash!Finish) \/ WithSpline(Hash!Query)
    <3>1. /\ pc # "spline" /\ pc' # "spline"
          /\ UNCHANGED <<data, max_error, est, i, last_p, counts>>
      BY <2>4 DEF WithSpline, Hash!BuildRetrieval, Hash!PushCount, Hash!Finish,
                  Hash!Query, Hash!scanVars, vars, params
    <3> QED
      BY <3>1, SizesAfterScan
  <2>5. CASE UNCHANGED composed
    <3>1. UNCHANGED <<data, max_error, pc, est, i, last_p, counts>>
      BY <2>5 DEF vars, params, hashVars
    <3> QED
      BY <3>1, SizesKept
  <2> QED
    BY <2>1, <2>2, <2>3, <2>4, <2>5 DEF ComposedNext, ComposedConstructor
<1>6. SizesInv => (max_error > 0 => BucketsBounded)
  BY DEF SizesInv, BucketsBounded
<1> QED
  BY <1>1, <1>2, <1>3, <1>4, <1>5, <1>6, Invariance, OrderInvariance,
     StrictInvariance, PTL DEF ComposedSpec, Spec

=============================================================================
