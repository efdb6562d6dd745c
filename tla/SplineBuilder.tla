---------------------------- MODULE SplineBuilder ----------------------------
(***************************************************************************)
(* rs::Builder (extlib/RadixSpline/include/rs/builder.h): one pass over    *)
(* the sorted keys that keeps a greedy spline corridor and fills the radix *)
(* table as spline points appear.  A behaviour is one construction:        *)
(* AddKey for every key of `data`, then Finalize.  Coordinates are exact   *)
(* integers (the doubles of the code hold integers below 2^53 exactly), and *)
(* an orientation is the sign of the cross product.                        *)
(***************************************************************************)
EXTENDS RadixSpline

CONSTANTS KeyBits,          \* width of KeyType
          Inputs,           \* key sequences a construction may be given
          MaxErrors,        \* values of the max_error parameter
          RadixBits,        \* values of the num_radix_bits parameter
          UndefinedShifts   \* what GetNumShiftBits may return for diff = 0

ASSUME KeyBitsAssumption == KeyBits \in Nat
\* arithmetic the shifts rest on
ASSUME PowersAssumption == \A b \in 0 .. KeyBits : 2^b \in Nat \ {0}
\* the builder is only given sorted keys
ASSUME InputsAssumption ==
    \A d \in Inputs : /\ d \in Seq(0 .. 2^KeyBits - 1) /\ d # <<>>
                      /\ \A i, j \in 1 .. Len(d) : i <= j => d[i] <= d[j]
ASSUME ParametersAssumption == /\ MaxErrors \subseteq Nat
                               /\ RadixBits \subseteq Nat \ {0}
                               /\ UndefinedShifts \subseteq 0 .. KeyBits

VARIABLES
    data,                      \* the keys, in the order they are added
    num_shift_bits, max_error, \* fixed by the constructor
    curr_num_keys, curr_num_distinct_keys,
    prev_key, prev_position, prev_prefix,
    radix_table, spline_points,
    upper_limit, lower_limit,  \* current corridor, as coordinates
    prev_point,                \* previous point of the CDF
    built                      \* Finalize has returned

cdf    == <<curr_num_keys, curr_num_distinct_keys, prev_key, prev_position,
            prev_point>>
spline == <<spline_points, radix_table, prev_prefix>>
limits == <<upper_limit, lower_limit>>
params == <<data, num_shift_bits, max_error>>
vars   == <<params, cdf, spline, limits, built>>

min_key == data[1]
max_key == data[Len(data)]

Coord(x, y) == [x |-> x, y |-> y]

\* spline_points_.back()
LastPoint == spline_points[Len(spline_points)]

\* 64 - __builtin_clzl(n) for n > 0
BitWidth(n) == Cardinality({b \in 0 .. KeyBits - 1 : 2^b <= n})

(***************************************************************************)
(* __builtin_clzl(0) is undefined, so a single distinct key may give any   *)
(* shift.                                                                  *)
(***************************************************************************)
GetNumShiftBits(diff, bits) ==
    IF diff = 0 THEN UndefinedShifts
    ELSE {IF BitWidth(diff) < bits THEN 0 ELSE BitWidth(diff) - bits}

Init ==
    /\ data \in Inputs
    /\ max_error \in MaxErrors
    /\ \E bits \in RadixBits :
          num_shift_bits \in GetNumShiftBits(max_key - min_key, bits)
    /\ curr_num_keys = 0
    /\ curr_num_distinct_keys = 0
    /\ prev_key = min_key
    /\ prev_position = 0
    /\ prev_prefix = 0
    /\ radix_table =
          [p \in 0 .. ShiftRight(max_key - min_key, num_shift_bits) + 1 |-> 0]
    /\ spline_points = <<>>
    /\ upper_limit = Coord(0, 0)
    /\ lower_limit = Coord(0, 0)
    /\ prev_point = Coord(0, 0)
    /\ built = FALSE

-----------------------------------------------------------------------------
(***************************************************************************)
(* ComputeOrientation of (dx1, dy1) and (dx2, dy2): the second vector      *)
(* turns clockwise from the first when it is less steep.                   *)
(***************************************************************************)
ComputeOrientation(dx1, dy1, dx2, dy2) ==
    LET expr == dy1 * dx2 - dy2 * dx1
    IN  IF expr > 0 THEN "CW" ELSE IF expr < 0 THEN "CCW" ELSE "Collinear"

\* Orientation, seen from the last spline point, of `to` against `from`.
Turn(from, to) ==
    ComputeOrientation(from.x - LastPoint.x, from.y - LastPoint.y,
                       to.x - LastPoint.x, to.y - LastPoint.y)

Upper(key, position) == Coord(key, position + max_error)
Lower(key, position) ==
    Coord(key, IF position < max_error THEN 0 ELSE position - max_error)

\* variant that points one past the new spline point
TableWithOffByOne(points, key) ==
    LET curr_prefix == ShiftRight(key - min_key, num_shift_bits)
    IN  [p \in DOMAIN radix_table |->
            IF prev_prefix < p /\ p <= curr_prefix
            THEN Len(points) ELSE radix_table[p]]

\* PossiblyAddKeyToRadixTable once points has the new point at its end.
TableWith(points, key) ==
    LET curr_prefix == ShiftRight(key - min_key, num_shift_bits)
    IN  [p \in DOMAIN radix_table |->
            IF prev_prefix < p /\ p <= curr_prefix
            THEN Len(points) - 1 ELSE radix_table[p]]

AddKeyToSpline(point) ==
    /\ spline_points' = Append(spline_points, point)
    /\ radix_table' = TableWith(spline_points', point.x)
    /\ prev_prefix' = ShiftRight(point.x - min_key, num_shift_bits)

SetLimits(key, position) ==
    /\ upper_limit' = Upper(key, position)
    /\ lower_limit' = Lower(key, position)

\* variant that only tests the upper side
CutsUpperOnly(key, position) == Turn(upper_limit, Coord(key, position)) # "CW"

CutsCorridor(key, position) ==
    \/ Turn(upper_limit, Coord(key, position)) # "CW"
    \/ Turn(lower_limit, Coord(key, position)) # "CCW"

-----------------------------------------------------------------------------
(***************************************************************************)
(* The cases of PossiblyAddKeyToSpline, in the order the code tests them.  *)
(***************************************************************************)
FirstKey(key, position) ==
    /\ curr_num_keys = 0
    /\ AddKeyToSpline(Coord(key, position))
    /\ curr_num_distinct_keys' = curr_num_distinct_keys + 1
    /\ prev_point' = Coord(key, position)
    /\ UNCHANGED limits

DuplicateKey(key, position) ==
    /\ curr_num_keys > 0
    /\ key = prev_key
    /\ UNCHANGED <<spline, limits, curr_num_distinct_keys, prev_point>>

\* variant that forgets to remember the CDF point
NewKeyForgotten(key, position) ==
    /\ curr_num_keys > 0
    /\ key # prev_key
    /\ curr_num_distinct_keys' = curr_num_distinct_keys + 1
    /\ prev_point' = prev_point

NewDistinctKey(key, position) ==
    /\ curr_num_keys > 0
    /\ key # prev_key
    /\ curr_num_distinct_keys' = curr_num_distinct_keys + 1
    /\ prev_point' = Coord(key, position)

SecondKey(key, position) ==
    /\ NewDistinctKey(key, position)
    /\ curr_num_distinct_keys' = 2
    /\ SetLimits(key, position)
    /\ UNCHANGED spline

CutCorridor(key, position) ==
    /\ NewDistinctKey(key, position)
    /\ curr_num_distinct_keys' > 2
    /\ CutsCorridor(key, position)
    /\ AddKeyToSpline(prev_point)
    /\ SetLimits(key, position)

\* variant that replaces the limits even where that widens the corridor
ReplaceCorridor(key, position) ==
    /\ NewDistinctKey(key, position)
    /\ curr_num_distinct_keys' > 2
    /\ ~ CutsCorridor(key, position)
    /\ SetLimits(key, position)
    /\ UNCHANGED spline

TightenCorridor(key, position) ==
    /\ NewDistinctKey(key, position)
    /\ curr_num_distinct_keys' > 2
    /\ ~ CutsCorridor(key, position)
    /\ upper_limit' = IF Turn(upper_limit, Upper(key, position)) = "CW"
                      THEN Upper(key, position) ELSE upper_limit
    /\ lower_limit' = IF Turn(lower_limit, Lower(key, position)) = "CCW"
                      THEN Lower(key, position) ELSE lower_limit
    /\ UNCHANGED spline

\* AddKey(key): the next key is stored one position after the previous one.
NextPosition == IF curr_num_keys = 0 THEN 0 ELSE prev_position + 1

AddKey(key) ==
    LET position == NextPosition
    IN  /\ ~ built
        /\ \/ FirstKey(key, position)
           \/ DuplicateKey(key, position)
           \/ SecondKey(key, position)
           \/ CutCorridor(key, position)
           \/ TightenCorridor(key, position)
        /\ curr_num_keys' = curr_num_keys + 1
        /\ prev_key' = key
        /\ prev_position' = position
        /\ UNCHANGED <<params, built>>

(***************************************************************************)
(* Finalize: the last key becomes the last spline point, and the table     *)
(* entries of prefixes no spline point has reached point past the end.     *)
(***************************************************************************)
FinalPoints ==
    IF LastPoint.x # prev_key
    THEN Append(spline_points, Coord(prev_key, prev_position))
    ELSE spline_points

Finalize ==
    LET filled  == IF FinalPoints = spline_points THEN radix_table
                   ELSE TableWith(FinalPoints, prev_key)
        reached == IF FinalPoints = spline_points THEN prev_prefix
                   ELSE ShiftRight(prev_key - min_key, num_shift_bits)
    IN  /\ ~ built
        /\ spline_points' = FinalPoints
        /\ radix_table' = [p \in DOMAIN filled |->
                              IF p > reached THEN Len(FinalPoints) ELSE filled[p]]
        /\ prev_prefix' = Cardinality(DOMAIN radix_table)
        /\ built' = TRUE
        /\ UNCHANGED <<params, cdf, limits>>

\* assert(key >= prev_key_): a construction from unsorted keys stops there
AddNextKey == /\ curr_num_keys < Len(data)
              /\ data[curr_num_keys + 1] >= prev_key
              /\ AddKey(data[curr_num_keys + 1])

FinalizeAtEnd == /\ curr_num_keys = Len(data)
                 /\ Finalize

\* A finished spline is immutable: lookups only read it.
Lookup == /\ built
          /\ UNCHANGED vars

Next == AddNextKey \/ FinalizeAtEnd \/ Lookup

Spec == Init /\ [][Next]_vars

-----------------------------------------------------------------------------
\* The object Finalize returns.
Spline == [min_key |-> min_key, max_key |-> max_key, num_keys |-> curr_num_keys,
           num_shift_bits |-> num_shift_bits, max_error |-> max_error,
           radix_table |-> radix_table, spline_points |-> spline_points]

\* The distinct keys added so far, each at the position of its first copy.
CdfPoints ==
    {Coord(data[i], i - 1) : i \in {j \in 1 .. curr_num_keys :
                                       j = 1 \/ data[j - 1] # data[j]}}

(***************************************************************************)
(* None of the assertions in AddKey, PossiblyAddKeyToSpline and Finalize   *)
(* can fail on sorted keys, duplicates included: whatever was added        *)
(* before, the limits and the next key lie right of the last spline point  *)
(* and not below it, and the candidate is a point of its own.              *)
(***************************************************************************)
AssertionsHold ==
    LET key      == data[curr_num_keys + 1]
        position == NextPosition
    IN  /\ (~ built /\ curr_num_keys < Len(data)) =>
              /\ key >= prev_key
              /\ position = 0 \/ position > prev_position
              /\ (curr_num_distinct_keys >= 2 /\ key # prev_key) =>
                    /\ upper_limit.x >= LastPoint.x /\ lower_limit.x >= LastPoint.x
                    /\ key >= LastPoint.x
                    /\ upper_limit.y >= LastPoint.y /\ position >= LastPoint.y
                    /\ prev_point.x # LastPoint.x
                    /\ ~ CutsCorridor(key, position) =>
                          Upper(key, position).y >= LastPoint.y
        /\ curr_num_keys = Len(data) => prev_key = max_key

(***************************************************************************)
(* The corridor is sound: every ray from the last spline point that runs   *)
(* between the limits passes within max_error of every CDF point it        *)
(* crosses.  This is what lets the builder forget those points.            *)
(***************************************************************************)
CorridorSound ==
    (~ built /\ curr_num_distinct_keys >= 2) =>
        \A c \in CdfPoints :
            c.x > LastPoint.x =>
                /\ Turn(Coord(c.x, c.y + max_error), upper_limit) # "CCW"
                /\ Turn(Coord(c.x, c.y - max_error), lower_limit) # "CW"

(***************************************************************************)
(* The guarantee of the spline: at every distinct key below the maximum    *)
(* the interpolated position is within max_error of the key's first        *)
(* position.                                                               *)
(***************************************************************************)
ErrorBound ==
    built => \A c \in CdfPoints :
        c.x < max_key =>
            LET e == GetEstimatedPosition(Spline, c.x)
            IN  /\ e.num <= (c.y + max_error) * e.den
                /\ e.num >= (c.y - max_error) * e.den

(***************************************************************************)
(* The radix table never changes an answer: for every key strictly between *)
(* the bounds, stored or not, the narrowed search finds the first spline   *)
(* point at or above it, as a search of all points would.                  *)
(***************************************************************************)
RadixTableExact ==
    built => \A key \in min_key + 1 .. max_key - 1 :
        LET segment == LeastIndex({i \in 0 .. Len(spline_points) - 1 :
                                      PointX(Spline, i) >= key})
        IN  /\ radix_table[Prefix(Spline, key)] <= segment
            /\ GetSplineSegment(Spline, key) = segment

(***************************************************************************)
(* BoundContains of radix_spline_test.cc for every stored key: its         *)
(* lower_bound over [begin, end) may also stop at `end` itself.  The test  *)
(* expects it of skewed keys with any duplicates.                          *)
(***************************************************************************)
BoundContainsEveryKey ==
    built => \A i \in 1 .. Len(data) : \A b \in SearchBounds(Spline, data[i]) :
        \E j \in 1 .. Len(data) :
            data[j] = data[i] /\ b.begin <= j - 1 /\ j - 1 <= b.end
=============================================================================
