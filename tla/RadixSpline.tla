---------------------------- MODULE RadixSpline ----------------------------
(***************************************************************************)
(* The read-only half of extlib/RadixSpline: what a finished               *)
(* rs::RadixSpline answers.  A spline is a record with the fields of the   *)
(* class; spline_points is a 1-based sequence of coordinates [x, y] and    *)
(* the radix table maps a prefix to a 0-based index into it, as in the     *)
(* code.  Positions are exact rationals: an estimate is kept as            *)
(* numerator / denominator until a caller truncates it.                    *)
(***************************************************************************)
EXTENDS Integers, Sequences, FiniteSets

CONSTANT LinearSearchLimit  \* narrowed ranges shorter than this are scanned

ASSUME LinearSearchLimitAssumption == LinearSearchLimit \in Nat

\* `diff >> bits` on unsigned integers.
ShiftRight(n, bits) == n \div 2^bits

Prefix(s, key) == ShiftRight(key - s.min_key, s.num_shift_bits)

\* spline_points_[index].x with the 0-based index of the code
PointX(s, index) == s.spline_points[index + 1].x

(***************************************************************************)
(* The two ways to search the narrowed range.  The linear scan has no      *)
(* upper end; std::lower_bound returns `end` when it finds nothing.        *)
(***************************************************************************)
LeastIndex(I) == CHOOSE i \in I : \A j \in I : i <= j

LinearScan(s, begin, key) ==
    LeastIndex({i \in begin .. Len(s.spline_points) - 1 : PointX(s, i) >= key})

BinarySearch(s, begin, end, key) ==
    LeastIndex({i \in begin .. end - 1 : PointX(s, i) >= key} \cup {end})

GetSplineSegment(s, key) ==
    LET begin == s.radix_table[Prefix(s, key)]
        end   == s.radix_table[Prefix(s, key) + 1]
    IN  IF end - begin < LinearSearchLimit
        THEN LinearScan(s, begin, key)
        ELSE BinarySearch(s, begin, end, key)

(***************************************************************************)
(* GetEstimatedPosition as a fraction [num, den], den > 0.                 *)
(***************************************************************************)
\* variant that starts from the wrong end of the segment
InterpolateFromUp(down, up, key) ==
    [num |-> up.y * (up.x - down.x) + (key - down.x) * (up.y - down.y),
     den |-> up.x - down.x]

Interpolate(down, up, key) ==
    [num |-> down.y * (up.x - down.x) + (key - down.x) * (up.y - down.y),
     den |-> up.x - down.x]

GetEstimatedPosition(s, key) ==
    IF key <= s.min_key THEN [num |-> 0, den |-> 1]
    ELSE IF key >= s.max_key THEN [num |-> s.num_keys - 1, den |-> 1]
    ELSE LET index == GetSplineSegment(s, key)
         IN  Interpolate(s.spline_points[index], s.spline_points[index + 1], key)

(***************************************************************************)
(* The conversion to size_t every caller applies.  The code computes       *)
(* slope = y_diff / x_diff in double precision and then one fma: at an     *)
(* integral value the rounded slope can leave the result just below the    *)
(* integer, so the truncation may lose one there.                          *)
(***************************************************************************)
MayLoseOne(e) == e.den > 1 /\ e.num % e.den = 0 /\ e.num > 0

Truncations(e) == {e.num \div e.den} \cup
                  {v \in {e.num \div e.den - 1} : MayLoseOne(e)}

\* Every estimate the build may hand to a caller for this key.
Estimates(s, key) == Truncations(GetEstimatedPosition(s, key))

\* variant whose end forgets that it is exclusive and that estimates truncate
BoundAroundNarrow(s, estimate) ==
    [begin |-> IF estimate < s.max_error THEN 0 ELSE estimate - s.max_error,
     end   |-> IF estimate + s.max_error > s.num_keys
               THEN s.num_keys ELSE estimate + s.max_error]

\* The search bound [begin, end) around one estimate.
BoundAround(s, estimate) ==
    [begin |-> IF estimate < s.max_error THEN 0 ELSE estimate - s.max_error,
     end   |-> IF estimate + s.max_error + 2 > s.num_keys
               THEN s.num_keys ELSE estimate + s.max_error + 2]

SearchBounds(s, key) == {BoundAround(s, e) : e \in Estimates(s, key)}

=============================================================================
