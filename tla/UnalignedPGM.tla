----------------------------- MODULE UnalignedPGM -----------------------------
(***************************************************************************)
(* pgm::UnalignedPGMIndex, and the same code in pgm::PolymorphicPGMIndex:  *)
(* lines with float slopes, packed into words of memory, or into the       *)
(* pointer itself when there is one segment.  Slopes are exact rationals;  *)
(* a product that should lie half way between two integers, or on one, may *)
(* have been rounded below it, which is chosen per segment as the set      *)
(* `low` of key differences.                                               *)
(***************************************************************************)
EXTENDS OptimalPiecewiseLinearModel

CONSTANTS OneSegmentKeys,       \* 2^10: below so many keys one segment may be inlined
          OneSegmentIntercept,  \* 2^20 or 2^19: and its intercept is smaller
          LinearSegments        \* 8: up to so many segments are searched linearly

ASSUME OneSegmentAssumption == /\ OneSegmentKeys \in Nat
                               /\ OneSegmentIntercept \in Nat
                               /\ LinearSegments \in Nat

\* std::round, half away from zero, of a product that is not negative
Round(delta, slope, low) ==
    LET num == delta * slope.num
    IN  IF (2 * num) % (2 * slope.den) = slope.den
        THEN num \div slope.den + (IF delta \in low THEN 0 ELSE 1)
        ELSE (2 * num + slope.den) \div (2 * slope.den)

\* the key differences whose product lies half way
Ties(deltas, slope) ==
    {d \in deltas : (2 * d * slope.num) % (2 * slope.den) = slope.den}

\* variant that limits from the wrong side
Larger(a, b) == IF a <= b THEN b ELSE a

\* std::min
Lesser(a, b) == IF a <= b THEN a ELSE b

\* the vector of segments before the segmentation
Unaligned(n) == [form |-> "unaligned", segments |-> <<>>, first_segment |-> <<>>,
                 after_last |-> 0, n |-> n]

(***************************************************************************)
(* out_fun: the segment ends with point p.  It starts no later than right  *)
(* behind the last rank of the segment before.                             *)
(***************************************************************************)
AddUnaligned(idx, cs, p, xs) ==
    LET slope == MeanSlope(cs)
        key == cs.first.x
    IN  {LET intercept == Lesser(idx.after_last, fit)
         IN  [idx EXCEPT
                !.segments = Append(@, [key |-> key, slope |-> slope,
                                        intercept |-> intercept, low |-> low]),
                !.first_segment = IF @ = <<>> THEN <<cs>> ELSE @,
                !.after_last = Round(p.x - key, slope, low) + intercept + 1] :
            fit \in Intercepts(cs, key),
            low \in SUBSET Ties({x - key : x \in {y \in xs : y >= key}}, slope)}

\* a last segment with nothing but the last key is dropped
WithoutLastKey(idx, lastKey) ==
    LET m == Len(idx.segments)
    IN  IF m > 1 /\ idx.segments[m].key = lastKey
        THEN [idx EXCEPT !.segments = SubSeq(@, 1, m - 1)] ELSE idx

\* the inlined forms a single segment may take: its line from key 0
OneSegments(idx, xs) ==
    LET slope == MeanSlope(idx.first_segment[1])
    IN  IF Len(idx.segments) # 1 \/ idx.n >= OneSegmentKeys THEN {}
        ELSE {[form |-> "one", n |-> idx.n,
               line |-> [key |-> 0, slope |-> slope, intercept |-> i, low |-> low]] :
                 i \in {j \in Intercepts(idx.first_segment[1], 0) :
                           - OneSegmentIntercept < j /\ j < OneSegmentIntercept},
                 low \in SUBSET Ties(xs, slope)}

\* the numbers of segments and of ranks written to memory
UnalignedSize(idx) ==
    IF idx.form = "one" THEN idx.n ELSE Lesser(idx.n, idx.after_last)

next_intercept(idx, i) ==
    IF i < Len(idx.segments) THEN idx.segments[i + 1].intercept ELSE UnalignedSize(idx)

\* variant without the cap
RankOnUncapped(segment, key, cap) ==
    LET pos == Round(key - segment.key, segment.slope, segment.low) + segment.intercept
    IN  IF pos > 0 THEN pos ELSE 0

\* the rank on a line, below cap; cap - 1 is unsigned
RankOn(segment, key, cap) ==
    LET pos == Round(key - segment.key, segment.slope, segment.low) + segment.intercept
        rank == IF pos > 0 THEN pos ELSE 0
    IN  IF cap = 0 THEN rank ELSE Lesser(rank, cap - 1)

\* the binary search: among `count` segments from the i-th on
BinarySearch(idx, key) ==
    LET search[i \in 1 .. Len(idx.segments), count \in 0 .. Len(idx.segments)] ==
            LET mid == i + count \div 2
            IN  IF count = 0 THEN i
                ELSE IF key >= idx.segments[mid + 1].key
                     THEN search[mid + 1, count - (count \div 2 + 1)]
                     ELSE search[i, count \div 2]
    IN  search[1, Len(idx.segments) - 1]

\* the linear search
LinearSearch(idx, key) ==
    Min({i \in 1 .. Len(idx.segments) :
            i = Len(idx.segments) \/ key < idx.segments[i + 1].key})

\* approximate_rank: the segment found, from 1, is the one to use
UnalignedRank(idx, key) ==
    IF idx.form = "one" THEN RankOn(idx.line, key, idx.n)
    ELSE IF key < idx.segments[1].key THEN 0
    ELSE LET i == IF Len(idx.segments) > LinearSegments
                  THEN BinarySearch(idx, key) ELSE LinearSearch(idx, key)
         IN  RankOn(idx.segments[i], key, next_intercept(idx, i))

\* variant that does not move on in for_each
UnalignedAdvanceNever(idx, i, key) == i

\* for_each moves on to the next segment, i from 0, at most once per key
UnalignedAdvance(idx, i, key) ==
    IF /\ idx.form = "unaligned"
       /\ i + 1 # Len(idx.segments)
       /\ key >= idx.segments[i + 2].key
    THEN i + 1 ELSE i

\* the rank for_each hands over from segment i
UnalignedAt(idx, i, key) ==
    IF idx.form = "one" THEN RankOn(idx.line, key, idx.n)
    ELSE IF key < idx.segments[1].key THEN 0
    ELSE RankOn(idx.segments[i + 1], key, next_intercept(idx, i + 1))
-----------------------------------------------------------------------------
\* the memory behind the pointer of an index that is not inlined, in bits
Width(v) == CHOOSE w \in 1 .. 31 : 2 ^ w > v /\ (w = 1 \/ 2 ^ (w - 1) <= v)

first_key_bits == 64
bit_width_bits == 6
slope_bits == 32

key_bits(idx) ==
    Width(idx.segments[Len(idx.segments)].key - idx.segments[1].key
              - (Len(idx.segments) - 1))

size_bits(idx) == Width(idx.n - 1)

\* variant that forgets that the intercepts are stored minus their number
intercept_bits_first(idx) == Width(idx.segments[1].intercept)

intercept_bits(idx) == Width(idx.segments[Len(idx.segments)].intercept
                                 - (Len(idx.segments) - 1))

segment_bits(idx) == key_bits(idx) + slope_bits + intercept_bits(idx)

\* segments_offset in metadata(): where the first segment begins
SegmentsOffset(idx) == first_key_bits + 3 * bit_width_bits + 2 * size_bits(idx)

\* what the constructor writes
BitsWritten(idx) ==
    SegmentsOffset(idx) + segment_bits(idx) * Len(idx.segments) - key_bits(idx)

\* words_needed, with the number of bit widths it makes room for
words_needed(idx, widths) ==
    (first_key_bits + widths * bit_width_bits + 2 * size_bits(idx)
        + segment_bits(idx) * Len(idx.segments) - key_bits(idx) + 63) \div 64

\* every number is written in as many bits as it has
NumbersFit(idx) ==
    /\ UnalignedSize(idx) \in 1 .. 2 ^ size_bits(idx)
    /\ Len(idx.segments) \in 1 .. 2 ^ size_bits(idx)
    /\ \A i \in 1 .. Len(idx.segments) :
          /\ idx.segments[i].key - idx.segments[1].key - (i - 1) < 2 ^ key_bits(idx)
          /\ idx.segments[i].intercept - (i - 1) \in 0 .. 2 ^ intercept_bits(idx) - 1
=============================================================================
