----------------------------- MODULE SuccinctPGM -----------------------------
(***************************************************************************)
(* pgm::SuccinctPGMIndex and its three storages of points, as operators on *)
(* the record of what they store: the last keys and ranks of the segments, *)
(* relative to the first key, and for each segment how far its line is off *)
(* these ranks at its two ends.                                            *)
(***************************************************************************)
EXTENDS OptimalPiecewiseLinearModel

\* the division of C++
Quotient(a, b) == IF a >= 0 THEN a \div b ELSE - ((- a) \div b)

bit_width(v) == CHOOSE w \in 0 .. 31 : 2 ^ w > v /\ (w = 0 \/ 2 ^ (w - 1) <= v)

yshift_bit_width(epsilon) == bit_width(2 * epsilon)

\* the line through (x0, y0) and (x1, y1) at k
evaluate(k, x0, x1, y0, y1) == y0 + Quotient((k - x0) * (y1 - y0), x1 - x0)

\* xs_data, ys_data and yshifts_data before the segmentation
Succinct(first_key, skip_first, epsilon) ==
    [form |-> "succinct", first |-> first_key, epsilon |-> epsilon,
     xs |-> <<0>>, ys |-> <<skip_first>>, yshifts |-> <<>>]

\* how far the steepest line of the segment is below a point, from epsilon
Shift(cs, p, epsilon) ==
    p.y - evaluate(p.x, cs.rectangle[2].x, cs.rectangle[4].x,
                   cs.rectangle[2].y, cs.rectangle[4].y) + epsilon

\* "Unexpected shift > epsilon"; a negative shift wraps to a large one
ShiftFits(s, epsilon) == s >= 0 /\ bit_width(s) <= yshift_bit_width(epsilon)

SegmentFits(idx, cs, p) == /\ ShiftFits(Shift(cs, cs.first, idx.epsilon), idx.epsilon)
                           /\ ShiftFits(Shift(cs, p, idx.epsilon), idx.epsilon)

\* out_fun, for a segment that ends with point p
AddSuccinct(idx, cs, p) ==
    [idx EXCEPT !.xs = Append(@, p.x - idx.first), !.ys = Append(@, p.y),
                !.yshifts = @ \o <<Shift(cs, cs.first, idx.epsilon),
                                   Shift(cs, p, idx.epsilon)>>]

\* what is loaded into the storage
LoadSuccinct(idx, n) == [idx EXCEPT !.ys = Append(@, n), !.yshifts = Append(@, idx.epsilon)]

\* size() of the index, from the storage of the ys
SuccinctSize(idx) == idx.ys[Len(idx.ys)]

segments_count(idx) == Len(idx.xs) - 1

\* segment i, from 0: get_ys, or operator* of the iterator
SuccinctSegment(idx, i) ==
    LET shift(j) == idx.yshifts[j + 1] - idx.epsilon
    IN  [x0 |-> idx.xs[i + 1], x1 |-> idx.xs[i + 2],
         y0 |-> idx.ys[i + 1] - shift(2 * i), y1 |-> idx.ys[i + 2] - shift(2 * i + 1),
         y2 |-> idx.ys[i + 2] - shift(2 * i + 2)]

\* variant that takes the segment that ends with the key
EFSegmentForKeyBefore(idx, delta) ==
    Max({0} \cup {i \in 0 .. segments_count(idx) - 1 : idx.xs[i + 1] < delta})

\* EFPointsStorage: the predecessor, or the last segment
EFSegmentForKey(idx, delta) ==
    IF delta >= idx.xs[Len(idx.xs)] THEN segments_count(idx) - 1
    ELSE Max({i \in 0 .. segments_count(idx) - 1 : idx.xs[i + 1] <= delta})

\* EFPointsStorageV2: from the first point not below the key
EFV2SegmentForKey(idx, delta) ==
    LET next_geq == Min({i \in 0 .. Len(idx.xs) - 1 : idx.xs[i + 1] >= delta}
                            \cup {Len(idx.xs)})
    IN  IF next_geq >= Len(idx.xs) - 1 THEN Len(idx.xs) - 2
        ELSE IF idx.xs[next_geq + 1] # delta /\ next_geq > 0 THEN next_geq - 1
        ELSE next_geq

\* EFSequentialPointsStorage: a step back from the first point above the key
SequentialSegmentForKey(idx, delta) ==
    Min({i \in 1 .. Len(idx.xs) - 1 : i + 1 >= Len(idx.xs) \/ idx.xs[i + 1] > delta}) - 1

\* the rank on the line of a segment, below where the next one starts; both are
\* unsigned: what is negative wraps to a large number
OnSegment(s, delta) ==
    LET eval == evaluate(delta, s.x0, s.x1, s.y0, s.y1)
        cap == s.y2 - 1
    IN  IF eval < 0 \/ cap \in 0 .. eval THEN cap ELSE eval

\* approximate_rank with each storage
SuccinctRank(idx, storage, key) ==
    LET delta == key - idx.first
        i == CASE storage = "EF" -> EFSegmentForKey(idx, delta)
               [] storage = "EFV2" -> EFV2SegmentForKey(idx, delta)
               [] storage = "EFSequential" -> SequentialSegmentForKey(idx, delta)
    IN  IF key < idx.first THEN 0 ELSE OnSegment(SuccinctSegment(idx, i), delta)

\* for_each moves on to the next segment at most once per key
SuccinctAdvance(idx, i, key) ==
    IF /\ key >= idx.first + SuccinctSegment(idx, i).x1
       /\ i # segments_count(idx) - 1
    THEN i + 1 ELSE i

\* the rank for_each hands over from segment i
SuccinctAt(idx, i, key) ==
    IF key < idx.first THEN 0 ELSE OnSegment(SuccinctSegment(idx, i), key - idx.first)
=============================================================================
