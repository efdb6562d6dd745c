--------------------------------- MODULE PGM ---------------------------------
(***************************************************************************)
(* pgm::PGMIndex: the segments of the keys, and above them levels that     *)
(* segment the first keys of the segments below.  All levels are in one    *)
(* vector, each ends with a sentinel, and levels_offsets says where they   *)
(* start.  Keys equal to the largest key, the sentinel's, are outside of   *)
(* the model: see the README.                                              *)
(***************************************************************************)
EXTENDS OptimalPiecewiseLinearModel

CONSTANTS epsilon_recursive, SentinelKey

ASSUME RecursiveAssumption == epsilon_recursive \in Nat /\ SentinelKey \in Nat

LevelSegment(key, slope, intercept, low) ==
    [key |-> key, slope |-> slope, intercept |-> intercept, low |-> low]

FlatSegment(key, intercept) == LevelSegment(key, [num |-> 0, den |-> 1], intercept, {})

EmptyPGM == [form |-> "pgm", segments |-> <<>>, levels_offsets |-> <<0>>]

\* differences whose product with the slope is whole, and may fall short of it
Wholes(deltas, slope) == {d \in deltas : d * slope.num > 0 /\ (d * slope.num) % slope.den = 0}

\* out_fun of a level over the points with these keys
AddLevelSegment(idx, cs, xs) ==
    LET slope == MeanSlope(cs)
        key == cs.first.x
    IN  {[idx EXCEPT !.segments = Append(@, LevelSegment(key, slope, intercept, low))] :
            intercept \in Intercepts(cs, key),
            low \in SUBSET Wholes({x - key : x \in {y \in xs : y >= key}}, slope)}

(***************************************************************************)
(* The end of a level of last_n points: a flat last segment is followed by *)
(* one for the keys above the last key of all, and the sentinel ends it.   *)
(***************************************************************************)
EndLevel(idx, last_n, lastKey) ==
    LET level == idx.segments
        beyond == IF last_n > 1 /\ level[Len(level)].slope.num = 0
                  THEN <<FlatSegment(lastKey + 1, last_n)>> ELSE <<>>
        all == level \o beyond \o <<FlatSegment(SentinelKey, last_n)>>
    IN  [idx EXCEPT !.segments = all, !.levels_offsets = Append(@, Len(all))]

\* the segments of the level that was built last, without its sentinel
LastLevel(idx) ==
    LET l == Len(idx.levels_offsets)
    IN  SubSeq(idx.segments, idx.levels_offsets[l - 1] + 1, idx.levels_offsets[l] - 1)

height(idx) == Len(idx.levels_offsets) - 1

\* min(segment(key), intercept of the next), segment i from 0 in the vector
LevelRank(idx, i, key) ==
    LET s == idx.segments[i + 1]
        d == key - s.key
        pos == (d * s.slope.num) \div s.slope.den
                   - (IF d \in s.low THEN 1 ELSE 0) + s.intercept
        cap == idx.segments[i + 2].intercept
    IN  IF pos <= 0 THEN 0 ELSE IF pos < cap THEN pos ELSE cap

\* variant that starts at the estimate itself
FirstNoEarlier(idx, level, pos) == idx.levels_offsets[level] + pos

\* where the search in a level starts: PGM_SUB_EPS
FirstCandidate(idx, level, pos) ==
    idx.levels_offsets[level]
        + (IF pos <= epsilon_recursive + 1 THEN 0 ELSE pos - (epsilon_recursive + 1))

\* the first segment from lo on whose successor starts above the key
WalkTo(idx, lo, key) ==
    Min({i \in lo .. Len(idx.segments) - 2 : idx.segments[i + 2].key > key})

(***************************************************************************)
(* segment_for_key: from the only segment of the top level down, each      *)
(* level's estimate gives the place to start from in the level below; or   *)
(* upper_bound over the first level if there is no recursion.              *)
(***************************************************************************)
segment_for_key(idx, key) ==
    LET down[l \in 1 .. height(idx)] ==
            IF l = height(idx) THEN idx.levels_offsets[l]
            ELSE LET above == down[l + 1]
                 IN  WalkTo(idx, FirstCandidate(idx, l, LevelRank(idx, above, key)), key)
    IN  IF epsilon_recursive = 0
        THEN Min({i \in 0 .. idx.levels_offsets[2] - 1 :
                     i = idx.levels_offsets[2] - 1 \/ idx.segments[i + 1].key > key}) - 1
        ELSE down[1]

\* approximate_rank
PGMRank(idx, first_key, key) ==
    LET from == IF key < first_key THEN first_key ELSE key
    IN  LevelRank(idx, segment_for_key(idx, from), from)

\* for_each moves on at most once per key
PGMAdvance(idx, i, key) == IF key >= idx.segments[i + 2].key THEN i + 1 ELSE i
=============================================================================
