---------------------------- MODULE LeMonHashPGM ----------------------------
(***************************************************************************)
(* LeMonHash with the bucket mappers it is really used with.  Their        *)
(* constructors run make_segmentation_mod over the keys, one key at a      *)
(* time, and hand every finished segment to the index under construction;  *)
(* bucketOf(begin, end, f) is for_each of the index, whose place among the *)
(* segments is kept from key to key, and bucketOf(key) is approximate_rank.*)
(***************************************************************************)
EXTENDS LeMonHashHeuristic, SuccinctPGM, UnalignedPGM, PGM

CONSTANTS Kinds,        \* the mappers to construct
          IndexInputs,  \* the keys they are constructed from
          Epsilons      \* what they are constructed with, or try

ASSUME IndexAssumption ==
    /\ Kinds \subseteq {"none", "succinct", "unaligned", "polymorphic", "pgm"}
    /\ IndexInputs \subseteq Seq(Nat) /\ Epsilons \subseteq Nat \ {0}

VARIABLES kind,      \* "none" for the classes that do not build a PGM
          epsilon,
          index,     \* the index under construction, then the mapper's
          points,    \* in(0), in(1), ... of the running segmentation
          next,      \* the point it takes next; 0 before the first
          previous,  \* the point it took last
          opt,
          segment_i  \* where for_each is

segmentationVars == <<index, points, next, previous, opt>>
pgmVars == <<kind, epsilon, segmentationVars, segment_i>>
allVars == <<heuristicVars, pgmVars>>

NotSegmenting == /\ index = <<>> /\ points = <<>> /\ next = 0 /\ previous = <<>>
                 /\ opt = NoPoints /\ segment_i = 0

\* the first key has rank 0 in any case
skip_first == IF kind # "pgm" /\ N > 2 THEN 1 ELSE 0

(***************************************************************************)
(* The mappers try several epsilons and keep the cheapest index, which may *)
(* be any.  Two of the keys they segment differ: see the README.           *)
(***************************************************************************)
PGMInit == /\ FamilyInit
           /\ kind \in Kinds
           /\ epsilon \in IF kind = "none" THEN {0} ELSE Epsilons
           /\ kind # "none" =>
                 /\ data \in IndexInputs
                 /\ \E j \in skip_first .. N - 1 : Key(j) # Key(skip_first)
           /\ NotSegmenting

KeyPoints == [i \in 1 .. N - skip_first |->
                 [x |-> Key(i - 1 + skip_first), y |-> i - 1 + skip_first]]

\* the indexes whose segments begin with the point the last one ended with
connect == index.form = "succinct"

\* what a segmentation for this index keeps to: the levels of PGMIndex above the first
\* have a bound of their own
LevelEpsilon(idx) == IF idx.form = "pgm" /\ Len(idx.levels_offsets) > 1
                     THEN epsilon_recursive ELSE epsilon

\* the point a segmentation starts with
FirstPoint(idx, ps) == add_point(NoPoints, ps[1], 0, LevelEpsilon(idx))

Segmentation(idx, ps) == /\ index' = idx
                         /\ points' = ps
                         /\ opt' = FirstPoint(idx, ps)
                         /\ next' = 2
                         /\ previous' = ps[1]

\* the constructor of the index up to and with the first point
StartIndex ==
    /\ pc = "mapper" /\ eliasFano = <<>> /\ next = 0 /\ kind # "none"
    /\ Segmentation(CASE kind = "succinct" -> Succinct(Key(skip_first), skip_first, epsilon)
                      [] kind \in {"unaligned", "polymorphic"} -> Unaligned(N)
                      [] kind = "pgm" -> EmptyPGM,
                    KeyPoints)
    /\ UNCHANGED <<heuristicVars, kind, epsilon, segment_i>>

Segmenting == pc = "mapper" /\ next > 0

\* the keys that may be looked up in a segment that ends before point q
LookedUp == IF next > Len(points) THEN KeySet
            ELSE {x \in KeySet : x < points[next].x} \cup {Key(N - 1)}

\* out(segment, previous point)
WithSegment ==
    CASE index.form = "succinct" -> {AddSuccinct(index, get_segment(opt), previous)}
      [] index.form = "unaligned" -> AddUnaligned(index, get_segment(opt), previous, LookedUp)
      [] index.form = "pgm" -> AddLevelSegment(index, get_segment(opt), LookedUp)

\* std::runtime_error of out, std::logic_error of add_point
UnexpectedShift == index.form = "succinct" /\ ~ SegmentFits(index, get_segment(opt), previous)

ThrowWhileSegmenting == /\ pc' = "thrown"
                        /\ UNCHANGED <<data, mapper, passVars, inputs, entries,
                                       offsetVars, answer, eliasFano, roundedUp>>
                        /\ UNCHANGED pgmVars

\* an equal key is skipped
SkipEqualPoint ==
    /\ Segmenting /\ next <= Len(points)
    /\ points[next].x = previous.x
    /\ next' = next + 1
    /\ UNCHANGED <<heuristicVars, kind, epsilon, index, points, previous, opt, segment_i>>

RejectDisorder ==
    /\ Segmenting /\ next <= Len(points)
    /\ points[next].x # previous.x /\ MustIncrease(opt, points[next])
    /\ ThrowWhileSegmenting

\* a point as opt takes it
Joined(model, p) == add_point(model, p, LevelEpsilon(index), LevelEpsilon(index))

Extended == Joined(opt, points[next])

\* the point joins the segment
ExtendSegment ==
    /\ Segmenting /\ next <= Len(points)
    /\ ~ MustIncrease(opt, points[next])
    /\ Extended.points_in_hull > 0
    /\ opt' = Extended
    /\ next' = next + 1 /\ previous' = points[next]
    /\ UNCHANGED <<heuristicVars, kind, epsilon, index, points, segment_i>>

\* the model for the segment that begins behind, or with, the previous point
Restarted == Joined(IF connect THEN Joined(NoPoints, previous) ELSE NoPoints, points[next])

\* the point is outside: the segment ends with the previous one
NextSegment ==
    /\ Segmenting /\ next <= Len(points)
    /\ ~ MustIncrease(opt, points[next])
    /\ Extended.points_in_hull = 0
    /\ IF UnexpectedShift
       THEN ThrowWhileSegmenting
       ELSE /\ index' \in WithSegment
            /\ opt' = Restarted
            /\ next' = next + 1 /\ previous' = points[next]
            /\ UNCHANGED <<heuristicVars, kind, epsilon, points, segment_i>>

\* the mapper is complete
Complete(idx, numBuckets, Rank(_)) ==
    /\ index' = idx
    /\ mapper' = [numBuckets |-> numBuckets, bucketOf |-> [key \in KeySet |-> Rank(key)]]
    /\ OffsetsAllocate(numBuckets, N)
    /\ pc' = "pass"
    /\ next' = 0 /\ opt' = NoPoints /\ points' = <<>> /\ previous' = <<>>
    /\ UNCHANGED <<data, passVars, inputs, entries, answer, eliasFano, roundedUp,
                   kind, epsilon, segment_i>>

AtEnd == Segmenting /\ next > Len(points)

\* EFPointsStorage; PolymorphicPGMIndex takes either of two
Storages == IF kind = "polymorphic" THEN {"EF", "EFSequential"} ELSE {"EF", "EFV2"}

FinishSuccinct ==
    /\ AtEnd /\ index.form = "succinct"
    /\ IF UnexpectedShift
       THEN ThrowWhileSegmenting
       ELSE \E idx \in WithSegment, storage \in Storages :
               LET loaded == LoadSuccinct(idx, N)
               IN  Complete(loaded, SuccinctSize(loaded),
                            LAMBDA key : SuccinctRank(loaded, storage, key))

\* the lines inlined, packed, or given up for compressed points
FinishUnaligned ==
    /\ AtEnd /\ index.form = "unaligned"
    /\ \E added \in WithSegment :
          LET idx == WithoutLastKey(added, Key(N - 1))
              packed == IF OneSegments(idx, KeySet) # {} THEN OneSegments(idx, KeySet)
                        ELSE {idx}
          IN  \/ \E p \in packed :
                    Complete(p, UnalignedSize(p), LAMBDA key : UnalignedRank(p, key))
              \/ /\ kind = "polymorphic" /\ packed = {idx}
                 /\ Segmentation(Succinct(Key(skip_first), skip_first, epsilon), KeyPoints)
                 /\ UNCHANGED <<heuristicVars, kind, epsilon, segment_i>>

\* a level of PGMIndex ends; the next one segments its segments
FinishLevel ==
    /\ AtEnd /\ index.form = "pgm"
    /\ \E added \in WithSegment :
          LET idx == EndLevel(added, Len(points), Key(N - 1))
              level == LastLevel(idx)
          IN  IF epsilon_recursive # 0 /\ Len(level) > 1
              THEN /\ Segmentation(idx, [i \in 1 .. Len(level) |->
                                            [x |-> level[i].key, y |-> i - 1]])
                   /\ UNCHANGED <<heuristicVars, kind, epsilon, segment_i>>
              ELSE Complete(idx, PGMRank(idx, Key(0), Key(N - 1)) + 1,
                            LAMBDA key : PGMRank(idx, Key(0), key))

BuildIndex == \/ StartIndex \/ SkipEqualPoint \/ RejectDisorder
              \/ ExtendSegment \/ NextSegment
              \/ FinishSuccinct \/ FinishUnaligned \/ FinishLevel

\* the next round of for_each: the key's segment, and its rank there
Advanced == CASE index.form = "succinct" -> SuccinctAdvance(index, segment_i, Key(k))
              [] index.form \in {"unaligned", "one"} ->
                    UnalignedAdvance(index, segment_i, Key(k))
              [] index.form = "pgm" -> PGMAdvance(index, segment_i, Key(k))

RankAt(i) == CASE index.form = "succinct" -> SuccinctAt(index, i, Key(k))
               [] index.form \in {"unaligned", "one"} -> UnalignedAt(index, i, Key(k))
               [] index.form = "pgm" -> LevelRank(index, i, Key(k))

VisitIndexed ==
    /\ pc = "pass" /\ k < N
    /\ segment_i' = Advanced
    /\ VisitKey(RankAt(Advanced))
    /\ UNCHANGED <<kind, epsilon, segmentationVars>>

-----------------------------------------------------------------------------
Without(A) == kind = "none" /\ A /\ UNCHANGED pgmVars
With(A) == kind # "none" /\ A /\ UNCHANGED <<eliasFano, roundedUp>>
Keeping(A) == With(A) /\ UNCHANGED pgmVars

PGMConstructor ==
    \/ Without(FamilyConstructor)
    \/ BuildIndex
    \/ With(VisitIndexed)
    \/ Keeping(CloseBucket) \/ Keeping(NextKey)
    \/ Keeping(CloseLastBucket) \/ Keeping(Finish)

PGMNext == \/ PGMConstructor
           \/ Without(Mapped(Query)) \/ Without(Segmented(QueryHeuristic))
           \/ Keeping(Query)

PGMSpec == PGMInit /\ [][PGMNext]_allVars

FairPGMSpec == PGMSpec /\ WF_allVars(PGMConstructor)

-----------------------------------------------------------------------------
\* the points taken for the segment that is being built: the first of equal keys
SegmentPoints == {i \in 1 .. next - 1 :
                     /\ opt.first.x <= points[i].x
                     /\ \A j \in 1 .. i - 1 : points[j].x # points[i].x}

\* point i, spread to its bar
PointBar(i) == Bar(points[i], IF i = 1 THEN 0 ELSE LevelEpsilon(index), LevelEpsilon(index))

SegmentBars == {PointBar(i) : i \in SegmentPoints}

(***************************************************************************)
(* While a segment grows, its two extreme lines stay within epsilon of     *)
(* every point it covers, though only the ends of two hulls are looked at. *)
(***************************************************************************)
ExtremeLinesFit ==
    Segmenting /\ opt.points_in_hull > 1 =>
        \A bar \in SegmentBars :
            /\ Passes(opt.rectangle[1], slope1(opt.rectangle), bar)
            /\ Passes(opt.rectangle[2], slope2(opt.rectangle), bar)

(***************************************************************************)
(* A segment ends only where it must: no line at all is within epsilon of  *)
(* its points and the one that was rejected.                               *)
(***************************************************************************)
SegmentsMaximal ==
    [][Segmenting /\ next <= Len(points) /\ opt' # opt /\ opt'.first # opt.first =>
          ~ SomeLineThrough(SegmentBars \cup {PointBar(next)})]_allVars

(***************************************************************************)
(* for_each and approximate_rank agree: for_each hands every key of a      *)
(* sorted range over with the bucket a query will look for it in, however  *)
(* it got there.                                                           *)
(***************************************************************************)
ForEachAgrees ==
    Sorted /\ kind # "none" /\ pc = "close" => bucket = mapper.bucketOf[Key(k)]

(***************************************************************************)
(* What for_each hands over of keys in order is near their ranks: at most  *)
(* epsilon + 1 off, as it asserts, in SuccinctPGMIndex, and on an inlined  *)
(* line, which is not fitted to the first key.  A packed segment that      *)
(* would begin too high is lowered to behind the one before, and lowers    *)
(* the next one with it: each segment may lose two epsilons and one.       *)
(***************************************************************************)
RanksNear ==
    LET off == bucket - k
    IN  Sorted /\ pc = "close" /\ kind # "none" =>
            /\ index.form = "succinct" => off \in - (epsilon + 1) .. epsilon + 1
            /\ index.form = "one" /\ k > 0 => off \in - (epsilon + 1) .. epsilon
            /\ index.form = "unaligned" =>
                   off \in - ((segment_i + 1) * (2 * epsilon + 1) + 1) .. epsilon

(***************************************************************************)
(* for_each of PGMIndex: assert(std::abs(int64_t(pos) -                    *)
(* int64_t(std::distance(first, it))) <= epsilon + 1).                     *)
(***************************************************************************)
AssertedRanksNear ==
    Sorted /\ pc = "close" /\ kind = "pgm" =>
        bucket - k \in - (epsilon + 1) .. epsilon + 1

(***************************************************************************)
(* The buckets of a PGM mapper, or of heuristic segments, never count as   *)
(* non-monotonic, and no segmentation throws for keys in order: what is    *)
(* rejected was not sorted.                                                *)
(***************************************************************************)
IndexesMonotone ==
    (kind # "none" \/ eliasFano # <<>>) /\ pc = "thrown" => ~ Sorted

(***************************************************************************)
(* The levels of PGMIndex lead to the segment that holds a key, the last   *)
(* one of the first level that starts at or below it.                      *)
(***************************************************************************)
LevelsFindSegment ==
    pc = "pass" /\ k = 0 /\ kind = "pgm" =>
        \A key \in KeySet :
            segment_for_key(index, key) =
                Max({i \in 0 .. index.levels_offsets[2] - 1 : index.segments[i + 1].key <= key})

(***************************************************************************)
(* The widths in front of a packed index, derived from its last segment,   *)
(* hold the keys and intercepts of all segments.                           *)
(***************************************************************************)
PackedNumbersFit ==
    mapper # NoMapper /\ kind # "none" /\ index.form = "unaligned" => NumbersFit(index)

\* the widths of three numbers are written, see the layout in both classes
WidthsCounted == IF kind = "polymorphic" THEN 2 ELSE 3

(***************************************************************************)
(* What a packed index writes fits the words allocated for it.             *)
(***************************************************************************)
LayoutFits ==
    mapper # NoMapper /\ kind # "none" /\ index.form = "unaligned" =>
        BitsWritten(index) <= 64 * words_needed(index, WidthsCounted)
=============================================================================
