------------------------- MODULE LeMonHashHeuristic -------------------------
(***************************************************************************)
(* lemonhash::LeMonHashHeuristic: the constructor and query of LeMonHash,  *)
(* but the buckets come from segments of keysPerSegment keys each.  The    *)
(* first keys of the segments, and the last key, are in an EliasFanoM,     *)
(* which a query searches for its segment.                                 *)
(***************************************************************************)
EXTENDS LeMonHash

CONSTANTS keysPerSegment,
          LargestKey,  \* UINT64_MAX
          WordBits

ASSUME SegmentAssumption == keysPerSegment \in Nat \ {0}

EF == INSTANCE EliasFano

VARIABLES eliasFano,  \* <<>> before it is constructed
          roundedUp   \* key differences whose slope, a float, is rounded up

heuristicVars == <<lemonVars, eliasFano, roundedUp>>

segments == (N + keysPerSegment - 1) \div keysPerSegment

Smaller(a, b) == IF a <= b THEN a ELSE b

(***************************************************************************)
(* bucketOf.  With a slope rounded up, a quotient that should be a whole   *)
(* number falls just short of it.  A query for the last key has a next     *)
(* offset below its offset, which wraps to a huge slope: 0 divided by that *)
(* is 0.  A last segment of one key divides 0 by 0 and converts the NaN;   *)
(* whatever comes out, min yields the last bucket.                         *)
(***************************************************************************)
bucketOf(key, segment, offset, nextOffset) ==
    LET x == key - offset
        d == nextOffset - offset
        exact == x * keysPerSegment
        rankInSegment ==
            IF x = 0 \/ d = 0 THEN 0
            ELSE IF d \in roundedUp /\ exact % d = 0 THEN exact \div d - 1
            ELSE exact \div d
    IN  Smaller(N - 1, segment * keysPerSegment + Smaller(rankInSegment, keysPerSegment))

\* segment of key j while constructing
SegmentOf(j) == j \div keysPerSegment

\* variant that ends a segment at its own last key
OwnSegmentEnd(s) == Key(Smaller(s * keysPerSegment + keysPerSegment - 1, N - 1))

segmentStart(s) == Key(s * keysPerSegment)
segmentEnd(s) == Key(Smaller(s * keysPerSegment + keysPerSegment, N - 1))

ConstructionBucket(j) ==
    bucketOf(Key(j), SegmentOf(j), segmentStart(SegmentOf(j)), segmentEnd(SegmentOf(j)))

(***************************************************************************)
(* N buckets, and room for two more elements than there are segments.      *)
(* Keys above the last one exceed the universe of the Elias-Fano sequence: *)
(* they would be written out of bounds before they are found unsorted.     *)
(***************************************************************************)
Allocate ==
    /\ pc = "mapper"
    /\ \A j \in 0 .. N - 1 : Key(j) <= Key(N - 1)
    /\ eliasFano' = EF!EliasFanoM(segments + 2, Key(N - 1))
    /\ OffsetsAllocate(N, N)
    /\ pc' = "pass"
    /\ roundedUp' \in SUBSET {segmentEnd(s) - segmentStart(s) :
                                   s \in 0 .. segments - 1}
    /\ UNCHANGED <<data, mapper, passVars, inputs, entries, answer>>

\* a segment is entered with its first key
VisitInSegment ==
    /\ pc = "pass" /\ k < N
    /\ VisitKey(ConstructionBucket(k))
    /\ eliasFano' = IF k % keysPerSegment = 0 THEN EF!push_back(eliasFano, Key(k))
                    ELSE eliasFano
    /\ UNCHANGED roundedUp

CloseLastSegment ==
    /\ CloseLastBucket
    /\ eliasFano' = EF!push_back(eliasFano, Key(N - 1))
    /\ UNCHANGED roundedUp

(***************************************************************************)
(* The segment a query starts from, and the key it takes for the start of  *)
(* the next.  size() counts the room, not the elements, so even the last   *)
(* element passes for one with a next.                                     *)
(***************************************************************************)
SegmentPtr(key) == EF!predecessorPosition(eliasFano, key)

NextSegmentPtr(p) == EF!Increment(eliasFano, p)

nextOffset(p) == IF p.positionL < EF!size(eliasFano) - 1
                 THEN EF!Element(eliasFano, NextSegmentPtr(p))
                 ELSE LargestKey

QueryBucket(key) ==
    LET p == SegmentPtr(key)
    IN  bucketOf(key, p.positionL, EF!Element(eliasFano, p), nextOffset(p))

QueryHeuristic ==
    /\ pc = "ready"
    /\ \E key \in KeySet : Answer(key, QueryBucket(key))
    /\ UNCHANGED <<eliasFano, roundedUp>>

-----------------------------------------------------------------------------
(***************************************************************************)
(* Both classes: eliasFano tells which one is under construction.          *)
(***************************************************************************)
Mapped(A) == eliasFano = <<>> /\ A /\ UNCHANGED <<eliasFano, roundedUp>>
Segmented(A) == eliasFano # <<>> /\ A
Either(A) == A /\ UNCHANGED <<eliasFano, roundedUp>>

FamilyInit == /\ Init
              /\ eliasFano = <<>>
              /\ roundedUp = {}

FamilyConstructor ==
    \/ Mapped(BuildMapper) \/ Allocate
    \/ Mapped(VisitMapped) \/ Segmented(VisitInSegment)
    \/ Either(CloseBucket) \/ Either(NextKey)
    \/ Mapped(CloseLastBucket) \/ Segmented(CloseLastSegment)
    \/ Either(Finish)

FamilyNext == \/ FamilyConstructor
              \/ Mapped(Query) \/ Segmented(QueryHeuristic)

FamilySpec == FamilyInit /\ [][FamilyNext]_heuristicVars

\* nothing else runs while a constructor does
FairFamilySpec == FamilySpec /\ WF_heuristicVars(FamilyConstructor)

(***************************************************************************)
(* Every construction ends, in a function or in an exception.              *)
(***************************************************************************)
ConstructionEnds == <>(pc \in {"ready", "thrown"})

(***************************************************************************)
(* A query of LeMonHashHeuristic only dereferences elements that exist, as *)
(* ElementPointer::operator* asserts.                                      *)
(***************************************************************************)
DereferencesElements ==
    pc = "ready" /\ eliasFano # <<>> =>
        \A key \in KeySet :
            LET p == SegmentPtr(key)
            IN  /\ EF!Dereferenceable(eliasFano, p)
                /\ p.positionL < EF!size(eliasFano) - 1 =>
                      EF!Dereferenceable(eliasFano, NextSegmentPtr(p))
=============================================================================
