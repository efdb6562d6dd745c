------------------------- MODULE DuplicateFilterRank -------------------------
(***************************************************************************)
(* DuplicateFilterRank (sequence/DuplicateFilter.hpp): areas of a few      *)
(* values each; an area of copies of the last value before it is not       *)
(* stored.  A filter is a record; `stored` is the set of the one bits of   *)
(* duplicateFilterIsAreaStored, `areas` its size.  The child sequence,     *)
(* PartitionedEliasFano, is a plain sequence.                              *)
(***************************************************************************)
EXTENDS Integers, Sequences, FiniteSets

CONSTANTS FILTER_GRANULARITY,  \* values of an area, 3
          InitialAreas         \* bits of a new filter, 100

ASSUME FilterAssumption ==
    FILTER_GRANULARITY \in Nat \ {0} /\ InitialAreas \in Nat \ {0}

EmptyFilter == [n |-> 0, lastValueOfPreviousArea |-> 0, insertionBuffer |-> <<>>,
                stored |-> {0}, areas |-> InitialAreas, child |-> <<>>]

LastOf(s) == s[Len(s)]

\* the size of the bit vector that has a bit for the area
Grown(areas, area) == IF areas < area + 1 THEN area * 2 ELSE areas

flushInsertionBuffer(f, forceFlush) ==
    LET buffer == f.insertionBuffer
        allSame == \A k \in 1 .. Len(buffer) :
                      buffer[k] = f.lastValueOfPreviousArea
        area == (f.n - 1) \div FILTER_GRANULARITY
    IN  IF buffer = <<>> \/ (Len(buffer) < FILTER_GRANULARITY /\ ~ forceFlush)
        THEN f
        ELSE IF allSame /\ ~ forceFlush
        THEN [f EXCEPT !.insertionBuffer = <<>>]
        ELSE [f EXCEPT !.insertionBuffer = <<>>,
                       !.child = @ \o buffer,
                       !.lastValueOfPreviousArea = LastOf(buffer),
                       !.areas = Grown(@, area),
                       !.stored = @ \cup {area}]

FilterAppend(f, x) ==
    IF f.n + 1 <= FILTER_GRANULARITY
    THEN [f EXCEPT !.n = @ + 1, !.child = Append(@, x),
                   !.lastValueOfPreviousArea = x]
    ELSE flushInsertionBuffer(
            [f EXCEPT !.n = @ + 1, !.insertionBuffer = Append(@, x)], FALSE)

\* complete: the bits behind the last area are cut off
FilterComplete(f) ==
    IF f.n = 0 THEN f
    ELSE LET g == flushInsertionBuffer(f, TRUE)
             areas == g.n \div FILTER_GRANULARITY + 1
         IN  [g EXCEPT !.areas = areas, !.stored = @ \cap 0 .. areas - 1]

\* variant that takes the area behind the last stored one
FilterIndexBehind(f, i) ==
    LET area == i \div FILTER_GRANULARITY
        areaLocation ==
            FILTER_GRANULARITY * Cardinality(f.stored \cap 0 .. area - 1)
    IN  IF area \in f.stored THEN areaLocation + (i % FILTER_GRANULARITY)
        ELSE areaLocation

\* where at(i) reads the child
FilterIndex(f, i) ==
    LET area == i \div FILTER_GRANULARITY
        areaLocation ==
            FILTER_GRANULARITY * Cardinality(f.stored \cap 0 .. area - 1)
    IN  IF area \in f.stored THEN areaLocation + (i % FILTER_GRANULARITY)
        ELSE areaLocation - 1

FilterAt(f, i) == f.child[FilterIndex(f, i) + 1]
=============================================================================
