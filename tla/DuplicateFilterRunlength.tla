---------------------- MODULE DuplicateFilterRunlength ----------------------
(***************************************************************************)
(* DuplicateFilterRunlength (sequence/DuplicateFilter.hpp): the copies     *)
(* behind the first value of a long run are not stored; the position where *)
(* they start and the number of copies dropped before them are two         *)
(* Elias-Fano sequences.  A filter is a record; the child sequence is a    *)
(* plain one.                                                              *)
(***************************************************************************)
EXTENDS EliasFano

CONSTANT MIN_DUPLICATES  \* copies of a run that is not stored, at least; 8

ASSUME RunlengthAssumption == MIN_DUPLICATES \in Nat \ {0}

\* previousValue is the largest size_t, -1 here, which no value equals
EmptyRuns == [n |-> 0, previousValue |-> -1, duplicatesOfPreviousValue |-> 0,
              child |-> <<>>, starts |-> <<>>, prefixes |-> <<>>, prefixTmp |-> 0,
              startsEf |-> <<>>, prefixesEf |-> <<>>]

\* variant that forgets to count the copies dropped
FlushUncounted(f) ==
    LET dups == f.duplicatesOfPreviousValue
    IN  IF dups < MIN_DUPLICATES
        THEN [f EXCEPT !.child = @ \o [k \in 1 .. dups |-> f.previousValue]]
        ELSE [f EXCEPT !.starts = Append(@, f.n - dups),
                       !.prefixes = Append(@, f.prefixTmp),
                       !.prefixTmp = @ + MIN_DUPLICATES]

flushDuplicates(f) ==
    LET dups == f.duplicatesOfPreviousValue
    IN  IF dups < MIN_DUPLICATES
        THEN [f EXCEPT !.child = @ \o [k \in 1 .. dups |-> f.previousValue]]
        ELSE [f EXCEPT !.starts = Append(@, f.n - dups),
                       !.prefixes = Append(@, f.prefixTmp),
                       !.prefixTmp = @ + dups]

RunsAppend(f, x) ==
    IF x = f.previousValue
    THEN [f EXCEPT !.duplicatesOfPreviousValue = @ + 1, !.n = @ + 1]
    ELSE LET g == IF f.n # 0 THEN flushDuplicates(f) ELSE f
         IN  [g EXCEPT !.child = Append(@, x), !.previousValue = x,
                       !.duplicatesOfPreviousValue = 0, !.n = @ + 1]

\* an EliasFanoM made of a sequence of values
Filled(num, maxValue, elements) ==
    LET ef[k \in 0 .. Len(elements)] ==
            IF k = 0 THEN EliasFanoM(num, maxValue)
            ELSE push_back(ef[k - 1], elements[k])
    IN  ef[Len(elements)]

RunsComplete(f) ==
    IF f.n = 0 THEN f
    ELSE LET g == flushDuplicates(f)
             starts == Append(g.starts, g.n)
             excess == [k \in 1 .. Len(starts) |->
                           Append(g.prefixes, g.prefixTmp)[k]
                               - (k - 1) * MIN_DUPLICATES]
         IN  [g EXCEPT !.starts = <<>>, !.prefixes = <<>>,
                       !.startsEf = Filled(Len(starts), g.n + 1, starts),
                       !.prefixesEf = Filled(Len(starts),
                                             excess[Len(excess)] + 1, excess)]

\* where at(i) reads the child
RunsIndex(f, i) ==
    IF i < Element(f.startsEf, at(f.startsEf, 0)) THEN i
    ELSE LET predecessor == predecessorPosition(f.startsEf, i)
             index == predecessor.positionL
             runStart == Element(f.startsEf, predecessor)
             before == at(f.prefixesEf, index)
             removedBefore == Element(f.prefixesEf, before)
                                  + index * MIN_DUPLICATES
             removedAfter == Element(f.prefixesEf, Increment(f.prefixesEf, before))
                                  + (index + 1) * MIN_DUPLICATES
             storageStart == runStart - removedBefore - 1
             runSize == removedAfter - removedBefore
         IN  IF i - runStart < runSize THEN storageStart
             ELSE storageStart + (i - runStart - runSize) + 1

RunsAt(f, i) == f.child[RunsIndex(f, i) + 1]
=============================================================================
