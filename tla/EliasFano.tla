------------------------------ MODULE EliasFano ------------------------------
(***************************************************************************)
(* EliasFanoM and SequentialEliasFano (sequence/EliasFanoModified.hpp):    *)
(* non-decreasing integers, split into low bits, stored one after the      *)
(* other, and high parts, stored in unary.  An EliasFanoM is a record with *)
(* the low parts L, the set H of the one bits of the high part and its     *)
(* size; select of the pasta library is what it returns.                   *)
(***************************************************************************)
EXTENDS BitScan, Sequences

(***************************************************************************)
(* Bits of the low part: log2(universe * ln 2 / ones), rounded, at least   *)
(* 1.  Squared, to compare integers: (ln 2)^2 is 0.48.                     *)
(***************************************************************************)
elias_fano_lo_width(universe, ones) ==
    LET AtLeast(w) == 480 * universe * universe >= 1000 * 2^(2 * w - 1) * ones * ones
    IN  IF ones = 0 \/ ones > universe \/ ~ AtLeast(2) THEN 1
        ELSE CHOOSE w \in 2 .. universe : AtLeast(w) /\ ~ AtLeast(w + 1)

EliasFanoM(num, maxValue) ==
    LET w == elias_fano_lo_width(maxValue, num)
    IN  [width |-> w, L |-> [k \in 0 .. num - 1 |-> 0],
         H |-> {}, H_size |-> maxValue \div 2^w + num + 1,
         count |-> 0, maxValue |-> maxValue]

push_back(ef, element) ==
    [ef EXCEPT !.L[ef.count] = element % 2^ef.width,
               !.H = @ \cup {element \div 2^ef.width + ef.count},
               !.count = @ + 1]

\* the room made for elements, not the number of them
size(ef) == Cardinality(DOMAIN ef.L)

\* select1 and select0, k counts from 1
select1(ef, k) == CHOOSE b \in ef.H : Cardinality({c \in ef.H : c <= b}) = k
select0(ef, k) == CHOOSE b \in 0 .. ef.H_size - 1 :
                      b \notin ef.H /\ Cardinality((0 .. b) \ ef.H) = k

-----------------------------------------------------------------------------
\* an ElementPointer
Pointer(h, l) == [positionH |-> h, positionL |-> l]

at(ef, position) == Pointer(select1(ef, position + 1), position)

Dereferenceable(ef, p) == p.positionL < ef.count

\* operator*
Element(ef, p) ==
    (p.positionH - p.positionL) * 2^ef.width + ef.L[p.positionL]

\* operator++: beyond the last element only the index moves
Increment(ef, p) ==
    IF p.positionL >= ef.count - 1 THEN Pointer(p.positionH, p.positionL + 1)
    ELSE Pointer(nextOne(ef.H, p.positionH), p.positionL + 1)

\* operator--
Decrement(ef, p) ==
    IF p.positionL >= ef.count THEN Pointer(p.positionH, p.positionL - 1)
    ELSE Pointer(prevOne(ef.H, p.positionH), p.positionL - 1)

begin(ef) == Pointer(Lowest(ef.H), 0)

\* the binary search of predecessorPosition over a bucket of equal high parts
SearchBucket(ef, first, number, elementL) ==
    LET search[bucket \in Nat \X (0 .. number)] ==
            LET rankLo == bucket[1]
                bucketCount == bucket[2]
                step == bucketCount \div 2
            IN  IF bucketCount = 0 THEN rankLo
                ELSE IF ef.L[rankLo + step] <= elementL
                     THEN search[<<rankLo + step + 1, bucketCount - step - 1>>]
                     ELSE search[<<rankLo, step>>]
    IN  search[<<first, number>>]

\* variant that stays in a bucket without smaller elements
predecessorInBucket(ef, element) ==
    LET elementH == element \div 2^ef.width
        end == select0(ef, elementH + 1)
        rankHi == end - elementH
        rankLo == IF elementH = 0 THEN 0
                  ELSE select0(ef, elementH) - elementH + 1
        after == SearchBucket(ef, rankLo, rankHi - rankLo,
                              element % 2^ef.width)
        rank == IF after > rankLo THEN after - 1 ELSE after
        posH == end - (rankHi - rank)
    IN  IF posH \in ef.H THEN Pointer(posH, rank)
        ELSE Pointer(prevOne(ef.H, posH), rank)

(***************************************************************************)
(* predecessorPosition: the bucket of the high part lies between two zeros *)
(* of H; when all its elements are larger, the result is the last element  *)
(* of an earlier bucket and H is scanned backwards for its bit.            *)
(***************************************************************************)
predecessorPosition(ef, element) ==
    LET elementH == element \div 2^ef.width
        end == select0(ef, elementH + 1)
        rankHi == end - elementH
        rankLo == IF elementH = 0 THEN 0
                  ELSE select0(ef, elementH) - elementH + 1
        after == SearchBucket(ef, rankLo, rankHi - rankLo,
                              element % 2^ef.width)
        rank == IF after > 0 THEN after - 1 ELSE after
        posH == end - (rankHi - rank)
    IN  IF rankHi = 0 THEN Pointer(0, 0)
        ELSE IF posH \in ef.H THEN Pointer(posH, rank)
        ELSE Pointer(prevOne(ef.H, posH), rank)

-----------------------------------------------------------------------------
(***************************************************************************)
(* SequentialEliasFano: the same coding inside a larger array, read by an  *)
(* iterator that scans from the front.  offset is the bit at which the     *)
(* high part begins; the bits in front of it are never looked at.          *)
(***************************************************************************)
write(offset, elements) ==
    LET u == elements[Len(elements)] + 1
        l == elias_fano_lo_width(u, Len(elements))
    IN  [l |-> l, loEnd |-> offset, n |-> Len(elements),
         lo |-> [k \in 0 .. Len(elements) - 1 |-> elements[k + 1] % 2^l],
         bits |-> {offset + elements[k] \div 2^l + k - 1 : k \in 1 .. Len(elements)}]

\* Iterator::reset
Reset(s) == [rank |-> 0,
             hiPos |-> IF s.loEnd \in s.bits THEN s.loEnd
                       ELSE nextOne(s.bits, s.loEnd)]

\* operator++ and operator--
Advance(s, it) == [rank |-> it.rank + 1, hiPos |-> nextOne(s.bits, it.hiPos)]
Retreat(s, it) == [rank |-> it.rank - 1, hiPos |-> prevOne(s.bits, it.hiPos)]

Read(s, it) == (it.hiPos - s.loEnd - it.rank) * 2^s.l + s.lo[it.rank]

\* Iterator::at, as the iterator it leaves behind
Seek(s, pos) ==
    LET it[k \in 0 .. pos] == IF k = 0 THEN Reset(s) ELSE Advance(s, it[k - 1])
    IN  it[pos]
=============================================================================
