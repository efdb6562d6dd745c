----------------------- MODULE AlphabetMapsCollection -----------------------
(***************************************************************************)
(* The alphabets that the nodes of LeMonHashVL and LeMonHashVLIndexed      *)
(* share (support/AlphabetMapsCollection.h): 7-bit alphabets and others,   *)
(* in the order they were added.  A node names one by 2 * index, plus 1    *)
(* if it is not a 7-bit one.                                               *)
(***************************************************************************)
EXTENDS AlphabetMap

CONSTANTS AsciiBound,   \* 128: the first character that needs 8 bits
          MapIndexBits  \* LOG2_ALPHABET_MAPS_COUNT, 18

ASSUME CollectionAssumption == AsciiBound \in Nat /\ MapIndexBits \in Nat \ {0}
\* a chunk has room for a digit, and arithmetic that chunks rest on
ASSUME DigitsAssumption ==
    /\ 2^ChunkBits \in Nat /\ Cardinality(Chars) <= 2^ChunkBits
    /\ \A b \in 1 .. Cardinality(Chars) \cup {2}, n \in 0 .. ChunkBits :
          b^n \in Nat /\ b^0 = 1 /\ b^(n + 1) = b^n * b

NoMaps == [maps7 |-> <<>>, maps8 |-> <<>>]

isEmpty(maps) == maps.maps7 = <<>> /\ maps.maps8 = <<>>

isFullForBits(maps) ==
    LET maxIndex == 2^(MapIndexBits - 1) - 1
    IN  Len(maps.maps7) >= maxIndex \/ Len(maps.maps8) >= maxIndex

\* the alphabet with a given number
MapAt(maps, index) ==
    IF index % 2 = 1 THEN maps.maps8[index \div 2 + 1] ELSE maps.maps7[index \div 2 + 1]

\* digits to the base of its size that fit a chunk
length64(map) ==
    LET sigma == IF Cardinality(map) < 2 THEN 2 ELSE Cardinality(map)
    IN  CHOOSE n \in 0 .. ChunkBits :
            sigma^n <= 2^ChunkBits /\ sigma^(n + 1) > 2^ChunkBits

\* the terminator and the branching characters of neighbours with these lcps
BranchingAlphabet(lcps) ==
    {0} \cup UNION {lcps[k].branchingCharacters : k \in 1 .. Len(lcps)}

\* variant that takes any alphabet of the same length for similar
SimilarInLength(map, other) == length64(map) = length64(other)

\* a stored alphabet that can stand for another one
Similar(map, other) == other \subseteq map /\ length64(map) = length64(other)

\* the first similar alphabet, or the new one behind the others
PlaceIn(list, map) ==
    LET similar == {k \in 1 .. Len(list) : Similar(list[k], map)}
    IN  IF similar = {} THEN Len(list) + 1
        ELSE CHOOSE k \in similar : \A other \in similar : k <= other

addOrFindSimilar(maps, map) ==
    LET isAscii == \A c \in map : c < AsciiBound
        list == IF isAscii THEN maps.maps7 ELSE maps.maps8
        place == PlaceIn(list, map)
        longer == IF place > Len(list) THEN Append(list, map) ELSE list
    IN  IF isAscii
        THEN [maps |-> [maps EXCEPT !.maps7 = longer], index |-> 2 * (place - 1)]
        ELSE [maps |-> [maps EXCEPT !.maps8 = longer], index |-> 2 * (place - 1) + 1]

(***************************************************************************)
(* readChunk: the characters of s at the given positions as digits, 0 from *)
(* the first position on that is missing or behind the end.                *)
(***************************************************************************)
readChunk(map, s, positions) ==
    LET sigma == Cardinality(map)
        Present(k) == k <= Len(positions) /\ \A j \in 1 .. k : positions[j] < Len(s)
        Digit(k) == IF Present(k)
                    THEN Least(rank(map, Byte(s, positions[k], <<>>)), sigma - 1)
                    ELSE 0
        chunk[k \in 0 .. length64(map)] ==
            IF k = 0 THEN 0 ELSE (chunk[k - 1] * sigma + Digit(k)) % 2^ChunkBits
    IN  chunk[length64(map)]
=============================================================================
