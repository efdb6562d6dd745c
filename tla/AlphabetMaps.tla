---------------------------- MODULE AlphabetMaps ----------------------------
(***************************************************************************)
(* The alphabets of branching characters per depth (support/AlphabetMaps.h)*)
(* and the integer that RSHash4s maps a string to through them.            *)
(***************************************************************************)
EXTENDS AlphabetMap

CONSTANT NumMaps  \* num: alphabets kept, 43 in RSHash4s

ASSUME AlphabetMapsAssumption == NumMaps \in Nat \ {0}
\* arithmetic that chunks rest on
ASSUME ChunkPowersAssumption ==
    /\ 2^ChunkBits \in Nat \ {0}
    /\ \A b \in 1 .. Cardinality(Chars), n \in 0 .. NumMaps :
          b^n \in Nat /\ b^0 = 1 /\ b^(n + 1) = b^n * b

\* variant that loses the last alphabet
MapIndexShort(depth) == Least(depth, NumMaps - 2)

\* deeper characters all go to the last alphabet
MapIndex(depth) == Least(depth, NumMaps - 1)

Alphabets(lcps, minLCP) ==
    [n \in 0 .. NumMaps - 1 |->
        UNION {lcps[k].branchingCharacters :
                  k \in {m \in 1 .. Len(lcps) :
                            MapIndex(lcps[m].lcp - minLCP) = n}}]

MaxBranching(ams) ==
    CHOOSE m \in {Cardinality(ams[n]) : n \in DOMAIN ams} :
        \A n \in DOMAIN ams : Cardinality(ams[n]) <= m

\* the depths that have branching characters, in order; depth 0 always
JList(ams) == Ascending({n \in DOMAIN ams : n = 0 \/ ams[n] # {}})

\* the AlphabetMaps object of the sorted strings with these lcps
AlphabetMapsOf(lcps, minLCP) ==
    LET ams == Alphabets(lcps, minLCP)
    IN  [ams |-> ams, max_branching_num |-> MaxBranching(ams),
         j_list |-> JList(ams)]

(***************************************************************************)
(* readChunk of the string behind its first `start` characters.  The loop  *)
(* compares the number of depths read with the length, not the depth it    *)
(* reads, so it may read behind the terminator.                            *)
(***************************************************************************)
readChunk(am, s, start, behind) ==
    LET sigma == am.max_branching_num
        Digit(k) ==
            IF k - 1 < Len(s) - start
            THEN Least(rank(am.ams[am.j_list[k]],
                            Byte(s, start + am.j_list[k], behind)), sigma - 1)
            ELSE 0
        chunk[k \in 0 .. Len(am.j_list)] ==
            IF k = 0 THEN 0
            ELSE (chunk[k - 1] * sigma + Digit(k)) % 2^ChunkBits
    IN  chunk[Len(am.j_list)]

\* the positions behind the terminator that readChunk reads
ReadBehind(am, s, start) ==
    {j \in {start + am.j_list[k] : k \in 1 .. Least(Len(am.j_list), Len(s) - start)} :
        j > Len(s)}

\* every chunk the build may compute for a string
Chunks(am, s, start) ==
    {readChunk(am, s, start, behind) : behind \in [ReadBehind(am, s, start) -> Chars]}
=============================================================================
