---------------------------- MODULE AlphabetMap ----------------------------
(***************************************************************************)
(* Strings and their longest common prefixes (support/util.h), and the     *)
(* rank of a character in an alphabet (support/AlphabetMap.h).  An         *)
(* AlphabetMap is the set of its characters; strings hold characters       *)
(* without the terminator 0.                                               *)
(***************************************************************************)
EXTENDS Integers, Sequences, FiniteSets

CONSTANTS Chars,     \* the characters, terminator included
          ChunkBits  \* bits of a chunk, 64

ASSUME AlphabetMapAssumption ==
    0 \in Chars /\ Chars \subseteq 0 .. 255 /\ ChunkBits \in Nat

Least(a, b) == IF a <= b THEN a ELSE b

\* s.c_str()[j]: the bytes behind the terminator are whatever memory holds
Byte(s, j, behind) == IF j < Len(s) THEN s[j + 1]
                      ELSE IF j = Len(s) THEN 0 ELSE behind[j]

\* LCP of two different strings (StringLCP has the loops that compute it)
LCP(s1, s2) ==
    LET n == CHOOSE j \in 0 .. Least(Len(s1), Len(s2)) :
                /\ \A k \in 1 .. j : s1[k] = s2[k]
                /\ j < Least(Len(s1), Len(s2)) => s1[j + 1] # s2[j + 1]
    IN  [lcp |-> n,
         branchingCharacters |-> {Byte(s1, n, <<>>), Byte(s2, n, <<>>)}]

\* s comes before t: the terminator is smaller than every character
Precedes(s, t) ==
    \E n \in 0 .. Least(Len(s), Len(t)) :
        /\ \A k \in 1 .. n : s[k] = t[k]
        /\ Byte(s, n, <<>>) < Byte(t, n, <<>>)

\* lcps[0] stays value-initialised and is never read
computeLCPs(strings) ==
    [k \in 1 .. Len(strings) - 1 |-> LCP(strings[k], strings[k + 1])]

MinLCP(lcps) == CHOOSE n \in {lcps[k].lcp : k \in 1 .. Len(lcps)} :
                    \A k \in 1 .. Len(lcps) : n <= lcps[k].lcp

\* the numbers of a set in increasing order
Ascending(S) ==
    [k \in 1 .. Cardinality(S) |->
        CHOOSE n \in S : Cardinality({u \in S : u < n}) = k - 1]

\* variant that counts the character itself
RankInclusive(map, c) == Cardinality({d \in map : d <= c})

rank(map, c) == IF c \in map THEN Cardinality({d \in map : d < c}) ELSE 0
=============================================================================
