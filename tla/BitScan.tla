------------------------------- MODULE BitScan -------------------------------
(***************************************************************************)
(* nextOne and prevOne (support/util.h): scans of a bit array, word by     *)
(* word.  The array is the set of the positions of its one bits.           *)
(***************************************************************************)
EXTENDS Integers, FiniteSets

CONSTANT WordBits  \* bits of a word, 64

ASSUME WordBitsAssumption == WordBits \in Nat \ {0}

Lowest(S) == CHOOSE b \in S : \A c \in S : b <= c
Highest(S) == CHOOSE b \in S : \A c \in S : b >= c

(***************************************************************************)
(* The word of i loses its bits below i, then its lowest bit, which is bit *)
(* i only if that bit is set.  Running past the last one is undefined.     *)
(***************************************************************************)
nextOne(bits, i) ==
    LET word == {b \in bits : b \div WordBits = i \div WordBits /\ b >= i}
        rest == {b \in word : \E c \in word : c < b}
    IN  IF rest # {} THEN Lowest(rest)
        ELSE Lowest({b \in bits : b \div WordBits > i \div WordBits})

\* variant that keeps the bit it starts from
PrevOneKeeping(bits, i) == Highest({b \in bits : b <= i})

prevOne(bits, i) == Highest({b \in bits : b < i})
=============================================================================
