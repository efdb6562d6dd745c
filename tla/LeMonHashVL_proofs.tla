-------------------------- MODULE LeMonHashVL_proofs -------------------------
(***************************************************************************)
(* The tree of LeMonHashVL and LeMonHashVLIndexed: every node finds two or *)
(* more chunks in increasing order, whatever the alphabets it inherits,    *)
(* and unpacks the positions it packed, and the walk of a query ends at    *)
(* the rank.  The lemmas follow the code: the digits of a chunk, the       *)
(* alphabets that nodes share, the strings of a node, the positions of     *)
(* LeMonHashVLIndexed, the stack of calls, and the steps of the            *)
(* construction; then what a query finds in the part of the tree that is   *)
(* complete, the paths and keys of that part, and the walk.  The entries   *)
(* of the lcps array, which all of it rests on, come first: StringLCP      *)
(* computes them.                                                          *)
(***************************************************************************)
EXTENDS LeMonHashVLIndexed, StringLCP, HashParts_proofs

-----------------------------------------------------------------------------
(***************************************************************************)
(* The longest common prefixes: the strings agree below the loop variable, *)
(* and distinct strings differ at a terminator at the latest, so that it   *)
(* never moves past the shorter one, whatever lies in memory behind the    *)
(* strings and although the limit of the word loop may have wrapped        *)
(* around.                                                                 *)
(***************************************************************************)
PairType ==
    /\ s1 \in ComparedTexts /\ s2 \in ComparedTexts /\ s1 # s2
    /\ after1 \in BytesAfter(s1) /\ after2 \in BytesAfter(s2)
    /\ lcp \in Nat
    /\ loop \in {"words", "bytes", "done"}

\* the strings agree in front of position n
PairAgrees(n) == \A b \in Nat : b < n => SameByte(b)

(***************************************************************************)
(* The inductive invariant: all bytes passed are the same, and the loops   *)
(* are left at a byte that is not.                                         *)
(***************************************************************************)
PairInv ==
    /\ PairType
    /\ PairAgrees(lcp)
    /\ loop = "done" => ~ SameByte(lcp)

\* lengths and characters of the texts
LEMMA PairLengths ==
    ASSUME PairType
    PROVE  /\ Len(s1) \in Nat /\ Len(s2) \in Nat /\ minLength \in Nat
           /\ minLength <= Len(s1) /\ minLength <= Len(s2)
           /\ minLength = Len(s1) \/ minLength = Len(s2)
           /\ \A k \in 1 .. Len(s1) : s1[k] # 0
           /\ \A k \in 1 .. Len(s2) : s2[k] # 0
<1>1. s1 \in Seq(Chars \ {0}) /\ s2 \in Seq(Chars \ {0})
  BY LCPAssumption DEF PairType
<1>2. Len(s1) \in Nat /\ Len(s2) \in Nat
  BY <1>1
<1>3. /\ \A k \in 1 .. Len(s1) : s1[k] \in Chars \ {0}
      /\ \A k \in 1 .. Len(s2) : s2[k] \in Chars \ {0}
  BY <1>1
<1>4. QED
  BY <1>2, <1>3 DEF minLength, Least

(***************************************************************************)
(* Distinct strings do not agree beyond the end of the shorter one: there  *)
(* one of them has its terminator and the other a character, unless they   *)
(* are equally long and differ before.                                     *)
(***************************************************************************)
LEMMA DifferAtTerminator ==
    ASSUME PairType, NEW n \in Nat, PairAgrees(n)
    PROVE  n <= minLength
<1> SUFFICES ASSUME minLength < n PROVE FALSE
  BY PairLengths
<1>1. SameByte(minLength)
  BY PairLengths DEF PairAgrees
<1>2. Len(s1) = Len(s2)
  <2>1. CASE Len(s1) < Len(s2)
    <3>1. minLength = Len(s1) /\ s2[Len(s1) + 1] # 0
      BY <2>1, PairLengths DEF minLength, Least
    <3>2. QED
      BY <1>1, <2>1, <3>1, PairLengths DEF SameByte, Byte
  <2>2. CASE Len(s2) < Len(s1)
    <3>1. minLength = Len(s2) /\ s1[Len(s2) + 1] # 0
      BY <2>2, PairLengths DEF minLength, Least
    <3>2. QED
      BY <1>1, <2>2, <3>1, PairLengths DEF SameByte, Byte
  <2>3. QED
    BY <2>1, <2>2, PairLengths
<1>3. ASSUME NEW k \in 1 .. Len(s1) PROVE s1[k] = s2[k]
  <2>1. k - 1 \in Nat /\ k - 1 < n /\ k - 1 < Len(s1) /\ k - 1 < Len(s2)
    BY <1>2, PairLengths
  <2>2. Byte(s1, k - 1, after1) = Byte(s2, k - 1, after2)
    BY <2>1 DEF PairAgrees, SameByte
  <2>3. QED
    BY <2>1, <2>2 DEF Byte
<1>4. s1 = s2
  <2>1. s1 \in Seq(Chars) /\ s2 \in Seq(Chars)
    BY LCPAssumption DEF PairType
  <2>2. QED
    BY <2>1, <1>2, <1>3
<1>5. QED
  BY <1>4 DEF PairType

(***************************************************************************)
(* A word that is not the same has a first byte that is not.               *)
(***************************************************************************)
LEMMA FirstDifferenceExists ==
    ASSUME lcp \in Nat, ~ SameWord(lcp)
    PROVE  \E j \in lcp .. lcp + WordBytes - 1 :
              ~ SameByte(j) /\ \A k \in lcp .. j - 1 : SameByte(k)
<1> DEFINE Differs == {b \in lcp .. lcp + WordBytes - 1 : ~ SameByte(b)}
           R == {ss \in Nat \X Nat : ss[1] < ss[2]}
<1>1. WordBytes \in Nat
  BY LCPAssumption
<1>2. Differs # {} /\ Differs \subseteq Nat
  BY <1>1 DEF SameWord
<1>3. IsWellFoundedOn(R, Nat)
  BY NatLessThanWellFounded DEF OpToRel
<1>4. PICK j \in Differs : \A b \in Differs : ~ (<<b, j>> \in R)
  <2> HIDE DEF R, Differs
  <2> QED
    BY <1>2, <1>3, WFMin
<1>5. \A b \in Differs : ~ (b < j)
  BY <1>1, <1>2, <1>4
<1>6. \A k \in lcp .. j - 1 : SameByte(k)
  <2> SUFFICES ASSUME NEW k \in lcp .. j - 1, ~ SameByte(k) PROVE FALSE
    OBVIOUS
  <2>1. k \in Differs /\ k < j
    BY <1>1
  <2>2. QED
    BY <1>5, <2>1
<1>7. QED
  BY <1>6

\* a round of the word loop
LEMMA PairWordStep == PairInv /\ CompareWord => PairInv'
<1> SUFFICES ASSUME PairInv, CompareWord PROVE PairInv'
  OBVIOUS
<1> USE DEF PairInv
<1>1. WordBytes \in Nat /\ lcp \in Nat /\ loop = "words"
  BY LCPAssumption DEF PairType, CompareWord
<1>2. UNCHANGED <<s1, s2, after1, after2>>
  BY DEF CompareWord
<1>3. \A b : SameByte(b)' <=> SameByte(b)
  BY <1>2 DEF SameByte
<1>4. CASE lcp < Limit /\ SameWord(lcp)
  <2>1. lcp' = lcp + WordBytes /\ loop' = loop
    BY <1>4 DEF CompareWord
  <2>2. PairType'
    BY <1>1, <1>2, <2>1 DEF PairType, BytesAfter
  <2>3. ASSUME NEW b \in Nat, b < lcp' PROVE SameByte(b)
    <3>1. b < lcp \/ b \in lcp .. lcp + WordBytes - 1
      BY <1>1, <2>1, <2>3
    <3>2. QED
      BY <3>1, <1>4 DEF PairAgrees, SameWord
  <2>4. QED
    BY <1>1, <1>3, <2>1, <2>2, <2>3 DEF PairAgrees
<1>5. CASE lcp < Limit /\ ~ SameWord(lcp)
  <2>1. FirstDifference /\ loop' = "done"
    BY <1>5 DEF CompareWord
  <2>2. /\ lcp' \in lcp .. lcp + WordBytes - 1
        /\ ~ SameByte(lcp')
        /\ \A k \in lcp .. lcp' - 1 : SameByte(k)
    BY <1>1, <1>5, <2>1, FirstDifferenceExists DEF FirstDifference
  <2>3. PairType'
    BY <1>1, <1>2, <2>1, <2>2 DEF PairType, BytesAfter
  <2>4. ASSUME NEW b \in Nat, b < lcp' PROVE SameByte(b)
    <3>1. lcp' \in Int
      BY <1>1, <2>2
    <3>2. b < lcp \/ b \in lcp .. lcp' - 1
      <4> DEFINE next == lcp'
      <4>1. next \in Int /\ b < next /\ lcp \in Nat
        BY <1>1, <2>4, <3>1
      <4> HIDE DEF next
      <4>2. b < lcp \/ b \in lcp .. next - 1
        BY <4>1
      <4>3. QED
        BY <4>2 DEF next
    <3>3. QED
      BY <3>2, <2>2 DEF PairAgrees
  <2>5. QED
    BY <1>3, <2>2, <2>3, <2>4 DEF PairAgrees
<1>6. CASE ~ (lcp < Limit)
  <2>1. loop' = "bytes" /\ lcp' = lcp
    BY <1>6 DEF CompareWord
  <2>2. PairType'
    BY <1>2, <2>1 DEF PairType, BytesAfter
  <2>3. QED
    BY <1>3, <2>1, <2>2 DEF PairAgrees
<1>7. QED
  BY <1>4, <1>5, <1>6

\* a round of the byte loop
LEMMA PairByteStep == PairInv /\ CompareByte => PairInv'
<1> SUFFICES ASSUME PairInv, CompareByte PROVE PairInv'
  OBVIOUS
<1> USE DEF PairInv
<1>1. lcp \in Nat /\ lcp <= minLength
  BY DifferAtTerminator DEF PairType
<1>2. UNCHANGED <<s1, s2, after1, after2>>
  BY DEF CompareByte
<1>3. \A b : SameByte(b)' <=> SameByte(b)
  BY <1>2 DEF SameByte
<1>4. CASE lcp < minLength /\ SameByte(lcp)
  <2>1. lcp' = lcp + 1 /\ loop' = "bytes"
    BY <1>4 DEF CompareByte
  <2>2. PairType'
    BY <1>1, <1>2, <2>1 DEF PairType, BytesAfter
  <2>3. ASSUME NEW b \in Nat, b < lcp' PROVE SameByte(b)
    <3>1. b < lcp \/ b = lcp
      BY <1>1, <2>1, <2>3
    <3>2. QED
      BY <3>1, <1>4 DEF PairAgrees
  <2>4. QED
    BY <1>3, <2>1, <2>2, <2>3 DEF PairAgrees
<1>5. CASE ~ (lcp < minLength /\ SameByte(lcp))
  <2>1. loop' = "done" /\ lcp' = lcp
    BY <1>5 DEF CompareByte
  <2>2. ~ SameByte(lcp)
    <3> SUFFICES ASSUME SameByte(lcp) PROVE FALSE
      OBVIOUS
    <3>1. lcp = minLength
      BY <1>1, <1>5, PairLengths
    <3>2. PairAgrees(lcp + 1)
      <4> SUFFICES ASSUME NEW b \in Nat, b < lcp + 1 PROVE SameByte(b)
        BY DEF PairAgrees
      <4>1. b < lcp \/ b = lcp
        BY <1>1
      <4>2. QED
        BY <4>1 DEF PairAgrees
    <3>3. lcp + 1 <= minLength
      BY <1>1, <3>2, DifferAtTerminator
    <3>4. QED
      BY <1>1, <3>1, <3>3
  <2>3. PairType'
    BY <1>2, <2>1 DEF PairType, BytesAfter
  <2>4. QED
    BY <1>3, <2>1, <2>2, <2>3 DEF PairAgrees
<1>6. QED
  BY <1>4, <1>5

(***************************************************************************)
(* Whatever the strings and the memory behind them, the bytes passed are   *)
(* the same in both.                                                       *)
(***************************************************************************)
THEOREM PairInvariance == CompareSpec => []PairInv
<1>1. CompareInit => PairInv
  BY DEF CompareInit, PairInv, PairType, PairAgrees
<1>2. PairInv /\ [CompareNext]_compareVars => PairInv'
  <2> SUFFICES ASSUME PairInv, [CompareNext]_compareVars PROVE PairInv'
    OBVIOUS
  <2>1. CASE CompareWord
    BY <2>1, PairWordStep
  <2>2. CASE CompareByte
    BY <2>2, PairByteStep
  <2>3. CASE UNCHANGED compareVars
    BY <2>3 DEF PairInv, PairType, PairAgrees, SameByte, BytesAfter, compareVars
  <2>4. QED
    BY <2>1, <2>2, <2>3 DEF CompareNext
<1>3. QED
  BY <1>1, <1>2, PTL DEF CompareSpec

(***************************************************************************)
(* The word loop never starts behind the end of the shorter string, even   *)
(* if minLength - 8 has wrapped around.                                    *)
(***************************************************************************)
THEOREM PairReadsTheorem == CompareSpec => []ReadsStayClose
<1>1. PairInv => ReadsStayClose
  BY DifferAtTerminator DEF PairInv, PairType, ReadsStayClose
<1>2. QED
  BY <1>1, PairInvariance, PTL

(***************************************************************************)
(* The result is the longest common prefix of the two strings, and the     *)
(* characters recorded as branching are those that tell them apart.        *)
(***************************************************************************)
THEOREM PairLCPTheorem == CompareSpec => []LCPExact
<1>1. PairInv => LCPExact
  <2> SUFFICES ASSUME PairInv, loop = "done"
               PROVE  /\ lcp <= minLength
                      /\ \A j \in 1 .. lcp : s1[j] = s2[j]
                      /\ BranchingCharacter(s1) # BranchingCharacter(s2)
    BY DEF LCPExact
  <2>1. lcp \in Nat /\ lcp <= minLength
    BY DifferAtTerminator DEF PairInv, PairType
  <2>2. lcp <= Len(s1) /\ lcp <= Len(s2) /\ Len(s1) \in Nat /\ Len(s2) \in Nat
    BY <2>1, PairLengths DEF PairInv
  <2>3. ASSUME NEW j \in 1 .. lcp PROVE s1[j] = s2[j]
    <3>1. j - 1 \in Nat /\ j - 1 < lcp
      BY <2>1
    <3>2. Byte(s1, j - 1, after1) = Byte(s2, j - 1, after2)
      BY <3>1 DEF PairInv, PairAgrees, SameByte
    <3>3. QED
      BY <2>1, <2>2, <3>1, <3>2 DEF Byte
  <2>4. BranchingCharacter(s1) # BranchingCharacter(s2)
    BY <2>1, <2>2 DEF PairInv, SameByte, Byte, BranchingCharacter
  <2>5. QED
    BY <2>1, <2>3, <2>4
<1>2. QED
  BY <1>1, PairInvariance, PTL

(***************************************************************************)
(* What the word loop computes is what LCP says, the prefixes by which the *)
(* tree and RSHash for strings are built.                                  *)
(***************************************************************************)
CommonPrefix == loop = "done" =>
    LCP(s1, s2) = [lcp |-> lcp,
                   branchingCharacters |-> {BranchingCharacter(s1),
                                            BranchingCharacter(s2)}]

\* the loop leaves at the longest common prefix
LEMMA PrefixFound ==
    ASSUME PairInv, LCPExact
    PROVE  CommonPrefix
<1> SUFFICES ASSUME loop = "done"
             PROVE  LCP(s1, s2)
                       = [lcp |-> lcp,
                          branchingCharacters |-> {BranchingCharacter(s1),
                                                   BranchingCharacter(s2)}]
  BY DEF CommonPrefix
<1> DEFINE shorter == Least(Len(s1), Len(s2))
           P(j) == /\ \A k \in 1 .. j : s1[k] = s2[k]
                   /\ j < shorter => s1[j + 1] # s2[j + 1]
<1>1. Len(s1) \in Nat /\ Len(s2) \in Nat /\ lcp \in Nat /\ lcp <= minLength
  BY PairLengths DEF PairInv, PairType, LCPExact
<1>2. minLength = shorter /\ shorter \in Nat
      /\ shorter <= Len(s1) /\ shorter <= Len(s2)
  BY <1>1 DEF minLength, Least
<1>3. /\ \A j \in 1 .. lcp : s1[j] = s2[j]
      /\ BranchingCharacter(s1) # BranchingCharacter(s2)
  BY DEF LCPExact
<1> HIDE DEF shorter
<1>4. lcp \in 0 .. shorter /\ P(lcp)
  BY <1>1, <1>2, <1>3 DEF BranchingCharacter
<1>5. ASSUME NEW j \in 0 .. shorter, P(j)
      PROVE  j = lcp
  <2>1. ~ (j < lcp)
    <3> SUFFICES ASSUME j < lcp PROVE FALSE
      OBVIOUS
    <3>1. j < shorter /\ j + 1 \in 1 .. lcp
      BY <1>1, <1>2
    <3>2. QED
      BY <1>3, <1>5, <3>1
  <2>2. ~ (lcp < j)
    <3> SUFFICES ASSUME lcp < j PROVE FALSE
      OBVIOUS
    <3>1. lcp < shorter /\ lcp + 1 \in 1 .. j
      BY <1>1, <1>2
    <3>2. QED
      BY <1>4, <1>5, <3>1
  <2>3. QED
    BY <1>1, <1>2, <2>1, <2>2
<1>6. (CHOOSE j \in 0 .. shorter : P(j)) = lcp
  <2> HIDE DEF P
  <2>1. QED
    BY <1>4, <1>5
<1>7. LCP(s1, s2) = [lcp |-> lcp,
                     branchingCharacters |-> {Byte(s1, lcp, <<>>),
                                              Byte(s2, lcp, <<>>)}]
  <2>1. PICK n : n = CHOOSE j \in 0 .. shorter : P(j)
    OBVIOUS
  <2>2. n = CHOOSE j \in 0 .. Least(Len(s1), Len(s2)) :
               /\ \A k \in 1 .. j : s1[k] = s2[k]
               /\ j < Least(Len(s1), Len(s2)) => s1[j + 1] # s2[j + 1]
    BY <2>1 DEF shorter
  <2>3. LCP(s1, s2) = [lcp |-> n,
                             branchingCharacters |-> {Byte(s1, n, <<>>),
                                                      Byte(s2, n, <<>>)}]
    BY <2>2 DEF LCP
  <2> HIDE DEF P
  <2>4. QED
    BY <1>6, <2>1, <2>3
<1>8. /\ Byte(s1, lcp, <<>>) = BranchingCharacter(s1)
      /\ Byte(s2, lcp, <<>>) = BranchingCharacter(s2)
  BY <1>1, <1>2 DEF Byte, BranchingCharacter
<1>9. QED
  BY <1>7, <1>8

(***************************************************************************)
(* For every pair of distinct strings, whatever lies in memory behind      *)
(* them, the word loop computes the entry of the lcps array.               *)
(***************************************************************************)
THEOREM CommonPrefixTheorem == CompareSpec => []CommonPrefix
<1>1. PairInv /\ LCPExact => CommonPrefix
  BY PrefixFound
<1>2. QED
  BY <1>1, PairInvariance, PairLCPTheorem, PTL

-----------------------------------------------------------------------------
(* Alphabets, and the digits of a chunk. *)

\* the base that the length of an alphabet is computed with
BaseOf(map) == IF Cardinality(map) < 2 THEN 2 ELSE Cardinality(map)

\* an alphabet is finite
LEMMA AlphabetSize ==
    ASSUME NEW map \in SUBSET Chars
    PROVE  /\ IsFiniteSet(map) /\ Cardinality(map) \in Nat
           /\ Cardinality(map) <= Cardinality(Chars)
           /\ \A c \in map : c \in Nat
  BY CharsFinite, FS_Subset, FS_CardinalityType

\* powers of the bases in use
LEMMA BasePowers ==
    ASSUME NEW b \in 1 .. Cardinality(Chars) \cup {2}, NEW n \in 0 .. ChunkBits
    PROVE  Powers(b, n)
<1>1. n \in Nat /\ ChunkBits \in Nat /\ b \in Nat \ {0}
  BY CharsFinite, AlphabetMapAssumption
<1>2. \A k \in 0 .. n : k \in 0 .. ChunkBits
  BY <1>1
<1>3. QED
  BY <1>1, <1>2, DigitsAssumption DEF Powers

\* a larger base has larger powers
LEMMA LargerBase ==
    ASSUME NEW b \in Nat, b >= 2, Powers(b, ChunkBits), Powers(2, ChunkBits)
    PROVE  2^ChunkBits <= b^ChunkBits
<1> DEFINE n == ChunkBits
           T == {k \in Nat : k <= n => 2^k <= b^k}
<1>1. n \in Nat
  BY AlphabetMapAssumption
<1>2. /\ \A k \in 0 .. n : b^k \in Nat /\ b^0 = 1 /\ b^(k + 1) = b^k * b
      /\ \A k \in 0 .. n : 2^k \in Nat /\ 2^0 = 1 /\ 2^(k + 1) = 2^k * 2
  BY DEF Powers
<1> HIDE DEF n
<1>3. 0 \in T
  <2>1. 0 \in 0 .. n
    BY <1>1
  <2>2. QED
    BY <1>2, <2>1
<1>4. ASSUME NEW k \in Nat, k \in T PROVE k + 1 \in T
  <2> SUFFICES ASSUME k + 1 <= n PROVE 2^(k + 1) <= b^(k + 1)
    OBVIOUS
  <2>1. k \in 0 .. n /\ 2^k <= b^k
    BY <1>1, <1>4
  <2>2. \A x \in Nat, y \in Nat : x <= y => x * 2 <= y * b
    <3> SUFFICES ASSUME NEW x \in Nat, NEW y \in Nat, x <= y PROVE x * 2 <= y * b
      OBVIOUS
    <3>1. x * 2 <= y * 2
      OBVIOUS
    <3>2. y * 2 <= y * b
      OBVIOUS
    <3>3. y * b \in Nat
      OBVIOUS
    <3>4. QED
      BY <3>1, <3>2, <3>3
  <2>3. QED
    BY <1>2, <2>1, <2>2
<1>5. Nat \subseteq T
  <2> HIDE DEF T
  <2> QED
    BY <1>3, <1>4, AllNaturals
<1>6. QED
  BY <1>1, <1>5 DEF n

\* digits fit a chunk, one at least
LEMMA LengthFits ==
    ASSUME NEW map \in SUBSET Chars
    PROVE  /\ length64(map) \in 0 .. ChunkBits /\ length64(map) \in Nat
           /\ BaseOf(map)^length64(map) <= 2^ChunkBits
           /\ Powers(BaseOf(map), length64(map))
           /\ Cardinality(map) >= 2 => length64(map) >= 1
<1> DEFINE b == BaseOf(map)
           m == 2^ChunkBits
           Fits(n) == b^n <= m /\ b^(n + 1) > m
           T == {n \in 0 .. ChunkBits : b^n <= m}
<1>1. /\ ChunkBits \in Nat /\ m \in Nat /\ b \in Nat /\ b >= 2 /\ Cardinality(map) \in Nat
      /\ b \in 1 .. Cardinality(Chars) \cup {2} /\ 2 \in 1 .. Cardinality(Chars) \cup {2}
      /\ m >= 1 /\ (Cardinality(map) >= 2 => b <= m)
  <2>1. Cardinality(Chars) >= 1
    <3>1. Cardinality(Chars) # 0
      BY CharsFinite, FS_EmptySet
    <3>2. QED
      BY <3>1, CharsFinite
  <2>2. QED
    BY <2>1, AlphabetSize, CharsFinite, AlphabetMapAssumption, DigitsAssumption DEF BaseOf
<1>2. \A n \in 0 .. ChunkBits : b^n \in Nat /\ b^0 = 1 /\ b^(n + 1) = b^n * b
  BY <1>1, DigitsAssumption
<1>3. Powers(b, ChunkBits) /\ Powers(2, ChunkBits)
  BY <1>1, BasePowers
<1> HIDE DEF b, m
<1>4. T \in SUBSET Nat /\ 0 \in T /\ \A n \in T : n <= ChunkBits
  BY <1>1, <1>2
<1>5. PICK n \in T : \A k \in T : k <= n
  <2> HIDE DEF T
  <2> QED
    BY <1>1, <1>4, GreatestOf
<1>6. n \in 0 .. ChunkBits /\ Fits(n)
  <2>1. CASE n < ChunkBits
    <3>1. n + 1 \in 0 .. ChunkBits /\ n + 1 \notin T
      <4>1. n \in 0 .. ChunkBits /\ n + 1 \in 0 .. ChunkBits
        BY <1>1, <2>1
      <4>2. n + 1 \in T => n + 1 <= n
        BY <1>5
      <4>3. QED
        BY <1>1, <4>1, <4>2
    <3>2. b^(n + 1) \in Nat
      BY <1>2, <3>1
    <3>3. QED
      BY <1>1, <3>1, <3>2
  <2>2. CASE n = ChunkBits
    <3>1. m <= b^ChunkBits
      BY <1>1, <1>3, LargerBase DEF m
    <3>2. b^(n + 1) = b^n * b /\ b^n \in Nat
      BY <1>2
    <3>3. \A x \in Nat : m <= x => x * b > m
      <4> SUFFICES ASSUME NEW x \in Nat, m <= x PROVE x * b > m
        OBVIOUS
      <4>1. x * 2 <= x * b /\ x * b \in Nat
        BY <1>1
      <4>2. x * 2 > m
        BY <1>1
      <4>3. QED
        BY <1>1, <4>1, <4>2
    <3>4. QED
      BY <2>2, <3>1, <3>2, <3>3
  <2>3. QED
    BY <1>1, <2>1, <2>2
<1>7. length64(map) = CHOOSE k \in 0 .. ChunkBits : Fits(k)
  BY DEF length64, b, BaseOf, m
<1>8. length64(map) \in 0 .. ChunkBits /\ Fits(length64(map))
  BY <1>6, <1>7
<1>9. Cardinality(map) >= 2 => length64(map) >= 1
  <2> SUFFICES ASSUME Cardinality(map) >= 2, length64(map) = 0 PROVE FALSE
    BY <1>1, <1>8
  <2>1. b^(0 + 1) = b^0 * b /\ b^0 = 1 /\ b^(0 + 1) > m
    BY <1>1, <1>2, <1>8
  <2>2. QED
    BY <1>1, <2>1
<1>10. Powers(b, length64(map))
  BY <1>1, <1>8, BasePowers
<1>11. QED
  BY <1>1, <1>8, <1>9, <1>10 DEF b, m

-----------------------------------------------------------------------------
\* the k-th digit of a chunk
Reads(s, positions, k) ==
    k <= Len(positions) /\ \A j \in 1 .. k : positions[j] < Len(s)

DigitAt(map, s, positions, k) ==
    IF Reads(s, positions, k)
    THEN Least(rank(map, Byte(s, positions[k], <<>>)), Cardinality(map) - 1)
    ELSE 0

DigitsOf(map, s, positions) ==
    [k \in 1 .. length64(map) |-> DigitAt(map, s, positions, k)]

\* readChunk returns the number written with the digits
LEMMA ChunkIsNumber ==
    ASSUME NEW map \in SUBSET Chars, NEW s, NEW positions
    PROVE  \E c : /\ readChunk(map, s, positions) = c[length64(map)]
                  /\ IsNumber(c, DigitsOf(map, s, positions), Cardinality(map),
                              length64(map))
<1> DEFINE n == length64(map)
           b == Cardinality(map)
           Present(k) == k <= Len(positions) /\ \A j \in 1 .. k : positions[j] < Len(s)
           Digit(k) == IF Present(k)
                       THEN Least(rank(map, Byte(s, positions[k], <<>>)), b - 1)
                       ELSE 0
           body(f) == [k \in 0 .. n |-> IF k = 0 THEN 0
                                        ELSE (f[k - 1] * b + Digit(k)) % 2^ChunkBits]
           d == DigitsOf(map, s, positions)
           c == CHOOSE f : f = body(f)
<1>0. n \in Nat
  BY LengthFits
<1>1. readChunk(map, s, positions) = c[n]
  BY DEF readChunk
<1>2. \A k \in 1 .. n : d[k] = Digit(k)
  BY DEF DigitsOf, DigitAt, Reads
<1>3. PICK f : f = [k \in 0 .. n |-> IF k = 0 THEN 0
                                     ELSE (f[k - 1] * b + d[k]) % 2^ChunkBits]
  <2> HIDE DEF d, b, n
  <2> QED
    BY <1>0, ZenonT(30), NumberExists
<1> HIDE DEF d, Digit
<1>4. f = body(f)
  <2>1. \A k \in 0 .. n : k # 0 => k \in 1 .. n
    BY <1>0
  <2>2. QED
    BY <1>2, <1>3, <2>1
<1>5. c = body(c)
  <2> HIDE DEF body
  <2> QED
    BY <1>4
<1> HIDE DEF c
<1>6. IsNumber(c, d, b, n)
  <2>1. c[0] = 0
    BY <1>0, <1>5
  <2>2. ASSUME NEW k \in 1 .. n PROVE c[k] = (c[k - 1] * b + d[k]) % 2^ChunkBits
    <3>1. k \in 0 .. n /\ k # 0
      BY <1>0
    <3>2. c[k] = (c[k - 1] * b + Digit(k)) % 2^ChunkBits
      BY <1>5, <3>1
    <3>3. QED
      BY <1>2, <3>2
  <2>3. QED
    BY <2>1, <2>2 DEF IsNumber
<1>7. QED
  BY <1>1, <1>6 DEF d

\* digits are below the base
LEMMA DigitsBelow ==
    ASSUME NEW map \in SUBSET Chars, map # {}, NEW s, NEW positions
    PROVE  \A k \in 1 .. length64(map) :
              DigitsOf(map, s, positions)[k] \in 0 .. Cardinality(map) - 1
<1> SUFFICES ASSUME NEW k \in 1 .. length64(map)
             PROVE  DigitAt(map, s, positions, k) \in 0 .. Cardinality(map) - 1
  BY DEF DigitsOf
<1>1. Cardinality(map) \in Nat /\ Cardinality(map) # 0
  BY AlphabetSize, FS_EmptySet
<1>2. rank(map, Byte(s, positions[k], <<>>)) \in Nat
  BY RankOfAny
<1>3. QED
  BY <1>1, <1>2 DEF DigitAt, Least

\* numbers with the same digits are the same
LEMMA SameNumber ==
    ASSUME NEW b, NEW n \in Nat, NEW d1, NEW d2, NEW c1, NEW c2,
           IsNumber(c1, d1, b, n), IsNumber(c2, d2, b, n),
           \A k \in 1 .. n : d1[k] = d2[k]
    PROVE  c1[n] = c2[n]
<1> DEFINE T == {k \in Nat : k <= n => c1[k] = c2[k]}
<1>1. 0 \in T
  BY DEF IsNumber
<1>2. ASSUME NEW k \in Nat, k \in T PROVE k + 1 \in T
  <2> SUFFICES ASSUME k + 1 <= n PROVE c1[k + 1] = c2[k + 1]
    OBVIOUS
  <2>1. k + 1 \in 1 .. n /\ (k + 1) - 1 = k /\ c1[k] = c2[k]
    BY <1>2
  <2>2. /\ c1[k + 1] = (c1[k] * b + d1[k + 1]) % 2^ChunkBits
        /\ c2[k + 1] = (c2[k] * b + d2[k + 1]) % 2^ChunkBits
    BY <2>1 DEF IsNumber
  <2>3. QED
    BY <2>1, <2>2
<1>3. Nat \subseteq T
  <2> HIDE DEF T
  <2> QED
    BY <1>1, <1>2, AllNaturals
<1>4. QED
  BY <1>3

\* chunks are numbers
LEMMA ChunkType ==
    ASSUME NEW map \in SUBSET Chars, Cardinality(map) >= 2, NEW s, NEW positions
    PROVE  readChunk(map, s, positions) \in Nat
<1> DEFINE n == length64(map)
           b == Cardinality(map)
           d == DigitsOf(map, s, positions)
<1>1. Powers(b, n) /\ b^n <= 2^ChunkBits /\ n \in Nat
  BY LengthFits, AlphabetSize DEF BaseOf
<1>2. map # {}
  BY FS_EmptySet
<1>3. PICK c : readChunk(map, s, positions) = c[n] /\ IsNumber(c, d, b, n)
  BY ChunkIsNumber
<1>4. \A k \in 1 .. n : d[k] \in 0 .. b - 1
  BY <1>2, DigitsBelow
<1> HIDE DEF n, b, d
<1>5. \A k \in 0 .. n : c[k] \in Nat
  BY <1>1, <1>3, <1>4, NumberExact
<1>6. QED
  BY <1>1, <1>3, <1>5

-----------------------------------------------------------------------------
(* The chunks of neighbours. *)

\* s is followed by t, and the alphabet has the characters at which they differ
Branches(map, s, t, n) ==
    /\ n \in Nat /\ n <= Len(s) /\ n < Len(t)
    /\ \A k \in 1 .. n : s[k] = t[k]
    /\ Byte(s, n, <<>>) < Byte(t, n, <<>>)
    /\ Byte(s, n, <<>>) \in map /\ Byte(t, n, <<>>) \in map

\* what is in front of the branch is the same
LEMMA SameDigit ==
    ASSUME NEW map \in SUBSET Chars, NEW s \in Texts, NEW t \in Texts, NEW n,
           Branches(map, s, t, n), NEW positions, NEW k \in Nat \ {0},
           k <= Len(positions) => \A j \in 1 .. k : positions[j] \in Nat /\ positions[j] < n
    PROVE  DigitAt(map, s, positions, k) = DigitAt(map, t, positions, k)
<1>1. n \in Nat /\ n <= Len(s) /\ n < Len(t) /\ Len(s) \in Nat /\ Len(t) \in Nat
      /\ \A j \in 1 .. n : s[j] = t[j]
  BY DEF Branches, Texts
<1>2. CASE k <= Len(positions)
  <2>1. \A j \in 1 .. k : positions[j] < Len(s) /\ positions[j] < Len(t)
    BY <1>1, <1>2
  <2>2. k \in 1 .. k
    OBVIOUS
  <2>3. positions[k] \in Nat /\ positions[k] < n /\ positions[k] + 1 \in 1 .. n
    BY <1>1, <1>2, <2>2
  <2>4. Byte(s, positions[k], <<>>) = Byte(t, positions[k], <<>>)
    BY <1>1, <2>1, <2>2, <2>3 DEF Byte
  <2>5. Reads(s, positions, k) /\ Reads(t, positions, k)
    BY <1>2, <2>1 DEF Reads
  <2>6. QED
    BY <2>4, <2>5 DEF DigitAt
<1>3. CASE ~ (k <= Len(positions))
  BY <1>3 DEF DigitAt, Reads
<1>4. QED
  BY <1>2, <1>3

(***************************************************************************)
(* Texts that branch behind all positions a chunk is read from have the  *)
(* same chunk.                                                             *)
(***************************************************************************)
LEMMA ChunkStays ==
    ASSUME NEW map \in SUBSET Chars, NEW s \in Texts, NEW t \in Texts, NEW n,
           Branches(map, s, t, n), NEW positions, Len(positions) \in Nat,
           \A k \in 1 .. Len(positions) :
              k <= length64(map) => positions[k] \in Nat /\ positions[k] < n
    PROVE  readChunk(map, s, positions) = readChunk(map, t, positions)
<1> DEFINE w == length64(map)
           b == Cardinality(map)
           d1 == DigitsOf(map, s, positions)
           d2 == DigitsOf(map, t, positions)
<1>1. w \in Nat
  BY LengthFits
<1>2. ASSUME NEW k \in 1 .. w PROVE d1[k] = d2[k]
  <2>1. k \in Nat \ {0}
    BY <1>1
  <2>2. k <= Len(positions) =>
          \A j \in 1 .. k : positions[j] \in Nat /\ positions[j] < n
    BY <1>1, <2>1
  <2>3. DigitAt(map, s, positions, k) = DigitAt(map, t, positions, k)
    BY <2>1, <2>2, SameDigit
  <2>4. QED
    BY <2>3 DEF DigitsOf
<1>3. PICK c1 : readChunk(map, s, positions) = c1[w] /\ IsNumber(c1, d1, b, w)
  BY ChunkIsNumber
<1>4. PICK c2 : readChunk(map, t, positions) = c2[w] /\ IsNumber(c2, d2, b, w)
  BY ChunkIsNumber
<1> HIDE DEF w, b, d1, d2
<1>5. c1[w] = c2[w]
  BY <1>1, <1>2, <1>3, <1>4, SameNumber
<1>6. QED
  BY <1>3, <1>4, <1>5

\* digits of a base, and digits that are the same in front of one that is less
BaseDigits(d, b, n) == \A k \in 1 .. n : d[k] \in 0 .. b - 1
DigitsGrow(d1, d2, q) == (\A k \in 1 .. q - 1 : d1[k] = d2[k]) /\ d1[q] < d2[q]

\* of two numbers the one with the first smaller digit is smaller
LEMMA NumberGrows ==
    ASSUME NEW b, NEW n, Powers(b, n), b^n <= 2^ChunkBits,
           NEW c1, NEW d1, IsNumber(c1, d1, b, n), BaseDigits(d1, b, n),
           NEW c2, NEW d2, IsNumber(c2, d2, b, n), BaseDigits(d2, b, n),
           NEW q \in 1 .. n, DigitsGrow(d1, d2, q)
    PROVE  c1[n] < c2[n]
  BY SmallerNumber DEF BaseDigits, DigitsGrow

(***************************************************************************)
(* Texts that branch at a position a chunk is read from have chunks in   *)
(* their order.                                                            *)
(***************************************************************************)
LEMMA ChunkGrows ==
    ASSUME NEW map \in SUBSET Chars, NEW s \in Texts, NEW t \in Texts, NEW n,
           Branches(map, s, t, n), NEW positions, Len(positions) \in Nat,
           NEW q \in 1 .. Len(positions), q <= length64(map), positions[q] = n,
           \A k \in 1 .. q - 1 : positions[k] \in Nat /\ positions[k] < n
    PROVE  readChunk(map, s, positions) < readChunk(map, t, positions)
<1> DEFINE w == length64(map)
           b == Cardinality(map)
           d1 == DigitsOf(map, s, positions)
           d2 == DigitsOf(map, t, positions)
           c == Byte(s, n, <<>>)
           e == Byte(t, n, <<>>)
<1>1. /\ n \in Nat /\ n <= Len(s) /\ n < Len(t) /\ Len(s) \in Nat /\ Len(t) \in Nat
      /\ c \in map /\ e \in map /\ c < e /\ \A j \in 1 .. n : s[j] = t[j]
  BY DEF Branches, Texts
<1>2. /\ rank(map, c) \in Nat /\ rank(map, e) \in Nat
      /\ rank(map, c) < rank(map, e) /\ rank(map, e) < b
  BY <1>1, RankInAlphabet
<1>3. b \in Nat /\ b >= 2 /\ map # {}
  BY <1>1, <1>2, AlphabetSize
<1>4. w \in Nat /\ Powers(b, w) /\ b^w <= 2^ChunkBits /\ q \in 1 .. w /\ q \in Nat \ {0}
  BY <1>3, LengthFits DEF BaseOf
<1>5. ASSUME NEW k \in 1 .. q - 1 PROVE d1[k] = d2[k]
  <2>1. k \in Nat \ {0} /\ \A j \in 1 .. k : j \in 1 .. q - 1
    BY <1>4
  <2>2. DigitAt(map, s, positions, k) = DigitAt(map, t, positions, k)
    BY <2>1, SameDigit
  <2>3. k \in 1 .. w
    BY <1>4
  <2>4. QED
    BY <2>2, <2>3 DEF DigitsOf
<1>6. d1[q] < d2[q]
  <2>1. d1[q] = DigitAt(map, s, positions, q) /\ d2[q] = DigitAt(map, t, positions, q)
    BY <1>4 DEF DigitsOf
  <2>2. \A j \in 1 .. q : j = q \/ j \in 1 .. q - 1
    BY <1>4
  <2>3. Reads(t, positions, q)
    <3>1. \A j \in 1 .. q : positions[j] < Len(t)
      BY <1>1, <2>2
    <3>2. QED
      BY <3>1 DEF Reads
  <2>4. DigitAt(map, t, positions, q) = rank(map, e)
    BY <1>2, <1>3, <2>3 DEF DigitAt, Least
  <2>5. CASE n < Len(s)
    <3>1. \A j \in 1 .. q : positions[j] < Len(s)
      BY <1>1, <2>2, <2>5
    <3>2. Reads(s, positions, q)
      BY <3>1 DEF Reads
    <3>3. DigitAt(map, s, positions, q) = rank(map, c)
      BY <1>2, <1>3, <3>2 DEF DigitAt, Least
    <3>4. QED
      BY <1>2, <2>1, <2>4, <3>3
  <2>6. CASE n = Len(s)
    <3>1. q \in 1 .. q /\ ~ (positions[q] < Len(s))
      BY <1>1, <1>4, <2>6
    <3>2. ~ Reads(s, positions, q)
      BY <3>1 DEF Reads
    <3>3. DigitAt(map, s, positions, q) = 0
      BY <3>2 DEF DigitAt
    <3>4. QED
      BY <1>2, <2>1, <2>4, <3>3
  <2>7. QED
    BY <1>1, <2>5, <2>6
<1>7. /\ \A k \in 1 .. w : d1[k] \in 0 .. b - 1
      /\ \A k \in 1 .. w : d2[k] \in 0 .. b - 1
  BY <1>3, DigitsBelow
<1>8. PICK c1 : readChunk(map, s, positions) = c1[w] /\ IsNumber(c1, d1, b, w)
  BY ChunkIsNumber
<1>9. PICK c2 : readChunk(map, t, positions) = c2[w] /\ IsNumber(c2, d2, b, w)
  BY ChunkIsNumber
<1> HIDE DEF w, b, d1, d2
<1>10. c1[w] < c2[w]
  <2>1. BaseDigits(d1, b, w) /\ BaseDigits(d2, b, w)
    BY <1>7 DEF BaseDigits
  <2>2. DigitsGrow(d1, d2, q)
    BY <1>5, <1>6 DEF DigitsGrow
  <2>3. QED
    BY <1>4, <1>8, <1>9, <2>1, <2>2, NumberGrows
<1>11. QED
  BY <1>8, <1>9, <1>10

-----------------------------------------------------------------------------
(* The alphabets that nodes share. *)

AlphabetsOK(maps) ==
    /\ maps.maps7 \in Seq(SUBSET Chars) /\ maps.maps8 \in Seq(SUBSET Chars)
    /\ maps = [maps7 |-> maps.maps7, maps8 |-> maps.maps8]

\* a number that an alphabet has
Numbered(maps, index) ==
    /\ index \in Nat
    /\ IF index % 2 = 1 THEN index \div 2 + 1 \in 1 .. Len(maps.maps8)
                        ELSE index \div 2 + 1 \in 1 .. Len(maps.maps7)

\* alphabets were added behind the others
Longer(list, later) ==
    Len(list) <= Len(later) /\ \A k \in 1 .. Len(list) : later[k] = list[k]

Grown(maps, later) ==
    Longer(maps.maps7, later.maps7) /\ Longer(maps.maps8, later.maps8)

\* the alphabet with a number
LEMMA AlphabetOf ==
    ASSUME NEW maps, AlphabetsOK(maps), NEW index, Numbered(maps, index)
    PROVE  MapAt(maps, index) \in SUBSET Chars
<1>1. CASE index % 2 = 1
  <2>1. index \div 2 + 1 \in 1 .. Len(maps.maps8)
    BY <1>1 DEF Numbered
  <2>2. maps.maps8[index \div 2 + 1] \in SUBSET Chars
    BY <2>1 DEF AlphabetsOK
  <2>3. QED
    BY <1>1, <2>2 DEF MapAt
<1>2. CASE index % 2 # 1
  <2>1. index \div 2 + 1 \in 1 .. Len(maps.maps7)
    BY <1>2 DEF Numbered
  <2>2. maps.maps7[index \div 2 + 1] \in SUBSET Chars
    BY <2>1 DEF AlphabetsOK
  <2>3. QED
    BY <1>2, <2>2 DEF MapAt
<1>3. QED
  BY <1>1, <1>2

\* a number goes on to name its alphabet
LEMMA AlphabetStays ==
    ASSUME NEW maps, AlphabetsOK(maps), NEW later, AlphabetsOK(later),
           Grown(maps, later), NEW index, Numbered(maps, index)
    PROVE  Numbered(later, index) /\ MapAt(later, index) = MapAt(maps, index)
<1>1. /\ Len(maps.maps7) \in Nat /\ Len(later.maps7) \in Nat
      /\ Len(maps.maps8) \in Nat /\ Len(later.maps8) \in Nat
      /\ Len(maps.maps7) <= Len(later.maps7) /\ Len(maps.maps8) <= Len(later.maps8)
  BY DEF AlphabetsOK, Grown, Longer
<1>2. CASE index % 2 = 1
  <2>1. index \in Nat /\ index \div 2 + 1 \in 1 .. Len(maps.maps8)
    BY <1>2 DEF Numbered
  <2>2. later.maps8[index \div 2 + 1] = maps.maps8[index \div 2 + 1]
    BY <2>1 DEF Grown, Longer
  <2>3. QED
    BY <1>1, <1>2, <2>1, <2>2 DEF MapAt, Numbered
<1>3. CASE index % 2 # 1
  <2>1. index \in Nat /\ index \div 2 + 1 \in 1 .. Len(maps.maps7)
    BY <1>3 DEF Numbered
  <2>2. later.maps7[index \div 2 + 1] = maps.maps7[index \div 2 + 1]
    BY <2>1 DEF Grown, Longer
  <2>3. QED
    BY <1>1, <1>3, <2>1, <2>2 DEF MapAt, Numbered
<1>4. QED
  BY <1>2, <1>3

\* alphabets are added twice
LEMMA GrownTwice ==
    ASSUME NEW maps, AlphabetsOK(maps), NEW later, AlphabetsOK(later),
           NEW last, AlphabetsOK(last), Grown(maps, later), Grown(later, last)
    PROVE  Grown(maps, last)
  BY DEF AlphabetsOK, Grown, Longer

(***************************************************************************)
(* The place of a similar alphabet, or the next one.                       *)
(***************************************************************************)
LEMMA Place ==
    ASSUME NEW list \in Seq(SUBSET Chars), NEW map \in SUBSET Chars
    PROVE  /\ PlaceIn(list, map) \in 1 .. Len(list) + 1
           /\ PlaceIn(list, map) <= Len(list) => map \subseteq list[PlaceIn(list, map)]
<1> DEFINE similar == {k \in 1 .. Len(list) : Similar(list[k], map)}
<1>1. Len(list) \in Nat
  OBVIOUS
<1>2. CASE similar = {}
  BY <1>1, <1>2 DEF PlaceIn
<1>3. CASE similar # {}
  <2>1. similar \in SUBSET Nat
    OBVIOUS
  <2>2. \E k \in similar : \A other \in similar : k <= other
    <3> HIDE DEF similar
    <3> QED
      BY <1>3, <2>1, LeastOf
  <2>3. PlaceIn(list, map) \in similar
    BY <1>3, <2>2 DEF PlaceIn
  <2>4. QED
    BY <1>1, <2>3 DEF Similar
<1>4. QED
  BY <1>2, <1>3

(***************************************************************************)
(* The number that addOrFindSimilar returns names an alphabet with all     *)
(* characters of the given one.                                            *)
(***************************************************************************)
LEMMA Added ==
    ASSUME NEW maps, AlphabetsOK(maps), NEW map \in SUBSET Chars
    PROVE  LET r == addOrFindSimilar(maps, map)
           IN  /\ AlphabetsOK(r.maps) /\ Grown(maps, r.maps)
               /\ Numbered(r.maps, r.index) /\ map \subseteq MapAt(r.maps, r.index)
               /\ ~ isEmpty(r.maps)
<1> DEFINE isAscii == \A c \in map : c < AsciiBound
           list == IF isAscii THEN maps.maps7 ELSE maps.maps8
           place == PlaceIn(list, map)
           longer == IF place > Len(list) THEN Append(list, map) ELSE list
           r == addOrFindSimilar(maps, map)
<1>1. /\ maps.maps7 \in Seq(SUBSET Chars) /\ maps.maps8 \in Seq(SUBSET Chars)
      /\ maps = [maps7 |-> maps.maps7, maps8 |-> maps.maps8]
      /\ list \in Seq(SUBSET Chars)
  BY DEF AlphabetsOK
<1>2. place \in 1 .. Len(list) + 1 /\ Len(list) \in Nat /\ place \in Nat
      /\ (place <= Len(list) => map \subseteq list[place])
  <2> HIDE DEF list
  <2> QED
    BY <1>1, Place
<1>3. r = IF isAscii
          THEN [maps |-> [maps EXCEPT !.maps7 = longer], index |-> 2 * (place - 1)]
          ELSE [maps |-> [maps EXCEPT !.maps8 = longer], index |-> 2 * (place - 1) + 1]
  BY DEF addOrFindSimilar
<1> HIDE DEF place, r
<1>4. /\ longer \in Seq(SUBSET Chars) /\ Longer(list, longer) /\ Len(longer) \in Nat
      /\ place \in 1 .. Len(longer) /\ map \subseteq longer[place]
  <2>1. CASE place > Len(list)
    <3>1. longer = Append(list, map) /\ place = Len(list) + 1
      BY <1>2, <2>1
    <3> HIDE DEF list, longer
    <3>2. QED
      BY <1>1, <1>2, <3>1 DEF Longer
  <2>2. CASE ~ (place > Len(list))
    <3>1. longer = list /\ place <= Len(list)
      BY <1>2, <2>2
    <3> HIDE DEF list, longer
    <3>2. QED
      BY <1>1, <1>2, <3>1 DEF Longer
  <2>3. QED
    BY <2>1, <2>2
<1> HIDE DEF longer
<1>5. CASE isAscii
  <2>1. r.maps = [maps7 |-> longer, maps8 |-> maps.maps8] /\ r.index = 2 * (place - 1)
    BY <1>1, <1>3, <1>5
  <2>2. r.index \in Nat /\ r.index % 2 # 1 /\ r.index \div 2 + 1 = place
    <3> DEFINE p == place - 1
    <3>1. p \in Nat /\ place = p + 1 /\ 2 * p = p * 2
      BY <1>2
    <3>2. r.index = p * 2 + 0 /\ 0 \in 0 .. 2 - 1
      BY <2>1, <3>1
    <3> HIDE DEF p
    <3>3. r.index % 2 = 0 /\ r.index \div 2 = p /\ r.index \in Nat
      BY <3>1, <3>2, QuotientIs
    <3>4. QED
      BY <3>1, <3>3
  <2>3. list = maps.maps7
    BY <1>5
  <2>4. r.maps.maps7 = longer /\ r.maps.maps8 = maps.maps8
    BY <2>1
  <2> HIDE DEF list
  <2>5. Longer(maps.maps8, maps.maps8) /\ longer # <<>>
    BY <1>1, <1>4 DEF Longer
  <2>6. AlphabetsOK(r.maps)
    BY <1>1, <1>4, <2>1, <2>4 DEF AlphabetsOK
  <2>7. Grown(maps, r.maps)
    BY <1>4, <2>3, <2>4, <2>5 DEF Grown
  <2>8. Numbered(r.maps, r.index)
    BY <1>4, <2>2, <2>4 DEF Numbered
  <2>9. map \subseteq MapAt(r.maps, r.index)
    BY <1>4, <2>2, <2>4 DEF MapAt
  <2>10. ~ isEmpty(r.maps)
    BY <2>4, <2>5 DEF isEmpty
  <2>11. QED
    BY <2>6, <2>7, <2>8, <2>9, <2>10 DEF r
<1>6. CASE ~ isAscii
  <2>1. r.maps = [maps7 |-> maps.maps7, maps8 |-> longer] /\ r.index = 2 * (place - 1) + 1
    BY <1>1, <1>3, <1>6
  <2>2. r.index \in Nat /\ r.index % 2 = 1 /\ r.index \div 2 + 1 = place
    <3> DEFINE p == place - 1
    <3>1. p \in Nat /\ place = p + 1 /\ 2 * p = p * 2
      BY <1>2
    <3>2. r.index = p * 2 + 1 /\ 1 \in 0 .. 2 - 1
      BY <2>1, <3>1
    <3> HIDE DEF p
    <3>3. r.index % 2 = 1 /\ r.index \div 2 = p /\ r.index \in Nat
      BY <3>1, <3>2, QuotientIs
    <3>4. QED
      BY <3>1, <3>3
  <2>3. list = maps.maps8
    BY <1>6
  <2>4. r.maps.maps7 = maps.maps7 /\ r.maps.maps8 = longer
    BY <2>1
  <2> HIDE DEF list
  <2>5. Longer(maps.maps7, maps.maps7) /\ longer # <<>>
    BY <1>1, <1>4 DEF Longer
  <2>6. AlphabetsOK(r.maps)
    BY <1>1, <1>4, <2>1, <2>4 DEF AlphabetsOK
  <2>7. Grown(maps, r.maps)
    BY <1>4, <2>3, <2>4, <2>5 DEF Grown
  <2>8. Numbered(r.maps, r.index)
    BY <1>4, <2>2, <2>4 DEF Numbered
  <2>9. map \subseteq MapAt(r.maps, r.index)
    BY <1>4, <2>2, <2>4 DEF MapAt
  <2>10. ~ isEmpty(r.maps)
    BY <2>4, <2>5 DEF isEmpty
  <2>11. QED
    BY <2>6, <2>7, <2>8, <2>9, <2>10 DEF r
<1>7. QED
  BY <1>5, <1>6

-----------------------------------------------------------------------------
(* The strings of a node. *)

Sorted(strs) ==
    /\ strs \in Seq(Texts) /\ Len(strs) \in 2 .. WideCapacity
    /\ \A k \in 1 .. Len(strs) - 1 : Precedes(strs[k], strs[k + 1])

\* the inputs are sorted sequences of texts
LEMMA InputsSorted == \A strs \in StringInputs : Sorted(strs)
  BY TreeAssumption DEF Sorted, Texts

\* neighbours branch in every alphabet with their branching characters
LEMMA Neighbours ==
    ASSUME NEW strs, Sorted(strs), NEW k \in 1 .. Len(strs) - 1
    PROVE  /\ strs[k] \in Texts /\ strs[k + 1] \in Texts
           /\ computeLCPs(strs)[k].lcp \in Nat
           /\ computeLCPs(strs)[k].branchingCharacters \in SUBSET Chars
           /\ \A map \in SUBSET Chars :
                 computeLCPs(strs)[k].branchingCharacters \subseteq map =>
                    /\ Branches(map, strs[k], strs[k + 1], computeLCPs(strs)[k].lcp)
                    /\ Cardinality(map) >= 2
<1> DEFINE s == strs[k]
           t == strs[k + 1]
           l == LCP(s, t)
<1>1. s \in Texts /\ t \in Texts /\ Precedes(s, t) /\ computeLCPs(strs)[k] = l
  <2>1. Len(strs) \in Nat /\ k \in 1 .. Len(strs) /\ k + 1 \in 1 .. Len(strs)
    BY DEF Sorted
  <2>2. QED
    BY <2>1 DEF Sorted, computeLCPs
<1> HIDE DEF s, t
<1>2. /\ l.lcp \in Nat /\ l.lcp <= Len(s) /\ l.lcp < Len(t)
      /\ \A j \in 1 .. l.lcp : s[j] = t[j]
      /\ Byte(s, l.lcp, <<>>) < Byte(t, l.lcp, <<>>)
      /\ l.branchingCharacters = {Byte(s, l.lcp, <<>>), Byte(t, l.lcp, <<>>)}
  <2>1. LET n == LCP(s, t).lcp
        IN  /\ n \in Nat /\ n <= Len(s) /\ n < Len(t)
            /\ \A j \in 1 .. n : s[j] = t[j]
            /\ \A b, c : Byte(s, n, b) < Byte(t, n, c)
            /\ \A b, c : LCP(s, t).branchingCharacters
                             = {Byte(s, n, b), Byte(t, n, c)}
    BY <1>1, LCPOfPair
  <2>2. QED
    BY <2>1
<1> HIDE DEF l
<1>3. Byte(s, l.lcp, <<>>) \in Chars /\ Byte(t, l.lcp, <<>>) \in Chars
  <2>1. Len(s) \in Nat /\ Len(t) \in Nat
    BY <1>1 DEF Texts
  <2>2. l.lcp \in 0 .. Len(s) /\ l.lcp \in 0 .. Len(t)
    BY <1>2, <2>1
  <2>3. QED
    BY <1>1, <2>2, Bytes
<1>4. ASSUME NEW map \in SUBSET Chars, l.branchingCharacters \subseteq map
      PROVE  Branches(map, s, t, l.lcp) /\ Cardinality(map) >= 2
  <2>1. Branches(map, s, t, l.lcp)
    BY <1>2, <1>4 DEF Branches
  <2>2. /\ Byte(s, l.lcp, <<>>) \in map /\ Byte(t, l.lcp, <<>>) \in map
        /\ Byte(s, l.lcp, <<>>) \in Nat /\ Byte(t, l.lcp, <<>>) \in Nat
    BY <1>2, <1>3, <1>4, CharsFinite
  <2>3. /\ rank(map, Byte(s, l.lcp, <<>>)) \in Nat
        /\ rank(map, Byte(t, l.lcp, <<>>)) \in Nat
        /\ rank(map, Byte(s, l.lcp, <<>>)) < rank(map, Byte(t, l.lcp, <<>>))
        /\ rank(map, Byte(t, l.lcp, <<>>)) < Cardinality(map)
    BY <1>2, <2>2, RankInAlphabet
  <2>4. Cardinality(map) \in Nat
    BY AlphabetSize
  <2>5. QED
    BY <2>1, <2>3, <2>4
<1>5. l.branchingCharacters \in SUBSET Chars
  BY <1>2, <1>3
<1>6. QED
  BY <1>1, <1>2, <1>4, <1>5 DEF s, t

\* the strings from begin (not included) to end are those of a node
NodeRange(begin, end, strs) ==
    begin \in Nat /\ end \in Nat /\ begin + 2 <= end /\ end <= Len(strs)

\* its strings, and the entries of the lcps array between them
IsNode(begin, end, strs, ls, part, texts) ==
    /\ Sorted(strs) /\ NodeRange(begin, end, strs) /\ ls = computeLCPs(strs)
    /\ part = SubSeq(ls, begin + 1, end - 1) /\ texts = SubSeq(strs, begin + 1, end)

\* the strings and the lcps of a node
LEMMA NodeParts ==
    ASSUME NEW begin, NEW end, NEW strs, NEW ls, NEW part, NEW texts,
           IsNode(begin, end, strs, ls, part, texts)
    PROVE  /\ Len(ls) = Len(strs) - 1 /\ Len(part) = end - begin - 1
           /\ \A k \in 1 .. end - begin - 1 :
                 begin + k \in 1 .. Len(strs) - 1 /\ part[k] = ls[begin + k]
           /\ Len(texts) = end - begin
           /\ \A k \in 1 .. end - begin :
                 begin + k \in 1 .. Len(strs) /\ texts[k] = strs[begin + k]
<1>1. /\ begin \in Nat /\ end \in Nat /\ begin + 2 <= end /\ end <= Len(strs)
      /\ Len(strs) \in Nat /\ strs \in Seq(Texts) /\ ls = computeLCPs(strs)
  BY DEF IsNode, NodeRange, Sorted
<1> DEFINE V == {ls[k] : k \in 1 .. Len(strs) - 1}
<1>2. ls \in Seq(V) /\ Len(ls) = Len(strs) - 1
  <2>1. ls = [k \in 1 .. Len(strs) - 1 |-> LCP(strs[k], strs[k + 1])]
    BY <1>1 DEF computeLCPs
  <2>2. ls \in [1 .. Len(strs) - 1 -> V] /\ Len(strs) - 1 \in Nat
    BY <1>1, <2>1
  <2> HIDE DEF V
  <2>3. QED
    BY <2>2
<1> HIDE DEF V
<1> DEFINE m == begin + 1
           n == end - 1
<1>3. part = SubSeq(ls, m, n) /\ texts = SubSeq(strs, m, end)
  BY DEF IsNode
<1>10. /\ m \in 1 .. Len(ls) + 1 /\ n \in m - 1 .. Len(ls)
       /\ m \in 1 .. Len(strs) + 1 /\ end \in m - 1 .. Len(strs)
       /\ n - m + 1 = end - begin - 1 /\ end - m + 1 = end - begin
  BY <1>1, <1>2
<1>11. \A k \in Int : m + k - 1 = begin + k
  BY <1>1
<1> HIDE DEF m, n
<1>4. Len(part) = n - m + 1 /\ \A k \in 1 .. n - m + 1 : part[k] = ls[m + k - 1]
  BY <1>2, <1>3, <1>10, SubSeqProperties
<1>5. Len(texts) = end - m + 1 /\ \A k \in 1 .. end - m + 1 : texts[k] = strs[m + k - 1]
  BY <1>1, <1>3, <1>10, SubSeqProperties
<1>6. /\ \A k \in 1 .. end - begin - 1 : begin + k \in 1 .. Len(strs) - 1
      /\ \A k \in 1 .. end - begin : begin + k \in 1 .. Len(strs)
  BY <1>1
<1>7. ASSUME NEW k \in 1 .. end - begin - 1 PROVE part[k] = ls[begin + k]
  <2>1. k \in Int /\ k \in 1 .. n - m + 1
    BY <1>1, <1>10
  <2>2. part[k] = ls[m + k - 1] /\ m + k - 1 = begin + k
    BY <1>4, <1>11, <2>1
  <2>3. QED
    BY <2>2
<1>8. ASSUME NEW k \in 1 .. end - begin PROVE texts[k] = strs[begin + k]
  <2>1. k \in Int /\ k \in 1 .. end - m + 1
    BY <1>1, <1>10
  <2>2. texts[k] = strs[m + k - 1] /\ m + k - 1 = begin + k
    BY <1>5, <1>11, <2>1
  <2>3. QED
    BY <2>2
<1>9. QED
  BY <1>2, <1>4, <1>5, <1>6, <1>7, <1>8, <1>10

\* an alphabet has the characters at which the strings of a node branch
Covers(map, ls, begin, end) ==
    /\ map \in SUBSET Chars
    /\ \A k \in begin + 1 .. end - 1 : ls[k].branchingCharacters \subseteq map

\* a node has an ancestor's alphabet to fall back to, or there is none yet
Inherits(maps, ls, begin, end, index) ==
    isEmpty(maps) \/ (Numbered(maps, index) /\ Covers(MapAt(maps, index), ls, begin, end))

\* the alphabet that a node uses has its branching characters
LEMMA NodeAlphabetCovers ==
    ASSUME Sorted(strings), lcps = computeLCPs(strings), AlphabetsOK(alphabetMaps),
           NodeRange(Top.begin, Top.end, strings),
           Inherits(alphabetMaps, lcps, Top.begin, Top.end, Top.ancestor),
           NEW alphabet \in {NodeAlphabet}
    PROVE  /\ AlphabetsOK(alphabet.maps) /\ Grown(alphabetMaps, alphabet.maps)
           /\ Numbered(alphabet.maps, alphabet.index) /\ ~ isEmpty(alphabet.maps)
           /\ Covers(MapAt(alphabet.maps, alphabet.index), lcps, Top.begin, Top.end)
<1> DEFINE am == BranchingAlphabet(NodeLCPs)
           added == addOrFindSimilar(alphabetMaps, am)
           inherited == [maps |-> alphabetMaps, index |-> Top.ancestor]
<1>1. Covers(am, lcps, Top.begin, Top.end)
  <2>1. /\ Len(NodeLCPs) = Top.end - Top.begin - 1
        /\ \A k \in 1 .. Top.end - Top.begin - 1 :
              /\ Top.begin + k \in 1 .. Len(strings) - 1
              /\ NodeLCPs[k] = lcps[Top.begin + k]
    <3> DEFINE b == Top.begin
               e == Top.end
               part == NodeLCPs
               texts == NodeStrings
    <3>1. IsNode(b, e, strings, lcps, part, texts)
      BY DEF NodeLCPs, NodeStrings, IsNode
    <3> HIDE DEF b, e, part, texts
    <3>2. /\ Len(part) = e - b - 1
          /\ \A k \in 1 .. e - b - 1 :
                b + k \in 1 .. Len(strings) - 1 /\ part[k] = lcps[b + k]
      BY <3>1, NodeParts
    <3>3. QED
      BY <3>2 DEF b, e, part
  <2>2. \A k \in 1 .. Len(NodeLCPs) : NodeLCPs[k].branchingCharacters \in SUBSET Chars
    BY <2>1, Neighbours
  <2>3. am \in SUBSET Chars
    BY <2>2, CharsFinite DEF BranchingAlphabet
  <2>4. ASSUME NEW k \in Top.begin + 1 .. Top.end - 1
        PROVE  lcps[k].branchingCharacters \subseteq am
    <3>1. Top.begin \in Nat /\ Top.end \in Nat
      BY DEF NodeRange
    <3>2. k - Top.begin \in 1 .. Len(NodeLCPs) /\ Top.begin + (k - Top.begin) = k
      BY <2>1, <3>1
    <3>3. lcps[k] = NodeLCPs[k - Top.begin]
      BY <2>1, <3>2
    <3>4. QED
      BY <3>2, <3>3 DEF BranchingAlphabet
  <2>5. QED
    BY <2>3, <2>4 DEF Covers
<1>2. alphabet = added \/ (~ isEmpty(alphabetMaps) /\ alphabet = inherited)
  BY DEF NodeAlphabet
<1>3. CASE alphabet = added
  <2>1. am \in SUBSET Chars
    BY <1>1 DEF Covers
  <2> HIDE DEF am
  <2>2. /\ AlphabetsOK(added.maps) /\ Grown(alphabetMaps, added.maps)
        /\ Numbered(added.maps, added.index) /\ am \subseteq MapAt(added.maps, added.index)
        /\ ~ isEmpty(added.maps)
    BY <2>1, Added
  <2> HIDE DEF added
  <2>3. MapAt(added.maps, added.index) \in SUBSET Chars
    BY <2>2, AlphabetOf
  <2>4. Covers(MapAt(added.maps, added.index), lcps, Top.begin, Top.end)
    <3>1. \A k \in Top.begin + 1 .. Top.end - 1 :
             lcps[k].branchingCharacters \subseteq MapAt(added.maps, added.index)
      BY <1>1, <2>2 DEF Covers
    <3>2. QED
      BY <2>3, <3>1 DEF Covers
  <2>5. QED
    BY <1>3, <2>2, <2>4
<1>4. CASE ~ isEmpty(alphabetMaps) /\ alphabet = inherited
  <2>1. Grown(alphabetMaps, alphabetMaps)
    BY DEF Grown, Longer, AlphabetsOK
  <2>2. alphabet.maps = alphabetMaps /\ alphabet.index = Top.ancestor
    BY <1>4
  <2>3. QED
    BY <1>4, <2>1, <2>2 DEF Inherits
<1>5. QED
  BY <1>2, <1>3, <1>4

-----------------------------------------------------------------------------
(* Texts of equal chunks, next to each other. *)

\* the n numbers R do not decrease
Nondecreasing(R, n) ==
    /\ \A j \in 1 .. n : R[j] \in Nat
    /\ \A j \in 1 .. n - 1 : R[j] <= R[j + 1]

Changes(R, n) == {0} \cup {j \in 1 .. n - 1 : R[j + 1] # R[j]}

\* chunks are the different values of the n numbers R, in increasing order, and
\* offsets tell where they begin
Runs(R, n, chunks, offsets) ==
    /\ chunks \in Seq(Nat) /\ Len(chunks) >= 2 /\ Len(chunks) <= n
    /\ \A c, e \in 1 .. Len(chunks) : c < e => chunks[c] < chunks[e]
    /\ offsets[1] = 0 /\ offsets[Len(chunks) + 1] = n
    /\ \A c \in 1 .. Len(chunks) + 1 : offsets[c] \in 0 .. n
    /\ \A c, e \in 1 .. Len(chunks) + 1 : c < e => offsets[c] < offsets[e]
    /\ \A c \in 1 .. Len(chunks) :
          \A j \in offsets[c] + 1 .. offsets[c + 1] : R[j] = chunks[c]

\* numbers that do not decrease are in order
LEMMA InOrder ==
    ASSUME NEW R, NEW n \in Nat, Nondecreasing(R, n), NEW i \in 1 .. n, NEW j \in 1 .. n,
           i <= j
    PROVE  R[i] <= R[j]
<1> DEFINE T == {k \in Nat : i + k <= n => R[i] <= R[i + k]}
<1>1. 0 \in T
  BY DEF Nondecreasing
<1>2. ASSUME NEW k \in Nat, k \in T PROVE k + 1 \in T
  <2> SUFFICES ASSUME i + (k + 1) <= n PROVE R[i] <= R[i + (k + 1)]
    OBVIOUS
  <2>1. i + k \in 1 .. n - 1 /\ i + k <= n /\ (i + k) + 1 = i + (k + 1) /\ i + (k + 1) \in 1 .. n
        /\ i + k \in 1 .. n
    OBVIOUS
  <2>2. R[i] <= R[i + k] /\ R[i + k] <= R[i + (k + 1)]
    BY <1>2, <2>1 DEF Nondecreasing
  <2>3. R[i] \in Nat /\ R[i + k] \in Nat /\ R[i + (k + 1)] \in Nat
    BY <2>1 DEF Nondecreasing
  <2>4. QED
    BY <2>2, <2>3
<1>3. Nat \subseteq T
  <2> HIDE DEF T
  <2> QED
    BY <1>1, <1>2, AllNaturals
<1>4. j - i \in Nat /\ i + (j - i) = j
  OBVIOUS
<1>5. QED
  BY <1>3, <1>4

\* numbers between two changes are the same
LEMMA NoChange ==
    ASSUME NEW R, NEW n \in Nat, NEW i \in 1 .. n, NEW j \in 1 .. n, i <= j,
           \A k \in i .. j - 1 : R[k + 1] = R[k]
    PROVE  R[j] = R[i]
<1> DEFINE T == {k \in Nat : i + k <= j => R[i + k] = R[i]}
<1>1. 0 \in T
  OBVIOUS
<1>2. ASSUME NEW k \in Nat, k \in T PROVE k + 1 \in T
  <2> SUFFICES ASSUME i + (k + 1) <= j PROVE R[i + (k + 1)] = R[i]
    OBVIOUS
  <2>1. i + k \in i .. j - 1 /\ (i + k) + 1 = i + (k + 1) /\ i + k <= j
    OBVIOUS
  <2>2. QED
    BY <1>2, <2>1
<1>3. Nat \subseteq T
  <2> HIDE DEF T
  <2> QED
    BY <1>1, <1>2, AllNaturals
<1>4. j - i \in Nat /\ i + (j - i) = j
  OBVIOUS
<1>5. QED
  BY <1>3, <1>4

(***************************************************************************)
(* The strings at which the chunk changes, in order, are where the chunks  *)
(* of a node begin.                                                        *)
(***************************************************************************)
LEMMA RunsOf ==
    ASSUME NEW R, NEW n \in Nat, n >= 2, Nondecreasing(R, n),
           \E j \in 1 .. n - 1 : R[j + 1] # R[j],
           NEW firsts, firsts = Ascending(Changes(R, n)),
           NEW chunks, chunks = [c \in 1 .. Len(firsts) |-> R[firsts[c] + 1]]
    PROVE  Runs(R, n, chunks, Append(firsts, n)) /\ Len(firsts) = Len(chunks)
<1> DEFINE S == Changes(R, n)
           m == Len(firsts)
           offsets == Append(firsts, n)
<1>1. S \in SUBSET (0 .. n - 1) /\ S \in SUBSET Nat /\ IsFiniteSet(S) /\ 0 \in S
  <2>1. S \in SUBSET (0 .. n - 1) /\ 0 \in S
    BY DEF Changes
  <2>2. IsFiniteSet(0 .. n - 1)
    BY FS_Interval
  <2> HIDE DEF S
  <2>3. IsFiniteSet(S)
    BY <2>1, <2>2, FS_Subset
  <2>4. \A v \in 0 .. n - 1 : v \in Nat
    OBVIOUS
  <2>5. QED
    BY <2>1, <2>3, <2>4
<1>2. /\ m \in Nat /\ firsts \in Seq(S)
      /\ \A k \in 1 .. m : firsts[k] \in S /\ firsts[k] \in 0 .. n - 1 /\ k - 1 <= firsts[k]
      /\ \A k, l \in 1 .. m : k < l => firsts[k] < firsts[l]
      /\ \A v \in S : \E k \in 1 .. m : firsts[k] = v
  <2> HIDE DEF S
  <2>1. Orders(firsts, S) /\ firsts \in Seq(S) /\ \A k \in 1 .. m : k - 1 <= firsts[k]
    BY <1>1, AscendingOrders DEF S
  <2>2. QED
    BY <1>1, <2>1 DEF Orders
<1> HIDE DEF m, S
<1>3. m >= 2
  <2>1. PICK j \in 1 .. n - 1 : R[j + 1] # R[j]
    OBVIOUS
  <2>2. j \in S /\ j # 0
    BY <2>1 DEF S, Changes
  <2>3. PICK k \in 1 .. m : firsts[k] = 0
    BY <1>1, <1>2
  <2>4. PICK l \in 1 .. m : firsts[l] = j
    BY <1>2, <2>2
  <2>5. QED
    BY SMTT(20), <1>2, <2>2, <2>3, <2>4
<1>4. m <= n
  <2>1. m \in 1 .. m
    BY <1>2, <1>3
  <2> DEFINE v == firsts[m]
  <2>2. m - 1 <= v /\ v \in 0 .. n - 1
    BY <1>2, <2>1
  <2> HIDE DEF v
  <2>3. QED
    BY <1>2, <2>2
<1>5. firsts[1] = 0
  <2>1. PICK k \in 1 .. m : firsts[k] = 0
    BY <1>1, <1>2
  <2>2. 1 \in 1 .. m /\ (1 < k => firsts[1] < firsts[k]) /\ firsts[1] \in 0 .. n - 1
    BY <1>2, <1>3
  <2>3. QED
    BY <2>1, <2>2
<1>6. /\ Len(offsets) = m + 1 /\ offsets[m + 1] = n
      /\ \A c \in 1 .. m : offsets[c] = firsts[c]
  BY <1>2 DEF m
<1>7. offsets[1] = 0
  <2>1. 1 \in 1 .. m
    BY <1>2, <1>3
  <2>2. QED
    BY <1>5, <1>6, <2>1
<1> HIDE DEF offsets
<1>8. \A c \in 1 .. m + 1 : offsets[c] \in 0 .. n
  <2> SUFFICES ASSUME NEW c \in 1 .. m + 1 PROVE offsets[c] \in 0 .. n
    OBVIOUS
  <2>1. CASE c = m + 1
    BY <1>6, <2>1
  <2>2. CASE c # m + 1
    <3>1. c \in 1 .. m
      BY <1>2, <2>2
    <3>2. offsets[c] \in 0 .. n - 1
      BY <1>2, <1>6, <3>1
    <3>3. QED
      BY <3>2
  <2>3. QED
    BY <2>1, <2>2
<1>9. ASSUME NEW c \in 1 .. m + 1, NEW e \in 1 .. m + 1, c < e PROVE offsets[c] < offsets[e]
  <2>1. c \in 1 .. m /\ offsets[c] = firsts[c] /\ firsts[c] \in 0 .. n - 1
    BY <1>2, <1>6, <1>9
  <2>2. CASE e = m + 1
    BY <1>6, <2>1, <2>2
  <2>3. CASE e # m + 1
    <3>1. e \in 1 .. m
      BY <1>2, <2>3
    <3>2. QED
      BY <1>2, <1>6, <1>9, <2>1, <3>1
  <2>4. QED
    BY <2>2, <2>3
<1>10. Len(chunks) = m /\ chunks \in Seq(Nat) /\ \A c \in 1 .. m : chunks[c] = R[firsts[c] + 1]
  <2>1. chunks = [c \in 1 .. m |-> R[firsts[c] + 1]]
    BY DEF m
  <2>2. \A c \in 1 .. m : R[firsts[c] + 1] \in Nat
    <3> SUFFICES ASSUME NEW c \in 1 .. m PROVE R[firsts[c] + 1] \in Nat
      OBVIOUS
    <3>1. firsts[c] + 1 \in 1 .. n
      BY SMTT(20), <1>2
    <3>2. QED
      BY <3>1 DEF Nondecreasing
  <2>3. chunks \in [1 .. m -> Nat]
    BY <2>1, <2>2
  <2>4. QED
    BY <1>2, <2>1, <2>3
<1>11. ASSUME NEW c \in 1 .. m, NEW j \in offsets[c] + 1 .. offsets[c + 1]
       PROVE  R[j] = chunks[c]
  <2>1. c + 1 \in 1 .. m + 1 /\ c \in 1 .. m + 1
    BY <1>2
  <2>2. offsets[c] = firsts[c] /\ offsets[c + 1] \in 0 .. n /\ firsts[c] \in 0 .. n - 1
    BY <1>2, <1>6, <1>8, <2>1
  <2> DEFINE i == firsts[c] + 1
  <2>3. i \in 1 .. n /\ j \in 1 .. n /\ i <= j
    BY SMTT(20), <2>2
  <2>4. ASSUME NEW k \in i .. j - 1 PROVE R[k + 1] = R[k]
    <3> SUFFICES ASSUME R[k + 1] # R[k] PROVE FALSE
      OBVIOUS
    <3>1. k \in 1 .. n - 1 /\ k > firsts[c] /\ k < offsets[c + 1]
      <4>1. PICK a, b : a = firsts[c] /\ b = offsets[c + 1]
        OBVIOUS
      <4>2. a \in 0 .. n - 1 /\ b \in 0 .. n /\ j \in a + 1 .. b /\ k \in a + 1 .. j - 1
        BY <2>2, <4>1
      <4>3. k \in 1 .. n - 1 /\ k > a /\ k < b
        BY <4>2
      <4>4. QED
        BY <4>1, <4>3
    <3>2. k \in S
      BY <3>1 DEF S, Changes
    <3>3. PICK l \in 1 .. m : firsts[l] = k
      BY <1>2, <3>2
    <3>4. c < l
      <4>1. l < c => firsts[l] < firsts[c]
        BY <1>2
      <4>2. PICK a, g : a = firsts[c] /\ g = firsts[l]
        OBVIOUS
      <4>3. a \in Int /\ g = k /\ k > a /\ k \in Int
        BY <2>2, <3>1, <3>3, <4>2
      <4>4. l # c /\ ~ (l < c)
        <5>1. g # a /\ ~ (g < a)
          BY <4>3
        <5>2. l < c => g < a
          BY <4>1, <4>2
        <5>3. l = c => g = a
          BY <4>2
        <5>4. QED
          BY <5>1, <5>2, <5>3
      <4>5. l \in Int /\ c \in Int
        OBVIOUS
      <4>6. QED
        BY <4>4, <4>5
    <3>5. l \in 1 .. m + 1 /\ offsets[l] = k /\ (c + 1 < l => offsets[c + 1] < offsets[l])
      <4>1. l \in 1 .. m + 1
        BY <1>2
      <4>2. QED
        BY <1>6, <1>9, <2>1, <3>3, <4>1
    <3>6. c + 1 = l \/ c + 1 < l
      BY <1>2, <3>4
    <3>7. QED
      BY SMTT(20), <2>2, <3>1, <3>5, <3>6
  <2>5. R[j] = R[i]
    <3> HIDE DEF i
    <3> QED
      BY <2>3, <2>4, NoChange
  <2>6. QED
    BY <1>10, <2>5
<1>12. ASSUME NEW c \in 1 .. m, NEW e \in 1 .. m, c < e PROVE chunks[c] < chunks[e]
  <2>1. /\ firsts[c] + 1 \in 1 .. n /\ firsts[e] + 1 \in 1 .. n /\ firsts[e] \in S
        /\ firsts[c] < firsts[e] /\ firsts[c] \in Nat /\ firsts[e] \in Nat
    <3>1. firsts[c] \in 0 .. n - 1 /\ firsts[e] \in 0 .. n - 1
      BY <1>2
    <3>2. firsts[e] \in S /\ firsts[c] < firsts[e]
      BY <1>2, <1>12
    <3>3. QED
      BY SMTT(20), <3>1, <3>2
  <2>2. firsts[e] \in 1 .. n - 1 /\ R[firsts[e] + 1] # R[firsts[e]]
    BY SMTT(20), <2>1 DEF S, Changes
  <2>3. R[firsts[e]] <= R[firsts[e] + 1] /\ firsts[e] \in 1 .. n
    BY SMTT(20), <2>2 DEF Nondecreasing
  <2>4. R[firsts[c] + 1] <= R[firsts[e]]
    <3>1. firsts[c] + 1 <= firsts[e]
      BY SMTT(20), <2>1
    <3>2. QED
      BY <2>1, <2>3, <3>1, InOrder
  <2>5. R[firsts[c] + 1] \in Nat /\ R[firsts[e]] \in Nat /\ R[firsts[e] + 1] \in Nat
    BY <2>1, <2>3 DEF Nondecreasing
  <2>6. PICK a, b, d : a = R[firsts[c] + 1] /\ b = R[firsts[e]] /\ d = R[firsts[e] + 1]
    OBVIOUS
  <2>7. a < d
    <3>1. a <= b /\ b <= d /\ b # d
      BY <2>2, <2>3, <2>4, <2>6
    <3>2. a \in Nat /\ b \in Nat /\ d \in Nat
      BY <2>5, <2>6
    <3>3. QED
      BY ONLY <3>1, <3>2
  <2>8. chunks[c] = a /\ chunks[e] = d
    BY <1>10, <2>6
  <2>9. QED
    BY <2>7, <2>8
<1>13. \A c \in 1 .. m :
          \A j \in offsets[c] + 1 .. offsets[c + 1] : R[j] = chunks[c]
  BY <1>11
<1>14. \A c, e \in 1 .. m : c < e => chunks[c] < chunks[e]
  BY <1>12
<1>15. \A c, e \in 1 .. m + 1 : c < e => offsets[c] < offsets[e]
  BY <1>9
<1>16. Len(chunks) = m
  BY <1>10
<1>17. Runs(R, n, chunks, offsets)
  <2>1. /\ chunks \in Seq(Nat) /\ Len(chunks) >= 2 /\ Len(chunks) <= n
        /\ offsets[1] = 0 /\ offsets[Len(chunks) + 1] = n
    BY <1>3, <1>4, <1>6, <1>7, <1>10, <1>16
  <2>2. QED
    BY ONLY <2>1, <1>8, <1>13, <1>14, <1>15, <1>16 DEF Runs
<1>18. QED
  BY <1>16, <1>17 DEF offsets, m

\* what the neighbours in a node have in common
LEMMA NodeBranches ==
    ASSUME NEW begin, NEW end, NEW strs, NEW ls, NEW part, NEW texts,
           IsNode(begin, end, strs, ls, part, texts),
           NEW map, Covers(map, ls, begin, end)
    PROVE  /\ map \in SUBSET Chars /\ Cardinality(map) >= 2
           /\ length64(map) \in Nat /\ length64(map) >= 1
           /\ end - begin \in Nat /\ end - begin >= 2
           /\ Len(part) = end - begin - 1 /\ Len(texts) = end - begin
           /\ \A j \in 1 .. end - begin : texts[j] \in Texts
           /\ \A j \in 1 .. end - begin - 1 :
                 /\ part[j].lcp \in Nat
                 /\ Branches(map, texts[j], texts[j + 1], part[j].lcp)
<1>1. /\ begin \in Nat /\ end \in Nat /\ begin + 2 <= end
      /\ Len(part) = end - begin - 1 /\ Len(texts) = end - begin
      /\ Sorted(strs) /\ ls = computeLCPs(strs) /\ map \in SUBSET Chars
  BY NodeParts DEF IsNode, NodeRange, Covers
<1>2. \A k \in 1 .. end - begin :
         begin + k \in 1 .. Len(strs) /\ texts[k] = strs[begin + k]
  BY NodeParts
<1>3. \A k \in 1 .. end - begin - 1 :
         begin + k \in 1 .. Len(strs) - 1 /\ part[k] = ls[begin + k]
  BY NodeParts
<1>4. ASSUME NEW j \in 1 .. end - begin - 1
      PROVE  /\ part[j].lcp \in Nat /\ Cardinality(map) >= 2
             /\ Branches(map, texts[j], texts[j + 1], part[j].lcp)
  <2>1. /\ begin + j \in 1 .. Len(strs) - 1 /\ part[j] = ls[begin + j]
        /\ begin + j \in begin + 1 .. end - 1
        /\ j \in 1 .. end - begin /\ j + 1 \in 1 .. end - begin
        /\ begin + (j + 1) = (begin + j) + 1
    BY <1>1, <1>3
  <2>2. ls[begin + j].branchingCharacters \subseteq map
    BY <2>1 DEF Covers
  <2>3. texts[j] = strs[begin + j] /\ texts[j + 1] = strs[(begin + j) + 1]
    BY <1>2, <2>1
  <2> DEFINE k == begin + j
  <2> HIDE DEF k
  <2>4. /\ computeLCPs(strs)[k].lcp \in Nat
        /\ Branches(map, strs[k], strs[k + 1], computeLCPs(strs)[k].lcp)
        /\ Cardinality(map) >= 2
    BY <1>1, <2>1, <2>2, Neighbours DEF k
  <2>5. QED
    BY <1>1, <2>1, <2>3, <2>4 DEF k
<1>5. Cardinality(map) >= 2
  <2>1. 1 \in 1 .. end - begin - 1
    BY <1>1
  <2>2. QED
    BY <1>4, <2>1
<1>6. length64(map) \in Nat /\ length64(map) >= 1
  BY <1>1, <1>5, LengthFits
<1>7. \A j \in 1 .. end - begin : texts[j] \in Texts
  <2>1. \A k \in 1 .. Len(strs) : strs[k] \in Texts
    BY <1>1 DEF Sorted
  <2>2. QED
    BY <1>2, <2>1
<1>8. QED
  BY <1>1, <1>4, <1>5, <1>6, <1>7

\* the chunks that the strings of a node have
ChunksAt(map, texts, positions) ==
    [j \in 1 .. Len(texts) |-> readChunk(map, texts[j], positions)]

\* a chunk is read at the positions at which the strings of the node branch, in
\* order, up to one behind which there may be more
Branchings(positions, part, w) ==
    /\ Len(positions) \in Nat /\ Len(positions) >= 1
    /\ \A k \in 1 .. Len(positions) : positions[k] \in Nat
    /\ \A k, l \in 1 .. Len(positions) : k < l => positions[k] < positions[l]
    /\ \A j \in 1 .. Len(part) :
          \/ \E q \in 1 .. Len(positions) : q <= w /\ positions[q] = part[j].lcp
          \/ \A q \in 1 .. Len(positions) : q <= w => positions[q] < part[j].lcp

\* where a branch is read
IsRead(positions, part, w, j) ==
    \E q \in 1 .. Len(positions) : q <= w /\ positions[q] = part[j].lcp

(***************************************************************************)
(* Chunks read at the branching positions change where the strings branch  *)
(* at one of these, and never decrease.                                    *)
(***************************************************************************)
LEMMA ChunksInOrder ==
    ASSUME NEW begin, NEW end, NEW strs, NEW ls, NEW part, NEW texts,
           IsNode(begin, end, strs, ls, part, texts),
           NEW map, Covers(map, ls, begin, end),
           NEW positions, Branchings(positions, part, length64(map))
    PROVE  /\ Nondecreasing(ChunksAt(map, texts, positions), end - begin)
           /\ \A j \in 1 .. end - begin - 1 :
                 ChunksAt(map, texts, positions)[j + 1] # ChunksAt(map, texts, positions)[j]
                    <=> IsRead(positions, part, length64(map), j)
<1> DEFINE w == length64(map)
           n == end - begin
           R == ChunksAt(map, texts, positions)
<1>1. /\ map \in SUBSET Chars /\ Cardinality(map) >= 2 /\ w \in Nat /\ w >= 1
      /\ n \in Nat /\ n >= 2 /\ Len(part) = n - 1 /\ Len(texts) = n
      /\ \A j \in 1 .. n : texts[j] \in Texts
      /\ \A j \in 1 .. n - 1 : /\ part[j].lcp \in Nat
                               /\ Branches(map, texts[j], texts[j + 1], part[j].lcp)
  BY NodeBranches
<1>2. \A j \in 1 .. n : R[j] = readChunk(map, texts[j], positions)
  BY <1>1 DEF ChunksAt
<1> HIDE DEF n, R
<1>3. \A j \in 1 .. n : R[j] \in Nat
  BY <1>1, <1>2, ChunkType
<1>4. ASSUME NEW j \in 1 .. n - 1
      PROVE  /\ R[j] <= R[j + 1]
             /\ R[j + 1] # R[j] <=> IsRead(positions, part, w, j)
  <2>1. /\ j \in 1 .. n /\ j + 1 \in 1 .. n
        /\ R[j] \in Nat /\ R[j + 1] \in Nat
        /\ R[j] = readChunk(map, texts[j], positions)
        /\ R[j + 1] = readChunk(map, texts[j + 1], positions)
    BY <1>1, <1>2, <1>3
  <2>2. /\ texts[j] \in Texts /\ texts[j + 1] \in Texts /\ part[j].lcp \in Nat
        /\ Branches(map, texts[j], texts[j + 1], part[j].lcp)
    BY <1>1, <2>1
  <2>3. CASE IsRead(positions, part, w, j)
    <3>1. PICK q \in 1 .. Len(positions) : q <= w /\ positions[q] = part[j].lcp
      BY <2>3 DEF IsRead
    <3>2. \A k \in 1 .. q - 1 : positions[k] \in Nat /\ positions[k] < part[j].lcp
      <4> SUFFICES ASSUME NEW k \in 1 .. q - 1
                   PROVE  positions[k] \in Nat /\ positions[k] < part[j].lcp
        OBVIOUS
      <4>1. k \in 1 .. Len(positions) /\ k < q
        BY DEF Branchings
      <4>2. QED
        BY <3>1, <4>1 DEF Branchings
    <3>3. Len(positions) \in Nat
      BY DEF Branchings
    <3>4. readChunk(map, texts[j], positions) < readChunk(map, texts[j + 1], positions)
      BY <1>1, <2>2, <3>1, <3>2, <3>3, ChunkGrows
    <3>5. QED
      BY <2>1, <2>3, <3>4
  <2>4. CASE ~ IsRead(positions, part, w, j)
    <3>1. j \in 1 .. Len(part)
      BY <1>1
    <3>2. \A q \in 1 .. Len(positions) : q <= w => positions[q] < part[j].lcp
      BY <2>4, <3>1 DEF Branchings, IsRead
    <3>3. Len(positions) \in Nat /\ \A q \in 1 .. Len(positions) : positions[q] \in Nat
      BY DEF Branchings
    <3>4. \A q \in 1 .. Len(positions) :
             q <= w => positions[q] \in Nat /\ positions[q] < part[j].lcp
      BY <3>2, <3>3
    <3>5. readChunk(map, texts[j], positions) = readChunk(map, texts[j + 1], positions)
      BY SMTT(20), <1>1, <2>2, <3>3, <3>4, ChunkStays
    <3>6. QED
      BY <2>1, <2>4, <3>5
  <2>5. QED
    BY <2>3, <2>4
<1>5. Nondecreasing(R, n)
  BY <1>3, <1>4 DEF Nondecreasing
<1>6. QED
  BY <1>4, <1>5 DEF n, R

\* the smallest lcp is one of the lcps
LEMMA MinLCPTaken ==
    ASSUME NEW part, NEW n \in Nat \ {0}, Len(part) = n, \A j \in 1 .. n : part[j].lcp \in Nat
    PROVE  /\ MinLCP(part) \in Nat /\ \A j \in 1 .. n : MinLCP(part) <= part[j].lcp
           /\ \E j \in 1 .. n : part[j].lcp = MinLCP(part)
<1> DEFINE S == {part[j].lcp : j \in 1 .. Len(part)}
<1>1. S \in SUBSET Nat /\ S # {}
  <2>1. 1 \in 1 .. n
    OBVIOUS
  <2>2. QED
    BY <2>1
<1>2. PICK v \in S : \A m \in S : v <= m
  <2> HIDE DEF S
  <2> QED
    BY <1>1, LeastOf
<1>3. \E m \in S : \A j \in 1 .. Len(part) : m <= part[j].lcp
  BY <1>2
<1>4. MinLCP(part) \in S /\ \A j \in 1 .. Len(part) : MinLCP(part) <= part[j].lcp
  BY <1>3 DEF MinLCP
<1>5. QED
  BY <1>1, <1>4

\* the first characters behind the common prefix have all branches that are read
LEMMA PrefixBranchings ==
    ASSUME NEW part, NEW n \in Nat \ {0}, Len(part) = n,
           \A j \in 1 .. n : part[j].lcp \in Nat,
           NEW w \in Nat, w >= 1, NEW reads, reads = MinLCP(part)
    PROVE  /\ Branchings(PrefixPositions(reads, w), part, w)
           /\ \A j \in 1 .. n :
                 IsRead(PrefixPositions(reads, w), part, w, j) <=> part[j].lcp - reads < w
           /\ \E j \in 1 .. n : IsRead(PrefixPositions(reads, w), part, w, j)
<1> DEFINE positions == PrefixPositions(reads, w)
<1>1. /\ reads \in Nat /\ \A j \in 1 .. n : reads <= part[j].lcp
      /\ \E j \in 1 .. n : part[j].lcp = reads
  BY MinLCPTaken
<1>2. Len(positions) = w /\ \A k \in 1 .. w : positions[k] = reads + k - 1
  BY DEF PrefixPositions
<1> HIDE DEF positions
<1>3. ASSUME NEW j \in 1 .. n
      PROVE  IF part[j].lcp - reads < w
             THEN \E q \in 1 .. w : positions[q] = part[j].lcp
             ELSE \A q \in 1 .. w : positions[q] < part[j].lcp
  <2>1. part[j].lcp \in Nat /\ reads <= part[j].lcp
    BY <1>1
  <2>2. CASE part[j].lcp - reads < w
    <3> DEFINE q == part[j].lcp - reads + 1
    <3>1. q \in 1 .. w /\ reads + q - 1 = part[j].lcp
      BY <1>1, <2>1, <2>2
    <3> HIDE DEF q
    <3>2. QED
      BY <1>2, <2>2, <3>1
  <2>3. CASE ~ (part[j].lcp - reads < w)
    BY <1>1, <1>2, <2>1, <2>3
  <2>4. QED
    BY <2>2, <2>3
<1>4. /\ \A k \in 1 .. w : positions[k] \in Nat
      /\ \A k, l \in 1 .. w : k < l => positions[k] < positions[l]
  BY <1>1, <1>2
<1>5. ASSUME NEW j \in 1 .. n
      PROVE  IsRead(positions, part, w, j) <=> part[j].lcp - reads < w
  <2>1. part[j].lcp \in Nat /\ reads <= part[j].lcp
    BY <1>1
  <2>2. CASE part[j].lcp - reads < w
    BY <1>2, <1>3, <2>2 DEF IsRead
  <2>3. CASE ~ (part[j].lcp - reads < w)
    <3>1. \A q \in 1 .. w : positions[q] < part[j].lcp /\ positions[q] \in Nat
      BY <1>3, <1>4, <2>3
    <3>2. QED
      BY <1>2, <2>1, <2>3, <3>1 DEF IsRead
  <2>4. QED
    BY <2>2, <2>3
<1>6. Branchings(positions, part, w)
  <2>1. ASSUME NEW j \in 1 .. Len(part)
        PROVE  \/ \E q \in 1 .. Len(positions) : q <= w /\ positions[q] = part[j].lcp
               \/ \A q \in 1 .. Len(positions) : q <= w => positions[q] < part[j].lcp
    <3>1. j \in 1 .. n /\ \A q \in 1 .. Len(positions) : q \in 1 .. w /\ q <= w
      BY <1>2
    <3>2. CASE part[j].lcp - reads < w
      <4>1. PICK q \in 1 .. w : positions[q] = part[j].lcp
        BY <1>3, <3>1, <3>2
      <4>2. q \in 1 .. Len(positions) /\ q <= w
        BY <1>2
      <4>3. QED
        BY <4>1, <4>2
    <3>3. CASE ~ (part[j].lcp - reads < w)
      BY <1>3, <3>1, <3>3
    <3>4. QED
      BY <3>2, <3>3
  <2>2. QED
    BY <1>2, <1>4, <2>1 DEF Branchings
<1>7. \E j \in 1 .. n : IsRead(positions, part, w, j)
  <2>1. PICK j \in 1 .. n : part[j].lcp = reads
    BY <1>1
  <2>2. part[j].lcp - reads < w
    BY <1>1, <2>1
  <2>3. QED
    BY <1>5, <2>2
<1>8. QED
  BY <1>5, <1>6, <1>7 DEF positions

-----------------------------------------------------------------------------
(* Positions that a node packs and unpacks. *)

\* what a slot is filled with, and what it is read as
StoreStep(p, indexes, most) ==
    LET next == indexes[Len(p.stored) + 1]
    IN  IF Len(p.stored) = Len(indexes) THEN [p EXCEPT !.deltas = Append(@, 0)]
        ELSE IF next - p.previous >= most
        THEN [p EXCEPT !.previous = @ + most, !.deltas = Append(@, most)]
        ELSE [previous |-> next, deltas |-> Append(p.deltas, next - p.previous),
              stored |-> Append(p.stored, next)]

ReadStep(u, i, delta, most) ==
    CASE u.stopped -> u
      [] ~ u.stopped /\ (\A slot \in i .. Len(delta) : delta[slot] = 0) -> OnlyZerosLeft(u)
      [] OTHER ->
           IF delta[i] = most
           THEN [u EXCEPT !.accumulator = @ + most]
           ELSE [u EXCEPT
                   !.indexes = Append(@, @[Len(@)] + delta[i] + u.accumulator),
                   !.accumulator = 0]

StoreStart(indexes) == [previous |-> indexes[1], deltas |-> <<>>, stored |-> <<indexes[1]>>]
ReadStart(base) == [indexes |-> <<base>>, accumulator |-> 0, stopped |-> FALSE]

\* the recursive functions that slots are filled and read with exist
Slots(f, z, kind, indexes, delta, most, n) ==
    f = [k \in 0 .. n |-> IF k = 0 THEN z
                          ELSE IF kind = "store" THEN StoreStep(f[k - 1], indexes, most)
                               ELSE ReadStep(f[k - 1], k, delta, most)]

\* the functions that run over slots exist
LEMMA SlotsExist ==
    ASSUME NEW z, NEW kind, NEW indexes, NEW delta, NEW most, NEW n \in Nat
    PROVE  \E f : Slots(f, z, kind, indexes, delta, most, n)
<1> DEFINE Step(v, k) == IF kind = "store" THEN StoreStep(v, indexes, most)
                                  ELSE ReadStep(v, k, delta, most)
           Is(f, l) == f = [k \in 0 .. l |-> IF k = 0 THEN z ELSE Step(f[k - 1], k)]
           T == {l \in Nat : \E f : Is(f, l)}
<1> HIDE DEF Step
<1>1. 0 \in T
  <2>1. Is([k \in 0 .. 0 |-> z], 0)
    OBVIOUS
  <2>2. QED
    BY <2>1
<1>2. ASSUME NEW l \in Nat, l \in T PROVE l + 1 \in T
  <2>1. PICK f : Is(f, l)
    BY <1>2
  <2> DEFINE g == [k \in 0 .. l + 1 |-> IF k <= l THEN f[k] ELSE Step(f[l], l + 1)]
             body == [k \in 0 .. l + 1 |-> IF k = 0 THEN z ELSE Step(g[k - 1], k)]
  <2>2. ASSUME NEW k \in 0 .. l + 1 PROVE g[k] = body[k]
    <3>1. CASE k = 0
      BY <2>1, <3>1
    <3>2. CASE k # 0 /\ k <= l
      <4>1. k \in 0 .. l /\ k - 1 \in 0 .. l + 1 /\ k - 1 <= l
        BY <3>2
      <4>2. f[k] = Step(f[k - 1], k)
        BY <2>1, <3>2, <4>1
      <4>3. g[k] = f[k] /\ g[k - 1] = f[k - 1] /\ body[k] = Step(g[k - 1], k)
        BY <3>2, <4>1
      <4>4. QED
        BY <4>2, <4>3
    <3>3. CASE k = l + 1
      <4>1. l \in 0 .. l + 1 /\ l <= l /\ k - 1 = l /\ ~ (k <= l) /\ k # 0
        BY <3>3
      <4>2. g[k] = Step(f[l], l + 1) /\ g[l] = f[l] /\ body[k] = Step(g[k - 1], k)
        BY <4>1
      <4>3. QED
        BY <3>3, <4>1, <4>2
    <3>4. QED
      BY <3>1, <3>2, <3>3
  <2>3. Is(g, l + 1)
    <3>1. g = body
      <4>1. g = [k \in 0 .. l + 1 |-> g[k]] /\ body = [k \in 0 .. l + 1 |-> body[k]]
        OBVIOUS
      <4> HIDE DEF g, body
      <4>2. QED
        BY <2>2, <4>1
    <3>2. QED
      BY <3>1
  <2> HIDE DEF g
  <2>4. QED
    BY <2>3
<1>3. n \in T
  <2> HIDE DEF T
  <2> QED
    BY <1>1, <1>2, AllNaturals
<1>4. QED
  BY <1>3 DEF Step, Slots

Packs(f, indexes, w, most) ==
    /\ f[0] = StoreStart(indexes)
    /\ \A i \in 1 .. w - 1 : f[i] = StoreStep(f[i - 1], indexes, most)

Unpacks(f, base, delta, w, most) ==
    /\ f[0] = ReadStart(base)
    /\ \A i \in 1 .. w - 1 : f[i] = ReadStep(f[i - 1], i, delta, most)

\* storeIndexes runs over the slots
LEMMA StoreRuns ==
    ASSUME NEW indexes, NEW w \in Nat, w >= 1
    PROVE  \E f : /\ storeIndexes(indexes, w) = f[w - 1]
                  /\ Packs(f, indexes, w, maxDeltaValue(w))
<1> DEFINE most == maxDeltaValue(w)
           z == StoreStart(indexes)
           n == w - 1
           body(f) == [slot \in 0 .. n |-> IF slot = 0 THEN z
                                           ELSE StoreStep(f[slot - 1], indexes, most)]
           c == CHOOSE f : f = body(f)
<1>1. storeIndexes(indexes, w) = c[n]
  BY DEF storeIndexes, StoreStep, StoreStart
<1>2. PICK f : f = body(f)
  <2>1. n \in Nat
    OBVIOUS
  <2> HIDE DEF n, z, most
  <2>2. PICK f : Slots(f, z, "store", indexes, <<>>, most, n)
    BY <2>1, SlotsExist
  <2>3. f = body(f)
    BY <2>2 DEF Slots
  <2>4. QED
    BY <2>3
<1>3. c = body(c)
  <2> HIDE DEF body
  <2> QED
    BY <1>2
<1> HIDE DEF c
<1>4. c[0] = z
  BY <1>3
<1>5. \A i \in 1 .. n : c[i] = StoreStep(c[i - 1], indexes, most)
  <2> HIDE DEF z, most
  <2> QED
    BY <1>3
<1>6. QED
  BY <1>1, <1>4, <1>5 DEF Packs

\* getIndexes runs over the slots
LEMMA ReadRuns ==
    ASSUME NEW packed, NEW w \in Nat, w >= 1
    PROVE  \E f : /\ getIndexes(packed, w) = f[w - 1].indexes
                  /\ Unpacks(f, packed.base, packed.deltas, w, maxDeltaValue(w))
<1> DEFINE most == maxDeltaValue(w)
           z == ReadStart(packed.base)
           n == w - 1
           body(f) == [i \in 0 .. n |-> IF i = 0 THEN z
                                        ELSE ReadStep(f[i - 1], i, packed.deltas, most)]
           c == CHOOSE f : f = body(f)
<1>1. getIndexes(packed, w) = c[n].indexes
  BY DEF getIndexes, ReadStep, ReadStart
<1>2. PICK f : f = body(f)
  <2>1. n \in Nat
    OBVIOUS
  <2> HIDE DEF n, z, most
  <2>2. PICK f : Slots(f, z, "read", <<>>, packed.deltas, most, n)
    BY <2>1, SlotsExist
  <2>3. f = body(f)
    BY <2>2 DEF Slots
  <2>4. QED
    BY <2>3
<1>3. c = body(c)
  <2> HIDE DEF body
  <2> QED
    BY <1>2
<1> HIDE DEF c
<1>4. c[0] = z
  BY <1>3
<1>5. \A i \in 1 .. n : c[i] = ReadStep(c[i - 1], i, packed.deltas, most)
  <2> HIDE DEF z, most
  <2> QED
    BY <1>3
<1>6. QED
  BY <1>1, <1>4, <1>5 DEF Unpacks

\* positions in increasing order, and the values of slots
Increasing(m) ==
    /\ m \in Seq(Nat) /\ Len(m) >= 1
    /\ \A k, l \in 1 .. Len(m) : k < l => m[k] < m[l]

\* some of the positions are stored after i slots, the last one and the rest that
\* was added to it do not exceed the next one
FieldsOK(previous, deltas, stored, i, m, most) ==
    /\ deltas \in Seq(Nat) /\ Len(deltas) = i
    /\ stored \in Seq(Nat) /\ Len(stored) \in 1 .. Len(m) /\ Len(stored) <= i + 1
    /\ \A k \in 1 .. Len(stored) : stored[k] = m[k]
    /\ previous \in Nat /\ previous >= m[Len(stored)]
    /\ Len(stored) < Len(m) => previous <= m[Len(stored) + 1]
    /\ Len(stored) = Len(m) \/ most = 0 => previous = m[Len(stored)]

StoreOK(p, i, m, most) ==
    /\ p = [previous |-> p.previous, deltas |-> p.deltas, stored |-> p.stored]
    /\ FieldsOK(p.previous, p.deltas, p.stored, i, m, most)

\* nothing is left, a slot is full, or it gets to the next position
FieldsFilled(before, from, after, to, d, m, most) ==
    \/ Len(from) = Len(m) /\ d = 0 /\ to = from /\ after = before
    \/ Len(from) < Len(m) /\ d = most /\ to = from /\ after = before + most
    \/ /\ Len(from) < Len(m) /\ most > 0 /\ d < most
       /\ d = m[Len(from) + 1] - before
       /\ to = Append(from, m[Len(from) + 1]) /\ after = m[Len(from) + 1]

Filled(p, q, d, m, most) ==
    FieldsFilled(p.previous, p.stored, q.previous, q.stored, d, m, most)

\* what a slot changes
Stored(a, b, c, m, most) ==
    IF Len(c) = Len(m) THEN [previous |-> a, deltas |-> Append(b, 0), stored |-> c]
    ELSE IF m[Len(c) + 1] - a >= most
    THEN [previous |-> a + most, deltas |-> Append(b, most), stored |-> c]
    ELSE [previous |-> m[Len(c) + 1], deltas |-> Append(b, m[Len(c) + 1] - a),
          stored |-> Append(c, m[Len(c) + 1])]

\* a slot is filled, field by field
LEMMA StoreFields ==
    ASSUME NEW a, NEW b, NEW c, NEW p, p = [previous |-> a, deltas |-> b, stored |-> c],
           NEW m, NEW most
    PROVE  StoreStep(p, m, most) = Stored(a, b, c, m, most)
<1>1. p.previous = a /\ p.deltas = b /\ p.stored = c
  OBVIOUS
<1>2. [p EXCEPT !.deltas = Append(@, 0)]
         = [previous |-> a, deltas |-> Append(b, 0), stored |-> c]
  OBVIOUS
<1>4. [p EXCEPT !.previous = @ + most, !.deltas = Append(@, most)]
         = [previous |-> a + most, deltas |-> Append(b, most), stored |-> c]
  <2> DEFINE x == a + most
             y == Append(b, most)
  <2>1. ASSUME NEW r, r = [p EXCEPT !.previous = x, !.deltas = y]
        PROVE  r = [previous |-> x, deltas |-> y, stored |-> c]
    <3> HIDE DEF x, y
    <3> QED
      BY <2>1
  <2>2. QED
    BY <1>1, <2>1
<1>3. QED
  BY <1>1, <1>2, <1>4 DEF StoreStep, Stored

\* what a slot is filled with fits what is stored
LEMMA FieldsStep ==
    ASSUME NEW m, Increasing(m), NEW most \in Nat, NEW i \in Nat, NEW a, NEW b, NEW c,
           FieldsOK(a, b, c, i, m, most)
    PROVE  \E x, d, y : /\ d \in Nat
                        /\ Stored(a, b, c, m, most)
                             = [previous |-> x, deltas |-> Append(b, d), stored |-> y]
                        /\ FieldsOK(x, Append(b, d), y, i + 1, m, most)
                        /\ FieldsFilled(a, c, x, y, d, m, most)
<1>1. /\ m \in Seq(Nat) /\ Len(m) \in Nat
      /\ \A k, l \in 1 .. Len(m) : k < l => m[k] < m[l]
      /\ \A k \in 1 .. Len(m) : m[k] \in Nat
  BY DEF Increasing
<1>2. PICK s : s = Len(c)
  OBVIOUS
<1>3. /\ b \in Seq(Nat) /\ Len(b) = i
      /\ c \in Seq(Nat) /\ s \in Nat /\ s >= 1 /\ s <= Len(m) /\ s <= i + 1
      /\ \A k \in 1 .. s : c[k] = m[k]
      /\ a \in Nat /\ a >= m[s]
      /\ s < Len(m) => a <= m[s + 1]
      /\ s = Len(m) \/ most = 0 => a = m[s]
  BY <1>2 DEF FieldsOK
<1>4. m[s] \in Nat
  BY <1>1, <1>3
<1>5. ASSUME NEW d \in Nat PROVE Append(b, d) \in Seq(Nat) /\ Len(Append(b, d)) = i + 1
  BY <1>3
<1>6. CASE s = Len(m)
  <2>1. Stored(a, b, c, m, most) = [previous |-> a, deltas |-> Append(b, 0), stored |-> c]
    BY <1>2, <1>6 DEF Stored
  <2>2. Append(b, 0) \in Seq(Nat) /\ Len(Append(b, 0)) = i + 1
    BY <1>5
  <2>3. FieldsOK(a, Append(b, 0), c, i + 1, m, most)
    BY <1>2, <1>3, <1>6, <2>2 DEF FieldsOK
  <2>4. FieldsFilled(a, c, a, c, 0, m, most)
    BY <1>2, <1>6 DEF FieldsFilled
  <2>5. QED
    BY <2>1, <2>3, <2>4
<1>7. CASE s < Len(m)
  <2>1. PICK t : t = m[s + 1]
    OBVIOUS
  <2>2. t \in Nat /\ m[s] < t
    <3>1. s \in 1 .. Len(m) /\ s + 1 \in 1 .. Len(m) /\ s < s + 1
      BY <1>1, <1>3, <1>7
    <3>2. QED
      BY <1>1, <2>1, <3>1
  <2>3. a <= t
    BY <1>3, <1>7, <2>1
  <2>4. CASE t - a >= most
    <3>1. Stored(a, b, c, m, most)
            = [previous |-> a + most, deltas |-> Append(b, most), stored |-> c]
      <4>1. Len(c) # Len(m) /\ m[Len(c) + 1] - a >= most
        BY <1>1, <1>2, <1>3, <1>7, <2>1, <2>4
      <4>2. QED
        BY <4>1 DEF Stored
    <3>2. PICK x : x = a + most
      OBVIOUS
    <3>3. /\ x \in Nat /\ x >= m[s] /\ x <= t
          /\ (most = 0 => x = m[s])
      BY <1>3, <1>4, <2>2, <2>3, <2>4, <3>2
    <3>4. Append(b, most) \in Seq(Nat) /\ Len(Append(b, most)) = i + 1
      BY <1>5
    <3>5. FieldsOK(x, Append(b, most), c, i + 1, m, most)
      <4>1. Len(c) <= i + 1 + 1 /\ Len(c) \in 1 .. Len(m) /\ i + 1 = Len(Append(b, most))
        BY <1>1, <1>2, <1>3, <3>4
      <4>2. Len(c) < Len(m) => x <= m[Len(c) + 1]
        BY <1>2, <2>1, <3>3
      <4>3. Len(c) # Len(m)
        BY <1>1, <1>2, <1>3, <1>7
      <4> HIDE <1>7
      <4>4. QED
        BY <1>2, <1>3, <3>3, <3>4, <4>1, <4>2, <4>3 DEF FieldsOK
    <3>6. FieldsFilled(a, c, x, c, most, m, most)
      BY <1>2, <1>7, <3>2 DEF FieldsFilled
    <3>7. QED
      BY <3>1, <3>2, <3>5, <3>6
  <2>5. CASE ~ (t - a >= most)
    <3>1. PICK d : d = t - a
      OBVIOUS
    <3>2. d \in Nat /\ d < most /\ most > 0
      BY <1>3, <2>2, <2>3, <2>5, <3>1
    <3>3. Stored(a, b, c, m, most)
            = [previous |-> t, deltas |-> Append(b, d), stored |-> Append(c, t)]
      <4>1. Len(c) # Len(m) /\ ~ (m[Len(c) + 1] - a >= most) /\ m[Len(c) + 1] = t
        BY <1>1, <1>2, <1>3, <1>7, <2>1, <2>5
      <4>2. Stored(a, b, c, m, most)
              = [previous |-> m[Len(c) + 1], deltas |-> Append(b, m[Len(c) + 1] - a),
                 stored |-> Append(c, m[Len(c) + 1])]
        BY <4>1 DEF Stored
      <4>3. QED
        BY <3>1, <4>1, <4>2
    <3>4. Append(b, d) \in Seq(Nat) /\ Len(Append(b, d)) = i + 1
      BY <1>5, <3>2
    <3>5. PICK y : y = Append(c, t)
      OBVIOUS
    <3>6. /\ y \in Seq(Nat) /\ Len(y) = s + 1 /\ y[s + 1] = t
          /\ \A k \in 1 .. s : y[k] = c[k]
      BY <1>2, <1>3, <2>2, <3>5
    <3>7. \A k \in 1 .. s + 1 : y[k] = m[k]
      <4> SUFFICES ASSUME NEW k \in 1 .. s + 1 PROVE y[k] = m[k]
        OBVIOUS
      <4>1. CASE k = s + 1
        BY <2>1, <3>6, <4>1
      <4>2. CASE k # s + 1
        <5>1. k \in 1 .. s
          BY <1>3, <4>2
        <5>2. QED
          BY <1>3, <3>6, <5>1
      <4>3. QED
        BY <4>1, <4>2
    <3>8. s + 1 < Len(m) => t <= m[s + 1 + 1]
      <4> SUFFICES ASSUME s + 1 < Len(m) PROVE t <= m[s + 1 + 1]
        OBVIOUS
      <4> DEFINE k == s + 1
                 l == s + 1 + 1
      <4>1. k \in 1 .. Len(m) /\ l \in 1 .. Len(m) /\ k < l
        BY <1>1, <1>3
      <4>2. m[k] < m[l] /\ m[k] \in Nat /\ m[l] \in Nat
        BY <1>1, <4>1
      <4>3. QED
        BY <2>1, <4>2
    <3>9. FieldsOK(t, Append(b, d), y, i + 1, m, most)
      <4>1. s + 1 \in 1 .. Len(m) /\ s + 1 <= i + 1 + 1 /\ t >= m[s + 1]
        BY <1>1, <1>3, <1>7, <2>1, <2>2
      <4> HIDE <1>7
      <4>2. QED
        BY <2>1, <2>2, <3>4, <3>6, <3>7, <3>8, <4>1 DEF FieldsOK
    <3>10. FieldsFilled(a, c, t, y, d, m, most)
      BY <1>2, <1>7, <2>1, <3>1, <3>2, <3>5 DEF FieldsFilled
    <3>11. QED
      BY <3>2, <3>3, <3>5, <3>9, <3>10
  <2>6. QED
    BY <2>4, <2>5
<1>8. QED
  BY <1>1, <1>3, <1>6, <1>7

\* a slot is filled
LEMMA StoreStepOK ==
    ASSUME NEW m, Increasing(m), NEW most \in Nat, NEW i \in Nat, NEW p, StoreOK(p, i, m, most),
           NEW q, q = StoreStep(p, m, most)
    PROVE  /\ StoreOK(q, i + 1, m, most)
           /\ \E d \in Nat : q.deltas = Append(p.deltas, d) /\ Filled(p, q, d, m, most)
<1> DEFINE a == p.previous
           b == p.deltas
           c == p.stored
<1>1. p = [previous |-> a, deltas |-> b, stored |-> c] /\ FieldsOK(a, b, c, i, m, most)
  BY DEF StoreOK
<1>2. Filled(p, q, 0, m, most) = FieldsFilled(a, c, q.previous, q.stored, 0, m, most)
  BY DEF Filled
<1> HIDE DEF a, b, c
<1>3. q = Stored(a, b, c, m, most)
  BY <1>1, StoreFields
<1>4. PICK x, d, y : /\ d \in Nat
                     /\ q = [previous |-> x, deltas |-> Append(b, d), stored |-> y]
                     /\ FieldsOK(x, Append(b, d), y, i + 1, m, most)
                     /\ FieldsFilled(a, c, x, y, d, m, most)
  BY <1>1, <1>3, FieldsStep
<1>5. q.previous = x /\ q.deltas = Append(b, d) /\ q.stored = y
  BY <1>4
<1>6. StoreOK(q, i + 1, m, most)
  BY <1>4, <1>5 DEF StoreOK
<1>7. Filled(p, q, d, m, most)
  BY <1>4, <1>5 DEF Filled, a, c
<1>8. QED
  BY <1>4, <1>5, <1>6, <1>7 DEF b

\* the slots, D is what they are filled with
Packed(P, D, m, w, most) ==
    /\ \A i \in 0 .. w - 1 : StoreOK(P[i], i, m, most)
    /\ \A i \in 1 .. w - 1 : Filled(P[i - 1], P[i], D[i], m, most)
    /\ D \in Seq(Nat) /\ Len(D) = w - 1

\* the first k slots
PackedUpTo(P, k, m, most) ==
    /\ \A i \in 0 .. k : StoreOK(P[i], i, m, most)
    /\ \A i \in 1 .. k : Filled(P[i - 1], P[i], P[k].deltas[i], m, most)

\* the first position is stored
LEMMA StartOK ==
    ASSUME NEW m, Increasing(m), NEW most
    PROVE  StoreOK(StoreStart(m), 0, m, most)
<1>1. PICK a : a = m[1]
  OBVIOUS
<1>2. a \in Nat /\ Len(m) \in Nat /\ Len(m) >= 1
  BY <1>1 DEF Increasing
<1>3. StoreStart(m) = [previous |-> a, deltas |-> <<>>, stored |-> <<a>>]
  BY <1>1 DEF StoreStart
<1>4. 1 < Len(m) => m[1] <= m[1 + 1]
  <2>1. 1 < Len(m) => /\ 1 \in 1 .. Len(m) /\ 1 + 1 \in 1 .. Len(m) /\ 1 < 1 + 1
                      /\ m[1 + 1] \in Nat
    BY <1>2 DEF Increasing
  <2>2. QED
    BY <1>1, <1>2, <2>1 DEF Increasing
<1>5. Len(<<a>>) = 1 /\ <<a>>[1] = a /\ <<a>> \in Seq(Nat) /\ <<>> \in Seq(Nat) /\ Len(<<>>) = 0
  BY <1>2
<1>6. FieldsOK(a, <<>>, <<a>>, 0, m, most)
  BY <1>1, <1>2, <1>4, <1>5 DEF FieldsOK
<1>7. QED
  BY <1>3, <1>6 DEF StoreOK

\* all slots are filled
LEMMA PackedSlots ==
    ASSUME NEW m, Increasing(m), NEW w \in Nat, w >= 1, NEW most, w >= 2 => most \in Nat,
           NEW P, Packs(P, m, w, most)
    PROVE  Packed(P, P[w - 1].deltas, m, w, most)
<1> DEFINE T == {k \in Nat : k <= w - 1 => PackedUpTo(P, k, m, most)}
<1>1. 0 \in T
  <2>1. StoreOK(P[0], 0, m, most)
    BY StartOK DEF Packs
  <2>2. QED
    BY <2>1 DEF PackedUpTo
<1>2. ASSUME NEW k \in Nat, k \in T PROVE k + 1 \in T
  <2> SUFFICES ASSUME k + 1 <= w - 1 PROVE PackedUpTo(P, k + 1, m, most)
    OBVIOUS
  <2>1. PackedUpTo(P, k, m, most) /\ most \in Nat
    BY <1>2
  <2>2. k + 1 \in 1 .. w - 1 /\ k + 1 - 1 = k /\ k \in 0 .. k
    OBVIOUS
  <2>3. P[k + 1] = StoreStep(P[k], m, most)
    BY <2>2 DEF Packs
  <2>4. StoreOK(P[k], k, m, most)
    BY <2>1, <2>2 DEF PackedUpTo
  <2>5. StoreOK(P[k + 1], k + 1, m, most)
    BY <2>1, <2>3, <2>4, StoreStepOK
  <2>6. PICK d \in Nat : P[k + 1].deltas = Append(P[k].deltas, d)
                         /\ Filled(P[k], P[k + 1], d, m, most)
    BY <2>1, <2>3, <2>4, StoreStepOK
  <2>7. P[k].deltas \in Seq(Nat) /\ Len(P[k].deltas) = k
    BY <2>4 DEF StoreOK, FieldsOK
  <2>8. P[k + 1].deltas[k + 1] = d /\ \A i \in 1 .. k : P[k + 1].deltas[i] = P[k].deltas[i]
    <3> DEFINE b == P[k].deltas
               e == P[k + 1].deltas
    <3>1. b \in Seq(Nat) /\ Len(b) = k /\ e = Append(b, d)
      BY <2>6, <2>7
    <3> HIDE DEF b, e
    <3>2. e[k + 1] = d /\ \A i \in 1 .. k : e[i] = b[i]
      BY <3>1
    <3>3. QED
      BY <3>2 DEF b, e
  <2>9. ASSUME NEW i \in 0 .. k + 1 PROVE StoreOK(P[i], i, m, most)
    <3>1. CASE i = k + 1
      BY <2>5, <3>1
    <3>2. CASE i # k + 1
      <4>1. i \in 0 .. k
        BY <3>2
      <4>2. QED
        BY <2>1, <4>1 DEF PackedUpTo
    <3>3. QED
      BY <3>1, <3>2
  <2>10. ASSUME NEW i \in 1 .. k + 1
         PROVE  Filled(P[i - 1], P[i], P[k + 1].deltas[i], m, most)
    <3>1. CASE i = k + 1
      <4>1. i - 1 = k
        BY <3>1
      <4>2. QED
        BY <2>6, <2>8, <3>1, <4>1
    <3>2. CASE i # k + 1
      <4>1. i \in 1 .. k
        BY <3>2
      <4>2. QED
        BY <2>1, <2>8, <4>1 DEF PackedUpTo
    <3>3. QED
      BY <3>1, <3>2
  <2>11. QED
    BY <2>9, <2>10 DEF PackedUpTo
<1>3. w - 1 \in T
  <2>1. w - 1 \in Nat
    OBVIOUS
  <2> HIDE DEF T
  <2> QED
    BY <1>1, <1>2, <2>1, AllNaturals
<1>4. PackedUpTo(P, w - 1, m, most)
  BY <1>3
<1>5. StoreOK(P[w - 1], w - 1, m, most)
  <2>1. w - 1 \in 0 .. w - 1
    OBVIOUS
  <2>2. QED
    BY <1>4, <2>1 DEF PackedUpTo
<1>6. QED
  BY <1>4, <1>5 DEF Packed, PackedUpTo, StoreOK, FieldsOK

\* what is read is what was stored, or only zeros were left
ReadOK(u, p, m, final) ==
    /\ u = [indexes |-> u.indexes, accumulator |-> u.accumulator, stopped |-> u.stopped]
    /\ u.stopped \in BOOLEAN
    /\ u.stopped => u.indexes = final
    /\ ~ u.stopped => /\ u.indexes = p.stored
                      /\ u.accumulator = p.previous - m[Len(p.stored)]

ZerosFrom(D, i) == \A slot \in i .. Len(D) : D[slot] = 0

\* a slot behind the last position holds nothing
LEMMA FilledFull ==
    ASSUME NEW p, NEW q, NEW d, NEW m, NEW most, Filled(p, q, d, m, most),
           ~ (Len(p.stored) < Len(m))
    PROVE  q.stored = p.stored /\ q.previous = p.previous /\ d = 0
  BY DEF Filled, FieldsFilled

\* a slot that holds nothing moves nothing
LEMMA FilledZero ==
    ASSUME NEW p, NEW q, NEW m, NEW most, Filled(p, q, 0, m, most), p.previous \in Nat,
           Len(p.stored) < Len(m) => 0 # m[Len(p.stored) + 1] - p.previous
    PROVE  q.stored = p.stored /\ q.previous = p.previous
<1> DEFINE a == p.previous
           c == p.stored
           x == q.previous
           y == q.stored
<1>1. FieldsFilled(a, c, x, y, 0, m, most)
  BY DEF Filled
<1>2. a \in Nat /\ (Len(c) < Len(m) => 0 # m[Len(c) + 1] - a)
  OBVIOUS
<1> HIDE DEF a, c, x, y
<1>3. y = c /\ x = a
  BY <1>1, <1>2 DEF FieldsFilled
<1>4. QED
  BY <1>3 DEF a, c, x, y

\* the last position is reached
Reached(P, k, m) == P[k].previous = m[Len(P[k].stored)]

\* with the last position reached, zeros change nothing
LEMMA Quiet ==
    ASSUME NEW m, Increasing(m), NEW w \in Nat, NEW most \in Nat, NEW P, NEW D,
           Packed(P, D, m, w, most),
           NEW k \in 0 .. w - 1, Reached(P, k, m), ZerosFrom(D, k + 1)
    PROVE  P[w - 1].stored = P[k].stored
<1> DEFINE T == {n \in Nat : k + n <= w - 1 => /\ P[k + n].stored = P[k].stored
                                               /\ P[k + n].previous = P[k].previous}
<1>1. 0 \in T
  BY k + 0 = k
<1>2. ASSUME NEW n \in Nat, n \in T PROVE n + 1 \in T
  <2> SUFFICES ASSUME k + (n + 1) <= w - 1
               PROVE  /\ P[k + (n + 1)].stored = P[k].stored
                      /\ P[k + (n + 1)].previous = P[k].previous
    OBVIOUS
  <2> DEFINE i == k + n
  <2>1. /\ i \in 0 .. w - 1 /\ i + 1 \in 1 .. w - 1 /\ i + 1 - 1 = i /\ k + (n + 1) = i + 1
        /\ i + 1 \in k + 1 .. Len(D)
    BY DEF Packed
  <2>2. P[i].stored = P[k].stored /\ P[i].previous = P[k].previous
    BY <1>2, <2>1
  <2> HIDE DEF i
  <2>3. D[i + 1] = 0
    BY <2>1 DEF ZerosFrom
  <2>4. Filled(P[i], P[i + 1], 0, m, most) /\ StoreOK(P[i], i, m, most)
    <3>1. Filled(P[i + 1 - 1], P[i + 1], D[i + 1], m, most) /\ StoreOK(P[i], i, m, most)
      BY <2>1 DEF Packed
    <3>2. QED
      BY <2>1, <2>3, <3>1
  <2> DEFINE s == Len(P[i].stored)
  <2>5. /\ s \in 1 .. Len(m) /\ P[i].previous = m[s]
        /\ (s < Len(m) => m[s + 1] \in Nat /\ m[s] \in Nat /\ m[s] < m[s + 1])
    <3>1. s \in 1 .. Len(m) /\ P[i].previous = m[s] /\ Len(m) \in Nat
      BY <2>2, <2>4 DEF StoreOK, FieldsOK, Increasing, Reached
    <3>3. /\ \A l \in 1 .. Len(m) : m[l] \in Nat
          /\ \A a, b \in 1 .. Len(m) : a < b => m[a] < m[b]
      BY DEF Increasing
    <3> HIDE DEF s
    <3>4. QED
      BY <3>1, <3>3
  <2>6. ~ (s < Len(m) /\ 0 = m[s + 1] - P[i].previous)
    <3>1. PICK a, b : a = m[s] /\ b = m[s + 1]
      OBVIOUS
    <3>2. s < Len(m) => a \in Nat /\ b \in Nat /\ a < b
      BY <2>5, <3>1
    <3>3. s < Len(m) => b - a # 0
      BY <3>2
    <3> HIDE DEF s
    <3>4. QED
      BY <2>5, <3>1, <3>3
  <2>7. m[s] \in Nat
    BY <2>5 DEF Increasing
  <2>8. P[i + 1].stored = P[i].stored /\ P[i + 1].previous = P[i].previous
    <3>1. P[i].previous \in Nat
      BY <2>5, <2>7
    <3>2. QED
      BY <2>4, <2>6, <3>1, FilledZero
  <2>9. QED
    BY <2>1, <2>2, <2>8
<1>3. w - 1 - k \in T
  <2>1. w - 1 - k \in Nat
    OBVIOUS
  <2> HIDE DEF T
  <2> QED
    BY <1>1, <1>2, <2>1, AllNaturals
<1>4. k + (w - 1 - k) = w - 1
  OBVIOUS
<1>5. QED
  BY <1>3, <1>4

\* once all positions are stored, zeros follow
LEMMA AllStored ==
    ASSUME NEW m, Increasing(m), NEW w \in Nat, NEW most \in Nat, NEW P, NEW D,
           Packed(P, D, m, w, most),
           NEW k \in 0 .. w - 1, Len(P[k].stored) = Len(m)
    PROVE  ZerosFrom(D, k + 1)
<1> DEFINE T == {n \in Nat : k + n <= w - 1 => Len(P[k + n].stored) = Len(m)}
<1>1. 0 \in T
  BY k + 0 = k
<1>2. ASSUME NEW n \in Nat, n \in T PROVE n + 1 \in T
  <2> SUFFICES ASSUME k + (n + 1) <= w - 1 PROVE Len(P[k + (n + 1)].stored) = Len(m)
    OBVIOUS
  <2> DEFINE i == k + n
  <2>1. i \in Nat /\ i + 1 \in 1 .. w - 1 /\ i + 1 - 1 = i /\ k + (n + 1) = i + 1
    OBVIOUS
  <2>2. Len(P[i].stored) = Len(m)
    BY <1>2, <2>1
  <2> HIDE DEF i
  <2>3. Filled(P[i], P[i + 1], D[i + 1], m, most)
    <3>1. Filled(P[i + 1 - 1], P[i + 1], D[i + 1], m, most)
      BY <2>1 DEF Packed
    <3>2. QED
      BY <2>1, <3>1
  <2>4. ~ (Len(P[i].stored) < Len(m))
    BY <2>2 DEF Increasing
  <2>5. P[i + 1].stored = P[i].stored
    BY <2>3, <2>4, FilledFull
  <2>6. QED
    BY <2>1, <2>2, <2>5
<1>3. Nat \subseteq T
  <2> HIDE DEF T
  <2> QED
    BY <1>1, <1>2, AllNaturals
<1>4. SUFFICES ASSUME NEW slot \in k + 1 .. Len(D) PROVE D[slot] = 0
  BY DEF ZerosFrom
<1>5. /\ slot - 1 - k \in Nat /\ k + (slot - 1 - k) = slot - 1 /\ slot - 1 <= w - 1
      /\ slot \in 1 .. w - 1
  <2>1. Len(D) = w - 1
    BY DEF Packed
  <2>2. QED
    BY <2>1
<1>6. Len(P[slot - 1].stored) = Len(m)
  <2> DEFINE n == slot - 1 - k
  <2>1. n \in Nat /\ k + n <= w - 1 /\ k + n = slot - 1
    BY <1>5
  <2> HIDE DEF n
  <2>2. n \in T
    BY <1>3, <2>1
  <2>3. Len(P[k + n].stored) = Len(m)
    BY <2>1, <2>2
  <2>4. QED
    BY <2>1, <2>3
<1>7. Filled(P[slot - 1], P[slot], D[slot], m, most)
  BY <1>5 DEF Packed
<1>8. ~ (Len(P[slot - 1].stored) < Len(m))
  BY <1>6 DEF Increasing
<1>9. QED
  BY <1>7, <1>8, FilledFull

\* what is stored when only zeros follow
WithRest(P, k, m, final) ==
    final = IF P[k].previous - m[Len(P[k].stored)] > 0
            THEN Append(P[k].stored, P[k].previous) ELSE P[k].stored

\* zeros that are left stand for nothing, or for a rest in front of them
LEMMA ZerosLeft ==
    ASSUME NEW m, Increasing(m), NEW w \in Nat, NEW most \in Nat, NEW P, NEW D,
           Packed(P, D, m, w, most), NEW k \in 0 .. w - 1, k + 1 <= w - 1, ZerosFrom(D, k + 1)
    PROVE  WithRest(P, k, m, P[w - 1].stored)
<1> DEFINE a == P[k].previous
           c == P[k].stored
<1>1. /\ \A l \in 1 .. Len(m) : m[l] \in Nat
      /\ Len(m) \in Nat /\ m \in Seq(Nat)
  BY DEF Increasing
<1>2. FieldsOK(a, P[k].deltas, c, k, m, most)
  BY DEF Packed, StoreOK
<1>3. Filled(P[k], P[k + 1], D[k + 1], m, most)
  <2>1. k + 1 \in 1 .. w - 1 /\ k + 1 - 1 = k
    OBVIOUS
  <2>2. Filled(P[k + 1 - 1], P[k + 1], D[k + 1], m, most)
    BY <2>1 DEF Packed
  <2>3. QED
    BY <2>1, <2>2
<1>4. D[k + 1] = 0 /\ ZerosFrom(D, k + 1 + 1)
  <2>1. Len(D) = w - 1
    BY DEF Packed
  <2>2. k + 1 \in k + 1 .. Len(D)
    BY <2>1
  <2>3. \A slot \in k + 1 + 1 .. Len(D) : slot \in k + 1 .. Len(D)
    BY <2>1
  <2>4. QED
    BY <2>2, <2>3 DEF ZerosFrom
<1>5. PICK x, y : x = P[k + 1].previous /\ y = P[k + 1].stored
  OBVIOUS
<1>6. FieldsFilled(a, c, x, y, 0, m, most)
  BY <1>3, <1>4, <1>5 DEF Filled
<1>7. /\ Len(c) \in 1 .. Len(m) /\ c \in Seq(Nat)
      /\ a \in Nat /\ a >= m[Len(c)]
      /\ Len(c) = Len(m) \/ most = 0 => a = m[Len(c)]
      /\ m[Len(c)] \in Nat
  BY <1>1, <1>2 DEF FieldsOK
<1>8. CASE a = m[Len(c)]
  <2>1. P[w - 1].stored = c
    <3>1. Reached(P, k, m)
      BY <1>8 DEF Reached
    <3>2. QED
      BY <3>1, Quiet
  <2>2. ~ (a - m[Len(c)] > 0)
    BY <1>7, <1>8
  <2>3. QED
    BY <2>1, <2>2 DEF WithRest
<1>9. CASE a # m[Len(c)]
  <2>1. a - m[Len(c)] > 0 /\ Len(c) # Len(m) /\ most # 0
    BY <1>7, <1>9
  <2>2. /\ Len(c) < Len(m) /\ 0 = m[Len(c) + 1] - a
        /\ y = Append(c, m[Len(c) + 1]) /\ x = m[Len(c) + 1]
    <3> HIDE DEF a, c
    <3> QED
      BY <1>6, <2>1 DEF FieldsFilled
  <2>3. m[Len(c) + 1] = a
    <3>1. m[Len(c) + 1] \in Nat
      BY SMTT(20), <1>1, <1>7, <2>2
    <3>2. QED
      BY SMTT(20), <1>7, <2>2, <3>1
  <2>4. y = Append(c, a) /\ Len(y) = Len(c) + 1 /\ x = m[Len(y)]
    <3>1. y = Append(c, a) /\ x = m[Len(c) + 1]
      BY <2>2, <2>3
    <3> HIDE DEF c
    <3>2. Len(Append(c, a)) = Len(c) + 1
      BY <1>7
    <3>3. QED
      BY <3>1, <3>2
  <2>5. P[w - 1].stored = y
    <3> DEFINE n == k + 1
    <3>1. n \in 0 .. w - 1 /\ Reached(P, n, m) /\ ZerosFrom(D, n + 1)
      BY <1>4, <1>5, <2>4 DEF Reached
    <3> HIDE DEF n
    <3>2. P[w - 1].stored = P[n].stored
      BY <3>1, Quiet
    <3>3. QED
      BY <1>5, <3>2 DEF n
  <2>6. QED
    BY <2>1, <2>4, <2>5 DEF WithRest
<1>10. QED
  BY <1>8, <1>9

\* how a slot is read: after the last one, before zeros, full, and else
ReadOutcome(v, u, x, a, b, i, delta, most) ==
    /\ b => v = u
    /\ ~ b /\ ZerosFrom(delta, i) =>
          v = [indexes |-> IF a > 0 THEN Append(x, x[Len(x)] + a) ELSE x,
               accumulator |-> 0, stopped |-> TRUE]
    /\ ~ b /\ ~ ZerosFrom(delta, i) /\ delta[i] = most =>
          v = [indexes |-> x, accumulator |-> a + most, stopped |-> b]
    /\ ~ b /\ ~ ZerosFrom(delta, i) /\ delta[i] # most =>
          v = [indexes |-> Append(x, x[Len(x)] + delta[i] + a), accumulator |-> 0,
               stopped |-> b]

\* a slot is read, field by field
LEMMA ReadFields ==
    ASSUME NEW x, NEW a, NEW b \in BOOLEAN,
           NEW u, u = [indexes |-> x, accumulator |-> a, stopped |-> b],
           NEW i, NEW delta, NEW most
    PROVE  ReadOutcome(ReadStep(u, i, delta, most), u, x, a, b, i, delta, most)
<1>1. u.indexes = x /\ u.accumulator = a /\ u.stopped = b
  OBVIOUS
<1>2. OnlyZerosLeft(u) = [indexes |-> IF a > 0 THEN Append(x, x[Len(x)] + a) ELSE x,
                          accumulator |-> 0, stopped |-> TRUE]
  BY <1>1 DEF OnlyZerosLeft
<1>3. [u EXCEPT !.accumulator = @ + most]
         = [indexes |-> x, accumulator |-> a + most, stopped |-> b]
  OBVIOUS
<1>4. [u EXCEPT !.indexes = Append(@, @[Len(@)] + delta[i] + u.accumulator),
                !.accumulator = 0]
         = [indexes |-> Append(x, x[Len(x)] + delta[i] + a), accumulator |-> 0,
            stopped |-> b]
  <2> DEFINE y == Append(x, x[Len(x)] + delta[i] + a)
  <2>1. ASSUME NEW r, r = [u EXCEPT !.indexes = y, !.accumulator = 0]
        PROVE  r = [indexes |-> y, accumulator |-> 0, stopped |-> b]
    <3> HIDE DEF y
    <3> QED
      BY <2>1
  <2>2. QED
    BY <1>1, <2>1
<1>5. QED
  BY <1>1, <1>2, <1>3, <1>4 DEF ReadStep, ZerosFrom, ReadOutcome

\* a slot is read as it was filled
LEMMA ReadStepOK ==
    ASSUME NEW m, Increasing(m), NEW w \in Nat, NEW most \in Nat, NEW P, NEW D,
           Packed(P, D, m, w, most), NEW i \in 1 .. w - 1,
           NEW u, ReadOK(u, P[i - 1], m, P[w - 1].stored)
    PROVE  ReadOK(ReadStep(u, i, D, most), P[i], m, P[w - 1].stored)
<1> DEFINE final == P[w - 1].stored
<1>1. PICK p, q, k, d : p = P[i - 1] /\ q = P[i] /\ k = i - 1 /\ d = D[i]
  OBVIOUS
<1>2. PICK a, c, x, y : a = p.previous /\ c = p.stored /\ x = q.previous /\ y = q.stored
  OBVIOUS
<1>3. /\ \A l \in 1 .. Len(m) : m[l] \in Nat
      /\ Len(m) \in Nat /\ m \in Seq(Nat)
  BY DEF Increasing
<1>4. StoreOK(p, k, m, most) /\ Filled(p, q, d, m, most) /\ k \in 0 .. w - 1 /\ k + 1 = i
      /\ d \in Nat
  <2>1. k \in 0 .. w - 1 /\ k + 1 = i /\ Len(D) = w - 1 /\ D \in Seq(Nat)
    BY <1>1 DEF Packed
  <2>2. Filled(P[i - 1], P[i], D[i], m, most)
    BY DEF Packed
  <2>3. StoreOK(P[k], k, m, most) /\ D[i] \in Nat
    BY SMTT(20), <2>1 DEF Packed
  <2>4. QED
    BY <1>1, <2>1, <2>2, <2>3
<1>5. /\ Len(c) \in 1 .. Len(m) /\ c \in Seq(Nat) /\ c[Len(c)] = m[Len(c)]
      /\ a \in Nat /\ a >= m[Len(c)]
      /\ Len(c) = Len(m) \/ most = 0 => a = m[Len(c)]
      /\ m[Len(c)] \in Nat
  <2>1. FieldsOK(a, p.deltas, c, k, m, most)
    BY <1>2, <1>4 DEF StoreOK
  <2>2. QED
    BY <1>3, <2>1 DEF FieldsOK
<1>6. FieldsFilled(a, c, x, y, d, m, most)
  BY <1>2, <1>4 DEF Filled
<1>7. PICK e, f, b : u = [indexes |-> e, accumulator |-> f, stopped |-> b]
  BY DEF ReadOK
<1>8. /\ b \in BOOLEAN
      /\ b => e = final
      /\ ~ b => e = c /\ f = a - m[Len(c)]
  <2>1. u.indexes = e /\ u.accumulator = f /\ u.stopped = b
    BY <1>7
  <2>2. QED
    BY <1>1, <1>2, <2>1 DEF ReadOK
<1>9. ASSUME NEW e2, NEW f2, NEW b2 \in BOOLEAN,
             ReadStep(u, i, D, most) = [indexes |-> e2, accumulator |-> f2, stopped |-> b2],
             b2 => e2 = final, ~ b2 => e2 = y /\ f2 = x - m[Len(y)]
      PROVE  ReadOK(ReadStep(u, i, D, most), P[i], m, P[w - 1].stored)
  <2>1. PICK v : v = ReadStep(u, i, D, most)
    OBVIOUS
  <2>2. v.indexes = e2 /\ v.accumulator = f2 /\ v.stopped = b2
        /\ v = [indexes |-> e2, accumulator |-> f2, stopped |-> b2]
    BY <1>9, <2>1
  <2>3. ReadOK(v, q, m, final)
    BY <1>2, <1>9, <2>2 DEF ReadOK
  <2>4. QED
    BY <1>1, <2>1, <2>3
<1>15. ReadOutcome(ReadStep(u, i, D, most), u, e, f, b, i, D, most)
  BY <1>7, <1>8, ReadFields
<1>10. CASE b
  <2>1. ReadStep(u, i, D, most) = u
    BY <1>10, <1>15 DEF ReadOutcome
  <2>2. QED
    BY <1>7, <1>8, <1>9, <1>10, <2>1
<1>11. CASE ~ b /\ ZerosFrom(D, i)
  <2> DEFINE e2 == IF f > 0 THEN Append(e, e[Len(e)] + f) ELSE e
  <2>1. ReadStep(u, i, D, most) = [indexes |-> e2, accumulator |-> 0, stopped |-> TRUE]
    BY <1>11, <1>15 DEF ReadOutcome
  <2>2. e2 = final
    <3>1. WithRest(P, k, m, final)
      <4>1. ZerosFrom(D, k + 1) /\ k + 1 <= w - 1
        BY <1>4, <1>11
      <4>2. QED
        BY <1>4, <4>1, ZerosLeft
    <3>2. P[k].previous = a /\ P[k].stored = c
      BY <1>1, <1>2
    <3>3. e = c /\ f = a - m[Len(c)] /\ e[Len(e)] + f = a
      BY <1>5, <1>8, <1>11
    <3> HIDE DEF final
    <3>4. QED
      BY <3>1, <3>2, <3>3 DEF WithRest
  <2> HIDE DEF e2, final
  <2>3. QED
    BY <1>9, <2>1, <2>2
<1>12. CASE ~ b /\ ~ ZerosFrom(D, i) /\ D[i] = most
  <2>1. ReadStep(u, i, D, most) = [indexes |-> e, accumulator |-> f + most, stopped |-> b]
    BY <1>12, <1>15 DEF ReadOutcome
  <2>2. y = c /\ x = a + most
    <3>1. d = most
      BY <1>1, <1>12
    <3>2. QED
      BY <1>5, <1>6, <3>1 DEF FieldsFilled
  <2>3. e = y /\ f + most = x - m[Len(y)]
    BY <1>5, <1>8, <1>12, <2>2
  <2>4. QED
    BY <1>8, <1>9, <1>12, <2>1, <2>3
<1>13. CASE ~ b /\ ~ ZerosFrom(D, i) /\ D[i] # most
  <2>1. ReadStep(u, i, D, most)
          = [indexes |-> Append(e, e[Len(e)] + D[i] + f), accumulator |-> 0, stopped |-> b]
    BY <1>13, <1>15 DEF ReadOutcome
  <2>2. Len(c) < Len(m)
    <3>1. SUFFICES ASSUME Len(c) = Len(m) PROVE FALSE
      BY <1>3, <1>5
    <3>2. Len(P[k].stored) = Len(m)
      BY <1>1, <1>2, <3>1
    <3>3. ZerosFrom(D, k + 1)
      BY <1>4, <3>2, AllStored
    <3>4. QED
      BY <1>4, <1>13, <3>3
  <2>3. PICK t : t = m[Len(c) + 1]
    OBVIOUS
  <2>4. t \in Nat
    BY <1>3, <1>5, <2>2, <2>3
  <2>5. d = t - a /\ y = Append(c, t) /\ x = t
    <3>1. d # most
      BY <1>1, <1>13
    <3>2. QED
      BY <1>6, <2>2, <2>3, <3>1 DEF FieldsFilled
  <2>6. e[Len(e)] + D[i] + f = t
    BY SMTT(20), <1>1, <1>4, <1>5, <1>8, <1>13, <2>4, <2>5
  <2>7. Append(e, e[Len(e)] + D[i] + f) = y
    <3>1. e = c
      BY <1>8, <1>13
    <3>2. QED
      BY <2>5, <2>6, <3>1
  <2>8. 0 = x - m[Len(y)]
    <3>1. Len(y) = Len(c) + 1
      BY <1>5, <2>4, <2>5
    <3>2. QED
      BY <2>3, <2>4, <2>5, <3>1
  <2>9. QED
    BY <1>8, <1>9, <1>13, <2>1, <2>7, <2>8
<1>14. QED
  BY <1>8, <1>10, <1>11, <1>12, <1>13

\* a node unpacks what it packed, some of the first positions
LEMMA Unpacked ==
    ASSUME NEW m, Increasing(m), NEW w \in Nat, w >= 1, w >= 2 => maxDeltaValue(w) \in Nat,
           NEW packed, packed.base = m[1], packed.deltas = storeIndexes(m, w).deltas
    PROVE  /\ getIndexes(packed, w) = storeIndexes(m, w).stored
           /\ FieldsOK(storeIndexes(m, w).previous, storeIndexes(m, w).deltas,
                       storeIndexes(m, w).stored, w - 1, m, maxDeltaValue(w))
<1> DEFINE most == maxDeltaValue(w)
<1>1. PICK P : storeIndexes(m, w) = P[w - 1] /\ Packs(P, m, w, most)
  BY StoreRuns
<1>2. PICK U : getIndexes(packed, w) = U[w - 1].indexes
               /\ Unpacks(U, packed.base, packed.deltas, w, most)
  BY ReadRuns
<1>3. PICK D : D = P[w - 1].deltas
  OBVIOUS
<1> HIDE DEF most
<1>4. Packed(P, D, m, w, most)
  <2>1. w >= 2 => most \in Nat
    BY DEF most
  <2>2. QED
    BY <1>1, <1>3, <2>1, PackedSlots
<1>5. U[0] = ReadStart(m[1]) /\ \A i \in 1 .. w - 1 : U[i] = ReadStep(U[i - 1], i, D, most)
  <2>1. packed.deltas = D /\ packed.base = m[1]
    BY <1>1, <1>3
  <2>2. QED
    BY <1>2, <2>1 DEF Unpacks
<1> DEFINE final == P[w - 1].stored
           T == {n \in Nat : n <= w - 1 => ReadOK(U[n], P[n], m, final)}
<1>6. 0 \in T
  <2>1. U[0] = [indexes |-> <<m[1]>>, accumulator |-> 0, stopped |-> FALSE]
    BY <1>5 DEF ReadStart
  <2>2. P[0].stored = <<m[1]>> /\ P[0].previous = m[1]
    BY <1>1 DEF Packs, StoreStart
  <2>3. Len(<<m[1]>>) = 1 /\ 0 = m[1] - m[1]
    BY DEF Increasing
  <2> DEFINE u == U[0]
             p == P[0]
  <2>4. /\ u = [indexes |-> <<m[1]>>, accumulator |-> 0, stopped |-> FALSE]
        /\ p.stored = <<m[1]>> /\ p.previous = m[1]
    BY <2>1, <2>2
  <2> HIDE DEF u, p
  <2>5. u.indexes = <<m[1]>> /\ u.accumulator = 0 /\ u.stopped = FALSE
    BY <2>4
  <2>6. ReadOK(u, p, m, final)
    BY <2>3, <2>4, <2>5 DEF ReadOK
  <2>7. QED
    BY <2>6 DEF u, p
<1>7. ASSUME NEW n \in Nat, n \in T PROVE n + 1 \in T
  <2> SUFFICES ASSUME n + 1 <= w - 1 PROVE ReadOK(U[n + 1], P[n + 1], m, final)
    OBVIOUS
  <2>1. ReadOK(U[n], P[n], m, final) /\ most \in Nat
    BY <1>7 DEF most
  <2> DEFINE i == n + 1
  <2>2. i \in 1 .. w - 1 /\ i - 1 = n
    OBVIOUS
  <2>3. ReadOK(U[n], P[i - 1], m, final)
    BY <2>1, <2>2
  <2>4. U[i] = ReadStep(U[n], i, D, most)
    BY <1>5, <2>2
  <2> HIDE DEF i
  <2>5. ReadOK(U[i], P[i], m, final)
    BY <1>4, <2>1, <2>2, <2>3, <2>4, ReadStepOK
  <2>6. QED
    BY <2>5 DEF i
<1>8. w - 1 \in T
  <2>1. w - 1 \in Nat
    OBVIOUS
  <2> HIDE DEF T
  <2> QED
    BY <1>6, <1>7, <2>1, AllNaturals
<1>9. U[w - 1].indexes = final
  BY <1>8 DEF ReadOK
<1>10. StoreOK(P[w - 1], w - 1, m, most)
  BY <1>4 DEF Packed
<1>11. QED
  BY <1>1, <1>2, <1>9, <1>10 DEF StoreOK, most

\* positions of which every string branches at one, or behind all of them
Minima(m, part) ==
    /\ Increasing(m)
    /\ \A j \in 1 .. Len(part) : (\E k \in 1 .. Len(m) : m[k] = part[j].lcp)
                                 \/ (\A k \in 1 .. Len(m) : m[k] < part[j].lcp)
    /\ \E j \in 1 .. Len(part) : part[j].lcp = m[1]

\* elements of a larger set
LEMMA WiderSequence ==
    ASSUME NEW S, NEW T, S \subseteq T, NEW m \in Seq(S)
    PROVE  m \in Seq(T)
  OBVIOUS

\* the positions that distinctMinima chooses do not depend on the known prefix
LEMMA MinimaFound ==
    ASSUME NEW part, NEW n \in Nat \ {0}, Len(part) = n, \A j \in 1 .. n : part[j].lcp \in Nat,
           NEW w \in Nat, w >= 1, NEW known \in Nat, \A j \in 1 .. n : known <= part[j].lcp
    PROVE  /\ distinctMinima(part, w, known) = distinctMinima(part, w, 0)
           /\ Minima(distinctMinima(part, w, known), part)
<1> DEFINE all == {part[j].lcp : j \in 1 .. Len(part)}
           S == {x \in all : RankIn(all, x) < w}
           m == Ascending(S)
<1>1. all \in SUBSET Nat /\ IsFiniteSet(all) /\ Cardinality(all) \in Nat /\ Cardinality(all) > 0
  <2>1. all \in SUBSET Nat /\ part[1].lcp \in all
    <3>1. 1 \in 1 .. n
      OBVIOUS
    <3>2. QED
      BY <3>1
  <2>2. IsFiniteSet(all)
    <3>1. IsFiniteSet(1 .. n)
      BY FS_Interval
    <3> DEFINE F == [j \in 1 .. n |-> part[j].lcp]
    <3>2. F \in Surjection(1 .. n, all)
      BY DEF Surjection
    <3> HIDE DEF F, all
    <3>3. QED
      BY <3>1, <3>2, FS_Surjection
  <2> HIDE DEF all
  <2>3. all # {}
    BY <2>1
  <2>4. QED
    BY <2>1, <2>2, <2>3, FS_CardinalityType, FS_EmptySet
<1>2. distinctMinima(part, w, known) = m
  <2>1. {x \in all : x >= known} = all
    OBVIOUS
  <2>2. \A x : Cardinality({y \in all : y < x}) = RankIn(all, x)
    BY DEF RankIn, Below
  <2> HIDE DEF all
  <2>3. {x \in all : Cardinality({y \in all : y < x}) < w} = S
    BY <2>2
  <2>4. QED
    BY <2>1, <2>3 DEF distinctMinima, all
<1>3. distinctMinima(part, w, 0) = m
  <2>1. {x \in all : x >= 0} = all
    OBVIOUS
  <2>2. \A x : Cardinality({y \in all : y < x}) = RankIn(all, x)
    BY DEF RankIn, Below
  <2> HIDE DEF all
  <2>3. {x \in all : Cardinality({y \in all : y < x}) < w} = S
    BY <2>2
  <2>4. QED
    BY <2>1, <2>3 DEF distinctMinima, all
<1>4. \A j \in 1 .. Len(part) : part[j].lcp \in all
  OBVIOUS
<1>5. \A x \in all : \E j \in 1 .. Len(part) : part[j].lcp = x
  OBVIOUS
<1> HIDE DEF all
<1>6. S \in SUBSET Nat /\ IsFiniteSet(S)
  BY <1>1, FS_Subset
<1>7. \E x \in S : TRUE
  <2>1. PICK x \in all : RankIn(all, x) = 0
    <3>1. 0 \in Nat /\ 0 < Cardinality(all)
      BY <1>1
    <3>2. QED
      BY <1>1, <3>1, RankTaken
  <2>2. x \in S
    BY <2>1
  <2>3. QED
    BY <2>2
<1>8. ASSUME NEW x \in all, x \notin S, NEW y \in S PROVE y < x
  <2>1. y \in all /\ x \in Nat /\ y \in Nat /\ RankIn(all, x) \in Nat /\ RankIn(all, y) \in Nat
    BY <1>1, RankType
  <2>2. RankIn(all, y) < RankIn(all, x)
    BY <1>8, <2>1
  <2>3. QED
    BY <1>1, <2>1, <2>2, RankOrder
<1> HIDE DEF S
<1>9. Orders(m, S) /\ m \in Seq(S) /\ Len(m) \in Nat
  BY <1>6, AscendingOrders DEF Orders
<1>10. S \subseteq all
  BY DEF S
<1> HIDE DEF m
<1>11. Increasing(m)
  <2>1. m \in Seq(Nat)
    <3>1. S \subseteq Nat
      BY <1>1, <1>10
    <3>2. QED
      BY <1>9, <3>1, WiderSequence
  <2>2. PICK x \in S : TRUE
    BY <1>7
  <2>3. \E k \in 1 .. Len(m) : m[k] = x
    BY <1>9 DEF Orders
  <2>4. QED
    BY <1>9, <2>1, <2>3 DEF Increasing, Orders
<1>12. ASSUME NEW j \in 1 .. Len(part)
       PROVE  (\E k \in 1 .. Len(m) : m[k] = part[j].lcp)
                 \/ (\A k \in 1 .. Len(m) : m[k] < part[j].lcp)
  <2> DEFINE x == part[j].lcp
  <2>1. x \in all
    BY <1>4
  <2> HIDE DEF x
  <2>2. CASE x \in S
    <3>1. \E k \in 1 .. Len(m) : m[k] = x
      BY <1>9, <2>2 DEF Orders
    <3>2. QED
      BY <3>1 DEF x
  <2>3. CASE x \notin S
    <3>1. \A k \in 1 .. Len(m) : m[k] \in S
      BY <1>9 DEF Orders
    <3>2. \A k \in 1 .. Len(m) : m[k] < x
      BY <1>8, <2>1, <2>3, <3>1
    <3>3. QED
      BY <3>2 DEF x
  <2>4. QED
    BY <2>2, <2>3
<1>13. \E j \in 1 .. Len(part) : part[j].lcp = m[1]
  <2>1. 1 \in 1 .. Len(m)
    BY <1>9, <1>11 DEF Increasing
  <2>2. m[1] \in all
    BY <1>9, <1>10, <2>1 DEF Orders
  <2>3. QED
    BY <1>5, <2>2
<1>14. Minima(m, part)
  BY <1>11, <1>12, <1>13 DEF Minima
<1>15. QED
  BY <1>2, <1>3, <1>14

\* the positions that fit are positions at which chunks may be read
LEMMA StoredBranchings ==
    ASSUME NEW m, NEW part, Minima(m, part), NEW w \in Nat, w >= 1,
           NEW previous, NEW deltas, NEW stored, NEW most,
           FieldsOK(previous, deltas, stored, w - 1, m, most)
    PROVE  /\ Branchings(stored, part, w)
           /\ \E j \in 1 .. Len(part) : IsRead(stored, part, w, j)
           /\ stored[1] = m[1]
<1>1. /\ Len(m) \in Nat /\ Len(stored) \in Nat /\ Len(stored) >= 1
      /\ Len(stored) <= Len(m) /\ Len(stored) <= w
      /\ \A k \in 1 .. Len(stored) : stored[k] = m[k]
      /\ \A k \in 1 .. Len(m) : m[k] \in Nat
      /\ \A k, l \in 1 .. Len(m) : k < l => m[k] < m[l]
  <2>1. Len(stored) <= w - 1 + 1 /\ w - 1 + 1 = w
    BY DEF FieldsOK
  <2>2. /\ Len(m) \in Nat /\ m \in Seq(Nat)
        /\ \A k, l \in 1 .. Len(m) : k < l => m[k] < m[l]
    BY SMTT(20) DEF Minima, Increasing
  <2>3. /\ Len(stored) \in 1 .. Len(m)
        /\ \A k \in 1 .. Len(stored) : stored[k] = m[k]
    BY DEF FieldsOK
  <2>4. \A k \in 1 .. Len(m) : m[k] \in Nat
    BY <2>2
  <2>5. QED
    BY <2>1, <2>2, <2>3, <2>4
<1>2. \A k \in 1 .. Len(stored) : k \in 1 .. Len(m) /\ k <= w
  BY <1>1
<1>3. ASSUME NEW j \in 1 .. Len(part)
      PROVE  \/ \E q \in 1 .. Len(stored) : q <= w /\ stored[q] = part[j].lcp
             \/ \A q \in 1 .. Len(stored) : q <= w => stored[q] < part[j].lcp
  <2>1. CASE \E k \in 1 .. Len(m) : m[k] = part[j].lcp
    <3>1. PICK k \in 1 .. Len(m) : m[k] = part[j].lcp
      BY <2>1
    <3>2. CASE k <= Len(stored)
      <4>1. k \in 1 .. Len(stored)
        BY <1>1, <3>2
      <4>2. QED
        BY <1>1, <1>2, <3>1, <4>1
    <3>3. CASE ~ (k <= Len(stored))
      <4>1. \A q \in 1 .. Len(stored) : q \in 1 .. Len(m) /\ q < k
        BY <1>1, <3>3
      <4>2. \A q \in 1 .. Len(stored) : stored[q] < part[j].lcp
        BY <1>1, <3>1, <4>1
      <4>3. QED
        BY <4>2
    <3>4. QED
      BY <3>2, <3>3
  <2>2. CASE \A k \in 1 .. Len(m) : m[k] < part[j].lcp
    BY <1>1, <1>2, <2>2
  <2>3. QED
    BY <2>1, <2>2 DEF Minima
<1>4. 1 \in 1 .. Len(stored) /\ stored[1] = m[1] /\ 1 <= w
  BY <1>1
<1>5. Branchings(stored, part, w)
  <2>1. \A k \in 1 .. Len(stored) : stored[k] \in Nat
    BY <1>1, <1>2
  <2>2. \A k, l \in 1 .. Len(stored) : k < l => stored[k] < stored[l]
    BY <1>1, <1>2
  <2>3. QED
    BY <1>1, <1>3, <2>1, <2>2 DEF Branchings
<1>6. \E j \in 1 .. Len(part) : IsRead(stored, part, w, j)
  BY <1>4 DEF Minima, IsRead
<1>7. QED
  BY <1>4, <1>5, <1>6

-----------------------------------------------------------------------------
(* The calls of constructNode. *)

IsStack(s) == Len(s) \in Nat /\ s \in Seq({s[d] : d \in 1 .. Len(s)})

\* t is s with x for the last call, or with another call y behind it
Replaced(s, t, x) ==
    /\ Len(t) = Len(s) /\ t[Len(s)] = x
    /\ \A d \in 1 .. Len(s) - 1 : t[d] = s[d]

Called(s, t, x, y) ==
    /\ Len(t) = Len(s) + 1 /\ t[Len(s)] = x /\ t[Len(s) + 1] = y
    /\ \A d \in 1 .. Len(s) - 1 : t[d] = s[d]

Returned(s, t) ==
    /\ Len(t) = Len(s) - 1
    /\ \A d \in 1 .. Len(s) - 1 : t[d] = s[d]

\* sequences are stacks
LEMMA StackOf ==
    ASSUME NEW V, NEW s \in Seq(V)
    PROVE  IsStack(s)
<1>1. Len(s) \in Nat /\ s = [d \in 1 .. Len(s) |-> s[d]]
  OBVIOUS
<1> DEFINE W == {s[d] : d \in 1 .. Len(s)}
<1>2. \A d \in 1 .. Len(s) : s[d] \in W
  OBVIOUS
<1> HIDE DEF W
<1>3. s \in [1 .. Len(s) -> W]
  BY <1>1, <1>2
<1>4. s \in Seq(W)
  BY <1>1, <1>3
<1>5. QED
  BY <1>1, <1>4 DEF IsStack, W

Behind(r, x, t) == t = Append(r, x) \/ t = r \o <<x>>
Replacing(s, x, t) == t = Append(SubSeq(s, 1, Len(s) - 1), x)
Calling(s, x, y, t) == t = Append(SubSeq(s, 1, Len(s) - 1), x) \o <<y>>

\* a sequence with one more element
LEMMA OneBehind ==
    ASSUME NEW V, NEW r \in Seq(V), NEW x \in V, NEW t, Behind(r, x, t)
    PROVE  /\ t \in Seq(V) /\ Len(t) = Len(r) + 1 /\ t[Len(r) + 1] = x
           /\ \A d \in 1 .. Len(r) : t[d] = r[d]
<1>1. CASE t = Append(r, x)
  BY <1>1
<1>2. CASE t = r \o <<x>>
  <2>1. <<x>> \in Seq(V) /\ Len(<<x>>) = 1 /\ <<x>>[1] = x
    OBVIOUS
  <2>2. QED
    BY <1>2, <2>1
<1>3. QED
  BY <1>1, <1>2 DEF Behind

\* the last call has returned
LEMMA StackReturns ==
    ASSUME NEW s, IsStack(s), s # <<>>, NEW t, t = SubSeq(s, 1, Len(s) - 1)
    PROVE  IsStack(t) /\ Returned(s, t) /\ Len(s) >= 1
<1> DEFINE V == {s[d] : d \in 1 .. Len(s)}
           n == Len(s) - 1
<1>1. s \in Seq(V) /\ Len(s) \in Nat /\ Len(s) # 0
  BY DEF IsStack
<1> HIDE DEF V
<1>2. n \in Nat /\ n - 1 + 1 = n /\ 1 \in 1 .. Len(s) + 1 /\ n \in 1 - 1 .. Len(s)
      /\ Len(s) >= 1
  BY <1>1
<1>3. t = SubSeq(s, 1, n)
  OBVIOUS
<1> HIDE DEF n
<1>4. t \in Seq(V) /\ Len(t) = n - 1 + 1 /\ \A i \in 1 .. n - 1 + 1 : t[i] = s[1 + i - 1]
  BY <1>1, <1>2, <1>3, SubSeqProperties
<1>5. \A i \in 1 .. n : t[i] = s[i]
  <2> SUFFICES ASSUME NEW i \in 1 .. n PROVE t[i] = s[i]
    OBVIOUS
  <2>1. 1 + i - 1 = i
    OBVIOUS
  <2>2. QED
    BY <1>2, <1>4, <2>1
<1>6. IsStack(t)
  BY <1>4, StackOf
<1>7. QED
  BY <1>2, <1>4, <1>5, <1>6 DEF Returned, n

\* the last call has changed
LEMMA StackReplaces ==
    ASSUME NEW s, IsStack(s), s # <<>>, NEW x, NEW t, Replacing(s, x, t)
    PROVE  IsStack(t) /\ Replaced(s, t, x) /\ Len(s) >= 1
<1>1. PICK r : r = SubSeq(s, 1, Len(s) - 1)
  OBVIOUS
<1>2. IsStack(r) /\ Len(r) = Len(s) - 1 /\ Len(s) >= 1 /\ Len(s) \in Nat
      /\ \A d \in 1 .. Len(s) - 1 : r[d] = s[d]
  <2>1. IsStack(r) /\ Returned(s, r) /\ Len(s) >= 1
    BY <1>1, StackReturns
  <2>2. Len(s) \in Nat
    BY DEF IsStack
  <2>3. QED
    BY <2>1, <2>2 DEF Returned
<1>3. Behind(r, x, t)
  BY <1>1 DEF Behind, Replacing
<1> DEFINE V == {r[d] : d \in 1 .. Len(r)} \cup {x}
<1>4. r \in Seq(V) /\ x \in V
  <2> DEFINE W == {r[d] : d \in 1 .. Len(r)}
  <2>1. r \in Seq(W) /\ W \subseteq V /\ x \in V
    BY <1>2 DEF IsStack
  <2> HIDE DEF W, V
  <2>2. QED
    BY <2>1
<1> HIDE DEF V
<1>5. /\ t \in Seq(V) /\ Len(t) = Len(r) + 1 /\ t[Len(r) + 1] = x
      /\ \A d \in 1 .. Len(r) : t[d] = r[d]
  BY <1>3, <1>4, OneBehind
<1>6. IsStack(t)
  BY <1>5, StackOf
<1>7. Len(r) + 1 = Len(s)
  BY <1>2
<1>8. QED
  BY <1>2, <1>5, <1>6, <1>7 DEF Replaced

\* the last call has changed and called another one
LEMMA StackCalls ==
    ASSUME NEW s, IsStack(s), s # <<>>, NEW x, NEW y, NEW t, Calling(s, x, y, t)
    PROVE  IsStack(t) /\ Called(s, t, x, y) /\ Len(s) >= 1
<1>1. PICK r : r = Append(SubSeq(s, 1, Len(s) - 1), x)
  OBVIOUS
<1>2. IsStack(r) /\ Replaced(s, r, x) /\ Len(s) >= 1 /\ Len(s) \in Nat
  <2>1. IsStack(r) /\ Replaced(s, r, x) /\ Len(s) >= 1
    BY <1>1, StackReplaces DEF Replacing
  <2>2. Len(s) \in Nat
    BY DEF IsStack
  <2>3. QED
    BY <2>1, <2>2
<1>3. Behind(r, y, t)
  BY <1>1 DEF Behind, Calling
<1> DEFINE V == {r[d] : d \in 1 .. Len(r)} \cup {y}
<1>4. r \in Seq(V) /\ y \in V
  <2> DEFINE W == {r[d] : d \in 1 .. Len(r)}
  <2>1. r \in Seq(W) /\ W \subseteq V /\ y \in V
    BY <1>2 DEF IsStack
  <2> HIDE DEF W, V
  <2>2. QED
    BY <2>1
<1> HIDE DEF V
<1>5. /\ t \in Seq(V) /\ Len(t) = Len(r) + 1 /\ t[Len(r) + 1] = y
      /\ \A d \in 1 .. Len(r) : t[d] = r[d]
  BY <1>3, <1>4, OneBehind
<1>6. IsStack(t)
  BY <1>5, StackOf
<1>7. Len(r) = Len(s) /\ r[Len(s)] = x /\ \A d \in 1 .. Len(s) - 1 : r[d] = s[d]
  BY <1>2 DEF Replaced
<1>8. Len(t) = Len(s) + 1 /\ t[Len(s) + 1] = y /\ t[Len(s)] = x
      /\ \A d \in 1 .. Len(s) - 1 : t[d] = s[d]
  BY <1>2, <1>5, <1>7
<1>9. QED
  BY <1>2, <1>6, <1>8 DEF Called

\* a call of a node that is being split
Frame(b, e, o, p, l, k, ph, nd, mp, cs, co, nx, pb, cb, tmp) ==
    [begin |-> b, end |-> e, offset |-> o, path |-> p, layer |-> l, known |-> k,
     phase |-> ph, node |-> nd, mapper |-> mp, chunks |-> cs, chunksOffsets |-> co,
     next |-> nx, prevBucket |-> pb, currentBucketBegin |-> cb,
     bucketSizePrefixTemp |-> tmp]

\* the call f when it has gone on
Moved(f, ph, nx, pb, cb, tmp) ==
    Frame(f.begin, f.end, f.offset, f.path, f.layer, f.known, ph, f.node, f.mapper,
          f.chunks, f.chunksOffsets, nx, pb, cb, tmp)

IsFrame(f) ==
    \E b, e, o, p, l, k, ph, nd, mp, cs, co, nx, pb, cb, tmp :
        f = Frame(b, e, o, p, l, k, ph, nd, mp, cs, co, nx, pb, cb, tmp)

\* the fields of a call
LEMMA FrameFields ==
    ASSUME NEW b, NEW e, NEW o, NEW p, NEW l, NEW k, NEW ph, NEW nd, NEW mp, NEW cs, NEW co,
           NEW nx, NEW pb, NEW cb, NEW tmp,
           NEW f, f = Frame(b, e, o, p, l, k, ph, nd, mp, cs, co, nx, pb, cb, tmp)
    PROVE  /\ f.begin = b /\ f.end = e /\ f.offset = o /\ f.path = p /\ f.layer = l
           /\ f.known = k /\ f.phase = ph /\ f.node = nd /\ f.mapper = mp
           /\ f.chunks = cs /\ f.chunksOffsets = co /\ f.next = nx
           /\ f.prevBucket = pb /\ f.currentBucketBegin = cb
           /\ f.bucketSizePrefixTemp = tmp
  BY DEF Frame

\* the fields of a call that has gone on
LEMMA MovedFields ==
    ASSUME NEW f, NEW ph, NEW nx, NEW pb, NEW cb, NEW tmp,
           NEW g, g = Moved(f, ph, nx, pb, cb, tmp)
    PROVE  /\ IsFrame(g)
           /\ g.begin = f.begin /\ g.end = f.end /\ g.offset = f.offset /\ g.path = f.path
           /\ g.layer = f.layer /\ g.known = f.known /\ g.phase = ph /\ g.node = f.node
           /\ g.mapper = f.mapper /\ g.chunks = f.chunks
           /\ g.chunksOffsets = f.chunksOffsets /\ g.next = nx
           /\ g.prevBucket = pb /\ g.currentBucketBegin = cb
           /\ g.bucketSizePrefixTemp = tmp
<1>1. PICK b, e, o, p, l, k, nd, mp, cs, co :
         /\ b = f.begin /\ e = f.end /\ o = f.offset /\ p = f.path /\ l = f.layer
         /\ k = f.known /\ nd = f.node /\ mp = f.mapper /\ cs = f.chunks
         /\ co = f.chunksOffsets
  OBVIOUS
<1>2. g = Frame(b, e, o, p, l, k, ph, nd, mp, cs, co, nx, pb, cb, tmp)
  BY <1>1 DEF Moved
<1>3. IsFrame(g)
  BY <1>2 DEF IsFrame
<1>4. QED
  BY <1>1, <1>2, <1>3, FrameFields

\* the moves of a call
BucketMoves(f, g) == g = [f EXCEPT !.prevBucket = @ + 1]
ChunkMoves(f, g) == g = [f EXCEPT !.next = @ + 1]
Leaves(f, g) == g = [f EXCEPT !.phase = "leave"]
GoesOn(f, end, v, g) ==
    g = [f EXCEPT !.currentBucketBegin = end, !.bucketSizePrefixTemp = @ + v]

\* a bucket is closed
LEMMA BucketMoved ==
    ASSUME NEW f, IsFrame(f), NEW g, BucketMoves(f, g)
    PROVE  g = Moved(f, f.phase, f.next, f.prevBucket + 1, f.currentBucketBegin,
                     f.bucketSizePrefixTemp)
<1>1. PICK b, e, o, p, l, k, ph, nd, mp, cs, co, nx, pb, cb, tmp :
         f = Frame(b, e, o, p, l, k, ph, nd, mp, cs, co, nx, pb, cb, tmp)
  BY DEF IsFrame
<1>2. /\ f.begin = b /\ f.end = e /\ f.offset = o /\ f.path = p /\ f.layer = l
      /\ f.known = k /\ f.phase = ph /\ f.node = nd /\ f.mapper = mp
      /\ f.chunks = cs /\ f.chunksOffsets = co /\ f.next = nx
      /\ f.prevBucket = pb /\ f.currentBucketBegin = cb
      /\ f.bucketSizePrefixTemp = tmp
  BY <1>1, FrameFields
<1>3. Moved(f, f.phase, f.next, f.prevBucket + 1, f.currentBucketBegin,
                     f.bucketSizePrefixTemp)
         = Frame(b, e, o, p, l, k, ph, nd, mp, cs, co, nx, pb + 1, cb, tmp)
  BY <1>2 DEF Moved
<1>4. g = Frame(b, e, o, p, l, k, ph, nd, mp, cs, co, nx, pb + 1, cb, tmp)
  <2> DEFINE x == pb + 1
  <2>1. g = [f EXCEPT !.prevBucket = x]
    BY <1>2 DEF BucketMoves
  <2> HIDE DEF x
  <2>2. g = Frame(b, e, o, p, l, k, ph, nd, mp, cs, co, nx, x, cb, tmp)
    BY <1>1, <2>1 DEF Frame
  <2>3. QED
    BY <2>2 DEF x
<1>5. QED
  BY <1>3, <1>4

\* the next chunk is looked at
LEMMA ChunkMoved ==
    ASSUME NEW f, IsFrame(f), NEW g, ChunkMoves(f, g)
    PROVE  g = Moved(f, f.phase, f.next + 1, f.prevBucket, f.currentBucketBegin,
                     f.bucketSizePrefixTemp)
<1>1. PICK b, e, o, p, l, k, ph, nd, mp, cs, co, nx, pb, cb, tmp :
         f = Frame(b, e, o, p, l, k, ph, nd, mp, cs, co, nx, pb, cb, tmp)
  BY DEF IsFrame
<1>2. /\ f.begin = b /\ f.end = e /\ f.offset = o /\ f.path = p /\ f.layer = l
      /\ f.known = k /\ f.phase = ph /\ f.node = nd /\ f.mapper = mp
      /\ f.chunks = cs /\ f.chunksOffsets = co /\ f.next = nx
      /\ f.prevBucket = pb /\ f.currentBucketBegin = cb
      /\ f.bucketSizePrefixTemp = tmp
  BY <1>1, FrameFields
<1>3. Moved(f, f.phase, f.next + 1, f.prevBucket, f.currentBucketBegin,
                     f.bucketSizePrefixTemp)
         = Frame(b, e, o, p, l, k, ph, nd, mp, cs, co, nx + 1, pb, cb, tmp)
  BY <1>2 DEF Moved
<1>4. g = Frame(b, e, o, p, l, k, ph, nd, mp, cs, co, nx + 1, pb, cb, tmp)
  <2> DEFINE x == nx + 1
  <2>1. g = [f EXCEPT !.next = x]
    BY <1>2 DEF ChunkMoves
  <2> HIDE DEF x
  <2>2. g = Frame(b, e, o, p, l, k, ph, nd, mp, cs, co, x, pb, cb, tmp)
    BY <1>1, <2>1 DEF Frame
  <2>3. QED
    BY <2>2 DEF x
<1>5. QED
  BY <1>3, <1>4

\* the last bucket is closed
LEMMA LeaveMoved ==
    ASSUME NEW f, IsFrame(f), NEW g, Leaves(f, g)
    PROVE  g = Moved(f, "leave", f.next, f.prevBucket, f.currentBucketBegin,
                     f.bucketSizePrefixTemp)
<1>1. PICK b, e, o, p, l, k, ph, nd, mp, cs, co, nx, pb, cb, tmp :
         f = Frame(b, e, o, p, l, k, ph, nd, mp, cs, co, nx, pb, cb, tmp)
  BY DEF IsFrame
<1>2. /\ f.begin = b /\ f.end = e /\ f.offset = o /\ f.path = p /\ f.layer = l
      /\ f.known = k /\ f.phase = ph /\ f.node = nd /\ f.mapper = mp
      /\ f.chunks = cs /\ f.chunksOffsets = co /\ f.next = nx
      /\ f.prevBucket = pb /\ f.currentBucketBegin = cb
      /\ f.bucketSizePrefixTemp = tmp
  BY <1>1, FrameFields
<1>3. Moved(f, "leave", f.next, f.prevBucket, f.currentBucketBegin,
                     f.bucketSizePrefixTemp)
         = Frame(b, e, o, p, l, k, "leave", nd, mp, cs, co, nx, pb, cb, tmp)
  BY <1>2 DEF Moved
<1>4. g = Frame(b, e, o, p, l, k, "leave", nd, mp, cs, co, nx, pb, cb, tmp)
  BY <1>1 DEF Frame, Leaves
<1>5. QED
  BY <1>3, <1>4

\* a child is constructed
LEMMA FrameGoesOn ==
    ASSUME NEW f, IsFrame(f), NEW v, NEW end, NEW g, GoesOn(f, end, v, g)
    PROVE  g = Moved(f, f.phase, f.next, f.prevBucket, end, f.bucketSizePrefixTemp + v)
<1>1. PICK b, e, o, p, l, k, ph, nd, mp, cs, co, nx, pb, cb, tmp :
         f = Frame(b, e, o, p, l, k, ph, nd, mp, cs, co, nx, pb, cb, tmp)
  BY DEF IsFrame
<1>2. /\ f.begin = b /\ f.end = e /\ f.offset = o /\ f.path = p /\ f.layer = l
      /\ f.known = k /\ f.phase = ph /\ f.node = nd /\ f.mapper = mp
      /\ f.chunks = cs /\ f.chunksOffsets = co /\ f.next = nx
      /\ f.prevBucket = pb /\ f.currentBucketBegin = cb
      /\ f.bucketSizePrefixTemp = tmp
  BY <1>1, FrameFields
<1>3. Moved(f, f.phase, f.next, f.prevBucket, end, f.bucketSizePrefixTemp + v)
         = Frame(b, e, o, p, l, k, ph, nd, mp, cs, co, nx, pb, end, tmp + v)
  BY <1>2 DEF Moved
<1>4. g = Frame(b, e, o, p, l, k, ph, nd, mp, cs, co, nx, pb, end, tmp + v)
  <2> DEFINE x == tmp + v
  <2>1. g = [f EXCEPT !.currentBucketBegin = end, !.bucketSizePrefixTemp = x]
    BY <1>2 DEF GoesOn
  <2> HIDE DEF x
  <2>2. g = Frame(b, e, o, p, l, k, ph, nd, mp, cs, co, nx, pb, end, x)
    BY <1>1, <2>1 DEF Frame
  <2>3. QED
    BY <2>2 DEF x
<1>5. QED
  BY <1>3, <1>4

-----------------------------------------------------------------------------
(* What a node reads of its strings. *)

Positions(ix, map, reads) ==
    IF ix THEN getIndexes(reads, length64(map)) ELSE PrefixPositions(reads, length64(map))

ReadBy(ix, map, reads, s) == readChunk(map, s, Positions(ix, map, reads))

ChunksOf(ix, map, reads, strs, begin, end) ==
    [j \in 1 .. end - begin |-> ReadBy(ix, map, reads, strs[begin + j])]

\* what it packed is what it unpacks
Repeats(map, reads, part) ==
    getIndexes(reads, length64(map))
        = storeIndexes(distinctMinima(part, length64(map), 0), length64(map)).stored

KnownBelow(known, ls, begin, end) ==
    known \in Nat /\ \A k \in begin + 1 .. end - 1 : known <= ls[k].lcp

\* the chunks of a part of the strings
LEMMA PartReads ==
    ASSUME NEW begin, NEW end, NEW strs, NEW ls, NEW part, NEW texts,
           IsNode(begin, end, strs, ls, part, texts), NEW map, NEW positions
    PROVE  ChunksAt(map, texts, positions)
              = [j \in 1 .. end - begin |-> readChunk(map, strs[begin + j], positions)]
<1> DEFINE n == end - begin
<1>1. Len(texts) = n /\ \A k \in 1 .. n : texts[k] = strs[begin + k]
  BY NodeParts
<1> HIDE DEF n
<1>2. ChunksAt(map, texts, positions) = [j \in 1 .. n |-> readChunk(map, texts[j], positions)]
  BY <1>1 DEF ChunksAt
<1>3. ChunksAt(map, texts, positions)
         = [j \in 1 .. n |-> readChunk(map, strs[begin + j], positions)]
  BY <1>1, <1>2
<1>4. QED
  BY <1>3 DEF n

\* the numbers of the chunks that a node finds at its positions
LEMMA SplitRuns ==
    ASSUME NEW begin, NEW end, NEW strs, NEW ls, NEW part, NEW texts,
           IsNode(begin, end, strs, ls, part, texts),
           NEW map, Covers(map, ls, begin, end),
           NEW positions, Branchings(positions, part, length64(map)),
           NEW j \in 1 .. Len(part), IsRead(positions, part, length64(map), j),
           NEW R, R = ChunksAt(map, texts, positions),
           NEW firsts, firsts = Ascending(Changes(R, end - begin)),
           NEW chunks, chunks = [c \in 1 .. Len(firsts) |-> R[firsts[c] + 1]]
    PROVE  Runs(R, end - begin, chunks, Append(firsts, end - begin))
<1>1. /\ Nondecreasing(R, end - begin)
      /\ \A i \in 1 .. end - begin - 1 :
            R[i + 1] # R[i] <=> IsRead(positions, part, length64(map), i)
  BY ChunksInOrder
<1>2. end - begin \in Nat /\ end - begin >= 2 /\ Len(part) = end - begin - 1
  BY NodeBranches
<1>3. \E i \in 1 .. end - begin - 1 : R[i + 1] # R[i]
  BY <1>1, <1>2
<1> DEFINE n == end - begin
<1>4. n \in Nat /\ n >= 2 /\ Nondecreasing(R, n) /\ firsts = Ascending(Changes(R, n))
      /\ \E i \in 1 .. n - 1 : R[i + 1] # R[i]
  BY <1>1, <1>2, <1>3
<1> HIDE DEF n
<1>5. Runs(R, n, chunks, Append(firsts, n))
  BY <1>4, RunsOf
<1>6. QED
  BY <1>5 DEF n

PrefixFinds(map, reads, part, texts, firsts, chunks) ==
    /\ reads = MinLCP(part)
    /\ firsts = Ascending({0} \cup {j \in 1 .. Len(part) :
                                        part[j].lcp - reads < length64(map)})
    /\ chunks = [c \in 1 .. Len(firsts) |-> ReadBy(FALSE, map, reads, texts[firsts[c] + 1])]

\* chunks behind the common prefix, as LeMonHashVL reads them
LEMMA PrefixSplit ==
    ASSUME NEW begin, NEW end, NEW strs, NEW ls, NEW part, NEW texts,
           IsNode(begin, end, strs, ls, part, texts),
           NEW map, Covers(map, ls, begin, end), NEW reads, NEW firsts, NEW chunks,
           PrefixFinds(map, reads, part, texts, firsts, chunks)
    PROVE  Runs(ChunksOf(FALSE, map, reads, strs, begin, end), end - begin, chunks,
                Append(firsts, end - begin))
<1> DEFINE w == length64(map)
           n == end - begin
           positions == PrefixPositions(reads, w)
           R == ChunksAt(map, texts, positions)
<1>1. /\ w \in Nat /\ w >= 1 /\ n \in Nat /\ n >= 2 /\ Len(part) = n - 1 /\ Len(texts) = n
      /\ \A j \in 1 .. n - 1 : part[j].lcp \in Nat
  BY NodeBranches
<1>11. /\ reads = MinLCP(part)
       /\ firsts = Ascending({0} \cup {j \in 1 .. Len(part) : part[j].lcp - reads < w})
       /\ chunks = [c \in 1 .. Len(firsts) |->
                       ReadBy(FALSE, map, reads, texts[firsts[c] + 1])]
  BY DEF PrefixFinds
<1> HIDE DEF w, n
<1>2. /\ Branchings(positions, part, w)
      /\ \A j \in 1 .. Len(part) : IsRead(positions, part, w, j) <=> part[j].lcp - reads < w
      /\ \E j \in 1 .. Len(part) : IsRead(positions, part, w, j)
  <2>1. Len(part) \in Nat \ {0} /\ \A j \in 1 .. Len(part) : part[j].lcp \in Nat
    BY <1>1
  <2>2. QED
    BY <1>1, <1>11, <2>1, PrefixBranchings
<1>3. PICK i \in 1 .. Len(part) : IsRead(positions, part, w, i)
  BY <1>2
<1> HIDE DEF positions
<1>4. \A j \in 1 .. n - 1 : R[j + 1] # R[j] <=> IsRead(positions, part, w, j)
  BY <1>2, ChunksInOrder DEF w, n
<1>5. R = ChunksOf(FALSE, map, reads, strs, begin, end)
  <2>1. positions = Positions(FALSE, map, reads)
    BY DEF Positions, positions, w
  <2>2. R = [j \in 1 .. n |-> readChunk(map, strs[begin + j], positions)]
    BY PartReads DEF n
  <2>3. QED
    BY <2>1, <2>2 DEF ChunksOf, ReadBy, n
<1>6. \A j \in 1 .. n : R[j] = ReadBy(FALSE, map, reads, texts[j])
  BY <1>1 DEF ChunksAt, ReadBy, Positions, positions, w
<1> HIDE DEF R
<1>7. firsts = Ascending(Changes(R, n))
  <2>1. {0} \cup {j \in 1 .. Len(part) : part[j].lcp - reads < w} = Changes(R, n)
    BY <1>1, <1>2, <1>4 DEF Changes
  <2>2. QED
    BY <1>11, <2>1
<1>8. chunks = [c \in 1 .. Len(firsts) |-> R[firsts[c] + 1]]
  <2>1. Changes(R, n) \in SUBSET Nat /\ IsFiniteSet(Changes(R, n))
        /\ \A v \in Changes(R, n) : v + 1 \in 1 .. n
    <3>1. Changes(R, n) \in SUBSET (0 .. n - 1)
      BY <1>1 DEF Changes
    <3>2. IsFiniteSet(0 .. n - 1)
      BY <1>1, FS_Interval
    <3>3. IsFiniteSet(Changes(R, n))
      BY <3>1, <3>2, FS_Subset
    <3>4. QED
      BY <1>1, <3>1, <3>3
  <2>2. Orders(firsts, Changes(R, n))
    BY <1>7, <2>1, AscendingOrders
  <2>3. \A c \in 1 .. Len(firsts) : firsts[c] + 1 \in 1 .. n
    BY <2>1, <2>2 DEF Orders
  <2>4. \A c \in 1 .. Len(firsts) :
           ReadBy(FALSE, map, reads, texts[firsts[c] + 1]) = R[firsts[c] + 1]
    BY <1>6, <2>3
  <2>5. QED
    BY <1>11, <2>4
<1>9. Runs(R, n, chunks, Append(firsts, n))
  BY <1>2, <1>3, <1>7, <1>8, SplitRuns DEF w, n, R
<1>10. QED
  BY <1>5, <1>9 DEF n

\* the largest value of a slot is a number
LEMMA MostIsNumber ==
    ASSUME NEW w \in Nat, w >= 2
    PROVE  maxDeltaValue(w) \in Nat
<1> DEFINE x == PackedBits - packBaseBits
           p == w - 1
           q == x \div p
<1>1. x \in Nat /\ p \in Nat \ {0} /\ PackedBits \in Nat /\ x <= PackedBits
  BY PackingAssumption
<1> HIDE DEF x, p
<1>2. q \in Nat /\ x = q * p + (x % p) /\ x % p \in Nat
  BY <1>1, Division
<1> HIDE DEF q
<1>3. 1 * q <= p * q /\ p * q \in Nat
  BY <1>1, <1>2, Times
<1>4. p * q = q * p /\ 1 * q = q
  BY <1>1, <1>2
<1>5. q <= x
  <2>1. PICK y : y = q * p
    OBVIOUS
  <2>2. y \in Nat /\ q <= y /\ x = y + (x % p)
    BY <1>2, <1>3, <1>4, <2>1
  <2>3. QED
    BY <1>1, <1>2, <2>2
<1>6. q \in 0 .. PackedBits
  BY <1>1, <1>2, <1>5
<1>7. 2^q \in Nat \ {0}
  BY <1>6, PackingAssumption
<1>8. maxDeltaValue(w) = 2^q - 1
  BY DEF maxDeltaValue, PackDeltaBits, q, x, p
<1>9. QED
  BY <1>7, <1>8

IndexedSteps(map, known, part, texts, reads, stored, firsts, chunks, minima, packing, all) ==
    /\ minima = distinctMinima(part, length64(map), known)
    /\ packing = storeIndexes(minima, length64(map)) /\ stored = packing.stored
    /\ reads = [base |-> minima[1], deltas |-> packing.deltas]
    /\ all = [j \in 1 .. Len(texts) |-> readChunk(map, texts[j], packing.stored)]
    /\ firsts = Ascending(DistinctFrom(all))
    /\ chunks = [c \in 1 .. Len(firsts) |-> all[firsts[c] + 1]]

IndexedFinds(map, known, part, texts, reads, stored, firsts, chunks) ==
    \E minima, packing, all :
        IndexedSteps(map, known, part, texts, reads, stored, firsts, chunks,
                     minima, packing, all)

\* chunks of the branching positions, as LeMonHashVLIndexed reads them
LEMMA IndexedSplit ==
    ASSUME NEW begin, NEW end, NEW strs, NEW ls, NEW part, NEW texts,
           IsNode(begin, end, strs, ls, part, texts),
           NEW map, Covers(map, ls, begin, end),
           NEW known, KnownBelow(known, ls, begin, end),
           NEW reads, NEW stored, NEW firsts, NEW chunks,
           IndexedFinds(map, known, part, texts, reads, stored, firsts, chunks)
    PROVE  /\ Runs(ChunksOf(TRUE, map, reads, strs, begin, end), end - begin, chunks,
                   Append(firsts, end - begin))
           /\ Repeats(map, reads, part)
           /\ stored[1] \in Nat /\ \E j \in 1 .. Len(part) : stored[1] = part[j].lcp
           /\ \A j \in 1 .. Len(part) : stored[1] <= part[j].lcp
<1>20. PICK minima, packing, all :
          /\ minima = distinctMinima(part, length64(map), known)
          /\ packing = storeIndexes(minima, length64(map)) /\ stored = packing.stored
          /\ reads = [base |-> minima[1], deltas |-> packing.deltas]
          /\ all = [j \in 1 .. Len(texts) |-> readChunk(map, texts[j], packing.stored)]
          /\ firsts = Ascending(DistinctFrom(all))
          /\ chunks = [c \in 1 .. Len(firsts) |-> all[firsts[c] + 1]]
  BY DEF IndexedFinds, IndexedSteps
<1> DEFINE w == length64(map)
           n == end - begin
           positions == packing.stored
           R == ChunksAt(map, texts, positions)
<1>1. /\ w \in Nat /\ w >= 1 /\ n \in Nat /\ n >= 2 /\ Len(part) = n - 1 /\ Len(texts) = n
      /\ \A j \in 1 .. n - 1 : part[j].lcp \in Nat
  BY NodeBranches
<1>2. known \in Nat /\ \A j \in 1 .. Len(part) : known <= part[j].lcp
  <2>1. \A j \in 1 .. n - 1 : part[j] = ls[begin + j] /\ begin \in Nat /\ end \in Nat
    BY NodeParts DEF IsNode, NodeRange
  <2>2. \A j \in 1 .. n - 1 : begin + j \in begin + 1 .. end - 1
    BY <2>1
  <2>3. QED
    BY <1>1, <2>1, <2>2 DEF KnownBelow
<1> HIDE DEF w, n
<1>3. /\ Minima(minima, part) /\ minima = distinctMinima(part, w, 0)
  <2>1. Len(part) \in Nat \ {0} /\ \A j \in 1 .. Len(part) : part[j].lcp \in Nat
    BY <1>1
  <2>2. minima = distinctMinima(part, w, known)
    BY <1>20 DEF w
  <2>3. distinctMinima(part, w, known) = distinctMinima(part, w, 0)
        /\ Minima(distinctMinima(part, w, known), part)
    BY <1>1, <1>2, <2>1, MinimaFound
  <2>4. QED
    BY <2>2, <2>3
<1>4. packing = storeIndexes(minima, w) /\ Increasing(minima)
  BY <1>3, <1>20 DEF w, Minima
<1>5. reads.base = minima[1] /\ reads.deltas = storeIndexes(minima, w).deltas
  BY <1>4, <1>20
<1>6. getIndexes(reads, w) = positions
      /\ FieldsOK(packing.previous, packing.deltas, positions, w - 1, minima, maxDeltaValue(w))
  <2>1. w >= 2 => maxDeltaValue(w) \in Nat
    BY <1>1, MostIsNumber
  <2>2. QED
    BY <1>1, <1>4, <1>5, <2>1, Unpacked
<1>7. Branchings(positions, part, w) /\ positions[1] = minima[1]
      /\ \E j \in 1 .. Len(part) : IsRead(positions, part, w, j)
  <2> DEFINE a == packing.previous
             b == packing.deltas
             m == maxDeltaValue(w)
  <2>1. FieldsOK(a, b, positions, w - 1, minima, m)
    BY <1>6
  <2> HIDE DEF a, b, m, positions
  <2>2. QED
    BY <1>1, <1>3, <2>1, StoredBranchings
<1>8. PICK i \in 1 .. Len(part) : IsRead(positions, part, w, i)
  BY <1>7
<1>9. R = ChunksOf(TRUE, map, reads, strs, begin, end)
  <2>1. positions = Positions(TRUE, map, reads)
    BY <1>6 DEF Positions, w
  <2> HIDE DEF positions
  <2>2. R = [j \in 1 .. n |-> readChunk(map, strs[begin + j], positions)]
    BY PartReads DEF n
  <2>3. QED
    BY <2>1, <2>2 DEF ChunksOf, ReadBy, n
<1>10. all = R
  BY <1>20 DEF ChunksAt
<1>11. firsts = Ascending(Changes(R, n))
  <2>1. Len(R) = n
    BY <1>1 DEF ChunksAt
  <2>2. DistinctFrom(R) = Changes(R, n)
    BY <2>1 DEF DistinctFrom, Changes
  <2>3. QED
    BY <1>10, <1>20, <2>2
<1>12. chunks = [c \in 1 .. Len(firsts) |-> R[firsts[c] + 1]]
  BY <1>10, <1>20
<1> HIDE DEF positions, R
<1>13. Runs(R, n, chunks, Append(firsts, n))
  BY <1>7, <1>8, <1>11, <1>12, SplitRuns DEF w, n, R
<1>14. Repeats(map, reads, part)
  BY <1>3, <1>4, <1>6 DEF Repeats, w, positions
<1>15. \E j \in 1 .. Len(part) : positions[1] = part[j].lcp
  BY <1>3, <1>7 DEF Minima
<1>16. positions[1] \in Nat
  BY <1>1, <1>15
<1>17. \A j \in 1 .. Len(part) : positions[1] <= part[j].lcp
  <2> SUFFICES ASSUME NEW j \in 1 .. Len(part) PROVE minima[1] <= part[j].lcp
    BY <1>7
  <2>1. /\ Len(minima) \in Nat /\ Len(minima) >= 1
        /\ \A k \in 1 .. Len(minima) : minima[k] \in Nat
        /\ \A k, l \in 1 .. Len(minima) : k < l => minima[k] < minima[l]
    BY <1>4 DEF Increasing
  <2>2. part[j].lcp \in Nat /\ 1 \in 1 .. Len(minima)
    BY <1>1, <2>1
  <2>3. CASE \E k \in 1 .. Len(minima) : minima[k] = part[j].lcp
    <3>1. PICK k \in 1 .. Len(minima) : minima[k] = part[j].lcp
      BY <2>3
    <3>2. k = 1 \/ 1 < k
      BY <2>1
    <3>3. QED
      BY <2>1, <2>2, <3>1, <3>2
  <2>4. CASE \A k \in 1 .. Len(minima) : minima[k] < part[j].lcp
    BY <2>1, <2>2, <2>4
  <2>5. QED
    BY <1>3, <2>3, <2>4 DEF Minima
<1>18. Runs(ChunksOf(TRUE, map, reads, strs, begin, end), end - begin, chunks,
            Append(firsts, end - begin))
  BY <1>9, <1>13 DEF n
<1>19. QED
  BY <1>14, <1>15, <1>16, <1>17, <1>18, <1>20 DEF positions

-----------------------------------------------------------------------------
(* What is known of the calls. *)

\* a node that is being split, its chunks and what it reads
NodeFacts(begin, end, known, node, chunks, offsets, ix, strs, ls, maps) ==
    /\ NodeRange(begin, end, strs) /\ KnownBelow(known, ls, begin, end)
    /\ Numbered(maps, node.alphabetMapIndex)
    /\ Covers(MapAt(maps, node.alphabetMapIndex), ls, begin, end)
    /\ Runs(ChunksOf(ix, MapAt(maps, node.alphabetMapIndex), node.reads, strs, begin, end),
            end - begin, chunks, offsets)
    /\ ix => Repeats(MapAt(maps, node.alphabetMapIndex), node.reads,
                     SubSeq(ls, begin + 1, end - 1))

\* how far it got
Progress(f) ==
    /\ f.phase \in {"ranks", "buckets", "leave"}
    /\ f.next \in Nat /\ f.next >= 1 /\ f.next <= Len(f.chunks) + 1
    /\ f.currentBucketBegin \in Nat /\ f.begin <= f.currentBucketBegin

SplitFacts(f, ix, strs, ls, maps) ==
    /\ IsFrame(f) /\ Progress(f)
    /\ NodeFacts(f.begin, f.end, f.known, f.node, f.chunks, f.chunksOffsets,
                 ix, strs, ls, maps)

\* a node that is about to be split
EnterFacts(f, strs, ls, maps) ==
    /\ f.phase = "enter"
    /\ NodeRange(f.begin, f.end, strs) /\ KnownBelow(f.known, ls, f.begin, f.end)
    /\ Inherits(maps, ls, f.begin, f.end, f.ancestor)

StackFacts(st, ix, strs, ls, maps) ==
    /\ IsStack(st)
    /\ \A d \in 1 .. Len(st) - 1 : SplitFacts(st[d], ix, strs, ls, maps)
    /\ st # <<>> => \/ SplitFacts(st[Len(st)], ix, strs, ls, maps)
                    \/ EnterFacts(st[Len(st)], strs, ls, maps)

\* common prefixes are as short as the 15 bits for their length demand
PrefixesFit(strs) ==
    \A k \in 1 .. Len(strs) - 1 : computeLCPs(strs)[k].lcp < 2^LCPBits

TreeInv ==
    /\ strings \in StringInputs
    /\ indexed \in BOOLEAN /\ (indexed \/ PrefixesFit(strings))
    /\ AlphabetsOK(alphabetMaps)
    /\ pc = "lcps" => stack = <<>> /\ alphabetMaps = NoMaps
    /\ pc # "lcps" => lcps = computeLCPs(strings)
    /\ StackFacts(stack, indexed, strings, lcps, alphabetMaps)

-----------------------------------------------------------------------------
(* Facts that stay. *)

\* more alphabets leave the facts of a call as they are
LEMMA FactsGrow ==
    ASSUME NEW f, NEW ix, NEW strs, NEW ls, NEW maps, AlphabetsOK(maps),
           NEW later, AlphabetsOK(later), Grown(maps, later),
           SplitFacts(f, ix, strs, ls, maps)
    PROVE  SplitFacts(f, ix, strs, ls, later)
<1>1. Numbered(maps, f.node.alphabetMapIndex)
  BY DEF SplitFacts, NodeFacts
<1>2. /\ Numbered(later, f.node.alphabetMapIndex)
      /\ MapAt(later, f.node.alphabetMapIndex) = MapAt(maps, f.node.alphabetMapIndex)
  <2> DEFINE index == f.node.alphabetMapIndex
  <2> HIDE DEF index
  <2>1. Numbered(maps, index)
    BY <1>1 DEF index
  <2>2. Numbered(later, index) /\ MapAt(later, index) = MapAt(maps, index)
    BY <2>1, AlphabetStays
  <2>3. QED
    BY <2>2 DEF index
<1>3. QED
  BY <1>2 DEF SplitFacts, NodeFacts

\* a call goes on
LEMMA FactsMove ==
    ASSUME NEW f, NEW ix, NEW strs, NEW ls, NEW maps, SplitFacts(f, ix, strs, ls, maps),
           NEW ph, NEW nx, NEW pb, NEW cb, NEW tmp,
           ph \in {"ranks", "buckets", "leave"},
           nx \in Nat, nx >= 1, nx <= Len(f.chunks) + 1,
           cb \in Nat, f.begin <= cb
    PROVE  SplitFacts(Moved(f, ph, nx, pb, cb, tmp), ix, strs, ls, maps)
<1>1. PICK g : g = Moved(f, ph, nx, pb, cb, tmp)
  OBVIOUS
<1>2. /\ IsFrame(g)
      /\ g.begin = f.begin /\ g.end = f.end
      /\ g.known = f.known /\ g.phase = ph /\ g.node = f.node
      /\ g.chunks = f.chunks /\ g.chunksOffsets = f.chunksOffsets /\ g.next = nx
      /\ g.currentBucketBegin = cb
  BY <1>1, MovedFields
<1>3. Progress(g)
  BY <1>2 DEF Progress
<1>4. SplitFacts(g, ix, strs, ls, maps)
  BY <1>2, <1>3 DEF SplitFacts
<1>5. QED
  BY <1>1, <1>4

\* a node has strings of a part of its caller's
LEMMA PartFacts ==
    ASSUME NEW b, NEW e, NEW strs, NodeRange(b, e, strs), NEW ls, NEW known,
           KnownBelow(known, ls, b, e), NEW map, Covers(map, ls, b, e),
           NEW begin \in Nat, NEW end \in Nat, b <= begin, end <= e, begin + 2 <= end
    PROVE  /\ NodeRange(begin, end, strs) /\ KnownBelow(known, ls, begin, end)
           /\ Covers(map, ls, begin, end)
<1>1. b \in Nat /\ e \in Nat /\ e <= Len(strs)
  BY DEF NodeRange
<1>2. \A k \in begin + 1 .. end - 1 : k \in b + 1 .. e - 1
  BY <1>1
<1>3. NodeRange(begin, end, strs)
  <2>1. Len(strs) >= e
    BY <1>1
  <2>2. QED
    BY <1>1 DEF NodeRange
<1>4. QED
  BY <1>2, <1>3 DEF KnownBelow, Covers

\* the stack when the running call has changed
LEMMA ReplacedFacts ==
    ASSUME NEW s, NEW t, NEW x, NEW ix, NEW strs, NEW ls, NEW maps, NEW later,
           StackFacts(s, ix, strs, ls, maps), s # <<>>, Replacing(s, x, t),
           AlphabetsOK(maps), AlphabetsOK(later), Grown(maps, later),
           SplitFacts(x, ix, strs, ls, later) \/ EnterFacts(x, strs, ls, later)
    PROVE  StackFacts(t, ix, strs, ls, later)
<1>1. IsStack(s)
  BY DEF StackFacts
<1>2. IsStack(t) /\ Replaced(s, t, x) /\ Len(s) >= 1
  BY <1>1, StackReplaces
<1>3. ASSUME NEW d \in 1 .. Len(t) - 1 PROVE SplitFacts(t[d], ix, strs, ls, later)
  <2>1. SplitFacts(s[d], ix, strs, ls, maps) /\ t[d] = s[d]
    BY <1>2 DEF Replaced, StackFacts
  <2>2. SplitFacts(s[d], ix, strs, ls, later)
    BY <2>1, FactsGrow
  <2>3. QED
    BY <2>1, <2>2
<1>4. t[Len(t)] = x
  BY <1>2 DEF Replaced
<1>5. QED
  BY <1>2, <1>3, <1>4 DEF StackFacts

\* the stack when the running call has called another one
LEMMA CalledFacts ==
    ASSUME NEW s, NEW t, NEW x, NEW y, NEW ix, NEW strs, NEW ls, NEW maps,
           StackFacts(s, ix, strs, ls, maps), s # <<>>, Calling(s, x, y, t),
           SplitFacts(x, ix, strs, ls, maps), EnterFacts(y, strs, ls, maps)
    PROVE  StackFacts(t, ix, strs, ls, maps)
<1>1. IsStack(s)
  BY DEF StackFacts
<1>2. IsStack(t) /\ Called(s, t, x, y) /\ Len(s) >= 1
  BY <1>1, StackCalls
<1>6. Len(s) \in Nat
  BY <1>1 DEF IsStack
<1>7. Len(t) - 1 = Len(s) /\ t[Len(t)] = y
  BY <1>2, <1>6 DEF Called
<1>3. ASSUME NEW d \in 1 .. Len(t) - 1 PROVE SplitFacts(t[d], ix, strs, ls, maps)
  <2>1. CASE d = Len(s)
    BY <1>2, <2>1 DEF Called
  <2>2. CASE d # Len(s)
    <3>1. d \in 1 .. Len(s) - 1
      BY <1>6, <1>7, <2>2
    <3>2. SplitFacts(s[d], ix, strs, ls, maps) /\ t[d] = s[d]
      BY <1>2, <3>1 DEF Called, StackFacts
    <3>3. QED
      BY <3>2
  <2>3. QED
    BY <2>1, <2>2
<1>5. QED
  BY <1>2, <1>3, <1>7 DEF StackFacts

\* the stack when the running call has returned
LEMMA ReturnedFacts ==
    ASSUME NEW s, NEW t, NEW ix, NEW strs, NEW ls, NEW maps,
           StackFacts(s, ix, strs, ls, maps), s # <<>>, t = SubSeq(s, 1, Len(s) - 1)
    PROVE  StackFacts(t, ix, strs, ls, maps)
<1>1. IsStack(s)
  BY DEF StackFacts
<1>2. IsStack(t) /\ Returned(s, t) /\ Len(s) >= 1
  BY <1>1, StackReturns
<1>3. Len(s) \in Nat /\ Len(t) = Len(s) - 1
  BY <1>1, <1>2 DEF IsStack, Returned
<1>4. ASSUME NEW d \in 1 .. Len(t) PROVE SplitFacts(t[d], ix, strs, ls, maps)
  BY <1>2, <1>3 DEF Returned, StackFacts
<1>5. \A d \in 1 .. Len(t) - 1 : SplitFacts(t[d], ix, strs, ls, maps)
  <2>1. \A d \in 1 .. Len(t) - 1 : d \in 1 .. Len(t)
    BY <1>3
  <2>2. QED
    BY <1>4, <2>1
<1>6. t # <<>> => SplitFacts(t[Len(t)], ix, strs, ls, maps)
  <2>1. t # <<>> => Len(t) \in 1 .. Len(t)
    BY <1>2 DEF IsStack
  <2>2. QED
    BY <1>4, <2>1
<1>7. QED
  BY <1>2, <1>5, <1>6 DEF StackFacts

\* what is known of the running call
LEMMA TopFacts ==
    ASSUME StackFacts(stack, indexed, strings, lcps, alphabetMaps), stack # <<>>
    PROVE  /\ Top.phase = "enter" => EnterFacts(Top, strings, lcps, alphabetMaps)
           /\ Top.phase # "enter" =>
                SplitFacts(Top, indexed, strings, lcps, alphabetMaps)
  BY DEF Top, StackFacts, SplitFacts, EnterFacts, Progress

-----------------------------------------------------------------------------
(* A node is entered. *)

\* what it has found out when it is split
EnterSplit(alphabet, node, known, firsts, chunks) ==
    /\ alphabet \in {NodeAlphabet}
    /\ node.alphabetMapIndex = alphabet.index
    /\ node.offsetsOffset = Len(bucketOffsets[Top.layer])
    /\ KnownBelow(known, lcps, Top.begin, Top.end)
    /\ Runs(ChunksOf(indexed, MapAt(alphabet.maps, alphabet.index), node.reads, strings,
                     Top.begin, Top.end),
            Top.end - Top.begin, chunks, Append(firsts, Top.end - Top.begin))
    /\ indexed => Repeats(MapAt(alphabet.maps, alphabet.index), node.reads, NodeLCPs)

\* a node that is entered
LEMMA TopIsNode ==
    ASSUME TreeInv, Running("enter")
    PROVE  /\ Sorted(strings) /\ lcps = computeLCPs(strings)
           /\ EnterFacts(Top, strings, lcps, alphabetMaps)
           /\ IsNode(Top.begin, Top.end, strings, lcps, NodeLCPs, NodeStrings)
<1>1. Sorted(strings) /\ lcps = computeLCPs(strings)
  BY InputsSorted DEF TreeInv, Running
<1>2. EnterFacts(Top, strings, lcps, alphabetMaps)
  BY TopFacts DEF TreeInv, Running
<1>3. QED
  BY <1>1, <1>2 DEF EnterFacts, IsNode, NodeLCPs, NodeStrings

\* its alphabet covers the branching characters of its strings
LEMMA EnterAlphabet ==
    ASSUME TreeInv, Running("enter"), NEW alphabet \in {NodeAlphabet}
    PROVE  /\ AlphabetsOK(alphabet.maps) /\ Grown(alphabetMaps, alphabet.maps)
           /\ Numbered(alphabet.maps, alphabet.index)
           /\ Covers(MapAt(alphabet.maps, alphabet.index), lcps, Top.begin, Top.end)
<1>1. /\ Sorted(strings) /\ lcps = computeLCPs(strings)
      /\ EnterFacts(Top, strings, lcps, alphabetMaps)
  BY TopIsNode
<1>2. AlphabetsOK(alphabetMaps)
  BY DEF TreeInv
<1>3. /\ NodeRange(Top.begin, Top.end, strings)
      /\ Inherits(alphabetMaps, lcps, Top.begin, Top.end, Top.ancestor)
  BY <1>1 DEF EnterFacts
<1>4. QED
  BY <1>1, <1>2, <1>3, NodeAlphabetCovers

\* constructNode of LeMonHashVL
LEMMA PrefixNode ==
    ASSUME TreeInv, ~ indexed, EnterNode
    PROVE  \E alphabet, node, known, firsts, chunks :
              /\ EnterSplit(alphabet, node, known, firsts, chunks)
              /\ SplitNode(alphabet, node, known, firsts, chunks)
<1>1. Running("enter")
  BY DEF EnterNode
<1>2. PICK alphabet \in {NodeAlphabet} :
      \E node \in {[offsetsOffset |-> Len(bucketOffsets[Top.layer]),
                    alphabetMapIndex |-> alphabet.index,
                    reads |-> MinLCP(NodeLCPs) % 2^LCPBits]} :
      \E firsts \in {Ascending(ChunkStarts(node.reads,
                           length64(MapAt(alphabet.maps, alphabet.index))))} :
          SplitNode(alphabet, node, Top.known, firsts,
                    [c \in 1 .. Len(firsts) |->
                        extractChunk(alphabet.maps, node, NodeStrings[firsts[c] + 1])])
  BY DEF EnterNode
<1>3. PICK node \in {[offsetsOffset |-> Len(bucketOffsets[Top.layer]),
                      alphabetMapIndex |-> alphabet.index,
                      reads |-> MinLCP(NodeLCPs) % 2^LCPBits]} :
      \E firsts \in {Ascending(ChunkStarts(node.reads,
                           length64(MapAt(alphabet.maps, alphabet.index))))} :
          SplitNode(alphabet, node, Top.known, firsts,
                    [c \in 1 .. Len(firsts) |->
                        extractChunk(alphabet.maps, node, NodeStrings[firsts[c] + 1])])
  BY <1>2
<1>4. PICK firsts \in {Ascending(ChunkStarts(node.reads,
                           length64(MapAt(alphabet.maps, alphabet.index))))} :
          SplitNode(alphabet, node, Top.known, firsts,
                    [c \in 1 .. Len(firsts) |->
                        extractChunk(alphabet.maps, node, NodeStrings[firsts[c] + 1])])
  BY <1>3
<1> DEFINE map == MapAt(alphabet.maps, alphabet.index)
           begin == Top.begin
           end == Top.end
           part == NodeLCPs
           texts == NodeStrings
           chunks == [c \in 1 .. Len(firsts) |-> extractChunk(alphabet.maps, node, texts[firsts[c] + 1])]
<1>5. /\ node.offsetsOffset = Len(bucketOffsets[Top.layer])
      /\ node.alphabetMapIndex = alphabet.index
      /\ node.reads = MinLCP(part) % 2^LCPBits
  BY <1>3
<1>6. /\ IsNode(begin, end, strings, lcps, part, texts)
      /\ KnownBelow(Top.known, lcps, begin, end)
      /\ strings \in StringInputs /\ lcps = computeLCPs(strings) /\ PrefixesFit(strings)
  BY <1>1, TopIsNode DEF EnterFacts, TreeInv
<1>7. Covers(map, lcps, begin, end)
  BY <1>1, EnterAlphabet
<1>8. SplitNode(alphabet, node, Top.known, firsts, chunks)
  BY <1>4
<1>9. firsts = Ascending({0} \cup {j \in 1 .. Len(part) :
                                       part[j].lcp - node.reads < length64(map)})
  BY <1>4 DEF ChunkStarts
<1>10. chunks = [c \in 1 .. Len(firsts) |-> ReadBy(FALSE, map, node.reads, texts[firsts[c] + 1])]
  BY <1>5 DEF extractChunk, ReadBy, Positions
<1> HIDE DEF map, begin, end, part, texts, chunks
<1>11. node.reads = MinLCP(part)
  <2>1. /\ Len(part) = end - begin - 1 /\ end - begin \in Nat /\ end - begin >= 2
        /\ \A j \in 1 .. end - begin - 1 : part[j].lcp \in Nat
    BY <1>6, <1>7, NodeBranches
  <2>2. Len(part) \in Nat \ {0} /\ \A j \in 1 .. Len(part) : part[j].lcp \in Nat
    BY <2>1
  <2>3. MinLCP(part) \in Nat /\ \E j \in 1 .. Len(part) : part[j].lcp = MinLCP(part)
    BY <2>2, MinLCPTaken
  <2>4. PICK j \in 1 .. Len(part) : part[j].lcp = MinLCP(part)
    BY <2>3
  <2>5. begin + j \in 1 .. Len(strings) - 1 /\ part[j] = lcps[begin + j]
    BY <1>6, <2>1, NodeParts
  <2>6. part[j].lcp < 2^LCPBits
    BY <1>6, <2>5 DEF PrefixesFit
  <2>7. MinLCP(part) < 2^LCPBits /\ 2^LCPBits \in Nat
    BY <2>4, <2>6, TreeAssumption
  <2>8. QED
    BY <1>5, <2>3, <2>7, Remainder
<1>12. Runs(ChunksOf(FALSE, map, node.reads, strings, begin, end), end - begin, chunks,
            Append(firsts, end - begin))
  <2> DEFINE reads == node.reads
  <2>1. PrefixFinds(map, reads, part, texts, firsts, chunks)
    BY <1>9, <1>10, <1>11 DEF PrefixFinds
  <2> HIDE DEF reads
  <2>2. Runs(ChunksOf(FALSE, map, reads, strings, begin, end), end - begin, chunks,
             Append(firsts, end - begin))
    BY <1>6, <1>7, <2>1, PrefixSplit
  <2>3. QED
    BY <2>2 DEF reads
<1>13. ChunksOf(FALSE, map, node.reads, strings, begin, end)
          = ChunksOf(indexed, map, node.reads, strings, begin, end)
  BY DEF ChunksOf, ReadBy, Positions
<1>14. EnterSplit(alphabet, node, Top.known, firsts, chunks)
  BY <1>5, <1>6, <1>12, <1>13 DEF EnterSplit, map, begin, end
<1>15. QED
  BY <1>8, <1>14

\* constructNode of LeMonHashVLIndexed, which may throw
LEMMA IndexedNode ==
    ASSUME TreeInv, indexed, EnterIndexedNode
    PROVE  \/ /\ pc' = "thrown" /\ Running("enter")
              /\ UNCHANGED <<strings, lcps, buildVars, entries, asked, answer>>
           \/ \E alphabet, node, known, firsts, chunks :
                 /\ EnterSplit(alphabet, node, known, firsts, chunks)
                 /\ SplitNode(alphabet, node, known, firsts, chunks)
<1> DEFINE begin == Top.begin
           end == Top.end
           part == NodeLCPs
           texts == NodeStrings
<1>1. Running("enter")
  BY DEF EnterIndexedNode
<1> DEFINE Ends(alphabet, minima, packing, all, firsts) ==
               IF minima[1] >= 2^packBaseBits
               THEN /\ pc' = "thrown"
                    /\ UNCHANGED <<strings, lcps, buildVars, entries, asked, answer>>
               ELSE SplitNode(alphabet,
                              [offsetsOffset |-> Len(bucketOffsets[Top.layer]),
                               alphabetMapIndex |-> alphabet.index,
                               reads |-> [base |-> minima[1], deltas |-> packing.deltas]],
                              packing.stored[1], firsts,
                              [c \in 1 .. Len(firsts) |-> all[firsts[c] + 1]])
<1>6. PICK alphabet \in {NodeAlphabet} :
        \E minima \in {distinctMinima(part, length64(MapAt(alphabet.maps, alphabet.index)),
                                      Top.known)} :
        \E packing \in {storeIndexes(minima, length64(MapAt(alphabet.maps, alphabet.index)))} :
        \E all \in {[j \in 1 .. Len(texts) |->
                        readChunk(MapAt(alphabet.maps, alphabet.index), texts[j],
                                  packing.stored)]} :
        \E firsts \in {Ascending(DistinctFrom(all))} :
            Ends(alphabet, minima, packing, all, firsts)
  BY DEF EnterIndexedNode
<1> DEFINE map == MapAt(alphabet.maps, alphabet.index)
<1>7. PICK minima \in {distinctMinima(part, length64(map), Top.known)} :
        \E packing \in {storeIndexes(minima, length64(map))} :
        \E all \in {[j \in 1 .. Len(texts) |-> readChunk(map, texts[j], packing.stored)]} :
        \E firsts \in {Ascending(DistinctFrom(all))} :
            Ends(alphabet, minima, packing, all, firsts)
  BY <1>6
<1>8. PICK packing \in {storeIndexes(minima, length64(map))} :
        \E all \in {[j \in 1 .. Len(texts) |-> readChunk(map, texts[j], packing.stored)]} :
        \E firsts \in {Ascending(DistinctFrom(all))} :
            Ends(alphabet, minima, packing, all, firsts)
  BY <1>7
<1>9. PICK all \in {[j \in 1 .. Len(texts) |-> readChunk(map, texts[j], packing.stored)]} :
        \E firsts \in {Ascending(DistinctFrom(all))} :
            Ends(alphabet, minima, packing, all, firsts)
  BY <1>8
<1>10. PICK firsts \in {Ascending(DistinctFrom(all))} :
         Ends(alphabet, minima, packing, all, firsts)
  BY <1>9
<1>2. /\ alphabet \in {NodeAlphabet}
      /\ minima = distinctMinima(part, length64(map), Top.known)
      /\ packing = storeIndexes(minima, length64(map))
      /\ all = [j \in 1 .. Len(texts) |-> readChunk(map, texts[j], packing.stored)]
      /\ firsts = Ascending(DistinctFrom(all))
      /\ Ends(alphabet, minima, packing, all, firsts)
  BY <1>6, <1>7, <1>8, <1>9, <1>10
<1> HIDE DEF part, texts
<1>3. CASE minima[1] >= 2^packBaseBits
  BY <1>1, <1>2, <1>3
<1>4. CASE ~ (minima[1] >= 2^packBaseBits)
  <2> DEFINE reads == [base |-> minima[1], deltas |-> packing.deltas]
             node == [offsetsOffset |-> Len(bucketOffsets[Top.layer]),
                      alphabetMapIndex |-> alphabet.index, reads |-> reads]
             known == packing.stored[1]
             chunks == [c \in 1 .. Len(firsts) |-> all[firsts[c] + 1]]
  <2>1. SplitNode(alphabet, node, known, firsts, chunks)
    BY <1>2, <1>4
  <2>2. /\ IsNode(begin, end, strings, lcps, part, texts)
        /\ KnownBelow(Top.known, lcps, begin, end)
    BY <1>1, TopIsNode DEF EnterFacts, part, texts
  <2>3. Covers(map, lcps, begin, end)
    BY <1>1, <1>2, EnterAlphabet
  <2>4. /\ node.offsetsOffset = Len(bucketOffsets[Top.layer])
        /\ node.alphabetMapIndex = alphabet.index /\ node.reads = reads
    OBVIOUS
  <2> HIDE DEF begin, end, node, map
  <2>5. /\ Runs(ChunksOf(TRUE, map, reads, strings, begin, end), end - begin, chunks,
                Append(firsts, end - begin))
        /\ Repeats(map, reads, part)
        /\ known \in Nat
        /\ \A j \in 1 .. Len(part) : known <= part[j].lcp
    <3> DEFINE k0 == Top.known
               stored == packing.stored
    <3>4. /\ minima = distinctMinima(part, length64(map), k0)
          /\ packing = storeIndexes(minima, length64(map)) /\ stored = packing.stored
          /\ reads = [base |-> minima[1], deltas |-> packing.deltas]
          /\ all = [j \in 1 .. Len(texts) |-> readChunk(map, texts[j], packing.stored)]
          /\ firsts = Ascending(DistinctFrom(all))
          /\ chunks = [c \in 1 .. Len(firsts) |-> all[firsts[c] + 1]]
      BY <1>2
    <3>1. IndexedFinds(map, k0, part, texts, reads, stored, firsts, chunks)
      <4> HIDE DEF k0, reads, chunks, stored
      <4>1. IndexedSteps(map, k0, part, texts, reads, stored, firsts, chunks,
                         minima, packing, all)
        BY <3>4 DEF IndexedSteps
      <4>2. QED
        BY <4>1 DEF IndexedFinds
    <3>2. KnownBelow(k0, lcps, begin, end)
      BY <2>2
    <3> HIDE DEF k0, reads, chunks, stored
    <3>3. /\ Runs(ChunksOf(TRUE, map, reads, strings, begin, end), end - begin, chunks,
                  Append(firsts, end - begin))
          /\ Repeats(map, reads, part)
          /\ stored[1] \in Nat /\ \A j \in 1 .. Len(part) : stored[1] <= part[j].lcp
      BY <2>2, <2>3, <3>1, <3>2, IndexedSplit
    <3>5. QED
      BY <3>3 DEF stored
  <2>6. KnownBelow(known, lcps, begin, end)
    <3>1. /\ Len(part) = end - begin - 1 /\ begin \in Nat /\ end \in Nat
          /\ \A j \in 1 .. end - begin - 1 : part[j] = lcps[begin + j]
      BY <2>2, NodeParts DEF IsNode, NodeRange
    <3> HIDE DEF known
    <3>2. ASSUME NEW k \in begin + 1 .. end - 1 PROVE known <= lcps[k].lcp
      <4> DEFINE j == k - begin
      <4>1. j \in 1 .. end - begin - 1 /\ begin + j = k
        BY <3>1
      <4> HIDE DEF j
      <4>2. part[j] = lcps[k] /\ known <= part[j].lcp
        BY <2>5, <3>1, <4>1
      <4>3. QED
        BY <4>2
    <3>3. QED
      BY <2>5, <3>2 DEF KnownBelow
  <2>7. ChunksOf(indexed, map, reads, strings, begin, end)
            = ChunksOf(TRUE, map, reads, strings, begin, end)
    BY DEF ChunksOf, ReadBy, Positions
  <2> HIDE DEF reads, known, chunks
  <2>8. EnterSplit(alphabet, node, known, firsts, chunks)
    BY <1>2, <2>4, <2>5, <2>6, <2>7 DEF EnterSplit, begin, end, part, map
  <2>9. QED
    BY <2>1, <2>8
<1>5. QED
  BY <1>3, <1>4

\* a mapper is kept if it separates the chunks
EnteredBy(ph, mp, chunks) ==
    \/ ph = "ranks" /\ mp = NoAnswer
    \/ /\ ph = "buckets" /\ mp \in ChunkMappers(chunks)
       /\ mp.bucketOf[chunks[1]] # mp.bucketOf[chunks[Len(chunks)]]

EnteredCall(f, ph, mp, node, known, firsts, chunks) ==
    Frame(f.begin, f.end, f.offset, f.path, f.layer, known, ph, node, mp, chunks,
          Append(firsts, f.end - f.begin), 1, 0, f.begin, 0)

\* the call that splits the node
LEMMA SplitEnters ==
    ASSUME NEW alphabet, NEW node, NEW known, NEW firsts, NEW chunks,
           SplitNode(alphabet, node, known, firsts, chunks)
    PROVE  /\ \E ph, mp : /\ EnteredBy(ph, mp, chunks)
                          /\ Replacing(stack, EnteredCall(Top, ph, mp, node, known, firsts, chunks),
                                       stack')
           /\ alphabetMaps' = alphabet.maps
           /\ UNCHANGED <<strings, pc, lcps, bucketOffsets, treeNodes, inputs, entries, asked,
                          answer>>
<1> DEFINE Enter(kind, mapper) ==
            stack' = Append(Callers,
                [begin |-> Top.begin, end |-> Top.end, offset |-> Top.offset,
                 path |-> Top.path, layer |-> Top.layer, known |-> known, phase |-> kind,
                 node |-> node, mapper |-> mapper, chunks |-> chunks,
                 chunksOffsets |-> Append(firsts, Top.end - Top.begin),
                 next |-> 1, prevBucket |-> 0, currentBucketBegin |-> Top.begin,
                 bucketSizePrefixTemp |-> 0])
           Separates(m) == m.bucketOf[chunks[1]] # m.bucketOf[chunks[Len(chunks)]]
<1>1. /\ \/ Enter("ranks", NoAnswer)
         \/ \E m \in ChunkMappers(chunks) : Separates(m) /\ Enter("buckets", m)
      /\ alphabetMaps' = alphabet.maps
      /\ UNCHANGED <<strings, pc, lcps, bucketOffsets, treeNodes, inputs, entries, asked,
                     answer>>
  <2> HIDE DEF Enter
  <2>1. /\ IF Len(chunks) > ChunkThreshold
           THEN \E m \in ChunkMappers(chunks) :
                   IF Separates(m) THEN Enter("buckets", m) ELSE Enter("ranks", NoAnswer)
           ELSE Enter("ranks", NoAnswer)
        /\ alphabetMaps' = alphabet.maps
        /\ UNCHANGED <<strings, pc, lcps, bucketOffsets, treeNodes, inputs, entries, asked,
                       answer>>
    BY DEF SplitNode, Enter
  <2>2. QED
    BY <2>1
<1>2. \A ph, mp : Enter(ph, mp) <=>
         Replacing(stack, EnteredCall(Top, ph, mp, node, known, firsts, chunks), stack')
  BY DEF Replacing, EnteredCall, Frame, Callers
<1> HIDE DEF Enter
<1>3. \E ph, mp : EnteredBy(ph, mp, chunks) /\ Enter(ph, mp)
  BY <1>1 DEF EnteredBy
<1>4. QED
  BY <1>1, <1>2, <1>3

\* the facts of a call that has just been entered
LEMMA EnteredFacts ==
    ASSUME NEW f, NEW ph, NEW mp, NEW node, NEW known, NEW firsts, NEW chunks,
           EnteredBy(ph, mp, chunks), NEW ix, NEW strs, NEW ls, NEW maps,
           NodeFacts(f.begin, f.end, known, node, chunks, Append(firsts, f.end - f.begin),
                     ix, strs, ls, maps)
    PROVE  SplitFacts(EnteredCall(f, ph, mp, node, known, firsts, chunks), ix, strs, ls, maps)
<1> DEFINE co == Append(firsts, f.end - f.begin)
<1>1. PICK g : g = EnteredCall(f, ph, mp, node, known, firsts, chunks)
  OBVIOUS
<1>2. g = Frame(f.begin, f.end, f.offset, f.path, f.layer, known, ph, node, mp, chunks,
                co, 1, 0, f.begin, 0)
  BY <1>1 DEF EnteredCall
<1> HIDE DEF co
<1>3. IsFrame(g)
  BY <1>2 DEF IsFrame
<1>4. PICK b, e, o, p, l : b = f.begin /\ e = f.end /\ o = f.offset /\ p = f.path /\ l = f.layer
  OBVIOUS
<1>5. g = Frame(b, e, o, p, l, known, ph, node, mp, chunks, co, 1, 0, b, 0)
  BY <1>2, <1>4
<1>6. /\ g.begin = b /\ g.end = e /\ g.known = known /\ g.phase = ph /\ g.node = node
      /\ g.chunks = chunks /\ g.chunksOffsets = co /\ g.next = 1
      /\ g.currentBucketBegin = b
  BY <1>5, FrameFields
<1>7. b \in Nat /\ Len(chunks) >= 2 /\ Len(chunks) \in Nat
  BY <1>4 DEF NodeFacts, NodeRange, Runs
<1>8. Progress(g)
  BY <1>6, <1>7 DEF Progress, EnteredBy
<1>9. NodeFacts(g.begin, g.end, g.known, g.node, g.chunks, g.chunksOffsets, ix, strs, ls, maps)
  BY <1>4, <1>6 DEF co
<1>10. QED
  BY <1>1, <1>3, <1>8, <1>9 DEF SplitFacts

\* the facts of the running call when its node is split
LEMMA EnterStack ==
    ASSUME TreeInv, Running("enter"), NEW alphabet, NEW node, NEW known, NEW firsts, NEW chunks,
           EnterSplit(alphabet, node, known, firsts, chunks),
           NEW ph, NEW mp, EnteredBy(ph, mp, chunks)
    PROVE  SplitFacts(EnteredCall(Top, ph, mp, node, known, firsts, chunks),
                      indexed, strings, lcps, alphabet.maps)
<1>1. /\ AlphabetsOK(alphabet.maps) /\ Grown(alphabetMaps, alphabet.maps)
      /\ Numbered(alphabet.maps, alphabet.index)
      /\ Covers(MapAt(alphabet.maps, alphabet.index), lcps, Top.begin, Top.end)
  BY EnterAlphabet DEF EnterSplit
<1>2. NodeRange(Top.begin, Top.end, strings)
  BY TopIsNode DEF IsNode
<1>3. node.alphabetMapIndex = alphabet.index
  BY DEF EnterSplit
<1>4. NodeFacts(Top.begin, Top.end, known, node, chunks, Append(firsts, Top.end - Top.begin),
                indexed, strings, lcps, alphabet.maps)
  BY <1>1, <1>2, <1>3 DEF EnterSplit, NodeFacts, NodeLCPs
<1> DEFINE t == Top
<1>5. NodeFacts(t.begin, t.end, known, node, chunks, Append(firsts, t.end - t.begin),
                indexed, strings, lcps, alphabet.maps)
  BY <1>4
<1> HIDE DEF t
<1>6. SplitFacts(EnteredCall(t, ph, mp, node, known, firsts, chunks),
                 indexed, strings, lcps, alphabet.maps)
  BY <1>5, EnteredFacts
<1>7. QED
  BY <1>6 DEF t

-----------------------------------------------------------------------------
(* A child is constructed. *)

ChildCall(end, bucket) ==
    Call(Top.currentBucketBegin, end, Top.known, ChildOffset, getChild(Top.path, bucket),
         Top.layer + 1, Top.node.alphabetMapIndex)

\* the caller goes on
After(rest, end) ==
    Moved(rest, rest.phase, rest.next, rest.prevBucket, end,
          rest.bucketSizePrefixTemp + (end - Top.currentBucketBegin))

\* the stack behind constructChild: with a call of the child, or without
LEMMA ChildStacks ==
    ASSUME IsStack(stack), stack # <<>>,
           NEW end, NEW bucket, NEW added, NEW rest, IsFrame(rest),
           constructChild(end, bucket, added, rest)
    PROVE  \/ /\ end - Top.currentBucketBegin >= DirectThreshold
              /\ Calling(stack, After(rest, end), ChildCall(end, bucket), stack')
           \/ /\ ~ (end - Top.currentBucketBegin >= DirectThreshold)
              /\ Replacing(stack, After(rest, end), stack')
<1> DEFINE begin == Top.currentBucketBegin
           goesOn == [rest EXCEPT !.currentBucketBegin = end,
                                  !.bucketSizePrefixTemp = @ + (end - begin)]
<1>1. stack' = Append(Callers, goesOn)
                  \o (IF end - begin >= DirectThreshold THEN <<ChildCall(end, bucket)>>
                      ELSE <<>>)
  BY DEF constructChild, ChildCall
<1>2. goesOn = After(rest, end)
  <2> DEFINE v == end - begin
  <2>1. GoesOn(rest, end, v, goesOn)
    BY DEF GoesOn
  <2> HIDE DEF v, goesOn
  <2>2. goesOn = Moved(rest, rest.phase, rest.next, rest.prevBucket, end,
                       rest.bucketSizePrefixTemp + v)
    BY <2>1, FrameGoesOn
  <2>3. QED
    BY <2>2 DEF After, v
<1> HIDE DEF goesOn
<1>3. CASE end - begin >= DirectThreshold
  <2>1. stack' = Append(Callers, goesOn) \o <<ChildCall(end, bucket)>>
    BY <1>1, <1>3
  <2>2. QED
    BY <1>2, <1>3, <2>1 DEF Calling, Callers
<1>4. CASE ~ (end - begin >= DirectThreshold)
  <2>1. PICK r : r = Append(Callers, goesOn)
    OBVIOUS
  <2>2. stack' = r \o <<>>
    BY <1>1, <1>4, <2>1
  <2>3. Replacing(stack, goesOn, r)
    BY <2>1 DEF Replacing, Callers
  <2>4. IsStack(r)
    BY <2>3, StackReplaces
  <2>5. r \o <<>> = r
    BY <2>4 DEF IsStack
  <2>6. QED
    BY <1>2, <1>4, <2>2, <2>3, <2>5
<1>5. QED
  BY <1>3, <1>4

\* the facts of the calls behind constructChild
LEMMA ChildFacts ==
    ASSUME StackFacts(stack, indexed, strings, lcps, alphabetMaps), stack # <<>>,
           AlphabetsOK(alphabetMaps),
           SplitFacts(Top, indexed, strings, lcps, alphabetMaps),
           NEW end \in Nat, Top.begin <= end, end <= Top.end, NEW bucket, NEW added,
           NEW rest, SplitFacts(rest, indexed, strings, lcps, alphabetMaps),
           rest.begin = Top.begin, constructChild(end, bucket, added, rest)
    PROVE  StackFacts(stack', indexed, strings, lcps, alphabetMaps)
<1>1. IsStack(stack) /\ IsFrame(rest)
  BY DEF StackFacts, SplitFacts
<1>2. SplitFacts(After(rest, end), indexed, strings, lcps, alphabetMaps)
  <2> DEFINE ph == rest.phase
             nx == rest.next
             pb == rest.prevBucket
             tmp == rest.bucketSizePrefixTemp + (end - Top.currentBucketBegin)
  <2>1. /\ ph \in {"ranks", "buckets", "leave"} /\ nx \in Nat /\ nx >= 1
        /\ nx <= Len(rest.chunks) + 1 /\ rest.begin <= end
    BY DEF SplitFacts, Progress
  <2> HIDE DEF ph, nx, pb, tmp
  <2>2. SplitFacts(Moved(rest, ph, nx, pb, end, tmp), indexed, strings, lcps, alphabetMaps)
    BY <2>1, FactsMove
  <2>3. QED
    BY <2>2 DEF After, ph, nx, pb, tmp
<1>3. Grown(alphabetMaps, alphabetMaps)
  BY DEF Grown, Longer, AlphabetsOK
<1>4. CASE /\ ~ (end - Top.currentBucketBegin >= DirectThreshold)
           /\ Replacing(stack, After(rest, end), stack')
  BY <1>2, <1>3, <1>4, ReplacedFacts
<1>5. CASE /\ end - Top.currentBucketBegin >= DirectThreshold
           /\ Calling(stack, After(rest, end), ChildCall(end, bucket), stack')
  <2> DEFINE begin == Top.currentBucketBegin
             map == MapAt(alphabetMaps, Top.node.alphabetMapIndex)
  <2>1. /\ NodeRange(Top.begin, Top.end, strings)
        /\ KnownBelow(Top.known, lcps, Top.begin, Top.end)
        /\ Covers(map, lcps, Top.begin, Top.end)
        /\ Numbered(alphabetMaps, Top.node.alphabetMapIndex)
        /\ begin \in Nat /\ Top.begin <= begin
    BY DEF SplitFacts, NodeFacts, Progress
  <2>2. begin + 2 <= end
    BY <1>5, <2>1, TreeAssumption
  <2> HIDE DEF begin, map
  <2>3. NodeRange(begin, end, strings) /\ KnownBelow(Top.known, lcps, begin, end)
        /\ Covers(map, lcps, begin, end)
    BY <2>1, <2>2, PartFacts
  <2>4. Inherits(alphabetMaps, lcps, begin, end, Top.node.alphabetMapIndex)
    BY <2>1, <2>3 DEF Inherits, map
  <2>5. PICK y : y = ChildCall(end, bucket)
    OBVIOUS
  <2>6. /\ y.phase = "enter" /\ y.begin = begin /\ y.end = end /\ y.known = Top.known
        /\ y.ancestor = Top.node.alphabetMapIndex
    BY <2>5 DEF ChildCall, Call, begin
  <2>7. EnterFacts(y, strings, lcps, alphabetMaps)
    BY <2>3, <2>4, <2>6 DEF EnterFacts
  <2>8. QED
    BY <1>2, <1>5, <2>5, <2>7, CalledFacts
<1>6. QED
  BY <1>1, <1>4, <1>5, ChildStacks

\* where chunks begin
LEMMA ChunkPlaces ==
    ASSUME NEW f, NEW ix, NEW strs, NEW ls, NEW maps, SplitFacts(f, ix, strs, ls, maps),
           NEW c \in 1 .. Len(f.chunks) + 1
    PROVE  /\ f.begin + f.chunksOffsets[c] \in Nat
           /\ f.begin <= f.begin + f.chunksOffsets[c]
           /\ f.begin + f.chunksOffsets[c] <= f.end
<1>1. f.begin \in Nat /\ f.end \in Nat /\ f.chunksOffsets[c] \in 0 .. f.end - f.begin
  BY DEF SplitFacts, NodeFacts, NodeRange, Runs
<1>2. QED
  BY <1>1

-----------------------------------------------------------------------------
(* The steps of the construction. *)

\* what a step leaves alone of the invariant, apart from the stack
LEMMA InvariantStays ==
    ASSUME TreeInv, UNCHANGED <<strings, indexed, lcps>>, AlphabetsOK(alphabetMaps'),
           pc # "lcps", pc' # "lcps",
           StackFacts(stack', indexed, strings, lcps, alphabetMaps')
    PROVE  TreeInv'
  BY DEF TreeInv

\* a step that leaves all of it alone
LEMMA InvariantKept ==
    ASSUME TreeInv, UNCHANGED <<strings, indexed, lcps, alphabetMaps, stack>>,
           pc # "lcps", pc' # "lcps"
    PROVE  TreeInv'
  BY DEF TreeInv

\* the construction has not begun
LEMMA InitOK ==
    ASSUME IndexedInit, indexed \/ PrefixesFit(strings)
    PROVE  TreeInv
<1>1. AlphabetsOK(NoMaps)
  <2>1. <<>> \in Seq(SUBSET Chars)
    OBVIOUS
  <2>2. QED
    BY <2>1 DEF AlphabetsOK, NoMaps
<1>2. stack = <<>> /\ IsStack(stack)
  <2>1. stack = <<>>
    BY DEF IndexedInit, Init
  <2>2. Len(stack) = 0 /\ stack \in Seq({stack[d] : d \in 1 .. Len(stack)})
    BY <2>1
  <2>3. QED
    BY <2>1, <2>2 DEF IsStack
<1>3. StackFacts(stack, indexed, strings, lcps, alphabetMaps)
  BY <1>2 DEF StackFacts
<1>4. QED
  BY <1>1, <1>2, <1>3 DEF TreeInv, IndexedInit, Init

\* the root is called
LEMMA ComputeLCPsOK ==
    ASSUME TreeInv, ComputeLCPs, UNCHANGED indexed
    PROVE  TreeInv'
<1>1. /\ pc = "lcps" /\ stack = <<>> /\ alphabetMaps = NoMaps
      /\ lcps' = computeLCPs(strings) /\ pc' = "nodes"
      /\ UNCHANGED <<strings, alphabetMaps>>
      /\ strings \in StringInputs /\ AlphabetsOK(alphabetMaps)
      /\ stack' = <<Call(0, N, 0, 0, Root, 0, 0)>>
  BY DEF TreeInv, ComputeLCPs
<1>2. PICK y : y = Call(0, N, 0, 0, Root, 0, 0)
  OBVIOUS
<1>3. y.phase = "enter" /\ y.begin = 0 /\ y.end = N /\ y.known = 0 /\ y.ancestor = 0
  BY <1>2 DEF Call
<1>4. NodeRange(0, N, strings)
  <2>1. Len(strings) \in Nat /\ Len(strings) >= 2
    BY <1>1, InputsSorted DEF Sorted
  <2>2. QED
    BY <2>1 DEF NodeRange, N
<1>5. KnownBelow(0, lcps', 0, N)
  <2>1. \A k \in 1 .. N - 1 : lcps'[k].lcp \in Nat /\ 0 <= lcps'[k].lcp
    BY <1>1, InputsSorted, Neighbours DEF N
  <2>2. QED
    BY <2>1 DEF KnownBelow
<1>6. Inherits(alphabetMaps', lcps', 0, N, 0)
  BY <1>1 DEF Inherits, isEmpty, NoMaps
<1>7. EnterFacts(y, strings, lcps', alphabetMaps')
  BY <1>3, <1>4, <1>5, <1>6 DEF EnterFacts
<1>8. IsStack(stack') /\ Len(stack') = 1 /\ stack'[1] = y /\ stack' # <<>>
  <2>1. stack' = <<y>>
    BY <1>1, <1>2
  <2>2. Len(<<y>>) = 1 /\ <<y>>[1] = y /\ <<y>> # <<>> /\ <<y>> \in Seq({y})
    OBVIOUS
  <2>3. {stack'[d] : d \in 1 .. Len(stack')} = {y}
    BY <2>1, <2>2
  <2>4. QED
    BY <2>1, <2>2, <2>3 DEF IsStack
<1>9. StackFacts(stack', indexed, strings, lcps', alphabetMaps')
  BY <1>7, <1>8 DEF StackFacts
<1>10. QED
  BY <1>1, <1>9 DEF TreeInv

\* a node is split
LEMMA SplitNodeOK ==
    ASSUME TreeInv, Running("enter"), UNCHANGED indexed,
           NEW alphabet, NEW node, NEW known, NEW firsts, NEW chunks,
           EnterSplit(alphabet, node, known, firsts, chunks),
           SplitNode(alphabet, node, known, firsts, chunks)
    PROVE  TreeInv'
<1>1. PICK ph, mp : /\ EnteredBy(ph, mp, chunks)
                    /\ Replacing(stack, EnteredCall(Top, ph, mp, node, known, firsts, chunks),
                                 stack')
  BY SplitEnters
<1>2. /\ alphabetMaps' = alphabet.maps
      /\ UNCHANGED <<strings, pc, lcps>>
  BY SplitEnters
<1>3. PICK x : x = EnteredCall(Top, ph, mp, node, known, firsts, chunks)
  OBVIOUS
<1>4. SplitFacts(x, indexed, strings, lcps, alphabet.maps)
  BY <1>1, <1>3, EnterStack
<1>5. /\ AlphabetsOK(alphabet.maps) /\ Grown(alphabetMaps, alphabet.maps)
  BY EnterAlphabet DEF EnterSplit
<1>6. /\ AlphabetsOK(alphabetMaps) /\ stack # <<>> /\ pc = "nodes"
      /\ StackFacts(stack, indexed, strings, lcps, alphabetMaps)
  BY DEF TreeInv, Running
<1>7. PICK later : later = alphabet.maps
  OBVIOUS
<1>8. StackFacts(stack', indexed, strings, lcps, later)
  BY <1>1, <1>3, <1>4, <1>5, <1>6, <1>7, ReplacedFacts
<1>9. QED
  BY <1>2, <1>5, <1>6, <1>7, <1>8, InvariantStays

\* a node is split or cannot be packed
LEMMA EnterNodeOK ==
    ASSUME TreeInv, UNCHANGED indexed,
           (~ indexed /\ EnterNode) \/ (indexed /\ EnterIndexedNode)
    PROVE  TreeInv'
<1>1. CASE ~ indexed /\ EnterNode
  BY <1>1, PrefixNode, SplitNodeOK DEF EnterNode
<1>2. CASE indexed /\ EnterIndexedNode
  <2>1. CASE /\ pc' = "thrown" /\ Running("enter")
             /\ UNCHANGED <<strings, lcps, buildVars, entries, asked, answer>>
    BY <2>1, InvariantKept DEF buildVars, Running
  <2>2. CASE \E alphabet, node, known, firsts, chunks :
                 /\ EnterSplit(alphabet, node, known, firsts, chunks)
                 /\ SplitNode(alphabet, node, known, firsts, chunks)
    BY <1>2, <2>2, SplitNodeOK DEF EnterIndexedNode
  <2>3. QED
    BY <1>2, <2>1, <2>2, IndexedNode
<1>3. QED
  BY <1>1, <1>2

\* the running call splits its node
LEMMA TopSplit ==
    ASSUME TreeInv, NEW phase, Running(phase), phase # "enter"
    PROVE  /\ pc = "nodes" /\ stack # <<>> /\ AlphabetsOK(alphabetMaps)
           /\ StackFacts(stack, indexed, strings, lcps, alphabetMaps)
           /\ SplitFacts(Top, indexed, strings, lcps, alphabetMaps)
           /\ IsFrame(Top) /\ Progress(Top) /\ Top.phase = phase
           /\ Top.begin \in Nat /\ Top.end \in Nat /\ Top.begin <= Top.end
           /\ Len(Top.chunks) \in Nat
<1>1. /\ pc = "nodes" /\ stack # <<>> /\ AlphabetsOK(alphabetMaps)
      /\ StackFacts(stack, indexed, strings, lcps, alphabetMaps)
      /\ Top.phase = phase
  BY DEF TreeInv, Running
<1>2. SplitFacts(Top, indexed, strings, lcps, alphabetMaps)
  BY <1>1, TopFacts
<1>3. Top.begin \in Nat /\ Top.end \in Nat /\ Top.begin <= Top.end
  BY <1>2 DEF SplitFacts, NodeFacts, NodeRange
<1>4. Len(Top.chunks) \in Nat
  BY <1>2 DEF SplitFacts, NodeFacts, Runs
<1>5. QED
  BY <1>1, <1>2, <1>3, <1>4 DEF SplitFacts

\* the forms in which the running call goes on
LEMMA RestFacts ==
    ASSUME TreeInv, NEW phase, Running(phase), phase # "enter", NEW rest,
           \/ BucketMoves(Top, rest)
           \/ ChunkMoves(Top, rest) /\ MoreChunks
           \/ Leaves(Top, rest)
    PROVE  SplitFacts(rest, indexed, strings, lcps, alphabetMaps) /\ rest.begin = Top.begin
<1>1. PICK ph, nx, pb, tmp :
         /\ rest = Moved(Top, ph, nx, pb, Top.currentBucketBegin, tmp)
         /\ ph \in {phase, "leave"} /\ nx \in {Top.next, Top.next + 1}
         /\ nx = Top.next + 1 => MoreChunks
  <2>1. Top.next \in Nat
    BY TopSplit DEF Progress
  <2>2. Top.next # Top.next + 1
    BY <2>1
  <2>3. CASE BucketMoves(Top, rest)
    BY <2>2, <2>3, TopSplit, BucketMoved
  <2>4. CASE ChunkMoves(Top, rest) /\ MoreChunks
    BY <2>4, TopSplit, ChunkMoved
  <2>5. CASE Leaves(Top, rest)
    BY <2>2, <2>5, TopSplit, LeaveMoved
  <2>6. QED
    BY <2>3, <2>4, <2>5
<1> DEFINE cb == Top.currentBucketBegin
<1>2. /\ phase \in {"ranks", "buckets", "leave"} /\ Len(Top.chunks) \in Nat
      /\ Top.next \in Nat /\ Top.next >= 1 /\ Top.next <= Len(Top.chunks) + 1
      /\ cb \in Nat /\ Top.begin <= cb
  BY TopSplit DEF Progress
<1>3. nx \in Nat /\ nx >= 1 /\ nx <= Len(Top.chunks) + 1
  BY <1>1, <1>2 DEF MoreChunks
<1>4. ph \in {"ranks", "buckets", "leave"}
  BY <1>1, <1>2
<1>5. PICK f : f = Top
  OBVIOUS
<1>6. SplitFacts(f, indexed, strings, lcps, alphabetMaps)
  BY <1>5, TopSplit
<1>7. rest = Moved(f, ph, nx, pb, cb, tmp)
  BY <1>1, <1>5
<1>8. nx <= Len(f.chunks) + 1 /\ f.begin <= cb /\ cb \in Nat
  BY <1>2, <1>3, <1>5
<1> HIDE DEF cb
<1>9. SplitFacts(Moved(f, ph, nx, pb, cb, tmp), indexed, strings, lcps, alphabetMaps)
  BY <1>3, <1>4, <1>6, <1>8, FactsMove
<1>10. rest.begin = f.begin
  BY <1>7, MovedFields
<1>11. QED
  BY <1>5, <1>7, <1>9, <1>10

\* the running call goes on
LEMMA AdvanceOK ==
    ASSUME TreeInv, NEW phase, Running(phase), phase # "enter", UNCHANGED indexed,
           NEW rest, SplitFacts(rest, indexed, strings, lcps, alphabetMaps), Advance(rest)
    PROVE  TreeInv'
<1>1. Replacing(stack, rest, stack')
  BY DEF Advance, Replacing, Callers
<1>2. Grown(alphabetMaps, alphabetMaps)
  BY TopSplit DEF Grown, Longer, AlphabetsOK
<1>3. StackFacts(stack', indexed, strings, lcps, alphabetMaps)
  BY <1>1, <1>2, TopSplit, ReplacedFacts
<1>4. QED
  BY <1>3, TopSplit, InvariantStays DEF Advance

\* a child is constructed
LEMMA ConstructChildOK ==
    ASSUME TreeInv, NEW phase, Running(phase), phase # "enter", UNCHANGED indexed,
           NEW end \in Nat, Top.begin <= end, end <= Top.end, NEW bucket, NEW added,
           NEW rest, SplitFacts(rest, indexed, strings, lcps, alphabetMaps),
           rest.begin = Top.begin, constructChild(end, bucket, added, rest)
    PROVE  TreeInv'
<1>1. StackFacts(stack', indexed, strings, lcps, alphabetMaps)
  BY TopSplit, ChildFacts
<1>2. UNCHANGED <<strings, pc, lcps, alphabetMaps>>
  BY DEF constructChild
<1>3. QED
  BY <1>1, <1>2, TopSplit, InvariantStays

\* chunks of the running call lie in its range
LEMMA TopPlaces ==
    ASSUME TreeInv, NEW phase, Running(phase), phase # "enter",
           NEW c \in 1 .. Len(Top.chunks) + 1
    PROVE  ChunkBegin(c) \in Nat /\ Top.begin <= ChunkBegin(c) /\ ChunkBegin(c) <= Top.end
  BY TopSplit, ChunkPlaces DEF ChunkBegin

\* CloseBucket
LEMMA CloseBucketOK ==
    ASSUME TreeInv, CloseBucket, UNCHANGED indexed
    PROVE  TreeInv'
<1>1. Running("buckets") /\ MoreChunks
  BY DEF CloseBucket
<1>2. PICK rest : rest = [Top EXCEPT !.prevBucket = @ + 1]
  OBVIOUS
<1>3. constructChild(ChunkBegin(Top.next), Top.prevBucket, {}, rest)
  BY <1>2 DEF CloseBucket
<1>4. SplitFacts(rest, indexed, strings, lcps, alphabetMaps) /\ rest.begin = Top.begin
  BY <1>1, <1>2, RestFacts DEF BucketMoves
<1>5. Top.next \in 1 .. Len(Top.chunks) + 1
  BY <1>1, TopSplit DEF Progress
<1>6. PICK added : added = {}
  OBVIOUS
<1>7. constructChild(ChunkBegin(Top.next), Top.prevBucket, added, rest)
  BY <1>3, <1>6
<1>8. QED
  BY <1>1, <1>4, <1>5, <1>7, TopPlaces, ConstructChildOK

\* NextChunk
LEMMA NextChunkOK ==
    ASSUME TreeInv, NextChunk, UNCHANGED indexed
    PROVE  TreeInv'
<1>1. Running("buckets") /\ MoreChunks
  BY DEF NextChunk
<1>2. PICK rest : rest = [Top EXCEPT !.next = @ + 1]
  OBVIOUS
<1>3. SplitFacts(rest, indexed, strings, lcps, alphabetMaps)
  BY <1>1, <1>2, RestFacts DEF ChunkMoves
<1>4. Advance(rest)
  BY <1>2 DEF NextChunk
<1>5. QED
  BY <1>1, <1>3, <1>4, AdvanceOK

\* CloseLastBucket
LEMMA CloseLastBucketOK ==
    ASSUME TreeInv, CloseLastBucket, UNCHANGED indexed
    PROVE  TreeInv'
<1>1. Running("buckets")
  BY DEF CloseLastBucket
<1>2. PICK rest : rest = [Top EXCEPT !.phase = "leave"]
  OBVIOUS
<1>3. SplitFacts(rest, indexed, strings, lcps, alphabetMaps) /\ rest.begin = Top.begin
  BY <1>1, <1>2, RestFacts DEF Leaves
<1>4. PICK added : added = {}
  OBVIOUS
<1>5. constructChild(Top.end, Top.prevBucket, added, rest) \/ Advance(rest)
  BY <1>2, <1>4 DEF CloseLastBucket
<1>6. CASE Advance(rest)
  BY <1>1, <1>3, <1>6, AdvanceOK
<1>7. CASE constructChild(Top.end, Top.prevBucket, added, rest)
  <2>1. Top.end \in Nat /\ Top.begin <= Top.end /\ Top.end <= Top.end
    BY <1>1, TopSplit
  <2>2. QED
    BY <1>1, <1>3, <1>7, <2>1, ConstructChildOK
<1>8. QED
  BY <1>5, <1>6, <1>7

\* StoreChunkRank
LEMMA StoreChunkRankOK ==
    ASSUME TreeInv, StoreChunkRank, UNCHANGED indexed
    PROVE  TreeInv'
<1>1. Running("ranks") /\ MoreChunks
  BY DEF StoreChunkRank
<1>2. PICK rest : rest = [Top EXCEPT !.next = @ + 1]
  OBVIOUS
<1>3. SplitFacts(rest, indexed, strings, lcps, alphabetMaps) /\ rest.begin = Top.begin
  BY <1>1, <1>2, RestFacts DEF ChunkMoves
<1>4. PICK added : constructChild(ChunkBegin(Top.next + 1), Top.next - 1, added, rest)
  BY <1>2 DEF StoreChunkRank
<1>5. Top.next + 1 \in 1 .. Len(Top.chunks) + 1
  BY <1>1, TopSplit DEF Progress, MoreChunks
<1>6. PICK bucket : bucket = Top.next - 1
  OBVIOUS
<1>7. QED
  BY <1>1, <1>3, <1>4, <1>5, <1>6, TopPlaces, ConstructChildOK

\* LeaveNode
LEMMA LeaveNodeOK ==
    ASSUME TreeInv, LeaveNode, UNCHANGED indexed
    PROVE  TreeInv'
<1>1. PICK phase : Running(phase) /\ phase # "enter"
  BY DEF LeaveNode
<1>2. stack' = SubSeq(stack, 1, Len(stack) - 1)
      /\ UNCHANGED <<strings, pc, lcps, alphabetMaps>>
  BY DEF LeaveNode, Callers
<1>3. PICK t : t = stack'
  OBVIOUS
<1>4. t = SubSeq(stack, 1, Len(stack) - 1)
  BY <1>2, <1>3
<1>5. StackFacts(t, indexed, strings, lcps, alphabetMaps)
  BY <1>1, <1>4, TopSplit, ReturnedFacts
<1>6. QED
  BY <1>1, <1>2, <1>3, <1>5, TopSplit, InvariantStays

\* a query leaves the tree alone
LEMMA QueryOK ==
    ASSUME TreeInv, UNCHANGED indexed, Ask \/ Answering
    PROVE  TreeInv'
<1>1. UNCHANGED <<strings, pc, lcps, buildVars>> /\ pc = "ready"
  BY DEF Ask, Answering, Walk, WalkIndexed, Walking, WalkWith
<1>2. QED
  BY <1>1, InvariantKept DEF buildVars

\* Complete
LEMMA CompleteOK ==
    ASSUME TreeInv, UNCHANGED indexed, Complete
    PROVE  TreeInv'
  BY InvariantKept DEF Complete

\* every step keeps the invariant
LEMMA TreeInvStep ==
    ASSUME TreeInv, [IndexedNext]_<<treeVars, indexed>>
    PROVE  TreeInv'
<1>1. CASE UNCHANGED <<treeVars, indexed>>
  BY <1>1 DEF TreeInv, treeVars, buildVars
<1>2. CASE IndexedNext
  <2>1. UNCHANGED indexed
    BY <1>2 DEF IndexedNext
  <2>2. CASE Build
    BY <2>1, <2>2, ComputeLCPsOK, EnterNodeOK, CloseBucketOK, NextChunkOK,
       CloseLastBucketOK, StoreChunkRankOK, LeaveNodeOK, CompleteOK DEF Build, ChildLoops
  <2>3. CASE Ask \/ Answering
    BY <2>1, <2>3, QueryOK
  <2>4. QED
    BY <1>2, <2>2, <2>3 DEF IndexedNext
<1>3. QED
  BY <1>1, <1>2

-----------------------------------------------------------------------------
(* The theorems about nodes. *)

\* what the invariant says of the nodes
LEMMA TreeBranches ==
    ASSUME TreeInv
    PROVE  ChunksBranch /\ IndexesUnpacked
<1>1. ASSUME NEW d \in 1 .. Len(stack), stack[d].phase # "enter"
      PROVE  SplitFacts(stack[d], indexed, strings, lcps, alphabetMaps)
  <2>1. StackFacts(stack, indexed, strings, lcps, alphabetMaps)
    BY DEF TreeInv
  <2>2. Len(stack) \in Nat
    BY <2>1 DEF StackFacts, IsStack
  <2>3. CASE d \in 1 .. Len(stack) - 1
    BY <2>1, <2>3 DEF StackFacts
  <2>4. CASE d = Len(stack)
    <3>1. stack # <<>>
      BY <2>2, <2>4
    <3>2. QED
      BY <1>1, <2>1, <2>4, <3>1 DEF StackFacts, EnterFacts
  <2>5. QED
    BY <2>2, <2>3, <2>4
<1>2. ChunksBranch
  <2>1. ASSUME NEW d \in 1 .. Len(stack), stack[d].phase # "enter"
        PROVE  /\ Len(stack[d].chunks) >= 2
               /\ \A c \in 1 .. Len(stack[d].chunks) - 1 :
                     stack[d].chunks[c] < stack[d].chunks[c + 1]
    <3>1. PICK chunks : chunks = stack[d].chunks
      OBVIOUS
    <3>2. /\ Len(chunks) >= 2 /\ chunks \in Seq(Nat)
          /\ \A c, e \in 1 .. Len(chunks) : c < e => chunks[c] < chunks[e]
      BY <1>1, <2>1, <3>1 DEF SplitFacts, NodeFacts, Runs
    <3>3. \A c \in 1 .. Len(chunks) - 1 :
             c \in 1 .. Len(chunks) /\ c + 1 \in 1 .. Len(chunks) /\ c < c + 1
      BY <3>2
    <3>4. QED
      BY <3>1, <3>2, <3>3
  <2>2. QED
    BY <2>1 DEF ChunksBranch
<1>3. IndexesUnpacked
  <2>1. ASSUME NEW d \in 1 .. Len(stack), indexed, stack[d].phase # "enter"
        PROVE  LET count == MaxIndexes(alphabetMaps, stack[d].node)
                   minima == distinctMinima(
                       SubSeq(lcps, stack[d].begin + 1, stack[d].end - 1), count, 0)
               IN  getIndexes(stack[d].node.reads, count) = storeIndexes(minima, count).stored
    BY <1>1, <2>1 DEF SplitFacts, NodeFacts, Repeats, MaxIndexes
  <2>2. QED
    BY <2>1 DEF IndexesUnpacked
<1>4. QED
  BY <1>2, <1>3

(***************************************************************************)
(* The inductive invariant: every call on the stack has a range of two or  *)
(* more strings, an alphabet with all characters by which these branch,    *)
(* and chunks that are the runs of what its strings read, wherever it is   *)
(* in its loops; a call that starts inherits such an alphabet, or there is *)
(* none yet.                                                               *)
(***************************************************************************)
THEOREM TreeInvTheorem ==
    FairSpec /\ (indexed \/ PrefixesFit(strings)) => []TreeInv
<1>1. IndexedInit /\ (indexed \/ PrefixesFit(strings)) => TreeInv
  BY InitOK
<1>2. TreeInv /\ [IndexedNext]_<<treeVars, indexed>> => TreeInv'
  BY TreeInvStep
<1>3. QED
  BY <1>1, <1>2, PTL DEF FairSpec

(***************************************************************************)
(* Every node of both classes finds two or more chunks in increasing       *)
(* order, whatever the strings, the thresholds and the alphabets.  The     *)
(* nodes of LeMonHashVL keep LCPBits bits of the length of their common    *)
(* prefix: for them, that length has to fit.                               *)
(***************************************************************************)
THEOREM ChunksBranchTheorem ==
    FairSpec /\ (indexed \/ PrefixesFit(strings)) => []ChunksBranch
<1>1. TreeInv => ChunksBranch
  BY TreeBranches
<1>2. QED
  BY <1>1, TreeInvTheorem, PTL

(***************************************************************************)
(* What a node of LeMonHashVLIndexed packed is what it unpacks, for every  *)
(* width of the slots and every number of them.                            *)
(***************************************************************************)
THEOREM IndexesUnpackedTheorem == FairSpec => []IndexesUnpacked
<1>1. FairSpec /\ indexed => []TreeInv
  BY TreeInvTheorem, PTL
<1>2. TreeInv => IndexesUnpacked
  BY TreeBranches
<1>3. ~ indexed => IndexesUnpacked
  BY DEF IndexesUnpacked
<1>4. ~ indexed /\ [IndexedNext]_<<treeVars, indexed>> => (~ indexed)'
  BY DEF IndexedNext
<1>5. QED
  BY <1>1, <1>2, <1>3, <1>4, PTL DEF FairSpec

-----------------------------------------------------------------------------
(* What a query finds in the tree. *)

\* the state that queries read
World == [ix |-> indexed, strs |-> strings, maps |-> alphabetMaps,
          offsets |-> bucketOffsets, nodes |-> treeNodes, pool |-> inputs \cup entries]

\* the tree has grown
Grows(w, v) ==
    /\ v.ix = w.ix /\ v.strs = w.strs
    /\ AlphabetsOK(w.maps) /\ AlphabetsOK(v.maps) /\ Grown(w.maps, v.maps)
    /\ \A l \in 0 .. Len(w.strs) - 1 : Longer(w.offsets[l], v.offsets[l])
    /\ w.nodes \subseteq v.nodes /\ w.pool \subseteq v.pool

\* the chunk that the j-th string has at a node
ReadAt(w, node, j) ==
    ReadBy(w.ix, MapAt(w.maps, node.alphabetMapIndex), node.reads, w.strs[j])

\* a node has bucket q for a chunk
Finds(w, node, chunk, q) ==
    IF node.mapper = NoAnswer
    THEN /\ node.numChildren \in 1 .. WideCapacity /\ q < node.numChildren
         /\ Input(node.numChildren, AlternativeHash(getChild(node.path, chunk)), q) \in w.pool
    ELSE node.mapper.bucketOf[chunk] = q

\* a bucket has the strings behind the first `low` ones up to the one with number `high`
Spans(at, k, low, high) ==
    k \in Nat /\ k + 2 <= Len(at) /\ at[k + 1] = low /\ at[k + 2] = high

\* the rank of string j in its bucket is stored, or it goes on with a pair of G
Settles(w, G, path, q, low, high, j) ==
    /\ high - low < DirectThreshold =>
          high - low = 1 \/ Input(high - low, StringHash(w.strs[j]), j - 1 - low) \in w.pool
    /\ ~ (high - low < DirectThreshold) => <<getChild(path, q), j>> \in G

\* a bucket of the node that string j is in
ServedBy(w, G, node, at, j, q, low, high) ==
    /\ q \in Nat /\ low \in Nat /\ high \in Nat
    /\ low < j /\ j <= high /\ high <= Len(w.strs)
    /\ Spans(at, node.offsetsOffset + q, low, high)
    /\ Finds(w, node, ReadAt(w, node, j), q)
    /\ Settles(w, G, node.path, q, low, high, j)

Serves(w, G, node, at, j) ==
    /\ Numbered(w.maps, node.alphabetMapIndex) /\ node.offsetsOffset \in Nat
    /\ \E q, low, high : ServedBy(w, G, node, at, j, q, low, high)

\* string j is served behind a path
Served(w, G, p, j) ==
    /\ p \in Seq(Nat) /\ Len(p) \in 0 .. Len(w.strs) - 1
    /\ \E node \in w.nodes : node.path = p /\ Serves(w, G, node, w.offsets[Len(p)], j)

\* a node goes on to serve a string
LEMMA ServesGrow ==
    ASSUME NEW w, NEW v, Grows(w, v), NEW G, NEW H, G \subseteq H, NEW node,
           NEW at, NEW later, Longer(at, later), Len(at) \in Nat, Len(later) \in Nat, NEW j,
           Serves(w, G, node, at, j)
    PROVE  Serves(v, H, node, later, j)
<1>1. PICK q, low, high : ServedBy(w, G, node, at, j, q, low, high)
  BY DEF Serves
<1>2. /\ Numbered(v.maps, node.alphabetMapIndex) /\ node.offsetsOffset \in Nat
      /\ MapAt(v.maps, node.alphabetMapIndex) = MapAt(w.maps, node.alphabetMapIndex)
  BY AlphabetStays DEF Grows, Serves
<1>3. ReadAt(v, node, j) = ReadAt(w, node, j)
  BY <1>2 DEF ReadAt, Grows
<1>4. Finds(v, node, ReadAt(v, node, j), q)
  BY <1>1, <1>3 DEF Finds, Grows, ServedBy
<1>5. Spans(later, node.offsetsOffset + q, low, high)
  <2> DEFINE k == node.offsetsOffset + q
  <2>1. k \in Nat /\ k + 2 <= Len(at) /\ at[k + 1] = low /\ at[k + 2] = high
    BY <1>1 DEF ServedBy, Spans
  <2> HIDE DEF k
  <2>2. k + 1 \in 1 .. Len(at) /\ k + 2 \in 1 .. Len(at) /\ Len(at) <= Len(later)
    BY <2>1 DEF Longer
  <2>3. later[k + 1] = low /\ later[k + 2] = high
    BY <2>1, <2>2 DEF Longer
  <2>4. Spans(later, k, low, high)
    BY <2>1, <2>2, <2>3 DEF Spans
  <2>5. QED
    BY <2>4 DEF k
<1>6. Settles(v, H, node.path, q, low, high, j)
  BY <1>1 DEF Settles, Grows, ServedBy
<1>7. ServedBy(v, H, node, later, j, q, low, high)
  BY <1>1, <1>4, <1>5, <1>6 DEF ServedBy, Grows
<1>8. QED
  BY <1>2, <1>7 DEF Serves

\* the offsets of all layers are sequences
LayersOK(w) == /\ Len(w.strs) \in Nat
               /\ \A l \in 0 .. Len(w.strs) - 1 : w.offsets[l] \in Seq(Nat)

\* strings are served in a larger tree
LEMMA ServedGrows ==
    ASSUME NEW w, NEW v, Grows(w, v), LayersOK(w), LayersOK(v), NEW G, NEW H, G \subseteq H,
           NEW p, NEW j, Served(w, G, p, j)
    PROVE  Served(v, H, p, j)
<1>1. PICK node \in w.nodes : node.path = p /\ Serves(w, G, node, w.offsets[Len(p)], j)
  BY DEF Served
<1>2. p \in Seq(Nat) /\ Len(p) \in 0 .. Len(w.strs) - 1
  BY DEF Served
<1>3. PICK l \in 0 .. Len(w.strs) - 1 : l = Len(p)
  BY <1>2
<1>4. Longer(w.offsets[l], v.offsets[l]) /\ node \in v.nodes /\ v.strs = w.strs
  BY <1>1 DEF Grows
<1>5. Len(w.offsets[l]) \in Nat /\ Len(v.offsets[l]) \in Nat
  BY <1>4 DEF LayersOK
<1>6. Serves(w, G, node, w.offsets[l], j)
  BY <1>1, <1>3
<1>7. Serves(v, H, node, v.offsets[l], j)
  BY <1>4, <1>5, <1>6, ServesGrow
<1>8. QED
  BY <1>1, <1>2, <1>3, <1>4, <1>7 DEF Served

-----------------------------------------------------------------------------
(* Paths behind which the tree is complete. *)

\* the children that a call has constructed, with the one that is being constructed
BuiltBy(f) == CASE f.phase = "enter" -> 0
                [] f.phase = "ranks" -> f.next - 1
                [] f.phase = "buckets" -> f.prevBucket
                [] f.phase = "leave" -> f.prevBucket + 1

\* the children that are complete
DoneBy(st, d) == IF d = Len(st) THEN BuiltBy(st[d]) ELSE BuiltBy(st[d]) - 1

\* each call but the running one is the parent of the next one
Linked(st) ==
    \A d \in 1 .. Len(st) :
        /\ st[d].path \in Seq(Nat) /\ Len(st[d].path) = d - 1 /\ BuiltBy(st[d]) \in Nat
        /\ \A i \in 1 .. d - 1 : st[d].path[i] = BuiltBy(st[i]) - 1

\* p leads through a child that is complete
LeftAt(p, st, d) ==
    /\ Len(p) >= d /\ \A i \in 1 .. d - 1 : p[i] = st[d].path[i]
    /\ p[d] < DoneBy(st, d)

IsLeft(p, st) == p \in Seq(Nat) /\ \E d \in 1 .. Len(st) : LeftAt(p, st, d)

\* the path of a call does not
LEMMA CallNotLeft ==
    ASSUME NEW st, Len(st) \in Nat, Linked(st), NEW d \in 1 .. Len(st)
    PROVE  ~ IsLeft(st[d].path, st)
<1> SUFFICES ASSUME NEW e \in 1 .. Len(st), LeftAt(st[d].path, st, e)
             PROVE  FALSE
  BY DEF IsLeft
<1>1. e <= d - 1
  BY DEF LeftAt, Linked
<1>2. st[d].path[e] = BuiltBy(st[e]) - 1 /\ e # Len(st)
  <2>1. e \in 1 .. d - 1 /\ e # Len(st)
    BY <1>1
  <2>2. QED
    BY <2>1 DEF Linked
<1>3. BuiltBy(st[e]) \in Nat
  BY DEF Linked
<1>4. QED
  BY <1>2, <1>3 DEF LeftAt, DoneBy

\* x is the call f that has gone on
Continues(f, x) ==
    /\ x.path = f.path /\ x.begin = f.begin /\ x.end = f.end /\ x.offset = f.offset
    /\ x.layer = f.layer /\ BuiltBy(x) \in Nat /\ BuiltBy(f) <= BuiltBy(x)

\* the child y is the next one that x, formerly f, constructs
NextChild(f, x, y) ==
    /\ y.path = Append(f.path, BuiltBy(f)) /\ y.phase = "enter"
    /\ BuiltBy(x) = BuiltBy(f) + 1

\* a call goes on
LEMMA LinkedReplaced ==
    ASSUME NEW s, NEW t, NEW x, Len(s) \in Nat, Len(s) >= 1, Linked(s), Replaced(s, t, x),
           Continues(s[Len(s)], x)
    PROVE  Linked(t) /\ \A p : IsLeft(p, s) => IsLeft(p, t)
<1>1. Len(t) = Len(s) /\ t[Len(s)] = x /\ \A d \in 1 .. Len(s) - 1 : t[d] = s[d]
  BY DEF Replaced
<1>2. ASSUME NEW d \in 1 .. Len(s)
      PROVE  /\ t[d].path = s[d].path /\ BuiltBy(t[d]) \in Nat
             /\ BuiltBy(s[d]) <= BuiltBy(t[d])
  <2>1. CASE d = Len(s)
    BY <1>1, <2>1 DEF Continues
  <2>2. CASE d \in 1 .. Len(s) - 1
    BY <1>1, <2>2 DEF Linked
  <2>3. QED
    BY <2>1, <2>2
<1>3. Linked(t)
  <2> SUFFICES ASSUME NEW d \in 1 .. Len(s)
               PROVE  /\ t[d].path \in Seq(Nat) /\ Len(t[d].path) = d - 1
                      /\ BuiltBy(t[d]) \in Nat
                      /\ \A i \in 1 .. d - 1 : t[d].path[i] = BuiltBy(t[i]) - 1
    BY <1>1 DEF Linked
  <2>1. t[d].path \in Seq(Nat) /\ Len(t[d].path) = d - 1 /\ BuiltBy(t[d]) \in Nat
    BY <1>2 DEF Linked
  <2>2. ASSUME NEW i \in 1 .. d - 1
        PROVE  t[d].path[i] = BuiltBy(t[i]) - 1
    <3>1. i \in 1 .. Len(s) - 1
      OBVIOUS
    <3>2. t[i] = s[i] /\ s[d].path[i] = BuiltBy(s[i]) - 1
      BY <1>1, <3>1 DEF Linked
    <3>3. QED
      BY <1>2, <3>2
  <2>3. QED
    BY <2>1, <2>2
<1>4. ASSUME NEW p, NEW d \in 1 .. Len(s), p \in Seq(Nat), LeftAt(p, s, d)
      PROVE  LeftAt(p, t, d)
  <2>1. DoneBy(s, d) <= DoneBy(t, d) /\ DoneBy(s, d) \in Int /\ DoneBy(t, d) \in Int
    <3>1. PICK a, b : a = BuiltBy(s[d]) /\ b = BuiltBy(t[d])
      OBVIOUS
    <3>2. a \in Nat /\ b \in Nat /\ a <= b
      BY <1>2, <3>1 DEF Linked
    <3>3. a - 1 <= b - 1 /\ a \in Int /\ a - 1 \in Int /\ b \in Int /\ b - 1 \in Int
      BY <3>2
    <3>4. QED
      BY <1>1, <3>1, <3>2, <3>3 DEF DoneBy
  <2>2. p[d] \in Nat
    BY <1>4 DEF LeftAt
  <2>3. p[d] < DoneBy(t, d)
    BY <1>4, <2>1, <2>2 DEF LeftAt
  <2>4. QED
    BY <1>2, <1>4, <2>3 DEF LeftAt
<1>5. QED
  BY <1>1, <1>3, <1>4 DEF IsLeft

\* a call calls another one
LEMMA LinkedCalled ==
    ASSUME NEW s, NEW t, NEW x, NEW y, Len(s) \in Nat, Len(s) >= 1, Linked(s),
           Called(s, t, x, y), Continues(s[Len(s)], x), NextChild(s[Len(s)], x, y)
    PROVE  Linked(t) /\ \A p : IsLeft(p, s) => IsLeft(p, t)
<1>1. PICK m \in Nat : m = Len(s) /\ m >= 1
  OBVIOUS
<1>2. PICK f : f = s[m]
  OBVIOUS
<1>3. /\ Len(t) = m + 1 /\ t[m] = x /\ t[m + 1] = y
      /\ \A d \in 1 .. m - 1 : t[d] = s[d]
  BY <1>1 DEF Called
<1>4. \A d \in 1 .. m :
         /\ s[d].path \in Seq(Nat) /\ Len(s[d].path) = d - 1 /\ BuiltBy(s[d]) \in Nat
         /\ \A i \in 1 .. d - 1 : s[d].path[i] = BuiltBy(s[i]) - 1
  BY <1>1 DEF Linked
<1>5. f.path \in Seq(Nat) /\ Len(f.path) = m - 1 /\ BuiltBy(f) \in Nat
      /\ \A i \in 1 .. m - 1 : f.path[i] = BuiltBy(s[i]) - 1
  <2>1. m \in 1 .. m
    BY <1>1
  <2>2. QED
    BY <1>2, <1>4, <2>1
<1>6. x.path = f.path /\ BuiltBy(x) = BuiltBy(f) + 1
      /\ BuiltBy(y) = 0 /\ y.path = Append(f.path, BuiltBy(f))
  BY <1>1, <1>2 DEF Continues, NextChild, BuiltBy
<1>7. y.path \in Seq(Nat) /\ Len(y.path) = m /\ y.path[m] = BuiltBy(f)
      /\ \A i \in 1 .. m - 1 : y.path[i] = f.path[i]
  BY <1>5, <1>6
<1>8. ASSUME NEW d \in 1 .. m
      PROVE  /\ t[d].path = s[d].path /\ BuiltBy(t[d]) \in Nat
             /\ DoneBy(s, d) = DoneBy(t, d)
             /\ BuiltBy(t[d]) = IF d = m THEN BuiltBy(f) + 1 ELSE BuiltBy(s[d])
  <2>1. CASE d = m
    <3>1. t[d] = x /\ s[d] = f /\ d # m + 1
      BY <1>2, <1>3, <2>1
    <3>2. DoneBy(s, d) = BuiltBy(f)
      BY <1>1, <2>1, <3>1 DEF DoneBy
    <3>3. DoneBy(t, d) = BuiltBy(x) - 1
      BY <1>3, <2>1, <3>1 DEF DoneBy
    <3>4. QED
      BY <1>5, <1>6, <2>1, <3>1, <3>2, <3>3
  <2>2. CASE d \in 1 .. m - 1
    <3>1. t[d] = s[d] /\ d # m /\ d # m + 1
      BY <1>3, <2>2
    <3>2. DoneBy(s, d) = DoneBy(t, d)
      BY <1>1, <1>3, <3>1 DEF DoneBy
    <3>3. QED
      BY <1>4, <3>1, <3>2
  <2>3. QED
    BY <2>1, <2>2
<1>9. Linked(t)
  <2> SUFFICES ASSUME NEW d \in 1 .. m + 1
               PROVE  /\ t[d].path \in Seq(Nat) /\ Len(t[d].path) = d - 1
                      /\ BuiltBy(t[d]) \in Nat
                      /\ \A i \in 1 .. d - 1 : t[d].path[i] = BuiltBy(t[i]) - 1
    BY <1>3 DEF Linked
  <2>1. CASE d = m + 1
    <3>1. t[d] = y
      BY <1>3, <2>1
    <3>2. BuiltBy(t[d]) \in Nat
      BY <1>6, <3>1
    <3>3. ASSUME NEW i \in 1 .. m
          PROVE  y.path[i] = BuiltBy(t[i]) - 1
      <4>1. CASE i = m
        <5>1. BuiltBy(t[i]) = BuiltBy(f) + 1
          BY <1>8, <4>1
        <5>2. QED
          BY <1>5, <1>7, <4>1, <5>1
      <4>2. CASE i \in 1 .. m - 1
        <5>1. BuiltBy(t[i]) = BuiltBy(s[i])
          BY <1>8, <4>2
        <5>2. QED
          BY <1>5, <1>7, <4>2, <5>1
      <4>3. QED
        BY <4>1, <4>2
    <3>4. QED
      BY <1>7, <2>1, <3>1, <3>2, <3>3
  <2>2. CASE d \in 1 .. m
    <3>1. t[d].path \in Seq(Nat) /\ Len(t[d].path) = d - 1 /\ BuiltBy(t[d]) \in Nat
      BY <1>4, <1>8, <2>2
    <3>2. ASSUME NEW i \in 1 .. d - 1
          PROVE  t[d].path[i] = BuiltBy(t[i]) - 1
      <4>1. i \in 1 .. m /\ i # m
        BY <2>2
      <4>2. s[d].path[i] = BuiltBy(s[i]) - 1
        BY <1>4, <2>2
      <4>3. BuiltBy(t[i]) = BuiltBy(s[i])
        BY <1>8, <4>1
      <4>4. QED
        BY <1>8, <2>2, <4>2, <4>3
    <3>3. QED
      BY <3>1, <3>2
  <2>3. QED
    BY <2>1, <2>2
<1>10. ASSUME NEW p, NEW d \in 1 .. m, LeftAt(p, s, d)
       PROVE  LeftAt(p, t, d)
  BY <1>8, <1>10 DEF LeftAt
<1>11. QED
  BY <1>1, <1>3, <1>9, <1>10 DEF IsLeft

\* a call returns: its path is left as well
LEMMA LinkedReturned ==
    ASSUME NEW s, NEW t, Len(s) \in Nat, Len(s) >= 1, Linked(s), Returned(s, t)
    PROVE  /\ Linked(t)
           /\ \A p : IsLeft(p, s) /\ Len(t) >= 1 => IsLeft(p, t)
           /\ Len(t) >= 1 => IsLeft(s[Len(s)].path, t)
<1>1. PICK m \in Nat : m = Len(s) /\ m >= 1
  OBVIOUS
<1>2. PICK f : f = s[m]
  OBVIOUS
<1>3. Len(t) = m - 1 /\ \A d \in 1 .. m - 1 : t[d] = s[d]
  BY <1>1 DEF Returned
<1>4. \A d \in 1 .. m :
         /\ s[d].path \in Seq(Nat) /\ Len(s[d].path) = d - 1 /\ BuiltBy(s[d]) \in Nat
         /\ \A i \in 1 .. d - 1 : s[d].path[i] = BuiltBy(s[i]) - 1
  BY <1>1 DEF Linked
<1>5. Linked(t)
  <2> SUFFICES ASSUME NEW d \in 1 .. m - 1
               PROVE  /\ t[d].path \in Seq(Nat) /\ Len(t[d].path) = d - 1
                      /\ BuiltBy(t[d]) \in Nat
                      /\ \A i \in 1 .. d - 1 : t[d].path[i] = BuiltBy(t[i]) - 1
    BY <1>3 DEF Linked
  <2>1. t[d] = s[d] /\ d \in 1 .. m
    BY <1>3
  <2>2. \A i \in 1 .. d - 1 : t[i] = s[i]
    BY <1>3
  <2>3. QED
    BY <1>4, <2>1, <2>2
<1>6. ASSUME m >= 2
      PROVE  LeftAt(f.path, t, m - 1)
  <2>1. f.path \in Seq(Nat) /\ Len(f.path) = m - 1 /\ BuiltBy(s[m - 1]) \in Nat
        /\ \A i \in 1 .. m - 1 : f.path[i] = BuiltBy(s[i]) - 1
    <3>1. m \in 1 .. m /\ m - 1 \in 1 .. m
      BY <1>6
    <3>2. QED
      BY <1>2, <1>4, <3>1
  <2>2. \A i \in 1 .. m - 2 : s[m - 1].path[i] = BuiltBy(s[i]) - 1
    <3>1. m - 1 \in 1 .. m /\ (m - 1) - 1 = m - 2
      BY <1>6
    <3>2. QED
      BY <1>4, <3>1
  <2>3. t[m - 1] = s[m - 1]
    BY <1>3, <1>6
  <2>4. DoneBy(t, m - 1) = BuiltBy(s[m - 1])
    BY <1>3, <2>3 DEF DoneBy
  <2>5. f.path[m - 1] < DoneBy(t, m - 1)
    BY <1>6, <2>1, <2>4
  <2>6. QED
    BY <1>6, <2>1, <2>2, <2>3, <2>5 DEF LeftAt
<1>7. ASSUME NEW p, p \in Seq(Nat), NEW d \in 1 .. m, LeftAt(p, s, d), m >= 2
      PROVE  \E e \in 1 .. m - 1 : LeftAt(p, t, e)
  <2>1. CASE d \in 1 .. m - 1
    <3>1. BuiltBy(s[d]) \in Nat /\ t[d] = s[d]
      BY <1>3, <1>4, <2>1
    <3>2. DoneBy(s, d) <= DoneBy(t, d) /\ DoneBy(s, d) \in Int /\ DoneBy(t, d) \in Int
      BY <1>1, <1>3, <2>1, <3>1 DEF DoneBy
    <3>3. p[d] \in Nat
      BY <1>7 DEF LeftAt
    <3>4. p[d] < DoneBy(t, d)
      BY <1>7, <3>2, <3>3 DEF LeftAt
    <3>5. LeftAt(p, t, d)
      BY <1>7, <3>1, <3>4 DEF LeftAt
    <3>6. QED
      BY <2>1, <3>5
  <2>2. CASE d = m
    <3>1. LeftAt(f.path, t, m - 1)
      BY <1>6, <1>7
    <3>2. \A i \in 1 .. m - 1 : p[i] = f.path[i]
      BY <1>2, <1>7, <2>2 DEF LeftAt
    <3>3. Len(p) >= m - 1 /\ m - 1 \in 1 .. m - 1
      BY <1>7, <2>2 DEF LeftAt
    <3>4. LeftAt(p, t, m - 1)
      BY <3>1, <3>2, <3>3 DEF LeftAt
    <3>5. QED
      BY <3>3, <3>4
  <2>3. QED
    BY <2>1, <2>2
<1>8. Len(t) >= 1 => m >= 2 /\ m - 1 \in 1 .. Len(t)
  BY <1>3
<1>9. f.path \in Seq(Nat)
  <2>1. m \in 1 .. m
    BY <1>1
  <2>2. QED
    BY <1>2, <1>4, <2>1
<1>10. QED
  BY <1>1, <1>2, <1>3, <1>5, <1>6, <1>7, <1>8, <1>9 DEF IsLeft

\* each path has one node, and it leads through a child that is complete
NodesOK(w, st) ==
    /\ IsFiniteSet(w.nodes)
    /\ \A a, b \in w.nodes : a.path = b.path => a = b
    /\ \A a \in w.nodes : Len(st) >= 1 => IsLeft(a.path, st)

\* nodes stay while a call goes on or calls another one
LEMMA NodesStay ==
    ASSUME NEW w, NEW v, v.nodes = w.nodes, NEW s, NEW t, Len(s) >= 1, NodesOK(w, s),
           \A p : IsLeft(p, s) => IsLeft(p, t)
    PROVE  NodesOK(v, t)
  BY DEF NodesOK

\* a call returns and leaves its node
LEMMA NodesReturned ==
    ASSUME NEW w, NEW v, NEW s, NEW t, Len(s) \in Nat, Len(s) >= 1, Linked(s), Returned(s, t),
           NodesOK(w, s), NEW node, v.nodes = w.nodes \cup {node}, node.path = s[Len(s)].path
    PROVE  NodesOK(v, t)
<1>1. ~ IsLeft(node.path, s)
  BY CallNotLeft
<1>2. \A a \in w.nodes : a.path # node.path
  BY <1>1 DEF NodesOK
<1>3. \A a, b \in v.nodes : a.path = b.path => a = b
  BY <1>2 DEF NodesOK
<1>4. IsFiniteSet(v.nodes)
  BY FS_AddElement DEF NodesOK
<1>5. ASSUME Len(t) >= 1, NEW a \in v.nodes
      PROVE  IsLeft(a.path, t)
  <2>1. CASE a = node
    BY <1>5, <2>1, LinkedReturned
  <2>2. CASE a \in w.nodes
    BY <1>5, <2>2, LinkedReturned DEF NodesOK
  <2>3. QED
    BY <1>5, <2>1, <2>2
<1>6. QED
  BY <1>3, <1>4, <1>5 DEF NodesOK

-----------------------------------------------------------------------------
(* The keys of what is stored. *)

\* the strings up to here have been handed over to children
FrontOf(f) == IF f.phase = "enter" THEN f.begin ELSE f.currentBucketBegin
Front(st) == FrontOf(st[Len(st)])

StringKey(e, strs, n) == \E i \in 1 .. n : e.key = StringHash(strs[i])
PathKey(e, p, c) == p \in Seq(Nat) /\ c \in Nat /\ e.key = AlternativeHash(getChild(p, c))

\* the chunks of which the rank is stored
RanksChunk(f, c) == f.phase = "ranks" /\ \E i \in 1 .. f.next - 1 : c = f.chunks[i]
RunningKey(st, p, c) == \E d \in 1 .. Len(st) : st[d].path = p /\ RanksChunk(st[d], c)

LeftKey(e, st) == \E p, c : PathKey(e, p, c) /\ (IsLeft(p, st) \/ RunningKey(st, p, c))

KeyedBy(e, strs, st) == StringKey(e, strs, Front(st)) \/ LeftKey(e, st)

\* each key has one entry, of a string or a chunk that was handled
KeysOK(w, st) ==
    /\ \A a, b \in w.pool : a.key = b.key => a = b
    /\ \A e \in w.pool : Len(st) >= 1 => KeyedBy(e, w.strs, st)

\* the ranks of chunks that a call has stored
RanksStay(f, x) ==
    f.phase = "ranks" => /\ x.phase = "ranks" /\ x.chunks = f.chunks
                         /\ f.next \in Nat /\ x.next \in Nat /\ f.next <= x.next

\* running keys of a call that goes on
LEMMA RunningStays ==
    ASSUME NEW s, NEW t, NEW x, Len(s) \in Nat, Len(s) >= 1,
           Len(t) \in Nat, Len(t) >= Len(s),
           t[Len(s)] = x, \A d \in 1 .. Len(s) - 1 : t[d] = s[d],
           Continues(s[Len(s)], x), RanksStay(s[Len(s)], x),
           NEW p, NEW c, RunningKey(s, p, c)
    PROVE  RunningKey(t, p, c)
<1>1. PICK m \in Nat : m = Len(s) /\ m >= 1
  OBVIOUS
<1>2. PICK f : f = s[m]
  OBVIOUS
<1>3. PICK d \in 1 .. m : s[d].path = p /\ RanksChunk(s[d], c)
  BY <1>1 DEF RunningKey
<1>4. CASE d = m
  <2>1. f.phase = "ranks" /\ f.path = p
    BY <1>2, <1>3, <1>4 DEF RanksChunk
  <2>2. PICK i \in 1 .. f.next - 1 : c = f.chunks[i]
    BY <1>2, <1>3, <1>4 DEF RanksChunk
  <2>3. /\ x.phase = "ranks" /\ x.chunks = f.chunks /\ x.path = p
        /\ f.next \in Nat /\ x.next \in Nat /\ f.next <= x.next
    BY <1>1, <1>2, <2>1 DEF RanksStay, Continues
  <2>4. i \in 1 .. x.next - 1 /\ c = x.chunks[i]
    BY <2>2, <2>3
  <2>5. RanksChunk(x, c)
    BY <2>3, <2>4 DEF RanksChunk
  <2>6. m \in 1 .. Len(t) /\ t[m] = x
    BY <1>1
  <2>7. QED
    BY <2>3, <2>5, <2>6 DEF RunningKey
<1>5. CASE d \in 1 .. m - 1
  <2>1. d \in 1 .. Len(t) /\ t[d] = s[d]
    BY <1>1, <1>5
  <2>2. QED
    BY <1>3, <2>1 DEF RunningKey
<1>6. QED
  BY <1>4, <1>5

\* running keys of a call that returns
LEMMA RunningReturned ==
    ASSUME NEW s, NEW t, Len(s) \in Nat, Len(s) >= 1, Linked(s), Returned(s, t),
           Len(t) >= 1, NEW p, NEW c, RunningKey(s, p, c)
    PROVE  RunningKey(t, p, c) \/ IsLeft(p, t)
<1>1. PICK m \in Nat : m = Len(s) /\ m >= 1
  OBVIOUS
<1>2. PICK d \in 1 .. m : s[d].path = p /\ RanksChunk(s[d], c)
  BY <1>1 DEF RunningKey
<1>3. Len(t) = m - 1 /\ \A e \in 1 .. m - 1 : t[e] = s[e]
  BY <1>1 DEF Returned
<1>4. CASE d = m
  BY <1>1, <1>2, <1>4, LinkedReturned
<1>5. CASE d \in 1 .. m - 1
  BY <1>2, <1>3, <1>5 DEF RunningKey
<1>6. QED
  BY <1>4, <1>5

\* what a stack has left stays behind it
FrontMoves(s, t) ==
    /\ Front(s) \in Nat /\ Front(t) \in Nat /\ Front(s) <= Front(t)
    /\ \A p : IsLeft(p, s) => IsLeft(p, t)
    /\ \A p, c : RunningKey(s, p, c) => RunningKey(t, p, c) \/ IsLeft(p, t)

\* keys stay keys of what was handled
LEMMA KeyedStays ==
    ASSUME NEW s, NEW t, FrontMoves(s, t), NEW e, NEW strs, KeyedBy(e, strs, s)
    PROVE  KeyedBy(e, strs, t)
<1>1. CASE StringKey(e, strs, Front(s))
  <2>1. StringKey(e, strs, Front(t))
    BY <1>1 DEF StringKey, FrontMoves
  <2>2. QED
    BY <2>1 DEF KeyedBy
<1>2. CASE LeftKey(e, s)
  <2>1. PICK p, c : PathKey(e, p, c) /\ (IsLeft(p, s) \/ RunningKey(s, p, c))
    BY <1>2 DEF LeftKey
  <2>2. IsLeft(p, t) \/ RunningKey(t, p, c)
    BY <2>1 DEF FrontMoves
  <2>3. QED
    BY <2>1, <2>2 DEF LeftKey, KeyedBy
<1>3. QED
  BY <1>1, <1>2 DEF KeyedBy

\* entries A are added, for new keys
LEMMA KeysAdded ==
    ASSUME NEW w, NEW v, NEW A, v.strs = w.strs, v.pool = w.pool \cup A,
           NEW s, NEW t, Len(s) >= 1, KeysOK(w, s), FrontMoves(s, t),
           \A a, b \in A : a.key = b.key => a = b,
           \A a \in A : KeyedBy(a, w.strs, t),
           \A a \in A, e \in w.pool : a.key # e.key
    PROVE  KeysOK(v, t)
<1>1. \A a, b \in v.pool : a.key = b.key => a = b
  BY DEF KeysOK
<1>2. ASSUME NEW e \in v.pool
      PROVE  KeyedBy(e, v.strs, t)
  <2>1. CASE e \in A
    BY <2>1
  <2>2. CASE e \in w.pool
    BY <2>2, KeyedStays DEF KeysOK
  <2>3. QED
    BY <2>1, <2>2
<1>3. QED
  BY <1>1, <1>2 DEF KeysOK

-----------------------------------------------------------------------------
(* The strings are distinct. *)

\* strings that branch from a string that branches from another one
LEMMA BranchesTwice ==
    ASSUME NEW s \in Texts, NEW t \in Texts, NEW u \in Texts, NEW a, NEW b,
           Branches(Chars, s, t, a), Branches(Chars, t, u, b)
    PROVE  \E n : Branches(Chars, s, u, n)
<1>1. /\ a \in Nat /\ a <= Len(s) /\ a < Len(t) /\ \A k \in 1 .. a : s[k] = t[k]
      /\ Byte(s, a, <<>>) < Byte(t, a, <<>>)
      /\ Byte(s, a, <<>>) \in Chars /\ Byte(t, a, <<>>) \in Chars
  BY DEF Branches
<1>2. /\ b \in Nat /\ b <= Len(t) /\ b < Len(u) /\ \A k \in 1 .. b : t[k] = u[k]
      /\ Byte(t, b, <<>>) < Byte(u, b, <<>>)
      /\ Byte(t, b, <<>>) \in Chars /\ Byte(u, b, <<>>) \in Chars
  BY DEF Branches
<1>3. Len(s) \in Nat /\ Len(t) \in Nat /\ Len(u) \in Nat
  BY DEF Texts
<1>4. /\ Byte(s, a, <<>>) \in Nat /\ Byte(t, a, <<>>) \in Nat
      /\ Byte(t, b, <<>>) \in Nat /\ Byte(u, b, <<>>) \in Nat
  BY <1>1, <1>2, CharsFinite
<1>5. CASE a < b
  <2>1. Byte(t, a, <<>>) = t[a + 1] /\ Byte(u, a, <<>>) = u[a + 1]
    BY <1>1, <1>2, <1>3, <1>5 DEF Byte
  <2>2. a + 1 \in 1 .. b
    BY <1>1, <1>2, <1>5
  <2>3. Byte(u, a, <<>>) = Byte(t, a, <<>>)
    BY <1>2, <2>1, <2>2
  <2>4. a < Len(u) /\ \A k \in 1 .. a : s[k] = u[k]
    BY <1>1, <1>2, <1>3, <1>5
  <2>5. Branches(Chars, s, u, a)
    BY <1>1, <2>3, <2>4 DEF Branches
  <2>6. QED
    BY <2>5
<1>6. CASE a = b
  <2>1. Byte(s, a, <<>>) < Byte(u, a, <<>>)
    BY <1>1, <1>2, <1>4, <1>6
  <2>2. Branches(Chars, s, u, a)
    BY <1>1, <1>2, <1>6, <2>1 DEF Branches
  <2>3. QED
    BY <2>2
<1>7. CASE b < a
  <2>1. Byte(t, b, <<>>) = t[b + 1] /\ Byte(s, b, <<>>) = s[b + 1]
    BY <1>1, <1>2, <1>3, <1>7 DEF Byte
  <2>2. b + 1 \in 1 .. a
    BY <1>1, <1>2, <1>7
  <2>3. Byte(s, b, <<>>) = Byte(t, b, <<>>)
    BY <1>1, <2>1, <2>2
  <2>4. b <= Len(s) /\ \A k \in 1 .. b : s[k] = u[k]
    BY <1>1, <1>2, <1>3, <1>7
  <2>5. Branches(Chars, s, u, b)
    BY <1>2, <2>3, <2>4 DEF Branches
  <2>6. QED
    BY <2>5
<1>8. QED
  BY <1>1, <1>2, <1>5, <1>6, <1>7

\* no string is there twice
LEMMA StringsDistinct ==
    ASSUME NEW strs, Sorted(strs), NEW i \in 1 .. Len(strs), NEW j \in 1 .. Len(strs), i # j
    PROVE  strs[i] # strs[j]
<1>1. Len(strs) \in Nat /\ \A k \in 1 .. Len(strs) : strs[k] \in Texts
  BY DEF Sorted
<1>2. ASSUME NEW k \in 1 .. Len(strs) - 1
      PROVE  \E n : Branches(Chars, strs[k], strs[k + 1], n)
  <2>1. PICK map : map = Chars
    OBVIOUS
  <2>2. map \in SUBSET Chars /\ computeLCPs(strs)[k].branchingCharacters \subseteq map
    BY <2>1, Neighbours
  <2>3. Branches(map, strs[k], strs[k + 1], computeLCPs(strs)[k].lcp)
    BY <2>2, Neighbours
  <2>4. QED
    BY <2>1, <2>3
<1> DEFINE Away(d) == \A k \in 1 .. Len(strs) :
                         k + d + 1 <= Len(strs) =>
                            \E n : Branches(Chars, strs[k], strs[k + d + 1], n)
           S == {d \in Nat : Away(d)}
<1>3. 0 \in S
  BY <1>1, <1>2
<1>4. ASSUME NEW d \in Nat, d \in S
      PROVE  d + 1 \in S
  <2> SUFFICES ASSUME NEW k \in 1 .. Len(strs), k + (d + 1) + 1 <= Len(strs)
               PROVE  \E n : Branches(Chars, strs[k], strs[k + (d + 1) + 1], n)
    OBVIOUS
  <2>1. PICK m \in 1 .. Len(strs) - 1 : m = k + d + 1
    BY <1>1
  <2>2. m \in 1 .. Len(strs) /\ m + 1 \in 1 .. Len(strs) /\ m + 1 = k + (d + 1) + 1
    BY <1>1, <2>1
  <2>3. Away(d)
    BY <1>4
  <2>4. \E n : Branches(Chars, strs[k], strs[m], n)
    BY <2>1, <2>2, <2>3
  <2>5. \E n : Branches(Chars, strs[m], strs[m + 1], n)
    BY <1>2
  <2>6. strs[k] \in Texts /\ strs[m] \in Texts /\ strs[m + 1] \in Texts
    BY <1>1, <2>2
  <2>7. \E n : Branches(Chars, strs[k], strs[m + 1], n)
    BY <2>4, <2>5, <2>6, BranchesTwice
  <2>8. QED
    BY <2>2, <2>7
<1>5. Nat \subseteq S
  <2> HIDE DEF S
  <2> QED
    BY <1>3, <1>4, AllNaturals
<1>6. ASSUME NEW k \in 1 .. Len(strs), NEW l \in 1 .. Len(strs), k < l
      PROVE  strs[k] # strs[l]
  <2>1. PICK d \in Nat : l = k + d + 1
    <3>1. l - k - 1 \in Nat /\ l = k + (l - k - 1) + 1
      BY <1>1, <1>6
    <3>2. QED
      BY <3>1
  <2>2. Away(d)
    BY <1>5
  <2>3. PICK n : Branches(Chars, strs[k], strs[l], n)
    BY <2>1, <2>2
  <2>4. Byte(strs[k], n, <<>>) < Byte(strs[l], n, <<>>) /\ Byte(strs[k], n, <<>>) \in Nat
    BY <2>3, CharsFinite DEF Branches
  <2>5. QED
    BY <2>4
<1>7. QED
  BY <1>1, <1>6

-----------------------------------------------------------------------------
(* The entries for a child, and for the rank of a chunk, have new keys. *)

\* the ranks that are stored for the strings of a small child
RanksOf(strs, begin, end) ==
    IF end - begin \in 2 .. DirectThreshold - 1
    THEN {Input(end - begin, StringHash(strs[begin + j + 1]), j) : j \in 0 .. end - begin - 1}
    ELSE {}

RankEntry(strs, begin, end, i) == Input(end - begin, StringHash(strs[i]), i - 1 - begin)

\* the entry for the chunk that a call is at
ChunkEntry(f) ==
    Input(Len(f.chunks), AlternativeHash(getChild(f.path, f.chunks[f.next])), f.next - 1)

\* the key of an entry
LEMMA EntryKey ==
    ASSUME NEW range, NEW key, NEW n
    PROVE  Input(range, key, n).key = key
  BY DEF Input

\* hashes of strings and of paths
LEMMA HashesDiffer ==
    ASSUME NEW s, NEW t, StringHash(s) = StringHash(t)
    PROVE  s = t
  BY DEF StringHash

\* a string has no hash of a path
LEMMA HashKinds ==
    ASSUME NEW s, NEW p
    PROVE  StringHash(s) # AlternativeHash(p)
  BY DEF StringHash, AlternativeHash

\* paths with the same hash are the same
LEMMA PathsDiffer ==
    ASSUME NEW p \in Seq(Nat), NEW q \in Seq(Nat), NEW c \in Nat, NEW e \in Nat,
           AlternativeHash(getChild(p, c)) = AlternativeHash(getChild(q, e))
    PROVE  p = q /\ c = e
<1>1. PICK a : a = Append(p, c)
  OBVIOUS
<1>2. a = Append(q, e)
  <2>1. PICK b : b = Append(q, e)
    OBVIOUS
  <2>2. <<"alternative", a>> = <<"alternative", b>>
    BY <1>1, <2>1 DEF AlternativeHash, getChild
  <2>3. QED
    BY <2>1, <2>2
<1>3. /\ Len(a) = Len(p) + 1 /\ a[Len(p) + 1] = c
      /\ \A i \in 1 .. Len(p) : a[i] = p[i]
  BY <1>1
<1>4. /\ Len(a) = Len(q) + 1 /\ a[Len(q) + 1] = e
      /\ \A i \in 1 .. Len(q) : a[i] = q[i]
  BY <1>2
<1>5. Len(p) \in Nat /\ Len(q) \in Nat /\ Len(p) = Len(q)
  BY <1>3, <1>4
<1>6. c = e /\ \A i \in 1 .. Len(p) : p[i] = q[i]
  BY <1>3, <1>4, <1>5
<1>7. p = q
  BY <1>5, <1>6, SeqEqual
<1>8. QED
  BY <1>6, <1>7

\* the entries for the strings of a child
LEMMA RankEntries ==
    ASSUME NEW strs, NEW begin \in Nat, NEW end \in Nat, NEW a \in RanksOf(strs, begin, end)
    PROVE  \E i \in begin + 1 .. end : a = RankEntry(strs, begin, end, i)
<1>1. PICK j \in 0 .. end - begin - 1 :
         a = Input(end - begin, StringHash(strs[begin + j + 1]), j)
  BY DEF RanksOf
<1>2. PICK i \in begin + 1 .. end : i = begin + j + 1
  OBVIOUS
<1>3. j = i - 1 - begin
  BY <1>2
<1>4. QED
  BY <1>1, <1>2, <1>3 DEF RankEntry

\* every string of a small child has one
LEMMA RankStored ==
    ASSUME NEW strs, NEW begin \in Nat, NEW end \in Nat,
           end - begin \in 2 .. DirectThreshold - 1, NEW i \in begin + 1 .. end
    PROVE  RankEntry(strs, begin, end, i) \in RanksOf(strs, begin, end)
<1>1. PICK j \in 0 .. end - begin - 1 : j = i - 1 - begin
  OBVIOUS
<1>2. i = begin + j + 1
  BY <1>1
<1>3. RankEntry(strs, begin, end, i)
         = Input(end - begin, StringHash(strs[begin + j + 1]), j)
  BY <1>1, <1>2 DEF RankEntry
<1>4. QED
  BY <1>3 DEF RanksOf

\* the running call has a chunk of which the rank is not stored yet
ChunkIsNew(f) ==
    /\ f.phase = "ranks" /\ f.next \in 1 .. Len(f.chunks) /\ f.chunks \in Seq(Nat)
    /\ \A c, e \in 1 .. Len(f.chunks) : c < e => f.chunks[c] < f.chunks[e]

\* no entry has its key
LEMMA ChunkKeyNew ==
    ASSUME NEW s, Len(s) \in Nat, Len(s) >= 1, Linked(s), NEW f, f = s[Len(s)], ChunkIsNew(f),
           NEW strs, NEW e, KeyedBy(e, strs, s)
    PROVE  e.key # ChunkEntry(f).key
<1>1. PICK c : c = f.chunks[f.next]
  OBVIOUS
<1>2. c \in Nat /\ f.path \in Seq(Nat)
  <2>1. f.path \in Seq(Nat)
    BY DEF Linked
  <2>2. QED
    BY <1>1, <2>1 DEF ChunkIsNew
<1>3. ChunkEntry(f).key = AlternativeHash(getChild(f.path, c))
  BY <1>1, EntryKey DEF ChunkEntry
<1>4. CASE StringKey(e, strs, Front(s))
  BY <1>3, <1>4, HashKinds DEF StringKey
<1>5. CASE LeftKey(e, s)
  <2> SUFFICES ASSUME e.key = AlternativeHash(getChild(f.path, c)) PROVE FALSE
    BY <1>3
  <2>1. PICK p, b : PathKey(e, p, b) /\ (IsLeft(p, s) \/ RunningKey(s, p, b))
    BY <1>5 DEF LeftKey
  <2>2. p = f.path /\ b = c
    <3>1. p \in Seq(Nat) /\ b \in Nat
      BY <2>1 DEF PathKey
    <3>2. AlternativeHash(getChild(p, b)) = AlternativeHash(getChild(f.path, c))
      BY <2>1 DEF PathKey
    <3>3. QED
      BY <1>2, <3>1, <3>2, PathsDiffer
  <2>3. ~ IsLeft(p, s)
    <3>1. Len(s) \in 1 .. Len(s)
      OBVIOUS
    <3>2. QED
      BY <2>2, <3>1, CallNotLeft
  <2>4. PICK d \in 1 .. Len(s) : s[d].path = f.path /\ RanksChunk(s[d], c)
    BY <2>1, <2>2, <2>3 DEF RunningKey
  <2>5. d = Len(s)
    <3>1. Len(s[d].path) = d - 1
      BY DEF Linked
    <3>2. Len(s) \in 1 .. Len(s)
      OBVIOUS
    <3>3. Len(f.path) = Len(s) - 1
      BY <3>2 DEF Linked
    <3>4. QED
      BY <2>4, <3>1, <3>3
  <2>6. PICK i \in 1 .. f.next - 1 : c = f.chunks[i]
    BY <2>4, <2>5 DEF RanksChunk
  <2>7. i \in 1 .. Len(f.chunks) /\ i < f.next /\ f.next \in 1 .. Len(f.chunks)
        /\ Len(f.chunks) \in Nat
    BY SMTT(20), <2>6 DEF ChunkIsNew
  <2>8. f.chunks[i] < f.chunks[f.next] /\ f.chunks[i] \in Nat
    <3>1. \A k \in 1 .. Len(f.chunks) : f.chunks[k] \in Nat
      BY SMTT(20) DEF ChunkIsNew
    <3>2. QED
      BY <2>7, <3>1 DEF ChunkIsNew
  <2>9. QED
    BY <1>1, <1>2, <2>6, <2>8
<1>6. QED
  BY <1>4, <1>5 DEF KeyedBy

\* no entry has the key of a string that was not handled
LEMMA StringKeyNew ==
    ASSUME NEW strs, Sorted(strs), NEW s, Front(s) \in Nat, NEW e, KeyedBy(e, strs, s),
           NEW end \in Nat, end <= Len(strs), NEW i \in Front(s) + 1 .. end
    PROVE  e.key # RankEntry(strs, Front(s), end, i).key
<1>1. RankEntry(strs, Front(s), end, i).key = StringHash(strs[i])
  BY EntryKey DEF RankEntry
<1>2. CASE StringKey(e, strs, Front(s))
  <2>1. PICK k \in 1 .. Front(s) : e.key = StringHash(strs[k])
    BY <1>2 DEF StringKey
  <2>2. Len(strs) \in Nat
    BY DEF Sorted
  <2>3. k \in 1 .. Len(strs) /\ i \in 1 .. Len(strs) /\ k # i
    BY <2>2
  <2>4. strs[k] # strs[i]
    BY <2>3, StringsDistinct
  <2>5. QED
    BY <1>1, <2>1, <2>4, HashesDiffer
<1>3. CASE LeftKey(e, s)
  BY <1>1, <1>3, HashKinds DEF LeftKey, PathKey
<1>4. QED
  BY <1>2, <1>3 DEF KeyedBy

\* what constructChild adds for a chunk
ChunkAdded(f, added, t) ==
    \/ added = {}
    \/ /\ added = {ChunkEntry(f)} /\ ChunkIsNew(f)
       /\ RunningKey(t, f.path, f.chunks[f.next])

\* keys stay unique when a child is constructed
LEMMA ChildKeys ==
    ASSUME NEW w, NEW v, v.strs = w.strs, Sorted(w.strs),
           NEW s, NEW t, Len(s) \in Nat, Len(s) >= 1, Linked(s), KeysOK(w, s), FrontMoves(s, t),
           NEW f, f = s[Len(s)], NEW begin, begin = Front(s),
           NEW end \in Nat, end <= Len(w.strs),
           NEW added, ChunkAdded(f, added, t),
           end - begin \in 2 .. DirectThreshold - 1 => Front(t) = end,
           v.pool = w.pool \cup (added \cup RanksOf(w.strs, begin, end))
    PROVE  KeysOK(v, t)
<1> DEFINE strs == w.strs
           R == RanksOf(strs, begin, end)
           A == added \cup R
<1>1. begin \in Nat /\ Len(strs) \in Nat
  BY DEF FrontMoves, Sorted
<1>2. \A a \in R : \E i \in begin + 1 .. end : a = RankEntry(strs, begin, end, i)
  BY <1>1, RankEntries
<1>3. \A i : RankEntry(strs, begin, end, i).key = StringHash(strs[i])
  BY EntryKey DEF RankEntry
<1>4. R # {} => Front(t) = end
  BY DEF RanksOf
<1>5. \A a \in added : /\ a = ChunkEntry(f) /\ ChunkIsNew(f)
                       /\ RunningKey(t, f.path, f.chunks[f.next])
  BY DEF ChunkAdded
<1>6. ChunkEntry(f).key = AlternativeHash(getChild(f.path, f.chunks[f.next]))
  BY EntryKey DEF ChunkEntry
<1> HIDE DEF R, strs
<1>7. ASSUME NEW a \in A, NEW b \in A, a.key = b.key
      PROVE  a = b
  <2>1. CASE a \in R /\ b \in R
    <3>1. PICK i \in begin + 1 .. end : a = RankEntry(strs, begin, end, i)
      BY <1>2, <2>1
    <3>2. PICK k \in begin + 1 .. end : b = RankEntry(strs, begin, end, k)
      BY <1>2, <2>1
    <3>3. strs[i] = strs[k]
      BY <1>3, <1>7, <3>1, <3>2, HashesDiffer
    <3>4. i \in 1 .. Len(strs) /\ k \in 1 .. Len(strs)
      BY <1>1 DEF strs
    <3>5. i = k
      BY <3>3, <3>4, StringsDistinct DEF strs
    <3>6. QED
      BY <3>1, <3>2, <3>5
  <2>2. \A x \in added, y \in R : x.key # y.key
    BY <1>2, <1>3, <1>5, <1>6, HashKinds
  <2>3. QED
    BY <1>5, <1>7, <2>1, <2>2
<1>8. ASSUME NEW a \in A
      PROVE  KeyedBy(a, strs, t)
  <2>1. CASE a \in R
    <3>1. PICK i \in begin + 1 .. end : a = RankEntry(strs, begin, end, i)
      BY <1>2, <2>1
    <3>2. i \in 1 .. Front(t)
      BY <1>1, <1>4, <2>1
    <3>3. StringKey(a, strs, Front(t))
      BY <1>3, <3>1, <3>2 DEF StringKey
    <3>4. QED
      BY <3>3 DEF KeyedBy
  <2>2. CASE a \in added
    <3>1. PICK c : c = f.chunks[f.next]
      OBVIOUS
    <3>2. c \in Nat /\ f.path \in Seq(Nat) /\ a.key = AlternativeHash(getChild(f.path, c))
          /\ RunningKey(t, f.path, c)
      <4>1. ChunkIsNew(f) /\ a = ChunkEntry(f) /\ RunningKey(t, f.path, c)
        BY <1>5, <2>2, <3>1
      <4>2. c \in Nat
        BY <3>1, <4>1 DEF ChunkIsNew
      <4>3. Len(s) \in 1 .. Len(s)
        OBVIOUS
      <4>4. f.path \in Seq(Nat)
        BY <4>3 DEF Linked
      <4>5. QED
        BY <1>6, <3>1, <4>1, <4>2, <4>4
    <3>3. PathKey(a, f.path, c)
      BY <3>2 DEF PathKey
    <3>4. QED
      BY <3>2, <3>3 DEF LeftKey, KeyedBy
  <2>3. QED
    BY <2>1, <2>2
<1>9. ASSUME NEW a \in A, NEW e \in w.pool
      PROVE  a.key # e.key
  <2>1. KeyedBy(e, strs, s)
    BY DEF KeysOK, strs
  <2>2. CASE a \in R
    <3>1. PICK i \in begin + 1 .. end : a = RankEntry(strs, begin, end, i)
      BY <1>2, <2>2
    <3>2. e.key # RankEntry(strs, begin, end, i).key
      BY <1>1, <2>1, <3>1, StringKeyNew DEF strs
    <3>3. QED
      BY <3>1, <3>2
  <2>3. CASE a \in added
    BY <1>5, <2>1, <2>3, ChunkKeyNew
  <2>4. QED
    BY <2>2, <2>3
<1>10. v.pool = w.pool \cup A
  BY DEF R, strs
<1> HIDE DEF A
<1>11. QED
  BY <1>7, <1>8, <1>9, <1>10, KeysAdded DEF strs

-----------------------------------------------------------------------------
(* What a call has constructed. *)

\* the call at depth d, of a tree of n strings: its children have fewer strings
Placed(f, d, n) ==
    /\ f.layer = d - 1 /\ f.begin \in Nat /\ f.end \in Nat /\ f.begin < f.end /\ f.end <= n
    /\ f.offset = f.begin /\ (f.end - f.begin) + (d - 1) <= n

\* a mapper that maps larger chunks to larger buckets
Monotone(m, chunks) ==
    /\ m # NoAnswer
    /\ \A c \in 1 .. Len(chunks) : m.bucketOf[chunks[c]] \in Nat
    /\ \A c, e \in 1 .. Len(chunks) :
          c <= e => m.bucketOf[chunks[c]] <= m.bucketOf[chunks[e]]

Separating(m, chunks) == m.bucketOf[chunks[1]] # m.bucketOf[chunks[Len(chunks)]]

\* the buckets in front of the running one are closed, it begins with chunk e
AtBucket(f, e) ==
    /\ e \in 1 .. Len(f.chunks) /\ e <= f.next
    /\ f.currentBucketBegin = f.begin + f.chunksOffsets[e]
    /\ \A c \in e .. Len(f.chunks) : f.prevBucket <= f.mapper.bucketOf[f.chunks[c]]
    /\ \A c \in 1 .. f.next - 1 : f.mapper.bucketOf[f.chunks[c]] <= f.prevBucket

\* how far the children are constructed
InLoop(f) ==
    /\ f.phase = "ranks" => /\ f.mapper = NoAnswer
                            /\ f.currentBucketBegin = f.begin + f.chunksOffsets[f.next]
    /\ f.phase = "buckets" => /\ Monotone(f.mapper, f.chunks) /\ Separating(f.mapper, f.chunks)
                              /\ f.prevBucket \in Nat /\ \E e : AtBucket(f, e)
    /\ f.phase = "leave" => /\ f.mapper # NoAnswer /\ f.prevBucket \in Nat
                            /\ f.currentBucketBegin = f.end

\* the strings in front of currentBucketBegin are served
Halfway(w, G, f) ==
    /\ InLoop(f)
    /\ f.currentBucketBegin \in Nat /\ f.begin <= f.currentBucketBegin
    /\ f.currentBucketBegin <= f.end
    /\ f.bucketSizePrefixTemp = f.currentBucketBegin - f.begin
    /\ f.node.offsetsOffset \in Nat
    /\ Len(w.offsets[f.layer]) = f.node.offsetsOffset + BuiltBy(f)
    /\ \A j \in f.begin + 1 .. f.currentBucketBegin :
          Serves(w, G, NodeOf(f), Append(w.offsets[f.layer], f.currentBucketBegin), j)

\* the run that a string is in
LEMMA RunOf ==
    ASSUME NEW R, NEW n \in Nat, NEW chunks, NEW offsets, Runs(R, n, chunks, offsets),
           NEW e \in 1 .. Len(chunks) + 1, NEW g \in 1 .. Len(chunks) + 1,
           NEW j \in offsets[e] + 1 .. offsets[g]
    PROVE  \E c \in 1 .. Len(chunks) : e <= c /\ c < g /\ R[j] = chunks[c]
<1> DEFINE S == {c \in 1 .. Len(chunks) + 1 : offsets[c] < j}
<1>1. /\ Len(chunks) \in Nat
      /\ \A c \in 1 .. Len(chunks) + 1 : offsets[c] \in Nat
      /\ \A c, d \in 1 .. Len(chunks) + 1 : c < d => offsets[c] < offsets[d]
      /\ \A c \in 1 .. Len(chunks) :
            \A i \in offsets[c] + 1 .. offsets[c + 1] : R[i] = chunks[c]
  BY SMTT(20) DEF Runs
<1>2. j \in Nat /\ offsets[e] < j /\ j <= offsets[g]
  BY <1>1
<1>3. S \in SUBSET Nat /\ e \in S /\ \A c \in S : c <= Len(chunks) + 1
  BY <1>1, <1>2
<1>4. PICK c \in S : \A d \in S : d <= c
  <2> HIDE DEF S
  <2>1. Len(chunks) + 1 \in Nat
    BY <1>1
  <2>2. QED
    BY <1>3, <2>1, GreatestOf
<1>5. c \in 1 .. Len(chunks) + 1 /\ offsets[c] < j /\ e <= c
  BY <1>3, <1>4
<1>6. c < g
  <2> SUFFICES ASSUME g <= c PROVE FALSE
    BY <1>5
  <2>1. offsets[g] <= offsets[c]
    BY <1>1, <1>5
  <2>2. QED
    BY <1>1, <1>2, <1>5, <2>1
<1>7. c \in 1 .. Len(chunks) /\ c + 1 \in 1 .. Len(chunks) + 1
  BY <1>1, <1>5, <1>6
<1>8. j <= offsets[c + 1]
  <2>1. ~ (offsets[c + 1] < j)
    <3> SUFFICES ASSUME offsets[c + 1] < j PROVE FALSE
      OBVIOUS
    <3>1. c + 1 \in S
      BY <1>7
    <3>2. QED
      BY <1>4, <1>5, <3>1
  <2>2. QED
    BY <1>1, <1>2, <1>7, <2>1
<1>9. j \in offsets[c] + 1 .. offsets[c + 1]
  BY <1>1, <1>2, <1>5, <1>7, <1>8
<1>10. QED
  BY <1>1, <1>5, <1>6, <1>7, <1>9

\* what the strings of a node read
LEMMA ReadsOf ==
    ASSUME NEW f, NEW w, NEW ls, SplitFacts(f, w.ix, w.strs, ls, w.maps)
    PROVE  \E R : \E n \in Nat :
              /\ n = f.end - f.begin /\ Runs(R, n, f.chunks, f.chunksOffsets)
              /\ \A j \in 1 .. n : R[j] = ReadAt(w, NodeOf(f), f.begin + j)
<1> DEFINE map == MapAt(w.maps, f.node.alphabetMapIndex)
           n == f.end - f.begin
           R == ChunksOf(w.ix, map, f.node.reads, w.strs, f.begin, f.end)
<1>1. Runs(R, n, f.chunks, f.chunksOffsets) /\ n \in Nat
  BY DEF SplitFacts, NodeFacts, NodeRange
<1>2. NodeOf(f).alphabetMapIndex = f.node.alphabetMapIndex /\ NodeOf(f).reads = f.node.reads
  BY DEF NodeOf
<1>3. \A j \in 1 .. n : R[j] = ReadAt(w, NodeOf(f), f.begin + j)
  BY <1>2 DEF ChunksOf, ReadAt
<1> HIDE DEF R
<1>4. QED
  BY <1>1, <1>3

\* the node of a call finds bucket q for the strings up to `end`
FindsUpTo(w, f, q, end) ==
    \A j \in f.currentBucketBegin + 1 .. end : Finds(w, NodeOf(f), ReadAt(w, NodeOf(f), j), q)

\* the strings of the chunk that a call is at
LEMMA ChunkFound ==
    ASSUME NEW w, NEW f, NEW ls, SplitFacts(f, w.ix, w.strs, ls, w.maps),
           Len(w.strs) \in 0 .. WideCapacity, f.phase = "ranks", InLoop(f),
           f.next <= Len(f.chunks), ChunkEntry(f) \in w.pool,
           NEW end, end = f.begin + f.chunksOffsets[f.next + 1]
    PROVE  FindsUpTo(w, f, BuiltBy(f), end)
<1>1. PICK R : \E n \in Nat :
                  /\ n = f.end - f.begin /\ Runs(R, n, f.chunks, f.chunksOffsets)
                  /\ \A j \in 1 .. n : R[j] = ReadAt(w, NodeOf(f), f.begin + j)
  BY ReadsOf
<1>2. PICK n \in Nat : /\ n = f.end - f.begin /\ Runs(R, n, f.chunks, f.chunksOffsets)
                       /\ \A j \in 1 .. n : R[j] = ReadAt(w, NodeOf(f), f.begin + j)
  BY <1>1
<1>3. /\ f.begin \in Nat /\ f.end \in Nat /\ f.end <= Len(w.strs)
      /\ f.next \in 1 .. Len(f.chunks) /\ Len(f.chunks) \in Nat /\ Len(f.chunks) <= n
      /\ Len(f.chunks) >= 2
  BY <1>2 DEF SplitFacts, NodeFacts, NodeRange, Progress, Runs
<1>4. f.mapper = NoAnswer /\ f.currentBucketBegin = f.begin + f.chunksOffsets[f.next]
  BY DEF InLoop
<1>5. PICK e : e = f.next
  OBVIOUS
<1>6. /\ f.chunksOffsets[e] \in 0 .. n /\ f.chunksOffsets[e + 1] \in 0 .. n
      /\ \A i \in f.chunksOffsets[e] + 1 .. f.chunksOffsets[e + 1] : R[i] = f.chunks[e]
  <2>1. e \in 1 .. Len(f.chunks) /\ e \in 1 .. Len(f.chunks) + 1
        /\ e + 1 \in 1 .. Len(f.chunks) + 1
    BY <1>3, <1>5
  <2>2. QED
    BY <1>2, <2>1 DEF Runs
<1>7. ASSUME NEW j \in f.currentBucketBegin + 1 .. end
      PROVE  ReadAt(w, NodeOf(f), j) = f.chunks[e]
  <2>1. PICK lo \in Nat, hi \in Nat : lo = f.chunksOffsets[e] /\ hi = f.chunksOffsets[e + 1]
    BY <1>6
  <2>2. hi <= n /\ j \in (f.begin + lo) + 1 .. f.begin + hi
    BY <1>4, <1>5, <1>6, <2>1
  <2>3. PICK i \in lo + 1 .. hi : i \in 1 .. n /\ f.begin + i = j
    <3>1. PICK b \in Nat : b = f.begin
      BY <1>3
    <3>2. PICK k : k = j /\ k \in (b + lo) + 1 .. b + hi
      BY <2>2, <3>1
    <3>3. k - b \in lo + 1 .. hi /\ k - b \in 1 .. n /\ b + (k - b) = k
      BY <2>2, <3>2
    <3>4. QED
      BY <3>1, <3>2, <3>3
  <2>4. QED
    BY <1>2, <1>6, <2>1, <2>3
<1>8. PICK c : c = f.chunks[e]
  OBVIOUS
<1>9. Finds(w, NodeOf(f), c, e - 1)
  <2>1. /\ NodeOf(f).mapper = NoAnswer /\ NodeOf(f).numChildren = Len(f.chunks)
        /\ NodeOf(f).path = f.path
    BY <1>4 DEF NodeOf
  <2>2. WideCapacity \in Nat /\ Len(w.strs) \in Nat
    BY WideCapacityAssumption
  <2>3. Len(f.chunks) \in 1 .. WideCapacity /\ e - 1 < Len(f.chunks)
    <3>1. PICK k, b, d, c0 : k = Len(f.chunks) /\ b = f.begin /\ d = f.end /\ c0 = Len(w.strs)
      OBVIOUS
    <3>2. /\ k \in Nat /\ k >= 2 /\ k <= d - b /\ b \in Nat /\ d \in Nat
          /\ c0 \in 0 .. WideCapacity /\ d <= c0 /\ e \in 1 .. k
      BY <1>2, <1>3, <1>5, <3>1
    <3>3. k \in 1 .. WideCapacity /\ e - 1 < k
      BY <2>2, <3>2
    <3>4. QED
      BY <3>1, <3>3
  <2>4. Input(Len(f.chunks), AlternativeHash(getChild(f.path, c)), e - 1) \in w.pool
    BY <1>5, <1>8 DEF ChunkEntry
  <2>5. QED
    BY <2>1, <2>3, <2>4 DEF Finds
<1>10. BuiltBy(f) = e - 1
  BY <1>5 DEF BuiltBy
<1>11. QED
  BY <1>7, <1>8, <1>9, <1>10 DEF FindsUpTo

\* the strings of the bucket that a call closes, in front of chunk g
LEMMA BucketFound ==
    ASSUME NEW w, NEW f, NEW ls, SplitFacts(f, w.ix, w.strs, ls, w.maps),
           f.phase = "buckets", InLoop(f), NEW g, g = f.next,
           NEW end, end = f.begin + f.chunksOffsets[g]
    PROVE  FindsUpTo(w, f, BuiltBy(f), end)
<1>1. PICK R : \E n \in Nat :
                  /\ n = f.end - f.begin /\ Runs(R, n, f.chunks, f.chunksOffsets)
                  /\ \A j \in 1 .. n : R[j] = ReadAt(w, NodeOf(f), f.begin + j)
  BY ReadsOf
<1>2. PICK n \in Nat : /\ n = f.end - f.begin /\ Runs(R, n, f.chunks, f.chunksOffsets)
                       /\ \A j \in 1 .. n : R[j] = ReadAt(w, NodeOf(f), f.begin + j)
  BY <1>1
<1>3. /\ f.begin \in Nat /\ f.end \in Nat
      /\ g \in 1 .. Len(f.chunks) + 1 /\ Len(f.chunks) \in Nat
  BY <1>2 DEF SplitFacts, NodeFacts, NodeRange, Progress, Runs
<1>4. PICK e : AtBucket(f, e)
  BY DEF InLoop
<1>5. e \in 1 .. Len(f.chunks) + 1 /\ f.currentBucketBegin = f.begin + f.chunksOffsets[e]
  BY <1>3, <1>4 DEF AtBucket
<1>6. f.chunksOffsets[e] \in 0 .. n /\ f.chunksOffsets[g] \in 0 .. n
  BY <1>2, <1>3, <1>5 DEF Runs
<1>7. Monotone(f.mapper, f.chunks) /\ f.prevBucket \in Nat
  BY DEF InLoop
<1>8. NodeOf(f).mapper = f.mapper /\ BuiltBy(f) = f.prevBucket
  BY DEF NodeOf, BuiltBy
<1>9. ASSUME NEW j \in f.currentBucketBegin + 1 .. end
      PROVE  Finds(w, NodeOf(f), ReadAt(w, NodeOf(f), j), f.prevBucket)
  <2>1. PICK lo \in Nat, hi \in Nat : lo = f.chunksOffsets[e] /\ hi = f.chunksOffsets[g]
    BY <1>6
  <2>2. hi <= n /\ j \in (f.begin + lo) + 1 .. f.begin + hi
    BY <1>5, <1>6, <2>1
  <2>10. PICK i \in lo + 1 .. hi : i \in 1 .. n /\ f.begin + i = j
    <3>1. PICK b \in Nat : b = f.begin
      BY <1>3
    <3>2. PICK k : k = j /\ k \in (b + lo) + 1 .. b + hi
      BY <2>2, <3>1
    <3>3. k - b \in lo + 1 .. hi /\ k - b \in 1 .. n /\ b + (k - b) = k
      BY <2>2, <3>2
    <3>4. QED
      BY <3>1, <3>2, <3>3
  <2>11. i \in f.chunksOffsets[e] + 1 .. f.chunksOffsets[g]
    BY <2>1, <2>10
  <2>3. PICK c \in 1 .. Len(f.chunks) : e <= c /\ c < g /\ R[i] = f.chunks[c]
    <3>1. PICK chunks, offsets : chunks = f.chunks /\ offsets = f.chunksOffsets
      OBVIOUS
    <3>2. Runs(R, n, chunks, offsets)
      BY <1>2, <3>1
    <3>3. /\ e \in 1 .. Len(chunks) + 1 /\ g \in 1 .. Len(chunks) + 1
          /\ i \in offsets[e] + 1 .. offsets[g]
      BY <1>3, <1>5, <2>11, <3>1
    <3>4. PICK k : k = i /\ k \in offsets[e] + 1 .. offsets[g]
      BY <3>3
    <3>5. PICK l, h : l = e /\ h = g /\ l \in 1 .. Len(chunks) + 1 /\ h \in 1 .. Len(chunks) + 1
                      /\ k \in offsets[l] + 1 .. offsets[h]
      BY <3>3, <3>4
    <3>6. \E c \in 1 .. Len(chunks) : l <= c /\ c < h /\ R[k] = chunks[c]
      BY <3>2, <3>5, RunOf
    <3>7. QED
      BY <3>1, <3>4, <3>5, <3>6
  <2>4. c \in e .. Len(f.chunks) /\ c \in 1 .. f.next - 1
    BY <1>3, <1>5, <2>3
  <2>5. /\ f.prevBucket <= f.mapper.bucketOf[f.chunks[c]]
        /\ f.mapper.bucketOf[f.chunks[c]] <= f.prevBucket
        /\ f.mapper.bucketOf[f.chunks[c]] \in Nat
    BY <1>4, <1>7, <2>3, <2>4 DEF AtBucket, Monotone
  <2>6. f.mapper.bucketOf[f.chunks[c]] = f.prevBucket
    BY <1>7, <2>5
  <2>7. ReadAt(w, NodeOf(f), j) = f.chunks[c]
    BY <1>2, <2>3, <2>10
  <2>8. f.mapper # NoAnswer
    BY <1>7 DEF Monotone
  <2>9. QED
    BY <1>8, <2>6, <2>7, <2>8 DEF Finds
<1>10. QED
  BY <1>8, <1>9 DEF FindsUpTo

\* x splits the same node as f
SameSplit(f, x) ==
    /\ Continues(f, x)
    /\ x.node = f.node /\ x.mapper = f.mapper /\ x.chunks = f.chunks
    /\ x.chunksOffsets = f.chunksOffsets

\* the call f goes on as x behind the child with the strings up to `end`
ChildDone(f, x, end) ==
    /\ SameSplit(f, x) /\ InLoop(x) /\ BuiltBy(f) \in Nat /\ BuiltBy(x) = BuiltBy(f) + 1
    /\ end \in Nat /\ f.currentBucketBegin <= end /\ end <= f.end
    /\ x.currentBucketBegin = end
    /\ x.bucketSizePrefixTemp = f.bucketSizePrefixTemp + (end - f.currentBucketBegin)

\* what a query finds for the strings of the child
ChildServed(v, H, f, end) ==
    /\ Numbered(v.maps, f.node.alphabetMapIndex)
    /\ FindsUpTo(v, f, BuiltBy(f), end)
    /\ RanksOf(v.strs, f.currentBucketBegin, end) \subseteq v.pool
    /\ ~ (end - f.currentBucketBegin < DirectThreshold) =>
          \A j \in f.currentBucketBegin + 1 .. end : <<getChild(f.path, BuiltBy(f)), j>> \in H

\* list is the list at with x behind it
Appended(list, at, x) == list = Append(at, x)

\* the strings of the child are served, too
LEMMA ChildHalfway ==
    ASSUME NEW w, NEW v, Grows(w, v), NEW G, NEW H, G \subseteq H,
           NEW f, Halfway(w, G, f), f.begin \in Nat, f.end \in Nat, f.end <= Len(v.strs),
           Len(v.strs) \in Nat,
           NEW at, at = w.offsets[f.layer], at \in Seq(Nat),
           Appended(v.offsets[f.layer], at, f.currentBucketBegin),
           NEW x, NEW end, ChildDone(f, x, end), ChildServed(v, H, f, end)
    PROVE  Halfway(v, H, x)
<1>1. PICK cb, q, o : cb = f.currentBucketBegin /\ q = BuiltBy(f) /\ o = f.node.offsetsOffset
  OBVIOUS
<1>2. /\ cb \in Nat /\ f.begin <= cb /\ cb <= f.end /\ f.bucketSizePrefixTemp = cb - f.begin
      /\ o \in Nat /\ Len(at) = o + q
  BY <1>1 DEF Halfway
<1>3. /\ q \in Nat /\ BuiltBy(x) = q + 1 /\ end \in Nat /\ cb <= end /\ end <= f.end
      /\ x.currentBucketBegin = end /\ x.bucketSizePrefixTemp = (cb - f.begin) + (end - cb)
      /\ InLoop(x)
  BY <1>1, <1>2 DEF ChildDone
<1>4. /\ x.path = f.path /\ x.begin = f.begin /\ x.end = f.end /\ x.layer = f.layer
      /\ x.node = f.node /\ x.mapper = f.mapper /\ x.chunks = f.chunks
  BY DEF ChildDone, SameSplit, Continues
<1>5. NodeOf(x) = NodeOf(f)
  BY <1>4 DEF NodeOf
<1>6. PICK old, later : old = Append(at, cb) /\ later = Append(old, end)
  OBVIOUS
<1>7. /\ Len(old) = o + q + 1 /\ Len(later) = o + q + 2
      /\ \A k \in 1 .. Len(old) : later[k] = old[k]
      /\ later[o + q + 1] = cb /\ later[o + q + 2] = end
  <2>1. old \in Seq(Nat) /\ Len(old) = Len(at) + 1 /\ old[Len(at) + 1] = cb
    BY <1>2, <1>6
  <2>2. Len(later) = Len(old) + 1 /\ later[Len(old) + 1] = end
        /\ \A k \in 1 .. Len(old) : later[k] = old[k]
    <3>1. old \in Seq(Nat) /\ end \in Nat /\ later = Append(old, end)
      BY <1>3, <1>6, <2>1
    <3>2. PICK b : b = old
      OBVIOUS
    <3>3. b \in Seq(Nat) /\ later = Append(b, end)
      BY <3>1, <3>2
    <3>4. Len(later) = Len(b) + 1 /\ later[Len(b) + 1] = end
          /\ \A k \in 1 .. Len(b) : later[k] = b[k]
      BY <3>1, <3>3
    <3>5. QED
      BY <3>2, <3>4
  <2>3. Len(at) + 1 = o + q + 1 /\ Len(old) + 1 = o + q + 2 /\ Len(at) + 1 \in 1 .. Len(old)
    BY <1>2, <1>3, <2>1
  <2>4. later[Len(at) + 1] = cb
    BY <2>1, <2>2, <2>3
  <2>5. QED
    BY <2>1, <2>2, <2>3, <2>4
<1>15. end <= Len(v.strs)
  BY <1>3
<1>8. ASSUME NEW j \in f.begin + 1 .. end
      PROVE  Serves(v, H, NodeOf(f), later, j)
  <2>1. CASE j <= cb
    <3>1. Serves(w, G, NodeOf(f), old, j)
      <4>1. j \in f.begin + 1 .. cb
        BY <1>2, <1>3, <2>1
      <4>2. \A k \in f.begin + 1 .. cb : Serves(w, G, NodeOf(f), Append(at, cb), k)
        BY <1>1 DEF Halfway
      <4>3. QED
        BY <1>6, <4>1, <4>2
    <3>2. Longer(old, later) /\ Len(old) \in Nat /\ Len(later) \in Nat
      BY <1>2, <1>3, <1>7 DEF Longer
    <3>3. PICK node : node = NodeOf(f)
      OBVIOUS
    <3>4. Serves(v, H, node, later, j)
      BY <3>1, <3>2, <3>3, ServesGrow
    <3>5. QED
      BY <3>3, <3>4
  <2>2. CASE ~ (j <= cb)
    <3>1. j \in cb + 1 .. end
      BY <1>2, <1>3, <2>2
    <3>2. Finds(v, NodeOf(f), ReadAt(v, NodeOf(f), j), q)
      BY <1>1, <3>1 DEF ChildServed, FindsUpTo
    <3>3. Spans(later, o + q, cb, end)
      BY <1>2, <1>3, <1>7 DEF Spans
    <3>4. Settles(v, H, f.path, q, cb, end, j)
      <4>1. CASE end - cb < DirectThreshold /\ end - cb # 1
        <5>1. end - cb \in 2 .. DirectThreshold - 1
          BY <1>2, <1>3, <3>1, <4>1, TreeAssumption
        <5>2. RankEntry(v.strs, cb, end, j) \in RanksOf(v.strs, cb, end)
          BY <1>2, <1>3, <3>1, <5>1, RankStored
        <5>3. RankEntry(v.strs, cb, end, j) \in v.pool
          BY <1>1, <5>2 DEF ChildServed
        <5>4. QED
          BY <4>1, <5>3 DEF Settles, RankEntry
      <4>2. CASE end - cb < DirectThreshold /\ end - cb = 1
        BY <4>2 DEF Settles
      <4>3. CASE ~ (end - cb < DirectThreshold)
        BY <1>1, <3>1, <4>3 DEF Settles, ChildServed
      <4>4. QED
        BY <4>1, <4>2, <4>3
    <3>5. /\ NodeOf(f).path = f.path /\ NodeOf(f).offsetsOffset = o
          /\ NodeOf(f).alphabetMapIndex = f.node.alphabetMapIndex
      BY <1>1 DEF NodeOf
    <3>6. ServedBy(v, H, NodeOf(f), later, j, q, cb, end)
      <4>1. cb < j /\ j <= end
        BY <1>2, <1>3, <3>1
      <4>2. QED
        BY <1>2, <1>3, <1>15, <3>2, <3>3, <3>4, <3>5, <4>1 DEF ServedBy
    <3>7. Numbered(v.maps, f.node.alphabetMapIndex)
      BY DEF ChildServed
    <3>8. QED
      BY <1>2, <3>5, <3>6, <3>7 DEF Serves
  <2>3. QED
    BY <2>1, <2>2
<1>9. v.offsets[x.layer] = old /\ Append(v.offsets[x.layer], x.currentBucketBegin) = later
  BY <1>1, <1>3, <1>4, <1>6 DEF Appended
<1>10. Len(v.offsets[x.layer]) = x.node.offsetsOffset + BuiltBy(x)
  <2>1. x.node.offsetsOffset = o
    BY <1>1, <1>4
  <2>2. Len(old) = o + (q + 1)
    BY <1>2, <1>3, <1>7
  <2>3. QED
    BY <1>3, <1>9, <2>1, <2>2
<1>11. \A j \in x.begin + 1 .. x.currentBucketBegin :
          Serves(v, H, NodeOf(x), Append(v.offsets[x.layer], x.currentBucketBegin), j)
  BY <1>3, <1>4, <1>5, <1>8, <1>9
<1>12. x.bucketSizePrefixTemp = x.currentBucketBegin - x.begin
  BY <1>2, <1>3, <1>4
<1>13. /\ x.currentBucketBegin \in Nat /\ x.begin <= x.currentBucketBegin
       /\ x.currentBucketBegin <= x.end /\ x.node.offsetsOffset \in Nat
  BY <1>1, <1>2, <1>3, <1>4
<1>14. QED
  BY <1>3, <1>10, <1>11, <1>12, <1>13 DEF Halfway

\* a call is halfway in a larger tree, too, if its layer stays
LEMMA HalfwayStays ==
    ASSUME NEW w, NEW v, Grows(w, v), NEW G, NEW H, G \subseteq H,
           NEW f, Halfway(w, G, f), NEW at, at = w.offsets[f.layer], at \in Seq(Nat),
           v.offsets[f.layer] = at
    PROVE  Halfway(v, H, f)
<1>1. PICK later : later = Append(at, f.currentBucketBegin)
  OBVIOUS
<1>2. Longer(later, later) /\ Len(later) \in Nat
  BY <1>1 DEF Longer, Halfway
<1>3. ASSUME NEW j \in f.begin + 1 .. f.currentBucketBegin
      PROVE  Serves(v, H, NodeOf(f), later, j)
  <2>1. PICK node : node = NodeOf(f)
    OBVIOUS
  <2>2. Serves(w, G, node, later, j)
    BY <1>1, <2>1 DEF Halfway
  <2>3. Serves(v, H, node, later, j)
    BY <1>2, <2>2, ServesGrow
  <2>4. QED
    BY <2>1, <2>3
<1>4. QED
  BY <1>1, <1>3 DEF Halfway

-----------------------------------------------------------------------------
(* The loops of a call. *)

\* the fields of a call f that has gone on as x
MovesTo(f, x, ph, nx, pb, cb, tmp) ==
    /\ x.begin = f.begin /\ x.end = f.end /\ x.offset = f.offset /\ x.path = f.path
    /\ x.layer = f.layer /\ x.node = f.node /\ x.mapper = f.mapper /\ x.chunks = f.chunks
    /\ x.chunksOffsets = f.chunksOffsets
    /\ x.phase = ph /\ x.next = nx /\ x.prevBucket = pb
    /\ x.currentBucketBegin = cb /\ x.bucketSizePrefixTemp = tmp

\* where the runs of a node begin
LEMMA RunPlaces ==
    ASSUME NEW f, NEW ix, NEW strs, NEW ls, NEW maps, SplitFacts(f, ix, strs, ls, maps)
    PROVE  \E n \in Nat :
              /\ n >= 2 /\ f.begin \in Nat /\ f.end = f.begin + n /\ f.end <= Len(strs)
              /\ Len(f.chunks) \in Nat /\ Len(f.chunks) >= 2 /\ f.chunks \in Seq(Nat)
              /\ f.next \in 1 .. Len(f.chunks) + 1
              /\ f.chunksOffsets[1] = 0 /\ f.chunksOffsets[Len(f.chunks) + 1] = n
              /\ \A c \in 1 .. Len(f.chunks) + 1 : f.chunksOffsets[c] \in 0 .. n
              /\ \A c, e \in 1 .. Len(f.chunks) + 1 :
                    c < e => f.chunksOffsets[c] < f.chunksOffsets[e]
              /\ \A c, e \in 1 .. Len(f.chunks) : c < e => f.chunks[c] < f.chunks[e]
<1>1. PICK n : n = f.end - f.begin
  OBVIOUS
<1>2. f.begin \in Nat /\ f.end \in Nat /\ f.begin + 2 <= f.end /\ f.end <= Len(strs)
  BY DEF SplitFacts, NodeFacts, NodeRange
<1>3. n \in Nat /\ n >= 2 /\ f.end = f.begin + n
  BY <1>1, <1>2
<1>4. PICK R : Runs(R, n, f.chunks, f.chunksOffsets)
  BY <1>1 DEF SplitFacts, NodeFacts
<1>5. f.next \in Nat /\ f.next >= 1 /\ f.next <= Len(f.chunks) + 1
  BY DEF SplitFacts, Progress
<1>6. Len(f.chunks) \in Nat /\ f.next \in 1 .. Len(f.chunks) + 1
  BY <1>4, <1>5 DEF Runs
<1>7. QED
  BY <1>2, <1>3, <1>4, <1>6 DEF Runs

\* part of a range
Smaller(f, end) == end - f.currentBucketBegin < f.end - f.begin

\* StoreChunkRank goes on to the next chunk
LEMMA RankLoop ==
    ASSUME NEW w, NEW f, NEW ls, SplitFacts(f, w.ix, w.strs, ls, w.maps),
           f.phase = "ranks", InLoop(f), f.next <= Len(f.chunks),
           NEW end, end = f.begin + f.chunksOffsets[f.next + 1],
           NEW x, NEW tmp, MovesTo(f, x, "ranks", f.next + 1, f.prevBucket, end, tmp)
    PROVE  /\ InLoop(x) /\ BuiltBy(f) \in Nat /\ BuiltBy(x) = BuiltBy(f) + 1
           /\ end \in Nat /\ f.currentBucketBegin <= end /\ end <= f.end
           /\ Smaller(f, end)
<1>1. PICK n \in Nat :
         /\ n >= 2 /\ f.begin \in Nat /\ f.end = f.begin + n
         /\ Len(f.chunks) \in Nat /\ Len(f.chunks) >= 2
         /\ f.next \in 1 .. Len(f.chunks) + 1
         /\ f.chunksOffsets[1] = 0 /\ f.chunksOffsets[Len(f.chunks) + 1] = n
         /\ \A c \in 1 .. Len(f.chunks) + 1 : f.chunksOffsets[c] \in 0 .. n
         /\ \A c, e \in 1 .. Len(f.chunks) + 1 :
               c < e => f.chunksOffsets[c] < f.chunksOffsets[e]
  BY RunPlaces
<1>2. PICK e : e = f.next
  OBVIOUS
<1>3. PICK m : m = Len(f.chunks)
  OBVIOUS
<1>4. e \in 1 .. m /\ m \in Nat /\ m >= 2 /\ e \in 1 .. m + 1 /\ e + 1 \in 1 .. m + 1
      /\ 1 \in 1 .. m + 1 /\ m + 1 \in 1 .. m + 1
  BY <1>1, <1>2, <1>3
<1>5. /\ f.chunksOffsets[e] \in 0 .. n /\ f.chunksOffsets[e + 1] \in 0 .. n
      /\ f.chunksOffsets[e] < f.chunksOffsets[e + 1]
      /\ e + 1 < m + 1 => f.chunksOffsets[e + 1] < n
      /\ 1 < e => 0 < f.chunksOffsets[e]
  <2>1. PICK co : co = f.chunksOffsets
    OBVIOUS
  <2>2. /\ co[1] = 0 /\ co[m + 1] = n
        /\ \A c \in 1 .. m + 1 : co[c] \in 0 .. n
        /\ \A c, d \in 1 .. m + 1 : c < d => co[c] < co[d]
    BY <1>1, <1>3, <2>1
  <2>3. co[e] \in 0 .. n /\ co[e + 1] \in 0 .. n
    BY <1>4, <2>2
  <2>4. PICK g : g = e + 1
    OBVIOUS
  <2>5. e < g /\ g \in 1 .. m + 1
    BY <1>4, <2>4
  <2>6. co[e] < co[g] /\ (g < m + 1 => co[g] < n) /\ (1 < e => 0 < co[e])
    BY <1>4, <2>2, <2>5
  <2>7. QED
    BY <2>1, <2>3, <2>4, <2>6
<1>6. f.mapper = NoAnswer /\ f.currentBucketBegin = f.begin + f.chunksOffsets[e]
  BY <1>2 DEF InLoop
<1>7. end \in Nat /\ f.currentBucketBegin <= end /\ end <= f.end
  BY SMTT(20), <1>1, <1>2, <1>5, <1>6
<1>8. Smaller(f, end)
  <2>1. e + 1 < m + 1 \/ 1 < e
    BY <1>4
  <2>2. PICK lo \in 0 .. n, hi \in 0 .. n :
           lo = f.chunksOffsets[e] /\ hi = f.chunksOffsets[e + 1]
    BY <1>5
  <2>3. hi - lo < n
    BY <1>5, <2>1, <2>2
  <2>4. PICK b \in Nat : b = f.begin
    BY <1>1
  <2>5. end = b + hi /\ f.currentBucketBegin = b + lo /\ f.end - f.begin = n
    BY <1>1, <1>2, <1>6, <2>2, <2>4
  <2>6. QED
    BY <2>3, <2>5 DEF Smaller
<1>9. x.phase = "ranks" /\ x.next = e + 1 /\ x.mapper = NoAnswer /\ x.begin = f.begin
      /\ x.chunksOffsets = f.chunksOffsets /\ x.currentBucketBegin = end
  BY <1>2, <1>6 DEF MovesTo
<1>10. InLoop(x)
  BY <1>2, <1>9 DEF InLoop
<1>11. BuiltBy(f) = e - 1 /\ BuiltBy(x) = (e + 1) - 1
  BY <1>2, <1>9 DEF BuiltBy
<1>12. QED
  BY <1>4, <1>7, <1>8, <1>10, <1>11

\* the bucket that a call closes
LEMMA RunningBucket ==
    ASSUME NEW w, NEW f, NEW ls, SplitFacts(f, w.ix, w.strs, ls, w.maps),
           f.phase = "buckets", InLoop(f), NEW g, g = f.next,
           NEW end, end = f.begin + f.chunksOffsets[g]
    PROVE  /\ BuiltBy(f) = f.prevBucket /\ f.prevBucket \in Nat
           /\ end \in Nat /\ f.currentBucketBegin <= end /\ end <= f.end
           /\ Smaller(f, end) /\ f.currentBucketBegin # f.end
<1>1. PICK n \in Nat :
         /\ n >= 2 /\ f.begin \in Nat /\ f.end = f.begin + n
         /\ Len(f.chunks) \in Nat /\ Len(f.chunks) >= 2
         /\ f.next \in 1 .. Len(f.chunks) + 1
         /\ f.chunksOffsets[1] = 0 /\ f.chunksOffsets[Len(f.chunks) + 1] = n
         /\ \A c \in 1 .. Len(f.chunks) + 1 : f.chunksOffsets[c] \in 0 .. n
         /\ \A c, e \in 1 .. Len(f.chunks) + 1 :
               c < e => f.chunksOffsets[c] < f.chunksOffsets[e]
  BY RunPlaces
<1>2. PICK e : AtBucket(f, e)
  BY DEF InLoop
<1>3. PICK m : m = Len(f.chunks)
  OBVIOUS
<1>4. e \in 1 .. m /\ m \in Nat /\ m >= 2 /\ e \in 1 .. m + 1 /\ g \in 1 .. m + 1 /\ e <= g
      /\ 1 \in 1 .. m + 1 /\ m + 1 \in 1 .. m + 1
  BY <1>1, <1>2, <1>3 DEF AtBucket
<1>5. /\ f.chunksOffsets[e] \in 0 .. n /\ f.chunksOffsets[g] \in 0 .. n
      /\ f.chunksOffsets[e] < n
      /\ e < g => f.chunksOffsets[e] < f.chunksOffsets[g]
      /\ g < m + 1 => f.chunksOffsets[g] < n
      /\ 1 < e => 0 < f.chunksOffsets[e]
  <2>1. e < m + 1
    BY <1>4
  <2>2. QED
    BY <1>1, <1>3, <1>4, <2>1
<1>6. f.currentBucketBegin = f.begin + f.chunksOffsets[e]
  BY <1>2 DEF AtBucket
<1>7. Monotone(f.mapper, f.chunks) /\ Separating(f.mapper, f.chunks) /\ f.prevBucket \in Nat
  BY DEF InLoop
<1>8. g < m + 1 \/ 1 < e
  <2> SUFFICES ASSUME g = m + 1, e = 1 PROVE FALSE
    BY <1>4
  <2>1. 1 \in e .. Len(f.chunks) /\ 1 \in 1 .. f.next - 1
        /\ m \in e .. Len(f.chunks) /\ m \in 1 .. f.next - 1
    BY <1>3, <1>4
  <2>2. /\ f.prevBucket <= f.mapper.bucketOf[f.chunks[1]]
        /\ f.mapper.bucketOf[f.chunks[1]] <= f.prevBucket
        /\ f.prevBucket <= f.mapper.bucketOf[f.chunks[m]]
        /\ f.mapper.bucketOf[f.chunks[m]] <= f.prevBucket
    BY <1>2, <2>1 DEF AtBucket
  <2>3. f.mapper.bucketOf[f.chunks[1]] \in Nat /\ f.mapper.bucketOf[f.chunks[m]] \in Nat
    BY <1>3, <1>4, <1>7 DEF Monotone
  <2>4. f.mapper.bucketOf[f.chunks[1]] = f.mapper.bucketOf[f.chunks[m]]
    BY <1>7, <2>2, <2>3
  <2>5. PICK of, cs : of = f.mapper.bucketOf /\ cs = f.chunks
    OBVIOUS
  <2>6. of[cs[1]] # of[cs[m]]
    BY <1>3, <1>7, <2>5 DEF Separating
  <2>7. QED
    BY <2>4, <2>5, <2>6
<1>9. end \in Nat /\ f.currentBucketBegin <= end /\ end <= f.end
  <2>1. PICK lo \in 0 .. n, hi \in 0 .. n :
           lo = f.chunksOffsets[e] /\ hi = f.chunksOffsets[g]
    BY <1>5
  <2>2. lo <= hi
    BY <1>4, <1>5, <2>1
  <2>3. PICK b \in Nat : b = f.begin
    BY <1>1
  <2>4. end = b + hi /\ f.currentBucketBegin = b + lo /\ f.end = b + n
    BY <1>1, <1>6, <2>1, <2>3
  <2>5. QED
    BY <2>2, <2>4
<1>10. Smaller(f, end)
  <2>1. PICK lo \in 0 .. n, hi \in 0 .. n :
           lo = f.chunksOffsets[e] /\ hi = f.chunksOffsets[g]
    BY <1>5
  <2>2. hi - lo < n
    BY <1>4, <1>5, <1>8, <2>1
  <2>3. PICK b \in Nat : b = f.begin
    BY <1>1
  <2>4. end = b + hi /\ f.currentBucketBegin = b + lo /\ f.end - f.begin = n
    BY <1>1, <1>6, <2>1, <2>3
  <2>5. QED
    BY <2>2, <2>4 DEF Smaller
<1>11. f.currentBucketBegin # f.end
  BY <1>1, <1>5, <1>6
<1>12. QED
  BY <1>7, <1>9, <1>10, <1>11 DEF BuiltBy

\* the mappers of increasing chunks are monotonic
MappersMonotone ==
    \A chunks \in Seq(Nat) :
        Len(chunks) >= 2 /\ (\A c, e \in 1 .. Len(chunks) : c < e => chunks[c] < chunks[e]) =>
            \A m \in ChunkMappers(chunks) : Monotone(m, chunks)

\* CloseBucket goes on to the next bucket
LEMMA BucketLoop ==
    ASSUME NEW w, NEW f, NEW ls, SplitFacts(f, w.ix, w.strs, ls, w.maps),
           f.phase = "buckets", InLoop(f), NEW g, g = f.next, g <= Len(f.chunks),
           f.prevBucket < f.mapper.bucketOf[f.chunks[g]],
           NEW end, end = f.begin + f.chunksOffsets[g],
           NEW x, NEW tmp, MovesTo(f, x, "buckets", f.next, f.prevBucket + 1, end, tmp)
    PROVE  InLoop(x) /\ BuiltBy(x) = BuiltBy(f) + 1
<1>1. PICK m \in Nat : m = Len(f.chunks)
  BY RunPlaces
<1>2. g \in 1 .. m
  BY <1>1, RunPlaces
<1>3. PICK B, pb : B = [c \in 1 .. m |-> f.mapper.bucketOf[f.chunks[c]]] /\ pb = f.prevBucket
  OBVIOUS
<1>4. /\ Monotone(f.mapper, f.chunks) /\ Separating(f.mapper, f.chunks) /\ pb \in Nat
      /\ \A c \in 1 .. m : B[c] \in Nat
      /\ \A c, e \in 1 .. m : c <= e => B[c] <= B[e]
  BY <1>1, <1>3 DEF InLoop, Monotone
<1>5. pb < B[g]
  BY <1>2, <1>3
<1>6. PICK e : AtBucket(f, e)
  BY DEF InLoop
<1>7. \A c \in 1 .. g - 1 : B[c] <= pb
  BY <1>1, <1>2, <1>3, <1>6 DEF AtBucket
<1>8. /\ x.begin = f.begin /\ x.mapper = f.mapper /\ x.chunks = f.chunks
      /\ x.chunksOffsets = f.chunksOffsets
      /\ x.phase = "buckets" /\ x.next = g /\ x.prevBucket = pb + 1
      /\ x.currentBucketBegin = end
  BY <1>3 DEF MovesTo
<1>9. \A c \in g .. m : pb + 1 <= B[c]
  <2> SUFFICES ASSUME NEW c \in g .. m PROVE pb + 1 <= B[c]
    OBVIOUS
  <2>1. c \in 1 .. m /\ g <= c
    BY <1>2
  <2>2. B[g] <= B[c] /\ B[g] \in Nat /\ B[c] \in Nat
    BY <1>2, <1>4, <2>1
  <2>3. QED
    BY <1>4, <1>5, <2>2
<1>10. \A c \in 1 .. g - 1 : B[c] <= pb + 1
  BY <1>2, <1>4, <1>7
<1>11. AtBucket(x, g)
  <2>1. \A c \in g .. m : pb + 1 <= f.mapper.bucketOf[f.chunks[c]]
    <3> SUFFICES ASSUME NEW c \in g .. m PROVE pb + 1 <= f.mapper.bucketOf[f.chunks[c]]
      OBVIOUS
    <3>1. c \in 1 .. m
      BY <1>2
    <3>2. B[c] = f.mapper.bucketOf[f.chunks[c]]
      BY <1>3, <3>1
    <3>3. QED
      BY <1>9, <3>2
  <2>2. \A c \in 1 .. g - 1 : f.mapper.bucketOf[f.chunks[c]] <= pb + 1
    <3> SUFFICES ASSUME NEW c \in 1 .. g - 1 PROVE f.mapper.bucketOf[f.chunks[c]] <= pb + 1
      OBVIOUS
    <3>1. c \in 1 .. m
      BY <1>2
    <3>2. B[c] = f.mapper.bucketOf[f.chunks[c]]
      BY <1>3, <3>1
    <3>3. QED
      BY <1>10, <3>2
  <2>3. g <= x.next /\ g \in 1 .. Len(x.chunks) /\ x.next - 1 = g - 1
    BY <1>1, <1>2, <1>8
  <2>4. QED
    BY <1>1, <1>8, <2>1, <2>2, <2>3 DEF AtBucket
<1>12. InLoop(x)
  BY <1>4, <1>8, <1>11 DEF InLoop
<1>13. BuiltBy(x) = BuiltBy(f) + 1
  BY <1>3, <1>8 DEF BuiltBy
<1>14. QED
  BY <1>12, <1>13

\* NextChunk goes on to the next chunk
LEMMA ChunkLoop ==
    ASSUME NEW w, NEW f, NEW ls, SplitFacts(f, w.ix, w.strs, ls, w.maps),
           f.phase = "buckets", InLoop(f), NEW g, g = f.next, g <= Len(f.chunks),
           f.prevBucket >= f.mapper.bucketOf[f.chunks[g]],
           NEW x, MovesTo(f, x, "buckets", f.next + 1, f.prevBucket, f.currentBucketBegin,
                          f.bucketSizePrefixTemp)
    PROVE  InLoop(x) /\ BuiltBy(x) = BuiltBy(f)
<1>1. PICK m \in Nat : m = Len(f.chunks)
  BY RunPlaces
<1>2. g \in 1 .. m
  BY <1>1, RunPlaces
<1>3. PICK B, pb : B = [c \in 1 .. m |-> f.mapper.bucketOf[f.chunks[c]]] /\ pb = f.prevBucket
  OBVIOUS
<1>4. /\ Monotone(f.mapper, f.chunks) /\ Separating(f.mapper, f.chunks) /\ pb \in Nat
      /\ \A c \in 1 .. m : B[c] \in Nat
  BY <1>1, <1>3 DEF InLoop, Monotone
<1>5. B[g] <= pb
  BY <1>2, <1>3, <1>4
<1>6. PICK e : AtBucket(f, e)
  BY DEF InLoop
<1>7. /\ e \in 1 .. m /\ e <= g /\ f.currentBucketBegin = f.begin + f.chunksOffsets[e]
      /\ \A c \in e .. m : pb <= B[c]
      /\ \A c \in 1 .. g - 1 : B[c] <= pb
  <2>1. /\ e \in 1 .. m /\ e <= g /\ f.currentBucketBegin = f.begin + f.chunksOffsets[e]
        /\ \A c \in e .. m : pb <= f.mapper.bucketOf[f.chunks[c]]
        /\ \A c \in 1 .. g - 1 : f.mapper.bucketOf[f.chunks[c]] <= pb
    BY <1>1, <1>3, <1>6 DEF AtBucket
  <2>2. ASSUME NEW c \in 1 .. m PROVE B[c] = f.mapper.bucketOf[f.chunks[c]]
    BY <1>3
  <2>3. \A c \in e .. m : c \in 1 .. m
    BY <2>1
  <2>4. \A c \in 1 .. g - 1 : c \in 1 .. m
    BY <1>2
  <2>5. \A c \in e .. m : pb <= B[c]
    BY <2>1, <2>2, <2>3
  <2>6. \A c \in 1 .. g - 1 : B[c] <= pb
    BY <2>1, <2>2, <2>4
  <2>7. QED
    BY <2>1, <2>5, <2>6
<1>8. /\ x.begin = f.begin /\ x.mapper = f.mapper /\ x.chunks = f.chunks
      /\ x.chunksOffsets = f.chunksOffsets
      /\ x.phase = "buckets" /\ x.next = g + 1 /\ x.prevBucket = pb
      /\ x.currentBucketBegin = f.currentBucketBegin
  BY <1>3 DEF MovesTo
<1>9. \A c \in 1 .. g : B[c] <= pb
  <2> SUFFICES ASSUME NEW c \in 1 .. g PROVE B[c] <= pb
    OBVIOUS
  <2>1. c = g \/ c \in 1 .. g - 1
    BY <1>2
  <2>2. QED
    BY <1>5, <1>7, <2>1
<1>10. AtBucket(x, e)
  <2>1. \A c \in e .. m : pb <= f.mapper.bucketOf[f.chunks[c]]
    <3> SUFFICES ASSUME NEW c \in e .. m PROVE pb <= f.mapper.bucketOf[f.chunks[c]]
      OBVIOUS
    <3>1. c \in 1 .. m
      BY <1>2, <1>7
    <3>2. B[c] = f.mapper.bucketOf[f.chunks[c]]
      BY <1>3, <3>1
    <3>3. QED
      BY <1>7, <3>2
  <2>2. \A c \in 1 .. g : f.mapper.bucketOf[f.chunks[c]] <= pb
    <3> SUFFICES ASSUME NEW c \in 1 .. g PROVE f.mapper.bucketOf[f.chunks[c]] <= pb
      OBVIOUS
    <3>1. c \in 1 .. m
      BY <1>2
    <3>2. B[c] = f.mapper.bucketOf[f.chunks[c]]
      BY <1>3, <3>1
    <3>3. QED
      BY <1>9, <3>2
  <2>3. e <= x.next /\ e \in 1 .. Len(x.chunks) /\ x.next - 1 = g
    BY <1>1, <1>2, <1>7, <1>8
  <2>4. QED
    BY <1>1, <1>7, <1>8, <2>1, <2>2, <2>3 DEF AtBucket
<1>11. InLoop(x)
  BY <1>4, <1>8, <1>10 DEF InLoop
<1>12. BuiltBy(x) = BuiltBy(f)
  BY <1>3, <1>8 DEF BuiltBy
<1>13. QED
  BY <1>11, <1>12

\* CloseLastBucket ends the loop
LEMMA LastLoop ==
    ASSUME NEW f, f.phase = "buckets", InLoop(f),
           NEW x, NEW tmp, MovesTo(f, x, "leave", f.next, f.prevBucket, f.end, tmp)
    PROVE  InLoop(x) /\ BuiltBy(x) = BuiltBy(f) + 1
  BY DEF InLoop, Monotone, MovesTo, BuiltBy

\* the node is split and its first child is the next one
LEMMA EnteredLoop ==
    ASSUME MappersMonotone,
           NEW f, NEW ph, NEW mp, NEW node, NEW known, NEW firsts, NEW chunks,
           EnteredBy(ph, mp, chunks),
           NEW x, x = EnteredCall(f, ph, mp, node, known, firsts, chunks),
           NEW w, NEW ls, SplitFacts(x, w.ix, w.strs, ls, w.maps)
    PROVE  /\ InLoop(x) /\ BuiltBy(x) = 0
           /\ x.begin = f.begin /\ x.end = f.end /\ x.offset = f.offset /\ x.path = f.path
           /\ x.layer = f.layer /\ x.node = node /\ x.phase = ph
           /\ x.currentBucketBegin = f.begin /\ x.bucketSizePrefixTemp = 0
<1>1. PICK b, e, o, p, l : b = f.begin /\ e = f.end /\ o = f.offset /\ p = f.path /\ l = f.layer
  OBVIOUS
<1>2. PICK co : co = Append(firsts, f.end - f.begin)
  OBVIOUS
<1>3. x = Frame(b, e, o, p, l, known, ph, node, mp, chunks, co, 1, 0, b, 0)
  BY <1>1, <1>2 DEF EnteredCall
<1>4. /\ x.begin = b /\ x.end = e /\ x.offset = o /\ x.path = p /\ x.layer = l /\ x.phase = ph
      /\ x.node = node /\ x.mapper = mp /\ x.chunks = chunks /\ x.chunksOffsets = co
      /\ x.next = 1 /\ x.prevBucket = 0 /\ x.currentBucketBegin = b
      /\ x.bucketSizePrefixTemp = 0
  BY <1>3, FrameFields
<1>5. /\ b \in Nat /\ Len(chunks) \in Nat /\ Len(chunks) >= 2 /\ chunks \in Seq(Nat)
      /\ co[1] = 0 /\ \A c, d \in 1 .. Len(chunks) : c < d => chunks[c] < chunks[d]
  <2>1. \E n \in Nat :
           /\ n >= 2 /\ x.begin \in Nat /\ x.end = x.begin + n
           /\ Len(x.chunks) \in Nat /\ Len(x.chunks) >= 2 /\ x.chunks \in Seq(Nat)
           /\ x.chunksOffsets[1] = 0
           /\ \A c, d \in 1 .. Len(x.chunks) : c < d => x.chunks[c] < x.chunks[d]
    BY RunPlaces
  <2>2. QED
    BY <1>4, <2>1
<1>6. BuiltBy(x) = 0
  BY <1>4 DEF BuiltBy, EnteredBy
<1>7. CASE ph = "ranks"
  <2>1. mp = NoAnswer
    BY <1>7 DEF EnteredBy
  <2>2. x.currentBucketBegin = x.begin + x.chunksOffsets[x.next]
    BY <1>4, <1>5
  <2>3. InLoop(x)
    BY <1>4, <1>7, <2>1, <2>2 DEF InLoop
  <2>4. QED
    BY <1>1, <1>4, <1>6, <2>3
<1>8. CASE ph = "buckets"
  <2>1. mp \in ChunkMappers(chunks) /\ Separating(mp, chunks)
    BY <1>8 DEF EnteredBy, Separating
  <2>2. Monotone(mp, chunks)
    BY <1>5, <2>1 DEF MappersMonotone
  <2>3. AtBucket(x, 1)
    <3>1. \A c \in 1 .. Len(chunks) : 0 <= mp.bucketOf[chunks[c]]
      <4> SUFFICES ASSUME NEW c \in 1 .. Len(chunks) PROVE 0 <= mp.bucketOf[chunks[c]]
        OBVIOUS
      <4>1. mp.bucketOf[chunks[c]] \in Nat
        BY <2>2 DEF Monotone
      <4>2. QED
        BY <4>1
    <3>2. x.currentBucketBegin = x.begin + x.chunksOffsets[1]
      BY <1>4, <1>5
    <3>3. 1 \in 1 .. Len(x.chunks) /\ 1 <= x.next
      BY <1>4, <1>5
    <3>4. \A c \in 1 .. x.next - 1 : FALSE
      BY <1>4
    <3>5. QED
      BY <1>4, <3>1, <3>2, <3>3, <3>4 DEF AtBucket
  <2>4. InLoop(x)
    BY <1>4, <1>8, <2>1, <2>2, <2>3 DEF InLoop
  <2>5. QED
    BY <1>1, <1>4, <1>6, <2>4
<1>9. QED
  BY <1>7, <1>8 DEF EnteredBy

\* all strings of a call that leaves are handed over
LEMMA LoopEnds ==
    ASSUME NEW w, NEW f, NEW ls, SplitFacts(f, w.ix, w.strs, ls, w.maps), InLoop(f),
           f.phase = "leave" \/ (f.phase = "ranks" /\ ~ (f.next <= Len(f.chunks)))
    PROVE  f.currentBucketBegin = f.end
<1>1. CASE f.phase = "leave"
  BY <1>1 DEF InLoop
<1>2. CASE f.phase = "ranks" /\ ~ (f.next <= Len(f.chunks))
  <2>1. PICK n \in Nat :
           /\ f.end = f.begin + n /\ Len(f.chunks) \in Nat
           /\ f.next \in 1 .. Len(f.chunks) + 1
           /\ f.chunksOffsets[Len(f.chunks) + 1] = n
    BY RunPlaces
  <2>2. f.next = Len(f.chunks) + 1
    BY <1>2, <2>1
  <2>3. f.currentBucketBegin = f.begin + f.chunksOffsets[f.next]
    BY <1>2 DEF InLoop
  <2>4. QED
    BY <2>1, <2>2, <2>3
<1>3. QED
  BY <1>1, <1>2

-----------------------------------------------------------------------------
(* The plan behind the tree: which strings go on behind which paths. *)

\* a call has still to leave the node of a string
Pending(st, p, j) ==
    \E d \in 1 .. Len(st) : st[d].path = p /\ j \in st[d].begin + 1 .. st[d].end

\* each planned string is served behind its path, or will be when a call leaves
PairsOK(w, G, st) ==
    \A x \in G : \E p, j : x = <<p, j>> /\ (Pending(st, p, j) \/ Served(w, G, p, j))

\* the calls have their place in the tree and serve what is in front of them
CallsOK(w, G, st) ==
    /\ Linked(st)
    /\ \A d \in 1 .. Len(st) : Placed(st[d], d, Len(w.strs))
    /\ \A d \in 1 .. Len(st) : st[d].phase # "enter" => Halfway(w, G, st[d])
    /\ \A d \in 1 .. Len(st) - 1 :
          st[d].phase # "enter" /\ st[d].currentBucketBegin = st[d + 1].end

Plan(w, G, st) == CallsOK(w, G, st) /\ PairsOK(w, G, st)

\* only the offsets of one layer have changed
OtherLayers(w, v, layer) ==
    \A l \in 0 .. Len(w.strs) - 1 : l # layer => v.offsets[l] = w.offsets[l]

\* the tree grows in the layer of the running call
GrowsAt(w, v, layer) ==
    Grows(w, v) /\ LayersOK(w) /\ LayersOK(v) /\ OtherLayers(w, v, layer)

\* the callers of the running call
LEMMA CallersStay ==
    ASSUME NEW s, Len(s) \in Nat, NEW w, NEW v, GrowsAt(w, v, Len(s) - 1),
           NEW G, NEW H, G \subseteq H, CallsOK(w, G, s), NEW d \in 1 .. Len(s) - 1
    PROVE  Halfway(v, H, s[d])
<1>1. d \in 1 .. Len(s) /\ Len(w.strs) \in Nat
  BY DEF GrowsAt, LayersOK
<1>2. PICK f : f = s[d]
  OBVIOUS
<1>3. Halfway(w, G, f) /\ Placed(f, d, Len(w.strs))
  BY <1>1, <1>2 DEF CallsOK
<1>4. PICK l : l = f.layer /\ l \in 0 .. Len(w.strs) - 1 /\ l # Len(s) - 1
  BY <1>1, <1>3 DEF Placed
<1>5. w.offsets[l] \in Seq(Nat) /\ v.offsets[l] = w.offsets[l]
  BY <1>4 DEF GrowsAt, LayersOK, OtherLayers
<1>6. PICK at : at = w.offsets[f.layer] /\ at \in Seq(Nat) /\ v.offsets[f.layer] = at
  BY <1>4, <1>5
<1>7. Halfway(v, H, f)
  BY <1>3, <1>6, HalfwayStays DEF GrowsAt
<1>8. QED
  BY <1>2, <1>7

\* strings that are served stay so
LEMMA PairsStay ==
    ASSUME NEW s, NEW w, NEW v, NEW layer, GrowsAt(w, v, layer), NEW G, NEW H, G \subseteq H,
           PairsOK(w, G, s), NEW x \in G
    PROVE  \E p, j : x = <<p, j>> /\ (Pending(s, p, j) \/ Served(v, H, p, j))
<1>1. PICK p, j : x = <<p, j>> /\ (Pending(s, p, j) \/ Served(w, G, p, j))
  BY DEF PairsOK
<1>2. Served(w, G, p, j) => Served(v, H, p, j)
  BY ServedGrows DEF GrowsAt
<1>3. QED
  BY <1>1, <1>2

\* the running call goes on
LEMMA PlanReplaced ==
    ASSUME NEW s, NEW t, NEW x, Len(s) \in Nat, Len(s) >= 1, Replaced(s, t, x),
           NEW w, NEW v, GrowsAt(w, v, Len(s) - 1), NEW G, Plan(w, G, s),
           NEW f, f = s[Len(s)], Continues(f, x), x.phase # "enter", Halfway(v, G, x)
    PROVE  Plan(v, G, t)
<1>1. PICK m \in Nat : m = Len(s) /\ m >= 1
  OBVIOUS
<1>2. Len(t) = m /\ t[m] = x /\ \A d \in 1 .. m - 1 : t[d] = s[d]
  BY <1>1 DEF Replaced
<1>3. CallsOK(w, G, s) /\ PairsOK(w, G, s) /\ v.strs = w.strs
  BY DEF Plan, GrowsAt, Grows
<1>4. /\ x.path = f.path /\ x.begin = f.begin /\ x.end = f.end /\ x.offset = f.offset
      /\ x.layer = f.layer
  BY DEF Continues
<1>5. Linked(t)
  BY <1>3, LinkedReplaced DEF CallsOK
<1>6. ASSUME NEW d \in 1 .. m
      PROVE  Placed(t[d], d, Len(v.strs)) /\ Halfway(v, G, t[d])
  <2>1. CASE d = m
    <3>1. Placed(f, m, Len(v.strs))
      BY <1>1, <1>3 DEF CallsOK
    <3>2. Placed(x, m, Len(v.strs))
      BY <1>4, <3>1 DEF Placed
    <3>3. QED
      BY <1>2, <2>1, <3>2
  <2>2. CASE d # m
    <3>1. d \in 1 .. m - 1 /\ d \in 1 .. Len(s)
      BY <1>1, <2>2
    <3>2. Placed(s[d], d, Len(v.strs))
      BY <1>3, <3>1 DEF CallsOK
    <3>3. Halfway(v, G, s[d])
      BY <1>1, <1>3, <3>1, CallersStay
    <3>4. QED
      BY <1>2, <3>1, <3>2, <3>3
  <2>3. QED
    BY <2>1, <2>2
<1>7. ASSUME NEW d \in 1 .. m - 1
      PROVE  t[d].phase # "enter" /\ t[d].currentBucketBegin = t[d + 1].end
  <2>1. s[d].phase # "enter" /\ s[d].currentBucketBegin = s[d + 1].end
    BY <1>1, <1>3 DEF CallsOK
  <2>2. t[d] = s[d]
    BY <1>2
  <2>3. t[d + 1].end = s[d + 1].end
    <3>1. CASE d + 1 = m
      BY <1>1, <1>2, <1>4, <3>1
    <3>2. CASE d + 1 # m
      <4>1. d + 1 \in 1 .. m - 1
        BY <3>2
      <4>2. QED
        BY <1>2, <4>1
    <3>3. QED
      BY <3>1, <3>2
  <2>4. QED
    BY <2>1, <2>2, <2>3
<1>8. CallsOK(v, G, t)
  BY <1>2, <1>5, <1>6, <1>7 DEF CallsOK
<1>9. ASSUME NEW p, NEW j, Pending(s, p, j)
      PROVE  Pending(t, p, j)
  <2>1. PICK d \in 1 .. m : s[d].path = p /\ j \in s[d].begin + 1 .. s[d].end
    BY <1>1, <1>9 DEF Pending
  <2>2. t[d].path = s[d].path /\ t[d].begin = s[d].begin /\ t[d].end = s[d].end
    <3>1. CASE d = m
      BY <1>1, <1>2, <1>4, <3>1
    <3>2. CASE d # m
      BY <1>2, <3>2
    <3>3. QED
      BY <3>1, <3>2
  <2>3. QED
    BY <1>2, <2>1, <2>2 DEF Pending
<1>10. PairsOK(v, G, t)
  BY <1>3, <1>9, PairsStay DEF PairsOK
<1>11. QED
  BY <1>8, <1>10 DEF Plan

\* the pairs of a call
PairsOf(y) == {<<y.path, j>> : j \in y.begin + 1 .. y.end}

\* the running call calls another one
LEMMA PlanCalled ==
    ASSUME NEW s, NEW t, NEW x, NEW y, Len(s) \in Nat, Len(s) >= 1, Called(s, t, x, y),
           NEW w, NEW v, GrowsAt(w, v, Len(s) - 1), NEW G, Plan(w, G, s),
           NEW f, f = s[Len(s)], Continues(f, x), x.phase # "enter", NextChild(f, x, y),
           Placed(y, Len(s) + 1, Len(v.strs)), x.currentBucketBegin = y.end,
           NEW H, H = G \cup PairsOf(y), Halfway(v, H, x)
    PROVE  Plan(v, H, t)
<1>1. PICK m \in Nat : m = Len(s) /\ m >= 1
  OBVIOUS
<1>2. Len(t) = m + 1 /\ t[m] = x /\ t[m + 1] = y /\ \A d \in 1 .. m - 1 : t[d] = s[d]
  BY <1>1 DEF Called
<1>3. CallsOK(w, G, s) /\ PairsOK(w, G, s) /\ v.strs = w.strs /\ G \subseteq H
  BY DEF Plan, GrowsAt, Grows
<1>4. /\ x.path = f.path /\ x.begin = f.begin /\ x.end = f.end /\ x.offset = f.offset
      /\ x.layer = f.layer /\ y.phase = "enter"
  BY DEF Continues, NextChild
<1>5. Linked(t)
  BY <1>3, LinkedCalled DEF CallsOK
<1>6. ASSUME NEW d \in 1 .. m
      PROVE  Placed(t[d], d, Len(v.strs)) /\ Halfway(v, H, t[d])
  <2>1. CASE d = m
    <3>1. Placed(f, m, Len(v.strs))
      BY <1>1, <1>3 DEF CallsOK
    <3>2. Placed(x, m, Len(v.strs))
      BY <1>4, <3>1 DEF Placed
    <3>3. QED
      BY <1>2, <2>1, <3>2
  <2>2. CASE d # m
    <3>1. d \in 1 .. m - 1 /\ d \in 1 .. Len(s)
      BY <1>1, <2>2
    <3>2. Placed(s[d], d, Len(v.strs))
      BY <1>3, <3>1 DEF CallsOK
    <3>3. Halfway(v, H, s[d])
      BY <1>1, <1>3, <3>1, CallersStay
    <3>4. QED
      BY <1>2, <3>1, <3>2, <3>3
  <2>3. QED
    BY <2>1, <2>2
<1>7. ASSUME NEW d \in 1 .. m
      PROVE  t[d].phase # "enter" /\ t[d].currentBucketBegin = t[d + 1].end
  <2>1. CASE d = m
    BY <1>2, <2>1
  <2>2. CASE d # m
    <3>1. d \in 1 .. m - 1 /\ d \in 1 .. Len(s) - 1
      BY <1>1, <2>2
    <3>2. s[d].phase # "enter" /\ s[d].currentBucketBegin = s[d + 1].end
      BY <1>3, <3>1 DEF CallsOK
    <3>3. t[d] = s[d]
      BY <1>2, <3>1
    <3>4. t[d + 1].end = s[d + 1].end
      <4>1. CASE d + 1 = m
        BY <1>1, <1>2, <1>4, <4>1
      <4>2. CASE d + 1 # m
        <5>1. d + 1 \in 1 .. m - 1
          BY <3>1, <4>2
        <5>2. QED
          BY <1>2, <5>1
      <4>3. QED
        BY <4>1, <4>2
    <3>5. QED
      BY <3>2, <3>3, <3>4
  <2>3. QED
    BY <2>1, <2>2
<1>8. CallsOK(v, H, t)
  <2>1. \A d \in 1 .. m + 1 : d = m + 1 \/ d \in 1 .. m
    OBVIOUS
  <2>2. \A d \in 1 .. Len(t) : Placed(t[d], d, Len(v.strs))
    BY <1>1, <1>2, <1>6, <2>1
  <2>3. \A d \in 1 .. Len(t) : t[d].phase # "enter" => Halfway(v, H, t[d])
    BY <1>2, <1>4, <1>6, <2>1
  <2>4. Len(t) - 1 = m
    BY <1>2
  <2>5. QED
    BY <1>5, <1>7, <2>2, <2>3, <2>4 DEF CallsOK
<1>9. ASSUME NEW p, NEW j, Pending(s, p, j)
      PROVE  Pending(t, p, j)
  <2>1. PICK d \in 1 .. m : s[d].path = p /\ j \in s[d].begin + 1 .. s[d].end
    BY <1>1, <1>9 DEF Pending
  <2>2. t[d].path = s[d].path /\ t[d].begin = s[d].begin /\ t[d].end = s[d].end
    <3>1. CASE d = m
      BY <1>1, <1>2, <1>4, <3>1
    <3>2. CASE d # m
      BY <1>2, <3>2
    <3>3. QED
      BY <3>1, <3>2
  <2>3. d \in 1 .. Len(t)
    BY <1>2
  <2>4. QED
    BY <2>1, <2>2, <2>3 DEF Pending
<1>10. ASSUME NEW z \in H
       PROVE  \E p, j : z = <<p, j>> /\ (Pending(t, p, j) \/ Served(v, H, p, j))
  <2>1. CASE z \in G
    <3>1. PICK p, j : z = <<p, j>> /\ (Pending(s, p, j) \/ Served(v, H, p, j))
      BY <1>3, <2>1, PairsStay
    <3>2. QED
      BY <1>9, <3>1
  <2>2. CASE z \in PairsOf(y)
    <3>1. PICK j \in y.begin + 1 .. y.end : z = <<y.path, j>>
      BY <2>2 DEF PairsOf
    <3>2. m + 1 \in 1 .. Len(t) /\ t[m + 1] = y
      BY <1>1, <1>2
    <3>3. Pending(t, y.path, j)
      BY <3>2 DEF Pending
    <3>4. QED
      BY <3>1, <3>3
  <2>3. QED
    BY <2>1, <2>2
<1>11. PairsOK(v, H, t)
  BY <1>10 DEF PairsOK
<1>12. QED
  BY <1>8, <1>11 DEF Plan

\* the call f closes its node: a last offset, and the node is in the tree
Closes(w, v, f) ==
    /\ v.offsets[f.layer] = Append(w.offsets[f.layer], f.end)
    /\ NodeOf(f) \in v.nodes

\* the running call returns, when its node serves all its strings
LEMMA PlanReturned ==
    ASSUME NEW s, NEW t, Len(s) \in Nat, Len(s) >= 1, Returned(s, t),
           NEW w, NEW v, GrowsAt(w, v, Len(s) - 1), NEW G, Plan(w, G, s),
           NEW f, f = s[Len(s)], f.phase # "enter", f.currentBucketBegin = f.end,
           Closes(w, v, f)
    PROVE  Plan(v, G, t)
<1>1. PICK m \in Nat : m = Len(s) /\ m >= 1
  OBVIOUS
<1>2. Len(t) = m - 1 /\ \A d \in 1 .. m - 1 : t[d] = s[d]
  BY <1>1 DEF Returned
<1>3. CallsOK(w, G, s) /\ PairsOK(w, G, s) /\ v.strs = w.strs
  BY DEF Plan, GrowsAt, Grows
<1>4. Linked(t)
  BY <1>3, LinkedReturned DEF CallsOK
<1>5. ASSUME NEW d \in 1 .. m - 1
      PROVE  Placed(t[d], d, Len(v.strs)) /\ Halfway(v, G, t[d])
  <2>1. d \in 1 .. Len(s) /\ d \in 1 .. Len(s) - 1
    BY <1>1
  <2>2. Placed(s[d], d, Len(v.strs))
    BY <1>3, <2>1 DEF CallsOK
  <2>3. Halfway(v, G, s[d])
    BY <1>3, <2>1, CallersStay
  <2>4. QED
    BY <1>2, <2>2, <2>3
<1>6. ASSUME NEW d \in 1 .. (m - 1) - 1
      PROVE  t[d].phase # "enter" /\ t[d].currentBucketBegin = t[d + 1].end
  <2>1. d \in 1 .. Len(s) - 1 /\ d \in 1 .. m - 1 /\ d + 1 \in 1 .. m - 1
    BY <1>1
  <2>2. s[d].phase # "enter" /\ s[d].currentBucketBegin = s[d + 1].end
    BY <1>3, <2>1 DEF CallsOK
  <2>3. QED
    BY <1>2, <2>1, <2>2
<1>7. CallsOK(v, G, t)
  BY <1>2, <1>4, <1>5, <1>6 DEF CallsOK
<1>8. m \in 1 .. Len(s) /\ f = s[m]
  BY <1>1
<1>9. Halfway(w, G, f) /\ Placed(f, m, Len(w.strs))
  BY <1>3, <1>8 DEF CallsOK
<1>10. f.path \in Seq(Nat) /\ Len(f.path) = f.layer
  <2>1. f.path \in Seq(Nat) /\ Len(f.path) = m - 1
    BY <1>3, <1>8 DEF CallsOK, Linked
  <2>2. QED
    BY <1>9, <2>1 DEF Placed
<1>11. PICK l : l = f.layer /\ l \in 0 .. Len(w.strs) - 1
  <2>1. Len(w.strs) \in Nat
    BY DEF GrowsAt, LayersOK
  <2>2. QED
    BY <1>1, <1>9, <2>1 DEF Placed
<1>12. ASSUME NEW j \in f.begin + 1 .. f.end
       PROVE  Served(v, G, f.path, j)
  <2>1. PICK later : later = Append(w.offsets[l], f.end)
    OBVIOUS
  <2>2. Serves(w, G, NodeOf(f), later, j)
    BY <1>9, <1>11, <2>1 DEF Halfway
  <2>3. v.offsets[l] = later /\ Longer(later, later) /\ Len(later) \in Nat
    <3>1. v.offsets[l] = later
      BY <1>11, <2>1 DEF Closes
    <3>2. v.offsets[l] \in Seq(Nat)
      BY <1>3, <1>11 DEF GrowsAt, LayersOK
    <3>3. PICK list : list = later /\ list \in Seq(Nat)
      BY <3>1, <3>2
    <3>4. Longer(list, list) /\ Len(list) \in Nat
      BY <3>3 DEF Longer
    <3>5. QED
      BY <3>1, <3>3, <3>4
  <2>4. PICK node : node = NodeOf(f)
    OBVIOUS
  <2>5. Serves(v, G, node, later, j)
    BY <2>2, <2>3, <2>4, ServesGrow DEF GrowsAt
  <2>6. node.path = f.path
    BY <2>4 DEF NodeOf
  <2>7. node \in v.nodes /\ Serves(v, G, node, v.offsets[Len(f.path)], j)
    BY <1>10, <1>11, <2>3, <2>4, <2>5 DEF Closes
  <2>8. Len(f.path) \in 0 .. Len(v.strs) - 1
    BY <1>3, <1>10, <1>11
  <2>9. QED
    BY <1>10, <2>6, <2>7, <2>8 DEF Served
<1>13. ASSUME NEW p, NEW j, Pending(s, p, j)
       PROVE  Pending(t, p, j) \/ Served(v, G, p, j)
  <2>1. PICK d \in 1 .. m : s[d].path = p /\ j \in s[d].begin + 1 .. s[d].end
    BY <1>1, <1>13 DEF Pending
  <2>2. CASE d = m
    BY <1>8, <1>12, <2>1, <2>2
  <2>3. CASE d # m
    <3>1. d \in 1 .. m - 1
      BY <2>3
    <3>2. d \in 1 .. Len(t) /\ t[d] = s[d]
      BY <1>2, <3>1
    <3>3. Pending(t, p, j)
      BY <2>1, <3>2 DEF Pending
    <3>4. QED
      BY <3>3
  <2>4. QED
    BY <2>2, <2>3
<1>14. PairsOK(v, G, t)
  BY <1>3, <1>13, PairsStay DEF PairsOK
<1>15. QED
  BY <1>7, <1>14 DEF Plan

-----------------------------------------------------------------------------
(* The invariant of the ranks. *)

Rooted(w, G) == \A j \in 1 .. Len(w.strs) : <<Root, j>> \in G

\* a query is at a pair
AskedFor(q, strs, G) ==
    \E p, j : /\ j \in 1 .. Len(strs) /\ <<p, j>> \in G
              /\ q = [string |-> strs[j], path |-> p, layer |-> Len(p)]

Planned(w, G, st, q) ==
    Rooted(w, G) /\ Plan(w, G, st) /\ (q # NoQuery => AskedFor(q, w.strs, G))

RanksInv ==
    /\ TreeInv
    /\ bucketOffsets \in [0 .. Len(strings) - 1 -> Seq(Nat)]
    /\ NodesOK(World, stack) /\ KeysOK(World, stack)
    /\ pc = "lcps" => treeNodes = {} /\ inputs = {}
    /\ pc # "lcps" => \E G : Planned(World, G, stack, asked)
    /\ pc # "ready" => entries = {} /\ asked = NoQuery
    /\ pc = "ready" => inputs = {} /\ stack = <<>>

\* the running call goes on: what it has handed over stays so
LEMMA FrontReplaced ==
    ASSUME NEW s, NEW t, NEW x, Len(s) \in Nat, Len(s) >= 1, Linked(s), Replaced(s, t, x),
           NEW f, f = s[Len(s)], Continues(f, x), RanksStay(f, x),
           FrontOf(f) \in Nat, FrontOf(x) \in Nat, FrontOf(f) <= FrontOf(x)
    PROVE  FrontMoves(s, t)
<1>1. Front(s) = FrontOf(f) /\ Front(t) = FrontOf(x)
  BY DEF Front, Replaced
<1>2. \A p : IsLeft(p, s) => IsLeft(p, t)
  BY LinkedReplaced
<1>3. ASSUME NEW p, NEW c, RunningKey(s, p, c)
      PROVE  RunningKey(t, p, c)
  <2>1. Len(t) = Len(s) /\ t[Len(s)] = x /\ \A d \in 1 .. Len(s) - 1 : t[d] = s[d]
    BY DEF Replaced
  <2>2. Len(t) \in Nat /\ Len(t) >= Len(s)
    BY <2>1
  <2>3. QED
    BY <1>3, <2>1, <2>2, RunningStays
<1>4. QED
  BY <1>1, <1>2, <1>3 DEF FrontMoves

\* the running call calls another one
LEMMA FrontCalled ==
    ASSUME NEW s, NEW t, NEW x, NEW y, Len(s) \in Nat, Len(s) >= 1, Linked(s),
           Called(s, t, x, y),
           NEW f, f = s[Len(s)], Continues(f, x), RanksStay(f, x), NextChild(f, x, y),
           FrontOf(f) \in Nat, y.begin = FrontOf(f)
    PROVE  FrontMoves(s, t)
<1>1. PICK m \in Nat : m = Len(s) /\ m >= 1
  OBVIOUS
<1>2. Len(t) = m + 1 /\ t[m] = x /\ t[m + 1] = y /\ \A d \in 1 .. m - 1 : t[d] = s[d]
  BY <1>1 DEF Called
<1>3. Front(s) = FrontOf(f) /\ Front(t) = FrontOf(f)
  BY <1>1, <1>2 DEF Front, NextChild, FrontOf
<1>4. \A p : IsLeft(p, s) => IsLeft(p, t)
  BY LinkedCalled
<1>5. ASSUME NEW p, NEW c, RunningKey(s, p, c)
      PROVE  RunningKey(t, p, c)
  <2>1. Len(t) \in Nat /\ Len(t) >= Len(s) /\ t[Len(s)] = x
        /\ \A d \in 1 .. Len(s) - 1 : t[d] = s[d]
    BY <1>1, <1>2
  <2>2. QED
    BY <1>5, <2>1, RunningStays
<1>6. QED
  BY <1>3, <1>4, <1>5 DEF FrontMoves

\* keys stay when no entry is added
LEMMA KeysStay ==
    ASSUME NEW w, NEW v, v.strs = w.strs, v.pool = w.pool,
           NEW s, NEW t, Len(s) >= 1, KeysOK(w, s), FrontMoves(s, t)
    PROVE  KeysOK(v, t)
  BY KeyedStays DEF KeysOK

\* the running call returns
LEMMA FrontReturned ==
    ASSUME NEW s, NEW t, Len(s) \in Nat, Len(s) >= 1, Linked(s), Returned(s, t), Len(t) >= 1,
           NEW f, f = s[Len(s)], f.phase # "enter", f.currentBucketBegin \in Nat,
           f.currentBucketBegin = f.end,
           \A d \in 1 .. Len(s) - 1 :
              s[d].phase # "enter" /\ s[d].currentBucketBegin = s[d + 1].end
    PROVE  FrontMoves(s, t)
<1>1. PICK m \in Nat : m = Len(s) /\ m >= 1
  OBVIOUS
<1>2. Len(t) = m - 1 /\ \A d \in 1 .. m - 1 : t[d] = s[d]
  BY <1>1 DEF Returned
<1>3. m - 1 \in 1 .. m - 1 /\ m - 1 \in 1 .. Len(s) - 1 /\ (m - 1) + 1 = m
  BY <1>1, <1>2
<1>4. /\ t[m - 1] = s[m - 1] /\ s[m - 1].phase # "enter"
      /\ s[m - 1].currentBucketBegin = s[(m - 1) + 1].end
  BY <1>2, <1>3
<1>5. t[Len(t)].phase # "enter" /\ t[Len(t)].currentBucketBegin = f.end
  BY <1>1, <1>2, <1>3, <1>4
<1>6. Front(s) = f.end /\ Front(t) = f.end
  BY <1>5 DEF Front, FrontOf
<1>7. \A p : IsLeft(p, s) => IsLeft(p, t)
  BY LinkedReturned
<1>8. \A p, c : RunningKey(s, p, c) => RunningKey(t, p, c) \/ IsLeft(p, t)
  BY RunningReturned
<1>9. QED
  BY <1>6, <1>7, <1>8 DEF FrontMoves

\* e is appended to the offsets of a layer
Appends(offs, l, e, later) == later = [offs EXCEPT ![l] = Append(@, e)]

\* the offsets of the other layers stay
LEMMA OffsetsAppended ==
    ASSUME NEW n \in Nat, NEW offs \in [0 .. n - 1 -> Seq(Nat)], NEW l \in 0 .. n - 1,
           NEW e \in Nat, NEW later, Appends(offs, l, e, later)
    PROVE  /\ later \in [0 .. n - 1 -> Seq(Nat)] /\ later[l] = Append(offs[l], e)
           /\ \A k \in 0 .. n - 1 : k # l => later[k] = offs[k]
           /\ \A k \in 0 .. n - 1 : Longer(offs[k], later[k])
<1>1. PICK at \in Seq(Nat) : at = offs[l]
  OBVIOUS
<1>2. PICK new : new = Append(at, e)
  OBVIOUS
<1>3. new \in Seq(Nat) /\ Longer(at, new)
  BY <1>2 DEF Longer
<1>4. later = [offs EXCEPT ![l] = new]
  BY <1>1, <1>2 DEF Appends
<1>5. later[l] = new /\ \A k \in 0 .. n - 1 : k # l => later[k] = offs[k]
  BY <1>4
<1>6. later \in [0 .. n - 1 -> Seq(Nat)]
  BY <1>3, <1>4
<1>7. ASSUME NEW k \in 0 .. n - 1 PROVE Longer(offs[k], later[k])
  <2>1. CASE k = l
    BY <1>1, <1>3, <1>5, <2>1
  <2>2. CASE k # l
    <3>1. later[k] = offs[k] /\ Len(offs[k]) \in Nat
      BY <1>5, <2>2
    <3>2. QED
      BY <3>1 DEF Longer
  <2>3. QED
    BY <2>1, <2>2
<1>8. QED
  BY <1>1, <1>2, <1>5, <1>6, <1>7

\* the world of a reachable state
LEMMA WorldOK ==
    ASSUME RanksInv
    PROVE  /\ LayersOK(World) /\ Sorted(World.strs) /\ AlphabetsOK(World.maps)
           /\ World.strs = strings /\ World.offsets = bucketOffsets /\ World.nodes = treeNodes
           /\ World.maps = alphabetMaps /\ World.ix = indexed
           /\ World.pool = inputs \cup entries
           /\ Len(strings) \in Nat /\ Len(strings) >= 2 /\ Len(strings) <= WideCapacity
<1>1. /\ World.strs = strings /\ World.offsets = bucketOffsets /\ World.nodes = treeNodes
      /\ World.maps = alphabetMaps /\ World.ix = indexed
      /\ World.pool = inputs \cup entries
  BY DEF World
<1>2. Sorted(strings) /\ AlphabetsOK(alphabetMaps)
  BY InputsSorted DEF RanksInv, TreeInv
<1>3. Len(strings) \in Nat /\ Len(strings) >= 2 /\ Len(strings) <= WideCapacity
  BY <1>2, WideCapacityAssumption DEF Sorted
<1>4. LayersOK(World)
  BY <1>1, <1>3 DEF LayersOK, RanksInv
<1>5. QED
  BY <1>1, <1>2, <1>3, <1>4

\* a step of the running call lets the tree grow
LEMMA WorldGrows ==
    ASSUME RanksInv, TreeInv', UNCHANGED <<strings, indexed>>,
           Grown(alphabetMaps, alphabetMaps'),
           (bucketOffsets \in [0 .. Len(strings) - 1 -> Seq(Nat)])', NEW layer,
           \A l \in 0 .. Len(strings) - 1 :
              /\ Longer(bucketOffsets[l], bucketOffsets'[l])
              /\ l # layer => bucketOffsets'[l] = bucketOffsets[l],
           treeNodes \subseteq treeNodes', inputs \cup entries \subseteq inputs' \cup entries'
    PROVE  /\ GrowsAt(World, World', layer)
           /\ World'.strs = strings /\ World'.offsets = bucketOffsets'
           /\ World'.nodes = treeNodes' /\ World'.maps = alphabetMaps'
           /\ World'.ix = indexed /\ World'.pool = inputs' \cup entries'
<1>1. /\ World'.strs = strings /\ World'.offsets = bucketOffsets'
      /\ World'.nodes = treeNodes' /\ World'.maps = alphabetMaps'
      /\ World'.ix = indexed /\ World'.pool = inputs' \cup entries'
  BY DEF World
<1>2. AlphabetsOK(alphabetMaps')
  BY DEF TreeInv
<1>3. LayersOK(World')
  BY <1>1, WorldOK DEF LayersOK
<1>4. Grows(World, World')
  BY <1>1, <1>2, WorldOK DEF Grows
<1>5. OtherLayers(World, World', layer)
  BY <1>1, WorldOK DEF OtherLayers
<1>6. QED
  BY <1>1, <1>3, <1>4, <1>5, WorldOK DEF GrowsAt

\* the invariant behind a step of a running call
LEMMA RunningKept ==
    ASSUME RanksInv, TreeInv', pc = "nodes", UNCHANGED <<pc, entries, asked>>,
           (bucketOffsets \in [0 .. Len(strings) - 1 -> Seq(Nat)])',
           NodesOK(World', stack'), KeysOK(World', stack'),
           NEW G, Rooted(World', G), Plan(World', G, stack')
    PROVE  RanksInv'
<1>1. Planned(World', G, stack', asked')
  BY DEF Planned, RanksInv
<1>2. QED
  BY <1>1 DEF RanksInv

\* the root is called
LEMMA ComputeLCPsRanks ==
    ASSUME RanksInv, TreeInv', ComputeLCPs, UNCHANGED indexed
    PROVE  RanksInv'
<1>1. /\ pc = "lcps" /\ pc' = "nodes" /\ stack' = <<Call(0, N, 0, 0, Root, 0, 0)>>
      /\ UNCHANGED <<strings, alphabetMaps, bucketOffsets, treeNodes, inputs, entries, asked>>
  BY DEF ComputeLCPs
<1>2. treeNodes = {} /\ inputs = {} /\ entries = {} /\ asked = NoQuery
  BY <1>1 DEF RanksInv
<1>3. PICK y : y = Call(0, N, 0, 0, Root, 0, 0)
  OBVIOUS
<1>4. y.phase = "enter" /\ y.begin = 0 /\ y.end = N /\ y.offset = 0 /\ y.path = Root /\ y.layer = 0
  BY <1>3 DEF Call
<1>5. PICK t : t = stack'
  OBVIOUS
<1>6. Len(t) = 1 /\ t[1] = y
  BY <1>1, <1>3, <1>5
<1>7. PICK v : v = World'
  OBVIOUS
<1>8. v.strs = strings /\ v.nodes = {} /\ v.pool = {} /\ N = Len(v.strs) /\ N \in Nat /\ N >= 2
  BY <1>1, <1>2, <1>7, WorldOK DEF World, N
<1>9. NodesOK(v, t)
  BY <1>8, FS_EmptySet DEF NodesOK
<1>10. KeysOK(v, t)
  BY <1>8 DEF KeysOK
<1>11. Linked(t)
  <2>1. Root \in Seq(Nat) /\ Len(Root) = 0
    BY DEF Root
  <2>2. BuiltBy(y) = 0
    BY <1>4 DEF BuiltBy
  <2>3. ASSUME NEW d \in 1 .. Len(t)
        PROVE  /\ t[d].path \in Seq(Nat) /\ Len(t[d].path) = d - 1 /\ BuiltBy(t[d]) \in Nat
               /\ \A i \in 1 .. d - 1 : FALSE
    <3>1. d = 1 /\ d - 1 = 0 /\ t[d] = y
      BY <1>6
    <3>2. t[d].path = Root
      BY <1>4, <3>1
    <3>3. Len(t[d].path) = d - 1 /\ t[d].path \in Seq(Nat)
      BY <2>1, <3>1, <3>2
    <3>4. BuiltBy(t[d]) \in Nat
      BY <2>2, <3>1
    <3>5. QED
      BY <3>1, <3>3, <3>4
  <2>4. QED
    BY <2>3 DEF Linked
<1>12. Placed(y, 1, N)
  BY <1>4, <1>8 DEF Placed
<1> DEFINE G == {<<Root, j>> : j \in 1 .. N}
<1>13. CallsOK(v, G, t)
  BY <1>4, <1>6, <1>8, <1>11, <1>12 DEF CallsOK
<1>14. \A j \in 1 .. N : Pending(t, Root, j)
  <2>1. 0 + 1 = 1 /\ 1 \in 1 .. Len(t)
    BY <1>6
  <2>2. QED
    BY <1>4, <1>6, <2>1 DEF Pending
<1>15. PairsOK(v, G, t)
  BY <1>14 DEF PairsOK
<1>16. Rooted(v, G)
  BY <1>8 DEF Rooted
<1>17. Planned(v, G, t, asked')
  BY <1>1, <1>2, <1>13, <1>15, <1>16 DEF Planned, Plan
<1>18. \E H : Planned(World', H, stack', asked')
  BY <1>5, <1>7, <1>17
<1>19. NodesOK(World', stack') /\ KeysOK(World', stack')
  BY <1>5, <1>7, <1>9, <1>10
<1>20. QED
  BY <1>1, <1>2, <1>18, <1>19 DEF RanksInv

-----------------------------------------------------------------------------
(* The steps of a running call. *)

\* the running call of a reachable state
LEMMA TopPlaced ==
    ASSUME RanksInv, NEW phase, Running(phase)
    PROVE  /\ IsStack(stack) /\ stack # <<>> /\ Len(stack) \in Nat /\ Len(stack) >= 1
           /\ Top = stack[Len(stack)] /\ Top.phase = phase /\ pc = "nodes" /\ Linked(stack)
           /\ \E G : /\ Rooted(World, G) /\ Plan(World, G, stack)
                     /\ Placed(Top, Len(stack), Len(strings))
                     /\ phase # "enter" => Halfway(World, G, Top)
<1>1. stack # <<>> /\ Top.phase = phase /\ pc = "nodes" /\ Top = stack[Len(stack)]
  BY DEF Running, Top
<1>2. IsStack(stack)
  BY DEF RanksInv, TreeInv, StackFacts
<1>3. Len(stack) \in Nat /\ Len(stack) >= 1
  BY <1>1, <1>2, StackReturns DEF IsStack
<1>4. PICK G : Planned(World, G, stack, asked)
  BY <1>1 DEF RanksInv
<1>5. Rooted(World, G) /\ Plan(World, G, stack)
  BY <1>4 DEF Planned
<1>6. Len(stack) \in 1 .. Len(stack)
  BY <1>3
<1>7. Linked(stack) /\ Placed(Top, Len(stack), Len(strings))
      /\ (phase # "enter" => Halfway(World, G, Top))
  BY <1>1, <1>5, <1>6, WorldOK DEF Plan, CallsOK
<1>8. QED
  BY <1>1, <1>2, <1>3, <1>5, <1>7

\* what EnterNode and EnterIndexedNode do
LEMMA SplitNodeRanks ==
    ASSUME RanksInv, MappersMonotone, TreeInv', Running("enter"), UNCHANGED indexed,
           NEW alphabet, NEW node, NEW known, NEW firsts, NEW chunks,
           EnterSplit(alphabet, node, known, firsts, chunks),
           SplitNode(alphabet, node, known, firsts, chunks)
    PROVE  RanksInv'
<1>1. PICK ph, mp : /\ EnteredBy(ph, mp, chunks)
                    /\ Replacing(stack, EnteredCall(Top, ph, mp, node, known, firsts, chunks),
                                 stack')
  BY SplitEnters
<1>2. /\ alphabetMaps' = alphabet.maps
      /\ UNCHANGED <<strings, pc, lcps, bucketOffsets, treeNodes, inputs, entries, asked>>
  BY SplitEnters
<1>3. PICK x : x = EnteredCall(Top, ph, mp, node, known, firsts, chunks)
  OBVIOUS
<1>4. TreeInv
  BY DEF RanksInv
<1>5. SplitFacts(x, indexed, strings, lcps, alphabet.maps)
  BY <1>1, <1>3, <1>4, EnterStack
<1>6. Grown(alphabetMaps, alphabetMaps')
  BY <1>2, <1>4, EnterAlphabet DEF EnterSplit
<1>7. PICK f : f = Top
  OBVIOUS
<1>8. PICK v : v = World'
  OBVIOUS
<1>9. PICK G : Rooted(World, G) /\ Plan(World, G, stack) /\ Placed(f, Len(stack), Len(strings))
  BY <1>7, TopPlaced
<1>10. f.layer = Len(stack) - 1 /\ f.begin \in Nat /\ f.end \in Nat /\ f.begin <= f.end
       /\ f.layer \in 0 .. Len(strings) - 1 /\ Len(stack) \in Nat /\ Len(stack) >= 1
       /\ f.phase = "enter" /\ IsStack(stack) /\ stack # <<>>
       /\ f = stack[Len(stack)] /\ Linked(stack) /\ pc = "nodes"
  BY <1>7, <1>9, TopPlaced, WorldOK DEF Placed
<1>11. /\ GrowsAt(World, v, f.layer) /\ v.strs = strings /\ v.offsets = bucketOffsets
       /\ v.nodes = treeNodes /\ v.maps = alphabet.maps /\ v.ix = indexed
       /\ v.pool = inputs \cup entries
  <2>1. bucketOffsets \in [0 .. Len(strings) - 1 -> Seq(Nat)]
    BY DEF RanksInv
  <2>2. \A l \in 0 .. Len(strings) - 1 : Longer(bucketOffsets[l], bucketOffsets'[l])
    BY <1>2, <2>1 DEF Longer
  <2>3. PICK layer : layer = f.layer
    OBVIOUS
  <2>4. /\ GrowsAt(World, World', layer)
        /\ World'.strs = strings /\ World'.offsets = bucketOffsets'
        /\ World'.nodes = treeNodes' /\ World'.maps = alphabetMaps'
        /\ World'.ix = indexed /\ World'.pool = inputs' \cup entries'
    BY <1>2, <1>6, <2>1, <2>2, WorldGrows
  <2>5. QED
    BY <1>2, <1>8, <2>3, <2>4
<1>12. /\ InLoop(x) /\ BuiltBy(x) = 0
       /\ x.begin = f.begin /\ x.end = f.end /\ x.offset = f.offset /\ x.path = f.path
       /\ x.layer = f.layer /\ x.node = node /\ x.phase = ph
       /\ x.currentBucketBegin = f.begin /\ x.bucketSizePrefixTemp = 0
  <2>1. x = EnteredCall(f, ph, mp, node, known, firsts, chunks)
    BY <1>3, <1>7
  <2>2. SplitFacts(x, v.ix, v.strs, lcps, v.maps)
    BY <1>5, <1>11
  <2>3. QED
    BY <1>1, <2>1, <2>2, EnteredLoop
<1>13. x.phase # "enter" /\ Continues(f, x) /\ RanksStay(f, x)
  <2>1. BuiltBy(f) = 0
    BY <1>10 DEF BuiltBy
  <2>2. x.phase # "enter"
    BY <1>1, <1>12 DEF EnteredBy
  <2>3. QED
    BY <1>10, <1>12, <2>1, <2>2 DEF Continues, RanksStay
<1>14. Halfway(v, G, x)
  <2>1. node.offsetsOffset = Len(bucketOffsets[f.layer])
    BY <1>7 DEF EnterSplit
  <2>2. bucketOffsets[f.layer] \in Seq(Nat)
    BY <1>10 DEF RanksInv
  <2>3. PICK o \in Nat : o = Len(bucketOffsets[f.layer])
    BY <2>2
  <2>4. x.node.offsetsOffset = o /\ Len(v.offsets[x.layer]) = o
    BY <1>11, <1>12, <2>1, <2>3
  <2>5. Len(v.offsets[x.layer]) = x.node.offsetsOffset + BuiltBy(x)
    BY <1>12, <2>3, <2>4
  <2>6. x.bucketSizePrefixTemp = x.currentBucketBegin - x.begin
    BY <1>10, <1>12
  <2>7. \A j \in x.begin + 1 .. x.currentBucketBegin : FALSE
    BY <1>10, <1>12
  <2>8. QED
    BY <1>10, <1>12, <2>3, <2>4, <2>5, <2>6, <2>7 DEF Halfway
<1>15. PICK t : t = stack' /\ Replaced(stack, t, x)
  BY <1>1, <1>3, <1>10, StackReplaces
<1>16. Plan(v, G, t)
  BY <1>9, <1>10, <1>11, <1>13, <1>14, <1>15, PlanReplaced
<1>17. Rooted(v, G)
  BY <1>9, <1>11, WorldOK DEF Rooted
<1>18. FrontMoves(stack, t)
  <2>1. FrontOf(f) = f.begin /\ FrontOf(x) = f.begin
    BY <1>10, <1>12, <1>13 DEF FrontOf
  <2>2. FrontOf(f) \in Nat /\ FrontOf(x) \in Nat /\ FrontOf(f) <= FrontOf(x)
    BY <1>10, <2>1
  <2>3. QED
    BY <1>10, <1>13, <1>15, <2>2, FrontReplaced
<1>19. NodesOK(v, t)
  <2>1. v.nodes = World.nodes /\ NodesOK(World, stack)
    BY <1>11, WorldOK DEF RanksInv
  <2>2. \A p : IsLeft(p, stack) => IsLeft(p, t)
    BY <1>18 DEF FrontMoves
  <2>3. QED
    BY <1>10, <2>1, <2>2, NodesStay
<1>20. KeysOK(v, t)
  <2>1. v.pool = World.pool /\ v.strs = World.strs /\ KeysOK(World, stack)
    BY <1>11, WorldOK DEF RanksInv
  <2>2. QED
    BY <1>10, <1>18, <2>1, KeysStay
<1>21. NodesOK(World', stack') /\ KeysOK(World', stack') /\ Rooted(World', G)
       /\ Plan(World', G, stack')
  BY <1>8, <1>15, <1>16, <1>17, <1>19, <1>20
<1>22. (bucketOffsets \in [0 .. Len(strings) - 1 -> Seq(Nat)])'
  BY <1>2 DEF RanksInv
<1>23. QED
  BY <1>2, <1>10, <1>21, <1>22, RunningKept

\* the running call looks at the next chunk
LEMMA HalfwayMoves ==
    ASSUME NEW w, NEW G, NEW f, Halfway(w, G, f), NEW x, NEW ph, NEW nx, NEW pb,
           MovesTo(f, x, ph, nx, pb, f.currentBucketBegin, f.bucketSizePrefixTemp),
           InLoop(x), BuiltBy(x) = BuiltBy(f)
    PROVE  Halfway(w, G, x)
<1>1. /\ x.begin = f.begin /\ x.end = f.end /\ x.layer = f.layer /\ x.node = f.node
      /\ x.currentBucketBegin = f.currentBucketBegin
      /\ x.bucketSizePrefixTemp = f.bucketSizePrefixTemp
      /\ x.path = f.path /\ x.mapper = f.mapper /\ x.chunks = f.chunks
  BY DEF MovesTo
<1>2. NodeOf(x) = NodeOf(f)
  BY <1>1 DEF NodeOf
<1>3. QED
  BY <1>1, <1>2 DEF Halfway

\* a call that has gone on
LEMMA MovesOf ==
    ASSUME NEW f, NEW ph, NEW nx, NEW pb, NEW cb, NEW tmp,
           NEW x, x = Moved(f, ph, nx, pb, cb, tmp)
    PROVE  MovesTo(f, x, ph, nx, pb, cb, tmp)
  BY MovedFields DEF MovesTo

\* NextChunk
LEMMA NextChunkRanks ==
    ASSUME RanksInv, TreeInv', NextChunk, UNCHANGED indexed
    PROVE  RanksInv'
<1>1. /\ Running("buckets") /\ MoreChunks /\ Top.prevBucket >= NextBucket
      /\ Advance([Top EXCEPT !.next = @ + 1])
  BY DEF NextChunk
<1>2. PICK x : x = [Top EXCEPT !.next = @ + 1]
  OBVIOUS
<1>3. /\ Replacing(stack, x, stack')
      /\ UNCHANGED <<strings, pc, lcps, alphabetMaps, bucketOffsets, treeNodes, inputs,
                     entries, asked>>
  BY <1>1, <1>2 DEF Advance, Replacing, Callers
<1>4. PICK f : f = Top
  OBVIOUS
<1>5. PICK w : w = World
  OBVIOUS
<1>6. /\ World' = w /\ w.strs = strings /\ w.ix = indexed /\ w.maps = alphabetMaps
      /\ LayersOK(w) /\ AlphabetsOK(w.maps)
  BY <1>3, <1>5, WorldOK DEF World
<1>7. SplitFacts(f, w.ix, w.strs, lcps, w.maps) /\ IsFrame(f) /\ f.phase = "buckets"
  BY <1>1, <1>4, <1>6, TopSplit DEF RanksInv
<1>8. PICK G : /\ Rooted(w, G) /\ Plan(w, G, stack) /\ Placed(f, Len(stack), Len(strings))
               /\ Halfway(w, G, f)
  BY <1>1, <1>4, <1>5, TopPlaced
<1>9. /\ IsStack(stack) /\ stack # <<>> /\ Len(stack) \in Nat /\ Len(stack) >= 1
      /\ f = stack[Len(stack)] /\ Linked(stack) /\ pc = "nodes"
  BY <1>1, <1>4, TopPlaced
<1>10. x = Moved(f, f.phase, f.next + 1, f.prevBucket, f.currentBucketBegin,
                 f.bucketSizePrefixTemp)
  BY <1>2, <1>4, <1>7, ChunkMoved DEF ChunkMoves
<1>11. PICK nx : nx = f.next + 1
  OBVIOUS
<1>12. MovesTo(f, x, "buckets", nx, f.prevBucket, f.currentBucketBegin,
               f.bucketSizePrefixTemp)
  BY <1>7, <1>10, <1>11, MovesOf
<1>13. InLoop(x) /\ BuiltBy(x) = BuiltBy(f)
  <2>1. PICK g : g = f.next
    OBVIOUS
  <2>2. g <= Len(f.chunks) /\ f.prevBucket >= f.mapper.bucketOf[f.chunks[g]]
    BY <1>1, <1>4, <2>1 DEF MoreChunks, NextBucket
  <2>3. InLoop(f)
    BY <1>8 DEF Halfway
  <2>4. MovesTo(f, x, "buckets", f.next + 1, f.prevBucket, f.currentBucketBegin,
                f.bucketSizePrefixTemp)
    BY <1>11, <1>12
  <2>5. QED
    BY <1>7, <2>1, <2>2, <2>3, <2>4, ChunkLoop
<1>14. Halfway(w, G, x)
  BY <1>8, <1>12, <1>13, HalfwayMoves
<1>15. x.phase # "enter" /\ Continues(f, x) /\ RanksStay(f, x)
       /\ x.currentBucketBegin = f.currentBucketBegin /\ f.currentBucketBegin \in Nat
  <2>1. BuiltBy(f) \in Nat
    BY <1>9 DEF Linked
  <2>2. f.currentBucketBegin \in Nat
    BY <1>8 DEF Halfway
  <2>3. QED
    BY <1>7, <1>12, <1>13, <2>1, <2>2 DEF Continues, RanksStay, MovesTo
<1>16. PICK t : t = stack' /\ Replaced(stack, t, x)
  BY <1>3, <1>9, StackReplaces
<1>17. GrowsAt(w, w, Len(stack) - 1)
  <2>1. Grown(w.maps, w.maps)
    BY <1>6 DEF AlphabetsOK, Grown, Longer
  <2>2. \A l \in 0 .. Len(w.strs) - 1 : Longer(w.offsets[l], w.offsets[l])
    BY <1>6 DEF LayersOK, Longer
  <2>3. QED
    BY <1>6, <2>1, <2>2 DEF GrowsAt, Grows, OtherLayers
<1>18. Plan(w, G, t)
  BY <1>8, <1>9, <1>14, <1>15, <1>16, <1>17, PlanReplaced
<1>19. FrontMoves(stack, t)
  <2>1. FrontOf(f) = f.currentBucketBegin /\ FrontOf(x) = f.currentBucketBegin
    BY <1>7, <1>15 DEF FrontOf
  <2>2. FrontOf(f) \in Nat /\ FrontOf(x) \in Nat /\ FrontOf(f) <= FrontOf(x)
    BY <1>15, <2>1
  <2>3. QED
    BY <1>9, <1>15, <1>16, <2>2, FrontReplaced
<1>20. NodesOK(w, stack) /\ KeysOK(w, stack)
  BY <1>5 DEF RanksInv
<1>21. NodesOK(w, t) /\ KeysOK(w, t)
  <2>1. \A p : IsLeft(p, stack) => IsLeft(p, t)
    BY <1>19 DEF FrontMoves
  <2>2. NodesOK(w, t)
    BY <1>9, <1>20, <2>1, NodesStay
  <2>3. KeysOK(w, t)
    BY <1>9, <1>19, <1>20, KeysStay
  <2>4. QED
    BY <2>2, <2>3
<1>22. NodesOK(World', stack') /\ KeysOK(World', stack') /\ Rooted(World', G)
       /\ Plan(World', G, stack')
  BY <1>6, <1>8, <1>16, <1>18, <1>21
<1>23. (bucketOffsets \in [0 .. Len(strings) - 1 -> Seq(Nat)])'
  BY <1>3 DEF RanksInv
<1>24. QED
  BY <1>3, <1>9, <1>22, <1>23, RunningKept

-----------------------------------------------------------------------------
(* A child is constructed. *)

\* the entry of a chunk, which the caller remembers
AddedBy(f, added, x) ==
    \/ added = {}
    \/ added = {ChunkEntry(f)} /\ ChunkIsNew(f) /\ RanksChunk(x, f.chunks[f.next])

\* the tree when the call f has constructed the child with the strings up to `end`
ChildTree(w, v, f, end, added) ==
    /\ GrowsAt(w, v, f.layer)
    /\ v.offsets[f.layer] = Append(w.offsets[f.layer], f.currentBucketBegin)
    /\ v.nodes = w.nodes
    /\ v.pool = w.pool \cup (added \cup RanksOf(w.strs, f.currentBucketBegin, end))
    /\ Numbered(v.maps, f.node.alphabetMapIndex) /\ FindsUpTo(v, f, BuiltBy(f), end)

\* the call f that constructs it, and goes on as x
ChildOfCall(w, G, s, f, x, end, added) ==
    /\ Len(s) \in Nat /\ Len(s) >= 1 /\ f = s[Len(s)] /\ Linked(s) /\ Sorted(w.strs)
    /\ Rooted(w, G) /\ Plan(w, G, s) /\ NodesOK(w, s) /\ KeysOK(w, s)
    /\ Placed(f, Len(s), Len(w.strs)) /\ Halfway(w, G, f) /\ f.phase # "enter"
    /\ ChildDone(f, x, end) /\ x.phase # "enter" /\ Smaller(f, end)
    /\ RanksStay(f, x) /\ AddedBy(f, added, x)

\* what the new tree and the new stack keep
BehindChild(v, t) ==
    /\ NodesOK(v, t) /\ KeysOK(v, t)
    /\ \E H : Rooted(v, H) /\ Plan(v, H, t)

\* numbers of a call that constructs a child
LEMMA ChildNumbers ==
    ASSUME NEW w, NEW v, NEW G, NEW s, NEW f, NEW x, NEW end, NEW added,
           ChildOfCall(w, G, s, f, x, end, added), ChildTree(w, v, f, end, added)
    PROVE  /\ f.layer = Len(s) - 1 /\ f.layer \in 0 .. Len(w.strs) - 1
           /\ f.begin \in Nat /\ f.end \in Nat /\ f.end <= Len(v.strs) /\ Len(v.strs) \in Nat
           /\ v.strs = w.strs /\ w.offsets[f.layer] \in Seq(Nat)
           /\ f.currentBucketBegin \in Nat /\ end \in Nat /\ end <= Len(w.strs)
           /\ FrontOf(f) = f.currentBucketBegin /\ FrontOf(x) = end
           /\ f.currentBucketBegin <= end /\ Continues(f, x)
<1>1. v.strs = w.strs /\ LayersOK(w) /\ Len(w.strs) \in Nat
  BY DEF ChildTree, GrowsAt, Grows, LayersOK
<1>2. /\ f.layer = Len(s) - 1 /\ f.begin \in Nat /\ f.end \in Nat /\ f.end <= Len(w.strs)
      /\ f.layer \in 0 .. Len(w.strs) - 1
  BY <1>1 DEF ChildOfCall, Placed
<1>3. f.currentBucketBegin \in Nat
  BY DEF ChildOfCall, Halfway
<1>4. end \in Nat /\ f.currentBucketBegin <= end /\ end <= f.end /\ x.currentBucketBegin = end
      /\ Continues(f, x)
  BY DEF ChildOfCall, ChildDone, SameSplit
<1>5. end <= Len(w.strs)
  BY <1>1, <1>2, <1>4
<1>6. w.offsets[f.layer] \in Seq(Nat)
  BY <1>1, <1>2 DEF LayersOK
<1>7. FrontOf(f) = f.currentBucketBegin /\ FrontOf(x) = end
  BY <1>4 DEF FrontOf, ChildOfCall
<1>8. QED
  BY <1>1, <1>2, <1>3, <1>4, <1>5, <1>6, <1>7

\* the caller remembers the entry of the chunk
LEMMA ChunkRemembered ==
    ASSUME NEW s, NEW t, NEW f, NEW x, NEW added, AddedBy(f, added, x), x.path = f.path,
           Len(s) \in Nat, Len(s) >= 1, Len(t) \in Nat, Len(t) >= Len(s), t[Len(s)] = x
    PROVE  ChunkAdded(f, added, t)
<1>1. PICK c : c = f.chunks[f.next]
  OBVIOUS
<1>2. RanksChunk(x, c) => RunningKey(t, f.path, c)
  <2>1. Len(s) \in 1 .. Len(t)
    OBVIOUS
  <2>2. QED
    BY <2>1 DEF RunningKey
<1>3. QED
  BY <1>1, <1>2 DEF AddedBy, ChunkAdded

\* nodes and keys behind a child
LEMMA ChildStored ==
    ASSUME NEW w, NEW v, NEW G, NEW s, NEW f, NEW x, NEW end, NEW added,
           ChildOfCall(w, G, s, f, x, end, added), ChildTree(w, v, f, end, added),
           NEW t, FrontMoves(s, t), ChunkAdded(f, added, t),
           end - f.currentBucketBegin \in 2 .. DirectThreshold - 1 => Front(t) = end
    PROVE  NodesOK(v, t) /\ KeysOK(v, t)
<1>1. PICK b : b = f.currentBucketBegin
  OBVIOUS
<1>2. b = Front(s)
  <2>1. f = s[Len(s)]
    BY DEF ChildOfCall
  <2>2. FrontOf(f) = b
    BY <1>1, ChildNumbers
  <2>3. QED
    BY <2>1, <2>2 DEF Front
<1>3. /\ Len(s) \in Nat /\ Len(s) >= 1 /\ Linked(s) /\ KeysOK(w, s) /\ NodesOK(w, s)
      /\ Sorted(w.strs) /\ f = s[Len(s)]
  BY DEF ChildOfCall
<1>4. v.strs = w.strs /\ end \in Nat /\ end <= Len(w.strs)
  BY ChildNumbers
<1>5. v.pool = w.pool \cup (added \cup RanksOf(w.strs, b, end))
  BY <1>1 DEF ChildTree
<1>6. KeysOK(v, t)
  BY <1>1, <1>2, <1>3, <1>4, <1>5, ChildKeys
<1>7. \A p : IsLeft(p, s) => IsLeft(p, t)
  BY DEF FrontMoves
<1>8. v.nodes = w.nodes
  BY DEF ChildTree
<1>9. NodesOK(v, t)
  BY <1>3, <1>7, <1>8, NodesStay
<1>10. QED
  BY <1>6, <1>9

\* the strings of the child are served by the call
LEMMA ChildCallServes ==
    ASSUME NEW w, NEW v, NEW G, NEW s, NEW f, NEW x, NEW end, NEW added,
           ChildOfCall(w, G, s, f, x, end, added), ChildTree(w, v, f, end, added),
           NEW H, G \subseteq H,
           ~ (end - f.currentBucketBegin < DirectThreshold) =>
              \A j \in f.currentBucketBegin + 1 .. end : <<getChild(f.path, BuiltBy(f)), j>> \in H
    PROVE  Halfway(v, H, x)
<1>1. PICK at : at = w.offsets[f.layer]
  OBVIOUS
<1>2. at \in Seq(Nat) /\ v.offsets[f.layer] = Append(at, f.currentBucketBegin)
  BY <1>1, ChildNumbers DEF ChildTree
<1>3. RanksOf(v.strs, f.currentBucketBegin, end) \subseteq v.pool
  <2>1. v.strs = w.strs
    BY ChildNumbers
  <2>2. QED
    BY <2>1 DEF ChildTree
<1>4. ChildServed(v, H, f, end)
  BY <1>3 DEF ChildServed, ChildTree
<1>5. Grows(w, v) /\ Halfway(w, G, f) /\ ChildDone(f, x, end)
  BY DEF ChildTree, GrowsAt, ChildOfCall
<1>6. f.begin \in Nat /\ f.end \in Nat /\ f.end <= Len(v.strs) /\ Len(v.strs) \in Nat
  BY ChildNumbers
<1>7. Appended(v.offsets[f.layer], at, f.currentBucketBegin)
  BY <1>2 DEF Appended
<1>8. QED
  BY <1>1, <1>2, <1>4, <1>5, <1>6, <1>7, ChildHalfway

\* a child of which the ranks are stored
LEMMA SmallChild ==
    ASSUME NEW w, NEW v, NEW G, NEW s, NEW f, NEW x, NEW end, NEW added,
           ChildOfCall(w, G, s, f, x, end, added), ChildTree(w, v, f, end, added),
           ~ (end - f.currentBucketBegin >= DirectThreshold), NEW t, Replaced(s, t, x)
    PROVE  BehindChild(v, t)
<1>1. /\ Len(s) \in Nat /\ Len(s) >= 1 /\ Linked(s) /\ f = s[Len(s)] /\ RanksStay(f, x)
      /\ Plan(w, G, s) /\ Rooted(w, G) /\ x.phase # "enter" /\ AddedBy(f, added, x)
  BY DEF ChildOfCall
<1>2. /\ f.layer = Len(s) - 1 /\ v.strs = w.strs /\ Continues(f, x)
      /\ f.currentBucketBegin \in Nat /\ end \in Nat /\ f.currentBucketBegin <= end
      /\ FrontOf(f) = f.currentBucketBegin /\ FrontOf(x) = end
  BY ChildNumbers
<1>3. GrowsAt(w, v, Len(s) - 1)
  BY <1>2 DEF ChildTree
<1>4. Halfway(v, G, x)
  <2>1. end - f.currentBucketBegin < DirectThreshold
    BY <1>2, TreeAssumption
  <2>2. QED
    BY <2>1, ChildCallServes
<1>5. Plan(v, G, t)
  BY <1>1, <1>2, <1>3, <1>4, PlanReplaced
<1>6. Rooted(v, G)
  BY <1>1, <1>2 DEF Rooted
<1>7. FrontMoves(s, t)
  BY <1>1, <1>2, FrontReplaced
<1>8. Front(t) = end
  BY <1>2 DEF Front, Replaced
<1>9. ChunkAdded(f, added, t)
  <2>1. Len(t) \in Nat /\ Len(t) >= Len(s) /\ t[Len(s)] = x
    BY <1>1 DEF Replaced
  <2>2. x.path = f.path
    BY <1>2 DEF Continues
  <2>3. QED
    BY <1>1, <2>1, <2>2, ChunkRemembered
<1>10. NodesOK(v, t) /\ KeysOK(v, t)
  BY <1>7, <1>8, <1>9, ChildStored
<1>11. QED
  BY <1>5, <1>6, <1>10 DEF BehindChild

\* a child that is a node
LEMMA LargeChild ==
    ASSUME NEW w, NEW v, NEW G, NEW s, NEW f, NEW x, NEW end, NEW added,
           ChildOfCall(w, G, s, f, x, end, added), ChildTree(w, v, f, end, added),
           end - f.currentBucketBegin >= DirectThreshold, NEW t, NEW y, Called(s, t, x, y),
           y.phase = "enter", y.begin = f.currentBucketBegin, y.end = end,
           y.offset = f.currentBucketBegin, y.layer = f.layer + 1,
           y.path = getChild(f.path, BuiltBy(f))
    PROVE  BehindChild(v, t)
<1>1. /\ Len(s) \in Nat /\ Len(s) >= 1 /\ Linked(s) /\ f = s[Len(s)] /\ RanksStay(f, x)
      /\ Plan(w, G, s) /\ Rooted(w, G) /\ x.phase # "enter" /\ AddedBy(f, added, x)
      /\ Placed(f, Len(s), Len(w.strs)) /\ Smaller(f, end)
  BY DEF ChildOfCall
<1>2. /\ f.layer = Len(s) - 1 /\ v.strs = w.strs /\ Continues(f, x)
      /\ f.currentBucketBegin \in Nat /\ end \in Nat /\ f.currentBucketBegin <= end
      /\ FrontOf(f) = f.currentBucketBegin /\ f.begin \in Nat /\ f.end \in Nat
      /\ end <= Len(w.strs) /\ Len(v.strs) \in Nat
  BY ChildNumbers
<1>3. GrowsAt(w, v, Len(s) - 1)
  BY <1>2 DEF ChildTree
<1> DEFINE H == G \cup PairsOf(y)
<1>4. Halfway(v, H, x)
  <2>1. \A j \in f.currentBucketBegin + 1 .. end : <<getChild(f.path, BuiltBy(f)), j>> \in PairsOf(y)
    BY DEF PairsOf
  <2>2. QED
    BY <2>1, ChildCallServes
<1>5. NextChild(f, x, y) /\ x.currentBucketBegin = y.end
  BY DEF NextChild, ChildOfCall, ChildDone, getChild
<1>6. Placed(y, Len(s) + 1, Len(v.strs))
  <2>1. PICK b \in Nat, e \in Nat, cb \in Nat, n \in Nat, m \in Nat :
           /\ b = f.begin /\ e = f.end /\ cb = f.currentBucketBegin /\ n = Len(v.strs)
           /\ m = Len(s)
    BY <1>1, <1>2
  <2>2. (e - b) + (m - 1) <= n
    BY <1>1, <1>2, <2>1 DEF Placed
  <2>6. end - cb < e - b
    BY <1>1, <2>1 DEF Smaller
  <2>7. end - cb >= DirectThreshold /\ DirectThreshold \in Nat /\ DirectThreshold >= 2
    BY <2>1, TreeAssumption
  <2>3. (end - cb) + ((m + 1) - 1) <= n /\ cb < end
    <3>1. PICK to \in Nat, k \in Nat : to = end /\ k = DirectThreshold
      BY <1>2, <2>7
    <3>2. (e - b) + (m - 1) <= n /\ to - cb < e - b /\ to - cb >= k /\ k >= 2
      BY <2>2, <2>6, <2>7, <3>1
    <3>3. (to - cb) + ((m + 1) - 1) <= n /\ cb < to
      BY <3>2
    <3>4. QED
      BY <3>1, <3>3
  <2>4. y.layer = (m + 1) - 1
    BY <1>2, <2>1
  <2>5. QED
    BY <1>2, <2>1, <2>3, <2>4 DEF Placed
<1> HIDE DEF H
<1>7. Plan(v, H, t)
  BY <1>1, <1>2, <1>3, <1>4, <1>5, <1>6, PlanCalled DEF H
<1>8. Rooted(v, H)
  BY <1>1, <1>2 DEF Rooted, H
<1>9. FrontMoves(s, t)
  BY <1>1, <1>2, <1>5, FrontCalled
<1>10. ChunkAdded(f, added, t)
  <2>1. Len(t) \in Nat /\ Len(t) >= Len(s) /\ t[Len(s)] = x
    BY <1>1 DEF Called
  <2>2. x.path = f.path
    BY <1>2 DEF Continues
  <2>3. QED
    BY <1>1, <2>1, <2>2, ChunkRemembered
<1>11. end - f.currentBucketBegin \notin 2 .. DirectThreshold - 1
  BY <1>2, TreeAssumption
<1>12. NodesOK(v, t) /\ KeysOK(v, t)
  BY <1>9, <1>10, <1>11, ChildStored
<1>13. QED
  BY <1>7, <1>8, <1>12 DEF BehindChild

\* the tree behind constructChild
LEMMA ConstructChildTree ==
    ASSUME RanksInv, TreeInv', NEW phase, Running(phase), phase # "enter", UNCHANGED indexed,
           NEW f, f = Top, NEW end, NEW bucket, NEW added, NEW rest,
           constructChild(end, bucket, added, rest),
           FindsUpTo(World', f, BuiltBy(f), end)
    PROVE  /\ ChildTree(World, World', f, end, added)
           /\ (bucketOffsets \in [0 .. Len(strings) - 1 -> Seq(Nat)])'
           /\ ChildOffset = f.currentBucketBegin
<1>1. /\ bucketOffsets' = [bucketOffsets EXCEPT ![f.layer] = Append(@, ChildOffset)]
      /\ inputs' = inputs \cup added \cup ChildRanks(end)
      /\ UNCHANGED <<strings, pc, lcps, alphabetMaps, treeNodes, entries, asked>>
  BY DEF constructChild
<1>2. PICK G : /\ Placed(f, Len(stack), Len(strings)) /\ Halfway(World, G, f)
  BY TopPlaced
<1>3. /\ f.layer \in 0 .. Len(strings) - 1 /\ Len(strings) \in Nat /\ f.begin \in Nat
      /\ f.offset = f.begin
  <2>1. Len(stack) \in Nat /\ Len(stack) >= 1 /\ Len(strings) \in Nat
    BY TopPlaced, WorldOK
  <2>2. QED
    BY <1>2, <2>1 DEF Placed
<1>4. ChildOffset = f.currentBucketBegin /\ f.currentBucketBegin \in Nat
  <2>1. PICK b \in Nat, cb \in Nat : b = f.begin /\ cb = f.currentBucketBegin
    BY <1>2, <1>3 DEF Halfway
  <2>2. f.offset = b /\ f.bucketSizePrefixTemp = cb - b
    BY <1>2, <1>3, <2>1 DEF Halfway
  <2>3. ChildOffset = b + (cb - b)
    BY <2>2 DEF ChildOffset
  <2>4. QED
    BY <2>1, <2>3
<1>5. PICK offs : offs = bucketOffsets /\ offs \in [0 .. Len(strings) - 1 -> Seq(Nat)]
  BY DEF RanksInv
<1>6. PICK later : later = bucketOffsets'
  OBVIOUS
<1>7. PICK l \in 0 .. Len(strings) - 1 : l = f.layer
  BY <1>3
<1>8. PICK cb \in Nat : cb = f.currentBucketBegin
  BY <1>4
<1>9. Appends(offs, l, cb, later)
  BY <1>1, <1>4, <1>5, <1>6, <1>7, <1>8 DEF Appends
<1>10. PICK n \in Nat : n = Len(strings)
  BY <1>3
<1>11. /\ later \in [0 .. n - 1 -> Seq(Nat)] /\ later[l] = Append(offs[l], cb)
       /\ \A k \in 0 .. n - 1 : k # l => later[k] = offs[k]
       /\ \A k \in 0 .. n - 1 : Longer(offs[k], later[k])
  <2>1. offs \in [0 .. n - 1 -> Seq(Nat)] /\ l \in 0 .. n - 1
    BY <1>5, <1>10
  <2>2. QED
    BY <1>9, <2>1, OffsetsAppended
<1>12. bucketOffsets' \in [0 .. Len(strings') - 1 -> Seq(Nat)]
  BY <1>1, <1>6, <1>10, <1>11
<1>13. Grown(alphabetMaps, alphabetMaps')
  <2>1. AlphabetsOK(alphabetMaps)
    BY DEF RanksInv, TreeInv
  <2>2. QED
    BY <1>1, <2>1 DEF Grown, Longer, AlphabetsOK
<1>14. /\ GrowsAt(World, World', l)
       /\ World'.strs = strings /\ World'.offsets = bucketOffsets'
       /\ World'.nodes = treeNodes' /\ World'.maps = alphabetMaps'
       /\ World'.ix = indexed /\ World'.pool = inputs' \cup entries'
  <2>1. inputs \cup entries \subseteq inputs' \cup entries'
    BY <1>1
  <2>2. \A k \in 0 .. Len(strings) - 1 :
              /\ Longer(bucketOffsets[k], bucketOffsets'[k])
              /\ k # l => bucketOffsets'[k] = bucketOffsets[k]
    BY <1>5, <1>6, <1>10, <1>11
  <2>3. QED
    BY <1>1, <1>12, <1>13, <2>1, <2>2, WorldGrows
<1>15. World'.offsets[f.layer] = Append(World.offsets[f.layer], f.currentBucketBegin)
  BY <1>5, <1>6, <1>7, <1>8, <1>11, <1>14, WorldOK
<1>16. World'.pool = World.pool \cup (added \cup RanksOf(World.strs, f.currentBucketBegin, end))
  <2>1. ChildRanks(end) = RanksOf(strings, f.currentBucketBegin, end)
    BY DEF ChildRanks, RanksOf
  <2>2. QED
    BY <1>1, <1>14, <2>1, WorldOK
<1>17. Numbered(World'.maps, f.node.alphabetMapIndex)
  <2>1. SplitFacts(f, indexed, strings, lcps, alphabetMaps)
    BY TopSplit DEF RanksInv
  <2>2. QED
    BY <1>1, <1>14, <2>1 DEF SplitFacts, NodeFacts
<1>18. World'.nodes = World.nodes
  BY <1>1, <1>14, WorldOK
<1>19. ChildTree(World, World', f, end, added)
  BY <1>7, <1>14, <1>15, <1>16, <1>17, <1>18 DEF ChildTree
<1>20. QED
  BY <1>4, <1>12, <1>19

\* constructChild keeps the invariant
LEMMA ConstructChildRanks ==
    ASSUME RanksInv, TreeInv', NEW phase, Running(phase), phase # "enter", UNCHANGED indexed,
           NEW f, f = Top, NEW end, NEW bucket, bucket = BuiltBy(f), NEW added, NEW rest,
           IsFrame(rest), constructChild(end, bucket, added, rest),
           FindsUpTo(World', f, BuiltBy(f), end),
           NEW x, x = After(rest, end), ChildDone(f, x, end), x.phase # "enter",
           Smaller(f, end), RanksStay(f, x), AddedBy(f, added, x)
    PROVE  RanksInv'
<1>1. PICK w, v : w = World /\ v = World'
  OBVIOUS
<1>2. /\ ChildTree(w, v, f, end, added) /\ ChildOffset = f.currentBucketBegin
      /\ (bucketOffsets \in [0 .. Len(strings) - 1 -> Seq(Nat)])'
  BY <1>1, ConstructChildTree
<1>3. /\ IsStack(stack) /\ stack # <<>> /\ Len(stack) \in Nat /\ Len(stack) >= 1
      /\ f = stack[Len(stack)] /\ Linked(stack) /\ pc = "nodes" /\ f.phase # "enter"
  BY TopPlaced
<1>4. PICK G : /\ Rooted(w, G) /\ Plan(w, G, stack) /\ Placed(f, Len(stack), Len(strings))
               /\ Halfway(w, G, f)
  BY <1>1, TopPlaced
<1>5. NodesOK(w, stack) /\ KeysOK(w, stack) /\ Sorted(w.strs) /\ w.strs = strings
  BY <1>1, WorldOK DEF RanksInv
<1>6. ChildOfCall(w, G, stack, f, x, end, added)
  BY <1>3, <1>4, <1>5 DEF ChildOfCall
<1>7. PICK t : t = stack'
  OBVIOUS
<1>8. ASSUME /\ end - Top.currentBucketBegin >= DirectThreshold
             /\ Calling(stack, After(rest, end), ChildCall(end, bucket), stack')
      PROVE  BehindChild(v, t)
  <2>1. PICK y : y = ChildCall(end, bucket)
    OBVIOUS
  <2>2. /\ y.phase = "enter" /\ y.begin = f.currentBucketBegin /\ y.end = end
        /\ y.offset = f.currentBucketBegin /\ y.layer = f.layer + 1
        /\ y.path = getChild(f.path, BuiltBy(f))
    BY <1>2, <2>1 DEF ChildCall, Call
  <2>3. Called(stack, t, x, y)
    BY <1>3, <1>7, <1>8, <2>1, StackCalls
  <2>4. QED
    BY <1>2, <1>6, <1>8, <2>2, <2>3, LargeChild
<1>9. ASSUME /\ ~ (end - Top.currentBucketBegin >= DirectThreshold)
             /\ Replacing(stack, After(rest, end), stack')
      PROVE  BehindChild(v, t)
  <2>1. Replaced(stack, t, x)
    BY <1>3, <1>7, <1>9, StackReplaces
  <2>2. QED
    BY <1>2, <1>6, <1>9, <2>1, SmallChild
<1>10. BehindChild(v, t)
  BY <1>3, <1>8, <1>9, ChildStacks
<1>11. PICK H : NodesOK(v, t) /\ KeysOK(v, t) /\ Rooted(v, H) /\ Plan(v, H, t)
  BY <1>10 DEF BehindChild
<1>12. NodesOK(World', stack') /\ KeysOK(World', stack') /\ Rooted(World', H)
       /\ Plan(World', H, stack')
  BY <1>1, <1>7, <1>11
<1>13. UNCHANGED <<pc, entries, asked>>
  BY DEF constructChild
<1>14. QED
  BY <1>2, <1>3, <1>12, <1>13, RunningKept

\* the caller behind constructChild
LEMMA AfterMoves ==
    ASSUME NEW f, f = Top, NEW rest, NEW ph, NEW nx, NEW pb,
           MovesTo(f, rest, ph, nx, pb, f.currentBucketBegin, f.bucketSizePrefixTemp),
           NEW end, NEW x, x = After(rest, end)
    PROVE  MovesTo(f, x, ph, nx, pb, end,
                   f.bucketSizePrefixTemp + (end - f.currentBucketBegin))
<1>1. PICK tmp : tmp = rest.bucketSizePrefixTemp + (end - Top.currentBucketBegin)
  OBVIOUS
<1>2. x = Moved(rest, rest.phase, rest.next, rest.prevBucket, end, tmp)
  BY <1>1 DEF After
<1>3. PICK a, b, c : a = rest.phase /\ b = rest.next /\ c = rest.prevBucket
  OBVIOUS
<1>4. x = Moved(rest, a, b, c, end, tmp)
  BY <1>2, <1>3
<1>5. MovesTo(rest, x, a, b, c, end, tmp)
  BY <1>4, MovesOf
<1>6. tmp = f.bucketSizePrefixTemp + (end - f.currentBucketBegin)
  BY <1>1 DEF MovesTo
<1>7. QED
  BY <1>3, <1>5, <1>6 DEF MovesTo

\* a loop constructs a child
LEMMA LoopConstructs ==
    ASSUME RanksInv, TreeInv', NEW phase, Running(phase), phase # "enter", UNCHANGED indexed,
           NEW f, f = Top, NEW end \in Nat, f.currentBucketBegin <= end, end <= f.end,
           Smaller(f, end), NEW bucket, bucket = BuiltBy(f), BuiltBy(f) \in Nat,
           NEW added, NEW rest, IsFrame(rest), constructChild(end, bucket, added, rest),
           FindsUpTo(World', f, BuiltBy(f), end),
           NEW x, x = After(rest, end), NEW ph, ph # "enter", NEW nx, NEW pb, NEW tmp,
           MovesTo(f, x, ph, nx, pb, end, tmp),
           tmp = f.bucketSizePrefixTemp + (end - f.currentBucketBegin),
           InLoop(x), BuiltBy(x) = BuiltBy(f) + 1, RanksStay(f, x), AddedBy(f, added, x)
    PROVE  RanksInv'
<1>1. f.phase # "enter"
  BY TopPlaced
<1>2. x.phase # "enter" /\ Continues(f, x) /\ SameSplit(f, x)
  <2>1. BuiltBy(f) <= BuiltBy(x)
    OBVIOUS
  <2>2. QED
    BY <1>1, <2>1 DEF MovesTo, Continues, SameSplit
<1>3. ChildDone(f, x, end)
  BY <1>2 DEF ChildDone, MovesTo
<1>4. QED
  BY <1>2, <1>3, ConstructChildRanks

\* what a call that goes on knows of the next state
LEMMA NextSplit ==
    ASSUME RanksInv, NEW phase, Running(phase), phase # "enter",
           UNCHANGED <<indexed, strings, alphabetMaps>>
    PROVE  /\ SplitFacts(Top, World'.ix, World'.strs, lcps, World'.maps)
           /\ IsFrame(Top) /\ Top.phase = phase /\ InLoop(Top)
           /\ Len(World'.strs) \in 0 .. WideCapacity
<1>1. World'.ix = indexed /\ World'.strs = strings /\ World'.maps = alphabetMaps
  BY DEF World
<1>2. SplitFacts(Top, indexed, strings, lcps, alphabetMaps) /\ IsFrame(Top)
      /\ Top.phase = phase
  BY TopSplit DEF RanksInv
<1>3. InLoop(Top)
  BY TopPlaced DEF Halfway
<1>4. QED
  BY <1>1, <1>2, <1>3, WorldOK

\* CloseBucket
LEMMA CloseBucketRanks ==
    ASSUME RanksInv, TreeInv', CloseBucket, UNCHANGED indexed
    PROVE  RanksInv'
<1>1. Running("buckets") /\ MoreChunks /\ Top.prevBucket < NextBucket
  BY DEF CloseBucket
<1>2. PICK f : f = Top
  OBVIOUS
<1>3. PICK g : g = f.next
  OBVIOUS
<1>4. PICK end : end = f.begin + f.chunksOffsets[g]
  OBVIOUS
<1>5. PICK rest : BucketMoves(f, rest)
  BY DEF BucketMoves
<1>6. PICK added : added = {}
  OBVIOUS
<1>7. constructChild(end, f.prevBucket, added, rest)
  BY <1>2, <1>3, <1>4, <1>5, <1>6 DEF CloseBucket, BucketMoves, ChunkBegin
<1>8. PICK v : v = World'
  OBVIOUS
<1>9. /\ SplitFacts(f, v.ix, v.strs, lcps, v.maps) /\ IsFrame(f) /\ f.phase = "buckets"
      /\ InLoop(f)
  <2>1. UNCHANGED <<indexed, strings, alphabetMaps>>
    BY <1>7 DEF constructChild
  <2>2. QED
    BY <1>1, <1>2, <1>8, <2>1, NextSplit
<1>10. g <= Len(f.chunks) /\ f.prevBucket < f.mapper.bucketOf[f.chunks[g]]
  BY <1>1, <1>2, <1>3 DEF MoreChunks, NextBucket
<1>11. PICK pb : pb = f.prevBucket + 1
  OBVIOUS
<1>12. /\ MovesTo(f, rest, "buckets", f.next, pb, f.currentBucketBegin,
                  f.bucketSizePrefixTemp)
       /\ IsFrame(rest)
  <2>1. PICK nx, cb, tm : nx = f.next /\ cb = f.currentBucketBegin
                          /\ tm = f.bucketSizePrefixTemp
    OBVIOUS
  <2>2. rest = Moved(f, "buckets", nx, pb, cb, tm)
    BY <1>5, <1>9, <1>11, <2>1, BucketMoved
  <2>3. MovesTo(f, rest, "buckets", nx, pb, cb, tm) /\ IsFrame(rest)
    BY <2>2, MovesOf, MovedFields
  <2>4. QED
    BY <2>1, <2>3
<1>13. PICK x : x = After(rest, end)
  OBVIOUS
<1>14. PICK tmp : tmp = f.bucketSizePrefixTemp + (end - f.currentBucketBegin)
  OBVIOUS
<1>15. PICK nx : nx = f.next
  OBVIOUS
<1>16. MovesTo(f, x, "buckets", nx, pb, end, tmp)
  BY <1>2, <1>12, <1>13, <1>14, <1>15, AfterMoves
<1>17. InLoop(x) /\ BuiltBy(x) = BuiltBy(f) + 1
  <2>1. MovesTo(f, x, "buckets", f.next, f.prevBucket + 1, end, tmp)
    BY <1>11, <1>15, <1>16
  <2>2. QED
    BY <1>3, <1>4, <1>9, <1>10, <2>1, BucketLoop
<1>18. /\ BuiltBy(f) = f.prevBucket /\ f.prevBucket \in Nat
       /\ end \in Nat /\ f.currentBucketBegin <= end /\ end <= f.end /\ Smaller(f, end)
  BY <1>3, <1>4, <1>9, RunningBucket
<1>19. FindsUpTo(v, f, BuiltBy(f), end)
  BY <1>3, <1>4, <1>9, BucketFound
<1>20. RanksStay(f, x) /\ AddedBy(f, added, x)
  BY <1>6, <1>9 DEF RanksStay, AddedBy
<1>21. FindsUpTo(World', f, BuiltBy(f), end)
  BY <1>8, <1>19
<1>22. PICK bucket : bucket = f.prevBucket
  OBVIOUS
<1>23. constructChild(end, bucket, added, rest) /\ bucket = BuiltBy(f)
  BY <1>7, <1>18, <1>22
<1>24. QED
  BY <1>1, <1>2, <1>12, <1>13, <1>14, <1>16, <1>17, <1>18, <1>20, <1>21, <1>23,
     LoopConstructs

\* CloseLastBucket: its bucket has strings
LEMMA CloseLastBucketRanks ==
    ASSUME RanksInv, TreeInv', CloseLastBucket, UNCHANGED indexed
    PROVE  RanksInv'
<1>1. Running("buckets") /\ ~ MoreChunks
  BY DEF CloseLastBucket
<1>2. PICK f : f = Top
  OBVIOUS
<1>3. PICK g : g = f.next
  OBVIOUS
<1>4. UNCHANGED <<indexed, strings, alphabetMaps>>
  BY DEF CloseLastBucket, constructChild, Advance
<1>5. PICK v : v = World'
  OBVIOUS
<1>6. /\ SplitFacts(f, v.ix, v.strs, lcps, v.maps) /\ IsFrame(f) /\ f.phase = "buckets"
      /\ InLoop(f)
  BY <1>1, <1>2, <1>4, <1>5, NextSplit
<1>7. f.begin + f.chunksOffsets[g] = f.end
  <2>1. PICK n \in Nat :
           /\ f.end = f.begin + n /\ Len(f.chunks) \in Nat
           /\ f.next \in 1 .. Len(f.chunks) + 1
           /\ f.chunksOffsets[Len(f.chunks) + 1] = n
    BY <1>6, RunPlaces
  <2>2. PICK m \in Nat : m = Len(f.chunks)
    BY <2>1
  <2>3. g \in 1 .. m + 1 /\ ~ (g <= m)
    BY <1>1, <1>2, <1>3, <2>1, <2>2 DEF MoreChunks
  <2>4. g = m + 1
    BY <2>3
  <2>5. QED
    BY <2>1, <2>2, <2>4
<1>8. PICK end : end = f.begin + f.chunksOffsets[g]
  OBVIOUS
<1>9. /\ BuiltBy(f) = f.prevBucket /\ f.prevBucket \in Nat
      /\ end \in Nat /\ f.currentBucketBegin <= end /\ end <= f.end /\ Smaller(f, end)
      /\ f.currentBucketBegin # f.end
  BY <1>3, <1>6, <1>8, RunningBucket
<1>10. PICK rest : Leaves(f, rest)
  BY DEF Leaves
<1>11. PICK added : added = {}
  OBVIOUS
<1>12. PICK bucket : bucket = f.prevBucket
  OBVIOUS
<1>13. constructChild(end, bucket, added, rest)
  <2>1. Top.currentBucketBegin # Top.end
    BY <1>2, <1>9
  <2>2. constructChild(Top.end, Top.prevBucket, {}, [Top EXCEPT !.phase = "leave"])
    BY <2>1 DEF CloseLastBucket
  <2>3. QED
    BY <1>2, <1>7, <1>8, <1>10, <1>11, <1>12, <2>2 DEF Leaves
<1>14. PICK nx : nx = f.next
  OBVIOUS
<1>15. /\ MovesTo(f, rest, "leave", nx, bucket, f.currentBucketBegin,
                  f.bucketSizePrefixTemp)
       /\ IsFrame(rest)
  <2>1. PICK cb, tm : cb = f.currentBucketBegin /\ tm = f.bucketSizePrefixTemp
    OBVIOUS
  <2>2. rest = Moved(f, "leave", nx, bucket, cb, tm)
    BY <1>6, <1>10, <1>12, <1>14, <2>1, LeaveMoved
  <2>3. MovesTo(f, rest, "leave", nx, bucket, cb, tm) /\ IsFrame(rest)
    BY <2>2, MovesOf, MovedFields
  <2>4. QED
    BY <2>1, <2>3
<1>16. PICK x : x = After(rest, end)
  OBVIOUS
<1>17. PICK tmp : tmp = f.bucketSizePrefixTemp + (end - f.currentBucketBegin)
  OBVIOUS
<1>18. MovesTo(f, x, "leave", nx, bucket, end, tmp)
  BY <1>2, <1>15, <1>16, <1>17, AfterMoves
<1>19. InLoop(x) /\ BuiltBy(x) = BuiltBy(f) + 1
  <2>1. MovesTo(f, x, "leave", f.next, f.prevBucket, f.end, tmp)
    BY <1>7, <1>8, <1>12, <1>14, <1>18
  <2>2. QED
    BY <1>6, <2>1, LastLoop
<1>20. FindsUpTo(World', f, BuiltBy(f), end)
  BY <1>3, <1>5, <1>6, <1>8, BucketFound
<1>21. RanksStay(f, x) /\ AddedBy(f, added, x)
  BY <1>6, <1>11 DEF RanksStay, AddedBy
<1>22. bucket = BuiltBy(f)
  BY <1>9, <1>12
<1>23. QED
  BY <1>1, <1>2, <1>4, <1>9, <1>13, <1>15, <1>16, <1>17, <1>18, <1>19, <1>20, <1>21, <1>22,
     LoopConstructs

\* StoreChunkRank
LEMMA StoreChunkRankRanks ==
    ASSUME RanksInv, TreeInv', StoreChunkRank, UNCHANGED indexed
    PROVE  RanksInv'
<1>1. Running("ranks") /\ MoreChunks
  BY DEF StoreChunkRank
<1>2. PICK f : f = Top
  OBVIOUS
<1>3. PICK end : end = f.begin + f.chunksOffsets[f.next + 1]
  OBVIOUS
<1>4. PICK rest : ChunkMoves(f, rest)
  BY DEF ChunkMoves
<1>5. PICK added : added = {ChunkEntry(f)}
  OBVIOUS
<1>6. PICK bucket : bucket = f.next - 1
  OBVIOUS
<1>7. constructChild(end, bucket, added, rest)
  BY <1>2, <1>3, <1>4, <1>5, <1>6 DEF StoreChunkRank, ChunkMoves, ChunkBegin, ChunkEntry
<1>8. PICK v : v = World'
  OBVIOUS
<1>9. /\ SplitFacts(f, v.ix, v.strs, lcps, v.maps) /\ IsFrame(f) /\ f.phase = "ranks"
      /\ InLoop(f) /\ Len(v.strs) \in 0 .. WideCapacity
  <2>1. UNCHANGED <<indexed, strings, alphabetMaps>>
    BY <1>7 DEF constructChild
  <2>2. QED
    BY <1>1, <1>2, <1>8, <2>1, NextSplit
<1>10. f.next <= Len(f.chunks)
  BY <1>1, <1>2 DEF MoreChunks
<1>11. PICK nx : nx = f.next + 1
  OBVIOUS
<1>12. PICK pb : pb = f.prevBucket
  OBVIOUS
<1>13. /\ MovesTo(f, rest, "ranks", nx, pb, f.currentBucketBegin, f.bucketSizePrefixTemp)
       /\ IsFrame(rest)
  <2>1. PICK cb, tm : cb = f.currentBucketBegin /\ tm = f.bucketSizePrefixTemp
    OBVIOUS
  <2>2. rest = Moved(f, "ranks", nx, pb, cb, tm)
    BY <1>4, <1>9, <1>11, <1>12, <2>1, ChunkMoved
  <2>3. MovesTo(f, rest, "ranks", nx, pb, cb, tm) /\ IsFrame(rest)
    BY <2>2, MovesOf, MovedFields
  <2>4. QED
    BY <2>1, <2>3
<1>14. PICK x : x = After(rest, end)
  OBVIOUS
<1>15. PICK tmp : tmp = f.bucketSizePrefixTemp + (end - f.currentBucketBegin)
  OBVIOUS
<1>16. MovesTo(f, x, "ranks", nx, pb, end, tmp)
  BY <1>2, <1>13, <1>14, <1>15, AfterMoves
<1>17. /\ InLoop(x) /\ BuiltBy(f) \in Nat /\ BuiltBy(x) = BuiltBy(f) + 1
       /\ end \in Nat /\ f.currentBucketBegin <= end /\ end <= f.end
       /\ Smaller(f, end)
  <2>1. MovesTo(f, x, "ranks", f.next + 1, f.prevBucket, end, tmp)
    BY <1>11, <1>12, <1>16
  <2>2. QED
    BY <1>3, <1>9, <1>10, <2>1, RankLoop
<1>18. ChunkEntry(f) \in v.pool
  <2>1. inputs' = inputs \cup added \cup ChildRanks(end)
    BY <1>7 DEF constructChild
  <2>2. v.pool = inputs' \cup entries'
    BY <1>8 DEF World
  <2>3. QED
    BY <1>5, <2>1, <2>2
<1>19. FindsUpTo(World', f, BuiltBy(f), end)
  BY <1>3, <1>8, <1>9, <1>10, <1>18, ChunkFound
<1>20. /\ f.next \in 1 .. Len(f.chunks) /\ f.chunks \in Seq(Nat)
       /\ \A c, e \in 1 .. Len(f.chunks) : c < e => f.chunks[c] < f.chunks[e]
  BY <1>9, <1>10, RunPlaces
<1>21. RanksStay(f, x) /\ AddedBy(f, added, x)
  <2>1. PICK h \in Nat : h = f.next /\ h >= 1
    BY <1>20
  <2>2. x.phase = "ranks" /\ x.chunks = f.chunks /\ x.next = h + 1
    BY <1>11, <1>16, <2>1 DEF MovesTo
  <2>3. h \in 1 .. x.next - 1
    BY <2>1, <2>2
  <2>4. RanksChunk(x, f.chunks[h])
    BY <2>2, <2>3 DEF RanksChunk
  <2>5. ChunkIsNew(f)
    BY <1>9, <1>20 DEF ChunkIsNew
  <2>6. AddedBy(f, added, x)
    BY <1>5, <2>1, <2>4, <2>5 DEF AddedBy
  <2>7. RanksStay(f, x)
    BY <2>1, <2>2 DEF RanksStay
  <2>8. QED
    BY <2>6, <2>7
<1>22. bucket = BuiltBy(f)
  BY <1>6, <1>9 DEF BuiltBy, InLoop
<1>23. QED
  BY <1>1, <1>2, <1>7, <1>13, <1>14, <1>15, <1>16, <1>17, <1>19, <1>21, <1>22,
     LoopConstructs

\* a call returns and leaves its node
LEMMA LeaveNodeRanks ==
    ASSUME RanksInv, TreeInv', LeaveNode, UNCHANGED indexed
    PROVE  RanksInv'
<1>1. PICK phase : /\ Running(phase) /\ phase # "enter"
                   /\ phase = "leave" \/ (phase = "ranks" /\ ~ MoreChunks)
  BY DEF LeaveNode
<1>2. PICK f : f = Top
  OBVIOUS
<1>3. /\ bucketOffsets' = [bucketOffsets EXCEPT ![f.layer] =
                              Append(@, f.offset + (f.end - f.begin))]
      /\ treeNodes' = treeNodes \cup {NodeOf(f)}
      /\ stack' = SubSeq(stack, 1, Len(stack) - 1)
      /\ UNCHANGED <<strings, pc, lcps, alphabetMaps, inputs, entries, asked>>
  BY <1>2 DEF LeaveNode, Callers
<1>4. /\ IsStack(stack) /\ stack # <<>> /\ Len(stack) \in Nat /\ Len(stack) >= 1
      /\ f = stack[Len(stack)] /\ f.phase = phase /\ Linked(stack) /\ pc = "nodes"
      /\ f.phase # "enter"
  BY <1>1, <1>2, TopPlaced
<1>5. PICK w, v : w = World /\ v = World'
  OBVIOUS
<1>6. PICK G : /\ Rooted(w, G) /\ Plan(w, G, stack) /\ Placed(f, Len(stack), Len(strings))
               /\ Halfway(w, G, f)
  BY <1>1, <1>2, <1>5, TopPlaced
<1>7. f.currentBucketBegin = f.end
  <2>1. UNCHANGED <<indexed, strings, alphabetMaps>>
    BY <1>3
  <2>2. SplitFacts(f, v.ix, v.strs, lcps, v.maps) /\ InLoop(f)
    BY <1>1, <1>2, <1>5, <2>1, NextSplit
  <2>3. f.phase = "leave" \/ (f.phase = "ranks" /\ ~ (f.next <= Len(f.chunks)))
    BY <1>1, <1>2, <1>4 DEF MoreChunks
  <2>4. QED
    BY <2>2, <2>3, LoopEnds
<1>8. PICK n \in Nat : n = Len(strings)
  BY WorldOK
<1>9. PICK l \in 0 .. n - 1 : l = f.layer /\ l = Len(stack) - 1
  BY SMTT(20), <1>4, <1>6, <1>8 DEF Placed
<1>10. PICK e \in Nat : e = f.end /\ e = f.offset + (f.end - f.begin)
  BY <1>6 DEF Placed
<1>11. PICK offs, later : offs = bucketOffsets /\ later = bucketOffsets'
  OBVIOUS
<1>12. offs \in [0 .. n - 1 -> Seq(Nat)] /\ Appends(offs, l, e, later)
  BY <1>3, <1>8, <1>9, <1>10, <1>11 DEF RanksInv, Appends
<1>13. /\ later \in [0 .. n - 1 -> Seq(Nat)] /\ later[l] = Append(offs[l], e)
       /\ \A k \in 0 .. n - 1 : k # l => later[k] = offs[k]
       /\ \A k \in 0 .. n - 1 : Longer(offs[k], later[k])
  BY <1>12, OffsetsAppended
<1>14. (bucketOffsets \in [0 .. Len(strings) - 1 -> Seq(Nat)])'
  BY <1>3, <1>8, <1>11, <1>13
<1>15. /\ GrowsAt(w, v, l) /\ v.strs = strings /\ v.offsets = later
       /\ v.nodes = treeNodes \cup {NodeOf(f)} /\ v.pool = inputs \cup entries
  <2>1. Grown(alphabetMaps, alphabetMaps')
    <3>1. AlphabetsOK(alphabetMaps)
      BY DEF RanksInv, TreeInv
    <3>2. QED
      BY <1>3, <3>1 DEF Grown, Longer, AlphabetsOK
  <2>2. \A k \in 0 .. Len(strings) - 1 :
              /\ Longer(bucketOffsets[k], bucketOffsets'[k])
              /\ k # l => bucketOffsets'[k] = bucketOffsets[k]
    BY <1>8, <1>11, <1>13
  <2>3. treeNodes \subseteq treeNodes' /\ inputs \cup entries \subseteq inputs' \cup entries'
    BY <1>3
  <2>4. /\ GrowsAt(World, World', l)
        /\ World'.strs = strings /\ World'.offsets = bucketOffsets'
        /\ World'.nodes = treeNodes' /\ World'.pool = inputs' \cup entries'
    BY <1>3, <1>14, <2>1, <2>2, <2>3, WorldGrows
  <2>5. QED
    BY <1>3, <1>5, <1>11, <2>4
<1>16. /\ w.strs = strings /\ w.nodes = treeNodes /\ w.pool = inputs \cup entries
       /\ w.offsets = offs
  BY <1>5, <1>11, WorldOK
<1>17. PICK t : t = stack' /\ Returned(stack, t)
  BY <1>3, <1>4, StackReturns
<1>18. v.offsets[f.layer] = Append(w.offsets[f.layer], f.end)
  BY <1>9, <1>10, <1>13, <1>15, <1>16
<1>19. Plan(v, G, t)
  <2>1. NodeOf(f) \in v.nodes
    BY <1>15
  <2>2. GrowsAt(w, v, Len(stack) - 1)
    BY <1>9, <1>15
  <2>3. Closes(w, v, f)
    BY <1>18, <2>1 DEF Closes
  <2>4. QED
    BY <1>4, <1>6, <1>7, <1>17, <2>2, <2>3, PlanReturned
<1>20. NodesOK(v, t)
  <2>1. PICK node : node = NodeOf(f)
    OBVIOUS
  <2>2. node.path = stack[Len(stack)].path
    BY <1>4, <2>1 DEF NodeOf
  <2>3. v.nodes = w.nodes \cup {node} /\ NodesOK(w, stack)
    BY <1>5, <1>15, <1>16, <2>1 DEF RanksInv
  <2>4. QED
    BY <1>4, <1>17, <2>2, <2>3, NodesReturned
<1>21. KeysOK(v, t)
  <2>1. KeysOK(w, stack) /\ v.strs = w.strs /\ v.pool = w.pool
    BY <1>5, <1>15, <1>16 DEF RanksInv
  <2>2. ASSUME Len(t) >= 1
        PROVE  KeysOK(v, t)
    <3>1. \A d \in 1 .. Len(stack) - 1 :
             stack[d].phase # "enter" /\ stack[d].currentBucketBegin = stack[d + 1].end
      BY <1>6 DEF Plan, CallsOK
    <3>2. f.currentBucketBegin \in Nat
      BY <1>7, <1>10
    <3>3. FrontMoves(stack, t)
      BY <1>4, <1>7, <1>17, <2>2, <3>1, <3>2, FrontReturned
    <3>4. QED
      BY <1>4, <2>1, <3>3, KeysStay
  <2>3. ASSUME ~ (Len(t) >= 1)
        PROVE  KeysOK(v, t)
    BY <2>1, <2>3 DEF KeysOK
  <2>4. QED
    BY <2>2, <2>3
<1>22. Rooted(v, G)
  BY <1>6, <1>15, <1>16 DEF Rooted
<1>23. NodesOK(World', stack') /\ KeysOK(World', stack') /\ Rooted(World', G)
       /\ Plan(World', G, stack')
  BY <1>5, <1>17, <1>19, <1>20, <1>21, <1>22
<1>24. UNCHANGED <<pc, entries, asked>>
  BY <1>3
<1>25. QED
  BY <1>4, <1>14, <1>23, <1>24, RunningKept

\* a node is entered
LEMMA EnterNodeRanks ==
    ASSUME RanksInv, MappersMonotone, TreeInv', UNCHANGED indexed,
           (~ indexed /\ EnterNode) \/ (indexed /\ EnterIndexedNode)
    PROVE  RanksInv'
<1>1. TreeInv
  BY DEF RanksInv
<1>2. ASSUME NEW alphabet, NEW node, NEW known, NEW firsts, NEW chunks, Running("enter"),
             EnterSplit(alphabet, node, known, firsts, chunks),
             SplitNode(alphabet, node, known, firsts, chunks)
      PROVE  RanksInv'
  BY <1>2, SplitNodeRanks
<1>3. CASE ~ indexed /\ EnterNode
  <2>1. Running("enter")
    BY <1>3 DEF EnterNode
  <2>2. \E alphabet, node, known, firsts, chunks :
           /\ EnterSplit(alphabet, node, known, firsts, chunks)
           /\ SplitNode(alphabet, node, known, firsts, chunks)
    BY <1>1, <1>3, PrefixNode
  <2>3. QED
    BY <1>2, <2>1, <2>2
<1>4. CASE indexed /\ EnterIndexedNode
  <2>1. Running("enter")
    BY <1>4 DEF EnterIndexedNode
  <2>2. CASE /\ pc' = "thrown"
             /\ UNCHANGED <<strings, lcps, buildVars, entries, asked, answer>>
    <3>1. pc = "nodes"
      BY <2>1 DEF Running
    <3>2. /\ World' = World
          /\ UNCHANGED <<strings, bucketOffsets, stack, treeNodes, inputs, entries, asked>>
      BY <2>2 DEF World, buildVars
    <3>3. QED
      BY <2>2, <3>1, <3>2 DEF RanksInv
  <2>3. CASE \E alphabet, node, known, firsts, chunks :
                 /\ EnterSplit(alphabet, node, known, firsts, chunks)
                 /\ SplitNode(alphabet, node, known, firsts, chunks)
    BY <1>2, <2>1, <2>3
  <2>4. QED
    BY <1>1, <1>4, <2>2, <2>3, IndexedNode
<1>5. QED
  BY <1>3, <1>4

\* Complete
LEMMA CompleteRanks ==
    ASSUME RanksInv, TreeInv', Complete, UNCHANGED indexed
    PROVE  RanksInv'
<1>1. /\ pc = "nodes" /\ stack = <<>> /\ entries' = inputs /\ inputs' = {} /\ pc' = "ready"
      /\ UNCHANGED <<strings, alphabetMaps, bucketOffsets, stack, treeNodes, asked>>
  BY DEF Complete
<1>2. entries = {} /\ asked = NoQuery
  BY <1>1 DEF RanksInv
<1>3. World' = World
  BY <1>1, <1>2 DEF World
<1>4. \E G : Planned(World', G, stack', asked')
  BY <1>1, <1>3 DEF RanksInv
<1>5. QED
  BY <1>1, <1>3, <1>4 DEF RanksInv

\* a query starts at the root
LEMMA AskRanks ==
    ASSUME RanksInv, TreeInv', Ask, UNCHANGED indexed
    PROVE  RanksInv'
<1>1. /\ pc = "ready"
      /\ UNCHANGED <<strings, pc, lcps, alphabetMaps, bucketOffsets, stack, treeNodes,
                     inputs, entries>>
  BY DEF Ask, buildVars
<1>2. PICK j \in 1 .. Len(strings) : asked' = [string |-> strings[j], path |-> Root, layer |-> 0]
  BY DEF Ask, N
<1>3. World' = World
  BY <1>1 DEF World
<1>4. PICK G : Planned(World, G, stack, asked)
  BY <1>1 DEF RanksInv
<1>5. AskedFor(asked', strings, G)
  <2>1. <<Root, j>> \in G
    BY <1>4, WorldOK DEF Planned, Rooted
  <2>2. Len(Root) = 0
    BY DEF Root
  <2>3. QED
    BY <1>2, <2>1, <2>2 DEF AskedFor
<1>6. Planned(World', G, stack', asked')
  BY <1>1, <1>3, <1>4, <1>5, WorldOK DEF Planned
<1>7. QED
  BY <1>1, <1>3, <1>6 DEF RanksInv

-----------------------------------------------------------------------------
(* A query. *)

\* the string of a query is served behind its path
LEMMA AskedServed ==
    ASSUME RanksInv, pc = "ready", NEW G, Planned(World, G, stack, asked), asked # NoQuery
    PROVE  \E p, j : /\ j \in 1 .. Len(strings) /\ Served(World, G, p, j)
                     /\ asked = [string |-> strings[j], path |-> p, layer |-> Len(p)]
<1>1. PICK p, j : /\ j \in 1 .. Len(strings) /\ <<p, j>> \in G
                  /\ asked = [string |-> strings[j], path |-> p, layer |-> Len(p)]
  BY WorldOK DEF Planned, AskedFor
<1>2. PairsOK(World, G, stack) /\ Len(stack) = 0
  BY DEF Planned, Plan, RanksInv
<1>3. PICK x : x = <<p, j>> /\ x \in G
  BY <1>1
<1>4. PICK p2, j2 : x = <<p2, j2>> /\ (Pending(stack, p2, j2) \/ Served(World, G, p2, j2))
  BY <1>2, <1>3 DEF PairsOK
<1>5. p2 = p /\ j2 = j
  BY <1>3, <1>4
<1>6. ~ Pending(stack, p2, j2)
  BY <1>2 DEF Pending
<1>7. QED
  BY <1>1, <1>4, <1>5, <1>6

\* the node of the path is found
LEMMA AskedNodeFound ==
    ASSUME NodesOK(World, stack), NEW node \in treeNodes, node.path = asked.path
    PROVE  AskedNode = node
<1>1. /\ IsFiniteSet(treeNodes)
      /\ \A a, b \in treeNodes : a.path = b.path => a = b
  BY DEF NodesOK, World
<1>2. PICK c : c = AskedNode
  OBVIOUS
<1>3. c \in treeNodes /\ (Cardinality(treeNodes) # 1 => c.path = asked.path)
  BY <1>2 DEF AskedNode
<1>4. CASE Cardinality(treeNodes) = 1
  <2>1. PICK x : treeNodes = {x}
    BY <1>1, <1>4, FS_Singleton
  <2>2. QED
    BY <1>2, <1>3, <2>1
<1>5. CASE Cardinality(treeNodes) # 1
  BY <1>1, <1>2, <1>3, <1>5
<1>6. QED
  BY <1>4, <1>5

\* the only entry of a key
LEMMA EntryOnly ==
    ASSUME KeysOK(World, stack), inputs = {}, NEW range \in Nat, NEW key, NEW v \in Nat,
           v < range, range <= WideCapacity, Input(range, key, v) \in World.pool
    PROVE  Retrieve(entries, range, key) = {v}
<1>1. World.pool = entries
  BY DEF World
<1>2. PICK e : e = Input(range, key, v)
  OBVIOUS
<1>3. e \in entries /\ e.key = key
  BY <1>1, <1>2, EntryKey
<1>4. \A a \in entries : a.key = key => a = Input(range, key, v)
  BY <1>1, <1>2, <1>3 DEF KeysOK
<1>5. QED
  BY <1>1, <1>4, RetrieveHit

\* the bucket that a node finds
LEMMA BucketFinds ==
    ASSUME KeysOK(World, stack), inputs = {}, NEW node, node.path = asked.path,
           NEW chunk, NEW q \in Nat, Finds(World, node, chunk, q)
    PROVE  BucketsOf(node, chunk) = {q}
<1>1. CASE node.mapper = NoAnswer
  <2>1. PICK n : n = node.numChildren
    OBVIOUS
  <2>2. PICK key : key = AlternativeHash(getChild(node.path, chunk))
    OBVIOUS
  <2>3. /\ n \in 1 .. WideCapacity /\ q < n /\ Input(n, key, q) \in World.pool
    BY <1>1, <2>1, <2>2 DEF Finds
  <2>4. n \in Nat /\ n <= WideCapacity
    BY <2>3, WideCapacityAssumption
  <2>5. Retrieve(entries, n, key) = {q}
    BY <2>3, <2>4, EntryOnly
  <2>6. QED
    BY <1>1, <2>1, <2>2, <2>5 DEF BucketsOf
<1>2. CASE node.mapper # NoAnswer
  BY <1>2 DEF BucketsOf, Finds
<1>3. QED
  BY <1>1, <1>2

\* the offsets of a bucket
LEMMA OffsetsFound ==
    ASSUME NEW node, node.offsetsOffset \in Nat, NEW q \in Nat, NEW low, NEW high,
           Spans(bucketOffsets[asked.layer], node.offsetsOffset + q, low, high)
    PROVE  Offset(node, q) = low /\ Offset(node, q + 1) = high
<1>1. PICK o \in Nat : o = node.offsetsOffset
  OBVIOUS
<1>2. PICK at : at = bucketOffsets[asked.layer]
  OBVIOUS
<1>3. PICK k : k = o + q
  OBVIOUS
<1>4. at[k + 1] = low /\ at[k + 2] = high
  BY <1>1, <1>2, <1>3 DEF Spans
<1>5. o + q + 1 = k + 1 /\ o + (q + 1) + 1 = k + 2
  BY <1>3
<1>6. QED
  BY <1>1, <1>2, <1>4, <1>5 DEF Offset

\* the query is answered with the rank
WalkEnds ==
    /\ asked' = NoQuery
    /\ \E j \in 1 .. Len(strings) : answer' = [key |-> strings[j], rank |-> j - 1]

\* the query goes on to a child
WalkGoesOn ==
    UNCHANGED answer /\ \E G : Planned(World, G, stack, asked')

\* what a query finds at its node
WalkFinds(node, chunk, j, p, q, low, high) ==
    /\ asked = [string |-> strings[j], path |-> p, layer |-> Len(p)]
    /\ BucketsOf(node, chunk) = {q} /\ Offset(node, q) = low /\ Offset(node, q + 1) = high

\* what it does with them
RoundWith(size, low, q) ==
    LET Return(r) == /\ answer' = [key |-> asked.string, rank |-> r]
                     /\ asked' = NoQuery
    IN  CASE size = 1 -> Return(low)
          [] size \in (0 .. DirectThreshold - 1) \ {1} ->
               \E r \in Retrieve(entries, size, StringHash(asked.string)) : Return(low + r)
          [] OTHER ->
               /\ asked' = [asked EXCEPT !.path = getChild(@, q), !.layer = @ + 1]
               /\ UNCHANGED answer

\* a round of the loop of operator()
LEMMA WalkRound ==
    ASSUME RanksInv, pc = "ready", NEW G, Planned(World, G, stack, asked),
           NEW j \in 1 .. Len(strings), NEW p \in Seq(Nat), NEW q \in Nat,
           NEW low \in Nat, NEW high \in Nat, low < j, j <= high, high <= Len(strings),
           Settles(World, G, p, q, low, high, j),
           NEW node, NEW chunk, WalkFinds(node, chunk, j, p, q, low, high),
           WalkWith(node, chunk)
    PROVE  WalkEnds \/ WalkGoesOn
<1>1. asked = [string |-> strings[j], path |-> p, layer |-> Len(p)]
      /\ BucketsOf(node, chunk) = {q} /\ Offset(node, q) = low /\ Offset(node, q + 1) = high
  BY DEF WalkFinds
<1>2. PICK size \in Nat : size = high - low /\ size >= 1
  OBVIOUS
<1>3. RoundWith(size, low, q)
  BY <1>1, <1>2 DEF WalkWith, RoundWith
<1>4. asked.string = strings[j] /\ asked.path = p /\ asked.layer = Len(p)
  BY <1>1
<1>5. CASE size = 1
  <2>1. low = j - 1
    BY <1>2, <1>5
  <2>2. answer' = [key |-> asked.string, rank |-> low] /\ asked' = NoQuery
    BY <1>3, <1>5 DEF RoundWith
  <2>3. QED
    BY <1>4, <2>1, <2>2 DEF WalkEnds
<1>6. CASE size # 1 /\ size < DirectThreshold
  <2>1. size \in (0 .. DirectThreshold - 1) \ {1}
    BY <1>6, TreeAssumption
  <2>2. PICK r \in Retrieve(entries, size, StringHash(asked.string)) :
           answer' = [key |-> asked.string, rank |-> low + r] /\ asked' = NoQuery
    BY <1>3, <1>6, <2>1 DEF RoundWith
  <2>3. PICK s \in Nat : s = j - 1 - low
    OBVIOUS
  <2>4. s < size /\ size <= WideCapacity
    <3>1. PICK n \in Nat : n = Len(strings) /\ n <= WideCapacity
      BY WorldOK
    <3>2. WideCapacity \in Nat /\ high <= n
      BY <3>1, WideCapacityAssumption
    <3>3. QED
      BY <1>2, <2>3, <3>1, <3>2
  <2>5. PICK key : key = StringHash(strings[j])
    OBVIOUS
  <2>6. Input(size, key, s) \in World.pool
    BY <1>2, <1>6, <2>3, <2>5, WorldOK DEF Settles
  <2>7. Retrieve(entries, size, key) = {s}
    BY <2>4, <2>6, EntryOnly DEF RanksInv
  <2>8. r = s
    BY <1>4, <2>2, <2>5, <2>7
  <2>9. low + r = j - 1
    BY <2>3, <2>8
  <2>10. QED
    BY <1>4, <2>2, <2>9 DEF WalkEnds
<1>7. CASE ~ (size < DirectThreshold)
  <2>1. size # 1 /\ size \notin (0 .. DirectThreshold - 1) \ {1}
    BY <1>7, TreeAssumption
  <2>2. asked' = [asked EXCEPT !.path = getChild(@, q), !.layer = @ + 1] /\ UNCHANGED answer
    BY <1>3, <2>1 DEF RoundWith
  <2>3. PICK child : child = getChild(p, q)
    OBVIOUS
  <2>4. Len(child) = Len(p) + 1
    BY <2>3 DEF getChild
  <2>5. asked' = [string |-> strings[j], path |-> child, layer |-> Len(child)]
    BY <1>1, <2>2, <2>3, <2>4
  <2>6. <<child, j>> \in G
    BY <1>2, <1>7, <2>3 DEF Settles
  <2>7. AskedFor(asked', strings, G)
    BY <2>5, <2>6 DEF AskedFor
  <2>8. Planned(World, G, stack, asked')
    BY <2>7, WorldOK DEF Planned
  <2>9. QED
    BY <2>2, <2>8 DEF WalkGoesOn
<1>8. QED
  BY <1>5, <1>6, <1>7

\* a step of a query answers it, or leads to the next node
LEMMA WalkOutcome ==
    ASSUME RanksInv, Answering
    PROVE  WalkEnds \/ WalkGoesOn
<1>1. pc = "ready" /\ asked # NoQuery
  BY DEF Answering, Walk, WalkIndexed, Walking
<1>2. PICK G : Planned(World, G, stack, asked)
  BY <1>1 DEF RanksInv
<1>3. PICK p, j : /\ j \in 1 .. Len(strings) /\ Served(World, G, p, j)
                  /\ asked = [string |-> strings[j], path |-> p, layer |-> Len(p)]
  BY <1>1, <1>2, AskedServed
<1>4. asked.string = strings[j] /\ asked.path = p /\ asked.layer = Len(p)
  BY <1>3
<1>5. PICK node \in treeNodes : /\ node.path = p /\ p \in Seq(Nat)
                                /\ Serves(World, G, node, bucketOffsets[Len(p)], j)
  BY <1>3 DEF Served, World
<1>6. PICK q, low, high : ServedBy(World, G, node, bucketOffsets[Len(p)], j, q, low, high)
  BY <1>5 DEF Serves
<1>7. node.offsetsOffset \in Nat
  BY <1>5 DEF Serves
<1>8. /\ q \in Nat /\ low \in Nat /\ high \in Nat /\ low < j /\ j <= high
      /\ high <= Len(strings)
      /\ Spans(bucketOffsets[Len(p)], node.offsetsOffset + q, low, high)
      /\ Finds(World, node, ReadAt(World, node, j), q)
      /\ Settles(World, G, p, q, low, high, j)
  BY <1>5, <1>6, WorldOK DEF ServedBy
<1>9. AskedNode = node
  BY <1>4, <1>5, AskedNodeFound DEF RanksInv
<1>10. PICK chunk : chunk = ReadAt(World, node, j)
  OBVIOUS
<1>11. WalkWith(node, chunk)
  <2>1. CASE ~ indexed /\ Walk
    <3>1. chunk = extractChunk(alphabetMaps, node, asked.string)
      BY <1>4, <1>10, <2>1 DEF ReadAt, ReadBy, Positions, World, extractChunk
    <3>2. QED
      BY <1>9, <2>1, <3>1 DEF Walk
  <2>2. CASE indexed /\ WalkIndexed
    <3>1. chunk = readChunk(MapAt(alphabetMaps, node.alphabetMapIndex), asked.string,
                            getIndexes(node.reads, MaxIndexes(alphabetMaps, node)))
      BY <1>4, <1>10, <2>2 DEF ReadAt, ReadBy, Positions, World, MaxIndexes
    <3>2. QED
      BY <1>9, <2>2, <3>1 DEF WalkIndexed
  <2>3. QED
    BY <2>1, <2>2 DEF Answering
<1>12. WalkFinds(node, chunk, j, p, q, low, high)
  <2>1. inputs = {} /\ KeysOK(World, stack)
    BY <1>1 DEF RanksInv
  <2>2. BucketsOf(node, chunk) = {q}
    BY <1>4, <1>5, <1>8, <1>10, <2>1, BucketFinds
  <2>3. Offset(node, q) = low /\ Offset(node, q + 1) = high
    BY <1>4, <1>7, <1>8, OffsetsFound
  <2>4. QED
    BY <1>3, <2>2, <2>3 DEF WalkFinds
<1>13. QED
  BY <1>1, <1>2, <1>3, <1>5, <1>8, <1>11, <1>12, WalkRound

\* it keeps the invariant
LEMMA AnsweringRanks ==
    ASSUME RanksInv, TreeInv', Answering, UNCHANGED indexed
    PROVE  RanksInv'
<1>1. /\ pc = "ready"
      /\ UNCHANGED <<strings, pc, lcps, alphabetMaps, bucketOffsets, stack, treeNodes,
                     inputs, entries>>
  BY DEF Answering, Walk, WalkIndexed, Walking, WalkWith, buildVars
<1>2. World' = World
  BY <1>1 DEF World
<1>3. \E G : Planned(World, G, stack, asked')
  <2>1. PICK G : Planned(World, G, stack, asked)
    BY <1>1 DEF RanksInv
  <2>2. CASE WalkEnds
    BY <2>1, <2>2 DEF WalkEnds, Planned
  <2>3. CASE WalkGoesOn
    BY <2>3 DEF WalkGoesOn
  <2>4. QED
    BY <2>2, <2>3, WalkOutcome
<1>4. QED
  BY <1>1, <1>2, <1>3 DEF RanksInv

-----------------------------------------------------------------------------
(* The tree implements the abstract hash function. *)

\* every step keeps the invariant
LEMMA RanksInvStep ==
    ASSUME RanksInv, MappersMonotone, [IndexedNext]_<<treeVars, indexed>>
    PROVE  RanksInv'
<1>1. TreeInv'
  BY TreeInvStep DEF RanksInv
<1>2. CASE UNCHANGED <<treeVars, indexed>>
  BY <1>1, <1>2 DEF RanksInv, treeVars, buildVars, World
<1>3. CASE IndexedNext
  <2>1. UNCHANGED indexed
    BY <1>3 DEF IndexedNext
  <2>2. CASE Build
    BY <1>1, <2>1, <2>2, ComputeLCPsRanks, EnterNodeRanks, CloseBucketRanks,
       NextChunkRanks, CloseLastBucketRanks, StoreChunkRankRanks, LeaveNodeRanks,
       CompleteRanks DEF Build, ChildLoops
  <2>3. CASE Ask
    BY <1>1, <2>1, <2>3, AskRanks
  <2>4. CASE Answering
    BY <1>1, <2>1, <2>4, AnsweringRanks
  <2>5. QED
    BY <1>3, <2>2, <2>3, <2>4 DEF IndexedNext
<1>4. QED
  BY <1>2, <1>3

\* the initial states
LEMMA InitRanks ==
    ASSUME IndexedInit, indexed \/ PrefixesFit(strings)
    PROVE  RanksInv
<1>1. TreeInv
  BY InitOK
<1>2. /\ pc = "lcps" /\ stack = <<>> /\ treeNodes = {} /\ inputs = {} /\ entries = {}
      /\ asked = NoQuery /\ bucketOffsets = [layer \in 0 .. N - 1 |-> <<>>]
  BY DEF IndexedInit, Init
<1>3. bucketOffsets \in [0 .. Len(strings) - 1 -> Seq(Nat)]
  BY <1>2 DEF N
<1>4. World.nodes = {} /\ World.pool = {}
  BY <1>2 DEF World
<1>5. NodesOK(World, stack) /\ KeysOK(World, stack)
  BY <1>4, FS_EmptySet DEF NodesOK, KeysOK
<1>6. QED
  BY <1>1, <1>2, <1>3, <1>5 DEF RanksInv

\* every step maps to one of the abstract hash function, or to none
LEMMA StepImplements ==
    ASSUME RanksInv, [IndexedNext]_<<treeVars, indexed>>
    PROVE  [Abstract!Next]_<<strings, pc = "ready", answer>>
<1>1. CASE UNCHANGED <<treeVars, indexed>>
  BY <1>1 DEF treeVars
<1>2. CASE Complete
  <2>1. pc = "nodes" /\ pc' = "ready" /\ UNCHANGED <<strings, answer>>
    BY <1>2 DEF Complete
  <2>2. Abstract!Construct
    BY <2>1 DEF Abstract!Construct
  <2>3. QED
    BY <2>2 DEF Abstract!Next
<1>3. CASE Build /\ ~ Complete
  <2>1. CASE ComputeLCPs
    BY <2>1 DEF ComputeLCPs
  <2>2. CASE (~ indexed /\ EnterNode) \/ (indexed /\ EnterIndexedNode)
    <3>1. Running("enter")
      BY <2>2 DEF EnterNode, EnterIndexedNode
    <3>2. \/ pc' = "thrown" /\ UNCHANGED <<strings, answer>>
          \/ \E alphabet, node, known, firsts, chunks :
                SplitNode(alphabet, node, known, firsts, chunks)
      BY <2>2, PrefixNode, IndexedNode DEF RanksInv
    <3>3. CASE \E alphabet, node, known, firsts, chunks :
                  SplitNode(alphabet, node, known, firsts, chunks)
      BY <3>1, <3>3 DEF SplitNode, Running
    <3>4. QED
      BY <3>1, <3>2, <3>3 DEF Running
  <2>3. CASE CloseBucket
    BY <2>3 DEF CloseBucket, Running, constructChild
  <2>4. CASE NextChunk
    BY <2>4 DEF NextChunk, Running, Advance
  <2>5. CASE CloseLastBucket
    BY <2>5 DEF CloseLastBucket, Running, constructChild, Advance
  <2>6. CASE StoreChunkRank
    BY <2>6 DEF StoreChunkRank, Running, constructChild
  <2>7. CASE LeaveNode
    BY <2>7 DEF LeaveNode, Running
  <2>8. QED
    BY <1>3, <2>1, <2>2, <2>3, <2>4, <2>5, <2>6, <2>7 DEF Build, ChildLoops
<1>4. CASE Ask
  BY <1>4 DEF Ask
<1>5. CASE Answering
  <2>1. pc = "ready" /\ UNCHANGED <<strings, pc>>
    BY <1>5 DEF Answering, Walk, WalkIndexed, Walking, WalkWith
  <2>2. CASE WalkEnds
    <3>1. PICK j \in 1 .. Len(strings) : answer' = [key |-> strings[j], rank |-> j - 1]
      BY <2>2 DEF WalkEnds
    <3>2. Len(strings) \in Nat
      BY WorldOK
    <3>3. PICK k \in 0 .. Len(strings) - 1 : j = k + 1 /\ k = j - 1
      BY <3>2
    <3>4. answer' = [key |-> strings[k + 1], rank |-> k]
      BY <3>1, <3>3
    <3>5. Abstract!Query
      BY <2>1, <3>4 DEF Abstract!Query
    <3>6. QED
      BY <3>5 DEF Abstract!Next
  <2>3. CASE WalkGoesOn
    BY <2>1, <2>3 DEF WalkGoesOn
  <2>4. QED
    BY <1>5, <2>2, <2>3, WalkOutcome
<1>6. QED
  BY <1>1, <1>2, <1>3, <1>4, <1>5 DEF IndexedNext

(***************************************************************************)
(* The inductive invariant of the ranks: there are pairs of a path and a   *)
(* string, with the root and every string among them, so that a call on    *)
(* the stack still has to leave the node behind the path, or the node is   *)
(* in the tree and finds for the string a bucket whose offsets enclose its *)
(* rank; a bucket that does not store the rank leads to another pair.      *)
(***************************************************************************)
THEOREM RanksInvTheorem ==
    ASSUME MappersMonotone
    PROVE  FairSpec /\ (indexed \/ PrefixesFit(strings)) => []RanksInv
<1>1. IndexedInit /\ (indexed \/ PrefixesFit(strings)) => RanksInv
  BY InitRanks
<1>2. RanksInv /\ [IndexedNext]_<<treeVars, indexed>> => RanksInv'
  BY RanksInvStep
<1>3. QED
  BY <1>1, <1>2, PTL DEF FairSpec

(***************************************************************************)
(* The trees of LeMonHashVL and LeMonHashVLIndexed implement the abstract  *)
(* minimal perfect hash function, whatever the strings and thresholds, if  *)
(* bucket mappers are monotonic: the walk down nodes, offsets and stored   *)
(* ranks ends at the rank of the string.  For the nodes of LeMonHashVL the *)
(* length of every common prefix has to fit its bits.                      *)
(***************************************************************************)
THEOREM TreeImplementsTheorem ==
    ASSUME MappersMonotone
    PROVE  FairSpec /\ (indexed \/ PrefixesFit(strings)) => TreeImplementsMMPHF
<1>1. IndexedInit => Abstract!Init
  BY DEF IndexedInit, Init, Abstract!Init
<1>2. RanksInv /\ [IndexedNext]_<<treeVars, indexed>>
         => [Abstract!Next]_<<strings, pc = "ready", answer>>
  BY StepImplements
<1>3. QED
  BY <1>1, <1>2, RanksInvTheorem, PTL DEF FairSpec, TreeImplementsMMPHF, Abstract!Spec
=============================================================================
