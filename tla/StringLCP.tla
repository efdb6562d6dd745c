----------------------------- MODULE StringLCP -----------------------------
(***************************************************************************)
(* lemonhash::LCP (support/util.h): the longest common prefix of two       *)
(* strings, compared a word at a time.  minLength - 8 is unsigned and      *)
(* wraps around for shorter strings, so the word loop then reads past the  *)
(* terminators; `after` holds the bytes that happen to lie there.          *)
(***************************************************************************)
EXTENDS AlphabetMap

CONSTANTS ComparedTexts,  \* the strings to compare, without terminator
          WordBytes,      \* 8: sizeof(uint64_t)
          Wrapped         \* 2^64, or anything above every length

ASSUME LCPAssumption ==
    /\ WordBytes \in Nat \ {0} /\ Wrapped \in Nat
    /\ \A s \in ComparedTexts : s \in Seq(Chars \ {0}) /\ Len(s) < Wrapped - WordBytes

VARIABLES s1, s2,       \* the strings
          after1, after2,  \* memory behind their terminators
          lcp, loop     \* the loop variable and the loop that is running

compareVars == <<s1, s2, after1, after2, lcp, loop>>

\* one word may start at the terminator of the longer text
BytesAfter(s) == [Len(s) + 1 .. Len(s) + WordBytes -> Chars]

SameByte(j) == Byte(s1, j, after1) = Byte(s2, j, after2)

\* variant that compares one byte of the word
SameFirstByte(j) == SameByte(j)

SameWord(j) == \A b \in j .. j + WordBytes - 1 : SameByte(b)

minLength == Least(Len(s1), Len(s2))

\* minLength - 8 on size_t
Limit == (minLength - WordBytes) % Wrapped

CompareInit ==
    /\ s1 \in ComparedTexts /\ s2 \in ComparedTexts \ {s1}
    /\ after1 \in BytesAfter(s1) /\ after2 \in BytesAfter(s2)
    /\ lcp = 0
    /\ loop = "words"

\* variant that does not look at the remainder of the word
StopAtWord == lcp' = lcp

\* std::countr_zero of the exclusive or finds the first differing byte
FirstDifference ==
    lcp' = CHOOSE j \in lcp .. lcp + WordBytes - 1 :
              ~ SameByte(j) /\ \A k \in lcp .. j - 1 : SameByte(k)

CompareWord ==
    /\ loop = "words"
    /\ CASE lcp < Limit /\ SameWord(lcp) -> lcp' = lcp + WordBytes /\ loop' = loop
         [] lcp < Limit /\ ~ SameWord(lcp) -> FirstDifference /\ loop' = "done"
         [] OTHER -> loop' = "bytes" /\ UNCHANGED lcp
    /\ UNCHANGED <<s1, s2, after1, after2>>

CompareByte ==
    /\ loop = "bytes"
    /\ IF lcp < minLength /\ SameByte(lcp)
       THEN lcp' = lcp + 1 /\ loop' = loop
       ELSE loop' = "done" /\ UNCHANGED lcp
    /\ UNCHANGED <<s1, s2, after1, after2>>

CompareNext == CompareWord \/ CompareByte

CompareSpec == CompareInit /\ [][CompareNext]_compareVars

-----------------------------------------------------------------------------
\* the branching characters of the result
BranchingCharacter(s) == IF lcp < Len(s) THEN s[lcp + 1] ELSE 0

(***************************************************************************)
(* The loop never reads beyond the word that holds a terminator, even when *)
(* the limit has wrapped around: distinct strings differ at a terminator   *)
(* at the latest.                                                          *)
(***************************************************************************)
ReadsStayClose ==
    loop = "words" /\ lcp < Limit => lcp <= minLength

(***************************************************************************)
(* The result is the longest common prefix, whatever lies in memory behind *)
(* the strings, and the branching characters differ.                       *)
(***************************************************************************)
LCPExact ==
    loop = "done" => /\ lcp <= minLength
                     /\ \A j \in 1 .. lcp : s1[j] = s2[j]
                     /\ BranchingCharacter(s1) # BranchingCharacter(s2)
=============================================================================
