----------------------------- MODULE MCRSHash4s -----------------------------
(***************************************************************************)
(* Small instances of RSHash4s, on the splines of the builder, and of LCP, *)
(* the loops it starts with.  A behaviour either compares two texts or     *)
(* builds and queries a hash function.                                     *)
(***************************************************************************)
EXTENDS RSHash4sSpline, StringLCP

\* texts to compare: all of up to two bytes, and some of more words of two bytes
ShortTexts == UNION {[1 .. n -> {1, 2}] : n \in 0 .. 2}
LongTexts == {<<1, 1, 1>>, <<1, 1, 1, 2>>, <<1, 1, 1, 1, 1>>, <<1, 1, 2, 1, 1>>,
              <<1, 1, 1, 1, 2, 1, 1>>, <<1, 1, 1, 1, 1, 1, 1, 2>>}
SomeTexts == ShortTexts \cup LongTexts

\* every string of one to three characters 1 and 2, in lexicographic order
Listed ==
    << <<1>>, <<1, 1>>, <<1, 1, 1>>, <<1, 1, 2>>, <<1, 2>>, <<1, 2, 1>>,
       <<1, 2, 2>>, <<2>>, <<2, 1>>, <<2, 1, 1>>, <<2, 1, 2>>, <<2, 2>>,
       <<2, 2, 1>>, <<2, 2, 2>> >>

InOrder(S) == LET Member(s) == s \in S
              IN  SelectSeq(Listed, Member)

\* the depths 0 and 3 are in use and one string has two characters: it is read
\* behind its end.  Whatever is read there, no estimate is a whole number that
\* rounding could change
GapInputs ==
    {<< <<1, 1, 1, 1>>, <<1, 1, 1, 2>>, <<1, 1, 1, 3>>, <<2, 1>>, <<3, 1, 1, 2>> >>}

\* the same with the short string at either end
GapsAtEnds ==
    {<< <<1, 1, 1, 1>>, <<1, 1, 1, 3>>, <<2, 1>> >>,
     << <<1, 1>>, <<2, 1, 1, 1>>, <<2, 1, 1, 2>>, <<2, 1, 1, 3>> >>}

\* every two to four strings of Listed, and those above
AllInputs ==
    {InOrder(S) : S \in {T \in SUBSET {Listed[k] : k \in 1 .. Len(Listed)} :
                            Cardinality(T) \in 2 .. 4}} \cup GapInputs \cup GapsAtEnds

\* nothing is compared
NoComparison == /\ s1 = <<>> /\ s2 = <<>>
                /\ after1 = <<>> /\ after2 = <<>>
                /\ lcp = 0 /\ loop = "none"

LCPOrHashInit == /\ SplineStringsInit
                 /\ \/ NoComparison
                    \/ CompareInit /\ strings \in GapInputs

LCPOrHashNext == \/ /\ loop = "none"
                    /\ SplineStringsNext
                    /\ UNCHANGED compareVars
                 \/ /\ CompareNext
                    /\ UNCHANGED <<vars, stringVars, builderVars>>

LCPOrHashSpec ==
    LCPOrHashInit /\ [][LCPOrHashNext]_<<vars, stringVars, builderVars, compareVars>>
=============================================================================
