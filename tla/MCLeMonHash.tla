--------------------------- MODULE MCLeMonHash ------------------------------
(* Small instances of LeMonHash with its mappers, and LeMonHashHeuristic. *)
EXTENDS LeMonHashPGM, LinearBucketMapper

\* the increasing sequence of a set of numbers
Increasing(S) == [j \in 1 .. Cardinality(S) |->
                     CHOOSE x \in S : Cardinality({y \in S : y < x}) = j - 1]

\* keys out of order
Disordered == {<<1, 0>>, <<1, 1>>, <<0, 2, 1, 3>>, <<0, 2, 2>>, <<3, 1, 4, 4>>,
               <<1, 0, 3, 5>>, <<2, 1, 3, 9>>,
               <<50, 0, 1, 2, 12, 13, 14, 24, 25, 26, 40, 41, 42, 60, 61, 62, 63, 100>>}

\* keys with a line through the lower end of a bar, where intercept and slope are whole
Touching == {<<0, 1, 35, 36, 37, 38, 54, 55, 91, 121>>}

\* the same with an epsilon that the mappers try
TouchingAtThree == {<<0, 6, 7, 8, 33, 34, 41, 42, 54, 55, 132>>}

\* keys whose ranks bend often, so that they need several segments
Bends == {<<0, 1, 2, 12, 13, 14, 24, 25, 26, 40>>, <<0, 1, 3, 6, 10, 15, 21, 28, 36>>,
          <<0, 9, 10, 11, 30, 31, 32, 33, 50, 51>>, <<0, 1, 16, 18, 19, 20, 21, 22, 52, 60, 61>>,
          <<2, 12, 22, 23, 24, 25, 35, 45, 46, 47, 60>>,
          <<0, 18, 95, 96, 97, 133, 134, 135, 136, 210, 300, 301, 302, 303, 304>>}

\* every set of up to seven keys
KeySequences ==
    {Increasing(S) : S \in SUBSET (0 .. 6) \ {{}}}
        \cup {<<0, 20, 21, 40, 61, 80, 100>>} \cup Disordered \cup Bends \cup Touching

IndexedKeys == {Increasing(S) : S \in SUBSET (0 .. 5)} \cup Disordered \cup Bends \cup Touching

\* the linear mapper, and for few keys any mapper at all
Mappers(d) ==
    (IF LinearDefined(d) THEN {LinearMapper(d)} ELSE {})
        \cup {[numBuckets |-> b, bucketOf |-> f] :
                b \in {3}, f \in [{d[j] : j \in 1 .. Len(d)} ->
                                     IF Len(d) <= 3 THEN 0 .. 2 ELSE 0 .. 0]}
=============================================================================
