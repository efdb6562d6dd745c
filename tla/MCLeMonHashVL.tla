--------------------------- MODULE MCLeMonHashVL ----------------------------
(* Small instances of LeMonHashVL and LeMonHashVLIndexed. *)
EXTENDS LeMonHashVLIndexed

SortedStrings(S) ==
    [k \in 1 .. Cardinality(S) |->
        CHOOSE s \in S : Cardinality({t \in S \ {s} : Precedes(t, s)}) = k - 1]

\* every three or four strings of up to two characters
ShortStrings == UNION {[1 .. n -> {1, 3}] : n \in 0 .. 2}
ShortTexts == {T \in SUBSET ShortStrings : Cardinality(T) \in 3 .. 4}

Ones(n) == [k \in 1 .. n |-> 1]

\* children of three strings, each with an alphabet of c only
Children(head, c) == {head, head \o [k \in 1 .. 5 |-> c], head \o [k \in 1 .. 6 |-> c]}

\* branches far apart, alphabets that differ in branches, long prefixes
LongTexts ==
    {{Ones(n) : n \in {1, 3, 5, 9}},
     {Ones(n) : n \in {2, 3, 4, 5, 7}},
     {Ones(n) : n \in {0, 2, 4, 5, 6, 7, 8}},
     {Ones(n) : n \in {8, 9, 10}},
     {Ones(6) \o <<2>> \o t : t \in {<<1>>, <<1, 2>>, <<2>>, <<3>>}} \cup {Ones(6) \o <<3>>},
     {<<1>> \o t : t \in {<<>>, <<1>>}}
        \cup {<<2>> \o t : t \in {<<2, 2>>, <<3, 2>>, <<3, 3, 3>>, <<3, 3, 3, 2>>}},
     {<<1, a, b, c>> : a \in {1}, b \in {2, 3}, c \in {1, 3}} \cup {<<1, 2, 2>>, <<1, 3, 2>>},
     Children(<<1, 1>>, 1) \cup Children(<<1, 2>>, 1) \cup Children(<<3, 3>>, 3),
     Children(<<1, 1>>, 3) \cup Children(<<2, 2>>, 2) \cup Children(<<3, 3>>, 1),
     {<<3, 1>> \o Ones(n) : n \in {0, 4}}
        \cup {<<3, 3, 2, 2>> \o t : t \in {<<>>, <<1>>, <<1, 1>>, <<1, 3>>}}}

Texts == {SortedStrings(T) : T \in ShortTexts \cup LongTexts}

\* monotonic mappers: one bucket for all, a bucket for the first or the last
\* chunk with an empty one beside it, and one for each of the first chunks
SmallMappers(chunks) ==
    LET set == {chunks[c] : c \in 1 .. Len(chunks)}
    IN  {[numBuckets |-> 3, bucketOf |-> [c \in set |-> IF c < cut THEN 0 ELSE 2]] :
            cut \in {chunks[2], chunks[Len(chunks)], chunks[Len(chunks)] + 1}}
        \cup {[numBuckets |-> 3,
               bucketOf |-> [c \in set |-> Least(Cardinality({d \in set : d < c}), 2)]]}
=============================================================================
