--------------------------- MODULE MCSplineIndex -----------------------------
(* Small instances of SplineIndex. *)
EXTENDS SplineIndex

\* the elements of S in increasing order
Sorted(S) == LET Member(k) == k \in S
             IN  SelectSeq([i \in 1 .. 12 |-> i - 1], Member)

\* every non-empty set of keys in 0 .. 10, sorted: up to eleven distinct keys
DistinctKeys == {Sorted(S) : S \in SUBSET (0 .. 10) \ {{}}}

\* every sorted sequence of n keys in 0 .. 4
SortedSequences(n) ==
    {d \in [1 .. n -> 0 .. 4] : \A i \in 1 .. n - 1 : d[i] <= d[i + 1]}

\* up to seven keys with any number of duplicates of all keys but the last
DuplicateKeys ==
    {d \in UNION {SortedSequences(n) : n \in 2 .. 7} :
        d[Len(d) - 1] < d[Len(d)]}

\* duplicates of the largest key as well
DuplicateMaxima == UNION {SortedSequences(n) : n \in 6 .. 7}

DistinctOrDuplicate == DistinctKeys \cup DuplicateKeys
=============================================================================
