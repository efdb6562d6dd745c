----------------------------- MODULE SplineIndex -----------------------------
(***************************************************************************)
(* The two containers that search their keys through a radix spline:       *)
(* rs::MultiMap (extlib/RadixSpline/include/rs/multi_map.h) and the        *)
(* competitor radixSplineMethods::RS (include/RS.hpp).  Both copy the      *)
(* keys, index the copy with a Builder and answer with std::lower_bound    *)
(* inside the search bound.  MultiMap stores its elements in the order it  *)
(* gets them; `data` is that copy, values being their positions.  The      *)
(* constructors are the steps of SplineBuilder.                            *)
(***************************************************************************)
EXTENDS SplineBuilder

\* std::lower_bound over [bound.begin, bound.end)
LowerBoundIn(bound, key) ==
    LeastIndex({j \in bound.begin .. bound.end - 1 : data[j + 1] >= key}
                       \cup {bound.end})

\* MultiMap::lower_bound and RS::operator(), for every bound the build may use
lower_bound(key) ==
    {LowerBoundIn(b, key) : b \in SearchBounds(Spline, key)}

end == Len(data)

\* MultiMap::find
find(key) == {IF j # end /\ data[j + 1] = key THEN j ELSE end :
                 j \in lower_bound(key)}

\* what std::multimap answers
FirstAtLeast(key) ==
    LeastIndex({j \in 0 .. Len(data) - 1 : data[j + 1] >= key} \cup {end})

Keys == {data[j] : j \in 1 .. Len(data)}

\* stored keys, the gaps between them and both sides beyond
Probes == 0 .. max_key + 2

-----------------------------------------------------------------------------
(***************************************************************************)
(* find returns an element with the key exactly when there is one, with    *)
(* duplicates of any key but the largest; and over distinct keys           *)
(* lower_bound is that of std::multimap for absent keys as well: the       *)
(* search bound of a key between two stored ones reaches the larger one.   *)
(***************************************************************************)
LookupsLikeMultimap ==
    built => \A key \in Probes :
        /\ \A j \in find(key) :
               (key \in Keys <=> j # end) /\ (j # end => data[j + 1] = key)
        /\ curr_num_distinct_keys = Len(data) => lower_bound(key) = {FirstAtLeast(key)}
=============================================================================
