---------------------------- MODULE RSHashSpline ----------------------------
(***************************************************************************)
(* RSHash on the spline its constructor really builds: SplineBuilder runs  *)
(* first, on the same keys, and the estimates RSHash scans are those of    *)
(* the finished spline, truncated to size_t in every way the build may.    *)
(* The module shows that this is an RSHash as module RSHash has it, whose  *)
(* spline is only known to meet EstimateContract.                          *)
(***************************************************************************)
EXTENDS SplineBuilder

CONSTANTS WideCapacity, MaxEstimate, NoAnswer

VARIABLES est, pc, i, last_p, counts, inputs, entries,
          ones, bv_size, position, selectable, pushed, answer

hashVars == <<est, pc, i, last_p, counts, inputs, entries,
              ones, bv_size, position, selectable, pushed, answer>>

Hash == INSTANCE RSHash

\* RSHash is built from distinct keys; MaxEstimate leaves room for their positions
HashableKeys == /\ \A j, k \in 1 .. Len(data) : j < k => data[j] < data[k]
                /\ 0 .. Len(data) - 1 \subseteq 0 .. MaxEstimate

ComposedInit == Init /\ HashableKeys /\ Hash!Init

\* for (const auto& key : data) rsb.AddKey(key)
AddKeyOfData == /\ pc = "spline"
                /\ AddNextKey
                /\ UNCHANGED hashVars

\* keys whose estimate may come out one too low
MayLose(spl) == {key \in Hash!KeySet : MayLoseOne(GetEstimatedPosition(spl, key))}

\* GetEstimatedPosition as size_t, one less for the keys in `lost`
Truncated(spl, lost) ==
    [key \in Hash!KeySet |->
        LET e == GetEstimatedPosition(spl, key)
        IN  e.num \div e.den - (IF key \in lost THEN 1 ELSE 0)]

\* rs = rsb.Finalize()
UseSpline ==
    /\ pc = "spline"
    /\ FinalizeAtEnd
    /\ \E lost \in SUBSET MayLose(Spline') : est' = Truncated(Spline', lost)
    /\ pc' = "scan"
    /\ UNCHANGED <<i, last_p, counts, inputs, entries,
                   ones, bv_size, position, selectable, pushed, answer>>

WithSpline(A) == A /\ UNCHANGED vars

ComposedConstructor == \/ AddKeyOfData \/ UseSpline
                       \/ WithSpline(Hash!ScanRound)
                       \/ WithSpline(Hash!BuildRetrieval)
                       \/ WithSpline(Hash!PushCount)
                       \/ WithSpline(Hash!Finish)

ComposedNext == ComposedConstructor \/ WithSpline(Hash!Query)

ComposedSpec == ComposedInit /\ [][ComposedNext]_<<vars, hashVars>>

-----------------------------------------------------------------------------
(***************************************************************************)
(* The builder only yields estimates RSHash can work with: monotone, zero  *)
(* for the smallest key, and below the bound.                              *)
(***************************************************************************)
ImplementsRSHash == Hash!Spec

(***************************************************************************)
(* The error bound of the spline bounds the buckets, and with them the     *)
(* ranges that reach the retrieval structure.                              *)
(***************************************************************************)
BucketsBounded ==
    built => \A b \in 1 .. Len(counts) : counts[b] <= 2 * max_error
=============================================================================
