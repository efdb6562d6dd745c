------------------------------ MODULE MCRSHash ------------------------------
(***************************************************************************)
(* Small instances of RSHash: on the splines of the builder, and on every  *)
(* spline that meets EstimateContract.                                     *)
(***************************************************************************)
EXTENDS RSHash

CONSTANTS LinearSearchLimit, KeyBits, MaxErrors, RadixBits, UndefinedShifts

VARIABLES num_shift_bits, max_error, curr_num_keys, curr_num_distinct_keys,
          prev_key, prev_position, prev_prefix, radix_table, spline_points,
          upper_limit, lower_limit, prev_point, built

Composed == INSTANCE RSHashSpline

\* the elements of S in increasing order
Sorted(S) == LET Member(n) == n \in S
             IN  SelectSeq([n \in 1 .. 12 |-> n - 1], Member)

\* every set of keys in 0 .. 8 that holds 0, as only differences matter
KeySequences == {Sorted(S \cup {0}) : S \in SUBSET (1 .. 8)}

\* one to four keys on which any spline is tried, and five
AnySplineFor == {<<0>>, <<0, 1>>, <<0, 2, 3>>, <<0, 2, 5, 6>>, <<0, 1, 2, 4, 8>>}

\* any spline in place of the one the builder makes
AnySpline == /\ curr_num_keys = 0
             /\ data \in AnySplineFor
             /\ Composed!WithSpline(BuildSpline)

AnyConstructor == Composed!ComposedConstructor \/ AnySpline

AnyNext == AnyConstructor \/ Composed!WithSpline(Query)

AnySpec == /\ Composed!ComposedInit
           /\ [][AnyNext]_<<vars, Composed!vars>>
           /\ WF_<<vars, Composed!vars>>(AnyConstructor)

-----------------------------------------------------------------------------
(***************************************************************************)
(* RSHash with the spline of the builder is an RSHash whose estimates meet *)
(* EstimateContract.                                                       *)
(***************************************************************************)
ImplementsRSHash == Composed!ImplementsRSHash

(***************************************************************************)
(* The error bound of the spline bounds the buckets.                       *)
(***************************************************************************)
BucketsBounded == Composed!BucketsBounded
=============================================================================
