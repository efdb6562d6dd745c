--------------------------- MODULE RSHash4sSpline ---------------------------
(***************************************************************************)
(* RSHash4s on the spline its constructor really builds from the chunks,   *)
(* as RSHashSpline is for RSHash.  The builder is made when all chunks are *)
(* there; a query interpolates the spline also for chunks it was not built *)
(* from.                                                                   *)
(***************************************************************************)
EXTENDS RSHash4s

CONSTANTS LinearSearchLimit, KeyBits, MaxErrors, RadixBits, UndefinedShifts

VARIABLES num_shift_bits, max_error, curr_num_keys, curr_num_distinct_keys,
          prev_key, prev_position, prev_prefix, radix_table, spline_points,
          upper_limit, lower_limit, prev_point, built

builderVars == <<num_shift_bits, max_error, curr_num_keys, curr_num_distinct_keys,
                 prev_key, prev_position, prev_prefix, radix_table, spline_points,
                 upper_limit, lower_limit, prev_point, built>>

Composed == INSTANCE RSHashSpline

\* there is a builder: its table has an entry at least
BuilderMade == radix_table # <<>>

SplineStringsInit ==
    /\ StringsInit
    /\ num_shift_bits = 0 /\ max_error = 0
    /\ curr_num_keys = 0 /\ curr_num_distinct_keys = 0
    /\ prev_key = 0 /\ prev_position = 0 /\ prev_prefix = 0
    /\ radix_table = <<>> /\ spline_points = <<>>
    /\ upper_limit = Composed!Coord(0, 0) /\ lower_limit = Composed!Coord(0, 0)
    /\ prev_point = Composed!Coord(0, 0)
    /\ built = FALSE

ReadStrings == /\ ComputeLCPs \/ BuildAlphabets \/ ReadChunk
               /\ UNCHANGED builderVars

\* rs::Builder rsb(data.front(), data.back(), 10, 256)
MakeBuilder ==
    /\ pc = "spline" /\ ~ BuilderMade /\ Sorted(data)
    /\ LET range == Composed!max_key - Composed!min_key
       IN  /\ \E bits \in RadixBits :
                 num_shift_bits' \in Composed!GetNumShiftBits(range, bits)
           /\ radix_table' =
                 [p \in 0 .. Composed!ShiftRight(range, num_shift_bits') + 1 |-> 0]
    /\ max_error' \in MaxErrors
    /\ prev_key' = Composed!min_key
    /\ UNCHANGED <<curr_num_keys, curr_num_distinct_keys, prev_position, prev_prefix,
                   spline_points, upper_limit, lower_limit, prev_point, built>>
    /\ UNCHANGED <<vars, stringVars>>

AddKeyOfChunks == /\ BuilderMade
                  /\ Composed!AddKeyOfData
                  /\ UNCHANGED stringVars

UseSplineOfChunks == /\ BuilderMade
                     /\ Composed!UseSpline
                     /\ UNCHANGED stringVars

HashChunks == /\ ScanRound \/ BuildRetrieval \/ PushCount \/ Finish
              /\ UNCHANGED <<stringVars, builderVars>>

\* the estimate of a chunk, the same on every call
EstimatesOnSpline(r) ==
    IF r \in KeySet THEN {est[r]}
    ELSE Composed!Estimates(Composed!Spline, r)

RanksOnSpline(s) ==
    UNION {UNION {RanksAt(e, r) : e \in EstimatesOnSpline(r)} :
              r \in Chunks(am, s, minLCP)}

QueryOnSpline ==
    /\ pc = "ready"
    /\ \E k \in 1 .. Len(strings) : \E r \in RanksOnSpline(strings[k]) :
          answer' = [key |-> strings[k], rank |-> r]
    /\ UNCHANGED <<stringVars, data, est, pc, scanVars, entries, offsetVars, pushed,
                   builderVars>>

SplineStringsNext == \/ ReadStrings
                     \/ MakeBuilder
                     \/ AddKeyOfChunks
                     \/ UseSplineOfChunks
                     \/ HashChunks
                     \/ QueryOnSpline

SplineStringsSpec ==
    SplineStringsInit /\ [][SplineStringsNext]_<<vars, stringVars, builderVars>>

-----------------------------------------------------------------------------
(***************************************************************************)
(* With the builder's own spline every step is a step of RSHash4s as that  *)
(* module has it, or a stutter: estimates of chunks meet EstimateContract, *)
(* a chunk that was read differently is estimated between its neighbours,  *)
(* and no query meets a bucket that is not there.  (Initial states are     *)
(* those of RSHash4s by definition.)                                       *)
(***************************************************************************)
ImplementsRSHash4s == [][StringsNext]_<<vars, stringVars>>

(***************************************************************************)
(* Every string is mapped to its rank.  RSHashBenchmark.hpp verifies it    *)
(* for every input: "Error verifying key".                                 *)
(***************************************************************************)
StringRankCorrect ==
    pc = "ready" =>
        \A k \in 1 .. Len(strings) : RanksOnSpline(strings[k]) = {k - 1}
=============================================================================
