------------------------------ MODULE RSHash4s ------------------------------
(***************************************************************************)
(* rshash::RSHash4s (include/RSHash4s.hpp), the hash function for strings: *)
(* it reduces every string to a 64-bit chunk of the characters at which    *)
(* the strings branch, and is an RSHash of the chunks from there on.  Its  *)
(* scan, offsets and retrieval are the code of RSHash once more, so the    *)
(* actions are those of module RSHash with the chunks as `data`.           *)
(***************************************************************************)
EXTENDS RSHash, AlphabetMaps

CONSTANT StringInputs  \* sorted sequences of distinct strings

ASSUME StringInputsAssumption ==
    \A strs \in StringInputs :
        /\ strs \in Seq(Seq(Chars \ {0}))
        /\ Len(strs) \in 2 .. WideCapacity
        /\ \A k \in 1 .. Len(strs) - 1 : Precedes(strs[k], strs[k + 1])

VARIABLES strings, lcps, minLCP, am

stringVars == <<strings, lcps, minLCP, am>>

StringsInit ==
    /\ strings \in StringInputs
    /\ lcps = <<>> /\ minLCP = 0
    /\ am = [ams |-> <<>>, max_branching_num |-> 0, j_list |-> <<>>]
    /\ data = <<>> /\ est = <<>> /\ pc = "lcps"
    /\ i = 0 /\ last_p = 0 /\ counts = <<>>
    /\ inputs = {} /\ entries = {}
    /\ OffsetsEmpty
    /\ pushed = 0
    /\ answer = NoAnswer

hashVars == <<est, scanVars, entries, offsetVars, pushed, answer>>

ComputeLCPs ==
    /\ pc = "lcps"
    /\ lcps' = computeLCPs(strings)
    /\ minLCP' = MinLCP(lcps')
    /\ pc' = "alphabets"
    /\ UNCHANGED <<strings, am, data, hashVars>>

BuildAlphabets ==
    /\ pc = "alphabets"
    /\ am' = AlphabetMapsOf(lcps, minLCP)
    /\ pc' = "chunks"
    /\ UNCHANGED <<strings, lcps, minLCP, data, hashVars>>

\* one round of the loop over a copy of each string
ReadChunk ==
    /\ pc = "chunks" /\ N < Len(strings)
    /\ \E r \in Chunks(am, strings[N + 1], minLCP) : data' = Append(data, r)
    /\ pc' = IF N' = Len(strings) THEN "spline" ELSE pc
    /\ UNCHANGED <<stringVars, hashVars>>

Sorted(d) == \A k \in 1 .. Len(d) - 1 : d[k] <= d[k + 1]

\* the builder asserts that the keys it is given do not decrease
BuildSplineOfChunks == Sorted(data) /\ BuildSpline

RSHashSteps == \/ BuildSplineOfChunks
               \/ ScanRound
               \/ BuildRetrieval
               \/ PushCount
               \/ Finish

(***************************************************************************)
(* operator(): the chunk is read again, from the memory of the argument.   *)
(* The estimate of a chunk the spline was not built from lies between      *)
(* those of the chunks around it; RSHash4sSpline has the spline itself.    *)
(***************************************************************************)
RanksAt(estimate, r) ==
    LET bucket == at(estimate)
    IN  IF bucket.size <= 1
        THEN {bucket.offset}
        ELSE {bucket.offset + v : v \in Retrieve(entries, bucket.size, r)}

EstimatesOf(r) ==
    {e \in 0 .. Len(counts) - 1 :
        \A key \in KeySet : /\ key <= r => est[key] <= e
                            /\ key >= r => e <= est[key]}

RanksOfString(s) ==
    UNION {UNION {RanksAt(e, r) : e \in EstimatesOf(r)} : r \in Chunks(am, s, minLCP)}

QueryString ==
    /\ pc = "ready"
    /\ \E k \in 1 .. Len(strings) : \E r \in RanksOfString(strings[k]) :
          answer' = [key |-> strings[k], rank |-> r]
    /\ UNCHANGED <<stringVars, data, est, pc, scanVars, entries, offsetVars, pushed>>

StringsNext == \/ ComputeLCPs
               \/ BuildAlphabets
               \/ ReadChunk
               \/ RSHashSteps /\ UNCHANGED stringVars
               \/ QueryString

StringsSpec == StringsInit /\ [][StringsNext]_<<vars, stringVars>>

-----------------------------------------------------------------------------
\* no depth is cut off and no chunk can wrap around
ChunksFit == /\ \A k \in 1 .. Len(lcps) : lcps[k].lcp - minLCP < NumMaps
             /\ am.max_branching_num ^ Len(am.j_list) <= 2^ChunkBits

(***************************************************************************)
(* The inductive invariant behind the two properties below: what every     *)
(* step of the constructor has found so far.  Once the chunks are there    *)
(* and fit, they are an input that RSHash may expect.                      *)
(***************************************************************************)
Preparing == pc \in {"lcps", "alphabets", "chunks"}

StringsIInv ==
    /\ strings \in StringInputs
    /\ Preparing \/ pc \in {"spline", "scan", "offsets", "ready"}
    /\ pc # "lcps" => lcps = computeLCPs(strings) /\ minLCP = MinLCP(lcps)
    /\ pc \notin {"lcps", "alphabets"} => am = AlphabetMapsOf(lcps, minLCP)
    /\ data \in Seq(Nat)
    /\ \A k \in 1 .. N : data[k] \in Chunks(am, strings[k], minLCP)
    /\ pc \in {"lcps", "alphabets"} => data = <<>>
    /\ pc = "chunks" => N < Len(strings)
    /\ ~Preparing => N = Len(strings)
    /\ Preparing => /\ est = <<>> /\ i = 0 /\ last_p = 0 /\ counts = <<>>
                    /\ inputs = {} /\ entries = {} /\ OffsetsEmpty /\ pushed = 0
    /\ ~Preparing /\ ChunksFit => IInv

(***************************************************************************)
(* Chunks keep the order of the strings strictly, as long as they fit,     *)
(* and whatever the loop finds behind the ends of shorter strings.         *)
(***************************************************************************)
ChunksIncrease ==
    (pc \in {"chunks", "spline"} /\ ChunksFit) =>
        \A k \in 1 .. N - 1 : data[k] < data[k + 1]

\* no chunk depends on memory behind a string
NeverReadsBehind ==
    \A k \in 1 .. Len(strings) : ReadBehind(am, strings[k], minLCP) = {}

(***************************************************************************)
(* Every string is mapped to its rank within the limits of the chunks:     *)
(* if chunks fit and are never read behind the end of a string.            *)
(***************************************************************************)
StringRankCorrectWithinLimits ==
    (pc = "ready" /\ ChunksFit /\ NeverReadsBehind) =>
        \A k \in 1 .. Len(strings) : RanksOfString(strings[k]) = {k - 1}
=============================================================================
