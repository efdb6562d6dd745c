------------------------------- MODULE RSHash -------------------------------
(***************************************************************************)
(* rshash::RSHash (include/RSHash.hpp): the constructor and the query.     *)
(*                                                                         *)
(* The estimates of the radix spline are a function `est` of the keys that *)
(* the constructor obtains from the finished spline; module RSHashSpline   *)
(* runs the real builder and shows that it only yields functions that meet *)
(* EstimateContract.  The keys with one estimate are a bucket.  The scan   *)
(* counts the keys of every bucket and stores, for buckets of two and more *)
(* keys, the rank of each key within its bucket; the counts then become    *)
(* the bucket offsets.                                                     *)
(***************************************************************************)
EXTENDS BucketOffsets, Retrieval

CONSTANTS Inputs,       \* strictly increasing key sequences
          MaxEstimate,  \* bound on the estimates
          NoAnswer

\* what the constructor expects of its keys, and the wide table of their number
Hashable(d) == /\ d \in Seq(Nat)
               /\ d # <<>>
               /\ \A j, k \in 1 .. Len(d) : j < k => d[j] < d[k]
               /\ Len(d) <= WideCapacity

ASSUME InputsAssumption == \A d \in Inputs : Hashable(d)
ASSUME MaxEstimateAssumption == MaxEstimate \in Nat

VARIABLES data,
          est,        \* the spline, as the positions it estimates
          pc,         \* the part of the constructor that runs next
          i, last_p,  \* loop variables of the scan
          counts,     \* keys per bucket
          inputs,     \* values handed to the retrieval structure
          entries,    \* contents of the built retrieval tables
          pushed,     \* counts pushed into the bucket offsets
          answer

scanVars == <<i, last_p, counts, inputs>>
vars == <<data, est, pc, scanVars, entries, offsetVars, pushed, answer>>

N == Len(data)
KeySet == {data[k] : k \in 1 .. N}

\* GetEstimatedPosition of the key with 0-based index k, as a size_t
E(k) == est[data[k + 1]]

(***************************************************************************)
(* What the scan relies on: estimates do not decrease from key to key and  *)
(* the smallest key is estimated at position 0.                            *)
(***************************************************************************)
EstimateContract(f) ==
    /\ f \in [KeySet -> 0 .. MaxEstimate]
    /\ \A j, k \in 1 .. N : j <= k => f[data[j]] <= f[data[k]]
    /\ f[data[1]] = 0

Init ==
    /\ data \in Inputs
    /\ est = <<>>
    /\ pc = "spline"
    /\ i = 0 /\ last_p = 0
    /\ counts = <<>>
    /\ inputs = {} /\ entries = {}
    /\ OffsetsEmpty
    /\ pushed = 0
    /\ answer = NoAnswer

\* rs = rsb.Finalize()
BuildSpline ==
    /\ pc = "spline"
    /\ est' \in [KeySet -> 0 .. MaxEstimate]
    /\ EstimateContract(est')
    /\ pc' = "scan"
    /\ UNCHANGED <<data, scanVars, entries, offsetVars, pushed, answer>>

\* variant that may close a bucket early
IsPartialRun(j, p) == \A k \in i .. j - 1 : E(k) = p

\* the keys i .. j - 1 are all the keys from i on with the estimate p
IsRun(j, p) == /\ \A k \in i .. j - 1 : E(k) = p
               /\ j < N => E(j) # p

\* variant that also counts the bucket being opened as empty
EmptyBucketsTooMany(p) == [t \in 1 .. p - last_p |-> 0]

EmptyBuckets(p) ==
    [t \in 1 .. (IF p - last_p > 1 THEN p - last_p - 1 ELSE 0) |-> 0]

BucketInputs(j) ==
    IF j - i > 1 THEN {Input(j - i, data[i + k + 1], k) : k \in 0 .. j - i - 1}
    ELSE {}

\* closes the bucket of key i
ScanBucket ==
    \E j \in i + 1 .. N :
        /\ IsRun(j, E(i))
        /\ counts' = (counts \o EmptyBuckets(E(i))) \o <<j - i>>
        /\ inputs' = inputs \cup BucketInputs(j)
        /\ i' = j

(***************************************************************************)
(* One round of the loop.  A round that meets the estimate of the bucket   *)
(* just closed changes nothing, and would repeat for ever.                 *)
(***************************************************************************)
ScanRound ==
    /\ pc = "scan" /\ i < N
    /\ IF i = 0 \/ E(i) # last_p THEN ScanBucket
       ELSE UNCHANGED <<i, counts, inputs>>
    /\ last_p' = E(i)
    /\ UNCHANGED <<data, est, pc, entries, offsetVars, pushed, answer>>

\* retrievalDataStructure.build(), then the empty bucket offsets
BuildRetrieval ==
    /\ pc = "scan" /\ i >= N
    /\ entries' = inputs
    /\ inputs' = {}
    /\ OffsetsAllocate(Len(counts), N)
    /\ pc' = "offsets"
    /\ UNCHANGED <<data, est, i, last_p, counts, pushed, answer>>

PushCount ==
    /\ pc = "offsets" /\ pushed < Len(counts)
    /\ OffsetsPush(counts[pushed + 1])
    /\ pushed' = pushed + 1
    /\ UNCHANGED <<data, est, pc, scanVars, entries, answer>>

Finish ==
    /\ pc = "offsets" /\ pushed = Len(counts)
    /\ OffsetsDone
    /\ pc' = "ready"
    /\ UNCHANGED <<data, est, scanVars, entries, pushed, answer>>

\* variant that takes two keys for one
RanksOfPairs(key) ==
    LET bucket == at(est[key])
    IN  IF bucket.size <= 2
        THEN {bucket.offset}
        ELSE {bucket.offset + v : v \in Retrieve(entries, bucket.size, key)}

\* everything operator() may return for a key
Ranks(key) ==
    LET bucket == at(est[key])
    IN  IF bucket.size <= 1
        THEN {bucket.offset}
        ELSE {bucket.offset + v : v \in Retrieve(entries, bucket.size, key)}

Query ==
    /\ pc = "ready"
    /\ \E key \in KeySet : \E r \in Ranks(key) :
          answer' = [key |-> key, rank |-> r]
    /\ UNCHANGED <<data, est, pc, scanVars, entries, offsetVars, pushed>>

Constructor == \/ BuildSpline \/ ScanRound \/ BuildRetrieval
               \/ PushCount \/ Finish

Next == Constructor \/ Query

Spec == Init /\ [][Next]_vars

\* nothing else runs while the constructor does
FairSpec == Spec /\ WF_vars(Constructor)

-----------------------------------------------------------------------------
TypeOK ==
    /\ Hashable(data)
    /\ pc \in {"spline", "scan", "offsets", "ready"}
    /\ pc = "spline" => est = <<>>
    /\ pc # "spline" => EstimateContract(est)
    /\ i \in 0 .. N /\ last_p \in 0 .. MaxEstimate
    /\ counts \in Seq(Nat)
    /\ OffsetsTypeOK
    /\ pushed \in 0 .. Len(counts)

(***************************************************************************)
(* The inductive invariant behind RankCorrect.  f[b] is the number of      *)
(* scanned keys with an estimate below b.                                  *)
(***************************************************************************)
\* f cuts the scanned keys into the buckets counted so far
Partition(f) ==
    /\ f[0] = 0
    /\ f[Len(counts)] = i
    /\ \A b \in 0 .. Len(counts) - 1 : f[b + 1] = f[b] + counts[b + 1]
    /\ \A b, c \in 0 .. Len(counts) : b <= c => f[b] <= f[c]
    /\ \A b \in 0 .. Len(counts) - 1 : \A k \in 0 .. i - 1 :
          E(k) = b <=> (f[b] <= k /\ k < f[b + 1])

\* the keys not yet scanned lie in later buckets
Frontier == /\ i = 0 => counts = <<>> /\ last_p = 0
            /\ i > 0 => Len(counts) = last_p + 1
            /\ \A k \in 0 .. i - 1 : E(k) <= last_p
            /\ i > 0 => \A k \in i .. N - 1 : E(k) > last_p

\* every key of a bucket of two or more is stored with its rank in the bucket
Stored(f, S) ==
    S = {Input(counts[E(k) + 1], data[k + 1], k - f[E(k)]) :
            k \in {m \in 0 .. i - 1 : counts[E(m) + 1] > 1}}

\* the set bits pushed so far are the bucket boundaries
OnesAgree(f) == /\ Len(ones) = pushed + 1
                /\ \A b \in 0 .. pushed : ones[b + 1] = f[b] + b
                /\ position = ones[pushed + 1]
                /\ bv_size = Len(counts) + N + 1

IInv ==
    /\ TypeOK
    /\ pc = "spline" => i = 0 /\ counts = <<>> /\ last_p = 0
                        /\ inputs = {} /\ pushed = 0
    /\ pc = "scan" => pushed = 0
    /\ pc # "spline" =>
          \E f \in [0 .. Len(counts) -> 0 .. i] :
              /\ Partition(f)
              /\ Frontier
              /\ pc = "scan" => Stored(f, inputs)
              /\ pc \in {"offsets", "ready"} =>
                    /\ i = N
                    /\ Stored(f, entries)
                    /\ OnesAgree(f)
              /\ pc = "ready" => pushed = Len(counts)

(***************************************************************************)
(* The answer to a query is the rank of the key: RSHash is a monotone      *)
(* minimal perfect hash function of its input.                             *)
(***************************************************************************)
RankCorrect ==
    pc = "ready" => \A k \in 0 .. N - 1 : Ranks(data[k + 1]) = {k}

(***************************************************************************)
(* The assertion in BucketOffsets::push: no bucket runs out of the bits    *)
(* the constructor allocated from the number of buckets and of keys.       *)
(***************************************************************************)
PushFits == position < bv_size \/ pc \in {"spline", "scan"}

(***************************************************************************)
(* Every construction ends in a queryable object: no round of the scan     *)
(* meets the bucket it has just closed.                                    *)
(***************************************************************************)
Terminates == <>(pc = "ready")

(***************************************************************************)
(* RSHash implements the abstract minimal perfect hash function.           *)
(***************************************************************************)
Abstract == INSTANCE MMPHF WITH ready <- pc = "ready"
ImplementsMMPHF == Abstract!Spec
=============================================================================
