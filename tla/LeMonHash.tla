----------------------------- MODULE LeMonHash -----------------------------
(***************************************************************************)
(* lemonhash::LeMonHash (include/LeMonHash.hpp): a bucket mapper assigns   *)
(* every key a bucket; the constructor passes over the keys once, pushes   *)
(* the size of every bucket it leaves behind and stores the ranks inside   *)
(* buckets of two and more keys.  Unlike RSHash it rejects keys out of     *)
(* order, and it finds the mapper non-monotonic while it runs.             *)
(***************************************************************************)
EXTENDS BucketOffsets, Retrieval

CONSTANTS Inputs,            \* key sequences, sorted or not
          BucketMappers(_),  \* what a mapper may compute for the keys
          NoAnswer

ASSUME InputsAssumption ==
    \A d \in Inputs : d \in Seq(Nat) /\ d # <<>> /\ Len(d) <= WideCapacity

\* a mapper has a number of buckets and maps every key to one of them
IsMapper(m, d) ==
    /\ m.numBuckets \in Nat \ {0}
    /\ m.bucketOf \in [{d[k] : k \in 1 .. Len(d)} -> 0 .. m.numBuckets - 1]

ASSUME MappersAssumption ==
    \A d \in Inputs : \A m \in BucketMappers(d) : IsMapper(m, d)

\* before it is constructed
NoMapper == [numBuckets |-> 0, bucketOf |-> <<>>]

VARIABLES data,
          mapper,
          pc,          \* the part of the constructor that runs next
          k,           \* the key the mapper hands over next, from 0
          prevBucket,  \* buckets closed so far
          bucket,      \* the bucket of the key handed over last
          bucketBegin, \* currentBucketBegin, as an index
          inputs, entries, answer

passVars == <<k, prevBucket, bucket, bucketBegin>>
lemonVars == <<data, mapper, pc, passVars, inputs, entries, offsetVars, answer>>

N == Len(data)
Key(j) == data[j + 1]
KeySet == {data[j] : j \in 1 .. N}
Sorted == \A j \in 1 .. N - 1 : data[j] < data[j + 1]

Init == /\ data \in Inputs
        /\ mapper = NoMapper
        /\ pc = "mapper"
        /\ k = 0 /\ prevBucket = 0 /\ bucket = 0 /\ bucketBegin = 0
        /\ inputs = {} /\ entries = {}
        /\ OffsetsEmpty
        /\ answer = NoAnswer

\* the initialisers of bucketMapper and bucketOffsets
BuildMapper ==
    /\ pc = "mapper"
    /\ mapper' \in BucketMappers(data)
    /\ OffsetsAllocate(mapper'.numBuckets, N)
    /\ pc' = "pass"
    /\ UNCHANGED <<data, passVars, inputs, entries, answer>>

\* variant that lets equal keys pass
OutOfOrderStrictly(b) == Key(k) < Key(k - 1) \/ b < prevBucket

\* the two exceptions of the callback
OutOfOrder(b) == Key(k) <= Key(k - 1) \/ b < prevBucket

\* the mapper hands key k over, with bucket b
VisitKey(b) ==
    /\ pc = "pass" /\ k < N
    /\ IF k # 0 /\ OutOfOrder(b)
       THEN pc' = "thrown" /\ UNCHANGED bucket
       ELSE pc' = "close" /\ bucket' = b
    /\ UNCHANGED <<data, mapper, k, prevBucket, bucketBegin, inputs, entries,
                   offsetVars, answer>>

\* the inputs of the bucket that ends in front of key `end`
BucketInputs(end) ==
    LET size == end - bucketBegin
    IN  IF size > 1 THEN {Input(size, Key(bucketBegin + j), j) : j \in 0 .. size - 1}
        ELSE {}

\* constructBucket
ConstructBucket(end) ==
    /\ inputs' = inputs \cup BucketInputs(end)
    /\ OffsetsPush(end - bucketBegin)

\* variant that keeps the keys of the closed bucket
CloseBucketKeeping ==
    /\ pc = "close" /\ prevBucket < bucket
    /\ ConstructBucket(k)
    /\ prevBucket' = prevBucket + 1
    /\ UNCHANGED <<data, mapper, pc, k, bucket, bucketBegin, entries, answer>>

\* a round of the while loop of the callback
CloseBucket ==
    /\ pc = "close" /\ prevBucket < bucket
    /\ ConstructBucket(k)
    /\ bucketBegin' = k
    /\ prevBucket' = prevBucket + 1
    /\ UNCHANGED <<data, mapper, pc, k, bucket, entries, answer>>

\* variant that visits the same key again
NextKeyStaying ==
    /\ pc = "close" /\ prevBucket >= bucket
    /\ pc' = "pass"
    /\ UNCHANGED <<data, mapper, passVars, inputs, entries, offsetVars, answer>>

NextKey ==
    /\ pc = "close" /\ prevBucket >= bucket
    /\ k' = k + 1
    /\ pc' = "pass"
    /\ UNCHANGED <<data, mapper, prevBucket, bucket, bucketBegin, inputs, entries,
                   offsetVars, answer>>

\* after the pass: the bucket of the last key
CloseLastBucket ==
    /\ pc = "pass" /\ k = N
    /\ ConstructBucket(N)
    /\ pc' = "done"
    /\ UNCHANGED <<data, mapper, passVars, entries, answer>>

Finish ==
    /\ pc = "done"
    /\ OffsetsDone
    /\ entries' = inputs
    /\ inputs' = {}
    /\ pc' = "ready"
    /\ UNCHANGED <<data, mapper, passVars, answer>>

\* everything operator() may return for a key of bucket b
Ranks(key, b) ==
    LET found == at(b)
    IN  IF found.size <= 1
        THEN {found.offset}
        ELSE {found.offset + v : v \in Retrieve(entries, found.size, key)}

Answer(key, b) ==
    /\ pc = "ready"
    /\ \E r \in Ranks(key, b) : answer' = [key |-> key, rank |-> r]
    /\ UNCHANGED <<data, mapper, pc, passVars, inputs, entries, offsetVars>>

Query == pc = "ready" /\ \E key \in KeySet : Answer(key, mapper.bucketOf[key])

VisitMapped == pc = "pass" /\ k < N /\ VisitKey(mapper.bucketOf[Key(k)])

BucketLoop == CloseBucket \/ NextKey \/ CloseLastBucket \/ Finish

Constructor == BuildMapper \/ VisitMapped \/ BucketLoop

Next == Constructor \/ Query

Spec == Init /\ [][Next]_lemonVars

-----------------------------------------------------------------------------
TypeOK ==
    /\ data \in Inputs
    /\ pc \in {"mapper", "pass", "close", "done", "ready", "thrown"}
    /\ mapper = NoMapper \/ IsMapper(mapper, data)
    /\ k \in 0 .. N /\ bucketBegin \in 0 .. N
    /\ pc = "close" => k < N
    /\ prevBucket \in Nat /\ bucket \in Nat
    /\ OffsetsTypeOK

\* the keys in front of bucket b, and the bucket's own, as the set bits count them
Begin(b) == ones[b + 1] - b
Size(b) == Begin(b + 1) - Begin(b)

\* the bucket a query will look for key j in
Home(j) == mapper.bucketOf[Key(j)]

\* the set bits cut the first `end` keys into c buckets
Cuts(c, end) ==
    /\ Len(ones) = c + 1 /\ position = ones[c + 1]
    /\ Begin(0) = 0 /\ Begin(c) = end
    /\ \A a, b \in 0 .. c : a <= b => Begin(a) <= Begin(b)

\* each of them lies in its own bucket
AtHome(c, end) ==
    \A j \in 0 .. end - 1 : /\ Home(j) \in 0 .. c - 1
                           /\ Begin(Home(j)) <= j /\ j < Begin(Home(j) + 1)

\* S has the ranks, within their buckets, of those that share one
Stored(S, end) ==
    S = {Input(Size(Home(j)), Key(j), j - Begin(Home(j))) :
            j \in {m \in 0 .. end - 1 : Size(Home(m)) > 1}}

InOrder(n) == \A i, j \in 0 .. n - 1 : i < j => Key(i) < Key(j)

\* the keys of the bucket that is still open
OpenBucket == /\ bucketBegin <= k
              /\ \A j \in bucketBegin .. k - 1 : Home(j) = prevBucket

(***************************************************************************)
(* The inductive invariant behind the theorems: the bits pushed so far cut *)
(* the keys visited so far, in order, into the buckets that queries will   *)
(* look for them in, whatever the mapper computes.                         *)
(***************************************************************************)
PassInvariant ==
    /\ bv_size = mapper.numBuckets + N + 1
    /\ prevBucket <= bucket /\ bucket < mapper.numBuckets
    /\ pc \in {"pass", "close"} =>
          /\ Cuts(prevBucket, bucketBegin) /\ AtHome(prevBucket, bucketBegin)
          /\ Stored(inputs, bucketBegin) /\ OpenBucket
    /\ pc = "pass" => /\ prevBucket = bucket /\ InOrder(k)
                      /\ bucket = IF k = 0 THEN 0 ELSE Home(k - 1)
    /\ pc = "close" => Home(k) = bucket /\ InOrder(k + 1)
    /\ pc \in {"done", "ready"} =>
          /\ Cuts(prevBucket + 1, N) /\ AtHome(prevBucket + 1, N)
          /\ InOrder(N)
    /\ pc = "done" => Stored(inputs, N)
    /\ pc = "ready" => Stored(entries, N)
    /\ pc = "thrown" => /\ k \in 1 .. N - 1
                        /\ Key(k) <= Key(k - 1) \/ Home(k) < Home(k - 1)

IInv ==
    /\ TypeOK
    /\ pc = "mapper" => /\ k = 0 /\ prevBucket = 0 /\ bucket = 0
                        /\ bucketBegin = 0 /\ inputs = {}
    /\ mapper # NoMapper => PassInvariant

(***************************************************************************)
(* A hash function that was built answers every key with its rank.         *)
(***************************************************************************)
RankCorrect == pc = "ready" => \A j \in 0 .. N - 1 : Ranks(Key(j), Home(j)) = {j}

(***************************************************************************)
(* One is only built from sorted distinct keys, and every such input with  *)
(* a monotonic mapper is accepted.                                         *)
(***************************************************************************)
OnlyDisorderRejected ==
    /\ pc = "ready" => Sorted
    /\ pc = "thrown" =>
          ~ Sorted \/ \E j \in 1 .. N - 1 :
                          mapper.bucketOf[data[j + 1]] < mapper.bucketOf[data[j]]

(***************************************************************************)
(* The assertion in BucketOffsets::push: the pushes of a whole pass fit    *)
(* the bits allocated from numBuckets() before it.                         *)
(***************************************************************************)
PushFits == pc \notin {"mapper", "thrown"} => position < bv_size

Abstract == INSTANCE MMPHF WITH ready <- pc = "ready"

(***************************************************************************)
(* It implements the abstract minimal perfect hash function: a query is    *)
(* answered with the rank, and an input that is rejected is never queried. *)
(***************************************************************************)
ImplementsMMPHF == Abstract!Spec
=============================================================================
