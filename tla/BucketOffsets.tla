---------------------------- MODULE BucketOffsets ----------------------------
(***************************************************************************)
(* lemonhash::BucketOffsets (support/sequence/BucketOffsets.hpp): bucket   *)
(* sizes in unary, one set bit in front of every bucket.  Every push moves *)
(* `position` forward, so the bit vector is kept as the sequence `ones` of *)
(* its set bits in increasing order, next to its allocated size; select1   *)
(* and nextOne are then what the code's select structure and word scan     *)
(* return; module BitScan has that scan as it works on words.              *)
(***************************************************************************)
EXTENDS Integers, Sequences

VARIABLES ones,       \* positions of the set bits of bv
          bv_size,    \* allocated bits
          position,   \* the last bit set
          selectable  \* done() has built the select structure

offsetVars == <<ones, bv_size, position, selectable>>

OffsetsTypeOK == /\ ones \in Seq(Nat)
                 /\ bv_size \in Nat
                 /\ position \in Nat
                 /\ selectable \in BOOLEAN

\* a default-constructed object, before the constructor result is moved in
OffsetsEmpty == /\ ones = <<>>
                /\ bv_size = 0
                /\ position = 0
                /\ selectable = FALSE

\* variant that forgets the leading bit
OffsetsAllocateShort(buckets, elements) ==
    /\ bv_size' = buckets + elements
    /\ ones' = <<0>>
    /\ position' = 0
    /\ selectable' = FALSE

\* BucketOffsets(buckets, elements), move-assigned
OffsetsAllocate(buckets, elements) ==
    /\ bv_size' = buckets + elements + 1
    /\ ones' = <<0>>
    /\ position' = 0
    /\ selectable' = FALSE

OffsetsPush(bucketSize) ==
    /\ position' = position + bucketSize + 1
    /\ ones' = Append(ones, position')
    /\ UNCHANGED <<bv_size, selectable>>

OffsetsDone == /\ selectable' = TRUE
               /\ UNCHANGED <<ones, bv_size, position>>

\* position of the k-th set bit, counting from 1
select1(k) == ones[k]

\* the next set bit after position a
nextOne(a) ==
    LET later == {k \in 1 .. Len(ones) : ones[k] > a}
    IN  ones[CHOOSE k \in later : \A m \in later : ones[k] <= ones[m]]

\* offset and size of a bucket
at(bucket) == LET a == select1(bucket + 1)
                  b == nextOne(a)
              IN  [offset |-> a - bucket, size |-> b - a - 1]
=============================================================================
