------------------------- MODULE LinearBucketMapper -------------------------
(***************************************************************************)
(* LinearBucketMapper (bucket_mapping/LinearBucketMapper.hpp): as many     *)
(* buckets as keys, of equal width.  The float division by elsPerBucket =  *)
(* 1 is exact below 2^24 keys.                                             *)
(***************************************************************************)
EXTENDS Integers, Sequences

\* the divisions by numBuckets - 1 and by the divisor are defined
LinearDefined(d) == Len(d) > 1 /\ d[Len(d)] >= Len(d) - 1

LinearMapper(d) ==
    LET numBuckets == Len(d)
        divisor == d[Len(d)] \div (numBuckets - 1)
        Bucket(key) == IF key \div divisor < numBuckets - 1
                       THEN key \div divisor ELSE numBuckets - 1
    IN  [numBuckets |-> numBuckets,
         bucketOf |-> [key \in {d[j] : j \in 1 .. Len(d)} |-> Bucket(key)]]
=============================================================================
