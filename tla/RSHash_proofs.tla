---------------------------- MODULE RSHash_proofs ----------------------------
(***************************************************************************)
(* RSHash maps every key to its rank, for every input, every estimate      *)
(* function that meets the contract and every size of the tables; RSHash4s *)
(* does so with every string, as long as its chunks fit and are not read   *)
(* behind the ends of the strings.                                         *)
(***************************************************************************)
EXTENDS RSHash4s, HashParts_proofs, Counting_proofs

(***************************************************************************)
(* What the contract says of the estimates E(k) of the keys, by index.     *)
(***************************************************************************)
LEMMA Estimates ==
    ASSUME TypeOK, pc # "spline"
    PROVE  /\ N \in Nat \ {0}
           /\ \A k \in 0 .. N - 1 : data[k + 1] \in KeySet
           /\ \A k \in 0 .. N - 1 : E(k) \in 0 .. MaxEstimate
           /\ \A j, k \in 0 .. N - 1 : j <= k => E(j) <= E(k)
           /\ E(0) = 0
<1>1. data \in Seq(Nat) /\ N \in Nat \ {0}
  BY EmptySeq DEF TypeOK, Hashable, N
<1>2. \A k \in 0 .. N - 1 : k + 1 \in 1 .. N
  BY <1>1
<1>3. \A k \in 0 .. N - 1 : data[k + 1] \in KeySet
  BY <1>2 DEF KeySet
<1>4. EstimateContract(est)
  BY DEF TypeOK
<1>5. \A j, k \in 0 .. N - 1 : j <= k => E(j) <= E(k)
  <2>1. TAKE j, k \in 0 .. N - 1
  <2>2. HAVE j <= k
  <2>3. j + 1 \in 1 .. N /\ k + 1 \in 1 .. N /\ j + 1 <= k + 1
    BY <2>2, <1>1
  <2>4. QED
    BY <2>3, <1>4 DEF EstimateContract, E
<1>6. QED
  BY <1>1, <1>3, <1>4, <1>5 DEF EstimateContract, E

(***************************************************************************)
(* Distinct positions hold distinct keys.                                  *)
(***************************************************************************)
LEMMA KeysDistinct ==
    ASSUME TypeOK
    PROVE  \A j, k \in 0 .. N - 1 : data[j + 1] = data[k + 1] => j = k
<1>1. data \in Seq(Nat) /\ N \in Nat
  BY DEF TypeOK, Hashable, N
<1>2. \A j, k \in 1 .. N : j < k => data[j] < data[k]
  BY DEF TypeOK, Hashable, N
<1>3. \A j \in 1 .. N : data[j] \in Nat
  BY <1>1, ElementOfSeq DEF N
<1>4. QED
  <2>1. TAKE j, k \in 0 .. N - 1
  <2>2. j + 1 \in 1 .. N /\ k + 1 \in 1 .. N
    BY <1>1
  <2>3. QED
    BY <2>2, <1>2, <1>3

-----------------------------------------------------------------------------
(***************************************************************************)
(* The invariant holds of a fresh object.                                  *)
(***************************************************************************)
LEMMA InitIInv == Init => IInv
<1> SUFFICES ASSUME Init PROVE IInv
  OBVIOUS
<1>1. TypeOK
  <2>1. <<>> \in Seq(Nat) /\ Len(<<>>) = 0
    BY EmptySeq
  <2>2. OffsetsTypeOK
    BY <2>1 DEF Init, OffsetsEmpty, OffsetsTypeOK
  <2>3. N \in Nat
    BY InputsAssumption DEF Init, Hashable, N
  <2>4. QED
    BY <2>1, <2>2, <2>3, InputsAssumption, MaxEstimateAssumption DEF Init, TypeOK
<1>2. QED
  BY <1>1 DEF Init, IInv

(***************************************************************************)
(* Taking the estimates from the finished spline.                          *)
(***************************************************************************)
LEMMA BuildSplineIInv == IInv /\ BuildSpline => IInv'
<1> SUFFICES ASSUME IInv, BuildSpline PROVE IInv'
  OBVIOUS
<1>1. TypeOK'
  <2>1. /\ pc = "spline" /\ pc' = "scan" /\ EstimateContract(est')
        /\ UNCHANGED <<data, i, last_p, counts, pushed, offsetVars>>
    BY DEF BuildSpline, scanVars
  <2>2. N' = N /\ KeySet' = KeySet
    BY <2>1 DEF N, KeySet
  <2>3. EstimateContract(est)'
    BY <2>1, <2>2 DEF EstimateContract
  <2>4. OffsetsTypeOK'
    BY <2>1 DEF IInv, TypeOK, OffsetsTypeOK, offsetVars
  <2>5. QED
    BY <2>1, <2>2, <2>3, <2>4 DEF IInv, TypeOK
<1>2. /\ i' = 0 /\ counts' = <<>> /\ last_p' = 0 /\ inputs' = {} /\ pushed' = 0
      /\ pc' = "scan" /\ N' = Len(data)
  BY DEF IInv, BuildSpline, scanVars, N
<1> DEFINE f == [b \in 0 .. 0 |-> 0]
<1>3. f \in [0 .. Len(counts') -> 0 .. i'] /\ f[0] = 0 /\ Len(counts') = 0
  BY <1>2
<1> HIDE DEF f
<1>4. Partition(f)'
  BY <1>2, <1>3 DEF Partition
<1>5. Frontier'
  BY <1>2 DEF Frontier
<1>6. Stored(f, inputs)'
  BY <1>2 DEF Stored
<1>7. QED
  BY <1>1, <1>2, <1>3, <1>4, <1>5, <1>6 DEF IInv

(***************************************************************************)
(* The witness that extends a partition by the bucket the scan closes: the *)
(* skipped buckets are empty and start where the new bucket starts.        *)
(***************************************************************************)
Extended(f, j) ==
    [b \in 0 .. Len(counts') |->
        IF b <= Len(counts) THEN f[b]
        ELSE IF b < Len(counts') THEN i ELSE j]

(***************************************************************************)
(* The counts after a round: the old ones, zeros, and the new bucket.      *)
(***************************************************************************)
LEMMA CountsSoFar ==
    ASSUME NEW s \in Seq(Nat), NEW z \in Seq(Nat), NEW c \in Nat,
           \A t \in 1 .. Len(z) : z[t] = 0
    PROVE  LET r == (s \o z) \o <<c>>
               n == Len(s) + Len(z)
           IN  /\ r \in Seq(Nat)
               /\ Len(r) = n + 1
               /\ \A b \in 1 .. Len(s) : r[b] = s[b]
               /\ \A b \in Len(s) + 1 .. n : r[b] = 0
               /\ r[n + 1] = c
<1>1. PICK t \in Seq(Nat) : t = s \o z
  BY ConcatProperties
<1>2. Len(s) \in Nat /\ Len(z) \in Nat
  OBVIOUS
<1>3. /\ Len(t) = Len(s) + Len(z)
      /\ \A b \in 1 .. Len(s) : t[b] = s[b]
      /\ \A b \in Len(s) + 1 .. Len(s) + Len(z) : t[b] = z[b - Len(s)]
  BY <1>1, <1>2
<1>4. \A b \in Len(s) + 1 .. Len(s) + Len(z) : t[b] = 0
  <2>1. \A b \in Len(s) + 1 .. Len(s) + Len(z) : b - Len(s) \in 1 .. Len(z)
    BY <1>2
  <2>2. QED
    BY <2>1, <1>3
<1>5. t \o <<c>> = Append(t, c)
  BY AppendIsConcat
<1>6. /\ Append(t, c) \in Seq(Nat) /\ Len(Append(t, c)) = Len(t) + 1
      /\ \A b \in 1 .. Len(t) : Append(t, c)[b] = t[b]
      /\ Append(t, c)[Len(t) + 1] = c
  BY AppendProperties
<1>7. \A b \in 1 .. Len(s) + Len(z) : Append(t, c)[b] = t[b]
  BY <1>3, <1>6
<1>8. /\ \A b \in 1 .. Len(s) : b \in 1 .. Len(s) + Len(z)
      /\ \A b \in Len(s) + 1 .. Len(s) + Len(z) : b \in 1 .. Len(s) + Len(z)
  BY <1>2
<1>9. QED
  BY <1>1, <1>3, <1>4, <1>5, <1>6, <1>7, <1>8

(***************************************************************************)
(* One round of the scan.                                                  *)
(***************************************************************************)
LEMMA ScanRoundIInv == IInv /\ ScanRound => IInv'
<1> SUFFICES ASSUME IInv, ScanRound PROVE IInv'
  OBVIOUS
<1> USE DEF offsetVars
<1>1. /\ TypeOK /\ pc = "scan" /\ pc' = "scan" /\ i < N /\ pushed = 0
      /\ data' = data /\ est' = est /\ pushed' = pushed
      /\ last_p' = E(i)
  BY DEF IInv, ScanRound
<1>2. /\ N \in Nat \ {0}
      /\ \A k \in 0 .. N - 1 : E(k) \in 0 .. MaxEstimate
      /\ \A j, k \in 0 .. N - 1 : j <= k => E(j) <= E(k)
      /\ E(0) = 0
  BY <1>1, Estimates
<1>3. PICK f \in [0 .. Len(counts) -> 0 .. i] :
         Partition(f) /\ Frontier /\ Stored(f, inputs)
  BY <1>1 DEF IInv
<1>4. i \in 0 .. N - 1 /\ last_p \in Nat /\ counts \in Seq(Nat)
  BY <1>1, <1>2 DEF TypeOK
<1>5. i = 0 \/ E(i) # last_p
  BY <1>3, <1>4, <1>2 DEF Frontier
<1>6. PICK j \in i + 1 .. N :
         /\ IsRun(j, E(i))
         /\ counts' = (counts \o EmptyBuckets(E(i))) \o <<j - i>>
         /\ inputs' = inputs \cup BucketInputs(j)
         /\ i' = j
  BY <1>5 DEF ScanRound, ScanBucket
<1>60. PICK p \in 0 .. MaxEstimate : p = E(i)
  BY <1>2, <1>4
<1>61. p \in Nat
  BY MaxEstimateAssumption
<1>7. p \in Nat /\ (i > 0 => p > last_p) /\ (i = 0 => p = 0)
  BY <1>2, <1>3, <1>4, <1>60, <1>61 DEF Frontier
<1>8. /\ EmptyBuckets(p) \in Seq(Nat)
      /\ Len(EmptyBuckets(p)) = (IF p - last_p > 1 THEN p - last_p - 1 ELSE 0)
      /\ \A t \in 1 .. Len(EmptyBuckets(p)) : EmptyBuckets(p)[t] = 0
  <2> DEFINE n == IF p - last_p > 1 THEN p - last_p - 1 ELSE 0
  <2>1. n \in Nat
    BY <1>7, <1>4
  <2>2. EmptyBuckets(p) = [t \in 1 .. n |-> 0]
    BY DEF EmptyBuckets
  <2> HIDE DEF n
  <2>3. EmptyBuckets(p) \in Seq(Nat) /\ Len(EmptyBuckets(p)) = n
    BY <2>1, <2>2
  <2>4. QED
    BY <2>1, <2>2, <2>3 DEF n
<1>9. (i = 0 => Len(counts) = 0) /\ (i > 0 => Len(counts) = last_p + 1)
  BY <1>3, <1>4 DEF Frontier
<1>10. j - i \in Nat /\ j \in 1 .. N /\ j > i
  BY <1>4
<1>11. /\ counts' \in Seq(Nat)
       /\ Len(counts') = p + 1
       /\ \A b \in 1 .. Len(counts) : counts'[b] = counts[b]
       /\ \A b \in Len(counts) + 1 .. p : counts'[b] = 0
       /\ counts'[p + 1] = j - i
  <2>1. PICK z \in Seq(Nat) : z = EmptyBuckets(p)
    BY <1>8
  <2>2. /\ Len(z) = (IF p - last_p > 1 THEN p - last_p - 1 ELSE 0)
        /\ \A t \in 1 .. Len(z) : z[t] = 0
    BY <2>1, <1>8
  <2>3. Len(counts) \in Nat /\ Len(z) \in Nat
    BY <1>4
  <2>4. Len(counts) + Len(z) = p
    <3>1. last_p \in Nat /\ p \in Nat /\ i \in Nat
      BY <1>4, <1>61, <1>2
    <3>2. CASE i = 0
      BY <2>2, <2>3, <3>1, <3>2, <1>7, <1>9
    <3>3. CASE i > 0
      <4>1. p > last_p /\ Len(counts) = last_p + 1
        BY <3>3, <1>7, <1>9
      <4>2. Len(z) = p - last_p - 1
        BY <4>1, <2>2, <3>1
      <4>3. QED
        BY <4>1, <4>2, <3>1
    <3>4. QED
      BY <3>1, <3>2, <3>3
  <2>5. counts' = (counts \o z) \o <<j - i>>
    BY <1>6, <1>60, <2>1
  <2>6. QED
    <3>1. \A t \in 1 .. Len(z) : z[t] = 0
      BY <2>2
    <3> DEFINE r == (counts \o z) \o <<j - i>>
               n == Len(counts) + Len(z)
    <3>2. /\ r \in Seq(Nat)
          /\ Len(r) = n + 1
          /\ \A b \in 1 .. Len(counts) : r[b] = counts[b]
          /\ \A b \in Len(counts) + 1 .. n : r[b] = 0
          /\ r[n + 1] = j - i
      BY <3>1, <1>4, <1>10, CountsSoFar
    <3>3. r = counts' /\ n = p
      BY <2>4, <2>5
    <3> HIDE DEF r, n
    <3>4. QED
      BY <3>2, <3>3
<1>12. Len(counts) \in 0 .. p /\ Len(counts) \in Nat /\ p \in Nat /\ i \in Nat
  BY <1>7, <1>9, <1>4
<1>13. /\ \A b \in 0 .. Len(counts) : f[b] \in 0 .. i
       /\ f[0] = 0 /\ f[Len(counts)] = i
  BY <1>3, <1>12 DEF Partition
<1>14. PICK g \in [0 .. Len(counts') -> 0 .. i'] :
          /\ \A b \in 0 .. Len(counts) : g[b] = f[b]
          /\ \A b \in Len(counts) .. p : g[b] = i
          /\ g[p + 1] = j
  <2> DEFINE h == Extended(f, j)
  <2>1. \A b \in 0 .. Len(counts') :
           h[b] = IF b <= Len(counts) THEN f[b]
                  ELSE IF b < Len(counts') THEN i ELSE j
    BY DEF Extended
  <2>2. \A b \in 0 .. Len(counts') : h[b] \in 0 .. i'
    <3>1. TAKE b \in 0 .. Len(counts')
    <3>2. b <= Len(counts) => f[b] \in 0 .. i
      BY <1>13, <1>12, <1>11
    <3>3. i' = j /\ i < j /\ i \in Nat /\ j \in Nat
      BY <1>6, <1>10, <1>12
    <3>4. QED
      BY <2>1, <3>2, <3>3
  <2>3. h \in [0 .. Len(counts') -> 0 .. i']
    BY <2>2 DEF Extended
  <2> HIDE DEF h
  <2>4. \A b \in 0 .. Len(counts) : h[b] = f[b]
    BY <2>1, <1>11, <1>12
  <2>5. \A b \in Len(counts) .. p : h[b] = i
    BY <2>1, <1>11, <1>12, <1>13
  <2>6. h[p + 1] = j
    BY <2>1, <1>11, <1>12
  <2>7. QED
    BY <2>3, <2>4, <2>5, <2>6
<1>15. \A k \in 0 .. N - 1 : E(k)' = E(k)
  BY <1>1 DEF E
<1>16. N' = N
  BY <1>1 DEF N
<1>17. \A k \in i .. j - 1 : E(k) = p
  BY <1>6, <1>60 DEF IsRun
<1>18. \A k \in 0 .. i - 1 : E(k) < Len(counts) /\ E(k) < p /\ E(k) \in Nat
  BY <1>2, <1>3, <1>4, <1>7, <1>9 DEF Frontier
<1>19. TypeOK'
  <2>1. EstimateContract(est)'
    BY <1>1 DEF TypeOK, EstimateContract, KeySet, N
  <2>2. OffsetsTypeOK'
    BY <1>1 DEF ScanRound, TypeOK, OffsetsTypeOK
  <2>3. i' \in 0 .. N' /\ last_p' \in 0 .. MaxEstimate /\ pushed' \in 0 .. Len(counts')
    BY <1>1, <1>6, <1>60, <1>10, <1>11, <1>12, <1>16
  <2>4. Hashable(data)'
    BY <1>1 DEF TypeOK
  <2>5. QED
    BY <2>1, <2>2, <2>3, <2>4, <1>1, <1>11 DEF TypeOK
<1>20. Partition(g)'
  <2>1. g[0] = 0 /\ g[Len(counts')] = i'
    BY <1>13, <1>14, <1>11, <1>6, <1>12
  <2>2. \A b \in 0 .. Len(counts') - 1 : g[b + 1] = g[b] + counts'[b + 1]
    <3>1. TAKE b \in 0 .. Len(counts') - 1
    <3>2. CASE b < Len(counts)
      <4>1. f[b + 1] = f[b] + counts[b + 1]
        BY <3>2, <1>3, <1>12 DEF Partition
      <4>2. QED
        <5>1. b \in 0 .. Len(counts) /\ b + 1 \in 0 .. Len(counts)
              /\ b + 1 \in 1 .. Len(counts)
          BY <3>1, <3>2, <1>12
        <5>2. QED
          BY <4>1, <5>1, <1>11, <1>14
    <3>3. CASE b >= Len(counts) /\ b < p
      <4>1. b \in Len(counts) .. p /\ b + 1 \in Len(counts) + 1 .. p
            /\ b + 1 \in Len(counts) .. p
        BY <3>3, <1>12
      <4>2. g[b] = i /\ g[b + 1] = i /\ counts'[b + 1] = 0
        BY <4>1, <1>14, <1>11
      <4>3. QED
        BY <4>2, <1>12
    <3>4. CASE b = p
      BY <3>4, <1>11, <1>14, <1>12, <1>4, <1>10
    <3>5. QED
      BY <3>2, <3>3, <3>4, <1>11, <1>12, <1>7
  <2>3. \A b, c \in 0 .. Len(counts') : b <= c => g[b] <= g[c]
    <3>1. TAKE b, c \in 0 .. Len(counts')
    <3>2. HAVE b <= c
    <3>3. CASE c <= Len(counts)
      <4>1. f[b] <= f[c]
        <5>1. b \in 0 .. Len(counts) /\ c \in 0 .. Len(counts)
          BY <3>1, <3>2, <3>3, <1>12, <1>11, <1>7
        <5>2. QED
          BY <5>1, <3>2, <1>3 DEF Partition
      <4>2. QED
        BY SMTT(20), <4>1, <3>2, <3>3, <1>14, <1>12, <1>11, <1>7
    <3>4. CASE c > Len(counts) /\ b <= Len(counts)
      <4>1. f[b] \in 0 .. i /\ g[b] = f[b]
        BY <3>4, <1>13, <1>14, <1>12
      <4>2. g[c] = i \/ g[c] = j
        <5>1. c \in Len(counts) .. p \/ c = p + 1
          BY <3>4, <1>11, <1>12
        <5>2. QED
          BY <5>1, <1>14
      <4>3. QED
        BY <4>1, <4>2, <1>10, <1>12
    <3>5. CASE b > Len(counts)
      <4>1. /\ b \in Len(counts) .. p \/ b = p + 1
            /\ c \in Len(counts) .. p \/ c = p + 1
        BY SMTT(20), <3>2, <3>5, <1>11, <1>12
      <4>2. (g[b] = i \/ g[b] = j) /\ (g[c] = i \/ g[c] = j)
        BY <4>1, <1>14
      <4>3. b = p + 1 => c = p + 1
        BY <3>2, <1>11, <1>12
      <4>4. QED
        BY <4>1, <4>2, <4>3, <1>14, <1>10, <1>12
    <3>6. QED
      BY SMTT(20), <3>3, <3>4, <3>5, <1>11, <1>12, <1>7
  <2>4. ASSUME NEW b \in 0 .. Len(counts') - 1, NEW k \in 0 .. i' - 1
        PROVE  E(k)' = b <=> (g[b] <= k /\ k < g[b + 1])
    <3>1. k \in 0 .. N - 1 /\ k \in 0 .. j - 1 /\ E(k)' = E(k)
      BY <1>6, <1>10, <1>15, <1>2
    <3>2. CASE k < i
      <4>1. k \in 0 .. i - 1 /\ E(k) < Len(counts) /\ E(k) < p /\ E(k) \in Nat
        BY <3>2, <3>1, <1>18, <1>4
      <4>2. CASE b < Len(counts)
        <5>1. E(k) = b <=> (f[b] <= k /\ k < f[b + 1])
          BY <4>1, <4>2, <1>3, <1>12 DEF Partition
        <5>2. QED
          BY <5>1, <4>2, <3>1, <1>14, <1>12
      <4>3. CASE b >= Len(counts)
        <5>1. g[b] = i
          BY <4>3, <1>14, <1>11, <1>12, <1>7
        <5>2. QED
          BY <5>1, <4>1, <4>3, <3>1, <3>2, <1>4, <1>12
      <4>4. QED
        BY <4>2, <4>3, <1>12
    <3>3. CASE k >= i
      <4>1. E(k) = p
        BY <3>3, <3>1, <1>17, <1>4, <1>10
      <4>2. CASE b < p
        <5>1. b + 1 \in 0 .. Len(counts) \/ b + 1 \in Len(counts) .. p
          BY <4>2, <1>12
        <5>2. g[b + 1] \in 0 .. i
          BY <5>1, <1>13, <1>14, <1>12
        <5>3. QED
          BY <5>2, <4>1, <4>2, <3>1, <3>3, <1>12
      <4>3. CASE b = p
        BY <4>1, <4>3, <3>1, <3>3, <1>14, <1>12, <1>10
      <4>4. QED
        BY <4>2, <4>3, <1>11, <1>7
    <3>4. QED
      BY <3>2, <3>3, <1>4, <3>1
  <2>5. QED
    BY <2>1, <2>2, <2>3, <2>4 DEF Partition
<1>21. Frontier'
  <2>1. \A k \in 0 .. j - 1 : E(k) <= p
    BY <1>17, <1>18, <1>4, <1>7, <1>10
  <2>2. ASSUME NEW k \in j .. N - 1 PROVE E(k) > p
    <3>1. j < N /\ j \in 0 .. N - 1 /\ k \in 0 .. N - 1 /\ i <= j /\ j <= k
      BY <1>10, <1>2, <1>4
    <3>2. E(j) # p
      BY <3>1, <1>6, <1>60 DEF IsRun
    <3>3. E(i) <= E(j) /\ E(j) <= E(k)
      BY <3>1, <1>2, <1>4
    <3>4. E(i) = p /\ E(j) \in Nat /\ E(k) \in Nat
      BY <3>1, <1>2, <1>4, <1>60
    <3>5. QED
      BY <3>2, <3>3, <3>4, <1>7
  <2>3. last_p' = p /\ i' = j /\ i' > 0 /\ i' \in 1 .. N
    BY <1>1, <1>6, <1>10, <1>60
  <2>4. /\ \A k \in 0 .. i' - 1 : E(k)' <= last_p'
        /\ \A k \in i' .. N' - 1 : E(k)' > last_p'
    <3>1. \A k \in 0 .. j - 1 : k \in 0 .. N - 1
      BY <1>10, <1>2
    <3>2. \A k \in j .. N - 1 : k \in 0 .. N - 1
      BY <1>10, <1>2
    <3>3. QED
      BY <2>1, <2>2, <2>3, <3>1, <3>2, <1>15, <1>16
  <2>5. QED
    BY <2>3, <2>4, <1>11 DEF Frontier
<1>22. Stored(g, inputs)'
  <2> DEFINE Old == {m \in 0 .. i - 1 : counts[E(m) + 1] > 1}
             New == {m \in 0 .. j - 1 : counts'[E(m) + 1] > 1}
             OldInput(k) == Input(counts[E(k) + 1], data[k + 1], k - f[E(k)])
             NewInput(k) == Input(counts'[E(k) + 1], data[k + 1], k - g[E(k)])
  <2>1. inputs = {OldInput(k) : k \in Old}
    BY <1>3 DEF Stored
  <2>2. ASSUME NEW k \in 0 .. i - 1
        PROVE  (k \in Old <=> k \in New) /\ OldInput(k) = NewInput(k)
    <3>1. E(k) \in 0 .. Len(counts) - 1
      BY <1>18, <1>12
    <3>2. counts'[E(k) + 1] = counts[E(k) + 1] /\ g[E(k)] = f[E(k)]
      <4>1. E(k) \in 0 .. Len(counts) /\ E(k) + 1 \in 1 .. Len(counts)
        BY <3>1, <1>12
      <4>2. QED
        BY <4>1, <1>11, <1>14
    <3>3. k \in 0 .. j - 1
      BY <1>10, <1>4
    <3>4. QED
      BY <3>2, <3>3
  <2>3. ASSUME NEW k \in i .. j - 1
        PROVE  /\ k \in New <=> j - i > 1
               /\ NewInput(k) = Input(j - i, data[k + 1], k - i)
    <3>1. E(k) = p
      BY <1>17
    <3>2. counts'[p + 1] = j - i /\ g[p] = i
      BY <1>11, <1>14, <1>12
    <3>3. k \in 0 .. j - 1
      BY <1>4, <1>10
    <3>4. QED
      BY <3>1, <3>2, <3>3
  <2>4. BucketInputs(j) =
           {Input(j - i, data[k + 1], k - i) : k \in {m \in i .. j - 1 : j - i > 1}}
    <3>1. CASE j - i > 1
      <4> DEFINE Shifted == {Input(j - i, data[i + k + 1], k) : k \in 0 .. j - i - 1}
                 Direct  == {Input(j - i, data[k + 1], k - i) : k \in i .. j - 1}
      <4>1. ASSUME NEW k \in 0 .. j - i - 1
            PROVE  i + k \in i .. j - 1 /\ (i + k) - i = k
        BY <1>4, <1>10
      <4>2. Shifted \subseteq Direct
        <5>1. ASSUME NEW k \in 0 .. j - i - 1
              PROVE  Input(j - i, data[i + k + 1], k) \in Direct
          <6> DEFINE m == i + k
          <6>1. m \in i .. j - 1 /\ m - i = k
            BY <4>1
          <6>2. Input(j - i, data[m + 1], m - i) \in Direct
            BY <6>1
          <6>3. QED
            BY <6>1, <6>2
        <5>2. QED
          BY <5>1
      <4>3. Direct \subseteq Shifted
        <5>1. ASSUME NEW m \in i .. j - 1
              PROVE  Input(j - i, data[m + 1], m - i) \in Shifted
          <6> DEFINE k == m - i
          <6>1. k \in 0 .. j - i - 1 /\ i + k = m
            BY <1>4, <1>10
          <6>2. Input(j - i, data[i + k + 1], k) \in Shifted
            BY <6>1
          <6>3. QED
            BY <6>1, <6>2
        <5>2. QED
          BY <5>1
      <4>4. BucketInputs(j) = Shifted
        BY <3>1 DEF BucketInputs
      <4>5. {m \in i .. j - 1 : j - i > 1} = i .. j - 1
        BY <3>1
      <4>6. QED
        BY <4>2, <4>3, <4>4, <4>5
    <3>2. CASE ~ (j - i > 1)
      BY <3>2 DEF BucketInputs
    <3>3. QED
      BY <3>1, <3>2
  <2>5. inputs' = {NewInput(k) : k \in New}
    <3> DEFINE Fresh == {m \in i .. j - 1 : j - i > 1}
    <3>1. New = Old \cup Fresh
      <4>1. ASSUME NEW k PROVE k \in New <=> k \in Old \/ k \in Fresh
        <5>1. k \in 0 .. j - 1 <=> k \in 0 .. i - 1 \/ k \in i .. j - 1
          BY <1>4, <1>10
        <5>2. ~ (k \in 0 .. i - 1 /\ k \in i .. j - 1)
          BY <1>4
        <5>3. CASE k \in 0 .. i - 1
          BY <5>2, <5>3, <2>2
        <5>4. CASE k \in i .. j - 1
          BY <5>2, <5>4, <2>3
        <5>5. QED
          BY <5>1, <5>3, <5>4
      <4>2. QED
        BY <4>1
    <3>2. \A k \in Old : OldInput(k) = NewInput(k)
      BY <2>2
    <3>3. \A k \in Fresh : NewInput(k) = Input(j - i, data[k + 1], k - i)
      BY <2>3
    <3>4. inputs = {NewInput(k) : k \in Old}
      BY <2>1, <3>2
    <3>5. BucketInputs(j) = {NewInput(k) : k \in Fresh}
      BY <2>4, <3>3
    <3> HIDE DEF NewInput, Old, New, Fresh
    <3>6. QED
      BY <1>6, <3>1, <3>4, <3>5
  <2>6. QED
    <3>1. inputs' = {Input(counts'[E(k) + 1], data[k + 1], k - g[E(k)]) :
                        k \in {m \in 0 .. j - 1 : counts'[E(m) + 1] > 1}}
      BY <2>5
    <3>2. QED
      BY <3>1, <1>6, <1>1 DEF Stored, E
<1>23. QED
  <2>1. Partition(g)' /\ Frontier' /\ Stored(g, inputs)'
    BY <1>20, <1>21, <1>22
  <2>2. QED
    BY <2>1, <1>14, <1>19, <1>1 DEF IInv

(***************************************************************************)
(* Building the tables and allocating the offsets keeps the partition.     *)
(***************************************************************************)
LEMMA BuildRetrievalIInv == IInv /\ BuildRetrieval => IInv'
<1> SUFFICES ASSUME IInv, BuildRetrieval PROVE IInv'
  OBVIOUS
<1>1. /\ TypeOK /\ pc = "scan" /\ pc' = "offsets" /\ i >= N /\ pushed = 0
      /\ data' = data /\ est' = est /\ pushed' = pushed /\ i' = i
      /\ counts' = counts /\ last_p' = last_p /\ entries' = inputs
      /\ ones' = <<0>> /\ position' = 0 /\ selectable' = FALSE
      /\ bv_size' = Len(counts) + N + 1
  BY DEF IInv, BuildRetrieval, OffsetsAllocate
<1>2. PICK f \in [0 .. Len(counts) -> 0 .. i] :
         Partition(f) /\ Frontier /\ Stored(f, inputs)
  BY <1>1 DEF IInv
<1>3. N \in Nat /\ i = N /\ Len(counts) \in Nat
  BY <1>1, Estimates DEF TypeOK
<1>4. TypeOK'
  <2>1. OffsetsTypeOK'
    <3>1. <<0>> \in Seq(Nat) /\ Len(counts) + N + 1 \in Nat
      BY <1>3
    <3>2. selectable' \in BOOLEAN
      BY <1>1
    <3>3. QED
      BY <3>1, <3>2, <1>1 DEF OffsetsTypeOK
  <2>2. QED
    BY <2>1, <1>1 DEF TypeOK, EstimateContract, KeySet, N
<1>5. Partition(f)' /\ Frontier' /\ Stored(f, entries)'
  BY <1>1, <1>2 DEF Partition, Frontier, Stored, E, N
<1>6. OnesAgree(f)'
  <2>1. f[0] = 0
    BY <1>2 DEF Partition
  <2>2. QED
    BY <2>1, <1>1, <1>3 DEF OnesAgree, N
<1>7. QED
  BY <1>1, <1>3, <1>4, <1>5, <1>6 DEF IInv, N

(***************************************************************************)
(* Pushing a count sets the bit that ends its bucket.                      *)
(***************************************************************************)
LEMMA PushCountIInv == IInv /\ PushCount => IInv'
<1> SUFFICES ASSUME IInv, PushCount PROVE IInv'
  OBVIOUS
<1>1. /\ TypeOK /\ pc = "offsets" /\ pushed < Len(counts)
      /\ UNCHANGED <<data, est, pc, i, last_p, counts, entries>>
      /\ pushed' = pushed + 1
      /\ position' = position + counts[pushed + 1] + 1
      /\ ones' = Append(ones, position')
      /\ UNCHANGED <<bv_size, selectable>>
  BY DEF IInv, PushCount, OffsetsPush, scanVars
<1>2. PICK f \in [0 .. Len(counts) -> 0 .. i] :
         /\ Partition(f) /\ Frontier /\ i = N
         /\ Stored(f, entries) /\ OnesAgree(f)
  BY <1>1 DEF IInv
<1>3. /\ N \in Nat /\ Len(counts) \in Nat /\ pushed \in 0 .. Len(counts) - 1
      /\ ones \in Seq(Nat) /\ position \in Nat /\ counts[pushed + 1] \in Nat
  <2>1. N \in Nat
    BY <1>1, Estimates
  <2>2. counts \in Seq(Nat) /\ pushed \in 0 .. Len(counts)
        /\ ones \in Seq(Nat) /\ position \in Nat
    BY <1>1 DEF TypeOK, OffsetsTypeOK
  <2>3. Len(counts) \in Nat /\ pushed \in 0 .. Len(counts) - 1
        /\ pushed + 1 \in 1 .. Len(counts)
    BY <1>1, <2>2
  <2>4. QED
    BY <2>1, <2>2, <2>3, ElementOfSeq
<1>4. position' \in Nat /\ ones' \in Seq(Nat) /\ Len(ones') = Len(ones) + 1
      /\ (\A b \in 1 .. Len(ones) : ones'[b] = ones[b])
      /\ ones'[Len(ones) + 1] = position'
  BY <1>1, <1>3, AppendProperties
<1>5. TypeOK'
  <2>1. OffsetsTypeOK'
    BY <1>1, <1>4 DEF TypeOK, OffsetsTypeOK
  <2>2. pushed' \in 0 .. Len(counts)'
    BY <1>1, <1>3
  <2>3. QED
    BY <2>1, <2>2, <1>1 DEF TypeOK, EstimateContract, KeySet, N
<1>6. Partition(f)' /\ Frontier' /\ Stored(f, entries)'
  BY <1>1, <1>2 DEF Partition, Frontier, Stored, E, N
<1>7. OnesAgree(f)'
  <2>1. /\ Len(ones) = pushed + 1
        /\ \A b \in 0 .. pushed : ones[b + 1] = f[b] + b
        /\ position = ones[pushed + 1]
        /\ bv_size = Len(counts) + N + 1
    BY <1>2 DEF OnesAgree
  <2>2. f[pushed + 1] = f[pushed] + counts[pushed + 1]
    BY <1>2, <1>3 DEF Partition
  <2>3. f[pushed] \in Nat
    BY <1>3, <1>2
  <2>4. position' = f[pushed + 1] + (pushed + 1)
    BY <2>1, <2>2, <2>3, <1>1, <1>3
  <2>5. \A b \in 0 .. pushed : ones'[b + 1] = f[b] + b
    <3>1. \A b \in 0 .. pushed : b + 1 \in 1 .. Len(ones)
      BY <2>1, <1>3
    <3>2. QED
      BY <3>1, <2>1, <1>4
  <2>6. ones'[pushed' + 1] = position' /\ Len(ones') = pushed' + 1
    BY <2>1, <1>1, <1>4, <1>3
  <2>7. \A b \in 0 .. pushed' : ones'[b + 1] = f[b] + b
    <3>1. \A b \in 0 .. pushed' : b \in 0 .. pushed \/ b = pushed'
      BY <1>1, <1>3
    <3>2. QED
      BY <3>1, <2>4, <2>5, <2>6, <1>1
  <2>8. QED
    BY <2>1, <2>6, <2>7, <1>1 DEF OnesAgree, N
<1>8. QED
  BY <1>1, <1>2, <1>5, <1>6, <1>7 DEF IInv, N

(***************************************************************************)
(* The last constructor step and the queries change nothing the invariant  *)
(* speaks of, except that every count has been pushed.                     *)
(***************************************************************************)
LEMMA FinishIInv == IInv /\ Finish => IInv'
<1> SUFFICES ASSUME IInv, Finish PROVE IInv'
  OBVIOUS
<1>1. /\ TypeOK /\ pc = "offsets" /\ pc' = "ready" /\ pushed = Len(counts)
      /\ UNCHANGED <<data, est, i, last_p, counts, entries, pushed,
                     ones, bv_size, position>>
      /\ selectable' = TRUE
  BY DEF IInv, Finish, OffsetsDone, scanVars
<1>2. PICK f \in [0 .. Len(counts) -> 0 .. i] :
         /\ Partition(f) /\ Frontier /\ i = N
         /\ Stored(f, entries) /\ OnesAgree(f)
  BY <1>1 DEF IInv
<1>3. TypeOK'
  BY <1>1 DEF TypeOK, OffsetsTypeOK, EstimateContract, KeySet, N
<1>4. Partition(f)' /\ Frontier' /\ Stored(f, entries)' /\ OnesAgree(f)'
  BY <1>1, <1>2 DEF Partition, Frontier, Stored, OnesAgree, E, N
<1>5. QED
  BY <1>1, <1>2, <1>3, <1>4 DEF IInv, N

LEMMA UnchangedIInv ==
    IInv /\ UNCHANGED <<data, est, pc, scanVars, entries, offsetVars, pushed>>
        => IInv'
<1> SUFFICES ASSUME IInv,
                    UNCHANGED <<data, est, pc, scanVars, entries, offsetVars, pushed>>
             PROVE  IInv'
  OBVIOUS
<1>1. UNCHANGED <<data, est, pc, i, last_p, counts, inputs, entries, ones,
                 bv_size, position, selectable, pushed>>
  BY DEF scanVars, offsetVars
<1>2. TypeOK'
  BY <1>1 DEF IInv, TypeOK, OffsetsTypeOK, EstimateContract, KeySet, N
<1>3. CASE pc = "spline"
  BY <1>1, <1>2, <1>3 DEF IInv
<1>4. CASE pc # "spline"
  <2>1. PICK f \in [0 .. Len(counts) -> 0 .. i] :
           /\ Partition(f) /\ Frontier
           /\ pc = "scan" => Stored(f, inputs)
           /\ pc \in {"offsets", "ready"} => i = N /\ Stored(f, entries) /\ OnesAgree(f)
           /\ pc = "ready" => pushed = Len(counts)
    BY <1>4 DEF IInv
  <2>2. /\ Partition(f)' /\ Frontier'
        /\ (pc = "scan" => Stored(f, inputs))'
        /\ (pc \in {"offsets", "ready"} => i = N /\ Stored(f, entries) /\ OnesAgree(f))'
        /\ (pc = "ready" => pushed = Len(counts))'
    BY <1>1, <2>1 DEF Partition, Frontier, Stored, OnesAgree, E, N
  <2>3. (pc = "scan" => pushed = 0)'
    BY <1>1 DEF IInv
  <2>4. QED
    BY <1>1, <1>2, <1>4, <2>2, <2>3 DEF IInv
<1>5. QED
  BY <1>3, <1>4

(***************************************************************************)
(* IInv is an invariant of RSHash, and with it type correctness.           *)
(***************************************************************************)
THEOREM Invariance == Spec => []IInv
<1>1. Init => IInv
  BY InitIInv
<1>2. IInv /\ [Next]_vars => IInv'
  <2> SUFFICES ASSUME IInv, [Next]_vars PROVE IInv'
    OBVIOUS
  <2>1. CASE BuildSpline
    BY <2>1, BuildSplineIInv
  <2>2. CASE ScanRound
    BY <2>2, ScanRoundIInv
  <2>3. CASE BuildRetrieval
    BY <2>3, BuildRetrievalIInv
  <2>4. CASE PushCount
    BY <2>4, PushCountIInv
  <2>5. CASE Finish
    BY <2>5, FinishIInv
  <2>6. CASE Query
    BY <2>6, UnchangedIInv DEF Query
  <2>7. CASE UNCHANGED vars
    BY <2>7, UnchangedIInv DEF vars
  <2>8. QED
    BY <2>1, <2>2, <2>3, <2>4, <2>5, <2>6, <2>7 DEF Next, Constructor
<1>3. QED
  BY <1>1, <1>2, PTL DEF Spec

-----------------------------------------------------------------------------
(***************************************************************************)
(* What the offsets return for a bucket, once every count is pushed.       *)
(***************************************************************************)
LEMMA OffsetsOfBucket ==
    ASSUME TypeOK, pushed = Len(counts), i \in Nat,
           NEW f \in [0 .. Len(counts) -> 0 .. i], Partition(f), OnesAgree(f),
           NEW b \in 0 .. Len(counts) - 1
    PROVE  at(b) = [offset |-> f[b], size |-> counts[b + 1]]
<1>1. Len(counts) \in Nat /\ b \in Nat /\ b + 1 \in 0 .. Len(counts)
      /\ b \in 0 .. Len(counts) /\ counts[b + 1] \in Nat
  <2>1. counts \in Seq(Nat)
    BY DEF TypeOK
  <2>2. Len(counts) \in Nat /\ b + 1 \in 1 .. Len(counts)
    BY <2>1
  <2>3. QED
    BY <2>1, <2>2, ElementOfSeq
<1>2. f[b] \in Nat /\ f[b + 1] \in Nat
  <2>1. f[b] \in 0 .. i /\ f[b + 1] \in 0 .. i
    BY <1>1
  <2>2. QED
    BY <2>1
<1>3. Len(ones) = Len(counts) + 1 /\ \A c \in 0 .. Len(counts) : ones[c + 1] = f[c] + c
  BY DEF OnesAgree
<1>4. ones[b + 1] = f[b] + b /\ ones[b + 2] = f[b + 1] + b + 1
      /\ f[b + 1] = f[b] + counts[b + 1]
  <2>1. ones[b + 1] = f[b] + b /\ ones[(b + 1) + 1] = f[b + 1] + (b + 1)
    BY <1>1, <1>3
  <2>2. (b + 1) + 1 = b + 2
    BY <1>1
  <2>3. f[b + 1] = f[b] + counts[b + 1]
    BY DEF Partition
  <2>4. QED
    BY <2>1, <2>2, <2>3, <1>1, <1>2
<1>5. nextOne(ones[b + 1]) = ones[b + 2]
  <2> DEFINE later == {k \in 1 .. Len(ones) : ones[k] > ones[b + 1]}
             best(k) == \A m \in later : ones[k] <= ones[m]
  <2>1. b + 2 \in later
    <3>1. ones[b + 2] > ones[b + 1]
      BY <1>1, <1>2, <1>4
    <3>2. QED
      BY <3>1, <1>1, <1>3
  <2>2. ASSUME NEW m \in later PROVE m \in 1 .. Len(ones) /\ ones[b + 2] <= ones[m]
    <3>1. m - 1 \in 0 .. Len(counts) /\ m \in Nat /\ (m - 1) + 1 = m
      BY <1>1, <1>3
    <3>2. ones[m] = f[m - 1] + (m - 1) /\ f[m - 1] \in Nat
      <4>1. f[m - 1] \in 0 .. i
        BY <3>1
      <4>2. ones[(m - 1) + 1] = f[m - 1] + (m - 1)
        BY <3>1, <1>3
      <4>3. QED
        BY <3>1, <4>1, <4>2
    <3>3. CASE m - 1 <= b
      <4>1. f[m - 1] <= f[b]
        BY <3>1, <3>3, <1>1 DEF Partition
      <4>2. ones[m] <= ones[b + 1]
        BY <3>1, <3>2, <3>3, <4>1, <1>1, <1>2, <1>4
      <4>3. ones[m] > ones[b + 1]
        OBVIOUS
      <4>4. ones[m] \in Nat /\ ones[b + 1] \in Nat
        <5>1. ones \in Seq(Nat)
          BY DEF TypeOK, OffsetsTypeOK
        <5>2. m \in 1 .. Len(ones) /\ b + 1 \in 1 .. Len(ones)
          BY <1>1, <1>3
        <5> HIDE DEF later
        <5>3. QED
          BY <5>1, <5>2, ElementOfSeq
      <4>5. QED
        BY <4>2, <4>3, <4>4
    <3>4. CASE m - 1 > b
      <4>1. f[b + 1] <= f[m - 1]
        BY <3>1, <3>4, <1>1 DEF Partition
      <4>2. PICK x \in Nat, y \in Nat : x = f[b + 1] /\ y = f[m - 1]
        BY <3>2, <1>2
      <4>3. ones[b + 2] = x + b + 1 /\ ones[m] = y + (m - 1) /\ x <= y
        BY <4>1, <4>2, <3>2, <1>4
      <4>4. x + b + 1 <= y + (m - 1)
        BY <4>3, <3>1, <3>4, <1>1
      <4>5. QED
        BY <4>3, <4>4
    <3>5. QED
      BY <3>1, <3>3, <3>4, <1>1
  <2>3. \E k \in later : best(k)
    BY <2>1, <2>2
  <2> DEFINE first == CHOOSE k \in later : best(k)
  <2>4. nextOne(ones[b + 1]) = ones[first]
    BY DEF nextOne
  <2>5. first \in later /\ best(first)
    BY <2>3
  <2>6. ones[first] <= ones[b + 2] /\ ones[b + 2] <= ones[first]
    BY <2>1, <2>2, <2>5
  <2>7. ones[first] \in Nat /\ ones[b + 2] \in Nat
    <3>1. ones \in Seq(Nat)
      BY DEF TypeOK, OffsetsTypeOK
    <3>2. first \in 1 .. Len(ones) /\ b + 2 \in 1 .. Len(ones)
      BY <2>1, <2>5
    <3> HIDE DEF first, later
    <3>3. QED
      BY <3>1, <3>2, ElementOfSeq
  <2> HIDE DEF first
  <2>8. QED
    BY <2>4, <2>6, <2>7
<1>6. at(b) = [offset |-> ones[b + 1] - b, size |-> ones[b + 2] - ones[b + 1] - 1]
  BY <1>5 DEF at, select1
<1>7. ones[b + 1] - b = f[b] /\ ones[b + 2] - ones[b + 1] - 1 = counts[b + 1]
  <2>1. PICK x \in Nat, y \in Nat, c \in Nat :
           x = f[b] /\ y = f[b + 1] /\ c = counts[b + 1]
    BY <1>1, <1>2
  <2>2. ones[b + 1] = x + b /\ ones[b + 2] = y + b + 1 /\ y = x + c
    BY <2>1, <1>4
  <2>3. (x + b) - b = x /\ (y + b + 1) - (x + b) - 1 = c
    BY <2>2, <1>1
  <2>4. QED
    BY <2>1, <2>2, <2>3
<1>8. QED
  BY <1>6, <1>7

(***************************************************************************)
(* The tables hold exactly one value for a key of a larger bucket.         *)
(***************************************************************************)
LEMMA StoredValue ==
    ASSUME TypeOK, pc = "ready", i = N, Len(counts) = last_p + 1, Frontier,
           NEW f \in [0 .. Len(counts) -> 0 .. i], Partition(f),
           Stored(f, entries), NEW k \in 0 .. N - 1, counts[E(k) + 1] > 1
    PROVE  Retrieve(entries, counts[E(k) + 1], data[k + 1]) = {k - f[E(k)]}
<1>1. /\ N \in Nat /\ \A m \in 0 .. N - 1 : E(m) \in Nat
      /\ N <= WideCapacity
  <2>1. N \in Nat /\ \A m \in 0 .. N - 1 : E(m) \in Nat
    BY Estimates, MaxEstimateAssumption
  <2>2. N <= WideCapacity
    BY DEF TypeOK, Hashable, N
  <2>3. QED
    BY <2>1, <2>2
<1> DEFINE b == E(k)
           c == counts[b + 1]
           v == k - f[b]
<1>2. b \in 0 .. Len(counts) - 1
  <2>1. last_p \in Nat /\ E(k) <= last_p
    BY MaxEstimateAssumption DEF TypeOK, Frontier
  <2>2. QED
    BY <2>1, <1>1
<1>3. /\ c \in Nat /\ f[b] <= k /\ k < f[b + 1] /\ f[b + 1] = f[b] + c
      /\ f[b] \in Nat /\ f[b + 1] \in 0 .. N
  <2>1. counts \in Seq(Nat) /\ Len(counts) \in Nat
    BY DEF TypeOK
  <2>2. b + 1 \in 1 .. Len(counts) /\ b \in 0 .. Len(counts) /\ b + 1 \in 0 .. Len(counts)
    BY <1>2, <2>1
  <2>3. c \in Nat
    BY <2>1, <2>2, ElementOfSeq
  <2>4. f[b] \in 0 .. N /\ f[b + 1] \in 0 .. N
    BY <2>2
  <2>5. f[b + 1] = f[b] + c
    BY <1>2 DEF Partition
  <2>6. f[b] <= k /\ k < f[b + 1]
    BY <1>2 DEF Partition
  <2>7. QED
    BY <2>3, <2>4, <2>5, <2>6, <1>1
<1> HIDE DEF b, c
<1>4. v \in Nat /\ v < c /\ c <= WideCapacity
  <2>1. WideCapacity \in Nat
    BY WideCapacityAssumption
  <2>2. QED
    BY <2>1, <1>1, <1>3
<1>5. v % Capacity[TableFor(c)] = v
  BY <1>3, <1>4, TableFits
<1> DEFINE hits == {e \in entries : e.key = data[k + 1] /\ e.table = TableFor(c)}
           entry(m) == Input(counts[E(m) + 1], data[m + 1], m - f[E(m)])
<1>6. entries = {entry(m) : m \in {n \in 0 .. i - 1 : counts[E(n) + 1] > 1}}
  BY DEF Stored
<1>7. entry(k) \in hits /\ entry(k).value = v
  <2>1. entry(k) = [table |-> TableFor(c), key |-> data[k + 1], value |-> v]
    BY <1>5 DEF Input, b, c
  <2>2. entry(k) \in entries
    BY <1>6
  <2>3. QED
    BY <2>1, <2>2
<1>8. ASSUME NEW e \in hits PROVE e = entry(k)
  <2>1. PICK m \in 0 .. i - 1 : e = entry(m)
    BY <1>6
  <2>2. e.key = data[m + 1]
    BY <2>1 DEF Input
  <2>3. data[m + 1] = data[k + 1]
    BY <2>2
  <2>4. m = k
    BY <2>3, KeysDistinct
  <2>5. QED
    BY <2>1, <2>4
<1> HIDE DEF entry
<1>9. {e.value : e \in hits} = {v}
  BY <1>7, <1>8
<1>10. hits # {} /\ \A e1, e2 \in hits : e1.value = e2.value
  BY <1>7, <1>8
<1>11. Retrieve(entries, c, data[k + 1]) = {e.value : e \in hits}
  BY <1>10 DEF Retrieve
<1>12. QED
  BY <1>9, <1>11 DEF b, c

(***************************************************************************)
(* The main result: in every queryable RSHash the only possible answer for *)
(* the k-th key is k.                                                      *)
(***************************************************************************)
LEMMA RankFromIInv == IInv => RankCorrect
<1> SUFFICES ASSUME IInv, pc = "ready", NEW k \in 0 .. N - 1
             PROVE  Ranks(data[k + 1]) = {k}
  BY DEF RankCorrect
<1>1. PICK f \in [0 .. Len(counts) -> 0 .. i] :
         /\ Partition(f) /\ Frontier /\ i = N /\ Stored(f, entries)
         /\ OnesAgree(f) /\ pushed = Len(counts)
  BY DEF IInv
<1>2. TypeOK /\ N \in Nat /\ E(k) \in Nat /\ i \in Nat
  BY <1>1, Estimates, MaxEstimateAssumption DEF IInv
<1>3. Len(counts) = last_p + 1 /\ last_p \in Nat /\ E(k) <= last_p
  BY <1>1, <1>2, MaxEstimateAssumption DEF Frontier, TypeOK
<1>4. E(k) \in 0 .. Len(counts) - 1
  BY <1>2, <1>3
<1> DEFINE b == E(k)
<1>5. at(b) = [offset |-> f[b], size |-> counts[b + 1]]
  BY <1>1, <1>2, <1>4, OffsetsOfBucket
<1>6. f[b] <= k /\ k < f[b + 1] /\ f[b + 1] = f[b] + counts[b + 1]
  BY <1>1, <1>4 DEF Partition
<1>7. f[b] \in Nat /\ counts[b + 1] \in Nat
  <2>1. counts \in Seq(Nat) /\ Len(counts) \in Nat
    BY <1>2 DEF TypeOK
  <2>2. b + 1 \in 1 .. Len(counts) /\ b \in 0 .. Len(counts)
    BY <2>1, <1>4
  <2>3. f[b] \in 0 .. i
    BY <2>2
  <2>4. QED
    BY <2>1, <2>2, <2>3, <1>2, ElementOfSeq
<1>8. est[data[k + 1]] = b
  BY DEF E
<1> HIDE DEF b
<1>9. CASE counts[b + 1] <= 1
  <2>1. Ranks(data[k + 1]) = {f[b]}
    BY <1>5, <1>8, <1>9 DEF Ranks
  <2>2. QED
    BY <2>1, <1>6, <1>7, <1>9
<1>10. CASE counts[b + 1] > 1
  <2>1. Retrieve(entries, counts[b + 1], data[k + 1]) = {k - f[b]}
    BY <1>1, <1>2, <1>3, <1>10, StoredValue DEF b
  <2>2. Ranks(data[k + 1]) = {f[b] + v : v \in {k - f[b]}}
    BY <2>1, <1>5, <1>7, <1>8, <1>10 DEF Ranks
  <2>3. f[b] + (k - f[b]) = k
    BY <1>7
  <2>4. QED
    BY <2>2, <2>3
<1>11. QED
  BY <1>7, <1>9, <1>10

(***************************************************************************)
(* The variables of the constructor and of the bucket offsets keep their   *)
(* types; in particular the scan index never passes the number of keys.    *)
(***************************************************************************)
THEOREM TypeCorrect == Spec => []TypeOK
<1>1. IInv => TypeOK
  BY DEF IInv
<1>2. QED
  BY <1>1, Invariance, PTL

(***************************************************************************)
(* RankCorrect in every reachable state: a query of a finished RSHash for  *)
(* a key it was built from returns the rank of the key.                    *)
(***************************************************************************)
THEOREM RankTheorem == Spec => []RankCorrect
  BY Invariance, RankFromIInv, PTL

(***************************************************************************)
(* The bits allocated from the numbers of buckets and keys suffice.        *)
(***************************************************************************)
THEOREM PushFitsTheorem == Spec => []PushFits
<1>1. IInv => PushFits
  <2> SUFFICES ASSUME IInv, pc \notin {"spline", "scan"}
               PROVE  position < bv_size
    BY DEF PushFits
  <2>1. pc \in {"offsets", "ready"} /\ TypeOK
    BY DEF IInv, TypeOK
  <2>2. PICK f \in [0 .. Len(counts) -> 0 .. i] : i = N /\ OnesAgree(f)
    BY <2>1 DEF IInv
  <2>3. N \in Nat /\ counts \in Seq(Nat) /\ Len(counts) \in Nat
        /\ pushed \in 0 .. Len(counts)
    BY <2>1, Estimates DEF TypeOK
  <2>4. f[pushed] \in 0 .. N
    BY <2>2, <2>3
  <2>5. position = f[pushed] + pushed /\ bv_size = Len(counts) + N + 1
    BY <2>2, <2>3 DEF OnesAgree
  <2>6. QED
    BY <2>3, <2>4, <2>5
<1>2. QED
  BY <1>1, Invariance, PTL

(***************************************************************************)
(* RSHash implements the abstract minimal perfect hash function: every     *)
(* constructor step but the last is a stutter, and every query answers as  *)
(* the abstract one.                                                       *)
(***************************************************************************)
THEOREM Refinement == Spec => ImplementsMMPHF
<1>1. Init => Abstract!Init
  BY DEF Init, Abstract!Init
<1>2. IInv /\ [Next]_vars => [Abstract!Next]_<<data, pc = "ready", answer>>
  <2> SUFFICES ASSUME IInv, [Next]_vars
               PROVE  [Abstract!Next]_<<data, pc = "ready", answer>>
    OBVIOUS
  <2>1. CASE BuildSpline \/ ScanRound \/ BuildRetrieval \/ PushCount
    BY <2>1 DEF BuildSpline, ScanRound, BuildRetrieval, PushCount
  <2>2. CASE Finish
    BY <2>2 DEF Finish, Abstract!Next, Abstract!Construct
  <2>3. CASE Query
    <3>1. PICK key \in KeySet : \E r \in Ranks(key) :
             answer' = [key |-> key, rank |-> r]
      BY <2>3 DEF Query
    <3>2. N \in Nat /\ pc = "ready" /\ UNCHANGED <<data, pc>>
      BY <2>3, Estimates DEF Query, IInv
    <3>3. PICK m \in 1 .. N : key = data[m]
      BY DEF KeySet
    <3>4. m - 1 \in 0 .. N - 1 /\ (m - 1) + 1 = m
      BY <3>2
    <3>5. Ranks(data[(m - 1) + 1]) = {m - 1}
      BY <3>2, <3>4, RankFromIInv DEF RankCorrect
    <3>6. answer' = [key |-> data[(m - 1) + 1], rank |-> m - 1]
      BY <3>1, <3>3, <3>4, <3>5
    <3>7. Abstract!Query
      BY <3>2, <3>4, <3>6 DEF Abstract!Query, N
    <3>8. QED
      BY <3>7 DEF Abstract!Next
  <2>4. CASE UNCHANGED vars
    BY <2>4 DEF vars
  <2>5. QED
    BY <2>1, <2>2, <2>3, <2>4 DEF Next, Constructor
<1>3. QED
  BY <1>1, <1>2, Invariance, PTL DEF Spec, ImplementsMMPHF, Abstract!Spec

-----------------------------------------------------------------------------
(* The chunks of RSHash4s. *)

\* the arithmetic is right for every number of depths
LEMMA ChunkPowers ==
    ASSUME NEW b \in 1 .. Cardinality(Chars), NEW n \in 0 .. NumMaps
    PROVE  Powers(b, n)
<1>1. n \in Nat /\ NumMaps \in Nat /\ b \in Nat \ {0}
  BY CharsFinite, AlphabetMapsAssumption
<1>2. \A k \in 0 .. n : k \in 0 .. NumMaps
  BY <1>1
<1>3. QED
  BY <1>1, <1>2, ChunkPowersAssumption DEF Powers

\* the k-th digit of the chunk of a string
DigitAt(a, s, start, behind, k) ==
    IF k - 1 < Len(s) - start
    THEN Least(rank(a.ams[a.j_list[k]], Byte(s, start + a.j_list[k], behind)),
               a.max_branching_num - 1)
    ELSE 0

Digits(a, s, start, behind) ==
    [k \in 1 .. Len(a.j_list) |-> DigitAt(a, s, start, behind, k)]

\* readChunk returns the number written with the digits
LEMMA ReadChunkNumber ==
    ASSUME NEW a, NEW s, NEW start, NEW behind, Len(a.j_list) \in Nat
    PROVE  \E c : /\ readChunk(a, s, start, behind) = c[Len(a.j_list)]
                  /\ IsNumber(c, Digits(a, s, start, behind), a.max_branching_num,
                              Len(a.j_list))
<1> DEFINE n == Len(a.j_list)
           b == a.max_branching_num
           Digit(k) == IF k - 1 < Len(s) - start
                       THEN Least(rank(a.ams[a.j_list[k]],
                                       Byte(s, start + a.j_list[k], behind)), b - 1)
                       ELSE 0
           body(f) == [k \in 0 .. n |-> IF k = 0 THEN 0
                                        ELSE (f[k - 1] * b + Digit(k)) % 2^ChunkBits]
           d == Digits(a, s, start, behind)
           c == CHOOSE f : f = body(f)
<1>1. readChunk(a, s, start, behind) = c[n]
  BY DEF readChunk
<1>2. \A k \in 1 .. n : d[k] = Digit(k)
  BY DEF Digits, DigitAt
<1>3. PICK f : f = [k \in 0 .. n |-> IF k = 0 THEN 0
                                     ELSE (f[k - 1] * b + d[k]) % 2^ChunkBits]
  <2> HIDE DEF d, b
  <2> QED
    BY ZenonT(30), NumberExists
<1> HIDE DEF d, Digit
<1>4. f = body(f)
  <2>1. \A k \in 0 .. n : k # 0 => k \in 1 .. n
    OBVIOUS
  <2>2. QED
    BY <1>2, <1>3, <2>1
<1>5. c = body(c)
  <2> HIDE DEF body
  <2> QED
    BY <1>4
<1> HIDE DEF c
<1>6. IsNumber(c, d, b, n)
  <2>1. c[0] = 0
    BY <1>5
  <2>2. ASSUME NEW k \in 1 .. n PROVE c[k] = (c[k - 1] * b + d[k]) % 2^ChunkBits
    <3>1. k \in 0 .. n /\ k # 0
      OBVIOUS
    <3>2. c[k] = (c[k - 1] * b + Digit(k)) % 2^ChunkBits
      BY <1>5, <3>1
    <3>3. QED
      BY <1>2, <3>2
  <2>3. QED
    BY <2>1, <2>2 DEF IsNumber
<1>7. QED
  BY <1>1, <1>6 DEF d

-----------------------------------------------------------------------------
(* The alphabets of the branching characters. *)

\* the depths in use, in increasing order
LEMMA JListOf ==
    ASSUME NEW ams, DOMAIN ams = 0 .. NumMaps - 1
    PROVE  LET used == {n \in DOMAIN ams : n = 0 \/ ams[n] # {}}
               j == JList(ams)
           IN  /\ Len(j) \in 0 .. NumMaps
               /\ \A k \in 1 .. Len(j) : j[k] \in used /\ j[k] \in Nat /\ k - 1 <= j[k]
               /\ \A k, l \in 1 .. Len(j) : k < l => j[k] < j[l]
               /\ \A n \in used : \E k \in 1 .. Len(j) : j[k] = n
<1> DEFINE used == {n \in DOMAIN ams : n = 0 \/ ams[n] # {}}
           j == JList(ams)
<1>1. used \in SUBSET Nat /\ used \in SUBSET (0 .. NumMaps - 1) /\ NumMaps \in Nat
  BY AlphabetMapsAssumption
<1>2. IsFiniteSet(0 .. NumMaps - 1) /\ Cardinality(0 .. NumMaps - 1) = NumMaps
  BY <1>1, FS_Interval
<1>3. IsFiniteSet(used) /\ Cardinality(used) \in Nat /\ Cardinality(used) <= NumMaps
  BY <1>1, <1>2, FS_Subset, FS_CardinalityType
<1>4. j = Ascending(used)
  BY DEF JList
<1> HIDE DEF used, j
<1>5. /\ Len(j) = Cardinality(used) /\ Orders(j, used)
      /\ \A k \in 1 .. Len(j) : j[k] \in Nat /\ k - 1 <= j[k]
  BY <1>1, <1>3, <1>4, AscendingOrders
<1>6. /\ Len(j) \in 0 .. NumMaps
      /\ \A k \in 1 .. Len(j) : j[k] \in used /\ j[k] \in Nat /\ k - 1 <= j[k]
      /\ \A k, l \in 1 .. Len(j) : k < l => j[k] < j[l]
      /\ \A n \in used : \E k \in 1 .. Len(j) : j[k] = n
  BY <1>1, <1>3, <1>5 DEF Orders
<1>7. QED
  BY <1>6 DEF used, j

\* MaxBranching is the size of the largest alphabet
LEMMA LargestAlphabet ==
    ASSUME NEW ams, DOMAIN ams = 0 .. NumMaps - 1,
           \A n \in DOMAIN ams : ams[n] \in SUBSET Chars
    PROVE  /\ MaxBranching(ams) \in 0 .. Cardinality(Chars)
           /\ \A n \in DOMAIN ams : Cardinality(ams[n]) <= MaxBranching(ams)
<1> DEFINE S == {Cardinality(ams[n]) : n \in DOMAIN ams}
<1>1. 0 \in DOMAIN ams
  BY AlphabetMapsAssumption
<1>2. \A n \in DOMAIN ams : /\ IsFiniteSet(ams[n])
                            /\ Cardinality(ams[n]) \in Nat
                            /\ Cardinality(ams[n]) <= Cardinality(Chars)
  BY CharsFinite, FS_Subset, FS_CardinalityType
<1>3. S \in SUBSET Nat /\ S # {} /\ \A c \in S : c <= Cardinality(Chars)
  BY <1>1, <1>2
<1>4. \E m \in S : \A c \in S : c <= m
  <2> HIDE DEF S
  <2> QED
    BY <1>3, CharsFinite, GreatestOf
<1>5. \E m \in S : \A n \in DOMAIN ams : Cardinality(ams[n]) <= m
  BY <1>4
<1>6. /\ MaxBranching(ams) \in S
      /\ \A n \in DOMAIN ams : Cardinality(ams[n]) <= MaxBranching(ams)
  BY <1>5 DEF MaxBranching
<1>7. QED
  BY <1>3, <1>6, CharsFinite

-----------------------------------------------------------------------------
(* Chunks keep the order of the strings they are read from. *)

\* what the constructor finds of the strings before it reads the chunks
Found(strs, ls, m, a) ==
    /\ ls = computeLCPs(strs)
    /\ m = MinLCP(ls)
    /\ a = AlphabetMapsOf(ls, m)

\* the branching characters of two neighbours are in the alphabet of the
\* depth at which they differ
LEMMA AlphabetsOfStrings ==
    ASSUME NEW strs \in StringInputs, NEW ls, NEW m, NEW a, Found(strs, ls, m, a)
    PROVE  /\ Len(ls) = Len(strs) - 1 /\ Len(strs) \in Nat /\ m \in Nat
           /\ DOMAIN a.ams = 0 .. NumMaps - 1
           /\ \A n \in DOMAIN a.ams : a.ams[n] \in SUBSET Chars
           /\ a.j_list = JList(a.ams)
           /\ a.max_branching_num \in 1 .. Cardinality(Chars)
           /\ \A n \in DOMAIN a.ams : Cardinality(a.ams[n]) <= a.max_branching_num
           /\ \A k \in 1 .. Len(strs) - 1 :
                 /\ ls[k] = LCP(strs[k], strs[k + 1])
                 /\ ls[k].lcp \in Nat /\ m <= ls[k].lcp
                 /\ ls[k].lcp - m < NumMaps =>
                       ls[k].branchingCharacters \subseteq a.ams[ls[k].lcp - m]
<1>1. /\ strs \in Seq(Texts) /\ Len(strs) \in Nat /\ Len(strs) >= 2
      /\ \A k \in 1 .. Len(strs) - 1 : Precedes(strs[k], strs[k + 1])
  BY StringInputsAssumption, WideCapacityAssumption DEF Texts
<1>2. /\ Len(ls) = Len(strs) - 1
      /\ \A k \in 1 .. Len(strs) - 1 : ls[k] = LCP(strs[k], strs[k + 1])
  BY <1>1 DEF Found, computeLCPs
<1>3. ASSUME NEW k \in 1 .. Len(strs) - 1
      PROVE  ls[k].lcp \in Nat /\ ls[k].branchingCharacters \in SUBSET Chars
                               /\ ls[k].branchingCharacters # {}
  <2> DEFINE s == strs[k]
             t == strs[k + 1]
             n == LCP(s, t).lcp
  <2>1. s \in Texts /\ t \in Texts /\ Precedes(s, t)
    BY <1>1
  <2>2. /\ n \in Nat /\ n <= Len(s) /\ n < Len(t)
        /\ LCP(s, t).branchingCharacters = {Byte(s, n, <<>>), Byte(t, n, <<>>)}
    <3>1. /\ LCP(s, t).lcp \in Nat /\ LCP(s, t).lcp <= Len(s) /\ LCP(s, t).lcp < Len(t)
          /\ \A b, c : LCP(s, t).branchingCharacters
                          = {Byte(s, LCP(s, t).lcp, b), Byte(t, LCP(s, t).lcp, c)}
      BY <2>1, LCPOfPair
    <3>2. QED
      BY <3>1
  <2>3. Len(s) \in Nat /\ Len(t) \in Nat
    BY <2>1 DEF Texts
  <2>4. n \in 0 .. Len(s) /\ n \in 0 .. Len(t)
    BY <2>2, <2>3
  <2>5. Byte(s, n, <<>>) \in Chars /\ Byte(t, n, <<>>) \in Chars
    BY <2>1, <2>4, Bytes
  <2>6. QED
    BY <1>2, <2>2, <2>5
<1>4. m \in Nat /\ \A k \in 1 .. Len(strs) - 1 : m <= ls[k].lcp
  <2>1. Len(ls) \in Nat \ {0}
    BY <1>1, <1>2
  <2>2. m = MinLCP(ls)
    BY DEF Found
  <2>3. QED
    BY <1>2, <1>3, <2>1, <2>2, SmallestLCP
<1>5. /\ a.ams = Alphabets(ls, m) /\ a.j_list = JList(a.ams)
      /\ a.max_branching_num = MaxBranching(a.ams)
  BY DEF Found, AlphabetMapsOf
<1> DEFINE In(n) == {k \in 1 .. Len(ls) : MapIndex(ls[k].lcp - m) = n}
<1>6. a.ams = [n \in 0 .. NumMaps - 1 |-> UNION {ls[k].branchingCharacters : k \in In(n)}]
  BY <1>5 DEF Alphabets
<1>7. DOMAIN a.ams = 0 .. NumMaps - 1
  BY <1>6
<1>8. \A n \in DOMAIN a.ams : a.ams[n] \in SUBSET Chars
  <2> SUFFICES ASSUME NEW n \in 0 .. NumMaps - 1
               PROVE  UNION {ls[k].branchingCharacters : k \in In(n)} \in SUBSET Chars
    BY <1>6, <1>7
  <2>1. \A k \in In(n) : ls[k].branchingCharacters \in SUBSET Chars
    BY <1>2, <1>3
  <2>2. QED
    BY <2>1
<1>9. ASSUME NEW k \in 1 .. Len(strs) - 1
      PROVE  /\ MapIndex(ls[k].lcp - m) \in 0 .. NumMaps - 1
             /\ ls[k].branchingCharacters \subseteq a.ams[MapIndex(ls[k].lcp - m)]
             /\ ls[k].lcp - m < NumMaps => MapIndex(ls[k].lcp - m) = ls[k].lcp - m
  <2>1. ls[k].lcp - m \in Nat
    BY <1>3, <1>4
  <2>2. /\ MapIndex(ls[k].lcp - m) \in 0 .. NumMaps - 1
        /\ ls[k].lcp - m < NumMaps => MapIndex(ls[k].lcp - m) = ls[k].lcp - m
    BY <2>1, AlphabetMapsAssumption DEF MapIndex, Least
  <2>3. k \in In(MapIndex(ls[k].lcp - m))
    BY <1>2
  <2>4. QED
    BY <1>6, <2>2, <2>3
<1>10. /\ a.max_branching_num \in 0 .. Cardinality(Chars)
       /\ \A n \in DOMAIN a.ams : Cardinality(a.ams[n]) <= a.max_branching_num
  BY <1>5, <1>7, <1>8, LargestAlphabet
<1>11. a.max_branching_num \in 1 .. Cardinality(Chars)
  <2> DEFINE n == MapIndex(ls[1].lcp - m)
  <2>1. n \in 0 .. NumMaps - 1 /\ a.ams[n] # {}
    BY <1>1, <1>3, <1>9
  <2>2. IsFiniteSet(a.ams[n]) /\ Cardinality(a.ams[n]) \in Nat
    BY <1>7, <1>8, <2>1, CharsFinite, FS_Subset, FS_CardinalityType
  <2>3. Cardinality(a.ams[n]) # 0
    BY <2>1, <2>2, FS_EmptySet
  <2>4. QED
    BY <1>7, <1>10, <2>1, <2>2, <2>3, CharsFinite
<1>12. QED
  BY <1>1, <1>2, <1>3, <1>4, <1>5, <1>7, <1>8, <1>9, <1>10, <1>11

\* no digit reaches the base
LEMMA DigitsBelowBase ==
    ASSUME NEW a, NEW s, NEW start, NEW behind,
           DOMAIN a.ams = 0 .. NumMaps - 1, a.j_list = JList(a.ams),
           \A n \in DOMAIN a.ams : a.ams[n] \in SUBSET Chars,
           a.max_branching_num \in 1 .. Cardinality(Chars)
    PROVE  \A k \in 1 .. Len(a.j_list) :
              Digits(a, s, start, behind)[k] \in 0 .. a.max_branching_num - 1
<1> SUFFICES ASSUME NEW k \in 1 .. Len(a.j_list)
             PROVE  DigitAt(a, s, start, behind, k) \in 0 .. a.max_branching_num - 1
  BY DEF Digits
<1>1. a.j_list[k] \in DOMAIN a.ams
  BY JListOf
<1> DEFINE r == rank(a.ams[a.j_list[k]], Byte(s, start + a.j_list[k], behind))
<1>2. r \in Nat
  BY <1>1, RankOfAny
<1>3. a.max_branching_num \in Nat \ {0}
  BY CharsFinite
<1> HIDE DEF r
<1>4. Least(r, a.max_branching_num - 1) \in 0 .. a.max_branching_num - 1
  BY <1>2, <1>3 DEF Least
<1>5. QED
  BY <1>3, <1>4 DEF DigitAt, r

\* the depths that are read are increasing, and all alphabets are among them
LEMMA DepthsRead ==
    ASSUME NEW a, DOMAIN a.ams = 0 .. NumMaps - 1, a.j_list = JList(a.ams)
    PROVE  /\ Len(a.j_list) \in 0 .. NumMaps /\ Len(a.j_list) \in Nat
           /\ \A p \in 1 .. Len(a.j_list) :
                 a.j_list[p] \in DOMAIN a.ams /\ a.j_list[p] \in Nat /\ p - 1 <= a.j_list[p]
           /\ \A p, r \in 1 .. Len(a.j_list) : p < r => a.j_list[p] < a.j_list[r]
           /\ \A l \in DOMAIN a.ams :
                 a.ams[l] # {} => \E p \in 1 .. Len(a.j_list) : a.j_list[p] = l
<1> DEFINE A == a.ams
           j == a.j_list
<1>1. DOMAIN A = 0 .. NumMaps - 1 /\ j = JList(A)
  OBVIOUS
<1> HIDE DEF A, j
<1>2. LET used == {n \in DOMAIN A : n = 0 \/ A[n] # {}}
      IN  /\ Len(j) \in 0 .. NumMaps
          /\ \A k \in 1 .. Len(j) : j[k] \in used /\ j[k] \in Nat /\ k - 1 <= j[k]
          /\ \A k, l \in 1 .. Len(j) : k < l => j[k] < j[l]
          /\ \A n \in used : \E k \in 1 .. Len(j) : j[k] = n
  BY <1>1, JListOf
<1>3. Len(j) \in Nat
  BY <1>2, AlphabetMapsAssumption
<1>4. QED
  BY <1>2, <1>3 DEF A, j

\* the first of the n digits to differ is smaller in d1
DifferAtOne(d1, d2, n) ==
    \E q \in 1 .. n : /\ \A p \in 1 .. q - 1 : d1[p] = d2[p]
                      /\ d1[q] < d2[q]

(***************************************************************************)
(* The digits of two neighbours agree up to the depth at which the strings *)
(* differ, where the first string has the smaller digit.  It may have      *)
(* ended by then, and what memory holds behind it makes no difference.     *)
(***************************************************************************)
LEMMA FirstDifferentDigit ==
    ASSUME NEW strs \in StringInputs, NEW ls, NEW m, NEW a, Found(strs, ls, m, a),
           NEW k \in 1 .. Len(strs) - 1, ls[k].lcp - m < NumMaps,
           NEW behind1, NEW behind2
    PROVE  DifferAtOne(Digits(a, strs[k], m, behind1),
                       Digits(a, strs[k + 1], m, behind2), Len(a.j_list))
<1> DEFINE s == strs[k]
           t == strs[k + 1]
           n == ls[k].lcp
           A == a.ams[n - m]
           b == Byte(s, n, behind1)
           c == Byte(t, n, behind2)
           sigma == a.max_branching_num
           Digit1(p) == DigitAt(a, s, m, behind1, p)
           Digit2(p) == DigitAt(a, t, m, behind2, p)
<1>1. s \in Texts /\ t \in Texts /\ Precedes(s, t) /\ Len(s) \in Nat /\ Len(t) \in Nat
  <2>1. /\ strs \in Seq(Texts) /\ Len(strs) \in Nat
        /\ \A p \in 1 .. Len(strs) - 1 : Precedes(strs[p], strs[p + 1])
    BY StringInputsAssumption, WideCapacityAssumption DEF Texts
  <2>2. s \in Texts /\ t \in Texts /\ Precedes(s, t)
    BY <2>1
  <2>3. QED
    BY <2>2 DEF Texts
<1>2. /\ m \in Nat /\ DOMAIN a.ams = 0 .. NumMaps - 1
      /\ \A l \in DOMAIN a.ams : a.ams[l] \in SUBSET Chars
      /\ a.j_list = JList(a.ams)
      /\ sigma \in 1 .. Cardinality(Chars)
      /\ \A l \in DOMAIN a.ams : Cardinality(a.ams[l]) <= sigma
      /\ ls[k] = LCP(s, t) /\ n \in Nat /\ m <= n
      /\ ls[k].branchingCharacters \subseteq A
  BY AlphabetsOfStrings
<1>3. /\ n <= Len(s) /\ n < Len(t)
      /\ \A p \in 1 .. n : s[p] = t[p]
      /\ b < c /\ ls[k].branchingCharacters = {b, c}
  <2>1. /\ LCP(s, t).lcp <= Len(s) /\ LCP(s, t).lcp < Len(t)
        /\ \A p \in 1 .. LCP(s, t).lcp : s[p] = t[p]
        /\ Byte(s, LCP(s, t).lcp, behind1) < Byte(t, LCP(s, t).lcp, behind2)
        /\ LCP(s, t).branchingCharacters
              = {Byte(s, LCP(s, t).lcp, behind1), Byte(t, LCP(s, t).lcp, behind2)}
    <3>1. /\ LCP(s, t).lcp <= Len(s) /\ LCP(s, t).lcp < Len(t)
          /\ \A p \in 1 .. LCP(s, t).lcp : s[p] = t[p]
          /\ \A x, y : Byte(s, LCP(s, t).lcp, x) < Byte(t, LCP(s, t).lcp, y)
          /\ \A x, y : LCP(s, t).branchingCharacters
                          = {Byte(s, LCP(s, t).lcp, x), Byte(t, LCP(s, t).lcp, y)}
      BY <1>1, LCPOfPair
    <3>2. QED
      BY <3>1
  <2>2. QED
    BY <1>2, <2>1
<1>4. /\ n - m \in DOMAIN a.ams /\ n - m \in Nat /\ A \in SUBSET Chars
      /\ b \in A /\ c \in A /\ b \in Nat /\ c \in Nat /\ Cardinality(A) <= sigma
      /\ Cardinality(A) \in Nat
  <2>1. n - m \in DOMAIN a.ams /\ n - m \in Nat
    BY <1>2, AlphabetMapsAssumption
  <2>2. A \in SUBSET Chars /\ b \in A /\ c \in A /\ Cardinality(A) <= sigma
    BY <1>2, <1>3, <2>1
  <2>3. QED
    BY <2>1, <2>2, CharsFinite, FS_Subset, FS_CardinalityType
<1>5. PICK q \in 1 .. Len(a.j_list) : a.j_list[q] = n - m
  <2>1. A # {}
    BY <1>4
  <2>2. QED
    BY <1>2, <1>4, <2>1, DepthsRead
<1>6. /\ Len(a.j_list) \in Nat
      /\ \A p \in 1 .. Len(a.j_list) : a.j_list[p] \in Nat /\ p - 1 <= a.j_list[p]
      /\ \A p, r \in 1 .. Len(a.j_list) : p < r => a.j_list[p] < a.j_list[r]
  BY <1>2, DepthsRead
<1>7. ASSUME NEW p \in 1 .. q - 1 PROVE Digit1(p) = Digit2(p)
  <2> DEFINE j == a.j_list[p]
  <2>1. j \in Nat /\ j < n - m /\ p - 1 <= j /\ p \in Nat
    <3>1. p \in 1 .. Len(a.j_list) /\ p < q /\ p \in Nat
      BY <1>5, <1>6
    <3>2. QED
      BY <1>5, <1>6, <3>1
  <2>2. p - 1 < Len(s) - m /\ p - 1 < Len(t) - m
    <3> DEFINE x == Len(s)
               y == Len(t)
               z == n
    <3>1. /\ x \in Nat /\ y \in Nat /\ z \in Nat /\ m \in Nat /\ z <= x /\ z < y
          /\ j \in Nat /\ j < z - m /\ p - 1 <= j /\ p \in Nat
      BY <1>1, <1>2, <1>3, <2>1
    <3> HIDE DEF x, y, z, j
    <3>2. p - 1 < x - m /\ p - 1 < y - m
      BY <3>1
    <3>3. QED
      BY <3>2 DEF x, y, z
  <2> HIDE DEF j
  <2>3. m + j \in 0 .. Len(s) /\ m + j \in 0 .. Len(t) /\ m + j < Len(s) /\ m + j < Len(t)
        /\ m + j + 1 \in 1 .. n
    <3> DEFINE x == Len(s)
               y == Len(t)
               z == n
    <3>1. /\ x \in Nat /\ y \in Nat /\ z \in Nat /\ m \in Nat /\ z <= x /\ z < y
          /\ j \in Nat /\ j < z - m
      BY <1>1, <1>2, <1>3, <2>1
    <3> HIDE DEF x, y, z
    <3>2. m + j \in 0 .. x /\ m + j \in 0 .. y /\ m + j < x /\ m + j < y
          /\ m + j + 1 \in 1 .. z
      BY <3>1
    <3>3. QED
      BY <3>2 DEF x, y, z
  <2>4. Byte(s, m + j, behind1) = s[m + j + 1] /\ Byte(t, m + j, behind2) = t[m + j + 1]
    BY <1>1, <2>3, Bytes
  <2>5. Byte(s, m + j, behind1) = Byte(t, m + j, behind2)
    BY <1>3, <2>3, <2>4
  <2>6. QED
    BY <2>2, <2>5 DEF DigitAt, j
<1>8. /\ rank(A, b) \in Nat /\ rank(A, c) \in Nat
      /\ rank(A, b) < rank(A, c) /\ rank(A, c) < Cardinality(A)
  BY <1>3, <1>4, RankInAlphabet
<1>9. q \in Nat /\ q - 1 <= n - m /\ m + (n - m) = n /\ sigma \in Nat
  BY SMTT(20), <1>2, <1>5, <1>6, CharsFinite
<1>10. Digit2(q) = rank(A, c)
  <2>1. q - 1 < Len(t) - m
    BY <1>1, <1>2, <1>3, <1>9
  <2>2. Digit2(q) = Least(rank(A, c), sigma - 1)
    BY <1>5, <1>9, <2>1 DEF DigitAt
  <2>3. rank(A, c) <= sigma - 1
    BY <1>4, <1>8, <1>9
  <2>4. QED
    BY <2>2, <2>3 DEF Least
<1>11. Digit1(q) = rank(A, b) \/ Digit1(q) = 0
  <2>1. CASE q - 1 < Len(s) - m
    <3>1. Digit1(q) = Least(rank(A, b), sigma - 1)
      BY <1>5, <1>9, <2>1 DEF DigitAt
    <3>2. rank(A, b) <= sigma - 1
      BY <1>4, <1>8, <1>9
    <3>3. QED
      BY <3>1, <3>2 DEF Least
  <2>2. CASE ~(q - 1 < Len(s) - m)
    BY <2>2 DEF DigitAt
  <2>3. QED
    BY <2>1, <2>2
<1>12. Digit1(q) < Digit2(q)
  BY <1>8, <1>10, <1>11
<1> HIDE DEF s, t
<1>13. /\ \A p \in 1 .. q - 1 : Digits(a, s, m, behind1)[p] = Digits(a, t, m, behind2)[p]
       /\ Digits(a, s, m, behind1)[q] < Digits(a, t, m, behind2)[q]
  <2>1. \A p \in 1 .. q - 1 : p \in 1 .. Len(a.j_list)
    BY <1>5, <1>6
  <2>2. \A p \in 1 .. Len(a.j_list) :
           /\ Digits(a, s, m, behind1)[p] = Digit1(p)
           /\ Digits(a, t, m, behind2)[p] = Digit2(p)
    BY DEF Digits
  <2> HIDE DEF Digit1, Digit2
  <2>3. QED
    BY <1>5, <1>7, <1>12, <2>1, <2>2
<1>14. QED
  BY <1>5, <1>13 DEF s, t, DifferAtOne

\* the chunks of two neighbours are in the order of the strings, if they fit
LEMMA ChunksOfPair ==
    ASSUME NEW strs \in StringInputs, NEW ls, NEW m, NEW a, Found(strs, ls, m, a),
           a.max_branching_num ^ Len(a.j_list) <= 2^ChunkBits,
           NEW k \in 1 .. Len(strs) - 1, ls[k].lcp - m < NumMaps,
           NEW r1 \in Chunks(a, strs[k], m), NEW r2 \in Chunks(a, strs[k + 1], m)
    PROVE  r1 < r2
<1> DEFINE n == Len(a.j_list)
           sigma == a.max_branching_num
<1>1. PICK behind1 : r1 = readChunk(a, strs[k], m, behind1)
  BY DEF Chunks
<1>2. PICK behind2 : r2 = readChunk(a, strs[k + 1], m, behind2)
  BY DEF Chunks
<1> DEFINE d1 == Digits(a, strs[k], m, behind1)
           d2 == Digits(a, strs[k + 1], m, behind2)
<1>3. /\ DOMAIN a.ams = 0 .. NumMaps - 1 /\ a.j_list = JList(a.ams)
      /\ \A l \in DOMAIN a.ams : a.ams[l] \in SUBSET Chars
      /\ sigma \in 1 .. Cardinality(Chars)
  BY AlphabetsOfStrings
<1>4. n \in 0 .. NumMaps /\ n \in Nat
  BY <1>3, DepthsRead
<1>5. PICK c1 : r1 = c1[n] /\ IsNumber(c1, d1, sigma, n)
  BY <1>1, <1>4, ReadChunkNumber
<1>6. PICK c2 : r2 = c2[n] /\ IsNumber(c2, d2, sigma, n)
  BY <1>2, <1>4, ReadChunkNumber
<1>7. \A p \in 1 .. n : d1[p] \in 0 .. sigma - 1 /\ d2[p] \in 0 .. sigma - 1
  BY <1>3, DigitsBelowBase
<1>8. PICK q \in 1 .. n : /\ \A p \in 1 .. q - 1 : d1[p] = d2[p]
                          /\ d1[q] < d2[q]
  <2>1. DifferAtOne(d1, d2, n)
    BY FirstDifferentDigit
  <2>2. QED
    BY <2>1 DEF DifferAtOne
<1>9. sigma^n <= 2^ChunkBits
  OBVIOUS
<1>10. Powers(sigma, n)
  <2> HIDE DEF n, sigma
  <2> QED
    BY <1>3, <1>4, ChunkPowers
<1> HIDE DEF n, sigma, d1, d2
<1>11. QED
  BY <1>5, <1>6, <1>7, <1>8, <1>9, <1>10, SmallerNumber

\* a chunk is a number below 2^64
LEMMA ChunkIsNumber ==
    ASSUME NEW strs \in StringInputs, NEW ls, NEW m, NEW a, Found(strs, ls, m, a),
           NEW s, NEW r \in Chunks(a, s, m)
    PROVE  r \in Nat
<1> DEFINE n == Len(a.j_list)
           b == a.max_branching_num
<1>1. PICK behind : r = readChunk(a, s, m, behind)
  BY DEF Chunks
<1> DEFINE d == Digits(a, s, m, behind)
<1>2. /\ DOMAIN a.ams = 0 .. NumMaps - 1 /\ a.j_list = JList(a.ams)
      /\ \A l \in DOMAIN a.ams : a.ams[l] \in SUBSET Chars
      /\ b \in 1 .. Cardinality(Chars) /\ b \in Nat
  BY AlphabetsOfStrings, CharsFinite
<1>3. n \in Nat
  BY <1>2, DepthsRead
<1>4. \A k \in 1 .. n : d[k] \in 0 .. b - 1
  BY <1>2, DigitsBelowBase
<1>5. PICK c : r = c[n] /\ IsNumber(c, d, b, n)
  BY <1>1, <1>3, ReadChunkNumber
<1>6. 2^ChunkBits \in Nat \ {0}
  BY ChunkPowersAssumption
<1> DEFINE T == {k \in Nat : k <= n => c[k] \in Nat}
<1> HIDE DEF n, b, d
<1>7. 0 \in T
  BY <1>5 DEF IsNumber
<1>8. ASSUME NEW k \in Nat, k \in T PROVE k + 1 \in T
  <2> SUFFICES ASSUME k + 1 <= n PROVE c[k + 1] \in Nat
    OBVIOUS
  <2>1. c[k] \in Nat /\ k + 1 \in 1 .. n /\ (k + 1) - 1 = k
    BY <1>3, <1>8
  <2>2. c[k + 1] = (c[k] * b + d[k + 1]) % 2^ChunkBits
    BY <1>5, <2>1 DEF IsNumber
  <2>3. d[k + 1] \in Nat
    BY <1>2, <1>4, <2>1
  <2>4. c[k] * b + d[k + 1] \in Nat
    BY <1>2, <2>1, <2>3
  <2> DEFINE y == c[k] * b + d[k + 1]
             p == 2^ChunkBits
  <2>5. y \in Nat /\ p \in Nat \ {0} /\ c[k + 1] = y % p
    BY <1>6, <2>2, <2>4
  <2> HIDE DEF y, p
  <2>6. y % p \in Nat
    BY <2>5
  <2>7. QED
    BY <2>5, <2>6
<1>9. Nat \subseteq T
  <2> HIDE DEF T
  <2>1. QED
    BY <1>7, <1>8, AllNaturals
<1>10. QED
  BY <1>3, <1>5, <1>9

-----------------------------------------------------------------------------
(* The constructor and the queries of RSHash4s. *)

\* the invariant holds of a fresh object, and every step keeps it
LEMMA StringsInitIInv == StringsInit => StringsIInv
<1> SUFFICES ASSUME StringsInit PROVE StringsIInv
  OBVIOUS
<1>1. data = <<>> /\ data \in Seq(Nat) /\ N = 0
  BY EmptySeq DEF StringsInit, N
<1>2. \A k \in 1 .. N : data[k] \in Chunks(am, strings[k], minLCP)
  BY <1>1
<1>3. QED
  BY <1>1, <1>2 DEF StringsInit, StringsIInv, Preparing

\* computing the LCPs keeps the invariant
LEMMA ComputeLCPsIInv == StringsIInv /\ ComputeLCPs => StringsIInv'
<1> SUFFICES ASSUME StringsIInv, ComputeLCPs PROVE StringsIInv'
  OBVIOUS
<1>1. /\ pc = "lcps" /\ pc' = "alphabets" /\ data = <<>> /\ data' = <<>> /\ N' = 0
      /\ strings' = strings /\ lcps' = computeLCPs(strings) /\ minLCP' = MinLCP(lcps')
      /\ UNCHANGED <<est, i, last_p, counts, inputs, entries, offsetVars, pushed>>
  BY DEF StringsIInv, ComputeLCPs, hashVars, scanVars, N
<1>2. \A k \in 1 .. N' : data'[k] \in Chunks(am', strings'[k], minLCP')
  BY <1>1
<1>3. OffsetsEmpty'
  BY <1>1 DEF StringsIInv, Preparing, OffsetsEmpty, offsetVars
<1>4. QED
  BY <1>1, <1>2, <1>3 DEF StringsIInv, Preparing

\* so does building the alphabets
LEMMA BuildAlphabetsIInv == StringsIInv /\ BuildAlphabets => StringsIInv'
<1> SUFFICES ASSUME StringsIInv, BuildAlphabets PROVE StringsIInv'
  OBVIOUS
<1>1. /\ pc = "alphabets" /\ pc' = "chunks" /\ data = <<>> /\ data' = <<>> /\ N' = 0
      /\ UNCHANGED <<strings, lcps, minLCP>> /\ am' = AlphabetMapsOf(lcps, minLCP)
      /\ UNCHANGED <<est, i, last_p, counts, inputs, entries, offsetVars, pushed>>
  BY DEF StringsIInv, BuildAlphabets, hashVars, scanVars, N
<1>2. \A k \in 1 .. N' : data'[k] \in Chunks(am', strings'[k], minLCP')
  BY <1>1
<1>3. OffsetsEmpty'
  BY <1>1 DEF StringsIInv, Preparing, OffsetsEmpty, offsetVars
<1>4. Len(strings) \in Nat /\ 0 < Len(strings)
  BY StringInputsAssumption, WideCapacityAssumption DEF StringsIInv
<1>5. QED
  BY <1>1, <1>2, <1>3, <1>4 DEF StringsIInv, Preparing

\* the chunks read so far increase
LEMMA ChunksSoFar ==
    ASSUME StringsIInv, ChunksFit, pc \notin {"lcps", "alphabets"}
    PROVE  \A k \in 1 .. N - 1 : data[k] < data[k + 1]
<1>1. strings \in StringInputs /\ Found(strings, lcps, minLCP, am)
  BY DEF StringsIInv, Found
<1>2. N \in Nat /\ N <= Len(strings) /\ Len(strings) \in Nat
  BY StringInputsAssumption, WideCapacityAssumption DEF StringsIInv, N, Preparing
<1>3. Len(lcps) = Len(strings) - 1
  BY <1>1, AlphabetsOfStrings
<1> SUFFICES ASSUME NEW k \in 1 .. N - 1 PROVE data[k] < data[k + 1]
  OBVIOUS
<1>4. k \in 1 .. Len(strings) - 1 /\ k \in 1 .. N /\ k + 1 \in 1 .. N
  BY <1>2
<1>5. data[k] \in Chunks(am, strings[k], minLCP)
      /\ data[k + 1] \in Chunks(am, strings[k + 1], minLCP)
  BY <1>4 DEF StringsIInv
<1>6. lcps[k].lcp - minLCP < NumMaps /\ am.max_branching_num ^ Len(am.j_list) <= 2^ChunkBits
  BY <1>3, <1>4 DEF ChunksFit
<1>7. QED
  BY <1>1, <1>4, <1>5, <1>6, ChunksOfPair

\* from neighbour to neighbour, so from any element to any later one
LEMMA Increasing ==
    ASSUME NEW d \in Seq(Nat), \A k \in 1 .. Len(d) - 1 : d[k] < d[k + 1]
    PROVE  \A j, k \in 1 .. Len(d) : j < k => d[j] < d[k]
<1>1. Len(d) \in Nat /\ \A k \in 1 .. Len(d) : d[k] \in Nat
  OBVIOUS
<1> SUFFICES ASSUME NEW j \in 1 .. Len(d)
             PROVE  \A k \in 1 .. Len(d) : j < k => d[j] < d[k]
  OBVIOUS
<1> DEFINE T == {k \in Nat : k \in 1 .. Len(d) /\ j < k => d[j] < d[k]}
<1>2. 0 \in T
  BY <1>1
<1>3. ASSUME NEW k \in Nat, k \in T PROVE k + 1 \in T
  <2> SUFFICES ASSUME k + 1 \in 1 .. Len(d), j < k + 1 PROVE d[j] < d[k + 1]
    OBVIOUS
  <2>1. k \in 1 .. Len(d) - 1 /\ k \in 1 .. Len(d) /\ j \in Nat
    BY <1>1
  <2>2. d[k] < d[k + 1] /\ d[k] \in Nat /\ d[k + 1] \in Nat /\ d[j] \in Nat
    BY <1>1, <2>1
  <2>3. CASE j = k
    BY <2>2, <2>3
  <2>4. CASE j < k
    BY <1>3, <2>1, <2>2, <2>4
  <2>5. QED
    BY <2>1, <2>3, <2>4
<1>4. Nat \subseteq T
  <2> HIDE DEF T
  <2>1. QED
    BY <1>2, <1>3, AllNaturals
<1>5. QED
  BY <1>1, <1>4

\* reading a chunk keeps it; the last one completes an input of RSHash
LEMMA ReadChunkIInv == StringsIInv /\ ReadChunk => StringsIInv'
<1> SUFFICES ASSUME StringsIInv, ReadChunk PROVE StringsIInv'
  OBVIOUS
<1>1. PICK r \in Chunks(am, strings[N + 1], minLCP) : data' = Append(data, r)
  BY DEF ReadChunk
<1>2. /\ pc = "chunks" /\ N < Len(strings) /\ pc' = IF N' = Len(strings) THEN "spline" ELSE pc
      /\ UNCHANGED <<strings, lcps, minLCP, am>>
      /\ UNCHANGED <<est, i, last_p, counts, inputs, entries, offsetVars, pushed>>
  BY DEF ReadChunk, hashVars, scanVars, stringVars
<1>3. Found(strings, lcps, minLCP, am) /\ strings \in StringInputs
  BY <1>2 DEF StringsIInv, Found
<1>4. Len(strings) \in Nat /\ Len(strings) <= WideCapacity /\ WideCapacity \in Nat
  BY <1>3, StringInputsAssumption, WideCapacityAssumption
<1>5. r \in Nat
  BY <1>3, ChunkIsNumber
<1>6. data \in Seq(Nat) /\ N \in Nat
  BY DEF StringsIInv, N
<1>7. /\ data' \in Seq(Nat) /\ N' = N + 1 /\ N' \in Nat
      /\ \A k \in 1 .. N : data'[k] = data[k]
      /\ data'[N + 1] = r
  BY <1>1, <1>5, <1>6 DEF N
<1>8. \A k \in 1 .. N' : data'[k] \in Chunks(am', strings'[k], minLCP')
  <2> SUFFICES ASSUME NEW k \in 1 .. N' PROVE data'[k] \in Chunks(am, strings[k], minLCP)
    BY <1>2
  <2>1. CASE k = N + 1
    BY <1>7, <2>1
  <2>2. CASE k # N + 1
    <3>1. k \in 1 .. N
      BY <1>6, <1>7, <2>2
    <3>2. QED
      BY <1>7, <3>1 DEF StringsIInv
  <2>3. QED
    BY <2>1, <2>2
<1>9. OffsetsEmpty'
  BY <1>2 DEF StringsIInv, Preparing, OffsetsEmpty, offsetVars
<1> DEFINE Rest == /\ strings' \in StringInputs
                   /\ lcps' = computeLCPs(strings') /\ minLCP' = MinLCP(lcps')
                   /\ am' = AlphabetMapsOf(lcps', minLCP')
                   /\ est' = <<>> /\ i' = 0 /\ last_p' = 0 /\ counts' = <<>>
                   /\ inputs' = {} /\ entries' = {} /\ OffsetsEmpty' /\ pushed' = 0
<1>10. Rest
  BY <1>2, <1>9 DEF StringsIInv, Preparing
<1>11. CASE N' # Len(strings)
  <2>1. pc' = "chunks" /\ N' < Len(strings')
    BY <1>2, <1>4, <1>6, <1>7, <1>11
  <2>2. QED
    BY <1>7, <1>8, <1>10, <2>1 DEF StringsIInv, Preparing
<1>12. CASE N' = Len(strings)
  <2>1. pc' = "spline" /\ N' = Len(strings')
    BY <1>2, <1>12
  <2>2. ASSUME ChunksFit' PROVE IInv'
    <3>1. \A k \in 1 .. N' - 1 : data'[k] < data'[k + 1]
      <4> SUFFICES ASSUME NEW k \in 1 .. N' - 1 PROVE data'[k] < data'[k + 1]
        OBVIOUS
      <4>1. Len(lcps) = Len(strings) - 1
        BY <1>3, AlphabetsOfStrings
      <4>2. k \in 1 .. Len(strings) - 1 /\ k \in 1 .. N' /\ k + 1 \in 1 .. N'
        BY <1>7, <1>12
      <4>3. data'[k] \in Chunks(am, strings[k], minLCP)
            /\ data'[k + 1] \in Chunks(am, strings[k + 1], minLCP)
        BY <1>2, <1>8, <4>2
      <4>4. lcps[k].lcp - minLCP < NumMaps
            /\ am.max_branching_num ^ Len(am.j_list) <= 2^ChunkBits
        BY <1>2, <2>2, <4>1, <4>2 DEF ChunksFit
      <4>5. QED
        BY <1>3, <4>2, <4>3, <4>4, ChunksOfPair
    <3>2. Hashable(data')
      <4>1. \A j, k \in 1 .. Len(data') : j < k => data'[j] < data'[k]
        BY <1>7, <3>1, Increasing DEF N
      <4>2. data' # <<>> /\ Len(data') <= WideCapacity
        BY <1>1, <1>4, <1>6, <1>7, <1>12 DEF N
      <4>3. QED
        BY <1>7, <4>1, <4>2 DEF Hashable
    <3>3. <<>> \in Seq(Nat) /\ Len(<<>>) = 0
      BY EmptySeq
    <3>4. TypeOK'
      <4>1. OffsetsTypeOK'
        BY <1>9, <3>3 DEF OffsetsEmpty, OffsetsTypeOK
      <4>2. i' \in 0 .. N' /\ last_p' \in 0 .. MaxEstimate
            /\ counts' \in Seq(Nat) /\ pushed' \in 0 .. Len(counts')
        BY <1>7, <1>10, <3>3, MaxEstimateAssumption
      <4>3. QED
        BY <1>10, <2>1, <3>2, <4>1, <4>2 DEF TypeOK
    <3>5. QED
      BY <1>10, <2>1, <3>4 DEF IInv
  <2>3. QED
    BY <1>7, <1>8, <1>10, <2>1, <2>2 DEF StringsIInv, Preparing
<1>13. QED
  BY <1>11, <1>12

\* steps that leave the strings and their chunks alone
LEMMA LaterIInv ==
    ASSUME StringsIInv, ~Preparing, UNCHANGED <<data, stringVars>>,
           pc' \in {"spline", "scan", "offsets", "ready"}, IInv => IInv'
    PROVE  StringsIInv'
<1>1. UNCHANGED <<data, strings, lcps, minLCP, am, N>>
  BY DEF stringVars, N
<1>2. ~Preparing' /\ pc' # "lcps" /\ pc' # "alphabets" /\ pc' # "chunks"
  BY DEF Preparing
<1>3. \A k \in 1 .. N' : data'[k] \in Chunks(am', strings'[k], minLCP')
  BY <1>1 DEF StringsIInv
<1>4. ChunksFit' => IInv'
  BY <1>1 DEF StringsIInv, ChunksFit
<1>5. pc # "lcps" /\ pc # "alphabets" /\ pc # "chunks"
  BY DEF Preparing
<1>6. QED
  BY <1>1, <1>2, <1>3, <1>4, <1>5 DEF StringsIInv

\* the steps of RSHash keep it
LEMMA HashStepsIInv ==
    StringsIInv /\ RSHashSteps /\ UNCHANGED stringVars => StringsIInv'
<1> SUFFICES ASSUME StringsIInv, RSHashSteps, UNCHANGED stringVars PROVE StringsIInv'
  OBVIOUS
<1>1. UNCHANGED data
  BY DEF RSHashSteps, BuildSplineOfChunks, BuildSpline, ScanRound, BuildRetrieval,
         PushCount, Finish
<1>2. ~Preparing /\ pc' \in {"spline", "scan", "offsets", "ready"}
  BY DEF RSHashSteps, BuildSplineOfChunks, BuildSpline, ScanRound, BuildRetrieval,
         PushCount, Finish, Preparing
<1>3. IInv => IInv'
  BY BuildSplineIInv, ScanRoundIInv, BuildRetrievalIInv, PushCountIInv, FinishIInv
     DEF RSHashSteps, BuildSplineOfChunks
<1>4. QED
  BY <1>1, <1>2, <1>3, LaterIInv

\* a query changes the answer only
LEMMA QueryStringIInv == StringsIInv /\ QueryString => StringsIInv'
<1> SUFFICES ASSUME StringsIInv, QueryString PROVE StringsIInv'
  OBVIOUS
<1>1. /\ UNCHANGED <<data, est, pc, scanVars, entries, offsetVars, pushed>>
      /\ UNCHANGED stringVars /\ pc = "ready"
  BY DEF QueryString
<1>2. ~Preparing /\ pc' \in {"spline", "scan", "offsets", "ready"}
  BY <1>1 DEF Preparing
<1>3. IInv => IInv'
  BY <1>1, UnchangedIInv
<1>4. QED
  BY <1>1, <1>2, <1>3, LaterIInv

\* stutters
LEMMA StringsStutterIInv == StringsIInv /\ UNCHANGED <<vars, stringVars>> => StringsIInv'
<1> SUFFICES ASSUME StringsIInv, UNCHANGED <<vars, stringVars>> PROVE StringsIInv'
  OBVIOUS
<1>1. /\ UNCHANGED <<data, est, pc, scanVars, entries, offsetVars, pushed>>
      /\ UNCHANGED stringVars
  BY DEF vars
<1>2. CASE ~Preparing
  <2>1. pc' \in {"spline", "scan", "offsets", "ready"}
    BY <1>1, <1>2 DEF StringsIInv
  <2>2. IInv => IInv'
    BY <1>1, UnchangedIInv
  <2>3. QED
    BY <1>1, <1>2, <2>1, <2>2, LaterIInv
<1>3. CASE Preparing
  <2>1. Preparing' /\ N' = N
    BY <1>1, <1>3 DEF Preparing, N
  <2>2. UNCHANGED <<data, strings, lcps, minLCP, am, est, pc, i, last_p, counts, inputs,
                    entries, ones, bv_size, position, selectable, pushed>>
    BY <1>1 DEF stringVars, scanVars, offsetVars
  <2>3. OffsetsEmpty'
    BY <1>3, <2>2 DEF StringsIInv, OffsetsEmpty
  <2>4. QED
    BY <1>3, <2>1, <2>2, <2>3 DEF StringsIInv
<1>4. QED
  BY <1>2, <1>3

(***************************************************************************)
(* StringsIInv is an invariant of RSHash4s: at every step of the           *)
(* constructor the LCPs, the alphabets and the chunks are those of the     *)
(* strings, and chunks that fit are an input RSHash expects.               *)
(***************************************************************************)
THEOREM StringsInvariance == StringsSpec => []StringsIInv
<1>1. StringsInit => StringsIInv
  BY StringsInitIInv
<1>2. StringsIInv /\ [StringsNext]_<<vars, stringVars>> => StringsIInv'
  <2> SUFFICES ASSUME StringsIInv, [StringsNext]_<<vars, stringVars>>
               PROVE  StringsIInv'
    OBVIOUS
  <2>1. CASE ComputeLCPs
    BY <2>1, ComputeLCPsIInv
  <2>2. CASE BuildAlphabets
    BY <2>2, BuildAlphabetsIInv
  <2>3. CASE ReadChunk
    BY <2>3, ReadChunkIInv
  <2>4. CASE RSHashSteps /\ UNCHANGED stringVars
    BY <2>4, HashStepsIInv
  <2>5. CASE QueryString
    BY <2>5, QueryStringIInv
  <2>6. CASE UNCHANGED <<vars, stringVars>>
    BY <2>6, StringsStutterIInv
  <2>7. QED
    BY <2>1, <2>2, <2>3, <2>4, <2>5, <2>6 DEF StringsNext
<1>3. QED
  BY <1>1, <1>2, PTL DEF StringsSpec

(***************************************************************************)
(* ChunksIncrease in every reachable state: chunks that fit keep the order *)
(* of the strings strictly, whatever is read behind shorter strings.       *)
(***************************************************************************)
THEOREM ChunksTheorem == StringsSpec => []ChunksIncrease
<1>1. StringsIInv => ChunksIncrease
  BY ChunksSoFar DEF ChunksIncrease
<1>2. QED
  BY <1>1, StringsInvariance, PTL

\* a string that is not read behind its end has one chunk
LEMMA OneChunk ==
    ASSUME NEW a, NEW s, NEW start, ReadBehind(a, s, start) = {},
           NEW r1 \in Chunks(a, s, start), NEW r2 \in Chunks(a, s, start)
    PROVE  r1 = r2
<1>1. PICK b1 \in [{} -> Chars] : r1 = readChunk(a, s, start, b1)
  BY DEF Chunks
<1>2. PICK b2 \in [{} -> Chars] : r2 = readChunk(a, s, start, b2)
  BY DEF Chunks
<1>3. b1 = b2
  OBVIOUS
<1>4. QED
  BY <1>1, <1>2, <1>3

\* every key scanned has a bucket
LEMMA LastBucket ==
    ASSUME IInv, pc = "ready", NEW k \in 1 .. N, N \in Nat
    PROVE  est[data[k]] \in 0 .. Len(counts) - 1
<1>1. EstimateContract(est) /\ counts \in Seq(Nat) /\ i = N
  BY DEF IInv, TypeOK
<1>2. data[k] \in KeySet
  BY DEF KeySet
<1>3. est[data[k]] \in 0 .. MaxEstimate
  BY <1>1, <1>2 DEF EstimateContract
<1>4. Len(counts) = last_p + 1
  BY <1>1 DEF IInv, Frontier
<1>5. k - 1 \in 0 .. N - 1 /\ (k - 1) + 1 = k
  OBVIOUS
<1>6. est[data[k]] <= last_p
  BY <1>1, <1>5 DEF IInv, Frontier, E
<1>7. last_p \in Nat
  BY MaxEstimateAssumption DEF IInv, TypeOK
<1>8. QED
  BY <1>3, <1>4, <1>6, <1>7, MaxEstimateAssumption

\* a key of the spline lies between its neighbours at its own estimate only
LEMMA EstimateIsBetween ==
    ASSUME IInv, pc = "ready", NEW k \in 1 .. N, N \in Nat,
           est[data[k]] \in 0 .. Len(counts) - 1
    PROVE  EstimatesOf(data[k]) = {est[data[k]]}
<1>1. EstimateContract(est) /\ Hashable(data)
  BY DEF IInv, TypeOK
<1>2. data[k] \in KeySet
  BY DEF KeySet
<1>3. ASSUME NEW j \in 1 .. N
      PROVE  /\ data[j] <= data[k] => est[data[j]] <= est[data[k]]
             /\ data[j] >= data[k] => est[data[k]] <= est[data[j]]
  <2>1. data[j] \in Nat /\ data[k] \in Nat
    BY <1>1 DEF Hashable, N
  <2>2. j < k => data[j] < data[k]
    BY <1>1 DEF Hashable, N
  <2>3. k < j => data[k] < data[j]
    BY <1>1 DEF Hashable, N
  <2>4. data[j] \in KeySet
    BY DEF KeySet
  <2>5. est[data[j]] \in Nat /\ est[data[k]] \in Nat
    BY <1>1, <1>2, <2>4, MaxEstimateAssumption DEF EstimateContract
  <2>6. /\ j <= k => est[data[j]] <= est[data[k]]
        /\ k <= j => est[data[k]] <= est[data[j]]
    BY <1>1 DEF EstimateContract
  <2>7. QED
    BY <2>1, <2>2, <2>3, <2>5, <2>6
<1> DEFINE Between(e) ==
               \A key \in KeySet : /\ key <= data[k] => est[key] <= e
                                   /\ key >= data[k] => e <= est[key]
<1>4. Between(est[data[k]])
  BY <1>3 DEF KeySet
<1>5. est[data[k]] \in EstimatesOf(data[k])
  <2>1. EstimatesOf(data[k]) = {e \in 0 .. Len(counts) - 1 : Between(e)}
    BY DEF EstimatesOf
  <2> HIDE DEF Between
  <2>2. QED
    BY <1>4, <2>1
<1>6. ASSUME NEW e \in EstimatesOf(data[k]) PROVE e = est[data[k]]
  <2>1. data[k] \in Nat
    BY <1>1 DEF Hashable, N
  <2>2. e \in Int /\ est[data[k]] \in Int
    BY DEF EstimatesOf
  <2>3. est[data[k]] <= e /\ e <= est[data[k]]
    BY <1>2, <2>1 DEF EstimatesOf
  <2>4. QED
    BY <2>2, <2>3
<1>7. QED
  BY <1>5, <1>6

(***************************************************************************)
(* StringRankCorrectWithinLimits in every reachable state: with chunks     *)
(* that fit and are never read behind the end of a string, the query of a  *)
(* finished RSHash4s for one of its strings returns the rank of it.        *)
(***************************************************************************)
THEOREM StringRankTheorem == StringsSpec => []StringRankCorrectWithinLimits
<1>1. StringsIInv => StringRankCorrectWithinLimits
  <2> SUFFICES ASSUME StringsIInv, pc = "ready", ChunksFit, NeverReadsBehind,
                      NEW k \in 1 .. Len(strings)
               PROVE  RanksOfString(strings[k]) = {k - 1}
    BY DEF StringRankCorrectWithinLimits
  <2>1. /\ IInv /\ N = Len(strings) /\ N \in Nat
        /\ data[k] \in Chunks(am, strings[k], minLCP)
    BY DEF StringsIInv, Preparing, N
  <2>2. Chunks(am, strings[k], minLCP) = {data[k]}
    <3>1. ReadBehind(am, strings[k], minLCP) = {}
      BY DEF NeverReadsBehind
    <3>2. \A r \in Chunks(am, strings[k], minLCP) : r = data[k]
      BY <2>1, <3>1, OneChunk
    <3>3. QED
      BY <2>1, <3>2
  <2>3. data[k] \in KeySet
    BY <2>1 DEF KeySet
  <2>4. RanksOfString(strings[k]) = Ranks(data[k])
    <3>1. est[data[k]] \in 0 .. Len(counts) - 1
      BY <2>1, LastBucket
    <3>2. EstimatesOf(data[k]) = {est[data[k]]}
      BY <2>1, <2>3, <3>1, EstimateIsBetween
    <3>3. UNION {UNION {RanksAt(e, r) : e \in EstimatesOf(r)} : r \in {data[k]}}
             = RanksAt(est[data[k]], data[k])
      BY <3>2
    <3>4. RanksAt(est[data[k]], data[k]) = Ranks(data[k])
      BY DEF RanksAt, Ranks
    <3>5. QED
      BY <2>2, <3>3, <3>4 DEF RanksOfString
  <2>5. k - 1 \in 0 .. N - 1 /\ (k - 1) + 1 = k
    BY <2>1
  <2>6. Ranks(data[(k - 1) + 1]) = {k - 1}
    BY <2>1, <2>5, RankFromIInv DEF RankCorrect
  <2>7. QED
    BY <2>4, <2>5, <2>6
<1>2. QED
  BY <1>1, StringsInvariance, PTL

=============================================================================
