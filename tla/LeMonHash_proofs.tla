-------------------------- MODULE LeMonHash_proofs --------------------------
(***************************************************************************)
(* LeMonHash maps every key to its rank, for every input, sorted or not,   *)
(* and whatever the mapper computes for the keys.  The segmentation of its *)
(* mappers, in the second half: add_point keeps the lines through all      *)
(* points of a segment although it only looks at the ends of two convex    *)
(* hulls, which takes a bit of plane geometry with whole numbers.          *)
(***************************************************************************)
EXTENDS LeMonHashPGM, HashParts_proofs

(***************************************************************************)
(* The scan of nextOne() from a set bit ends at the next one.              *)
(***************************************************************************)
LEMMA NextOne ==
    ASSUME ones \in Seq(Nat),
           \A m, n \in 1 .. Len(ones) : m < n => ones[m] < ones[n],
           NEW b \in Nat, b + 2 <= Len(ones)
    PROVE  nextOne(ones[b + 1]) = ones[b + 2]
<1> DEFINE later == {m \in 1 .. Len(ones) : ones[m] > ones[b + 1]}
           best(m) == \A n \in later : ones[m] <= ones[n]
           first == CHOOSE m \in later : best(m)
<1>1. /\ Len(ones) \in Nat /\ b + 1 \in 1 .. Len(ones) /\ b + 2 \in 1 .. Len(ones)
      /\ \A m \in 1 .. Len(ones) : ones[m] \in Nat
  BY ElementOfSeq
<1>2. b + 2 \in later
  BY <1>1
<1>3. ASSUME NEW m \in later PROVE ones[b + 2] <= ones[m]
  <2>1. m \in 1 .. Len(ones) /\ ones[m] > ones[b + 1]
    OBVIOUS
  <2>2. m > b + 1
    BY <2>1, <1>1
  <2>3. m = b + 2 \/ b + 2 < m
    BY <2>1, <2>2
  <2>4. QED
    BY <2>1, <2>3, <1>1
<1>4. \E m \in later : best(m)
  BY <1>2, <1>3
<1>5. first \in later /\ best(first)
  BY <1>4
<1>6. nextOne(ones[b + 1]) = ones[first]
  BY DEF nextOne
<1> HIDE DEF first
<1>7. ones[first] <= ones[b + 2] /\ ones[b + 2] <= ones[first]
      /\ first \in 1 .. Len(ones)
  BY <1>2, <1>3, <1>5
<1>8. QED
  BY <1>1, <1>6, <1>7

(***************************************************************************)
(* Types of the input, and of the buckets of a mapper.                     *)
(***************************************************************************)
LEMMA Keys ==
    ASSUME TypeOK
    PROVE  /\ N \in Nat \ {0} /\ N <= WideCapacity
           /\ \A j \in 0 .. N - 1 : j + 1 \in 1 .. N /\ Key(j) \in Nat
<1>1. data \in Seq(Nat) /\ data # <<>> /\ N <= WideCapacity
  BY InputsAssumption DEF TypeOK, N
<1>2. N \in Nat \ {0}
  BY <1>1, EmptySeq DEF N
<1>3. \A j \in 0 .. N - 1 : j + 1 \in 1 .. N
  BY <1>2
<1>4. QED
  BY <1>1, <1>2, <1>3, ElementOfSeq DEF N, Key

\* buckets of keys are buckets of the mapper
LEMMA Homes ==
    ASSUME TypeOK, mapper # NoMapper
    PROVE  /\ mapper.numBuckets \in Nat \ {0}
           /\ \A j \in 0 .. N - 1 : Home(j) \in 0 .. mapper.numBuckets - 1
<1>1. IsMapper(mapper, data)
  BY DEF TypeOK
<1>2. \A j \in 0 .. N - 1 : Key(j) \in {data[n] : n \in 1 .. Len(data)}
  BY Keys DEF Key, N
<1>3. QED
  BY <1>1, <1>2 DEF IsMapper, Home

(***************************************************************************)
(* No mapper that is one is NoMapper, which has no bucket.                 *)
(***************************************************************************)
LEMMA MapperIsOne == \A m, d : IsMapper(m, d) => m # NoMapper
  BY DEF IsMapper, NoMapper

(***************************************************************************)
(* The set bits of cuts are increasing.                                    *)
(***************************************************************************)
LEMMA CutBits ==
    ASSUME OffsetsTypeOK, NEW c \in Nat, NEW end \in Nat, Cuts(c, end)
    PROVE  /\ \A b \in 0 .. c : ones[b + 1] \in Nat /\ Begin(b) \in 0 .. end
           /\ \A m, n \in 1 .. Len(ones) : m < n => ones[m] < ones[n]
<1>1. ones \in Seq(Nat) /\ Len(ones) = c + 1
  BY DEF OffsetsTypeOK, Cuts
<1>2. \A b \in 0 .. c : ones[b + 1] \in Nat
  <2>1. \A b \in 0 .. c : b + 1 \in 1 .. Len(ones)
    BY <1>1
  <2>2. QED
    BY <2>1, <1>1, ElementOfSeq
<1>3. \A b \in 0 .. c : Begin(b) \in Int /\ Begin(0) <= Begin(b) /\ Begin(b) <= Begin(c)
  <2>1. \A b \in 0 .. c : Begin(b) \in Int
    BY <1>2 DEF Begin
  <2>2. QED
    BY <2>1 DEF Cuts
<1>4. \A b \in 0 .. c : Begin(b) \in 0 .. end
  BY <1>3 DEF Cuts
<1>5. ASSUME NEW m \in 1 .. Len(ones), NEW n \in 1 .. Len(ones), m < n
      PROVE  ones[m] < ones[n]
  <2>1. m - 1 \in 0 .. c /\ n - 1 \in 0 .. c /\ m - 1 <= n - 1
        /\ (m - 1) + 1 = m /\ (n - 1) + 1 = n
    BY <1>1, <1>5
  <2>2. Begin(m - 1) <= Begin(n - 1)
    BY <2>1 DEF Cuts
  <2>3. ones[m] - (m - 1) <= ones[n] - (n - 1)
    BY <2>1, <2>2 DEF Begin
  <2>4. ones[m] \in Nat /\ ones[n] \in Nat
    BY <2>1, <1>2
  <2>5. QED
    BY <2>3, <2>4, <1>5, <1>1
<1>6. QED
  BY <1>2, <1>4, <1>5

(***************************************************************************)
(* What the offsets return for a closed bucket.                            *)
(***************************************************************************)
LEMMA OffsetsOfBucket ==
    ASSUME OffsetsTypeOK, NEW c \in Nat, NEW end \in Nat, Cuts(c, end),
           NEW b \in 0 .. c - 1
    PROVE  at(b) = [offset |-> Begin(b), size |-> Size(b)]
<1>1. Len(ones) = c + 1 /\ ones \in Seq(Nat)
  BY DEF Cuts, OffsetsTypeOK
<1>2. b \in Nat /\ b + 2 <= Len(ones) /\ b \in 0 .. c /\ b + 1 \in 0 .. c
      /\ (b + 1) + 1 = b + 2
  BY <1>1
<1>3. nextOne(ones[b + 1]) = ones[b + 2]
  BY <1>1, <1>2, CutBits, NextOne
<1>4. at(b) = [offset |-> ones[b + 1] - b, size |-> ones[b + 2] - ones[b + 1] - 1]
  BY <1>3 DEF at, select1
<1>5. ones[b + 1] \in Nat /\ ones[b + 2] \in Nat
  BY <1>2, CutBits
<1>6. Begin(b + 1) = ones[b + 2] - (b + 1)
  BY <1>2 DEF Begin
<1>7. Size(b) = ones[b + 2] - ones[b + 1] - 1
  BY <1>2, <1>5, <1>6 DEF Size, Begin
<1>8. QED
  BY <1>4, <1>7 DEF Begin

-----------------------------------------------------------------------------
(***************************************************************************)
(* The step that closes a bucket: c are closed, with the first `begin`     *)
(* keys, and all keys from there up to `end` lie in bucket c.              *)
(***************************************************************************)
LEMMA CloseCuts ==
    ASSUME TypeOK, NEW c \in Nat, NEW begin \in Nat, NEW end \in Nat,
           begin <= end, end <= N, bucketBegin = begin, Cuts(c, begin),
           ConstructBucket(end)
    PROVE  /\ OffsetsTypeOK' /\ bv_size' = bv_size
           /\ Cuts(c + 1, end)'
           /\ \A b \in 0 .. c : Begin(b)' = Begin(b)
           /\ \A b \in 0 .. c - 1 : Size(b)' = Size(b)
           /\ Size(c)' = end - begin
<1>1. OffsetsTypeOK /\ ones \in Seq(Nat) /\ position \in Nat
  BY DEF TypeOK, OffsetsTypeOK
<1>2. /\ position' = position + (end - begin) + 1
      /\ ones' = Append(ones, position')
      /\ bv_size' = bv_size /\ selectable' = selectable
  BY DEF ConstructBucket, OffsetsPush
<1>3. position' \in Nat
  BY <1>1, <1>2
<1>4. /\ ones' \in Seq(Nat) /\ Len(ones') = Len(ones) + 1
      /\ \A n \in 1 .. Len(ones) : ones'[n] = ones[n]
      /\ ones'[Len(ones) + 1] = position'
  BY <1>1, <1>2, <1>3, AppendProperties
<1>5. Len(ones) = c + 1 /\ position = ones[c + 1] /\ Begin(0) = 0 /\ Begin(c) = begin
  BY DEF Cuts
<1>6. /\ \A b \in 0 .. c : ones[b + 1] \in Nat /\ Begin(b) \in 0 .. begin
      /\ \A b \in 0 .. c : ones'[b + 1] = ones[b + 1]
      /\ ones'[(c + 1) + 1] = position'
  <2>1. \A b \in 0 .. c : b + 1 \in 1 .. Len(ones)
    BY <1>5
  <2>2. Len(ones) + 1 = (c + 1) + 1
    BY <1>5
  <2>3. QED
    BY <2>1, <2>2, <1>1, <1>4, CutBits
<1>7. \A b \in 0 .. c : Begin(b)' = Begin(b)
  BY <1>6 DEF Begin
<1>8. Begin(c + 1)' = end
  <2>1. Begin(c + 1)' = position' - (c + 1)
    BY <1>6 DEF Begin
  <2>2. position - c = begin
    BY <1>5 DEF Begin
  <2>3. QED
    BY <2>1, <2>2, <1>1, <1>2
<1>9. Cuts(c + 1, end)'
  <2>1. Len(ones') = (c + 1) + 1 /\ position' = ones'[(c + 1) + 1]
    BY <1>4, <1>5, <1>6
  <2>2. Begin(0)' = 0
    <3>1. 0 \in 0 .. c
      OBVIOUS
    <3>2. QED
      BY <3>1, <1>5, <1>7
  <2>3. ASSUME NEW a \in 0 .. c + 1, NEW b \in 0 .. c + 1, a <= b
        PROVE  Begin(a)' <= Begin(b)'
    <3>1. CASE b \in 0 .. c
      <4>1. a \in 0 .. c
        BY <2>3, <3>1
      <4>2. Begin(a) <= Begin(b)
        BY <2>3, <3>1, <4>1 DEF Cuts
      <4>3. QED
        BY <3>1, <4>1, <4>2, <1>7
    <3>2. CASE b = c + 1 /\ a \in 0 .. c
      <4>1. Begin(a)' \in 0 .. begin
        BY <3>2, <1>6, <1>7
      <4>2. QED
        BY <3>2, <4>1, <1>8
    <3>3. CASE a = c + 1 /\ b = c + 1
      BY <3>3, <1>8
    <3>4. QED
      BY <2>3, <3>1, <3>2, <3>3
  <2>4. QED
    BY <2>1, <2>2, <2>3, <1>8 DEF Cuts
<1>10. \A b \in 0 .. c - 1 : Size(b)' = Size(b)
  <2>1. \A b \in 0 .. c - 1 : b \in 0 .. c /\ b + 1 \in 0 .. c
    OBVIOUS
  <2>2. \A b \in 0 .. c - 1 : Begin(b)' = Begin(b) /\ Begin(b + 1)' = Begin(b + 1)
    BY <2>1, <1>7
  <2>3. QED
    BY <2>2 DEF Size
<1>11. Size(c)' = end - begin
  <2>1. c \in 0 .. c
    OBVIOUS
  <2>2. Begin(c)' = begin
    BY <2>1, <1>5, <1>7
  <2>3. QED
    BY <2>2, <1>8 DEF Size
<1>12. OffsetsTypeOK'
  BY <1>1, <1>2, <1>3, <1>4 DEF OffsetsTypeOK
<1>13. QED
  BY <1>2, <1>7, <1>9, <1>10, <1>11, <1>12

\* closing a bucket leaves its keys at home
LEMMA CloseAtHome ==
    ASSUME TypeOK, NEW c \in Nat, NEW begin \in Nat, NEW end \in Nat,
           begin <= end, end <= N, bucketBegin = begin, Cuts(c, begin),
           ConstructBucket(end), UNCHANGED <<data, mapper>>, AtHome(c, begin),
           \A j \in begin .. end - 1 : Home(j) = c
    PROVE  AtHome(c + 1, end)'
<1>1. \A j : Home(j)' = Home(j)
  BY DEF Home, Key
<1>2. /\ \A b \in 0 .. c : Begin(b)' = Begin(b)
      /\ Begin(c + 1)' = end /\ Begin(c) = begin
  BY CloseCuts DEF Cuts
<1>3. ASSUME NEW j \in 0 .. end - 1
      PROVE  /\ Home(j)' \in 0 .. (c + 1) - 1
             /\ (Begin(Home(j)) <= j /\ j < Begin(Home(j) + 1))'
  <2>1. CASE j < begin
    <3>1. /\ Home(j) \in 0 .. c - 1
          /\ Begin(Home(j)) <= j /\ j < Begin(Home(j) + 1)
      BY <2>1 DEF AtHome
    <3>2. Home(j) \in 0 .. c /\ Home(j) + 1 \in 0 .. c
      BY <3>1
    <3>3. PICK h \in 0 .. c - 1 : h = Home(j)
      BY <3>1
    <3>4. Home(j)' = h /\ h \in 0 .. c /\ h + 1 \in 0 .. c
      BY <3>3, <1>1
    <3>5. Begin(h)' = Begin(h) /\ Begin(h + 1)' = Begin(h + 1)
      BY <3>4, <1>2
    <3>6. QED
      BY <3>1, <3>3, <3>4, <3>5 DEF Begin
  <2>2. CASE j >= begin
    <3>1. Home(j) = c
      BY <2>2
    <3>2. Home(j)' = c /\ Begin(c)' = begin
      BY <3>1, <1>1, <1>2
    <3>3. QED
      BY <3>2, <2>2, <1>2 DEF Begin
  <2>3. QED
    BY <2>1, <2>2
<1>4. QED
  BY <1>3 DEF AtHome

\* closing a bucket stores the ranks of its keys
LEMMA CloseStored ==
    ASSUME TypeOK, NEW c \in Nat, NEW begin \in Nat, NEW end \in Nat,
           begin <= end, end <= N, bucketBegin = begin, Cuts(c, begin),
           ConstructBucket(end), UNCHANGED <<data, mapper>>, AtHome(c, begin),
           \A j \in begin .. end - 1 : Home(j) = c, Stored(inputs, begin)
    PROVE  Stored(inputs, end)'
<1> DEFINE Entry(j) == Input(Size(Home(j)), Key(j), j - Begin(Home(j)))
           Old == {m \in 0 .. begin - 1 : Size(Home(m)) > 1}
           Fresh == {m \in begin .. end - 1 : end - begin > 1}
           NewSize(j) == Size(Home(j))'
           NewBegin(j) == Begin(Home(j))'
           NewEntry(j) == Input(NewSize(j), Key(j), j - NewBegin(j))
           New == {m \in 0 .. end - 1 : NewSize(m) > 1}
<1>1. \A j : Home(j)' = Home(j) /\ Key(j)' = Key(j)
  BY DEF Home, Key
<1>2. /\ \A b \in 0 .. c : Begin(b)' = Begin(b)
      /\ \A b \in 0 .. c - 1 : Size(b)' = Size(b)
      /\ Size(c)' = end - begin /\ Begin(c) = begin
  BY CloseCuts DEF Cuts
<1>3. ASSUME NEW j \in 0 .. begin - 1
      PROVE  NewSize(j) = Size(Home(j)) /\ NewEntry(j) = Entry(j)
  <2>1. PICK h \in 0 .. c - 1 : h = Home(j)
    BY DEF AtHome
  <2>2. Home(j)' = h /\ h \in 0 .. c
    BY <2>1, <1>1
  <2>3. Size(h)' = Size(h) /\ Begin(h)' = Begin(h)
    BY <2>2, <1>2
  <2>4. NewSize(j) = Size(Home(j))
    BY <2>1, <2>2, <2>3 DEF Size, Begin
  <2>5. NewBegin(j) = Begin(Home(j))
    BY <2>1, <2>2, <2>3 DEF Begin
  <2>6. QED
    BY <2>4, <2>5
<1>4. ASSUME NEW j \in begin .. end - 1
      PROVE  NewSize(j) = end - begin /\ NewEntry(j) = Input(end - begin, Key(j), j - begin)
  <2>1. Home(j)' = c /\ c \in 0 .. c
    BY <1>1
  <2>2. Begin(c)' = begin
    BY <2>1, <1>2
  <2>3. NewSize(j) = end - begin
    BY <2>1, <1>2 DEF Size, Begin
  <2>4. NewBegin(j) = begin
    BY <2>1, <2>2 DEF Begin
  <2>5. QED
    BY <2>3, <2>4
<1>5. inputs = {Entry(j) : j \in Old}
  BY DEF Stored
<1>6. BucketInputs(end) = {Input(end - begin, Key(j), j - begin) : j \in Fresh}
  <2>1. CASE end - begin > 1
    <3> DEFINE Shifted == {Input(end - begin, Key(begin + j), j) :
                              j \in 0 .. end - begin - 1}
               Direct == {Input(end - begin, Key(j), j - begin) : j \in begin .. end - 1}
    <3>1. ASSUME NEW j \in 0 .. end - begin - 1
          PROVE  Input(end - begin, Key(begin + j), j) \in Direct
      <4> DEFINE m == begin + j
      <4>1. m \in begin .. end - 1 /\ m - begin = j
        OBVIOUS
      <4>2. Input(end - begin, Key(m), m - begin) \in Direct
        BY <4>1
      <4>3. QED
        BY <4>1, <4>2
    <3>2. ASSUME NEW m \in begin .. end - 1
          PROVE  Input(end - begin, Key(m), m - begin) \in Shifted
      <4> DEFINE j == m - begin
      <4>1. j \in 0 .. end - begin - 1 /\ begin + j = m
        OBVIOUS
      <4>2. Input(end - begin, Key(begin + j), j) \in Shifted
        BY <4>1
      <4>3. QED
        BY <4>1, <4>2
    <3>3. Shifted = Direct
      BY <3>1, <3>2
    <3>4. BucketInputs(end) = Shifted
      BY <2>1 DEF BucketInputs
    <3>5. Fresh = begin .. end - 1
      BY <2>1
    <3>6. QED
      BY <3>3, <3>4, <3>5
  <2>2. CASE ~ (end - begin > 1)
    BY <2>2 DEF BucketInputs
  <2>3. QED
    BY <2>1, <2>2
<1>7. New = Old \cup Fresh
  <2>1. ASSUME NEW j PROVE j \in New <=> j \in Old \/ j \in Fresh
    <3>1. /\ j \in 0 .. end - 1 <=> j \in 0 .. begin - 1 \/ j \in begin .. end - 1
          /\ ~ (j \in 0 .. begin - 1 /\ j \in begin .. end - 1)
      OBVIOUS
    <3> HIDE DEF NewSize
    <3>2. CASE j \in 0 .. begin - 1
      BY <3>1, <3>2, <1>3
    <3>3. CASE j \in begin .. end - 1
      BY <3>1, <3>3, <1>4
    <3>4. QED
      BY <3>1, <3>2, <3>3
  <2>2. QED
    BY <2>1
<1>8. inputs' = {NewEntry(j) : j \in New}
  <2>1. inputs = {NewEntry(j) : j \in Old}
    <3>1. \A j \in Old : Entry(j) = NewEntry(j)
      BY <1>3
    <3> HIDE DEF Old, Entry, NewEntry
    <3>2. QED
      BY <3>1, <1>5
  <2>2. BucketInputs(end) = {NewEntry(j) : j \in Fresh}
    <3>1. \A j \in Fresh : NewEntry(j) = Input(end - begin, Key(j), j - begin)
      BY <1>4
    <3> HIDE DEF Fresh, NewEntry
    <3>2. QED
      BY <3>1, <1>6
  <2>3. inputs' = inputs \cup BucketInputs(end)
    BY DEF ConstructBucket
  <2> HIDE DEF New, Old, Fresh, NewEntry
  <2>4. QED
    BY <2>1, <2>2, <2>3, <1>7
<1>9. QED
  BY <1>8, <1>1 DEF Stored

-----------------------------------------------------------------------------
(***************************************************************************)
(* The invariant holds before the constructor runs.                        *)
(***************************************************************************)
MapperBuilt == pc # "mapper" => mapper # NoMapper

Inv == IInv /\ MapperBuilt

\* the initial states satisfy the invariant
LEMMA InitInv == Init => Inv
<1> SUFFICES ASSUME Init PROVE Inv
  OBVIOUS
<1>1. OffsetsTypeOK
  <2>1. <<>> \in Seq(Nat)
    OBVIOUS
  <2>2. QED
    BY <2>1 DEF Init, OffsetsEmpty, OffsetsTypeOK
<1>2. N \in Nat
  BY InputsAssumption DEF Init, N
<1>3. TypeOK
  BY <1>1, <1>2 DEF Init, TypeOK
<1>4. QED
  BY <1>3 DEF Init, Inv, IInv, MapperBuilt

(***************************************************************************)
(* The mapper is built: no bucket is closed and no key visited yet.        *)
(***************************************************************************)
LEMMA BuildMapperInv == Inv /\ BuildMapper => Inv'
<1> SUFFICES ASSUME Inv, BuildMapper PROVE Inv'
  OBVIOUS
<1>1. /\ TypeOK /\ pc = "mapper" /\ pc' = "pass"
      /\ k' = 0 /\ prevBucket' = 0 /\ bucket' = 0 /\ bucketBegin' = 0
      /\ data' = data /\ N' = N /\ inputs' = {}
      /\ mapper' \in BucketMappers(data)
      /\ bv_size' = mapper'.numBuckets + N + 1
      /\ ones' = <<0>> /\ position' = 0 /\ selectable' = FALSE
  BY DEF Inv, IInv, BuildMapper, OffsetsAllocate, passVars, N
<1>2. IsMapper(mapper', data)
  BY <1>1, MappersAssumption DEF TypeOK
<1>3. mapper' # NoMapper /\ mapper'.numBuckets \in Nat \ {0} /\ N \in Nat
  BY <1>1, <1>2, MapperIsOne, Keys DEF IsMapper
<1>4. TypeOK'
  <2>1. OffsetsTypeOK'
    <3>1. <<0>> \in Seq(Nat) /\ mapper'.numBuckets + N + 1 \in Nat
      BY <1>3
    <3>2. selectable' \in BOOLEAN
      BY <1>1
    <3>3. QED
      BY <3>1, <3>2, <1>1 DEF OffsetsTypeOK
  <2>2. QED
    BY <2>1, <1>1, <1>2, <1>3 DEF TypeOK
<1>5. Cuts(0, 0)'
  BY <1>1 DEF Cuts, Begin
<1>6. AtHome(0, 0)' /\ Stored(inputs, 0)' /\ OpenBucket' /\ InOrder(0)'
  BY <1>1 DEF AtHome, Stored, OpenBucket, InOrder
<1>7. PassInvariant'
  BY <1>1, <1>3, <1>5, <1>6 DEF PassInvariant, Cuts, AtHome, Stored, InOrder
<1>8. QED
  BY <1>1, <1>3, <1>4, <1>7 DEF Inv, IInv, MapperBuilt

(***************************************************************************)
(* The mapper hands a key over: it is above all keys before it, and its    *)
(* bucket is not below theirs, or the constructor throws.                  *)
(***************************************************************************)
LEMMA VisitMappedInv == Inv /\ VisitMapped => Inv'
<1> SUFFICES ASSUME Inv, VisitMapped PROVE Inv'
  OBVIOUS
<1> DEFINE rejected == k # 0 /\ OutOfOrder(mapper.bucketOf[Key(k)])
<1>1. /\ TypeOK /\ mapper # NoMapper /\ PassInvariant /\ pc = "pass" /\ k < N
      /\ UNCHANGED <<data, mapper, k, prevBucket, bucketBegin, inputs, entries,
                     ones, bv_size, position, selectable>>
      /\ rejected => pc' = "thrown" /\ bucket' = bucket
      /\ ~ rejected => pc' = "close" /\ bucket' = Home(k)
  BY DEF Inv, IInv, MapperBuilt, VisitMapped, VisitKey, offsetVars, Home
<1>2. /\ N \in Nat \ {0} /\ k \in 0 .. N - 1 /\ N' = N
      /\ \A j \in 0 .. N - 1 : Key(j) \in Nat
      /\ \A j : Key(j)' = Key(j) /\ Home(j)' = Home(j)
  BY <1>1, Keys DEF TypeOK, N, Key, Home
<1>3. /\ mapper.numBuckets \in Nat \ {0}
      /\ \A j \in 0 .. N - 1 : Home(j) \in 0 .. mapper.numBuckets - 1
  BY <1>1, Homes
<1>4. /\ bv_size = mapper.numBuckets + N + 1
      /\ prevBucket <= bucket /\ bucket < mapper.numBuckets
      /\ Cuts(prevBucket, bucketBegin) /\ AtHome(prevBucket, bucketBegin)
      /\ Stored(inputs, bucketBegin) /\ OpenBucket
      /\ prevBucket = bucket /\ InOrder(k)
      /\ bucket = IF k = 0 THEN 0 ELSE Home(k - 1)
  BY <1>1 DEF PassInvariant
<1>5. /\ Cuts(prevBucket, bucketBegin)' /\ AtHome(prevBucket, bucketBegin)'
      /\ Stored(inputs, bucketBegin)' /\ OpenBucket'
  <2>1. Cuts(prevBucket, bucketBegin)'
    BY <1>1, <1>4 DEF Cuts, Begin
  <2>2. AtHome(prevBucket, bucketBegin)'
    BY <1>1, <1>4 DEF AtHome, Begin, Home, Key
  <2>3. Stored(inputs, bucketBegin)'
    BY <1>1, <1>4 DEF Stored, AtHome, Begin, Size, Home, Key
  <2>4. OpenBucket'
    BY <1>1, <1>4 DEF OpenBucket, Home, Key
  <2>5. QED
    BY <2>1, <2>2, <2>3, <2>4
<1>6. bucket \in Nat /\ prevBucket \in Nat
  BY <1>1 DEF TypeOK
<1>7. CASE rejected
  <2>1. pc' = "thrown" /\ bucket' = bucket
    BY <1>1, <1>7
  <2>2. TypeOK'
    BY <2>1, <1>1 DEF TypeOK, OffsetsTypeOK, N
  <2>3. k \in 1 .. N - 1 /\ (Key(k) <= Key(k - 1) \/ Home(k) < Home(k - 1))
    <3>1. k \in 1 .. N - 1
      BY <1>7, <1>2
    <3>2. Home(k - 1) = prevBucket
      BY <3>1, <1>4
    <3>3. QED
      BY <3>1, <3>2, <1>7 DEF OutOfOrder, Home
  <2>4. PassInvariant'
    BY <2>1, <2>3, <1>1, <1>2, <1>4 DEF PassInvariant
  <2>5. QED
    BY <2>1, <2>2, <2>4, <1>1 DEF Inv, IInv, MapperBuilt
<1>8. CASE ~ rejected
  <2>1. pc' = "close" /\ bucket' = Home(k)
    BY <1>1, <1>8
  <2>2. Home(k) \in 0 .. mapper.numBuckets - 1
    BY <1>2, <1>3
  <2>3. TypeOK'
    BY <2>1, <2>2, <1>1 DEF TypeOK, OffsetsTypeOK, N
  <2>4. prevBucket <= Home(k)
    <3>1. CASE k = 0
      BY <3>1, <1>4, <2>2
    <3>2. CASE k # 0
      <4>1. ~ (Home(k) < prevBucket)
        BY <3>2, <1>8 DEF OutOfOrder, Home
      <4>2. QED
        BY <4>1, <2>2, <1>6
    <3>3. QED
      BY <3>1, <3>2
  <2>5. InOrder(k + 1)
    <3>1. ASSUME NEW i \in 0 .. k, NEW j \in 0 .. k, i < j PROVE Key(i) < Key(j)
      <4>1. CASE j < k
        BY <3>1, <4>1, <1>2, <1>4 DEF InOrder
      <4>2. CASE j = k
        <5>1. k - 1 \in 0 .. k - 1 /\ k - 1 \in 0 .. N - 1 /\ i \in 0 .. N - 1
          BY <3>1, <4>2, <1>2
        <5>2. Key(k - 1) < Key(k)
          <6>1. ~ (Key(k) <= Key(k - 1))
            BY <3>1, <4>2, <1>8, <1>2 DEF OutOfOrder
          <6>2. QED
            BY <6>1, <5>1, <1>2
        <5>3. Key(i) <= Key(k - 1)
          <6>1. i = k - 1 \/ i < k - 1
            BY <3>1, <4>2, <1>2
          <6>2. CASE i < k - 1
            BY <6>2, <5>1, <1>2, <1>4 DEF InOrder
          <6>3. CASE i = k - 1
            BY <6>3, <5>1, <1>2
          <6>4. QED
            BY <6>1, <6>2, <6>3
        <5>4. QED
          BY <4>2, <5>1, <5>2, <5>3, <1>2
      <4>3. QED
        BY <3>1, <4>1, <4>2, <1>2
    <3>2. QED
      BY <3>1, <1>2 DEF InOrder
  <2>6. InOrder(k + 1)' /\ Home(k)' = bucket'
    BY <2>1, <2>5, <1>1, <1>2 DEF InOrder
  <2>7. PassInvariant'
    BY <2>1, <2>2, <2>4, <2>6, <1>1, <1>2, <1>3, <1>4, <1>5 DEF PassInvariant
  <2>8. QED
    BY <2>1, <2>3, <2>7, <1>1 DEF Inv, IInv, MapperBuilt
<1>9. QED
  BY <1>7, <1>8

(***************************************************************************)
(* A bucket in front of the key's own is closed; only the first of them    *)
(* may hold keys.                                                          *)
(***************************************************************************)
LEMMA CloseBucketInv == Inv /\ CloseBucket => Inv'
<1> SUFFICES ASSUME Inv, CloseBucket PROVE Inv'
  OBVIOUS
<1>1. /\ TypeOK /\ mapper # NoMapper /\ PassInvariant
      /\ pc = "close" /\ prevBucket < bucket /\ ConstructBucket(k)
      /\ bucketBegin' = k /\ prevBucket' = prevBucket + 1
      /\ UNCHANGED <<data, mapper, pc, k, bucket, entries, answer>>
  BY DEF Inv, IInv, MapperBuilt, CloseBucket
<1>2. /\ N \in Nat \ {0} /\ k \in 0 .. N - 1 /\ N' = N /\ bucketBegin \in 0 .. N
      /\ prevBucket \in Nat /\ bucket \in Nat
      /\ \A j : Key(j)' = Key(j) /\ Home(j)' = Home(j)
  BY <1>1, Keys DEF TypeOK, N, Key, Home
<1>3. /\ bv_size = mapper.numBuckets + N + 1
      /\ prevBucket <= bucket /\ bucket < mapper.numBuckets
      /\ Cuts(prevBucket, bucketBegin) /\ AtHome(prevBucket, bucketBegin)
      /\ Stored(inputs, bucketBegin) /\ OpenBucket
      /\ Home(k) = bucket /\ InOrder(k + 1)
  BY <1>1 DEF PassInvariant
<1>4. PICK c \in Nat, begin \in Nat, end \in Nat :
         c = prevBucket /\ begin = bucketBegin /\ end = k
  BY <1>2
<1>5. begin <= end /\ end <= N /\ Cuts(c, begin) /\ ConstructBucket(end)
  BY <1>1, <1>2, <1>3, <1>4 DEF OpenBucket
<1>6. AtHome(c, begin) /\ Stored(inputs, begin)
      /\ \A j \in begin .. end - 1 : Home(j) = c
  BY <1>3, <1>4 DEF OpenBucket
<1>7. OffsetsTypeOK' /\ bv_size' = bv_size /\ Cuts(c + 1, end)'
  BY <1>1, <1>4, <1>5, CloseCuts
<1>8. AtHome(c + 1, end)'
  BY <1>1, <1>4, <1>5, <1>6, CloseAtHome
<1>9. Stored(inputs, end)'
  BY <1>1, <1>4, <1>5, <1>6, CloseStored
<1>10. /\ Cuts(prevBucket, bucketBegin)' /\ AtHome(prevBucket, bucketBegin)'
       /\ Stored(inputs, bucketBegin)'
  <2>1. prevBucket' = c + 1 /\ bucketBegin' = end
    BY <1>1, <1>4
  <2>2. QED
    BY <2>1, <1>7, <1>8, <1>9 DEF Cuts, AtHome, Stored
<1>11. OpenBucket'
  BY <1>1, <1>2 DEF OpenBucket
<1>12. InOrder(k + 1)'
  BY <1>1, <1>2, <1>3 DEF InOrder
<1>13. TypeOK'
  BY <1>1, <1>2, <1>7 DEF TypeOK, N
<1>14. PassInvariant'
  <2>1. prevBucket' <= bucket'
    BY <1>1, <1>2
  <2>2. QED
    BY <2>1, <1>1, <1>2, <1>3, <1>7, <1>10, <1>11, <1>12 DEF PassInvariant
<1>15. QED
  BY <1>1, <1>13, <1>14 DEF Inv, IInv, MapperBuilt

(***************************************************************************)
(* The key joins the open bucket.                                          *)
(***************************************************************************)
LEMMA NextKeyInv == Inv /\ NextKey => Inv'
<1> SUFFICES ASSUME Inv, NextKey PROVE Inv'
  OBVIOUS
<1>1. /\ TypeOK /\ mapper # NoMapper /\ PassInvariant
      /\ pc = "close" /\ prevBucket >= bucket /\ k' = k + 1 /\ pc' = "pass"
      /\ UNCHANGED <<data, mapper, prevBucket, bucket, bucketBegin, inputs, entries,
                     ones, bv_size, position, selectable>>
  BY DEF Inv, IInv, MapperBuilt, NextKey, offsetVars
<1>2. /\ N \in Nat \ {0} /\ k \in 0 .. N - 1 /\ N' = N /\ bucketBegin \in 0 .. N
      /\ prevBucket \in Nat /\ bucket \in Nat
      /\ \A j : Key(j)' = Key(j) /\ Home(j)' = Home(j)
  BY <1>1, Keys DEF TypeOK, N, Key, Home
<1>3. /\ bv_size = mapper.numBuckets + N + 1
      /\ prevBucket <= bucket /\ bucket < mapper.numBuckets
      /\ Cuts(prevBucket, bucketBegin) /\ AtHome(prevBucket, bucketBegin)
      /\ Stored(inputs, bucketBegin) /\ OpenBucket
      /\ Home(k) = bucket /\ InOrder(k + 1)
  BY <1>1 DEF PassInvariant
<1>4. /\ Cuts(prevBucket, bucketBegin)' /\ AtHome(prevBucket, bucketBegin)'
      /\ Stored(inputs, bucketBegin)'
  BY <1>1, <1>3 DEF Cuts, AtHome, Stored, Begin, Size, Home, Key
<1>5. prevBucket = bucket
  BY <1>1, <1>2, <1>3
<1>6. OpenBucket'
  <2>1. ASSUME NEW j \in bucketBegin .. k PROVE Home(j) = prevBucket
    <3>1. j \in bucketBegin .. k - 1 \/ j = k
      BY <1>2
    <3>2. QED
      BY <3>1, <1>3, <1>5 DEF OpenBucket
  <2>2. bucketBegin <= k + 1
    BY <1>2, <1>3 DEF OpenBucket
  <2>3. (k + 1) - 1 = k
    BY <1>2
  <2>4. QED
    BY <2>1, <2>2, <2>3, <1>1, <1>2 DEF OpenBucket
<1>7. InOrder(k)'
  BY <1>1, <1>2, <1>3 DEF InOrder
<1>8. k' # 0 /\ (k' - 1) + 1 = k + 1
  BY <1>1, <1>2
<1>9. TypeOK'
  BY <1>1, <1>2 DEF TypeOK, OffsetsTypeOK, N
<1>10. (bucket = IF k = 0 THEN 0 ELSE Home(k - 1))'
  <2>1. mapper.bucketOf[data[(k' - 1) + 1]] = bucket
    BY <1>3, <1>8 DEF Home, Key
  <2>2. QED
    BY <2>1, <1>1, <1>8 DEF Home, Key
<1>11. PassInvariant'
  BY <1>1, <1>2, <1>3, <1>4, <1>5, <1>6, <1>7, <1>10 DEF PassInvariant
<1>12. QED
  BY <1>1, <1>9, <1>11 DEF Inv, IInv, MapperBuilt

(***************************************************************************)
(* The bucket of the last key is closed.                                   *)
(***************************************************************************)
LEMMA CloseLastBucketInv == Inv /\ CloseLastBucket => Inv'
<1> SUFFICES ASSUME Inv, CloseLastBucket PROVE Inv'
  OBVIOUS
<1>1. /\ TypeOK /\ mapper # NoMapper /\ PassInvariant
      /\ pc = "pass" /\ k = N /\ pc' = "done" /\ ConstructBucket(N)
      /\ UNCHANGED <<data, mapper, k, prevBucket, bucket, bucketBegin, entries>>
  BY DEF Inv, IInv, MapperBuilt, CloseLastBucket, passVars
<1>2. /\ N \in Nat \ {0} /\ N' = N /\ bucketBegin \in 0 .. N
      /\ prevBucket \in Nat /\ bucket \in Nat
      /\ \A j : Key(j)' = Key(j) /\ Home(j)' = Home(j)
  BY <1>1, Keys DEF TypeOK, N, Key, Home
<1>3. /\ bv_size = mapper.numBuckets + N + 1
      /\ prevBucket <= bucket /\ bucket < mapper.numBuckets
      /\ Cuts(prevBucket, bucketBegin) /\ AtHome(prevBucket, bucketBegin)
      /\ Stored(inputs, bucketBegin) /\ OpenBucket /\ InOrder(k)
  BY <1>1 DEF PassInvariant
<1>4. PICK c \in Nat, begin \in Nat, end \in Nat :
         c = prevBucket /\ begin = bucketBegin /\ end = N
  BY <1>2
<1>5. begin <= end /\ end <= N /\ Cuts(c, begin) /\ ConstructBucket(end)
  BY <1>1, <1>2, <1>3, <1>4
<1>6. AtHome(c, begin) /\ Stored(inputs, begin)
      /\ \A j \in begin .. end - 1 : Home(j) = c
  BY <1>1, <1>3, <1>4 DEF OpenBucket
<1>7. OffsetsTypeOK' /\ bv_size' = bv_size /\ Cuts(c + 1, end)'
  BY <1>1, <1>4, <1>5, CloseCuts
<1>8. AtHome(c + 1, end)'
  BY <1>1, <1>4, <1>5, <1>6, CloseAtHome
<1>9. Stored(inputs, end)'
  BY <1>1, <1>4, <1>5, <1>6, CloseStored
<1>10. Cuts(prevBucket + 1, N)' /\ AtHome(prevBucket + 1, N)' /\ Stored(inputs, N)'
  <2>1. prevBucket' + 1 = c + 1 /\ N' = end
    BY <1>1, <1>2, <1>4
  <2>2. QED
    BY <2>1, <1>7, <1>8, <1>9 DEF Cuts, AtHome, Stored
<1>11. InOrder(N)'
  BY <1>1, <1>2, <1>3 DEF InOrder
<1>12. TypeOK'
  BY <1>1, <1>2, <1>7 DEF TypeOK, N
<1>13. PassInvariant'
  BY <1>1, <1>2, <1>3, <1>7, <1>10, <1>11 DEF PassInvariant
<1>14. QED
  BY <1>1, <1>12, <1>13 DEF Inv, IInv, MapperBuilt

(***************************************************************************)
(* The tables are built of what the buckets handed over.                   *)
(***************************************************************************)
LEMMA FinishInv == Inv /\ Finish => Inv'
<1> SUFFICES ASSUME Inv, Finish PROVE Inv'
  OBVIOUS
<1>1. /\ TypeOK /\ mapper # NoMapper /\ PassInvariant
      /\ pc = "done" /\ pc' = "ready" /\ entries' = inputs /\ selectable' = TRUE
      /\ UNCHANGED <<data, mapper, k, prevBucket, bucket, bucketBegin,
                     ones, bv_size, position>>
  BY DEF Inv, IInv, MapperBuilt, Finish, OffsetsDone, passVars
<1>2. TypeOK'
  BY <1>1 DEF TypeOK, OffsetsTypeOK, N
<1>3. /\ Cuts(prevBucket + 1, N) /\ AtHome(prevBucket + 1, N)
      /\ InOrder(N) /\ Stored(inputs, N)
  BY <1>1 DEF PassInvariant
<1>4. /\ Cuts(prevBucket + 1, N)' /\ AtHome(prevBucket + 1, N)'
      /\ InOrder(N)' /\ Stored(entries, N)'
  BY <1>1, <1>3 DEF Cuts, AtHome, Stored, InOrder, Begin, Size, Home, Key, N
<1>5. PassInvariant'
  BY <1>1, <1>4 DEF PassInvariant, N
<1>6. QED
  BY <1>1, <1>2, <1>5 DEF Inv, IInv, MapperBuilt

\* what the invariant depends on
LEMMA UnchangedInv ==
    ASSUME Inv, UNCHANGED <<data, mapper, pc, passVars, inputs, entries, offsetVars>>
    PROVE  Inv'
<1>1. UNCHANGED <<data, mapper, pc, k, prevBucket, bucket, bucketBegin, inputs,
                  entries, ones, bv_size, position, selectable>>
  BY DEF passVars, offsetVars
<1>2. TypeOK'
  BY <1>1 DEF Inv, IInv, TypeOK, OffsetsTypeOK, N
<1>3. PassInvariant => PassInvariant'
  <2>1. /\ \A c, end : /\ Cuts(c, end) => Cuts(c, end)'
                       /\ AtHome(c, end) => AtHome(c, end)'
        /\ \A end : InOrder(end) => InOrder(end)'
    BY <1>1 DEF Cuts, AtHome, InOrder, Begin, Home, Key
  <2>2. \A S, end : Stored(S, end) => Stored(S, end)'
    BY <1>1 DEF Stored, Begin, Size, Home, Key
  <2>3. OpenBucket => OpenBucket'
    BY <1>1 DEF OpenBucket, Home, Key
  <2>4. QED
    BY <2>1, <2>2, <2>3, <1>1
       DEF PassInvariant, N, Cuts, AtHome, Stored, InOrder, Begin, Size, Home, Key
<1>4. QED
  BY <1>1, <1>2, <1>3 DEF Inv, IInv, MapperBuilt

(***************************************************************************)
(* IInv is an invariant of LeMonHash: the first of the facts the theorems  *)
(* below rest on.                                                          *)
(***************************************************************************)
LEMMA InvInvariant == Spec => []Inv
<1>1. Init => Inv
  BY InitInv
<1>2. Inv /\ [Next]_lemonVars => Inv'
  <2> SUFFICES ASSUME Inv, [Next]_lemonVars PROVE Inv'
    OBVIOUS
  <2>1. CASE BuildMapper
    BY <2>1, BuildMapperInv
  <2>2. CASE VisitMapped
    BY <2>2, VisitMappedInv
  <2>3. CASE CloseBucket
    BY <2>3, CloseBucketInv
  <2>4. CASE NextKey
    BY <2>4, NextKeyInv
  <2>5. CASE CloseLastBucket
    BY <2>5, CloseLastBucketInv
  <2>6. CASE Finish
    BY <2>6, FinishInv
  <2>7. CASE Query
    BY <2>7, UnchangedInv DEF Query, Answer
  <2>8. CASE UNCHANGED lemonVars
    BY <2>8, UnchangedInv DEF lemonVars
  <2>9. QED
    BY <2>1, <2>2, <2>3, <2>4, <2>5, <2>6, <2>7, <2>8
       DEF Next, Constructor, BucketLoop
<1>3. QED
  BY <1>1, <1>2, PTL DEF Spec

(***************************************************************************)
(* In every state the set bits cut the keys visited so far, in order, into *)
(* the buckets their queries will read.                                    *)
(***************************************************************************)
THEOREM Invariance == Spec => []IInv
<1>1. Inv => IInv
  BY DEF Inv
<1>2. QED
  BY <1>1, InvInvariant, PTL

(***************************************************************************)
(* The tables hold exactly one value for a key that shares its bucket.     *)
(***************************************************************************)
LEMMA StoredValue ==
    ASSUME TypeOK, NEW c \in Nat, Cuts(c, N), AtHome(c, N), InOrder(N),
           Stored(entries, N), NEW j \in 0 .. N - 1, Size(Home(j)) > 1
    PROVE  Retrieve(entries, Size(Home(j)), Key(j)) = {j - Begin(Home(j))}
<1> DEFINE Entry(m) == Input(Size(Home(m)), Key(m), m - Begin(Home(m)))
<1>1. /\ N \in Nat /\ N <= WideCapacity /\ WideCapacity \in Nat
      /\ \A m \in 0 .. N - 1 : Key(m) \in Nat
  BY Keys, WideCapacityAssumption
<1>2. PICK h \in 0 .. c - 1 : h = Home(j)
  BY DEF AtHome
<1>3. /\ h \in 0 .. c /\ h + 1 \in 0 .. c
      /\ Begin(h) \in 0 .. N /\ Begin(h + 1) \in 0 .. N
      /\ Begin(h) <= j /\ j < Begin(h + 1)
  <2>1. h \in 0 .. c /\ h + 1 \in 0 .. c
    BY <1>2
  <2>2. \A b \in 0 .. c : Begin(b) \in 0 .. N
    BY <1>1, CutBits DEF TypeOK
  <2>3. QED
    BY <2>1, <2>2, <1>2 DEF AtHome
<1>4. PICK size \in Nat, v \in Nat : size = Size(h) /\ v = j - Begin(h)
  BY <1>1, <1>3 DEF Size
<1>5. v < size /\ size <= WideCapacity
  BY <1>1, <1>3, <1>4 DEF Size
<1>6. Entry(j) = Input(size, Key(j), v)
  BY <1>2, <1>4
<1>7. entries = {Entry(m) : m \in {n \in 0 .. N - 1 : Size(Home(n)) > 1}}
  BY DEF Stored
<1>8. Input(size, Key(j), v) \in entries
  BY <1>6, <1>7
<1>9. ASSUME NEW e \in entries, e.key = Key(j)
      PROVE  e = Input(size, Key(j), v)
  <2>1. PICK m \in 0 .. N - 1 : e = Entry(m)
    BY <1>7
  <2>2. Key(m) = Key(j)
    BY <2>1, <1>9 DEF Input
  <2>3. m = j
    BY <2>2, <1>1 DEF InOrder
  <2>4. QED
    BY <2>1, <2>3, <1>6
<1>10. QED
  BY <1>2, <1>4, <1>5, <1>8, <1>9, RetrieveHit

\* the invariant gives the rank
LEMMA RankFromInv == Inv => RankCorrect
<1> SUFFICES ASSUME Inv, pc = "ready", NEW j \in 0 .. N - 1
             PROVE  Ranks(Key(j), Home(j)) = {j}
  BY DEF RankCorrect
<1>1. TypeOK /\ prevBucket \in Nat /\ N \in Nat
  BY Keys DEF Inv, IInv, TypeOK
<1>2. PICK c \in Nat : c = prevBucket + 1
  BY <1>1
<1>3. Cuts(c, N) /\ AtHome(c, N) /\ InOrder(N) /\ Stored(entries, N)
  BY <1>2 DEF Inv, IInv, MapperBuilt, PassInvariant
<1>4. PICK h \in 0 .. c - 1 : h = Home(j)
  BY <1>3 DEF AtHome
<1>5. at(h) = [offset |-> Begin(h), size |-> Size(h)]
  BY <1>1, <1>3, OffsetsOfBucket DEF TypeOK
<1>6. /\ Begin(h) \in Nat /\ Size(h) \in Nat
      /\ Begin(h) <= j /\ j < Begin(h) + Size(h)
  <2>1. h \in 0 .. c /\ h + 1 \in 0 .. c
    OBVIOUS
  <2>2. \A b \in 0 .. c : Begin(b) \in 0 .. N
    BY <1>1, <1>3, CutBits DEF TypeOK
  <2>3. Begin(h) <= j /\ j < Begin(h + 1)
    BY <1>3, <1>4 DEF AtHome
  <2>4. QED
    BY <2>1, <2>2, <2>3 DEF Size
<1>7. CASE Size(h) <= 1
  <2>1. Ranks(Key(j), h) = {Begin(h)}
    BY <1>5, <1>7 DEF Ranks
  <2>2. QED
    BY <2>1, <1>4, <1>6, <1>7
<1>8. CASE Size(h) > 1
  <2>1. Retrieve(entries, Size(h), Key(j)) = {j - Begin(h)}
    BY <1>1, <1>3, <1>4, <1>8, StoredValue
  <2>2. Ranks(Key(j), h) = {Begin(h) + v : v \in {j - Begin(h)}}
    BY <2>1, <1>5, <1>6, <1>8 DEF Ranks
  <2>3. Begin(h) + (j - Begin(h)) = j
    BY <1>6
  <2>4. QED
    BY <2>2, <2>3, <1>4
<1>9. QED
  BY <1>6, <1>7, <1>8

(***************************************************************************)
(* The variables of the constructor keep their types.                      *)
(***************************************************************************)
THEOREM TypeCorrect == Spec => []TypeOK
<1>1. IInv => TypeOK
  BY DEF IInv
<1>2. QED
  BY <1>1, Invariance, PTL

(***************************************************************************)
(* In every finished LeMonHash the only possible answer for the j-th key   *)
(* is j, even if its mapper bears no relation to the keys: a mapper that   *)
(* would break the order is rejected while the function is built.          *)
(***************************************************************************)
THEOREM RankTheorem == Spec => []RankCorrect
  BY InvInvariant, RankFromInv, PTL

(***************************************************************************)
(* The bits allocated from numBuckets(), before a key is seen, suffice for *)
(* every push of the pass, and after it.                                   *)
(***************************************************************************)
THEOREM PushFitsTheorem == Spec => []PushFits
<1>1. Inv => PushFits
  <2> SUFFICES ASSUME Inv, pc \notin {"mapper", "thrown"}
               PROVE  position < bv_size
    BY DEF PushFits
  <2>1. TypeOK /\ mapper # NoMapper /\ PassInvariant
        /\ pc \in {"pass", "close", "done", "ready"}
    BY DEF Inv, IInv, MapperBuilt, TypeOK
  <2>2. /\ N \in Nat /\ mapper.numBuckets \in Nat
        /\ prevBucket \in Nat /\ bucket \in Nat /\ bucketBegin \in 0 .. N
    BY <2>1, Keys, Homes DEF TypeOK
  <2>3. /\ bv_size = mapper.numBuckets + N + 1
        /\ prevBucket <= bucket /\ bucket < mapper.numBuckets
    BY <2>1 DEF PassInvariant
  <2>4. PICK c \in 0 .. prevBucket + 1, end \in 0 .. N : Cuts(c, end)
    <3>1. CASE pc \in {"pass", "close"}
      BY <3>1, <2>1, <2>2 DEF PassInvariant
    <3>2. CASE pc \in {"done", "ready"}
      BY <3>2, <2>1, <2>2 DEF PassInvariant
    <3>3. QED
      BY <2>1, <3>1, <3>2
  <2>5. position = ones[c + 1] /\ ones[c + 1] - c = end
    BY <2>4 DEF Cuts, Begin
  <2>6. position \in Nat
    BY <2>1 DEF TypeOK, OffsetsTypeOK
  <2>7. QED
    BY <2>2, <2>3, <2>5, <2>6
<1>2. QED
  BY <1>1, InvInvariant, PTL

(***************************************************************************)
(* A finished LeMonHash was built from sorted distinct keys, and what was  *)
(* rejected was not sorted or not mapped in order.                         *)
(***************************************************************************)
THEOREM DisorderTheorem == Spec => []OnlyDisorderRejected
<1>1. Inv => OnlyDisorderRejected
  <2> SUFFICES ASSUME Inv PROVE OnlyDisorderRejected
    OBVIOUS
  <2>1. TypeOK /\ N \in Nat
    BY Keys DEF Inv, IInv
  <2>2. ASSUME pc = "ready" PROVE Sorted
    <3>1. InOrder(N)
      BY <2>2 DEF Inv, IInv, MapperBuilt, PassInvariant
    <3>2. ASSUME NEW j \in 1 .. N - 1 PROVE data[j] < data[j + 1]
      <4>1. j - 1 \in 0 .. N - 1 /\ j \in 0 .. N - 1 /\ j - 1 < j /\ (j - 1) + 1 = j
        BY <2>1
      <4>2. Key(j - 1) < Key(j)
        BY <3>1, <4>1 DEF InOrder
      <4>3. QED
        BY <4>1, <4>2 DEF Key
    <3>3. QED
      BY <3>2 DEF Sorted
  <2>3. ASSUME pc = "thrown"
        PROVE  ~ Sorted \/ \E j \in 1 .. N - 1 :
                  mapper.bucketOf[data[j + 1]] < mapper.bucketOf[data[j]]
    <3>1. /\ k \in 1 .. N - 1
          /\ Key(k) <= Key(k - 1) \/ Home(k) < Home(k - 1)
      BY <2>3 DEF Inv, IInv, MapperBuilt, PassInvariant
    <3>2. k - 1 \in 0 .. N - 1 /\ k \in 0 .. N - 1 /\ (k - 1) + 1 = k
      BY <2>1, <3>1
    <3>3. CASE Key(k) <= Key(k - 1)
      <4>1. ~ (Key(k - 1) < Key(k))
        BY <2>1, <3>2, <3>3, Keys
      <4>2. ~ (data[k] < data[k + 1])
        BY <3>2, <4>1 DEF Key
      <4>3. QED
        BY <3>1, <4>2 DEF Sorted
    <3>4. CASE Home(k) < Home(k - 1)
      BY <3>1, <3>2, <3>4 DEF Home, Key
    <3>5. QED
      BY <3>1, <3>3, <3>4
  <2>4. QED
    BY <2>2, <2>3 DEF OnlyDisorderRejected
<1>2. QED
  BY <1>1, InvInvariant, PTL

(***************************************************************************)
(* LeMonHash implements the abstract minimal perfect hash function.        *)
(***************************************************************************)
THEOREM Refinement == Spec => ImplementsMMPHF
<1>1. Init => Abstract!Init
  BY DEF Init, Abstract!Init
<1>2. Inv /\ [Next]_lemonVars => [Abstract!Next]_<<data, pc = "ready", answer>>
  <2> SUFFICES ASSUME Inv, [Next]_lemonVars
               PROVE  [Abstract!Next]_<<data, pc = "ready", answer>>
    OBVIOUS
  <2>1. CASE BuildMapper \/ VisitMapped \/ CloseBucket \/ NextKey \/ CloseLastBucket
    BY <2>1 DEF BuildMapper, VisitMapped, VisitKey, CloseBucket, NextKey, CloseLastBucket
  <2>2. CASE Finish
    BY <2>2 DEF Finish, Abstract!Next, Abstract!Construct
  <2>3. CASE Query
    <3>1. PICK key \in KeySet : \E r \in Ranks(key, mapper.bucketOf[key]) :
             answer' = [key |-> key, rank |-> r]
      BY <2>3 DEF Query, Answer
    <3>2. N \in Nat /\ pc = "ready" /\ UNCHANGED <<data, pc>>
      BY <2>3, Keys DEF Query, Answer, Inv, IInv
    <3>3. PICK m \in 1 .. N : key = data[m]
      BY DEF KeySet
    <3>4. m - 1 \in 0 .. N - 1 /\ (m - 1) + 1 = m
      BY <3>2
    <3>5. Ranks(Key(m - 1), Home(m - 1)) = {m - 1}
      BY <3>2, <3>4, RankFromInv DEF RankCorrect
    <3>6. Ranks(key, mapper.bucketOf[key]) = {m - 1}
      BY <3>3, <3>4, <3>5 DEF Key, Home
    <3>7. answer' = [key |-> data[(m - 1) + 1], rank |-> m - 1]
      BY <3>1, <3>3, <3>4, <3>6
    <3>8. Abstract!Query
      BY <3>2, <3>4, <3>7 DEF Abstract!Query, N
    <3>9. QED
      BY <3>8 DEF Abstract!Next
  <2>4. CASE UNCHANGED lemonVars
    BY <2>4 DEF lemonVars
  <2>5. QED
    BY <2>1, <2>2, <2>3, <2>4 DEF Next, Constructor, BucketLoop
<1>3. QED
  BY <1>1, <1>2, InvInvariant, PTL DEF Spec, ImplementsMMPHF, Abstract!Spec

-----------------------------------------------------------------------------
(* Signs of products. *)
LEMMA ProductSign ==
    ASSUME NEW a \in Int, NEW b \in Int, (a >= 0 /\ b >= 0) \/ (a <= 0 /\ b <= 0)
    PROVE  a * b \in Int /\ a * b >= 0
  OBVIOUS

LEMMA ProductNegative ==
    ASSUME NEW a \in Int, NEW b \in Int, a > 0, b < 0
    PROVE  a * b \in Int /\ a * b < 0
  OBVIOUS

LEMMA Cancelled ==
    ASSUME NEW a \in Int, NEW b \in Int, a > 0, a * b >= 0
    PROVE  b >= 0
  OBVIOUS

-----------------------------------------------------------------------------
(* Lines through a point, with a slope.  What holds of lines below points holds of
   lines above points, too, with the signs changed: sigma is 1 or -1. *)
Points == [x : Int, y : Int]
Slopes == {s \in [dx : Int, dy : Int] : s.dx > 0}
Signs == {1, - 1}

\* by how much, scaled, q is above the line through p
Side(sigma, p, s, q) == sigma * (s.dx * (q.y - p.y) - s.dy * (q.x - p.x))

Under(sigma, p, s, q) == Side(sigma, p, s, q) >= 0

\* by how much, scaled, t is steeper
Bend(sigma, s, t) == sigma * (s.dx * t.dy - s.dy * t.dx)

Flatter(sigma, s, t) == Bend(sigma, s, t) >= 0

\* which way the path from O over A to B turns
Turn(sigma, O, A, B) == sigma * cross(O, A, B)

LEMMA GeometryTypes ==
    ASSUME NEW sigma \in Signs, NEW p \in Points, NEW q \in Points, NEW u \in Points,
           NEW s \in Slopes, NEW t \in Slopes
    PROVE  /\ Side(sigma, p, s, q) \in Int /\ Bend(sigma, s, t) \in Int
           /\ Turn(sigma, p, q, u) \in Int /\ - sigma \in Signs /\ - (- sigma) = sigma
           /\ p.x < q.x => Minus(q, p) \in Slopes
           /\ Side(- sigma, p, s, q) = - Side(sigma, p, s, q)
           /\ Bend(- sigma, t, s) = Bend(sigma, s, t)
           /\ Bend(sigma, t, s) = - Bend(sigma, s, t)
  BY DEF Side, Bend, Turn, cross, Minus, Points, Slopes, Signs

\* a slope, to pick one where none is given
LEMMA SomeSlope == [dx |-> 1, dy |-> 0] \in Slopes
  BY DEF Slopes

LEMMA SomePoint == [x |-> 0, y |-> 0] \in Points
  BY DEF Points

\* a line moved to another of its points and turned there, spelled out
LEMMA PivotIdentity ==
    ASSUME NEW sigma \in Int, NEW dx \in Int, NEW dy \in Int, NEW ex \in Int, NEW ey \in Int,
           NEW px \in Int, NEW py \in Int, NEW ax \in Int, NEW ay \in Int,
           NEW qx \in Int, NEW qy \in Int, NEW ux \in Int, NEW uy \in Int
    PROVE  ex * (sigma * (dx * (qy - py) - dy * (qx - px))) =
              ex * (sigma * (dx * (uy - py) - dy * (ux - px)))
              + dx * (sigma * (ex * (qy - ay) - ey * (qx - ax)))
              - dx * (sigma * (ex * (uy - ay) - ey * (ux - ax)))
              + (qx - ux) * (sigma * (dx * ey - dy * ex))
  OBVIOUS

(* Behind u, to the right, a line that is below u and flatter than one that is not below
   u stays below what that one is below; in front of u, a steeper one does. *)
LEMMA Pivot ==
    ASSUME NEW sigma \in Signs, NEW p \in Points, NEW d \in Slopes,
           NEW a \in Points, NEW e \in Slopes, NEW u \in Points, NEW q \in Points,
           Under(sigma, p, d, u), Under(- sigma, a, e, u), Under(sigma, a, e, q),
           \/ q.x >= u.x /\ Flatter(sigma, d, e)
           \/ q.x <= u.x /\ Flatter(sigma, e, d)
    PROVE  Under(sigma, p, d, q)
<1> DEFINE A == Side(sigma, p, d, u)
           B == Side(sigma, a, e, q)
           C == Side(sigma, a, e, u)
           D == Bend(sigma, d, e)
           G == Side(sigma, p, d, q)
<1>1. A \in Int /\ B \in Int /\ C \in Int /\ D \in Int /\ G \in Int /\ Bend(sigma, e, d) = - D
      /\ Side(- sigma, a, e, u) = - C
  BY GeometryTypes
<1>2. /\ d.dx \in Int /\ d.dx > 0 /\ e.dx \in Int /\ e.dx > 0 /\ d.dy \in Int /\ e.dy \in Int
      /\ q.x \in Int /\ u.x \in Int /\ q.y \in Int /\ u.y \in Int
      /\ p.x \in Int /\ p.y \in Int /\ a.x \in Int /\ a.y \in Int /\ sigma \in Int
  BY DEF Points, Slopes, Signs
<1>3. e.dx * G = e.dx * A + d.dx * B - d.dx * C + (q.x - u.x) * D
  BY <1>2, PivotIdentity DEF Side, Bend
<1>4. A >= 0 /\ B >= 0 /\ C <= 0
  BY <1>1 DEF Under
<1>5. (q.x - u.x) * D >= 0 /\ (q.x - u.x) * D \in Int
  <2>1. \/ q.x - u.x >= 0 /\ D >= 0
        \/ q.x - u.x <= 0 /\ D <= 0
    <3>1. Flatter(sigma, d, e) => D >= 0
      BY DEF Flatter
    <3>2. Flatter(sigma, e, d) => D <= 0
      BY <1>1 DEF Flatter
    <3> HIDE DEF D
    <3>3. QED
      BY <1>2, <3>1, <3>2
  <2>2. q.x - u.x \in Int
    BY <1>2
  <2> HIDE DEF D
  <2>3. QED
    BY <1>1, <2>1, <2>2, ProductSign
<1> HIDE DEF A, B, C, D, G
<1>6. /\ e.dx * A >= 0 /\ e.dx * A \in Int /\ d.dx * B >= 0 /\ d.dx * B \in Int
      /\ d.dx * (- C) >= 0 /\ d.dx * (- C) \in Int /\ d.dx * (- C) = - (d.dx * C)
  <2>1. e.dx * A >= 0 /\ e.dx * A \in Int
    BY <1>1, <1>2, <1>4, ProductSign
  <2>2. d.dx * B >= 0 /\ d.dx * B \in Int
    BY <1>1, <1>2, <1>4, ProductSign
  <2>3. d.dx * (- C) >= 0 /\ d.dx * (- C) \in Int
    BY <1>1, <1>2, <1>4, ProductSign
  <2>4. d.dx * (- C) = - (d.dx * C)
    BY <1>1, <1>2
  <2>5. QED
    BY <2>1, <2>2, <2>3, <2>4
<1>7. e.dx * G >= 0
  BY <1>1, <1>2, <1>3, <1>5, <1>6
<1>8. G >= 0
  BY <1>1, <1>2, <1>7, Cancelled
<1>9. QED
  BY <1>8 DEF G, Under

(* The slope relation is an order. *)
LEMMA BendIdentity ==
    ASSUME NEW sigma \in Int, NEW sx \in Int, NEW sy \in Int, NEW tx \in Int, NEW ty \in Int,
           NEW wx \in Int, NEW wy \in Int
    PROVE  tx * (sigma * (sx * wy - sy * wx)) =
              wx * (sigma * (sx * ty - sy * tx)) + sx * (sigma * (tx * wy - ty * wx))
  OBVIOUS

\* flatter than a flatter line
LEMMA FlatterOrder ==
    ASSUME NEW sigma \in Signs, NEW s \in Slopes, NEW t \in Slopes, NEW w \in Slopes,
           Flatter(sigma, s, t), Flatter(sigma, t, w)
    PROVE  Flatter(sigma, s, w)
<1>1. PICK A, B, C : A = Bend(sigma, s, t) /\ B = Bend(sigma, t, w) /\ C = Bend(sigma, s, w)
  OBVIOUS
<1>2. A \in Int /\ B \in Int /\ C \in Int /\ A >= 0 /\ B >= 0
  <2>1. A \in Int /\ B \in Int /\ C \in Int
    BY <1>1 DEF Bend, Slopes, Signs
  <2>2. A >= 0 /\ B >= 0
    BY <1>1 DEF Flatter
  <2>3. QED
    BY <2>1, <2>2
<1>3. /\ s.dx \in Int /\ s.dx > 0 /\ t.dx \in Int /\ t.dx > 0 /\ w.dx \in Int /\ w.dx > 0
      /\ s.dy \in Int /\ t.dy \in Int /\ w.dy \in Int /\ sigma \in Int
  BY DEF Slopes, Signs
<1>4. t.dx * C = w.dx * A + s.dx * B
  BY <1>1, <1>3, BendIdentity DEF Bend
<1>5. w.dx * A >= 0 /\ w.dx * A \in Int
  BY <1>2, <1>3, ProductSign
<1>6. s.dx * B >= 0 /\ s.dx * B \in Int
  BY <1>2, <1>3, ProductSign
<1>7. t.dx * C >= 0
  BY <1>4, <1>5, <1>6
<1>8. C >= 0
  BY <1>2, <1>3, <1>7, Cancelled
<1>9. QED
  BY <1>1, <1>8 DEF Flatter

\* the line through two points, seen from either
LEMMA TwoPoints ==
    ASSUME NEW sigma \in Signs, NEW u \in Points, NEW v \in Points, u.x < v.x,
           NEW q \in Points
    PROVE  /\ Side(sigma, v, Minus(v, u), q) = Side(sigma, u, Minus(v, u), q)
           /\ Side(sigma, u, Minus(v, u), u) = 0 /\ Side(sigma, u, Minus(v, u), v) = 0
           /\ Side(sigma, v, Minus(v, u), v) = 0 /\ Side(sigma, v, Minus(v, u), u) = 0
  BY DEF Side, Minus, Points, Signs

\* a line that is below u and not below v, behind u, is steeper than the one through both
LEMMA SlopeBetween ==
    ASSUME NEW sigma \in Signs, NEW u \in Points, NEW v \in Points, u.x < v.x,
           NEW a \in Points, NEW e \in Slopes,
           Under(sigma, a, e, u), Under(- sigma, a, e, v)
    PROVE  Flatter(sigma, Minus(v, u), e)
<1>1. Bend(sigma, Minus(v, u), e) = Side(sigma, a, e, u) - Side(sigma, a, e, v)
  BY DEF Bend, Side, Minus, Points, Slopes, Signs
<1>2. Side(- sigma, a, e, v) = - Side(sigma, a, e, v)
      /\ Side(sigma, a, e, v) \in Int /\ Side(sigma, a, e, u) \in Int
  BY GeometryTypes
<1>3. QED
  BY <1>1, <1>2 DEF Flatter, Under

\* lines from u and v to a point behind both
LEMMA SlopesTo ==
    ASSUME NEW sigma \in Signs, NEW u \in Points, NEW v \in Points, NEW b \in Points
    PROVE  /\ Bend(sigma, Minus(b, u), Minus(b, v)) = Side(sigma, v, Minus(b, v), u)
           /\ Bend(sigma, Minus(b, u), Minus(b, v)) = Turn(sigma, u, v, b)
           /\ Bend(sigma, Minus(v, u), Minus(b, u)) = Turn(sigma, u, v, b)
           /\ Side(sigma, u, Minus(v, u), b) = Turn(sigma, u, v, b)
  BY DEF Bend, Side, Turn, cross, Minus, Points, Signs
-----------------------------------------------------------------------------
(* Turns among four points, the first two of them in front of the others. *)
LEMMA FourTurns ==
    ASSUME NEW sigma \in Signs, NEW A \in Points, NEW C \in Points, NEW D \in Points,
           NEW b \in Points
    PROVE  /\ (b.x - C.x) * Turn(sigma, A, D, b) =
                  (b.x - D.x) * Turn(sigma, A, C, b) + (b.x - A.x) * Turn(sigma, C, D, b)
           /\ (D.x - C.x) * Turn(sigma, A, C, b) =
                  (b.x - C.x) * Turn(sigma, A, C, D) + (C.x - A.x) * Turn(sigma, C, D, b)
  BY DEF Turn, cross, Minus, Points, Signs

\* a path that bends one way and turns away from b in between turns away behind
LEMMA TurnsAway ==
    ASSUME NEW sigma \in Signs, NEW A \in Points, NEW C \in Points, NEW D \in Points,
           NEW b \in Points, A.x < C.x, C.x < D.x, C.x < b.x,
           Turn(sigma, A, C, D) > 0, Turn(sigma, A, C, b) < 0
    PROVE  Turn(sigma, C, D, b) < 0
<1>1. PICK U, V, W : U = Turn(sigma, A, C, b) /\ V = Turn(sigma, A, C, D)
                     /\ W = Turn(sigma, C, D, b)
  OBVIOUS
<1>2. U \in Int /\ V \in Int /\ W \in Int
  BY <1>1, GeometryTypes, SomeSlope
<1>3. PICK f, g, h : f = D.x - C.x /\ g = b.x - C.x /\ h = C.x - A.x
  OBVIOUS
<1>4. f \in Int /\ f > 0 /\ g \in Int /\ g > 0 /\ h \in Int /\ h > 0
  BY <1>3 DEF Points
<1>5. f * U = g * V + h * W
  BY <1>1, <1>3, FourTurns
<1>6. U < 0 /\ V > 0
  BY <1>1
<1>7. f * U < 0 /\ g * V >= 0
  BY <1>2, <1>4, <1>6, ProductNegative, ProductSign
<1>8. W < 0
  <2>1. CASE W >= 0
    <3>1. h * W >= 0 /\ h * W \in Int /\ f * U \in Int /\ g * V \in Int
      BY <2>1, <1>2, <1>4, ProductSign
    <3>2. QED
      BY <3>1, <1>5, <1>7
  <2>2. QED
    BY <2>1, <1>2
<1>9. QED
  BY <1>1, <1>8

\* ... and so does the way straight to it
LEMMA TurnsAwayFrom ==
    ASSUME NEW sigma \in Signs, NEW A \in Points, NEW C \in Points, NEW D \in Points,
           NEW b \in Points, A.x < b.x, C.x < b.x, D.x <= b.x,
           Turn(sigma, A, C, b) <= 0, Turn(sigma, C, D, b) < 0
    PROVE  Turn(sigma, A, D, b) <= 0
<1>1. PICK U, V, W : U = Turn(sigma, A, C, b) /\ V = Turn(sigma, C, D, b)
                     /\ W = Turn(sigma, A, D, b)
  OBVIOUS
<1>2. U \in Int /\ V \in Int /\ W \in Int
  BY <1>1, GeometryTypes, SomeSlope
<1>3. PICK f, g, h : f = b.x - C.x /\ g = b.x - D.x /\ h = b.x - A.x
  OBVIOUS
<1>4. f \in Int /\ f > 0 /\ g \in Int /\ g >= 0 /\ h \in Int /\ h > 0
  BY <1>3 DEF Points
<1>5. f * W = g * U + h * V
  BY <1>1, <1>3, FourTurns
<1>6. g * (- U) >= 0 /\ h * V < 0 /\ g * (- U) = - (g * U) /\ g * U \in Int /\ h * V \in Int
  <2>1. U <= 0 /\ V < 0
    BY <1>1
  <2>2. g * (- U) >= 0
    BY <2>1, <1>2, <1>4, ProductSign
  <2>3. h * V < 0 /\ h * V \in Int
    BY <2>1, <1>2, <1>4, ProductNegative
  <2>4. g * (- U) = - (g * U) /\ g * U \in Int
    BY <1>2, <1>4
  <2>5. QED
    BY <2>2, <2>3, <2>4
<1>7. W <= 0
  <2>1. CASE W > 0
    <3>1. f * W >= 0 /\ f * W \in Int
      BY <2>1, <1>2, <1>4, ProductSign
    <3>2. QED
      BY <3>1, <1>5, <1>6
  <2>2. QED
    BY <2>1, <1>2
<1>8. QED
  BY <1>1, <1>7

\* the same with coordinates: g, h and b have heights over a line whose turn is the rest
LEMMA RedundancyIdentity ==
    ASSUME NEW sigma \in Int, NEW dx \in Int, NEW dy \in Int, NEW px \in Int, NEW py \in Int,
           NEW gx \in Int, NEW gy \in Int, NEW hx \in Int, NEW hy \in Int,
           NEW bx \in Int, NEW by \in Int
    PROVE  (bx - gx) * (sigma * (dx * (hy - py) - dy * (hx - px))) =
              (bx - hx) * (sigma * (dx * (gy - py) - dy * (gx - px)))
              + (hx - gx) * (sigma * (dx * (by - py) - dy * (bx - px)))
              - dx * (sigma * ((hx - gx) * (by - gy) - (hy - gy) * (bx - gx)))
  OBVIOUS

(* A point between two others in front of the line through them. *)
LEMMA Redundancy ==
    ASSUME NEW sigma \in Signs, NEW p \in Points, NEW d \in Slopes,
           NEW g \in Points, NEW h \in Points, NEW b \in Points, g.x < h.x, h.x < b.x,
           Turn(sigma, g, h, b) <= 0, Under(sigma, p, d, g), Under(sigma, p, d, b)
    PROVE  Under(sigma, p, d, h)
<1>1. PICK U, V, W, T : U = Side(sigma, p, d, g) /\ V = Side(sigma, p, d, b)
                        /\ W = Side(sigma, p, d, h) /\ T = Turn(sigma, g, h, b)
  OBVIOUS
<1>2. U \in Int /\ V \in Int /\ W \in Int /\ T \in Int
  BY <1>1, GeometryTypes
<1>3. PICK kk, l, m : kk = b.x - g.x /\ l = b.x - h.x /\ m = h.x - g.x
  OBVIOUS
<1>4. kk \in Int /\ kk > 0 /\ l \in Int /\ l > 0 /\ m \in Int /\ m > 0
      /\ d.dx \in Int /\ d.dx > 0
  BY <1>3 DEF Points, Slopes
<1>5. kk * W = l * U + m * V - d.dx * T
  <2>1. /\ d.dy \in Int /\ g.x \in Int /\ g.y \in Int /\ h.x \in Int /\ h.y \in Int
        /\ b.x \in Int /\ b.y \in Int /\ p.x \in Int /\ p.y \in Int /\ sigma \in Int
    BY DEF Points, Slopes, Signs
  <2>2. QED
    BY <1>1, <1>3, <1>4, <2>1, RedundancyIdentity DEF Side, Turn, cross, Minus
<1>6. U >= 0 /\ V >= 0 /\ T <= 0
  BY <1>1 DEF Under
<1>7. l * U >= 0 /\ l * U \in Int /\ m * V >= 0 /\ m * V \in Int
      /\ d.dx * (- T) >= 0 /\ d.dx * (- T) = - (d.dx * T) /\ d.dx * T \in Int
  <2>1. l * U >= 0 /\ l * U \in Int
    BY <1>2, <1>4, <1>6, ProductSign
  <2>2. m * V >= 0 /\ m * V \in Int
    BY <1>2, <1>4, <1>6, ProductSign
  <2>3. d.dx * (- T) >= 0
    BY <1>2, <1>4, <1>6, ProductSign
  <2>4. d.dx * (- T) = - (d.dx * T) /\ d.dx * T \in Int
    BY <1>2, <1>4
  <2>5. QED
    BY <2>1, <2>2, <2>3, <2>4
<1>8. kk * W >= 0
  BY <1>5, <1>7
<1>9. W >= 0
  BY <1>2, <1>4, <1>8, Cancelled
<1>10. QED
  BY <1>1, <1>9 DEF Under
-----------------------------------------------------------------------------
(* The points H[a] to H[n] are a hull of points of T, which bends one way. *)
HullOf(sigma, T, H, a, n) ==
    /\ a \in Nat /\ n \in Nat /\ a <= n
    /\ T \in SUBSET Points
    /\ \A i \in a .. n : H[i] \in T
    /\ \A i, j \in a .. n : i < j => H[i].x < H[j].x
    /\ \A i \in a + 1 .. n - 1 : Turn(sigma, H[i - 1], H[i], H[i + 1]) > 0

\* b is behind the points of T, or below the last
Ahead(sigma, T, b) == \A q \in T : \/ q.x < b.x
                                   \/ q.x = b.x /\ sigma * (q.y - b.y) > 0

\* what the search for the extreme slope returns
Tangent(sigma, H, a, n, b, e) ==
    /\ e \in a .. n
    /\ \A i \in a + 1 .. e : Turn(sigma, H[i - 1], H[i], b) >= 0
    /\ e < n => Turn(sigma, H[e], H[e + 1], b) < 0

\* the points of a hull
LEMMA HullPoint ==
    ASSUME NEW sigma, NEW T, NEW H, NEW a, NEW n, HullOf(sigma, T, H, a, n)
    PROVE  /\ \A i \in a .. n : H[i] \in T /\ H[i] \in Points /\ i \in Nat
           /\ \A i, j \in a .. n : i < j => H[i].x < H[j].x
           /\ \A i, j \in a .. n : i <= j => H[i].x <= H[j].x
           /\ a \in Nat /\ n \in Nat /\ a <= n /\ a \in a .. n
  BY DEF HullOf, Points

\* nothing is behind what is ahead
LEMMA AheadOf ==
    ASSUME NEW sigma, NEW T \in SUBSET Points, NEW b \in Points, Ahead(sigma, T, b),
           NEW q \in T
    PROVE  q.x <= b.x
  BY DEF Ahead, Points

\* the tangent ends in front of b
LEMMA TangentFront ==
    ASSUME NEW sigma \in Signs, NEW T, NEW H, NEW a, NEW n, HullOf(sigma, T, H, a, n),
           NEW b \in Points, Ahead(sigma, T, b), H[a].x < b.x,
           NEW e, Tangent(sigma, H, a, n, b, e)
    PROVE  H[e].x < b.x
<1>0. e \in a .. n /\ a \in Nat /\ n \in Nat
  BY HullPoint DEF Tangent
<1>1. CASE e = a
  BY <1>1
<1>2. CASE e # a
  <2>1. e - 1 \in a .. n /\ e \in a + 1 .. e /\ e - 1 < e
    BY <1>0, <1>2
  <2>2. Turn(sigma, H[e - 1], H[e], b) >= 0
    BY <2>1 DEF Tangent
  <2>3. PICK A, B : A = H[e - 1] /\ B = H[e]
    OBVIOUS
  <2>4. A \in Points /\ B \in Points /\ B \in T /\ A.x < B.x
    BY <1>0, <2>1, <2>3, HullPoint
  <2>5. B.x < b.x \/ (B.x = b.x /\ sigma * (B.y - b.y) > 0)
    BY <2>4 DEF Ahead
  <2>6. ASSUME B.x = b.x, sigma * (B.y - b.y) > 0 PROVE FALSE
    <3>1. Turn(sigma, A, B, b) = (B.x - A.x) * (- (sigma * (B.y - b.y)))
      BY <2>4, <2>6 DEF Turn, cross, Minus, Points, Signs
    <3>2. PICK f, g : f = B.x - A.x /\ g = - (sigma * (B.y - b.y))
      OBVIOUS
    <3>3. f \in Int /\ f > 0 /\ g \in Int /\ g < 0
      BY <2>4, <2>6, <3>2 DEF Points, Signs
    <3>4. f * g < 0
      BY <3>3, ProductNegative
    <3>5. QED
      BY <2>2, <2>3, <3>1, <3>2, <3>3, <3>4
  <2>7. QED
    BY <2>3, <2>5, <2>6
<1>3. QED
  BY <1>1, <1>2

\* its slope is the least flat of those from the points up to it
LEMMA TangentSlope ==
    ASSUME NEW sigma \in Signs, NEW T, NEW H, NEW a, NEW n, HullOf(sigma, T, H, a, n),
           NEW b \in Points, NEW e, Tangent(sigma, H, a, n, b, e), H[e].x < b.x,
           NEW i \in a .. e
    PROVE  Minus(b, H[i]) \in Slopes /\ Flatter(sigma, Minus(b, H[i]), Minus(b, H[e]))
<1> DEFINE good == {kk \in 0 .. e : kk >= a => Flatter(sigma, Minus(b, H[kk]), Minus(b, H[e]))}
<1>0. e \in a .. n /\ a \in Nat /\ n \in Nat /\ e \in Nat
  BY HullPoint DEF Tangent
<1>1. ASSUME NEW kk \in a .. e
      PROVE  H[kk] \in Points /\ H[kk].x < b.x /\ Minus(b, H[kk]) \in Slopes
  <2>1. kk \in a .. n /\ e \in a .. n /\ kk <= e
    BY <1>0
  <2>2. H[kk] \in Points /\ H[e] \in Points /\ H[kk].x <= H[e].x
    BY <2>1, HullPoint
  <2>3. PICK A, B : A = H[kk] /\ B = H[e]
    OBVIOUS
  <2>4. A.x < b.x /\ A \in Points
    BY <2>2, <2>3 DEF Points
  <2>5. Minus(b, A) \in Slopes
    BY <2>4, SomeSlope, GeometryTypes
  <2>6. QED
    BY <2>3, <2>4, <2>5
<1>2. e \in good
  <2>1. PICK s : s = Minus(b, H[e])
    OBVIOUS
  <2>2. s \in Slopes
    BY <2>1, <1>0, <1>1
  <2>3. Flatter(sigma, s, s)
    BY <2>2 DEF Flatter, Bend, Slopes, Signs
  <2>4. QED
    BY <1>0, <2>1, <2>3
<1>3. ASSUME NEW kk \in 0 .. e - 1, kk + 1 \in good PROVE kk \in good
  <2>1. CASE kk < a
    BY <2>1, <1>0
  <2>2. CASE kk >= a
    <3>1. kk \in a .. e /\ kk + 1 \in a .. e /\ kk + 1 \in a + 1 .. e /\ (kk + 1) - 1 = kk
          /\ e \in a .. e
      BY <1>0, <2>2
    <3>2. Turn(sigma, H[kk], H[kk + 1], b) >= 0
      BY <3>1 DEF Tangent
    <3>3. PICK A, B, s, t, w : /\ A = H[kk] /\ B = H[kk + 1]
                               /\ s = Minus(b, A) /\ t = Minus(b, B) /\ w = Minus(b, H[e])
      OBVIOUS
    <3>4. A \in Points /\ B \in Points /\ s \in Slopes /\ t \in Slopes /\ w \in Slopes
      BY <1>1, <3>1, <3>3
    <3>5. Bend(sigma, s, t) = Turn(sigma, A, B, b)
      BY <3>3, <3>4, SlopesTo
    <3>6. Flatter(sigma, s, t)
      BY <3>2, <3>3, <3>5 DEF Flatter
    <3>7. Flatter(sigma, t, w)
      BY <1>3, <3>1, <3>3
    <3>8. Flatter(sigma, s, w)
      BY <3>4, <3>6, <3>7, FlatterOrder
    <3>9. QED
      BY <3>1, <3>3, <3>8, <1>0
  <2>3. QED
    BY <1>0, <2>1, <2>2
<1> HIDE DEF good
<1>4. 0 .. e \subseteq good
  BY <1>0, <1>2, <1>3, DownTo
<1>5. i \in good
  BY <1>0, <1>4
<1>6. QED
  BY <1>0, <1>1, <1>5 DEF good

\* behind it, the hull turns away from b
LEMMA TangentTurns ==
    ASSUME NEW sigma \in Signs, NEW T, NEW H, NEW a, NEW n, HullOf(sigma, T, H, a, n),
           NEW b \in Points, Ahead(sigma, T, b), NEW e, Tangent(sigma, H, a, n, b, e)
    PROVE  \A i \in e + 1 .. n : Turn(sigma, H[i - 1], H[i], b) < 0
<1> DEFINE good == {kk \in Nat : e + 1 + kk <= n =>
                                    Turn(sigma, H[e + kk], H[e + 1 + kk], b) < 0}
<1>0. e \in a .. n /\ a \in Nat /\ n \in Nat /\ e \in Nat
  BY HullPoint DEF Tangent
<1>1. 0 \in good
  BY <1>0 DEF Tangent
<1>2. ASSUME NEW kk \in Nat, kk \in good PROVE kk + 1 \in good
  <2>1. CASE e + 1 + (kk + 1) <= n
    <3> DEFINE j == e + 1 + kk
    <3>1. /\ j \in a .. n /\ j - 1 \in a .. n /\ j + 1 \in a .. n /\ j \in a + 1 .. n - 1
          /\ e + kk = j - 1 /\ e + 1 + (kk + 1) = j + 1 /\ e + (kk + 1) = j
          /\ j - 1 < j /\ j < j + 1
      BY <1>0, <2>1
    <3> HIDE DEF j
    <3>2. Turn(sigma, H[j - 1], H[j], b) < 0
      BY <1>2, <2>1, <3>1, <1>0 DEF j
    <3>3. Turn(sigma, H[j - 1], H[j], H[j + 1]) > 0
      BY <3>1 DEF HullOf
    <3>4. PICK A, C, D : A = H[j - 1] /\ C = H[j] /\ D = H[j + 1]
      OBVIOUS
    <3>5. /\ A \in Points /\ C \in Points /\ D \in Points /\ D \in T
          /\ A.x < C.x /\ C.x < D.x
      BY <3>1, <3>4, HullPoint
    <3>6. T \in SUBSET Points
      BY DEF HullOf
    <3>7. D.x <= b.x
      BY <3>5, <3>6, AheadOf
    <3>8. C.x < b.x
      BY <3>5, <3>7 DEF Points
    <3>9. Turn(sigma, C, D, b) < 0
      BY <3>2, <3>3, <3>4, <3>5, <3>8, TurnsAway
    <3>10. QED
      BY <3>1, <3>4, <3>9
  <2>2. QED
    BY <2>1, <1>2
<1> HIDE DEF good
<1>3. Nat \subseteq good
  BY <1>1, <1>2, AllNaturals
<1>4. ASSUME NEW i \in e + 1 .. n PROVE Turn(sigma, H[i - 1], H[i], b) < 0
  <2>1. i - (e + 1) \in Nat /\ e + (i - (e + 1)) = i - 1 /\ e + 1 + (i - (e + 1)) = i
        /\ i <= n
    BY <1>0
  <2>2. i - (e + 1) \in good
    BY <1>3, <2>1
  <2>3. QED
    BY <2>1, <2>2 DEF good
<1>5. QED
  BY <1>4

\* the line from it to b is below the whole hull
LEMMA TangentUnder ==
    ASSUME NEW sigma \in Signs, NEW T, NEW H, NEW a, NEW n, HullOf(sigma, T, H, a, n),
           NEW b \in Points, Ahead(sigma, T, b), NEW e, Tangent(sigma, H, a, n, b, e),
           H[e].x < b.x
    PROVE  \A i \in a .. n : Under(sigma, H[e], Minus(b, H[e]), H[i])
<1>0. e \in a .. n /\ a \in Nat /\ n \in Nat /\ e \in Nat /\ e \in a .. e
  BY HullPoint DEF Tangent
<1>1. T \in SUBSET Points
  BY DEF HullOf
<1>2. PICK E, s : E = H[e] /\ s = Minus(b, E)
  OBVIOUS
<1>3. E \in Points /\ E.x < b.x /\ s \in Slopes
  BY <1>0, <1>2, HullPoint, TangentSlope
<1>4. ASSUME NEW i \in a .. n, i <= e PROVE Under(sigma, E, s, H[i])
  <2>1. PICK A : A = H[i]
    OBVIOUS
  <2>2. i \in a .. e /\ A \in Points
    BY <1>0, <1>4, <2>1, HullPoint
  <2>3. Flatter(sigma, Minus(b, A), s)
    BY <1>2, <2>1, <2>2, TangentSlope
  <2>4. Bend(sigma, Minus(b, A), s) = Side(sigma, E, s, A)
    BY <1>2, <1>3, <2>2, SlopesTo
  <2>5. QED
    BY <2>1, <2>3, <2>4 DEF Flatter, Under
<1> DEFINE good == {kk \in Nat : e + kk <= n => Turn(sigma, E, H[e + kk], b) <= 0}
<1>5. 0 \in good
  <2>1. Turn(sigma, E, E, b) = 0
    BY <1>3 DEF Turn, cross, Minus, Points, Signs
  <2>2. QED
    BY <1>0, <1>2, <2>1
<1>6. ASSUME NEW kk \in Nat, kk \in good PROVE kk + 1 \in good
  <2>1. CASE e + (kk + 1) <= n
    <3>1. /\ e + kk \in a .. n /\ e + (kk + 1) \in a .. n /\ e + (kk + 1) \in e + 1 .. n
          /\ e + kk < e + (kk + 1) /\ e + (kk + 1) - 1 = e + kk /\ e + kk <= n
      BY <1>0, <2>1
    <3>2. PICK C, D : C = H[e + kk] /\ D = H[e + (kk + 1)]
      OBVIOUS
    <3>3. C \in Points /\ D \in Points /\ D \in T /\ C.x < D.x
      BY <3>1, <3>2, HullPoint
    <3>4. D.x <= b.x
      BY <1>1, <3>3, AheadOf
    <3>5. C.x < b.x
      BY <3>3, <3>4 DEF Points
    <3>6. Turn(sigma, C, D, b) < 0
      <4>1. \A i \in e + 1 .. n : Turn(sigma, H[i - 1], H[i], b) < 0
        BY TangentTurns
      <4>2. PICK j : j = e + (kk + 1)
        OBVIOUS
      <4>3. j \in e + 1 .. n /\ j - 1 = e + kk
        BY <1>0, <3>1, <4>2
      <4>4. Turn(sigma, H[j - 1], H[j], b) < 0
        BY <4>1, <4>3
      <4>5. H[j - 1] = C /\ H[j] = D
        BY <3>2, <4>2, <4>3
      <4>6. QED
        BY <4>4, <4>5
    <3>7. Turn(sigma, E, C, b) <= 0
      BY <1>6, <3>1, <3>2
    <3>8. Turn(sigma, E, D, b) <= 0
      BY <1>3, <3>3, <3>4, <3>5, <3>6, <3>7, TurnsAwayFrom
    <3>9. QED
      BY <3>2, <3>8
  <2>2. QED
    BY <2>1, <1>6
<1> HIDE DEF good
<1>7. Nat \subseteq good
  BY <1>5, <1>6, AllNaturals
<1>8. ASSUME NEW i \in a .. n, ~ (i <= e) PROVE Under(sigma, E, s, H[i])
  <2>1. i - e \in Nat /\ e + (i - e) = i /\ i <= n
    BY <1>0, <1>8
  <2>2. i - e \in good
    BY <1>7, <2>1
  <2>3. PICK D : D = H[i]
    OBVIOUS
  <2>4. Turn(sigma, E, D, b) <= 0
    BY <2>1, <2>2, <2>3 DEF good
  <2>5. D \in Points
    BY <2>3, HullPoint
  <2>6. Side(sigma, E, s, D) = - Turn(sigma, E, D, b)
    <3>1. ASSUME NEW kk \in Int, NEW p \in Int, NEW q \in Int, NEW u \in Int, NEW v \in Int
          PROVE  kk * (p * v - q * u) = - (kk * (u * q - v * p))
      OBVIOUS
    <3>2. /\ sigma \in Int /\ b.x - E.x \in Int /\ b.y - E.y \in Int
          /\ D.x - E.x \in Int /\ D.y - E.y \in Int
      BY <1>3, <2>5 DEF Points, Signs
    <3>3. QED
      BY <1>2, <3>1, <3>2 DEF Side, Turn, cross, Minus
  <2>7. Turn(sigma, E, D, b) \in Int
    BY <1>3, <2>5, GeometryTypes
  <2>8. QED
    BY <2>3, <2>4, <2>6, <2>7 DEF Under
<1>9. QED
  BY <1>2, <1>4, <1>8
-----------------------------------------------------------------------------
\* b is behind all points of B
Behind(B, b) == \A q \in B : q.x < b.x

\* what is left of a hull in front of b
Popped(sigma, G, c, m, b, r) ==
    /\ r \in c .. m
    /\ r > c => Turn(sigma, G[r - 1], G[r], b) > 0
    /\ \A kk \in r + 1 .. m : Turn(sigma, G[kk - 1], G[kk], b) <= 0

\* K is G up to r, and b
Lengthened(G, c, r, b, K) == (\A i \in c .. r : K[i] = G[i]) /\ K[r + 1] = b

\* a hull that was cut and lengthened is a hull
LEMMA PoppedHull ==
    ASSUME NEW sigma \in Signs, NEW B, NEW G, NEW c, NEW m, HullOf(sigma, B, G, c, m),
           NEW b \in Points, Behind(B, b), NEW r, Popped(sigma, G, c, m, b, r),
           NEW K, Lengthened(G, c, r, b, K)
    PROVE  HullOf(sigma, B \cup {b}, K, c, r + 1)
<1>0. r \in c .. m /\ c \in Nat /\ m \in Nat /\ r \in Nat /\ c <= r /\ r <= m
  BY HullPoint DEF Popped
<1>1. B \cup {b} \in SUBSET Points
  BY DEF HullOf
<1>2. ASSUME NEW i \in c .. r PROVE K[i] = G[i] /\ K[i] \in B /\ i \in c .. m
  BY <1>0, HullPoint DEF Lengthened
<1>3. K[r + 1] = b
  BY DEF Lengthened
<1>4. ASSUME NEW i \in c .. r + 1 PROVE i \in c .. r \/ i = r + 1
  BY <1>0
<1>5. \A i \in c .. r + 1 : K[i] \in B \cup {b}
  BY <1>2, <1>3, <1>4
<1>6. ASSUME NEW i \in c .. r + 1, NEW j \in c .. r + 1, i < j PROVE K[i].x < K[j].x
  <2>1. i \in c .. r
    BY <1>0, <1>6
  <2>2. CASE j = r + 1
    BY <1>2, <1>3, <2>1, <2>2 DEF Behind
  <2>3. CASE j \in c .. r
    <3>1. K[i] = G[i] /\ K[j] = G[j] /\ i \in c .. m /\ j \in c .. m
      BY <1>2, <2>1, <2>3
    <3>2. QED
      BY <3>1, <1>6, HullPoint
  <2>4. QED
    BY <1>4, <2>2, <2>3
<1>7. ASSUME NEW i \in c + 1 .. (r + 1) - 1 PROVE Turn(sigma, K[i - 1], K[i], K[i + 1]) > 0
  <2>1. i \in c .. r /\ i - 1 \in c .. r /\ i \in Nat
    BY <1>0
  <2>2. K[i - 1] = G[i - 1] /\ K[i] = G[i]
    BY <1>2, <2>1
  <2>3. CASE i = r
    BY <1>0, <1>3, <2>2, <2>3 DEF Popped
  <2>4. CASE i # r
    <3>1. i + 1 \in c .. r /\ i \in c + 1 .. m - 1
      BY <1>0, <2>1, <2>4
    <3>2. K[i + 1] = G[i + 1]
      BY <1>2, <3>1
    <3>3. Turn(sigma, G[i - 1], G[i], G[i + 1]) > 0
      BY <3>1 DEF HullOf
    <3>4. QED
      BY <2>2, <3>2, <3>3
  <2>5. QED
    BY <2>3, <2>4
<1>8. QED
  BY ONLY <1>0, <1>1, <1>5, <1>6, <1>7 DEF HullOf

\* a line below b and what is left is below what was there
LEMMA PoppedUnder ==
    ASSUME NEW sigma \in Signs, NEW B, NEW G, NEW c, NEW m, HullOf(sigma, B, G, c, m),
           NEW b \in Points, Behind(B, b), NEW r, Popped(sigma, G, c, m, b, r),
           NEW K, Lengthened(G, c, r, b, K),
           NEW p \in Points, NEW d \in Slopes,
           \A i \in c .. r + 1 : Under(sigma, p, d, K[i])
    PROVE  \A i \in c .. m : Under(sigma, p, d, G[i])
<1>0. r \in c .. m /\ c \in Nat /\ m \in Nat /\ r \in Nat /\ c <= r /\ r <= m
  BY HullPoint DEF Popped
<1>1. ASSUME NEW i \in c .. r PROVE Under(sigma, p, d, G[i])
  <2>1. i \in c .. r + 1 /\ K[i] = G[i]
    BY <1>0 DEF Lengthened
  <2>2. QED
    BY <2>1
<1>2. Under(sigma, p, d, b)
  <2>1. r + 1 \in c .. r + 1 /\ K[r + 1] = b
    BY <1>0 DEF Lengthened
  <2>2. QED
    BY <2>1
<1> DEFINE good == {kk \in Nat : r + kk <= m => Under(sigma, p, d, G[r + kk])}
<1>3. 0 \in good
  <2>1. r \in c .. r /\ r + 0 = r
    BY <1>0
  <2>2. QED
    BY <1>1, <2>1
<1>4. ASSUME NEW kk \in Nat, kk \in good PROVE kk + 1 \in good
  <2>1. CASE r + (kk + 1) <= m
    <3>1. PICK j : j = r + (kk + 1)
      OBVIOUS
    <3>2. /\ j - 1 = r + kk /\ j - 1 \in c .. m /\ j \in c .. m /\ j \in r + 1 .. m
          /\ j - 1 < j /\ r + kk <= m
      BY <1>0, <2>1, <3>1
    <3>3. PICK g, h : g = G[j - 1] /\ h = G[j]
      OBVIOUS
    <3>4. g \in Points /\ h \in Points /\ h \in B /\ g.x < h.x
      BY <3>2, <3>3, HullPoint
    <3>5. h.x < b.x
      BY <3>4 DEF Behind
    <3>6. Turn(sigma, g, h, b) <= 0
      BY <3>2, <3>3 DEF Popped
    <3>7. Under(sigma, p, d, g)
      BY <1>4, <3>2, <3>3
    <3>8. Under(sigma, p, d, h)
      BY <1>2, <3>4, <3>5, <3>6, <3>7, Redundancy
    <3>9. QED
      BY <3>1, <3>3, <3>8
  <2>2. QED
    BY <2>1, <1>4
<1> HIDE DEF good
<1>5. Nat \subseteq good
  BY <1>3, <1>4, AllNaturals
<1>6. ASSUME NEW i \in c .. m, ~ (i <= r) PROVE Under(sigma, p, d, G[i])
  <2>1. i - r \in Nat /\ r + (i - r) = i /\ i <= m
    BY <1>0, <1>6
  <2>2. i - r \in good
    BY <1>5, <2>1
  <2>3. QED
    BY <2>1, <2>2 DEF good
<1>7. ASSUME NEW i \in c .. m PROVE i \in c .. r \/ ~ (i <= r)
  BY <1>0
<1>8. QED
  BY <1>1, <1>6, <1>7
-----------------------------------------------------------------------------
\* a line is below all points of T and above all points of B
Fits(sigma, T, B, p, s) == /\ \A q \in T : Under(sigma, p, s, q)
                           /\ \A q \in B : Under(- sigma, p, s, q)

\* the hull speaks for all points of T, for lines with slopes from s to t
Covers(sigma, T, H, a, n, s, t) ==
    \A p \in Points, d \in Slopes :
        Flatter(sigma, s, d) /\ Flatter(sigma, d, t)
        /\ (\A i \in a .. n : Under(sigma, p, d, H[i])) =>
            \A q \in T : Under(sigma, p, d, q)

(***************************************************************************)
(* The points T and B with their hulls, and the two extreme lines: the     *)
(* flattest from the start of one hull to u, the steepest from the start   *)
(* of the other to v.                                                      *)
(***************************************************************************)
Bounded(sigma, T, B, H, a, n, G, c, m, u, v) ==
    /\ HullOf(sigma, T, H, a, n) /\ HullOf(- sigma, B, G, c, m)
    /\ u \in B /\ v \in T /\ H[a].x < u.x /\ G[c].x < v.x
    /\ Fits(sigma, T, B, H[a], Minus(u, H[a]))
    /\ Fits(sigma, T, B, G[c], Minus(v, G[c]))
    /\ Flatter(sigma, Minus(u, H[a]), Minus(v, G[c]))
    /\ Covers(sigma, T, H, a, n, Minus(u, H[a]), Minus(v, G[c]))
    /\ Covers(- sigma, B, G, c, m, Minus(v, G[c]), Minus(u, H[a]))

\* what it says of points and slopes
LEMMA BoundedTypes ==
    ASSUME NEW sigma \in Signs, NEW T, NEW B, NEW H, NEW a, NEW n, NEW G, NEW c, NEW m,
           NEW u, NEW v, Bounded(sigma, T, B, H, a, n, G, c, m, u, v)
    PROVE  /\ H[a] \in T /\ H[a] \in Points /\ G[c] \in B /\ G[c] \in Points
           /\ u \in Points /\ v \in Points /\ T \in SUBSET Points /\ B \in SUBSET Points
           /\ Minus(u, H[a]) \in Slopes /\ Minus(v, G[c]) \in Slopes
           /\ - sigma \in Signs /\ - (- sigma) = sigma
<1>1. /\ HullOf(sigma, T, H, a, n) /\ HullOf(- sigma, B, G, c, m)
      /\ u \in B /\ v \in T /\ H[a].x < u.x /\ G[c].x < v.x
  BY DEF Bounded
<1>2. T \in SUBSET Points /\ B \in SUBSET Points
  BY <1>1 DEF HullOf
<1>3. H[a] \in T /\ G[c] \in B
  BY <1>1, HullPoint
<1>4. H[a] \in Points /\ G[c] \in Points /\ u \in Points /\ v \in Points
  BY <1>1, <1>2, <1>3
<1>5. PICK A, C : A = H[a] /\ C = G[c]
  OBVIOUS
<1>6. Minus(u, A) \in Slopes /\ Minus(v, C) \in Slopes
  BY <1>1, <1>4, <1>5, SomeSlope, GeometryTypes
<1>7. - sigma \in Signs /\ - (- sigma) = sigma
  BY DEF Signs
<1>8. QED
  BY <1>1, <1>2, <1>3, <1>4, <1>5, <1>6, <1>7

\* upside down
LEMMA BoundedMirrored ==
    ASSUME NEW sigma \in Signs, NEW T, NEW B, NEW H, NEW a, NEW n, NEW G, NEW c, NEW m,
           NEW u, NEW v, Bounded(sigma, T, B, H, a, n, G, c, m, u, v)
    PROVE  Bounded(- sigma, B, T, G, c, m, H, a, n, v, u)
<1>1. PICK tau : tau = - sigma
  OBVIOUS
<1>2. sigma = - tau
  BY <1>1, BoundedTypes
<1>3. PICK s, t : s = Minus(u, H[a]) /\ t = Minus(v, G[c])
  OBVIOUS
<1>4. s \in Slopes /\ t \in Slopes
  BY <1>3, BoundedTypes
<1>5. Flatter(tau, t, s)
  <2>1. Flatter(sigma, s, t)
    BY <1>3 DEF Bounded
  <2>2. Bend(tau, t, s) = Bend(sigma, s, t)
    BY <1>1, <1>4, GeometryTypes, SomePoint
  <2>3. QED
    BY <2>1, <2>2 DEF Flatter
<1>6. /\ HullOf(- tau, T, H, a, n) /\ HullOf(tau, B, G, c, m)
      /\ u \in B /\ v \in T /\ H[a].x < u.x /\ G[c].x < v.x
      /\ Fits(tau, B, T, H[a], Minus(u, H[a])) /\ Fits(tau, B, T, G[c], Minus(v, G[c]))
      /\ Covers(- tau, T, H, a, n, s, t) /\ Covers(tau, B, G, c, m, t, s)
  BY <1>1, <1>2, <1>3 DEF Bounded, Fits
<1>7. QED
  BY ONLY <1>1, <1>3, <1>5, <1>6 DEF Bounded

\* a point between the extreme lines changes nothing
LEMMA BoundedSkips ==
    ASSUME NEW sigma \in Signs, NEW T, NEW B, NEW H, NEW a, NEW n, NEW G, NEW c, NEW m,
           NEW u, NEW v, Bounded(sigma, T, B, H, a, n, G, c, m, u, v),
           NEW b \in Points, Behind(B, b),
           Under(- sigma, H[a], Minus(u, H[a]), b), Under(- sigma, G[c], Minus(v, G[c]), b)
    PROVE  Bounded(sigma, T, B \cup {b}, H, a, n, G, c, m, u, v)
<1>1. PICK A, C, s, t, tau : /\ A = H[a] /\ C = G[c] /\ s = Minus(u, A) /\ t = Minus(v, C)
                             /\ tau = - sigma
  OBVIOUS
<1>2. /\ A \in Points /\ C \in Points /\ s \in Slopes /\ t \in Slopes /\ tau \in Signs
      /\ - tau = sigma /\ u \in B /\ u \in Points /\ A.x < u.x /\ B \in SUBSET Points
  BY <1>1, BoundedTypes DEF Bounded
<1>3. Fits(sigma, T, B, A, s) /\ Fits(sigma, T, B, C, t)
  BY <1>1 DEF Bounded
<1>4. Fits(sigma, T, B \cup {b}, A, s) /\ Fits(sigma, T, B \cup {b}, C, t)
  BY <1>1, <1>3 DEF Fits
<1>5. HullOf(tau, B \cup {b}, G, c, m)
  <2>1. HullOf(tau, B, G, c, m)
    BY <1>1 DEF Bounded
  <2>2. QED
    BY <2>1 DEF HullOf
<1>6. Covers(tau, B \cup {b}, G, c, m, t, s)
  <2>1. Covers(tau, B, G, c, m, t, s)
    BY <1>1 DEF Bounded
  <2>2. ASSUME NEW p \in Points, NEW d \in Slopes, Flatter(tau, t, d), Flatter(tau, d, s),
               \A i \in c .. m : Under(tau, p, d, G[i])
        PROVE  \A q \in B \cup {b} : Under(tau, p, d, q)
    <3>1. \A q \in B : Under(tau, p, d, q)
      BY <2>1, <2>2 DEF Covers
    <3>2. Under(tau, p, d, u)
      BY <1>2, <3>1
    <3>3. Under(- tau, A, s, u)
      <4>1. Side(sigma, A, s, u) = 0
        BY <1>1, <1>2, TwoPoints
      <4>2. QED
        BY <1>2, <4>1 DEF Under
    <3>4. Under(tau, A, s, b)
      BY <1>1
    <3>5. b.x >= u.x
      BY <1>2 DEF Behind, Points
    <3>6. Under(tau, p, d, b)
      BY <1>2, <2>2, <3>2, <3>3, <3>4, <3>5, Pivot
    <3>7. QED
      BY <3>1, <3>6
  <2>3. QED
    BY <2>2 DEF Covers
<1>7. /\ HullOf(sigma, T, H, a, n) /\ u \in B \cup {b} /\ v \in T /\ H[a].x < u.x /\ G[c].x < v.x
      /\ Flatter(sigma, s, t) /\ Covers(sigma, T, H, a, n, s, t)
  BY <1>1 DEF Bounded
<1>8. QED
  BY ONLY <1>1, <1>4, <1>5, <1>6, <1>7 DEF Bounded

(***************************************************************************)
(* A point beyond the extreme line of its side: the line turns about the   *)
(* other hull until it passes through the point, which joins its own hull. *)
(***************************************************************************)
LEMMA BoundedRaised ==
    ASSUME NEW sigma \in Signs, NEW T, NEW B, NEW H, NEW a, NEW n, NEW G, NEW c, NEW m,
           NEW u, NEW v, Bounded(sigma, T, B, H, a, n, G, c, m, u, v),
           NEW b \in Points, Behind(B, b), Ahead(sigma, T, b),
           Side(sigma, H[a], Minus(u, H[a]), b) > 0,
           Under(- sigma, G[c], Minus(v, G[c]), b),
           NEW e, Tangent(sigma, H, a, n, b, e),
           NEW r, Popped(- sigma, G, c, m, b, r),
           NEW K, Lengthened(G, c, r, b, K)
    PROVE  Bounded(sigma, T, B \cup {b}, H, e, n, K, c, r + 1, b, v)
<1>1. PICK A, C, E, s, t, w, tau : /\ A = H[a] /\ C = G[c] /\ E = H[e] /\ s = Minus(u, A)
                                   /\ t = Minus(v, C) /\ w = Minus(b, E) /\ tau = - sigma
  OBVIOUS
<1>2. /\ A \in Points /\ C \in Points /\ s \in Slopes /\ t \in Slopes /\ tau \in Signs
      /\ - tau = sigma /\ u \in B /\ u \in Points /\ A.x < u.x /\ B \in SUBSET Points
      /\ T \in SUBSET Points /\ v \in T /\ C.x < v.x
  BY <1>1, BoundedTypes DEF Bounded
<1>3. /\ HullOf(sigma, T, H, a, n) /\ HullOf(tau, B, G, c, m)
      /\ Fits(sigma, T, B, A, s) /\ Fits(sigma, T, B, C, t) /\ Flatter(sigma, s, t)
      /\ Covers(sigma, T, H, a, n, s, t) /\ Covers(tau, B, G, c, m, t, s)
  BY <1>1 DEF Bounded
<1>4. /\ e \in a .. n /\ a \in a .. e /\ a \in Nat /\ n \in Nat /\ e \in Nat
      /\ r \in c .. m /\ c \in Nat /\ m \in Nat /\ r \in Nat
  BY <1>3, HullPoint DEF Tangent, Popped
<1>5. E \in T /\ E \in Points
  BY <1>1, <1>3, <1>4, HullPoint
<1>6. A.x < b.x
  <2>1. u.x < b.x
    BY <1>2 DEF Behind
  <2>2. QED
    BY <1>2, <2>1 DEF Points
<1>7. E.x < b.x
  BY <1>1, <1>3, <1>6, TangentFront
<1>8. w \in Slopes
  BY <1>1, <1>5, <1>7, SomeSlope, GeometryTypes
<1>9. Flatter(sigma, s, w)
  <2>1. PICK z : z = Minus(b, A)
    OBVIOUS
  <2>2. z \in Slopes /\ Flatter(sigma, z, w)
    BY <1>1, <1>3, <1>4, <1>7, <2>1, TangentSlope
  <2>3. Flatter(sigma, s, z)
    <3>1. Bend(sigma, s, z) = Side(sigma, A, s, b)
      BY <1>2, <2>1 DEF Bend, Side, Minus
    <3>2. Side(sigma, A, s, b) > 0 /\ Side(sigma, A, s, b) \in Int
      BY <1>1, <1>2, GeometryTypes
    <3>3. QED
      BY <3>1, <3>2 DEF Flatter
  <2>4. QED
    BY <1>2, <1>8, <2>2, <2>3, FlatterOrder
<1>10. Flatter(sigma, w, t)
  <2>1. Under(sigma, C, t, E)
    BY <1>3, <1>5 DEF Fits
  <2>2. Under(tau, C, t, b)
    BY <1>1
  <2>3. QED
    BY <1>1, <1>2, <1>5, <1>7, <2>1, <2>2, SlopeBetween
<1>11. /\ Bend(tau, w, s) = Bend(sigma, s, w) /\ Bend(tau, t, w) = Bend(sigma, w, t)
  BY <1>1, <1>2, <1>8, SomePoint, GeometryTypes
<1>12. Flatter(tau, w, s) /\ Flatter(tau, t, w)
  BY <1>9, <1>10, <1>11 DEF Flatter
<1>13. /\ Side(sigma, E, w, E) = 0 /\ Side(tau, E, w, E) = 0
       /\ Side(sigma, E, w, b) = 0 /\ Side(tau, E, w, b) = 0
  BY <1>1, <1>2, <1>5, <1>7, TwoPoints
<1>14. \A q \in T : Under(sigma, E, w, q)
  <2>1. \A i \in a .. n : Under(sigma, E, w, H[i])
    BY <1>1, <1>3, <1>7, TangentUnder
  <2>2. QED
    BY <1>3, <1>5, <1>8, <1>9, <1>10, <2>1 DEF Covers
<1>15. \A q \in B \cup {b} : Under(tau, E, w, q)
  <2>1. ASSUME NEW q \in B PROVE Under(tau, E, w, q)
    <3>1. Under(tau, A, s, q) /\ Under(tau, C, t, q)
      BY <1>1, <1>3 DEF Fits
    <3>2. Under(sigma, A, s, E) /\ Under(sigma, C, t, E)
      BY <1>3, <1>5 DEF Fits
    <3>3. Under(tau, E, w, E)
      BY <1>13 DEF Under
    <3>4. q \in Points
      BY <1>2
    <3>5. CASE q.x >= E.x
      BY <1>2, <1>5, <1>8, <1>12, <3>1, <3>2, <3>3, <3>4, <3>5, Pivot
    <3>6. CASE q.x <= E.x
      BY <1>2, <1>5, <1>8, <1>12, <3>1, <3>2, <3>3, <3>4, <3>6, Pivot
    <3>7. QED
      BY <1>5, <3>4, <3>5, <3>6 DEF Points
  <2>2. Under(tau, E, w, b)
    BY <1>13 DEF Under
  <2>3. QED
    BY <2>1, <2>2
<1>16. Fits(sigma, T, B \cup {b}, E, w)
  BY <1>1, <1>14, <1>15 DEF Fits
<1>17. Fits(sigma, T, B \cup {b}, C, t)
  BY <1>1, <1>3 DEF Fits
<1>18. Covers(sigma, T, H, e, n, w, t)
  <2>1. ASSUME NEW p \in Points, NEW d \in Slopes, Flatter(sigma, w, d), Flatter(sigma, d, t),
               \A i \in e .. n : Under(sigma, p, d, H[i])
        PROVE  \A q \in T : Under(sigma, p, d, q)
    <3>1. Flatter(sigma, s, d)
      BY <1>2, <1>8, <1>9, <2>1, FlatterOrder
    <3>2. Under(sigma, p, d, E)
      BY <1>1, <1>4, <2>1
    <3>3. ASSUME NEW i \in a .. n PROVE Under(sigma, p, d, H[i])
      <4>1. CASE i >= e
        BY <1>4, <2>1, <4>1
      <4>2. CASE i <= e
        <5>1. PICK q : q = H[i]
          OBVIOUS
        <5>2. q \in T /\ q \in Points /\ q.x <= E.x
          BY <1>1, <1>3, <1>4, <4>2, <5>1, HullPoint
        <5>3. Under(sigma, E, w, q)
          BY <1>14, <5>2
        <5>4. Under(- sigma, E, w, E)
          BY <1>1, <1>13 DEF Under
        <5>5. Under(sigma, p, d, q)
          BY <1>5, <1>8, <2>1, <3>2, <5>2, <5>3, <5>4, Pivot
        <5>6. QED
          BY <5>1, <5>5
      <4>3. QED
        BY <1>4, <4>1, <4>2
    <3>4. QED
      BY <1>3, <2>1, <3>1, <3>3 DEF Covers
  <2>2. QED
    BY <2>1 DEF Covers
<1>19. Covers(tau, B \cup {b}, K, c, r + 1, t, w)
  <2>1. ASSUME NEW p \in Points, NEW d \in Slopes, Flatter(tau, t, d), Flatter(tau, d, w),
               \A i \in c .. r + 1 : Under(tau, p, d, K[i])
        PROVE  \A q \in B \cup {b} : Under(tau, p, d, q)
    <3>1. Flatter(tau, d, s)
      BY <1>2, <1>8, <1>12, <2>1, FlatterOrder
    <3>2. \A i \in c .. m : Under(tau, p, d, G[i])
      BY <1>1, <1>2, <1>3, <2>1, PoppedUnder
    <3>3. \A q \in B : Under(tau, p, d, q)
      BY <1>3, <2>1, <3>1, <3>2 DEF Covers
    <3>4. Under(tau, p, d, b)
      <4>1. r + 1 \in c .. r + 1 /\ K[r + 1] = b
        BY <1>4 DEF Lengthened
      <4>2. QED
        BY <2>1, <4>1
    <3>5. QED
      BY <3>3, <3>4
  <2>2. QED
    BY <2>1 DEF Covers
<1>20. HullOf(sigma, T, H, e, n)
  <2>1. /\ e \in Nat /\ n \in Nat /\ e <= n /\ T \in SUBSET Points
        /\ e .. n \subseteq a .. n /\ e + 1 .. n - 1 \subseteq a + 1 .. n - 1
    BY <1>2, <1>4
  <2>2. QED
    BY <1>3, <2>1 DEF HullOf
<1>21. HullOf(tau, B \cup {b}, K, c, r + 1)
  BY <1>1, <1>2, <1>3, PoppedHull
<1>22. K[c] = C
  BY <1>1, <1>4 DEF Lengthened
<1>23. QED
  BY ONLY <1>1, <1>2, <1>7, <1>10, <1>16, <1>17, <1>18, <1>19, <1>20, <1>21, <1>22 DEF Bounded

\* the lines through two bars
LEMMA BoundedPair ==
    ASSUME NEW t1 \in Points, NEW b1 \in Points, NEW t2 \in Points, NEW b2 \in Points,
           t1.x = b1.x, t2.x = b2.x, t1.x < t2.x, b1.y <= t1.y, b2.y <= t2.y,
           NEW H, H[1] = t1, H[2] = t2, NEW G, G[1] = b1, G[2] = b2
    PROVE  Bounded(1, {t1, t2}, {b1, b2}, H, 1, 2, G, 1, 2, b2, t2)
<1>1. PICK s, t : s = Minus(b2, t1) /\ t = Minus(t2, b1)
  OBVIOUS
<1>2. /\ 1 \in Signs /\ - 1 \in Signs
      /\ 1 .. 2 = {1, 2} /\ 1 + 1 .. 2 - 1 = {} /\ 1 < 2 /\ 1 <= 2
  <2>1. 1 \in Signs /\ - 1 \in Signs
    BY DEF Signs
  <2>2. 1 < 2 /\ 1 <= 2
    OBVIOUS
  <2>3. 1 .. 2 = {1, 2}
    OBVIOUS
  <2>4. 1 + 1 .. 2 - 1 = {}
    OBVIOUS
  <2>5. QED
    BY ONLY <2>1, <2>2, <2>3, <2>4
<1>3. /\ t1.x \in Int /\ t2.x \in Int /\ t1.y \in Int /\ t2.y \in Int
      /\ b1.x \in Int /\ b2.x \in Int /\ b1.y \in Int /\ b2.y \in Int
  BY DEF Points
<1>4. t1.x < b2.x /\ b1.x < t2.x /\ b1.x < b2.x
  BY <1>3
<1>5. s \in Slopes /\ t \in Slopes
  BY <1>1, <1>2, <1>4, SomeSlope, GeometryTypes
<1>6. HullOf(1, {t1, t2}, H, 1, 2) /\ HullOf(- 1, {b1, b2}, G, 1, 2)
  <2>1. /\ \A i \in 1 .. 2 : H[i] \in {t1, t2} /\ G[i] \in {b1, b2}
        /\ {t1, t2} \in SUBSET Points /\ {b1, b2} \in SUBSET Points
    BY <1>2
  <2>2. ASSUME NEW i \in 1 .. 2, NEW j \in 1 .. 2, i < j
        PROVE  H[i].x < H[j].x /\ G[i].x < G[j].x
    <3>1. i = 1 /\ j = 2
      BY <2>2
    <3>2. QED
      BY <3>1, <1>4
  <2>3. QED
    BY <1>2, <2>1, <2>2 DEF HullOf
<1>7. PICK f, g, h : f = t2.x - t1.x /\ g = t1.y - b1.y /\ h = t2.y - b2.y
  OBVIOUS
<1>8. f \in Int /\ f > 0 /\ g \in Int /\ g >= 0 /\ h \in Int /\ h >= 0
  BY <1>3, <1>7
<1>9. f * g \in Int /\ f * g >= 0 /\ f * h \in Int /\ f * h >= 0
  BY <1>8, ProductSign
<1>10. /\ Side(1, t1, s, t1) = 0 /\ Side(1, t1, s, t2) = f * h
       /\ Side(- 1, t1, s, b1) = f * g /\ Side(- 1, t1, s, b2) = 0
       /\ Side(1, b1, t, t1) = f * g /\ Side(1, b1, t, t2) = 0
       /\ Side(- 1, b1, t, b1) = 0 /\ Side(- 1, b1, t, b2) = f * h
  <2>1. /\ s.dx = f /\ s.dy = b2.y - t1.y /\ t.dx = f /\ t.dy = t2.y - b1.y
    BY <1>1, <1>7 DEF Minus
  <2>2. ASSUME NEW kk \in Int, NEW p \in Int, NEW q \in Int
        PROVE  /\ 1 * (kk * (p - p) - q * 0) = 0 /\ - 1 * (kk * (p - p) - q * 0) = 0
               /\ 1 * (kk * (p - q) - (p - q) * kk) = 0
               /\ - 1 * (kk * (p - q) - (p - q) * kk) = 0
    OBVIOUS
  <2>3. ASSUME NEW kk \in Int, NEW p \in Int, NEW q \in Int, NEW o \in Int
        PROVE  /\ 1 * (kk * (p - q) - (o - q) * kk) = kk * (p - o)
               /\ - 1 * (kk * (p - q) - (o - q) * kk) = kk * (o - p)
    OBVIOUS
  <2>4. ASSUME NEW kk \in Int, NEW p \in Int, NEW q \in Int, NEW o \in Int
        PROVE  /\ 1 * (kk * (p - q) - o * 0) = kk * (p - q)
               /\ - 1 * (kk * (p - q) - o * 0) = kk * (q - p)
    OBVIOUS
  <2>5. Side(1, t1, s, t1) = 0
    BY <1>3, <1>8, <2>1, <2>2 DEF Side
  <2>6. Side(1, t1, s, t2) = f * h
    BY <1>3, <1>7, <1>8, <2>1, <2>3 DEF Side
  <2>7. Side(- 1, t1, s, b1) = f * g
    BY <1>3, <1>7, <1>8, <2>1, <2>4 DEF Side
  <2>8. Side(- 1, t1, s, b2) = 0
    BY <1>3, <1>7, <1>8, <2>1, <2>2 DEF Side
  <2>9. Side(1, b1, t, t1) = f * g
    BY <1>3, <1>7, <1>8, <2>1, <2>4 DEF Side
  <2>10. Side(1, b1, t, t2) = 0
    BY <1>3, <1>7, <1>8, <2>1, <2>2 DEF Side
  <2>11. Side(- 1, b1, t, b1) = 0
    BY <1>3, <1>8, <2>1, <2>2 DEF Side
  <2>12. Side(- 1, b1, t, b2) = f * h
    BY <1>3, <1>7, <1>8, <2>1, <2>3 DEF Side
  <2>13. QED
    BY ONLY <2>5, <2>6, <2>7, <2>8, <2>9, <2>10, <2>11, <2>12
<1>11. Fits(1, {t1, t2}, {b1, b2}, t1, s) /\ Fits(1, {t1, t2}, {b1, b2}, b1, t)
  BY <1>9, <1>10 DEF Fits, Under
<1>12. Flatter(1, s, t)
  <2>1. Bend(1, s, t) = f * g + f * h
    BY <1>1, <1>3, <1>7 DEF Bend, Minus
  <2>2. QED
    BY <1>9, <2>1 DEF Flatter
<1>13. Covers(1, {t1, t2}, H, 1, 2, s, t) /\ Covers(- 1, {b1, b2}, G, 1, 2, t, s)
  BY <1>2 DEF Covers
<1>14. b2 \in {b1, b2} /\ t2 \in {t1, t2}
  OBVIOUS
<1>15. QED
  BY ONLY <1>1, <1>4, <1>6, <1>11, <1>12, <1>13, <1>14, H[1] = t1, G[1] = b1 DEF Bounded

-----------------------------------------------------------------------------
(* What the searches of the code return. *)
LEMMA MaxIs ==
    ASSUME NEW S \in SUBSET Nat, S # {}, NEW n \in Nat, \A kk \in S : kk <= n
    PROVE  Max(S) \in S /\ Max(S) \in Nat /\ \A kk \in S : kk <= Max(S)
<1>1. PICK kk \in S : \A l \in S : l <= kk
  BY GreatestOf
<1>2. \E x \in S : \A y \in S : x >= y
  BY <1>1
<1>3. Max(S) \in S /\ \A y \in S : Max(S) >= y
  BY <1>2 DEF Max
<1>4. QED
  BY <1>3

TangentEnds(sigma, H, a, n, b) ==
    {e \in a .. n : \A i \in a + 1 .. e : ~ (Turn(sigma, H[i - 1], H[i], b) < 0)}

\* the last point up to which no slope gets worse is the tangent's
LEMMA TangentFound ==
    ASSUME NEW sigma \in Signs, NEW T, NEW H, NEW a, NEW n, HullOf(sigma, T, H, a, n),
           NEW b \in Points
    PROVE  Tangent(sigma, H, a, n, b, Max(TangentEnds(sigma, H, a, n, b)))
<1> DEFINE S == TangentEnds(sigma, H, a, n, b)
<1>0. a \in Nat /\ n \in Nat /\ a <= n /\ a \in a .. n
  BY HullPoint
<1>1. S \in SUBSET Nat /\ a \in S /\ \A kk \in S : kk <= n
  BY <1>0 DEF TangentEnds
<1>2. PICK e : e = Max(S)
  OBVIOUS
<1> HIDE DEF S
<1>3. e \in S /\ e \in Nat /\ \A kk \in S : kk <= e
  BY <1>0, <1>1, <1>2, MaxIs
<1>4. e \in a .. n /\ \A i \in a + 1 .. e : ~ (Turn(sigma, H[i - 1], H[i], b) < 0)
  BY <1>3 DEF S, TangentEnds
<1>5. ASSUME NEW i \in a + 1 .. n PROVE Turn(sigma, H[i - 1], H[i], b) \in Int
  <2>1. i - 1 \in a .. n /\ i \in a .. n
    BY <1>0
  <2>2. PICK A, B : A = H[i - 1] /\ B = H[i]
    OBVIOUS
  <2>3. A \in Points /\ B \in Points
    BY <2>1, <2>2, HullPoint
  <2>4. Turn(sigma, A, B, b) \in Int
    BY <2>3, SomeSlope, GeometryTypes
  <2>5. QED
    BY <2>2, <2>4
<1>6. ASSUME NEW i \in a + 1 .. e PROVE Turn(sigma, H[i - 1], H[i], b) >= 0
  <2>1. i \in a + 1 .. n
    BY <1>0, <1>4
  <2>2. QED
    BY <1>4, <1>5, <2>1
<1>7. ASSUME e < n PROVE Turn(sigma, H[e], H[e + 1], b) < 0
  <2>1. e + 1 \in a .. n /\ e + 1 \notin S
    BY <1>0, <1>3, <1>4, <1>7
  <2>2. PICK i \in a + 1 .. e + 1 : Turn(sigma, H[i - 1], H[i], b) < 0
    BY <2>1 DEF S, TangentEnds
  <2>3. i \in a + 1 .. e \/ i = e + 1
    BY <1>0, <1>3
  <2>4. i = e + 1
    BY <1>4, <2>2, <2>3
  <2>5. i - 1 = e
    BY <1>3, <2>4
  <2>6. QED
    BY <2>2, <2>4, <2>5
<1>8. QED
  BY <1>2, <1>4, <1>6, <1>7 DEF Tangent, S

HullEnds(sigma, G, c, m, b) ==
    {e \in 0 .. m : e < c + 1 \/ ~ (Turn(sigma, G[e - 1], G[e], b) <= 0)}

\* the last point up to which the hull stays convex is where it is cut
LEMMA PoppedFound ==
    ASSUME NEW sigma \in Signs, NEW B, NEW G, NEW c, NEW m, HullOf(sigma, B, G, c, m),
           NEW b \in Points
    PROVE  Popped(sigma, G, c, m, b, Max(HullEnds(sigma, G, c, m, b)))
<1> DEFINE S == HullEnds(sigma, G, c, m, b)
<1>0. c \in Nat /\ m \in Nat /\ c <= m
  BY HullPoint
<1>1. S \in SUBSET Nat /\ c \in S /\ \A kk \in S : kk <= m
  BY <1>0 DEF HullEnds
<1>2. PICK r : r = Max(S)
  OBVIOUS
<1> HIDE DEF S
<1>3. r \in S /\ r \in Nat /\ \A kk \in S : kk <= r
  BY <1>0, <1>1, <1>2, MaxIs
<1>4. r \in 0 .. m /\ (r < c + 1 \/ ~ (Turn(sigma, G[r - 1], G[r], b) <= 0)) /\ c <= r
  BY <1>1, <1>3 DEF S, HullEnds
<1>5. r \in c .. m
  BY <1>0, <1>4
<1>6. ASSUME r > c PROVE Turn(sigma, G[r - 1], G[r], b) > 0
  <2>1. r - 1 \in c .. m /\ r \in c .. m /\ ~ (r < c + 1)
    BY <1>0, <1>4, <1>6
  <2>2. PICK A, C : A = G[r - 1] /\ C = G[r]
    OBVIOUS
  <2>3. A \in Points /\ C \in Points
    BY <2>1, <2>2, HullPoint
  <2>4. Turn(sigma, A, C, b) \in Int
    BY <2>3, SomeSlope, GeometryTypes
  <2>5. ~ (Turn(sigma, A, C, b) <= 0)
    BY <1>4, <2>1, <2>2
  <2>6. QED
    BY <2>2, <2>4, <2>5
<1>7. ASSUME NEW kk \in r + 1 .. m PROVE Turn(sigma, G[kk - 1], G[kk], b) <= 0
  <2>1. kk \in 0 .. m /\ ~ (kk <= r)
    BY <1>0, <1>3
  <2>2. kk \notin S
    BY <1>3, <2>1
  <2>3. QED
    BY <2>1, <2>2 DEF S, HullEnds
<1>8. QED
  BY <1>2, <1>5, <1>6, <1>7 DEF Popped, S

-----------------------------------------------------------------------------
(* The two halves of add_point. *)
LEMMA Negative == - 1 \in Signs /\ 1 \in Signs
  BY DEF Signs

\* the sign of what lies above
LEMMA MinusOne ==
    ASSUME NEW tau, tau = - 1
    PROVE  tau \in Signs /\ - tau = 1 /\ tau \in Int
<1>1. tau \in Int /\ tau + 1 = 0
  OBVIOUS
<1>2. - tau = 1
  BY ONLY <1>1
<1>3. tau \in Signs
  BY DEF Signs
<1>4. QED
  BY <1>1, <1>2, <1>3

\* a bar's upper end that is below the steepest line
LEMMA LowerTurns ==
    ASSUME NEW T, NEW B, NEW U, NEW us, NEW nu, NEW L, NEW ls, NEW nl, NEW r3, NEW r4,
           Bounded(1, T, B, U, us, nu, L, ls, nl, r3, r4),
           NEW p \in Points, Behind(T, p), Behind(B, p),
           Side(1, U[us], Minus(r3, U[us]), p) >= 0,
           Side(1, L[ls], Minus(r4, L[ls]), p) < 0,
           NEW e, Tangent(- 1, L, ls, nl, p, e), NEW r, Popped(1, U, us, nu, p, r),
           NEW K, Lengthened(U, us, r, p, K)
    PROVE  Bounded(1, T \cup {p}, B, K, us, r + 1, L, e, nl, r3, p)
<1>1. PICK tau : tau = - 1
  OBVIOUS
<1>2. tau \in Signs /\ - tau = 1
  BY <1>1, MinusOne
<1>3. Bounded(tau, B, T, L, ls, nl, U, us, nu, r4, r3)
  BY <1>1, Negative, BoundedMirrored
<1>4. PICK A, C, s, t : A = U[us] /\ C = L[ls] /\ s = Minus(r3, A) /\ t = Minus(r4, C)
  OBVIOUS
<1>5. A \in Points /\ C \in Points /\ s \in Slopes /\ t \in Slopes
  BY <1>4, Negative, BoundedTypes
<1>6. Side(tau, C, t, p) > 0
  <2>1. Side(1, C, t, p) < 0
    BY <1>4
  <2>2. Side(tau, C, t, p) = - Side(1, C, t, p) /\ Side(1, C, t, p) \in Int
    BY <1>1, <1>5, Negative, GeometryTypes
  <2>3. QED
    BY <2>1, <2>2
<1>7. Under(- tau, A, s, p)
  BY <1>2, <1>4 DEF Under
<1>8. Ahead(tau, B, p)
  BY DEF Ahead, Behind
<1>9. Tangent(tau, L, ls, nl, p, e) /\ Popped(- tau, U, us, nu, p, r)
  BY <1>1, <1>2
<1>10. Bounded(tau, B, T \cup {p}, L, e, nl, K, us, r + 1, p, r3)
  BY <1>2, <1>3, <1>4, <1>6, <1>7, <1>8, <1>9, BoundedRaised
<1>11. Bounded(- tau, T \cup {p}, B, K, us, r + 1, L, e, nl, r3, p)
  BY <1>2, <1>10, BoundedMirrored
<1>12. QED
  BY <1>2, <1>11

\* one that is not
LEMMA LowerSkips ==
    ASSUME NEW T, NEW B, NEW U, NEW us, NEW nu, NEW L, NEW ls, NEW nl, NEW r3, NEW r4,
           Bounded(1, T, B, U, us, nu, L, ls, nl, r3, r4),
           NEW p \in Points, Behind(T, p),
           Side(1, U[us], Minus(r3, U[us]), p) >= 0,
           Side(1, L[ls], Minus(r4, L[ls]), p) >= 0
    PROVE  Bounded(1, T \cup {p}, B, U, us, nu, L, ls, nl, r3, r4)
<1>1. PICK tau : tau = - 1
  OBVIOUS
<1>2. tau \in Signs /\ - tau = 1
  BY <1>1, MinusOne
<1>3. Bounded(tau, B, T, L, ls, nl, U, us, nu, r4, r3)
  BY <1>1, Negative, BoundedMirrored
<1>4. Under(- tau, U[us], Minus(r3, U[us]), p) /\ Under(- tau, L[ls], Minus(r4, L[ls]), p)
  BY <1>2 DEF Under
<1>5. Bounded(tau, B, T \cup {p}, L, ls, nl, U, us, nu, r4, r3)
  BY <1>2, <1>3, <1>4, BoundedSkips
<1>6. Bounded(- tau, T \cup {p}, B, U, us, nu, L, ls, nl, r3, r4)
  BY <1>2, <1>5, BoundedMirrored
<1>7. QED
  BY <1>2, <1>6

\* comparisons of slopes, as the code makes them
LEMMA Comparisons ==
    ASSUME NEW p \in Points, NEW r \in Points, NEW s \in Slopes
    PROVE  /\ SlopeLess(Minus(p, r), s) <=> Side(1, r, s, p) < 0
           /\ SlopeLess(s, Minus(p, r)) <=> Side(1, r, s, p) > 0
           /\ Side(1, r, s, p) \in Int /\ Side(- 1, r, s, p) = - Side(1, r, s, p)
<1>1. Side(1, r, s, p) \in Int /\ Side(- 1, r, s, p) = - Side(1, r, s, p)
  BY Negative, GeometryTypes
<1>2. PICK f, g : f = s.dx * (p.y - r.y) /\ g = s.dy * (p.x - r.x)
  OBVIOUS
<1>3. f \in Int /\ g \in Int
  BY <1>2 DEF Points, Slopes
<1>4. Side(1, r, s, p) = f - g
  BY <1>2, <1>3 DEF Side
<1>5. (p.y - r.y) * s.dx = f /\ (p.x - r.x) * s.dy = g /\ s.dy * (p.x - r.x) = g
      /\ s.dx * (p.y - r.y) = f
  BY <1>2 DEF Points, Slopes
<1>6. SlopeLess(Minus(p, r), s) <=> f < g
  BY <1>5 DEF SlopeLess, Minus
<1>7. SlopeLess(s, Minus(p, r)) <=> g < f
  BY <1>5 DEF SlopeLess, Minus
<1>8. QED
  BY <1>1, <1>3, <1>4, <1>6, <1>7

\* the comparisons of slopes in the code, as turns
LEMMA TangentComparison ==
    ASSUME NEW A \in Points, NEW C \in Points, NEW b \in Points
    PROVE  /\ SlopeLess(Minus(C, b), Minus(A, b)) <=> Turn(1, A, C, b) < 0
           /\ SlopeLess(Minus(A, b), Minus(C, b)) <=> Turn(- 1, A, C, b) < 0
           /\ Turn(1, A, C, b) = cross(A, C, b) /\ Turn(- 1, A, C, b) = - cross(A, C, b)
           /\ cross(A, C, b) \in Int
<1>1. PICK f, g, h, kk : f = A.x - b.x /\ g = A.y - b.y /\ h = C.x - b.x /\ kk = C.y - b.y
  OBVIOUS
<1>2. f \in Int /\ g \in Int /\ h \in Int /\ kk \in Int
  BY <1>1 DEF Points
<1>3. /\ C.x - A.x = h - f /\ b.y - A.y = - g /\ C.y - A.y = kk - g /\ b.x - A.x = - f
  BY <1>1 DEF Points
<1>4. cross(A, C, b) = (h - f) * (- g) - (kk - g) * (- f)
  BY <1>3 DEF cross, Minus
<1>5. (h - f) * (- g) - (kk - g) * (- f) = kk * f - h * g
  BY <1>2
<1>6. kk * f \in Int /\ h * g \in Int /\ kk * f = f * kk /\ h * g = g * h
  BY <1>2
<1>7. SlopeLess(Minus(C, b), Minus(A, b)) <=> kk * f < h * g
  BY <1>1 DEF SlopeLess, Minus
<1>8. SlopeLess(Minus(A, b), Minus(C, b)) <=> g * h < f * kk
  BY <1>1 DEF SlopeLess, Minus
<1>9. cross(A, C, b) = kk * f - h * g
  BY <1>4, <1>5
<1>10. cross(A, C, b) \in Int
  BY <1>6, <1>9
<1>11. Turn(1, A, C, b) = cross(A, C, b) /\ Turn(- 1, A, C, b) = - cross(A, C, b)
  BY <1>10 DEF Turn
<1>12. QED
  BY <1>6, <1>7, <1>8, <1>9, <1>10, <1>11

-----------------------------------------------------------------------------
(***************************************************************************)
(* The fields of the class while there are points in the hulls, and what   *)
(* they mean once there are two: T and B are the upper and the lower ends  *)
(* of all bars seen.                                                       *)
(***************************************************************************)
Models == [points_in_hull : Nat, last_x : Int, first : [x : Int, y : Nat],
           rectangle : Seq(Points), lower : Seq(Points), lower_start : Nat,
           upper : Seq(Points), upper_start : Nat]

Fitted(mod, T, B) ==
    /\ mod \in Models
    /\ Len(mod.rectangle) = 4
    /\ mod.upper_start >= 1 /\ mod.lower_start >= 1
    /\ mod.rectangle[1] = mod.upper[mod.upper_start]
    /\ mod.rectangle[2] = mod.lower[mod.lower_start]
    /\ Bounded(1, T, B, mod.upper, mod.upper_start, Len(mod.upper),
               mod.lower, mod.lower_start, Len(mod.lower), mod.rectangle[3], mod.rectangle[4])

\* a hull cut and lengthened
LEMMA HullSequence ==
    ASSUME NEW H \in Seq(Points), NEW r \in 1 .. Len(H), NEW p \in Points, NEW a \in 1 .. r
    PROVE  /\ Append(SubSeq(H, 1, r), p) \in Seq(Points)
           /\ Len(Append(SubSeq(H, 1, r), p)) = r + 1
           /\ Lengthened(H, a, r, p, Append(SubSeq(H, 1, r), p))
<1>1. PICK S : S = SubSeq(H, 1, r)
  OBVIOUS
<1>2. r \in Nat /\ 1 <= r /\ r <= Len(H) /\ Len(H) \in Nat
  BY LenProperties
<1>3. S \in Seq(Points) /\ Len(S) = r /\ \A i \in 1 .. r : S[i] = H[i]
  <2>1. S \in Seq(Points) /\ Len(S) = (IF 1 <= r THEN r - 1 + 1 ELSE 0)
        /\ \A i \in 1 .. r - 1 + 1 : S[i] = H[1 + i - 1]
    BY <1>1, <1>2, SubSeqProperties
  <2>2. Len(S) = r /\ r - 1 + 1 = r
    BY <1>2, <2>1
  <2>3. ASSUME NEW i \in 1 .. r PROVE S[i] = H[i]
    <3>1. 1 + i - 1 = i
      BY <1>2
    <3>2. QED
      BY <2>1, <2>2, <3>1
  <2>4. QED
    BY <2>1, <2>2, <2>3
<1>4. PICK K : K = Append(S, p)
  OBVIOUS
<1>5. K \in Seq(Points) /\ Len(K) = r + 1 /\ K[r + 1] = p /\ \A i \in 1 .. r : K[i] = S[i]
  BY <1>3, <1>4, AppendProperties
<1>6. ASSUME NEW i \in a .. r PROVE K[i] = H[i]
  <2>1. i \in 1 .. r
    BY <1>2
  <2>2. QED
    BY <1>3, <1>5, <2>1
<1>7. QED
  BY <1>1, <1>4, <1>5, <1>6 DEF Lengthened

\* what the code searches for
LEMMA ExtremeUpper ==
    ASSUME NEW T, NEW H, NEW a, NEW n, HullOf(1, T, H, a, n), n = Len(H), NEW b \in Points
    PROVE  Tangent(1, H, a, n, b, Extreme(H, a, b, SlopeLess))
<1>1. a \in Nat /\ n \in Nat
  BY HullPoint
<1>2. ASSUME NEW i \in a + 1 .. n
      PROVE  SlopeLess(Minus(H[i], b), Minus(H[i - 1], b)) <=> Turn(1, H[i - 1], H[i], b) < 0
  <2>1. i \in a .. n /\ i - 1 \in a .. n
    BY <1>1
  <2>2. H[i] \in Points /\ H[i - 1] \in Points
    BY <2>1, HullPoint
  <2>3. QED
    BY <2>2, TangentComparison
<1>3. {e \in a .. Len(H) : \A i \in a + 1 .. e :
          ~ SlopeLess(Minus(H[i], b), Minus(H[i - 1], b))} = TangentEnds(1, H, a, n, b)
  <2>1. ASSUME NEW e \in a .. n
        PROVE  (\A i \in a + 1 .. e : ~ SlopeLess(Minus(H[i], b), Minus(H[i - 1], b)))
               <=> (\A i \in a + 1 .. e : ~ (Turn(1, H[i - 1], H[i], b) < 0))
    <3>1. \A i \in a + 1 .. e : i \in a + 1 .. n
      BY <1>1
    <3>2. QED
      BY <1>2, <3>1
  <2>2. QED
    BY <2>1 DEF TangentEnds
<1>4. Extreme(H, a, b, SlopeLess) = Max(TangentEnds(1, H, a, n, b))
  BY <1>3 DEF Extreme
<1>5. QED
  BY <1>4, Negative, TangentFound

\* and in the lower hull
LEMMA ExtremeLower ==
    ASSUME NEW T, NEW H, NEW a, NEW n, HullOf(- 1, T, H, a, n), n = Len(H), NEW b \in Points
    PROVE  Tangent(- 1, H, a, n, b, Extreme(H, a, b, LAMBDA s, t : SlopeLess(t, s)))
<1>1. a \in Nat /\ n \in Nat
  BY HullPoint
<1>2. ASSUME NEW i \in a + 1 .. n
      PROVE  SlopeLess(Minus(H[i - 1], b), Minus(H[i], b)) <=> Turn(- 1, H[i - 1], H[i], b) < 0
  <2>1. i \in a .. n /\ i - 1 \in a .. n
    BY <1>1
  <2>2. H[i] \in Points /\ H[i - 1] \in Points
    BY <2>1, HullPoint
  <2>3. QED
    BY <2>2, TangentComparison
<1>3. {e \in a .. Len(H) : \A i \in a + 1 .. e :
          ~ SlopeLess(Minus(H[i - 1], b), Minus(H[i], b))} = TangentEnds(- 1, H, a, n, b)
  <2>1. ASSUME NEW e \in a .. n
        PROVE  (\A i \in a + 1 .. e : ~ SlopeLess(Minus(H[i - 1], b), Minus(H[i], b)))
               <=> (\A i \in a + 1 .. e : ~ (Turn(- 1, H[i - 1], H[i], b) < 0))
    <3>1. \A i \in a + 1 .. e : i \in a + 1 .. n
      BY <1>1
    <3>2. QED
      BY <1>2, <3>1
  <2>2. QED
    BY <2>1 DEF TangentEnds
<1>4. Extreme(H, a, b, LAMBDA s, t : SlopeLess(t, s)) = Max(TangentEnds(- 1, H, a, n, b))
  BY <1>3 DEF Extreme
<1>5. QED
  BY <1>4, Negative, TangentFound

\* HullWith of the upper hull
LEMMA HullUpper ==
    ASSUME NEW T, NEW H \in Seq(Points), NEW a, NEW n, HullOf(1, T, H, a, n), n = Len(H),
           a >= 1, NEW b \in Points
    PROVE  \E r \in a .. n :
              /\ Popped(1, H, a, n, b, r)
              /\ HullWith(H, a, b, LAMBDA c : c <= 0) \in Seq(Points)
              /\ Len(HullWith(H, a, b, LAMBDA c : c <= 0)) = r + 1
              /\ Lengthened(H, a, r, b, HullWith(H, a, b, LAMBDA c : c <= 0))
<1>1. a \in Nat /\ n \in Nat
  BY HullPoint
<1>2. ASSUME NEW i \in a + 1 .. n
      PROVE  cross(H[i - 1], H[i], b) <= 0 <=> Turn(1, H[i - 1], H[i], b) <= 0
  <2>1. i \in a .. n /\ i - 1 \in a .. n
    BY <1>1
  <2>2. H[i] \in Points /\ H[i - 1] \in Points
    BY <2>1, HullPoint
  <2>3. QED
    BY <2>2, TangentComparison
<1>3. {e \in 0 .. Len(H) : e < a + 1 \/ ~ (cross(H[e - 1], H[e], b) <= 0)}
          = HullEnds(1, H, a, n, b)
  <2>1. ASSUME NEW e \in 0 .. n
        PROVE  (e < a + 1 \/ ~ (cross(H[e - 1], H[e], b) <= 0))
               <=> (e < a + 1 \/ ~ (Turn(1, H[e - 1], H[e], b) <= 0))
    <3>1. e < a + 1 \/ e \in a + 1 .. n
      BY <1>1
    <3>2. QED
      BY <1>2, <3>1
  <2>2. QED
    BY <2>1 DEF HullEnds
<1>4. PICK r : r = Max(HullEnds(1, H, a, n, b))
  OBVIOUS
<1>5. HullWith(H, a, b, LAMBDA c : c <= 0) = Append(SubSeq(H, 1, r), b)
  BY <1>3, <1>4 DEF HullWith
<1>6. Popped(1, H, a, n, b, r)
  BY <1>4, Negative, PoppedFound
<1>7. r \in a .. n
  BY <1>6 DEF Popped
<1>8. r \in 1 .. Len(H) /\ a \in 1 .. r
  BY <1>1, <1>7
<1>9. QED
  BY <1>5, <1>6, <1>7, <1>8, HullSequence

\* HullWith of the lower hull
LEMMA HullLower ==
    ASSUME NEW T, NEW H \in Seq(Points), NEW a, NEW n, HullOf(- 1, T, H, a, n), n = Len(H),
           a >= 1, NEW b \in Points
    PROVE  \E r \in a .. n :
              /\ Popped(- 1, H, a, n, b, r)
              /\ HullWith(H, a, b, LAMBDA c : c >= 0) \in Seq(Points)
              /\ Len(HullWith(H, a, b, LAMBDA c : c >= 0)) = r + 1
              /\ Lengthened(H, a, r, b, HullWith(H, a, b, LAMBDA c : c >= 0))
<1>1. a \in Nat /\ n \in Nat
  BY HullPoint
<1>2. ASSUME NEW i \in a + 1 .. n
      PROVE  cross(H[i - 1], H[i], b) >= 0 <=> Turn(- 1, H[i - 1], H[i], b) <= 0
  <2>1. i \in a .. n /\ i - 1 \in a .. n
    BY <1>1
  <2>2. H[i] \in Points /\ H[i - 1] \in Points
    BY <2>1, HullPoint
  <2>3. PICK C, D : C = cross(H[i - 1], H[i], b) /\ D = Turn(- 1, H[i - 1], H[i], b)
    OBVIOUS
  <2>4. C \in Int /\ D = - C
    BY <2>2, <2>3, TangentComparison
  <2>5. C >= 0 <=> D <= 0
    BY <2>4
  <2>6. QED
    BY <2>3, <2>5
<1>3. {e \in 0 .. Len(H) : e < a + 1 \/ ~ (cross(H[e - 1], H[e], b) >= 0)}
          = HullEnds(- 1, H, a, n, b)
  <2>1. ASSUME NEW e \in 0 .. n
        PROVE  (e < a + 1 \/ ~ (cross(H[e - 1], H[e], b) >= 0))
               <=> (e < a + 1 \/ ~ (Turn(- 1, H[e - 1], H[e], b) <= 0))
    <3>1. e < a + 1 \/ e \in a + 1 .. n
      BY <1>1
    <3>2. QED
      BY <1>2, <3>1
  <2>2. QED
    BY <2>1 DEF HullEnds
<1>4. PICK r : r = Max(HullEnds(- 1, H, a, n, b))
  OBVIOUS
<1>5. HullWith(H, a, b, LAMBDA c : c >= 0) = Append(SubSeq(H, 1, r), b)
  BY <1>3, <1>4 DEF HullWith
<1>6. Popped(- 1, H, a, n, b, r)
  BY <1>4, Negative, PoppedFound
<1>7. r \in a .. n
  BY <1>6 DEF Popped
<1>8. r \in 1 .. Len(H) /\ a \in 1 .. r
  BY <1>1, <1>7
<1>9. QED
  BY <1>5, <1>6, <1>7, <1>8, HullSequence

\* four corners, one of them replaced, or two
LEMMA OneCorner ==
    ASSUME NEW R \in Seq(Points), Len(R) = 4, NEW p \in Points, NEW i \in 1 .. 4,
           NEW S, S = [R EXCEPT ![i] = p]
    PROVE  /\ S \in Seq(Points) /\ Len(S) = 4 /\ S[i] = p
           /\ \A kk \in 1 .. 4 : kk # i => S[kk] = R[kk]
<1>1. i \in 1 .. Len(R)
  OBVIOUS
<1>2. PICK E : E = [R EXCEPT ![i] = p]
  OBVIOUS
<1>3. E \in Seq(Points)
  BY ONLY <1>1, <1>2, R \in Seq(Points), p \in Points, ExceptSeq
<1>4. Len(E) = Len(R)
  BY ONLY <1>1, <1>2, R \in Seq(Points), p \in Points, ExceptSeq
<1>5. \A kk \in 1 .. Len(R) : E[kk] = IF kk = i THEN p ELSE R[kk]
  BY ONLY <1>1, <1>2, R \in Seq(Points), p \in Points, ExceptSeq
<1>6. E = S
  BY ONLY <1>2, S = [R EXCEPT ![i] = p]
<1>7. \A kk \in 1 .. 4 : E[kk] = IF kk = i THEN p ELSE R[kk]
  BY ONLY <1>5, Len(R) = 4
<1>8. QED
  BY ONLY <1>3, <1>4, <1>6, <1>7, Len(R) = 4, i \in 1 .. 4

\* two corners of the rectangle replaced
LEMMA Corners ==
    ASSUME NEW R \in Seq(Points), Len(R) = 4, NEW p \in Points, NEW q \in Points,
           NEW i \in 1 .. 4, NEW j \in 1 .. 4, i # j,
           NEW U, U = [R EXCEPT ![i] = p, ![j] = q]
    PROVE  /\ U \in Seq(Points) /\ Len(U) = 4 /\ U[i] = p /\ U[j] = q
           /\ \A kk \in 1 .. 4 : kk # i /\ kk # j => U[kk] = R[kk]
<1>1. PICK S : S = [R EXCEPT ![i] = p]
  OBVIOUS
<1>2. U = [S EXCEPT ![j] = q]
  BY <1>1
<1>3. S \in Seq(Points) /\ Len(S) = 4
  BY <1>1, OneCorner
<1>4. S[i] = p /\ \A kk \in 1 .. 4 : kk # i => S[kk] = R[kk]
  BY <1>1, OneCorner
<1>5. U \in Seq(Points) /\ Len(U) = 4
  BY ONLY <1>2, <1>3, q \in Points, j \in 1 .. 4, OneCorner
<1>6. U[j] = q /\ \A kk \in 1 .. 4 : kk # j => U[kk] = S[kk]
  BY ONLY <1>2, <1>3, q \in Points, j \in 1 .. 4, OneCorner
<1>7. QED
  BY <1>4, <1>5, <1>6

\* what a model is made of
LEMMA FittedParts ==
    ASSUME NEW mod, NEW T, NEW B, Fitted(mod, T, B)
    PROVE  /\ mod.rectangle \in Seq(Points) /\ Len(mod.rectangle) = 4
           /\ mod.upper \in Seq(Points) /\ mod.lower \in Seq(Points)
           /\ mod.upper_start \in Nat \ {0} /\ mod.lower_start \in Nat \ {0}
           /\ mod.rectangle[1] = mod.upper[mod.upper_start]
           /\ mod.rectangle[2] = mod.lower[mod.lower_start]
           /\ mod.rectangle[1] \in T /\ mod.rectangle[2] \in B
           /\ mod.rectangle[3] \in B /\ mod.rectangle[4] \in T
           /\ mod.rectangle[1].x < mod.rectangle[3].x /\ mod.rectangle[2].x < mod.rectangle[4].x
           /\ mod.rectangle[1] \in Points /\ mod.rectangle[2] \in Points
           /\ mod.rectangle[3] \in Points /\ mod.rectangle[4] \in Points
           /\ slope1(mod.rectangle) \in Slopes /\ slope2(mod.rectangle) \in Slopes
           /\ slope1(mod.rectangle) = Minus(mod.rectangle[3], mod.rectangle[1])
           /\ slope2(mod.rectangle) = Minus(mod.rectangle[4], mod.rectangle[2])
           /\ Fits(1, T, B, mod.rectangle[1], slope1(mod.rectangle))
           /\ Fits(1, T, B, mod.rectangle[2], slope2(mod.rectangle))
           /\ T \in SUBSET Points /\ B \in SUBSET Points
           /\ HullOf(1, T, mod.upper, mod.upper_start, Len(mod.upper))
           /\ HullOf(- 1, B, mod.lower, mod.lower_start, Len(mod.lower))
<1>1. /\ mod \in Models /\ Len(mod.rectangle) = 4
      /\ mod.upper_start >= 1 /\ mod.lower_start >= 1
      /\ mod.rectangle[1] = mod.upper[mod.upper_start]
      /\ mod.rectangle[2] = mod.lower[mod.lower_start]
      /\ Bounded(1, T, B, mod.upper, mod.upper_start, Len(mod.upper),
                 mod.lower, mod.lower_start, Len(mod.lower),
                 mod.rectangle[3], mod.rectangle[4])
  BY DEF Fitted
<1>2. /\ mod.rectangle \in Seq(Points) /\ mod.upper \in Seq(Points) /\ mod.lower \in Seq(Points)
      /\ mod.upper_start \in Nat \ {0} /\ mod.lower_start \in Nat \ {0}
  <2>1. /\ mod.rectangle \in Seq(Points) /\ mod.upper \in Seq(Points)
        /\ mod.lower \in Seq(Points) /\ mod.upper_start \in Nat /\ mod.lower_start \in Nat
    BY <1>1 DEF Models
  <2>2. QED
    BY <1>1, <2>1
<1>3. PICK U, us, nu, L, ls, nl, r1, r2, r3, r4 :
         /\ U = mod.upper /\ us = mod.upper_start /\ nu = Len(mod.upper)
         /\ L = mod.lower /\ ls = mod.lower_start /\ nl = Len(mod.lower)
         /\ r1 = mod.rectangle[1] /\ r2 = mod.rectangle[2]
         /\ r3 = mod.rectangle[3] /\ r4 = mod.rectangle[4]
  OBVIOUS
<1>4. Bounded(1, T, B, U, us, nu, L, ls, nl, r3, r4) /\ U[us] = r1 /\ L[ls] = r2
  BY <1>1, <1>3
<1>5. slope1(mod.rectangle) = Minus(r3, r1) /\ slope2(mod.rectangle) = Minus(r4, r2)
  BY <1>3 DEF slope1, slope2
<1>6. /\ r1 \in T /\ r1 \in Points /\ r2 \in B /\ r2 \in Points
      /\ r3 \in Points /\ r4 \in Points /\ T \in SUBSET Points /\ B \in SUBSET Points
      /\ Minus(r3, r1) \in Slopes /\ Minus(r4, r2) \in Slopes
  BY <1>4, Negative, BoundedTypes
<1>7. /\ r3 \in B /\ r4 \in T /\ r1.x < r3.x /\ r2.x < r4.x
      /\ Fits(1, T, B, r1, Minus(r3, r1)) /\ Fits(1, T, B, r2, Minus(r4, r2))
      /\ HullOf(1, T, U, us, nu) /\ HullOf(- 1, B, L, ls, nl)
  BY <1>4 DEF Bounded
<1>8. QED
  BY ONLY <1>1, <1>2, <1>3, <1>5, <1>6, <1>7

\* points at or below p are not above the steepest line of o if they were not above mod's
StaysUnder(mod, o, p) ==
    \A q \in Points :
        q.x = p.x /\ q.y <= p.y
        /\ Side(1, mod.rectangle[2], slope2(mod.rectangle), q) <= 0 =>
            Side(1, o.rectangle[2], slope2(o.rectangle), q) <= 0

\* the upper end of a new bar
LEMMA Lowered ==
    ASSUME NEW mod, NEW T, NEW B, Fitted(mod, T, B), NEW p \in Points,
           Behind(T, p), Behind(B, p),
           Side(1, mod.rectangle[1], slope1(mod.rectangle), p) >= 0,
           NEW o, o = LowerSteepest(mod, p)
    PROVE  /\ Fitted(o, T \cup {p}, B)
           /\ o.first = mod.first /\ o.last_x = mod.last_x
           /\ o.points_in_hull = mod.points_in_hull
           /\ o.rectangle[1] = mod.rectangle[1] /\ o.rectangle[3] = mod.rectangle[3]
           /\ StaysUnder(mod, o, p)
<1>1. PICK U, us, nu, L, ls, nl, r1, r2, r3, r4, s, t :
         /\ U = mod.upper /\ us = mod.upper_start /\ nu = Len(mod.upper)
         /\ L = mod.lower /\ ls = mod.lower_start /\ nl = Len(mod.lower)
         /\ r1 = mod.rectangle[1] /\ r2 = mod.rectangle[2]
         /\ r3 = mod.rectangle[3] /\ r4 = mod.rectangle[4]
         /\ s = slope1(mod.rectangle) /\ t = slope2(mod.rectangle)
  OBVIOUS
<1>2. /\ r1 \in Points /\ r2 \in Points /\ r3 \in Points /\ r4 \in Points
      /\ s \in Slopes /\ t \in Slopes /\ s = Minus(r3, r1) /\ t = Minus(r4, r2)
      /\ U[us] = r1 /\ L[ls] = r2 /\ us \in Nat \ {0} /\ ls \in Nat \ {0}
      /\ U \in Seq(Points) /\ L \in Seq(Points) /\ mod.rectangle \in Seq(Points)
      /\ Len(mod.rectangle) = 4
  BY <1>1, FittedParts
<1>3. HullOf(1, T, U, us, nu) /\ HullOf(- 1, B, L, ls, nl)
  BY <1>1, FittedParts
<1>4. Bounded(1, T, B, U, us, nu, L, ls, nl, r3, r4) /\ mod \in Models
  BY <1>1 DEF Fitted
<1>5. SlopeLess(Minus(p, r2), t) <=> Side(1, r2, t, p) < 0
  BY <1>2, Comparisons
<1>6. Side(1, r2, t, p) \in Int /\ Side(1, r1, s, p) \in Int /\ Side(1, r1, s, p) >= 0
  BY <1>1, <1>2, Negative, GeometryTypes
<1>7. CASE SlopeLess(Minus(p, r2), t)
  <2>1. PICK e : e = Extreme(L, ls, p, LAMBDA f, g : SlopeLess(g, f))
    OBVIOUS
  <2>2. PICK K : K = HullWith(U, us, p, LAMBDA c : c <= 0)
    OBVIOUS
  <2>3. o = [mod EXCEPT !.rectangle[2] = L[e], !.rectangle[4] = p,
                        !.lower_start = e, !.upper = K]
    BY <1>1, <1>7, <2>1, <2>2 DEF LowerSteepest
  <2>4. Tangent(- 1, L, ls, nl, p, e)
    BY <1>1, <1>3, <2>1, ExtremeLower
  <2>5. PICK r \in us .. nu : /\ Popped(1, U, us, nu, p, r) /\ K \in Seq(Points)
                              /\ Len(K) = r + 1 /\ Lengthened(U, us, r, p, K)
    <3>1. U \in Seq(Points) /\ nu = Len(U) /\ us >= 1
      BY <1>1, <1>2
    <3>2. \E r \in us .. nu :
              /\ Popped(1, U, us, nu, p, r)
              /\ HullWith(U, us, p, LAMBDA c : c <= 0) \in Seq(Points)
              /\ Len(HullWith(U, us, p, LAMBDA c : c <= 0)) = r + 1
              /\ Lengthened(U, us, r, p, HullWith(U, us, p, LAMBDA c : c <= 0))
      BY ONLY <1>3, <3>1, p \in Points, HullUpper
    <3>3. QED
      BY <2>2, <3>2
  <2>6. Bounded(1, T \cup {p}, B, K, us, r + 1, L, e, nl, r3, p)
    BY <1>2, <1>4, <1>5, <1>6, <1>7, <2>4, <2>5, LowerTurns
  <2>7. e \in ls .. nl /\ nl \in Nat
    BY <1>3, <2>4, HullPoint DEF Tangent
  <2>8. L[e] \in Points /\ e \in Nat \ {0}
    <3>1. \A i \in ls .. nl : L[i] \in Points
      BY ONLY <1>3, HullPoint
    <3>2. L[e] \in Points
      BY ONLY <2>7, <3>1
    <3>3. e \in Nat \ {0}
      BY ONLY <1>2, <2>7
    <3>4. QED
      BY <3>2, <3>3
  <2>9. PICK R : R = [mod.rectangle EXCEPT ![2] = L[e], ![4] = p]
    OBVIOUS
  <2>10. /\ R \in Seq(Points) /\ Len(R) = 4 /\ R[2] = L[e] /\ R[4] = p
         /\ R[1] = r1 /\ R[3] = r3
    <3>1. PICK Q : Q = mod.rectangle
      OBVIOUS
    <3>2. /\ Q \in Seq(Points) /\ Len(Q) = 4 /\ Q[1] = r1 /\ Q[3] = r3
          /\ R = [Q EXCEPT ![2] = L[e], ![4] = p]
      BY <1>1, <1>2, <2>9, <3>1
    <3>3. L[e] \in Points
      BY <2>8
    <3>4. /\ R \in Seq(Points) /\ Len(R) = 4 /\ R[2] = L[e] /\ R[4] = p
          /\ \A kk \in 1 .. 4 : kk # 2 /\ kk # 4 => R[kk] = Q[kk]
      BY ONLY <3>2, <3>3, p \in Points, Corners
    <3>5. R[1] = Q[1] /\ R[3] = Q[3]
      BY ONLY <3>4
    <3>6. QED
      BY ONLY <3>2, <3>4, <3>5
  <2>11. o = [mod EXCEPT !.rectangle = R, !.lower_start = e, !.upper = K]
    BY <1>4, <2>3, <2>9 DEF Models
  <2>12. /\ o.rectangle = R /\ o.lower_start = e /\ o.upper = K /\ o.lower = L
         /\ o.upper_start = us /\ o.first = mod.first /\ o.last_x = mod.last_x
         /\ o.points_in_hull = mod.points_in_hull /\ o \in Models
    BY <1>1, <1>4, <2>5, <2>8, <2>10, <2>11 DEF Models
  <2>13. K[us] = r1
    <3>1. us \in us .. r
      BY <1>2
    <3>2. QED
      BY <1>2, <2>5, <3>1 DEF Lengthened
  <2>14. Fitted(o, T \cup {p}, B)
    BY ONLY <1>1, <1>2, <2>5, <2>6, <2>8, <2>10, <2>12, <2>13 DEF Fitted
  <2>15. ASSUME NEW q \in Points, q.x = p.x, q.y <= p.y
         PROVE  Side(1, o.rectangle[2], slope2(o.rectangle), q) <= 0
    <3>1. PICK E, w : E = L[e] /\ w = slope2(o.rectangle)
      OBVIOUS
    <3>2. E \in Points /\ w \in Slopes /\ w = Minus(p, E)
      BY <2>10, <2>12, <2>14, <3>1, FittedParts
    <3>3. /\ w.dx = p.x - E.x /\ w.dy = p.y - E.y /\ w.dx \in Int /\ w.dx > 0
          /\ p.x \in Int /\ p.y \in Int /\ q.y \in Int /\ E.x \in Int /\ E.y \in Int
      BY <3>2 DEF Minus, Points, Slopes
    <3>4. PICK f, g : f = w.dx /\ g = p.y - q.y
      OBVIOUS
    <3>5. f \in Int /\ f >= 0 /\ g \in Int /\ g >= 0
      BY <2>15, <3>3, <3>4
    <3>6. f * g \in Int /\ f * g >= 0
      BY <3>5, ProductSign
    <3>7. Side(1, E, w, q) = - (f * g)
      <4>1. ASSUME NEW kk \in Int, NEW x \in Int, NEW y \in Int, NEW z \in Int
            PROVE  1 * (kk * (x - y) - (z - y) * kk) = - (kk * (z - x))
        OBVIOUS
      <4>2. q.x - E.x = w.dx
        BY <2>15, <3>3
      <4>3. QED
        BY <3>3, <3>4, <4>1, <4>2 DEF Side
    <3>8. QED
      BY <2>10, <2>12, <3>1, <3>6, <3>7
  <2>16. StaysUnder(mod, o, p)
    BY <2>15 DEF StaysUnder
  <2>17. QED
    BY <1>1, <2>10, <2>12, <2>14, <2>16
<1>8. CASE ~ SlopeLess(Minus(p, r2), t)
  <2>1. o = mod
    BY <1>1, <1>8 DEF LowerSteepest
  <2>2. Bounded(1, T \cup {p}, B, U, us, nu, L, ls, nl, r3, r4)
    BY <1>2, <1>4, <1>5, <1>6, <1>8, LowerSkips
  <2>3. Fitted(mod, T \cup {p}, B)
    BY <1>1, <2>2 DEF Fitted
  <2>4. StaysUnder(mod, mod, p)
    BY DEF StaysUnder
  <2>5. QED
    BY <2>1, <2>3, <2>4
<1>9. QED
  BY <1>7, <1>8

\* the lower end of a new bar
LEMMA Raised ==
    ASSUME NEW mod, NEW T, NEW B, Fitted(mod, T, B), NEW p \in Points,
           Behind(B, p), Ahead(1, T, p),
           Side(1, mod.rectangle[2], slope2(mod.rectangle), p) <= 0,
           NEW slope, slope = slope1(mod.rectangle),
           NEW o, o = RaiseFlattest(mod, slope, p)
    PROVE  /\ Fitted(o, T, B \cup {p})
           /\ o.first = mod.first /\ o.last_x = mod.last_x
           /\ o.points_in_hull = mod.points_in_hull
<1>1. PICK U, us, nu, L, ls, nl, r1, r2, r3, r4, s, t :
         /\ U = mod.upper /\ us = mod.upper_start /\ nu = Len(mod.upper)
         /\ L = mod.lower /\ ls = mod.lower_start /\ nl = Len(mod.lower)
         /\ r1 = mod.rectangle[1] /\ r2 = mod.rectangle[2]
         /\ r3 = mod.rectangle[3] /\ r4 = mod.rectangle[4]
         /\ s = slope1(mod.rectangle) /\ t = slope2(mod.rectangle)
  OBVIOUS
<1>2. /\ r1 \in Points /\ r2 \in Points /\ r3 \in Points /\ r4 \in Points
      /\ s \in Slopes /\ t \in Slopes /\ s = Minus(r3, r1) /\ t = Minus(r4, r2)
      /\ U[us] = r1 /\ L[ls] = r2 /\ us \in Nat \ {0} /\ ls \in Nat \ {0}
      /\ U \in Seq(Points) /\ L \in Seq(Points) /\ mod.rectangle \in Seq(Points)
      /\ Len(mod.rectangle) = 4
  BY <1>1, FittedParts
<1>3. HullOf(1, T, U, us, nu) /\ HullOf(- 1, B, L, ls, nl)
  BY <1>1, FittedParts
<1>4. Bounded(1, T, B, U, us, nu, L, ls, nl, r3, r4) /\ mod \in Models
  BY <1>1 DEF Fitted
<1>5. SlopeLess(s, Minus(p, r1)) <=> Side(1, r1, s, p) > 0
  BY <1>2, Comparisons
<1>6. /\ Side(1, r1, s, p) \in Int /\ Side(- 1, r1, s, p) = - Side(1, r1, s, p)
      /\ Side(1, r2, t, p) \in Int /\ Side(- 1, r2, t, p) = - Side(1, r2, t, p)
      /\ Side(1, r2, t, p) <= 0
  BY <1>1, <1>2, Comparisons
<1>7. Under(- 1, r2, t, p)
  BY <1>6 DEF Under
<1>8. CASE SlopeLess(slope, Minus(p, r1))
  <2>1. PICK e : e = Extreme(U, us, p, SlopeLess)
    OBVIOUS
  <2>2. PICK K : K = HullWith(L, ls, p, LAMBDA c : c >= 0)
    OBVIOUS
  <2>3. o = [mod EXCEPT !.rectangle[1] = U[e], !.rectangle[3] = p,
                        !.upper_start = e, !.lower = K]
    BY <1>1, <1>8, <2>1, <2>2 DEF RaiseFlattest
  <2>4. Tangent(1, U, us, nu, p, e)
    BY <1>1, <1>3, <2>1, ExtremeUpper
  <2>5. PICK r \in ls .. nl : /\ Popped(- 1, L, ls, nl, p, r) /\ K \in Seq(Points)
                              /\ Len(K) = r + 1 /\ Lengthened(L, ls, r, p, K)
    <3>1. L \in Seq(Points) /\ nl = Len(L) /\ ls >= 1
      BY <1>1, <1>2
    <3>2. \E r \in ls .. nl :
              /\ Popped(- 1, L, ls, nl, p, r)
              /\ HullWith(L, ls, p, LAMBDA c : c >= 0) \in Seq(Points)
              /\ Len(HullWith(L, ls, p, LAMBDA c : c >= 0)) = r + 1
              /\ Lengthened(L, ls, r, p, HullWith(L, ls, p, LAMBDA c : c >= 0))
      BY ONLY <1>3, <3>1, p \in Points, HullLower
    <3>3. QED
      BY <2>2, <3>2
  <2>6. Bounded(1, T, B \cup {p}, U, e, nu, K, ls, r + 1, p, r4)
    <3>1. Side(1, U[us], Minus(r3, U[us]), p) > 0
      BY <1>1, <1>2, <1>5, <1>8
    <3>2. Under(- 1, L[ls], Minus(r4, L[ls]), p)
      BY <1>2, <1>7
    <3>3. QED
      BY <1>4, <2>4, <2>5, <3>1, <3>2, Negative, BoundedRaised
  <2>7. e \in us .. nu /\ nu \in Nat
    BY <1>3, <2>4, HullPoint DEF Tangent
  <2>8. U[e] \in Points /\ e \in Nat \ {0}
    <3>1. \A i \in us .. nu : U[i] \in Points
      BY ONLY <1>3, HullPoint
    <3>2. U[e] \in Points
      BY ONLY <2>7, <3>1
    <3>3. e \in Nat \ {0}
      BY ONLY <1>2, <2>7
    <3>4. QED
      BY <3>2, <3>3
  <2>9. PICK R : R = [mod.rectangle EXCEPT ![1] = U[e], ![3] = p]
    OBVIOUS
  <2>10. /\ R \in Seq(Points) /\ Len(R) = 4 /\ R[1] = U[e] /\ R[3] = p
         /\ R[2] = r2 /\ R[4] = r4
    <3>1. PICK Q : Q = mod.rectangle
      OBVIOUS
    <3>2. Q \in Seq(Points) /\ Len(Q) = 4 /\ Q[2] = r2 /\ Q[4] = r4
          /\ R = [Q EXCEPT ![1] = U[e], ![3] = p]
      BY <1>1, <1>2, <2>9, <3>1
    <3>3. U[e] \in Points
      BY <2>8
    <3>4. /\ R \in Seq(Points) /\ Len(R) = 4 /\ R[1] = U[e] /\ R[3] = p
          /\ \A kk \in 1 .. 4 : kk # 1 /\ kk # 3 => R[kk] = Q[kk]
      BY ONLY <3>2, <3>3, p \in Points, Corners
    <3>5. R[2] = Q[2] /\ R[4] = Q[4]
      BY ONLY <3>4
    <3>6. QED
      BY ONLY <3>2, <3>4, <3>5
  <2>11. o = [mod EXCEPT !.rectangle = R, !.upper_start = e, !.lower = K]
    BY <1>4, <2>3, <2>9 DEF Models
  <2>12. /\ o.rectangle = R /\ o.upper_start = e /\ o.lower = K /\ o.upper = U
         /\ o.lower_start = ls /\ o.first = mod.first /\ o.last_x = mod.last_x
         /\ o.points_in_hull = mod.points_in_hull /\ o \in Models
    BY <1>1, <1>4, <2>5, <2>8, <2>10, <2>11 DEF Models
  <2>13. K[ls] = r2
    <3>1. ls \in ls .. r
      BY <1>2
    <3>2. QED
      BY <1>2, <2>5, <3>1 DEF Lengthened
  <2>14. Fitted(o, T, B \cup {p})
    BY ONLY <1>1, <1>2, <2>5, <2>6, <2>8, <2>10, <2>12, <2>13, SMTT(20) DEF Fitted
  <2>15. QED
    BY <2>12, <2>14
<1>9. CASE ~ SlopeLess(slope, Minus(p, r1))
  <2>1. o = mod
    BY <1>1, <1>9 DEF RaiseFlattest
  <2>2. Under(- 1, r1, s, p)
    BY <1>1, <1>5, <1>6, <1>9 DEF Under
  <2>3. Bounded(1, T, B \cup {p}, U, us, nu, L, ls, nl, r3, r4)
    BY <1>2, <1>4, <1>7, <2>2, Negative, BoundedSkips
  <2>4. Fitted(mod, T, B \cup {p})
    BY <1>1, <2>3 DEF Fitted
  <2>5. QED
    BY <2>1, <2>4
<1>10. QED
  BY <1>8, <1>9

-----------------------------------------------------------------------------
(* Models and the bars they have seen. *)
Bars == {bar \in [top : Points, bottom : Points] :
            bar.top.x = bar.bottom.x /\ bar.bottom.y < bar.top.y}

Tops(bars) == {bar.top : bar \in bars}
Bottoms(bars) == {bar.bottom : bar \in bars}

\* the ends of a bar
LEMMA BarParts ==
    ASSUME NEW bar \in Bars
    PROVE  /\ bar.top \in Points /\ bar.bottom \in Points /\ bar.top.x = bar.bottom.x
           /\ bar.bottom.y < bar.top.y /\ bar.top.x \in Int
  BY DEF Bars, Points

\* the bar of a point; its lower end is cut off at 0
LEMMA BarOfPoint ==
    ASSUME NEW p \in [x : Int, y : Nat], NEW l \in Nat, NEW u \in Nat \ {0}
    PROVE  Bar(p, l, u) \in Bars /\ Bar(p, l, u).top.x = p.x
  BY DEF Bar, Bars, Points

\* the extreme lines pass through all bars
LEMMA PassesBars ==
    ASSUME NEW bars \in SUBSET Bars, NEW p \in Points, NEW s \in Slopes,
           Fits(1, Tops(bars), Bottoms(bars), p, s), NEW bar \in bars
    PROVE  Passes(p, s, bar)
<1>1. bar.top \in Tops(bars) /\ bar.bottom \in Bottoms(bars)
  BY DEF Tops, Bottoms
<1>2. Under(1, p, s, bar.top) /\ Under(- 1, p, s, bar.bottom)
  BY <1>1 DEF Fits
<1>3. bar.top \in Points /\ bar.bottom \in Points /\ bar.top.x = bar.bottom.x
  BY BarParts
<1>4. Side(1, p, s, bar.top) >= 0 /\ Side(1, p, s, bar.bottom) <= 0
  <2>1. Side(- 1, p, s, bar.bottom) = - Side(1, p, s, bar.bottom)
        /\ Side(1, p, s, bar.bottom) \in Int
    BY <1>3, Comparisons
  <2>2. QED
    BY <1>2, <2>1 DEF Under
<1>5. PICK a, b, c, d : /\ a = s.dx * bar.top.y /\ b = s.dx * bar.bottom.y
                        /\ c = s.dx * p.y /\ d = (bar.top.x - p.x) * s.dy
  OBVIOUS
<1>6. a \in Int /\ b \in Int /\ c \in Int /\ d \in Int
  BY <1>3, <1>5 DEF Points, Slopes
<1>7. Side(1, p, s, bar.top) = a - c - d /\ Side(1, p, s, bar.bottom) = b - c - d
  <2>1. ASSUME NEW kk \in Int, NEW m \in Int, NEW x \in Int, NEW y \in Int, NEW z \in Int
        PROVE  1 * (kk * (y - z) - m * x) = kk * y - kk * z - x * m
    OBVIOUS
  <2>2. /\ s.dx \in Int /\ s.dy \in Int /\ bar.top.x - p.x \in Int /\ bar.top.y \in Int
        /\ p.y \in Int /\ bar.bottom.y \in Int /\ bar.bottom.x - p.x = bar.top.x - p.x
    BY <1>3 DEF Points, Slopes
  <2>3. Side(1, p, s, bar.top) = a - c - d
    BY <1>5, <2>1, <2>2 DEF Side
  <2>4. Side(1, p, s, bar.bottom) = b - c - d
    BY <1>5, <2>1, <2>2 DEF Side
  <2>5. QED
    BY <2>3, <2>4
<1>8. b <= c + d /\ c + d <= a
  BY <1>4, <1>6, <1>7
<1>9. QED
  BY <1>5, <1>8 DEF Passes

\* a bar that is further right than all others
After(bars, bar) == \A c \in bars : c.top.x < bar.top.x

\* the hulls are behind the ends of a bar that is after all others
LEMMA AfterBehind ==
    ASSUME NEW bars \in SUBSET Bars, NEW bar \in Bars, After(bars, bar)
    PROVE  /\ Behind(Tops(bars), bar.top) /\ Behind(Bottoms(bars), bar.top)
           /\ Behind(Bottoms(bars), bar.bottom)
           /\ Ahead(1, Tops(bars) \cup {bar.top}, bar.bottom)
           /\ Tops(bars \cup {bar}) = Tops(bars) \cup {bar.top}
           /\ Bottoms(bars \cup {bar}) = Bottoms(bars) \cup {bar.bottom}
<1>1. /\ bar.top \in Points /\ bar.bottom \in Points /\ bar.top.x = bar.bottom.x
      /\ bar.bottom.y < bar.top.y
  BY BarParts
<1>2. ASSUME NEW c \in bars
      PROVE  /\ c.top.x < bar.top.x /\ c.bottom.x < bar.top.x
             /\ c.top.x < bar.bottom.x /\ c.bottom.x < bar.bottom.x
  <2>1. c.top.x = c.bottom.x /\ c.top.x < bar.top.x
    BY BarParts DEF After
  <2>2. QED
    BY <1>1, <2>1
<1>3. 1 * (bar.top.y - bar.bottom.y) > 0
  BY <1>1 DEF Points
<1>4. Behind(Tops(bars), bar.top) /\ Behind(Bottoms(bars), bar.top)
      /\ Behind(Bottoms(bars), bar.bottom)
  BY <1>2 DEF Behind, Tops, Bottoms
<1>5. Ahead(1, Tops(bars) \cup {bar.top}, bar.bottom)
  BY <1>1, <1>2, <1>3 DEF Ahead, Tops
<1>6. QED
  BY <1>4, <1>5 DEF Tops, Bottoms

FitsBars(mod, bars) == bars \in SUBSET Bars /\ Fitted(mod, Tops(bars), Bottoms(bars))

\* outside, in terms of the lines
LEMMA OutsideLines ==
    ASSUME NEW mod, NEW bars, FitsBars(mod, bars), NEW bar \in Bars
    PROVE  Outside(mod, bar) <=>
              \/ Side(1, mod.rectangle[1], slope1(mod.rectangle), bar.top) < 0
              \/ Side(1, mod.rectangle[2], slope2(mod.rectangle), bar.bottom) > 0
<1>1. PICK R, s, t : R = mod.rectangle /\ s = slope1(R) /\ t = slope2(R)
  OBVIOUS
<1>2. /\ R[1] \in Points /\ R[2] \in Points /\ R[3] \in Points /\ R[4] \in Points
      /\ s \in Slopes /\ t \in Slopes /\ s = Minus(R[3], R[1]) /\ t = Minus(R[4], R[2])
      /\ R[1].x < R[3].x /\ R[2].x < R[4].x
  BY <1>1, FittedParts DEF FitsBars
<1>3. bar.top \in Points /\ bar.bottom \in Points
  BY BarParts
<1>4. SlopeLess(Minus(bar.top, R[3]), s) <=> Side(1, R[3], s, bar.top) < 0
  BY <1>2, <1>3, Comparisons
<1>5. SlopeLess(t, Minus(bar.bottom, R[4])) <=> Side(1, R[4], t, bar.bottom) > 0
  BY <1>2, <1>3, Comparisons
<1>6. /\ Side(1, R[3], s, bar.top) = Side(1, R[1], s, bar.top)
      /\ Side(1, R[4], t, bar.bottom) = Side(1, R[2], t, bar.bottom)
  BY <1>2, <1>3, Negative, TwoPoints
<1>7. QED
  BY <1>1, <1>4, <1>5, <1>6 DEF Outside

Taken(mod, x, seen) == seen = [mod EXCEPT !.last_x = x, !.points_in_hull = @ + 1]

Moved(mod, seen, bar, o) == o = RaiseFlattest(LowerSteepest(seen, bar.top),
                                              slope1(mod.rectangle), bar.bottom)

\* what else a point changes
TookPoint(mod, x, o) == /\ o.first = mod.first /\ o.last_x = x
                       /\ o.points_in_hull = mod.points_in_hull + 1

\* a bar that is not outside
LEMMA Joins ==
    ASSUME NEW mod, NEW bars, FitsBars(mod, bars), NEW bar \in Bars, After(bars, bar),
           ~ Outside(mod, bar), NEW x \in Int,
           NEW seen, Taken(mod, x, seen), NEW o, Moved(mod, seen, bar, o)
    PROVE  FitsBars(o, bars \cup {bar}) /\ TookPoint(mod, x, o)
<1>1. seen = [mod EXCEPT !.last_x = x, !.points_in_hull = @ + 1]
  BY DEF Taken
<1>2. PICK T, B : T = Tops(bars) /\ B = Bottoms(bars)
  OBVIOUS
<1>3. Fitted(mod, T, B) /\ bars \in SUBSET Bars
  BY <1>2 DEF FitsBars
<1>4. mod \in Models
  BY <1>3 DEF Fitted
<1>5. /\ seen \in Models /\ seen.first = mod.first /\ seen.last_x = x
      /\ seen.points_in_hull = mod.points_in_hull + 1
      /\ seen.rectangle = mod.rectangle /\ seen.upper = mod.upper /\ seen.lower = mod.lower
      /\ seen.upper_start = mod.upper_start /\ seen.lower_start = mod.lower_start
  <2>1. PICK h : h = mod.points_in_hull + 1
    OBVIOUS
  <2>2. h \in Nat
    BY <1>4, <2>1 DEF Models
  <2>3. seen = [mod EXCEPT !.last_x = x, !.points_in_hull = h]
    BY <1>1, <2>1
  <2>4. seen \in Models /\ seen.points_in_hull = h /\ seen.last_x = x
    BY ONLY <1>4, <2>2, <2>3, x \in Int DEF Models
  <2>5. /\ seen.first = mod.first
        /\ seen.rectangle = mod.rectangle /\ seen.upper = mod.upper /\ seen.lower = mod.lower
        /\ seen.upper_start = mod.upper_start /\ seen.lower_start = mod.lower_start
    BY ONLY <1>4, <2>3 DEF Models
  <2>6. QED
    BY <2>1, <2>4, <2>5
<1>6. Fitted(seen, T, B)
  BY ONLY <1>3, <1>5 DEF Fitted
<1>7. /\ bar.top \in Points /\ bar.bottom \in Points /\ bar.top.x = bar.bottom.x
      /\ bar.bottom.y < bar.top.y
  BY BarParts
<1>8. PICK R, s, t : R = mod.rectangle /\ s = slope1(R) /\ t = slope2(R)
  OBVIOUS
<1>9. R[1] \in Points /\ R[2] \in Points /\ s \in Slopes /\ t \in Slopes
  BY <1>3, <1>8, FittedParts
<1>10. Side(1, R[1], s, bar.top) \in Int /\ Side(1, R[2], t, bar.bottom) \in Int
  BY <1>7, <1>9, Comparisons
<1>11. Side(1, R[1], s, bar.top) >= 0 /\ Side(1, R[2], t, bar.bottom) <= 0
  BY <1>8, <1>10, OutsideLines
<1>12. PICK m : m = LowerSteepest(seen, bar.top)
  OBVIOUS
<1>13. /\ Behind(T, bar.top) /\ Behind(B, bar.top) /\ Behind(B, bar.bottom)
       /\ Ahead(1, T \cup {bar.top}, bar.bottom)
       /\ Tops(bars \cup {bar}) = T \cup {bar.top}
       /\ Bottoms(bars \cup {bar}) = B \cup {bar.bottom}
  BY <1>2, <1>3, AfterBehind
<1>14. Side(1, seen.rectangle[1], slope1(seen.rectangle), bar.top) >= 0
       /\ Side(1, seen.rectangle[2], slope2(seen.rectangle), bar.bottom) <= 0
  BY <1>5, <1>8, <1>11
<1>15. /\ Fitted(m, T \cup {bar.top}, B)
       /\ m.first = seen.first /\ m.last_x = seen.last_x
       /\ m.points_in_hull = seen.points_in_hull
       /\ m.rectangle[1] = seen.rectangle[1] /\ m.rectangle[3] = seen.rectangle[3]
       /\ StaysUnder(seen, m, bar.top)
  <2>1. Side(1, seen.rectangle[1], slope1(seen.rectangle), bar.top) >= 0
    BY <1>14
  <2>2. bar.top \in Points /\ Behind(T, bar.top) /\ Behind(B, bar.top)
    BY <1>7, <1>13
  <2>3. QED
    BY ONLY <1>6, <1>12, <2>1, <2>2, Lowered
<1>16. Side(1, m.rectangle[2], slope2(m.rectangle), bar.bottom) <= 0
  <2>1. bar.bottom.x = bar.top.x /\ bar.bottom.y <= bar.top.y
    BY <1>7 DEF Points
  <2>2. QED
    BY <1>7, <1>14, <1>15, <2>1 DEF StaysUnder
<1>17. slope1(mod.rectangle) = slope1(m.rectangle)
  BY <1>5, <1>15 DEF slope1
<1>18. o = RaiseFlattest(m, slope1(mod.rectangle), bar.bottom)
  BY <1>1, <1>12 DEF Moved
<1>19. /\ Fitted(o, T \cup {bar.top}, B \cup {bar.bottom})
       /\ o.first = m.first /\ o.last_x = m.last_x
       /\ o.points_in_hull = m.points_in_hull
  BY ONLY <1>7, <1>13, <1>15, <1>16, <1>17, <1>18, Raised, SMTT(20)
<1>20. FitsBars(o, bars \cup {bar})
  BY <1>3, <1>13, <1>19 DEF FitsBars
<1>21. QED
  BY <1>5, <1>15, <1>19, <1>20 DEF TookPoint

\* a cross product changes its sign with its order
LEMMA CrossSwapped ==
    ASSUME NEW o \in Points, NEW p \in Points, NEW q \in Points
    PROVE  cross(o, q, p) = - cross(o, p, q)
<1>1. PICK a, b, c, d : a = p.x - o.x /\ b = p.y - o.y /\ c = q.x - o.x /\ d = q.y - o.y
  OBVIOUS
<1>2. a \in Int /\ b \in Int /\ c \in Int /\ d \in Int
  BY <1>1 DEF Points
<1>3. cross(o, p, q) = a * d - b * c /\ cross(o, q, p) = c * b - d * a
  BY ONLY <1>1 DEF cross, Minus
<1>4. c * b - d * a = - (a * d - b * c)
  BY <1>2
<1>5. QED
  BY <1>3, <1>4

\* no line passes through all bars and one that is outside
LEMMA Rejects ==
    ASSUME NEW mod, NEW bars, FitsBars(mod, bars), NEW bar \in Bars, After(bars, bar),
           Outside(mod, bar)
    PROVE  ~ SomeLineThrough(bars \cup {bar})
<1>1. PICK R, s, t : R = mod.rectangle /\ s = slope1(R) /\ t = slope2(R)
  OBVIOUS
<1>2. /\ R[1] \in Points /\ R[2] \in Points /\ R[3] \in Points /\ R[4] \in Points
      /\ s \in Slopes /\ t \in Slopes /\ s = Minus(R[3], R[1]) /\ t = Minus(R[4], R[2])
      /\ R[1].x < R[3].x /\ R[2].x < R[4].x
      /\ R[1] \in Tops(bars) /\ R[2] \in Bottoms(bars)
      /\ R[3] \in Bottoms(bars) /\ R[4] \in Tops(bars) /\ bars \in SUBSET Bars
  BY <1>1, FittedParts DEF FitsBars
<1>3. bar.top \in Points /\ bar.bottom \in Points
  BY BarParts
<1>4. PICK a \in bars, b \in bars, c \in bars, d \in bars :
         a.top = R[1] /\ b.bottom = R[2] /\ c.bottom = R[3] /\ d.top = R[4]
  BY <1>2 DEF Tops, Bottoms
<1>5. /\ a \in Bars /\ b \in Bars /\ c \in Bars /\ d \in Bars
      /\ a.top.x < c.top.x /\ c.top.x < bar.top.x /\ b.top.x < d.top.x /\ d.top.x < bar.top.x
  <2>1. a \in Bars /\ b \in Bars /\ c \in Bars /\ d \in Bars
    BY <1>2
  <2>2. c.top.x < bar.top.x /\ d.top.x < bar.top.x
    BY DEF After
  <2>3. c.top.x = c.bottom.x /\ b.top.x = b.bottom.x
    BY <2>1, BarParts
  <2>4. a.top.x < c.bottom.x /\ b.bottom.x < d.top.x
    BY <1>2, <1>4
  <2>5. QED
    BY ONLY <2>1, <2>2, <2>3, <2>4
<1>6. CASE Side(1, R[1], s, bar.top) < 0
  <2>1. PICK C, D : C = cross(R[1], R[3], bar.top) /\ D = cross(R[1], bar.top, R[3])
    OBVIOUS
  <2>2. Side(1, R[1], s, bar.top) = Turn(1, R[1], R[3], bar.top)
    BY <1>2, <1>3, Negative, SlopesTo
  <2>3. Turn(1, R[1], R[3], bar.top) = C /\ C \in Int
    BY <1>2, <1>3, <2>1, TangentComparison
  <2>4. D = - C
    BY <1>2, <1>3, <2>1, CrossSwapped
  <2>5. D > 0
    BY <1>6, <2>2, <2>3, <2>4
  <2>6. ~ (cross(a.top, bar.top, c.bottom) <= 0)
    BY <1>4, <2>1, <2>3, <2>4, <2>5
  <2>7. QED
    BY <1>5, <2>6 DEF SomeLineThrough
<1>7. CASE Side(1, R[2], t, bar.bottom) > 0
  <2>1. PICK C, D : C = cross(R[2], R[4], bar.bottom) /\ D = cross(R[2], bar.bottom, R[4])
    OBVIOUS
  <2>2. Side(1, R[2], t, bar.bottom) = Turn(1, R[2], R[4], bar.bottom)
    BY <1>2, <1>3, Negative, SlopesTo
  <2>3. Turn(1, R[2], R[4], bar.bottom) = C /\ C \in Int
    BY <1>2, <1>3, <2>1, TangentComparison
  <2>4. D = - C
    BY <1>2, <1>3, <2>1, CrossSwapped
  <2>5. D < 0
    BY <1>7, <2>2, <2>3, <2>4
  <2>6. ~ (cross(b.bottom, bar.bottom, d.top) >= 0)
    BY <1>4, <2>1, <2>3, <2>4, <2>5
  <2>7. QED
    BY <1>5, <2>6 DEF SomeLineThrough
<1>8. QED
  BY <1>1, <1>6, <1>7, OutsideLines

-----------------------------------------------------------------------------
(* add_point as a whole. *)
OnePoint(mod, p, bar) ==
    mod = [points_in_hull |-> 1, last_x |-> p.x, first |-> p,
           rectangle |-> <<bar.top, bar.bottom>>,
           lower |-> <<bar.bottom>>, lower_start |-> 1,
           upper |-> <<bar.top>>, upper_start |-> 1]

RankedPoints == [x : Int, y : Nat]

\* a model that has seen these bars, and at least two if it is `full`
Seen(mod, bars) ==
    \/ \E p \in RankedPoints, bar \in Bars :
          OnePoint(mod, p, bar) /\ bar.top.x = p.x /\ bars = {bar}
    \/ /\ mod.points_in_hull \in Nat /\ mod.points_in_hull >= 2 /\ FitsBars(mod, bars)

Adds(mod, p, l, u, o) == o = add_point(mod, p, l, u)

\* the first point
LEMMA AddFirst ==
    ASSUME NEW p \in RankedPoints, NEW l \in Nat, NEW u \in Nat \ {0},
           NEW o, Adds(NoPoints, p, l, u, o)
    PROVE  OnePoint(o, p, Bar(p, l, u)) /\ Seen(o, {Bar(p, l, u)})
<1>1. PICK bar : bar = Bar(p, l, u)
  OBVIOUS
<1>2. bar \in Bars /\ bar.top.x = p.x
  BY <1>1, BarOfPoint DEF RankedPoints
<1>3. o = [NoPoints EXCEPT !.points_in_hull = 1, !.last_x = p.x, !.first = p,
                           !.rectangle = <<bar.top, bar.bottom>>,
                           !.upper = <<bar.top>>, !.lower = <<bar.bottom>>]
  <2>1. NoPoints.points_in_hull = 0
    BY DEF NoPoints
  <2>2. QED
    BY <1>1, <2>1 DEF add_point, Adds
<1>4. OnePoint(o, p, bar)
  BY <1>3 DEF OnePoint, NoPoints
<1>5. QED
  BY <1>1, <1>2, <1>4 DEF Seen

\* a sequence of one element, and another
LEMMA OneMore ==
    ASSUME NEW S \in Seq(Points), NEW p, Len(S) = 1, S[1] = p, NEW q \in Points,
           NEW U, U = Append(S, q)
    PROVE  U \in Seq(Points) /\ Len(U) = 2 /\ U[1] = p /\ U[2] = q
<1>1. U \in Seq(Points) /\ Len(U) = Len(S) + 1
  BY ONLY S \in Seq(Points), q \in Points, U = Append(S, q), AppendProperties
<1>2. \A i \in 1 .. Len(S) : U[i] = S[i]
  BY ONLY S \in Seq(Points), q \in Points, U = Append(S, q), AppendProperties
<1>3. U[Len(S) + 1] = q
  BY ONLY S \in Seq(Points), q \in Points, U = Append(S, q), AppendProperties
<1>4. QED
  BY ONLY <1>1, <1>2, <1>3, Len(S) = 1, S[1] = p

\* the second point: the lines between opposite ends of the two bars
LEMMA AddSecond ==
    ASSUME NEW p \in RankedPoints, NEW c \in Bars, c.top.x = p.x, NEW mod, OnePoint(mod, p, c),
           NEW q \in RankedPoints, NEW l \in Nat, NEW u \in Nat \ {0}, p.x < q.x,
           NEW o, Adds(mod, q, l, u, o)
    PROVE  /\ FitsBars(o, {c, Bar(q, l, u)})
           /\ o.first = p /\ o.last_x = q.x /\ o.points_in_hull = 2
<1>1. PICK bar : bar = Bar(q, l, u)
  OBVIOUS
<1>2. bar \in Bars /\ bar.top.x = q.x
  BY <1>1, BarOfPoint DEF RankedPoints
<1>3. PICK t1, b1, t2, b2 : /\ t1 = c.top /\ b1 = c.bottom /\ t2 = bar.top /\ b2 = bar.bottom
  OBVIOUS
<1>4. /\ t1 \in Points /\ b1 \in Points /\ t2 \in Points /\ b2 \in Points
      /\ t1.x = b1.x /\ t2.x = b2.x /\ t1.x < t2.x /\ b1.y <= t1.y /\ b2.y <= t2.y
  <2>1. /\ t1 \in Points /\ b1 \in Points /\ t2 \in Points /\ b2 \in Points
        /\ t1.x = b1.x /\ t2.x = b2.x /\ b1.y < t1.y /\ b2.y < t2.y
    BY <1>2, <1>3, BarParts
  <2>2. t1.x < t2.x
    BY <1>2, <1>3
  <2>3. QED
    BY <2>1, <2>2 DEF Points
<1>5. mod.points_in_hull = 1
  BY DEF OnePoint
<1>6. o = [mod EXCEPT !.last_x = q.x, !.points_in_hull = @ + 1,
                      !.rectangle = @ \o <<b2, t2>>,
                      !.upper = Append(@, t2), !.lower = Append(@, b2)]
  BY <1>1, <1>3, <1>5 DEF add_point, OnePoint, Adds
<1>7. PICK A, C, D, E : /\ A = <<t1, b1>> /\ C = <<b2, t2>> /\ D = <<t1>> /\ E = <<b1>>
  OBVIOUS
<1>8. /\ A \in Seq(Points) /\ Len(A) = 2 /\ A[1] = t1 /\ A[2] = b1
      /\ C \in Seq(Points) /\ Len(C) = 2 /\ C[1] = b2 /\ C[2] = t2
      /\ D \in Seq(Points) /\ Len(D) = 1 /\ D[1] = t1
      /\ E \in Seq(Points) /\ Len(E) = 1 /\ E[1] = b1
  BY <1>4, <1>7
<1>9. /\ mod.points_in_hull = 1 /\ mod.last_x = p.x /\ mod.first = p
      /\ mod.rectangle = A /\ mod.lower = E /\ mod.lower_start = 1
      /\ mod.upper = D /\ mod.upper_start = 1
  BY <1>3, <1>7 DEF OnePoint
<1>10. mod \in Models
  <2>1. mod = [points_in_hull |-> 1, last_x |-> p.x, first |-> p, rectangle |-> A,
               lower |-> E, lower_start |-> 1, upper |-> D, upper_start |-> 1]
    BY <1>3, <1>7 DEF OnePoint
  <2>2. QED
    BY <1>8, <2>1 DEF Models, RankedPoints
<1>11. PICK R, U, L : R = A \o C /\ U = Append(D, t2) /\ L = Append(E, b2)
  OBVIOUS
<1>12. /\ R \in Seq(Points) /\ Len(R) = 4 /\ R[1] = t1 /\ R[2] = b1 /\ R[3] = b2 /\ R[4] = t2
  <2>0. A \in Seq(Points) /\ C \in Seq(Points) /\ R = A \o C
    BY ONLY <1>8, <1>11
  <2>1. R \in Seq(Points) /\ Len(R) = Len(A) + Len(C)
    BY ONLY <2>0, ConcatProperties
  <2>2. \A i \in 1 .. Len(A) + Len(C) : R[i] = IF i <= Len(A) THEN A[i] ELSE C[i - Len(A)]
    BY ONLY <2>0, ConcatProperties
  <2>3. \A i \in 1 .. 4 : R[i] = IF i <= 2 THEN A[i] ELSE C[i - 2]
    BY ONLY <1>8, <2>2
  <2>4. R[1] = A[1] /\ R[2] = A[2] /\ R[3] = C[1] /\ R[4] = C[2]
    BY ONLY <2>3
  <2>5. QED
    BY ONLY <1>8, <2>1, <2>4
<1>13. /\ U \in Seq(Points) /\ Len(U) = 2 /\ U[1] = t1 /\ U[2] = t2
       /\ L \in Seq(Points) /\ Len(L) = 2 /\ L[1] = b1 /\ L[2] = b2
  <2>1. U \in Seq(Points) /\ Len(U) = 2 /\ U[1] = t1 /\ U[2] = t2
    <3>1. D \in Seq(Points) /\ Len(D) = 1 /\ D[1] = t1 /\ t2 \in Points /\ U = Append(D, t2)
      BY ONLY <1>4, <1>8, <1>11
    <3>2. QED
      BY ONLY <3>1, OneMore
  <2>2. L \in Seq(Points) /\ Len(L) = 2 /\ L[1] = b1 /\ L[2] = b2
    <3>1. E \in Seq(Points) /\ Len(E) = 1 /\ E[1] = b1 /\ b2 \in Points /\ L = Append(E, b2)
      BY ONLY <1>4, <1>8, <1>11
    <3>2. QED
      BY ONLY <3>1, OneMore
  <2>3. QED
    BY <1>8, <2>1, <2>2
<1>14. Fitted(o, {t1, t2}, {b1, b2}) /\ o.first = p /\ o.last_x = q.x /\ o.points_in_hull = 2
  <2>1. Bounded(1, {t1, t2}, {b1, b2}, U, 1, 2, L, 1, 2, b2, t2)
    BY ONLY <1>4, <1>13, BoundedPair
  <2>2. o = [mod EXCEPT !.last_x = q.x, !.points_in_hull = 2,
                        !.rectangle = R, !.upper = U, !.lower = L]
    BY <1>6, <1>7, <1>9, <1>10, <1>11 DEF Models
  <2>3. q.x \in Int
    BY DEF RankedPoints
  <2>4. o \in Models
    BY ONLY <1>10, <1>12, <1>13, <2>2, <2>3 DEF Models
  <2>5. /\ o.points_in_hull = 2 /\ o.last_x = q.x /\ o.first = mod.first /\ o.rectangle = R
        /\ o.lower = L /\ o.lower_start = mod.lower_start
        /\ o.upper = U /\ o.upper_start = mod.upper_start
    BY ONLY <1>10, <2>2 DEF Models
  <2>6. Fitted(o, {t1, t2}, {b1, b2})
    <3>1. /\ Len(o.rectangle) = 4 /\ o.upper_start = 1 /\ o.lower_start = 1
          /\ Len(o.upper) = 2 /\ Len(o.lower) = 2 /\ o.upper = U /\ o.lower = L
          /\ o.rectangle[1] = t1 /\ o.rectangle[2] = b1
          /\ o.rectangle[3] = b2 /\ o.rectangle[4] = t2 /\ U[1] = t1 /\ L[1] = b1
      BY ONLY <1>9, <1>12, <1>13, <2>5
    <3>2. QED
      BY ONLY <2>1, <2>4, <3>1 DEF Fitted
  <2>7. QED
    BY <1>9, <2>5, <2>6
<1>15. Tops({c, bar}) = {t1, t2} /\ Bottoms({c, bar}) = {b1, b2}
  BY <1>3 DEF Tops, Bottoms
<1>16. QED
  BY <1>1, <1>2, <1>14, <1>15 DEF FitsBars

\* what add_point returns, by whether the point was taken
RejectedBy(mod, bars, o) ==
    o = NoPoints /\ mod.points_in_hull >= 2 /\ ~ SomeLineThrough(bars)
AcceptedBy(mod, bars, x, o) ==
    /\ FitsBars(o, bars) /\ TookPoint(mod, x, o)
    /\ o.points_in_hull \in Nat /\ o.points_in_hull >= 2

(***************************************************************************)
(* The point joins the model, whose extreme lines pass through the bars of *)
(* all points then; or it is rejected, and no line passes through them.    *)
(***************************************************************************)
LEMMA AddPoint ==
    ASSUME NEW mod, NEW bars, Seen(mod, bars),
           NEW q \in RankedPoints, NEW l \in Nat, NEW u \in Nat \ {0},
           \A c \in bars : c.top.x < q.x,
           NEW o, Adds(mod, q, l, u, o)
    PROVE  \/ RejectedBy(mod, bars \cup {Bar(q, l, u)}, o)
           \/ AcceptedBy(mod, bars \cup {Bar(q, l, u)}, q.x, o)
<1>1. PICK bar : bar = Bar(q, l, u)
  OBVIOUS
<1>2. bar \in Bars /\ bar.top.x = q.x /\ q.x \in Int
  BY <1>1, BarOfPoint DEF RankedPoints
<1>3. CASE \E p \in RankedPoints, c \in Bars :
              OnePoint(mod, p, c) /\ c.top.x = p.x /\ bars = {c}
  <2>1. PICK p \in RankedPoints, c \in Bars :
                OnePoint(mod, p, c) /\ c.top.x = p.x /\ bars = {c}
    BY <1>3
  <2>2. p.x < q.x
    BY <2>1
  <2>3. /\ FitsBars(o, {c, Bar(q, l, u)})
        /\ o.first = p /\ o.last_x = q.x /\ o.points_in_hull = 2
    BY ONLY <2>1, <2>2, q \in RankedPoints, l \in Nat, u \in Nat \ {0},
            Adds(mod, q, l, u, o), AddSecond
  <2>4. mod.points_in_hull = 1 /\ mod.first = p
    BY <2>1 DEF OnePoint
  <2>5. {c, Bar(q, l, u)} = bars \cup {Bar(q, l, u)}
    BY <2>1
  <2>6. FitsBars(o, bars \cup {Bar(q, l, u)})
    BY <2>3, <2>5
  <2>7. AcceptedBy(mod, bars \cup {Bar(q, l, u)}, q.x, o)
    BY <2>3, <2>4, <2>6 DEF AcceptedBy, TookPoint
  <2>8. QED
    BY <2>7
<1>4. CASE mod.points_in_hull \in Nat /\ mod.points_in_hull >= 2 /\ FitsBars(mod, bars)
  <2>1. After(bars, bar)
    BY <1>2 DEF After
  <2>2. PICK seen : Taken(mod, q.x, seen)
    BY DEF Taken
  <2>3. mod.points_in_hull # 0 /\ mod.points_in_hull # 1
    BY <1>4
  <2>4. o = IF Outside(mod, bar) THEN NoPoints
            ELSE RaiseFlattest(LowerSteepest(seen, bar.top), slope1(mod.rectangle), bar.bottom)
    BY <1>1, <2>2, <2>3 DEF add_point, Taken, Adds
  <2>5. CASE Outside(mod, bar)
    <3>1. ~ SomeLineThrough(bars \cup {bar})
      BY <1>2, <1>4, <2>1, <2>5, Rejects
    <3>2. RejectedBy(mod, bars \cup {Bar(q, l, u)}, o)
      BY <1>1, <1>4, <2>4, <2>5, <3>1 DEF RejectedBy
    <3>3. QED
      BY <3>2
  <2>6. CASE ~ Outside(mod, bar)
    <3>1. FitsBars(o, bars \cup {bar}) /\ TookPoint(mod, q.x, o)
      <4>1. Moved(mod, seen, bar, o)
        BY <2>4, <2>6 DEF Moved
      <4>2. FitsBars(mod, bars) /\ bar \in Bars /\ q.x \in Int
        BY <1>2, <1>4
      <4>3. ~ Outside(mod, bar)
        BY <2>6
      <4>4. PICK x : x = q.x
        OBVIOUS
      <4>5. FitsBars(mod, bars) /\ bar \in Bars /\ x \in Int /\ Taken(mod, x, seen)
        BY ONLY <2>2, <4>2, <4>4
      <4>6. FitsBars(o, bars \cup {bar})
        BY ONLY <2>1, <4>5, <4>1, <4>3, Joins
      <4>7. TookPoint(mod, x, o)
        BY ONLY <2>1, <4>5, <4>1, <4>3, Joins
      <4>8. QED
        BY <4>4, <4>6, <4>7
    <3>2. mod.points_in_hull + 1 \in Nat /\ mod.points_in_hull + 1 >= 2
      BY <1>4
    <3>3. AcceptedBy(mod, bars \cup {Bar(q, l, u)}, q.x, o)
      BY <1>1, <3>1, <3>2 DEF AcceptedBy, TookPoint
    <3>4. QED
      BY <3>3
  <2>7. QED
    BY <2>5, <2>6
<1>5. QED
  BY <1>3, <1>4 DEF Seen

-----------------------------------------------------------------------------
(* The points of a segmentation, and the model of the segment that grows.

   The points taken so far for the segment with the model mod, the next point
   being ps[n], and their bars: SegmentPoints and SegmentBars of any state. *)
TakenPoints(ps, n, mod) ==
    {i \in 1 .. n - 1 : /\ mod.first.x <= ps[i].x
                        /\ \A j \in 1 .. i - 1 : ps[j].x # ps[i].x}
BarAt(ps, i, e) == Bar(ps[i], IF i = 1 THEN 0 ELSE e, e)
TakenBars(ps, n, mod, e) == {BarAt(ps, i, e) : i \in TakenPoints(ps, n, mod)}

\* prev, the point that was taken last, is the q-th, and the first of its key
LastTaken(ps, n, prev, mod, q) ==
    /\ q \in 1 .. n - 1 /\ prev = ps[q]
    /\ \A i \in q .. n - 1 : ps[i].x = prev.x
    /\ \A i \in 1 .. q - 1 : ps[i].x < prev.x
    /\ mod.points_in_hull >= 2 => q >= 2

Taking(ps, n, prev, mod, e) ==
    /\ n \in Nat /\ 2 <= n /\ n <= Len(ps) + 1
    /\ \E q \in Nat : LastTaken(ps, n, prev, mod, q)
    /\ mod.last_x = prev.x /\ mod.first \in RankedPoints /\ mod.first.x <= prev.x
    /\ Seen(mod, TakenBars(ps, n, mod, e))

\* a model that has seen points counts them
LEMMA SeenHull ==
    ASSUME NEW mod, NEW bars, Seen(mod, bars)
    PROVE  mod.points_in_hull \in Nat /\ mod.points_in_hull > 0
  BY DEF Seen, OnePoint

\* the first point
LEMMA TakeFirst ==
    ASSUME NEW ps \in Seq(RankedPoints), Len(ps) >= 1, NEW e \in Nat \ {0},
           NEW o, Adds(NoPoints, ps[1], 0, e, o)
    PROVE  Taking(ps, 2, ps[1], o, e)
<1>1. PICK p : p = ps[1]
  OBVIOUS
<1>2. p \in RankedPoints
  BY <1>1, ElementOfSeq
<1>3. OnePoint(o, p, Bar(p, 0, e)) /\ Seen(o, {Bar(p, 0, e)})
  BY <1>1, <1>2, AddFirst
<1>4. o.first = p /\ o.last_x = p.x /\ o.points_in_hull = 1
  BY <1>3 DEF OnePoint
<1>5. p.x \in Int
  BY <1>2 DEF RankedPoints
<1>6. TakenPoints(ps, 2, o) = {1}
  BY <1>1, <1>4, <1>5 DEF TakenPoints
<1>7. BarAt(ps, 1, e) = Bar(p, 0, e)
  BY <1>1 DEF BarAt
<1>8. TakenBars(ps, 2, o, e) = {Bar(p, 0, e)}
  BY <1>6, <1>7 DEF TakenBars
<1>9. LastTaken(ps, 2, p, o, 1)
  BY <1>1, <1>4 DEF LastTaken
<1>10. Seen(o, TakenBars(ps, 2, o, e))
  BY <1>3, <1>8
<1>11. Len(ps) \in Nat /\ 2 <= Len(ps) + 1
  OBVIOUS
<1>12. QED
  BY <1>1, <1>2, <1>4, <1>5, <1>9, <1>10, <1>11 DEF Taking

\* a point that is equal to the one before
LEMMA TakeSkips ==
    ASSUME NEW ps \in Seq(RankedPoints), NEW n, NEW prev, NEW mod, NEW e,
           Taking(ps, n, prev, mod, e), n <= Len(ps), ps[n].x = prev.x
    PROVE  Taking(ps, n + 1, prev, mod, e)
<1>1. n \in Nat /\ n >= 2 /\ Len(ps) \in Nat
  BY DEF Taking
<1>2. PICK q \in Nat : LastTaken(ps, n, prev, mod, q)
  BY DEF Taking
<1>3. q \in 1 .. n - 1 /\ ps[q].x = prev.x
  BY <1>2 DEF LastTaken
<1>4. LastTaken(ps, n + 1, prev, mod, q)
  <2>1. \A i \in q .. n : ps[i].x = prev.x
    <3>1. SUFFICES ASSUME NEW i \in q .. n PROVE ps[i].x = prev.x
      OBVIOUS
    <3>2. i = n \/ i \in q .. n - 1
      BY <1>1, <1>3
    <3>3. QED
      BY <1>2, <3>2 DEF LastTaken
  <2>2. QED
    BY <1>1, <1>2, <2>1 DEF LastTaken
<1>5. TakenPoints(ps, n + 1, mod) = TakenPoints(ps, n, mod)
  <2>1. n \notin TakenPoints(ps, n + 1, mod)
    BY <1>1, <1>3 DEF TakenPoints
  <2>2. 1 .. (n + 1) - 1 = (1 .. n - 1) \cup {n}
    BY <1>1
  <2>3. QED
    BY <1>1, <2>1, <2>2 DEF TakenPoints
<1>6. TakenBars(ps, n + 1, mod, e) = TakenBars(ps, n, mod, e)
  BY <1>5 DEF TakenBars
<1>7. n + 1 \in Nat /\ 2 <= n + 1 /\ n + 1 <= Len(ps) + 1
  BY <1>1
<1>8. QED
  BY <1>4, <1>6, <1>7, q \in Nat DEF Taking

\* what holds of the keys in front of a point with a larger key
LEMMA KeysBefore ==
    ASSUME NEW ps \in Seq(RankedPoints), NEW n, NEW prev, NEW mod, NEW e,
           Taking(ps, n, prev, mod, e), n <= Len(ps), ps[n].x > prev.x
    PROVE  /\ n \in Nat /\ n >= 2 /\ n \in 1 .. Len(ps)
           /\ ps[n] \in RankedPoints /\ prev \in RankedPoints
           /\ ps[n].x \in Int /\ prev.x \in Int
           /\ \A i \in 1 .. n - 1 : ps[i] \in RankedPoints /\ ps[i].x \in Int
                                    /\ ps[i].x <= prev.x /\ ps[i].x < ps[n].x
<1>1. n \in Nat /\ n >= 2 /\ Len(ps) \in Nat /\ n \in 1 .. Len(ps)
  BY DEF Taking
<1>2. PICK q \in Nat : LastTaken(ps, n, prev, mod, q)
  BY DEF Taking
<1>3. q \in 1 .. n - 1 /\ ps[q] = prev
  BY <1>2 DEF LastTaken
<1>4. \A i \in 1 .. Len(ps) : ps[i] \in RankedPoints
  BY ElementOfSeq
<1>5. \A i \in 1 .. Len(ps) : ps[i].x \in Int
  BY <1>4 DEF RankedPoints
<1>6. /\ ps[n] \in RankedPoints /\ ps[n].x \in Int
      /\ prev \in RankedPoints /\ prev.x \in Int
  BY <1>1, <1>3, <1>4, <1>5
<1>7. ASSUME NEW i \in 1 .. n - 1
      PROVE  ps[i] \in RankedPoints /\ ps[i].x \in Int
             /\ ps[i].x <= prev.x /\ ps[i].x < ps[n].x
  <2>1. i \in 1 .. Len(ps)
    BY <1>1
  <2>2. i \in q .. n - 1 \/ i \in 1 .. q - 1
    BY <1>1, <1>3
  <2>3. ps[i].x = prev.x \/ ps[i].x < prev.x
    BY <1>2, <2>2 DEF LastTaken
  <2>4. ps[i] \in RankedPoints /\ ps[i].x \in Int
    BY <1>4, <1>5, <2>1
  <2>5. QED
    BY <1>6, <2>3, <2>4
<1>8. QED
  BY <1>1, <1>6, <1>7

\* such a point is the last one taken then
LEMMA NewLast ==
    ASSUME NEW ps \in Seq(RankedPoints), NEW n, NEW prev, NEW mod, NEW e, NEW o,
           Taking(ps, n, prev, mod, e), n <= Len(ps), ps[n].x > prev.x
    PROVE  LastTaken(ps, n + 1, ps[n], o, n)
<1>1. n \in Nat /\ n >= 2 /\ \A i \in 1 .. n - 1 : ps[i].x < ps[n].x
  BY KeysBefore
<1>2. \A i \in n .. (n + 1) - 1 : i = n
  BY <1>1
<1>3. n \in 1 .. (n + 1) - 1
  BY <1>1
<1>4. QED
  BY <1>1, <1>2, <1>3 DEF LastTaken

\* the bars of the points taken are in order
LEMMA BarsBefore ==
    ASSUME NEW ps \in Seq(RankedPoints), NEW n, NEW prev, NEW mod, NEW e \in Nat \ {0},
           Taking(ps, n, prev, mod, e), n <= Len(ps), ps[n].x > prev.x,
           NEW c \in TakenBars(ps, n, mod, e)
    PROVE  c.top.x < ps[n].x
<1>1. PICK i \in TakenPoints(ps, n, mod) : c = BarAt(ps, i, e)
  BY DEF TakenBars
<1>2. i \in 1 .. n - 1
  BY <1>1 DEF TakenPoints
<1>3. ps[i].x < ps[n].x
  BY <1>2, KeysBefore
<1>4. c.top.x = ps[i].x
  BY <1>1 DEF BarAt, Bar
<1>5. QED
  BY <1>3, <1>4

\* with the point, the segment's points are those of before and its own
LEMMA PointsJoin ==
    ASSUME NEW ps \in Seq(RankedPoints), NEW n, NEW prev, NEW mod, NEW e, NEW o,
           Taking(ps, n, prev, mod, e), n <= Len(ps), ps[n].x > prev.x, o.first = mod.first
    PROVE  /\ TakenBars(ps, n + 1, o, e) = TakenBars(ps, n, mod, e) \cup {Bar(ps[n], e, e)}
           /\ BarAt(ps, n, e) = Bar(ps[n], e, e)
<1>1. /\ n \in Nat /\ n >= 2 /\ prev.x \in Int /\ ps[n].x \in Int
      /\ \A i \in 1 .. n - 1 : ps[i].x < ps[n].x
  BY KeysBefore
<1>2. mod.first.x \in Int /\ mod.first.x <= prev.x
  BY DEF Taking, RankedPoints
<1>3. mod.first.x <= ps[n].x
  BY <1>1, <1>2
<1>4. \A j \in 1 .. n - 1 : ps[j].x # ps[n].x
  BY <1>1
<1>5. 1 .. (n + 1) - 1 = (1 .. n - 1) \cup {n}
  BY <1>1
<1>6. TakenPoints(ps, n + 1, o) = TakenPoints(ps, n, mod) \cup {n}
  BY <1>3, <1>4, <1>5 DEF TakenPoints
<1>7. BarAt(ps, n, e) = Bar(ps[n], e, e)
  BY <1>1 DEF BarAt
<1>8. QED
  BY <1>6, <1>7 DEF TakenBars

\* o is the model mod with the point ps[n]
Extends(ps, n, mod, e, o) ==
    /\ Taking(ps, n + 1, ps[n], o, e)
    /\ o.first = mod.first /\ o.points_in_hull \in Nat /\ o.points_in_hull >= 2

(***************************************************************************)
(* The next point with a larger key joins the segment, or no line passes   *)
(* through the segment's bars and its own.                                 *)
(***************************************************************************)
LEMMA TakeNext ==
    ASSUME NEW ps \in Seq(RankedPoints), NEW n, NEW prev, NEW mod, NEW e \in Nat \ {0}, NEW o,
           Taking(ps, n, prev, mod, e), n <= Len(ps), ps[n].x > prev.x,
           Adds(mod, ps[n], e, e, o)
    PROVE  \/ RejectedBy(mod, TakenBars(ps, n, mod, e) \cup {BarAt(ps, n, e)}, o)
           \/ Extends(ps, n, mod, e, o)
<1>1. PICK p, bars : p = ps[n] /\ bars = TakenBars(ps, n, mod, e)
  OBVIOUS
<1>2. p \in RankedPoints /\ p.x \in Int /\ prev.x \in Int /\ p.x > prev.x
      /\ n \in Nat /\ n >= 2
  BY <1>1, KeysBefore
<1>3. Seen(mod, bars) /\ mod.first \in RankedPoints /\ mod.first.x <= prev.x
  BY <1>1 DEF Taking
<1>4. \A c \in bars : c.top.x < p.x
  BY <1>1, BarsBefore
<1>5. BarAt(ps, n, e) = Bar(p, e, e)
  BY <1>1, <1>2 DEF BarAt
<1>6. e \in Nat /\ Adds(mod, p, e, e, o)
  BY <1>1
<1>7. \/ RejectedBy(mod, bars \cup {Bar(p, e, e)}, o)
      \/ AcceptedBy(mod, bars \cup {Bar(p, e, e)}, p.x, o)
  BY ONLY <1>2, <1>3, <1>4, <1>6, e \in Nat \ {0}, AddPoint
<1>8. CASE AcceptedBy(mod, bars \cup {Bar(p, e, e)}, p.x, o)
  <2>1. /\ FitsBars(o, bars \cup {Bar(p, e, e)}) /\ o.first = mod.first /\ o.last_x = p.x
        /\ o.points_in_hull \in Nat /\ o.points_in_hull >= 2
    BY <1>8 DEF AcceptedBy, TookPoint
  <2>2. TakenBars(ps, n + 1, o, e) = bars \cup {Bar(p, e, e)}
    BY <1>1, <2>1, PointsJoin
  <2>3. Seen(o, TakenBars(ps, n + 1, o, e))
    BY <2>1, <2>2 DEF Seen
  <2>4. LastTaken(ps, n + 1, ps[n], o, n)
    BY NewLast
  <2>5. o.first.x <= p.x
    BY SMTT(20), <1>2, <1>3, <2>1 DEF RankedPoints
  <2>6. n + 1 \in Nat /\ 2 <= n + 1 /\ n + 1 <= Len(ps) + 1
    BY <1>2
  <2>7. Taking(ps, n + 1, ps[n], o, e)
    BY <1>1, <1>2, <1>3, <2>1, <2>3, <2>4, <2>5, <2>6 DEF Taking
  <2>8. QED
    BY <2>1, <2>7 DEF Extends
<1>9. QED
  BY <1>1, <1>5, <1>7, <1>8

\* a segment begins behind the last one
LEMMA TakeApart ==
    ASSUME NEW ps \in Seq(RankedPoints), NEW n, NEW prev, NEW mod, NEW e \in Nat \ {0}, NEW o,
           Taking(ps, n, prev, mod, e), n <= Len(ps), ps[n].x > prev.x,
           Adds(NoPoints, ps[n], e, e, o)
    PROVE  Taking(ps, n + 1, ps[n], o, e)
<1>1. PICK p : p = ps[n]
  OBVIOUS
<1>2. /\ p \in RankedPoints /\ p.x \in Int /\ n \in Nat /\ n >= 2
      /\ \A i \in 1 .. n - 1 : ps[i].x \in Int /\ ps[i].x < p.x
  BY <1>1, KeysBefore
<1>3. e \in Nat /\ Adds(NoPoints, p, e, e, o)
  BY <1>1
<1>4. OnePoint(o, p, Bar(p, e, e)) /\ Seen(o, {Bar(p, e, e)})
  BY <1>2, <1>3, AddFirst
<1>5. o.first = p /\ o.last_x = p.x /\ o.points_in_hull = 1
  BY <1>4 DEF OnePoint
<1>6. TakenPoints(ps, n + 1, o) = {n}
  <2>1. ASSUME NEW i \in TakenPoints(ps, n + 1, o) PROVE i = n
    <3>1. i \in 1 .. (n + 1) - 1 /\ p.x <= ps[i].x
      BY <1>5 DEF TakenPoints
    <3>2. i \notin 1 .. n - 1
      <4>1. SUFFICES ASSUME i \in 1 .. n - 1 PROVE FALSE
        OBVIOUS
      <4>2. QED
        BY <1>2, <3>1, <4>1
    <3>3. QED
      BY <1>2, <3>1, <3>2
  <2>2. p.x <= ps[n].x /\ \A j \in 1 .. n - 1 : ps[j].x # ps[n].x
    <3>1. \A j \in 1 .. n - 1 : ps[j].x # p.x
      BY <1>2
    <3>2. QED
      BY <1>1, <1>2, <3>1
  <2>3. n \in TakenPoints(ps, n + 1, o)
    BY <1>2, <1>5, <2>2 DEF TakenPoints
  <2>4. QED
    BY <2>1, <2>3
<1>7. BarAt(ps, n, e) = Bar(p, e, e)
  BY <1>1, <1>2 DEF BarAt
<1>8. TakenBars(ps, n + 1, o, e) = {Bar(p, e, e)}
  BY <1>6, <1>7 DEF TakenBars
<1>9. LastTaken(ps, n + 1, ps[n], o, n)
  BY NewLast
<1>10. n + 1 \in Nat /\ 2 <= n + 1 /\ n + 1 <= Len(ps) + 1 /\ p.x <= p.x
  BY <1>2
<1>11. Seen(o, TakenBars(ps, n + 1, o, e))
  BY <1>4, <1>8
<1>12. QED
  BY <1>1, <1>2, <1>5, <1>9, <1>10, <1>11 DEF Taking

\* a segment begins with the last point of the one before
LEMMA TakeConnected ==
    ASSUME NEW ps \in Seq(RankedPoints), NEW n, NEW prev, NEW mod, NEW e \in Nat \ {0},
           NEW m, NEW o,
           Taking(ps, n, prev, mod, e), n <= Len(ps), ps[n].x > prev.x,
           mod.points_in_hull >= 2, Adds(NoPoints, prev, e, e, m), Adds(m, ps[n], e, e, o)
    PROVE  Taking(ps, n + 1, ps[n], o, e)
<1>1. PICK p : p = ps[n]
  OBVIOUS
<1>2. /\ p \in RankedPoints /\ p.x \in Int /\ prev \in RankedPoints /\ prev.x \in Int
      /\ prev.x < p.x /\ n \in Nat /\ n >= 2
      /\ \A i \in 1 .. n - 1 : ps[i].x \in Int /\ ps[i].x < p.x
  BY <1>1, KeysBefore
<1>3. PICK q \in Nat : LastTaken(ps, n, prev, mod, q)
  BY DEF Taking
<1>4. /\ q \in 1 .. n - 1 /\ ps[q] = prev /\ q >= 2
      /\ \A i \in q .. n - 1 : ps[i].x = prev.x
      /\ \A i \in 1 .. q - 1 : ps[i].x < prev.x
  BY <1>3 DEF LastTaken
<1>5. PICK c, bar : c = Bar(prev, e, e) /\ bar = Bar(p, e, e)
  OBVIOUS
<1>6. e \in Nat /\ e \in Nat \ {0} /\ Adds(m, p, e, e, o)
  BY <1>1
<1>7. OnePoint(m, prev, c)
  <2>1. Adds(NoPoints, prev, e, e, m) /\ prev \in RankedPoints
    BY <1>2
  <2>2. OnePoint(m, prev, Bar(prev, e, e))
    BY ONLY <1>6, <2>1, AddFirst
  <2>3. QED
    BY <1>5, <2>2
<1>8. c \in Bars /\ c.top.x = prev.x
  BY <1>2, <1>5, <1>6, BarOfPoint DEF RankedPoints
<1>9. /\ FitsBars(o, {c, Bar(p, e, e)})
      /\ o.first = prev /\ o.last_x = p.x /\ o.points_in_hull = 2
  BY ONLY <1>2, <1>6, <1>7, <1>8, AddSecond
<1>10. BarAt(ps, q, e) = c /\ BarAt(ps, n, e) = bar
  <2>1. q # 1 /\ n # 1
    BY <1>2, <1>4
  <2>2. QED
    BY <1>1, <1>4, <1>5, <2>1 DEF BarAt
<1>11. TakenPoints(ps, n + 1, o) = {q, n}
  <2>1. ASSUME NEW i \in TakenPoints(ps, n + 1, o) PROVE i \in {q, n}
    <3>1. /\ i \in 1 .. (n + 1) - 1 /\ prev.x <= ps[i].x
          /\ \A j \in 1 .. i - 1 : ps[j].x # ps[i].x
      BY <1>9 DEF TakenPoints
    <3>2. i \notin 1 .. q - 1
      <4>1. SUFFICES ASSUME i \in 1 .. q - 1 PROVE FALSE
        OBVIOUS
      <4>2. i \in 1 .. n - 1
        BY <1>2, <1>4, <4>1
      <4>3. ps[i].x < prev.x /\ ps[i].x \in Int
        BY <1>2, <1>4, <4>1, <4>2
      <4>4. QED
        BY <1>2, <3>1, <4>3
    <3>3. i \notin q + 1 .. n - 1
      <4>1. SUFFICES ASSUME i \in q + 1 .. n - 1 PROVE FALSE
        OBVIOUS
      <4>2. q \in 1 .. i - 1 /\ i \in q .. n - 1
        BY <1>2, <1>4, <4>1
      <4>3. ps[i].x = prev.x /\ ps[q].x # ps[i].x
        BY <1>4, <3>1, <4>2
      <4>4. QED
        BY <1>4, <4>3
    <3>4. QED
      BY <1>2, <1>4, <3>1, <3>2, <3>3
  <2>2. n \in TakenPoints(ps, n + 1, o)
    <3>1. prev.x <= ps[n].x
      BY <1>1, <1>2
    <3>2. \A j \in 1 .. n - 1 : ps[j].x # ps[n].x
      <4>1. \A j \in 1 .. n - 1 : ps[j].x # p.x
        BY <1>2
      <4>2. QED
        BY <1>1, <4>1
    <3>3. QED
      BY <1>2, <1>9, <3>1, <3>2 DEF TakenPoints
  <2>3. q \in TakenPoints(ps, n + 1, o)
    <3>1. prev.x <= ps[q].x /\ q \in 1 .. (n + 1) - 1
      BY <1>2, <1>4
    <3>2. \A j \in 1 .. q - 1 : ps[j].x # ps[q].x
      <4>1. SUFFICES ASSUME NEW j \in 1 .. q - 1 PROVE ps[j].x # prev.x
        BY <1>4
      <4>2. ps[j].x < prev.x /\ ps[j].x \in Int
        <5>1. j \in 1 .. n - 1
          BY <1>2, <1>4
        <5>2. QED
          BY <1>2, <1>4, <5>1
      <4>3. QED
        BY <1>2, <4>2
    <3>3. QED
      BY <1>9, <3>1, <3>2 DEF TakenPoints
  <2>4. QED
    BY <2>1, <2>2, <2>3
<1>12. TakenBars(ps, n + 1, o, e) = {c, bar}
  BY <1>10, <1>11 DEF TakenBars
<1>13. Seen(o, TakenBars(ps, n + 1, o, e))
  <2>1. FitsBars(o, TakenBars(ps, n + 1, o, e))
    BY <1>5, <1>9, <1>12
  <2>2. o.points_in_hull \in Nat /\ o.points_in_hull >= 2
    BY <1>9
  <2>3. QED
    BY <2>1, <2>2 DEF Seen
<1>14. LastTaken(ps, n + 1, ps[n], o, n)
  BY NewLast
<1>15. n + 1 \in Nat /\ 2 <= n + 1 /\ n + 1 <= Len(ps) + 1 /\ prev.x <= p.x
  BY <1>2
<1>16. QED
  BY <1>1, <1>2, <1>9, <1>13, <1>14, <1>15 DEF Taking

-----------------------------------------------------------------------------
(* The index under construction, as far as segmentations depend on it. *)
Keyed(segs) == \E S : segs \in Seq(S) /\ \A s \in S : s.key \in Int

Levels(idx) ==
    /\ "segments" \in DOMAIN idx /\ "levels_offsets" \in DOMAIN idx
    /\ Keyed(idx.segments)
    /\ idx.levels_offsets \in Seq(Nat) /\ Len(idx.levels_offsets) >= 1
    /\ idx.levels_offsets[Len(idx.levels_offsets)] <= Len(idx.segments)

UnderConstruction(idx) ==
    /\ "form" \in DOMAIN idx
    /\ idx.form \in {"succinct", "unaligned", "pgm"}
    /\ idx.form = "pgm" => Levels(idx)

\* the indexes that constructors begin with
LEMMA IndexBegun ==
    ASSUME NEW idx, NEW a, NEW b, NEW c,
           \/ idx = Succinct(a, b, c) \/ idx = Unaligned(a) \/ idx = EmptyPGM
    PROVE  UnderConstruction(idx) /\ LevelEpsilon(idx) = epsilon
<1>1. CASE idx = Succinct(a, b, c)
  BY <1>1 DEF Succinct, UnderConstruction, LevelEpsilon
<1>2. CASE idx = Unaligned(a)
  BY <1>2 DEF Unaligned, UnderConstruction, LevelEpsilon
<1>3. CASE idx = EmptyPGM
  <2>1. PICK zeros, none : zeros = <<0>> /\ none = <<>>
    OBVIOUS
  <2>2. /\ zeros \in Seq(Nat) /\ Len(zeros) = 1 /\ zeros[1] = 0
        /\ none \in Seq({}) /\ Len(none) = 0
    BY <2>1
  <2>3. idx = [form |-> "pgm", segments |-> none, levels_offsets |-> zeros]
    BY <1>3, <2>1 DEF EmptyPGM
  <2>4. /\ "form" \in DOMAIN idx /\ "segments" \in DOMAIN idx
        /\ "levels_offsets" \in DOMAIN idx
        /\ idx.form = "pgm" /\ idx.segments = none /\ idx.levels_offsets = zeros
    BY ONLY <2>3
  <2>5. Keyed(none)
    <3>1. PICK S : S = {}
      OBVIOUS
    <3>2. none \in Seq(S) /\ \A t \in S : t.key \in Int
      BY <2>2, <3>1
    <3>3. QED
      BY ONLY <3>2 DEF Keyed
  <2>6. Levels(idx)
    <3>1. /\ idx.levels_offsets \in Seq(Nat) /\ Len(idx.levels_offsets) >= 1
          /\ idx.levels_offsets[Len(idx.levels_offsets)] <= Len(idx.segments)
          /\ Keyed(idx.segments)
      <4>1. zeros[Len(zeros)] = 0 /\ Len(zeros) >= 1 /\ zeros \in Seq(Nat)
        BY ONLY <2>2
      <4>2. zeros[Len(zeros)] <= Len(none)
        BY ONLY <2>2, <4>1
      <4>3. QED
        BY ONLY <2>4, <2>5, <4>1, <4>2
    <3>2. QED
      BY ONLY <2>4, <3>1 DEF Levels
  <2>7. LevelEpsilon(idx) = epsilon
    <3>1. Len(idx.levels_offsets) = 1
      BY ONLY <2>2, <2>4
    <3>2. QED
      BY ONLY <3>1 DEF LevelEpsilon
  <2>8. QED
    BY <2>4, <2>6, <2>7 DEF UnderConstruction
<1>4. QED
  BY <1>1, <1>2, <1>3

\* one of the indexes with a segment more
UnalignedLine(old, cs, p, fit, low) ==
    LET slope == MeanSlope(cs)
        key == cs.first.x
        intercept == Lesser(old.after_last, fit)
    IN  [old EXCEPT
            !.segments = Append(@, [key |-> key, slope |-> slope,
                                    intercept |-> intercept, low |-> low]),
            !.first_segment = IF @ = <<>> THEN <<cs>> ELSE @,
            !.after_last = Round(p.x - key, slope, low) + intercept + 1]

LevelBy(old, cs, intercept, low, idx) ==
    LET slope == MeanSlope(cs)
        key == cs.first.x
    IN  idx = [old EXCEPT !.segments = Append(@, LevelSegment(key, slope, intercept, low))]

\* a sequence over a larger set
LEMMA SeqOfMore ==
    ASSUME NEW S, NEW T, S \subseteq T, NEW s \in Seq(S)
    PROVE  s \in Seq(T)
<1>1. Len(s) \in Nat /\ s \in [1 .. Len(s) -> S]
  OBVIOUS
<1>2. s \in [1 .. Len(s) -> T]
  BY ONLY <1>1, S \subseteq T
<1>3. QED
  BY ONLY <1>1, <1>2

\* a segment appended
LEMMA KeyedMore ==
    ASSUME NEW segs, Keyed(segs), NEW s, s.key \in Int, NEW more, more = Append(segs, s)
    PROVE  Keyed(more) /\ Len(more) = Len(segs) + 1 /\ Len(segs) \in Nat
<1>1. PICK S : segs \in Seq(S) /\ \A t \in S : t.key \in Int
  BY DEF Keyed
<1>2. PICK T : T = S \cup {s}
  OBVIOUS
<1>3. \A t \in T : t.key \in Int
  BY <1>1, <1>2
<1>4. segs \in Seq(T) /\ s \in T
  BY <1>1, <1>2, SeqOfMore
<1>5. more \in Seq(T) /\ Len(more) = Len(segs) + 1 /\ Len(segs) \in Nat
  BY ONLY <1>4, more = Append(segs, s), AppendProperties
<1>6. QED
  BY <1>3, <1>5 DEF Keyed

(***************************************************************************)
(* A segment that is added leaves the form of the index, and the bound its *)
(* segmentation keeps to.                                                  *)
(***************************************************************************)
LEMMA SegmentAdded ==
    ASSUME NEW idx, UnderConstruction(index), idx \in WithSegment,
           opt.first \in RankedPoints
    PROVE  /\ UnderConstruction(idx) /\ idx.form = index.form
           /\ LevelEpsilon(idx) = LevelEpsilon(index)
<1>1. PICK cs : cs = get_segment(opt)
  OBVIOUS
<1>2. cs.first.x \in Int
  BY <1>1 DEF get_segment, RankedPoints
<1>3. CASE index.form = "succinct"
  <2>1. idx = AddSuccinct(index, cs, previous)
    BY <1>1, <1>3 DEF WithSegment
  <2>2. PICK f, g, h : idx = [index EXCEPT !.xs = f, !.ys = g, !.yshifts = h]
    BY <2>1 DEF AddSuccinct
  <2>3. "form" \in DOMAIN idx /\ idx.form = index.form
    BY ONLY <2>2, UnderConstruction(index) DEF UnderConstruction
  <2>4. QED
    BY <1>3, <2>3 DEF UnderConstruction, LevelEpsilon
<1>4. CASE index.form = "unaligned"
  <2>1. idx \in AddUnaligned(index, cs, previous, LookedUp)
    BY <1>1, <1>4 DEF WithSegment
  <2>2. PICK fit, low : idx = UnalignedLine(index, cs, previous, fit, low)
    <3>1. AddUnaligned(index, cs, previous, LookedUp)
             = {UnalignedLine(index, cs, previous, fit, low) :
                  fit \in Intercepts(cs, cs.first.x),
                  low \in SUBSET Ties({x - cs.first.x :
                              x \in {y \in LookedUp : y >= cs.first.x}}, MeanSlope(cs))}
      BY DEF AddUnaligned, UnalignedLine
    <3>2. QED
      BY <2>1, <3>1
  <2>3. "form" \in DOMAIN idx /\ idx.form = index.form
    BY ONLY <2>2, UnderConstruction(index) DEF UnderConstruction, UnalignedLine
  <2>4. QED
    BY <1>4, <2>3 DEF UnderConstruction, LevelEpsilon
<1>5. CASE index.form = "pgm"
  <2>1. idx \in AddLevelSegment(index, cs, LookedUp)
    BY <1>1, <1>5 DEF WithSegment
  <2>2. PICK s, more : /\ s.key = cs.first.x /\ more = Append(index.segments, s)
                       /\ idx = [index EXCEPT !.segments = more]
    <3>1. PICK intercept, low : LevelBy(index, cs, intercept, low, idx)
      BY <2>1 DEF AddLevelSegment, LevelBy
    <3>2. PICK s, more : /\ s = LevelSegment(cs.first.x, MeanSlope(cs), intercept, low)
                         /\ more = Append(index.segments, s)
      OBVIOUS
    <3>3. s.key = cs.first.x
      BY <3>2 DEF LevelSegment
    <3>4. idx = [index EXCEPT !.segments = more]
      BY <3>1, <3>2 DEF LevelBy
    <3>5. QED
      BY <3>2, <3>3, <3>4
  <2>3. Levels(index) /\ "form" \in DOMAIN index
    BY <1>5 DEF UnderConstruction
  <2>4. /\ "form" \in DOMAIN idx /\ idx.form = index.form
        /\ "segments" \in DOMAIN idx /\ "levels_offsets" \in DOMAIN idx
        /\ idx.levels_offsets = index.levels_offsets /\ idx.segments = more
    BY ONLY <2>2, <2>3 DEF Levels
  <2>5. Keyed(more) /\ Len(more) = Len(index.segments) + 1 /\ Len(index.segments) \in Nat
    BY <1>2, <2>2, <2>3, KeyedMore DEF Levels
  <2>6. Levels(idx)
    <3>1. /\ index.levels_offsets \in Seq(Nat) /\ Len(index.levels_offsets) >= 1
          /\ index.levels_offsets[Len(index.levels_offsets)] <= Len(index.segments)
      BY <2>3 DEF Levels
    <3>2. index.levels_offsets[Len(index.levels_offsets)] \in Nat
      BY <3>1
    <3>3. QED
      BY <2>4, <2>5, <3>1, <3>2 DEF Levels
  <2>7. QED
    BY <1>5, <2>4, <2>6 DEF UnderConstruction, LevelEpsilon
<1>6. QED
  BY <1>3, <1>4, <1>5 DEF UnderConstruction

\* segments appended
LEMMA KeyedConcatenated ==
    ASSUME NEW segs, Keyed(segs), NEW more, Keyed(more), NEW all, all = segs \o more
    PROVE  /\ Keyed(all) /\ Len(all) = Len(segs) + Len(more)
           /\ Len(segs) \in Nat /\ Len(more) \in Nat
<1>1. PICK S, R : /\ segs \in Seq(S) /\ \A t \in S : t.key \in Int
                  /\ more \in Seq(R) /\ \A t \in R : t.key \in Int
  BY DEF Keyed
<1>2. PICK T : T = S \cup R
  OBVIOUS
<1>3. \A t \in T : t.key \in Int
  BY <1>1, <1>2
<1>4. segs \in Seq(T) /\ more \in Seq(T)
  BY <1>1, <1>2, SeqOfMore
<1>5. /\ all \in Seq(T) /\ Len(all) = Len(segs) + Len(more)
      /\ Len(segs) \in Nat /\ Len(more) \in Nat
  BY ONLY <1>4, all = segs \o more, ConcatProperties
<1>6. QED
  BY <1>3, <1>5 DEF Keyed

\* one segment
LEMMA KeyedOne ==
    ASSUME NEW s, s.key \in Int, NEW one, one = <<s>>
    PROVE  Keyed(one) /\ Len(one) = 1
<1>1. PICK S : S = {s}
  OBVIOUS
<1>2. one \in Seq(S) /\ Len(one) = 1 /\ \A t \in S : t.key \in Int
  BY <1>1
<1>3. QED
  BY <1>2 DEF Keyed

\* no segment
LEMMA KeyedNone ==
    ASSUME NEW none, none = <<>>
    PROVE  Keyed(none) /\ Len(none) = 0
<1>1. PICK S : S = {}
  OBVIOUS
<1>2. none \in Seq(S) /\ Len(none) = 0 /\ \A t \in S : t.key \in Int
  BY <1>1
<1>3. QED
  BY <1>2 DEF Keyed

\* some of the segments
LEMMA KeyedPart ==
    ASSUME NEW segs, Keyed(segs), NEW a \in 1 .. Len(segs) + 1, NEW b \in 0 .. Len(segs),
           NEW part, part = SubSeq(segs, a, b)
    PROVE  Keyed(part)
<1>1. PICK S : segs \in Seq(S) /\ \A t \in S : t.key \in Int
  BY DEF Keyed
<1>2. part \in Seq(S)
  <2>1. Len(segs) \in Nat /\ a \in Nat /\ b \in Nat /\ \A i \in 1 .. Len(segs) : segs[i] \in S
    BY <1>1, ElementOfSeq
  <2>2. a \in Int /\ b \in Int /\ \A i \in a .. b : segs[i] \in S
    BY <2>1
  <2>3. QED
    BY ONLY <2>2, part = SubSeq(segs, a, b), SubSeqProperties
<1>3. QED
  BY <1>1, <1>2 DEF Keyed

(***************************************************************************)
(* A level that ends has keys again, which can be segmented.               *)
(***************************************************************************)
LEMMA LevelEnds ==
    ASSUME NEW old, UnderConstruction(old), old.form = "pgm",
           NEW n, NEW lastKey \in Int, NEW idx, idx = EndLevel(old, n, lastKey)
    PROVE  /\ UnderConstruction(idx) /\ idx.form = "pgm"
           /\ LevelEpsilon(idx) = epsilon_recursive
           /\ Keyed(LastLevel(idx))
<1>1. Levels(old) /\ "form" \in DOMAIN old
  BY DEF UnderConstruction
<1>2. PICK segs, offs : segs = old.segments /\ offs = old.levels_offsets
  OBVIOUS
<1>3. /\ Keyed(segs) /\ offs \in Seq(Nat) /\ Len(offs) >= 1 /\ offs[Len(offs)] <= Len(segs)
      /\ "segments" \in DOMAIN old /\ "levels_offsets" \in DOMAIN old
  BY <1>1, <1>2 DEF Levels
<1>4. PICK beyond, end :
         /\ beyond = IF n > 1 /\ segs[Len(segs)].slope.num = 0
                     THEN <<FlatSegment(lastKey + 1, n)>> ELSE <<>>
         /\ end = <<FlatSegment(SentinelKey, n)>>
  OBVIOUS
<1>5. FlatSegment(lastKey + 1, n).key \in Int /\ FlatSegment(SentinelKey, n).key \in Int
  BY RecursiveAssumption DEF FlatSegment, LevelSegment
<1>6. Keyed(beyond) /\ Keyed(end) /\ Len(end) = 1
  <2>1. Keyed(end) /\ Len(end) = 1
    BY <1>4, <1>5, KeyedOne
  <2>2. beyond = <<FlatSegment(lastKey + 1, n)>> \/ beyond = <<>>
    BY <1>4
  <2>3. Keyed(beyond)
    BY <1>5, <2>2, KeyedOne, KeyedNone
  <2>4. QED
    BY <2>1, <2>3
<1>7. PICK front, all, more : /\ front = segs \o beyond /\ all = front \o end
                              /\ more = Append(offs, Len(all))
  OBVIOUS
<1>8. /\ Keyed(all) /\ Len(all) \in Nat /\ Len(segs) \in Nat /\ Len(all) >= Len(segs) + 1
  <2>1. Keyed(front) /\ Len(front) = Len(segs) + Len(beyond)
        /\ Len(segs) \in Nat /\ Len(beyond) \in Nat
    BY ONLY <1>3, <1>6, <1>7, KeyedConcatenated
  <2>2. Keyed(all) /\ Len(all) = Len(front) + Len(end)
    BY ONLY <1>6, <1>7, <2>1, KeyedConcatenated
  <2>3. QED
    BY <1>6, <2>1, <2>2
<1>9. idx = [old EXCEPT !.segments = all, !.levels_offsets = more]
  BY <1>2, <1>4, <1>7 DEF EndLevel
<1>10. /\ "form" \in DOMAIN idx /\ idx.form = "pgm"
       /\ "segments" \in DOMAIN idx /\ "levels_offsets" \in DOMAIN idx
       /\ idx.segments = all /\ idx.levels_offsets = more
  BY ONLY <1>1, <1>3, <1>9, old.form = "pgm"
<1>11. PICK l, o : l = Len(offs) /\ o = offs[l]
  OBVIOUS
<1>12. l \in Nat /\ l >= 1 /\ o \in Nat /\ o <= Len(segs)
  BY <1>3, <1>11
<1>13. more \in Seq(Nat) /\ Len(more) = l + 1 /\ more[l] = o /\ more[l + 1] = Len(all)
  <2>1. offs \in Seq(Nat) /\ Len(all) \in Nat /\ more = Append(offs, Len(all))
    BY <1>3, <1>7, <1>8
  <2>2. more \in Seq(Nat) /\ Len(more) = Len(offs) + 1 /\ more[Len(offs) + 1] = Len(all)
    BY ONLY <2>1, AppendProperties
  <2>3. \A i \in 1 .. Len(offs) : more[i] = offs[i]
    BY ONLY <2>1, AppendProperties
  <2>4. QED
    BY ONLY <1>11, <1>12, <2>2, <2>3
<1>14. Levels(idx)
  <2>1. Len(more) >= 1 /\ more[Len(more)] <= Len(all)
    BY ONLY <1>8, <1>12, <1>13
  <2>2. QED
    BY ONLY <1>8, <1>10, <1>13, <2>1 DEF Levels
<1>15. LevelEpsilon(idx) = epsilon_recursive
  <2>1. Len(idx.levels_offsets) > 1 /\ idx.form = "pgm"
    BY ONLY <1>10, <1>12, <1>13
  <2>2. QED
    BY ONLY <2>1 DEF LevelEpsilon
<1>16. Keyed(LastLevel(idx))
  <2>1. LastLevel(idx) = SubSeq(all, o + 1, Len(all) - 1)
    <3>1. (l + 1) - 1 = l
      BY <1>12
    <3>2. QED
      BY <1>10, <1>13, <3>1 DEF LastLevel
  <2>2. o + 1 \in 1 .. Len(all) + 1 /\ Len(all) - 1 \in 0 .. Len(all)
    BY ONLY <1>8, <1>12
  <2>3. QED
    BY ONLY <1>8, <2>1, <2>2, KeyedPart
<1>17. QED
  BY <1>10, <1>14, <1>15, <1>16 DEF UnderConstruction

\* the points of a level: the keys of its segments, and their numbers
LEMMA LevelPoints ==
    ASSUME NEW level, Keyed(level), NEW ps,
           ps = [i \in 1 .. Len(level) |-> [x |-> level[i].key, y |-> i - 1]]
    PROVE  ps \in Seq(RankedPoints) /\ Len(ps) = Len(level)
<1>1. PICK S : level \in Seq(S) /\ \A t \in S : t.key \in Int
  BY DEF Keyed
<1>2. Len(level) \in Nat /\ \A i \in 1 .. Len(level) : level[i].key \in Int
  BY <1>1, ElementOfSeq
<1>3. ps \in [1 .. Len(level) -> RankedPoints]
  BY <1>2 DEF RankedPoints
<1>4. PICK n : n = Len(level)
  OBVIOUS
<1>5. n \in Nat /\ ps \in [1 .. n -> RankedPoints]
  BY <1>2, <1>3, <1>4
<1>6. ps \in Seq(RankedPoints) /\ Len(ps) = n
  BY ONLY <1>5
<1>7. QED
  BY <1>4, <1>6

-----------------------------------------------------------------------------
(* The steps of the segmentation. *)
SegmentGrows ==
    /\ UnderConstruction(index) /\ LevelEpsilon(index) \in Nat \ {0}
    /\ points \in Seq(RankedPoints)
    /\ Taking(points, next, previous, opt, LevelEpsilon(index))

(***************************************************************************)
(* While a segment grows, its model has seen the bars of all its points,   *)
(* and the points before the next one are in order.                        *)
(***************************************************************************)
SegmentationInv ==
    /\ kind \in {"none", "succinct", "unaligned", "polymorphic", "pgm"}
    /\ kind = "none" => next = 0
    /\ kind # "none" => /\ data \in Seq(Nat) /\ N >= skip_first + 2
                        /\ epsilon \in Nat \ {0}
    /\ Segmenting => SegmentGrows

\* what the invariant says of a state
LEMMA BarsOfSegment ==
    /\ SegmentBars = TakenBars(points, next, opt, LevelEpsilon(index))
    /\ PointBar(next) = BarAt(points, next, LevelEpsilon(index))
  BY DEF SegmentBars, SegmentPoints, PointBar, TakenBars, TakenPoints, BarAt

\* a segmentation begins
LEMMA SegmentationBegins ==
    ASSUME NEW idx, NEW ps, Segmentation(idx, ps), UnderConstruction(idx),
           LevelEpsilon(idx) \in Nat \ {0}, ps \in Seq(RankedPoints), Len(ps) >= 1,
           epsilon' = epsilon
    PROVE  SegmentGrows'
<1>1. /\ index' = idx /\ points' = ps /\ next' = 2 /\ previous' = ps[1]
      /\ opt' = FirstPoint(idx, ps)
  BY DEF Segmentation
<1>2. LevelEpsilon(index)' = LevelEpsilon(idx)
  BY <1>1 DEF LevelEpsilon
<1>3. PICK e, o : e = LevelEpsilon(idx) /\ o = opt'
  OBVIOUS
<1>4. Adds(NoPoints, ps[1], 0, e, o) /\ e \in Nat \ {0}
  BY <1>1, <1>3 DEF FirstPoint, Adds
<1>5. Taking(ps, 2, ps[1], o, e)
  BY ONLY <1>4, ps \in Seq(RankedPoints), Len(ps) >= 1, TakeFirst
<1>6. UnderConstruction(index)'
  BY <1>1 DEF UnderConstruction, Levels, Keyed
<1>7. Taking(points, next, previous, opt, LevelEpsilon(index))'
  BY SMTT(20), <1>1, <1>2, <1>3, <1>5
     DEF Taking, LastTaken, TakenBars, TakenPoints, BarAt, Seen, OnePoint
<1>8. QED
  BY <1>1, <1>2, <1>6, <1>7 DEF SegmentGrows

\* a point that is not equal to the last one, and does not throw, is behind it
LEMMA PointBehind ==
    ASSUME SegmentGrows, next <= Len(points), ~ MustIncrease(opt, points[next])
    PROVE  points[next].x > previous.x /\ points[next].x \in Int /\ previous.x \in Int
<1>1. /\ points \in Seq(RankedPoints) /\ next \in Nat /\ 2 <= next
      /\ opt.last_x = previous.x
      /\ opt.points_in_hull \in Nat /\ opt.points_in_hull > 0
  BY SeenHull DEF SegmentGrows, Taking
<1>2. PICK q \in Nat : LastTaken(points, next, previous, opt, q)
  BY DEF SegmentGrows, Taking
<1>3. Len(points) \in Nat /\ \A i \in 1 .. Len(points) : points[i] \in RankedPoints
  BY <1>1, ElementOfSeq
<1>4. next \in 1 .. Len(points) /\ q \in 1 .. Len(points) /\ previous = points[q]
  BY <1>1, <1>2, <1>3 DEF LastTaken
<1>5. points[next].x \in Int /\ previous.x \in Int
  BY <1>3, <1>4 DEF RankedPoints
<1>6. QED
  BY <1>1, <1>5 DEF MustIncrease

\* the same, for the values that a step leaves
LEMMA GrowsAfter ==
    ASSUME NEW idx, NEW ps, NEW n, NEW prev, NEW o, NEW e,
           index' = idx, points' = ps, next' = n, previous' = prev, opt' = o, epsilon' = epsilon,
           UnderConstruction(idx), LevelEpsilon(idx) = e, e \in Nat \ {0},
           ps \in Seq(RankedPoints), Taking(ps, n, prev, o, e)
    PROVE  SegmentGrows'
<1>1. LevelEpsilon(index)' = e
  BY DEF LevelEpsilon
<1>2. UnderConstruction(index)'
  BY DEF UnderConstruction, Levels, Keyed
<1>3. Taking(points, next, previous, opt, LevelEpsilon(index))'
  BY <1>1
<1>4. QED
  BY <1>1, <1>2, <1>3 DEF SegmentGrows

\* an equal point is skipped
LEMMA SkipKeeps ==
    ASSUME SegmentGrows, SkipEqualPoint
    PROVE  SegmentGrows'
<1>1. PICK e : e = LevelEpsilon(index)
  OBVIOUS
<1>2. /\ index' = index /\ points' = points /\ next' = next + 1 /\ previous' = previous
      /\ opt' = opt /\ epsilon' = epsilon /\ next <= Len(points) /\ points[next].x = previous.x
  BY DEF SkipEqualPoint
<1>3. /\ UnderConstruction(index) /\ e \in Nat \ {0} /\ points \in Seq(RankedPoints)
      /\ Taking(points, next, previous, opt, e)
  BY <1>1 DEF SegmentGrows
<1>4. Taking(points, next + 1, previous, opt, e)
  BY <1>2, <1>3, TakeSkips
<1>5. QED
  BY <1>1, <1>2, <1>3, <1>4, GrowsAfter

\* a point joins the segment
LEMMA ExtendKeeps ==
    ASSUME SegmentGrows, ExtendSegment
    PROVE  SegmentGrows' /\ opt'.first = opt.first
<1>1. PICK e, o : e = LevelEpsilon(index) /\ o = Extended
  OBVIOUS
<1>2. /\ index' = index /\ points' = points /\ next' = next + 1 /\ previous' = points[next]
      /\ opt' = o /\ epsilon' = epsilon /\ next <= Len(points)
      /\ ~ MustIncrease(opt, points[next]) /\ o.points_in_hull > 0
  BY <1>1 DEF ExtendSegment
<1>3. /\ UnderConstruction(index) /\ e \in Nat \ {0} /\ points \in Seq(RankedPoints)
      /\ Taking(points, next, previous, opt, e)
  BY <1>1 DEF SegmentGrows
<1>4. points[next].x > previous.x
  BY <1>2, PointBehind
<1>5. Adds(opt, points[next], e, e, o)
  BY <1>1 DEF Extended, Joined, Adds
<1>6. ~ RejectedBy(opt, TakenBars(points, next, opt, e) \cup {BarAt(points, next, e)}, o)
  BY <1>2 DEF RejectedBy, NoPoints
<1>7. Taking(points, next + 1, points[next], o, e) /\ o.first = opt.first
  <2>1. next <= Len(points) /\ e \in Nat \ {0} /\ points \in Seq(RankedPoints)
        /\ Taking(points, next, previous, opt, e)
    BY <1>2, <1>3
  <2>2. Extends(points, next, opt, e, o)
    BY ONLY <1>4, <1>5, <1>6, <2>1, TakeNext
  <2>3. QED
    BY <2>2 DEF Extends
<1>8. SegmentGrows'
  BY <1>1, <1>2, <1>3, <1>7, GrowsAfter
<1>9. QED
  BY <1>2, <1>7, <1>8

\* a segment ends, the next begins
LEMMA NextKeeps ==
    ASSUME SegmentGrows, NextSegment, ~ UnexpectedShift
    PROVE  SegmentGrows'
<1>1. PICK e, o, r : e = LevelEpsilon(index) /\ o = Extended /\ r = Restarted
  OBVIOUS
<1>2. /\ index' \in WithSegment /\ points' = points /\ next' = next + 1
      /\ previous' = points[next]
      /\ opt' = r /\ epsilon' = epsilon /\ next <= Len(points)
      /\ ~ MustIncrease(opt, points[next]) /\ o.points_in_hull = 0
  BY <1>1 DEF NextSegment
<1>3. /\ UnderConstruction(index) /\ e \in Nat \ {0} /\ points \in Seq(RankedPoints)
      /\ Taking(points, next, previous, opt, e)
  BY <1>1 DEF SegmentGrows
<1>4. points[next].x > previous.x
  BY <1>2, PointBehind
<1>5. Adds(opt, points[next], e, e, o)
  BY <1>1 DEF Extended, Joined, Adds
<1>6. RejectedBy(opt, TakenBars(points, next, opt, e) \cup {BarAt(points, next, e)}, o)
  <2>1. ~ Extends(points, next, opt, e, o)
    BY <1>2 DEF Extends
  <2>2. QED
    BY ONLY <1>2, <1>3, <1>4, <1>5, <2>1, TakeNext
<1>7. opt.points_in_hull >= 2
  BY <1>6 DEF RejectedBy
<1>8. Taking(points, next + 1, points[next], r, e)
  <2>1. CASE connect
    <3>1. PICK m : m = Joined(NoPoints, previous)
      OBVIOUS
    <3>2. Adds(NoPoints, previous, e, e, m) /\ Adds(m, points[next], e, e, r)
      BY <1>1, <2>1, <3>1 DEF Restarted, Joined, Adds
    <3>3. QED
      BY ONLY <1>2, <1>3, <1>4, <1>7, <3>2, TakeConnected
  <2>2. CASE ~ connect
    <3>1. Adds(NoPoints, points[next], e, e, r)
      BY <1>1, <2>2 DEF Restarted, Joined, Adds
    <3>2. QED
      BY ONLY <1>2, <1>3, <1>4, <3>1, TakeApart
  <2>3. QED
    BY <2>1, <2>2
<1>9. opt.first \in RankedPoints
  BY <1>3 DEF Taking
<1>10. PICK idx : idx = index'
  OBVIOUS
<1>11. UnderConstruction(idx) /\ LevelEpsilon(idx) = e
  BY <1>1, <1>2, <1>3, <1>9, <1>10, SegmentAdded
<1>12. QED
  BY <1>2, <1>3, <1>8, <1>10, <1>11, GrowsAfter

(***************************************************************************)
(* A point that ends a segment was rejected for good.                      *)
(***************************************************************************)
LEMMA NextRejects ==
    ASSUME SegmentGrows, NextSegment
    PROVE  ~ SomeLineThrough(SegmentBars \cup {PointBar(next)})
<1>1. PICK e, o : e = LevelEpsilon(index) /\ o = Extended
  OBVIOUS
<1>2. /\ next <= Len(points)
      /\ ~ MustIncrease(opt, points[next]) /\ o.points_in_hull = 0
  BY <1>1 DEF NextSegment
<1>3. /\ e \in Nat \ {0} /\ points \in Seq(RankedPoints)
      /\ Taking(points, next, previous, opt, e)
  BY <1>1 DEF SegmentGrows
<1>4. points[next].x > previous.x
  BY <1>2, PointBehind
<1>5. Adds(opt, points[next], e, e, o)
  BY <1>1 DEF Extended, Joined, Adds
<1>6. RejectedBy(opt, TakenBars(points, next, opt, e) \cup {BarAt(points, next, e)}, o)
  <2>1. ~ Extends(points, next, opt, e, o)
    BY <1>2 DEF Extends
  <2>2. QED
    BY ONLY <1>2, <1>3, <1>4, <1>5, <2>1, TakeNext
<1>7. QED
  BY <1>1, <1>6, BarsOfSegment DEF RejectedBy

\* the points of the keys
LEMMA PointsOfKeys ==
    ASSUME data \in Seq(Nat), N >= skip_first + 2
    PROVE  KeyPoints \in Seq(RankedPoints) /\ Len(KeyPoints) >= 1
<1>1. PICK s, n : s = skip_first /\ n = N - skip_first
  OBVIOUS
<1>2. s \in {0, 1} /\ N \in Nat /\ n \in Nat /\ n >= 1
  BY <1>1 DEF skip_first, N
<1>3. ASSUME NEW i \in 1 .. n
      PROVE  [x |-> Key(i - 1 + s), y |-> i - 1 + s] \in RankedPoints
  <2>1. (i - 1 + s) + 1 \in 1 .. Len(data) /\ i - 1 + s \in Nat
    BY <1>1, <1>2 DEF N
  <2>2. Key(i - 1 + s) \in Int
    BY <2>1 DEF Key
  <2>3. QED
    BY <2>1, <2>2 DEF RankedPoints
<1>4. KeyPoints = [i \in 1 .. n |-> [x |-> Key(i - 1 + s), y |-> i - 1 + s]]
  BY <1>1 DEF KeyPoints
<1>5. PICK ps : ps = KeyPoints
  OBVIOUS
<1>6. ps \in [1 .. n -> RankedPoints]
  BY <1>3, <1>4, <1>5
<1>7. ps \in Seq(RankedPoints) /\ Len(ps) = n
  BY ONLY <1>2, <1>6
<1>8. QED
  BY <1>2, <1>5, <1>7

\* a mapper with an index
Indexed == /\ kind \in {"succinct", "unaligned", "polymorphic", "pgm"}
           /\ data \in Seq(Nat) /\ N >= skip_first + 2
           /\ epsilon \in Nat \ {0}

\* what a step of its construction leaves
StaysIndexed == /\ kind' = kind /\ epsilon' = epsilon /\ data' = data
                /\ pc' = "mapper" => SegmentGrows'

\* the constructor of the index
LEMMA StartGrows ==
    ASSUME Indexed, StartIndex
    PROVE  StaysIndexed
<1>1. kind' = kind /\ epsilon' = epsilon /\ data' = data
  BY DEF StartIndex, heuristicVars, lemonVars
<1>2. PICK idx : /\ Segmentation(idx, KeyPoints)
                 /\ \/ idx = Succinct(Key(skip_first), skip_first, epsilon)
                    \/ idx = Unaligned(N) \/ idx = EmptyPGM
  BY DEF StartIndex, Indexed
<1>3. UnderConstruction(idx) /\ LevelEpsilon(idx) = epsilon
  BY <1>2, IndexBegun
<1>4. KeyPoints \in Seq(RankedPoints) /\ Len(KeyPoints) >= 1
  BY PointsOfKeys DEF Indexed
<1>5. SegmentGrows'
  BY <1>1, <1>2, <1>3, <1>4, SegmentationBegins DEF Indexed
<1>6. QED
  BY <1>1, <1>5 DEF StaysIndexed

\* an exception
LEMMA ThrowStays ==
    ASSUME ThrowWhileSegmenting
    PROVE  StaysIndexed
  BY DEF ThrowWhileSegmenting, StaysIndexed, pgmVars

\* the last segment of each kind of index
LEMMA SuccinctStays ==
    ASSUME FinishSuccinct
    PROVE  StaysIndexed
<1>1. CASE UnexpectedShift
  BY <1>1, ThrowStays DEF FinishSuccinct
<1>2. CASE ~ UnexpectedShift
  <2>1. pc' = "pass" /\ kind' = kind /\ epsilon' = epsilon /\ data' = data
    BY <1>2 DEF FinishSuccinct, Complete
  <2>2. QED
    BY <2>1 DEF StaysIndexed
<1>3. QED
  BY <1>1, <1>2

LEMMA UnalignedStays ==
    ASSUME Indexed, FinishUnaligned
    PROVE  StaysIndexed
<1>1. \/ pc' = "pass" /\ kind' = kind /\ epsilon' = epsilon /\ data' = data
      \/ /\ Segmentation(Succinct(Key(skip_first), skip_first, epsilon), KeyPoints)
         /\ UNCHANGED <<heuristicVars, kind, epsilon, segment_i>>
  BY DEF FinishUnaligned, Complete
<1>2. CASE pc' = "pass" /\ kind' = kind /\ epsilon' = epsilon /\ data' = data
  BY <1>2 DEF StaysIndexed
<1>3. CASE /\ Segmentation(Succinct(Key(skip_first), skip_first, epsilon), KeyPoints)
           /\ UNCHANGED <<heuristicVars, kind, epsilon, segment_i>>
  <2>1. PICK idx : idx = Succinct(Key(skip_first), skip_first, epsilon)
    OBVIOUS
  <2>2. UnderConstruction(idx) /\ LevelEpsilon(idx) = epsilon
    BY <2>1, IndexBegun
  <2>3. KeyPoints \in Seq(RankedPoints) /\ Len(KeyPoints) >= 1
    BY PointsOfKeys DEF Indexed
  <2>4. kind' = kind /\ epsilon' = epsilon /\ data' = data
    BY <1>3 DEF heuristicVars, lemonVars
  <2>5. SegmentGrows'
    BY <1>3, <2>1, <2>2, <2>3, <2>4, SegmentationBegins DEF Indexed
  <2>6. QED
    BY <2>4, <2>5 DEF StaysIndexed
<1>4. QED
  BY <1>1, <1>2, <1>3

LEMMA LevelStays ==
    ASSUME Indexed, SegmentGrows, FinishLevel
    PROVE  StaysIndexed
<1>1. PICK added, idx, level :
         /\ added \in WithSegment /\ index.form = "pgm"
         /\ idx = EndLevel(added, Len(points), Key(N - 1)) /\ level = LastLevel(idx)
         /\ \/ pc' = "pass" /\ kind' = kind /\ epsilon' = epsilon /\ data' = data
            \/ /\ epsilon_recursive # 0 /\ Len(level) > 1
               /\ Segmentation(idx, [i \in 1 .. Len(level) |->
                                        [x |-> level[i].key, y |-> i - 1]])
               /\ UNCHANGED <<heuristicVars, kind, epsilon, segment_i>>
  BY DEF FinishLevel, Complete
<1>2. CASE pc' = "pass" /\ kind' = kind /\ epsilon' = epsilon /\ data' = data
  BY <1>2 DEF StaysIndexed
<1>3. CASE /\ epsilon_recursive # 0 /\ Len(level) > 1
           /\ Segmentation(idx, [i \in 1 .. Len(level) |->
                                    [x |-> level[i].key, y |-> i - 1]])
           /\ UNCHANGED <<heuristicVars, kind, epsilon, segment_i>>
  <2>1. opt.first \in RankedPoints /\ UnderConstruction(index)
    BY DEF SegmentGrows, Taking
  <2>2. UnderConstruction(added) /\ added.form = "pgm"
    BY <1>1, <2>1, SegmentAdded
  <2>3. Key(N - 1) \in Int
    BY DEF Indexed, Key, N, skip_first
  <2>4. /\ UnderConstruction(idx) /\ LevelEpsilon(idx) = epsilon_recursive
        /\ Keyed(level)
    BY <1>1, <2>2, <2>3, LevelEnds
  <2>5. PICK ps : ps = [i \in 1 .. Len(level) |-> [x |-> level[i].key, y |-> i - 1]]
    OBVIOUS
  <2>6. ps \in Seq(RankedPoints) /\ Len(ps) >= 1
    <3>1. ps \in Seq(RankedPoints) /\ Len(ps) = Len(level)
      BY ONLY <2>4, <2>5, LevelPoints
    <3>2. Len(ps) \in Nat
      BY <3>1
    <3>3. QED
      BY <1>3, <3>1, <3>2
  <2>7. kind' = kind /\ epsilon' = epsilon /\ data' = data
    BY <1>3 DEF heuristicVars, lemonVars
  <2>8. epsilon_recursive \in Nat \ {0}
    BY <1>3, RecursiveAssumption
  <2>9. Segmentation(idx, ps)
    BY <1>3, <2>5
  <2>10. SegmentGrows'
    BY ONLY <2>4, <2>6, <2>7, <2>8, <2>9, SegmentationBegins
  <2>11. QED
    BY <2>7, <2>10 DEF StaysIndexed
<1>4. QED
  BY <1>1, <1>2, <1>3

\* every step of the construction
LEMMA BuildStays ==
    ASSUME Indexed, Segmenting => SegmentGrows, BuildIndex
    PROVE  StaysIndexed
<1>1. CASE StartIndex
  BY <1>1, StartGrows
<1>2. CASE SkipEqualPoint
  <2>1. SegmentGrows'
    BY <1>2, SkipKeeps DEF SkipEqualPoint
  <2>2. kind' = kind /\ epsilon' = epsilon /\ data' = data
    BY <1>2 DEF SkipEqualPoint, heuristicVars, lemonVars
  <2>3. QED
    BY <2>1, <2>2 DEF StaysIndexed
<1>3. CASE RejectDisorder
  BY <1>3, ThrowStays DEF RejectDisorder
<1>4. CASE ExtendSegment
  <2>1. SegmentGrows'
    BY <1>4, ExtendKeeps DEF ExtendSegment
  <2>2. kind' = kind /\ epsilon' = epsilon /\ data' = data
    BY <1>4 DEF ExtendSegment, heuristicVars, lemonVars
  <2>3. QED
    BY <2>1, <2>2 DEF StaysIndexed
<1>5. CASE NextSegment
  <2>1. CASE UnexpectedShift
    BY <1>5, <2>1, ThrowStays DEF NextSegment
  <2>2. CASE ~ UnexpectedShift
    <3>1. SegmentGrows'
      BY <1>5, <2>2, NextKeeps DEF NextSegment
    <3>2. kind' = kind /\ epsilon' = epsilon /\ data' = data
      BY <1>5, <2>2 DEF NextSegment, heuristicVars, lemonVars
    <3>3. QED
      BY <3>1, <3>2 DEF StaysIndexed
  <2>3. QED
    BY <2>1, <2>2
<1>6. CASE FinishSuccinct
  BY <1>6, SuccinctStays
<1>7. CASE FinishUnaligned
  BY <1>7, UnalignedStays
<1>8. CASE FinishLevel
  BY <1>8, LevelStays DEF FinishLevel, AtEnd
<1>9. QED
  BY <1>1, <1>2, <1>3, <1>4, <1>5, <1>6, <1>7, <1>8 DEF BuildIndex

\* the pass over the keys, and the queries
LEMMA PassStays ==
    ASSUME \/ VisitIndexed \/ Keeping(CloseBucket) \/ Keeping(NextKey)
           \/ Keeping(CloseLastBucket) \/ Keeping(Finish) \/ Keeping(Query)
    PROVE  StaysIndexed
<1>1. CASE VisitIndexed
  BY <1>1 DEF VisitIndexed, VisitKey, StaysIndexed
<1>2. CASE Keeping(CloseBucket)
  BY <1>2 DEF Keeping, With, pgmVars, CloseBucket, StaysIndexed
<1>3. CASE Keeping(NextKey)
  BY <1>3 DEF Keeping, With, pgmVars, NextKey, StaysIndexed
<1>4. CASE Keeping(CloseLastBucket)
  BY <1>4 DEF Keeping, With, pgmVars, CloseLastBucket, StaysIndexed
<1>5. CASE Keeping(Finish)
  BY <1>5 DEF Keeping, With, pgmVars, Finish, StaysIndexed
<1>6. CASE Keeping(Query)
  BY <1>6 DEF Keeping, With, pgmVars, Query, Answer, StaysIndexed
<1>7. QED
  BY <1>1, <1>2, <1>3, <1>4, <1>5, <1>6

\* the classes that do not build an index
LEMMA NoneStays ==
    ASSUME kind = "none", next = 0, PGMNext
    PROVE  kind' = kind /\ next' = next
<1>1. ~ BuildIndex
  BY DEF BuildIndex, StartIndex, SkipEqualPoint, RejectDisorder, ExtendSegment, NextSegment,
         FinishSuccinct, FinishUnaligned, FinishLevel, AtEnd, Segmenting
<1>2. UNCHANGED pgmVars
  BY <1>1 DEF PGMNext, PGMConstructor, Without, With, Keeping
<1>3. QED
  BY <1>2 DEF pgmVars, segmentationVars

\* before the construction
LEMMA SegmentationStart ==
    ASSUME PGMInit
    PROVE  SegmentationInv
<1>1. kind \in {"none", "succinct", "unaligned", "polymorphic", "pgm"} /\ next = 0
  BY IndexAssumption DEF PGMInit, NotSegmenting
<1>2. ASSUME kind # "none"
      PROVE  data \in Seq(Nat) /\ N >= skip_first + 2 /\ epsilon \in Nat \ {0}
  <2>1. data \in Seq(Nat) /\ epsilon \in Nat \ {0}
    BY <1>2, IndexAssumption DEF PGMInit
  <2>2. PICK j \in skip_first .. N - 1 : Key(j) # Key(skip_first)
    BY <1>2 DEF PGMInit
  <2>3. PICK s, n : s = skip_first /\ n = N
    OBVIOUS
  <2>4. s \in Nat /\ n \in Nat
    BY <2>1, <2>3 DEF skip_first, N
  <2>5. j \in s .. n - 1 /\ j # s
    BY <2>2, <2>3
  <2>6. n >= s + 2
    BY <2>4, <2>5
  <2>7. QED
    BY <2>1, <2>3, <2>6
<1>3. ~ Segmenting
  BY <1>1 DEF Segmenting
<1>4. QED
  BY <1>1, <1>2, <1>3 DEF SegmentationInv

\* every step keeps the invariant
LEMMA SegmentationStep ==
    ASSUME SegmentationInv, [PGMNext]_allVars
    PROVE  SegmentationInv'
<1>1. CASE kind = "none"
  <2>1. next = 0
    BY <1>1 DEF SegmentationInv
  <2>2. kind' = kind /\ next' = next
    <3>1. CASE PGMNext
      BY <1>1, <2>1, <3>1, NoneStays
    <3>2. CASE UNCHANGED allVars
      BY <3>2 DEF allVars, pgmVars, segmentationVars
    <3>3. QED
      BY <3>1, <3>2
  <2>3. ~ Segmenting'
    BY <2>1, <2>2 DEF Segmenting
  <2>4. QED
    BY <1>1, <2>1, <2>2, <2>3 DEF SegmentationInv
<1>2. CASE kind # "none"
  <2>1. Indexed /\ (Segmenting => SegmentGrows)
    BY <1>2 DEF SegmentationInv, Indexed
  <2>2. CASE PGMNext
    <3>1. StaysIndexed
      <4>1. \/ BuildIndex
            \/ VisitIndexed \/ Keeping(CloseBucket) \/ Keeping(NextKey)
            \/ Keeping(CloseLastBucket) \/ Keeping(Finish) \/ Keeping(Query)
        BY <1>2, <2>2 DEF PGMNext, PGMConstructor, Without, With, Keeping
      <4>2. QED
        BY <2>1, <4>1, BuildStays, PassStays
    <3>2. N' = N /\ skip_first' = skip_first /\ kind' = kind /\ epsilon' = epsilon
          /\ data' = data
      BY <3>1 DEF StaysIndexed, N, skip_first
    <3>3. Segmenting' => SegmentGrows'
      BY <3>1 DEF StaysIndexed, Segmenting
    <3>4. QED
      BY <1>2, <2>1, <3>2, <3>3 DEF SegmentationInv, Indexed
  <2>3. CASE UNCHANGED allVars
    <3>1. /\ kind' = kind /\ epsilon' = epsilon /\ data' = data /\ pc' = pc /\ index' = index
          /\ points' = points /\ next' = next /\ previous' = previous /\ opt' = opt
      BY <2>3 DEF allVars, pgmVars, segmentationVars, heuristicVars, lemonVars
    <3>2. Segmenting' => SegmentGrows'
      <4>1. ASSUME Segmenting' PROVE SegmentGrows'
        <5>1. SegmentGrows
          BY <2>1, <3>1, <4>1 DEF Segmenting
        <5>2. PICK e : e = LevelEpsilon(index)
          OBVIOUS
        <5>3. /\ UnderConstruction(index) /\ e \in Nat \ {0} /\ points \in Seq(RankedPoints)
              /\ Taking(points, next, previous, opt, e)
          BY <5>1, <5>2 DEF SegmentGrows
        <5>4. QED
          BY <3>1, <5>2, <5>3, GrowsAfter
      <4>2. QED
        BY <4>1
    <3>3. N' = N /\ skip_first' = skip_first
      BY <3>1 DEF N, skip_first
    <3>4. QED
      BY <1>2, <2>1, <3>1, <3>2, <3>3 DEF SegmentationInv, Indexed
  <2>4. QED
    BY <2>2, <2>3
<1>3. QED
  BY <1>1, <1>2

\* the invariant of the segmentation
THEOREM SegmentationInvariance ==
    PGMSpec => []SegmentationInv
<1>1. PGMInit => SegmentationInv
  BY SegmentationStart
<1>2. SegmentationInv /\ [PGMNext]_allVars => SegmentationInv'
  BY SegmentationStep
<1>3. QED
  BY <1>1, <1>2, PTL DEF PGMSpec

(***************************************************************************)
(* While a segment grows, its two extreme lines stay within epsilon of     *)
(* every point it covers.                                                  *)
(***************************************************************************)
LEMMA LinesFitSegment ==
    ASSUME SegmentationInv
    PROVE  ExtremeLinesFit
<1>1. SUFFICES ASSUME Segmenting, opt.points_in_hull > 1, NEW bar \in SegmentBars
               PROVE  /\ Passes(opt.rectangle[1], slope1(opt.rectangle), bar)
                      /\ Passes(opt.rectangle[2], slope2(opt.rectangle), bar)
  BY DEF ExtremeLinesFit
<1>2. Seen(opt, SegmentBars)
  BY <1>1, BarsOfSegment DEF SegmentationInv, SegmentGrows, Taking
<1>3. FitsBars(opt, SegmentBars)
  BY <1>1, <1>2 DEF Seen, OnePoint
<1>4. PICK bars, R, s, t : /\ bars = SegmentBars /\ R = opt.rectangle
                           /\ s = slope1(R) /\ t = slope2(R)
  OBVIOUS
<1>5. bars \in SUBSET Bars /\ bar \in bars /\ Fitted(opt, Tops(bars), Bottoms(bars))
  BY <1>3, <1>4 DEF FitsBars
<1>6. /\ R[1] \in Points /\ R[2] \in Points /\ s \in Slopes /\ t \in Slopes
      /\ Fits(1, Tops(bars), Bottoms(bars), R[1], s)
      /\ Fits(1, Tops(bars), Bottoms(bars), R[2], t)
  BY <1>4, <1>5, FittedParts
<1>7. Passes(R[1], s, bar) /\ Passes(R[2], t, bar)
  BY ONLY <1>5, <1>6, PassesBars
<1>8. QED
  BY <1>4, <1>7

(***************************************************************************)
(* ExtremeLinesFit, of the mappers' segmentation: whatever the keys are,   *)
(* however many, and whatever the bound, the lines that add_point keeps    *)
(* from the ends of the two hulls pass within the bound of every point of  *)
(* the segment.                                                            *)
(***************************************************************************)
THEOREM ExtremeLinesTheorem ==
    PGMSpec => []ExtremeLinesFit
<1>1. SegmentationInv => ExtremeLinesFit
  BY LinesFitSegment
<1>2. QED
  BY <1>1, SegmentationInvariance, PTL

\* where the first point of the segment changes, the segment was ended by a rejection
LEMMA SegmentEnds ==
    ASSUME SegmentationInv, PGMNext, Segmenting, next <= Len(points),
           opt' # opt, opt'.first # opt.first
    PROVE  ~ SomeLineThrough(SegmentBars \cup {PointBar(next)})
<1>1. SegmentGrows /\ pc = "mapper" /\ next \in Nat /\ next > 0 /\ Len(points) \in Nat
  BY DEF SegmentationInv, SegmentGrows, Taking, Segmenting
<1>2. kind # "none"
  BY <1>1 DEF SegmentationInv
<1>3. BuildIndex
  BY <1>1, <1>2 DEF PGMNext, PGMConstructor, Without, With, Keeping, VisitIndexed, VisitKey,
     CloseBucket, NextKey, CloseLastBucket, Finish, Query
<1>4. ~ StartIndex /\ ~ AtEnd
  BY <1>1 DEF StartIndex, AtEnd
<1>5. ~ SkipEqualPoint
  BY DEF SkipEqualPoint
<1>6. ~ RejectDisorder
  BY DEF RejectDisorder, ThrowWhileSegmenting, pgmVars, segmentationVars
<1>7. ~ ExtendSegment
  BY <1>1, ExtendKeeps
<1>8. NextSegment
  BY <1>3, <1>4, <1>5, <1>6, <1>7
     DEF BuildIndex, FinishSuccinct, FinishUnaligned, FinishLevel
<1>9. QED
  BY <1>1, <1>8, NextRejects

(***************************************************************************)
(* SegmentsMaximal, of the same code: a segment is never ended too early.  *)
(* When a point is rejected, no line at all passes within the bound of the *)
(* points of the segment and of that point.                                *)
(***************************************************************************)
THEOREM SegmentsMaximalTheorem ==
    PGMSpec => SegmentsMaximal
<1>1. SegmentationInv /\ [PGMNext]_allVars =>
         [Segmenting /\ next <= Len(points) /\ opt' # opt /\ opt'.first # opt.first =>
             ~ SomeLineThrough(SegmentBars \cup {PointBar(next)})]_allVars
  BY SegmentEnds
<1>2. QED
  BY <1>1, SegmentationInvariance, PTL DEF PGMSpec, SegmentsMaximal
=============================================================================
