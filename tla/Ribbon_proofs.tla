--------------------------- MODULE Ribbon_proofs ---------------------------
(***************************************************************************)
(* For all parameters, items, values and hash functions: queries take an   *)
(* item as bumped exactly if the construction bumped it, the rows keep the *)
(* equation of every item that stays, and the finished table returns every *)
(* value.                                                                  *)
(*                                                                         *)
(* IInv says what the thresholds written so far mean, and what the caches  *)
(* hold.  RowsInv says what the rows of a level hold while it is filled,   *)
(* when it is full and when it is solved.  What the elimination and the    *)
(* substitution compute is proved along the slots they go through.         *)
(***************************************************************************)
EXTENDS Ribbon, Counting_proofs

Done == Given(level) \ pending
Here(x) == GetBucket(level, x) = scan.last_bucket
Val(x) == GetIntraBucket(level, x)
Plus(b, v) == <<b, v>> \in storage[level].plus

-----------------------------------------------------------------------------
(* The parts of the invariant. *)

StorageRecord(s) ==
    s = [num_slots |-> s.num_slots, coeffs |-> s.coeffs, results |-> s.results,
         meta |-> s.meta, plus |-> s.plus]

\* a level that was prepared has a threshold for each bucket with starts
Geometry(s) == /\ s.num_slots \in Nat /\ s.num_slots >= kCoeffBits
               /\ DOMAIN s.meta = 0 .. (s.num_slots - kCoeffBits + kBucketSize) \div kBucketSize - 1
               /\ s.meta = [b \in DOMAIN s.meta |-> s.meta[b]]

Types ==
    /\ data \in ItemSets
    /\ pc \in {"insert", "solve", "ready"} /\ level \in Levels
    /\ hasher = [l \in Levels |-> hasher[l]]
    /\ \A l \in Levels : hasher[l] \in [Given(l) -> Hash] /\ Given(l) \subseteq data
    /\ storage = [l \in Levels |-> storage[l]]
    /\ \A l \in Levels : StorageRecord(storage[l]) /\ storage[l].num_slots \in Nat
    /\ pending \subseteq Given(level) /\ bumped \subseteq Given(level)
    /\ base.orig \in Nat /\ base.per_item \in Nat
    /\ base = [orig |-> base.orig, per_item |-> base.per_item]
    /\ base.per_item >= 1000

ScanTypes ==
    /\ scan = [last_bucket |-> scan.last_bucket, all_good |-> scan.all_good,
               thresh |-> scan.thresh, last_cval |-> scan.last_cval,
               last_val |-> scan.last_val, bump_cache |-> scan.bump_cache,
               unc_bump_cache |-> scan.unc_bump_cache]
    /\ scan.all_good \in BOOLEAN
    /\ scan.last_bucket \in DOMAIN storage[level].meta
    /\ scan.last_val \in -1 .. kBucketSize - 1
    /\ scan.last_val >= 0 => scan.last_cval = Compress(scan.last_val)

\* the items come bucket by bucket, in the order of their positions
Order ==
    /\ bumped \subseteq Done
    /\ \A y \in Done : GetBucket(level, y) <= scan.last_bucket
    /\ \A y \in Done : Here(y) /\ scan.all_good => Val(y) <= scan.last_val
    /\ \A x \in pending : /\ scan.last_bucket <= GetBucket(level, x)
                          /\ Here(x) => scan.last_val <= Val(x)

\* what is known of the buckets behind the scan, and in front of it
ClosedBuckets ==
    /\ \A y \in Done : ~Here(y) => (CheckBumped(level, y) <=> y \in bumped)
    /\ \A b, v \in Nat : b > scan.last_bucket => ~Plus(b, v)

\* the current bucket, as long as everything fits
GoodBucket ==
    /\ scan.thresh = NoBumpThresh
    /\ \A v \in Nat : ~Plus(scan.last_bucket, v)
    /\ \A y \in Done : Here(y) => y \notin bumped
    /\ CachedItems(scan.bump_cache) =
           {y \in Done : Here(y) /\ Compress(Val(y)) = scan.last_cval}
    /\ CachedItems(scan.unc_bump_cache) = {y \in Done : Here(y) /\ Val(y) = scan.last_val}

\* the current bucket behind its first failure
FailedBucket ==
    /\ level < depth
    /\ scan.thresh = scan.last_cval
    /\ scan.last_val >= 0
    /\ storage[level].meta[scan.last_bucket] = 0
    /\ \A v \in Nat : Plus(scan.last_bucket, v) <=> scan.thresh = 2 /\ v = scan.last_val
    /\ \A y \in Done : Here(y) => (CheckBumped(level, y) <=> y \in bumped)

ScanInv ==
    /\ ScanTypes /\ Order /\ ClosedBuckets
    /\ IF scan.all_good THEN GoodBucket ELSE FailedBucket

LevelAgrees(l) == \A x \in Given(l) : CheckBumped(l, x) <=> x \in Given(l + 1)

IInv ==
    /\ Types
    /\ pc = "insert" =>
          /\ Geometry(storage[level])
          /\ level = depth => base.orig >= 1 /\ bumped = {}
          /\ ScanInv
          /\ \A l \in Levels : l > level => Given(l) = {}
          /\ \A l \in Levels : l < level => LevelAgrees(l)
    /\ pc # "insert" => /\ pending = {} /\ bumped = {}
                        /\ \A l \in Levels : LevelAgrees(l)

-----------------------------------------------------------------------------
(* Starts, buckets and positions. *)

LEMMA IntDivision ==
    ASSUME NEW a \in Int, NEW k \in Nat \ {0}
    PROVE  /\ a \div k \in Int /\ a % k \in 0 .. k - 1
           /\ a = k * (a \div k) + (a % k)
           /\ a >= 0 => a \div k >= 0
  OBVIOUS

LEMMA Products ==
    ASSUME NEW a \in Int, NEW b \in Int, NEW k \in Nat, a <= b
    PROVE  k * a <= k * b
  OBVIOUS

\* a quotient is at most n - 1 if the dividend is below n times the divisor
LEMMA QuotientBelow ==
    ASSUME NEW a \in Int, NEW k \in Nat \ {0}, NEW n \in Int, a < k * n
    PROVE  a \div k < n
<1>1. SUFFICES ASSUME a \div k >= n PROVE FALSE
  BY IntDivision
<1>2. k * n <= k * (a \div k)
  BY <1>1, Products, IntDivision
<1> QED
  BY <1>2, IntDivision

\* quotients of ordered numbers are ordered, and the rests of equal ones
LEMMA QuotientOrder ==
    ASSUME NEW k \in Nat \ {0}, NEW a \in Int, NEW b \in Int,
           NEW v \in 0 .. k - 1, NEW w \in 0 .. k - 1, a * k + v <= b * k + w
    PROVE  a <= b /\ (a = b => v <= w)
<1>1. ASSUME b < a PROVE FALSE
  <2>1. k * (b + 1) <= k * a
    BY <1>1, Products
  <2>2. k * (b + 1) = b * k + k /\ k * a = a * k
    OBVIOUS
  <2> QED
    BY <2>1, <2>2
<1>2. a = b => v <= w
  OBVIOUS
<1> QED
  BY <1>1, <1>2

LEMMA StartInRange ==
    ASSUME NEW l \in Levels, NEW x \in Given(l),
           hasher[l] \in [Given(l) -> Hash], Geometry(storage[l])
    PROVE  GetStart(l, x) \in 0 .. storage[l].num_slots - kCoeffBits
<1> DEFINE n == NumStarts(storage[l])
           h == hasher[l][x].h
<1>1. h \in 0 .. HashRange - 1
  BY DEF Hash
<1>2. n \in Nat \ {0} /\ HashRange \in Nat \ {0} /\ kCoeffBits \in Nat
  BY SMTT(20), RibbonAssumption DEF Geometry, NumStarts
<1>3. h * n \in Nat /\ h * n < HashRange * n
  <2>1. n * (h + 1) <= n * HashRange
    BY <1>1, <1>2, Products
  <2>2. n * (h + 1) = h * n + n /\ n * HashRange = HashRange * n /\ h * n \in Nat
    BY <1>1, <1>2
  <2> HIDE DEF n, h
  <2> QED
    BY <2>1, <2>2, <1>2
<1>4. (h * n) \div HashRange < n /\ (h * n) \div HashRange \in Nat
  <2> HIDE DEF n, h
  <2> QED
    BY <1>1, <1>2, <1>3, QuotientBelow, IntDivision
<1>5. GetStart(l, x) = (h * n) \div HashRange
  BY DEF GetStart
<1>6. n = storage[l].num_slots - kCoeffBits + 1 /\ storage[l].num_slots \in Nat
  BY DEF NumStarts, Geometry
<1> HIDE DEF n, h
<1> QED
  BY <1>2, <1>4, <1>5, <1>6

LEMMA BucketInRange ==
    ASSUME NEW l \in Levels, NEW x \in Given(l),
           hasher[l] \in [Given(l) -> Hash], Geometry(storage[l])
    PROVE  /\ GetBucket(l, x) \in DOMAIN storage[l].meta
           /\ GetBucket(l, x) \in Nat
           /\ GetIntraBucket(l, x) \in 0 .. kBucketSize - 1
<1> DEFINE start == GetStart(l, x)
           room == storage[l].num_slots - kCoeffBits
<1>1. /\ start \in Nat /\ room \in Nat /\ start <= room
      /\ kBucketSize \in Nat \ {0}
  <2>1. storage[l].num_slots \in Nat /\ storage[l].num_slots >= kCoeffBits
    BY DEF Geometry
  <2>2. kCoeffBits \in Nat /\ kBucketSize \in Nat \ {0}
    BY RibbonAssumption
  <2>3. start \in 0 .. room
    BY StartInRange
  <2> HIDE DEF start
  <2> QED
    BY <2>1, <2>2, <2>3
<1>2. /\ GetBucket(l, x) = start \div kBucketSize
      /\ GetIntraBucket(l, x) = kBucketSize - 1 - (start % kBucketSize)
      /\ DOMAIN storage[l].meta = 0 .. (room + kBucketSize) \div kBucketSize - 1
  BY DEF GetBucket, GetIntraBucket, Geometry
<1> HIDE DEF start, room
<1>3. start \div kBucketSize < (room + kBucketSize) \div kBucketSize
  <2> DEFINE n == (room + kBucketSize) \div kBucketSize
  <2>1. /\ n \in Int
        /\ room + kBucketSize < kBucketSize * n + kBucketSize
    BY <1>1, IntDivision
  <2>2. room < kBucketSize * n
    <3> HIDE DEF n
    <3> QED
      BY <2>1, <1>1
  <2> QED
    BY <2>1, <2>2, <1>1, QuotientBelow
<1>4. start \div kBucketSize \in Nat /\ start % kBucketSize \in 0 .. kBucketSize - 1
  <2>1. start \in Int /\ start >= 0
    BY <1>1
  <2>2. /\ start \div kBucketSize \in Int /\ start \div kBucketSize >= 0
        /\ start % kBucketSize \in 0 .. kBucketSize - 1
    BY <1>1, <2>1, IntDivision
  <2> QED
    BY <2>2
<1>5. (room + kBucketSize) \div kBucketSize \in Int
  BY <1>1, IntDivision
<1> QED
  BY <1>1, <1>2, <1>3, <1>4, <1>5

\* positions order the items by buckets, and by places within a bucket
LEMMA PositionOrder ==
    ASSUME NEW l \in Levels, NEW x \in Given(l), NEW y \in Given(l),
           hasher[l] \in [Given(l) -> Hash], Geometry(storage[l]),
           StartToSort(l, x) <= StartToSort(l, y)
    PROVE  /\ GetBucket(l, x) <= GetBucket(l, y)
           /\ GetBucket(l, x) = GetBucket(l, y) =>
                  GetIntraBucket(l, x) <= GetIntraBucket(l, y)
  BY BucketInRange, QuotientOrder, RibbonAssumption DEF StartToSort

-----------------------------------------------------------------------------
(* Thresholds. *)

\* CheckBumped of an item at place v of bucket b
Bumps(s, b, v) ==
    IF Compress(v) = 2 THEN v >= GetPlus(s, b) ELSE Compress(v) >= s.meta[b]

LEMMA CheckBumpedBumps ==
    ASSUME NEW l, NEW x
    PROVE  CheckBumped(l, x) = Bumps(storage[l], GetBucket(l, x), GetIntraBucket(l, x))
  BY DEF CheckBumped, Bumps

LEMMA CompressCases ==
    ASSUME NEW v \in 0 .. kBucketSize - 1
    PROVE  Compress(v) = IF v >= thresh_ THEN 0 ELSE 2
  BY RibbonAssumption DEF Compress

\* nothing was bumped from a bucket without a threshold
LEMMA BumpsNone ==
    ASSUME NEW s, NEW b, NEW v \in 0 .. kBucketSize - 1, s.meta[b] = NoBumpThresh,
           \A w \in Nat : <<b, w>> \notin s.plus
    PROVE  ~Bumps(s, b, v)
<1>1. GetPlus(s, b) = kBucketSize
  BY RibbonAssumption DEF GetPlus
<1> QED
  BY <1>1, CompressCases, RibbonAssumption DEF Bumps, NoBumpThresh

\* the threshold left by a failure at place `last`
LEMMA BumpsFailed ==
    ASSUME NEW s, NEW b, NEW v \in 0 .. kBucketSize - 1,
           NEW last \in 0 .. kBucketSize - 1, s.meta[b] = 0,
           \A w \in Nat : <<b, w>> \in s.plus <=> Compress(last) = 2 /\ w = last
    PROVE  Bumps(s, b, v) <=> (Compress(last) = 2 /\ v >= last) \/ Compress(v) = 0
<1>1. CASE Compress(last) = 2
  <2>1. {w \in 0 .. kBucketSize : <<b, w>> \in s.plus} = {last}
    BY <1>1, RibbonAssumption
  <2>2. GetPlus(s, b) = last
    BY <2>1 DEF GetPlus
  <2> QED
    BY <1>1, <2>2, CompressCases, RibbonAssumption DEF Bumps
<1>2. CASE Compress(last) # 2
  <2>1. {w \in 0 .. kBucketSize : <<b, w>> \in s.plus} = {}
    BY <1>2, RibbonAssumption
  <2>2. GetPlus(s, b) = kBucketSize
    BY <2>1 DEF GetPlus
  <2> QED
    BY <1>2, <2>2, CompressCases, RibbonAssumption DEF Bumps
<1> QED
  BY <1>1, <1>2

\* only the entries of its own bucket decide
LEMMA BumpsSame ==
    ASSUME NEW s, NEW t, NEW b, NEW v, s.meta[b] = t.meta[b],
           \A w \in Nat : <<b, w>> \in s.plus <=> <<b, w>> \in t.plus
    PROVE  Bumps(s, b, v) = Bumps(t, b, v)
<1> DEFINE Stored(r) == {w \in 0 .. kBucketSize : <<b, w>> \in r.plus}
<1>1. Stored(s) = Stored(t)
  BY RibbonAssumption
<1>2. GetPlus(s, b) = GetPlus(t, b)
  <2>1. \A r : GetPlus(r, b) = IF Stored(r) = {} THEN kBucketSize
                               ELSE CHOOSE w \in Stored(r) : TRUE
    BY DEF GetPlus
  <2> HIDE DEF Stored
  <2> QED
    BY <1>1, <2>1, Zenon
<1> QED
  BY <1>2 DEF Bumps

-----------------------------------------------------------------------------
(* Sizes of tables. *)

LEMMA QuotientPositive ==
    ASSUME NEW a \in Int, NEW k \in Nat \ {0}, a >= k
    PROVE  a \div k >= 1
<1>1. SUFFICES ASSUME a \div k <= 0 PROVE FALSE
  BY IntDivision
<1>2. k * (a \div k) <= k * 0
  BY <1>1, Products, IntDivision
<1> QED
  BY <1>2, IntDivision

LEMMA PreparedTable ==
    ASSUME NEW n \in Nat \ {0}
    PROVE  /\ StorageRecord(Prepared(n)) /\ Geometry(Prepared(n))
           /\ 0 \in DOMAIN Prepared(n).meta
           /\ Prepared(n).plus = {}
<1> DEFINE blocks == (n + kCoeffBits - 1) \div kCoeffBits
           slots == blocks * kCoeffBits
           buckets == (slots - kCoeffBits + kBucketSize) \div kBucketSize
<1>1. kCoeffBits \in Nat \ {0} /\ kBucketSize \in Nat \ {0}
  BY RibbonAssumption
<1>2. blocks \in Int /\ blocks >= 1
  BY <1>1, QuotientPositive, IntDivision
<1>3. slots \in Nat /\ slots >= kCoeffBits
  <2>1. kCoeffBits * 1 <= kCoeffBits * blocks
    BY <1>1, <1>2, Products
  <2>2. kCoeffBits * blocks = slots /\ slots \in Int
    BY <1>1, <1>2
  <2> HIDE DEF blocks, slots
  <2> QED
    BY <1>1, <2>1, <2>2
<1>4. buckets \in Int /\ buckets >= 1
  <2> HIDE DEF slots
  <2> QED
    BY <1>1, <1>3, QuotientPositive, IntDivision
<1>5. Prepared(n) = [num_slots |-> slots,
                     coeffs |-> [p \in 0 .. slots - 1 |-> {}],
                     results |-> [p \in 0 .. slots - 1 |-> {}],
                     meta |-> [b \in 0 .. buckets - 1 |-> 0],
                     plus |-> {}]
  BY DEF Prepared
<1> HIDE DEF blocks, slots
<1>6. /\ Prepared(n).num_slots = slots /\ Prepared(n).plus = {}
      /\ Prepared(n).meta = [b \in 0 .. buckets - 1 |-> 0]
      /\ StorageRecord(Prepared(n))
  BY <1>5 DEF StorageRecord
<1>7. Geometry(Prepared(n))
  BY <1>3, <1>6 DEF Geometry
<1> QED
  BY <1>4, <1>6, <1>7

LEMMA SlotsOfLevel ==
    ASSUME NEW n \in Nat
    PROVE  ChildSlots(n) \in Nat \ {0} /\ BaseSlots(n) \in Nat \ {0}
<1> DEFINE a == (SlotsPerItem * n) \div 1000
<1>1. SlotsPerItem \in Nat \ {0} /\ SlotsPerItem <= 1000
  BY RibbonAssumption
<1>2. a \in Nat
  <2>1. SlotsPerItem * n \in Nat
    BY <1>1
  <2> QED
    BY <2>1, IntDivision
<1>3. ChildSlots(n) = Max({1, a})
  BY DEF ChildSlots
<1> HIDE DEF a
<1>4. Max({1, a}) \in Nat \ {0}
  <2>1. \E m \in {1, a} : \A y \in {1, a} : m >= y
    BY <1>2
  <2>2. Max({1, a}) \in {1, a} /\ \A y \in {1, a} : Max({1, a}) >= y
    BY <2>1 DEF Max
  <2> QED
    BY <1>2, <2>2
<1>5. ChildSlots(n) * 1000 >= SlotsPerItem
  BY <1>1, <1>3, <1>4
<1>6. BaseSlots(n) \in Nat \ {0}
  <2> DEFINE b == ChildSlots(n) * 1000
  <2>1. b \in Int /\ b >= SlotsPerItem
    BY <1>3, <1>4, <1>5
  <2>2. BaseSlots(n) = b \div SlotsPerItem
    BY DEF BaseSlots
  <2> HIDE DEF b
  <2>3. b \div SlotsPerItem \in Int /\ b \div SlotsPerItem >= 1
    BY <1>1, <2>1, QuotientPositive, IntDivision
  <2> QED
    BY <2>2, <2>3
<1> QED
  BY <1>3, <1>4, <1>6

-----------------------------------------------------------------------------
(* A level that has just been prepared. *)

Fresh == /\ level \in Levels /\ hasher[level] \in [Given(level) -> Hash]
         /\ pending = Given(level) /\ bumped = {} /\ scan = NewScan
         /\ Geometry(storage[level]) /\ 0 \in DOMAIN storage[level].meta
         /\ storage[level].plus = {}

LEMMA FreshScan == Fresh => ScanInv
<1> SUFFICES ASSUME Fresh PROVE ScanInv
  OBVIOUS
<1> USE DEF Fresh
<1>1. /\ Done = {}
      /\ scan.last_bucket = 0 /\ scan.all_good = TRUE /\ scan.thresh = NoBumpThresh
      /\ scan.last_cval = -1 /\ scan.last_val = -1
      /\ scan.bump_cache = {} /\ scan.unc_bump_cache = {}
  BY DEF Done, NewScan
<1>2. ScanTypes
  BY RibbonAssumption DEF ScanTypes, NewScan
<1>3. Order
  <2>1. ASSUME NEW x \in pending
        PROVE  /\ scan.last_bucket <= GetBucket(level, x)
               /\ scan.last_val <= Val(x)
    BY <1>1, BucketInRange, RibbonAssumption DEF Val
  <2> QED
    BY <1>1, <2>1 DEF Order
<1>4. ClosedBuckets
  BY <1>1 DEF ClosedBuckets, Plus
<1>5. GoodBucket
  BY <1>1 DEF GoodBucket, Plus, CachedItems
<1> QED
  BY <1>1, <1>2, <1>3, <1>4, <1>5 DEF ScanInv

LEMMA FreshScanNext == Fresh' => ScanInv'
  BY FreshScan, PTL

LEMMA NoHashes == <<>> \in [{} -> Hash] /\ DOMAIN <<>> = {}
  OBVIOUS

LEMMA InitIInv == Init => IInv
<1> SUFFICES ASSUME Init PROVE IInv
  OBVIOUS
<1> USE DEF Init
<1>1. 0 \in Levels /\ level = 0 /\ IsFiniteSet(data)
  BY RibbonAssumption, ItemsAssumption DEF Levels
<1>2. PICK f \in HashFunctions(0, data) :
          hasher = [l \in Levels |-> IF l = 0 THEN f ELSE <<>>]
  OBVIOUS
<1>3. f \in [data -> Hash]
  BY <1>1, ItemsAssumption
<1>4. Given(0) = data /\ \A l : l # 0 => Given(l) = {}
  BY <1>1, <1>2, <1>3, NoHashes DEF Given
<1>5. \A l \in Levels : hasher[l] \in [Given(l) -> Hash]
  BY <1>1, <1>2, <1>3, <1>4, NoHashes
<1>6. data # {} => Cardinality(data) \in Nat \ {0}
  BY <1>1, FS_CardinalityType, FS_EmptySet
<1>7. \A l \in Levels : StorageRecord(storage[l]) /\ storage[l].num_slots \in Nat
  BY <1>6, PreparedTable DEF StorageRecord, Geometry, Empty
<1>8. Types
  BY <1>1, <1>2, <1>4, <1>5, <1>7 DEF Types
<1>9. CASE data = {}
  BY <1>4, <1>8, <1>9 DEF IInv, LevelAgrees
<1>10. CASE data # {}
  <2>1. storage[level] = Prepared(Cardinality(data)) /\ pc = "insert"
    BY <1>1, <1>10
  <2>2. Fresh
    BY <1>1, <1>4, <1>5, <1>6, <1>10, <2>1, PreparedTable DEF Fresh
  <2>3. level # depth
    BY <1>1, RibbonAssumption
  <2> QED
    BY <1>1, <1>4, <1>8, <2>1, <2>2, <2>3, FreshScan DEF IInv, Fresh, Levels
<1> QED
  BY <1>9, <1>10

-----------------------------------------------------------------------------
(* The next item, and what is known in front of it. *)

Inserting == /\ Types /\ Geometry(storage[level]) /\ ScanInv

LEMMA Places ==
    ASSUME Inserting, NEW y \in Given(level)
    PROVE  /\ GetBucket(level, y) \in DOMAIN storage[level].meta
           /\ GetBucket(level, y) \in Nat /\ scan.last_bucket \in Nat
           /\ Val(y) \in 0 .. kBucketSize - 1
<1>1. level \in Levels /\ hasher[level] \in [Given(level) -> Hash]
  BY DEF Inserting, Types
<1>2. Geometry(storage[level]) /\ scan.last_bucket \in DOMAIN storage[level].meta
  BY DEF Inserting, ScanInv, ScanTypes
<1>3. scan.last_bucket \in Nat
  BY <1>2 DEF Geometry
<1> QED
  BY <1>1, <1>2, <1>3, BucketInRange DEF Val

LEMMA NextPlace ==
    ASSUME Inserting, NEW x \in pending,
           \A y \in pending : StartToSort(level, x) <= StartToSort(level, y)
    PROVE  /\ x \in Given(level)
           /\ scan.last_bucket <= GetBucket(level, x)
           /\ Here(x) => scan.last_val <= Val(x)
           /\ \A y \in pending :
                 /\ GetBucket(level, x) <= GetBucket(level, y)
                 /\ GetBucket(level, x) = GetBucket(level, y) => Val(x) <= Val(y)
<1>1. /\ level \in Levels /\ hasher[level] \in [Given(level) -> Hash]
      /\ pending \subseteq Given(level) /\ Geometry(storage[level])
  BY DEF Inserting, Types
<1>2. scan.last_bucket <= GetBucket(level, x) /\ (Here(x) => scan.last_val <= Val(x))
  BY DEF Inserting, ScanInv, Order
<1>3. ASSUME NEW y \in pending
      PROVE  /\ GetBucket(level, x) <= GetBucket(level, y)
             /\ GetBucket(level, x) = GetBucket(level, y) => Val(x) <= Val(y)
  BY <1>1, PositionOrder DEF Val
<1> QED
  BY <1>1, <1>2, <1>3

\* the bucket of the next item has not failed: it and those behind are untouched
LEMMA Untouched ==
    ASSUME Inserting, NEW x \in pending, Stays(x) => scan.all_good,
           \A y \in pending : StartToSort(level, x) <= StartToSort(level, y)
    PROVE  /\ \A b, v \in Nat : b >= GetBucket(level, x) => ~Plus(b, v)
           /\ \A y \in Done : GetBucket(level, y) <= GetBucket(level, x)
           /\ \A y \in Done : GetBucket(level, y) = GetBucket(level, x) =>
                                  Here(x) /\ y \notin bumped /\ Val(y) <= scan.last_val
<1>1. ScanTypes /\ Order /\ ClosedBuckets /\ (scan.all_good => GoodBucket)
  BY DEF Inserting, ScanInv
<1>2. /\ scan.last_bucket <= GetBucket(level, x) /\ x \in Given(level)
      /\ scan.last_bucket \in Nat /\ GetBucket(level, x) \in Nat
  BY NextPlace, Places
<1>3. \A b, v \in Nat : b >= GetBucket(level, x) => ~Plus(b, v)
  <2>1. CASE Here(x)
    BY <1>1, <1>2, <2>1 DEF ClosedBuckets, GoodBucket, Stays, Here
  <2>2. CASE ~Here(x)
    BY <1>1, <1>2, <2>2 DEF ClosedBuckets, Here
  <2> QED
    BY <2>1, <2>2
<1>4. ASSUME NEW y \in Done
      PROVE  /\ GetBucket(level, y) <= GetBucket(level, x)
             /\ GetBucket(level, y) = GetBucket(level, x) =>
                    Here(x) /\ y \notin bumped /\ Val(y) <= scan.last_val
  <2>1. GetBucket(level, y) <= scan.last_bucket /\ GetBucket(level, y) \in Nat
    BY <1>1, Places DEF Order, Done
  <2>2. GetBucket(level, y) = GetBucket(level, x) => Here(x) /\ Here(y)
    BY <1>2, <2>1 DEF Here
  <2>3. Here(x) /\ Here(y) => y \notin bumped /\ Val(y) <= scan.last_val
    BY <1>1 DEF GoodBucket, Order, Stays, Here
  <2> QED
    BY <1>2, <2>1, <2>2, <2>3
<1> QED
  BY <1>3, <1>4

\* the thresholds of all buckets in front of the next item are written
LEMMA Moved ==
    ASSUME Inserting, NEW x \in pending, Stays(x) => scan.all_good,
           \A y \in pending : StartToSort(level, x) <= StartToSort(level, y),
           NEW t, t = MetaOnMove(storage[level], GetBucket(level, x))
    PROVE  /\ StorageRecord(t) /\ Geometry(t)
           /\ t.num_slots = storage[level].num_slots
           /\ t.plus = storage[level].plus
           /\ DOMAIN t.meta = DOMAIN storage[level].meta
           /\ \A y \in Done : GetBucket(level, y) # GetBucket(level, x) =>
                 (Bumps(t, GetBucket(level, y), Val(y)) <=> y \in bumped)
<1> DEFINE s == storage[level]
           last == scan.last_bucket
<1>1. /\ StorageRecord(s) /\ Geometry(s) /\ level \in Levels
      /\ ScanTypes /\ Order /\ ClosedBuckets
      /\ IF scan.all_good THEN GoodBucket ELSE FailedBucket
  BY DEF Inserting, ScanInv, Types
<1>2. last \in DOMAIN s.meta /\ last \in Nat
  BY <1>1 DEF ScanTypes, Geometry
<1>3. \A y \in Done : ~Here(y) => (Bumps(s, GetBucket(level, y), Val(y)) <=> y \in bumped)
  BY <1>1, CheckBumpedBumps DEF ClosedBuckets, Val
<1>4. CASE GetBucket(level, x) # last /\ scan.thresh = NoBumpThresh
  <2>1. t = [s EXCEPT !.meta[last] = NoBumpThresh]
    BY <1>4 DEF MetaOnMove
  <2>2. /\ StorageRecord(t) /\ t.num_slots = s.num_slots /\ t.plus = s.plus
        /\ t.meta = [s.meta EXCEPT ![last] = NoBumpThresh]
    BY <1>1, <2>1 DEF StorageRecord
  <2>3. DOMAIN t.meta = DOMAIN s.meta /\ Geometry(t)
    BY <1>1, <2>2 DEF Geometry
  <2>4. scan.all_good
    <3>1. SUFFICES ASSUME ~scan.all_good PROVE FALSE
      OBVIOUS
    <3>2. /\ scan.thresh = Compress(scan.last_val)
          /\ scan.last_val \in 0 .. kBucketSize - 1
      BY <1>1, <3>1 DEF FailedBucket, ScanTypes
    <3> QED
      BY <1>4, <3>2, CompressCases DEF NoBumpThresh
  <2>5. ASSUME NEW y \in Done, ~Here(y)
        PROVE  Bumps(t, GetBucket(level, y), Val(y)) <=> y \in bumped
    <3>1. t.meta[GetBucket(level, y)] = s.meta[GetBucket(level, y)]
      BY <2>2, <2>5, Places DEF Here, Done
    <3>2. \A w \in Nat : <<GetBucket(level, y), w>> \in t.plus <=>
                         <<GetBucket(level, y), w>> \in s.plus
      BY <2>2
    <3>3. Bumps(t, GetBucket(level, y), Val(y)) = Bumps(s, GetBucket(level, y), Val(y))
      <4> HIDE DEF s
      <4> QED
        BY <3>1, <3>2, BumpsSame
    <3>4. Bumps(s, GetBucket(level, y), Val(y)) <=> y \in bumped
      BY <1>3, <2>5
    <3> QED
      BY <3>3, <3>4, Zenon
  <2>6. ASSUME NEW y \in Done, Here(y)
        PROVE  Bumps(t, GetBucket(level, y), Val(y)) <=> y \in bumped
    <3>1. t.meta[GetBucket(level, y)] = NoBumpThresh
      BY <1>2, <2>2, <2>6 DEF Here
    <3>2. y \notin bumped /\ \A w \in Nat : <<GetBucket(level, y), w>> \notin t.plus
      BY <1>1, <2>2, <2>4, <2>6 DEF GoodBucket, Plus, Here
    <3>3. Val(y) \in 0 .. kBucketSize - 1
      BY Places DEF Done
    <3> QED
      BY <3>1, <3>2, <3>3, BumpsNone
  <2> QED
    BY <2>2, <2>3, <2>5, <2>6
<1>5. CASE ~(GetBucket(level, x) # last /\ scan.thresh = NoBumpThresh)
  <2>1. t = s
    BY <1>5 DEF MetaOnMove
  <2>2. ASSUME NEW y \in Done, GetBucket(level, y) # GetBucket(level, x), Here(y)
        PROVE  Bumps(t, GetBucket(level, y), Val(y)) <=> y \in bumped
    <3>1. scan.thresh # NoBumpThresh
      BY <1>5, <2>2 DEF Here
    <3>2. FailedBucket
      BY <1>1, <3>1 DEF GoodBucket
    <3> QED
      BY <2>1, <2>2, <3>2, CheckBumpedBumps DEF FailedBucket, Val
  <2> QED
    BY <1>1, <1>3, <2>1, <2>2
<1> QED
  BY <1>4, <1>5

LEMMA NoneCached == CachedItems({}) = {}
  BY DEF CachedItems

\* the caches hold what was inserted at the place of the next item
LEMMA EnteredScan ==
    ASSUME Inserting, NEW x \in pending, Stays(x) => scan.all_good,
           \A y \in pending : StartToSort(level, x) <= StartToSort(level, y),
           NEW now, now = Entered(x)
    PROVE  /\ now = [last_bucket |-> GetBucket(level, x), all_good |-> TRUE,
                     thresh |-> NoBumpThresh, last_cval |-> Compress(Val(x)),
                     last_val |-> Val(x), bump_cache |-> now.bump_cache,
                     unc_bump_cache |-> now.unc_bump_cache]
           /\ CachedItems(now.bump_cache) =
                 {y \in Done : GetBucket(level, y) = GetBucket(level, x)
                                  /\ Compress(Val(y)) = Compress(Val(x))}
           /\ CachedItems(now.unc_bump_cache) =
                 {y \in Done : GetBucket(level, y) = GetBucket(level, x) /\ Val(y) = Val(x)}
           /\ \A y \in Done : GetBucket(level, y) = GetBucket(level, x) => Val(y) <= Val(x)
<1>1. ScanTypes /\ (scan.all_good => GoodBucket) /\ Order
  BY DEF Inserting, ScanInv
<1>2. \A y \in Given(level) : Val(y) \in 0 .. kBucketSize - 1
  BY Places
<1>3. x \in Given(level) /\ Done \subseteq Given(level)
  BY NextPlace DEF Done
<1>4. kBucketSize \in Nat \ {0} /\ scan.last_val \in -1 .. kBucketSize - 1
  BY <1>1, RibbonAssumption DEF ScanTypes
<1>5. CASE Here(x)
  <2>1. scan.all_good /\ scan.all_good = TRUE /\ GoodBucket /\ scan.thresh = NoBumpThresh
    BY <1>1, <1>5 DEF Stays, Here, ScanTypes, GoodBucket
  <2>2. now = [scan EXCEPT !.last_cval = Compress(Val(x)), !.last_val = Val(x),
               !.bump_cache = IF Compress(Val(x)) # scan.last_cval THEN {} ELSE @,
               !.unc_bump_cache = IF Val(x) # scan.last_val THEN {} ELSE @]
    BY <1>5 DEF Entered, Here, Val
  <2>3. /\ now.bump_cache = IF Compress(Val(x)) # scan.last_cval THEN {} ELSE scan.bump_cache
        /\ now.unc_bump_cache = IF Val(x) # scan.last_val THEN {} ELSE scan.unc_bump_cache
        /\ now = [last_bucket |-> GetBucket(level, x), all_good |-> TRUE,
                     thresh |-> NoBumpThresh, last_cval |-> Compress(Val(x)),
                     last_val |-> Val(x), bump_cache |-> now.bump_cache,
                     unc_bump_cache |-> now.unc_bump_cache]
    BY <1>1, <1>5, <2>1, <2>2 DEF ScanTypes, Here
  <2>4. ASSUME NEW y \in Done, GetBucket(level, y) = GetBucket(level, x)
        PROVE  Val(y) <= scan.last_val /\ scan.last_val <= Val(x) /\ Val(y) <= Val(x)
    <3>1. Val(y) <= scan.last_val /\ scan.last_val <= Val(x)
      BY <2>4, <1>5, Untouched, NextPlace
    <3> QED
      BY <1>2, <1>3, <1>4, <3>1
  <2>5. ASSUME NEW y \in Done, GetBucket(level, y) = GetBucket(level, x),
               Compress(Val(y)) = Compress(Val(x))
        PROVE  scan.last_cval = Compress(Val(x))
    <3>1. /\ Val(y) \in 0 .. kBucketSize - 1 /\ Val(x) \in 0 .. kBucketSize - 1
          /\ scan.last_val \in 0 .. kBucketSize - 1
      BY <1>2, <1>3, <1>4, <2>4, <2>5
    <3>2. scan.last_cval = Compress(scan.last_val)
      BY <1>1, <3>1 DEF ScanTypes
    <3>3. /\ Compress(Val(x)) = IF Val(x) >= thresh_ THEN 0 ELSE 2
          /\ Compress(Val(y)) = IF Val(y) >= thresh_ THEN 0 ELSE 2
          /\ Compress(scan.last_val) = IF scan.last_val >= thresh_ THEN 0 ELSE 2
      BY <3>1, CompressCases
    <3> HIDE DEF Val
    <3> QED
      BY <2>4, <2>5, <3>1, <3>2, <3>3, RibbonAssumption
  <2>6. ASSUME NEW y \in Done, GetBucket(level, y) = GetBucket(level, x), Val(y) = Val(x)
        PROVE  scan.last_val = Val(x)
    BY <1>2, <1>3, <1>4, <2>4, <2>6
  <2>7. \A y \in Done : Here(y) <=> GetBucket(level, y) = GetBucket(level, x)
    BY <1>5 DEF Here
  <2>8. CachedItems(now.bump_cache) =
                 {y \in Done : GetBucket(level, y) = GetBucket(level, x)
                                  /\ Compress(Val(y)) = Compress(Val(x))}
    <3>1. CASE Compress(Val(x)) = scan.last_cval
      BY <2>1, <2>3, <2>7, <3>1 DEF GoodBucket
    <3>2. CASE Compress(Val(x)) # scan.last_cval
      BY <2>3, <2>5, <3>2, NoneCached
    <3> QED
      BY <3>1, <3>2
  <2>9. CachedItems(now.unc_bump_cache) =
                 {y \in Done : GetBucket(level, y) = GetBucket(level, x) /\ Val(y) = Val(x)}
    <3>1. CASE Val(x) = scan.last_val
      BY <2>1, <2>3, <2>7, <3>1 DEF GoodBucket
    <3>2. CASE Val(x) # scan.last_val
      BY <2>3, <2>6, <3>2, NoneCached
    <3> QED
      BY <3>1, <3>2
  <2> QED
    BY <2>3, <2>4, <2>8, <2>9
<1>6. CASE ~Here(x)
  <2>1. now = [NewScan EXCEPT !.last_bucket = GetBucket(level, x),
                              !.last_cval = Compress(Val(x)), !.last_val = Val(x)]
    BY <1>6 DEF Entered, Here, Val
  <2>2. /\ now.bump_cache = {} /\ now.unc_bump_cache = {}
        /\ now = [last_bucket |-> GetBucket(level, x), all_good |-> TRUE,
                     thresh |-> NoBumpThresh, last_cval |-> Compress(Val(x)),
                     last_val |-> Val(x), bump_cache |-> now.bump_cache,
                     unc_bump_cache |-> now.unc_bump_cache]
    BY <2>1 DEF NewScan
  <2>3. \A y \in Done : GetBucket(level, y) # GetBucket(level, x)
    BY <1>6, Untouched
  <2> QED
    BY <2>2, <2>3, NoneCached
<1> QED
  BY <1>5, <1>6

-----------------------------------------------------------------------------
(* The steps that insert an item. *)

LEMMA OfLevel == IInv /\ pc = "insert" => Inserting
  BY DEF IInv, Inserting

\* what a step that only writes to the rows and thresholds of its level keeps
LEMMA Frame ==
    ASSUME Types, hasher' = hasher, level' = level, NEW t,
           t.num_slots = storage[level].num_slots,
           storage' = [storage EXCEPT ![level] = t]
    PROVE  /\ storage' = [l \in Levels |-> storage'[l]]
           /\ storage'[level] = t
           /\ \A l \in Levels : l # level => storage'[l] = storage[l]
           /\ \A l : Given(l)' = Given(l)
           /\ \A y : Val(y)' = Val(y) /\ GetBucket(level, y)' = GetBucket(level, y)
           /\ \A y : CheckBumped(level, y)' = Bumps(t, GetBucket(level, y), Val(y))
           /\ \A l \in Levels : l # level => \A y : CheckBumped(l, y)' = CheckBumped(l, y)
<1>1. /\ storage' = [l \in Levels |-> storage'[l]] /\ storage'[level] = t
      /\ \A l \in Levels : l # level => storage'[l] = storage[l]
  BY DEF Types
<1>2. \A l : Given(l)' = Given(l)
  BY DEF Given
<1>3. NumStarts(storage'[level]) = NumStarts(storage[level])
  BY <1>1 DEF NumStarts
<1>4. \A y : GetStart(level, y)' = GetStart(level, y)
  BY <1>3 DEF GetStart
<1>5. \A y : /\ Val(y)' = Val(y) /\ GetBucket(level, y)' = GetBucket(level, y)
             /\ GetIntraBucket(level, y)' = GetIntraBucket(level, y)
  BY <1>4 DEF GetBucket, GetIntraBucket, Val
<1>6. \A y : CheckBumped(level, y)' = Bumps(t, GetBucket(level, y), Val(y))
  BY <1>1, <1>5 DEF CheckBumped, Bumps, Val
<1>7. ASSUME NEW l \in Levels, NEW y, l # level
      PROVE  CheckBumped(l, y)' = CheckBumped(l, y)
  BY <1>1, <1>7 DEF CheckBumped, GetBucket, GetIntraBucket, GetStart
<1> QED
  BY <1>1, <1>2, <1>5, <1>6, <1>7

LEMMA InsertStep ==
    ASSUME IInv, pc = "insert", pc' = pc, data' = data, hasher' = hasher,
           level' = level, base' = base, NEW t, StorageRecord(t), Geometry(t),
           t.num_slots = storage[level].num_slots,
           storage' = [storage EXCEPT ![level] = t],
           pending' \subseteq pending, bumped' \subseteq Given(level),
           level = depth => bumped' = {}, ScanInv'
    PROVE  IInv'
<1>1. Types
  BY DEF IInv
<1>2. /\ storage' = [l \in Levels |-> storage'[l]]
      /\ storage'[level] = t /\ (\A l \in Levels : l # level => storage'[l] = storage[l])
      /\ \A l : Given(l)' = Given(l)
      /\ \A l \in Levels : l # level => \A y : CheckBumped(l, y)' = CheckBumped(l, y)
  BY <1>1, Frame
<1>3. \A l \in Levels : StorageRecord(storage'[l]) /\ storage'[l].num_slots \in Nat
  BY <1>1, <1>2 DEF Types, Geometry
<1>4. Types'
  <2>1. \A l \in Levels : hasher'[l] \in [Given(l)' -> Hash] /\ Given(l)' \subseteq data'
    BY <1>1, <1>2 DEF Types
  <2>2. Given(level)' = Given(level) /\ pending' \subseteq Given(level)
    BY <1>1, <1>2 DEF Types, Given
  <2>3. \A l \in Levels : StorageRecord(storage[l])' /\ (storage[l].num_slots \in Nat)'
    BY <1>3 DEF StorageRecord
  <2> QED
    BY <1>1, <1>2, <2>1, <2>2, <2>3 DEF Types
<1>5. ASSUME NEW l \in Levels, l < level PROVE LevelAgrees(l)'
  BY <1>2, <1>5 DEF IInv, LevelAgrees
<1>6. Geometry(storage[level])'
  BY <1>2 DEF Geometry
<1> QED
  BY <1>2, <1>4, <1>5, <1>6 DEF IInv

ScanRecord(c) ==
    c = [last_bucket |-> c.last_bucket, all_good |-> c.all_good, thresh |-> c.thresh,
         last_cval |-> c.last_cval, last_val |-> c.last_val,
         bump_cache |-> c.bump_cache, unc_bump_cache |-> c.unc_bump_cache]

Cached(c, e) == [c EXCEPT !.bump_cache = @ \cup {e}, !.unc_bump_cache = @ \cup {e}]

LEMMA CachedOneMore ==
    ASSUME NEW c, NEW row, NEW x
    PROVE  CachedItems(c \cup {<<row, x>>}) = CachedItems(c) \cup {x}
<1>1. \A y \in CachedItems(c \cup {<<row, x>>}) : y \in CachedItems(c) \cup {x}
  BY DEF CachedItems
<1>2. \A y \in CachedItems(c) : y \in CachedItems(c \cup {<<row, x>>})
  BY DEF CachedItems
<1>3. x \in CachedItems(c \cup {<<row, x>>})
  <2>1. <<row, x>> \in c \cup {<<row, x>>} /\ <<row, x>>[2] = x
    OBVIOUS
  <2> QED
    BY <2>1 DEF CachedItems
<1> QED
  BY <1>1, <1>2, <1>3

LEMMA CachedMore ==
    ASSUME NEW c, ScanRecord(c), NEW e, NEW d, d = Cached(c, e)
    PROVE  /\ ScanRecord(d) /\ d.last_bucket = c.last_bucket /\ d.all_good = c.all_good
           /\ d.thresh = c.thresh /\ d.last_cval = c.last_cval /\ d.last_val = c.last_val
           /\ d.bump_cache = c.bump_cache \cup {e}
           /\ d.unc_bump_cache = c.unc_bump_cache \cup {e}
<1>1. d = [last_bucket |-> c.last_bucket, all_good |-> c.all_good, thresh |-> c.thresh,
           last_cval |-> c.last_cval, last_val |-> c.last_val,
           bump_cache |-> c.bump_cache \cup {e},
           unc_bump_cache |-> c.unc_bump_cache \cup {e}]
  BY DEF ScanRecord, Cached
<1> QED
  BY <1>1 DEF ScanRecord

Written(t, row, c, r) == [t EXCEPT !.coeffs[row] = c, !.results[row] = r]

LEMMA WrittenRow ==
    ASSUME NEW t, StorageRecord(t), NEW row, NEW c, NEW r, NEW u, u = Written(t, row, c, r)
    PROVE  /\ StorageRecord(u) /\ u.num_slots = t.num_slots
           /\ u.meta = t.meta /\ u.plus = t.plus
<1>1. u = [num_slots |-> t.num_slots, coeffs |-> [t.coeffs EXCEPT ![row] = c],
           results |-> [t.results EXCEPT ![row] = r],
           meta |-> t.meta, plus |-> t.plus]
  BY DEF StorageRecord, Written
<1> QED
  BY <1>1 DEF StorageRecord

\* what is known of an item that may be added: the scan has come to its place
Addable(x) ==
    /\ IInv /\ NextItem(x) /\ (Stays(x) => scan.all_good)
    /\ data' = data /\ pc' = pc /\ level' = level /\ hasher' = hasher
    /\ base' = base /\ pending' = pending \ {x}

LEMMA AddedItem ==
    ASSUME NEW x, Addable(x)
    PROVE  /\ Inserting /\ x \in pending /\ x \in Given(level) /\ x \notin Done
           /\ Done' = Done \cup {x} /\ pending' \subseteq pending
           /\ \A y \in pending : StartToSort(level, x) <= StartToSort(level, y)
<1>1. Inserting /\ x \in pending /\ pending \subseteq Given(level)
  BY OfLevel DEF Addable, NextItem, Inserting, Types
<1>2. Done' = Done \cup {x} /\ x \notin Done
  BY <1>1 DEF Addable, Done, Given
<1> QED
  BY <1>1, <1>2 DEF Addable, NextItem

LEMMA AddItemStep ==
    ASSUME IInv, NEW x, AddItem(x)
    PROVE  IInv'
<1> DEFINE row == Min(Tried(x).coeffs)
           now == Entered(x)
           s == storage[level]
           t == MetaOnMove(s, GetBucket(level, x))
           u == Written(t, row, Tried(x).coeffs, Tried(x).result)
           entry == <<row, x>>
           bucket == GetBucket(level, x)
<1>1. /\ Addable(x) /\ bumped' = bumped /\ pc = "insert"
      /\ storage' = [storage EXCEPT ![level] = u]
      /\ scan' = Cached(now, entry)
  BY DEF AddItem, Addable, NextItem, Written, Cached
<1>2. /\ Inserting /\ x \in pending /\ x \in Given(level) /\ x \notin Done
      /\ Done' = Done \cup {x} /\ pending' \subseteq pending /\ pending' = pending \ {x}
      /\ (Stays(x) => scan.all_good)
      /\ \A y \in pending : StartToSort(level, x) <= StartToSort(level, y)
      /\ hasher' = hasher /\ level' = level /\ Types
  BY <1>1, AddedItem DEF Addable, Inserting
<1>3. /\ StorageRecord(t) /\ Geometry(t) /\ t.num_slots = s.num_slots
      /\ t.plus = s.plus /\ DOMAIN t.meta = DOMAIN s.meta
      /\ \A y \in Done : GetBucket(level, y) # bucket =>
            (Bumps(t, GetBucket(level, y), Val(y)) <=> y \in bumped)
  BY <1>2, Moved
<1>4. /\ StorageRecord(u) /\ u.num_slots = s.num_slots /\ u.meta = t.meta
      /\ u.plus = s.plus
  <2> HIDE DEF t, s, row
  <2> QED
    BY <1>3, WrittenRow
<1>5. Geometry(u)
  <2> HIDE DEF t, s, u
  <2> QED
    BY <1>3, <1>4 DEF Geometry
<1>6. /\ now = [last_bucket |-> bucket, all_good |-> TRUE, thresh |-> NoBumpThresh,
                last_cval |-> Compress(Val(x)), last_val |-> Val(x),
                bump_cache |-> now.bump_cache, unc_bump_cache |-> now.unc_bump_cache]
      /\ CachedItems(now.bump_cache) =
                 {y \in Done : GetBucket(level, y) = bucket
                                  /\ Compress(Val(y)) = Compress(Val(x))}
      /\ CachedItems(now.unc_bump_cache) =
                 {y \in Done : GetBucket(level, y) = bucket /\ Val(y) = Val(x)}
      /\ \A y \in Done : GetBucket(level, y) = bucket => Val(y) <= Val(x)
  BY <1>2, EnteredScan
<1>7. /\ scan'.last_bucket = bucket /\ scan'.all_good = TRUE
      /\ scan'.thresh = NoBumpThresh /\ scan'.last_cval = Compress(Val(x))
      /\ scan'.last_val = Val(x)
      /\ scan'.bump_cache = now.bump_cache \cup {entry}
      /\ scan'.unc_bump_cache = now.unc_bump_cache \cup {entry}
      /\ ScanRecord(scan')
  <2> HIDE DEF now, bucket, entry
  <2>1. /\ now.last_bucket = bucket /\ now.all_good = TRUE /\ now.thresh = NoBumpThresh
        /\ now.last_cval = Compress(Val(x)) /\ now.last_val = Val(x) /\ ScanRecord(now)
    BY <1>6 DEF ScanRecord
  <2> QED
    BY <1>1, <2>1, CachedMore
<1>8. /\ storage'[level] = u
      /\ \A y : Val(y)' = Val(y) /\ GetBucket(level, y)' = GetBucket(level, y)
      /\ \A y : CheckBumped(level, y)' = Bumps(u, GetBucket(level, y), Val(y))
  BY <1>1, <1>2, <1>4, Frame
<1>9. /\ \A y \in Done' : Here(y)' <=> GetBucket(level, y) = bucket
      /\ \A b, v : Plus(b, v)' <=> Plus(b, v)
  BY <1>2, <1>4, <1>7, <1>8 DEF Here, Plus
<1>10. /\ bucket \in DOMAIN s.meta /\ Val(x) \in 0 .. kBucketSize - 1
       /\ kBucketSize \in Nat \ {0}
  BY <1>2, Places, RibbonAssumption
<1>11. ScanTypes'
  <2>1. scan'.last_bucket \in DOMAIN storage'[level'].meta
    <3> HIDE DEF bucket, s, u, t
    <3> QED
      BY <1>2, <1>3, <1>4, <1>7, <1>8, <1>10
  <2>2. scan'.last_val \in -1 .. kBucketSize - 1 /\ scan'.last_cval = Compress(scan'.last_val)
    BY <1>7, <1>10
  <2> HIDE DEF now, bucket, s, u, t
  <2> QED
    BY <1>7, <2>1, <2>2 DEF ScanTypes, ScanRecord, Compress
<1>12. Order'
  <2>1. bumped \subseteq Done
    BY <1>2 DEF Inserting, ScanInv, Order
  <2>2. \A y \in Done : GetBucket(level, y) <= bucket
    BY <1>2, Untouched
  <2>3. \A y \in Done' : GetBucket(level, y) <= bucket /\
                         (GetBucket(level, y) = bucket => Val(y) <= Val(x))
    BY <1>2, <1>6, <1>10, <2>2, Places
  <2>4. \A y \in pending : bucket <= GetBucket(level, y) /\
                           (GetBucket(level, y) = bucket => Val(x) <= Val(y))
    BY <1>2, NextPlace
  <2>5. \A y \in pending' : Here(y)' <=> GetBucket(level, y) = bucket
    BY <1>2, <1>7, <1>8 DEF Here
  <2> HIDE DEF bucket
  <2> QED
    BY <1>1, <1>2, <1>7, <1>8, <1>9, <2>1, <2>3, <2>4, <2>5 DEF Order
<1>13. ASSUME NEW y \in Done', ~Here(y)'
       PROVE  CheckBumped(level, y)' <=> y \in bumped
  <2>1. y \in Done /\ GetBucket(level, y) # bucket
    BY <1>2, <1>9, <1>13
  <2>2. Bumps(t, GetBucket(level, y), Val(y)) <=> y \in bumped
    BY <1>3, <2>1
  <2>3. u.meta = t.meta /\ u.plus = t.plus
    BY <1>3, <1>4
  <2>4. Bumps(u, GetBucket(level, y), Val(y)) = Bumps(t, GetBucket(level, y), Val(y))
    <3> HIDE DEF u, t
    <3> QED
      BY <2>3, BumpsSame
  <2> HIDE DEF u, t
  <2> QED
    BY <1>8, <2>2, <2>4, Zenon
<1>14. ClosedBuckets'
  <2>1. \A b, v \in Nat : b > bucket => ~Plus(b, v)
    BY <1>2, <1>10, Untouched, Places
  <2> HIDE DEF bucket
  <2> QED
    BY <1>1, <1>2, <1>7, <1>9, <1>13, <2>1 DEF ClosedBuckets
<1>15. GoodBucket'
  <2>1. \A v \in Nat : ~Plus(bucket, v)
    BY <1>2, Untouched, Places
  <2>2. \A y \in Done' : GetBucket(level, y) = bucket => y \notin bumped
    BY <1>2, Untouched DEF Inserting, ScanInv, Order
  <2>3. \A c : CachedItems(c \cup {entry}) = CachedItems(c) \cup {x}
    BY CachedOneMore
  <2>4. CachedItems(scan'.bump_cache) =
           {y \in Done' : GetBucket(level, y) = bucket /\ Compress(Val(y)) = Compress(Val(x))}
    BY <1>2, <1>6, <1>7, <2>3
  <2>5. CachedItems(scan'.unc_bump_cache) =
           {y \in Done' : GetBucket(level, y) = bucket /\ Val(y) = Val(x)}
    BY <1>2, <1>6, <1>7, <2>3
  <2>6. /\ \A c : CachedItems(c)' = CachedItems(c')
        /\ \A v : Compress(v)' = Compress(v)
    BY DEF CachedItems, Compress
  <2> QED
    BY <1>1, <1>7, <1>8, <1>9, <2>1, <2>2, <2>4, <2>5 DEF GoodBucket, CachedItems
<1>16. ScanInv'
  BY <1>7, <1>11, <1>12, <1>14, <1>15 DEF ScanInv
<1>17. bumped' \subseteq Given(level) /\ (level = depth => bumped' = {})
  BY <1>1, <1>2 DEF IInv, Types
<1> HIDE DEF u
<1> QED
  BY <1>1, <1>2, <1>4, <1>5, <1>16, <1>17, InsertStep DEF Addable

\* the thresholds a failure writes
Failed(t, cache, b, cval, v) ==
    [Cleared(t, cache) EXCEPT !.meta[b] = 0,
                              !.plus = IF cval = 2 THEN @ \cup {<<b, v>>} ELSE @]

LEMMA FailedTable ==
    ASSUME NEW t, StorageRecord(t), NEW cache, NEW b, NEW cval, NEW v,
           NEW u, u = Failed(t, cache, b, cval, v)
    PROVE  /\ StorageRecord(u) /\ u.num_slots = t.num_slots
           /\ DOMAIN u.meta = DOMAIN t.meta /\ (Geometry(t) => Geometry(u))
           /\ b \in DOMAIN t.meta => u.meta[b] = 0
           /\ \A c \in DOMAIN t.meta : c # b => u.meta[c] = t.meta[c]
           /\ \A c, w : <<c, w>> \in u.plus <=>
                            <<c, w>> \in t.plus \/ (cval = 2 /\ c = b /\ w = v)
<1> DEFINE k == Cleared(t, cache)
           rows == {entry[1] : entry \in cache}
           Emptied(f) == [p \in DOMAIN f |-> IF p \in rows THEN {} ELSE f[p]]
           fc == Emptied(t.coeffs)
           fr == Emptied(t.results)
<1>1. k = [t EXCEPT !.coeffs = fc, !.results = fr]
  BY DEF Cleared
<1>2. u = [k EXCEPT !.meta[b] = 0, !.plus = IF cval = 2 THEN @ \cup {<<b, v>>} ELSE @]
  BY DEF Failed
<1> HIDE DEF k, fc, fr
<1>3. k = [num_slots |-> t.num_slots, coeffs |-> fc, results |-> fr,
           meta |-> t.meta, plus |-> t.plus]
  BY <1>1 DEF StorageRecord
<1>4. u = [num_slots |-> t.num_slots, coeffs |-> fc, results |-> fr,
           meta |-> [t.meta EXCEPT ![b] = 0],
           plus |-> IF cval = 2 THEN t.plus \cup {<<b, v>>} ELSE t.plus]
  BY <1>2, <1>3
<1>5. /\ StorageRecord(u) /\ u.num_slots = t.num_slots
      /\ u.meta = [t.meta EXCEPT ![b] = 0]
      /\ u.plus = IF cval = 2 THEN t.plus \cup {<<b, v>>} ELSE t.plus
  BY <1>4 DEF StorageRecord
<1>6. Geometry(t) => Geometry(u)
  BY <1>5 DEF Geometry
<1> QED
  BY <1>5, <1>6

AfterFailure(c) ==
    [c EXCEPT !.all_good = FALSE, !.thresh = c.last_cval,
              !.bump_cache = IF c.last_cval = 2 THEN @ ELSE {},
              !.unc_bump_cache = IF c.last_cval = 2 THEN {} ELSE @]

LEMMA FailedScan ==
    ASSUME NEW c, ScanRecord(c), NEW d, d = AfterFailure(c)
    PROVE  /\ ScanRecord(d) /\ d.last_bucket = c.last_bucket /\ d.all_good = FALSE
           /\ d.thresh = c.last_cval /\ d.last_cval = c.last_cval
           /\ d.last_val = c.last_val
<1>1. d = [last_bucket |-> c.last_bucket, all_good |-> FALSE, thresh |-> c.last_cval,
           last_cval |-> c.last_cval, last_val |-> c.last_val,
           bump_cache |-> IF c.last_cval = 2 THEN c.bump_cache ELSE {},
           unc_bump_cache |-> IF c.last_cval = 2 THEN {} ELSE c.unc_bump_cache]
  BY DEF ScanRecord, AfterFailure
<1> QED
  BY <1>1 DEF ScanRecord

LEMMA FirstFailureStep ==
    ASSUME IInv, NEW x, FirstFailure(x)
    PROVE  IInv'
<1> DEFINE bucket == GetBucket(level, x)
           now == Entered(x)
           s == storage[level]
           t == MetaOnMove(s, bucket)
           plus == now.last_cval = 2
           cache == IF plus THEN now.unc_bump_cache ELSE now.bump_cache
           u == Failed(t, cache, bucket, now.last_cval, now.last_val)
           last == Val(x)
<1>1. /\ Addable(x) /\ pc = "insert" /\ level < depth
      /\ storage' = [storage EXCEPT ![level] = u]
      /\ scan' = AfterFailure(now)
      /\ bumped' = bumped \cup CachedItems(cache) \cup {x}
  BY DEF FirstFailure, Addable, NextItem, Failed, AfterFailure
<1>2. /\ Inserting /\ x \in pending /\ x \in Given(level) /\ x \notin Done
      /\ Done' = Done \cup {x} /\ pending' \subseteq pending /\ pending' = pending \ {x}
      /\ (Stays(x) => scan.all_good)
      /\ \A y \in pending : StartToSort(level, x) <= StartToSort(level, y)
      /\ hasher' = hasher /\ level' = level /\ Types
  BY <1>1, AddedItem DEF Addable, Inserting
<1>3. /\ StorageRecord(t) /\ Geometry(t) /\ t.num_slots = s.num_slots
      /\ t.plus = s.plus /\ DOMAIN t.meta = DOMAIN s.meta
      /\ \A y \in Done : GetBucket(level, y) # bucket =>
            (Bumps(t, GetBucket(level, y), Val(y)) <=> y \in bumped)
  BY <1>2, Moved
<1>4. /\ StorageRecord(u) /\ u.num_slots = s.num_slots /\ DOMAIN u.meta = DOMAIN s.meta
      /\ Geometry(u)
      /\ bucket \in DOMAIN s.meta => u.meta[bucket] = 0
      /\ \A b \in DOMAIN s.meta : b # bucket => u.meta[b] = t.meta[b]
      /\ \A b, v : <<b, v>> \in u.plus <=>
            <<b, v>> \in s.plus \/ (now.last_cval = 2 /\ b = bucket /\ v = now.last_val)
  <2> HIDE DEF t, s, cache, now, bucket
  <2> QED
    BY <1>3, FailedTable
<1>5. Geometry(u)
  BY <1>4
<1>6. /\ now.last_bucket = bucket /\ now.last_cval = Compress(last) /\ now.last_val = last
      /\ ScanRecord(now)
      /\ CachedItems(now.bump_cache) =
                 {y \in Done : GetBucket(level, y) = bucket
                                  /\ Compress(Val(y)) = Compress(last)}
      /\ CachedItems(now.unc_bump_cache) =
                 {y \in Done : GetBucket(level, y) = bucket /\ Val(y) = last}
      /\ \A y \in Done : GetBucket(level, y) = bucket => Val(y) <= last
  <2>1. now = [last_bucket |-> bucket, all_good |-> TRUE, thresh |-> NoBumpThresh,
                last_cval |-> Compress(last), last_val |-> last,
                bump_cache |-> now.bump_cache, unc_bump_cache |-> now.unc_bump_cache]
    BY <1>2, EnteredScan
  <2>2. /\ now.last_bucket = bucket /\ now.last_cval = Compress(last)
        /\ now.last_val = last /\ ScanRecord(now)
    <3> HIDE DEF now, bucket
    <3> QED
      BY <2>1 DEF ScanRecord
  <2> QED
    BY <1>2, <2>2, EnteredScan
<1>7. /\ scan'.last_bucket = bucket /\ scan'.all_good = FALSE
      /\ scan'.thresh = Compress(last) /\ scan'.last_cval = Compress(last)
      /\ scan'.last_val = last /\ ScanRecord(scan')
  <2> HIDE DEF now, bucket, plus
  <2> QED
    BY <1>1, <1>6, FailedScan
<1>8. /\ storage'[level] = u
      /\ \A y : Val(y)' = Val(y) /\ GetBucket(level, y)' = GetBucket(level, y)
      /\ \A y : CheckBumped(level, y)' = Bumps(u, GetBucket(level, y), Val(y))
  BY <1>1, <1>2, <1>4, Frame
<1>9. plus <=> Compress(last) = 2
  BY <1>6
<1>10. /\ bucket \in DOMAIN s.meta /\ last \in 0 .. kBucketSize - 1 /\ bucket \in Nat
       /\ kBucketSize \in Nat \ {0}
       /\ \A y \in Done : Val(y) \in 0 .. kBucketSize - 1 /\ GetBucket(level, y) \in Nat
  BY <1>2, Places, RibbonAssumption DEF Done
<1>11. /\ \A y \in Done' : Here(y)' <=> GetBucket(level, y) = bucket
       /\ \A b, v : <<b, v>> \in u.plus <=>
             Plus(b, v) \/ (Compress(last) = 2 /\ b = bucket /\ v = last)
       /\ \A b, v : Plus(b, v)' <=> <<b, v>> \in u.plus
  <2>1. \A b, v : <<b, v>> \in u.plus <=>
             <<b, v>> \in s.plus \/ (Compress(last) = 2 /\ b = bucket /\ v = last)
    <3>1. now.last_cval = Compress(last) /\ now.last_val = last
      BY <1>6
    <3>2. \A b, v : <<b, v>> \in u.plus <=> <<b, v>> \in s.plus
                      \/ (now.last_cval = 2 /\ b = bucket /\ v = now.last_val)
      BY <1>4
    <3> HIDE DEF u, now, s, bucket, last
    <3> QED
      BY <3>1, <3>2
  <2> QED
    BY <1>2, <1>7, <1>8, <2>1 DEF Here, Plus
<1>12. ScanTypes'
  <2>1. scan'.last_bucket \in DOMAIN storage'[level'].meta
    <3> HIDE DEF bucket, s, u, t
    <3> QED
      BY <1>2, <1>3, <1>4, <1>7, <1>8, <1>10
  <2>2. scan'.last_val \in -1 .. kBucketSize - 1 /\ scan'.last_cval = Compress(scan'.last_val)
    BY <1>7, <1>10
  <2> HIDE DEF now, bucket, s, u, t
  <2> QED
    BY <1>7, <2>1, <2>2 DEF ScanTypes, ScanRecord, Compress
<1>13. CachedItems(cache) = {y \in Done : GetBucket(level, y) = bucket /\
           IF plus THEN Val(y) = last ELSE Compress(Val(y)) = Compress(last)}
  <2> HIDE DEF now, bucket, last, plus
  <2> QED
    BY <1>6
<1>14. Order'
  <2>1. bumped' \subseteq Done'
    BY <1>1, <1>2, <1>13 DEF Inserting, ScanInv, Order
  <2>2. \A y \in Done : GetBucket(level, y) <= bucket
    BY <1>2, Untouched
  <2>3. \A y \in Done' : GetBucket(level, y) <= bucket
    BY <1>2, <1>10, <2>2
  <2>4. \A y \in pending : bucket <= GetBucket(level, y) /\
                           (GetBucket(level, y) = bucket => last <= Val(y))
    BY <1>2, NextPlace
  <2>5. \A y \in pending' : Here(y)' <=> GetBucket(level, y) = bucket
    BY <1>2, <1>7, <1>8 DEF Here
  <2> HIDE DEF bucket, last
  <2> QED
    BY <1>2, <1>7, <1>8, <1>11, <2>1, <2>3, <2>4, <2>5 DEF Order
<1>15. ASSUME NEW y \in Done', GetBucket(level, y) # bucket
       PROVE  CheckBumped(level, y)' <=> y \in bumped'
  <2>1. y \in Done
    BY <1>2, <1>15
  <2>2. Bumps(t, GetBucket(level, y), Val(y)) <=> y \in bumped
    BY <1>3, <1>15, <2>1
  <2>3. /\ u.meta[GetBucket(level, y)] = t.meta[GetBucket(level, y)]
        /\ \A w \in Nat : <<GetBucket(level, y), w>> \in u.plus <=>
                          <<GetBucket(level, y), w>> \in t.plus
    <3>1. GetBucket(level, y) \in DOMAIN s.meta
      BY <1>2, <2>1, Places DEF Done
    <3> HIDE DEF u, t, s, bucket, plus, now
    <3> QED
      BY <1>3, <1>4, <1>15, <3>1
  <2>4. Bumps(u, GetBucket(level, y), Val(y)) = Bumps(t, GetBucket(level, y), Val(y))
    <3> HIDE DEF u, t
    <3> QED
      BY <2>3, BumpsSame
  <2>5. y \in bumped' <=> y \in bumped
    BY <1>1, <1>2, <1>13, <1>15, <2>1
  <2> HIDE DEF u, t
  <2> QED
    BY <1>8, <2>2, <2>4, <2>5, Zenon
<1>16. ClosedBuckets'
  <2>1. \A b, v \in Nat : b > bucket => ~Plus(b, v)
    BY <1>2, <1>10, Untouched
  <2>2. \A b, v \in Nat : b > bucket => ~Plus(b, v)'
    <3> HIDE DEF bucket, last, u
    <3> QED
      BY <1>10, <1>11, <2>1 DEF Plus
  <2>3. \A y \in Done' : ~Here(y)' => (CheckBumped(level, y)' <=> y \in bumped')
    BY <1>11, <1>15
  <2> HIDE DEF bucket, last
  <2> QED
    BY <1>2, <1>7, <2>2, <2>3 DEF ClosedBuckets
<1>17. u.meta[bucket] = 0
  <2> HIDE DEF u, t, s, bucket
  <2> QED
    BY <1>3, <1>4, <1>10
<1>18. \A v \in Nat : <<bucket, v>> \in u.plus <=> Compress(last) = 2 /\ v = last
  <2>1. \A v \in Nat : ~Plus(bucket, v)
    BY <1>2, <1>10, Untouched
  <2> HIDE DEF bucket, last, u
  <2> QED
    BY <1>11, <2>1
<1>19. ASSUME NEW y \in Done', GetBucket(level, y) = bucket
       PROVE  CheckBumped(level, y)' <=> y \in bumped'
  <2>1. Val(y) \in 0 .. kBucketSize - 1 /\ Val(y) <= last
    BY <1>2, <1>6, <1>10, <1>19
  <2>2. \A w \in Nat : <<bucket, w>> \in u.plus <=> Compress(last) = 2 /\ w = last
    BY <1>18
  <2>3. Bumps(u, bucket, Val(y)) <=>
            (Compress(last) = 2 /\ Val(y) >= last) \/ Compress(Val(y)) = 0
    <3> HIDE DEF u, bucket, last
    <3> QED
      BY <1>10, <1>17, <2>1, <2>2, BumpsFailed
  <2>4. y \in bumped' <=>
            y = x \/ IF Compress(last) = 2 THEN Val(y) = last
                     ELSE Compress(Val(y)) = Compress(last)
    <3>1. y \in Done => y \notin bumped
      BY <1>2, <1>19, Untouched
    <3> HIDE DEF cache, plus, bucket, last
    <3> QED
      BY <1>1, <1>2, <1>9, <1>13, <1>19, <3>1
  <2>5. /\ Compress(last) = IF last >= thresh_ THEN 0 ELSE 2
        /\ Compress(Val(y)) = IF Val(y) >= thresh_ THEN 0 ELSE 2
    BY <1>10, <2>1, CompressCases
  <2>6. y = x => Val(y) = last
    OBVIOUS
  <2>7. CheckBumped(level, y)' = Bumps(u, bucket, Val(y))
    BY <1>8, <1>19
  <2>8. y \in bumped' <=> (Compress(last) = 2 /\ Val(y) >= last) \/ Compress(Val(y)) = 0
    <3> HIDE DEF last, Val
    <3> QED
      BY <1>10, <2>1, <2>4, <2>5, <2>6, RibbonAssumption
  <2> HIDE DEF last, Val, u, bucket
  <2> QED
    BY <2>3, <2>7, <2>8
<1>20. FailedBucket'
  <2>1. /\ \A y \in Done' : Here(y)' => (CheckBumped(level, y)' <=> y \in bumped')
        /\ \A v \in Nat : <<scan'.last_bucket, v>> \in storage'[level].plus <=>
                              scan'.thresh = 2 /\ v = scan'.last_val
        /\ storage'[level].meta[scan'.last_bucket] = 0
    <3> HIDE DEF u, bucket, last
    <3> QED
      BY <1>7, <1>8, <1>11, <1>17, <1>18, <1>19
  <2> HIDE DEF last, bucket
  <2> QED
    BY <1>1, <1>2, <1>7, <1>10, <2>1 DEF FailedBucket, Plus
<1>21. ScanInv'
  BY <1>7, <1>12, <1>14, <1>16, <1>20 DEF ScanInv
<1>22. bumped' \subseteq Given(level) /\ level # depth
  BY <1>1, <1>2, <1>13, RibbonAssumption DEF Types, Levels, Done
<1> HIDE DEF u
<1> QED
  BY <1>1, <1>2, <1>4, <1>5, <1>21, <1>22, InsertStep DEF Addable

\* a bucket that has failed bumps everything behind the first failure
LEMMA HardBumpStep ==
    ASSUME IInv, NEW x, HardBump(x)
    PROVE  IInv'
<1> DEFINE bucket == GetBucket(level, x)
           s == storage[level]
<1>1. /\ pc = "insert" /\ pc' = pc /\ data' = data /\ level' = level /\ hasher' = hasher
      /\ base' = base /\ storage' = storage /\ scan' = scan
      /\ pending' = pending \ {x} /\ bumped' = bumped \cup {x}
      /\ x \in pending /\ Here(x) /\ ~scan.all_good /\ scan.last_bucket = bucket
      /\ \A y \in pending : StartToSort(level, x) <= StartToSort(level, y)
  BY DEF HardBump, NextItem, Stays, Here
<1>2. /\ Inserting /\ Types /\ ScanTypes /\ Order /\ ClosedBuckets /\ FailedBucket
      /\ Geometry(s) /\ StorageRecord(s) /\ level \in Levels
      /\ x \in Given(level) /\ pending \subseteq Given(level) /\ bumped \subseteq Given(level)
  BY <1>1, OfLevel DEF Inserting, ScanInv, Types
<1>3. /\ Done' = Done \cup {x} /\ x \notin Done
  BY <1>1, <1>2 DEF Done, Given
<1>4. /\ Val(x) \in 0 .. kBucketSize - 1 /\ scan.last_val \in 0 .. kBucketSize - 1
      /\ scan.last_val <= Val(x) /\ scan.last_cval = Compress(scan.last_val)
  BY <1>1, <1>2, Places DEF ScanTypes, FailedBucket, Order
<1>5. Bumps(s, bucket, Val(x))
  <2>1. \A w \in Nat : <<bucket, w>> \in s.plus <=>
                           Compress(scan.last_val) = 2 /\ w = scan.last_val
    BY <1>1, <1>2, <1>4 DEF FailedBucket, Plus
  <2>2. Bumps(s, bucket, Val(x)) <=>
            (Compress(scan.last_val) = 2 /\ Val(x) >= scan.last_val) \/ Compress(Val(x)) = 0
    <3>1. s.meta[bucket] = 0
      BY <1>1, <1>2 DEF FailedBucket
    <3> HIDE DEF s, bucket, Val
    <3> QED
      BY <1>4, <2>1, <3>1, BumpsFailed
  <2>3. /\ Compress(scan.last_val) = IF scan.last_val >= thresh_ THEN 0 ELSE 2
        /\ Compress(Val(x)) = IF Val(x) >= thresh_ THEN 0 ELSE 2
    BY <1>4, CompressCases
  <2> HIDE DEF Val, s, bucket
  <2> QED
    BY <1>4, <2>2, <2>3, RibbonAssumption
<1>6. CheckBumped(level, x)
  BY <1>5, CheckBumpedBumps DEF Val
<1>7. storage' = [storage EXCEPT ![level] = s]
  BY <1>1, <1>2 DEF Types
<1>8. /\ \A y : Val(y)' = Val(y) /\ GetBucket(level, y)' = GetBucket(level, y)
      /\ \A y : Here(y)' <=> Here(y)
      /\ \A y : CheckBumped(level, y)' <=> CheckBumped(level, y)
      /\ \A b, v : Plus(b, v)' <=> Plus(b, v)
  BY <1>1 DEF Val, GetBucket, GetIntraBucket, GetStart, Here, CheckBumped, Plus
<1>9. ScanTypes'
  BY <1>1, <1>2 DEF ScanTypes, Compress
<1>10. Order'
  <2>1. bumped' \subseteq Done'
    BY <1>1, <1>2, <1>3 DEF Order
  <2>2. \A y \in Done' : GetBucket(level, y) <= scan.last_bucket
    <3>1. scan.last_bucket \in Nat /\ bucket = scan.last_bucket
      BY <1>1, <1>2, Places
    <3>2. bucket <= scan.last_bucket
      BY <3>1
    <3> QED
      BY <1>2, <1>3, <3>2 DEF Order
  <2> QED
    BY <1>1, <1>2, <1>8, <2>1, <2>2 DEF Order
<1>11. ClosedBuckets'
  BY <1>1, <1>2, <1>3, <1>8 DEF ClosedBuckets
<1>12. FailedBucket'
  BY <1>1, <1>2, <1>3, <1>6, <1>8 DEF FailedBucket, Order
<1>13. ScanInv'
  BY <1>1, <1>9, <1>10, <1>11, <1>12 DEF ScanInv
<1>14. bumped' \subseteq Given(level) /\ level # depth
  BY <1>1, <1>2, RibbonAssumption DEF FailedBucket, Levels
<1> QED
  BY <1>1, <1>2, <1>7, <1>13, <1>14, InsertStep

-----------------------------------------------------------------------------
(* The steps that end or begin a level. *)

\* a level whose hashes and size stay, whatever happens to the other ones
LEMMA SameLevel ==
    ASSUME NEW l, hasher'[l] = hasher[l], NEW t, storage'[l] = t,
           t.num_slots = storage[l].num_slots
    PROVE  \A y : CheckBumped(l, y)' = Bumps(t, GetBucket(l, y), GetIntraBucket(l, y))
<1>1. \A y : GetStart(l, y)' = GetStart(l, y)
  BY DEF GetStart, NumStarts
<1>2. \A y : GetBucket(l, y)' = GetBucket(l, y) /\ GetIntraBucket(l, y)' = GetIntraBucket(l, y)
  BY <1>1 DEF GetBucket, GetIntraBucket
<1> QED
  BY <1>2 DEF CheckBumped, Bumps

LEMMA UnchangedLevel ==
    ASSUME NEW l, hasher'[l] = hasher[l], storage'[l] = storage[l]
    PROVE  \A y : CheckBumped(l, y)' = CheckBumped(l, y)
  BY SameLevel, CheckBumpedBumps

\* the base starts again from nothing
LEMMA RetryStep ==
    ASSUME IInv, NEW x, Retry(x)
    PROVE  IInv'
<1> DEFINE n == (base.orig * base'.per_item) \div 1000
<1>1. /\ pc = "insert" /\ pc' = pc /\ data' = data /\ level' = level /\ hasher' = hasher
      /\ base' = [base EXCEPT !.per_item = @ + Growth] /\ bumped' = bumped
      /\ storage' = [storage EXCEPT ![level] = Prepared(n)]
      /\ pending' = DOMAIN hasher[level] /\ scan' = NewScan /\ level = depth
  BY DEF Retry, NextItem
<1>2. /\ Types /\ bumped = {} /\ level \in Levels /\ base.orig >= 1
  BY <1>1 DEF IInv, Types
<1>3. /\ base'.orig = base.orig /\ base'.per_item \in Nat /\ base'.per_item >= 1000
      /\ base' = [orig |-> base'.orig, per_item |-> base'.per_item]
      /\ base.orig \in Nat
  <2>1. base.per_item \in Nat /\ base.orig \in Nat /\ base.per_item >= 1000
    BY <1>2 DEF Types
  <2>2. base' = [orig |-> base.orig, per_item |-> base.per_item + Growth]
    BY <1>1, <1>2 DEF Types
  <2> QED
    BY <2>1, <2>2, RibbonAssumption
<1>4. n \in Nat \ {0}
  <2> DEFINE p == base.orig * base'.per_item
  <2>1. p \in Nat
    BY <1>3
  <2>2. base'.per_item * 1 <= base'.per_item * base.orig
    BY <1>2, <1>3, Products
  <2>3. p >= 1000
    <3>1. base'.per_item * base.orig = p /\ base'.per_item * 1 = base'.per_item
      BY <1>3
    <3> HIDE DEF p
    <3> QED
      BY <1>3, <2>1, <2>2, <3>1
  <2> HIDE DEF p
  <2>4. p \div 1000 \in Int /\ p \div 1000 >= 1
    BY <2>1, <2>3, QuotientPositive, IntDivision
  <2>5. n = p \div 1000
    BY DEF p
  <2> QED
    BY <2>4, <2>5
<1> HIDE DEF n
<1>5. /\ \A l : Given(l)' = Given(l) /\ pending' = Given(level)
      /\ \A l \in Levels : l # level => storage'[l] = storage[l]
      /\ storage'[level] = Prepared(n)
      /\ storage' = [l \in Levels |-> storage'[l]]
  BY <1>1, <1>2 DEF Types, Given
<1>6. StorageRecord(Prepared(n)) /\ Geometry(Prepared(n))
      /\ 0 \in DOMAIN Prepared(n).meta /\ Prepared(n).plus = {}
  BY <1>4, PreparedTable
<1>7. Fresh'
  <2>1. hasher'[level] \in [Given(level)' -> Hash]
    BY <1>1, <1>2, <1>5 DEF Types
  <2>2. Geometry(storage'[level]) /\ 0 \in DOMAIN storage'[level].meta
        /\ storage'[level].plus = {}
    BY <1>5, <1>6
  <2>3. /\ level' \in Levels /\ bumped' = {}
        /\ pending' = Given(level)'
    BY <1>1, <1>2, <1>5
  <2> QED
    BY <1>1, <2>1, <2>2, <2>3 DEF Fresh, Geometry, NewScan, NoBumpThresh, Given
<1>8. Types'
  <2>1. \A l \in Levels : StorageRecord(storage'[l]) /\ storage'[l].num_slots \in Nat
    BY <1>2, <1>5, <1>6 DEF Types, Geometry
  <2>2. \A l \in Levels : hasher'[l] \in [Given(l)' -> Hash] /\ Given(l)' \subseteq data'
    BY <1>1, <1>2, <1>5 DEF Types
  <2>3. pending' \subseteq Given(level)'
    BY <1>1, <1>5 DEF Given
  <2> QED
    BY <1>1, <1>2, <1>3, <1>5, <2>1, <2>2, <2>3 DEF Types, StorageRecord, Given
<1>9. ASSUME NEW l \in Levels, l < level PROVE LevelAgrees(l)'
  <2>1. LevelAgrees(l) /\ l # level
    BY <1>1, <1>2, <1>9 DEF IInv, Levels
  <2>2. \A y : CheckBumped(l, y)' = CheckBumped(l, y)
    BY <1>1, <1>5, <2>1, UnchangedLevel
  <2> QED
    BY <1>5, <2>1, <2>2 DEF LevelAgrees
<1>10. ScanInv' /\ Geometry(storage[level])'
  BY <1>7, FreshScanNext DEF Fresh
<1> QED
  BY <1>1, <1>2, <1>3, <1>5, <1>8, <1>9, <1>10 DEF IInv

\* the thresholds of a level when all its items were met
ClosedTable == IF scan.thresh = NoBumpThresh
               THEN [storage[level] EXCEPT !.meta[scan.last_bucket] = NoBumpThresh]
               ELSE storage[level]

LEMMA LevelClosed ==
    ASSUME IInv, pc = "insert", pending = {}, NEW t, t = ClosedTable
    PROVE  /\ StorageRecord(t) /\ t.num_slots = storage[level].num_slots
           /\ \A y \in Given(level) :
                 Bumps(t, GetBucket(level, y), Val(y)) <=> y \in bumped
<1> DEFINE s == storage[level]
           last == scan.last_bucket
<1>1. /\ StorageRecord(s) /\ Geometry(s) /\ level \in Levels
      /\ ScanTypes /\ ClosedBuckets /\ Done = Given(level)
      /\ IF scan.all_good THEN GoodBucket ELSE FailedBucket
  BY DEF IInv, Types, ScanInv, Done
<1>2. last \in DOMAIN s.meta /\ last \in Nat
  BY <1>1 DEF ScanTypes, Geometry
<1>3. \A y \in Done : ~Here(y) => (Bumps(s, GetBucket(level, y), Val(y)) <=> y \in bumped)
  BY <1>1, CheckBumpedBumps DEF ClosedBuckets, Val
<1>4. CASE scan.thresh = NoBumpThresh
  <2>1. t = [s EXCEPT !.meta[last] = NoBumpThresh]
    BY <1>4 DEF ClosedTable
  <2>2. /\ StorageRecord(t) /\ t.num_slots = s.num_slots /\ t.plus = s.plus
        /\ t.meta = [s.meta EXCEPT ![last] = NoBumpThresh]
    BY <1>1, <2>1 DEF StorageRecord
  <2>3. scan.all_good
    <3>1. SUFFICES ASSUME ~scan.all_good PROVE FALSE
      OBVIOUS
    <3>2. /\ scan.thresh = Compress(scan.last_val)
          /\ scan.last_val \in 0 .. kBucketSize - 1
      BY <1>1, <3>1 DEF FailedBucket, ScanTypes
    <3> QED
      BY <1>4, <3>2, CompressCases DEF NoBumpThresh
  <2>4. Inserting
    BY OfLevel
  <2>5. ASSUME NEW y \in Done, ~Here(y)
        PROVE  Bumps(t, GetBucket(level, y), Val(y)) <=> y \in bumped
    <3>1. t.meta[GetBucket(level, y)] = s.meta[GetBucket(level, y)]
      BY <1>1, <2>2, <2>4, <2>5, Places DEF Here
    <3>2. \A w \in Nat : <<GetBucket(level, y), w>> \in t.plus <=>
                         <<GetBucket(level, y), w>> \in s.plus
      BY <2>2
    <3>3. Bumps(t, GetBucket(level, y), Val(y)) = Bumps(s, GetBucket(level, y), Val(y))
      <4> DEFINE b == GetBucket(level, y)
                 v == Val(y)
      <4>1. t.meta[b] = s.meta[b] /\ \A w \in Nat : <<b, w>> \in t.plus <=> <<b, w>> \in s.plus
        BY <3>1, <3>2
      <4> HIDE DEF s, b, v
      <4>2. Bumps(t, b, v) = Bumps(s, b, v)
        BY <4>1, BumpsSame
      <4> QED
        BY <4>2 DEF b, v
    <3>4. Bumps(s, GetBucket(level, y), Val(y)) <=> y \in bumped
      BY <1>3, <2>5
    <3> QED
      BY <3>3, <3>4, Zenon
  <2>6. ASSUME NEW y \in Done, Here(y)
        PROVE  Bumps(t, GetBucket(level, y), Val(y)) <=> y \in bumped
    <3>1. t.meta[GetBucket(level, y)] = NoBumpThresh
      BY <1>2, <2>2, <2>6 DEF Here
    <3>2. y \notin bumped /\ \A w \in Nat : <<GetBucket(level, y), w>> \notin t.plus
      BY <1>1, <2>2, <2>3, <2>6 DEF GoodBucket, Plus, Here
    <3>3. Val(y) \in 0 .. kBucketSize - 1
      BY <1>1, <2>4, Places
    <3> QED
      BY <3>1, <3>2, <3>3, BumpsNone
  <2> QED
    BY <1>1, <2>2, <2>5, <2>6
<1>5. CASE scan.thresh # NoBumpThresh
  <2>1. t = s /\ FailedBucket
    BY <1>1, <1>5 DEF GoodBucket, ClosedTable
  <2>2. \A y \in Done : Here(y) => (Bumps(t, GetBucket(level, y), Val(y)) <=> y \in bumped)
    BY <2>1, CheckBumpedBumps DEF FailedBucket, Val
  <2> QED
    BY <1>1, <1>3, <2>1, <2>2
<1> QED
  BY <1>4, <1>5

LEMMA FinishRangeStep ==
    ASSUME IInv, FinishRange
    PROVE  IInv'
<1> DEFINE t == ClosedTable
           n == Cardinality(bumped)
           slots == IF level + 1 < depth THEN ChildSlots(n) ELSE BaseSlots(n)
<1>1. PICK cur \in Levels : cur = level
  BY DEF IInv, Types
<1>2. /\ pc = "insert" /\ pending = {} /\ Types
      /\ data' = data
      /\ cur = depth => bumped = {}
      /\ \A l \in Levels : l > cur => Given(l) = {}
      /\ \A l \in Levels : l < cur => LevelAgrees(l)
      /\ bumped \subseteq Given(cur)
      /\ \A l \in Levels : StorageRecord(storage[l]) /\ storage[l].num_slots \in Nat
      /\ \A l \in Levels : hasher[l] \in [Given(l) -> Hash] /\ Given(l) \subseteq data
  BY <1>1 DEF FinishRange, IInv, Types
<1>3. /\ StorageRecord(t) /\ t.num_slots = storage[cur].num_slots
      /\ \A y \in Given(cur) :
            Bumps(t, GetBucket(cur, y), GetIntraBucket(cur, y)) <=> y \in bumped
  BY <1>1, <1>2, LevelClosed DEF Val
<1> DEFINE closed == [storage EXCEPT ![cur] = t]
<1>4. closed = IF scan.thresh = NoBumpThresh
               THEN [storage EXCEPT ![level].meta[scan.last_bucket] = NoBumpThresh]
               ELSE storage
  <2>1. storage = [storage EXCEPT ![cur] = storage[cur]]
    BY <1>2 DEF Types
  <2> QED
    BY <1>1, <2>1 DEF ClosedTable
<1>5. IF bumped = {}
      THEN /\ storage' = closed /\ pc' = "solve" /\ level' = 0
           /\ hasher' = hasher /\ pending' = {} /\ bumped' = {} /\ base' = base
      ELSE /\ level' = cur + 1
           /\ storage' = [closed EXCEPT ![cur + 1] = Prepared(slots)]
           /\ \E f \in HashFunctions(cur + 1, bumped) :
                 hasher' = [hasher EXCEPT ![cur + 1] = f]
           /\ pending' = bumped /\ bumped' = {} /\ scan' = NewScan
           /\ base' = [base EXCEPT !.orig = IF cur + 1 = depth THEN slots ELSE @]
           /\ pc' = pc
  <2> HIDE DEF closed
  <2> QED
    BY <1>1, <1>2, <1>4 DEF FinishRange
<1>6. /\ closed = [l \in Levels |-> closed[l]] /\ closed[cur] = t
      /\ \A l \in Levels : l # cur => closed[l] = storage[l]
  <2> HIDE DEF t
  <2> QED
    BY <1>1, <1>2 DEF Types
<1> HIDE DEF closed, t
<1>7. ASSUME storage'[cur] = t, hasher'[cur] = hasher[cur]
      PROVE  \A y \in Given(cur) : CheckBumped(cur, y)' <=> y \in bumped
  <2>1. \A y : CheckBumped(cur, y)' = Bumps(t, GetBucket(cur, y), GetIntraBucket(cur, y))
    BY <1>3, <1>7, SameLevel
  <2> QED
    BY <1>3, <2>1
<1>8. CASE bumped = {}
  <2>1. /\ storage' = closed /\ pc' = "solve" /\ level' = 0 /\ base' = base
        /\ hasher' = hasher /\ pending' = {} /\ bumped' = {}
    BY <1>5, <1>8
  <2>2. \A l : Given(l)' = Given(l)
    BY <2>1 DEF Given
  <2>3. ASSUME NEW l \in Levels PROVE LevelAgrees(l)'
    <3>1. CASE l < cur
      <4>1. hasher'[l] = hasher[l] /\ storage'[l] = storage[l]
        BY <1>1, <1>6, <2>1, <3>1 DEF Levels
      <4>2. \A y : CheckBumped(l, y)' = CheckBumped(l, y)
        BY <4>1, UnchangedLevel
      <4> QED
        BY <1>2, <2>2, <3>1, <4>2 DEF LevelAgrees
    <3>2. CASE l = cur
      <4>1. \A y \in Given(l) : ~CheckBumped(l, y)'
        BY <1>6, <1>7, <1>8, <2>1, <3>2
      <4>2. Given(l + 1) = {}
        <5>1. l + 1 \in Levels => l + 1 > cur
          BY <3>2, RibbonAssumption DEF Levels
        <5> QED
          BY <1>2, <5>1 DEF Given
      <4> QED
        BY <2>2, <4>1, <4>2 DEF LevelAgrees
    <3>3. CASE l > cur
      BY <1>2, <2>2, <3>3 DEF LevelAgrees
    <3> QED
      BY <3>1, <3>2, <3>3, RibbonAssumption DEF Levels
  <2>4. Types'
    <3>1. \A l \in Levels : StorageRecord(storage'[l]) /\ storage'[l].num_slots \in Nat
      BY <1>2, <1>3, <1>6, <2>1
    <3>2. \A l \in Levels : hasher'[l] \in [Given(l)' -> Hash] /\ Given(l)' \subseteq data'
      BY <1>2, <2>1, <2>2
    <3>3. level' \in Levels
      BY <2>1, RibbonAssumption DEF Levels
    <3> QED
      BY <1>2, <1>6, <2>1, <3>1, <3>2, <3>3 DEF Types, StorageRecord
  <2> QED
    BY <2>1, <2>3, <2>4 DEF IInv
<1>9. CASE bumped # {}
  <2> DEFINE next == cur + 1
  <2>1. /\ level' = next /\ storage' = [closed EXCEPT ![next] = Prepared(slots)]
        /\ pending' = bumped /\ bumped' = {} /\ scan' = NewScan /\ pc' = pc
        /\ base' = [base EXCEPT !.orig = IF next = depth THEN slots ELSE @]
    BY <1>5, <1>9
  <2>2. next \in Levels /\ next # cur /\ cur \in 0 .. depth /\ depth \in Nat
    BY <1>1, <1>2, <1>9, RibbonAssumption DEF Levels
  <2>3. PICK f \in HashFunctions(next, bumped) : hasher' = [hasher EXCEPT ![next] = f]
    BY <1>5, <1>9
  <2>4. bumped \subseteq data /\ IsFiniteSet(data) /\ data \in ItemSets
    BY <1>1, <1>2, ItemsAssumption DEF Types
  <2>5. f \in [bumped -> Hash]
    BY <2>2, <2>4, ItemsAssumption
  <2>6. slots \in Nat \ {0}
    <3>1. n \in Nat
      BY <2>4, FS_Subset, FS_CardinalityType
    <3> QED
      BY <3>1, SlotsOfLevel
  <2> HIDE DEF slots, next
  <2>7. /\ hasher' = [l \in Levels |-> hasher'[l]] /\ hasher'[next] = f
        /\ \A l \in Levels : l # next => hasher'[l] = hasher[l]
    BY <1>2, <2>2, <2>3 DEF Types
  <2>8. /\ Given(next)' = bumped
        /\ \A l \in Levels : l # next => Given(l)' = Given(l)
    BY <2>2, <2>5, <2>7 DEF Given
  <2>9. /\ storage' = [l \in Levels |-> storage'[l]] /\ storage'[next] = Prepared(slots)
        /\ storage'[cur] = t
        /\ \A l \in Levels : l # next /\ l # cur => storage'[l] = storage[l]
    BY <1>6, <2>1, <2>2
  <2>10. StorageRecord(Prepared(slots)) /\ Geometry(Prepared(slots))
         /\ 0 \in DOMAIN Prepared(slots).meta /\ Prepared(slots).plus = {}
    BY <2>6, PreparedTable
  <2>11. Given(level)' = bumped
    BY <2>1, <2>8 DEF Given
  <2>12. Fresh'
    <3>1. hasher'[level'] \in [Given(level)' -> Hash]
      BY <2>1, <2>5, <2>7, <2>11
    <3>2. Geometry(storage'[level']) /\ 0 \in DOMAIN storage'[level'].meta
          /\ storage'[level'].plus = {}
      BY <2>1, <2>9, <2>10
    <3> QED
      BY <2>1, <2>2, <2>11, <3>1, <3>2 DEF Fresh, Geometry, NewScan, NoBumpThresh
  <2>13. /\ base' = [orig |-> base'.orig, per_item |-> base'.per_item]
         /\ base'.orig \in Nat /\ base'.per_item \in Nat /\ base'.per_item >= 1000
         /\ next = depth => base'.orig >= 1
    <3>1. base' = [orig |-> IF next = depth THEN slots ELSE base.orig,
                   per_item |-> base.per_item]
      BY <1>2, <2>1 DEF Types
    <3> QED
      BY <1>2, <2>6, <3>1 DEF Types
  <2>14. Types'
    <3>1. \A l \in Levels : StorageRecord(storage'[l]) /\ storage'[l].num_slots \in Nat
      <4> TAKE l \in Levels
      <4>1. CASE l = next
        BY <2>9, <2>10, <4>1 DEF Geometry
      <4>2. CASE l = cur
        BY <1>2, <1>3, <2>9, <4>2
      <4>3. CASE l # cur /\ l # next
        BY <1>2, <2>9, <4>3
      <4> QED
        BY <4>1, <4>2, <4>3
    <3>2. ASSUME NEW l \in Levels
          PROVE  hasher'[l] \in [Given(l)' -> Hash] /\ Given(l)' \subseteq data'
      BY <1>2, <2>4, <2>5, <2>7, <2>8
    <3>3. level' \in Levels /\ pending' \subseteq Given(level)' /\ bumped' \subseteq Given(level)'
      BY <2>1, <2>2, <2>11
    <3> QED
      BY <1>2, <2>1, <2>7, <2>9, <2>13, <3>1, <3>2, <3>3 DEF Types, StorageRecord
  <2>15. ASSUME NEW l \in Levels, l < next PROVE LevelAgrees(l)'
    <3>1. CASE l = cur
      <4>1. \A y \in Given(l) : CheckBumped(l, y)' <=> y \in bumped
        BY <1>7, <2>2, <2>7, <2>9, <3>1
      <4>2. Given(l)' = Given(l) /\ Given(l + 1)' = bumped
        BY <2>2, <2>8, <3>1 DEF next
      <4> QED
        BY <4>1, <4>2 DEF LevelAgrees
    <3>2. CASE l < cur
      <4>1. l # cur /\ l # next /\ l + 1 # next /\ l + 1 \in Levels
        BY <2>2, <3>2 DEF next, Levels
      <4>2. \A y : CheckBumped(l, y)' = CheckBumped(l, y)
        BY <2>7, <2>9, <4>1, UnchangedLevel
      <4>3. Given(l)' = Given(l) /\ Given(l + 1)' = Given(l + 1)
        BY <2>8, <4>1
      <4> QED
        BY <1>2, <3>2, <4>2, <4>3 DEF LevelAgrees
    <3> QED
      BY <2>2, <2>15, <3>1, <3>2 DEF next, Levels
  <2>16. ASSUME NEW l \in Levels, l > next PROVE Given(l)' = {}
    <3>1. l > cur /\ l # next
      BY <2>2, <2>16 DEF next, Levels
    <3> QED
      BY <1>2, <2>8, <3>1
  <2>17. ScanInv' /\ Geometry(storage[level])'
    BY <2>12, FreshScanNext DEF Fresh
  <2> QED
    BY <1>2, <2>1, <2>13, <2>14, <2>15, <2>16, <2>17 DEF IInv
<1> QED
  BY <1>8, <1>9

-----------------------------------------------------------------------------
(* The steps of a complete table. *)

LEMMA SolvedStep ==
    ASSUME IInv, pc # "insert", pc' \in {"solve", "ready"}, level' \in Levels,
           data' = data, hasher' = hasher, pending' = pending, bumped' = bumped,
           base' = base, storage' = [l \in Levels |-> storage'[l]],
           \A l \in Levels : /\ StorageRecord(storage'[l])
                             /\ storage'[l].num_slots = storage[l].num_slots
                             /\ storage'[l].meta = storage[l].meta
                             /\ storage'[l].plus = storage[l].plus
    PROVE  IInv'
<1>1. /\ Types /\ pending = {} /\ bumped = {}
      /\ \A l \in Levels : LevelAgrees(l)
  BY DEF IInv
<1>2. \A l : Given(l)' = Given(l)
  BY DEF Given
<1>3. Types'
  <2>1. \A l \in Levels : storage'[l].num_slots \in Nat
    BY <1>1 DEF Types
  <2>2. \A l \in Levels : hasher'[l] \in [Given(l)' -> Hash] /\ Given(l)' \subseteq data'
    BY <1>1, <1>2 DEF Types
  <2> QED
    BY <1>1, <2>1, <2>2 DEF Types, StorageRecord
<1>4. ASSUME NEW l \in Levels PROVE LevelAgrees(l)'
  <2>1. ASSUME NEW y PROVE CheckBumped(l, y)' = CheckBumped(l, y)
    <3> DEFINE b == GetBucket(l, y)
               v == GetIntraBucket(l, y)
    <3>1. CheckBumped(l, y)' = Bumps(storage'[l], b, v)
      BY SameLevel
    <3>2. Bumps(storage'[l], b, v) = Bumps(storage[l], b, v)
      <4> HIDE DEF b, v
      <4> QED
        BY BumpsSame
    <3>3. CheckBumped(l, y) = Bumps(storage[l], b, v)
      BY CheckBumpedBumps
    <3> HIDE DEF b, v
    <3> QED
      BY <3>1, <3>2, <3>3
  <2> QED
    BY <1>1, <1>2, <2>1 DEF LevelAgrees
<1> QED
  BY <1>1, <1>3, <1>4 DEF IInv

LEMMA DroppedRows ==
    ASSUME NEW s, StorageRecord(s), NEW t, t = [s EXCEPT !.coeffs = <<>>, !.results = <<>>]
    PROVE  /\ StorageRecord(t) /\ t.num_slots = s.num_slots /\ t.meta = s.meta
           /\ t.plus = s.plus
<1>1. t = [num_slots |-> s.num_slots, coeffs |-> <<>>, results |-> <<>>,
           meta |-> s.meta, plus |-> s.plus]
  BY DEF StorageRecord
<1> QED
  BY <1>1 DEF StorageRecord

LEMMA BackSubstStep ==
    ASSUME IInv, BackSubst
    PROVE  IInv'
<1> DEFINE s == storage[level]
           t == [s EXCEPT !.coeffs = <<>>, !.results = <<>>]
<1>1. /\ pc = "solve" /\ data' = data /\ hasher' = hasher /\ pending' = pending
      /\ bumped' = bumped /\ base' = base
      /\ Types /\ level \in Levels /\ StorageRecord(s)
  BY DEF BackSubst, IInv, Types
<1>2. pc' \in {"solve", "ready"} /\ level' \in Levels
  BY <1>1, RibbonAssumption DEF BackSubst, Levels
<1>3. storage' = storage \/ storage' = [storage EXCEPT ![level] = t]
  BY DEF BackSubst
<1>4. /\ StorageRecord(t) /\ t.num_slots = s.num_slots /\ t.meta = s.meta /\ t.plus = s.plus
  <2> HIDE DEF s
  <2> QED
    BY <1>1, DroppedRows
<1> HIDE DEF t
<1>5. /\ storage' = [l \in Levels |-> storage'[l]]
      /\ \A l \in Levels : /\ StorageRecord(storage'[l])
                           /\ storage'[l].num_slots = storage[l].num_slots
                           /\ storage'[l].meta = storage[l].meta
                           /\ storage'[l].plus = storage[l].plus
  BY <1>1, <1>3, <1>4 DEF Types
<1> QED
  BY <1>1, <1>2, <1>5, SolvedStep

LEMMA QueryStep ==
    ASSUME IInv, Query
    PROVE  IInv'
  BY SolvedStep DEF Query, IInv, Types

\* steps that leave all but the answer alone
LEMMA StutterStep ==
    ASSUME IInv, UNCHANGED vars
    PROVE  IInv'
<1>1. /\ data' = data /\ pc' = pc /\ level' = level /\ hasher' = hasher /\ base' = base
      /\ storage' = storage /\ scan' = scan /\ pending' = pending /\ bumped' = bumped
      /\ Types
  BY DEF vars, IInv
<1>2. CASE pc = "insert"
  <2>1. /\ \A y : Val(y)' = Val(y) /\ GetBucket(level, y)' = GetBucket(level, y)
        /\ \A y : Here(y)' <=> Here(y)
        /\ \A y : CheckBumped(level, y)' <=> CheckBumped(level, y)
        /\ \A b, v : Plus(b, v)' <=> Plus(b, v)
        /\ Done' = Done
    BY <1>1 DEF Val, GetBucket, GetIntraBucket, GetStart, Here, CheckBumped, Plus, Done, Given
  <2>2. ScanInv
    BY <1>2 DEF IInv
  <2>3. ScanTypes' /\ Order' /\ ClosedBuckets'
    <3>1. ScanTypes'
      BY <1>1, <2>2 DEF ScanInv, ScanTypes, Compress
    <3>2. Order'
      BY <1>1, <2>1, <2>2 DEF ScanInv, Order
    <3>3. ClosedBuckets'
      BY <1>1, <2>1, <2>2 DEF ScanInv, ClosedBuckets
    <3> QED
      BY <3>1, <3>2, <3>3
  <2>4. GoodBucket => GoodBucket'
    BY <1>1, <2>1 DEF GoodBucket, CachedItems, Compress
  <2>5. FailedBucket => FailedBucket'
    BY <1>1, <2>1 DEF FailedBucket
  <2>6. ScanInv'
    BY <1>1, <2>2, <2>3, <2>4, <2>5 DEF ScanInv
  <2>7. /\ StorageRecord(storage[level]) /\ Geometry(storage[level])
        /\ storage' = [storage EXCEPT ![level] = storage[level]]
        /\ bumped \subseteq Given(level) /\ (level = depth => bumped = {})
    BY <1>1, <1>2 DEF IInv, Types
  <2> QED
    BY <1>1, <1>2, <2>6, <2>7, InsertStep
<1>3. CASE pc # "insert"
  BY <1>1, <1>3, SolvedStep DEF Types
<1> QED
  BY <1>2, <1>3

-----------------------------------------------------------------------------
(***************************************************************************)
(* The thresholds of every bucket the insertion has left behind tell its   *)
(* bumped items from the others, those of the bucket it is in as far as it *)
(* has come, and the levels below are settled.                             *)
(***************************************************************************)
THEOREM Invariance == Spec => []IInv
<1>1. IInv /\ [Next]_vars => IInv'
  <2> SUFFICES ASSUME IInv, [Next]_vars PROVE IInv'
    OBVIOUS
  <2>1. ASSUME NEW x \in data, HardBump(x) PROVE IInv'
    BY <2>1, HardBumpStep
  <2>2. ASSUME NEW x \in data, AddItem(x) PROVE IInv'
    BY <2>2, AddItemStep
  <2>3. ASSUME NEW x \in data, FirstFailure(x) PROVE IInv'
    BY <2>3, FirstFailureStep
  <2>4. ASSUME NEW x \in data, Retry(x) PROVE IInv'
    BY <2>4, RetryStep
  <2>5. CASE FinishRange
    BY <2>5, FinishRangeStep
  <2>6. CASE BackSubst
    BY <2>6, BackSubstStep
  <2>7. CASE Query
    BY <2>7, QueryStep
  <2>8. CASE UNCHANGED vars
    BY <2>8, StutterStep
  <2> QED
    BY <2>1, <2>2, <2>3, <2>4, <2>5, <2>6, <2>7, <2>8 DEF Next, Constructor
<1> QED
  BY <1>1, InitIInv, PTL DEF Spec

(***************************************************************************)
(* A query takes an item as bumped by a level exactly if the construction  *)
(* gave it to the next one: for all sizes, thresholds, items and hashes.   *)
(***************************************************************************)
THEOREM BumpsAgreeTheorem == Spec => []BumpsAgree
<1>1. IInv => BumpsAgree
  BY DEF IInv, BumpsAgree, LevelAgrees
<1> QED
  BY <1>1, Invariance, PTL

-----------------------------------------------------------------------------
(***************************************************************************)
(* The equations.  Rows are in echelon form, an equation that was kept     *)
(* reduces to nothing with its value, and what the bucket being filled may *)
(* still bump does so without the rows that would go with it.              *)
(***************************************************************************)
Slots(s) == 0 .. s.num_slots - 1

IsTable(s) ==
    /\ s.num_slots \in Nat
    /\ s.coeffs = [p \in Slots(s) |-> s.coeffs[p]]
    /\ s.results = [p \in Slots(s) |-> s.results[p]]

Echelon(s) ==
    /\ IsTable(s)
    /\ \A p \in Slots(s) :
          /\ s.coeffs[p] \in SUBSET Slots(s)
          /\ s.coeffs[p] = {} => s.results[p] = {}
          /\ s.coeffs[p] # {} => p \in s.coeffs[p] /\ \A q \in s.coeffs[p] : p <= q

Vanishes(s, coeffs, result) == Reduce(s, coeffs, result) = [coeffs |-> {}, result |-> {}]

\* the items of the level that stay if the cache is bumped
Settled(cache) == Done \ (bumped \cup CachedItems(cache))
KeptWithout(cache) ==
    \A x \in Settled(cache) :
        Vanishes(Cleared(storage[level], cache), Equation(level, x), Value(x))

\* a table for the items of a level has whole blocks
Blocks(l) == /\ Geometry(storage[l]) /\ storage[l].num_slots % kCoeffBits = 0

Equations(l) ==
    /\ Echelon(storage[l])
    /\ \A x \in Given(l) \ Given(l + 1) : Vanishes(storage[l], Equation(l, x), Value(x))

Solves(l) == \A x \in Given(l) \ Given(l + 1) : Solved(l, x) = Value(x)

RowsInv ==
    /\ Given(0) = data
    /\ \A l \in Levels : Given(l + 1) \subseteq Given(l)
    /\ \A l \in Levels : Given(l) # {} => Blocks(l)
    /\ pc = "insert" =>
          /\ Echelon(storage[level]) /\ Blocks(level)
          /\ KeptWithout({})
          /\ scan.all_good => KeptWithout(scan.bump_cache) /\ KeptWithout(scan.unc_bump_cache)
          /\ \A l \in Levels : l < level => Equations(l)
    /\ pc = "solve" =>
          /\ \A l \in Levels : l >= level /\ Given(l) # {} => Equations(l)
          /\ \A l \in Levels : l < level => Solves(l)
    /\ pc = "ready" => \A l \in Levels : Solves(l)

\* every level has a place for its solution
Solutions == solution = [l \in Levels |-> solution[l]]

-----------------------------------------------------------------------------
(* Rows: leading slots and sums. *)

LEMMA MinOf ==
    ASSUME NEW S \in SUBSET Nat, S # {}
    PROVE  Min(S) \in S /\ \A q \in S : Min(S) <= q
<1>1. PICK n \in S : \A q \in S : n <= q
  BY LeastOf
<1> QED
  BY <1>1 DEF Min

LEMMA MinIs ==
    ASSUME NEW S \in SUBSET Nat, NEW p \in S, \A q \in S : p <= q
    PROVE  Min(S) = p
<1>1. Min(S) \in S /\ \A q \in S : Min(S) <= q
  BY MinOf
<1>2. p <= Min(S) /\ Min(S) <= p /\ Min(S) \in Nat /\ p \in Nat
  BY <1>1
<1> QED
  BY <1>2

LEMMA SymDiffSelf ==
    ASSUME NEW A
    PROVE  SymDiff(A, A) = {} /\ SymDiff({}, A) = A /\ SymDiff(A, {}) = A
  BY DEF SymDiff

LEMMA SymDiffVanishes ==
    ASSUME NEW A, NEW B, SymDiff(A, B) = {}
    PROVE  A = B
  BY DEF SymDiff

\* what remains of a value reduces it to nothing
LEMMA SymDiffRest ==
    ASSUME NEW v, NEW sum
    PROVE  SymDiff(v, SymDiff(sum, SymDiff(v, sum))) = {}
  BY DEF SymDiff

LEMMA SymDiffMoved ==
    ASSUME NEW A, NEW B, NEW C
    PROVE  SymDiff(SymDiff(A, B), C) = SymDiff(SymDiff(A, C), B)
  BY DEF SymDiff

LEMMA SlotsType ==
    ASSUME NEW s, s.num_slots \in Nat
    PROVE  /\ Slots(s) \in SUBSET Nat /\ IsFiniteSet(Slots(s))
           /\ \A p \in Slots(s) : p \in Nat /\ p < s.num_slots
<1>1. IsFiniteSet(Slots(s))
  BY FS_Interval DEF Slots
<1> QED
  BY <1>1 DEF Slots

\* adding the row of the leading slot leaves what lies behind it
LEMMA RowAdds ==
    ASSUME NEW s, Echelon(s), NEW c \in SUBSET Slots(s), c # {}
    PROVE  /\ Min(c) \in c /\ Min(c) \in Slots(s) /\ Min(c) \in Nat
           /\ s.coeffs[Min(c)] # {} =>
                 /\ SymDiff(c, s.coeffs[Min(c)]) \in SUBSET Slots(s)
                 /\ \A q \in SymDiff(c, s.coeffs[Min(c)]) : Min(c) < q
<1>1. /\ Slots(s) \in SUBSET Nat
      /\ \A p \in Slots(s) :
            /\ s.coeffs[p] \in SUBSET Slots(s)
            /\ s.coeffs[p] # {} => p \in s.coeffs[p] /\ \A q \in s.coeffs[p] : p <= q
  BY SlotsType DEF Echelon, IsTable
<1>2. /\ Min(c) \in c /\ \A q \in c : Min(c) <= q
      /\ Min(c) \in Slots(s) /\ Min(c) \in Nat
  <2>1. c \in SUBSET Nat
    BY <1>1
  <2> QED
    BY <1>1, <2>1, MinOf
<1>3. ASSUME s.coeffs[Min(c)] # {}
      PROVE  /\ SymDiff(c, s.coeffs[Min(c)]) \in SUBSET Slots(s)
             /\ \A q \in SymDiff(c, s.coeffs[Min(c)]) : Min(c) < q
  <2> DEFINE m == Min(c)
             r == s.coeffs[m]
  <2>1. /\ r \in SUBSET Slots(s) /\ m \in r /\ m \in c /\ m \in Nat
        /\ (\A q \in r : m <= q) /\ (\A q \in c : m <= q)
    BY <1>1, <1>2, <1>3
  <2> HIDE DEF m, r
  <2>2. \A q \in SymDiff(c, r) : q \in Slots(s) /\ q # m /\ m <= q /\ q \in Nat
    BY <1>1, <2>1 DEF SymDiff
  <2>3. \A q \in SymDiff(c, r) : m < q
    BY <2>1, <2>2
  <2> QED
    BY <2>2, <2>3 DEF m, r
<1> QED
  BY <1>2, <1>3

\* induction along the elimination
LEMMA Elimination ==
    ASSUME NEW s, Echelon(s), NEW T,
           \A c \in SUBSET Slots(s) : c = {} \/ s.coeffs[Min(c)] = {} => c \in T,
           \A c \in SUBSET Slots(s) :
               c # {} /\ s.coeffs[Min(c)] # {} /\ SymDiff(c, s.coeffs[Min(c)]) \in T => c \in T
    PROVE  SUBSET Slots(s) \subseteq T
<1> DEFINE n == s.num_slots
           U == {k \in Nat : \A c \in SUBSET Slots(s) : (\A q \in c : k <= q) => c \in T}
<1>1. n \in Nat /\ Slots(s) \in SUBSET Nat /\ \A p \in Slots(s) : p < n
  BY SlotsType DEF Echelon, IsTable
<1>2. n \in U
  <2> SUFFICES ASSUME NEW c \in SUBSET Slots(s), \A q \in c : n <= q PROVE c \in T
    BY <1>1
  <2>1. c = {}
    BY <1>1
  <2> QED
    BY <2>1
<1>3. ASSUME NEW k \in 0 .. n - 1, k + 1 \in U PROVE k \in U
  <2> SUFFICES ASSUME NEW c \in SUBSET Slots(s), \A q \in c : k <= q PROVE c \in T
    BY <1>1
  <2>1. CASE c = {} \/ s.coeffs[Min(c)] = {}
    BY <2>1
  <2>2. CASE c # {} /\ s.coeffs[Min(c)] # {}
    <3> DEFINE d == SymDiff(c, s.coeffs[Min(c)])
    <3>1. d \in SUBSET Slots(s) /\ Min(c) \in c /\ \A q \in d : Min(c) < q
      BY <2>2, RowAdds
    <3>2. \A q \in d : k + 1 <= q
      <4>1. k <= Min(c) /\ Min(c) \in Nat /\ k \in Nat
        BY <1>1, <3>1
      <4>2. \A q \in d : q \in Nat /\ Min(c) < q
        BY <1>1, <3>1
      <4> HIDE DEF d
      <4> QED
        BY <4>1, <4>2
    <3>3. d \in T
      <4> HIDE DEF d
      <4> QED
        BY <1>3, <3>1, <3>2
    <3> QED
      BY <2>2, <3>3
  <2> QED
    BY <2>1, <2>2
<1>4. 0 \in U
  <2>1. 0 \in 0 .. n
    BY <1>1
  <2> HIDE DEF U, n
  <2>2. n \in Nat
    BY <1>1
  <2>3. 0 .. n \subseteq U
    BY <1>2, <1>3, <2>2, DownTo
  <2> QED
    BY <2>1, <2>3
<1>5. ASSUME NEW c \in SUBSET Slots(s) PROVE c \in T
  <2>1. \A q \in c : 0 <= q
    BY <1>1
  <2> QED
    BY <1>4, <2>1
<1> QED
  BY <1>5

-----------------------------------------------------------------------------
(* The elimination as a function of the coefficients. *)

Reduction(s) ==
    CHOOSE f : f = [c \in SUBSET (0 .. s.num_slots - 1) |->
            IF c = {} \/ s.coeffs[Min(c)] = {}
            THEN [coeffs |-> c, sum |-> {}]
            ELSE LET rest == f[SymDiff(c, s.coeffs[Min(c)])]
                 IN  [rest EXCEPT !.sum = SymDiff(@, s.results[Min(c)])]]

LEMMA ReduceIs ==
    ASSUME NEW s, NEW c, NEW r
    PROVE  Reduce(s, c, r) = [coeffs |-> Reduction(s)[c].coeffs,
                              result |-> SymDiff(r, Reduction(s)[c].sum)]
  BY DEF Reduce, Reduction

Stops(s, c) == c = {} \/ s.coeffs[Min(c)] = {}
Next1(s, c) == SymDiff(c, s.coeffs[Min(c)])

LEMMA ReductionExists ==
    ASSUME NEW s, Echelon(s)
    PROVE  \E f : f = [c \in SUBSET (0 .. s.num_slots - 1) |->
            IF c = {} \/ s.coeffs[Min(c)] = {}
            THEN [coeffs |-> c, sum |-> {}]
            ELSE LET rest == f[SymDiff(c, s.coeffs[Min(c)])]
                 IN  [rest EXCEPT !.sum = SymDiff(@, s.results[Min(c)])]]
<1> DEFINE X == SUBSET Slots(s)
           W == UNION {s.results[p] : p \in Slots(s)}
           V == [coeffs : X, sum : SUBSET W]
           n == s.num_slots
           m == [c \in X |-> IF c = {} THEN n ELSE Min(c)]
           Body(g, c) == IF Stops(s, c) THEN [coeffs |-> c, sum |-> {}]
                         ELSE [coeffs |-> g[Next1(s, c)].coeffs,
                               sum |-> SymDiff(g[Next1(s, c)].sum, s.results[Min(c)])]
           F == [gc \in [X -> V] \X X |-> Body(gc[1], gc[2])]
           v == [coeffs |-> {}, sum |-> {}]
<1>1. n \in Nat /\ v \in V
  BY DEF Echelon, IsTable
<1>2. ASSUME NEW c \in X, ~Stops(s, c)
      PROVE  /\ Min(c) \in Slots(s) /\ Next1(s, c) \in X
             /\ \A q \in Next1(s, c) : Min(c) < q
  BY <1>2, RowAdds DEF Stops, Next1
<1>3. m \in [X -> 0 .. n]
  <2> SUFFICES ASSUME NEW c \in X PROVE (IF c = {} THEN n ELSE Min(c)) \in 0 .. n
    OBVIOUS
  <2>1. c # {} => Min(c) \in Slots(s)
    BY RowAdds
  <2>2. Min(c) \in Slots(s) => Min(c) \in 0 .. n
    BY <1>1 DEF Slots
  <2> QED
    BY <1>1, <2>1, <2>2
<1>4. ASSUME NEW g \in [X -> V], NEW c \in X PROVE Body(g, c) \in V
  <2>1. CASE Stops(s, c)
    BY <2>1
  <2>2. CASE ~Stops(s, c)
    <3>1. g[Next1(s, c)] \in V
      BY <1>2, <2>2
    <3>2. g[Next1(s, c)].sum \in SUBSET W /\ g[Next1(s, c)].coeffs \in X
      <4> HIDE DEF X, W
      <4> QED
        BY <3>1
    <3>3. s.results[Min(c)] \in SUBSET W
      BY <1>2, <2>2
    <3>4. SymDiff(g[Next1(s, c)].sum, s.results[Min(c)]) \in SUBSET W
      <4> HIDE DEF W
      <4> QED
        BY <3>2, <3>3 DEF SymDiff
    <3> HIDE DEF W, X
    <3> QED
      BY <2>2, <3>2, <3>4
  <2> QED
    BY <2>1, <2>2
<1>5. ASSUME NEW c \in X, NEW g \in [X -> V], NEW h \in [X -> V],
             \A d \in X : m[d] > m[c] => g[d] = h[d]
      PROVE  Body(g, c) = Body(h, c)
  <2>1. CASE Stops(s, c)
    BY <2>1
  <2>2. CASE ~Stops(s, c)
    <3> DEFINE d == Next1(s, c)
    <3>1. d \in X /\ Min(c) \in Slots(s) /\ \A q \in d : Min(c) < q
      BY <1>2, <2>2
    <3>2. m[c] = Min(c) /\ c # {}
      BY <2>2 DEF Stops
    <3>3. m[d] > m[c]
      <4>1. CASE d = {}
        <5>1. m[d] = n
          BY <3>1, <4>1
        <5>2. Min(c) < n /\ Min(c) \in Nat
          BY <1>1, <3>1, SlotsType
        <5> HIDE DEF m, d
        <5> QED
          BY <1>1, <3>2, <5>1, <5>2
      <4>2. CASE d # {}
        <5>1. m[d] = Min(d)
          BY <3>1, <4>2
        <5>2. Min(d) \in d /\ Min(d) \in Nat
          BY <3>1, <4>2, RowAdds
        <5>3. Min(c) < Min(d) /\ Min(c) \in Nat
          BY <1>1, <3>1, <5>2, SlotsType
        <5> HIDE DEF m, d
        <5> QED
          BY <3>2, <5>1, <5>2, <5>3
      <4> QED
        BY <4>1, <4>2
    <3>4. g[d] = h[d]
      <4> HIDE DEF m, d
      <4> QED
        BY <1>5, <3>1, <3>3
    <3> QED
      BY <3>4
  <2> QED
    BY <2>1, <2>2
<1>6. F \in [[X -> V] \X X -> V]
  <2> HIDE DEF Body, X, V
  <2> QED
    BY <1>4
<1>7. \A g \in [X -> V], c \in X : F[<<g, c>>] = Body(g, c)
  <2> HIDE DEF Body, X, V
  <2> QED
    OBVIOUS
<1>8. \A c \in X : \A g, h \in [X -> V] :
          (\A d \in X : m[d] > m[c] => g[d] = h[d]) => F[<<g, c>>] = F[<<h, c>>]
  <2> HIDE DEF Body, X, V, F, m
  <2> QED
    BY <1>5, <1>7
<1>9. PICK f \in [X -> V] : \A c \in X : f[c] = F[<<f, c>>]
  <2> HIDE DEF Body, X, V, F, m, n, v, W
  <2>1. Measured(X, V, n, m, F)
    BY <1>3, <1>6, <1>8 DEF Measured
  <2>2. \E f : Recurs(f, X, V, F)
    BY <1>1, <2>1, MeasuredRecursion
  <2> QED
    BY <2>2 DEF Recurs
<1>10. \A c \in X : f[c] = Body(f, c)
  <2> HIDE DEF Body, X, V, F
  <2> QED
    BY <1>7, <1>9
<1>11. ASSUME NEW c \in X
       PROVE  f[c] = IF c = {} \/ s.coeffs[Min(c)] = {}
                     THEN [coeffs |-> c, sum |-> {}]
                     ELSE [f[SymDiff(c, s.coeffs[Min(c)])]
                              EXCEPT !.sum = SymDiff(@, s.results[Min(c)])]
  <2>1. CASE Stops(s, c)
    BY <1>10, <2>1 DEF Stops
  <2>2. CASE ~Stops(s, c)
    <3> DEFINE rest == f[Next1(s, c)]
    <3>1. rest \in V
      BY <1>2, <2>2
    <3>2. rest = [coeffs |-> rest.coeffs, sum |-> rest.sum]
      <4> HIDE DEF rest, X, W
      <4> QED
        BY <3>1
    <3>3. [rest EXCEPT !.sum = SymDiff(@, s.results[Min(c)])]
              = [coeffs |-> rest.coeffs, sum |-> SymDiff(rest.sum, s.results[Min(c)])]
      <4> HIDE DEF rest
      <4> QED
        BY <3>2
    <3>4. f[c] = [coeffs |-> rest.coeffs, sum |-> SymDiff(rest.sum, s.results[Min(c)])]
      BY <1>10, <2>2
    <3>5. ~ (c = {} \/ s.coeffs[Min(c)] = {}) /\ rest = f[SymDiff(c, s.coeffs[Min(c)])]
      BY <2>2 DEF Stops, Next1
    <3> HIDE DEF rest
    <3> QED
      BY <3>3, <3>4, <3>5
  <2> QED
    BY <2>1, <2>2
<1>12. f = [c \in X |-> f[c]]
  BY <1>9
<1>13. X = SUBSET (0 .. s.num_slots - 1)
  BY DEF Slots
<1> HIDE DEF X, V, Body, F, m
<1>14. f = [c \in SUBSET (0 .. s.num_slots - 1) |->
            IF c = {} \/ s.coeffs[Min(c)] = {}
            THEN [coeffs |-> c, sum |-> {}]
            ELSE LET rest == f[SymDiff(c, s.coeffs[Min(c)])]
                 IN  [rest EXCEPT !.sum = SymDiff(@, s.results[Min(c)])]]
  BY <1>11, <1>12, <1>13
<1> QED
  BY <1>14

\* the elimination adds the row of the leading slot until it is free
LEMMA ReductionUnfolds ==
    ASSUME NEW s, Echelon(s), NEW c \in SUBSET Slots(s)
    PROVE  /\ Stops(s, c) => Reduction(s)[c] = [coeffs |-> c, sum |-> {}]
           /\ ~Stops(s, c) =>
                 Reduction(s)[c] = [Reduction(s)[Next1(s, c)]
                                       EXCEPT !.sum = SymDiff(@, s.results[Min(c)])]
<1> DEFINE f == Reduction(s)
<1>1. f = [d \in SUBSET (0 .. s.num_slots - 1) |->
            IF d = {} \/ s.coeffs[Min(d)] = {}
            THEN [coeffs |-> d, sum |-> {}]
            ELSE LET rest == f[SymDiff(d, s.coeffs[Min(d)])]
                 IN  [rest EXCEPT !.sum = SymDiff(@, s.results[Min(d)])]]
  BY ReductionExists DEF Reduction
<1>2. c \in SUBSET (0 .. s.num_slots - 1)
  BY DEF Slots
<1> HIDE DEF f
<1>3. f[c] = IF c = {} \/ s.coeffs[Min(c)] = {}
             THEN [coeffs |-> c, sum |-> {}]
             ELSE LET rest == f[SymDiff(c, s.coeffs[Min(c)])]
                  IN  [rest EXCEPT !.sum = SymDiff(@, s.results[Min(c)])]
  BY <1>1, <1>2, Zenon
<1> QED
  BY <1>3 DEF f, Stops, Next1

Pair(r) == r = [coeffs |-> r.coeffs, sum |-> r.sum]

\* what is left starts at a free slot, or is nothing
LEMMA ReductionType ==
    ASSUME NEW s, Echelon(s), NEW c \in SUBSET Slots(s)
    PROVE  LET red == Reduction(s)[c]
           IN  Pair(red) /\ red.coeffs \in SUBSET Slots(s) /\ Stops(s, red.coeffs)
<1> DEFINE f == Reduction(s)
           Good(d) == Pair(f[d]) /\ f[d].coeffs \in SUBSET Slots(s) /\ Stops(s, f[d].coeffs)
           T == {d \in SUBSET Slots(s) : Good(d)}
<1>1. ASSUME NEW d \in SUBSET Slots(s), d = {} \/ s.coeffs[Min(d)] = {} PROVE d \in T
  <2>1. f[d] = [coeffs |-> d, sum |-> {}] /\ Stops(s, d)
    BY <1>1, ReductionUnfolds DEF Stops
  <2> HIDE DEF f
  <2> QED
    BY <2>1 DEF Pair
<1>2. ASSUME NEW d \in SUBSET Slots(s), d # {}, s.coeffs[Min(d)] # {},
             SymDiff(d, s.coeffs[Min(d)]) \in T
      PROVE  d \in T
  <2> DEFINE e == Next1(s, d)
  <2>1. f[d] = [f[e] EXCEPT !.sum = SymDiff(@, s.results[Min(d)])]
    BY <1>2, ReductionUnfolds DEF Stops
  <2>2. Pair(f[e]) /\ f[e].coeffs \in SUBSET Slots(s) /\ Stops(s, f[e].coeffs)
    BY <1>2 DEF Next1
  <2> HIDE DEF f, e
  <2>3. f[d] = [coeffs |-> f[e].coeffs, sum |-> SymDiff(f[e].sum, s.results[Min(d)])]
    BY <2>1, <2>2 DEF Pair
  <2> QED
    BY <2>2, <2>3 DEF Pair
<1>3. SUBSET Slots(s) \subseteq T
  <2> HIDE DEF T
  <2> QED
    BY <1>1, <1>2, Elimination
<1> QED
  BY <1>3

\* one more step of the elimination
LEMMA ReductionStep ==
    ASSUME NEW s, Echelon(s), NEW c \in SUBSET Slots(s), ~Stops(s, c)
    PROVE  /\ Next1(s, c) \in SUBSET Slots(s)
           /\ Reduction(s)[c].coeffs = Reduction(s)[Next1(s, c)].coeffs
           /\ Reduction(s)[c].sum = SymDiff(Reduction(s)[Next1(s, c)].sum, s.results[Min(c)])
           /\ Pair(Reduction(s)[c])
<1> DEFINE f == Reduction(s)
           e == Next1(s, c)
<1>1. e \in SUBSET Slots(s)
  BY RowAdds DEF Stops, Next1
<1>2. Pair(f[e]) /\ Pair(f[c])
  BY <1>1, ReductionType
<1>3. f[c] = [f[e] EXCEPT !.sum = SymDiff(@, s.results[Min(c)])]
  BY ReductionUnfolds
<1> HIDE DEF f, e
<1>4. f[c] = [coeffs |-> f[e].coeffs, sum |-> SymDiff(f[e].sum, s.results[Min(c)])]
  BY <1>2, <1>3 DEF Pair
<1>5. f[c].coeffs = f[e].coeffs /\ f[c].sum = SymDiff(f[e].sum, s.results[Min(c)])
  BY <1>4
<1> QED
  BY <1>1, <1>2, <1>5 DEF f, e

LEMMA ReductionStops ==
    ASSUME NEW s, Echelon(s), NEW c \in SUBSET Slots(s), Stops(s, c)
    PROVE  Reduction(s)[c].coeffs = c /\ Reduction(s)[c].sum = {}
<1> DEFINE red == Reduction(s)[c]
<1>1. red = [coeffs |-> c, sum |-> {}]
  BY ReductionUnfolds
<1> HIDE DEF red
<1>2. red.coeffs = c /\ red.sum = {}
  BY <1>1
<1> QED
  BY <1>2 DEF red

-----------------------------------------------------------------------------
(* One more row, at a slot that was free. *)

MoreBy(s, t, row) ==
    /\ Echelon(s) /\ Echelon(t) /\ t.num_slots = s.num_slots
    /\ row \in Slots(s) /\ s.coeffs[row] = {} /\ t.coeffs[row] # {}
    /\ \A p \in Slots(s) : p # row => t.coeffs[p] = s.coeffs[p] /\ t.results[p] = s.results[p]

\* an elimination that ran to the end never met the slot
LEMMA MoreRows ==
    ASSUME NEW s, NEW t, NEW row, MoreBy(s, t, row), NEW c \in SUBSET Slots(s),
           Reduction(s)[c].coeffs = {}
    PROVE  Reduction(t)[c].coeffs = {} /\ Reduction(t)[c].sum = Reduction(s)[c].sum
<1> DEFINE Same(d) == Reduction(s)[d].coeffs = {} =>
                      /\ Reduction(t)[d].coeffs = {}
                      /\ Reduction(t)[d].sum = Reduction(s)[d].sum
           T == {d \in SUBSET Slots(s) : Same(d)}
<1>1. /\ Echelon(s) /\ Echelon(t) /\ Slots(t) = Slots(s)
      /\ s.coeffs[row] = {}
      /\ \A p \in Slots(s) : p # row => t.coeffs[p] = s.coeffs[p] /\ t.results[p] = s.results[p]
  BY DEF MoreBy, Slots
<1>2. ASSUME NEW d \in SUBSET Slots(s), d = {} \/ s.coeffs[Min(d)] = {} PROVE d \in T
  <2>1. Reduction(s)[d].coeffs = d /\ Reduction(s)[d].sum = {}
    BY <1>1, <1>2, ReductionStops DEF Stops
  <2>2. d = {} => Reduction(t)[d].coeffs = {} /\ Reduction(t)[d].sum = {}
    BY <1>1, ReductionStops DEF Stops
  <2> QED
    BY <2>1, <2>2
<1>3. ASSUME NEW d \in SUBSET Slots(s), d # {}, s.coeffs[Min(d)] # {},
             SymDiff(d, s.coeffs[Min(d)]) \in T
      PROVE  d \in T
  <2> DEFINE e == Next1(s, d)
  <2>1. Min(d) \in Slots(s) /\ Min(d) # row
    BY <1>1, <1>3, RowAdds
  <2>2. /\ t.coeffs[Min(d)] = s.coeffs[Min(d)] /\ t.results[Min(d)] = s.results[Min(d)]
        /\ Next1(t, d) = e
    BY <1>1, <2>1 DEF Next1
  <2>3. /\ Reduction(s)[d].coeffs = Reduction(s)[e].coeffs
        /\ Reduction(s)[d].sum = SymDiff(Reduction(s)[e].sum, s.results[Min(d)])
    BY <1>1, <1>3, ReductionStep DEF Stops
  <2>4. /\ Reduction(t)[d].coeffs = Reduction(t)[e].coeffs
        /\ Reduction(t)[d].sum = SymDiff(Reduction(t)[e].sum, s.results[Min(d)])
    BY <1>1, <1>3, <2>2, ReductionStep DEF Stops
  <2>5. Same(e)
    BY <1>3 DEF Next1
  <2> HIDE DEF e
  <2> QED
    BY <2>3, <2>4, <2>5
<1>4. c \in T
  <2> HIDE DEF T
  <2> QED
    BY <1>1, <1>2, <1>3, Elimination
<1> QED
  BY <1>4

\* what an elimination left, stored as the row of its slot, completes it
LEMMA OwnRow ==
    ASSUME NEW s, NEW t, NEW row, MoreBy(s, t, row), NEW c \in SUBSET Slots(s),
           Reduction(s)[c].coeffs = t.coeffs[row]
    PROVE  /\ Reduction(t)[c].coeffs = {}
           /\ Reduction(t)[c].sum = SymDiff(Reduction(s)[c].sum, t.results[row])
<1> DEFINE Ends(d) == Reduction(s)[d].coeffs = t.coeffs[row] =>
                      /\ Reduction(t)[d].coeffs = {}
                      /\ Reduction(t)[d].sum = SymDiff(Reduction(s)[d].sum, t.results[row])
           T == {d \in SUBSET Slots(s) : Ends(d)}
<1>1. /\ Echelon(s) /\ Echelon(t) /\ Slots(t) = Slots(s) /\ Slots(s) \in SUBSET Nat
      /\ s.coeffs[row] = {} /\ t.coeffs[row] # {} /\ row \in Slots(s)
      /\ row \in t.coeffs[row] /\ t.coeffs[row] \in SUBSET Slots(s)
      /\ \A q \in t.coeffs[row] : row <= q
      /\ \A p \in Slots(s) : p # row => t.coeffs[p] = s.coeffs[p] /\ t.results[p] = s.results[p]
  <2>1. Slots(s) \in SUBSET Nat
    BY SlotsType DEF MoreBy, Echelon, IsTable
  <2> QED
    BY <2>1 DEF MoreBy, Slots, Echelon
<1>2. Min(t.coeffs[row]) = row
  <2>1. t.coeffs[row] \in SUBSET Nat
    BY <1>1
  <2> QED
    BY <1>1, <2>1, MinIs
<1>3. ASSUME NEW d \in SUBSET Slots(s), d = {} \/ s.coeffs[Min(d)] = {} PROVE d \in T
  <2>1. Reduction(s)[d].coeffs = d /\ Reduction(s)[d].sum = {}
    BY <1>1, <1>3, ReductionStops DEF Stops
  <2>2. ASSUME d = t.coeffs[row]
        PROVE  Reduction(t)[d].coeffs = {} /\ Reduction(t)[d].sum = t.results[row]
    <3>1. ~Stops(t, d) /\ Next1(t, d) = {} /\ Min(d) = row
      BY <1>1, <1>2, <2>2, SymDiffSelf DEF Stops, Next1
    <3>2. Reduction(t)[{}].coeffs = {} /\ Reduction(t)[{}].sum = {}
      BY <1>1, ReductionStops DEF Stops
    <3>3. /\ Reduction(t)[d].coeffs = Reduction(t)[{}].coeffs
          /\ Reduction(t)[d].sum = SymDiff(Reduction(t)[{}].sum, t.results[row])
      <4>1. d \in SUBSET Slots(t)
        BY <1>1
      <4>2. Echelon(t) /\ ~Stops(t, d)
        BY <1>1, <3>1
      <4>3. /\ Reduction(t)[d].coeffs = Reduction(t)[Next1(t, d)].coeffs
            /\ Reduction(t)[d].sum = SymDiff(Reduction(t)[Next1(t, d)].sum, t.results[Min(d)])
        BY <4>1, <4>2, ReductionStep
      <4> QED
        BY <3>1, <4>3
    <3> QED
      BY <3>2, <3>3, SymDiffSelf
  <2>3. SymDiff({}, t.results[row]) = t.results[row]
    BY SymDiffSelf
  <2> QED
    BY <2>1, <2>2, <2>3
<1>4. ASSUME NEW d \in SUBSET Slots(s), d # {}, s.coeffs[Min(d)] # {},
             SymDiff(d, s.coeffs[Min(d)]) \in T
      PROVE  d \in T
  <2> DEFINE e == Next1(s, d)
  <2>1. Min(d) \in Slots(s) /\ Min(d) # row
    BY <1>1, <1>4, RowAdds
  <2>2. /\ t.coeffs[Min(d)] = s.coeffs[Min(d)] /\ t.results[Min(d)] = s.results[Min(d)]
        /\ Next1(t, d) = e
    BY <1>1, <2>1 DEF Next1
  <2>3. /\ Reduction(s)[d].coeffs = Reduction(s)[e].coeffs
        /\ Reduction(s)[d].sum = SymDiff(Reduction(s)[e].sum, s.results[Min(d)])
    BY <1>1, <1>4, ReductionStep DEF Stops
  <2>4. /\ Reduction(t)[d].coeffs = Reduction(t)[e].coeffs
        /\ Reduction(t)[d].sum = SymDiff(Reduction(t)[e].sum, s.results[Min(d)])
    BY <1>1, <1>4, <2>2, ReductionStep DEF Stops
  <2>5. Ends(e)
    BY <1>4 DEF Next1
  <2> HIDE DEF e
  <2> QED
    BY <2>3, <2>4, <2>5, SymDiffMoved
<1>5. c \in T
  <2> HIDE DEF T
  <2> QED
    BY <1>1, <1>3, <1>4, Elimination
<1> QED
  BY <1>5

LEMMA VanishesIs ==
    ASSUME NEW s, NEW c, NEW v
    PROVE  Vanishes(s, c, v) <=> /\ Reduction(s)[c].coeffs = {}
                                 /\ SymDiff(v, Reduction(s)[c].sum) = {}
<1> DEFINE a == Reduction(s)[c].coeffs
           b == SymDiff(v, Reduction(s)[c].sum)
<1>1. Reduce(s, c, v) = [coeffs |-> a, result |-> b]
  BY ReduceIs
<1> HIDE DEF a, b
<1>2. [coeffs |-> a, result |-> b] = [coeffs |-> {}, result |-> {}] <=> a = {} /\ b = {}
  OBVIOUS
<1> QED
  BY <1>1, <1>2 DEF Vanishes, a, b

LEMMA VanishesStill ==
    ASSUME NEW s, NEW t, NEW row, MoreBy(s, t, row), NEW c \in SUBSET Slots(s), NEW v,
           Vanishes(s, c, v)
    PROVE  Vanishes(t, c, v)
  BY VanishesIs, MoreRows

LEMMA VanishesNow ==
    ASSUME NEW s, NEW t, NEW row, MoreBy(s, t, row), NEW c \in SUBSET Slots(s), NEW v,
           t.coeffs[row] = Reduce(s, c, v).coeffs, t.results[row] = Reduce(s, c, v).result
    PROVE  Vanishes(t, c, v)
<1>1. /\ t.coeffs[row] = Reduction(s)[c].coeffs
      /\ t.results[row] = SymDiff(v, Reduction(s)[c].sum)
  BY ReduceIs
<1>2. /\ Reduction(t)[c].coeffs = {}
      /\ Reduction(t)[c].sum = SymDiff(Reduction(s)[c].sum, t.results[row])
  BY <1>1, OwnRow
<1> QED
  BY <1>1, <1>2, SymDiffRest, VanishesIs

SameRows(s, t) ==
    t.num_slots = s.num_slots /\ t.coeffs = s.coeffs /\ t.results = s.results

LEMMA SameReduce ==
    ASSUME NEW s, NEW t, SameRows(s, t), NEW c, NEW v
    PROVE  Reduce(t, c, v) = Reduce(s, c, v) /\ (Vanishes(t, c, v) <=> Vanishes(s, c, v))
  BY DEF Vanishes, Reduce, SameRows

LEMMA SameEchelon ==
    ASSUME NEW s, NEW t, SameRows(s, t), Echelon(s)
    PROVE  Echelon(t) /\ Slots(t) = Slots(s)
  BY DEF SameRows, Echelon, IsTable, Slots

\* a reduced row goes to the free slot it starts at
LEMMA WriteRow ==
    ASSUME NEW s, Echelon(s), StorageRecord(s), NEW c \in SUBSET Slots(s), NEW v,
           NEW tried, tried = Reduce(s, c, v), tried.coeffs # {},
           NEW row, row = Min(tried.coeffs),
           NEW u, SameRows(s, u), StorageRecord(u),
           NEW t, t = Written(u, row, tried.coeffs, tried.result)
    PROVE  /\ MoreBy(s, t, row)
           /\ t.coeffs = [s.coeffs EXCEPT ![row] = tried.coeffs]
           /\ t.results = [s.results EXCEPT ![row] = tried.result]
           /\ Vanishes(t, c, v)
<1>1. tried.coeffs = Reduction(s)[c].coeffs
  BY ReduceIs
<1>2. tried.coeffs \in SUBSET Slots(s) /\ s.coeffs[row] = {}
  BY <1>1, ReductionType DEF Stops
<1>3. row \in tried.coeffs /\ row \in Slots(s) /\ \A q \in tried.coeffs : row <= q
  <2>1. tried.coeffs \in SUBSET Nat
    BY <1>2, SlotsType DEF Echelon, IsTable
  <2> QED
    BY <1>2, <2>1, MinOf
<1>4. /\ t.num_slots = s.num_slots
      /\ t.coeffs = [s.coeffs EXCEPT ![row] = tried.coeffs]
      /\ t.results = [s.results EXCEPT ![row] = tried.result]
  <2>1. t = [num_slots |-> u.num_slots, coeffs |-> [u.coeffs EXCEPT ![row] = tried.coeffs],
             results |-> [u.results EXCEPT ![row] = tried.result],
             meta |-> u.meta, plus |-> u.plus]
    BY DEF StorageRecord, Written
  <2> QED
    BY <2>1 DEF SameRows
<1>5. /\ t.coeffs[row] = tried.coeffs /\ t.results[row] = tried.result
      /\ \A p \in Slots(s) : p # row => t.coeffs[p] = s.coeffs[p] /\ t.results[p] = s.results[p]
      /\ Slots(t) = Slots(s) /\ IsTable(t)
  BY <1>3, <1>4 DEF Echelon, IsTable, Slots
<1>6. Echelon(t)
  <2> SUFFICES ASSUME NEW p \in Slots(s)
               PROVE  /\ t.coeffs[p] \in SUBSET Slots(s)
                      /\ t.coeffs[p] = {} => t.results[p] = {}
                      /\ t.coeffs[p] # {} => p \in t.coeffs[p] /\ \A q \in t.coeffs[p] : p <= q
    BY <1>5 DEF Echelon
  <2>1. CASE p = row
    BY <1>2, <1>3, <1>5, <2>1
  <2>2. CASE p # row
    BY <1>5, <2>2 DEF Echelon
  <2> QED
    BY <2>1, <2>2
<1>7. MoreBy(s, t, row)
  BY <1>2, <1>3, <1>4, <1>5, <1>6 DEF MoreBy
<1>8. t.coeffs[row] = Reduce(s, c, v).coeffs /\ t.results[row] = Reduce(s, c, v).result
  BY <1>5
<1>9. Vanishes(t, c, v)
  BY <1>7, <1>8, VanishesNow
<1> QED
  BY <1>4, <1>7, <1>9

-----------------------------------------------------------------------------
(* Rows that may go. *)

CachedRows(cache) == {entry[1] : entry \in cache}

LEMMA ClearedTable ==
    ASSUME NEW s, Echelon(s), StorageRecord(s), NEW cache, NEW u, u = Cleared(s, cache)
    PROVE  /\ StorageRecord(u) /\ u.num_slots = s.num_slots /\ u.meta = s.meta
           /\ u.plus = s.plus /\ Echelon(u)
           /\ u.coeffs = [p \in Slots(s) |->
                             IF p \in CachedRows(cache) THEN {} ELSE s.coeffs[p]]
           /\ u.results = [p \in Slots(s) |->
                             IF p \in CachedRows(cache) THEN {} ELSE s.results[p]]
<1>1. DOMAIN s.coeffs = Slots(s) /\ DOMAIN s.results = Slots(s)
  BY DEF Echelon, IsTable
<1>2. u = [s EXCEPT
             !.coeffs = [p \in Slots(s) |->
                            IF p \in CachedRows(cache) THEN {} ELSE s.coeffs[p]],
             !.results = [p \in Slots(s) |->
                             IF p \in CachedRows(cache) THEN {} ELSE s.results[p]]]
  BY <1>1 DEF Cleared, CachedRows
<1>3. u = [num_slots |-> s.num_slots,
           coeffs |-> [p \in Slots(s) |->
                          IF p \in CachedRows(cache) THEN {} ELSE s.coeffs[p]],
           results |-> [p \in Slots(s) |->
                          IF p \in CachedRows(cache) THEN {} ELSE s.results[p]],
           meta |-> s.meta, plus |-> s.plus]
  BY <1>2 DEF StorageRecord
<1>4. /\ StorageRecord(u) /\ u.num_slots = s.num_slots /\ u.meta = s.meta
      /\ u.plus = s.plus
      /\ u.coeffs = [p \in Slots(s) |->
                        IF p \in CachedRows(cache) THEN {} ELSE s.coeffs[p]]
      /\ u.results = [p \in Slots(s) |->
                         IF p \in CachedRows(cache) THEN {} ELSE s.results[p]]
  BY <1>3 DEF StorageRecord
<1>5. Slots(u) = Slots(s) /\ IsTable(u)
  BY <1>4 DEF Slots, IsTable, Echelon
<1>6. \A p \in Slots(s) : \/ u.coeffs[p] = {} /\ u.results[p] = {}
                          \/ u.coeffs[p] = s.coeffs[p] /\ u.results[p] = s.results[p]
  BY <1>4
<1>7. Echelon(u)
  <2> SUFFICES ASSUME NEW p \in Slots(s)
               PROVE  /\ u.coeffs[p] \in SUBSET Slots(s)
                      /\ u.coeffs[p] = {} => u.results[p] = {}
                      /\ u.coeffs[p] # {} => p \in u.coeffs[p] /\ \A q \in u.coeffs[p] : p <= q
    BY <1>5 DEF Echelon
  <2> QED
    BY <1>6 DEF Echelon
<1> QED
  BY <1>4, <1>7

LEMMA NoneCleared ==
    ASSUME NEW s, Echelon(s), StorageRecord(s)
    PROVE  SameRows(s, Cleared(s, {}))
<1> DEFINE u == Cleared(s, {})
<1>1. CachedRows({}) = {}
  BY DEF CachedRows
<1>2. /\ u.num_slots = s.num_slots
      /\ u.coeffs = [p \in Slots(s) |-> IF p \in CachedRows({}) THEN {} ELSE s.coeffs[p]]
      /\ u.results = [p \in Slots(s) |-> IF p \in CachedRows({}) THEN {} ELSE s.results[p]]
  BY ClearedTable
<1> HIDE DEF u
<1>3. u.coeffs = s.coeffs /\ u.results = s.results
  BY <1>1, <1>2 DEF Echelon, IsTable
<1> QED
  BY <1>2, <1>3 DEF SameRows, u

\* a row just written goes with the others, as if it had not been written
LEMMA ClearedOneMore ==
    ASSUME NEW s, Echelon(s), StorageRecord(s), NEW t, Echelon(t), StorageRecord(t),
           NEW row, MoreBy(s, t, row), NEW cache, NEW x
    PROVE  SameRows(Cleared(s, cache), Cleared(t, cache \cup {<<row, x>>}))
<1> DEFINE more == cache \cup {<<row, x>>}
           u == Cleared(s, cache)
           w == Cleared(t, more)
<1>1. CachedRows(more) = CachedRows(cache) \cup {row}
  <2>1. \A p \in CachedRows(more) : p \in CachedRows(cache) \cup {row}
    BY DEF CachedRows
  <2>2. \A p \in CachedRows(cache) : p \in CachedRows(more)
    BY DEF CachedRows
  <2>3. row \in CachedRows(more)
    <3>1. <<row, x>> \in more /\ <<row, x>>[1] = row
      OBVIOUS
    <3> QED
      BY <3>1 DEF CachedRows
  <2> QED
    BY <2>1, <2>2, <2>3
<1>2. /\ u.num_slots = s.num_slots
      /\ u.coeffs = [p \in Slots(s) |-> IF p \in CachedRows(cache) THEN {} ELSE s.coeffs[p]]
      /\ u.results = [p \in Slots(s) |-> IF p \in CachedRows(cache) THEN {} ELSE s.results[p]]
  BY ClearedTable
<1>3. /\ w.num_slots = t.num_slots
      /\ w.coeffs = [p \in Slots(t) |-> IF p \in CachedRows(more) THEN {} ELSE t.coeffs[p]]
      /\ w.results = [p \in Slots(t) |-> IF p \in CachedRows(more) THEN {} ELSE t.results[p]]
  <2> HIDE DEF more
  <2> QED
    BY ClearedTable
<1>4. /\ Slots(t) = Slots(s) /\ t.num_slots = s.num_slots
      /\ row \in Slots(s) /\ s.coeffs[row] = {} /\ s.results[row] = {}
      /\ \A p \in Slots(s) : p # row => t.coeffs[p] = s.coeffs[p] /\ t.results[p] = s.results[p]
  BY DEF MoreBy, Slots, Echelon
<1> HIDE DEF u, w, more
<1>5. ASSUME NEW p \in Slots(s)
      PROVE  /\ (IF p \in CachedRows(more) THEN {} ELSE t.coeffs[p])
                    = IF p \in CachedRows(cache) THEN {} ELSE s.coeffs[p]
             /\ (IF p \in CachedRows(more) THEN {} ELSE t.results[p])
                    = IF p \in CachedRows(cache) THEN {} ELSE s.results[p]
  BY <1>1, <1>4
<1>6. w.coeffs = u.coeffs /\ w.results = u.results
  BY <1>2, <1>3, <1>4, <1>5
<1> QED
  BY <1>2, <1>3, <1>4, <1>6 DEF SameRows, u, w, more

-----------------------------------------------------------------------------
(* The rows while a level is filled. *)

\* the equation of an item lies within the slots of its level
LEMMA EquationType ==
    ASSUME NEW l \in Levels, NEW x \in Given(l),
           hasher[l] \in [Given(l) -> Hash], Geometry(storage[l])
    PROVE  Equation(l, x) \in SUBSET Slots(storage[l])
<1> DEFINE start == GetStart(l, x)
           n == storage[l].num_slots
           cr == hasher[l][x].coeffs
<1>1. start \in 0 .. n - kCoeffBits /\ n \in Nat /\ kCoeffBits \in Nat
  BY StartInRange, RibbonAssumption DEF Geometry
<1>2. cr \in SUBSET (0 .. kCoeffBits - 1)
  BY DEF Hash
<1>3. Equation(l, x) = {start + k : k \in cr}
  BY DEF Equation
<1> HIDE DEF start, n, cr
<1>4. \A k \in cr : start + k \in 0 .. n - 1
  BY <1>1, <1>2
<1> QED
  BY <1>3, <1>4 DEF Slots, n

\* what is known of the level being filled
LEMMA Filling ==
    ASSUME IInv, RowsInv, pc = "insert"
    PROVE  /\ Types /\ level \in Levels /\ ScanTypes
           /\ Echelon(storage[level]) /\ StorageRecord(storage[level])
           /\ Geometry(storage[level]) /\ storage[level].num_slots % kCoeffBits = 0
           /\ pending \subseteq Given(level) /\ Done \subseteq Given(level)
           /\ \A x \in Given(level) : Equation(level, x) \in SUBSET Slots(storage[level])
<1>1. /\ Types /\ level \in Levels /\ Echelon(storage[level]) /\ StorageRecord(storage[level])
      /\ Geometry(storage[level]) /\ storage[level].num_slots % kCoeffBits = 0
      /\ pending \subseteq Given(level) /\ hasher[level] \in [Given(level) -> Hash]
      /\ ScanTypes
  BY DEF IInv, RowsInv, Types, Blocks, ScanInv
<1> QED
  BY <1>1, EquationType DEF Done

\* a step that fills its level, or starts it again, has to show what it makes of it
LEMMA RowsInsert ==
    ASSUME IInv, RowsInv, pc = "insert", pc' = pc, data' = data, hasher' = hasher,
           level' = level, NEW t, storage' = [storage EXCEPT ![level] = t],
           Echelon(t), Geometry(t), t.num_slots % kCoeffBits = 0,
           KeptWithout({})',
           scan'.all_good => KeptWithout(scan.bump_cache)' /\ KeptWithout(scan.unc_bump_cache)'
    PROVE  RowsInv'
<1>1. /\ level \in Levels /\ storage'[level] = t
      /\ \A l \in Levels : l # level => storage'[l] = storage[l]
      /\ \A l : Given(l)' = Given(l)
  BY DEF IInv, Types, Given
<1>2. ASSUME NEW l \in Levels, Given(l) # {} PROVE Blocks(l)'
  <2>1. CASE l = level
    BY <1>1, <2>1 DEF Blocks
  <2>2. CASE l # level
    BY <1>1, <1>2, <2>2 DEF RowsInv, Blocks
  <2> QED
    BY <2>1, <2>2
<1>3. ASSUME NEW l \in Levels, l < level PROVE Equations(l)'
  <2>1. l # level /\ Equations(l)
    BY <1>1, <1>3 DEF RowsInv, Levels
  <2>2. storage'[l] = storage[l] /\ Echelon(storage[l])' /\ \A x : Equation(l, x)' = Equation(l, x)
    BY <1>1, <2>1 DEF Equations, Equation, GetStart, NumStarts
  <2> QED
    BY <1>1, <2>1, <2>2 DEF Equations
<1>4. Echelon(storage[level])' /\ Blocks(level)'
  BY <1>1 DEF Blocks
<1> QED
  BY <1>1, <1>2, <1>3, <1>4 DEF RowsInv

\* the equations of the level, if its size and hashes stay
LEMMA KeptNext ==
    ASSUME hasher' = hasher, level' = level, NEW t, storage'[level] = t,
           t.num_slots = storage[level].num_slots, NEW c,
           \A x \in Done' \ (bumped' \cup CachedItems(c)) :
               Vanishes(Cleared(t, c), Equation(level, x), Value(x))
    PROVE  /\ c = {} => KeptWithout({})'
           /\ c = scan'.bump_cache => KeptWithout(scan.bump_cache)'
           /\ c = scan'.unc_bump_cache => KeptWithout(scan.unc_bump_cache)'
<1>1. \A x : Equation(level, x)' = Equation(level, x)
  BY DEF Equation, GetStart, NumStarts
<1>2. \A x \in Done' \ (bumped' \cup CachedItems(c)) :
          Vanishes(Cleared(storage'[level'], c), Equation(level, x)', Value(x))
  BY <1>1
<1> QED
  BY <1>2 DEF KeptWithout, Settled

\* nothing is lost with the caches as the next item finds them
LEMMA EnteredCaches ==
    ASSUME IInv, RowsInv, pc = "insert", NEW x, Stays(x) => scan.all_good,
           NEW now, now = Entered(x)
    PROVE  KeptWithout(now.bump_cache) /\ KeptWithout(now.unc_bump_cache)
<1>1. ScanTypes /\ KeptWithout({})
      /\ (scan.all_good => KeptWithout(scan.bump_cache) /\ KeptWithout(scan.unc_bump_cache))
  BY Filling DEF RowsInv
<1>2. CASE Here(x)
  <2>1. scan.all_good
    BY <1>2 DEF Stays, Here
  <2>2. now = [scan EXCEPT !.last_cval = Compress(Val(x)), !.last_val = Val(x),
               !.bump_cache = IF Compress(Val(x)) # scan.last_cval THEN {} ELSE @,
               !.unc_bump_cache = IF Val(x) # scan.last_val THEN {} ELSE @]
    BY <1>2 DEF Entered, Here, Val
  <2>3. /\ now.bump_cache = IF Compress(Val(x)) # scan.last_cval THEN {} ELSE scan.bump_cache
        /\ now.unc_bump_cache = IF Val(x) # scan.last_val THEN {} ELSE scan.unc_bump_cache
    BY <1>1, <2>2 DEF ScanTypes
  <2>4. now.bump_cache \in {{}, scan.bump_cache} /\ now.unc_bump_cache \in {{}, scan.unc_bump_cache}
    BY <2>3
  <2> QED
    BY <1>1, <2>1, <2>4
<1>3. CASE ~Here(x)
  <2>1. now = [NewScan EXCEPT !.last_bucket = GetBucket(level, x),
                              !.last_cval = Compress(Val(x)), !.last_val = Val(x)]
    BY <1>3 DEF Entered, Here, Val
  <2>2. now.bump_cache = {} /\ now.unc_bump_cache = {}
    BY <2>1 DEF NewScan
  <2> QED
    BY <1>1, <2>2
<1> QED
  BY <1>2, <1>3

LEMMA MovedRows ==
    ASSUME NEW s, StorageRecord(s), NEW b, NEW t, t = MetaOnMove(s, b)
    PROVE  SameRows(s, t) /\ StorageRecord(t)
<1>1. CASE b # scan.last_bucket /\ scan.thresh = NoBumpThresh
  <2>1. t = [s EXCEPT !.meta[scan.last_bucket] = NoBumpThresh]
    BY <1>1 DEF MetaOnMove
  <2>2. t = [num_slots |-> s.num_slots, coeffs |-> s.coeffs, results |-> s.results,
             meta |-> [s.meta EXCEPT ![scan.last_bucket] = NoBumpThresh], plus |-> s.plus]
    BY <2>1 DEF StorageRecord
  <2> QED
    BY <2>2 DEF SameRows, StorageRecord
<1>2. CASE ~(b # scan.last_bucket /\ scan.thresh = NoBumpThresh)
  <2>1. t = s
    BY <1>2 DEF MetaOnMove
  <2> QED
    BY <2>1 DEF SameRows
<1> QED
  BY <1>1, <1>2

LEMMA HardBumpRows ==
    ASSUME IInv, RowsInv, NEW x, HardBump(x)
    PROVE  RowsInv'
<1> DEFINE s == storage[level]
<1>1. /\ pc = "insert" /\ pc' = pc /\ data' = data /\ level' = level /\ hasher' = hasher
      /\ storage' = storage /\ scan' = scan /\ ~scan.all_good /\ x \in pending
      /\ pending' = pending \ {x} /\ bumped' = bumped \cup {x}
  BY DEF HardBump, NextItem
<1>2. /\ Types /\ level \in Levels /\ Echelon(s) /\ StorageRecord(s) /\ Geometry(s)
      /\ s.num_slots % kCoeffBits = 0 /\ pending \subseteq Given(level)
  BY <1>1, Filling
<1>3. storage' = [storage EXCEPT ![level] = s] /\ storage'[level] = s
  BY <1>1, <1>2 DEF Types
<1>4. Done' = Done \cup {x}
  BY <1>1, <1>2 DEF Done, Given
<1>5. \A y \in Done' \ (bumped' \cup CachedItems({})) :
          Vanishes(Cleared(s, {}), Equation(level, y), Value(y))
  BY <1>1, <1>4 DEF RowsInv, KeptWithout, Settled
<1> HIDE DEF s
<1>6. KeptWithout({})'
  BY <1>1, <1>3, <1>5, KeptNext DEF s
<1> QED
  BY <1>1, <1>2, <1>3, <1>6, RowsInsert

LEMMA AddItemRows ==
    ASSUME IInv, RowsInv, NEW x, AddItem(x)
    PROVE  RowsInv'
<1> DEFINE tried == Tried(x)
           row == Min(tried.coeffs)
           now == Entered(x)
           s == storage[level]
           u == MetaOnMove(s, GetBucket(level, x))
           t == Written(u, row, tried.coeffs, tried.result)
           entry == <<row, x>>
<1>1. /\ Addable(x) /\ bumped' = bumped /\ pc = "insert" /\ pc' = pc
      /\ data' = data /\ level' = level /\ hasher' = hasher
      /\ storage' = [storage EXCEPT ![level] = t]
      /\ scan' = Cached(now, entry) /\ tried.coeffs # {}
      /\ (Stays(x) => scan.all_good)
  BY DEF AddItem, Addable, NextItem, Written, Cached
<1>2. /\ Types /\ level \in Levels /\ Echelon(s) /\ StorageRecord(s) /\ Geometry(s)
      /\ s.num_slots % kCoeffBits = 0
      /\ \A y \in Given(level) : Equation(level, y) \in SUBSET Slots(s)
      /\ Done \subseteq Given(level)
  BY <1>1, Filling
<1>3. x \in Given(level) /\ x \in pending /\ Done' = Done \cup {x} /\ x \notin Done
      /\ Inserting
      /\ \A y \in pending : StartToSort(level, x) <= StartToSort(level, y)
  BY <1>1, AddedItem
<1>4. SameRows(s, u) /\ StorageRecord(u)
  <2> HIDE DEF s
  <2> QED
    BY <1>2, MovedRows
<1>5. /\ MoreBy(s, t, row) /\ Vanishes(t, Equation(level, x), Value(x))
  <2>1. tried = Reduce(s, Equation(level, x), Value(x)) /\ Equation(level, x) \in SUBSET Slots(s)
    BY <1>2, <1>3 DEF Tried
  <2> HIDE DEF tried, s, u, t
  <2>2. row = Min(tried.coeffs) /\ t = Written(u, row, tried.coeffs, tried.result)
    BY DEF t
  <2> HIDE DEF row
  <2> QED
    BY <1>1, <1>2, <1>4, <2>1, <2>2, WriteRow
<1>6. StorageRecord(t)
  <2> HIDE DEF u, row, tried
  <2> QED
    BY <1>4, WrittenRow
<1> HIDE DEF t, u, s, row, tried
<1>7. Echelon(t) /\ t.num_slots = s.num_slots /\ Geometry(t) /\ t.num_slots % kCoeffBits = 0
  <2>1. t.meta = u.meta
    BY <1>4, WrittenRow DEF t
  <2>2. Geometry(u)
    BY <1>1, <1>3, Moved DEF u, s
  <2>3. Echelon(t) /\ t.num_slots = s.num_slots /\ s.num_slots = u.num_slots
    BY <1>4, <1>5 DEF MoreBy, SameRows
  <2> QED
    BY <1>2, <2>1, <2>2, <2>3 DEF Geometry
<1>8. storage'[level] = t
  BY <1>1, <1>2 DEF Types
<1>9. KeptWithout({})'
  <2>1. ASSUME NEW y \in Done' \ (bumped' \cup CachedItems({}))
        PROVE  Vanishes(Cleared(t, {}), Equation(level, y), Value(y))
    <3>1. CASE y = x
      BY <1>5, <1>6, <1>7, <3>1, NoneCleared, SameReduce
    <3>2. CASE y # x
      <4>1. Vanishes(Cleared(s, {}), Equation(level, y), Value(y))
        BY <1>1, <1>3, <2>1, <3>2 DEF RowsInv, KeptWithout, Settled, s
      <4>2. Vanishes(s, Equation(level, y), Value(y))
        BY <1>2, <4>1, NoneCleared, SameReduce
      <4>3. Vanishes(t, Equation(level, y), Value(y))
        BY <1>2, <1>3, <1>5, <2>1, <3>2, <4>2, VanishesStill
      <4> QED
        BY <1>6, <1>7, <4>3, NoneCleared, SameReduce
    <3> QED
      BY <3>1, <3>2
  <2> QED
    BY <1>1, <1>7, <1>8, <2>1, KeptNext DEF s
<1>10. /\ scan'.bump_cache = now.bump_cache \cup {entry}
       /\ scan'.unc_bump_cache = now.unc_bump_cache \cup {entry}
  <2>1. ScanRecord(now)
    <3>1. now = [last_bucket |-> GetBucket(level, x), all_good |-> TRUE,
                 thresh |-> NoBumpThresh, last_cval |-> Compress(Val(x)),
                 last_val |-> Val(x), bump_cache |-> now.bump_cache,
                 unc_bump_cache |-> now.unc_bump_cache]
      BY <1>1, <1>3, EnteredScan
    <3> HIDE DEF now
    <3> QED
      BY <3>1 DEF ScanRecord
  <2> HIDE DEF now, entry
  <2> QED
    BY <1>1, <2>1, CachedMore
<1>11. KeptWithout(now.bump_cache) /\ KeptWithout(now.unc_bump_cache)
  <2> HIDE DEF now
  <2>1. now = Entered(x)
    BY DEF now
  <2> QED
    BY <1>1, <2>1, EnteredCaches
<1> HIDE DEF now
<1>12. ASSUME NEW c, KeptWithout(c)
       PROVE  \A y \in Done' \ (bumped' \cup CachedItems(c \cup {entry})) :
                  Vanishes(Cleared(t, c \cup {entry}), Equation(level, y), Value(y))
  <2>1. SameRows(Cleared(s, c), Cleared(t, c \cup {entry}))
    BY <1>2, <1>5, <1>6, <1>7, ClearedOneMore
  <2>2. CachedItems(c \cup {entry}) = CachedItems(c) \cup {x}
    BY CachedOneMore
  <2>3. ASSUME NEW y \in Done' \ (bumped' \cup CachedItems(c \cup {entry}))
        PROVE  Vanishes(Cleared(s, c), Equation(level, y), Value(y))
    BY <1>1, <1>3, <1>12, <2>2, <2>3 DEF KeptWithout, Settled, s
  <2> QED
    BY <2>1, <2>3, SameReduce
<1>13. KeptWithout(scan.bump_cache)'
  <2> DEFINE c == now.bump_cache \cup {entry}
  <2>1. \A y \in Done' \ (bumped' \cup CachedItems(c)) :
            Vanishes(Cleared(t, c), Equation(level, y), Value(y))
    BY <1>11, <1>12
  <2>2. c = scan'.bump_cache
    BY <1>10
  <2> HIDE DEF c
  <2> QED
    BY <1>1, <1>7, <1>8, <2>1, <2>2, KeptNext DEF s
<1>14. KeptWithout(scan.unc_bump_cache)'
  <2> DEFINE c == now.unc_bump_cache \cup {entry}
  <2>1. \A y \in Done' \ (bumped' \cup CachedItems(c)) :
            Vanishes(Cleared(t, c), Equation(level, y), Value(y))
    BY <1>11, <1>12
  <2>2. c = scan'.unc_bump_cache
    BY <1>10
  <2> HIDE DEF c
  <2> QED
    BY <1>1, <1>7, <1>8, <2>1, <2>2, KeptNext DEF s
<1> QED
  BY <1>1, <1>7, <1>9, <1>13, <1>14, RowsInsert

LEMMA ClearedSame ==
    ASSUME NEW s, Echelon(s), StorageRecord(s), NEW t, StorageRecord(t), SameRows(s, t),
           NEW cache
    PROVE  SameRows(Cleared(s, cache), Cleared(t, cache))
<1>1. Echelon(t) /\ Slots(t) = Slots(s)
  BY SameEchelon
<1>2. \A p : s.coeffs[p] = t.coeffs[p] /\ s.results[p] = t.results[p]
  BY DEF SameRows
<1>3. /\ Cleared(s, cache).num_slots = s.num_slots
      /\ Cleared(s, cache).coeffs =
            [p \in Slots(s) |-> IF p \in CachedRows(cache) THEN {} ELSE s.coeffs[p]]
      /\ Cleared(s, cache).results =
            [p \in Slots(s) |-> IF p \in CachedRows(cache) THEN {} ELSE s.results[p]]
  BY ClearedTable
<1>4. /\ Cleared(t, cache).num_slots = t.num_slots
      /\ Cleared(t, cache).coeffs =
            [p \in Slots(t) |-> IF p \in CachedRows(cache) THEN {} ELSE t.coeffs[p]]
      /\ Cleared(t, cache).results =
            [p \in Slots(t) |-> IF p \in CachedRows(cache) THEN {} ELSE t.results[p]]
  BY <1>1, ClearedTable
<1> QED
  BY <1>1, <1>2, <1>3, <1>4 DEF SameRows

LEMMA FailedRows ==
    ASSUME NEW t, StorageRecord(t), Echelon(t), NEW cache, NEW b, NEW cval, NEW v,
           NEW u, u = Failed(t, cache, b, cval, v)
    PROVE  StorageRecord(u) /\ SameRows(Cleared(t, cache), u)
<1> DEFINE k == Cleared(t, cache)
<1>1. StorageRecord(k)
  BY ClearedTable
<1>2. u = [k EXCEPT !.meta[b] = 0, !.plus = IF cval = 2 THEN @ \cup {<<b, v>>} ELSE @]
  BY DEF Failed
<1> HIDE DEF k
<1>3. u = [num_slots |-> k.num_slots, coeffs |-> k.coeffs, results |-> k.results,
           meta |-> [k.meta EXCEPT ![b] = 0],
           plus |-> IF cval = 2 THEN k.plus \cup {<<b, v>>} ELSE k.plus]
  BY <1>1, <1>2 DEF StorageRecord
<1> QED
  BY <1>3 DEF StorageRecord, SameRows, k

LEMMA FirstFailureRows ==
    ASSUME IInv, RowsInv, NEW x, FirstFailure(x)
    PROVE  RowsInv'
<1> DEFINE bucket == GetBucket(level, x)
           now == Entered(x)
           s == storage[level]
           t == MetaOnMove(s, bucket)
           cache == IF now.last_cval = 2 THEN now.unc_bump_cache ELSE now.bump_cache
           u == Failed(t, cache, bucket, now.last_cval, now.last_val)
<1>1. /\ Addable(x) /\ pc = "insert" /\ pc' = pc
      /\ data' = data /\ level' = level /\ hasher' = hasher
      /\ storage' = [storage EXCEPT ![level] = u]
      /\ scan' = AfterFailure(now)
      /\ bumped' = bumped \cup CachedItems(cache) \cup {x}
      /\ (Stays(x) => scan.all_good)
  BY DEF FirstFailure, Addable, NextItem, Failed, AfterFailure
<1>2. /\ Types /\ level \in Levels /\ Echelon(s) /\ StorageRecord(s) /\ Geometry(s)
      /\ s.num_slots % kCoeffBits = 0
  BY <1>1, Filling
<1>3. x \in Given(level) /\ x \in pending /\ Done' = Done \cup {x} /\ x \notin Done
      /\ Inserting
      /\ \A y \in pending : StartToSort(level, x) <= StartToSort(level, y)
  BY <1>1, AddedItem
<1>4. SameRows(s, t) /\ StorageRecord(t) /\ Geometry(t)
  <2>1. Geometry(t)
    BY <1>1, <1>3, Moved
  <2> HIDE DEF s, bucket
  <2> QED
    BY <1>2, <2>1, MovedRows
<1>5. KeptWithout(cache)
  <2>1. KeptWithout(now.bump_cache) /\ KeptWithout(now.unc_bump_cache)
    <3> HIDE DEF now
    <3>1. now = Entered(x)
      BY DEF now
    <3> QED
      BY <1>1, <3>1, EnteredCaches
  <2> QED
    BY <2>1
<1>6. ScanRecord(now)
  <2>1. now = [last_bucket |-> bucket, all_good |-> TRUE,
               thresh |-> NoBumpThresh, last_cval |-> Compress(Val(x)),
               last_val |-> Val(x), bump_cache |-> now.bump_cache,
               unc_bump_cache |-> now.unc_bump_cache]
    BY <1>1, <1>3, EnteredScan
  <2> HIDE DEF now, bucket
  <2> QED
    BY <2>1 DEF ScanRecord
<1> HIDE DEF now, s, t, cache, bucket
<1>7. scan'.all_good = FALSE
  BY <1>1, <1>6, FailedScan
<1>8. /\ StorageRecord(u) /\ u.num_slots = t.num_slots /\ Geometry(u)
      /\ SameRows(Cleared(t, cache), u)
  <2>1. Echelon(t)
    BY <1>2, <1>4, SameEchelon
  <2> QED
    BY <1>4, <2>1, FailedTable, FailedRows
<1>9. SameRows(Cleared(s, cache), u) /\ Echelon(u) /\ u.num_slots = s.num_slots
  <2>1. SameRows(Cleared(s, cache), Cleared(t, cache))
    BY <1>2, <1>4, ClearedSame
  <2>2. SameRows(Cleared(s, cache), u)
    BY <1>8, <2>1 DEF SameRows
  <2>3. Echelon(Cleared(s, cache))
    BY <1>2, ClearedTable
  <2> QED
    BY <1>4, <1>8, <2>2, <2>3, SameEchelon DEF SameRows
<1> HIDE DEF u
<1>10. storage'[level] = u
  BY <1>1, <1>2 DEF Types
<1>11. KeptWithout({})'
  <2>1. ASSUME NEW y \in Done' \ (bumped' \cup CachedItems({}))
        PROVE  Vanishes(Cleared(u, {}), Equation(level, y), Value(y))
    <3>1. y \in Settled(cache)
      BY <1>1, <1>3, <2>1 DEF Settled
    <3>2. Vanishes(Cleared(s, cache), Equation(level, y), Value(y))
      BY <1>5, <3>1 DEF KeptWithout, s
    <3>3. Vanishes(u, Equation(level, y), Value(y))
      BY <1>9, <3>2, SameReduce
    <3> QED
      BY <1>8, <1>9, <3>3, NoneCleared, SameReduce
  <2> QED
    BY <1>1, <1>9, <1>10, <2>1, KeptNext DEF s
<1> QED
  BY <1>1, <1>2, <1>7, <1>8, <1>9, <1>11, RowsInsert

-----------------------------------------------------------------------------
(* The steps that end or begin a level. *)

LEMMA PreparedRows ==
    ASSUME NEW n \in Nat \ {0}
    PROVE  /\ Echelon(Prepared(n)) /\ StorageRecord(Prepared(n)) /\ Geometry(Prepared(n))
           /\ Prepared(n).num_slots % kCoeffBits = 0
<1> DEFINE p == Prepared(n)
           blocks == (n + kCoeffBits - 1) \div kCoeffBits
           slots == blocks * kCoeffBits
           buckets == (slots - kCoeffBits + kBucketSize) \div kBucketSize
<1>1. StorageRecord(p) /\ Geometry(p)
  BY PreparedTable
<1>2. p = [num_slots |-> slots,
           coeffs |-> [q \in 0 .. slots - 1 |-> {}],
           results |-> [q \in 0 .. slots - 1 |-> {}],
           meta |-> [b \in 0 .. buckets - 1 |-> 0],
           plus |-> {}]
  BY DEF Prepared
<1>3. kCoeffBits \in Nat \ {0} /\ blocks \in Nat
  <2>1. kCoeffBits \in Nat \ {0} /\ n + kCoeffBits - 1 \in Nat
    BY RibbonAssumption
  <2> QED
    BY <2>1, IntDivision
<1>4. slots % kCoeffBits = 0
  <2> HIDE DEF blocks
  <2>1. (blocks * kCoeffBits + 0) % kCoeffBits = 0
    BY <1>3, QuotientIs
  <2>2. blocks * kCoeffBits + 0 = slots
    BY <1>3
  <2> HIDE DEF slots
  <2> QED
    BY <2>1, <2>2
<1> HIDE DEF p, slots, buckets
<1>5. /\ p.num_slots = slots
      /\ p.coeffs = [q \in 0 .. slots - 1 |-> {}] /\ p.results = [q \in 0 .. slots - 1 |-> {}]
  BY <1>2
<1>6. Echelon(p)
  <2>1. p.num_slots \in Nat /\ Slots(p) = 0 .. slots - 1
    BY <1>1, <1>5 DEF Geometry, Slots
  <2> QED
    BY <1>5, <2>1 DEF Echelon, IsTable
<1> QED
  BY <1>1, <1>4, <1>5, <1>6 DEF p

LEMMA RetryRows ==
    ASSUME IInv, IInv', RowsInv, NEW x, Retry(x)
    PROVE  RowsInv'
<1> DEFINE n == (base.orig * base'.per_item) \div 1000
           t == Prepared(n)
<1>1. /\ pc = "insert" /\ pc' = pc /\ data' = data /\ level' = level /\ hasher' = hasher
      /\ base' = [base EXCEPT !.per_item = @ + Growth]
      /\ storage' = [storage EXCEPT ![level] = t]
      /\ pending' = DOMAIN hasher[level] /\ scan' = NewScan /\ level = depth
  BY DEF Retry, NextItem
<1>2. level \in Levels /\ Types
  BY DEF IInv, Types
<1>3. n \in Nat \ {0}
  <2>1. /\ base.orig \in Nat /\ base.orig >= 1
        /\ base'.per_item \in Nat /\ base'.per_item >= 1000
    BY <1>1 DEF IInv, Types
  <2> DEFINE p == base.orig * base'.per_item
  <2>2. base'.per_item * 1 <= base'.per_item * base.orig
    BY <2>1, Products
  <2>3. p \in Int /\ p >= 1000
    <3>1. base'.per_item * base.orig = p /\ base'.per_item * 1 = base'.per_item /\ p \in Int
      BY <2>1
    <3> HIDE DEF p
    <3> QED
      BY <2>1, <2>2, <3>1
  <2> HIDE DEF p
  <2>4. p \div 1000 \in Int /\ p \div 1000 >= 1
    BY <2>3, QuotientPositive, IntDivision
  <2> QED
    BY <2>4 DEF p
<1> HIDE DEF n
<1>4. Echelon(t) /\ StorageRecord(t) /\ Geometry(t) /\ t.num_slots % kCoeffBits = 0
  BY <1>3, PreparedRows
<1> HIDE DEF t
<1>5. Done' = {}
  BY <1>1, <1>2 DEF Done, Given
<1>6. /\ KeptWithout({})' /\ KeptWithout(scan.bump_cache)'
      /\ KeptWithout(scan.unc_bump_cache)'
  BY <1>5 DEF KeptWithout, Settled
<1> QED
  BY <1>1, <1>4, <1>6, RowsInsert

LEMMA FinishRangeRows ==
    ASSUME IInv, IInv', RowsInv, FinishRange
    PROVE  RowsInv'
<1> DEFINE t == ClosedTable
           slots == IF level + 1 < depth THEN ChildSlots(Cardinality(bumped))
                    ELSE BaseSlots(Cardinality(bumped))
<1>1. PICK cur \in Levels : cur = level
  BY DEF IInv, Types
<1>2. /\ pc = "insert" /\ pending = {} /\ Types /\ data' = data
      /\ cur = depth => bumped = {}
      /\ \A l \in Levels : l > cur => Given(l) = {}
      /\ bumped \subseteq Given(cur)
      /\ \A l \in Levels : StorageRecord(storage[l]) /\ storage[l].num_slots \in Nat
      /\ \A l \in Levels : hasher[l] \in [Given(l) -> Hash] /\ Given(l) \subseteq data
  BY <1>1 DEF FinishRange, IInv, Types
<1>3. /\ Echelon(storage[cur]) /\ StorageRecord(storage[cur]) /\ Geometry(storage[cur])
      /\ storage[cur].num_slots % kCoeffBits = 0
  BY <1>1, <1>2, Filling
<1>4. SameRows(storage[cur], t) /\ StorageRecord(t) /\ Geometry(t)
  <2>1. CASE scan.thresh = NoBumpThresh
    <3>1. t = [storage[cur] EXCEPT !.meta[scan.last_bucket] = NoBumpThresh]
      BY <1>1, <2>1 DEF ClosedTable
    <3> DEFINE s == storage[cur]
    <3>2. /\ t = [num_slots |-> s.num_slots, coeffs |-> s.coeffs, results |-> s.results,
                  meta |-> [s.meta EXCEPT ![scan.last_bucket] = NoBumpThresh],
                  plus |-> s.plus]
      BY <1>3, <3>1 DEF StorageRecord
    <3> HIDE DEF t
    <3>3. /\ t.num_slots = s.num_slots /\ t.coeffs = s.coeffs /\ t.results = s.results
          /\ t.meta = [s.meta EXCEPT ![scan.last_bucket] = NoBumpThresh]
          /\ StorageRecord(t)
      BY <3>2 DEF StorageRecord
    <3>4. Geometry(t)
      BY <1>3, <3>3 DEF Geometry
    <3> QED
      BY <3>3, <3>4 DEF SameRows
  <2>2. CASE scan.thresh # NoBumpThresh
    <3>1. t = storage[cur]
      BY <1>1, <2>2 DEF ClosedTable
    <3> QED
      BY <1>3, <3>1 DEF SameRows
  <2> QED
    BY <2>1, <2>2
<1> DEFINE closed == [storage EXCEPT ![cur] = t]
<1>5. closed = IF scan.thresh = NoBumpThresh
               THEN [storage EXCEPT ![level].meta[scan.last_bucket] = NoBumpThresh]
               ELSE storage
  <2>1. storage = [storage EXCEPT ![cur] = storage[cur]]
    BY <1>2 DEF Types
  <2> QED
    BY <1>1, <2>1 DEF ClosedTable
<1>6. IF bumped = {}
      THEN storage' = closed /\ pc' = "solve" /\ level' = 0 /\ hasher' = hasher
      ELSE /\ level' = cur + 1 /\ pc' = pc
           /\ storage' = [closed EXCEPT ![cur + 1] = Prepared(slots)]
           /\ \E f \in HashFunctions(cur + 1, bumped) :
                 hasher' = [hasher EXCEPT ![cur + 1] = f]
           /\ pending' = bumped /\ bumped' = {} /\ scan' = NewScan
  <2> HIDE DEF closed
  <2> QED
    BY <1>1, <1>2, <1>5 DEF FinishRange
<1>7. /\ closed[cur] = t /\ closed = [l \in Levels |-> closed[l]]
      /\ \A l \in Levels : l # cur => closed[l] = storage[l]
  <2> HIDE DEF t
  <2> QED
    BY <1>1, <1>2 DEF Types
<1>8. /\ Given(0) = data
      /\ \A l \in Levels : Given(l + 1) \subseteq Given(l)
      /\ \A l \in Levels : Given(l) # {} => Blocks(l)
      /\ \A l \in Levels : l < cur => Equations(l)
      /\ KeptWithout({})
  BY <1>1, <1>2 DEF RowsInv
<1>9. \A x \in Given(cur) \ bumped : Vanishes(storage[cur], Equation(cur, x), Value(x))
  <2>1. Settled({}) = Given(cur) \ bumped
    BY <1>1, <1>2, NoneCached DEF Settled, Done
  <2> QED
    BY <1>1, <1>3, <1>8, <2>1, NoneCleared, SameReduce DEF KeptWithout
<1> HIDE DEF t, closed
<1>10. ASSUME storage'[cur] = t, hasher'[cur] = hasher[cur],
              Given(cur)' = Given(cur), Given(cur + 1)' = bumped
       PROVE  Equations(cur)'
  <2>1. \A x : Equation(cur, x)' = Equation(cur, x)
    BY <1>4, <1>10 DEF Equation, GetStart, NumStarts, SameRows
  <2>2. Echelon(t)
    BY <1>3, <1>4, SameEchelon
  <2>3. ASSUME NEW x \in Given(cur)' \ Given(cur + 1)'
        PROVE  Vanishes(t, Equation(cur, x)', Value(x))
    BY <1>4, <1>9, <1>10, <2>1, <2>3, SameReduce
  <2> QED
    BY <1>10, <2>2, <2>3 DEF Equations
<1>11. ASSUME NEW l, hasher'[l] = hasher[l], storage'[l] = storage[l],
              Given(l)' = Given(l), Given(l + 1)' = Given(l + 1), Equations(l)
       PROVE  Equations(l)'
  <2>1. \A x : Equation(l, x)' = Equation(l, x)
    BY <1>11 DEF Equation, GetStart, NumStarts
  <2> QED
    BY <1>11, <2>1 DEF Equations
<1>12. CASE bumped = {}
  <2>1. storage' = closed /\ pc' = "solve" /\ level' = 0 /\ hasher' = hasher
    BY <1>6, <1>12
  <2>2. \A l : Given(l)' = Given(l)
    BY <2>1 DEF Given
  <2>3. ASSUME NEW l \in Levels, Given(l) # {} PROVE Blocks(l)' /\ Equations(l)'
    <3>1. CASE l = cur
      <4>1. Given(cur + 1) = {}
        BY <1>2, RibbonAssumption DEF Given, Levels
      <4>2. Equations(cur)'
        BY <1>7, <1>10, <1>12, <2>1, <2>2, <4>1
      <4>3. Blocks(cur)'
        BY <1>3, <1>4, <1>7, <2>1 DEF Blocks, SameRows
      <4> QED
        BY <3>1, <4>2, <4>3
    <3>2. CASE l # cur
      <4>1. l < cur
        BY <1>2, <2>3, <3>2, RibbonAssumption DEF Levels
      <4>2. storage'[l] = storage[l] /\ hasher'[l] = hasher[l]
        BY <1>7, <2>1, <3>2
      <4>3. Equations(l)'
        BY <1>8, <1>11, <2>2, <4>1, <4>2
      <4> QED
        BY <1>8, <2>3, <4>2, <4>3 DEF Blocks
    <3> QED
      BY <3>1, <3>2
  <2>4. \A l \in Levels : ~ (l < level')
    BY <2>1, RibbonAssumption DEF Levels
  <2> QED
    BY <1>2, <1>8, <2>1, <2>2, <2>3, <2>4 DEF RowsInv
<1>13. CASE bumped # {}
  <2> DEFINE next == cur + 1
  <2>1. /\ level' = next /\ pc' = pc
        /\ storage' = [closed EXCEPT ![next] = Prepared(slots)]
        /\ pending' = bumped /\ bumped' = {} /\ scan' = NewScan
    BY <1>6, <1>13
  <2>2. next \in Levels /\ next # cur /\ cur \in 0 .. depth /\ depth \in Nat
    BY <1>1, <1>2, <1>13, RibbonAssumption DEF Levels
  <2>3. PICK f \in HashFunctions(next, bumped) : hasher' = [hasher EXCEPT ![next] = f]
    BY <1>6, <1>13
  <2>4. bumped \subseteq data /\ IsFiniteSet(data) /\ data \in ItemSets
    BY <1>1, <1>2, ItemsAssumption DEF Types
  <2>5. f \in [bumped -> Hash]
    BY <2>2, <2>4, ItemsAssumption
  <2>6. slots \in Nat \ {0}
    <3>1. Cardinality(bumped) \in Nat
      BY <2>4, FS_Subset, FS_CardinalityType
    <3> QED
      BY <3>1, SlotsOfLevel
  <2> HIDE DEF slots
  <2>7. /\ hasher'[next] = f /\ \A l \in Levels : l # next => hasher'[l] = hasher[l]
    BY <1>2, <2>2, <2>3 DEF Types
  <2>8. /\ Given(next)' = bumped
        /\ \A l : l # next => Given(l)' = Given(l)
    BY <2>2, <2>5, <2>7 DEF Given
  <2>9. /\ storage'[next] = Prepared(slots) /\ storage'[cur] = t
        /\ \A l \in Levels : l # next /\ l # cur => storage'[l] = storage[l]
    BY <1>7, <2>1, <2>2
  <2>10. /\ Echelon(Prepared(slots)) /\ Geometry(Prepared(slots))
         /\ Prepared(slots).num_slots % kCoeffBits = 0
    BY <2>6, PreparedRows
  <2>11. ASSUME NEW l \in Levels PROVE Given(l)' # {} => Blocks(l)'
    <3>1. CASE l = next
      BY <2>9, <2>10, <3>1 DEF Blocks
    <3>2. CASE l = cur
      BY <1>3, <1>4, <2>9, <3>2 DEF Blocks, SameRows
    <3>3. CASE l # next /\ l # cur
      BY <1>8, <2>8, <2>9, <3>3 DEF Blocks
    <3> QED
      BY <3>1, <3>2, <3>3
  <2>12. ASSUME NEW l \in Levels, l < next PROVE Equations(l)'
    <3>1. CASE l = cur
      <4>1. Given(cur)' = Given(cur) /\ Given(cur + 1)' = bumped
        BY <2>2, <2>8
      <4> QED
        BY <1>10, <2>2, <2>7, <2>9, <3>1, <4>1
    <3>2. CASE l # cur
      <4>1. l < cur /\ l + 1 # next /\ l # next
        BY <2>2, <2>12, <3>2 DEF Levels
      <4> QED
        BY <1>8, <1>11, <2>7, <2>8, <2>9, <3>2, <4>1
    <3> QED
      BY <3>1, <3>2
  <2>13. ASSUME NEW l \in Levels PROVE Given(l + 1)' \subseteq Given(l)'
    <3>1. CASE l = cur
      BY <1>2, <2>2, <2>8, <3>1
    <3>2. CASE l = next
      <4>1. Given(l + 1)' = Given(l + 1) /\ Given(l + 1) = {}
        BY <1>2, <2>2, <2>8, <3>2 DEF Given, Levels
      <4> QED
        BY <4>1
    <3>3. CASE l # cur /\ l # next
      <4>1. l + 1 # next
        BY <2>2, <3>3 DEF Levels
      <4> QED
        BY <1>8, <2>8, <3>3, <4>1
    <3> QED
      BY <3>1, <3>2, <3>3
  <2>14. Given(0)' = data'
    <3>1. next # 0
      BY <2>2
    <3> QED
      BY <1>2, <1>8, <2>8, <3>1
  <2>15. Done' = {}
    BY <2>1, <2>8 DEF Done
  <2>16. /\ KeptWithout({})' /\ KeptWithout(scan.bump_cache)'
         /\ KeptWithout(scan.unc_bump_cache)'
    BY <2>15 DEF KeptWithout, Settled
  <2>17. Echelon(storage[level])' /\ Blocks(level)'
    BY <2>1, <2>9, <2>10 DEF Blocks
  <2> QED
    BY <1>2, <2>1, <2>11, <2>12, <2>13, <2>14, <2>16, <2>17 DEF RowsInv
<1> QED
  BY <1>12, <1>13

-----------------------------------------------------------------------------
(* Parities. *)

\* whether an odd number of the slots of c have a bit in the column
Parity(f, c, column) == Odd(Cardinality({q \in c : column \in f[q]}))

LEMMA OddSum ==
    ASSUME NEW a \in Nat, NEW b \in Nat
    PROVE  /\ Odd(a + b) <=> (Odd(a) # Odd(b))
           /\ Odd(a) \in BOOLEAN /\ ~Odd(0) /\ (Odd(a + 1) <=> ~Odd(a))
           /\ Odd(a + b + b) <=> Odd(a)
<1>1. a % 2 \in {0, 1} /\ b % 2 \in {0, 1}
  OBVIOUS
<1>2. (a + b) % 2 = IF a % 2 = b % 2 THEN 0 ELSE 1
  OBVIOUS
<1>3. (a + b + b) % 2 = a % 2 /\ (a + 1) % 2 = 1 - (a % 2) /\ 0 % 2 = 0
  OBVIOUS
<1> QED
  BY <1>1, <1>2, <1>3 DEF Odd

\* the slots of a sum are those of one of the rows, without those of both
LEMMA ParitySum ==
    ASSUME NEW f, NEW c, IsFiniteSet(c), NEW d, IsFiniteSet(d), NEW column
    PROVE  Parity(f, SymDiff(c, d), column) <=> (Parity(f, c, column) # Parity(f, d, column))
<1> DEFINE C == {q \in c : column \in f[q]}
           D == {q \in d : column \in f[q]}
           S == {q \in SymDiff(c, d) : column \in f[q]}
           I == C \cap D
<1>1. IsFiniteSet(C) /\ IsFiniteSet(D)
  <2>1. C \in SUBSET c /\ D \in SUBSET d
    OBVIOUS
  <2> QED
    BY <2>1, FS_Subset
<1>2. S = (C \ D) \cup (D \ C) /\ (C \ D) \cap (D \ C) = {} /\ D \cap C = I
  BY DEF SymDiff
<1> HIDE DEF C, D, S
<1>3. /\ IsFiniteSet(C \ D) /\ Cardinality(C \ D) = Cardinality(C) - Cardinality(I)
      /\ IsFiniteSet(D \ C) /\ Cardinality(D \ C) = Cardinality(D) - Cardinality(I)
  <2>1. IsFiniteSet(C \ D) /\ Cardinality(C \ D) = Cardinality(C) - Cardinality(I)
    BY <1>1, FS_Difference
  <2>2. IsFiniteSet(D \ C) /\ Cardinality(D \ C) = Cardinality(D) - Cardinality(D \cap C)
    BY <1>1, FS_Difference
  <2> QED
    BY <1>2, <2>1, <2>2
<1>4. Cardinality(S) = Cardinality(C \ D) + Cardinality(D \ C)
  <2>1. Cardinality(S) = Cardinality(C \ D) + Cardinality(D \ C) - Cardinality({})
    BY <1>2, <1>3, FS_Union
  <2> QED
    BY <1>3, <2>1, FS_EmptySet, FS_CardinalityType
<1>5. /\ Cardinality(C) \in Nat /\ Cardinality(D) \in Nat /\ Cardinality(S) \in Nat
      /\ Cardinality(I) \in Nat
  <2>1. IsFiniteSet(S)
    BY <1>2, <1>3, FS_Union
  <2>2. IsFiniteSet(I)
    BY <1>1, FS_Intersection
  <2> HIDE DEF I
  <2> QED
    BY <1>1, <2>1, <2>2, FS_CardinalityType
<1>6. Cardinality(S) + Cardinality(I) + Cardinality(I) = Cardinality(C) + Cardinality(D)
  BY <1>3, <1>4, <1>5
<1>7. Odd(Cardinality(S)) <=> Odd(Cardinality(C) + Cardinality(D))
  BY <1>5, <1>6, OddSum
<1>8. Odd(Cardinality(S)) <=> (Odd(Cardinality(C)) # Odd(Cardinality(D)))
  BY <1>5, <1>7, OddSum
<1> QED
  BY <1>8 DEF Parity, C, D, S

LEMMA ParityEmpty ==
    ASSUME NEW f, NEW column
    PROVE  ~Parity(f, {}, column)
<1>1. {q \in {} : column \in f[q]} = {}
  OBVIOUS
<1> QED
  BY <1>1, FS_EmptySet, OddSum DEF Parity

LEMMA ParityBoolean ==
    ASSUME NEW f, NEW c, IsFiniteSet(c), NEW column
    PROVE  Parity(f, c, column) \in BOOLEAN
  BY DEF Parity, Odd

LEMMA Shifted ==
    ASSUME NEW A \in SUBSET Int, IsFiniteSet(A), NEW d \in Int
    PROVE  /\ IsFiniteSet({j + d : j \in A})
           /\ Cardinality({j + d : j \in A}) = Cardinality(A)
<1> DEFINE B == {j + d : j \in A}
           g == [j \in A |-> j + d]
<1>1. g \in [A -> B]
  OBVIOUS
<1>2. \A i, j \in A : g[i] = g[j] => i = j
  OBVIOUS
<1>3. \A b \in B : \E j \in A : g[j] = b
  OBVIOUS
<1> HIDE DEF g, B
<1>4. ExistsBijection(A, B)
  BY <1>1, <1>2, <1>3 DEF ExistsBijection, Bijection, Injection, Surjection, IsInjective
<1> QED
  BY <1>4, FS_Bijection DEF B

-----------------------------------------------------------------------------
(* Back substitution. *)

Substitution(s) ==
    CHOOSE f : f = [p \in 0 .. s.num_slots - 1 |->
            {column \in Columns :
                Odd(Cardinality({q \in s.coeffs[p] \ {p} : column \in f[q]})
                      + (IF column \in s.results[p] THEN 1 ELSE 0))}]

LEMMA SubstitutedIs == ASSUME NEW s PROVE Substituted(s) = Substitution(s)
  BY DEF Substituted, Substitution

\* a slot from those behind it
Slot(s, f, p) ==
    {column \in Columns :
        Odd(Cardinality({q \in s.coeffs[p] \ {p} : column \in f[q]})
              + (IF column \in s.results[p] THEN 1 ELSE 0))}

LEMMA SubstitutedUnfolds ==
    ASSUME NEW s, Echelon(s)
    PROVE  \A p \in Slots(s) : Substituted(s)[p] = Slot(s, Substituted(s), p)
<1> DEFINE X == Slots(s)
           V == SUBSET Columns
           n == s.num_slots
           m == [p \in X |-> p]
           F == [gp \in [X -> V] \X X |-> Slot(s, gp[1], gp[2])]
           v == {}
<1>1. /\ n \in Nat /\ v \in V /\ m \in [X -> 0 .. n]
      /\ \A p \in X : p \in Nat /\ m[p] = p
  BY SlotsType DEF Echelon, IsTable, Slots
<1>2. F \in [[X -> V] \X X -> V]
  BY DEF Slot
<1>3. \A g \in [X -> V], p \in X : F[<<g, p>>] = Slot(s, g, p)
  <2> HIDE DEF X, V
  <2> QED
    OBVIOUS
<1>4. ASSUME NEW p \in X, NEW g \in [X -> V], NEW h \in [X -> V],
             \A q \in X : m[q] > m[p] => g[q] = h[q]
      PROVE  Slot(s, g, p) = Slot(s, h, p)
  <2>1. ASSUME NEW q \in s.coeffs[p] \ {p} PROVE g[q] = h[q]
    <3>1. q \in X /\ p <= q /\ p # q
      BY DEF Echelon
    <3>2. m[q] > m[p]
      <4>1. p \in Nat /\ q \in Nat /\ m[p] = p /\ m[q] = q
        BY <1>1, <3>1
      <4> HIDE DEF m
      <4> QED
        BY <3>1, <4>1
    <3> QED
      BY <1>4, <3>1, <3>2
  <2>2. \A column : {q \in s.coeffs[p] \ {p} : column \in g[q]}
                        = {q \in s.coeffs[p] \ {p} : column \in h[q]}
    BY <2>1
  <2> QED
    BY <2>2 DEF Slot
<1> HIDE DEF m, F, n, X, V, v
<1>5. Measured(X, V, n, m, F)
  BY <1>1, <1>2, <1>3, <1>4 DEF Measured
<1>6. PICK f : Recurs(f, X, V, F)
  BY <1>1, <1>5, MeasuredRecursion
<1>7. f = [p \in X |-> f[p]] /\ \A p \in X : f[p] = Slot(s, f, p)
  BY <1>3, <1>6 DEF Recurs
<1>8. f = [p \in X |-> Slot(s, f, p)]
  BY <1>7
<1>9. f = [p \in 0 .. s.num_slots - 1 |->
            {column \in Columns :
                Odd(Cardinality({q \in s.coeffs[p] \ {p} : column \in f[q]})
                      + (IF column \in s.results[p] THEN 1 ELSE 0))}]
  BY <1>8 DEF Slot, X, Slots
<1> DEFINE sub == Substitution(s)
<1>10. sub = [p \in 0 .. s.num_slots - 1 |->
            {column \in Columns :
                Odd(Cardinality({q \in s.coeffs[p] \ {p} : column \in sub[q]})
                      + (IF column \in s.results[p] THEN 1 ELSE 0))}]
  BY <1>9 DEF Substitution
<1> HIDE DEF sub
<1>11. \A p \in 0 .. s.num_slots - 1 : sub[p] = Slot(s, sub, p)
  BY <1>10, Zenon DEF Slot
<1> QED
  BY <1>11, SubstitutedIs DEF Slots, sub

\* the slots solve the equation of every row
LEMMA RowSolved ==
    ASSUME NEW s, Echelon(s), NEW p \in Slots(s), s.coeffs[p] # {}, NEW column \in Columns
    PROVE  Parity(Substituted(s), s.coeffs[p], column) <=> column \in s.results[p]
<1> DEFINE f == Substituted(s)
           A == {q \in s.coeffs[p] \ {p} : column \in f[q]}
           B == {q \in s.coeffs[p] : column \in f[q]}
<1>1. column \in f[p] <=> Odd(Cardinality(A) + (IF column \in s.results[p] THEN 1 ELSE 0))
  BY SubstitutedUnfolds DEF Slot
<1>2. IsFiniteSet(s.coeffs[p]) /\ p \in s.coeffs[p]
  <2>1. IsFiniteSet(Slots(s)) /\ s.coeffs[p] \in SUBSET Slots(s) /\ p \in s.coeffs[p]
    BY SlotsType DEF Echelon, IsTable
  <2> QED
    BY <2>1, FS_Subset
<1>3. IsFiniteSet(A) /\ p \notin A /\ B = IF column \in f[p] THEN A \cup {p} ELSE A
  <2>1. A \in SUBSET s.coeffs[p] /\ p \notin A
    OBVIOUS
  <2>2. B = IF column \in f[p] THEN A \cup {p} ELSE A
    BY <1>2
  <2> HIDE DEF A, B
  <2> QED
    BY <1>2, <2>1, <2>2, FS_Subset
<1> HIDE DEF f, A, B
<1>4. /\ Cardinality(A) \in Nat
      /\ Cardinality(B) = IF column \in f[p] THEN Cardinality(A) + 1 ELSE Cardinality(A)
  BY <1>3, FS_AddElement, FS_CardinalityType
<1>5. /\ Odd(Cardinality(A) + 1) <=> ~Odd(Cardinality(A))
      /\ Cardinality(A) + 0 = Cardinality(A)
      /\ Odd(Cardinality(A)) \in BOOLEAN
  BY <1>4, OddSum
<1>6. Odd(Cardinality(B)) <=> column \in s.results[p]
  BY <1>1, <1>4, <1>5
<1> QED
  BY <1>6 DEF Parity, B, f

\* they solve every equation that vanishes
LEMMA VanishingSolved ==
    ASSUME NEW s, Echelon(s), NEW c \in SUBSET Slots(s), NEW v, Vanishes(s, c, v),
           NEW column \in Columns
    PROVE  Parity(Substituted(s), c, column) <=> column \in v
<1> DEFINE f == Substituted(s)
           red == Reduction(s)
           Is(d) == Parity(f, d, column) <=>
                        (Parity(f, red[d].coeffs, column) # (column \in red[d].sum))
           T == {d \in SUBSET Slots(s) : Is(d)}
<1>1. \A d \in SUBSET Slots(s) : IsFiniteSet(d)
  BY SlotsType, FS_Subset DEF Echelon, IsTable
<1>2. ASSUME NEW d \in SUBSET Slots(s), d = {} \/ s.coeffs[Min(d)] = {} PROVE d \in T
  <2>1. red[d].coeffs = d /\ red[d].sum = {}
    BY <1>2, ReductionStops DEF Stops
  <2>2. Parity(f, d, column) \in BOOLEAN
    BY <1>1, ParityBoolean
  <2> HIDE DEF red, f
  <2> QED
    BY <2>1, <2>2
<1>3. ASSUME NEW d \in SUBSET Slots(s), d # {}, s.coeffs[Min(d)] # {},
             SymDiff(d, s.coeffs[Min(d)]) \in T
      PROVE  d \in T
  <2> DEFINE e == Next1(s, d)
             r == s.coeffs[Min(d)]
  <2>1. Min(d) \in Slots(s) /\ r \in SUBSET Slots(s) /\ e = SymDiff(d, r)
    BY <1>3, RowAdds DEF Echelon, Next1
  <2>2. /\ red[d].coeffs = red[e].coeffs
        /\ red[d].sum = SymDiff(red[e].sum, s.results[Min(d)])
    BY <1>3, ReductionStep DEF Stops
  <2>3. Is(e)
    BY <1>3 DEF Next1
  <2>4. Parity(f, e, column) <=> (Parity(f, d, column) # Parity(f, r, column))
    BY <1>1, <2>1, ParitySum
  <2>5. Parity(f, r, column) <=> column \in s.results[Min(d)]
    BY <1>3, <2>1, RowSolved
  <2>6. /\ Parity(f, e, column) \in BOOLEAN /\ Parity(f, d, column) \in BOOLEAN
        /\ Parity(f, r, column) \in BOOLEAN /\ Parity(f, red[e].coeffs, column) \in BOOLEAN
    BY DEF Parity, Odd
  <2>7. column \in red[d].sum <=> ((column \in red[e].sum) # (column \in s.results[Min(d)]))
    BY <2>2 DEF SymDiff
  <2> HIDE DEF f, red, e, r
  <2> QED
    BY <2>2, <2>3, <2>4, <2>5, <2>6, <2>7
<1>4. SUBSET Slots(s) \subseteq T
  <2> HIDE DEF T
  <2> QED
    BY <1>2, <1>3, Elimination
<1>5. Parity(f, c, column) <=> (Parity(f, red[c].coeffs, column) # (column \in red[c].sum))
  BY <1>4
<1>6. red[c].coeffs = {} /\ v = red[c].sum
  BY VanishesIs, SymDiffVanishes
<1>7. ~Parity(f, {}, column)
  BY ParityEmpty
<1>8. Parity(f, c, column) \in BOOLEAN /\ Parity(f, {}, column) \in BOOLEAN
  BY <1>1, ParityBoolean
<1> HIDE DEF red, f, Is, T
<1>9. Parity(f, c, column) <=> (Parity(f, {}, column) # (column \in v))
  BY <1>5, <1>6
<1>10. Parity(f, c, column) <=> column \in v
  BY <1>7, <1>8, <1>9
<1> QED
  BY <1>10 DEF f

-----------------------------------------------------------------------------
(* Queries of one level. *)

\* the slots of E in a block with a bit in the column
InBlock(f, column, E, o, k) == {q \in E : column \in f[q] /\ o <= q /\ q < o + k}

\* M has the places of E in the block at o
PlacesOf(M, E, o, k) == \A m \in 0 .. k - 1 : m \in M <=> m + o \in E

\* the places of the block with a bit in the column
Hits(f, column, o, k) == {m \in 0 .. k - 1 : column \in f[m + o]}

LEMMA BlockCount ==
    ASSUME NEW k \in Nat, NEW o \in Nat, NEW E \in SUBSET Nat, NEW M, NEW f, NEW column,
           PlacesOf(M, E, o, k)
    PROVE  /\ IsFiniteSet(InBlock(f, column, E, o, k))
           /\ Cardinality(Hits(f, column, o, k) \cap M)
                  = Cardinality(InBlock(f, column, E, o, k))
<1> DEFINE A == Hits(f, column, o, k) \cap M
<1>1. A \in SUBSET Int /\ IsFiniteSet(A)
  <2>1. A \in SUBSET (0 .. k - 1)
    BY DEF Hits
  <2>2. IsFiniteSet(0 .. k - 1)
    BY FS_Interval
  <2>3. 0 .. k - 1 \subseteq Int
    OBVIOUS
  <2> HIDE DEF A
  <2>4. IsFiniteSet(A)
    BY <2>1, <2>2, FS_Subset
  <2> QED
    BY <2>1, <2>3, <2>4
<1>2. {m + o : m \in A} = InBlock(f, column, E, o, k)
  <2>1. ASSUME NEW m \in A PROVE m + o \in InBlock(f, column, E, o, k)
    BY DEF InBlock, Hits, PlacesOf
  <2>2. ASSUME NEW q \in InBlock(f, column, E, o, k) PROVE \E m \in A : q = m + o
    <3>1. q \in Nat /\ q \in E /\ column \in f[q] /\ o <= q /\ q < o + k
      BY DEF InBlock
    <3> DEFINE m == q - o
    <3>2. m \in 0 .. k - 1 /\ m + o = q
      BY <3>1
    <3> HIDE DEF m
    <3>3. m \in A
      BY <3>1, <3>2 DEF Hits, PlacesOf
    <3> QED
      BY <3>2, <3>3
  <2> HIDE DEF A
  <2> QED
    BY <2>1, <2>2
<1> DEFINE B == InBlock(f, column, E, o, k)
<1> HIDE DEF A, B
<1>3. /\ IsFiniteSet({m + o : m \in A})
      /\ Cardinality({m + o : m \in A}) = Cardinality(A)
  <2>1. o \in Int
    OBVIOUS
  <2> QED
    BY <1>1, <2>1, Shifted
<1>4. {m + o : m \in A} = B
  BY <1>2 DEF B
<1> QED
  BY <1>3, <1>4 DEF A, B

\* coefficients of an item in the block of its start, and in the next
LeftPart(cr, b, k) == {j + b : j \in cr} \cap (0 .. k - 1)
RightPart(cr, b, k) == {j - (k - b) : j \in cr} \cap Nat

\* where the coefficients of an item lie: in the block of its start or in the next
LEMMA TwoBlocks ==
    ASSUME NEW k \in Nat \ {0}, NEW o \in Nat, NEW b \in 0 .. k - 1,
           NEW cr \in SUBSET (0 .. k - 1), NEW E, \A q : q \in E <=> \E j \in cr : q = (o + b) + j
    PROVE  /\ E \in SUBSET Nat
           /\ \A q \in E : /\ o <= q /\ q < o + k + k
                           /\ b = 0 => q < o + k
           /\ PlacesOf(LeftPart(cr, b, k), E, o, k)
           /\ PlacesOf(RightPart(cr, b, k), E, o + k, k)
<1>1. ASSUME NEW m \in 0 .. k - 1
      PROVE  m \in LeftPart(cr, b, k) <=> m + o \in E
  <2>1. ASSUME NEW j \in cr PROVE m = j + b <=> m + o = (o + b) + j
    OBVIOUS
  <2> QED
    BY <2>1 DEF LeftPart
<1>2. ASSUME NEW m \in 0 .. k - 1
      PROVE  m \in RightPart(cr, b, k) <=> m + (o + k) \in E
  <2>1. ASSUME NEW j \in cr PROVE m = j - (k - b) <=> m + (o + k) = (o + b) + j
    OBVIOUS
  <2> QED
    BY <2>1 DEF RightPart
<1>3. ASSUME NEW j \in cr
      PROVE  /\ (o + b) + j \in Nat /\ o <= (o + b) + j /\ (o + b) + j < o + k + k
             /\ b = 0 => (o + b) + j < o + k
  OBVIOUS
<1> QED
  BY <1>1, <1>2, <1>3 DEF PlacesOf

LEMMA SolvedIs ==
    ASSUME NEW l \in Levels, NEW x \in Given(l), hasher[l] \in [Given(l) -> Hash],
           Geometry(storage[l])
    PROVE  Solved(l, x) = {column \in Columns : Parity(solution[l], Equation(l, x), column)}
<1> DEFINE k == kCoeffBits
           start == GetStart(l, x)
           b == start % k
           block == start \div k
           o == block * k
           cr == hasher[l][x].coeffs
           left == LeftPart(cr, b, k)
           right == RightPart(cr, b, k)
           f == solution[l]
           E == Equation(l, x)
<1>1. k \in Nat \ {0} /\ start \in Nat /\ cr \in SUBSET (0 .. k - 1)
  <2>1. k \in Nat \ {0} /\ start \in 0 .. storage[l].num_slots - kCoeffBits
    BY StartInRange, RibbonAssumption
  <2>2. cr \in SUBSET (0 .. k - 1)
    BY DEF Hash
  <2> HIDE DEF start, cr
  <2> QED
    BY <2>1, <2>2
<1>2. /\ block \in Nat /\ b \in 0 .. k - 1 /\ start = k * block + b
  <2> HIDE DEF start, k
  <2>1. start \in Int /\ start >= 0
    BY <1>1
  <2>2. /\ start \div k \in Int /\ start % k \in 0 .. k - 1
        /\ start = k * (start \div k) + (start % k) /\ start \div k >= 0
    BY <1>1, <2>1, IntDivision
  <2> QED
    BY <2>2
<1>3. E = {start + j : j \in cr}
  BY DEF Equation
<1>4. Solved(l, x) = {column \in Columns : Odd(
            Cardinality(Segment(l, block, column) \cap left) +
            (IF b = 0 THEN 0 ELSE Cardinality(Segment(l, block + 1, column) \cap right)))}
  BY DEF Solved, LeftPart, RightPart
<1>5. \A column : /\ Segment(l, block, column) = {m \in 0 .. k - 1 : column \in f[block * k + m]}
                  /\ Segment(l, block + 1, column)
                        = {m \in 0 .. k - 1 : column \in f[(block + 1) * k + m]}
  BY DEF Segment
<1> HIDE DEF k, start, b, block, cr, f, E
<1>6. o \in Nat /\ start = o + b /\ o + k \in Nat
  BY <1>1, <1>2
<1>7. ASSUME NEW m \in 0 .. k - 1
      PROVE  block * k + m = m + o /\ (block + 1) * k + m = m + (o + k)
  BY <1>1, <1>2
<1>8. \A column : /\ Segment(l, block, column) = Hits(f, column, o, k)
                  /\ Segment(l, block + 1, column) = Hits(f, column, o + k, k)
  <2> HIDE DEF o
  <2> QED
    BY <1>5, <1>7 DEF Hits
<1>9. E = {o + b + j : j \in cr}
  BY <1>3, <1>6
<1> HIDE DEF o
<1>10. /\ E \in SUBSET Nat
       /\ \A q \in E : /\ o <= q /\ q < o + k + k
                       /\ b = 0 => q < o + k
       /\ PlacesOf(left, E, o, k) /\ PlacesOf(right, E, o + k, k)
  <2>1. \A q : q \in E <=> \E j \in cr : q = (o + b) + j
    BY <1>9
  <2>2. k \in Nat \ {0} /\ o \in Nat /\ b \in 0 .. k - 1 /\ cr \in SUBSET (0 .. k - 1)
    BY <1>1, <1>2, <1>6
  <2> QED
    BY <2>1, <2>2, TwoBlocks
<1> HIDE DEF left, right
<1>11. ASSUME NEW column
       PROVE  Odd(Cardinality(Segment(l, block, column) \cap left) +
                  (IF b = 0 THEN 0 ELSE Cardinality(Segment(l, block + 1, column) \cap right)))
                <=> Parity(f, E, column)
  <2> DEFINE A == InBlock(f, column, E, o, k)
             B == InBlock(f, column, E, o + k, k)
             Q == {q \in E : column \in f[q]}
  <2>1. IsFiniteSet(A) /\ Cardinality(Segment(l, block, column) \cap left) = Cardinality(A)
    BY <1>1, <1>6, <1>8, <1>10, BlockCount
  <2>2. IsFiniteSet(B) /\ Cardinality(Segment(l, block + 1, column) \cap right) = Cardinality(B)
    BY <1>1, <1>6, <1>8, <1>10, BlockCount
  <2>3. Q = A \cup B /\ A \cap B = {} /\ (b = 0 => B = {})
    <3>1. ASSUME NEW q \in E PROVE /\ o <= q
                                   /\ q < o + k <=> ~(o + k <= q)
                                   /\ q < o + k + k
                                   /\ b = 0 => q < o + k
      BY <1>1, <1>6, <1>10
    <3> QED
      BY <3>1 DEF InBlock
  <2> HIDE DEF A, B, Q
  <2>4. Cardinality(Q) = Cardinality(A) + Cardinality(B)
    <3>1. Cardinality(Q) = Cardinality(A) + Cardinality(B) - Cardinality({})
      BY <2>1, <2>2, <2>3, FS_Union
    <3> QED
      BY <2>1, <2>2, <3>1, FS_EmptySet, FS_CardinalityType
  <2>5. b = 0 => Cardinality(B) = 0
    BY <2>3, FS_EmptySet
  <2>6. Cardinality(Segment(l, block, column) \cap left) +
            (IF b = 0 THEN 0 ELSE Cardinality(Segment(l, block + 1, column) \cap right))
          = Cardinality(Q)
    BY <2>1, <2>2, <2>4, <2>5
  <2> QED
    BY <2>6 DEF Parity, Q
<1>12. Solved(l, x) = {column \in Columns : Parity(f, E, column)}
  BY <1>4, <1>11
<1> QED
  BY <1>12 DEF f, E

-----------------------------------------------------------------------------
(* The rows, and what solves them, from the first state to the last. *)

LEMMA InitRows == Init => RowsInv
<1> SUFFICES ASSUME Init PROVE RowsInv
  OBVIOUS
<1>1. /\ 0 \in Levels /\ level = 0 /\ IsFiniteSet(data) /\ pending = data /\ bumped = {}
      /\ scan = NewScan
      /\ pc = IF data = {} THEN "solve" ELSE "insert"
      /\ storage = [l \in Levels |-> IF l = 0 /\ data # {}
                                     THEN Prepared(Cardinality(data)) ELSE Empty]
  <2>1. /\ level = 0 /\ pending = data /\ bumped = {} /\ scan = NewScan /\ data \in ItemSets
        /\ pc = IF data = {} THEN "solve" ELSE "insert"
        /\ storage = [l \in Levels |-> IF l = 0 /\ data # {}
                                       THEN Prepared(Cardinality(data)) ELSE Empty]
    BY DEF Init
  <2>2. 0 \in Levels
    BY RibbonAssumption DEF Levels
  <2> QED
    BY <2>1, <2>2, ItemsAssumption
<1>2. PICK f \in HashFunctions(0, data) :
          hasher = [l \in Levels |-> IF l = 0 THEN f ELSE <<>>]
  BY DEF Init
<1>3. f \in [data -> Hash]
  BY <1>1, ItemsAssumption DEF Init
<1>4. Given(0) = data /\ \A l : l # 0 => Given(l) = {}
  BY <1>1, <1>2, <1>3, NoHashes DEF Given
<1>5. \A l \in Levels : l + 1 # 0
  BY RibbonAssumption DEF Levels
<1>6. ASSUME data # {} PROVE Echelon(storage[0]) /\ Blocks(0)
  <2>1. Cardinality(data) \in Nat \ {0}
    BY <1>1, <1>6, FS_CardinalityType, FS_EmptySet
  <2>2. storage[0] = Prepared(Cardinality(data))
    BY <1>1, <1>6
  <2> QED
    BY <2>1, <2>2, PreparedRows DEF Blocks
<1>7. KeptWithout({}) /\ KeptWithout(scan.bump_cache) /\ KeptWithout(scan.unc_bump_cache)
  BY <1>1, <1>4 DEF KeptWithout, Settled, Done
<1>8. \A l \in Levels : ~ (l < level)
  BY <1>1, RibbonAssumption DEF Levels
<1>9. Given(0) = data /\ \A l \in Levels : Given(l + 1) \subseteq Given(l)
  BY <1>4, <1>5
<1>10. \A l \in Levels : Given(l) # {} => Blocks(l)
  BY <1>4, <1>6
<1>11. CASE data = {}
  <2>1. \A l \in Levels : Given(l) = {}
    BY <1>4, <1>11
  <2> QED
    BY <1>1, <1>8, <1>9, <1>11, <2>1 DEF RowsInv
<1>12. CASE data # {}
  BY <1>1, <1>6, <1>7, <1>8, <1>9, <1>10, <1>12 DEF RowsInv
<1> QED
  BY <1>11, <1>12

\* steps that change neither a level nor the insertion
LEMMA SameRowsStep ==
    ASSUME RowsInv, data' = data, pc' = pc, level' = level, hasher' = hasher,
           storage' = storage, pending' = pending, bumped' = bumped, scan' = scan,
           solution' = solution
    PROVE  RowsInv'
<1>1. /\ \A l : Given(l)' = Given(l)
      /\ \A l, x : Equation(l, x)' = Equation(l, x)
      /\ \A l : (Blocks(l))' <=> Blocks(l)
  BY DEF Given, Equation, GetStart, NumStarts, Blocks
<1>2. \A l, x : Solved(l, x)' = Solved(l, x)
  BY DEF Solved, GetStart, NumStarts, Segment
<1>3. \A l : Equations(l) => Equations(l)'
  BY <1>1 DEF Equations
<1>4. \A l : Solves(l) => Solves(l)'
  BY <1>1, <1>2 DEF Solves
<1>5. ASSUME NEW c, KeptWithout(c) PROVE KeptWithout(c)'
  <2>1. Settled(c)' = Settled(c)
    BY <1>1 DEF Settled, Done
  <2> QED
    BY <1>1, <1>5, <2>1 DEF KeptWithout
<1>6. /\ KeptWithout({}) => KeptWithout({})'
      /\ KeptWithout(scan.bump_cache) => KeptWithout(scan.bump_cache)'
      /\ KeptWithout(scan.unc_bump_cache) => KeptWithout(scan.unc_bump_cache)'
  BY <1>5
<1> QED
  BY <1>1, <1>3, <1>4, <1>6 DEF RowsInv

\* what a query reads of a level are parities of slots
LevelParities(l) ==
    \A x \in Given(l) :
        Solved(l, x) = {column \in Columns : Parity(solution[l], Equation(l, x), column)}

Readable == \A l \in Levels : hasher[l] \in [Given(l) -> Hash] /\ Geometry(storage[l])
                                  => LevelParities(l)

LEMMA AllReadable == Readable
  BY SolvedIs DEF Readable, LevelParities

LEMMA AllReadableNext == Readable'
  BY AllReadable, PTL

LEMMA BackSubstRows ==
    ASSUME IInv, IInv', RowsInv, Solutions, BackSubst
    PROVE  RowsInv'
<1> DEFINE s == storage[level]
           t == [s EXCEPT !.coeffs = <<>>, !.results = <<>>]
<1>1. PICK cur \in Levels : cur = level
  BY DEF IInv, Types
<1>2. /\ pc = "solve" /\ data' = data /\ hasher' = hasher /\ pending' = pending
      /\ Types /\ Types' /\ StorageRecord(s) /\ depth \in Nat \ {0}
  BY RibbonAssumption DEF BackSubst, IInv, Types
<1>3. IF cur < depth THEN level' = cur + 1 /\ pc' = "solve"
      ELSE pc' = "ready" /\ level' = cur
  BY <1>1, <1>2 DEF BackSubst
<1>4. StorageRecord(t) /\ t.num_slots = s.num_slots /\ t.meta = s.meta
  <2> HIDE DEF s
  <2> QED
    BY <1>2, DroppedRows
<1>5. IF s.num_slots = 0 THEN solution' = solution /\ storage' = storage
      ELSE /\ solution' = [solution EXCEPT ![cur] = Substituted(s)]
           /\ storage' = [storage EXCEPT ![cur] = t]
  BY <1>1 DEF BackSubst
<1> HIDE DEF s, t
<1>6. /\ \A l \in Levels : /\ storage'[l].num_slots = storage[l].num_slots
                           /\ storage'[l].meta = storage[l].meta
      /\ \A l \in Levels : l # cur => storage'[l] = storage[l] /\ solution'[l] = solution[l]
      /\ s.num_slots # 0 => solution'[cur] = Substituted(s)
  BY <1>1, <1>2, <1>4, <1>5 DEF Types, Solutions, s
<1>7. \A l : Given(l)' = Given(l)
  BY <1>2 DEF Given
<1>8. ASSUME NEW l \in Levels, NEW x PROVE Equation(l, x)' = Equation(l, x)
  BY <1>2, <1>6 DEF Equation, GetStart, NumStarts
<1>9. /\ Given(0)' = data' /\ \A l \in Levels : Given(l + 1)' \subseteq Given(l)'
      /\ \A l \in Levels : Given(l)' # {} => Blocks(l)'
  <2>1. \A l \in Levels : Blocks(l) => Blocks(l)'
    BY <1>6 DEF Blocks, Geometry
  <2> QED
    BY <1>2, <1>7, <2>1 DEF RowsInv
<1>10. ASSUME NEW l \in Levels, l # cur, Equations(l) PROVE Equations(l)'
  BY <1>6, <1>7, <1>8, <1>10 DEF Equations
<1>11. ASSUME NEW l \in Levels, l # cur, Solves(l) PROVE Solves(l)'
  <2>1. storage'[l] = storage[l] /\ solution'[l] = solution[l]
    BY <1>6, <1>11
  <2>2. \A x : Solved(l, x)' = Solved(l, x)
    BY <1>2, <2>1 DEF Solved, GetStart, NumStarts, Segment
  <2> QED
    BY <1>7, <1>11, <2>2 DEF Solves
<1>12. Solves(cur)'
  <2> SUFFICES ASSUME NEW x \in Given(cur) \ Given(cur + 1)
               PROVE  Solved(cur, x)' = Value(x)
    BY <1>7 DEF Solves
  <2>1. Blocks(cur) /\ Equations(cur)
    BY <1>1, <1>2, RibbonAssumption DEF RowsInv, Levels
  <2>2. /\ Echelon(s) /\ Vanishes(s, Equation(cur, x), Value(x))
        /\ Geometry(s) /\ hasher[cur] \in [Given(cur) -> Hash]
    BY <1>1, <1>2, <2>1 DEF Equations, Blocks, Types, s
  <2>3. Equation(cur, x) \in SUBSET Slots(s)
    BY <1>1, <2>2, EquationType DEF s
  <2>4. s.num_slots # 0
    BY <2>2, RibbonAssumption DEF Geometry
  <2>5. Solved(cur, x)'
            = {column \in Columns : Parity(Substituted(s), Equation(cur, x), column)}
    <3>1. LevelParities(cur)'
      <4>1. hasher'[cur] \in [Given(cur)' -> Hash] /\ Geometry(storage'[cur])
        BY <1>2, <1>9, <1>7 DEF Types, Blocks
      <4> QED
        BY <4>1, AllReadableNext DEF Readable
    <3>2. Solved(cur, x)'
              = {column \in Columns : Parity(solution'[cur], Equation(cur, x)', column)}
      BY <1>7, <3>1 DEF LevelParities
    <3> QED
      BY <1>6, <1>8, <2>4, <3>2
  <2>6. \A column \in Columns : Parity(Substituted(s), Equation(cur, x), column)
                                    <=> column \in Value(x)
    BY <2>2, <2>3, VanishingSolved
  <2>7. Value(x) \subseteq Columns
    BY <1>2, ValuesAssumption DEF Types
  <2> QED
    BY <2>5, <2>6, <2>7
<1>13. /\ \A l \in Levels : l >= cur /\ Given(l) # {} => Equations(l)
       /\ \A l \in Levels : l < cur => Solves(l)
  BY <1>1, <1>2 DEF RowsInv
<1>14. CASE cur < depth
  <2>1. \A l \in Levels : l >= cur + 1 => l >= cur /\ l # cur
    BY <1>1 DEF Levels
  <2>2. \A l \in Levels : l < cur + 1 => l = cur \/ (l < cur /\ l # cur)
    BY <1>1 DEF Levels
  <2>3. \A l \in Levels : l >= cur + 1 /\ Given(l)' # {} => Equations(l)'
    BY <1>7, <1>10, <1>13, <2>1
  <2>4. \A l \in Levels : l < cur + 1 => Solves(l)'
    BY <1>11, <1>12, <1>13, <2>2
  <2> QED
    BY <1>3, <1>9, <1>14, <2>3, <2>4 DEF RowsInv
<1>15. CASE ~(cur < depth)
  <2>1. \A l \in Levels : l = cur \/ (l < cur /\ l # cur)
    BY <1>1, <1>2, <1>15 DEF Levels
  <2>2. \A l \in Levels : Solves(l)'
    BY <1>11, <1>12, <1>13, <2>1
  <2> QED
    BY <1>3, <1>9, <1>15, <2>2 DEF RowsInv
<1> QED
  BY <1>14, <1>15

LEMMA SolutionsStep ==
    ASSUME IInv, Solutions, [Next]_vars
    PROVE  Solutions'
<1>1. solution' = solution \/ solution' = [solution EXCEPT ![level] = Substituted(storage[level])]
  BY DEF Next, Constructor, HardBump, AddItem, FirstFailure, Retry, FinishRange, BackSubst,
         Query, vars
<1> QED
  BY <1>1 DEF Solutions

(***************************************************************************)
(* What a level keeps while it is filled, its rows give back: their        *)
(* equations vanish against the rows, also without those that a failure in *)
(* the current bucket would empty, and against the solved slots every      *)
(* equation has its value.                                                 *)
(***************************************************************************)
THEOREM RowsInvariance == Spec => [](RowsInv /\ Solutions)
<1>1. Init => RowsInv /\ Solutions
  BY InitRows DEF Init, Solutions
<1>2. RowsInv /\ Solutions /\ IInv /\ IInv' /\ [Next]_vars => RowsInv' /\ Solutions'
  <2> SUFFICES ASSUME RowsInv, Solutions, IInv, IInv', [Next]_vars PROVE RowsInv' /\ Solutions'
    OBVIOUS
  <2>1. ASSUME NEW x \in data, HardBump(x) PROVE RowsInv'
    BY <2>1, HardBumpRows
  <2>2. ASSUME NEW x \in data, AddItem(x) PROVE RowsInv'
    BY <2>2, AddItemRows
  <2>3. ASSUME NEW x \in data, FirstFailure(x) PROVE RowsInv'
    BY <2>3, FirstFailureRows
  <2>4. ASSUME NEW x \in data, Retry(x) PROVE RowsInv'
    BY <2>4, RetryRows
  <2>5. ASSUME FinishRange PROVE RowsInv'
    BY <2>5, FinishRangeRows
  <2>6. ASSUME BackSubst PROVE RowsInv'
    BY <2>6, BackSubstRows
  <2>7. ASSUME Query PROVE RowsInv'
    BY <2>7, SameRowsStep DEF Query
  <2>8. ASSUME UNCHANGED vars PROVE RowsInv'
    BY <2>8, SameRowsStep DEF vars
  <2>9. RowsInv'
    BY <2>1, <2>2, <2>3, <2>4, <2>5, <2>6, <2>7, <2>8 DEF Next, Constructor
  <2> QED
    BY <2>9, SolutionsStep
<1> QED
  BY <1>1, <1>2, Invariance, PTL DEF Spec

(***************************************************************************)
(* An item bumped together with later ones of its position takes no row    *)
(* with it that an earlier equation needs: the rows hold the equation of   *)
(* every item the level keeps, for all sizes, values, items and hashes.    *)
(***************************************************************************)
THEOREM EquationsKeptTheorem == Spec => []EquationsKept
<1>1. IInv /\ RowsInv => EquationsKept
  <2> SUFFICES ASSUME IInv, RowsInv, pc = "insert",
                      NEW x \in Given(level) \ (pending \cup bumped)
               PROVE  Vanishes(storage[level], Equation(level, x), Value(x))
    BY DEF EquationsKept, Vanishes
  <2>1. x \in Settled({})
    BY NoneCached DEF Settled, Done
  <2>2. Vanishes(Cleared(storage[level], {}), Equation(level, x), Value(x))
    BY <2>1 DEF RowsInv, KeptWithout
  <2> QED
    BY <2>2, Filling, NoneCleared, SameReduce
<1> QED
  BY <1>1, Invariance, RowsInvariance, PTL

-----------------------------------------------------------------------------
(* Queries down the levels. *)

AnswerOf(f, l, x) ==
    IF storage[l].num_slots = 0 \/ x \notin DOMAIN hasher[l] THEN NoAnswer
    ELSE IF ~CheckBumped(l, x) THEN Solved(l, x)
    ELSE IF l < depth THEN f[l + 1] ELSE {}

Answers(x) ==
    CHOOSE f : f = [l \in Levels |->
        IF storage[l].num_slots = 0 \/ x \notin DOMAIN hasher[l] THEN NoAnswer
        ELSE IF ~CheckBumped(l, x) THEN Solved(l, x)
        ELSE IF l < depth THEN f[l + 1] ELSE {}]

LEMMA QueryIs == ASSUME NEW x PROVE QueryRetrieval(x) = Answers(x)[0]
  BY DEF QueryRetrieval, Answers

LEMMA AnswersUnfold ==
    ASSUME NEW x
    PROVE  \A l \in Levels : Answers(x)[l] = AnswerOf(Answers(x), l, x)
<1> DEFINE V == {NoAnswer} \cup SUBSET Columns
           m == [l \in Levels |-> l]
           F == [gl \in [Levels -> V] \X Levels |-> AnswerOf(gl[1], gl[2], x)]
<1>1. depth \in Nat /\ {} \in V /\ m \in [Levels -> 0 .. depth]
      /\ \A l \in Levels : m[l] = l /\ l \in Nat
  BY RibbonAssumption DEF Levels
<1>2. ASSUME NEW g \in [Levels -> V], NEW l \in Levels PROVE AnswerOf(g, l, x) \in V
  <2>1. Solved(l, x) \in SUBSET Columns
    BY DEF Solved
  <2>2. l < depth => g[l + 1] \in V
    <3>1. l < depth => l + 1 \in Levels
      BY <1>1 DEF Levels
    <3> HIDE DEF V
    <3> QED
      BY <3>1
  <2> QED
    BY <2>1, <2>2 DEF AnswerOf
<1>3. F \in [[Levels -> V] \X Levels -> V]
  <2> HIDE DEF V
  <2> QED
    BY <1>2
<1>4. \A g \in [Levels -> V], l \in Levels : F[<<g, l>>] = AnswerOf(g, l, x)
  <2> HIDE DEF V
  <2> QED
    OBVIOUS
<1>5. ASSUME NEW l \in Levels, NEW g \in [Levels -> V], NEW h \in [Levels -> V],
             \A k \in Levels : m[k] > m[l] => g[k] = h[k]
      PROVE  AnswerOf(g, l, x) = AnswerOf(h, l, x)
  <2>1. ASSUME l < depth PROVE g[l + 1] = h[l + 1]
    <3>1. l + 1 \in Levels /\ m[l + 1] > m[l]
      BY <1>1, <2>1 DEF Levels
    <3> HIDE DEF m, V
    <3> QED
      BY <1>5, <3>1
  <2> QED
    BY <2>1 DEF AnswerOf
<1> HIDE DEF m, F, V
<1>6. Measured(Levels, V, depth, m, F)
  BY <1>1, <1>3, <1>4, <1>5 DEF Measured
<1>7. PICK f : Recurs(f, Levels, V, F)
  BY <1>1, <1>6, MeasuredRecursion
<1>8. f = [l \in Levels |-> f[l]] /\ \A l \in Levels : f[l] = AnswerOf(f, l, x)
  BY <1>4, <1>7 DEF Recurs
<1>9. f = [l \in Levels |->
        IF storage[l].num_slots = 0 \/ x \notin DOMAIN hasher[l] THEN NoAnswer
        ELSE IF ~CheckBumped(l, x) THEN Solved(l, x)
        ELSE IF l < depth THEN f[l + 1] ELSE {}]
  BY <1>8 DEF AnswerOf
<1> DEFINE all == Answers(x)
<1>10. all = [l \in Levels |->
        IF storage[l].num_slots = 0 \/ x \notin DOMAIN hasher[l] THEN NoAnswer
        ELSE IF ~CheckBumped(l, x) THEN Solved(l, x)
        ELSE IF l < depth THEN all[l + 1] ELSE {}]
  BY <1>9 DEF Answers
<1> HIDE DEF all
<1>11. \A l \in Levels : all[l] = AnswerOf(all, l, x)
  BY <1>10, Zenon DEF AnswerOf
<1> QED
  BY <1>11 DEF all

(***************************************************************************)
(* A query goes down the levels to the one that keeps the key, and the two *)
(* blocks it reads there add up to the value of the key: the finished      *)
(* table is right for all sizes, values, items and hashes.                 *)
(***************************************************************************)
THEOREM ValuesRetrievedTheorem == Spec => []ValuesRetrieved
<1>1. IInv /\ RowsInv => ValuesRetrieved
  <2> SUFFICES ASSUME IInv, RowsInv, pc = "ready", NEW x \in data
               PROVE  QueryRetrieval(x) = Value(x)
    BY DEF ValuesRetrieved
  <2> DEFINE f == Answers(x)
             S == {l \in Levels : x \in Given(l) => f[l] = Value(x)}
  <2>1. ASSUME NEW l \in Levels, x \in Given(l),
               x \in Given(l + 1) => l + 1 \in S
        PROVE  f[l] = Value(x)
    <3>1. storage[l].num_slots # 0 /\ x \in DOMAIN hasher[l]
      <4>1. Blocks(l) /\ hasher[l] \in [Given(l) -> Hash]
        BY <2>1 DEF RowsInv, IInv, Types
      <4> QED
        BY <2>1, <4>1, RibbonAssumption DEF Blocks, Geometry
    <3>2. CheckBumped(l, x) <=> x \in Given(l + 1)
      BY <2>1 DEF IInv, LevelAgrees
    <3>3. x \notin Given(l + 1) => Solved(l, x) = Value(x)
      BY <2>1 DEF RowsInv, Solves
    <3>4. x \in Given(l + 1) => l < depth
      BY RibbonAssumption DEF Given, Levels
    <3>5. f[l] = AnswerOf(f, l, x)
      BY AnswersUnfold
    <3>6. x \in Given(l + 1) => f[l + 1] = Value(x)
      BY <2>1
    <3> HIDE DEF f
    <3> QED
      BY <3>1, <3>2, <3>3, <3>4, <3>5, <3>6 DEF AnswerOf
  <2>2. depth \in Nat /\ Levels = 0 .. depth
    BY RibbonAssumption DEF Levels
  <2>3. depth \in S
    <3>1. Given(depth + 1) = {} /\ depth \in Levels
      BY <2>2 DEF Given
    <3> HIDE DEF f
    <3> QED
      BY <2>1, <3>1
  <2>4. \A l \in 0 .. depth - 1 : l + 1 \in S => l \in S
    <3>1. \A l \in 0 .. depth - 1 : l \in Levels
      BY <2>2
    <3> HIDE DEF f
    <3> QED
      BY <2>1, <3>1
  <2>5. 0 \in S
    <3> HIDE DEF S
    <3>1. 0 .. depth \subseteq S
      BY <2>2, <2>3, <2>4, DownTo
    <3> QED
      BY <2>2, <3>1
  <2>6. x \in Given(0)
    BY DEF RowsInv
  <2> QED
    BY <2>5, <2>6, QueryIs
<1> QED
  BY <1>1, Invariance, RowsInvariance, PTL
=============================================================================
