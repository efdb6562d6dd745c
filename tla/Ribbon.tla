-------------------------------- MODULE Ribbon --------------------------------
(***************************************************************************)
(* SimpleRibbon (extlib/simpleRibbon): one retrieval table, a bumped       *)
(* ribbon (ribbon_filter) with one-bit thresholds and interleaved storage. *)
(* Level 0 holds what it can of the items, an item that does not fit is    *)
(* bumped to the next level, and the last one, the base, grows until       *)
(* everything fits.  An item is an equation over GF(2): the sum of the     *)
(* slots its hash selects is its value.  Insertion keeps the equations in  *)
(* echelon form, back substitution solves them, a query adds up slots.     *)
(*                                                                         *)
(* Rows of bits are sets: a coefficient row is the set of its slots, a     *)
(* value the set of its columns, and addition is symmetric difference.     *)
(* Rows are equally wide on all levels, as they are with the 64 bits used; *)
(* numbers of slots are exact where the code multiplies doubles.           *)
(***************************************************************************)
EXTENDS Integers, FiniteSets, FiniteSetsExt

CONSTANTS ItemSets,        \* the sets of keys a table is built for
          Columns, Value(_),   \* the bits of a value, and the value of a key
          kCoeffBits,      \* width of a coefficient row
          kBucketSize,     \* starts per bucket
          thresh_,         \* first position in a bucket with a stored bit
          depth,           \* number of the base level
          HashRange,       \* number of hash values
          HashFunctions(_, _), \* what the hash function of a level may be
          SlotsPerItem,    \* slots_per_item_, in thousandths
          Growth,          \* what a retry adds to base_slots_per_item_, likewise
          NoAnswer

Levels == 0 .. depth
Hash == [h : 0 .. HashRange - 1, coeffs : SUBSET (0 .. kCoeffBits - 1)]
NoBumpThresh == 1

ASSUME RibbonAssumption ==
    /\ kCoeffBits \in Nat \ {0} /\ kBucketSize \in Nat \ {0}
    /\ HashRange \in Nat \ {0} /\ Growth \in Nat \ {0}
    /\ SlotsPerItem \in 1 .. 1000
    /\ thresh_ \in 0 .. kBucketSize
    /\ depth \in Nat \ {0}

ASSUME ItemsAssumption ==
    \A items \in ItemSets :
        /\ IsFiniteSet(items)
        /\ \A l \in Levels : \A S \in SUBSET items : HashFunctions(l, S) \subseteq [S -> Hash]

ASSUME ValuesAssumption ==
    \A items \in ItemSets : \A x \in items : Value(x) \subseteq Columns

VARIABLES data,
          pc, level,
          hasher,        \* per level, the hashes of the items it was given
          storage,       \* per level: slots, rows, thresholds
          pending,       \* items of the level still to be inserted
          scan,          \* the locals of BandingAddRange
          bumped,        \* bump_vec: items left to the next level
          base,          \* orig_num_slots_ and base_slots_per_item_
          solution,      \* per level, the solved slots
          answer

vars == <<data, pc, level, hasher, storage, pending, scan, bumped, base,
          solution, answer>>

-----------------------------------------------------------------------------
(* Storage of one level. *)

Empty == [num_slots |-> 0, coeffs |-> <<>>, results |-> <<>>, meta |-> <<>>,
          plus |-> {}]

NumStarts(s) == s.num_slots - kCoeffBits + 1

\* rounded up to whole blocks for the interleaved solution
Prepared(n) ==
    LET slots == ((n + kCoeffBits - 1) \div kCoeffBits) * kCoeffBits
        buckets == (slots - kCoeffBits + kBucketSize) \div kBucketSize
    IN  [num_slots |-> slots,
         coeffs |-> [p \in 0 .. slots - 1 |-> {}],
         results |-> [p \in 0 .. slots - 1 |-> {}],
         meta |-> [b \in 0 .. buckets - 1 |-> 0],
         plus |-> {}]

(* Where an item goes. *)

GetStart(l, x) == (hasher[l][x].h * NumStarts(storage[l])) \div HashRange
GetBucket(l, x) == GetStart(l, x) \div kBucketSize
GetIntraBucket(l, x) == kBucketSize - 1 - (GetStart(l, x) % kBucketSize)

\* buckets in order, the starts of each in reverse
StartToSort(l, x) == GetBucket(l, x) * kBucketSize + GetIntraBucket(l, x)

\* 0: its bucket's stored bit decides, 2: the threshold in the hash table
Compress(val) == IF val >= kBucketSize THEN 1 ELSE IF val >= thresh_ THEN 0 ELSE 2

Equation(l, x) == {GetStart(l, x) + k : k \in hasher[l][x].coeffs}

\* variant that adds up the rows but not their results
ReduceRowsOnly(s, coeffs, result) ==
    LET f[c \in SUBSET (0 .. s.num_slots - 1)] ==
            IF c = {} \/ s.coeffs[Min(c)] = {} THEN c
            ELSE f[SymDiff(c, s.coeffs[Min(c)])]
    IN  [coeffs |-> f[coeffs], result |-> result]

(***************************************************************************)
(* The elimination of BandingAdd: the row of the leading slot is added     *)
(* until that slot is free or nothing is left.                             *)
(***************************************************************************)
Reduce(s, coeffs, result) ==
    LET f[c \in SUBSET (0 .. s.num_slots - 1)] ==
            IF c = {} \/ s.coeffs[Min(c)] = {}
            THEN [coeffs |-> c, sum |-> {}]
            ELSE LET rest == f[SymDiff(c, s.coeffs[Min(c)])]
                 IN  [rest EXCEPT !.sum = SymDiff(@, s.results[Min(c)])]
    IN  [coeffs |-> f[coeffs].coeffs, result |-> SymDiff(result, f[coeffs].sum)]

-----------------------------------------------------------------------------
(* Queries. *)

\* hasher.Get, by hash table or search: the threshold stored for a bucket
GetPlus(s, b) ==
    LET stored == {v \in 0 .. kBucketSize : <<b, v>> \in s.plus}
    IN  IF stored = {} THEN kBucketSize ELSE CHOOSE v \in stored : TRUE

\* variant that still looks for items at the threshold
CheckBumpedAbove(l, x) ==
    LET s == storage[l]
        val == GetIntraBucket(l, x)
    IN  IF Compress(val) = 2 THEN val > GetPlus(s, GetBucket(l, x))
        ELSE Compress(val) >= s.meta[GetBucket(l, x)]

CheckBumped(l, x) ==
    LET s == storage[l]
        val == GetIntraBucket(l, x)
    IN  IF Compress(val) = 2 THEN val >= GetPlus(s, GetBucket(l, x))
        ELSE Compress(val) >= s.meta[GetBucket(l, x)]

Odd(n) == n % 2 = 1

\* the interleaved solution: the slots of a block with a bit in a column
Segment(l, block, column) ==
    {k \in 0 .. kCoeffBits - 1 : column \in solution[l][block * kCoeffBits + k]}

\* variant that only reads the block of the start
SolvedInBlock(l, x) ==
    LET start_bit == GetStart(l, x) % kCoeffBits
        left == {k + start_bit : k \in hasher[l][x].coeffs}
    IN  {column \in Columns : Odd(Cardinality(left \cap
            Segment(l, GetStart(l, x) \div kCoeffBits, column)))}

(***************************************************************************)
(* InterleavedRetrievalQuery: the coefficients lie in the block of the     *)
(* start and, unless they start with it, in the next one.                  *)
(***************************************************************************)
Solved(l, x) ==
    LET start_bit == GetStart(l, x) % kCoeffBits
        block == GetStart(l, x) \div kCoeffBits
        cr == hasher[l][x].coeffs
        left == {k + start_bit : k \in cr} \cap (0 .. kCoeffBits - 1)
        right == {k - (kCoeffBits - start_bit) : k \in cr} \cap Nat
        Parity(column) ==
            Cardinality(Segment(l, block, column) \cap left) +
            (IF start_bit = 0 THEN 0
             ELSE Cardinality(Segment(l, block + 1, column) \cap right))
    IN  {column \in Columns : Odd(Parity(column))}

\* the base has no further level and answers 0 for an item it thinks bumped;
\* a level without slots, or without this item, must not be asked
QueryRetrieval(x) ==
    LET f[l \in Levels] ==
            IF storage[l].num_slots = 0 \/ x \notin DOMAIN hasher[l] THEN NoAnswer
            ELSE IF ~CheckBumped(l, x) THEN Solved(l, x)
            ELSE IF l < depth THEN f[l + 1] ELSE {}
    IN  f[0]

-----------------------------------------------------------------------------
(* Construction. *)

NewScan == [last_bucket |-> 0, all_good |-> TRUE, thresh |-> NoBumpThresh,
            last_cval |-> -1, last_val |-> -1,
            bump_cache |-> {}, unc_bump_cache |-> {}]

\* slots of a child for n bumped items, and of the base for as many
ChildSlots(n) == Max({1, (SlotsPerItem * n) \div 1000})
BaseSlots(n) == (ChildSlots(n) * 1000) \div SlotsPerItem

(***************************************************************************)
(* The constructor prepares the first level for as many slots as items;    *)
(* without items there are none, and AddRange returns at once.             *)
(***************************************************************************)
Init ==
    /\ data \in ItemSets
    /\ pc = IF data = {} THEN "solve" ELSE "insert"
    /\ level = 0
    /\ \E f \in HashFunctions(0, data) :
          hasher = [l \in Levels |-> IF l = 0 THEN f ELSE <<>>]
    /\ storage = [l \in Levels |-> IF l = 0 /\ data # {}
                                   THEN Prepared(Cardinality(data)) ELSE Empty]
    /\ pending = data /\ bumped = {}
    /\ scan = NewScan
    /\ base = [orig |-> 0, per_item |-> 1000]
    /\ solution = [l \in Levels |-> <<>>]
    /\ answer = NoAnswer

\* the caches when the next item is x
Entered(x) ==
    LET bucket == GetBucket(level, x)
        val == GetIntraBucket(level, x)
        cval == Compress(val)
        caches == [scan EXCEPT !.last_cval = cval, !.last_val = val,
                     !.bump_cache = IF cval # scan.last_cval THEN {} ELSE @,
                     !.unc_bump_cache = IF val # scan.last_val THEN {} ELSE @]
    IN  IF bucket = scan.last_bucket THEN caches
        ELSE [NewScan EXCEPT !.last_bucket = bucket, !.last_cval = cval,
                             !.last_val = val]

\* the thresholds when the next item lies in this bucket
MetaOnMove(s, bucket) ==
    IF bucket # scan.last_bucket /\ scan.thresh = NoBumpThresh
    THEN [s EXCEPT !.meta[scan.last_bucket] = NoBumpThresh] ELSE s

\* do_bump: empties the rows of a cache
Cleared(s, cache) ==
    LET rows == {entry[1] : entry \in cache}
        Emptied(f) == [p \in DOMAIN f |-> IF p \in rows THEN {} ELSE f[p]]
    IN  [s EXCEPT !.coeffs = Emptied(@), !.results = Emptied(@)]

CachedItems(cache) == {entry[2] : entry \in cache}

\* the items come in the order of their positions, equal ones in any order
NextItem(x) == /\ pc = "insert" /\ x \in pending
               /\ \A y \in pending : StartToSort(level, x) <= StartToSort(level, y)

Stays(x) == GetBucket(level, x) = scan.last_bucket

\* direct hard bump: the bucket has failed already
HardBump(x) ==
    /\ NextItem(x) /\ Stays(x) /\ ~scan.all_good
    /\ bumped' = bumped \cup {x}
    /\ pending' = pending \ {x}
    /\ UNCHANGED <<data, pc, level, hasher, storage, scan, base, solution, answer>>

Tried(x) == Reduce(storage[level], Equation(level, x), Value(x))

AddItem(x) ==
    /\ NextItem(x) /\ (Stays(x) => scan.all_good)
    /\ Tried(x).coeffs # {}
    /\ LET row == Min(Tried(x).coeffs)
           now == Entered(x)
           s == MetaOnMove(storage[level], GetBucket(level, x))
       IN  /\ storage' = [storage EXCEPT ![level] =
                  [s EXCEPT !.coeffs[row] = Tried(x).coeffs,
                            !.results[row] = Tried(x).result]]
           /\ scan' = [now EXCEPT !.bump_cache = @ \cup {<<row, x>>},
                                  !.unc_bump_cache = @ \cup {<<row, x>>}]
    /\ pending' = pending \ {x}
    /\ UNCHANGED <<data, pc, level, hasher, bumped, base, solution, answer>>

(***************************************************************************)
(* The first failure in a bucket sets its threshold and bumps what was     *)
(* inserted with the same position, or the same compressed position.       *)
(***************************************************************************)
FirstFailure(x) ==
    /\ NextItem(x) /\ (Stays(x) => scan.all_good)
    /\ Tried(x).coeffs = {} /\ level < depth
    /\ LET now == Entered(x)
           bucket == GetBucket(level, x)
           s == MetaOnMove(storage[level], bucket)
           plus == now.last_cval = 2
           cache == IF plus THEN now.unc_bump_cache ELSE now.bump_cache
       IN  /\ storage' = [storage EXCEPT ![level] =
                  [Cleared(s, cache) EXCEPT
                      !.meta[bucket] = 0,
                      !.plus = IF plus THEN @ \cup {<<bucket, now.last_val>>} ELSE @]]
           /\ bumped' = bumped \cup CachedItems(cache) \cup {x}
           /\ scan' = [now EXCEPT !.all_good = FALSE, !.thresh = now.last_cval,
                          !.bump_cache = IF plus THEN @ ELSE {},
                          !.unc_bump_cache = IF plus THEN {} ELSE @]
    /\ pending' = pending \ {x}
    /\ UNCHANGED <<data, pc, level, hasher, base, solution, answer>>

\* variant that starts again with as many slots as before
RetrySameSize(x) ==
    /\ NextItem(x) /\ Tried(x).coeffs = {} /\ level = depth
    /\ storage' = [storage EXCEPT ![level] = Prepared(base.orig)]
    /\ pending' = DOMAIN hasher[level]
    /\ scan' = NewScan
    /\ UNCHANGED <<data, pc, level, hasher, bumped, base, solution, answer>>

\* the base bumps nothing: it grows and starts again with the same hashes
Retry(x) ==
    /\ NextItem(x) /\ Tried(x).coeffs = {} /\ level = depth
    /\ base' = [base EXCEPT !.per_item = @ + Growth]
    /\ storage' = [storage EXCEPT ![level] =
                      Prepared((base.orig * base'.per_item) \div 1000)]
    /\ pending' = DOMAIN hasher[level]
    /\ scan' = NewScan
    /\ UNCHANGED <<data, pc, level, hasher, bumped, solution, answer>>

\* the last threshold of a level, then the next level for what was bumped
FinishRange ==
    /\ pc = "insert" /\ pending = {}
    /\ LET s == IF scan.thresh = NoBumpThresh
                THEN [storage EXCEPT ![level].meta[scan.last_bucket] = NoBumpThresh]
                ELSE storage
           n == Cardinality(bumped)
           slots == IF level + 1 < depth THEN ChildSlots(n) ELSE BaseSlots(n)
       IN  IF bumped = {}
           THEN /\ storage' = s /\ pc' = "solve" /\ level' = 0
                /\ UNCHANGED <<hasher, pending, bumped, scan, base>>
           ELSE /\ level' = level + 1
                /\ storage' = [s EXCEPT ![level + 1] = Prepared(slots)]
                /\ \E f \in HashFunctions(level + 1, bumped) :
                      hasher' = [hasher EXCEPT ![level + 1] = f]
                /\ pending' = bumped /\ bumped' = {} /\ scan' = NewScan
                /\ base' = [base EXCEPT !.orig = IF level + 1 = depth THEN slots ELSE @]
                /\ UNCHANGED pc
    /\ UNCHANGED <<data, solution, answer>>

\* one slot after the other from the last, each from those behind it
Substituted(s) ==
    LET f[p \in 0 .. s.num_slots - 1] ==
            {column \in Columns :
                Odd(Cardinality({q \in s.coeffs[p] \ {p} : column \in f[q]})
                      + (IF column \in s.results[p] THEN 1 ELSE 0))}
    IN  f

\* BackSubst of one level; the banding storage is dropped
BackSubst ==
    /\ pc = "solve"
    /\ IF storage[level].num_slots = 0 THEN UNCHANGED <<solution, storage>>
       ELSE /\ solution' = [solution EXCEPT ![level] = Substituted(storage[level])]
            /\ storage' = [storage EXCEPT ![level].coeffs = <<>>, ![level].results = <<>>]
    /\ IF level < depth THEN level' = level + 1 /\ pc' = pc
       ELSE pc' = "ready" /\ level' = level
    /\ UNCHANGED <<data, hasher, pending, scan, bumped, base, answer>>

Query == /\ pc = "ready"
         /\ \E x \in data : answer' = [key |-> x, value |-> QueryRetrieval(x)]
         /\ UNCHANGED <<data, pc, level, hasher, storage, pending, scan, bumped,
                        base, solution>>

Constructor ==
    \/ \E x \in data : HardBump(x) \/ AddItem(x) \/ FirstFailure(x) \/ Retry(x)
    \/ FinishRange \/ BackSubst

Next == Constructor \/ Query

Spec == Init /\ [][Next]_vars

\* nothing else runs while the table is built
FairSpec == Spec /\ WF_vars(Constructor)

-----------------------------------------------------------------------------
Given(l) == IF l \in Levels THEN DOMAIN hasher[l] ELSE {}

(***************************************************************************)
(* While a level is filled, the rows hold the equation of every item it    *)
(* keeps: an item bumped together with later ones of the same position     *)
(* never takes a row with it that an earlier equation needs.               *)
(***************************************************************************)
EquationsKept ==
    pc = "insert" =>
        \A x \in Given(level) \ (pending \cup bumped) :
            Reduce(storage[level], Equation(level, x), Value(x))
                = [coeffs |-> {}, result |-> {}]

(***************************************************************************)
(* A query takes an item as bumped by a level exactly if the construction  *)
(* gave it to the next one; the base bumps nothing.                        *)
(***************************************************************************)
BumpsAgree ==
    \A l \in Levels : pc # "insert" \/ l < level =>
        \A x \in Given(l) : CheckBumped(l, x) <=> x \in Given(l + 1)

(***************************************************************************)
(* The finished table returns the value of every key it was built with.    *)
(***************************************************************************)
ValuesRetrieved ==
    pc = "ready" => \A x \in data : QueryRetrieval(x) = Value(x)

(***************************************************************************)
(* The base stops growing, and every construction ends.                    *)
(***************************************************************************)
RibbonEnds == <>(pc = "ready")
=============================================================================
