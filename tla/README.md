# A TLA+ development for RSHash

RSHash is a learned monotone minimal perfect hash function (MMPHF): built from N
sorted distinct keys, it maps each of them to its rank, 0 to N - 1, without
storing the keys. A radix spline estimates the rank of a key; keys with the same
estimate share a bucket; the ranks inside a bucket are in a retrieval data
structure, and a bit vector with select gives the rank of the first key of a
bucket. The repository also holds its predecessor LeMonHash (PGM indexes in place
of the spline), both for strings too, the retrieval table they all use (a bumped
ribbon), the competitors of the evaluation and benchmarks.

Paths below are relative to the repository (`src/`).

## 1. Inventory

| Part | State | Operations | What makes it right |
|---|---|---|---|
| `extlib/RadixSpline/include/rs/builder.h` | counters of keys and distinct keys, previous key, position and prefix, corridor limits, previous point, radix table, spline points | construct, `AddKey`, `Finalize` | assertions hold; corridor sound; every estimate within `max_error`; radix table exact |
| `extlib/RadixSpline/include/rs/radix_spline.h` | immutable spline | `GetEstimatedPosition`, `GetSearchBound` | monotone; the bound contains the key |
| `multi_map.h`, `include/RS.hpp` | copy of the data, spline | construct, `find`, `lower_bound`, `operator()` | answers of `std::multimap` |
| `include/RSHash.hpp` | spline, retrieval structure, bucket offsets; while constructing the scan's `i`, `last_p`, `counts` | construct, `operator()` | the answer for the k-th key is k - 1 |
| `include/support/sequence/BucketOffsets.hpp` | bit vector, push position | construct, move-assign, `push`, `done`, `at` | offset and size of a bucket |
| `extlib/simpleRibbon/include/MultiRetrievalDataStructure.hpp` | ten input lists, ten tables | `addInput`, `build`, `query` | one table per range, wide enough |
| `extlib/simpleRibbon/extlib/ribbon` | per level: slots, coefficient and result rows, thresholds; while inserting two caches of what could be taken back | construct, `AddRange`, `BackSubst`, `QueryRetrieval` | every key is found with its value |
| `include/RSHash4s.hpp`, `include/support/Alphabet*.h`, `include/support/util.h` | alphabets per branching depth, smallest LCP; then as RSHash | construct, `operator()` | chunks keep the order of the strings |
| `include/LeMonHash.hpp`, `LeMonHashHeuristic.hpp`, `bucket_mapping/LinearBucketMapper.hpp` | mapper, offsets, retrieval | construct, `operator()` | as RSHash; wrong inputs are rejected |
| `include/bucket_mapping/*PGM*`, `bucket_mapping/support/*` | the open segment of a piecewise linear approximation (two hulls, a rectangle); finished segments in storages of points or packed bits; levels | `make_segmentation_mod`, index constructors, `for_each`, `approximate_rank`, `segment_for_key` | lines within epsilon, iteration and lookup agree, ranks do not decrease |
| `include/LeMonHashVL.hpp`, `LeMonHashVLIndexed.hpp`, `support/AlphabetMapsCollection.h` | a tree of nodes over a string array; offsets per layer, alphabets shared by nodes, retrieval | construct, `operator()` | as RSHash, for strings of any length |
| `include/support/sequence/*` | Elias-Fano sequences with duplicate filters | `push_back`, `complete`, `at`, `predecessorPosition` | a plain sequence |
| `BS`, `stdmap`, `robin`, `btree`, `ART` wrappers, benchmarks, vendored libraries | | | not part of the core |

Everything is sequential: a constructor runs to its end and queries only read.
There are no threads, no files and no messages, so the hard behaviour is of
another kind: a long run of calls whose state (the corridor, the hulls, the
caches of the ribbon, the scan) forgets what it has seen and is only wrong much
later; unsigned and floating-point arithmetic at its edges; structures sized
before they are filled; two pieces of code, construction and query, that must
make the same choice; and scans, recursions and retries that need not end.

## 2. Modules

| Module | Models | Notes |
|---|---|---|
| `MMPHF` | nothing of the code: the promise. A constructor ends once; afterwards a query for the k-th key answers k - 1 and nothing changes | the abstract specification |
| `RadixSpline` | `radix_spline.h` | operators over a spline record |
| `SplineBuilder` | `builder.h` | one action for `AddKey`, one for `Finalize`; uses `RadixSpline` for the lookups |
| `SplineIndex` | `multi_map.h`, `RS.hpp` | the containers that search their own keys, over `SplineBuilder` |
| `BucketOffsets` | `BucketOffsets.hpp` | operators and actions over the one bits |
| `Retrieval` | `MultiRetrievalDataStructure.hpp` | ten tables as sets of (key, value) |
| `Ribbon` | `extlib/ribbon` as `SimpleRibbon` uses it | one table: one action per item inserted, bumped or first to fail, per retry, level and back substitution |
| `RSHash` | `RSHash.hpp` | one action per step of the constructor and per round of its scan, and the query; the spline is any function that meets `EstimateContract` |
| `RSHashSpline` | `RSHash.hpp` with `builder.h` | extends `SplineBuilder`, has `RSHash` as an instance: the estimates are those of the spline the builder made. Implements `RSHash` |
| `StringLCP` | `LCP` in `util.h` | the word loop and the byte loop over memory |
| `AlphabetMap`, `AlphabetMaps`, `AlphabetMapsCollection` | the headers of these names, `computeLCPs` | operators: single alphabets, alphabets per depth, alphabets that nodes share |
| `RSHash4s` | `RSHash4s.hpp` | strings to chunks, one per step, then the actions of `RSHash` on the chunks; any estimates that meet the contract |
| `RSHash4sSpline` | `RSHash4s.hpp` with `builder.h` | has `RSHashSpline` as an instance: the builder is made when the chunks are there, and every estimate is that of its spline. Implements `RSHash4s` |
| `BitScan`, `EliasFano` | `nextOne`, `prevOne`; `EliasFanoModified.hpp` | operators over records: an `EliasFanoM`, its pointers, the sequential coding and its iterator |
| `DuplicateFilterRank`, `DuplicateFilterRunlength`, `DuplicatesAwareEliasFano` | the containers of these names | operators over records |
| `SequenceContainers` | all compressed sequences side by side | the same appends to each, then `complete` |
| `LeMonHash` | `LeMonHash.hpp` | one action per key handed over by the mapper and per bucket closed; any mapper |
| `LinearBucketMapper` | `LinearBucketMapper.hpp` | an operator that yields a mapper |
| `LeMonHashHeuristic` | `LeMonHashHeuristic.hpp` | extends `LeMonHash` with segments and their `EliasFano` sequence; a family specification runs either class |
| `OptimalPiecewiseLinearModel` | the header of this name | operators on the record of its fields: `add_point`, the extreme lines, `get_floating_point_segment` |
| `SuccinctPGM`, `UnalignedPGM`, `PGM` | `SuccinctPGM.hpp` with `PointsStorage.hpp`; `UnalignedPGM.hpp` and `PolymorphicPGM.hpp`; `PGM.hpp` | operators on the record each index stores, its iteration and its lookup |
| `LeMonHashPGM` | the bucket mappers, `make_segmentation_mod`, and `LeMonHash` over them | one action per key of the segmentation, which hands finished segments to the index; then the actions of `LeMonHash` |
| `LeMonHashVL` | `LeMonHashVL.hpp` | `constructNode` and `constructChild` on an explicit stack, one action per child and chunk; a query goes down one level per step |
| `LeMonHashVLIndexed` | `LeMonHashVLIndexed.hpp` | the same tree with characters picked by `distinctMinima`; a flag chooses the class |
| `RSHash_proofs` | | theorems about `RSHash` and `RSHash4s` |
| `Spline_proofs` | | theorems about `SplineBuilder`, `SplineIndex` and `RSHashSpline` |
| `SequenceContainers_proofs` | | theorems about `SequenceContainers` and all containers it runs |
| `LeMonHash_proofs` | | theorems about `LeMonHash`, and about the segmentation of `LeMonHashPGM` |
| `Ribbon_proofs` | | theorems about `Ribbon` |
| `LeMonHashVL_proofs` | | theorems about `StringLCP`, `LeMonHashVL` and `LeMonHashVLIndexed` |
| `HashParts_proofs` | | lemmas about what the hash functions share: what `BucketOffsets` and `Retrieval` answer, longest common prefixes, numbers written with the digits of an alphabet |
| `Counting_proofs` | | lemmas on numbers and finite sets of them: least elements, induction, ranks, division, recursive functions |

`MC*.tla` give the constants of the runs.

### State and actions against the code

A behaviour of `SplineBuilder` is one construction: `AddNextKey` is a call of
`AddKey` with all it calls (`PossiblyAddKeyToSpline`, `AddKeyToSpline`,
`PossiblyAddKeyToRadixTable`), `FinalizeAtEnd` is `Finalize`. The variables have
the names of the members without the trailing underscore. Coordinates are exact
integers and an orientation is the sign of the cross product: the doubles of the
code hold integers below 2^53 exactly. Where a fused multiply-add may round an
estimate down to just below a whole number, `MayLoseOne` lets the truncation lose
one; `__builtin_clzl(0)` may return any of `UndefinedShifts`.

`RSHash` has one action per part of the constructor: `BuildSpline`, one `ScanRound`
per round of the outer while loop, `BuildRetrieval`, one `PushCount` per
`bucketOffsets.push`, `Finish`. A round either closes the bucket of key `i` or, if the
estimate is the one just closed, changes nothing, as in the code, where it would then
loop for ever. `Query` sets `answer` to anything `operator()` may return; the
retrieval structure returns an arbitrary value of its width for a key it was not built
with, so a wrong bucket shows. `RSHashSpline` replaces `BuildSpline` by the builder's
own steps on the same keys (`AddKeyOfData`, `UseSpline`). `RSHash4s` puts
`ComputeLCPs`, `BuildAlphabets` and `ReadChunk` in front; the bytes behind the
terminator of a string are chosen anew each time a chunk is read, since the
constructor and a query read different memory. A chunk the spline was not built from
is estimated anywhere between its neighbours there; in `RSHash4sSpline`, which adds
`MakeBuilder`, `AddKeyOfChunks` and `UseSplineOfChunks`, by interpolation of the very
spline the code builds.

`Ribbon` is one table of `Retrieval` in detail. The variables of `BandingAddRange`
are the record `scan`: the bucket it is in, whether everything fitted so far, and
the two caches of inserted rows that a failure takes back, one for the same place
in the bucket and one for the same compressed place. `AddItem`, `FirstFailure` and
`HardBump` are the branches of its loop, `Retry` its `return false` in the base
together with the growth in `BackSubst`'s caller, `FinishRange` what follows the
loop. Items come in the order of their places, equal ones in any order. A row of
coefficients is the set of slots it selects, a value a set of columns, and adding
rows is symmetric difference, so one behaviour shows every column at once.

`LeMonHash` hands keys over one by one (`VisitKey`, with the two exceptions),
runs the while loop of the callback (`CloseBucket`, `NextKey`), closes the last
bucket and finishes. The mapper is any function from keys to buckets. In
`LeMonHashPGM` it is what a real index says: one round of
`make_segmentation_mod` extends the open segment (`ExtendSegment`) or closes it and
starts the next (`NextSegment`); the buckets of the pass come from `for_each`, which moves along the
segments, those of a query from `approximate_rank` or `segment_for_key`, which
search. Both directions of the pass through the data therefore can disagree, and
`ForEachAgrees` says that they do not. In `LeMonHashHeuristic` likewise the
constructor knows its segment and a query searches it (`predecessorPosition`).
Slopes are floats: they are exact rationals here except where the product with a
key difference lies on a whole number or half way between two, which a float may
miss from below; for these products the model chooses.

`LeMonHashVL` has the recursion of the constructor as a stack of frames. A frame
is the local state of one `constructNode` (its chunks, its mapper, the child it is
at); entering a node decides, as the code does, whether the alphabet comes from
the strings, from the ancestor or from the collection, and whether the mapper is
kept; `constructChild` either stores ranks or pushes a frame. The nodes of one
layer append to one sequence of offsets in the order the stack gets to them. A
query walks from the root, one action per level.

Bit vectors are sets of positions with their size; words matter only in
`nextOne`, which keeps its word-wise definition because it drops the lowest bit
of the first word whether or not it is the bit it started from, and in the packed
indexes, where the number of words allocated is a property.

## 3. Runs

| Run | States | What it shows |
|---|---|---|
| `spline` | 70,606 | every set of keys in 0..10 and every sorted sequence of up to 7 keys in 0..4 whose last key is unique, `max_error` 1 and 2, 1 and 3 radix bits: the assertions of the builder hold, the corridor is sound for every key it has passed (`CorridorSound`), every estimate is within `max_error` (`ErrorBound`), the radix table never changes a search (`RadixTableExact`), `find` and `lower_bound` answer as `std::multimap` |
| `rshash` | 57,090 | RSHash with the builder it really runs on every set of keys in 0..8 with 0, and with every monotone estimate function of up to five keys: ranks, pushes that fit, no bucket above twice `max_error`, termination; it implements `MMPHF` and, with the builder, `RSHash` |
| `ribbon` | 116,246 | none, two and five keys, every placement of their hashes on the first level: the equations of kept items survive what is taken back, queries agree with the construction on what was bumped, values are returned, the base stops growing |
| `rshash4s` | 174,221 | RSHash4s with the builder it really runs: every 2 to 4 strings of 1 to 3 characters over two letters, and strings of up to 4 with skipped depths: chunks that fit increase, strings are mapped to ranks, and every step is one of `RSHash4s` (`ImplementsRSHash4s`). Or one comparison of two of 13 texts of up to 8 bytes, with words of 2 bytes and any bytes behind the terminators: no read strays far, the result is the longest common prefix |
| `sequences` | 121,241 | every non-decreasing sequence of up to eight values to 6, with every room and universe it fits: all containers return what was appended, pointers and iterators move right |
| `lemonhash` | 46,864 | `LeMonHash` with the linear mapper, with any mapper of up to three keys and with the four built from piecewise linear approximations, and `LeMonHashHeuristic`: on every set of up to seven keys in 0..6, on sequences of up to 15 keys that bend often, and on keys out of order. Extreme lines pass all points of their segment and segments are as long as they can be; iteration and lookup agree; ranks of sorted keys do not decrease and are at most epsilon + 1 off in `SuccinctPGMIndex`, and near in the unaligned forms (`RanksNear`); packed numbers fit; only disorder is rejected; construction ends; `MMPHF` is implemented |
| `lemonhash_vl` | 43,376 | both tree classes on every three or four strings of up to two characters and on ten sets of longer ones: chunks tell strings apart, packed positions are unpacked as they were, a query returns, `MMPHF` is implemented |
| `spline_maxima`, `chunks_behind`, `lemonhash_last_key`, `polymorphic_layout`, `pgm_assertion` | | the findings below |

Bounds, and why they are enough. Everything in this code is a matter of relative
order and small differences, so the constants are scaled down until both sides
of each limit occur.

- Spline: keys of 4 bits for 32 and 64; a linear search limit of 2 in place of 32 so that segments are searched
  both ways; `max_error` 1 and 2 and up to eleven keys give several corridors in a
  row.
- Strings: 4 alphabets for 43 and chunks of 4 bits for 64 so that chunks reach
  the limit; texts with words of 2 bytes for 8, bit vectors with words of 4 bits
  for 64, so that both span several.
- Sequences: areas of 2 values, an initial filter of 2 areas and runs of 2
  duplicates for 3, 100 and 8, so that filters grow, areas and runs are dropped,
  and the last area is full, partial or empty.
- Piecewise linear models: epsilon 1 and 2, and a value of its own for the levels of
  `PGMIndex` above the first; words of 4 bits; up to 2
  segments, for 8, are searched linearly; indexes of fewer than 6 keys, for 2^10,
  may be inlined in a pointer. The longer sequences make several segments and
  levels. Heuristic segments have 3 keys.
- Trees: chunks of 4 bits, 3 bits for the number of an alphabet; nodes of
  more than 2 strings get an alphabet of their own, children of 3 strings are
  nodes, more than 2 chunks get a mapper; 5 bits of LCP, 6 bits of packed
  positions with 3 for the base. The texts make three layers,
  fill the collection, spill positions over their slots and leave some that do
  not fit. Each behaviour asks one query, as queries change nothing.
- Ribbon: rows of two bits for 64, buckets of four starts with the threshold at
  the second; two levels above the base, as in the code. Keys are numbered by
  their first hashes, since they are only names. Every value is a column of its
  own, which shows the sum of any other values, as everything is linear. Hashes on
  the base are distinct: with equal ones it would never end (a hazard).
- `WideCapacity` stands for 2^32 and is only required to exceed 512.

Fairness. Constructors are sequential code that nothing interrupts, so the
termination properties assume weak fairness of the constructor's steps as a
whole (`WF_vars(Constructor)` and its likes), and none of the query, except that
in the trees a query that has begun goes on. Runs check for deadlock except where
the system really stops: `rshash4s` and `chunks_behind` after a comparison and at a
chunk order the builder's assertion forbids, `sequences`
after `complete`, `lemonhash`, `lemonhash_last_key`, `polymorphic_layout` and
`pgm_assertion` after an exception, `lemonhash_vl` after its one query, `ribbon` with an empty table,
which has no key to ask for.

## 4. Findings

- `spline_maxima`: duplicates of the largest key break the error bound of the
  spline. RSHash itself only builds on distinct keys.
- `chunks_behind`: a chunk of `RSHash4s` may depend on bytes behind the end of a
  string. The run has the splines the code builds, with its `max_error` and radix bits,
  for `aaaa`, `aaab`, `aaac`, `ba`, `caab` (as 1111 to 3112): the depths 0 and 3 are in
  use, the chunks are 0, 1, 2, one of 3 to 5, and 7, and the byte behind the end of `ba`
  decides whether it is answered 2 or its rank 3. No estimate there is a whole number,
  so rounding has no part in it. The compiled class gives the same answers. Within the
  limits, the properties of run `rshash4s` hold.
- `lemonhash_last_key`: `LeMonHashHeuristic` asks `EliasFanoM::size()`, the room
  for elements, whether an element has a successor. A query for the last key
  reads past the sequence. The answer is still right in release builds
  (`ImplementsMMPHF`); with assertions the query aborts.
- `polymorphic_layout`: `PolymorphicPGMIndex` counts two of the three bit widths it
  writes when it allocates the words of its packed form, so that the form can end
  behind them. `UnalignedPGMIndex` counts three.
- `pgm_assertion`: `for_each` of `PGMIndex` asserts that a rank is at most epsilon + 1
  off (`PGM.hpp:211`). A segment may pass a key at its rank less epsilon, and its
  intercept and the product with its slope may both be cut off: for epsilon 3, which the
  mapper tries, and 11 keys up to 132, key 55 of rank 9 is given rank 4, in the
  compiled class too. Nothing relies on the bound in release builds; with assertions
  the constructor aborts.

Seen while modelling and not runs of their own:

- the intercept of a packed segment of `UnalignedPGMIndex` is lowered to behind the last
  rank of the segment before, which lowers its own last rank: ranks may fall behind by two
  epsilons and one per segment (`RanksNear` has the bound; buckets only get larger);
- the first key is left out of the segmentation as it "will always be mapped to rank 0"
  (`UnalignedPGM.hpp:164`), but the inlined single line maps it anywhere near: with epsilon
  2, key 2 of 2, 3, 4, 5, 6, 7 to rank 2. Buckets in front are then empty, which
  LeMonHash allows;
- a chunk of `RSHash4s` may exceed 64 bits, and strings then lose their order
  (`ChunksFit` is the precondition of `ChunksIncrease`);
- `LeMonHashVL` keeps 15 bits of the smallest common prefix: behind a longer one
  the node reads other characters, finds one chunk and is its own child for ever;
- the base level of a ribbon never ends for two items with equal hashes;
- `DuplicatesAwareEliasFano` reads 0, 0, 0 as 0, 1, 1, since behind the last first
  occurrence `next_geq` stands at its end and shows the universe
  (`AwareAnswersBeforeTail` has the exact limit; nothing in the program uses the
  class);
- `EliasFanoM` documents duplicates but asserts that there are none
  (`EliasFanoModified.hpp:206`);
- `MultiMap` does not sort its copy, as its comment says, and `lower_bound` may stop
  short of a larger key behind a long run of equal ones, if keys repeat more than
  the search bound is wide;
- the linear mapper of a single key divides by zero, and `computeLCPs` of a single
  string dereferences the smallest element of nothing.

## 5. Proofs

`RSHash_proofs` proves for every set of inputs, every bound on the estimates and
every capacity of the wide table: `Invariance` (`Spec => []IInv`), `TypeCorrect`,
`RankTheorem`, `PushFitsTheorem` and `Refinement` (`Spec => ImplementsMMPHF`).
Assumptions: `InputsAssumption` (non-empty, strictly increasing keys, no more
than the wide table can count), `MaxEstimateAssumption`,
`WideCapacityAssumption`, and, in the specification itself, that the estimates
of the spline meet `EstimateContract`, which run `rshash` checks of the real
builder (`ImplementsRSHash`) and `Spline_proofs` proves of it.

`RankCorrect` is not inductive: it speaks of finished objects only. `IInv` says
what the constructor has achieved half-way, through a function f that gives for
each bucket the index of its first key:

1. `Partition`: f cuts the keys scanned so far into the buckets counted so far,
   key k lies in bucket b iff its estimate is b;
2. `Frontier`: all keys not yet scanned have an estimate above `last_p`, so that
   no round repeats and empty buckets are counted once;
3. `Stored`: exactly the keys of buckets of two and more are stored, with their
   rank in the bucket and the size of the bucket, which selects the table;
4. `OnesAgree`: the one bit of bucket b is at f[b] + b, for the counts pushed.

Each action is one lemma; `ScanRoundIInv` is the long one, since it extends f by
the empty buckets and the closed one. From `IInv` in a finished object,
`OffsetsOfBucket` reads offset f[b] and size f[b + 1] - f[b] from the ones,
`StoredValue` reads k - f[b] from the tables (both in `HashParts_proofs`), and
their sum is k.

For `RSHash4s`, the same module proves `ChunksTheorem` (chunks that fit strictly
increase) and `StringRankTheorem` (within the limits, every string is mapped to its
rank) for every sorted set of strings over every alphabet and every number of
depths. `StringsIInv` says that LCPs, alphabets and the chunks read so far are
those of the strings and that the fields of `RSHash` are still fresh; once all
chunks are there and fit, they are `Hashable`, which is all that `InputsAssumption`
asks of an input, and the state is one of `RSHash` with `IInv`. The argument for
the order:

1. `LCPOfPair`: at the position where two neighbours part, the first has the smaller
   character, and both characters are in the alphabet of that depth
   (`AlphabetsOfStrings`), the last alphabet for all depths beyond it;
2. `FirstDifferentDigit`: the chunks have equal digits up to that depth, and there
   the first string the smaller one. It may have ended by then; what memory holds
   behind it only changes later digits;
3. `SmallerNumber`: of two numbers whose digits stay below the base
   (`DigitsBelowBase`), the one with the first smaller digit is smaller, unless the
   word overflows (`NumberExact`, which is where `ChunksFit` is needed).

It assumes `StringInputsAssumption` and `ChunkPowersAssumption`, that powers of
the base and of two are numbers that grow by a factor, of which the provers know
nothing.

`LeMonHashVL_proofs` begins with the entries of the lcps array, which all string
classes rest on. It extends `StringLCP` too and proves
`PairReadsTheorem` and `PairLCPTheorem` for all different strings of a length at
which `lcp` itself does not wrap around, words of any size and any bytes behind the
terminators (`LCPAssumption`). `PairInv` says that all bytes passed are the same
and that the loops stop at one that is not. As distinct strings differ at a
terminator at the latest, `lcp` never gets past the end of the shorter one
(`DifferAtTerminator`), whatever the wrapped limit allows. `CommonPrefixTheorem` adds
that the value left is that of the operator `LCP` of `AlphabetMap`, which the models
of `RSHash4s` and of the trees use.

It goes on with the trees: `ChunksBranchTheorem` and `IndexesUnpackedTheorem`, for all
sorted sequences of distinct strings, all thresholds, any bucket mapper, any number of
shared alphabets and every size of chunks, slots and packed words. What a node does
depends on its caller: an alphabet may be inherited or be that of an unrelated node,
the known prefix is passed down, the strings are a part of the caller's. The inductive
invariant (`TreeInv`, theorem `TreeInvTheorem`) says of every call on the stack:

1. `NodeRange`, `KnownBelow`: it has two or more strings, and the prefix it takes as
   known is shared by all of them;
2. `Covers`: its alphabet has every character at which two neighbours of its strings
   branch. An inherited alphabet covers a part of the caller's strings since it covers
   all (`Inherits`), and numbers name the same alphabet for ever
   (`AlphabetStays`), although the collection goes on to grow;
3. `Runs`: its chunks are the different values of what its strings read, in order, and
   `chunksOffsets` says where each one begins. `ChunksInOrder` is the reason: two
   neighbours agree up to their branch, all characters in front of it have the same
   digits, and the branch has a larger one in the second string, provided that it is read;
4. `Repeats` (indexed class): the positions packed are those that `distinctMinima` yields
   without the known prefix, and they unpack.

A node has two chunks since its smallest common prefix is read (`IsRead`): at the first
position in both classes. For the indexed class this rests on `Unpacked`: filling and
reading the slots are two recursive functions, followed slot by slot. After a slot the
reader has what the writer had stored, or everything but the rest in the accumulator
(`ReadOK`), also when only zeros are left although positions are not (`ZerosLeft`).

`TreeImplementsTheorem` is the refinement: both trees implement `MMPHF`, that is, a
query that walks down the nodes, offsets and stored ranks ends at the rank of its
string. The construction is depth-first, and nodes of a layer append to one sequence
of offsets, so most of the invariant (`RanksInv`, theorem `RanksInvTheorem`) is about
what is complete while calls are still running:

1. `Plan`: there are pairs of a path and a string, the root with every string among
   them. Behind each path there is a call that still has to leave its node (`Pending`),
   or a node in the tree that serves the string (`Served`): reading the string, it finds
   a bucket, between whose offsets the rank lies; a bucket of one string is its rank, a
   small one has the rest of the rank in the retrieval, and any other one leads to the
   next pair (`Settles`). The offsets are the ones of the layer, which only
   grows (`ServesGrow`), and the next one that a running call will append is in part 2;
2. `Halfway`: a running call serves the strings in front of `currentBucketBegin`, as soon
   as that is appended. In the loop over buckets this needs that closed buckets
   lie in front of the current one and that all other chunks have it or a larger one
   (`AtBucket`), although the buckets between two chunks may be empty. No child
   has all strings of its parent (`Smaller`): a node that stores ranks has two
   chunks or more, and a mapper is kept only if it separates the first and the last
   one. Hence layers suffice (`Placed`);
3. `NodesOK`: paths name nodes. A node in the tree lies behind a child that is complete
   (`IsLeft`), and the running calls do not (`CallNotLeft`);
4. `KeysOK`: a key has one entry in the retrieval, since strings are distinct, those in
   front of the running call have their entries, those behind do not, and chunks
   have theirs under paths that are left or under chunks that the running calls
   have passed (`KeyedBy`).

Its hypothesis besides `PrefixesFit` is `MappersMonotone`: a bucket mapper maps chunks in
order to buckets in order, which is what `LeMonHash` checks at run time and the tree
takes for granted. The mappers of run `lemonhash_vl` have this property, and of those in
the code, `IndexesMonotone` of the runs of `LeMonHashPGM` speaks. Hashes of different
strings and paths are different in the model, as the code relies on.

`TreeInvTheorem` and `ChunksBranchTheorem` have the hypothesis
`indexed \/ PrefixesFit(strings)`: `minLCP` of `LeMonHashVL` keeps 15 bits, and strings
with common prefixes of 2^15 and more characters are read at the wrong place (see the
hazards). `LeMonHashVLIndexed` throws in this case. The assumptions are `TreeAssumption`,
`AlphabetMapAssumption`, `CollectionAssumption`, `DigitsAssumption` (the powers of the bases in use, and that
a chunk has room for one digit) and `PackingAssumption`.

`SequenceContainers_proofs` proves all five properties of run `sequences` for every
sequence of values, every universe and room of an `EliasFanoM`, every size of areas,
runs and words: `RankFilterTheorem`, `RunFilterTheorem`, `AwareTheorem`,
`PredecessorTheorem`, `IteratorsTheorem`. The properties speak of completed
containers; the invariant `IInv` says how each one follows the values while they are
appended:

1. `FilterFollows` (rank filter): the insertion buffer holds the values not handled
   yet, fewer than an area; before it, whole areas were handled, the child has one
   area for each bit, and every value is found (`FilterFinds`). An area that is
   stored comes last, so that no rank changes (`StoredArea`); an area that is
   dropped leads to the end of the last one stored (`SkippedArea`);
2. `AwareFollows`: a position with j repeated positions up to it holds distinct value
   i - j. If the repeated positions are replaced by the first occurrences, the count
   turns into a rank among those (`ComplementedComplements`), up to the tail;
3. `RunsFollow`: the copies counted lie at the end of the values; for the values
   before them, the run that cuts at a position says where it is stored
   (`StoredAt`). Dropped runs are long enough (`LongRuns`) that the copies
   dropped before each run, less the fewest there can be, do not decrease
   (`ExcessOrdered`), which the second Elias-Fano sequence requires;
4. `Codes`: the one bits and low parts of an `EliasFanoM` are those of the values
   pushed, and `SequentialCodes` the same of the sequential coding.

A list of one bits in order (`Rising`) turns select, `nextOne` and `prevOne` into
moves along that list, with which `AtIs`, `EliasFanoIterates` and
`SequentialIterates` follow. `PredecessorIs` first shows that the two zeros a
query looks up enclose the elements of its high part (`BucketIsDivided`), then that
the binary search divides them at the low part (`SearchFinds`, by induction over the
length of the range); an empty bucket, or one of larger elements only, leaves the
place in front of it, and the scan backwards ends at its bit. The
completed run-length filter uses both `PredecessorIs` and `EliasFanoIterates`. It
assumes `FilterAssumption`, `RunlengthAssumption`, `WordBitsAssumption`,
`BoundsAssumption` (the numbers of values and the values are bounded by some number)
and `PowersAssumption`, that powers of two are positive and double, up to exponents
that the bounds give. TLC has checked the invariant with up to five values.

`Spline_proofs` proves of the builder, for every sorted input with any repetitions, every
`max_error` and number of radix bits, `AssertionsHold`, `CorridorSound` and
`RadixTableExact`, and `ErrorBound` if the largest key is unique
(`LargestKeyUnique`; without it the bound is wrong, see `spline_maxima`).
Assumptions: `KeyBitsAssumption`, `InputsAssumption`, `ParametersAssumption`,
`LinearSearchLimitAssumption`, and `PowersAssumption`, that powers of two are
positive numbers, of which the provers know nothing. The invariant has these
parts besides types:

1. `Cdf`, `Points`, `Candidate`: positions of the CDF do not decrease, the last CDF
   point and the limits lie right of the last spline point, points are CDF points;
2. `Corridor`: seen from the last spline point, the limits lie inside the limits of
   every key passed since (`Between`) and the candidate lies between them. Slopes
   are compared as cross products (`SteeperTransitive`), so that no division occurs;
3. `Segments`: segments already cut pass all keys within `max_error`. A candidate
   that becomes a point turns 2 into 3 (`CorridorCloses`);
4. `Table`: the entry of a prefix splits the points at that prefix, for prefixes
   already reached; `SearchExact` reads from it that the two searches of a lookup,
   narrowed by the table, find what a search of all points would.

A second invariant, `Order`, is what the users of the spline need: its points rise
strictly and, if no key is repeated, all are CDF points. A third, `Strict`, says that
an error of one and more is never reached, since a key on a limit cuts the corridor:
the candidate lies strictly between the limits, and one strict comparison is enough
to make the bounds of the segment it ends strict (`StrictOrder`).

Of `SplineIndex` it proves `LookupsLikeMultimap` if the largest key is unique. An
absent key lies between two CDF points that its segment passes, so the estimate is
off by one more than that of a stored key; `EstimateNear` shows that with the one a
truncation may lose this is just what the `+ 2` of the search bound covers.

Of `RSHashSpline` it proves `Refinement`: `ComposedSpec => ImplementsRSHash`, under
the assumptions of the builder. `ComposedInit` asks for `HashableKeys`: no key
repeated, and a `MaxEstimate` that leaves room for the positions. Exact estimates of
stored keys grow strictly (`EstimatesGrow`), and truncation keeps the order of
different fractions even if it loses one (`TruncationsKeepOrder`): this is the
monotonicity that the scan of `RSHash` rests on. Since `RSHash_proofs` shows of every
such RSHash that it answers each key with its rank, both together prove it of the
program with its own spline.

`BucketsTheorem` proves `BucketsBounded` for every `max_error` above zero (with zero,
a bucket of one key exceeds the bound): by `Strict`, the estimate of key k, truncated
and perhaps one too low, lies in k - `max_error` .. k + `max_error` - 1, so that two
keys of one bucket are less than twice `max_error` apart.

`LeMonHash_proofs` does for `LeMonHash` what `RSHash_proofs` does for `RSHash`, for
every input, sorted or not, and every mapper: `Invariance`, `TypeCorrect`,
`RankTheorem`, `PushFitsTheorem`, `DisorderTheorem` (a finished object has sorted,
distinct keys, and an exception means a disorder of keys or buckets) and `Refinement`.
Its `IInv`, which TLC has checked for the mappers of run `lemonhash` too, speaks of the one bits directly:
those pushed so far cut the keys visited so far, in order, into buckets. It needs
`MapperBuilt`, that the mapper is complete when the first key is handed over, and that
the number of bits allocated counts keys and buckets, of which each push uses up one
kind.

The same module proves of `LeMonHashPGM`, for all keys, every epsilon and every
`epsilon_recursive`, that segments are right: `ExtremeLinesTheorem` (what is kept fits all
points) and `SegmentsMaximalTheorem` (what is rejected fits no line). `add_point` keeps
points of two hulls only, and of those looks at the ones between two moving starts. The
invariant (`SegmentationInv`, theorem `SegmentationInvariance`) says that the model has
`Seen` the bars of all points of the segment:

1. `HullOf`: a hull consists of ends of bars in the order of their keys and turns one
   way from its start on. It `Covers` the ends: a line with a slope between those of
   the two extreme lines that is beyond the points of the hull is beyond all ends;
2. `Bounded`: each extreme line passes a top and a bottom, at or behind the two starts,
   and lies between all tops and bottoms. The upper and the lower hull are the same lemmas
   with a sign (`sigma`), for a picture turned upside down;
3. `Fitted`: both hulls and both lines at once. A bar that is added bends at most one of
   the lines at either end; the new line is the tangent that `Extreme` finds by slopes
   that first improve and then get worse, and `HullWith` drops what lies above the new
   edge. A rejected bar lies entirely beyond one line: the two ends on that
   line and the new bar are the three bars for which `SomeLineThrough` fails;
4. `Taking`: the points taken are the first ones of each key, in order. Keys out of order
   are rejected when they come, so nothing is assumed of the input;
5. `UnderConstruction`: what is known of the index meanwhile, so that the levels of
   `PGMIndex` above the first are segmented with their own bound.

Slopes are compared as cross products throughout. The assumptions are
`IndexAssumption` and `RecursiveAssumption`.

`Ribbon_proofs` proves all three safety properties of run `ribbon`, for every row
width, bucket size, threshold position, depth, item set, value and hash function
(`RibbonAssumption`, `ItemsAssumption`, `ValuesAssumption`): `BumpsAgree`,
`EquationsKept` and, from both, `ValuesRetrieved`. The thresholds are what a query has to go by, and they are
written in three places: when the scan leaves a bucket, when a bucket fails, and
at the end of a level. The invariant follows them:

1. `Order`: items come bucket by bucket and in the order of their places, so that
   nothing behind a failure was inserted before it;
2. `ClosedBuckets`: in every bucket left behind, `CheckBumped` tells the bumped
   items from the others, and no threshold is stored for a bucket not reached;
3. `GoodBucket`: as long as everything fits, the caches hold exactly the items at
   the last place, and at the last compressed place. Compressed places are
   intervals (`EnteredScan`), which is why a cache that was emptied on a change
   never misses an item;
4. `FailedBucket`: behind a failure, the stored threshold already separates what
   was bumped, and everything still to come lies at or above it.

`BumpsNone`, `BumpsFailed` and `BumpsSame` are the three facts about `CheckBumped`
that the steps use, `FinishRangeStep` and `RetryStep` set up the next level.

A second invariant, `RowsInv`, is about the rows; TLC has checked it on the instance
of run `ribbon`. Rows are in echelon form (`Echelon`: a row lies at its least slot),
and an equation is held if it reduces to nothing with its value (`Vanishes`):

1. `MoreRows`, `OwnRow`: a row added at a free slot changes no equation that vanished,
   and the one it was made of vanishes from then on;
2. `KeptWithout(cache)`: the items that would stay if the cache were bumped vanish
   already in the table without the rows of the cache. It holds of both caches while
   everything fits, because a row enters them with its item (`ClearedOneMore`) and a
   cache is emptied only when nothing of it can be bumped any more; the empty
   cache gives `EquationsKept`. Of the table alone this is not inductive, since the
   rows emptied at a failure might be ones an item that stays was reduced by;
3. `Equations`: a level that was left holds the equations of the items it did not
   pass on, and `Solves`: once it is substituted, the slots add up to their values.
   A row that is not empty is solved by construction (`RowSolved`), an equation that
   vanishes is the sum of such rows (`VanishingSolved`, with parities of symmetric
   differences, `ParitySum`), and the two blocks that a query reads are together the
   slots of the equation (`SolvedIs`).

`ValuesRetrievedTheorem` follows a query down: a level that passed the key on says so
by `BumpsAgree`, the one that kept it answers by `Solves`, and the base passes on
nothing.

Elimination, substitution and query are recursive functions over sets of slots, over
slots and over levels. `MeasuredRecursion` shows that they exist, since each uses only
arguments of a larger measure (the leading slot, the slot, the level), and
`Elimination` is the induction along rows.

Functions defined by recursion over numbers (chunks of strings, `Complemented`, the
binary search, `Seek`) are proved about by a set of numbers in place of a predicate
(`AllNaturals`), which also shows that they exist (`Recursion`).

Only model-checked: everything about liveness; the indexes made of the segments, that is,
`ForEachAgrees`, `RanksNear`, `IndexesMonotone`, `LevelsFindSegment` and the widths of
packed numbers; `LeMonHashHeuristic`; that `RSHash4s` with the builder implements
`RSHash4s` (`ImplementsRSHash4s`).

## 6. Not modelled

- The competitor containers, vendored libraries, benchmarks and the serializer;
  sizes, names and printing; moves and destructors. Allocation failure is not
  modelled anywhere.
- The vendored rank and select structures of the pasta bit vector, the partitioned
  sequences of ds2i and the string hash appear as what they return: the place of the
  k-th bit, an element or the universe, a value that is different for different strings.
- Ribbon: filters, master hash codes, the two-bit thresholds, cache-line storage
  and sparse rows, which `SimpleRibbon` does not use; the hash functions; the
  cuckoo table, which is a map here. Narrower rows on the base, as code for other
  row widths has them; the rounding of doubles in numbers of slots.
- Piecewise linear models: any key equal to the sentinel, the largest value of the
  type, also a single one, and with it the branch that ignores the last key
  (`PGM.hpp:88-90`); the exception for intercepts beyond 32 bits; the read of a second
  key by `for_each` when there is one packed segment (`UnalignedPGM.hpp:281`), which is
  behind the end and is not used; the choice of epsilon by cost is any choice.
- `LeMonHashHeuristic` for inputs with a key above the last one: the constructor writes
  such a key out of the bounds of its Elias-Fano sequence (`LeMonHashHeuristic.hpp:60`)
  before it notices the disorder and throws. `Allocate` does not start with them.
- Trees: `ALPHABET_MAPPING = false` with `readInt`, the exception for 2^29 offsets,
  the export of the tree.
- An empty `MultiMap`, and inputs of one key or string where the code divides by
  zero or dereferences nothing.
