---------------------------- MODULE LeMonHashVL -----------------------------
(***************************************************************************)
(* lemonhash::LeMonHashVL (include/LeMonHashVL.hpp), the hash function for *)
(* strings of any length: a tree whose nodes split a range of strings by   *)
(* the chunk of characters behind their common prefix.  A node maps chunks *)
(* to its children through a bucket mapper, or stores their ranks; a large *)
(* child is a node of the next layer, the ranks in a small one are stored. *)
(* The nodes of a layer share one sequence of offsets, which they append   *)
(* to as the depth-first construction gets to them.                        *)
(***************************************************************************)
EXTENDS AlphabetMapsCollection, Retrieval

CONSTANTS StringInputs,        \* sorted sequences of distinct strings
          ChunkMappers(_),     \* bucket mappers of an increasing chunk sequence
          AlphabetThreshold,   \* ALPHABET_MAPS_THRESHOLD, 512
          DirectThreshold,     \* DIRECT_RANK_STORING_THRESHOLD, 128
          ChunkThreshold,      \* CHUNK_DIRECT_RANK_STORING_THRESHOLD, 128
          LCPBits,             \* bits of TreeNode::minLCP, 15
          NoAnswer

ASSUME TreeAssumption ==
    /\ \A strs \in StringInputs :
          /\ strs \in Seq(Seq(Chars \ {0})) /\ Len(strs) \in 2 .. WideCapacity
          /\ \A k \in 1 .. Len(strs) - 1 : Precedes(strs[k], strs[k + 1])
    /\ DirectThreshold \in Nat \ {0, 1} /\ LCPBits \in Nat /\ 2^LCPBits \in Nat

VARIABLES strings,
          pc,
          lcps,
          alphabetMaps,
          bucketOffsets,  \* of each layer, from 1; the layers after it are empty
          stack,          \* the calls of constructNode, the running one last
          treeNodes,      \* treeNodesInput, then treeNodes with their hash function
          inputs, entries,
          asked,          \* the query that runs
          answer

buildVars == <<alphabetMaps, bucketOffsets, stack, treeNodes, inputs>>
treeVars == <<strings, pc, lcps, buildVars, entries, asked, answer>>

N == Len(strings)

\* hashes of different strings and of different paths differ
StringHash(s) == <<"string", s>>
AlternativeHash(path) == <<"alternative", path>>
getChild(path, child) == Append(path, child)

Root == <<>>
NoQuery == NoAnswer

\* a call of constructNode(begin, end, ...) that starts; only the nodes of
\* LeMonHashVLIndexed use the known length of the common prefix
Call(begin, end, known, offset, path, layer, ancestor) ==
    [begin |-> begin, end |-> end, known |-> known, offset |-> offset, path |-> path,
     layer |-> layer, ancestor |-> ancestor, phase |-> "enter"]

Init == /\ strings \in StringInputs
        /\ pc = "lcps"
        /\ lcps = <<>>
        /\ alphabetMaps = NoMaps
        /\ bucketOffsets = [layer \in 0 .. N - 1 |-> <<>>]
        /\ stack = <<>>
        /\ treeNodes = {}
        /\ inputs = {} /\ entries = {}
        /\ asked = NoQuery /\ answer = NoAnswer

ComputeLCPs ==
    /\ pc = "lcps"
    /\ lcps' = computeLCPs(strings)
    /\ stack' = <<Call(0, N, 0, 0, Root, 0, 0)>>
    /\ pc' = "nodes"
    /\ UNCHANGED <<strings, alphabetMaps, bucketOffsets, treeNodes, inputs, entries,
                   asked, answer>>

-----------------------------------------------------------------------------
Top == stack[Len(stack)]
Callers == SubSeq(stack, 1, Len(stack) - 1)
Running(phase) == pc = "nodes" /\ stack # <<>> /\ Top.phase = phase

\* the entries of the lcps array between the strings of this node
NodeLCPs == SubSeq(lcps, Top.begin + 1, Top.end - 1)
NodeStrings == SubSeq(strings, Top.begin + 1, Top.end)

\* the collection after this node, and the alphabet that the node uses
NodeAlphabet ==
    LET am == BranchingAlphabet(NodeLCPs)
        wanted == ~ isFullForBits(alphabetMaps) /\ Top.end - Top.begin > AlphabetThreshold
        inherited == [maps |-> alphabetMaps, index |-> Top.ancestor]
    IN  IF isEmpty(alphabetMaps) THEN addOrFindSimilar(alphabetMaps, am)
        ELSE IF ~ wanted \/ length64(am) = length64(MapAt(alphabetMaps, Top.ancestor))
             THEN inherited ELSE addOrFindSimilar(alphabetMaps, am)

\* the first characters behind the common prefix of a node
PrefixPositions(minLCP, width) == [k \in 1 .. width |-> minLCP + k - 1]

extractChunk(maps, node, s) ==
    LET map == MapAt(maps, node.alphabetMapIndex)
    IN  readChunk(map, s, PrefixPositions(node.reads, length64(map)))

\* variant that starts a chunk where the next one begins
ChunkStartsLate(reads, width) ==
    {0} \cup {j \in 1 .. Len(NodeLCPs) : NodeLCPs[j].lcp - reads <= width}

\* the strings of the node at which a new chunk starts
ChunkStarts(reads, width) ==
    {0} \cup {j \in 1 .. Len(NodeLCPs) : NodeLCPs[j].lcp - reads < width}

(***************************************************************************)
(* The rest of constructNode's first half, once the node knows what to     *)
(* read: a mapper is tried for many chunks, and kept if it separates them. *)
(***************************************************************************)
SplitNode(alphabet, node, known, firsts, chunks) ==
    LET Enter(loop, mapper) ==
            stack' = Append(Callers,
                [begin |-> Top.begin, end |-> Top.end, offset |-> Top.offset,
                 path |-> Top.path, layer |-> Top.layer, known |-> known, phase |-> loop,
                 node |-> node, mapper |-> mapper, chunks |-> chunks,
                 chunksOffsets |-> Append(firsts, Top.end - Top.begin),
                 next |-> 1, prevBucket |-> 0, currentBucketBegin |-> Top.begin,
                 bucketSizePrefixTemp |-> 0])
        Direct == Enter("ranks", NoAnswer)
        Separates(m) == m.bucketOf[chunks[1]] # m.bucketOf[chunks[Len(chunks)]]
    IN  /\ alphabetMaps' = alphabet.maps
        /\ IF Len(chunks) > ChunkThreshold
           THEN \E m \in ChunkMappers(chunks) :
                   IF Separates(m) THEN Enter("buckets", m) ELSE Direct
           ELSE Direct
        /\ UNCHANGED <<strings, pc, lcps, bucketOffsets, treeNodes, inputs, entries,
                       asked, answer>>

EnterNode ==
    /\ Running("enter")
    /\ \E alphabet \in {NodeAlphabet} :
       \E node \in {[offsetsOffset |-> Len(bucketOffsets[Top.layer]),
                     alphabetMapIndex |-> alphabet.index,
                     reads |-> MinLCP(NodeLCPs) % 2^LCPBits]} :
       \E firsts \in {Ascending(ChunkStarts(node.reads,
                            length64(MapAt(alphabet.maps, alphabet.index))))} :
           SplitNode(alphabet, node, Top.known, firsts,
                     [c \in 1 .. Len(firsts) |->
                         extractChunk(alphabet.maps, node, NodeStrings[firsts[c] + 1])])

(***************************************************************************)
(* constructChild of the strings from currentBucketBegin to `end`, while   *)
(* the caller goes on with `rest` and has added some retrieval inputs.     *)
(***************************************************************************)
ChildRanks(end) ==
    LET begin == Top.currentBucketBegin
    IN  IF end - begin \in 2 .. DirectThreshold - 1
        THEN {Input(end - begin, StringHash(strings[begin + j + 1]), j) :
                 j \in 0 .. end - begin - 1}
        ELSE {}

ChildOffset == Top.offset + Top.bucketSizePrefixTemp

constructChild(end, bucket, added, rest) ==
    LET begin == Top.currentBucketBegin
        goesOn == [rest EXCEPT !.currentBucketBegin = end,
                               !.bucketSizePrefixTemp = @ + (end - begin)]
        child == Call(begin, end, Top.known, ChildOffset,
                      getChild(Top.path, bucket), Top.layer + 1,
                      Top.node.alphabetMapIndex)
    IN  /\ bucketOffsets' = [bucketOffsets EXCEPT ![Top.layer] = Append(@, ChildOffset)]
        /\ inputs' = inputs \cup added \cup ChildRanks(end)
        /\ stack' = Append(Callers, goesOn)
                        \o (IF end - begin >= DirectThreshold THEN <<child>> ELSE <<>>)
        /\ UNCHANGED <<strings, pc, lcps, alphabetMaps, treeNodes, entries, asked, answer>>

Advance(rest) ==
    /\ stack' = Append(Callers, rest)
    /\ UNCHANGED <<strings, pc, lcps, alphabetMaps, bucketOffsets, treeNodes, inputs,
                   entries, asked, answer>>

\* where chunk c of this node begins, among all strings
ChunkBegin(c) == Top.begin + Top.chunksOffsets[c]
MoreChunks == Top.next <= Len(Top.chunks)
NextBucket == Top.mapper.bucketOf[Top.chunks[Top.next]]

\* a round of the while loop of the callback
CloseBucket ==
    /\ Running("buckets") /\ MoreChunks
    /\ Top.prevBucket < NextBucket
    /\ constructChild(ChunkBegin(Top.next), Top.prevBucket, {},
                      [Top EXCEPT !.prevBucket = @ + 1])

\* variant that hands the same chunk over again
NextChunkStaying ==
    /\ Running("buckets") /\ MoreChunks
    /\ Top.prevBucket >= NextBucket
    /\ Advance(Top)

NextChunk ==
    /\ Running("buckets") /\ MoreChunks
    /\ Top.prevBucket >= NextBucket
    /\ Advance([Top EXCEPT !.next = @ + 1])

CloseLastBucket ==
    /\ Running("buckets") /\ ~ MoreChunks
    /\ IF Top.currentBucketBegin # Top.end
       THEN constructChild(Top.end, Top.prevBucket, {}, [Top EXCEPT !.phase = "leave"])
       ELSE Advance([Top EXCEPT !.phase = "leave"])

\* a round of the loop that stores the ranks of chunks
StoreChunkRank ==
    /\ Running("ranks") /\ MoreChunks
    /\ constructChild(ChunkBegin(Top.next + 1), Top.next - 1,
                      {Input(Len(Top.chunks),
                             AlternativeHash(getChild(Top.path, Top.chunks[Top.next])),
                             Top.next - 1)},
                      [Top EXCEPT !.next = @ + 1])

\* the node as the tree keeps it, under its path
NodeOf(call) == [path |-> call.path, numChildren |-> Len(call.chunks),
                 mapper |-> call.mapper,
                 offsetsOffset |-> call.node.offsetsOffset,
                 alphabetMapIndex |-> call.node.alphabetMapIndex,
                 reads |-> call.node.reads]

\* the end of constructNode
LeaveNode ==
    /\ Running("leave") \/ (Running("ranks") /\ ~ MoreChunks)
    /\ bucketOffsets' = [bucketOffsets EXCEPT
            ![Top.layer] = Append(@, Top.offset + (Top.end - Top.begin))]
    /\ treeNodes' = treeNodes \cup {NodeOf(Top)}
    /\ stack' = Callers
    /\ UNCHANGED <<strings, pc, lcps, alphabetMaps, inputs, entries, asked, answer>>

\* retrieval.build() and the completion of the offsets and nodes
Complete ==
    /\ pc = "nodes" /\ stack = <<>>
    /\ entries' = inputs
    /\ inputs' = {}
    /\ pc' = "ready"
    /\ UNCHANGED <<strings, lcps, alphabetMaps, bucketOffsets, stack, treeNodes, asked,
                   answer>>

-----------------------------------------------------------------------------
\* bound: a query changes nothing but its answer, so there is one
Ask ==
    /\ pc = "ready" /\ asked = NoQuery /\ answer = NoAnswer
    /\ \E j \in 1 .. N : asked' = [string |-> strings[j], path |-> Root, layer |-> 0]
    /\ UNCHANGED <<strings, pc, lcps, buildVars, entries, answer>>

\* the node of the path; the only node is found without a hash function
AskedNode == CHOOSE node \in treeNodes :
                Cardinality(treeNodes) # 1 => node.path = asked.path

\* the buckets that the node may find for a chunk
BucketsOf(node, chunk) ==
    IF node.mapper = NoAnswer
    THEN Retrieve(entries, node.numChildren, AlternativeHash(getChild(asked.path, chunk)))
    ELSE {node.mapper.bucketOf[chunk]}

Offset(node, bucket) == bucketOffsets[asked.layer][node.offsetsOffset + bucket + 1]

\* a round of the loop of operator(), in which the node reads this chunk
WalkWith(node, chunk) ==
    /\ \E bucket \in BucketsOf(node, chunk) :
          LET bucketOffset == Offset(node, bucket)
              bucketSize == Offset(node, bucket + 1) - bucketOffset
              Return(r) == /\ answer' = [key |-> asked.string, rank |-> r]
                           /\ asked' = NoQuery
          IN  CASE bucketSize = 1 -> Return(bucketOffset)
                [] bucketSize \in (0 .. DirectThreshold - 1) \ {1} ->
                     \E r \in Retrieve(entries, bucketSize, StringHash(asked.string)) :
                        Return(bucketOffset + r)
                [] OTHER ->
                     /\ asked' = [asked EXCEPT !.path = getChild(@, bucket),
                                               !.layer = @ + 1]
                     /\ UNCHANGED answer
    /\ UNCHANGED <<strings, pc, lcps, buildVars, entries>>

Walking == pc = "ready" /\ asked # NoQuery

Walk == /\ Walking
        /\ \E node \in {AskedNode} :
           \E chunk \in {extractChunk(alphabetMaps, node, asked.string)} :
              WalkWith(node, chunk)

ChildLoops == \/ CloseBucket
              \/ NextChunk
              \/ CloseLastBucket
              \/ StoreChunkRank
              \/ LeaveNode

Next == \/ ComputeLCPs \/ EnterNode \/ ChildLoops \/ Complete
        \/ Ask \/ Walk

Spec == Init /\ [][Next]_treeVars

-----------------------------------------------------------------------------
(***************************************************************************)
(* Every node finds two or more chunks, in increasing order (both are      *)
(* assertions: "If all were the same, we would have not cut off enough"),  *)
(* although it may read them through the alphabet of an ancestor, or one   *)
(* that was made for other strings, and its common prefix is at least as   *)
(* long as its ancestors'.                                                 *)
(***************************************************************************)
ChunksBranch ==
    \A d \in 1 .. Len(stack) :
        stack[d].phase # "enter" =>
            /\ Len(stack[d].chunks) >= 2
            /\ \A c \in 1 .. Len(stack[d].chunks) - 1 :
                  stack[d].chunks[c] < stack[d].chunks[c + 1]

Abstract == INSTANCE MMPHF WITH Inputs <- StringInputs, data <- strings,
                                ready <- pc = "ready"

(***************************************************************************)
(* It implements the abstract minimal perfect hash function: the walk down *)
(* the nodes, offsets and stored ranks ends at the rank of the string.     *)
(***************************************************************************)
TreeImplementsMMPHF == Abstract!Spec
=============================================================================
