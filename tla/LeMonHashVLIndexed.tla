------------------------- MODULE LeMonHashVLIndexed -------------------------
(***************************************************************************)
(* lemonhash::LeMonHashVLIndexed (include/LeMonHashVLIndexed.hpp): the     *)
(* tree of LeMonHashVL, but the characters of a node's chunks are those at *)
(* which its strings branch, wherever they are.  A node packs the distinct *)
(* positions into one word, as many as fit, and unpacks them per query.    *)
(***************************************************************************)
EXTENDS LeMonHashVL

CONSTANTS PackedBits,   \* bits of TreeNode::packedIndexes, 64
          packBaseBits  \* bits of it for the first position, 15

ASSUME PackingAssumption ==
    /\ packBaseBits \in Nat /\ PackedBits \in Nat /\ packBaseBits <= PackedBits
    /\ \A bits \in 0 .. PackedBits : 2^bits \in Nat \ {0}

VARIABLE indexed  \* the class that is built: LeMonHashVLIndexed or LeMonHashVL

(***************************************************************************)
(* distinctMinima: the k smallest distinct lcps from lowerBound on.  The   *)
(* first loop collects k of them, the second one exchanges the greatest    *)
(* for a smaller one as long as it finds one.                              *)
(***************************************************************************)
distinctMinima(details, k, lowerBound) ==
    LET all == {details[j].lcp : j \in 1 .. Len(details)}
        from == {x \in all : x >= lowerBound}
    IN  Ascending({x \in from : Cardinality({y \in from : y < x}) < k})

PackDeltaBits(maxIndexesCount) ==
    (PackedBits - packBaseBits) \div (maxIndexesCount - 1)

maxDeltaValue(maxIndexesCount) == 2^PackDeltaBits(maxIndexesCount) - 1

(***************************************************************************)
(* storeIndexes: the first position, then differences, a slot each; one    *)
(* that is too large takes the largest value and goes on in the next slot. *)
(* Slots that are not filled stay 0.                                       *)
(***************************************************************************)
storeIndexes(indexes, maxIndexesCount) ==
    LET most == maxDeltaValue(maxIndexesCount)
        after[slot \in 0 .. maxIndexesCount - 1] ==
            IF slot = 0 THEN [previous |-> indexes[1], deltas |-> <<>>, stored |-> <<indexes[1]>>]
            ELSE LET p == after[slot - 1]
                     next == indexes[Len(p.stored) + 1]
                 IN  IF Len(p.stored) = Len(indexes) THEN [p EXCEPT !.deltas = Append(@, 0)]
                     ELSE IF next - p.previous >= most
                     THEN [p EXCEPT !.previous = @ + most, !.deltas = Append(@, most)]
                     ELSE [previous |-> next, deltas |-> Append(p.deltas, next - p.previous),
                           stored |-> Append(p.stored, next)]
    IN  after[maxIndexesCount - 1]

\* variant that forgets a full slot in front of the zeros
NothingLeft(u) == [u EXCEPT !.stopped = TRUE]

\* only zeros are left: a full slot in front of them still counts
OnlyZerosLeft(u) ==
    [indexes |-> IF u.accumulator > 0
                 THEN Append(u.indexes, u.indexes[Len(u.indexes)] + u.accumulator)
                 ELSE u.indexes,
     accumulator |-> 0, stopped |-> TRUE]

\* getIndexes
getIndexes(packed, maxIndexesCount) ==
    LET most == maxDeltaValue(maxIndexesCount)
        delta == packed.deltas
        after[i \in 0 .. maxIndexesCount - 1] ==
            IF i = 0 THEN [indexes |-> <<packed.base>>, accumulator |-> 0, stopped |-> FALSE]
            ELSE LET u == after[i - 1]
                 IN  CASE u.stopped -> u
                       [] ~ u.stopped /\ (\A slot \in i .. Len(delta) : delta[slot] = 0) ->
                            OnlyZerosLeft(u)
                       [] OTHER ->
                            IF delta[i] = most
                            THEN [u EXCEPT !.accumulator = @ + most]
                            ELSE [u EXCEPT
                                    !.indexes = Append(@, @[Len(@)] + delta[i] + u.accumulator),
                                    !.accumulator = 0]
    IN  after[maxIndexesCount - 1].indexes

MaxIndexes(maps, node) == length64(MapAt(maps, node.alphabetMapIndex))

\* chunks start where one differs from the chunk before
DistinctFrom(all) == {0} \cup {j \in 1 .. Len(all) - 1 : all[j + 1] # all[j]}

EnterIndexedNode ==
    /\ Running("enter")
    /\ \E alphabet \in {NodeAlphabet} :
       LET map == MapAt(alphabet.maps, alphabet.index)
       IN  \E minima \in {distinctMinima(NodeLCPs, length64(map), Top.known)} :
           \E packing \in {storeIndexes(minima, length64(map))} :
           \E all \in {[j \in 1 .. Len(NodeStrings) |->
                           readChunk(map, NodeStrings[j], packing.stored)]} :
           \E firsts \in {Ascending(DistinctFrom(all))} :
              IF minima[1] >= 2^packBaseBits
              THEN /\ pc' = "thrown"
                   /\ UNCHANGED <<strings, lcps, buildVars, entries, asked, answer>>
              ELSE SplitNode(alphabet,
                             [offsetsOffset |-> Len(bucketOffsets[Top.layer]),
                              alphabetMapIndex |-> alphabet.index,
                              reads |-> [base |-> minima[1], deltas |-> packing.deltas]],
                             packing.stored[1], firsts,
                             [c \in 1 .. Len(firsts) |-> all[firsts[c] + 1]])

WalkIndexed ==
    /\ Walking
    /\ \E node \in {AskedNode} :
       \E indexes \in {getIndexes(node.reads, MaxIndexes(alphabetMaps, node))} :
       \E chunk \in {readChunk(MapAt(alphabetMaps, node.alphabetMapIndex),
                              asked.string, indexes)} :
          WalkWith(node, chunk)

IndexedInit == Init /\ indexed \in BOOLEAN

Build == \/ ComputeLCPs
         \/ ~ indexed /\ EnterNode
         \/ indexed /\ EnterIndexedNode
         \/ ChildLoops
         \/ Complete

Answering == (~ indexed /\ Walk) \/ (indexed /\ WalkIndexed)

IndexedNext == (Build \/ Ask \/ Answering) /\ UNCHANGED indexed

\* the constructor and a running query are sequential code that goes on
FairSpec == /\ IndexedInit
            /\ [][IndexedNext]_<<treeVars, indexed>>
            /\ WF_<<treeVars, indexed>>(Build /\ UNCHANGED indexed)
            /\ WF_<<treeVars, indexed>>(Answering /\ UNCHANGED indexed)

-----------------------------------------------------------------------------
(***************************************************************************)
(* The constructor and the query read the same positions: what a node      *)
(* packed is what it unpacks (an assertion of constructNode), also when    *)
(* differences spill over slots or the slots run out.                      *)
(***************************************************************************)
IndexesUnpacked ==
    \A d \in 1 .. Len(stack) :
        (indexed /\ stack[d].phase # "enter") =>
            LET count == MaxIndexes(alphabetMaps, stack[d].node)
                minima == distinctMinima(
                    SubSeq(lcps, stack[d].begin + 1, stack[d].end - 1), count, 0)
            IN  getIndexes(stack[d].node.reads, count) = storeIndexes(minima, count).stored

(***************************************************************************)
(* Construction ends, unless a common prefix is too long to be packed, and *)
(* every query of a string is answered.                                    *)
(***************************************************************************)
QueriesReturn == []<>(pc = "thrown" \/ (pc = "ready" /\ asked = NoQuery))
=============================================================================
