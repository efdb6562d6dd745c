------------------------- MODULE SequenceContainers -------------------------
(***************************************************************************)
(* The compressed sequences of support/sequence, side by side: the same    *)
(* values are appended to each and each is then completed.  They are       *)
(* interchangeable template parameters of one another and promise the      *)
(* same: at(i) is the value appended as the i-th.                          *)
(***************************************************************************)
EXTENDS DuplicateFilterRank, DuplicateFilterRunlength, DuplicatesAwareEliasFano

CONSTANTS MaxLength,  \* bound on the number of values
          MaxValue    \* bound on the values

ASSUME BoundsAssumption == MaxLength \in Nat \ {0} /\ MaxValue \in Nat
\* arithmetic that low parts of Elias-Fano sequences rest on
ASSUME PowersAssumption ==
    \A n \in {MaxLength, MaxValue} : \A k \in 0 .. 2 * n + 3 :
        2^k \in Nat \ {0} /\ 2^0 = 1 /\ 2^(k + 1) = 2 * 2^k

VARIABLES values,     \* what was appended, in order
          rankFilter, runFilter, aware, fano,
          sequential, \* written when all values are known
          completed

containerVars == <<values, rankFilter, runFilter, aware, fano, sequential, completed>>

\* an EliasFanoM is told its room and its largest value in advance
Init == /\ values = <<>>
        /\ rankFilter = EmptyFilter
        /\ runFilter = EmptyRuns
        /\ aware = EmptyAware
        /\ \E num \in 1 .. MaxLength, maxValue \in 0 .. MaxValue :
              fano = EliasFanoM(num, maxValue)
        /\ sequential = <<>>
        /\ completed = FALSE

AppendValue(x) ==
    /\ ~ completed
    /\ Len(values) < size(fano)
    /\ values # <<>> => x >= values[Len(values)]
    /\ x <= fano.maxValue
    /\ values' = Append(values, x)
    /\ rankFilter' = FilterAppend(rankFilter, x)
    /\ runFilter' = RunsAppend(runFilter, x)
    /\ aware' = AwareAppend(aware, x)
    /\ fano' = push_back(fano, x)
    /\ UNCHANGED <<sequential, completed>>

\* complete, buildRankSelect; SequentialEliasFano::write at any bit of a word
Complete ==
    /\ ~ completed
    /\ values # <<>>
    /\ completed' = TRUE
    /\ rankFilter' = FilterComplete(rankFilter)
    /\ runFilter' = RunsComplete(runFilter)
    /\ aware' = AwareComplete(aware)
    /\ \E offset \in 0 .. WordBits - 1 : sequential' = write(offset, values)
    /\ UNCHANGED <<values, fano>>

Next == (\E x \in 0 .. MaxValue : AppendValue(x)) \/ Complete

Spec == Init /\ [][Next]_containerVars

-----------------------------------------------------------------------------
Positions == 0 .. Len(values) - 1
Value(i) == values[i + 1]

(***************************************************************************)
(* The inductive invariant behind RankFilterAnswers, of a filter that vs   *)
(* was appended to.  All values but those of the insertion buffer are      *)
(* found again.                                                            *)
(***************************************************************************)
FilterFinds(f, vs, handled) ==
    \A i \in 0 .. handled - 1 :
        /\ FilterIndex(f, i) \in 0 .. i
        /\ FilterIndex(f, i) < Len(f.child)
        /\ FilterAt(f, i) = vs[i + 1]

\* whole areas have been handled, and the child holds the stored ones
WholeAreas(f, handled) ==
    /\ handled % FILTER_GRANULARITY = 0
    /\ Len(f.child) = FILTER_GRANULARITY * Cardinality(f.stored)
    /\ Len(f.child) <= handled
    /\ \A a \in f.stored : (a + 1) * FILTER_GRANULARITY <= handled

FilterFollows(f, vs, done) ==
    LET buffer == f.insertionBuffer
        handled == Len(vs) - Len(buffer)
    IN  /\ f.n = Len(vs)
        /\ buffer \in Seq(Nat) /\ Len(buffer) <= Len(vs)
        /\ \A k \in 1 .. Len(buffer) : buffer[k] = vs[handled + k]
        /\ f.areas \in Nat /\ 0 \in f.stored /\ f.stored \subseteq 0 .. f.areas - 1
        /\ f.child \in Seq(Nat)
        /\ vs # <<>> => f.child # <<>> /\ f.lastValueOfPreviousArea = LastOf(f.child)
        /\ FilterFinds(f, vs, handled)
        /\ done => buffer = <<>>
        /\ Len(vs) < FILTER_GRANULARITY =>
              buffer = <<>> /\ f.stored = {0} /\ Len(f.child) = Len(vs)
        /\ ~ done /\ Len(vs) >= FILTER_GRANULARITY =>
              Len(buffer) < FILTER_GRANULARITY /\ WholeAreas(f, handled)

(***************************************************************************)
(* The inductive invariant behind AwareAnswersBeforeTail, of a sequence    *)
(* that vs was appended to: behind j repeated positions, position i holds  *)
(* distinct value i - j.                                                   *)
(***************************************************************************)
\* j elements of s, the first ones, are not above i
Cuts(s, j, i) ==
    /\ j \in 0 .. Len(s)
    /\ \A k \in 1 .. j : s[k] <= i
    /\ \A k \in j + 1 .. Len(s) : s[k] > i

Increasing(s) == \A k, l \in 1 .. Len(s) : k < l => s[k] < s[l]

AwareFinds(d, vs) ==
    \A i \in 0 .. Len(vs) - 1 : \A j \in 0 .. Len(d.duplicates) :
        Cuts(d.duplicates, j, i) =>
            i - j \in 0 .. Len(d.distinct) - 1 /\ d.distinct[i - j + 1] = vs[i + 1]

AwareFollows(d, vs) ==
    /\ d.n = Len(vs) /\ ~ d.hasDuplicates /\ ~ d.complement
    /\ d.distinct \in Seq(Nat) /\ d.duplicates \in Seq(Nat)
    /\ Len(d.distinct) + Len(d.duplicates) = Len(vs)
    /\ vs # <<>> => d.distinct # <<>>
    /\ \A k \in 1 .. Len(d.duplicates) : d.duplicates[k] \in 1 .. Len(vs) - 1
    /\ Increasing(d.duplicates)
    /\ AwareFinds(d, vs)

(***************************************************************************)
(* The inductive invariant behind RunFilterAnswers, of a filter that vs    *)
(* was appended to.  Run k of those dropped starts at starts[k], behind    *)
(* Dropped(f)[k] copies dropped before it.                                 *)
(***************************************************************************)
Dropped(f) == Append(f.prefixes, f.prefixTmp)

\* where position i, not in front of run j but of the next, is stored
StoredAt(starts, dropped, j, i) ==
    IF j = 0 THEN i
    ELSE IF i - starts[j] < dropped[j + 1] - dropped[j]
         THEN starts[j] - 1 - dropped[j]
         ELSE i - dropped[j + 1]

RunsFind(starts, dropped, child, vs, handled) ==
    \A i \in 0 .. handled - 1 : \A j \in 0 .. Len(starts) :
        Cuts(starts, j, i) =>
            LET k == StoredAt(starts, dropped, j, i)
            IN  k \in 0 .. Len(child) - 1 /\ child[k + 1] = vs[i + 1]

\* the runs are long, behind a stored value each, and end before position end
LongRuns(starts, dropped, end) ==
    /\ starts \in Seq(Nat) /\ dropped \in Seq(Nat)
    /\ Len(dropped) = Len(starts) + 1 /\ dropped[1] = 0
    /\ \A k \in 1 .. Len(starts) :
          /\ dropped[k + 1] - dropped[k] >= MIN_DUPLICATES
          /\ starts[k] > 0
          /\ starts[k] + (dropped[k + 1] - dropped[k]) <= end
    /\ Increasing(starts)

RunsFollow(f, vs) ==
    LET dups == f.duplicatesOfPreviousValue
        handled == Len(vs) - dups
    IN  /\ f.n = Len(vs)
        /\ vs = <<>> => f = EmptyRuns
        /\ vs # <<>> =>
              /\ dups \in 0 .. Len(vs) - 1
              /\ \A k \in handled .. Len(vs) : vs[k] = f.previousValue
              /\ f.child \in Seq(Nat) /\ f.child # <<>>
              /\ LastOf(f.child) = f.previousValue
              /\ Len(f.child) = handled - f.prefixTmp
              /\ LongRuns(f.starts, Dropped(f), handled - 1)
              /\ RunsFind(f.starts, Dropped(f), f.child, vs, handled)

(***************************************************************************)
(* The inductive invariant behind PredecessorFound and IteratorsMove, of   *)
(* an EliasFanoM that vs was pushed to.                                    *)
(***************************************************************************)
Codes(ef, vs) ==
    LET parts == 2^ef.width
    IN  /\ ef.count = Len(vs) /\ Len(vs) <= size(ef)
        /\ ef.H = {vs[k + 1] \div parts + k : k \in 0 .. Len(vs) - 1}
        /\ \A k \in 0 .. Len(vs) - 1 : ef.L[k] = vs[k + 1] % parts
        /\ ef.H_size = ef.maxValue \div parts + size(ef) + 1

Ordered(vs, top) ==
    /\ \A k, l \in 1 .. Len(vs) : k <= l => vs[k] <= vs[l]
    /\ \A k \in 1 .. Len(vs) : vs[k] <= top

(***************************************************************************)
(* Areas that were not stored are found again: rank over the stored areas  *)
(* leads to the value at position i, never behind it (the assertion of     *)
(* at), and the bit of every area fits the bit vector that grows with it.  *)
(***************************************************************************)
RankFilterAnswers ==
    /\ \A a \in rankFilter.stored : a < rankFilter.areas
    /\ completed => \A i \in Positions :
          /\ FilterIndex(rankFilter, i) \in 0 .. i
          /\ FilterIndex(rankFilter, i) < Len(rankFilter.child)
          /\ FilterAt(rankFilter, i) = Value(i)

(***************************************************************************)
(* Runs that were dropped are found again through the predecessor among    *)
(* the run starts and the number of copies dropped before it.              *)
(***************************************************************************)
RunFilterAnswers ==
    completed => \A i \in Positions :
        /\ RunsIndex(runFilter, i) \in 0 .. Len(runFilter.child) - 1
        /\ RunsAt(runFilter, i) = Value(i)

\* positions behind the last first occurrence, when those are stored
InTail(d, i) ==
    d.complement /\ \A k \in 1 .. Len(d.duplicates) : d.duplicates[k] < i

(***************************************************************************)
(* DuplicatesAwareEliasFano answers for every position but those behind    *)
(* the last first occurrence, when it stores the first occurrences: there  *)
(* next_geq runs to its end and at reads behind the distinct values.       *)
(***************************************************************************)
AwareAnswersBeforeTail ==
    completed => \A i \in Positions :
        ~ InTail(aware, i) => AwareAt(aware, i) = Value(i)

(***************************************************************************)
(* predecessorPosition "Returns an ElementPointer to the last stored       *)
(* element that is <= the parameter.  When multiple duplicate elements     *)
(* are stored, returns any occurrence."                                    *)
(***************************************************************************)
PredecessorFound ==
    completed => \A x \in Value(0) .. fano.maxValue :
        LET p == predecessorPosition(fano, x)
        IN  /\ p.positionL \in Positions
            /\ p = at(fano, p.positionL)
            /\ Value(p.positionL) <= x
            /\ \A i \in Positions :
                  i > p.positionL => Value(i) > x \/ Value(i) = Value(p.positionL)

(***************************************************************************)
(* Both kinds of iterators read the values and move to their neighbours    *)
(* without another select, forwards and backwards, those of EliasFanoM     *)
(* also one step beyond the last element; the sequential one if the high   *)
(* part of the first value is 0, as its only users guarantee.              *)
(***************************************************************************)
IteratorsMove ==
    completed => \A i \in Positions :
        /\ LET p == at(fano, i)
           IN  /\ Element(fano, p) = Value(i)
               /\ i = 0 => p = begin(fano)
               /\ i + 1 \in Positions => Increment(fano, p) = at(fano, i + 1)
               /\ Decrement(fano, Increment(fano, p)) = p
        /\ Value(0) \div 2^sequential.l = 0 =>
               LET it == Seek(sequential, i)
               IN  /\ Read(sequential, it) = Value(i)
                   /\ i > 0 => Retreat(sequential, it) = Seek(sequential, i - 1)
=============================================================================
