---------------------- MODULE DuplicatesAwareEliasFano ----------------------
(***************************************************************************)
(* DuplicatesAwareEliasFano: the distinct values, and the positions of     *)
(* either the repeated or, when those are fewer, the first occurrences     *)
(* (`complement`).  The sequences of ds2i are what they answer.            *)
(***************************************************************************)
EXTENDS Integers, Sequences

EmptyAware == [n |-> 0, distinct |-> <<>>, duplicates |-> <<>>,
               hasDuplicates |-> FALSE, complement |-> FALSE]

AwareAppend(d, x) ==
    IF d.n = 0 \/ d.distinct[Len(d.distinct)] # x
    THEN [d EXCEPT !.distinct = Append(@, x), !.n = @ + 1]
    ELSE [d EXCEPT !.duplicates = Append(@, d.n), !.n = @ + 1]

\* the positions that are not repeated ones; position 0 never is
Complemented(d) ==
    LET Repeated(p) == \E k \in 1 .. Len(d.duplicates) : d.duplicates[k] = p
        before[p \in 0 .. d.n] ==
            IF p = 0 THEN <<>>
            ELSE IF Repeated(p - 1) THEN before[p - 1]
            ELSE Append(before[p - 1], p - 1)
    IN  before[d.n]

AwareComplete(d) ==
    LET dups == Len(d.duplicates)
    IN  IF dups = 0 THEN d
        ELSE IF d.n - dups < dups
        THEN [d EXCEPT !.hasDuplicates = TRUE, !.complement = TRUE,
                       !.duplicates = Complemented(d)]
        ELSE [d EXCEPT !.hasDuplicates = TRUE]

\* an enumerator at its end shows the universe, the last value plus 1
Move(s, j) == IF j < Len(s) THEN s[j + 1] ELSE s[Len(s)] + 1

\* the first position whose value is not less than i
next_geq(s, i) ==
    LET pos == CHOOSE j \in 0 .. Len(s) :
                   /\ j < Len(s) => s[j + 1] >= i
                   /\ \A k \in 1 .. j : s[k] < i
    IN  [pos |-> pos, val |-> Move(s, pos)]

\* variant that counts the value found as passed
AwareIndexInclusive(d, i) ==
    LET found == next_geq(d.duplicates, i)
    IN  IF ~ d.hasDuplicates THEN i
        ELSE IF d.complement
        THEN IF found.val > i /\ found.pos > 0 THEN found.pos - 1 ELSE found.pos
        ELSE i - found.pos

\* where at(i) reads the distinct values
AwareIndex(d, i) ==
    LET found == next_geq(d.duplicates, i)
    IN  IF ~ d.hasDuplicates THEN i
        ELSE IF d.complement
        THEN IF found.val > i /\ found.pos > 0 THEN found.pos - 1 ELSE found.pos
        ELSE IF found.val = i /\ found.pos < Len(d.duplicates)
        THEN i - found.pos - 1
        ELSE i - found.pos

AwareAt(d, i) == Move(d.distinct, AwareIndex(d, i))
=============================================================================
