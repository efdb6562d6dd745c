------------------------------ MODULE MCRibbon ------------------------------
(* Small instances of Ribbon. *)
EXTENDS Ribbon, Sequences

\* every key has a bit of its own: sums of values show what was added up
KeySets == {1 .. n : n \in {0, 2, 5}}
OwnBit(x) == {x}

\* the coefficient rows of width two, and the hashes with them
Row == <<{0}, {0, 1}>>
Decoded(c) == [h |-> c \div 2, coeffs |-> Row[(c % 2) + 1]]

\* the items of S in order
Place(x, S) == Cardinality({y \in S : y < x})

(***************************************************************************)
(* Level 0: keys are only names, so they are numbered by their hashes.     *)
(* The next level has few slots and all its starts are alike.  The base:   *)
(* distinct hashes close together; a shared one would never fit.  On both  *)
(* the rows are all alike, or of both kinds in turn.                       *)
(***************************************************************************)
Hashes(l, S) ==
    IF l = 0
    THEN {[x \in S |-> Decoded(g[x])] : g \in {f \in [S -> 2 .. 8] :
             \A x \in S : x + 1 \in S => f[x] <= f[x + 1]}}
    ELSE {[x \in S |-> Decoded(IF l < depth THEN g[x] ELSE 2 * Place(x, S) + g[x])] :
             g \in {[x \in S |-> 0], [x \in S |-> Place(x, S) % 2]}}
=============================================================================
