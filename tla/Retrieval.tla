------------------------------ MODULE Retrieval ------------------------------
(***************************************************************************)
(* MultiRetrievalDataStructure (extlib/simpleRibbon/include): ten ribbon   *)
(* retrieval tables, one per width of the stored values.  The range given  *)
(* to addInput and to query picks the table.  A ribbon returns the value   *)
(* of a key it was built with and an arbitrary value of its width for any  *)
(* other key, or for one it was given two values for.                      *)
(***************************************************************************)
EXTENDS Integers, Sequences

CONSTANT WideCapacity  \* 2^32: values of the table for ranges above 2^9

ASSUME WideCapacityAssumption ==
    WideCapacity \in Nat /\ WideCapacity > 512

\* how many values each table can hold: 1 to 9 bits, then 32
Capacity == <<2, 4, 8, 16, 32, 64, 128, 256, 512, WideCapacity>>

Tables == 1 .. 10

\* the first table wide enough; the last one takes everything else
TableFor(range) ==
    CHOOSE t \in Tables : /\ t = 10 \/ range <= Capacity[t]
                          /\ \A u \in 1 .. t - 1 : range > Capacity[u]

\* what addInput appends: the value loses the bits its table has no room for
Input(range, key, value) ==
    [table |-> TableFor(range), key |-> key,
     value |-> value % Capacity[TableFor(range)]]

\* every value query may return from the built tables
Retrieve(entries, range, key) ==
    LET hits == {e \in entries : e.key = key /\ e.table = TableFor(range)}
    IN  IF hits # {} /\ \A e1, e2 \in hits : e1.value = e2.value
        THEN {e.value : e \in hits}
        ELSE 0 .. Capacity[TableFor(range)] - 1
=============================================================================
