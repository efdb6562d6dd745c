------------------------------- MODULE MMPHF -------------------------------
(***************************************************************************)
(* What every hash function of the repository promises: built once from    *)
(* a sorted sequence of distinct keys, it then maps each key to its rank   *)
(* (monotone, minimal and perfect at once).  The benchmarks state it as    *)
(* `hash(inputData.at(i)) == i`.  Keys outside the input have no specified *)
(* answer, so they are never asked.                                        *)
(***************************************************************************)
EXTENDS Integers, Sequences

CONSTANTS Inputs,     \* the key sequences a function may be built from
          NoAnswer    \* no query has been answered yet

VARIABLES data,       \* the keys the function is built from
          ready,      \* the constructor has returned
          answer      \* the last query and its result

Init == /\ data \in Inputs
        /\ ready = FALSE
        /\ answer = NoAnswer

Construct == /\ ~ ready
             /\ ready' = TRUE
             /\ UNCHANGED <<data, answer>>

Query == /\ ready
         /\ \E k \in 0 .. Len(data) - 1 :
               answer' = [key |-> data[k + 1], rank |-> k]
         /\ UNCHANGED <<data, ready>>

Next == Construct \/ Query

Spec == Init /\ [][Next]_<<data, ready, answer>>
=============================================================================
