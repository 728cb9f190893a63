------------------------------ MODULE SetCache -------------------------------
(***************************************************************************)
(* A set-associative cache with 2^s sets of E lines of 2^b bytes, as the   *)
(* options of src/mps/04/csim.c describe it: which accesses hit, miss and  *)
(* evict, whatever line the replacement policy evicts.  Csim is shown to   *)
(* implement this specification.                                           *)
(***************************************************************************)
EXTENDS Integers, FiniteSets

CONSTANTS s, b, E, Address

VARIABLES
    held,       \* held[i]: the blocks that set i holds
    hits, misses, evictions

vars == <<held, hits, misses, evictions>>

BlockOf(a) == a \div 2^b

SetOf(a) == BlockOf(a) % 2^s

Init ==
    /\ held = [i \in 0 .. 2^s - 1 |-> {}]
    /\ hits = 0
    /\ misses = 0
    /\ evictions = 0

Hit(a) ==
    /\ BlockOf(a) \in held[SetOf(a)]
    /\ hits' = hits + 1
    /\ UNCHANGED <<held, misses, evictions>>

\* The block comes in, and one goes if the set was full.
Miss(a) ==
    /\ BlockOf(a) \notin held[SetOf(a)]
    /\ misses' = misses + 1
    /\ \/ /\ Cardinality(held[SetOf(a)]) < E
          /\ held' = [held EXCEPT ![SetOf(a)] = @ \cup {BlockOf(a)}]
          /\ UNCHANGED evictions
       \/ /\ Cardinality(held[SetOf(a)]) = E
          /\ \E old \in held[SetOf(a)] :
                held' = [held EXCEPT ![SetOf(a)] = (@ \ {old}) \cup {BlockOf(a)}]
          /\ evictions' = evictions + 1
    /\ UNCHANGED hits

Next == \E a \in Address : Hit(a) \/ Miss(a)

Spec == Init /\ [][Next]_vars
=============================================================================
