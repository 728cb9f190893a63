----------------------------- MODULE Dictionary ------------------------------
(***************************************************************************)
(* What the hashtable of src/mps/02 promises: a finite map from keys to    *)
(* values, which rehashing leaves alone.  Hashtable is shown to implement    *)
(* this specification.                                                     *)
(***************************************************************************)
EXTENDS FiniteSets

CONSTANTS Key, Val, NoVal

VARIABLES
    dict,       \* dict[k]: the value of k, NoVal when k is absent
    last        \* the last command, with its result

vars == <<dict, last>>

Present == {k \in Key : dict[k] # NoVal}

Init ==
    /\ dict = [k \in Key |-> NoVal]
    /\ last = <<"start">>

Put(k, v) ==
    /\ last' = <<"put", k, v>>
    /\ dict' = [dict EXCEPT ![k] = v]

Del(k) ==
    /\ last' = <<"del", k>>
    /\ dict' = [dict EXCEPT ![k] = NoVal]

Get(k) ==
    /\ last' = <<"get", k, dict[k]>>
    /\ UNCHANGED dict

Rehash ==
    /\ last' = <<"rehash">>
    /\ UNCHANGED dict

\* The number of entries.
Info ==
    /\ last' = <<"info", Cardinality(Present)>>
    /\ UNCHANGED dict

Next ==
    \/ \E k \in Key, v \in Val : Put(k, v)
    \/ \E k \in Key : Del(k) \/ Get(k)
    \/ Rehash
    \/ Info

Spec == Init /\ [][Next]_vars
=============================================================================
