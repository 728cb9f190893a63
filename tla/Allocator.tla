------------------------------ MODULE Allocator ------------------------------
(***************************************************************************)
(* What a malloc package promises: a new payload lies in the heap and      *)
(* shares nothing with the payloads that are in use.  Which free place it  *)
(* gets, and whether realloc moves it, is left open.                       *)
(***************************************************************************)
EXTENDS Integers

CONSTANTS
    Index,          \* the names of the requests' blocks
    lowest, highest \* the ends of the memory the heap may take

VARIABLE payload    \* payload[i]: the first and last address of block i

Places == lowest .. highest

Extents == {e \in Places \X Places : e[1] =< e[2]}

Init == payload = [i \in {} |-> <<0, 0>>]

Apart(e, f) == e[2] < f[1] \/ f[2] < e[1]

\* A place for i, which may overlap the place i has.
Fits(i, e) == \A j \in DOMAIN payload \ {i} : Apart(e, payload[j])

\* i has a place of the package's choice, the others keep theirs.
Given(i) ==
    /\ i \in DOMAIN payload'
    /\ payload'[i] \in Extents
    /\ Fits(i, payload'[i])
    /\ payload' = [j \in DOMAIN payload \cup {i} |-> IF j = i THEN payload'[i] ELSE payload[j]]

Malloc(i) == i \notin DOMAIN payload /\ Given(i)

Realloc(i) == i \in DOMAIN payload /\ Given(i)

Free(i) ==
    /\ i \in DOMAIN payload
    /\ payload' = [j \in DOMAIN payload \ {i} |-> payload[j]]

\* The heap is emptied for another trace.
Reset == payload' = [i \in {} |-> <<0, 0>>]

Next == (\E i \in Index : Malloc(i) \/ Realloc(i) \/ Free(i)) \/ Reset

Spec == Init /\ [][Next]_payload

-----------------------------------------------------------------------------

TypeOK ==
    /\ DOMAIN payload \subseteq Index
    /\ payload \in [DOMAIN payload -> Extents]

\* No address belongs to two payloads.
NothingShared ==
    \A i, j \in DOMAIN payload : \A a \in Places :
        /\ i # j
        /\ payload[i][1] =< a /\ a =< payload[i][2]
        => ~(payload[j][1] =< a /\ a =< payload[j][2])
=============================================================================
