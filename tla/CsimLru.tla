------------------------------ MODULE CsimLru --------------------------------
(***************************************************************************)
(* Csim with a history of the order in which the lines of a set were last  *)
(* used, which the program does not keep, to compare its replacement       *)
(* policy with the LRU that the head of src/mps/04/csim.c announces.       *)
(***************************************************************************)
EXTENDS Csim, Sequences

VARIABLE used       \* used[i]: the tags seen by set i, last used first

LruInit ==
    /\ Init
    /\ used = [i \in 0 .. num_sets - 1 |-> <<>>]

LruNext ==
    /\ Next
    /\ used' = [used EXCEPT ![setIndex(address')] =
            LET tag == input_tag(address')
            IN  <<tag>> \o SelectSeq(@, LAMBDA t : t # tag)]

LruSpec == LruInit /\ [][LruNext]_<<vars, used>>

\* "Replacement policy is LRU (least recently used)": a line loses its tag
\* only when all other lines of its set have been used since it was.
EvictsLeastRecent ==
    [][\A i \in 0 .. num_sets - 1 : \A l \in 1 .. E :
        sets[i][l].valid /\ sets'[i][l].tag # sets[i][l].tag
            => sets[i][l].tag = used[i][E]]_<<vars, used>>
=============================================================================
