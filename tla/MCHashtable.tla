----------------------------- MODULE MCHashtable -----------------------------
(***************************************************************************)
(* Instances of Hashtable for TLC.  With size 1 all keys collide, with 2   *)
(* k1 and k2 do, with 3 k1 and k3 do, with 0 every operation divides by 0. *)
(***************************************************************************)
EXTENDS Hashtable

CONSTANTS k1, k2, k3

MCHash == [k \in Key |-> CASE k = k1 -> 0 [] k = k2 -> 2 [] k = k3 -> 3]
=============================================================================
