-------------------------------- MODULE MCTsh --------------------------------
(***************************************************************************)
(* Instances of Tsh for TLC.  Process ids are model values and the shell   *)
(* treats them alike, so the safety runs use them as a symmetry set.       *)
(***************************************************************************)
EXTENDS Tsh, TLC

Symmetry == Permutations(Pid)
=============================================================================
