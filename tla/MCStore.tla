------------------------------ MODULE MCStore ------------------------------
(***************************************************************************)
(* Store on two entries that can be stored at two times.                   *)
(***************************************************************************)
EXTENDS Store

Symmetry == Permutations(Id)

=============================================================================
