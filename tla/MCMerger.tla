------------------------------ MODULE MCMerger ------------------------------
(***************************************************************************)
(* Merger with readers and sources that are all alike.                     *)
(***************************************************************************)
EXTENDS Merger, TLC

Symmetry == Permutations(Client) \cup Permutations(Url)

=============================================================================
