--------------------------- MODULE MCHostLimiter ---------------------------
(***************************************************************************)
(* HostLimiter on three callers and two hosts: two callers can contend for *)
(* one gate while a third sleeps at it or works at the other.  Callers are *)
(* interchangeable, and so are hosts; liveness runs without the symmetry.  *)
(***************************************************************************)
EXTENDS HostLimiter, TLC

Symmetry == Permutations(Caller) \cup Permutations(Host)

=============================================================================
