---------------------------- MODULE MCFetchPool ----------------------------
(***************************************************************************)
(* FetchPool on three sources and two workers: two of the sources share a  *)
(* host, the third has one of its own.  The cache is empty, as in the      *)
(* first call, or holds what a later call finds: one feed that has changed *)
(* since, one that has not, and one that has never been fetched.           *)
(***************************************************************************)
EXTENDS FetchPool

CONSTANTS h1, h2

ThreeSources == <<"u1", "u2", "u3">>
TwoHosts == [u \in Url |-> IF u = "u3" THEN h2 ELSE h1]

Caches ==
  {[u \in Url |-> 0],
   [u \in Url |-> CASE u = "u1" -> Outdated [] u = "u2" -> Current [] u = "u3" -> 0]}

=============================================================================
