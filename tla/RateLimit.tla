----------------------------- MODULE RateLimit -----------------------------
(***************************************************************************)
(* What the per-host limiter of internal/fetch promises its callers, with  *)
(* none of its machinery: requests to one host come one at a time, and a   *)
(* request starts only when Interval units of time have passed since the   *)
(* previous request to that host ended.  HostLimiter implements it.        *)
(***************************************************************************)
EXTENDS Integers

CONSTANTS
  Host,       \* the hosts requests go to
  Interval    \* the minimum interval between two requests to a host, from Nat

VARIABLES
  busy,       \* busy[h]: a request to h is in progress
  cooldown    \* cooldown[h]: time left before the next request to h may start

vars == <<busy, cooldown>>

TypeOK ==
  /\ busy \in [Host -> BOOLEAN]
  /\ cooldown \in [Host -> 0..Interval]

Init ==
  /\ busy = [h \in Host |-> FALSE]
  /\ cooldown = [h \in Host |-> 0]

\* A request to h starts.
Begin(h) ==
  /\ ~busy[h]
  /\ cooldown[h] = 0
  /\ busy' = [busy EXCEPT ![h] = TRUE]
  /\ UNCHANGED cooldown

\* The request to h ends, and the interval starts to run.
End(h) ==
  /\ busy[h]
  /\ busy' = [busy EXCEPT ![h] = FALSE]
  /\ cooldown' = [cooldown EXCEPT ![h] = Interval]

\* One unit of time passes.
Tick ==
  /\ cooldown' = [h \in Host |-> IF cooldown[h] > 0 THEN cooldown[h] - 1 ELSE 0]
  /\ UNCHANGED busy

Next ==
  \/ \E h \in Host : Begin(h) \/ End(h)
  \/ Tick

Spec == Init /\ [][Next]_vars

=============================================================================
