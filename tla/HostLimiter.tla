---------------------------- MODULE HostLimiter ----------------------------
(***************************************************************************)
(* The per-host limiter of internal/fetch/ratelimit.go.  Each host has a   *)
(* gate, a channel of capacity one, and a time before which no request may *)
(* start.  A caller of Acquire puts a token into the gate, sleeps until    *)
(* that time, issues its request, and the release function it was given    *)
(* moves the time forward and takes the token out.                         *)
(*                                                                         *)
(* Time is relative: next[h] is l.next[key] minus the clock, never below   *)
(* zero, and a missing key reads as zero.  That keeps the states finite    *)
(* without a bound on the clock.  A gate counts its tokens and does not    *)
(* know who put them there, as the channel does not: that at most one      *)
(* caller is past it is a property, not a definition.                      *)
(*                                                                         *)
(* The caller's context is the environment here: it may be done at any     *)
(* time, so the ctx.Done() branch of both selects is always available.     *)
(* FetchPool composes these actions with the contexts of the real callers. *)
(***************************************************************************)
EXTENDS Integers

CONSTANTS
  Caller,     \* the goroutines that call Acquire
  Host,       \* the values of hostKey
  Interval    \* HostLimiter.interval

ASSUME IntervalAssumption == Interval \in Nat

VARIABLES
  gate,       \* gate[h]: tokens in the gate of h
  next,       \* next[h]: how far l.next[h] lies in the future
  at,         \* at[c]: where caller c is in Acquire or release
  key,        \* key[c]: the host c asked for; meaningless while c is "out"
  wait        \* wait[c]: time left on c's timer; zero unless c sleeps

vars == <<gate, next, at, key, wait>>

Location == {"out", "gate", "check", "sleep", "hold", "stamped"}

TypeOK ==
  /\ gate \in [Host -> 0..1]
  /\ next \in [Host -> 0..Interval]
  /\ at \in [Caller -> Location]
  /\ key \in [Caller -> Host]
  /\ wait \in [Caller -> 0..Interval]

Init ==
  /\ gate = [h \in Host |-> 0]
  /\ next = [h \in Host |-> 0]
  /\ at = [c \in Caller |-> "out"]
  /\ key \in [Caller -> Host]
  /\ wait = [c \in Caller |-> 0]

Goto(c, l) == at' = [at EXCEPT ![c] = l]

-----------------------------------------------------------------------------
(***************************************************************************)
(* Faulty variants of the actions below, one slip of the programmer each.  *)
(* They are no part of the specification; they show which property would   *)
(* notice the slip.                                                        *)
(***************************************************************************)
\* A gate made with room for one token too many.
TakeGateTooWide(c) ==
  /\ at[c] = "gate"
  /\ gate[key[c]] < 2
  /\ gate' = [gate EXCEPT ![key[c]] = @ + 1]
  /\ Goto(c, "check")
  /\ UNCHANGED <<next, key, wait>>

\* The comparison with the clock left out.
CheckNextNever(c) ==
  /\ at[c] = "check"
  /\ Goto(c, "hold")
  /\ UNCHANGED <<gate, next, key, wait>>

\* Cancellation during the sleep returns without "<-gate".
CancelSleepKeepsToken(c) ==
  /\ at[c] = "sleep"
  /\ wait' = [wait EXCEPT ![c] = 0]
  /\ Goto(c, "out")
  /\ UNCHANGED <<gate, next, key>>

-----------------------------------------------------------------------------
\* Acquire is called and finds, or makes, the gate of its host.
Acquire(c, h) ==
  /\ at[c] = "out"
  /\ Goto(c, "gate")
  /\ key' = [key EXCEPT ![c] = h]
  /\ UNCHANGED <<gate, next, wait>>

\* gate <- struct{}{}: possible only while the channel is empty.
TakeGate(c) ==
  /\ at[c] = "gate"
  /\ gate[key[c]] < 1
  /\ gate' = [gate EXCEPT ![key[c]] = @ + 1]
  /\ Goto(c, "check")
  /\ UNCHANGED <<next, key, wait>>

\* The context is done before the gate was free: Acquire returns the error.
CancelAtGate(c) ==
  /\ at[c] = "gate"
  /\ Goto(c, "out")
  /\ UNCHANGED <<gate, next, key, wait>>

\* With l.mu held, compare l.next with the clock: sleep for the difference,
\* or return at once.
CheckNext(c) ==
  /\ at[c] = "check"
  /\ wait' = [wait EXCEPT ![c] = next[key[c]]]
  /\ Goto(c, IF next[key[c]] > 0 THEN "sleep" ELSE "hold")
  /\ UNCHANGED <<gate, next, key>>

\* The timer fires: Acquire returns the release function.
TimerFires(c) ==
  /\ at[c] = "sleep"
  /\ wait[c] = 0
  /\ Goto(c, "hold")
  /\ UNCHANGED <<gate, next, key, wait>>

\* The context is done during the sleep: stop the timer, take the token back
\* out, leave l.next alone.
CancelSleep(c) ==
  /\ at[c] = "sleep"
  /\ gate' = [gate EXCEPT ![key[c]] = @ - 1]
  /\ wait' = [wait EXCEPT ![c] = 0]
  /\ Goto(c, "out")
  /\ UNCHANGED <<next, key>>

\* release, under sync.Once: first, with l.mu held, move l.next ...
StampNext(c) ==
  /\ at[c] = "hold"
  /\ next' = [next EXCEPT ![key[c]] = Interval]
  /\ Goto(c, "stamped")
  /\ UNCHANGED <<gate, key, wait>>

\* ... then <-gate.
DrainGate(c) ==
  /\ at[c] = "stamped"
  /\ gate' = [gate EXCEPT ![key[c]] = @ - 1]
  /\ Goto(c, "out")
  /\ UNCHANGED <<next, key, wait>>

\* One unit of time passes, for the recorded times and for the timers.
Tick ==
  /\ next' = [h \in Host |-> IF next[h] > 0 THEN next[h] - 1 ELSE 0]
  /\ wait' = [c \in Caller |-> IF wait[c] > 0 THEN wait[c] - 1 ELSE 0]
  /\ UNCHANGED <<gate, at, key>>

Next ==
  \/ \E c \in Caller :
       \/ \E h \in Host : Acquire(c, h)
       \/ TakeGate(c) \/ CancelAtGate(c) \/ CheckNext(c) \/ TimerFires(c)
       \/ CancelSleep(c) \/ StampNext(c) \/ DrainGate(c)
  \/ Tick

Spec == Init /\ [][Next]_vars

(***************************************************************************)
(* Time passes, a goroutine that can run does, and a caller that got its   *)
(* release function calls it (Fetch defers it).  A blocked sender is woken *)
(* in the order the senders blocked, so no caller is passed over for ever  *)
(* at a gate that keeps opening: strong fairness for TakeGate.  Nothing    *)
(* makes a caller acquire, or its context end.                             *)
(***************************************************************************)
Fairness ==
  /\ WF_vars(Tick)
  /\ \A c \in Caller :
       /\ SF_vars(TakeGate(c))
       /\ WF_vars(CheckNext(c))
       /\ WF_vars(TimerFires(c))
       /\ WF_vars(StampNext(c))
       /\ WF_vars(DrainGate(c))

FairSpec == Spec /\ Fairness

-----------------------------------------------------------------------------
\* c is past the gate of h and has not yet taken its token out.
Inside(c, h) == key[c] = h /\ at[c] \in {"check", "sleep", "hold", "stamped"}

\* Requests to one host are serialized (ratelimit.go:10): two callers never
\* both hold the right to issue a request to the same host, although the gate
\* only counts and every caller decides for itself where it is.
OneRequestPerHost ==
  \A c, d \in Caller :
    at[c] = "hold" /\ at[d] = "hold" /\ key[c] = key[d] => c = d

\* The gate is never lost and never doubled: a token is in it exactly when a
\* caller is between its send and its receive.  A caller cancelled during its
\* sleep that kept the token would shut the host for the life of the process.
GateHasOneOwner ==
  \A h \in Host : gate[h] = 1 <=> \E c \in Caller : Inside(c, h)

\* A sleeping caller's timer never runs ahead of the time recorded for its
\* host: nobody moves l.next while it sleeps, on a value it read under a lock
\* it has since dropped.
TimerCoversNext ==
  \A c \in Caller : at[c] = "sleep" => wait[c] >= next[key[c]]

\* The limiter implements the promise of RateLimit: requests to a host are
\* serial, and an interval apart from the end of one to the start of the next.
Promise ==
  INSTANCE RateLimit WITH
    busy <- [h \in Host |-> \E c \in Caller : key[c] = h /\ at[c] = "hold"],
    cooldown <- next

ImplementsRateLimit == Promise!Spec

\* Acquire always returns: whoever waits at a gate, with the gate passing
\* between the others, in the end gets the host or gives up.
AcquireReturns ==
  \A c \in Caller : at[c] = "gate" ~> at[c] \in {"hold", "out"}

=============================================================================
