------------------------ MODULE HostLimiter_proofs -------------------------
(***************************************************************************)
(* Proofs about HostLimiter, for every set of callers and of hosts and for *)
(* every interval: its invariants, and that it implements RateLimit.       *)
(***************************************************************************)
EXTENDS HostLimiter, TLAPS

(***************************************************************************)
(* At most one caller is past the gate of a host.  OneRequestPerHost and   *)
(* GateHasOneOwner do not stand on their own: a token taken out by one of  *)
(* two owners would leave an empty gate with somebody behind it.           *)
(***************************************************************************)
SoleOwner ==
  \A h \in Host : \A c, d \in Caller : Inside(c, h) /\ Inside(d, h) => c = d

\* The time recorded for a host that is held has come, and nobody moves it
\* forward but the holder.
HeldIsDue == \A c \in Caller : at[c] = "hold" => next[key[c]] = 0

\* The inductive invariant.
IInv == TypeOK /\ SoleOwner /\ GateHasOneOwner /\ TimerCoversNext /\ HeldIsDue

-----------------------------------------------------------------------------
\* The limiter starts with empty gates and nobody inside.
LEMMA InitIInv == Init => IInv
  BY IntervalAssumption
     DEF Init, IInv, TypeOK, Location, SoleOwner, GateHasOneOwner, TimerCoversNext, HeldIsDue,
         Inside

\* Every step of a caller, and of the clock, preserves the types.
LEMMA StepTypeOK == TypeOK /\ GateHasOneOwner /\ [Next]_vars => TypeOK'
<1> SUFFICES ASSUME TypeOK, GateHasOneOwner, [Next]_vars PROVE TypeOK'
  OBVIOUS
<1> USE IntervalAssumption DEF TypeOK, Location, Goto
<1>1. ASSUME NEW c \in Caller, NEW h \in Host, Acquire(c, h) PROVE TypeOK'
  BY <1>1 DEF Acquire
<1>2. ASSUME NEW c \in Caller, TakeGate(c) PROVE TypeOK'
  BY <1>2 DEF TakeGate
<1>3. ASSUME NEW c \in Caller, CancelAtGate(c) PROVE TypeOK'
  BY <1>3 DEF CancelAtGate
<1>4. ASSUME NEW c \in Caller, CheckNext(c) PROVE TypeOK'
  BY <1>4 DEF CheckNext
<1>5. ASSUME NEW c \in Caller, TimerFires(c) PROVE TypeOK'
  BY <1>5 DEF TimerFires
<1>6. ASSUME NEW c \in Caller, CancelSleep(c) PROVE TypeOK'
  <2>1. gate[key[c]] = 1
    BY <1>6 DEF CancelSleep, GateHasOneOwner, Inside
  <2> QED BY <1>6, <2>1 DEF CancelSleep
<1>7. ASSUME NEW c \in Caller, StampNext(c) PROVE TypeOK'
  BY <1>7 DEF StampNext
<1>8. ASSUME NEW c \in Caller, DrainGate(c) PROVE TypeOK'
  <2>1. gate[key[c]] = 1
    BY <1>8 DEF DrainGate, GateHasOneOwner, Inside
  <2> QED BY <1>8, <2>1 DEF DrainGate
<1>9. CASE Tick
  BY <1>9 DEF Tick
<1>10. CASE UNCHANGED vars
  BY <1>10 DEF vars
<1> QED
  BY <1>1, <1>2, <1>3, <1>4, <1>5, <1>6, <1>7, <1>8, <1>9, <1>10 DEF Next

\* Every step preserves the rest of the invariant.
LEMMA StepIInv == IInv /\ [Next]_vars => IInv'
<1> SUFFICES ASSUME IInv, [Next]_vars PROVE IInv'
  OBVIOUS
<1> USE DEF IInv
<1>0. TypeOK'
  BY StepTypeOK
<1> USE IntervalAssumption
        DEF TypeOK, Location, Goto, SoleOwner, GateHasOneOwner, TimerCoversNext, HeldIsDue, Inside
<1>1. ASSUME NEW c \in Caller, NEW h \in Host, Acquire(c, h) PROVE IInv'
  BY <1>0, <1>1 DEF Acquire
<1>2. ASSUME NEW c \in Caller, TakeGate(c) PROVE IInv'
  <2>1. \A d \in Caller : ~Inside(d, key[c])
    BY <1>2 DEF TakeGate
  <2>2. SoleOwner' /\ TimerCoversNext' /\ HeldIsDue'
    BY <1>2, <2>1 DEF TakeGate
  <2>3. GateHasOneOwner'
    BY <1>2, <2>1 DEF TakeGate
  <2> QED BY <1>0, <2>2, <2>3
<1>3. ASSUME NEW c \in Caller, CancelAtGate(c) PROVE IInv'
  BY <1>0, <1>3 DEF CancelAtGate
<1>4. ASSUME NEW c \in Caller, CheckNext(c) PROVE IInv'
  BY <1>0, <1>4 DEF CheckNext
<1>5. ASSUME NEW c \in Caller, TimerFires(c) PROVE IInv'
  <2>1. next[key[c]] = 0
    BY <1>5 DEF TimerFires
  <2> QED BY <1>0, <1>5, <2>1 DEF TimerFires
<1>6. ASSUME NEW c \in Caller, CancelSleep(c) PROVE IInv'
  BY <1>0, <1>6 DEF CancelSleep
<1>7. ASSUME NEW c \in Caller, StampNext(c) PROVE IInv'
  <2>1. \A d \in Caller : at[d] = "sleep" \/ (at[d] = "hold" /\ d # c) => key[d] # key[c]
    BY <1>7 DEF StampNext
  <2> QED BY <1>0, <1>7, <2>1 DEF StampNext
<1>8. ASSUME NEW c \in Caller, DrainGate(c) PROVE IInv'
  BY <1>0, <1>8 DEF DrainGate
<1>9. CASE Tick
  BY <1>0, <1>9 DEF Tick
<1>10. CASE UNCHANGED vars
  BY <1>0, <1>10 DEF vars
<1> QED
  BY <1>1, <1>2, <1>3, <1>4, <1>5, <1>6, <1>7, <1>8, <1>9, <1>10 DEF Next

-----------------------------------------------------------------------------
\* The invariant holds in every state of the limiter.
THEOREM Invariance == Spec => []IInv
  BY InitIInv, StepIInv, PTL DEF Spec

\* The variables of the limiter keep their types.
THEOREM TypeCorrect == Spec => []TypeOK
<1>1. IInv => TypeOK
  BY DEF IInv
<1> QED BY <1>1, Invariance, PTL

\* Two callers never both hold the right to issue a request to one host.
THEOREM Serialized == Spec => []OneRequestPerHost
<1>1. IInv => OneRequestPerHost
  BY DEF IInv, TypeOK, SoleOwner, OneRequestPerHost, Inside
<1> QED BY <1>1, Invariance, PTL

\* A gate's token is there exactly while a caller is past the gate.
THEOREM TokenConserved == Spec => []GateHasOneOwner
<1>1. IInv => GateHasOneOwner
  BY DEF IInv
<1> QED BY <1>1, Invariance, PTL

-----------------------------------------------------------------------------
(***************************************************************************)
(* The refinement.  A host is busy while some caller holds it; the time    *)
(* recorded for it is the cooldown.  Beginning a request needs the         *)
(* invariant twice: SoleOwner says that the host was not busy already, and *)
(* TimerCoversNext that the cooldown is over when the timer fires.         *)
(***************************************************************************)
Busy == [h \in Host |-> \E c \in Caller : key[c] = h /\ at[c] = "hold"]

\* A step that leaves alone who holds which host, and the recorded times, is
\* no step of RateLimit.
LEMMA Stutter ==
  ASSUME next' = next,
         \A c \in Caller : (at[c] = "hold") = (at'[c] = "hold"),
         \A c \in Caller : at[c] = "hold" => key'[c] = key[c]
  PROVE  UNCHANGED Promise!vars
<1>1. \A h \in Host :
        (\E c \in Caller : key[c] = h /\ at[c] = "hold")
          = (\E c \in Caller : key'[c] = h /\ at'[c] = "hold")
  OBVIOUS
<1>2. Busy' = Busy
  BY <1>1 DEF Busy
<1> QED BY <1>2 DEF Busy, Promise!vars

\* A caller that gets hold of a free host begins a request to it.
LEMMA HoldIsBegin ==
  ASSUME IInv, NEW c \in Caller,
         at[c] \in {"check", "sleep"},
         next[key[c]] = 0,
         next' = next, key' = key,
         at' = [at EXCEPT ![c] = "hold"]
  PROVE  Promise!Begin(key[c])
<1> DEFINE h == key[c]
<1> USE DEF IInv, TypeOK
<1>1. h \in Host
  OBVIOUS
<1>2. \A d \in Caller : key[d] = h => at[d] # "hold"
  BY DEF SoleOwner, Inside
<1>3. ~Busy[h]
  BY <1>1, <1>2 DEF Busy
<1>4. Busy' = [Busy EXCEPT ![h] = TRUE]
  <2>1. \A g \in Host : (\E d \in Caller : key'[d] = g /\ at'[d] = "hold")
                          = IF g = h THEN TRUE
                            ELSE \E d \in Caller : key[d] = g /\ at[d] = "hold"
    OBVIOUS
  <2>2. Busy' = [g \in Host |-> IF g = h THEN TRUE ELSE Busy[g]]
    BY <2>1 DEF Busy
  <2> QED BY <2>2 DEF Busy
<1> QED BY <1>3, <1>4 DEF Busy, Promise!Begin

\* A caller that stamps the host ends the request to it: nobody else was
\* holding it.
LEMMA StampIsEnd ==
  ASSUME IInv, NEW c \in Caller, StampNext(c)
  PROVE  Promise!End(key[c])
<1> DEFINE h == key[c]
<1> USE DEF IInv, TypeOK, StampNext, Goto
<1>1. h \in Host
  OBVIOUS
<1>2. \A d \in Caller : key[d] = h /\ at[d] = "hold" => d = c
  BY DEF SoleOwner, Inside
<1>3. Busy[h]
  BY <1>1 DEF Busy
<1>4. Busy' = [Busy EXCEPT ![h] = FALSE]
  <2>1. \A g \in Host : (\E d \in Caller : key'[d] = g /\ at'[d] = "hold")
                          = IF g = h THEN FALSE
                            ELSE \E d \in Caller : key[d] = g /\ at[d] = "hold"
    BY <1>2
  <2>2. Busy' = [g \in Host |-> IF g = h THEN FALSE ELSE Busy[g]]
    BY <2>1 DEF Busy
  <2> QED BY <2>2 DEF Busy
<1> QED BY <1>3, <1>4 DEF Busy, Promise!End

\* Every step of the limiter is a step of RateLimit, or none.
LEMMA StepSimulation == IInv /\ [Next]_vars => [Promise!Next]_(Promise!vars)
<1> SUFFICES ASSUME IInv, [Next]_vars PROVE [Promise!Next]_(Promise!vars)
  OBVIOUS
<1> USE DEF IInv, TypeOK, Goto
<1>0. \A c \in Caller : key[c] \in Host
  OBVIOUS
<1>1. ASSUME NEW c \in Caller, NEW h \in Host, Acquire(c, h) PROVE UNCHANGED Promise!vars
  BY <1>1, Stutter DEF Acquire
<1>2. ASSUME NEW c \in Caller, TakeGate(c) PROVE UNCHANGED Promise!vars
  BY <1>2, Stutter DEF TakeGate
<1>3. ASSUME NEW c \in Caller, CancelAtGate(c) PROVE UNCHANGED Promise!vars
  BY <1>3, Stutter DEF CancelAtGate
<1>4. ASSUME NEW c \in Caller, CheckNext(c) PROVE [Promise!Next]_(Promise!vars)
  <2>1. CASE next[key[c]] > 0
    BY <1>4, <2>1, Stutter DEF CheckNext
  <2>2. CASE next[key[c]] = 0
    <3>1. /\ at[c] \in {"check", "sleep"}
          /\ next' = next /\ key' = key
          /\ at' = [at EXCEPT ![c] = "hold"]
      BY <1>4, <2>2 DEF CheckNext
    <3>2. Promise!Begin(key[c])
      BY <2>2, <3>1, HoldIsBegin
    <3>3. \E h \in Host : Promise!Begin(h)
      BY <1>0, <3>2 DEF Promise!Begin
    <3> QED BY <3>3 DEF Promise!Next
  <2>3. next[key[c]] \in Nat
    BY IntervalAssumption
  <2> QED BY <2>1, <2>2, <2>3
<1>5. ASSUME NEW c \in Caller, TimerFires(c) PROVE [Promise!Next]_(Promise!vars)
  <2>1. next[key[c]] = 0
    BY <1>5, IntervalAssumption DEF TimerFires, TimerCoversNext
  <2>2. Promise!Begin(key[c])
    BY <1>5, <2>1, HoldIsBegin DEF TimerFires
  <2>3. \E h \in Host : Promise!Begin(h)
    BY <1>0, <2>2 DEF Promise!Begin
  <2> QED BY <2>3 DEF Promise!Next
<1>6. ASSUME NEW c \in Caller, CancelSleep(c) PROVE UNCHANGED Promise!vars
  BY <1>6, Stutter DEF CancelSleep
<1>7. ASSUME NEW c \in Caller, StampNext(c) PROVE [Promise!Next]_(Promise!vars)
  <2>1. Promise!End(key[c])
    BY <1>7, StampIsEnd
  <2>2. \E h \in Host : Promise!End(h)
    BY <1>0, <2>1 DEF Promise!End
  <2> QED BY <2>2 DEF Promise!Next
<1>8. ASSUME NEW c \in Caller, DrainGate(c) PROVE UNCHANGED Promise!vars
  BY <1>8, Stutter DEF DrainGate
<1>9. CASE Tick
  <2>1. Promise!Tick
    BY <1>9 DEF Tick, Promise!Tick
  <2> QED BY <2>1 DEF Promise!Next
<1>10. CASE UNCHANGED vars
  BY <1>10 DEF vars, Promise!vars
<1> QED
  BY <1>1, <1>2, <1>3, <1>4, <1>5, <1>6, <1>7, <1>8, <1>9, <1>10 DEF Next

\* The limiter implements RateLimit: requests to a host are serial and at
\* least Interval apart, whatever the callers and however they are cancelled.
THEOREM Refinement == Spec => ImplementsRateLimit
<1>1. Init => Promise!Init
  BY DEF Init, Promise!Init
<1>2. IInv /\ [Next]_vars => [Promise!Next]_(Promise!vars)
  BY StepSimulation
<1> QED BY <1>1, <1>2, Invariance, PTL DEF Spec, ImplementsRateLimit, Promise!Spec

=============================================================================
