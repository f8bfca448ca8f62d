-------------------------- MODULE FetchPool_proofs --------------------------
(***************************************************************************)
(* What is true of FetchPool for any sources, hosts, workers and times.    *)
(* What the limiter does on its own is known from HostLimiter_proofs: the  *)
(* pool takes only steps of the limiter, so its invariant carries over.    *)
(***************************************************************************)
EXTENDS FetchPool, FiniteSetTheorems, TLAPS

Gate == INSTANCE HostLimiter_proofs WITH Caller <- Worker

Busy == {"acquire", "request", "body", "release", "write"}

\* Where a worker is in its Fetch says where it is in the limiter, and whom it
\* asks the limiter for.
Placed ==
  \A w \in Worker :
    /\ pc[w] \in {"receive", "write", "exited"} => at[w] = "out"
    /\ pc[w] = "acquire" => at[w] \in {"gate", "check", "sleep", "hold"}
    /\ pc[w] \in {"request", "body"} => at[w] = "hold"
    /\ pc[w] = "release" => at[w] \in {"hold", "stamped"}
    /\ pc[w] \in Busy => job[w] \in 1..N /\ key[w] = HostOf[UrlOf(w)]
    /\ pc[w] \notin Busy => job[w] = 0
    /\ pc[w] = "exited" => dpc \in {"closed", "returned"}

\* No index is with two workers, and a slot is empty exactly while its index is
\* still with the dispatcher or with a worker.
SlotsOwed ==
  /\ \A v, w \in Worker : job[v] = job[w] /\ job[v] # 0 => v = w
  /\ \A w \in Worker : job[w] < idx
  /\ \A i \in 1..N : results[i] = None <=> i >= idx \/ \E w \in Worker : job[w] = i
  /\ \A w \in Worker : IF pc[w] \in {"release", "write"} THEN out[w].kind # "none" ELSE out[w] = None
  /\ dpc \in {"closed", "returned"} => idx = N + 1
  /\ dpc = "returned" => \A w \in Worker : job[w] = 0

Found(o) == o.kind \in {"ok", "notModified"}

\* A document that was found is the one in the cache, from the lookup to the
\* result: only the worker that fetches a URL touches its entry.
CacheAgrees ==
  /\ \A w \in Worker :
       /\ pc[w] = "request" => sent[w] = cache[UrlOf(w)]
       /\ Found(out[w]) => out[w].doc = cache[UrlOf(w)]
  /\ \A i \in 1..N : Found(results[i]) => results[i].doc = cache[Sources[i]]

IInv == TypeOK /\ Gate!IInv /\ Placed /\ SlotsOwed /\ CacheAgrees

-----------------------------------------------------------------------------
\* The index that is out of range in a slice without sources is never used.
LEMMA Sizes ==
  /\ N \in Nat /\ DOMAIN Sources = 1..N
  /\ \A i \in 1..N : Sources[i] \in Url /\ HostOf[Sources[i]] \in Host
<1>1. N \in Nat /\ DOMAIN Sources = 1..N
  BY SourcesAssumption DEF N
<1>2. \A i \in 1..N : Sources[i] \in Url
  BY DEF Url
<1> QED BY <1>1, <1>2, SourcesAssumption

\* Nobody is started when there is nothing to fetch.
LEMMA NoWorkers == N = 0 => Worker = {}
<1> SUFFICES ASSUME N = 0 PROVE Worker = {}
  OBVIOUS
<1>1. PoolSize = 0
  BY WorkersAssumption DEF PoolSize
<1> QED BY <1>1, WorkerAssumption, FS_EmptySet

\* What a Fetch may return.
LEMMA OutType ==
  /\ None \in Outcome
  /\ Out("skipped", 0) \in Outcome /\ Out("error", 0) \in Outcome
  /\ \A v \in Document : Out("ok", v) \in Outcome /\ Out("notModified", v) \in Outcome
BY DEF Outcome, Out, None, Kind, Document

\* No Fetch returns what the slice is made of, and only a document was found.
LEMMA OutsTold ==
  /\ None.kind = "none" /\ ~Found(None)
  /\ Out("skipped", 0).kind # "none" /\ ~Found(Out("skipped", 0))
  /\ Out("error", 0).kind # "none" /\ ~Found(Out("error", 0))
  /\ \A v \in Document : /\ Out("ok", v).kind # "none" /\ Out("ok", v).doc = v
                         /\ Out("notModified", v).kind # "none" /\ Out("notModified", v).doc = v
BY DEF Out, None, Found

LEMMA InitIInv == Init => IInv
<1> SUFFICES ASSUME Init PROVE IInv
  OBVIOUS
<1> USE Sizes, NoWorkers, TimesAssumption DEF Init
<1>1. key \in [Worker -> Host]
  <2>1. ASSUME NEW w \in Worker PROVE (CHOOSE h \in Host : TRUE) \in Host
    <3>1. N # 0
      BY <2>1
    <3>2. HostOf[Sources[1]] \in Host
      BY <3>1
    <3> QED BY <3>2
  <2> QED BY <2>1
<1>2. Gate!Init
  BY <1>1 DEF Gate!Init, Limiter!Init
<1>3. Gate!IInv
  BY <1>2, Gate!InitIInv
<1>4. Limiter!TypeOK
  BY <1>3 DEF Gate!IInv, Gate!TypeOK, Limiter!TypeOK, Gate!Location, Limiter!Location
<1>5. TypeOK
  <2>1. cache \in [Url -> Document]
    BY CacheAssumption
  <2>2. out \in [Worker -> Outcome] /\ results \in [1..N -> Outcome]
    BY OutType
  <2>3. idx \in 1..N+1 /\ dpc \in {"send", "mark", "closed", "returned"}
    OBVIOUS
  <2>4. /\ pc \in [Worker -> {"receive", "acquire", "request", "body", "release", "write", "exited"}]
        /\ job \in [Worker -> 0..N] /\ left \in [Worker -> 0..Timeout]
        /\ sent \in [Worker -> Document] /\ doc \in [Worker -> Document]
    BY DEF Document
  <2> QED BY <1>4, <2>1, <2>2, <2>3, <2>4 DEF TypeOK
<1>6. Placed
  BY DEF Placed, Busy, Limiter!Init
<1>7. SlotsOwed
  BY DEF SlotsOwed
<1>8. CacheAgrees
  BY DEF CacheAgrees, Found, None, Out
<1> QED BY <1>3, <1>5, <1>6, <1>7, <1>8 DEF IInv

\* The variables of the limiter take a step of the limiter, or none.
LEMMA GateStep == IInv /\ [Next]_vars => [Gate!Next]_(Gate!vars)
<1> SUFFICES ASSUME IInv, [Next]_vars PROVE [Gate!Next]_(Gate!vars)
  OBVIOUS
<1> USE DEF Gate!Goto, Limiter!Goto
<1>1. ASSUME NEW w \in Worker, Dispatch(w) PROVE Gate!Next
  <2>1. Gate!Acquire(w, HostOf[Sources[idx]])
    BY <1>1 DEF Dispatch, Gate!Acquire, Limiter!Acquire
  <2>2. HostOf[Sources[idx]] \in Host
    BY <1>1, Sizes DEF Dispatch, IInv, TypeOK
  <2> QED BY <2>1, <2>2 DEF Gate!Next
<1>2. ASSUME NEW w \in Worker, PassLimiter(w) PROVE Gate!Next
  BY <1>2 DEF PassLimiter, Gate!Next, Gate!TakeGate, Limiter!TakeGate,
     Gate!CheckNext, Limiter!CheckNext, Gate!TimerFires, Limiter!TimerFires
<1>3. ASSUME NEW w \in Worker, AcquireFails(w) PROVE Gate!Next
  BY <1>3 DEF AcquireFails, Gate!Next, Gate!CancelAtGate, Limiter!CancelAtGate,
     Gate!CancelSleep, Limiter!CancelSleep
<1>4. ASSUME NEW w \in Worker, ReleaseStamps(w) PROVE Gate!Next
  BY <1>4 DEF ReleaseStamps, Gate!Next, Gate!StampNext, Limiter!StampNext
<1>5. ASSUME NEW w \in Worker, ReleaseDrains(w) PROVE Gate!Next
  BY <1>5 DEF ReleaseDrains, Gate!Next, Gate!DrainGate, Limiter!DrainGate
<1>6. CASE Tick
  BY <1>6 DEF Tick, Gate!Next, Gate!Tick, Limiter!Tick
<1>7. CASE UNCHANGED limiter
  BY <1>7 DEF limiter, Gate!vars
<1>8. ASSUME NEW w \in Worker,
             SendRequest(w) \/ Upstream(w) \/ WriteResult(w) \/ Exit(w)
      PROVE  UNCHANGED limiter
  BY <1>8 DEF SendRequest, Upstream, NotModified, Respond, StoreFeed, RequestFails, WriteResult, Exit
<1>9. CASE GiveUpSending \/ MarkSkipped \/ CloseJobs \/ Return \/ Cancel \/ UNCHANGED vars
  BY <1>7, <1>9 DEF GiveUpSending, MarkSkipped, CloseJobs, Return, Cancel, vars
<1> QED
  BY <1>1, <1>2, <1>3, <1>4, <1>5, <1>6, <1>7, <1>8, <1>9
     DEF Next, Dispatcher, WorkerRuns, Upstream

\* What the limiter keeps true for any callers it keeps true for the workers.
LEMMA StepGate == IInv /\ [Next]_vars => Gate!IInv' /\ Limiter!TypeOK'
<1> SUFFICES ASSUME IInv, [Next]_vars PROVE Gate!IInv' /\ Limiter!TypeOK'
  OBVIOUS
<1>1. Gate!IInv'
  BY GateStep, Gate!StepIInv, TimesAssumption DEF IInv
<1> QED
  BY <1>1 DEF Gate!IInv, Gate!TypeOK, Limiter!TypeOK, Gate!Location, Limiter!Location

\* The variables keep their types.
LEMMA StepTypeOK == IInv /\ [Next]_vars => TypeOK'
<1> SUFFICES ASSUME IInv, [Next]_vars PROVE TypeOK'
  OBVIOUS
<1>0. Limiter!TypeOK'
  BY StepGate
<1> USE <1>0, Sizes, TimesAssumption
        DEF IInv, TypeOK, Goto, Fill, Document, limiter, fetching, dispatcher
<1>1. ASSUME NEW w \in Worker, Dispatch(w) PROVE TypeOK'
  BY <1>1 DEF Dispatch
<1>2. ASSUME GiveUpSending PROVE TypeOK'
  BY <1>2 DEF GiveUpSending
<1>3. ASSUME MarkSkipped PROVE TypeOK'
  BY <1>3, OutType DEF MarkSkipped
<1>4. ASSUME CloseJobs PROVE TypeOK'
  BY <1>4 DEF CloseJobs
<1>5. ASSUME Return PROVE TypeOK'
  BY <1>5 DEF Return
<1>6. ASSUME NEW w \in Worker, PassLimiter(w) PROVE TypeOK'
  BY <1>6 DEF PassLimiter
<1>7. ASSUME NEW w \in Worker, AcquireFails(w) PROVE TypeOK'
  BY <1>7, OutType DEF AcquireFails
<1>8. ASSUME NEW w \in Worker, SendRequest(w) PROVE TypeOK'
  <2>1. UrlOf(w) \in Url
    BY <1>8, Sizes DEF SendRequest, Placed, Busy, UrlOf
  <2> QED BY <1>8, <2>1 DEF SendRequest
<1>9. ASSUME NEW w \in Worker, NotModified(w) PROVE TypeOK'
  BY <1>9, OutType DEF NotModified
<1>10. ASSUME NEW w \in Worker, Respond(w) PROVE TypeOK'
  BY <1>10 DEF Respond
<1>11. ASSUME NEW w \in Worker, StoreFeed(w) PROVE TypeOK'
  <2>1. UrlOf(w) \in Url
    BY <1>11, Sizes DEF StoreFeed, Placed, Busy, UrlOf
  <2> QED BY <1>11, <2>1, OutType DEF StoreFeed
<1>12. ASSUME NEW w \in Worker, RequestFails(w) PROVE TypeOK'
  BY <1>12, OutType DEF RequestFails
<1>13. ASSUME NEW w \in Worker, ReleaseStamps(w) PROVE TypeOK'
  BY <1>13 DEF ReleaseStamps
<1>14. ASSUME NEW w \in Worker, ReleaseDrains(w) PROVE TypeOK'
  BY <1>14 DEF ReleaseDrains
<1>15. ASSUME NEW w \in Worker, WriteResult(w) PROVE TypeOK'
  <2>1. results' \in [1..N -> Outcome] /\ out' \in [Worker -> Outcome]
    BY <1>15, OutType DEF WriteResult
  <2> QED BY <1>15, <2>1 DEF WriteResult
<1>16. ASSUME NEW w \in Worker, Exit(w) PROVE TypeOK'
  BY <1>16 DEF Exit
<1>17. ASSUME Cancel PROVE TypeOK'
  BY <1>17 DEF Cancel
<1>18. ASSUME Tick PROVE TypeOK'
  BY <1>18 DEF Tick
<1>19. ASSUME UNCHANGED vars PROVE TypeOK'
  BY <1>19 DEF vars
<1> QED
  BY <1>1, <1>2, <1>3, <1>4, <1>5, <1>6, <1>7, <1>8, <1>9, <1>10, <1>11, <1>12,
     <1>13, <1>14, <1>15, <1>16, <1>17, <1>18, <1>19
     DEF Next, Dispatcher, WorkerRuns, Upstream

\* A worker is where its step in the limiter has brought it.
LEMMA StepPlaced == IInv /\ [Next]_vars => Placed'
<1> SUFFICES ASSUME IInv, [Next]_vars PROVE Placed'
  OBVIOUS
<1> USE Sizes DEF IInv, TypeOK, Limiter!TypeOK, Limiter!Goto, Goto, Fill, Placed, Busy, UrlOf,
        limiter, fetching, dispatcher
<1>1. ASSUME NEW w \in Worker, Dispatch(w) PROVE Placed'
  BY <1>1 DEF Dispatch, Limiter!Acquire
<1>2. ASSUME GiveUpSending PROVE Placed'
  BY <1>2 DEF GiveUpSending
<1>3. ASSUME MarkSkipped PROVE Placed'
  BY <1>3 DEF MarkSkipped
<1>4. ASSUME CloseJobs PROVE Placed'
  BY <1>4 DEF CloseJobs
<1>5. ASSUME Return PROVE Placed'
  BY <1>5 DEF Return
<1>6. ASSUME NEW w \in Worker, PassLimiter(w) PROVE Placed'
  BY <1>6 DEF PassLimiter, Limiter!TakeGate, Limiter!CheckNext, Limiter!TimerFires
<1>7. ASSUME NEW w \in Worker, AcquireFails(w) PROVE Placed'
  BY <1>7 DEF AcquireFails, Limiter!CancelAtGate, Limiter!CancelSleep
<1>8. ASSUME NEW w \in Worker, SendRequest(w) PROVE Placed'
  BY <1>8 DEF SendRequest
<1>9. ASSUME NEW w \in Worker, NotModified(w) PROVE Placed'
  BY <1>9 DEF NotModified
<1>10. ASSUME NEW w \in Worker, Respond(w) PROVE Placed'
  BY <1>10 DEF Respond
<1>11. ASSUME NEW w \in Worker, StoreFeed(w) PROVE Placed'
  BY <1>11 DEF StoreFeed
<1>12. ASSUME NEW w \in Worker, RequestFails(w) PROVE Placed'
  BY <1>12 DEF RequestFails
<1>13. ASSUME NEW w \in Worker, ReleaseStamps(w) PROVE Placed'
  BY <1>13 DEF ReleaseStamps, Limiter!StampNext
<1>14. ASSUME NEW w \in Worker, ReleaseDrains(w) PROVE Placed'
  BY <1>14 DEF ReleaseDrains, Limiter!DrainGate
<1>15. ASSUME NEW w \in Worker, WriteResult(w) PROVE Placed'
  BY <1>15 DEF WriteResult
<1>16. ASSUME NEW w \in Worker, Exit(w) PROVE Placed'
  BY <1>16 DEF Exit
<1>17. ASSUME Cancel PROVE Placed'
  BY <1>17 DEF Cancel
<1>18. ASSUME Tick PROVE Placed'
  BY <1>18 DEF Tick, Limiter!Tick
<1>19. ASSUME UNCHANGED vars PROVE Placed'
  BY <1>19 DEF vars
<1> QED
  BY <1>1, <1>2, <1>3, <1>4, <1>5, <1>6, <1>7, <1>8, <1>9, <1>10, <1>11, <1>12,
     <1>13, <1>14, <1>15, <1>16, <1>17, <1>18, <1>19
     DEF Next, Dispatcher, WorkerRuns, Upstream

\* A step that hands no index on, and has an outcome where one is due.
LEMMA KeepsSlots ==
  ASSUME IInv, UNCHANGED <<dpc, idx, job, results>>,
         \A w \in Worker :
           IF pc'[w] \in {"release", "write"} THEN out'[w].kind # "none" ELSE out'[w] = None
  PROVE  SlotsOwed'
BY DEF IInv, SlotsOwed

\* An index is handed on: from the dispatcher to a worker, and to its slot.
LEMMA StepSlots == IInv /\ [Next]_vars => SlotsOwed'
<1> SUFFICES ASSUME IInv, [Next]_vars PROVE SlotsOwed'
  OBVIOUS
<1> USE Sizes, OutsTold DEF IInv, TypeOK, Goto, Fill, Placed, Busy, SlotsOwed, limiter, fetching, dispatcher
<1>1. ASSUME NEW w \in Worker, Dispatch(w) PROVE SlotsOwed'
  <2>1. \A u, v \in Worker : job'[u] = job'[v] /\ job'[u] # 0 => u = v
    BY <1>1 DEF Dispatch
  <2>2. \A v \in Worker : job'[v] < idx'
    BY <1>1 DEF Dispatch
  <2>3. ASSUME NEW i \in 1..N
        PROVE  results'[i] = None <=> i >= idx' \/ \E v \in Worker : job'[v] = i
    <3>1. CASE i = idx
      BY <1>1, <3>1 DEF Dispatch
    <3>2. CASE i # idx
      <4>1. idx \in Int /\ idx' = idx + 1
        BY <1>1 DEF Dispatch
      <4>3. i >= idx' <=> i >= idx
        BY <3>2, <4>1
      <4>2. (\E v \in Worker : job'[v] = i) <=> \E v \in Worker : job[v] = i
        <5>1. job[w] = 0 /\ job' = [job EXCEPT ![w] = idx]
          BY <1>1 DEF Dispatch
        <5> QED BY <3>2, <5>1
      <4> QED BY <1>1, <4>3, <4>2 DEF Dispatch
    <3> QED BY <3>1, <3>2
  <2>4. \A v \in Worker : IF pc'[v] \in {"release", "write"} THEN out'[v].kind # "none" ELSE out'[v] = None
    BY <1>1 DEF Dispatch
  <2> QED BY <1>1, <2>1, <2>2, <2>3, <2>4 DEF Dispatch
<1>2. ASSUME GiveUpSending PROVE SlotsOwed'
  BY <1>2 DEF GiveUpSending
<1>3. ASSUME MarkSkipped PROVE SlotsOwed'
  <2>1. ASSUME NEW i \in 1..N
        PROVE  results'[i] = None <=> i >= idx' \/ \E v \in Worker : job'[v] = i
    <3>1. CASE i = idx
      BY <1>3, <3>1 DEF MarkSkipped
    <3>2. CASE i # idx
      BY <1>3, <3>2 DEF MarkSkipped
    <3> QED BY <3>1, <3>2
  <2>2. \A v \in Worker : job'[v] < idx'
    BY <1>3 DEF MarkSkipped
  <2> QED BY <1>3, <2>1, <2>2 DEF MarkSkipped
<1>4. ASSUME CloseJobs PROVE SlotsOwed'
  BY <1>4 DEF CloseJobs
<1>5. ASSUME Return PROVE SlotsOwed'
  <2>1. \A w \in Worker : job[w] = 0
    BY <1>5 DEF Return
  <2> QED BY <1>5, <2>1 DEF Return
<1>6. ASSUME NEW w \in Worker, PassLimiter(w) PROVE SlotsOwed'
  <2>1. UNCHANGED <<dpc, idx, job, results>>
    BY <1>6 DEF PassLimiter
  <2>2. \A v \in Worker : IF pc'[v] \in {"release", "write"} THEN out'[v].kind # "none" ELSE out'[v] = None
    BY <1>6 DEF PassLimiter
  <2> QED BY <2>1, <2>2, KeepsSlots
<1>7. ASSUME NEW w \in Worker, AcquireFails(w) PROVE SlotsOwed'
  <2>1. /\ out' = [out EXCEPT ![w] = Out("error", 0)] /\ pc' = [pc EXCEPT ![w] = "write"]
        /\ UNCHANGED <<dpc, idx, job, results>>
    BY <1>7 DEF AcquireFails
  <2>2. \A v \in Worker : IF pc'[v] \in {"release", "write"} THEN out'[v].kind # "none" ELSE out'[v] = None
    BY <2>1
  <2> QED BY <2>1, <2>2, KeepsSlots
<1>8. ASSUME NEW w \in Worker, SendRequest(w) PROVE SlotsOwed'
  <2>1. UNCHANGED <<dpc, idx, job, results>>
    BY <1>8 DEF SendRequest
  <2>2. \A v \in Worker : IF pc'[v] \in {"release", "write"} THEN out'[v].kind # "none" ELSE out'[v] = None
    BY <1>8 DEF SendRequest
  <2> QED BY <2>1, <2>2, KeepsSlots
<1>9. ASSUME NEW w \in Worker, NotModified(w) PROVE SlotsOwed'
  <2>1. UNCHANGED <<dpc, idx, job, results>>
    BY <1>9 DEF NotModified
  <2>2. \A v \in Worker : IF pc'[v] \in {"release", "write"} THEN out'[v].kind # "none" ELSE out'[v] = None
    BY <1>9 DEF NotModified
  <2> QED BY <2>1, <2>2, KeepsSlots
<1>10. ASSUME NEW w \in Worker, Respond(w) PROVE SlotsOwed'
  <2>1. UNCHANGED <<dpc, idx, job, results>>
    BY <1>10 DEF Respond
  <2>2. \A v \in Worker : IF pc'[v] \in {"release", "write"} THEN out'[v].kind # "none" ELSE out'[v] = None
    BY <1>10 DEF Respond
  <2> QED BY <2>1, <2>2, KeepsSlots
<1>11. ASSUME NEW w \in Worker, StoreFeed(w) PROVE SlotsOwed'
  <2>1. UNCHANGED <<dpc, idx, job, results>>
    BY <1>11 DEF StoreFeed
  <2>2. \A v \in Worker : IF pc'[v] \in {"release", "write"} THEN out'[v].kind # "none" ELSE out'[v] = None
    BY <1>11 DEF StoreFeed
  <2> QED BY <2>1, <2>2, KeepsSlots
<1>12. ASSUME NEW w \in Worker, RequestFails(w) PROVE SlotsOwed'
  <2>1. UNCHANGED <<dpc, idx, job, results>>
    BY <1>12 DEF RequestFails
  <2>2. \A v \in Worker : IF pc'[v] \in {"release", "write"} THEN out'[v].kind # "none" ELSE out'[v] = None
    BY <1>12 DEF RequestFails
  <2> QED BY <2>1, <2>2, KeepsSlots
<1>13. ASSUME NEW w \in Worker, ReleaseStamps(w) PROVE SlotsOwed'
  <2>1. UNCHANGED <<dpc, idx, job, results>>
    BY <1>13 DEF ReleaseStamps
  <2>2. \A v \in Worker : IF pc'[v] \in {"release", "write"} THEN out'[v].kind # "none" ELSE out'[v] = None
    BY <1>13 DEF ReleaseStamps
  <2> QED BY <2>1, <2>2, KeepsSlots
<1>14. ASSUME NEW w \in Worker, ReleaseDrains(w) PROVE SlotsOwed'
  <2>1. UNCHANGED <<dpc, idx, job, results>>
    BY <1>14 DEF ReleaseDrains
  <2>2. \A v \in Worker : IF pc'[v] \in {"release", "write"} THEN out'[v].kind # "none" ELSE out'[v] = None
    BY <1>14 DEF ReleaseDrains
  <2> QED BY <2>1, <2>2, KeepsSlots
<1>15. ASSUME NEW w \in Worker, WriteResult(w) PROVE SlotsOwed'
  <2>1. job[w] \in 1..N /\ job[w] < idx /\ out[w] # None
    BY <1>15 DEF WriteResult
  <2>2. \A u, v \in Worker : job'[u] = job'[v] /\ job'[u] # 0 => u = v
    BY <1>15 DEF WriteResult
  <2>3. \A v \in Worker : job'[v] < idx'
    BY <1>15, <2>1 DEF WriteResult
  <2>4. ASSUME NEW i \in 1..N
        PROVE  results'[i] = None <=> i >= idx' \/ \E v \in Worker : job'[v] = i
    <3>1. CASE i = job[w]
      <4>1. \A v \in Worker : job'[v] # i
        BY <1>15, <3>1, <2>1 DEF WriteResult
      <4> QED BY <1>15, <3>1, <2>1, <4>1 DEF WriteResult
    <3>2. CASE i # job[w]
      <4>1. \A v \in Worker : job'[v] = i <=> job[v] = i
        BY <1>15, <3>2 DEF WriteResult
      <4> QED BY <1>15, <3>2, <4>1 DEF WriteResult
    <3> QED BY <3>1, <3>2
  <2>5. \A v \in Worker : IF pc'[v] \in {"release", "write"} THEN out'[v].kind # "none" ELSE out'[v] = None
    BY <1>15 DEF WriteResult
  <2> QED BY <1>15, <2>2, <2>3, <2>4, <2>5 DEF WriteResult
<1>16. ASSUME NEW w \in Worker, Exit(w) PROVE SlotsOwed'
  BY <1>16 DEF Exit
<1>17. ASSUME Cancel PROVE SlotsOwed'
  BY <1>17 DEF Cancel
<1>18. ASSUME Tick PROVE SlotsOwed'
  BY <1>18 DEF Tick
<1>19. ASSUME UNCHANGED vars PROVE SlotsOwed'
  BY <1>19 DEF vars
<1> QED
  BY <1>1, <1>2, <1>3, <1>4, <1>5, <1>6, <1>7, <1>8, <1>9, <1>10, <1>11, <1>12,
     <1>13, <1>14, <1>15, <1>16, <1>17, <1>18, <1>19
     DEF Next, Dispatcher, WorkerRuns, Upstream

\* A worker stores and reports the document it has got, for a URL of its own.
LEMMA StepCache == IInv /\ [Next]_vars => CacheAgrees'
<1> SUFFICES ASSUME IInv, [Next]_vars PROVE CacheAgrees'
  OBVIOUS
<1> USE Sizes, OutsTold, SourcesAssumption
        DEF IInv, TypeOK, Goto, Fill, Placed, Busy, SlotsOwed, CacheAgrees, UrlOf,
            limiter, fetching, dispatcher
<1>1. ASSUME NEW w \in Worker, Dispatch(w) PROVE CacheAgrees'
  BY <1>1 DEF Dispatch
<1>2. ASSUME GiveUpSending PROVE CacheAgrees'
  BY <1>2 DEF GiveUpSending
<1>3. ASSUME MarkSkipped PROVE CacheAgrees'
  BY <1>3 DEF MarkSkipped
<1>4. ASSUME CloseJobs PROVE CacheAgrees'
  BY <1>4 DEF CloseJobs
<1>5. ASSUME Return PROVE CacheAgrees'
  BY <1>5 DEF Return
<1>6. ASSUME NEW w \in Worker, PassLimiter(w) PROVE CacheAgrees'
  BY <1>6 DEF PassLimiter
<1>7. ASSUME NEW w \in Worker, AcquireFails(w) PROVE CacheAgrees'
  BY <1>7 DEF AcquireFails
<1>8. ASSUME NEW w \in Worker, SendRequest(w) PROVE CacheAgrees'
  BY <1>8 DEF SendRequest
<1>9. ASSUME NEW w \in Worker, NotModified(w) PROVE CacheAgrees'
  BY <1>9 DEF NotModified
<1>10. ASSUME NEW w \in Worker, Respond(w) PROVE CacheAgrees'
  BY <1>10 DEF Respond
<1>11. ASSUME NEW w \in Worker, StoreFeed(w) PROVE CacheAgrees'
  <2>1. /\ job[w] \in 1..N /\ job[w] < idx /\ out[w] = None /\ results[job[w]] = None
        /\ UrlOf(w) \in Url
    BY <1>11 DEF StoreFeed
  <2>2. /\ cache'[UrlOf(w)] = doc[w] /\ out'[w] = Out("ok", doc[w])
        /\ \A u \in Url \ {UrlOf(w)} : cache'[u] = cache[u]
        /\ UNCHANGED <<job, sent, results>>
        /\ \A v \in Worker \ {w} : pc'[v] = pc[v] /\ out'[v] = out[v]
    BY <1>11, <2>1 DEF StoreFeed
  <2>3. ASSUME NEW v \in Worker \ {w}, job[v] # 0 PROVE UrlOf(v) \in Url \ {UrlOf(w)}
    BY <2>1, <2>3
  <2>4. ASSUME NEW v \in Worker
        PROVE  /\ pc'[v] = "request" => sent'[v] = cache'[UrlOf(v)']
               /\ Found(out'[v]) => out'[v].doc = cache'[UrlOf(v)']
    <3>1. CASE v = w
      BY <1>11, <2>2, <3>1 DEF StoreFeed
    <3>2. CASE v # w
      <4>1. pc[v] = "request" \/ Found(out[v]) => job[v] # 0
        BY OutsTold
      <4> QED BY <2>2, <2>3, <3>2, <4>1
    <3> QED BY <3>1, <3>2
  <2>5. ASSUME NEW i \in 1..N, Found(results[i]) PROVE results[i].doc = cache'[Sources[i]]
    <3>1. Sources[i] \in Url \ {UrlOf(w)}
      BY <2>1, <2>5
    <3> QED BY <2>2, <2>5, <3>1
  <2> QED BY <2>2, <2>4, <2>5
<1>12. ASSUME NEW w \in Worker, RequestFails(w) PROVE CacheAgrees'
  BY <1>12 DEF RequestFails
<1>13. ASSUME NEW w \in Worker, ReleaseStamps(w) PROVE CacheAgrees'
  BY <1>13 DEF ReleaseStamps
<1>14. ASSUME NEW w \in Worker, ReleaseDrains(w) PROVE CacheAgrees'
  BY <1>14 DEF ReleaseDrains
<1>15. ASSUME NEW w \in Worker, WriteResult(w) PROVE CacheAgrees'
  BY <1>15 DEF WriteResult
<1>16. ASSUME NEW w \in Worker, Exit(w) PROVE CacheAgrees'
  BY <1>16 DEF Exit
<1>17. ASSUME Cancel PROVE CacheAgrees'
  BY <1>17 DEF Cancel
<1>18. ASSUME Tick PROVE CacheAgrees'
  BY <1>18 DEF Tick
<1>19. ASSUME UNCHANGED vars PROVE CacheAgrees'
  BY <1>19 DEF vars
<1> QED
  BY <1>1, <1>2, <1>3, <1>4, <1>5, <1>6, <1>7, <1>8, <1>9, <1>10, <1>11, <1>12,
     <1>13, <1>14, <1>15, <1>16, <1>17, <1>18, <1>19
     DEF Next, Dispatcher, WorkerRuns, Upstream

-----------------------------------------------------------------------------
LEMMA StepIInv == IInv /\ [Next]_vars => IInv'
BY StepTypeOK, StepGate, StepPlaced, StepSlots, StepCache DEF IInv

\* A call of FetchAll keeps to IInv, with any sources, workers and cache, and
\* whenever its context ends.
THEOREM Invariance == Spec => []IInv
<1>1. Init => IInv
  BY InitIInv
<1>2. IInv /\ [Next]_vars => IInv'
  BY StepIInv
<1> QED BY <1>1, <1>2, PTL DEF Spec

\* No index, outcome or document is ever out of its range: no worker looks up
\* an index FetchAll did not send (fetch.go:227-262).
THEOREM TypeCorrect == Spec => []TypeOK
<1>1. IInv => TypeOK
  BY DEF IInv
<1> QED BY <1>1, Invariance, PTL

\* What FetchAll returns as found is what the cache holds for that URL: neither
\* a 304 nor a slow body makes a caller see a document the next conditional
\* request will not be about (fetch.go:148-202).
THEOREM ResultsMatch == Spec => []ResultsMatchCache
<1>1. IInv => ResultsMatchCache
  BY DEF IInv, CacheAgrees, Found, ResultsMatchCache
<1> QED BY <1>1, Invariance, PTL

-----------------------------------------------------------------------------
\* A slot is filled by the worker that has its index, or by the dispatcher that
\* keeps it; everything else leaves the slice alone.
LEMMA RefineInit == Init => Slots!Init
BY Sizes DEF Init, Slots!Init

LEMMA FillIsFill ==
  ASSUME IInv, NEW i \in 1..N, NEW o \in Outcome, o.kind # "none",
         results[i] = None, dpc # "returned", Fill(i, o), dpc' = dpc
  PROVE  Slots!Fill(i)
<1>1. o \in Given
  BY DEF Given, Outcome, Out
<1>2. \E r \in Given : results' = [results EXCEPT ![i] = r]
  BY <1>1 DEF Fill
<1> QED BY <1>2 DEF Slots!Fill

LEMMA RefineStep == IInv /\ [Next]_vars => [(\E i \in 1..N : Slots!Fill(i)) \/ Slots!Return]_(Slots!vars)
<1> SUFFICES ASSUME IInv, [Next]_vars
             PROVE  [(\E i \in 1..N : Slots!Fill(i)) \/ Slots!Return]_(Slots!vars)
  OBVIOUS
<1> USE DEF IInv
<1>1. CASE MarkSkipped
  <2>1. idx \in 1..N /\ results[idx] = None
    BY <1>1, Sizes DEF MarkSkipped, SlotsOwed, TypeOK
  <2> QED BY <1>1, <2>1, FillIsFill, OutType, OutsTold DEF MarkSkipped
<1>2. ASSUME NEW w \in Worker, WriteResult(w)
      PROVE  \E i \in 1..N : Slots!Fill(i)
  <2>1. job[w] \in 1..N /\ results[job[w]] = None /\ out[w] \in Outcome /\ out[w].kind # "none"
    BY <1>2, Sizes DEF WriteResult, SlotsOwed, Placed, Busy, TypeOK
  <2>2. dpc # "returned" /\ dpc' = dpc
    BY <1>2, <2>1, Sizes DEF WriteResult, SlotsOwed, dispatcher
  <2> QED BY <1>2, <2>1, <2>2, FillIsFill DEF WriteResult
<1>3. CASE Return
  <2>1. \A w \in Worker : job[w] = 0
    BY <1>3 DEF Return, Placed, Busy
  <2>2. \A i \in 1..N : results[i] # None
    BY <1>3, <2>1, Sizes DEF Return, SlotsOwed
  <2> QED BY <1>3, <2>2 DEF Return, Slots!Return
<1>4. ASSUME UNCHANGED results, (dpc = "returned") <=> (dpc' = "returned")
      PROVE  UNCHANGED Slots!vars
  BY <1>4 DEF Slots!vars
<1>5. CASE (\E w \in Worker : Dispatch(w)) \/ GiveUpSending \/ CloseJobs \/ Cancel \/ Tick \/ UNCHANGED vars
  BY <1>4, <1>5 DEF Dispatch, GiveUpSending, CloseJobs, Cancel, Tick, vars, dispatcher
<1>6. ASSUME NEW w \in Worker,
             \/ PassLimiter(w) \/ AcquireFails(w) \/ SendRequest(w) \/ RequestFails(w)
             \/ ReleaseStamps(w) \/ ReleaseDrains(w) \/ Exit(w)
             \/ NotModified(w) \/ Respond(w) \/ StoreFeed(w)
      PROVE  UNCHANGED Slots!vars
  BY <1>4, <1>6 DEF PassLimiter, AcquireFails, SendRequest, RequestFails, ReleaseStamps,
     ReleaseDrains, Exit, NotModified, Respond, StoreFeed, dispatcher
<1> QED
  BY <1>1, <1>2, <1>3, <1>5, <1>6 DEF Next, Dispatcher, WorkerRuns, Upstream

\* FetchAll fills every slot of its slice, each of them once, and returns only
\* then, with any number of workers and sources and whenever it is cancelled:
\* the race of a worker and the marking loop for a slot cannot happen
\* (fetch.go:212-268).
THEOREM FillsEverySlot == Spec => ImplementsFetchAll
<1>1. Init => Slots!Init
  BY RefineInit
<1>2. IInv /\ [Next]_vars => [(\E i \in 1..N : Slots!Fill(i)) \/ Slots!Return]_(Slots!vars)
  BY RefineStep
<1> QED BY <1>1, <1>2, Invariance, PTL DEF Spec, ImplementsFetchAll, Slots!Spec

-----------------------------------------------------------------------------
\* The request of w is in progress, for its host.
InProgress(w) == OnTheWire(w) \/ (pc[w] = "release" /\ at[w] = "hold")
InProgressAt(w, h) == HostOf[Sources[IF job[w] = 0 THEN 1 ELSE job[w]]] = h /\ InProgress(w)
BusyMap == [h \in Host |-> \E w \in Worker : InProgressAt(w, h)]

\* A request in progress holds the gate of its host.
LEMMA RequestsHold ==
  ASSUME IInv, NEW w \in Worker, InProgress(w)
  PROVE  /\ at[w] = "hold" /\ job[w] # 0 /\ key[w] \in Host
         /\ HostOf[Sources[IF job[w] = 0 THEN 1 ELSE job[w]]] = key[w]
BY Sizes DEF IInv, InProgress, OnTheWire, Placed, Busy, UrlOf, TypeOK, Limiter!TypeOK

\* A request that goes out begins one of its host: whoever else is past the gate
\* asks another host, and the recorded time has come.
LEMMA SendIsBegin ==
  ASSUME IInv, NEW w \in Worker, SendRequest(w)
  PROVE  Promise!Begin(key[w])
<1> DEFINE h == key[w]
<1> USE DEF IInv
<1>1. at[w] = "hold" /\ pc[w] = "acquire" /\ pc' = [pc EXCEPT ![w] = "request"]
  BY DEF SendRequest, Goto
<1>2. UNCHANGED <<gate, next, at, key, wait, job>> /\ pc[w] \in Busy
  BY <1>1 DEF SendRequest, limiter, Busy
<1>3. /\ h \in Host /\ job[w] # 0 /\ next[h] = 0
      /\ HostOf[Sources[IF job[w] = 0 THEN 1 ELSE job[w]]] = h
  BY <1>1, <1>2, Sizes DEF Placed, UrlOf, TypeOK, Limiter!TypeOK, Gate!IInv, Gate!HeldIsDue
<1>4. \A v \in Worker : ~InProgressAt(v, h)
  <2> SUFFICES ASSUME NEW v \in Worker, InProgressAt(v, h) PROVE FALSE
    OBVIOUS
  <2>1. at[v] = "hold" /\ key[v] = h
    BY RequestsHold DEF InProgressAt
  <2>2. v = w
    BY <1>1, <1>3, <2>1 DEF Gate!IInv, Gate!SoleOwner, Gate!Inside
  <2> QED BY <1>1, <2>2 DEF InProgressAt, InProgress, OnTheWire
<1>5. \A g \in Host : \A v \in Worker :
        InProgressAt(v, g)' <=> InProgressAt(v, g) \/ (v = w /\ g = h)
  BY <1>1, <1>2, <1>3 DEF InProgressAt, InProgress, OnTheWire, TypeOK
<1>6. BusyMap' = [BusyMap EXCEPT ![h] = TRUE]
  <2>1. \A g \in Host : (\E v \in Worker : InProgressAt(v, g)')
                          = IF g = h THEN TRUE ELSE \E v \in Worker : InProgressAt(v, g)
    BY <1>5
  <2>2. BusyMap' = [g \in Host |-> IF g = h THEN TRUE ELSE BusyMap[g]]
    BY <2>1 DEF BusyMap
  <2> QED BY <2>2 DEF BusyMap
<1>7. ~BusyMap[h]
  BY <1>3, <1>4 DEF BusyMap
<1> QED
  BY <1>2, <1>3, <1>6, <1>7 DEF Promise!Begin, BusyMap, InProgressAt, InProgress

\* The stamp ends it, in the same step as it sets the time of the host.
LEMMA StampIsEnd ==
  ASSUME IInv, NEW w \in Worker, ReleaseStamps(w)
  PROVE  Promise!End(key[w])
<1> DEFINE h == key[w]
<1> USE DEF IInv
<1>1. /\ pc[w] = "release" /\ at[w] = "hold" /\ at' = [at EXCEPT ![w] = "stamped"]
      /\ next' = [next EXCEPT ![h] = Interval]
      /\ UNCHANGED <<pc, job, key>>
  BY DEF ReleaseStamps, Limiter!StampNext, Limiter!Goto, fetching
<1>2. InProgress(w)
  BY <1>1 DEF InProgress
<1>3. h \in Host /\ InProgressAt(w, h)
  BY <1>2, RequestsHold DEF InProgressAt
<1>4. ASSUME NEW v \in Worker, InProgressAt(v, h) PROVE v = w
  <2>1. at[v] = "hold" /\ key[v] = h
    BY <1>4, RequestsHold DEF InProgressAt
  <2> QED BY <1>1, <1>3, <2>1 DEF Gate!IInv, Gate!SoleOwner, Gate!Inside
<1>5. \A g \in Host : \A v \in Worker :
        InProgressAt(v, g)' <=> InProgressAt(v, g) /\ v # w
  BY <1>1 DEF InProgressAt, InProgress, OnTheWire, TypeOK, Limiter!TypeOK
<1>6. \A g \in Host : InProgressAt(w, g) => g = h
  BY <1>3 DEF InProgressAt
<1>7. BusyMap' = [BusyMap EXCEPT ![h] = FALSE]
  <2>1. \A g \in Host : (\E v \in Worker : InProgressAt(v, g)')
                          = IF g = h THEN FALSE ELSE \E v \in Worker : InProgressAt(v, g)
    BY <1>4, <1>5, <1>6
  <2>2. BusyMap' = [g \in Host |-> IF g = h THEN FALSE ELSE BusyMap[g]]
    BY <2>1 DEF BusyMap
  <2> QED BY <2>2 DEF BusyMap
<1>8. BusyMap[h]
  BY <1>3 DEF BusyMap
<1> QED
  BY <1>1, <1>7, <1>8 DEF Promise!End, BusyMap, InProgressAt, InProgress

\* A step that neither begins nor ends a request and leaves the times alone.
LEMMA Stutter ==
  ASSUME IInv, next' = next,
         \A w \in Worker : InProgress(w)' <=> InProgress(w),
         \A w \in Worker : InProgress(w) => job'[w] = job[w]
  PROVE  UNCHANGED Promise!vars
<1>1. \A h \in Host : \A w \in Worker : InProgressAt(w, h)' <=> InProgressAt(w, h)
  BY DEF InProgressAt
<1>2. \A h \in Host : (\E w \in Worker : InProgressAt(w, h)') = \E w \in Worker : InProgressAt(w, h)
  BY <1>1
<1>3. BusyMap' = BusyMap
  BY <1>2 DEF BusyMap
<1> QED BY <1>3 DEF Promise!vars, BusyMap, InProgressAt, InProgress

\* Every step of the pool is a step of RateLimit, or none.
LEMMA StepPolite == IInv /\ [Next]_vars => [Promise!Next]_(Promise!vars)
<1> SUFFICES ASSUME IInv, [Next]_vars PROVE [Promise!Next]_(Promise!vars)
  OBVIOUS
<1>0. \A w \in Worker : key[w] \in Host
  BY DEF IInv, TypeOK, Limiter!TypeOK
<1>1. ASSUME NEW w \in Worker, SendRequest(w) PROVE Promise!Next
  <2>1. Promise!Begin(key[w])
    BY <1>1, SendIsBegin
  <2>2. \E h \in Host : Promise!Begin(h)
    BY <1>0, <2>1 DEF Promise!Begin
  <2> QED BY <2>2 DEF Promise!Next
<1>2. ASSUME NEW w \in Worker, ReleaseStamps(w) PROVE Promise!Next
  <2>1. Promise!End(key[w])
    BY <1>2, StampIsEnd
  <2>2. \E h \in Host : Promise!End(h)
    BY <1>0, <2>1 DEF Promise!End
  <2> QED BY <2>2 DEF Promise!Next
<1> USE DEF IInv, TypeOK, Limiter!TypeOK, Limiter!Goto, Goto, Placed, InProgress, OnTheWire,
            limiter, fetching
<1>3. ASSUME NEW w \in Worker, Dispatch(w) PROVE UNCHANGED Promise!vars
  BY <1>3, Stutter DEF Dispatch, Limiter!Acquire
<1>4. ASSUME NEW w \in Worker, PassLimiter(w) PROVE UNCHANGED Promise!vars
  BY <1>4, Stutter DEF PassLimiter, Limiter!TakeGate, Limiter!CheckNext, Limiter!TimerFires
<1>5. ASSUME NEW w \in Worker, AcquireFails(w) PROVE UNCHANGED Promise!vars
  BY <1>5, Stutter DEF AcquireFails, Limiter!CancelAtGate, Limiter!CancelSleep
<1>6. ASSUME NEW w \in Worker, ReleaseDrains(w) PROVE UNCHANGED Promise!vars
  BY <1>6, Stutter DEF ReleaseDrains, Limiter!DrainGate
<1>7. ASSUME NEW w \in Worker, Upstream(w) PROVE UNCHANGED Promise!vars
  BY <1>7, Stutter DEF Upstream, NotModified, Respond, StoreFeed, RequestFails
<1>8. ASSUME NEW w \in Worker, WriteResult(w) \/ Exit(w) PROVE UNCHANGED Promise!vars
  BY <1>8, Stutter DEF WriteResult, Exit
<1>9. CASE GiveUpSending \/ MarkSkipped \/ CloseJobs \/ Return \/ Cancel \/ UNCHANGED vars
  BY <1>9, Stutter DEF GiveUpSending, MarkSkipped, CloseJobs, Return, Cancel, vars
<1>10. CASE Tick
  <2>1. Promise!Tick
    BY <1>10 DEF Tick, Limiter!Tick, Promise!Tick
  <2> QED BY <2>1 DEF Promise!Next
<1> QED
  BY <1>1, <1>2, <1>3, <1>4, <1>5, <1>6, <1>7, <1>8, <1>9, <1>10
     DEF Next, Dispatcher, WorkerRuns, Upstream

\* No request of the pool breaks the promise of the limiter to its host: one at
\* a time, and Interval after the last, for workers that are cancelled or run
\* into their deadline at any point (fetch.go:126-202, ratelimit.go:47-97).
THEOREM Polite == Spec => RequestsArePolite
<1>1. Init => Promise!Init
  BY DEF Init, Limiter!Init, Promise!Init, OnTheWire
<1>2. IInv /\ [Next]_vars => [Promise!Next]_(Promise!vars)
  BY StepPolite
<1> QED BY <1>1, <1>2, Invariance, PTL DEF Spec, RequestsArePolite, Promise!Spec

=============================================================================
