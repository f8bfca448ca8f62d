----------------------------- MODULE FetchPool -----------------------------
(***************************************************************************)
(* One call of FetchAll (internal/fetch/fetch.go): a dispatcher that hands *)
(* the indexes of the sources to a pool of workers over an unbuffered      *)
(* channel, the workers, the Fetch each of them runs, the HostLimiter they *)
(* all go through, the Cache of parsed feeds, and the upstreams they ask.  *)
(*                                                                         *)
(* A feed document is Current, Outdated or none at all (0).  Every URL is  *)
(* fetched once in a call, so an upstream serves one document throughout,  *)
(* the Current one; Cached says what earlier calls may have left.          *)
(* Every document carries a validator, so a request for a cached feed is   *)
(* conditional, and an upstream answers 304 only to the validator of its   *)
(* present document.  Everything that makes a request fail (the network,   *)
(* the context, a bad status, an oversized body or a document that does    *)
(* not parse, a stray 304) is one outcome, error.                          *)
(* Time is that of HostLimiter.  No URL is given twice: a configuration    *)
(* that names one twice is refused.                                        *)
(***************************************************************************)
EXTENDS Integers, Sequences, FiniteSets

CONSTANTS
  Sources,    \* the sequence of URLs given to FetchAll
  Workers,    \* its workers argument
  Worker,     \* the goroutines it starts, PoolSize of them
  Host,
  HostOf,     \* hostKey, from the URLs to Host
  Interval,   \* HostLimiter.interval
  Timeout,    \* Fetcher.Timeout; zero means no bound
  Cached      \* what earlier calls may have left in the cache

N == Len(Sources)
Url == {Sources[i] : i \in 1..N}

ASSUME SourcesAssumption ==
  /\ Sources \in Seq(STRING)
  /\ \A i, j \in 1..N : Sources[i] = Sources[j] => i = j
  /\ HostOf \in [Url -> Host]
ASSUME WorkersAssumption == Workers \in Int
ASSUME TimesAssumption == Interval \in Nat /\ Timeout \in Nat

Outdated == 1
Current == 2
Document == {0, Outdated, Current}

ASSUME CacheAssumption == Cached \subseteq [Url -> Document]

\* The size of the pool: eight if the argument makes no sense, and never more
\* workers than sources.
PoolSize ==
  LET wanted == IF Workers <= 0 THEN 8 ELSE Workers
  IN  IF wanted > N THEN N ELSE wanted

ASSUME WorkerAssumption == IsFiniteSet(Worker) /\ Cardinality(Worker) = PoolSize

VARIABLES
  gate, next, at, key, wait,  \* of the limiter; its callers are the workers
  dpc,        \* what the dispatcher (the caller of FetchAll) does
  idx,        \* its loop variable
  cancelled,  \* the caller's context is done
  pc,         \* pc[w]: where worker w is
  job,        \* job[w]: the index it received
  left,       \* left[w]: time left until the deadline of its Fetch
  sent,       \* sent[w]: the document whose validator it sent, or 0
  doc,        \* doc[w]: the document whose body it is reading, or 0
  out,        \* out[w]: what its Fetch returns
  results,    \* the slice FetchAll returns
  cache       \* the document cached for each URL, or 0

limiter == <<gate, next, at, key, wait>>
fetching == <<pc, job, left, sent, doc, out>>
dispatcher == <<dpc, idx>>
vars == <<limiter, dispatcher, cancelled, fetching, results, cache>>

Limiter == INSTANCE HostLimiter WITH Caller <- Worker

Kind == {"none", "ok", "notModified", "error", "skipped"}
Outcome == [kind : Kind, doc : Document]
Out(k, v) == [kind |-> k, doc |-> v]
None == Out("none", 0)
Given == {Out(k, v) : k \in Kind \ {"none"}, v \in Document}

TypeOK ==
  /\ Limiter!TypeOK
  /\ dpc \in {"send", "mark", "closed", "returned"}
  /\ idx \in 1..N+1
  /\ cancelled \in BOOLEAN
  /\ pc \in [Worker -> {"receive", "acquire", "request", "body", "release", "write", "exited"}]
  /\ job \in [Worker -> 0..N]
  /\ left \in [Worker -> 0..Timeout]
  /\ sent \in [Worker -> Document]
  /\ doc \in [Worker -> Document]
  /\ out \in [Worker -> Outcome]
  /\ results \in [1..N -> Outcome]
  /\ cache \in [Url -> Document]

\* FetchAll has made its results and, if there is anything to fetch, started
\* its workers.  An earlier call may have left documents in the cache.
Init ==
  /\ Limiter!Init
  /\ key = [w \in Worker |-> CHOOSE h \in Host : TRUE]
  /\ dpc = IF N = 0 THEN "returned" ELSE "send"
  /\ idx = 1
  /\ cancelled = FALSE
  /\ pc = [w \in Worker |-> "receive"]
  /\ job = [w \in Worker |-> 0]
  /\ left = [w \in Worker |-> 0]
  /\ sent = [w \in Worker |-> 0]
  /\ doc = [w \in Worker |-> 0]
  /\ out = [w \in Worker |-> None]
  /\ results = [i \in 1..N |-> None]
  /\ cache \in Cached

UrlOf(w) == Sources[job[w]]

\* Faulty: no per-feed deadline.
ContextDoneNoDeadline(w) == cancelled

\* The context of w's Fetch is done: the caller's is, or its deadline passed.
ContextDone(w) == cancelled \/ (Timeout > 0 /\ left[w] = 0)

Goto(w, l) == pc' = [pc EXCEPT ![w] = l]
Fill(i, o) == results' = [results EXCEPT ![i] = o]

-----------------------------------------------------------------------------
(***************************************************************************)
(* Faulty variants of the actions below, one slip of the programmer each.  *)
(* They are no part of the specification; they show which property would   *)
(* notice the slip.                                                        *)
(***************************************************************************)
\* The rest of the sources is left zero-valued when the caller cancels.
GiveUpSendingLeavesZeroes ==
  /\ dpc = "send" /\ idx <= N
  /\ cancelled
  /\ dpc' = "closed"
  /\ UNCHANGED <<limiter, idx, cancelled, fetching, results, cache>>

\* The marking loop runs one past the end.
MarkSkippedPastEnd ==
  /\ dpc = "mark" /\ idx <= N + 1
  /\ Fill(idx, Out("skipped", 0))
  /\ idx' = idx + 1
  /\ UNCHANGED <<limiter, dpc, cancelled, fetching, cache>>

\* The request goes out while the limiter still has the worker sleep.
SendRequestEarly(w) ==
  /\ pc[w] = "acquire"
  /\ at[w] \in {"sleep", "hold"}
  /\ sent' = [sent EXCEPT ![w] = cache[UrlOf(w)]]
  /\ Goto(w, "request")
  /\ UNCHANGED <<limiter, dispatcher, cancelled, job, left, doc, out, results, cache>>

\* A feed that is cached already is not replaced.
StoreFeedOnce(w) ==
  /\ pc[w] = "body"
  /\ cache' = [cache EXCEPT ![UrlOf(w)] = IF @ = 0 THEN doc[w] ELSE @]
  /\ out' = [out EXCEPT ![w] = Out("ok", doc[w])]
  /\ Goto(w, "release")
  /\ UNCHANGED <<limiter, dispatcher, cancelled, job, left, sent, doc, results>>

-----------------------------------------------------------------------------
(***************************************************************************)
(* The dispatcher.                                                         *)
(***************************************************************************)
\* jobs <- idx meets the receive of an idle worker, whose Fetch starts its
\* deadline before it asks the limiter.
Dispatch(w) ==
  /\ dpc = "send" /\ idx <= N
  /\ pc[w] = "receive"
  /\ Limiter!Acquire(w, HostOf[Sources[idx]])
  /\ job' = [job EXCEPT ![w] = idx]
  /\ left' = [left EXCEPT ![w] = Timeout]
  /\ Goto(w, "acquire")
  /\ idx' = idx + 1
  /\ UNCHANGED <<dpc, cancelled, sent, doc, out, results, cache>>

\* The other branch of its select: the context is done, so the sources not
\* handed out yet are to be marked.
GiveUpSending ==
  /\ dpc = "send" /\ idx <= N
  /\ cancelled
  /\ dpc' = "mark"
  /\ UNCHANGED <<limiter, idx, cancelled, fetching, results, cache>>

\* One turn of the marking loop; the workers go on meanwhile.
MarkSkipped ==
  /\ dpc = "mark" /\ idx <= N
  /\ Fill(idx, Out("skipped", 0))
  /\ idx' = idx + 1
  /\ UNCHANGED <<limiter, dpc, cancelled, fetching, cache>>

\* The deferred close(jobs), whichever loop ran to its end.
CloseJobs ==
  /\ dpc \in {"send", "mark"} /\ idx = N + 1
  /\ dpc' = "closed"
  /\ UNCHANGED <<limiter, idx, cancelled, fetching, results, cache>>

\* wg.Wait is over.
Return ==
  /\ dpc = "closed"
  /\ \A w \in Worker : pc[w] = "exited"
  /\ dpc' = "returned"
  /\ UNCHANGED <<limiter, idx, cancelled, fetching, results, cache>>

-----------------------------------------------------------------------------
(***************************************************************************)
(* A worker.                                                               *)
(***************************************************************************)
\* Inside the limiter.
PassLimiter(w) ==
  /\ pc[w] = "acquire"
  /\ Limiter!TakeGate(w) \/ Limiter!CheckNext(w) \/ Limiter!TimerFires(w)
  /\ UNCHANGED <<dispatcher, cancelled, fetching, results, cache>>

\* The context is done before the limiter let w through: no request is sent.
AcquireFails(w) ==
  /\ pc[w] = "acquire"
  /\ ContextDone(w)
  /\ Limiter!CancelAtGate(w) \/ Limiter!CancelSleep(w)
  /\ out' = [out EXCEPT ![w] = Out("error", 0)]
  /\ Goto(w, "write")
  /\ UNCHANGED <<dispatcher, cancelled, job, left, sent, doc, results, cache>>

\* Look the feed up in the cache and send the request, conditional on what
\* the cache held at that moment.
SendRequest(w) ==
  /\ pc[w] = "acquire"
  /\ at[w] = "hold"
  /\ sent' = [sent EXCEPT ![w] = cache[UrlOf(w)]]
  /\ Goto(w, "request")
  /\ UNCHANGED <<limiter, dispatcher, cancelled, job, left, doc, out, results, cache>>

\* The upstream answers 304: the entry looked up before the request is reused.
NotModified(w) ==
  /\ pc[w] = "request"
  /\ sent[w] = Current
  /\ out' = [out EXCEPT ![w] = Out("notModified", sent[w])]
  /\ Goto(w, "release")
  /\ UNCHANGED <<limiter, dispatcher, cancelled, job, left, sent, doc, results, cache>>

\* The upstream answers 2xx with the document it has now.
Respond(w) ==
  /\ pc[w] = "request"
  /\ doc' = [doc EXCEPT ![w] = Current]
  /\ Goto(w, "body")
  /\ UNCHANGED <<limiter, dispatcher, cancelled, job, left, sent, out, results, cache>>

\* The body is read and parsed, and the cache entry replaced as a whole.
StoreFeed(w) ==
  /\ pc[w] = "body"
  /\ cache' = [cache EXCEPT ![UrlOf(w)] = doc[w]]
  /\ out' = [out EXCEPT ![w] = Out("ok", doc[w])]
  /\ Goto(w, "release")
  /\ UNCHANGED <<limiter, dispatcher, cancelled, job, left, sent, doc, results>>

\* The request fails, before the answer or with it.
RequestFails(w) ==
  /\ pc[w] \in {"request", "body"}
  /\ out' = [out EXCEPT ![w] = Out("error", 0)]
  /\ Goto(w, "release")
  /\ UNCHANGED <<limiter, dispatcher, cancelled, job, left, sent, doc, results, cache>>

\* The deferred release(): the stamp, and then the token.
ReleaseStamps(w) ==
  /\ pc[w] = "release"
  /\ Limiter!StampNext(w)
  /\ UNCHANGED <<dispatcher, cancelled, fetching, results, cache>>

ReleaseDrains(w) ==
  /\ pc[w] = "release"
  /\ Limiter!DrainGate(w)
  /\ Goto(w, "write")
  /\ UNCHANGED <<dispatcher, cancelled, job, left, sent, doc, out, results, cache>>

\* results[i] = Result{...}, and back to the channel.
WriteResult(w) ==
  /\ pc[w] = "write"
  /\ Fill(job[w], out[w])
  /\ Goto(w, "receive")
  /\ job' = [job EXCEPT ![w] = 0]
  /\ left' = [left EXCEPT ![w] = 0]
  /\ sent' = [sent EXCEPT ![w] = 0]
  /\ doc' = [doc EXCEPT ![w] = 0]
  /\ out' = [out EXCEPT ![w] = None]
  /\ UNCHANGED <<limiter, dispatcher, cancelled, cache>>

\* The channel is closed: the worker's loop ends, wg.Done.
Exit(w) ==
  /\ pc[w] = "receive"
  /\ dpc = "closed"
  /\ Goto(w, "exited")
  /\ UNCHANGED <<limiter, dispatcher, cancelled, job, left, sent, doc, out, results, cache>>

-----------------------------------------------------------------------------
(***************************************************************************)
(* The environment.                                                        *)
(***************************************************************************)
Cancel ==
  /\ ~cancelled
  /\ cancelled' = TRUE
  /\ UNCHANGED <<limiter, dispatcher, fetching, results, cache>>

Tick ==
  /\ Limiter!Tick
  /\ left' = [w \in Worker |-> IF left[w] > 0 THEN left[w] - 1 ELSE 0]
  /\ UNCHANGED <<dispatcher, cancelled, pc, job, sent, doc, out, results, cache>>

Dispatcher == (\E w \in Worker : Dispatch(w)) \/ GiveUpSending \/ MarkSkipped \/ CloseJobs \/ Return

\* What a worker does without waiting for anybody but the limiter: a request
\* ends by itself only when its context is done.
WorkerRuns(w) ==
  \/ PassLimiter(w) \/ AcquireFails(w) \/ SendRequest(w)
  \/ ContextDone(w) /\ RequestFails(w)
  \/ ReleaseStamps(w) \/ ReleaseDrains(w) \/ WriteResult(w) \/ Exit(w)

Upstream(w) == NotModified(w) \/ Respond(w) \/ StoreFeed(w) \/ RequestFails(w)

Next ==
  \/ Dispatcher
  \/ \E w \in Worker : WorkerRuns(w) \/ Upstream(w)
  \/ Cancel
  \/ Tick

Spec == Init /\ [][Next]_vars

(***************************************************************************)
(* Goroutines that can run do, and time passes.  An upstream need never    *)
(* answer, nor the body of an answer ever end.                             *)
(***************************************************************************)
Fairness ==
  /\ WF_vars(Dispatcher)
  /\ \A w \in Worker : WF_vars(WorkerRuns(w))
  /\ WF_vars(Tick)

FairSpec == Spec /\ Fairness

-----------------------------------------------------------------------------
\* w's request is on the wire.
OnTheWire(w) == pc[w] \in {"request", "body"}

\* FetchAll keeps the promise Merger relies on: every slot is written once, by
\* the one worker that got its index or by the dispatcher that gave up on it, and
\* it returns only when every source has its result.  A slot left out is a source
\* that neither failed nor succeeded, one written twice a data race of the two.
Slots ==
  INSTANCE FetchAll WITH
    Slot <- 1..N, Empty <- None,
    Result <- Given,
    slots <- results, returned <- dpc = "returned"

ImplementsFetchAll == Slots!Spec

\* No request of the pool breaks the promise of RateLimit to its host,
\* from the moment it goes out to the moment the release stamps the host, with
\* workers that time out and are cancelled at every stage.
Promise ==
  INSTANCE RateLimit WITH
    busy <- [h \in Host |-> \E w \in Worker :
               /\ HostOf[Sources[IF job[w] = 0 THEN 1 ELSE job[w]]] = h
               /\ OnTheWire(w) \/ (pc[w] = "release" /\ at[w] = "hold")],
    cooldown <- next

RequestsArePolite == Promise!Spec

\* What FetchAll returns for a source is what the cache holds for its URL: the
\* next call, told 304, revives the document this one returned, and a result is
\* that of its own source, whichever worker wrote it and in whatever order.
ResultsMatchCache ==
  dpc = "returned" =>
    \A i \in 1..N : results[i].kind \in {"ok", "notModified"} =>
      results[i].doc = cache[Sources[i]]

\* With a timeout, FetchAll returns, even if no upstream ever answers.
FetchAllReturns == <>(dpc = "returned")

=============================================================================
