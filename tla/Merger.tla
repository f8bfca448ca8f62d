------------------------------- MODULE Merger -------------------------------
(***************************************************************************)
(* The refresh cycle of internal/server: the Merger, its health counters,  *)
(* the goroutine that refreshes it on an interval, and the HTTP handlers   *)
(* that read it and, before there is anything to read, refresh it too.     *)
(*                                                                         *)
(* What one source contributes to a merge is the version of its document,  *)
(* 0 if its fetch failed; a snapshot is those versions, and a merge of     *)
(* nothing but failures is no snapshot, so that NoSnapshot stands for nil. *)
(* The deduplicated, filtered, rendered and indexed entries, the entity    *)
(* tag and the dates are functions of that and do not appear.              *)
(*                                                                         *)
(* FetchAll is seen from outside: it answers for every source, in any      *)
(* order, with a failure or the present version of the upstream, and for   *)
(* a context that is done with nothing but failures.                       *)
(***************************************************************************)
EXTENDS Integers, FiniteSets

CONSTANTS
  Url,        \* the configured sources
  Client,     \* the requests being served at once, and who sends them
  Loop,       \* the goroutine of Run
  Nobody,     \* no process
  Periodic,   \* cfg.Refresh > 0
  MaxVersion, \* bound: how often an upstream document changes
  MaxRounds   \* bound: how often FetchAll is called

ASSUME ProcessAssumption == Loop \notin Client /\ Nobody \notin Client \cup {Loop}
ASSUME UrlAssumption == Url # {} /\ IsFiniteSet(Url)
ASSUME MergerBounds == Periodic \in BOOLEAN /\ MaxVersion \in Nat \ {0} /\ MaxRounds \in Nat

Process == Client \cup {Loop}
Version == 1..MaxVersion
Asked == -1     \* FetchAll has not answered for this source yet
NoSnapshot == [u \in Url |-> 0]

VARIABLES
  refreshM,   \* who holds Merger.refreshM
  snap,       \* Merger.snap
  lastErr,    \* Merger.lastErr is not nil
  ran,        \* Merger.lastRun is not zero
  refreshes,  \* Merger.refreshes
  fetches,    \* SourceHealth.Fetches
  streak,     \* SourceHealth.ConsecutiveFailures
  pc,         \* where each process is
  got,        \* got[p]: the results of the FetchAll of p so far
  done,       \* done[p]: the context of p is done
  answer,     \* answer[c]: the snapshot its last feed request got, or none
  seen,       \* seen[c]: what a handler of c has read before its next read
  upstream    \* the version each upstream serves now

merger == <<snap, lastErr, ran, refreshes>>
health == <<fetches, streak>>
vars == <<refreshM, merger, health, pc, got, done, answer, seen, upstream>>

Snapshot == [Url -> 0..MaxVersion]
Refreshing == {"lock", "fetch", "publish", "ok", "error"}
Seen == [snap : Snapshot, refreshes : Nat, fetches : [Url -> Nat]]
Unseen == [snap |-> NoSnapshot, refreshes |-> 0, fetches |-> [u \in Url |-> 0]]

TypeOK ==
  /\ refreshM \in Process \cup {Nobody}
  /\ snap \in Snapshot
  /\ lastErr \in BOOLEAN /\ ran \in BOOLEAN
  /\ refreshes \in Nat
  /\ fetches \in [Url -> Nat] /\ streak \in [Url -> Nat]
  /\ pc \in [Process -> Refreshing \cup {"idle", "healthz", "metrics", "metrics2", "wait", "stopped"}]
  /\ got \in [Process -> [Url -> 0..MaxVersion \cup {Asked}]]
  /\ done \in [Process -> BOOLEAN]
  /\ answer \in [Client -> Snapshot]
  /\ seen \in [Client -> Seen]
  /\ upstream \in [Url -> Version]

\* Run begins with a refresh.
Init ==
  /\ refreshM = Nobody
  /\ snap = NoSnapshot /\ lastErr = FALSE /\ ran = FALSE /\ refreshes = 0
  /\ fetches = [u \in Url |-> 0] /\ streak = [u \in Url |-> 0]
  /\ pc = [p \in Process |-> IF p = Loop THEN "lock" ELSE "idle"]
  /\ got = [p \in Process |-> NoSnapshot]
  /\ done = [p \in Process |-> FALSE]
  /\ answer = [c \in Client |-> NoSnapshot]
  /\ seen = [c \in Client |-> Unseen]
  /\ upstream = [u \in Url |-> 1]

Goto(p, l) == pc' = [pc EXCEPT ![p] = l]

\* Room for one more refresh, counting those that have not been recorded yet.
Room ==
  LET begun == {p \in Process : pc[p] \in {"lock", "fetch"}}
  IN  \A u \in Url : fetches[u] + Cardinality(begun) < MaxRounds

-----------------------------------------------------------------------------
(***************************************************************************)
(* Plausible mistakes in the actions below.                                *)
(***************************************************************************)
\* Refresh without refreshM.
LockUnguarded(p) ==
  /\ pc[p] = "lock"
  /\ refreshM' = p
  /\ got' = [got EXCEPT ![p] = [u \in Url |-> Asked]]
  /\ Goto(p, "fetch")
  /\ UNCHANGED <<merger, health, done, answer, seen, upstream>>

\* The streak is kept after a success.
RecordKeepsStreak(p) ==
  /\ pc[p] = "fetch" /\ \A u \in Url : got[p][u] # Asked
  /\ fetches' = [u \in Url |-> fetches[u] + 1]
  /\ streak' = [u \in Url |-> IF got[p][u] = 0 THEN streak[u] + 1 ELSE streak[u]]
  /\ Goto(p, "publish")
  /\ UNCHANGED <<refreshM, merger, got, done, answer, seen, upstream>>

\* Only sources that answered are counted.
RecordSkipsFailures(p) ==
  /\ pc[p] = "fetch" /\ \A u \in Url : got[p][u] # Asked
  /\ fetches' = [u \in Url |-> IF got[p][u] = 0 THEN fetches[u] ELSE fetches[u] + 1]
  /\ streak' = [u \in Url |-> IF got[p][u] = 0 THEN streak[u] + 1 ELSE 0]
  /\ Goto(p, "publish")
  /\ UNCHANGED <<refreshM, merger, got, done, answer, seen, upstream>>

\* The merge goes ahead before every source has answered.
RecordEarly(p) ==
  /\ pc[p] = "fetch"
  /\ fetches' = [u \in Url |-> fetches[u] + 1]
  /\ streak' = [u \in Url |-> IF got[p][u] = 0 THEN streak[u] + 1 ELSE 0]
  /\ Goto(p, "publish")
  /\ UNCHANGED <<refreshM, merger, got, done, answer, seen, upstream>>

\* The mutex is not unlocked when Refresh fails.
ReturnLocked(p) ==
  /\ pc[p] \in {"ok", "error"}
  /\ refreshM' = IF pc[p] = "ok" THEN Nobody ELSE refreshM
  /\ IF p = Loop
     THEN Goto(p, IF Periodic THEN "wait" ELSE "stopped") /\ UNCHANGED <<answer, done>>
     ELSE /\ Goto(p, "idle")
          /\ answer' = [answer EXCEPT ![p] = IF pc[p] = "ok" THEN got[p] ELSE NoSnapshot]
          /\ done' = [done EXCEPT ![p] = FALSE]
  /\ got' = [got EXCEPT ![p] = NoSnapshot]
  /\ UNCHANGED <<merger, health, seen, upstream>>

-----------------------------------------------------------------------------
(***************************************************************************)
(* Refresh.                                                                *)
(***************************************************************************)
\* One refresh at a time.  The wait does not look at the context.
Lock(p) ==
  /\ pc[p] = "lock" /\ refreshM = Nobody
  /\ refreshM' = p
  /\ got' = [got EXCEPT ![p] = [u \in Url |-> Asked]]
  /\ Goto(p, "fetch")
  /\ UNCHANGED <<merger, health, done, answer, seen, upstream>>

\* FetchAll has the result of one source.
Answer(p, u) ==
  /\ pc[p] = "fetch" /\ got[p][u] = Asked
  /\ \E v \in {0} \cup (IF done[p] THEN {} ELSE {upstream[u]}) :
       got' = [got EXCEPT ![p][u] = v]
  /\ UNCHANGED <<refreshM, merger, health, pc, done, answer, seen, upstream>>

\* It has them all: they go into the health counters before anything else.
Record(p) ==
  /\ pc[p] = "fetch" /\ \A u \in Url : got[p][u] # Asked
  /\ fetches' = [u \in Url |-> fetches[u] + 1]
  /\ streak' = [u \in Url |-> IF got[p][u] = 0 THEN streak[u] + 1 ELSE 0]
  /\ Goto(p, "publish")
  /\ UNCHANGED <<refreshM, merger, got, done, answer, seen, upstream>>

\* Every source failed: the snapshot there is stays.
PublishFailure(p) ==
  /\ pc[p] = "publish" /\ got[p] = NoSnapshot
  /\ lastErr' = TRUE /\ ran' = TRUE /\ refreshes' = refreshes + 1
  /\ Goto(p, "error")
  /\ UNCHANGED <<refreshM, snap, health, got, done, answer, seen, upstream>>

Publish(p) ==
  /\ pc[p] = "publish" /\ got[p] # NoSnapshot
  /\ snap' = got[p]
  /\ lastErr' = FALSE /\ ran' = TRUE /\ refreshes' = refreshes + 1
  /\ Goto(p, "ok")
  /\ UNCHANGED <<refreshM, health, got, done, answer, seen, upstream>>

\* A document cannot be rendered: Refresh returns at once, and its outcome is
\* neither counted nor remembered.
RenderFails(p) ==
  /\ pc[p] = "publish" /\ got[p] # NoSnapshot
  /\ Goto(p, "error")
  /\ UNCHANGED <<refreshM, merger, health, got, done, answer, seen, upstream>>

\* Refresh returns; Run goes on to wait, a handler answers with what Refresh
\* gave it: the feed, or 503.
Return(p) ==
  /\ pc[p] \in {"ok", "error"}
  /\ refreshM' = Nobody
  /\ IF p = Loop
     THEN Goto(p, IF Periodic THEN "wait" ELSE "stopped") /\ UNCHANGED <<answer, done>>
     ELSE /\ Goto(p, "idle")
          /\ answer' = [answer EXCEPT ![p] = IF pc[p] = "ok" THEN got[p] ELSE NoSnapshot]
          /\ done' = [done EXCEPT ![p] = FALSE]
  /\ got' = [got EXCEPT ![p] = NoSnapshot]
  /\ UNCHANGED <<merger, health, seen, upstream>>

Refresh(p) ==
  \/ Lock(p)
  \/ \E u \in Url : Answer(p, u)
  \/ Record(p)
  \/ PublishFailure(p) \/ Publish(p) \/ RenderFails(p)
  \/ Return(p)

-----------------------------------------------------------------------------
(***************************************************************************)
(* Run.                                                                    *)
(***************************************************************************)
\* The select takes the ticker even if the context is done as well.
Tick ==
  /\ pc[Loop] = "wait" /\ Room
  /\ Goto(Loop, "lock")
  /\ UNCHANGED <<refreshM, merger, health, got, done, answer, seen, upstream>>

Stop ==
  /\ pc[Loop] = "wait" /\ done[Loop]
  /\ Goto(Loop, "stopped")
  /\ UNCHANGED <<refreshM, merger, health, got, done, answer, seen, upstream>>

-----------------------------------------------------------------------------
(***************************************************************************)
(* The handlers.                                                           *)
(***************************************************************************)
\* A feed, a search or a saved search: Server.snapshot gives the snapshot
\* there is, or refreshes with the context of the request.
GetFeed(c) ==
  /\ pc[c] = "idle" /\ snap # NoSnapshot
  /\ answer' = [answer EXCEPT ![c] = snap]
  /\ UNCHANGED <<refreshM, merger, health, pc, got, done, seen, upstream>>

GetFirstFeed(c) ==
  /\ pc[c] = "idle" /\ snap = NoSnapshot /\ Room
  /\ Goto(c, "lock")
  /\ UNCHANGED <<refreshM, merger, health, got, done, answer, seen, upstream>>

\* /healthz reads the snapshot, and then the outcome of the last refresh.
GetHealthz(c) ==
  /\ pc[c] = "idle"
  /\ seen' = [seen EXCEPT ![c].snap = snap]
  /\ Goto(c, "healthz")
  /\ UNCHANGED <<refreshM, merger, health, got, done, answer, upstream>>

Status(c) ==
  CASE seen[c].snap = NoSnapshot /\ lastErr  -> "error"
    [] seen[c].snap = NoSnapshot /\ ~lastErr -> "starting"
    [] seen[c].snap # NoSnapshot ->
         IF \E u \in Url : seen[c].snap[u] = 0 THEN "degraded" ELSE "ok"

\* /metrics reads the number of refreshes, then the counters, then the
\* snapshot.
GetMetrics(c) ==
  /\ pc[c] = "idle"
  /\ seen' = [seen EXCEPT ![c].refreshes = refreshes]
  /\ Goto(c, "metrics")
  /\ UNCHANGED <<refreshM, merger, health, got, done, answer, upstream>>

MetricsHealth(c) ==
  /\ pc[c] = "metrics"
  /\ seen' = [seen EXCEPT ![c].fetches = fetches]
  /\ Goto(c, "metrics2")
  /\ UNCHANGED <<refreshM, merger, health, got, done, answer, upstream>>

\* The last read, and the answer.
Respond(c) ==
  /\ pc[c] \in {"healthz", "metrics2"}
  /\ seen' = [seen EXCEPT ![c] = Unseen]
  /\ Goto(c, "idle")
  /\ UNCHANGED <<refreshM, merger, health, got, done, answer, upstream>>

Handle(c) ==
  \/ GetFeed(c) \/ GetFirstFeed(c)
  \/ GetHealthz(c) \/ GetMetrics(c) \/ MetricsHealth(c) \/ Respond(c)

-----------------------------------------------------------------------------
(***************************************************************************)
(* The environment: a client hangs up, the process is told to stop, an     *)
(* upstream changes its document.                                          *)
(***************************************************************************)
Cancel(p) ==
  /\ ~done[p] /\ (p = Loop \/ pc[p] \in Refreshing)
  /\ done' = [done EXCEPT ![p] = TRUE]
  /\ UNCHANGED <<refreshM, merger, health, pc, got, answer, seen, upstream>>

UpstreamChanges(u) ==
  /\ upstream[u] < MaxVersion
  /\ upstream' = [upstream EXCEPT ![u] = @ + 1]
  /\ UNCHANGED <<refreshM, merger, health, pc, got, done, answer, seen>>

Next ==
  \/ \E p \in Process : Refresh(p) \/ Cancel(p)
  \/ Tick \/ Stop
  \/ \E c \in Client : Handle(c)
  \/ \E u \in Url : UpstreamChanges(u)

Spec == Init /\ [][Next]_vars

-----------------------------------------------------------------------------
\* Of no source does a published snapshot replace a document by an older one,
\* whoever refreshes and however their fetches overlap.
SnapshotNeverGoesBack ==
  [][\A u \in Url : snap'[u] # 0 => snap'[u] >= snap[u]]_snap

\* A reader is never shown an older document of a source than before, whether
\* it got the snapshot there was or the result of its own refresh.
ReadersNeverGoBack ==
  [][\A c \in Client, u \in Url : answer'[c][u] # 0 => answer'[c][u] >= answer[c][u]]_answer

\* In one answer of /metrics every source was fetched at least as often as
\* there were refreshes, although they are read under different locks.
MetricsAddUp ==
  \A c \in Client : pc[c] = "metrics2" => \A u \in Url : seen[c].refreshes <= seen[c].fetches[u]

\* Every refresh so far is counted: none failed to render.
Counted == \A u \in Url : fetches[u] = refreshes

\* Between two refreshes, the last one failed exactly if every source is in a
\* streak of failures: what /healthz says of the error and what /metrics counts
\* as degraded tell the same story, unless rendering failed.
ErrorMeansAllDegraded ==
  refreshM = Nobody /\ ran /\ Counted =>
    (lastErr <=> \A u \in Url : streak[u] > 0)

(***************************************************************************)
(* A claim of the documentation the code does not keep.                    *)
(***************************************************************************)
\* README.md:474: only when every source failed, and there is no good snapshot
\* to serve, is a reader turned away.
GoodSnapshotIsServed ==
  \A c \in Client : pc[c] = "error" /\ got[c] = NoSnapshot => snap = NoSnapshot

=============================================================================
