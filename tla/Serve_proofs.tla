---------------------------- MODULE Serve_proofs ----------------------------
(***************************************************************************)
(* What is true of Merger, and of the process that serves it, for any      *)
(* number of sources, readers, refreshes and versions.                     *)
(*                                                                         *)
(* The first part is about Merger alone.  Everything in it rests on        *)
(* refreshM: the results of the one who holds it are no older than the     *)
(* snapshot it will replace, and no newer than the upstreams, which only   *)
(* move forward.                                                           *)
(*                                                                         *)
(* The second part is about Serve.  A serving process does nothing to      *)
(* Merger that Merger does not allow, so that the theorems of the first    *)
(* part hold while it starts, runs and drains; and it ends without an      *)
(* error only after a signal and with no request in flight.                *)
(***************************************************************************)
EXTENDS Serve, TLAPS

Holding == {"fetch", "publish", "ok", "error"}

\* Who is inside Refresh holds the mutex, and nobody else does.
Exclusive == \A p \in Process : pc[p] \in Holding <=> refreshM = p

\* Each refresh is recorded before it is counted.
Ahead ==
  \A u \in Url :
    /\ refreshes <= fetches[u]
    /\ (\E p \in Process : pc[p] = "publish") => refreshes + 1 <= fetches[u]

MetricsSoFar ==
  \A c \in Client :
    /\ pc[c] = "metrics" => seen[c].refreshes <= refreshes
    /\ pc[c] = "metrics2" => \A u \in Url : seen[c].refreshes <= seen[c].fetches[u]

\* A document is never newer than its upstream, and nobody has been shown a
\* newer one than the snapshot holds.
Bounded ==
  /\ \A u \in Url : snap[u] <= upstream[u]
  /\ \A c \in Client, u \in Url :
       /\ answer[c][u] <= upstream[u]
       /\ snap[u] # 0 => answer[c][u] <= snap[u]

\* What a refresh has gathered lies between what is known and what is there.
Fresh ==
  \A p \in Process :
    /\ pc[p] \in {"fetch", "publish"} =>
         \A u \in Url :
           got[p][u] > 0 =>
             /\ got[p][u] <= upstream[u]
             /\ snap[u] <= got[p][u]
             /\ \A c \in Client : answer[c][u] <= got[p][u]
    /\ pc[p] \in {"publish", "ok"} => \A u \in Url : got[p][u] # Asked
    /\ pc[p] = "ok" => got[p] = snap

AllFailing == \A u \in Url : streak[u] > 0

\* The streaks tell what the refresh that is about to publish has got, and
\* otherwise what the last one got.
StreaksTell ==
  /\ \A p \in Process : pc[p] = "publish" =>
       \A u \in Url : streak[u] > 0 <=> got[p][u] = 0
  /\ (\A p \in Process : pc[p] # "publish") /\ ran /\ Counted => (lastErr <=> AllFailing)

IInv == TypeOK /\ Exclusive /\ Ahead /\ MetricsSoFar /\ Bounded /\ Fresh /\ StreaksTell

-----------------------------------------------------------------------------
LEMMA NoSnapshotType == NoSnapshot \in Snapshot /\ NoSnapshot \in [Url -> 0..MaxVersion \cup {Asked}]
BY MergerBounds DEF NoSnapshot, Snapshot, Asked

LEMMA UnseenType == Unseen \in Seen
BY NoSnapshotType DEF Unseen, Seen

\* Nothing has happened yet.
LEMMA InitIInv == Init => IInv
<1> SUFFICES ASSUME Init PROVE IInv
  OBVIOUS
<1> USE MergerBounds, ProcessAssumption DEF Init
<1>1. TypeOK
  <2>1. snap \in Snapshot /\ got \in [Process -> [Url -> 0..MaxVersion \cup {Asked}]]
    BY NoSnapshotType
  <2>2. answer \in [Client -> Snapshot] /\ seen \in [Client -> Seen]
    BY NoSnapshotType, UnseenType
  <2>3. fetches \in [Url -> Nat] /\ streak \in [Url -> Nat] /\ upstream \in [Url -> Version]
    BY DEF Version
  <2>4. pc \in [Process -> Refreshing \cup {"idle", "healthz", "metrics", "metrics2", "wait", "stopped"}]
    BY DEF Refreshing
  <2> QED
    BY <2>1, <2>2, <2>3, <2>4 DEF TypeOK, Process
<1>2. Exclusive
  BY DEF Exclusive, Holding, Process
<1>3. Ahead
  BY DEF Ahead, Process
<1>4. MetricsSoFar
  BY DEF MetricsSoFar, Process
<1>5. Bounded
  BY DEF Bounded, NoSnapshot
<1>6. Fresh
  BY DEF Fresh, Process
<1>7. StreaksTell
  BY DEF StreaksTell, Process
<1> QED
  BY <1>1, <1>2, <1>3, <1>4, <1>5, <1>6, <1>7 DEF IInv

-----------------------------------------------------------------------------

\* Every step keeps the variables in their types.
LEMMA StepTypeOK == IInv /\ [Next]_vars => TypeOK'
<1> SUFFICES ASSUME IInv, [Next]_vars
             PROVE  TypeOK'
  OBVIOUS
<1> USE MergerBounds, ProcessAssumption
    DEF IInv, TypeOK, Process, Snapshot, Seen, Version, Refreshing,
        NoSnapshot, Unseen, Asked, Goto, merger, health
<1>1. ASSUME NEW p \in Process, Lock(p)
      PROVE  TypeOK'
  <2>1. [v \in Url |-> Asked] \in [Url -> 0..MaxVersion \cup {Asked}]
    OBVIOUS
  <2> QED
    BY <1>1, <2>1 DEF Lock
<1>2. ASSUME NEW p \in Process, NEW u \in Url, Answer(p, u)
      PROVE  TypeOK'
  <2>1. PICK v \in {0} \cup (IF done[p] THEN {} ELSE {upstream[u]}) : got' = [got EXCEPT ![p][u] = v]
    BY <1>2 DEF Answer
  <2>2. v \in 0..MaxVersion
    BY <2>1
  <2>3. got' \in [Process -> [Url -> 0..MaxVersion \cup {Asked}]]
    BY <2>1, <2>2
  <2> QED
    BY <1>2, <2>3 DEF Answer
<1>3. ASSUME NEW p \in Process, Record(p)
      PROVE  TypeOK'
  BY <1>3 DEF Record
<1>4. ASSUME NEW p \in Process, PublishFailure(p)
      PROVE  TypeOK'
  BY <1>4 DEF PublishFailure
<1>5. ASSUME NEW p \in Process, Publish(p)
      PROVE  TypeOK'
  <2>1. got[p] \in Snapshot
    BY <1>5 DEF Publish, Fresh
  <2>2. snap' = got[p] /\ refreshes' = refreshes + 1 /\ lastErr' = FALSE /\ ran' = TRUE
    BY <1>5 DEF Publish
  <2>3. pc' \in [Process -> Refreshing \cup {"idle", "healthz", "metrics", "metrics2", "wait", "stopped"}]
    BY <1>5 DEF Publish
  <2>4. UNCHANGED <<refreshM, fetches, streak, got, done, answer, seen, upstream>>
    BY <1>5 DEF Publish
  <2>5. snap' \in Snapshot
    BY <2>1, <2>2
  <2>6. refreshes' \in Nat
    BY <2>2
  <2>7. lastErr' \in BOOLEAN /\ ran' \in BOOLEAN
    BY <1>5, Zenon DEF Publish
  <2> QED
    BY <2>3, <2>4, <2>5, <2>6, <2>7
<1>6. ASSUME NEW p \in Process, RenderFails(p)
      PROVE  TypeOK'
  BY <1>6 DEF RenderFails
<1>7. ASSUME NEW p \in Process, Return(p)
      PROVE  TypeOK'
  <2>1. got' \in [Process -> [Url -> 0..MaxVersion \cup {Asked}]]
    BY <1>7, NoSnapshotType DEF Return
  <2>2. answer' \in [Client -> Snapshot] /\ done' \in [Process -> BOOLEAN]
    <3>1. CASE p = Loop
      BY <1>7, <3>1 DEF Return
    <3>2. CASE p # Loop
      <4>1. pc[p] = "ok" => got[p] \in Snapshot
        BY DEF Fresh
      <4>2. (IF pc[p] = "ok" THEN got[p] ELSE NoSnapshot) \in Snapshot
        BY <4>1, NoSnapshotType
      <4>3. p \in Client
        BY <3>2
      <4>4. answer' = [answer EXCEPT ![p] = IF pc[p] = "ok" THEN got[p] ELSE NoSnapshot]
            /\ done' = [done EXCEPT ![p] = FALSE]
        BY <1>7, <3>2 DEF Return
      <4> HIDE DEF NoSnapshot, Snapshot
      <4> QED
        BY <4>2, <4>3, <4>4
    <3> QED
      BY <3>1, <3>2
  <2>3. pc' \in [Process -> Refreshing \cup {"idle", "healthz", "metrics", "metrics2", "wait", "stopped"}]
    BY <1>7 DEF Return
  <2> QED
    BY <1>7, <2>1, <2>2, <2>3 DEF Return
<1>8. ASSUME NEW p \in Process, Cancel(p)
      PROVE  TypeOK'
  BY <1>8 DEF Cancel
<1>9. ASSUME Tick
      PROVE  TypeOK'
  BY <1>9 DEF Tick
<1>10. ASSUME Stop
      PROVE  TypeOK'
  BY <1>10 DEF Stop
<1>11. ASSUME NEW c \in Client, GetFeed(c)
      PROVE  TypeOK'
  BY <1>11 DEF GetFeed
<1>12. ASSUME NEW c \in Client, GetFirstFeed(c)
      PROVE  TypeOK'
  BY <1>12 DEF GetFirstFeed
<1>13. ASSUME NEW c \in Client, GetHealthz(c)
      PROVE  TypeOK'
  BY <1>13 DEF GetHealthz
<1>14. ASSUME NEW c \in Client, GetMetrics(c)
      PROVE  TypeOK'
  BY <1>14 DEF GetMetrics
<1>15. ASSUME NEW c \in Client, MetricsHealth(c)
      PROVE  TypeOK'
  BY <1>15 DEF MetricsHealth
<1>16. ASSUME NEW c \in Client, Respond(c)
      PROVE  TypeOK'
  BY <1>16, UnseenType DEF Respond
<1>17. ASSUME NEW u \in Url, UpstreamChanges(u)
      PROVE  TypeOK'
  <2>1. upstream[u] + 1 \in Version
    BY <1>17 DEF UpstreamChanges
  <2> QED
    BY <1>17, <2>1 DEF UpstreamChanges
<1>18. CASE UNCHANGED vars
  BY <1>18 DEF vars
<1> QED
  BY <1>1, <1>2, <1>3, <1>4, <1>5, <1>6, <1>7, <1>8, <1>9, <1>10, <1>11, <1>12,
     <1>13, <1>14, <1>15, <1>16, <1>17, <1>18
     DEF Next, Refresh, Handle

-----------------------------------------------------------------------------
\* The mutex keeps its owner.
LEMMA StepExclusive == IInv /\ [Next]_vars => Exclusive'
<1> SUFFICES ASSUME IInv, [Next]_vars
             PROVE  Exclusive'
  OBVIOUS
<1> USE MergerBounds, ProcessAssumption
    DEF IInv, TypeOK, Process, Snapshot, Seen, Version, Refreshing,
        Goto, merger, health, Exclusive, Holding
<1>1. ASSUME NEW p \in Process, Lock(p)
      PROVE  Exclusive'
  BY <1>1 DEF Lock
<1>2. ASSUME NEW p \in Process, NEW u \in Url, Answer(p, u)
      PROVE  Exclusive'
  BY <1>2 DEF Answer
<1>3. ASSUME NEW p \in Process, Record(p)
      PROVE  Exclusive'
  BY <1>3 DEF Record
<1>4. ASSUME NEW p \in Process, PublishFailure(p)
      PROVE  Exclusive'
  BY <1>4 DEF PublishFailure
<1>5. ASSUME NEW p \in Process, Publish(p)
      PROVE  Exclusive'
  BY <1>5 DEF Publish
<1>6. ASSUME NEW p \in Process, RenderFails(p)
      PROVE  Exclusive'
  BY <1>6 DEF RenderFails
<1>7. ASSUME NEW p \in Process, Return(p)
      PROVE  Exclusive'
  BY <1>7 DEF Return
<1>8. ASSUME NEW p \in Process, Cancel(p)
      PROVE  Exclusive'
  BY <1>8 DEF Cancel
<1>9. ASSUME Tick
      PROVE  Exclusive'
  BY <1>9 DEF Tick
<1>10. ASSUME Stop
      PROVE  Exclusive'
  BY <1>10 DEF Stop
<1>11. ASSUME NEW c \in Client, GetFeed(c)
      PROVE  Exclusive'
  BY <1>11 DEF GetFeed
<1>12. ASSUME NEW c \in Client, GetFirstFeed(c)
      PROVE  Exclusive'
  BY <1>12 DEF GetFirstFeed
<1>13. ASSUME NEW c \in Client, GetHealthz(c)
      PROVE  Exclusive'
  BY <1>13 DEF GetHealthz
<1>14. ASSUME NEW c \in Client, GetMetrics(c)
      PROVE  Exclusive'
  BY <1>14 DEF GetMetrics
<1>15. ASSUME NEW c \in Client, MetricsHealth(c)
      PROVE  Exclusive'
  BY <1>15 DEF MetricsHealth
<1>16. ASSUME NEW c \in Client, Respond(c)
      PROVE  Exclusive'
  BY <1>16 DEF Respond
<1>17. ASSUME NEW u \in Url, UpstreamChanges(u)
      PROVE  Exclusive'
  BY <1>17 DEF UpstreamChanges
<1>18. CASE UNCHANGED vars
  BY <1>18 DEF vars
<1> QED
  BY <1>1, <1>2, <1>3, <1>4, <1>5, <1>6, <1>7, <1>8, <1>9, <1>10, <1>11, <1>12,
     <1>13, <1>14, <1>15, <1>16, <1>17, <1>18
     DEF Next, Refresh, Handle

\* A refresh is counted after it was recorded.
LEMMA StepAhead == IInv /\ [Next]_vars => Ahead'
<1> SUFFICES ASSUME IInv, [Next]_vars
             PROVE  Ahead'
  OBVIOUS
<1> USE MergerBounds, ProcessAssumption
    DEF IInv, TypeOK, Process, Snapshot, Seen, Version, Refreshing,
        Goto, merger, health, Ahead, Exclusive, Holding
<1>1. ASSUME NEW p \in Process, Lock(p)
      PROVE  Ahead'
  BY <1>1 DEF Lock
<1>2. ASSUME NEW p \in Process, NEW u \in Url, Answer(p, u)
      PROVE  Ahead'
  BY <1>2 DEF Answer
<1>3. ASSUME NEW p \in Process, Record(p)
      PROVE  Ahead'
  BY <1>3 DEF Record
<1>4. ASSUME NEW p \in Process, PublishFailure(p)
      PROVE  Ahead'
  BY <1>4 DEF PublishFailure
<1>5. ASSUME NEW p \in Process, Publish(p)
      PROVE  Ahead'
  BY <1>5 DEF Publish
<1>6. ASSUME NEW p \in Process, RenderFails(p)
      PROVE  Ahead'
  BY <1>6 DEF RenderFails
<1>7. ASSUME NEW p \in Process, Return(p)
      PROVE  Ahead'
  BY <1>7 DEF Return
<1>8. ASSUME NEW p \in Process, Cancel(p)
      PROVE  Ahead'
  BY <1>8 DEF Cancel
<1>9. ASSUME Tick
      PROVE  Ahead'
  BY <1>9 DEF Tick
<1>10. ASSUME Stop
      PROVE  Ahead'
  BY <1>10 DEF Stop
<1>11. ASSUME NEW c \in Client, GetFeed(c)
      PROVE  Ahead'
  BY <1>11 DEF GetFeed
<1>12. ASSUME NEW c \in Client, GetFirstFeed(c)
      PROVE  Ahead'
  BY <1>12 DEF GetFirstFeed
<1>13. ASSUME NEW c \in Client, GetHealthz(c)
      PROVE  Ahead'
  BY <1>13 DEF GetHealthz
<1>14. ASSUME NEW c \in Client, GetMetrics(c)
      PROVE  Ahead'
  BY <1>14 DEF GetMetrics
<1>15. ASSUME NEW c \in Client, MetricsHealth(c)
      PROVE  Ahead'
  BY <1>15 DEF MetricsHealth
<1>16. ASSUME NEW c \in Client, Respond(c)
      PROVE  Ahead'
  BY <1>16 DEF Respond
<1>17. ASSUME NEW u \in Url, UpstreamChanges(u)
      PROVE  Ahead'
  BY <1>17 DEF UpstreamChanges
<1>18. CASE UNCHANGED vars
  BY <1>18 DEF vars
<1> QED
  BY <1>1, <1>2, <1>3, <1>4, <1>5, <1>6, <1>7, <1>8, <1>9, <1>10, <1>11, <1>12,
     <1>13, <1>14, <1>15, <1>16, <1>17, <1>18
     DEF Next, Refresh, Handle

\* Counters only grow, so what was read stays behind.
LEMMA StepMetrics == IInv /\ [Next]_vars => MetricsSoFar'
<1> SUFFICES ASSUME IInv, [Next]_vars
             PROVE  MetricsSoFar'
  OBVIOUS
<1> USE MergerBounds, ProcessAssumption
    DEF IInv, TypeOK, Process, Snapshot, Seen, Version, Refreshing,
        Goto, merger, health, MetricsSoFar, Ahead
<1>1. ASSUME NEW p \in Process, Lock(p)
      PROVE  MetricsSoFar'
  BY <1>1 DEF Lock
<1>2. ASSUME NEW p \in Process, NEW u \in Url, Answer(p, u)
      PROVE  MetricsSoFar'
  BY <1>2 DEF Answer
<1>3. ASSUME NEW p \in Process, Record(p)
      PROVE  MetricsSoFar'
  BY <1>3 DEF Record
<1>4. ASSUME NEW p \in Process, PublishFailure(p)
      PROVE  MetricsSoFar'
  BY <1>4 DEF PublishFailure
<1>5. ASSUME NEW p \in Process, Publish(p)
      PROVE  MetricsSoFar'
  BY <1>5 DEF Publish
<1>6. ASSUME NEW p \in Process, RenderFails(p)
      PROVE  MetricsSoFar'
  BY <1>6 DEF RenderFails
<1>7. ASSUME NEW p \in Process, Return(p)
      PROVE  MetricsSoFar'
  <2>1. UNCHANGED <<refreshes, seen>>
    BY <1>7 DEF Return
  <2>2. pc'[p] \in {"idle", "wait", "stopped"} /\ \A q \in Process \ {p} : pc'[q] = pc[q]
    BY <1>7 DEF Return
  <2> QED
    BY <2>1, <2>2
<1>8. ASSUME NEW p \in Process, Cancel(p)
      PROVE  MetricsSoFar'
  BY <1>8 DEF Cancel
<1>9. ASSUME Tick
      PROVE  MetricsSoFar'
  BY <1>9 DEF Tick
<1>10. ASSUME Stop
      PROVE  MetricsSoFar'
  BY <1>10 DEF Stop
<1>11. ASSUME NEW c \in Client, GetFeed(c)
      PROVE  MetricsSoFar'
  BY <1>11 DEF GetFeed
<1>12. ASSUME NEW c \in Client, GetFirstFeed(c)
      PROVE  MetricsSoFar'
  BY <1>12 DEF GetFirstFeed
<1>13. ASSUME NEW c \in Client, GetHealthz(c)
      PROVE  MetricsSoFar'
  BY <1>13 DEF GetHealthz
<1>14. ASSUME NEW c \in Client, GetMetrics(c)
      PROVE  MetricsSoFar'
  BY <1>14 DEF GetMetrics
<1>15. ASSUME NEW c \in Client, MetricsHealth(c)
      PROVE  MetricsSoFar'
  BY <1>15 DEF MetricsHealth
<1>16. ASSUME NEW c \in Client, Respond(c)
      PROVE  MetricsSoFar'
  BY <1>16 DEF Respond
<1>17. ASSUME NEW u \in Url, UpstreamChanges(u)
      PROVE  MetricsSoFar'
  BY <1>17 DEF UpstreamChanges
<1>18. CASE UNCHANGED vars
  BY <1>18 DEF vars
<1> QED
  BY <1>1, <1>2, <1>3, <1>4, <1>5, <1>6, <1>7, <1>8, <1>9, <1>10, <1>11, <1>12,
     <1>13, <1>14, <1>15, <1>16, <1>17, <1>18
     DEF Next, Refresh, Handle

\* Snapshots and answers move forward, up to the upstreams.
LEMMA StepBounded == IInv /\ [Next]_vars => Bounded'
<1> SUFFICES ASSUME IInv, [Next]_vars
             PROVE  Bounded'
  OBVIOUS
<1> USE MergerBounds, ProcessAssumption
    DEF IInv, TypeOK, Process, Snapshot, Seen, Version, Refreshing,
        Goto, merger, health, Bounded
<1>1. ASSUME NEW p \in Process, Lock(p)
      PROVE  Bounded'
  BY <1>1 DEF Lock
<1>2. ASSUME NEW p \in Process, NEW u \in Url, Answer(p, u)
      PROVE  Bounded'
  BY <1>2 DEF Answer
<1>3. ASSUME NEW p \in Process, Record(p)
      PROVE  Bounded'
  BY <1>3 DEF Record
<1>4. ASSUME NEW p \in Process, PublishFailure(p)
      PROVE  Bounded'
  BY <1>4 DEF PublishFailure
<1>5. ASSUME NEW p \in Process, Publish(p)
      PROVE  Bounded'
  <2>1. \A u \in Url : got[p][u] >= 0 /\ got[p][u] <= upstream[u]
    BY <1>5 DEF Publish, Fresh, Asked
  <2>2. snap' = got[p] /\ UNCHANGED <<answer, upstream>>
    BY <1>5 DEF Publish
  <2>3. \A c \in Client, u \in Url : got[p][u] # 0 => answer[c][u] <= got[p][u]
    <3>1. pc[p] = "publish" /\ \A u \in Url : got[p][u] \in 0..MaxVersion \cup {Asked}
      BY <1>5 DEF Publish
    <3>2. \A u \in Url : got[p][u] > 0 => \A c \in Client : answer[c][u] <= got[p][u]
      BY <3>1 DEF Fresh
    <3>3. ASSUME NEW u \in Url, got[p][u] # 0 PROVE got[p][u] > 0
      <4>1. got[p][u] \in Int
        BY <3>1 DEF Asked
      <4>2. got[p][u] >= 0
        BY <2>1
      <4> QED
        BY <3>3, <4>1, <4>2
    <3> QED
      BY <3>2, <3>3
  <2> QED
    BY <2>1, <2>2, <2>3
<1>6. ASSUME NEW p \in Process, RenderFails(p)
      PROVE  Bounded'
  BY <1>6 DEF RenderFails
<1>7. ASSUME NEW p \in Process, Return(p)
      PROVE  Bounded'
  <2>1. UNCHANGED <<snap, upstream>>
    BY <1>7 DEF Return
  <2>2. CASE UNCHANGED answer
    BY <2>1, <2>2
  <2>3. CASE p \in Client /\ pc[p] = "ok" /\ answer' = [answer EXCEPT ![p] = snap]
    BY <2>1, <2>3
  <2>4. CASE p \in Client /\ answer' = [answer EXCEPT ![p] = NoSnapshot]
    BY <2>1, <2>4 DEF NoSnapshot
  <2> QED
    BY <1>7, <2>2, <2>3, <2>4 DEF Return, Fresh
<1>8. ASSUME NEW p \in Process, Cancel(p)
      PROVE  Bounded'
  BY <1>8 DEF Cancel
<1>9. ASSUME Tick
      PROVE  Bounded'
  BY <1>9 DEF Tick
<1>10. ASSUME Stop
      PROVE  Bounded'
  BY <1>10 DEF Stop
<1>11. ASSUME NEW c \in Client, GetFeed(c)
      PROVE  Bounded'
  BY <1>11 DEF GetFeed
<1>12. ASSUME NEW c \in Client, GetFirstFeed(c)
      PROVE  Bounded'
  BY <1>12 DEF GetFirstFeed
<1>13. ASSUME NEW c \in Client, GetHealthz(c)
      PROVE  Bounded'
  BY <1>13 DEF GetHealthz
<1>14. ASSUME NEW c \in Client, GetMetrics(c)
      PROVE  Bounded'
  BY <1>14 DEF GetMetrics
<1>15. ASSUME NEW c \in Client, MetricsHealth(c)
      PROVE  Bounded'
  BY <1>15 DEF MetricsHealth
<1>16. ASSUME NEW c \in Client, Respond(c)
      PROVE  Bounded'
  BY <1>16 DEF Respond
<1>17. ASSUME NEW u \in Url, UpstreamChanges(u)
      PROVE  Bounded'
  BY <1>17 DEF UpstreamChanges
<1>18. CASE UNCHANGED vars
  BY <1>18 DEF vars
<1> QED
  BY <1>1, <1>2, <1>3, <1>4, <1>5, <1>6, <1>7, <1>8, <1>9, <1>10, <1>11, <1>12,
     <1>13, <1>14, <1>15, <1>16, <1>17, <1>18
     DEF Next, Refresh, Handle

\* What the holder of the mutex gathers stays between the two.
LEMMA StepFresh == IInv /\ [Next]_vars => Fresh'
<1> SUFFICES ASSUME IInv, [Next]_vars
             PROVE  Fresh'
  OBVIOUS
<1> USE MergerBounds, ProcessAssumption
    DEF IInv, TypeOK, Process, Snapshot, Seen, Version, Refreshing,
        Goto, merger, health, Fresh
<1>1. ASSUME NEW p \in Process, Lock(p)
      PROVE  Fresh'
  <2>1. \A u \in Url : got'[p][u] = Asked
    BY <1>1 DEF Lock
  <2>2. pc'[p] = "fetch" /\ \A q \in Process \ {p} : got'[q] = got[q] /\ pc'[q] = pc[q]
    BY <1>1 DEF Lock
  <2>3. UNCHANGED <<snap, answer, upstream>>
    BY <1>1 DEF Lock
  <2>4. ASSUME NEW q \in Process \ {p}
        PROVE  /\ pc'[q] = pc[q] /\ got'[q] = got[q]
               /\ pc'[q] = "ok" => got'[q] = snap'
    BY <2>2, <2>3
  <2>5. \A u \in Url : ~(got'[p][u] > 0)
    BY <2>1 DEF Asked
  <2> QED
    BY <2>2, <2>3, <2>4, <2>5
<1>2. ASSUME NEW p \in Process, NEW u \in Url, Answer(p, u)
      PROVE  Fresh'
  <2>1. PICK v \in {0} \cup (IF done[p] THEN {} ELSE {upstream[u]}) : got' = [got EXCEPT ![p][u] = v]
    BY <1>2 DEF Answer
  <2>2. v = 0 \/ v = upstream[u]
    BY <2>1
  <2>3. pc[p] = "fetch" /\ UNCHANGED <<pc, snap, answer, upstream>>
    BY <1>2 DEF Answer
  <2>4. got'[p][u] = v /\ \A w \in Url \ {u} : got'[p][w] = got[p][w]
    BY <2>1
  <2>5. \A q \in Process \ {p} : got'[q] = got[q]
    BY <2>1
  <2>6. v > 0 => /\ v <= upstream[u] /\ snap[u] <= v
                /\ \A c \in Client : answer[c][u] <= v
    BY <2>2 DEF Bounded
  <2>7. \A w \in Url : got'[p][w] > 0 =>
          /\ got'[p][w] <= upstream[w] /\ snap[w] <= got'[p][w]
          /\ \A c \in Client : answer[c][w] <= got'[p][w]
    <3> TAKE w \in Url
    <3>1. CASE w = u
      BY <2>4, <2>6, <3>1
    <3>2. CASE w # u
      BY <2>3, <2>4, <3>2
    <3> QED
      BY <3>1, <3>2
  <2> QED
    BY <2>3, <2>5, <2>7
<1>3. ASSUME NEW p \in Process, Record(p)
      PROVE  Fresh'
  BY <1>3 DEF Record
<1>4. ASSUME NEW p \in Process, PublishFailure(p)
      PROVE  Fresh'
  BY <1>4 DEF PublishFailure
<1>5. ASSUME NEW p \in Process, Publish(p)
      PROVE  Fresh'
  <2>1. \A q \in Process \ {p} : pc'[q] = pc[q] /\ pc[q] \notin Holding
    BY <1>5 DEF Publish, Exclusive, Holding
  <2>2. pc'[p] = "ok" /\ snap' = got[p] /\ UNCHANGED got
    BY <1>5 DEF Publish
  <2>3. \A u \in Url : got[p][u] # Asked
    BY <1>5 DEF Publish
  <2> QED
    BY <2>1, <2>2, <2>3 DEF Holding
<1>6. ASSUME NEW p \in Process, RenderFails(p)
      PROVE  Fresh'
  BY <1>6 DEF RenderFails
<1>7. ASSUME NEW p \in Process, Return(p)
      PROVE  Fresh'
  <2>1. \A q \in Process \ {p} : pc'[q] = pc[q] /\ pc[q] \notin Holding
    BY <1>7 DEF Return, Exclusive, Holding
  <2>2. pc'[p] \in {"idle", "wait", "stopped"}
    BY <1>7 DEF Return
  <2> QED
    BY <2>1, <2>2 DEF Holding
<1>8. ASSUME NEW p \in Process, Cancel(p)
      PROVE  Fresh'
  BY <1>8 DEF Cancel
<1>9. ASSUME Tick
      PROVE  Fresh'
  BY <1>9 DEF Tick
<1>10. ASSUME Stop
      PROVE  Fresh'
  BY <1>10 DEF Stop
<1>11. ASSUME NEW c \in Client, GetFeed(c)
      PROVE  Fresh'
  BY <1>11 DEF GetFeed
<1>12. ASSUME NEW c \in Client, GetFirstFeed(c)
      PROVE  Fresh'
  BY <1>12 DEF GetFirstFeed
<1>13. ASSUME NEW c \in Client, GetHealthz(c)
      PROVE  Fresh'
  BY <1>13 DEF GetHealthz
<1>14. ASSUME NEW c \in Client, GetMetrics(c)
      PROVE  Fresh'
  BY <1>14 DEF GetMetrics
<1>15. ASSUME NEW c \in Client, MetricsHealth(c)
      PROVE  Fresh'
  BY <1>15 DEF MetricsHealth
<1>16. ASSUME NEW c \in Client, Respond(c)
      PROVE  Fresh'
  BY <1>16 DEF Respond
<1>17. ASSUME NEW u \in Url, UpstreamChanges(u)
      PROVE  Fresh'
  <2>1. \A w \in Url : upstream'[w] \in Nat /\ upstream[w] <= upstream'[w]
    BY <1>17 DEF UpstreamChanges
  <2>2. UNCHANGED <<pc, got, snap, answer>>
    BY <1>17 DEF UpstreamChanges
  <2>3. \A q \in Process, w \in Url : got[q][w] \in 0..MaxVersion \cup {Asked}
    OBVIOUS
  <2>4. \A q \in Process, w \in Url :
          pc[q] \in {"fetch", "publish"} /\ got[q][w] > 0 => got[q][w] <= upstream'[w]
    BY <2>1, <2>3 DEF Asked
  <2> QED
    BY <2>2, <2>4
<1>18. CASE UNCHANGED vars
  BY <1>18 DEF vars
<1> QED
  BY <1>1, <1>2, <1>3, <1>4, <1>5, <1>6, <1>7, <1>8, <1>9, <1>10, <1>11, <1>12,
     <1>13, <1>14, <1>15, <1>16, <1>17, <1>18
     DEF Next, Refresh, Handle

\* Only a refresh touches the counters and the outcome, one after the other.
LEMMA StepStreaks == IInv /\ [Next]_vars => StreaksTell'
<1> SUFFICES ASSUME IInv, [Next]_vars
             PROVE  StreaksTell'
  OBVIOUS
<1> USE DEF IInv, TypeOK, Goto, merger, health
<1>1. ASSUME UNCHANGED <<streak, lastErr, ran, refreshes, fetches>>,
             \A q \in Process : /\ pc'[q] = "publish" <=> pc[q] = "publish"
                                /\ pc[q] = "publish" => got'[q] = got[q]
      PROVE  StreaksTell'
  <2>1. (AllFailing' <=> AllFailing) /\ (Counted' <=> Counted)
    BY <1>1 DEF AllFailing, Counted
  <2>2. \A q \in Process : pc'[q] = "publish" =>
          \A u \in Url : streak'[u] > 0 <=> got'[q][u] = 0
    BY <1>1 DEF StreaksTell
  <2>3. (\A q \in Process : pc'[q] # "publish") <=> (\A q \in Process : pc[q] # "publish")
    BY <1>1
  <2>4. (\A q \in Process : pc'[q] # "publish") /\ ran' /\ Counted' => (lastErr' <=> AllFailing')
    BY <1>1, <2>1, <2>3, Zenon DEF StreaksTell
  <2> QED
    BY <2>2, <2>4 DEF StreaksTell
<1>2. ASSUME NEW p \in Process, pc[p] = "fetch",
             UNCHANGED <<streak, lastErr, ran, refreshes, fetches>>,
             pc' = pc, \A q \in Process \ {p} : got'[q] = got[q]
      PROVE  StreaksTell'
  BY <1>1, <1>2
<1>3. ASSUME NEW p \in Process, Lock(p)
      PROVE  StreaksTell'
  BY <1>1, <1>3 DEF Lock
<1>4. ASSUME NEW p \in Process, NEW u \in Url, Answer(p, u)
      PROVE  StreaksTell'
  BY <1>2, <1>4 DEF Answer
<1>5. ASSUME NEW p \in Process, Record(p)
      PROVE  StreaksTell'
  <2>1. pc'[p] = "publish" /\ \A q \in Process \ {p} : pc'[q] # "publish"
    BY <1>5 DEF Record, Exclusive, Holding
  <2>2. \A u \in Url : streak'[u] > 0 <=> got[p][u] = 0
    BY <1>5 DEF Record
  <2>3. got' = got
    BY <1>5 DEF Record
  <2> QED
    BY <2>1, <2>2, <2>3 DEF StreaksTell
<1>6. ASSUME NEW p \in Process, PublishFailure(p)
      PROVE  StreaksTell'
  <2>1. \A q \in Process : pc'[q] # "publish"
    BY <1>6 DEF PublishFailure, Exclusive, Holding
  <2>2. lastErr' = TRUE /\ AllFailing'
    BY <1>6 DEF PublishFailure, StreaksTell, NoSnapshot, AllFailing
  <2> QED
    BY <2>1, <2>2 DEF StreaksTell
<1>7. ASSUME NEW p \in Process, Publish(p)
      PROVE  StreaksTell'
  <2>1. \A q \in Process : pc'[q] # "publish"
    BY <1>7 DEF Publish, Exclusive, Holding
  <2>2. PICK u \in Url : got[p][u] # 0
    BY <1>7 DEF Publish, NoSnapshot
  <2>3. lastErr' = FALSE /\ ~AllFailing'
    BY <1>7, <2>2 DEF Publish, StreaksTell, AllFailing
  <2> QED
    BY <2>1, <2>3 DEF StreaksTell
<1>8. ASSUME NEW p \in Process, RenderFails(p)
      PROVE  StreaksTell'
  <2>1. \A q \in Process : pc'[q] # "publish"
    BY <1>8 DEF RenderFails, Exclusive, Holding
  <2>2. PICK u \in Url : got[p][u] # 0
    BY <1>8 DEF RenderFails, NoSnapshot
  <2>3. ~Counted /\ UNCHANGED <<fetches, refreshes>>
    BY <1>8, <2>2 DEF RenderFails, Ahead, Counted
  <2> QED
    BY <2>1, <2>3 DEF StreaksTell, Counted
<1>9. ASSUME NEW p \in Process, Return(p)
      PROVE  StreaksTell'
  BY <1>1, <1>9 DEF Return
<1>10. ASSUME NEW p \in Process, Cancel(p)
      PROVE  StreaksTell'
  BY <1>1, <1>10 DEF Cancel
<1>11. CASE Tick \/ Stop
  BY <1>1, <1>11, ProcessAssumption DEF Tick, Stop
<1>12. ASSUME NEW c \in Client, Handle(c)
      PROVE  StreaksTell'
  BY <1>1, <1>12 DEF Handle, GetFeed, GetFirstFeed, GetHealthz, GetMetrics, MetricsHealth, Respond
<1>13. ASSUME NEW u \in Url, UpstreamChanges(u)
      PROVE  StreaksTell'
  BY <1>1, <1>13 DEF UpstreamChanges
<1>14. CASE UNCHANGED vars
  BY <1>1, <1>14 DEF vars
<1> QED
  BY <1>3, <1>4, <1>5, <1>6, <1>7, <1>8, <1>9, <1>10, <1>11, <1>12, <1>13, <1>14 DEF Next, Refresh

-----------------------------------------------------------------------------
LEMMA StepIInv == IInv /\ [Next]_vars => IInv'
BY StepTypeOK, StepExclusive, StepAhead, StepMetrics, StepBounded, StepFresh, StepStreaks DEF IInv

\* The inductive invariant holds throughout.
THEOREM Invariance == Spec => []IInv
BY InitIInv, StepIInv, PTL DEF Spec

\* The variables keep their types.
THEOREM TypeCorrect == Spec => []TypeOK
<1>1. IInv => TypeOK
  BY DEF IInv
<1> QED
  BY <1>1, Invariance, PTL

\* Every answer of /metrics adds up (health.go:125-127, merge.go:158-166).
THEOREM MetricsConsistent == Spec => []MetricsAddUp
<1>1. IInv => MetricsAddUp
  BY DEF IInv, MetricsSoFar, MetricsAddUp
<1> QED
  BY <1>1, Invariance, PTL

\* Between two refreshes, the error that /healthz shows and the streaks that
\* /metrics shows tell of the same refresh (merge.go:158-165, 217-221, health.go:66-84).
THEOREM HealthAgrees == Spec => []ErrorMeansAllDegraded
<1>1. IInv => ErrorMeansAllDegraded
  <2> SUFFICES ASSUME IInv, refreshM = Nobody PROVE ran /\ Counted => (lastErr <=> AllFailing)
    BY DEF ErrorMeansAllDegraded, AllFailing
  <2>1. \A p \in Process : pc[p] # "publish"
    BY ProcessAssumption DEF IInv, Exclusive, Holding, Process
  <2> QED
    BY <2>1 DEF IInv, StreaksTell
<1> QED
  BY <1>1, Invariance, PTL

\* No refresh replaces a document by an older one (merge.go:113-116, 218-219).
THEOREM SnapshotMonotone == Spec => SnapshotNeverGoesBack
<1>1. IInv /\ [Next]_vars => [\A u \in Url : snap'[u] # 0 => snap'[u] >= snap[u]]_snap
  <2> SUFFICES ASSUME IInv, [Next]_vars, snap' # snap
               PROVE  \A u \in Url : snap'[u] # 0 => snap'[u] >= snap[u]
    OBVIOUS
  <2>1. PICK p \in Process : Publish(p)
    BY DEF Next, Refresh, Handle, Lock, Answer, Record, PublishFailure, RenderFails, Return,
           Cancel, Tick, Stop, GetFeed, GetFirstFeed, GetHealthz, GetMetrics, MetricsHealth,
           Respond, UpstreamChanges, merger, vars
  <2>2. pc[p] = "publish" /\ snap' = got[p]
    BY <2>1 DEF Publish
  <2> QED
    BY <2>2, MergerBounds DEF IInv, Fresh, TypeOK, Snapshot, Asked
<1> QED
  BY <1>1, Invariance, PTL DEF Spec, SnapshotNeverGoesBack

\* No reader is shown an older document than before (http.go:42-47, merge.go:95-99).
THEOREM ReadersMonotone == Spec => ReadersNeverGoBack
<1>1. IInv /\ [Next]_vars =>
        [\A c \in Client, u \in Url : answer'[c][u] # 0 => answer'[c][u] >= answer[c][u]]_answer
  <2> SUFFICES ASSUME IInv, [Next]_vars, answer' # answer
               PROVE  \A c \in Client, u \in Url :
                        answer'[c][u] # 0 => answer'[c][u] >= answer[c][u]
    OBVIOUS
  <2>1. \/ \E p \in Process : Return(p)
        \/ \E c \in Client : GetFeed(c)
    BY DEF Next, Refresh, Handle, Lock, Answer, Record, PublishFailure, Publish, RenderFails,
           Cancel, Tick, Stop, GetFirstFeed, GetHealthz, GetMetrics, MetricsHealth,
           Respond, UpstreamChanges, merger, vars
  <2>2. \/ \E p \in Client : answer' = [answer EXCEPT ![p] = snap]
        \/ \E p \in Client : answer' = [answer EXCEPT ![p] = NoSnapshot]
    BY <2>1 DEF Return, GetFeed, IInv, Fresh, Process
  <2>3. \A c \in Client, u \in Url :
          /\ answer[c][u] \in 0..MaxVersion /\ snap[u] \in 0..MaxVersion
          /\ snap[u] # 0 => answer[c][u] <= snap[u]
    BY DEF IInv, Bounded, TypeOK, Snapshot
  <2>4. \A c \in Client, u \in Url : answer'[c][u] \in {answer[c][u], snap[u], 0}
    BY <2>2 DEF IInv, TypeOK, NoSnapshot
  <2> QED
    BY <2>3, <2>4, MergerBounds
<1> QED
  BY <1>1, Invariance, PTL DEF Spec, ReadersNeverGoBack

-----------------------------------------------------------------------------
(* The serving process.                                                    *)

\* A signal is never taken back, main drains only after one, and the listening
\* goroutine sends that all is well only when it was shut down, and anything
\* only when it no longer listens.
Orderly ==
  /\ main = "draining" => done[Loop]
  /\ main = "serving" => errCh # "nil"
  /\ errCh # "empty" => listener = "closed"
  /\ CleanExit

Ended == /\ ServeTypeOK /\ Orderly

-----------------------------------------------------------------------------
LEMMA ServeInitEnded == ServeInit => Ended
BY DEF ServeInit, Ended, Orderly, CleanExit, ServeTypeOK

\* Nothing of Merger moves unless the process runs, and a step of Merger is
\* one that Next allows.
LEMMA StepIsMerger == [ServeNext]_svars => [Next]_vars
<1> SUFFICES ASSUME [ServeNext]_svars PROVE [Next]_vars
  OBVIOUS
<1>1. CASE Listen \/ ListenFails \/ ReturnErr \/ Shutdown \/ Drained \/ GraceOver
  BY <1>1 DEF Listen, ListenFails, ReturnErr, Shutdown, Drained, GraceOver, vars
<1>2. ASSUME NEW c \in Client, Serving(c) \/ Working(Cancel(c))
      PROVE  [Next]_vars
  BY <1>2 DEF Serving, Working, Next, Handle, Process
<1>3. CASE Signal
  BY <1>3 DEF Signal, Working, Next, Process
<1>4. ASSUME NEW p \in Process, Working(Refresh(p))
      PROVE  [Next]_vars
  BY <1>4 DEF Working, Next
<1>5. CASE Working(Tick) \/ Working(Stop)
  BY <1>5 DEF Working, Next
<1>6. ASSUME NEW u \in Url, Working(UpstreamChanges(u))
      PROVE  [Next]_vars
  BY <1>6 DEF Working, Next
<1>7. CASE UNCHANGED svars
  BY <1>7 DEF svars
<1> QED
  BY <1>1, <1>2, <1>3, <1>4, <1>5, <1>6, <1>7 DEF ServeNext

\* A step of Merger never takes the signal back.
LEMMA SignalStays == TypeOK /\ [Next]_vars /\ done[Loop] => done'[Loop]
<1> SUFFICES ASSUME TypeOK, [Next]_vars, done[Loop] PROVE done'[Loop]
  OBVIOUS
<1> USE ProcessAssumption DEF TypeOK, Process
<1>1. ASSUME NEW p \in Process, Refresh(p) PROVE done'[Loop]
  <2>1. CASE Return(p)
    BY <2>1 DEF Return
  <2>2. CASE ~Return(p)
    BY <1>1, <2>2 DEF Refresh, Lock, Answer, Record, PublishFailure, Publish, RenderFails
  <2> QED
    BY <2>1, <2>2
<1>2. ASSUME NEW p \in Process, Cancel(p) PROVE done'[Loop]
  BY <1>2 DEF Cancel
<1>3. ASSUME NEW c \in Client, Handle(c) PROVE done'[Loop]
  BY <1>3 DEF Handle, GetFeed, GetFirstFeed, GetHealthz, GetMetrics, MetricsHealth, Respond
<1>4. CASE Tick \/ Stop \/ \E u \in Url : UpstreamChanges(u)
  BY <1>4 DEF Tick, Stop, UpstreamChanges
<1>5. CASE UNCHANGED vars
  BY <1>5 DEF vars
<1> QED
  BY <1>1, <1>2, <1>3, <1>4, <1>5 DEF Next

LEMMA StepEnded == TypeOK /\ Ended /\ [ServeNext]_svars => Ended'
<1> SUFFICES ASSUME TypeOK, Ended, [ServeNext]_svars PROVE Ended'
  OBVIOUS
<1> USE DEF Ended, Orderly, CleanExit, ServeTypeOK
\* The steps of main and of the listener leave Merger alone.
<1>1. CASE Listen \/ ListenFails \/ ReturnErr \/ Shutdown \/ Drained \/ GraceOver
  <2>1. UNCHANGED <<done, pc>>
    BY <1>1 DEF Listen, ListenFails, ReturnErr, Shutdown, Drained, GraceOver, vars
  <2>2. CASE Listen \/ ListenFails
    BY <2>1, <2>2 DEF Listen, ListenFails
  <2>3. CASE ReturnErr
    BY <2>1, <2>3 DEF ReturnErr, End
  <2>4. CASE Shutdown
    BY <2>1, <2>4 DEF Shutdown
  <2>5. CASE Drained \/ GraceOver
    BY <2>1, <2>5 DEF Drained, GraceOver, End
  <2> QED
    BY <1>1, <2>2, <2>3, <2>4, <2>5
\* The others happen while it runs, before there is an exit.
<1>2. ASSUME Running, UNCHANGED process PROVE Ended'
  <2>1. [Next]_vars
    BY StepIsMerger
  <2>2. done[Loop] => done'[Loop]
    BY <2>1, SignalStays
  <2>3. exit = "none"
    BY <1>2 DEF Running
  <2> QED
    BY <1>2, <2>2, <2>3 DEF process
<1>3. CASE UNCHANGED svars
  BY <1>3 DEF svars, vars, process
<1> QED
  BY <1>1, <1>2, <1>3 DEF ServeNext, Serving, Signal, Working

-----------------------------------------------------------------------------
\* What the process does to Merger is what Merger does by itself: the serve
\* command implements the refresh cycle, so that every theorem about Spec is
\* one about ServeSpec.
THEOREM ServeImplementsMerger == ServeSpec => Spec
<1>1. ServeInit => Init
  BY DEF ServeInit
<1> QED
  BY <1>1, StepIsMerger, PTL DEF ServeSpec, Spec

THEOREM ServeInvariance == ServeSpec => []Ended
<1>1. ServeSpec => []TypeOK
  BY ServeImplementsMerger, TypeCorrect, PTL
<1> QED
  BY <1>1, ServeInitEnded, StepEnded, PTL DEF ServeSpec

\* The variables of cmdServe keep their types, and a listener that was shut
\* down stays so.
THEOREM ServeTypeCorrect == ServeSpec => []ServeTypeOK
BY ServeInvariance, PTL DEF Ended

\* Of any number of requests, none is in flight when cmdServe returns without
\* an error, and it was told to stop: a failure to listen is never reported as
\* success, unless a signal came too.
THEOREM OrderlyEnd == ServeSpec => []CleanExit
<1>1. Ended => CleanExit
  BY DEF Ended, Orderly
<1> QED
  BY <1>1, ServeInvariance, PTL

\* While the process starts, serves and drains, no reader is shown an older
\* document than before.
THEOREM ServedReadersMonotone == ServeSpec => ReadersNeverGoBack
BY ServeImplementsMerger, ReadersMonotone
=============================================================================
