------------------------------- MODULE Store -------------------------------
(***************************************************************************)
(* The entry log of internal/store: an append-only file of records behind  *)
(* a buffered writer, an in-memory index rebuilt from it on open, and a    *)
(* compaction that rewrites the file beside itself and renames the result  *)
(* over it.                                                                *)
(*                                                                         *)
(* A record is an id and the time the entry was stored; time 0 marks a     *)
(* tombstone.  What else a record carries never matters to the log.        *)
(* The store's mutex serializes its operations, so an operation is a       *)
(* sequence of steps of the one holder (pc), and crashes fall between the  *)
(* steps; only Purge lets the mutex go, before it compacts (pending).      *)
(*                                                                         *)
(* The disk is a file as the system shows it, of which a prefix is known   *)
(* to be on the medium (synced).  Power loss keeps at least that prefix    *)
(* and cuts the rest anywhere, also inside a line.  It may also undo a     *)
(* rename (shadows), until the directory is synced or the renamed file is, *)
(* as journalling file systems have it.                                    *)
(***************************************************************************)
EXTENDS Integers, Sequences, FiniteSets, SequencesExt

CONSTANTS
  Id,         \* the entry ids
  MaxTime,    \* bound of the clock
  MaxLines,   \* bound of the log: an operation starts only if it fits
  MaxPending, \* bound of pending: a Purge starts only below it
  CompactMin, \* compactMinRecords
  Faults      \* what may go wrong apart from loss of power, out of AllFaults

(***************************************************************************)
(* oversize  an entry that cannot be encoded within maxLineBytes           *)
(* write     a write to the log fails, possibly half way                   *)
(* sync      an fsync of the log fails                                     *)
(* rewrite   a step of compaction up to and including the rename fails     *)
(* syncdir   the directory cannot be synced after the rename               *)
(* reopen    the compacted log cannot be opened                            *)
(* kill      the process dies and the system lives on                      *)
(* noeol     a cut may fall just before the newline that ends a line       *)
(***************************************************************************)
AllFaults == {"oversize", "write", "sync", "rewrite", "syncdir", "reopen", "kill", "noeol"}

ASSUME IdAssumption == IsFiniteSet(Id)
ASSUME FaultsAssumption == Faults \subseteq AllFaults
ASSUME BoundsAssumption ==
  /\ MaxTime \in Nat \ {0} /\ MaxLines \in Nat
  /\ MaxPending \in Nat /\ CompactMin \in Nat

VARIABLES
  \* the disk
  file,       \* the lines of the log
  tail,       \* what follows the last newline: "clean", "torn", "noeol"
  synced,     \* how many lines are known to be on the medium
  shadows,    \* older logs that the name may still refer to after power loss
  \* the process
  mode,       \* "open", "closed", "down" or "corrupt" (Open has failed)
  live,       \* Store.live: live[i] is StoredAt of i, 0 if i is not stored
  lines,      \* Store.lines
  buf,        \* the records in the buffered writer
  werr,       \* its sticky error
  stale,      \* Store.f is the file the compaction has replaced
  \* the operation that holds the mutex
  pc, kind, batch, todo, wrote,
  pending,    \* calls of Purge that are about to compact
  now,        \* the clock
  \* history
  possible,   \* possible[i]: the values of i since an operation synced the log
  told        \* the ids for which Put returned no error, and not purged since

disk == <<file, tail, synced, shadows>>
writer == <<buf, werr, stale>>
memory == <<mode, live, lines, writer>>
operation == <<pc, kind, batch, todo, wrote>>
history == <<possible, told>>
vars == <<disk, memory, operation, pending, now, history>>

Record == [id : Id, t : 0..MaxTime]
Line == [id : Id, t : 0..MaxTime, glued : BOOLEAN]  \* glued: two records on one line
Nothing == [i \in Id |-> 0]

\* The index that replaying a sequence of records leaves behind: the last
\* record of an id counts, and a tombstone leaves nothing.
Replay(s) ==
  [i \in Id |->
     LET of == {k \in DOMAIN s : s[k].id = i}
     IN  IF of = {} THEN 0 ELSE s[CHOOSE k \in of : \A l \in of : l <= k].t]

\* The records readable in memory, each once.
LiveRecords == {[id |-> i, t |-> live[i]] : i \in {j \in Id : live[j] # 0}}

\* shouldCompactLocked: at least half of a log that is not small is garbage.
ShouldCompact(n, m) ==
  /\ n >= CompactMin
  /\ 2 * (n - Cardinality({i \in Id : m[i] # 0})) >= n

TypeOK ==
  /\ file \in Seq(Line) /\ buf \in Seq(Record)
  /\ Len(file) + Len(buf) <= MaxLines
  /\ tail \in {"clean", "torn", "noeol"}
  /\ synced \in 0..Len(file)
  /\ \A s \in shadows : s \in Seq(Line)
  /\ mode \in {"open", "closed", "down", "corrupt"}
  /\ live \in [Id -> 0..MaxTime]
  /\ lines \in Nat
  /\ werr \in BOOLEAN /\ stale \in BOOLEAN /\ wrote \in BOOLEAN
  /\ pc \in {"idle", "append", "flush", "sync", "rewrite", "syncdir", "reopen"}
  /\ kind \in {"none", "put", "purge", "compact", "close"}
  /\ batch \subseteq Id /\ todo \in Seq(Id)
  /\ pending \in 0..MaxPending
  /\ now \in 1..MaxTime
  /\ possible \in [Id -> SUBSET (0..MaxTime)]
  /\ told \subseteq Id

\* No log yet, and no process.
Init ==
  /\ file = <<>> /\ tail = "clean" /\ synced = 0 /\ shadows = {}
  /\ mode = "down" /\ live = Nothing /\ lines = 0
  /\ buf = <<>> /\ werr = FALSE /\ stale = FALSE
  /\ pc = "idle" /\ kind = "none" /\ batch = {} /\ todo = <<>> /\ wrote = FALSE
  /\ pending = 0
  /\ now = 1
  /\ possible = [i \in Id |-> {0}] /\ told = {}

-----------------------------------------------------------------------------
(***************************************************************************)
(* Writing.                                                                *)
(***************************************************************************)
AsLines(recs) == [k \in DOMAIN recs |-> [id |-> recs[k].id, t |-> recs[k].t, glued |-> FALSE]]

\* The file after records were written behind its tail: bytes left there
\* without a newline end up on one line with the first of them.
Extended(recs) ==
  LET ls == AsLines(recs)
  IN  CASE recs = <<>> \/ tail = "clean" -> file \o ls
        [] recs # <<>> /\ tail = "torn"  -> file \o [ls EXCEPT ![1].glued = TRUE]
        [] recs # <<>> /\ tail = "noeol" -> [file EXCEPT ![Len(file)].glued = TRUE] \o Tail(ls)

\* Records go to the file the handle refers to; once that has been replaced,
\* it has no name any more and what is written to it is gone.
WriteOut(recs) ==
  IF stale THEN UNCHANGED <<file, tail>>
  ELSE /\ file' = Extended(recs)
       /\ tail' = IF recs = <<>> THEN tail ELSE "clean"

\* A write of the buffer stops before or inside its record k + 1.  Right behind
\* a record without its newline that spoils the line of this one too.
BreakOff(k) ==
  IF stale THEN UNCHANGED <<file, tail>>
  ELSE /\ file' = IF k = 0 /\ tail = "noeol" THEN Front(file) ELSE Extended(SubSeq(buf, 1, k))
       /\ tail' = "torn"

\* A write of the buffer fails half way: the buffered writer keeps the rest
\* and the error.
WriteFails ==
  /\ "write" \in Faults /\ ~werr
  /\ \E k \in 0..Len(buf)-1 :
       /\ buf' = SubSeq(buf, k + 1, Len(buf))
       /\ BreakOff(k)
  /\ synced' = Min({synced, Len(file')})
  /\ werr' = TRUE
  /\ UNCHANGED <<shadows, mode, live, lines, stale>>

\* appendLocked: the record goes into the buffer, which is written out before
\* if there is no room left, and into the index.
AppendRecord(i, t) ==
  /\ ~werr
  /\ \/ buf' = Append(buf, [id |-> i, t |-> t]) /\ UNCHANGED <<file, tail>>
     \/ buf # <<>> /\ WriteOut(buf) /\ buf' = <<[id |-> i, t |-> t]>>
  /\ live' = [live EXCEPT ![i] = t]
  /\ lines' = lines + 1
  /\ possible' = [possible EXCEPT ![i] = @ \cup {t}]
  /\ UNCHANGED <<synced, shadows, mode, werr, stale>>

\* The write error in appendLocked: the one remembered, or a fresh one.
AppendFails == (werr /\ UNCHANGED <<disk, memory>>) \/ WriteFails

Fits(n) == Max({lines, Len(file) + Len(buf)}) + n <= MaxLines

Start(k, l, ids, seq) ==
  /\ pc = "idle" /\ mode = "open"
  /\ pc' = l /\ kind' = k /\ batch' = ids /\ todo' = seq /\ wrote' = FALSE

Goto(l) == pc' = l /\ UNCHANGED <<kind, batch, todo, wrote>>

\* The operation is over and the mutex free.
End == pc' = "idle" /\ kind' = "none" /\ batch' = {} /\ todo' = <<>> /\ wrote' = FALSE

Memory(m, l, n) ==
  /\ mode' = m /\ live' = l /\ lines' = n
  /\ buf' = <<>> /\ werr' = FALSE /\ stale' = FALSE

-----------------------------------------------------------------------------
(***************************************************************************)
(* Plausible mistakes in the operations below, one per property: each is   *)
(* the action as a slip of the hand would have left it.                    *)
(***************************************************************************)
\* Put does not look the entry up, and stores it again with a fresh time.
PutAppendsAgain ==
  /\ pc = "append" /\ kind = "put" /\ todo # <<>>
  /\ AppendRecord(Head(todo), now)
  /\ todo' = Tail(todo) /\ wrote' = TRUE
  /\ UNCHANGED <<pc, kind, batch, pending, now, told>>

\* What was written stays in the buffer.
FlushKeepsBuffer ==
  /\ pc = "flush" /\ ~werr
  /\ WriteOut(buf)
  /\ Goto("sync")
  /\ UNCHANGED <<synced, shadows, mode, live, lines, buf, werr, stale, pending, now, history>>

\* The temporary file is renamed before it is on the medium.
RewriteUnsynced ==
  /\ pc = "rewrite"
  /\ \E recs \in SetToSeqs(LiveRecords) : file' = AsLines(recs) /\ synced' = 0
  /\ tail' = "clean"
  /\ shadows' = shadows \cup {file}
  /\ stale' = TRUE
  /\ Goto("syncdir")
  /\ UNCHANGED <<mode, live, lines, buf, werr, pending, now, history>>

\* Compact copies the log rather than the index.
RewriteFromLog ==
  /\ pc = "rewrite"
  /\ file' = SelectSeq(file, LAMBDA l : l.t # 0 /\ l.t = live[l.id])
  /\ synced' = Len(file')
  /\ tail' = "clean"
  /\ shadows' = shadows \cup {file}
  /\ stale' = TRUE
  /\ Goto("syncdir")
  /\ UNCHANGED <<mode, live, lines, buf, werr, pending, now, history>>

\* Compact forgets that the superseded records are gone.
ReopenKeepsCount ==
  /\ pc = "reopen"
  /\ Memory(mode, live, lines)
  /\ End
  /\ UNCHANGED <<disk, pending, now, history>>

\* Open leaves the torn line at the end of the log.
OpenKeepsTail ==
  /\ mode \in {"closed", "down"} /\ pending = 0
  /\ IF \E k \in DOMAIN file : file[k].glued
     THEN /\ mode' = "corrupt"
          /\ UNCHANGED <<live, lines, writer>>
     ELSE Memory("open", Replay(file), Len(file))
  /\ UNCHANGED <<file, tail, synced, shadows, operation, pending, now, history>>

-----------------------------------------------------------------------------
(***************************************************************************)
(* Put and Purge, entry by entry.  Both read the clock before they append, *)
(* with the mutex held: time passes between operations.                    *)
(***************************************************************************)
Put(seq) ==
  /\ Fits(Len(seq))
  /\ Start("put", "append", ToSet(seq), seq)
  /\ UNCHANGED <<disk, memory, pending, now, history>>

\* An entry already stored keeps its record and its time.
PutSkips ==
  /\ pc = "append" /\ kind = "put" /\ todo # <<>>
  /\ live[Head(todo)] # 0
  /\ todo' = Tail(todo)
  /\ UNCHANGED <<disk, memory, pc, kind, batch, wrote, pending, now, history>>

PutAppends ==
  /\ pc = "append" /\ kind = "put" /\ todo # <<>>
  /\ live[Head(todo)] = 0
  /\ AppendRecord(Head(todo), now)
  /\ todo' = Tail(todo) /\ wrote' = TRUE
  /\ UNCHANGED <<pc, kind, batch, pending, now, told>>

\* The append fails and Put returns at once, without a flush of what it has
\* appended before.
PutGivesUp ==
  /\ pc = "append" /\ kind = "put" /\ todo # <<>>
  /\ live[Head(todo)] = 0
  /\ AppendFails \/ ("oversize" \in Faults /\ UNCHANGED <<disk, memory>>)
  /\ End
  /\ UNCHANGED <<pending, now, history>>

\* All entries handled: flush what was added; if nothing was, the answer is
\* no error without a look at the disk.
PutHandled ==
  /\ pc = "append" /\ kind = "put" /\ todo = <<>>
  /\ IF wrote THEN Goto("flush") /\ UNCHANGED told
              ELSE End /\ told' = told \cup batch
  /\ UNCHANGED <<disk, memory, pending, now, possible>>

\* Purge takes the entries stored before the cutoff, in any order.
Purge(cutoff) ==
  LET old == {i \in Id : live[i] # 0 /\ live[i] < cutoff}
  IN  /\ Fits(Cardinality(old)) /\ pending < MaxPending
      /\ \E seq \in SetToSeqs(old) : Start("purge", "append", old, seq)
      /\ UNCHANGED <<disk, memory, pending, now, history>>

PurgeAppends ==
  /\ pc = "append" /\ kind = "purge" /\ todo # <<>>
  /\ AppendRecord(Head(todo), 0)
  /\ told' = told \ {Head(todo)}
  /\ todo' = Tail(todo) /\ wrote' = TRUE
  /\ UNCHANGED <<pc, kind, batch, pending, now>>

\* The append fails: flush what was appended, and return the error after.
\* The entries left in todo are the sign of it.
PurgeBreaks ==
  /\ pc = "append" /\ kind = "purge" /\ todo # <<>>
  /\ AppendFails
  /\ IF wrote THEN Goto("flush") ELSE End
  /\ UNCHANGED <<pending, now, history>>

\* The decision to compact, taken before the mutex is let go.
PurgeReturns ==
  /\ pending' = IF todo = <<>> /\ ShouldCompact(lines, live) THEN pending + 1 ELSE pending
  /\ End

PurgeHandled ==
  /\ pc = "append" /\ kind = "purge" /\ todo = <<>>
  /\ IF wrote THEN Goto("flush") /\ UNCHANGED pending ELSE PurgeReturns
  /\ UNCHANGED <<disk, memory, now, history>>

-----------------------------------------------------------------------------
(***************************************************************************)
(* flushLocked, for whichever operation called it.                         *)
(***************************************************************************)
Flush ==
  /\ pc = "flush" /\ ~werr
  /\ WriteOut(buf)
  /\ buf' = <<>>
  /\ Goto("sync")
  /\ UNCHANGED <<synced, shadows, mode, live, lines, werr, stale, pending, now, history>>

\* fsync of the file the handle refers to, and with it of its name.
Synced == IF stale THEN UNCHANGED <<synced, shadows>> ELSE synced' = Len(file) /\ shadows' = {}

\* The log is on the medium: what is readable now is there to stay.
Sync ==
  /\ pc = "sync" /\ kind # "close"
  /\ Synced
  /\ possible' = [i \in Id |-> {live[i]}]
  /\ CASE kind = "put"     -> End /\ told' = told \cup batch /\ UNCHANGED pending
       [] kind = "purge"   -> PurgeReturns /\ UNCHANGED told
       [] kind = "compact" -> Goto("rewrite") /\ UNCHANGED <<pending, told>>
  /\ UNCHANGED <<file, tail, memory, now>>

\* flushLocked fails, and with it the operation.
FlushFails ==
  /\ kind # "close"
  /\ \/ pc = "flush" /\ AppendFails
     \/ pc = "sync" /\ "sync" \in Faults /\ UNCHANGED <<disk, memory>>
  /\ End
  /\ UNCHANGED <<pending, now, history>>

Close ==
  /\ Start("close", "flush", {}, <<>>)
  /\ UNCHANGED <<disk, memory, pending, now, history>>

\* Close closes the file whether or not the flush succeeded.
CloseSynced ==
  /\ pc = "sync" /\ kind = "close"
  /\ Synced
  /\ possible' = [i \in Id |-> {live[i]}]
  /\ Memory("closed", Nothing, 0)
  /\ End
  /\ UNCHANGED <<file, tail, pending, now, told>>

CloseFails ==
  /\ kind = "close"
  /\ \/ pc = "flush" /\ werr /\ UNCHANGED <<file, tail>>
     \/ /\ pc = "flush" /\ ~werr /\ "write" \in Faults
        /\ \E k \in 0..Len(buf)-1 : BreakOff(k)
     \/ pc = "sync" /\ "sync" \in Faults /\ UNCHANGED <<file, tail>>
  /\ Memory("closed", Nothing, 0)
  /\ synced' = Min({synced, Len(file')})
  /\ End
  /\ UNCHANGED <<shadows, pending, now, history>>

-----------------------------------------------------------------------------
(***************************************************************************)
(* Compact.                                                                *)
(***************************************************************************)
\* Called from outside, or by a Purge that has let the mutex go meanwhile.
Compact ==
  /\ Start("compact", "flush", {}, <<>>)
  /\ pending' \in {pending} \cup (IF pending > 0 THEN {pending - 1} ELSE {})
  /\ UNCHANGED <<disk, memory, now, history>>

\* Somebody closed the store in between.
CompactClosed ==
  /\ mode = "closed" /\ pending > 0
  /\ pending' = pending - 1
  /\ UNCHANGED <<disk, memory, operation, now, history>>

\* The live records are written to a temporary file, in an order of their
\* own, and that is synced and renamed over the log.  The handle is now that
\* of the replaced file, and until the directory is synced power loss may
\* bring it back.
Rewrite ==
  /\ pc = "rewrite"
  /\ \E recs \in SetToSeqs(LiveRecords) : file' = AsLines(recs) /\ synced' = Len(recs)
  /\ tail' = "clean"
  /\ shadows' = shadows \cup {file}
  /\ stale' = TRUE
  /\ Goto("syncdir")
  /\ UNCHANGED <<mode, live, lines, buf, werr, pending, now, history>>

\* Anything up to the rename fails: the temporary file is removed.
RewriteFails ==
  /\ pc = "rewrite" /\ "rewrite" \in Faults
  /\ End
  /\ UNCHANGED <<disk, memory, pending, now, history>>

\* syncDir; a failure is ignored.
SyncDir ==
  /\ pc = "syncdir"
  /\ shadows' \in {{}} \cup (IF "syncdir" \in Faults THEN {shadows} ELSE {})
  /\ Goto("reopen")
  /\ UNCHANGED <<file, tail, synced, memory, pending, now, history>>

\* The handle on the rewritten file is swapped in, and the writer reset.
Reopen ==
  /\ pc = "reopen"
  /\ Memory(mode, live, Cardinality(LiveRecords))
  /\ End
  /\ UNCHANGED <<disk, pending, now, history>>

\* It cannot be opened: Compact returns and the old handle stays in use.
ReopenFails ==
  /\ pc = "reopen" /\ "reopen" \in Faults
  /\ End
  /\ UNCHANGED <<disk, memory, pending, now, history>>

-----------------------------------------------------------------------------
(***************************************************************************)
(* Open, crashes and the clock.                                            *)
(***************************************************************************)
\* replay: a line that holds no record is an error, unless it is the
\* unterminated last one, which is cut off.  A complete last record without
\* its newline is kept.  A call of Purge keeps the store it was made on, so
\* another one is opened only after it has returned.
Open ==
  /\ mode \in {"closed", "down"} /\ pending = 0
  /\ IF \E k \in DOMAIN file : file[k].glued
     THEN /\ mode' = "corrupt"
          /\ UNCHANGED <<tail, live, lines, writer>>
     ELSE /\ Memory("open", Replay(file), Len(file))
          /\ tail' = IF tail = "torn" THEN "clean" ELSE tail
  /\ UNCHANGED <<file, synced, shadows, operation, pending, now, history>>

\* Whole lines are left up to the k-th, and perhaps a part of the next one.
CutAt(k) ==
  \/ /\ file' = SubSeq(file, 1, k)
     /\ tail' = IF k = Len(file) THEN tail ELSE "clean"
  \/ /\ k < Len(file)
     /\ file' = SubSeq(file, 1, k)
     /\ tail' = "torn"
  \/ /\ k < Len(file) /\ "noeol" \in Faults
     /\ file' = Append(SubSeq(file, 1, k), [file[k + 1] EXCEPT !.glued = FALSE])
     /\ tail' = "noeol"

\* The crash comes in the middle of a write of the buffer.
MidWrite ==
  /\ pc \in {"append", "flush"} /\ ~werr /\ ~stale
  /\ \E k \in 0..Len(buf)-1 :
       \/ BreakOff(k)
       \/ /\ "noeol" \in Faults /\ (k > 0 \/ tail # "noeol")
          /\ file' = Extended(SubSeq(buf, 1, k + 1))
          /\ tail' = "noeol"

Forget == Memory("down", Nothing, 0) /\ End /\ pending' = 0

Kill ==
  /\ mode = "open" /\ "kill" \in Faults
  /\ UNCHANGED <<file, tail>> \/ MidWrite
  /\ synced' = Min({synced, Len(file')})
  /\ Forget
  /\ UNCHANGED <<shadows, now, history>>

PowerLoss ==
  /\ \/ \E k \in synced..Len(file) : CutAt(k)
     \/ MidWrite
     \/ file' \in shadows /\ tail' = "clean"
  /\ synced' = Len(file')
  /\ shadows' = {}
  /\ possible' = [i \in Id |-> {Replay(file')[i]}]
  /\ Forget
  /\ UNCHANGED <<now, told>>

Tick ==
  /\ pc = "idle" /\ now < MaxTime
  /\ now' = now + 1
  /\ UNCHANGED <<disk, memory, operation, pending, history>>

Next ==
  \/ \E ids \in SUBSET Id \ {{}} : \E seq \in SetToSeqs(ids) : Put(seq)
  \/ PutSkips \/ PutAppends \/ PutGivesUp \/ PutHandled
  \/ \E cutoff \in 2..MaxTime + 1 : Purge(cutoff)
  \/ PurgeAppends \/ PurgeBreaks \/ PurgeHandled
  \/ Flush \/ Sync \/ FlushFails
  \/ Close \/ CloseSynced \/ CloseFails
  \/ Compact \/ CompactClosed \/ Rewrite \/ RewriteFails \/ SyncDir \/ Reopen \/ ReopenFails
  \/ Open \/ Kill \/ PowerLoss \/ Tick

Spec == Init /\ [][Next]_vars

-----------------------------------------------------------------------------
\* The index is what a replay of the log would build, and the counters that
\* decide about compaction count the log: what was buffered, what was written
\* and what compaction threw away add up, after every failure.
IndexMatchesLog ==
  mode = "open" /\ ~stale =>
    /\ live = Replay(file \o buf)
    /\ lines = Len(file) + Len(buf)

\* Whatever was written, cut off and rewritten before, Open reads the log: a
\* write cut short by a crash is recoverable (store.go:7-9, store.go:100).
LogStaysReadable == mode # "corrupt"

\* Every record in the log changes what is stored: an entry is not stored again
\* while it is there, which would refresh its age, and not deleted twice.
EachRecordChanges ==
  LET log == file \o buf
      Before(k) == {j \in 1..k-1 : log[j].id = log[k].id}
  IN  mode = "open" /\ ~stale =>
        \A k \in DOMAIN log :
          LET there == Before(k) # {} /\ log[Max(Before(k))].t # 0
          IN  log[k].t # 0 <=> ~there

\* Put that returned no error promised that the entries survive a restart
\* (store.go:1-6): they are in every log that power loss could leave behind.
Survivors == {SubSeq(file, 1, k) : k \in synced..Len(file)} \cup shadows

AcknowledgedSurvives == \A i \in told : \A s \in Survivors : Replay(s)[i] # 0

\* A compaction that succeeds mends the log, whatever was wrong with it: lines
\* run together behind a missing newline, or records that went to a file that
\* has no name any more.  What the name stands for afterwards is synced, opens,
\* and holds what the store shows, and the counters agree with it.
CompactionMends ==
  [][ pc = "reopen" /\ pc' = "idle" /\ mode' = "open" /\ ~stale' =>
        /\ \A k \in DOMAIN file' : ~file'[k].glued
        /\ tail' = "clean" /\ synced' = Len(file')
        /\ Replay(file') = live'
        /\ buf' = <<>> /\ lines' = Len(file') ]_vars

\* The store implements the promise of DurableMap.
Promise ==
  INSTANCE DurableMap WITH
    entry <- IF mode = "open" THEN live ELSE Replay(file),
    possible <- possible

ImplementsDurableMap == Promise!Spec

=============================================================================
