---------------------------- MODULE Store_proofs ----------------------------
(***************************************************************************)
(* Proofs about Store, for any ids, times, bounds and faults.  They come   *)
(* in three layers, each an inductive invariant relative to the one below: *)
(*   IInv      whatever goes wrong: types, bounds, where an operation is,  *)
(*             and that compaction leaves a log that matches the index;    *)
(*   LogInv    unless a record may lose its newline: the log opens, the    *)
(*             index is a replay of it, and every record changes something;*)
(*   CrashInv  if the compacted log can always be opened, too: whatever a  *)
(*             crash leaves replays to values of the last commit or since. *)
(***************************************************************************)
EXTENDS Store_lemmas

Clean == file \in Seq(Line) /\ buf \in Seq(Record)

DiskOK ==
  /\ Clean
  /\ Len(file) + Len(buf) <= MaxLines
  /\ tail \in {"clean", "torn", "noeol"}
  /\ synced \in 0..Len(file)
  /\ \A s \in shadows : s \in Seq(Line) /\ Len(s) <= MaxLines
  /\ pc = "append" => Len(file) + Len(buf) + Len(todo) <= MaxLines

\* The index stores no more entries than records were written since the log
\* was last counted, so what compaction writes fits where the log was.
MemoryOK ==
  /\ mode \in {"open", "closed", "down", "corrupt"}
  /\ live \in [Id -> 0..MaxTime]
  /\ lines \in Nat /\ lines <= MaxLines
  /\ Cardinality(Stored(live)) <= lines
  /\ werr \in BOOLEAN /\ stale \in BOOLEAN
  /\ pc = "append" => lines + Len(todo) <= MaxLines

OperationOK ==
  /\ pc \in {"idle", "append", "flush", "sync", "rewrite", "syncdir", "reopen"}
  /\ kind \in {"none", "put", "purge", "compact", "close"}
  /\ batch \subseteq Id /\ todo \in Seq(Id) /\ wrote \in BOOLEAN
  /\ pending \in 0..MaxPending
  /\ now \in 1..MaxTime
  /\ possible \in [Id -> SUBSET (0..MaxTime)]
  /\ told \subseteq Id
  /\ kind = "purge" => pending < MaxPending

\* Where an operation is says what has become of the buffer.
Placed ==
  /\ mode # "open" => pc = "idle" /\ buf = <<>>
  /\ pc = "idle" <=> kind = "none"
  /\ pc = "append" => kind \in {"put", "purge"}
  /\ pc \in {"rewrite", "syncdir", "reopen"} => kind = "compact"
  /\ pc \in {"sync", "rewrite", "syncdir", "reopen"} => buf = <<>> /\ ~werr

\* The log that compaction has put in place is whole and synced, and holds what
\* the index holds.
Compacting ==
  pc \in {"syncdir", "reopen"} =>
    /\ stale
    /\ Unglued(file) /\ tail = "clean" /\ synced = Len(file)
    /\ Replay(file) = live /\ Len(file) = Cardinality(Stored(live))

IInv == DiskOK /\ MemoryOK /\ OperationOK /\ Placed /\ Compacting

-----------------------------------------------------------------------------
(***************************************************************************)
(* What an operation may do to the disk, whatever the tail.                *)
(***************************************************************************)
LEMMA BreakOffType ==
  ASSUME DiskOK, NEW k \in 0..Len(buf)-1, BreakOff(k)
  PROVE  /\ file' \in Seq(Line) /\ Len(file') <= Len(file) + k
         /\ tail' \in {"clean", "torn", "noeol"}
<1> USE DEF DiskOK, Clean
<1>1. SubSeq(buf, 1, k) \in Seq(Record) /\ Len(SubSeq(buf, 1, k)) = k
  BY PrefixProperties
<1>2. /\ Extended(SubSeq(buf, 1, k)) \in Seq(Line)
      /\ Len(Extended(SubSeq(buf, 1, k))) <= Len(file) + k
  BY <1>1, ExtendedType
<1>3. Front(file) \in Seq(Line) /\ Len(Front(file)) <= Len(file)
  <2>1. CASE Len(file) = 0
    <3>1. Front(file) = <<>>
      BY <2>1, SubSeqEmpty DEF Front
    <3> QED BY <3>1, <2>1, EmptySeq
  <2>2. CASE Len(file) # 0
    <3>1. Len(file) - 1 \in 0..Len(file)
      BY <2>2, LenProperties
    <3> QED BY <3>1, PrefixProperties DEF Front
  <2> QED BY <2>1, <2>2
<1> QED BY <1>2, <1>3 DEF BreakOff

LEMMA WriteOutType ==
  ASSUME DiskOK, WriteOut(buf)
  PROVE  /\ file' \in Seq(Line) /\ Len(file) <= Len(file') /\ Len(file') <= Len(file) + Len(buf)
         /\ tail' \in {"clean", "torn", "noeol"}
<1>1. /\ Extended(buf) \in Seq(Line)
      /\ Len(file) <= Len(Extended(buf)) /\ Len(Extended(buf)) <= Len(file) + Len(buf)
  BY ExtendedType DEF DiskOK, Clean
<1> QED BY <1>1 DEF WriteOut, DiskOK, Clean

LEMMA AppendRecordType ==
  ASSUME DiskOK, NEW i \in Id, NEW t \in 0..MaxTime, AppendRecord(i, t)
  PROVE  /\ file' \in Seq(Line) /\ buf' \in Seq(Record)
         /\ Len(file) <= Len(file') /\ Len(file') + Len(buf') <= Len(file) + Len(buf) + 1
         /\ tail' \in {"clean", "torn", "noeol"}
<1> DEFINE r == [id |-> i, t |-> t]
<1>1. r \in Record
  BY DEF Record
<1> HIDE DEF r
<1>2. CASE buf' = Append(buf, r) /\ UNCHANGED <<file, tail>>
  BY <1>1, <1>2, AppendProperties DEF DiskOK, Clean
<1>3. CASE buf # <<>> /\ WriteOut(buf) /\ buf' = <<r>>
  <2>1. buf' \in Seq(Record) /\ Len(buf') = 1
    BY <1>1, <1>3
  <2> QED BY <1>3, <2>1, WriteOutType DEF DiskOK, Clean
<1> QED BY <1>2, <1>3 DEF AppendRecord, r

LEMMA WriteFailsType ==
  ASSUME DiskOK, WriteFails
  PROVE  /\ file' \in Seq(Line) /\ buf' \in Seq(Record)
         /\ Len(file') + Len(buf') <= Len(file) + Len(buf)
         /\ tail' \in {"clean", "torn", "noeol"} /\ synced' \in 0..Len(file')
<1>1. PICK k \in 0..Len(buf)-1 : buf' = SubSeq(buf, k + 1, Len(buf)) /\ BreakOff(k)
  BY DEF WriteFails
<1>2. file' \in Seq(Line) /\ Len(file') <= Len(file) + k /\ tail' \in {"clean", "torn", "noeol"}
  BY <1>1, BreakOffType
<1>3. buf' \in Seq(Record) /\ Len(buf') = Len(buf) - k
  <2>1. \A j \in k+1..Len(buf) : buf[j] \in Record
    BY DEF DiskOK, Clean
  <2> QED BY <1>1, <2>1, SubSeqProperties DEF DiskOK, Clean
<1>4. synced' \in 0..Len(file')
  <2>1. synced \in Nat /\ Len(file') \in Nat /\ synced' = Min({synced, Len(file')})
    BY <1>2 DEF WriteFails, DiskOK, Clean
  <2> QED BY <2>1, Smaller
<1> QED BY <1>2, <1>3, <1>4 DEF DiskOK, Clean

LEMMA AppendFailsType ==
  ASSUME DiskOK, AppendFails
  PROVE  /\ file' \in Seq(Line) /\ buf' \in Seq(Record)
         /\ Len(file') + Len(buf') <= Len(file) + Len(buf)
         /\ tail' \in {"clean", "torn", "noeol"} /\ synced' \in 0..Len(file')
         /\ UNCHANGED <<shadows, mode, live, lines, stale>>
<1>1. CASE WriteFails
  BY <1>1, WriteFailsType DEF WriteFails
<1>2. CASE UNCHANGED <<disk, memory>>
  BY <1>2 DEF DiskOK, Clean, disk, memory, writer
<1> QED BY <1>1, <1>2 DEF AppendFails

LEMMA MidWriteType ==
  ASSUME DiskOK, MidWrite
  PROVE  /\ file' \in Seq(Line) /\ Len(file') <= Len(file) + Len(buf)
         /\ tail' \in {"clean", "torn", "noeol"}
<1>1. PICK k \in 0..Len(buf)-1 :
        BreakOff(k) \/ (file' = Extended(SubSeq(buf, 1, k + 1)) /\ tail' = "noeol")
  BY DEF MidWrite
<1>2. CASE BreakOff(k)
  BY <1>2, BreakOffType DEF DiskOK, Clean
<1>3. CASE file' = Extended(SubSeq(buf, 1, k + 1)) /\ tail' = "noeol"
  <2>1. k + 1 \in 0..Len(buf)
    BY DEF DiskOK, Clean
  <2>2. SubSeq(buf, 1, k + 1) \in Seq(Record) /\ Len(SubSeq(buf, 1, k + 1)) = k + 1
    BY <2>1, PrefixProperties DEF DiskOK, Clean
  <2>3. Extended(SubSeq(buf, 1, k + 1)) \in Seq(Line) /\ Len(Extended(SubSeq(buf, 1, k + 1))) <= Len(file) + k + 1
    <3> DEFINE p == SubSeq(buf, 1, k + 1)
    <3> HIDE DEF p
    <3>1. p \in Seq(Record) /\ Len(p) = k + 1
      BY <2>2 DEF p
    <3>2. Extended(p) \in Seq(Line) /\ Len(Extended(p)) <= Len(file) + Len(p)
      BY <3>1, ExtendedType DEF DiskOK, Clean
    <3>3. Len(Extended(p)) <= Len(file) + k + 1
      BY <3>1, <3>2, LenProperties DEF DiskOK, Clean
    <3> QED BY <3>2, <3>3 DEF p
  <2> QED BY <1>3, <2>1, <2>3 DEF DiskOK, Clean
<1> QED BY <1>1, <1>2, <1>3

LEMMA CutAtType ==
  ASSUME DiskOK, NEW k \in synced..Len(file), CutAt(k)
  PROVE  file' \in Seq(Line) /\ Len(file') <= Len(file) /\ tail' \in {"clean", "torn", "noeol"}
<1>1. k \in 0..Len(file) /\ file \in Seq(Line) /\ Len(file) \in Nat
  BY DEF DiskOK, Clean
<1> DEFINE p == SubSeq(file, 1, k)
<1>2. p \in Seq(Line) /\ Len(p) = k
  BY <1>1, PrefixProperties
<1> HIDE DEF p
<1>3. CASE file' = p /\ tail' \in {tail, "clean", "torn"}
  BY <1>1, <1>2, <1>3 DEF DiskOK
<1>4. CASE /\ k < Len(file) /\ tail' = "noeol"
           /\ file' = Append(p, [file[k + 1] EXCEPT !.glued = FALSE])
  <2>1. k + 1 \in 1..Len(file)
    BY <1>1, <1>4
  <2>2. file[k + 1] \in Line
    BY <1>1, <2>1, ElementOfSeq
  <2>3. [file[k + 1] EXCEPT !.glued = FALSE] \in Line
    BY <2>2, GluedLine, Zenon
  <2> QED BY <1>1, <1>2, <1>4, <2>3, AppendProperties
<1> QED BY <1>3, <1>4 DEF CutAt, p

\* The log and the buffer keep their types, and the log its bound.
LEMMA StepDisk == IInv /\ [Next]_vars => DiskOK'
<1> SUFFICES ASSUME IInv, [Next]_vars PROVE DiskOK'
  OBVIOUS
<1> USE DEF IInv, DiskOK
<1>0. /\ Len(file) \in Nat /\ Len(buf) \in Nat /\ Len(todo) \in Nat /\ MaxLines \in Nat
      /\ <<>> \in Seq(Record) /\ Len(<<>>) = 0
  BY LenProperties, EmptySeq, BoundsAssumption DEF Clean, OperationOK
<1> USE <1>0
<1>1. ASSUME NEW ids \in SUBSET Id \ {{}}, NEW seq \in SetToSeqs(ids), Put(seq) PROVE DiskOK'
  <2>1. IsFiniteSet(ids)
    BY IdAssumption, FS_Subset
  <2>2. Len(seq) \in Nat
    BY <2>1, SeqsOfSet
  <2>3. Max({lines, Len(file) + Len(buf)}) + Len(seq) <= MaxLines
    BY <1>1 DEF Put, Fits
  <2>4. Len(file) + Len(buf) + Len(seq) <= MaxLines
    BY <2>2, <2>3, Greater DEF Clean, MemoryOK
  <2> QED BY <1>1, <2>4 DEF Put, Start, disk, memory, writer, Clean
<1>2. CASE PutAppends
  <2> DEFINE i == Head(todo)
  <2>1. i \in Id /\ Len(todo') = Len(todo) - 1 /\ Len(todo) \in Nat
    BY <1>2, HeadTailProperties, LenProperties DEF PutAppends, OperationOK
  <2>2. AppendRecord(i, now) /\ now \in 0..MaxTime
    BY <1>2, BoundsAssumption DEF PutAppends, OperationOK
  <2>3. /\ file' \in Seq(Line) /\ buf' \in Seq(Record)
        /\ Len(file) <= Len(file') /\ Len(file') + Len(buf') <= Len(file) + Len(buf) + 1
        /\ tail' \in {"clean", "torn", "noeol"}
    BY <2>1, <2>2, AppendRecordType
  <2>4. Len(file') \in Nat /\ Len(buf') \in Nat /\ synced \in Nat
    BY <2>3, LenProperties DEF Clean
  <2>5. UNCHANGED <<synced, shadows, pc>> /\ pc = "append"
    BY <1>2 DEF PutAppends, AppendRecord
  <2> QED BY <2>1, <2>3, <2>4, <2>5 DEF Clean
<1>3. CASE PutGivesUp
  <2>1. CASE AppendFails
    <3>1. /\ file' \in Seq(Line) /\ buf' \in Seq(Record)
          /\ Len(file') + Len(buf') <= Len(file) + Len(buf)
          /\ tail' \in {"clean", "torn", "noeol"} /\ synced' \in 0..Len(file')
          /\ UNCHANGED shadows
      BY <2>1, AppendFailsType
    <3>2. pc' # "append" /\ Len(file') \in Nat /\ Len(buf') \in Nat
      BY <1>3, <3>1, LenProperties DEF PutGivesUp, End, Goto
    <3> QED BY <3>1, <3>2 DEF Clean
  <2>2. CASE UNCHANGED <<disk, memory>>
    BY <1>3, <2>2 DEF PutGivesUp, End, disk, memory, writer, Clean
  <2> QED BY <1>3, <2>1, <2>2 DEF PutGivesUp
<1>4. ASSUME NEW cutoff \in 2..MaxTime + 1, Purge(cutoff) PROVE DiskOK'
  <2> DEFINE old == {i \in Id : live[i] # 0 /\ live[i] < cutoff}
  <2>1. IsFiniteSet(old)
    BY IdAssumption, FS_Subset
  <2>2. PICK seq \in SetToSeqs(old) : Start("purge", "append", old, seq)
    BY <1>4 DEF Purge
  <2>3. Len(seq) \in Nat /\ Len(seq) = Cardinality(old)
    <3> HIDE DEF old
    <3> QED BY <2>1, SeqsOfSet
  <2>4. Max({lines, Len(file) + Len(buf)}) + Cardinality(old) <= MaxLines
    BY <1>4 DEF Purge, Fits
  <2>5. Len(file) + Len(buf) + Len(seq) <= MaxLines
    BY <2>3, <2>4, Greater DEF Clean, MemoryOK
  <2> QED BY <1>4, <2>2, <2>5 DEF Purge, Start, disk, memory, writer, Clean
<1>5. CASE PurgeAppends
  <2> DEFINE i == Head(todo)
  <2>1. i \in Id /\ Len(todo') = Len(todo) - 1 /\ Len(todo) \in Nat
    BY <1>5, HeadTailProperties, LenProperties DEF PurgeAppends, OperationOK
  <2>2. AppendRecord(i, 0) /\ 0 \in 0..MaxTime
    BY <1>5, BoundsAssumption DEF PurgeAppends, OperationOK
  <2>3. /\ file' \in Seq(Line) /\ buf' \in Seq(Record)
        /\ Len(file) <= Len(file') /\ Len(file') + Len(buf') <= Len(file) + Len(buf) + 1
        /\ tail' \in {"clean", "torn", "noeol"}
    BY <2>1, <2>2, AppendRecordType
  <2>4. Len(file') \in Nat /\ Len(buf') \in Nat /\ synced \in Nat
    BY <2>3, LenProperties DEF Clean
  <2>5. UNCHANGED <<synced, shadows, pc>> /\ pc = "append"
    BY <1>5 DEF PurgeAppends, AppendRecord
  <2> QED BY <2>1, <2>3, <2>4, <2>5 DEF Clean
<1>6. CASE PurgeBreaks
  <2>1. CASE AppendFails
    <3>1. /\ file' \in Seq(Line) /\ buf' \in Seq(Record)
          /\ Len(file') + Len(buf') <= Len(file) + Len(buf)
          /\ tail' \in {"clean", "torn", "noeol"} /\ synced' \in 0..Len(file')
          /\ UNCHANGED shadows
      BY <2>1, AppendFailsType
    <3>2. pc' # "append" /\ Len(file') \in Nat /\ Len(buf') \in Nat
      BY <1>6, <3>1, LenProperties DEF PurgeBreaks, End, Goto
    <3> QED BY <3>1, <3>2 DEF Clean
  <2>2. CASE UNCHANGED <<disk, memory>>
    BY <1>6, <2>2 DEF PurgeBreaks, End, Goto, disk, memory, writer, Clean
  <2> QED BY <1>6, <2>1, <2>2 DEF PurgeBreaks
<1>7. CASE Flush
  <2>1. /\ file' \in Seq(Line) /\ Len(file) <= Len(file') /\ Len(file') <= Len(file) + Len(buf)
        /\ tail' \in {"clean", "torn", "noeol"}
    BY <1>7, WriteOutType DEF Flush
  <2>2. buf' = <<>> /\ pc' = "sync" /\ UNCHANGED <<synced, shadows>>
    BY <1>7 DEF Flush, Goto
  <2> QED BY <2>1, <2>2 DEF Clean
<1>8. CASE Sync
  <2>1. UNCHANGED <<file, tail, buf>> /\ pc' # "append"
    BY <1>8 DEF Sync, memory, writer, Goto, End, PurgeReturns, OperationOK, Placed
  <2>2. synced' \in 0..Len(file') /\ \A s \in shadows' : s \in shadows
    BY <1>8, <2>1 DEF Sync, Synced, Clean
  <2> QED BY <2>1, <2>2 DEF Clean
<1>9. CASE FlushFails
  <2>1. CASE AppendFails
    <3>1. /\ file' \in Seq(Line) /\ buf' \in Seq(Record)
          /\ Len(file') + Len(buf') <= Len(file) + Len(buf)
          /\ tail' \in {"clean", "torn", "noeol"} /\ synced' \in 0..Len(file')
          /\ UNCHANGED shadows
      BY <2>1, AppendFailsType
    <3>2. pc' # "append" /\ Len(file') \in Nat /\ Len(buf') \in Nat
      BY <1>9, <3>1, LenProperties DEF FlushFails, End, Goto
    <3> QED BY <3>1, <3>2 DEF Clean
  <2>2. CASE UNCHANGED <<disk, memory>>
    BY <1>9, <2>2 DEF FlushFails, End, disk, memory, writer, Clean
  <2> QED BY <1>9, <2>1, <2>2 DEF FlushFails
<1>10. CASE CloseSynced
  <2>1. UNCHANGED <<file, tail>> /\ buf' = <<>> /\ pc' # "append"
    BY <1>10 DEF CloseSynced, Memory, End
  <2>2. synced' \in 0..Len(file') /\ \A s \in shadows' : s \in shadows
    BY <1>10, <2>1 DEF CloseSynced, Synced, Clean
  <2> QED BY <2>1, <2>2 DEF Clean
<1>11. CASE CloseFails
  <2>1. file' \in Seq(Line) /\ Len(file') <= Len(file) + Len(buf) /\ tail' \in {"clean", "torn", "noeol"}
    <3>1. CASE UNCHANGED <<file, tail>>
      BY <3>1, LenProperties DEF Clean
    <3>2. ASSUME NEW k \in 0..Len(buf)-1, BreakOff(k)
          PROVE  file' \in Seq(Line) /\ Len(file') <= Len(file) + Len(buf) /\ tail' \in {"clean", "torn", "noeol"}
      BY <3>2, BreakOffType, LenProperties DEF Clean
    <3> QED BY <1>11, <3>1, <3>2 DEF CloseFails
  <2>2. buf' = <<>> /\ pc' = "idle" /\ UNCHANGED shadows /\ synced' = Min({synced, Len(file')})
    BY <1>11 DEF CloseFails, Memory, End
  <2>3. synced' \in 0..Len(file')
    BY <2>1, <2>2, Smaller, LenProperties DEF Clean
  <2> QED BY <2>1, <2>2, <2>3 DEF Clean
<1>12. CASE Rewrite
  <2>1. PICK recs \in SetToSeqs(LiveRecords) : file' = AsLines(recs) /\ synced' = Len(recs)
    BY <1>12 DEF Rewrite
  <2>2. recs \in Seq(Record) /\ Len(recs) = Cardinality(Stored(live))
    BY Compacted DEF MemoryOK
  <2>3. file' \in Seq(Line) /\ Len(file') = Len(recs)
    BY <2>1, <2>2, AsLinesType
  <2>4. buf = <<>> /\ buf' = buf /\ tail' = "clean" /\ shadows' = shadows \cup {file} /\ pc' = "syncdir"
    BY <1>12 DEF Rewrite, Placed, Goto
  <2>5. Len(file') <= MaxLines /\ Len(file') \in Nat /\ Len(buf) = 0
    BY <2>2, <2>3, <2>4, StoredFinite, BoundsAssumption, EmptySeq DEF MemoryOK
  <2>6. Len(file) <= MaxLines
    BY DEF Clean
  <2> QED BY <2>1, <2>3, <2>4, <2>5, <2>6 DEF Clean
<1>13. CASE SyncDir
  BY <1>13 DEF SyncDir, disk, memory, writer, Goto, Clean
<1>14. CASE Reopen
  <2>1. UNCHANGED disk /\ buf' = <<>> /\ pc' = "idle"
    BY <1>14 DEF Reopen, Memory, End
  <2> QED BY <2>1 DEF disk, Clean
<1>15. CASE Open
  <2>1. UNCHANGED <<file, synced, shadows, pc>> /\ buf' \in {buf, <<>>} /\ tail' \in {tail, "clean"}
    BY <1>15 DEF Open, Memory, writer, operation
  <2>2. pc # "append"
    BY <1>15 DEF Open, Placed
  <2>3. buf' \in Seq(Record) /\ Len(buf') <= Len(buf)
    <3>1. CASE buf' = buf
      BY <3>1 DEF Clean
    <3>2. CASE buf' = <<>>
      BY <3>2 DEF Clean
    <3> QED BY <2>1, <3>1, <3>2
  <2> QED BY <2>1, <2>2, <2>3 DEF Clean
<1>16. CASE Kill
  <2>1. file' \in Seq(Line) /\ Len(file') <= Len(file) + Len(buf) /\ tail' \in {"clean", "torn", "noeol"}
    <3>1. CASE UNCHANGED <<file, tail>>
      BY <3>1, LenProperties DEF Clean
    <3> QED BY <1>16, <3>1, MidWriteType DEF Kill
  <2>2. buf' = <<>> /\ pc' = "idle" /\ UNCHANGED shadows /\ synced' = Min({synced, Len(file')})
    BY <1>16 DEF Kill, Forget, Memory, End
  <2>3. synced' \in 0..Len(file')
    BY <2>1, <2>2, Smaller, LenProperties DEF Clean
  <2> QED BY <2>1, <2>2, <2>3 DEF Clean
<1>17. CASE PowerLoss
  <2>1. /\ file' \in Seq(Line) /\ tail' \in {"clean", "torn", "noeol"} /\ Len(file') <= MaxLines
    <3>1. ASSUME NEW k \in synced..Len(file), CutAt(k)
          PROVE  file' \in Seq(Line) /\ Len(file') <= MaxLines /\ tail' \in {"clean", "torn", "noeol"}
      <4>1. file' \in Seq(Line) /\ Len(file') <= Len(file) /\ tail' \in {"clean", "torn", "noeol"}
        BY <3>1, CutAtType
      <4> QED BY <4>1, LenProperties, BoundsAssumption DEF Clean
    <3>2. CASE MidWrite
      <4>1. file' \in Seq(Line) /\ Len(file') <= Len(file) + Len(buf) /\ tail' \in {"clean", "torn", "noeol"}
        BY <3>2, MidWriteType
      <4> QED BY <4>1, LenProperties, BoundsAssumption DEF Clean
    <3>3. CASE file' \in shadows /\ tail' = "clean"
      BY <3>3
    <3> QED BY <1>17, <3>1, <3>2, <3>3 DEF PowerLoss
  <2>2. buf' = <<>> /\ pc' = "idle" /\ shadows' = {} /\ synced' = Len(file')
    BY <1>17 DEF PowerLoss, Forget, Memory, End
  <2> QED BY <2>1, <2>2 DEF Clean
<1>18. CASE \/ PutHandled \/ PurgeHandled \/ Close \/ Compact \/ CompactClosed
          \/ RewriteFails \/ ReopenFails \/ Tick \/ UNCHANGED vars
  BY <1>18 DEF PutHandled, PurgeHandled, PurgeReturns, Close, Compact, CompactClosed,
     RewriteFails, ReopenFails, Tick, vars, disk, memory, writer, operation, Start, Goto, End, Clean
<1>19. CASE PutSkips
  <2>1. Len(todo') = Len(todo) - 1 /\ Len(todo) \in Nat
    BY <1>19, HeadTailProperties, LenProperties DEF PutSkips, OperationOK
  <2>2. UNCHANGED <<file, tail, synced, shadows, buf, pc>> /\ pc = "append"
    BY <1>19 DEF PutSkips, disk, memory, writer
  <2> QED BY <2>1, <2>2, LenProperties DEF Clean
<1> QED
  BY <1>1, <1>2, <1>3, <1>4, <1>5, <1>6, <1>7, <1>8, <1>9, <1>10, <1>11, <1>12, <1>13, <1>14,
     <1>15, <1>16, <1>17, <1>18, <1>19 DEF Next

LEMMA NothingStored == Nothing \in [Id -> 0..MaxTime] /\ Cardinality(Stored(Nothing)) = 0
<1>1. Stored(Nothing) = {}
  BY DEF Stored, Nothing
<1> QED BY <1>1, FS_EmptySet, BoundsAssumption DEF Nothing

\* The index keeps its type, and is no larger than its count.
LEMMA StepMemory == IInv /\ [Next]_vars => MemoryOK'
<1> SUFFICES ASSUME IInv, [Next]_vars PROVE MemoryOK'
  OBVIOUS
<1> USE DEF IInv, MemoryOK
<1>0. /\ Len(file) \in Nat /\ Len(buf) \in Nat /\ Len(todo) \in Nat /\ MaxLines \in Nat
      /\ <<>> \in Seq(Record) /\ <<>> \in Seq(Item) /\ Len(<<>>) = 0
  BY LenProperties, EmptySeq, BoundsAssumption DEF Clean, DiskOK, OperationOK
<1> USE <1>0
<1>1. ASSUME NEW ids \in SUBSET Id \ {{}}, NEW seq \in SetToSeqs(ids), Put(seq) PROVE MemoryOK'
  <2>1. IsFiniteSet(ids)
    BY IdAssumption, FS_Subset
  <2>2. Len(seq) \in Nat
    BY <2>1, SeqsOfSet
  <2>3. Max({lines, Len(file) + Len(buf)}) + Len(seq) <= MaxLines
    BY <1>1 DEF Put, Fits
  <2>4. lines + Len(seq) <= MaxLines
    BY <2>2, <2>3, Greater
  <2> QED BY <1>1, <2>4 DEF Put, Start, memory, writer
<1>2. CASE PutSkips
  <2>1. Len(todo') = Len(todo) - 1
    BY <1>2, HeadTailProperties DEF PutSkips, OperationOK
  <2> QED BY <1>2, <2>1 DEF PutSkips, memory, writer
<1>3. CASE PutAppends
  <2> DEFINE i == Head(todo)
  <2>1. i \in Id /\ Len(todo') = Len(todo) - 1 /\ now \in 0..MaxTime
    BY <1>3, HeadTailProperties, BoundsAssumption DEF PutAppends, OperationOK
  <2>2. /\ live' = [live EXCEPT ![i] = now] /\ lines' = lines + 1
        /\ UNCHANGED <<mode, werr, stale, pc>> /\ pc = "append"
    BY <1>3 DEF PutAppends, AppendRecord
  <2>6. Len(todo) >= 1
    BY <1>3, EmptySeq DEF PutAppends, OperationOK
  <2>3. Cardinality(Stored(live')) <= Cardinality(Stored(live)) + 1
    BY <2>1, <2>2, StoredUpdate
  <2>4. Cardinality(Stored(live)) \in Nat /\ Cardinality(Stored(live')) \in Nat
    BY StoredFinite
  <2>5. lines' \in Nat /\ lines' <= MaxLines /\ Cardinality(Stored(live')) <= lines'
    <3>1. lines + Len(todo) <= MaxLines
      BY <2>2
    <3> QED BY <2>2, <2>3, <2>4, <2>6, <3>1
  <2> QED BY <2>1, <2>2, <2>5
<1>4. CASE PutGivesUp
  <2>1. UNCHANGED <<mode, live, lines, stale>> /\ werr' \in BOOLEAN
    BY <1>4 DEF PutGivesUp, AppendFails, WriteFails, memory, writer
  <2>2. pc' # "append"
    BY <1>4 DEF PutGivesUp, End, Goto
  <2> QED BY <2>1, <2>2
<1>5. ASSUME NEW cutoff \in 2..MaxTime + 1, Purge(cutoff) PROVE MemoryOK'
  <2> DEFINE old == {i \in Id : live[i] # 0 /\ live[i] < cutoff}
  <2>1. IsFiniteSet(old)
    BY IdAssumption, FS_Subset
  <2>2. PICK seq \in SetToSeqs(old) : Start("purge", "append", old, seq)
    BY <1>5 DEF Purge
  <2>3. Len(seq) \in Nat /\ Len(seq) = Cardinality(old)
    <3> HIDE DEF old
    <3> QED BY <2>1, SeqsOfSet
  <2>4. Max({lines, Len(file) + Len(buf)}) + Cardinality(old) <= MaxLines
    BY <1>5 DEF Purge, Fits
  <2>5. lines + Len(seq) <= MaxLines
    BY <2>3, <2>4, Greater
  <2> QED BY <1>5, <2>2, <2>5 DEF Purge, Start, memory, writer
<1>6. CASE PurgeAppends
  <2> DEFINE i == Head(todo)
  <2>1. i \in Id /\ Len(todo') = Len(todo) - 1 /\ 0 \in 0..MaxTime
    BY <1>6, HeadTailProperties, BoundsAssumption DEF PurgeAppends, OperationOK
  <2>2. /\ live' = [live EXCEPT ![i] = 0] /\ lines' = lines + 1
        /\ UNCHANGED <<mode, werr, stale, pc>> /\ pc = "append"
    BY <1>6 DEF PurgeAppends, AppendRecord
  <2>6. Len(todo) >= 1
    BY <1>6, EmptySeq DEF PurgeAppends, OperationOK
  <2>3. Cardinality(Stored(live')) <= Cardinality(Stored(live)) + 1
    BY <2>1, <2>2, StoredUpdate
  <2>4. Cardinality(Stored(live)) \in Nat /\ Cardinality(Stored(live')) \in Nat
    BY StoredFinite
  <2>5. lines' \in Nat /\ lines' <= MaxLines /\ Cardinality(Stored(live')) <= lines'
    <3>1. lines + Len(todo) <= MaxLines
      BY <2>2
    <3> QED BY <2>2, <2>3, <2>4, <2>6, <3>1
  <2> QED BY <2>1, <2>2, <2>5
<1>7. CASE PurgeBreaks
  <2>1. UNCHANGED <<mode, live, lines, stale>> /\ werr' \in BOOLEAN
    BY <1>7 DEF PurgeBreaks, AppendFails, WriteFails, memory, writer
  <2>2. pc' # "append"
    BY <1>7 DEF PurgeBreaks, End, Goto
  <2> QED BY <2>1, <2>2
<1>8. CASE FlushFails
  <2>1. UNCHANGED <<mode, live, lines, stale>> /\ werr' \in BOOLEAN
    BY <1>8 DEF FlushFails, AppendFails, WriteFails, memory, writer
  <2>2. pc' # "append"
    BY <1>8 DEF FlushFails, End, Goto
  <2> QED BY <2>1, <2>2
<1>9. CASE CloseSynced
  <2>1. /\ mode' = "closed" /\ live' = Nothing /\ lines' = 0
        /\ werr' = FALSE /\ stale' = FALSE /\ pc' = "idle"
    BY <1>9 DEF CloseSynced, End, Memory
  <2>2. 0 \in Nat /\ 0 <= MaxLines /\ 0 <= 0
    OBVIOUS
  <2>3. Cardinality(Stored(live')) = 0 /\ live' \in [Id -> 0..MaxTime]
    BY <2>1, NothingStored
  <2>4. werr' \in BOOLEAN /\ stale' \in BOOLEAN
    BY <2>1
  <2> QED BY <2>1, <2>2, <2>3, <2>4
<1>10. CASE CloseFails
  <2>1. /\ mode' = "closed" /\ live' = Nothing /\ lines' = 0
        /\ werr' = FALSE /\ stale' = FALSE /\ pc' = "idle"
    BY <1>10 DEF CloseFails, End, Memory
  <2>2. 0 \in Nat /\ 0 <= MaxLines /\ 0 <= 0
    OBVIOUS
  <2>3. Cardinality(Stored(live')) = 0 /\ live' \in [Id -> 0..MaxTime]
    BY <2>1, NothingStored
  <2>4. werr' \in BOOLEAN /\ stale' \in BOOLEAN
    BY <2>1
  <2> QED BY <2>1, <2>2, <2>3, <2>4
<1>11. CASE Reopen
  <2>1. /\ mode' = mode /\ live' = live /\ lines' = Cardinality(Stored(live))
        /\ werr' = FALSE /\ stale' = FALSE /\ pc' = "idle"
    BY <1>11, LiveCount DEF Reopen, Memory, End
  <2>2. Cardinality(Stored(live)) \in Nat
    BY StoredFinite
  <2>3. Cardinality(Stored(live)) <= MaxLines
    BY <2>2
  <2>4. werr' \in BOOLEAN /\ stale' \in BOOLEAN
    BY <2>1
  <2>5. lines' \in Nat /\ lines' <= MaxLines /\ Cardinality(Stored(live')) <= lines'
    BY <2>1, <2>2, <2>3
  <2> QED BY <2>1, <2>4, <2>5
<1>12. CASE Open
  <2>1. CASE UNCHANGED <<live, lines, writer>> /\ mode' = "corrupt" /\ UNCHANGED operation
    BY <2>1 DEF writer, operation
  <2>2. CASE Memory("open", Replay(file), Len(file)) /\ UNCHANGED operation
    <3>1. file \in Seq(Item)
      BY SeqTypes DEF DiskOK, Clean
    <3>2. Replay(file) \in [Id -> 0..MaxTime] /\ Cardinality(Stored(Replay(file))) <= Len(file)
      BY <3>1, ReplayType, StoredReplayed
    <3>3. Len(file) <= MaxLines
      BY DEF DiskOK
    <3>4. pc' # "append"
      BY <1>12, <2>2 DEF Open, Placed, operation
    <3> QED BY <2>2, <3>2, <3>3, <3>4 DEF Memory
  <2> QED BY <1>12, <2>1, <2>2 DEF Open
<1>13. CASE Kill
  <2>1. /\ mode' = "down" /\ live' = Nothing /\ lines' = 0
        /\ werr' = FALSE /\ stale' = FALSE /\ pc' = "idle"
    BY <1>13 DEF Kill, Forget, End, Memory
  <2>2. 0 \in Nat /\ 0 <= MaxLines /\ 0 <= 0
    OBVIOUS
  <2>3. Cardinality(Stored(live')) = 0 /\ live' \in [Id -> 0..MaxTime]
    BY <2>1, NothingStored
  <2>4. werr' \in BOOLEAN /\ stale' \in BOOLEAN
    BY <2>1
  <2> QED BY <2>1, <2>2, <2>3, <2>4
<1>14. CASE PowerLoss
  <2>1. /\ mode' = "down" /\ live' = Nothing /\ lines' = 0
        /\ werr' = FALSE /\ stale' = FALSE /\ pc' = "idle"
    BY <1>14 DEF PowerLoss, Forget, End, Memory
  <2>2. 0 \in Nat /\ 0 <= MaxLines /\ 0 <= 0
    OBVIOUS
  <2>3. Cardinality(Stored(live')) = 0 /\ live' \in [Id -> 0..MaxTime]
    BY <2>1, NothingStored
  <2>4. werr' \in BOOLEAN /\ stale' \in BOOLEAN
    BY <2>1
  <2> QED BY <2>1, <2>2, <2>3, <2>4
<1>15. CASE \/ PutHandled \/ PurgeHandled \/ Flush \/ Sync \/ Close \/ Compact \/ CompactClosed
           \/ Rewrite \/ RewriteFails \/ SyncDir \/ ReopenFails \/ Tick \/ UNCHANGED vars
  <2>1. UNCHANGED <<mode, live, lines, stale, werr>> \/ (UNCHANGED <<mode, live, lines, werr>> /\ stale' = TRUE)
    BY <1>15 DEF PutHandled, PurgeHandled, Flush, Sync, Close, Compact, CompactClosed, Rewrite,
       RewriteFails, SyncDir, ReopenFails, Tick, vars, memory, writer
  <2>2. pc' = "append" => pc = "append" /\ todo' = todo
    BY <1>15 DEF PutHandled, PurgeHandled, PurgeReturns, Flush, Sync, Close, Compact, CompactClosed,
       Rewrite, RewriteFails, SyncDir, ReopenFails, Tick, vars, operation, Start, Goto, End,
       OperationOK, Placed
  <2> QED BY <2>1, <2>2
<1> QED
  BY <1>1, <1>2, <1>3, <1>4, <1>5, <1>6, <1>7, <1>8, <1>9, <1>10, <1>11, <1>12, <1>13, <1>14,
     <1>15 DEF Next

\* An operation is where its kind says, and no more calls of Purge wait to
\* compact than may.
LEMMA StepOperation == IInv /\ [Next]_vars => OperationOK'
<1> SUFFICES ASSUME IInv, [Next]_vars PROVE OperationOK'
  OBVIOUS
<1> USE DEF IInv, OperationOK
<1>0. /\ <<>> \in Seq(Id) /\ MaxTime \in Nat /\ MaxTime >= 1 /\ MaxPending \in Nat
      /\ {} \subseteq Id
  BY EmptySeq, BoundsAssumption
<1> USE <1>0
<1>1. ASSUME NEW ids \in SUBSET Id \ {{}}, NEW seq \in SetToSeqs(ids), Put(seq) PROVE OperationOK'
  <2>1. seq \in Seq(Id) /\ ids \subseteq Id
    <3>1. IsFiniteSet(ids)
      BY IdAssumption, FS_Subset
    <3>2. seq \in Seq(ids)
      BY <3>1, SeqsOfSet
    <3> QED BY <3>2
  <2>2. ToSet(seq) \subseteq Id
    BY <2>1 DEF ToSet
  <2> QED BY <1>1, <2>1, <2>2 DEF Put, Start, history
<1>2. CASE PutSkips
  <2>1. todo' \in Seq(Id)
    BY <1>2, HeadTailProperties DEF PutSkips
  <2> QED BY <1>2, <2>1 DEF PutSkips, history
<1>3. CASE PutAppends
  <2>1. todo' \in Seq(Id) /\ Head(todo) \in Id /\ now \in 0..MaxTime
    BY <1>3, HeadTailProperties DEF PutAppends
  <2>2. possible' = [possible EXCEPT ![Head(todo)] = @ \cup {now}]
    BY <1>3 DEF PutAppends, AppendRecord
  <2>3. possible' \in [Id -> SUBSET (0..MaxTime)]
    BY <2>1, <2>2
  <2> QED BY <1>3, <2>1, <2>3 DEF PutAppends
<1>4. CASE PutGivesUp
  BY <1>4 DEF PutGivesUp, End, Goto, history
<1>5. CASE PutHandled
  BY <1>5 DEF PutHandled, End, Goto, history
<1>6. ASSUME NEW cutoff \in 2..MaxTime + 1, Purge(cutoff) PROVE OperationOK'
  <2> DEFINE old == {i \in Id : live[i] # 0 /\ live[i] < cutoff}
  <2>1. PICK seq \in SetToSeqs(old) : Start("purge", "append", old, seq)
    BY <1>6 DEF Purge
  <2>2. seq \in Seq(Id) /\ old \subseteq Id
    <3>1. IsFiniteSet(old) /\ old \subseteq Id
      BY IdAssumption, FS_Subset
    <3> HIDE DEF old
    <3>2. seq \in Seq(old)
      BY <3>1, SeqsOfSet
    <3> QED BY <3>1, <3>2
  <2> HIDE DEF old
  <2>3. pending < MaxPending /\ UNCHANGED <<pending, now, possible, told>>
    BY <1>6 DEF Purge, history
  <2> QED BY <2>1, <2>2, <2>3 DEF Start
<1>7. CASE PurgeAppends
  <2>1. todo' \in Seq(Id) /\ Head(todo) \in Id /\ 0 \in 0..MaxTime
    BY <1>7, HeadTailProperties DEF PurgeAppends
  <2>2. possible' = [possible EXCEPT ![Head(todo)] = @ \cup {0}]
    BY <1>7 DEF PurgeAppends, AppendRecord
  <2>3. possible' \in [Id -> SUBSET (0..MaxTime)]
    BY <2>1, <2>2
  <2> QED BY <1>7, <2>1, <2>3 DEF PurgeAppends
<1>8. CASE PurgeBreaks
  BY <1>8 DEF PurgeBreaks, End, Goto, history
<1>9. CASE PurgeHandled
  <2>1. pending' \in 0..MaxPending /\ (kind' = "purge" => pending' < MaxPending)
    <3>1. pending' \in {pending, pending + 1} /\ pending < MaxPending
      BY <1>9 DEF PurgeHandled, PurgeReturns
    <3>2. kind' = "purge" => pending' = pending
      BY <1>9 DEF PurgeHandled, PurgeReturns, Goto, End
    <3> QED BY <3>1, <3>2
  <2> QED BY <1>9, <2>1 DEF PurgeHandled, PurgeReturns, Goto, End, history
<1>10. CASE Flush
  BY <1>10 DEF Flush, End, Goto, history
<1>11. CASE Sync
  <2>1. possible' \in [Id -> SUBSET (0..MaxTime)]
    BY <1>11 DEF Sync, MemoryOK
  <2>2. kind \in {"put", "purge", "compact"}
    BY <1>11 DEF Sync, Placed
  <2>3. CASE kind = "put"
    BY <1>11, <2>1, <2>3 DEF Sync, End
  <2>4. CASE kind = "purge"
    <3>1. pending' \in {pending, pending + 1} /\ pending < MaxPending
      BY <1>11, <2>4 DEF Sync, PurgeReturns
    <3>2. pending' \in 0..MaxPending
      BY <3>1
    <3> QED BY <1>11, <2>1, <2>4, <3>2 DEF Sync, PurgeReturns, End
  <2>5. CASE kind = "compact"
    BY <1>11, <2>1, <2>5 DEF Sync, Goto
  <2> QED BY <2>2, <2>3, <2>4, <2>5
<1>12. CASE FlushFails
  BY <1>12 DEF FlushFails, End, history
<1>13. CASE Close
  BY <1>13 DEF Close, Start, history
<1>14. CASE CloseSynced
  <2>1. possible' \in [Id -> SUBSET (0..MaxTime)]
    BY <1>14 DEF CloseSynced, MemoryOK
  <2> QED BY <1>14, <2>1 DEF CloseSynced, End
<1>15. CASE CloseFails
  BY <1>15 DEF CloseFails, End, history
<1>16. CASE Compact
  <2>1. pending' \in 0..MaxPending
    <3>1. pending' = pending \/ (pending > 0 /\ pending' = pending - 1)
      BY <1>16 DEF Compact
    <3> QED BY <3>1
  <2> QED BY <1>16, <2>1 DEF Compact, Start, history
<1>17. CASE CompactClosed
  BY <1>17 DEF CompactClosed, operation, history, Placed
<1>18. CASE Rewrite
  BY <1>18 DEF Rewrite, Goto, history
<1>19. CASE RewriteFails
  BY <1>19 DEF RewriteFails, End, history
<1>20. CASE SyncDir
  BY <1>20 DEF SyncDir, Goto, history
<1>21. CASE Reopen
  BY <1>21 DEF Reopen, End, history
<1>22. CASE ReopenFails
  BY <1>22 DEF ReopenFails, End, history
<1>23. CASE Open
  BY <1>23 DEF Open, operation, history
<1>24. CASE Kill
  <2>1. pending' = 0 /\ 0 \in 0..MaxPending
    BY <1>24 DEF Kill, Forget
  <2> QED BY <1>24, <2>1 DEF Kill, Forget, End, history
<1>25. CASE PowerLoss
  <2>1. file' \in Seq(Item)
    BY StepDisk, SeqTypes DEF DiskOK, Clean
  <2>2. Replay(file') \in [Id -> 0..MaxTime]
    BY <2>1, ReplayType
  <2>3. possible' \in [Id -> SUBSET (0..MaxTime)]
    BY <1>25, <2>2 DEF PowerLoss
  <2>4. pending' = 0 /\ 0 \in 0..MaxPending
    BY <1>25 DEF PowerLoss, Forget
  <2> QED BY <1>25, <2>3, <2>4 DEF PowerLoss, Forget, End
<1>26. CASE Tick
  BY <1>26 DEF Tick, operation, history
<1>27. CASE UNCHANGED vars
  BY <1>27 DEF vars, operation, history
<1> QED
  BY <1>1, <1>2, <1>3, <1>4, <1>5, <1>6, <1>7, <1>8, <1>9, <1>10, <1>11, <1>12, <1>13, <1>14,
     <1>15, <1>16, <1>17, <1>18, <1>19, <1>20, <1>21, <1>22, <1>23, <1>24, <1>25, <1>26, <1>27 DEF Next

\* The buffer is empty where the operation says it is.
LEMMA StepPlaced == IInv /\ [Next]_vars => Placed'
<1> SUFFICES ASSUME IInv, [Next]_vars PROVE Placed'
  OBVIOUS
<1> USE DEF IInv, Placed
<1>1. ASSUME NEW ids \in SUBSET Id \ {{}}, NEW seq \in SetToSeqs(ids), Put(seq) PROVE Placed'
  BY <1>1 DEF Put, Start, memory, writer
<1>2. CASE PutSkips
  BY <1>2 DEF PutSkips, memory, writer
<1>3. CASE PutAppends
  BY <1>3 DEF PutAppends, AppendRecord
<1>4. CASE PutGivesUp
  BY <1>4 DEF PutGivesUp, AppendFails, WriteFails, End, memory, writer
<1>5. CASE PutHandled
  BY <1>5 DEF PutHandled, Goto, End, memory, writer
<1>6. ASSUME NEW cutoff \in 2..MaxTime + 1, Purge(cutoff) PROVE Placed'
  <2>1. pc' = "append" /\ kind' = "purge" /\ mode = "open"
    BY <1>6 DEF Purge, Start
  <2> QED BY <1>6, <2>1 DEF Purge, memory, writer
<1>7. CASE PurgeAppends
  BY <1>7 DEF PurgeAppends, AppendRecord
<1>8. CASE PurgeBreaks
  BY <1>8 DEF PurgeBreaks, AppendFails, WriteFails, Goto, End, memory, writer
<1>9. CASE PurgeHandled
  BY <1>9 DEF PurgeHandled, PurgeReturns, Goto, End, memory, writer
<1>10. CASE Flush
  BY <1>10 DEF Flush, Goto
<1>11. CASE Sync
  <2>1. kind \in {"put", "purge", "compact"}
    BY <1>11 DEF Sync, OperationOK
  <2>2. UNCHANGED <<mode, buf, werr>> /\ mode = "open" /\ buf = <<>> /\ ~werr
    BY <1>11 DEF Sync, memory, writer
  <2> QED BY <1>11, <2>1, <2>2 DEF Sync, PurgeReturns, Goto, End
<1>12. CASE FlushFails
  <2>1. pc' = "idle" /\ kind' = "none" /\ UNCHANGED mode /\ mode = "open"
    BY <1>12 DEF FlushFails, AppendFails, WriteFails, End, memory, writer
  <2> QED BY <2>1
<1>13. CASE Close
  BY <1>13 DEF Close, Start, memory, writer
<1>14. CASE CloseSynced
  BY <1>14 DEF CloseSynced, Memory, End
<1>15. CASE CloseFails
  BY <1>15 DEF CloseFails, Memory, End
<1>16. CASE Compact
  BY <1>16 DEF Compact, Start, memory, writer
<1>17. CASE CompactClosed
  BY <1>17 DEF CompactClosed, operation, memory, writer
<1>18. CASE Rewrite
  BY <1>18 DEF Rewrite, Goto
<1>19. CASE RewriteFails
  BY <1>19 DEF RewriteFails, End, memory, writer
<1>20. CASE SyncDir
  BY <1>20 DEF SyncDir, Goto, memory, writer
<1>21. CASE Reopen
  BY <1>21 DEF Reopen, Memory, End
<1>22. CASE ReopenFails
  BY <1>22 DEF ReopenFails, End, memory, writer
<1>23. CASE Open
  BY <1>23 DEF Open, Memory, operation, writer
<1>24. CASE Kill
  BY <1>24 DEF Kill, Forget, Memory, End
<1>25. CASE PowerLoss
  BY <1>25 DEF PowerLoss, Forget, Memory, End
<1>26. CASE Tick
  BY <1>26 DEF Tick, operation, memory, writer
<1>27. CASE UNCHANGED vars
  BY <1>27 DEF vars, operation, memory, writer
<1> QED
  BY <1>1, <1>2, <1>3, <1>4, <1>5, <1>6, <1>7, <1>8, <1>9, <1>10, <1>11, <1>12, <1>13, <1>14,
     <1>15, <1>16, <1>17, <1>18, <1>19, <1>20, <1>21, <1>22, <1>23, <1>24, <1>25, <1>26, <1>27 DEF Next

\* Compaction writes what the index holds, and nothing touches it until the
\* new file is in use.
LEMMA StepCompacting == IInv /\ [Next]_vars => Compacting'
<1> SUFFICES ASSUME IInv, [Next]_vars PROVE Compacting'
  OBVIOUS
<1> USE DEF IInv, Compacting
<1>1. CASE Rewrite
  <2>1. PICK recs \in SetToSeqs(LiveRecords) : file' = AsLines(recs) /\ synced' = Len(recs)
    BY <1>1 DEF Rewrite
  <2>2. recs \in Seq(Record) /\ Len(recs) = Cardinality(Stored(live)) /\ Replay(recs) = live
    BY Compacted DEF MemoryOK
  <2>3. /\ AsLines(recs) \in Seq(Line) /\ Len(AsLines(recs)) = Len(recs)
        /\ Unglued(AsLines(recs)) /\ Recs(AsLines(recs)) = recs
    BY <2>2, AsLinesType
  <2>4. Replay(AsLines(recs)) = Replay(recs)
    <3> DEFINE a == AsLines(recs)
    <3>1. a \in Seq(Item) /\ Recs(a) = recs
      BY <2>3, SeqTypes
    <3> HIDE DEF a
    <3>2. Replay(Recs(a)) = Replay(a)
      BY <3>1, RecsType
    <3> QED BY <3>1, <3>2 DEF a
  <2>5. stale' = TRUE /\ tail' = "clean" /\ live' = live
    BY <1>1 DEF Rewrite
  <2>6. Unglued(file') /\ synced' = Len(file') /\ Replay(file') = live /\ Len(file') = Cardinality(Stored(live))
    BY <2>1, <2>2, <2>3, <2>4
  <2> QED BY <2>5, <2>6 DEF Unglued
<1>2. CASE SyncDir
  BY <1>2 DEF SyncDir, memory, writer, Unglued
<1>3. ASSUME pc' \notin {"syncdir", "reopen"} PROVE Compacting'
  BY <1>3
<1>4. CASE UNCHANGED vars
  BY <1>4 DEF vars, disk, memory, writer, operation, Unglued
<1>5. CASE Close \/ Compact
  <2>1. pc' = "flush"
    BY <1>5 DEF Close, Compact, Start
  <2> QED BY <1>3, <2>1
<1>10. ASSUME NEW ids \in SUBSET Id \ {{}}, NEW seq \in SetToSeqs(ids), Put(seq) PROVE Compacting'
  <2>1. pc' = "append"
    BY <1>10 DEF Put, Start
  <2> QED BY <1>3, <2>1
<1>11. ASSUME NEW cutoff \in 2..MaxTime + 1, Purge(cutoff) PROVE Compacting'
  <2>1. pc' = "append"
    BY <1>11 DEF Purge, Start
  <2> QED BY <1>3, <2>1
<1>6. CASE PutSkips \/ PutAppends \/ PutGivesUp \/ PutHandled \/ PurgeAppends \/ PurgeBreaks \/ PurgeHandled
  <2>1. pc' \in {"idle", "append", "flush"}
    BY <1>6 DEF PutSkips, PutAppends, PutGivesUp, PutHandled, PurgeAppends, PurgeBreaks,
       PurgeHandled, PurgeReturns, Goto, End
  <2> QED BY <1>3, <2>1
<1>7. CASE Flush \/ Sync \/ FlushFails \/ CloseSynced \/ CloseFails
  <2>1. pc' \in {"idle", "sync", "rewrite"}
    BY <1>7 DEF Flush, Sync, FlushFails, CloseSynced, CloseFails, PurgeReturns, Goto, End,
       OperationOK, Placed
  <2> QED BY <1>3, <2>1
<1>8. CASE RewriteFails \/ Reopen \/ ReopenFails \/ Kill \/ PowerLoss
  <2>1. pc' = "idle"
    BY <1>8 DEF RewriteFails, Reopen, ReopenFails, Kill, PowerLoss, Forget, End
  <2> QED BY <1>3, <2>1
<1>9. CASE CompactClosed \/ Open \/ Tick
  <2>1. pc' = "idle"
    BY <1>9 DEF CompactClosed, Open, Tick, operation, Placed
  <2> QED BY <1>3, <2>1
<1> QED
  BY <1>1, <1>2, <1>4, <1>5, <1>6, <1>7, <1>8, <1>9, <1>10, <1>11 DEF Next

LEMMA InitIInv == Init => IInv
<1> SUFFICES ASSUME Init PROVE IInv
  OBVIOUS
<1> USE DEF Init
<1>1. <<>> \in Seq(Line) /\ <<>> \in Seq(Record) /\ <<>> \in Seq(Id) /\ Len(<<>>) = 0
  BY EmptySeq
<1>2. DiskOK
  BY <1>1, BoundsAssumption DEF DiskOK, Clean
<1>3. MemoryOK
  <2>1. live \in [Id -> 0..MaxTime] /\ Cardinality(Stored(live)) = 0
    BY NothingStored
  <2>2. lines = 0 /\ 0 \in Nat /\ 0 <= MaxLines /\ 0 <= 0 /\ pc # "append"
    BY BoundsAssumption
  <2>3. mode = "down" /\ werr = FALSE /\ stale = FALSE
    OBVIOUS
  <2> HIDE DEF Init
  <2> QED BY <2>1, <2>2, <2>3 DEF MemoryOK
<1>4. OperationOK
  <2>1. possible \in [Id -> SUBSET (0..MaxTime)] /\ 1 \in 1..MaxTime /\ 0 \in 0..MaxPending
    BY BoundsAssumption
  <2> QED BY <1>1, <2>1 DEF OperationOK
<1>5. Placed /\ Compacting
  BY DEF Placed, Compacting
<1> QED BY <1>2, <1>3, <1>4, <1>5 DEF IInv

LEMMA StepIInv == IInv /\ [Next]_vars => IInv'
BY StepDisk, StepMemory, StepOperation, StepPlaced, StepCompacting DEF IInv

\* The inductive invariant, whatever goes wrong.
THEOREM Invariance == Spec => []IInv
<1>1. Init => IInv
  BY InitIInv
<1>2. IInv /\ [Next]_vars => IInv'
  BY StepIInv
<1> QED BY <1>1, <1>2, PTL DEF Spec

\* The store stays within its types and bounds (store.go, compact.go): after
\* any error, any crash and any order of calls.
THEOREM TypeCorrect == Spec => []TypeOK
<1>1. IInv => TypeOK
  BY DEF IInv, DiskOK, Clean, MemoryOK, OperationOK, TypeOK
<1> QED BY <1>1, Invariance, PTL

\* A compaction that succeeds leaves a log that opens, is synced and holds what
\* the store shows, whatever was wrong with the log before (compact.go:37-90).
THEOREM Mends == Spec => CompactionMends
<1> DEFINE Mended ==
      pc = "reopen" /\ pc' = "idle" /\ mode' = "open" /\ ~stale' =>
        /\ \A k \in DOMAIN file' : ~file'[k].glued
        /\ tail' = "clean" /\ synced' = Len(file')
        /\ Replay(file') = live'
        /\ buf' = <<>> /\ lines' = Len(file')
<1>1. IInv /\ [Next]_vars => [Mended]_vars
  <2> SUFFICES ASSUME IInv, Next, pc = "reopen", pc' = "idle", mode' = "open", ~stale'
              PROVE  Mended
    BY DEF Mended
  <2> USE DEF IInv
  <2>1. /\ stale /\ Unglued(file) /\ tail = "clean" /\ synced = Len(file)
        /\ Replay(file) = live /\ Len(file) = Cardinality(Stored(live))
    BY DEF Compacting
  <2>2. mode = "open" /\ kind = "compact"
    BY DEF Placed
  <2>3. CASE Reopen
    <3>1. /\ UNCHANGED <<file, tail, synced, live>> /\ buf' = <<>>
          /\ lines' = Cardinality(LiveRecords)
      BY <2>3 DEF Reopen, Memory, disk
    <3>2. lines' = Len(file')
      BY <2>1, <3>1, LiveCount DEF MemoryOK
    <3> QED BY <2>1, <3>1, <3>2 DEF Unglued
  <2>4. CASE ReopenFails
    BY <2>1, <2>4 DEF ReopenFails, memory, writer
  <2>5. CASE Kill \/ PowerLoss
    BY <2>5 DEF Kill, PowerLoss, Forget, Memory
  <2>6. CASE FlushFails \/ CompactClosed \/ Open
    BY <2>2, <2>6 DEF FlushFails, CompactClosed, Open
  <2>7. CASE Tick
    BY <2>7 DEF Tick
  <2> QED
    BY <2>2, <2>3, <2>4, <2>5, <2>6, <2>7 DEF Next, Put, PutSkips, PutAppends, PutGivesUp, PutHandled,
       Purge, PurgeAppends, PurgeBreaks, PurgeHandled, Flush, Sync, Close, CloseSynced, CloseFails,
       Compact, Rewrite, RewriteFails, SyncDir, Start
<1> QED
  BY <1>1, Invariance, PTL DEF Spec, CompactionMends

-----------------------------------------------------------------------------
(***************************************************************************)
(* What an operation does to the log, if a cut never takes just the newline*)
(* of a line.                                                              *)
(***************************************************************************)
\* What the file and the buffered writer hold together.
Log == Recs(file) \o buf

LEMMA LogType ==
  ASSUME Clean
  PROVE  /\ Log \in Seq(Record) /\ Len(Log) = Len(file) + Len(buf)
         /\ Recs(file) \in Seq(Record) /\ Len(Recs(file)) = Len(file)
         /\ Recs(file) = SubSeq(Log, 1, Len(file))
<1> USE DEF Clean
<1>1. Recs(file) \in Seq(Record) /\ Len(Recs(file)) = Len(file) /\ Len(file) \in Nat
  BY SeqTypes, RecsType
<1> DEFINE r == Recs(file)
<1> HIDE DEF r
<1>2. r \o buf \in Seq(Record) /\ Len(r \o buf) = Len(r) + Len(buf)
  BY <1>1, ConcatProperties DEF r
<1>3. SubSeq(r \o buf, 1, Len(r)) = SubSeq(r, 1, Len(r))
  <2>1. Len(r) \in 0..Len(r)
    BY <1>1 DEF r
  <2> QED BY <1>1, <2>1, PrefixIsPrefix DEF r
<1>4. SubSeq(r, 1, Len(r)) = r
  BY <1>1, SubSeqFull DEF r
<1> QED BY <1>1, <1>2, <1>3, <1>4 DEF Log, r

\* A file cut between two lines holds the beginning of the log.
LEMMA CutLog ==
  ASSUME Clean, NEW k \in 0..Len(file)
  PROVE  /\ Recs(SubSeq(file, 1, k)) = SubSeq(Log, 1, k)
         /\ Len(SubSeq(file, 1, k)) = k
         /\ Unglued(file) => Unglued(SubSeq(file, 1, k))
<1>1. SubSeq(file, 1, k) \in Seq(Line) /\ Len(SubSeq(file, 1, k)) = k /\ \A l \in 1..k : SubSeq(file, 1, k)[l] = file[l]
  BY PrefixProperties DEF Clean
<1>2. Recs(SubSeq(file, 1, k)) = SubSeq(Recs(file), 1, k)
  BY SeqTypes, RecsPrefix DEF Clean
<1>3. SubSeq(Log, 1, k) = SubSeq(Recs(file), 1, k)
  <2>1. k \in 0..Len(Recs(file)) /\ Recs(file) \in Seq(Record)
    BY LogType
  <2> QED BY <2>1, PrefixIsPrefix DEF Log, Clean
<1>4. Unglued(file) => Unglued(SubSeq(file, 1, k))
  <2> DEFINE p == SubSeq(file, 1, k)
  <2>1. p \in Seq(Line) /\ Len(p) = k /\ \A l \in 1..k : p[l] = file[l]
    BY <1>1
  <2> HIDE DEF p
  <2>2. Unglued(file) => Unglued(p)
    <3>1. DOMAIN p = 1..k /\ DOMAIN file = 1..Len(file)
      BY <2>1 DEF Clean
    <3> QED BY <2>1, <3>1 DEF Unglued
  <2> QED BY <2>2 DEF p
<1> QED BY <1>1, <1>2, <1>3, <1>4

\* A file extended by a part of the buffer holds the beginning of the log.
LEMMA ExtendLog ==
  ASSUME Clean, tail = "clean", NEW k \in 0..Len(buf)
  PROVE  /\ Extended(SubSeq(buf, 1, k)) \in Seq(Line)
         /\ Recs(Extended(SubSeq(buf, 1, k))) = SubSeq(Log, 1, Len(file) + k)
         /\ Len(Extended(SubSeq(buf, 1, k))) = Len(file) + k
         /\ Unglued(file) => Unglued(Extended(SubSeq(buf, 1, k)))
<1> DEFINE p == SubSeq(buf, 1, k)
<1>1. p \in Seq(Record) /\ Len(p) = k
  BY PrefixProperties DEF Clean
<1>2. Recs(file) \in Seq(Record) /\ Len(Recs(file)) = Len(file)
  BY LogType
<1>3. Recs(file) \o p = SubSeq(Recs(file) \o buf, 1, Len(Recs(file)) + k)
  BY <1>2, PrefixOfConcat DEF Clean
<1> HIDE DEF p
<1>4. /\ Extended(p) \in Seq(Line) /\ Len(Extended(p)) = Len(file) + Len(p)
      /\ Recs(Extended(p)) = Recs(file) \o p
      /\ Unglued(file) => Unglued(Extended(p))
  BY <1>1, ExtendedClean DEF Clean
<1> QED BY <1>1, <1>2, <1>3, <1>4 DEF Log, p

LEMMA WriteOutLog ==
  ASSUME Clean, tail = "clean", ~stale, WriteOut(buf)
  PROVE  /\ Recs(file') = Log /\ Len(file') = Len(Log) /\ tail' = "clean"
         /\ Unglued(file) => Unglued(file')
<1>1. SubSeq(buf, 1, Len(buf)) = buf /\ Len(buf) \in 0..Len(buf)
  BY SubSeqFull, LenProperties DEF Clean
<1>2. SubSeq(Log, 1, Len(file) + Len(buf)) = Log /\ Len(Log) = Len(file) + Len(buf)
  BY LogType, SubSeqFull
<1>3. file' = Extended(buf) /\ tail' = "clean"
  BY DEF WriteOut
<1>4. /\ Recs(Extended(buf)) = SubSeq(Log, 1, Len(file) + Len(buf))
      /\ Len(Extended(buf)) = Len(file) + Len(buf)
      /\ Unglued(file) => Unglued(Extended(buf))
  BY <1>1, ExtendLog
<1> QED BY <1>2, <1>3, <1>4

LEMMA BreakOffLog ==
  ASSUME Clean, tail = "clean", ~stale, NEW k \in 0..Len(buf)-1, BreakOff(k)
  PROVE  /\ Recs(file') = SubSeq(Log, 1, Len(file) + k) /\ Len(file') = Len(file) + k
         /\ tail' = "torn" /\ file' \in Seq(Line)
         /\ Unglued(file) => Unglued(file')
<1>1. k \in 0..Len(buf)
  BY LenProperties DEF Clean
<1>2. file' = Extended(SubSeq(buf, 1, k)) /\ tail' = "torn"
  BY DEF BreakOff
<1> QED BY <1>1, <1>2, ExtendLog

LEMMA AppendRecordLog ==
  ASSUME Clean, tail = "clean", ~stale, NEW i \in Id, NEW t \in 0..MaxTime, AppendRecord(i, t)
  PROVE  /\ Log' = Append(Log, [id |-> i, t |-> t]) /\ tail' = "clean"
         /\ file' = file \/ Recs(file') = Log
         /\ Unglued(file) => Unglued(file')
<1> DEFINE r == [id |-> i, t |-> t]
<1>1. r \in Record
  BY DEF Record
<1> HIDE DEF r
<1>2. Log \in Seq(Record) /\ Append(Log, r) = Log \o <<r>>
  BY <1>1, LogType, AppendIsConcat
<1>3. CASE buf' = Append(buf, r) /\ UNCHANGED <<file, tail>>
  <2>1. Append(buf, r) = buf \o <<r>> /\ <<r>> \in Seq(Record)
    BY <1>1, AppendIsConcat DEF Clean
  <2>2. (Recs(file) \o buf) \o <<r>> = Recs(file) \o (buf \o <<r>>)
    <3> DEFINE q == <<r>>
               f == Recs(file)
               b == buf
    <3>1. q \in Seq(Record) /\ f \in Seq(Record) /\ b \in Seq(Record)
      BY <2>1, LogType DEF Clean
    <3> HIDE DEF q, f, b
    <3>2. (f \o b) \o q = f \o (b \o q)
      BY <3>1, ConcatAssociative
    <3> QED BY <3>2 DEF q, f, b
  <2>3. Log' = Recs(file) \o Append(buf, r)
    BY <1>3 DEF Log
  <2> QED BY <1>2, <1>3, <2>1, <2>2, <2>3 DEF Log, r
<1>4. CASE buf # <<>> /\ WriteOut(buf) /\ buf' = <<r>>
  <2>1. Recs(file') = Log /\ tail' = "clean" /\ (Unglued(file) => Unglued(file'))
    BY <1>4, WriteOutLog
  <2>2. Log' = Log \o <<r>>
    BY <1>4, <2>1 DEF Log
  <2> QED BY <1>2, <2>1, <2>2 DEF r
<1> QED BY <1>3, <1>4 DEF AppendRecord, r

LEMMA WriteFailsLog ==
  ASSUME Clean, tail = "clean", ~stale, WriteFails
  PROVE  /\ Log' = Log /\ tail' = "torn" /\ werr' = TRUE
         /\ Len(file') \in Len(file)..Len(Log) /\ Recs(file') = SubSeq(Log, 1, Len(file'))
         /\ Unglued(file) => Unglued(file')
<1>1. PICK k \in 0..Len(buf)-1 : buf' = SubSeq(buf, k + 1, Len(buf)) /\ BreakOff(k)
  BY DEF WriteFails
<1>2. k \in 0..Len(buf) /\ Len(buf) \in Nat /\ Len(file) \in Nat /\ Len(Log) = Len(file) + Len(buf)
  BY LogType, LenProperties DEF Clean
<1>3. /\ Recs(file') = SubSeq(Log, 1, Len(file) + k) /\ Len(file') = Len(file) + k
      /\ tail' = "torn" /\ (Unglued(file) => Unglued(file'))
  BY <1>1, BreakOffLog
<1>4. Len(file') \in Len(file)..Len(Log)
  BY <1>2, <1>3
<1>5. SubSeq(Log, 1, Len(file) + k) = Recs(file) \o SubSeq(buf, 1, k)
  BY <1>2, LogType, PrefixOfConcat DEF Log, Clean
<1>6. SubSeq(buf, 1, k) \o SubSeq(buf, k + 1, Len(buf)) = buf
  <2>1. 1 \in 1..Len(buf)+1 /\ k \in 1-1..Len(buf) /\ Len(buf) \in k..Len(buf)
    BY <1>2
  <2>2. SubSeq(buf, 1, k) \o SubSeq(buf, k + 1, Len(buf)) = SubSeq(buf, 1, Len(buf))
    BY <2>1, ConcatAdjacentSubSeq DEF Clean
  <2> QED BY <2>2, SubSeqFull DEF Clean
<1>7. Log' = Log
  <2> DEFINE a == SubSeq(buf, 1, k)
             b == SubSeq(buf, k + 1, Len(buf))
  <2>1. a \in Seq(Record)
    BY <1>2, PrefixProperties DEF Clean
  <2>2. b \in Seq(Record)
    <3>1. \A j \in k+1..Len(buf) : buf[j] \in Record
      BY <1>2 DEF Clean
    <3> QED BY <1>2, <3>1, SubSeqProperties DEF Clean
  <2> HIDE DEF a, b
  <2>3. (Recs(file) \o a) \o b = Recs(file) \o (a \o b)
    <3> DEFINE f == Recs(file)
    <3>1. f \in Seq(Record)
      BY LogType
    <3> HIDE DEF f
    <3>2. (f \o a) \o b = f \o (a \o b)
      BY <2>1, <2>2, <3>1, ConcatAssociative
    <3> QED BY <3>2 DEF f
  <2>4. Log' = (Recs(file) \o a) \o b
    BY <1>1, <1>3, <1>5 DEF Log, a, b
  <2> QED BY <1>6, <2>3, <2>4 DEF Log, a, b
<1> QED BY <1>3, <1>4, <1>7 DEF WriteFails

LEMMA MidWriteLog ==
  ASSUME "noeol" \notin Faults, Clean, tail = "clean", MidWrite
  PROVE  /\ Len(file') \in Len(file)..Len(Log) /\ Recs(file') = SubSeq(Log, 1, Len(file'))
         /\ tail' = "torn" /\ (Unglued(file) => Unglued(file'))
<1>1. PICK k \in 0..Len(buf)-1 : BreakOff(k)
  BY DEF MidWrite
<1>2. Len(buf) \in Nat /\ Len(file) \in Nat /\ Len(Log) = Len(file) + Len(buf)
  BY LogType, LenProperties DEF Clean
<1>3. /\ Recs(file') = SubSeq(Log, 1, Len(file) + k) /\ Len(file') = Len(file) + k
      /\ tail' = "torn" /\ (Unglued(file) => Unglued(file'))
  BY <1>1, BreakOffLog DEF MidWrite
<1> QED BY <1>2, <1>3

LEMMA CutAtLog ==
  ASSUME "noeol" \notin Faults, Clean, NEW k \in 0..Len(file), CutAt(k)
  PROVE  /\ Len(file') = k /\ Recs(file') = SubSeq(Log, 1, Len(file'))
         /\ tail' \in {tail, "clean", "torn"} /\ (Unglued(file) => Unglued(file'))
<1>1. file' = SubSeq(file, 1, k) /\ tail' \in {tail, "clean", "torn"}
  BY DEF CutAt
<1> QED BY <1>1, CutLog

-----------------------------------------------------------------------------
(***************************************************************************)
(* The log can be read: no line is run together with another, since a write*)
(* that breaks off leaves an error in the writer that nothing but a fresh  *)
(* start gets rid of, and a start cuts off what was left.                  *)
(***************************************************************************)
Readable ==
  /\ mode # "corrupt" /\ tail # "noeol"
  /\ Unglued(file) /\ \A s \in shadows : Unglued(s)
  /\ mode = "open" /\ tail = "torn" => werr

LEMMA ReadableTail ==
  ASSUME IInv, Readable, mode = "open", ~werr
  PROVE  tail = "clean"
BY DEF IInv, DiskOK, Readable

LEMMA AppendReadable ==
  ASSUME IInv, Readable, mode = "open", NEW i \in Id, NEW t \in 0..MaxTime, AppendRecord(i, t)
  PROVE  Readable'
<1>1. UNCHANGED <<shadows, mode, werr, stale>> /\ ~werr
  BY DEF AppendRecord
<1>2. tail = "clean" /\ Clean
  BY <1>1, ReadableTail DEF IInv, DiskOK
<1>3. CASE stale
  <2>1. UNCHANGED <<file, tail>>
    BY <1>3 DEF AppendRecord, WriteOut
  <2> QED BY <1>1, <2>1 DEF Readable
<1>4. CASE ~stale
  <2>1. tail' = "clean" /\ (Unglued(file) => Unglued(file'))
    BY <1>2, <1>4, AppendRecordLog
  <2> QED BY <1>1, <2>1 DEF Readable
<1> QED BY <1>3, <1>4

LEMMA FailReadable ==
  ASSUME IInv, Readable, mode = "open", AppendFails
  PROVE  Readable'
<1>1. CASE UNCHANGED <<disk, memory>>
  BY <1>1 DEF Readable, disk, memory, writer
<1>2. CASE WriteFails
  <2>1. UNCHANGED <<shadows, mode, stale>> /\ ~werr /\ werr' = TRUE
    BY <1>2 DEF WriteFails
  <2>2. tail = "clean" /\ Clean
    BY <2>1, ReadableTail DEF IInv, DiskOK
  <2>3. CASE stale
    <3>1. UNCHANGED <<file, tail>>
      BY <1>2, <2>3 DEF WriteFails, BreakOff
    <3> QED BY <2>1, <3>1 DEF Readable
  <2>4. CASE ~stale
    <3>1. tail' = "torn" /\ (Unglued(file) => Unglued(file'))
      BY <1>2, <2>2, <2>4, WriteFailsLog
    <3> QED BY <2>1, <3>1 DEF Readable
  <2> QED BY <2>3, <2>4
<1> QED BY <1>1, <1>2 DEF AppendFails

LEMMA StepReadable ==
  ASSUME "noeol" \notin Faults
  PROVE  IInv /\ Readable /\ [Next]_vars => Readable'
<1> SUFFICES ASSUME IInv, Readable, [Next]_vars PROVE Readable'
  OBVIOUS
<1>0. Clean /\ synced \in 0..Len(file) /\ Len(file) \in Nat /\ now \in 0..MaxTime /\ 0 \in 0..MaxTime
  BY LenProperties, BoundsAssumption DEF IInv, DiskOK, Clean, OperationOK
<1>1. ASSUME UNCHANGED <<file, tail, shadows, mode, werr>> PROVE Readable'
  BY <1>1 DEF Readable
<1>2. ASSUME mode' \in {"closed", "down"}, tail' # "noeol", Unglued(file'), shadows' \subseteq shadows
      PROVE  Readable'
  BY <1>2 DEF Readable
<1>3. CASE PutAppends
  <2>1. Head(todo) \in Id
    BY <1>3, HeadTailProperties DEF PutAppends, IInv, OperationOK
  <2>2. mode = "open"
    BY <1>3 DEF PutAppends, IInv, Placed
  <2> QED BY <1>0, <1>3, <2>1, <2>2, AppendReadable DEF PutAppends
<1>4. CASE PurgeAppends
  <2>1. Head(todo) \in Id
    BY <1>4, HeadTailProperties DEF PurgeAppends, IInv, OperationOK
  <2>2. mode = "open"
    BY <1>4 DEF PurgeAppends, IInv, Placed
  <2> QED BY <1>0, <1>4, <2>1, <2>2, AppendReadable DEF PurgeAppends
<1>5. CASE PutGivesUp \/ PurgeBreaks \/ FlushFails
  <2>1. mode = "open"
    BY <1>5 DEF PutGivesUp, PurgeBreaks, FlushFails, IInv, Placed
  <2>2. CASE AppendFails
    BY <2>1, <2>2, FailReadable
  <2>3. CASE UNCHANGED <<disk, memory>>
    BY <1>1, <2>3 DEF disk, memory, writer
  <2> QED BY <1>5, <2>2, <2>3 DEF PutGivesUp, PurgeBreaks, FlushFails
<1>6. CASE Flush
  <2>1. mode = "open" /\ UNCHANGED <<shadows, mode, werr>> /\ ~werr
    BY <1>6 DEF Flush, IInv, Placed
  <2>2. tail = "clean"
    BY <2>1, ReadableTail
  <2>3. CASE stale
    BY <1>1, <1>6, <2>1, <2>3 DEF Flush, WriteOut
  <2>4. CASE ~stale
    <3>1. tail' = "clean" /\ (Unglued(file) => Unglued(file'))
      BY <1>0, <1>6, <2>2, <2>4, WriteOutLog DEF Flush
    <3> QED BY <2>1, <3>1 DEF Readable
  <2> QED BY <2>3, <2>4
<1>7. CASE Sync
  <2>1. UNCHANGED <<file, tail, mode, werr>> /\ shadows' \subseteq shadows
    BY <1>7 DEF Sync, Synced, memory, writer
  <2> QED BY <2>1 DEF Readable
<1>8. CASE CloseSynced
  <2>1. UNCHANGED <<file, tail>> /\ shadows' \subseteq shadows /\ mode' = "closed"
    BY <1>8 DEF CloseSynced, Synced, Memory
  <2> QED BY <1>2, <2>1 DEF Readable
<1>9. CASE CloseFails
  <2>1. mode = "open" /\ mode' = "closed" /\ shadows' = shadows
    BY <1>9 DEF CloseFails, Memory, IInv, Placed
  <2>2. CASE UNCHANGED <<file, tail>>
    BY <1>2, <2>1, <2>2 DEF Readable
  <2>3. ASSUME NEW k \in 0..Len(buf)-1, BreakOff(k), ~werr PROVE Readable'
    <3>1. CASE stale
      BY <2>2, <2>3, <3>1 DEF BreakOff
    <3>2. CASE ~stale
      <4>1. tail = "clean"
        BY <2>1, <2>3, ReadableTail
      <4>2. tail' = "torn" /\ (Unglued(file) => Unglued(file'))
        BY <1>0, <2>3, <3>2, <4>1, BreakOffLog
      <4> QED BY <1>2, <2>1, <4>2 DEF Readable
    <3> QED BY <3>1, <3>2
  <2> QED BY <1>9, <2>2, <2>3 DEF CloseFails
<1>10. CASE Rewrite
  <2>1. PICK recs \in SetToSeqs(LiveRecords) : file' = AsLines(recs)
    BY <1>10 DEF Rewrite
  <2>2. recs \in Seq(Record)
    BY Compacted DEF IInv, MemoryOK
  <2>3. Unglued(file')
    BY <2>1, <2>2, AsLinesType
  <2>4. tail' = "clean" /\ shadows' = shadows \cup {file} /\ mode' = mode
    BY <1>10 DEF Rewrite
  <2> QED BY <2>3, <2>4 DEF Readable
<1>11. CASE SyncDir
  <2>1. UNCHANGED <<file, tail, mode, werr>> /\ shadows' \subseteq shadows
    BY <1>11 DEF SyncDir, memory, writer
  <2> QED BY <2>1 DEF Readable
<1>12. CASE Reopen
  <2>1. tail = "clean"
    BY <1>12 DEF Reopen, IInv, Compacting
  <2>2. UNCHANGED <<file, tail, shadows, mode>>
    BY <1>12 DEF Reopen, Memory, disk
  <2> QED BY <2>1, <2>2 DEF Readable
<1>13. CASE Open
  <2>1. \A k \in DOMAIN file : ~file[k].glued
    BY DEF Readable, Unglued
  <2>2. mode' = "open" /\ tail' = (IF tail = "torn" THEN "clean" ELSE tail) /\ UNCHANGED <<file, shadows>>
    BY <1>13, <2>1 DEF Open, Memory
  <2> QED BY <2>2 DEF Readable
<1>14. CASE Kill
  <2>1. mode = "open" /\ mode' = "down" /\ shadows' = shadows
    BY <1>14 DEF Kill, Forget, Memory
  <2>2. CASE UNCHANGED <<file, tail>>
    BY <1>2, <2>1, <2>2 DEF Readable
  <2>3. CASE MidWrite
    <3>1. tail = "clean"
      BY <2>1, <2>3, ReadableTail DEF MidWrite
    <3>2. tail' = "torn" /\ (Unglued(file) => Unglued(file'))
      BY <1>0, <2>3, <3>1, MidWriteLog
    <3> QED BY <1>2, <2>1, <3>2 DEF Readable
  <2> QED BY <1>14, <2>2, <2>3 DEF Kill
<1>15. CASE PowerLoss
  <2>1. mode' = "down" /\ shadows' = {}
    BY <1>15 DEF PowerLoss, Forget, Memory
  <2>2. ASSUME NEW k \in synced..Len(file), CutAt(k) PROVE Readable'
    <3>1. k \in 0..Len(file)
      BY <1>0
    <3>2. tail' \in {tail, "clean", "torn"} /\ (Unglued(file) => Unglued(file'))
      BY <1>0, <2>2, <3>1, CutAtLog
    <3> QED BY <1>2, <2>1, <3>2 DEF Readable
  <2>3. CASE MidWrite
    <3>1. mode = "open"
      BY <2>3 DEF MidWrite, IInv, Placed
    <3>2. tail = "clean"
      BY <2>3, <3>1, ReadableTail DEF MidWrite
    <3>3. tail' = "torn" /\ (Unglued(file) => Unglued(file'))
      BY <1>0, <2>3, <3>2, MidWriteLog
    <3> QED BY <1>2, <2>1, <3>3 DEF Readable
  <2>4. CASE file' \in shadows /\ tail' = "clean"
    BY <1>2, <2>1, <2>4 DEF Readable
  <2> QED BY <1>15, <2>2, <2>3, <2>4 DEF PowerLoss
<1>16. ASSUME NEW ids \in SUBSET Id \ {{}}, NEW seq \in SetToSeqs(ids), Put(seq) PROVE Readable'
  BY <1>1, <1>16 DEF Put, disk, memory, writer
<1>17. ASSUME NEW cutoff \in 2..MaxTime + 1, Purge(cutoff) PROVE Readable'
  BY <1>1, <1>17 DEF Purge, disk, memory, writer
<1>18. CASE PutSkips \/ PutHandled \/ PurgeHandled \/ Close \/ Compact \/ CompactClosed
            \/ RewriteFails \/ ReopenFails \/ Tick \/ UNCHANGED vars
  BY <1>1, <1>18 DEF PutSkips, PutHandled, PurgeHandled, Close, Compact, CompactClosed,
     RewriteFails, ReopenFails, Tick, vars, disk, memory, writer
<1> QED
  BY <1>3, <1>4, <1>5, <1>6, <1>7, <1>8, <1>9, <1>10, <1>11, <1>12, <1>13, <1>14, <1>15, <1>16,
     <1>17, <1>18 DEF Next

\* Open reads the log after any crash (store.go:7-9, store.go:100), unless a cut
\* may take the newline of a record and leave the record, as the run
\* store_newline_corrupts shows.
THEOREM StaysReadable ==
  ASSUME "noeol" \notin Faults
  PROVE  Spec => []LogStaysReadable
<1>1. Init => Readable
  BY EmptySeq DEF Init, Readable, Unglued
<1>2. IInv /\ Readable /\ [Next]_vars => Readable'
  BY StepReadable
<1>3. Readable => LogStaysReadable
  BY DEF Readable, LogStaysReadable
<1> QED BY <1>1, <1>2, <1>3, Invariance, PTL DEF Spec

-----------------------------------------------------------------------------
(***************************************************************************)
(* The index follows the log: a step appends one record to both, or leaves *)
(* the log alone and moves some of it from the buffer to the file, or ends *)
(* the process with what the file has of it.                               *)
(***************************************************************************)
\* The file has more of the log than before.
Grown == Len(file') \in Len(file)..Len(Log) /\ Recs(file') = SubSeq(Log, 1, Len(file'))

Quits ==
  /\ mode' # "open" /\ shadows' \subseteq shadows
  /\ file' = file \/ (mode = "open" /\ ~stale /\ Grown)

Stays ==
  /\ mode = "open" /\ shadows' \subseteq shadows /\ UNCHANGED <<mode, live, lines, stale>>
  /\ IF stale THEN file' = file ELSE Log' = Log /\ (file' = file \/ Grown)

LEMMA FailStays ==
  ASSUME IInv, Readable, mode = "open", AppendFails
  PROVE  Stays
<1>1. CASE UNCHANGED <<disk, memory>>
  BY <1>1 DEF Stays, Log, disk, memory, writer
<1>2. CASE WriteFails
  <2>1. UNCHANGED <<shadows, mode, live, lines, stale>> /\ ~werr
    BY <1>2 DEF WriteFails
  <2>2. tail = "clean" /\ Clean
    BY <2>1, ReadableTail DEF IInv, DiskOK
  <2>3. CASE stale
    <3>1. file' = file
      BY <1>2, <2>3 DEF WriteFails, BreakOff
    <3> QED BY <2>1, <2>3, <3>1 DEF Stays
  <2>4. CASE ~stale
    <3>1. Log' = Log /\ Grown
      BY <1>2, <2>2, <2>4, WriteFailsLog DEF Grown
    <3> QED BY <2>1, <2>4, <3>1 DEF Stays
  <2> QED BY <2>3, <2>4
<1> QED BY <1>1, <1>2 DEF AppendFails

LEMMA LogStep ==
  ASSUME "noeol" \notin Faults
  PROVE  IInv /\ Readable /\ [Next]_vars =>
           \/ PutAppends \/ PurgeAppends \/ Rewrite \/ Open \/ Reopen \/ PowerLoss
           \/ Stays \/ Quits
<1> SUFFICES ASSUME IInv, Readable, [Next]_vars,
                    ~(PutAppends \/ PurgeAppends \/ Rewrite \/ Open \/ Reopen \/ PowerLoss)
             PROVE  Stays \/ Quits
  OBVIOUS
<1>0. Clean
  BY DEF IInv, DiskOK
<1>1. ASSUME UNCHANGED <<file, buf, mode, live, lines, stale>>, shadows' \subseteq shadows PROVE Stays \/ Quits
  <2>1. Log' = Log
    BY <1>1 DEF Log
  <2> QED BY <1>1, <2>1 DEF Stays, Quits
<1>2. CASE PutGivesUp \/ PurgeBreaks \/ FlushFails
  <2>1. mode = "open"
    BY <1>2 DEF PutGivesUp, PurgeBreaks, FlushFails, IInv, Placed
  <2>2. CASE AppendFails
    BY <2>1, <2>2, FailStays
  <2>3. CASE UNCHANGED <<disk, memory>>
    BY <1>1, <2>3 DEF disk, memory, writer
  <2> QED BY <1>2, <2>2, <2>3 DEF PutGivesUp, PurgeBreaks, FlushFails
<1>3. CASE Flush
  <2>1. mode = "open" /\ UNCHANGED <<shadows, mode, live, lines, stale>> /\ ~werr /\ buf' = <<>>
    BY <1>3 DEF Flush, IInv, Placed
  <2>2. tail = "clean"
    BY <2>1, ReadableTail
  <2>3. CASE stale
    <3>1. file' = file
      BY <1>3, <2>3 DEF Flush, WriteOut
    <3> QED BY <2>1, <2>3, <3>1 DEF Stays
  <2>4. CASE ~stale
    <3>1. Recs(file') = Log /\ Len(file') = Len(Log)
      BY <1>0, <1>3, <2>2, <2>4, WriteOutLog DEF Flush
    <3>2. Log \in Seq(Record) /\ Len(file) \in Nat /\ Len(buf) \in Nat /\ Len(Log) = Len(file) + Len(buf)
      BY <1>0, LogType, LenProperties DEF Clean
    <3>3. Log' = Log
      <4>1. Log' = Log \o <<>>
        BY <2>1, <3>1 DEF Log
      <4> DEFINE l == Log
      <4>2. l \in Seq(Record)
        BY <3>2
      <4> HIDE DEF l
      <4>3. l \o <<>> = l
        BY <4>2, ConcatEmptySeq
      <4> QED BY <4>1, <4>3 DEF l
    <3>4. SubSeq(Log, 1, Len(Log)) = Log
      BY <3>2, SubSeqFull
    <3>5. Grown
      BY <3>1, <3>2, <3>4 DEF Grown
    <3> QED BY <2>1, <2>4, <3>3, <3>5 DEF Stays
  <2> QED BY <2>3, <2>4
<1>4. CASE Sync \/ SyncDir
  <2>1. UNCHANGED <<file, buf, mode, live, lines, stale>> /\ shadows' \subseteq shadows
    BY <1>4 DEF Sync, Synced, SyncDir, memory, writer
  <2> QED BY <1>1, <2>1
<1>5. CASE CloseSynced
  BY <1>5 DEF CloseSynced, Synced, Memory, Quits
<1>6. CASE CloseFails
  <2>1. mode = "open" /\ mode' = "closed" /\ shadows' = shadows
    BY <1>6 DEF CloseFails, Memory, IInv, Placed
  <2>2. CASE file' = file
    BY <2>1, <2>2 DEF Quits
  <2>3. ASSUME NEW k \in 0..Len(buf)-1, BreakOff(k), ~werr, ~stale PROVE Quits
    <3>1. tail = "clean"
      BY <2>1, <2>3, ReadableTail
    <3>2. Recs(file') = SubSeq(Log, 1, Len(file) + k) /\ Len(file') = Len(file) + k
      BY <1>0, <2>3, <3>1, BreakOffLog
    <3>3. Grown
      <4>1. Len(Log) = Len(file) + Len(buf) /\ Len(file) \in Nat /\ Len(buf) \in Nat
        BY <1>0, LogType, LenProperties DEF Clean
      <4> QED BY <3>2, <4>1 DEF Grown
    <3> QED BY <2>1, <2>3, <3>3 DEF Quits
  <2>4. ASSUME NEW k \in 0..Len(buf)-1, BreakOff(k), stale PROVE file' = file
    BY <2>4 DEF BreakOff
  <2> QED BY <1>6, <2>2, <2>3, <2>4 DEF CloseFails
<1>7. CASE Kill
  <2>1. mode = "open" /\ mode' = "down" /\ shadows' = shadows
    BY <1>7 DEF Kill, Forget, Memory
  <2>2. CASE UNCHANGED <<file, tail>>
    BY <2>1, <2>2 DEF Quits
  <2>3. CASE MidWrite
    <3>1. tail = "clean" /\ ~stale
      BY <2>1, <2>3, ReadableTail DEF MidWrite
    <3>2. Grown
      BY <1>0, <2>3, <3>1, MidWriteLog DEF Grown
    <3> QED BY <2>1, <3>1, <3>2 DEF Quits
  <2> QED BY <1>7, <2>2, <2>3 DEF Kill
<1>8. ASSUME NEW ids \in SUBSET Id \ {{}}, NEW seq \in SetToSeqs(ids), Put(seq) PROVE Stays \/ Quits
  BY <1>1, <1>8 DEF Put, disk, memory, writer
<1>9. ASSUME NEW cutoff \in 2..MaxTime + 1, Purge(cutoff) PROVE Stays \/ Quits
  BY <1>1, <1>9 DEF Purge, disk, memory, writer
<1>10. CASE PutSkips \/ PutHandled \/ PurgeHandled \/ Close \/ Compact \/ CompactClosed
            \/ RewriteFails \/ ReopenFails \/ Tick \/ UNCHANGED vars
  BY <1>1, <1>10 DEF PutSkips, PutHandled, PurgeHandled, Close, Compact, CompactClosed,
     RewriteFails, ReopenFails, Tick, vars, disk, memory, writer
<1> QED
  BY <1>2, <1>3, <1>4, <1>5, <1>6, <1>7, <1>8, <1>9, <1>10 DEF Next

\* Every log there is holds records that change something.  Purge deletes each
\* entry once, and none that is gone.
Matched == live = Replay(Log) /\ lines = Len(Log) /\ Alternates(Log)

Indexed ==
  /\ mode = "open" /\ ~stale => Matched
  /\ Alternates(Recs(file)) /\ \A s \in shadows : Alternates(Recs(s))

PurgesOnce ==
  pc = "append" /\ kind = "purge" =>
    /\ \A k \in 1..Len(todo) : live[todo[k]] # 0
    /\ \A k, l \in 1..Len(todo) : todo[k] = todo[l] => k = l

LogInv == Readable /\ Indexed /\ PurgesOnce

\* Putting an entry that is not stored, or deleting one that is.
LEMMA AppendIndexed ==
  ASSUME IInv, Readable, Indexed, mode = "open", NEW i \in Id, NEW t \in 0..MaxTime,
         AppendRecord(i, t), t # 0 <=> live[i] = 0
  PROVE  Indexed'
<1>1. UNCHANGED <<shadows, mode, werr, stale>> /\ ~werr /\ live' = [live EXCEPT ![i] = t] /\ lines' = lines + 1
  BY DEF AppendRecord
<1>2. tail = "clean" /\ Clean
  BY <1>1, ReadableTail DEF IInv, DiskOK
<1>3. CASE stale
  <2>1. file' = file
    BY <1>3 DEF AppendRecord, WriteOut
  <2> QED BY <1>1, <1>3, <2>1 DEF Indexed
<1>4. CASE ~stale
  <2> DEFINE r == [id |-> i, t |-> t]
             l == Log
  <2>1. r \in Record /\ r.id = i /\ r.t = t
    BY DEF Record
  <2>2. Log' = Append(l, r) /\ (file' = file \/ Recs(file') = l)
    BY <1>2, <1>4, AppendRecordLog
  <2>3. l \in Seq(Record)
    BY <1>2, LogType
  <2>4. live = Replay(l) /\ lines = Len(l) /\ Alternates(l)
    BY <1>4 DEF Indexed, Matched
  <2>5. live' = [live EXCEPT ![r.id] = r.t] /\ (r.t # 0 <=> live[r.id] = 0)
    BY <1>1, <2>1
  <2> HIDE DEF r, l
  <2>6. Replay(Append(l, r)) = [live EXCEPT ![r.id] = r.t] /\ Alternates(Append(l, r))
    BY <2>1, <2>3, <2>4, <2>5, ReplayAppend, AlternatesAppend
  <2>7. Len(Append(l, r)) = Len(l) + 1
    BY <2>1, <2>3, AppendProperties
  <2>8. Matched'
    BY <1>1, <2>2, <2>4, <2>5, <2>6, <2>7 DEF Matched
  <2>9. Alternates(Recs(file'))
    BY <2>2, <2>4 DEF Indexed
  <2> QED BY <1>1, <2>8, <2>9 DEF Indexed
<1> QED BY <1>3, <1>4

\* What a file has of the log alternates if the log does.
LEMMA GrownAlternates ==
  ASSUME IInv, Indexed, mode = "open", ~stale, Grown
  PROVE  Alternates(Recs(file'))
<1> DEFINE l == Log
           n == Len(file')
<1>1. l \in Seq(Record) /\ Alternates(l) /\ Len(file) \in Nat
  BY LogType, LenProperties DEF IInv, DiskOK, Clean, Indexed, Matched
<1>2. n \in Len(file)..Len(l) /\ Recs(file') = SubSeq(l, 1, n)
  BY DEF Grown
<1> HIDE DEF l, n
<1>3. n \in 0..Len(l)
  BY <1>1, <1>2
<1> QED BY <1>1, <1>2, <1>3, AlternatesPrefix

\* What a start reads is the log.
LEMMA FreshLog ==
  ASSUME DiskOK, buf' = <<>>, file' = file, live' = Replay(file), lines' = Len(file), Alternates(Recs(file))
  PROVE  Matched'
<1>1. Recs(file) \in Seq(Record) /\ Len(Recs(file)) = Len(file) /\ Replay(Recs(file)) = Replay(file)
  BY SeqTypes, RecsType DEF DiskOK, Clean
<1> DEFINE f == Recs(file)
<1> HIDE DEF f
<1>2. f \o <<>> = f
  BY <1>1, ConcatEmptySeq DEF f
<1>3. Log' = f
  BY <1>2 DEF Log, f
<1> QED BY <1>1, <1>3 DEF Matched, f

LEMMA StepIndexed ==
  ASSUME "noeol" \notin Faults
  PROVE  IInv /\ LogInv /\ [Next]_vars => Indexed'
<1> SUFFICES ASSUME IInv, LogInv, [Next]_vars PROVE Indexed'
  OBVIOUS
<1> USE DEF LogInv
<1>1. CASE PutAppends
  <2>1. Head(todo) \in Id /\ now \in 0..MaxTime /\ now # 0
    BY <1>1, HeadTailProperties, BoundsAssumption DEF PutAppends, IInv, OperationOK
  <2>2. mode = "open"
    BY <1>1 DEF PutAppends, IInv, Placed
  <2> QED BY <1>1, <2>1, <2>2, AppendIndexed DEF PutAppends
<1>2. CASE PurgeAppends
  <2>1. Head(todo) \in Id /\ 0 \in 0..MaxTime
    BY <1>2, HeadTailProperties, BoundsAssumption DEF PurgeAppends, IInv, OperationOK
  <2>2. mode = "open"
    BY <1>2 DEF PurgeAppends, IInv, Placed
  <2>3. live[Head(todo)] # 0
    <3>1. todo \in Seq(Id) /\ todo # <<>>
      BY <1>2 DEF PurgeAppends, IInv, OperationOK
    <3>2. 1 \in 1..Len(todo) /\ Head(todo) = todo[1]
      BY <3>1, EmptySeq, HeadTailProperties
    <3> QED BY <1>2, <3>2 DEF PurgeAppends, PurgesOnce
  <2> QED BY <1>2, <2>1, <2>2, <2>3, AppendIndexed DEF PurgeAppends
<1>3. CASE Rewrite
  <2>1. PICK recs \in SetToSeqs(LiveRecords) : file' = AsLines(recs)
    BY <1>3 DEF Rewrite
  <2>2. recs \in Seq(Record) /\ Alternates(recs)
    BY Compacted DEF IInv, MemoryOK
  <2>3. Recs(file') = recs
    BY <2>1, <2>2, AsLinesType
  <2>4. stale' = TRUE /\ shadows' = shadows \cup {file}
    BY <1>3 DEF Rewrite
  <2> QED BY <2>2, <2>3, <2>4 DEF Indexed
<1>4. CASE Open
  <2>1. \A k \in DOMAIN file : ~file[k].glued
    BY DEF Readable, Unglued
  <2>2. /\ UNCHANGED <<file, shadows>> /\ buf' = <<>>
        /\ live' = Replay(file) /\ lines' = Len(file)
    BY <1>4, <2>1 DEF Open, Memory
  <2>3. Matched'
    BY <2>2, FreshLog DEF IInv, Indexed
  <2> QED BY <2>2, <2>3 DEF Indexed
<1>5. CASE Reopen
  <2>1. /\ UNCHANGED <<file, shadows, live>> /\ buf' = <<>> /\ lines' = Cardinality(LiveRecords)
    BY <1>5 DEF Reopen, Memory, disk
  <2>2. Replay(file) = live /\ Len(file) = Cardinality(Stored(live))
    BY <1>5 DEF Reopen, IInv, Compacting
  <2>3. Cardinality(LiveRecords) = Cardinality(Stored(live))
    BY LiveCount DEF IInv, MemoryOK
  <2>4. Matched'
    BY <2>1, <2>2, <2>3, FreshLog DEF IInv, Indexed
  <2> QED BY <2>1, <2>4 DEF Indexed
<1>6. CASE PowerLoss
  <2>1. mode' = "down" /\ shadows' = {}
    BY <1>6 DEF PowerLoss, Forget, Memory
  <2>2. ASSUME NEW k \in synced..Len(file), CutAt(k) PROVE Alternates(Recs(file'))
    <3>1. k \in 0..Len(file)
      BY LenProperties DEF IInv, DiskOK, Clean
    <3>2. file' = SubSeq(file, 1, k)
      BY <2>2 DEF CutAt
    <3>3. Recs(file') = SubSeq(Recs(file), 1, k)
      BY <3>1, <3>2, SeqTypes, RecsPrefix DEF IInv, DiskOK, Clean
    <3>4. Recs(file) \in Seq(Record) /\ Len(Recs(file)) = Len(file)
      BY SeqTypes, RecsType DEF IInv, DiskOK, Clean
    <3> DEFINE f == Recs(file)
    <3>5. f \in Seq(Record) /\ k \in 0..Len(f) /\ Alternates(f)
      BY <3>1, <3>4 DEF Indexed
    <3> HIDE DEF f
    <3>6. Alternates(SubSeq(f, 1, k))
      BY <3>5, AlternatesPrefix
    <3> QED BY <3>3, <3>6 DEF f
  <2>3. ASSUME MidWrite PROVE Alternates(Recs(file'))
    <3>1. mode = "open" /\ ~stale
      BY <2>3 DEF MidWrite, IInv, Placed
    <3>2. tail = "clean"
      BY <2>3, <3>1, ReadableTail DEF MidWrite
    <3>3. Grown
      BY <2>3, <3>2, MidWriteLog DEF Grown, IInv, DiskOK
    <3> QED BY <3>1, <3>3, GrownAlternates
  <2>4. ASSUME file' \in shadows PROVE Alternates(Recs(file'))
    BY <2>4 DEF Indexed
  <2>5. Alternates(Recs(file'))
    BY <1>6, <2>2, <2>3, <2>4 DEF PowerLoss
  <2> QED BY <2>1, <2>5 DEF Indexed
<1>7. CASE Stays
  <2>1. mode = "open" /\ shadows' \subseteq shadows /\ UNCHANGED <<mode, live, lines, stale>>
    BY <1>7 DEF Stays
  <2>2. Alternates(Recs(file'))
    <3>1. CASE file' = file
      BY <3>1 DEF Indexed
    <3>2. CASE ~stale /\ Grown
      BY <2>1, <3>2, GrownAlternates
    <3> QED BY <1>7, <3>1, <3>2 DEF Stays
  <2>3. ~stale => Log' = Log
    BY <1>7 DEF Stays
  <2> QED BY <2>1, <2>2, <2>3 DEF Indexed, Matched
<1>8. CASE Quits
  <2>1. Alternates(Recs(file'))
    <3>1. CASE file' = file
      BY <3>1 DEF Indexed
    <3>2. CASE mode = "open" /\ ~stale /\ Grown
      BY <3>2, GrownAlternates
    <3> QED BY <1>8, <3>1, <3>2 DEF Quits
  <2> QED BY <1>8, <2>1 DEF Indexed, Quits
<1> QED
  BY <1>1, <1>2, <1>3, <1>4, <1>5, <1>6, <1>7, <1>8, LogStep

LEMMA StepPurgesOnce == IInv /\ PurgesOnce /\ [Next]_vars => PurgesOnce'
<1> SUFFICES ASSUME IInv, PurgesOnce, [Next]_vars, pc' = "append", kind' = "purge" PROVE PurgesOnce'
  BY DEF PurgesOnce
<1>1. ASSUME NEW cutoff \in 2..MaxTime + 1, Purge(cutoff) PROVE PurgesOnce'
  <2> DEFINE old == {i \in Id : live[i] # 0 /\ live[i] < cutoff}
  <2>1. PICK seq \in SetToSeqs(old) : Start("purge", "append", old, seq)
    BY <1>1 DEF Purge
  <2>2. IsFiniteSet(old) /\ \A i \in old : live[i] # 0
    BY IdAssumption, FS_Subset
  <2>3. todo' = seq /\ live' = live
    BY <1>1, <2>1 DEF Start, Purge, memory
  <2> HIDE DEF old
  <2>4. seq \in Seq(old) /\ \A k, l \in 1..Len(seq) : seq[k] = seq[l] => k = l
    BY <2>1, <2>2, SeqsOfSet
  <2>5. \A k \in 1..Len(seq) : live[seq[k]] # 0
    BY <2>2, <2>4
  <2> QED BY <2>3, <2>4, <2>5 DEF PurgesOnce
<1>2. CASE PurgeAppends
  <2>1. todo \in Seq(Id) /\ todo # <<>> /\ pc = "append" /\ kind = "purge"
    BY <1>2 DEF PurgeAppends, IInv, OperationOK
  <2>2. todo' = Tail(todo) /\ live' = [live EXCEPT ![Head(todo)] = 0] /\ live \in [Id -> 0..MaxTime]
    BY <1>2 DEF PurgeAppends, AppendRecord, IInv, MemoryOK
  <2>3. /\ Head(todo) = todo[1] /\ 1 \in 1..Len(todo) /\ Len(todo) \in Nat
        /\ Len(todo') = Len(todo) - 1 /\ \A k \in 1..Len(todo') : todo'[k] = todo[k + 1]
    BY <2>1, <2>2, EmptySeq, HeadTailProperties, LenProperties
  <2>4. ASSUME NEW k \in 1..Len(todo') PROVE k + 1 \in 1..Len(todo) /\ todo'[k] = todo[k + 1]
    BY <2>3
  <2>5. /\ \A k \in 1..Len(todo) : live[todo[k]] # 0
        /\ \A k, l \in 1..Len(todo) : todo[k] = todo[l] => k = l
    BY <2>1 DEF PurgesOnce
  <2>6. ASSUME NEW k \in 1..Len(todo') PROVE live'[todo'[k]] # 0
    <3>1. todo[k + 1] # Head(todo) /\ todo[k + 1] \in Id
      <4>1. k + 1 # 1
        OBVIOUS
      <4> QED BY <2>1, <2>3, <2>4, <2>5, <4>1
    <3> QED BY <2>2, <2>4, <2>5, <3>1
  <2>7. ASSUME NEW k \in 1..Len(todo'), NEW l \in 1..Len(todo'), todo'[k] = todo'[l] PROVE k = l
    <3>1. k + 1 = l + 1
      BY <2>4, <2>5, <2>7
    <3> QED BY <3>1, <2>3
  <2> QED BY <2>6, <2>7 DEF PurgesOnce
<1>3. CASE CompactClosed \/ Open \/ Tick
  <2>1. pc' = "idle"
    BY <1>3 DEF CompactClosed, Open, Tick, operation, IInv, Placed
  <2> QED BY <2>1
<1>4. CASE UNCHANGED vars
  BY <1>4 DEF PurgesOnce, vars, memory, operation
<1>5. ASSUME NEW ids \in SUBSET Id \ {{}}, NEW seq \in SetToSeqs(ids), Put(seq) PROVE PurgesOnce'
  BY <1>5 DEF Put, Start
<1>6. CASE PutSkips \/ PutAppends \/ PutGivesUp \/ PutHandled \/ PurgeBreaks \/ PurgeHandled \/ Close \/ Compact
  BY <1>6 DEF PutSkips, PutAppends, PutGivesUp, PutHandled, PurgeBreaks, PurgeHandled, PurgeReturns,
     Close, Compact, Start, Goto, End
<1>7. CASE Flush \/ Sync \/ FlushFails \/ CloseSynced \/ CloseFails
  BY <1>7 DEF Flush, Sync, FlushFails, CloseSynced, CloseFails, PurgeReturns, Goto, End,
     IInv, OperationOK, Placed
<1>8. CASE Rewrite \/ SyncDir \/ RewriteFails \/ Reopen \/ ReopenFails \/ Kill \/ PowerLoss
  BY <1>8 DEF Rewrite, SyncDir, RewriteFails, Reopen, ReopenFails, Kill, PowerLoss, Forget, Goto, End
<1> QED
  BY <1>1, <1>2, <1>3, <1>4, <1>5, <1>6, <1>7, <1>8 DEF Next

LEMMA InitLogInv == Init => LogInv
<1> SUFFICES ASSUME Init PROVE LogInv
  OBVIOUS
<1>1. file = <<>> /\ Recs(<<>>) = <<>> /\ Len(<<>>) = 0 /\ <<>> \in Seq(Record)
  <2>1. <<>> \in Seq(Record) /\ Len(<<>>) = 0
    BY EmptySeq
  <2> QED BY <2>1, RecsOfRecords DEF Init
<1>2. Alternates(<<>>)
  BY <1>1 DEF Alternates
<1>3. Readable
  BY EmptySeq DEF Init, Readable, Unglued
<1>4. Indexed
  BY <1>1, <1>2 DEF Init, Indexed
<1>5. PurgesOnce
  BY DEF Init, PurgesOnce
<1> QED BY <1>3, <1>4, <1>5 DEF LogInv

\* The second inductive invariant, on top of the first.
THEOREM LogInvariance ==
  ASSUME "noeol" \notin Faults
  PROVE  Spec => []LogInv
<1>1. Init => LogInv
  BY InitLogInv
<1>2. IInv /\ LogInv /\ [Next]_vars => LogInv'
  BY StepReadable, StepIndexed, StepPurgesOnce DEF LogInv
<1> QED BY <1>1, <1>2, Invariance, PTL DEF Spec

\* The index and its counters match the log after every failure and crash
\* (store.go:100-137, store.go:262-288, compact.go:37-90).
THEOREM Matches ==
  ASSUME "noeol" \notin Faults
  PROVE  Spec => []IndexMatchesLog
<1>1. IInv /\ LogInv => IndexMatchesLog
  <2> SUFFICES ASSUME IInv, LogInv, mode = "open", ~stale
              PROVE  live = Replay(file \o buf) /\ lines = Len(file) + Len(buf)
    BY DEF IndexMatchesLog
  <2>1. Clean /\ Matched
    BY DEF IInv, DiskOK, LogInv, Indexed
  <2>2. Replay(file \o buf) = Replay(Log) /\ Len(Log) = Len(file) + Len(buf)
    BY <2>1, ReplayLog, LogType DEF Clean, Log
  <2> QED BY <2>1, <2>2 DEF Matched
<1> QED BY <1>1, Invariance, LogInvariance, PTL

\* No entry is stored again while it is there, and none is deleted twice
\* (store.go:151-156, store.go:192-206).
THEOREM Changes ==
  ASSUME "noeol" \notin Faults
  PROVE  Spec => []EachRecordChanges
<1>1. IInv /\ LogInv => EachRecordChanges
  <2> DEFINE log == file \o buf
             before(k) == {j \in 1..k-1 : log[j].id = log[k].id}
  <2> SUFFICES ASSUME IInv, LogInv, mode = "open", ~stale, NEW k \in DOMAIN log
              PROVE  log[k].t # 0 <=> ~(before(k) # {} /\ log[Max(before(k))].t # 0)
    BY DEF EachRecordChanges
  <2>1. Clean /\ Alternates(Log)
    BY DEF IInv, DiskOK, LogInv, Indexed, Matched
  <2>2. log \in Seq(Item) /\ Recs(log) = Log
    BY <2>1, ReplayLog DEF Clean, Log
  <2> HIDE DEF log
  <2>3. k \in 1..Len(log)
    BY <2>2
  <2>4. /\ Len(Recs(log)) = Len(log)
        /\ Recs(log)[k].id = log[k].id /\ Recs(log)[k].t = log[k].t
    BY <2>2, <2>3, RecsType
  <2>5. log[k].t # 0 <=> Replay(SubSeq(Recs(log), 1, k - 1))[log[k].id] = 0
    BY <2>1, <2>2, <2>3, <2>4 DEF Alternates
  <2>6. k - 1 \in 0..Len(log)
    BY <2>3
  <2>7. Replay(SubSeq(Recs(log), 1, k - 1)) = Replay(SubSeq(log, 1, k - 1))
    <3>1. Recs(SubSeq(log, 1, k - 1)) = SubSeq(Recs(log), 1, k - 1)
      BY <2>2, <2>6, RecsPrefix
    <3>2. SubSeq(log, 1, k - 1) \in Seq(Item)
      BY <2>2, <2>6, PrefixProperties
    <3> DEFINE p == SubSeq(log, 1, k - 1)
    <3> HIDE DEF p
    <3>3. Replay(Recs(p)) = Replay(p)
      BY <3>2, RecsType DEF p
    <3> QED BY <3>1, <3>3 DEF p
  <2>8. Replay(SubSeq(log, 1, k - 1))[log[k].id] # 0 <=> before(k) # {} /\ log[Max(before(k))].t # 0
    BY <2>2, <2>3, ValueBefore
  <2> QED BY <2>5, <2>7, <2>8
<1> QED BY <1>1, Invariance, LogInvariance, PTL

-----------------------------------------------------------------------------
(***************************************************************************)
(* Whatever a crash leaves of the log replays to values that the entries   *)
(* have had since the last commit.                                         *)
(***************************************************************************)
Possible(m, p) == \A i \in Id : m[i] \in p[i]

\* The writer is stale only while compaction runs, and it compacts what is
\* on the medium.
SafelyPlaced ==
  /\ stale => pc \in {"syncdir", "reopen"}
  /\ pc = "rewrite" => synced = Len(file)

Survivable ==
  /\ \A k \in synced..Len(Log) : Possible(Replay(SubSeq(Log, 1, k)), possible)
  /\ \A s \in shadows : Possible(Replay(s), possible)

CrashInv == SafelyPlaced /\ Survivable

\* Most steps neither sync nor change what may be left.
Keeps == UNCHANGED <<possible, shadows>> /\ synced' \in {synced, Min({synced, Len(file')})}

LEMMA KeepsStep ==
  [Next]_vars => \/ PutAppends \/ PurgeAppends \/ Rewrite \/ Sync \/ CloseSynced \/ SyncDir \/ PowerLoss
                 \/ Keeps
<1> SUFFICES ASSUME [Next]_vars,
                    ~(PutAppends \/ PurgeAppends \/ Rewrite \/ Sync \/ CloseSynced \/ SyncDir \/ PowerLoss)
             PROVE  Keeps
  OBVIOUS
<1>1. CASE PutGivesUp \/ PurgeBreaks \/ FlushFails
  BY <1>1 DEF PutGivesUp, PurgeBreaks, FlushFails, AppendFails, WriteFails, Keeps, disk, history
<1>2. CASE Flush \/ CloseFails \/ Kill
  BY <1>2 DEF Flush, CloseFails, Kill, Keeps, history
<1>3. ASSUME NEW ids \in SUBSET Id \ {{}}, NEW seq \in SetToSeqs(ids), Put(seq) PROVE Keeps
  BY <1>3 DEF Put, Keeps, disk, history
<1>4. ASSUME NEW cutoff \in 2..MaxTime + 1, Purge(cutoff) PROVE Keeps
  BY <1>4 DEF Purge, Keeps, disk, history
<1>5. CASE PutSkips \/ PutHandled \/ PurgeHandled \/ Close \/ Compact \/ CompactClosed
           \/ RewriteFails \/ Reopen \/ ReopenFails \/ Open \/ Tick \/ UNCHANGED vars
  BY <1>5 DEF PutSkips, PutHandled, PurgeHandled, Close, Compact, CompactClosed, RewriteFails,
     Reopen, ReopenFails, Open, Tick, vars, Keeps, disk, history
<1> QED
  BY <1>1, <1>2, <1>3, <1>4, <1>5 DEF Next

\* synced counts lines that the file still has.
LEMMA KeepsSynced ==
  ASSUME DiskOK, Keeps, Len(file') \in Nat, Len(file) <= Len(file')
  PROVE  synced' = synced
<1>1. synced \in Nat /\ synced <= Len(file')
  BY LenProperties DEF DiskOK, Clean
<1> QED BY <1>1, Smaller DEF Keeps

LEMMA StepSafelyPlaced ==
  ASSUME "reopen" \notin Faults
  PROVE  IInv /\ SafelyPlaced /\ [Next]_vars => SafelyPlaced'
<1> SUFFICES ASSUME IInv, SafelyPlaced, [Next]_vars PROVE SafelyPlaced'
  OBVIOUS
<1> USE DEF SafelyPlaced
<1>1. ASSUME stale' => stale, pc \notin {"syncdir", "reopen"}, pc' # "rewrite" PROVE SafelyPlaced'
  BY <1>1
<1>2. CASE UNCHANGED vars
  BY <1>2 DEF vars, disk, memory, writer, operation
<1>3. CASE Sync
  <2>1. ~stale /\ UNCHANGED <<file, stale>>
    BY <1>3 DEF Sync, memory, writer
  <2>2. synced' = Len(file)
    BY <1>3, <2>1 DEF Sync, Synced
  <2> QED BY <2>1, <2>2
<1>4. CASE Rewrite \/ SyncDir
  BY <1>4 DEF Rewrite, SyncDir, Goto, memory, writer
<1>5. CASE Reopen \/ Kill \/ PowerLoss
  BY <1>5 DEF Reopen, Kill, PowerLoss, Forget, Memory, End
<1>6. CASE ReopenFails
  BY <1>6 DEF ReopenFails
<1>7. ASSUME NEW ids \in SUBSET Id \ {{}}, NEW seq \in SetToSeqs(ids), Put(seq) PROVE SafelyPlaced'
  BY <1>1, <1>7 DEF Put, Start, memory, writer
<1>8. ASSUME NEW cutoff \in 2..MaxTime + 1, Purge(cutoff) PROVE SafelyPlaced'
  <2>1. pc = "idle" /\ pc' = "append"
    BY <1>8 DEF Purge, Start
  <2> QED BY <1>1, <1>8, <2>1 DEF Purge, memory, writer
<1>9. CASE PutSkips \/ PutHandled \/ PurgeHandled \/ Close \/ Compact \/ RewriteFails
  BY <1>1, <1>9 DEF PutSkips, PutHandled, PurgeHandled, PurgeReturns, Close, Compact, RewriteFails,
     Start, Goto, End, memory, writer
<1>10. CASE PutAppends \/ PurgeAppends \/ Flush \/ CloseSynced \/ CloseFails
  BY <1>1, <1>10 DEF PutAppends, PurgeAppends, AppendRecord, Flush, CloseSynced, CloseFails,
     Memory, Goto, End
<1>11. CASE PutGivesUp \/ PurgeBreaks \/ FlushFails
  <2>1. stale' = stale
    BY <1>11 DEF PutGivesUp, PurgeBreaks, FlushFails, AppendFails, WriteFails, memory, writer
  <2>2. pc \in {"append", "flush", "sync"} /\ pc' # "rewrite"
    BY <1>11 DEF PutGivesUp, PurgeBreaks, FlushFails, Goto, End
  <2> QED BY <1>1, <2>1, <2>2
<1>12. CASE CompactClosed \/ Open \/ Tick
  <2>1. pc = "idle" /\ pc' = "idle"
    BY <1>12 DEF CompactClosed, Open, Tick, operation, IInv, Placed
  <2>2. stale' => stale
    BY <1>12 DEF CompactClosed, Open, Tick, Memory, memory, writer
  <2> QED BY <1>1, <2>1, <2>2
<1> QED
  BY <1>2, <1>3, <1>4, <1>5, <1>6, <1>7, <1>8, <1>9, <1>10, <1>11, <1>12 DEF Next

\* One more record, written behind any of what a crash could have left.
LEMMA AppendSurvivable ==
  ASSUME IInv, LogInv, CrashInv, mode = "open", ~stale,
         NEW i \in Id, NEW t \in 0..MaxTime, AppendRecord(i, t)
  PROVE  Survivable'
<1> DEFINE r == [id |-> i, t |-> t]
           l == Log
<1>1. r \in Record /\ r.id = i /\ r.t = t
  BY DEF Record
<1>2. ~werr /\ UNCHANGED <<synced, shadows>> /\ possible' = [possible EXCEPT ![i] = @ \cup {t}]
  BY DEF AppendRecord
<1>3. Clean /\ tail = "clean"
  BY <1>2, ReadableTail DEF IInv, DiskOK, LogInv
<1>4. Log' = Append(l, r)
  BY <1>3, AppendRecordLog
<1>5. l \in Seq(Record) /\ Len(l) \in Nat /\ synced \in 0..Len(l)
  <2>1. Len(l) = Len(file) + Len(buf) /\ Len(file) \in Nat /\ Len(buf) \in Nat
    BY <1>3, LogType, LenProperties DEF Clean
  <2> QED BY <1>3, <2>1, LogType DEF IInv, DiskOK
<1>6. /\ \A k \in synced..Len(l) : Possible(Replay(SubSeq(l, 1, k)), possible)
      /\ \A s \in shadows : Possible(Replay(s), possible)
  BY DEF CrashInv, Survivable
<1>7. /\ possible \in [Id -> SUBSET (0..MaxTime)] /\ \A j \in Id : possible[j] \subseteq possible'[j]
      /\ t \in possible'[i]
  BY <1>2 DEF IInv, OperationOK
<1> HIDE DEF r, l
<1>8. Len(Append(l, r)) = Len(l) + 1
  BY <1>1, <1>5, AppendProperties
<1>9. ASSUME NEW k \in synced..Len(l) PROVE Possible(Replay(SubSeq(Append(l, r), 1, k)), possible')
  <2>1. SubSeq(Append(l, r), 1, k) = SubSeq(l, 1, k)
    BY <1>1, <1>5, AppendPrefixes
  <2> QED BY <1>6, <1>7, <2>1 DEF Possible
<1>10. Possible(Replay(SubSeq(Append(l, r), 1, Len(l) + 1)), possible')
  <2>1. SubSeq(Append(l, r), 1, Len(l) + 1) = Append(l, r) /\ SubSeq(l, 1, Len(l)) = l
    BY <1>1, <1>5, AppendPrefixes, SubSeqFull
  <2>2. Replay(Append(l, r)) = [Replay(l) EXCEPT ![i] = t]
    BY <1>1, <1>5, ReplayAppend
  <2>3. Possible(Replay(l), possible)
    <3>1. Len(l) \in synced..Len(l)
      BY <1>5
    <3> QED BY <1>6, <2>1, <3>1
  <2>4. Replay(l) \in [Id -> 0..MaxTime]
    BY <1>5, SeqTypes, ReplayType
  <2>5. ASSUME NEW j \in Id PROVE [Replay(l) EXCEPT ![i] = t][j] \in possible'[j]
    BY <1>7, <2>3, <2>4 DEF Possible
  <2> QED BY <2>1, <2>2, <2>5 DEF Possible
<1>11. \A k \in synced'..Len(Log') : Possible(Replay(SubSeq(Log', 1, k)), possible')
  <2> SUFFICES ASSUME NEW k \in synced..Len(l) + 1 PROVE Possible(Replay(SubSeq(Append(l, r), 1, k)), possible')
    BY <1>2, <1>4, <1>8
  <2>1. CASE k = Len(l) + 1
    BY <1>10, <2>1
  <2>2. CASE k # Len(l) + 1
    <3>1. k \in synced..Len(l)
      BY <1>5, <2>2
    <3> QED BY <1>9, <3>1
  <2> QED BY <2>1, <2>2
<1>12. \A s \in shadows' : Possible(Replay(s), possible')
  BY <1>2, <1>6, <1>7 DEF Possible
<1> QED BY <1>11, <1>12 DEF Survivable

\* An fsync leaves one thing that a crash can leave.
LEMMA SyncSurvivable ==
  ASSUME IInv, LogInv, mode = "open", ~stale, buf = <<>>, Synced, buf' = <<>>, UNCHANGED file,
         possible' = [i \in Id |-> {live[i]}]
  PROVE  Survivable'
<1>1. Clean /\ live = Replay(Log) /\ live \in [Id -> 0..MaxTime]
  BY DEF IInv, DiskOK, MemoryOK, LogInv, Indexed, Matched
<1>2. Log' = Log /\ Log \in Seq(Record) /\ Len(Log) = Len(file)
  <2>1. Len(buf) = 0 /\ Len(file) \in Nat
    BY <1>1, EmptySeq, LenProperties DEF Clean
  <2> QED BY <1>1, <2>1, LogType DEF Log
<1>3. synced' = Len(Log') /\ shadows' = {}
  BY <1>2 DEF Synced
<1>4. SubSeq(Log, 1, Len(Log)) = Log
  BY <1>2, SubSeqFull
<1>5. Possible(Replay(SubSeq(Log', 1, Len(Log'))), possible')
  BY <1>1, <1>2, <1>4 DEF Possible
<1>6. \A k \in synced'..Len(Log') : k = Len(Log')
  BY <1>2, <1>3, LenProperties
<1> QED BY <1>3, <1>5, <1>6 DEF Survivable

\* The log that is left when the process ends.
LEMMA QuitsLog ==
  ASSUME IInv, buf' = <<>>, file' = file \/ Grown, file' \in Seq(Line)
  PROVE  /\ Len(file') \in Len(file)..Len(Log)
         /\ Log' = SubSeq(Log, 1, Len(file')) /\ Recs(file') = SubSeq(Log, 1, Len(file'))
         /\ Replay(file') = Replay(SubSeq(Log, 1, Len(file')))
<1>1. /\ Clean /\ Len(file) \in Nat /\ Len(buf) \in Nat /\ Len(Log) = Len(file) + Len(buf)
      /\ Recs(file) = SubSeq(Log, 1, Len(file))
  BY LogType, LenProperties DEF IInv, DiskOK, Clean
<1>2. Len(file') \in Len(file)..Len(Log) /\ Recs(file') = SubSeq(Log, 1, Len(file'))
  BY <1>1 DEF Grown
<1>3. Recs(file') \in Seq(Record) /\ Replay(Recs(file')) = Replay(file')
  BY SeqTypes, RecsType
<1>4. Log' = Recs(file')
  <2> DEFINE f == Recs(file')
  <2>1. f \in Seq(Record)
    BY <1>3
  <2> HIDE DEF f
  <2>2. f \o <<>> = f
    BY <2>1, ConcatEmptySeq
  <2> QED BY <2>2 DEF Log, f
<1> QED BY <1>2, <1>3, <1>4

LEMMA StepSurvivable ==
  ASSUME "noeol" \notin Faults, "reopen" \notin Faults
  PROVE  IInv /\ IInv' /\ LogInv /\ CrashInv /\ [Next]_vars => Survivable'
<1> SUFFICES ASSUME IInv, IInv', LogInv, CrashInv, [Next]_vars PROVE Survivable'
  OBVIOUS
<1>0. /\ file' \in Seq(Line) /\ Len(file') \in Nat /\ Len(file) \in Nat
      /\ Log \in Seq(Record) /\ Len(Log) \in Nat /\ DiskOK /\ Clean
      /\ synced \in 0..Len(file)
  <2>1. Clean /\ file' \in Seq(Line)
    BY DEF IInv, DiskOK, Clean
  <2> QED BY <2>1, LogType, LenProperties DEF IInv, DiskOK, Clean
<1>1. ASSUME Log' = Log, synced' = synced, possible' = possible, shadows' \subseteq shadows PROVE Survivable'
  BY <1>1 DEF CrashInv, Survivable
<1>2. CASE PutAppends
  <2>1. Head(todo) \in Id /\ now \in 0..MaxTime
    BY <1>2, HeadTailProperties, BoundsAssumption DEF PutAppends, IInv, OperationOK
  <2>2. mode = "open" /\ ~stale
    BY <1>2 DEF PutAppends, IInv, Placed, CrashInv, SafelyPlaced
  <2> QED BY <1>2, <2>1, <2>2, AppendSurvivable DEF PutAppends
<1>3. CASE PurgeAppends
  <2>1. Head(todo) \in Id /\ 0 \in 0..MaxTime
    BY <1>3, HeadTailProperties, BoundsAssumption DEF PurgeAppends, IInv, OperationOK
  <2>2. mode = "open" /\ ~stale
    BY <1>3 DEF PurgeAppends, IInv, Placed, CrashInv, SafelyPlaced
  <2> QED BY <1>3, <2>1, <2>2, AppendSurvivable DEF PurgeAppends
<1>4. CASE Sync
  <2>1. mode = "open" /\ ~stale /\ buf = <<>> /\ pc = "sync"
    BY <1>4 DEF Sync, IInv, Placed, CrashInv, SafelyPlaced
  <2>2. Synced /\ buf' = <<>> /\ UNCHANGED file /\ possible' = [i \in Id |-> {live[i]}]
    BY <1>4, <2>1 DEF Sync, memory, writer
  <2> QED BY <2>1, <2>2, SyncSurvivable
<1>5. CASE CloseSynced
  <2>1. mode = "open" /\ ~stale /\ buf = <<>> /\ pc = "sync"
    BY <1>5 DEF CloseSynced, IInv, Placed, CrashInv, SafelyPlaced
  <2>2. Synced /\ buf' = <<>> /\ UNCHANGED file /\ possible' = [i \in Id |-> {live[i]}]
    BY <1>5, <2>1 DEF CloseSynced, Memory
  <2> QED BY <2>1, <2>2, SyncSurvivable
<1>6. CASE Rewrite
  <2>1. PICK recs \in SetToSeqs(LiveRecords) : file' = AsLines(recs) /\ synced' = Len(recs)
    BY <1>6 DEF Rewrite
  <2>2. recs \in Seq(Record) /\ Replay(recs) = live
    BY Compacted DEF IInv, MemoryOK
  <2>3. Recs(file') = recs /\ Len(file') = Len(recs)
    BY <2>1, <2>2, AsLinesType
  <2>4. /\ mode = "open" /\ ~stale /\ buf = <<>> /\ buf' = <<>>
        /\ shadows' = shadows \cup {file} /\ possible' = possible
    BY <1>6 DEF Rewrite, IInv, Placed, CrashInv, SafelyPlaced, history
  <2>5. Log' = recs /\ Log = Recs(file)
    <3>1. recs \o <<>> = recs
      BY <2>2, ConcatEmptySeq
    <3> DEFINE f == Recs(file)
    <3>2. f \in Seq(Record)
      BY <1>0, LogType
    <3> HIDE DEF f
    <3>3. f \o <<>> = f
      BY <3>2, ConcatEmptySeq
    <3> QED BY <2>3, <2>4, <3>1, <3>3 DEF Log, f
  <2>6. live = Replay(Log) /\ Replay(file) = live
    <3>1. Replay(Recs(file)) = Replay(file)
      BY <1>0, SeqTypes, RecsType DEF Clean
    <3> QED BY <2>4, <2>5, <3>1 DEF LogInv, Indexed, Matched
  <2>7. Possible(live, possible)
    <3>1. SubSeq(Log, 1, Len(Log)) = Log
      BY <1>0, SubSeqFull
    <3>2. Len(Log) \in synced..Len(Log)
      <4>1. Len(Log) = Len(file) + Len(buf) /\ Len(buf) = 0
        BY <1>0, <2>4, LogType, EmptySeq
      <4> QED BY <1>0, <4>1
    <3> QED BY <2>6, <3>1, <3>2 DEF CrashInv, Survivable
  <2>8. \A k \in synced'..Len(Log') : Possible(Replay(SubSeq(Log', 1, k)), possible')
    <3>1. SubSeq(recs, 1, Len(recs)) = recs /\ Len(recs) \in Nat
      BY <2>2, SubSeqFull, LenProperties
    <3>2. \A k \in synced'..Len(Log') : k = Len(recs)
      BY <2>1, <2>5, <3>1
    <3> QED BY <2>2, <2>4, <2>5, <2>7, <3>1, <3>2
  <2>9. \A s \in shadows' : Possible(Replay(s), possible')
    BY <2>4, <2>6, <2>7 DEF CrashInv, Survivable
  <2> QED BY <2>8, <2>9 DEF Survivable
<1>7. CASE PowerLoss
  <2>1. /\ buf' = <<>> /\ synced' = Len(file') /\ shadows' = {}
        /\ possible' = [i \in Id |-> {Replay(file')[i]}]
    BY <1>7 DEF PowerLoss, Forget, Memory
  <2>2. Recs(file') \in Seq(Record) /\ Len(Recs(file')) = Len(file') /\ Replay(Recs(file')) = Replay(file')
    BY <1>0, SeqTypes, RecsType
  <2>3. Log' = Recs(file')
    <3> DEFINE f == Recs(file')
    <3>1. f \in Seq(Record)
      BY <2>2
    <3> HIDE DEF f
    <3>2. f \o <<>> = f
      BY <3>1, ConcatEmptySeq
    <3> QED BY <2>1, <3>2 DEF Log, f
  <2>4. SubSeq(Log', 1, Len(Log')) = Log'
    <3> DEFINE f == Recs(file')
    <3>1. f \in Seq(Record)
      BY <2>2
    <3> HIDE DEF f
    <3>2. SubSeq(f, 1, Len(f)) = f
      BY <3>1, SubSeqFull
    <3> QED BY <2>3, <3>2 DEF f
  <2>5. Possible(Replay(Log'), possible')
    BY <2>1, <2>2, <2>3 DEF Possible
  <2>6. \A k \in synced'..Len(Log') : k = Len(Log')
    BY <1>0, <2>1, <2>2, <2>3
  <2> QED BY <2>1, <2>4, <2>5, <2>6 DEF Survivable
<1>8. CASE SyncDir
  BY <1>1, <1>8 DEF SyncDir, Log, memory, writer, history
<1>9. CASE Open \/ Reopen
  <2>1. buf = <<>> /\ buf' = <<>> /\ UNCHANGED <<file, synced, shadows, possible>>
    BY <1>9 DEF Open, Reopen, Memory, IInv, Placed, writer, disk, history
  <2>2. Log' = Log
    BY <2>1 DEF Log
  <2> QED BY <1>1, <2>1, <2>2
<1>10. CASE Stays /\ Keeps
  <2>1. CASE stale
    <3>1. pc \in {"syncdir", "reopen"}
      BY <2>1 DEF CrashInv, SafelyPlaced
    <3>2. file' = file /\ stale' = stale
      BY <1>10, <2>1 DEF Stays
    <3>3. pc' \in {"syncdir", "reopen"}
      BY <2>1, <3>2, StepSafelyPlaced DEF CrashInv, SafelyPlaced
    <3>4. buf = <<>> /\ buf' = <<>>
      BY <3>1, <3>3 DEF IInv, Placed
    <3>5. synced' = synced
      BY <1>0, <1>10, <3>2, KeepsSynced
    <3> QED BY <1>1, <1>10, <3>2, <3>4, <3>5 DEF Keeps, Log
  <2>2. CASE ~stale
    <3>1. Log' = Log /\ (file' = file \/ Grown)
      BY <1>10, <2>2 DEF Stays
    <3>2. Len(file) <= Len(file')
      BY <1>0, <3>1 DEF Grown
    <3>3. synced' = synced
      BY <1>0, <1>10, <3>2, KeepsSynced
    <3> QED BY <1>1, <1>10, <3>1, <3>3 DEF Keeps
  <2> QED BY <2>1, <2>2
<1>11. CASE Quits /\ Keeps
  <2>1. buf' = <<>> /\ (file' = file \/ Grown)
    BY <1>11 DEF Quits, IInv, Placed
  <2>2. Len(file') \in Len(file)..Len(Log) /\ Log' = SubSeq(Log, 1, Len(file'))
    BY <1>0, <2>1, QuitsLog
  <2>3. synced' = synced /\ possible' = possible /\ shadows' = shadows
    BY <1>0, <1>11, <2>2, KeepsSynced DEF Keeps
  <2> DEFINE l == Log
             n == Len(file')
             m == SubSeq(l, 1, n)
  <2>4. l \in Seq(Record) /\ n \in 0..Len(l) /\ Log' = m
    BY <1>0, <2>2
  <2>6. \A k \in synced..Len(l) : Possible(Replay(SubSeq(l, 1, k)), possible)
    BY DEF CrashInv, Survivable
  <2> HIDE DEF l, n
  <2>5. Len(m) = n /\ \A k \in 0..n : SubSeq(m, 1, k) = SubSeq(l, 1, k)
    BY <2>4, PrefixProperties, PrefixOfPrefix
  <2> HIDE DEF m
  <2>7. ASSUME NEW k \in synced'..Len(Log') PROVE Possible(Replay(SubSeq(Log', 1, k)), possible')
    <3>1. k \in 0..n /\ k \in synced..Len(l)
      BY <1>0, <2>3, <2>4, <2>5
    <3> QED BY <2>3, <2>4, <2>5, <2>6, <3>1
  <2> QED BY <2>3, <2>7 DEF CrashInv, Survivable
<1> QED
  BY <1>2, <1>3, <1>4, <1>5, <1>6, <1>7, <1>8, <1>9, <1>10, <1>11, LogStep, KeepsStep DEF LogInv

LEMMA InitCrashInv == Init => CrashInv
<1> SUFFICES ASSUME Init PROVE CrashInv
  OBVIOUS
<1>1. file = <<>> /\ buf = <<>> /\ Recs(<<>>) = <<>> /\ <<>> \in Seq(Record) /\ Len(<<>>) = 0
  <2>1. <<>> \in Seq(Record) /\ Len(<<>>) = 0
    BY EmptySeq
  <2> QED BY <2>1, RecsOfRecords DEF Init
<1>2. Log = <<>>
  BY <1>1, ConcatEmptySeq DEF Log
<1>3. ASSUME NEW k \in 0..0 PROVE Possible(Replay(SubSeq(<<>>, 1, k)), possible)
  <2>1. SubSeq(<<>>, 1, k) = <<>>
    BY <1>1, SubSeqFull
  <2>2. Possible(Nothing, possible)
    BY DEF Possible, Nothing, Init
  <2> QED BY <2>1, <2>2, ReplayEmpty
<1>4. Survivable
  BY <1>1, <1>2, <1>3 DEF Init, Survivable
<1>5. SafelyPlaced
  BY <1>1 DEF Init, SafelyPlaced
<1> QED BY <1>4, <1>5 DEF CrashInv

\* The third inductive invariant, on top of the others.
THEOREM CrashInvariance ==
  ASSUME "noeol" \notin Faults, "reopen" \notin Faults
  PROVE  Spec => []CrashInv
<1>1. Init => CrashInv
  BY InitCrashInv
<1>2. IInv /\ IInv' /\ LogInv /\ CrashInv /\ [Next]_vars => CrashInv'
  BY StepSafelyPlaced, StepSurvivable DEF CrashInv
<1> QED BY <1>1, <1>2, Invariance, LogInvariance, PTL DEF Spec

-----------------------------------------------------------------------------
(***************************************************************************)
(* The store implements DurableMap.                                        *)
(***************************************************************************)
Entry == IF mode = "open" THEN live ELSE Replay(file)

\* What is left in the file when the process ends is something the map may be
\* put back to.
LEMMA LeftOver ==
  ASSUME IInv, CrashInv, buf' = <<>>, file' = file \/ Grown, file' \in Seq(Line)
  PROVE  Replay(file') \in [Id -> 0..MaxTime] /\ Possible(Replay(file'), possible)
<1>1. /\ Len(file') \in Len(file)..Len(Log)
      /\ Replay(file') = Replay(SubSeq(Log, 1, Len(file')))
  BY QuitsLog
<1>2. Len(file') \in synced..Len(Log)
  <2>1. synced \in 0..Len(file) /\ Len(file) \in Nat /\ Len(Log) \in Nat
    BY LogType, LenProperties DEF IInv, DiskOK, Clean
  <2> QED BY <1>1, <2>1
<1>3. Replay(file') \in [Id -> 0..MaxTime]
  BY SeqTypes, ReplayType
<1> QED BY <1>1, <1>2, <1>3 DEF CrashInv, Survivable

LEMMA StepPromise ==
  ASSUME "noeol" \notin Faults, "reopen" \notin Faults
  PROVE  IInv /\ IInv' /\ LogInv /\ CrashInv /\ [Next]_vars => [Promise!Next]_(Promise!vars)
<1> SUFFICES ASSUME IInv, IInv', LogInv, CrashInv, [Next]_vars
             PROVE  Promise!Next \/ UNCHANGED <<Entry, possible>>
  BY DEF Promise!vars, Entry
<1>0. /\ file \in Seq(Line) /\ file' \in Seq(Line) /\ DiskOK /\ Clean
      /\ live \in [Id -> 0..MaxTime] /\ possible \in [Id -> SUBSET (0..MaxTime)]
  BY DEF IInv, DiskOK, Clean, MemoryOK, OperationOK
<1>1. ASSUME UNCHANGED <<mode, live, possible>>, mode = "open" PROVE UNCHANGED <<Entry, possible>>
  BY <1>1 DEF Entry
<1>2. CASE PutAppends
  <2>1. Head(todo) \in Id /\ now \in 1..MaxTime /\ live[Head(todo)] = 0
    BY <1>2, HeadTailProperties DEF PutAppends, IInv, OperationOK
  <2>2. mode = "open" /\ mode' = "open"
    BY <1>2 DEF PutAppends, AppendRecord, IInv, Placed
  <2>3. /\ live' = [live EXCEPT ![Head(todo)] = now]
        /\ possible' = [possible EXCEPT ![Head(todo)] = @ \cup {now}]
    BY <1>2 DEF PutAppends, AppendRecord
  <2>4. Promise!Change(Head(todo), now)
    BY <2>2, <2>3 DEF Promise!Change
  <2>5. Promise!Add(Head(todo))
    BY <2>1, <2>2, <2>4 DEF Promise!Add
  <2> QED BY <2>1, <2>5 DEF Promise!Next
<1>3. CASE PurgeAppends
  <2>1. Head(todo) \in Id /\ live[Head(todo)] # 0
    <3>1. todo \in Seq(Id) /\ todo # <<>>
      BY <1>3 DEF PurgeAppends, IInv, OperationOK
    <3>2. 1 \in 1..Len(todo) /\ Head(todo) = todo[1] /\ Head(todo) \in Id
      BY <3>1, EmptySeq, HeadTailProperties
    <3> QED BY <1>3, <3>2 DEF PurgeAppends, LogInv, PurgesOnce
  <2>2. mode = "open" /\ mode' = "open"
    BY <1>3 DEF PurgeAppends, AppendRecord, IInv, Placed
  <2>3. /\ live' = [live EXCEPT ![Head(todo)] = 0]
        /\ possible' = [possible EXCEPT ![Head(todo)] = @ \cup {0}]
    BY <1>3 DEF PurgeAppends, AppendRecord
  <2>4. Promise!Change(Head(todo), 0)
    BY <2>2, <2>3 DEF Promise!Change
  <2>5. Promise!Delete(Head(todo))
    BY <2>1, <2>2, <2>4 DEF Promise!Delete
  <2> QED BY <2>1, <2>5 DEF Promise!Next
<1>4. CASE Sync
  <2>1. mode = "open" /\ UNCHANGED <<mode, live>> /\ possible' = [i \in Id |-> {live[i]}]
    BY <1>4 DEF Sync, memory, IInv, Placed
  <2>2. Promise!Commit
    BY <2>1 DEF Promise!Commit, Promise!Only
  <2> QED BY <2>2 DEF Promise!Next
<1>5. CASE CloseSynced
  <2>1. /\ mode = "open" /\ mode' = "closed" /\ ~stale /\ buf = <<>> /\ file' = file
        /\ possible' = [i \in Id |-> {live[i]}]
    BY <1>5 DEF CloseSynced, Memory, IInv, Placed, CrashInv, SafelyPlaced
  <2>2. live = Replay(Log)
    BY <2>1 DEF LogInv, Indexed, Matched
  <2>3. Replay(Log) = Replay(file)
    <3>1. Recs(file) \in Seq(Record) /\ Replay(Recs(file)) = Replay(file)
      BY <1>0, SeqTypes, RecsType
    <3> DEFINE f == Recs(file)
    <3>2. f \in Seq(Record)
      BY <3>1
    <3> HIDE DEF f
    <3>3. f \o <<>> = f
      BY <3>2, ConcatEmptySeq
    <3> QED BY <2>1, <3>1, <3>3 DEF Log, f
  <2>4. Promise!Commit
    BY <2>1, <2>2, <2>3 DEF Promise!Commit, Promise!Only
  <2> QED BY <2>4 DEF Promise!Next
<1>6. CASE PowerLoss
  <2>1. /\ mode' = "down" /\ buf' = <<>>
        /\ possible' = [i \in Id |-> {Replay(file')[i]}]
    BY <1>6 DEF PowerLoss, Forget, Memory
  <2>2. Replay(file') \in [Id -> 0..MaxTime]
    BY <1>0, SeqTypes, ReplayType
  <2>3. Possible(Replay(file'), possible)
    <3>1. ASSUME NEW k \in synced..Len(file), CutAt(k) PROVE Possible(Replay(file'), possible)
      <4>1. k \in 0..Len(file) /\ k \in synced..Len(Log) /\ Len(file) \in Nat
        <5>1. synced \in 0..Len(file) /\ Len(file) \in Nat /\ Len(buf) \in Nat /\ Len(Log) = Len(file) + Len(buf)
          BY <1>0, LogType, LenProperties DEF DiskOK, Clean
        <5> QED BY <5>1
      <4>2. Len(file') = k /\ Recs(file') = SubSeq(Log, 1, Len(file'))
        BY <1>0, <3>1, <4>1, CutAtLog
      <4>3. Replay(Recs(file')) = Replay(file')
        BY <1>0, SeqTypes, RecsType
      <4> QED BY <4>1, <4>2, <4>3 DEF CrashInv, Survivable
    <3>2. ASSUME MidWrite PROVE Possible(Replay(file'), possible)
      <4>1. mode = "open" /\ ~stale
        BY <3>2 DEF MidWrite, IInv, Placed
      <4>2. tail = "clean"
        BY <3>2, <4>1, ReadableTail DEF MidWrite, LogInv
      <4>3. Grown
        BY <1>0, <3>2, <4>2, MidWriteLog DEF Grown
      <4> QED BY <1>0, <2>1, <4>3, LeftOver
    <3>3. ASSUME file' \in shadows PROVE Possible(Replay(file'), possible)
      BY <3>3 DEF CrashInv, Survivable
    <3> QED BY <1>6, <3>1, <3>2, <3>3 DEF PowerLoss
  <2>4. Promise!LosePower
    BY <2>1, <2>2, <2>3 DEF Promise!LosePower, Promise!Survives, Promise!Only, Possible
  <2> QED BY <2>4 DEF Promise!Next
<1>7. CASE Rewrite \/ SyncDir \/ Reopen
  <2>1. mode = "open"
    BY <1>7 DEF Rewrite, SyncDir, Reopen, IInv, Placed
  <2> QED BY <1>1, <1>7, <2>1 DEF Rewrite, SyncDir, Reopen, Memory, memory, history
<1>8. CASE Open
  <2>1. \A k \in DOMAIN file : ~file[k].glued
    BY DEF LogInv, Readable, Unglued
  <2>2. mode # "open" /\ mode' = "open" /\ live' = Replay(file) /\ possible' = possible
    BY <1>8, <2>1 DEF Open, Memory, history
  <2> QED BY <2>2 DEF Entry
<1>9. CASE Stays /\ Keeps
  BY <1>1, <1>9 DEF Stays, Keeps
<1>10. CASE Quits /\ Keeps
  <2>1. buf' = <<>> /\ mode' # "open" /\ (file' = file \/ Grown) /\ possible' = possible
    BY <1>10 DEF Quits, Keeps, IInv, Placed
  <2>2. Replay(file') \in [Id -> 0..MaxTime] /\ Possible(Replay(file'), possible)
    BY <1>0, <2>1, LeftOver
  <2>3. Promise!Die
    BY <2>1, <2>2 DEF Promise!Die, Promise!Survives, Possible
  <2> QED BY <2>3 DEF Promise!Next
<1> QED
  BY <1>2, <1>3, <1>4, <1>5, <1>6, <1>7, <1>8, <1>9, <1>10, LogStep, KeepsStep DEF LogInv

\* Entries survive the death of the process and the loss of power as DurableMap
\* promises (store.go:1-9, compact.go:37-90): nothing is invented, no time
\* changes, what was committed stays, and what was purged stays away.  A cut
\* that takes a newline alone, and a compacted log that cannot be opened, are
\* excluded: the runs store_newline_corrupts and store_reopen_loses show what
\* goes wrong then.
THEOREM Implements ==
  ASSUME "noeol" \notin Faults, "reopen" \notin Faults
  PROVE  Spec => ImplementsDurableMap
<1>1. Init => Promise!Init
  <2> SUFFICES ASSUME Init PROVE Promise!Init
    OBVIOUS
  <2>1. mode # "open" /\ Replay(file) = Nothing /\ possible = [i \in Id |-> {0}]
    BY ReplayEmpty DEF Init
  <2> QED BY <2>1 DEF Promise!Init, Promise!Only, Nothing
<1>2. IInv /\ IInv' /\ LogInv /\ CrashInv /\ [Next]_vars => [Promise!Next]_(Promise!vars)
  BY StepPromise
<1> QED
  BY <1>1, <1>2, Invariance, LogInvariance, CrashInvariance, PTL
     DEF Spec, ImplementsDurableMap, Promise!Spec

=============================================================================
