---------------------------- MODULE Store_lemmas ----------------------------
(***************************************************************************)
(* What the proofs about Store need to know of its operators on logs: what *)
(* a replay returns, what it makes of one more record and of a shorter     *)
(* log, what writing behind the tail leaves in the file, and what the      *)
(* records that compaction writes replay to.                               *)
(*                                                                         *)
(* A log is looked at without its line ends: Recs(file) \o buf is what the *)
(* file and the buffered writer hold together.                             *)
(***************************************************************************)
EXTENDS Store, FiniteSetTheorems, SequenceTheorems, TLAPS

Item == Line \cup Record

\* The records of a file, without its line ends.
Recs(s) == [k \in DOMAIN s |-> [id |-> s[k].id, t |-> s[k].t]]

\* k is the last record of i in s.
Latest(s, i, k) ==
  /\ k \in 1..Len(s) /\ s[k].id = i
  /\ \A l \in 1..Len(s) : s[l].id = i => l <= k

\* Every record changes what is stored.
Alternates(s) ==
  \A k \in 1..Len(s) : s[k].t # 0 <=> Replay(SubSeq(s, 1, k - 1))[s[k].id] = 0

Unglued(s) == \A k \in DOMAIN s : ~s[k].glued

Stored(m) == {i \in Id : m[i] # 0}

-----------------------------------------------------------------------------
(***************************************************************************)
(* Sequences.                                                              *)
(***************************************************************************)
LEMMA ItemType ==
  ASSUME NEW s \in Seq(Item), NEW k \in 1..Len(s)
  PROVE  s[k].id \in Id /\ s[k].t \in 0..MaxTime
BY DEF Item, Line, Record

LEMMA SeqTypes == Seq(Record) \subseteq Seq(Item) /\ Seq(Line) \subseteq Seq(Item)
BY DEF Item

LEMMA PrefixProperties ==
  ASSUME NEW S, NEW s \in Seq(S), NEW k \in 0..Len(s)
  PROVE  /\ SubSeq(s, 1, k) \in Seq(S) /\ Len(SubSeq(s, 1, k)) = k
         /\ \A l \in 1..k : SubSeq(s, 1, k)[l] = s[l]
<1>1. \A l \in 1..k : s[l] \in S
  OBVIOUS
<1> QED BY <1>1, SubSeqProperties

LEMMA PrefixOfPrefix ==
  ASSUME NEW S, NEW s \in Seq(S), NEW k \in 0..Len(s), NEW l \in 0..k
  PROVE  SubSeq(SubSeq(s, 1, k), 1, l) = SubSeq(s, 1, l)
<1> DEFINE r == SubSeq(s, 1, k)
<1>1. r \in Seq(S) /\ Len(r) = k /\ \A j \in 1..k : r[j] = s[j]
  BY PrefixProperties
<1>2. SubSeq(r, 1, l) \in Seq(S) /\ Len(SubSeq(r, 1, l)) = l /\ \A j \in 1..l : SubSeq(r, 1, l)[j] = r[j]
  <2> HIDE DEF r
  <2> QED BY <1>1, PrefixProperties
<1>3. SubSeq(s, 1, l) \in Seq(S) /\ Len(SubSeq(s, 1, l)) = l /\ \A j \in 1..l : SubSeq(s, 1, l)[j] = s[j]
  BY PrefixProperties
<1>4. \A j \in 1..l : SubSeq(r, 1, l)[j] = SubSeq(s, 1, l)[j]
  BY <1>1, <1>2, <1>3
<1> QED BY <1>2, <1>3, <1>4, SeqEqual

LEMMA PrefixOfConcat ==
  ASSUME NEW S, NEW s \in Seq(S), NEW r \in Seq(S), NEW k \in 0..Len(r)
  PROVE  s \o SubSeq(r, 1, k) = SubSeq(s \o r, 1, Len(s) + k)
<1>1. SubSeq(r, 1, k) \in Seq(S) /\ Len(SubSeq(r, 1, k)) = k /\ \A j \in 1..k : SubSeq(r, 1, k)[j] = r[j]
  BY PrefixProperties
<1>2. /\ s \o r \in Seq(S) /\ Len(s \o r) = Len(s) + Len(r)
      /\ \A j \in 1..Len(s) + Len(r) : (s \o r)[j] = IF j <= Len(s) THEN s[j] ELSE r[j - Len(s)]
  BY ConcatProperties
<1> DEFINE a == s \o SubSeq(r, 1, k)
           b == SubSeq(s \o r, 1, Len(s) + k)
<1>3. /\ a \in Seq(S) /\ Len(a) = Len(s) + k
      /\ \A j \in 1..Len(s) + k : a[j] = IF j <= Len(s) THEN s[j] ELSE SubSeq(r, 1, k)[j - Len(s)]
  BY <1>1, ConcatProperties
<1>4. /\ b \in Seq(S) /\ Len(b) = Len(s) + k
      /\ \A j \in 1..Len(s) + k : b[j] = (s \o r)[j]
  <2>1. Len(s) + k \in 0..Len(s \o r)
    BY <1>2
  <2> QED BY <1>2, <2>1, PrefixProperties
<1>5. ASSUME NEW j \in 1..Len(s) + k PROVE a[j] = b[j]
  <2> HIDE DEF a, b
  <2>1. CASE j <= Len(s)
    BY <1>2, <1>3, <1>4, <2>1
  <2>2. CASE j > Len(s)
    <3>1. j - Len(s) \in 1..k /\ j \in 1..Len(s) + Len(r) /\ ~(j <= Len(s))
      BY <2>2
    <3>2. a[j] = SubSeq(r, 1, k)[j - Len(s)]
      BY <1>3, <3>1
    <3>3. b[j] = r[j - Len(s)]
      BY <1>2, <1>4, <3>1
    <3> QED BY <1>1, <3>1, <3>2, <3>3
  <2> QED BY <2>1, <2>2
<1> HIDE DEF a, b
<1>6. a = b
  BY <1>3, <1>4, <1>5, SeqEqual
<1> QED BY <1>6 DEF a, b

LEMMA PrefixIsPrefix ==
  ASSUME NEW S, NEW s \in Seq(S), NEW r \in Seq(S)
  PROVE  \A k \in 0..Len(s) : SubSeq(s \o r, 1, k) = SubSeq(s, 1, k)
<1> SUFFICES ASSUME NEW k \in 0..Len(s) PROVE SubSeq(s \o r, 1, k) = SubSeq(s, 1, k)
  OBVIOUS
<1>1. /\ s \o r \in Seq(S) /\ Len(s \o r) = Len(s) + Len(r)
      /\ \A j \in 1..Len(s) : (s \o r)[j] = s[j]
  BY ConcatProperties
<1> DEFINE c == s \o r
<1> HIDE DEF c
<1>2. /\ SubSeq(c, 1, k) \in Seq(S) /\ Len(SubSeq(c, 1, k)) = k
      /\ \A j \in 1..k : SubSeq(c, 1, k)[j] = c[j]
  BY <1>1, PrefixProperties DEF c
<1>3. /\ SubSeq(s, 1, k) \in Seq(S) /\ Len(SubSeq(s, 1, k)) = k
      /\ \A j \in 1..k : SubSeq(s, 1, k)[j] = s[j]
  BY PrefixProperties
<1>4. \A j \in 1..k : SubSeq(c, 1, k)[j] = SubSeq(s, 1, k)[j]
  BY <1>1, <1>2, <1>3 DEF c
<1>5. SubSeq(c, 1, k) = SubSeq(s, 1, k)
  BY <1>2, <1>3, <1>4, SeqEqual
<1> QED BY <1>5 DEF c

-----------------------------------------------------------------------------
(***************************************************************************)
(* Replaying.                                                              *)
(***************************************************************************)
\* A set of places in a log has a greatest one.
LEMMA Greatest ==
  ASSUME NEW n \in Nat, NEW K, K \subseteq 1..n, K # {}
  PROVE  \E k \in K : \A l \in K : l <= k
<1> DEFINE U == {m \in Nat : \A l \in K : l <= m}
<1>1. n \in U /\ U \subseteq Nat
  OBVIOUS
<1>2. PICK m \in U : \A y \in U : ~(<<y, m>> \in OpToRel(<, Nat))
  <2>1. U # {}
    BY <1>1
  <2> QED BY <1>1, <2>1, NatLessThanWellFounded, WFMin
<1>3. \A y \in U : ~(y < m)
  BY <1>2 DEF OpToRel
<1>4. m \in K
  <2> SUFFICES ASSUME m \notin K PROVE FALSE
    OBVIOUS
  <2>1. m \in Nat /\ \A l \in K : l <= m
    BY <1>2
  <2>2. K # {} /\ \A l \in K : l \in Nat /\ l >= 1 /\ l # m
    OBVIOUS
  <2>3. \A l \in K : l <= m - 1
    BY <2>1, <2>2
  <2>5. m - 1 \in Nat
    <3>1. PICK l \in K : TRUE
      OBVIOUS
    <3>2. l \in Nat /\ l >= 1 /\ l <= m
      BY <2>1, <2>2
    <3> QED BY <2>1, <3>2
  <2>4. m - 1 \in U
    BY <2>3, <2>5
  <2> QED BY <1>3, <2>1, <2>4
<1> QED BY <1>2, <1>4

LEMMA HasLatest ==
  ASSUME NEW s \in Seq(Item), NEW k \in 1..Len(s)
  PROVE  \E l \in 1..Len(s) : Latest(s, s[k].id, l)
<1> DEFINE K == {l \in 1..Len(s) : s[l].id = s[k].id}
<1>1. K \subseteq 1..Len(s) /\ k \in K /\ Len(s) \in Nat
  OBVIOUS
<1>2. PICK m \in K : \A l \in K : l <= m
  BY <1>1, Greatest
<1> QED BY <1>2 DEF Latest

LEMMA ReplayLatest ==
  ASSUME NEW s \in Seq(Item), NEW i \in Id, NEW k, Latest(s, i, k)
  PROVE  Replay(s)[i] = s[k].t
<1> DEFINE of == {l \in DOMAIN s : s[l].id = i}
           top == CHOOSE l \in of : \A m \in of : m <= l
<1>1. DOMAIN s = 1..Len(s)
  OBVIOUS
<1>2. k \in of /\ \A m \in of : m <= k
  BY <1>1 DEF Latest
<1>3. top \in of /\ \A m \in of : m <= top
  BY <1>2
<1>4. top = k
  BY <1>1, <1>2, <1>3
<1>5. Replay(s)[i] = IF of = {} THEN 0 ELSE s[top].t
  BY DEF Replay
<1> QED BY <1>2, <1>4, <1>5

LEMMA ReplayNone ==
  ASSUME NEW s \in Seq(Item), NEW i \in Id, \A k \in 1..Len(s) : s[k].id # i
  PROVE  Replay(s)[i] = 0
BY DEF Replay

LEMMA ReplayType ==
  ASSUME NEW s \in Seq(Item)
  PROVE  Replay(s) \in [Id -> 0..MaxTime]
<1>1. ASSUME NEW i \in Id PROVE Replay(s)[i] \in 0..MaxTime
  <2>1. CASE \E k \in 1..Len(s) : s[k].id = i
    <3>1. PICK l \in 1..Len(s) : Latest(s, i, l)
      BY <2>1, HasLatest
    <3> QED BY <3>1, ReplayLatest, ItemType
  <2>2. CASE \A k \in 1..Len(s) : s[k].id # i
    BY <2>2, ReplayNone, BoundsAssumption
  <2> QED BY <2>1, <2>2
<1>2. Replay(s) = [i \in Id |-> Replay(s)[i]]
  BY DEF Replay
<1> QED BY <1>1, <1>2

\* Only ids and times matter.
LEMMA ReplaySame ==
  ASSUME NEW s \in Seq(Item), NEW r \in Seq(Item), Len(s) = Len(r),
         \A k \in 1..Len(s) : s[k].id = r[k].id /\ s[k].t = r[k].t
  PROVE  Replay(s) = Replay(r)
<1>1. ASSUME NEW i \in Id PROVE Replay(s)[i] = Replay(r)[i]
  <2>1. CASE \E k \in 1..Len(s) : s[k].id = i
    <3>1. PICK l \in 1..Len(s) : Latest(s, i, l)
      BY <2>1, HasLatest
    <3>2. Latest(r, i, l)
      BY <3>1 DEF Latest
    <3> QED BY <3>1, <3>2, ReplayLatest
  <2>2. CASE \A k \in 1..Len(s) : s[k].id # i
    <3>1. Replay(s)[i] = 0
      BY <2>2, ReplayNone
    <3>2. \A k \in 1..Len(r) : r[k].id # i
      BY <2>2
    <3>3. Replay(r)[i] = 0
      BY <3>2, ReplayNone
    <3> QED BY <3>1, <3>3
  <2> QED BY <2>1, <2>2
<1> QED BY <1>1 DEF Replay

LEMMA ReplayEmpty == Replay(<<>>) = Nothing
<1>1. <<>> \in Seq(Item) /\ Len(<<>>) = 0
  BY EmptySeq
<1>2. ASSUME NEW i \in Id PROVE Replay(<<>>)[i] = 0
  <2>1. \A k \in 1..Len(<<>>) : <<>>[k].id # i
    BY <1>1
  <2> QED BY <1>1, <2>1, ReplayNone
<1> QED BY <1>2 DEF Replay, Nothing

\* One more record changes the value of its id and no other.
LEMMA ReplayAppend ==
  ASSUME NEW s \in Seq(Record), NEW r \in Record
  PROVE  Replay(Append(s, r)) = [Replay(s) EXCEPT ![r.id] = r.t]
<1> DEFINE a == Append(s, r)
<1>1. /\ a \in Seq(Record) /\ Len(a) = Len(s) + 1
      /\ \A k \in 1..Len(s) : a[k] = s[k]
      /\ a[Len(s) + 1] = r
  BY AppendProperties
<1> HIDE DEF a
<1>2. a \in Seq(Item) /\ s \in Seq(Item) /\ Len(s) \in Nat /\ r.id \in Id /\ r.t \in 0..MaxTime
  <2>1. r.id \in Id /\ r.t \in 0..MaxTime
    BY DEF Record
  <2> QED BY <1>1, <2>1, SeqTypes
<1>3. Latest(a, r.id, Len(s) + 1)
  BY <1>1, <1>2 DEF Latest
<1>4. Replay(a)[r.id] = r.t
  BY <1>1, <1>2, <1>3, ReplayLatest
<1>5. ASSUME NEW i \in Id, i # r.id PROVE Replay(a)[i] = Replay(s)[i]
  <2>1. CASE \E k \in 1..Len(s) : s[k].id = i
    <3>1. PICK l \in 1..Len(s) : Latest(s, i, l)
      BY <1>2, <2>1, HasLatest
    <3>2. Latest(a, i, l)
      BY <1>1, <1>2, <1>5, <3>1 DEF Latest
    <3> QED BY <1>1, <1>2, <3>1, <3>2, ReplayLatest
  <2>2. CASE \A k \in 1..Len(s) : s[k].id # i
    <3>1. \A k \in 1..Len(a) : a[k].id # i
      BY <1>1, <1>2, <1>5, <2>2
    <3>2. Replay(a)[i] = 0 /\ Replay(s)[i] = 0
      BY <1>2, <2>2, <3>1, ReplayNone
    <3> QED BY <3>2
  <2> QED BY <2>1, <2>2
<1>6. Replay(a) = [i \in Id |-> Replay(a)[i]] /\ Replay(s) = [i \in Id |-> Replay(s)[i]]
  BY DEF Replay
<1>7. Replay(a) = [Replay(s) EXCEPT ![r.id] = r.t]
  BY <1>2, <1>4, <1>5, <1>6
<1> QED BY <1>7 DEF a

-----------------------------------------------------------------------------
(***************************************************************************)
(* Logs in which every record changes something.                           *)
(***************************************************************************)
LEMMA AlternatesPrefix ==
  ASSUME NEW s \in Seq(Record), Alternates(s), NEW k \in 0..Len(s)
  PROVE  Alternates(SubSeq(s, 1, k))
<1> DEFINE p == SubSeq(s, 1, k)
<1>1. p \in Seq(Record) /\ Len(p) = k /\ \A l \in 1..k : p[l] = s[l]
  BY PrefixProperties
<1>2. \A l \in 1..k : SubSeq(p, 1, l - 1) = SubSeq(s, 1, l - 1)
  BY PrefixOfPrefix
<1> HIDE DEF p
<1>3. ASSUME NEW l \in 1..Len(p) PROVE p[l].t # 0 <=> Replay(SubSeq(p, 1, l - 1))[p[l].id] = 0
  <2>1. l \in 1..k /\ l \in 1..Len(s)
    BY <1>1
  <2>2. p[l] = s[l] /\ SubSeq(p, 1, l - 1) = SubSeq(s, 1, l - 1)
    BY <1>1, <1>2, <2>1
  <2> QED BY <2>1, <2>2 DEF Alternates
<1>4. Alternates(p)
  BY <1>3 DEF Alternates
<1> QED BY <1>4 DEF p

LEMMA AppendPrefixes ==
  ASSUME NEW s \in Seq(Record), NEW r \in Record
  PROVE  /\ \A k \in 0..Len(s) : SubSeq(Append(s, r), 1, k) = SubSeq(s, 1, k)
         /\ SubSeq(Append(s, r), 1, Len(s)) = s
         /\ SubSeq(Append(s, r), 1, Len(s) + 1) = Append(s, r)
<1>1. <<r>> \in Seq(Record) /\ Append(s, r) = s \o <<r>>
  BY AppendIsConcat
<1>2. \A k \in 0..Len(s) : SubSeq(s \o <<r>>, 1, k) = SubSeq(s, 1, k)
  BY <1>1, PrefixIsPrefix
<1>3. SubSeq(s, 1, Len(s)) = s
  BY SubSeqFull
<1>4. Append(s, r) \in Seq(Record) /\ Len(Append(s, r)) = Len(s) + 1
  BY AppendProperties
<1>5. SubSeq(Append(s, r), 1, Len(Append(s, r))) = Append(s, r)
  BY <1>4, SubSeqFull
<1>6. Len(s) \in 0..Len(s)
  BY LenProperties
<1> QED BY <1>1, <1>2, <1>3, <1>4, <1>5, <1>6

LEMMA AlternatesAppend ==
  ASSUME NEW s \in Seq(Record), NEW r \in Record, Alternates(s),
         r.t # 0 <=> Replay(s)[r.id] = 0
  PROVE  Alternates(Append(s, r))
<1> DEFINE a == Append(s, r)
<1>1. /\ a \in Seq(Record) /\ Len(a) = Len(s) + 1
      /\ \A k \in 1..Len(s) : a[k] = s[k]
      /\ a[Len(s) + 1] = r
  BY AppendProperties
<1>2. /\ \A k \in 0..Len(s) : SubSeq(a, 1, k) = SubSeq(s, 1, k)
      /\ SubSeq(a, 1, Len(s)) = s
  BY AppendPrefixes
<1> HIDE DEF a
<1>3. Len(s) \in Nat
  BY LenProperties
<1>4. ASSUME NEW k \in 1..Len(a) PROVE a[k].t # 0 <=> Replay(SubSeq(a, 1, k - 1))[a[k].id] = 0
  <2>1. CASE k = Len(s) + 1
    <3>1. k - 1 = Len(s)
      BY <1>3, <2>1
    <3> QED BY <1>1, <1>2, <2>1, <3>1
  <2>2. CASE k \in 1..Len(s)
    <3>1. k - 1 \in 0..Len(s)
      BY <1>3, <2>2
    <3>2. a[k] = s[k] /\ SubSeq(a, 1, k - 1) = SubSeq(s, 1, k - 1)
      BY <1>1, <1>2, <2>2, <3>1
    <3> QED BY <2>2, <3>2 DEF Alternates
  <2> QED BY <1>1, <1>3, <2>1, <2>2
<1>5. Alternates(a)
  BY <1>4 DEF Alternates
<1> QED BY <1>5 DEF a

\* The value of an id before its k-th record, told from the places of its
\* records.
LEMMA ValueBefore ==
  ASSUME NEW s \in Seq(Item), NEW k \in 1..Len(s)
  PROVE  LET before == {j \in 1..k-1 : s[j].id = s[k].id}
         IN  Replay(SubSeq(s, 1, k - 1))[s[k].id] # 0 <=> before # {} /\ s[Max(before)].t # 0
<1> DEFINE before == {j \in 1..k-1 : s[j].id = s[k].id}
           p == SubSeq(s, 1, k - 1)
           i == s[k].id
<1>0. i \in Id
  BY ItemType
<1>1. p \in Seq(Item) /\ Len(p) = k - 1 /\ \A l \in 1..k-1 : p[l] = s[l]
  <2>1. k - 1 \in 0..Len(s)
    OBVIOUS
  <2> QED BY <2>1, PrefixProperties
<1> HIDE DEF p
<1>2. CASE before = {}
  <2>1. \A l \in 1..Len(p) : p[l].id # i
    BY <1>1, <1>2
  <2>2. Replay(p)[i] = 0
    BY <1>0, <1>1, <2>1, ReplayNone
  <2> QED BY <1>2, <2>2 DEF p
<1>3. CASE before # {}
  <2>1. PICK m \in before : \A l \in before : l <= m
    <3>1. before \subseteq 1..k-1 /\ k - 1 \in Nat
      OBVIOUS
    <3> QED BY <1>3, <3>1, Greatest
  <2>2. \A l \in before : l \in Int
    OBVIOUS
  <2>3. Max(before) = m
    <3> HIDE DEF before
    <3>1. m \in before /\ \A l \in before : m >= l
      BY <2>1, <2>2
    <3>2. \A x \in before : (\A y \in before : x >= y) => x = m
      BY <2>2, <3>1
    <3> QED BY <3>1, <3>2 DEF Max
  <2>4. Latest(p, i, m)
    BY <1>1, <2>1 DEF Latest
  <2>5. Replay(p)[i] = p[m].t
    BY <1>0, <1>1, <2>4, ReplayLatest
  <2>6. Replay(p)[i] = s[m].t
    BY <1>1, <2>1, <2>5
  <2> QED BY <1>3, <2>3, <2>6 DEF p
<1> QED BY <1>2, <1>3

-----------------------------------------------------------------------------
(***************************************************************************)
(* The file and its records.                                               *)
(***************************************************************************)
LEMMA RecsType ==
  ASSUME NEW s \in Seq(Item)
  PROVE  /\ Recs(s) \in Seq(Record) /\ Len(Recs(s)) = Len(s)
         /\ \A k \in 1..Len(s) : Recs(s)[k].id = s[k].id /\ Recs(s)[k].t = s[k].t
         /\ Replay(Recs(s)) = Replay(s)
<1>1. DOMAIN s = 1..Len(s) /\ Len(s) \in Nat
  OBVIOUS
<1>2. Recs(s) \in [1..Len(s) -> Record]
  BY <1>1, ItemType DEF Recs, Record
<1>3. Recs(s) \in Seq(Record) /\ Len(Recs(s)) = Len(s)
  BY <1>1, <1>2
<1>4. \A k \in 1..Len(s) : Recs(s)[k].id = s[k].id /\ Recs(s)[k].t = s[k].t
  BY <1>1 DEF Recs
<1>5. Replay(Recs(s)) = Replay(s)
  BY <1>3, <1>4, SeqTypes, ReplaySame
<1> QED BY <1>3, <1>4, <1>5

LEMMA RecsOfRecords ==
  ASSUME NEW s \in Seq(Record)
  PROVE  Recs(s) = s
<1>1. s \in Seq(Item)
  BY SeqTypes
<1>2. ASSUME NEW k \in 1..Len(s) PROVE Recs(s)[k] = s[k]
  <2>1. s[k] \in Record /\ k \in DOMAIN s
    OBVIOUS
  <2> QED BY <2>1 DEF Recs, Record
<1> QED BY <1>1, <1>2, RecsType, SeqEqual

LEMMA RecsPrefix ==
  ASSUME NEW s \in Seq(Item), NEW k \in 0..Len(s)
  PROVE  Recs(SubSeq(s, 1, k)) = SubSeq(Recs(s), 1, k)
<1> DEFINE p == SubSeq(s, 1, k)
           q == SubSeq(Recs(s), 1, k)
<1>1. p \in Seq(Item) /\ Len(p) = k /\ \A l \in 1..k : p[l] = s[l]
  BY PrefixProperties
<1>2. Recs(s) \in Seq(Record) /\ Len(Recs(s)) = Len(s)
  BY RecsType
<1>3. q \in Seq(Record) /\ Len(q) = k /\ \A l \in 1..k : q[l] = Recs(s)[l]
  BY <1>2, PrefixProperties
<1> HIDE DEF p, q
<1>4. Recs(p) \in Seq(Record) /\ Len(Recs(p)) = k
  BY <1>1, RecsType
<1>5. ASSUME NEW l \in 1..k PROVE Recs(p)[l] = q[l]
  <2>1. l \in DOMAIN p /\ l \in DOMAIN s /\ p[l] = s[l] /\ q[l] = Recs(s)[l]
    BY <1>1, <1>3
  <2> QED BY <2>1 DEF Recs
<1>6. Recs(p) = q
  BY <1>3, <1>4, <1>5, SeqEqual
<1> QED BY <1>6 DEF p, q

LEMMA AsLinesType ==
  ASSUME NEW r \in Seq(Record)
  PROVE  /\ AsLines(r) \in Seq(Line) /\ Len(AsLines(r)) = Len(r)
         /\ Unglued(AsLines(r)) /\ Recs(AsLines(r)) = r
<1>1. DOMAIN r = 1..Len(r) /\ Len(r) \in Nat /\ \A k \in 1..Len(r) : r[k] \in Record
  OBVIOUS
<1>2. AsLines(r) \in [1..Len(r) -> Line]
  BY <1>1 DEF AsLines, Line, Record
<1>3. AsLines(r) \in Seq(Line) /\ Len(AsLines(r)) = Len(r)
  BY <1>1, <1>2
<1>4. Unglued(AsLines(r))
  BY <1>1 DEF Unglued, AsLines
<1>5. ASSUME NEW k \in 1..Len(r) PROVE Recs(AsLines(r))[k] = r[k]
  <2>1. AsLines(r)[k].id = r[k].id /\ AsLines(r)[k].t = r[k].t /\ k \in DOMAIN AsLines(r)
    BY <1>1 DEF AsLines
  <2> QED BY <1>1, <2>1 DEF Recs, Record
<1>6. Recs(AsLines(r)) \in Seq(Record) /\ Len(Recs(AsLines(r))) = Len(r)
  BY <1>3, SeqTypes, RecsType
<1>7. Recs(AsLines(r)) = r
  BY <1>5, <1>6, SeqEqual
<1> QED BY <1>3, <1>4, <1>7

LEMMA RecsConcat ==
  ASSUME NEW s \in Seq(Item), NEW r \in Seq(Item)
  PROVE  Recs(s \o r) = Recs(s) \o Recs(r)
<1> DEFINE c == s \o r
           d == Recs(s) \o Recs(r)
<1>1. /\ c \in Seq(Item) /\ Len(c) = Len(s) + Len(r)
      /\ \A j \in 1..Len(s) + Len(r) : c[j] = IF j <= Len(s) THEN s[j] ELSE r[j - Len(s)]
  BY ConcatProperties
<1>2. /\ Recs(s) \in Seq(Record) /\ Len(Recs(s)) = Len(s)
      /\ Recs(r) \in Seq(Record) /\ Len(Recs(r)) = Len(r)
  BY RecsType
<1>3. /\ d \in Seq(Record) /\ Len(d) = Len(s) + Len(r)
      /\ \A j \in 1..Len(s) + Len(r) : d[j] = IF j <= Len(s) THEN Recs(s)[j] ELSE Recs(r)[j - Len(s)]
  <2> DEFINE u == Recs(s)
             v == Recs(r)
  <2> HIDE DEF u, v
  <2>1. /\ u \o v \in Seq(Record) /\ Len(u \o v) = Len(u) + Len(v)
        /\ \A j \in 1..Len(u) + Len(v) : (u \o v)[j] = IF j <= Len(u) THEN u[j] ELSE v[j - Len(u)]
    BY <1>2, ConcatProperties DEF u, v
  <2> QED BY <1>2, <2>1 DEF u, v
<1> HIDE DEF c, d
<1>4. Recs(c) \in Seq(Record) /\ Len(Recs(c)) = Len(s) + Len(r)
  BY <1>1, RecsType
<1>5. ASSUME NEW j \in 1..Len(s) + Len(r) PROVE Recs(c)[j] = d[j]
  <2>1. Recs(c)[j] = [id |-> c[j].id, t |-> c[j].t]
    BY <1>1 DEF Recs
  <2>2. CASE j <= Len(s)
    <3>1. j \in DOMAIN s /\ c[j] = s[j] /\ d[j] = Recs(s)[j]
      BY <1>1, <1>3, <2>2
    <3> QED BY <2>1, <3>1 DEF Recs
  <2>3. CASE ~(j <= Len(s))
    <3>1. j - Len(s) \in DOMAIN r /\ c[j] = r[j - Len(s)] /\ d[j] = Recs(r)[j - Len(s)]
      BY <1>1, <1>3, <2>3
    <3> QED BY <2>1, <3>1 DEF Recs
  <2> QED BY <2>2, <2>3
<1>6. Recs(c) = d
  BY <1>3, <1>4, <1>5, SeqEqual
<1> QED BY <1>6 DEF c, d

\* The file and the buffer replay to what their records replay to.
LEMMA ReplayLog ==
  ASSUME NEW s \in Seq(Line), NEW r \in Seq(Record)
  PROVE  /\ s \o r \in Seq(Item) /\ Len(s \o r) = Len(s) + Len(r)
         /\ Recs(s \o r) = Recs(s) \o r
         /\ Replay(s \o r) = Replay(Recs(s) \o r)
<1>1. s \in Seq(Item) /\ r \in Seq(Item)
  BY SeqTypes
<1>2. s \o r \in Seq(Item) /\ Len(s \o r) = Len(s) + Len(r)
  BY <1>1, ConcatProperties
<1>3. Recs(s \o r) = Recs(s) \o r
  <2>1. Recs(s \o r) = Recs(s) \o Recs(r)
    BY <1>1, RecsConcat
  <2> QED BY <2>1, RecsOfRecords
<1>4. Replay(Recs(s \o r)) = Replay(s \o r)
  BY <1>2, RecsType
<1> QED BY <1>2, <1>3, <1>4

\* Records written behind a line that is complete.
LEMMA ExtendedClean ==
  ASSUME file \in Seq(Line), NEW r \in Seq(Record), r = <<>> \/ tail = "clean"
  PROVE  /\ Extended(r) \in Seq(Line) /\ Len(Extended(r)) = Len(file) + Len(r)
         /\ Recs(Extended(r)) = Recs(file) \o r
         /\ Unglued(file) => Unglued(Extended(r))
<1>1. Extended(r) = file \o AsLines(r)
  BY DEF Extended
<1>2. /\ AsLines(r) \in Seq(Line) /\ Len(AsLines(r)) = Len(r)
      /\ Unglued(AsLines(r)) /\ Recs(AsLines(r)) = r
  BY AsLinesType
<1> DEFINE a == AsLines(r)
           e == file \o a
<1> HIDE DEF a
<1>3. /\ e \in Seq(Line) /\ Len(e) = Len(file) + Len(r)
      /\ \A j \in 1..Len(file) + Len(r) : e[j] = IF j <= Len(file) THEN file[j] ELSE a[j - Len(file)]
  <2>1. /\ e \in Seq(Line) /\ Len(e) = Len(file) + Len(a)
        /\ \A j \in 1..Len(file) + Len(a) : e[j] = IF j <= Len(file) THEN file[j] ELSE a[j - Len(file)]
    BY <1>2, ConcatProperties DEF a
  <2> QED BY <1>2, <2>1 DEF a
<1>4. Recs(e) = Recs(file) \o r
  BY <1>2, SeqTypes, RecsConcat DEF a
<1>5. ASSUME Unglued(file) PROVE Unglued(e)
  <2> HIDE DEF e
  <2> SUFFICES ASSUME NEW j \in 1..Len(file) + Len(r) PROVE ~e[j].glued
    BY <1>3 DEF Unglued
  <2>1. CASE j <= Len(file)
    BY <1>3, <1>5, <2>1 DEF Unglued
  <2>2. CASE ~(j <= Len(file))
    <3>1. j - Len(file) \in DOMAIN a /\ e[j] = a[j - Len(file)]
      BY <1>2, <1>3, <2>2 DEF a
    <3> QED BY <1>2, <3>1 DEF Unglued, a
  <2> QED BY <2>1, <2>2
<1> QED BY <1>1, <1>3, <1>4, <1>5 DEF a

LEMMA GluedLine ==
  ASSUME NEW l \in Line, NEW g \in BOOLEAN
  PROVE  [l EXCEPT !.glued = g] \in Line
<1>1. PICK i \in Id, t \in 0..MaxTime, h \in BOOLEAN : l = [id |-> i, t |-> t, glued |-> h]
  BY DEF Line
<1>2. [l EXCEPT !.glued = g] = [id |-> i, t |-> t, glued |-> g]
  BY <1>1
<1>3. [id |-> i, t |-> t, glued |-> g] \in Line
  BY DEF Line
<1> QED BY <1>2, <1>3

\* Records written behind any tail: one line may swallow another.
LEMMA ExtendedType ==
  ASSUME file \in Seq(Line), tail \in {"clean", "torn", "noeol"}, NEW r \in Seq(Record)
  PROVE  /\ Extended(r) \in Seq(Line)
         /\ Len(file) <= Len(Extended(r)) /\ Len(Extended(r)) <= Len(file) + Len(r)
<1> DEFINE ls == AsLines(r)
<1>1. ls \in Seq(Line) /\ Len(ls) = Len(r) /\ Len(r) \in Nat /\ Len(file) \in Nat
  BY AsLinesType, LenProperties
<1>2. CASE r = <<>> \/ tail = "clean"
  BY <1>1, <1>2, ExtendedClean
<1> HIDE DEF ls
<1>3. CASE r # <<>> /\ tail = "torn"
  <2> DEFINE g == [ls EXCEPT ![1].glued = TRUE]
  <2>1. 1 \in 1..Len(ls)
    BY <1>1, <1>3, EmptySeq
  <2>2. [ls[1] EXCEPT !.glued = TRUE] \in Line
    <3>1. ls[1] \in Line
      BY <1>1, <2>1, ElementOfSeq
    <3> QED BY <3>1, GluedLine, Zenon
  <2>3. g = [ls EXCEPT ![1] = [ls[1] EXCEPT !.glued = TRUE]]
    OBVIOUS
  <2>4. g \in Seq(Line) /\ Len(g) = Len(ls)
    BY <1>1, <2>1, <2>2, <2>3, ExceptSeq
  <2> HIDE DEF g
  <2>5. file \o g \in Seq(Line) /\ Len(file \o g) = Len(file) + Len(g)
    BY <2>4, ConcatProperties
  <2>6. Extended(r) = file \o g
    BY <1>3 DEF Extended, ls, g
  <2> QED BY <1>1, <2>4, <2>5, <2>6
<1>4. CASE r # <<>> /\ tail = "noeol"
  <2> DEFINE g == [file EXCEPT ![Len(file)].glued = TRUE]
  <2>1. g \in Seq(Line) /\ Len(g) = Len(file)
    <3>1. CASE Len(file) \in 1..Len(file)
      <4>1. [file[Len(file)] EXCEPT !.glued = TRUE] \in Line
        <5>1. file[Len(file)] \in Line
          BY <3>1, ElementOfSeq
        <5> QED BY <5>1, GluedLine, Zenon
      <4>2. g = [file EXCEPT ![Len(file)] = [file[Len(file)] EXCEPT !.glued = TRUE]]
        OBVIOUS
      <4> QED BY <3>1, <4>1, <4>2, ExceptSeq
    <3>2. CASE Len(file) = 0
      <4>1. g = file
        BY <3>2
      <4> QED BY <4>1
    <3> QED BY <1>1, <3>1, <3>2
  <2>2. Tail(ls) \in Seq(Line) /\ Len(Tail(ls)) = Len(ls) - 1 /\ Len(ls) >= 1
    <3>1. ls # <<>>
      BY <1>1, <1>4, EmptySeq
    <3> QED BY <1>1, <3>1, HeadTailProperties, EmptySeq
  <2> HIDE DEF g
  <2>3. g \o Tail(ls) \in Seq(Line) /\ Len(g \o Tail(ls)) = Len(g) + Len(Tail(ls))
    <3> DEFINE u == Tail(ls)
    <3> HIDE DEF u
    <3>1. u \in Seq(Line)
      BY <2>2 DEF u
    <3>2. g \o u \in Seq(Line) /\ Len(g \o u) = Len(g) + Len(u)
      BY <2>1, <3>1, ConcatProperties
    <3> QED BY <3>2 DEF u
  <2>4. Extended(r) = g \o Tail(ls)
    BY <1>4 DEF Extended, ls, g
  <2> QED BY <1>1, <2>1, <2>2, <2>3, <2>4
<1> QED BY <1>2, <1>3, <1>4

-----------------------------------------------------------------------------
(***************************************************************************)
(* Counting.                                                               *)
(***************************************************************************)
LEMMA Smaller ==
  ASSUME NEW a \in Int, NEW b \in Int
  PROVE  Min({a, b}) = IF a <= b THEN a ELSE b
<1>1. \A x \in {a, b} : (\A y \in {a, b} : x <= y) => x = IF a <= b THEN a ELSE b
  OBVIOUS
<1>2. \E x \in {a, b} : \A y \in {a, b} : x <= y
  OBVIOUS
<1> QED BY <1>1, <1>2 DEF Min

LEMMA Greater ==
  ASSUME NEW a \in Int, NEW b \in Int
  PROVE  Max({a, b}) = IF a <= b THEN b ELSE a
<1>1. \A x \in {a, b} : (\A y \in {a, b} : x >= y) => x = IF a <= b THEN b ELSE a
  OBVIOUS
<1>2. \E x \in {a, b} : \A y \in {a, b} : x >= y
  OBVIOUS
<1> QED BY <1>1, <1>2 DEF Max

LEMMA StoredFinite == \A m : IsFiniteSet(Stored(m)) /\ Cardinality(Stored(m)) \in Nat
<1> SUFFICES ASSUME NEW m PROVE IsFiniteSet(Stored(m)) /\ Cardinality(Stored(m)) \in Nat
  OBVIOUS
<1>1. Stored(m) \in SUBSET Id
  BY DEF Stored
<1> QED BY <1>1, IdAssumption, FS_Subset, FS_CardinalityType

\* An index grows by one entry at a time.
LEMMA StoredUpdate ==
  ASSUME NEW m \in [Id -> 0..MaxTime], NEW i \in Id, NEW t
  PROVE  Cardinality(Stored([m EXCEPT ![i] = t])) <= Cardinality(Stored(m)) + 1
<1> DEFINE S == Stored(m)
           U == Stored([m EXCEPT ![i] = t])
<1>1. IsFiniteSet(S) /\ Cardinality(S) \in Nat /\ Cardinality(U) \in Nat
  BY StoredFinite
<1>2. U \subseteq S \cup {i}
  BY DEF Stored
<1> HIDE DEF S, U
<1>3. IsFiniteSet(S \cup {i}) /\ Cardinality(S \cup {i}) <= Cardinality(S) + 1
  <2>1. Cardinality(S \cup {i}) = IF i \in S THEN Cardinality(S) ELSE Cardinality(S) + 1
    BY <1>1, FS_AddElement
  <2> QED BY <1>1, <2>1, FS_AddElement
<1>4. Cardinality(U) <= Cardinality(S \cup {i}) /\ Cardinality(S \cup {i}) \in Nat
  BY <1>2, <1>3, FS_Subset, FS_CardinalityType
<1>5. Cardinality(U) <= Cardinality(S) + 1
  BY <1>1, <1>3, <1>4
<1> QED BY <1>5 DEF S, U

\* A log holds at least as many records as it stores entries.
LEMMA StoredReplayed ==
  ASSUME NEW s \in Seq(Item)
  PROVE  Cardinality(Stored(Replay(s))) <= Len(s)
<1> DEFINE S == Stored(Replay(s))
           f == [i \in S |-> CHOOSE k \in 1..Len(s) : Latest(s, i, k)]
<1>1. ASSUME NEW i \in S PROVE f[i] \in 1..Len(s) /\ s[f[i]].id = i
  <2>1. i \in Id /\ Replay(s)[i] # 0
    BY DEF Stored
  <2>2. PICK l \in 1..Len(s) : s[l].id = i
    BY <2>1, ReplayNone
  <2>3. \E k \in 1..Len(s) : Latest(s, i, k)
    BY <2>2, HasLatest
  <2>4. f[i] \in 1..Len(s) /\ Latest(s, i, f[i])
    BY <2>3
  <2> QED BY <2>4 DEF Latest
<1> HIDE DEF S
<1>2. f \in [S -> 1..Len(s)]
  BY <1>1
<1>3. IsInjective(f)
  <2> SUFFICES ASSUME NEW a \in S, NEW b \in S, f[a] = f[b] PROVE a = b
    BY DEF IsInjective
  <2> QED BY <1>1
<1>4. f \in Injection(S, 1..Len(s))
  BY <1>2, <1>3 DEF Injection
<1>5. Len(s) \in Nat
  BY LenProperties
<1>6. IsFiniteSet(1..Len(s)) /\ Cardinality(1..Len(s)) = Len(s)
  BY <1>5, FS_Interval
<1>7. Cardinality(S) <= Len(s)
  <2> HIDE DEF f
  <2> QED BY <1>4, <1>6, FS_Injection
<1> QED BY <1>7 DEF S

\* The sequences that hold every element of a set once.
LEMMA SeqsOfSet ==
  ASSUME NEW S, IsFiniteSet(S), NEW f \in SetToSeqs(S)
  PROVE  /\ f \in Seq(S) /\ Len(f) = Cardinality(S) /\ Cardinality(S) \in Nat
         /\ \A x \in S : \E k \in 1..Len(f) : f[k] = x
         /\ \A k, l \in 1..Len(f) : f[k] = f[l] => k = l
<1> DEFINE D == 1..Cardinality(S)
<1>1. Cardinality(S) \in Nat
  BY FS_CardinalityType
<1>2. f \in [D -> S] /\ \A k, l \in D : k # l => f[k] # f[l]
  BY DEF SetToSeqs
<1>3. f \in Seq(S) /\ Len(f) = Cardinality(S)
  BY <1>1, <1>2
<1>4. f \in Injection(D, S)
  BY <1>2 DEF Injection, IsInjective
<1>5. Cardinality(D) = Cardinality(S)
  BY <1>1, FS_Interval
<1>6. f \in Surjection(D, S)
  <2> HIDE DEF D
  <2> QED BY <1>4, <1>5, FS_Injection
<1>7. \A x \in S : \E k \in D : f[k] = x
  BY <1>6 DEF Surjection
<1> QED BY <1>1, <1>2, <1>3, <1>7

\* As many records as entries.
LEMMA LiveCount ==
  ASSUME live \in [Id -> 0..MaxTime]
  PROVE  /\ IsFiniteSet(LiveRecords) /\ LiveRecords \subseteq Record
         /\ Cardinality(LiveRecords) = Cardinality(Stored(live))
<1> DEFINE S == Stored(live)
           g == [i \in S |-> [id |-> i, t |-> live[i]]]
<1>1. LiveRecords \subseteq Record
  BY DEF LiveRecords, Record
<1>2. g \in [S -> LiveRecords] /\ \A r \in LiveRecords : \E i \in S : g[i] = r
  BY DEF LiveRecords, Stored
<1>3. g \in Surjection(S, LiveRecords)
  BY <1>2 DEF Surjection
<1>4. IsInjective(g)
  BY DEF IsInjective
<1>5. g \in Injection(S, LiveRecords)
  BY <1>2, <1>4 DEF Injection
<1>6. IsFiniteSet(S)
  BY StoredFinite
<1> HIDE DEF g, S
<1>7. IsFiniteSet(LiveRecords) /\ Cardinality(LiveRecords) = Cardinality(S)
  BY <1>3, <1>5, <1>6, FS_Surjection
<1> QED BY <1>1, <1>7 DEF S

\* What compaction writes replays to the index, and stores each entry once.
LEMMA Compacted ==
  ASSUME live \in [Id -> 0..MaxTime], NEW recs \in SetToSeqs(LiveRecords)
  PROVE  /\ recs \in Seq(Record) /\ Len(recs) = Cardinality(Stored(live))
         /\ Replay(recs) = live /\ Alternates(recs)
<1>1. /\ recs \in Seq(LiveRecords) /\ Len(recs) = Cardinality(LiveRecords)
      /\ \A r \in LiveRecords : \E k \in 1..Len(recs) : recs[k] = r
      /\ \A k, l \in 1..Len(recs) : recs[k] = recs[l] => k = l
  BY LiveCount, SeqsOfSet
<1>2. recs \in Seq(Record) /\ Len(recs) = Cardinality(Stored(live)) /\ recs \in Seq(Item)
  BY <1>1, LiveCount, SeqTypes, SeqMonotonic
<1>3. ASSUME NEW k \in 1..Len(recs)
      PROVE  recs[k].id \in Id /\ recs[k].t = live[recs[k].id] /\ recs[k].t # 0
             /\ recs[k] = [id |-> recs[k].id, t |-> live[recs[k].id]]
  <2>1. recs[k] \in LiveRecords
    BY <1>1, ElementOfSeq
  <2> QED BY <2>1 DEF LiveRecords
<1>4. ASSUME NEW k \in 1..Len(recs), NEW l \in 1..Len(recs), recs[k].id = recs[l].id PROVE k = l
  <2>1. recs[k] = recs[l]
    BY <1>3, <1>4
  <2> QED BY <1>1, <2>1
<1>5. ASSUME NEW i \in Id PROVE Replay(recs)[i] = live[i]
  <2>1. CASE live[i] # 0
    <3>1. [id |-> i, t |-> live[i]] \in LiveRecords
      BY <2>1 DEF LiveRecords
    <3>2. PICK k \in 1..Len(recs) : recs[k] = [id |-> i, t |-> live[i]]
      BY <1>1, <3>1
    <3>3. recs[k].id = i /\ recs[k].t = live[i]
      BY <3>2
    <3>4. Latest(recs, i, k)
      <4>1. \A l \in 1..Len(recs) : recs[l].id = i => l = k
        BY <1>4, <3>3
      <4>2. \A l \in 1..Len(recs) : l <= l
        OBVIOUS
      <4> QED BY <3>3, <4>1, <4>2 DEF Latest
    <3> QED BY <1>2, <3>3, <3>4, ReplayLatest
  <2>2. CASE live[i] = 0
    <3>1. \A k \in 1..Len(recs) : recs[k].id # i
      BY <1>3, <2>2
    <3> QED BY <1>2, <2>2, <3>1, ReplayNone
  <2> QED BY <2>1, <2>2
<1>6. Replay(recs) = live
  <2>1. Replay(recs) = [i \in Id |-> Replay(recs)[i]]
    BY DEF Replay
  <2> QED BY <1>5, <2>1
<1>7. ASSUME NEW k \in 1..Len(recs) PROVE Replay(SubSeq(recs, 1, k - 1))[recs[k].id] = 0
  <2> DEFINE p == SubSeq(recs, 1, k - 1)
  <2>1. k - 1 \in 0..Len(recs)
    BY <1>2
  <2>2. p \in Seq(Item) /\ Len(p) = k - 1 /\ \A l \in 1..k-1 : p[l] = recs[l]
    BY <1>2, <2>1, PrefixProperties
  <2> HIDE DEF p
  <2>3. ASSUME NEW l \in 1..Len(p) PROVE p[l].id # recs[k].id
    <3>1. l \in 1..Len(recs) /\ l # k /\ p[l] = recs[l]
      BY <1>2, <2>2
    <3> QED BY <1>4, <3>1
  <2>4. Replay(p)[recs[k].id] = 0
    BY <1>3, <2>2, <2>3, ReplayNone
  <2> QED BY <2>4 DEF p
<1>8. Alternates(recs)
  BY <1>3, <1>7 DEF Alternates
<1> QED BY <1>2, <1>6, <1>8

=============================================================================
