--------------------------- MODULE Serving_proofs ---------------------------
(***************************************************************************)
(* That deduplication keeps every id once and keeps only what is new, for  *)
(* every input, all thresholds and any number of refreshes and restarts.   *)
(* The texts and dates play no part in it: the proofs never look into how  *)
(* titles and bodies are compared, only at the order of the stages and at  *)
(* the two indexes.                                                        *)
(***************************************************************************)
EXTENDS Serving_lemmas

\* The index of ids finds every kept entry under the id it shows.
Resolved == \A i \in DOMAIN out : byID[out[i].id] = i

\* Both indexes know what was looked at, also what was merged away.
Met ==
  \A e \in seen : byID[e.id] # 0 /\ (e.link # NoLink => byURL[e.link] # 0)

IInv == DedupTypeOK /\ Resolved /\ Met

-----------------------------------------------------------------------------
LEMMA EntryFields ==
  ASSUME NEW e \in Entry
  PROVE  e.id \in Id /\ e.link \in Link \cup {NoLink} /\ (e.link # NoLink => e.link \in Link)
BY DEF Entry

\* An entry whose id was met matches the kept entry that the index names, and
\* no other: the first stage decides.
LEMMA MatchedById ==
  ASSUME DedupTypeOK, NEW e \in Entry, byID[e.id] # 0, NEW i \in DOMAIN out
  PROVE  Matches(e, i) <=> i = byID[e.id]
<1> DEFINE k == byID[e.id]
<1>1. e.id \in Id
  BY DEF Entry
<1>2. k \in DOMAIN out
  BY <1>1 DEF DedupTypeOK
<1>3. SameId(e) = {k}
  BY <1>2 DEF SameId
<1>4. DOMAIN out = 1..Len(out) /\ Len(out) \in Nat
  BY DEF DedupTypeOK
<1>5. Stages(e)[1] = {k}
  BY <1>3 DEF Stages
<1>6. ASSUME Matches(e, i) PROVE i = k
  <2>1. PICK s \in 1..4 : (\A r \in 1..s-1 : Stages(e)[r] = {}) /\ i \in Stages(e)[s]
    BY <1>6 DEF Matches
  <2>2. s = 1
    BY <2>1, <1>5
  <2>. QED  BY <2>1, <2>2, <1>5
<1>7. ASSUME i = k PROVE Matches(e, i)
  <2>1. \A r \in 1..1-1 : Stages(e)[r] = {}
    OBVIOUS
  <2>2. i \in Stages(e)[1] /\ \A j \in Stages(e)[1] : i <= j
    BY <1>5, <1>7, <1>2, <1>4
  <2>. QED  BY <2>1, <2>2 DEF Matches
<1>. QED  BY <1>6, <1>7

\* An entry whose link was met, but not its id, matches some kept entry.
LEMMA MatchedByUrl ==
  ASSUME DedupTypeOK, NEW e \in Entry,
         byID[e.id] = 0, e.link # NoLink, byURL[e.link] # 0
  PROVE  \E i \in DOMAIN out : Matches(e, i)
<1> DEFINE k == byURL[e.link]
<1>1. e.link \in Link
  BY DEF Entry
<1>2. k \in DOMAIN out /\ DOMAIN out = 1..Len(out) /\ Len(out) \in Nat
  BY <1>1 DEF DedupTypeOK
<1>3. SameId(e) = {}
  BY <1>2 DEF SameId
<1>4. SameUrl(e) = {k}
  BY <1>2 DEF SameUrl
<1>5. Stages(e)[1] = {} /\ Stages(e)[2] = {k}
  BY <1>3, <1>4 DEF Stages
<1>6. \A r \in 1..2-1 : Stages(e)[r] = {}
  BY <1>5
<1>7. k \in Stages(e)[2] /\ \A j \in Stages(e)[2] : k <= j
  BY <1>5, <1>2
<1>8. Matches(e, k)
  BY <1>6, <1>7 DEF Matches
<1>. QED  BY <1>8, <1>2

\* Merging two entries makes an entry, with the id of one of the two.
LEMMA MergedEntry ==
  ASSUME NEW keep \in Entry, NEW other \in Entry
  PROVE  /\ Merged(keep, other) \in Entry
         /\ Merged(keep, other).id \in {keep.id, other.id}
         /\ Merged(keep, other).link \in {keep.link, other.link}
<1>1. Merged(keep, other).id \in {keep.id, other.id}
  BY DEF Merged
<1>2. Merged(keep, other).link \in {keep.link, other.link}
  BY DEF Merged
<1>3. /\ keep.id \in Id /\ other.id \in Id
      /\ keep.link \in Link \cup {NoLink} /\ other.link \in Link \cup {NoLink}
      /\ keep.source \in {"guid", "link", "hash"} /\ other.source \in {"guid", "link", "hash"}
      /\ keep.title \in SUBSET Word /\ other.title \in SUBSET Word
      /\ keep.content \in SUBSET Word /\ other.content \in SUBSET Word
      /\ keep.summary \in SUBSET Word /\ other.summary \in SUBSET Word
      /\ keep.pub \in 0..MaxDate /\ other.pub \in 0..MaxDate
      /\ keep.upd \in 0..MaxDate /\ other.upd \in 0..MaxDate
  BY DEF Entry
<1>4. Merged(keep, other) \in Entry
  BY <1>3 DEF Merged, Entry
<1>. QED  BY <1>1, <1>2, <1>4

-----------------------------------------------------------------------------
\* A call starts from two empty indexes.
LEMMA BeginIInv ==
  ASSUME IInv, NEW entries \in Seq(Entry), Begin(entries)
  PROVE  IInv'
<1>1. DedupTypeOK'
  BY DEF Begin, DedupTypeOK, IInv
<1>2. Resolved' /\ Met'
  BY DEF Begin, Resolved, Met
<1>. QED  BY <1>1, <1>2 DEF IInv

\* An entry is merged into the one it matches.
LEMMA MergeIInv ==
  ASSUME IInv, NEW i \in DOMAIN out, MergeInto(i)
  PROVE  IInv'
<1> DEFINE e == Head(rest)
           merged == Merged(out[i], e)
<1>1. DedupTypeOK
  BY DEF IInv
<1>2. e \in Entry /\ Tail(rest) \in Seq(Entry)
  BY <1>1 DEF MergeInto, DedupTypeOK
<1>3. out[i] \in Entry /\ DOMAIN out = 1..Len(out) /\ Len(out) \in Nat
  BY <1>1 DEF DedupTypeOK
<1>4. /\ merged \in Entry
      /\ merged.id \in {out[i].id, e.id}
      /\ merged.link \in {out[i].link, e.link}
  BY <1>2, <1>3, MergedEntry
<1>5. /\ Matches(e, i)
      /\ out' = [out EXCEPT ![i] = merged]
      /\ byID' = [x \in Id |-> IF x \in {merged.id, e.id} THEN i ELSE byID[x]]
      /\ byURL' = [l \in Link |-> IF l \in {merged.link, e.link} THEN i ELSE byURL[l]]
      /\ rest' = Tail(rest) /\ seen' = seen \cup {e} /\ first' = first
  BY DEF MergeInto, Register
<1>6. e.id \in Id /\ merged.id \in Id /\ e.link \in Link \cup {NoLink}
  BY <1>2, <1>4 DEF Entry
<1>7. out' \in Seq(Entry) /\ Len(out') = Len(out) /\ DOMAIN out' = DOMAIN out
  BY <1>1, <1>3, <1>4, <1>5 DEF DedupTypeOK
<1>8. DedupTypeOK'
  <2>1. byID' \in [Id -> 0..Len(out')]
    BY <1>1, <1>3, <1>5, <1>7 DEF DedupTypeOK
  <2>2. byURL' \in [Link -> 0..Len(out')]
    BY <1>1, <1>3, <1>5, <1>7 DEF DedupTypeOK
  <2>. QED  BY <1>1, <1>2, <1>5, <1>7, <2>1, <2>2 DEF DedupTypeOK
<1>9. Resolved'
  <2> SUFFICES ASSUME NEW j \in DOMAIN out PROVE byID'[out'[j].id] = j
    BY <1>7 DEF Resolved
  <2>1. CASE j = i
    BY <2>1, <1>3, <1>5, <1>6, <1>1 DEF DedupTypeOK
  <2>2. CASE j # i
    <3>0. out'[j] = out[j] /\ out[j] \in Entry
      BY <2>2, <1>1, <1>3, <1>5 DEF DedupTypeOK
    <3>1. out'[j] = out[j] /\ out[j].id \in Id
      BY <3>0, EntryFields
    <3>2. byID[out[j].id] = j /\ byID[out[i].id] = i
      BY DEF IInv, Resolved
    <3>3. out[j].id # e.id
      <4> SUFFICES ASSUME out[j].id = e.id PROVE FALSE
        OBVIOUS
      <4>1. byID[e.id] = j /\ byID[e.id] # 0
        BY <3>2, <1>3
      <4>. QED  BY <4>1, <1>5, <1>1, <1>2, <2>2, MatchedById
    <3>4. out[j].id # merged.id
      BY <3>2, <3>3, <1>4, <2>2
    <3>. QED  BY <3>1, <3>2, <3>3, <3>4, <1>5
  <2>. QED  BY <2>1, <2>2
<1>10. Met'
  <2> SUFFICES ASSUME NEW f \in seen \cup {e}
               PROVE  byID'[f.id] # 0 /\ (f.link # NoLink => byURL'[f.link] # 0)
    BY <1>5 DEF Met
  <2>0. f \in Entry
    BY <1>1, <1>2 DEF DedupTypeOK
  <2>1. f.id \in Id /\ (f.link # NoLink => f.link \in Link) /\ i # 0
    BY <2>0, EntryFields, <1>3
  <2>2. CASE f = e
    BY <2>1, <2>2, <1>5
  <2>3. CASE f \in seen
    BY <2>1, <2>3, <1>5 DEF IInv, Met
  <2>. QED  BY <2>2, <2>3
<1>. QED  BY <1>8, <1>9, <1>10 DEF IInv

\* An entry that matches nothing has an id and a link the indexes do not know.
LEMMA KeepUnknown ==
  ASSUME DedupTypeOK, Keep
  PROVE  LET e == Head(rest)
         IN  byID[e.id] = 0 /\ (e.link # NoLink => byURL[e.link] = 0)
<1> DEFINE e == Head(rest)
<1>1. e \in Entry /\ e.id \in Id
  <2>1. e \in Entry
    BY DEF Keep, DedupTypeOK
  <2>. QED  BY <2>1, EntryFields
<1>2. \A i \in DOMAIN out : ~Matches(e, i)
  BY DEF Keep
<1>3. byID[e.id] = 0
  <2> SUFFICES ASSUME byID[e.id] # 0 PROVE FALSE
    OBVIOUS
  <2>1. byID[e.id] \in DOMAIN out
    BY <1>1 DEF DedupTypeOK
  <2>. QED  BY <2>1, <1>1, <1>2, MatchedById
<1>4. e.link # NoLink => byURL[e.link] = 0
  BY <1>1, <1>2, <1>3, MatchedByUrl
<1>. QED  BY <1>3, <1>4

LEMMA KeepIInv ==
  ASSUME IInv, Keep
  PROVE  IInv'
<1> DEFINE e == Head(rest)
           n == Len(out) + 1
<1>1. DedupTypeOK
  BY DEF IInv
<1>2. e \in Entry /\ e.id \in Id /\ e.link \in Link \cup {NoLink} /\ Tail(rest) \in Seq(Entry)
  <2>1. e \in Entry /\ Tail(rest) \in Seq(Entry)
    BY <1>1 DEF Keep, DedupTypeOK
  <2>. QED  BY <2>1, EntryFields
<1>3. /\ out' = Append(out, e) /\ first' = Append(first, e)
      /\ byID' = [x \in Id |-> IF x = e.id THEN n ELSE byID[x]]
      /\ byURL' = [l \in Link |-> IF l = e.link THEN n ELSE byURL[l]]
      /\ rest' = Tail(rest) /\ seen' = seen \cup {e}
  BY DEF Keep, Register
<1>4. /\ Len(out) \in Nat /\ DOMAIN out = 1..Len(out)
      /\ out' \in Seq(Entry) /\ Len(out') = n /\ DOMAIN out' = 1..n
      /\ out'[n] = e /\ \A j \in DOMAIN out : out'[j] = out[j]
      /\ first' \in Seq(Entry) /\ Len(first') = n
  BY <1>1, <1>2, <1>3 DEF DedupTypeOK
<1>5. byID[e.id] = 0
  BY <1>1, KeepUnknown
<1>6. DedupTypeOK'
  <2>1. byID' \in [Id -> 0..Len(out')]
    BY <1>1, <1>3, <1>4 DEF DedupTypeOK
  <2>2. byURL' \in [Link -> 0..Len(out')]
    BY <1>1, <1>3, <1>4 DEF DedupTypeOK
  <2>. QED  BY <1>1, <1>2, <1>3, <1>4, <2>1, <2>2 DEF DedupTypeOK
<1>7. Resolved'
  <2> SUFFICES ASSUME NEW j \in 1..n PROVE byID'[out'[j].id] = j
    BY <1>4 DEF Resolved
  <2>1. CASE j = n
    BY <2>1, <1>2, <1>3, <1>4
  <2>2. CASE j \in DOMAIN out
    <3>0. byID[out[j].id] = j /\ out[j] \in Entry /\ j # 0
      BY <2>2, <1>1, <1>4 DEF IInv, Resolved, DedupTypeOK
    <3>1. byID[out[j].id] = j /\ out[j].id \in Id /\ j # 0
      BY <3>0, EntryFields
    <3>2. out[j].id # e.id
      BY <3>1, <1>5
    <3>. QED  BY <2>2, <3>1, <3>2, <1>3, <1>4
  <2>. QED  BY <2>1, <2>2, <1>4
<1>8. Met'
  <2> SUFFICES ASSUME NEW f \in seen \cup {e}
               PROVE  byID'[f.id] # 0 /\ (f.link # NoLink => byURL'[f.link] # 0)
    BY <1>3 DEF Met
  <2>0. f \in Entry
    BY <1>1, <1>2 DEF DedupTypeOK
  <2>1. f.id \in Id /\ (f.link # NoLink => f.link \in Link) /\ n # 0
    BY <2>0, EntryFields, <1>4
  <2>2. CASE f = e
    BY <2>1, <2>2, <1>3
  <2>3. CASE f \in seen
    BY <2>1, <2>3, <1>3 DEF IInv, Met
  <2>. QED  BY <2>2, <2>3
<1>. QED  BY <1>6, <1>7, <1>8 DEF IInv

-----------------------------------------------------------------------------
LEMMA InitIInv == Init => IInv
<1> SUFFICES ASSUME Init PROVE IInv
  OBVIOUS
<1>1. DedupTypeOK
  BY DEF Init, DedupInit, DedupTypeOK
<1>2. Resolved /\ Met
  BY DEF Init, DedupInit, Resolved, Met
<1>. QED  BY <1>1, <1>2 DEF IInv

LEMMA StepIInv == IInv /\ [Next]_vars => IInv'
<1> SUFFICES ASSUME IInv, [Next]_vars PROVE IInv'
  OBVIOUS
<1>1. ASSUME NEW entries \in Inputs, Refresh(entries) PROVE IInv'
  <2>1. entries \in Seq(Entry) /\ Begin(entries)
    BY <1>1, InputsAssumption DEF Refresh
  <2>. QED  BY <2>1, BeginIInv
<1>2. CASE Deduplicate
  BY <1>2, MergeIInv, KeepIInv DEF Deduplicate
<1>3. CASE Restart
  <2>1. DedupTypeOK'
    BY <1>3 DEF Restart, DedupTypeOK, IInv
  <2>2. Resolved' /\ Met'
    BY <1>3 DEF Restart, Resolved, Met
  <2>. QED  BY <2>1, <2>2 DEF IInv
<1>4. CASE UNCHANGED dedupVars
  BY <1>4 DEF dedupVars, IInv, DedupTypeOK, Resolved, Met
<1>5. CASE Publish
  BY <1>5, <1>4 DEF Publish, PublishEntries
<1>6. ASSUME NEW r \in Resource, Get(r) PROVE IInv'
  BY <1>6, <1>4 DEF Get
<1>7. CASE UNCHANGED vars
  BY <1>7, <1>4 DEF vars
<1>. QED  BY <1>1, <1>2, <1>3, <1>5, <1>6, <1>7 DEF Next

THEOREM Invariance == Spec => []IInv
<1>. QED  BY InitIInv, StepIInv, PTL DEF Spec

\* No two entries that deduplication keeps have the same id.
THEOREM NoIdTwice == Spec => []IdsUnique
<1>1. IInv => IdsUnique
  BY DEF IInv, Resolved, IdsUnique
<1>. QED  BY <1>1, Invariance, PTL

\* An entry is kept only if neither its id nor its link was met before.
THEOREM KeepsWhatIsNew == Spec => KeptIsNew
<1> DEFINE New ==
      \A e \in seen : Len(out') > Len(out) =>
        LET kept == out'[Len(out')]
        IN  e.id # kept.id /\ (e.link = kept.link => e.link = NoLink)
<1>1. IInv /\ [Next]_vars => [New]_dedupVars
  <2> SUFFICES ASSUME IInv, [Next]_vars, ~UNCHANGED dedupVars, NEW e \in seen, Len(out') > Len(out)
               PROVE  LET kept == out'[Len(out')]
                      IN  e.id # kept.id /\ (e.link = kept.link => e.link = NoLink)
    OBVIOUS
  <2>1. DedupTypeOK /\ Len(out) \in Nat
    BY DEF IInv, DedupTypeOK
  <2>2. Keep
    <3>1. ASSUME out' = <<>> PROVE FALSE
      BY <3>1, <2>1
    <3>2. ASSUME NEW i \in DOMAIN out, MergeInto(i) PROVE FALSE
      <4>1. Len(out') = Len(out)
        BY <3>2, <2>1 DEF MergeInto, DedupTypeOK
      <4>. QED  BY <4>1, <2>1
    <3>3. ASSUME NEW entries \in Inputs, Refresh(entries) PROVE FALSE
      BY <3>1, <3>3 DEF Refresh, Begin
    <3>4. CASE Deduplicate
      BY <3>2, <3>4 DEF Deduplicate
    <3>5. CASE Publish
      BY <3>5 DEF Publish, PublishEntries
    <3>6. ASSUME NEW r \in Resource, Get(r) PROVE FALSE
      BY <3>6 DEF Get
    <3>7. CASE Restart
      BY <3>1, <3>7 DEF Restart
    <3>8. CASE UNCHANGED vars
      BY <3>8 DEF vars
    <3>. QED  BY <3>3, <3>4, <3>5, <3>6, <3>7, <3>8 DEF Next
  <2>3. out'[Len(out')] = Head(rest)
    BY <2>1, <2>2 DEF Keep, DedupTypeOK
  <2>4. /\ byID[Head(rest).id] = 0
        /\ Head(rest).link # NoLink => byURL[Head(rest).link] = 0
    BY <2>1, <2>2, KeepUnknown
  <2>5. byID[e.id] # 0 /\ (e.link # NoLink => byURL[e.link] # 0)
    BY DEF IInv, Met
  <2>. QED  BY <2>3, <2>4, <2>5
<1>. QED  BY <1>1, Invariance, PTL DEF Spec, KeptIsNew

-----------------------------------------------------------------------------
(***************************************************************************)
(* What the first copy says stays, field by field.  That its id stays does *)
(* not follow from the id alone: a merge looks at the source of the id, so *)
(* the source has to stay as well.                                         *)
(***************************************************************************)
Stands(was, is) ==
  /\ was.title # {} => is.title = was.title
  /\ was.link # NoLink => is.link = was.link
  /\ was.source # "hash" => is.source = was.source /\ is.id = was.id
  /\ was.pub # 0 => is.pub = was.pub

FirstStand == \A k \in DOMAIN out : Stands(first[k], out[k])

LEMMA MergedStands ==
  ASSUME NEW was, NEW keep \in Entry, NEW other \in Entry, Stands(was, keep)
  PROVE  Stands(was, Merged(keep, other))
BY DEF Stands, Merged

LEMMA StepFirstStand ==
  ASSUME DedupTypeOK, FirstStand, [Next]_vars
  PROVE  FirstStand'
<1>0. CASE out' = <<>>
  BY <1>0 DEF FirstStand
<1>1. CASE UNCHANGED <<out, first>>
  BY <1>1 DEF FirstStand
<1>2. ASSUME NEW i \in DOMAIN out, MergeInto(i) PROVE FirstStand'
  <2> DEFINE merged == Merged(out[i], Head(rest))
  <2>1. /\ out' = [out EXCEPT ![i] = merged] /\ first' = first
        /\ Head(rest) \in Entry /\ out[i] \in Entry
        /\ DOMAIN out' = DOMAIN out
    BY <1>2 DEF MergeInto, DedupTypeOK
  <2>2. Stands(first[i], merged)
    BY <2>1, MergedStands DEF FirstStand
  <2> SUFFICES ASSUME NEW k \in DOMAIN out PROVE Stands(first'[k], out'[k])
    BY <2>1 DEF FirstStand
  <2>3. out'[k] = IF k = i THEN merged ELSE out[k]
    BY <2>1
  <2>4. Stands(first[k], out[k])
    BY DEF FirstStand
  <2> HIDE DEF merged
  <2>5. CASE k = i
    BY <2>1, <2>2, <2>3, <2>5
  <2>6. CASE k # i
    BY <2>1, <2>3, <2>4, <2>6
  <2>. QED  BY <2>5, <2>6
<1>3. CASE Keep
  <2> DEFINE e == Head(rest)
             n == Len(out) + 1
  <2>1. /\ Len(out) \in Nat /\ DOMAIN out = 1..Len(out) /\ DOMAIN out' = 1..n
        /\ out'[n] = e /\ first'[n] = e
        /\ \A k \in 1..Len(out) : out'[k] = out[k] /\ first'[k] = first[k]
    BY <1>3 DEF Keep, DedupTypeOK
  <2>2. Stands(e, e)
    BY DEF Stands
  <2> HIDE DEF e
  <2> SUFFICES ASSUME NEW k \in 1..n PROVE Stands(first'[k], out'[k])
    BY <2>1 DEF FirstStand
  <2>3. CASE k = n
    BY <2>1, <2>2, <2>3
  <2>4. CASE k \in 1..Len(out)
    BY <2>1, <2>4 DEF FirstStand
  <2>. QED  BY <2>1, <2>3, <2>4
<1>4. ASSUME NEW entries \in Inputs, Refresh(entries) PROVE FirstStand'
  BY <1>0, <1>4 DEF Refresh, Begin
<1>5. CASE Deduplicate
  BY <1>2, <1>3, <1>5 DEF Deduplicate
<1>6. CASE Publish
  BY <1>1, <1>6 DEF Publish, PublishEntries, dedupVars
<1>7. ASSUME NEW r \in Resource, Get(r) PROVE FirstStand'
  BY <1>1, <1>7 DEF Get, dedupVars
<1>8. CASE Restart
  BY <1>0, <1>8 DEF Restart
<1>9. CASE UNCHANGED vars
  BY <1>1, <1>9 DEF vars, dedupVars
<1>. QED  BY <1>4, <1>5, <1>6, <1>7, <1>8, <1>9 DEF Next

\* Whatever is merged into a kept entry that had a date, its title, its link, its
\* id unless it was a hash, and its date of publication are those of the first
\* copy.  (Of the code FirstStand says it of every entry; the comment on Dedup
\* wants one without a date to be replaced.)
THEOREM FirstCopyWins == Spec => []FirstCopyStands
<1>1. Init => FirstStand
  BY DEF Init, DedupInit, FirstStand
<1>2. IInv /\ FirstStand /\ [Next]_vars => FirstStand'
  BY StepFirstStand DEF IInv
<1>3. FirstStand => FirstCopyStands
  BY DEF FirstStand, Stands, FirstCopyStands, DateOf
<1>. QED  BY <1>1, <1>2, <1>3, Invariance, PTL DEF Spec

-----------------------------------------------------------------------------
(***************************************************************************)
(* What is published.  Of the snapshot itself it is enough to know that it *)
(* is allowed and in order; that nothing newer was left out relates it to  *)
(* what deduplication kept, which stays as it is from a publication until  *)
(* the next refresh, because an idle server has no entry left to look at.  *)
(***************************************************************************)
ServerOK == busy \in BOOLEAN /\ round \in 0..MaxRounds /\ saved \in Searches

Published(s) ==
  LET es == s.entries
  IN  /\ s = [entries |-> es, updated |-> s.updated]
      /\ es \in Seq(Entry)
      /\ \A k \in DOMAIN es : Allow(es[k])
      /\ \A k, l \in DOMAIN es : k < l => ~Newer(es[l], es[k])

SnapOK == snap = <<>> \/ (snap = <<snap[1]>> /\ Published(snap[1]))

Current ==
  ~busy => /\ rest = <<>>
           /\ snap # <<>> => snap[1].entries = Cut(Ranking(out), MaxItems)

Held == Len(copy) <= 1 /\ \A i \in DOMAIN copy : copy[i].resource \in Resource

PInv == ServerOK /\ SnapOK /\ Current /\ Held

\* Every snapshot is made of a ranking of what was kept.
LEMMA PublishedBest ==
  ASSUME NEW s \in Seq(Entry), NEW u
  PROVE  Published([entries |-> Cut(Ranking(s), MaxItems), updated |-> u])
<1> DEFINE r == Ranking(s)
           c == Cut(r, MaxItems)
<1>1. /\ r \in Seq(Entry)
      /\ \A k \in DOMAIN r : Allow(r[k])
      /\ \A k, l \in DOMAIN r : k < l => ~Newer(r[l], r[k])
  BY Best
<1> HIDE DEF r
<1>2. /\ c \in Seq(Entry) /\ DOMAIN c = 1..Len(c) /\ Len(c) \in 0..Len(r)
      /\ \A k \in 1..Len(c) : c[k] = r[k]
  BY <1>1, ConfigAssumption, CutPrefix
<1> HIDE DEF c
<1>3. DOMAIN c \subseteq DOMAIN r
  BY <1>1, <1>2
<1>4. \A k \in DOMAIN c : Allow(c[k])
  BY <1>1, <1>2, <1>3
<1>5. \A k, l \in DOMAIN c : k < l => ~Newer(c[l], c[k])
  BY <1>1, <1>2, <1>3
<1>6. Published([entries |-> c, updated |-> u])
  BY <1>2, <1>4, <1>5 DEF Published
<1>. QED  BY <1>6 DEF c, r

LEMMA StepPInv ==
  ASSUME DedupTypeOK, PInv, [Next]_vars
  PROVE  PInv'
<1> USE DEF PInv
<1>1. ASSUME NEW entries \in Inputs, Refresh(entries) PROVE PInv'
  <2>1. busy' = TRUE /\ round' = round + 1 /\ round < MaxRounds
        /\ snap' = snap /\ saved' = saved /\ copy' = copy
    BY <1>1 DEF Refresh
  <2>2. ServerOK'
    BY <2>1, ConfigAssumption DEF ServerOK
  <2>. QED  BY <2>1, <2>2 DEF SnapOK, Current, Held
<1>2. CASE Deduplicate
  <2>1. rest # <<>> /\ UNCHANGED serverVars
    BY <1>2 DEF Deduplicate, MergeInto, Keep
  <2>2. busy
    BY <2>1 DEF Current, ServerOK
  <2>. QED  BY <2>1, <2>2 DEF serverVars, ServerOK, SnapOK, Current, Held
<1>3. CASE Publish
  <2> DEFINE c == Cut(Ranking(out), MaxItems)
             s == [entries |-> c, updated |-> Updated(c, MaxDate + round)]
  <2>1. /\ snap' = <<s>> /\ busy' = FALSE /\ rest = <<>> /\ rest' = rest /\ out' = out
        /\ round' = round /\ saved' = saved /\ copy' = copy
    BY <1>3 DEF Publish, PublishEntries, dedupVars, Ranking
  <2>2. Published(s)
    BY PublishedBest DEF DedupTypeOK
  <2>3. SnapOK'
    <3> HIDE DEF s
    <3>1. snap' = <<s>> /\ snap'[1] = s
      BY <2>1
    <3>. QED  BY <3>1, <2>2 DEF SnapOK
  <2>4. Current'
    <3>1. snap'[1].entries = c
      BY <2>1
    <3>. QED  BY <2>1, <3>1 DEF Current
  <2>. QED  BY <2>1, <2>3, <2>4 DEF ServerOK, Held
<1>4. ASSUME NEW r \in Resource, Get(r) PROVE PInv'
  <2>1. /\ copy' = <<[resource |-> r, tag |-> Tag(r, snap[1]), content |-> Content(r, snap[1])]>>
        /\ UNCHANGED <<dedupVars, busy, round, snap, saved>>
    BY <1>4 DEF Get
  <2>2. Held'
    BY <2>1 DEF Held
  <2>. QED  BY <2>1, <2>2 DEF dedupVars, ServerOK, SnapOK, Current
<1>5. CASE Restart
  <2>1. /\ saved' \in Searches /\ busy' = FALSE /\ snap' = <<>> /\ rest' = <<>>
        /\ round' = round /\ copy' = copy
    BY <1>5 DEF Restart
  <2>. QED  BY <2>1 DEF ServerOK, SnapOK, Current, Held
<1>6. CASE UNCHANGED vars
  BY <1>6 DEF vars, serverVars, dedupVars, ServerOK, SnapOK, Current, Held
<1>. QED  BY <1>1, <1>2, <1>3, <1>4, <1>5, <1>6 DEF Next

LEMMA PublishInvariance == Spec => []PInv
<1>1. Init => PInv
  <2> SUFFICES ASSUME Init PROVE PInv
    OBVIOUS
  <2>1. ServerOK
    <3>1. busy \in BOOLEAN /\ saved \in Searches
      BY DEF Init
    <3>2. round \in 0..MaxRounds
      BY ConfigAssumption DEF Init
    <3>. QED  BY <3>1, <3>2 DEF ServerOK
  <2>2. SnapOK /\ Current
    BY DEF Init, DedupInit, SnapOK, Current
  <2>3. Held
    BY DEF Init, Held
  <2>. QED  BY <2>1, <2>2, <2>3 DEF PInv
<1>2. IInv /\ PInv /\ [Next]_vars => PInv'
  BY StepPInv DEF IInv
<1>. QED  BY <1>1, <1>2, Invariance, PTL DEF Spec

\* The server's state is of its type, and so is what it published.
THEOREM TypeCorrect == Spec => []TypeOK
<1>1. IInv /\ PInv => TypeOK
  <2> SUFFICES ASSUME IInv, PInv PROVE TypeOK
    OBVIOUS
  <2>1. Len(snap) <= 1 /\ \A i \in DOMAIN snap : snap[i].entries \in Seq(Entry)
    <3>1. CASE snap = <<>>
      BY <3>1
    <3>2. CASE snap = <<snap[1]>> /\ Published(snap[1])
      <4>1. Len(snap) = 1 /\ DOMAIN snap = {1}
        BY <3>2
      <4>. QED  BY <3>2, <4>1 DEF Published
    <3>. QED  BY <3>1, <3>2 DEF PInv, SnapOK
  <2>. QED  BY <2>1 DEF IInv, PInv, ServerOK, Held, TypeOK
<1>. QED  BY <1>1, Invariance, PublishInvariance, PTL

\* No published entry is one the filters reject, whatever was merged into it.
THEOREM OnlyAllowed == Spec => []PublishedPassFilters
<1>1. PInv => PublishedPassFilters
  <2> SUFFICES ASSUME SnapOK, NEW i \in DOMAIN snap, NEW k \in DOMAIN snap[i].entries
               PROVE  Allow(snap[i].entries[k])
    BY DEF PInv, PublishedPassFilters
  <2>1. i = 1 /\ Published(snap[1])
    BY DEF SnapOK
  <2>. QED  BY <2>1 DEF Published
<1>. QED  BY <1>1, PublishInvariance, PTL

\* What the filters allow is left out only in favour of what is not older, and
\* what is published is in order.
THEOREM NothingNewerIsCut == Spec => []NewestArePublished
<1>1. IInv /\ PInv => NewestArePublished
  <2> DEFINE es == snap[1].entries
             r == Ranking(out)
  <2> SUFFICES ASSUME DedupTypeOK, SnapOK, Current, snap # <<>>, ~busy, NEW k \in DOMAIN es,
                      NEW f \in {es[l] : l \in k+1..Len(es)} \cup {out[i] : i \in DOMAIN out},
                      Allow(f), f \notin {es[l] : l \in 1..k}
               PROVE  ~Newer(f, es[k])
    BY DEF IInv, PInv, NewestArePublished
  <2>1. /\ es \in Seq(Entry) /\ es = Cut(r, MaxItems)
        /\ \A l, m \in DOMAIN es : l < m => ~Newer(es[m], es[l])
    BY DEF SnapOK, Published, Current
  <2>2. /\ r \in Seq(Entry)
        /\ \A l, m \in DOMAIN r : l < m => ~Newer(r[m], r[l])
        /\ \A i \in DOMAIN out : Allow(out[i]) => \E l \in DOMAIN r : r[l] = out[i]
    BY Best DEF DedupTypeOK
  <2> HIDE DEF es, r
  <2>3. /\ DOMAIN es = 1..Len(es) /\ Len(es) \in 0..Len(r) /\ Len(r) \in Nat
        /\ \A l \in 1..Len(es) : es[l] = r[l]
    BY <2>1, <2>2, ConfigAssumption, CutPrefix
  <2>4. ASSUME NEW l \in k+1..Len(es), f = es[l] PROVE ~Newer(f, es[k])
    BY <2>1, <2>3, <2>4
  <2>5. ASSUME NEW i \in DOMAIN out, f = out[i] PROVE ~Newer(f, es[k])
    <3>1. PICK l \in DOMAIN r : r[l] = f
      BY <2>2, <2>5
    <3>2. DOMAIN r = 1..Len(r) /\ k \in DOMAIN r /\ es[k] = r[k]
      BY <2>2, <2>3
    <3>3. l > k
      <4> SUFFICES ASSUME l \in 1..k PROVE FALSE
        BY <3>1, <3>2
      <4>1. es[l] = f
        BY <2>3, <3>1, <3>2
      <4>. QED  BY <4>1
    <3>. QED  BY <2>2, <3>1, <3>2, <3>3
  <2>. QED  BY <2>4, <2>5
<1>. QED  BY <1>1, Invariance, PublishInvariance, PTL

\* Whoever reads the merged feed, also at second hand, finds the same entries.
THEOREM RelayIsFaithful == Spec => []RelayKeepsEntries
<1>1. PInv => RelayKeepsEntries
  <2> SUFFICES ASSUME SnapOK, NEW i \in DOMAIN snap,
                      NEW f \in {"rss", "atom"}, NEW g \in {"rss", "atom"}
               PROVE  LET was   == snap[i].entries
                          once  == ReadAgain(f, was, snap[i].updated)
                          twice == ReadAgain(g, once, Updated(once, snap[i].updated))
                      IN  /\ Len(once) = Len(was) /\ Len(twice) = Len(was)
                          /\ \A k \in DOMAIN was :
                               SameEntry(was[k], once[k]) /\ SameEntry(was[k], twice[k])
                          /\ f = "rss" => Sorted(once, Newer) = once
    BY DEF PInv, RelayKeepsEntries, SameEntry
  <2> DEFINE was   == snap[i].entries
             once  == ReadAgain(f, was, snap[i].updated)
             twice == ReadAgain(g, once, Updated(once, snap[i].updated))
             n == Len(was)
  <2>1. /\ was \in Seq(Entry)
        /\ \A k, l \in DOMAIN was : k < l => ~Newer(was[l], was[k])
    BY DEF SnapOK, Published
  <2>2. n \in Nat /\ DOMAIN was = 1..n
    BY <2>1
  <2>3. ASSUME NEW k \in 1..n PROVE Whole(was[k]) /\ DateOf(was[k]) \in Nat
    <3>1. was[k] \in Entry
      BY <2>1, <2>2
    <3> HIDE DEF was
    <3>2. was[k].source = "link" => was[k].link # NoLink
      BY <3>1 DEF Entry
    <3>. QED  BY <3>1, <3>2, EntryNumbers DEF Whole
  <2> HIDE DEF was, n
  <2>4. /\ once = [k \in 1..n |-> once[k]] /\ DOMAIN once = 1..n /\ Len(once) = n
    BY <2>2, ReadLength
  <2>5. ASSUME NEW k \in 1..n PROVE Whole(once[k]) /\ SameEntry(was[k], once[k])
    BY <2>2, <2>3, ReadKeeps
  <2>6. ASSUME f = "rss", NEW k \in 1..n PROVE DateOf(once[k]) = DateOf(was[k])
    BY <2>2, <2>3, <2>6, ReadRss
  <2> HIDE DEF once
  <2>7. Len(twice) = n
    BY <2>2, <2>4, ReadLength
  <2>8. ASSUME NEW k \in 1..n PROVE SameEntry(once[k], twice[k])
    BY <2>4, <2>5, ReadKeeps
  <2> HIDE DEF twice
  <2>9. ASSUME NEW k \in 1..n PROVE SameEntry(was[k], twice[k])
    BY <2>5, <2>8 DEF SameEntry
  <2>10. ASSUME f = "rss" PROVE Sorted(once, Newer) = once
    <3>1. \A k \in 1..n : DateOf(once[k]) \in Nat
      BY <2>3, <2>6, <2>10
    <3>2. \A k, l \in 1..n : k < l => ~Newer(once[l], once[k])
      BY <2>1, <2>2, <2>6, <2>10 DEF Newer
    <3>. QED  BY <2>2, <2>4, <3>1, <3>2, SortedStays
  <2>. QED  BY <2>2, <2>4, <2>5, <2>7, <2>9, <2>10 DEF was, once, twice, n
<1>. QED  BY <1>1, PublishInvariance, PTL

-----------------------------------------------------------------------------
(***************************************************************************)
(* What the reader holds is an answer that the server gave, maybe from a   *)
(* snapshot that is gone, maybe under a saved search that is gone.         *)
(***************************************************************************)
TagOf(r, s, v) ==
  CASE r = "feed"   -> <<Etag(s)>>
    [] r = "saved"  -> SavedTag(s, v)
    [] r = "search" -> SearchTag(s)

ContentOf(r, s, v) ==
  CASE r = "feed"   -> Rendered(s.entries, s.updated)
    [] r = "saved"  -> SavedFeed(s, v)
    [] r = "search" -> SearchPage(s)

Answer(r, s, v) == [resource |-> r, tag |-> TagOf(r, s, v), content |-> ContentOf(r, s, v)]

CopyOK ==
  \/ copy = <<>>
  \/ \E s : /\ Published(s)
            /\ \E r \in Resource, v \in Searches : copy = <<Answer(r, s, v)>>

LEMMA StepCopyOK ==
  ASSUME PInv, CopyOK, [Next]_vars
  PROVE  CopyOK'
<1>1. CASE copy' = copy
  BY <1>1 DEF CopyOK
<1>2. ASSUME NEW r \in Resource, Get(r) PROVE CopyOK'
  <2>1. copy' = <<[resource |-> r, tag |-> Tag(r, snap[1]), content |-> Content(r, snap[1])]>>
    BY <1>2 DEF Get
  <2>2. Tag(r, snap[1]) = TagOf(r, snap[1], saved)
    BY DEF Tag, TagOf
  <2>3. Content(r, snap[1]) = ContentOf(r, snap[1], saved)
    BY DEF Content, ContentOf
  <2>4. copy' = <<Answer(r, snap[1], saved)>>
    BY <2>1, <2>2, <2>3 DEF Answer
  <2>5. Published(snap[1]) /\ saved \in Searches
    BY <1>2 DEF Get, PInv, SnapOK, ServerOK
  <2>. QED  BY <2>4, <2>5 DEF CopyOK
<1>3. CASE Deduplicate
  BY <1>1, <1>3 DEF Deduplicate, serverVars
<1>. QED
  BY <1>1, <1>2, <1>3 DEF Next, Refresh, Publish, PublishEntries, Restart, vars, serverVars

\* A tag tells everything that an answer depends on, but for the title.
LEMMA TagTells ==
  ASSUME NEW r \in Resource, NEW v \in Searches, NEW w \in Searches,
         NEW s, NEW t, Published(s), Published(t), TagOf(r, s, v) = TagOf(r, t, w)
  PROVE  Shown(r, ContentOf(r, s, v)) = Shown(r, ContentOf(r, t, w))
<1>1. v \in Search /\ w \in Search
  BY ConfigAssumption
<1>2. s.entries \in Seq(Entry) /\ t.entries \in Seq(Entry)
  BY DEF Published
<1>3. Etag(s) = Etag(t)
  BY DEF TagOf, SavedTag, SearchTag, Resource
<1>4. s.updated = t.updated /\ AlikeSeqs(s.entries, t.entries)
  BY <1>3, RenderedTells DEF Etag
<1>5. CASE r = "feed"
  BY <1>3, <1>5 DEF ContentOf, Etag, Shown
<1>6. CASE r = "search"
  BY <1>2, <1>4, <1>6, SearchTold DEF ContentOf, Shown
<1>7. CASE r = "saved"
  <2>1. v.query = w.query /\ v.limit = w.limit
    BY <1>7 DEF TagOf, SavedTag
  <2>2. Shown(r, SavedFeed(s, v)) = Shown(r, SavedFeed(s, w))
    BY <1>7, <2>1 DEF SavedFeed, Shown
  <2>3. SavedFeed(s, w) = SavedFeed(t, w)
    BY <1>1, <1>2, <1>4, SavedTold
  <2>. QED  BY <1>7, <2>2, <2>3 DEF ContentOf
<1>. QED  BY <1>5, <1>6, <1>7 DEF Resource

\* A 304 means that a full answer would show what the reader's copy shows,
\* across refreshes and restarts, whatever is edited of a saved search and
\* whichever searches a configuration may have.  The title a copy is under is
\* not covered by the tag and may be an old one.
THEOREM NotModifiedMeansSame == Spec => []NotModifiedShowsTheSame
<1>1. Init => CopyOK
  BY DEF Init, CopyOK
<1>2. PInv /\ CopyOK /\ [Next]_vars => CopyOK'
  BY StepCopyOK
<1>3. PInv /\ CopyOK => NotModifiedShowsTheSame
  <2> SUFFICES ASSUME PInv, CopyOK, snap # <<>>, NEW r \in Resource, NotModified(r)
               PROVE  Shown(r, copy[1].content) = Shown(r, Content(r, snap[1]))
    BY DEF NotModifiedShowsTheSame
  <2>1. PICK i \in DOMAIN copy : copy[i].resource = r /\ copy[i].tag = Tag(r, snap[1])
    BY DEF NotModified
  <2>2. copy # <<>>
    BY <2>1
  <2>3. PICK s : /\ Published(s)
                 /\ \E q \in Resource, v \in Searches : copy = <<Answer(q, s, v)>>
    BY <2>2 DEF CopyOK
  <2>4. PICK q \in Resource, v \in Searches : copy = <<Answer(q, s, v)>>
    BY <2>3
  <2>5. i = 1 /\ copy[1] = Answer(q, s, v)
    BY <2>1, <2>4
  <2>6. q = r /\ TagOf(r, s, v) = Tag(r, snap[1])
    BY <2>1, <2>5 DEF Answer
  <2>7. Tag(r, snap[1]) = TagOf(r, snap[1], saved)
    BY DEF Tag, TagOf
  <2>8. Content(r, snap[1]) = ContentOf(r, snap[1], saved)
    BY DEF Content, ContentOf
  <2>9. Published(snap[1]) /\ saved \in Searches
    BY DEF PInv, SnapOK, ServerOK
  <2>10. Shown(r, ContentOf(r, s, v)) = Shown(r, ContentOf(r, snap[1], saved))
    BY <2>3, <2>6, <2>7, <2>9, TagTells
  <2>11. copy[1].content = ContentOf(r, s, v)
    BY <2>5, <2>6 DEF Answer
  <2>. QED  BY <2>8, <2>10, <2>11
<1>. QED  BY <1>1, <1>2, <1>3, PublishInvariance, PTL DEF Spec

=============================================================================
