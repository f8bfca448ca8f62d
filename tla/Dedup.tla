------------------------------- MODULE Dedup -------------------------------
(***************************************************************************)
(* feed.Dedup (internal/feed/dedup.go): the entries of all feeds, in the   *)
(* order of the configuration, are taken one by one; each is merged into   *)
(* the first kept entry it matches, by id, by link, by title or by body,   *)
(* or kept itself.  Two indexes say which kept entry an id or a normalized *)
(* link led to last.                                                       *)
(*                                                                         *)
(* A link stands for its normalized form.  A text is the set of its words, *)
(* a run of words that shingles or phrases are made of being one word too. *)
(* Author and categories are filled in like a summary and left out.  A     *)
(* date is a number, 0 if missing.                                         *)
(***************************************************************************)
EXTENDS Integers, Sequences, FiniteSets

CONSTANTS
  Id,          \* entry ids: numbers, in the order of the strings
  Link,        \* normalized links
  NoLink,      \* the link of an entry without one
  Word,
  MaxDate,     \* bound of the dates
  TitleMin,    \* DedupOptions.TitleThreshold, in percent
  TitleWindow, \* DedupOptions.TitleWindow, in units of dates
  ContentMin   \* DedupOptions.ContentThreshold, in percent

\* An entry as the parser makes it: its id is a guid, a link, or else a hash.
Entry ==
  {e \in [id : Id, source : {"guid", "link", "hash"}, link : Link \cup {NoLink},
          title : SUBSET Word, content : SUBSET Word, summary : SUBSET Word,
          pub : 0..MaxDate, upd : 0..MaxDate] :
     e.source = "link" => e.link # NoLink}

ASSUME IdAssumption == Id \subseteq Int
ASSUME LinkAssumption == NoLink \notin Link
ASSUME WordAssumption == IsFiniteSet(Word)
ASSUME OptionsAssumption ==
  MaxDate \in Nat /\ TitleMin \in Nat /\ TitleWindow \in Nat /\ ContentMin \in Nat

VARIABLES
  rest,  \* the entries not looked at yet
  out,   \* the entries kept
  byID,  \* byID[x]: the kept entry the id x led to last, or 0
  byURL, \* the same for links
  first, \* first[k]: the entry the k-th kept one started as (history)
  seen   \* the entries looked at (history)

dedupVars == <<rest, out, byID, byURL, first, seen>>

DedupTypeOK ==
  /\ rest \in Seq(Entry) /\ out \in Seq(Entry) /\ first \in Seq(Entry)
  /\ Len(first) = Len(out) /\ seen \subseteq Entry
  /\ byID \in [Id -> 0..Len(out)]
  /\ byURL \in [Link -> 0..Len(out)]

DedupInit ==
  /\ rest = <<>> /\ out = <<>> /\ first = <<>> /\ seen = {}
  /\ byID = [x \in Id |-> 0]
  /\ byURL = [l \in Link |-> 0]

-----------------------------------------------------------------------------
DateOf(e) == IF e.pub # 0 THEN e.pub ELSE e.upd

\* entryBody: the content, or else the summary.
Body(e) == IF e.content # {} THEN e.content ELSE e.summary

WithinWindow(e, f) ==
  \/ TitleWindow = 0
  \/ DateOf(e) = 0 \/ DateOf(f) = 0
  \/ DateOf(e) - DateOf(f) \in -TitleWindow..TitleWindow

\* Jaccard similarity of at least min percent; a missing text is like no other.
Similar(s, t, min) ==
  /\ min > 0 /\ s # {} /\ t # {}
  /\ 100 * Cardinality(s \cap t) >= min * Cardinality(s \cup t)

\* The kept entries that e matches, by each of the four stages.
SameId(e) == {i \in DOMAIN out : byID[e.id] = i}
SameUrl(e) == {i \in DOMAIN out : e.link # NoLink /\ byURL[e.link] = i}
SameTitle(e) ==
  {i \in DOMAIN out : WithinWindow(out[i], e) /\ Similar(out[i].title, e.title, TitleMin)}
SameBody(e) ==
  {i \in DOMAIN out : WithinWindow(out[i], e) /\ Similar(Body(out[i]), Body(e), ContentMin)}

-----------------------------------------------------------------------------
(***************************************************************************)
(* Plausible mistakes in the definitions below, one per property.          *)
(***************************************************************************)
\* The search by title does not ask whether id or link have matched already.
StagesTitleOverrides(e) == <<SameTitle(e), SameId(e), SameUrl(e), SameBody(e)>>

\* The newer of two copies replaces the other.
MergedKeepsNewer(keep, other) == IF DateOf(other) > DateOf(keep) THEN other ELSE keep

-----------------------------------------------------------------------------
Stages(e) == <<SameId(e), SameUrl(e), SameTitle(e), SameBody(e)>>

\* e matches the kept entry i: the first one of the first stage that has any.
Matches(e, i) ==
  \E s \in 1..4 :
    /\ \A r \in 1..s-1 : Stages(e)[r] = {}
    /\ i \in Stages(e)[s]
    /\ \A j \in Stages(e)[s] : i <= j

\* mergeEntries: what was there first stays, and what it lacks is filled in.
Merged(keep, other) ==
  [id    |-> IF keep.source = "hash" /\ other.source # "hash" THEN other.id ELSE keep.id,
   source |-> IF keep.source = "hash" THEN other.source ELSE keep.source,
   link  |-> IF keep.link = NoLink THEN other.link ELSE keep.link,
   title |-> IF keep.title = {} THEN other.title ELSE keep.title,
   content |-> IF keep.content = {} THEN other.content ELSE keep.content,
   summary |-> IF keep.summary = {} THEN other.summary ELSE keep.summary,
   pub   |-> IF keep.pub = 0 THEN other.pub ELSE keep.pub,
   upd   |-> IF keep.upd = 0 THEN other.upd ELSE keep.upd]

\* Faulty: the place is that behind the entry just appended.
RegisterPastEnd(i, shown, taken) ==
  /\ byID' = [byID EXCEPT ![shown.id] = i + 1, ![taken.id] = i + 1]
  /\ byURL' = [l \in Link |-> IF l \in {shown.link, taken.link} THEN i + 1 ELSE byURL[l]]

\* Faulty: only what the kept entry shows is registered.
RegisterShown(i, shown, taken) ==
  /\ byID' = [byID EXCEPT ![shown.id] = i]
  /\ byURL' = [l \in Link |-> IF shown.link = l THEN i ELSE byURL[l]]

\* The ids and links of the kept entry and of the one taken lead to place i.
Register(i, shown, taken) ==
  /\ byID' = [x \in Id |-> IF x \in {shown.id, taken.id} THEN i ELSE byID[x]]
  /\ byURL' = [l \in Link |-> IF l \in {shown.link, taken.link} THEN i ELSE byURL[l]]

-----------------------------------------------------------------------------
\* Dedup is called with the entries of all feeds.
Begin(entries) ==
  /\ rest = <<>>
  /\ rest' = entries
  /\ out' = <<>> /\ first' = <<>> /\ seen' = {}
  /\ byID' = [x \in Id |-> 0]
  /\ byURL' = [l \in Link |-> 0]

MergeInto(i) ==
  /\ rest # <<>>
  /\ Matches(Head(rest), i)
  /\ LET merged == Merged(out[i], Head(rest))
     IN  /\ out' = [out EXCEPT ![i] = merged]
         /\ Register(i, merged, Head(rest))
  /\ rest' = Tail(rest) /\ seen' = seen \cup {Head(rest)}
  /\ UNCHANGED first

Keep ==
  /\ rest # <<>>
  /\ \A i \in DOMAIN out : ~Matches(Head(rest), i)
  /\ out' = Append(out, Head(rest))
  /\ Register(Len(out) + 1, Head(rest), Head(rest))
  /\ rest' = Tail(rest) /\ seen' = seen \cup {Head(rest)}
  /\ first' = Append(first, Head(rest))

DedupNext ==
  \/ \E entries \in Seq(Entry) : Begin(entries)
  \/ \E i \in DOMAIN out : MergeInto(i)
  \/ Keep

DedupSpec == DedupInit /\ [][DedupNext]_dedupVars

-----------------------------------------------------------------------------
\* No two kept entries have the same id, although a merge may replace the id
\* of a kept entry by that of a later one, and an id may lead to an entry that
\* was kept under another.
IdsUnique == \A i, j \in DOMAIN out : out[i].id = out[j].id => i = j

\* An entry is kept only if neither its id nor its link was met before, be it
\* on an entry that was merged away.  (Two kept entries may still share a link:
\* if one of them had none until a copy of it, met by its id, brought it along.)
KeptIsNew ==
  [][\A e \in seen : Len(out') > Len(out) =>
       LET kept == out'[Len(out')]
       IN  e.id # kept.id /\ (e.link = kept.link => e.link = NoLink)]_dedupVars

\* The first copy came without a date, and one with a date was merged into it.
Dated(i) == DateOf(first[i]) = 0 /\ DateOf(out[i]) # 0

\* The first occurrence wins (the comment on Dedup): it decides what is shown,
\* and by which date, whatever is merged into it, unless it only had a date of
\* update.  Nothing is said of an undated first copy that met a dated one: by the
\* comment the dated one replaces it, in the code it only brings its date along.
FirstCopyStands ==
  \A i \in DOMAIN out : ~Dated(i) =>
    /\ first[i].title # {} => out[i].title = first[i].title
    /\ first[i].link # NoLink => out[i].link = first[i].link
    /\ first[i].source # "hash" => out[i].id = first[i].id
    /\ first[i].pub # 0 => DateOf(out[i]) = DateOf(first[i])

=============================================================================
