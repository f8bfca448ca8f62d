------------------------------ MODULE Serving ------------------------------
(***************************************************************************)
(* From the entries of the feeds to what a caching reader holds: Refresh   *)
(* (internal/server/merge.go) deduplicates, filters, sorts and cuts the    *)
(* entries and publishes a snapshot; the handlers (http.go, search.go,     *)
(* saved.go) answer from it, with entity tags by which a reader asks       *)
(* whether its copy is still good; and a restart may bring another         *)
(* configuration, while the copies of the readers stay.                    *)
(*                                                                         *)
(* The tag of a snapshot is a hash of the documents rendered from it, as   *)
(* good as these, and must tell apart whatever an answer may depend on.    *)
(* A failed refresh leaves everything alone and is Merger's matter.        *)
(***************************************************************************)
EXTENDS Formats

CONSTANTS
  Inputs,    \* what the feeds may hold: sequences of entries
  Rules,     \* Config.FilterSet
  MaxItems,  \* Config.MaxItems
  Searches,  \* what a configuration may say of the one saved search
  Asked,     \* the query and limit of the one /search that a reader sends
  MaxRounds  \* bound: how often a refresh starts

Query == SUBSET [word : Word, require : BOOLEAN, negate : BOOLEAN]
Search == [query : Query, limit : Nat, title : STRING]
Rule == [include : BOOLEAN, field : {"title", "content", "any"}, negate : BOOLEAN, word : Word]

ASSUME InputsAssumption == Inputs \subseteq Seq(Entry)
ASSUME ConfigAssumption ==
  /\ Rules \subseteq Rule
  /\ MaxItems \in Nat /\ MaxRounds \in Nat
  /\ Searches \subseteq Search /\ Asked \in Search

VARIABLES
  busy,   \* a refresh is under way
  round,  \* how many have started; the clock, too
  snap,   \* the published snapshot: <<>>, or it alone
  saved,  \* the configured saved search
  copy    \* the reader's copy of one resource: <<>>, or it alone

serverVars == <<busy, round, snap, saved, copy>>
vars == <<dedupVars, serverVars>>

Resource == {"feed", "saved", "search"}

-----------------------------------------------------------------------------
(***************************************************************************)
(* Filtering, sorting, searching.                                          *)
(***************************************************************************)
Text(e, field) ==
  (IF field \in {"title", "any"} THEN e.title ELSE {}) \cup
  (IF field \in {"content", "any"} THEN e.content ELSE {}) \cup
  (IF field = "any" THEN e.summary ELSE {})

RuleMatches(r, e) == (r.word \in Text(e, r.field)) # r.negate

\* Set.Allow: no exclude rule matches, and an include rule does if there is any.
Allow(e) ==
  LET includes == {r \in Rules : r.include}
  IN  /\ \A r \in Rules \ includes : ~RuleMatches(r, e)
      /\ includes = {} \/ \E r \in includes : RuleMatches(r, e)

\* What of s passes Test, in a stable sort where Before says what comes first.
Ranked(s, Test(_), Before(_, _)) ==
  LET Passed == {i \in DOMAIN s : Test(s[i])}
      Place(i) ==
        1 + Cardinality({j \in Passed :
              Before(s[j], s[i]) \/ (~Before(s[i], s[j]) /\ j < i)})
  IN  [k \in 1..Cardinality(Passed) |-> s[CHOOSE i \in Passed : Place(i) = k]]

Sorted(s, Before(_, _)) == Ranked(s, LAMBDA e : TRUE, Before)

Cut(s, limit) == IF limit > 0 /\ Len(s) > limit THEN SubSeq(s, 1, limit) ELSE s

\* SortByDate: newest first, an entry without a date last.
Newer(e, f) == DateOf(e) > DateOf(f)

\* The newest date, or that of the refresh if no entry has one.
Updated(s, now) ==
  LET dates == {DateOf(s[i]) : i \in DOMAIN s} \ {0}
  IN  IF dates = {} THEN now ELSE CHOOSE d \in dates : \A c \in dates : c <= d

\* A document is found through a word that is not excluded, and must have the
\* required words and none of the excluded ones.  A phrase is a required word.
Found(q, e) ==
  LET terms == e.title \cup Body(e)
  IN  /\ \E t \in q : ~t.negate /\ t.word \in terms
      /\ \A t \in q : /\ t.require => t.word \in terms
                      /\ t.negate => t.word \notin terms

\* For the weights of BM25: a word counts, and three times in the title.
Score(q, e) ==
  LET hit == {t.word : t \in {u \in q : ~u.negate}}
  IN  3 * Cardinality(hit \cap e.title) + Cardinality(hit \cap Body(e))

\* Best first, then newest, then by id.
Better(q, e, f) ==
  \/ Score(q, e) > Score(q, f)
  \/ Score(q, e) = Score(q, f) /\ DateOf(e) > DateOf(f)
  \/ Score(q, e) = Score(q, f) /\ DateOf(e) = DateOf(f) /\ e.id < f.id

SearchQuery(s, q) ==
  Ranked(s, LAMBDA e : Found(q, e), LAMBDA e, f : Better(q, e, f))

-----------------------------------------------------------------------------
(***************************************************************************)
(* What a 200 to each request carries, and its entity tag.                 *)
(***************************************************************************)
SavedFeed(s, search) ==
  LET hits == Cut(SearchQuery(s.entries, search.query), search.limit)
  IN  [title |-> search.title, query |-> search.query,
       documents |-> Rendered(hits, Updated(hits, s.updated))]

\* A hit as /search shows it; the body stands for the snippet.
Hit(q, e) ==
  [id |-> e.id, title |-> e.title, link |-> e.link, snippet |-> Body(e),
   published |-> DateOf(e), score |-> Score(q, e)]

\* Everything is ranked and then cut, so that the total is that of all hits.
SearchPage(s) ==
  LET hits == SearchQuery(s.entries, Asked.query)
      shown == Cut(hits, Asked.limit)
  IN  [total |-> Len(hits), indexed |-> Len(s.entries),
       results |-> [k \in DOMAIN shown |-> Hit(Asked.query, shown[k])]]

Content(r, s) ==
  CASE r = "feed"   -> Rendered(s.entries, s.updated)
    [] r = "saved"  -> SavedFeed(s, saved)
    [] r = "search" -> SearchPage(s)

Etag(s) == Rendered(s.entries, s.updated)

\* Faulty: the tag of a saved search leaves out what is searched for.
SavedTagWithoutQuery(s, search) == <<Etag(s), "saved">>

SavedTag(s, search) == <<Etag(s), search.query, search.limit>>

SearchTag(s) == <<Etag(s), Asked.query, Asked.limit>>

Tag(r, s) ==
  CASE r = "feed"   -> <<Etag(s)>>
    [] r = "saved"  -> SavedTag(s, saved)
    [] r = "search" -> SearchTag(s)

\* notModified: the reader sends the tag it has, and it is still the one.
NotModified(r) ==
  \E i \in DOMAIN copy : copy[i].resource = r /\ copy[i].tag = Tag(r, snap[1])

-----------------------------------------------------------------------------
TypeOK ==
  /\ DedupTypeOK
  /\ busy \in BOOLEAN /\ round \in 0..MaxRounds
  /\ Len(snap) <= 1 /\ \A i \in DOMAIN snap : snap[i].entries \in Seq(Entry)
  /\ saved \in Searches
  /\ Len(copy) <= 1 /\ \A i \in DOMAIN copy : copy[i].resource \in Resource

Init ==
  /\ DedupInit
  /\ busy = FALSE /\ round = 0 /\ snap = <<>>
  /\ saved \in Searches
  /\ copy = <<>>

\* FetchAll has answered, and Dedup gets the entries of all feeds in order.
Refresh(entries) ==
  /\ ~busy /\ round < MaxRounds
  /\ Begin(entries)
  /\ busy' = TRUE /\ round' = round + 1
  /\ UNCHANGED <<snap, saved, copy>>

Deduplicate ==
  /\ (\E i \in DOMAIN out : MergeInto(i)) \/ Keep
  /\ UNCHANGED serverVars

PublishEntries(entries) ==
  /\ busy /\ rest = <<>>
  /\ snap' = <<[entries |-> entries, updated |-> Updated(entries, MaxDate + round)]>>
  /\ busy' = FALSE
  /\ UNCHANGED <<dedupVars, round, saved, copy>>

\* Faulty: the entries are filtered before they are deduplicated.
PublishFilteredBefore ==
  LET pairs == [k \in DOMAIN out |-> [was |-> first[k], is |-> out[k]]]
      left  == Ranked(pairs, LAMBDA p : Allow(p.was), LAMBDA p, q : Newer(p.is, q.is))
  IN  PublishEntries(Cut([k \in DOMAIN left |-> left[k].is], MaxItems))

\* Faulty: the entries are cut before they are sorted.
PublishCutBefore ==
  PublishEntries(Sorted(Cut(Ranked(out, Allow, LAMBDA e, f : FALSE), MaxItems), Newer))

Publish == PublishEntries(Cut(Ranked(out, Allow, Newer), MaxItems))

\* A reader asks for a resource and keeps what it gets, with its tag; a 304
\* leaves it its copy, and nothing changes.
Get(r) ==
  /\ snap # <<>>
  /\ ~NotModified(r)
  /\ copy' = <<[resource |-> r, tag |-> Tag(r, snap[1]), content |-> Content(r, snap[1])]>>
  /\ UNCHANGED <<dedupVars, busy, round, snap, saved>>

\* The process is restarted with another saved search.
Restart ==
  /\ saved' \in Searches \ {saved}
  /\ busy' = FALSE /\ snap' = <<>>
  /\ rest' = <<>> /\ out' = <<>> /\ first' = <<>> /\ seen' = {}
  /\ byID' = [x \in Id |-> 0] /\ byURL' = [l \in Link |-> 0]
  /\ UNCHANGED <<round, copy>>

Next ==
  \/ \E entries \in Inputs : Refresh(entries)
  \/ Deduplicate
  \/ Publish
  \/ \E r \in Resource : Get(r)
  \/ Restart

Spec == Init /\ [][Next]_vars

-----------------------------------------------------------------------------
\* What an answer shows: everything but the title of a saved search, which no
\* tag covers, although saved.go:137-138 promises that editing one invalidates
\* caches.
Shown(r, content) ==
  IF r = "saved" THEN [query |-> content.query, documents |-> content.documents]
  ELSE content

\* A reader that revalidates its copy by its tag is told 304 only if a full
\* answer would show what its copy shows, across refreshes and across restarts
\* with another saved search: another query, limit or title.
NotModifiedShowsTheSame ==
  snap # <<>> =>
    \A r \in Resource :
      NotModified(r) => Shown(r, copy[1].content) = Shown(r, Content(r, snap[1]))

\* No published entry is one the filters reject, whatever was merged into it.
PublishedPassFilters ==
  \A i \in DOMAIN snap : \A k \in DOMAIN snap[i].entries : Allow(snap[i].entries[k])

\* An entry that the filters allow is left out of a snapshot only in favour of
\* entries that are not older, and those are in order.
NewestArePublished ==
  snap # <<>> /\ ~busy =>
    \A k \in DOMAIN snap[1].entries :
      LET e == snap[1].entries[k]
          later == {snap[1].entries[l] : l \in k+1..Len(snap[1].entries)}
          earlier == {snap[1].entries[l] : l \in 1..k}
      IN  \A f \in later \cup {out[i] : i \in DOMAIN out} :
            Allow(f) /\ f \notin earlier => ~Newer(f, e)

\* A merged feed is a feed: whoever reads it, in either format and also at
\* second hand, finds the same entries in the same order, under the same ids
\* and links, with what they say and when; and read as RSS they stay sorted.
\* (Read as Atom, an entry without a date comes back dated like the merge.)
RelayKeepsEntries ==
  \A i \in DOMAIN snap, f, g \in {"rss", "atom"} :
    LET was   == snap[i].entries
        once  == ReadAgain(f, was, snap[i].updated)
        twice == ReadAgain(g, once, Updated(once, snap[i].updated))
        Same(e, c) == /\ c.id = e.id /\ c.link = e.link /\ c.title = e.title
                      /\ Body(c) = Body(e)
                      /\ DateOf(e) # 0 => DateOf(c) = DateOf(e)
    IN  /\ Len(once) = Len(was) /\ Len(twice) = Len(was)
        /\ \A k \in DOMAIN was : Same(was[k], once[k]) /\ Same(was[k], twice[k])
        /\ f = "rss" => Sorted(once, Newer) = once

=============================================================================
