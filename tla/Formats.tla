------------------------------ MODULE Formats ------------------------------
(***************************************************************************)
(* Between documents and entries: how the parser makes an entry out of an  *)
(* RSS item or an Atom entry (internal/feed/parse.go), and what the three  *)
(* encoders write of one (encode.go), which other readers, and other       *)
(* feedmerges, parse again.                                                *)
(*                                                                         *)
(* A guid that is a URL is one of Link.  A date is the text that stands in *)
(* the document and what ParseDate makes of it, 0 if it makes nothing of   *)
(* it.  XML, character references, relative URLs, hubs, authors and        *)
(* categories are left out.                                                *)
(***************************************************************************)
EXTENDS Dedup

CONSTANTS
  NoId,       \* the guid of an item without one
  Hash(_, _)  \* the hash of a title and the text of a date

ASSUME NoIdAssumption == NoId \notin Id

NoDate == [text |-> "", date |-> 0]
Written(d) == IF d = 0 THEN NoDate ELSE [text |-> "written", date |-> d]

\* firstNonEmpty: a date that is there but cannot be parsed hides the next.
FirstDate(dates) ==
  LET there == {i \in DOMAIN dates : dates[i].text # ""}
  IN  IF there = {} THEN NoDate
      ELSE dates[CHOOSE i \in there : \A j \in there : i <= j]

FirstText(s, t) == IF s # {} THEN s ELSE t
FirstTime(d, e) == IF d # 0 THEN d ELSE e

\* assignID: the guid, the link, or a hash.
Identified(guid, link, title, raw) ==
  CASE guid # NoId                    -> [id |-> guid, source |-> "guid"]
    [] guid = NoId /\ link # NoLink -> [id |-> link, source |-> "link"]
    [] OTHER                          -> [id |-> Hash(title, raw.text), source |-> "hash"]

ParseRssItem(it) ==
  LET permalink == it.guid \in Link /\ it.permalink # "false"
      link == IF it.link = NoLink /\ permalink THEN it.guid ELSE it.link
      raw == FirstDate(<<it.pubDate, it.dcDate>>)
      identity == Identified(it.guid, link, it.title, raw)
  IN  [id |-> identity.id, source |-> identity.source, link |-> link, title |-> it.title,
       content |-> FirstText(it.encoded, it.description), summary |-> it.description,
       pub |-> raw.date, upd |-> raw.date]

\* pickLink: an alternate link, or else one that does not say what it is, or
\* else any.
PickLink(links) ==
  LET Places(rels) == {i \in DOMAIN links : links[i].href # NoLink /\ links[i].rel \in rels}
      all == Places({links[i].rel : i \in DOMAIN links})
      best == CASE Places({"alternate"}) # {} -> Places({"alternate"})
                [] Places({"alternate"}) = {} /\ Places({""}) # {} -> Places({""})
                [] OTHER -> all
  IN  IF all = {} THEN NoLink
      ELSE links[CHOOSE i \in best : \A j \in best : i <= j].href

ParseAtomEntry(ae) ==
  LET link == PickLink(ae.links)
      raw == FirstDate(<<ae.published, ae.issued, ae.updated>>)
      identity == Identified(ae.id, link, ae.title, raw)
  IN  [id |-> identity.id, source |-> identity.source, link |-> link, title |-> ae.title,
       content |-> FirstText(ae.content, ae.summary), summary |-> ae.summary,
       pub |-> raw.date, upd |-> FirstTime(ae.updated.date, raw.date)]

-----------------------------------------------------------------------------
(***************************************************************************)
(* The encoders, on the entries and the date of a merge.                   *)
(***************************************************************************)
\* Faulty: the default of RSS, by which any guid that is a URL is a permalink.
WriteRSSDefaultPermalink(entries, updated) ==
  LET Item(e) ==
        [guid |-> e.id, permalink |-> "", link |-> e.link, title |-> e.title,
         description |-> Body(e), encoded |-> {},
         pubDate |-> Written(DateOf(e)), dcDate |-> NoDate]
  IN  [updated |-> updated, items |-> [k \in DOMAIN entries |-> Item(entries[k])]]

WriteRSS(entries, updated) ==
  LET Item(e) ==
        [guid |-> e.id, permalink |-> IF e.source = "link" THEN "true" ELSE "false",
         link |-> e.link, title |-> e.title, description |-> Body(e), encoded |-> {},
         pubDate |-> Written(DateOf(e)), dcDate |-> NoDate]
  IN  [updated |-> updated, items |-> [k \in DOMAIN entries |-> Item(entries[k])]]

\* Atom wants a date of update: an entry without any gets that of the merge.
WriteAtom(entries, updated) ==
  LET Links(e) == IF e.link = NoLink THEN <<>> ELSE <<[href |-> e.link, rel |-> "alternate"]>>
      Item(e) ==
        [id |-> e.id, links |-> Links(e), title |-> e.title,
         content |-> Body(e), summary |-> {},
         published |-> Written(e.pub), issued |-> NoDate,
         updated |-> Written(FirstTime(FirstTime(e.upd, e.pub), updated))]
  IN  [updated |-> updated, items |-> [k \in DOMAIN entries |-> Item(entries[k])]]

WriteJSON(entries, updated) ==
  LET Item(e) ==
        [id |-> e.id, url |-> e.link, title |-> e.title, content |-> Body(e),
         summary |-> IF e.summary = Body(e) THEN {} ELSE e.summary,
         published |-> e.pub, modified |-> e.upd]
  IN  [k \in DOMAIN entries |-> Item(entries[k])]

\* What a snapshot is rendered to, and its entity tag is a hash of.
Rendered(entries, updated) ==
  <<WriteRSS(entries, updated), WriteAtom(entries, updated), WriteJSON(entries, updated)>>

\* What a reader, such as another feedmerge, makes of a published document.
ReadAgain(format, entries, updated) ==
  IF format = "rss"
  THEN LET doc == WriteRSS(entries, updated)
       IN  [k \in DOMAIN doc.items |-> ParseRssItem(doc.items[k])]
  ELSE LET doc == WriteAtom(entries, updated)
       IN  [k \in DOMAIN doc.items |-> ParseAtomEntry(doc.items[k])]

=============================================================================
