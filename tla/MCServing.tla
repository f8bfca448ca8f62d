----------------------------- MODULE MCServing -----------------------------
(***************************************************************************)
(* Serving on six entries that are alike in every way the stages look for, *)
(* as their feeds have them: two copies under one guid; one that links the *)
(* same page under another guid, itself a URL, and is then changed; one    *)
(* known by nothing but its title; and an unrelated one without a guid.    *)
(* Words and ids are numbers.  Feeds hold up to three of them.             *)
(***************************************************************************)
EXTENDS Serving

At(d) == [text |-> "given", date |-> d]
Unreadable == [text |-> "yesterday", date |-> 0]

Rss(guid, permalink, link, title, description, encoded, pubDate) ==
  ParseRssItem([guid |-> guid, permalink |-> permalink, link |-> link, title |-> title,
                description |-> description, encoded |-> encoded,
                pubDate |-> pubDate, dcDate |-> NoDate])

Atom(id, links, title, summary, content, published, updated) ==
  ParseAtomEntry([id |-> id, links |-> links, title |-> title, summary |-> summary,
                  content |-> content, published |-> published, issued |-> NoDate,
                  updated |-> updated])

Rel(href, rel) == [href |-> href, rel |-> rel]

Original == Rss(1, "false", 0, {1, 2}, {}, {}, At(2))
Mirror   == Atom(1, <<Rel(5, "self"), Rel(2, "")>>, {3}, {2}, {3}, Unreadable, At(1))
Linking  == Rss(5, "false", 2, {3}, {1}, {}, At(1))
Changed  == Atom(5, <<>>, {}, {}, {1, 2}, NoDate, At(3))
Nameless == Rss(0, "", 0, {1, 2, 3}, {}, {}, NoDate)
Other    == Rss(0, "", 4, {2}, {1}, {}, At(3))

Entries == {Original, Mirror, Linking, Changed, Nameless, Other}

\* No two titles have the same hash.
HashOf(title, text) == 10 + Cardinality(title)

Upto3 ==
  UNION {{s \in [1..n -> Entries] : \A i, j \in 1..n : s[i] = s[j] => i = j} : n \in 0..3}

\* exclude content ~ 3; include any ~ 1; include title !~ 2
FilterSet ==
  {[include |-> FALSE, field |-> "content", negate |-> FALSE, word |-> 3],
   [include |-> TRUE, field |-> "any", negate |-> FALSE, word |-> 1],
   [include |-> TRUE, field |-> "title", negate |-> TRUE, word |-> 2]}

Must(w) == [word |-> w, require |-> TRUE, negate |-> FALSE]
May(w) == [word |-> w, require |-> FALSE, negate |-> FALSE]
Not(w) == [word |-> w, require |-> FALSE, negate |-> TRUE]

\* The second differs from the first in its title, the third in all but that.
SavedSearches ==
  {[query |-> {May(1), Not(3)}, limit |-> 1, title |-> "saved"],
   [query |-> {May(1), Not(3)}, limit |-> 1, title |-> "renamed"],
   [query |-> {May(1), Must(2)}, limit |-> 0, title |-> "saved"]}

SearchAsked == [query |-> {May(1), May(2)}, limit |-> 1, title |-> ""]

=============================================================================
