---------------------------- MODULE Configuration ----------------------------
(***************************************************************************)
(* From a config file to a configuration (internal/config/config.go), and  *)
(* through opml import and export.  A file is written by hand line by      *)
(* line, or imported from a subscription list that grows outline by        *)
(* outline, under a title typed key by key, which is tried as the pattern  *)
(* of a filter rule too.  Of the settings, one string and one number stand *)
(* for the others.                                                         *)
(***************************************************************************)
EXTENDS Opml, Rules

CONSTANTS Lines,        \* the lines written by hand
          MaxLines,     \* bound: the lines of a file
          Labels,       \* the titles of outlines
          Urls,         \* the feeds of outlines; <<>> for a folder
          MaxOutlines,  \* bound: the outlines of a list
          Letters,      \* the letters of a title
          MaxTitle      \* bound: the length of a title

VARIABLES file,   \* a config file
          doc,    \* a subscription list
          count,  \* the outlines in it
          title   \* the --title of opml import

vars == <<file, doc, count, title>>
-----------------------------------------------------------------------------
(* Load.                                                                   *)

Known == {<<"title">>, <<"workers">>, <<"filters">>, <<"searches">>, <<"feeds">>}

\* The scalars of a mapping with no other keys than these.
IsRecord(node, keys) ==
  /\ node.kind = "map" /\ DOMAIN node.fields \subseteq keys
  /\ \A k \in DOMAIN node.fields : node.fields[k].kind = "scalar"

Field(node, key) == IF key \in DOMAIN node.fields THEN node.fields[key].scalar ELSE <<>>

IsFeed(node) == node.kind = "scalar" \/ IsRecord(node, {<<"url">>, <<"name">>})
IsSearch(node) == IsRecord(node, {<<"name">>, <<"query">>})

FeedOf(node) ==
  IF node.kind = "scalar" THEN [url |-> node.scalar, name |-> <<>>]
  ELSE [url |-> Field(node, <<"url">>), name |-> Field(node, <<"name">>)]

SearchOf(node) == [name |-> Field(node, <<"name">>), query |-> Field(node, <<"query">>)]

Each(items, Read(_)) == [i \in DOMAIN items |-> Read(items[i])]
Distinct(items) == \A i, j \in DOMAIN items : items[i] = items[j] => i = j

\* Names are compared trimmed, and kept so.
ValidateSearches(searches) ==
  LET names == Each(searches, LAMBDA s : TrimSpace(s.name))
  IN  /\ \A i \in DOMAIN searches : /\ names[i] # <<>> /\ ToSet(names[i]) \subseteq Letters
                                    /\ TrimSpace(searches[i].query) # <<>>
      /\ Distinct(names)

Kept(c) ==
  [c EXCEPT !.feeds = Each(@, LAMBDA f : [f EXCEPT !.url = TrimSpace(@)]),
            !.searches = Each(@, LAMBDA s : [s EXCEPT !.name = TrimSpace(@)])]

\* URLs are compared as they were written.
FinishUntrimmed(c) ==
  IF /\ c.feeds # <<>>
     /\ \A i \in DOMAIN c.feeds : IsHttp(TrimSpace(c.feeds[i].url))
     /\ Distinct(Each(c.feeds, LAMBDA f : f.url))
     /\ ValidateSearches(c.searches)
     /\ \A rule \in ToSet(RulesOf(c.filters)) : rule.ok
  THEN Kept(c)
  ELSE Fail

\* URLs are compared trimmed, and kept so.
Finish(c) ==
  IF /\ c.feeds # <<>>
     /\ \A i \in DOMAIN c.feeds : IsHttp(TrimSpace(c.feeds[i].url))
     /\ Distinct(Each(c.feeds, LAMBDA f : TrimSpace(f.url)))
     /\ ValidateSearches(c.searches)
     /\ \A rule \in ToSet(RulesOf(c.filters)) : rule.ok
  THEN Kept(c)
  ELSE Fail

\* A number given as a list or a mapping has no scalar and stands at its
\* default, and filters that are a mapping are no filters.
ConfigOf(fields) ==
  LET Child(key) == IF key \in DOMAIN fields THEN fields[key] ELSE Scalar(<<>>)
      ItemsOf(key) == IF Child(key).kind = "seq" THEN Child(key).items ELSE <<>>
      Absent(key) == key \notin DOMAIN fields
      Number(node) == node.kind = "scalar" => ToSet(node.scalar) \subseteq {"8"}
  IN  IF /\ DOMAIN fields \subseteq Known
         /\ Child(<<"title">>).kind = "scalar"
         /\ Number(Child(<<"workers">>))
         /\ Child(<<"filters">>).kind = "scalar" => Child(<<"filters">>).scalar = <<>>
         /\ \A node \in ToSet(ItemsOf(<<"filters">>)) : node.kind = "scalar"
         /\ Absent(<<"searches">>) \/ Child(<<"searches">>).kind = "seq"
         /\ \A node \in ToSet(ItemsOf(<<"searches">>)) : IsSearch(node)
         /\ Child(<<"feeds">>).kind = "seq"
         /\ \A node \in ToSet(ItemsOf(<<"feeds">>)) : IsFeed(node)
      THEN [ok |-> TRUE,
            title |-> IF Absent(<<"title">>) THEN <<"feedmerge">>
                      ELSE Child(<<"title">>).scalar,
            workers |-> IF Child(<<"workers">>).kind = "scalar"
                        THEN Child(<<"workers">>).scalar ELSE <<>>,
            filters |-> Each(ItemsOf(<<"filters">>), LAMBDA n : n.scalar),
            searches |-> Each(ItemsOf(<<"searches">>), SearchOf),
            feeds |-> Each(ItemsOf(<<"feeds">>), FeedOf)]
      ELSE Fail

ParseConfig(text) ==
  Then(ParseYaml(text), LAMBDA root : Then(ConfigOf(root.node.fields), Finish))
-----------------------------------------------------------------------------
(* Writing a file, a list or a title.                                      *)

Init == file = <<>> /\ doc = <<>> /\ count = 0 /\ title = <<>>

WriteLine(line) ==
  /\ doc = <<>> /\ title = <<>> /\ Len(file) < MaxLines
  /\ file' = Append(file, line)
  /\ UNCHANGED <<doc, count, title>>

\* The lists in which one more outline was put last, at any depth.
RECURSIVE Extended(_, _)
Extended(outlines, o) ==
  {Append(outlines, o)} \cup
  (IF outlines = <<>> THEN {}
   ELSE LET n == Len(outlines)
        IN  {[outlines EXCEPT ![n].children = cs] : cs \in Extended(outlines[n].children, o)})

AddOutline(label, url) ==
  /\ file = <<>> /\ title = <<>> /\ count < MaxOutlines
  /\ doc' \in Extended(doc, Outline(label, url, <<>>))
  /\ count' = count + 1
  /\ UNCHANGED <<file, title>>

TypeTitle(ch) ==
  /\ file = <<>> /\ doc = <<>> /\ Len(title) < MaxTitle
  /\ title' = Append(title, ch)
  /\ UNCHANGED <<file, doc, count>>

Next == \/ \E line \in Lines : WriteLine(line)
        \/ \E label \in Labels, url \in Urls : AddOutline(label, url)
        \/ \E ch \in Letters \cup {" ", ":", "#", "\"", "'", "\\", "\n", "/"} : TypeTitle(ch)

Spec == Init /\ [][Next]_vars
-----------------------------------------------------------------------------
(* Properties.                                                             *)

\* The value on a line: what follows its key or its dash.
ValueIn(text, kv) == TrimSpace(Unquote(IF kv.ok THEN kv.rest ELSE text).scalar)
ValueOf(text) == ValueIn(text, SplitKey(text))
ValueOn(line) == ValueOf(IF IsItem(line) THEN AfterDash(line) ELSE line.text)

\* The sections that are read as nothing because they hold something else.
Ignored(fields) ==
  \/ <<"filters">> \in DOMAIN fields /\ fields[<<"filters">>].kind = "map"
  \/ <<"workers">> \in DOMAIN fields /\ fields[<<"workers">>].kind # "scalar"

\* Every value on the lines, however these are indented, is in the configuration
\* c, and a name right under a URL is the name of that feed.
AllRead(ls, c) ==
  LET values == {c.title, c.workers, <<>>} \cup ToSet(c.filters)
                \cup UNION {{s.name, s.query} : s \in ToSet(c.searches)}
                \cup UNION {{f.url, f.name} : f \in ToSet(c.feeds)}
      NamedAt(i) == i <= Len(ls) /\ IsPrefix(<<"name", ":">>, ls[i].text)
  IN  /\ {ValueOn(ls[i]) : i \in DOMAIN ls} \subseteq {TrimSpace(v) : v \in values}
      /\ \A i \in DOMAIN ls, f \in ToSet(c.feeds) :
           IsItem(ls[i]) /\ ValueOn(ls[i]) = f.url /\ NamedAt(i + 1)
             => TrimSpace(f.name) = ValueOn(ls[i + 1])

\* A file that loads was read to the last line.  The parser stops where the
\* indentation falls back, and each of its callers must go on from there or
\* refuse the file.  A section of the wrong kind is the exception: filters and
\* numbers drop it.
NothingIsLost ==
  \A c \in {ParseConfig(file)} :
    c.ok /\ ~Ignored(ParseYaml(file).node.fields) => AllRead(ScanLines(file), c)

\* What is lost in a scalar, and nothing else: a line break becomes a blank.
Flat(text) == [i \in DOMAIN text |-> IF text[i] \in {"\n", "\t"} THEN " " ELSE text[i]]

\* The loader reads the title that was typed, whatever quotes, colons, number
\* signs and backslashes it is made of.
TitleIsRead ==
  title # <<>> =>
    \A c \in {ParseConfig(WriteConfigYAML(title, <<Sub(<<>>, <<"http://", "n">>, <<>>)>>))} :
      c.ok /\ c.title = Flat(title)

\* The configuration c holds every http feed of a list, once, in order and under
\* its name; it is refused if and only if there is none.
Holds(c, wanted) ==
  /\ c.ok <=> wanted # <<>>
  /\ c.ok => c.feeds = Each(wanted, LAMBDA s : [url |-> s.url, name |-> Flat(s.name)])

\* The lists that opml import may write of a subscription list: all of it or a
\* folder.
Imported(subs) == {subs} \cup {FilterFolder(subs, s.folder) : s \in ToSet(subs)}

ListLoads(list) ==
  Holds(ParseConfig(WriteConfigYAML(<<>>, list)), SelectSeq(list, LAMBDA s : IsHttp(s.url)))

OneLine(text) == ToSet(text) \cap {"\n", "\t"} = {}

\* A list whose URLs are on one line loads under the title it was given, whole
\* or a folder of it, with names of any form and next to any feed that is not
\* fetched by http.  Left out are URLs with a line break: one that is skipped
\* goes raw into a comment, and what follows the break is a line of the file.
ImportLoads ==
  /\ TitleIsRead
  /\ doc # <<>> =>
       \A subs \in {Parse(doc)} :
         (\A s \in ToSet(subs) : OneLine(s.url)) =>
           \A list \in Imported(subs) : ListLoads(list)

\* A list written again holds the same feeds in the same folders, in the same
\* order within each (the comment on Write), and the second time nothing moves.
GroupingSurvives ==
  LET subs == Each(Parse(doc), LAMBDA s : IF s.name = <<>> THEN [s EXCEPT !.name = s.url] ELSE s)
      again == Parse(Write(subs))
      In(list, folder) == SelectSeq(list, LAMBDA s : s.folder = folder)
  IN  /\ Len(again) = Len(subs)
      /\ \A s \in ToSet(subs) : In(again, s.folder) = In(subs, s.folder)
      /\ Parse(Write(again)) = again

Exported(feeds) == WriteConfigYAML(<<>>, Parse(Write(ConfigSubscriptions(feeds))))

\* A configuration that is exported and imported again has the same feeds in
\* the same order, with a blank for every tab; one without a name comes back
\* named by its URL.  (Two URLs that differ in such a blank alone are one then,
\* and the file is refused.)
ExportKeepsFeeds ==
  \A c \in {ParseConfig(file)} :
    c.ok /\ (\A f, g \in ToSet(c.feeds) : Flat(f.url) = Flat(g.url) => f.url = g.url) =>
      \A back \in {ParseConfig(Exported(c.feeds))} :
        back.ok /\ back.feeds =
          Each(c.feeds, LAMBDA f :
                 [url |-> Flat(f.url),
                  name |-> Flat(IF f.name = <<>> THEN f.url ELSE TrimSpace(f.name))])

\* A file with one filter rule, as it stands behind the dash.
RuleFile(item) ==
  <<<<"feeds", ":">>, <<Dash, " ", "http://", "n">>,
    <<"filters", ":">>, <<Dash, " ">> \o item>>

\* The rules are what the item says: the pattern is what was written, up to the
\* last slash that closes it.
Compiled(c, written) ==
  LET close == {k \in 3 .. Len(written) :
                  written[k] = "/" /\ \A j \in k + 1 .. Len(written) : written[j] = "i"}
      slashed == written # <<>> /\ written[1] = "/"
  IN  /\ c.ok <=> written # <<>> /\ (slashed => close # {})
      /\ c.ok => RulesOf(c.filters)[1].pattern =
                   IF slashed THEN SubSeq(written, 2, Max(close) - 1) ELSE written

\* A filter rule compiles to the pattern that was written, whether it is a
\* quoted item of the list or a bare one, and is refused in both or neither;
\* only a bare item with a blank and a number sign in it is cut there.  Left
\* out are rules whose first quote is followed by a colon: SplitKey takes the
\* escaped quote for the end of a quoted key, and the file is refused.
RuleSurvives ==
  LET rule == <<"exclude", " ", "title", " ", "~", " ">> \o title
      cut == \E i \in 1 .. Len(rule) - 1 : rule[i] = " " /\ rule[i + 1] = "#"
      quote == {i \in DOMAIN title : title[i] = "\""}
      keyed == quote # {} /\ IsPrefix(<<":">>, TrimSpace(From(title, Min(quote) + 1)))
  IN  title # <<>> /\ "\n" \notin ToSet(title) /\ ~keyed =>
        \A quoted \in {ParseConfig(RuleFile(YamlScalar(rule \o <<" ">>)))},
           bare \in {ParseConfig(RuleFile(rule))} :
          /\ Compiled(quoted, TrimSpace(title))
          /\ ~cut => bare.ok = quoted.ok
          /\ ~cut /\ bare.ok => RulesOf(bare.filters) = RulesOf(quoted.filters)

=============================================================================
