-------------------------------- MODULE Opml --------------------------------
(***************************************************************************)
(* Subscription lists (internal/opml), and the two ways of opml import and *)
(* export between them and a config file (cmd/feedmerge/opml.go,           *)
(* internal/server/opml.go).  An outline is its title or else its text,    *)
(* its feed and its children; home pages and dates are left out, and so is *)
(* the XML, which one library both writes and reads.                       *)
(***************************************************************************)
EXTENDS Yaml

Sub(name, url, folder) == [name |-> name, url |-> url, folder |-> folder]

RECURSIVE Collect(_, _, _)

\* A feed found before is dropped; an outline that is no feed is a folder.
Collect(o, folder, subs) ==
  LET label == TrimSpace(o.label)
      url == TrimSpace(o.url)
      child == IF url # <<>> \/ label = <<>> THEN folder
               ELSE IF folder = <<>> THEN label ELSE folder \o <<"/">> \o label
      here == IF url = <<>> \/ \E i \in DOMAIN subs : subs[i].url = url THEN subs
              ELSE Append(subs, Sub(label, url, folder))
  IN  FoldLeft(LAMBDA acc, c : Collect(c, child, acc), here, o.children)

\* No subscription at all is an error.
Parse(doc) == FoldLeft(LAMBDA acc, o : Collect(o, <<>>, acc), <<>>, doc)

Outline(label, url, children) == [label |-> label, url |-> url, children |-> children]

\* A feed with the title of a folder is taken for it.
WriteUnderAnyTitle(subs) ==
  LET Node(s) == Outline(IF s.name = <<>> THEN s.url ELSE s.name, s.url, <<>>)
      Add(doc, s) ==
        LET place == {i \in DOMAIN doc : doc[i].label = s.folder}
        IN  IF s.folder = <<>> THEN Append(doc, Node(s))
            ELSE IF place = {} THEN Append(doc, Outline(s.folder, <<>>, <<Node(s)>>))
            ELSE [doc EXCEPT ![Min(place)].children = Append(@, Node(s))]
  IN  FoldLeft(Add, <<>>, subs)

\* A feed without a name is shown by its URL; a folder is put where its first
\* feed was.
Write(subs) ==
  LET Node(s) == Outline(IF s.name = <<>> THEN s.url ELSE s.name, s.url, <<>>)
      Add(doc, s) ==
        LET place == {i \in DOMAIN doc : doc[i].url = <<>> /\ doc[i].label = s.folder}
        IN  IF s.folder = <<>> THEN Append(doc, Node(s))
            ELSE IF place = {} THEN Append(doc, Outline(s.folder, <<>>, <<Node(s)>>))
            ELSE [doc EXCEPT ![Min(place)].children = Append(@, Node(s))]
  IN  FoldLeft(Add, <<>>, subs)

\* opml import --folder.
FilterFolder(subs, folder) ==
  SelectSeq(subs, LAMBDA s : s.folder = folder \/ IsPrefix(folder \o <<"/">>, s.folder))

IsHttp(url) == IsPrefix(<<"http://">>, url)

\* Every feed is written, whatever its URL.
WriteConfigTrustingUrls(title, subs) ==
  LET Feed(s) ==
        <<<<" ", " ", Dash, " ", "url", ":", " ">> \o YamlScalar(s.url)>>
        \o (IF s.name = <<>> THEN <<>>
            ELSE <<<<" ", " ", " ", " ", "name", ":", " ">> \o YamlScalar(s.name)>>)
  IN  (IF title = <<>> THEN <<>> ELSE <<<<"title", ":", " ">> \o YamlScalar(title)>>)
      \o <<<<"feeds", ":">>>> \o FlattenSeq([i \in DOMAIN subs |-> Feed(subs[i])])

\* opml import: what the loader would refuse becomes a comment, written as it is:
\* a line break in it ends the comment.
WriteConfigYAML(title, subs) ==
  LET Feed(s) ==
        IF ~IsHttp(s.url)
        THEN TextLines(<<" ", " ", "#", "skipped", " ">> \o s.url \o <<":", " ", "not", " ", "http">>)
        ELSE <<<<" ", " ", Dash, " ", "url", ":", " ">> \o YamlScalar(s.url)>>
             \o (IF s.name = <<>> THEN <<>>
                 ELSE <<<<" ", " ", " ", " ", "name", ":", " ">> \o YamlScalar(s.name)>>)
  IN  (IF title = <<>> THEN <<>> ELSE <<<<"title", ":", " ">> \o YamlScalar(title)>>)
      \o <<<<"feeds", ":">>>> \o FlattenSeq([i \in DOMAIN subs |-> Feed(subs[i])])

\* opml export and /opml: the config has no folders.
ConfigSubscriptions(feeds) ==
  [i \in DOMAIN feeds |-> Sub(feeds[i].name, feeds[i].url, <<>>)]
=============================================================================
