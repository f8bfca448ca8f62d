--------------------------- MODULE MCConfiguration ---------------------------
(* Every indentation of a few lines, and outlines that nest three deep.     *)
EXTENDS Configuration

Url1 == <<"http://", "n">>

\* Two feeds, one of them also with a blank that quotes keep, names, titles,
\* saved searches, filters and things to leave out.
HandLines ==
  {<<"feeds", ":">>,
   <<Dash, " ", "url", ":", " ">> \o Url1,
   <<" ", " ", Dash, " ", "url", ":", " ", "http://", "x", "\t", "x">>,
   <<Dash, " ", "\"">> \o Url1 \o <<" ", "\"", " ", "#", "x">>,
   <<" ", " ", "name", ":", " ", "n", ":", "\t", "\"">>,
   <<Dash, " ", "name", ":", " ", "x">>,
   <<" ", " ", "query", ":", " ", "n">>,
   <<"title", ":", " ", "n">>,
   <<"workers", ":", " ", "8">>,
   <<"searches", ":">>,
   <<"filters", ":">>,
   <<Dash, " ", "exclude", " ", "title", " ", "~", " ", "n">>,
   <<Dash>>}

\* A folder, a name for quotes and one of its own for each feed; of two feeds
\* that are not fetched by http, one has a line break in its URL.
ListLabels == {<<"n">>, <<" ", "\"", "x", "\n", ":", "\\">>, <<>>}
ListUrls ==
  {<<>>, <<"http://", "n">>, <<"http://", "x", " ">>, <<"x">>, <<"x", "\n", "x">>}
==============================================================================
