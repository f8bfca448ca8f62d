------------------------------- MODULE MCSearch -------------------------------
(* Two letters, four short documents, and an index of nothing.             *)
EXTENDS Search

Stops == {<<"y", "x">>}

\* The third has the words of the first two with a stop word between them and
\* a phrase that runs from its title into its body; the fourth names a word in
\* its labels only, one that begins like another and one in a part of its body
\* that no reader sees.
Doc1 == [title |-> <<"x">>, labels |-> <<>>, body |-> <<"y", " ", "y", "y">>]
Doc2 == [title |-> <<"y">>, labels |-> <<"x">>, body |-> <<>>]
Doc3 == [title |-> <<"x", "-", "y", "x">>, labels |-> <<>>, body |-> <<"y", "x", " ", "y">>]
Doc4 == [title |-> <<"x", "x">>, labels |-> <<"y", "y">>, body |-> <<"x", "<b>", "y", "<nav>", "y", "</nav>", "x">>]

DocLists == {<<>>, <<Doc1, Doc2, Doc3, Doc4>>}
===============================================================================
