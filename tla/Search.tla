------------------------------- MODULE Search -------------------------------
(***************************************************************************)
(* The index over the merged entries and the query language read from the  *)
(* search box (internal/search).  A text is a sequence of characters, a    *)
(* token is a text of letters only.  A reader types a query one key at a   *)
(* time and every state of the box is searched; an upstream writes the     *)
(* body of an entry a tag or character at a time.  Left out: the BM25      *)
(* weights, hence the order of the hits, and the snippets.                 *)
(***************************************************************************)
EXTENDS Extract

CONSTANTS Letters,      \* the letters and digits, in lower case
          StopWords,    \* the tokens Tokenize drops
          Collections,  \* the sequences of documents an index is built over
          MaxTyped,     \* bound: the keys a reader types
          MaxBody       \* bound: the length of a body

ASSUME SearchAssumption == /\ Letters \cap {" ", "\n", "+", "-", "\""} = {}
                           /\ MaxTyped \in Nat /\ MaxBody \in Nat

ASSUME CollectionsAssumption ==
  Collections \subseteq Seq([title : Seq(STRING), labels : Seq(STRING),
                             body : Seq(STRING)])

VARIABLES docs,   \* the entries New was given: title, labels and body
          index,  \* what New built over them
          typed,  \* the q parameter
          mode,   \* history: where in the query language typed stops
          body    \* the body of one more entry, as it is written

vars == <<docs, index, typed, mode, body>>

Quote == "\""
Signs == {"+", "-"}
Keys == Letters \cup Signs \cup {Space, Quote}
-----------------------------------------------------------------------------
(* Tokens.  Labels stand for the categories, the author and the source.    *)

Flush(acc) ==
  [word |-> <<>>,
   out |-> IF acc.word \in StopWords \cup {<<>>} THEN acc.out
           ELSE Append(acc.out, acc.word)]

Read(acc, ch) ==
  IF ch \in Letters THEN [acc EXCEPT !.word = Append(@, ch)] ELSE Flush(acc)

\* The word still being read when the text ends is dropped.
TokenizeNoLastFlush(text) ==
  FoldLeft(Read, [word |-> <<>>, out |-> <<>>], text).out

Tokenize(text) ==
  Flush(FoldLeft(Read, [word |-> <<>>, out |-> <<>>], text)).out

Join(texts) ==
  IF texts = <<>> THEN <<>>
  ELSE FoldLeft(LAMBDA acc, t : acc \o <<Space>> \o t, Head(texts), Tail(texts))

\* The terms a quoted phrase is looked for in.
Phrasing(d) == Tokenize(d.title) \o Tokenize(Plain(d.body))
Words(d) == ToSet(Phrasing(d)) \cup ToSet(Tokenize(d.labels))

PostingsOf(idx, w) ==
  IF w \in DOMAIN idx.postings THEN idx.postings[w] ELSE <<>>

AddDocument(idx, d) ==
  [tokens |-> Append(idx.tokens, Join(Phrasing(d))),
   postings |-> [w \in DOMAIN idx.postings \cup Words(d) |->
                   IF w \in Words(d)
                   THEN Append(PostingsOf(idx, w), Len(idx.tokens) + 1)
                   ELSE idx.postings[w]]]

New(entries) ==
  FoldLeft(AddDocument, [tokens |-> <<>>, postings |-> <<>>], entries)

\* sort.Search over the postings of a term: the least position whose document
\* is not before d.
HoldsTerm(idx, d, w) ==
  LET post == PostingsOf(idx, w)
      n == Len(post)
      bisect[span \in (0 .. n) \X (0 .. n)] ==
        LET lo == span[1]
            hi == span[2]
            mid == (lo + hi) \div 2
        IN  IF lo >= hi THEN lo
            ELSE IF post[mid + 1] >= d THEN bisect[<<lo, mid>>] ELSE bisect[<<mid + 1, hi>>]
      i == bisect[<<0, n>>]
  IN  i < n /\ post[i + 1] = d

Occurs(text, hay) ==
  \E k \in 0 .. Len(hay) - Len(text) : SubSeq(hay, k + 1, k + Len(text)) = text

Spaced(text) == <<Space>> \o text \o <<Space>>

\* The haystack is searched without the spaces around the phrase.
HasPhraseInsideWords(idx, d, terms) ==
  terms # <<>> /\ Occurs(Join(terms), idx.tokens[d])

HasPhrase(idx, d, terms) ==
  terms # <<>> /\ Occurs(Spaced(Join(terms)), Spaced(idx.tokens[d]))
-----------------------------------------------------------------------------
(* Queries.                                                                *)

\* The first place of q from i on with a character of S, or past the end.
Find(q, i, S) ==
  IF \E j \in i .. Len(q) : q[j] \in S
  THEN CHOOSE j \in i .. Len(q) : q[j] \in S /\ \A k \in i .. j - 1 : q[k] \notin S
  ELSE Len(q) + 1

ParseQuery(q) ==
  LET n == Len(q)
      parse[i \in 1 .. n + 2] ==
        LET s == Find(q, i, Keys \ {Space})
            sign == IF s <= n /\ q[s] \in Signs THEN q[s] ELSE ""
            b == IF sign = "" THEN s ELSE s + 1
            quoted == q[b] = Quote
            e == IF quoted THEN Find(q, b + 1, {Quote}) ELSE Find(q, b, {Space})
            found == Tokenize(SubSeq(q, b, e - 1))
            rest == parse[IF quoted THEN e + 1 ELSE e]
        IN  IF b > n THEN [terms |-> <<>>, phrases |-> <<>>]
            ELSE IF ~quoted
            THEN [rest EXCEPT !.terms =
                    [k \in DOMAIN found |-> [word |-> found[k],
                                             require |-> sign = "+",
                                             negate |-> sign = "-"]] \o @]
            ELSE [rest EXCEPT !.phrases =
                    IF found = <<>> THEN @
                    ELSE <<[terms |-> found, negate |-> sign = "-"]>> \o @]
  IN  parse[1]

Empty(q) == q.terms = <<>> /\ q.phrases = <<>>

Prefix(require, negate) ==
  IF require THEN <<"+">> ELSE IF negate THEN <<"-">> ELSE <<>>

\* The sign of a phrase is not echoed.
StringDropsSign(q) ==
  Join([k \in DOMAIN q.terms |->
          Prefix(q.terms[k].require, q.terms[k].negate) \o q.terms[k].word]
       \o [k \in DOMAIN q.phrases |->
          <<Quote>> \o Join(q.phrases[k].terms) \o <<Quote>>])

\* The echo of a query, which is also what its entity tag is made from.
String(q) ==
  Join([k \in DOMAIN q.terms |->
          Prefix(q.terms[k].require, q.terms[k].negate) \o q.terms[k].word]
       \o [k \in DOMAIN q.phrases |->
          Prefix(FALSE, q.phrases[k].negate)
            \o <<Quote>> \o Join(q.phrases[k].terms) \o <<Quote>>])

Satisfies(idx, d, q) ==
  /\ \A k \in DOMAIN q.terms :
       /\ q.terms[k].negate => ~HoldsTerm(idx, d, q.terms[k].word)
       /\ q.terms[k].require => HoldsTerm(idx, d, q.terms[k].word)
  /\ \A k \in DOMAIN q.phrases :
       HasPhrase(idx, d, q.phrases[k].terms) # q.phrases[k].negate

\* The documents with a score: in the postings of a term that is not negated,
\* or with a phrase that is not.
Scored(idx, q) ==
  (UNION {ToSet(PostingsOf(idx, q.terms[k].word)) :
            k \in {j \in DOMAIN q.terms : ~q.terms[j].negate}})
  \cup {d \in DOMAIN idx.tokens :
          \E k \in DOMAIN q.phrases :
            ~q.phrases[k].negate /\ HasPhrase(idx, d, q.phrases[k].terms)}

SearchQuery(idx, q) ==
  IF Empty(q) THEN {} ELSE {d \in Scored(idx, q) : Satisfies(idx, d, q)}
-----------------------------------------------------------------------------
(* The box.                                                                *)

Init == /\ docs \in Collections
        /\ index = New(docs)
        /\ typed = <<>>
        /\ mode = "gap"
        /\ body = <<>>

\* What a key does to the place in the language, whatever was typed before.
After(m, key) ==
  CASE m = "phrase" -> IF key = Quote THEN "gap" ELSE "phrase"
    [] m # "phrase" /\ key = Space -> "gap"
    [] m # "phrase" /\ key = Quote -> IF m = "word" THEN "word" ELSE "phrase"
    [] m # "phrase" /\ key \in Signs -> IF m = "gap" THEN "sign" ELSE "word"
    [] OTHER -> "word"

Type(key) == /\ body = <<>> /\ Len(typed) < MaxTyped
             /\ typed' = Append(typed, key)
             /\ mode' = After(mode, key)
             /\ UNCHANGED <<docs, index, body>>

\* An upstream writes the body of an entry.
WriteBody(ch) == /\ docs = <<>> /\ typed = <<>> /\ Len(body) < MaxBody
                 /\ body' = Append(body, ch)
                 /\ UNCHANGED <<docs, index, typed, mode>>

Next == \/ \E key \in Keys : Type(key)
        \/ \E ch \in Tags \cup {CommentStart, CommentEnd, "x"} : WriteBody(ch)

Spec == Init /\ [][Next]_vars
-----------------------------------------------------------------------------
(* Properties.                                                             *)

\* What is understood of typed, and what it finds.
Parsed == ParseQuery(typed)
Found(text) == SearchQuery(index, ParseQuery(text))

\* The echo means what was typed: reading it again gives the query it was made
\* from.  The entity tag of /search is a hash of the echo (server/search.go),
\* so two queries that answer differently never share a tag.
EchoMeansTheSame == ParseQuery(String(Parsed)) = Parsed

\* A document is what the query asks for, said of its tokens and without the
\* index: no word or phrase it excludes, every word and phrase it requires,
\* and something it looks for.
AsksFor(q, d) ==
  LET word == {q.terms[k] : k \in DOMAIN q.terms}
      phrase == {q.phrases[k] : k \in DOMAIN q.phrases}
      Says(ph) == \E k \in 0 .. Len(Phrasing(d)) - Len(ph.terms) :
                    \A j \in DOMAIN ph.terms : Phrasing(d)[k + j] = ph.terms[j]
  IN  /\ \A t \in word : (t.require => t.word \in Words(d))
                         /\ (t.negate => t.word \notin Words(d))
      /\ \A ph \in phrase : ~ph.negate <=> Says(ph)
      /\ \/ \E t \in word : ~t.negate /\ t.word \in Words(d)
         \/ \E ph \in phrase : ~ph.negate

\* The index reads of a body the words outside of the elements that are dropped
\* and of comments, however these are nested, cut short or left open; a boundary
\* between blocks parts two words and an inline tag does not.  What is dropped is
\* dropped by the rules of the package (Prose), which lose what follows an embed.
IndexReadsProse == Tokenize(Plain(body)) = Tokenize(Prose(body))

\* The bisected postings and the haystack of joined terms find exactly the
\* documents that the query asks for, in whatever place of the index they are.
FindsWhatIsAskedFor ==
  Found(typed) = {d \in DOMAIN docs : AsksFor(Parsed, docs[d])}

\* A space never changes what is understood, nor does the quote that closes a
\* phrase: a half typed phrase is read as if it were closed, as the comment on
\* ParseQuery says.
HalfTypedIsWhole ==
  [][typed' \in {Append(typed, Space)}
       \cup (IF mode = "phrase" THEN {Append(typed, Quote)} ELSE {})
     => ParseQuery(typed') = ParseQuery(typed)]_vars

=============================================================================
