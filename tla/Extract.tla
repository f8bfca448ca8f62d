------------------------------- MODULE Extract -------------------------------
(***************************************************************************)
(* The plain text of an entry body (internal/extract), which is what the   *)
(* index reads.  A body is a sequence of characters, of which a tag is one *)
(* and so are the ends of a comment.  A few elements stand for the others  *)
(* of their kind.  Entities, CDATA, attributes and the summary of an entry *)
(* are left out.                                                           *)
(***************************************************************************)
EXTENDS Integers, Sequences, FiniteSets, SequencesExt

Tags == {"<p>", "</p>", "<li>", "<b>", "<nav>", "</nav>", "<nav/>", "<embed>"}

\* What is read off a tag: its name, and whether it ends an element.
Markup ==
  [tag \in Tags |->
     [name |-> CASE tag \in {"<p>", "</p>"} -> "p"
                 [] tag = "<li>" -> "li"
                 [] tag = "<b>" -> "b"
                 [] tag \in {"<nav>", "</nav>", "<nav/>"} -> "nav"
                 [] tag = "<embed>" -> "embed",
      closing |-> tag \in {"</p>", "</nav>"},
      selfClosed |-> tag = "<nav/>"]]

CommentStart == "<!--"
CommentEnd == "-->"
Space == " "
NewLine == "\n"

DropTags == {"nav", "embed"}
VoidTags == {"embed"}
BreakLevel == [n \in {"p", "li", "b", "nav", "embed"} |->
                 IF n = "p" THEN 2 ELSE IF n = "li" THEN 1 ELSE 0]
Highest(a, b) == IF a > b THEN a ELSE b
-----------------------------------------------------------------------------
(* The writer defers blanks to the next character, and what is skipped is  *)
(* an element to its matching end or a comment.                            *)

Reader == [out |-> <<>>, pending |-> 0, space |-> FALSE,
           depth |-> 0, name |-> "", comment |-> FALSE]

Brk(w, level) == [w EXCEPT !.pending = Highest(@, level)]

WriteText(w, ch) ==
  IF ch \in {Space, NewLine} THEN [w EXCEPT !.space = TRUE]
  ELSE LET gap == IF w.out = <<>> THEN <<>>
                  ELSE IF w.pending = 2 THEN <<NewLine, NewLine>>
                  ELSE IF w.pending = 1 THEN <<NewLine>>
                  ELSE IF w.space THEN <<Space>> ELSE <<>>
       IN  [w EXCEPT !.out = @ \o gap \o <<ch>>, !.pending = 0, !.space = FALSE]

\* The first end closes the element, however many were opened in it.
SkipElementShallow(w, t) ==
  IF t.name = w.name /\ t.closing THEN Brk([w EXCEPT !.depth = 0], 1) ELSE w

\* Inside an element that is dropped only its own tags count.
SkipElement(w, t) ==
  LET inner == [w EXCEPT !.depth = IF t.closing THEN @ - 1
                                   ELSE IF t.name \in VoidTags \/ t.selfClosed THEN @
                                   ELSE @ + 1]
  IN  IF t.name # w.name THEN w ELSE IF inner.depth = 0 THEN Brk(inner, 1) ELSE inner

Scan(w, ch) ==
  CASE w.comment -> [w EXCEPT !.comment = ch # CommentEnd]
    [] ~w.comment /\ ch = CommentStart -> [w EXCEPT !.comment = TRUE]
    [] ~w.comment /\ ch \in Tags ->
         LET t == Markup[ch]
         IN  IF w.depth > 0 THEN SkipElement(w, t)
             ELSE IF t.name \in DropTags /\ ~t.closing
             THEN [w EXCEPT !.depth = 1, !.name = t.name]
             ELSE Brk(w, BreakLevel[t.name])
    [] OTHER -> IF w.depth > 0 THEN w ELSE WriteText(w, ch)

Plain(html) == FoldLeft(Scan, Reader, html).out
-----------------------------------------------------------------------------
(* The same rules said of places in the body, without a scanner: which     *)
(* element covers a place, and what is left of it.                         *)

InComment(html, k) ==
  \E i \in 1 .. k : /\ html[i] = CommentStart
                    /\ \A j \in i .. k - 1 : html[j] # CommentEnd

\* The element opened at i is still open after k: its tags from i on never
\* balance before.
Covers(html, i, k) ==
  LET name == Markup[html[i]].name
      opens == {j \in i .. k : /\ html[j] \in Tags /\ Markup[html[j]].name = name
                               /\ ~Markup[html[j]].closing /\ ~InComment(html, j)
                               /\ \/ j = i
                                  \/ ~Markup[html[j]].selfClosed /\ name \notin VoidTags}
      closes == {j \in i .. k : /\ html[j] \in Tags /\ Markup[html[j]].name = name
                                /\ Markup[html[j]].closing /\ ~InComment(html, j)}
      Before(s, j) == {x \in s : x <= j}
  IN  \A j \in i .. k : Cardinality(Before(opens, j)) > Cardinality(Before(closes, j))

\* What the rules leave of a body: no comments and no dropped element, an inline
\* tag for nothing and every other for a blank.  It is what a browser shows but
\* for two rules of the package that are kept here: an embed is dropped like any
\* element, though nothing closes it and what follows is lost, and an element
\* that closes itself is open at the top, but not within another of its name.
Prose(html) ==
  LET Starts(i) == /\ html[i] \in Tags /\ ~InComment(html, i)
                   /\ Markup[html[i]].name \in DropTags /\ ~Markup[html[i]].closing
      dropped[k \in 0 .. Len(html)] ==
        \E i \in 1 .. k : Starts(i) /\ ~dropped[i - 1] /\ Covers(html, i, k)
      Seen(k) == CASE InComment(html, k) -> <<>>
                   [] ~InComment(html, k) /\ (dropped[k] \/ dropped[k - 1]) -> <<Space>>
                   [] OTHER -> IF html[k] \notin Tags THEN <<html[k]>>
                               ELSE IF BreakLevel[Markup[html[k]].name] > 0
                               THEN <<Space>> ELSE <<>>
  IN  FlattenSeq([k \in DOMAIN html |-> Seen(k)])
=============================================================================
