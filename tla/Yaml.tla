-------------------------------- MODULE Yaml --------------------------------
(***************************************************************************)
(* The YAML subset of the config file (internal/config/yaml.go) and the    *)
(* scalars that opml import writes for it (cmd/feedmerge/opml.go).  A text *)
(* is a sequence of characters, a file a sequence of lines.  The keys of a *)
(* config and "http://" are characters of their own.  Carriage returns and *)
(* the line numbers of the messages are left out.                          *)
(***************************************************************************)
EXTENDS Integers, SequencesExt

Blank == {" ", "\t", "\n"}
Quotes == {"\"", "'"}
Dash == "-"

Cut(text, chars) ==
  LET kept == {i \in DOMAIN text : text[i] \notin chars}
  IN  IF kept = {} THEN <<>> ELSE SubSeq(text, Min(kept), Max(kept))

TrimSpace(text) == Cut(text, Blank)
From(text, i) == SubSeq(text, i, Len(text))
-----------------------------------------------------------------------------
(* Scalars.                                                                *)

Fail == [ok |-> FALSE]

\* The first match wins and is not looked into again: \\n is a backslash and n.
Unescape(body) ==
  LET Read(acc, ch) ==
        IF ~acc.escape
        THEN IF ch = "\\" THEN [acc EXCEPT !.escape = TRUE]
             ELSE [acc EXCEPT !.out = Append(@, ch)]
        ELSE [escape |-> FALSE,
              out |-> acc.out \o (CASE ch \in {"\"", "\\"} -> <<ch>>
                                    [] ch = "n" -> <<"\n">>
                                    [] ch = "t" -> <<"\t">>
                                    [] OTHER -> <<"\\", ch>>)]
      read == FoldLeft(Read, [escape |-> FALSE, out |-> <<>>], body)
  IN  IF read.escape THEN Append(read.out, "\\") ELSE read.out

\* A quoted value ends at the last quote of the line, whatever follows it; a
\* bare one at the first comment.
Unquote(text) ==
  LET s == TrimSpace(text)
      end == Max({i \in DOMAIN s : s[i] = s[1]})
      comment == {i \in 1 .. Len(s) - 1 : s[i] = " " /\ s[i + 1] = "#"}
      body == SubSeq(s, 2, end - 1)
  IN  IF s = <<>> THEN [ok |-> TRUE, scalar |-> s]
      ELSE IF s[1] \in Quotes
      THEN IF end = 1 THEN Fail
           ELSE [ok |-> TRUE, scalar |-> IF s[1] = "\"" THEN Unescape(body) ELSE body]
      ELSE [ok |-> TRUE,
            scalar |-> IF comment = {} THEN s
                       ELSE TrimSpace(SubSeq(s, 1, Min(comment) - 1))]

\* A backslash is written as it is.
YamlScalarKeepsBackslash(s) ==
  LET Escape(ch) == CASE ch = "\"" -> <<"\\", ch>>
                      [] ch \in {"\n", "\t"} -> <<" ">>
                      [] OTHER -> <<ch>>
      special == {":", "http://", "#", "\n", "\t"} \cup Quotes
  IN  IF s = <<>> \/ ToSet(s) \cap special # {} \/ TrimSpace(s) # s
      THEN <<"\"">> \o FlattenSeq([i \in DOMAIN s |-> Escape(s[i])]) \o <<"\"">>
      ELSE s

\* What opml import writes for a title, a name or a URL.
YamlScalar(s) ==
  LET Escape(ch) == CASE ch \in {"\\", "\""} -> <<"\\", ch>>
                      [] ch \in {"\n", "\t"} -> <<" ">>
                      [] OTHER -> <<ch>>
      special == {":", "http://", "#", "\n", "\t"} \cup Quotes
  IN  IF s = <<>> \/ ToSet(s) \cap special # {} \/ TrimSpace(s) # s
      THEN <<"\"">> \o FlattenSeq([i \in DOMAIN s |-> Escape(s[i])]) \o <<"\"">>
      ELSE s

\* "key: value".  The colon of a URL is not one that ends a key.
SplitKey(text) ==
  LET close == {i \in 2 .. Len(text) : text[i] = text[1]}
      after == TrimSpace(From(text, Min(close) + 1))
      colon == {i \in DOMAIN text : text[i] = ":" /\ (i = Len(text) \/ text[i + 1] = " ")}
      key == TrimSpace(SubSeq(text, 1, Min(colon) - 1))
  IN  IF text # <<>> /\ text[1] \in Quotes
      THEN IF close = {} \/ after = <<>> \/ after[1] # ":" THEN Fail
           ELSE [ok |-> TRUE, key |-> SubSeq(text, 2, Min(close) - 1),
                 rest |-> TrimSpace(Tail(after))]
      ELSE IF colon = {} \/ key = <<>> \/ ToSet(key) \cap Blank # {} THEN Fail
           ELSE [ok |-> TRUE, key |-> key, rest |-> TrimSpace(From(text, Min(colon) + 1))]
-----------------------------------------------------------------------------
(* Lines.                                                                  *)

\* The lines of a text.
TextLines(text) ==
  FoldLeft(LAMBDA lines, ch : IF ch = "\n" THEN Append(lines, <<>>)
                              ELSE [lines EXCEPT ![Len(lines)] = Append(@, ch)],
           <<<<>>>>, text)

Leading(text, chars) ==
  Min({i \in 1 .. Len(text) + 1 : i > Len(text) \/ text[i] \notin chars}) - 1

\* The lines that say something; "---" says nothing.
ScanLines(file) ==
  LET Says(raw) == LET text == Cut(raw, {" "})
                   IN  text \notin {<<>>, <<Dash, Dash, Dash>>} /\ text[1] # "#"
      Read(raw) == [indent |-> Leading(raw, {" "}), text |-> Cut(raw, {" "})]
      said == SelectSeq(file, Says)
  IN  [i \in DOMAIN said |-> Read(said[i])]

TabsIndent(raw) == "\t" \in ToSet(SubSeq(raw, 1, Leading(raw, {" ", "\t"})))

IsItem(line) == line.text = <<Dash>> \/ IsPrefix(<<Dash, " ">>, line.text)

Scalar(s) == [kind |-> "scalar", scalar |-> s]
Map(fields) == [kind |-> "map", fields |-> fields]
Items(items) == [kind |-> "seq", items |-> items]

Put(fields, key, node) ==
  [k \in DOMAIN fields \cup {key} |-> IF k = key THEN node ELSE fields[k]]

\* A parser returns a node and the line after it, or fails.
Parsed(node, pos) == [ok |-> TRUE, node |-> node, pos |-> pos]
Then(result, Go(_)) == IF result.ok THEN Go(result) ELSE Fail
ParsedScalar(text, pos) ==
  Then(Unquote(text), LAMBDA s : Parsed(Scalar(s.scalar), pos))

\* A block at pos; parse is the whole parser, on mappings and lists from a line
\* on, at an indentation.
ParseBlock(parse, ls, pos) ==
  parse[IF IsItem(ls[pos]) THEN "seq" ELSE "map", pos, ls[pos].indent]

\* What a key without a value of its own holds: the block under it.
ParseUnder(parse, ls, pos, indent) ==
  IF pos <= Len(ls) /\ (\/ ls[pos].indent > indent
                        \/ ls[pos].indent = indent /\ ls[pos].text[1] = Dash)
  THEN ParseBlock(parse, ls, pos)
  ELSE Parsed(Scalar(<<>>), pos)

\* A key given twice is not noticed.
PutTwice(fields, key, node) ==
  [ok |-> TRUE, fields |-> IF key \in DOMAIN fields THEN fields ELSE Put(fields, key, node)]

\* A key given twice is an error.
PutOnce(fields, key, node) ==
  IF key \in DOMAIN fields THEN Fail ELSE [ok |-> TRUE, fields |-> Put(fields, key, node)]

\* The key of the line at pos and what it holds, then the rest of the mapping.
ParseKey(parse, ls, pos, indent) ==
  Then(SplitKey(ls[pos].text), LAMBDA kv :
    Then(IF kv.rest # <<>> THEN ParsedScalar(kv.rest, pos + 1)
         ELSE ParseUnder(parse, ls, pos + 1, indent), LAMBDA val :
      Then(parse["map", val.pos, indent], LAMBDA rest :
        Then(PutOnce(rest.node.fields, kv.key, val.node), LAMBDA put :
          Parsed(Map(put.fields), rest.pos)))))

\* A mapping ends where the indentation falls back or an item stands.
ParseMap(parse, ls, pos, indent) ==
  IF pos > Len(ls) \/ ls[pos].indent < indent THEN Parsed(Map(<<>>), pos)
  ELSE IF ls[pos].indent > indent THEN Fail
  ELSE IF IsItem(ls[pos]) THEN Parsed(Map(<<>>), pos)
  ELSE ParseKey(parse, ls, pos, indent)

\* "- key: value" and the keys indented under it are one mapping.
ParseInline(parse, ls, pos, indent, kv) ==
  Then(ParsedScalar(kv.rest, pos + 1), LAMBDA first :
    Then(IF pos < Len(ls) /\ ls[pos + 1].indent > indent
         THEN parse["map", pos + 1, ls[pos + 1].indent]
         ELSE Parsed(Map(<<>>), pos + 1), LAMBDA more :
      Then(PutOnce(more.node.fields, kv.key, first.node), LAMBDA put :
        Parsed(Map(put.fields), more.pos))))

\* What follows a dash: a block under it, a mapping or a scalar.
ParseItem(parse, ls, pos, indent, item, kv) ==
  IF item = <<>>
  THEN IF pos = Len(ls) \/ ls[pos + 1].indent <= indent THEN Fail
       ELSE ParseBlock(parse, ls, pos + 1)
  ELSE IF kv.ok THEN ParseInline(parse, ls, pos, indent, kv)
  ELSE ParsedScalar(item, pos + 1)

AfterDash(line) == TrimSpace(Tail(line.text))

ParseSeq(parse, ls, pos, indent) ==
  IF pos > Len(ls) \/ ls[pos].indent < indent \/ ~IsItem(ls[pos])
  THEN Parsed(Items(<<>>), pos)
  ELSE IF ls[pos].indent > indent THEN Fail
  ELSE Then(ParseItem(parse, ls, pos, indent, AfterDash(ls[pos]), SplitKey(AfterDash(ls[pos]))),
            LAMBDA val :
         Then(parse["seq", val.pos, indent], LAMBDA rest :
           Parsed(Items(<<val.node>> \o rest.node.items), rest.pos)))

\* The whole file is one mapping.
ParseLines(ls) ==
  LET parse[kind \in {"map", "seq"}, pos \in 1 .. Len(ls) + 1,
            indent \in {ls[i].indent : i \in DOMAIN ls}] ==
        IF kind = "map" THEN ParseMap(parse, ls, pos, indent)
        ELSE ParseSeq(parse, ls, pos, indent)
  IN  IF ls = <<>> THEN Parsed(Map(<<>>), 1)
      ELSE Then(ParseBlock(parse, ls, 1), LAMBDA top :
             IF top.pos <= Len(ls) \/ top.node.kind # "map" THEN Fail ELSE top)

ParseYaml(file) ==
  IF \E i \in DOMAIN file : TabsIndent(file[i]) THEN Fail ELSE ParseLines(ScanLines(file))
=============================================================================
