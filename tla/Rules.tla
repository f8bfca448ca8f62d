-------------------------------- MODULE Rules --------------------------------
(***************************************************************************)
(* The rules of the filter language (internal/filter), as ParseRule reads  *)
(* them from a text.  An action, a field and an operator are characters of *)
(* their own; that a regular expression compiles is taken for granted.     *)
(***************************************************************************)
EXTENDS Yaml

Actions == {"include", "exclude"}
Fields == {"title", "link", "any"}
Operators == {"~", "=~", "!~"}

RuleWords(line) ==
  LET Read(acc, ch) ==
        IF ch \in Blank THEN [acc EXCEPT !.open = FALSE]
        ELSE IF acc.open THEN [acc EXCEPT !.words[Len(acc.words)] = Append(@, ch)]
        ELSE [open |-> TRUE, words |-> Append(acc.words, <<ch>>)]
  IN  FoldLeft(Read, [open |-> FALSE, words |-> <<>>], line).words

\* The second slash ends the pattern.
UnwrapAtFirst(p) ==
  LET slash == {i \in DOMAIN p : p[i] = "/"}
      close == Min(slash \ {1})
  IN  IF p[1] # "/" THEN [ok |-> TRUE, body |-> p, flags |-> {}]
      ELSE IF slash = {1} \/ close = 2
              \/ ~(ToSet(From(p, close + 1)) \subseteq {"i", "s"}) THEN Fail
      ELSE [ok |-> TRUE, body |-> SubSeq(p, 2, close - 1), flags |-> ToSet(From(p, close + 1))]

\* /re/flags; the last slash ends the pattern.
UnwrapPattern(p) ==
  LET slash == {i \in DOMAIN p : p[i] = "/"}
      close == Max(slash)
  IN  IF p[1] # "/" THEN [ok |-> TRUE, body |-> p, flags |-> {}]
      ELSE IF close <= 2 \/ ~(ToSet(From(p, close + 1)) \subseteq {"i", "s"}) THEN Fail
      ELSE [ok |-> TRUE, body |-> SubSeq(p, 2, close - 1), flags |-> ToSet(From(p, close + 1))]

\* The pattern is the rest of the line, with its inner blanks.
ParseRule(line) ==
  LET words == RuleWords(line)
      op == Min({i \in DOMAIN line : line[i] = words[3][1]})
      pattern == UnwrapPattern(TrimSpace(From(line, op + 1)))
  IN  IF \/ Len(words) < 4
         \/ \E k \in 1 .. 3 : Len(words[k]) # 1
         \/ words[1][1] \notin Actions \/ words[2][1] \notin Fields
         \/ words[3][1] \notin Operators \/ ~pattern.ok
      THEN Fail
      ELSE [ok |-> TRUE, include |-> words[1][1] = "include", field |-> words[2][1],
            negate |-> words[3][1] = "!~", pattern |-> pattern.body, flags |-> pattern.flags]

\* Blank lines and comments are no rules.
RulesOf(lines) ==
  LET said == SelectSeq(lines, LAMBDA l : TrimSpace(l) # <<>> /\ TrimSpace(l)[1] # "#")
  IN  [i \in DOMAIN said |-> ParseRule(TrimSpace(said[i]))]
=============================================================================
