---------------------------- MODULE ParserTexts -----------------------------
(***************************************************************************)
(* Texts for the parser.  A line is its content and its level; the tokens  *)
(* of a text are those the lexer makes of its lines.                       *)
(***************************************************************************)
EXTENDS Naturals, Sequences, TLC

Line(content, level) == [content |-> content, level |-> level]

\* The contents of lines: correct ones,
Simple == [
  pass   |-> <<"pass">>,
  expr   |-> <<"id">>,
  assign |-> <<"id", "=", "id", "=", "lit">>,
  return |-> <<"return">>,
  value  |-> <<"return", "id">>]
Variables == [var |-> <<"id", ":", "id", "=", "lit">>,
              list |-> <<"id", ":", "[", "idstr", "]", "=", "idstr">>]
References == [global |-> <<"global", "id">>, nonlocal |-> <<"nonlocal", "id">>]
Functions == [
  def  |-> <<"def", "id", "(", ")", ":">>,
  defn |-> <<"def", "id", "(", "id", ":", "id", ",", "id", ":", "id", ")", "->", "id", ":">>]
Headers == [
  class |-> <<"class", "id", "(", "id", ")", ":">>,
  if    |-> <<"if", "id", ":">>,
  elif  |-> <<"elif", "id", ":">>,
  else  |-> <<"else", ":">>,
  while |-> <<"while", "id", ":">>,
  for   |-> <<"for", "id", "in", "id", ":">>]
\* and those with an error.
Wrong == [
  noType    |-> <<"id", ":", "=", "lit">>,
  noLiteral |-> <<"id", ":", "id", "=", "id">>,
  quoted    |-> <<"idstr", ":", "id", "=", "lit">>,
  noColon   |-> <<"if", "id">>,
  noName    |-> <<"def", "(", ")", ":">>,
  noParen   |-> <<"class", "id", ":">>,
  badGlobal |-> <<"global", "lit">>,
  badNonlocal |-> <<"nonlocal", "lit">>,
  twice     |-> <<"global", "global", "id">>,
  half      |-> <<"id", "cmp">>,
  passPass  |-> <<"pass", "pass">>]

AllContents == Simple @@ Variables @@ References @@ Functions @@ Headers @@ Wrong

-----------------------------------------------------------------------------
Repeat(tok, n) == [i \in 1 .. n |-> tok]

\* The tokens of a text whose lines go up by at most one level at a time.
TokensOf(lines) ==
  LET n == Len(lines)
      level(i) == IF i \in 1 .. n THEN lines[i].level ELSE 0
      upTo[i \in 0 .. n] ==
        IF i = 0 THEN <<>>
        ELSE upTo[i - 1]
             \o (IF level(i) > level(i - 1) THEN <<"INDENT">>
                 ELSE Repeat("DEDENT", level(i - 1) - level(i)))
             \o AllContents[lines[i].content] \o <<"NEWLINE">>
  IN  upTo[n] \o Repeat("DEDENT", level(n)) \o <<"eof">>
=============================================================================
