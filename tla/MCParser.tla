------------------------------ MODULE MCParser ------------------------------
(***************************************************************************)
(* Texts for the parser.  All contents of lines in texts of up to two      *)
(* lines, fewer in texts of three and four, at all levels the lexer can    *)
(* make of them; and expression statements.                                *)
(***************************************************************************)
EXTENDS Parser, ParserTexts
LOCAL INSTANCE Functions

Levels(n) == {f \in [1 .. n -> 0 .. n] :
                \A i \in 2 .. n : f[i] <= f[i - 1] + 1}
TextsOf(contents, n, first) ==
  {TokensOf([i \in 1 .. n |-> Line(c[i], l[i])]) :
     c \in [1 .. n -> contents], l \in {f \in Levels(n) : f[1] <= first}}

Three == {"pass", "if", "else", "def", "class", "noType"}
Ifs == {t \in TextsOf({"pass", "if", "elif", "else"}, 4, 0) : t[1] = "if"}
Body(f) == {TokensOf(<<Line("def", 0), Line(c, 1), Line(d, 1)>>) :
              c \in DOMAIN AllContents, d \in f}

MCTexts == {<<"eof">>} \cup TextsOf(DOMAIN AllContents, 1, 1)
           \cup TextsOf(DOMAIN AllContents, 2, 1) \cup Body({"pass", "var"})
           \cup TextsOf(Three, 3, 0) \cup Ifs \cup TextsOf({"pass", "if", "def"}, 4, 0)
MCShortTexts == TextsOf({"pass", "def", "if", "noType"}, 3, 0)

NoOrder(t) == <<>>

-----------------------------------------------------------------------------
(* Expressions.                                                            *)

X == <<"id">>
Ops == {"or", "and", "cmp", "add", "-", "mul"}
Pairs == {a \o <<o>> \o b : a, b \in {X, <<"-", "id">>}, o \in Ops}
Chains == {<<"id", o, "id", q, "id", r, "id">> : o, q, r \in Ops}
Nots == {<<"not">> \o p : p \in Pairs \cup {<<"not", "id">>}}
        \cup {<<"id", o, "not">> \o p : o \in {"and", "or"}, p \in Pairs}
Parens == {<<"id", o, "(", "id", q, "id", ")", r, "id">> : o, q, r \in Ops}
If(A, B, C) == {a \o <<"if">> \o b \o <<"else">> \o c : a \in A, b \in B, c \in C}
Few == {X, <<"id", "or", "id">>, <<"not", "id">>, <<"-", "id">>}
Conditionals == If(Few, Few, Few \cup If({X}, Few, {X}))
\* Calls, members, indices and lists, assigned to and not; and with an error.
Postfixed == {
  <<"id", ".", "id", "(", "lit", ",", "id", ")", "[", "id", "]", "=", "id">>,
  <<"id", ".", "id", "=", "id", "=", "idstr">>, <<"id", "(", ")">>,
  <<"[", "id", ",", "lit", "]">>, <<"[", "]", "[", "lit", "]", "=", "lit">>}
WrongExprs == {
  <<"id", "(", ")", "=", "id">>, <<"id", "add", "id", "=", "lit">>,
  <<"not", "id", "=", "lit">>, <<"id", "add", "not", "id">>, <<"id", "if", "id">>,
  <<"id", "[", "id">>, <<"[", "id">>, <<"id", "(", "id">>, <<"id", ".", "lit">>,
  <<"add", "id">>}

Operations == {X} \cup Pairs \cup Chains \cup Nots \cup Parens \cup Conditionals
Statement(e) == e \o <<"NEWLINE", "eof">>
MCExpressions == {Statement(e) : e \in Operations}
MCStatements == MCExpressions \cup {Statement(e) : e \in Postfixed}
MCExprTexts == MCStatements \cup {Statement(e) : e \in WrongExprs}

\* The operands and operators of e in postorder, by the precedence of the
\* operators: if, or, and, not, comparisons, + and -, *, unary -; the binary
\* ones associate to the left.
RECURSIVE Order(_)
Order(e) ==
  LET n == Len(e)
      depth(i) == Cardinality({j \in 1 .. i : e[j] = "("})
                  - Cardinality({j \in 1 .. i : e[j] = ")"})
      binary(S) == {i \in 2 .. n : /\ e[i] \in S /\ depth(i) = 0
                                   /\ e[i - 1] \in {"id", ")"}}
      first(S) == CHOOSE i \in S : \A j \in S : i <= j
      last(S)  == CHOOSE i \in S : \A j \in S : i >= j
      part(i, j) == Order(SubSeq(e, i, j))
      split(i) == part(1, i - 1) \o part(i + 1, n) \o <<e[i]>>
      f == first(binary({"if"}))
      s == first(binary({"else"}))
  IN  CASE e = X -> <<"x">>
        [] binary({"if"}) # {} ->
             part(1, f - 1) \o part(f + 1, s - 1) \o part(s + 1, n) \o <<"if">>
        [] binary({"if"}) = {} /\ binary({"or"}) # {} -> split(last(binary({"or"})))
        [] binary({"if", "or"}) = {} /\ binary({"and"}) # {} ->
             split(last(binary({"and"})))
        [] binary({"if", "or", "and"}) = {} /\ e[1] = "not" ->
             part(2, n) \o <<"not">>
        [] binary({"if", "or", "and"}) = {} /\ e[1] # "not" /\ binary({"cmp"}) # {} ->
             split(last(binary({"cmp"})))
        [] binary({"if", "or", "and", "cmp"}) = {} /\ e[1] # "not"
           /\ binary({"add", "-"}) # {} -> split(last(binary({"add", "-"})))
        [] binary({"if", "or", "and", "cmp", "add", "-"}) = {} /\ e[1] # "not"
           /\ binary({"mul"}) # {} -> split(last(binary({"mul"})))
        [] binary(Ops \cup {"if"}) = {} /\ e[1] = "-" -> part(2, n) \o <<"neg">>
        [] binary(Ops \cup {"if"}) = {} /\ e[1] = "(" /\ n > 1 -> part(2, n - 1)

\* No operator in Postfixed: only the operands, the names of members apart.
Operands(t) == Len(SelectSeq([i \in 1 .. Len(t) |-> <<t[i], i > 1 /\ t[i - 1] = ".">>],
                             LAMBDA p : p[1] \in {"id", "lit", "idstr"} /\ ~p[2]))

MCPostorder(t) ==
  IF t \in MCExpressions THEN Order(SubSeq(t, 1, Len(t) - 2))
  ELSE [i \in 1 .. Operands(t) |-> "x"]

MCAllTexts == MCTexts \cup MCExprTexts

-----------------------------------------------------------------------------
(* What the grammar derives.                                               *)

\* f, evaluated everywhere at once.
Full(f) == f @@ <<>>

\* The symbols the empty text may come from, and the pairs of a symbol and a
\* token a text from it may begin with: the least sets closed under the rules.
RECURSIVE Erase(_, _), Begin(_, _, _)
Erase(rules, S) ==
  LET U == S \cup {r[1] : r \in {q \in rules : Range(q[2]) \subseteq S}}
  IN  IF U = S THEN S ELSE Erase(rules, U)
Leading(rhs, erasable) ==
  {rhs[i] : i \in {k \in DOMAIN rhs : \A j \in 1 .. k - 1 : rhs[j] \in erasable}}
Begin(rules, erasable, F) ==
  LET G == F \cup UNION {{r[1]} \X {f[2] : f \in {g \in F : g[1] \in Leading(r[2], erasable)}} :
                          r \in rules}
  IN  IF G = F THEN F ELSE Begin(rules, erasable, G)

\* The right-hand sides of s that may stand before the token tok.
Choices ==
  LET rules     == Rules
      erasable  == Erase(rules, {"node"} \X NodeNames)
      beginning == Begin(rules, erasable, {<<K(tok), tok>> : tok \in Tokens})
      before(tok, rhs) ==
        \/ Range(rhs) \subseteq erasable
        \/ \E s \in Leading(rhs, erasable) : <<s, tok>> \in beginning
  IN  Full([s \in {r[1] : r \in rules} |->
              LET sides == {r[2] : r \in {q \in rules : q[1] = s}}
              IN  Full([tok \in Tokens |-> {rhs \in sides : before(tok, rhs)}])])

\* Where a leftmost derivation of t can come in one step from d.
Steps(choices, t, d) ==
  LET s == Head(d[3])
      rest == Tail(d[3]) IN
  CASE d[3] = <<>> -> {}
    [] d[3] # <<>> /\ s[1] = "token" ->
         IF s = K(t[d[1]]) THEN {<<Next1(t, d[1]), d[2], rest>>} ELSE {}
    [] d[3] # <<>> /\ s[1] = "node" -> {<<d[1], Append(d[2], s[2]), rest>>}
    [] OTHER -> {<<d[1], d[2], rhs \o rest>> : rhs \in choices[s][t[d[1]]]}

\* What the derivations have noted that end, from where they are now.
RECURSIVE Ends(_, _, _)
Ends(choices, t, at) ==
  {d[2] : d \in {e \in at : e[1] = Len(t) /\ e[3] = <<>>}}
    \cup (IF at = {} THEN {}
          ELSE Ends(choices, t, UNION {Steps(choices, t, d) : d \in at}))
Translations(choices, t) == Ends(choices, t, {<<1, <<>>, <<R("program")>>>>})

\* The grammar knows the order of the operators by its levels.
ASSUME OrdersAgree ==
  LET choices == Choices
  IN  \A t \in MCStatements : Translations(choices, t) = {MCPostorder(t)}

MCDerived ==
  LET choices == Choices
  IN  {t \in MCAllTexts : Translations(choices, t) # {}}
MCAllAccepted == MCDerived
=============================================================================
