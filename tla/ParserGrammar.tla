--------------------------- MODULE ParserGrammar ---------------------------
(***************************************************************************)
(* The grammar in the comments of Parser.cpp, and what it derives: a text, *)
(* and with it the operands and operators of the text's expressions in the *)
(* order of their syntax trees.                                            *)
(*                                                                         *)
(* A symbol is a token, a rule, a rule any number of times or at most      *)
(* once, or a node that the derivation notes when it comes to it.          *)
(***************************************************************************)
EXTENDS Integers, Sequences

\* The kinds of tokens the parser tells apart; "other" are the keywords, signs
\* and characters no rule has.
Tokens ==
  {"and", "class", "def", "elif", "else", "for", "global", "if", "in",
   "nonlocal", "not", "or", "pass", "return", "while"}
    \cup {"id", "idstr", "lit", "cmp", "add", "mul", "-"}
    \cup {"(", ")", "[", "]", ":", ",", ".", "=", "->"}
    \cup {"NEWLINE", "INDENT", "DEDENT", "BADENT", "eof", "other"}

Nonterminals ==
  {"program", "declaration", "class_def", "class_body", "members", "member",
   "func_def", "params", "next_param", "return_type", "typed_var", "type",
   "var_def", "literal", "func_body", "local", "global_decl", "nonlocal_decl",
   "stmt", "simple_stmt", "assigned", "target", "if_stmt", "otherwise",
   "elif_stmt", "while_stmt", "for_stmt", "block", "cexpr", "primary",
   "postfix", "exprs", "next_expr"}

Operators == {"if", "or", "and", "not", "cmp", "add", "-", "mul", "neg"}
NodeNames == Operators \cup {"x"}

K(tok)    == <<"token", tok>>
R(rule)   == <<"rule", rule>>
Many(rule) == <<"many", rule>>
Opt(rule) == <<"opt", rule>>
Node(n)   == <<"node", n>>
E(n)      == <<"expr", n>>   \* expr1 to expr4, cexpr5 to cexpr7, expr8
Rest(n)   == <<"rest", n>>   \* the [ op expr(n+1) ]* of level n
Precedences == 1 .. 8

Symbols == ({"token"} \X Tokens) \cup ({"rule", "many", "opt"} \X Nonterminals)
             \cup ({"node"} \X NodeNames) \cup ({"expr", "rest"} \X Precedences)

DeclarationRules ==
  {<<R("program"), <<Many("declaration"), Many("stmt")>>>>,
   <<R("declaration"), <<R("var_def")>>>>,
   <<R("declaration"), <<R("func_def")>>>>,
   <<R("declaration"), <<R("class_def")>>>>,
   <<R("class_def"), <<K("class"), K("id"), K("("), K("id"), K(")"), K(":"),
                       K("NEWLINE"), K("INDENT"), R("class_body"), K("DEDENT")>>>>,
   <<R("class_body"), <<R("members")>>>>,
   \* The comment excludes the members after pass, the code does not.
   <<R("class_body"), <<K("pass"), K("NEWLINE"), Many("member")>>>>,
   <<R("members"), <<R("member"), Many("member")>>>>,
   <<R("member"), <<R("var_def")>>>>,
   <<R("member"), <<R("func_def")>>>>,
   <<R("func_def"), <<K("def"), K("id"), K("("), Opt("params"), K(")"),
                      Opt("return_type"), K(":"), K("NEWLINE"), K("INDENT"),
                      R("func_body"), K("DEDENT")>>>>,
   <<R("params"), <<R("typed_var"), Many("next_param")>>>>,
   <<R("next_param"), <<K(","), R("typed_var")>>>>,
   <<R("return_type"), <<K("->"), R("type")>>>>,
   <<R("typed_var"), <<K("id"), K(":"), R("type")>>>>,
   <<R("type"), <<K("id")>>>>,
   <<R("type"), <<K("idstr")>>>>,
   <<R("type"), <<K("["), R("type"), K("]")>>>>,
   <<R("var_def"), <<R("typed_var"), K("="), R("literal"), K("NEWLINE")>>>>,
   <<R("literal"), <<K("lit")>>>>,
   <<R("literal"), <<K("idstr")>>>>,
   <<R("func_body"), <<Many("local"), R("stmt"), Many("stmt")>>>>,
   <<R("local"), <<R("global_decl")>>>>,
   <<R("local"), <<R("nonlocal_decl")>>>>,
   <<R("local"), <<R("var_def")>>>>,
   <<R("local"), <<R("func_def")>>>>,
   <<R("global_decl"), <<K("global"), K("id"), K("NEWLINE")>>>>,
   <<R("nonlocal_decl"), <<K("nonlocal"), K("id"), K("NEWLINE")>>>>}

StatementRules ==
  {<<R("stmt"), <<R("simple_stmt"), K("NEWLINE")>>>>,
   <<R("stmt"), <<R("if_stmt")>>>>,
   <<R("stmt"), <<R("while_stmt")>>>>,
   <<R("stmt"), <<R("for_stmt")>>>>,
   <<R("simple_stmt"), <<K("pass")>>>>,
   <<R("simple_stmt"), <<K("return")>>>>,
   <<R("simple_stmt"), <<K("return"), E(1)>>>>,
   <<R("simple_stmt"), <<Many("assigned"), E(1)>>>>,
   <<R("assigned"), <<R("target"), K("=")>>>>,
   <<R("target"), <<K("id"), Node("x")>>>>,
   <<R("target"), <<R("cexpr"), K("."), K("id")>>>>,
   <<R("target"), <<R("cexpr"), K("["), E(1), K("]")>>>>,
   \* Not in the comment: the code looks at the tree, which has no brackets.
   <<R("target"), <<K("("), R("target"), K(")")>>>>,
   <<R("if_stmt"), <<K("if"), E(1), K(":"), R("block"), R("otherwise")>>>>,
   <<R("otherwise"), <<>>>>,
   <<R("otherwise"), <<R("elif_stmt")>>>>,
   <<R("otherwise"), <<K("else"), K(":"), R("block")>>>>,
   <<R("elif_stmt"), <<K("elif"), E(1), K(":"), R("block"), R("otherwise")>>>>,
   <<R("while_stmt"), <<K("while"), E(1), K(":"), R("block")>>>>,
   <<R("for_stmt"), <<K("for"), K("id"), K("in"), E(1), K(":"), R("block")>>>>,
   <<R("block"), <<K("NEWLINE"), K("INDENT"), R("stmt"), Many("stmt"), K("DEDENT")>>>>}

ExpressionRules ==
  {<<E(4), <<K("not"), E(4), Node("not")>>>>,
   <<E(8), <<K("-"), E(8), Node("neg")>>>>,
   <<E(8), <<R("cexpr")>>>>,
   <<R("cexpr"), <<R("primary"), Many("postfix")>>>>,
   <<R("primary"), <<K("id"), Node("x")>>>>,
   <<R("primary"), <<K("lit"), Node("x")>>>>,
   <<R("primary"), <<K("idstr"), Node("x")>>>>,
   <<R("primary"), <<K("("), E(1), K(")")>>>>,
   <<R("primary"), <<K("["), Opt("exprs"), K("]")>>>>,
   <<R("postfix"), <<K("."), K("id")>>>>,
   <<R("postfix"), <<K("["), E(1), K("]")>>>>,
   <<R("postfix"), <<K("("), Opt("exprs"), K(")")>>>>,
   <<R("exprs"), <<E(1), Many("next_expr")>>>>,
   <<R("next_expr"), <<K(","), E(1)>>>>,
   \* At most once, where the comment has any number: expr1 takes them all.
   <<Rest(1), <<K("if"), E(2), K("else"), E(1), Node("if")>>>>}

\* The levels, and their operators but "if".
LevelRules ==
  {<<E(n), <<E(n + 1), Rest(n)>>>> : n \in 1 .. 7}
    \cup {<<Rest(n), <<>>>> : n \in Precedences}
    \cup {<<Rest(p[2]), <<K(p[1]), E(p[2] + 1), Node(p[1]), Rest(p[2])>>>> :
            p \in {<<"or", 2>>, <<"and", 3>>, <<"cmp", 5>>, <<"add", 6>>,
                   <<"-", 6>>, <<"mul", 7>>}}

RepetitionRules ==
  UNION {{<<Many(A), <<>>>>, <<Many(A), <<R(A), Many(A)>>>>,
          <<Opt(A), <<>>>>, <<Opt(A), <<R(A)>>>>} : A \in Nonterminals}

Rules == DeclarationRules \cup StatementRules \cup ExpressionRules
           \cup LevelRules \cup RepetitionRules

-----------------------------------------------------------------------------
\* The next token; the lexer repeats eof.
Next1(t, i) == IF i = Len(t) THEN i ELSE i + 1

\* F has what a leftmost derivation of t comes to: the token of t it has come
\* to, the nodes noted so far and the symbols still to be derived from.
Closed(F, t) ==
  /\ <<1, <<>>, <<R("program")>>>> \in F
  /\ \A i \in 1 .. Len(t), out \in Seq(NodeNames), s \in Symbols, rest \in Seq(Symbols) :
       <<i, out, <<s>> \o rest>> \in F =>
         /\ \A rhs \in Seq(Symbols) : <<s, rhs>> \in Rules => <<i, out, rhs \o rest>> \in F
         /\ s = K(t[i]) => <<Next1(t, i), out, rest>> \in F
         /\ \A n \in NodeNames : s = Node(n) => <<i, Append(out, n), rest>> \in F

\* A leftmost derivation of t comes there.
Reaches(t, i, out, rest) == \A F : Closed(F, t) => <<i, out, rest>> \in F

\* The grammar derives t up to its eof, with the nodes out.
Derives(t, out) == Reaches(t, Len(t), out, <<>>)
=============================================================================
