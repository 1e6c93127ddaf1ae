------------------------------- MODULE Parser -------------------------------
(***************************************************************************)
(* The parser (Parser.cpp): recursive descent over the tokens of the       *)
(* lexer, with recovery at the next line.  The calls under way are a stack *)
(* of what is still to be done: a token to expect, a procedure to call, a  *)
(* loop to continue, or the place a failure returns to.  A failed          *)
(* expectation gives up everything above the nearest such place.           *)
(*                                                                         *)
(* Tokens are their kinds: "lit" is any literal but an identifier string,  *)
(* "cmp", "add" and "mul" are the operators of a level, "-" apart.  The    *)
(* tree is reduced to the operator nodes in the order they are created.    *)
(***************************************************************************)
EXTENDS ParserGrammar, FiniteSets

CONSTANTS
  Texts,          \* token sequences as the lexer returns them, "eof" last
  Grammatical,    \* those the grammar of the comments of Parser.cpp derives
  Expressions,    \* texts of a single expression statement
  Postorder(_)    \* the operators of an expression's tokens by precedence

\* The lexer returns eof at the end of a text, and only there.
IsText(t) == /\ t \in Seq(Tokens) /\ t # <<>>
             /\ \A i \in 1 .. Len(t) : t[i] = "eof" <=> i = Len(t)

ASSUME TextsAssumption == \A t \in Texts : IsText(t)

VARIABLES
  text,
  pos,         \* the index of Tok
  stack,       \* what is still to be done, the next first
  target,      \* the expression parsed last can be assigned to
  nodes,       \* operands and operators, in the order they are created
  diagnosed,   \* a diagnostic has been emitted
  recovered    \* some procedure has failed

vars == <<text, pos, stack, target, nodes, diagnosed, recovered>>

Entry(kind, name, from, to) ==
  [kind |-> kind, name |-> name, from |-> from, to |-> to]
T(tok)         == Entry("expect", tok, 0, 0)
P(procedure)   == Entry("call", procedure, 0, 0)
L(loop)        == Entry("loop", loop, 0, 0)
Try(recovery)  == Entry("try", recovery, 0, 0)
Level(n)       == Entry("level", "expr", n, n) \* parseExprPrecedence1 to 8
More(op, m, n) == Entry("more", op, m, n)      \* the loops of levels m to n
Expr == Level(1)

\* What can be under way.
Procedures ==
  {"FuncDef", "ClassDef", "ClassBody", "VarDef", "TypedVar", "Type", "Literal",
   "Params", "MoreParams", "ReturnType", "FuncBody", "GlobalDecl",
   "NonLocalDecl", "Stmt", "SimpleStmt", "Assignments", "IfStmt", "ElifStmt",
   "Else", "WhileStmt", "ForStmt", "Block", "Elements", "Arguments",
   "MoreExprs", "PostfixOfTarget", "PostfixOfValue", "PostfixOfSame"}
Loops == {"declarations", "statements", "members", "moreMembers", "globals",
          "nonlocals", "vars", "block"}
Recoveries == {"skip", "member", "nonlocal", "vars", "again", "break"}
Pending == Operators \cup {"primary"}
Entries ==
  {T(tok) : tok \in Tokens} \cup {P(procedure) : procedure \in Procedures}
    \cup {L(loop) : loop \in Loops} \cup {Try(recovery) : recovery \in Recoveries}
    \cup {Level(n) : n \in Precedences}
    \cup [kind : {"more"}, name : Pending, from : Precedences, to : Precedences]

Tok == text[pos]
LookAhead0 == text[IF pos = Len(text) THEN pos ELSE pos + 1]
IsVarDef == Tok \in {"id", "idstr"} /\ LookAhead0 = ":"
IsDeclaration == IsVarDef \/ Tok \in {"def", "class"}

Init ==
  /\ text \in Texts /\ pos = 1
  /\ stack = <<L("declarations"), L("statements")>>
  /\ target = FALSE /\ nodes = <<>>
  /\ diagnosed = FALSE /\ recovered = FALSE

-----------------------------------------------------------------------------
(* Steps of all procedures.                                                *)

Running == stack # <<>>
Head1 == stack[1]
At(item) == Running /\ Head1 = item
Do(items) == stack' = items \o Tail(stack)

\* consumeToken, n times; the lexer repeats eof.
Consume(n) == pos' = IF pos + n > Len(text) THEN Len(text) ELSE pos + n

Call(items) == Do(items) /\ UNCHANGED <<text, pos, target, nodes, diagnosed, recovered>>
Take(items) ==
  Do(items) /\ Consume(1) /\ UNCHANGED <<text, target, nodes, diagnosed, recovered>>

\* Mutant: nothing is skipped.
NextLineHere == pos

\* skipToNextLine
NextLine ==
  LET ends == {i \in pos .. Len(text) : text[i] \in {"NEWLINE", "eof"}}
      e    == CHOOSE i \in ends : \A j \in ends : i <= j IN
  IF text[e] = "eof" THEN e ELSE e + 1

\* A procedure returns null or false: its callers do too, up to the nearest
\* place that goes on.
Fail ==
  LET c == CHOOSE i \in 1 .. Len(stack) :
             stack[i].kind = "try" /\ \A j \in 1 .. i - 1 : stack[j].kind # "try"
      rest == SubSeq(stack, c + 1, Len(stack)) IN
  /\ recovered' = TRUE
  /\ pos' = IF stack[c].name = "skip" THEN NextLine ELSE pos
  /\ stack' = CASE stack[c].name = "break"    -> Tail(rest)
                [] stack[c].name = "nonlocal" -> <<L("nonlocals")>> \o Tail(rest)
                [] stack[c].name = "vars"     -> <<L("vars")>> \o Tail(rest)
                [] stack[c].name = "member"   -> <<L("members")>> \o Tail(rest)
                [] OTHER -> rest
  /\ UNCHANGED <<text, target, nodes>>

\* expectAndConsume
Expected ==
  /\ Running /\ Head1.kind = "expect" /\ Tok = Head1.name
  /\ Take(<<>>)

NotExpected ==
  /\ Running /\ Head1.kind = "expect" /\ Tok # Head1.name
  /\ Fail /\ diagnosed' = TRUE

\* The procedure called last has succeeded.
Succeeded == Running /\ Head1.kind = "try" /\ Call(<<>>)

-----------------------------------------------------------------------------
(* Declarations.                                                           *)

\* parseProgram, the first loop, and parseDeclaration.
ProgramDeclaration ==
  /\ At(L("declarations")) /\ IsDeclaration
  /\ Call(<<P(CASE Tok = "def" -> "FuncDef" [] Tok = "class" -> "ClassDef"
                [] OTHER -> "VarDef"), Try("skip"), L("declarations")>>)

ProgramStatement ==
  /\ At(L("statements")) /\ Tok # "eof"
  /\ Call(<<P("Stmt"), Try("skip"), L("statements")>>)

EndProgramLoop ==
  /\ \/ At(L("declarations")) /\ ~IsDeclaration
     \/ At(L("statements")) /\ Tok = "eof"
  /\ Call(<<>>)

ParseClassDef ==
  /\ At(P("ClassDef"))
  /\ Call(<<T("class"), T("id"), T("("), T("id"), T(")"), T(":"),
            T("NEWLINE"), T("INDENT"), P("ClassBody"), T("DEDENT")>>)

\* parseClassBody up to its loop; a missing end of line after pass is
\* reported and then ignored.
ParseClassBody ==
  /\ At(P("ClassBody"))
  /\ IF Tok = "pass"
     THEN /\ Consume(IF LookAhead0 = "NEWLINE" THEN 2 ELSE 1)
          /\ diagnosed' = (diagnosed \/ LookAhead0 # "NEWLINE")
          /\ Do(<<L("moreMembers")>>)
     ELSE Do(<<L("members")>>) /\ UNCHANGED <<pos, diagnosed>>
  /\ UNCHANGED <<text, target, nodes, recovered>>

MemberLoop == Running /\ Head1 \in {L("members"), L("moreMembers")}

\* A variable that fails is tried again from the token where it failed; the
\* first one is no member then.
ClassMember ==
  /\ MemberLoop /\ Tok # "DEDENT"
  /\ \/ /\ IsVarDef
        /\ Call(<<P("VarDef"), Try(IF At(L("members")) THEN "member" ELSE "again"),
                  L("moreMembers")>>)
     \/ Tok = "def" /\ Call(<<P("FuncDef"), L("moreMembers")>>)

EndClassBody == At(L("moreMembers")) /\ Tok = "DEDENT" /\ Call(<<>>)

\* No member, or what is no member: false without a diagnostic.
NotAMember ==
  /\ MemberLoop
  /\ \/ Tok = "DEDENT" /\ At(L("members"))
     \/ Tok # "DEDENT" /\ ~IsVarDef /\ Tok # "def"
  /\ Fail /\ UNCHANGED diagnosed

ParseFuncDef ==
  /\ At(P("FuncDef"))
  /\ Call(<<T("def"), T("id"), T("("), P("Params"), T(")"), P("ReturnType"),
            T(":"), T("NEWLINE"), T("INDENT"), P("FuncBody"), T("DEDENT")>>)

\* The parameters and the return type in parseFuncDef.
ParseParams ==
  \/ At(P("Params")) /\ Tok = ")" /\ Call(<<>>)
  \/ At(P("Params")) /\ Tok # ")" /\ Call(<<P("TypedVar"), P("MoreParams")>>)
  \/ At(P("MoreParams")) /\ Tok = "," /\ Take(<<P("TypedVar"), P("MoreParams")>>)
  \/ At(P("MoreParams")) /\ Tok # "," /\ Call(<<>>)

ParseReturnType ==
  \/ At(P("ReturnType")) /\ Tok = "->" /\ Take(<<P("Type")>>)
  \/ At(P("ReturnType")) /\ Tok # "->" /\ Call(<<>>)

ParseTypedVar == At(P("TypedVar")) /\ Call(<<T("id"), T(":"), P("Type")>>)

ParseType ==
  \/ At(P("Type")) /\ Tok \in {"id", "idstr"} /\ Take(<<>>)
  \/ At(P("Type")) /\ Tok = "[" /\ Take(<<P("Type"), T("]")>>)

\* The default of parseType returns null without a diagnostic.
NotAType ==
  /\ At(P("Type")) /\ Tok \notin {"id", "idstr", "["}
  /\ Fail /\ UNCHANGED diagnosed

ParseVarDef ==
  At(P("VarDef")) /\ Call(<<P("TypedVar"), T("="), P("Literal"), T("NEWLINE")>>)

\* Mutant: a name is accepted for a literal.
ParseLiteralOrName ==
  At(P("Literal")) /\ Tok \in {"lit", "idstr", "id"} /\ Take(<<>>)

ParseLiteral == At(P("Literal")) /\ Tok \in {"lit", "idstr"} /\ Take(<<>>)

NotALiteral ==
  /\ At(P("Literal")) /\ Tok \notin {"lit", "idstr"}
  /\ Fail /\ diagnosed' = TRUE

\* parseFuncBody.
ParseFuncBody ==
  At(P("FuncBody")) /\ Call(<<L("globals"), P("Stmt"), L("block")>>)

\* One round of its first loop.  What fails in a global declaration is tried
\* as the alternatives after it, a variable that fails as a new round; after a
\* function that fails come the statements.
DeclLoop == Running /\ Head1 \in {L("globals"), L("nonlocals"), L("vars")}

GlobalAlternative ==
  /\ At(L("globals")) /\ Tok = "global"
  /\ Call(<<P("GlobalDecl"), Try("nonlocal"), L("globals")>>)

NonlocalAlternative ==
  /\ Running /\ Head1 \in {L("globals"), L("nonlocals")} /\ Tok = "nonlocal"
  /\ Call(<<P("NonLocalDecl"), Try("vars"), L("globals")>>)

VarAlternative ==
  /\ DeclLoop /\ IsVarDef
  /\ Call(<<P("VarDef"), Try("again"), L("globals")>>)

FuncAlternative ==
  /\ DeclLoop /\ Tok = "def"
  /\ Call(<<P("FuncDef"), Try("break"), L("globals")>>)

EndDeclLoop ==
  /\ DeclLoop /\ ~IsVarDef /\ Tok # "def"
  /\ Tok = "global" => ~At(L("globals"))
  /\ Tok = "nonlocal" => At(L("vars"))
  /\ Call(<<>>)

ParseGlobalDecl ==
  At(P("GlobalDecl")) /\ Call(<<T("global"), T("id"), T("NEWLINE")>>)
ParseNonlocalDecl ==
  At(P("NonLocalDecl")) /\ Call(<<T("nonlocal"), T("id"), T("NEWLINE")>>)

-----------------------------------------------------------------------------
(* Statements.                                                             *)

\* parseStmt and parseSimpleStmt.
ParseStmt ==
  LET kinds == [if |-> "IfStmt", while |-> "WhileStmt", for |-> "ForStmt"] IN
  /\ At(P("Stmt"))
  /\ IF Tok \in DOMAIN kinds
     THEN Call(<<P(kinds[Tok])>>)
     ELSE Call(<<P("SimpleStmt"), T("NEWLINE")>>)

ParseSimpleStmt ==
  \/ At(P("SimpleStmt")) /\ Tok = "pass" /\ Take(<<>>)
  \/ At(P("SimpleStmt")) /\ Tok = "return"
     /\ Take(IF LookAhead0 = "NEWLINE" THEN <<>> ELSE <<Expr>>)
  \/ At(P("SimpleStmt")) /\ Tok \notin {"pass", "return"}
     /\ Call(<<Expr, P("Assignments")>>)

\* parseAssignOrExpr after an expression; the end of the line is expected
\* next in any case.
ParseAssignments ==
  \/ At(P("Assignments")) /\ target /\ Tok = "="
     /\ Take(<<Expr, P("Assignments")>>)
  \/ At(P("Assignments")) /\ ~(target /\ Tok = "=") /\ Call(<<>>)

\* parseIfStmt; an elif is the statement of the else branch.
ParseIfStmt ==
  \/ At(P("IfStmt")) /\ Call(<<T("if"), Expr, T(":"), P("Block"), P("Else")>>)
  \/ At(P("ElifStmt"))
     /\ Call(<<T("elif"), Expr, T(":"), P("Block"), P("Else")>>)

\* Mutant: an elif is parsed as an if.
ParseElseAsIf ==
  \/ At(P("Else")) /\ Tok = "elif" /\ Call(<<P("IfStmt")>>)
  \/ At(P("Else")) /\ Tok = "else" /\ Take(<<T(":"), P("Block")>>)
  \/ At(P("Else")) /\ Tok \notin {"elif", "else"} /\ Call(<<>>)

ParseElse ==
  \/ At(P("Else")) /\ Tok = "elif" /\ Call(<<P("ElifStmt")>>)
  \/ At(P("Else")) /\ Tok = "else" /\ Take(<<T(":"), P("Block")>>)
  \/ At(P("Else")) /\ Tok \notin {"elif", "else"} /\ Call(<<>>)

ParseWhileStmt ==
  At(P("WhileStmt")) /\ Call(<<T("while"), Expr, T(":"), P("Block")>>)

ParseForStmt ==
  /\ At(P("ForStmt"))
  /\ Call(<<T("for"), T("id"), T("in"), Expr, T(":"), P("Block")>>)

\* Mutant: the end of the block is left to the caller.
ParseOpenBlock ==
  /\ At(P("Block"))
  /\ Call(<<T("NEWLINE"), T("INDENT"), P("Stmt"), L("block")>>)

ParseBlock ==
  /\ At(P("Block"))
  /\ Call(<<T("NEWLINE"), T("INDENT"), P("Stmt"), L("block"), T("DEDENT")>>)

\* The remaining statements of a block or a function body: up to a DEDENT,
\* whatever has been reached.
BlockStatement ==
  /\ At(L("block")) /\ Tok # "DEDENT"
  /\ Call(<<P("Stmt"), Try("skip"), L("block")>>)

EndBlock == At(L("block")) /\ Tok = "DEDENT" /\ Call(<<>>)

-----------------------------------------------------------------------------
(* Expressions.                                                            *)

\* The level whose loop takes an operator, 0 if none does.
LevelOf(op) == CASE op = "if" -> 1 [] op = "or" -> 2 [] op = "and" -> 3
                 [] op = "cmp" -> 5 [] op \in {"add", "-"} -> 6
                 [] op = "mul" -> 7 [] OTHER -> 0

AtLevel == Running /\ Head1.kind = "level"

\* parseExprPrecedence4 and parseCExprPrecedence8: a prefix binds what its own
\* level parses; below it are the loops of the levels that led here.
PrefixNot ==
  /\ AtLevel /\ Tok = "not" /\ Head1.from <= 4
  /\ Take(<<Level(4), More("not", 3, Head1.from)>>)

PrefixMinus ==
  /\ AtLevel /\ Tok = "-"
  /\ Take(<<Level(8), More("neg", 7, Head1.from)>>)

\* parseCExpr starts with parsePrimaryExpr.
PrimaryStarts(from) == More("primary", 7, from)

PrimaryToken ==
  /\ AtLevel /\ Tok \in {"id", "lit", "idstr"}
  /\ Do(<<P(IF Tok = "id" THEN "PostfixOfTarget" ELSE "PostfixOfValue"),
          PrimaryStarts(Head1.from)>>)
  /\ nodes' = Append(nodes, "x")
  /\ Consume(1)
  /\ UNCHANGED <<text, target, diagnosed, recovered>>

PrimaryInBrackets ==
  \/ AtLevel /\ Tok = "("
     /\ Take(<<Expr, T(")"), P("PostfixOfSame"), PrimaryStarts(Head1.from)>>)
  \/ AtLevel /\ Tok = "["
     /\ Take(<<P("Elements"), T("]"), P("PostfixOfValue"),
               PrimaryStarts(Head1.from)>>)

NotPrimary ==
  /\ AtLevel /\ Tok \notin {"id", "lit", "idstr", "(", "[", "-"}
  /\ Tok = "not" => Head1.from > 4
  /\ Fail /\ diagnosed' = TRUE

\* parseExprList.
ParseExprList ==
  \/ /\ At(P("Elements")) /\ Tok = "]" /\ Call(<<>>)
  \/ /\ At(P("Arguments")) /\ Tok = ")" /\ Call(<<>>)
  \/ /\ \/ At(P("Elements")) /\ Tok # "]"
        \/ At(P("Arguments")) /\ Tok # ")"
     /\ Call(<<Expr, P("MoreExprs")>>)
  \/ At(P("MoreExprs")) /\ Tok = "," /\ Take(<<Expr, P("MoreExprs")>>)
  \/ At(P("MoreExprs")) /\ Tok # "," /\ Call(<<>>)

\* The loop of parseCExpr with parseMemberExpr and parseIndexExpr; in the end
\* it is known whether the expression may be assigned to.
InPostfix ==
  Running /\ Head1 \in {P("PostfixOfTarget"), P("PostfixOfValue"),
                        P("PostfixOfSame")}

ParsePostfix ==
  \/ InPostfix /\ Tok = "." /\ Take(<<T("id"), P("PostfixOfTarget")>>)
  \/ InPostfix /\ Tok = "[" /\ Take(<<Expr, T("]"), P("PostfixOfTarget")>>)
  \/ InPostfix /\ Tok = "("
     /\ Take(<<P("Arguments"), T(")"), P("PostfixOfValue")>>)

EndPostfix ==
  /\ InPostfix /\ Tok \notin {".", "[", "("}
  /\ target' = IF Head1 = P("PostfixOfSame") THEN target
               ELSE Head1 = P("PostfixOfTarget")
  /\ Do(<<>>)
  /\ UNCHANGED <<text, pos, nodes, diagnosed, recovered>>

\* The loops of parseExprPrecedence1 to 3 and parseCExprPrecedence5 to 7: the
\* node of the operator before is created, then another operator is taken by
\* the loop of its level.
InLoops == Running /\ Head1.kind = "more"
Takes == LevelOf(Tok) \in Head1.to .. Head1.from

Created ==
  IF Head1.name = "primary" THEN UNCHANGED <<nodes, target>>
  ELSE nodes' = Append(nodes, Head1.name) /\ target' = FALSE

\* Mutant: the operand on the right takes operators of the same level.
OperatorToTheRight ==
  /\ InLoops /\ Takes /\ Created
  /\ LET m == LevelOf(Tok) IN
     Do(IF Tok = "if"
        THEN <<Level(2), T("else"), Level(1), More("if", 1, Head1.to)>>
        ELSE <<Level(m), More(Tok, m, Head1.to)>>)
  /\ Consume(1)
  /\ UNCHANGED <<text, diagnosed, recovered>>

Operator ==
  /\ InLoops /\ Takes /\ Created
  /\ LET m == LevelOf(Tok) IN
     Do(IF Tok = "if"
        THEN <<Level(2), T("else"), Level(1), More("if", 1, Head1.to)>>
        ELSE <<Level(m + 1), More(Tok, m, Head1.to)>>)
  /\ Consume(1)
  /\ UNCHANGED <<text, diagnosed, recovered>>

EndOperators ==
  /\ InLoops /\ ~Takes /\ Created
  /\ Do(<<>>)
  /\ UNCHANGED <<text, pos, diagnosed, recovered>>

-----------------------------------------------------------------------------
Next ==
  \/ Expected \/ NotExpected \/ Succeeded
  \/ ProgramDeclaration \/ ProgramStatement \/ EndProgramLoop
  \/ ParseClassDef \/ ParseClassBody \/ ClassMember \/ EndClassBody \/ NotAMember
  \/ ParseFuncDef \/ ParseParams \/ ParseReturnType \/ ParseTypedVar
  \/ ParseType \/ NotAType \/ ParseVarDef \/ ParseLiteral \/ NotALiteral
  \/ ParseFuncBody \/ GlobalAlternative \/ NonlocalAlternative
  \/ VarAlternative \/ FuncAlternative \/ EndDeclLoop
  \/ ParseGlobalDecl \/ ParseNonlocalDecl
  \/ ParseStmt \/ ParseSimpleStmt \/ ParseAssignments
  \/ ParseIfStmt \/ ParseElse \/ ParseWhileStmt \/ ParseForStmt
  \/ ParseBlock \/ BlockStatement \/ EndBlock
  \/ PrefixNot \/ PrefixMinus \/ PrimaryToken \/ PrimaryInBrackets \/ NotPrimary
  \/ ParseExprList \/ ParsePostfix \/ EndPostfix \/ Operator \/ EndOperators

Spec == Init /\ [][Next]_vars

\* parse runs to its end without waiting for anything.
FairSpec == Spec /\ WF_vars(Next)

Done == stack = <<>>

-----------------------------------------------------------------------------
(* Properties.                                                             *)

TypeOK ==
  /\ IsText(text) /\ pos \in 1 .. Len(text)
  /\ stack \in Seq(Entries)
  /\ nodes \in Seq(NodeNames)
  /\ target \in BOOLEAN /\ diagnosed \in BOOLEAN /\ recovered \in BOOLEAN

\* The loops of parseProgram, which are not left by a failure.
TopLoops == {L("declarations"), L("statements")}
GoesOn == {"break", "nonlocal", "vars", "member"}

\* Whatever fails has a caller that goes on, and a caller that goes on in its
\* loop is in one.
FailuresReturn ==
  \A i \in 1 .. Len(stack) :
    IF stack[i].kind = "try"
    THEN stack[i].name \in GoesOn =>
           /\ i < Len(stack) /\ stack[i + 1].kind = "loop"
           /\ stack[i + 1] \notin TopLoops
    ELSE stack[i] \notin TopLoops =>
           \E j \in i + 1 .. Len(stack) : stack[j].kind = "try"

Count(S) == Cardinality(S)
Open(tok) == Count({i \in 1 .. Len(stack) : stack[i] = T(tok)})
Passed(tok) == Count({i \in 1 .. pos - 1 : text[i] = tok})

\* Until a procedure fails, the blocks the parser is in are those the lexer
\* has opened: a DEDENT ends the block its INDENT began, whatever is nested.
BlocksNest ==
  ~recovered => Passed("INDENT") - Passed("DEDENT") = Open("DEDENT") - Open("INDENT")

\* The inductive invariant: the calls under way are well-formed, every failure
\* has a place to return to, and the calls match the blocks of the text.
ParserInv == TypeOK /\ FailuresReturn /\ BlocksNest

\* What the grammar does not derive is not accepted: there is a failure or a
\* diagnostic.
OnlyGrammaticalAccepted ==
  Done /\ ~recovered /\ ~diagnosed => text \in Grammatical

\* The two loops that do not move: the statements of a block at the end of the
\* text (parseFuncBody and parseBlock wait for a DEDENT), and in the body of a class
\* or a function a variable definition that fails at its first token, an identifier
\* string.
Spins ==
  \/ At(L("block")) /\ Tok = "eof"
  \/ (MemberLoop \/ DeclLoop) /\ IsVarDef /\ Tok = "idstr"

\* What the grammar derives is parsed to its end without a failure (the end is
\* reached: EndsOrSpins).
GrammaticalAccepted ==
  text \in Grammatical => /\ ~recovered /\ ~diagnosed /\ ~Spins
                          /\ (Done => Tok = "eof")

\* Every other loop of the parser ends on every text, grammatical or not.
EndsOrSpins == <>(Done \/ Spins)

\* Operators bind and associate as their precedence says: the nodes of an
\* expression statement are created in the order of its syntax tree.
PrecedenceRespected ==
  Done /\ ~recovered /\ ~diagnosed /\ text \in Expressions => nodes = Postorder(text)

\* The parser comes to the end of every text.
Terminates == <>Done
=============================================================================
