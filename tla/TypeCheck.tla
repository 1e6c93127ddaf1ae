----------------------------- MODULE TypeCheck -----------------------------
(***************************************************************************)
(* The type checks of one statement (Sema.cpp).  The analysis visits the   *)
(* expressions of a statement from the leaves up and gives most of them an *)
(* inferred type; some kinds are never given one, and many checks cast the *)
(* null pointer they find instead, which ends the process: an assertion or *)
(* an access to address 0.                                                 *)
(*                                                                         *)
(* A behaviour is the check of one statement, whose text is chosen along   *)
(* the way.  `stack' holds the visited expressions whose parent is still   *)
(* to be visited.  Types are sequences: a class name, behind one "list"    *)
(* for every list around it.  TypeContext shows that the addresses the     *)
(* code compares are equal exactly if the types are.                       *)
(***************************************************************************)
EXTENDS Integers, Sequences

CONSTANTS
  Decl,         \* what lookupDecl finds for the names
  Classes,      \* the classes of the global scope
  ClassNames,   \* the class names of annotations, declared or not
  Member,       \* Member[c, m]: what findDeclaration finds in class c
  Samples,      \* the statements to consider, in groups: records of the symbols,
                \* members, literals (their types) and operators they consist of,
                \* the types of variables to define (vars) and of functions to
                \* return from (returns), and two bounds: args, elements of a list
                \* or arguments of a call, and nodes, expressions
  MaxStack,     \* bound: expressions waiting for their parent
  MaxBrackets   \* bound: nesting of list types

Nil == <<>>                    \* no inferred type: a null pointer
ObjectTy == <<"object">>
IntTy == <<"int">>
StrTy == <<"str">>
BoolTy == <<"bool">>
NoneTy == <<"<None>">>
EmptyTy == <<"<Empty>">>

ListOf(t) == <<"list">> \o t
IsList(t) == Len(t) > 1
Elem(t) == Tail(t)

Words == ClassNames \cup {"list", "object", "int", "str", "bool", "<None>", "<Empty>"}
Types == {t \in Seq(Words) : t # Nil /\ \A i \in 1 .. Len(t) - 1 : t[i] = "list"}

\* A declaration is a record of kind, type, inner (it is in the current scope),
\* params (without self) and ret; a member one of kind, type and params.
IsDecl(d) ==
  /\ d.kind \in {"none", "class", "func", "var", "param"}
  /\ d.kind \in {"var", "param"} => d.type \in Types
  /\ d.kind = "func" => d.params \in Seq(Types) /\ d.ret \in Types \cup {Nil}
IsSample(g) ==
  /\ g.symbols \cup g.members \subseteq DOMAIN Decl
  /\ g.literals \cup g.vars \cup g.returns \subseteq Types
  /\ g.args \in Nat /\ g.nodes \in Nat

ASSUME DeclAssumption ==
  /\ Classes \subseteq ClassNames
  /\ \A s \in DOMAIN Decl : IsDecl(Decl[s]) /\ (Decl[s].kind = "class" => s \in Classes)
ASSUME SamplesAssumption == \A g \in Samples : IsSample(g)
ASSUME BoundsAssumption == MaxStack \in Nat /\ MaxBrackets \in Nat

Declared(s) == Decl[s].kind # "none"
HasType(s) == Decl[s].kind \in {"var", "param"}

VARIABLES
  sample,      \* the group the statement belongs to
  stack,       \* expressions visited
  form,        \* what the statement is known to be
  callee,      \* of a method call: the method found, if it is known, or lost
  count,       \* expressions so far
  errors,      \* kinds of diagnostics
  traits,      \* history: what is special about the statement
  assigned,    \* history: values assigned, returned or defined
  status       \* "running", "done", "crashed"

Unknown == [kind |-> "unknown"]
Lost == [kind |-> "lost"]      \* an object that is no name: there is none to look up

vars == <<sample, stack, form, callee, count, errors, traits, assigned, status>>

Init ==
  /\ sample \in Samples
  /\ stack = <<>> /\ form = "value" /\ callee = Unknown /\ count = 0
  /\ errors = {} /\ traits = {} /\ assigned = {}
  /\ status = "running"

-----------------------------------------------------------------------------
(* Outcomes of checks.                                                     *)

DiagIf(b, kind) == IF b THEN {kind} ELSE {}

Node(k, t) == [k |-> k, ty |-> t, sym |-> "none", parts |-> <<>>]

Top(i) == stack[Len(stack) - i]
Last(n) == SubSeq(stack, Len(stack) - n + 1, Len(stack))

\* A value, a target after it, or the arguments of a method are being visited.
Open == {"value", "target", "method"}

\* An expression takes the place of its n operands.
Visit(n, node, errs, wrong) ==
  /\ status = "running" /\ form \in Open
  /\ count < sample.nodes /\ Len(stack) >= n /\ Len(stack) - n < MaxStack
  /\ Len(node.ty) <= MaxBrackets + 1
  /\ stack' = SubSeq(stack, 1, Len(stack) - n) \o <<node>>
  /\ count' = count + 1
  /\ errors' = errors \cup errs /\ traits' = traits \cup wrong
  /\ UNCHANGED <<sample, form, callee, assigned, status>>

\* A null pointer is cast or read.
Crash(wrong) ==
  /\ status = "running" /\ form \in Open /\ status' = "crashed"
  /\ traits' = traits \cup wrong
  /\ UNCHANGED <<sample, stack, form, callee, count, errors, assigned>>

\* The trait "fancy" marks what goes beyond literals, variables, operators, lists
\* and calls, by their names, of functions that return something; "unvisited" a
\* statement with a part that the analysis passes over, with the names in it.
Wrong(s) == IF Declared(s) THEN {} ELSE {"undeclared"}
Unvisited(s) == {"unvisited"} \cup Wrong(s)

-----------------------------------------------------------------------------
(* Leaves.                                                                 *)

Literal(t) == Visit(0, Node("literal", t), {}, {})

\* actOnDeclRef: the type, and a diagnostic if the name is no variable.
RefErrors(s) == DiagIf(~HasType(s) /\ Decl[s].kind # "class", "not_variable")
RefType(s) == IF HasType(s) THEN Decl[s].type ELSE ObjectTy

RefNode(s) == [k |-> "ref", ty |-> RefType(s), sym |-> s, parts |-> <<>>]

\* Mutant: an unknown name is given its type without a word.
RefSilent(s) == Visit(0, RefNode(s), {}, Wrong(s))

Ref(s) ==
  /\ Decl[s].kind # "class"
  /\ Visit(0, RefNode(s), RefErrors(s), Wrong(s))

\* A class name as an expression is a fatal error.
RefClass(s) ==
  /\ Decl[s].kind = "class" /\ count < sample.nodes
  /\ Crash({"fancy"})

-----------------------------------------------------------------------------
(* Operators.                                                              *)

Primitive == {IntTy, StrTy, BoolTy}

TypeOf(n) == IF n.ty = Nil THEN ObjectTy ELSE n.ty

\* actOnBinaryExpr; sub and mul, mod and floor division, == and !=, <, <=, >
\* and >= behave alike.
BinaryError(op, l, r) ==
  CASE op = "add" -> IF {IntTy, StrTy} \cap {l, r} # {} THEN l # r
                     ELSE ~(IsList(l) /\ IsList(r))
    [] op = "multiply" -> l # r \/ ~(l = IntTy \/ IsList(l))
    [] op \in {"divide", "order"} -> {l, r} # {IntTy}
    [] op = "logic" -> {l, r} # {BoolTy}
    [] op = "equal" -> l # r \/ l \notin Primitive
    [] op = "is" -> {l, r} \cap Primitive # {}

\* Mutant: operands that do not fit leave the result without a type.
BinaryTypeOrNone(op, l, r) ==
  IF BinaryError(op, l, r) THEN Nil ELSE BoolTy

BinaryType(op, l, r) ==
  CASE op = "add" /\ IntTy \in {l, r} -> IntTy
    [] op = "add" /\ StrTy \in {l, r} /\ IntTy \notin {l, r} -> StrTy
    [] op = "add" /\ {IntTy, StrTy} \cap {l, r} = {} ->
         IF IsList(l) /\ IsList(r) THEN r ELSE ObjectTy
    [] op = "multiply" -> IF IntTy \in {l, r} THEN IntTy
                          ELSE IF BinaryError(op, l, r) THEN ObjectTy ELSE l
    [] op = "divide" -> IntTy
    [] OTHER -> BoolTy

Binary(op) ==
  /\ Len(stack) >= 2
  /\ LET l == TypeOf(Top(1))  r == TypeOf(Top(0)) IN
     Visit(2, Node("binary", BinaryType(op, l, r)),
           DiagIf(BinaryError(op, l, r), "binary"), {})

\* Operands are visited, the node itself is not given a type.
Unary == /\ Len(stack) >= 1
         /\ Visit(1, [Node("unary", Nil) EXCEPT !.parts = <<Top(0).ty>>], {},
                  {"fancy"})

\* Condition, then and else, in the order traverseIfExpr visits them.
Conditional ==
  /\ Len(stack) >= 3
  /\ Visit(3, [Node("if", Nil) EXCEPT
                 !.parts = <<Top(2).k, Top(2).ty, Top(1).ty, Top(0).ty>>], {},
           {"fancy"})

Index ==
  /\ Len(stack) >= 2
  /\ LET literalInt == Top(0).k = "literal" /\ Top(0).ty = IntTy IN
     Visit(2, [Node("index", Nil) EXCEPT
                 !.parts = <<Top(1).k, Top(1).ty, literalInt, Top(0).ty>>], {},
           {"fancy"})

-----------------------------------------------------------------------------
(* Lists.                                                                  *)

\* checkExprList of the n expressions on top.
Mixed(n) == \E i \in 1 .. n : Last(n)[i].ty # Last(n)[1].ty

\* Mutant: an empty list is left without a type.
ListUntyped(n) ==
  /\ Len(stack) >= n
  /\ IF n = 0 THEN Visit(0, Node("list", Nil), {}, {})
     ELSE IF Last(n)[1].ty = Nil THEN Crash({})
     ELSE Visit(n, Node("list", IF Mixed(n) THEN Nil ELSE ListOf(Last(n)[1].ty)),
                DiagIf(Mixed(n), "cannot_index"), {})

List(n) ==
  /\ Len(stack) >= n
  /\ IF n = 0 THEN Visit(0, Node("list", EmptyTy), {}, {})
     ELSE IF Last(n)[1].ty = Nil THEN Crash({})
     ELSE Visit(n, Node("list", IF Mixed(n) THEN Nil ELSE ListOf(Last(n)[1].ty)),
                DiagIf(Mixed(n), "cannot_index"), {})

-----------------------------------------------------------------------------
(* Calls.                                                                  *)

\* checkParams: the arguments on top of the stack and the parameters.
Fits(args, params) == \A i \in 1 .. Len(args) : args[i].ty = params[i]
SameNumber(args, params) == Len(args) = Len(params)

\* Where the loop over the arguments stops at a wrong one, what follows is not
\* looked at.
NullBeforeMisfit(args, params) ==
  \E i \in 1 .. Len(args) :
    args[i].ty = Nil /\ \A j \in 1 .. i - 1 : args[j].ty = params[j]

ParamErrors(args, params) == DiagIf(~SameNumber(args, params), "num_args")
Misfit(args, params) ==
  IF SameNumber(args, params) /\ ~Fits(args, params) THEN {"misfit"} ELSE {}

\* checkCallExpr, after the n arguments.  A function without a return type (the
\* predefined print) makes convertAnnotationToVType convert null.
Call(s, n) ==
  /\ Len(stack) >= n
  /\ LET d == Decl[s]  args == Last(n) IN
     CASE d.kind = "none" ->
            Visit(n, Node("call", Nil), {"call"}, {"undeclared", "fancy"})
       [] d.kind = "class" -> Visit(n, Node("call", <<s>>), {}, {})
       [] d.kind \in {"var", "param"} -> Visit(n, Node("call", Nil), {}, {"fancy"})
       [] d.kind = "func" ->
            IF SameNumber(args, d.params) /\ NullBeforeMisfit(args, d.params)
            THEN Crash({})
            ELSE IF d.ret = Nil THEN Crash({"fancy"})
            ELSE Visit(n, Node("call", d.ret), ParamErrors(args, d.params),
                       Misfit(args, d.params))

\* A callee that is no name is not visited and has no declaration: a null pointer
\* is cast, whatever the arguments.
CallOfExpr(n) == Len(stack) >= n /\ count < sample.nodes /\ Crash({"fancy"})

-----------------------------------------------------------------------------
(* Members.                                                                *)

\* checkMemberExpr reads the declaration of the object without asking whether
\* there is one, and its class without asking whether there is one.
NullMember(s) ==
  \/ ~Declared(s)
  \/ HasType(s) /\ (IsList(Decl[s].type) \/ Decl[s].type[1] \notin Classes)

Found(s, m) == Member[Decl[s].type[1], m]
NoMember(s, m) == HasType(s) /\ Found(s, m).kind = "none"

\* The type an attribute is given; methods and members of other objects have
\* none.
MemberType(s, m) ==
  IF HasType(s) /\ Found(s, m).kind = "attr" THEN Found(s, m).type ELSE Nil

\* traverseMemberExpr looks the member up as if it were a variable, a fatal error
\* if a class has its name, then checks.
MemberOf(m) ==
  /\ Len(stack) >= 1
  /\ LET o == Top(0) IN
     IF Decl[m].kind = "class" \/ (o.k = "ref" /\ NullMember(o.sym))
     THEN Crash({"fancy"})
     ELSE Visit(1, Node("member", Nil),
                RefErrors(m) \cup
                  DiagIf(o.k = "ref" /\ NoMember(o.sym, m), "no_attr"),
                {"fancy"})

\* A method call inside an expression: the member as above, then arguments.
MethodCallOf(n) ==
  /\ Len(stack) >= n + 1 /\ Top(n).k = "member"
  /\ Visit(n + 1, Node("method", Nil), {}, {"fancy"})

-----------------------------------------------------------------------------
(* Expression statements.                                                  *)

Finish(errs, f, wrong) ==
  /\ status' = "done" /\ form' = f /\ stack' = <<>> /\ callee' = Unknown
  /\ errors' = errors \cup errs /\ traits' = traits \cup wrong
  /\ UNCHANGED <<sample, count, assigned>>

Whole == status = "running" /\ form = "value" /\ Len(stack) = 1
Fresh == status = "running" /\ form = "value" /\ count = 0

\* checkIndexExpr
IndexNull(e) == \/ e.parts[1] = "ref" /\ ~e.parts[3] /\ e.parts[4] = Nil
                \/ e.parts[1] # "ref" /\ e.parts[2] = Nil
IndexErrors(e) ==
  IF e.parts[1] # "ref" THEN {"cannot_index"} ELSE DiagIf(~e.parts[3], "index_not_int")

ExprStmt ==
  /\ Whole /\ Top(0).k \notin {"index", "unary", "member", "method"}
  /\ Finish({}, "expr", {})

IndexStmt ==
  /\ Whole /\ Top(0).k = "index"
  /\ IF IndexNull(Top(0)) THEN Crash({}) ELSE Finish(IndexErrors(Top(0)), "expr", {})

\* checkUnaryExpr: "not" asks for bool, "-" for int.
UnaryStmt(t) ==
  /\ Whole /\ Top(0).k = "unary"
  /\ IF Top(0).parts[1] = Nil THEN Crash({})
     ELSE Finish(DiagIf(Top(0).parts[1] # t, "unary"), "expr", {})

\* A member on its own is not traversed, only checked.
MemberStmt(s, m) ==
  /\ Fresh
  /\ IF NullMember(s) THEN Crash({"fancy"} \cup Wrong(s))
     ELSE Finish(DiagIf(NoMember(s, m), "no_attr"), "expr", {"fancy"})

\* Nothing is checked if the object is no name: it is passed over, with every name
\* s in it.
MemberStmtOfExpr(s) == Fresh /\ Finish({}, "expr", {"fancy"} \cup Unvisited(s))

\* checkMethodCallExpr looks into methods of variables, not of parameters.
Method(s, m) ==
  IF Decl[s].kind = "var" /\ Found(s, m).kind = "method" THEN Found(s, m)
  ELSE Unknown

\* A method call on its own: the method first, then the arguments.
MethodStmt(s, m) ==
  /\ Fresh
  /\ IF NullMember(s) THEN Crash({"fancy"} \cup Wrong(s))
     ELSE IF NoMember(s, m) THEN Finish({"no_method"}, "expr", {"fancy"})
     ELSE /\ form' = "method" /\ callee' = Method(s, m)
          /\ traits' = traits \cup {"fancy"}
          /\ UNCHANGED <<sample, stack, count, errors, assigned, status>>

\* Of an object that is no name, with a name s in it, only the arguments are
\* visited.
MethodStmtOfExpr(s) ==
  /\ Fresh /\ form' = "method" /\ callee' = Lost
  /\ traits' = traits \cup {"fancy"} \cup Unvisited(s)
  /\ UNCHANGED <<sample, stack, count, errors, assigned, status>>

\* checkMethodCallExpr, after the arguments, takes the object for a name.
EndMethod ==
  /\ status = "running" /\ form = "method"
  /\ IF callee = Lost THEN Crash({})
     ELSE IF callee.kind # "method" THEN Finish({}, "expr", {})
     ELSE IF SameNumber(stack, callee.params)
             /\ NullBeforeMisfit(stack, callee.params)
     THEN Crash({})
     ELSE Finish(ParamErrors(stack, callee.params), "expr",
                 Misfit(stack, callee.params))

\* traverseIfStmt does not visit the condition, with every name s in it.
IfStmt(s) == Fresh /\ Finish({}, "if", Unvisited(s))

\* Conditions of loops, targets and iterables are visited, and that is all.
WhileStmt == Whole /\ Finish({}, "loop", {})
ForStmt ==
  /\ status = "running" /\ form = "value" /\ Len(stack) = 2 /\ Top(1).k = "ref"
  /\ Finish({}, "loop", {})

-----------------------------------------------------------------------------
(* Assignments.                                                            *)

\* A value of type e.ty met something of type to.
Given(e, to, ok) == [k |-> e.k, from |-> e.ty, to |-> to, ok |-> ok]

\* The targets come after the value.
BeginTargets ==
  /\ Whole /\ form' = "target"
  /\ UNCHANGED <<sample, stack, callee, count, errors, traits, assigned, status>>

\* checkAssignment, first half: the type of the value.  A conditional counts as
\* its first branch, an element as its list.
ValueNull(v) ==
  \/ v.k = "if" /\ (v.parts[1] # "binary" \/ (v.parts[2] = BoolTy /\ v.parts[3] = Nil))
  \/ v.k = "index" /\ (IndexNull(v) \/ v.parts[2] = Nil)
  \/ v.k \notin {"if", "index"} /\ v.ty = Nil
ValueRefused(v) == v.k = "if" /\ v.parts[2] # BoolTy
ValueErrors(v) == IF v.k = "index" THEN IndexErrors(v) ELSE {}
ValueType(v) == CASE v.k = "if" -> v.parts[3]
                  [] v.k = "index" -> v.parts[2]
                  [] OTHER -> v.ty

\* Mutant: an empty list may be assigned to anything.
AssignableEmpty(to, from) ==
  \/ to = ObjectTy \/ from = to \/ from = EmptyTy
  \/ IsList(from) /\ Elem(from) = NoneTy

\* Mutant: only lists may be assigned.
AssignableListsOnly(to, from) == IsList(to) /\ (from = to \/ from = EmptyTy)

\* checkAssignment, second half.
Assignable(to, from) ==
  \/ to = ObjectTy \/ from = to
  \/ IsList(from) /\ Elem(from) = NoneTy
  \/ IsList(to) /\ from = EmptyTy

\* The value v meets a target of type to, after other diagnostics.
Meet(v, to, errs, n) ==
  IF ValueNull(v) \/ (~ValueRefused(v) /\ to = Nil)
  THEN Crash(IF to = Nil THEN {"fancy"} ELSE {})
  ELSE LET ok == ~ValueRefused(v) /\ Assignable(to, ValueType(v)) IN
       /\ stack' = <<v>> /\ count' = count + n
       /\ errors' = errors \cup errs \cup ValueErrors(v)
                      \cup DiagIf(~ok /\ ~ValueRefused(v), "tc_assign")
       /\ assigned' = assigned \cup {Given(v, to, ok)}
       /\ UNCHANGED <<sample, form, callee, traits, status>>

\* Mutant: the next target is tried in silence.
RefuseSilently(v, errs, n) ==
  /\ stack' = <<v>> /\ count' = count + n
  /\ assigned' = assigned \cup {Given(v, Nil, FALSE)}
  /\ UNCHANGED <<sample, form, callee, errors, traits, status>>

\* A target refused by checkAssignTarget.
Refuse(v, errs, n) ==
  /\ stack' = <<v>> /\ count' = count + n /\ errors' = errors \cup errs
  /\ assigned' = assigned \cup {Given(v, Nil, FALSE)}
  /\ UNCHANGED <<sample, form, callee, traits, status>>

\* A target of type object, or without a declaration, is not looked at further,
\* not even for its scope.
Skip(v) ==
  /\ stack' = <<v>> /\ assigned' = assigned \cup {Given(v, ObjectTy, TRUE)}
  /\ UNCHANGED <<sample, form, callee, count, errors, traits, status>>

AtTarget(n) == status = "running" /\ form = "target" /\ Len(stack) = n

AssignToName ==
  /\ AtTarget(2) /\ Top(0).k = "ref"
  /\ IF Top(0).ty = ObjectTy THEN Skip(Top(1))
     ELSE IF ~Decl[Top(0).sym].inner THEN Refuse(Top(1), {"local_assign"}, 0)
     ELSE Meet(Top(1), Top(0).ty, {}, 0)

\* The outcome of checkIndexExpr is ignored; a string may not be changed.
AssignToElement ==
  /\ AtTarget(2) /\ Top(0).k = "index"
  /\ LET e == Top(0)  list == e.parts[2] IN
     IF IndexNull(e) THEN Crash({})
     ELSE IF list = StrTy THEN Refuse(Top(1), IndexErrors(e) \cup {"tc_assign"}, 0)
     ELSE IF list # Nil /\ ~IsList(list) /\ ~ValueNull(Top(1))
             /\ ~ValueRefused(Top(1))
     THEN Refuse(Top(1), IndexErrors(e) \cup ValueErrors(Top(1))
                           \cup {"cannot_index"}, 0)
     ELSE Meet(Top(1), IF IsList(list) THEN Elem(list) ELSE Nil, IndexErrors(e), 0)

\* A member is not traversed as a target, only checked.
AssignToMember(s, m) ==
  /\ AtTarget(1) /\ count < sample.nodes
  /\ IF NullMember(s) THEN Crash({"fancy"} \cup Wrong(s))
     ELSE IF NoMember(s, m) THEN Refuse(Top(0), {"no_attr"}, 1)
     ELSE Meet(Top(0), MemberType(s, m), {}, 1)

\* Of an object that is no name, with a name s in it, nothing is looked up: the
\* member has no type when the value meets it, unless the value is refused first.
AssignToMemberOfExpr(s) ==
  /\ AtTarget(1) /\ count < sample.nodes
  /\ IF ValueNull(Top(0)) \/ ~ValueRefused(Top(0)) THEN Crash({"fancy"})
     ELSE /\ count' = count + 1
          /\ assigned' = assigned \cup {Given(Top(0), Nil, FALSE)}
          /\ traits' = traits \cup {"fancy"} \cup Unvisited(s)
          /\ UNCHANGED <<sample, stack, form, callee, errors, status>>

EndAssign == AtTarget(1) /\ assigned # {} /\ Finish({}, "assign", {})

-----------------------------------------------------------------------------
(* Return and definitions.                                                 *)

Settle(f, given, errs) ==
  /\ status' = "done" /\ form' = f /\ stack' = <<>>
  /\ errors' = errors \cup errs /\ assigned' = {given}
  /\ UNCHANGED <<sample, callee, count, traits>>

Returnable(e, t) == e = t \/ (t = NoneTy /\ e \notin Primitive)

\* checkReturnStmt: an expression without a type counts as None, and so does a
\* member, since its type is kept with the name of the member.
Return(e) ==
  /\ Whole
  /\ LET v == Top(0)
         ok == Returnable(e, IF v.ty = Nil THEN NoneTy ELSE v.ty) IN
     Settle("return", Given(v, e, ok), DiagIf(~ok, "tc_assign"))

ReturnNothing(e) ==
  /\ Fresh
  /\ Settle("return", Given(Node("nothing", NoneTy), e, Returnable(e, NoneTy)),
            DiagIf(~Returnable(e, NoneTy), "tc_assign"))

\* isAssignementCompatibility
Compatible(sub, super) ==
  \/ sub = super
  \/ sub = NoneTy /\ super \notin Primitive
  \/ sub # NoneTy /\ IsList(super) /\ (sub = EmptyTy \/ sub = ListOf(NoneTy))

\* actOnVarDef: a literal of type t for a variable of type d.
VarDef(d, t) ==
  /\ Fresh
  /\ LET ok == Compatible(t, d) IN
     Settle("vardef", Given(Node("literal", t), d, ok),
            DiagIf(~IsList(d) /\ d[1] \notin Classes, "annotation")
              \cup DiagIf(~ok, "tc_assign"))

-----------------------------------------------------------------------------
Next ==
  \/ \E t \in sample.literals : Literal(t)
  \/ \E s \in sample.symbols : Ref(s)
  \/ \E s \in sample.symbols : RefClass(s)
  \/ \E op \in sample.operators : Binary(op)
  \/ Unary \/ Conditional \/ Index
  \/ \E n \in 0 .. sample.args : List(n)
  \/ \E s \in sample.symbols, n \in 0 .. sample.args : Call(s, n)
  \/ \E n \in 0 .. sample.args : CallOfExpr(n)
  \/ \E m \in sample.members : MemberOf(m)
  \/ \E n \in 0 .. sample.args : MethodCallOf(n)
  \/ ExprStmt \/ IndexStmt
  \/ \E t \in {BoolTy, IntTy} : UnaryStmt(t)
  \/ \E s \in sample.symbols, m \in sample.members : MemberStmt(s, m)
  \/ \E s \in sample.symbols, m \in sample.members : MethodStmt(s, m)
  \/ \E s \in sample.symbols : MemberStmtOfExpr(s) \/ MethodStmtOfExpr(s)
  \/ EndMethod
  \/ \E s \in sample.symbols : IfStmt(s)
  \/ WhileStmt \/ ForStmt
  \/ BeginTargets \/ AssignToName \/ AssignToElement
  \/ \E s \in sample.symbols, m \in sample.members : AssignToMember(s, m)
  \/ \E s \in sample.symbols : AssignToMemberOfExpr(s)
  \/ EndAssign
  \/ \E e \in sample.returns : Return(e)
  \/ \E e \in sample.returns : ReturnNothing(e)
  \/ \E d \in sample.vars, t \in sample.literals : VarDef(d, t)

Spec == Init /\ [][Next]_vars

-----------------------------------------------------------------------------
(* Properties.                                                             *)

Kinds == {"literal", "ref", "binary", "unary", "if", "index", "list", "call",
          "method", "member"}
Diagnostics == {"not_variable", "binary", "unary", "cannot_index", "index_not_int",
                "num_args", "call", "no_attr", "no_method", "tc_assign",
                "local_assign", "annotation"}

Nodes(K, Parts) == [k : K, ty : Types \cup {Nil}, sym : DOMAIN Decl \cup {"none"},
                    parts : Parts]
Expr ==
  Nodes({"if"}, Kinds \X Seq(Words) \X Seq(Words) \X Seq(Words))
    \cup Nodes({"index"}, Kinds \X Seq(Words) \X BOOLEAN \X Seq(Words))
    \cup Nodes(Kinds \ {"if", "index"}, Seq(Seq(Words)))
Traits == {"undeclared", "unvisited", "fancy", "misfit"}

\* Types and bounds of the variables; literals, names and operators have a type,
\* and a check that ends leaves no expression without its parent.
TypeOK ==
  /\ sample \in Samples
  /\ stack \in Seq(Expr) /\ Len(stack) <= MaxStack
  /\ \A i \in 1 .. Len(stack) :
       stack[i].k \in {"literal", "ref", "binary"} => stack[i].ty # Nil
  /\ count \in 0 .. sample.nodes
  /\ form \in Open \cup {"expr", "if", "loop", "assign", "return", "vardef"}
  /\ errors \subseteq Diagnostics /\ traits \subseteq Traits
  /\ status \in {"running", "done", "crashed"}
  /\ status = "running" => form \in Open
  /\ status = "done" => stack = <<>> /\ form \notin Open

\* A name that nothing declares does not go through a check unnoticed, as a
\* variable, a callee, an argument, an element, a target or an object that is a
\* name, however deep in the statement.  Statements with a part that is not visited
\* are excepted: the condition of an if, and an object that is no name of a member
\* or a method call that is a statement and of a member that is a target.
UndeclaredReported ==
  status = "done" /\ "undeclared" \in traits /\ "unvisited" \notin traits =>
    errors # {}

\* Literals, variables, operators, lists and calls, by their names, of functions that
\* return something always have a type when a check wants one: the analysis does not
\* cast a null pointer before it has reported something.
PlainNeverCrashes ==
  status = "crashed" => "fancy" \in traits \/ errors # {}

Plain(g) ==
  g.k \in {"literal", "ref", "binary", "list", "call", "nothing"} /\ g.from # Nil

\* checkAssignment, checkReturnStmt and isAssignementCompatibility are three
\* notions of what fits.  Whatever one of them accepts for such an expression is
\* right by the third, but for object targets and lists of None.
AcceptedFits ==
  \A g \in assigned :
    Plain(g) /\ g.ok =>
      Compatible(g.from, g.to) \/ g.to = ObjectTy \/ g.from = ListOf(NoneTy)

\* A value of exactly the declared type is accepted, in every kind of statement
\* and as every target of a chain.
ExactTypeAccepted ==
  \A g \in assigned : Plain(g) /\ g.from = g.to => g.ok

\* Whatever is refused is reported, by this target or by an earlier check: no
\* target of a chain is skipped in silence.  (A conditional whose condition is
\* no bool is: the diagnostic for it is commented out, Sema.cpp:578.)
RefusedReported ==
  \A g \in assigned : ~g.ok /\ g.k # "if" => errors # {}

\* What the analysis has already marked: that the statement is fancy, or that
\* something is wrong with it.
Marked == "fancy" \in traits \/ errors # {}

\* An expression without a type, or of a kind the checks take apart, and a method
\* call under way are marked.
Unusual == {"if", "index", "unary", "member", "method"}
UnusualMarked ==
  /\ \A i \in 1 .. Len(stack) :
       stack[i].ty = Nil \/ stack[i].k \in Unusual => Marked
  /\ form = "method" => Marked

\* An undeclared name is reported where it is met, or the check ends there, or it is
\* in a part that is not visited.
UndeclaredMet ==
  "undeclared" \in traits =>
    errors # {} \/ status = "crashed" \/ "unvisited" \in traits

\* The inductive invariant.
CheckInv ==
  /\ TypeOK /\ UnusualMarked /\ UndeclaredMet /\ PlainNeverCrashes
  /\ AcceptedFits /\ ExactTypeAccepted /\ RefusedReported

\* Calls with arguments of another type than the parameter are reported
\* (Test/Sema/Bad/bad_func_def_call.py.err:5).
ArgumentsChecked ==
  status = "done" /\ "misfit" \in traits => errors # {}
=============================================================================
