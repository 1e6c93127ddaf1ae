---------------------------- MODULE MCTypeCheck ----------------------------
(* A variable of every sort of type and of every scope, a parameter, two   *)
(* functions, a class, an object of a class nobody declared, and a name    *)
(* nobody declared.  Class A has an attribute and a method.                *)
EXTENDS TypeCheck

Var(t, inner) == [kind |-> "var", type |-> t, inner |-> inner]
Function(params, ret) == [kind |-> "func", params |-> params, ret |-> ret]

MCSymbols == {"x", "y", "l", "o", "p", "a", "g", "f", "print", "A", "z"}
MCMembers == {"attr", "method", "missing", "A"}
MCDecl == [s \in MCSymbols \cup MCMembers |->
  CASE s = "x" -> Var(IntTy, TRUE)
    [] s = "y" -> Var(StrTy, FALSE)
    [] s = "l" -> Var(ListOf(IntTy), TRUE)
    [] s = "o" -> Var(ObjectTy, FALSE)
    [] s = "a" -> Var(<<"A">>, TRUE)
    [] s = "g" -> Var(<<"Ghost">>, TRUE)
    [] s = "p" -> [kind |-> "param", type |-> <<"A">>, inner |-> TRUE]
    [] s = "f" -> Function(<<IntTy>>, BoolTy)
    [] s = "print" -> Function(<<ObjectTy>>, Nil)
    [] s = "A" -> [kind |-> "class"]
    [] OTHER -> [kind |-> "none"]]

MCClasses == {"A", "int", "str", "bool", "object"}
MCClassNames == MCClasses \cup {"Ghost"}
MCMember == [c \in MCClasses, m \in MCMembers |->
  IF c = "A" /\ m = "attr" THEN [kind |-> "attr", type |-> IntTy]
  ELSE IF c = "A" /\ m = "method" THEN [kind |-> "method", params |-> <<StrTy>>]
  ELSE [kind |-> "none"]]

Small == [symbols |-> MCSymbols, members |-> MCMembers,
          literals |-> {IntTy, StrTy, NoneTy},
          operators |-> {"add", "multiply", "divide", "logic", "equal", "order", "is"},
          returns |-> {IntTy, <<"A">>, NoneTy},
          vars |-> {IntTy, ObjectTy, <<"A">>, <<"Ghost">>, ListOf(IntTy)},
          args |-> 2, nodes |-> 3]

\* Conditionals whose condition is a comparison.
Deep == [Small EXCEPT !.symbols = {"x", "l"}, !.members = {},
                      !.literals = {IntTy, BoolTy}, !.operators = {"add", "equal"},
                      !.args = 0, !.nodes = 6]

\* Conditionals whose condition is no comparison, with two targets.
Refused == [Deep EXCEPT !.symbols = {"x"}, !.literals = {IntTy}, !.operators = {"add"},
                        !.nodes = 8]
MCSamples == {Small, Deep, Refused}
=============================================================================
