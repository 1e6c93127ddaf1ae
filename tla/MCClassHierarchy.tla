-------------------------- MODULE MCClassHierarchy --------------------------
(***************************************************************************)
(* Programs of up to three classes: single classes with up to two members, *)
(* pairs with up to one member each (the second one with two), and the     *)
(* hierarchies of three classes of which at most one has a member.         *)
(***************************************************************************)
EXTENDS ClassHierarchy

MCProgramClasses == {"a", "b", "c"}
MCMemberNames == {"x", "__init__"}

Param(n, t) == [name |-> n, type |-> t]
Attr(n, t) == [name |-> n, method |-> FALSE, type |-> t, params |-> <<>>]
Method(n, ps) == [name |-> n, method |-> TRUE, type |-> "int", params |-> ps]

\* The members of a class named c.
MembersOf(c) ==
  LET self == Param("self", c) IN
  {Attr("x", "int"), Attr("x", "object"), Attr("a", "int"),
   Method("x", <<self>>), Method("x", <<self, Param("y", "int")>>),
   Method("x", <<self, Param("y", "object")>>), Method("x", <<>>),
   Method("x", <<Param("self", "object")>>), Method("b", <<self>>),
   Method("__init__", <<self>>), Method("__init__", <<self, Param("x", "int")>>),
   Attr("__init__", "int")}
Few(c) == {Attr("x", "int"), Method("x", <<Param("self", c)>>),
           Method("__init__", <<Param("self", c), Param("y", "int")>>)}

Class(c, s, ms) == [name |-> c, super |-> s, members |-> ms]
Upto1(M) == {<<>>} \cup {<<m>> : m \in M}
Supers == {"object", "int", "a", "b", "c"}

One == {<<Class("a", s, ms)>> : s \in Supers,
          ms \in Upto1(MembersOf("a")) \cup (MembersOf("a") \X MembersOf("a"))}
Two == UNION {
  {<<Class("a", s, ms), Class(c, t, ns)>> :
     s \in {"object", "a", "b"}, t \in {"object", "int", "a", "b"},
     ms \in Upto1(MembersOf("a") \ {Attr("a", "int")}),
     ns \in Upto1(MembersOf(c)) \cup {<<k, m>> : k \in Few(c), m \in Few(c)}} :
  c \in {"a", "b"}}
Three == UNION {
  {<<Class("a", s, ms), Class(c, t, ns), Class("c", u, os)>> :
     s \in {"object", "a", "b"}, t \in {"object", "a", "c"}, u \in {"object", "a", "b"},
     ms \in Upto1(Few("a")), ns \in Upto1({Attr("x", "int")}),
     os \in Upto1(Few("c"))} : c \in {"a", "b"}}

MCPrograms == One \cup Two \cup Three
=============================================================================
