----------------------------- MODULE MCFlowGraph -----------------------------
(***************************************************************************)
(* Bodies of up to three statements, with loops and branches nested twice, *)
(* over one-node expressions; and one statement of each kind over          *)
(* expressions nested twice.                                               *)
(***************************************************************************)
EXTENDS FlowPaths

\* Two forests side by side.
Shift(s, d) == [i \in 1 .. Len(s) |-> s[i] + d]
Beside(f, g) ==
  LET d == Len(f.kind)
      Moved(t) == [i \in 1 .. Len(t) |-> Shift(t[i], d)] IN
  [kind |-> f.kind \o g.kind, kids |-> f.kids \o Moved(g.kids),
   then |-> f.then \o Moved(g.then), else |-> f.else \o Moved(g.else),
   top |-> f.top \o Shift(g.top, d)]

None == [kind |-> <<>>, kids |-> <<>>, then |-> <<>>, else |-> <<>>, top |-> <<>>]

\* A node of kind k over expressions e and branches t and s.
Over(k, e, t, s) ==
  LET f == Beside(Beside(e, t), s)
      a == Len(e.top)  b == a + Len(t.top) IN
  [kind |-> Append(f.kind, k), kids |-> Append(f.kids, SubSeq(f.top, 1, a)),
   then |-> Append(f.then, SubSeq(f.top, a + 1, b)),
   else |-> Append(f.else, SubSeq(f.top, b + 1, Len(f.top))),
   top |-> <<Len(f.kind) + 1>>]

Of(k, e) == Over(k, e, None, None)
Both(F, G) == {Beside(f, g) : f \in F, g \in G}
UpTo2(F) == {None} \cup F \cup Both(F, F)

Leaf == Of("leaf", None)
Two == Beside(Leaf, Leaf)
Three == Beside(Two, Leaf)

Step == Of("expr", Leaf)
Back == Of("return", None)
If(t, s) == Over("if", Leaf, t, s)
While(t) == Over("while", Leaf, t, None)
For(t) == Over("for", Two, t, None)

Short1 == {None, Step, Back, Beside(Step, Step), Beside(Step, Back)}
Once == {Step, Back} \cup {If(t, s) : t, s \in Short1}
          \cup {While(t) : t \in Short1} \cup {For(t) : t \in Short1}
Few == {Step, Back, If(Step, Back), If(Step, None), While(Step), For(Step)}
Twice == UNION {{While(t), For(t), If(t, None), If(None, t), If(t, Back)} : t \in UpTo2(Few)}

StatementBodies ==
  UpTo2(Once) \cup Both(Both(Few, Few), Few)
    \cup UNION {{t, Beside(t, Back), Beside(Step, t)} : t \in Twice}

Simple == {Leaf, Of("binary", Two), Of("call", Two), Of("call", Three),
           Of("and", Two), Of("or", Two), Of("conditional", Three)}
Pairs == Both(Simple, Simple)
Ands == {Of(k, p) : k \in Logical, p \in Both({Leaf} \cup {Of(j, Two) : j \in Logical},
                                              {Leaf} \cup {Of(j, Two) : j \in Logical})}
Complex == {Of(k, p) : k \in {"binary", "list"} \cup Logical, p \in Pairs}
             \cup {Of("conditional", Beside(p, Leaf)) : p \in Pairs}
             \cup {Of("conditional", Beside(Leaf, p)) : p \in Pairs}
             \cup {Of(k, p) : k \in Logical, p \in Both(Ands, {Leaf}) \cup Both({Leaf}, Ands)}

\* Calls of what is no name: a member of a name or of a call, an element, a call, a
\* conditional; with no argument, a plain one, and one that is a call.
Member(e) == Of("member", e)
Called == Of("call", Leaf)
Callees == {Member(Leaf), Member(Called), Member(Of("conditional", Three)), Called,
            Of("call", Two), Of("index", Two), Of("conditional", Three)}
CallBodies == {Of("call", e) : e \in Callees}
           \cup {Of("call", p) : p \in Both(Callees, {Leaf, Called})}
           \cup {Of("call", Beside(Leaf, e)) : e \in Callees}

ExpressionBodies ==
  UNION {{Of("expr", e), Of("assign", Beside(e, Leaf)), Of("assign", Beside(Leaf, e)),
          Of("return", e), Over("if", e, Step, None), Over("while", e, Step, None),
          Over("for", Beside(e, Leaf), Step, None)} : e \in Simple \cup Complex \cup CallBodies}
    \cup {Of("assign", Three), Of("expr", Of("list", None))}

MCBodies == StatementBodies \cup ExpressionBodies
=============================================================================
