------------------------------ MODULE FlowPaths ------------------------------
(***************************************************************************)
(* What a control flow graph is for: a run through the blocks is a run of  *)
(* the function.  Both are replayed with the same outcomes of conditions,  *)
(* and compared by the nodes they evaluate, in order.  The graph also      *)
(* settles what Sema decides from the text alone, whether the end of a     *)
(* function can be reached without a return (checkReturnMissing).          *)
(*                                                                         *)
(* The operators are recursive; only TLC evaluates this module.            *)
(***************************************************************************)
EXTENDS FlowGraph, FiniteSets

CONSTANT MaxDecisions   \* bound: outcomes of conditions in a run

\* A run: nodes evaluated, outcomes to come, and how it ended, if it did:
\* "fell" off the end, "returned", or "cut" when the outcomes are used up.
Run(trace, choices, end) == [trace |-> trace, choices |-> choices, end |-> end]
Start(choices) == Run(<<>>, choices, "")
Going(r) == r.end = ""
Emit(r, n) == IF Going(r) THEN [r EXCEPT !.trace = Append(@, n)] ELSE r
End(r, how) == IF Going(r) THEN [r EXCEPT !.end = how] ELSE r
Outcome(r) == Going(r) /\ r.choices # <<>> /\ r.choices[1]
Decide(r) == IF ~Going(r) THEN r
             ELSE IF r.choices = <<>> THEN End(r, "cut")
             ELSE [r EXCEPT !.choices = Tail(@)]

Choices == [1 .. MaxDecisions -> BOOLEAN]

-----------------------------------------------------------------------------
(* A run of the function, by the meaning of the language: operands from    *)
(* left to right, a callee, and with it the object of a method, before the *)
(* arguments.  A callee that is a name is read after them: the names of    *)
(* functions and classes are never assigned, so nobody can observe it.     *)
(* The nodes that the graph has no element for (if, while, for, expression *)
(* statements and the logical operators within others) leave no trace.     *)

RECURSIVE Evaluate(_, _), EvaluateAll(_, _), Short(_, _), Branch(_, _)

EvaluateAll(s, r) == IF s = <<>> THEN r ELSE EvaluateAll(Tail(s), Evaluate(s[1], r))

\* A condition: where it goes on is the outcome `yes'.
Branch(n, r) ==
  IF Kind(n) \notin Logical
  THEN LET v == Evaluate(n, r) IN [run |-> Decide(v), yes |-> Outcome(v)]
  ELSE LET l == Branch(Kid(n, 1), r) IN
       IF l.yes = (Kind(n) = "and") THEN Branch(Kid(n, 2), l.run) ELSE l

\* The value of a logical operator: only the left operand is a condition.
Short(n, r) ==
  LET l == Branch(Kid(n, 1), r)  right == Kid(n, 2) IN
  IF l.yes # (Kind(n) = "and") THEN l.run
  ELSE IF Kind(right) \in Logical THEN Short(right, l.run)
  ELSE Evaluate(right, l.run)

Evaluate(n, r) ==
  LET k == body.kids[n] IN
  CASE Kind(n) \in Logical -> Emit(Short(n, r), n)
    [] Kind(n) = "conditional" ->
         LET c == Evaluate(k[1], r) IN
         Emit(Evaluate(IF Outcome(c) THEN k[2] ELSE k[3], Decide(c)), n)
    [] Kind(n) = "call" /\ Kind(k[1]) = "leaf" ->
         Emit(Evaluate(k[1], EvaluateAll(Tail(k), r)), n)
    [] OTHER -> Emit(EvaluateAll(k, r), n)

RECURSIVE Execute(_, _), Repeat(_, _)

ExecuteOne(n, r) ==
  LET k == body.kids[n] IN
  CASE Kind(n) = "assign" -> Emit(EvaluateAll(k, r), n)
    [] Kind(n) = "expr"   -> Evaluate(k[1], r)
    [] Kind(n) = "return" -> End(Emit(EvaluateAll(k, r), n), "returned")
    [] Kind(n) = "if"     ->
         LET c == Evaluate(k[1], r) IN
         Execute(IF Outcome(c) THEN body.then[n] ELSE body.else[n], Decide(c))
    [] Kind(n) = "while"  -> Repeat(n, r)
    [] Kind(n) = "for"    -> Repeat(n, Evaluate(k[1], r))

\* The elements of a for are assigned to its target one by one.
Repeat(n, r) ==
  LET c == IF Kind(n) = "while" THEN Evaluate(Kid(n, 1), r) ELSE r
      d == Decide(c)
      e == IF Kind(n) = "for" THEN Evaluate(Kid(n, 2), d) ELSE d IN
  IF Outcome(c) /\ Going(d) THEN Repeat(n, Execute(body.then[n], e)) ELSE d

Execute(s, r) ==
  IF s = <<>> \/ ~Going(r) THEN r ELSE Execute(Tail(s), ExecuteOne(s[1], r))

RunOfBody(c) == End(Execute(body.top, Start(c)), "fell")

-----------------------------------------------------------------------------
(* A run through the graph.                                                *)

RECURSIVE EmitAll(_, _), Walk(_, _)
EmitAll(s, r) == IF s = <<>> THEN r
                 ELSE EmitAll(SubSeq(s, 1, Len(s) - 1), Emit(r, s[Len(s)]))

Returns(b) == \E i \in 1 .. Len(blocks[b].elems) :
                Kind(blocks[b].elems[i]) = "return"

Walk(b, r) ==
  LET e == EmitAll(blocks[b].elems, r)  s == blocks[b].succs IN
  CASE ~Going(e) -> e
    [] Len(s) = 0 -> End(e, "fell")
    [] Len(s) = 1 -> Walk(s[1], IF Returns(b) THEN End(e, "returned") ELSE e)
    [] OTHER -> Walk(IF Outcome(e) THEN s[1] ELSE s[2], Decide(e))

RunOfGraph(c) == Walk(entry, Start(c))

Agree(c) == LET b == RunOfBody(c)  g == RunOfGraph(c) IN
            b.trace = g.trace /\ b.end = g.end

-----------------------------------------------------------------------------
(* What the builder gets wrong.                                            *)

Has(k) == \E n \in Nodes : Kind(n) = k

RECURSIVE Straight(_)
\* An expression that needs no block of its own.
Straight(n) == /\ Kind(n) \in Strict
               /\ \A i \in 1 .. Len(body.kids[n]) : Straight(Kid(n, i))

\* Arguments, and targets of an assignment, are visited from first to last and
\* therefore evaluated from last to first.
WrongOrder(n) == Kind(n) \in {"call", "assign"} /\ Len(body.kids[n]) > 2

\* A callee is visited before the arguments and therefore evaluated after them, and
\* so is the object of a method (CFG.cpp:277, 341).
WrongCallee(n) ==
  Kind(n) = "call" /\ Len(body.kids[n]) > 1 /\ Kind(Kid(n, 1)) # "leaf"

\* The outcome that leads from a logical left operand to the right one is that
\* of the operand's operator instead of its parent's (CFG.cpp:237).
WrongOperator(n) ==
  Kind(n) \in Logical /\ Kind(Kid(n, 1)) \in Logical \ {Kind(n)}

\* The block recorded for a right operand, or for the condition of a loop, is the
\* one it ends in, not the one it begins with (CFG.cpp:219, 185).
WrongBegin(n) ==
  \/ Kind(n) \in Logical /\ Kind(Kid(n, 2)) \notin Logical /\ ~Straight(Kid(n, 2))
  \/ Kind(n) = "while" /\ ~Straight(Kid(n, 1))

\* Block is null before a while of the function, and the exit is taken for it
\* (CFG.cpp:91, 139); in an inner body it is the header, and what is before the
\* loop is appended to it.
WrongBefore(s, inner) ==
  \E i \in 1 .. Len(s) - 1 :
    /\ Kind(s[i + 1]) = "while"
    /\ Kind(s[i]) \in (IF inner THEN {"assign", "expr"} ELSE {"if", "while", "for"})

\* A for evaluates its iterable in every iteration and its target before the
\* first (CFG.cpp:131, 135).
Misbuilt ==
  \/ Has("for") \/ WrongBefore(body.top, FALSE)
  \/ \E n \in Nodes : \/ WrongOrder(n) \/ WrongCallee(n)
                      \/ WrongOperator(n) \/ WrongBegin(n)
                      \/ WrongBefore(body.then[n], TRUE)
                      \/ WrongBefore(body.else[n], TRUE)

-----------------------------------------------------------------------------
(* Returns.                                                                *)

\* Mutant: one branch of an if is enough.
RECURSIVE ReturnInEither(_)
ReturnInEither(s) ==
  /\ s # <<>>
  /\ CASE Kind(s[1]) = "return" -> TRUE
       [] Kind(s[1]) = "if" -> \/ ReturnInEither(body.then[s[1]])
                               \/ ReturnInEither(body.else[s[1]])
       [] OTHER -> ReturnInEither(Tail(s))

\* The first if statement decides, whatever follows it.
RECURSIVE checkReturnMissing(_)
checkReturnMissing(s) ==
  /\ s # <<>>
  /\ CASE Kind(s[1]) = "return" -> TRUE
       [] Kind(s[1]) = "if" -> /\ checkReturnMissing(body.then[s[1]])
                               /\ checkReturnMissing(body.else[s[1]])
       [] OTHER -> checkReturnMissing(Tail(s))

SuccessorsOf(B) == UNION {{blocks[b].succs[i] : i \in 1 .. Len(blocks[b].succs)} : b \in B}

RECURSIVE Closure(_)
Closure(B) == LET C == B \cup SuccessorsOf(B) IN IF C = B THEN B ELSE Closure(C)
Reachable == Closure({entry})

\* The graph reaches the exit by something else than a return.
FallsOff == \E b \in Reachable : Exit \in SuccessorsOf({b}) /\ ~Returns(b)

-----------------------------------------------------------------------------
(* Properties.                                                             *)

\* The runs of the graph are those of the function, with operands, statements
\* and branches in order, for every body that has none of the shapes above; a
\* body that has one, and no return that could hide it, differs in some run.
RunsAsWritten ==
  Done => /\ ~Misbuilt => \A c \in Choices : Agree(c)
          /\ Misbuilt /\ ~Has("return") => \E c \in Choices : ~Agree(c)

\* What Sema accepts as returning on all paths does so on all paths of the
\* graph: the two components agree about the function's end.
AcceptedBodiesReturn ==
  Done /\ ~Misbuilt /\ checkReturnMissing(body.top) => ~FallsOff

\* "All paths in this function/method must have a return statement"
\* (DiagnosticKinds.def:47) is said only of functions with a path that has none.
FallOffReported ==
  Done /\ ~Misbuilt /\ ~checkReturnMissing(body.top) => FallsOff
=============================================================================
