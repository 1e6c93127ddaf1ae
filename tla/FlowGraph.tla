------------------------------ MODULE FlowGraph ------------------------------
(***************************************************************************)
(* The builder of control flow graphs (Analysis/CFG.cpp).  It visits the   *)
(* statements of a function from the last to the first and fills blocks    *)
(* from their ends: an expression is appended before its operands.  `block'*)
(* and `succ' are the members Block and Succ of the builder, `todo' is the *)
(* C++ call stack: what the visitors under way have still to do.           *)
(*                                                                         *)
(* A body is a tree given as functions from its nodes, which are numbers.  *)
(* The kids of a node are its expressions: operands from left to right,    *)
(* callee and arguments, value and targets of an assignment, iterable and  *)
(* target of a for, condition, then and else of a conditional.             *)
(***************************************************************************)
EXTENDS Integers, Sequences

CONSTANT Bodies   \* records: kind, kids, then and else of the nodes, and top,
                  \* the statements of the function

Logical == {"and", "or"}
Strict == {"leaf", "unary", "binary", "index", "member", "list", "call"}
Expressions == Strict \cup Logical \cup {"conditional"}
Statements == {"assign", "expr", "if", "while", "for", "return"}

IsBody(b) ==
  LET Nodes == 1 .. Len(b.kind)
      Exprs == {i \in Nodes : b.kind[i] \in Expressions}
      Stmts == {i \in Nodes : b.kind[i] \in Statements} IN
  /\ b.kind \in Seq(Expressions \cup Statements)
  /\ b.kids \in [Nodes -> Seq(Exprs)] /\ b.top \in Seq(Stmts)
  /\ b.then \in [Nodes -> Seq(Stmts)] /\ b.else \in [Nodes -> Seq(Stmts)]
  /\ \A i \in Nodes :
       CASE b.kind[i] \in Logical \cup {"for"} -> Len(b.kids[i]) = 2
         [] b.kind[i] = "conditional" -> Len(b.kids[i]) = 3
         [] b.kind[i] \in {"if", "while", "expr"} -> Len(b.kids[i]) = 1
         [] b.kind[i] = "assign" -> Len(b.kids[i]) > 0
         [] OTHER -> TRUE

Elements(s) == {s[i] : i \in 1 .. Len(s)}
Distinct(s) == \A i, j \in 1 .. Len(s) : s[i] = s[j] => i = j
Below(b, n) == b.kids[n] \o b.then[n] \o b.else[n]

\* Every node is in one place: at the top, or once below one other node.
IsTree(b) ==
  LET Nodes == 1 .. Len(b.kind) IN
  /\ Distinct(b.top)
  /\ \A n \in Nodes : /\ Distinct(Below(b, n))
                      /\ Elements(Below(b, n)) \cap Elements(b.top) = {}
  /\ \A m, n \in Nodes : m # n => Elements(Below(b, m)) \cap Elements(Below(b, n)) = {}

ASSUME BodiesAssumption == \A b \in Bodies : IsBody(b) /\ IsTree(b)

VARIABLES
  body,      \* the function's statements
  left,      \* how many of them are still to be visited
  blocks,    \* the blocks: elements from the last to the first, terminator (0 if
             \* none) and successors, for a condition the one for true first
  block,     \* the block being filled, 0 if there is none
  succ,      \* the block to come after a new one
  entry,
  todo

vars == <<body, left, blocks, block, succ, entry, todo>>

\* The first block is the exit, and until the end also the entry.
Exit == 1
Kind(n) == body.kind[n]
Kid(n, i) == body.kids[n][i]

\* A call to continue: what to do, for which node, and what it holds in its
\* locals: a terminator and blocks.
Call(do, n, term, x, y, z) ==
  [do |-> do, node |-> n, term |-> term, x |-> x, y |-> y, z |-> z]
Task(do, n, x, y) == Call(do, n, 0, x, y, Exit)
Visit(n) == Task("visit", n, Exit, Exit)
Visits(s) == [i \in 1 .. Len(s) |-> Visit(s[i])]
Reversed(s) == [i \in 1 .. Len(s) |-> Visit(s[Len(s) + 1 - i])]

Init ==
  /\ body \in Bodies /\ left = Len(body.top)
  /\ blocks = <<[elems |-> <<>>, term |-> 0, succs |-> <<>>]>>
  /\ block = 0 /\ succ = Exit /\ entry = Exit /\ todo = <<>>

-----------------------------------------------------------------------------
(* Blocks and calls.                                                       *)

NewId == Len(blocks) + 1
NewBlock(term, succs) ==
  Append(blocks, [elems |-> <<>>, term |-> term, succs |-> succs])

\* The block a statement goes on with, or the exit of the function.
Following == IF block = 0 THEN Exit ELSE block

\* autoCreateBlock and appendExpr or appendStmt.
Home == IF block = 0 THEN NewId ELSE block
Created == IF block = 0 THEN NewBlock(0, <<succ>>) ELSE blocks
Placed(n) == [Created EXCEPT ![Home].elems = Append(@, n)]

\* The innermost call is the one for `do'; other calls take its place.
At(do) == todo # <<>> /\ todo[1].do = do
AtVisit(kinds) == At("visit") /\ Kind(todo[1].node) \in kinds
Replace(calls) == todo' = calls \o Tail(todo)

-----------------------------------------------------------------------------
(* The statements of the function, from the last to the first.             *)

Statement ==
  /\ todo = <<>> /\ left > 0
  /\ LET s == body.top[left] IN
     todo' = <<Visit(s), Task("statement", s, Exit, Exit)>>
  /\ left' = left - 1
  /\ UNCHANGED <<body, blocks, block, succ, entry>>

\* What comes before a while may not be appended to its header.
EndStatement ==
  /\ At("statement") /\ Replace(<<>>)
  /\ succ' = block
  /\ block' = IF Kind(todo[1].node) = "while" THEN 0 ELSE block
  /\ UNCHANGED <<body, left, blocks, entry>>

EndFunction ==
  /\ todo = <<>> /\ left = 0 /\ entry = Exit
  /\ blocks' = NewBlock(0, <<succ>>) /\ entry' = NewId
  /\ UNCHANGED <<body, left, block, succ, todo>>

-----------------------------------------------------------------------------
(* Expressions and assignments.                                            *)

\* The order in which the visitors call each other, the reverse of execution.
Operands(n) ==
  CASE Kind(n) = "call" -> Visits(body.kids[n])
    [] Kind(n) = "assign" -> Visits(Append(Tail(body.kids[n]), Kid(n, 1)))
    [] OTHER -> Reversed(body.kids[n])

VisitStrict ==
  /\ AtVisit(Strict \cup {"assign"})
  /\ LET n == todo[1].node IN blocks' = Placed(n) /\ Replace(Operands(n))
  /\ block' = Home
  /\ UNCHANGED <<body, left, succ, entry>>

\* The statement itself is no element.
VisitExprStmt ==
  /\ AtVisit({"expr"})
  /\ blocks' = Created /\ block' = Home
  /\ Replace(<<Visit(Kid(todo[1].node, 1))>>)
  /\ UNCHANGED <<body, left, succ, entry>>

\* visitIfExpr: a block for each branch and one for the condition.
VisitConditional ==
  /\ AtVisit({"conditional"})
  /\ LET n == todo[1].node  placed == Placed(n) IN
     /\ blocks' = Append(placed, [elems |-> <<>>, term |-> 0, succs |-> <<Home>>])
     /\ block' = Len(placed) + 1 /\ succ' = Home
     /\ Replace(<<Visit(Kid(n, 3)), Task("otherwise", n, Home, Exit)>>)
  /\ UNCHANGED <<body, left, entry>>

EndOtherwise ==
  /\ At("otherwise")
  /\ LET t == todo[1] IN
     /\ blocks' = NewBlock(0, <<t.x>>) /\ block' = NewId /\ succ' = t.x
     /\ Replace(<<Visit(Kid(t.node, 2)), Task("condition", t.node, block, Exit)>>)
  /\ UNCHANGED <<body, left, entry>>

VisitCondition ==
  /\ At("condition")
  /\ LET t == todo[1] IN
     /\ blocks' = NewBlock(t.node, <<block, t.x>>) /\ block' = NewId
     /\ succ' = block /\ Replace(<<Visit(Kid(t.node, 1))>>)
  /\ UNCHANGED <<body, left, entry>>

-----------------------------------------------------------------------------
(* And, or: visitLogicalExpr(B, Term, TrueBlock, FalseBlock).              *)

\* Mutant: the operands are visited as those of any other operator, too.
VisitLogicalTwice ==
  /\ AtVisit(Logical)
  /\ LET n == todo[1].node IN
     /\ blocks' = Placed(n) /\ block' = Home
     /\ Replace(<<Task("right", n, Home, Home)>> \o Reversed(body.kids[n]))
  /\ UNCHANGED <<body, left, succ, entry>>

VisitLogical ==
  /\ AtVisit(Logical)
  /\ LET n == todo[1].node IN
     /\ blocks' = Placed(n) /\ block' = Home
     /\ Replace(<<Task("right", n, Home, Home)>>)
  /\ UNCHANGED <<body, left, succ, entry>>

\* A right operand that is logical, too, is followed by the same blocks.
VisitRight ==
  /\ At("right")
  /\ LET t == todo[1]  r == Kid(t.node, 2) IN
     IF Kind(r) \in Logical
     THEN /\ Replace(<<Call("right", r, t.term, t.x, t.y, Exit),
                       Task("leftOfNested", t.node, t.x, t.y)>>)
          /\ UNCHANGED <<blocks, block>>
     ELSE /\ blocks' = NewBlock(t.term, IF t.term = 0 THEN <<t.x>> ELSE <<t.x, t.y>>)
          /\ block' = NewId
          /\ Replace(<<Visit(r), Call("left", t.node, 0, t.x, t.y, NewId)>>)
  /\ UNCHANGED <<body, left, succ, entry>>

\* A logical left operand: which of its outcomes leads to the right one is
\* decided by its own kind.
Left(n, true, false, rhs) ==
  LET l == Kid(n, 1) IN
  IF Kind(l) \in Logical
  THEN /\ Replace(<<IF Kind(l) = "and" THEN Call("right", l, n, rhs, false, Exit)
                    ELSE Call("right", l, n, true, rhs, Exit)>>)
       /\ UNCHANGED <<blocks, block>>
  ELSE /\ blocks' = NewBlock(n, IF Kind(n) = "and" THEN <<rhs, false>> ELSE <<true, rhs>>)
       /\ block' = NewId /\ Replace(<<Visit(l)>>)

VisitLeft ==
  /\ \/ At("left") /\ Left(todo[1].node, todo[1].x, todo[1].y, todo[1].z)
     \/ At("leftOfNested") /\ Left(todo[1].node, todo[1].x, todo[1].y, block)
  /\ UNCHANGED <<body, left, succ, entry>>

-----------------------------------------------------------------------------
(* Return, if, while and for.                                              *)

VisitReturn ==
  /\ AtVisit({"return"})
  /\ LET n == todo[1].node IN
     /\ blocks' = Append(blocks, [elems |-> <<n>>, term |-> 0, succs |-> <<Exit>>])
     /\ Replace(Reversed(body.kids[n]))
  /\ block' = NewId
  /\ UNCHANGED <<body, left, succ, entry>>

\* The then branch of n, to be followed by `join'.
BeginThen(n, join, else) ==
  /\ blocks' = NewBlock(0, <<join>>) /\ block' = NewId /\ succ' = join
  /\ Replace(Append(Reversed(body.then[n]), Task("endThen", n, else, Exit)))
  /\ UNCHANGED <<body, left, entry>>

VisitIf ==
  /\ AtVisit({"if"})
  /\ LET n == todo[1].node IN
     IF body.else[n] = <<>> THEN BeginThen(n, Following, Following)
     ELSE /\ blocks' = NewBlock(0, <<Following>>) /\ block' = NewId
          /\ succ' = Following
          /\ Replace(Append(Reversed(body.else[n]), Task("endElse", n, Following, Exit)))
          /\ UNCHANGED <<body, left, entry>>

\* Mutant: the then branch falls into the else branch.
EndElseFalls == At("endElse") /\ BeginThen(todo[1].node, block, block)

EndElse == At("endElse") /\ BeginThen(todo[1].node, todo[1].x, block)

EndThen ==
  /\ At("endThen")
  /\ LET t == todo[1] IN
     /\ blocks' = NewBlock(t.node, <<block, t.x>>) /\ block' = NewId
     /\ Replace(<<Visit(Kid(t.node, 1))>>)
  /\ UNCHANGED <<body, left, succ, entry>>

\* A loop begins with the latch, the last block of its body.
VisitLoop ==
  /\ AtVisit({"while", "for"})
  /\ LET n == todo[1].node IN
     Replace(Append(Reversed(body.then[n]), Task("header", n, NewId, Following)))
  /\ blocks' = NewBlock(0, <<>>) /\ block' = NewId
  /\ UNCHANGED <<body, left, succ, entry>>

\* Mutant: the latch does not lead back to the header.
HeaderOpen ==
  /\ At("header")
  /\ LET t == todo[1] IN
     /\ blocks' = NewBlock(t.node, <<block, t.y>>)
     /\ Replace(<<Visit(Kid(t.node, 1)), Task("endLoop", t.node, Exit, Exit)>>)
  /\ block' = NewId
  /\ UNCHANGED <<body, left, succ, entry>>

Header ==
  /\ At("header")
  /\ LET t == todo[1] IN
     /\ blocks' = [NewBlock(t.node, <<block, t.y>>) EXCEPT
                     ![t.x].succs = Append(@, NewId)]
     /\ Replace(<<Visit(Kid(t.node, 1)), Task("endLoop", t.node, Exit, Exit)>>)
  /\ block' = NewId
  /\ UNCHANGED <<body, left, succ, entry>>

\* The target of a for goes to a block of its own.
EndLoop ==
  /\ At("endLoop") /\ succ' = block
  /\ IF Kind(todo[1].node) = "while"
     THEN UNCHANGED <<blocks, block>> /\ Replace(<<>>)
     ELSE /\ blocks' = NewBlock(0, <<block>>) /\ block' = NewId
          /\ Replace(<<Visit(Kid(todo[1].node, 2))>>)
  /\ UNCHANGED <<body, left, entry>>

Next ==
  \/ Statement \/ EndStatement \/ EndFunction
  \/ VisitStrict \/ VisitExprStmt
  \/ VisitConditional \/ EndOtherwise \/ VisitCondition
  \/ VisitLogical \/ VisitRight \/ VisitLeft
  \/ VisitReturn \/ VisitIf \/ EndElse \/ EndThen
  \/ VisitLoop \/ Header \/ EndLoop

Spec == Init /\ [][Next]_vars

Done == entry # Exit

-----------------------------------------------------------------------------
(* Properties.                                                             *)

Nodes == 1 .. Len(body.kind)
Ids == 1 .. Len(blocks)

\* What a call may be doing with a node of which kind.
KindsFor == [visit |-> Expressions \cup Statements, statement |-> Statements,
             otherwise |-> {"conditional"}, condition |-> {"conditional"},
             right |-> Logical, left |-> Logical, leftOfNested |-> Logical,
             endThen |-> {"if"}, endElse |-> {"if"},
             header |-> {"while", "for"}, endLoop |-> {"while", "for"}]

Blocks == [elems : Seq(Nodes), term : Nodes \cup {0}, succs : Seq(Ids)]
Calls == [do : DOMAIN KindsFor, node : Nodes, term : Nodes \cup {0},
          x : Ids, y : Ids, z : Ids]

TypeOK ==
  /\ IsBody(body) /\ left \in 0 .. Len(body.top)
  /\ blocks \in Seq(Blocks)
  /\ block \in Ids \cup {0} /\ succ \in Ids /\ entry \in Ids
  /\ todo \in Seq(Calls)

CallsFit ==
  \A i \in 1 .. Len(todo) : /\ Kind(todo[i].node) \in KindsFor[todo[i].do]
                            /\ todo[i].do = "statement" => i = Len(todo)

\* No visitor goes on without a block: it is missing only between statements.
BlockWhenNeeded == block = 0 /\ todo # <<>> => todo[1].do = "visit"

\* The latches of the loops whose body is being visited, each open once.
OpenLoops == {i \in 1 .. Len(todo) : todo[i].do = "header"}
Latch(b) == \E i \in OpenLoops : todo[i].x = b
LatchesDiffer == \A i, j \in OpenLoops : todo[i].x = todo[j].x => i = j

\* The exit is empty and nothing follows it.  Every other block has two
\* successors if it ends in a condition and one if not, but for the latch of a
\* loop whose header is still to come: it has none.
EdgesMatchTerminators ==
  /\ Len(blocks) > 0 /\ block # Exit
  /\ blocks[Exit] = [elems |-> <<>>, term |-> 0, succs |-> <<>>]
  /\ \A b \in Ids \ {Exit} :
       IF Latch(b) THEN blocks[b].term = 0 /\ blocks[b].succs = <<>>
       ELSE Len(blocks[b].succs) = IF blocks[b].term = 0 THEN 1 ELSE 2
  /\ ~Latch(Exit)

\* The graph under construction is well-formed, whatever mixture of statements
\* and nested expressions moves the builder's two pointers about: the visitors
\* find a block when they need one, no latch is closed twice or left open, and
\* edges match terminators.
GraphInv ==
  TypeOK /\ CallsFit /\ BlockWhenNeeded /\ LatchesDiffer /\ EdgesMatchTerminators

Placements(n) == {p \in Ids \X Nodes : LET elems == blocks[p[1]].elems IN
                    p[2] <= Len(elems) /\ elems[p[2]] = n}

\* The printer keeps one position for each node (CFGPrinter.cpp:29), so a node
\* may be placed only once.
PlacedOnce ==
  \A n \in Nodes : \A p, q \in Placements(n) : p = q

\* What a call under way will still visit, apart from what is below it.
Owed(c) ==
  LET kids == Elements(body.kids[c.node])  first == {Kid(c.node, 1)} IN
  CASE c.do = "visit" -> {c.node}
    [] c.do \in {"otherwise", "right"} -> first \cup {Kid(c.node, 2)}
    [] c.do \in {"condition", "left", "leftOfNested", "endThen"} -> first
    [] c.do = "endElse" -> Elements(body.then[c.node]) \cup first
    [] c.do = "header" -> kids
    [] c.do = "endLoop" -> kids \ first
    [] OTHER -> {}

Waiting == {body.top[i] : i \in 1 .. left}

\* The visitors have been to the nodes V, and nobody is going there again.
VisitedOnce(V) ==
  /\ \A b \in Ids : Elements(blocks[b].elems) \subseteq V
  /\ Waiting \cap V = {}
  /\ \A i \in 1 .. Len(todo) : Owed(todo[i]) \cap (V \cup Waiting) = {}
  /\ \A i, j \in 1 .. Len(todo) : i # j => Owed(todo[i]) \cap Owed(todo[j]) = {}
  /\ \A n \in Nodes \ V :
       /\ Elements(Below(body, n)) \cap V = {}
       /\ \A i \in 1 .. Len(todo) : Elements(Below(body, n)) \cap Owed(todo[i]) = {}

\* The inductive invariant behind the places of nodes.
PlacesInv ==
  GraphInv /\ IsTree(body) /\ PlacedOnce /\ \E V \in SUBSET Nodes : VisitedOnce(V)
=============================================================================
