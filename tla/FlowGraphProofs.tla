--------------------------- MODULE FlowGraphProofs ---------------------------
(***************************************************************************)
(* The builder's graph is well-formed, and every node has one place in it, *)
(* for every body.                                                         *)
(***************************************************************************)
EXTENDS FlowGraph, SequenceTheorems, TLAPS

\* Calls that neither wait for the end of a statement nor hold a latch, with
\* blocks up to number m.
PlainCalls(m) ==
  {c \in [do : DOMAIN KindsFor \ {"statement", "header"}, node : Nodes,
          term : Nodes \cup {0}, x : 1 .. m, y : 1 .. m, z : 1 .. m] :
     Kind(c.node) \in KindsFor[c.do]}

\* The same with calls that hold a latch.
FitCalls(m) ==
  {c \in [do : DOMAIN KindsFor \ {"statement"}, node : Nodes,
          term : Nodes \cup {0}, x : 1 .. m, y : 1 .. m, z : 1 .. m] :
     Kind(c.node) \in KindsFor[c.do]}

Exprs == {i \in Nodes : Kind(i) \in Expressions}
Stmts == {i \in Nodes : Kind(i) \in Statements}

LEMMA BodyFacts ==
  ASSUME IsBody(body)
  PROVE  /\ Len(body.kind) \in Nat
         /\ \A n \in Nodes : Kind(n) \in Expressions \cup Statements
         /\ body.kids \in [Nodes -> Seq(Exprs)] /\ body.top \in Seq(Stmts)
         /\ body.then \in [Nodes -> Seq(Stmts)] /\ body.else \in [Nodes -> Seq(Stmts)]
         /\ \A n \in Nodes : Kind(n) \in Logical \cup {"for"} => Len(body.kids[n]) = 2
         /\ \A n \in Nodes : Kind(n) = "conditional" => Len(body.kids[n]) = 3
         /\ \A n \in Nodes : Kind(n) \in {"if", "while", "expr"} => Len(body.kids[n]) = 1
         /\ \A n \in Nodes : Kind(n) = "assign" => Len(body.kids[n]) > 0
<1> Exprs \in SUBSET Nodes /\ Stmts \in SUBSET Nodes
  BY DEF Exprs, Stmts
<1>1. body.kind \in Seq(Expressions \cup Statements) /\ Len(body.kind) \in Nat
  BY DEF IsBody
<1>2. \A n \in Nodes : Kind(n) \in Expressions \cup Statements
  BY <1>1 DEF Nodes, Kind
<1>3. /\ body.kids \in [Nodes -> Seq(Exprs)] /\ body.top \in Seq(Stmts)
      /\ body.then \in [Nodes -> Seq(Stmts)] /\ body.else \in [Nodes -> Seq(Stmts)]
  BY DEF IsBody, Nodes, Exprs, Stmts, Kind
<1>4. ASSUME NEW n \in Nodes
      PROVE  /\ Kind(n) \in Logical \cup {"for"} => Len(body.kids[n]) = 2
             /\ Kind(n) = "conditional" => Len(body.kids[n]) = 3
             /\ Kind(n) \in {"if", "while", "expr"} => Len(body.kids[n]) = 1
             /\ Kind(n) = "assign" => Len(body.kids[n]) > 0
  BY <1>4 DEF IsBody, Nodes, Kind, Logical
<1> QED BY <1>1, <1>2, <1>3, <1>4

LEMMA PlainVisit ==
  ASSUME NEW m \in Nat \ {0}, NEW n \in Nodes, IsBody(body)
  PROVE  Visit(n) \in PlainCalls(m)
BY BodyFacts DEF Visit, Task, Call, PlainCalls, KindsFor, Exit

LEMMA PlainVisits ==
  ASSUME NEW m \in Nat \ {0}, IsBody(body), NEW s \in Seq(Nodes)
  PROVE  Visits(s) \in Seq(PlainCalls(m)) /\ Reversed(s) \in Seq(PlainCalls(m))
<1>1. Len(s) \in Nat /\ \A i \in 1 .. Len(s) : s[i] \in Nodes
  OBVIOUS
<1>2. \A i \in 1 .. Len(s) : Visit(s[i]) \in PlainCalls(m)
  BY <1>1, PlainVisit
<1>3. \A i \in 1 .. Len(s) : Visit(s[Len(s) + 1 - i]) \in PlainCalls(m)
  BY <1>1, PlainVisit
<1>4. Visits(s) \in [1 .. Len(s) -> PlainCalls(m)]
  BY <1>2 DEF Visits
<1>5. Reversed(s) \in [1 .. Len(s) -> PlainCalls(m)]
  BY <1>3 DEF Reversed
<1> QED BY <1>1, <1>4, <1>5, SeqDef

\* What is left of the calls under way after the first one.
LEMMA RestOfCalls ==
  ASSUME TypeOK, todo # <<>>, NEW S, NEW calls \in Seq(S), Replace(calls)
  PROVE  /\ Len(todo') = Len(calls) + Len(todo) - 1
         /\ Len(calls) \in Nat /\ Len(todo) \in Nat \ {0}
         /\ \A i \in 1 .. Len(calls) : todo'[i] = calls[i]
         /\ \A i \in 2 .. Len(todo) : todo'[i + Len(calls) - 1] = todo[i]
         /\ todo' \in Seq(S \cup Calls)
<1>1. todo \in Seq(Calls)
  BY DEF TypeOK
<1>2. /\ Tail(todo) \in Seq(Calls) /\ Len(Tail(todo)) = Len(todo) - 1
      /\ \A i \in 1 .. Len(Tail(todo)) : Tail(todo)[i] = todo[i + 1]
  BY <1>1, HeadTailProperties
<1>3. calls \in Seq(S \cup Calls) /\ Tail(todo) \in Seq(S \cup Calls)
  BY <1>2, SeqMonotonic
<1>4. /\ todo' \in Seq(S \cup Calls) /\ Len(todo') = Len(calls) + Len(Tail(todo))
      /\ \A i \in 1 .. Len(calls) + Len(Tail(todo)) :
           todo'[i] = IF i <= Len(calls) THEN calls[i] ELSE Tail(todo)[i - Len(calls)]
  BY <1>3, ConcatProperties DEF Replace
<1>5. Len(calls) \in Nat /\ Len(todo) \in Nat \ {0}
  BY <1>1, EmptySeq
<1>6. ASSUME NEW i \in 2 .. Len(todo)
      PROVE  todo'[i + Len(calls) - 1] = todo[i]
  <2>1. i + Len(calls) - 1 \in 1 .. Len(calls) + Len(Tail(todo)) /\ i - 1 \in 1 .. Len(Tail(todo))
    BY <1>2, <1>5
  <2>2. todo'[i + Len(calls) - 1] = Tail(todo)[i - 1]
    BY <1>4, <1>5, <2>1
  <2> QED BY <1>2, <2>1, <2>2
<1> QED BY <1>2, <1>4, <1>5, <1>6

\* In bs the blocks there were have kept their edges, and new ones have as many
\* as they need.
BlocksUpTo(m) == [elems : Seq(Nodes), term : Nodes \cup {0}, succs : Seq(1 .. m)]

Extends(bs) ==
  /\ bs \in Seq(BlocksUpTo(Len(bs))) /\ Len(bs) >= Len(blocks)
  /\ \A b \in Ids : /\ bs[b].term = blocks[b].term
                    /\ bs[b].succs = blocks[b].succs
                    /\ b = Exit => bs[b] = blocks[b]
  /\ \A b \in 1 .. Len(bs) \ Ids :
       Len(bs[b].succs) = IF bs[b].term = 0 THEN 1 ELSE 2

LEMMA Monotonic ==
  ASSUME TypeOK, body' = body, Len(blocks') \in Nat, Len(blocks') >= Len(blocks)
  PROVE  /\ Ids \subseteq Ids' /\ Nodes' = Nodes /\ Calls \subseteq Calls'
         /\ FitCalls(Len(blocks')) \subseteq Calls'
         /\ \A n \in Nodes : Kind(n)' = Kind(n)
<1>1. Len(blocks) \in Nat
  BY DEF TypeOK
<1>2. Ids \subseteq Ids' /\ Nodes' = Nodes
  BY <1>1 DEF Ids, Nodes
<1> QED BY <1>1, <1>2 DEF Calls, FitCalls, Kind, KindsFor, Ids

\* New calls in the place of the first one.
LEMMA CallStep ==
  ASSUME GraphInv, body' = body, left' \in 0 .. Len(body.top),
         blocks' \in Seq(BlocksUpTo(Len(blocks'))), Len(blocks') >= Len(blocks),
         todo # <<>>, NEW calls \in Seq(FitCalls(Len(blocks'))), Replace(calls),
         block' \in Ids' \/ (block' = 0 /\ todo' = <<>>),
         succ' \in Ids', entry' \in Ids'
  PROVE  /\ TypeOK' /\ CallsFit' /\ BlockWhenNeeded'
         /\ Len(todo') = Len(calls) + Len(todo) - 1
         /\ Len(calls) \in Nat /\ Len(todo) \in Nat \ {0}
         /\ \A i \in 1 .. Len(calls) : todo'[i] = calls[i]
         /\ \A i \in 2 .. Len(todo) : todo'[i + Len(calls) - 1] = todo[i]
         /\ \A i \in 1 .. Len(todo') :
              \/ i \in 1 .. Len(calls)
              \/ i - Len(calls) + 1 \in 2 .. Len(todo) /\ todo'[i] = todo[i - Len(calls) + 1]
<1> USE DEF GraphInv
<1>1. Len(blocks) \in Nat /\ Len(blocks') \in Nat /\ blocks \in Seq(Blocks) /\ todo \in Seq(Calls)
  BY DEF TypeOK
<1>2. /\ Ids \subseteq Ids' /\ Nodes' = Nodes /\ Calls \subseteq Calls'
      /\ FitCalls(Len(blocks')) \subseteq Calls'
      /\ \A n \in Nodes : Kind(n)' = Kind(n)
  BY <1>1, Monotonic
<1>3. /\ Len(todo') = Len(calls) + Len(todo) - 1
      /\ Len(calls) \in Nat /\ Len(todo) \in Nat \ {0}
      /\ \A i \in 1 .. Len(calls) : todo'[i] = calls[i]
      /\ \A i \in 2 .. Len(todo) : todo'[i + Len(calls) - 1] = todo[i]
      /\ todo' \in Seq(FitCalls(Len(blocks')) \cup Calls)
  BY RestOfCalls
<1>4. \A i \in 1 .. Len(calls) : /\ calls[i].do # "statement"
                                 /\ calls[i].node \in Nodes
                                 /\ Kind(calls[i].node) \in KindsFor[calls[i].do]
  <2>1. \A i \in 1 .. Len(calls) : calls[i] \in FitCalls(Len(blocks'))
    BY ElementOfSeq
  <2> QED BY <2>1 DEF FitCalls
<1>5. \A i \in 1 .. Len(todo') :
         \/ i \in 1 .. Len(calls)
         \/ i - Len(calls) + 1 \in 2 .. Len(todo) /\ todo'[i] = todo[i - Len(calls) + 1]
  <2> SUFFICES ASSUME NEW i \in 1 .. Len(todo'), i \notin 1 .. Len(calls)
               PROVE  /\ i - Len(calls) + 1 \in 2 .. Len(todo)
                      /\ todo'[i] = todo[i - Len(calls) + 1]
    OBVIOUS
  <2>1. i - Len(calls) + 1 \in 2 .. Len(todo)
    BY <1>3
  <2>2. (i - Len(calls) + 1) + Len(calls) - 1 = i
    BY <1>3
  <2> QED BY <1>3, <2>1, <2>2
<1>6. TypeOK'
  <2>1. todo' \in Seq(Calls')
    BY <1>2, <1>3, SeqMonotonic
  <2>2. IsBody(body)' /\ left' \in 0 .. Len(body'.top)
    BY DEF TypeOK, IsBody
  <2>3. block' \in Ids' \cup {0}
    OBVIOUS
  <2>4. blocks' \in Seq(Blocks')
    BY <1>2 DEF BlocksUpTo, Blocks, Ids
  <2> QED BY <2>1, <2>2, <2>3, <2>4 DEF TypeOK
<1>7. CallsFit'
  <2> SUFFICES ASSUME NEW i \in 1 .. Len(todo')
               PROVE  /\ Kind(todo'[i].node) \in KindsFor[todo'[i].do]
                      /\ todo'[i].do = "statement" => i = Len(todo')
    BY DEF CallsFit, KindsFor, Kind
  <2>1. CASE i \in 1 .. Len(calls)
    BY <1>3, <1>4, <2>1
  <2>2. CASE i - Len(calls) + 1 \in 2 .. Len(todo) /\ todo'[i] = todo[i - Len(calls) + 1]
    <3> DEFINE j == i - Len(calls) + 1
    <3>1. j \in 2 .. Len(todo) /\ todo'[i] = todo[j]
      BY <2>2
    <3>2. Kind(todo[j].node) \in KindsFor[todo[j].do] /\ (todo[j].do = "statement" => j = Len(todo))
      BY <1>3, <3>1 DEF CallsFit
    <3>3. j = Len(todo) => i = Len(todo')
      BY <1>3
    <3> QED BY <3>1, <3>2, <3>3
  <2> QED BY <1>5, <2>1, <2>2
<1>8. BlockWhenNeeded'
  <2>1. 0 \notin Ids'
    BY <1>1 DEF Ids
  <2> QED BY <2>1 DEF BlockWhenNeeded
<1> QED BY <1>3, <1>5, <1>6, <1>7, <1>8

LEMMA PlainStep ==
  ASSUME GraphInv, Extends(blocks'), body' = body, left' \in 0 .. Len(body.top),
         todo # <<>>, todo[1].do # "header",
         NEW calls \in Seq(PlainCalls(Len(blocks'))), Replace(calls),
         block' \in Ids' \ {Exit} \/ (block' = 0 /\ todo' = <<>>),
         succ' \in Ids', entry' \in Ids'
  PROVE  GraphInv'
<1> USE DEF GraphInv
<1>1. Len(blocks) \in Nat /\ Len(blocks') \in Nat /\ blocks \in Seq(Blocks) /\ todo \in Seq(Calls)
  BY DEF TypeOK, Extends
<1>2. PlainCalls(Len(blocks')) \subseteq FitCalls(Len(blocks'))
  BY DEF PlainCalls, FitCalls
<1>3. /\ TypeOK' /\ CallsFit' /\ BlockWhenNeeded'
      /\ Len(todo') = Len(calls) + Len(todo) - 1
      /\ Len(calls) \in Nat /\ Len(todo) \in Nat \ {0}
      /\ \A i \in 1 .. Len(calls) : todo'[i] = calls[i]
      /\ \A i \in 2 .. Len(todo) : todo'[i + Len(calls) - 1] = todo[i]
      /\ \A i \in 1 .. Len(todo') :
           \/ i \in 1 .. Len(calls)
           \/ i - Len(calls) + 1 \in 2 .. Len(todo) /\ todo'[i] = todo[i - Len(calls) + 1]
  <2>1. calls \in Seq(FitCalls(Len(blocks')))
    BY <1>2, SeqMonotonic
  <2>2. blocks' \in Seq(BlocksUpTo(Len(blocks'))) /\ Len(blocks') >= Len(blocks)
    BY DEF Extends
  <2>3. block' \in Ids' \/ (block' = 0 /\ todo' = <<>>)
    OBVIOUS
  <2> QED BY <2>1, <2>2, <2>3, CallStep
<1>4. \A i \in 1 .. Len(calls) : calls[i].do # "header"
  <2>1. \A i \in 1 .. Len(calls) : calls[i] \in PlainCalls(Len(blocks'))
    BY ElementOfSeq
  <2> QED BY <2>1 DEF PlainCalls
<1>9. ASSUME NEW i \in OpenLoops'
      PROVE  i - Len(calls) + 1 \in OpenLoops /\ todo'[i] = todo[i - Len(calls) + 1]
  <2>1. i \in 1 .. Len(todo') /\ todo'[i].do = "header"
    BY DEF OpenLoops
  <2>2. i \notin 1 .. Len(calls)
    BY <1>3, <1>4, <2>1
  <2>3. i - Len(calls) + 1 \in 2 .. Len(todo) /\ todo'[i] = todo[i - Len(calls) + 1]
    BY <1>3, <2>1, <2>2
  <2> QED BY <1>3, <2>1, <2>3 DEF OpenLoops
<1>10. LatchesDiffer'
  <2> SUFFICES ASSUME NEW i \in OpenLoops', NEW j \in OpenLoops', todo'[i].x = todo'[j].x
               PROVE  i = j
    BY DEF LatchesDiffer
  <2>1. i - Len(calls) + 1 = j - Len(calls) + 1
    BY <1>9 DEF LatchesDiffer
  <2> QED BY <1>3, <2>1 DEF OpenLoops
<1>11. ASSUME NEW b PROVE Latch(b)' <=> Latch(b)
  <2>1. Latch(b)' => Latch(b)
    BY <1>9 DEF Latch
  <2>2. ASSUME NEW i \in OpenLoops, todo[i].x = b PROVE Latch(b)'
    <3>1. i \in 2 .. Len(todo) /\ todo[i].do = "header"
      BY <1>3 DEF OpenLoops
    <3>2. /\ i + Len(calls) - 1 \in 1 .. Len(todo')
          /\ todo'[i + Len(calls) - 1] = todo[i]
      BY <1>3, <3>1
    <3> QED BY <2>2, <3>1, <3>2 DEF Latch, OpenLoops
  <2> QED BY <2>1, <2>2 DEF Latch
<1>12. EdgesMatchTerminators'
  <2>1. Len(blocks') > 0 /\ Exit \in Ids
    BY <1>1 DEF EdgesMatchTerminators, Extends, Exit, Ids
  <2>2. block' # Exit
    BY DEF Exit
  <2>3. blocks'[Exit] = [elems |-> <<>>, term |-> 0, succs |-> <<>>]
    BY <2>1 DEF EdgesMatchTerminators, Extends
  <2>4. ASSUME NEW b, Latch(b) PROVE b \in Ids
    <3>1. \A i \in 1 .. Len(todo) : todo[i] \in Calls
      BY <1>1, ElementOfSeq
    <3> QED BY <2>4, <3>1 DEF Latch, OpenLoops, Calls
  <2>5. ASSUME NEW b \in Ids' \ {Exit}
        PROVE  IF Latch(b) THEN blocks'[b].term = 0 /\ blocks'[b].succs = <<>>
               ELSE Len(blocks'[b].succs) = IF blocks'[b].term = 0 THEN 1 ELSE 2
    <3>1. CASE b \in Ids
      BY <3>1 DEF EdgesMatchTerminators, Extends
    <3>2. CASE b \notin Ids
      BY <2>4, <3>2 DEF Extends, Ids
    <3> QED BY <3>1, <3>2
  <2>6. ~Latch(Exit)'
    BY <1>11 DEF EdgesMatchTerminators
  <2> QED BY <1>11, <2>1, <2>2, <2>3, <2>5, <2>6 DEF EdgesMatchTerminators, Exit
<1> QED BY <1>3, <1>10, <1>12

-----------------------------------------------------------------------------
(* The ways in which a visitor changes the blocks.                         *)

LEMMA ExtendsSame == ASSUME GraphInv PROVE Extends(blocks)
BY DEF GraphInv, TypeOK, Extends, Blocks, BlocksUpTo, Ids

LEMMA ExtendsAppend ==
  ASSUME TypeOK, NEW bs, Extends(bs), NEW elems \in Seq(Nodes),
         NEW term \in Nodes \cup {0}, NEW succs \in Seq(1 .. Len(bs) + 1),
         Len(succs) = IF term = 0 THEN 1 ELSE 2
  PROVE  LET r == [elems |-> elems, term |-> term, succs |-> succs] IN
         /\ Extends(Append(bs, r))
         /\ Len(Append(bs, r)) = Len(bs) + 1 /\ Len(bs) \in Nat
<1> DEFINE r == [elems |-> elems, term |-> term, succs |-> succs]
           m == Len(bs)
<1>1. bs \in Seq(BlocksUpTo(m)) /\ m \in Nat /\ Len(blocks) \in Nat /\ m >= Len(blocks)
  BY DEF Extends, TypeOK
<1>2. BlocksUpTo(m) \subseteq BlocksUpTo(m + 1)
  <2>1. Seq(1 .. m) \subseteq Seq(1 .. m + 1)
    BY <1>1, SeqMonotonic
  <2> QED BY <2>1 DEF BlocksUpTo
<1>3. r \in BlocksUpTo(m + 1) /\ r.term = term /\ r.succs = succs
  BY DEF BlocksUpTo
<1>4. bs \in Seq(BlocksUpTo(m + 1))
  BY <1>1, <1>2, SeqMonotonic
<1> DEFINE cs == Append(bs, r)
<1> HIDE DEF r
<1>5. /\ cs \in Seq(BlocksUpTo(m + 1)) /\ Len(cs) = m + 1
      /\ \A i \in 1 .. m : cs[i] = bs[i]
      /\ cs[m + 1] = r
  BY <1>1, <1>3, <1>4, AppendProperties
<1> HIDE DEF cs
<1>6. ASSUME NEW b \in (1 .. m + 1) \ Ids
      PROVE  Len(cs[b].succs) = IF cs[b].term = 0 THEN 1 ELSE 2
  <2>1. CASE b \in 1 .. m
    BY <1>5, <2>1 DEF Extends
  <2>2. CASE b = m + 1
    BY <1>3, <1>5, <2>2
  <2> QED BY <1>1, <2>1, <2>2
<1>7. Ids \subseteq 1 .. m
  BY <1>1 DEF Ids
<1>8. ASSUME NEW b \in Ids
      PROVE  /\ cs[b].term = blocks[b].term /\ cs[b].succs = blocks[b].succs
             /\ b = Exit => cs[b] = blocks[b]
  BY <1>5, <1>7 DEF Extends
<1>9. Extends(cs)
  <2> HIDE DEF m
  <2> QED BY <1>1, <1>5, <1>6, <1>8 DEF Extends
<1> QED BY <1>1, <1>5, <1>9 DEF r, cs

LEMMA ExtendsCreated ==
  ASSUME GraphInv
  PROVE  /\ Extends(Created) /\ Home \in 1 .. Len(Created) /\ Home # Exit
         /\ Len(Created) = IF block = 0 THEN Len(blocks) + 1 ELSE Len(blocks)
<1>1. TypeOK /\ Len(blocks) \in Nat \ {0} /\ block # Exit /\ block \in Ids \cup {0} /\ succ \in Ids
  BY DEF GraphInv, TypeOK, EdgesMatchTerminators
<1>2. CASE block = 0
  <2>1. <<succ>> \in Seq(1 .. Len(blocks) + 1) /\ Len(<<succ>>) = 1 /\ <<>> \in Seq(Nodes)
    BY <1>1 DEF Ids
  <2>2. /\ Extends(NewBlock(0, <<succ>>))
        /\ Len(NewBlock(0, <<succ>>)) = Len(blocks) + 1
    BY <1>1, <2>1, ExtendsSame, ExtendsAppend DEF NewBlock
  <2> QED BY <1>1, <1>2, <2>2 DEF Created, Home, NewId, Exit
<1>3. CASE block # 0
  BY <1>1, <1>3, ExtendsSame DEF Created, Home, Ids
<1> QED BY <1>2, <1>3

LEMMA ExtendsPlaced ==
  ASSUME GraphInv, NEW n \in Nodes
  PROVE  /\ Extends(Placed(n)) /\ Home \in 1 .. Len(Placed(n)) /\ Home # Exit
         /\ Len(Placed(n)) \in Nat
<1> DEFINE m == Len(Created)
           r == [Created[Home] EXCEPT !.elems = Append(@, n)]
<1>1. /\ Extends(Created) /\ Home \in 1 .. m /\ Home # Exit
      /\ Created \in Seq(BlocksUpTo(m)) /\ m \in Nat
  BY ExtendsCreated DEF Extends
<1>2. Created[Home] \in BlocksUpTo(m)
  BY <1>1, ElementOfSeq
<1>3. r \in BlocksUpTo(m) /\ r.term = Created[Home].term /\ r.succs = Created[Home].succs
  <2> DEFINE old == Created[Home]
  <2>1. old \in [elems : Seq(Nodes), term : Nodes \cup {0}, succs : Seq(1 .. m)]
    BY <1>2 DEF BlocksUpTo
  <2>2. Append(old.elems, n) \in Seq(Nodes)
    BY <2>1, AppendProperties
  <2> HIDE DEF old, m
  <2>3. /\ [old EXCEPT !.elems = Append(@, n)] \in BlocksUpTo(m)
        /\ [old EXCEPT !.elems = Append(@, n)].term = old.term
        /\ [old EXCEPT !.elems = Append(@, n)].succs = old.succs
    BY <2>1, <2>2 DEF BlocksUpTo
  <2> QED BY <2>3 DEF old
<1>4. Placed(n) = [Created EXCEPT ![Home] = r]
  BY DEF Placed
<1> HIDE DEF r
<1>5. /\ Placed(n) \in Seq(BlocksUpTo(m)) /\ Len(Placed(n)) = m
      /\ \A j \in 1 .. m : Placed(n)[j] = IF j = Home THEN r ELSE Created[j]
  BY <1>1, <1>3, <1>4, ExceptSeq
<1>6. \A j \in 1 .. m : /\ Placed(n)[j].term = Created[j].term
                        /\ Placed(n)[j].succs = Created[j].succs
                        /\ j = Exit => Placed(n)[j] = Created[j]
  BY <1>1, <1>3, <1>5
<1>7. Ids \subseteq 1 .. m /\ m >= Len(blocks)
  BY <1>1 DEF Extends, Ids, GraphInv, TypeOK
<1>8. Extends(Placed(n))
  BY <1>1, <1>5, <1>6, <1>7 DEF Extends
<1> QED BY <1>1, <1>5, <1>8

\* What a visitor finds when it goes on.
LEMMA AtCall ==
  ASSUME GraphInv, todo # <<>>
  PROVE  /\ todo[1] \in Calls /\ todo[1].node \in Nodes
         /\ Kind(todo[1].node) \in KindsFor[todo[1].do]
         /\ todo[1].do # "visit" => block \in Ids \ {Exit}
         /\ Len(blocks) \in Nat \ {0} /\ IsBody(body) /\ TypeOK
         /\ left \in 0 .. Len(body.top) /\ succ \in Ids /\ entry \in Ids
<1>1. /\ TypeOK /\ Len(todo) \in Nat \ {0}
      /\ \A i \in 1 .. Len(todo) : todo[i] \in Calls
  BY EmptySeq, ElementOfSeq DEF GraphInv, TypeOK
<1>2. Len(blocks) \in Nat \ {0} /\ block # Exit
  BY <1>1 DEF GraphInv, EdgesMatchTerminators, TypeOK
<1>3. todo[1] \in Calls /\ Kind(todo[1].node) \in KindsFor[todo[1].do]
  BY <1>1 DEF GraphInv, CallsFit
<1>4. todo[1].do # "visit" => block # 0
  BY DEF GraphInv, BlockWhenNeeded
<1> QED BY <1>1, <1>2, <1>3, <1>4 DEF Calls, TypeOK

LEMMA Kids ==
  ASSUME IsBody(body), NEW n \in Nodes
  PROVE  /\ body.kids[n] \in Seq(Nodes) /\ body.then[n] \in Seq(Nodes)
         /\ body.else[n] \in Seq(Nodes)
         /\ Kind(n) \in Logical \cup {"for", "conditional"} =>
              Kid(n, 1) \in Nodes /\ Kid(n, 2) \in Nodes
         /\ Kind(n) = "conditional" => Kid(n, 3) \in Nodes
         /\ Kind(n) \in {"if", "while", "expr"} => Kid(n, 1) \in Nodes
         /\ Kind(n) = "assign" => Kid(n, 1) \in Nodes /\ Tail(body.kids[n]) \in Seq(Nodes)
<1>1. Seq(Exprs) \subseteq Seq(Nodes) /\ Seq(Stmts) \subseteq Seq(Nodes)
  BY SeqMonotonic DEF Exprs, Stmts
<1>2. /\ body.kids[n] \in Seq(Nodes) /\ body.then[n] \in Seq(Nodes)
      /\ body.else[n] \in Seq(Nodes)
  BY <1>1, BodyFacts
<1>3. \A i \in 1 .. Len(body.kids[n]) : Kid(n, i) \in Nodes
  BY <1>2, ElementOfSeq DEF Kid
<1>4. Kind(n) = "assign" => body.kids[n] # <<>>
  BY BodyFacts
<1>5. Kind(n) = "assign" => Tail(body.kids[n]) \in Seq(Nodes)
  BY <1>2, <1>4, HeadTailProperties
<1>6. /\ Kind(n) \in Logical \cup {"for"} => Len(body.kids[n]) = 2
      /\ Kind(n) = "conditional" => Len(body.kids[n]) = 3
      /\ Kind(n) \in {"if", "while", "expr"} => Len(body.kids[n]) = 1
      /\ Kind(n) = "assign" => Len(body.kids[n]) > 0
  BY BodyFacts
<1>7. Len(body.kids[n]) \in Nat
  BY <1>2
<1>8. /\ Len(body.kids[n]) >= 1 => Kid(n, 1) \in Nodes
      /\ Len(body.kids[n]) >= 2 => Kid(n, 2) \in Nodes
      /\ Len(body.kids[n]) >= 3 => Kid(n, 3) \in Nodes
  BY <1>3, <1>7
<1>9. /\ Kind(n) \in Logical \cup {"for", "conditional"} => Len(body.kids[n]) >= 2
      /\ Kind(n) \in {"if", "while", "expr", "assign"} => Len(body.kids[n]) >= 1
  <2> DEFINE k == Kind(n)  len == Len(body.kids[n])
  <2>1. /\ len \in Nat
        /\ k \in Logical \cup {"for"} => len = 2
        /\ k = "conditional" => len = 3
        /\ k \in {"if", "while", "expr"} => len = 1
        /\ k = "assign" => len > 0
    BY <1>6, <1>7
  <2> HIDE DEF k, len
  <2>2. /\ k \in Logical \cup {"for", "conditional"} => len >= 2
        /\ k \in {"if", "while", "expr", "assign"} => len >= 1
    BY <2>1
  <2> QED BY <2>2 DEF k, len
<1>10. Kind(n) \in Logical \cup {"for", "conditional"} => Kid(n, 1) \in Nodes /\ Kid(n, 2) \in Nodes
  BY <1>7, <1>8, <1>9
<1>11. Kind(n) = "conditional" => Kid(n, 3) \in Nodes
  BY <1>6, <1>8
<1>12. Kind(n) \in {"if", "while", "expr", "assign"} => Kid(n, 1) \in Nodes
  BY <1>8, <1>9
<1> QED BY <1>2, <1>5, <1>10, <1>11, <1>12

-----------------------------------------------------------------------------
(* One lemma for each group of actions.                                    *)

LEMMA StrictStep ==
  ASSUME GraphInv, VisitStrict
  PROVE  GraphInv'
<1> DEFINE n == todo[1].node
<1> USE DEF VisitStrict, AtVisit, At
<1>1. /\ todo # <<>> /\ n \in Nodes /\ Kind(n) \in Strict \cup {"assign"} /\ IsBody(body)
      /\ left \in 0 .. Len(body.top) /\ succ \in Ids /\ entry \in Ids
  BY AtCall
<1>2. Extends(blocks') /\ Home \in 1 .. Len(blocks') /\ Home # Exit /\ Len(blocks') \in Nat
  BY <1>1, ExtendsPlaced
<1>3. Operands(n) \in Seq(PlainCalls(Len(blocks')))
  <2>1. Kind(n) = "assign" => Append(Tail(body.kids[n]), Kid(n, 1)) \in Seq(Nodes)
    BY <1>1, Kids
  <2>2. Len(blocks') \in Nat \ {0} /\ body.kids[n] \in Seq(Nodes)
    BY <1>1, <1>2, Kids
  <2>3. /\ Visits(body.kids[n]) \in Seq(PlainCalls(Len(blocks')))
        /\ Reversed(body.kids[n]) \in Seq(PlainCalls(Len(blocks')))
    BY <1>1, <2>2, PlainVisits
  <2>4. Kind(n) = "assign" => Visits(Append(Tail(body.kids[n]), Kid(n, 1)))
                                \in Seq(PlainCalls(Len(blocks')))
    BY <1>1, <2>1, <2>2, PlainVisits
  <2> QED BY <2>3, <2>4 DEF Operands
<1>4. Ids \subseteq Ids' /\ Ids' = 1 .. Len(blocks')
  BY <1>2 DEF Extends, Ids, GraphInv, TypeOK
<1> QED BY <1>1, <1>2, <1>3, <1>4, PlainStep

LEMMA ExprStmtStep ==
  ASSUME GraphInv, VisitExprStmt
  PROVE  GraphInv'
<1> DEFINE n == todo[1].node  calls == <<Visit(Kid(n, 1))>>
<1> USE DEF VisitExprStmt, AtVisit, At
<1>1. /\ todo # <<>> /\ n \in Nodes /\ Kind(n) = "expr" /\ IsBody(body)
      /\ left \in 0 .. Len(body.top) /\ succ \in Ids /\ entry \in Ids
      /\ Len(blocks) \in Nat
  BY AtCall
<1>2. Extends(blocks') /\ Home \in 1 .. Len(blocks') /\ Home # Exit /\ Len(blocks') \in Nat
  BY <1>1, ExtendsCreated
<1>3. calls \in Seq(PlainCalls(Len(blocks')))
  BY <1>1, <1>2, Kids, PlainVisit
<1>4. Ids \subseteq Ids' /\ Ids' = 1 .. Len(blocks')
  BY <1>1, <1>2 DEF Extends, Ids
<1> QED BY <1>1, <1>2, <1>3, <1>4, PlainStep

\* A new block becomes the current one; nothing else changes.
LEMMA NewBlockStep ==
  ASSUME GraphInv, todo # <<>>, todo[1].do # "header", body' = body, left' = left,
         entry' = entry, block' = NewId,
         NEW elems \in Seq(Nodes), NEW term \in Nodes \cup {0},
         NEW succs \in Seq(Ids), Len(succs) = IF term = 0 THEN 1 ELSE 2,
         blocks' = Append(blocks, [elems |-> elems, term |-> term, succs |-> succs]),
         succ' \in Ids \cup {NewId},
         NEW calls \in Seq(PlainCalls(Len(blocks) + 1)), Replace(calls)
  PROVE  GraphInv'
<1>1. TypeOK /\ Len(blocks) \in Nat \ {0} /\ left \in 0 .. Len(body.top) /\ entry \in Ids
  BY AtCall
<1>2. succs \in Seq(1 .. Len(blocks) + 1)
  BY <1>1, SeqMonotonic DEF Ids
<1>3. Extends(blocks') /\ Len(blocks') = Len(blocks) + 1
  BY <1>1, <1>2, ExtendsSame, ExtendsAppend
<1>4. Ids \subseteq Ids' /\ Ids' = 1 .. Len(blocks') /\ NewId \in Ids' \ {Exit}
  BY <1>1, <1>3 DEF Ids, NewId, Exit
<1> QED BY <1>1, <1>3, <1>4, PlainStep

LEMMA ConditionalStep ==
  ASSUME GraphInv, VisitConditional
  PROVE  GraphInv'
<1> DEFINE n == todo[1].node
           m == Len(Placed(n)) + 1
           calls == <<Visit(Kid(n, 3)), Task("otherwise", n, Home, Exit)>>
<1> USE DEF VisitConditional, AtVisit, At
<1>1. /\ todo # <<>> /\ n \in Nodes /\ Kind(n) = "conditional" /\ IsBody(body) /\ TypeOK
      /\ left \in 0 .. Len(body.top) /\ succ \in Ids /\ entry \in Ids
      /\ Len(blocks) \in Nat
  BY AtCall
<1>2. /\ Extends(Placed(n)) /\ Home \in 1 .. Len(Placed(n)) /\ Home # Exit
      /\ Len(Placed(n)) \in Nat
  BY <1>1, ExtendsPlaced
<1>3. <<Home>> \in Seq(1 .. m) /\ <<>> \in Seq(Nodes) /\ Len(<<Home>>) = 1
  BY <1>2
<1>4. Extends(blocks') /\ Len(blocks') = m
  BY <1>1, <1>2, <1>3, ExtendsAppend
<1>5. m \in Nat \ {0} /\ Home \in 1 .. m /\ Exit \in 1 .. m /\ m # Exit
  BY <1>2 DEF Exit
<1>6. calls \in Seq(PlainCalls(m))
  <2>1. Visit(Kid(n, 3)) \in PlainCalls(m)
    BY <1>1, <1>5, Kids, PlainVisit
  <2>2. Task("otherwise", n, Home, Exit) \in PlainCalls(m)
    BY <1>1, <1>5 DEF Task, Call, PlainCalls, KindsFor
  <2> QED BY <2>1, <2>2
<1>7. Ids \subseteq Ids' /\ Ids' = 1 .. m
  BY <1>1, <1>4 DEF Extends, Ids
<1>8. calls \in Seq(PlainCalls(Len(blocks')))
  BY <1>4, <1>6
<1>9. block' \in Ids' \ {Exit} /\ succ' \in Ids' /\ entry' \in Ids'
  BY <1>1, <1>5, <1>7
<1> QED BY <1>1, <1>4, <1>8, <1>9, PlainStep

LEMMA BranchStep ==
  ASSUME GraphInv, EndOtherwise \/ VisitCondition \/ EndThen
  PROVE  GraphInv'
<1> DEFINE t == todo[1]  m == Len(blocks) + 1
<1>1. /\ todo # <<>> /\ t.do \in {"otherwise", "condition", "endThen"}
      /\ t.node \in Nodes /\ t.x \in Ids /\ Kind(t.node) \in KindsFor[t.do]
      /\ IsBody(body) /\ block \in Ids /\ Len(blocks) \in Nat \ {0} /\ succ \in Ids
  BY AtCall DEF EndOtherwise, VisitCondition, EndThen, At, Calls
<1>2. m \in Nat \ {0} /\ Exit \in 1 .. m /\ block \in 1 .. m /\ <<>> \in Seq(Nodes)
  BY <1>1 DEF Exit, Ids
<1>3. CASE EndOtherwise
  <2>1. Kind(t.node) = "conditional"
    BY <1>1, <1>3 DEF EndOtherwise, At, KindsFor
  <2>2. /\ Visit(Kid(t.node, 2)) \in PlainCalls(m)
        /\ Task("condition", t.node, block, Exit) \in PlainCalls(m)
    BY <1>1, <1>2, <2>1, Kids, PlainVisit DEF Task, Call, PlainCalls, KindsFor
  <2>3. <<Visit(Kid(t.node, 2)), Task("condition", t.node, block, Exit)>> \in Seq(PlainCalls(m))
    BY <2>2
  <2>4. <<t.x>> \in Seq(Ids) /\ Len(<<t.x>>) = 1
    BY <1>1
  <2> QED BY <1>1, <1>2, <1>3, <2>3, <2>4, NewBlockStep DEF EndOtherwise, At, NewBlock
<1>4. CASE VisitCondition \/ EndThen
  <2>1. Kind(t.node) \in {"conditional", "if"} /\ t.node # 0
    BY <1>1, <1>4 DEF VisitCondition, EndThen, At, KindsFor, Nodes
  <2>2. Visit(Kid(t.node, 1)) \in PlainCalls(m)
    BY <1>1, <1>2, <2>1, Kids, PlainVisit
  <2>3. <<Visit(Kid(t.node, 1))>> \in Seq(PlainCalls(m))
    BY <2>2
  <2>4. <<block, t.x>> \in Seq(Ids) /\ Len(<<block, t.x>>) = 2
    BY <1>1
  <2> QED BY <1>1, <1>2, <1>4, <2>1, <2>3, <2>4, NewBlockStep
          DEF VisitCondition, EndThen, At, NewBlock
<1> QED BY <1>3, <1>4

LEMMA LogicalStep ==
  ASSUME GraphInv, VisitLogical
  PROVE  GraphInv'
<1> DEFINE n == todo[1].node  calls == <<Task("right", n, Home, Home)>>
<1> USE DEF VisitLogical, AtVisit, At
<1>1. /\ todo # <<>> /\ n \in Nodes /\ Kind(n) \in Logical
      /\ left \in 0 .. Len(body.top) /\ succ \in Ids /\ entry \in Ids
      /\ Len(blocks) \in Nat
  BY AtCall
<1>2. Extends(blocks') /\ Home \in 1 .. Len(blocks') /\ Home # Exit /\ Len(blocks') \in Nat
  BY <1>1, ExtendsPlaced
<1>3. Exit \in 1 .. Len(blocks')
  BY <1>2 DEF Exit
<1>4. Task("right", n, Home, Home) \in PlainCalls(Len(blocks'))
  BY <1>1, <1>2, <1>3 DEF Task, Call, PlainCalls, KindsFor
<1>5. calls \in Seq(PlainCalls(Len(blocks')))
  BY <1>4
<1>6. Ids \subseteq Ids' /\ Ids' = 1 .. Len(blocks')
  BY <1>1, <1>2 DEF Extends, Ids
<1> QED BY <1>1, <1>2, <1>5, <1>6, PlainStep

\* Calls are replaced, the blocks stay as they are.
LEMMA SameBlocksStep ==
  ASSUME GraphInv, todo # <<>>, todo[1].do # "header", block # 0,
         body' = body, left' = left, blocks' = blocks, block' = block,
         entry' = entry, succ' \in Ids,
         NEW calls \in Seq(PlainCalls(Len(blocks))), Replace(calls)
  PROVE  GraphInv'
<1>1. /\ left \in 0 .. Len(body.top) /\ entry \in Ids /\ block \in Ids \ {Exit}
  BY DEF GraphInv, TypeOK, EdgesMatchTerminators
<1>2. Extends(blocks') /\ Ids' = Ids
  BY ExtendsSame DEF Ids
<1>3. calls \in Seq(PlainCalls(Len(blocks')))
  OBVIOUS
<1> QED BY <1>1, <1>2, <1>3, PlainStep

LEMMA RightStep ==
  ASSUME GraphInv, VisitRight
  PROVE  GraphInv'
<1> DEFINE t == todo[1]  r == Kid(t.node, 2)  m == Len(blocks) + 1
<1>1. /\ todo # <<>> /\ t.do = "right" /\ t.node \in Nodes /\ Kind(t.node) \in Logical
      /\ t.x \in Ids /\ t.y \in Ids /\ t.term \in Nodes \cup {0} /\ block \in Ids \ {Exit}
      /\ IsBody(body) /\ Len(blocks) \in Nat \ {0} /\ succ \in Ids /\ r \in Nodes
  BY AtCall, Kids DEF VisitRight, At, Calls, KindsFor
<1>2. CASE Kind(r) \in Logical
  <2>1. /\ Call("right", r, t.term, t.x, t.y, Exit) \in PlainCalls(Len(blocks))
        /\ Task("leftOfNested", t.node, t.x, t.y) \in PlainCalls(Len(blocks))
    BY <1>1, <1>2 DEF Task, Call, PlainCalls, KindsFor, Exit, Ids
  <2>2. <<Call("right", r, t.term, t.x, t.y, Exit), Task("leftOfNested", t.node, t.x, t.y)>>
          \in Seq(PlainCalls(Len(blocks)))
    BY <2>1
  <2>3. /\ Replace(<<Call("right", r, t.term, t.x, t.y, Exit),
                     Task("leftOfNested", t.node, t.x, t.y)>>)
        /\ UNCHANGED <<blocks, block, body, left, succ, entry>>
    BY <1>2 DEF VisitRight
  <2>4. block # 0
    BY <1>1 DEF Ids
  <2> QED BY <1>1, <2>2, <2>3, <2>4, SameBlocksStep
<1>3. CASE Kind(r) \notin Logical
  <2> DEFINE succs == IF t.term = 0 THEN <<t.x>> ELSE <<t.x, t.y>>
             calls == <<Visit(r), Call("left", t.node, 0, t.x, t.y, NewId)>>
  <2>1. succs \in Seq(Ids) /\ Len(succs) = IF t.term = 0 THEN 1 ELSE 2
    BY <1>1
  <2>2. m \in Nat \ {0} /\ Ids \subseteq 1 .. m /\ NewId \in 1 .. m /\ <<>> \in Seq(Nodes)
    BY <1>1 DEF Ids, NewId
  <2>3. /\ Visit(r) \in PlainCalls(m)
        /\ Call("left", t.node, 0, t.x, t.y, NewId) \in PlainCalls(m)
    BY <1>1, <2>2, PlainVisit DEF Call, PlainCalls, KindsFor
  <2>4. calls \in Seq(PlainCalls(m))
    BY <2>3
  <2>5. /\ blocks' = Append(blocks, [elems |-> <<>>, term |-> t.term, succs |-> succs])
        /\ block' = NewId /\ Replace(calls) /\ UNCHANGED <<body, left, succ, entry>>
    BY <1>3 DEF VisitRight, NewBlock
  <2> HIDE DEF succs, calls
  <2> QED BY <1>1, <2>1, <2>2, <2>4, <2>5, NewBlockStep
<1> QED BY <1>2, <1>3

LEMMA LeftStep ==
  ASSUME GraphInv, todo # <<>>, todo[1].do \in {"left", "leftOfNested"},
         NEW true \in Ids, NEW false \in Ids, NEW rhs \in Ids,
         Left(todo[1].node, true, false, rhs), UNCHANGED <<body, left, succ, entry>>
  PROVE  GraphInv'
<1> DEFINE n == todo[1].node  l == Kid(n, 1)  m == Len(blocks) + 1
<1>1. /\ n \in Nodes /\ Kind(n) \in Logical /\ block \in Ids \ {Exit} /\ IsBody(body)
      /\ Len(blocks) \in Nat \ {0} /\ succ \in Ids /\ l \in Nodes
  BY AtCall, Kids DEF KindsFor
<1>2. CASE Kind(l) \in Logical
  <2>1. /\ Call("right", l, n, rhs, false, Exit) \in PlainCalls(Len(blocks))
        /\ Call("right", l, n, true, rhs, Exit) \in PlainCalls(Len(blocks))
    BY <1>1, <1>2 DEF Call, PlainCalls, KindsFor, Exit, Ids
  <2>2. <<IF Kind(l) = "and" THEN Call("right", l, n, rhs, false, Exit)
          ELSE Call("right", l, n, true, rhs, Exit)>> \in Seq(PlainCalls(Len(blocks)))
    BY <2>1
  <2> QED BY <1>1, <1>2, <2>2, SameBlocksStep DEF Left, Exit, Ids
<1>3. CASE Kind(l) \notin Logical
  <2> DEFINE succs == IF Kind(n) = "and" THEN <<rhs, false>> ELSE <<true, rhs>>
  <2>1. succs \in Seq(Ids) /\ Len(succs) = 2 /\ n # 0
    BY <1>1 DEF Nodes
  <2>2. m \in Nat \ {0} /\ <<>> \in Seq(Nodes)
    BY <1>1
  <2>3. <<Visit(l)>> \in Seq(PlainCalls(m))
    BY <1>1, <2>2, PlainVisit
  <2>4. /\ blocks' = Append(blocks, [elems |-> <<>>, term |-> n, succs |-> succs])
        /\ block' = NewId /\ Replace(<<Visit(l)>>)
    BY <1>3 DEF Left, NewBlock
  <2> HIDE DEF succs
  <2> QED BY <1>1, <2>1, <2>2, <2>3, <2>4, NewBlockStep
<1> QED BY <1>2, <1>3

LEMMA ReturnStep ==
  ASSUME GraphInv, VisitReturn
  PROVE  GraphInv'
<1> DEFINE n == todo[1].node  m == Len(blocks) + 1
<1>1. /\ todo # <<>> /\ n \in Nodes /\ IsBody(body) /\ todo[1].do = "visit"
      /\ Len(blocks) \in Nat \ {0} /\ succ \in Ids
  BY AtCall DEF VisitReturn, AtVisit, At
<1>2. <<n>> \in Seq(Nodes) /\ <<Exit>> \in Seq(Ids) /\ Len(<<Exit>>) = 1 /\ m \in Nat \ {0}
  BY <1>1 DEF Exit, Ids
<1>3. Reversed(body.kids[n]) \in Seq(PlainCalls(m))
  BY <1>1, <1>2, Kids, PlainVisits
<1>4. /\ blocks' = Append(blocks, [elems |-> <<n>>, term |-> 0, succs |-> <<Exit>>])
      /\ block' = NewId /\ Replace(Reversed(body.kids[n]))
      /\ UNCHANGED <<body, left, succ, entry>>
  BY DEF VisitReturn
<1> QED BY <1>1, <1>2, <1>3, <1>4, NewBlockStep

LEMMA FollowingBlock ==
  ASSUME GraphInv
  PROVE  Following \in Ids /\ Len(blocks) \in Nat \ {0}
BY DEF GraphInv, TypeOK, EdgesMatchTerminators, Following, Exit, Ids

LEMMA ThenStep ==
  ASSUME GraphInv, todo # <<>>, todo[1].do # "header", NEW n \in Nodes, Kind(n) = "if",
         NEW join \in Ids, NEW else \in Ids, BeginThen(n, join, else)
  PROVE  GraphInv'
<1> DEFINE m == Len(blocks) + 1
           calls == Append(Reversed(body.then[n]), Task("endThen", n, else, Exit))
<1>1. IsBody(body) /\ Len(blocks) \in Nat \ {0}
  BY AtCall
<1>2. /\ <<join>> \in Seq(Ids) /\ Len(<<join>>) = 1 /\ <<>> \in Seq(Nodes)
      /\ m \in Nat \ {0} /\ Ids \subseteq 1 .. m /\ Exit \in 1 .. m
  BY <1>1 DEF Exit, Ids
<1>3. Reversed(body.then[n]) \in Seq(PlainCalls(m))
  BY <1>1, <1>2, Kids, PlainVisits
<1>4. Task("endThen", n, else, Exit) \in PlainCalls(m)
  BY <1>2 DEF Task, Call, PlainCalls, KindsFor
<1>5. calls \in Seq(PlainCalls(m))
  BY <1>3, <1>4
<1>6. /\ blocks' = Append(blocks, [elems |-> <<>>, term |-> 0, succs |-> <<join>>])
      /\ block' = NewId /\ Replace(calls) /\ succ' = join
      /\ UNCHANGED <<body, left, entry>>
  BY DEF BeginThen, NewBlock
<1> HIDE DEF calls
<1> QED BY <1>2, <1>5, <1>6, NewBlockStep

LEMMA IfStep ==
  ASSUME GraphInv, VisitIf \/ EndElse
  PROVE  GraphInv'
<1> DEFINE n == todo[1].node  m == Len(blocks) + 1
<1>1. /\ todo # <<>> /\ n \in Nodes /\ IsBody(body) /\ Kind(n) = "if"
      /\ todo[1].do \in {"visit", "endElse"} /\ todo[1].x \in Ids
      /\ todo[1].do = "endElse" => block \in Ids
  BY AtCall DEF VisitIf, EndElse, AtVisit, At, Calls, KindsFor
<1>2. Following \in Ids /\ Len(blocks) \in Nat \ {0}
  BY FollowingBlock
<1>3. CASE EndElse
  BY <1>1, <1>3, ThenStep DEF EndElse, At
<1>4. CASE VisitIf /\ body.else[n] = <<>>
  BY <1>1, <1>2, <1>4, ThenStep DEF VisitIf
<1>5. CASE VisitIf /\ body.else[n] # <<>>
  <2> DEFINE calls == Append(Reversed(body.else[n]), Task("endElse", n, Following, Exit))
  <2>1. /\ <<Following>> \in Seq(Ids) /\ Len(<<Following>>) = 1 /\ <<>> \in Seq(Nodes)
        /\ m \in Nat \ {0} /\ Following \in 1 .. m /\ Exit \in 1 .. m
    BY <1>2 DEF Exit, Ids
  <2>2. Reversed(body.else[n]) \in Seq(PlainCalls(m))
    BY <1>1, <2>1, Kids, PlainVisits
  <2>3. Task("endElse", n, Following, Exit) \in PlainCalls(m)
    BY <1>1, <2>1 DEF Task, Call, PlainCalls, KindsFor
  <2>4. calls \in Seq(PlainCalls(m))
    BY <2>2, <2>3
  <2>5. /\ blocks' = Append(blocks, [elems |-> <<>>, term |-> 0, succs |-> <<Following>>])
        /\ block' = NewId /\ Replace(calls) /\ succ' = Following
        /\ UNCHANGED <<body, left, entry>>
    BY <1>5 DEF VisitIf, NewBlock
  <2> HIDE DEF calls
  <2>6. todo[1].do # "header"
    BY <1>1
  <2> QED BY <1>1, <1>2, <2>1, <2>4, <2>5, <2>6, NewBlockStep
<1> QED BY <1>3, <1>4, <1>5

LEMMA EndLoopStep ==
  ASSUME GraphInv, EndLoop
  PROVE  GraphInv'
<1> DEFINE n == todo[1].node  m == Len(blocks) + 1
<1>1. /\ todo # <<>> /\ todo[1].do = "endLoop" /\ n \in Nodes /\ IsBody(body)
      /\ Kind(n) \in {"while", "for"} /\ block \in Ids \ {Exit} /\ Len(blocks) \in Nat \ {0}
  BY AtCall DEF EndLoop, At, KindsFor
<1>2. CASE Kind(n) = "while"
  <2>1. <<>> \in Seq(PlainCalls(Len(blocks))) /\ block # 0
    BY <1>1 DEF Ids
  <2>2. Replace(<<>>) /\ succ' = block /\ UNCHANGED <<blocks, block, body, left, entry>>
    BY <1>2 DEF EndLoop
  <2> QED BY <1>1, <2>1, <2>2, SameBlocksStep
<1>3. CASE Kind(n) = "for"
  <2>1. /\ <<block>> \in Seq(Ids) /\ Len(<<block>>) = 1 /\ <<>> \in Seq(Nodes)
        /\ m \in Nat \ {0} /\ Kid(n, 2) \in Nodes
    BY <1>1, <1>3, Kids
  <2>2. <<Visit(Kid(n, 2))>> \in Seq(PlainCalls(m))
    BY <1>1, <2>1, PlainVisit
  <2>3. /\ blocks' = Append(blocks, [elems |-> <<>>, term |-> 0, succs |-> <<block>>])
        /\ block' = NewId /\ Replace(<<Visit(Kid(n, 2))>>) /\ succ' = block
        /\ UNCHANGED <<body, left, entry>>
    BY <1>3 DEF EndLoop, NewBlock
  <2> QED BY <1>1, <2>1, <2>2, <2>3, NewBlockStep
<1> QED BY <1>1, <1>2, <1>3

\* The latches of the loops under way are blocks there are.
LEMMA LatchFacts ==
  ASSUME GraphInv, NEW b, Latch(b)
  PROVE  b \in Ids /\ b # Exit /\ blocks[b].term = 0 /\ blocks[b].succs = <<>>
<1>1. \A i \in 1 .. Len(todo) : todo[i] \in Calls
  BY ElementOfSeq DEF GraphInv, TypeOK
<1>2. b \in Ids
  BY <1>1 DEF Latch, OpenLoops, Calls
<1> QED BY <1>2 DEF GraphInv, EdgesMatchTerminators

LEMMA LoopStep ==
  ASSUME GraphInv, VisitLoop
  PROVE  GraphInv'
<1> DEFINE n == todo[1].node  m == Len(blocks) + 1
           latch == [elems |-> <<>>, term |-> 0, succs |-> <<>>]
           inner == Reversed(body.then[n])
           calls == Append(inner, Task("header", n, NewId, Following))
<1>1. /\ todo # <<>> /\ todo[1].do = "visit" /\ n \in Nodes /\ IsBody(body)
      /\ Kind(n) \in {"while", "for"} /\ TypeOK /\ left \in 0 .. Len(body.top)
      /\ succ \in Ids /\ entry \in Ids
  BY AtCall DEF VisitLoop, AtVisit, At
<1>2. Following \in Ids /\ Len(blocks) \in Nat \ {0}
  BY FollowingBlock
<1>3. /\ blocks' = Append(blocks, latch) /\ block' = NewId /\ Replace(calls)
      /\ UNCHANGED <<body, left, succ, entry>>
  BY DEF VisitLoop, NewBlock
<1>4. m \in Nat \ {0} /\ NewId = m /\ Ids = 1 .. Len(blocks) /\ m \notin Ids /\ Ids \subseteq 1 .. m
  BY <1>2 DEF NewId, Ids
<1>5. /\ blocks' \in Seq(BlocksUpTo(m)) /\ Len(blocks') = m
      /\ \A b \in Ids : blocks'[b] = blocks[b]
      /\ blocks'[m] = latch
  <2>1. blocks \in Seq(BlocksUpTo(Len(blocks)))
    BY <1>1 DEF TypeOK, Blocks, BlocksUpTo, Ids
  <2>2. BlocksUpTo(Len(blocks)) \subseteq BlocksUpTo(m)
    <3>1. Seq(1 .. Len(blocks)) \subseteq Seq(1 .. m)
      BY <1>2, SeqMonotonic
    <3> QED BY <3>1 DEF BlocksUpTo
  <2>3. latch \in BlocksUpTo(m)
    BY DEF BlocksUpTo
  <2>4. blocks \in Seq(BlocksUpTo(m))
    BY <2>1, <2>2, SeqMonotonic
  <2> HIDE DEF latch
  <2> QED BY <1>2, <1>3, <1>4, <2>3, <2>4, AppendProperties
<1>6. Ids' = 1 .. m
  BY <1>5 DEF Ids
<1>7. inner \in Seq(PlainCalls(m))
  BY <1>1, <1>4, Kids, PlainVisits
<1>8. /\ Task("header", n, NewId, Following) \in FitCalls(m)
      /\ Task("header", n, NewId, Following).do = "header"
      /\ Task("header", n, NewId, Following).x = m
  BY <1>1, <1>2, <1>4 DEF Task, Call, FitCalls, KindsFor, Exit
<1>9. /\ calls \in Seq(FitCalls(m)) /\ Len(calls) = Len(inner) + 1 /\ Len(inner) \in Nat
      /\ \A i \in 1 .. Len(inner) : calls[i].do # "header"
      /\ calls[Len(calls)].do = "header" /\ calls[Len(calls)].x = m
  <2>1. PlainCalls(m) \subseteq FitCalls(m)
    BY DEF PlainCalls, FitCalls
  <2>2. inner \in Seq(FitCalls(m))
    BY <1>7, <2>1, SeqMonotonic
  <2>3. \A i \in 1 .. Len(inner) : inner[i] \in PlainCalls(m)
    BY <1>7, ElementOfSeq
  <2>4. \A i \in 1 .. Len(inner) : inner[i].do # "header"
    BY <2>3 DEF PlainCalls
  <2> HIDE DEF inner
  <2> QED BY <1>8, <2>2, <2>4, AppendProperties
<1> HIDE DEF calls, inner, latch
<1>10. /\ TypeOK' /\ CallsFit' /\ BlockWhenNeeded'
       /\ Len(todo') = Len(calls) + Len(todo) - 1
       /\ Len(calls) \in Nat \ {0} /\ Len(todo) \in Nat \ {0}
       /\ \A i \in 1 .. Len(calls) : todo'[i] = calls[i]
       /\ \A i \in 2 .. Len(todo) : todo'[i + Len(calls) - 1] = todo[i]
       /\ \A i \in 1 .. Len(todo') :
            \/ i \in 1 .. Len(calls)
            \/ i - Len(calls) + 1 \in 2 .. Len(todo) /\ todo'[i] = todo[i - Len(calls) + 1]
  <2>1. block' \in Ids' /\ succ' \in Ids' /\ entry' \in Ids' /\ left' \in 0 .. Len(body.top)
    BY <1>1, <1>3, <1>4, <1>6
  <2>2. /\ calls \in Seq(FitCalls(Len(blocks')))
        /\ blocks' \in Seq(BlocksUpTo(Len(blocks')))
        /\ Len(blocks') >= Len(blocks)
    BY <1>2, <1>5, <1>9
  <2>3. body' = body /\ todo # <<>> /\ Replace(calls)
    BY <1>1, <1>3
  <2>4. Len(calls) \in Nat \ {0}
    BY <1>9
  <2> HIDE DEF m
  <2> QED BY <2>1, <2>2, <2>3, <2>4, CallStep
<1>11. ASSUME NEW i \in OpenLoops'
       PROVE  \/ i = Len(calls) /\ todo'[i].x = m
              \/ /\ i - Len(calls) + 1 \in OpenLoops
                 /\ todo'[i] = todo[i - Len(calls) + 1] /\ todo'[i].x \in Ids
  <2>1. i \in 1 .. Len(todo') /\ todo'[i].do = "header"
    BY DEF OpenLoops
  <2>2. CASE i \in 1 .. Len(calls)
    <3>1. i = Len(calls)
      BY <1>9, <1>10, <2>1, <2>2
    <3> QED BY <1>9, <1>10, <2>2, <3>1
  <2>3. CASE i - Len(calls) + 1 \in 2 .. Len(todo) /\ todo'[i] = todo[i - Len(calls) + 1]
    <3>1. i - Len(calls) + 1 \in OpenLoops
      BY <1>10, <2>1, <2>3 DEF OpenLoops
    <3>2. todo[i - Len(calls) + 1].x \in Ids
      BY <3>1, LatchFacts DEF Latch
    <3> QED BY <2>3, <3>1, <3>2
  <2> QED BY <1>10, <2>1, <2>2, <2>3
<1>12. LatchesDiffer'
  <2> SUFFICES ASSUME NEW i \in OpenLoops', NEW j \in OpenLoops', todo'[i].x = todo'[j].x
               PROVE  i = j
    BY DEF LatchesDiffer
  <2>1. i \in Int /\ j \in Int
    BY DEF OpenLoops
  <2>2. CASE todo'[i].x = m
    BY <1>4, <1>11, <2>2
  <2>3. CASE todo'[i].x # m
    <3>1. /\ i - Len(calls) + 1 \in OpenLoops /\ j - Len(calls) + 1 \in OpenLoops
          /\ todo[i - Len(calls) + 1].x = todo[j - Len(calls) + 1].x
      BY <1>11, <2>3
    <3>2. i - Len(calls) + 1 = j - Len(calls) + 1
      BY <3>1 DEF GraphInv, LatchesDiffer
    <3> QED BY <1>10, <2>1, <3>2
  <2> QED BY <2>2, <2>3
<1>13. ASSUME NEW b PROVE Latch(b)' <=> b = m \/ Latch(b)
  <2>1. Latch(b)' => b = m \/ Latch(b)
    BY <1>11 DEF Latch
  <2>2. ASSUME b = m PROVE Latch(b)'
    <3>1. Len(calls) \in 1 .. Len(todo') /\ todo'[Len(calls)] = calls[Len(calls)]
      BY <1>10
    <3> QED BY <1>9, <2>2, <3>1 DEF Latch, OpenLoops
  <2>3. ASSUME NEW i \in OpenLoops, todo[i].x = b PROVE Latch(b)'
    <3>1. i \in 1 .. Len(todo) /\ todo[i].do = "header" /\ i # 1
      BY <1>1 DEF OpenLoops
    <3>2. i + Len(calls) - 1 \in 1 .. Len(todo') /\ todo'[i + Len(calls) - 1] = todo[i]
      BY <1>10, <3>1
    <3> QED BY <2>3, <3>1, <3>2 DEF Latch, OpenLoops
  <2> QED BY <2>1, <2>2, <2>3 DEF Latch
<1>14. EdgesMatchTerminators'
  <2>1. Len(blocks') > 0 /\ block' # Exit /\ Exit \in Ids /\ m # Exit
    BY <1>2, <1>3, <1>4, <1>5 DEF Exit
  <2>2. blocks'[Exit] = [elems |-> <<>>, term |-> 0, succs |-> <<>>] /\ ~Latch(Exit)'
    BY <1>5, <1>13, <2>1 DEF GraphInv, EdgesMatchTerminators
  <2>3. ASSUME NEW b \in Ids' \ {Exit}
        PROVE  IF Latch(b)' THEN blocks'[b].term = 0 /\ blocks'[b].succs = <<>>
               ELSE Len(blocks'[b].succs) = IF blocks'[b].term = 0 THEN 1 ELSE 2
    <3>1. CASE b = m
      BY <1>5, <1>13, <3>1 DEF latch
    <3>2. CASE b \in Ids
      BY <1>4, <1>5, <1>13, <3>2 DEF GraphInv, EdgesMatchTerminators
    <3> QED BY <1>4, <1>6, <3>1, <3>2
  <2> QED BY <2>1, <2>2, <2>3 DEF EdgesMatchTerminators, Exit
<1> QED BY <1>10, <1>12, <1>14 DEF GraphInv

LEMMA HeaderStep ==
  ASSUME GraphInv, Header
  PROVE  GraphInv'
<1> DEFINE t == todo[1]  m == Len(blocks) + 1
           head == [elems |-> <<>>, term |-> t.node, succs |-> <<block, t.y>>]
           latch == [elems |-> blocks[t.x].elems, term |-> 0, succs |-> <<m>>]
           calls == <<Visit(Kid(t.node, 1)), Task("endLoop", t.node, Exit, Exit)>>
<1>1. /\ todo # <<>> /\ t.do = "header" /\ t.node \in Nodes /\ IsBody(body) /\ TypeOK
      /\ Kind(t.node) \in {"while", "for"} /\ left \in 0 .. Len(body.top)
      /\ t.x \in Ids /\ t.y \in Ids /\ succ \in Ids /\ entry \in Ids
      /\ block \in Ids \ {Exit} /\ Len(blocks) \in Nat \ {0}
  BY AtCall DEF Header, At, Calls, KindsFor
<1>2. 1 \in OpenLoops /\ Latch(t.x)
  <2>1. 1 \in 1 .. Len(todo)
    BY <1>1, EmptySeq DEF TypeOK
  <2> QED BY <1>1, <2>1 DEF OpenLoops, Latch
<1>3. t.x # Exit /\ blocks[t.x].term = 0 /\ blocks[t.x].succs = <<>>
  BY <1>2, LatchFacts
<1>4. m \in Nat \ {0} /\ NewId = m /\ Ids = 1 .. Len(blocks) /\ m \notin Ids /\ Ids \subseteq 1 .. m
  BY <1>1 DEF NewId, Ids
<1>5. /\ Append(blocks, head) \in Seq(BlocksUpTo(m)) /\ Len(Append(blocks, head)) = m
      /\ \A b \in Ids : Append(blocks, head)[b] = blocks[b]
      /\ Append(blocks, head)[m] = head
  <2>1. blocks \in Seq(BlocksUpTo(Len(blocks)))
    BY <1>1 DEF TypeOK, Blocks, BlocksUpTo, Ids
  <2>2. BlocksUpTo(Len(blocks)) \subseteq BlocksUpTo(m)
    <3>1. Seq(1 .. Len(blocks)) \subseteq Seq(1 .. m)
      BY <1>1, SeqMonotonic
    <3> QED BY <3>1 DEF BlocksUpTo
  <2>3. head \in BlocksUpTo(m)
    <3>1. <<block, t.y>> \in Seq(1 .. m) /\ <<>> \in Seq(Nodes)
      BY <1>1, <1>4
    <3> QED BY <1>1, <3>1 DEF BlocksUpTo
  <2>4. blocks \in Seq(BlocksUpTo(m))
    BY <2>1, <2>2, SeqMonotonic
  <2> HIDE DEF head
  <2> QED BY <1>1, <1>4, <2>3, <2>4, AppendProperties
<1>6. blocks' = [Append(blocks, head) EXCEPT ![t.x] = latch]
  <2> DEFINE bs == Append(blocks, head)
  <2>1. blocks' = [bs EXCEPT ![t.x].succs = Append(@, m)]
    BY <1>4 DEF Header, NewBlock
  <2>2. bs[t.x] = blocks[t.x]
    BY <1>1, <1>5
  <2>3. blocks[t.x] \in Blocks
    BY <1>1, ElementOfSeq DEF TypeOK, Ids
  <2>4. [blocks[t.x] EXCEPT !.succs = Append(@, m)] = latch
    BY <1>3, <2>3 DEF Blocks
  <2> HIDE DEF bs, latch
  <2>5. blocks' = [bs EXCEPT ![t.x] = latch]
    BY <2>1, <2>2, <2>4
  <2> QED BY <2>5 DEF bs
<1>7. latch \in BlocksUpTo(m)
  <2>1. blocks[t.x] \in Blocks
    BY <1>1, ElementOfSeq DEF TypeOK, Ids
  <2>2. blocks[t.x].elems \in Seq(Nodes)
    BY <2>1 DEF Blocks
  <2>3. <<m>> \in Seq(1 .. m)
    BY <1>4
  <2> QED BY <2>2, <2>3 DEF BlocksUpTo
<1>8. /\ blocks' \in Seq(BlocksUpTo(m)) /\ Len(blocks') = m
      /\ \A b \in Ids : b # t.x => blocks'[b] = blocks[b]
      /\ blocks'[m] = head /\ blocks'[t.x] = latch
  <2> DEFINE bs == Append(blocks, head)
  <2>1. t.x \in 1 .. Len(bs) /\ t.x # m /\ Ids \subseteq 1 .. Len(bs) /\ m \in 1 .. Len(bs)
    BY <1>1, <1>4, <1>5
  <2>2. bs \in Seq(BlocksUpTo(m)) /\ Len(bs) = m /\ (\A b \in Ids : bs[b] = blocks[b]) /\ bs[m] = head
    BY <1>5
  <2> HIDE DEF bs, latch, head
  <2>3. blocks' = [bs EXCEPT ![t.x] = latch]
    BY <1>6 DEF bs
  <2>4. blocks' \in Seq(BlocksUpTo(m)) /\ Len(blocks') = Len(bs)
        /\ \A b \in 1 .. Len(bs) : blocks'[b] = IF b = t.x THEN latch ELSE bs[b]
    BY <1>7, <2>1, <2>2, <2>3, ExceptSeq
  <2> HIDE DEF m, t
  <2>5. \A b \in Ids : b # t.x => blocks'[b] = blocks[b]
    BY <2>1, <2>2, <2>4
  <2>6. blocks'[m] = head /\ blocks'[t.x] = latch
    BY <2>1, <2>2, <2>4
  <2> QED BY <2>2, <2>4, <2>5, <2>6
<1>9. Ids' = 1 .. m
  BY <1>8 DEF Ids
<1>10. calls \in Seq(FitCalls(m)) /\ Len(calls) = 2
       /\ \A i \in 1 .. Len(calls) : calls[i].do # "header"
  <2>1. Visit(Kid(t.node, 1)) \in PlainCalls(m)
    BY <1>1, <1>4, Kids, PlainVisit
  <2>2. Task("endLoop", t.node, Exit, Exit) \in PlainCalls(m)
    BY <1>1, <1>4 DEF Task, Call, PlainCalls, KindsFor, Exit
  <2>3. PlainCalls(m) \subseteq FitCalls(m) /\ \A c \in PlainCalls(m) : c.do # "header"
    BY DEF PlainCalls, FitCalls
  <2> QED BY <2>1, <2>2, <2>3
<1>11. Replace(calls) /\ block' = NewId /\ UNCHANGED <<body, left, succ, entry>>
  BY DEF Header
<1> HIDE DEF calls, latch, head
<1>12. /\ TypeOK' /\ CallsFit' /\ BlockWhenNeeded'
       /\ Len(todo') = Len(calls) + Len(todo) - 1
       /\ Len(calls) \in Nat /\ Len(todo) \in Nat \ {0}
       /\ \A i \in 1 .. Len(calls) : todo'[i] = calls[i]
       /\ \A i \in 2 .. Len(todo) : todo'[i + Len(calls) - 1] = todo[i]
       /\ \A i \in 1 .. Len(todo') :
            \/ i \in 1 .. Len(calls)
            \/ i - Len(calls) + 1 \in 2 .. Len(todo) /\ todo'[i] = todo[i - Len(calls) + 1]
  <2>1. block' \in Ids' /\ succ' \in Ids' /\ entry' \in Ids' /\ left' \in 0 .. Len(body.top)
    BY <1>1, <1>4, <1>9, <1>11
  <2>2. /\ calls \in Seq(FitCalls(Len(blocks')))
        /\ blocks' \in Seq(BlocksUpTo(Len(blocks')))
        /\ Len(blocks') >= Len(blocks)
    BY <1>1, <1>8, <1>10
  <2>3. body' = body /\ todo # <<>> /\ Replace(calls)
    BY <1>1, <1>11
  <2> HIDE DEF m, t
  <2> QED BY <2>1, <2>2, <2>3, CallStep
<1>13. ASSUME NEW i \in OpenLoops'
       PROVE  /\ i - Len(calls) + 1 \in OpenLoops /\ i - Len(calls) + 1 # 1
              /\ todo'[i] = todo[i - Len(calls) + 1]
  <2>1. i \in 1 .. Len(todo') /\ todo'[i].do = "header"
    BY DEF OpenLoops
  <2>2. i \notin 1 .. Len(calls)
    BY <1>10, <1>12, <2>1
  <2>3. i - Len(calls) + 1 \in 2 .. Len(todo) /\ todo'[i] = todo[i - Len(calls) + 1]
    BY <1>12, <2>1, <2>2
  <2> QED BY <1>12, <2>1, <2>3 DEF OpenLoops
<1>14. LatchesDiffer'
  <2> SUFFICES ASSUME NEW i \in OpenLoops', NEW j \in OpenLoops', todo'[i].x = todo'[j].x
               PROVE  i = j
    BY DEF LatchesDiffer
  <2>1. i - Len(calls) + 1 = j - Len(calls) + 1
    BY <1>13 DEF GraphInv, LatchesDiffer
  <2> QED BY <1>12, <2>1 DEF OpenLoops
<1>15. ASSUME NEW b PROVE Latch(b)' <=> b # t.x /\ Latch(b)
  <2>1. Latch(b)' => b # t.x /\ Latch(b)
    BY <1>2, <1>13 DEF Latch, GraphInv, LatchesDiffer
  <2>2. ASSUME NEW i \in OpenLoops, todo[i].x = b, b # t.x PROVE Latch(b)'
    <3>1. i \in 2 .. Len(todo) /\ todo[i].do = "header"
      BY <1>12, <2>2 DEF OpenLoops
    <3>2. i + Len(calls) - 1 \in 1 .. Len(todo') /\ todo'[i + Len(calls) - 1] = todo[i]
      BY <1>12, <3>1
    <3> QED BY <2>2, <3>1, <3>2 DEF Latch, OpenLoops
  <2> QED BY <2>1, <2>2 DEF Latch
<1>16. EdgesMatchTerminators'
  <2>1. Len(blocks') > 0 /\ block' # Exit /\ Exit \in Ids /\ m # Exit
    BY <1>1, <1>4, <1>8, <1>11 DEF Exit
  <2>2. blocks'[Exit] = [elems |-> <<>>, term |-> 0, succs |-> <<>>] /\ ~Latch(Exit)'
    BY <1>3, <1>8, <1>15, <2>1 DEF GraphInv, EdgesMatchTerminators
  <2>3. Len(head.succs) = 2 /\ head.term # 0 /\ Len(latch.succs) = 1 /\ latch.term = 0
    BY <1>1 DEF head, latch, Nodes
  <2>4. ~Latch(m)
    BY <1>4, LatchFacts
  <2>5. ASSUME NEW b \in Ids' \ {Exit}
        PROVE  IF Latch(b)' THEN blocks'[b].term = 0 /\ blocks'[b].succs = <<>>
               ELSE Len(blocks'[b].succs) = IF blocks'[b].term = 0 THEN 1 ELSE 2
    <3>1. CASE b = m
      BY <1>8, <1>15, <2>3, <2>4, <3>1
    <3>2. CASE b = t.x
      BY <1>8, <1>15, <2>3, <3>2
    <3>3. CASE b \in Ids /\ b # t.x
      BY <1>8, <1>15, <3>3 DEF GraphInv, EdgesMatchTerminators
    <3> QED BY <1>4, <1>9, <3>1, <3>2, <3>3
  <2> QED BY <2>1, <2>2, <2>5 DEF EdgesMatchTerminators, Exit
<1> QED BY <1>12, <1>14, <1>16 DEF GraphInv

-----------------------------------------------------------------------------
(* The statements of the function.                                         *)

LEMMA StatementStep ==
  ASSUME GraphInv, Statement
  PROVE  GraphInv'
<1> DEFINE s == body.top[left]
<1>1. /\ todo = <<>> /\ left \in 1 .. Len(body.top) /\ IsBody(body) /\ TypeOK
      /\ Len(blocks) \in Nat \ {0}
  BY DEF Statement, GraphInv, TypeOK, EdgesMatchTerminators
<1>2. s \in Stmts /\ s \in Nodes /\ Kind(s) \in Statements
  BY <1>1, BodyFacts, ElementOfSeq DEF Stmts
<1>3. /\ todo' = <<Visit(s), Task("statement", s, Exit, Exit)>> /\ left' = left - 1
      /\ UNCHANGED <<body, blocks, block, succ, entry>>
  BY DEF Statement
<1>4. left' \in 0 .. Len(body.top)
  <2>1. Len(body.top) \in Nat
    BY <1>1, BodyFacts
  <2> QED BY <1>1, <1>3, <2>1
<1>5. Visit(s) \in Calls /\ Task("statement", s, Exit, Exit) \in Calls
  BY <1>1, <1>2 DEF Visit, Task, Call, Calls, KindsFor, Exit, Ids
<1>6. TypeOK'
  <2>1. todo' \in Seq(Calls)
    BY <1>3, <1>5
  <2> QED BY <1>1, <1>3, <1>4, <2>1
          DEF TypeOK, IsBody, Calls, Nodes, Ids, Blocks, KindsFor
<1>7. /\ Len(todo') = 2 /\ todo'[1].do = "visit" /\ todo'[2].do = "statement"
      /\ todo'[1].node = s /\ todo'[2].node = s
  BY <1>3 DEF Visit, Task, Call
<1>8. CallsFit'
  <2>1. ASSUME NEW i \in 1 .. 2
        PROVE  /\ Kind(todo'[i].node) \in KindsFor[todo'[i].do]
               /\ todo'[i].do = "statement" => i = 2
    <3>1. i = 1 \/ i = 2
      OBVIOUS
    <3> QED BY <1>2, <1>7, <3>1 DEF KindsFor
  <2> QED BY <1>3, <1>7, <2>1 DEF CallsFit, Kind
<1>9. BlockWhenNeeded'
  BY <1>7 DEF BlockWhenNeeded
<1>10. OpenLoops = {} /\ OpenLoops' = {}
  <2>1. \A i \in 1 .. 2 : i = 1 \/ i = 2
    OBVIOUS
  <2>2. OpenLoops' = {}
    BY <1>7, <2>1 DEF OpenLoops
  <2>3. Len(todo) = 0
    BY <1>1
  <2> QED BY <2>2, <2>3 DEF OpenLoops
<1>11. LatchesDiffer' /\ EdgesMatchTerminators'
  BY <1>3, <1>10 DEF GraphInv, LatchesDiffer, EdgesMatchTerminators, Latch, Ids, Exit
<1> QED BY <1>6, <1>8, <1>9, <1>11 DEF GraphInv

LEMMA EndStatementStep ==
  ASSUME GraphInv, EndStatement
  PROVE  GraphInv'
<1>1. /\ todo # <<>> /\ todo[1].do = "statement" /\ TypeOK /\ block \in Ids \ {Exit}
      /\ left \in 0 .. Len(body.top) /\ entry \in Ids
  BY AtCall DEF EndStatement, At
<1>2. Len(todo) = 1
  <2>1. Len(todo) \in Nat \ {0}
    BY <1>1, EmptySeq DEF TypeOK
  <2>2. 1 \in 1 .. Len(todo)
    BY <2>1
  <2>3. todo[1].do = "statement" => 1 = Len(todo)
    BY <2>2 DEF GraphInv, CallsFit
  <2> QED BY <1>1, <2>3
<1>3. todo' = <<>>
  <2>1. todo \in Seq(Calls) /\ Tail(todo) \in Seq(Calls) /\ Len(Tail(todo)) = 0
    BY <1>1, <1>2, HeadTailProperties DEF TypeOK
  <2> QED BY <2>1, EmptySeq DEF EndStatement, Replace
<1>4. /\ Replace(<<>>) /\ succ' = block /\ UNCHANGED <<body, left, blocks, entry>>
      /\ block' = 0 \/ block' = block
  BY DEF EndStatement
<1>5. Extends(blocks') /\ Ids' = Ids
  BY <1>4, ExtendsSame DEF Ids
<1>6. <<>> \in Seq(PlainCalls(Len(blocks')))
  OBVIOUS
<1> QED BY <1>1, <1>3, <1>4, <1>5, <1>6, PlainStep

LEMMA EndFunctionStep ==
  ASSUME GraphInv, EndFunction
  PROVE  GraphInv'
<1> DEFINE m == Len(blocks) + 1
           first == [elems |-> <<>>, term |-> 0, succs |-> <<succ>>]
<1>1. /\ todo = <<>> /\ TypeOK /\ block # Exit /\ succ \in Ids
      /\ block \in Ids \cup {0} /\ IsBody(body) /\ left \in 0 .. Len(body.top)
      /\ Len(blocks) \in Nat \ {0}
  BY DEF EndFunction, GraphInv, TypeOK, EdgesMatchTerminators
<1>2. /\ blocks' = Append(blocks, first) /\ entry' = m
      /\ UNCHANGED <<body, left, block, succ, todo>>
  BY DEF EndFunction, NewBlock, NewId
<1>3. <<succ>> \in Seq(1 .. m) /\ Len(<<succ>>) = 1 /\ <<>> \in Seq(Nodes)
  BY <1>1 DEF Ids
<1>4. Extends(blocks') /\ Len(blocks') = m
  BY <1>1, <1>2, <1>3, ExtendsSame, ExtendsAppend
<1>5. Ids \subseteq Ids' /\ Ids' = 1 .. m /\ Exit \in Ids
  BY <1>1, <1>4 DEF Ids, Exit
<1>6. TypeOK'
  <2>1. blocks' \in Seq(Blocks')
    BY <1>2, <1>4 DEF Extends, BlocksUpTo, Blocks, Ids, Nodes
  <2>2. todo' \in Seq(Calls')
    BY <1>1, <1>2
  <2>3. block' \in Ids' \cup {0} /\ succ' \in Ids' /\ entry' \in Ids'
    BY <1>1, <1>2, <1>5
  <2>4. IsBody(body') /\ left' \in 0 .. Len(body'.top)
    BY <1>1, <1>2
  <2> QED BY <2>1, <2>2, <2>3, <2>4 DEF TypeOK, IsBody
<1>7. Len(todo) = 0 /\ Len(todo') = 0
  BY <1>1, <1>2
<1>8. CallsFit' /\ BlockWhenNeeded' /\ OpenLoops = {} /\ OpenLoops' = {}
  BY <1>1, <1>2, <1>7 DEF CallsFit, BlockWhenNeeded, OpenLoops
<1>9. LatchesDiffer'
  BY <1>8 DEF LatchesDiffer
<1>10. EdgesMatchTerminators'
  <2>1. /\ Len(blocks') > 0 /\ block' # Exit
        /\ blocks'[Exit] = [elems |-> <<>>, term |-> 0, succs |-> <<>>]
    BY <1>1, <1>2, <1>4, <1>5 DEF GraphInv, EdgesMatchTerminators, Extends
  <2>2. ASSUME NEW b \in Ids' \ {Exit}
        PROVE  Len(blocks'[b].succs) = IF blocks'[b].term = 0 THEN 1 ELSE 2
    <3>1. CASE b \in Ids
      BY <1>4, <1>8, <3>1 DEF GraphInv, EdgesMatchTerminators, Extends, Latch
    <3>2. CASE b \notin Ids
      BY <1>4, <3>2 DEF Extends, Ids
    <3> QED BY <3>1, <3>2
  <2> QED BY <1>8, <2>1, <2>2 DEF EdgesMatchTerminators, Latch, Exit
<1> QED BY <1>6, <1>8, <1>9, <1>10 DEF GraphInv

-----------------------------------------------------------------------------
(* Every step.                                                             *)

LEMMA VisitLeftStep ==
  ASSUME GraphInv, VisitLeft
  PROVE  GraphInv'
<1>1. UNCHANGED <<body, left, succ, entry>>
  BY DEF VisitLeft
<1>2. CASE At("left") /\ Left(todo[1].node, todo[1].x, todo[1].y, todo[1].z)
  <2>1. todo # <<>> /\ todo[1].do = "left" /\ todo[1] \in Calls
    BY <1>2, AtCall DEF At
  <2>2. todo[1].x \in Ids /\ todo[1].y \in Ids /\ todo[1].z \in Ids
    BY <2>1 DEF Calls
  <2> QED BY <1>1, <1>2, <2>1, <2>2, LeftStep
<1>3. CASE At("leftOfNested") /\ Left(todo[1].node, todo[1].x, todo[1].y, block)
  <2>1. todo # <<>> /\ todo[1].do = "leftOfNested" /\ todo[1] \in Calls /\ block \in Ids
    BY <1>3, AtCall DEF At
  <2>2. todo[1].x \in Ids /\ todo[1].y \in Ids
    BY <2>1 DEF Calls
  <2> QED BY <1>1, <1>3, <2>1, <2>2, LeftStep
<1> QED BY <1>2, <1>3 DEF VisitLeft

LEMMA InitGraph ==
  ASSUME Init
  PROVE  GraphInv
<1>1. IsBody(body)
  BY BodiesAssumption DEF Init
<1>2. /\ blocks = <<[elems |-> <<>>, term |-> 0, succs |-> <<>>]>> /\ block = 0
      /\ succ = Exit /\ entry = Exit /\ todo = <<>> /\ left = Len(body.top)
  BY DEF Init
<1>3. Len(blocks) = 1 /\ Ids = {1} /\ Len(todo) = 0
  BY <1>2 DEF Ids
<1>4. TypeOK
  <2>1. [elems |-> <<>>, term |-> 0, succs |-> <<>>] \in Blocks
    BY DEF Blocks
  <2>2. blocks \in Seq(Blocks) /\ todo \in Seq(Calls)
    BY <1>2, <2>1
  <2>3. left \in 0 .. Len(body.top)
    BY <1>1, <1>2, BodyFacts
  <2> QED BY <1>1, <1>2, <1>3, <2>2, <2>3 DEF TypeOK, Exit
<1>5. CallsFit /\ BlockWhenNeeded /\ OpenLoops = {}
  BY <1>2, <1>3 DEF CallsFit, BlockWhenNeeded, OpenLoops
<1>6. LatchesDiffer /\ EdgesMatchTerminators
  BY <1>2, <1>3, <1>5 DEF LatchesDiffer, EdgesMatchTerminators, Latch, Exit
<1> QED BY <1>4, <1>5, <1>6 DEF GraphInv

LEMMA Stutter ==
  ASSUME GraphInv, UNCHANGED vars
  PROVE  GraphInv'
<1>1. UNCHANGED <<body, left, blocks, block, succ, entry, todo>>
  BY DEF vars
<1>2. TypeOK'
  BY <1>1 DEF GraphInv, TypeOK, Calls, Blocks, Nodes, Ids
<1>3. CallsFit' /\ BlockWhenNeeded'
  BY <1>1 DEF GraphInv, CallsFit, BlockWhenNeeded, Kind
<1>4. LatchesDiffer' /\ EdgesMatchTerminators'
  BY <1>1 DEF GraphInv, LatchesDiffer, EdgesMatchTerminators, Latch, OpenLoops, Ids
<1> QED BY <1>2, <1>3, <1>4 DEF GraphInv

\* The graph is well-formed at every step of the builder, for every function
\* body: no visitor is without a block, no latch is closed twice or left open,
\* edges match terminators (CFG.cpp:80-386).
THEOREM GraphInvariant == Spec => []GraphInv
<1>1. Init => GraphInv
  BY InitGraph
<1>2. GraphInv /\ [Next]_vars => GraphInv'
  <2> SUFFICES ASSUME GraphInv, [Next]_vars PROVE GraphInv'
    OBVIOUS
  <2>1. CASE Statement \/ EndStatement \/ EndFunction
    BY <2>1, StatementStep, EndStatementStep, EndFunctionStep
  <2>2. CASE VisitStrict \/ VisitExprStmt \/ VisitReturn
    BY <2>2, StrictStep, ExprStmtStep, ReturnStep
  <2>3. CASE VisitConditional \/ EndOtherwise \/ VisitCondition \/ EndThen
    BY <2>3, ConditionalStep, BranchStep
  <2>4. CASE VisitLogical \/ VisitRight \/ VisitLeft
    BY <2>4, LogicalStep, RightStep, VisitLeftStep
  <2>5. CASE VisitIf \/ EndElse
    BY <2>5, IfStep
  <2>6. CASE VisitLoop \/ Header \/ EndLoop
    BY <2>6, LoopStep, HeaderStep, EndLoopStep
  <2>7. CASE UNCHANGED vars
    BY <2>7, Stutter
  <2> QED BY <2>1, <2>2, <2>3, <2>4, <2>5, <2>6, <2>7 DEF Next
<1> QED BY <1>1, <1>2, PTL DEF Spec

-----------------------------------------------------------------------------
(* Every node has one place.  A visitor hands on what it owes: the nodes   *)
(* below the one it visits, each to one of the calls it leaves behind.     *)

Children(n) ==
  Elements(body.kids[n]) \cup Elements(body.then[n]) \cup Elements(body.else[n])

LEMMA ElementsConcat ==
  ASSUME NEW S, NEW s \in Seq(S), NEW t \in Seq(S)
  PROVE  /\ s \o t \in Seq(S) /\ Elements(s \o t) = Elements(s) \cup Elements(t)
         /\ Distinct(s \o t) =>
              /\ Distinct(s) /\ Distinct(t) /\ Elements(s) \cap Elements(t) = {}
<1>1. /\ s \o t \in Seq(S) /\ Len(s \o t) = Len(s) + Len(t)
      /\ Len(s) \in Nat /\ Len(t) \in Nat
      /\ \A i \in 1 .. Len(s) + Len(t) :
           (s \o t)[i] = IF i <= Len(s) THEN s[i] ELSE t[i - Len(s)]
  BY ConcatProperties
<1>2. \A i \in 1 .. Len(s) : i \in 1 .. Len(s \o t) /\ (s \o t)[i] = s[i]
  BY <1>1
<1>3. \A i \in 1 .. Len(t) : i + Len(s) \in 1 .. Len(s \o t) /\ (s \o t)[i + Len(s)] = t[i]
  <2> SUFFICES ASSUME NEW i \in 1 .. Len(t)
               PROVE  i + Len(s) \in 1 .. Len(s \o t) /\ (s \o t)[i + Len(s)] = t[i]
    OBVIOUS
  <2>1. i + Len(s) \in 1 .. Len(s) + Len(t) /\ ~(i + Len(s) <= Len(s)) /\ (i + Len(s)) - Len(s) = i
    BY <1>1
  <2> QED BY <1>1, <2>1
<1>4. \A i \in 1 .. Len(s \o t) :
        \/ i \in 1 .. Len(s)
        \/ i - Len(s) \in 1 .. Len(t) /\ (s \o t)[i] = t[i - Len(s)]
  BY <1>1
<1> DEFINE st == s \o t
<1> HIDE DEF st
<1>5. Elements(s) \cup Elements(t) \subseteq Elements(s \o t)
  BY <1>2, <1>3 DEF Elements
<1>6. Elements(s \o t) \subseteq Elements(s) \cup Elements(t)
  BY <1>2, <1>4 DEF Elements
<1>7. ASSUME Distinct(s \o t)
      PROVE  /\ Distinct(s) /\ Distinct(t) /\ Elements(s) \cap Elements(t) = {}
  <2>1. Distinct(s)
    BY <1>2, <1>7 DEF Distinct
  <2>2. Distinct(t)
    <3> SUFFICES ASSUME NEW i \in 1 .. Len(t), NEW j \in 1 .. Len(t), t[i] = t[j] PROVE i = j
      BY DEF Distinct
    <3>1. i + Len(s) = j + Len(s)
      BY <1>3, <1>7 DEF Distinct
    <3> QED BY <1>1, <3>1
  <2>3. Elements(s) \cap Elements(t) = {}
    <3> SUFFICES ASSUME NEW i \in 1 .. Len(s), NEW j \in 1 .. Len(t), s[i] = t[j] PROVE FALSE
      BY DEF Elements
    <3>1. i = j + Len(s)
      BY <1>2, <1>3, <1>7 DEF Distinct
    <3> QED BY <1>1, <3>1
  <2> QED BY <2>1, <2>2, <2>3
<1> QED BY <1>1, <1>5, <1>6, <1>7

\* What a tree is, list by list.
LEMMA TreeFacts ==
  ASSUME IsBody(body), IsTree(body), NEW n \in Nodes
  PROVE  /\ Elements(Below(body, n)) = Children(n) /\ Children(n) \subseteq Nodes
         /\ Children(n) \cap Elements(body.top) = {}
         /\ \A m \in Nodes : m # n => Children(m) \cap Children(n) = {}
         /\ Distinct(body.kids[n]) /\ Distinct(body.then[n]) /\ Distinct(body.else[n])
         /\ Elements(body.kids[n]) \cap Elements(body.then[n]) = {}
         /\ Elements(body.kids[n]) \cap Elements(body.else[n]) = {}
         /\ Elements(body.then[n]) \cap Elements(body.else[n]) = {}
<1>1. \A m \in Nodes : /\ body.kids[m] \in Seq(Nodes) /\ body.then[m] \in Seq(Nodes)
                       /\ body.else[m] \in Seq(Nodes)
  BY Kids
<1>2. ASSUME NEW m \in Nodes
      PROVE  /\ Elements(Below(body, m)) = Children(m)
             /\ Distinct(Below(body, m)) =>
                  /\ Distinct(body.kids[m]) /\ Distinct(body.then[m]) /\ Distinct(body.else[m])
                  /\ Elements(body.kids[m]) \cap Elements(body.then[m]) = {}
                  /\ Elements(body.kids[m]) \cap Elements(body.else[m]) = {}
                  /\ Elements(body.then[m]) \cap Elements(body.else[m]) = {}
  <2> DEFINE k == body.kids[m]  t == body.then[m]  e == body.else[m]
  <2>1. k \in Seq(Nodes) /\ t \in Seq(Nodes) /\ e \in Seq(Nodes)
    BY <1>1
  <2>2. Below(body, m) = (k \o t) \o e
    BY DEF Below
  <2>3. Children(m) = Elements(k) \cup Elements(t) \cup Elements(e)
    BY DEF Children
  <2> HIDE DEF k, t, e
  <2>4. /\ k \o t \in Seq(Nodes) /\ Elements(k \o t) = Elements(k) \cup Elements(t)
        /\ Distinct(k \o t) => /\ Distinct(k) /\ Distinct(t)
                               /\ Elements(k) \cap Elements(t) = {}
    BY <2>1, ElementsConcat
  <2>5. /\ Elements((k \o t) \o e) = Elements(k \o t) \cup Elements(e)
        /\ Distinct((k \o t) \o e) => /\ Distinct(k \o t) /\ Distinct(e)
                                      /\ Elements(k \o t) \cap Elements(e) = {}
    BY <2>1, <2>4, ElementsConcat
  <2>6. /\ Elements(Below(body, m)) = Children(m)
        /\ Distinct(Below(body, m)) =>
             /\ Distinct(k) /\ Distinct(t) /\ Distinct(e)
             /\ Elements(k) \cap Elements(t) = {} /\ Elements(k) \cap Elements(e) = {}
             /\ Elements(t) \cap Elements(e) = {}
    BY <2>2, <2>3, <2>4, <2>5
  <2> QED BY <2>6 DEF k, t, e
<1>3. /\ Distinct(Below(body, n)) /\ Elements(Below(body, n)) \cap Elements(body.top) = {}
      /\ \A m \in Nodes : m # n => Elements(Below(body, m)) \cap Elements(Below(body, n)) = {}
  BY DEF IsTree, Nodes
<1>4. Children(n) \subseteq Nodes
  BY <1>1, ElementOfSeq DEF Children, Elements
<1> QED BY <1>2, <1>3, <1>4

\* The nodes a visitor names are below the one it visits.
LEMMA KidFacts ==
  ASSUME IsBody(body), IsTree(body), NEW n \in Nodes
  PROVE  /\ Kind(n) \in Logical \cup {"for", "conditional"} =>
              /\ Kid(n, 1) \in Elements(body.kids[n]) /\ Kid(n, 2) \in Elements(body.kids[n])
              /\ Kid(n, 1) # Kid(n, 2)
         /\ Kind(n) = "conditional" =>
              /\ Kid(n, 3) \in Elements(body.kids[n])
              /\ Kid(n, 3) # Kid(n, 1) /\ Kid(n, 3) # Kid(n, 2)
         /\ Kind(n) \in Logical \cup {"for"} =>
              Elements(body.kids[n]) = {Kid(n, 1), Kid(n, 2)}
         /\ Kind(n) \in {"if", "while", "expr"} => Elements(body.kids[n]) = {Kid(n, 1)}
<1> DEFINE k == body.kids[n]
<1>1. /\ Kind(n) \in Logical \cup {"for"} => Len(k) = 2
      /\ Kind(n) = "conditional" => Len(k) = 3
      /\ Kind(n) \in {"if", "while", "expr"} => Len(k) = 1
  BY BodyFacts
<1>2. Distinct(k)
  BY TreeFacts
<1>3. \A i \in Nat : Kid(n, i) = k[i]
  BY DEF Kid
<1> HIDE DEF k
<1>4. Len(k) = 1 => Elements(k) = {k[1]}
  BY DEF Elements
<1>5. Len(k) = 2 => Elements(k) = {k[1], k[2]} /\ k[1] # k[2]
  BY <1>2 DEF Elements, Distinct
<1>6. Len(k) = 3 => /\ k[1] \in Elements(k) /\ k[2] \in Elements(k) /\ k[3] \in Elements(k)
                    /\ k[1] # k[2] /\ k[3] # k[1] /\ k[3] # k[2]
  BY <1>2 DEF Elements, Distinct
<1>7. Kind(n) \in Logical \cup {"for", "conditional"} <=>
        Kind(n) \in Logical \cup {"for"} \/ Kind(n) = "conditional"
  OBVIOUS
<1> QED BY <1>1, <1>3, <1>4, <1>5, <1>6, <1>7 DEF k

-----------------------------------------------------------------------------
(* What calls owe.                                                         *)

Apart(calls) ==
  \A i, j \in 1 .. Len(calls) : i # j => Owed(calls[i]) \cap Owed(calls[j]) = {}
Owe(calls, S) == \A i \in 1 .. Len(calls) : Owed(calls[i]) \subseteq S

LEMMA OwedFacts ==
  ASSUME NEW n, NEW term, NEW x, NEW y, NEW z
  PROVE  /\ Owed(Visit(n)) = {n}
         /\ Owed(Task("statement", n, x, y)) = {}
         /\ Owed(Task("otherwise", n, x, y)) = {Kid(n, 1), Kid(n, 2)}
         /\ Owed(Task("condition", n, x, y)) = {Kid(n, 1)}
         /\ Owed(Call("right", n, term, x, y, z)) = {Kid(n, 1), Kid(n, 2)}
         /\ Owed(Call("left", n, term, x, y, z)) = {Kid(n, 1)}
         /\ Owed(Task("leftOfNested", n, x, y)) = {Kid(n, 1)}
         /\ Owed(Task("endThen", n, x, y)) = {Kid(n, 1)}
         /\ Owed(Task("endElse", n, x, y)) = Elements(body.then[n]) \cup {Kid(n, 1)}
         /\ Owed(Task("header", n, x, y)) = Elements(body.kids[n])
         /\ Owed(Task("endLoop", n, x, y)) = Elements(body.kids[n]) \ {Kid(n, 1)}
BY DEF Owed, Visit, Task, Call

LEMMA OweOne ==
  ASSUME NEW c
  PROVE  Apart(<<c>>) /\ Owe(<<c>>, Owed(c))
BY DEF Apart, Owe

LEMMA OweTwo ==
  ASSUME NEW c, NEW d, Owed(c) \cap Owed(d) = {}
  PROVE  Apart(<<c, d>>) /\ Owe(<<c, d>>, Owed(c) \cup Owed(d))
<1>1. \A i \in 1 .. Len(<<c, d>>) : i = 1 \/ i = 2
  OBVIOUS
<1> QED BY <1>1 DEF Apart, Owe

LEMMA OweVisits ==
  ASSUME NEW s \in Seq(Nodes), Distinct(s)
  PROVE  /\ Apart(Visits(s)) /\ Owe(Visits(s), Elements(s))
         /\ Apart(Reversed(s)) /\ Owe(Reversed(s), Elements(s))
<1>1. Len(s) \in Nat
  OBVIOUS
<1>2. Len(Visits(s)) = Len(s) /\ \A i \in 1 .. Len(s) : Visits(s)[i] = Visit(s[i])
  BY <1>1 DEF Visits
<1>3. Len(Reversed(s)) = Len(s)
      /\ \A i \in 1 .. Len(s) : Reversed(s)[i] = Visit(s[Len(s) + 1 - i])
  BY <1>1 DEF Reversed
<1>4. \A i \in 1 .. Len(s) : Owed(Visits(s)[i]) = {s[i]}
  BY <1>2, OwedFacts
<1>5. \A i \in 1 .. Len(s) : Owed(Reversed(s)[i]) = {s[Len(s) + 1 - i]}
  BY <1>3, OwedFacts
<1>6. \A i \in 1 .. Len(s) : Len(s) + 1 - i \in 1 .. Len(s)
  BY <1>1
<1>7. \A i, j \in 1 .. Len(s) : s[Len(s) + 1 - i] = s[Len(s) + 1 - j] => i = j
  <2> SUFFICES ASSUME NEW i \in 1 .. Len(s), NEW j \in 1 .. Len(s),
                      s[Len(s) + 1 - i] = s[Len(s) + 1 - j]
               PROVE  i = j
    OBVIOUS
  <2>1. Len(s) + 1 - i = Len(s) + 1 - j
    BY <1>6 DEF Distinct
  <2> QED BY <1>1, <2>1
<1> DEFINE v == Visits(s)  r == Reversed(s)
<1>8. Apart(v) /\ Owe(v, Elements(s))
  <2>1. Len(v) = Len(s) /\ \A i \in 1 .. Len(s) : Owed(v[i]) = {s[i]}
    BY <1>2, <1>4
  <2> HIDE DEF v
  <2>2. \A i, j \in 1 .. Len(s) : i # j => s[i] # s[j]
    BY DEF Distinct
  <2>3. Apart(v)
    <3> SUFFICES ASSUME NEW i \in 1 .. Len(v), NEW j \in 1 .. Len(v), i # j
                 PROVE  Owed(v[i]) \cap Owed(v[j]) = {}
      BY DEF Apart
    <3>1. Owed(v[i]) = {s[i]} /\ Owed(v[j]) = {s[j]} /\ s[i] # s[j]
      BY <2>1, <2>2
    <3> QED BY ONLY <3>1
  <2>4. Owe(v, Elements(s))
    <3> SUFFICES ASSUME NEW i \in 1 .. Len(v) PROVE Owed(v[i]) \subseteq Elements(s)
      BY DEF Owe
    <3>1. Owed(v[i]) = {s[i]} /\ s[i] \in Elements(s)
      BY <2>1 DEF Elements
    <3> QED BY ONLY <3>1
  <2> QED BY <2>3, <2>4
<1>9. Apart(r) /\ Owe(r, Elements(s))
  <2>1. Len(r) = Len(s) /\ \A i \in 1 .. Len(s) : Owed(r[i]) = {s[Len(s) + 1 - i]}
    BY <1>3, <1>5
  <2> HIDE DEF r
  <2>2. Apart(r)
    <3> SUFFICES ASSUME NEW i \in 1 .. Len(r), NEW j \in 1 .. Len(r), i # j
                 PROVE  Owed(r[i]) \cap Owed(r[j]) = {}
      BY DEF Apart
    <3> DEFINE x == s[Len(s) + 1 - i]  y == s[Len(s) + 1 - j]
    <3>1. Owed(r[i]) = {x} /\ Owed(r[j]) = {y} /\ x # y
      BY <1>7, <2>1
    <3> HIDE DEF x, y
    <3> QED BY ONLY <3>1
  <2>3. Owe(r, Elements(s))
    <3> SUFFICES ASSUME NEW i \in 1 .. Len(r) PROVE Owed(r[i]) \subseteq Elements(s)
      BY DEF Owe
    <3> DEFINE x == s[Len(s) + 1 - i]
    <3>1. Owed(r[i]) = {x} /\ x \in Elements(s)
      BY <1>6, <2>1 DEF Elements
    <3> HIDE DEF x
    <3> QED BY ONLY <3>1
  <2> QED BY <2>2, <2>3
<1> QED BY <1>8, <1>9

LEMMA OweThen ==
  ASSUME NEW T, NEW calls \in Seq(T), NEW c \in T, NEW S,
         Apart(calls), Owe(calls, S), S \cap Owed(c) = {}
  PROVE  Apart(Append(calls, c)) /\ Owe(Append(calls, c), S \cup Owed(c))
<1> DEFINE cs == Append(calls, c)
<1>1. /\ Len(calls) \in Nat /\ Len(cs) = Len(calls) + 1
      /\ \A i \in 1 .. Len(calls) : cs[i] = calls[i]
      /\ cs[Len(calls) + 1] = c
  BY AppendProperties
<1> HIDE DEF cs
<1>2. \A i \in 1 .. Len(cs) : i \in 1 .. Len(calls) \/ i = Len(calls) + 1
  BY <1>1
<1>3. Owe(cs, S \cup Owed(c))
  BY <1>1, <1>2 DEF Owe
<1>4. Apart(cs)
  <2> SUFFICES ASSUME NEW i \in 1 .. Len(cs), NEW j \in 1 .. Len(cs), i # j
               PROVE  Owed(cs[i]) \cap Owed(cs[j]) = {}
    BY DEF Apart
  <2>1. CASE i \in 1 .. Len(calls) /\ j \in 1 .. Len(calls)
    BY <1>1, <2>1 DEF Apart
  <2>2. CASE i \in 1 .. Len(calls) /\ j = Len(calls) + 1
    BY <1>1, <2>2 DEF Owe
  <2>3. CASE i = Len(calls) + 1 /\ j \in 1 .. Len(calls)
    BY <1>1, <2>3 DEF Owe
  <2> QED BY <1>2, <2>1, <2>2, <2>3
<1> QED BY <1>3, <1>4 DEF cs

-----------------------------------------------------------------------------
(* Where nodes are placed.                                                 *)

\* From blocks bs to cs at most one place is added, for a node of N.
AddsAt(bs, cs, N, c, k) ==
  \A b \in 1 .. Len(cs) : \A i \in 1 .. Len(cs[b].elems) :
    \/ /\ b \in 1 .. Len(bs) /\ i \in 1 .. Len(bs[b].elems)
       /\ cs[b].elems[i] = bs[b].elems[i]
    \/ b = c /\ i = k /\ cs[b].elems[i] \in N
Adds(bs, cs, N) == \E c, k : AddsAt(bs, cs, N, c, k)

LEMMA AddsSame ==
  ASSUME NEW bs, NEW N
  PROVE  Adds(bs, bs, N)
<1>1. AddsAt(bs, bs, N, 0, 0)
  BY DEF AddsAt
<1> QED BY <1>1 DEF Adds

\* An empty block adds none.
LEMMA AddsEmpty ==
  ASSUME NEW S, NEW bs, NEW cs \in Seq(S), NEW N, Adds(bs, cs, N), NEW r \in S, r.elems = <<>>
  PROVE  Adds(bs, Append(cs, r), N)
<1> DEFINE ds == Append(cs, r)
<1>1. /\ Len(cs) \in Nat /\ Len(ds) = Len(cs) + 1 /\ ds[Len(cs) + 1] = r
      /\ \A b \in 1 .. Len(cs) : ds[b] = cs[b]
  BY AppendProperties
<1> HIDE DEF ds
<1>2. \A b \in 1 .. Len(ds) : b \in 1 .. Len(cs) \/ b = Len(cs) + 1
  BY <1>1
<1>3. Len(r.elems) = 0
  OBVIOUS
<1>4. \A b \in 1 .. Len(ds) : \A i \in 1 .. Len(ds[b].elems) : b \in 1 .. Len(cs) /\ ds[b] = cs[b]
  BY <1>1, <1>2, <1>3
<1>5. PICK c, k : AddsAt(bs, cs, N, c, k)
  BY DEF Adds
<1>6. AddsAt(bs, ds, N, c, k)
  BY <1>4, <1>5 DEF AddsAt
<1> QED BY <1>6 DEF Adds, ds

\* Nor does a change of edges.
LEMMA AddsEdges ==
  ASSUME NEW bs, NEW cs, NEW ds, NEW N, Adds(bs, cs, N), Len(ds) = Len(cs),
         \A b \in 1 .. Len(cs) : ds[b].elems = cs[b].elems
  PROVE  Adds(bs, ds, N)
<1>1. PICK c, k : AddsAt(bs, cs, N, c, k)
  BY DEF Adds
<1>2. AddsAt(bs, ds, N, c, k)
  BY <1>1 DEF AddsAt
<1> QED BY <1>2 DEF Adds

LEMMA AddsNew ==
  ASSUME NEW S, NEW bs \in Seq(S), NEW r \in S, NEW n, r.elems = <<n>>
  PROVE  Adds(bs, Append(bs, r), {n})
<1> DEFINE ds == Append(bs, r)
<1>1. /\ Len(bs) \in Nat /\ Len(ds) = Len(bs) + 1 /\ ds[Len(bs) + 1] = r
      /\ \A b \in 1 .. Len(bs) : ds[b] = bs[b]
  BY AppendProperties
<1> HIDE DEF ds
<1>2. \A b \in 1 .. Len(ds) : b \in 1 .. Len(bs) \/ b = Len(bs) + 1
  BY <1>1
<1>3. Len(r.elems) = 1 /\ r.elems[1] = n
  OBVIOUS
<1>4. \A i \in 1 .. Len(r.elems) : i = 1
  BY <1>3
<1>5. \A b \in 1 .. Len(ds) : \A i \in 1 .. Len(ds[b].elems) :
        \/ /\ b \in 1 .. Len(bs) /\ i \in 1 .. Len(bs[b].elems)
           /\ ds[b].elems[i] = bs[b].elems[i]
        \/ b = Len(bs) + 1 /\ i = 1 /\ ds[b].elems[i] \in {n}
  BY <1>1, <1>2, <1>3, <1>4
<1>6. AddsAt(bs, ds, {n}, Len(bs) + 1, 1)
  BY <1>5 DEF AddsAt
<1> QED BY <1>6 DEF Adds, ds

LEMMA AddsCreated ==
  ASSUME GraphInv, NEW N
  PROVE  /\ Adds(blocks, Created, N)
         /\ Created \in Seq([elems : Seq(Nodes), term : Nodes \cup {0}, succs : Seq(Nat)])
         /\ Home \in 1 .. Len(Created)
<1> DEFINE S == [elems : Seq(Nodes), term : Nodes \cup {0}, succs : Seq(Nat)]
           r == [elems |-> <<>>, term |-> 0, succs |-> <<succ>>]
<1>1. blocks \in Seq(Blocks) /\ succ \in Nat /\ Len(blocks) \in Nat
  BY DEF GraphInv, TypeOK, Ids
<1>2. blocks \in Seq(S)
  <2>1. Seq(Ids) \subseteq Seq(Nat)
    BY SeqMonotonic DEF Ids
  <2>2. Blocks \subseteq S
    BY <2>1 DEF Blocks
  <2> HIDE DEF S
  <2> QED BY <1>1, <2>2, SeqMonotonic
<1>3. r \in S /\ r.elems = <<>>
  BY <1>1
<1>4. Home \in 1 .. Len(Created)
  BY ExtendsCreated
<1> HIDE DEF S, r
<1>5. Adds(blocks, Append(blocks, r), N) /\ Append(blocks, r) \in Seq(S)
  BY <1>2, <1>3, AddsSame, AddsEmpty, AppendProperties
<1>6. Created = Append(blocks, r) \/ Created = blocks
  BY DEF Created, NewBlock, r
<1> QED BY <1>2, <1>4, <1>5, <1>6, AddsSame DEF S

LEMMA AddsPlaced ==
  ASSUME GraphInv, NEW n \in Nodes
  PROVE  /\ Adds(blocks, Placed(n), {n})
         /\ Placed(n) \in Seq([elems : Seq(Nodes), term : Nodes \cup {0}, succs : Seq(Nat)])
<1> DEFINE S == [elems : Seq(Nodes), term : Nodes \cup {0}, succs : Seq(Nat)]
           r == [Created[Home] EXCEPT !.elems = Append(@, n)]
<1>1. Created \in Seq(S) /\ Home \in 1 .. Len(Created) /\ Adds(blocks, Created, {})
  BY AddsCreated
<1>2. Created[Home] \in S
  BY <1>1, ElementOfSeq
<1>3. r \in S /\ r.elems = Append(Created[Home].elems, n) /\ Created[Home].elems \in Seq(Nodes)
  <2> DEFINE old == Created[Home]
  <2>1. old \in S
    BY <1>2
  <2> HIDE DEF old
  <2>2. Append(old.elems, n) \in Seq(Nodes) /\ old.elems \in Seq(Nodes)
    BY <2>1, AppendProperties
  <2>3. /\ [old EXCEPT !.elems = Append(@, n)] \in S
        /\ [old EXCEPT !.elems = Append(@, n)].elems = Append(old.elems, n)
    BY <2>1, <2>2
  <2> QED BY <2>2, <2>3 DEF old
<1>4. Placed(n) = [Created EXCEPT ![Home] = r]
  BY DEF Placed
<1> HIDE DEF S, r
<1>5. /\ Placed(n) \in Seq(S) /\ Len(Placed(n)) = Len(Created)
      /\ \A j \in 1 .. Len(Created) : Placed(n)[j] = IF j = Home THEN r ELSE Created[j]
  BY <1>1, <1>3, <1>4, ExceptSeq
<1> DEFINE cs == Created  ds == Placed(n)  e == Created[Home].elems
<1>6. /\ Len(e) \in Nat /\ Len(r.elems) = Len(e) + 1 /\ r.elems[Len(e) + 1] = n
      /\ \A i \in 1 .. Len(e) : r.elems[i] = e[i]
  BY <1>3, AppendProperties
<1>7. \A i \in 1 .. Len(r.elems) : i \in 1 .. Len(e) \/ i = Len(e) + 1
  BY <1>6
<1>8. ASSUME NEW b \in 1 .. Len(ds), NEW i \in 1 .. Len(ds[b].elems)
      PROVE  \/ /\ b \in 1 .. Len(cs) /\ i \in 1 .. Len(cs[b].elems)
                /\ ds[b].elems[i] = cs[b].elems[i]
             \/ b = Home /\ i = Len(e) + 1 /\ ds[b].elems[i] \in {n}
  <2>1. CASE b = Home
    BY <1>1, <1>5, <1>6, <1>7, <2>1
  <2>2. CASE b # Home
    BY <1>1, <1>5, <2>2
  <2> QED BY <2>1, <2>2
<1>9. \A b \in 1 .. Len(cs) : \A i \in 1 .. Len(cs[b].elems) :
        b \in 1 .. Len(blocks) /\ i \in 1 .. Len(blocks[b].elems)
        /\ cs[b].elems[i] = blocks[b].elems[i]
  BY <1>1 DEF Adds, AddsAt
<1> HIDE DEF cs, ds, e
<1>10. Adds(blocks, ds, {n})
  <2> DEFINE k == Len(e) + 1
  <2> HIDE DEF k
  <2>1. \A b \in 1 .. Len(ds) : \A i \in 1 .. Len(ds[b].elems) :
          \/ /\ b \in 1 .. Len(blocks) /\ i \in 1 .. Len(blocks[b].elems)
             /\ ds[b].elems[i] = blocks[b].elems[i]
          \/ b = Home /\ i = k /\ ds[b].elems[i] \in {n}
    BY <1>8, <1>9 DEF k
  <2>2. AddsAt(blocks, ds, {n}, Home, k)
    BY <2>1 DEF AddsAt
  <2> QED BY <2>2 DEF Adds
<1> QED BY <1>5, <1>10 DEF ds, S

-----------------------------------------------------------------------------
(* A step of a visitor.                                                    *)

Top(l) == {body.top[i] : i \in 1 .. l}

\* The definition of VisitedOnce for given blocks, calls and statements.
VisitedAt(V, bs, calls, l) ==
  /\ \A b \in 1 .. Len(bs) : Elements(bs[b].elems) \subseteq V
  /\ Top(l) \cap V = {}
  /\ \A i \in 1 .. Len(calls) : Owed(calls[i]) \cap (V \cup Top(l)) = {}
  /\ Apart(calls)
  /\ \A n \in Nodes \ V :
       /\ Elements(Below(body, n)) \cap V = {}
       /\ \A i \in 1 .. Len(calls) : Elements(Below(body, n)) \cap Owed(calls[i]) = {}

LEMMA VisitedNow ==
  ASSUME NEW V
  PROVE  VisitedOnce(V) <=> VisitedAt(V, blocks, todo, left)
BY DEF VisitedOnce, VisitedAt, Apart, Waiting, Ids, Top

LEMMA VisitedNext ==
  ASSUME body' = body, NEW V
  PROVE  VisitedOnce(V)' <=> VisitedAt(V, blocks', todo', left')
<1>1. \A i : Owed(todo[i])' = Owed(todo'[i])
  BY DEF Owed, Kid
<1>2. Nodes' = Nodes /\ \A n : Below(body, n)' = Below(body, n)
  BY DEF Nodes, Below
<1>3. Waiting' = Top(left') /\ Ids' = 1 .. Len(blocks')
  BY DEF Waiting, Ids, Top
<1> QED BY <1>1, <1>2, <1>3 DEF VisitedOnce, VisitedAt, Apart


Under(N) == {c \in Nodes : \E n \in N : c \in Children(n)}
HandedOn(c, N) == (Owed(c) \ N) \cup Under(N)

\* What a visitor has been given and what it hands on are nowhere else.
LEMMA HandedOnFacts ==
  ASSUME IsBody(body), IsTree(body), left \in 0 .. Len(body.top), NEW V \in SUBSET Nodes,
         VisitedAt(V, blocks, todo, left), Len(todo) \in Nat \ {0},
         \A i \in 1 .. Len(todo) : Owed(todo[i]) \subseteq Nodes,
         NEW N \in SUBSET (Nodes \cap Owed(todo[1]))
  PROVE  LET S == HandedOn(todo[1], N)  W == Top(left) IN
         /\ S \cap (V \cup N) = {} /\ S \cap W = {}
         /\ \A i \in 2 .. Len(todo) : S \cap Owed(todo[i]) = {} /\ N \cap Owed(todo[i]) = {}
         /\ N \cap W = {} /\ N \cap V = {}
         /\ \A n \in Nodes \ (V \cup N) : Children(n) \cap (V \cup N \cup S) = {}
         /\ \A n \in Nodes \ (V \cup N) : \A i \in 2 .. Len(todo) :
              Children(n) \cap Owed(todo[i]) = {}
<1> USE DEF HandedOn
<1> DEFINE S == HandedOn(todo[1], N)  W == Top(left)
<1>1. \A i \in 1 .. Len(todo) : Owed(todo[i]) \cap V = {} /\ Owed(todo[i]) \cap W = {}
  BY DEF VisitedAt
<1>2. \A i \in 2 .. Len(todo) : i \in 1 .. Len(todo) /\ Owed(todo[1]) \cap Owed(todo[i]) = {}
  <2>1. \A i \in 2 .. Len(todo) : i \in 1 .. Len(todo) /\ 1 \in 1 .. Len(todo) /\ i # 1
    OBVIOUS
  <2> QED BY <2>1 DEF VisitedAt, Apart
<1>3. 1 \in 1 .. Len(todo)
  OBVIOUS
<1>4. \A n \in Nodes \ V : /\ Children(n) \cap V = {}
                           /\ \A i \in 1 .. Len(todo) : Children(n) \cap Owed(todo[i]) = {}
  BY TreeFacts DEF VisitedAt
<1>5. \A n \in Nodes : /\ Children(n) \cap Elements(body.top) = {}
                       /\ \A m \in Nodes : m # n => Children(m) \cap Children(n) = {}
  BY TreeFacts
<1>6. W \subseteq Elements(body.top)
  BY BodyFacts DEF Elements, Top
<1>7. \A n \in N : n \in Nodes \ V /\ n \in Owed(todo[1])
  BY <1>1, <1>3
<1> HIDE DEF W
<1>8. S \cap (V \cup N) = {}
  BY <1>1, <1>3, <1>4, <1>7 DEF Under
<1>9. S \cap W = {}
  BY <1>1, <1>3, <1>5, <1>6, <1>7 DEF Under
<1>10. \A i \in 2 .. Len(todo) : S \cap Owed(todo[i]) = {} /\ N \cap Owed(todo[i]) = {}
  BY <1>2, <1>4, <1>7 DEF Under
<1>11. N \cap W = {} /\ N \cap V = {}
  BY <1>1, <1>3, <1>7
<1>12. \A n \in Nodes \ (V \cup N) : Children(n) \cap (V \cup N \cup S) = {}
  <2> SUFFICES ASSUME NEW n \in Nodes \ (V \cup N), NEW c \in Children(n), c \in V \cup N \cup S
               PROVE  FALSE
    OBVIOUS
  <2>1. c \notin V /\ c \notin Owed(todo[1])
    BY <1>3, <1>4
  <2>2. PICK m \in N : c \in Children(m)
    BY <2>1, <1>7 DEF Under
  <2> QED BY <1>5, <1>7, <2>2
<1>13. \A n \in Nodes \ (V \cup N) : \A i \in 2 .. Len(todo) : Children(n) \cap Owed(todo[i]) = {}
  BY <1>2, <1>4
<1> QED BY <1>8, <1>9, <1>10, <1>11, <1>12, <1>13 DEF W

\* One place more for a node that has none keeps every node in one place.
LEMMA PlacedStep ==
  ASSUME GraphInv, GraphInv', body' = body, PlacedOnce, NEW V, NEW N, N \cap V = {},
         \A b \in 1 .. Len(blocks) : Elements(blocks[b].elems) \subseteq V,
         Adds(blocks, blocks', N)
  PROVE  /\ PlacedOnce'
         /\ \A b \in 1 .. Len(blocks') : Elements(blocks'[b].elems) \subseteq V \cup N
<1> DEFINE Old(b, i) == /\ b \in 1 .. Len(blocks) /\ i \in 1 .. Len(blocks[b].elems)
                        /\ blocks'[b].elems[i] = blocks[b].elems[i]
<1>1. PICK c, k : \A b \in 1 .. Len(blocks') : \A i \in 1 .. Len(blocks'[b].elems) :
                    \/ Old(b, i)
                    \/ b = c /\ i = k /\ blocks'[b].elems[i] \in N
  BY DEF Adds, AddsAt
<1>2. \A b \in 1 .. Len(blocks') : \A i \in 1 .. Len(blocks'[b].elems) :
        Old(b, i) => blocks'[b].elems[i] \in V
  BY DEF Elements
<1>3. \A b \in 1 .. Len(blocks') : Elements(blocks'[b].elems) \subseteq V \cup N
  BY <1>1, <1>2 DEF Elements
<1>4. PlacedOnce'
  <2>1. Nodes' = Nodes /\ Ids' = 1 .. Len(blocks') /\ Len(blocks') \in Nat /\ Ids = 1 .. Len(blocks)
    BY DEF Nodes, Ids, GraphInv, TypeOK
  <2>2. SUFFICES ASSUME NEW n \in Nodes, NEW b \in 1 .. Len(blocks'), NEW i \in Nodes,
                        NEW d \in 1 .. Len(blocks'), NEW j \in Nodes,
                        i <= Len(blocks'[b].elems), blocks'[b].elems[i] = n,
                        j <= Len(blocks'[d].elems), blocks'[d].elems[j] = n
                 PROVE  b = d /\ i = j
    BY <2>1 DEF PlacedOnce, Placements
  <2>3. Len(blocks'[b].elems) \in Nat /\ Len(blocks'[d].elems) \in Nat
    <3>1. blocks' \in Seq(Blocks')
      BY DEF GraphInv, TypeOK
    <3>2. \A a \in 1 .. Len(blocks') : blocks'[a] \in Blocks'
      BY <3>1, ElementOfSeq
    <3>3. \A a \in 1 .. Len(blocks') : blocks'[a].elems \in Seq(Nodes')
      BY <3>2 DEF Blocks
    <3>4. \A e \in Seq(Nodes') : Len(e) \in Nat
      OBVIOUS
    <3> QED BY <3>3, <3>4
  <2>4. i \in 1 .. Len(blocks'[b].elems) /\ j \in 1 .. Len(blocks'[d].elems) /\ i \in Nat /\ j \in Nat
    BY <2>2, <2>3 DEF Nodes
  <2>5. CASE Old(b, i) /\ Old(d, j)
    <3>1. <<b, i>> \in Placements(n) /\ <<d, j>> \in Placements(n)
      BY <2>1, <2>2, <2>4, <2>5 DEF Placements
    <3>2. <<b, i>> = <<d, j>>
      BY <3>1 DEF PlacedOnce
    <3> QED BY <3>2
  <2>6. CASE ~Old(b, i) /\ ~Old(d, j)
    <3> HIDE DEF Old
    <3>1. b = c /\ i = k
      BY <1>1, <2>4, <2>6
    <3>2. d = c /\ j = k
      BY <1>1, <2>4, <2>6
    <3> QED BY <3>1, <3>2
  <2>7. CASE Old(b, i) /\ ~Old(d, j)
    BY <1>1, <1>2, <2>2, <2>4, <2>7
  <2>8. CASE ~Old(b, i) /\ Old(d, j)
    BY <1>1, <1>2, <2>2, <2>4, <2>8
  <2> QED BY <2>5, <2>6, <2>7, <2>8
<1> QED BY <1>3, <1>4

\* What is owed are nodes of the body.
LEMMA OwedNodes ==
  ASSUME GraphInv, IsTree(body), NEW i \in 1 .. Len(todo)
  PROVE  Owed(todo[i]) \subseteq Nodes
<1> DEFINE c == todo[i]
<1>1. /\ c \in Calls /\ Kind(c.node) \in KindsFor[c.do] /\ IsBody(body)
  BY ElementOfSeq DEF GraphInv, TypeOK, CallsFit
<1>2. c.node \in Nodes /\ c.do \in DOMAIN KindsFor
  BY <1>1 DEF Calls
<1> HIDE DEF c
<1>3. /\ Elements(body.kids[c.node]) \subseteq Nodes /\ Elements(body.then[c.node]) \subseteq Nodes
      /\ Elements(body.else[c.node]) \subseteq Nodes
  BY <1>1, <1>2, TreeFacts DEF Children
<1>4. c.do \in {"otherwise", "right", "condition", "left", "leftOfNested", "endThen", "endElse"}
        => Kid(c.node, 1) \in Nodes
  BY <1>1, <1>2, Kids DEF KindsFor
<1>5. c.do \in {"otherwise", "right"} => Kid(c.node, 2) \in Nodes
  BY <1>1, <1>2, Kids DEF KindsFor
<1> QED BY <1>2, <1>3, <1>4, <1>5 DEF Owed, c

LEMMA PlacesStep ==
  ASSUME PlacesInv, GraphInv', todo # <<>>, body' = body, left' = left,
         NEW N \in SUBSET (Nodes \cap Owed(todo[1])), Adds(blocks, blocks', N),
         NEW T, NEW calls \in Seq(T), Replace(calls), Apart(calls),
         Owe(calls, HandedOn(todo[1], N))
  PROVE  PlacesInv'
<1>1. PICK V \in SUBSET Nodes : VisitedAt(V, blocks, todo, left)
  BY VisitedNow DEF PlacesInv
<1>2. /\ GraphInv /\ TypeOK /\ IsBody(body) /\ IsTree(body) /\ PlacedOnce
      /\ left \in 0 .. Len(body.top)
  BY DEF PlacesInv, GraphInv, TypeOK
<1>3. /\ Len(todo') = Len(calls) + Len(todo) - 1
      /\ Len(calls) \in Nat /\ Len(todo) \in Nat \ {0}
      /\ \A i \in 1 .. Len(calls) : todo'[i] = calls[i]
      /\ \A i \in 2 .. Len(todo) : todo'[i + Len(calls) - 1] = todo[i]
  BY <1>2, RestOfCalls
<1>4. ASSUME NEW i \in 1 .. Len(todo')
      PROVE  \/ i \in 1 .. Len(calls) /\ todo'[i] = calls[i]
             \/ /\ i - Len(calls) + 1 \in 2 .. Len(todo)
                /\ todo'[i] = todo[i - Len(calls) + 1]
  <2> SUFFICES ASSUME i \notin 1 .. Len(calls)
               PROVE  /\ i - Len(calls) + 1 \in 2 .. Len(todo)
                      /\ todo'[i] = todo[i - Len(calls) + 1]
    BY <1>3
  <2>1. i - Len(calls) + 1 \in 2 .. Len(todo)
    BY <1>3
  <2>2. (i - Len(calls) + 1) + Len(calls) - 1 = i
    BY <1>3
  <2> QED BY <1>3, <2>1, <2>2
<1> DEFINE S == HandedOn(todo[1], N)
           W == Top(left)
<1>5. /\ S \cap (V \cup N) = {} /\ S \cap W = {}
      /\ \A i \in 2 .. Len(todo) : S \cap Owed(todo[i]) = {} /\ N \cap Owed(todo[i]) = {}
      /\ N \cap W = {} /\ N \cap V = {}
      /\ \A n \in Nodes \ (V \cup N) : Children(n) \cap (V \cup N \cup S) = {}
      /\ \A n \in Nodes \ (V \cup N) : \A i \in 2 .. Len(todo) : Children(n) \cap Owed(todo[i]) = {}
  <2>1. V \subseteq Nodes /\ \A i \in 1 .. Len(todo) : Owed(todo[i]) \subseteq Nodes
    BY <1>2, OwedNodes
  <2>2. VisitedAt(V, blocks, todo, left) /\ Len(todo) \in Nat \ {0}
    BY <1>1, <1>3
  <2> QED BY <1>2, <2>1, <2>2, HandedOnFacts
<1>6. \A i \in 1 .. Len(calls) : Owed(calls[i]) \subseteq S
  BY DEF Owe
<1>7. \A i \in 2 .. Len(todo) : Owed(todo[i]) \cap V = {} /\ Owed(todo[i]) \cap W = {}
  <2>1. \A i \in 2 .. Len(todo) : i \in 1 .. Len(todo)
    BY <1>3
  <2> QED BY <1>1, <2>1 DEF VisitedAt
<1>8. \A i, j \in 2 .. Len(todo) : i # j => Owed(todo[i]) \cap Owed(todo[j]) = {}
  <2>1. \A i \in 2 .. Len(todo) : i \in 1 .. Len(todo)
    BY <1>3
  <2> QED BY <1>1, <2>1 DEF VisitedAt, Apart
<1>9. W \cap V = {} /\ \A b \in 1 .. Len(blocks) : Elements(blocks[b].elems) \subseteq V
  BY <1>1 DEF VisitedAt
<1> HIDE DEF S, W
<1>10. PlacedOnce' /\ \A b \in 1 .. Len(blocks') : Elements(blocks'[b].elems) \subseteq V \cup N
  BY <1>2, <1>5, <1>9, PlacedStep
<1>11. Apart(todo')
  <2> SUFFICES ASSUME NEW i \in 1 .. Len(todo'), NEW j \in 1 .. Len(todo'), i # j
               PROVE  Owed(todo'[i]) \cap Owed(todo'[j]) = {}
    BY DEF Apart
  <2> DEFINE a == i - Len(calls) + 1  b == j - Len(calls) + 1
  <2>1. i \in Int /\ j \in Int /\ a # b
    BY <1>3
  <2>2. CASE i \in 1 .. Len(calls) /\ j \in 1 .. Len(calls)
    BY <1>3, <2>2 DEF Apart
  <2>3. CASE i \in 1 .. Len(calls) /\ b \in 2 .. Len(todo) /\ todo'[j] = todo[b]
    <3> HIDE DEF b
    <3> QED BY <1>3, <1>5, <1>6, <2>3
  <2>4. CASE j \in 1 .. Len(calls) /\ a \in 2 .. Len(todo) /\ todo'[i] = todo[a]
    <3> HIDE DEF a
    <3> QED BY <1>3, <1>5, <1>6, <2>4
  <2>5. CASE a \in 2 .. Len(todo) /\ todo'[i] = todo[a] /\ b \in 2 .. Len(todo) /\ todo'[j] = todo[b]
    <3> HIDE DEF a, b
    <3> QED BY <1>8, <2>1, <2>5
  <2> QED BY <1>4, <2>2, <2>3, <2>4, <2>5
<1>12. ASSUME NEW i \in 1 .. Len(todo')
       PROVE  /\ Owed(todo'[i]) \cap (V \cup N) = {} /\ Owed(todo'[i]) \cap W = {}
              /\ \A n \in Nodes \ (V \cup N) : Children(n) \cap Owed(todo'[i]) = {}
  <2> DEFINE a == i - Len(calls) + 1
  <2>1. CASE i \in 1 .. Len(calls) /\ todo'[i] = calls[i]
    BY <1>5, <1>6, <2>1
  <2>2. CASE a \in 2 .. Len(todo) /\ todo'[i] = todo[a]
    <3> HIDE DEF a
    <3> QED BY <1>5, <1>7, <2>2
  <2> QED BY <1>4, <2>1, <2>2
<1>13. \A n \in Nodes : Elements(Below(body, n)) = Children(n)
  BY <1>2, TreeFacts
<1>14. VisitedAt(V \cup N, blocks', todo', left')
  <2>1. W \cap (V \cup N) = {}
    BY <1>5, <1>9
  <2>2. \A n \in Nodes \ (V \cup N) : Children(n) \cap (V \cup N) = {}
    BY <1>5
  <2> QED BY <1>10, <1>11, <1>12, <1>13, <2>1, <2>2 DEF VisitedAt, W
<1>15. V \cup N \in SUBSET Nodes /\ Nodes' = Nodes
  BY DEF Nodes
<1>16. VisitedOnce(V \cup N)'
  BY <1>14, VisitedNext
<1>17. IsTree(body')
  BY <1>2
<1>18. (\E U \in SUBSET Nodes : VisitedOnce(U))'
  BY <1>15, <1>16
<1> QED BY <1>10, <1>17, <1>18 DEF PlacesInv, IsTree

-----------------------------------------------------------------------------
(* One lemma for each group of actions, again.                             *)

\* A visitor begins: its node goes to a block, and the nodes below are owed.
LEMMA BeginPlaces ==
  ASSUME PlacesInv, GraphInv', todo # <<>>, todo[1].do = "visit",
         body' = body, left' = left, Adds(blocks, blocks', {todo[1].node}),
         NEW T, NEW calls \in Seq(T), Replace(calls), Apart(calls),
         NEW S, Owe(calls, S), S \subseteq Children(todo[1].node)
  PROVE  PlacesInv'
<1> DEFINE n == todo[1].node
<1>1. n \in Nodes /\ IsBody(body) /\ IsTree(body)
  BY AtCall DEF PlacesInv
<1>2. Owed(todo[1]) = {n} /\ {n} \in SUBSET (Nodes \cap Owed(todo[1]))
  BY <1>1 DEF Owed
<1>3. Children(n) \subseteq Nodes
  BY <1>1, TreeFacts
<1>4. Children(n) \subseteq HandedOn(todo[1], {n})
  BY <1>3 DEF HandedOn, Under
<1>5. Owe(calls, HandedOn(todo[1], {n}))
  BY <1>4 DEF Owe
<1> HIDE DEF n
<1>6. Adds(blocks, blocks', {n})
  BY DEF n
<1> QED BY <1>2, <1>5, <1>6, PlacesStep

\* A visitor goes on with what it owes.
LEMMA GoOnPlaces ==
  ASSUME PlacesInv, GraphInv', todo # <<>>, body' = body, left' = left,
         Adds(blocks, blocks', {}),
         NEW T, NEW calls \in Seq(T), Replace(calls), Apart(calls),
         NEW S, Owe(calls, S), S \subseteq Owed(todo[1])
  PROVE  PlacesInv'
<1>1. Owed(todo[1]) \subseteq HandedOn(todo[1], {})
  BY DEF HandedOn
<1>2. Owe(calls, HandedOn(todo[1], {}))
  BY <1>1 DEF Owe
<1>3. {} \in SUBSET (Nodes \cap Owed(todo[1]))
  OBVIOUS
<1> QED BY <1>2, <1>3, PlacesStep

\* A new block with one element, or with none.
LEMMA AddsBlock ==
  ASSUME GraphInv, NEW n \in Nodes, NEW term, NEW succs, NEW N
  PROVE  /\ Adds(blocks, NewBlock(term, succs), N)
         /\ Adds(blocks, Append(blocks, [elems |-> <<n>>, term |-> term, succs |-> succs]), {n})
<1> DEFINE r == [elems |-> <<>>, term |-> term, succs |-> succs]
           q == [elems |-> <<n>>, term |-> term, succs |-> succs]
           S == Blocks \cup {r, q}
<1>1. blocks \in Seq(S)
  <2>1. blocks \in Seq(Blocks) /\ Blocks \subseteq S
    BY DEF GraphInv, TypeOK
  <2> HIDE DEF S
  <2> QED BY <2>1, SeqMonotonic
<1>2. r \in S /\ q \in S /\ r.elems = <<>> /\ q.elems = <<n>>
  OBVIOUS
<1> HIDE DEF r, q, S
<1>3. Adds(blocks, Append(blocks, r), N)
  BY <1>1, <1>2, AddsSame, AddsEmpty
<1>4. Adds(blocks, Append(blocks, q), {n})
  BY <1>1, <1>2, AddsNew
<1> QED BY <1>3, <1>4 DEF NewBlock, r, q

\* The statements of a list are visited, then `c' goes on.
LEMMA ListThen ==
  ASSUME IsBody(body), NEW s \in Seq(Nodes), Distinct(s), NEW c, Elements(s) \cap Owed(c) = {}
  PROVE  LET calls == Append(Reversed(s), c) IN
         /\ calls \in Seq(PlainCalls(1) \cup {c}) /\ Apart(calls)
         /\ Owe(calls, Elements(s) \cup Owed(c))
<1> DEFINE T == PlainCalls(1) \cup {c}
<1>1. Reversed(s) \in Seq(T)
  <2>1. Reversed(s) \in Seq(PlainCalls(1))
    BY PlainVisits
  <2>2. PlainCalls(1) \subseteq T
    OBVIOUS
  <2> HIDE DEF T
  <2> QED BY <2>1, <2>2, SeqMonotonic
<1>2. Apart(Reversed(s)) /\ Owe(Reversed(s), Elements(s))
  BY OweVisits
<1>3. c \in T
  OBVIOUS
<1> HIDE DEF T
<1>4. /\ Apart(Append(Reversed(s), c)) /\ Owe(Append(Reversed(s), c), Elements(s) \cup Owed(c))
      /\ Append(Reversed(s), c) \in Seq(T)
  BY <1>1, <1>2, <1>3, OweThen, AppendProperties
<1> QED BY <1>4 DEF T

\* What the places of a visitor's step need of its call.
LEMMA AtPlaces ==
  ASSUME PlacesInv, todo # <<>>
  PROVE  /\ GraphInv /\ IsBody(body) /\ IsTree(body) /\ todo[1].node \in Nodes
         /\ Kind(todo[1].node) \in KindsFor[todo[1].do]
         /\ \A m \in Nodes \cap Owed(todo[1]) : Children(m) \cap Owed(todo[1]) = {}
<1>1. GraphInv /\ IsBody(body) /\ IsTree(body) /\ Len(todo) \in Nat \ {0}
  BY AtCall, EmptySeq DEF PlacesInv, GraphInv, TypeOK
<1>2. PICK V \in SUBSET Nodes : VisitedAt(V, blocks, todo, left)
  BY VisitedNow DEF PlacesInv
<1>3. \A m \in Nodes \ V : Children(m) \cap Owed(todo[1]) = {}
  <2>1. 1 \in 1 .. Len(todo)
    BY <1>1
  <2> QED BY <1>1, <1>2, <2>1, TreeFacts DEF VisitedAt
<1>4. Owed(todo[1]) \cap V = {}
  <2>1. 1 \in 1 .. Len(todo)
    BY <1>1
  <2> QED BY <1>2, <2>1 DEF VisitedAt
<1> QED BY <1>1, <1>3, <1>4, AtCall

LEMMA OperandsOwe ==
  ASSUME IsBody(body), IsTree(body), NEW n \in Nodes, Kind(n) \in Strict \cup {"assign"}
  PROVE  /\ Operands(n) \in Seq(PlainCalls(1)) /\ Apart(Operands(n))
         /\ Owe(Operands(n), Elements(body.kids[n]))
<1> DEFINE k == body.kids[n]  a == Append(Tail(k), Kid(n, 1))
<1>1. k \in Seq(Nodes) /\ Distinct(k)
  BY Kids, TreeFacts
<1>2. ASSUME Kind(n) = "assign"
      PROVE  a \in Seq(Nodes) /\ Distinct(a) /\ Elements(a) \subseteq Elements(k)
  <2>1. /\ k # <<>> /\ Len(k) \in Nat \ {0} /\ Kid(n, 1) = k[1] /\ k[1] \in Nodes
        /\ Tail(k) \in Seq(Nodes)
    BY <1>1, <1>2, BodyFacts, Kids DEF Kid
  <2> DEFINE t == Tail(k)
  <2>2. Len(t) = Len(k) - 1 /\ \A i \in 1 .. Len(t) : t[i] = k[i + 1]
    BY <1>1, <2>1, HeadTailProperties
  <2>3. t \in Seq(Nodes) /\ a = Append(t, k[1])
    BY <2>1
  <2> HIDE DEF t, k
  <2>4. /\ Len(a) = Len(k) /\ a \in Seq(Nodes) /\ a[Len(k)] = k[1]
        /\ \A i \in 1 .. Len(k) - 1 : a[i] = k[i + 1]
    BY <2>1, <2>2, <2>3, AppendProperties
  <2> HIDE DEF a
  <2>5. ASSUME NEW i \in 1 .. Len(a)
        PROVE  \E j \in 1 .. Len(k) : a[i] = k[j] /\ j = IF i = Len(k) THEN 1 ELSE i + 1
    BY <2>1, <2>4
  <2>6. Elements(a) \subseteq Elements(k)
    BY <2>5 DEF Elements
  <2>7. ASSUME NEW i \in 1 .. Len(a), NEW j \in 1 .. Len(a), a[i] = a[j]
        PROVE  i = j
    <3>1. PICK x \in 1 .. Len(k) : a[i] = k[x] /\ x = IF i = Len(k) THEN 1 ELSE i + 1
      BY <2>5
    <3>2. PICK y \in 1 .. Len(k) : a[j] = k[y] /\ y = IF j = Len(k) THEN 1 ELSE j + 1
      BY <2>5
    <3>3. x = y
      BY <1>1, <2>7, <3>1, <3>2 DEF Distinct
    <3>4. i \in 1 .. Len(k) /\ j \in 1 .. Len(k)
      BY <2>4
    <3>5. (IF i = Len(k) THEN 1 ELSE i + 1) = IF j = Len(k) THEN 1 ELSE j + 1
      BY ONLY <3>1, <3>2, <3>3
    <3> QED BY ONLY <2>1, <3>4, <3>5
  <2> QED BY <2>4, <2>6, <2>7 DEF Distinct
<1>3. /\ Visits(k) \in Seq(PlainCalls(1)) /\ Reversed(k) \in Seq(PlainCalls(1))
      /\ Apart(Visits(k)) /\ Owe(Visits(k), Elements(k))
      /\ Apart(Reversed(k)) /\ Owe(Reversed(k), Elements(k))
  BY <1>1, PlainVisits, OweVisits
<1>4. Kind(n) = "assign" => Visits(a) \in Seq(PlainCalls(1)) /\ Apart(Visits(a))
                            /\ Owe(Visits(a), Elements(k))
  <2> SUFFICES ASSUME Kind(n) = "assign"
               PROVE  Visits(a) \in Seq(PlainCalls(1)) /\ Apart(Visits(a))
                      /\ Owe(Visits(a), Elements(k))
    OBVIOUS
  <2>1. a \in Seq(Nodes) /\ Distinct(a) /\ Elements(a) \subseteq Elements(k)
    BY <1>2
  <2> HIDE DEF a, k
  <2>2. Visits(a) \in Seq(PlainCalls(1)) /\ Apart(Visits(a)) /\ Owe(Visits(a), Elements(a))
    BY <2>1, PlainVisits, OweVisits
  <2> QED BY <2>1, <2>2 DEF Owe
<1> QED BY <1>3, <1>4 DEF Operands

LEMMA StrictPlaces ==
  ASSUME PlacesInv, VisitStrict
  PROVE  PlacesInv'
<1> DEFINE n == todo[1].node
<1>1. /\ todo # <<>> /\ todo[1].do = "visit" /\ Kind(n) \in Strict \cup {"assign"}
      /\ blocks' = Placed(n) /\ Replace(Operands(n)) /\ body' = body /\ left' = left
  BY DEF VisitStrict, AtVisit, At
<1>2. GraphInv /\ GraphInv' /\ IsBody(body) /\ IsTree(body) /\ n \in Nodes
  BY <1>1, AtPlaces, StrictStep
<1>3. Adds(blocks, blocks', {n})
  BY <1>1, <1>2, AddsPlaced
<1>4. /\ Operands(n) \in Seq(PlainCalls(1)) /\ Apart(Operands(n))
      /\ Owe(Operands(n), Elements(body.kids[n])) /\ Elements(body.kids[n]) \subseteq Children(n)
  BY <1>1, <1>2, OperandsOwe DEF Children
<1> QED BY <1>1, <1>2, <1>3, <1>4, BeginPlaces

LEMMA ExprStmtPlaces ==
  ASSUME PlacesInv, VisitExprStmt
  PROVE  PlacesInv'
<1> DEFINE n == todo[1].node  c == Visit(Kid(n, 1))
<1>1. /\ todo # <<>> /\ todo[1].do = "visit" /\ Kind(n) = "expr"
      /\ blocks' = Created /\ Replace(<<c>>) /\ body' = body /\ left' = left
  BY DEF VisitExprStmt, AtVisit, At
<1>2. GraphInv /\ GraphInv' /\ IsBody(body) /\ IsTree(body) /\ n \in Nodes
  BY <1>1, AtPlaces, ExprStmtStep
<1>3. Adds(blocks, blocks', {n})
  BY <1>1, <1>2, AddsCreated
<1>4. Owed(c) \subseteq Children(n)
  BY <1>1, <1>2, OwedFacts, KidFacts DEF Children
<1>5. <<c>> \in Seq({c}) /\ Apart(<<c>>) /\ Owe(<<c>>, Owed(c))
  BY OweOne
<1> HIDE DEF c
<1> QED BY <1>1, <1>2, <1>3, <1>4, <1>5, BeginPlaces

LEMMA ConditionalPlaces ==
  ASSUME PlacesInv, VisitConditional
  PROVE  PlacesInv'
<1> DEFINE n == todo[1].node  c == Visit(Kid(n, 3))  d == Task("otherwise", n, Home, Exit)
           r == [elems |-> <<>>, term |-> 0, succs |-> <<Home>>]
           S == [elems : Seq(Nodes), term : Nodes \cup {0}, succs : Seq(Nat)]
<1>1. /\ todo # <<>> /\ todo[1].do = "visit" /\ Kind(n) = "conditional"
      /\ blocks' = Append(Placed(n), r) /\ Replace(<<c, d>>) /\ body' = body /\ left' = left
  BY DEF VisitConditional, AtVisit, At
<1>2. GraphInv /\ GraphInv' /\ IsBody(body) /\ IsTree(body) /\ n \in Nodes
  BY <1>1, AtPlaces, ConditionalStep
<1>3. Adds(blocks, blocks', {n})
  <2>1. Home \in Nat
    BY <1>2, AddsCreated
  <2>2. r \in S /\ r.elems = <<>>
    BY <2>1
  <2>3. Adds(blocks, Placed(n), {n}) /\ Placed(n) \in Seq(S)
    BY <1>2, AddsPlaced
  <2> HIDE DEF S, r
  <2> QED BY <1>1, <2>2, <2>3, AddsEmpty
<1>4. /\ Owed(c) \cup Owed(d) \subseteq Children(n) /\ Owed(c) \cap Owed(d) = {}
  <2>1. Owed(c) = {Kid(n, 3)} /\ Owed(d) = {Kid(n, 1), Kid(n, 2)}
    BY DEF Owed, Visit, Task, Call
  <2>2. /\ Kid(n, 1) \in Children(n) /\ Kid(n, 2) \in Children(n) /\ Kid(n, 3) \in Children(n)
        /\ Kid(n, 3) # Kid(n, 1) /\ Kid(n, 3) # Kid(n, 2)
    BY <1>1, <1>2, KidFacts DEF Children
  <2> QED BY <2>1, <2>2
<1>5. <<c, d>> \in Seq({c, d}) /\ Apart(<<c, d>>) /\ Owe(<<c, d>>, Owed(c) \cup Owed(d))
  BY <1>4, OweTwo
<1> HIDE DEF c, d, r, S
<1> QED BY <1>1, <1>2, <1>3, <1>4, <1>5, BeginPlaces

LEMMA BranchPlaces ==
  ASSUME PlacesInv, EndOtherwise \/ VisitCondition \/ EndThen
  PROVE  PlacesInv'
<1> DEFINE n == todo[1].node
<1>1. /\ todo # <<>> /\ todo[1].do \in {"otherwise", "condition", "endThen"}
      /\ body' = body /\ left' = left
  BY DEF EndOtherwise, VisitCondition, EndThen, At
<1>2. GraphInv /\ GraphInv' /\ IsBody(body) /\ IsTree(body) /\ n \in Nodes
      /\ Kind(n) \in KindsFor[todo[1].do]
  BY <1>1, AtPlaces, BranchStep
<1>3. Adds(blocks, blocks', {})
  BY <1>2, AddsBlock DEF EndOtherwise, VisitCondition, EndThen
<1>4. CASE EndOtherwise
  <2> DEFINE c == Visit(Kid(n, 2))  d == Task("condition", n, block, Exit)
  <2>1. Replace(<<c, d>>) /\ todo[1].do = "otherwise" /\ Kind(n) = "conditional"
    BY <1>2, <1>4 DEF EndOtherwise, At, KindsFor
  <2>2. Owed(c) \cup Owed(d) \subseteq Owed(todo[1]) /\ Owed(c) \cap Owed(d) = {}
    <3>1. Owed(todo[1]) = {Kid(n, 1), Kid(n, 2)}
      BY <2>1 DEF Owed
    <3>2. Owed(c) = {Kid(n, 2)} /\ Owed(d) = {Kid(n, 1)}
      BY DEF Owed, Visit, Task, Call
    <3>3. Kid(n, 1) # Kid(n, 2)
      BY <1>2, <2>1, KidFacts
    <3> QED BY <3>1, <3>2, <3>3
  <2>3. <<c, d>> \in Seq({c, d}) /\ Apart(<<c, d>>) /\ Owe(<<c, d>>, Owed(c) \cup Owed(d))
    BY <2>2, OweTwo
  <2> HIDE DEF c, d
  <2> QED BY <1>1, <1>2, <1>3, <2>1, <2>2, <2>3, GoOnPlaces
<1>5. CASE VisitCondition \/ EndThen
  <2> DEFINE c == Visit(Kid(n, 1))
  <2>1. Replace(<<c>>) /\ todo[1].do \in {"condition", "endThen"}
    BY <1>5 DEF VisitCondition, EndThen, At
  <2>2. Owed(c) \subseteq Owed(todo[1])
    BY <2>1, OwedFacts DEF Owed
  <2>3. <<c>> \in Seq({c}) /\ Apart(<<c>>) /\ Owe(<<c>>, Owed(c))
    BY OweOne
  <2> HIDE DEF c
  <2> QED BY <1>1, <1>2, <1>3, <2>1, <2>2, <2>3, GoOnPlaces
<1> QED BY <1>4, <1>5

LEMMA LogicalPlaces ==
  ASSUME PlacesInv, VisitLogical
  PROVE  PlacesInv'
<1> DEFINE n == todo[1].node  c == Task("right", n, Home, Home)
<1>1. /\ todo # <<>> /\ todo[1].do = "visit" /\ Kind(n) \in Logical
      /\ blocks' = Placed(n) /\ Replace(<<c>>) /\ body' = body /\ left' = left
  BY DEF VisitLogical, AtVisit, At
<1>2. GraphInv /\ GraphInv' /\ IsBody(body) /\ IsTree(body) /\ n \in Nodes
  BY <1>1, AtPlaces, LogicalStep
<1>3. Adds(blocks, blocks', {n})
  BY <1>1, <1>2, AddsPlaced
<1>4. Owed(c) \subseteq Children(n)
  <2>1. Owed(c) = {Kid(n, 1), Kid(n, 2)}
    BY DEF Owed, Task, Call
  <2> QED BY <1>1, <1>2, <2>1, KidFacts DEF Children
<1>5. <<c>> \in Seq({c}) /\ Apart(<<c>>) /\ Owe(<<c>>, Owed(c))
  BY OweOne
<1> HIDE DEF c
<1> QED BY <1>1, <1>2, <1>3, <1>4, <1>5, BeginPlaces

\* A logical operand is taken over by the visitor of its operator.
LEMMA TakenOver ==
  ASSUME PlacesInv, todo # <<>>, NEW r \in Nodes \cap Owed(todo[1]), Kind(r) \in Logical
  PROVE  /\ {r} \in SUBSET (Nodes \cap Owed(todo[1]))
         /\ {Kid(r, 1), Kid(r, 2)} \subseteq HandedOn(todo[1], {r})
         /\ {Kid(r, 1), Kid(r, 2)} \cap Owed(todo[1]) = {}
<1>1. {Kid(r, 1), Kid(r, 2)} \subseteq Children(r) /\ Children(r) \subseteq Nodes
  BY AtPlaces, KidFacts, TreeFacts DEF Children
<1>2. Children(r) \cap Owed(todo[1]) = {}
  BY AtPlaces
<1> QED BY <1>1, <1>2 DEF HandedOn, Under

LEMMA RightPlaces ==
  ASSUME PlacesInv, VisitRight
  PROVE  PlacesInv'
<1> DEFINE t == todo[1]  n == t.node  r == Kid(n, 2)
<1>1. /\ todo # <<>> /\ t.do = "right" /\ body' = body /\ left' = left
  BY DEF VisitRight, At
<1>2. GraphInv /\ GraphInv' /\ IsBody(body) /\ IsTree(body) /\ n \in Nodes
      /\ Kind(n) \in Logical
  BY <1>1, AtPlaces, RightStep DEF KindsFor
<1>3. Owed(t) = {Kid(n, 1), r} /\ Kid(n, 1) # r /\ r \in Nodes
  BY <1>1, <1>2, KidFacts, Kids DEF Owed
<1>4. CASE Kind(r) \in Logical
  <2> DEFINE c == Call("right", r, t.term, t.x, t.y, Exit)
             d == Task("leftOfNested", n, t.x, t.y)
  <2>1. Replace(<<c, d>>) /\ blocks' = blocks
    BY <1>4 DEF VisitRight
  <2>2. /\ {r} \in SUBSET (Nodes \cap Owed(t))
        /\ {Kid(r, 1), Kid(r, 2)} \subseteq HandedOn(t, {r})
        /\ {Kid(r, 1), Kid(r, 2)} \cap Owed(t) = {}
    BY <1>1, <1>3, <1>4, TakenOver
  <2>3. Owed(c) = {Kid(r, 1), Kid(r, 2)} /\ Owed(d) = {Kid(n, 1)}
    BY DEF Owed, Task, Call
  <2>4. Owed(d) \subseteq HandedOn(t, {r})
    BY <1>3, <2>3 DEF HandedOn
  <2>5. Owed(c) \cup Owed(d) \subseteq HandedOn(t, {r}) /\ Owed(c) \cap Owed(d) = {}
    BY <1>3, <2>2, <2>3, <2>4
  <2>6. <<c, d>> \in Seq({c, d}) /\ Apart(<<c, d>>) /\ Owe(<<c, d>>, Owed(c) \cup Owed(d))
    BY <2>5, OweTwo
  <2>7. Owe(<<c, d>>, HandedOn(t, {r})) /\ Adds(blocks, blocks', {r})
    BY <2>1, <2>5, <2>6, AddsSame DEF Owe
  <2> HIDE DEF c, d, r
  <2> QED BY <1>1, <1>2, <2>1, <2>2, <2>6, <2>7, PlacesStep
<1>5. CASE Kind(r) \notin Logical
  <2> DEFINE c == Visit(r)  d == Call("left", n, 0, t.x, t.y, NewId)
             succs == IF t.term = 0 THEN <<t.x>> ELSE <<t.x, t.y>>
  <2>1. Replace(<<c, d>>) /\ Adds(blocks, blocks', {})
    <3>1. Replace(<<c, d>>) /\ blocks' = NewBlock(t.term, succs)
      BY <1>5 DEF VisitRight
    <3> HIDE DEF succs
    <3> QED BY <1>2, <3>1, AddsBlock
  <2>2. Owed(c) \cup Owed(d) \subseteq Owed(t) /\ Owed(c) \cap Owed(d) = {}
    <3>1. Owed(c) = {r} /\ Owed(d) = {Kid(n, 1)}
      BY DEF Owed, Visit, Task, Call
    <3> QED BY <1>3, <3>1
  <2>3. <<c, d>> \in Seq({c, d}) /\ Apart(<<c, d>>) /\ Owe(<<c, d>>, Owed(c) \cup Owed(d))
    BY <2>2, OweTwo
  <2> HIDE DEF c, d
  <2> QED BY <1>1, <1>2, <2>1, <2>2, <2>3, GoOnPlaces
<1> QED BY <1>4, <1>5

LEMMA LeftPlaces ==
  ASSUME PlacesInv, GraphInv', todo # <<>>, todo[1].do \in {"left", "leftOfNested"},
         NEW true, NEW false, NEW rhs,
         Left(todo[1].node, true, false, rhs), body' = body, left' = left
  PROVE  PlacesInv'
<1> DEFINE t == todo[1]  n == t.node  l == Kid(n, 1)
<1>1. GraphInv /\ IsBody(body) /\ IsTree(body) /\ n \in Nodes /\ Kind(n) \in Logical
  BY AtPlaces DEF KindsFor
<1>2. Owed(t) = {l} /\ l \in Nodes
  BY <1>1, Kids DEF Owed
<1>3. CASE Kind(l) \in Logical
  <2> DEFINE c == IF Kind(l) = "and" THEN Call("right", l, n, rhs, false, Exit)
                  ELSE Call("right", l, n, true, rhs, Exit)
  <2>1. Replace(<<c>>) /\ blocks' = blocks
    BY <1>3 DEF Left
  <2>2. /\ {l} \in SUBSET (Nodes \cap Owed(t))
        /\ {Kid(l, 1), Kid(l, 2)} \subseteq HandedOn(t, {l})
    BY <1>2, <1>3, TakenOver
  <2>3. Owed(c) = {Kid(l, 1), Kid(l, 2)}
    BY OwedFacts
  <2>4. <<c>> \in Seq({c}) /\ Apart(<<c>>) /\ Owe(<<c>>, Owed(c))
    BY OweOne
  <2>5. Owe(<<c>>, HandedOn(t, {l})) /\ Adds(blocks, blocks', {l})
    BY <2>1, <2>2, <2>3, <2>4, AddsSame DEF Owe
  <2> HIDE DEF c, l
  <2> QED BY <1>1, <2>1, <2>2, <2>4, <2>5, PlacesStep
<1>4. CASE Kind(l) \notin Logical
  <2> DEFINE c == Visit(l)  succs == IF Kind(n) = "and" THEN <<rhs, false>> ELSE <<true, rhs>>
  <2>1. Replace(<<c>>) /\ Adds(blocks, blocks', {})
    <3>1. Replace(<<c>>) /\ blocks' = NewBlock(n, succs)
      BY <1>4 DEF Left
    <3> HIDE DEF succs
    <3> QED BY <1>1, <3>1, AddsBlock
  <2>2. Owed(c) \subseteq Owed(t)
    BY <1>2, OwedFacts
  <2>3. <<c>> \in Seq({c}) /\ Apart(<<c>>) /\ Owe(<<c>>, Owed(c))
    BY OweOne
  <2> HIDE DEF c
  <2> QED BY <1>1, <2>1, <2>2, <2>3, GoOnPlaces
<1> QED BY <1>3, <1>4

LEMMA VisitLeftPlaces ==
  ASSUME PlacesInv, VisitLeft
  PROVE  PlacesInv'
<1>1. GraphInv' /\ body' = body /\ left' = left
  BY VisitLeftStep DEF PlacesInv, VisitLeft
<1>2. CASE At("left") /\ Left(todo[1].node, todo[1].x, todo[1].y, todo[1].z)
  <2>1. todo # <<>> /\ todo[1].do = "left"
    BY <1>2 DEF At
  <2> QED BY <1>1, <1>2, <2>1, LeftPlaces
<1>3. CASE At("leftOfNested") /\ Left(todo[1].node, todo[1].x, todo[1].y, block)
  <2>1. todo # <<>> /\ todo[1].do = "leftOfNested"
    BY <1>3 DEF At
  <2> QED BY <1>1, <1>3, <2>1, LeftPlaces
<1> QED BY <1>2, <1>3 DEF VisitLeft

LEMMA ReturnPlaces ==
  ASSUME PlacesInv, VisitReturn
  PROVE  PlacesInv'
<1> DEFINE n == todo[1].node  k == body.kids[n]
<1>1. /\ todo # <<>> /\ todo[1].do = "visit" /\ Replace(Reversed(k))
      /\ blocks' = Append(blocks, [elems |-> <<n>>, term |-> 0, succs |-> <<Exit>>])
      /\ body' = body /\ left' = left
  BY DEF VisitReturn, AtVisit, At
<1>2. GraphInv /\ GraphInv' /\ IsBody(body) /\ IsTree(body) /\ n \in Nodes
  BY <1>1, AtPlaces, ReturnStep
<1>3. Adds(blocks, blocks', {n})
  BY <1>1, <1>2, AddsBlock
<1>4. k \in Seq(Nodes) /\ Distinct(k) /\ Elements(k) \subseteq Children(n)
  BY <1>2, Kids, TreeFacts DEF Children
<1>5. Reversed(k) \in Seq(PlainCalls(1)) /\ Apart(Reversed(k)) /\ Owe(Reversed(k), Elements(k))
  BY <1>2, <1>4, PlainVisits, OweVisits
<1> HIDE DEF k
<1> QED BY <1>1, <1>2, <1>3, <1>4, <1>5, BeginPlaces

\* What is below an if or a loop, list by list.
LEMMA BranchFacts ==
  ASSUME IsBody(body), IsTree(body), NEW n \in Nodes, Kind(n) \in {"if", "while", "for"}
  PROVE  /\ body.then[n] \in Seq(Nodes) /\ Distinct(body.then[n])
         /\ body.else[n] \in Seq(Nodes) /\ Distinct(body.else[n])
         /\ Kid(n, 1) \in Elements(body.kids[n])
         /\ Elements(body.kids[n]) \cap Elements(body.then[n]) = {}
         /\ Elements(body.kids[n]) \cap Elements(body.else[n]) = {}
         /\ Elements(body.then[n]) \cap Elements(body.else[n]) = {}
BY Kids, TreeFacts, KidFacts

LEMMA IfPlaces ==
  ASSUME PlacesInv, VisitIf \/ EndElse
  PROVE  PlacesInv'
<1> DEFINE n == todo[1].node  then == body.then[n]  else == body.else[n]
<1>1. /\ todo # <<>> /\ todo[1].do \in {"visit", "endElse"} /\ body' = body /\ left' = left
      /\ todo[1].do = "visit" => Kind(n) = "if"
  BY DEF VisitIf, EndElse, AtVisit, At, BeginThen
<1>2. GraphInv /\ GraphInv' /\ IsBody(body) /\ IsTree(body) /\ n \in Nodes /\ Kind(n) = "if"
  BY <1>1, AtPlaces, IfStep DEF KindsFor
<1>3. /\ then \in Seq(Nodes) /\ Distinct(then) /\ else \in Seq(Nodes) /\ Distinct(else)
      /\ Kid(n, 1) \in Elements(body.kids[n])
      /\ Elements(body.kids[n]) \cap Elements(then) = {}
      /\ Elements(body.kids[n]) \cap Elements(else) = {}
      /\ Elements(then) \cap Elements(else) = {}
  BY <1>2, BranchFacts
<1>4. Adds(blocks, blocks', {}) /\ Adds(blocks, blocks', {n})
  BY <1>2, AddsBlock DEF VisitIf, EndElse, BeginThen
<1>5. ASSUME NEW x
      PROVE  LET c == Task("endThen", n, x, Exit)  calls == Append(Reversed(then), c) IN
             /\ calls \in Seq(PlainCalls(1) \cup {c}) /\ Apart(calls)
             /\ Owe(calls, Elements(then) \cup {Kid(n, 1)})
  <2> DEFINE c == Task("endThen", n, x, Exit)
  <2>1. Owed(c) = {Kid(n, 1)}
    BY DEF Owed, Task, Call
  <2>2. Elements(then) \cap Owed(c) = {}
    BY <1>3, <2>1
  <2> HIDE DEF c, then
  <2>3. LET calls == Append(Reversed(then), c) IN
        /\ calls \in Seq(PlainCalls(1) \cup {c}) /\ Apart(calls)
        /\ Owe(calls, Elements(then) \cup Owed(c))
    BY <1>2, <1>3, <2>2, ListThen
  <2> QED BY <2>1, <2>3 DEF c
<1>6. ASSUME NEW x
      PROVE  LET c == Task("endElse", n, x, Exit)  calls == Append(Reversed(else), c) IN
             /\ calls \in Seq(PlainCalls(1) \cup {c}) /\ Apart(calls)
             /\ Owe(calls, Elements(else) \cup Elements(then) \cup {Kid(n, 1)})
  <2> DEFINE c == Task("endElse", n, x, Exit)
  <2>1. Owed(c) = Elements(then) \cup {Kid(n, 1)}
    BY DEF Owed, Task, Call
  <2>2. Elements(else) \cap Owed(c) = {}
    BY <1>3, <2>1
  <2> HIDE DEF c, else, then
  <2>3. LET calls == Append(Reversed(else), c) IN
        /\ calls \in Seq(PlainCalls(1) \cup {c}) /\ Apart(calls)
        /\ Owe(calls, Elements(else) \cup Owed(c))
    BY <1>2, <1>3, <2>2, ListThen
  <2>4. Elements(else) \cup Owed(c) = Elements(else) \cup Elements(then) \cup {Kid(n, 1)}
    BY <2>1
  <2> QED BY <2>3, <2>4 DEF c
<1>7. CASE VisitIf /\ else = <<>>
  <2>1. Replace(Append(Reversed(then), Task("endThen", n, Following, Exit))) /\ todo[1].do = "visit"
    BY <1>7 DEF VisitIf, BeginThen, AtVisit, At
  <2>2. Elements(then) \cup {Kid(n, 1)} \subseteq Children(n)
    BY <1>3 DEF Children
  <2> QED BY <1>1, <1>2, <1>4, <1>5, <2>1, <2>2, BeginPlaces
<1>8. CASE VisitIf /\ else # <<>>
  <2>1. Replace(Append(Reversed(else), Task("endElse", n, Following, Exit))) /\ todo[1].do = "visit"
    BY <1>8 DEF VisitIf, AtVisit, At
  <2>2. Elements(else) \cup Elements(then) \cup {Kid(n, 1)} \subseteq Children(n)
    BY <1>3 DEF Children
  <2> QED BY <1>1, <1>2, <1>4, <1>6, <2>1, <2>2, BeginPlaces
<1>9. CASE EndElse
  <2>1. Replace(Append(Reversed(then), Task("endThen", n, block, Exit))) /\ todo[1].do = "endElse"
    BY <1>9 DEF EndElse, BeginThen, At
  <2>2. Elements(then) \cup {Kid(n, 1)} \subseteq Owed(todo[1])
    BY <2>1 DEF Owed
  <2> QED BY <1>1, <1>2, <1>4, <1>5, <2>1, <2>2, GoOnPlaces
<1> QED BY <1>7, <1>8, <1>9

LEMMA LoopPlaces ==
  ASSUME PlacesInv, VisitLoop
  PROVE  PlacesInv'
<1> DEFINE n == todo[1].node  then == body.then[n]  c == Task("header", n, NewId, Following)
           calls == Append(Reversed(then), c)
<1>1. /\ todo # <<>> /\ todo[1].do = "visit" /\ Kind(n) \in {"while", "for"}
      /\ Replace(calls) /\ blocks' = NewBlock(0, <<>>) /\ body' = body /\ left' = left
  BY DEF VisitLoop, AtVisit, At
<1>2. GraphInv /\ GraphInv' /\ IsBody(body) /\ IsTree(body) /\ n \in Nodes
  BY <1>1, AtPlaces, LoopStep
<1>3. Adds(blocks, blocks', {n})
  BY <1>1, <1>2, AddsBlock
<1>4. then \in Seq(Nodes) /\ Distinct(then) /\ Elements(body.kids[n]) \cap Elements(then) = {}
  BY <1>1, <1>2, BranchFacts
<1>5. Owed(c) = Elements(body.kids[n])
  BY DEF Owed, Task, Call
<1>6. Elements(then) \cap Owed(c) = {} /\ Elements(then) \cup Owed(c) \subseteq Children(n)
  BY <1>4, <1>5 DEF Children
<1> HIDE DEF then, c
<1>7. /\ calls \in Seq(PlainCalls(1) \cup {c}) /\ Apart(calls)
      /\ Owe(calls, Elements(then) \cup Owed(c))
  BY <1>2, <1>4, <1>6, ListThen
<1> HIDE DEF calls
<1> QED BY <1>1, <1>2, <1>3, <1>6, <1>7, BeginPlaces

LEMMA HeaderPlaces ==
  ASSUME PlacesInv, Header
  PROVE  PlacesInv'
<1> DEFINE t == todo[1]  n == t.node  c == Visit(Kid(n, 1))  d == Task("endLoop", n, Exit, Exit)
           bs == NewBlock(t.node, <<block, t.y>>)
<1>1. /\ todo # <<>> /\ t.do = "header" /\ Replace(<<c, d>>)
      /\ blocks' = [bs EXCEPT ![t.x].succs = Append(@, NewId)] /\ body' = body /\ left' = left
  BY DEF Header, At
<1>2. GraphInv /\ GraphInv' /\ IsBody(body) /\ IsTree(body) /\ n \in Nodes
      /\ Kind(n) \in {"while", "for"} /\ TypeOK
  BY <1>1, AtPlaces, AtCall, HeaderStep DEF KindsFor
<1>3. Adds(blocks, blocks', {})
  <2>1. Adds(blocks, bs, {})
    BY <1>2, AddsBlock
  <2>2. bs \in Seq(Blocks \cup {[elems |-> <<>>, term |-> n, succs |-> <<block, t.y>>]})
    <3> DEFINE r == [elems |-> <<>>, term |-> n, succs |-> <<block, t.y>>]
               S == Blocks \cup {r}
    <3>1. blocks \in Seq(Blocks) /\ Blocks \subseteq S /\ r \in S /\ bs = Append(blocks, r)
      BY <1>2 DEF TypeOK, NewBlock
    <3> HIDE DEF S, r, bs
    <3>2. blocks \in Seq(S)
      BY <3>1, SeqMonotonic
    <3>3. bs \in Seq(S)
      BY <3>1, <3>2, AppendProperties
    <3> QED BY <3>3 DEF S, r
  <2>3. \A b \in 1 .. Len(bs) : bs[b] \in [elems : Seq(Nodes), term : Nodes \cup {0}, succs : Seq(Ids)]
                                \/ bs[b] = [elems |-> <<>>, term |-> n, succs |-> <<block, t.y>>]
    <3> DEFINE r == [elems |-> <<>>, term |-> n, succs |-> <<block, t.y>>]
    <3>1. bs \in Seq(Blocks \cup {r})
      BY <2>2
    <3> HIDE DEF bs, r
    <3>2. \A b \in 1 .. Len(bs) : bs[b] \in Blocks \/ bs[b] = r
      BY <3>1, ElementOfSeq
    <3> QED BY <3>2 DEF Blocks, r
  <2> HIDE DEF bs
  <2>4. Len(blocks') = Len(bs) /\ DOMAIN bs = 1 .. Len(bs)
    BY <1>1, <2>2
  <2>5. ASSUME NEW b \in 1 .. Len(bs)
        PROVE  blocks'[b].elems = bs[b].elems
    <3> DEFINE old == bs[b]
    <3>1. blocks'[b] = old \/ blocks'[b] = [old EXCEPT !.succs = Append(@, NewId)]
      BY <1>1, <2>4, Zenon
    <3>2. [old EXCEPT !.succs = Append(@, NewId)].elems = old.elems
      <4>1. old \in [elems : Seq(Nodes), term : Nodes \cup {0}, succs : Seq(Ids)]
            \/ old = [elems |-> <<>>, term |-> n, succs |-> <<block, t.y>>]
        BY <2>3
      <4> HIDE DEF old
      <4> QED BY <4>1
    <3> QED BY <3>1, <3>2
  <2> QED BY <2>1, <2>4, <2>5, AddsEdges
<1>4. Owed(c) \cup Owed(d) \subseteq Owed(t) /\ Owed(c) \cap Owed(d) = {}
  <2>1. Owed(c) = {Kid(n, 1)} /\ Owed(d) = Elements(body.kids[n]) \ {Kid(n, 1)}
    BY DEF Owed, Visit, Task, Call
  <2>2. Owed(t) = Elements(body.kids[n])
    BY <1>1 DEF Owed
  <2>3. Kid(n, 1) \in Elements(body.kids[n])
    BY <1>2, BranchFacts
  <2> QED BY <2>1, <2>2, <2>3
<1>5. <<c, d>> \in Seq({c, d}) /\ Apart(<<c, d>>) /\ Owe(<<c, d>>, Owed(c) \cup Owed(d))
  BY <1>4, OweTwo
<1> HIDE DEF c, d, bs
<1> QED BY <1>1, <1>2, <1>3, <1>4, <1>5, GoOnPlaces

LEMMA EndLoopPlaces ==
  ASSUME PlacesInv, EndLoop
  PROVE  PlacesInv'
<1> DEFINE n == todo[1].node
<1>1. todo # <<>> /\ todo[1].do = "endLoop" /\ body' = body /\ left' = left
  BY DEF EndLoop, At
<1>2. GraphInv /\ GraphInv' /\ IsBody(body) /\ IsTree(body) /\ n \in Nodes
      /\ Kind(n) \in {"while", "for"}
  BY <1>1, AtPlaces, EndLoopStep DEF KindsFor
<1>3. CASE Kind(n) = "while"
  <2>1. Replace(<<>>) /\ blocks' = blocks
    BY <1>3 DEF EndLoop
  <2>2. <<>> \in Seq({}) /\ Apart(<<>>) /\ Owe(<<>>, {}) /\ {} \subseteq Owed(todo[1])
    BY DEF Apart, Owe
  <2> QED BY <1>1, <1>2, <2>1, <2>2, AddsSame, GoOnPlaces
<1>4. CASE Kind(n) = "for"
  <2> DEFINE c == Visit(Kid(n, 2))
  <2>1. Replace(<<c>>) /\ Adds(blocks, blocks', {})
    BY <1>2, <1>4, AddsBlock DEF EndLoop
  <2>2. Owed(c) \subseteq Owed(todo[1])
    <3>1. Owed(c) = {Kid(n, 2)}
      BY DEF Owed, Visit, Task, Call
    <3>2. Owed(todo[1]) = Elements(body.kids[n]) \ {Kid(n, 1)}
      BY <1>1 DEF Owed
    <3>3. Kid(n, 2) \in Elements(body.kids[n]) /\ Kid(n, 1) # Kid(n, 2)
      BY <1>2, <1>4, KidFacts
    <3> QED BY <3>1, <3>2, <3>3
  <2>3. <<c>> \in Seq({c}) /\ Apart(<<c>>) /\ Owe(<<c>>, Owed(c))
    BY OweOne
  <2> HIDE DEF c
  <2> QED BY <1>1, <1>2, <2>1, <2>2, <2>3, GoOnPlaces
<1> QED BY <1>2, <1>3, <1>4

\* Steps that visit no node.
LEMMA StatementPlaces ==
  ASSUME PlacesInv, Statement
  PROVE  PlacesInv'
<1> DEFINE s == body.top[left]  c == Visit(s)  d == Task("statement", s, Exit, Exit)
<1>1. /\ GraphInv /\ GraphInv' /\ IsBody(body) /\ IsTree(body) /\ PlacedOnce
      /\ left \in 1 .. Len(body.top) /\ Len(body.top) \in Nat
  BY StatementStep, BodyFacts DEF Statement, PlacesInv, GraphInv, TypeOK
<1>2. /\ todo = <<>> /\ todo' = <<c, d>> /\ left' = left - 1
      /\ UNCHANGED <<body, blocks, block, succ, entry>>
  BY DEF Statement
<1>3. PICK V \in SUBSET Nodes : VisitedAt(V, blocks, todo, left)
  BY VisitedNow DEF PlacesInv
<1>4. Owed(c) = {s} /\ Owed(d) = {}
  BY DEF Owed, Visit, Task, Call
<1>5. Top(left') \subseteq Top(left) /\ s \in Top(left) /\ s \notin Top(left')
  <2>1. \A i \in 1 .. left' : i \in 1 .. left /\ i \in 1 .. Len(body.top) /\ i # left
    BY <1>1, <1>2
  <2>2. Distinct(body.top)
    BY <1>1 DEF IsTree
  <2>3. \A i \in 1 .. left' : body.top[i] # s
    BY <1>1, <2>1, <2>2 DEF Distinct
  <2>4. left \in 1 .. left
    BY <1>1
  <2> QED BY <2>1, <2>3, <2>4 DEF Top
<1>6. Top(left) \cap V = {} /\ \A b \in 1 .. Len(blocks) : Elements(blocks[b].elems) \subseteq V
  BY <1>3 DEF VisitedAt
<1>7. \A m \in Nodes : Elements(Below(body, m)) \cap Elements(body.top) = {}
  BY <1>1 DEF IsTree, Nodes
<1>8. s \in Elements(body.top)
  BY <1>1 DEF Elements
<1>9. \A m \in Nodes \ V : Elements(Below(body, m)) \cap V = {}
  BY <1>3 DEF VisitedAt
<1> HIDE DEF c, d, s
<1>10. VisitedAt(V, blocks', todo', left')
  <2> DEFINE q == <<c, d>>
  <2>1. Len(q) = 2 /\ q[1] = c /\ q[2] = d /\ \A i \in 1 .. Len(q) : i = 1 \/ i = 2
    OBVIOUS
  <2>2. Apart(q)
    BY <1>4, OweTwo
  <2> HIDE DEF q
  <2>3. \A i \in 1 .. Len(q) : Owed(q[i]) \subseteq {s}
    BY <1>4, <2>1
  <2>4. \A i \in 1 .. Len(q) : Owed(q[i]) \cap (V \cup Top(left')) = {}
    BY <1>5, <1>6, <2>3
  <2>5. \A m \in Nodes \ V : \A i \in 1 .. Len(q) : Elements(Below(body, m)) \cap Owed(q[i]) = {}
    BY <1>7, <1>8, <2>3
  <2>6. Top(left') \cap V = {}
    BY <1>5, <1>6
  <2>7. VisitedAt(V, blocks, q, left')
    BY <1>6, <1>9, <2>2, <2>4, <2>5, <2>6 DEF VisitedAt
  <2> QED BY <1>2, <2>7 DEF q
<1>11. VisitedOnce(V)' /\ Nodes' = Nodes
  BY <1>2, <1>10, VisitedNext DEF Nodes
<1>12. PlacedOnce' /\ IsTree(body')
  BY <1>1, <1>2, <1>11 DEF PlacedOnce, Placements, Ids
<1> QED BY <1>1, <1>11, <1>12 DEF PlacesInv, IsTree

LEMMA EndStatementPlaces ==
  ASSUME PlacesInv, EndStatement
  PROVE  PlacesInv'
<1>1. /\ todo # <<>> /\ Replace(<<>>) /\ blocks' = blocks /\ body' = body /\ left' = left
  BY DEF EndStatement, At
<1>2. GraphInv'
  BY EndStatementStep DEF PlacesInv
<1>3. <<>> \in Seq({}) /\ Apart(<<>>) /\ Owe(<<>>, {}) /\ {} \subseteq Owed(todo[1])
  BY DEF Apart, Owe
<1> QED BY <1>1, <1>2, <1>3, AddsSame, GoOnPlaces

\* Nothing is under way and the blocks get no element.
LEMMA QuietPlaces ==
  ASSUME PlacesInv, GraphInv', Adds(blocks, blocks', {}), UNCHANGED <<body, left, todo>>
  PROVE  PlacesInv'
<1>1. PICK V \in SUBSET Nodes : VisitedAt(V, blocks, todo, left)
  BY VisitedNow DEF PlacesInv
<1>2. \A b \in 1 .. Len(blocks) : Elements(blocks[b].elems) \subseteq V
  BY <1>1 DEF VisitedAt
<1>3. GraphInv /\ PlacedOnce /\ IsTree(body) /\ {} \cap V = {}
  BY DEF PlacesInv
<1>4. PlacedOnce' /\ \A b \in 1 .. Len(blocks') : Elements(blocks'[b].elems) \subseteq V \cup {}
  BY <1>2, <1>3, PlacedStep
<1>5. VisitedAt(V, blocks', todo', left')
  BY <1>1, <1>4 DEF VisitedAt
<1>6. VisitedOnce(V)' /\ Nodes' = Nodes
  BY <1>5, VisitedNext DEF Nodes
<1> QED BY <1>3, <1>4, <1>6 DEF PlacesInv, IsTree

LEMMA EndFunctionPlaces ==
  ASSUME PlacesInv, EndFunction
  PROVE  PlacesInv'
<1>1. GraphInv /\ GraphInv' /\ blocks' = NewBlock(0, <<succ>>) /\ UNCHANGED <<body, left, todo>>
  BY EndFunctionStep DEF EndFunction, PlacesInv
<1>2. Adds(blocks, blocks', {})
  <2> DEFINE r == [elems |-> <<>>, term |-> 0, succs |-> <<succ>>]
             S == Blocks \cup {r}
  <2>1. blocks \in Seq(Blocks) /\ Blocks \subseteq S /\ r \in S /\ r.elems = <<>>
        /\ blocks' = Append(blocks, r)
    BY <1>1 DEF GraphInv, TypeOK, NewBlock
  <2> HIDE DEF S, r
  <2>2. blocks \in Seq(S)
    BY <2>1, SeqMonotonic
  <2> QED BY <2>1, <2>2, AddsSame, AddsEmpty
<1> QED BY <1>1, <1>2, QuietPlaces

LEMMA InitPlaces ==
  ASSUME Init
  PROVE  PlacesInv
<1>1. GraphInv /\ IsTree(body) /\ IsBody(body)
  BY InitGraph, BodiesAssumption DEF Init
<1>2. /\ blocks = <<[elems |-> <<>>, term |-> 0, succs |-> <<>>]>> /\ todo = <<>>
      /\ left = Len(body.top)
  BY DEF Init
<1>3. Len(blocks) = 1 /\ Len(blocks[1].elems) = 0 /\ Len(todo) = 0
  BY <1>2
<1>4. \A b \in 1 .. Len(blocks) : Len(blocks[b].elems) = 0
  BY <1>3
<1>5. PlacedOnce
  <2>1. \A n \in Nodes : Placements(n) = {}
    BY <1>4 DEF Placements, Ids, Nodes
  <2> QED BY <2>1 DEF PlacedOnce
<1>6. VisitedAt({}, blocks, todo, left)
  <2>1. \A b \in 1 .. Len(blocks) : Elements(blocks[b].elems) = {}
    BY <1>4 DEF Elements
  <2>2. Apart(todo)
    BY <1>3 DEF Apart
  <2> QED BY <1>3, <2>1, <2>2 DEF VisitedAt
<1>7. VisitedOnce({})
  BY <1>6, VisitedNow
<1> QED BY <1>1, <1>5, <1>7 DEF PlacesInv

\* At every step of the builder the nodes placed are nodes visited, each by one
\* visitor, which hands each node below it to one call (CFG.cpp:80-386).
THEOREM PlacesInvariant == Spec => []PlacesInv
<1>1. Init => PlacesInv
  BY InitPlaces
<1>2. PlacesInv /\ [Next]_vars => PlacesInv'
  <2> SUFFICES ASSUME PlacesInv, [Next]_vars PROVE PlacesInv'
    OBVIOUS
  <2>1. CASE Statement \/ EndStatement \/ EndFunction
    BY <2>1, StatementPlaces, EndStatementPlaces, EndFunctionPlaces
  <2>2. CASE VisitStrict \/ VisitExprStmt \/ VisitReturn
    BY <2>2, StrictPlaces, ExprStmtPlaces, ReturnPlaces
  <2>3. CASE VisitConditional \/ EndOtherwise \/ VisitCondition \/ EndThen
    BY <2>3, ConditionalPlaces, BranchPlaces
  <2>4. CASE VisitLogical \/ VisitRight \/ VisitLeft
    BY <2>4, LogicalPlaces, RightPlaces, VisitLeftPlaces
  <2>5. CASE VisitIf \/ EndElse
    BY <2>5, IfPlaces
  <2>6. CASE VisitLoop \/ Header \/ EndLoop
    BY <2>6, LoopPlaces, HeaderPlaces, EndLoopPlaces
  <2>7. CASE UNCHANGED vars
    <3>1. GraphInv'
      BY <2>7, Stutter DEF PlacesInv
    <3>2. blocks' = blocks /\ UNCHANGED <<body, left, todo>>
      BY <2>7 DEF vars
    <3> QED BY <3>1, <3>2, AddsSame, QuietPlaces
  <2> QED BY <2>1, <2>2, <2>3, <2>4, <2>5, <2>6, <2>7 DEF Next
<1> QED BY <1>1, <1>2, PTL DEF Spec

\* Every node of a function's body has at most one place in its graph, so the
\* printer's position of a node is the position of that node
\* (CFGPrinter.cpp:29).
THEOREM EveryNodeHasOnePlace == Spec => []PlacedOnce
<1>1. PlacesInv => PlacedOnce
  BY DEF PlacesInv
<1> QED BY <1>1, PlacesInvariant, PTL
=============================================================================
