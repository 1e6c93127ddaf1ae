--------------------------- MODULE TypeCheckProofs --------------------------
(***************************************************************************)
(* Proofs about the type checks: what is reported, what is accepted and    *)
(* where the analysis may stop, for any declarations, any statements of    *)
(* any size and any nesting of list types.                                 *)
(***************************************************************************)
EXTENDS TypeCheck, SequenceTheorems, TLAPS

-----------------------------------------------------------------------------
(* Types and expressions.                                                  *)

\* The predefined types are types, and no two of them are equal.
LEMMA PredefinedTypes ==
  /\ {ObjectTy, IntTy, StrTy, BoolTy, NoneTy, EmptyTy} \subseteq Types
  /\ \A t \in {ObjectTy, IntTy, StrTy, BoolTy, NoneTy, EmptyTy} : t # Nil /\ ~IsList(t)
  /\ NoneTy # EmptyTy
<1>1. ASSUME NEW w \in Words PROVE <<w>> \in Types /\ <<w>> # Nil /\ ~IsList(<<w>>)
  BY DEF Types, Nil, IsList
<1>2. /\ "object" \in Words /\ "int" \in Words /\ "str" \in Words /\ "bool" \in Words
      /\ "<None>" \in Words /\ "<Empty>" \in Words
  BY DEF Words
<1>3. <<"<None>">> # <<"<Empty>">>
  OBVIOUS
<1> QED BY <1>1, <1>2, <1>3 DEF ObjectTy, IntTy, StrTy, BoolTy, NoneTy, EmptyTy

\* A type in brackets is a type.
LEMMA ListTypes ==
  ASSUME NEW t \in Types PROVE ListOf(t) \in Types /\ ListOf(t) # Nil
<1>1. /\ t \in Seq(Words) /\ t # <<>> /\ Len(t) \in Nat
      /\ \A i \in 1 .. Len(t) - 1 : t[i] = "list"
  BY DEF Types, Nil
<1>2. "list" \in Words
  BY DEF Words
<1>3. /\ ListOf(t) \in Seq(Words) /\ Len(ListOf(t)) = Len(t) + 1
      /\ ListOf(t)[1] = "list" /\ \A i \in 2 .. Len(t) + 1 : ListOf(t)[i] = t[i - 1]
  BY <1>1, <1>2 DEF ListOf
<1>4. \A i \in 1 .. Len(ListOf(t)) - 1 : ListOf(t)[i] = "list"
  BY <1>1, <1>3
<1>5. ListOf(t) # <<>>
  BY <1>1, <1>3
<1> QED BY <1>3, <1>4, <1>5 DEF Types, Nil

\* A list type whose elements are None is the one such type.
LEMMA NoneLists ==
  ASSUME NEW t \in Types, IsList(t), Elem(t) = NoneTy
  PROVE  t = ListOf(NoneTy)
<1>1. /\ t \in Seq(Words) /\ Len(t) \in Nat /\ Len(t) > 1
      /\ \A i \in 1 .. Len(t) - 1 : t[i] = "list"
  BY DEF Types, Nil, IsList
<1>2. t[1] = "list" /\ Len(t) - 1 = Len(Tail(t))
  BY <1>1
<1>3. Tail(t) = <<"<None>">>
  BY DEF Elem, NoneTy
<1>4. Len(t) = 2 /\ t[2] = "<None>"
  <2>1. \A w : w = <<"<None>">> => Len(w) = 1 /\ w[1] = "<None>"
    OBVIOUS
  <2>2. Len(Tail(t)) = 1 /\ Tail(t)[1] = "<None>"
    BY ONLY <1>3, <2>1, Zenon
  <2> QED BY <1>1, <1>2, <2>2
<1> DEFINE u == <<"list", "<None>">>
<1>5. t = u
  <2>1. "list" \in Words /\ "<None>" \in Words
    BY DEF Words
  <2>2. u \in Seq(Words) /\ Len(u) = 2 /\ u[1] = "list" /\ u[2] = "<None>"
    BY <2>1
  <2> HIDE DEF u
  <2>3. Len(t) = Len(u) /\ \A i \in 1 .. Len(t) : t[i] = u[i]
    BY <1>2, <1>4, <2>2
  <2> QED BY <1>1, <2>2, <2>3, SeqEqual
<1> QED BY <1>5 DEF ListOf, NoneTy

\* Expressions as the visits build them.
LEMMA NodeType ==
  ASSUME NEW k \in Kinds \ {"if", "index"}, NEW t \in Types \cup {Nil}
  PROVE  Node(k, t) \in Expr /\ Node(k, t).k = k /\ Node(k, t).ty = t
BY DEF Node, Nodes, Expr

\* A stack whose last elements give way to one.
LEMMA Reduced ==
  ASSUME NEW S, NEW q \in Seq(S), NEW n \in 0 .. Len(q), NEW e \in S
  PROVE  LET r == SubSeq(q, 1, Len(q) - n) \o <<e>> IN
         /\ r \in Seq(S) /\ Len(r) = Len(q) - n + 1
         /\ \A i \in 1 .. Len(r) : r[i] = e \/ \E j \in 1 .. Len(q) : r[i] = q[j]
<1> DEFINE m == Len(q) - n
           p == SubSeq(q, 1, m)
           r == p \o <<e>>
<1>1. m \in 0 .. Len(q) /\ Len(q) \in Nat /\ \A j \in 1 .. Len(q) : q[j] \in S
  OBVIOUS
<1>2. p \in Seq(S) /\ Len(p) = m /\ \A i \in 1 .. m : p[i] = q[i]
  <2> HIDE DEF m
  <2>1. \A i \in 1 .. m : q[i] \in S
    BY <1>1
  <2> QED BY <1>1, <2>1, SubSeqProperties, SMTT(30)
<1> HIDE DEF p
<1>3. /\ r \in Seq(S) /\ Len(r) = m + 1 /\ r[m + 1] = e
      /\ \A i \in 1 .. m : r[i] = p[i]
  <2> HIDE DEF m
  <2> QED BY <1>1, <1>2
<1> HIDE DEF r
<1>4. ASSUME NEW i \in 1 .. m + 1 PROVE r[i] = e \/ \E j \in 1 .. Len(q) : r[i] = q[j]
  <2>1. i = m + 1 \/ i \in 1 .. m
    BY <1>1
  <2>2. CASE i \in 1 .. m
    <3>1. i \in 1 .. Len(q) /\ r[i] = q[i]
      BY <1>1, <1>2, <1>3, <2>2
    <3> QED BY <3>1
  <2> QED BY <1>3, <2>1, <2>2
<1>5. r \in Seq(S) /\ Len(r) = m + 1
      /\ \A i \in 1 .. Len(r) : r[i] = e \/ \E j \in 1 .. Len(q) : r[i] = q[j]
  BY <1>3, <1>4
<1> QED BY <1>5 DEF r, p

-----------------------------------------------------------------------------
(* What the steps are made of.                                             *)

\* What a kind of step adds is typed, marked and reported.
LEMMA VisitKeeps ==
  ASSUME CheckInv, NEW n \in Nat, NEW node \in Expr, NEW errs \in SUBSET Diagnostics,
         NEW wrong \in SUBSET Traits, Visit(n, node, errs, wrong),
         node.k \in {"literal", "ref", "binary"} => node.ty # Nil,
         node.ty = Nil \/ node.k \in Unusual =>
           Marked \/ errs # {} \/ "fancy" \in wrong,
         "undeclared" \in wrong => errs # {}
  PROVE  CheckInv'
<1>1. /\ status = "running" /\ form \in Open /\ count < sample.nodes
      /\ Len(stack) >= n /\ Len(stack) - n < MaxStack
      /\ stack' = SubSeq(stack, 1, Len(stack) - n) \o <<node>>
      /\ count' = count + 1 /\ errors' = errors \cup errs
      /\ traits' = traits \cup wrong
      /\ UNCHANGED <<sample, form, callee, assigned, status>>
  BY DEF Visit
<1>2. TypeOK
  BY DEF CheckInv
<1>3. stack \in Seq(Expr) /\ Len(stack) \in Nat /\ n \in 0 .. Len(stack)
  BY <1>1, <1>2 DEF TypeOK
<1>4. /\ stack' \in Seq(Expr) /\ Len(stack') = Len(stack) - n + 1
      /\ \A i \in 1 .. Len(stack') :
           stack'[i] = node \/ \E j \in 1 .. Len(stack) : stack'[i] = stack[j]
  BY <1>1, <1>3, Reduced
<1>5. TypeOK'
  <2>1. Len(stack') <= MaxStack
    BY <1>1, <1>3, <1>4, BoundsAssumption
  <2>2. \A i \in 1 .. Len(stack') :
          stack'[i].k \in {"literal", "ref", "binary"} => stack'[i].ty # Nil
    BY <1>2, <1>4 DEF TypeOK
  <2>3. count' \in 0 .. sample'.nodes
    <3>1. sample.nodes \in Nat /\ count \in 0 .. sample.nodes
      BY <1>2, SamplesAssumption DEF TypeOK, IsSample
    <3> QED BY <1>1, <3>1
  <2> QED BY <1>1, <1>2, <1>4, <2>1, <2>2, <2>3 DEF TypeOK
<1>6. (Marked => Marked') /\ (errors # {} => errors' # {})
  BY <1>1 DEF Marked
<1>7. UnusualMarked'
  <2>1. ASSUME NEW i \in 1 .. Len(stack'),
               stack'[i].ty = Nil \/ stack'[i].k \in Unusual
        PROVE  Marked'
    <3>1. CASE stack'[i] = node
      BY <1>1, <1>6, <2>1, <3>1 DEF Marked
    <3>2. ASSUME NEW j \in 1 .. Len(stack), stack'[i] = stack[j] PROVE Marked'
      BY <1>6, <2>1, <3>2 DEF CheckInv, UnusualMarked
    <3> QED BY <1>4, <3>1, <3>2
  <2> QED BY <1>1, <1>6, <2>1 DEF CheckInv, UnusualMarked
<1>8. UndeclaredMet' /\ PlainNeverCrashes' /\ RefusedReported'
  BY <1>1, <1>6 DEF CheckInv, UndeclaredMet, PlainNeverCrashes, RefusedReported
<1>9. AcceptedFits' /\ ExactTypeAccepted'
  BY <1>1 DEF CheckInv, AcceptedFits, ExactTypeAccepted
<1> QED BY <1>5, <1>7, <1>8, <1>9 DEF CheckInv

\* A check may stop where the statement is marked, or unusual.
LEMMA CrashKeeps ==
  ASSUME CheckInv, NEW wrong \in SUBSET Traits, Crash(wrong),
         Marked \/ "fancy" \in wrong
  PROVE  CheckInv'
<1>1. /\ status = "running" /\ status' = "crashed" /\ traits' = traits \cup wrong
      /\ UNCHANGED <<sample, stack, form, callee, count, errors, assigned>>
  BY DEF Crash
<1>2. Marked'
  BY <1>1 DEF Marked
<1>3. TypeOK'
  BY <1>1 DEF CheckInv, TypeOK
<1>4. UnusualMarked' /\ UndeclaredMet' /\ PlainNeverCrashes' /\ RefusedReported'
  BY <1>1, <1>2 DEF CheckInv, UnusualMarked, UndeclaredMet, PlainNeverCrashes,
                    RefusedReported, Marked
<1>5. AcceptedFits' /\ ExactTypeAccepted'
  BY <1>1 DEF CheckInv, AcceptedFits, ExactTypeAccepted
<1> QED BY <1>3, <1>4, <1>5 DEF CheckInv

\* A check may end with what is undeclared reported, or in a part that was passed over.
LEMMA FinishKeeps ==
  ASSUME CheckInv, status = "running", NEW errs \in SUBSET Diagnostics,
         NEW f \in {"expr", "if", "loop", "assign"}, NEW wrong \in SUBSET Traits,
         Finish(errs, f, wrong), "undeclared" \in wrong => "unvisited" \in wrong
  PROVE  CheckInv'
<1>1. /\ status' = "done" /\ form' = f /\ stack' = <<>>
      /\ errors' = errors \cup errs /\ traits' = traits \cup wrong
      /\ UNCHANGED <<sample, count, assigned>>
  BY DEF Finish
<1>2. f \notin Open
  BY DEF Open
<1>3. TypeOK'
  <2>1. stack' \in Seq(Expr) /\ Len(stack') = 0
    BY <1>1
  <2> QED BY <1>1, <1>2, <2>1, BoundsAssumption DEF CheckInv, TypeOK
<1>4. UnusualMarked'
  BY <1>1 DEF UnusualMarked
<1>5. UndeclaredMet' /\ PlainNeverCrashes' /\ RefusedReported'
  BY <1>1 DEF CheckInv, UndeclaredMet, PlainNeverCrashes, RefusedReported
<1>6. AcceptedFits' /\ ExactTypeAccepted'
  BY <1>1 DEF CheckInv, AcceptedFits, ExactTypeAccepted
<1> QED BY <1>3, <1>4, <1>5, <1>6 DEF CheckInv

\* What the three notions of what fits have to do with one value, once errs are
\* reported.
Sound(g, errs) ==
  /\ Plain(g) /\ g.ok =>
       Compatible(g.from, g.to) \/ g.to = ObjectTy \/ g.from = ListOf(NoneTy)
  /\ Plain(g) /\ g.from = g.to => g.ok
  /\ ~g.ok /\ g.k # "if" => errs # {}

LEMMA SoundKept ==
  ASSUME CheckInv, NEW g, assigned' \subseteq assigned \cup {g},
         errors \subseteq errors', Sound(g, errors')
  PROVE  AcceptedFits' /\ ExactTypeAccepted' /\ RefusedReported'
<1>1. AcceptedFits'
  BY DEF CheckInv, AcceptedFits, Sound
<1>2. ExactTypeAccepted'
  BY DEF CheckInv, ExactTypeAccepted, Sound
<1>3. RefusedReported'
  BY DEF CheckInv, RefusedReported, Sound
<1> QED BY <1>1, <1>2, <1>3

\* The next target: the value stays on the stack.
LEMMA TargetPassed ==
  ASSUME CheckInv, status = "running", form = "target", Len(stack) \in {1, 2},
         stack' = <<stack[1]>>, NEW n \in {0, 1}, count + n <= sample.nodes,
         count' = count + n, NEW errs \in SUBSET Diagnostics,
         errors' = errors \cup errs, NEW g, assigned' = assigned \cup {g},
         NEW wrong \in SUBSET Traits, traits' = traits \cup wrong,
         "undeclared" \in wrong => "unvisited" \in wrong,
         UNCHANGED <<sample, form, callee, status>>, Sound(g, errors')
  PROVE  CheckInv'
<1>1. /\ stack \in Seq(Expr) /\ Len(stack) >= 1 /\ stack[1] \in Expr
      /\ 1 \in 1 .. Len(stack) /\ Len(stack) <= MaxStack
  BY DEF CheckInv, TypeOK
<1>2. stack' \in Seq(Expr) /\ Len(stack') = 1 /\ stack'[1] = stack[1]
  BY <1>1
<1>3. TypeOK'
  <2>1. count' \in 0 .. sample'.nodes
    <3>1. sample.nodes \in Nat /\ count \in 0 .. sample.nodes
      BY SamplesAssumption DEF CheckInv, TypeOK, IsSample
    <3> QED BY <3>1
  <2>2. \A i \in 1 .. Len(stack') :
          stack'[i].k \in {"literal", "ref", "binary"} => stack'[i].ty # Nil
    BY <1>1, <1>2 DEF CheckInv, TypeOK
  <2>3. Len(stack') <= MaxStack
    BY <1>1, <1>2, BoundsAssumption
  <2> QED BY <1>2, <2>1, <2>2, <2>3 DEF CheckInv, TypeOK
<1>4. UnusualMarked'
  BY <1>1, <1>2 DEF CheckInv, UnusualMarked, Marked
<1>5. UndeclaredMet' /\ PlainNeverCrashes'
  BY DEF CheckInv, UndeclaredMet, PlainNeverCrashes
<1>6. AcceptedFits' /\ ExactTypeAccepted' /\ RefusedReported'
  BY SoundKept
<1> QED BY <1>3, <1>4, <1>5, <1>6 DEF CheckInv

\* A target whose parts are visited.
LEMMA TargetKeeps ==
  ASSUME CheckInv, status = "running", form = "target", Len(stack) \in {1, 2},
         stack' = <<stack[1]>>, NEW n \in {0, 1}, count + n <= sample.nodes,
         count' = count + n, NEW errs \in SUBSET Diagnostics,
         errors' = errors \cup errs, NEW g, assigned' = assigned \cup {g},
         UNCHANGED <<sample, form, callee, traits, status>>, Sound(g, errors')
  PROVE  CheckInv'
<1>1. {} \in SUBSET Traits /\ traits' = traits \cup {}
  OBVIOUS
<1> QED BY <1>1, TargetPassed

\* The one value of a return statement or of a definition.
LEMMA SettleKeeps ==
  ASSUME CheckInv, status = "running", NEW f \in {"return", "vardef"}, NEW g,
         NEW errs \in SUBSET Diagnostics, Settle(f, g, errs), Sound(g, errors')
  PROVE  CheckInv'
<1>1. /\ status' = "done" /\ form' = f /\ stack' = <<>>
      /\ errors' = errors \cup errs /\ assigned' = {g}
      /\ UNCHANGED <<sample, callee, count, traits>>
  BY DEF Settle
<1>2. TypeOK'
  <2>1. stack' \in Seq(Expr) /\ Len(stack') = 0 /\ f \notin Open
    BY <1>1 DEF Open
  <2> QED BY <1>1, <2>1, BoundsAssumption DEF CheckInv, TypeOK
<1>3. UnusualMarked' /\ UndeclaredMet' /\ PlainNeverCrashes'
  BY <1>1 DEF CheckInv, UnusualMarked, UndeclaredMet, PlainNeverCrashes
<1>4. AcceptedFits' /\ ExactTypeAccepted' /\ RefusedReported'
  BY <1>1, SoundKept
<1> QED BY <1>2, <1>3, <1>4 DEF CheckInv

-----------------------------------------------------------------------------
(* Leaves, operators, lists, calls and members.                            *)

\* The statements to consider and the stack, as the invariant types them.
LEMMA StateFacts ==
  ASSUME CheckInv
  PROVE  /\ sample.symbols \cup sample.members \subseteq DOMAIN Decl
         /\ sample.literals \cup sample.vars \cup sample.returns \subseteq Types
         /\ sample.args \in Nat /\ sample.nodes \in Nat /\ count \in 0 .. sample.nodes
         /\ stack \in Seq(Expr) /\ Len(stack) \in Nat
         /\ \A i \in 1 .. Len(stack) :
              /\ stack[i] \in Expr /\ stack[i].k \in Kinds
              /\ stack[i].ty \in Types \cup {Nil}
              /\ stack[i].ty = Nil \/ stack[i].k \in Unusual => Marked
              /\ stack[i].k \in {"literal", "ref", "binary"} => stack[i].ty # Nil
<1>1. IsSample(sample) /\ count \in 0 .. sample.nodes /\ stack \in Seq(Expr)
  BY SamplesAssumption DEF CheckInv, TypeOK
<1>2. \A i \in 1 .. Len(stack) :
        /\ stack[i].ty = Nil \/ stack[i].k \in Unusual => Marked
        /\ stack[i].k \in {"literal", "ref", "binary"} => stack[i].ty # Nil
  BY DEF CheckInv, TypeOK, UnusualMarked
<1>3. \A i \in 1 .. Len(stack) : stack[i] \in Expr
  BY <1>1
<1>4. \A e \in Expr : e.k \in Kinds /\ e.ty \in Types \cup {Nil}
  BY DEF Expr, Nodes, Kinds
<1>5. Len(stack) \in Nat
  BY <1>1
<1> QED BY <1>1, <1>2, <1>3, <1>4, <1>5 DEF IsSample

\* The top of the stack.
LEMMA TopFacts ==
  ASSUME CheckInv, NEW i \in Nat, i < Len(stack)
  PROVE  /\ Top(i) \in Expr /\ Top(i).k \in Kinds /\ Top(i).ty \in Types \cup {Nil}
         /\ Top(i).ty \in Seq(Words)
         /\ Top(i).ty = Nil \/ Top(i).k \in Unusual => Marked
         /\ Top(i) = stack[Len(stack) - i]
<1>1. Len(stack) - i \in 1 .. Len(stack)
  BY StateFacts
<1>2. \A t \in Types \cup {Nil} : t \in Seq(Words)
  <2>1. \A t \in Types : t \in Seq(Words)
    BY Zenon DEF Types
  <2>2. Nil \in Seq(Words)
    BY DEF Nil
  <2> QED BY <2>1, <2>2
<1>3. Top(i) = stack[Len(stack) - i]
  BY DEF Top
<1> QED BY <1>1, <1>2, <1>3, StateFacts

\* The last elements are elements.
LEMMA LastFacts ==
  ASSUME CheckInv, NEW n \in Nat, n <= Len(stack)
  PROVE  /\ Len(Last(n)) = n
         /\ \A i \in 1 .. n :
              /\ Last(n)[i] \in Expr
              /\ Last(n)[i].ty \in Types \cup {Nil}
              /\ Last(n)[i].ty = Nil => Marked
<1> DEFINE m == Len(stack) - n + 1
           last == SubSeq(stack, m, Len(stack))
<1>1. stack \in Seq(Expr) /\ Len(stack) \in Nat /\ m \in 1 .. Len(stack) + 1
  BY StateFacts
<1>2. \A i \in m .. Len(stack) : stack[i] \in Expr
  BY <1>1, StateFacts
<1>3. m \in Int /\ Len(stack) \in Int
  BY <1>1
<1>4. /\ Len(last) = (IF m <= Len(stack) THEN Len(stack) - m + 1 ELSE 0)
      /\ \A i \in 1 .. Len(stack) - m + 1 : last[i] = stack[m + i - 1]
  <2> HIDE DEF m
  <2> QED BY <1>1, <1>2, <1>3, SubSeqProperties, SMTT(30)
<1> HIDE DEF last
<1>5. Len(last) = n /\ \A i \in 1 .. n : last[i] = stack[m + i - 1]
                                         /\ m + i - 1 \in 1 .. Len(stack)
  BY <1>1, <1>4
<1> HIDE DEF m
<1>6. \A i \in 1 .. n :
        /\ last[i] \in Expr /\ last[i].ty \in Types \cup {Nil}
        /\ last[i].ty = Nil => Marked
  BY <1>5, StateFacts
<1> QED BY <1>5, <1>6 DEF Last, last, m

LEMMA LiteralKeeps ==
  ASSUME CheckInv, NEW t \in sample.literals, Literal(t)
  PROVE  CheckInv'
<1>1. t \in Types /\ t # Nil
  BY StateFacts DEF Types
<1>2. Node("literal", t) \in Expr /\ Node("literal", t).ty = t
      /\ Node("literal", t).k = "literal"
  BY <1>1, NodeType DEF Kinds
<1> HIDE DEF Node
<1>3. Visit(0, Node("literal", t), {}, {})
  BY DEF Literal
<1> QED BY <1>1, <1>2, <1>3, VisitKeeps DEF Unusual

\* A name has a type, and one that is undeclared is no variable.
LEMMA RefFacts ==
  ASSUME CheckInv, NEW s \in DOMAIN Decl
  PROVE  /\ RefNode(s) \in Expr /\ RefNode(s).k = "ref" /\ RefNode(s).ty # Nil
         /\ RefErrors(s) \subseteq Diagnostics
         /\ ~Declared(s) => RefErrors(s) # {}
<1>1. RefType(s) \in Types
  BY DeclAssumption, PredefinedTypes DEF IsDecl, RefType, HasType
<1>2. RefNode(s) \in Nodes(Kinds \ {"if", "index"}, Seq(Seq(Words)))
  BY <1>1 DEF RefNode, Nodes, Kinds
<1>3. RefNode(s) \in Expr /\ RefNode(s).k = "ref" /\ RefNode(s).ty # Nil
  BY <1>1, <1>2 DEF RefNode, Expr, Types
<1>4. RefErrors(s) \subseteq Diagnostics /\ (~Declared(s) => RefErrors(s) # {})
  BY DEF RefErrors, DiagIf, Diagnostics, Declared, HasType
<1> QED BY <1>3, <1>4

LEMMA RefKeeps ==
  ASSUME CheckInv, NEW s \in sample.symbols, Ref(s)
  PROVE  CheckInv'
<1>1. s \in DOMAIN Decl
  BY StateFacts
<1>2. Visit(0, RefNode(s), RefErrors(s), Wrong(s))
  BY DEF Ref
<1>3. Wrong(s) \in SUBSET Traits /\ ("undeclared" \in Wrong(s) => RefErrors(s) # {})
  BY <1>1, RefFacts DEF Wrong, Traits
<1> QED BY <1>1, <1>2, <1>3, RefFacts, VisitKeeps DEF Unusual

LEMMA RefClassKeeps ==
  ASSUME CheckInv, NEW s \in sample.symbols, RefClass(s)
  PROVE  CheckInv'
<1>1. Crash({"fancy"}) /\ {"fancy"} \in SUBSET Traits
  BY DEF RefClass, Traits
<1> QED BY <1>1, CrashKeeps

\* Whatever the operands are, an operator has a result type (actOnBinaryExpr).
LEMMA BinaryTypes ==
  ASSUME NEW op, NEW l \in Types, NEW r \in Types
  PROVE  BinaryType(op, l, r) \in Types
<1>1. CASE op = "add" /\ IntTy \in {l, r}
  BY <1>1, PredefinedTypes DEF BinaryType
<1>2. CASE op = "add" /\ IntTy \notin {l, r} /\ StrTy \in {l, r}
  BY <1>2, PredefinedTypes DEF BinaryType
<1>3. CASE op = "add" /\ IntTy \notin {l, r} /\ StrTy \notin {l, r}
  BY <1>3, PredefinedTypes DEF BinaryType
<1>4. CASE op = "multiply"
  BY <1>4, PredefinedTypes DEF BinaryType
<1>5. CASE op \notin {"add", "multiply"}
  BY <1>5, PredefinedTypes DEF BinaryType
<1> QED BY <1>1, <1>2, <1>3, <1>4, <1>5

LEMMA BinaryKeeps ==
  ASSUME CheckInv, NEW op, Binary(op)
  PROVE  CheckInv'
<1> DEFINE l == TypeOf(Top(1))
           r == TypeOf(Top(0))
           node == Node("binary", BinaryType(op, l, r))
           errs == DiagIf(BinaryError(op, l, r), "binary")
<1>1. Len(stack) >= 2 /\ Visit(2, node, errs, {})
  BY DEF Binary
<1>2. l \in Types /\ r \in Types
  BY <1>1, StateFacts, TopFacts, PredefinedTypes DEF TypeOf
<1>3. BinaryType(op, l, r) \in Types /\ BinaryType(op, l, r) # Nil
  <2> HIDE DEF l, r
  <2> QED BY <1>2, BinaryTypes DEF Types
<1>4. node \in Expr /\ node.k = "binary" /\ node.ty # Nil
  <2> HIDE DEF l, r
  <2> QED BY <1>3, NodeType DEF Kinds
<1>5. errs \in SUBSET Diagnostics
  BY DEF DiagIf, Diagnostics
<1> HIDE DEF node, errs
<1> QED BY <1>1, <1>4, <1>5, VisitKeeps DEF Unusual

\* What is given no type is fancy.
LEMMA FancyKeeps ==
  ASSUME CheckInv, NEW n \in Nat, NEW node \in Expr, node.k \in Unusual \cup {"call"},
         NEW errs \in SUBSET Diagnostics, Visit(n, node, errs, {"fancy"})
  PROVE  CheckInv'
<1>1. {"fancy"} \in SUBSET Traits /\ node.k \notin {"literal", "ref", "binary"}
  BY DEF Traits, Unusual
<1> QED BY <1>1, VisitKeeps

LEMMA UnaryKeeps ==
  ASSUME CheckInv, Unary PROVE CheckInv'
<1> DEFINE node == [Node("unary", Nil) EXCEPT !.parts = <<Top(0).ty>>]
<1>1. Len(stack) >= 1 /\ Visit(1, node, {}, {"fancy"})
  BY DEF Unary
<1>2. Top(0).ty \in Seq(Words)
  BY <1>1, StateFacts, TopFacts
<1>3. node \in Nodes(Kinds \ {"if", "index"}, Seq(Seq(Words))) /\ node.k = "unary"
  <2>1. <<Top(0).ty>> \in Seq(Seq(Words))
    BY <1>2
  <2> DEFINE p == <<Top(0).ty>>
  <2>2. node = [Node("unary", Nil) EXCEPT !.parts = p]
    OBVIOUS
  <2> HIDE DEF node, p
  <2>3. p \in Seq(Seq(Words))
    BY <2>1 DEF p
  <2> QED BY <2>2, <2>3 DEF Node, Nodes, Kinds
<1>4. node \in Expr
  BY <1>3 DEF Expr
<1> HIDE DEF node
<1> QED BY <1>1, <1>3, <1>4, FancyKeeps DEF Unusual

LEMMA ConditionalKeeps ==
  ASSUME CheckInv, Conditional PROVE CheckInv'
<1> DEFINE node == [Node("if", Nil) EXCEPT
                      !.parts = <<Top(2).k, Top(2).ty, Top(1).ty, Top(0).ty>>]
<1>1. Len(stack) >= 3 /\ Visit(3, node, {}, {"fancy"})
  BY DEF Conditional
<1>2. /\ Top(2).k \in Kinds /\ Top(2).ty \in Seq(Words)
      /\ Top(1).ty \in Seq(Words) /\ Top(0).ty \in Seq(Words)
  BY <1>1, StateFacts, TopFacts
<1>3. node \in Nodes({"if"}, Kinds \X Seq(Words) \X Seq(Words) \X Seq(Words))
      /\ node.k = "if"
  BY <1>2 DEF Node, Nodes
<1>4. node \in Expr
  BY <1>3 DEF Expr
<1> HIDE DEF node
<1> QED BY <1>1, <1>3, <1>4, FancyKeeps DEF Unusual

LEMMA IndexKeeps ==
  ASSUME CheckInv, Index PROVE CheckInv'
<1> DEFINE lit == Top(0).k = "literal" /\ Top(0).ty = IntTy
           node == [Node("index", Nil) EXCEPT
                      !.parts = <<Top(1).k, Top(1).ty, lit, Top(0).ty>>]
<1>1. Len(stack) >= 2 /\ Visit(2, node, {}, {"fancy"})
  BY DEF Index
<1>2. /\ Top(1).k \in Kinds /\ Top(1).ty \in Seq(Words) /\ Top(0).ty \in Seq(Words)
  <2> HIDE DEF lit, node
  <2>1. 0 < Len(stack) /\ 1 < Len(stack)
    BY <1>1, StateFacts
  <2> QED BY <2>1, TopFacts
<1>3. lit \in BOOLEAN
  OBVIOUS
<1>4. node \in Nodes({"index"}, Kinds \X Seq(Words) \X BOOLEAN \X Seq(Words))
      /\ node.k = "index"
  <2> DEFINE p == <<Top(1).k, Top(1).ty, lit, Top(0).ty>>
  <2>1. p \in Kinds \X Seq(Words) \X BOOLEAN \X Seq(Words)
    <3> HIDE DEF lit
    <3> QED BY <1>2, <1>3
  <2>2. node = [Node("index", Nil) EXCEPT !.parts = p]
    OBVIOUS
  <2> HIDE DEF node, p
  <2> QED BY <2>1, <2>2 DEF Node, Nodes
<1>5. node \in Expr
  BY <1>4 DEF Expr
<1> HIDE DEF node
<1> QED BY <1>1, <1>4, <1>5, FancyKeeps DEF Unusual

LEMMA ListKeeps ==
  ASSUME CheckInv, NEW n \in 0 .. sample.args, List(n)
  PROVE  CheckInv'
<1>1. n \in Nat /\ n <= Len(stack)
  BY StateFacts DEF List
<1>2. CASE n = 0
  <2>1. Visit(0, Node("list", EmptyTy), {}, {})
    BY <1>2 DEF List
  <2>2. EmptyTy \in Types /\ EmptyTy # Nil
    BY PredefinedTypes
  <2>3. Node("list", EmptyTy) \in Expr /\ Node("list", EmptyTy).k = "list"
        /\ Node("list", EmptyTy).ty = EmptyTy
    BY <2>2, NodeType DEF Kinds
  <2> HIDE DEF Node
  <2> QED BY <2>1, <2>2, <2>3, VisitKeeps DEF Unusual
<1>3. CASE n # 0 /\ Last(n)[1].ty = Nil
  <2>1. Marked
    <3>1. 1 \in 1 .. n
      BY <1>1, <1>3
    <3> QED BY <1>1, <1>3, <3>1, LastFacts
  <2>2. Crash({})
    BY <1>3 DEF List
  <2> QED BY <2>1, <2>2, CrashKeeps
<1>4. CASE n # 0 /\ Last(n)[1].ty # Nil
  <2> DEFINE ty == IF Mixed(n) THEN Nil ELSE ListOf(Last(n)[1].ty)
             node == Node("list", ty)
             errs == DiagIf(Mixed(n), "cannot_index")
  <2>1. Visit(n, node, errs, {})
    BY <1>4 DEF List
  <2>2. Last(n)[1].ty \in Types
    <3>1. 1 \in 1 .. n
      BY <1>1, <1>4
    <3> QED BY <1>1, <1>4, <3>1, LastFacts
  <2>3. ty \in Types \cup {Nil} /\ (ty = Nil => errs # {})
        /\ errs \in SUBSET Diagnostics
    BY <2>2, ListTypes DEF DiagIf, Diagnostics
  <2>4. node \in Expr /\ node.k = "list" /\ node.ty = ty
    <3> HIDE DEF ty
    <3> QED BY <2>3, NodeType DEF Kinds
  <2> HIDE DEF node, errs, ty
  <2> QED BY <1>1, <2>1, <2>3, <2>4, VisitKeeps DEF Unusual
<1> QED BY <1>2, <1>3, <1>4

\* The kinds of diagnostics of the checks.
LEMMA ErrorKinds ==
  /\ \A e : IndexErrors(e) \subseteq Diagnostics /\ ValueErrors(e) \subseteq Diagnostics
  /\ \A a, p : ParamErrors(a, p) \subseteq Diagnostics /\ Misfit(a, p) \subseteq {"misfit"}
BY DEF IndexErrors, ValueErrors, ParamErrors, Misfit, DiagIf, Diagnostics

LEMMA CallKeeps ==
  ASSUME CheckInv, NEW s \in sample.symbols, NEW n \in 0 .. sample.args, Call(s, n)
  PROVE  CheckInv'
<1> DEFINE d == Decl[s]
           args == Last(n)
<1>1. /\ n \in Nat /\ n <= Len(stack) /\ s \in DOMAIN Decl /\ IsDecl(d)
      /\ d.kind = "class" => s \in Classes
  BY StateFacts, DeclAssumption DEF Call
<1>2. "call" \in Kinds \ {"if", "index"} /\ {"fancy"} \in SUBSET Traits
      /\ "call" \notin Unusual \cup {"literal", "ref", "binary"}
  BY DEF Kinds, Traits, Unusual
<1>3. \A t \in Types \cup {Nil} : /\ Node("call", t) \in Expr
                                  /\ Node("call", t).k = "call" /\ Node("call", t).ty = t
  BY <1>2, NodeType
<1>4. CASE d.kind = "none"
  <2>1. Visit(n, Node("call", Nil), {"call"}, {"undeclared", "fancy"})
    BY <1>4 DEF Call
  <2>2. {"call"} \in SUBSET Diagnostics /\ {"undeclared", "fancy"} \in SUBSET Traits
    BY DEF Diagnostics, Traits
  <2> HIDE DEF Node
  <2> QED BY <1>1, <1>2, <1>3, <2>1, <2>2, VisitKeeps
<1>5. CASE d.kind = "class"
  <2>1. Visit(n, Node("call", <<s>>), {}, {})
    BY <1>5 DEF Call
  <2>2. <<s>> \in Types /\ <<s>> # Nil
    <3>1. s \in Words
      BY <1>1, <1>5, DeclAssumption DEF Words
    <3> QED BY <3>1 DEF Types, Nil
  <2> DEFINE node == Node("call", <<s>>)
  <2>3. node \in Expr /\ node.k = "call" /\ node.ty # Nil
    BY <1>3, <2>2
  <2>4. Visit(n, node, {}, {})
    BY <2>1
  <2>5. n \in Nat /\ {} \in SUBSET Diagnostics /\ {} \in SUBSET Traits
    BY <1>1
  <2>6. node.k \notin Unusual \cup {"literal", "ref", "binary"}
    BY <1>2, <2>3
  <2> HIDE DEF node, d, args
  <2> QED BY <2>3, <2>4, <2>5, <2>6, VisitKeeps
<1>6. CASE d.kind \in {"var", "param"}
  <2>1. Visit(n, Node("call", Nil), {}, {"fancy"})
    BY <1>6 DEF Call
  <2> HIDE DEF Node
  <2> QED BY <1>1, <1>2, <1>3, <2>1, FancyKeeps
<1>7. CASE d.kind = "func" /\ SameNumber(args, d.params) /\ NullBeforeMisfit(args, d.params)
  <2>1. Crash({})
    BY <1>7 DEF Call
  <2>2. PICK i \in 1 .. Len(args) : args[i].ty = Nil
    BY <1>7 DEF NullBeforeMisfit
  <2>3. Marked
    BY <1>1, <2>2, LastFacts
  <2> QED BY <2>1, <2>3, CrashKeeps
<1>8. CASE /\ d.kind = "func" /\ d.ret = Nil
           /\ ~(SameNumber(args, d.params) /\ NullBeforeMisfit(args, d.params))
  <2>1. Crash({"fancy"})
    BY <1>8 DEF Call
  <2> QED BY <1>2, <2>1, CrashKeeps
<1>9. CASE /\ d.kind = "func" /\ d.ret # Nil
           /\ ~(SameNumber(args, d.params) /\ NullBeforeMisfit(args, d.params))
  <2>1. Visit(n, Node("call", d.ret), ParamErrors(args, d.params), Misfit(args, d.params))
    BY <1>9 DEF Call
  <2>2. d.ret \in Types
    BY <1>1, <1>9 DEF IsDecl
  <2>3. /\ ParamErrors(args, d.params) \in SUBSET Diagnostics
        /\ Misfit(args, d.params) \in SUBSET Traits
        /\ "undeclared" \notin Misfit(args, d.params)
    BY ErrorKinds DEF Traits
  <2> HIDE DEF Node, d, args
  <2> QED BY <1>1, <1>2, <1>3, <1>9, <2>1, <2>2, <2>3, VisitKeeps
<1>10. d.kind \in {"none", "class", "var", "param", "func"}
  BY <1>1 DEF IsDecl
<1> QED BY <1>4, <1>5, <1>6, <1>7, <1>8, <1>9, <1>10

LEMMA CallOfExprKeeps ==
  ASSUME CheckInv, NEW n, CallOfExpr(n) PROVE CheckInv'
<1>1. Crash({"fancy"}) /\ {"fancy"} \in SUBSET Traits
  BY DEF CallOfExpr, Traits
<1> QED BY <1>1, CrashKeeps

LEMMA MemberKeeps ==
  ASSUME CheckInv, NEW m \in sample.members, MemberOf(m)
  PROVE  CheckInv'
<1> DEFINE o == Top(0)
           errs == RefErrors(m) \cup DiagIf(o.k = "ref" /\ NoMember(o.sym, m), "no_attr")
<1>1. {"fancy"} \in SUBSET Traits /\ "member" \in Kinds \ {"if", "index"}
      /\ Nil \in Types \cup {Nil}
  BY DEF Traits, Kinds
<1>2. \/ Crash({"fancy"})
      \/ Visit(1, Node("member", Nil), errs, {"fancy"})
  BY DEF MemberOf
<1>3. errs \in SUBSET Diagnostics
  BY StateFacts, RefFacts DEF DiagIf, Diagnostics
<1>4. Node("member", Nil) \in Expr /\ Node("member", Nil).k = "member"
  BY <1>1, NodeType
<1> HIDE DEF errs, Node
<1> QED BY <1>1, <1>2, <1>3, <1>4, CrashKeeps, FancyKeeps DEF Unusual

LEMMA MethodCallKeeps ==
  ASSUME CheckInv, NEW n \in 0 .. sample.args, MethodCallOf(n)
  PROVE  CheckInv'
<1>1. "method" \in Kinds \ {"if", "index"} /\ Nil \in Types \cup {Nil} /\ n + 1 \in Nat
  BY StateFacts DEF Kinds
<1>2. Visit(n + 1, Node("method", Nil), {}, {"fancy"})
  BY DEF MethodCallOf
<1>3. Node("method", Nil) \in Expr /\ Node("method", Nil).k = "method"
  BY <1>1, NodeType
<1> HIDE DEF Node
<1> QED BY <1>1, <1>2, <1>3, FancyKeeps DEF Unusual

-----------------------------------------------------------------------------
(* Expression statements.                                                  *)

\* Ending a check without anything undeclared.
LEMMA ExprEnds ==
  ASSUME CheckInv, status = "running", NEW errs \in SUBSET Diagnostics,
         NEW wrong \in SUBSET {"fancy", "misfit"}, Finish(errs, "expr", wrong)
  PROVE  CheckInv'
<1>1. wrong \in SUBSET Traits /\ "undeclared" \notin wrong
  BY DEF Traits
<1> QED BY <1>1, FinishKeeps

LEMMA ExprStmtKeeps ==
  ASSUME CheckInv, ExprStmt PROVE CheckInv'
BY ExprEnds DEF ExprStmt, Whole

LEMMA IndexStmtKeeps ==
  ASSUME CheckInv, IndexStmt PROVE CheckInv'
<1>1. /\ Len(stack) = 1 /\ status = "running" /\ Top(0).k \in Unusual
      /\ Crash({}) \/ Finish(IndexErrors(Top(0)), "expr", {})
  BY DEF IndexStmt, Whole, Unusual
<1>2. Marked
  BY <1>1, TopFacts
<1> QED BY <1>1, <1>2, CrashKeeps, ExprEnds, ErrorKinds

LEMMA UnaryStmtKeeps ==
  ASSUME CheckInv, NEW t \in {BoolTy, IntTy}, UnaryStmt(t)
  PROVE  CheckInv'
<1> DEFINE errs == DiagIf(Top(0).parts[1] # t, "unary")
<1>1. /\ Len(stack) = 1 /\ status = "running" /\ Top(0).k \in Unusual
      /\ Crash({}) \/ Finish(errs, "expr", {})
  BY DEF UnaryStmt, Whole, Unusual
<1>2. Marked
  BY <1>1, TopFacts
<1>3. errs \in SUBSET Diagnostics
  BY DEF DiagIf, Diagnostics
<1> HIDE DEF errs
<1> QED BY <1>1, <1>2, <1>3, CrashKeeps, ExprEnds

\* What an object nobody declared leads to.
LEMMA FancyCrash ==
  ASSUME CheckInv, NEW s, Crash({"fancy"} \cup Wrong(s))
  PROVE  CheckInv'
<1>1. {"fancy"} \cup Wrong(s) \in SUBSET Traits
  BY DEF Wrong, Traits
<1> QED BY <1>1, CrashKeeps

LEMMA MemberStmtKeeps ==
  ASSUME CheckInv, NEW s, NEW m, MemberStmt(s, m)
  PROVE  CheckInv'
<1>1. \/ Crash({"fancy"} \cup Wrong(s))
      \/ Finish(DiagIf(NoMember(s, m), "no_attr"), "expr", {"fancy"})
  BY DEF MemberStmt
<1>2. DiagIf(NoMember(s, m), "no_attr") \in SUBSET Diagnostics /\ status = "running"
  BY DEF MemberStmt, Fresh, DiagIf, Diagnostics
<1> QED BY <1>1, <1>2, FancyCrash, ExprEnds

\* What passing over a part adds.
LEMMA UnvisitedTraits ==
  ASSUME NEW s
  PROVE  /\ {"fancy"} \cup Unvisited(s) \in SUBSET Traits
         /\ Unvisited(s) \in SUBSET Traits /\ "unvisited" \in Unvisited(s)
BY DEF Unvisited, Wrong, Traits

LEMMA MemberStmtOfExprKeeps ==
  ASSUME CheckInv, NEW s, MemberStmtOfExpr(s) PROVE CheckInv'
<1>1. status = "running" /\ Finish({}, "expr", {"fancy"} \cup Unvisited(s))
  BY DEF MemberStmtOfExpr, Fresh
<1> QED BY <1>1, UnvisitedTraits, FinishKeeps

\* The arguments of a method call are to be visited.
LEMMA MethodBegins ==
  ASSUME CheckInv, status = "running", form' = "method", NEW wrong \in SUBSET Traits,
         "fancy" \in wrong, "undeclared" \in wrong => "unvisited" \in wrong,
         traits' = traits \cup wrong,
         UNCHANGED <<sample, stack, count, errors, assigned, status>>
  PROVE  CheckInv'
<1>1. TypeOK'
  BY DEF CheckInv, TypeOK, Open
<1>2. UnusualMarked' /\ UndeclaredMet' /\ PlainNeverCrashes' /\ RefusedReported'
  BY DEF CheckInv, UnusualMarked, Marked, UndeclaredMet, PlainNeverCrashes,
         RefusedReported
<1>3. AcceptedFits' /\ ExactTypeAccepted'
  BY DEF CheckInv, AcceptedFits, ExactTypeAccepted
<1> QED BY <1>1, <1>2, <1>3 DEF CheckInv

LEMMA MethodStmtOfExprKeeps ==
  ASSUME CheckInv, NEW s, MethodStmtOfExpr(s) PROVE CheckInv'
<1> DEFINE wrong == {"fancy"} \cup Unvisited(s)
<1>1. /\ status = "running" /\ form' = "method" /\ traits' = traits \cup wrong
      /\ UNCHANGED <<sample, stack, count, errors, assigned, status>>
  BY DEF MethodStmtOfExpr, Fresh
<1>2. wrong \in SUBSET Traits /\ "fancy" \in wrong /\ "unvisited" \in wrong
  BY UnvisitedTraits
<1> HIDE DEF wrong
<1> QED BY <1>1, <1>2, MethodBegins

LEMMA MethodStmtKeeps ==
  ASSUME CheckInv, NEW s, NEW m, MethodStmt(s, m)
  PROVE  CheckInv'
<1>1. status = "running" /\ {"no_method"} \in SUBSET Diagnostics
  BY DEF MethodStmt, Fresh, Diagnostics
<1>2. CASE Crash({"fancy"} \cup Wrong(s))
  BY <1>2, FancyCrash
<1>3. CASE Finish({"no_method"}, "expr", {"fancy"})
  BY <1>1, <1>3, ExprEnds
<1>4. CASE /\ form' = "method" /\ traits' = traits \cup {"fancy"}
           /\ UNCHANGED <<sample, stack, count, errors, assigned, status>>
  <2>1. {"fancy"} \in SUBSET Traits
    BY DEF Traits
  <2> QED BY <1>1, <1>4, <2>1, MethodBegins
<1> QED BY <1>2, <1>3, <1>4 DEF MethodStmt

LEMMA EndMethodKeeps ==
  ASSUME CheckInv, EndMethod PROVE CheckInv'
<1>1. status = "running" /\ form = "method"
  BY DEF EndMethod
<1>2. Marked
  BY <1>1 DEF CheckInv, UnusualMarked
<1>3. \/ Finish({}, "expr", {}) \/ Crash({})
      \/ Finish(ParamErrors(stack, callee.params), "expr", Misfit(stack, callee.params))
  BY DEF EndMethod
<1>4. /\ ParamErrors(stack, callee.params) \in SUBSET Diagnostics
      /\ Misfit(stack, callee.params) \in SUBSET {"fancy", "misfit"}
  BY ErrorKinds
<1> QED BY <1>1, <1>2, <1>3, <1>4, CrashKeeps, ExprEnds

LEMMA IfStmtKeeps ==
  ASSUME CheckInv, NEW s, IfStmt(s) PROVE CheckInv'
<1>1. status = "running" /\ Finish({}, "if", Unvisited(s))
  BY DEF IfStmt, Fresh
<1> QED BY <1>1, UnvisitedTraits, FinishKeeps

LEMMA LoopKeeps ==
  ASSUME CheckInv, WhileStmt \/ ForStmt PROVE CheckInv'
<1>1. status = "running" /\ Finish({}, "loop", {})
  BY DEF WhileStmt, ForStmt, Whole
<1> QED BY <1>1, FinishKeeps

-----------------------------------------------------------------------------
(* Assignments, return statements and definitions.                         *)

LEMMA BeginTargetsKeeps ==
  ASSUME CheckInv, BeginTargets PROVE CheckInv'
<1>1. /\ status = "running" /\ form' = "target"
      /\ UNCHANGED <<sample, stack, callee, count, errors, traits, assigned, status>>
  BY DEF BeginTargets, Whole
<1>2. TypeOK'
  BY <1>1 DEF CheckInv, TypeOK, Open
<1>3. UnusualMarked' /\ UndeclaredMet' /\ PlainNeverCrashes' /\ RefusedReported'
  BY <1>1 DEF CheckInv, UnusualMarked, Marked, UndeclaredMet, PlainNeverCrashes,
              RefusedReported
<1>4. AcceptedFits' /\ ExactTypeAccepted'
  BY <1>1 DEF CheckInv, AcceptedFits, ExactTypeAccepted
<1> QED BY <1>2, <1>3, <1>4 DEF CheckInv

\* A target that is refused, with a diagnostic.
LEMMA RefuseKeeps ==
  ASSUME CheckInv, status = "running", form = "target", Len(stack) \in {1, 2},
         NEW n \in {0, 1}, count + n <= sample.nodes,
         NEW errs \in SUBSET Diagnostics, errs # {}, Refuse(stack[1], errs, n)
  PROVE  CheckInv'
<1> DEFINE g == Given(stack[1], Nil, FALSE)
<1>1. /\ stack' = <<stack[1]>> /\ count' = count + n /\ errors' = errors \cup errs
      /\ assigned' = assigned \cup {g}
      /\ UNCHANGED <<sample, form, callee, traits, status>>
  BY DEF Refuse
<1>2. ~g.ok /\ g.to = Nil
  BY DEF Given
<1>3. Sound(g, errors')
  <2> HIDE DEF g
  <2> QED BY <1>1, <1>2 DEF Sound, Plain
<1> HIDE DEF g
<1> QED BY <1>1, <1>3, TargetKeeps

\* A value that is met by checkAssignment.
LEMMA MeetKeeps ==
  ASSUME CheckInv, status = "running", form = "target", Len(stack) \in {1, 2},
         NEW n \in {0, 1}, count + n <= sample.nodes,
         NEW errs \in SUBSET Diagnostics, NEW to, Meet(stack[1], to, errs, n)
  PROVE  CheckInv'
<1> DEFINE v == stack[1]
           refused == ValueRefused(v)
           ok == ~refused /\ Assignable(to, ValueType(v))
           g == Given(v, to, ok)
           errs1 == errs \cup ValueErrors(v) \cup DiagIf(~ok /\ ~refused, "tc_assign")
<1>1. 1 \in 1 .. Len(stack)
  OBVIOUS
<1>2. v.ty \in Types \cup {Nil} /\ (v.ty = Nil \/ v.k \in Unusual => Marked)
  BY <1>1, StateFacts
<1>3. CASE ValueNull(v) \/ (~refused /\ to = Nil)
  <2>1. Crash(IF to = Nil THEN {"fancy"} ELSE {})
    BY <1>3 DEF Meet
  <2>2. ValueNull(v) => Marked
    BY <1>2 DEF ValueNull, Unusual
  <2>3. {"fancy"} \in SUBSET Traits
    BY DEF Traits
  <2> QED BY <1>3, <2>1, <2>2, <2>3, CrashKeeps
<1>4. CASE ~(ValueNull(v) \/ (~refused /\ to = Nil))
  <2>1. /\ stack' = <<v>> /\ count' = count + n
        /\ errors' = errors \cup errs \cup ValueErrors(v)
                       \cup DiagIf(~ok /\ ~refused, "tc_assign")
        /\ assigned' = assigned \cup {g}
        /\ UNCHANGED <<sample, form, callee, traits, status>>
    BY <1>4 DEF Meet
  <2>2. errs1 \in SUBSET Diagnostics /\ errors' = errors \cup errs1
        /\ (~ok /\ ~refused => errors' # {})
    BY <2>1, ErrorKinds DEF DiagIf, Diagnostics
  <2>3. g.k = v.k /\ g.from = v.ty /\ g.to = to /\ (g.ok <=> ok)
    <3> HIDE DEF ok
    <3> QED BY DEF Given
  <2>4. refused => v.k = "if"
    BY DEF ValueRefused
  <2>5. Plain(g) => ValueType(v) = v.ty /\ v.ty \in Types /\ v.k # "if"
    <3> HIDE DEF g
    <3> QED BY <1>2, <2>3 DEF Plain, ValueType
  <2>6. ASSUME Plain(g), ok
        PROVE  Compatible(v.ty, to) \/ to = ObjectTy \/ v.ty = ListOf(NoneTy)
    <3>1. CASE IsList(v.ty) /\ Elem(v.ty) = NoneTy
      BY <2>5, <2>6, <3>1, NoneLists
    <3>2. CASE to = ObjectTy \/ v.ty = to \/ (IsList(to) /\ v.ty = EmptyTy)
      BY <3>2, PredefinedTypes DEF Compatible
    <3> QED BY <2>5, <2>6, <3>1, <3>2 DEF Assignable
  <2>7. ASSUME Plain(g), v.ty = to PROVE ok
    <3>1. ~refused /\ ValueType(v) = to
      BY <2>4, <2>5, <2>7
    <3> QED BY <3>1 DEF Assignable
  <2>8. Sound(g, errors')
    <3> HIDE DEF g, ok, refused
    <3> QED BY <2>2, <2>3, <2>4, <2>6, <2>7 DEF Sound
  <2> HIDE DEF g, errs1, ok, refused
  <2> QED BY <2>1, <2>2, <2>8, TargetKeeps
<1> QED BY <1>3, <1>4

LEMMA AssignToNameKeeps ==
  ASSUME CheckInv, AssignToName PROVE CheckInv'
<1>1. status = "running" /\ form = "target" /\ Len(stack) = 2 /\ Top(1) = stack[1]
  BY TopFacts DEF AssignToName, AtTarget
<1>2. count + 0 <= sample.nodes /\ {"local_assign"} \in SUBSET Diagnostics
  BY StateFacts DEF Diagnostics
<1>3. CASE Skip(stack[1])
  <2> DEFINE g == Given(stack[1], ObjectTy, TRUE)
  <2>1. /\ stack' = <<stack[1]>> /\ assigned' = assigned \cup {g}
        /\ UNCHANGED <<sample, form, callee, count, errors, traits, status>>
    BY <1>3 DEF Skip
  <2>2. g.ok /\ g.to = ObjectTy
    BY DEF Given
  <2>3. Sound(g, errors')
    <3> HIDE DEF g
    <3> QED BY <2>2 DEF Sound
  <2>4. count' = count + 0 /\ errors' = errors \cup {} /\ {} \in SUBSET Diagnostics
    BY <2>1, StateFacts
  <2> HIDE DEF g
  <2> QED BY <1>1, <1>2, <2>1, <2>3, <2>4, TargetKeeps
<1>4. CASE Refuse(stack[1], {"local_assign"}, 0)
  BY <1>1, <1>2, <1>4, RefuseKeeps
<1>5. CASE Meet(stack[1], Top(0).ty, {}, 0)
  BY <1>1, <1>2, <1>5, MeetKeeps
<1> QED BY <1>1, <1>3, <1>4, <1>5 DEF AssignToName

LEMMA AssignToElementKeeps ==
  ASSUME CheckInv, AssignToElement PROVE CheckInv'
<1> DEFINE e == Top(0)
           list == e.parts[2]
           errs1 == IndexErrors(e) \cup {"tc_assign"}
           errs2 == IndexErrors(e) \cup ValueErrors(stack[1]) \cup {"cannot_index"}
           to == IF IsList(list) THEN Elem(list) ELSE Nil
<1>1. status = "running" /\ form = "target" /\ Len(stack) = 2 /\ Top(1) = stack[1]
  BY TopFacts DEF AssignToElement, AtTarget
<1>2. /\ count + 0 <= sample.nodes /\ IndexErrors(e) \in SUBSET Diagnostics
      /\ errs1 \in SUBSET Diagnostics /\ errs2 \in SUBSET Diagnostics
      /\ errs1 # {} /\ errs2 # {}
  BY StateFacts, ErrorKinds DEF Diagnostics
<1>3. Marked
  <2>1. e.k \in Unusual
    BY DEF AssignToElement, Unusual
  <2> QED BY <1>1, <2>1, TopFacts
<1>4. \/ Crash({}) \/ Refuse(stack[1], errs1, 0) \/ Refuse(stack[1], errs2, 0)
      \/ Meet(stack[1], to, IndexErrors(e), 0)
  BY <1>1 DEF AssignToElement
<1> HIDE DEF e, errs1, errs2, to
<1>5. CASE Crash({})
  BY <1>3, <1>5, CrashKeeps
<1>6. CASE Refuse(stack[1], errs1, 0)
  BY <1>1, <1>2, <1>6, RefuseKeeps
<1>7. CASE Refuse(stack[1], errs2, 0)
  BY <1>1, <1>2, <1>7, RefuseKeeps
<1>8. CASE Meet(stack[1], to, IndexErrors(e), 0)
  BY <1>1, <1>2, <1>8, MeetKeeps
<1> QED BY <1>4, <1>5, <1>6, <1>7, <1>8

LEMMA AssignToMemberKeeps ==
  ASSUME CheckInv, NEW s, NEW m, AssignToMember(s, m)
  PROVE  CheckInv'
<1>1. status = "running" /\ form = "target" /\ Len(stack) = 1 /\ Top(0) = stack[1]
      /\ count < sample.nodes
  BY TopFacts DEF AssignToMember, AtTarget
<1>2. count + 1 <= sample.nodes /\ {"no_attr"} \in SUBSET Diagnostics
  BY <1>1, StateFacts DEF Diagnostics
<1>3. \/ Crash({"fancy"} \cup Wrong(s)) \/ Refuse(stack[1], {"no_attr"}, 1)
      \/ Meet(stack[1], MemberType(s, m), {}, 1)
  BY <1>1 DEF AssignToMember
<1>4. CASE Crash({"fancy"} \cup Wrong(s))
  BY <1>4, FancyCrash
<1>5. CASE Refuse(stack[1], {"no_attr"}, 1)
  BY <1>1, <1>2, <1>5, RefuseKeeps
<1>6. CASE Meet(stack[1], MemberType(s, m), {}, 1)
  BY <1>1, <1>2, <1>6, MeetKeeps
<1> QED BY <1>3, <1>4, <1>5, <1>6

LEMMA AssignToMemberOfExprKeeps ==
  ASSUME CheckInv, NEW s, AssignToMemberOfExpr(s) PROVE CheckInv'
<1> DEFINE v == Top(0)
           g == Given(v, Nil, FALSE)
           wrong == {"fancy"} \cup Unvisited(s)
<1>1. status = "running" /\ form = "target" /\ Len(stack) = 1 /\ v = stack[1]
      /\ count < sample.nodes
  BY TopFacts DEF AssignToMemberOfExpr, AtTarget
<1>2. count + 1 <= sample.nodes /\ stack \in Seq(Expr)
  BY <1>1, StateFacts
<1>3. CASE Crash({"fancy"})
  <2>1. {"fancy"} \in SUBSET Traits
    BY DEF Traits
  <2> QED BY <1>3, <2>1, CrashKeeps
<1>4. CASE /\ ValueRefused(v)
           /\ count' = count + 1 /\ assigned' = assigned \cup {g}
           /\ traits' = traits \cup wrong
           /\ UNCHANGED <<sample, stack, form, callee, errors, status>>
  <2>1. Sound(g, errors')
    <3>1. ~g.ok /\ g.k = "if"
      BY <1>4 DEF Given, ValueRefused
    <3> HIDE DEF g
    <3> QED BY <3>1 DEF Sound, Plain
  <2>2. wrong \in SUBSET Traits /\ "unvisited" \in wrong
    BY UnvisitedTraits
  <2>3. stack' = <<stack[1]>> /\ errors' = errors \cup {} /\ {} \in SUBSET Diagnostics
    BY <1>1, <1>2, <1>4
  <2> HIDE DEF g, wrong, v
  <2> QED BY <1>1, <1>2, <1>4, <2>1, <2>2, <2>3, TargetPassed
<1> HIDE DEF wrong
<1>5. \/ Crash({"fancy"})
      \/ /\ ValueRefused(v) /\ count' = count + 1 /\ assigned' = assigned \cup {g}
         /\ traits' = traits \cup wrong
         /\ UNCHANGED <<sample, stack, form, callee, errors, status>>
  BY DEF AssignToMemberOfExpr, wrong
<1> QED BY <1>3, <1>4, <1>5

LEMMA EndAssignKeeps ==
  ASSUME CheckInv, EndAssign PROVE CheckInv'
BY FinishKeeps DEF EndAssign, AtTarget

\* A return statement refuses what isAssignementCompatibility refuses.
LEMMA ReturnSound ==
  ASSUME NEW v, NEW e, NEW t, v.ty # Nil => t = v.ty, NEW ok,
         ok = Returnable(e, t), NEW errs,
         ~Returnable(e, t) => errs # {}
  PROVE  Sound(Given(v, e, ok), errs)
<1> DEFINE g == Given(v, e, ok)
<1>1. g.from = v.ty /\ g.to = e /\ (g.ok <=> Returnable(e, t))
  BY DEF Given
<1>2. Returnable(e, t) => t = e \/ (t = NoneTy /\ e \notin Primitive)
  BY DEF Returnable
<1>3. Returnable(e, t) => Compatible(t, e)
  BY <1>2 DEF Compatible
<1>4. t = e => Returnable(e, t)
  BY DEF Returnable
<1>5. Plain(g) => t = v.ty
  <2> HIDE DEF g
  <2> QED BY <1>1 DEF Plain
<1> HIDE DEF g
<1>6. Sound(g, errs)
  BY <1>1, <1>3, <1>4, <1>5 DEF Sound
<1> QED BY <1>6 DEF g

LEMMA ReturnKeeps ==
  ASSUME CheckInv, NEW e, Return(e) PROVE CheckInv'
<1> DEFINE v == Top(0)
           t == IF v.ty = Nil THEN NoneTy ELSE v.ty
           ok == Returnable(e, t)
           g == Given(v, e, ok)
           errs == DiagIf(~ok, "tc_assign")
<1>1. status = "running" /\ Settle("return", g, errs)
  BY DEF Return, Whole
<1>2. errs \in SUBSET Diagnostics /\ errors' = errors \cup errs
      /\ (~ok => errors' # {})
  BY <1>1 DEF DiagIf, Diagnostics, Settle
<1>3. v.ty # Nil => t = v.ty
  OBVIOUS
<1>4. Sound(g, errors')
  <2> HIDE DEF t, v
  <2> QED BY <1>2, <1>3, ReturnSound
<1> HIDE DEF g, errs
<1> QED BY <1>1, <1>2, <1>4, SettleKeeps

LEMMA ReturnNothingKeeps ==
  ASSUME CheckInv, NEW e, ReturnNothing(e) PROVE CheckInv'
<1> DEFINE v == Node("nothing", NoneTy)
           ok == Returnable(e, NoneTy)
           g == Given(v, e, ok)
           errs == DiagIf(~ok, "tc_assign")
<1>1. status = "running" /\ Settle("return", g, errs)
  BY DEF ReturnNothing, Fresh
<1>2. errs \in SUBSET Diagnostics /\ errors' = errors \cup errs
      /\ (~ok => errors' # {})
  BY <1>1 DEF DiagIf, Diagnostics, Settle
<1>3. v.ty = NoneTy
  BY DEF Node
<1>4. Sound(g, errors')
  <2> HIDE DEF v
  <2> QED BY <1>2, <1>3, ReturnSound
<1> HIDE DEF g, errs
<1> QED BY <1>1, <1>2, <1>4, SettleKeeps

LEMMA VarDefKeeps ==
  ASSUME CheckInv, NEW d, NEW t, VarDef(d, t) PROVE CheckInv'
<1> DEFINE ok == Compatible(t, d)
           g == Given(Node("literal", t), d, ok)
           errs == DiagIf(~IsList(d) /\ d[1] \notin Classes, "annotation")
                     \cup DiagIf(~ok, "tc_assign")
<1>1. status = "running" /\ Settle("vardef", g, errs)
  BY DEF VarDef, Fresh
<1>2. errs \in SUBSET Diagnostics /\ errors' = errors \cup errs
      /\ (~ok => errors' # {})
  BY <1>1 DEF DiagIf, Diagnostics, Settle
<1>3. g.from = t /\ g.to = d /\ (g.ok <=> ok)
  BY DEF Given, Node
<1>4. t = d => ok
  BY DEF Compatible
<1>5. Sound(g, errors')
  <2> HIDE DEF g
  <2> QED BY <1>2, <1>3, <1>4 DEF Sound
<1> HIDE DEF g, errs
<1> QED BY <1>1, <1>2, <1>5, SettleKeeps

-----------------------------------------------------------------------------
(* The invariant.                                                          *)

LEMMA InitCheck == Init => CheckInv
<1> SUFFICES ASSUME Init PROVE CheckInv
  OBVIOUS
<1>1. stack \in Seq(Expr) /\ Len(stack) = 0
  BY DEF Init
<1>2. TypeOK
  <2>1. sample.nodes \in Nat
    BY SamplesAssumption DEF Init, IsSample
  <2> QED BY <1>1, <2>1, BoundsAssumption DEF Init, TypeOK, Open
<1>3. UnusualMarked /\ UndeclaredMet /\ PlainNeverCrashes
  BY <1>1 DEF Init, UnusualMarked, UndeclaredMet, PlainNeverCrashes
<1>4. AcceptedFits /\ ExactTypeAccepted /\ RefusedReported
  BY DEF Init, AcceptedFits, ExactTypeAccepted, RefusedReported
<1> QED BY <1>2, <1>3, <1>4 DEF CheckInv

LEMMA CheckStep == CheckInv /\ [Next]_vars => CheckInv'
<1> SUFFICES ASSUME CheckInv, [Next]_vars PROVE CheckInv'
  OBVIOUS
<1>1. ASSUME NEW t \in sample.literals, Literal(t) PROVE CheckInv'
  BY <1>1, LiteralKeeps
<1>2. ASSUME NEW s \in sample.symbols, Ref(s) \/ RefClass(s) \/ IfStmt(s) PROVE CheckInv'
  BY <1>2, RefKeeps, RefClassKeeps, IfStmtKeeps
<1>3. ASSUME NEW op \in sample.operators, Binary(op) PROVE CheckInv'
  BY <1>3, BinaryKeeps
<1>4. CASE Unary \/ Conditional \/ Index
  BY <1>4, UnaryKeeps, ConditionalKeeps, IndexKeeps
<1>5. ASSUME NEW n \in 0 .. sample.args, List(n) \/ MethodCallOf(n) \/ CallOfExpr(n)
      PROVE  CheckInv'
  BY <1>5, ListKeeps, MethodCallKeeps, CallOfExprKeeps
<1>6. ASSUME NEW s \in sample.symbols, NEW n \in 0 .. sample.args, Call(s, n)
      PROVE  CheckInv'
  BY <1>6, CallKeeps
<1>7. ASSUME NEW m \in sample.members, MemberOf(m) PROVE CheckInv'
  BY <1>7, MemberKeeps
<1>8. CASE ExprStmt \/ IndexStmt \/ EndMethod
  BY <1>8, ExprStmtKeeps, IndexStmtKeeps, EndMethodKeeps
<1>9. ASSUME NEW t \in {BoolTy, IntTy}, UnaryStmt(t) PROVE CheckInv'
  BY <1>9, UnaryStmtKeeps
<1>10. ASSUME NEW s \in sample.symbols, NEW m \in sample.members,
              MemberStmt(s, m) \/ MethodStmt(s, m) \/ AssignToMember(s, m)
       PROVE  CheckInv'
  BY <1>10, MemberStmtKeeps, MethodStmtKeeps, AssignToMemberKeeps
<1>11. CASE BeginTargets \/ AssignToName \/ AssignToElement \/ EndAssign
  BY <1>11, BeginTargetsKeeps, AssignToNameKeeps, AssignToElementKeeps, EndAssignKeeps
<1>12. ASSUME NEW e \in sample.returns, Return(e) \/ ReturnNothing(e) PROVE CheckInv'
  BY <1>12, ReturnKeeps, ReturnNothingKeeps
<1>13. ASSUME NEW d \in sample.vars, NEW t \in sample.literals, VarDef(d, t)
       PROVE  CheckInv'
  BY <1>13, VarDefKeeps
<1>14. ASSUME NEW s \in sample.symbols,
              MemberStmtOfExpr(s) \/ MethodStmtOfExpr(s) \/ AssignToMemberOfExpr(s)
       PROVE  CheckInv'
  BY <1>14, MemberStmtOfExprKeeps, MethodStmtOfExprKeeps, AssignToMemberOfExprKeeps
<1>15. CASE WhileStmt \/ ForStmt
  BY <1>15, LoopKeeps
<1>16. CASE UNCHANGED vars
  <2>1. UNCHANGED <<sample, stack, form, callee, count, errors, traits, assigned, status>>
    BY <1>16 DEF vars
  <2>2. TypeOK' /\ UnusualMarked' /\ UndeclaredMet' /\ PlainNeverCrashes'
    BY <2>1 DEF CheckInv, TypeOK, UnusualMarked, Marked, UndeclaredMet, PlainNeverCrashes
  <2>3. AcceptedFits' /\ ExactTypeAccepted' /\ RefusedReported'
    BY <2>1 DEF CheckInv, AcceptedFits, ExactTypeAccepted, RefusedReported
  <2> QED BY <2>2, <2>3 DEF CheckInv
<1> QED BY <1>1, <1>2, <1>3, <1>4, <1>5, <1>6, <1>7, <1>8, <1>9, <1>10, <1>11, <1>12,
           <1>13, <1>14, <1>15, <1>16 DEF Next

\* The inductive invariant of the type checks (Sema.cpp).
THEOREM CheckInvariant == Spec => []CheckInv
BY InitCheck, CheckStep, PTL DEF Spec

\* Literals, names and operators always have a type, only known diagnostics are
\* reported, and a check that ends leaves no expression behind (Sema.cpp).
THEOREM TypeCheckTypeOK == Spec => []TypeOK
<1>1. CheckInv => TypeOK
  BY DEF CheckInv
<1> QED BY <1>1, CheckInvariant, PTL

\* An undeclared name never goes through the check of a statement unnoticed if all
\* parts of the statement are visited (actOnDeclRef, checkCallExpr); the condition of
\* an if and some objects that are no names are not.
THEOREM TypeCheckUndeclared == Spec => []UndeclaredReported
<1>1. CheckInv => UndeclaredReported
  BY DEF CheckInv, UndeclaredMet, UndeclaredReported
<1> QED BY <1>1, CheckInvariant, PTL

\* Literals, variables, operators, lists and calls, by their names, of functions that
\* return something never lead to the cast of a null pointer before something has been
\* reported (checkAssignment, checkExprList, checkParams).
THEOREM TypeCheckPlainNeverCrashes == Spec => []PlainNeverCrashes
<1>1. CheckInv => PlainNeverCrashes
  BY DEF CheckInv
<1> QED BY <1>1, CheckInvariant, PTL

\* What checkAssignment or checkReturnStmt accepts, isAssignementCompatibility
\* accepts too, but for object targets and lists of None.
THEOREM TypeCheckAcceptedFits == Spec => []AcceptedFits
<1>1. CheckInv => AcceptedFits
  BY DEF CheckInv
<1> QED BY <1>1, CheckInvariant, PTL

\* A value of exactly the declared type is accepted everywhere.
THEOREM TypeCheckExactType == Spec => []ExactTypeAccepted
<1>1. CheckInv => ExactTypeAccepted
  BY DEF CheckInv
<1> QED BY <1>1, CheckInvariant, PTL

\* No target of a chain, return value or initial value is refused in silence
\* (checkAssignment, checkAssignTarget, checkReturnStmt, actOnVarDef).
THEOREM TypeCheckRefusedReported == Spec => []RefusedReported
<1>1. CheckInv => RefusedReported
  BY DEF CheckInv
<1> QED BY <1>1, CheckInvariant, PTL
=============================================================================
