---------------------------- MODULE ParserProofs ----------------------------
(***************************************************************************)
(* Proofs about the parser: for every set of texts, whatever fails has a   *)
(* caller that goes on, the parser never leaves the text, and until a      *)
(* procedure fails the blocks it is in are those the lexer has opened.     *)
(*                                                                         *)
(* Then its soundness: until a procedure fails, each call under way        *)
(* foresees what the grammar has still to derive when it returns, and a    *)
(* leftmost derivation comes to where the parser is.  So what is accepted  *)
(* is derived, with the operators in the order of the grammar.             *)
(***************************************************************************)
EXTENDS Parser, Counting

\* What is neither a place to return to nor one of the program's loops, and
\* what has no part in the ends of a block.
Blocks == {T("INDENT"), T("DEDENT")}
Inner == {e \in Entries : e.kind # "try" /\ e \notin TopLoops}
Quiet == {e \in Inner : e \notin Blocks}

HasTry(s) == \E j \in 1 .. Len(s) : s[j].kind = "try"

\* FailuresReturn of any stack.
Returned(s, i) ==
  IF s[i].kind = "try"
  THEN s[i].name \in GoesOn =>
         i < Len(s) /\ s[i + 1].kind = "loop" /\ s[i + 1] \notin TopLoops
  ELSE s[i] \notin TopLoops => \E j \in i + 1 .. Len(s) : s[j].kind = "try"
Returns(s) == \A i \in 1 .. Len(s) : Returned(s, i)

-----------------------------------------------------------------------------
(* Entries.                                                                *)

LEMMA CallEntry ==
  ASSUME NEW x \in Procedures
  PROVE  P(x) \in Quiet
<1> DEFINE e == P(x)
<1>1. e \in Entries /\ e.kind = "call"
  <2>1. P(x) \in Entries
    BY Zenon DEF Entries
  <2> QED BY <2>1 DEF P, Entry
<1>2. \A y \in TopLoops \cup Blocks : y.kind # "call"
  BY DEF TopLoops, Blocks, L, T, Entry
<1> HIDE DEF e
<1>3. e \in Quiet
  BY <1>1, <1>2 DEF Quiet, Inner
<1> QED BY <1>3 DEF e

LEMMA ExpectEntry ==
  ASSUME NEW x \in Tokens
  PROVE  /\ T(x) \in Inner
         /\ x \notin {"INDENT", "DEDENT"} => T(x) \in Quiet
         /\ T(x).kind = "expect" /\ T(x).name = x
<1> DEFINE e == T(x)
<1>1. e \in Entries /\ e.kind = "expect" /\ e.name = x
  <2>1. T(x) \in Entries
    BY Zenon DEF Entries
  <2> QED BY <2>1 DEF T, Entry
<1>2. /\ \A y \in TopLoops : y.kind # "expect"
      /\ \A y \in Blocks : y.name \in {"INDENT", "DEDENT"}
  BY DEF TopLoops, Blocks, L, T, Entry
<1> HIDE DEF e
<1>3. e \in Inner /\ (x \notin {"INDENT", "DEDENT"} => e \in Quiet)
  BY <1>1, <1>2 DEF Quiet, Inner
<1> QED BY <1>1, <1>3 DEF e

LEMMA LoopEntry ==
  ASSUME NEW x \in Loops
  PROVE  /\ L(x) \in Entries /\ L(x).kind = "loop"
         /\ x \in {"declarations", "statements"} => L(x) \in TopLoops
         /\ x \notin {"declarations", "statements"} => L(x) \in Quiet
<1> DEFINE e == L(x)
<1>1. e \in Entries /\ e.kind = "loop" /\ e.name = x
  <2>1. L(x) \in Entries
    BY Zenon DEF Entries
  <2> QED BY <2>1 DEF L, Entry
<1>2. x \in {"declarations", "statements"} => e \in TopLoops
  BY DEF TopLoops
<1>3. /\ \A y \in TopLoops : y.name \in {"declarations", "statements"}
      /\ \A y \in Blocks : y.kind # "loop"
  BY DEF TopLoops, Blocks, L, T, Entry
<1> HIDE DEF e
<1>4. x \notin {"declarations", "statements"} => e \in Quiet
  BY <1>1, <1>3 DEF Quiet, Inner
<1> QED BY <1>1, <1>2, <1>4 DEF e

LEMMA TryEntry ==
  ASSUME NEW x \in Recoveries
  PROVE  Try(x) \in Entries /\ Try(x).kind = "try" /\ Try(x).name = x
<1>1. Try(x) \in Entries
  BY Zenon DEF Entries
<1> QED BY <1>1 DEF Try, Entry

LEMMA LevelEntry ==
  ASSUME NEW n \in 1 .. 8
  PROVE  Level(n) \in Quiet
<1> DEFINE e == Level(n)
<1>1. e \in Entries /\ e.kind = "level"
  <2>1. Level(n) \in Entries
    BY Zenon DEF Entries, Precedences
  <2> QED BY <2>1 DEF Level, Entry
<1>2. \A y \in TopLoops \cup Blocks : y.kind # "level"
  BY DEF TopLoops, Blocks, L, T, Entry
<1> HIDE DEF e
<1>3. e \in Quiet
  BY <1>1, <1>2 DEF Quiet, Inner
<1> QED BY <1>3 DEF e

LEMMA MoreEntry ==
  ASSUME NEW x \in Pending, NEW m \in 1 .. 8, NEW n \in 1 .. 8
  PROVE  More(x, m, n) \in Quiet
<1> DEFINE e == More(x, m, n)
<1>1. e \in Entries /\ e.kind = "more"
  <2>1. e \in [kind : {"more"}, name : Pending, from : Precedences, to : Precedences]
    BY DEF More, Entry, Precedences
  <2>2. e \in Entries
    BY <2>1, Zenon DEF Entries
  <2> QED BY <2>2 DEF More, Entry
<1>2. \A y \in TopLoops \cup Blocks : y.kind # "more"
  BY DEF TopLoops, Blocks, L, T, Entry
<1> HIDE DEF e
<1>3. e \in Quiet
  BY <1>1, <1>2 DEF Quiet, Inner
<1> QED BY <1>3 DEF e

\* What an entry says by its kind.
LEMMA KindsOfEntries ==
  ASSUME NEW e \in Entries
  PROVE  /\ e.kind \in {"level", "more"} => e.from \in 1 .. 8 /\ e.to \in 1 .. 8
         /\ e.kind = "expect" => e.name \in Tokens /\ e = T(e.name)
         /\ e.kind \in {"expect", "call", "level", "more"} => e \in Inner
         /\ e.kind = "loop" /\ e \notin TopLoops => e \in Inner
         /\ e.kind = "try" => e.name \in Recoveries
<1>1. \/ \E x \in Tokens : e = T(x)
      \/ \E x \in Procedures : e = P(x)
      \/ \E x \in Loops : e = L(x)
      \/ \E x \in Recoveries : e = Try(x)
      \/ \E n \in 1 .. 8 : e = Level(n)
      \/ e \in [kind : {"more"}, name : Pending, from : Precedences, to : Precedences]
  BY Zenon DEF Entries, Precedences
<1>2. \A y \in TopLoops : y.kind = "loop"
  BY DEF TopLoops, L, Entry
<1>3. /\ e.kind \in {"level", "more"} => e.from \in 1 .. 8 /\ e.to \in 1 .. 8
      /\ e.kind = "expect" => e.name \in Tokens /\ e = T(e.name)
      /\ e.kind = "try" => e.name \in Recoveries
  <2>1. CASE \E x \in Tokens : e = T(x)
    BY <2>1 DEF T, Entry
  <2>2. CASE \E x \in Procedures : e = P(x)
    BY <2>2 DEF P, Entry
  <2>3. CASE \E x \in Loops : e = L(x)
    BY <2>3 DEF L, Entry
  <2>4. CASE \E x \in Recoveries : e = Try(x)
    BY <2>4 DEF Try, Entry
  <2>5. CASE \E n \in 1 .. 8 : e = Level(n)
    BY <2>5 DEF Level, Entry
  <2>6. CASE e \in [kind : {"more"}, name : Pending, from : Precedences, to : Precedences]
    BY <2>6 DEF Precedences
  <2> QED BY <1>1, <2>1, <2>2, <2>3, <2>4, <2>5, <2>6
<1> QED BY <1>2, <1>3 DEF Inner

-----------------------------------------------------------------------------
(* Stacks.                                                                 *)

LEMMA ConcatElements ==
  ASSUME NEW S, NEW s \in Seq(S), NEW t \in Seq(S)
  PROVE  /\ s \o t \in Seq(S) /\ Len(s \o t) = Len(s) + Len(t)
         /\ \A i \in 1 .. Len(s) : (s \o t)[i] = s[i]
         /\ \A i \in 1 .. Len(t) : (s \o t)[Len(s) + i] = t[i]
<1> DEFINE r == s \o t
<1>1. /\ r \in Seq(S) /\ Len(r) = Len(s) + Len(t)
      /\ \A i \in 1 .. Len(s) + Len(t) :
           r[i] = IF i <= Len(s) THEN s[i] ELSE t[i - Len(s)]
  BY ONLY s \in Seq(S), t \in Seq(S), ConcatProperties, Zenon
<1>2. Len(s) \in Nat /\ Len(t) \in Nat
  OBVIOUS
<1> HIDE DEF r
<1>3. \A i \in 1 .. Len(s) : r[i] = s[i]
  BY <1>1, <1>2
<1>4. ASSUME NEW i \in 1 .. Len(t)
      PROVE  r[Len(s) + i] = t[i]
  <2>1. Len(s) + i \in 1 .. Len(s) + Len(t) /\ ~(Len(s) + i <= Len(s))
    BY <1>2
  <2>2. Len(s) + i - Len(s) = i
    BY <1>2
  <2> QED BY <1>1, <2>1, <2>2
<1> QED BY <1>1, <1>3, <1>4 DEF r

\* What lies above an entry does not matter to it.
LEMMA Shifted ==
  ASSUME NEW s \in Seq(Entries), NEW r \in Seq(Entries), NEW n \in Nat,
         Len(r) = n + Len(s), \A i \in 1 .. Len(s) : r[n + i] = s[i],
         NEW m \in 1 .. Len(s)
  PROVE  Returned(s, m) <=> Returned(r, n + m)
<1>1. Len(s) \in Nat /\ m \in Nat /\ r[n + m] = s[m]
  OBVIOUS
<1>2. m < Len(s) => r[n + m + 1] = s[m + 1]
  <2>1. n + (m + 1) = n + m + 1 /\ (m < Len(s) => m + 1 \in 1 .. Len(s))
    BY <1>1
  <2> QED BY <2>1
<1>3. m < Len(s) <=> n + m < Len(r)
  BY <1>1
<1>4. (\E j \in m + 1 .. Len(s) : s[j].kind = "try")
        <=> (\E j \in n + m + 1 .. Len(r) : r[j].kind = "try")
  <2>1. ASSUME NEW j \in m + 1 .. Len(s), s[j].kind = "try"
        PROVE  \E k \in n + m + 1 .. Len(r) : r[k].kind = "try"
    <3>1. j \in 1 .. Len(s) /\ n + j \in n + m + 1 .. Len(r)
      BY <1>1
    <3> QED BY <2>1, <3>1
  <2>2. ASSUME NEW j \in n + m + 1 .. Len(r), r[j].kind = "try"
        PROVE  \E k \in m + 1 .. Len(s) : s[k].kind = "try"
    <3>1. j - n \in 1 .. Len(s) /\ j - n \in m + 1 .. Len(s) /\ n + (j - n) = j
      BY <1>1
    <3>2. r[n + (j - n)] = s[j - n]
      BY ONLY <3>1, \A i \in 1 .. Len(s) : r[n + i] = s[i]
    <3> QED BY <2>2, <3>1, <3>2
  <2> QED BY <2>1, <2>2
<1> QED BY <1>1, <1>2, <1>3, <1>4 DEF Returned

\* Entries on top of a stack that has a place to return to.
LEMMA ReturnsAbove ==
  ASSUME NEW s \in Seq(Entries), NEW u \in Seq(Inner), Returns(s), HasTry(s)
  PROVE  u \o s \in Seq(Entries) /\ Returns(u \o s)
<1> DEFINE r == u \o s
           n == Len(u)
<1>1. u \in Seq(Entries) /\ n \in Nat /\ Len(s) \in Nat
  BY DEF Inner
<1>2. /\ r \in Seq(Entries) /\ Len(r) = n + Len(s)
      /\ \A i \in 1 .. n : r[i] = u[i]
      /\ \A i \in 1 .. Len(s) : r[n + i] = s[i]
  BY <1>1, ConcatElements
<1> HIDE DEF r, n
<1>3. PICK j \in 1 .. Len(s) : s[j].kind = "try"
  BY DEF HasTry
<1>4. n + j \in 1 .. Len(r) /\ r[n + j].kind = "try"
  BY <1>1, <1>2, <1>3
<1>5. ASSUME NEW i \in 1 .. Len(r)
      PROVE  Returned(r, i)
  <2>1. CASE i <= n
    <3>1. r[i].kind # "try"
      BY <1>1, <1>2, <2>1 DEF Inner, n
    <3>2. n + j \in i + 1 .. Len(r)
      BY <1>1, <1>2, <2>1
    <3> QED BY <1>4, <3>1, <3>2 DEF Returned
  <2>2. CASE i > n
    <3>1. i - n \in 1 .. Len(s) /\ n + (i - n) = i
      BY <1>1, <1>2, <2>2
    <3>2. Returned(s, i - n)
      BY <3>1 DEF Returns
    <3>3. Returned(r, n + (i - n))
      BY <1>1, <1>2, <3>1, <3>2, Shifted
    <3> QED BY <3>1, <3>3
  <2> QED BY <1>1, <1>2, <2>1, <2>2
<1> QED BY <1>2, <1>5 DEF r, Returns

\* What is below an entry of a stack, and has a place to return to if that
\* entry needs one.
LEMMA ReturnsBelow ==
  ASSUME NEW s \in Seq(Entries), NEW r \in Seq(Entries), Returns(r), NEW n \in Nat,
         Len(r) = n + Len(s), \A i \in 1 .. Len(s) : r[n + i] = s[i]
  PROVE  /\ Returns(s)
         /\ n > 0 /\ r[n] \in Inner => HasTry(s)
<1>1. ASSUME NEW i \in 1 .. Len(s)
      PROVE  Returned(s, i)
  <2>1. n + i \in 1 .. Len(r)
    OBVIOUS
  <2>2. Returned(r, n + i)
    BY <2>1 DEF Returns
  <2> QED BY <2>2, Shifted
<1>2. ASSUME n > 0, r[n] \in Inner
      PROVE  HasTry(s)
  <2>1. n \in 1 .. Len(r) /\ Len(s) \in Nat
    BY <1>2
  <2>2. PICK j \in n + 1 .. Len(r) : r[j].kind = "try"
    BY <1>2, <2>1 DEF Returns, Returned, Inner
  <2>3. j - n \in 1 .. Len(s) /\ n + (j - n) = j
    BY <2>1
  <2>4. r[n + (j - n)] = s[j - n]
    BY ONLY <2>3, \A i \in 1 .. Len(s) : r[n + i] = s[i]
  <2> QED BY <2>2, <2>3, <2>4 DEF HasTry
<1> QED BY <1>1, <1>2 DEF Returns

\* A call whose failure is caught, and the loop it is made in.
LEMMA ReturnsAboveTry ==
  ASSUME NEW s \in Seq(Entries), Returns(s), NEW a \in Inner, NEW x \in Recoveries,
         NEW l \in Entries, l.kind = "loop",
         \/ l \in TopLoops /\ x \notin GoesOn
         \/ l \in Inner /\ HasTry(s)
  PROVE  <<a, Try(x), l>> \o s \in Seq(Entries) /\ Returns(<<a, Try(x), l>> \o s)
<1> DEFINE t == Try(x)
           u == <<a, t, l>>
           r == u \o s
<1>1. t \in Entries /\ t.kind = "try" /\ t.name = x /\ a \in Entries /\ a.kind # "try"
  BY TryEntry DEF Inner
<1> HIDE DEF t
<1>2. /\ u \in Seq(Entries) /\ Len(u) = 3 /\ Len(s) \in Nat
      /\ u[1] = a /\ u[2] = t /\ u[3] = l
  BY <1>1
<1> HIDE DEF u
<1>3. /\ r \in Seq(Entries) /\ Len(r) = 3 + Len(s)
      /\ r[1] = a /\ r[2] = t /\ r[3] = l
      /\ \A i \in 1 .. Len(s) : r[3 + i] = s[i]
  <2>1. u \in Seq(Entries) /\ s \in Seq(Entries)
    BY <1>2
  <2>2. r \in Seq(Entries) /\ Len(r) = Len(u) + Len(s)
    BY ONLY <2>1, ConcatElements, Zenon
  <2>3. \A i \in 1 .. Len(u) : r[i] = u[i]
    BY ONLY <2>1, ConcatElements, Zenon
  <2>4. \A i \in 1 .. Len(s) : r[Len(u) + i] = s[i]
    BY ONLY <2>1, ConcatElements, SMTT(30)
  <2> HIDE DEF r
  <2> QED BY <1>2, <2>2, <2>3, <2>4
<1> HIDE DEF r
<1>4. Returned(r, 1)
  <2>1. 2 \in 1 + 1 .. Len(r) /\ r[2].kind = "try"
    BY <1>1, <1>2, <1>3
  <2> QED BY <1>1, <1>3, <2>1 DEF Returned
<1>5. Returned(r, 2)
  <2>1. 2 < Len(r) /\ r[2 + 1] = l
    BY <1>2, <1>3
  <2> QED BY <1>1, <1>3, <2>1 DEF Returned, Inner
<1>6. Returned(r, 3)
  <2>1. CASE l \in TopLoops
    BY <1>3, <2>1 DEF Returned
  <2>2. CASE HasTry(s)
    <3>1. PICK j \in 1 .. Len(s) : s[j].kind = "try"
      BY <2>2 DEF HasTry
    <3>2. 3 + j \in 3 + 1 .. Len(r) /\ r[3 + j].kind = "try"
      BY <1>2, <1>3, <3>1
    <3> QED BY <1>3, <3>2 DEF Returned
  <2> QED BY <2>1, <2>2
<1>7. ASSUME NEW i \in 1 .. Len(r), i > 3
      PROVE  Returned(r, i)
  <2>1. i - 3 \in 1 .. Len(s) /\ 3 + (i - 3) = i
    BY <1>2, <1>3, <1>7
  <2>2. Returned(s, i - 3)
    BY <2>1 DEF Returns
  <2>3. Returned(r, 3 + (i - 3))
    BY <1>3, <2>1, <2>2, Shifted
  <2> QED BY <2>1, <2>3
<1>8. ASSUME NEW i \in 1 .. Len(r)
      PROVE  i = 1 \/ i = 2 \/ i = 3 \/ i > 3
  BY <1>2, <1>3
<1>9. Returns(r)
  BY <1>4, <1>5, <1>6, <1>7, <1>8 DEF Returns
<1> QED BY <1>3, <1>9 DEF r, u, t

-----------------------------------------------------------------------------
(* Steps.                                                                  *)

LEMMA TimesNone ==
  ASSUME NEW S, NEW q \in Seq(S), NEW x, \A i \in 1 .. Len(q) : q[i] # x
  PROVE  Times(q, x) = 0
<1>1. Places(q, x) = {}
  BY DEF Places
<1> QED BY <1>1, FS_EmptySet DEF Times

LEMMA TimesOnce ==
  ASSUME NEW S, NEW q \in Seq(S), NEW x, NEW k \in 1 .. Len(q),
         \A i \in 1 .. Len(q) : q[i] = x <=> i = k
  PROVE  Times(q, x) = 1
<1>1. Places(q, x) = {k}
  BY DEF Places
<1> QED BY <1>1, FS_Singleton DEF Times

\* The open blocks are what the stack has to end.
LEMMA OpenIsTimes ==
  ASSUME NEW tok
  PROVE  Open(tok) = Times(stack, T(tok))
BY DEF Open, Count, Times, Places

\* The entry being dealt with and those below it.
LEMMA Below ==
  ASSUME ParserInv, Running
  PROVE  /\ stack \in Seq(Entries) /\ stack # <<>> /\ Returns(stack)
         /\ Head1 \in Entries /\ Tail(stack) \in Seq(Entries)
         /\ Returns(Tail(stack))
         /\ Head1 \in Inner => HasTry(Tail(stack))
<1> DEFINE s == Tail(stack)
<1>1. stack \in Seq(Entries) /\ stack # <<>> /\ Returns(stack)
  BY DEF ParserInv, TypeOK, Running, FailuresReturn, Returns, Returned
<1>2. /\ Head1 \in Entries /\ s \in Seq(Entries) /\ Len(stack) = 1 + Len(s)
      /\ \A i \in 1 .. Len(s) : stack[1 + i] = s[i]
  BY <1>1 DEF Head1
<1> HIDE DEF s
<1>3. Returns(s) /\ (1 > 0 /\ stack[1] \in Inner => HasTry(s))
  BY <1>1, <1>2, ReturnsBelow
<1> QED BY <1>1, <1>2, <1>3 DEF s, Head1

\* A step that passes no end of a block and opens as many as it will end.
LEMMA StepKeeps ==
  ASSUME ParserInv, Running, Head1 \notin Blocks,
         NEW u \in Seq(Entries), Do(u), Returns(stack'), stack' \in Seq(Entries),
         Times(u, T("INDENT")) = Times(u, T("DEDENT")),
         text' = text, recovered' = recovered, pos' \in 1 .. Len(text),
         target' \in BOOLEAN, diagnosed' \in BOOLEAN, nodes' \in Seq(NodeNames),
         Passed("INDENT")' = Passed("INDENT"), Passed("DEDENT")' = Passed("DEDENT")
  PROVE  ParserInv'
<1>1. TypeOK'
  BY DEF ParserInv, TypeOK
<1>2. FailuresReturn'
  BY DEF FailuresReturn, Returns, Returned
<1>3. BlocksNest'
  <2>1. \A tok \in {"INDENT", "DEDENT"} :
          /\ Times(stack, T(tok)) = Times(Tail(stack), T(tok))
          /\ Times(stack', T(tok)) = Times(u, T(tok)) + Times(Tail(stack), T(tok))
          /\ Times(u, T(tok)) \in Nat /\ Times(Tail(stack), T(tok)) \in Nat
    <3> TAKE tok \in {"INDENT", "DEDENT"}
    <3>1. /\ stack \in Seq(Entries) /\ stack # <<>> /\ Tail(stack) \in Seq(Entries)
          /\ stack' = u \o Tail(stack) /\ stack[1] # T(tok)
      BY Below DEF Do, Blocks, Head1
    <3>2. Times(Tail(stack), T(tok)) \in Nat /\ Times(u, T(tok)) \in Nat
      BY <3>1, TimesType
    <3>3. Times(u \o Tail(stack), T(tok)) = Times(u, T(tok)) + Times(Tail(stack), T(tok))
      BY ONLY <3>1, u \in Seq(Entries), TimesConcat, Zenon
    <3>4. Times(stack, T(tok)) = Times(Tail(stack), T(tok))
                                   + (IF stack[1] = T(tok) THEN 1 ELSE 0)
      BY ONLY <3>1, TimesTail, Zenon
    <3> QED BY <3>1, <3>2, <3>3, <3>4
  <2>2. /\ Open("INDENT") = Times(stack, T("INDENT"))
        /\ Open("DEDENT") = Times(stack, T("DEDENT"))
        /\ Open("INDENT")' = Times(stack', T("INDENT"))
        /\ Open("DEDENT")' = Times(stack', T("DEDENT"))
    BY DEF Open, Count, Times, Places, T
  <2>3. Open("DEDENT")' - Open("INDENT")' = Open("DEDENT") - Open("INDENT")
    BY <2>1, <2>2
  <2> QED BY <2>3 DEF BlocksNest, ParserInv
<1> QED BY <1>1, <1>2, <1>3 DEF ParserInv

\* The same step where what is put on the stack opens nothing.
LEMMA QuietStepKeeps ==
  ASSUME ParserInv, Running, Head1 \in Quiet, NEW u \in Seq(Quiet), Do(u),
         text' = text, recovered' = recovered, pos' \in 1 .. Len(text),
         target' \in BOOLEAN, diagnosed' \in BOOLEAN, nodes' \in Seq(NodeNames),
         Passed("INDENT")' = Passed("INDENT"), Passed("DEDENT")' = Passed("DEDENT")
  PROVE  ParserInv'
<1>1. u \in Seq(Inner) /\ u \in Seq(Entries)
  BY DEF Quiet, Inner
<1>2. Head1 \notin Blocks /\ Head1 \in Inner /\ stack' = u \o Tail(stack)
  BY DEF Quiet, Do
<1>3. stack' \in Seq(Entries) /\ Returns(stack')
  <2>1. Tail(stack) \in Seq(Entries) /\ Returns(Tail(stack)) /\ HasTry(Tail(stack))
    BY <1>2, Below
  <2>2. u \o Tail(stack) \in Seq(Entries) /\ Returns(u \o Tail(stack))
    BY ONLY <1>1, <2>1, ReturnsAbove, Zenon
  <2> QED BY <1>2, <2>2
<1>4. Times(u, T("INDENT")) = 0 /\ Times(u, T("DEDENT")) = 0
  <2>1. \A i \in 1 .. Len(u) : u[i] \notin Blocks
    BY DEF Quiet
  <2>2. \A i \in 1 .. Len(u) : u[i] # T("INDENT") /\ u[i] # T("DEDENT")
    BY <2>1 DEF Blocks
  <2> QED BY <2>2, TimesNone
<1> QED BY <1>1, <1>2, <1>3, <1>4, StepKeeps

Before(t, p, x) == {i \in 1 .. p - 1 : t[i] = x}

LEMMA SamePlaces ==
  ASSUME NEW t, NEW p \in Nat, NEW q \in Nat, p <= q, NEW x,
         \A i \in p .. q - 1 : t[i] # x
  PROVE  Before(t, q, x) = Before(t, p, x)
<1>1. ASSUME NEW i \in 1 .. q - 1, t[i] = x
      PROVE  i \in 1 .. p - 1
  <2>1. i \in Int /\ ~(i \in p .. q - 1)
    BY <1>1
  <2> QED BY <2>1
<1>2. 1 .. p - 1 \subseteq 1 .. q - 1
  OBVIOUS
<1> QED BY <1>1, <1>2 DEF Before

\* No end of a block is passed.
LEMMA NothingPassed ==
  ASSUME pos \in Nat, pos' \in Nat, pos <= pos', text' = text,
         \A i \in pos .. pos' - 1 : text[i] \notin {"INDENT", "DEDENT"}
  PROVE  Passed("INDENT")' = Passed("INDENT") /\ Passed("DEDENT")' = Passed("DEDENT")
<1>1. \A i \in pos .. pos' - 1 : text[i] # "INDENT"
  OBVIOUS
<1>2. \A i \in pos .. pos' - 1 : text[i] # "DEDENT"
  OBVIOUS
<1>3. /\ Before(text, pos', "INDENT") = Before(text, pos, "INDENT")
      /\ Before(text, pos', "DEDENT") = Before(text, pos, "DEDENT")
  BY <1>1, <1>2, SamePlaces, Zenon
<1>4. /\ Passed("INDENT")' = Cardinality(Before(text', pos', "INDENT"))
      /\ Passed("DEDENT")' = Cardinality(Before(text', pos', "DEDENT"))
      /\ Passed("INDENT") = Cardinality(Before(text, pos, "INDENT"))
      /\ Passed("DEDENT") = Cardinality(Before(text, pos, "DEDENT"))
  BY Zenon DEF Passed, Count, Before
<1> QED BY ONLY <1>3, <1>4, text' = text, Zenon

LEMMA CallKeeps ==
  ASSUME ParserInv, Running, Head1 \in Quiet, NEW u \in Seq(Quiet), Call(u)
  PROVE  ParserInv'
<1>1. /\ Do(u) /\ text' = text /\ recovered' = recovered /\ pos' = pos
      /\ target' = target /\ diagnosed' = diagnosed /\ nodes' = nodes
  BY DEF Call
<1>2. /\ pos \in 1 .. Len(text) /\ target \in BOOLEAN /\ diagnosed \in BOOLEAN
      /\ Len(text) \in Nat /\ nodes \in Seq(NodeNames)
  BY DEF ParserInv, TypeOK, IsText
<1>3. Passed("INDENT")' = Passed("INDENT") /\ Passed("DEDENT")' = Passed("DEDENT")
  BY <1>1 DEF Passed, Count
<1> QED BY <1>1, <1>2, <1>3, QuietStepKeeps

LEMMA TakeKeeps ==
  ASSUME ParserInv, Running, Head1 \in Quiet, NEW u \in Seq(Quiet), Do(u), Consume(1),
         text' = text, recovered' = recovered, target' \in BOOLEAN,
         nodes' \in Seq(NodeNames), diagnosed' = diagnosed, Tok \notin {"INDENT", "DEDENT"}
  PROVE  ParserInv'
<1>1. pos \in 1 .. Len(text) /\ diagnosed \in BOOLEAN /\ Len(text) \in Nat
  BY DEF ParserInv, TypeOK, IsText
<1>2. pos' \in 1 .. Len(text) /\ (pos' = pos \/ pos' = pos + 1)
  BY <1>1 DEF Consume
<1>3. Passed("INDENT")' = Passed("INDENT") /\ Passed("DEDENT")' = Passed("DEDENT")
  <2>1. ASSUME NEW p \in Nat, NEW q \in Nat, q = p \/ q = p + 1
        PROVE  \A i \in p .. q - 1 : i = p
    BY <2>1
  <2>2. \A i \in pos .. pos' - 1 : text[i] \notin {"INDENT", "DEDENT"}
    <3>1. pos \in Nat /\ pos' \in Nat
      BY <1>1, <1>2
    <3>2. \A i \in pos .. pos' - 1 : i = pos
      BY ONLY <1>2, <2>1, <3>1, Zenon
    <3> QED BY <3>2 DEF Tok
  <2>3. pos \in Nat /\ pos' \in Nat /\ pos <= pos'
    BY <1>1, <1>2
  <2> QED BY <2>2, <2>3, NothingPassed
<1> QED BY <1>1, <1>2, <1>3, QuietStepKeeps

\* A call whose failure is caught.
LEMMA TryKeeps ==
  ASSUME ParserInv, Running, NEW a \in Quiet, NEW x \in Recoveries, NEW l \in Entries,
         l.kind = "loop", Call(<<a, Try(x), l>>),
         \/ Head1 = l /\ l \in TopLoops /\ x \notin GoesOn
         \/ Head1 \in Quiet /\ l \in Quiet
  PROVE  ParserInv'
<1> DEFINE t == Try(x)
           u == <<a, t, l>>
<1>1. /\ t \in Entries /\ t.kind = "try"
      /\ \A e \in Blocks : e.kind = "expect"
      /\ \A e \in TopLoops : e.kind = "loop"
  BY TryEntry DEF Blocks, TopLoops, T, L, Entry
<1>2. /\ a \in Inner /\ a \in Entries /\ a \notin Blocks
      /\ l \in Quiet => l \in Inner /\ l \notin Blocks /\ l.kind # "try"
      /\ Head1 \in Quiet => Head1 \in Inner /\ Head1 \notin Blocks
  BY DEF Quiet, Inner
<1>3. t \notin Blocks /\ l \notin Blocks /\ Head1 \notin Blocks /\ l.kind # "try"
  BY <1>1, <1>2
<1>4. Tail(stack) \in Seq(Entries) /\ Returns(Tail(stack))
      /\ (Head1 \in Inner => HasTry(Tail(stack)))
  BY Below
<1>5. u \o Tail(stack) \in Seq(Entries) /\ Returns(u \o Tail(stack))
  BY <1>2, <1>3, <1>4, ReturnsAboveTry
<1> HIDE DEF t
<1>6. u \in Seq(Entries) /\ Len(u) = 3 /\ u[1] = a /\ u[2] = t /\ u[3] = l
  BY <1>1, <1>2
<1> HIDE DEF u
<1>7. \A i \in 1 .. Len(u) : u[i] # T("INDENT") /\ u[i] # T("DEDENT")
  BY <1>2, <1>3, <1>6 DEF Blocks
<1>8. Times(u, T("INDENT")) = 0 /\ Times(u, T("DEDENT")) = 0
  BY <1>6, <1>7, TimesNone
<1>9. /\ Do(u) /\ text' = text /\ recovered' = recovered /\ pos' = pos
      /\ target' = target /\ diagnosed' = diagnosed /\ nodes' = nodes
  BY DEF Call, u, t
<1>10. /\ pos \in 1 .. Len(text) /\ target \in BOOLEAN /\ diagnosed \in BOOLEAN
       /\ nodes \in Seq(NodeNames)
  BY DEF ParserInv, TypeOK
<1>11. Passed("INDENT")' = Passed("INDENT") /\ Passed("DEDENT")' = Passed("DEDENT")
  BY <1>9 DEF Passed, Count
<1>12. stack' \in Seq(Entries) /\ Returns(stack')
  BY <1>5, <1>9 DEF Do
<1> QED BY <1>3, <1>6, <1>8, <1>9, <1>10, <1>11, <1>12, StepKeeps

\* The next line begins in the text.
LEMMA NextLineInText ==
  ASSUME ParserInv
  PROVE  NextLine \in 1 .. Len(text)
<1> DEFINE ends == {i \in pos .. Len(text) : text[i] \in {"NEWLINE", "eof"}}
           e == CHOOSE i \in ends : \A j \in ends : i <= j
<1>1. /\ pos \in 1 .. Len(text) /\ Len(text) \in Nat /\ Len(text) > 0
      /\ \A i \in 1 .. Len(text) : text[i] = "eof" <=> i = Len(text)
  BY DEF ParserInv, TypeOK, IsText
<1>2. Len(text) \in ends /\ ends \in SUBSET Nat
  BY <1>1
<1>3. e \in ends
  <2> HIDE DEF ends
  <2>1. \E i \in ends : \A j \in ends : i <= j
    BY <1>2, LeastNat
  <2> QED BY <2>1
<1> HIDE DEF e
<1>4. e \in 1 .. Len(text) /\ (text[e] # "eof" => e # Len(text))
  BY <1>1, <1>3
<1>5. NextLine = IF text[e] = "eof" THEN e ELSE e + 1
  BY DEF NextLine, e
<1> QED BY <1>1, <1>4, <1>5

\* Where a failure returns to, the invariant holds again.
LEMMA FailKeeps ==
  ASSUME ParserInv, Running, Head1 \in Inner, Fail, diagnosed' \in BOOLEAN
  PROVE  ParserInv'
<1> DEFINE Trying == {i \in 1 .. Len(stack) : stack[i].kind = "try"}
           c == CHOOSE i \in 1 .. Len(stack) :
                  stack[i].kind = "try" /\ \A j \in 1 .. i - 1 : stack[j].kind # "try"
           rest == SubSeq(stack, c + 1, Len(stack))
<1>1. /\ stack \in Seq(Entries) /\ stack # <<>> /\ Returns(stack)
      /\ HasTry(Tail(stack))
  BY Below
<1>2. c \in 1 .. Len(stack) /\ stack[c].kind = "try"
  <2>1. PICK k \in 1 .. Len(Tail(stack)) : Tail(stack)[k].kind = "try"
    BY <1>1 DEF HasTry
  <2>2. k + 1 \in Trying /\ Trying \in SUBSET Nat
    BY <1>1, <2>1
  <2>3. PICK i \in Trying : \A j \in Trying : i <= j
    <3> HIDE DEF Trying
    <3> QED BY <2>2, LeastNat
  <2>4. i \in 1 .. Len(stack) /\ stack[i].kind = "try"
        /\ \A j \in 1 .. i - 1 : stack[j].kind # "try"
    <3>1. ASSUME NEW j \in 1 .. i - 1, stack[j].kind = "try"
          PROVE  FALSE
      BY <1>1, <2>3, <3>1
    <3> QED BY <2>3, <3>1
  <2> QED BY <2>4
<1> HIDE DEF c
<1>3. /\ rest \in Seq(Entries) /\ Len(stack) = c + Len(rest) /\ c \in Nat
      /\ \A i \in 1 .. Len(rest) : stack[c + i] = rest[i]
  <2>1. ASSUME NEW q \in Seq(Entries), NEW m \in 1 .. Len(q)
        PROVE  /\ SubSeq(q, m + 1, Len(q)) \in Seq(Entries)
               /\ Len(q) = m + Len(SubSeq(q, m + 1, Len(q)))
               /\ \A i \in 1 .. Len(SubSeq(q, m + 1, Len(q))) :
                    q[m + i] = SubSeq(q, m + 1, Len(q))[i]
    <3> DEFINE t == SubSeq(q, m + 1, Len(q))
    <3>1. /\ t \in Seq(Entries) /\ Len(t) = Len(q) - m
          /\ Len(q) \in Nat /\ m \in Nat
          /\ \A j \in 1 .. Len(q) - m : t[j] = q[m + j]
      OBVIOUS
    <3> HIDE DEF t
    <3>2. Len(q) = m + Len(t) /\ \A i \in 1 .. Len(t) : q[m + i] = t[i]
      BY <3>1
    <3> QED BY <3>1, <3>2 DEF t
  <2> QED BY <1>1, <1>2, <2>1
<1> HIDE DEF rest
<1>4. Returns(rest)
  BY <1>1, <1>3, ReturnsBelow
<1>5. ASSUME stack[c].name \in GoesOn
      PROVE  /\ rest # <<>> /\ Tail(rest) \in Seq(Entries)
             /\ Returns(Tail(rest)) /\ HasTry(Tail(rest))
  <2>1. c < Len(stack) /\ stack[c + 1].kind = "loop" /\ stack[c + 1] \notin TopLoops
    BY <1>1, <1>2, <1>5 DEF Returns, Returned
  <2>2. rest # <<>> /\ rest[1] = stack[c + 1] /\ rest[1] \in Inner
    BY <1>3, <2>1 DEF Inner
  <2> DEFINE s == Tail(rest)
  <2>3. /\ s \in Seq(Entries) /\ Len(rest) = 1 + Len(s)
        /\ \A i \in 1 .. Len(s) : rest[1 + i] = s[i]
    BY <1>3, <2>2
  <2> HIDE DEF s
  <2>4. Returns(s) /\ (1 > 0 /\ rest[1] \in Inner => HasTry(s))
    BY <1>3, <1>4, <2>3, ReturnsBelow
  <2> QED BY <2>2, <2>3, <2>4 DEF s
<1>6. /\ text' = text /\ target' = target /\ nodes' = nodes /\ recovered' = TRUE
      /\ pos' = IF stack[c].name = "skip" THEN NextLine ELSE pos
      /\ stack' = CASE stack[c].name = "break"    -> Tail(rest)
                    [] stack[c].name = "nonlocal" -> <<L("nonlocals")>> \o Tail(rest)
                    [] stack[c].name = "vars"     -> <<L("vars")>> \o Tail(rest)
                    [] stack[c].name = "member"   -> <<L("members")>> \o Tail(rest)
                    [] OTHER -> rest
  BY DEF Fail, c, rest
<1>7. stack' \in Seq(Entries) /\ Returns(stack')
  <2>1. ASSUME NEW x \in {"nonlocals", "vars", "members"}, stack[c].name \in GoesOn
        PROVE  /\ <<L(x)>> \o Tail(rest) \in Seq(Entries)
               /\ Returns(<<L(x)>> \o Tail(rest))
    <3>1. <<L(x)>> \in Seq(Inner)
      BY LoopEntry DEF Loops, Quiet
    <3> QED BY <1>5, <2>1, <3>1, ReturnsAbove
  <2>2. CASE stack[c].name = "break"
    BY <1>5, <1>6, <2>2 DEF GoesOn
  <2>3. CASE stack[c].name = "nonlocal"
    BY <1>6, <2>1, <2>3 DEF GoesOn
  <2>4. CASE stack[c].name = "vars"
    BY <1>6, <2>1, <2>4 DEF GoesOn
  <2>5. CASE stack[c].name = "member"
    BY <1>6, <2>1, <2>5 DEF GoesOn
  <2>6. CASE stack[c].name \notin {"break", "nonlocal", "vars", "member"}
    BY <1>3, <1>4, <1>6, <2>6
  <2> QED BY <2>2, <2>3, <2>4, <2>5, <2>6
<1>8. pos' \in 1 .. Len(text)
  BY <1>6, NextLineInText DEF ParserInv, TypeOK
<1>9. TypeOK' /\ FailuresReturn' /\ BlocksNest'
  BY <1>6, <1>7, <1>8
  DEF ParserInv, TypeOK, FailuresReturn, Returns, Returned, BlocksNest
<1> QED BY <1>9 DEF ParserInv

\* One token further.
LEMMA BeforeNext ==
  ASSUME NEW t, NEW p \in Nat, p > 0, NEW x
  PROVE  /\ Cardinality(Before(t, p, x)) \in Nat
         /\ Cardinality(Before(t, p + 1, x)) =
              Cardinality(Before(t, p, x)) + (IF t[p] = x THEN 1 ELSE 0)
<1>1. IsFiniteSet(1 .. p - 1) /\ Before(t, p, x) \in SUBSET (1 .. p - 1)
  BY FS_Interval DEF Before
<1>2. IsFiniteSet(Before(t, p, x)) /\ p \notin Before(t, p, x)
  BY <1>1, FS_Subset
<1>3. Before(t, p + 1, x) =
        IF t[p] = x THEN Before(t, p, x) \cup {p} ELSE Before(t, p, x)
  BY DEF Before
<1>4. Cardinality(Before(t, p, x)) \in Nat
  BY <1>2, FS_CardinalityType
<1>5. Cardinality(Before(t, p, x) \cup {p}) = Cardinality(Before(t, p, x)) + 1
  BY <1>2, FS_AddElement
<1> QED BY <1>3, <1>4, <1>5

LEMMA ExpectedKeeps ==
  ASSUME ParserInv, Expected
  PROVE  ParserInv'
<1>1. /\ Running /\ Head1.kind = "expect" /\ Tok = Head1.name
      /\ Do(<<>>) /\ Consume(1) /\ text' = text /\ recovered' = recovered
      /\ target' = target /\ diagnosed' = diagnosed /\ nodes' = nodes
  BY DEF Expected, Take
<1>2. Head1 = T(Tok) /\ Tok \in Tokens
  BY <1>1, Below, KindsOfEntries
<1>3. /\ target \in BOOLEAN /\ diagnosed \in BOOLEAN /\ pos \in 1 .. Len(text)
      /\ Len(text) \in Nat /\ text[Len(text)] = "eof" /\ nodes \in Seq(NodeNames)
  BY DEF ParserInv, TypeOK, IsText
<1>4. CASE Tok \notin {"INDENT", "DEDENT"}
  <2>1. Head1 \in Quiet /\ <<>> \in Seq(Quiet)
    BY <1>2, <1>4, ExpectEntry
  <2> QED BY <1>1, <1>3, <1>4, <2>1, TakeKeeps
<1>5. CASE Tok \in {"INDENT", "DEDENT"}
  <2>1. /\ stack \in Seq(Entries) /\ stack # <<>> /\ Tail(stack) \in Seq(Entries)
        /\ Returns(Tail(stack))
    BY <1>1, Below
  <2>2. stack' = Tail(stack)
    BY <1>1, <2>1 DEF Do
  <2>3. pos' = pos + 1 /\ pos' \in 1 .. Len(text) /\ pos \in Nat /\ pos > 0
    BY <1>1, <1>3, <1>5 DEF Tok, Consume
  <2>4. TypeOK' /\ FailuresReturn'
    BY <1>1, <2>1, <2>2, <2>3
    DEF ParserInv, TypeOK, FailuresReturn, Returns, Returned
  <2>5. \A tok \in {"INDENT", "DEDENT"} :
          /\ Times(Tail(stack), T(tok)) \in Nat
          /\ Times(stack, T(tok)) =
               Times(Tail(stack), T(tok)) + (IF tok = Tok THEN 1 ELSE 0)
          /\ Cardinality(Before(text, pos, tok)) \in Nat
          /\ Cardinality(Before(text, pos', tok)) =
               Cardinality(Before(text, pos, tok)) + (IF tok = Tok THEN 1 ELSE 0)
    <3> TAKE tok \in {"INDENT", "DEDENT"}
    <3>1. Times(Tail(stack), T(tok)) \in Nat
      BY <2>1, TimesType
    <3>2. Times(stack, T(tok)) =
            Times(Tail(stack), T(tok)) + (IF stack[1] = T(tok) THEN 1 ELSE 0)
      BY ONLY <2>1, TimesTail, Zenon
    <3>3. stack[1] = T(tok) <=> tok = Tok
      BY <1>2 DEF Head1, T, Entry
    <3>4. /\ Cardinality(Before(text, pos, tok)) \in Nat
          /\ Cardinality(Before(text, pos', tok)) =
               Cardinality(Before(text, pos, tok)) + (IF text[pos] = tok THEN 1 ELSE 0)
      BY <2>3, BeforeNext
    <3> QED BY <3>1, <3>2, <3>3, <3>4 DEF Tok
  <2>6. /\ Open("INDENT") = Times(stack, T("INDENT"))
        /\ Open("DEDENT") = Times(stack, T("DEDENT"))
        /\ Open("INDENT")' = Times(stack', T("INDENT"))
        /\ Open("DEDENT")' = Times(stack', T("DEDENT"))
    BY DEF Open, Count, Times, Places, T
  <2>7. /\ Passed("INDENT")' = Cardinality(Before(text', pos', "INDENT"))
        /\ Passed("DEDENT")' = Cardinality(Before(text', pos', "DEDENT"))
        /\ Passed("INDENT") = Cardinality(Before(text, pos, "INDENT"))
        /\ Passed("DEDENT") = Cardinality(Before(text, pos, "DEDENT"))
    BY Zenon DEF Passed, Count, Before
  <2>8. ASSUME ~recovered
        PROVE  Passed("INDENT")' - Passed("DEDENT")' = Open("DEDENT")' - Open("INDENT")'
    <3>1. Passed("INDENT") - Passed("DEDENT") = Open("DEDENT") - Open("INDENT")
      BY <2>8 DEF ParserInv, BlocksNest
    <3> QED BY <1>1, <2>2, <2>5, <2>6, <2>7, <3>1
  <2>9. BlocksNest'
    BY <1>1, <2>8 DEF BlocksNest
  <2> QED BY <2>4, <2>9 DEF ParserInv
<1> QED BY <1>4, <1>5

LEMMA SucceededKeeps ==
  ASSUME ParserInv, Succeeded
  PROVE  ParserInv'
<1>1. /\ Running /\ Head1.kind = "try" /\ Do(<<>>) /\ text' = text /\ pos' = pos
      /\ target' = target /\ nodes' = nodes /\ diagnosed' = diagnosed
      /\ recovered' = recovered
  BY DEF Succeeded, Call
<1>2. Tail(stack) \in Seq(Entries) /\ Returns(Tail(stack))
  BY <1>1, Below
<1>3. stack' = Tail(stack)
  BY <1>1, <1>2 DEF Do
<1>4. /\ target \in BOOLEAN /\ diagnosed \in BOOLEAN /\ pos \in 1 .. Len(text)
      /\ nodes \in Seq(NodeNames)
  BY DEF ParserInv, TypeOK
<1>5. Passed("INDENT")' = Passed("INDENT") /\ Passed("DEDENT")' = Passed("DEDENT")
  BY <1>1 DEF Passed, Count
<1>6. Head1 \notin Blocks
  BY <1>1 DEF Blocks, T, Entry
<1>7. /\ <<>> \in Seq(Entries)
      /\ Times(<<>>, T("INDENT")) = 0 /\ Times(<<>>, T("DEDENT")) = 0
  BY TimesEmpty
<1> QED BY <1>1, <1>2, <1>3, <1>4, <1>5, <1>6, <1>7, StepKeeps

-----------------------------------------------------------------------------
(* The procedures.                                                         *)

LEMMA QuietEntries ==
  /\ \A x \in Procedures : P(x) \in Quiet
  /\ \A x \in Tokens \ {"INDENT", "DEDENT"} : T(x) \in Quiet
  /\ \A x \in Loops \ {"declarations", "statements"} : L(x) \in Quiet
  /\ Expr \in Quiet
BY CallEntry, ExpectEntry, LoopEntry, LevelEntry DEF Expr

\* Procedures that only call others.
LEMMA CallsKeep ==
  ASSUME ParserInv,
         \/ ParseTypedVar \/ ParseVarDef \/ ParseFuncBody
         \/ ParseGlobalDecl \/ ParseNonlocalDecl
         \/ ParseIfStmt \/ ParseWhileStmt \/ ParseForStmt \/ ParseStmt
         \/ EndClassBody \/ EndDeclLoop \/ EndBlock
  PROVE  ParserInv'
<1>0. <<>> \in Seq(Quiet)
  OBVIOUS
<1>1. CASE ParseTypedVar
  <2> DEFINE u == <<T("id"), T(":"), P("Type")>>
  <2>1. Running /\ Head1 \in Quiet /\ Call(u)
    BY <1>1, QuietEntries DEF ParseTypedVar, At, Procedures
  <2>2. T("id") \in Quiet /\ T(":") \in Quiet /\ P("Type") \in Quiet
    BY QuietEntries DEF Procedures, Tokens
  <2>3. u \in Seq(Quiet)
    BY <2>2
  <2> HIDE DEF u
  <2> QED BY <2>1, <2>3, CallKeeps
<1>2. CASE ParseVarDef
  <2> DEFINE u == <<P("TypedVar"), T("="), P("Literal"), T("NEWLINE")>>
  <2>1. Running /\ Head1 \in Quiet /\ Call(u)
    BY <1>2, QuietEntries DEF ParseVarDef, At, Procedures
  <2>2. P("TypedVar") \in Quiet /\ T("=") \in Quiet /\ P("Literal") \in Quiet
        /\ T("NEWLINE") \in Quiet
    BY QuietEntries DEF Procedures, Tokens
  <2>3. u \in Seq(Quiet)
    BY <2>2
  <2> HIDE DEF u
  <2> QED BY <2>1, <2>3, CallKeeps
<1>3. CASE ParseFuncBody
  <2> DEFINE u == <<L("globals"), P("Stmt"), L("block")>>
  <2>1. Running /\ Head1 \in Quiet /\ Call(u)
    BY <1>3, QuietEntries DEF ParseFuncBody, At, Procedures
  <2>2. L("globals") \in Quiet /\ P("Stmt") \in Quiet /\ L("block") \in Quiet
    BY QuietEntries DEF Procedures, Loops
  <2>3. u \in Seq(Quiet)
    BY <2>2
  <2> HIDE DEF u
  <2> QED BY <2>1, <2>3, CallKeeps
<1>4. CASE ParseGlobalDecl
  <2> DEFINE u == <<T("global"), T("id"), T("NEWLINE")>>
  <2>1. Running /\ Head1 \in Quiet /\ Call(u)
    BY <1>4, QuietEntries DEF ParseGlobalDecl, At, Procedures
  <2>2. T("global") \in Quiet /\ T("id") \in Quiet /\ T("NEWLINE") \in Quiet
    BY QuietEntries DEF Tokens
  <2>3. u \in Seq(Quiet)
    BY <2>2
  <2> HIDE DEF u
  <2> QED BY <2>1, <2>3, CallKeeps
<1>5. CASE ParseNonlocalDecl
  <2> DEFINE u == <<T("nonlocal"), T("id"), T("NEWLINE")>>
  <2>1. Running /\ Head1 \in Quiet /\ Call(u)
    BY <1>5, QuietEntries DEF ParseNonlocalDecl, At, Procedures
  <2>2. T("nonlocal") \in Quiet /\ T("id") \in Quiet /\ T("NEWLINE") \in Quiet
    BY QuietEntries DEF Tokens
  <2>3. u \in Seq(Quiet)
    BY <2>2
  <2> HIDE DEF u
  <2> QED BY <2>1, <2>3, CallKeeps
<1>6. CASE ParseWhileStmt
  <2> DEFINE u == <<T("while"), Expr, T(":"), P("Block")>>
  <2>1. Running /\ Head1 \in Quiet /\ Call(u)
    BY <1>6, QuietEntries DEF ParseWhileStmt, At, Procedures
  <2>2. T("while") \in Quiet /\ Expr \in Quiet /\ T(":") \in Quiet
        /\ P("Block") \in Quiet
    BY QuietEntries DEF Procedures, Tokens
  <2>3. u \in Seq(Quiet)
    BY <2>2
  <2> HIDE DEF u
  <2> QED BY <2>1, <2>3, CallKeeps
<1>7. CASE ParseForStmt
  <2> DEFINE u == <<T("for"), T("id"), T("in"), Expr, T(":"), P("Block")>>
  <2>1. Running /\ Head1 \in Quiet /\ Call(u)
    BY <1>7, QuietEntries DEF ParseForStmt, At, Procedures
  <2>2. T("for") \in Quiet /\ T("id") \in Quiet /\ T("in") \in Quiet
        /\ Expr \in Quiet /\ T(":") \in Quiet /\ P("Block") \in Quiet
    BY QuietEntries DEF Procedures, Tokens
  <2>3. u \in Seq(Quiet)
    BY <2>2
  <2> HIDE DEF u
  <2> QED BY <2>1, <2>3, CallKeeps
<1>8. CASE ParseIfStmt
  <2> DEFINE u(tok) == <<T(tok), Expr, T(":"), P("Block"), P("Else")>>
  <2>1. /\ Running /\ Head1 \in Quiet
        /\ Call(u("if")) \/ Call(u("elif"))
    BY <1>8, QuietEntries DEF ParseIfStmt, At, Procedures
  <2>2. T("if") \in Quiet /\ T("elif") \in Quiet /\ Expr \in Quiet
        /\ T(":") \in Quiet /\ P("Block") \in Quiet /\ P("Else") \in Quiet
    BY QuietEntries DEF Procedures, Tokens
  <2>3. u("if") \in Seq(Quiet) /\ u("elif") \in Seq(Quiet)
    BY <2>2
  <2> HIDE DEF u
  <2> QED BY <2>1, <2>3, CallKeeps
<1>9. CASE ParseStmt
  <2> DEFINE u(kind) == <<P(kind)>>
             v == <<P("SimpleStmt"), T("NEWLINE")>>
  <2>1. /\ Running /\ Head1 \in Quiet
        /\ Call(u("IfStmt")) \/ Call(u("WhileStmt")) \/ Call(u("ForStmt")) \/ Call(v)
    BY <1>9, QuietEntries DEF ParseStmt, At, Procedures
  <2>2. P("IfStmt") \in Quiet /\ P("WhileStmt") \in Quiet /\ P("ForStmt") \in Quiet
        /\ P("SimpleStmt") \in Quiet /\ T("NEWLINE") \in Quiet
    BY QuietEntries DEF Procedures, Tokens
  <2>3. /\ u("IfStmt") \in Seq(Quiet) /\ u("WhileStmt") \in Seq(Quiet)
        /\ u("ForStmt") \in Seq(Quiet) /\ v \in Seq(Quiet)
    BY <2>2
  <2> HIDE DEF u, v
  <2> QED BY <2>1, <2>3, CallKeeps
<1>10. CASE EndClassBody \/ EndBlock
  <2>1. Running /\ Head1 \in Quiet /\ Call(<<>>)
    BY <1>10, QuietEntries DEF EndClassBody, EndBlock, At, Loops
  <2> QED BY <1>0, <2>1, CallKeeps
<1>11. CASE EndDeclLoop
  <2>1. Running /\ Head1 \in Quiet /\ Call(<<>>)
    BY <1>11, QuietEntries DEF EndDeclLoop, DeclLoop, Loops
  <2> QED BY <1>0, <2>1, CallKeeps
<1> QED BY <1>1, <1>2, <1>3, <1>4, <1>5, <1>6, <1>7, <1>8, <1>9, <1>10, <1>11

LEMMA TakenKeeps ==
  ASSUME ParserInv, Running, Head1 \in Quiet, NEW u \in Seq(Quiet), Take(u),
         Tok \notin {"INDENT", "DEDENT"}
  PROVE  ParserInv'
<1>1. /\ Do(u) /\ Consume(1) /\ text' = text /\ recovered' = recovered
      /\ target' = target /\ diagnosed' = diagnosed /\ nodes' = nodes
  BY DEF Take
<1>2. target \in BOOLEAN /\ nodes \in Seq(NodeNames)
  BY DEF ParserInv, TypeOK
<1> QED BY <1>1, <1>2, TakeKeeps

\* Procedures that take a token, or call others as the next token tells.
LEMMA TakesKeep ==
  ASSUME ParserInv,
         \/ ParseParams \/ ParseReturnType \/ ParseType \/ ParseLiteral
         \/ ParseSimpleStmt \/ ParseAssignments \/ ParseElse
         \/ ParseExprList \/ ParsePostfix
  PROVE  ParserInv'
<1>0. <<>> \in Seq(Quiet)
  OBVIOUS
<1>1. CASE ParseParams
  <2> DEFINE u == <<P("TypedVar"), P("MoreParams")>>
  <2>1. /\ Running /\ Head1 \in Quiet
        /\ \/ Call(<<>>)
           \/ Call(u)
           \/ Take(u) /\ Tok \notin {"INDENT", "DEDENT"}
    BY <1>1, QuietEntries DEF ParseParams, At, Procedures
  <2>2. P("TypedVar") \in Quiet /\ P("MoreParams") \in Quiet
    BY QuietEntries DEF Procedures
  <2>3. u \in Seq(Quiet)
    BY <2>2
  <2> HIDE DEF u
  <2> QED BY <1>0, <2>1, <2>3, CallKeeps, TakenKeeps
<1>2. CASE ParseReturnType
  <2> DEFINE u == <<P("Type")>>
  <2>1. /\ Running /\ Head1 \in Quiet
        /\ \/ Call(<<>>)
           \/ Take(u) /\ Tok \notin {"INDENT", "DEDENT"}
    BY <1>2, QuietEntries DEF ParseReturnType, At, Procedures
  <2>2. P("Type") \in Quiet
    BY QuietEntries DEF Procedures
  <2>3. u \in Seq(Quiet)
    BY <2>2
  <2> HIDE DEF u
  <2> QED BY <1>0, <2>1, <2>3, CallKeeps, TakenKeeps
<1>3. CASE ParseType
  <2> DEFINE u == <<P("Type"), T("]")>>
  <2>1. /\ Running /\ Head1 \in Quiet
        /\ \/ Take(<<>>) /\ Tok \notin {"INDENT", "DEDENT"}
           \/ Take(u) /\ Tok \notin {"INDENT", "DEDENT"}
    BY <1>3, QuietEntries DEF ParseType, At, Procedures
  <2>2. P("Type") \in Quiet /\ T("]") \in Quiet
    BY QuietEntries DEF Procedures, Tokens
  <2>3. u \in Seq(Quiet)
    BY <2>2
  <2> HIDE DEF u
  <2> QED BY <1>0, <2>1, <2>3, TakenKeeps
<1>4. CASE ParseLiteral
  <2>1. /\ Running /\ Head1 \in Quiet
        /\ \/ Take(<<>>) /\ Tok \notin {"INDENT", "DEDENT"}
    BY <1>4, QuietEntries DEF ParseLiteral, At, Procedures
  <2> QED BY <1>0, <2>1, TakenKeeps
<1>5. CASE ParseSimpleStmt
  <2> DEFINE u == <<Expr>>
             v == <<Expr, P("Assignments")>>
  <2>1. /\ Running /\ Head1 \in Quiet
        /\ \/ Take(<<>>) /\ Tok \notin {"INDENT", "DEDENT"}
           \/ Take(u) /\ Tok \notin {"INDENT", "DEDENT"}
           \/ Call(v)
    BY <1>5, QuietEntries DEF ParseSimpleStmt, At, Procedures
  <2>2. Expr \in Quiet /\ P("Assignments") \in Quiet
    BY QuietEntries DEF Procedures
  <2>3. u \in Seq(Quiet) /\ v \in Seq(Quiet)
    BY <2>2
  <2> HIDE DEF u, v
  <2> QED BY <1>0, <2>1, <2>3, CallKeeps, TakenKeeps
<1>6. CASE ParseAssignments
  <2> DEFINE u == <<Expr, P("Assignments")>>
  <2>1. /\ Running /\ Head1 \in Quiet
        /\ \/ Call(<<>>)
           \/ Take(u) /\ Tok \notin {"INDENT", "DEDENT"}
    BY <1>6, QuietEntries DEF ParseAssignments, At, Procedures
  <2>2. Expr \in Quiet /\ P("Assignments") \in Quiet
    BY QuietEntries DEF Procedures
  <2>3. u \in Seq(Quiet)
    BY <2>2
  <2> HIDE DEF u
  <2> QED BY <1>0, <2>1, <2>3, CallKeeps, TakenKeeps
<1>7. CASE ParseElse
  <2> DEFINE u == <<P("ElifStmt")>>
             v == <<T(":"), P("Block")>>
  <2>1. /\ Running /\ Head1 \in Quiet
        /\ \/ Call(<<>>)
           \/ Call(u)
           \/ Take(v) /\ Tok \notin {"INDENT", "DEDENT"}
    BY <1>7, QuietEntries DEF ParseElse, At, Procedures
  <2>2. P("ElifStmt") \in Quiet /\ T(":") \in Quiet /\ P("Block") \in Quiet
    BY QuietEntries DEF Procedures, Tokens
  <2>3. u \in Seq(Quiet) /\ v \in Seq(Quiet)
    BY <2>2
  <2> HIDE DEF u, v
  <2> QED BY <1>0, <2>1, <2>3, CallKeeps, TakenKeeps
<1>8. CASE ParseExprList
  <2> DEFINE u == <<Expr, P("MoreExprs")>>
  <2>1. /\ Running /\ Head1 \in Quiet
        /\ \/ Call(<<>>)
           \/ Call(u)
           \/ Take(u) /\ Tok \notin {"INDENT", "DEDENT"}
    BY <1>8, QuietEntries DEF ParseExprList, At, Procedures
  <2>2. Expr \in Quiet /\ P("MoreExprs") \in Quiet
    BY QuietEntries DEF Procedures
  <2>3. u \in Seq(Quiet)
    BY <2>2
  <2> HIDE DEF u
  <2> QED BY <1>0, <2>1, <2>3, CallKeeps, TakenKeeps
<1>9. CASE ParsePostfix
  <2> DEFINE u == <<T("id"), P("PostfixOfTarget")>>
             v == <<Expr, T("]"), P("PostfixOfTarget")>>
             w == <<P("Arguments"), T(")"), P("PostfixOfValue")>>
  <2>1. /\ Running /\ Head1 \in Quiet
        /\ \/ Take(u) /\ Tok \notin {"INDENT", "DEDENT"}
           \/ Take(v) /\ Tok \notin {"INDENT", "DEDENT"}
           \/ Take(w) /\ Tok \notin {"INDENT", "DEDENT"}
    BY <1>9, QuietEntries DEF ParsePostfix, At, Procedures, InPostfix
  <2>2. T("id") \in Quiet /\ P("PostfixOfTarget") \in Quiet /\ Expr \in Quiet
        /\ T("]") \in Quiet /\ P("Arguments") \in Quiet /\ T(")") \in Quiet
        /\ P("PostfixOfValue") \in Quiet
    BY QuietEntries DEF Procedures, Tokens
  <2>3. u \in Seq(Quiet) /\ v \in Seq(Quiet) /\ w \in Seq(Quiet)
    BY <2>2
  <2> HIDE DEF u, v, w
  <2> QED BY <2>1, <2>3, TakenKeeps
<1> QED BY <1>1, <1>2, <1>3, <1>4, <1>5, <1>6, <1>7, <1>8, <1>9

\* Procedures that read a block: as many ends as beginnings are still to come.
LEMMA BlockKeeps ==
  ASSUME ParserInv, Running, Head1 \in Quiet, NEW u \in Seq(Inner), Call(u),
         NEW k \in 1 .. Len(u), NEW l \in 1 .. Len(u),
         u[k] = T("INDENT"), u[l] = T("DEDENT"),
         \A i \in 1 .. Len(u) : i # k /\ i # l => u[i] \in Quiet
  PROVE  ParserInv'
<1>1. u \in Seq(Entries) /\ Head1 \notin Blocks /\ Head1 \in Inner
  BY DEF Quiet, Inner
<1>2. T("INDENT") # T("DEDENT") /\ T("INDENT") \notin Quiet /\ T("DEDENT") \notin Quiet
  BY DEF T, Entry, Quiet, Blocks
<1>3. /\ \A i \in 1 .. Len(u) : u[i] = T("INDENT") <=> i = k
      /\ \A i \in 1 .. Len(u) : u[i] = T("DEDENT") <=> i = l
  BY <1>2
<1>4. Times(u, T("INDENT")) = 1 /\ Times(u, T("DEDENT")) = 1
  BY <1>1, <1>3, TimesOnce
<1>5. /\ Do(u) /\ text' = text /\ recovered' = recovered /\ pos' = pos
      /\ target' = target /\ diagnosed' = diagnosed /\ nodes' = nodes
  BY DEF Call
<1>6. /\ pos \in 1 .. Len(text) /\ target \in BOOLEAN /\ diagnosed \in BOOLEAN
      /\ nodes \in Seq(NodeNames)
  BY DEF ParserInv, TypeOK
<1>7. Passed("INDENT")' = Passed("INDENT") /\ Passed("DEDENT")' = Passed("DEDENT")
  BY <1>5 DEF Passed, Count
<1>8. stack' \in Seq(Entries) /\ Returns(stack')
  <2>1. Tail(stack) \in Seq(Entries) /\ Returns(Tail(stack)) /\ HasTry(Tail(stack))
    BY <1>1, Below
  <2>2. u \o Tail(stack) \in Seq(Entries) /\ Returns(u \o Tail(stack))
    BY ONLY u \in Seq(Inner), <2>1, ReturnsAbove, Zenon
  <2> QED BY <1>5, <2>2 DEF Do
<1> QED BY <1>1, <1>4, <1>5, <1>6, <1>7, <1>8, StepKeeps

LEMMA BlocksKeep ==
  ASSUME ParserInv, ParseClassDef \/ ParseFuncDef \/ ParseBlock
  PROVE  ParserInv'
<1>0. T("INDENT") \in Inner /\ T("DEDENT") \in Inner /\ Quiet \subseteq Inner
  BY ExpectEntry DEF Tokens, Quiet
<1>1. CASE ParseBlock
  <2> DEFINE u == <<T("NEWLINE"), T("INDENT"), P("Stmt"), L("block"), T("DEDENT")>>
  <2>1. Running /\ Head1 \in Quiet /\ Call(u)
    BY <1>1, QuietEntries DEF ParseBlock, At, Procedures
  <2>2. T("NEWLINE") \in Quiet /\ P("Stmt") \in Quiet /\ L("block") \in Quiet
    BY QuietEntries DEF Procedures, Tokens, Loops
  <2>3. /\ u \in Seq(Inner) /\ Len(u) = 5 /\ u[2] = T("INDENT") /\ u[5] = T("DEDENT")
        /\ u[1] \in Quiet /\ u[3] \in Quiet /\ u[4] \in Quiet
    BY <1>0, <2>2
  <2> HIDE DEF u
  <2>4. \A i \in 1 .. Len(u) : i # 2 /\ i # 5 => u[i] \in Quiet
    BY <2>3
  <2>5. 2 \in 1 .. Len(u) /\ 5 \in 1 .. Len(u)
    BY <2>3
  <2> QED BY <2>1, <2>3, <2>4, <2>5, BlockKeeps
<1>2. CASE ParseClassDef
  <2> DEFINE u == <<T("class"), T("id"), T("("), T("id"), T(")"), T(":"),
                    T("NEWLINE"), T("INDENT"), P("ClassBody"), T("DEDENT")>>
  <2>1. Running /\ Head1 \in Quiet /\ Call(u)
    BY <1>2, QuietEntries DEF ParseClassDef, At, Procedures
  <2>2. /\ T("class") \in Quiet /\ T("id") \in Quiet /\ T("(") \in Quiet
        /\ T(")") \in Quiet /\ T(":") \in Quiet /\ T("NEWLINE") \in Quiet
        /\ P("ClassBody") \in Quiet
    BY QuietEntries DEF Procedures, Tokens
  <2>3. /\ u \in Seq(Inner) /\ Len(u) = 10 /\ u[8] = T("INDENT") /\ u[10] = T("DEDENT")
        /\ u[1] \in Quiet /\ u[2] \in Quiet /\ u[3] \in Quiet /\ u[4] \in Quiet
        /\ u[5] \in Quiet /\ u[6] \in Quiet /\ u[7] \in Quiet /\ u[9] \in Quiet
    BY <1>0, <2>2
  <2> HIDE DEF u
  <2>4. \A i \in 1 .. Len(u) : i # 8 /\ i # 10 => u[i] \in Quiet
    BY <2>3
  <2>5. 8 \in 1 .. Len(u) /\ 10 \in 1 .. Len(u)
    BY <2>3
  <2> QED BY <2>1, <2>3, <2>4, <2>5, BlockKeeps
<1>3. CASE ParseFuncDef
  <2> DEFINE u == <<T("def"), T("id"), T("("), P("Params"), T(")"), P("ReturnType"),
                    T(":"), T("NEWLINE"), T("INDENT"), P("FuncBody"), T("DEDENT")>>
  <2>1. Running /\ Head1 \in Quiet /\ Call(u)
    BY <1>3, QuietEntries DEF ParseFuncDef, At, Procedures
  <2>2. /\ T("def") \in Quiet /\ T("id") \in Quiet /\ T("(") \in Quiet
        /\ T(")") \in Quiet /\ T(":") \in Quiet /\ T("NEWLINE") \in Quiet
        /\ P("Params") \in Quiet /\ P("ReturnType") \in Quiet /\ P("FuncBody") \in Quiet
    BY QuietEntries DEF Procedures, Tokens
  <2>3. /\ u \in Seq(Inner) /\ Len(u) = 11 /\ u[9] = T("INDENT") /\ u[11] = T("DEDENT")
        /\ u[1] \in Quiet /\ u[2] \in Quiet /\ u[3] \in Quiet /\ u[4] \in Quiet
        /\ u[5] \in Quiet /\ u[6] \in Quiet /\ u[7] \in Quiet /\ u[8] \in Quiet
        /\ u[10] \in Quiet
    BY <1>0, <2>2
  <2> HIDE DEF u
  <2>4. \A i \in 1 .. Len(u) : i # 9 /\ i # 11 => u[i] \in Quiet
    BY <2>3
  <2>5. 9 \in 1 .. Len(u) /\ 11 \in 1 .. Len(u)
    BY <2>3
  <2> QED BY <2>1, <2>3, <2>4, <2>5, BlockKeeps
<1> QED BY <1>1, <1>2, <1>3

\* Calls whose failure is caught.
LEMMA TriesKeep ==
  ASSUME ParserInv,
         \/ ProgramDeclaration \/ ProgramStatement
         \/ GlobalAlternative \/ NonlocalAlternative \/ VarAlternative
         \/ FuncAlternative \/ BlockStatement \/ ClassMember
  PROVE  ParserInv'
<1>0. /\ \A x \in Loops : L(x) \in Entries /\ L(x).kind = "loop"
      /\ L("declarations") \in TopLoops /\ L("statements") \in TopLoops
      /\ {"skip", "again"} \cap GoesOn = {}
  BY LoopEntry DEF TopLoops, GoesOn
<1>1. CASE ProgramDeclaration
  <2> DEFINE l == L("declarations")
  <2>1. PICK x \in {"FuncDef", "ClassDef", "VarDef"} :
          Running /\ Head1 = l /\ Call(<<P(x), Try("skip"), l>>)
    BY <1>1 DEF ProgramDeclaration, At
  <2>2. P(x) \in Quiet
    BY QuietEntries DEF Procedures
  <2>3. "skip" \in Recoveries /\ "skip" \notin GoesOn
        /\ l \in Entries /\ l.kind = "loop" /\ l \in TopLoops
    BY <1>0 DEF Recoveries, GoesOn, Loops
  <2> HIDE DEF l
  <2> QED BY <2>1, <2>2, <2>3, TryKeeps
<1>2. CASE ProgramStatement
  <2> DEFINE l == L("statements")
  <2>1. Running /\ Head1 = l /\ Call(<<P("Stmt"), Try("skip"), l>>)
    BY <1>2 DEF ProgramStatement, At
  <2>2. P("Stmt") \in Quiet
    BY QuietEntries DEF Procedures
  <2>3. "skip" \in Recoveries /\ "skip" \notin GoesOn
        /\ l \in Entries /\ l.kind = "loop" /\ l \in TopLoops
    BY <1>0 DEF Recoveries, GoesOn, Loops
  <2> HIDE DEF l
  <2> QED BY <2>1, <2>2, <2>3, TryKeeps
<1>3. CASE \/ GlobalAlternative \/ NonlocalAlternative \/ VarAlternative
           \/ FuncAlternative
  <2> DEFINE l == L("globals")
  <2>1. /\ Running /\ Head1 \in Quiet
        /\ \/ Call(<<P("GlobalDecl"), Try("nonlocal"), l>>)
           \/ Call(<<P("NonLocalDecl"), Try("vars"), l>>)
           \/ Call(<<P("VarDef"), Try("again"), l>>)
           \/ Call(<<P("FuncDef"), Try("break"), l>>)
    BY <1>3, QuietEntries
    DEF GlobalAlternative, NonlocalAlternative, VarAlternative, FuncAlternative,
        At, DeclLoop, Loops
  <2>2. /\ P("GlobalDecl") \in Quiet /\ P("NonLocalDecl") \in Quiet
        /\ P("VarDef") \in Quiet /\ P("FuncDef") \in Quiet
        /\ l \in Quiet /\ l \in Entries /\ l.kind = "loop"
    BY <1>0, QuietEntries DEF Procedures, Loops
  <2>3. /\ "nonlocal" \in Recoveries /\ "vars" \in Recoveries
        /\ "again" \in Recoveries /\ "break" \in Recoveries
    BY DEF Recoveries
  <2> HIDE DEF l
  <2> QED BY <2>1, <2>2, <2>3, TryKeeps
<1>4. CASE BlockStatement
  <2> DEFINE l == L("block")
  <2>1. Running /\ Head1 \in Quiet /\ Call(<<P("Stmt"), Try("skip"), l>>)
    BY <1>4, QuietEntries DEF BlockStatement, At, Loops
  <2>2. P("Stmt") \in Quiet /\ l \in Quiet /\ l \in Entries /\ l.kind = "loop"
    BY <1>0, QuietEntries DEF Procedures, Loops
  <2>3. "skip" \in Recoveries
    BY DEF Recoveries
  <2> HIDE DEF l
  <2> QED BY <2>1, <2>2, <2>3, TryKeeps
<1>5. CASE ClassMember
  <2> DEFINE l == L("moreMembers")
             u == <<P("FuncDef"), l>>
  <2>1. /\ Running /\ Head1 \in {L("members"), L("moreMembers")}
        /\ \/ Call(<<P("VarDef"), Try("member"), l>>)
           \/ Call(<<P("VarDef"), Try("again"), l>>)
           \/ Call(u)
    BY <1>5 DEF ClassMember, MemberLoop
  <2>2. /\ P("VarDef") \in Quiet /\ P("FuncDef") \in Quiet
        /\ Head1 \in Quiet /\ l \in Quiet /\ l \in Entries /\ l.kind = "loop"
    BY <1>0, <2>1, QuietEntries DEF Procedures, Loops
  <2>3. "member" \in Recoveries /\ "again" \in Recoveries
    BY DEF Recoveries
  <2>4. u \in Seq(Quiet)
    BY <2>2
  <2> HIDE DEF u, l
  <2> QED BY <2>1, <2>2, <2>3, <2>4, TryKeeps, CallKeeps
<1> QED BY <1>1, <1>2, <1>3, <1>4, <1>5

\* What fails.
LEMMA FailsKeep ==
  ASSUME ParserInv,
         NotExpected \/ NotAMember \/ NotAType \/ NotALiteral \/ NotPrimary
  PROVE  ParserInv'
<1>1. Running /\ Fail /\ diagnosed' \in BOOLEAN
  BY DEF NotExpected, NotAMember, NotAType, NotALiteral, NotPrimary, MemberLoop,
         At, AtLevel, ParserInv, TypeOK
<1>2. \/ Head1.kind \in {"expect", "level"}
      \/ Head1 \in {P("Type"), P("Literal"), L("members"), L("moreMembers")}
  BY DEF NotExpected, NotAMember, NotAType, NotALiteral, NotPrimary, MemberLoop,
         At, AtLevel
<1>3. Head1 \in Inner
  <2>1. CASE Head1.kind \in {"expect", "level"}
    BY <1>1, <2>1, Below, KindsOfEntries
  <2>2. CASE Head1 \in {P("Type"), P("Literal"), L("members"), L("moreMembers")}
    BY <2>2, QuietEntries DEF Procedures, Loops, Quiet
  <2> QED BY <1>2, <2>1, <2>2
<1> QED BY <1>1, <1>3, FailKeeps

LEMMA EndProgramLoopKeeps ==
  ASSUME ParserInv, EndProgramLoop
  PROVE  ParserInv'
<1>1. /\ Running /\ Head1 \in TopLoops /\ Do(<<>>) /\ text' = text /\ pos' = pos
      /\ target' = target /\ diagnosed' = diagnosed /\ recovered' = recovered
      /\ nodes' = nodes
  BY DEF EndProgramLoop, At, TopLoops, Call
<1>2. \A e \in TopLoops : e \notin Blocks
  BY DEF TopLoops, Blocks, T, L, Entry
<1>3. /\ pos \in 1 .. Len(text) /\ target \in BOOLEAN /\ diagnosed \in BOOLEAN
      /\ nodes \in Seq(NodeNames)
  BY DEF ParserInv, TypeOK
<1>4. Passed("INDENT")' = Passed("INDENT") /\ Passed("DEDENT")' = Passed("DEDENT")
  BY <1>1 DEF Passed, Count
<1>5. Tail(stack) \in Seq(Entries) /\ Returns(Tail(stack))
  BY <1>1, Below
<1>6. stack' = Tail(stack)
  BY <1>1, <1>5 DEF Do
<1>7. /\ <<>> \in Seq(Entries)
      /\ Times(<<>>, T("INDENT")) = 0 /\ Times(<<>>, T("DEDENT")) = 0
  BY TimesEmpty
<1> QED BY <1>1, <1>2, <1>3, <1>4, <1>5, <1>6, <1>7, StepKeeps

LEMMA ParseClassBodyKeeps ==
  ASSUME ParserInv, ParseClassBody
  PROVE  ParserInv'
<1>1. /\ Running /\ Head1 \in Quiet /\ text' = text /\ target' = target
      /\ recovered' = recovered /\ nodes' = nodes
  BY QuietEntries DEF ParseClassBody, At, Procedures
<1>2. /\ pos \in 1 .. Len(text) /\ target \in BOOLEAN /\ diagnosed \in BOOLEAN
      /\ Len(text) \in Nat /\ text[Len(text)] = "eof" /\ nodes \in Seq(NodeNames)
  BY DEF ParserInv, TypeOK, IsText
<1>3. L("moreMembers") \in Quiet /\ L("members") \in Quiet
  BY QuietEntries DEF Loops
<1>4. CASE Tok = "pass"
  <2> DEFINE u == <<L("moreMembers")>>
  <2>1. /\ Do(u) /\ diagnosed' \in BOOLEAN
        /\ Consume(IF LookAhead0 = "NEWLINE" THEN 2 ELSE 1)
    BY <1>2, <1>4 DEF ParseClassBody
  <2>2. u \in Seq(Quiet)
    BY <1>3
  <2> HIDE DEF u
  <2>3. pos # Len(text) /\ LookAhead0 = text[pos + 1]
    BY <1>2, <1>4 DEF Tok, LookAhead0
  <2>4. /\ pos' \in 1 .. Len(text) /\ pos \in Nat /\ pos' \in Nat /\ pos <= pos'
        /\ pos' = pos + 1 \/ (pos' <= pos + 2 /\ LookAhead0 = "NEWLINE")
    BY <1>2, <2>1, <2>3 DEF Consume
  <2>5. \A i \in pos .. pos' - 1 : text[i] \notin {"INDENT", "DEDENT"}
    <3>1. ASSUME NEW p \in Nat, NEW q \in Nat, q = p + 1 \/ q <= p + 2
          PROVE  \A i \in p .. q - 1 : i = p \/ (i = p + 1 /\ q # p + 1)
      BY <3>1
    <3>2. \A i \in pos .. pos' - 1 : i = pos \/ (i = pos + 1 /\ pos' # pos + 1)
      BY ONLY <2>4, <3>1, Zenon
    <3> QED BY <1>4, <2>3, <2>4, <3>2 DEF Tok
  <2>6. Passed("INDENT")' = Passed("INDENT") /\ Passed("DEDENT")' = Passed("DEDENT")
    BY <1>1, <2>4, <2>5, NothingPassed
  <2> QED BY <1>1, <1>2, <2>1, <2>2, <2>4, <2>6, QuietStepKeeps
<1>5. CASE Tok # "pass"
  <2> DEFINE u == <<L("members")>>
  <2>1. Do(u) /\ pos' = pos /\ diagnosed' = diagnosed
    BY <1>5 DEF ParseClassBody
  <2>2. u \in Seq(Quiet)
    BY <1>3
  <2> HIDE DEF u
  <2>3. Passed("INDENT")' = Passed("INDENT") /\ Passed("DEDENT")' = Passed("DEDENT")
    BY <1>1, <2>1 DEF Passed, Count
  <2> QED BY <1>1, <1>2, <2>1, <2>2, <2>3, QuietStepKeeps
<1> QED BY <1>4, <1>5

-----------------------------------------------------------------------------
(* Expressions.                                                            *)

LEMMA HeadOfExpression ==
  ASSUME ParserInv, Running, Head1.kind \in {"level", "more"}
  PROVE  Head1 \in Quiet /\ Head1.from \in 1 .. 8 /\ Head1.to \in 1 .. 8
<1>1. Head1 \in Inner /\ Head1.from \in 1 .. 8 /\ Head1.to \in 1 .. 8
  BY Below, KindsOfEntries
<1>2. \A e \in Blocks : e.kind = "expect"
  BY DEF Blocks, T, Entry
<1> QED BY <1>1, <1>2 DEF Quiet

\* Prefixes and brackets.
LEMMA PrefixesKeep ==
  ASSUME ParserInv, PrefixNot \/ PrefixMinus \/ PrimaryInBrackets
  PROVE  ParserInv'
<1> DEFINE n == Head1.from
<1>1. Running /\ Head1 \in Quiet /\ n \in 1 .. 8
  BY HeadOfExpression DEF PrefixNot, PrefixMinus, PrimaryInBrackets, AtLevel
<1>2. /\ More("not", 3, n) \in Quiet /\ More("neg", 7, n) \in Quiet
      /\ More("primary", 7, n) \in Quiet
  BY <1>1, MoreEntry DEF Pending, Operators
<1>3. Level(4) \in Quiet /\ Level(8) \in Quiet
  BY LevelEntry
<1>4. /\ Expr \in Quiet /\ T(")") \in Quiet /\ T("]") \in Quiet
      /\ P("PostfixOfSame") \in Quiet /\ P("PostfixOfValue") \in Quiet
      /\ P("Elements") \in Quiet
  BY QuietEntries DEF Procedures, Tokens
<1> DEFINE u == <<Level(4), More("not", 3, n)>>
           v == <<Level(8), More("neg", 7, n)>>
           w == <<Expr, T(")"), P("PostfixOfSame"), More("primary", 7, n)>>
           z == <<P("Elements"), T("]"), P("PostfixOfValue"), More("primary", 7, n)>>
<1>5. /\ \/ Take(u) \/ Take(v) \/ Take(w) \/ Take(z)
      /\ Tok \notin {"INDENT", "DEDENT"}
  BY DEF PrefixNot, PrefixMinus, PrimaryInBrackets, PrimaryStarts
<1>6. u \in Seq(Quiet) /\ v \in Seq(Quiet) /\ w \in Seq(Quiet) /\ z \in Seq(Quiet)
  BY <1>2, <1>3, <1>4
<1> HIDE DEF u, v, w, z
<1> QED BY <1>1, <1>5, <1>6, TakenKeeps

LEMMA PrimaryTokenKeeps ==
  ASSUME ParserInv, PrimaryToken
  PROVE  ParserInv'
<1> DEFINE n == Head1.from
           u(x) == <<P(x), More("primary", 7, n)>>
<1>1. Running /\ Head1 \in Quiet /\ n \in 1 .. 8
  BY HeadOfExpression DEF PrimaryToken, AtLevel
<1>2. /\ More("primary", 7, n) \in Quiet
      /\ P("PostfixOfTarget") \in Quiet /\ P("PostfixOfValue") \in Quiet
  BY <1>1, MoreEntry, QuietEntries DEF Pending, Operators, Procedures
<1>3. /\ Do(u("PostfixOfTarget")) \/ Do(u("PostfixOfValue"))
      /\ Consume(1) /\ text' = text /\ recovered' = recovered /\ target' = target
      /\ diagnosed' = diagnosed /\ Tok \notin {"INDENT", "DEDENT"}
  BY DEF PrimaryToken, PrimaryStarts
<1>4. u("PostfixOfTarget") \in Seq(Quiet) /\ u("PostfixOfValue") \in Seq(Quiet)
  BY <1>2
<1>5. target \in BOOLEAN /\ nodes' \in Seq(NodeNames)
  BY DEF ParserInv, TypeOK, PrimaryToken, NodeNames
<1> HIDE DEF u
<1> QED BY <1>1, <1>3, <1>4, <1>5, TakeKeeps

LEMMA EndPostfixKeeps ==
  ASSUME ParserInv, EndPostfix
  PROVE  ParserInv'
<1>1. Running /\ Head1 \in Quiet
  BY QuietEntries DEF EndPostfix, InPostfix, Procedures
<1>2. pos \in 1 .. Len(text) /\ target \in BOOLEAN /\ diagnosed \in BOOLEAN
  BY DEF ParserInv, TypeOK
<1>3. /\ Do(<<>>) /\ text' = text /\ pos' = pos /\ recovered' = recovered
      /\ diagnosed' = diagnosed /\ target' \in BOOLEAN /\ <<>> \in Seq(Quiet)
      /\ nodes' \in Seq(NodeNames)
  <2>1. /\ Do(<<>>) /\ text' = text /\ pos' = pos /\ recovered' = recovered
        /\ diagnosed' = diagnosed /\ nodes' \in Seq(NodeNames)
    BY DEF EndPostfix, ParserInv, TypeOK
  <2>2. target' \in BOOLEAN
    BY <1>2, Zenon DEF EndPostfix
  <2>3. <<>> \in Seq(Quiet)
    OBVIOUS
  <2> QED BY <2>1, <2>2, <2>3
<1>4. Passed("INDENT")' = Passed("INDENT") /\ Passed("DEDENT")' = Passed("DEDENT")
  BY <1>3 DEF Passed, Count
<1> QED BY <1>1, <1>2, <1>3, <1>4, QuietStepKeeps

\* The node of an operator.
LEMMA CreatedType ==
  ASSUME ParserInv, InLoops, Created
  PROVE  target' \in BOOLEAN /\ nodes' \in Seq(NodeNames)
<1>1. Head1 \in Entries /\ Head1.kind = "more"
  BY Below DEF InLoops
<1>2. Head1.name \in Pending
  <2>1. \A e \in Entries : e.kind = "more" => e.name \in Pending
    BY DEF Entries, T, P, L, Try, Level, Entry
  <2> QED BY <1>1, <2>1
<1>3. target \in BOOLEAN /\ nodes \in Seq(NodeNames)
  BY DEF ParserInv, TypeOK
<1>4. CASE Head1.name = "primary"
  BY <1>3, <1>4 DEF Created
<1>5. CASE Head1.name # "primary"
  <2>1. Head1.name \in NodeNames
    BY <1>2, <1>5 DEF Pending, NodeNames
  <2>2. Append(nodes, Head1.name) \in Seq(NodeNames)
    BY <1>3, <2>1, Appended, Zenon
  <2>3. nodes' = Append(nodes, Head1.name) /\ target' = FALSE
    BY <1>5 DEF Created
  <2> QED BY <2>2, <2>3
<1> QED BY <1>4, <1>5

\* The loops of the levels.
LEMMA OperatorKeeps ==
  ASSUME ParserInv, Operator
  PROVE  ParserInv'
<1> DEFINE n == Head1.to
           m == LevelOf(Tok)
           u == <<Level(2), T("else"), Level(1), More("if", 1, n)>>
           v == <<Level(m + 1), More(Tok, m, n)>>
<1>1. /\ Running /\ Head1 \in Quiet /\ Head1.from \in 1 .. 8 /\ n \in 1 .. 8
      /\ m \in n .. Head1.from
  BY HeadOfExpression DEF Operator, InLoops, Takes
<1>2. m \in 1 .. 7 /\ Tok \in {"if", "or", "and", "cmp", "add", "-", "mul"}
  <2>1. m > 0
    BY <1>1
  <2> QED BY <2>1 DEF LevelOf
<1>3. Level(2) \in Quiet /\ Level(1) \in Quiet /\ Level(m + 1) \in Quiet
  BY <1>2, LevelEntry
<1>4. More("if", 1, n) \in Quiet /\ More(Tok, m, n) \in Quiet
  BY <1>1, <1>2, MoreEntry DEF Pending, Operators
<1>5. T("else") \in Quiet
  BY QuietEntries DEF Tokens
<1>6. u \in Seq(Quiet) /\ v \in Seq(Quiet)
  BY <1>3, <1>4, <1>5
<1>7. /\ Do(u) \/ Do(v)
      /\ Consume(1) /\ text' = text /\ recovered' = recovered
      /\ diagnosed' = diagnosed /\ target' \in BOOLEAN /\ nodes' \in Seq(NodeNames)
  BY CreatedType DEF Operator
<1>8. Tok \notin {"INDENT", "DEDENT"}
  BY <1>2
<1> HIDE DEF u, v
<1> QED BY <1>1, <1>6, <1>7, <1>8, TakeKeeps

LEMMA EndOperatorsKeeps ==
  ASSUME ParserInv, EndOperators
  PROVE  ParserInv'
<1>1. Running /\ Head1 \in Quiet
  BY HeadOfExpression DEF EndOperators, InLoops
<1>2. pos \in 1 .. Len(text) /\ target \in BOOLEAN /\ diagnosed \in BOOLEAN
  BY DEF ParserInv, TypeOK
<1>3. /\ Do(<<>>) /\ text' = text /\ pos' = pos /\ recovered' = recovered
      /\ diagnosed' = diagnosed /\ target' \in BOOLEAN /\ <<>> \in Seq(Quiet)
      /\ nodes' \in Seq(NodeNames)
  <2>1. /\ Do(<<>>) /\ text' = text /\ pos' = pos /\ recovered' = recovered
        /\ diagnosed' = diagnosed
    BY DEF EndOperators
  <2>2. target' \in BOOLEAN /\ nodes' \in Seq(NodeNames)
    BY CreatedType DEF EndOperators
  <2>3. <<>> \in Seq(Quiet)
    OBVIOUS
  <2> QED BY <2>1, <2>2, <2>3
<1>4. Passed("INDENT")' = Passed("INDENT") /\ Passed("DEDENT")' = Passed("DEDENT")
  BY <1>3 DEF Passed, Count
<1> QED BY <1>1, <1>2, <1>3, <1>4, QuietStepKeeps

-----------------------------------------------------------------------------
(* The invariant.                                                          *)

LEMMA InitInv == Init => ParserInv
<1> SUFFICES ASSUME Init PROVE ParserInv
  OBVIOUS
<1> DEFINE d == L("declarations")
           e == L("statements")
<1>1. /\ d \in Entries /\ e \in Entries /\ d \in TopLoops /\ e \in TopLoops
      /\ d.kind # "try" /\ e.kind # "try" /\ d \notin Blocks /\ e \notin Blocks
  <2>1. \A x \in TopLoops : x \notin Blocks
    BY DEF TopLoops, Blocks, T, L, Entry
  <2> QED BY <2>1, LoopEntry DEF Loops
<1>2. stack = <<d, e>> /\ pos = 1 /\ IsText(text)
  BY TextsAssumption DEF Init
<1> HIDE DEF d, e
<1>3. stack \in Seq(Entries) /\ Len(stack) = 2 /\ stack[1] = d /\ stack[2] = e
  BY <1>1, <1>2
<1>4. TypeOK
  <2>1. pos \in 1 .. Len(text)
    BY <1>2 DEF IsText
  <2>2. target \in BOOLEAN /\ diagnosed \in BOOLEAN /\ recovered \in BOOLEAN
    BY DEF Init
  <2>3. nodes \in Seq(NodeNames)
    BY DEF Init
  <2> QED BY <1>2, <1>3, <2>1, <2>2, <2>3 DEF TypeOK
<1>5. FailuresReturn
  BY <1>1, <1>3 DEF FailuresReturn
<1>6. Open("INDENT") = 0 /\ Open("DEDENT") = 0
  <2>1. \A i \in 1 .. Len(stack) : stack[i] # T("INDENT") /\ stack[i] # T("DEDENT")
    BY <1>1, <1>3 DEF Blocks
  <2>2. Times(stack, T("INDENT")) = 0 /\ Times(stack, T("DEDENT")) = 0
    BY <1>3, <2>1, TimesNone
  <2> QED BY <2>2, OpenIsTimes
<1>7. Passed("INDENT") = 0 /\ Passed("DEDENT") = 0
  <2>1. \A tok : {i \in 1 .. pos - 1 : text[i] = tok} = {}
    BY <1>2
  <2> QED BY <2>1, FS_EmptySet DEF Passed, Count
<1> QED BY <1>4, <1>5, <1>6, <1>7 DEF ParserInv, BlocksNest

LEMMA NextInv == ParserInv /\ [Next]_vars => ParserInv'
<1> SUFFICES ASSUME ParserInv, [Next]_vars PROVE ParserInv'
  OBVIOUS
<1>1. CASE UNCHANGED vars
  BY <1>1 DEF vars, ParserInv, TypeOK, FailuresReturn, BlocksNest, Open, Passed, Count
<1>2. CASE Expected \/ Succeeded
  BY <1>2, ExpectedKeeps, SucceededKeeps
<1>3. CASE NotExpected \/ NotAMember \/ NotAType \/ NotALiteral \/ NotPrimary
  BY <1>3, FailsKeep
<1>4. CASE \/ ProgramDeclaration \/ ProgramStatement
           \/ GlobalAlternative \/ NonlocalAlternative \/ VarAlternative
           \/ FuncAlternative \/ BlockStatement \/ ClassMember
  BY <1>4, TriesKeep
<1>5. CASE EndProgramLoop \/ ParseClassBody
  BY <1>5, EndProgramLoopKeeps, ParseClassBodyKeeps
<1>6. CASE ParseClassDef \/ ParseFuncDef \/ ParseBlock
  BY <1>6, BlocksKeep
<1>7. CASE \/ ParseTypedVar \/ ParseVarDef \/ ParseFuncBody
           \/ ParseGlobalDecl \/ ParseNonlocalDecl
           \/ ParseIfStmt \/ ParseWhileStmt \/ ParseForStmt \/ ParseStmt
           \/ EndClassBody \/ EndDeclLoop \/ EndBlock
  BY <1>7, CallsKeep
<1>8. CASE \/ ParseParams \/ ParseReturnType \/ ParseType \/ ParseLiteral
           \/ ParseSimpleStmt \/ ParseAssignments \/ ParseElse
           \/ ParseExprList \/ ParsePostfix
  BY <1>8, TakesKeep
<1>9. CASE PrefixNot \/ PrefixMinus \/ PrimaryInBrackets \/ PrimaryToken
  BY <1>9, PrefixesKeep, PrimaryTokenKeeps
<1>10. CASE EndPostfix \/ Operator \/ EndOperators
  BY <1>10, EndPostfixKeeps, OperatorKeeps, EndOperatorsKeeps
<1> QED BY <1>1, <1>2, <1>3, <1>4, <1>5, <1>6, <1>7, <1>8, <1>9, <1>10 DEF Next

\* On every text the calls under way are well-formed (the parser stays in the
\* text and calls what it knows), whatever fails has a caller that goes on
\* (so that Fail always finds one), and until a procedure fails the parser is
\* in as many blocks as the lexer has opened.
THEOREM ParserInvariant == Spec => []ParserInv
<1> QED BY InitInv, NextInv, PTL DEF Spec

-----------------------------------------------------------------------------
(* What the grammar derives.                                               *)

\* s, and what comes after it.
Then(s, f) == <<s>> \o f

LEMMA ThenType ==
  ASSUME NEW s \in Symbols, NEW f \in Seq(Symbols)
  PROVE  Then(s, f) \in Seq(Symbols)
BY DEF Then

LEMMA ThenConcat ==
  ASSUME NEW s \in Symbols, NEW w \in Seq(Symbols), NEW f \in Seq(Symbols)
  PROVE  Then(s, w) \o f = Then(s, w \o f)
<1>1. <<s>> \in Seq(Symbols)
  OBVIOUS
<1>2. (<<s>> \o w) \o f = <<s>> \o (w \o f)
  BY <1>1, ConcatAssociative
<1> QED BY <1>2, Zenon DEF Then

LEMMA EmptyConcat ==
  ASSUME NEW f \in Seq(Symbols)
  PROVE  <<>> \o f = f /\ f \o <<>> = f
OBVIOUS

\* A derivation goes on by a rule,
LEMMA DeriveRule ==
  ASSUME NEW t, NEW i \in 1 .. Len(t), NEW out \in Seq(NodeNames),
         NEW s \in Symbols, NEW f \in Seq(Symbols), NEW w \in Seq(Symbols),
         <<s, w>> \in Rules, Reaches(t, i, out, Then(s, f))
  PROVE  Reaches(t, i, out, w \o f)
<1> SUFFICES ASSUME NEW F, Closed(F, t) PROVE <<i, out, w \o f>> \in F
  BY DEF Reaches
<1>1. <<i, out, <<s>> \o f>> \in F
  BY Zenon DEF Reaches, Then
<1> QED BY <1>1, Zenon DEF Closed

\* by reading a token,
LEMMA DeriveToken ==
  ASSUME NEW t, NEW i \in 1 .. Len(t), NEW out \in Seq(NodeNames),
         NEW f \in Seq(Symbols), K(t[i]) \in Symbols,
         Reaches(t, i, out, Then(K(t[i]), f))
  PROVE  Reaches(t, Next1(t, i), out, f)
<1> SUFFICES ASSUME NEW F, Closed(F, t) PROVE <<Next1(t, i), out, f>> \in F
  BY DEF Reaches
<1>1. <<i, out, <<K(t[i])>> \o f>> \in F
  BY Zenon DEF Reaches, Then
<1> QED BY <1>1, Zenon DEF Closed

\* and by noting a node.
LEMMA DeriveNode ==
  ASSUME NEW t, NEW i \in 1 .. Len(t), NEW out \in Seq(NodeNames),
         NEW f \in Seq(Symbols), NEW n \in NodeNames,
         Reaches(t, i, out, Then(Node(n), f))
  PROVE  Reaches(t, i, Append(out, n), f)
<1> SUFFICES ASSUME NEW F, Closed(F, t) PROVE <<i, Append(out, n), f>> \in F
  BY DEF Reaches
<1>1. <<i, out, <<Node(n)>> \o f>> \in F
  BY Zenon DEF Reaches, Then
<1>2. Node(n) \in Symbols
  BY DEF Node, Symbols
<1> QED BY <1>1, <1>2, Zenon DEF Closed

LEMMA DeriveProgram ==
  ASSUME NEW t
  PROVE  Reaches(t, 1, <<>>, <<R("program")>>)
BY Zenon DEF Reaches, Closed

LEMMA SymbolTypes ==
  /\ \A tok \in Tokens : K(tok) \in Symbols
  /\ \A A \in Nonterminals : R(A) \in Symbols /\ Many(A) \in Symbols /\ Opt(A) \in Symbols
  /\ \A n \in NodeNames : Node(n) \in Symbols
  /\ \A n \in 1 .. 8 : E(n) \in Symbols /\ Rest(n) \in Symbols
BY DEF Symbols, K, R, Many, Opt, Node, E, Rest, Precedences

\* A derivation that comes to s comes to w, read from the left.
Yields(s, w) ==
  /\ s \in Symbols /\ w \in Seq(Symbols)
  /\ \A t : \A i \in 1 .. Len(t), out \in Seq(NodeNames), f \in Seq(Symbols) :
       Reaches(t, i, out, Then(s, f)) => Reaches(t, i, out, w \o f)

LEMMA YieldsRule ==
  ASSUME NEW s \in Symbols, NEW w \in Seq(Symbols), <<s, w>> \in Rules
  PROVE  Yields(s, w)
BY DeriveRule, Zenon DEF Yields

\* The first symbol is derived from.
LEMMA YieldsFirst ==
  ASSUME NEW s, NEW a, NEW v, NEW w \in Seq(Symbols), Yields(s, Then(a, w)), Yields(a, v)
  PROVE  Yields(s, v \o w)
<1>1. s \in Symbols /\ a \in Symbols /\ v \in Seq(Symbols) /\ v \o w \in Seq(Symbols)
  <2>1. s \in Symbols /\ a \in Symbols /\ v \in Seq(Symbols)
    BY DEF Yields
  <2> QED BY <2>1
<1>2. ASSUME NEW t, NEW i \in 1 .. Len(t), NEW out \in Seq(NodeNames),
             NEW f \in Seq(Symbols), Reaches(t, i, out, Then(s, f))
      PROVE  Reaches(t, i, out, (v \o w) \o f)
  <2>1. Reaches(t, i, out, Then(a, w) \o f)
    BY <1>2, Zenon DEF Yields
  <2>2. Then(a, w) \o f = Then(a, w \o f) /\ w \o f \in Seq(Symbols)
    <3>1. Then(a, w) \o f = Then(a, w \o f)
      BY <1>1, ThenConcat, Zenon
    <3>2. w \o f \in Seq(Symbols)
      OBVIOUS
    <3> QED BY <3>1, <3>2
  <2>3. Reaches(t, i, out, v \o (w \o f))
    BY <2>1, <2>2, Zenon DEF Yields
  <2>4. (v \o w) \o f = v \o (w \o f)
    BY <1>1, ConcatAssociative
  <2> QED BY <2>3, <2>4
<1> QED BY <1>1, <1>2, Zenon DEF Yields

LEMMA ConsIs ==
  ASSUME NEW S, NEW a \in S, NEW w \in Seq(S), NEW v \in Seq(S),
         Len(v) = Len(w) + 1, v[1] = a, \A i \in 1 .. Len(w) : v[i + 1] = w[i]
  PROVE  <<a>> \o w = v
<1> DEFINE u == <<a>>
<1>1. u \in Seq(S) /\ Len(u) = 1 /\ u[1] = a
  OBVIOUS
<1> HIDE DEF u
<1>2. /\ u \o w \in Seq(S) /\ Len(u \o w) = Len(u) + Len(w)
      /\ \A i \in 1 .. Len(u) : (u \o w)[i] = u[i]
      /\ \A i \in 1 .. Len(w) : (u \o w)[Len(u) + i] = w[i]
  BY <1>1, ConcatElements
<1> DEFINE r == u \o w
<1>3. r \in Seq(S) /\ Len(r) = Len(v) /\ r[1] = a /\ Len(w) \in Nat
      /\ \A i \in 1 .. Len(w) : r[1 + i] = w[i]
  BY <1>1, <1>2
<1> HIDE DEF r
<1>4. ASSUME NEW i \in 1 .. Len(r)
      PROVE  r[i] = v[i]
  <2>1. CASE i = 1
    BY <1>3, <2>1
  <2>2. CASE i # 1
    <3>1. i - 1 \in 1 .. Len(w) /\ 1 + (i - 1) = i /\ (i - 1) + 1 = i
      BY <1>3, <2>2
    <3> QED BY <1>3, <3>1
  <2> QED BY <2>1, <2>2
<1>5. r = v
  BY <1>3, <1>4, SeqEqual
<1> QED BY <1>5 DEF r, u

LEMMA TwoTuple ==
  ASSUME NEW S, NEW a \in S, NEW b \in S
  PROVE  <<a>> \o <<b>> = <<a, b>>
<1> DEFINE w == <<b>>  v == <<a, b>>
<1>1. w \in Seq(S) /\ v \in Seq(S) /\ Len(w) = 1 /\ Len(v) = 2 /\ v[1] = a
      /\ v[2] = b /\ w[1] = b
  OBVIOUS
<1> HIDE DEF w, v
<1>2. Len(v) = Len(w) + 1 /\ \A i \in 1 .. Len(w) : v[i + 1] = w[i]
  BY <1>1
<1>3. <<a>> \o w = v
  BY <1>1, <1>2, ConsIs, Zenon
<1> QED BY <1>3 DEF w, v

LEMMA ThreeTuple ==
  ASSUME NEW S, NEW a \in S, NEW b \in S, NEW c \in S
  PROVE  <<a>> \o <<b, c>> = <<a, b, c>> /\ <<a, b>> \o <<c>> = <<a, b, c>>
<1> DEFINE w == <<b, c>>  v == <<a, b, c>>
<1>1. w \in Seq(S) /\ v \in Seq(S) /\ Len(w) = 2 /\ Len(v) = 3 /\ v[1] = a
      /\ v[2] = b /\ w[1] = b /\ v[3] = c /\ w[2] = c
  OBVIOUS
<1> HIDE DEF w, v
<1>2. Len(v) = Len(w) + 1 /\ \A i \in 1 .. Len(w) : v[i + 1] = w[i]
  BY <1>1
<1>3. <<a>> \o w = v
  BY <1>1, <1>2, ConsIs, Zenon
<1>4. <<a>> \o <<b, c>> = <<a, b, c>>
  BY <1>3 DEF w, v
<1>5. (<<a>> \o <<b>>) \o <<c>> = <<a>> \o (<<b>> \o <<c>>)
  <2>1. <<a>> \in Seq(S) /\ <<b>> \in Seq(S) /\ <<c>> \in Seq(S)
    OBVIOUS
  <2> QED BY <2>1, ConcatAssociative
<1>6. <<a>> \o <<b>> = <<a, b>> /\ <<b>> \o <<c>> = <<b, c>>
  BY TwoTuple
<1> QED BY <1>4, <1>5, <1>6

LEMMA FourTuple ==
  ASSUME NEW S, NEW a \in S, NEW b \in S, NEW c \in S, NEW d \in S
  PROVE  <<a>> \o <<b, c, d>> = <<a, b, c, d>> /\ <<a, b, c>> \o <<d>> = <<a, b, c, d>>
<1> DEFINE w == <<b, c, d>>  v == <<a, b, c, d>>
<1>1. w \in Seq(S) /\ v \in Seq(S) /\ Len(w) = 3 /\ Len(v) = 4 /\ v[1] = a
      /\ v[2] = b /\ w[1] = b /\ v[3] = c /\ w[2] = c /\ v[4] = d /\ w[3] = d
  OBVIOUS
<1> HIDE DEF w, v
<1>2. Len(v) = Len(w) + 1 /\ \A i \in 1 .. Len(w) : v[i + 1] = w[i]
  BY <1>1
<1>3. <<a>> \o w = v
  BY <1>1, <1>2, ConsIs, Zenon
<1>4. <<a>> \o <<b, c, d>> = <<a, b, c, d>>
  BY <1>3 DEF w, v
<1>5. (<<a>> \o <<b, c>>) \o <<d>> = <<a>> \o (<<b, c>> \o <<d>>)
  <2>1. <<a>> \in Seq(S) /\ <<b, c>> \in Seq(S) /\ <<d>> \in Seq(S)
    OBVIOUS
  <2> QED BY <2>1, ConcatAssociative
<1>6. <<a>> \o <<b, c>> = <<a, b, c>> /\ <<b, c>> \o <<d>> = <<b, c, d>>
  BY ThreeTuple
<1> QED BY <1>4, <1>5, <1>6

LEMMA ThenTuples ==
  ASSUME NEW a \in Symbols
  PROVE  /\ Then(a, <<>>) = <<a>>
         /\ \A b \in Symbols : Then(a, <<b>>) = <<a, b>>
         /\ \A b, c \in Symbols : Then(a, <<b, c>>) = <<a, b, c>>
         /\ \A b, c, d \in Symbols : Then(a, <<b, c, d>>) = <<a, b, c, d>>
<1>1. Then(a, <<>>) = <<a>>
  BY DEF Then
<1>2. \A b \in Symbols : Then(a, <<b>>) = <<a, b>>
  BY TwoTuple, Zenon DEF Then
<1>3. \A b, c \in Symbols : Then(a, <<b, c>>) = <<a, b, c>>
  BY ThreeTuple, Zenon DEF Then
<1>4. ASSUME NEW b \in Symbols, NEW c \in Symbols, NEW d \in Symbols
      PROVE  Then(a, <<b, c, d>>) = <<a, b, c, d>>
  BY FourTuple DEF Then
<1> QED BY <1>1, <1>2, <1>3, <1>4

\* A rule with one symbol or two.
LEMMA YieldsOne ==
  ASSUME NEW s \in Symbols, NEW a \in Symbols, <<s, <<a>>>> \in Rules
  PROVE  Yields(s, <<a>>)
<1>1. <<a>> \in Seq(Symbols)
  OBVIOUS
<1> QED BY <1>1, YieldsRule

LEMMA YieldsTwo ==
  ASSUME NEW s \in Symbols, NEW a \in Symbols, NEW b \in Symbols,
         <<s, <<a, b>>>> \in Rules
  PROVE  Yields(s, <<a, b>>) /\ Yields(s, Then(a, <<b>>))
<1>1. <<a, b>> \in Seq(Symbols) /\ Then(a, <<b>>) = <<a, b>>
  BY ThenTuples
<1> QED BY <1>1, YieldsRule

LEMMA YieldsMany ==
  ASSUME NEW A \in Nonterminals
  PROVE  /\ Yields(Many(A), <<>>) /\ Yields(Many(A), Then(R(A), <<Many(A)>>))
         /\ Yields(Opt(A), <<>>) /\ Yields(Opt(A), <<R(A)>>)
<1>1. R(A) \in Symbols /\ Many(A) \in Symbols /\ Opt(A) \in Symbols
  BY SymbolTypes
<1>2. <<>> \in Seq(Symbols)
  OBVIOUS
<1>3. \A r \in {<<Many(A), <<>>>>, <<Many(A), <<R(A), Many(A)>>>>,
                <<Opt(A), <<>>>>, <<Opt(A), <<R(A)>>>>} : r \in Rules
  BY Zenon DEF RepetitionRules, Rules
<1> QED BY <1>1, <1>2, <1>3, YieldsRule, YieldsOne, YieldsTwo

\* A repetition by one of the rules of what is repeated.
LEMMA YieldsOneOfMany ==
  ASSUME NEW A \in Nonterminals, NEW w, Yields(R(A), w)
  PROVE  Yields(Many(A), w \o <<Many(A)>>)
<1>1. <<Many(A)>> \in Seq(Symbols)
  BY SymbolTypes
<1> QED BY <1>1, YieldsMany, YieldsFirst

LEMMA YieldsOpt ==
  ASSUME NEW A \in Nonterminals, NEW w, Yields(R(A), w)
  PROVE  Yields(Opt(A), w)
<1>1. Yields(Opt(A), Then(R(A), <<>>)) /\ <<>> \in Seq(Symbols)
  <2>1. R(A) \in Symbols /\ Yields(Opt(A), <<R(A)>>)
    BY YieldsMany, SymbolTypes
  <2>2. Then(R(A), <<>>) = <<R(A)>>
    BY <2>1, ThenTuples
  <2> QED BY <2>1, <2>2
<1>2. Yields(Opt(A), w \o <<>>)
  BY <1>1, YieldsFirst, Zenon
<1>3. w \o <<>> = w
  BY EmptyConcat DEF Yields
<1> QED BY <1>2, <1>3

LEMMA YieldsDeclaration ==
  /\ \A b \in {"var_def", "func_def", "class_def"} :
       Yields(Many("declaration"), <<R(b), Many("declaration")>>)
  /\ \A b \in {"var_def", "func_def"} :
       /\ Yields(Many("member"), <<R(b), Many("member")>>)
       /\ Yields(R("members"), <<R(b), Many("member")>>)
  /\ \A b \in {"global_decl", "nonlocal_decl", "var_def", "func_def"} :
       Yields(Many("local"), <<R(b), Many("local")>>)
<1>0. \A b \in {"declaration", "var_def", "func_def", "class_def", "member", "members",
                "local", "global_decl", "nonlocal_decl"} :
           b \in Nonterminals /\ R(b) \in Symbols /\ Many(b) \in Symbols
  BY SymbolTypes DEF Nonterminals
<1>1. ASSUME NEW A \in {"declaration", "member", "local"},
             NEW b \in {"var_def", "func_def", "class_def", "global_decl", "nonlocal_decl"},
             <<R(A), <<R(b)>>>> \in Rules
      PROVE  Yields(R(A), <<R(b)>>) /\ Yields(Many(A), <<R(b), Many(A)>>)
  <2>1. R(A) \in Symbols /\ R(b) \in Symbols /\ A \in Nonterminals /\ Many(A) \in Symbols
    BY <1>0
  <2>2. Yields(R(A), <<R(b)>>)
    BY <1>1, <2>1, YieldsOne
  <2>3. Yields(Many(A), <<R(b)>> \o <<Many(A)>>)
    BY <2>1, <2>2, YieldsOneOfMany
  <2>4. <<R(b)>> \o <<Many(A)>> = <<R(b), Many(A)>>
    BY <2>1, TwoTuple
  <2> QED BY <2>2, <2>3, <2>4
<1>2. /\ \A b \in {"var_def", "func_def", "class_def"} : <<R("declaration"), <<R(b)>>>> \in Rules
      /\ \A b \in {"var_def", "func_def"} : <<R("member"), <<R(b)>>>> \in Rules
      /\ \A b \in {"global_decl", "nonlocal_decl", "var_def", "func_def"} :
           <<R("local"), <<R(b)>>>> \in Rules
      /\ <<R("members"), <<R("member"), Many("member")>>>> \in Rules
  BY Zenon DEF Rules, DeclarationRules
<1>3. ASSUME NEW b \in {"var_def", "func_def"}
      PROVE  Yields(R("members"), <<R(b), Many("member")>>)
  <2>1. R(b) \in Symbols /\ Many("member") \in Symbols /\ <<Many("member")>> \in Seq(Symbols)
    BY <1>0
  <2>2. Yields(R("members"), Then(R("member"), <<Many("member")>>))
    BY <1>0, <1>2, YieldsTwo
  <2>3. Yields(R("member"), <<R(b)>>)
    BY <1>1, <1>2
  <2>4. Yields(R("members"), <<R(b)>> \o <<Many("member")>>)
    BY <2>1, <2>2, <2>3, YieldsFirst
  <2>5. <<R(b)>> \o <<Many("member")>> = <<R(b), Many("member")>>
    BY <2>1, TwoTuple
  <2> QED BY <2>4, <2>5
<1>4. \A b \in {"var_def", "func_def", "class_def"} :
        Yields(Many("declaration"), <<R(b), Many("declaration")>>)
  BY <1>1, <1>2
<1>5. \A b \in {"var_def", "func_def"} : Yields(Many("member"), <<R(b), Many("member")>>)
  BY <1>1, <1>2
<1>6. \A b \in {"global_decl", "nonlocal_decl", "var_def", "func_def"} :
        Yields(Many("local"), <<R(b), Many("local")>>)
  BY <1>1, <1>2
<1> QED BY <1>3, <1>4, <1>5, <1>6

\* The rules of the grammar as they are written.
LEMMA DeclarationsYield ==
  /\ Yields(R("class_def"), <<K("class"), K("id"), K("("), K("id"), K(")"), K(":"),
      K("NEWLINE"), K("INDENT"), R("class_body"), K("DEDENT")>>)
  /\ Yields(R("class_body"), <<R("members")>>)
  /\ Yields(R("class_body"), <<K("pass"), K("NEWLINE"), Many("member")>>)
  /\ Yields(R("func_def"), <<K("def"), K("id"), K("("), Opt("params"), K(")"), Opt("return_type"),
      K(":"), K("NEWLINE"), K("INDENT"), R("func_body"), K("DEDENT")>>)
  /\ Yields(R("params"), <<R("typed_var"), Many("next_param")>>)
  /\ Yields(R("next_param"), <<K(","), R("typed_var")>>)
  /\ Yields(R("return_type"), <<K("->"), R("type")>>)
  /\ Yields(R("typed_var"), <<K("id"), K(":"), R("type")>>)
  /\ Yields(R("type"), <<K("id")>>)
  /\ Yields(R("type"), <<K("idstr")>>)
  /\ Yields(R("type"), <<K("["), R("type"), K("]")>>)
  /\ Yields(R("var_def"), <<R("typed_var"), K("="), R("literal"), K("NEWLINE")>>)
  /\ Yields(R("literal"), <<K("lit")>>)
  /\ Yields(R("literal"), <<K("idstr")>>)
  /\ Yields(R("func_body"), <<Many("local"), R("stmt"), Many("stmt")>>)
  /\ Yields(R("global_decl"), <<K("global"), K("id"), K("NEWLINE")>>)
  /\ Yields(R("nonlocal_decl"), <<K("nonlocal"), K("id"), K("NEWLINE")>>)
<1> DEFINE comma == K(",")
<1>0. /\ K("(") \in Symbols /\ K(")") \in Symbols /\ K("->") \in Symbols
      /\ K(":") \in Symbols /\ K("=") \in Symbols /\ K("DEDENT") \in Symbols
      /\ K("INDENT") \in Symbols /\ K("NEWLINE") \in Symbols
      /\ K("[") \in Symbols /\ K("]") \in Symbols /\ K("class") \in Symbols
      /\ K("def") \in Symbols /\ K("global") \in Symbols /\ K("id") \in Symbols
      /\ K("idstr") \in Symbols /\ K("lit") \in Symbols
      /\ K("nonlocal") \in Symbols /\ K("pass") \in Symbols
  BY SymbolTypes, Zenon DEF Tokens
<1>a. comma \in Symbols
  BY SymbolTypes, Zenon DEF Tokens
<1>b. /\ Many("local") \in Symbols /\ Many("member") \in Symbols
      /\ Many("next_param") \in Symbols /\ Many("stmt") \in Symbols
      /\ Opt("params") \in Symbols /\ Opt("return_type") \in Symbols
      /\ R("class_body") \in Symbols /\ R("class_def") \in Symbols
      /\ R("func_body") \in Symbols /\ R("func_def") \in Symbols
      /\ R("global_decl") \in Symbols /\ R("literal") \in Symbols
      /\ R("members") \in Symbols /\ R("next_param") \in Symbols
      /\ R("nonlocal_decl") \in Symbols /\ R("params") \in Symbols
      /\ R("return_type") \in Symbols /\ R("stmt") \in Symbols
      /\ R("type") \in Symbols /\ R("typed_var") \in Symbols
      /\ R("var_def") \in Symbols
  BY SymbolTypes DEF Nonterminals
<1> HIDE DEF comma
<1>1. Yields(R("class_def"), <<K("class"), K("id"), K("("), K("id"), K(")"), K(":"),
      K("NEWLINE"), K("INDENT"), R("class_body"), K("DEDENT")>>)
  <2>1. <<R("class_def"), <<K("class"), K("id"), K("("), K("id"), K(")"), K(":"),
             K("NEWLINE"), K("INDENT"), R("class_body"), K("DEDENT")>>>> \in Rules
    BY Zenon DEF Rules, DeclarationRules
  <2>2. <<K("class"), K("id"), K("("), K("id"), K(")"), K(":"),
          K("NEWLINE"), K("INDENT"), R("class_body"), K("DEDENT")>> \in Seq(Symbols)
    BY <1>0, <1>a, <1>b
  <2> QED BY <1>0, <1>a, <1>b, <2>1, <2>2, YieldsRule, Zenon
<1>2. Yields(R("class_body"), <<R("members")>>)
  <2>1. <<R("class_body"), <<R("members")>>>> \in Rules
    BY Zenon DEF Rules, DeclarationRules
  <2>2. <<R("members")>> \in Seq(Symbols)
    BY <1>0, <1>a, <1>b
  <2> QED BY <1>0, <1>a, <1>b, <2>1, <2>2, YieldsRule, Zenon
<1>3. Yields(R("class_body"), <<K("pass"), K("NEWLINE"), Many("member")>>)
  <2>1. <<R("class_body"), <<K("pass"), K("NEWLINE"), Many("member")>>>> \in Rules
    BY Zenon DEF Rules, DeclarationRules
  <2>2. <<K("pass"), K("NEWLINE"), Many("member")>> \in Seq(Symbols)
    BY <1>0, <1>a, <1>b
  <2> QED BY <1>0, <1>a, <1>b, <2>1, <2>2, YieldsRule, Zenon
<1>4. Yields(R("func_def"), <<K("def"), K("id"), K("("), Opt("params"), K(")"), Opt("return_type"),
      K(":"), K("NEWLINE"), K("INDENT"), R("func_body"), K("DEDENT")>>)
  <2>1. <<R("func_def"), <<K("def"), K("id"), K("("), Opt("params"), K(")"), Opt("return_type"),
             K(":"), K("NEWLINE"), K("INDENT"), R("func_body"), K("DEDENT")>>>> \in Rules
    BY Zenon DEF Rules, DeclarationRules
  <2>2. <<K("def"), K("id"), K("("), Opt("params"), K(")"), Opt("return_type"),
          K(":"), K("NEWLINE"), K("INDENT"), R("func_body"), K("DEDENT")>> \in Seq(Symbols)
    BY <1>0, <1>a, <1>b
  <2> QED BY <1>0, <1>a, <1>b, <2>1, <2>2, YieldsRule, Zenon
<1>5. Yields(R("params"), <<R("typed_var"), Many("next_param")>>)
  <2>1. <<R("params"), <<R("typed_var"), Many("next_param")>>>> \in Rules
    BY Zenon DEF Rules, DeclarationRules
  <2>2. <<R("typed_var"), Many("next_param")>> \in Seq(Symbols)
    BY <1>0, <1>a, <1>b
  <2> QED BY <1>0, <1>a, <1>b, <2>1, <2>2, YieldsRule, Zenon
<1>6. Yields(R("next_param"), <<K(","), R("typed_var")>>)
  <2>1. <<R("next_param"), <<K(","), R("typed_var")>>>> \in Rules
    BY Zenon DEF Rules, DeclarationRules
  <2>2. <<comma, R("typed_var")>> \in Seq(Symbols)
    BY <1>0, <1>a, <1>b
  <2> QED BY <1>0, <1>a, <1>b, <2>1, <2>2, YieldsRule, Zenon DEF comma
<1>7. Yields(R("return_type"), <<K("->"), R("type")>>)
  <2>1. <<R("return_type"), <<K("->"), R("type")>>>> \in Rules
    BY Zenon DEF Rules, DeclarationRules
  <2>2. <<K("->"), R("type")>> \in Seq(Symbols)
    BY <1>0, <1>a, <1>b
  <2> QED BY <1>0, <1>a, <1>b, <2>1, <2>2, YieldsRule, Zenon
<1>8. Yields(R("typed_var"), <<K("id"), K(":"), R("type")>>)
  <2>1. <<R("typed_var"), <<K("id"), K(":"), R("type")>>>> \in Rules
    BY Zenon DEF Rules, DeclarationRules
  <2>2. <<K("id"), K(":"), R("type")>> \in Seq(Symbols)
    BY <1>0, <1>a, <1>b
  <2> QED BY <1>0, <1>a, <1>b, <2>1, <2>2, YieldsRule, Zenon
<1>9. Yields(R("type"), <<K("id")>>)
  <2>1. <<R("type"), <<K("id")>>>> \in Rules
    BY Zenon DEF Rules, DeclarationRules
  <2>2. <<K("id")>> \in Seq(Symbols)
    BY <1>0, <1>a, <1>b
  <2> QED BY <1>0, <1>a, <1>b, <2>1, <2>2, YieldsRule, Zenon
<1>10. Yields(R("type"), <<K("idstr")>>)
  <2>1. <<R("type"), <<K("idstr")>>>> \in Rules
    BY Zenon DEF Rules, DeclarationRules
  <2>2. <<K("idstr")>> \in Seq(Symbols)
    BY <1>0, <1>a, <1>b
  <2> QED BY <1>0, <1>a, <1>b, <2>1, <2>2, YieldsRule, Zenon
<1>11. Yields(R("type"), <<K("["), R("type"), K("]")>>)
  <2>1. <<R("type"), <<K("["), R("type"), K("]")>>>> \in Rules
    BY Zenon DEF Rules, DeclarationRules
  <2>2. <<K("["), R("type"), K("]")>> \in Seq(Symbols)
    BY <1>0, <1>a, <1>b
  <2> QED BY <1>0, <1>a, <1>b, <2>1, <2>2, YieldsRule, Zenon
<1>12. Yields(R("var_def"), <<R("typed_var"), K("="), R("literal"), K("NEWLINE")>>)
  <2>1. <<R("var_def"), <<R("typed_var"), K("="), R("literal"), K("NEWLINE")>>>> \in Rules
    BY Zenon DEF Rules, DeclarationRules
  <2>2. <<R("typed_var"), K("="), R("literal"), K("NEWLINE")>> \in Seq(Symbols)
    BY <1>0, <1>a, <1>b
  <2> QED BY <1>0, <1>a, <1>b, <2>1, <2>2, YieldsRule, Zenon
<1>13. Yields(R("literal"), <<K("lit")>>)
  <2>1. <<R("literal"), <<K("lit")>>>> \in Rules
    BY Zenon DEF Rules, DeclarationRules
  <2>2. <<K("lit")>> \in Seq(Symbols)
    BY <1>0, <1>a, <1>b
  <2> QED BY <1>0, <1>a, <1>b, <2>1, <2>2, YieldsRule, Zenon
<1>14. Yields(R("literal"), <<K("idstr")>>)
  <2>1. <<R("literal"), <<K("idstr")>>>> \in Rules
    BY Zenon DEF Rules, DeclarationRules
  <2>2. <<K("idstr")>> \in Seq(Symbols)
    BY <1>0, <1>a, <1>b
  <2> QED BY <1>0, <1>a, <1>b, <2>1, <2>2, YieldsRule, Zenon
<1>15. Yields(R("func_body"), <<Many("local"), R("stmt"), Many("stmt")>>)
  <2>1. <<R("func_body"), <<Many("local"), R("stmt"), Many("stmt")>>>> \in Rules
    BY Zenon DEF Rules, DeclarationRules
  <2>2. <<Many("local"), R("stmt"), Many("stmt")>> \in Seq(Symbols)
    BY <1>0, <1>a, <1>b
  <2> QED BY <1>0, <1>a, <1>b, <2>1, <2>2, YieldsRule, Zenon
<1>16. Yields(R("global_decl"), <<K("global"), K("id"), K("NEWLINE")>>)
  <2>1. <<R("global_decl"), <<K("global"), K("id"), K("NEWLINE")>>>> \in Rules
    BY Zenon DEF Rules, DeclarationRules
  <2>2. <<K("global"), K("id"), K("NEWLINE")>> \in Seq(Symbols)
    BY <1>0, <1>a, <1>b
  <2> QED BY <1>0, <1>a, <1>b, <2>1, <2>2, YieldsRule, Zenon
<1>17. Yields(R("nonlocal_decl"), <<K("nonlocal"), K("id"), K("NEWLINE")>>)
  <2>1. <<R("nonlocal_decl"), <<K("nonlocal"), K("id"), K("NEWLINE")>>>> \in Rules
    BY Zenon DEF Rules, DeclarationRules
  <2>2. <<K("nonlocal"), K("id"), K("NEWLINE")>> \in Seq(Symbols)
    BY <1>0, <1>a, <1>b
  <2> QED BY <1>0, <1>a, <1>b, <2>1, <2>2, YieldsRule, Zenon
<1> QED BY <1>1, <1>2, <1>3, <1>4, <1>5, <1>6, <1>7, <1>8, <1>9, <1>10, <1>11, <1>12, <1>13, <1>14, <1>15, <1>16, <1>17

LEMMA StatementsYield ==
  /\ Yields(R("stmt"), <<R("simple_stmt"), K("NEWLINE")>>)
  /\ Yields(R("stmt"), <<R("if_stmt")>>)
  /\ Yields(R("stmt"), <<R("while_stmt")>>)
  /\ Yields(R("stmt"), <<R("for_stmt")>>)
  /\ Yields(R("simple_stmt"), <<K("pass")>>)
  /\ Yields(R("simple_stmt"), <<K("return")>>)
  /\ Yields(R("simple_stmt"), <<K("return"), E(1)>>)
  /\ Yields(R("simple_stmt"), <<Many("assigned"), E(1)>>)
  /\ Yields(R("assigned"), <<R("target"), K("=")>>)
  /\ Yields(R("target"), <<K("id"), Node("x")>>)
  /\ Yields(R("target"), <<R("cexpr"), K("."), K("id")>>)
  /\ Yields(R("target"), <<R("cexpr"), K("["), E(1), K("]")>>)
  /\ Yields(R("target"), <<K("("), R("target"), K(")")>>)
  /\ Yields(R("if_stmt"), <<K("if"), E(1), K(":"), R("block"), R("otherwise")>>)
  /\ Yields(R("otherwise"), <<>>)
  /\ Yields(R("otherwise"), <<R("elif_stmt")>>)
  /\ Yields(R("otherwise"), <<K("else"), K(":"), R("block")>>)
  /\ Yields(R("elif_stmt"), <<K("elif"), E(1), K(":"), R("block"), R("otherwise")>>)
  /\ Yields(R("while_stmt"), <<K("while"), E(1), K(":"), R("block")>>)
  /\ Yields(R("for_stmt"), <<K("for"), K("id"), K("in"), E(1), K(":"), R("block")>>)
  /\ Yields(R("block"), <<K("NEWLINE"), K("INDENT"), R("stmt"), Many("stmt"), K("DEDENT")>>)
<1>0. /\ K("(") \in Symbols /\ K(")") \in Symbols /\ K(".") \in Symbols
      /\ K(":") \in Symbols /\ K("=") \in Symbols /\ K("DEDENT") \in Symbols
      /\ K("INDENT") \in Symbols /\ K("NEWLINE") \in Symbols
      /\ K("[") \in Symbols /\ K("]") \in Symbols /\ K("elif") \in Symbols
      /\ K("else") \in Symbols /\ K("for") \in Symbols /\ K("id") \in Symbols
      /\ K("if") \in Symbols /\ K("in") \in Symbols /\ K("pass") \in Symbols
      /\ K("return") \in Symbols /\ K("while") \in Symbols
  BY SymbolTypes, Zenon DEF Tokens
<1>b. /\ Many("assigned") \in Symbols /\ Many("stmt") \in Symbols
      /\ R("assigned") \in Symbols /\ R("block") \in Symbols
      /\ R("cexpr") \in Symbols /\ R("elif_stmt") \in Symbols
      /\ R("for_stmt") \in Symbols /\ R("if_stmt") \in Symbols
      /\ R("otherwise") \in Symbols /\ R("simple_stmt") \in Symbols
      /\ R("stmt") \in Symbols /\ R("target") \in Symbols
      /\ R("while_stmt") \in Symbols
  BY SymbolTypes DEF Nonterminals
<1>c. /\ E(1) \in Symbols /\ Node("x") \in Symbols
  BY SymbolTypes DEF NodeNames, Operators
<1>1. Yields(R("stmt"), <<R("simple_stmt"), K("NEWLINE")>>)
  <2>1. <<R("stmt"), <<R("simple_stmt"), K("NEWLINE")>>>> \in Rules
    BY Zenon DEF Rules, StatementRules
  <2>2. <<R("simple_stmt"), K("NEWLINE")>> \in Seq(Symbols)
    BY <1>0, <1>b, <1>c
  <2> QED BY <1>0, <1>b, <1>c, <2>1, <2>2, YieldsRule, Zenon
<1>2. Yields(R("stmt"), <<R("if_stmt")>>)
  <2>1. <<R("stmt"), <<R("if_stmt")>>>> \in Rules
    BY Zenon DEF Rules, StatementRules
  <2>2. <<R("if_stmt")>> \in Seq(Symbols)
    BY <1>0, <1>b, <1>c
  <2> QED BY <1>0, <1>b, <1>c, <2>1, <2>2, YieldsRule, Zenon
<1>3. Yields(R("stmt"), <<R("while_stmt")>>)
  <2>1. <<R("stmt"), <<R("while_stmt")>>>> \in Rules
    BY Zenon DEF Rules, StatementRules
  <2>2. <<R("while_stmt")>> \in Seq(Symbols)
    BY <1>0, <1>b, <1>c
  <2> QED BY <1>0, <1>b, <1>c, <2>1, <2>2, YieldsRule, Zenon
<1>4. Yields(R("stmt"), <<R("for_stmt")>>)
  <2>1. <<R("stmt"), <<R("for_stmt")>>>> \in Rules
    BY Zenon DEF Rules, StatementRules
  <2>2. <<R("for_stmt")>> \in Seq(Symbols)
    BY <1>0, <1>b, <1>c
  <2> QED BY <1>0, <1>b, <1>c, <2>1, <2>2, YieldsRule, Zenon
<1>5. Yields(R("simple_stmt"), <<K("pass")>>)
  <2>1. <<R("simple_stmt"), <<K("pass")>>>> \in Rules
    BY Zenon DEF Rules, StatementRules
  <2>2. <<K("pass")>> \in Seq(Symbols)
    BY <1>0, <1>b, <1>c
  <2> QED BY <1>0, <1>b, <1>c, <2>1, <2>2, YieldsRule, Zenon
<1>6. Yields(R("simple_stmt"), <<K("return")>>)
  <2>1. <<R("simple_stmt"), <<K("return")>>>> \in Rules
    BY Zenon DEF Rules, StatementRules
  <2>2. <<K("return")>> \in Seq(Symbols)
    BY <1>0, <1>b, <1>c
  <2> QED BY <1>0, <1>b, <1>c, <2>1, <2>2, YieldsRule, Zenon
<1>7. Yields(R("simple_stmt"), <<K("return"), E(1)>>)
  <2>1. <<R("simple_stmt"), <<K("return"), E(1)>>>> \in Rules
    BY Zenon DEF Rules, StatementRules
  <2>2. <<K("return"), E(1)>> \in Seq(Symbols)
    BY <1>0, <1>b, <1>c
  <2> QED BY <1>0, <1>b, <1>c, <2>1, <2>2, YieldsRule, Zenon
<1>8. Yields(R("simple_stmt"), <<Many("assigned"), E(1)>>)
  <2>1. <<R("simple_stmt"), <<Many("assigned"), E(1)>>>> \in Rules
    BY Zenon DEF Rules, StatementRules
  <2>2. <<Many("assigned"), E(1)>> \in Seq(Symbols)
    BY <1>0, <1>b, <1>c
  <2> QED BY <1>0, <1>b, <1>c, <2>1, <2>2, YieldsRule, Zenon
<1>9. Yields(R("assigned"), <<R("target"), K("=")>>)
  <2>1. <<R("assigned"), <<R("target"), K("=")>>>> \in Rules
    BY Zenon DEF Rules, StatementRules
  <2>2. <<R("target"), K("=")>> \in Seq(Symbols)
    BY <1>0, <1>b, <1>c
  <2> QED BY <1>0, <1>b, <1>c, <2>1, <2>2, YieldsRule, Zenon
<1>10. Yields(R("target"), <<K("id"), Node("x")>>)
  <2>1. <<R("target"), <<K("id"), Node("x")>>>> \in Rules
    BY Zenon DEF Rules, StatementRules
  <2>2. <<K("id"), Node("x")>> \in Seq(Symbols)
    BY <1>0, <1>b, <1>c
  <2> QED BY <1>0, <1>b, <1>c, <2>1, <2>2, YieldsRule, Zenon
<1>11. Yields(R("target"), <<R("cexpr"), K("."), K("id")>>)
  <2>1. <<R("target"), <<R("cexpr"), K("."), K("id")>>>> \in Rules
    BY Zenon DEF Rules, StatementRules
  <2>2. <<R("cexpr"), K("."), K("id")>> \in Seq(Symbols)
    BY <1>0, <1>b, <1>c
  <2> QED BY <1>0, <1>b, <1>c, <2>1, <2>2, YieldsRule, Zenon
<1>12. Yields(R("target"), <<R("cexpr"), K("["), E(1), K("]")>>)
  <2>1. <<R("target"), <<R("cexpr"), K("["), E(1), K("]")>>>> \in Rules
    BY Zenon DEF Rules, StatementRules
  <2>2. <<R("cexpr"), K("["), E(1), K("]")>> \in Seq(Symbols)
    BY <1>0, <1>b, <1>c
  <2> QED BY <1>0, <1>b, <1>c, <2>1, <2>2, YieldsRule, Zenon
<1>13. Yields(R("target"), <<K("("), R("target"), K(")")>>)
  <2>1. <<R("target"), <<K("("), R("target"), K(")")>>>> \in Rules
    BY Zenon DEF Rules, StatementRules
  <2>2. <<K("("), R("target"), K(")")>> \in Seq(Symbols)
    BY <1>0, <1>b, <1>c
  <2> QED BY <1>0, <1>b, <1>c, <2>1, <2>2, YieldsRule, Zenon
<1>14. Yields(R("if_stmt"), <<K("if"), E(1), K(":"), R("block"), R("otherwise")>>)
  <2>1. <<R("if_stmt"), <<K("if"), E(1), K(":"), R("block"), R("otherwise")>>>> \in Rules
    BY Zenon DEF Rules, StatementRules
  <2>2. <<K("if"), E(1), K(":"), R("block"), R("otherwise")>> \in Seq(Symbols)
    BY <1>0, <1>b, <1>c
  <2> QED BY <1>0, <1>b, <1>c, <2>1, <2>2, YieldsRule, Zenon
<1>15. Yields(R("otherwise"), <<>>)
  <2>1. <<R("otherwise"), <<>>>> \in Rules
    BY Zenon DEF Rules, StatementRules
  <2>2. <<>> \in Seq(Symbols)
    BY <1>0, <1>b, <1>c
  <2> QED BY <1>0, <1>b, <1>c, <2>1, <2>2, YieldsRule, Zenon
<1>16. Yields(R("otherwise"), <<R("elif_stmt")>>)
  <2>1. <<R("otherwise"), <<R("elif_stmt")>>>> \in Rules
    BY Zenon DEF Rules, StatementRules
  <2>2. <<R("elif_stmt")>> \in Seq(Symbols)
    BY <1>0, <1>b, <1>c
  <2> QED BY <1>0, <1>b, <1>c, <2>1, <2>2, YieldsRule, Zenon
<1>17. Yields(R("otherwise"), <<K("else"), K(":"), R("block")>>)
  <2>1. <<R("otherwise"), <<K("else"), K(":"), R("block")>>>> \in Rules
    BY Zenon DEF Rules, StatementRules
  <2>2. <<K("else"), K(":"), R("block")>> \in Seq(Symbols)
    BY <1>0, <1>b, <1>c
  <2> QED BY <1>0, <1>b, <1>c, <2>1, <2>2, YieldsRule, Zenon
<1>18. Yields(R("elif_stmt"), <<K("elif"), E(1), K(":"), R("block"), R("otherwise")>>)
  <2>1. <<R("elif_stmt"), <<K("elif"), E(1), K(":"), R("block"), R("otherwise")>>>> \in Rules
    BY Zenon DEF Rules, StatementRules
  <2>2. <<K("elif"), E(1), K(":"), R("block"), R("otherwise")>> \in Seq(Symbols)
    BY <1>0, <1>b, <1>c
  <2> QED BY <1>0, <1>b, <1>c, <2>1, <2>2, YieldsRule, Zenon
<1>19. Yields(R("while_stmt"), <<K("while"), E(1), K(":"), R("block")>>)
  <2>1. <<R("while_stmt"), <<K("while"), E(1), K(":"), R("block")>>>> \in Rules
    BY Zenon DEF Rules, StatementRules
  <2>2. <<K("while"), E(1), K(":"), R("block")>> \in Seq(Symbols)
    BY <1>0, <1>b, <1>c
  <2> QED BY <1>0, <1>b, <1>c, <2>1, <2>2, YieldsRule, Zenon
<1>20. Yields(R("for_stmt"), <<K("for"), K("id"), K("in"), E(1), K(":"), R("block")>>)
  <2>1. <<R("for_stmt"), <<K("for"), K("id"), K("in"), E(1), K(":"), R("block")>>>> \in Rules
    BY Zenon DEF Rules, StatementRules
  <2>2. <<K("for"), K("id"), K("in"), E(1), K(":"), R("block")>> \in Seq(Symbols)
    BY <1>0, <1>b, <1>c
  <2> QED BY <1>0, <1>b, <1>c, <2>1, <2>2, YieldsRule, Zenon
<1>21. Yields(R("block"), <<K("NEWLINE"), K("INDENT"), R("stmt"), Many("stmt"), K("DEDENT")>>)
  <2>1. <<R("block"), <<K("NEWLINE"), K("INDENT"), R("stmt"), Many("stmt"), K("DEDENT")>>>> \in Rules
    BY Zenon DEF Rules, StatementRules
  <2>2. <<K("NEWLINE"), K("INDENT"), R("stmt"), Many("stmt"), K("DEDENT")>> \in Seq(Symbols)
    BY <1>0, <1>b, <1>c
  <2> QED BY <1>0, <1>b, <1>c, <2>1, <2>2, YieldsRule, Zenon
<1> QED BY <1>1, <1>2, <1>3, <1>4, <1>5, <1>6, <1>7, <1>8, <1>9, <1>10, <1>11, <1>12, <1>13, <1>14, <1>15, <1>16, <1>17, <1>18, <1>19, <1>20, <1>21

LEMMA ExpressionsYield ==
  /\ Yields(E(4), <<K("not"), E(4), Node("not")>>)
  /\ Yields(E(8), <<K("-"), E(8), Node("neg")>>)
  /\ Yields(E(8), <<R("cexpr")>>)
  /\ Yields(R("cexpr"), <<R("primary"), Many("postfix")>>)
  /\ Yields(R("primary"), <<K("id"), Node("x")>>)
  /\ Yields(R("primary"), <<K("lit"), Node("x")>>)
  /\ Yields(R("primary"), <<K("idstr"), Node("x")>>)
  /\ Yields(R("primary"), <<K("("), E(1), K(")")>>)
  /\ Yields(R("primary"), <<K("["), Opt("exprs"), K("]")>>)
  /\ Yields(R("postfix"), <<K("."), K("id")>>)
  /\ Yields(R("postfix"), <<K("["), E(1), K("]")>>)
  /\ Yields(R("postfix"), <<K("("), Opt("exprs"), K(")")>>)
  /\ Yields(R("exprs"), <<E(1), Many("next_expr")>>)
  /\ Yields(R("next_expr"), <<K(","), E(1)>>)
  /\ Yields(Rest(1), <<K("if"), E(2), K("else"), E(1), Node("if")>>)
<1> DEFINE comma == K(",")
<1>0. /\ K("(") \in Symbols /\ K(")") \in Symbols /\ K("-") \in Symbols
      /\ K(".") \in Symbols /\ K("[") \in Symbols /\ K("]") \in Symbols
      /\ K("else") \in Symbols /\ K("id") \in Symbols /\ K("idstr") \in Symbols
      /\ K("if") \in Symbols /\ K("lit") \in Symbols /\ K("not") \in Symbols
  BY SymbolTypes, Zenon DEF Tokens
<1>a. comma \in Symbols
  BY SymbolTypes, Zenon DEF Tokens
<1>b. /\ Many("next_expr") \in Symbols /\ Many("postfix") \in Symbols
      /\ Opt("exprs") \in Symbols /\ R("cexpr") \in Symbols
      /\ R("exprs") \in Symbols /\ R("next_expr") \in Symbols
      /\ R("postfix") \in Symbols /\ R("primary") \in Symbols
  BY SymbolTypes DEF Nonterminals
<1>c. /\ E(1) \in Symbols /\ E(2) \in Symbols /\ E(4) \in Symbols
      /\ E(8) \in Symbols /\ Node("if") \in Symbols /\ Node("neg") \in Symbols
      /\ Node("not") \in Symbols /\ Node("x") \in Symbols
      /\ Rest(1) \in Symbols
  BY SymbolTypes DEF NodeNames, Operators
<1> HIDE DEF comma
<1>1. Yields(E(4), <<K("not"), E(4), Node("not")>>)
  <2>1. <<E(4), <<K("not"), E(4), Node("not")>>>> \in Rules
    BY Zenon DEF Rules, ExpressionRules
  <2>2. <<K("not"), E(4), Node("not")>> \in Seq(Symbols)
    BY <1>0, <1>a, <1>b, <1>c
  <2> QED BY <1>0, <1>a, <1>b, <1>c, <2>1, <2>2, YieldsRule, Zenon
<1>2. Yields(E(8), <<K("-"), E(8), Node("neg")>>)
  <2>1. <<E(8), <<K("-"), E(8), Node("neg")>>>> \in Rules
    BY Zenon DEF Rules, ExpressionRules
  <2>2. <<K("-"), E(8), Node("neg")>> \in Seq(Symbols)
    BY <1>0, <1>a, <1>b, <1>c
  <2> QED BY <1>0, <1>a, <1>b, <1>c, <2>1, <2>2, YieldsRule, Zenon
<1>3. Yields(E(8), <<R("cexpr")>>)
  <2>1. <<E(8), <<R("cexpr")>>>> \in Rules
    BY Zenon DEF Rules, ExpressionRules
  <2>2. <<R("cexpr")>> \in Seq(Symbols)
    BY <1>0, <1>a, <1>b, <1>c
  <2> QED BY <1>0, <1>a, <1>b, <1>c, <2>1, <2>2, YieldsRule, Zenon
<1>4. Yields(R("cexpr"), <<R("primary"), Many("postfix")>>)
  <2>1. <<R("cexpr"), <<R("primary"), Many("postfix")>>>> \in Rules
    BY Zenon DEF Rules, ExpressionRules
  <2>2. <<R("primary"), Many("postfix")>> \in Seq(Symbols)
    BY <1>0, <1>a, <1>b, <1>c
  <2> QED BY <1>0, <1>a, <1>b, <1>c, <2>1, <2>2, YieldsRule, Zenon
<1>5. Yields(R("primary"), <<K("id"), Node("x")>>)
  <2>1. <<R("primary"), <<K("id"), Node("x")>>>> \in Rules
    BY Zenon DEF Rules, ExpressionRules
  <2>2. <<K("id"), Node("x")>> \in Seq(Symbols)
    BY <1>0, <1>a, <1>b, <1>c
  <2> QED BY <1>0, <1>a, <1>b, <1>c, <2>1, <2>2, YieldsRule, Zenon
<1>6. Yields(R("primary"), <<K("lit"), Node("x")>>)
  <2>1. <<R("primary"), <<K("lit"), Node("x")>>>> \in Rules
    BY Zenon DEF Rules, ExpressionRules
  <2>2. <<K("lit"), Node("x")>> \in Seq(Symbols)
    BY <1>0, <1>a, <1>b, <1>c
  <2> QED BY <1>0, <1>a, <1>b, <1>c, <2>1, <2>2, YieldsRule, Zenon
<1>7. Yields(R("primary"), <<K("idstr"), Node("x")>>)
  <2>1. <<R("primary"), <<K("idstr"), Node("x")>>>> \in Rules
    BY Zenon DEF Rules, ExpressionRules
  <2>2. <<K("idstr"), Node("x")>> \in Seq(Symbols)
    BY <1>0, <1>a, <1>b, <1>c
  <2> QED BY <1>0, <1>a, <1>b, <1>c, <2>1, <2>2, YieldsRule, Zenon
<1>8. Yields(R("primary"), <<K("("), E(1), K(")")>>)
  <2>1. <<R("primary"), <<K("("), E(1), K(")")>>>> \in Rules
    BY Zenon DEF Rules, ExpressionRules
  <2>2. <<K("("), E(1), K(")")>> \in Seq(Symbols)
    BY <1>0, <1>a, <1>b, <1>c
  <2> QED BY <1>0, <1>a, <1>b, <1>c, <2>1, <2>2, YieldsRule, Zenon
<1>9. Yields(R("primary"), <<K("["), Opt("exprs"), K("]")>>)
  <2>1. <<R("primary"), <<K("["), Opt("exprs"), K("]")>>>> \in Rules
    BY Zenon DEF Rules, ExpressionRules
  <2>2. <<K("["), Opt("exprs"), K("]")>> \in Seq(Symbols)
    BY <1>0, <1>a, <1>b, <1>c
  <2> QED BY <1>0, <1>a, <1>b, <1>c, <2>1, <2>2, YieldsRule, Zenon
<1>10. Yields(R("postfix"), <<K("."), K("id")>>)
  <2>1. <<R("postfix"), <<K("."), K("id")>>>> \in Rules
    BY Zenon DEF Rules, ExpressionRules
  <2>2. <<K("."), K("id")>> \in Seq(Symbols)
    BY <1>0, <1>a, <1>b, <1>c
  <2> QED BY <1>0, <1>a, <1>b, <1>c, <2>1, <2>2, YieldsRule, Zenon
<1>11. Yields(R("postfix"), <<K("["), E(1), K("]")>>)
  <2>1. <<R("postfix"), <<K("["), E(1), K("]")>>>> \in Rules
    BY Zenon DEF Rules, ExpressionRules
  <2>2. <<K("["), E(1), K("]")>> \in Seq(Symbols)
    BY <1>0, <1>a, <1>b, <1>c
  <2> QED BY <1>0, <1>a, <1>b, <1>c, <2>1, <2>2, YieldsRule, Zenon
<1>12. Yields(R("postfix"), <<K("("), Opt("exprs"), K(")")>>)
  <2>1. <<R("postfix"), <<K("("), Opt("exprs"), K(")")>>>> \in Rules
    BY Zenon DEF Rules, ExpressionRules
  <2>2. <<K("("), Opt("exprs"), K(")")>> \in Seq(Symbols)
    BY <1>0, <1>a, <1>b, <1>c
  <2> QED BY <1>0, <1>a, <1>b, <1>c, <2>1, <2>2, YieldsRule, Zenon
<1>13. Yields(R("exprs"), <<E(1), Many("next_expr")>>)
  <2>1. <<R("exprs"), <<E(1), Many("next_expr")>>>> \in Rules
    BY Zenon DEF Rules, ExpressionRules
  <2>2. <<E(1), Many("next_expr")>> \in Seq(Symbols)
    BY <1>0, <1>a, <1>b, <1>c
  <2> QED BY <1>0, <1>a, <1>b, <1>c, <2>1, <2>2, YieldsRule, Zenon
<1>14. Yields(R("next_expr"), <<K(","), E(1)>>)
  <2>1. <<R("next_expr"), <<K(","), E(1)>>>> \in Rules
    BY Zenon DEF Rules, ExpressionRules
  <2>2. <<comma, E(1)>> \in Seq(Symbols)
    BY <1>0, <1>a, <1>b, <1>c
  <2> QED BY <1>0, <1>a, <1>b, <1>c, <2>1, <2>2, YieldsRule, Zenon DEF comma
<1>15. Yields(Rest(1), <<K("if"), E(2), K("else"), E(1), Node("if")>>)
  <2>1. <<Rest(1), <<K("if"), E(2), K("else"), E(1), Node("if")>>>> \in Rules
    BY Zenon DEF Rules, ExpressionRules
  <2>2. <<K("if"), E(2), K("else"), E(1), Node("if")>> \in Seq(Symbols)
    BY <1>0, <1>a, <1>b, <1>c
  <2> QED BY <1>0, <1>a, <1>b, <1>c, <2>1, <2>2, YieldsRule, Zenon
<1> QED BY <1>1, <1>2, <1>3, <1>4, <1>5, <1>6, <1>7, <1>8, <1>9, <1>10, <1>11, <1>12, <1>13, <1>14, <1>15

\* What a repetition begins with.
LEMMA RepetitionsYield ==
  /\ Yields(Many("stmt"), <<R("stmt"), Many("stmt")>>)
  /\ Yields(Opt("params"), <<R("typed_var"), Many("next_param")>>)
  /\ Yields(Many("next_param"), <<K(","), R("typed_var"), Many("next_param")>>)
  /\ Yields(Opt("return_type"), <<K("->"), R("type")>>)
  /\ Yields(Opt("exprs"), <<E(1), Many("next_expr")>>)
  /\ Yields(Many("next_expr"), <<K(","), E(1), Many("next_expr")>>)
  /\ Yields(Many("assigned"), <<R("target"), K("="), Many("assigned")>>)
<1> DEFINE comma == K(",")
<1>0. /\ \A A \in {"stmt", "params", "next_param", "return_type", "exprs", "next_expr",
                   "assigned", "typed_var", "type", "target"} :
           A \in Nonterminals /\ R(A) \in Symbols /\ Many(A) \in Symbols
      /\ E(1) \in Symbols
  BY SymbolTypes DEF Nonterminals
<1>1. K("=") \in Symbols /\ comma \in Symbols
  BY SymbolTypes, Zenon DEF Tokens
<1>9. /\ comma \in Symbols /\ R("typed_var") \in Symbols /\ Many("next_param") \in Symbols
      /\ E(1) \in Symbols /\ Many("next_expr") \in Symbols
      /\ R("target") \in Symbols /\ K("=") \in Symbols /\ Many("assigned") \in Symbols
  BY <1>0, <1>1
<1>2. Yields(Many("stmt"), <<R("stmt"), Many("stmt")>>)
  <2>1. Then(R("stmt"), <<Many("stmt")>>) = <<R("stmt"), Many("stmt")>>
    BY <1>0, ThenTuples
  <2> QED BY <1>0, <2>1, YieldsMany
<1>3. Yields(Opt("params"), <<R("typed_var"), Many("next_param")>>)
  BY <1>0, YieldsOpt, DeclarationsYield, Zenon
<1>4. Yields(Opt("return_type"), <<K("->"), R("type")>>)
  BY <1>0, YieldsOpt, DeclarationsYield, Zenon
<1>5. Yields(Opt("exprs"), <<E(1), Many("next_expr")>>)
  BY <1>0, YieldsOpt, ExpressionsYield, Zenon
<1>6. Yields(Many("next_param"), <<comma, R("typed_var"), Many("next_param")>>)
  <2>1. Yields(Many("next_param"), <<comma, R("typed_var")>> \o <<Many("next_param")>>)
    BY <1>0, YieldsOneOfMany, DeclarationsYield, Zenon
  <2> HIDE DEF comma
  <2>2. <<comma, R("typed_var")>> \o <<Many("next_param")>> =
          <<comma, R("typed_var"), Many("next_param")>>
    BY <1>9, ThreeTuple
  <2> QED BY <2>1, <2>2
<1>7. Yields(Many("next_expr"), <<comma, E(1), Many("next_expr")>>)
  <2>1. Yields(Many("next_expr"), <<comma, E(1)>> \o <<Many("next_expr")>>)
    BY <1>0, YieldsOneOfMany, ExpressionsYield, Zenon
  <2> HIDE DEF comma
  <2>2. <<comma, E(1)>> \o <<Many("next_expr")>> = <<comma, E(1), Many("next_expr")>>
    BY <1>9, ThreeTuple
  <2> QED BY <2>1, <2>2
<1>8. Yields(Many("assigned"), <<R("target"), K("="), Many("assigned")>>)
  <2>1. Yields(Many("assigned"), <<R("target"), K("=")>> \o <<Many("assigned")>>)
    BY <1>0, YieldsOneOfMany, StatementsYield, Zenon
  <2> HIDE DEF comma
  <2>2. <<R("target"), K("=")>> \o <<Many("assigned")>> =
          <<R("target"), K("="), Many("assigned")>>
    <3>1. R("target") \in Symbols /\ K("=") \in Symbols /\ Many("assigned") \in Symbols
      BY <1>9
    <3> QED BY ONLY <3>1, ThreeTuple, Zenon
  <2> QED BY <2>1, <2>2
<1> QED BY <1>2, <1>3, <1>4, <1>5, <1>6, <1>7, <1>8, Zenon

\* A statement that begins with an expression.
LEMMA AssignmentsYield ==
  /\ Yields(R("simple_stmt"), <<E(1)>>)
  /\ Yields(R("simple_stmt"), <<R("target"), K("="), Many("assigned"), E(1)>>)
<1>0. /\ E(1) \in Symbols /\ R("target") \in Symbols /\ Many("assigned") \in Symbols
      /\ "assigned" \in Nonterminals
  BY SymbolTypes DEF Nonterminals
<1>1. K("=") \in Symbols
  BY SymbolTypes, Zenon DEF Tokens
<1>9. /\ R("target") \in Symbols /\ K("=") \in Symbols /\ Many("assigned") \in Symbols
      /\ E(1) \in Symbols
  BY <1>0, <1>1
<1>2. Yields(R("simple_stmt"), Then(Many("assigned"), <<E(1)>>)) /\ <<E(1)>> \in Seq(Symbols)
  <2>1. Then(Many("assigned"), <<E(1)>>) = <<Many("assigned"), E(1)>>
    BY <1>0, ThenTuples
  <2>2. Yields(R("simple_stmt"), <<Many("assigned"), E(1)>>)
    BY StatementsYield, Zenon
  <2> QED BY <1>0, <2>1, <2>2
<1>3. Yields(R("simple_stmt"), <<E(1)>>)
  <2>1. Yields(R("simple_stmt"), <<>> \o <<E(1)>>)
    BY <1>0, <1>2, YieldsMany, YieldsFirst, Zenon
  <2>2. <<>> \o <<E(1)>> = <<E(1)>>
    BY <1>2, EmptyConcat
  <2> QED BY <2>1, <2>2
<1>4. Yields(R("simple_stmt"), <<R("target"), K("="), Many("assigned"), E(1)>>)
  <2>1. Yields(R("simple_stmt"), <<R("target"), K("="), Many("assigned")>> \o <<E(1)>>)
    BY <1>2, RepetitionsYield, YieldsFirst, Zenon
  <2>2. <<R("target"), K("="), Many("assigned")>> \o <<E(1)>> =
          <<R("target"), K("="), Many("assigned"), E(1)>>
    BY <1>9, FourTuple
  <2> QED BY <2>1, <2>2
<1> QED BY <1>3, <1>4


-----------------------------------------------------------------------------
(* What the calls under way stand for.                                     *)

\* The rules of the procedures and loops that have one.
Called == [
  FuncDef |-> R("func_def"), ClassDef |-> R("class_def"),
  ClassBody |-> R("class_body"), VarDef |-> R("var_def"),
  TypedVar |-> R("typed_var"), Type |-> R("type"), Literal |-> R("literal"),
  Params |-> Opt("params"), MoreParams |-> Many("next_param"),
  ReturnType |-> Opt("return_type"), FuncBody |-> R("func_body"),
  GlobalDecl |-> R("global_decl"), NonLocalDecl |-> R("nonlocal_decl"),
  Stmt |-> R("stmt"), SimpleStmt |-> R("simple_stmt"), IfStmt |-> R("if_stmt"),
  ElifStmt |-> R("elif_stmt"), Else |-> R("otherwise"),
  WhileStmt |-> R("while_stmt"), ForStmt |-> R("for_stmt"), Block |-> R("block"),
  Elements |-> Opt("exprs"), Arguments |-> Opt("exprs"),
  MoreExprs |-> Many("next_expr")]
Continued == [
  declarations |-> Many("declaration"), statements |-> Many("stmt"),
  members |-> R("members"), moreMembers |-> Many("member"),
  globals |-> Many("local"), nonlocals |-> Many("local"), vars |-> Many("local"),
  block |-> Many("stmt")]
Sym(e) == IF e.kind = "loop" THEN Continued[e.name] ELSE Called[e.name]

\* The loops of levels m to n.
Rests(m, n) == [i \in 1 .. (IF m < n THEN 0 ELSE m - n + 1) |-> Rest(m + 1 - i)]

Postfixes == {P("PostfixOfTarget"), P("PostfixOfValue"), P("PostfixOfSame")}
Plain == {P(x) : x \in DOMAIN Called} \cup {L(x) : x \in Loops}

\* What is still to be derived, and whether only if the expression parsed last
\* can be assigned to.
Forecasts == Seq(Symbols) \X {"any", "target"}

\* With e before it, the forecast z becomes x.  What is to be a target is
\* parsed as an expression, and turns out to be one or not at its last
\* postfix.
Foresees(e, x, z) ==
  \/ e.kind = "try" /\ x = z
  \/ e.kind = "expect"
     /\ x = <<Then(K(e.name), z[1]), IF e.name = ")" THEN z[2] ELSE "any">>
  \/ e.kind = "level"
     /\ x = <<Then(IF z[2] = "any" THEN E(e.to) ELSE R("target"), z[1]), "any">>
  \/ e \in Plain /\ x = <<Then(Sym(e), z[1]), "any">>
  \/ e = P("SimpleStmt") /\ z[2] = "target"
     /\ x = <<Then(K("return"), Then(R("target"), z[1])), "any">>
  \/ e = P("Assignments")
     /\ x \in {<<z[1], "any">>,
               <<Then(K("="), Then(Many("assigned"), Then(E(1), z[1]))), "target">>}
  \/ e \in Postfixes /\ z[2] = "any" /\ x = <<Then(Many("postfix"), z[1]), "any">>
  \/ e \in Postfixes /\ z[2] = "target"
     /\ x \in {<<Then(Many("postfix"), Then(K("."), Then(K("id"), z[1]))), "any">>,
               <<Then(Many("postfix"),
                      Then(K("["), Then(E(1), Then(K("]"), z[1])))), "any">>}
  \/ e = P("PostfixOfTarget") /\ z[2] = "target" /\ x = <<z[1], "any">>
  \/ e = P("PostfixOfSame") /\ z[2] = "target" /\ x = z
  \/ e.kind = "more" /\ e.name = "primary"
     /\ x = IF z[2] = "any" THEN <<Rests(e.from, e.to) \o z[1], "any">> ELSE z
  \/ e.kind = "more" /\ e.name # "primary" /\ z[2] = "any"
     /\ x = <<Then(Node(e.name), (IF e.name = "if" THEN <<>> ELSE Rests(e.from, e.to)) \o z[1]),
              "any">>

\* With the entries u before it, z becomes x.
Predicts(u, x, z) ==
  \E h \in Seq(Forecasts) :
    /\ Len(h) = Len(u) + 1 /\ h[1] = x /\ h[Len(u) + 1] = z
    /\ \A i \in 1 .. Len(u) : Foresees(u[i], h[i], h[i + 1])

LEMMA PredictsTypes ==
  ASSUME NEW u \in Seq(Entries), NEW x, NEW z, Predicts(u, x, z)
  PROVE  x \in Forecasts /\ z \in Forecasts
<1>1. PICK h \in Seq(Forecasts) : Len(h) = Len(u) + 1 /\ h[1] = x /\ h[Len(u) + 1] = z
  BY Zenon DEF Predicts
<1>2. Len(u) \in Nat
  OBVIOUS
<1> QED BY <1>1, <1>2

\* The forecasts of a part of the stack.
LEMMA PredictsSplit ==
  ASSUME NEW u \in Seq(Entries), NEW s \in Seq(Entries), NEW x, NEW y,
         Predicts(u \o s, x, y)
  PROVE  \E z \in Forecasts : Predicts(u, x, z) /\ Predicts(s, z, y)
<1> DEFINE r == u \o s
           m == Len(u)
           n == Len(s)
<1>1. /\ r \in Seq(Entries) /\ Len(r) = m + n /\ m \in Nat /\ n \in Nat
      /\ \A i \in 1 .. m : r[i] = u[i]
      /\ \A i \in 1 .. n : r[m + i] = s[i]
  BY ConcatElements
<1> HIDE DEF r, m, n
<1>2. PICK h \in Seq(Forecasts) :
        /\ Len(h) = Len(r) + 1 /\ h[1] = x /\ h[Len(r) + 1] = y
        /\ \A i \in 1 .. Len(r) : Foresees(r[i], h[i], h[i + 1])
  BY Zenon DEF Predicts, r
<1> DEFINE a == SubSeq(h, 1, m + 1)
           b == SubSeq(h, m + 1, Len(h))
<1>3. /\ a \in Seq(Forecasts) /\ Len(a) = m + 1
      /\ \A i \in 1 .. m + 1 : a[i] = h[i]
  BY <1>1, <1>2
<1>4. /\ b \in Seq(Forecasts) /\ Len(b) = n + 1
      /\ \A i \in 1 .. n + 1 : b[i] = h[m + i]
  BY <1>1, <1>2
<1> HIDE DEF a, b
<1>5. Predicts(u, x, h[m + 1])
  <2>1. a[1] = x /\ a[m + 1] = h[m + 1]
    BY <1>1, <1>2, <1>3
  <2>2. ASSUME NEW i \in 1 .. m
        PROVE  Foresees(u[i], a[i], a[i + 1])
    <3>1. i \in 1 .. Len(r) /\ i \in 1 .. m + 1 /\ i + 1 \in 1 .. m + 1
      BY <1>1
    <3> QED BY <1>1, <1>2, <1>3, <3>1
  <2> QED BY <1>3, <2>1, <2>2 DEF Predicts, m
<1>6. Predicts(s, h[m + 1], y)
  <2>1. b[1] = h[m + 1] /\ b[n + 1] = y
    <3>1. 1 \in 1 .. n + 1 /\ n + 1 \in 1 .. n + 1 /\ m + (n + 1) = Len(r) + 1
      BY <1>1
    <3> QED BY <1>2, <1>4, <3>1
  <2>2. ASSUME NEW i \in 1 .. n
        PROVE  Foresees(s[i], b[i], b[i + 1])
    <3>1. /\ m + i \in 1 .. Len(r) /\ i \in 1 .. n + 1 /\ i + 1 \in 1 .. n + 1
          /\ m + (i + 1) = (m + i) + 1
      BY <1>1
    <3>2. Foresees(r[m + i], h[m + i], h[(m + i) + 1])
      BY <1>2, <3>1
    <3>3. r[m + i] = s[i] /\ b[i] = h[m + i] /\ b[i + 1] = h[m + (i + 1)]
      BY <1>1, <1>4, <3>1
    <3> QED BY <3>1, <3>2, <3>3
  <2> QED BY <1>4, <2>1, <2>2 DEF Predicts, n
<1>7. h[m + 1] \in Forecasts
  BY <1>1, <1>2
<1> QED BY <1>5, <1>6, <1>7

\* The forecasts with an entry more.
LEMMA PredictsMore ==
  ASSUME NEW e \in Entries, NEW s \in Seq(Entries), NEW x \in Forecasts, NEW z, NEW y,
         Foresees(e, x, z), Predicts(s, z, y)
  PROVE  Predicts(<<e>> \o s, x, y)
<1> DEFINE r == <<e>> \o s
           n == Len(s)
<1>1. /\ Len(r) = n + 1 /\ n \in Nat /\ r[1] = e
      /\ \A i \in 1 .. n : r[1 + i] = s[i]
  <2>1. <<e>> \in Seq(Entries) /\ Len(<<e>>) = 1 /\ <<e>>[1] = e
    OBVIOUS
  <2>2. /\ Len(r) = Len(<<e>>) + Len(s)
        /\ \A i \in 1 .. Len(<<e>>) : r[i] = <<e>>[i]
        /\ \A i \in 1 .. Len(s) : r[Len(<<e>>) + i] = s[i]
    BY <2>1, ConcatElements
  <2> HIDE DEF r
  <2> QED BY <2>1, <2>2
<1> HIDE DEF r, n
<1>2. PICK h \in Seq(Forecasts) :
        /\ Len(h) = n + 1 /\ h[1] = z /\ h[n + 1] = y
        /\ \A i \in 1 .. n : Foresees(s[i], h[i], h[i + 1])
  BY Zenon DEF Predicts, n
<1> DEFINE g == <<x>> \o h
<1>3. /\ g \in Seq(Forecasts) /\ Len(g) = n + 2 /\ g[1] = x
      /\ \A i \in 1 .. n + 1 : g[1 + i] = h[i]
  <2>1. <<x>> \in Seq(Forecasts) /\ Len(<<x>>) = 1 /\ <<x>>[1] = x
    OBVIOUS
  <2>2. /\ g \in Seq(Forecasts) /\ Len(g) = Len(<<x>>) + Len(h)
        /\ \A i \in 1 .. Len(<<x>>) : g[i] = <<x>>[i]
        /\ \A i \in 1 .. Len(h) : g[Len(<<x>>) + i] = h[i]
    BY <2>1, ConcatElements
  <2> HIDE DEF g
  <2> QED BY <1>1, <1>2, <2>1, <2>2
<1> HIDE DEF g
<1>4. ASSUME NEW i \in 1 .. Len(r)
      PROVE  Foresees(r[i], g[i], g[i + 1])
  <2>1. CASE i = 1
    <3>1. g[1 + 1] = z
      BY <1>1, <1>2, <1>3
    <3> QED BY <1>1, <1>3, <2>1, <3>1
  <2>2. CASE i # 1
    <3>1. /\ i - 1 \in 1 .. n /\ 1 + (i - 1) = i /\ (i - 1) + 1 = i
          /\ i - 1 \in 1 .. n + 1 /\ i \in 1 .. n + 1
      BY <1>1, <2>2
    <3>2. Foresees(s[i - 1], h[i - 1], h[i])
      BY <1>2, <3>1
    <3>3. r[i] = s[i - 1] /\ g[i] = h[i - 1] /\ g[1 + i] = h[i] /\ i + 1 = 1 + i
      BY <1>1, <1>3, <3>1
    <3> QED BY <3>2, <3>3
  <2> QED BY <2>1, <2>2
<1>5. g[Len(r) + 1] = y /\ Len(g) = Len(r) + 1
  <2>1. Len(r) + 1 = 1 + (n + 1) /\ n + 1 \in 1 .. n + 1
    BY <1>1
  <2> QED BY <1>1, <1>2, <1>3, <2>1
<1> QED BY <1>3, <1>4, <1>5 DEF Predicts, r


\* Lists of entries.
LEMMA PredictsNone ==
  ASSUME NEW x, NEW z, Predicts(<<>>, x, z)
  PROVE  x = z
<1>1. Len(<<>>) = 0
  OBVIOUS
<1> QED BY <1>1 DEF Predicts

LEMMA PredictsOne ==
  ASSUME NEW a, NEW x, NEW z, Predicts(<<a>>, x, z)
  PROVE  Foresees(a, x, z)
<1> DEFINE u == <<a>>
<1>1. Len(u) = 1 /\ u[1] = a
  OBVIOUS
<1> HIDE DEF u
<1>2. PICK h \in Seq(Forecasts) :
        /\ Len(h) = Len(u) + 1 /\ h[1] = x /\ h[Len(u) + 1] = z
        /\ \A i \in 1 .. Len(u) : Foresees(u[i], h[i], h[i + 1])
  BY Zenon DEF Predicts, u
<1>3. Foresees(u[1], h[1], h[1 + 1]) /\ Len(u) + 1 = 1 + 1
  BY <1>1, <1>2
<1> QED BY <1>1, <1>2, <1>3

LEMMA PredictsTwo ==
  ASSUME NEW a, NEW b, NEW x, NEW z, Predicts(<<a, b>>, x, z)
  PROVE  \E y \in Forecasts : Foresees(a, x, y) /\ Foresees(b, y, z)
<1> DEFINE u == <<a, b>>
<1>1. Len(u) = 2 /\ u[1] = a /\ u[2] = b
  OBVIOUS
<1> HIDE DEF u
<1>2. PICK h \in Seq(Forecasts) :
        /\ Len(h) = Len(u) + 1 /\ h[1] = x /\ h[Len(u) + 1] = z
        /\ \A i \in 1 .. Len(u) : Foresees(u[i], h[i], h[i + 1])
  BY Zenon DEF Predicts, u
<1>3. /\ Foresees(u[1], h[1], h[2]) /\ Foresees(u[2], h[2], h[3]) /\ h[3] = z
      /\ h[2] \in Forecasts
  <2>1. 1 + 1 = 2 /\ 2 + 1 = 3 /\ 1 \in 1 .. Len(u) /\ 2 \in 1 .. Len(u)
    BY <1>1
  <2>2. Foresees(u[1], h[1], h[1 + 1]) /\ Foresees(u[2], h[2], h[2 + 1])
    BY <1>2, <2>1
  <2> QED BY <1>1, <1>2, <2>1, <2>2
<1> QED BY <1>1, <1>2, <1>3

LEMMA PredictsThree ==
  ASSUME NEW a, NEW b, NEW c, NEW x, NEW z, Predicts(<<a, b, c>>, x, z)
  PROVE  \E y, v \in Forecasts : Foresees(a, x, y) /\ Foresees(b, y, v) /\ Foresees(c, v, z)
<1> DEFINE u == <<a, b, c>>
<1>1. Len(u) = 3 /\ u[1] = a /\ u[2] = b /\ u[3] = c
  OBVIOUS
<1> HIDE DEF u
<1>2. PICK h \in Seq(Forecasts) :
        /\ Len(h) = Len(u) + 1 /\ h[1] = x /\ h[Len(u) + 1] = z
        /\ \A i \in 1 .. Len(u) : Foresees(u[i], h[i], h[i + 1])
  BY Zenon DEF Predicts, u
<1>3. /\ Foresees(u[1], h[1], h[2]) /\ Foresees(u[2], h[2], h[3])
      /\ Foresees(u[3], h[3], h[4]) /\ h[4] = z
      /\ h[2] \in Forecasts /\ h[3] \in Forecasts
  <2>1. /\ 1 + 1 = 2 /\ 2 + 1 = 3 /\ 3 + 1 = 4
        /\ 1 \in 1 .. Len(u) /\ 2 \in 1 .. Len(u) /\ 3 \in 1 .. Len(u)
    BY <1>1
  <2>2. /\ Foresees(u[1], h[1], h[1 + 1]) /\ Foresees(u[2], h[2], h[2 + 1])
        /\ Foresees(u[3], h[3], h[3 + 1])
    BY <1>2, <2>1
  <2> QED BY <1>1, <1>2, <2>1, <2>2
<1> QED BY <1>1, <1>2, <1>3

LEMMA PredictsFour ==
  ASSUME NEW a, NEW b, NEW c, NEW d, NEW x, NEW z, Predicts(<<a, b, c, d>>, x, z)
  PROVE  \E y, v, w \in Forecasts :
           Foresees(a, x, y) /\ Foresees(b, y, v) /\ Foresees(c, v, w) /\ Foresees(d, w, z)
<1> DEFINE u == <<a, b, c, d>>
<1>1. Len(u) = 4 /\ u[1] = a /\ u[2] = b /\ u[3] = c /\ u[4] = d
  OBVIOUS
<1> HIDE DEF u
<1>2. PICK h \in Seq(Forecasts) :
        /\ Len(h) = Len(u) + 1 /\ h[1] = x /\ h[Len(u) + 1] = z
        /\ \A i \in 1 .. Len(u) : Foresees(u[i], h[i], h[i + 1])
  BY Zenon DEF Predicts, u
<1>3. /\ Foresees(u[1], h[1], h[2]) /\ Foresees(u[2], h[2], h[3])
      /\ Foresees(u[3], h[3], h[4]) /\ Foresees(u[4], h[4], h[5]) /\ h[5] = z
      /\ h[2] \in Forecasts /\ h[3] \in Forecasts /\ h[4] \in Forecasts
  <2>1. /\ 1 + 1 = 2 /\ 2 + 1 = 3 /\ 3 + 1 = 4 /\ 4 + 1 = 5
        /\ 1 \in 1 .. Len(u) /\ 2 \in 1 .. Len(u) /\ 3 \in 1 .. Len(u) /\ 4 \in 1 .. Len(u)
    BY <1>1
  <2>2. /\ Foresees(u[1], h[1], h[1 + 1]) /\ Foresees(u[2], h[2], h[2 + 1])
        /\ Foresees(u[3], h[3], h[3 + 1]) /\ Foresees(u[4], h[4], h[4 + 1])
    BY <1>2, <2>1
  <2> QED BY <1>1, <1>2, <2>1, <2>2
<1> QED BY <1>1, <1>2, <1>3

\* What each entry foresees.
LEMMA KindsApart ==
  /\ \A e \in Plain : e.kind \in {"call", "loop"} /\ e \notin Postfixes /\ e # P("Assignments")
  /\ \A e \in Postfixes : e.kind = "call" /\ e # P("Assignments") /\ e # P("SimpleStmt")
  /\ P("Assignments").kind = "call" /\ P("SimpleStmt").kind = "call"
  /\ P("Assignments") # P("SimpleStmt")
BY DEF Plain, Postfixes, Called, P, L, Entry

LEMMA ForeseesToken ==
  ASSUME NEW tok, NEW x, NEW z
  PROVE  Foresees(T(tok), x, z) <=>
           x = <<Then(K(tok), z[1]), IF tok = ")" THEN z[2] ELSE "any">>
<1> DEFINE e == T(tok)
<1>1. e.kind = "expect" /\ e.name = tok
  BY DEF T, Entry
<1> HIDE DEF e
<1>2. e \notin Plain /\ e \notin Postfixes /\ e # P("Assignments") /\ e # P("SimpleStmt")
  BY <1>1, KindsApart
<1>3. e # P("PostfixOfTarget") /\ e # P("PostfixOfSame")
  BY <1>2 DEF Postfixes
<1>4. Foresees(e, x, z) <=>
           x = <<Then(K(tok), z[1]), IF tok = ")" THEN z[2] ELSE "any">>
  BY <1>1, <1>2, <1>3 DEF Foresees
<1> QED BY <1>4 DEF e

LEMMA ForeseesTry ==
  ASSUME NEW r, NEW x, NEW z
  PROVE  Foresees(Try(r), x, z) <=> x = z
<1> DEFINE e == Try(r)
<1>1. e.kind = "try"
  BY DEF Try, Entry
<1> HIDE DEF e
<1>2. e \notin Plain /\ e \notin Postfixes /\ e # P("Assignments") /\ e # P("SimpleStmt")
  BY <1>1, KindsApart
<1>3. e # P("PostfixOfTarget") /\ e # P("PostfixOfSame")
  BY <1>2 DEF Postfixes
<1>4. Foresees(e, x, z) <=> x = z
  BY <1>1, <1>2, <1>3 DEF Foresees
<1> QED BY <1>4 DEF e

LEMMA ForeseesLevel ==
  ASSUME NEW e, e.kind = "level", NEW x, NEW z
  PROVE  Foresees(e, x, z) <=>
           x = <<Then(IF z[2] = "any" THEN E(e.to) ELSE R("target"), z[1]), "any">>
<1>2. e \notin Plain /\ e \notin Postfixes /\ e # P("Assignments") /\ e # P("SimpleStmt")
  BY KindsApart
<1>3. e # P("PostfixOfTarget") /\ e # P("PostfixOfSame")
  BY <1>2 DEF Postfixes
<1> QED BY <1>2, <1>3 DEF Foresees

LEMMA ForeseesPlain ==
  ASSUME NEW e \in Plain, NEW x, NEW z
  PROVE  Foresees(e, x, z) <=>
           \/ x = <<Then(Sym(e), z[1]), "any">>
           \/ e = P("SimpleStmt") /\ z[2] = "target"
              /\ x = <<Then(K("return"), Then(R("target"), z[1])), "any">>
<1>2. e \notin Postfixes /\ e # P("Assignments") /\ e.kind \in {"call", "loop"}
  BY KindsApart
<1>3. e # P("PostfixOfTarget") /\ e # P("PostfixOfSame")
  BY <1>2 DEF Postfixes
<1> QED BY <1>2, <1>3 DEF Foresees

LEMMA ForeseesAssignments ==
  ASSUME NEW x, NEW z
  PROVE  Foresees(P("Assignments"), x, z) <=>
           \/ x = <<z[1], "any">>
           \/ x = <<Then(K("="), Then(Many("assigned"), Then(E(1), z[1]))), "target">>
<1> DEFINE e == P("Assignments")
<1>1. e \notin Postfixes /\ e # P("SimpleStmt") /\ e.kind = "call" /\ e \notin Plain
  BY KindsApart
<1>2. e # P("PostfixOfTarget") /\ e # P("PostfixOfSame")
  BY <1>1 DEF Postfixes
<1>3. e = P("Assignments")
  OBVIOUS
<1> HIDE DEF e
<1>4. Foresees(e, x, z) <=>
           \/ x = <<z[1], "any">>
           \/ x = <<Then(K("="), Then(Many("assigned"), Then(E(1), z[1]))), "target">>
  BY <1>1, <1>2, <1>3, Zenon DEF Foresees
<1> QED BY <1>4 DEF e


LEMMA SymOfCalled ==
  /\ Sym(P("FuncDef")) = R("func_def") /\ Sym(P("ClassDef")) = R("class_def")
  /\ Sym(P("ClassBody")) = R("class_body") /\ Sym(P("VarDef")) = R("var_def")
  /\ Sym(P("TypedVar")) = R("typed_var") /\ Sym(P("Type")) = R("type")
  /\ Sym(P("Literal")) = R("literal") /\ Sym(P("Params")) = Opt("params")
  /\ Sym(P("MoreParams")) = Many("next_param")
  /\ Sym(P("ReturnType")) = Opt("return_type") /\ Sym(P("FuncBody")) = R("func_body")
  /\ Sym(P("GlobalDecl")) = R("global_decl")
  /\ Sym(P("NonLocalDecl")) = R("nonlocal_decl")
  /\ Sym(P("Stmt")) = R("stmt") /\ Sym(P("SimpleStmt")) = R("simple_stmt")
  /\ Sym(P("IfStmt")) = R("if_stmt") /\ Sym(P("ElifStmt")) = R("elif_stmt")
  /\ Sym(P("Else")) = R("otherwise") /\ Sym(P("WhileStmt")) = R("while_stmt")
  /\ Sym(P("ForStmt")) = R("for_stmt") /\ Sym(P("Block")) = R("block")
  /\ Sym(P("Elements")) = Opt("exprs") /\ Sym(P("Arguments")) = Opt("exprs")
  /\ Sym(P("MoreExprs")) = Many("next_expr")
<1>1. \A x : P(x).kind = "call" /\ P(x).name = x
  BY DEF P, Entry
<1>2. \A x : Sym(P(x)) = Called[x]
  BY <1>1 DEF Sym
<1> QED BY <1>2 DEF Called

LEMMA SymOfContinued ==
  /\ Sym(L("declarations")) = Many("declaration")
  /\ Sym(L("statements")) = Many("stmt") /\ Sym(L("members")) = R("members")
  /\ Sym(L("moreMembers")) = Many("member") /\ Sym(L("globals")) = Many("local")
  /\ Sym(L("nonlocals")) = Many("local") /\ Sym(L("vars")) = Many("local")
  /\ Sym(L("block")) = Many("stmt")
<1>1. \A x : L(x).kind = "loop" /\ L(x).name = x
  BY DEF L, Entry
<1>2. \A x : Sym(L(x)) = Continued[x]
  BY <1>1 DEF Sym
<1> QED BY <1>2 DEF Continued

Callable ==
  {"FuncDef", "ClassDef", "ClassBody", "VarDef", "TypedVar", "Type", "Literal",
   "Params", "MoreParams", "ReturnType", "FuncBody", "GlobalDecl",
   "NonLocalDecl", "Stmt", "SimpleStmt", "IfStmt", "ElifStmt", "Else",
   "WhileStmt", "ForStmt", "Block", "Elements", "Arguments", "MoreExprs"}

LEMMA PlainIs ==
  /\ \A x \in Callable : P(x) \in Plain
  /\ \A x \in Loops : L(x) \in Plain
  /\ \A e \in Plain : (\E x \in Callable : e = P(x)) \/ (\E x \in Loops : e = L(x))
<1>1. DOMAIN Called = Callable
  BY DEF Called, Callable
<1> QED BY <1>1, Zenon DEF Plain

LEMMA SymType ==
  ASSUME NEW e \in Plain
  PROVE  Sym(e) \in Symbols
<1>1. \A A \in Nonterminals : R(A) \in Symbols /\ Many(A) \in Symbols /\ Opt(A) \in Symbols
  BY SymbolTypes
<1>2. /\ R("func_def") \in Symbols /\ R("class_def") \in Symbols
      /\ R("class_body") \in Symbols /\ R("var_def") \in Symbols
      /\ R("typed_var") \in Symbols /\ R("type") \in Symbols
      /\ R("literal") \in Symbols /\ Opt("params") \in Symbols
      /\ Many("next_param") \in Symbols /\ Opt("return_type") \in Symbols
      /\ R("func_body") \in Symbols /\ R("global_decl") \in Symbols
      /\ R("nonlocal_decl") \in Symbols /\ R("stmt") \in Symbols
      /\ R("simple_stmt") \in Symbols /\ R("if_stmt") \in Symbols
      /\ R("elif_stmt") \in Symbols /\ R("otherwise") \in Symbols
      /\ R("while_stmt") \in Symbols /\ R("for_stmt") \in Symbols
      /\ R("block") \in Symbols /\ Opt("exprs") \in Symbols
      /\ Many("next_expr") \in Symbols
  BY <1>1, Zenon DEF Nonterminals
<1>3. /\ Many("declaration") \in Symbols /\ Many("stmt") \in Symbols
      /\ R("members") \in Symbols /\ Many("member") \in Symbols
      /\ Many("local") \in Symbols
  BY <1>1, Zenon DEF Nonterminals
<1>4. ASSUME NEW x \in Callable
      PROVE  Sym(P(x)) \in Symbols
  BY <1>2, SymOfCalled DEF Callable
<1>5. ASSUME NEW x \in Loops
      PROVE  Sym(L(x)) \in Symbols
  BY <1>3, SymOfContinued DEF Loops
<1> QED BY <1>4, <1>5, PlainIs

\* Entries that stand for a symbol: after what is wanted as a target they do
\* so too, but for a bracket, an expression and a statement.
Words == {T(tok) : tok \in Tokens} \cup Plain \cup {Level(n) : n \in 1 .. 8}
Word(e) == CASE e.kind = "expect" -> K(e.name) [] e.kind = "level" -> E(e.to) [] OTHER -> Sym(e)
Settled == {T(tok) : tok \in Tokens \ {")"}} \cup (Plain \ {P("SimpleStmt")})

LEMMA WordOf ==
  /\ \A tok : Word(T(tok)) = K(tok)
  /\ \A n : Word(Level(n)) = E(n) /\ Level(n).kind = "level" /\ Level(n).to = n
  /\ \A e \in Plain : Word(e) = Sym(e)
<1>1. \A tok : T(tok).kind = "expect" /\ T(tok).name = tok
  BY DEF T, Entry
<1>2. \A n : Level(n).kind = "level" /\ Level(n).to = n
  BY DEF Level, Entry
<1>3. \A e \in Plain : e.kind # "expect" /\ e.kind # "level"
  BY KindsApart
<1> QED BY <1>1, <1>2, <1>3 DEF Word

LEMMA WordForesees ==
  ASSUME NEW e \in Words, NEW x, NEW z, Foresees(e, x, z), z[2] = "any" \/ e \in Settled
  PROVE  Word(e) \in Symbols /\ x = <<Then(Word(e), z[1]), "any">>
<1>1. CASE \E tok \in Tokens : e = T(tok)
  <2>1. PICK tok \in Tokens : e = T(tok)
    BY <1>1
  <2>2. x = <<Then(K(tok), z[1]), IF tok = ")" THEN z[2] ELSE "any">>
    BY <2>1, ForeseesToken, Zenon
  <2>3. tok = ")" => z[2] = "any"
    <3>1. T(tok).name = tok /\ T(tok).kind = "expect" /\ \A y : T(y).name = y
      BY DEF T, Entry
    <3> QED BY <2>1, <3>1, KindsApart DEF Settled
  <2> QED BY <2>1, <2>2, <2>3, WordOf, SymbolTypes, Zenon
<1>2. CASE e \in Plain
  <2>1. z[2] = "target" => e # P("SimpleStmt")
    <3>1. \A tok : T(tok).kind = "expect"
      BY DEF T, Entry
    <3> QED BY <1>2, <3>1, KindsApart DEF Settled
  <2> QED BY <1>2, <2>1, ForeseesPlain, WordOf, SymType
<1>3. CASE \E n \in 1 .. 8 : e = Level(n)
  <2>1. PICK n \in 1 .. 8 : e = Level(n)
    BY <1>3
  <2>2. z[2] = "any"
    <3>1. \A tok : T(tok).kind = "expect"
      BY DEF T, Entry
    <3> QED BY <2>1, <3>1, WordOf, KindsApart DEF Settled
  <2>3. x = <<Then(E(n), z[1]), "any">>
    <3>1. e.kind = "level" /\ e.to = n
      BY <2>1, WordOf
    <3> QED BY <2>2, <3>1, ForeseesLevel
  <2> QED BY <2>1, <2>3, WordOf, SymbolTypes, Zenon
<1> QED BY <1>1, <1>2, <1>3 DEF Words


\* The entries u stand for the symbols w, and leave no loop of an operator.
Spells(u, w) ==
  /\ u \in Seq(Entries) /\ w \in Seq(Symbols)
  /\ \A i \in 1 .. Len(u) : u[i].kind # "more"
  /\ \A x, z : Predicts(u, x, z) => x[1] = w \o z[1]

LEMMA Suffixes ==
  ASSUME NEW S, NEW w \in Seq(S), w # <<>>
  PROVE  /\ SubSeq(w, 1, Len(w)) = w
         /\ SubSeq(w, Len(w), Len(w)) = <<w[Len(w)]>>
         /\ \A k \in 1 .. Len(w) :
              /\ SubSeq(w, k, Len(w)) \in Seq(S)
              /\ k < Len(w) => SubSeq(w, k, Len(w)) = <<w[k]>> \o SubSeq(w, k + 1, Len(w))
<1> DEFINE n == Len(w)
<1>1. n \in Nat /\ n > 0
  OBVIOUS
<1>2. ASSUME NEW k \in 1 .. n + 1
      PROVE  /\ SubSeq(w, k, n) \in Seq(S) /\ Len(SubSeq(w, k, n)) = n - k + 1
             /\ \A i \in 1 .. n - k + 1 : SubSeq(w, k, n)[i] = w[k + i - 1]
  BY <1>1
<1>3. ASSUME NEW k \in 1 .. n, k < n
      PROVE  SubSeq(w, k, n) = <<w[k]>> \o SubSeq(w, k + 1, n)
  <2> DEFINE r == SubSeq(w, k, n)
             q == SubSeq(w, k + 1, n)
  <2>1. k \in 1 .. n + 1 /\ k + 1 \in 1 .. n + 1 /\ k \in Nat
    BY <1>1
  <2>2. /\ r \in Seq(S) /\ Len(r) = n - k + 1
        /\ \A i \in 1 .. n - k + 1 : r[i] = w[k + i - 1]
    BY <1>2, <2>1
  <2>3. /\ q \in Seq(S) /\ Len(q) = n - (k + 1) + 1
        /\ \A i \in 1 .. n - (k + 1) + 1 : q[i] = w[k + 1 + i - 1]
    BY <1>2, <2>1
  <2> HIDE DEF r, q
  <2>4. r[1] = w[k] /\ Len(r) = Len(q) + 1 /\ w[k] \in S
    <3>1. 1 \in 1 .. n - k + 1 /\ k + 1 - 1 = k /\ n - k + 1 = (n - (k + 1) + 1) + 1
      BY <1>1, <2>1
    <3>2. w[k] \in S
      OBVIOUS
    <3>3. r[1] = w[k + 1 - 1]
      BY <2>2, <3>1
    <3> QED BY <2>2, <2>3, <3>1, <3>2, <3>3
  <2>5. ASSUME NEW i \in 1 .. Len(q)
        PROVE  r[i + 1] = q[i]
    <3>1. i + 1 \in 1 .. n - k + 1 /\ i \in 1 .. n - (k + 1) + 1
          /\ k + (i + 1) - 1 = k + 1 + i - 1
      BY <1>1, <1>3, <2>1, <2>3
    <3> QED BY <2>2, <2>3, <3>1
  <2>6. <<w[k]>> \o q = r
    BY <2>2, <2>3, <2>4, <2>5, ConsIs, Zenon
  <2> QED BY <2>6 DEF r, q
<1>4. SubSeq(w, 1, n) = w /\ SubSeq(w, n, n) = <<w[n]>>
  <2>1. SubSeq(w, 1, n) = w
    BY <1>1
  <2>2. SubSeq(w, n, n) = <<w[n]>>
    <3> DEFINE r == SubSeq(w, n, n)
               q == <<w[n]>>
    <3>1. q \in Seq(S) /\ Len(q) = 1 /\ q[1] = w[n]
      BY <1>1
    <3>2. n \in 1 .. n + 1 /\ n - n + 1 = 1 /\ n + 1 - 1 = n
      BY <1>1
    <3>3. r \in Seq(S) /\ Len(r) = n - n + 1 /\ \A i \in 1 .. n - n + 1 : r[i] = w[n + i - 1]
      BY <1>2, <3>2
    <3> HIDE DEF r, q
    <3>4. \A i \in 1 .. 1 : r[i] = q[i]
      BY <3>1, <3>2, <3>3
    <3>5. r = q
      BY <3>1, <3>2, <3>3, <3>4, SeqEqual
    <3> QED BY <3>5 DEF r, q
  <2> QED BY <2>1, <2>2
<1>5. \A k \in 1 .. n : SubSeq(w, k, n) \in Seq(S)
  BY <1>1, <1>2
<1> QED BY <1>3, <1>4, <1>5

LEMMA Spelling ==
  ASSUME NEW u \in Seq(Entries), NEW w \in Seq(Symbols), u # <<>>, Len(w) = Len(u),
         \A i \in 1 .. Len(u) : u[i] \in Words /\ w[i] = Word(u[i]),
         u[Len(u)] \in Settled
  PROVE  Spells(u, w)
<1>0. \A e \in Words : e.kind # "more"
  <2>1. \A tok : T(tok).kind = "expect"
    BY DEF T, Entry
  <2> QED BY <2>1, WordOf, KindsApart DEF Words
<1> SUFFICES ASSUME NEW x, NEW z, Predicts(u, x, z)
             PROVE  x[1] = w \o z[1]
  BY <1>0 DEF Spells
<1> DEFINE n == Len(u)
<1>1. n \in Nat /\ n > 0 /\ Len(w) = n
  OBVIOUS
<1> HIDE DEF n
<1>2. PICK h \in Seq(Forecasts) :
        /\ Len(h) = n + 1 /\ h[1] = x /\ h[n + 1] = z
        /\ \A i \in 1 .. n : Foresees(u[i], h[i], h[i + 1])
  BY Zenon DEF Predicts, n
<1> DEFINE f == z[1]
<1>3. f \in Seq(Symbols)
  <2>1. n + 1 \in 1 .. Len(h)
    BY <1>1, <1>2
  <2>2. z \in Forecasts
    BY <1>2, <2>1
  <2> QED BY <2>2 DEF Forecasts
<1> DEFINE v(k) == SubSeq(w, k, n)
           Good(k) == h[k] = <<v(k) \o f, "any">>
           Bad == {j \in Nat : j < n /\ ~Good(n - j)}
<1>4. /\ v(1) = w /\ v(n) = <<w[n]>>
      /\ \A k \in 1 .. n : /\ v(k) \in Seq(Symbols)
                           /\ k < n => v(k) = <<w[k]>> \o v(k + 1)
  <2>1. w # <<>>
    BY <1>1
  <2>2. /\ SubSeq(w, 1, Len(w)) = w
        /\ SubSeq(w, Len(w), Len(w)) = <<w[Len(w)]>>
        /\ \A k \in 1 .. Len(w) :
              /\ SubSeq(w, k, Len(w)) \in Seq(Symbols)
              /\ k < Len(w) => SubSeq(w, k, Len(w)) = <<w[k]>> \o SubSeq(w, k + 1, Len(w))
    BY <2>1, Suffixes, Zenon
  <2>3. Len(w) = n
    BY <1>1
  <2> QED BY <2>2, <2>3
<1> HIDE DEF f, v
<1>5. ASSUME NEW k \in 1 .. n, k < n => Good(k + 1)
      PROVE  Good(k)
  <2>1. Foresees(u[k], h[k], h[k + 1]) /\ u[k] \in Words /\ w[k] = Word(u[k])
    BY <1>2 DEF n
  <2>2. CASE k = n
    <3>1. u[k] \in Settled /\ h[k + 1] = z
      BY <1>2, <2>2 DEF n
    <3>2. w[k] \in Symbols /\ h[k] = <<Then(w[k], h[k + 1][1]), "any">>
      <4>1. /\ Word(u[k]) \in Symbols
            /\ h[k] = <<Then(Word(u[k]), h[k + 1][1]), "any">>
        BY <2>1, <3>1, WordForesees
      <4> QED BY <2>1, <4>1
    <3>3. Then(w[k], h[k + 1][1]) = v(k) \o f
      BY <1>4, <2>2, <3>1, Zenon DEF Then, f
    <3> QED BY <3>2, <3>3
  <2>3. CASE k < n
    <3>1. h[k + 1] = <<v(k + 1) \o f, "any">>
      BY <1>5, <2>3
    <3>2. h[k + 1][1] = v(k + 1) \o f /\ h[k + 1][2] = "any"
      BY <3>1
    <3>3. w[k] \in Symbols /\ h[k] = <<Then(w[k], h[k + 1][1]), "any">>
      <4>1. /\ Word(u[k]) \in Symbols
            /\ h[k] = <<Then(Word(u[k]), h[k + 1][1]), "any">>
        BY <2>1, <3>2, WordForesees
      <4> QED BY <2>1, <4>1
    <3>4. v(k) = Then(w[k], v(k + 1)) /\ v(k + 1) \in Seq(Symbols)
      <4>1. k + 1 \in 1 .. n
        BY <1>1, <2>3
      <4> QED BY <1>4, <2>3, <4>1 DEF Then
    <3>5. Then(w[k], v(k + 1)) \o f = Then(w[k], v(k + 1) \o f)
      BY <1>3, <3>3, <3>4, ThenConcat, Zenon
    <3>6. Then(w[k], h[k + 1][1]) = v(k) \o f
      BY <3>2, <3>4, <3>5, Zenon
    <3> QED BY <3>3, <3>6, Zenon
  <2> QED BY <1>1, <2>2, <2>3
<1> HIDE DEF Good
<1>6. Bad = {}
  <2> SUFFICES ASSUME Bad # {} PROVE FALSE
    OBVIOUS
  <2>1. PICK j \in Bad : \A i \in Bad : j <= i
    <3>1. Bad \in SUBSET Nat
      OBVIOUS
    <3> HIDE DEF Bad
    <3> QED BY <3>1, LeastNat, Zenon
  <2>2. j \in Nat /\ j < n /\ ~Good(n - j)
    BY <2>1
  <2>3. n - j \in 1 .. n /\ (n - j < n => j - 1 \in Nat /\ j - 1 < n /\ n - (j - 1) = n - j + 1
                                          /\ j - 1 < j)
    BY <1>1, <2>2
  <2>4. n - j < n => j - 1 \notin Bad
    BY <2>1, <2>2, <2>3
  <2>5. n - j < n => Good(n - (j - 1))
    BY <2>3, <2>4
  <2>6. n - j < n => Good(n - j + 1)
    BY <2>3, <2>5
  <2> QED BY <1>5, <2>2, <2>3, <2>6
<1>7. Good(1)
  <2>1. n - 1 \in Nat /\ n - 1 < n /\ n - (n - 1) = 1
    BY <1>1
  <2>2. Good(n - (n - 1))
    BY <1>6, <2>1
  <2> QED BY <2>1, <2>2
<1>8. h[1] = <<w \o f, "any">>
  BY <1>4, <1>7 DEF Good
<1> QED BY <1>2, <1>8 DEF f

\* Which entries are words.
LEMMA TokenWords ==
  ASSUME NEW tok \in Tokens
  PROVE  /\ T(tok) \in Words /\ T(tok) \in Entries /\ Word(T(tok)) = K(tok)
         /\ K(tok) \in Symbols
         /\ tok # ")" => T(tok) \in Settled
<1>1. T(tok) \in Words /\ (tok # ")" => T(tok) \in Settled)
  BY Zenon DEF Words, Settled
<1>2. T(tok) \in Entries
  BY Zenon DEF Entries
<1> QED BY <1>1, <1>2, WordOf, SymbolTypes, Zenon

LEMMA CallWords ==
  ASSUME NEW x \in Callable
  PROVE  /\ P(x) \in Words /\ P(x) \in Entries /\ P(x) \in Plain
         /\ Word(P(x)) = Sym(P(x)) /\ Sym(P(x)) \in Symbols
         /\ x # "SimpleStmt" => P(x) \in Settled
<1>1. P(x) \in Plain /\ P(x) \in Words
  BY PlainIs DEF Words
<1>2. P(x) \in Entries
  <2>1. x \in Procedures
    BY DEF Callable, Procedures
  <2> QED BY <2>1, Zenon DEF Entries
<1>3. x # "SimpleStmt" => P(x) # P("SimpleStmt")
  BY DEF P, Entry
<1> QED BY <1>1, <1>2, <1>3, WordOf, SymType, Zenon DEF Settled

LEMMA LoopWords ==
  ASSUME NEW x \in Loops
  PROVE  /\ L(x) \in Words /\ L(x) \in Entries /\ L(x) \in Plain
         /\ Word(L(x)) = Sym(L(x)) /\ Sym(L(x)) \in Symbols /\ L(x) \in Settled
<1>1. L(x) \in Plain /\ L(x) \in Words /\ L(x) \in Entries
  BY PlainIs, LoopEntry DEF Words
<1>2. L(x) # P("SimpleStmt")
  BY DEF L, P, Entry
<1> QED BY <1>1, <1>2, WordOf, SymType, Zenon DEF Settled

LEMMA LevelWords ==
  ASSUME NEW n \in 1 .. 8
  PROVE  /\ Level(n) \in Words /\ Level(n) \in Entries /\ Word(Level(n)) = E(n)
         /\ E(n) \in Symbols
<1>1. Level(n) \in Words
  BY Zenon DEF Words
<1>2. Level(n) \in Entries
  BY LevelEntry DEF Quiet, Inner
<1> QED BY <1>1, <1>2, WordOf, SymbolTypes, Zenon

LEMMA WordTypes ==
  /\ Settled \in SUBSET Words
  /\ \A o \in Words : o \in Entries /\ Word(o) \in Symbols
<1>1. Settled \in SUBSET Words
  BY Zenon DEF Settled, Words
<1>2. ASSUME NEW e \in Words
      PROVE  e \in Entries /\ Word(e) \in Symbols
  <2>1. \/ \E tok \in Tokens : e = T(tok)
        \/ \E x \in Callable : e = P(x)
        \/ \E x \in Loops : e = L(x)
        \/ \E n \in 1 .. 8 : e = Level(n)
    BY PlainIs, Zenon DEF Words
  <2>2. /\ \A tok \in Tokens : T(tok) \in Entries /\ Word(T(tok)) \in Symbols
        /\ \A x \in Callable : P(x) \in Entries /\ Word(P(x)) \in Symbols
        /\ \A x \in Loops : L(x) \in Entries /\ Word(L(x)) \in Symbols
        /\ \A n \in 1 .. 8 : Level(n) \in Entries /\ Word(Level(n)) \in Symbols
    BY TokenWords, CallWords, LoopWords, LevelWords
  <2> QED BY <2>1, <2>2, Zenon
<1> QED BY <1>1, <1>2

\* Lists of words.
LEMMA SpellsNone ==
  Spells(<<>>, <<>>)
<1>1. <<>> \in Seq(Entries) /\ <<>> \in Seq(Symbols)
  OBVIOUS
<1>2. ASSUME NEW x, NEW z, Predicts(<<>>, x, z)
      PROVE  x[1] = <<>> \o z[1]
  <2>1. x = z /\ x \in Forecasts
    BY <1>1, <1>2, PredictsNone, PredictsTypes
  <2>2. z[1] \in Seq(Symbols)
    BY <2>1 DEF Forecasts
  <2> QED BY <2>1, <2>2, EmptyConcat, Zenon
<1>3. \A i \in 1 .. Len(<<>>) : <<>>[i].kind # "more"
  OBVIOUS
<1> QED BY <1>1, <1>2, <1>3, Zenon DEF Spells

LEMMA SpellsOne ==
  ASSUME NEW a \in Settled
  PROVE  Spells(<<a>>, <<Word(a)>>)
<1> DEFINE u == <<a>>
           w == <<Word(a)>>
<1>1. a \in Words /\ a \in Entries /\ Word(a) \in Symbols
  BY WordTypes
<1>2. /\ u \in Seq(Entries) /\ w \in Seq(Symbols) /\ u # <<>> /\ Len(u) = 1 /\ Len(w) = 1
      /\ u[1] = a /\ w[1] = Word(a)
  BY <1>1
<1> HIDE DEF u, w
<1>3. \A i \in 1 .. Len(u) : u[i] \in Words /\ w[i] = Word(u[i])
  BY <1>1, <1>2
<1>4. u[Len(u)] \in Settled /\ Len(w) = Len(u)
  BY <1>2
<1>5. Spells(u, w)
  BY <1>2, <1>3, <1>4, Spelling, Zenon
<1> QED BY <1>5 DEF u, w

LEMMA SpellsTwo ==
  ASSUME NEW a \in Words, NEW b \in Settled
  PROVE  Spells(<<a, b>>, <<Word(a), Word(b)>>)
<1> DEFINE u == <<a, b>>
           w == <<Word(a), Word(b)>>
<1>1. /\ b \in Words /\ a \in Entries /\ b \in Entries
      /\ Word(a) \in Symbols /\ Word(b) \in Symbols
  BY WordTypes
<1>2. /\ u \in Seq(Entries) /\ w \in Seq(Symbols) /\ u # <<>> /\ Len(u) = 2 /\ Len(w) = 2
      /\ u[1] = a /\ w[1] = Word(a) /\ u[2] = b /\ w[2] = Word(b)
  BY <1>1
<1> HIDE DEF u, w
<1>3. \A i \in 1 .. Len(u) : u[i] \in Words /\ w[i] = Word(u[i])
  BY <1>1, <1>2
<1>4. u[Len(u)] \in Settled /\ Len(w) = Len(u)
  BY <1>2
<1>5. Spells(u, w)
  BY <1>2, <1>3, <1>4, Spelling, Zenon
<1> QED BY <1>5 DEF u, w

LEMMA SpellsThree ==
  ASSUME NEW a \in Words, NEW b \in Words, NEW c \in Settled
  PROVE  Spells(<<a, b, c>>,
                <<Word(a), Word(b), Word(c)>>)
<1> DEFINE u == <<a, b, c>>
           w == <<Word(a), Word(b), Word(c)>>
<1>1. c \in Words /\ \A o \in Words : o \in Entries /\ Word(o) \in Symbols
  BY WordTypes
<1>2. /\ u \in Seq(Entries) /\ w \in Seq(Symbols) /\ u # <<>> /\ Len(u) = 3 /\ Len(w) = 3
      /\ u[1] = a /\ w[1] = Word(a)
      /\ u[2] = b /\ w[2] = Word(b)
      /\ u[3] = c /\ w[3] = Word(c)
  BY <1>1
<1> HIDE DEF u, w
<1>3. \A i \in 1 .. Len(u) : u[i] \in Words /\ w[i] = Word(u[i])
  BY <1>1, <1>2
<1>4. u[Len(u)] \in Settled /\ Len(w) = Len(u)
  BY <1>2
<1>5. Spells(u, w)
  BY <1>2, <1>3, <1>4, Spelling, Zenon
<1> QED BY <1>5 DEF u, w

LEMMA SpellsFour ==
  ASSUME NEW a \in Words, NEW b \in Words, NEW c \in Words, NEW d \in Settled
  PROVE  Spells(<<a, b, c, d>>,
                <<Word(a), Word(b), Word(c), Word(d)>>)
<1> DEFINE u == <<a, b, c, d>>
           w == <<Word(a), Word(b), Word(c), Word(d)>>
<1>1. d \in Words /\ \A o \in Words : o \in Entries /\ Word(o) \in Symbols
  BY WordTypes
<1>2. /\ u \in Seq(Entries) /\ w \in Seq(Symbols) /\ u # <<>> /\ Len(u) = 4 /\ Len(w) = 4
      /\ u[1] = a /\ w[1] = Word(a)
      /\ u[2] = b /\ w[2] = Word(b)
      /\ u[3] = c /\ w[3] = Word(c)
      /\ u[4] = d /\ w[4] = Word(d)
  BY <1>1
<1> HIDE DEF u, w
<1>3. \A i \in 1 .. Len(u) : u[i] \in Words /\ w[i] = Word(u[i])
  BY <1>1, <1>2
<1>4. u[Len(u)] \in Settled /\ Len(w) = Len(u)
  BY <1>2
<1>5. Spells(u, w)
  BY <1>2, <1>3, <1>4, Spelling, Zenon
<1> QED BY <1>5 DEF u, w

LEMMA SpellsFive ==
  ASSUME NEW a \in Words, NEW b \in Words, NEW c \in Words, NEW d \in Words,
         NEW e \in Settled
  PROVE  Spells(<<a, b, c, d, e>>,
                <<Word(a), Word(b), Word(c), Word(d), Word(e)>>)
<1> DEFINE u == <<a, b, c, d, e>>
           w == <<Word(a), Word(b), Word(c), Word(d), Word(e)>>
<1>1. e \in Words /\ \A o \in Words : o \in Entries /\ Word(o) \in Symbols
  BY WordTypes
<1>2. /\ u \in Seq(Entries) /\ w \in Seq(Symbols) /\ u # <<>> /\ Len(u) = 5 /\ Len(w) = 5
      /\ u[1] = a /\ w[1] = Word(a)
      /\ u[2] = b /\ w[2] = Word(b)
      /\ u[3] = c /\ w[3] = Word(c)
      /\ u[4] = d /\ w[4] = Word(d)
      /\ u[5] = e /\ w[5] = Word(e)
  BY <1>1
<1> HIDE DEF u, w
<1>3. \A i \in 1 .. Len(u) : u[i] \in Words /\ w[i] = Word(u[i])
  BY <1>1, <1>2
<1>4. u[Len(u)] \in Settled /\ Len(w) = Len(u)
  BY <1>2
<1>5. Spells(u, w)
  BY <1>2, <1>3, <1>4, Spelling, Zenon
<1> QED BY <1>5 DEF u, w

LEMMA SpellsSix ==
  ASSUME NEW a \in Words, NEW b \in Words, NEW c \in Words, NEW d \in Words,
         NEW e \in Words, NEW f \in Settled
  PROVE  Spells(<<a, b, c, d, e, f>>,
                <<Word(a), Word(b), Word(c), Word(d), Word(e), Word(f)>>)
<1> DEFINE u == <<a, b, c, d, e, f>>
           w == <<Word(a), Word(b), Word(c), Word(d), Word(e), Word(f)>>
<1>1. f \in Words /\ \A o \in Words : o \in Entries /\ Word(o) \in Symbols
  BY WordTypes
<1>2. /\ u \in Seq(Entries) /\ w \in Seq(Symbols) /\ u # <<>> /\ Len(u) = 6 /\ Len(w) = 6
      /\ u[1] = a /\ w[1] = Word(a)
      /\ u[2] = b /\ w[2] = Word(b)
      /\ u[3] = c /\ w[3] = Word(c)
      /\ u[4] = d /\ w[4] = Word(d)
      /\ u[5] = e /\ w[5] = Word(e)
      /\ u[6] = f /\ w[6] = Word(f)
  BY <1>1
<1> HIDE DEF u, w
<1>3. \A i \in 1 .. Len(u) : u[i] \in Words /\ w[i] = Word(u[i])
  BY <1>1, <1>2
<1>4. u[Len(u)] \in Settled /\ Len(w) = Len(u)
  BY <1>2
<1>5. Spells(u, w)
  BY <1>2, <1>3, <1>4, Spelling, Zenon
<1> QED BY <1>5 DEF u, w

LEMMA SpellsTen ==
  ASSUME NEW a \in Words, NEW b \in Words, NEW c \in Words, NEW d \in Words,
         NEW e \in Words, NEW f \in Words, NEW g \in Words, NEW h \in Words,
         NEW r \in Words, NEW j \in Settled
  PROVE  Spells(<<a, b, c, d, e, f, g, h, r, j>>,
                <<Word(a), Word(b), Word(c), Word(d), Word(e), Word(f),
                  Word(g), Word(h), Word(r), Word(j)>>)
<1> DEFINE u == <<a, b, c, d, e, f, g, h, r, j>>
           w == <<Word(a), Word(b), Word(c), Word(d), Word(e), Word(f),
                  Word(g), Word(h), Word(r), Word(j)>>
<1>1. j \in Words /\ \A o \in Words : o \in Entries /\ Word(o) \in Symbols
  BY WordTypes
<1>2. /\ u \in Seq(Entries) /\ w \in Seq(Symbols) /\ u # <<>> /\ Len(u) = 10 /\ Len(w) = 10
      /\ u[1] = a /\ w[1] = Word(a)
      /\ u[2] = b /\ w[2] = Word(b)
      /\ u[3] = c /\ w[3] = Word(c)
      /\ u[4] = d /\ w[4] = Word(d)
      /\ u[5] = e /\ w[5] = Word(e)
      /\ u[6] = f /\ w[6] = Word(f)
      /\ u[7] = g /\ w[7] = Word(g)
      /\ u[8] = h /\ w[8] = Word(h)
      /\ u[9] = r /\ w[9] = Word(r)
      /\ u[10] = j /\ w[10] = Word(j)
  BY <1>1
<1> HIDE DEF u, w
<1>3. \A i \in 1 .. Len(u) : u[i] \in Words /\ w[i] = Word(u[i])
  BY <1>1, <1>2
<1>4. u[Len(u)] \in Settled /\ Len(w) = Len(u)
  BY <1>2
<1>5. Spells(u, w)
  BY <1>2, <1>3, <1>4, Spelling, Zenon
<1> QED BY <1>5 DEF u, w

LEMMA SpellsEleven ==
  ASSUME NEW a \in Words, NEW b \in Words, NEW c \in Words, NEW d \in Words,
         NEW e \in Words, NEW f \in Words, NEW g \in Words, NEW h \in Words,
         NEW r \in Words, NEW j \in Words, NEW k \in Settled
  PROVE  Spells(<<a, b, c, d, e, f, g, h, r, j, k>>,
                <<Word(a), Word(b), Word(c), Word(d), Word(e), Word(f),
                  Word(g), Word(h), Word(r), Word(j), Word(k)>>)
<1> DEFINE u == <<a, b, c, d, e, f, g, h, r, j, k>>
           w == <<Word(a), Word(b), Word(c), Word(d), Word(e), Word(f),
                  Word(g), Word(h), Word(r), Word(j), Word(k)>>
<1>1. k \in Words /\ \A o \in Words : o \in Entries /\ Word(o) \in Symbols
  BY WordTypes
<1>2. /\ u \in Seq(Entries) /\ w \in Seq(Symbols) /\ u # <<>> /\ Len(u) = 11 /\ Len(w) = 11
      /\ u[1] = a /\ w[1] = Word(a)
      /\ u[2] = b /\ w[2] = Word(b)
      /\ u[3] = c /\ w[3] = Word(c)
      /\ u[4] = d /\ w[4] = Word(d)
      /\ u[5] = e /\ w[5] = Word(e)
      /\ u[6] = f /\ w[6] = Word(f)
      /\ u[7] = g /\ w[7] = Word(g)
      /\ u[8] = h /\ w[8] = Word(h)
      /\ u[9] = r /\ w[9] = Word(r)
      /\ u[10] = j /\ w[10] = Word(j)
      /\ u[11] = k /\ w[11] = Word(k)
  BY <1>1
<1> HIDE DEF u, w
<1>3. \A i \in 1 .. Len(u) : u[i] \in Words /\ w[i] = Word(u[i])
  BY <1>1, <1>2
<1>4. u[Len(u)] \in Settled /\ Len(w) = Len(u)
  BY <1>2
<1>5. Spells(u, w)
  BY <1>2, <1>3, <1>4, Spelling, Zenon
<1> QED BY <1>5 DEF u, w

-----------------------------------------------------------------------------
(* The invariant.                                                          *)

AtTheEnd == <<<<>>, "any">>

\* The loop that waits for the else branch of a conditional expression comes
\* after what takes any other if; the program's statements come last.
OfIf(e) == e.kind = "more" /\ e.name = "if"
Lowest(e) == e.kind \in {"level", "more"} /\ e.to = 1
Branches(s) ==
  \A i \in 1 .. Len(s) : OfIf(s[i]) =>
    s[i].from = 1 /\ s[i].to = 1 /\ (i > 1 => Lowest(s[i - 1]))
Orderly ==
  /\ Branches(stack) /\ (Running /\ OfIf(Head1) => Tok # "if")
  /\ IF Running THEN stack[Len(stack)] = L("statements") ELSE pos = Len(text)

\* What the calls under way foresee is what the grammar has still to derive.
ForecastsHold ==
  ~recovered /\ ~diagnosed =>
    /\ Orderly
    /\ \A x \in Forecasts :
         Predicts(stack, x, AtTheEnd) /\ (x[2] = "target" => target)
           => Reaches(text, pos, nodes, x[1])

\* What the entries u that replace the head have to keep of that order.
KeepsLast(u) ==
  Head1 = L("statements") =>
    IF u = <<>> THEN pos' = Len(text) ELSE u[Len(u)] = L("statements")
KeepsOrder(u) ==
  /\ Branches(u) /\ (u # <<>> => ~OfIf(u[1]))
  /\ Lowest(Head1) => IF u = <<>> THEN Tok' # "if" ELSE Lowest(u[Len(u)])
  /\ KeepsLast(u)

LEMMA StepKeepsOrder ==
  ASSUME ParserInv, Orderly, Running, NEW u \in Seq(Entries), Do(u), text' = text,
         KeepsOrder(u)
  PROVE  Orderly'
<1> DEFINE s == Tail(stack)
           n == Len(u)
           r == u \o s
<1>1. /\ stack \in Seq(Entries) /\ stack # <<>> /\ s \in Seq(Entries) /\ stack' = r
      /\ Len(s) = Len(stack) - 1 /\ \A i \in 1 .. Len(s) : s[i] = stack[i + 1]
  BY Below DEF Do, Running, ParserInv, TypeOK
<1>2. /\ n \in Nat /\ Len(s) \in Nat /\ r \in Seq(Entries) /\ Len(r) = n + Len(s)
      /\ \A i \in 1 .. n : r[i] = u[i]
      /\ \A i \in 1 .. Len(s) : r[n + i] = s[i]
  BY <1>1, ConcatElements
<1> HIDE DEF s, n, r
<1>3. ASSUME NEW i \in 1 .. Len(s), OfIf(s[i])
      PROVE  /\ s[i].from = 1 /\ s[i].to = 1
             /\ i > 1 => Lowest(s[i - 1])
             /\ i = 1 => Lowest(Head1)
  <2>1. i + 1 \in 1 .. Len(stack) /\ i + 1 > 1 /\ (i + 1) - 1 = i /\ OfIf(stack[i + 1])
    BY <1>1, <1>3
  <2>2. /\ stack[i + 1].from = 1 /\ stack[i + 1].to = 1 /\ Lowest(stack[i])
    BY <2>1, Zenon DEF Orderly, Branches
  <2>3. i > 1 => s[i - 1] = stack[i]
    BY <1>1, <1>2
  <2> QED BY <1>1, <2>2, <2>3 DEF Head1
<1>4. Branches(r)
  <2> SUFFICES ASSUME NEW i \in 1 .. Len(r), OfIf(r[i])
               PROVE  r[i].from = 1 /\ r[i].to = 1 /\ (i > 1 => Lowest(r[i - 1]))
    BY DEF Branches
  <2>1. CASE i <= n
    <3>1. i \in 1 .. n /\ r[i] = u[i] /\ (i > 1 => r[i - 1] = u[i - 1])
      BY <1>2, <2>1
    <3> QED BY <3>1 DEF KeepsOrder, Branches, n
  <2>2. CASE i > n
    <3>1. i - n \in 1 .. Len(s) /\ n + (i - n) = i
      BY <1>2, <2>2
    <3> DEFINE j == i - n
    <3>2. r[i] = s[j] /\ j \in 1 .. Len(s) /\ OfIf(s[j]) /\ i = n + j
      BY <1>2, <3>1
    <3> HIDE DEF j
    <3>3. /\ s[j].from = 1 /\ s[j].to = 1
          /\ j > 1 => Lowest(s[j - 1])
          /\ j = 1 => Lowest(Head1)
      BY <1>3, <3>2
    <3>4. j > 1 => r[i - 1] = s[j - 1]
      <4>1. j > 1 => j - 1 \in 1 .. Len(s) /\ n + (j - 1) = i - 1
        BY <1>2, <3>2
      <4> QED BY <1>2, <4>1
    <3>5. j = 1 /\ i > 1 => r[i - 1] = u[n] /\ u # <<>>
      BY <1>2, <3>2 DEF n
    <3>6. j = 1 /\ i > 1 => Lowest(r[i - 1])
      BY <3>3, <3>5 DEF KeepsOrder, n
    <3>7. j = 1 \/ j > 1
      BY <1>2, <3>2
    <3> QED BY <3>2, <3>3, <3>4, <3>6, <3>7
  <2> QED BY <1>2, <2>1, <2>2
<1>5. r # <<>> /\ OfIf(r[1]) => Tok' # "if"
  <2>1. CASE u = <<>>
    <3>1. r = s
      BY <1>1, <1>2, <2>1 DEF r
    <3>2. r # <<>> => 1 \in 1 .. Len(s)
      BY <1>1, <1>2, <3>1
    <3> QED BY <1>3, <2>1, <3>1, <3>2 DEF KeepsOrder
  <2>2. CASE u # <<>>
    <3>1. 1 \in 1 .. n
      BY <1>2, <2>2 DEF n
    <3> QED BY <1>2, <2>2, <3>1 DEF KeepsOrder
  <2> QED BY <2>1, <2>2
<1>6. IF r # <<>> THEN r[Len(r)] = L("statements") ELSE pos' = Len(text)
  <2>1. stack[Len(stack)] = L("statements")
    BY DEF Orderly
  <2>2. CASE s # <<>>
    <3>1. Len(s) \in 1 .. Len(s) /\ Len(r) = n + Len(s) /\ Len(s) + 1 = Len(stack)
      BY <1>1, <1>2, <2>2
    <3> QED BY <1>1, <1>2, <2>1, <3>1
  <2>3. CASE s = <<>>
    <3>1. Len(stack) = 1
      BY <1>1, <2>3
    <3>2. Head1 = L("statements")
      BY <2>1, <3>1 DEF Head1
    <3>3. r = u
      BY <2>3 DEF r
    <3> QED BY <3>2, <3>3 DEF KeepsOrder, KeepsLast
  <2> QED BY <2>2, <2>3
<1> QED BY <1>1, <1>4, <1>5, <1>6 DEF Orderly, Running, Head1

\* Entries without a loop of an operator, in the place of a call or a loop.
LEMMA CallsKeepOrder ==
  ASSUME NEW u \in Seq(Entries), \A i \in 1 .. Len(u) : u[i].kind # "more",
         Head1.kind \notin {"level", "more"}, KeepsLast(u)
  PROVE  KeepsOrder(u)
<1>1. \A i \in 1 .. Len(u) : ~OfIf(u[i])
  BY DEF OfIf
<1>2. u # <<>> => 1 \in 1 .. Len(u)
  OBVIOUS
<1> QED BY <1>1, <1>2 DEF KeepsOrder, Branches, Lowest

LEMMA NoneKeepOrder ==
  ASSUME Head1.kind \notin {"level", "more", "loop"}
  PROVE  KeepsOrder(<<>>)
<1>1. Head1 # L("statements")
  BY DEF L, Entry
<1>2. <<>> \in Seq(Entries) /\ \A i \in 1 .. Len(<<>>) : <<>>[i].kind # "more"
  OBVIOUS
<1> QED BY <1>1, <1>2, CallsKeepOrder DEF KeepsLast

\* One or two entries in the place of a call.
LEMMA FewKeepOrder ==
  ASSUME NEW a \in Entries, NEW b \in Entries, a.kind # "more", b.kind # "more",
         Head1.kind = "call"
  PROVE  KeepsOrder(<<a>>) /\ KeepsOrder(<<a, b>>)
<1>1. Head1 # L("statements")
  BY DEF L, Entry
<1>2. <<a>> \in Seq(Entries) /\ \A i \in 1 .. Len(<<a>>) : <<a>>[i].kind # "more"
  OBVIOUS
<1>3. <<a, b>> \in Seq(Entries) /\ \A i \in 1 .. Len(<<a, b>>) : <<a, b>>[i].kind # "more"
  OBVIOUS
<1> QED BY <1>1, <1>2, <1>3, CallsKeepOrder DEF KeepsLast

LEMMA ForecastTypes ==
  ASSUME NEW x \in Forecasts
  PROVE  x[1] \in Seq(Symbols) /\ x[2] \in {"any", "target"} /\ x = <<x[1], x[2]>>
BY DEF Forecasts

\* A step replaces the head of the stack by entries whose forecasts come of
\* those of the head.
LEMMA StepForecasts ==
  ASSUME ParserInv, ForecastsHold, Running, NEW u \in Seq(Entries), Do(u),
         text' = text, recovered' = recovered, diagnosed' = diagnosed, KeepsOrder(u),
         \A x, z \in Forecasts :
           Predicts(u, x, z) /\ (x[2] = "target" => target') =>
             \E y \in Forecasts :
               /\ Foresees(Head1, y, z) /\ (y[2] = "target" => target)
               /\ Reaches(text, pos, nodes, y[1]) => Reaches(text, pos', nodes', x[1])
  PROVE  ForecastsHold'
<1>0. ~recovered' /\ ~diagnosed' => Orderly'
  BY StepKeepsOrder DEF ForecastsHold
<1> SUFFICES ASSUME ~recovered', ~diagnosed', NEW x \in Forecasts,
                    Predicts(stack', x, AtTheEnd), x[2] = "target" => target'
             PROVE  Reaches(text', pos', nodes', x[1])
  BY <1>0, Zenon DEF ForecastsHold, AtTheEnd
<1> DEFINE s == Tail(stack)
<1>1. /\ stack \in Seq(Entries) /\ stack # <<>> /\ s \in Seq(Entries)
      /\ Head1 \in Entries /\ stack' = u \o s
  BY Below DEF Do
<1>2. stack = <<Head1>> \o s
  BY <1>1 DEF Head1
<1> HIDE DEF s
<1>3. PICK z \in Forecasts : Predicts(u, x, z) /\ Predicts(s, z, AtTheEnd)
  <2>1. Predicts(u \o s, x, AtTheEnd)
    BY <1>1
  <2> QED BY ONLY <1>1, <2>1, u \in Seq(Entries), PredictsSplit, Zenon
<1>4. PICK y \in Forecasts :
        /\ Foresees(Head1, y, z) /\ (y[2] = "target" => target)
        /\ Reaches(text, pos, nodes, y[1]) => Reaches(text, pos', nodes', x[1])
  BY <1>3
<1>5. Predicts(stack, y, AtTheEnd)
  <2>1. Predicts(<<Head1>> \o s, y, AtTheEnd)
    BY ONLY <1>1, <1>3, <1>4, PredictsMore, Zenon
  <2> QED BY <1>2, <2>1
<1>6. Reaches(text, pos, nodes, y[1])
  BY <1>4, <1>5 DEF ForecastsHold
<1> QED BY <1>4, <1>6

LEMMA Typed ==
  ASSUME ParserInv
  PROVE  /\ pos \in 1 .. Len(text) /\ nodes \in Seq(NodeNames)
         /\ Tok \in Tokens /\ K(Tok) \in Symbols /\ target \in BOOLEAN
         /\ IsText(text)
<1>1. pos \in 1 .. Len(text) /\ nodes \in Seq(NodeNames) /\ IsText(text) /\ target \in BOOLEAN
  BY DEF ParserInv, TypeOK
<1>2. Tok \in Tokens
  BY <1>1 DEF Tok, IsText
<1> QED BY <1>1, <1>2, SymbolTypes, Zenon

\* A procedure calls others, by a rule.
LEMMA CallForecasts ==
  ASSUME ParserInv, ForecastsHold, Running, Head1 \in Plain, NEW u, NEW w,
         Spells(u, w), Yields(Sym(Head1), w), Call(u), KeepsLast(u)
  PROVE  ForecastsHold'
<1>0. KeepsOrder(u)
  BY KindsApart, CallsKeepOrder, Zenon DEF Spells
<1>1. /\ u \in Seq(Entries) /\ w \in Seq(Symbols) /\ Sym(Head1) \in Symbols
      /\ Do(u) /\ text' = text /\ recovered' = recovered /\ diagnosed' = diagnosed
      /\ pos' = pos /\ nodes' = nodes
  BY SymType DEF Spells, Call
<1>2. ASSUME NEW x \in Forecasts, NEW z \in Forecasts, Predicts(u, x, z)
      PROVE  \E y \in Forecasts :
               /\ Foresees(Head1, y, z) /\ (y[2] = "target" => target)
               /\ Reaches(text, pos, nodes, y[1]) => Reaches(text, pos', nodes', x[1])
  <2> DEFINE y == <<Then(Sym(Head1), z[1]), "any">>
  <2>1. z[1] \in Seq(Symbols) /\ x[1] = w \o z[1]
    BY <1>2, ForecastTypes DEF Spells
  <2>2. y \in Forecasts
    BY <1>1, <2>1, ThenType DEF Forecasts
  <2>3. Foresees(Head1, y, z)
    BY ForeseesPlain
  <2>4. Reaches(text, pos, nodes, Then(Sym(Head1), z[1])) => Reaches(text, pos, nodes, w \o z[1])
    BY <2>1, Typed, Zenon DEF Yields
  <2>5. y[1] = Then(Sym(Head1), z[1]) /\ y[2] # "target"
    OBVIOUS
  <2> HIDE DEF y
  <2> QED BY <1>1, <2>1, <2>2, <2>3, <2>4, <2>5
<1> QED BY <1>0, <1>1, <1>2, StepForecasts

\* The token of a rule is consumed.
LEMMA ReadsToken ==
  ASSUME ParserInv, Consume(1), NEW f \in Seq(Symbols), Reaches(text, pos, nodes, Then(K(Tok), f))
  PROVE  Reaches(text, pos', nodes, f)
<1>1. pos' = Next1(text, pos)
  BY Typed DEF Consume, Next1
<1>2. Reaches(text, Next1(text, pos), nodes, f)
  BY Typed, DeriveToken, Zenon DEF Tok
<1> QED BY <1>1, <1>2

\* A procedure consumes a token and calls others.
LEMMA TakeForecasts ==
  ASSUME ParserInv, ForecastsHold, Running, Head1 \in Plain, NEW u, NEW w,
         Spells(u, w), Yields(Sym(Head1), Then(K(Tok), w)), Take(u), KeepsLast(u)
  PROVE  ForecastsHold'
<1>0. KeepsOrder(u)
  BY KindsApart, CallsKeepOrder, Zenon DEF Spells
<1>1. /\ u \in Seq(Entries) /\ w \in Seq(Symbols) /\ Sym(Head1) \in Symbols
      /\ Do(u) /\ text' = text /\ recovered' = recovered /\ diagnosed' = diagnosed
      /\ Consume(1) /\ nodes' = nodes
  BY SymType DEF Spells, Take
<1>2. ASSUME NEW x \in Forecasts, NEW z \in Forecasts, Predicts(u, x, z)
      PROVE  \E y \in Forecasts :
               /\ Foresees(Head1, y, z) /\ (y[2] = "target" => target)
               /\ Reaches(text, pos, nodes, y[1]) => Reaches(text, pos', nodes', x[1])
  <2> DEFINE y == <<Then(Sym(Head1), z[1]), "any">>
  <2>1. z[1] \in Seq(Symbols) /\ x[1] = w \o z[1]
    BY <1>2, ForecastTypes DEF Spells
  <2>2. y \in Forecasts
    BY <1>1, <2>1, ThenType DEF Forecasts
  <2>3. Foresees(Head1, y, z)
    BY ForeseesPlain
  <2>4. ASSUME Reaches(text, pos, nodes, Then(Sym(Head1), z[1]))
        PROVE  Reaches(text, pos', nodes, w \o z[1])
    <3>1. Reaches(text, pos, nodes, Then(K(Tok), w) \o z[1])
      BY <2>1, <2>4, Typed, Zenon DEF Yields
    <3>2. Then(K(Tok), w) \o z[1] = Then(K(Tok), w \o z[1]) /\ w \o z[1] \in Seq(Symbols)
      <4>1. w \o z[1] \in Seq(Symbols)
        BY <1>1, <2>1
      <4> QED BY <1>1, <2>1, <4>1, Typed, ThenConcat
    <3> QED BY <1>1, <3>1, <3>2, ReadsToken
  <2>5. y[1] = Then(Sym(Head1), z[1]) /\ y[2] # "target"
    OBVIOUS
  <2> HIDE DEF y
  <2> QED BY <1>1, <2>1, <2>2, <2>3, <2>4, <2>5
<1> QED BY <1>0, <1>1, <1>2, StepForecasts

\* A call whose failure is caught, in a loop.
LEMMA SpellsTry ==
  ASSUME NEW a \in Settled \cap Plain, NEW r \in Recoveries, NEW l \in Settled
  PROVE  Spells(<<a, Try(r), l>>, <<Word(a), Word(l)>>)
<1> DEFINE w == <<Word(a), Word(l)>>
           t == Try(r)
<1>1. /\ a \in Words /\ l \in Words /\ a \in Entries /\ l \in Entries /\ t \in Entries
      /\ Word(a) \in Symbols /\ Word(l) \in Symbols
  BY WordTypes, TryEntry
<1>2. <<a, t, l>> \in Seq(Entries) /\ w \in Seq(Symbols)
  BY <1>1
<1>3. ASSUME NEW x, NEW z, Predicts(<<a, t, l>>, x, z)
      PROVE  x[1] = w \o z[1]
  <2>1. PICK y \in Forecasts, v \in Forecasts :
          Foresees(a, x, y) /\ Foresees(t, y, v) /\ Foresees(l, v, z)
    BY <1>3, PredictsThree, Zenon
  <2>2. y = v
    BY <2>1, ForeseesTry
  <2>3. v = <<Then(Word(l), z[1]), "any">> /\ x = <<Then(Word(a), y[1]), "any">>
    BY <1>1, <2>1, WordForesees
  <2>4. x[1] = Then(Word(a), Then(Word(l), z[1]))
    BY <2>2, <2>3
  <2>5. z \in Forecasts
    BY <1>2, <1>3, PredictsTypes
  <2>6. z[1] \in Seq(Symbols) /\ <<Word(l)>> \in Seq(Symbols)
    BY <1>1, <2>5, ForecastTypes
  <2>7. Then(Word(a), <<Word(l)>>) \o z[1] = Then(Word(a), <<Word(l)>> \o z[1])
    BY <1>1, <2>6, ThenConcat, Zenon
  <2>8. Then(Word(a), <<Word(l)>>) = w /\ <<Word(l)>> \o z[1] = Then(Word(l), z[1])
    BY <1>1, ThenTuples DEF Then
  <2> QED BY <2>4, <2>7, <2>8
<1>4. a.kind # "more" /\ t.kind # "more" /\ l.kind # "more"
  <2>1. \A tok : T(tok).kind = "expect"
    BY DEF T, Entry
  <2> QED BY <2>1, TryEntry, KindsApart DEF Settled
<1> DEFINE u == <<a, t, l>>
<1>5. \A i \in 1 .. Len(u) : u[i].kind # "more"
  BY <1>4
<1>6. u \in Seq(Entries) /\ \A x, z : Predicts(u, x, z) => x[1] = w \o z[1]
  BY <1>2, <1>3
<1> HIDE DEF u, w
<1>7. Spells(u, w)
  BY <1>2, <1>5, <1>6 DEF Spells
<1> QED BY <1>7 DEF u, w

LEMMA TokensAre ==
  /\ "class" \in Tokens /\ "def" \in Tokens /\ "elif" \in Tokens /\ "else" \in Tokens
  /\ "for" \in Tokens /\ "global" \in Tokens /\ "if" \in Tokens /\ "in" \in Tokens
  /\ "nonlocal" \in Tokens /\ "pass" \in Tokens /\ "return" \in Tokens
  /\ "while" \in Tokens /\ "id" \in Tokens /\ "idstr" \in Tokens /\ "lit" \in Tokens
  /\ "(" \in Tokens /\ ")" \in Tokens /\ "[" \in Tokens /\ "]" \in Tokens
  /\ ":" \in Tokens /\ "." \in Tokens /\ "=" \in Tokens /\ "->" \in Tokens
  /\ "NEWLINE" \in Tokens /\ "INDENT" \in Tokens /\ "DEDENT" \in Tokens
BY Zenon DEF Tokens

\* The same steps from a procedure or a loop by name.
LEMMA ProcedureCalls ==
  ASSUME ParserInv, ForecastsHold, NEW x \in Callable, At(P(x)), NEW u, NEW w,
         Spells(u, w), Yields(Sym(P(x)), w), Call(u)
  PROVE  ForecastsHold'
<1>1. Running /\ Head1 = P(x) /\ P(x) \in Plain
  BY CallWords DEF At
<1>2. Head1 \in Plain /\ Yields(Sym(Head1), w)
  BY <1>1
<1>3. KeepsLast(u)
  BY <1>1 DEF KeepsLast, P, L, Entry
<1> QED BY <1>1, <1>2, <1>3, CallForecasts

LEMMA ProcedureTakes ==
  ASSUME ParserInv, ForecastsHold, NEW x \in Callable, At(P(x)), NEW u, NEW w,
         Spells(u, w), Yields(Sym(P(x)), Then(K(Tok), w)), Take(u)
  PROVE  ForecastsHold'
<1>1. Running /\ Head1 = P(x) /\ P(x) \in Plain
  BY CallWords DEF At
<1>2. Head1 \in Plain /\ Yields(Sym(Head1), Then(K(Tok), w))
  BY <1>1
<1>3. KeepsLast(u)
  BY <1>1 DEF KeepsLast, P, L, Entry
<1> QED BY <1>1, <1>2, <1>3, TakeForecasts

LEMMA LoopCalls ==
  ASSUME ParserInv, ForecastsHold, NEW x \in Loops, At(L(x)), NEW u, NEW w,
         Spells(u, w), Yields(Sym(L(x)), w), Call(u), KeepsLast(u)
  PROVE  ForecastsHold'
<1>1. Running /\ Head1 = L(x) /\ L(x) \in Plain
  BY LoopWords DEF At
<1>2. Head1 \in Plain /\ Yields(Sym(Head1), w)
  BY <1>1
<1> QED BY <1>1, <1>2, CallForecasts

LEMMA ClassDefForecasts ==
  ASSUME ParserInv, ForecastsHold, ParseClassDef
  PROVE  ForecastsHold'
<1>1. /\ \A tok \in {"class", "id", "(", ")", ":", "NEWLINE", "INDENT", "DEDENT"} :
           T(tok) \in Words /\ Word(T(tok)) = K(tok)
      /\ T("DEDENT") \in Settled
      /\ P("ClassBody") \in Words /\ Word(P("ClassBody")) = R("class_body")
      /\ "ClassDef" \in Callable /\ Sym(P("ClassDef")) = R("class_def")
  BY TokensAre, TokenWords, CallWords, SymOfCalled DEF Callable
<1>2. Spells(<<T("class"), T("id"), T("("), T("id"), T(")"), T(":"),
               T("NEWLINE"), T("INDENT"), P("ClassBody"), T("DEDENT")>>,
             <<K("class"), K("id"), K("("), K("id"), K(")"), K(":"),
               K("NEWLINE"), K("INDENT"), R("class_body"), K("DEDENT")>>)
  <2>1. Spells(<<T("class"), T("id"), T("("), T("id"), T(")"), T(":"),
                 T("NEWLINE"), T("INDENT"), P("ClassBody"), T("DEDENT")>>,
               <<Word(T("class")), Word(T("id")), Word(T("(")), Word(T("id")),
                 Word(T(")")), Word(T(":")), Word(T("NEWLINE")), Word(T("INDENT")),
                 Word(P("ClassBody")), Word(T("DEDENT"))>>)
    BY <1>1, SpellsTen
  <2> QED BY <1>1, <2>1
<1>3. Yields(Sym(P("ClassDef")),
             <<K("class"), K("id"), K("("), K("id"), K(")"), K(":"),
               K("NEWLINE"), K("INDENT"), R("class_body"), K("DEDENT")>>)
  BY <1>1, DeclarationsYield, Zenon
<1> QED BY <1>1, <1>2, <1>3, ProcedureCalls, Zenon DEF ParseClassDef

\* What the procedures put on the stack.
LEMMA DeclarationsSpell ==
  /\ Spells(<<T("def"), T("id"), T("("), P("Params"), T(")"),
       P("ReturnType"), T(":"), T("NEWLINE"), T("INDENT"), P("FuncBody"),
       T("DEDENT")>>,
            <<K("def"), K("id"), K("("), Opt("params"), K(")"),
            Opt("return_type"), K(":"), K("NEWLINE"), K("INDENT"),
            R("func_body"), K("DEDENT")>>)
  /\ Spells(<<T("id"), T(":"), P("Type")>>,
            <<K("id"), K(":"), R("type")>>)
  /\ Spells(<<P("TypedVar"), T("="), P("Literal"), T("NEWLINE")>>,
            <<R("typed_var"), K("="), R("literal"), K("NEWLINE")>>)
  /\ Spells(<<L("globals"), P("Stmt"), L("block")>>,
            <<Many("local"), R("stmt"), Many("stmt")>>)
  /\ Spells(<<T("global"), T("id"), T("NEWLINE")>>,
            <<K("global"), K("id"), K("NEWLINE")>>)
  /\ Spells(<<T("nonlocal"), T("id"), T("NEWLINE")>>,
            <<K("nonlocal"), K("id"), K("NEWLINE")>>)
  /\ Spells(<<P("TypedVar"), P("MoreParams")>>,
            <<R("typed_var"), Many("next_param")>>)
  /\ Spells(<<P("Type")>>,
            <<R("type")>>)
  /\ Spells(<<P("Type"), T("]")>>,
            <<R("type"), K("]")>>)
  /\ Spells(<<P("FuncDef"), L("moreMembers")>>,
            <<R("func_def"), Many("member")>>)
<1>1. /\ T("def") \in Words /\ Word(T("def")) = K("def") /\ T("def") \in Settled
      /\ T("id") \in Words /\ Word(T("id")) = K("id") /\ T("id") \in Settled
      /\ T("(") \in Words /\ Word(T("(")) = K("(") /\ T("(") \in Settled
      /\ T(")") \in Words /\ Word(T(")")) = K(")")
      /\ T(":") \in Words /\ Word(T(":")) = K(":") /\ T(":") \in Settled
      /\ T("NEWLINE") \in Words /\ Word(T("NEWLINE")) = K("NEWLINE") /\ T("NEWLINE") \in Settled
      /\ T("INDENT") \in Words /\ Word(T("INDENT")) = K("INDENT") /\ T("INDENT") \in Settled
      /\ T("DEDENT") \in Words /\ Word(T("DEDENT")) = K("DEDENT") /\ T("DEDENT") \in Settled
      /\ T("=") \in Words /\ Word(T("=")) = K("=") /\ T("=") \in Settled
      /\ T("global") \in Words /\ Word(T("global")) = K("global") /\ T("global") \in Settled
      /\ T("nonlocal") \in Words /\ Word(T("nonlocal")) = K("nonlocal") /\ T("nonlocal") \in Settled
      /\ T("]") \in Words /\ Word(T("]")) = K("]") /\ T("]") \in Settled
  BY TokensAre, TokenWords
<1>2. /\ P("Params") \in Words /\ Word(P("Params")) = Opt("params") /\ P("Params") \in Settled
      /\ P("ReturnType") \in Words /\ Word(P("ReturnType")) = Opt("return_type") /\ P("ReturnType") \in Settled
      /\ P("FuncBody") \in Words /\ Word(P("FuncBody")) = R("func_body") /\ P("FuncBody") \in Settled
      /\ P("Type") \in Words /\ Word(P("Type")) = R("type") /\ P("Type") \in Settled
      /\ P("TypedVar") \in Words /\ Word(P("TypedVar")) = R("typed_var") /\ P("TypedVar") \in Settled
      /\ P("Literal") \in Words /\ Word(P("Literal")) = R("literal") /\ P("Literal") \in Settled
      /\ P("Stmt") \in Words /\ Word(P("Stmt")) = R("stmt") /\ P("Stmt") \in Settled
      /\ P("MoreParams") \in Words /\ Word(P("MoreParams")) = Many("next_param") /\ P("MoreParams") \in Settled
      /\ P("FuncDef") \in Words /\ Word(P("FuncDef")) = R("func_def") /\ P("FuncDef") \in Settled
  BY CallWords, SymOfCalled DEF Callable
<1>3. /\ L("globals") \in Words /\ Word(L("globals")) = Many("local") /\ L("globals") \in Settled
      /\ L("block") \in Words /\ Word(L("block")) = Many("stmt") /\ L("block") \in Settled
      /\ L("moreMembers") \in Words /\ Word(L("moreMembers")) = Many("member") /\ L("moreMembers") \in Settled
      /\ Expr \in Words /\ Word(Expr) = E(1)
  BY LoopWords, SymOfContinued, LevelWords DEF Loops, Expr
<1>4. Spells(<<T("def"), T("id"), T("("), P("Params"), T(")"),
            P("ReturnType"), T(":"), T("NEWLINE"), T("INDENT"), P("FuncBody"),
            T("DEDENT")>>,
             <<K("def"), K("id"), K("("), Opt("params"), K(")"),
              Opt("return_type"), K(":"), K("NEWLINE"), K("INDENT"),
              R("func_body"), K("DEDENT")>>)
  <2>1. Spells(<<T("def"), T("id"), T("("), P("Params"), T(")"),
              P("ReturnType"), T(":"), T("NEWLINE"), T("INDENT"),
              P("FuncBody"), T("DEDENT")>>,
               <<Word(T("def")), Word(T("id")), Word(T("(")),
                Word(P("Params")), Word(T(")")), Word(P("ReturnType")),
                Word(T(":")), Word(T("NEWLINE")), Word(T("INDENT")),
                Word(P("FuncBody")), Word(T("DEDENT"))>>)
    BY <1>1, <1>2, <1>3, SpellsEleven
  <2> QED BY <1>1, <1>2, <1>3, <2>1
<1>5. Spells(<<T("id"), T(":"), P("Type")>>,
             <<K("id"), K(":"), R("type")>>)
  <2>1. Spells(<<T("id"), T(":"), P("Type")>>,
               <<Word(T("id")), Word(T(":")), Word(P("Type"))>>)
    BY <1>1, <1>2, <1>3, SpellsThree
  <2> QED BY <1>1, <1>2, <1>3, <2>1
<1>6. Spells(<<P("TypedVar"), T("="), P("Literal"), T("NEWLINE")>>,
             <<R("typed_var"), K("="), R("literal"), K("NEWLINE")>>)
  <2>1. Spells(<<P("TypedVar"), T("="), P("Literal"), T("NEWLINE")>>,
               <<Word(P("TypedVar")), Word(T("=")), Word(P("Literal")),
                Word(T("NEWLINE"))>>)
    BY <1>1, <1>2, <1>3, SpellsFour
  <2> QED BY <1>1, <1>2, <1>3, <2>1
<1>7. Spells(<<L("globals"), P("Stmt"), L("block")>>,
             <<Many("local"), R("stmt"), Many("stmt")>>)
  <2>1. Spells(<<L("globals"), P("Stmt"), L("block")>>,
               <<Word(L("globals")), Word(P("Stmt")), Word(L("block"))>>)
    BY <1>1, <1>2, <1>3, SpellsThree
  <2> QED BY <1>1, <1>2, <1>3, <2>1
<1>8. Spells(<<T("global"), T("id"), T("NEWLINE")>>,
             <<K("global"), K("id"), K("NEWLINE")>>)
  <2>1. Spells(<<T("global"), T("id"), T("NEWLINE")>>,
               <<Word(T("global")), Word(T("id")), Word(T("NEWLINE"))>>)
    BY <1>1, <1>2, <1>3, SpellsThree
  <2> QED BY <1>1, <1>2, <1>3, <2>1
<1>9. Spells(<<T("nonlocal"), T("id"), T("NEWLINE")>>,
             <<K("nonlocal"), K("id"), K("NEWLINE")>>)
  <2>1. Spells(<<T("nonlocal"), T("id"), T("NEWLINE")>>,
               <<Word(T("nonlocal")), Word(T("id")), Word(T("NEWLINE"))>>)
    BY <1>1, <1>2, <1>3, SpellsThree
  <2> QED BY <1>1, <1>2, <1>3, <2>1
<1>10. Spells(<<P("TypedVar"), P("MoreParams")>>,
             <<R("typed_var"), Many("next_param")>>)
  <2>1. Spells(<<P("TypedVar"), P("MoreParams")>>,
               <<Word(P("TypedVar")), Word(P("MoreParams"))>>)
    BY <1>1, <1>2, <1>3, SpellsTwo
  <2> QED BY <1>1, <1>2, <1>3, <2>1
<1>11. Spells(<<P("Type")>>,
             <<R("type")>>)
  <2>1. Spells(<<P("Type")>>,
               <<Word(P("Type"))>>)
    BY <1>1, <1>2, <1>3, SpellsOne
  <2> QED BY <1>1, <1>2, <1>3, <2>1
<1>12. Spells(<<P("Type"), T("]")>>,
             <<R("type"), K("]")>>)
  <2>1. Spells(<<P("Type"), T("]")>>,
               <<Word(P("Type")), Word(T("]"))>>)
    BY <1>1, <1>2, <1>3, SpellsTwo
  <2> QED BY <1>1, <1>2, <1>3, <2>1
<1>13. Spells(<<P("FuncDef"), L("moreMembers")>>,
             <<R("func_def"), Many("member")>>)
  <2>1. Spells(<<P("FuncDef"), L("moreMembers")>>,
               <<Word(P("FuncDef")), Word(L("moreMembers"))>>)
    BY <1>1, <1>2, <1>3, SpellsTwo
  <2> QED BY <1>1, <1>2, <1>3, <2>1
<1> QED BY <1>4, <1>5, <1>6, <1>7, <1>8, <1>9, <1>10, <1>11, <1>12, <1>13

LEMMA StatementsSpell ==
  /\ Spells(<<P("IfStmt")>>,
            <<R("if_stmt")>>)
  /\ Spells(<<P("WhileStmt")>>,
            <<R("while_stmt")>>)
  /\ Spells(<<P("ForStmt")>>,
            <<R("for_stmt")>>)
  /\ Spells(<<P("SimpleStmt"), T("NEWLINE")>>,
            <<R("simple_stmt"), K("NEWLINE")>>)
  /\ Spells(<<T("if"), Expr, T(":"), P("Block"), P("Else")>>,
            <<K("if"), E(1), K(":"), R("block"), R("otherwise")>>)
  /\ Spells(<<T("elif"), Expr, T(":"), P("Block"), P("Else")>>,
            <<K("elif"), E(1), K(":"), R("block"), R("otherwise")>>)
  /\ Spells(<<T("while"), Expr, T(":"), P("Block")>>,
            <<K("while"), E(1), K(":"), R("block")>>)
  /\ Spells(<<T("for"), T("id"), T("in"), Expr, T(":"), P("Block")>>,
            <<K("for"), K("id"), K("in"), E(1), K(":"), R("block")>>)
  /\ Spells(<<T("NEWLINE"), T("INDENT"), P("Stmt"), L("block"),
       T("DEDENT")>>,
            <<K("NEWLINE"), K("INDENT"), R("stmt"), Many("stmt"),
            K("DEDENT")>>)
  /\ Spells(<<P("ElifStmt")>>,
            <<R("elif_stmt")>>)
  /\ Spells(<<T(":"), P("Block")>>,
            <<K(":"), R("block")>>)
  /\ Spells(<<Expr, P("MoreExprs")>>,
            <<E(1), Many("next_expr")>>)
<1>1. /\ T("NEWLINE") \in Words /\ Word(T("NEWLINE")) = K("NEWLINE") /\ T("NEWLINE") \in Settled
      /\ T("if") \in Words /\ Word(T("if")) = K("if") /\ T("if") \in Settled
      /\ T(":") \in Words /\ Word(T(":")) = K(":") /\ T(":") \in Settled
      /\ T("elif") \in Words /\ Word(T("elif")) = K("elif") /\ T("elif") \in Settled
      /\ T("while") \in Words /\ Word(T("while")) = K("while") /\ T("while") \in Settled
      /\ T("for") \in Words /\ Word(T("for")) = K("for") /\ T("for") \in Settled
      /\ T("id") \in Words /\ Word(T("id")) = K("id") /\ T("id") \in Settled
      /\ T("in") \in Words /\ Word(T("in")) = K("in") /\ T("in") \in Settled
      /\ T("INDENT") \in Words /\ Word(T("INDENT")) = K("INDENT") /\ T("INDENT") \in Settled
      /\ T("DEDENT") \in Words /\ Word(T("DEDENT")) = K("DEDENT") /\ T("DEDENT") \in Settled
  BY TokensAre, TokenWords
<1>2. /\ P("IfStmt") \in Words /\ Word(P("IfStmt")) = R("if_stmt") /\ P("IfStmt") \in Settled
      /\ P("WhileStmt") \in Words /\ Word(P("WhileStmt")) = R("while_stmt") /\ P("WhileStmt") \in Settled
      /\ P("ForStmt") \in Words /\ Word(P("ForStmt")) = R("for_stmt") /\ P("ForStmt") \in Settled
      /\ P("SimpleStmt") \in Words /\ Word(P("SimpleStmt")) = R("simple_stmt")
      /\ P("Block") \in Words /\ Word(P("Block")) = R("block") /\ P("Block") \in Settled
      /\ P("Else") \in Words /\ Word(P("Else")) = R("otherwise") /\ P("Else") \in Settled
      /\ P("Stmt") \in Words /\ Word(P("Stmt")) = R("stmt") /\ P("Stmt") \in Settled
      /\ P("ElifStmt") \in Words /\ Word(P("ElifStmt")) = R("elif_stmt") /\ P("ElifStmt") \in Settled
      /\ P("MoreExprs") \in Words /\ Word(P("MoreExprs")) = Many("next_expr") /\ P("MoreExprs") \in Settled
  BY CallWords, SymOfCalled DEF Callable
<1>3. /\ L("block") \in Words /\ Word(L("block")) = Many("stmt") /\ L("block") \in Settled
      /\ Expr \in Words /\ Word(Expr) = E(1)
  BY LoopWords, SymOfContinued, LevelWords DEF Loops, Expr
<1>4. Spells(<<P("IfStmt")>>,
             <<R("if_stmt")>>)
  <2>1. Spells(<<P("IfStmt")>>,
               <<Word(P("IfStmt"))>>)
    BY <1>1, <1>2, <1>3, SpellsOne
  <2> QED BY <1>1, <1>2, <1>3, <2>1
<1>5. Spells(<<P("WhileStmt")>>,
             <<R("while_stmt")>>)
  <2>1. Spells(<<P("WhileStmt")>>,
               <<Word(P("WhileStmt"))>>)
    BY <1>1, <1>2, <1>3, SpellsOne
  <2> QED BY <1>1, <1>2, <1>3, <2>1
<1>6. Spells(<<P("ForStmt")>>,
             <<R("for_stmt")>>)
  <2>1. Spells(<<P("ForStmt")>>,
               <<Word(P("ForStmt"))>>)
    BY <1>1, <1>2, <1>3, SpellsOne
  <2> QED BY <1>1, <1>2, <1>3, <2>1
<1>7. Spells(<<P("SimpleStmt"), T("NEWLINE")>>,
             <<R("simple_stmt"), K("NEWLINE")>>)
  <2>1. Spells(<<P("SimpleStmt"), T("NEWLINE")>>,
               <<Word(P("SimpleStmt")), Word(T("NEWLINE"))>>)
    BY <1>1, <1>2, <1>3, SpellsTwo
  <2> QED BY <1>1, <1>2, <1>3, <2>1
<1>8. Spells(<<T("if"), Expr, T(":"), P("Block"), P("Else")>>,
             <<K("if"), E(1), K(":"), R("block"), R("otherwise")>>)
  <2>1. Spells(<<T("if"), Expr, T(":"), P("Block"), P("Else")>>,
               <<Word(T("if")), Word(Expr), Word(T(":")), Word(P("Block")),
                Word(P("Else"))>>)
    BY <1>1, <1>2, <1>3, SpellsFive
  <2> QED BY <1>1, <1>2, <1>3, <2>1
<1>9. Spells(<<T("elif"), Expr, T(":"), P("Block"), P("Else")>>,
             <<K("elif"), E(1), K(":"), R("block"), R("otherwise")>>)
  <2>1. Spells(<<T("elif"), Expr, T(":"), P("Block"), P("Else")>>,
               <<Word(T("elif")), Word(Expr), Word(T(":")), Word(P("Block")),
                Word(P("Else"))>>)
    BY <1>1, <1>2, <1>3, SpellsFive
  <2> QED BY <1>1, <1>2, <1>3, <2>1
<1>10. Spells(<<T("while"), Expr, T(":"), P("Block")>>,
             <<K("while"), E(1), K(":"), R("block")>>)
  <2>1. Spells(<<T("while"), Expr, T(":"), P("Block")>>,
               <<Word(T("while")), Word(Expr), Word(T(":")),
                Word(P("Block"))>>)
    BY <1>1, <1>2, <1>3, SpellsFour
  <2> QED BY <1>1, <1>2, <1>3, <2>1
<1>11. Spells(<<T("for"), T("id"), T("in"), Expr, T(":"), P("Block")>>,
             <<K("for"), K("id"), K("in"), E(1), K(":"), R("block")>>)
  <2>1. Spells(<<T("for"), T("id"), T("in"), Expr, T(":"), P("Block")>>,
               <<Word(T("for")), Word(T("id")), Word(T("in")), Word(Expr),
                Word(T(":")), Word(P("Block"))>>)
    BY <1>1, <1>2, <1>3, SpellsSix
  <2> QED BY <1>1, <1>2, <1>3, <2>1
<1>12. Spells(<<T("NEWLINE"), T("INDENT"), P("Stmt"), L("block"),
            T("DEDENT")>>,
             <<K("NEWLINE"), K("INDENT"), R("stmt"), Many("stmt"),
              K("DEDENT")>>)
  <2>1. Spells(<<T("NEWLINE"), T("INDENT"), P("Stmt"), L("block"),
              T("DEDENT")>>,
               <<Word(T("NEWLINE")), Word(T("INDENT")), Word(P("Stmt")),
                Word(L("block")), Word(T("DEDENT"))>>)
    BY <1>1, <1>2, <1>3, SpellsFive
  <2> QED BY <1>1, <1>2, <1>3, <2>1
<1>13. Spells(<<P("ElifStmt")>>,
             <<R("elif_stmt")>>)
  <2>1. Spells(<<P("ElifStmt")>>,
               <<Word(P("ElifStmt"))>>)
    BY <1>1, <1>2, <1>3, SpellsOne
  <2> QED BY <1>1, <1>2, <1>3, <2>1
<1>14. Spells(<<T(":"), P("Block")>>,
             <<K(":"), R("block")>>)
  <2>1. Spells(<<T(":"), P("Block")>>,
               <<Word(T(":")), Word(P("Block"))>>)
    BY <1>1, <1>2, <1>3, SpellsTwo
  <2> QED BY <1>1, <1>2, <1>3, <2>1
<1>15. Spells(<<Expr, P("MoreExprs")>>,
             <<E(1), Many("next_expr")>>)
  <2>1. Spells(<<Expr, P("MoreExprs")>>,
               <<Word(Expr), Word(P("MoreExprs"))>>)
    BY <1>1, <1>2, <1>3, SpellsTwo
  <2> QED BY <1>1, <1>2, <1>3, <2>1
<1> QED BY <1>4, <1>5, <1>6, <1>7, <1>8, <1>9, <1>10, <1>11, <1>12, <1>13, <1>14, <1>15

\* Procedures that only call others.
LEMMA CallsForecast ==
  ASSUME ParserInv, ForecastsHold,
         ParseTypedVar \/ ParseVarDef \/ ParseFuncDef \/ ParseFuncBody \/
            ParseGlobalDecl \/ ParseNonlocalDecl \/ ParseWhileStmt \/
            ParseForStmt \/ ParseBlock
  PROVE  ForecastsHold'
<1>1. CASE ParseTypedVar
  <2>1. Yields(Sym(P("TypedVar")), <<K("id"), K(":"), R("type")>>)
    BY SymOfCalled, DeclarationsYield, Zenon
  <2>2. Spells(<<T("id"), T(":"), P("Type")>>, <<K("id"), K(":"),
              R("type")>>)
    BY DeclarationsSpell, Zenon
  <2>3. "TypedVar" \in Callable
    BY DEF Callable
  <2> QED BY <1>1, <2>1, <2>2, <2>3, ProcedureCalls, Zenon DEF ParseTypedVar
<1>2. CASE ParseVarDef
  <2>1. Yields(Sym(P("VarDef")), <<R("typed_var"), K("="), R("literal"),
              K("NEWLINE")>>)
    BY SymOfCalled, DeclarationsYield, Zenon
  <2>2. Spells(<<P("TypedVar"), T("="), P("Literal"), T("NEWLINE")>>,
              <<R("typed_var"), K("="), R("literal"), K("NEWLINE")>>)
    BY DeclarationsSpell, Zenon
  <2>3. "VarDef" \in Callable
    BY DEF Callable
  <2> QED BY <1>2, <2>1, <2>2, <2>3, ProcedureCalls, Zenon DEF ParseVarDef
<1>3. CASE ParseFuncDef
  <2>1. Yields(Sym(P("FuncDef")), <<K("def"), K("id"), K("("),
              Opt("params"), K(")"), Opt("return_type"), K(":"), K("NEWLINE"),
              K("INDENT"), R("func_body"), K("DEDENT")>>)
    BY SymOfCalled, DeclarationsYield, Zenon
  <2>2. Spells(<<T("def"), T("id"), T("("), P("Params"), T(")"),
              P("ReturnType"), T(":"), T("NEWLINE"), T("INDENT"),
              P("FuncBody"), T("DEDENT")>>, <<K("def"), K("id"), K("("),
              Opt("params"), K(")"), Opt("return_type"), K(":"), K("NEWLINE"),
              K("INDENT"), R("func_body"), K("DEDENT")>>)
    BY DeclarationsSpell, Zenon
  <2>3. "FuncDef" \in Callable
    BY DEF Callable
  <2> QED BY <1>3, <2>1, <2>2, <2>3, ProcedureCalls, Zenon DEF ParseFuncDef
<1>4. CASE ParseFuncBody
  <2>1. Yields(Sym(P("FuncBody")), <<Many("local"), R("stmt"),
              Many("stmt")>>)
    BY SymOfCalled, DeclarationsYield, Zenon
  <2>2. Spells(<<L("globals"), P("Stmt"), L("block")>>, <<Many("local"),
              R("stmt"), Many("stmt")>>)
    BY DeclarationsSpell, Zenon
  <2>3. "FuncBody" \in Callable
    BY DEF Callable
  <2> QED BY <1>4, <2>1, <2>2, <2>3, ProcedureCalls, Zenon DEF ParseFuncBody
<1>5. CASE ParseGlobalDecl
  <2>1. Yields(Sym(P("GlobalDecl")), <<K("global"), K("id"),
              K("NEWLINE")>>)
    BY SymOfCalled, DeclarationsYield, Zenon
  <2>2. Spells(<<T("global"), T("id"), T("NEWLINE")>>, <<K("global"),
              K("id"), K("NEWLINE")>>)
    BY DeclarationsSpell, Zenon
  <2>3. "GlobalDecl" \in Callable
    BY DEF Callable
  <2> QED BY <1>5, <2>1, <2>2, <2>3, ProcedureCalls, Zenon DEF ParseGlobalDecl
<1>6. CASE ParseNonlocalDecl
  <2>1. Yields(Sym(P("NonLocalDecl")), <<K("nonlocal"), K("id"),
              K("NEWLINE")>>)
    BY SymOfCalled, DeclarationsYield, Zenon
  <2>2. Spells(<<T("nonlocal"), T("id"), T("NEWLINE")>>,
              <<K("nonlocal"), K("id"), K("NEWLINE")>>)
    BY DeclarationsSpell, Zenon
  <2>3. "NonLocalDecl" \in Callable
    BY DEF Callable
  <2> QED BY <1>6, <2>1, <2>2, <2>3, ProcedureCalls, Zenon DEF ParseNonlocalDecl
<1>7. CASE ParseWhileStmt
  <2>1. Yields(Sym(P("WhileStmt")), <<K("while"), E(1), K(":"),
              R("block")>>)
    BY SymOfCalled, StatementsYield, Zenon
  <2>2. Spells(<<T("while"), Expr, T(":"), P("Block")>>, <<K("while"),
              E(1), K(":"), R("block")>>)
    BY StatementsSpell, Zenon
  <2>3. "WhileStmt" \in Callable
    BY DEF Callable
  <2> QED BY <1>7, <2>1, <2>2, <2>3, ProcedureCalls, Zenon DEF ParseWhileStmt
<1>8. CASE ParseForStmt
  <2>1. Yields(Sym(P("ForStmt")), <<K("for"), K("id"), K("in"), E(1),
              K(":"), R("block")>>)
    BY SymOfCalled, StatementsYield, Zenon
  <2>2. Spells(<<T("for"), T("id"), T("in"), Expr, T(":"), P("Block")>>,
              <<K("for"), K("id"), K("in"), E(1), K(":"), R("block")>>)
    BY StatementsSpell, Zenon
  <2>3. "ForStmt" \in Callable
    BY DEF Callable
  <2> QED BY <1>8, <2>1, <2>2, <2>3, ProcedureCalls, Zenon DEF ParseForStmt
<1>9. CASE ParseBlock
  <2>1. Yields(Sym(P("Block")), <<K("NEWLINE"), K("INDENT"), R("stmt"),
              Many("stmt"), K("DEDENT")>>)
    BY SymOfCalled, StatementsYield, Zenon
  <2>2. Spells(<<T("NEWLINE"), T("INDENT"), P("Stmt"), L("block"),
              T("DEDENT")>>, <<K("NEWLINE"), K("INDENT"), R("stmt"),
              Many("stmt"), K("DEDENT")>>)
    BY StatementsSpell, Zenon
  <2>3. "Block" \in Callable
    BY DEF Callable
  <2> QED BY <1>9, <2>1, <2>2, <2>3, ProcedureCalls, Zenon DEF ParseBlock
<1> QED BY <1>1, <1>2, <1>3, <1>4, <1>5, <1>6, <1>7, <1>8, <1>9

LEMMA IfForecasts ==
  ASSUME ParserInv, ForecastsHold, ParseIfStmt \/ ParseStmt
  PROVE  ForecastsHold'
<1>0. "IfStmt" \in Callable /\ "ElifStmt" \in Callable /\ "Stmt" \in Callable
  BY DEF Callable
<1>1. CASE At(P("IfStmt")) /\ Call(<<T("if"), Expr, T(":"), P("Block"), P("Else")>>)
  <2>1. Yields(Sym(P("IfStmt")), <<K("if"), E(1), K(":"), R("block"), R("otherwise")>>)
    BY SymOfCalled, StatementsYield, Zenon
  <2> QED BY <1>0, <1>1, <2>1, StatementsSpell, ProcedureCalls, Zenon
<1>2. CASE At(P("ElifStmt")) /\ Call(<<T("elif"), Expr, T(":"), P("Block"), P("Else")>>)
  <2>1. Yields(Sym(P("ElifStmt")), <<K("elif"), E(1), K(":"), R("block"), R("otherwise")>>)
    BY SymOfCalled, StatementsYield, Zenon
  <2> QED BY <1>0, <1>2, <2>1, StatementsSpell, ProcedureCalls, Zenon
<1>3. CASE ParseStmt
  <2>1. /\ Yields(Sym(P("Stmt")), <<R("if_stmt")>>)
        /\ Yields(Sym(P("Stmt")), <<R("while_stmt")>>)
        /\ Yields(Sym(P("Stmt")), <<R("for_stmt")>>)
        /\ Yields(Sym(P("Stmt")), <<R("simple_stmt"), K("NEWLINE")>>)
    BY SymOfCalled, StatementsYield, Zenon
  <2>2. /\ At(P("Stmt"))
        /\ \/ Call(<<P("IfStmt")>>) \/ Call(<<P("WhileStmt")>>) \/ Call(<<P("ForStmt")>>)
           \/ Call(<<P("SimpleStmt"), T("NEWLINE")>>)
    BY <1>3 DEF ParseStmt
  <2>3. ASSUME Call(<<P("IfStmt")>>) PROVE ForecastsHold'
    BY <1>0, <2>1, <2>2, <2>3, StatementsSpell, ProcedureCalls, Zenon
  <2>4. ASSUME Call(<<P("WhileStmt")>>) PROVE ForecastsHold'
    BY <1>0, <2>1, <2>2, <2>4, StatementsSpell, ProcedureCalls, Zenon
  <2>5. ASSUME Call(<<P("ForStmt")>>) PROVE ForecastsHold'
    BY <1>0, <2>1, <2>2, <2>5, StatementsSpell, ProcedureCalls, Zenon
  <2>6. ASSUME Call(<<P("SimpleStmt"), T("NEWLINE")>>) PROVE ForecastsHold'
    BY <1>0, <2>1, <2>2, <2>6, StatementsSpell, ProcedureCalls, Zenon
  <2> QED BY <2>2, <2>3, <2>4, <2>5, <2>6, Zenon
<1> QED BY <1>1, <1>2, <1>3 DEF ParseIfStmt

\* Loops that end.
LEMMA LoopsEnd ==
  ASSUME ParserInv, ForecastsHold,
         EndProgramLoop \/ EndClassBody \/ EndDeclLoop \/ EndBlock
  PROVE  ForecastsHold'
<1>1. /\ Call(<<>>)
      /\ \/ At(L("declarations")) \/ At(L("statements")) \/ At(L("moreMembers"))
         \/ At(L("globals")) \/ At(L("nonlocals")) \/ At(L("vars")) \/ At(L("block"))
  BY DEF EndProgramLoop, EndClassBody, EndDeclLoop, EndBlock, DeclLoop, At
<1>2. PICK x \in Loops \ {"members"} : At(L(x))
  BY <1>1 DEF Loops
<1>3. Yields(Sym(L(x)), <<>>)
  <2>1. \A A \in {"declaration", "stmt", "member", "local"} : Yields(Many(A), <<>>)
    BY YieldsMany DEF Nonterminals
  <2>2. x \in {"declarations", "statements", "moreMembers", "globals", "nonlocals",
               "vars", "block"}
    BY DEF Loops
  <2> QED BY <2>1, <2>2, SymOfContinued
<1>4. KeepsLast(<<>>)
  <2>1. Head1 = L("statements") => Tok = "eof" /\ pos' = pos
    BY <1>1 DEF EndProgramLoop, EndClassBody, EndDeclLoop, EndBlock, DeclLoop, At, Call,
                L, Entry
  <2>2. Tok = "eof" => pos = Len(text)
    BY Typed DEF IsText, Tok
  <2> QED BY <2>1, <2>2 DEF KeepsLast
<1> QED BY <1>1, <1>2, <1>3, <1>4, SpellsNone, LoopCalls

\* Calls whose failure is caught.
LEMMA TryForecasts ==
  ASSUME ParserInv, ForecastsHold, NEW x \in Loops, At(L(x)),
         NEW a \in Callable \ {"SimpleStmt"}, NEW r \in Recoveries, NEW l \in Loops,
         Call(<<P(a), Try(r), L(l)>>), Yields(Sym(L(x)), <<Sym(P(a)), Sym(L(l))>>),
         x = "statements" => l = "statements"
  PROVE  ForecastsHold'
<1>1. /\ P(a) \in Settled \cap Plain /\ Word(P(a)) = Sym(P(a))
      /\ L(l) \in Settled /\ Word(L(l)) = Sym(L(l))
  BY CallWords, LoopWords
<1>2. Spells(<<P(a), Try(r), L(l)>>, <<Word(P(a)), Word(L(l))>>)
  BY <1>1, SpellsTry
<1>3. Spells(<<P(a), Try(r), L(l)>>, <<Sym(P(a)), Sym(L(l))>>)
  BY <1>1, <1>2
<1>4. KeepsLast(<<P(a), Try(r), L(l)>>)
  <2> DEFINE u == <<P(a), Try(r), L(l)>>
  <2>1. Head1 = L(x) /\ u # <<>> /\ u[Len(u)] = L(l)
    BY DEF At
  <2>2. L(x) = L("statements") => x = "statements"
    BY DEF L, Entry
  <2> HIDE DEF u
  <2>3. KeepsLast(u)
    BY <2>1, <2>2, Zenon DEF KeepsLast
  <2> QED BY <2>3 DEF u
<1> QED BY <1>3, <1>4, LoopCalls, Zenon

LEMMA TriesForecast ==
  ASSUME ParserInv, ForecastsHold,
         \/ ProgramDeclaration \/ ProgramStatement \/ ClassMember \/ GlobalAlternative
         \/ NonlocalAlternative \/ VarAlternative \/ FuncAlternative \/ BlockStatement
  PROVE  ForecastsHold'
<1>0. /\ {"skip", "member", "nonlocal", "vars", "again", "break"} \subseteq Recoveries
      /\ {"declarations", "statements", "members", "moreMembers", "globals", "nonlocals",
          "vars", "block"} \subseteq Loops
      /\ {"FuncDef", "ClassDef", "VarDef", "Stmt", "GlobalDecl", "NonLocalDecl"}
           \subseteq Callable \ {"SimpleStmt"}
  BY DEF Recoveries, Loops, Callable
<1>1. CASE ProgramDeclaration
  <2>1. PICK a \in {"FuncDef", "ClassDef", "VarDef"} :
          Call(<<P(a), Try("skip"), L("declarations")>>) /\ At(L("declarations"))
    BY <1>1 DEF ProgramDeclaration
  <2>2. Yields(Sym(L("declarations")), <<Sym(P(a)), Sym(L("declarations"))>>)
    BY YieldsDeclaration, SymOfCalled, SymOfContinued
  <2> QED BY <1>0, <2>1, <2>2, TryForecasts
<1>2. CASE ProgramStatement
  <2>1. Yields(Sym(L("statements")), <<Sym(P("Stmt")), Sym(L("statements"))>>)
    BY RepetitionsYield, SymOfCalled, SymOfContinued, Zenon
  <2> QED BY <1>0, <1>2, <2>1, TryForecasts DEF ProgramStatement
<1>3. CASE BlockStatement
  <2>1. Yields(Sym(L("block")), <<Sym(P("Stmt")), Sym(L("block"))>>)
    BY RepetitionsYield, SymOfCalled, SymOfContinued, Zenon
  <2> QED BY <1>0, <1>3, <2>1, TryForecasts DEF BlockStatement
<1>4. CASE ClassMember
  <2>1. PICK x \in {"members", "moreMembers"} : At(L(x))
    BY <1>4 DEF ClassMember, MemberLoop, At
  <2>2. /\ Yields(Sym(L(x)), <<R("var_def"), Many("member")>>)
        /\ Yields(Sym(L(x)), <<R("func_def"), Many("member")>>)
    <3>1. \A b \in {"var_def", "func_def"} : Yields(Sym(L(x)), <<R(b), Many("member")>>)
      BY YieldsDeclaration, SymOfContinued
    <3> QED BY <3>1
  <2>3. CASE \E r \in {"member", "again"} : Call(<<P("VarDef"), Try(r), L("moreMembers")>>)
    <3>1. PICK r \in {"member", "again"} : Call(<<P("VarDef"), Try(r), L("moreMembers")>>)
      BY <2>3
    <3>2. Yields(Sym(L(x)), <<Sym(P("VarDef")), Sym(L("moreMembers"))>>)
      BY <2>2, SymOfCalled, SymOfContinued
    <3> QED BY <1>0, <2>1, <3>1, <3>2, TryForecasts
  <2>4. CASE Call(<<P("FuncDef"), L("moreMembers")>>)
    <3>1. Spells(<<P("FuncDef"), L("moreMembers")>>, <<R("func_def"), Many("member")>>)
      BY DeclarationsSpell, Zenon
    <3>2. x \in Loops
      BY <1>0
    <3>3. KeepsLast(<<P("FuncDef"), L("moreMembers")>>)
      BY <2>1 DEF At, KeepsLast, L, Entry
    <3> QED BY <2>1, <2>2, <2>4, <3>1, <3>2, <3>3, LoopCalls, Zenon
  <2> QED BY <1>4, <2>3, <2>4 DEF ClassMember
<1>5. CASE GlobalAlternative \/ NonlocalAlternative \/ VarAlternative \/ FuncAlternative
  <2>1. PICK x \in {"globals", "nonlocals", "vars"} : At(L(x))
    BY <1>5 DEF GlobalAlternative, NonlocalAlternative, VarAlternative, FuncAlternative,
                DeclLoop, At
  <2>2. PICK a \in {"GlobalDecl", "NonLocalDecl", "VarDef", "FuncDef"},
             r \in {"nonlocal", "vars", "again", "break"} :
          Call(<<P(a), Try(r), L("globals")>>)
    BY <1>5 DEF GlobalAlternative, NonlocalAlternative, VarAlternative, FuncAlternative
  <2>3. Yields(Sym(L(x)), <<Sym(P(a)), Sym(L("globals"))>>)
    <3>1. \A b \in {"global_decl", "nonlocal_decl", "var_def", "func_def"} :
            Yields(Many("local"), <<R(b), Many("local")>>)
      BY YieldsDeclaration
    <3> QED BY <3>1, SymOfCalled, SymOfContinued
  <2> QED BY <1>0, <2>1, <2>2, <2>3, TryForecasts
<1> QED BY <1>1, <1>2, <1>3, <1>4, <1>5

LEMMA SucceededForecasts ==
  ASSUME ParserInv, ForecastsHold, Succeeded
  PROVE  ForecastsHold'
<1>1. /\ Running /\ Head1.kind = "try" /\ Do(<<>>) /\ text' = text /\ pos' = pos
      /\ nodes' = nodes /\ diagnosed' = diagnosed /\ recovered' = recovered
      /\ target' = target
  BY DEF Succeeded, Call
<1>2. <<>> \in Seq(Entries)
  OBVIOUS
<1>3. ASSUME NEW x \in Forecasts, NEW z \in Forecasts, Predicts(<<>>, x, z)
      PROVE  x = z /\ Foresees(Head1, x, z)
  BY <1>1, <1>3, PredictsNone DEF Foresees
<1>4. \A x, z \in Forecasts :
           Predicts(<<>>, x, z) /\ (x[2] = "target" => target') =>
             \E y \in Forecasts :
               /\ Foresees(Head1, y, z) /\ (y[2] = "target" => target)
               /\ Reaches(text, pos, nodes, y[1]) => Reaches(text, pos', nodes', x[1])
  BY <1>1, <1>3
<1>5. KeepsOrder(<<>>)
  BY <1>1, NoneKeepOrder
<1> QED BY <1>1, <1>2, <1>4, <1>5, StepForecasts, Zenon

LEMMA ExpectedForecasts ==
  ASSUME ParserInv, ForecastsHold, Expected
  PROVE  ForecastsHold'
<1>1. /\ Running /\ Head1.kind = "expect" /\ Tok = Head1.name
      /\ Do(<<>>) /\ Consume(1) /\ text' = text
      /\ nodes' = nodes /\ diagnosed' = diagnosed /\ recovered' = recovered
      /\ target' = target
  BY DEF Expected, Take
<1>2. <<>> \in Seq(Entries)
  OBVIOUS
<1>3. ASSUME NEW x \in Forecasts, NEW z \in Forecasts, Predicts(<<>>, x, z),
             x[2] = "target" => target'
      PROVE  \E y \in Forecasts :
               /\ Foresees(Head1, y, z) /\ (y[2] = "target" => target)
               /\ Reaches(text, pos, nodes, y[1]) => Reaches(text, pos', nodes', x[1])
  <2> DEFINE y == <<Then(K(Tok), z[1]), IF Tok = ")" THEN z[2] ELSE "any">>
  <2>1. x = z /\ z[1] \in Seq(Symbols) /\ z[2] \in {"any", "target"}
    BY <1>3, PredictsNone, ForecastTypes
  <2>2. y \in Forecasts
    BY <2>1, Typed, ThenType DEF Forecasts
  <2>3. Foresees(Head1, y, z)
    BY <1>1 DEF Foresees
  <2>4. y[2] = "target" => target
    BY <1>1, <1>3, <2>1
  <2>5. Reaches(text, pos, nodes, Then(K(Tok), z[1])) => Reaches(text, pos', nodes', z[1])
    BY <1>1, <2>1, ReadsToken
  <2>6. y[1] = Then(K(Tok), z[1])
    OBVIOUS
  <2> HIDE DEF y
  <2> QED BY <2>1, <2>2, <2>3, <2>4, <2>5, <2>6
<1>4. KeepsOrder(<<>>)
  BY <1>1, NoneKeepOrder
<1> QED BY <1>1, <1>2, <1>3, <1>4, StepForecasts

\* Rules that begin with a token.
LEMMA BeginWith ==
  ASSUME NEW s, NEW a \in Symbols
  PROVE  /\ Yields(s, <<a>>) => Yields(s, Then(a, <<>>))
         /\ \A b \in Symbols : Yields(s, <<a, b>>) => Yields(s, Then(a, <<b>>))
         /\ \A b, c \in Symbols : Yields(s, <<a, b, c>>) => Yields(s, Then(a, <<b, c>>))
<1>1. Then(a, <<>>) = <<a>>
  BY ThenTuples
<1>2. ASSUME NEW b \in Symbols
      PROVE  Then(a, <<b>>) = <<a, b>>
  BY ThenTuples
<1>3. ASSUME NEW b \in Symbols, NEW c \in Symbols
      PROVE  Then(a, <<b, c>>) = <<a, b, c>>
  BY ThenTuples
<1> QED BY <1>1, <1>2, <1>3, Zenon

LEMMA TokensBegin ==
  /\ Yields(Many("next_param"), Then(K(","), <<R("typed_var"), Many("next_param")>>))
  /\ Yields(Opt("return_type"), Then(K("->"), <<R("type")>>))
  /\ Yields(R("type"), Then(K("id"), <<>>)) /\ Yields(R("type"), Then(K("idstr"), <<>>))
  /\ Yields(R("type"), Then(K("["), <<R("type"), K("]")>>))
  /\ Yields(R("literal"), Then(K("lit"), <<>>))
  /\ Yields(R("literal"), Then(K("idstr"), <<>>))
  /\ Yields(R("simple_stmt"), Then(K("pass"), <<>>))
  /\ Yields(R("simple_stmt"), Then(K("return"), <<>>))
  /\ Yields(R("otherwise"), Then(K("else"), <<K(":"), R("block")>>))
  /\ Yields(Many("next_expr"), Then(K(","), <<E(1), Many("next_expr")>>))
<1>1. /\ K("->") \in Symbols /\ K("id") \in Symbols /\ K("idstr") \in Symbols
      /\ K("[") \in Symbols /\ K("]") \in Symbols /\ K("lit") \in Symbols
      /\ K("pass") \in Symbols /\ K("return") \in Symbols /\ K("else") \in Symbols
      /\ K(":") \in Symbols
  BY SymbolTypes, TokensAre
<1>2. K(",") \in Symbols
  BY SymbolTypes, Zenon DEF Tokens
<1>3. /\ R("typed_var") \in Symbols /\ Many("next_param") \in Symbols
      /\ R("type") \in Symbols /\ R("block") \in Symbols
      /\ Many("next_expr") \in Symbols /\ E(1) \in Symbols
  BY SymbolTypes DEF Nonterminals
<1>4. /\ Yields(R("type"), Then(K("id"), <<>>)) /\ Yields(R("type"), Then(K("idstr"), <<>>))
      /\ Yields(R("literal"), Then(K("lit"), <<>>))
      /\ Yields(R("literal"), Then(K("idstr"), <<>>))
      /\ Yields(R("simple_stmt"), Then(K("pass"), <<>>))
      /\ Yields(R("simple_stmt"), Then(K("return"), <<>>))
  BY <1>1, BeginWith, DeclarationsYield, StatementsYield, Zenon
<1>5. /\ Yields(Opt("return_type"), Then(K("->"), <<R("type")>>))
      /\ Yields(R("type"), Then(K("["), <<R("type"), K("]")>>))
      /\ Yields(R("otherwise"), Then(K("else"), <<K(":"), R("block")>>))
  BY <1>1, <1>3, BeginWith, DeclarationsYield, StatementsYield, RepetitionsYield, Zenon
<1>6. /\ Yields(Many("next_param"), Then(K(","), <<R("typed_var"), Many("next_param")>>))
      /\ Yields(Many("next_expr"), Then(K(","), <<E(1), Many("next_expr")>>))
  BY <1>2, <1>3, BeginWith, RepetitionsYield, Zenon
<1> QED BY <1>4, <1>5, <1>6, Zenon

LEMMA TakesForecast ==
  ASSUME ParserInv, ForecastsHold,
         ParseParams \/ ParseReturnType \/ ParseType \/ ParseLiteral \/ ParseElse
  PROVE  ForecastsHold'
<1>0. /\ "Params" \in Callable /\ "MoreParams" \in Callable /\ "ReturnType" \in Callable
      /\ "Type" \in Callable /\ "Literal" \in Callable /\ "Else" \in Callable
  BY DEF Callable
<1>1. CASE At(P("Params")) /\ Call(<<>>)
  <2>1. Yields(Sym(P("Params")), <<>>)
    BY SymOfCalled, YieldsMany, Zenon DEF Nonterminals
  <2> QED BY <1>0, <1>1, <2>1, SpellsNone, ProcedureCalls, Zenon
<1>2. CASE At(P("Params")) /\ Call(<<P("TypedVar"), P("MoreParams")>>)
  <2>1. Yields(Sym(P("Params")), <<R("typed_var"), Many("next_param")>>)
    BY SymOfCalled, RepetitionsYield, Zenon
  <2> QED BY <1>0, <1>2, <2>1, DeclarationsSpell, ProcedureCalls, Zenon
<1>3. CASE At(P("MoreParams")) /\ Tok = "," /\ Take(<<P("TypedVar"), P("MoreParams")>>)
  <2>1. Yields(Sym(P("MoreParams")), Then(K(Tok), <<R("typed_var"), Many("next_param")>>))
    BY <1>3, SymOfCalled, TokensBegin, Zenon
  <2> QED BY <1>0, <1>3, <2>1, DeclarationsSpell, ProcedureTakes, Zenon
<1>4. CASE At(P("MoreParams")) /\ Call(<<>>)
  <2>1. Yields(Sym(P("MoreParams")), <<>>)
    BY SymOfCalled, YieldsMany, Zenon DEF Nonterminals
  <2> QED BY <1>0, <1>4, <2>1, SpellsNone, ProcedureCalls, Zenon
<1>5. CASE At(P("ReturnType")) /\ Tok = "->" /\ Take(<<P("Type")>>)
  <2>1. Yields(Sym(P("ReturnType")), Then(K(Tok), <<R("type")>>))
    BY <1>5, SymOfCalled, TokensBegin, Zenon
  <2> QED BY <1>0, <1>5, <2>1, DeclarationsSpell, ProcedureTakes, Zenon
<1>6. CASE At(P("ReturnType")) /\ Call(<<>>)
  <2>1. Yields(Sym(P("ReturnType")), <<>>)
    BY SymOfCalled, YieldsMany, Zenon DEF Nonterminals
  <2> QED BY <1>0, <1>6, <2>1, SpellsNone, ProcedureCalls, Zenon
<1>7. CASE At(P("Type")) /\ Tok \in {"id", "idstr"} /\ Take(<<>>)
  <2>1. Yields(Sym(P("Type")), Then(K(Tok), <<>>))
    BY <1>7, SymOfCalled, TokensBegin, Zenon
  <2> QED BY <1>0, <1>7, <2>1, SpellsNone, ProcedureTakes, Zenon
<1>8. CASE At(P("Type")) /\ Tok = "[" /\ Take(<<P("Type"), T("]")>>)
  <2>1. Yields(Sym(P("Type")), Then(K(Tok), <<R("type"), K("]")>>))
    BY <1>8, SymOfCalled, TokensBegin, Zenon
  <2> QED BY <1>0, <1>8, <2>1, DeclarationsSpell, ProcedureTakes, Zenon
<1>9. CASE ParseLiteral
  <2>1. At(P("Literal")) /\ Tok \in {"lit", "idstr"} /\ Take(<<>>)
    BY <1>9 DEF ParseLiteral
  <2>2. Yields(Sym(P("Literal")), Then(K(Tok), <<>>))
    BY <2>1, SymOfCalled, TokensBegin, Zenon
  <2> QED BY <1>0, <2>1, <2>2, SpellsNone, ProcedureTakes, Zenon
<1>10. CASE At(P("Else")) /\ Call(<<P("ElifStmt")>>)
  <2>1. Yields(Sym(P("Else")), <<R("elif_stmt")>>)
    BY SymOfCalled, StatementsYield, Zenon
  <2> QED BY <1>0, <1>10, <2>1, StatementsSpell, ProcedureCalls, Zenon
<1>11. CASE At(P("Else")) /\ Tok = "else" /\ Take(<<T(":"), P("Block")>>)
  <2>1. Yields(Sym(P("Else")), Then(K(Tok), <<K(":"), R("block")>>))
    BY <1>11, SymOfCalled, TokensBegin, Zenon
  <2> QED BY <1>0, <1>11, <2>1, StatementsSpell, ProcedureTakes, Zenon
<1>12. CASE At(P("Else")) /\ Call(<<>>)
  <2>1. Yields(Sym(P("Else")), <<>>)
    BY SymOfCalled, StatementsYield, Zenon
  <2> QED BY <1>0, <1>12, <2>1, SpellsNone, ProcedureCalls, Zenon
<1>13. CASE ParseParams
  BY <1>13, <1>1, <1>2, <1>3, <1>4, Zenon DEF ParseParams
<1> QED BY <1>5, <1>6, <1>7, <1>8, <1>9, <1>10, <1>11, <1>12, <1>13
        DEF ParseReturnType, ParseType, ParseElse

LEMMA ExprListForecasts ==
  ASSUME ParserInv, ForecastsHold, ParseExprList
  PROVE  ForecastsHold'
<1>0. "Elements" \in Callable /\ "Arguments" \in Callable /\ "MoreExprs" \in Callable
  BY DEF Callable
<1>1. ASSUME NEW x \in {"Elements", "Arguments"}, At(P(x)),
             Call(<<>>) \/ Call(<<Expr, P("MoreExprs")>>)
      PROVE  ForecastsHold'
  <2>1. Sym(P(x)) = Opt("exprs") /\ x \in Callable
    BY <1>0, SymOfCalled
  <2>2. Yields(Sym(P(x)), <<>>) /\ Yields(Sym(P(x)), <<E(1), Many("next_expr")>>)
    <3>1. Yields(Opt("exprs"), <<>>) /\ Yields(Opt("exprs"), <<E(1), Many("next_expr")>>)
      BY RepetitionsYield, YieldsMany, Zenon DEF Nonterminals
    <3> QED BY <2>1, <3>1
  <2>3. Spells(<<Expr, P("MoreExprs")>>, <<E(1), Many("next_expr")>>)
    BY StatementsSpell, Zenon
  <2> QED BY <1>1, <2>1, <2>2, <2>3, SpellsNone, ProcedureCalls, Zenon
<1>2. CASE At(P("MoreExprs")) /\ Tok = "," /\ Take(<<Expr, P("MoreExprs")>>)
  <2>1. Yields(Sym(P("MoreExprs")), Then(K(Tok), <<E(1), Many("next_expr")>>))
    BY <1>2, SymOfCalled, TokensBegin, Zenon
  <2> QED BY <1>0, <1>2, <2>1, StatementsSpell, ProcedureTakes, Zenon
<1>3. CASE At(P("MoreExprs")) /\ Call(<<>>)
  <2>1. Yields(Sym(P("MoreExprs")), <<>>)
    BY SymOfCalled, YieldsMany, Zenon DEF Nonterminals
  <2> QED BY <1>0, <1>3, <2>1, SpellsNone, ProcedureCalls, Zenon
<1> QED BY <1>1, <1>2, <1>3, Zenon DEF ParseExprList

LEMMA UnfoldTwo ==
  ASSUME NEW a \in Symbols, NEW b \in Symbols, NEW f \in Seq(Symbols)
  PROVE  <<a, b>> \o f = Then(a, Then(b, f))
<1>1. <<b>> \in Seq(Symbols) /\ Then(a, <<b>>) = <<a, b>>
  BY ThenTuples
<1>2. Then(a, <<b>>) \o f = Then(a, <<b>> \o f)
  BY <1>1, ThenConcat, Zenon
<1> QED BY <1>1, <1>2, Zenon DEF Then

LEMMA UnfoldThree ==
  ASSUME NEW a \in Symbols, NEW b \in Symbols, NEW c \in Symbols, NEW f \in Seq(Symbols)
  PROVE  <<a, b, c>> \o f = Then(a, Then(b, Then(c, f)))
<1>1. <<b, c>> \in Seq(Symbols) /\ Then(a, <<b, c>>) = <<a, b, c>>
  BY ThenTuples
<1>2. Then(a, <<b, c>>) \o f = Then(a, <<b, c>> \o f)
  BY <1>1, ThenConcat, Zenon
<1>3. <<b, c>> \o f = Then(b, Then(c, f))
  BY UnfoldTwo, Zenon
<1> QED BY <1>1, <1>2, <1>3, Zenon

LEMMA UnfoldFour ==
  ASSUME NEW a \in Symbols, NEW b \in Symbols, NEW c \in Symbols, NEW d \in Symbols,
         NEW f \in Seq(Symbols)
  PROVE  <<a, b, c, d>> \o f = Then(a, Then(b, Then(c, Then(d, f))))
<1>1. <<b, c, d>> \in Seq(Symbols) /\ Then(a, <<b, c, d>>) = <<a, b, c, d>>
  BY ThenTuples
<1>2. Then(a, <<b, c, d>>) \o f = Then(a, <<b, c, d>> \o f)
  BY <1>1, ThenConcat, Zenon
<1>3. <<b, c, d>> \o f = Then(b, Then(c, Then(d, f)))
  BY UnfoldThree, Zenon
<1> QED BY <1>1, <1>2, <1>3, Zenon

\* A step that fails, or that reports something, foresees nothing.
LEMMA FailureForecasts ==
  ASSUME recovered' \/ diagnosed'
  PROVE  ForecastsHold'
BY DEF ForecastsHold

LEMMA ClassBodyForecasts ==
  ASSUME ParserInv, ForecastsHold, ParseClassBody
  PROVE  ForecastsHold'
<1>0. /\ At(P("ClassBody")) /\ "ClassBody" \in Callable /\ Running
      /\ Sym(P("ClassBody")) = R("class_body")
      /\ text' = text /\ target' = target /\ nodes' = nodes /\ recovered' = recovered
  BY SymOfCalled DEF ParseClassBody, Callable, At
<1>1. CASE Tok # "pass"
  <2>1. Call(<<L("members")>>)
    BY <1>0, <1>1 DEF ParseClassBody, Call
  <2>2. Spells(<<L("members")>>, <<R("members")>>)
    <3>1. L("members") \in Settled /\ Word(L("members")) = R("members")
      BY LoopWords, SymOfContinued DEF Loops
    <3>2. Spells(<<L("members")>>, <<Word(L("members"))>>)
      BY <3>1, SpellsOne
    <3> QED BY <3>1, <3>2
  <2>3. Yields(Sym(P("ClassBody")), <<R("members")>>)
    BY <1>0, DeclarationsYield, Zenon
  <2> QED BY <1>0, <2>1, <2>2, <2>3, ProcedureCalls, Zenon
<1>2. CASE Tok = "pass" /\ LookAhead0 # "NEWLINE"
  <2>1. diagnosed'
    BY <1>2 DEF ParseClassBody
  <2> QED BY <2>1, FailureForecasts
<1>3. CASE Tok = "pass" /\ LookAhead0 = "NEWLINE"
  <2>1. Do(<<L("moreMembers")>>) /\ Consume(2) /\ diagnosed' = diagnosed
    BY <1>3, Typed DEF ParseClassBody, ParserInv, TypeOK
  <2>2. /\ text[pos] = "pass" /\ text[pos + 1] = "NEWLINE" /\ pos' = pos + 2
        /\ Next1(text, pos) = pos + 1 /\ Next1(text, pos + 1) = pos + 2
        /\ pos + 1 \in 1 .. Len(text)
    <3>1. /\ pos \in 1 .. Len(text) /\ Len(text) \in Nat
          /\ \A i \in 1 .. Len(text) : text[i] = "eof" <=> i = Len(text)
      BY Typed DEF IsText
    <3>2. pos # Len(text) /\ text[pos] = "pass"
      BY <1>3, <3>1 DEF Tok
    <3>3. text[pos + 1] = "NEWLINE"
      BY <1>3, <3>2 DEF LookAhead0
    <3>4. pos + 1 \in 1 .. Len(text) /\ pos + 1 # Len(text)
      BY <3>1, <3>2, <3>3
    <3> QED BY <2>1, <3>1, <3>2, <3>3, <3>4 DEF Consume, Next1
  <2>3. ASSUME NEW x \in Forecasts, NEW z \in Forecasts, Predicts(<<L("moreMembers")>>, x, z)
        PROVE  \E y \in Forecasts :
                 /\ Foresees(Head1, y, z) /\ (y[2] = "target" => target)
                 /\ Reaches(text, pos, nodes, y[1]) => Reaches(text, pos', nodes', x[1])
    <3> DEFINE y == <<Then(R("class_body"), z[1]), "any">>
               m == Many("member")
    <3>1. z[1] \in Seq(Symbols)
      BY ForecastTypes
    <3>2. m \in Symbols /\ K("pass") \in Symbols /\ K("NEWLINE") \in Symbols
          /\ R("class_body") \in Symbols
      BY SymbolTypes, TokensAre DEF Nonterminals
    <3>3. x[1] = Then(m, z[1])
      <4>1. L("moreMembers") \in Settled /\ Word(L("moreMembers")) = m
            /\ L("moreMembers") \in Words
        BY LoopWords, SymOfContinued DEF Loops
      <4>2. Foresees(L("moreMembers"), x, z)
        BY <2>3, PredictsOne
      <4>3. x = <<Then(Word(L("moreMembers")), z[1]), "any">>
        BY <4>1, <4>2, WordForesees
      <4> QED BY <4>1, <4>3
    <3>4. y \in Forecasts
      BY <3>1, <3>2, ThenType DEF Forecasts
    <3>5. Foresees(Head1, y, z)
      <4>1. Head1 = P("ClassBody") /\ P("ClassBody") \in Plain
        BY <1>0, CallWords DEF At
      <4> QED BY <1>0, <4>1, ForeseesPlain
    <3>6. ASSUME Reaches(text, pos, nodes, Then(R("class_body"), z[1]))
          PROVE  Reaches(text, pos', nodes', x[1])
      <4>1. Yields(R("class_body"), <<K("pass"), K("NEWLINE"), m>>)
        BY DeclarationsYield, Zenon
      <4>2. Reaches(text, pos, nodes, <<K("pass"), K("NEWLINE"), m>> \o z[1])
        BY <3>1, <3>6, <4>1, Typed, Zenon DEF Yields
      <4>3. Reaches(text, pos, nodes, Then(K("pass"), Then(K("NEWLINE"), x[1])))
        <5>1. <<K("pass"), K("NEWLINE"), m>> \o z[1]
                = Then(K("pass"), Then(K("NEWLINE"), Then(m, z[1])))
          BY <3>1, <3>2, UnfoldThree
        <5> QED BY <3>3, <4>2, <5>1, Zenon
      <4>4. x[1] \in Seq(Symbols) /\ Then(K("NEWLINE"), x[1]) \in Seq(Symbols)
        BY <3>2, ForecastTypes, ThenType
      <4>5. Reaches(text, pos + 1, nodes, Then(K("NEWLINE"), x[1]))
        <5>1. Reaches(text, pos, nodes, Then(K(text[pos]), Then(K("NEWLINE"), x[1])))
              /\ K(text[pos]) \in Symbols
          BY <2>2, <3>2, <4>3
        <5>2. Reaches(text, Next1(text, pos), nodes, Then(K("NEWLINE"), x[1]))
          BY <4>4, <5>1, Typed, DeriveToken, Zenon
        <5> QED BY <2>2, <5>2
      <4>6. Reaches(text, Next1(text, pos + 1), nodes, x[1])
        <5>1. Reaches(text, pos + 1, nodes, Then(K(text[pos + 1]), x[1]))
              /\ K(text[pos + 1]) \in Symbols
          BY <2>2, <3>2, <4>5
        <5> QED BY <2>2, <4>4, <5>1, Typed, DeriveToken, Zenon
      <4> QED BY <1>0, <2>2, <4>6
    <3>7. y[1] = Then(R("class_body"), z[1]) /\ y[2] # "target"
      OBVIOUS
    <3> HIDE DEF y
    <3> QED BY <3>4, <3>5, <3>6, <3>7
  <2>4. <<L("moreMembers")>> \in Seq(Entries)
    BY LoopWords DEF Loops
  <2>5. KeepsOrder(<<L("moreMembers")>>)
    <3>1. L("moreMembers") \in Entries /\ L("moreMembers").kind # "more" /\ Head1.kind = "call"
      BY <1>0, LoopWords DEF Loops, L, P, Entry, At
    <3> QED BY <3>1, FewKeepOrder
  <2> QED BY <1>0, <2>1, <2>3, <2>4, <2>5, StepForecasts
<1> QED BY <1>1, <1>2, <1>3

LEMMA SimpleStmtForecasts ==
  ASSUME ParserInv, ForecastsHold, ParseSimpleStmt
  PROVE  ForecastsHold'
<1>0. /\ "SimpleStmt" \in Callable /\ Sym(P("SimpleStmt")) = R("simple_stmt")
      /\ P("SimpleStmt") \in Plain
      /\ At(P("SimpleStmt")) /\ Running /\ Head1 = P("SimpleStmt")
  BY SymOfCalled, CallWords DEF ParseSimpleStmt, Callable, At
<1>a. /\ R("simple_stmt") \in Symbols /\ R("target") \in Symbols /\ E(1) \in Symbols
      /\ K("return") \in Symbols /\ K("=") \in Symbols /\ Many("assigned") \in Symbols
  BY SymbolTypes, TokensAre DEF Nonterminals
<1>1. CASE (Tok = "pass" \/ Tok = "return") /\ Take(<<>>)
  <2>1. Yields(Sym(P("SimpleStmt")), Then(K(Tok), <<>>))
    BY <1>0, <1>1, TokensBegin, Zenon
  <2> QED BY <1>0, <1>1, <2>1, SpellsNone, ProcedureTakes, Zenon
<1>2. CASE Tok = "return" /\ Take(<<Expr>>)
  <2>1. /\ Do(<<Expr>>) /\ text' = text /\ recovered' = recovered /\ diagnosed' = diagnosed
        /\ Consume(1) /\ nodes' = nodes
    BY <1>2 DEF Take
  <2>2. Expr \in Entries /\ Expr.kind = "level" /\ Expr.to = 1
    BY LevelWords, WordOf DEF Expr
  <2>3. ASSUME NEW x \in Forecasts, NEW z \in Forecasts, Predicts(<<Expr>>, x, z)
        PROVE  \E y \in Forecasts :
                 /\ Foresees(Head1, y, z) /\ (y[2] = "target" => target)
                 /\ Reaches(text, pos, nodes, y[1]) => Reaches(text, pos', nodes', x[1])
    <3>1. z[1] \in Seq(Symbols) /\ z[2] \in {"any", "target"}
      BY ForecastTypes
    <3>2. x = <<Then(IF z[2] = "any" THEN E(1) ELSE R("target"), z[1]), "any">>
      BY <2>2, <2>3, PredictsOne, ForeseesLevel
    <3>3. x[1] \in Seq(Symbols)
      BY ForecastTypes
    <3>4. CASE z[2] = "any"
      <4> DEFINE y == <<Then(R("simple_stmt"), z[1]), "any">>
      <4>1. y \in Forecasts
        BY <1>a, <3>1, ThenType DEF Forecasts
      <4>2. Foresees(Head1, y, z)
        BY <1>0, ForeseesPlain
      <4>3. ASSUME Reaches(text, pos, nodes, Then(R("simple_stmt"), z[1]))
            PROVE  Reaches(text, pos', nodes', x[1])
        <5>1. Reaches(text, pos, nodes, <<K("return"), E(1)>> \o z[1])
          BY <3>1, <4>3, StatementsYield, Typed, Zenon DEF Yields
        <5>2. <<K("return"), E(1)>> \o z[1] = Then(K("return"), x[1])
          <6>1. <<K("return"), E(1)>> \o z[1] = Then(K("return"), Then(E(1), z[1]))
            BY <1>a, <3>1, UnfoldTwo
          <6> QED BY <3>2, <3>4, <6>1
        <5>3. Reaches(text, pos, nodes, Then(K(Tok), x[1]))
          BY <1>2, <5>1, <5>2
        <5> QED BY <2>1, <3>3, <5>3, ReadsToken
      <4>4. y[1] = Then(R("simple_stmt"), z[1]) /\ y[2] # "target"
        OBVIOUS
      <4> HIDE DEF y
      <4> QED BY <4>1, <4>2, <4>3, <4>4
    <3>5. CASE z[2] = "target"
      <4> DEFINE y == <<Then(K("return"), Then(R("target"), z[1])), "any">>
      <4>1. y \in Forecasts
        BY <1>a, <3>1, ThenType DEF Forecasts
      <4>2. Foresees(Head1, y, z)
        BY <1>0, <3>5, ForeseesPlain
      <4>3. x[1] = Then(R("target"), z[1])
        BY <3>2, <3>5
      <4>4. ASSUME Reaches(text, pos, nodes, Then(K("return"), Then(R("target"), z[1])))
            PROVE  Reaches(text, pos', nodes', x[1])
        <5>1. Reaches(text, pos, nodes, Then(K(Tok), x[1]))
          BY <1>2, <4>3, <4>4
        <5> QED BY <2>1, <3>3, <5>1, ReadsToken
      <4>5. y[1] = Then(K("return"), Then(R("target"), z[1])) /\ y[2] # "target"
        OBVIOUS
      <4> HIDE DEF y
      <4> QED BY <4>1, <4>2, <4>4, <4>5
    <3> QED BY <3>1, <3>4, <3>5
  <2>4. <<Expr>> \in Seq(Entries)
    BY <2>2
  <2>5. KeepsOrder(<<Expr>>)
    <3>1. Head1.kind = "call"
      BY <1>0, KindsApart
    <3> QED BY <2>2, <3>1, FewKeepOrder
  <2> QED BY <1>0, <2>1, <2>3, <2>4, <2>5, StepForecasts
<1>3. CASE Call(<<Expr, P("Assignments")>>)
  <2>1. /\ Do(<<Expr, P("Assignments")>>) /\ text' = text /\ recovered' = recovered
        /\ diagnosed' = diagnosed /\ pos' = pos /\ nodes' = nodes
    BY <1>3 DEF Call
  <2>2. Expr \in Entries /\ Expr.kind = "level" /\ Expr.to = 1
    BY LevelWords, WordOf DEF Expr
  <2>3. ASSUME NEW x \in Forecasts, NEW z \in Forecasts,
               Predicts(<<Expr, P("Assignments")>>, x, z)
        PROVE  \E y \in Forecasts :
                 /\ Foresees(Head1, y, z) /\ (y[2] = "target" => target)
                 /\ Reaches(text, pos, nodes, y[1]) => Reaches(text, pos', nodes', x[1])
    <3>1. PICK v \in Forecasts : Foresees(Expr, x, v) /\ Foresees(P("Assignments"), v, z)
      BY <2>3, PredictsTwo
    <3>2. z[1] \in Seq(Symbols)
      BY ForecastTypes
    <3>3. x = <<Then(IF v[2] = "any" THEN E(1) ELSE R("target"), v[1]), "any">>
      BY <2>2, <3>1, ForeseesLevel
    <3> DEFINE y == <<Then(R("simple_stmt"), z[1]), "any">>
               a == Then(K("="), Then(Many("assigned"), Then(E(1), z[1])))
    <3>4. y \in Forecasts
      BY <1>a, <3>2, ThenType DEF Forecasts
    <3>5. Foresees(Head1, y, z)
      BY <1>0, ForeseesPlain
    <3>6. v = <<z[1], "any">> \/ v = <<a, "target">>
      BY <3>1, ForeseesAssignments, Zenon
    <3>7. ASSUME Reaches(text, pos, nodes, Then(R("simple_stmt"), z[1]))
          PROVE  Reaches(text, pos, nodes, x[1])
      <4>1. CASE v = <<z[1], "any">>
        <5>1. Reaches(text, pos, nodes, <<E(1)>> \o z[1])
          BY <3>2, <3>7, AssignmentsYield, Typed, Zenon DEF Yields
        <5>2. x[1] = Then(E(1), z[1])
          BY <3>3, <4>1
        <5> QED BY <5>1, <5>2 DEF Then
      <4>2. CASE v = <<a, "target">>
        <5>1. Reaches(text, pos, nodes, <<R("target"), K("="), Many("assigned"), E(1)>> \o z[1])
          BY <3>2, <3>7, AssignmentsYield, Typed, Zenon DEF Yields
        <5>2. <<R("target"), K("="), Many("assigned"), E(1)>> \o z[1] = Then(R("target"), a)
          BY <1>a, <3>2, UnfoldFour
        <5> HIDE DEF a
        <5>3. x[1] = Then(R("target"), a)
          BY <3>3, <4>2
        <5> QED BY <5>1, <5>2, <5>3
      <4> QED BY <3>6, <4>1, <4>2
    <3>8. y[1] = Then(R("simple_stmt"), z[1]) /\ y[2] # "target"
      OBVIOUS
    <3> HIDE DEF y
    <3> QED BY <2>1, <3>4, <3>5, <3>7, <3>8
  <2>4. <<Expr, P("Assignments")>> \in Seq(Entries)
    <3>1. P("Assignments") \in Entries
      BY CallEntry DEF Procedures, Quiet, Inner
    <3> QED BY <2>2, <3>1
  <2>5. KeepsOrder(<<Expr, P("Assignments")>>)
    <3>1. P("Assignments") \in Entries /\ P("Assignments").kind # "more" /\ Head1.kind = "call"
      BY <1>0, CallEntry, KindsApart DEF Procedures, Quiet, Inner
    <3> QED BY <2>2, <3>1, FewKeepOrder
  <2> QED BY <1>0, <2>1, <2>3, <2>4, <2>5, StepForecasts
<1> QED BY <1>1, <1>2, <1>3 DEF ParseSimpleStmt

LEMMA AssignmentsForecasts ==
  ASSUME ParserInv, ForecastsHold, ParseAssignments
  PROVE  ForecastsHold'
<1>0. Running /\ Head1 = P("Assignments")
  BY DEF ParseAssignments, At
<1>a. /\ R("target") \in Symbols /\ E(1) \in Symbols
      /\ K("=") \in Symbols /\ Many("assigned") \in Symbols /\ "assigned" \in Nonterminals
  BY SymbolTypes, TokensAre DEF Nonterminals
<1>1. CASE target /\ Tok = "=" /\ Take(<<Expr, P("Assignments")>>)
  <2>1. /\ Do(<<Expr, P("Assignments")>>) /\ text' = text /\ recovered' = recovered
        /\ diagnosed' = diagnosed /\ Consume(1) /\ nodes' = nodes
    BY <1>1 DEF Take
  <2>2. Expr \in Entries /\ Expr.kind = "level" /\ Expr.to = 1
    BY LevelWords, WordOf DEF Expr
  <2>3. ASSUME NEW x \in Forecasts, NEW z \in Forecasts,
               Predicts(<<Expr, P("Assignments")>>, x, z)
        PROVE  \E y \in Forecasts :
                 /\ Foresees(Head1, y, z) /\ (y[2] = "target" => target)
                 /\ Reaches(text, pos, nodes, y[1]) => Reaches(text, pos', nodes', x[1])
    <3>1. PICK v \in Forecasts : Foresees(Expr, x, v) /\ Foresees(P("Assignments"), v, z)
      BY <2>3, PredictsTwo
    <3>2. z[1] \in Seq(Symbols)
      BY ForecastTypes
    <3>3. x = <<Then(IF v[2] = "any" THEN E(1) ELSE R("target"), v[1]), "any">>
      BY <2>2, <3>1, ForeseesLevel
    <3> DEFINE g == Then(E(1), z[1])
               b == Then(Many("assigned"), g)
               a == Then(K("="), b)
               y == <<a, "target">>
    <3>4. /\ g \in Seq(Symbols) /\ b \in Seq(Symbols) /\ a \in Seq(Symbols)
      BY <1>a, <3>2, ThenType
    <3>5. Foresees(Head1, y, z)
      BY <1>0, ForeseesAssignments, Zenon
    <3>6. v = <<z[1], "any">> \/ v = <<a, "target">>
      BY <3>1, ForeseesAssignments, Zenon
    <3>7. g = Then(E(1), z[1])
      OBVIOUS
    <3> HIDE DEF g
    <3>8. ASSUME Reaches(text, pos, nodes, a)
          PROVE  Reaches(text, pos', nodes', x[1])
      <4>1. Reaches(text, pos', nodes, b)
        <5>1. Reaches(text, pos, nodes, Then(K(Tok), b))
          BY <1>1, <3>8
        <5> HIDE DEF b
        <5> QED BY <2>1, <3>4, <5>1, ReadsToken
      <4>2. pos' \in 1 .. Len(text)
        BY <2>1, Typed DEF Consume
      <4>3. CASE v = <<z[1], "any">>
        <5>1. x[1] = g
          BY <3>3, <3>7, <4>3
        <5>2. Yields(Many("assigned"), <<>>)
          BY <1>a, YieldsMany, Zenon
        <5>3. Reaches(text, pos', nodes, <<>> \o g)
          BY <3>4, <4>1, <4>2, <5>2, Typed, Zenon DEF Yields
        <5> QED BY <2>1, <3>4, <5>1, <5>3, EmptyConcat
      <4>4. CASE v = <<a, "target">>
        <5>1. x[1] = Then(R("target"), a)
          <6> HIDE DEF a
          <6> QED BY <3>3, <4>4
        <5>2. Reaches(text, pos', nodes, <<R("target"), K("="), Many("assigned")>> \o g)
          BY <3>4, <4>1, <4>2, RepetitionsYield, Typed, Zenon DEF Yields
        <5>3. <<R("target"), K("="), Many("assigned")>> \o g = Then(R("target"), a)
          BY <1>a, <3>4, UnfoldThree
        <5> HIDE DEF a
        <5> QED BY <2>1, <5>1, <5>2, <5>3
      <4> QED BY <3>6, <4>3, <4>4
    <3>9. y \in Forecasts /\ y[1] = a /\ y[2] = "target" /\ target
      <4> HIDE DEF a
      <4> QED BY <1>1, <3>4 DEF Forecasts
    <3> HIDE DEF a, y
    <3> QED BY <3>5, <3>8, <3>9
  <2>4. <<Expr, P("Assignments")>> \in Seq(Entries)
    <3>1. P("Assignments") \in Entries
      BY CallEntry DEF Procedures, Quiet, Inner
    <3> QED BY <2>2, <3>1
  <2>5. KeepsOrder(<<Expr, P("Assignments")>>)
    <3>1. P("Assignments") \in Entries /\ P("Assignments").kind # "more" /\ Head1.kind = "call"
      BY <1>0, CallEntry, KindsApart DEF Procedures, Quiet, Inner
    <3> QED BY <2>2, <3>1, FewKeepOrder
  <2> QED BY <1>0, <2>1, <2>3, <2>4, <2>5, StepForecasts
<1>2. CASE Call(<<>>)
  <2>1. /\ Do(<<>>) /\ text' = text /\ recovered' = recovered
        /\ diagnosed' = diagnosed /\ pos' = pos /\ nodes' = nodes
    BY <1>2 DEF Call
  <2>2. ASSUME NEW x \in Forecasts, NEW z \in Forecasts, Predicts(<<>>, x, z)
        PROVE  \E y \in Forecasts :
                 /\ Foresees(Head1, y, z) /\ (y[2] = "target" => target)
                 /\ Reaches(text, pos, nodes, y[1]) => Reaches(text, pos', nodes', x[1])
    <3> DEFINE y == <<z[1], "any">>
    <3>1. x = z
      BY <2>2, PredictsNone
    <3>2. y \in Forecasts
      BY ForecastTypes DEF Forecasts
    <3>3. Foresees(Head1, y, z)
      BY <1>0, ForeseesAssignments, Zenon
    <3>4. y[1] = x[1] /\ y[2] = "any"
      BY <3>1
    <3> HIDE DEF y
    <3> QED BY <2>1, <3>2, <3>3, <3>4
  <2>3. <<>> \in Seq(Entries)
    OBVIOUS
  <2>4. KeepsOrder(<<>>)
    <3>1. Head1.kind = "call"
      BY <1>0, KindsApart
    <3> QED BY <3>1, NoneKeepOrder
  <2> QED BY <1>0, <2>1, <2>2, <2>3, <2>4, StepForecasts
<1> QED BY <1>1, <1>2 DEF ParseAssignments

-----------------------------------------------------------------------------
(* Expressions.                                                            *)

LEMMA RestsAre ==
  ASSUME NEW m \in 0 .. 8, NEW n \in 1 .. 8
  PROVE  /\ Rests(m, n) \in Seq(Symbols)
         /\ m < n => Rests(m, n) = <<>>
         /\ m >= n => Rests(m, n) = <<Rest(m)>> \o Rests(m - 1, n)
<1> DEFINE l(k) == IF k < n THEN 0 ELSE k - n + 1
<1>1. ASSUME NEW k \in -1 .. 8
      PROVE  /\ Rests(k, n) \in Seq(Symbols) /\ Len(Rests(k, n)) = l(k)
             /\ \A i \in 1 .. l(k) : Rests(k, n)[i] = Rest(k + 1 - i)
  <2>1. l(k) \in Nat
    OBVIOUS
  <2>2. ASSUME NEW i \in 1 .. l(k)
        PROVE  Rest(k + 1 - i) \in Symbols
    <3>1. k + 1 - i \in 1 .. 8
      OBVIOUS
    <3> QED BY <3>1, SymbolTypes, Zenon
  <2> QED BY <2>1, <2>2 DEF Rests
<1>2. m \in -1 .. 8 /\ m - 1 \in -1 .. 8
  OBVIOUS
<1>3. ASSUME m < n
      PROVE  Rests(m, n) = <<>>
  <2>1. Rests(m, n) \in Seq(Symbols) /\ Len(Rests(m, n)) = 0
    BY <1>1, <1>2, <1>3
  <2> QED BY <2>1
<1>4. ASSUME m >= n
      PROVE  Rests(m, n) = <<Rest(m)>> \o Rests(m - 1, n)
  <2> DEFINE r == Rests(m, n)
             q == Rests(m - 1, n)
             a == Rest(m)
  <2>1. r \in Seq(Symbols) /\ Len(r) = m - n + 1
        /\ \A i \in 1 .. m - n + 1 : r[i] = Rest(m + 1 - i)
    <3>1. l(m) = m - n + 1
      BY <1>4
    <3> HIDE DEF l
    <3>2. /\ Rests(m, n) \in Seq(Symbols) /\ Len(Rests(m, n)) = l(m)
          /\ \A i \in 1 .. l(m) : Rests(m, n)[i] = Rest(m + 1 - i)
      BY <1>1, <1>2
    <3> QED BY <3>1, <3>2
  <2>2. q \in Seq(Symbols) /\ Len(q) = m - n
        /\ \A i \in 1 .. m - n : q[i] = Rest(m - 1 + 1 - i)
    <3>1. l(m - 1) = m - n
      BY <1>4
    <3> HIDE DEF l
    <3>2. /\ Rests(m - 1, n) \in Seq(Symbols) /\ Len(Rests(m - 1, n)) = l(m - 1)
          /\ \A i \in 1 .. l(m - 1) : Rests(m - 1, n)[i] = Rest(m - 1 + 1 - i)
      BY <1>1, <1>2
    <3> QED BY <3>1, <3>2
  <2>3. a \in Symbols
    <3>1. m \in 1 .. 8
      BY <1>4
    <3> QED BY <3>1, SymbolTypes, Zenon
  <2>4. r[1] = a
    <3>1. 1 \in 1 .. m - n + 1 /\ m + 1 - 1 = m
      BY <1>4
    <3> QED BY <2>1, <3>1
  <2>5. ASSUME NEW i \in 1 .. Len(q)
        PROVE  r[i + 1] = q[i]
    <3>1. i \in 1 .. m - n /\ i + 1 \in 1 .. m - n + 1 /\ m + 1 - (i + 1) = m - 1 + 1 - i
      BY <1>4, <2>2
    <3> QED BY <2>1, <2>2, <3>1
  <2>6. Len(r) = Len(q) + 1
    BY <2>1, <2>2
  <2> HIDE DEF r, q, a
  <2>7. <<a>> \o q = r
    BY <2>1, <2>2, <2>3, <2>4, <2>5, <2>6, ConsIs, Zenon
  <2> QED BY <2>7 DEF r, q, a
<1> QED BY <1>1, <1>2, <1>3, <1>4

LEMMA LevelsYield ==
  /\ \A n \in 1 .. 7 : Yields(E(n), <<E(n + 1), Rest(n)>>)
  /\ \A n \in 1 .. 8 : Yields(Rest(n), <<>>)
  /\ \A tok \in {"or", "and", "cmp", "add", "-", "mul"} :
       Yields(Rest(LevelOf(tok)),
              <<K(tok), E(LevelOf(tok) + 1), Node(tok), Rest(LevelOf(tok))>>)
<1>1. ASSUME NEW n \in 1 .. 7
      PROVE  Yields(E(n), <<E(n + 1), Rest(n)>>)
  <2>1. n \in 1 .. 8 /\ n + 1 \in 1 .. 8
    OBVIOUS
  <2>2. E(n) \in Symbols /\ E(n + 1) \in Symbols /\ Rest(n) \in Symbols
    BY <2>1, SymbolTypes, Zenon
  <2>3. <<E(n), <<E(n + 1), Rest(n)>>>> \in Rules
    BY Zenon DEF Rules, LevelRules
  <2> QED BY <2>2, <2>3, YieldsTwo
<1>2. ASSUME NEW n \in 1 .. 8
      PROVE  Yields(Rest(n), <<>>)
  <2>1. Rest(n) \in Symbols
    BY SymbolTypes, Zenon
  <2>2. <<Rest(n), <<>>>> \in Rules
    BY Zenon DEF Rules, LevelRules, Precedences
  <2>3. <<>> \in Seq(Symbols)
    OBVIOUS
  <2> QED BY <2>1, <2>2, <2>3, YieldsRule
<1>3. ASSUME NEW tok \in {"or", "and", "cmp", "add", "-", "mul"}
      PROVE  Yields(Rest(LevelOf(tok)),
                    <<K(tok), E(LevelOf(tok) + 1), Node(tok), Rest(LevelOf(tok))>>)
  <2> DEFINE m == LevelOf(tok)
             w == <<K(tok), E(m + 1), Node(tok), Rest(m)>>
  <2>1. /\ <<tok, m>> \in {<<"or", 2>>, <<"and", 3>>, <<"cmp", 5>>, <<"add", 6>>,
                           <<"-", 6>>, <<"mul", 7>>}
        /\ m \in 1 .. 8 /\ m + 1 \in 1 .. 8
    BY DEF LevelOf
  <2>2. <<Rest(m), w>> \in Rules
    <3>1. \A p \in {<<"or", 2>>, <<"and", 3>>, <<"cmp", 5>>, <<"add", 6>>,
                    <<"-", 6>>, <<"mul", 7>>} :
            <<Rest(p[2]), <<K(p[1]), E(p[2] + 1), Node(p[1]), Rest(p[2])>>>> \in Rules
      BY Zenon DEF Rules, LevelRules
    <3> DEFINE p == <<tok, m>>
    <3>2. p[1] = tok /\ p[2] = m
      OBVIOUS
    <3> HIDE DEF m, p
    <3>3. <<Rest(p[2]), <<K(p[1]), E(p[2] + 1), Node(p[1]), Rest(p[2])>>>> \in Rules
      BY <2>1, <3>1 DEF p
    <3> QED BY <3>2, <3>3
  <2>3. K(tok) \in Symbols
    <3>1. tok \in Tokens
      BY Zenon DEF Tokens
    <3> QED BY <3>1, SymbolTypes, Zenon
  <2>4. E(m + 1) \in Symbols /\ Rest(m) \in Symbols
    BY <2>1, SymbolTypes, Zenon
  <2>5. Node(tok) \in Symbols
    <3>1. tok \in NodeNames
      BY DEF NodeNames, Operators
    <3> QED BY <3>1, SymbolTypes, Zenon
  <2> HIDE DEF m
  <2>6. w \in Seq(Symbols)
    BY <2>3, <2>4, <2>5
  <2> HIDE DEF w
  <2>7. Yields(Rest(m), w)
    BY <2>2, <2>4, <2>6, YieldsRule
  <2> QED BY <2>7 DEF m, w
<1> QED BY <1>1, <1>2, <1>3

\* The loops of the levels above m take nothing.
LEMMA Erase ==
  ASSUME NEW t, NEW i \in 1 .. Len(t), NEW out \in Seq(NodeNames), NEW f \in Seq(Symbols),
         NEW n \in 1 .. 8, NEW a \in 0 .. 8, NEW m \in 0 .. 8, m <= a,
         Reaches(t, i, out, Rests(a, n) \o f)
  PROVE  Reaches(t, i, out, Rests(m, n) \o f)
<1> DEFINE Good(k) == Reaches(t, i, out, Rests(k, n) \o f)
           Bad == {j \in 0 .. a : ~Good(a - j)}
<1>1. ASSUME NEW k \in 1 .. a, Good(k)
      PROVE  Good(k - 1)
  <2>1. k \in 0 .. 8 /\ k - 1 \in 0 .. 8
    OBVIOUS
  <2>2. CASE k < n
    <3>1. Rests(k, n) = <<>> /\ Rests(k - 1, n) = <<>>
      <4>1. k - 1 < n
        BY <2>2
      <4> QED BY <2>1, <2>2, <4>1, RestsAre
    <3> QED BY <1>1, <3>1
  <2>3. CASE k >= n
    <3> DEFINE q == Rests(k - 1, n)
    <3>1. q \in Seq(Symbols) /\ Rests(k, n) = Then(Rest(k), q)
      BY <2>1, <2>3, RestsAre DEF Then
    <3>2. Rest(k) \in Symbols /\ k \in 1 .. 8
      BY SymbolTypes
    <3> HIDE DEF q
    <3>3. Rests(k, n) \o f = Then(Rest(k), q \o f) /\ q \o f \in Seq(Symbols)
      <4>1. Then(Rest(k), q) \o f = Then(Rest(k), q \o f)
        BY <3>1, <3>2, ThenConcat, Zenon
      <4>2. q \o f \in Seq(Symbols)
        BY <3>1
      <4> QED BY <3>1, <4>1, <4>2
    <3>4. Yields(Rest(k), <<>>)
      BY <3>2, LevelsYield
    <3>5. Reaches(t, i, out, Then(Rest(k), q \o f))
      BY <1>1, <3>3
    <3>6. Reaches(t, i, out, <<>> \o (q \o f))
      BY <3>3, <3>4, <3>5, Zenon DEF Yields
    <3>7. Reaches(t, i, out, q \o f)
      BY <3>3, <3>6, EmptyConcat
    <3> QED BY <3>7 DEF q
  <2> QED BY <2>1, <2>2, <2>3
<1> HIDE DEF Good
<1>2. Bad = {}
  <2> SUFFICES ASSUME Bad # {} PROVE FALSE
    OBVIOUS
  <2>1. PICK j \in Bad : \A k \in Bad : j <= k
    <3>1. Bad \in SUBSET Nat
      OBVIOUS
    <3> HIDE DEF Bad
    <3> QED BY <3>1, LeastNat, Zenon
  <2>2. j \in 0 .. a /\ ~Good(a - j)
    BY <2>1
  <2>3. j # 0
    <3>1. a - 0 = a
      OBVIOUS
    <3> QED BY <2>2, <3>1 DEF Good
  <2>4. j - 1 \in 0 .. a /\ j - 1 < j /\ a - (j - 1) \in 1 .. a /\ a - (j - 1) - 1 = a - j
    BY <2>2, <2>3
  <2>5. Good(a - (j - 1))
    <3>1. j - 1 \notin Bad
      <4> HIDE DEF Bad
      <4> QED BY <2>1, <2>2, <2>4
    <3> QED BY <2>4, <3>1
  <2>6. Good(a - (j - 1) - 1)
    BY <1>1, <2>4, <2>5
  <2> QED BY <2>2, <2>4, <2>6
<1>3. a - m \in 0 .. a /\ a - (a - m) = m
  OBVIOUS
<1>4. Good(a - (a - m))
  BY <1>2, <1>3
<1> QED BY <1>3, <1>4 DEF Good

\* An expression of level n begins with one of level m, and goes on with the
\* loops in between.
LEMMA Levels ==
  ASSUME NEW t, NEW i \in 1 .. Len(t), NEW out \in Seq(NodeNames), NEW f \in Seq(Symbols),
         NEW n \in 1 .. 8, NEW m \in 1 .. 8, n <= m, Reaches(t, i, out, Then(E(n), f))
  PROVE  Reaches(t, i, out, Then(E(m), Rests(m - 1, n) \o f))
<1> DEFINE Good(k) == Reaches(t, i, out, Then(E(k), Rests(k - 1, n) \o f))
           Bad == {j \in 0 .. 8 - n : ~Good(n + j)}
<1>0. Good(n)
  <2>1. n - 1 \in 0 .. 8 /\ n - 1 < n
    OBVIOUS
  <2>2. Rests(n - 1, n) = <<>>
    BY <2>1, RestsAre
  <2>3. Rests(n - 1, n) \o f = f
    BY <2>2, EmptyConcat
  <2> QED BY <2>3
<1>1. ASSUME NEW k \in n .. 7, Good(k)
      PROVE  Good(k + 1)
  <2>1. k \in 0 .. 8 /\ k \in 1 .. 8 /\ k - 1 \in 0 .. 8 /\ k \in 1 .. 7 /\ k + 1 \in 1 .. 8
        /\ k >= n /\ k + 1 - 1 = k
    OBVIOUS
  <2> DEFINE q == Rests(k - 1, n)
  <2>2. q \in Seq(Symbols) /\ Rests(k, n) = Then(Rest(k), q)
    BY <2>1, RestsAre DEF Then
  <2>3. Rest(k) \in Symbols /\ E(k) \in Symbols /\ E(k + 1) \in Symbols
    BY <2>1, SymbolTypes, Zenon
  <2>4. Reaches(t, i, out, Then(E(k), q \o f))
    BY <1>1
  <2> HIDE DEF q
  <2>5. Rests(k, n) \o f = Then(Rest(k), q \o f) /\ q \o f \in Seq(Symbols)
    <3>1. Then(Rest(k), q) \o f = Then(Rest(k), q \o f)
      BY <2>2, <2>3, ThenConcat, Zenon
    <3>2. q \o f \in Seq(Symbols)
      BY <2>2
    <3> QED BY <2>2, <3>1, <3>2
  <2>6. Yields(E(k), <<E(k + 1), Rest(k)>>)
    BY <2>1, LevelsYield, Zenon
  <2>7. Reaches(t, i, out, <<E(k + 1), Rest(k)>> \o (q \o f))
    BY <2>4, <2>5, <2>6, Zenon DEF Yields
  <2>8. <<E(k + 1), Rest(k)>> \o (q \o f) = Then(E(k + 1), Then(Rest(k), q \o f))
    BY <2>3, <2>5, UnfoldTwo, Zenon
  <2>9. Reaches(t, i, out, Then(E(k + 1), Rests(k, n) \o f))
    BY <2>5, <2>7, <2>8
  <2> QED BY <2>1, <2>9
<1> HIDE DEF Good
<1>2. Bad = {}
  <2> SUFFICES ASSUME Bad # {} PROVE FALSE
    OBVIOUS
  <2>1. PICK j \in Bad : \A k \in Bad : j <= k
    <3>1. Bad \in SUBSET Nat
      OBVIOUS
    <3> HIDE DEF Bad
    <3> QED BY <3>1, LeastNat, Zenon
  <2>2. j \in 0 .. 8 - n /\ ~Good(n + j)
    BY <2>1
  <2>3. j # 0
    <3>1. n + 0 = n
      OBVIOUS
    <3> QED BY <1>0, <2>2, <3>1
  <2>4. j - 1 \in 0 .. 8 - n /\ j - 1 < j /\ n + (j - 1) \in n .. 7 /\ n + (j - 1) + 1 = n + j
    BY <2>2, <2>3
  <2>5. Good(n + (j - 1))
    <3>1. j - 1 \notin Bad
      <4> HIDE DEF Bad
      <4> QED BY <2>1, <2>2, <2>4
    <3> QED BY <2>4, <3>1
  <2>6. Good(n + (j - 1) + 1)
    BY <1>1, <2>4, <2>5
  <2> QED BY <2>2, <2>4, <2>6
<1>3. m - n \in 0 .. 8 - n /\ n + (m - n) = m
  OBVIOUS
<1>4. Good(n + (m - n))
  BY <1>2, <1>3
<1> QED BY <1>3, <1>4 DEF Good

LEMMA MoreIs ==
  /\ \A op, m, n : /\ More(op, m, n).kind = "more" /\ More(op, m, n).name = op
                   /\ More(op, m, n).from = m /\ More(op, m, n).to = n
  /\ \A e \in Entries : e.kind = "more" =>
       e.name \in Pending /\ e.from \in 1 .. 8 /\ e.to \in 1 .. 8
  /\ \A e \in Entries : e.kind = "level" => e.from = e.to /\ e.to \in 1 .. 8
<1>1. \A op, m, n : /\ More(op, m, n).kind = "more" /\ More(op, m, n).name = op
                    /\ More(op, m, n).from = m /\ More(op, m, n).to = n
  BY DEF More, Entry
<1>2. ASSUME NEW e \in Entries, e.kind = "more"
      PROVE  e.name \in Pending /\ e.from \in 1 .. 8 /\ e.to \in 1 .. 8
  <2>1. \A o \in Entries : o.kind = "more" => o.name \in Pending
    BY DEF Entries, T, P, L, Try, Level, Entry
  <2> QED BY <1>2, <2>1, KindsOfEntries
<1>3. ASSUME NEW e \in Entries, e.kind = "level"
      PROVE  e.from = e.to /\ e.to \in 1 .. 8
  <2>1. \A o \in Entries : o.kind = "level" => o.from = o.to
    BY DEF Entries, T, P, L, Try, Level, Entry
  <2> QED BY <1>3, <2>1, KindsOfEntries
<1> QED BY <1>1, <1>2, <1>3

LEMMA ForeseesPrimary ==
  ASSUME NEW e, e.kind = "more", e.name = "primary", NEW x, NEW z
  PROVE  Foresees(e, x, z) <=>
           x = IF z[2] = "any" THEN <<Rests(e.from, e.to) \o z[1], "any">> ELSE z
<1>1. e \notin Plain /\ e \notin Postfixes /\ e # P("Assignments") /\ e # P("SimpleStmt")
  BY KindsApart
<1>2. e # P("PostfixOfTarget") /\ e # P("PostfixOfSame")
  BY <1>1 DEF Postfixes
<1>3. e.kind # "try" /\ e.kind # "expect" /\ e.kind # "level"
  OBVIOUS
<1> QED BY <1>1, <1>2, <1>3, Zenon DEF Foresees

LEMMA ForeseesOperator ==
  ASSUME NEW e, e.kind = "more", e.name # "primary", NEW x, NEW z
  PROVE  Foresees(e, x, z) <=>
           /\ z[2] = "any"
           /\ x = <<Then(Node(e.name), (IF e.name = "if" THEN <<>>
                                        ELSE Rests(e.from, e.to)) \o z[1]), "any">>
<1>1. e \notin Plain /\ e \notin Postfixes /\ e # P("Assignments") /\ e # P("SimpleStmt")
  BY KindsApart
<1>2. e # P("PostfixOfTarget") /\ e # P("PostfixOfSame")
  BY <1>1 DEF Postfixes
<1>3. e.kind # "try" /\ e.kind # "expect" /\ e.kind # "level"
  OBVIOUS
<1> QED BY <1>1, <1>2, <1>3, Zenon DEF Foresees

\* What may follow a target: the end of a member or an index expression.
Ends(z) == {Then(K("."), Then(K("id"), z[1])),
            Then(K("["), Then(E(1), Then(K("]"), z[1])))}

LEMMA PostfixesApart ==
  /\ P("PostfixOfTarget") # P("PostfixOfSame") /\ P("PostfixOfTarget") # P("PostfixOfValue")
  /\ P("PostfixOfValue") # P("PostfixOfSame")
  /\ P("PostfixOfTarget") \in Postfixes /\ P("PostfixOfSame") \in Postfixes
  /\ P("PostfixOfValue") \in Postfixes
  /\ \A e \in Postfixes : e \in Entries
<1>1. P("PostfixOfTarget") \in Entries /\ P("PostfixOfSame") \in Entries
      /\ P("PostfixOfValue") \in Entries
  BY CallEntry DEF Procedures, Quiet, Inner
<1> QED BY <1>1 DEF P, Entry, Postfixes

LEMMA ForeseesPostfix ==
  ASSUME NEW e \in Postfixes, NEW x, NEW z \in Forecasts
  PROVE  Foresees(e, x, z) <=>
           \/ z[2] = "any" /\ x = <<Then(Many("postfix"), z[1]), "any">>
           \/ z[2] = "target" /\ \E g \in Ends(z) : x = <<Then(Many("postfix"), g), "any">>
           \/ e = P("PostfixOfTarget") /\ z[2] = "target" /\ x = <<z[1], "any">>
           \/ e = P("PostfixOfSame") /\ z[2] = "target" /\ x = z
<1>1. /\ e \notin Plain /\ e # P("Assignments") /\ e # P("SimpleStmt") /\ e.kind = "call"
  BY KindsApart
<1>2. e.kind # "try" /\ e.kind # "expect" /\ e.kind # "level" /\ e.kind # "more"
  BY <1>1
<1>3. (\E g \in Ends(z) : x = <<Then(Many("postfix"), g), "any">>) <=>
        x \in {<<Then(Many("postfix"), Then(K("."), Then(K("id"), z[1]))), "any">>,
               <<Then(Many("postfix"), Then(K("["), Then(E(1), Then(K("]"), z[1])))), "any">>}
  BY Zenon DEF Ends
<1> QED BY <1>1, <1>2, <1>3, Zenon DEF Foresees

LEMMA EndsType ==
  ASSUME NEW z \in Forecasts, NEW g \in Ends(z)
  PROVE  g \in Seq(Symbols) /\ Then(Many("postfix"), g) \in Seq(Symbols)
<1>1. /\ K(".") \in Symbols /\ K("id") \in Symbols /\ K("[") \in Symbols
      /\ K("]") \in Symbols /\ E(1) \in Symbols /\ Many("postfix") \in Symbols
  BY SymbolTypes, TokensAre DEF Nonterminals
<1>2. z[1] \in Seq(Symbols)
  BY ForecastTypes
<1>3. /\ Then(K("."), Then(K("id"), z[1])) \in Seq(Symbols)
      /\ Then(K("["), Then(E(1), Then(K("]"), z[1]))) \in Seq(Symbols)
  BY <1>1, <1>2, ThenType
<1>4. g \in Seq(Symbols)
  BY <1>3 DEF Ends
<1> QED BY <1>1, <1>4, ThenType

\* A target that is not a name.
LEMMA TargetYields ==
  ASSUME NEW t, NEW i \in 1 .. Len(t), NEW out \in Seq(NodeNames), NEW z \in Forecasts,
         NEW g \in Ends(z), Reaches(t, i, out, Then(R("target"), z[1]))
  PROVE  Reaches(t, i, out, Then(R("primary"), Then(Many("postfix"), g)))
<1>1. /\ K(".") \in Symbols /\ K("id") \in Symbols /\ K("[") \in Symbols
      /\ K("]") \in Symbols /\ E(1) \in Symbols /\ Many("postfix") \in Symbols
      /\ R("cexpr") \in Symbols /\ R("primary") \in Symbols /\ R("target") \in Symbols
  BY SymbolTypes, TokensAre DEF Nonterminals
<1>2. z[1] \in Seq(Symbols) /\ g \in Seq(Symbols)
  BY ForecastTypes, EndsType
<1>3. Reaches(t, i, out, Then(R("cexpr"), g))
  <2>1. CASE g = Then(K("."), Then(K("id"), z[1]))
    <3>1. Reaches(t, i, out, <<R("cexpr"), K("."), K("id")>> \o z[1])
      BY <1>2, StatementsYield, Zenon DEF Yields
    <3>2. <<R("cexpr"), K("."), K("id")>> \o z[1] = Then(R("cexpr"), g)
      BY <1>1, <1>2, <2>1, UnfoldThree
    <3> QED BY <3>1, <3>2
  <2>2. CASE g = Then(K("["), Then(E(1), Then(K("]"), z[1])))
    <3>1. Reaches(t, i, out, <<R("cexpr"), K("["), E(1), K("]")>> \o z[1])
      BY <1>2, StatementsYield, Zenon DEF Yields
    <3>2. <<R("cexpr"), K("["), E(1), K("]")>> \o z[1] = Then(R("cexpr"), g)
      <4>1. <<R("cexpr"), K("["), E(1), K("]")>> \o z[1]
              = Then(R("cexpr"), Then(K("["), Then(E(1), Then(K("]"), z[1]))))
        <5> DEFINE f == z[1]
        <5>1. f \in Seq(Symbols)
          BY <1>2
        <5> DEFINE a == R("cexpr")  b == K("[")  c == E(1)  d == K("]")
        <5>2. a \in Symbols /\ b \in Symbols /\ c \in Symbols /\ d \in Symbols
          BY <1>1
        <5> HIDE DEF f, a, b, c, d
        <5>3. <<a, b, c, d>> \o f = Then(a, Then(b, Then(c, Then(d, f))))
          BY <5>1, <5>2, UnfoldFour
        <5> QED BY <5>3 DEF f, a, b, c, d
      <4> QED BY <2>2, <4>1, Zenon
    <3> QED BY <3>1, <3>2
  <2> QED BY <2>1, <2>2 DEF Ends
<1>4. Reaches(t, i, out, <<R("primary"), Many("postfix")>> \o g)
  BY <1>2, <1>3, ExpressionsYield, Zenon DEF Yields
<1>5. <<R("primary"), Many("postfix")>> \o g = Then(R("primary"), Then(Many("postfix"), g))
  BY <1>1, <1>2, UnfoldTwo
<1> QED BY <1>4, <1>5

\* What a level foresees, and what its expression begins with: the level and
\* the loops that its primary leaves behind.
AtExpr(n, z) == <<Then(IF z[2] = "any" THEN E(n) ELSE R("target"), z[1]), "any">>

LEMMA PrimaryForesees ==
  ASSUME NEW n \in 1 .. 8, NEW p \in Postfixes, NEW x \in Forecasts, NEW v \in Forecasts,
         NEW z \in Forecasts,
         Foresees(PrimaryStarts(n), v, z), Foresees(p, x, v)
  PROVE  \/ /\ x[2] = "any"
            /\ \A t : \A i \in 1 .. Len(t), out \in Seq(NodeNames) :
                 Reaches(t, i, out, AtExpr(n, z)[1])
                   => Reaches(t, i, out, Then(R("primary"), x[1]))
         \/ z[2] = "target" /\ p = P("PostfixOfTarget") /\ x = <<z[1], "any">>
         \/ z[2] = "target" /\ p = P("PostfixOfSame") /\ x = z
<1>1. /\ R("primary") \in Symbols /\ Many("postfix") \in Symbols /\ R("cexpr") \in Symbols
  BY SymbolTypes DEF Nonterminals
<1>2. z[1] \in Seq(Symbols) /\ z[2] \in {"any", "target"}
  BY ForecastTypes
<1>3. v = IF z[2] = "any" THEN <<Rests(7, n) \o z[1], "any">> ELSE z
  <2>1. /\ PrimaryStarts(n).kind = "more" /\ PrimaryStarts(n).name = "primary"
        /\ PrimaryStarts(n).from = 7 /\ PrimaryStarts(n).to = n
    BY MoreIs DEF PrimaryStarts
  <2>2. v = IF z[2] = "any"
            THEN <<Rests(PrimaryStarts(n).from, PrimaryStarts(n).to) \o z[1], "any">> ELSE z
    <3> DEFINE e == PrimaryStarts(n)
    <3>1. e.kind = "more" /\ e.name = "primary" /\ Foresees(e, v, z)
      BY <2>1
    <3> HIDE DEF e
    <3>2. v = IF z[2] = "any" THEN <<Rests(e.from, e.to) \o z[1], "any">> ELSE z
      BY <3>1, ForeseesPrimary, Zenon
    <3> QED BY <3>2 DEF e
  <2> QED BY <2>1, <2>2
<1>4. CASE z[2] = "any"
  <2> DEFINE f == Rests(7, n) \o z[1]
  <2>1. f \in Seq(Symbols)
    <3>1. Rests(7, n) \in Seq(Symbols)
      <4>1. 7 \in 0 .. 8
        OBVIOUS
      <4> QED BY <4>1, RestsAre
    <3> QED BY <1>2, <3>1
  <2>2. v[1] = f /\ v[2] = "any"
    BY <1>3, <1>4
  <2>3. x = <<Then(Many("postfix"), f), "any">>
    BY <2>2, ForeseesPostfix
  <2>4. ASSUME NEW t, NEW i \in 1 .. Len(t), NEW out \in Seq(NodeNames),
               Reaches(t, i, out, Then(E(n), z[1]))
        PROVE  Reaches(t, i, out, Then(R("primary"), x[1]))
    <3>1. Reaches(t, i, out, Then(E(8), f))
      <4>1. 8 \in 1 .. 8 /\ n <= 8 /\ 8 - 1 = 7
        OBVIOUS
      <4>2. Reaches(t, i, out, Then(E(8), Rests(8 - 1, n) \o z[1]))
        BY <1>2, <2>4, <4>1, Levels
      <4> QED BY <4>1, <4>2
    <3> HIDE DEF f
    <3>2. Reaches(t, i, out, Then(R("cexpr"), f))
      <4>1. Reaches(t, i, out, <<R("cexpr")>> \o f)
        BY <2>1, <3>1, ExpressionsYield, Zenon DEF Yields
      <4> QED BY <4>1 DEF Then
    <3>3. Reaches(t, i, out, <<R("primary"), Many("postfix")>> \o f)
      BY <2>1, <3>2, ExpressionsYield, Zenon DEF Yields
    <3>4. <<R("primary"), Many("postfix")>> \o f = Then(R("primary"), Then(Many("postfix"), f))
      BY <1>1, <2>1, UnfoldTwo
    <3> QED BY <2>3, <3>3, <3>4
  <2>5. AtExpr(n, z)[1] = Then(E(n), z[1])
    BY <1>4 DEF AtExpr
  <2>6. x[2] = "any"
    BY <2>3
  <2> QED BY <2>4, <2>5, <2>6
<1>5. CASE z[2] = "target"
  <2>1. v = z
    BY <1>3, <1>5
  <2>2. AtExpr(n, z)[1] = Then(R("target"), z[1])
    BY <1>5 DEF AtExpr
  <2>3. CASE \E g \in Ends(z) : x = <<Then(Many("postfix"), g), "any">>
    <3>1. PICK g \in Ends(z) : x = <<Then(Many("postfix"), g), "any">>
      BY <2>3
    <3>2. x[1] = Then(Many("postfix"), g) /\ x[2] = "any"
      BY <3>1
    <3> QED BY <2>2, <3>2, TargetYields
  <2> QED BY <1>5, <2>1, <2>3, ForeseesPostfix
<1> QED BY <1>2, <1>4, <1>5

LEMMA LevelIs ==
  ASSUME ParserInv, AtLevel
  PROVE  /\ Running /\ Head1 \in Entries /\ Head1.kind = "level"
         /\ Head1.from = Head1.to /\ Head1.to \in 1 .. 8
<1>1. Head1 \in Entries /\ Head1.kind = "level" /\ Running
  BY Below DEF AtLevel, Running
<1> QED BY <1>1, MoreIs, Zenon

\* What the parser foresees at a level.
LEMMA LevelForesees ==
  ASSUME ParserInv, AtLevel, NEW z \in Forecasts
  PROVE  /\ AtExpr(Head1.to, z) \in Forecasts /\ AtExpr(Head1.to, z)[2] # "target"
         /\ Foresees(Head1, AtExpr(Head1.to, z), z)
<1>1. Head1 \in Entries /\ Head1.kind = "level"
  BY LevelIs
<1>2. Head1.from = Head1.to /\ Head1.to \in 1 .. 8
  BY LevelIs
<1> DEFINE n == Head1.to
           s == IF z[2] = "any" THEN E(n) ELSE R("target")
           y == <<Then(s, z[1]), "any">>
<1>3. s \in Symbols /\ z[1] \in Seq(Symbols)
  BY <1>2, ForecastTypes, SymbolTypes DEF Nonterminals
<1>4. AtExpr(Head1.to, z) = y
  BY DEF AtExpr
<1>5. Foresees(Head1, y, z)
  BY <1>1, ForeseesLevel, Zenon
<1> HIDE DEF s
<1>6. y \in Forecasts /\ y[2] # "target"
  BY <1>3, ThenType DEF Forecasts
<1> HIDE DEF y
<1> QED BY <1>1, <1>2, <1>4, <1>5, <1>6

\* What a pending node foresees.
LEMMA PendingForesees ==
  ASSUME NEW op \in Operators, NEW m \in 1 .. 8, NEW n \in 1 .. 8, NEW v, NEW z \in Forecasts,
         Foresees(More(op, m, n), v, z)
  PROVE  /\ z[2] = "any" /\ v[2] = "any"
         /\ v[1] = Then(Node(op), (IF op = "if" THEN <<>> ELSE Rests(m, n)) \o z[1])
<1> DEFINE e == More(op, m, n)
           r == IF e.name = "if" THEN <<>> ELSE Rests(e.from, e.to)
<1>1. e.kind = "more" /\ e.name = op /\ e.from = m /\ e.to = n /\ op # "primary"
  BY MoreIs DEF Operators
<1> HIDE DEF e
<1>2. z[2] = "any" /\ v = <<Then(Node(e.name), r \o z[1]), "any">>
  BY <1>1, ForeseesOperator, Zenon DEF e
<1> QED BY <1>1, <1>2

\* Entries in the place of a level or of a loop of operators.
LEMMA LevelsKeepOrder ==
  ASSUME NEW u \in Seq(Entries), u # <<>>, Head1.kind \in {"level", "more"}, ~OfIf(u[1]),
         Branches(u), Head1.to = 1 => Lowest(u[Len(u)])
  PROVE  KeepsOrder(u)
<1>1. Head1 # L("statements")
  BY DEF L, Entry
<1> QED BY <1>1 DEF KeepsOrder, KeepsLast, Lowest

\* The loops that the entries before leave behind take any operator but an if.
LEMMA LoopsKeepOrder ==
  ASSUME NEW u \in Seq(Entries), Len(u) > 1, \A i \in 1 .. Len(u) - 1 : u[i].kind # "more",
         NEW op \in Pending \ {"if"}, NEW m \in 1 .. 8, Head1.to \in 1 .. 8,
         Head1.kind \in {"level", "more"}, u[Len(u)] = More(op, m, Head1.to)
  PROVE  KeepsOrder(u)
<1> DEFINE o == u[Len(u)]
<1>1. /\ o.kind = "more" /\ o.name # "if" /\ o.to = Head1.to
  BY MoreIs
<1>2. u # <<>> /\ 1 \in 1 .. Len(u) - 1
      /\ \A i \in 1 .. Len(u) : i = Len(u) \/ i \in 1 .. Len(u) - 1
  OBVIOUS
<1>3. \A i \in 1 .. Len(u) : ~OfIf(u[i])
  BY <1>1, <1>2 DEF OfIf
<1>4. ~OfIf(u[1])
  BY <1>2 DEF OfIf
<1>5. Head1.to = 1 => Lowest(u[Len(u)])
  BY <1>1 DEF Lowest
<1> QED BY <1>2, <1>3, <1>4, <1>5, LevelsKeepOrder DEF Branches

LEMMA PrefixForecasts ==
  ASSUME ParserInv, ForecastsHold, AtLevel, NEW k \in 2 .. 8, NEW op \in {"not", "neg"},
         Head1.from <= k, Take(<<Level(k), More(op, k - 1, Head1.from)>>),
         Yields(E(k), <<K(Tok), E(k), Node(op)>>)
  PROVE  ForecastsHold'
<1> PICK n : n = Head1.from
  OBVIOUS
<1> DEFINE u == <<Level(k), More(op, k - 1, n)>>
<1>1. /\ Do(u) /\ text' = text /\ recovered' = recovered
      /\ diagnosed' = diagnosed /\ Consume(1) /\ nodes' = nodes
  BY DEF Take
<1>2. Running /\ n \in 1 .. 8 /\ n <= k /\ n = Head1.to /\ k \in 1 .. 8 /\ k - 1 \in 1 .. 8
  BY LevelIs
<1>3. u \in Seq(Entries)
  <2>1. Level(k) \in Entries
    BY <1>2, LevelWords
  <2>2. op \in Pending
    BY DEF Pending, Operators
  <2>3. More(op, k - 1, n) \in Entries
    BY <1>2, <2>2, MoreEntry DEF Quiet, Inner
  <2> QED BY <2>1, <2>3
<1>4. op \in Operators /\ op # "if" /\ op \in NodeNames
  BY DEF Operators, NodeNames
<1>5. K(Tok) \in Symbols /\ E(k) \in Symbols /\ Node(op) \in Symbols
  BY <1>2, <1>4, Typed, SymbolTypes
<1>6. ASSUME NEW x \in Forecasts, NEW z \in Forecasts, Predicts(u, x, z)
      PROVE  \E y \in Forecasts :
               /\ Foresees(Head1, y, z) /\ (y[2] = "target" => target)
               /\ Reaches(text, pos, nodes, y[1]) => Reaches(text, pos', nodes', x[1])
  <2>1. PICK v \in Forecasts : Foresees(Level(k), x, v) /\ Foresees(More(op, k - 1, n), v, z)
    BY <1>6, PredictsTwo, Zenon
  <2>2. /\ z[2] = "any" /\ v[2] = "any"
        /\ v[1] = Then(Node(op), Rests(k - 1, n) \o z[1])
    <3> DEFINE m == k - 1
    <3>1. m \in 1 .. 8 /\ Foresees(More(op, m, n), v, z)
      BY <1>2, <2>1
    <3> HIDE DEF m
    <3>2. /\ z[2] = "any" /\ v[2] = "any"
          /\ v[1] = Then(Node(op), (IF op = "if" THEN <<>> ELSE Rests(m, n)) \o z[1])
      BY <1>2, <1>4, <3>1, PendingForesees
    <3> QED BY <1>4, <3>2 DEF m
  <2>3. x[1] = Then(E(k), v[1])
    <3>1. Level(k).kind = "level" /\ Level(k).to = k
      BY WordOf, Zenon
    <3>2. x = <<Then(IF v[2] = "any" THEN E(Level(k).to) ELSE R("target"), v[1]), "any">>
      BY <2>1, <3>1, ForeseesLevel, Zenon
    <3> QED BY <2>2, <3>1, <3>2
  <2> DEFINE f == Rests(k - 1, n) \o z[1]
  <2>4. f \in Seq(Symbols)
    <3>1. Rests(k - 1, n) \in Seq(Symbols)
      <4> DEFINE m == k - 1
      <4>1. m \in 0 .. 8
        BY <1>2
      <4> HIDE DEF m
      <4>2. Rests(m, n) \in Seq(Symbols)
        BY <1>2, <4>1, RestsAre
      <4> QED BY <4>2 DEF m
    <3> QED BY <3>1, ForecastTypes
  <2>5. ASSUME Reaches(text, pos, nodes, AtExpr(n, z)[1])
        PROVE  Reaches(text, pos', nodes', x[1])
    <3>1. AtExpr(n, z)[1] = Then(E(n), z[1])
      BY <2>2 DEF AtExpr
    <3>2. Reaches(text, pos, nodes, Then(E(k), f))
      BY <1>2, <2>5, <3>1, Typed, ForecastTypes, Levels
    <3>3. Reaches(text, pos, nodes, <<K(Tok), E(k), Node(op)>> \o f)
      <4> HIDE DEF f
      <4> QED BY <2>4, <3>2, Typed, Zenon DEF Yields
    <3>4. <<K(Tok), E(k), Node(op)>> \o f = Then(K(Tok), x[1])
      <4>1. x[1] = Then(E(k), Then(Node(op), f))
        BY <2>2, <2>3
      <4> HIDE DEF f
      <4> QED BY <1>5, <2>4, <4>1, UnfoldThree
    <3>5. x[1] \in Seq(Symbols)
      BY ForecastTypes
    <3> QED BY <1>1, <3>3, <3>4, <3>5, ReadsToken
  <2> QED BY <1>2, <2>5, LevelForesees, Zenon
<1>7. KeepsOrder(u)
  <2>1. Len(u) = 2 /\ u[1] = Level(k) /\ u[2] = More(op, k - 1, n) /\ Level(k).kind # "more"
    BY DEF Level, Entry
  <2>2. /\ op \in Pending \ {"if"} /\ k - 1 \in 1 .. 8 /\ n = Head1.to /\ n \in 1 .. 8
        /\ Head1.kind \in {"level", "more"}
    BY <1>2, <1>4 DEF Pending, AtLevel
  <2> HIDE DEF u
  <2>3. \A i \in 1 .. Len(u) - 1 : u[i].kind # "more"
    BY <2>1
  <2>4. Len(u) > 1 /\ u[Len(u)] = More(op, k - 1, Head1.to)
    BY <2>1, <2>2
  <2> QED BY <1>3, <2>2, <2>3, <2>4, LoopsKeepOrder
<1> HIDE DEF u
<1> QED BY <1>1, <1>2, <1>3, <1>6, <1>7, StepForecasts, Zenon

\* A symbol becomes the token that is read and a node, or a token, a symbol
\* and another one.
LEMMA ReadsAndNotes ==
  ASSUME ParserInv, Consume(1), nodes' = Append(nodes, "x"), NEW s, NEW f \in Seq(Symbols),
         Yields(s, <<K(Tok), Node("x")>>), Reaches(text, pos, nodes, Then(s, f))
  PROVE  Reaches(text, pos', nodes', f)
<1>1. K(Tok) \in Symbols /\ Node("x") \in Symbols /\ "x" \in NodeNames
  BY Typed, SymbolTypes DEF NodeNames
<1>2. Reaches(text, pos, nodes, <<K(Tok), Node("x")>> \o f)
  BY Typed, Zenon DEF Yields
<1>3. <<K(Tok), Node("x")>> \o f = Then(K(Tok), Then(Node("x"), f))
  BY <1>1, UnfoldTwo
<1>4. Then(Node("x"), f) \in Seq(Symbols)
  BY <1>1, ThenType
<1>5. Reaches(text, pos', nodes, Then(Node("x"), f))
  BY <1>2, <1>3, <1>4, ReadsToken
<1>6. pos' \in 1 .. Len(text)
  BY Typed DEF Consume
<1> QED BY <1>1, <1>5, <1>6, Typed, DeriveNode

LEMMA ReadsOfThree ==
  ASSUME ParserInv, Consume(1), nodes' = nodes, NEW s, NEW c \in Symbols, NEW d \in Symbols,
         NEW f \in Seq(Symbols), Yields(s, <<K(Tok), c, d>>),
         Reaches(text, pos, nodes, Then(s, f))
  PROVE  Reaches(text, pos', nodes', Then(c, Then(d, f)))
<1>1. K(Tok) \in Symbols
  BY Typed
<1>2. Reaches(text, pos, nodes, <<K(Tok), c, d>> \o f)
  BY Typed, Zenon DEF Yields
<1>3. <<K(Tok), c, d>> \o f = Then(K(Tok), Then(c, Then(d, f)))
  BY <1>1, UnfoldThree
<1>4. Then(c, Then(d, f)) \in Seq(Symbols)
  BY ThenType
<1> QED BY <1>2, <1>3, <1>4, ReadsToken

LEMMA PrimaryEntries ==
  ASSUME NEW n \in 1 .. 8
  PROVE  /\ PrimaryStarts(n) \in Entries
         /\ P("PostfixOfTarget") \in Entries /\ P("PostfixOfSame") \in Entries
         /\ P("PostfixOfValue") \in Entries
<1>1. "primary" \in Pending /\ 7 \in 1 .. 8
  BY DEF Pending
<1>2. PrimaryStarts(n) \in Quiet
  BY <1>1, MoreEntry DEF PrimaryStarts
<1> QED BY <1>2, PostfixesApart DEF Quiet, Inner

LEMMA PrimaryTokenForecasts ==
  ASSUME ParserInv, ForecastsHold, PrimaryToken
  PROVE  ForecastsHold'
<1> PICK n : n = Head1.from
  OBVIOUS
<1> DEFINE p == P(IF Tok = "id" THEN "PostfixOfTarget" ELSE "PostfixOfValue")
           u == <<p, PrimaryStarts(n)>>
<1>1. /\ Do(u) /\ text' = text /\ recovered' = recovered
      /\ diagnosed' = diagnosed /\ Consume(1) /\ nodes' = Append(nodes, "x")
      /\ AtLevel /\ Tok \in {"id", "lit", "idstr"}
  BY DEF PrimaryToken
<1>2. Running /\ n \in 1 .. 8 /\ n = Head1.to
  BY <1>1, LevelIs
<1>3. p \in Postfixes /\ p # P("PostfixOfSame") /\ (p = P("PostfixOfTarget") => Tok = "id")
  BY PostfixesApart
<1>4. u \in Seq(Entries)
  <2>1. p \in Entries /\ PrimaryStarts(n) \in Entries
    BY <1>2, <1>3, PrimaryEntries, PostfixesApart
  <2> HIDE DEF p
  <2> QED BY <2>1
<1> HIDE DEF p
<1>5. Yields(R("primary"), <<K(Tok), Node("x")>>)
      /\ (Tok = "id" => Yields(R("target"), <<K(Tok), Node("x")>>))
  BY <1>1, ExpressionsYield, StatementsYield, Zenon
<1>6. ASSUME NEW x \in Forecasts, NEW z \in Forecasts, Predicts(u, x, z)
      PROVE  \E y \in Forecasts :
               /\ Foresees(Head1, y, z) /\ (y[2] = "target" => target)
               /\ Reaches(text, pos, nodes, y[1]) => Reaches(text, pos', nodes', x[1])
  <2>1. PICK v \in Forecasts : Foresees(p, x, v) /\ Foresees(PrimaryStarts(n), v, z)
    BY <1>6, PredictsTwo, Zenon
  <2>2. x[1] \in Seq(Symbols)
    BY ForecastTypes
  <2>3. ASSUME Reaches(text, pos, nodes, AtExpr(n, z)[1])
        PROVE  Reaches(text, pos', nodes', x[1])
    <3>1. \/ \A t : \A i \in 1 .. Len(t), out \in Seq(NodeNames) :
               Reaches(t, i, out, AtExpr(n, z)[1])
                 => Reaches(t, i, out, Then(R("primary"), x[1]))
          \/ z[2] = "target" /\ p = P("PostfixOfTarget") /\ x = <<z[1], "any">>
      BY <1>2, <1>3, <2>1, PrimaryForesees, Zenon
    <3>2. CASE \A t : \A i \in 1 .. Len(t), out \in Seq(NodeNames) :
                 Reaches(t, i, out, AtExpr(n, z)[1])
                   => Reaches(t, i, out, Then(R("primary"), x[1]))
      <4>1. Reaches(text, pos, nodes, Then(R("primary"), x[1]))
        BY <2>3, <3>2, Typed, Zenon
      <4> QED BY <1>1, <1>5, <2>2, <4>1, ReadsAndNotes, Zenon
    <3>3. CASE z[2] = "target" /\ p = P("PostfixOfTarget") /\ x = <<z[1], "any">>
      <4>1. AtExpr(n, z)[1] = Then(R("target"), x[1])
        BY <3>3 DEF AtExpr
      <4> QED BY <1>1, <1>3, <1>5, <2>2, <2>3, <3>3, <4>1, ReadsAndNotes, Zenon
    <3> QED BY <3>1, <3>2, <3>3
  <2> QED BY <1>1, <1>2, <2>3, LevelForesees, Zenon
<1>7. KeepsOrder(u)
  <2>1. Len(u) = 2 /\ u[1] = p /\ u[2] = PrimaryStarts(n) /\ p.kind # "more"
    BY <1>3, KindsApart
  <2>2. "primary" \in Pending \ {"if"} /\ 7 \in 1 .. 8 /\ Head1.kind \in {"level", "more"}
        /\ n = Head1.to /\ n \in 1 .. 8
    BY <1>1, <1>2 DEF Pending, Operators, AtLevel
  <2> HIDE DEF u
  <2>3. \A i \in 1 .. Len(u) - 1 : u[i].kind # "more"
    BY <2>1
  <2>4. Len(u) > 1 /\ u[Len(u)] = More("primary", 7, Head1.to)
    BY <2>1, <2>2 DEF PrimaryStarts
  <2> QED BY <1>4, <2>2, <2>3, <2>4, LoopsKeepOrder
<1> HIDE DEF u
<1> QED BY <1>1, <1>2, <1>4, <1>6, <1>7, StepForecasts, Zenon

LEMMA InParensForecasts ==
  ASSUME ParserInv, ForecastsHold, AtLevel, Tok = "(",
         Take(<<Expr, T(")"), P("PostfixOfSame"), PrimaryStarts(Head1.from)>>)
  PROVE  ForecastsHold'
<1> PICK n : n = Head1.from
  OBVIOUS
<1> DEFINE p == P("PostfixOfSame")
           u == <<Expr, T(")"), p, PrimaryStarts(n)>>
<1>1. /\ Do(u) /\ text' = text /\ recovered' = recovered
      /\ diagnosed' = diagnosed /\ Consume(1) /\ nodes' = nodes
  BY DEF Take
<1>2. Running /\ n \in 1 .. 8 /\ n = Head1.to
  BY <1>1, LevelIs
<1>3. p \in Postfixes /\ p # P("PostfixOfTarget")
  BY PostfixesApart
<1>a. /\ R("target") \in Symbols /\ R("primary") \in Symbols /\ E(1) \in Symbols
      /\ K(")") \in Symbols
  BY SymbolTypes, TokensAre DEF Nonterminals
<1>b. Expr \in Entries /\ Expr.kind = "level" /\ Expr.to = 1
  BY LevelWords, WordOf DEF Expr
<1>4. u \in Seq(Entries)
  <2>1. /\ p \in Entries /\ PrimaryStarts(n) \in Entries /\ T(")") \in Entries
    BY <1>2, PrimaryEntries, TokensAre, TokenWords
  <2> HIDE DEF p
  <2> QED BY <1>b, <2>1
<1>5. Yields(R("primary"), <<K(Tok), E(1), K(")")>>)
      /\ Yields(R("target"), <<K(Tok), R("target"), K(")")>>)
  BY ExpressionsYield, StatementsYield, Zenon
<1> HIDE DEF p
<1>6. ASSUME NEW x \in Forecasts, NEW z \in Forecasts, Predicts(u, x, z)
      PROVE  \E y \in Forecasts :
               /\ Foresees(Head1, y, z) /\ (y[2] = "target" => target)
               /\ Reaches(text, pos, nodes, y[1]) => Reaches(text, pos', nodes', x[1])
  <2>1. PICK a, b, v \in Forecasts :
          /\ Foresees(Expr, x, a) /\ Foresees(T(")"), a, b)
          /\ Foresees(p, b, v) /\ Foresees(PrimaryStarts(n), v, z)
    BY <1>6, PredictsFour, Zenon
  <2>2. a = <<Then(K(")"), b[1]), b[2]>>
    BY <2>1, ForeseesToken
  <2>3. x = <<Then(IF a[2] = "any" THEN E(1) ELSE R("target"), a[1]), "any">>
    BY <1>b, <2>1, ForeseesLevel
  <2>4. b[1] \in Seq(Symbols) /\ z[1] \in Seq(Symbols)
    BY ForecastTypes
  <2>5. ASSUME Reaches(text, pos, nodes, AtExpr(n, z)[1])
        PROVE  Reaches(text, pos', nodes', x[1])
    <3>1. \/ /\ b[2] = "any"
             /\ \A t : \A i \in 1 .. Len(t), out \in Seq(NodeNames) :
                  Reaches(t, i, out, AtExpr(n, z)[1])
                    => Reaches(t, i, out, Then(R("primary"), b[1]))
          \/ z[2] = "target" /\ b = z
      <4>1. \/ /\ b[2] = "any"
               /\ \A t : \A i \in 1 .. Len(t), out \in Seq(NodeNames) :
                    Reaches(t, i, out, AtExpr(n, z)[1])
                      => Reaches(t, i, out, Then(R("primary"), b[1]))
            \/ z[2] = "target" /\ p = P("PostfixOfTarget") /\ b = <<z[1], "any">>
            \/ z[2] = "target" /\ p = P("PostfixOfSame") /\ b = z
        BY <1>2, <1>3, <2>1, PrimaryForesees
      <4> QED BY <1>3, <4>1, Zenon
    <3>2. CASE /\ b[2] = "any"
               /\ \A t : \A i \in 1 .. Len(t), out \in Seq(NodeNames) :
                    Reaches(t, i, out, AtExpr(n, z)[1])
                      => Reaches(t, i, out, Then(R("primary"), b[1]))
      <4>1. Reaches(text, pos, nodes, Then(R("primary"), b[1]))
        BY <2>5, <3>2, Typed, Zenon
      <4>2. Reaches(text, pos', nodes', Then(E(1), Then(K(")"), b[1])))
        BY <1>1, <1>5, <1>a, <2>4, <4>1, ReadsOfThree, Zenon
      <4>3. x[1] = Then(E(1), Then(K(")"), b[1]))
        BY <2>2, <2>3, <3>2
      <4> QED BY <4>2, <4>3
    <3>3. CASE z[2] = "target" /\ b = z
      <4>1. AtExpr(n, z)[1] = Then(R("target"), z[1])
        BY <3>3 DEF AtExpr
      <4>2. Reaches(text, pos', nodes', Then(R("target"), Then(K(")"), z[1])))
        BY <1>1, <1>5, <1>a, <2>4, <2>5, <4>1, ReadsOfThree, Zenon
      <4>3. x[1] = Then(R("target"), Then(K(")"), z[1]))
        BY <2>2, <2>3, <3>3
      <4> QED BY <4>2, <4>3
    <3> QED BY <3>1, <3>2, <3>3
  <2> QED BY <1>2, <2>5, LevelForesees, Zenon
<1>7. KeepsOrder(u)
  <2>0. Len(u) = 4 /\ u[1] = Expr /\ u[2] = T(")") /\ u[3] = p /\ u[4] = PrimaryStarts(n)
    OBVIOUS
  <2>1. /\ Len(u) = 4 /\ u[1].kind # "more" /\ u[2].kind # "more" /\ u[3].kind # "more"
        /\ u[4] = PrimaryStarts(n)
    <3>1. T(")").kind = "expect" /\ p.kind = "call"
      BY <1>3, KindsApart DEF T, P, Entry
    <3> HIDE DEF u, p
    <3> QED BY <1>b, <2>0, <3>1
  <2>2. "primary" \in Pending \ {"if"} /\ 7 \in 1 .. 8 /\ Head1.kind \in {"level", "more"}
        /\ n = Head1.to /\ n \in 1 .. 8
    BY <1>1, <1>2 DEF Pending, Operators, AtLevel
  <2> HIDE DEF u
  <2>3. \A i \in 1 .. Len(u) - 1 : u[i].kind # "more"
    BY <2>1
  <2>4. Len(u) > 1 /\ u[Len(u)] = More("primary", 7, Head1.to)
    BY <2>1, <2>2 DEF PrimaryStarts
  <2> QED BY <1>4, <2>2, <2>3, <2>4, LoopsKeepOrder
<1> HIDE DEF u
<1> QED BY <1>1, <1>2, <1>4, <1>6, <1>7, StepForecasts, Zenon

LEMMA ListForecasts ==
  ASSUME ParserInv, ForecastsHold, AtLevel, Tok = "[",
         Take(<<P("Elements"), T("]"), P("PostfixOfValue"), PrimaryStarts(Head1.from)>>)
  PROVE  ForecastsHold'
<1> PICK n : n = Head1.from
  OBVIOUS
<1> DEFINE p == P("PostfixOfValue")
           u == <<P("Elements"), T("]"), p, PrimaryStarts(n)>>
<1>1. /\ Do(u) /\ text' = text /\ recovered' = recovered
      /\ diagnosed' = diagnosed /\ Consume(1) /\ nodes' = nodes
  BY DEF Take
<1>2. Running /\ n \in 1 .. 8 /\ n = Head1.to
  BY <1>1, LevelIs
<1>3. p \in Postfixes /\ p # P("PostfixOfTarget") /\ p # P("PostfixOfSame")
  BY PostfixesApart
<1>a. Opt("exprs") \in Symbols /\ K("]") \in Symbols
  BY SymbolTypes, TokensAre DEF Nonterminals
<1>b. /\ P("Elements") \in Entries /\ P("Elements") \in Plain
      /\ P("Elements") \in Words /\ P("Elements") \in Settled
      /\ Word(P("Elements")) = Opt("exprs")
  BY CallWords, SymOfCalled DEF Callable
<1>4. u \in Seq(Entries)
  <2>1. /\ p \in Entries /\ PrimaryStarts(n) \in Entries /\ T("]") \in Entries
    BY <1>2, PrimaryEntries, TokensAre, TokenWords
  <2> HIDE DEF p
  <2> QED BY <1>b, <2>1
<1>5. Yields(R("primary"), <<K(Tok), Opt("exprs"), K("]")>>)
  BY ExpressionsYield, Zenon
<1> HIDE DEF p
<1>6. ASSUME NEW x \in Forecasts, NEW z \in Forecasts, Predicts(u, x, z)
      PROVE  \E y \in Forecasts :
               /\ Foresees(Head1, y, z) /\ (y[2] = "target" => target)
               /\ Reaches(text, pos, nodes, y[1]) => Reaches(text, pos', nodes', x[1])
  <2>1. PICK a, b, v \in Forecasts :
          /\ Foresees(P("Elements"), x, a) /\ Foresees(T("]"), a, b)
          /\ Foresees(p, b, v) /\ Foresees(PrimaryStarts(n), v, z)
    BY <1>6, PredictsFour, Zenon
  <2>2. a = <<Then(K("]"), b[1]), "any">>
    BY <2>1, ForeseesToken
  <2>3. x[1] = Then(Opt("exprs"), Then(K("]"), b[1]))
    BY <1>b, <2>1, <2>2, WordForesees
  <2>4. b[1] \in Seq(Symbols)
    BY ForecastTypes
  <2>5. ASSUME Reaches(text, pos, nodes, AtExpr(n, z)[1])
        PROVE  Reaches(text, pos', nodes', x[1])
    <3>1. \A t : \A i \in 1 .. Len(t), out \in Seq(NodeNames) :
            Reaches(t, i, out, AtExpr(n, z)[1])
              => Reaches(t, i, out, Then(R("primary"), b[1]))
      BY <1>2, <1>3, <2>1, PrimaryForesees, Zenon
    <3>2. Reaches(text, pos, nodes, Then(R("primary"), b[1]))
      BY <2>5, <3>1, Typed, Zenon
    <3>3. Reaches(text, pos', nodes', Then(Opt("exprs"), Then(K("]"), b[1])))
      BY <1>1, <1>5, <1>a, <2>4, <3>2, ReadsOfThree, Zenon
    <3> QED BY <2>3, <3>3
  <2> QED BY <1>2, <2>5, LevelForesees, Zenon
<1>7. KeepsOrder(u)
  <2>0. Len(u) = 4 /\ u[1] = P("Elements") /\ u[2] = T("]") /\ u[3] = p /\ u[4] = PrimaryStarts(n)
    OBVIOUS
  <2>1. /\ Len(u) = 4 /\ u[1].kind # "more" /\ u[2].kind # "more" /\ u[3].kind # "more"
        /\ u[4] = PrimaryStarts(n)
    <3>1. T("]").kind = "expect" /\ p.kind = "call" /\ P("Elements").kind = "call"
      BY <1>3, KindsApart DEF T, P, Entry
    <3> HIDE DEF u, p
    <3> QED BY <2>0, <3>1
  <2>2. "primary" \in Pending \ {"if"} /\ 7 \in 1 .. 8 /\ Head1.kind \in {"level", "more"}
        /\ n = Head1.to /\ n \in 1 .. 8
    BY <1>1, <1>2 DEF Pending, Operators, AtLevel
  <2> HIDE DEF u
  <2>3. \A i \in 1 .. Len(u) - 1 : u[i].kind # "more"
    BY <2>1
  <2>4. Len(u) > 1 /\ u[Len(u)] = More("primary", 7, Head1.to)
    BY <2>1, <2>2 DEF PrimaryStarts
  <2> QED BY <1>4, <2>2, <2>3, <2>4, LoopsKeepOrder
<1> HIDE DEF u
<1> QED BY <1>1, <1>2, <1>4, <1>6, <1>7, StepForecasts, Zenon

LEMMA LevelsForecast ==
  ASSUME ParserInv, ForecastsHold,
         PrefixNot \/ PrefixMinus \/ PrimaryToken \/ PrimaryInBrackets
  PROVE  ForecastsHold'
<1>1. CASE PrefixNot
  <2>1. /\ AtLevel /\ Tok = "not" /\ Head1.from <= 4
        /\ Take(<<Level(4), More("not", 4 - 1, Head1.from)>>)
    BY <1>1 DEF PrefixNot
  <2>2. Yields(E(4), <<K(Tok), E(4), Node("not")>>)
    BY <2>1, ExpressionsYield, Zenon
  <2> QED BY <2>1, <2>2, PrefixForecasts
<1>2. CASE PrefixMinus
  <2>1. /\ AtLevel /\ Tok = "-" /\ Take(<<Level(8), More("neg", 8 - 1, Head1.from)>>)
    BY <1>2 DEF PrefixMinus
  <2>2. Yields(E(8), <<K(Tok), E(8), Node("neg")>>)
    BY <2>1, ExpressionsYield, Zenon
  <2>3. Head1.from <= 8
    BY <2>1, LevelIs
  <2> QED BY <2>1, <2>2, <2>3, PrefixForecasts
<1>3. CASE PrimaryInBrackets
  BY <1>3, InParensForecasts, ListForecasts, Zenon DEF PrimaryInBrackets
<1> QED BY <1>1, <1>2, <1>3, PrimaryTokenForecasts

\* One more postfix: what is foreseen after it is what can be derived from the
\* postfix and those that may follow it.
LEMMA OneMorePostfix ==
  ASSUME NEW p \in Postfixes, NEW q \in Postfixes, q # P("PostfixOfSame"),
         NEW v \in Forecasts, NEW z \in Forecasts, Foresees(q, v, z), NEW g \in Seq(Symbols),
         \A t : \A i \in 1 .. Len(t), out \in Seq(NodeNames) :
           Reaches(t, i, out, Then(R("postfix"), v[1])) => Reaches(t, i, out, g),
         q = P("PostfixOfTarget") /\ z[2] = "target" /\ v[1] = z[1] => g \in Ends(z)
  PROVE  /\ v[2] = "any"
         /\ \E y \in Forecasts :
              /\ Foresees(p, y, z) /\ y[2] = "any"
              /\ \A t : \A i \in 1 .. Len(t), out \in Seq(NodeNames) :
                   Reaches(t, i, out, y[1]) => Reaches(t, i, out, g)
<1>1. /\ Many("postfix") \in Symbols /\ R("postfix") \in Symbols /\ "postfix" \in Nonterminals
  BY SymbolTypes DEF Nonterminals
<1>2. CASE v[2] = "any" /\ \E h \in Seq(Symbols) :
             v[1] = Then(Many("postfix"), h) /\ Foresees(p, v, z)
  <2>1. PICK h \in Seq(Symbols) : v[1] = Then(Many("postfix"), h) /\ Foresees(p, v, z)
    BY <1>2
  <2>2. ASSUME NEW t, NEW i \in 1 .. Len(t), NEW out \in Seq(NodeNames),
               Reaches(t, i, out, v[1])
        PROVE  Reaches(t, i, out, g)
    <3>1. Reaches(t, i, out, Then(R("postfix"), <<Many("postfix")>>) \o h)
      BY <1>1, <2>1, <2>2, YieldsMany, Zenon DEF Yields
    <3>2. Then(R("postfix"), <<Many("postfix")>>) \o h = Then(R("postfix"), v[1])
      <4>1. <<Many("postfix")>> \in Seq(Symbols)
        BY <1>1
      <4>2. Then(R("postfix"), <<Many("postfix")>>) \o h
              = Then(R("postfix"), <<Many("postfix")>> \o h)
        BY <1>1, <4>1, ThenConcat
      <4> QED BY <2>1, <4>2, Zenon DEF Then
    <3> QED BY <3>1, <3>2, Zenon
  <2> QED BY <1>2, <2>1, <2>2, Zenon
<1>3. CASE z[2] = "target" /\ q = P("PostfixOfTarget") /\ v = <<z[1], "any">>
  <2>1. g \in Ends(z)
    <3>1. v[1] = z[1]
      BY <1>3
    <3> QED BY <1>3, <3>1
  <2> DEFINE y == <<Then(Many("postfix"), g), "any">>
  <2>2. y[1] = Then(Many("postfix"), g) /\ y[2] = "any"
    OBVIOUS
  <2>3. y \in Forecasts
    BY <1>1, ThenType DEF Forecasts
  <2>4. Foresees(p, y, z)
    BY <1>3, <2>1, ForeseesPostfix
  <2>5. ASSUME NEW t, NEW i \in 1 .. Len(t), NEW out \in Seq(NodeNames),
               Reaches(t, i, out, Then(Many("postfix"), g))
        PROVE  Reaches(t, i, out, g)
    <3>1. Reaches(t, i, out, <<>> \o g)
      BY <1>1, <2>5, YieldsMany, Zenon DEF Yields
    <3> QED BY <3>1, EmptyConcat
  <2> HIDE DEF y
  <2>6. v[2] = "any"
    BY <1>3
  <2> QED BY <2>2, <2>3, <2>4, <2>5, <2>6, Zenon
<1>4. \/ z[2] = "any" /\ v = <<Then(Many("postfix"), z[1]), "any">>
      \/ z[2] = "target" /\ \E h \in Ends(z) : v = <<Then(Many("postfix"), h), "any">>
      \/ q = P("PostfixOfTarget") /\ z[2] = "target" /\ v = <<z[1], "any">>
  BY ForeseesPostfix
<1>5. CASE z[2] = "any" /\ v = <<Then(Many("postfix"), z[1]), "any">>
  <2>1. z[1] \in Seq(Symbols) /\ Foresees(p, v, z)
    BY <1>5, ForecastTypes, ForeseesPostfix
  <2>2. v[1] = Then(Many("postfix"), z[1]) /\ v[2] = "any"
    BY <1>5
  <2> QED BY <1>2, <2>1, <2>2
<1>6. CASE z[2] = "target" /\ \E h \in Ends(z) : v = <<Then(Many("postfix"), h), "any">>
  <2>1. PICK h \in Ends(z) : v = <<Then(Many("postfix"), h), "any">>
    BY <1>6
  <2>2. h \in Seq(Symbols) /\ Foresees(p, v, z)
    BY <1>6, <2>1, EndsType, ForeseesPostfix
  <2>3. v[1] = Then(Many("postfix"), h) /\ v[2] = "any"
    BY <2>1
  <2> QED BY <1>2, <2>2, <2>3
<1> QED BY <1>3, <1>4, <1>5, <1>6

LEMMA PostfixesYield ==
  ASSUME NEW t, NEW i \in 1 .. Len(t), NEW out \in Seq(NodeNames), NEW f \in Seq(Symbols),
         Reaches(t, i, out, Then(R("postfix"), f))
  PROVE  /\ Reaches(t, i, out, Then(K("."), Then(K("id"), f)))
         /\ Reaches(t, i, out, Then(K("["), Then(E(1), Then(K("]"), f))))
         /\ Reaches(t, i, out, Then(K("("), Then(Opt("exprs"), Then(K(")"), f))))
<1>1. /\ K(".") \in Symbols /\ K("id") \in Symbols /\ K("[") \in Symbols
      /\ K("]") \in Symbols /\ K("(") \in Symbols /\ K(")") \in Symbols
      /\ E(1) \in Symbols /\ Opt("exprs") \in Symbols
  BY SymbolTypes, TokensAre DEF Nonterminals
<1>2. /\ Reaches(t, i, out, <<K("."), K("id")>> \o f)
      /\ Reaches(t, i, out, <<K("["), E(1), K("]")>> \o f)
      /\ Reaches(t, i, out, <<K("("), Opt("exprs"), K(")")>> \o f)
  BY ExpressionsYield, Zenon DEF Yields
<1>3. <<K("."), K("id")>> \o f = Then(K("."), Then(K("id"), f))
  BY <1>1, UnfoldTwo
<1>4. <<K("["), E(1), K("]")>> \o f = Then(K("["), Then(E(1), Then(K("]"), f)))
  BY <1>1, UnfoldThree
<1>5. <<K("("), Opt("exprs"), K(")")>> \o f = Then(K("("), Then(Opt("exprs"), Then(K(")"), f)))
  BY <1>1, UnfoldThree
<1> QED BY <1>2, <1>3, <1>4, <1>5

\* A postfix is taken; then comes u, which foresees what is left of it, g.
LEMMA PostfixTaken ==
  ASSUME ParserInv, ForecastsHold, InPostfix, NEW u \in Seq(Entries), Take(u),
         \A i \in 1 .. Len(u) : u[i].kind # "more",
         \A x, z \in Forecasts : Predicts(u, x, z) =>
           \E q \in Postfixes, v \in Forecasts :
             /\ q # P("PostfixOfSame") /\ Foresees(q, v, z)
             /\ \A t : \A i \in 1 .. Len(t), out \in Seq(NodeNames) :
                  Reaches(t, i, out, Then(R("postfix"), v[1]))
                    => Reaches(t, i, out, Then(K(Tok), x[1]))
             /\ q = P("PostfixOfTarget") /\ z[2] = "target" /\ v[1] = z[1]
                  => Then(K(Tok), x[1]) \in Ends(z)
  PROVE  ForecastsHold'
<1>1. /\ Do(u) /\ text' = text /\ recovered' = recovered /\ Running
      /\ diagnosed' = diagnosed /\ Consume(1) /\ nodes' = nodes /\ Head1 \in Postfixes
  BY DEF Take, InPostfix, Postfixes
<1>2. ASSUME NEW x \in Forecasts, NEW z \in Forecasts, Predicts(u, x, z)
      PROVE  \E y \in Forecasts :
               /\ Foresees(Head1, y, z) /\ (y[2] = "target" => target)
               /\ Reaches(text, pos, nodes, y[1]) => Reaches(text, pos', nodes', x[1])
  <2>1. PICK q \in Postfixes, v \in Forecasts :
          /\ q # P("PostfixOfSame") /\ Foresees(q, v, z)
          /\ \A t : \A i \in 1 .. Len(t), out \in Seq(NodeNames) :
               Reaches(t, i, out, Then(R("postfix"), v[1]))
                 => Reaches(t, i, out, Then(K(Tok), x[1]))
          /\ q = P("PostfixOfTarget") /\ z[2] = "target" /\ v[1] = z[1]
               => Then(K(Tok), x[1]) \in Ends(z)
    BY <1>2, Zenon
  <2> DEFINE g == Then(K(Tok), x[1])
  <2>2. x[1] \in Seq(Symbols) /\ g \in Seq(Symbols)
    BY ForecastTypes, Typed, ThenType
  <2>3. g = Then(K(Tok), x[1])
    OBVIOUS
  <2>4. /\ \A t : \A i \in 1 .. Len(t), out \in Seq(NodeNames) :
             Reaches(t, i, out, Then(R("postfix"), v[1])) => Reaches(t, i, out, g)
        /\ q = P("PostfixOfTarget") /\ z[2] = "target" /\ v[1] = z[1] => g \in Ends(z)
    BY <2>1, Zenon
  <2> HIDE DEF g
  <2>5. PICK h : h = Head1
    OBVIOUS
  <2>6. \E y \in Forecasts :
          /\ Foresees(h, y, z) /\ y[2] = "any"
          /\ \A t : \A i \in 1 .. Len(t), out \in Seq(NodeNames) :
               Reaches(t, i, out, y[1]) => Reaches(t, i, out, g)
    <3>1. h \in Postfixes /\ q # P("PostfixOfSame") /\ Foresees(q, v, z) /\ g \in Seq(Symbols)
      BY <1>1, <2>1, <2>2, <2>5
    <3> QED BY <2>4, <3>1, OneMorePostfix
  <2>7. PICK y \in Forecasts :
          /\ Foresees(h, y, z) /\ y[2] = "any"
          /\ \A t : \A i \in 1 .. Len(t), out \in Seq(NodeNames) :
               Reaches(t, i, out, y[1]) => Reaches(t, i, out, g)
    BY <2>6
  <2>8. ASSUME Reaches(text, pos, nodes, y[1])
        PROVE  Reaches(text, pos', nodes', x[1])
    <3>1. Reaches(text, pos, nodes, Then(K(Tok), x[1]))
      BY <2>3, <2>7, <2>8, Typed, Zenon
    <3> QED BY <1>1, <2>2, <3>1, ReadsToken
  <2> QED BY <2>5, <2>7, <2>8, Zenon
<1>3. KeepsOrder(u)
  <2>1. Head1.kind = "call" /\ Head1 # L("statements")
    BY <1>1, KindsApart DEF L, Entry
  <2> QED BY <2>1, CallsKeepOrder DEF KeepsLast
<1> QED BY <1>1, <1>2, <1>3, StepForecasts, Zenon

LEMMA PostfixForecasts ==
  ASSUME ParserInv, ForecastsHold, ParsePostfix
  PROVE  ForecastsHold'
<1>a. P("PostfixOfTarget") \in Entries /\ P("PostfixOfValue") \in Entries
  BY PostfixesApart
<1>1. CASE InPostfix /\ Tok = "." /\ Take(<<T("id"), P("PostfixOfTarget")>>)
  <2> DEFINE u == <<T("id"), P("PostfixOfTarget")>>  q == P("PostfixOfTarget")
  <2>1. u \in Seq(Entries)
    BY <1>a, TokensAre, TokenWords
  <2>2. ASSUME NEW x \in Forecasts, NEW z \in Forecasts, Predicts(u, x, z)
        PROVE  \E r \in Postfixes, v \in Forecasts :
             /\ r # P("PostfixOfSame") /\ Foresees(r, v, z)
             /\ \A t : \A i \in 1 .. Len(t), out \in Seq(NodeNames) :
                  Reaches(t, i, out, Then(R("postfix"), v[1]))
                    => Reaches(t, i, out, Then(K(Tok), x[1]))
             /\ r = P("PostfixOfTarget") /\ z[2] = "target" /\ v[1] = z[1]
                  => Then(K(Tok), x[1]) \in Ends(z)
    <3>1. PICK v \in Forecasts : Foresees(T("id"), x, v) /\ Foresees(q, v, z)
      BY <2>2, PredictsTwo, Zenon
    <3>2. x[1] = Then(K("id"), v[1]) /\ v[1] \in Seq(Symbols)
      <4>1. x = <<Then(K("id"), v[1]), IF "id" = ")" THEN v[2] ELSE "any">>
        BY <3>1, ForeseesToken, Zenon
      <4> QED BY <4>1, ForecastTypes
    <3>3. Then(K(Tok), x[1]) = Then(K("."), Then(K("id"), v[1]))
      BY <1>1, <3>2
    <3>4. \A t : \A i \in 1 .. Len(t), out \in Seq(NodeNames) :
            Reaches(t, i, out, Then(R("postfix"), v[1]))
              => Reaches(t, i, out, Then(K(Tok), x[1]))
      BY <3>2, <3>3, PostfixesYield, Zenon
    <3>5. v[1] = z[1] => Then(K(Tok), x[1]) \in Ends(z)
      BY <3>3 DEF Ends
    <3> QED BY <3>1, <3>4, <3>5, PostfixesApart, Zenon
  <2>3. Len(u) = 2 /\ u[1].kind # "more" /\ u[2].kind # "more"
    BY DEF T, P, Entry
  <2> HIDE DEF u
  <2>4. \A i \in 1 .. Len(u) : u[i].kind # "more"
    BY <2>3
  <2> QED BY <1>1, <2>1, <2>2, <2>4, PostfixTaken, Zenon DEF u
<1>2. CASE InPostfix /\ Tok = "[" /\ Take(<<Expr, T("]"), P("PostfixOfTarget")>>)
  <2> DEFINE u == <<Expr, T("]"), P("PostfixOfTarget")>>  q == P("PostfixOfTarget")
  <2>0. Expr \in Entries /\ Expr.kind = "level" /\ Expr.to = 1
    BY LevelWords, WordOf DEF Expr
  <2>1. u \in Seq(Entries)
    BY <1>a, <2>0, TokensAre, TokenWords
  <2>2. ASSUME NEW x \in Forecasts, NEW z \in Forecasts, Predicts(u, x, z)
        PROVE  \E r \in Postfixes, v \in Forecasts :
             /\ r # P("PostfixOfSame") /\ Foresees(r, v, z)
             /\ \A t : \A i \in 1 .. Len(t), out \in Seq(NodeNames) :
                  Reaches(t, i, out, Then(R("postfix"), v[1]))
                    => Reaches(t, i, out, Then(K(Tok), x[1]))
             /\ r = P("PostfixOfTarget") /\ z[2] = "target" /\ v[1] = z[1]
                  => Then(K(Tok), x[1]) \in Ends(z)
    <3>1. PICK a, v \in Forecasts :
            Foresees(Expr, x, a) /\ Foresees(T("]"), a, v) /\ Foresees(q, v, z)
      BY <2>2, PredictsThree, Zenon
    <3>2. a[1] = Then(K("]"), v[1]) /\ a[2] = "any" /\ v[1] \in Seq(Symbols)
      <4>1. a = <<Then(K("]"), v[1]), IF "]" = ")" THEN v[2] ELSE "any">>
        BY <3>1, ForeseesToken, Zenon
      <4> QED BY <4>1, ForecastTypes
    <3>3. x[1] = Then(E(1), a[1])
      <4>1. x = <<Then(IF a[2] = "any" THEN E(Expr.to) ELSE R("target"), a[1]), "any">>
        BY <2>0, <3>1, ForeseesLevel, Zenon
      <4> QED BY <2>0, <3>2, <4>1
    <3>4. Then(K(Tok), x[1]) = Then(K("["), Then(E(1), Then(K("]"), v[1])))
      BY <1>1, <1>2, <3>2, <3>3
    <3>5. \A t : \A i \in 1 .. Len(t), out \in Seq(NodeNames) :
            Reaches(t, i, out, Then(R("postfix"), v[1]))
              => Reaches(t, i, out, Then(K(Tok), x[1]))
      BY <3>2, <3>4, PostfixesYield, Zenon
    <3>6. v[1] = z[1] => Then(K(Tok), x[1]) \in Ends(z)
      BY <3>4 DEF Ends
    <3> QED BY <3>1, <3>5, <3>6, PostfixesApart, Zenon
  <2>3. Len(u) = 3 /\ u[1].kind # "more" /\ u[2].kind # "more" /\ u[3].kind # "more"
    BY <2>0 DEF T, P, Entry
  <2> HIDE DEF u
  <2>4. \A i \in 1 .. Len(u) : u[i].kind # "more"
    BY <2>3
  <2> QED BY <1>2, <2>1, <2>2, <2>4, PostfixTaken, Zenon DEF u
<1>3. CASE InPostfix /\ Tok = "(" /\ Take(<<P("Arguments"), T(")"), P("PostfixOfValue")>>)
  <2> DEFINE u == <<P("Arguments"), T(")"), P("PostfixOfValue")>>  q == P("PostfixOfValue")
  <2>0. /\ P("Arguments") \in Entries /\ P("Arguments") \in Words
        /\ P("Arguments") \in Settled /\ Word(P("Arguments")) = Opt("exprs")
    BY CallWords, SymOfCalled DEF Callable
  <2>1. u \in Seq(Entries)
    BY <1>a, <2>0, TokensAre, TokenWords
  <2>2. ASSUME NEW x \in Forecasts, NEW z \in Forecasts, Predicts(u, x, z)
        PROVE  \E r \in Postfixes, v \in Forecasts :
             /\ r # P("PostfixOfSame") /\ Foresees(r, v, z)
             /\ \A t : \A i \in 1 .. Len(t), out \in Seq(NodeNames) :
                  Reaches(t, i, out, Then(R("postfix"), v[1]))
                    => Reaches(t, i, out, Then(K(Tok), x[1]))
             /\ r = P("PostfixOfTarget") /\ z[2] = "target" /\ v[1] = z[1]
                  => Then(K(Tok), x[1]) \in Ends(z)
    <3>1. PICK a, v \in Forecasts :
            Foresees(P("Arguments"), x, a) /\ Foresees(T(")"), a, v) /\ Foresees(q, v, z)
      BY <2>2, PredictsThree, Zenon
    <3>2. a[1] = Then(K(")"), v[1]) /\ v[1] \in Seq(Symbols)
      <4>1. a = <<Then(K(")"), v[1]), IF ")" = ")" THEN v[2] ELSE "any">>
        BY <3>1, ForeseesToken, Zenon
      <4> QED BY <4>1, ForecastTypes
    <3>3. x[1] = Then(Opt("exprs"), a[1])
      BY <2>0, <3>1, WordForesees
    <3>4. Then(K(Tok), x[1]) = Then(K("("), Then(Opt("exprs"), Then(K(")"), v[1])))
      BY <1>3, <3>2, <3>3
    <3>5. \A t : \A i \in 1 .. Len(t), out \in Seq(NodeNames) :
            Reaches(t, i, out, Then(R("postfix"), v[1]))
              => Reaches(t, i, out, Then(K(Tok), x[1]))
      BY <3>2, <3>4, PostfixesYield, Zenon
    <3> QED BY <3>1, <3>5, PostfixesApart, Zenon
  <2>3. Len(u) = 3 /\ u[1].kind # "more" /\ u[2].kind # "more" /\ u[3].kind # "more"
    BY DEF T, P, Entry
  <2> HIDE DEF u
  <2>4. \A i \in 1 .. Len(u) : u[i].kind # "more"
    BY <2>3
  <2> QED BY <1>3, <2>1, <2>2, <2>4, PostfixTaken, Zenon DEF u
<1> QED BY <1>1, <1>2, <1>3 DEF ParsePostfix

LEMMA EndPostfixForecasts ==
  ASSUME ParserInv, ForecastsHold, EndPostfix
  PROVE  ForecastsHold'
<1>1. /\ Do(<<>>) /\ text' = text /\ recovered' = recovered /\ Running
      /\ diagnosed' = diagnosed /\ pos' = pos /\ nodes' = nodes /\ Head1 \in Postfixes
      /\ target' = IF Head1 = P("PostfixOfSame") THEN target
                   ELSE Head1 = P("PostfixOfTarget")
  BY DEF EndPostfix, InPostfix, Postfixes
<1>2. ASSUME NEW x \in Forecasts, NEW z \in Forecasts, Predicts(<<>>, x, z),
             x[2] = "target" => target'
      PROVE  \E y \in Forecasts :
               /\ Foresees(Head1, y, z) /\ (y[2] = "target" => target)
               /\ Reaches(text, pos, nodes, y[1]) => Reaches(text, pos', nodes', x[1])
  <2>1. x = z /\ z[1] \in Seq(Symbols) /\ z[2] \in {"any", "target"}
    BY <1>2, PredictsNone, ForecastTypes
  <2>2. Many("postfix") \in Symbols /\ "postfix" \in Nonterminals
    BY SymbolTypes DEF Nonterminals
  <2>3. CASE z[2] = "any"
    <3> DEFINE y == <<Then(Many("postfix"), z[1]), "any">>
    <3>1. y[1] = Then(Many("postfix"), z[1]) /\ y[2] # "target"
      OBVIOUS
    <3>2. y \in Forecasts
      BY <2>1, <2>2, ThenType DEF Forecasts
    <3>3. Foresees(Head1, y, z)
      BY <1>1, <2>3, ForeseesPostfix
    <3>4. ASSUME Reaches(text, pos, nodes, Then(Many("postfix"), z[1]))
          PROVE  Reaches(text, pos, nodes, z[1])
      <4>1. Reaches(text, pos, nodes, <<>> \o z[1])
        BY <2>1, <2>2, <3>4, Typed, YieldsMany, Zenon DEF Yields
      <4> QED BY <2>1, <4>1, EmptyConcat
    <3> HIDE DEF y
    <3> QED BY <1>1, <2>1, <3>1, <3>2, <3>3, <3>4
  <2>4. CASE z[2] = "target" /\ Head1 = P("PostfixOfTarget")
    <3> DEFINE y == <<z[1], "any">>
    <3>1. y[1] = z[1] /\ y[2] # "target"
      OBVIOUS
    <3>2. y \in Forecasts
      BY <2>1 DEF Forecasts
    <3>3. Foresees(Head1, y, z)
      BY <1>1, <2>4, ForeseesPostfix
    <3> HIDE DEF y
    <3> QED BY <1>1, <2>1, <3>1, <3>2, <3>3
  <2>5. CASE z[2] = "target" /\ Head1 = P("PostfixOfSame")
    <3>1. Foresees(Head1, z, z)
      BY <1>1, <2>5, ForeseesPostfix
    <3> QED BY <1>1, <1>2, <2>1, <2>5, <3>1
  <2>6. Head1 # P("PostfixOfTarget") /\ Head1 # P("PostfixOfSame") => ~target'
    BY <1>1
  <2> QED BY <1>2, <2>1, <2>3, <2>4, <2>5, <2>6
<1>3. <<>> \in Seq(Entries)
  OBVIOUS
<1>4. KeepsOrder(<<>>)
  <2>1. Head1.kind = "call"
    BY <1>1, KindsApart
  <2> QED BY <2>1, NoneKeepOrder
<1> QED BY <1>1, <1>2, <1>3, <1>4, StepForecasts

\* After the else branch of a conditional expression no other if is taken:
\* the branch has taken it.
IfTaken ==
  Running /\ Head1.kind = "more" /\ Head1.name = "if"
    => Tok # "if" /\ Head1.from = 1 /\ Head1.to = 1

LEMMA LoopIs ==
  ASSUME ParserInv, InLoops
  PROVE  /\ Running /\ Head1 \in Entries /\ Head1.kind = "more" /\ Head1.name \in Pending
         /\ Head1.from \in 1 .. 8 /\ Head1.to \in 1 .. 8
<1>1. Head1 \in Entries /\ Head1.kind = "more" /\ Running
  BY Below DEF InLoops, Running
<1> QED BY <1>1, MoreIs, Zenon

\* What is left of an expression when the node of its last operator is noted.
Left(e, z) == (IF e.name = "if" THEN <<>> ELSE Rests(e.from, e.to)) \o z[1]

LEMMA CreatedForecasts ==
  ASSUME ParserInv, InLoops, Created, NEW z \in Forecasts, z[2] = "any"
  PROVE  /\ nodes' \in Seq(NodeNames) /\ Left(Head1, z) \in Seq(Symbols)
         /\ \E y \in Forecasts :
              /\ Foresees(Head1, y, z) /\ y[2] = "any"
              /\ Reaches(text, pos, nodes, y[1]) => Reaches(text, pos, nodes', Left(Head1, z))
<1> PICK e : e = Head1
  OBVIOUS
<1>1. /\ e \in Entries /\ e.kind = "more" /\ e.name \in Pending
      /\ e.from \in 0 .. 8 /\ e.to \in 1 .. 8
  BY LoopIs
<1> DEFINE r == IF e.name = "if" THEN <<>> ELSE Rests(e.from, e.to)
           f == r \o z[1]
<1>2. f \in Seq(Symbols) /\ Left(e, z) = f
  <2>1. Rests(e.from, e.to) \in Seq(Symbols) /\ z[1] \in Seq(Symbols)
    BY <1>1, RestsAre, ForecastTypes
  <2> QED BY <2>1 DEF Left
<1>3. CASE e.name = "primary"
  <2> DEFINE y == <<f, "any">>
  <2>1. y \in Forecasts
    BY <1>2 DEF Forecasts
  <2>2. y = IF z[2] = "any" THEN <<Rests(e.from, e.to) \o z[1], "any">> ELSE z
    BY <1>3
  <2>3. Foresees(e, y, z)
    BY <1>1, <1>3, <2>2, ForeseesPrimary, Zenon
  <2>4. y[1] = f /\ y[2] = "any" /\ nodes' = nodes
    BY <1>3 DEF Created
  <2> HIDE DEF y, f
  <2> QED BY <1>2, <2>1, <2>3, <2>4, Typed
<1>4. CASE e.name # "primary"
  <2>1. e.name \in NodeNames /\ Node(e.name) \in Symbols
    BY <1>1, <1>4, SymbolTypes DEF Pending, NodeNames
  <2>2. nodes' = Append(nodes, e.name) /\ nodes' \in Seq(NodeNames)
    BY <1>4, <2>1, Typed DEF Created
  <2> DEFINE y == <<Then(Node(e.name), f), "any">>
  <2>3. y[1] = Then(Node(e.name), f) /\ y[2] = "any"
    OBVIOUS
  <2>4. Foresees(e, y, z)
    <3>1. y = <<Then(Node(e.name), (IF e.name = "if" THEN <<>> ELSE Rests(e.from, e.to)) \o z[1]),
                "any">>
      OBVIOUS
    <3> QED BY <1>1, <1>4, <3>1, ForeseesOperator, Zenon
  <2> HIDE DEF f
  <2>5. y \in Forecasts
    BY <1>2, <2>1, ThenType DEF Forecasts
  <2> HIDE DEF y
  <2>6. Reaches(text, pos, nodes, y[1]) => Reaches(text, pos, nodes', f)
    BY <1>2, <2>1, <2>2, <2>3, Typed, DeriveNode
  <2> QED BY <1>2, <2>2, <2>3, <2>4, <2>5, <2>6
<1> HIDE DEF f
<1> QED BY <1>3, <1>4

LEMMA EndOperatorsForecasts ==
  ASSUME ParserInv, ForecastsHold, EndOperators
  PROVE  ForecastsHold'
<1>1. /\ Do(<<>>) /\ text' = text /\ recovered' = recovered
      /\ diagnosed' = diagnosed /\ pos' = pos /\ InLoops /\ Created
  BY DEF EndOperators
<1>2. /\ Running /\ Head1 \in Entries /\ Head1.kind = "more"
      /\ Head1.from \in 0 .. 8 /\ Head1.to \in 1 .. 8
  BY <1>1, LoopIs
<1>3. ASSUME NEW x \in Forecasts, NEW z \in Forecasts, Predicts(<<>>, x, z),
             x[2] = "target" => target'
      PROVE  \E y \in Forecasts :
               /\ Foresees(Head1, y, z) /\ (y[2] = "target" => target)
               /\ Reaches(text, pos, nodes, y[1]) => Reaches(text, pos', nodes', x[1])
  <2>1. x = z /\ z[1] \in Seq(Symbols) /\ z[2] \in {"any", "target"}
    BY <1>3, PredictsNone, ForecastTypes
  <2>2. CASE z[2] = "any"
    <3>1. /\ nodes' \in Seq(NodeNames) /\ Left(Head1, z) \in Seq(Symbols)
          /\ \E y \in Forecasts :
               /\ Foresees(Head1, y, z) /\ y[2] = "any"
               /\ Reaches(text, pos, nodes, y[1]) => Reaches(text, pos, nodes', Left(Head1, z))
      BY <1>1, <2>2, CreatedForecasts
    <3>2. ASSUME Reaches(text, pos, nodes', Left(Head1, z))
          PROVE  Reaches(text, pos, nodes', z[1])
      <4>1. CASE Head1.name = "if"
        <5>1. Left(Head1, z) = z[1]
          BY <2>1, <4>1 DEF Left
        <5> QED BY <3>2, <5>1
      <4>2. CASE Head1.name # "if"
        <5> PICK m, n, out : m = Head1.from /\ n = Head1.to /\ out = nodes'
          OBVIOUS
        <5>1. Reaches(text, pos, out, Rests(m, n) \o z[1])
          BY <3>2, <4>2 DEF Left
        <5>2. 0 \in 0 .. 8 /\ 0 <= m /\ 0 < n /\ m \in 0 .. 8 /\ n \in 1 .. 8
          BY <1>2
        <5>3. Reaches(text, pos, out, Rests(0, n) \o z[1])
          BY <2>1, <3>1, <5>1, <5>2, Typed, Erase
        <5>4. Rests(0, n) = <<>>
          BY <5>2, RestsAre
        <5> QED BY <2>1, <5>3, <5>4, EmptyConcat
      <4> QED BY <4>1, <4>2
    <3> QED BY <1>1, <2>1, <3>1, <3>2
  <2>3. CASE z[2] = "target"
    <3>1. target' /\ Head1.name = "primary"
      BY <1>1, <1>3, <2>1, <2>3 DEF Created
    <3>2. target' = target /\ nodes' = nodes
      BY <1>1, <3>1 DEF Created
    <3>3. Foresees(Head1, z, z)
      BY <1>2, <2>3, <3>1, ForeseesPrimary
    <3> QED BY <1>1, <2>1, <3>1, <3>2, <3>3
  <2> QED BY <2>1, <2>2, <2>3
<1>4. <<>> \in Seq(Entries)
  OBVIOUS
<1>5. KeepsOrder(<<>>)
  <2>1. Head1 # L("statements")
    BY <1>2 DEF L, Entry
  <2>2. Head1.to = 1 => Tok' # "if"
    <3>1. LevelOf("if") = 1
      BY DEF LevelOf
    <3>2. Head1.to = 1 => LevelOf("if") \in Head1.to .. Head1.from
      <4>1. Head1.from \in 1 .. 8
        BY <1>1, LoopIs
      <4> QED BY <3>1, <4>1
    <3>3. Tok' = Tok /\ ~Takes
      BY <1>1 DEF EndOperators, Tok
    <3> QED BY <3>2, <3>3 DEF Takes
  <2>3. Branches(<<>>)
    BY DEF Branches
  <2> QED BY <2>1, <2>2, <2>3 DEF KeepsOrder, KeepsLast, Lowest
<1> QED BY <1>1, <1>2, <1>3, <1>4, <1>5, StepForecasts

\* The operator of a level is taken.
LEMMA OperandForecasts ==
  ASSUME ParserInv, ForecastsHold, IfTaken, Operator, Tok # "if"
  PROVE  ForecastsHold'
<1> PICK n, k, m : n = Head1.to /\ k = Head1.from /\ m = LevelOf(Tok)
  OBVIOUS
<1> DEFINE u == <<Level(m + 1), More(Tok, m, n)>>
<1>1. /\ Do(u) /\ text' = text /\ recovered' = recovered
      /\ diagnosed' = diagnosed /\ Consume(1) /\ InLoops /\ Created /\ m \in n .. k
  BY DEF Operator, Takes
<1>2. /\ Running /\ Head1 \in Entries /\ Head1.kind = "more"
      /\ k \in 1 .. 8 /\ n \in 1 .. 8 /\ m \in 1 .. 8 /\ m <= k /\ n <= m /\ k \in 0 .. 8
      /\ m \in 0 .. 8
  BY <1>1, LoopIs
<1>3. Tok \in {"or", "and", "cmp", "add", "-", "mul"} /\ m \in {2, 3, 5, 6, 7}
  BY <1>2 DEF LevelOf
<1>4. Head1.name # "if"
  BY <1>1, <1>2, <1>3 DEF IfTaken
<1> PICK tok : tok = Tok
  OBVIOUS
<1>5. /\ tok \in Operators /\ tok # "if" /\ tok \in NodeNames /\ tok \in Pending
      /\ m + 1 \in 1 .. 8
  BY <1>3 DEF Operators, NodeNames, Pending
<1>6. u \in Seq(Entries)
  <2>1. Level(m + 1) \in Entries
    BY <1>5, LevelWords
  <2>2. More(Tok, m, n) \in Entries
    BY <1>2, <1>5, MoreEntry DEF Quiet, Inner
  <2> QED BY <2>1, <2>2
<1>7. /\ K(Tok) \in Symbols /\ E(m + 1) \in Symbols /\ Node(Tok) \in Symbols /\ Rest(m) \in Symbols
  BY <1>2, <1>5, Typed, SymbolTypes
<1>8. ASSUME NEW x \in Forecasts, NEW z \in Forecasts, Predicts(u, x, z)
      PROVE  \E y \in Forecasts :
               /\ Foresees(Head1, y, z) /\ (y[2] = "target" => target)
               /\ Reaches(text, pos, nodes, y[1]) => Reaches(text, pos', nodes', x[1])
  <2>1. PICK v \in Forecasts : Foresees(Level(m + 1), x, v) /\ Foresees(More(tok, m, n), v, z)
    BY <1>8, PredictsTwo, Zenon
  <2>2. z[2] = "any" /\ v[2] = "any" /\ v[1] = Then(Node(Tok), Rests(m, n) \o z[1])
    <3>1. /\ z[2] = "any" /\ v[2] = "any"
          /\ v[1] = Then(Node(tok), (IF tok = "if" THEN <<>> ELSE Rests(m, n)) \o z[1])
      BY <1>2, <1>5, <2>1, PendingForesees
    <3> QED BY <1>5, <3>1
  <2>3. x[1] = Then(E(m + 1), v[1])
    <3>1. Level(m + 1).kind = "level" /\ Level(m + 1).to = m + 1
      BY WordOf, Zenon
    <3>2. x = <<Then(IF v[2] = "any" THEN E(Level(m + 1).to) ELSE R("target"), v[1]), "any">>
      BY <2>1, <3>1, ForeseesLevel, Zenon
    <3> QED BY <2>2, <3>1, <3>2
  <2> PICK out : out = nodes'
    OBVIOUS
  <2>4. /\ out \in Seq(NodeNames)
        /\ \E y \in Forecasts :
             /\ Foresees(Head1, y, z) /\ y[2] = "any"
             /\ Reaches(text, pos, nodes, y[1]) => Reaches(text, pos, out, Rests(k, n) \o z[1])
    <3>1. Left(Head1, z) = Rests(k, n) \o z[1]
      BY <1>4 DEF Left
    <3> QED BY <1>1, <2>2, <3>1, CreatedForecasts
  <2> DEFINE f == Rests(m - 1, n) \o z[1]
             g == Rests(m, n) \o z[1]
  <2>5. f \in Seq(Symbols) /\ g \in Seq(Symbols) /\ g = Then(Rest(m), f)
    <3> DEFINE j == m - 1
    <3>1. j \in 0 .. 8 /\ z[1] \in Seq(Symbols)
      BY <1>2, ForecastTypes
    <3>2. Rests(m, n) = <<Rest(m)>> \o Rests(j, n)
      BY <1>2, RestsAre
    <3> HIDE DEF j
    <3>3. Rests(j, n) \in Seq(Symbols)
      BY <1>2, <3>1, RestsAre
    <3>4. Then(Rest(m), Rests(j, n)) \o z[1] = Then(Rest(m), Rests(j, n) \o z[1])
      BY <1>7, <3>1, <3>3, ThenConcat
    <3>5. Rests(m, n) \in Seq(Symbols)
      BY <1>2, RestsAre
    <3>6. Rests(m, n) = Then(Rest(m), Rests(j, n))
      BY <3>2, Zenon DEF Then
    <3>7. Rests(m, n) \o z[1] = Then(Rest(m), Rests(j, n) \o z[1])
      BY <3>4, <3>6, Zenon
    <3>8. Rests(m, n) \o z[1] \in Seq(Symbols) /\ Rests(j, n) \o z[1] \in Seq(Symbols)
      BY <3>1, <3>3, <3>5
    <3> QED BY <3>7, <3>8, Zenon DEF j
  <2>6. ASSUME Reaches(text, pos, out, Rests(k, n) \o z[1])
        PROVE  Reaches(text, pos', nodes', x[1])
    <3>1. Reaches(text, pos, out, g)
      BY <1>2, <2>4, <2>6, Typed, ForecastTypes, Erase
    <3> HIDE DEF f, g
    <3>2. Yields(Rest(m), <<K(Tok), E(m + 1), Node(Tok), Rest(m)>>)
      BY <1>3, LevelsYield, Zenon
    <3>3. Reaches(text, pos, out, <<K(Tok), E(m + 1), Node(Tok), Rest(m)>> \o f)
      BY <2>4, <2>5, <3>1, <3>2, Typed, Zenon DEF Yields
    <3>4. <<K(Tok), E(m + 1), Node(Tok), Rest(m)>> \o f = Then(K(Tok), x[1])
      <4>1. x[1] = Then(E(m + 1), Then(Node(Tok), Then(Rest(m), f)))
        BY <2>2, <2>3, <2>5 DEF g
      <4>2. <<K(Tok), E(m + 1), Node(Tok), Rest(m)>> \o f
              = Then(K(Tok), Then(E(m + 1), Then(Node(Tok), Then(Rest(m), f))))
        <5> DEFINE a == K(Tok)  b == E(m + 1)  c == Node(Tok)  d == Rest(m)
        <5>1. a \in Symbols /\ b \in Symbols /\ c \in Symbols /\ d \in Symbols
          BY <1>7
        <5> HIDE DEF a, b, c, d
        <5>2. <<a, b, c, d>> \o f = Then(a, Then(b, Then(c, Then(d, f))))
          BY <2>5, <5>1, UnfoldFour
        <5> QED BY <5>2 DEF a, b, c, d
      <4> QED BY <4>1, <4>2
    <3>5. x[1] \in Seq(Symbols) /\ Reaches(text, pos, out, Then(K(Tok), x[1]))
      BY <3>3, <3>4, ForecastTypes
    <3>6. Reaches(text, pos', out, x[1])
      <4>1. pos' = Next1(text, pos)
        BY <1>1, Typed DEF Consume, Next1
      <4>2. Reaches(text, Next1(text, pos), out, x[1])
        BY <2>4, <3>5, Typed, DeriveToken, Zenon DEF Tok
      <4> QED BY <4>1, <4>2
    <3> QED BY <3>6
  <2> QED BY <2>4, <2>6
<1>9. KeepsOrder(u)
  <2>1. /\ Len(u) = 2 /\ u[1] = Level(m + 1) /\ u[2] = More(tok, m, n)
        /\ Level(m + 1).kind # "more"
    BY DEF Level, Entry
  <2>2. /\ tok \in Pending \ {"if"} /\ m \in 1 .. 8 /\ n = Head1.to /\ n \in 1 .. 8
        /\ Head1.kind \in {"level", "more"}
    BY <1>2, <1>5
  <2> HIDE DEF u
  <2>3. \A i \in 1 .. Len(u) - 1 : u[i].kind # "more"
    BY <2>1
  <2>4. Len(u) > 1 /\ u[Len(u)] = More(tok, m, Head1.to)
    BY <2>1, <2>2
  <2> QED BY <1>6, <2>2, <2>3, <2>4, LoopsKeepOrder
<1> HIDE DEF u
<1> QED BY <1>1, <1>2, <1>6, <1>8, <1>9, StepForecasts, Zenon

LEMMA IfOperatorForecasts ==
  ASSUME ParserInv, ForecastsHold, IfTaken, Operator, Tok = "if"
  PROVE  ForecastsHold'
<1> PICK k : k = Head1.from
  OBVIOUS
<1> DEFINE u == <<Level(2), T("else"), Level(1), More("if", 1, 1)>>
<1>1. /\ text' = text /\ recovered' = recovered /\ diagnosed' = diagnosed
      /\ Consume(1) /\ InLoops /\ Created /\ LevelOf(Tok) \in Head1.to .. k
  BY DEF Operator, Takes
<1>2. /\ Running /\ Head1.kind = "more" /\ k \in 1 .. 8 /\ k \in 0 .. 8 /\ Head1.to = 1
  <2>1. LevelOf(Tok) = 1
    BY DEF LevelOf
  <2> QED BY <1>1, <2>1, LoopIs
<1>3. Do(u)
  BY <1>2 DEF Operator
<1>4. Head1.name # "if"
  BY <1>2 DEF IfTaken
<1>5. /\ "if" \in Operators /\ "if" \in NodeNames /\ "if" \in Pending
      /\ 1 \in 1 .. 8 /\ 2 \in 1 .. 8 /\ 1 \in 0 .. 8
  BY DEF Operators, NodeNames, Pending
<1>6. u \in Seq(Entries)
  <2>1. Level(2) \in Entries /\ Level(1) \in Entries /\ T("else") \in Entries
    BY <1>5, LevelWords, TokenWords, TokensAre
  <2>2. More("if", 1, 1) \in Entries
    BY <1>5, MoreEntry DEF Quiet, Inner
  <2> QED BY <2>1, <2>2
<1>7. /\ K("else") \in Symbols /\ E(2) \in Symbols /\ E(1) \in Symbols
      /\ Node("if") \in Symbols /\ Rest(1) \in Symbols /\ K(Tok) \in Symbols
  BY <1>5, TokensAre, Typed, SymbolTypes
<1>8. ASSUME NEW x \in Forecasts, NEW z \in Forecasts, Predicts(u, x, z)
      PROVE  \E y \in Forecasts :
               /\ Foresees(Head1, y, z) /\ (y[2] = "target" => target)
               /\ Reaches(text, pos, nodes, y[1]) => Reaches(text, pos', nodes', x[1])
  <2>1. PICK a, b, v \in Forecasts :
          /\ Foresees(Level(2), x, a) /\ Foresees(T("else"), a, b)
          /\ Foresees(Level(1), b, v) /\ Foresees(More("if", 1, 1), v, z)
    <3> DEFINE p == Level(2)  q == T("else")  r == Level(1)  s == More("if", 1, 1)
    <3>1. Predicts(<<p, q, r, s>>, x, z)
      BY <1>8
    <3> HIDE DEF p, q, r, s
    <3>2. \E a, b, v \in Forecasts :
            Foresees(p, x, a) /\ Foresees(q, a, b) /\ Foresees(r, b, v) /\ Foresees(s, v, z)
      BY <3>1, PredictsFour, Zenon
    <3> QED BY <3>2 DEF p, q, r, s
  <2>a. z[1] \in Seq(Symbols)
    BY ForecastTypes
  <2>2. z[2] = "any" /\ v[2] = "any" /\ v[1] = Then(Node("if"), z[1])
    <3>1. /\ z[2] = "any" /\ v[2] = "any"
          /\ v[1] = Then(Node("if"), <<>> \o z[1])
      <4> DEFINE op == "if"  j == 1
      <4>1. op \in Operators /\ j \in 1 .. 8 /\ Foresees(More(op, j, j), v, z)
        BY <1>5, <2>1
      <4>2. op = "if"
        OBVIOUS
      <4> HIDE DEF op, j
      <4>3. /\ z[2] = "any" /\ v[2] = "any"
            /\ v[1] = Then(Node(op), (IF op = "if" THEN <<>> ELSE Rests(j, j)) \o z[1])
        BY <4>1, PendingForesees
      <4> QED BY <4>2, <4>3
    <3> QED BY <2>a, <3>1, EmptyConcat
  <2>3. b[1] = Then(E(1), v[1])
    <3>1. Level(1).kind = "level" /\ Level(1).to = 1
      BY WordOf, Zenon
    <3>2. b = <<Then(IF v[2] = "any" THEN E(Level(1).to) ELSE R("target"), v[1]), "any">>
      BY <2>1, <3>1, ForeseesLevel, Zenon
    <3> QED BY <2>2, <3>1, <3>2
  <2>4. a[1] = Then(K("else"), b[1]) /\ a[2] = "any"
    <3>1. a = <<Then(K("else"), b[1]), IF "else" = ")" THEN b[2] ELSE "any">>
      BY <2>1, ForeseesToken, Zenon
    <3> QED BY <3>1
  <2>5. x[1] = Then(E(2), a[1])
    <3>1. Level(2).kind = "level" /\ Level(2).to = 2
      BY WordOf, Zenon
    <3>2. x = <<Then(IF a[2] = "any" THEN E(Level(2).to) ELSE R("target"), a[1]), "any">>
      BY <2>1, <3>1, ForeseesLevel, Zenon
    <3> QED BY <2>4, <3>1, <3>2
  <2> PICK out : out = nodes'
    OBVIOUS
  <2>6. /\ out \in Seq(NodeNames)
        /\ \E y \in Forecasts :
             /\ Foresees(Head1, y, z) /\ y[2] = "any"
             /\ Reaches(text, pos, nodes, y[1]) => Reaches(text, pos, out, Rests(k, 1) \o z[1])
    <3>1. Left(Head1, z) = Rests(k, 1) \o z[1]
      BY <1>2, <1>4 DEF Left
    <3> QED BY <1>1, <2>2, <3>1, CreatedForecasts
  <2>7. ASSUME Reaches(text, pos, out, Rests(k, 1) \o z[1])
        PROVE  Reaches(text, pos', nodes', x[1])
    <3> DEFINE f == z[1]
    <3>1. Reaches(text, pos, out, Rests(1, 1) \o f)
      BY <1>2, <1>5, <2>6, <2>7, <2>a, Typed, Erase
    <3>2. Rests(1, 1) = <<Rest(1)>>
      <4>1. Rests(1, 1) = <<Rest(1)>> \o Rests(1 - 1, 1)
        <5> DEFINE j == 1
        <5>1. j \in 0 .. 8 /\ j \in 1 .. 8 /\ j >= j
          OBVIOUS
        <5> HIDE DEF j
        <5>2. Rests(j, j) = <<Rest(j)>> \o Rests(j - 1, j)
          BY <5>1, RestsAre
        <5> QED BY <5>2 DEF j
      <4>2. 1 - 1 = 0 /\ 0 < 1 /\ 0 \in 0 .. 8
        OBVIOUS
      <4>3. Rests(0, 1) = <<>>
        BY <1>5, <4>2, RestsAre
      <4>4. <<Rest(1)>> \in Seq(Symbols)
        BY <1>7
      <4> QED BY <4>1, <4>2, <4>3, <4>4, EmptyConcat
    <3>3. f \in Seq(Symbols) /\ x[1] = Then(E(2), Then(K("else"), Then(E(1), Then(Node("if"), f))))
      BY <2>2, <2>3, <2>4, <2>5, <2>a
    <3> HIDE DEF f
    <3>4. Reaches(text, pos, out, Then(Rest(1), f))
      BY <3>1, <3>2, Zenon DEF Then
    <3>5. Yields(Rest(1), <<K(Tok), E(2), K("else"), E(1), Node("if")>>)
      BY ExpressionsYield, Zenon
    <3>6. Reaches(text, pos, out, <<K(Tok), E(2), K("else"), E(1), Node("if")>> \o f)
      BY <2>6, <3>3, <3>4, <3>5, Typed, Zenon DEF Yields
    <3>7. <<K(Tok), E(2), K("else"), E(1), Node("if")>> \o f = Then(K(Tok), x[1])
      <4> PICK p, a1, b1, c1, d1 :
            p = K(Tok) /\ a1 = E(2) /\ b1 = K("else") /\ c1 = E(1) /\ d1 = Node("if")
        OBVIOUS
      <4>1. p \in Symbols /\ a1 \in Symbols /\ b1 \in Symbols /\ c1 \in Symbols /\ d1 \in Symbols
        BY <1>7
      <4>2. f \in Seq(Symbols)
        BY <3>3
      <4> DEFINE w == <<a1, b1, c1, d1>>  q == <<p, a1, b1, c1, d1>>
      <4>3. /\ w \in Seq(Symbols) /\ q \in Seq(Symbols) /\ Len(w) = 4 /\ Len(q) = 5
            /\ q[1] = p /\ q[2] = a1 /\ q[3] = b1 /\ q[4] = c1 /\ q[5] = d1
            /\ w[1] = a1 /\ w[2] = b1 /\ w[3] = c1 /\ w[4] = d1
        BY ONLY <4>1
      <4>4. w \o f = Then(a1, Then(b1, Then(c1, Then(d1, f))))
        <5>1. <<a1, b1, c1, d1>> \o f = Then(a1, Then(b1, Then(c1, Then(d1, f))))
          BY ONLY <4>1, <4>2, UnfoldFour
        <5> QED BY <5>1
      <4>5. w \o f = Then(E(2), Then(K("else"), Then(E(1), Then(Node("if"), f))))
        BY <4>4
      <4>6. q = <<K(Tok), E(2), K("else"), E(1), Node("if")>>
        OBVIOUS
      <4> HIDE DEF w, q
      <4>7. Len(q) = Len(w) + 1 /\ \A i \in 1 .. Len(w) : q[i + 1] = w[i]
        BY <4>3
      <4>8. q = Then(p, w)
        BY <4>1, <4>3, <4>7, ConsIs, Zenon DEF Then
      <4>9. Then(p, w) \o f = Then(p, w \o f)
        BY <4>1, <4>2, <4>3, ThenConcat, Zenon
      <4> QED BY <3>3, <4>5, <4>6, <4>8, <4>9, Zenon
    <3>8. x[1] \in Seq(Symbols) /\ Reaches(text, pos, out, Then(K(Tok), x[1]))
      BY <3>6, <3>7, ForecastTypes
    <3>9. Reaches(text, pos', out, x[1])
      <4>1. pos' = Next1(text, pos)
        BY <1>1, Typed DEF Consume, Next1
      <4>2. Reaches(text, Next1(text, pos), out, x[1])
        BY <2>6, <3>8, Typed, DeriveToken, Zenon DEF Tok
      <4> QED BY <4>1, <4>2
    <3> QED BY <3>9
  <2> QED BY <2>6, <2>7
<1>9. KeepsOrder(u)
  <2>1. /\ u # <<>> /\ Len(u) = 4 /\ u[1] = Level(2) /\ u[2] = T("else")
        /\ u[3] = Level(1) /\ u[4] = More("if", 1, 1)
    OBVIOUS
  <2>2. /\ ~OfIf(u[1]) /\ ~OfIf(u[2]) /\ ~OfIf(u[3]) /\ Lowest(u[3]) /\ Lowest(u[4])
        /\ u[4].from = 1 /\ u[4].to = 1
    BY <2>1 DEF OfIf, Lowest, Level, T, More, Entry
  <2> HIDE DEF u
  <2>3. Branches(u)
    <3> SUFFICES ASSUME NEW i \in 1 .. Len(u), OfIf(u[i])
                 PROVE  u[i].from = 1 /\ u[i].to = 1 /\ (i > 1 => Lowest(u[i - 1]))
      BY DEF Branches
    <3>1. i = 4
      BY <2>1, <2>2
    <3> QED BY <2>2, <3>1
  <2> QED BY <1>2, <1>6, <2>1, <2>2, <2>3, LevelsKeepOrder
<1> HIDE DEF u
<1> QED BY <1>1, <1>2, <1>3, <1>6, <1>8, <1>9, StepForecasts, Zenon

LEMMA OperatorForecasts ==
  ASSUME ParserInv, ForecastsHold, Operator
  PROVE  ForecastsHold'
<1>1. CASE recovered \/ diagnosed
  <2>1. recovered' \/ diagnosed'
    BY <1>1 DEF Operator
  <2> QED BY <2>1, FailureForecasts
<1>2. CASE ~recovered /\ ~diagnosed
  <2>1. IfTaken
    <3> SUFFICES ASSUME Running, OfIf(Head1)
                 PROVE  Tok # "if" /\ Head1.from = 1 /\ Head1.to = 1
      BY DEF IfTaken, OfIf
    <3>1. Orderly
      BY <1>2 DEF ForecastsHold
    <3>2. 1 \in 1 .. Len(stack) /\ stack[1] = Head1
      BY DEF Running, Head1, ParserInv, TypeOK
    <3> QED BY <3>1, <3>2 DEF Orderly, Branches
  <2> QED BY <2>1, OperandForecasts, IfOperatorForecasts
<1> QED BY <1>1, <1>2

-----------------------------------------------------------------------------
(* The theorems about what is accepted.                                    *)

LEMMA FailuresForecast ==
  ASSUME NotExpected \/ NotAMember \/ NotAType \/ NotALiteral \/ NotPrimary
  PROVE  ForecastsHold'
<1>1. recovered'
  BY DEF NotExpected, NotAMember, NotAType, NotALiteral, NotPrimary, Fail
<1> QED BY <1>1, FailureForecasts

LEMMA NextForecasts ==
  ASSUME ParserInv, ForecastsHold, [Next]_vars
  PROVE  ForecastsHold'
<1>1. CASE UNCHANGED vars
  <2>1. Orderly' <=> Orderly
    BY <1>1 DEF vars, Orderly, Running, Head1, Tok
  <2> QED BY <1>1, <2>1 DEF vars, ForecastsHold
<1>2. CASE NotExpected \/ NotAMember \/ NotAType \/ NotALiteral \/ NotPrimary
  BY <1>2, FailuresForecast
<1>3. CASE Expected \/ Succeeded \/ ParseClassDef \/ ParseClassBody
  BY <1>3, ExpectedForecasts, SucceededForecasts, ClassDefForecasts, ClassBodyForecasts
<1>4. CASE ParseTypedVar \/ ParseVarDef \/ ParseFuncDef \/ ParseFuncBody \/
           ParseGlobalDecl \/ ParseNonlocalDecl \/ ParseWhileStmt \/
           ParseForStmt \/ ParseBlock
  BY <1>4, CallsForecast
<1>5. CASE ParseIfStmt \/ ParseStmt
  BY <1>5, IfForecasts
<1>6. CASE EndProgramLoop \/ EndClassBody \/ EndDeclLoop \/ EndBlock
  BY <1>6, LoopsEnd
<1>7. CASE \/ ProgramDeclaration \/ ProgramStatement \/ ClassMember \/ GlobalAlternative
           \/ NonlocalAlternative \/ VarAlternative \/ FuncAlternative \/ BlockStatement
  BY <1>7, TriesForecast
<1>8. CASE ParseParams \/ ParseReturnType \/ ParseType \/ ParseLiteral \/ ParseElse
  BY <1>8, TakesForecast
<1>9. CASE ParseExprList \/ ParseSimpleStmt \/ ParseAssignments
  BY <1>9, ExprListForecasts, SimpleStmtForecasts, AssignmentsForecasts
<1>10. CASE PrefixNot \/ PrefixMinus \/ PrimaryToken \/ PrimaryInBrackets
  BY <1>10, LevelsForecast
<1>11. CASE ParsePostfix \/ EndPostfix \/ Operator \/ EndOperators
  BY <1>11, PostfixForecasts, EndPostfixForecasts, OperatorForecasts, EndOperatorsForecasts
<1> QED BY <1>1, <1>2, <1>3, <1>4, <1>5, <1>6, <1>7, <1>8, <1>9, <1>10, <1>11 DEF Next

LEMMA InitForecasts ==
  ASSUME Init
  PROVE  ForecastsHold
<1> DEFINE s == <<L("declarations"), L("statements")>>
<1>1. /\ stack = s /\ pos = 1 /\ nodes = <<>> /\ Len(s) = 2
      /\ s[1] = L("declarations") /\ s[2] = L("statements")
  BY DEF Init
<1> HIDE DEF s
<1>2. ~OfIf(s[1]) /\ ~OfIf(s[2])
  BY <1>1 DEF OfIf, L, Entry
<1>3. Orderly
  BY <1>1, <1>2 DEF Orderly, Branches, Running, Head1
<1>4. ASSUME NEW x \in Forecasts, Predicts(stack, x, AtTheEnd)
      PROVE  Reaches(text, pos, nodes, x[1])
  <2> DEFINE d == Many("declaration")  m == Many("stmt")
  <2>1. /\ L("declarations") \in Settled /\ Word(L("declarations")) = d
        /\ L("statements") \in Settled /\ Word(L("statements")) = m
        /\ L("declarations") \in Words
    BY LoopWords, SymOfContinued, WordTypes DEF Loops
  <2>2. Spells(s, <<d, m>>)
    <3>1. Spells(<<L("declarations"), L("statements")>>,
                 <<Word(L("declarations")), Word(L("statements"))>>)
      BY <2>1, SpellsTwo
    <3> QED BY <2>1, <3>1 DEF s
  <2>3. x[1] = <<d, m>> \o <<>>
    BY <1>1, <1>4, <2>2 DEF Spells, AtTheEnd
  <2>4. Yields(R("program"), <<d, m>>)
    <3>1. <<R("program"), <<d, m>>>> \in Rules
      BY Zenon DEF Rules, DeclarationRules
    <3>2. R("program") \in Symbols /\ d \in Symbols /\ m \in Symbols
      BY SymbolTypes DEF Nonterminals
    <3>3. <<d, m>> \in Seq(Symbols)
      BY <3>2
    <3> QED BY <3>1, <3>2, <3>3, YieldsRule
  <2>5. Reaches(text, 1, <<>>, Then(R("program"), <<>>))
    <3>1. Then(R("program"), <<>>) = <<R("program")>>
      BY SymbolTypes, ThenTuples DEF Nonterminals
    <3> QED BY <3>1, DeriveProgram
  <2>6. 1 \in 1 .. Len(text) /\ <<>> \in Seq(NodeNames) /\ <<>> \in Seq(Symbols)
    <3>1. IsText(text)
      BY TextsAssumption DEF Init
    <3> QED BY <3>1 DEF IsText
  <2>7. Reaches(text, 1, <<>>, <<d, m>> \o <<>>)
    BY <2>4, <2>5, <2>6, Zenon DEF Yields
  <2> QED BY <1>1, <2>3, <2>7
<1> QED BY <1>3, <1>4 DEF ForecastsHold

LEMMA TextStays ==
  ASSUME [Next]_vars
  PROVE  text' = text
<1>1. CASE UNCHANGED vars
  BY <1>1 DEF vars
<1>2. CASE NotExpected \/ NotAMember \/ NotAType \/ NotALiteral \/ NotPrimary
  BY <1>2 DEF NotExpected, NotAMember, NotAType, NotALiteral, NotPrimary, Fail
<1>3. CASE \/ Expected \/ Succeeded \/ ParseClassDef \/ ParseClassBody \/ ParseTypedVar
           \/ ParseVarDef \/ ParseFuncDef \/ ParseFuncBody \/ ParseGlobalDecl
           \/ ParseNonlocalDecl \/ ParseWhileStmt \/ ParseForStmt \/ ParseBlock
  BY <1>3 DEF Expected, Succeeded, ParseClassDef, ParseClassBody, ParseTypedVar, ParseVarDef,
     ParseFuncDef, ParseFuncBody, ParseGlobalDecl, ParseNonlocalDecl, ParseWhileStmt,
     ParseForStmt, ParseBlock, Call, Take
<1>4. CASE \/ ParseIfStmt \/ ParseStmt \/ EndProgramLoop \/ EndClassBody \/ EndDeclLoop
           \/ EndBlock \/ ProgramDeclaration \/ ProgramStatement \/ ClassMember
           \/ GlobalAlternative \/ NonlocalAlternative \/ VarAlternative
           \/ FuncAlternative \/ BlockStatement
  BY <1>4 DEF ParseIfStmt, ParseStmt, EndProgramLoop, EndClassBody, EndDeclLoop, EndBlock,
     ProgramDeclaration, ProgramStatement, ClassMember, GlobalAlternative,
     NonlocalAlternative, VarAlternative, FuncAlternative, BlockStatement, Call
<1>5. CASE \/ ParseParams \/ ParseReturnType \/ ParseType \/ ParseLiteral \/ ParseElse
           \/ ParseExprList \/ ParseSimpleStmt \/ ParseAssignments
  BY <1>5 DEF ParseParams, ParseReturnType, ParseType, ParseLiteral, ParseElse,
     ParseExprList, ParseSimpleStmt, ParseAssignments, Call, Take
<1>6. CASE \/ PrefixNot \/ PrefixMinus \/ PrimaryToken \/ PrimaryInBrackets
           \/ ParsePostfix \/ EndPostfix \/ Operator \/ EndOperators
  BY <1>6 DEF PrefixNot, PrefixMinus, PrimaryToken, PrimaryInBrackets, ParsePostfix,
     EndPostfix, Operator, EndOperators, Take
<1> QED BY <1>1, <1>2, <1>3, <1>4, <1>5, <1>6 DEF Next

\* At the end of the stack nothing is foreseen, and the derivation is over.
Translates == Done /\ ~recovered /\ ~diagnosed => Derives(text, nodes)

SoundInv == ParserInv /\ ForecastsHold /\ text \in Texts

LEMMA SoundTranslates == SoundInv => Translates
<1> SUFFICES ASSUME SoundInv, Done, ~recovered, ~diagnosed PROVE Derives(text, nodes)
  BY DEF Translates
<1>1. stack = <<>> /\ pos = Len(text)
  BY DEF Done, SoundInv, ForecastsHold, Orderly, Running
<1>2. AtTheEnd \in Forecasts /\ AtTheEnd[1] = <<>> /\ AtTheEnd[2] # "target"
  <2>1. <<>> \in Seq(Symbols)
    OBVIOUS
  <2> QED BY <2>1 DEF AtTheEnd, Forecasts
<1>3. Predicts(<<>>, AtTheEnd, AtTheEnd)
  <2> DEFINE a == AtTheEnd
             h == <<a>>
             n == Len(<<>>)
  <2>1. a \in Forecasts /\ n = 0
    BY <1>2
  <2> HIDE DEF a, n
  <2>2. h \in Seq(Forecasts) /\ Len(h) = n + 1 /\ h[1] = a /\ h[n + 1] = a
        /\ 1 .. n = {}
    BY <2>1
  <2> HIDE DEF h
  <2>3. \A i \in 1 .. n : Foresees(<<>>[i], h[i], h[i + 1])
    BY <2>2
  <2> QED BY <2>2, <2>3, Zenon DEF Predicts, a, n
<1>4. Reaches(text, pos, nodes, AtTheEnd[1])
  BY <1>1, <1>2, <1>3 DEF SoundInv, ForecastsHold
<1> QED BY <1>1, <1>2, <1>4 DEF Derives

LEMMA InitSound == Init => SoundInv
BY InitInv, InitForecasts DEF SoundInv, Init

LEMMA NextSound == SoundInv /\ [Next]_vars => SoundInv'
BY NextInv, NextForecasts, TextStays DEF SoundInv

\* A text that the parser comes to the end of, without a failure and without a
\* diagnostic, is one that the grammar derives, and the operands and operators
\* of its expressions have been created in the order of their syntax trees.
THEOREM AcceptedIsDerived == Spec => []Translates
<1> QED BY InitSound, NextSound, SoundTranslates, PTL DEF Spec

\* What the grammar does not derive is not accepted.
THEOREM OnlyDerivedAccepted ==
  ASSUME \A t \in Texts, out \in Seq(NodeNames) : Derives(t, out) => t \in Grammatical
  PROVE  Spec => []OnlyGrammaticalAccepted
<1>1. SoundInv => OnlyGrammaticalAccepted
  <2> SUFFICES ASSUME SoundInv, Done, ~recovered, ~diagnosed PROVE text \in Grammatical
    BY DEF OnlyGrammaticalAccepted
  <2>1. Derives(text, nodes) /\ text \in Texts /\ nodes \in Seq(NodeNames)
    BY SoundTranslates DEF Translates, SoundInv, ParserInv, TypeOK
  <2> QED BY <2>1
<1> QED BY <1>1, InitSound, NextSound, PTL DEF Spec

\* Operators bind and associate as the grammar says.
THEOREM OrderOfTheGrammar ==
  ASSUME \A t \in Expressions, out \in Seq(NodeNames) :
           Derives(t, out) => out = Postorder(t)
  PROVE  Spec => []PrecedenceRespected
<1>1. SoundInv => PrecedenceRespected
  <2> SUFFICES ASSUME SoundInv, Done, ~recovered, ~diagnosed, text \in Expressions
               PROVE  nodes = Postorder(text)
    BY DEF PrecedenceRespected
  <2>1. Derives(text, nodes) /\ nodes \in Seq(NodeNames)
    BY SoundTranslates DEF Translates, SoundInv, ParserInv, TypeOK
  <2> QED BY <2>1
<1> QED BY <1>1, InitSound, NextSound, PTL DEF Spec
=============================================================================
