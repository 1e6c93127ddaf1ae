--------------------------- MODULE ResolverProofs ---------------------------
(***************************************************************************)
(* The identifier resolver is a stack per symbol, for any declarations,    *)
(* symbols and pool size.                                                  *)
(***************************************************************************)
EXTENDS IdentifierResolver, SequenceTheorems, TLAPS

\* The IdDeclInfo that operator[] hands out is a new one.
LEMMA NewSlot ==
  ASSUME TypeOK, pools' = NextPool, curIdx' = NextIdx
  PROVE  /\ <<NextPool, NextIdx>> \notin UsedSlots
         /\ UsedSlots' = UsedSlots \cup {<<NextPool, NextIdx>>}
         /\ pools' \in Nat \ {0} /\ curIdx' \in 1 .. PoolSize
<1>1. pools \in Nat /\ curIdx \in 1 .. PoolSize /\ PoolSize \in Nat \ {0}
  BY ConstantsAssumption DEF TypeOK
<1>2. pools = 0 => curIdx = PoolSize
  BY DEF TypeOK
<1>3. CASE curIdx = PoolSize
  <2>1. NextPool = pools + 1 /\ NextIdx = 1
    BY <1>3 DEF NextPool, NextIdx
  <2>2. ASSUME NEW p \in Nat, NEW i \in Nat
        PROVE  <<p, i>> \in UsedSlots <=> p \in 1 .. pools /\ i \in 1 .. PoolSize
    BY <1>1, <1>3 DEF UsedSlots, Slots
  <2>3. ASSUME NEW p \in Nat, NEW i \in Nat
        PROVE  <<p, i>> \in UsedSlots' <=>
                 \/ p \in 1 .. pools /\ i \in 1 .. PoolSize
                 \/ p = pools + 1 /\ i = 1
    BY <1>1, <2>1 DEF UsedSlots, Slots
  <2>4. UsedSlots \subseteq Nat \X Nat /\ UsedSlots' \subseteq Nat \X Nat
    BY <1>1, <2>1 DEF UsedSlots, Slots
  <2>5. UsedSlots' = UsedSlots \cup {<<NextPool, NextIdx>>}
    <3>1. ASSUME NEW k \in Nat \X Nat
          PROVE k \in UsedSlots' <=> k \in UsedSlots \cup {<<NextPool, NextIdx>>}
      <4> PICK p \in Nat, i \in Nat : k = <<p, i>>
        BY <3>1
      <4> QED BY <2>1, <2>2, <2>3
    <3> QED BY <1>1, <2>1, <2>4, <3>1
  <2> QED BY <1>1, <2>1, <2>2, <2>5
<1>4. CASE curIdx # PoolSize
  <2>1. NextPool = pools /\ NextIdx = curIdx + 1 /\ pools # 0
    BY <1>2, <1>4 DEF NextPool, NextIdx
  <2>2. ASSUME NEW p \in Nat, NEW i \in Nat
        PROVE  <<p, i>> \in UsedSlots <=>
                 /\ p \in 1 .. pools /\ i \in 1 .. PoolSize
                 /\ p < pools \/ i <= curIdx
    BY <1>1 DEF UsedSlots, Slots
  <2>3. ASSUME NEW p \in Nat, NEW i \in Nat
        PROVE  <<p, i>> \in UsedSlots' <=>
                 /\ p \in 1 .. pools /\ i \in 1 .. PoolSize
                 /\ p < pools \/ i <= curIdx + 1
    BY <1>1, <2>1 DEF UsedSlots, Slots
  <2>4. UsedSlots \subseteq Nat \X Nat /\ UsedSlots' \subseteq Nat \X Nat
    BY <1>1, <2>1 DEF UsedSlots, Slots
  <2>5. UsedSlots' = UsedSlots \cup {<<NextPool, NextIdx>>}
    <3>1. ASSUME NEW k \in Nat \X Nat
          PROVE k \in UsedSlots' <=> k \in UsedSlots \cup {<<NextPool, NextIdx>>}
      <4> PICK p \in Nat, i \in Nat : k = <<p, i>>
        BY <3>1
      <4> QED BY <1>1, <1>4, <2>1, <2>2, <2>3
    <3> QED BY <1>1, <2>1, <2>4, <3>1
  <2> QED BY <1>1, <1>4, <2>1, <2>2, <2>5
<1> QED BY <1>3, <1>4

LEMMA AppendToOne ==
  ASSUME NEW S, NEW e \in S, NEW d \in S
  PROVE  Append(<<e>>, d) = <<e, d>>
<1>1. <<e>> \in Seq(S) /\ <<e, d>> \in Seq(S)
  OBVIOUS
<1>2. /\ Append(<<e>>, d) \in Seq(S) /\ Len(Append(<<e>>, d)) = 2
      /\ Append(<<e>>, d)[1] = e /\ Append(<<e>>, d)[2] = d
  BY <1>1
<1>3. \A i \in 1 .. 2 : Append(<<e>>, d)[i] = <<e, d>>[i]
  BY <1>2
<1> QED BY <1>1, <1>2, <1>3, SeqEqual

\* What ResolverInv says of one symbol.
LEMMA SymbolFacts ==
  ASSUME ResolverInv, NEW s \in Symbols
  PROVE  /\ \/ info[s] = Null
            \/ \E d \in Decls : info[s] = One(d)
            \/ info[s].kind = "list" /\ info[s] = Many(info[s].list)
               /\ info[s].list \in UsedSlots /\ ListOf(s) \in Seq(Decls)
               /\ ChainOf(s) = ListOf(s)
         /\ info[s] = Null => info[s].kind = "null" /\ ChainOf(s) = <<>>
         /\ \A d : info[s] = One(d) =>
              info[s].kind = "decl" /\ info[s].decl = d /\ ChainOf(s) = <<d>>
         /\ ChainOf(s) \in Seq(Decls)
<1>1. info[s] \in Infos /\ decls \in [UsedSlots -> Seq(Decls)]
  BY DEF ResolverInv, TypeOK
<1>2. CASE info[s] = Null
  BY <1>2 DEF Null, One, Many, ChainOf
<1>3. ASSUME NEW d \in Decls, info[s] = One(d)
      PROVE  /\ info[s] # Null /\ info[s].kind = "decl" /\ info[s].decl = d
             /\ ChainOf(s) = <<d>> /\ ChainOf(s) \in Seq(Decls)
  BY <1>3 DEF Null, One, Many, ChainOf
<1>4. ASSUME NEW k \in UsedSlots, info[s] = Many(k)
      PROVE  /\ info[s] # Null /\ \A d : info[s] # One(d)
             /\ info[s].kind = "list" /\ info[s].list = k
             /\ ListOf(s) \in Seq(Decls) /\ ChainOf(s) = ListOf(s)
  BY <1>1, <1>4 DEF Null, One, Many, ChainOf, ListOf
<1>5. ASSUME NEW d, info[s] = One(d)
      PROVE  info[s].kind = "decl" /\ info[s].decl = d /\ ChainOf(s) = <<d>>
  BY <1>5 DEF One, ChainOf
<1> QED BY <1>1, <1>2, <1>3, <1>4, <1>5 DEF Infos

-----------------------------------------------------------------------------
(* Every operation seen from the chains.                                   *)

AddsTo(s, q) ==
  /\ ChainOf(s)' = q
  /\ \A t \in Symbols \ {s} : ChainOf(t)' = ChainOf(t)

\* A list that is changed belongs to one symbol only.
LEMMA OtherLists ==
  ASSUME ResolverInv, NEW s \in Symbols, info[s].kind = "list", info' = info,
         NEW q \in Seq(Decls), decls' = [decls EXCEPT ![info[s].list] = q]
  PROVE  /\ AddsTo(s, q)
         /\ decls' \in [UsedSlots -> Seq(Decls)]
<1>1. info[s] = Many(info[s].list) /\ info[s].list \in UsedSlots
  BY SymbolFacts DEF Null, One
<1>2. decls \in [UsedSlots -> Seq(Decls)]
  BY DEF ResolverInv, TypeOK
<1>3. ChainOf(s)' = q
  BY <1>1, <1>2 DEF ChainOf, ListOf
<1>4. ASSUME NEW t \in Symbols \ {s}
      PROVE  ChainOf(t)' = ChainOf(t)
  <2>1. CASE info[t].kind = "list"
    <3>1. info[t].list # info[s].list
      BY <1>4, <2>1 DEF ResolverInv, ListsUnshared
    <3>2. info[t].list \in UsedSlots
      BY <2>1, SymbolFacts DEF Null, One
    <3> QED BY <1>2, <2>1, <3>1, <3>2 DEF ChainOf, ListOf
  <2>2. CASE info[t].kind # "list"
    BY <2>2, SymbolFacts DEF ChainOf, Null, One
  <2> QED BY <2>1, <2>2
<1> QED BY <1>1, <1>2, <1>3, <1>4 DEF AddsTo

\* addDecl pushes the declaration, whatever form the symbol's word has.
LEMMA AddEffect ==
  ASSUME ResolverInv, NEW d \in Decls, AddFirst(d) \/ AddSecond(d) \/ AddMore(d)
  PROVE  /\ AddsTo(SymbolOf[d], Append(ChainOf(SymbolOf[d]), d))
         /\ TypeOK' /\ ListsUnshared' /\ it' = Null
<1> DEFINE s == SymbolOf[d]
<1>0. s \in Symbols
  BY ConstantsAssumption
<1>1. CASE AddFirst(d)
  <2>1. info[s] = Null /\ ChainOf(s) = <<>>
    BY <1>0, <1>1, SymbolFacts DEF AddFirst, One, Many
  <2>2. info \in [Symbols -> Infos] /\ info' = [info EXCEPT ![s] = One(d)]
    BY <1>1 DEF AddFirst, ResolverInv, TypeOK
  <2>3. UsedSlots' = UsedSlots /\ decls' = decls
    BY <1>1 DEF AddFirst, UsedSlots, Slots
  <2>4. info' \in [Symbols -> Infos]
    BY <1>0, <2>2 DEF Infos
  <2>5. ChainOf(s)' = <<d>>
    BY <1>0, <2>2 DEF ChainOf, One
  <2>6. ASSUME NEW t \in Symbols \ {s}
        PROVE  info'[t] = info[t] /\ ChainOf(t)' = ChainOf(t)
    BY <2>2, <2>3 DEF ChainOf, ListOf
  <2>7. TypeOK'
    BY <1>1, <2>3, <2>4 DEF AddFirst, ResolverInv, TypeOK, Infos
  <2>8. ListsUnshared'
    <3>1. info'[s].kind # "list"
      BY <1>0, <2>2 DEF One
    <3> QED BY <2>6, <3>1 DEF ResolverInv, ListsUnshared
  <2>9. Append(ChainOf(s), d) = <<d>>
    BY <2>1
  <2> QED BY <1>1, <2>5, <2>6, <2>7, <2>8, <2>9 DEF AddFirst, AddsTo
<1>2. CASE AddSecond(d)
  <2> DEFINE k == <<NextPool, NextIdx>>
             e == info[s].decl
  <2>1. e \in Decls /\ ChainOf(s) = <<e>>
    BY <1>0, <1>2, SymbolFacts DEF AddSecond, One, Null
  <2>2. /\ k \notin UsedSlots /\ UsedSlots' = UsedSlots \cup {k}
        /\ pools' \in Nat \ {0} /\ curIdx' \in 1 .. PoolSize
    BY <1>2, NewSlot DEF AddSecond, ResolverInv
  <2>3. /\ info' = [info EXCEPT ![s] = Many(k)] /\ it' = Null
        /\ decls' = [j \in DOMAIN decls \cup {k} |->
                       IF j = k THEN <<e, d>> ELSE decls[j]]
    BY <1>2 DEF AddSecond
  <2>4. info \in [Symbols -> Infos] /\ decls \in [UsedSlots -> Seq(Decls)]
    BY DEF ResolverInv, TypeOK
  <2> HIDE DEF k, e
  <2>5. <<e, d>> \in Seq(Decls)
    BY <2>1
  <2>6. /\ decls' \in [UsedSlots' -> Seq(Decls)] /\ decls'[k] = <<e, d>>
        /\ \A j \in UsedSlots : decls'[j] = decls[j]
    BY <2>2, <2>3, <2>4, <2>5
  <2>7. info' \in [Symbols -> Infos'] /\ info'[s] = Many(k)
    BY <1>0, <2>2, <2>3, <2>4 DEF Infos
  <2>8. ChainOf(s)' = <<e, d>>
    BY <2>6, <2>7 DEF ChainOf, ListOf, Many
  <2>9. ASSUME NEW t \in Symbols \ {s}
        PROVE  /\ info'[t] = info[t] /\ ChainOf(t)' = ChainOf(t)
               /\ info[t].kind = "list" => info[t].list \in UsedSlots
    <3>1. info'[t] = info[t]
      BY <2>3, <2>4
    <3>2. CASE info[t].kind = "list"
      <4>1. info[t].list \in UsedSlots
        BY <3>2, SymbolFacts DEF Null, One
      <4> QED BY <2>6, <3>1, <3>2, <4>1 DEF ChainOf, ListOf
    <3>3. CASE info[t].kind # "list"
      BY <3>1, <3>3, SymbolFacts DEF ChainOf, Null, One
    <3> QED BY <3>1, <3>2, <3>3
  <2>10. TypeOK'
    BY <2>2, <2>3, <2>6, <2>7 DEF TypeOK
  <2>11. ListsUnshared'
    <3>1. info'[s].list = k
      BY <2>7 DEF Many
    <3> QED BY <2>2, <2>9, <3>1 DEF ResolverInv, ListsUnshared
  <2>12. Append(ChainOf(s), d) = <<e, d>>
    <3>1. Append(<<e>>, d) = <<e, d>>
      BY <2>1, AppendToOne
    <3> QED BY <2>1, <3>1, Zenon
  <2> QED BY <2>3, <2>8, <2>9, <2>10, <2>11, <2>12 DEF AddsTo
<1>3. CASE AddMore(d)
  <2>1. info[s].kind = "list" /\ ChainOf(s) = ListOf(s) /\ ListOf(s) \in Seq(Decls)
    BY <1>0, <1>3, SymbolFacts DEF AddMore, One, Null
  <2>2. Append(ListOf(s), d) \in Seq(Decls)
    BY <2>1
  <2>3. decls' = [decls EXCEPT ![info[s].list] = Append(ListOf(s), d)]
    BY <1>3 DEF AddMore, ListOf
  <2>4. AddsTo(s, Append(ListOf(s), d)) /\ decls' \in [UsedSlots -> Seq(Decls)]
    BY <1>0, <1>3, <2>1, <2>2, <2>3, OtherLists DEF AddMore
  <2>5. UNCHANGED <<info, UsedSlots, pools, curIdx>>
    BY <1>3 DEF AddMore, UsedSlots, Slots
  <2>6. TypeOK' /\ ListsUnshared'
    BY <1>3, <2>4, <2>5 DEF AddMore, ResolverInv, TypeOK, Infos, ListsUnshared
  <2> QED BY <1>3, <2>1, <2>4, <2>6 DEF AddMore
<1> QED BY <1>1, <1>2, <1>3

\* removeDecl takes out the topmost entry, whatever form the word has.
LEMMA RemoveEffect ==
  ASSUME ResolverInv, NEW d \in Decls, RemoveOnly(d) \/ RemoveFromList(d)
  PROVE  /\ \E i \in 1 .. Len(ChainOf(SymbolOf[d])) :
              /\ Found(ChainOf(SymbolOf[d]), d, i)
              /\ AddsTo(SymbolOf[d], Erased(ChainOf(SymbolOf[d]), i))
         /\ TypeOK' /\ ListsUnshared' /\ it' = Null
<1> DEFINE s == SymbolOf[d]
<1>0. s \in Symbols
  BY ConstantsAssumption
<1>1. CASE RemoveOnly(d)
  <2>1. PICK e \in Decls : info[s] = One(e) /\ ChainOf(s) = <<e>>
    BY <1>0, <1>1, SymbolFacts DEF RemoveOnly, Null
  <2>2. e = d
    BY <1>1, <2>1 DEF RemoveOnly, Registered
  <2>3. Found(ChainOf(s), d, 1) /\ 1 \in 1 .. Len(ChainOf(s))
    BY <2>1, <2>2 DEF Found
  <2>4. Erased(ChainOf(s), 1) = <<>>
    BY <2>1 DEF Erased
  <2>5. /\ info' = [info EXCEPT ![s] = Null] /\ info \in [Symbols -> Infos]
        /\ decls' = decls /\ UsedSlots' = UsedSlots
    BY <1>1 DEF RemoveOnly, ResolverInv, TypeOK, UsedSlots, Slots
  <2>6. ChainOf(s)' = <<>>
    BY <1>0, <2>5 DEF ChainOf, Null
  <2>7. ASSUME NEW t \in Symbols \ {s}
        PROVE  info'[t] = info[t] /\ ChainOf(t)' = ChainOf(t)
    BY <2>5 DEF ChainOf, ListOf
  <2>8. info' \in [Symbols -> Infos]
    BY <2>5 DEF Infos
  <2>9. TypeOK'
    BY <1>1, <2>5, <2>8 DEF RemoveOnly, ResolverInv, TypeOK, Infos
  <2>10. ListsUnshared'
    <3>1. info'[s].kind # "list"
      BY <1>0, <2>5 DEF Null
    <3> QED BY <2>7, <3>1 DEF ResolverInv, ListsUnshared
  <2> QED BY <1>1, <2>3, <2>4, <2>6, <2>7, <2>9, <2>10 DEF RemoveOnly, AddsTo
<1>2. CASE RemoveFromList(d)
  <2>1. info[s].kind = "list" /\ ChainOf(s) = ListOf(s) /\ ListOf(s) \in Seq(Decls)
    BY <1>0, <1>2, SymbolFacts DEF RemoveFromList, One, Null
  <2>2. PICK i \in 1 .. Len(ListOf(s)) :
          /\ Found(ListOf(s), d, i)
          /\ decls' = [decls EXCEPT ![info[s].list] = Erased(ListOf(s), i)]
    BY <1>2 DEF RemoveFromList, ListOf
  <2>3. Erased(ListOf(s), i) \in Seq(Decls)
    BY <2>1 DEF Erased
  <2>4. AddsTo(s, Erased(ListOf(s), i)) /\ decls' \in [UsedSlots -> Seq(Decls)]
    BY <1>0, <1>2, <2>1, <2>2, <2>3, OtherLists DEF RemoveFromList
  <2>5. UNCHANGED <<info, UsedSlots, pools, curIdx>>
    BY <1>2 DEF RemoveFromList, UsedSlots, Slots
  <2>6. TypeOK' /\ ListsUnshared'
    BY <1>2, <2>4, <2>5
       DEF RemoveFromList, ResolverInv, TypeOK, Infos, ListsUnshared
  <2> QED BY <1>2, <2>1, <2>2, <2>4, <2>6 DEF RemoveFromList
<1> QED BY <1>1, <1>2

-----------------------------------------------------------------------------
(* The invariant.                                                          *)

\* After addDecl and removeDecl every list holds declarations of its symbol.
LEMMA SymbolsStep ==
  ASSUME ResolverInv, NEW d \in Decls, NEW q \in Seq(Decls),
         AddsTo(SymbolOf[d], q),
         \A i \in 1 .. Len(q) : SymbolOf[q[i]] = SymbolOf[d]
  PROVE  ListsHoldTheirSymbol'
<1> SUFFICES ASSUME NEW s \in Symbols, NEW i \in 1 .. Len(ChainOf(s)')
             PROVE  SymbolOf[ChainOf(s)'[i]] = s
  BY DEF ListsHoldTheirSymbol
<1>1. CASE s = SymbolOf[d]
  BY <1>1 DEF AddsTo
<1>2. CASE s # SymbolOf[d]
  BY <1>2 DEF AddsTo, ResolverInv, ListsHoldTheirSymbol
<1> QED BY <1>1, <1>2

\* Only declarations of a symbol are added to it or left in it.
LEMMA ChainsKeepSymbol ==
  ASSUME ResolverInv, NEW d \in Decls,
         \/ AddFirst(d) \/ AddSecond(d) \/ AddMore(d)
         \/ RemoveOnly(d) \/ RemoveFromList(d)
  PROVE  ResolverInv'
<1> DEFINE s == SymbolOf[d]
           c == ChainOf(s)
<1>0. s \in Symbols /\ c \in Seq(Decls)
  BY ConstantsAssumption, SymbolFacts
<1>1. \A i \in 1 .. Len(c) : SymbolOf[c[i]] = s
  BY <1>0 DEF ResolverInv, ListsHoldTheirSymbol
<1>2. CASE AddFirst(d) \/ AddSecond(d) \/ AddMore(d)
  <2>1. /\ AddsTo(s, Append(c, d)) /\ TypeOK' /\ ListsUnshared' /\ it' = Null
    BY <1>2, AddEffect
  <2> HIDE DEF c, s
  <2>2. /\ Append(c, d) \in Seq(Decls)
        /\ \A i \in 1 .. Len(Append(c, d)) : SymbolOf[Append(c, d)[i]] = s
    BY <1>0, <1>1 DEF s
  <2>3. ListsHoldTheirSymbol'
    BY <2>1, <2>2, SymbolsStep DEF s
  <2> QED BY <2>1, <2>3 DEF ResolverInv, IteratorInItsList, Null
<1>3. CASE RemoveOnly(d) \/ RemoveFromList(d)
  <2>1. PICK i \in 1 .. Len(c) : AddsTo(s, Erased(c, i))
    BY <1>3, RemoveEffect
  <2>2. TypeOK' /\ ListsUnshared' /\ it' = Null
    BY <1>3, RemoveEffect
  <2> HIDE DEF c, s
  <2>3. /\ Erased(c, i) \in Seq(Decls)
        /\ \A j \in 1 .. Len(Erased(c, i)) : SymbolOf[Erased(c, i)[j]] = s
    BY <1>0, <1>1 DEF Erased
  <2>4. ListsHoldTheirSymbol'
    BY <2>1, <2>3, SymbolsStep DEF s
  <2> QED BY <2>2, <2>4 DEF ResolverInv, IteratorInItsList, Null
<1> QED BY <1>2, <1>3

\* The iterator stays in the list it started in.
LEMMA IteratorStep ==
  ASSUME ResolverInv, (\E s \in Symbols : Begin(s)) \/ AdvanceOne \/ AdvanceInList
  PROVE  ResolverInv'
<1>1. UNCHANGED <<info, decls, pools, curIdx>>
  BY DEF Begin, AdvanceOne, AdvanceInList
<1>2. /\ UNCHANGED <<Infos, UsedSlots>> /\ ListsUnshared'
      /\ \A s \in Symbols : ChainOf(s)' = ChainOf(s)
  BY <1>1 DEF Infos, UsedSlots, Slots, ChainOf, ListOf, ResolverInv, ListsUnshared
<1>3. ListsHoldTheirSymbol'
  BY <1>2 DEF ResolverInv, ListsHoldTheirSymbol
<1> DEFINE Its == {Null} \cup {One(d) : d \in Decls}
                  \cup [kind : {"elem"}, list : UsedSlots, pos : Nat \ {0}]
           Fits(k, i) == /\ i <= Len(decls[k])
                         /\ info[SymbolOf[decls[k][i]]] = Many(k)
<1>4. it \in Its /\ (it.kind = "elem" => Fits(it.list, it.pos))
  BY DEF ResolverInv, TypeOK, IteratorInItsList, Deref
<1>5. it' \in Its /\ (it'.kind = "elem" => Fits(it'.list, it'.pos))
  <2>1. ASSUME NEW s \in Symbols, Begin(s)
        PROVE  it' \in Its /\ (it'.kind = "elem" => Fits(it'.list, it'.pos))
    <3>0. it' = First(s)
      BY <2>1 DEF Begin
    <3>1. CASE info[s] = Null
      BY <3>0, <3>1 DEF First, Null
    <3>2. ASSUME NEW d \in Decls, info[s] = One(d)
          PROVE  it' \in Its /\ it'.kind # "elem"
      <4>1. First(s) = One(d)
        BY <3>2 DEF First, One
      <4> QED BY <3>0, <4>1 DEF One
    <3>3. CASE info[s].kind = "list"
      <4>1. /\ info[s] = Many(info[s].list) /\ info[s].list \in UsedSlots
            /\ ListOf(s) \in Seq(Decls) /\ ChainOf(s) = ListOf(s)
        BY <3>3, SymbolFacts DEF Null, One
      <4>2. CASE ListOf(s) = <<>>
        BY <3>0, <3>3, <4>2 DEF First, Null
      <4>3. CASE ListOf(s) # <<>>
        <5>1. it' = Elem(info[s].list, Len(ListOf(s)))
          BY <3>0, <3>3, <4>3 DEF First
        <5>2. Len(ListOf(s)) \in Nat \ {0}
          BY <4>1, <4>3
        <5>3. SymbolOf[ListOf(s)[Len(ListOf(s))]] = s
          BY <4>1, <5>2 DEF ResolverInv, ListsHoldTheirSymbol
        <5> QED BY <4>1, <5>1, <5>2, <5>3 DEF Elem, ListOf
      <4> QED BY <4>2, <4>3
    <3> QED BY <3>1, <3>2, <3>3, SymbolFacts
  <2>2. CASE AdvanceOne
    BY <2>2 DEF AdvanceOne, Null
  <2>3. CASE AdvanceInList
    <3>1. it \in [kind : {"elem"}, list : UsedSlots, pos : Nat \ {0}]
      BY <1>4, <2>3 DEF AdvanceInList, Null, One
    <3>2. CASE it.pos = 1
      BY <2>3, <3>2 DEF AdvanceInList, Null
    <3>3. CASE it.pos # 1
      <4>1. it' = Elem(it.list, it.pos - 1) /\ it.pos - 1 \in Nat \ {0}
        BY <2>3, <3>1, <3>3 DEF AdvanceInList
      <4>2. decls[it.list] \in Seq(Decls)
        BY <3>1 DEF ResolverInv, TypeOK
      <4>3. Fits(it.list, it.pos)
        BY <1>4, <3>1
      <4>4. PICK t \in Symbols : info[t] = Many(it.list)
        <5>1. decls[it.list][it.pos] \in Decls
          BY <3>1, <4>2, <4>3
        <5> QED BY <4>3, <5>1, ConstantsAssumption
      <4>5. ChainOf(t) = decls[it.list]
        BY <4>4 DEF ChainOf, ListOf, Many
      <4>6. SymbolOf[decls[it.list][it.pos - 1]] = t
        <5>1. it.pos - 1 \in 1 .. Len(ChainOf(t))
          BY <3>1, <4>1, <4>2, <4>3, <4>5
        <5>2. SymbolOf[ChainOf(t)[it.pos - 1]] = t
          BY <5>1 DEF ResolverInv, ListsHoldTheirSymbol
        <5> QED BY <4>5, <5>2
      <4>7. Fits(it.list, it.pos - 1)
        BY <3>1, <4>1, <4>2, <4>3, <4>4, <4>6
      <4> HIDE DEF Fits
      <4> QED BY <3>1, <4>1, <4>7 DEF Elem
    <3> QED BY <3>2, <3>3
  <2> QED BY <2>1, <2>2, <2>3
<1>6. TypeOK'
  BY <1>1, <1>2, <1>5 DEF ResolverInv, TypeOK
<1>7. IteratorInItsList'
  BY <1>1, <1>5 DEF IteratorInItsList, Deref
<1> QED BY <1>2, <1>3, <1>6, <1>7 DEF ResolverInv

\* The forms of the tagged words, the lists and the iterator fit together in
\* every reachable state.
THEOREM ResolverInvariant == Spec => []ResolverInv
<1>1. Init => ResolverInv
  <2> SUFFICES ASSUME Init PROVE ResolverInv
    OBVIOUS
  <2>1. UsedSlots = {}
    BY DEF Init, UsedSlots, Slots
  <2>2. TypeOK
    BY <2>1, ConstantsAssumption DEF Init, TypeOK, Infos
  <2>3. ListsUnshared /\ ListsHoldTheirSymbol /\ IteratorInItsList
    BY DEF Init, ListsUnshared, ListsHoldTheirSymbol, IteratorInItsList,
           ChainOf, Null
  <2> QED BY <2>2, <2>3 DEF ResolverInv
<1>2. ResolverInv /\ [Next]_vars => ResolverInv'
  <2> SUFFICES ASSUME ResolverInv, [Next]_vars PROVE ResolverInv'
    OBVIOUS
  <2>1. CASE UNCHANGED vars
    BY <2>1 DEF vars, ResolverInv, TypeOK, Infos, UsedSlots, Slots,
         ListsUnshared, ListsHoldTheirSymbol, ChainOf, ListOf,
         IteratorInItsList, Deref
  <2> QED BY <2>1, ChainsKeepSymbol, IteratorStep DEF Next
<1> QED BY <1>1, <1>2, PTL DEF Spec

\* Two symbols never come to share a list of declarations, and the assertion
\* of incrementSlowCase holds.
THEOREM ResolverSafety ==
  Spec => [](ListsUnshared /\ ListsHoldTheirSymbol /\ IteratorInItsList)
<1>1. ResolverInv => ListsUnshared /\ ListsHoldTheirSymbol /\ IteratorInItsList
  BY DEF ResolverInv
<1> QED BY <1>1, ResolverInvariant, PTL

-----------------------------------------------------------------------------
(* Refinement.                                                             *)

\* Every step is a step of the stack or leaves it alone.
LEMMA StackStep ==
  ASSUME ResolverInv, ResolverInv', [Next]_vars
  PROVE  [Stack!Next]_(Stack!vars)
<1> DEFINE C == [s \in Symbols |-> ChainOf(s)]
<1>1. ASSUME NEW d \in Decls, NEW q, AddsTo(SymbolOf[d], q)
      PROVE  C' = [C EXCEPT ![SymbolOf[d]] = q]
  BY <1>1, ConstantsAssumption DEF AddsTo
<1>2. it' = Null => Left' = <<>>
  BY DEF Left, Null
<1>3. ASSUME NEW d \in Decls, AddFirst(d) \/ AddSecond(d) \/ AddMore(d)
      PROVE  Stack!Add(d)
  <2>1. C' = [C EXCEPT ![SymbolOf[d]] = Append(ChainOf(SymbolOf[d]), d)]
    BY <1>1, <1>3, AddEffect
  <2>2. C[SymbolOf[d]] = ChainOf(SymbolOf[d])
    BY ConstantsAssumption
  <2> QED BY <1>2, <1>3, <2>1, <2>2, AddEffect DEF Stack!Add
<1>4. ASSUME NEW d \in Decls, RemoveOnly(d) \/ RemoveFromList(d)
      PROVE  Stack!Remove(d)
  <2>1. PICK i \in 1 .. Len(ChainOf(SymbolOf[d])) :
          /\ Found(ChainOf(SymbolOf[d]), d, i)
          /\ AddsTo(SymbolOf[d], Erased(ChainOf(SymbolOf[d]), i))
    BY <1>4, RemoveEffect
  <2>2. C' = [C EXCEPT ![SymbolOf[d]] = Erased(ChainOf(SymbolOf[d]), i)]
    BY <1>1, <2>1
  <2>3. C[SymbolOf[d]] = ChainOf(SymbolOf[d])
    BY ConstantsAssumption
  <2>4. Stack!Topmost(C[SymbolOf[d]], d, i)
    BY <2>1, <2>3 DEF Found, Stack!Topmost
  <2>5. C' = [C EXCEPT ![SymbolOf[d]] = Stack!Without(C[SymbolOf[d]], i)]
    BY <2>2, <2>3 DEF Erased, Stack!Without
  <2> QED BY <1>2, <1>4, <2>1, <2>3, <2>4, <2>5, RemoveEffect DEF Stack!Remove
<1>5. ASSUME UNCHANGED <<info, decls, pools, curIdx>>
      PROVE  C' = C
  BY <1>5 DEF ChainOf, ListOf
<1>6. ASSUME NEW s \in Symbols, Begin(s)
      PROVE  Stack!Begin(s)
  <2>1. UNCHANGED <<info, decls, pools, curIdx>> /\ it' = First(s)
    BY <1>6 DEF Begin
  <2>2. Left' = ChainOf(s)
    <3>1. CASE info[s] = Null
      BY <2>1, <3>1 DEF First, Left, Null, ChainOf
    <3>2. ASSUME NEW d \in Decls, info[s] = One(d)
          PROVE  Left' = ChainOf(s)
      BY <2>1, <3>2 DEF First, Left, One, ChainOf
    <3>3. CASE info[s].kind = "list"
      <4>1. ChainOf(s) = ListOf(s) /\ ListOf(s) \in Seq(Decls)
        BY <3>3, SymbolFacts DEF Null, One
      <4>2. CASE ListOf(s) = <<>>
        BY <2>1, <3>3, <4>1, <4>2 DEF First, Left, Null
      <4>3. CASE ListOf(s) # <<>>
        <5>1. Left' = SubSeq(ListOf(s), 1, Len(ListOf(s)))
          BY <2>1, <3>3, <4>3 DEF First, Left, Elem, ListOf
        <5>2. SubSeq(ListOf(s), 1, Len(ListOf(s))) = ListOf(s)
          BY <4>1
        <5> QED BY <4>1, <5>1, <5>2
      <4> QED BY <4>2, <4>3
    <3> QED BY <3>1, <3>2, <3>3, SymbolFacts
  <2> QED BY <1>5, <2>1, <2>2 DEF Stack!Begin
<1>7. CASE AdvanceOne
  <2>1. /\ UNCHANGED <<info, decls, pools, curIdx>>
        /\ Left = <<it.decl>> /\ Left' = <<>>
    BY <1>2, <1>7 DEF AdvanceOne, Left
  <2>2. SubSeq(<<it.decl>>, 1, 0) = <<>> /\ <<it.decl>> # <<>>
        /\ Len(<<it.decl>>) - 1 = 0
    OBVIOUS
  <2>3. Stack!Advance
    BY <1>5, <2>1, <2>2 DEF Stack!Advance
  <2> QED BY <2>3 DEF Stack!Next
<1>8. CASE AdvanceInList
  <2>1. UNCHANGED <<info, decls, pools, curIdx>> /\ it.kind = "elem"
    BY <1>8 DEF AdvanceInList
  <2>2. it \in [kind : {"elem"}, list : UsedSlots, pos : Nat \ {0}]
    BY <2>1 DEF ResolverInv, TypeOK, Null, One
  <2> DEFINE q == decls[it.list]
             p == it.pos
  <2>3. /\ q \in Seq(Decls) /\ p \in 1 .. Len(q)
        /\ Left = SubSeq(q, 1, p)
    BY <2>1, <2>2 DEF ResolverInv, TypeOK, IteratorInItsList, Left
  <2>4. Left' = SubSeq(q, 1, p - 1)
    <3>1. CASE p = 1
      <4>1. Left' = <<>>
        BY <1>2, <1>8, <3>1 DEF AdvanceInList
      <4> QED BY <2>3, <3>1, <4>1
    <3>2. CASE p # 1
      <4>1. it' = Elem(it.list, p - 1)
        BY <1>8, <3>2 DEF AdvanceInList
      <4> QED BY <2>1, <4>1 DEF Left, Elem
    <3> QED BY <3>1, <3>2
  <2> HIDE DEF q, p
  <2>5. /\ SubSeq(q, 1, p) # <<>> /\ Len(SubSeq(q, 1, p)) = p
        /\ SubSeq(SubSeq(q, 1, p), 1, p - 1) = SubSeq(q, 1, p - 1)
    BY <2>3
  <2>6. Stack!Advance
    BY <1>5, <2>1, <2>3, <2>4, <2>5 DEF Stack!Advance
  <2> QED BY <2>6 DEF Stack!Next
<1>9. CASE UNCHANGED vars
  <2>1. C' = C /\ Left' = Left
    BY <1>5, <1>9 DEF vars, Left
  <2> QED BY <2>1 DEF Stack!vars
<1> QED BY <1>3, <1>4, <1>6, <1>7, <1>8, <1>9 DEF Next, Stack!Next

\* The tagged words, lists and pools are a stack of declarations per symbol.
THEOREM ResolverImplementsStack == Spec => ImplementsStack
<1>1. Init => Stack!Init
  BY DEF Init, Stack!Init, ChainOf, Left, Null
<1>2. ResolverInv /\ ResolverInv' /\ [Next]_vars => [Stack!Next]_(Stack!vars)
  BY StackStep
<1> QED BY <1>1, <1>2, ResolverInvariant, PTL
        DEF Spec, Stack!Spec, ImplementsStack
=============================================================================
