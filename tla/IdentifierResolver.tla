------------------------- MODULE IdentifierResolver -------------------------
(***************************************************************************)
(* The identifier resolver (IdentifierResolver.cpp).  The word FETokenInfo *)
(* of a symbol is null, a declaration, or a tagged pointer to a list of    *)
(* declarations; a list is taken from a pool when a second declaration is  *)
(* added and is kept when it becomes empty.  An iterator is null, a        *)
(* declaration, or a tagged pointer to an element of a list.               *)
(*                                                                         *)
(* As Sema does, the caller never moves an iterator it obtained before an  *)
(* addDecl or a removeDecl, and removes only what it added (this is proved *)
(* of its scopes elsewhere, not checked by removeDecl).                    *)
(***************************************************************************)
EXTENDS Naturals, Sequences

CONSTANTS
  Decls, Symbols,
  SymbolOf,      \* D->getSymbolInfo()
  PoolSize,      \* POOL_SIZE
  MaxEntries     \* bounds the declarations of one symbol, for TLC

ASSUME ConstantsAssumption ==
  /\ SymbolOf \in [Decls -> Symbols]
  /\ PoolSize \in Nat \ {0}
  /\ MaxEntries \in Nat

VARIABLES
  info,      \* FETokenInfo of every symbol
  decls,     \* the list Decls of every IdDeclInfo handed out
  pools,     \* the number of pools, CurPool is the last one
  curIdx,    \* CurIdx
  it         \* the iterator in use

vars == <<info, decls, pools, curIdx, it>>

Null    == [kind |-> "null"]
One(d)  == [kind |-> "decl", decl |-> d]
Many(k) == [kind |-> "list", list |-> k]
Elem(k, i) == [kind |-> "elem", list |-> k, pos |-> i]

\* The IdDeclInfo objects of all pools, handed out or not.
Slots == (1 .. pools) \X (1 .. PoolSize)
UsedSlots == {k \in Slots : k[1] < pools \/ k[2] <= curIdx}

Init ==
  /\ info = [s \in Symbols |-> Null]
  /\ decls = [k \in {} |-> <<>>]
  /\ pools = 0 /\ curIdx = PoolSize
  /\ it = Null

-----------------------------------------------------------------------------
\* What the code's two pointer forms stand for.
ListOf(s) == decls[info[s].list]
ChainOf(s) ==
  CASE info[s].kind = "null" -> <<>>
    [] info[s].kind = "decl" -> <<info[s].decl>>
    [] info[s].kind = "list" -> ListOf(s)

Room(d) == Len(ChainOf(SymbolOf[d])) < MaxEntries

\* addDecl to a symbol that has no declaration.
AddFirst(d) ==
  /\ info[SymbolOf[d]].kind = "null" /\ Room(d)
  /\ info' = [info EXCEPT ![SymbolOf[d]] = One(d)]
  /\ it' = Null
  /\ UNCHANGED <<decls, pools, curIdx>>

\* Mutant: the index is not counted on.
NextIdxSame == IF curIdx = PoolSize THEN 1 ELSE curIdx

\* The pool and index of the IdDeclInfo operator[] hands out next.
NextPool == IF curIdx = PoolSize THEN pools + 1 ELSE pools
NextIdx  == IF curIdx = PoolSize THEN 1 ELSE curIdx + 1

\* addDecl to a symbol with one declaration: both move to a list.
AddSecond(d) ==
  LET s == SymbolOf[d]
      k == <<NextPool, NextIdx>> IN
  /\ info[s].kind = "decl" /\ Room(d)
  /\ pools' = NextPool /\ curIdx' = NextIdx
  /\ info' = [info EXCEPT ![s] = Many(k)]
  /\ decls' = [j \in DOMAIN decls \cup {k} |->
                 IF j = k THEN <<info[s].decl, d>> ELSE decls[j]]
  /\ it' = Null

AddMore(d) ==
  LET s == SymbolOf[d] IN
  /\ info[s].kind = "list" /\ Room(d)
  /\ decls' = [decls EXCEPT ![info[s].list] = Append(@, d)]
  /\ it' = Null
  /\ UNCHANGED <<info, pools, curIdx>>

\* The caller's side of removeDecl.
Registered(d) ==
  \E i \in 1 .. Len(ChainOf(SymbolOf[d])) : ChainOf(SymbolOf[d])[i] = d

\* removeDecl of a symbol's only declaration, without a look at it.
RemoveOnly(d) ==
  /\ Registered(d) /\ info[SymbolOf[d]].kind = "decl"
  /\ info' = [info EXCEPT ![SymbolOf[d]] = Null]
  /\ it' = Null
  /\ UNCHANGED <<decls, pools, curIdx>>

Erased(q, i) == [j \in 1 .. Len(q) - 1 |-> IF j < i THEN q[j] ELSE q[j + 1]]

\* Mutant: the search is from the start.
FoundFirst(q, d, i) ==
  /\ i \in 1 .. Len(q) /\ q[i] = d
  /\ \A j \in 1 .. i - 1 : q[j] # d

\* IdDeclInfo::removeDecl searches from the end.
Found(q, d, i) ==
  /\ i \in 1 .. Len(q) /\ q[i] = d
  /\ \A j \in i + 1 .. Len(q) : q[j] # d

RemoveFromList(d) ==
  LET s == SymbolOf[d] IN
  /\ Registered(d) /\ info[s].kind = "list"
  /\ \E i \in 1 .. Len(ListOf(s)) :
       /\ Found(ListOf(s), d, i)
       /\ decls' = [decls EXCEPT ![info[s].list] = Erased(@, i)]
  /\ it' = Null
  /\ UNCHANGED <<info, pools, curIdx>>

-----------------------------------------------------------------------------
\* Mutant: starts past the last element.
FirstPastEnd(s) ==
  CASE info[s].kind = "null" -> Null
    [] info[s].kind = "decl" -> One(info[s].decl)
    [] info[s].kind = "list" -> Elem(info[s].list, Len(ListOf(s)) + 1)

\* begin: where an iteration over the declarations of s starts.
First(s) ==
  CASE info[s].kind = "null" -> Null
    [] info[s].kind = "decl" -> One(info[s].decl)
    [] info[s].kind = "list" ->
         IF ListOf(s) # <<>> THEN Elem(info[s].list, Len(ListOf(s))) ELSE Null

Begin(s) == it' = First(s) /\ UNCHANGED <<info, decls, pools, curIdx>>

\* operator*
Deref == IF it.kind = "elem" THEN decls[it.list][it.pos] ELSE it.decl

\* ++ on an iterator that is a declaration.
AdvanceOne ==
  /\ it.kind = "decl" /\ it' = Null
  /\ UNCHANGED <<info, decls, pools, curIdx>>

\* incrementSlowCase
AdvanceInList ==
  /\ it.kind = "elem"
  /\ it' = IF it.pos # 1 THEN Elem(it.list, it.pos - 1) ELSE Null
  /\ UNCHANGED <<info, decls, pools, curIdx>>

Next ==
  \/ \E d \in Decls : \/ AddFirst(d) \/ AddSecond(d) \/ AddMore(d)
                      \/ RemoveOnly(d) \/ RemoveFromList(d)
  \/ \E s \in Symbols : Begin(s)
  \/ AdvanceOne \/ AdvanceInList

Spec == Init /\ [][Next]_vars

-----------------------------------------------------------------------------
(* Properties.                                                             *)

Infos == {Null} \cup {One(d) : d \in Decls} \cup {Many(k) : k \in UsedSlots}

\* The forms the two tagged words may have.
TypeOK ==
  /\ pools \in Nat /\ curIdx \in 1 .. PoolSize
  /\ pools = 0 => curIdx = PoolSize
  /\ info \in [Symbols -> Infos]
  /\ decls \in [UsedSlots -> Seq(Decls)]
  /\ it \in {Null} \cup {One(d) : d \in Decls}
            \cup [kind : {"elem"}, list : UsedSlots, pos : Nat \ {0}]

\* addDecl and removeDecl never make two symbols share an IdDeclInfo, however
\* pools fill up: a declaration would be found under a name it does not have.
ListsUnshared ==
  \A s, t \in Symbols :
    info[s].kind = "list" /\ info[t].kind = "list"
      /\ info[s].list = info[t].list => s = t

\* Every list a symbol uses holds declarations of that symbol only.
ListsHoldTheirSymbol ==
  \A s \in Symbols : \A i \in 1 .. Len(ChainOf(s)) : SymbolOf[ChainOf(s)[i]] = s

\* incrementSlowCase reads the list through the declaration the iterator is
\* at, and asserts that its symbol has one ("Decl with wrong id ?",
\* IdentifierResolver.cpp:131); it must be the list the iterator is in.
IteratorInItsList ==
  it.kind = "elem" =>
    /\ it.pos <= Len(decls[it.list])
    /\ info[SymbolOf[Deref]] = Many(it.list)

\* The inductive invariant.
ResolverInv ==
  TypeOK /\ ListsUnshared /\ ListsHoldTheirSymbol /\ IteratorInItsList

\* The refinement mapping: what both tagged words stand for.
Left ==
  CASE it.kind = "null" -> <<>>
    [] it.kind = "decl" -> <<it.decl>>
    [] it.kind = "elem" -> SubSeq(decls[it.list], 1, it.pos)

Stack == INSTANCE ResolverStack
           WITH chain <- [s \in Symbols |-> ChainOf(s)], left <- Left

\* The pointer tricks are invisible: the resolver is a stack per symbol.
ImplementsStack == Stack!Spec
=============================================================================
