----------------------------- MODULE SemaScopes -----------------------------
(***************************************************************************)
(* Declarations, scopes and name lookup in the semantic analysis           *)
(* (Analysis and Sema in Sema.cpp, Scope.cppm).  The analysis walks the    *)
(* declarations of a program; it opens a scope for the program, a class or *)
(* a function, registers declarations in the open scope and in the         *)
(* identifier resolver, and takes them out of the resolver when the scope  *)
(* closes.  The resolver is the stack of declarations per symbol that      *)
(* IdentifierResolver implements.                                          *)
(*                                                                         *)
(* Declarations are numbered in the order of the text.  Expressions are    *)
(* reduced to the names they look up, types are left out.                  *)
(***************************************************************************)
EXTENDS Integers, Sequences, FiniteSets

CONSTANTS
  Names,       \* the names of a program
  Programs     \* sequences of [kind, name, super, up]; up is the number of the
               \* class or function a declaration belongs to, 0 at the top

\* Two of the declarations ASTContext predefines: one class to extend and one
\* of those that may not be.
ObjectClass == -1
SpecialClass == -2
Predefined == {ObjectClass, SpecialClass}
Kinds == {"var", "func", "class", "param", "global", "nonlocal"}
AllNames == Names \cup {"object", "int"}

\* What the parser makes of a text: a body follows what it belongs to, classes
\* are at the top and parameters, global and nonlocal never are.
IsProgram(p) ==
  /\ p \in Seq([kind : Kinds, name : Names, super : AllNames, up : Nat])
  /\ \A i \in 1 .. Len(p) :
        /\ p[i].up < i
        /\ p[i].up # 0 => p[p[i].up].kind \in {"class", "func"}
        /\ p[i].kind = "class" => p[i].up = 0
        /\ p[i].kind \in {"param", "global", "nonlocal"} => p[i].up # 0

ASSUME ProgramsAssumption == \A p \in Programs : IsProgram(p)

VARIABLES
  prog,        \* the program
  frames,      \* the traversals under way: declaration, phase, last one handled
  scopes,      \* CurScope and its parents, the innermost last
  chain,       \* IdResolver: the declarations of every name
  typed,       \* variables whose initializer has an inferred type
  errors,      \* the diagnostics, as kind and declaration
  resolved,    \* the name looked up last and what was found
  status       \* "running", "done" or what ended the process

vars == <<prog, frames, scopes, chain, typed, errors, resolved, status>>

Nothing == [name |-> "", decl |-> 0]
Ids == 1 .. Len(prog)
Decls == Ids \cup Predefined
Kind(d) == IF d \in Predefined THEN "class" ELSE prog[d].kind
NameOf(d) == CASE d = ObjectClass -> "object"
               [] d = SpecialClass -> "int"
               [] OTHER -> prog[d].name

Frame(d, ph) == [decl |-> d, phase |-> ph, at |-> d]

\* initialize, and traverseProgram up to the program's own declarations.
Init ==
  /\ prog \in Programs
  /\ frames = <<Frame(0, "declare")>>
  /\ scopes = <<Predefined>>
  /\ chain = [n \in AllNames |-> CASE n = "object" -> <<ObjectClass>>
                                   [] n = "int" -> <<SpecialClass>>
                                   [] OTHER -> <<>>]
  /\ typed = {} /\ errors = {} /\ resolved = Nothing /\ status = "running"

-----------------------------------------------------------------------------
(* Scopes and lookup.                                                      *)

Top == frames[Len(frames)]
GlobalScope == scopes[1]
CurScope == scopes[Len(scopes)]

\* lookupName
InScope(S, n) == {d \in S : NameOf(d) = n}

\* Mutant: a declaration goes under those there are.
PushedUnder(d) == [chain EXCEPT ![NameOf(d)] = <<d>> \o @]

\* IdResolver.addDecl and removeDecl.
Pushed(d) == [chain EXCEPT ![NameOf(d)] = Append(@, d)]

Topmost(q, d, i) == q[i] = d /\ \A j \in i + 1 .. Len(q) : q[j] # d
RemoveDecl(d) ==
  LET q == chain[NameOf(d)] IN
  \E i \in 1 .. Len(q) :
    /\ Topmost(q, d, i)
    /\ chain' = [chain EXCEPT ![NameOf(d)] =
                   SubSeq(q, 1, i - 1) \o SubSeq(q, i + 1, Len(q))]

\* The declaration begin returns; 0 if there is none.
Head1(n) == IF chain[n] = <<>> THEN 0 ELSE chain[n][Len(chain[n])]

\* handleDeclaration, handleClassDef and handleFuncDef of Sema: into the open
\* scope and the resolver, once.
Register(d) ==
  IF d \in CurScope
  THEN UNCHANGED <<scopes, chain>>
  ELSE /\ scopes' = [scopes EXCEPT ![Len(scopes)] = @ \cup {d}]
       /\ chain' = Pushed(d)

Report(kind, d) == errors' = errors \cup {[kind |-> kind, decl |-> d]}

\* The declarations of the innermost traversal, one after the other.
IsNext(i) ==
  LET later == {j \in Ids : prog[j].up = Top.decl /\ j > Top.at} IN
  i \in later /\ \A j \in later : i <= j
\* Mutant: the last declaration counts as left.
NoneBeyond == \A j \in Ids : prog[j].up = Top.decl => j < Top.at

NoneLeft == \A j \in Ids : prog[j].up = Top.decl => j <= Top.at

Running(ph) == status = "running" /\ Top.phase = ph
Moved(ph, at) ==
  [frames EXCEPT ![Len(frames)] = [decl |-> Top.decl, phase |-> ph, at |-> at]]

-----------------------------------------------------------------------------
(* Registering the declarations of a program, class or function body.      *)

\* A nested function is traversed as soon as it is registered.
AfterDeclaring(i) ==
  frames' = Moved(IF Kind(i) = "func" /\ Top.decl # 0 /\ Kind(Top.decl) = "func"
                  THEN "nested" ELSE "declare", i)

\* Analysis::handleDeclaration of a name the open scope already has.
DeclareTwice(i) ==
  /\ Running("declare") /\ IsNext(i)
  /\ InScope(CurScope, NameOf(i)) # {}
  /\ Report("dup", i)
  /\ AfterDeclaring(i) /\ resolved' = Nothing
  /\ UNCHANGED <<prog, scopes, chain, typed, status>>

Fresh(i) == /\ Running("declare") /\ IsNext(i)
            /\ InScope(CurScope, NameOf(i)) = {}

\* A class the name would shadow, found by checkClassShadow after registering.
Shadows(i) == \E k \in 1 .. Len(chain[NameOf(i)]) :
                Kind(chain[NameOf(i)][k]) = "class"

Declare(i) ==
  /\ Fresh(i) /\ Kind(i) \in {"var", "param", "func", "class"}
  /\ Register(i)
  /\ IF Kind(i) # "class" /\ Shadows(i)
     THEN Report("shadow", i) ELSE UNCHANGED errors
  /\ AfterDeclaring(i) /\ resolved' = Nothing
  /\ UNCHANGED <<prog, typed, status>>

\* checkNonlocalDecl registers the variable of the scope around this one.
Outer(i) == IF Len(scopes) = 2 THEN {}
            ELSE InScope(scopes[Len(scopes) - 1], NameOf(i))

DeclareNonlocal(i) ==
  /\ Fresh(i) /\ Kind(i) = "nonlocal"
  /\ \/ /\ Outer(i) = {} /\ Report("notNonlocal", i)
        /\ UNCHANGED <<scopes, chain>>
     \/ \E d \in Outer(i) :
          IF Kind(d) = "var"
          THEN Register(d) /\ UNCHANGED errors
          ELSE Report("notNonlocal", i) /\ UNCHANGED <<scopes, chain>>
  /\ AfterDeclaring(i) /\ resolved' = Nothing
  /\ UNCHANGED <<prog, typed, status>>

\* checkGlobalDecl registers the program's variable, whose initializer it
\* type-checks first.
DeclareGlobal(i) ==
  /\ Fresh(i) /\ Kind(i) = "global"
  /\ \/ /\ InScope(GlobalScope, NameOf(i)) = {} /\ Report("notGlobal", i)
        /\ UNCHANGED <<scopes, chain>>
     \/ \E d \in InScope(GlobalScope, NameOf(i)) :
          IF Kind(d) = "var"
          THEN d \in typed /\ Register(d) /\ UNCHANGED errors
          ELSE Report("notGlobal", i) /\ UNCHANGED <<scopes, chain>>
  /\ AfterDeclaring(i) /\ resolved' = Nothing
  /\ UNCHANGED <<prog, typed, status>>

\* actOnVarDef casts the inferred type of the initializer, which is null.
CastNullType(i) ==
  /\ Fresh(i) /\ Kind(i) = "global"
  /\ \E d \in InScope(GlobalScope, NameOf(i)) : Kind(d) = "var" /\ d \notin typed
  /\ status' = "nullType" /\ resolved' = Nothing
  /\ UNCHANGED <<prog, frames, scopes, chain, typed, errors>>

\* A function goes on with its statements, the others with a visit.
EndDeclarations ==
  /\ Running("declare") /\ NoneLeft
  /\ frames' = Moved(IF Top.decl # 0 /\ Kind(Top.decl) = "func"
                     THEN "statements" ELSE "visit", Top.decl)
  /\ resolved' = Nothing
  /\ UNCHANGED <<prog, scopes, chain, typed, errors, status>>

-----------------------------------------------------------------------------
(* Visiting the declarations.                                              *)

\* Mutant: the inferred type is not kept.
VisitVarUntyped(i) ==
  /\ Running("visit") /\ IsNext(i) /\ Kind(i) = "var"
  /\ frames' = Moved("visit", i) /\ resolved' = Nothing
  /\ UNCHANGED <<prog, scopes, chain, typed, errors, status>>

\* traverseVarDef: the literal gets its type.
VisitVar(i) ==
  /\ Running("visit") /\ IsNext(i) /\ Kind(i) = "var"
  /\ typed' = typed \cup {i}
  /\ frames' = Moved("visit", i) /\ resolved' = Nothing
  /\ UNCHANGED <<prog, scopes, chain, errors, status>>

\* Mutant: the function is added to the resolver once more.
OpenFunctionAgain(i, after) ==
  /\ scopes' = Append([scopes EXCEPT ![Len(scopes)] = @ \cup {i}], {})
  /\ chain' = Pushed(i)
  /\ frames' = Append(Moved(after, i), Frame(i, "declare"))
  /\ resolved' = Nothing
  /\ UNCHANGED <<prog, typed, errors, status>>

\* traverseFuncDef: registers the function if that was refused before, opens
\* its scope and goes on with its parameters and declarations.
OpenFunction(i, after) ==
  /\ IF i \in CurScope
     THEN scopes' = Append(scopes, {}) /\ UNCHANGED chain
     ELSE /\ scopes' = Append([scopes EXCEPT ![Len(scopes)] = @ \cup {i}], {})
          /\ chain' = Pushed(i)
  /\ frames' = Append(Moved(after, i), Frame(i, "declare"))
  /\ resolved' = Nothing
  /\ UNCHANGED <<prog, typed, errors, status>>

VisitFunction(i) ==
  Running("visit") /\ IsNext(i) /\ Kind(i) = "func" /\ OpenFunction(i, "visit")

VisitNested == Running("nested") /\ OpenFunction(Top.at, "declare")

\* checkSuperClass; the class is already in its own chain once more.
SuperError(c) ==
  LET sn == prog[c].super
      s  == IF sn = NameOf(c) THEN c ELSE Head1(sn) IN
  CASE s = 0 -> "superUndefined"
    [] s # 0 /\ Kind(s) # "class" -> "superNotClass"
    [] s = SpecialClass -> "superSpecial"
    [] s \in Ids /\ Kind(s) = "class" ->
         IF Len(Pushed(c)[sn]) < Len(Pushed(c)[NameOf(c)])
         THEN "superUndefined" ELSE "none"
    [] s = ObjectClass -> "none"

\* traverseClassDef: opens a scope and adds the class to the resolver, where
\* it stays; a class with a bad super-class is visited without registering
\* its members.
VisitClass(i) ==
  /\ Running("visit") /\ IsNext(i) /\ Kind(i) = "class"
  /\ scopes' = Append(scopes, {})
  /\ chain' = Pushed(i)
  /\ frames' = Append(Moved("visit", i),
                      Frame(i, IF SuperError(i) = "none"
                               THEN "declare" ELSE "visit"))
  /\ IF SuperError(i) = "none" THEN UNCHANGED errors
                               ELSE Report(SuperError(i), i)
  /\ resolved' = Nothing
  /\ UNCHANGED <<prog, typed, status>>

\* A class is left, the program goes on with its statements.
EndVisit ==
  /\ Running("visit") /\ NoneLeft
  /\ frames' = Moved(IF Top.decl = 0 THEN "statements" ELSE "pop", Top.at)
  /\ resolved' = Nothing
  /\ UNCHANGED <<prog, scopes, chain, typed, errors, status>>

-----------------------------------------------------------------------------
(* Statements and the end of a scope.                                      *)

\* lookupDecl and actOnDeclRef: a variable or parameter is what the name
\* means, anything else is reported, a class ends the process.
LookUp(n) ==
  /\ Running("statements")
  /\ IF Head1(n) # 0 /\ Kind(Head1(n)) = "class"
     THEN status' = "fatal" /\ resolved' = Nothing
     ELSE /\ resolved' = [name |-> n, decl |-> Head1(n)]
          /\ UNCHANGED status
  /\ UNCHANGED <<prog, frames, scopes, chain, typed, errors>>

EndStatements ==
  /\ Running("statements")
  /\ frames' = Moved("pop", Top.at) /\ resolved' = Nothing
  /\ UNCHANGED <<prog, scopes, chain, typed, errors, status>>

\* actOnPopScope takes the declarations in the order of their addresses.
PopDecl(d) ==
  /\ Running("pop") /\ d \in CurScope
  /\ RemoveDecl(d)
  /\ scopes' = [scopes EXCEPT ![Len(scopes)] = @ \ {d}]
  /\ UNCHANGED <<prog, frames, typed, errors, resolved, status>>

\* Mutant: the declarations stay in the resolver.
LeaveScopeUnpopped ==
  /\ Running("pop")
  /\ IF Len(scopes) = 1
     THEN status' = "done" /\ UNCHANGED <<scopes, frames>>
     ELSE /\ scopes' = SubSeq(scopes, 1, Len(scopes) - 1)
          /\ frames' = SubSeq(frames, 1, Len(frames) - 1)
          /\ UNCHANGED status
  /\ UNCHANGED <<prog, chain, typed, errors, resolved>>

LeaveScope ==
  /\ Running("pop") /\ CurScope = {}
  /\ IF Len(scopes) = 1
     THEN status' = "done" /\ UNCHANGED <<scopes, frames>>
     ELSE /\ scopes' = SubSeq(scopes, 1, Len(scopes) - 1)
          /\ frames' = SubSeq(frames, 1, Len(frames) - 1)
          /\ UNCHANGED status
  /\ UNCHANGED <<prog, chain, typed, errors, resolved>>

Progress ==
  \/ \E i \in Ids : \/ DeclareTwice(i) \/ Declare(i) \/ DeclareNonlocal(i)
                    \/ DeclareGlobal(i) \/ CastNullType(i)
                    \/ VisitVar(i) \/ VisitFunction(i) \/ VisitClass(i)
  \/ EndDeclarations \/ VisitNested \/ EndVisit \/ EndStatements
  \/ \E d \in Decls : PopDecl(d)
  \/ LeaveScope

Next == Progress \/ \E n \in AllNames : LookUp(n)

Spec == Init /\ [][Next]_vars

\* A body has finitely many statements, so it comes to its end.
FairSpec == Spec /\ WF_vars(Progress)

-----------------------------------------------------------------------------
(* Properties.                                                             *)

Phases == {"declare", "nested", "visit", "statements", "pop"}

\* The outermost traversal is the program's, and only that.
FramesOK ==
  /\ frames \in Seq([decl : 0 .. Len(prog), phase : Phases, at : 0 .. Len(prog)])
  /\ frames # <<>> /\ frames[1].decl = 0
  /\ \A k \in 1 .. Len(frames) : /\ k # 1 => frames[k].decl # 0
                                 /\ frames[k].phase = "nested" => frames[k].at # 0

ChainsOK ==
  /\ chain \in [AllNames -> Seq(Decls)]
  /\ \A n \in AllNames : \A i \in 1 .. Len(chain[n]) : NameOf(chain[n][i]) = n

TypeOK ==
  /\ IsProgram(prog) /\ FramesOK /\ ChainsOK
  /\ scopes \in Seq(SUBSET Decls) /\ Len(scopes) = Len(frames)
  /\ typed \subseteq Ids /\ \A e \in errors : e.decl \in Ids
  /\ resolved.decl \in Decls \cup {0}
  /\ status \in {"running", "done", "nullType", "fatal"}

Occurrences(d) ==
  Cardinality({i \in 1 .. Len(chain[NameOf(d)]) : chain[NameOf(d)][i] = d})

\* The declarations of the program that have been visited, or are being.
Visited(d) == \/ frames[1].phase \in {"statements", "pop"}
              \/ frames[1].phase = "visit" /\ frames[1].at >= d

\* The classes whose traversal has begun; each stays in its chain once more.
Traversed == {c \in Ids : Kind(c) = "class" /\ Visited(c)}

\* The resolver holds a declaration once for every open scope that has it, and
\* a class once more from its traversal on: neither an early end of a body, a
\* refused duplicate nor a variable registered in several scopes unbalances
\* registering and popping.  At the end only the extra entries are left.
ChainsMatchScopes ==
  \A d \in Decls :
    Occurrences(d) = Cardinality({k \in 1 .. Len(scopes) : d \in scopes[k]})
                     + (IF d \in Traversed THEN 1 ELSE 0)

\* The inductive invariant.
ScopesInv == TypeOK /\ ChainsMatchScopes

\* removeDecl drops a symbol's only declaration without comparing it
\* (IdentifierResolver.cpp:72), so a scope may pop only what is registered.
ResolverContract ==
  Running("pop") => \A d \in CurScope : Occurrences(d) > 0

HasError(kind) == \E e \in errors : e.kind = kind

\* The resolver answers with the declaration of the innermost open scope that
\* has one, unless a duplicate was reported: registering in the program's order
\* and popping in the order of addresses never leave an outer one on top.
InnermostWins ==
  status = "running" /\ Top.phase # "pop" /\ ~HasError("dup") =>
    \A n \in AllNames : \A k \in 1 .. Len(scopes) :
      /\ InScope(scopes[k], n) # {}
      /\ \A j \in k + 1 .. Len(scopes) : InScope(scopes[j], n) = {}
      => Head1(n) \in scopes[k]

\* The declarations of n in body p that are before q, if p is a function whose
\* nested function is q: it is traversed before the rest is registered.
OwnBefore(n, p, q) ==
  {i \in Ids : /\ prog[i].up = p /\ prog[i].name = n
               /\ p # 0 /\ Kind(p) = "func" => i <= q}

\* Lexical scoping, defined on the text alone.  What a declaration stands for,
\* given what its name means around the body it is in: the variable of the
\* program, what the name means there, or itself.
StandsFor(i, around) ==
  CASE Kind(i) = "global"   -> CHOOSE g \in OwnBefore(prog[i].name, 0, 0) : TRUE
    [] Kind(i) = "nonlocal" -> around
    [] OTHER -> i

\* What n means inside body p as far as q: its own declaration, or what it means
\* around p.
Inside(n, p, q, around) ==
  LET own == OwnBefore(n, p, q) IN
  IF own = {} THEN around ELSE StandsFor(CHOOSE i \in own : TRUE, around)

Builtin(n) == CASE n = "object" -> ObjectClass [] n = "int" -> SpecialClass [] OTHER -> 0

Around(n) ==
  LET around[p \in 0 .. Len(prog)] ==
        IF p = 0 THEN Builtin(n) ELSE Inside(n, prog[p].up, p, around[prog[p].up])
  IN  around

Meaning(n, body) == Inside(n, body, Len(prog), Around(n)[body])

\* In a program without errors a name in a statement is the declaration that
\* lexical scoping gives it, with what is nested and opened before and closed
\* since having left no trace.
ResolvesLexically ==
  errors = {} /\ resolved # Nothing =>
    resolved.decl = Meaning(resolved.name, Top.decl)

\* The analysis casts a null type only for a function that declares a variable
\* global which the program defines after that function.
NullTypeOnlyBeforeDefinition ==
  status = "nullType" =>
    \E g \in Ids : /\ IsNext(g) /\ Kind(g) = "global"
                   /\ \E v \in Ids : /\ prog[v].up = 0 /\ Kind(v) = "var"
                                     /\ NameOf(v) = NameOf(g)
                                     /\ v > frames[1].at

-----------------------------------------------------------------------------
(* What makes the last safety properties inductive.                        *)

\* The program visits its declarations while anything inside it is traversed.
ProgramWaits == /\ frames[1].phase # "nested"
                /\ Len(frames) # 1 => frames[1].phase = "visit"

\* Without a duplicate every class visited is in the program's scope, and its
\* variables are typed as they are visited.
VisitedRegistered ==
  \A c \in Ids : Kind(c) = "class" /\ frames[1].phase # "pop" /\ ~HasError("dup")
                 /\ (frames[1].phase = "declare" => c <= frames[1].at)
                 => c \in GlobalScope

VisitedTyped ==
  \A v \in Ids : prog[v].up = 0 /\ Kind(v) = "var" /\ Visited(v) => v \in typed

\* A variable of the program's scope is one of the program.
GlobalsAtTop ==
  \A v \in GlobalScope : v \in Ids /\ Kind(v) = "var" => prog[v].up = 0

\* Entry i of the chain q stands for scope level[i] of s: the entries are in the
\* order of the scopes, and each of a scope's declarations of the name, those in
\* D, has an entry of its level, only one but in the outermost scope.
InLayers(q, s, D, level) ==
  /\ \A i \in 1 .. Len(q) : q[i] \in s[level[i]]
  /\ \A i, j \in 1 .. Len(q) : i < j => level[i] <= level[j]
  /\ \A i, j \in 1 .. Len(q) : q[i] = q[j] /\ level[i] = level[j] /\ level[i] # 1 => i = j
  /\ \A k \in 1 .. Len(s) : \A d \in s[k] \cap D :
        \E i \in 1 .. Len(q) : q[i] = d /\ level[i] = k

Layered(q, s, D) ==
  \E level \in [1 .. Len(q) -> 1 .. Len(s)] : InLayers(q, s, D, level)

Named(n) == {d \in Decls : NameOf(d) = n}

\* Before the program's own scope is popped the chains are the scopes laid one
\* on the other, unless a duplicate was reported.
ChainsLayered ==
  frames[1].phase # "pop" /\ ~HasError("dup") =>
    \A n \in AllNames : Layered(chain[n], scopes, Named(n))

\* The inductive invariant of what lookup finds.
LookupInv ==
  /\ ScopesInv /\ ProgramWaits /\ VisitedRegistered /\ VisitedTyped
  /\ GlobalsAtTop /\ ChainsLayered /\ NullTypeOnlyBeforeDefinition

\* A body is traversed while the one around it waits, a class or the program in
\* its visit and a function where it declares the nested one.
IsFunction(p) == p # 0 /\ Kind(p) = "func"
FramesNest ==
  /\ \A k \in 1 .. Len(frames) - 1 :
       /\ prog[frames[k + 1].decl].up = frames[k].decl
       /\ IF IsFunction(frames[k].decl)
          THEN frames[k].phase = "declare" /\ frames[k].at = frames[k + 1].decl
          ELSE frames[k].phase = "visit"
  /\ Top.phase = "nested" =>
       /\ IsFunction(Top.decl) /\ IsFunction(Top.at) /\ prog[Top.at].up = Top.decl
  /\ Top.phase = "visit" => ~IsFunction(Top.decl)

\* The declarations that traversal f is through with, and what each stands for.
DeclaredBy(f) ==
  {i \in Ids : prog[i].up = f.decl /\ (f.phase \in {"declare", "nested"} => i <= f.at)}
Denoted(i) == StandsFor(i, Around(prog[i].name)[prog[i].up])
Given(k) == IF k = 1 THEN Predefined ELSE {}

\* Scope S of traversal f holds what the text says, once under each name.
AsWritten(f, S, given) ==
  /\ S = given \cup {Denoted(i) : i \in DeclaredBy(f)}
  /\ \A i \in DeclaredBy(f) :
       /\ Denoted(i) \in Decls /\ NameOf(Denoted(i)) = prog[i].name
       /\ \A d \in given : NameOf(d) # prog[i].name
       /\ \A j \in DeclaredBy(f) : prog[i].name = prog[j].name => i = j

ScopesAsWritten ==
  errors = {} => \A k \in 1 .. Len(frames) :
    frames[k].phase # "pop" => AsWritten(frames[k], scopes[k], Given(k))

FoundOnTop ==
  resolved # Nothing =>
    /\ Top.phase = "statements" /\ resolved.name \in AllNames
    /\ resolved.decl = Head1(resolved.name)

\* The inductive invariant of lexical scoping.
LexicalInv == LookupInv /\ FramesNest /\ ScopesAsWritten /\ FoundOnTop

\* The analysis comes to an end.
Terminates == <>(status # "running")
=============================================================================
