--------------------------- MODULE ClassHierarchy ---------------------------
(***************************************************************************)
(* Classes and their members in the semantic analysis (Sema.cpp): the      *)
(* checks of a class definition, its super-class, attributes and methods,  *)
(* and the search for a member through the super-classes.  Super-classes   *)
(* are never stored: each time one is needed its name is looked up in the  *)
(* identifier resolver as it is at that moment.                            *)
(*                                                                         *)
(* A program is reduced to its classes.  Bodies of methods and statements  *)
(* of the program are reduced to accesses to members of variables whose    *)
(* type is a class.                                                        *)
(***************************************************************************)
EXTENDS Integers, Sequences, FiniteSets

CONSTANTS
  ProgramClasses, MemberNames,   \* names of classes and of members
  Programs   \* sequences of classes [name, super, members]; a member has a
             \* name, method (or attribute), type and params, [name, type] each

\* Two of the predefined classes: one to extend and one of those that may not
\* be.  A member of a class in the resolver, and no class at all.
ObjectClass == 0
IntClass == -1
Member == -2
None == -3
PredefinedClasses == {ObjectClass, IntClass}
AllNames == ProgramClasses \cup MemberNames \cup {"object", "int"}

Params == [name : STRING, type : STRING]
MemberDecls == [name : AllNames, method : BOOLEAN, type : STRING, params : Seq(Params)]
IsProgram(p) == p \in Seq([name : AllNames, super : AllNames, members : Seq(MemberDecls)])
ASSUME ProgramsAssumption == \A p \in Programs : IsProgram(p)

VARIABLES
  prog,
  phase,     \* "declare" the classes; for each, "enter", "members", "visit";
             \* the statements of the "program"
  at,        \* the class
  next,      \* its next member
  superclass,  \* its super-class as traverseClassDef looked it up
  globals,   \* the classes in the global scope
  scope,     \* the members in the scope of the class
  chain,     \* IdResolver: classes and members by name, the last one on top
  errors,    \* the diagnostics of classes: kind, class and member (0 if none)
  walk,      \* the search under way: class and name, and the class it is at
  found      \* its result: class and name, and the class and member found (a
             \* diagnostic if there is none)

classVars == <<prog, phase, at, next, superclass, globals, scope, chain, errors, walk, found>>

Ids == 1 .. Len(prog)
Idle == [of |-> None, name |-> "none", at |-> None]
Nothing == [of |-> None, name |-> "none", class |-> None, member |-> 0]
InitMember == [name |-> "__init__", method |-> TRUE, type |-> "<None>",
               params |-> <<[name |-> "this", type |-> "object"]>>]
Members(c) == IF c \in PredefinedClasses THEN <<InitMember>> ELSE prog[c].members
Current == prog[at].members[next]

ClassInit ==
  /\ prog \in Programs /\ phase = "declare" /\ at = 1 /\ next = 1
  /\ superclass = None /\ globals = PredefinedClasses /\ scope = {}
  /\ chain = [n \in AllNames |-> CASE n = "object" -> <<ObjectClass>>
                                   [] n = "int" -> <<IntClass>> [] OTHER -> <<>>]
  /\ errors = {} /\ walk = Idle /\ found = Nothing

NameOf(c) == CASE c = ObjectClass -> "object" [] c = IntClass -> "int" [] OTHER -> prog[c].name
Error(kind, member) == {[kind |-> kind, class |-> at, member |-> member]}
Report(S) == errors' = errors \cup S
Unless(ok, kind) == IF ok THEN {} ELSE Error(kind, next)

-----------------------------------------------------------------------------
(* The resolver.                                                           *)

Pushed(n, d) == [chain EXCEPT ![n] = Append(@, d)]
\* actOnPopScope: the members of a class lie on top of classes.
Uncovered(q) ==
  LET last == CHOOSE k \in 0 .. Len(q) : \A i \in 1 .. Len(q) : q[i] = Member <=> i > k
  IN  SubSeq(q, 1, last)
Head1(q) == IF q = <<>> THEN None ELSE q[Len(q)]
ClassOnTop(q) == IF Head1(q) = Member THEN None ELSE Head1(q)

\* Mutant: object, too, is looked for by the name of a super-class.
SuperClassOfObject(c) ==
  ClassOnTop(chain[IF c \in PredefinedClasses THEN "object" ELSE prog[c].super])

\* getSuperClass
SuperClass(c) ==
  CASE c = ObjectClass -> None
    [] c = IntClass -> ClassOnTop(chain["object"])
    [] OTHER -> ClassOnTop(chain[prog[c].super])

-----------------------------------------------------------------------------
(* The classes of the program.                                             *)

DeclareClass ==
  /\ phase = "declare" /\ at \in Ids
  /\ IF \E c \in globals : NameOf(c) = NameOf(at)
     THEN Report(Error("dup", 0)) /\ UNCHANGED <<globals, chain>>
     ELSE /\ globals' = globals \cup {at} /\ chain' = Pushed(NameOf(at), at)
          /\ UNCHANGED errors
  /\ at' = at + 1
  /\ UNCHANGED <<prog, phase, next, superclass, scope, walk, found>>

EndDeclare ==
  /\ phase = "declare" /\ at \notin Ids
  /\ phase' = "enter" /\ at' = 1
  /\ UNCHANGED <<prog, next, superclass, globals, scope, chain, errors, walk, found>>

\* checkSuperClass, when the class is already in its own chain once more.
SuperErrors(q) ==
  LET sn == prog[at].super  s == Head1(q[sn]) IN
  CASE s = None -> Error("superUndefined", 0)
    [] s = IntClass -> Error("superSpecial", 0)
    [] s \in Ids -> IF Len(q[sn]) < Len(q[NameOf(at)])
                    THEN Error("superUndefined", 0) ELSE {}
    [] OTHER -> {}

\* A class whose super-class is refused is visited without declaring its
\* members.
EnterClass ==
  /\ phase = "enter" /\ at \in Ids
  /\ LET q == Pushed(NameOf(at), at) IN
     /\ chain' = q /\ Report(SuperErrors(q))
     /\ phase' = IF SuperErrors(q) = {} THEN "members" ELSE "visit"
     /\ superclass' = ClassOnTop(q[prog[at].super])
  /\ next' = 1
  /\ UNCHANGED <<prog, at, globals, scope, walk, found>>

-----------------------------------------------------------------------------
(* The members of a class.                                                 *)

First(c, n) == CHOOSE i \in 1 .. Len(Members(c)) :
                 /\ Members(c)[i].name = n
                 /\ \A j \in 1 .. i - 1 : Members(c)[j].name # n
Declares(c, n) == \E i \in 1 .. Len(Members(c)) : Members(c)[i].name = n

\* checkMethodOverride; the parameter self does not count.
Signature(m) ==
  LET rest == IF m.params # <<>> /\ m.params[1].name = "self"
              THEN Tail(m.params) ELSE m.params IN
  <<[i \in 1 .. Len(rest) |-> rest[i].type], m.type>>

\* Mutant: attributes are compared by their types.
OverrideErrorsByType(m) ==
  IF m.name = "__init__" \/ ~Declares(superclass, m.name) THEN {}
  ELSE LET o == Members(superclass)[First(superclass, m.name)] IN
       IF o.method = m.method
       THEN Unless(Signature(o) = Signature(m), "override")
       ELSE Error("redefine", next)

\* checkClassDeclaration
OverrideErrors(m) ==
  IF m.name = "__init__" \/ ~Declares(superclass, m.name) THEN {}
  ELSE LET o == Members(superclass)[First(superclass, m.name)] IN
       IF o.method /\ m.method
       THEN Unless(Signature(o) = Signature(m), "override")
       ELSE Error("redefine", next)

\* checkInitDeclaration: a parameter of __init__ may not repeat an attribute.
InitErrors(m) ==
  Unless(~ /\ m.name = "__init__"
           /\ \E i \in 1 .. Len(m.params) : \E a \in 1 .. Len(Members(at)) :
                /\ ~Members(at)[a].method
                /\ Members(at)[a].name = m.params[i].name
                /\ Members(at)[a].type = m.params[i].type, "override")

\* checkFirstMethodParam
FirstParamErrors(m) ==
  Unless(/\ m.params # <<>> /\ m.params[1].name = "self"
         /\ m.params[1].type = NameOf(at), "firstParam")

MemberErrors(m) ==
  OverrideErrors(m)
    \cup (IF m.method THEN InitErrors(m) \cup FirstParamErrors(m) ELSE {})

\* The other checks are made even of a member that is refused as a duplicate.
DeclareMember ==
  /\ phase = "members" /\ next <= Len(Members(at))
  /\ IF \E i \in scope : Members(at)[i].name = Current.name
     THEN /\ Report(Error("dup", next) \cup MemberErrors(Current))
          /\ UNCHANGED <<scope, chain>>
     ELSE /\ Report(Unless(\A i \in 1 .. Len(chain[Current.name]) :
                             chain[Current.name][i] = Member, "shadow")
                    \cup MemberErrors(Current))
          /\ scope' = scope \cup {next} /\ chain' = Pushed(Current.name, Member)
  /\ next' = next + 1
  /\ UNCHANGED <<prog, phase, at, superclass, globals, walk, found>>

EndMembers ==
  /\ phase = "members" /\ next > Len(Members(at))
  /\ phase' = "visit" /\ next' = 1
  /\ UNCHANGED <<prog, at, superclass, globals, scope, chain, errors, walk, found>>

\* traverseFuncDef registers a method that was not declared.
VisitMember ==
  /\ phase = "visit" /\ next <= Len(Members(at)) /\ walk = Idle /\ found' = Nothing
  /\ IF Current.method /\ next \notin scope
     THEN scope' = scope \cup {next} /\ chain' = Pushed(Current.name, Member)
     ELSE UNCHANGED <<scope, chain>>
  /\ next' = next + 1
  /\ UNCHANGED <<prog, phase, at, superclass, globals, errors, walk>>

\* Mutant: the members stay in the resolver.
LeaveClassUnpopped ==
  /\ phase = "visit" /\ next > Len(Members(at)) /\ walk = Idle /\ found' = Nothing
  /\ scope' = {} /\ phase' = "enter" /\ at' = at + 1
  /\ UNCHANGED <<prog, next, superclass, globals, chain, errors, walk>>

LeaveClass ==
  /\ phase = "visit" /\ next > Len(Members(at)) /\ walk = Idle /\ found' = Nothing
  /\ scope' = {} /\ phase' = "enter" /\ at' = at + 1
  /\ chain' = [n \in AllNames |-> Uncovered(chain[n])]
  /\ UNCHANGED <<prog, next, superclass, globals, errors, walk>>

EndClasses ==
  /\ phase = "enter" /\ at \notin Ids /\ phase' = "program"
  /\ UNCHANGED <<prog, at, next, superclass, globals, scope, chain, errors, walk, found>>

-----------------------------------------------------------------------------
(* checkMemberExpr and findDeclaration.                                    *)

\* In a statement of a method under visit or of the program.
Access(c, n) ==
  /\ walk = Idle
  /\ \/ phase = "program"
     \/ phase = "visit" /\ next > 1 /\ Members(at)[next - 1].method
  /\ walk' = [of |-> c, name |-> n, at |-> c] /\ found' = Nothing
  /\ UNCHANGED <<prog, phase, at, next, superclass, globals, scope, chain, errors>>

FindHere ==
  /\ walk # Idle /\ Declares(walk.at, walk.name)
  /\ found' = [of |-> walk.of, name |-> walk.name, class |-> walk.at,
               member |-> First(walk.at, walk.name)]
  /\ walk' = Idle
  /\ UNCHANGED <<prog, phase, at, next, superclass, globals, scope, chain, errors>>

FindAbove ==
  /\ walk # Idle /\ ~Declares(walk.at, walk.name) /\ SuperClass(walk.at) # None
  /\ walk' = [walk EXCEPT !.at = SuperClass(walk.at)]
  /\ UNCHANGED <<prog, phase, at, next, superclass, globals, scope, chain, errors, found>>

\* Mutant: only the class itself and its super-class are searched.
FindNothingFar ==
  /\ walk # Idle /\ ~Declares(walk.at, walk.name)
  /\ SuperClass(walk.at) = None \/ walk.at # walk.of
  /\ found' = [Nothing EXCEPT !.of = walk.of, !.name = walk.name]
  /\ walk' = Idle
  /\ UNCHANGED <<prog, phase, at, next, superclass, globals, scope, chain, errors>>

FindNothing ==
  /\ walk # Idle /\ ~Declares(walk.at, walk.name) /\ SuperClass(walk.at) = None
  /\ found' = [Nothing EXCEPT !.of = walk.of, !.name = walk.name]
  /\ walk' = Idle
  /\ UNCHANGED <<prog, phase, at, next, superclass, globals, scope, chain, errors>>

Find == FindHere \/ FindAbove \/ FindNothing

ClassNext ==
  \/ DeclareClass \/ EndDeclare \/ EnterClass \/ DeclareMember \/ EndMembers
  \/ VisitMember \/ LeaveClass \/ EndClasses
  \/ \E c \in globals, n \in MemberNames : Access(c, n)
  \/ Find

\* One thread runs the analysis, so a search under way goes on.
ClassSpec == ClassInit /\ [][ClassNext]_classVars /\ WF_classVars(Find)

-----------------------------------------------------------------------------
(* Properties.                                                             *)

Phases == {"declare", "enter", "members", "visit", "program"}
Classes == Ids \cup PredefinedClasses

\* What the resolver may hold under a name: a class of that name or a member of
\* the class that is open.
Holds(n, d) ==
  \/ d \in Classes /\ NameOf(d) = n
  \/ /\ d = Member /\ phase \in {"members", "visit"}
     /\ \E m \in scope : prog[at].members[m].name = n

\* Under a name the resolver holds the classes of that name and members of the
\* open class, nothing of a class that was left; and a class that is declared
\* is there, so between two classes it is found under its name.
ResolverInv ==
  /\ phase \in Phases /\ at \in 1 .. Len(prog) + 1 /\ next \in Nat \ {0}
  /\ superclass \in Classes \cup {None} /\ globals \subseteq Classes
  /\ walk.at \in Classes \cup {None} /\ \A e \in errors : e.class \in Ids
  /\ \A n \in AllNames : \A i \in 1 .. Len(chain[n]) : Holds(n, chain[n][i])
  /\ \A c \in globals : \E i \in 1 .. Len(chain[NameOf(c)]) :
       chain[NameOf(c)][i] # Member

\* The class rules, read off the text.
Named(n) == {c \in Classes : NameOf(c) = n}
Earlier(c) == {s \in Named(prog[c].super) : s \in 1 .. c \cup {ObjectClass}}
Overrides(c, m) ==
  m.name # "__init__" =>
    \A s \in Earlier(c) : \A j \in 1 .. Len(Members(s)) :
      Members(s)[j].name = m.name =>
        /\ m.method /\ Members(s)[j].method
        /\ Signature(m) = Signature(Members(s)[j])
TakesSelf(c, m) ==
  m.method => /\ m.params # <<>>
              /\ m.params[1] = [name |-> "self", type |-> prog[c].name]
InitParams(c, m) ==
  m.method /\ m.name = "__init__" =>
    \A a \in 1 .. Len(Members(c)), j \in 1 .. Len(m.params) :
      ~Members(c)[a].method =>
        <<Members(c)[a].name, Members(c)[a].type>>
          # <<m.params[j].name, m.params[j].type>>
MemberRules(c, i) ==
  LET m == Members(c)[i] IN
  /\ Named(m.name) = {} /\ \A j \in 1 .. i - 1 : Members(c)[j].name # m.name
  /\ TakesSelf(c, m) /\ Overrides(c, m) /\ InitParams(c, m)
Rules(c) ==
  /\ Named(prog[c].name) = {c} /\ Earlier(c) # {}
  /\ \A i \in 1 .. Len(Members(c)) : MemberRules(c, i)

\* A program has no class error if and only if its classes follow the rules:
\* names are distinct, a super-class comes before (or is the class itself),
\* and members agree with those of the super-class; neither the chains as they
\* grow from class to class nor members that stay undeclared change that.
AcceptsWhatFollowsTheRules ==
  phase = "program" => (errors = {} <=> \A c \in Ids : Rules(c))

\* No two classes have one name and no member has that of a class.
Distinct ==
  \A c \in Ids : /\ Named(prog[c].name) = {c}
                 /\ \A i \in 1 .. Len(Members(c)) : Named(Members(c)[i].name) = {}

\* The super-classes of the text, level by level; the last one repeats one if
\* they form a cycle.
Above(c) ==
  IF c = ObjectClass THEN {} ELSE Named(IF c = IntClass THEN "object" ELSE prog[c].super)
AboveAll(S) == UNION {Above(d) : d \in S}
Levels == 0 .. Len(prog) + 1
Level(c) ==
  LET level[k \in Levels] == IF k = 0 THEN {c} ELSE AboveAll(level[k - 1])
  IN  level
DeclaredAt(c, n, k) == \E d \in Level(c)[k] : Declares(d, n)

Nearest(f) ==
  IF \E k \in Levels : DeclaredAt(f.of, f.name, k)
  THEN \E k \in Levels :
         /\ f.class \in Level(f.of)[k] /\ \A j \in 0 .. k - 1 : ~DeclaredAt(f.of, f.name, j)
         /\ Members(f.class)[f.member].name = f.name
  ELSE f.class = None

\* With distinct names a search finds the member of the nearest class that has
\* one, by the super-classes of the text, and fails only if none has.
NearestFound == found # Nothing /\ Distinct => Nearest(found)

\* A search ends, unless the classes above the one it starts from form a
\* cycle: findDeclaration itself has no bound.
CyclicAbove(c) == Level(c)[Len(prog) + 1] \ {ObjectClass} # {}
SearchEnds == walk # Idle /\ ~CyclicAbove(walk.of) ~> walk = Idle

-----------------------------------------------------------------------------
(* The inductive invariants behind them.                                   *)

Walks == [of : Classes, name : MemberNames, at : Classes]
AtClass == phase \in {"members", "visit"}

ClassTypeOK ==
  /\ IsProgram(prog) /\ phase \in Phases /\ at \in 1 .. Len(prog) + 1
  /\ next \in Nat \ {0} /\ (AtClass => at \in Ids)
  /\ superclass \in Classes \cup {None} /\ globals \in SUBSET Classes
  /\ IF AtClass THEN scope \in SUBSET (1 .. Len(prog[at].members)) ELSE scope = {}
  /\ chain \in [AllNames -> Seq(Classes \cup {Member})]
  /\ walk \in Walks \cup {Idle}

MembersOnTop ==
  \A n \in AllNames : \A i, j \in 1 .. Len(chain[n]) :
    i < j /\ chain[n][i] = Member => chain[n][j] = Member

ClassInv == ClassTypeOK /\ MembersOnTop /\ ResolverInv

\* With distinct names every class comes into the global scope, and a search is
\* as far up as the levels it has left, none of whose classes has the member.
SearchAt(w, k) ==
  Level(w.of)[k] = {w.at} /\ \A j \in 0 .. k - 1 : ~DeclaredAt(w.of, w.name, j)
DeclaredClasses ==
  IF phase = "declare" THEN PredefinedClasses \cup 1 .. at - 1 ELSE Classes
SearchInv ==
  /\ ClassInv /\ (phase = "declare" => walk = Idle)
  /\ Distinct =>
       /\ globals = DeclaredClasses
       /\ walk # Idle => \E k \in Levels : SearchAt(walk, k)
  /\ NearestFound

\* How often a class is under its name: once, and twice when it was entered.
Entered(c) == phase # "declare" /\ (c < at \/ (c = at /\ AtClass))
Own(c) == IF c \in Ids /\ Entered(c) THEN <<c, c>> ELSE <<c>>

\* What the checks of a member have established.
MemberChecked(c, s, i) ==
  LET m == Members(c)[i] IN
  /\ Named(m.name) = {} /\ \A j \in 1 .. i - 1 : Members(c)[j].name # m.name
  /\ TakesSelf(c, m) /\ InitParams(c, m)
  /\ m.name # "__init__" /\ Declares(s, m.name) =>
       LET o == Members(s)[First(s, m.name)] IN
       m.method /\ o.method /\ Signature(m) = Signature(o)

\* While there is no error everything seen so far follows the rules.
DeclaredSoFar ==
  /\ globals = PredefinedClasses \cup 1 .. at - 1
  /\ \A c, d \in globals : NameOf(c) = NameOf(d) => c = d
  /\ \A c \in globals : chain[NameOf(c)] = <<c>>
  /\ \A n \in AllNames : chain[n] # <<>> => \E c \in globals : NameOf(c) = n
CheckedSoFar ==
  /\ globals = Classes /\ \A c, d \in Classes : NameOf(c) = NameOf(d) => c = d
  /\ \A c \in Classes : chain[NameOf(c)] = Own(c)
  /\ \A c \in 1 .. at - 1 : Rules(c)
  /\ AtClass => Earlier(at) = {superclass}
  /\ phase = "members" =>
       /\ next <= Len(Members(at)) + 1 /\ scope = 1 .. next - 1
       /\ \A i \in 1 .. next - 1 : MemberChecked(at, superclass, i)
  /\ phase = "visit" => Rules(at) /\ scope = 1 .. Len(Members(at))
  /\ phase = "program" => at \notin Ids

RulesInv ==
  /\ ClassInv
  /\ IF errors # {} THEN \E c \in Ids : ~Rules(c)
     ELSE IF phase = "declare" THEN DeclaredSoFar ELSE CheckedSoFar
=============================================================================
