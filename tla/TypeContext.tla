---------------------------- MODULE TypeContext ----------------------------
(***************************************************************************)
(* Value types (ASTContext.cpp, Type.cppm).  Sema compares types by their  *)
(* addresses, which is right only if the context hands out one object for  *)
(* each type: it keeps a table from class names to types and one from      *)
(* element types to list types.                                            *)
(*                                                                         *)
(* An address is the number of an allocation; 0 is the null pointer.       *)
(***************************************************************************)
EXTENDS Integers

CONSTANTS
  ClassNames,   \* the names a program uses in annotations
  MaxTypes,     \* bound: allocations
  MaxBrackets   \* bound: the nesting of an annotation

\* The types initPredefinedTypes allocates, in its order.
Predefined == <<"object", "int", "str", "bool", "<None>", "<Empty>">>
ObjectTy == 1
IntTy == 2
StrTy == 3
BoolTy == 4
NoneTy == 5
EmptyTy == 6

Names == ClassNames \cup {Predefined[i] : i \in 1 .. 6}
NoName == "<list>"    \* in the place of the name of a list
Null == 0
Ptr == 1 .. MaxTypes

ASSUME BoundsAssumption == MaxTypes \in Nat /\ MaxTypes >= 6 /\ MaxBrackets \in Nat
ASSUME NamesAssumption == NoName \notin Names

VARIABLES
  types,      \* the objects allocated
  used,       \* their number
  classVTypes, listVTypes,   \* the two tables
  asked,      \* the annotation converted last: a name in brackets
  brackets,   \* list types still to be put around the result
  result      \* the type returned last

vars == <<types, used, classVTypes, listVTypes, asked, brackets, result>>

ClassNode(n) == [name |-> n, elem |-> Null]
ListNode(p) == [name |-> NoName, elem |-> p]
Free == ListNode(Null)
Node == [name : Names \cup {NoName}, elem : Ptr \cup {Null}]

Allocated == 1 .. used
IsList(p) == types[p].elem # Null

\* initPredefinedTypes
Init ==
  /\ types = [p \in Ptr |-> IF p <= 6 THEN ClassNode(Predefined[p]) ELSE Free]
  /\ used = 6
  /\ classVTypes = [n \in Names |-> IF \E i \in 1 .. 6 : Predefined[i] = n
                                    THEN CHOOSE i \in 1 .. 6 : Predefined[i] = n
                                    ELSE Null]
  /\ listVTypes = [p \in Ptr |-> Null]
  /\ asked = [name |-> "object", depth |-> 0] /\ brackets = 0
  /\ result = ObjectTy

-----------------------------------------------------------------------------
(* The two lookups that allocate.                                          *)

Create(node) ==
  /\ used < MaxTypes
  /\ used' = used + 1
  /\ types' = [types EXCEPT ![used + 1] = node]
  /\ result' = used + 1

\* Mutant: a new object every time.
GetClassVTypeAnew(n) ==
  /\ Create(ClassNode(n))
  /\ classVTypes' = [classVTypes EXCEPT ![n] = used + 1]

GetClassVType(n) ==
  IF classVTypes[n] # Null
  THEN result' = classVTypes[n] /\ UNCHANGED <<types, used, classVTypes>>
  ELSE /\ Create(ClassNode(n))
       /\ classVTypes' = [classVTypes EXCEPT ![n] = used + 1]

\* Mutant: the table is asked for the list of the list.
GetListVTypeMiskeyed(p) ==
  IF listVTypes[p] # Null
  THEN result' = p /\ UNCHANGED <<types, used, listVTypes>>
  ELSE /\ Create(ListNode(p))
       /\ listVTypes' = [listVTypes EXCEPT ![p] = used + 1]

GetListVType(p) ==
  IF listVTypes[p] # Null
  THEN result' = listVTypes[p] /\ UNCHANGED <<types, used, listVTypes>>
  ELSE /\ Create(ListNode(p))
       /\ listVTypes' = [listVTypes EXCEPT ![p] = used + 1]

-----------------------------------------------------------------------------
(* The clients.                                                            *)

\* convertAnnotationToVType, the innermost call: a class name.
ConvertClass(n, depth) ==
  /\ brackets = 0
  /\ asked' = [name |-> n, depth |-> depth] /\ brackets' = depth
  /\ GetClassVType(n) /\ UNCHANGED listVTypes

\* The calls around it, from the inside out: a pair of brackets each.
ConvertList ==
  /\ brackets > 0
  /\ brackets' = brackets - 1
  /\ GetListVType(result) /\ UNCHANGED <<classVTypes, asked>>

\* The type of a list display or of a sum of lists.
InferList(p) ==
  /\ brackets = 0
  /\ GetListVType(p)
  /\ asked' = [name |-> NoName, depth |-> 0] /\ UNCHANGED <<classVTypes, brackets>>

Next ==
  \/ \E n \in Names, d \in 0 .. MaxBrackets : ConvertClass(n, d)
  \/ ConvertList
  \/ \E p \in Allocated : InferList(p)

Spec == Init /\ [][Next]_vars

-----------------------------------------------------------------------------
(* Assignment compatibility.                                               *)

\* Mutant: the element types of lists are not compared.
IsAnyListCompatible(sub, super) ==
  \/ sub = super
  \/ sub = NoneTy /\ super \notin {IntTy, StrTy, BoolTy}
  \/ sub # NoneTy /\ IsList(super) /\ (sub = EmptyTy \/ IsList(sub))

\* isAssignementCompatibility
IsAssignmentCompatibility(sub, super) ==
  \/ sub = super
  \/ sub = NoneTy /\ super \notin {IntTy, StrTy, BoolTy}
  \/ /\ sub # NoneTy /\ IsList(super)
     /\ sub = EmptyTy \/ (IsList(sub) /\ types[sub].elem = NoneTy)

-----------------------------------------------------------------------------
(* Properties.                                                             *)

\* Types and bounds of the variables; no lookup returns null.
TypeOK ==
  /\ types \in [Ptr -> Node]
  /\ used \in 6 .. MaxTypes
  /\ classVTypes \in [Names -> Ptr \cup {Null}]
  /\ listVTypes \in [Ptr -> Ptr \cup {Null}]
  /\ asked \in [name : Names \cup {NoName}, depth : Nat]
  /\ brackets \in Nat
  /\ result \in Allocated

\* Two different objects are never the same type, so that comparing addresses
\* in checkAssignment, checkParams, actOnBinaryExpr and isInt compares types.
TypesUnique ==
  \A p, q \in Allocated : types[p] = types[q] => p = q

\* What a type is: a class name in so many brackets.
Spelled[p \in Ptr] ==
  IF IsList(p)
  THEN [Spelled[types[p].elem] EXCEPT !.depth = @ + 1]
  ELSE [name |-> types[p].name, depth |-> 0]

\* A converted annotation is the type that was written, however many of its
\* parts were in the tables before.
AnnotationConverted ==
  brackets = 0 /\ asked.name # NoName => Spelled[result] = asked

\* The names of the predefined classes lead to the objects that the accessors
\* getIntTy and so on return: `x:int` and the type of 1 are one object.
PredefinedShared ==
  \A p \in Allocated, i \in 1 .. 6 : types[p] = ClassNode(Predefined[i]) => p = i

\* Compatibility is a partial order on the types there are: no two types accept
\* each other's values, and what an intermediate variable may pass on can be
\* assigned directly.
CompatibilityIsOrder ==
  \A p, q \in Allocated :
    /\ IsAssignmentCompatibility(p, p)
    /\ IsAssignmentCompatibility(p, q) /\ IsAssignmentCompatibility(q, p) => p = q
    /\ IsAssignmentCompatibility(p, q) =>
         \A r \in Allocated :
           IsAssignmentCompatibility(q, r) => IsAssignmentCompatibility(p, r)

\* The inductive invariant: the tables and the objects describe each other.
ClassTableInv ==
  \A n \in Names : classVTypes[n] # Null =>
    classVTypes[n] \in Allocated /\ types[classVTypes[n]] = ClassNode(n)

ListTableInv ==
  \A p \in Ptr : listVTypes[p] # Null =>
    /\ p \in Allocated /\ listVTypes[p] \in Allocated
    /\ types[listVTypes[p]] = ListNode(p)

ObjectsInv ==
  \A p \in Allocated :
    IF types[p].elem = Null
    THEN types[p].name \in Names /\ classVTypes[types[p].name] = p
    ELSE /\ types[p].name = NoName /\ types[p].elem < p
         /\ listVTypes[types[p].elem] = p

PredefinedInv == \A i \in 1 .. 6 : types[i] = ClassNode(Predefined[i])

\* The inductive invariant behind the uniqueness of types: everything allocated
\* is in the table for its kind, and an element type is older than its list.
ContextInv ==
  TypeOK /\ ClassTableInv /\ ListTableInv /\ ObjectsInv /\ PredefinedInv

\* What is not allocated is no list yet.
FreeInv == \A p \in Ptr \ Allocated : types[p].elem = Null

\* A conversion under way has reached the type within the brackets still to be
\* put around it.
ConversionUnderWay ==
  asked.name # NoName =>
    /\ brackets <= asked.depth
    /\ Spelled[result] = [name |-> asked.name, depth |-> asked.depth - brackets]

\* The inductive invariant of what an annotation becomes.
ConversionInv == ContextInv /\ FreeInv /\ ConversionUnderWay
=============================================================================
