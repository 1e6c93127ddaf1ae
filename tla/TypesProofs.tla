----------------------------- MODULE TypesProofs -----------------------------
(***************************************************************************)
(* Types are unique and an annotation becomes its type, for any program    *)
(* and number of types; the checks of class definitions and the search for *)
(* a member are those of the text, for any classes.                        *)
(***************************************************************************)
EXTENDS TypeContext, ClassHierarchy, Counting, TLAPS

LEMMA PredefinedFacts ==
  /\ \A i \in 1 .. 6 : Predefined[i] \in Names
  /\ \A i, j \in 1 .. 6 : Predefined[i] = Predefined[j] => i = j
BY DEF Names, Predefined

\* The tables as initPredefinedTypes fills them.
LEMMA InitContext == Init => ContextInv
<1> SUFFICES ASSUME Init PROVE ContextInv
  OBVIOUS
<1>0. used = 6 /\ types = [p \in Ptr |-> IF p <= 6 THEN ClassNode(Predefined[p])
                                                    ELSE Free]
  BY DEF Init
<1>1. 1 .. 6 \subseteq Ptr /\ Allocated = 1 .. 6
  <2>1. \A i \in 1 .. 6 : i \in 1 .. MaxTypes
    BY BoundsAssumption
  <2> QED BY <1>0, <2>1 DEF Ptr, Allocated
<1> USE PredefinedFacts
<1>2. \A i \in 1 .. 6 : classVTypes[Predefined[i]] = i
  BY DEF Init
<1>3. \A n \in Names : classVTypes[n] # Null =>
        classVTypes[n] \in 1 .. 6 /\ Predefined[classVTypes[n]] = n
  BY DEF Init, Null
<1>4. \A i \in 1 .. 6 : types[i] = ClassNode(Predefined[i])
  BY <1>0, <1>1
<1>5. TypeOK
  <2>1. types \in [Ptr -> Node]
    <3>1. \A i \in 1 .. 6 : ClassNode(Predefined[i]) \in Node
      BY DEF Node, ClassNode
    <3>2. Free \in Node
      BY DEF Free, ListNode, Node
    <3>3. \A p \in Ptr : p <= 6 => p \in 1 .. 6
      BY DEF Ptr
    <3> QED BY <1>0, <3>1, <3>2, <3>3
  <2>2. classVTypes \in [Names -> Ptr \cup {Null}]
    <3>1. \A n \in Names : classVTypes[n] \in Ptr \cup {Null}
      BY <1>1, <1>3
    <3>2. classVTypes = [n \in Names |-> classVTypes[n]]
      BY DEF Init
    <3> QED BY <3>1, <3>2
  <2>3. listVTypes \in [Ptr -> Ptr \cup {Null}]
    BY DEF Init
  <2>4. asked \in [name : Names \cup {NoName}, depth : Nat]
    <3>1. "object" \in Names
      BY DEF Predefined
    <3> QED BY <3>1 DEF Init
  <2>5. used \in 6 .. MaxTypes /\ brackets \in Nat /\ result \in Allocated
    BY <1>0, <1>1, BoundsAssumption DEF Init, ObjectTy
  <2> QED BY <2>1, <2>2, <2>3, <2>4, <2>5 DEF TypeOK
<1>6. ClassTableInv
  BY <1>1, <1>3, <1>4 DEF ClassTableInv
<1>7. ListTableInv
  BY DEF Init, ListTableInv
<1>8. ObjectsInv
  BY <1>1, <1>2, <1>4 DEF ObjectsInv, ClassNode, Null
<1> QED BY <1>4, <1>5, <1>6, <1>7, <1>8 DEF ContextInv, PredefinedInv

-----------------------------------------------------------------------------
\* A look-up by class name keeps tables and objects in agreement.
LEMMA ClassStep ==
  ASSUME ContextInv, NEW n \in Names, GetClassVType(n), UNCHANGED listVTypes,
         asked' \in [name : Names \cup {NoName}, depth : Nat], brackets' \in Nat
  PROVE  ContextInv'
<1> USE BoundsAssumption DEF ContextInv
<1>1. CASE classVTypes[n] # Null
  <2>1. UNCHANGED <<types, used, classVTypes, listVTypes>>
        /\ result' = classVTypes[n]
    BY <1>1 DEF GetClassVType
  <2>2. Allocated' = Allocated /\ result' \in Allocated
    BY <1>1, <2>1 DEF Allocated, ClassTableInv
  <2> QED BY <2>1, <2>2 DEF TypeOK, ClassTableInv, ListTableInv, ObjectsInv,
                            PredefinedInv
<1>2. CASE classVTypes[n] = Null
  <2>1. /\ used < MaxTypes /\ used' = used + 1 /\ result' = used + 1
        /\ types' = [types EXCEPT ![used + 1] = ClassNode(n)]
        /\ classVTypes' = [classVTypes EXCEPT ![n] = used + 1]
    BY <1>2 DEF GetClassVType, Create
  <2>2. used + 1 \in Ptr /\ Allocated \subseteq Ptr /\ used + 1 \notin Allocated
        /\ Allocated' = Allocated \cup {used + 1}
    BY <2>1 DEF TypeOK, Allocated, Ptr
  <2>3. TypeOK'
    BY <2>1, <2>2 DEF TypeOK, Node, ClassNode, Null
  <2>4. /\ \A p \in Allocated : types'[p] = types[p]
        /\ types'[used + 1] = ClassNode(n)
    BY <2>1, <2>2 DEF TypeOK
  <2>5. ClassTableInv'
    BY <2>1, <2>2, <2>4 DEF TypeOK, ClassTableInv
  <2>6. ListTableInv'
    BY <2>1, <2>2, <2>4 DEF ListTableInv
  <2>7. ObjectsInv'
    <3>1. \A p \in Allocated : types[p].elem = Null => types[p].name # n
      <4> SUFFICES ASSUME NEW p \in Allocated, types[p].elem = Null
                   PROVE  types[p].name # n
        OBVIOUS
      <4>1. classVTypes[types[p].name] = p
        BY DEF ObjectsInv
      <4>2. p # Null
        BY DEF Allocated, Null
      <4> QED BY <1>2, <4>1, <4>2
    <3>2. ASSUME NEW p \in Allocated
          PROVE  IF types'[p].elem = Null
                 THEN types'[p].name \in Names /\ classVTypes'[types'[p].name] = p
                 ELSE /\ types'[p].name = NoName /\ types'[p].elem < p
                      /\ listVTypes'[types'[p].elem] = p
      BY <2>1, <2>4, <3>1 DEF TypeOK, ObjectsInv
    <3>3. /\ types'[used + 1].elem = Null /\ types'[used + 1].name = n
          /\ classVTypes'[n] = used + 1
      BY <2>1, <2>4 DEF TypeOK, ClassNode
    <3> QED BY <2>2, <3>2, <3>3 DEF ObjectsInv
  <2>8. PredefinedInv'
    BY <2>2, <2>4 DEF PredefinedInv, TypeOK, Allocated
  <2> QED BY <2>3, <2>5, <2>6, <2>7, <2>8
<1> QED BY <1>1, <1>2

\* So does a look-up by element type.
LEMMA ListStep ==
  ASSUME ContextInv, NEW e \in Allocated, GetListVType(e), UNCHANGED classVTypes,
         asked' \in [name : Names \cup {NoName}, depth : Nat], brackets' \in Nat
  PROVE  ContextInv'
<1> USE BoundsAssumption DEF ContextInv
<1>1. CASE listVTypes[e] # Null
  <2>1. UNCHANGED <<types, used, classVTypes, listVTypes>>
        /\ result' = listVTypes[e]
    BY <1>1 DEF GetListVType
  <2>2. Allocated' = Allocated /\ result' \in Allocated
    BY <1>1, <2>1 DEF TypeOK, Allocated, Ptr, ListTableInv
  <2> QED BY <2>1, <2>2 DEF TypeOK, ClassTableInv, ListTableInv, ObjectsInv,
                            PredefinedInv
<1>2. CASE listVTypes[e] = Null
  <2>1. /\ used < MaxTypes /\ used' = used + 1 /\ result' = used + 1
        /\ types' = [types EXCEPT ![used + 1] = ListNode(e)]
        /\ listVTypes' = [listVTypes EXCEPT ![e] = used + 1]
    BY <1>2 DEF GetListVType, Create
  <2>2. used + 1 \in Ptr /\ Allocated \subseteq Ptr /\ used + 1 \notin Allocated
        /\ Allocated' = Allocated \cup {used + 1}
    BY <2>1 DEF TypeOK, Allocated, Ptr
  <2>3. TypeOK'
    BY <2>1, <2>2 DEF TypeOK, Node, ListNode
  <2>4. /\ \A p \in Allocated : types'[p] = types[p]
        /\ types'[used + 1] = ListNode(e)
    BY <2>1, <2>2 DEF TypeOK
  <2>5. ClassTableInv'
    BY <2>1, <2>2, <2>4 DEF ClassTableInv
  <2>6. ListTableInv'
    BY <2>1, <2>2, <2>4 DEF TypeOK, ListTableInv
  <2>7. ObjectsInv'
    <3>1. \A p \in Allocated : types[p].elem # Null => types[p].elem # e
      <4> SUFFICES ASSUME NEW p \in Allocated, types[p].elem # Null, types[p].elem = e
                   PROVE  FALSE
        OBVIOUS
      <4>1. listVTypes[types[p].elem] = p
        BY DEF ObjectsInv
      <4>2. p = Null
        BY <1>2, <4>1
      <4>3. Null \notin Ptr
        BY DEF Null, Ptr
      <4> QED BY <2>2, <4>2, <4>3
    <3>2. ASSUME NEW p \in Allocated
          PROVE  IF types'[p].elem = Null
                 THEN types'[p].name \in Names /\ classVTypes'[types'[p].name] = p
                 ELSE /\ types'[p].name = NoName /\ types'[p].elem < p
                      /\ listVTypes'[types'[p].elem] = p
      BY <2>1, <2>4, <3>1 DEF TypeOK, ObjectsInv
    <3>3. /\ types'[used + 1].elem = e /\ types'[used + 1].name = NoName
          /\ e # Null /\ e < used + 1 /\ listVTypes'[e] = used + 1
      BY <2>1, <2>2, <2>4 DEF TypeOK, ListNode, Allocated, Null
    <3> QED BY <2>2, <3>2, <3>3 DEF ObjectsInv
  <2>8. PredefinedInv'
    BY <2>2, <2>4 DEF PredefinedInv, TypeOK, Allocated
  <2> QED BY <2>3, <2>5, <2>6, <2>7, <2>8
<1> QED BY <1>1, <1>2

\* Every step, of whichever client, keeps the invariant.
LEMMA ContextStep == ContextInv /\ [Next]_vars => ContextInv'
<1> SUFFICES ASSUME ContextInv, [Next]_vars PROVE ContextInv'
  OBVIOUS
<1>1. ASSUME NEW n \in Names, NEW d \in 0 .. MaxBrackets, ConvertClass(n, d)
      PROVE  ContextInv'
  <2>1. asked' \in [name : Names \cup {NoName}, depth : Nat] /\ brackets' \in Nat
    BY <1>1, BoundsAssumption DEF ConvertClass
  <2> QED BY <1>1, <2>1, ClassStep DEF ConvertClass
<1>2. CASE ConvertList
  <2>1. /\ asked' \in [name : Names \cup {NoName}, depth : Nat] /\ brackets' \in Nat
        /\ result \in Allocated
    BY <1>2 DEF ConvertList, ContextInv, TypeOK
  <2> QED BY <1>2, <2>1, ListStep DEF ConvertList
<1>3. ASSUME NEW p \in Allocated, InferList(p)
      PROVE  ContextInv'
  <2>1. asked' \in [name : Names \cup {NoName}, depth : Nat] /\ brackets' \in Nat
    BY <1>3 DEF InferList, ContextInv, TypeOK
  <2> QED BY <1>3, <2>1, ListStep DEF InferList
<1>4. CASE UNCHANGED vars
  BY <1>4 DEF vars, ContextInv, TypeOK, ClassTableInv, ListTableInv, ObjectsInv,
              PredefinedInv, Allocated
<1> QED BY <1>1, <1>2, <1>3, <1>4 DEF Next

\* The tables of ASTContext.cpp:176-189 and the objects always agree.
THEOREM ContextInvariant == Spec => []ContextInv
<1> QED BY InitContext, ContextStep, PTL DEF Spec

-----------------------------------------------------------------------------
\* What the tables agree on makes types unique.
LEMMA InvUnique == ContextInv => TypesUnique
BY DEF ContextInv, ObjectsInv, TypesUnique

\* Comparing addresses compares types, for any number of types.
THEOREM TypesAreUnique == Spec => []TypesUnique
<1> QED BY ContextInvariant, InvUnique, PTL

\* A predefined name leads to the object its accessor returns.
THEOREM PredefinedAreShared == Spec => []PredefinedShared
<1>1. ContextInv => PredefinedShared
  <2> SUFFICES ASSUME ContextInv, NEW p \in Allocated, NEW i \in 1 .. 6,
                      types[p] = ClassNode(Predefined[i])
               PROVE  p = i
    BY DEF PredefinedShared
  <2>1. i \in Allocated
    BY DEF ContextInv, TypeOK, Allocated
  <2> QED BY <2>1, InvUnique DEF TypesUnique, ContextInv, PredefinedInv
<1> QED BY <1>1, ContextInvariant, PTL

\* Assignment compatibility (ASTContext.cpp:209) is a partial order.
THEOREM CompatibilityOrder == Spec => []CompatibilityIsOrder
<1>1. ContextInv => CompatibilityIsOrder
  <2> SUFFICES ASSUME ContextInv PROVE CompatibilityIsOrder
    OBVIOUS
  <2>1. ~IsList(IntTy) /\ ~IsList(StrTy) /\ ~IsList(BoolTy) /\ ~IsList(NoneTy)
        /\ ~IsList(EmptyTy)
    BY DEF ContextInv, PredefinedInv, ClassNode, Null, IsList, IntTy, StrTy,
           BoolTy, NoneTy, EmptyTy
  <2>2. \A p, q \in Allocated :
          IsList(p) /\ IsList(q) /\ types[p].elem = types[q].elem => p = q
    BY DEF ContextInv, ObjectsInv, IsList
  <2>3. ASSUME NEW p \in Allocated, NEW q \in Allocated,
               IsAssignmentCompatibility(p, q), IsAssignmentCompatibility(q, p)
        PROVE  p = q
    BY <2>1, <2>2, <2>3 DEF IsAssignmentCompatibility
  <2>4. ASSUME NEW p \in Allocated, NEW q \in Allocated, NEW r \in Allocated,
               IsAssignmentCompatibility(p, q), IsAssignmentCompatibility(q, r)
        PROVE  IsAssignmentCompatibility(p, r)
    BY <2>1, <2>2, <2>4 DEF IsAssignmentCompatibility
  <2>5. \A p \in Allocated : IsAssignmentCompatibility(p, p)
    BY DEF IsAssignmentCompatibility
  <2> QED BY <2>3, <2>4, <2>5 DEF CompatibilityIsOrder
<1> QED BY <1>1, ContextInvariant, PTL

-----------------------------------------------------------------------------
(* What an annotation becomes.  Spelled is a recursion over element types; *)
(* that each is older than its list makes it one that ends.                *)

\* An element type is older than its list.
OlderElements(T) ==
  \A p \in Ptr : T[p].elem # Null => T[p].elem \in Ptr /\ T[p].elem < p

Spelling(T, f, p) ==
  IF T[p].elem # Null
  THEN [f[T[p].elem] EXCEPT !.depth = @ + 1]
  ELSE [name |-> T[p].name, depth |-> 0]

\* So every type is spelled in one way: the recursion ends.
LEMMA SpellingExists ==
  ASSUME NEW T, OlderElements(T)
  PROVE  \E f : f = [p \in Ptr |-> Spelling(T, f, p)]
<1> DEFINE Upto(n, f) == f = [p \in 1 .. n |-> Spelling(T, f, p)]
           Bad == {n \in Nat : n <= MaxTypes /\ ~ \E f : Upto(n, f)}
<1>1. Bad = {}
  <2> SUFFICES ASSUME Bad # {} PROVE FALSE
    OBVIOUS
  <2>1. PICK n \in Bad : \A m \in Bad : n <= m
    <3>1. Bad \in SUBSET Nat
      OBVIOUS
    <3> HIDE DEF Bad
    <3> QED BY <3>1, LeastNat
  <2>2. CASE n = 0
    <3>1. Upto(0, [p \in 1 .. 0 |-> 0])
      OBVIOUS
    <3> QED BY <2>1, <2>2, <3>1
  <2>3. CASE n # 0
    <3>1. n \in Nat /\ n <= MaxTypes /\ n - 1 \in Nat /\ n - 1 <= MaxTypes
          /\ n - 1 \notin Bad /\ n \in Ptr
      BY <2>1, <2>3, BoundsAssumption DEF Ptr
    <3>2. PICK g : Upto(n - 1, g)
      BY <3>1
    <3> DEFINE h == [p \in 1 .. n |-> IF p < n THEN g[p] ELSE Spelling(T, g, n)]
    <3>3. \A p \in 1 .. n : T[p].elem # Null => T[p].elem \in 1 .. n - 1 /\ T[p].elem < p
      BY <3>1, BoundsAssumption DEF OlderElements, Ptr
    <3>4. \A p \in 1 .. n : Spelling(T, h, p) = Spelling(T, g, p)
      <4>1. \A q \in 1 .. n - 1 : h[q] = g[q]
        BY <3>1
      <4> HIDE DEF h
      <4>2. ASSUME NEW p \in 1 .. n PROVE Spelling(T, h, p) = Spelling(T, g, p)
        <5>1. CASE T[p].elem # Null
          <6>1. h[T[p].elem] = g[T[p].elem]
            BY <3>3, <4>1, <5>1
          <6> QED BY <5>1, <6>1, Zenon DEF Spelling
        <5>2. CASE T[p].elem = Null
          BY <5>2 DEF Spelling
        <5> QED BY <5>1, <5>2
      <4> QED BY <4>2
    <3>5. \A p \in 1 .. n : p < n => p \in 1 .. n - 1 /\ g[p] = Spelling(T, g, p)
      <4>1. \A p \in 1 .. n : p < n => p \in 1 .. n - 1
        BY <3>1
      <4>2. \A p \in 1 .. n - 1 : g[p] = Spelling(T, g, p)
        BY <3>2, Zenon
      <4> QED BY <4>1, <4>2
    <3>6. \A p \in 1 .. n : h[p] = Spelling(T, g, p)
      <4>1. \A p \in 1 .. n : p < n \/ p = n
        BY <3>1
      <4> QED BY <3>5, <4>1
    <3>7. h = [p \in 1 .. n |-> Spelling(T, h, p)]
      <4>1. h = [p \in 1 .. n |-> h[p]]
        OBVIOUS
      <4> HIDE DEF h
      <4> QED BY <3>4, <3>6, <4>1
    <3>8. Upto(n, h)
      <4> HIDE DEF h
      <4> QED BY <3>7
    <3> HIDE DEF Upto
    <3> QED BY <2>1, <3>8
  <2> QED BY <2>2, <2>3
<1>2. \E f : Upto(MaxTypes, f)
  BY <1>1, BoundsAssumption
<1> QED BY <1>2 DEF Ptr



LEMMA Older == ContextInv /\ FreeInv => OlderElements(types)
BY DEF ContextInv, TypeOK, Node, ObjectsInv, OlderElements, Allocated, Ptr, Null, FreeInv

LEMMA SpelledAs ==
  ASSUME OlderElements(types)
  PROVE  \A p \in Ptr : Spelled[p] = Spelling(types, Spelled, p)
<1>1. PICK f : f = [p \in Ptr |-> Spelling(types, f, p)]
  BY SpellingExists
<1>2. Spelled = [p \in Ptr |-> Spelling(types, Spelled, p)]
  BY <1>1, Zenon DEF Spelled, Spelling, IsList
<1> QED BY <1>2

LEMMA SpelledAsPrimed ==
  ASSUME OlderElements(types')
  PROVE  \A p \in Ptr : Spelled'[p] = Spelling(types', Spelled', p)
<1>1. PICK f : f = [p \in Ptr |-> Spelling(types', f, p)]
  BY SpellingExists
<1>2. Spelled' = [p \in Ptr |-> Spelling(types', Spelled', p)]
  BY <1>1, Zenon DEF Spelled, Spelling, IsList
<1> QED BY <1>2

\* What is allocated later is spelled of what was there: no spelling changes.
LEMMA SpelledStays ==
  ASSUME OlderElements(types), OlderElements(types'),
         NEW S \in SUBSET Ptr,
         \A p \in S : types'[p] = types[p] /\ (types[p].elem # Null => types[p].elem \in S)
  PROVE  \A p \in S : Spelled'[p] = Spelled[p]
<1> DEFINE Bad == {p \in S : Spelled'[p] # Spelled[p]}
<1> SUFFICES ASSUME Bad # {} PROVE FALSE
  OBVIOUS
<1>0. Ptr \subseteq Nat
  BY BoundsAssumption DEF Ptr
<1>1. PICK p \in Bad : \A q \in Bad : p <= q
  <2>1. Bad \in SUBSET Nat
    BY <1>0, Zenon
  <2> HIDE DEF Bad
  <2> QED BY <2>1, LeastNat
<1>2. /\ Spelled[p] = Spelling(types, Spelled, p)
      /\ Spelled'[p] = Spelling(types', Spelled', p)
  BY SpelledAs, SpelledAsPrimed
<1>3. CASE types[p].elem = Null
  BY <1>1, <1>2, <1>3 DEF Spelling
<1>4. CASE types[p].elem # Null
  <2>1. /\ types'[p] = types[p] /\ types[p].elem \in S /\ types[p].elem < p
    BY <1>4 DEF OlderElements
  <2>2. Spelled'[types[p].elem] = Spelled[types[p].elem]
    <3>1. types[p].elem \in Bad => FALSE
      <4>1. p \in Nat /\ types[p].elem \in Nat
        BY <1>0, <1>1, <2>1, Zenon
      <4> HIDE DEF Bad
      <4> QED BY <1>1, <2>1, <4>1
    <3> QED BY <2>1, <3>1
  <2>3. Spelled'[p] = Spelled[p]
    BY <1>2, <1>4, <2>1, <2>2, Zenon DEF Spelling
  <2> QED BY <1>1, <2>3
<1> QED BY <1>3, <1>4

\* A look-up leaves what was allocated alone, and frees nothing.
LEMMA LookupKeeps ==
  ASSUME ContextInv, ContextInv', FreeInv, NEW node \in Node,
         \/ UNCHANGED <<types, used>>
         \/ Create(node)
  PROVE  /\ FreeInv' /\ OlderElements(types) /\ OlderElements(types')
         /\ \A p \in Allocated : p \in Ptr /\ Spelled'[p] = Spelled[p]
<1>0. used \in 6 .. MaxTypes /\ types \in [Ptr -> Node]
  BY DEF ContextInv, TypeOK
<1>1. \A p \in Allocated : p \in Ptr /\ types'[p] = types[p]
  BY <1>0, BoundsAssumption DEF Allocated, Ptr, Create
<1>2. FreeInv'
  <2>1. CASE UNCHANGED <<types, used>>
    BY <2>1 DEF FreeInv, Allocated
  <2>2. CASE Create(node)
    BY <1>0, <2>2, BoundsAssumption DEF Create, FreeInv, Allocated, Ptr
  <2> QED BY <2>1, <2>2
<1>3. OlderElements(types) /\ OlderElements(types')
  <2>1. OlderElements(types)
    BY Older
  <2>2. OlderElements(types')
    BY <1>2, BoundsAssumption
       DEF ContextInv, TypeOK, Node, ObjectsInv, OlderElements, Allocated, Ptr, Null, FreeInv
  <2> QED BY <2>1, <2>2
<1>4. \A p \in Allocated : types[p].elem # Null => types[p].elem \in Allocated
  BY <1>0, <1>1 DEF ContextInv, TypeOK, ObjectsInv, Node, Allocated, Null, Ptr
<1>5. \A p \in Allocated : Spelled'[p] = Spelled[p]
  <2>1. Allocated \in SUBSET Ptr
    BY <1>1
  <2> QED BY <1>1, <1>3, <1>4, <2>1, SpelledStays
<1> QED BY <1>1, <1>2, <1>3, <1>5

LEMMA ConversionStep == ConversionInv /\ [Next]_vars => ConversionInv'
<1> SUFFICES ASSUME ConversionInv, [Next]_vars PROVE ConversionInv'
  OBVIOUS
<1>0. ContextInv /\ FreeInv /\ ConversionUnderWay /\ ContextInv'
  BY ContextStep DEF ConversionInv
<1>t. /\ used \in 6 .. MaxTypes /\ result \in Allocated /\ result' \in Allocated'
      /\ brackets \in Nat /\ asked \in [name : Names \cup {NoName}, depth : Nat]
      /\ Allocated \subseteq Ptr /\ Allocated' \subseteq Ptr
  BY <1>0, BoundsAssumption DEF ContextInv, TypeOK, Allocated, Ptr
<1>1. ASSUME NEW n \in Names, NEW d \in 0 .. MaxBrackets, ConvertClass(n, d)
      PROVE  ConversionInv'
  <2>1. GetClassVType(n) /\ asked' = [name |-> n, depth |-> d] /\ brackets' = d
    BY <1>1 DEF ConvertClass
  <2>2. ClassNode(n) \in Node /\ (UNCHANGED <<types, used>> \/ Create(ClassNode(n)))
    BY <2>1 DEF GetClassVType, ClassNode, Node
  <2>3. FreeInv' /\ OlderElements(types')
    BY <1>0, <2>2, LookupKeeps
  <2>4. types'[result'] = ClassNode(n)
    <3>1. CASE classVTypes[n] # Null
      BY <1>0, <2>1, <3>1 DEF GetClassVType, ContextInv, ClassTableInv
    <3>2. CASE classVTypes[n] = Null
      BY <1>0, <1>t, <2>1, <3>2 DEF GetClassVType, Create, ContextInv, TypeOK
    <3> QED BY <3>1, <3>2
  <2>5. Spelled'[result'] = [name |-> n, depth |-> 0]
    <3>1. Spelled'[result'] = Spelling(types', Spelled', result')
      BY <1>t, <2>3, SpelledAsPrimed
    <3> QED BY <2>4, <3>1 DEF Spelling, ClassNode
  <2>6. ConversionUnderWay'
    BY <2>1, <2>5, BoundsAssumption DEF ConversionUnderWay
  <2> QED BY <1>0, <2>3, <2>6 DEF ConversionInv
<1>2. CASE ConvertList
  <2>1. GetListVType(result) /\ brackets > 0 /\ brackets' = brackets - 1 /\ asked' = asked
    BY <1>2 DEF ConvertList
  <2>2. ListNode(result) \in Node /\ (UNCHANGED <<types, used>> \/ Create(ListNode(result)))
    BY <1>t, <2>1 DEF GetListVType, ListNode, Node
  <2>3. FreeInv' /\ OlderElements(types') /\ Spelled'[result] = Spelled[result]
    BY <1>0, <1>t, <2>2, LookupKeeps
  <2>4. types'[result'] = ListNode(result)
    <3>1. CASE listVTypes[result] # Null
      BY <1>0, <1>t, <2>1, <3>1 DEF GetListVType, ContextInv, ListTableInv
    <3>2. CASE listVTypes[result] = Null
      BY <1>0, <1>t, <2>1, <3>2 DEF GetListVType, Create, ContextInv, TypeOK
    <3> QED BY <3>1, <3>2
  <2>5. Spelled'[result'] = [Spelled[result] EXCEPT !.depth = @ + 1]
    <3>1. Spelled'[result'] = Spelling(types', Spelled', result')
      BY <1>t, <2>3, SpelledAsPrimed
    <3>2. result # Null
      BY <1>t DEF Allocated, Null
    <3>3. types'[result'].elem = result
      BY <2>4 DEF ListNode
    <3> QED BY <2>3, <3>1, <3>2, <3>3, Zenon DEF Spelling
  <2>6. ConversionUnderWay'
    <3>1. SUFFICES ASSUME asked.name # NoName
                   PROVE  /\ brackets' <= asked.depth
                          /\ Spelled'[result'] =
                               [name |-> asked.name, depth |-> asked.depth - brackets']
      BY <2>1 DEF ConversionUnderWay
    <3>2. /\ brackets <= asked.depth
          /\ Spelled[result] = [name |-> asked.name, depth |-> asked.depth - brackets]
      BY <1>0, <3>1 DEF ConversionUnderWay
    <3>3. Spelled'[result'] = [name |-> asked.name, depth |-> asked.depth - brackets + 1]
      BY <2>5, <3>2
    <3>4. asked.depth \in Nat /\ asked.depth - brackets + 1 = asked.depth - brackets'
      BY <1>t, <2>1
    <3> QED BY <1>t, <2>1, <3>2, <3>3, <3>4
  <2> QED BY <1>0, <2>3, <2>6 DEF ConversionInv
<1>3. ASSUME NEW p \in Allocated, InferList(p)
      PROVE  ConversionInv'
  <2>1. GetListVType(p) /\ asked' = [name |-> NoName, depth |-> 0]
    BY <1>3 DEF InferList
  <2>2. ListNode(p) \in Node /\ (UNCHANGED <<types, used>> \/ Create(ListNode(p)))
    BY <1>t, <2>1 DEF GetListVType, ListNode, Node
  <2>3. FreeInv'
    BY <1>0, <2>2, LookupKeeps
  <2>4. ConversionUnderWay'
    BY <2>1 DEF ConversionUnderWay
  <2> QED BY <1>0, <2>3, <2>4 DEF ConversionInv
<1>4. CASE UNCHANGED vars
  <2>1. /\ types' = types /\ used' = used /\ asked' = asked /\ brackets' = brackets
        /\ result' = result
    BY <1>4 DEF vars
  <2>2. Free \in Node /\ UNCHANGED <<types, used>>
    BY <2>1 DEF Free, ListNode, Node
  <2>3. FreeInv' /\ Spelled'[result] = Spelled[result]
    BY <1>0, <1>t, <2>2, LookupKeeps
  <2>4. ConversionUnderWay'
    BY <1>0, <2>1, <2>3 DEF ConversionUnderWay
  <2> QED BY <1>0, <2>3, <2>4 DEF ConversionInv
<1> QED BY <1>1, <1>2, <1>3, <1>4 DEF Next

LEMMA InitConversion == Init => ConversionInv
<1> SUFFICES ASSUME Init PROVE ConversionInv
  OBVIOUS
<1>1. ContextInv
  BY InitContext
<1>2. FreeInv
  BY BoundsAssumption DEF Init, FreeInv, Free, ListNode, Allocated, Ptr
<1>3. Spelled[ObjectTy] = Spelling(types, Spelled, ObjectTy)
  <2>1. ObjectTy \in Ptr
    BY BoundsAssumption DEF ObjectTy, Ptr
  <2> QED BY <1>1, <1>2, <2>1, Older, SpelledAs
<1>4. Spelled[ObjectTy] = [name |-> "object", depth |-> 0]
  <2>1. types[1].elem = Null /\ types[1].name = "object"
    BY <1>1 DEF ContextInv, PredefinedInv, Predefined, ClassNode, Null
  <2> QED BY <1>3, <2>1 DEF Spelling, ObjectTy
<1>5. ConversionUnderWay
  BY <1>4 DEF Init, ConversionUnderWay
<1> QED BY <1>1, <1>2, <1>5 DEF ConversionInv

\* What a conversion has built so far, for any names and any nesting.
THEOREM ConversionInvariant == Spec => []ConversionInv
<1> QED BY InitConversion, ConversionStep, PTL DEF Spec

\* An annotation becomes the type that was written.
THEOREM AnnotationBecomesItsType == Spec => []AnnotationConverted
<1>1. ConversionInv => AnnotationConverted
  <2> SUFFICES ASSUME ConversionInv, brackets = 0, asked.name # NoName
               PROVE  Spelled[result] = asked
    BY DEF AnnotationConverted
  <2>1. asked \in [name : Names \cup {NoName}, depth : Nat]
    BY DEF ConversionInv, ContextInv, TypeOK
  <2>2. Spelled[result] = [name |-> asked.name, depth |-> asked.depth - 0]
    BY DEF ConversionInv, ConversionUnderWay
  <2>3. asked.depth - 0 = asked.depth /\ asked = [name |-> asked.name, depth |-> asked.depth]
    BY <2>1
  <2> QED BY <2>2, <2>3
<1> QED BY <1>1, ConversionInvariant, PTL

-----------------------------------------------------------------------------
(* Classes and their members in the resolver.                              *)

\* Classes, their names and their members.
LEMMA ClassFacts ==
  ASSUME IsProgram(prog)
  PROVE  /\ Len(prog) \in Nat /\ Ids \subseteq Nat \ {0} /\ Classes \subseteq Int
         /\ ObjectClass \in Classes /\ IntClass \in Classes
         /\ None \notin Classes /\ Member \notin Classes /\ None # Member
         /\ NameOf(ObjectClass) = "object" /\ NameOf(IntClass) = "int"
         /\ \A c \in Ids : /\ c \in Classes /\ c \notin PredefinedClasses
                           /\ NameOf(c) = prog[c].name /\ prog[c].name \in AllNames
                           /\ prog[c].super \in AllNames
                           /\ Members(c) = prog[c].members /\ Members(c) \in Seq(MemberDecls)
         /\ \A c \in Classes : NameOf(c) \in AllNames
<1> USE DEF ObjectClass, IntClass, None, Member
<1>1. Len(prog) \in Nat /\ Ids \subseteq Nat \ {0}
  BY DEF IsProgram, Ids
<1>2. \A c \in Ids : prog[c] \in [name : AllNames, super : AllNames, members : Seq(MemberDecls)]
  BY ElementOfSeq DEF IsProgram, Ids
<1>3. \A c \in Ids : c # ObjectClass /\ c # IntClass
  BY <1>1
<1>4. \A c \in Ids : /\ c \in Classes /\ c \notin PredefinedClasses
                     /\ NameOf(c) = prog[c].name /\ prog[c].name \in AllNames
                     /\ prog[c].super \in AllNames
                     /\ Members(c) = prog[c].members /\ Members(c) \in Seq(MemberDecls)
  BY <1>2, <1>3 DEF Classes, PredefinedClasses, NameOf, Members
<1>5. NameOf(ObjectClass) = "object" /\ NameOf(IntClass) = "int"
  BY DEF NameOf
<1>6. \A c \in Classes : NameOf(c) \in AllNames
  BY <1>4, <1>5 DEF Classes, PredefinedClasses, AllNames
<1>7. Classes \subseteq Int /\ ObjectClass \in Classes /\ IntClass \in Classes
  BY <1>1 DEF Classes, PredefinedClasses
<1>8. None \notin Classes /\ Member \notin Classes /\ None # Member
  BY <1>1 DEF Classes, PredefinedClasses
<1> QED BY <1>1, <1>4, <1>5, <1>6, <1>7, <1>8

\* What is on top of a chain, as a class.
LEMMA TopFacts ==
  ASSUME IsProgram(prog), NEW q \in Seq(Classes \cup {Member})
  PROVE  /\ ClassOnTop(q) \in Classes \cup {None}
         /\ q = <<>> => Head1(q) = None
         /\ q # <<>> => Len(q) \in Nat \ {0} /\ Head1(q) = q[Len(q)]
         /\ Head1(q) \in Classes \cup {None, Member}
<1>1. q # <<>> => Len(q) \in Nat \ {0} /\ q[Len(q)] \in Classes \cup {Member}
  BY EmptySeq, ElementOfSeq
<1> QED BY <1>1, ClassFacts DEF ClassOnTop, Head1

\* In a chain one declaration is added at the end.
LEMMA PushFacts ==
  ASSUME ClassTypeOK, NEW n \in AllNames, NEW d \in Classes \cup {Member}
  PROVE  LET q == Pushed(n, d) IN
         /\ q \in [AllNames -> Seq(Classes \cup {Member})]
         /\ Len(q[n]) = Len(chain[n]) + 1 /\ q[n][Len(chain[n]) + 1] = d
         /\ q[n] # <<>> /\ q[n] = Append(chain[n], d)
         /\ \A m \in AllNames : m # n => q[m] = chain[m]
         /\ \A m \in AllNames : Len(chain[m]) \in Nat
         /\ \A m \in AllNames : \A i \in 1 .. Len(chain[m]) : q[m][i] = chain[m][i]
<1> DEFINE S == Classes \cup {Member}  q == Pushed(n, d)
<1>1. chain \in [AllNames -> Seq(S)] /\ d \in S
  BY DEF ClassTypeOK
<1> HIDE DEF S
<1>2. q[n] = Append(chain[n], d) /\ \A m \in AllNames : m # n => q[m] = chain[m]
  BY <1>1 DEF Pushed
<1>3. /\ Append(chain[n], d) \in Seq(S) /\ Len(Append(chain[n], d)) = Len(chain[n]) + 1
      /\ Append(chain[n], d)[Len(chain[n]) + 1] = d /\ Append(chain[n], d) # <<>>
      /\ \A i \in 1 .. Len(chain[n]) : Append(chain[n], d)[i] = chain[n][i]
  BY <1>1, AppendProperties
<1>4. q \in [AllNames -> Seq(S)]
  BY <1>1, <1>3 DEF Pushed
<1> HIDE DEF q
<1>5. \A m \in AllNames : Len(chain[m]) \in Nat
  BY <1>1
<1>6. \A m \in AllNames : \A i \in 1 .. Len(chain[m]) : q[m][i] = chain[m][i]
  BY <1>2, <1>3
<1> QED BY <1>2, <1>3, <1>4, <1>5, <1>6 DEF q, S

\* The entries of the chains after that.
LEMMA PushedEntries ==
  ASSUME ClassTypeOK, MembersOnTop, NEW n \in AllNames, NEW d \in Classes \cup {Member},
         chain' = Pushed(n, d),
         d = Member \/ \A i \in 1 .. Len(chain[n]) : chain[n][i] # Member
  PROVE  /\ chain' \in [AllNames -> Seq(Classes \cup {Member})] /\ MembersOnTop'
         /\ \A m \in AllNames : \A i \in 1 .. Len(chain'[m]) :
              \/ i \in 1 .. Len(chain[m]) /\ chain'[m][i] = chain[m][i]
              \/ m = n /\ chain'[m][i] = d
         /\ \A m \in AllNames : \A i \in 1 .. Len(chain[m]) :
              i \in 1 .. Len(chain'[m]) /\ chain'[m][i] = chain[m][i]
         /\ \E i \in 1 .. Len(chain'[n]) : chain'[n][i] = d
<1>1. /\ chain' \in [AllNames -> Seq(Classes \cup {Member})]
      /\ Len(chain'[n]) = Len(chain[n]) + 1 /\ chain'[n][Len(chain[n]) + 1] = d
      /\ chain'[n] # <<>>
      /\ \A m \in AllNames : m # n => chain'[m] = chain[m]
      /\ \A m \in AllNames : Len(chain[m]) \in Nat
      /\ \A m \in AllNames : \A i \in 1 .. Len(chain[m]) : chain'[m][i] = chain[m][i]
  BY PushFacts
<1>2. \A i \in 1 .. Len(chain'[n]) : i \in 1 .. Len(chain[n]) \/ i = Len(chain[n]) + 1
  BY <1>1
<1>3. \A m \in AllNames : \A i \in 1 .. Len(chain'[m]) :
        \/ i \in 1 .. Len(chain[m]) /\ chain'[m][i] = chain[m][i]
        \/ m = n /\ chain'[m][i] = d
  BY <1>1, <1>2
<1>4. MembersOnTop'
  <2> SUFFICES ASSUME NEW m \in AllNames, NEW i \in 1 .. Len(chain'[m]),
                      NEW j \in 1 .. Len(chain'[m]), i < j, chain'[m][i] = Member
               PROVE  chain'[m][j] = Member
    BY DEF MembersOnTop, AllNames
  <2>1. CASE m # n
    BY <1>1, <2>1 DEF MembersOnTop
  <2>2. CASE m = n /\ j \in 1 .. Len(chain[n])
    <3>1. i \in 1 .. Len(chain[n]) /\ chain'[n][i] = chain[n][i] /\ chain'[n][j] = chain[n][j]
      BY <1>1, <2>2
    <3> QED BY <2>2, <3>1 DEF MembersOnTop
  <2>3. CASE m = n /\ j = Len(chain[n]) + 1
    <3>1. i \in 1 .. Len(chain[n]) /\ chain'[n][i] = chain[n][i] /\ chain'[n][j] = d
      BY <1>1, <2>3
    <3> QED BY <2>3, <3>1
  <2> QED BY <1>2, <2>1, <2>2, <2>3
<1> QED BY <1>1, <1>3, <1>4

\* Errors are reported of the class the analysis is at.
LEMMA ErrorsAtClass ==
  ASSUME NEW m
  PROVE  \A e \in MemberErrors(m) : e.class = at
<1>1. ASSUME NEW k, NEW i, NEW ok PROVE \A e \in Error(k, i) \cup Unless(ok, k) : e.class = at
  BY DEF Error, Unless
<1>2. \A e \in OverrideErrors(m) : e.class = at
  BY DEF OverrideErrors, Error, Unless
<1>3. \A e \in InitErrors(m) \cup FirstParamErrors(m) : e.class = at
  BY DEF InitErrors, FirstParamErrors, Error, Unless
<1> QED BY <1>2, <1>3 DEF MemberErrors

\* A step that leaves the chains and the open class alone.
LEMMA ChainsKept ==
  ASSUME ClassInv, ClassTypeOK', UNCHANGED <<prog, globals, scope, chain>>,
         AtClass' <=> AtClass, AtClass => at' = at,
         \A e \in errors' : e \in errors \/ e.class \in Ids
  PROVE  ClassInv'
<1>1. Classes' = Classes /\ Ids' = Ids /\ \A c : NameOf(c)' = NameOf(c)
  BY DEF Classes, Ids, NameOf
<1>2. \A n, d : Holds(n, d) => Holds(n, d)'
  BY <1>1 DEF Holds, AtClass
<1>3. MembersOnTop'
  BY DEF ClassInv, MembersOnTop, AllNames
<1>4. ResolverInv'
  BY <1>1, <1>2 DEF ClassInv, ResolverInv, ClassTypeOK, Walks, Idle, AllNames
<1> QED BY <1>3, <1>4 DEF ClassInv

\* A step that adds a class or a member to a chain.
LEMMA ChainsPushed ==
  ASSUME ClassInv, ClassTypeOK', UNCHANGED prog, AtClass => AtClass' /\ at' = at,
         NEW n \in AllNames, NEW d \in Classes \cup {Member}, chain' = Pushed(n, d),
         d = Member \/ ~AtClass,
         scope \subseteq scope', Holds(n, d)',
         \A c \in globals' : c \in globals \/ (c = d /\ n = NameOf(c)),
         \A e \in errors' : e \in errors \/ e.class \in Ids
  PROVE  ClassInv'
<1>1. Classes' = Classes /\ Ids' = Ids /\ \A c : NameOf(c)' = NameOf(c)
  BY DEF Classes, Ids, NameOf
<1>2. ClassTypeOK /\ MembersOnTop /\ ResolverInv /\ IsProgram(prog)
  BY DEF ClassInv, ClassTypeOK
<1>3. \A m, k : Holds(m, k) => Holds(m, k)'
  BY <1>1 DEF Holds, AtClass
<1>4. d = Member \/ \A i \in 1 .. Len(chain[n]) : chain[n][i] # Member
  <2> SUFFICES ASSUME ~AtClass, NEW i \in 1 .. Len(chain[n]), chain[n][i] = Member
               PROVE  FALSE
    OBVIOUS
  <2>1. Holds(n, Member)
    BY <1>2 DEF ResolverInv
  <2> QED BY <1>2, <2>1, ClassFacts DEF Holds, AtClass
<1>5. /\ MembersOnTop'
      /\ \A m \in AllNames : \A i \in 1 .. Len(chain'[m]) :
           \/ i \in 1 .. Len(chain[m]) /\ chain'[m][i] = chain[m][i]
           \/ m = n /\ chain'[m][i] = d
      /\ \A m \in AllNames : \A i \in 1 .. Len(chain[m]) :
           i \in 1 .. Len(chain'[m]) /\ chain'[m][i] = chain[m][i]
      /\ \E i \in 1 .. Len(chain'[n]) : chain'[n][i] = d
  BY <1>2, <1>4, PushedEntries
<1>6. \A m \in AllNames : \A i \in 1 .. Len(chain'[m]) : Holds(m, chain[m][i])'
  <2> TAKE m \in AllNames
  <2> TAKE i \in 1 .. Len(chain'[m])
  <2>1. PICK k : k = chain'[m][i]
    OBVIOUS
  <2>2. (k = d /\ m = n) \/ Holds(m, k)
    BY <1>2, <1>5, <2>1 DEF ResolverInv
  <2>3. Holds(m, k)'
    BY <1>3, <2>2
  <2> QED BY <2>1, <2>3 DEF Holds
<1>7. \A c \in globals' : \E i \in 1 .. Len(chain'[NameOf(c)]) : chain'[NameOf(c)][i] # Member
  <2> TAKE c \in globals'
  <2>1. c \in Classes /\ NameOf(c) \in AllNames /\ c # Member
    BY <1>1, <1>2, ClassFacts DEF ClassTypeOK
  <2>2. CASE c \in globals
    <3>1. PICK i \in 1 .. Len(chain[NameOf(c)]) : chain[NameOf(c)][i] # Member
      BY <1>2, <2>2 DEF ResolverInv
    <3>2. i \in 1 .. Len(chain'[NameOf(c)]) /\ chain'[NameOf(c)][i] = chain[NameOf(c)][i]
      BY <1>5, <2>1
    <3> QED BY <3>1, <3>2
  <2>3. CASE c = d /\ n = NameOf(c)
    BY <1>5, <2>1, <2>3
  <2> QED BY <2>2, <2>3
<1>8. ResolverInv'
  <2>1. \A e \in errors' : e.class \in Ids
    BY <1>2 DEF ResolverInv
  <2>2. /\ phase' \in Phases /\ at' \in 1 .. Len(prog') + 1 /\ next' \in Nat \ {0}
        /\ superclass' \in Classes \cup {None} /\ globals' \subseteq Classes
        /\ walk'.at \in Classes \cup {None}
    BY <1>1 DEF ClassTypeOK, Walks, Idle
  <2> QED BY <1>1, <1>6, <1>7, <2>1, <2>2 DEF ResolverInv, AllNames
<1> QED BY <1>5, <1>8 DEF ClassInv

LEMMA DeclareClassKeeps ==
  ASSUME ClassInv, DeclareClass
  PROVE  ClassInv'
<1>1. IsProgram(prog) /\ at \in Ids /\ at \in Classes /\ NameOf(at) \in AllNames /\ ~AtClass
  BY ClassFacts DEF ClassInv, ClassTypeOK, DeclareClass, AtClass
<1>2. Classes' = Classes /\ Ids' = Ids /\ \A c : NameOf(c)' = NameOf(c)
  BY DEF DeclareClass, Classes, Ids, NameOf
<1>3. at' \in 1 .. Len(prog') + 1 /\ ~AtClass' /\ phase' \in Phases
  BY <1>1, ClassFacts DEF DeclareClass, AtClass, Ids, Phases
<1>4. CASE \E c \in globals : NameOf(c) = NameOf(at)
  <2>1. errors' = errors \cup Error("dup", 0) /\ UNCHANGED <<prog, globals, scope, chain>>
    BY <1>4 DEF DeclareClass, Report
  <2>2. \A e \in Error("dup", 0) : e.class = at
    BY DEF Error
  <2>3. ClassTypeOK'
    BY <1>1, <1>2, <1>3, <2>1 DEF ClassInv, ClassTypeOK, DeclareClass, Walks
  <2> QED BY <1>1, <1>3, <2>1, <2>2, <2>3, ChainsKept
<1>5. CASE ~ \E c \in globals : NameOf(c) = NameOf(at)
  <2>1. /\ globals' = globals \cup {at} /\ chain' = Pushed(NameOf(at), at)
        /\ errors' = errors /\ scope' = scope /\ prog' = prog
    BY <1>5 DEF DeclareClass
  <2>2. chain' \in [AllNames -> Seq(Classes \cup {Member})]
    BY <1>1, <2>1, PushFacts DEF ClassInv
  <2>3. ClassTypeOK'
    BY <1>1, <1>2, <1>3, <2>1, <2>2 DEF ClassInv, ClassTypeOK, DeclareClass, Walks
  <2>4. PICK c, n : c = at /\ n = NameOf(at)
    OBVIOUS
  <2>5. Holds(n, c)'
    BY <1>1, <1>2, <2>4 DEF Holds
  <2>6. c \in Classes /\ n \in AllNames /\ chain' = Pushed(n, c) /\ n = NameOf(c)
    BY <1>1, <2>1, <2>4
  <2>7. \A k \in globals' : k \in globals \/ (k = c /\ n = NameOf(k))
    BY <2>1, <2>4
  <2> QED BY <1>1, <2>1, <2>3, <2>5, <2>6, <2>7, ChainsPushed
<1> QED BY <1>4, <1>5

LEMMA EnterClassKeeps ==
  ASSUME ClassInv, EnterClass
  PROVE  ClassInv'
<1>1. /\ IsProgram(prog) /\ ClassTypeOK /\ at \in Ids /\ at \in Classes
      /\ NameOf(at) \in AllNames /\ prog[at].super \in AllNames /\ ~AtClass
  BY ClassFacts DEF ClassInv, ClassTypeOK, EnterClass, AtClass
<1>2. Classes' = Classes /\ Ids' = Ids /\ \A c : NameOf(c)' = NameOf(c)
  BY DEF EnterClass, Classes, Ids, NameOf
<1>3. /\ chain' = Pushed(NameOf(at), at) /\ errors' = errors \cup SuperErrors(chain')
      /\ superclass' = ClassOnTop(chain'[prog[at].super]) /\ phase' \in {"members", "visit"}
      /\ next' = 1 /\ UNCHANGED <<prog, at, globals, scope, walk, found>>
  BY DEF EnterClass, Report
<1>4. chain' \in [AllNames -> Seq(Classes \cup {Member})]
  BY <1>1, <1>3, PushFacts
<1>5. superclass' \in Classes \cup {None}
  BY <1>1, <1>3, <1>4, TopFacts
<1>6. \A e \in SuperErrors(chain') : e.class = at
  BY DEF SuperErrors, Error
<1>7. scope' = {} /\ AtClass' /\ phase' \in Phases
  BY <1>1, <1>3 DEF ClassTypeOK, AtClass, Phases
<1>8. ClassTypeOK'
  BY <1>1, <1>2, <1>3, <1>4, <1>5, <1>7 DEF ClassTypeOK, Walks
<1>9. PICK c, n : c = at /\ n = NameOf(at)
  OBVIOUS
<1>10. Holds(n, c)'
  BY <1>1, <1>2, <1>9 DEF Holds
<1>11. c \in Classes /\ n \in AllNames /\ chain' = Pushed(n, c)
  BY <1>1, <1>3, <1>9
<1>12. \A e \in errors' : e \in errors \/ e.class \in Ids
  BY <1>1, <1>3, <1>6
<1>13. prog' = prog /\ at' = at /\ scope' = scope /\ globals' = globals
  BY <1>3
<1> QED BY <1>1, <1>8, <1>10, <1>11, <1>12, <1>13, ChainsPushed

\* The member the analysis is at.
LEMMA CurrentFacts ==
  ASSUME ClassInv, AtClass, next <= Len(Members(at))
  PROVE  /\ at \in Ids /\ Members(at) = prog[at].members /\ Current = Members(at)[next]
         /\ next \in 1 .. Len(prog[at].members) /\ Len(prog[at].members) \in Nat
         /\ Current \in MemberDecls /\ Current.name \in AllNames
         /\ scope \in SUBSET (1 .. Len(prog[at].members))
<1>1. ClassTypeOK /\ IsProgram(prog) /\ at \in Ids
  BY DEF ClassInv, ClassTypeOK
<1>2. Members(at) = prog[at].members /\ Members(at) \in Seq(MemberDecls)
  BY <1>1, ClassFacts
<1>3. next \in 1 .. Len(prog[at].members) /\ Len(prog[at].members) \in Nat
  BY <1>1, <1>2 DEF ClassTypeOK
<1>4. Current \in MemberDecls
  BY <1>2, <1>3, ElementOfSeq DEF Current
<1> QED BY <1>1, <1>2, <1>3, <1>4 DEF Current, ClassTypeOK, MemberDecls

\* The member the analysis is at comes into the scope and onto its chain.
LEMMA MemberPushed ==
  ASSUME ClassInv, ClassTypeOK', AtClass, AtClass', next <= Len(Members(at)),
         UNCHANGED <<prog, at, globals>>,
         scope' = scope \cup {next}, chain' = Pushed(Current.name, Member),
         \A e \in errors' : e \in errors \/ e.class \in Ids
  PROVE  ClassInv'
<1>1. PICK n : n = Current.name
  OBVIOUS
<1>2. PICK d : d = Member
  OBVIOUS
<1>3. n \in AllNames /\ Current.name = prog[at].members[next].name
  BY <1>1, CurrentFacts DEF Current
<1>4. Holds(n, d)'
  BY <1>1, <1>2, <1>3 DEF Holds, AtClass
<1>5. chain' = Pushed(n, d) /\ d \in Classes \cup {Member}
  BY <1>1, <1>2
<1> QED BY <1>2, <1>3, <1>4, <1>5, ChainsPushed

LEMMA DeclareMemberKeeps ==
  ASSUME ClassInv, DeclareMember
  PROVE  ClassInv'
<1>1. /\ AtClass /\ phase' = phase /\ next <= Len(Members(at)) /\ next' = next + 1
      /\ UNCHANGED <<prog, phase, at, superclass, globals, walk, found>>
  BY DEF DeclareMember, AtClass
<1>2. AtClass' /\ Classes' = Classes /\ at \in Ids
  BY <1>1, CurrentFacts DEF AtClass, Classes, Ids
<1>3. \A k, ok : \A e \in Error(k, next) \cup Unless(ok, k) : e.class = at
  BY DEF Error, Unless
<1>4. \A e \in errors' : e \in errors \/ e.class \in Ids
  BY <1>2, <1>3, ErrorsAtClass DEF DeclareMember, Report
<1>5. CASE UNCHANGED <<scope, chain>>
  <2>1. ClassTypeOK'
    BY <1>1, <1>2, <1>5 DEF ClassInv, ClassTypeOK, Walks, AtClass, Ids
  <2> QED BY <1>1, <1>2, <1>4, <1>5, <2>1, ChainsKept
<1>6. CASE scope' = scope \cup {next} /\ chain' = Pushed(Current.name, Member)
  <2>1. chain' \in [AllNames -> Seq(Classes \cup {Member})]
    BY <1>1, <1>6, CurrentFacts, PushFacts DEF ClassInv
  <2>2. scope' \in SUBSET (1 .. Len(prog[at].members))
    BY <1>1, <1>6, CurrentFacts
  <2>3. ClassTypeOK'
    BY <1>1, <1>2, <2>1, <2>2 DEF ClassInv, ClassTypeOK, Walks, AtClass, Ids
  <2> QED BY <1>1, <1>2, <1>4, <1>6, <2>3, MemberPushed
<1> QED BY <1>5, <1>6 DEF DeclareMember

LEMMA VisitMemberKeeps ==
  ASSUME ClassInv, VisitMember
  PROVE  ClassInv'
<1>1. /\ AtClass /\ phase' = phase /\ next <= Len(Members(at)) /\ next' = next + 1
      /\ UNCHANGED <<prog, phase, at, superclass, globals, errors, walk>>
  BY DEF VisitMember, AtClass
<1>2. AtClass' /\ Classes' = Classes
  BY <1>1 DEF AtClass, Classes, Ids
<1>3. CASE UNCHANGED <<scope, chain>>
  <2>1. ClassTypeOK'
    BY <1>1, <1>2, <1>3 DEF ClassInv, ClassTypeOK, Walks, AtClass, Ids
  <2> QED BY <1>1, <1>2, <1>3, <2>1, ChainsKept
<1>4. CASE scope' = scope \cup {next} /\ chain' = Pushed(Current.name, Member)
  <2>1. chain' \in [AllNames -> Seq(Classes \cup {Member})]
    BY <1>1, <1>4, CurrentFacts, PushFacts DEF ClassInv
  <2>2. scope' \in SUBSET (1 .. Len(prog[at].members))
    BY <1>1, <1>4, CurrentFacts
  <2>3. ClassTypeOK'
    BY <1>1, <1>2, <2>1, <2>2 DEF ClassInv, ClassTypeOK, Walks, AtClass, Ids
  <2> QED BY <1>1, <1>2, <1>4, <2>3, MemberPushed
<1> QED BY <1>3, <1>4 DEF VisitMember

\* When the members are on top, the chain without them.
LEMMA UncoveredFacts ==
  ASSUME NEW S, NEW q \in Seq(S),
         \A i, j \in 1 .. Len(q) : i < j /\ q[i] = Member => q[j] = Member
  PROVE  LET u == Uncovered(q) IN
         /\ u \in Seq(S) /\ Len(u) <= Len(q)
         /\ \A i \in 1 .. Len(u) : u[i] = q[i] /\ q[i] # Member
         /\ \A i \in 1 .. Len(q) : q[i] # Member => i <= Len(u)
<1> DEFINE Fits(k) == k \in 0 .. Len(q) /\ \A i \in 1 .. Len(q) : q[i] = Member <=> i > k
           k == CHOOSE k \in 0 .. Len(q) : \A i \in 1 .. Len(q) : q[i] = Member <=> i > k
<1>1. Len(q) \in Nat
  OBVIOUS
<1>2. \E l : Fits(l)
  <2> DEFINE T == {l \in Nat : \A i \in 1 .. Len(q) : i > l => q[i] = Member}
  <2>1. Len(q) \in T
    BY <1>1
  <2>2. PICK l \in T : \A m \in T : l <= m
    BY <2>1, LeastNat
  <2>3. l \in Nat /\ l <= Len(q) /\ \A i \in 1 .. Len(q) : i > l => q[i] = Member
    BY <2>1, <2>2
  <2>4. ASSUME NEW i \in 1 .. Len(q), q[i] = Member, i <= l
        PROVE  FALSE
    <3>1. i - 1 \in Nat /\ \A j \in 1 .. Len(q) : j > i - 1 => q[j] = Member
      BY <1>1, <2>4
    <3>2. i - 1 \in T
      BY <3>1
    <3> HIDE DEF T
    <3> QED BY <2>2, <2>3, <2>4, <3>2
  <2>5. \A i \in 1 .. Len(q) : q[i] = Member <=> i > l
    BY <1>1, <2>3, <2>4
  <2> QED BY <1>1, <2>3, <2>5
<1>3. Fits(k)
  BY <1>2, Zenon
<1>4. Uncovered(q) = SubSeq(q, 1, k)
  BY DEF Uncovered
<1> HIDE DEF k
<1>5. /\ SubSeq(q, 1, k) \in Seq(S) /\ Len(SubSeq(q, 1, k)) = k
      /\ \A i \in 1 .. k : SubSeq(q, 1, k)[i] = q[i]
  BY <1>1, <1>3
<1>6. \A i \in 1 .. k : q[i] # Member
  BY <1>1, <1>3
<1> QED BY <1>1, <1>3, <1>4, <1>5, <1>6

LEMMA LeaveClassKeeps ==
  ASSUME ClassInv, LeaveClass
  PROVE  ClassInv'
<1>1. /\ phase = "visit" /\ phase' = "enter" /\ scope' = {} /\ at' = at + 1
      /\ chain' = [n \in AllNames |-> Uncovered(chain[n])]
      /\ UNCHANGED <<prog, next, superclass, globals, errors, walk>>
  BY DEF LeaveClass
<1>2. Classes' = Classes /\ Ids' = Ids /\ \A c : NameOf(c)' = NameOf(c)
  BY <1>1 DEF Classes, Ids, NameOf
<1>3. /\ ClassTypeOK /\ MembersOnTop /\ ResolverInv /\ IsProgram(prog) /\ at \in Ids
      /\ Len(prog) \in Nat
  BY <1>1, ClassFacts DEF ClassInv, ClassTypeOK, AtClass
<1>4. \A n \in AllNames :
        /\ chain'[n] \in Seq(Classes \cup {Member}) /\ Len(chain'[n]) <= Len(chain[n])
        /\ \A i \in 1 .. Len(chain'[n]) : chain'[n][i] = chain[n][i] /\ chain[n][i] # Member
        /\ \A i \in 1 .. Len(chain[n]) : chain[n][i] # Member => i <= Len(chain'[n])
  <2> TAKE n \in AllNames
  <2>1. chain[n] \in Seq(Classes \cup {Member}) /\ chain'[n] = Uncovered(chain[n])
    BY <1>1, <1>3 DEF ClassTypeOK
  <2>2. \A i, j \in 1 .. Len(chain[n]) : i < j /\ chain[n][i] = Member => chain[n][j] = Member
    BY <1>3 DEF MembersOnTop
  <2> QED BY <2>1, <2>2, UncoveredFacts
<1>5. \A n \in AllNames : \A i \in 1 .. Len(chain'[n]) : i \in 1 .. Len(chain[n])
  <2>1. \A n \in AllNames : Len(chain[n]) \in Nat /\ Len(chain'[n]) \in Nat
    BY <1>3, <1>4 DEF ClassTypeOK
  <2> QED BY <1>4, <2>1
<1>6. ClassTypeOK'
  <2>1. chain' \in [AllNames -> Seq(Classes \cup {Member})]
    BY <1>1, <1>4
  <2>2. at' \in 1 .. Len(prog') + 1 /\ ~AtClass' /\ phase' \in Phases
    BY <1>1, <1>3 DEF Ids, AtClass, Phases
  <2> QED BY <1>1, <1>2, <1>3, <2>1, <2>2 DEF ClassTypeOK, Walks
<1>7. MembersOnTop'
  BY <1>4 DEF MembersOnTop, AllNames
<1>8. \A m \in AllNames : \A i \in 1 .. Len(chain'[m]) : Holds(m, chain[m][i])'
  <2> TAKE m \in AllNames
  <2> TAKE i \in 1 .. Len(chain'[m])
  <2>1. PICK k : k = chain'[m][i]
    OBVIOUS
  <2>2. k # Member /\ Holds(m, k)
    BY <1>3, <1>4, <1>5, <2>1 DEF ResolverInv
  <2>3. Holds(m, k)'
    BY <1>2, <2>2 DEF Holds
  <2> QED BY <2>1, <2>3 DEF Holds
<1>9. \A c \in globals' : \E i \in 1 .. Len(chain'[NameOf(c)]) : chain'[NameOf(c)][i] # Member
  <2> TAKE c \in globals'
  <2>1. c \in globals /\ NameOf(c) \in AllNames
    BY <1>1, <1>3, ClassFacts DEF ClassTypeOK
  <2>2. PICK i \in 1 .. Len(chain[NameOf(c)]) : chain[NameOf(c)][i] # Member
    BY <1>3, <2>1 DEF ResolverInv
  <2>3. i <= Len(chain'[NameOf(c)]) /\ Len(chain'[NameOf(c)]) \in Nat
    BY <1>4, <2>1, <2>2
  <2> QED BY <1>4, <2>1, <2>2, <2>3
<1>10. ResolverInv'
  <2>1. \A e \in errors' : e.class \in Ids
    BY <1>1, <1>3 DEF ResolverInv
  <2>2. /\ phase' \in Phases /\ at' \in 1 .. Len(prog') + 1 /\ next' \in Nat \ {0}
        /\ superclass' \in Classes \cup {None} /\ globals' \subseteq Classes
        /\ walk'.at \in Classes \cup {None}
    BY <1>2, <1>6 DEF ClassTypeOK, Walks, Idle
  <2> QED BY <1>2, <1>8, <1>9, <2>1, <2>2 DEF ResolverInv, AllNames
<1> QED BY <1>6, <1>7, <1>10 DEF ClassInv

\* A search: the class it is at stays a class.
LEMMA SearchKeeps ==
  ASSUME ClassInv, Find \/ \E c \in globals, n \in MemberNames : Access(c, n)
  PROVE  ClassInv'
<1>1. ClassTypeOK /\ IsProgram(prog)
  BY DEF ClassInv, ClassTypeOK
<1>2. UNCHANGED <<prog, phase, at, next, superclass, globals, scope, chain, errors>>
  BY DEF Find, FindHere, FindAbove, FindNothing, Access
<1>3. Classes' = Classes /\ (AtClass' <=> AtClass)
  BY <1>2 DEF Classes, Ids, AtClass
<1>4. walk' \in Walks \cup {Idle}
  <2>1. CASE \E c \in globals, n \in MemberNames : Access(c, n)
    BY <1>1, <2>1 DEF Access, Walks, ClassTypeOK
  <2>2. CASE FindHere \/ FindNothing
    BY <2>2 DEF FindHere, FindNothing
  <2>3. CASE FindAbove
    <3>1. walk \in Walks /\ walk' = [walk EXCEPT !.at = SuperClass(walk.at)]
      BY <1>1, <2>3 DEF FindAbove, ClassTypeOK
    <3>2. SuperClass(walk.at) \in Classes \cup {None}
      <4>1. walk.at \in Classes
        BY <3>1 DEF Walks
      <4>2. \A n \in AllNames : ClassOnTop(chain[n]) \in Classes \cup {None}
        BY <1>1, TopFacts DEF ClassTypeOK
      <4>3. walk.at \in Ids => SuperClass(walk.at) = ClassOnTop(chain[prog[walk.at].super])
        <5>1. walk.at \in Ids => walk.at # ObjectClass /\ walk.at # IntClass
          BY <1>1, ClassFacts DEF PredefinedClasses
        <5> QED BY <5>1 DEF SuperClass
      <4>4. SuperClass(ObjectClass) = None /\ SuperClass(IntClass) = ClassOnTop(chain["object"])
        BY DEF SuperClass, ObjectClass, IntClass
      <4>5. "object" \in AllNames
        BY DEF AllNames
      <4>6. walk.at \in Ids \/ walk.at = ObjectClass \/ walk.at = IntClass
        BY <4>1 DEF Classes, PredefinedClasses
      <4> QED BY <1>1, <4>2, <4>3, <4>4, <4>5, <4>6, ClassFacts
    <3>3. SuperClass(walk.at) \in Classes
      BY <2>3, <3>2 DEF FindAbove
    <3> QED BY <3>1, <3>3 DEF Walks
  <2> QED BY <2>1, <2>2, <2>3 DEF Find
<1>5. Walks' = Walks /\ Idle' = Idle
  BY <1>3 DEF Walks, Idle
<1>6. ClassTypeOK'
  <2>1. walk' \in Walks' \cup {Idle'}
    BY <1>4, <1>5
  <2>2. /\ IsProgram(prog)' /\ phase' \in Phases /\ at' \in 1 .. Len(prog') + 1
        /\ next' \in Nat \ {0} /\ (AtClass' => at' \in Ids')
        /\ superclass' \in Classes' \cup {None} /\ globals' \in SUBSET Classes'
        /\ chain' \in [AllNames -> Seq(Classes' \cup {Member})]
    BY <1>1, <1>2, <1>3 DEF ClassTypeOK, Ids
  <2>3. IF AtClass' THEN scope' \in SUBSET (1 .. Len(prog'[at'].members)) ELSE scope' = {}
    BY <1>1, <1>2, <1>3 DEF ClassTypeOK
  <2> QED BY <2>1, <2>2, <2>3 DEF ClassTypeOK, AllNames, Member, None
<1> QED BY <1>2, <1>3, <1>6, ChainsKept

LEMMA ClassInit0 ==
  ASSUME ClassInit
  PROVE  ClassInv
<1>1. /\ IsProgram(prog) /\ phase = "declare" /\ at = 1 /\ next = 1 /\ superclass = None
      /\ globals = PredefinedClasses /\ scope = {} /\ errors = {} /\ walk = Idle
      /\ chain = [n \in AllNames |-> CASE n = "object" -> <<ObjectClass>>
                                       [] n = "int" -> <<IntClass>> [] OTHER -> <<>>]
  BY ProgramsAssumption DEF ClassInit
<1>2. /\ Len(prog) \in Nat /\ ObjectClass \in Classes /\ IntClass \in Classes
      /\ None # Member /\ Member \notin Classes
      /\ NameOf(ObjectClass) = "object" /\ NameOf(IntClass) = "int"
  BY <1>1, ClassFacts
<1>3. /\ chain["object"] = <<ObjectClass>> /\ chain["int"] = <<IntClass>>
      /\ \A n \in AllNames : \/ n = "object" \/ n = "int" \/ chain[n] = <<>>
      /\ "object" \in AllNames /\ "int" \in AllNames
  BY <1>1 DEF AllNames
<1>4. \A S : \A c \in S : <<c>> \in Seq(S) /\ <<>> \in Seq(S)
  OBVIOUS
<1>5. ObjectClass \in Classes \cup {Member} /\ IntClass \in Classes \cup {Member}
  BY <1>2
<1>6. \A n \in AllNames : chain[n] \in Seq(Classes \cup {Member})
  BY ONLY <1>3, <1>4, <1>5, Zenon
<1>7. \A n \in AllNames : \A i \in 1 .. Len(chain[n]) :
        i = 1 /\ chain[n][i] \in Classes /\ NameOf(chain[n][i]) = n
  <2> TAKE n \in AllNames
  <2>1. CASE n = "object"
    <3>1. chain[n] = <<ObjectClass>>
      BY ONLY <1>3, <2>1, Zenon
    <3>2. Len(chain[n]) = 1 /\ chain[n][1] = ObjectClass
      BY ONLY <3>1
    <3> QED BY <1>2, <2>1, <3>2
  <2>2. CASE n = "int"
    <3>1. chain[n] = <<IntClass>>
      BY ONLY <1>3, <2>2, Zenon
    <3>2. Len(chain[n]) = 1 /\ chain[n][1] = IntClass
      BY ONLY <3>1
    <3> QED BY <1>2, <2>2, <3>2
  <2>3. CASE chain[n] = <<>>
    BY <2>3
  <2> QED BY <1>3, <2>1, <2>2, <2>3
<1>8. ClassTypeOK
  <2>1. chain \in [AllNames -> Seq(Classes \cup {Member})]
    BY <1>1, <1>6
  <2>2. ~AtClass /\ phase \in Phases /\ globals \in SUBSET Classes
    BY <1>1 DEF AtClass, Phases, Classes
  <2>3. at \in 1 .. Len(prog) + 1 /\ next \in Nat \ {0} /\ walk \in Walks \cup {Idle}
    BY <1>1, <1>2
  <2> QED BY <1>1, <2>1, <2>2, <2>3 DEF ClassTypeOK
<1>9. MembersOnTop
  BY <1>7 DEF MembersOnTop
<1>10. ResolverInv
  <2>1. \A n \in AllNames : \A i \in 1 .. Len(chain[n]) : Holds(n, chain[n][i])
    BY <1>7 DEF Holds
  <2>2. \A c \in globals : \E i \in 1 .. Len(chain[NameOf(c)]) : chain[NameOf(c)][i] # Member
    <3>1. \A c \in globals : c = ObjectClass \/ c = IntClass
      BY <1>1 DEF PredefinedClasses
    <3>2. \A c \in {ObjectClass, IntClass} : chain[NameOf(c)] = <<c>> /\ c # Member
      BY <1>2, <1>3
    <3> QED BY <3>1, <3>2
  <2> QED BY <1>1, <1>8, <2>1, <2>2 DEF ResolverInv, ClassTypeOK, Idle
<1> QED BY <1>8, <1>9, <1>10 DEF ClassInv

LEMMA ClassInvariant == ClassSpec => []ClassInv
<1>1. ClassInit => ClassInv
  BY ClassInit0
<1>2. ClassInv /\ [ClassNext]_classVars => ClassInv'
  <2> SUFFICES ASSUME ClassInv, [ClassNext]_classVars PROVE ClassInv'
    OBVIOUS
  <2>1. CASE EndDeclare \/ EndMembers \/ EndClasses
    <3>1. /\ UNCHANGED <<prog, superclass, globals, scope, chain, errors, walk>>
          /\ (AtClass' <=> AtClass)
          /\ phase' \in Phases /\ (AtClass => at' = at) /\ (at' = at \/ at' = 1)
          /\ (next' = next \/ next' = 1) /\ Classes' = Classes /\ Ids' = Ids
      BY <2>1 DEF EndDeclare, EndMembers, EndClasses, AtClass, Phases, Classes, Ids
    <3>2. ClassTypeOK /\ Len(prog) \in Nat
      BY ClassFacts DEF ClassInv, ClassTypeOK
    <3>3. at' \in 1 .. Len(prog) + 1 /\ next' \in Nat \ {0}
      BY <3>1, <3>2 DEF ClassTypeOK
    <3>4. ClassTypeOK'
      BY <3>1, <3>2, <3>3 DEF ClassTypeOK, Walks
    <3> QED BY <3>1, <3>4, ChainsKept
  <2>2. CASE UNCHANGED classVars
    <3>1. /\ UNCHANGED <<prog, globals, scope, chain, errors, at>> /\ (AtClass' <=> AtClass)
          /\ ClassTypeOK'
      BY <2>2 DEF classVars, AtClass, ClassInv, ClassTypeOK, Walks, Classes, Ids
    <3> QED BY <3>1, ChainsKept
  <2> QED BY <2>1, <2>2, DeclareClassKeeps, EnterClassKeeps, DeclareMemberKeeps,
             VisitMemberKeeps, LeaveClassKeeps, SearchKeeps DEF ClassNext
<1> QED BY <1>1, <1>2, PTL DEF ClassSpec

\* Under a name the resolver holds the classes of that name and members of the
\* open class, never a member of a class that was left, for any program.
THEOREM ResolverHoldsDeclared == ClassSpec => []ResolverInv
<1>1. ClassInv => ResolverInv
  BY DEF ClassInv
<1> QED BY <1>1, ClassInvariant, PTL

-----------------------------------------------------------------------------
(* What the class checks mean.                                             *)

\* The text of the program, and so its rules, stays the same.
LEMMA TextKept ==
  ASSUME prog' = prog
  PROVE  /\ Classes' = Classes /\ Ids' = Ids /\ \A c : NameOf(c)' = NameOf(c)
         /\ \A c : Members(c)' = Members(c) /\ Earlier(c)' = Earlier(c)
         /\ \A c : Rules(c)' <=> Rules(c)
         /\ \A n : Named(n)' = Named(n)
         /\ \A c, s, i : MemberChecked(c, s, i)' <=> MemberChecked(c, s, i)
<1>1. Classes' = Classes /\ Ids' = Ids /\ \A c : NameOf(c)' = NameOf(c)
  BY DEF Classes, Ids, NameOf
<1>2. \A c : Members(c)' = Members(c)
  BY DEF Members
<1>3. \A n : Named(n)' = Named(n)
  BY <1>1 DEF Named
<1>4. \A c : Earlier(c)' = Earlier(c)
  BY <1>3 DEF Earlier
<1>5. \A c, m : TakesSelf(c, m)' <=> TakesSelf(c, m)
  BY DEF TakesSelf
<1>6. \A c, m : InitParams(c, m)' <=> InitParams(c, m)
  BY <1>2 DEF InitParams
<1>7. \A c, m : Overrides(c, m)' <=> Overrides(c, m)
  BY <1>2, <1>4 DEF Overrides
<1>8. \A c, n : Declares(c, n)' <=> Declares(c, n)
  BY <1>2 DEF Declares
<1>9. \A c, n : First(c, n)' = First(c, n)
  BY <1>2 DEF First
<1>10. \A c, i : MemberRules(c, i)' <=> MemberRules(c, i)
  BY <1>2, <1>3, <1>5, <1>6, <1>7 DEF MemberRules
<1>11. \A c : Rules(c)' <=> Rules(c)
  BY <1>2, <1>3, <1>4, <1>10 DEF Rules
<1>12. \A c, s, i : MemberChecked(c, s, i)' <=> MemberChecked(c, s, i)
  BY <1>2, <1>3, <1>5, <1>6, <1>8, <1>9 DEF MemberChecked
<1> QED BY <1>1, <1>2, <1>3, <1>4, <1>11, <1>12

\* The first member of a name.
LEMMA FirstFacts ==
  ASSUME IsProgram(prog), NEW c \in Classes, NEW n, Declares(c, n)
  PROVE  /\ First(c, n) \in 1 .. Len(Members(c)) /\ Members(c)[First(c, n)].name = n
         /\ \A j \in 1 .. First(c, n) - 1 : Members(c)[j].name # n
<1> DEFINE T == {i \in Nat : i \in 1 .. Len(Members(c)) /\ Members(c)[i].name = n}
<1>1. T # {}
  BY DEF Declares
<1>2. PICK i \in T : \A j \in T : i <= j
  BY <1>1, LeastNat
<1>3. \A j \in 1 .. i - 1 : Members(c)[j].name # n
  <2>1. Len(Members(c)) \in Nat
    BY ClassFacts DEF Classes, Members, PredefinedClasses
  <2> QED BY <1>2, <2>1
<1>4. \E k \in 1 .. Len(Members(c)) :
        Members(c)[k].name = n /\ \A j \in 1 .. k - 1 : Members(c)[j].name # n
  BY <1>2, <1>3
<1> QED BY <1>4, Zenon DEF First

\* A rule about names, once the classes are declared.
LEMMA NamedOne ==
  ASSUME IsProgram(prog), \A c, d \in Classes : NameOf(c) = NameOf(d) => c = d,
         NEW c \in Classes
  PROVE  Named(NameOf(c)) = {c}
  BY DEF Named

\* A step that changes neither what is declared nor what is checked.
LEMMA RulesKept ==
  ASSUME RulesInv, ClassInv', prog' = prog, errors \subseteq errors',
         errors' # {} => errors # {} \/ \E c \in Ids : ~Rules(c),
         errors' = {} => IF phase' = "declare" THEN DeclaredSoFar' ELSE CheckedSoFar'
  PROVE  RulesInv'
  BY TextKept DEF RulesInv

LEMMA DeclareClassRules ==
  ASSUME RulesInv, DeclareClass
  PROVE  RulesInv'
<1>1. /\ ClassInv /\ IsProgram(prog) /\ at \in Ids /\ at \in Classes /\ NameOf(at) \in AllNames
      /\ NameOf(at) = prog[at].name /\ at \notin PredefinedClasses /\ at \in Nat
      /\ \A c \in Classes : NameOf(c) \in AllNames
  BY ClassFacts DEF RulesInv, ClassInv, ClassTypeOK, DeclareClass
<1>2. ClassInv'
  BY <1>1, DeclareClassKeeps
<1>3. prog' = prog /\ phase' = "declare" /\ phase = "declare" /\ at' = at + 1
  BY DEF DeclareClass
<1>4. CASE errors # {}
  BY <1>2, <1>3, <1>4, RulesKept DEF DeclareClass, Report, RulesInv
<1>5. CASE errors = {} /\ \E c \in globals : NameOf(c) = NameOf(at)
  <2>1. PICK c \in globals : NameOf(c) = NameOf(at)
    BY <1>5
  <2>2. c \in Classes /\ c # at
    BY <1>1, <1>3, <1>5 DEF RulesInv, DeclaredSoFar, ClassInv, ClassTypeOK
  <2>3. c \in Named(prog[at].name)
    BY <1>1, <2>1, <2>2 DEF Named
  <2>4. ~Rules(at)
    BY <2>2, <2>3 DEF Rules
  <2>5. errors' # {} /\ errors \subseteq errors'
    BY <1>5 DEF DeclareClass, Report, Error
  <2> QED BY <1>1, <1>2, <1>3, <2>4, <2>5, RulesKept
<1>6. CASE errors = {} /\ ~ \E c \in globals : NameOf(c) = NameOf(at)
  <2>1. /\ globals' = globals \cup {at} /\ chain' = Pushed(NameOf(at), at) /\ errors' = errors
    BY <1>6 DEF DeclareClass
  <2>2. DeclaredSoFar
    BY <1>3, <1>6 DEF RulesInv
  <2>3. globals' = PredefinedClasses \cup 1 .. at' - 1
    <3>1. 1 .. at' - 1 = (1 .. at - 1) \cup {at}
      BY <1>1, <1>3 DEF Ids
    <3> QED BY <2>1, <2>2, <3>1 DEF DeclaredSoFar
  <2>4. \A c, d \in globals' : NameOf(c) = NameOf(d) => c = d
    BY <1>6, <2>1, <2>2 DEF DeclaredSoFar
  <2>5. /\ chain'[NameOf(at)] = Append(chain[NameOf(at)], at)
        /\ \A n \in AllNames : n # NameOf(at) => chain'[n] = chain[n]
    <3>1. chain \in [AllNames -> Seq(Classes \cup {Member})]
      BY <1>1 DEF ClassInv, ClassTypeOK
    <3> QED BY <1>1, <2>1, <3>1 DEF Pushed
  <2>6. chain[NameOf(at)] = <<>>
    BY <1>1, <1>6, <2>2 DEF DeclaredSoFar
  <2>7. \A c \in globals' : chain'[NameOf(c)] = <<c>>
    <3>1. chain'[NameOf(at)] = <<at>>
      BY <2>5, <2>6
    <3>2. \A c \in globals : NameOf(c) \in AllNames /\ NameOf(c) # NameOf(at)
      BY <1>1, <1>6 DEF ClassInv, ClassTypeOK
    <3> QED BY <2>1, <2>2, <2>5, <3>1, <3>2 DEF DeclaredSoFar
  <2>8. \A n \in AllNames : chain'[n] # <<>> => \E c \in globals' : NameOf(c) = n
    BY <2>1, <2>2, <2>5 DEF DeclaredSoFar
  <2>9. DeclaredSoFar'
    BY <1>3, <2>3, <2>4, <2>7, <2>8, TextKept DEF DeclaredSoFar, PredefinedClasses, AllNames
  <2> QED BY <1>2, <1>3, <1>6, <2>1, <2>9, RulesKept
<1> QED BY <1>4, <1>5, <1>6

LEMMA EndDeclareRules ==
  ASSUME RulesInv, EndDeclare, ClassInv'
  PROVE  RulesInv'
<1>1. /\ prog' = prog /\ phase' = "enter" /\ phase = "declare" /\ at' = 1 /\ errors' = errors
      /\ globals' = globals /\ chain' = chain
  BY DEF EndDeclare
<1>2. CASE errors # {}
  BY <1>1, <1>2, RulesKept DEF RulesInv
<1>3. CASE errors = {}
  <2>1. IsProgram(prog) /\ at = Len(prog) + 1 /\ DeclaredSoFar /\ Len(prog) \in Nat
    BY <1>1, <1>3, ClassFacts DEF RulesInv, ClassInv, ClassTypeOK, EndDeclare, Ids
  <2>2. globals = Classes
    BY <2>1 DEF DeclaredSoFar, Classes, Ids
  <2>3. \A c : Own(c)' = <<c>>
    BY <1>1 DEF Own, Entered, AtClass, Ids
  <2>4. \A c \in Classes : chain'[NameOf(c)] = Own(c)'
    BY <1>1, <2>1, <2>2, <2>3 DEF DeclaredSoFar
  <2>5. \A c \in 1 .. at' - 1 : FALSE
    BY <1>1
  <2>6. CheckedSoFar'
    BY <1>1, <2>1, <2>2, <2>4, <2>5, TextKept DEF CheckedSoFar, DeclaredSoFar, AtClass
  <2> QED BY <1>1, <1>3, <2>6, RulesKept
<1> QED BY <1>2, <1>3

\* checkSuperClass, by what the name of the super-class finds.
LEMMA SuperErrorsBy ==
  ASSUME IsProgram(prog), NEW q, NEW s, s = Head1(q[prog[at].super])
  PROVE  /\ s = None \/ s = IntClass => SuperErrors(q) # {}
         /\ s = ObjectClass => SuperErrors(q) = {}
         /\ s \in Ids => (SuperErrors(q) = {} <=> ~(Len(q[prog[at].super]) < Len(q[NameOf(at)])))
<1>1. Error("superUndefined", 0) # {} /\ Error("superSpecial", 0) # {}
  BY DEF Error
<1>2. /\ None # IntClass /\ None # ObjectClass /\ IntClass # ObjectClass
      /\ None \notin Ids /\ IntClass \notin Ids /\ ObjectClass \notin Ids
  BY ClassFacts DEF None, IntClass, ObjectClass, Classes, PredefinedClasses
<1>3. CASE s = None
  <2>1. SuperErrors(q) = Error("superUndefined", 0)
    BY <1>2, <1>3 DEF SuperErrors
  <2> QED BY <1>1, <1>2, <1>3, <2>1
<1>4. CASE s = IntClass
  <2>1. SuperErrors(q) = Error("superSpecial", 0)
    BY <1>2, <1>4 DEF SuperErrors
  <2> QED BY <1>1, <1>2, <1>4, <2>1
<1>5. CASE s = ObjectClass
  <2>1. SuperErrors(q) = {}
    BY <1>2, <1>5 DEF SuperErrors
  <2> QED BY <1>2, <1>5, <2>1
<1>6. CASE s \in Ids
  <2>1. SuperErrors(q) = IF Len(q[prog[at].super]) < Len(q[NameOf(at)])
                         THEN Error("superUndefined", 0) ELSE {}
    BY <1>2, <1>6 DEF SuperErrors
  <2> QED BY <1>1, <1>2, <1>6, <2>1
<1> QED BY <1>3, <1>4, <1>5, <1>6

LEMMA EnterClassRules ==
  ASSUME RulesInv, EnterClass
  PROVE  RulesInv'
<1> DEFINE sn == prog[at].super  nm == NameOf(at)
<1>1. /\ ClassInv /\ ClassTypeOK /\ ResolverInv /\ IsProgram(prog)
      /\ at \in Ids /\ at \in Classes /\ at \in Nat
      /\ nm \in AllNames /\ nm = prog[at].name /\ sn \in AllNames
      /\ \A c \in Classes : NameOf(c) \in AllNames
  BY ClassFacts DEF RulesInv, ClassInv, ClassTypeOK, EnterClass
<1>2. ClassInv'
  BY <1>1, EnterClassKeeps
<1>3. /\ phase = "enter" /\ prog' = prog /\ at' = at /\ globals' = globals /\ scope' = scope
      /\ chain' = Pushed(nm, at) /\ errors' = errors \cup SuperErrors(chain') /\ next' = 1
      /\ phase' = IF SuperErrors(chain') = {} THEN "members" ELSE "visit"
      /\ superclass' = ClassOnTop(chain'[sn])
  BY DEF EnterClass, Report
<1> HIDE DEF sn, nm
<1>4. CASE errors # {}
  BY <1>2, <1>3, <1>4, RulesKept
<1>5. CASE errors = {}
  <2>1. CheckedSoFar
    BY <1>3, <1>5 DEF RulesInv
  <2>2. /\ chain'[nm] = Append(chain[nm], at)
        /\ \A n \in AllNames : n # nm => chain'[n] = chain[n]
    BY <1>1, <1>3 DEF ClassTypeOK, Pushed
  <2>3. /\ \A c \in Ids : c < at => Own(c) = <<c, c>> /\ Own(c)' = <<c, c>>
        /\ \A c \in Ids : c > at => Own(c) = <<c>> /\ Own(c)' = <<c>>
        /\ \A c \in PredefinedClasses : Own(c) = <<c>> /\ Own(c)' = <<c>>
        /\ Own(at) = <<at>> /\ Own(at)' = <<at, at>>
    <3>1. \A c \in Ids : c \in Nat /\ c \notin PredefinedClasses
      BY <1>1, ClassFacts
    <3>2. phase' # "declare" /\ phase # "declare" /\ ~AtClass /\ AtClass'
      BY <1>3 DEF AtClass
    <3>3. /\ \A c \in Ids : c < at => Entered(c) /\ Entered(c)'
          /\ \A c \in Ids : c > at => ~Entered(c) /\ ~Entered(c)'
          /\ ~Entered(at) /\ Entered(at)'
      BY <1>1, <1>3, <3>1, <3>2 DEF Entered
    <3> QED BY <1>1, <1>3, <3>1, <3>3, TextKept DEF Own
  <2>4. \A c \in Classes : chain'[NameOf(c)] = Own(c)'
    <3> TAKE c \in Classes
    <3>1. chain[NameOf(c)] = Own(c)
      BY <2>1 DEF CheckedSoFar
    <3>2. CASE c = at
      <4>1. Append(<<c>>, c) = <<c, c>>
        <5>1. <<c>> \in Seq({c}) /\ <<c, c>> \in Seq({c})
          OBVIOUS
        <5>2. Append(<<c>>, c) \in Seq({c}) /\ Len(Append(<<c>>, c)) = 2
          BY <5>1
        <5>3. \A i \in 1 .. 2 : Append(<<c>>, c)[i] = <<c, c>>[i]
          BY <5>1
        <5> QED BY <5>1, <5>2, <5>3, SeqEqual
      <4>2. Own(c) = <<c>> /\ Own(c)' = <<c, c>> /\ NameOf(c) = nm
        BY <1>3, <2>3, <3>2 DEF nm
      <4>3. chain'[nm] = Append(<<c>>, c)
        BY <2>2, <3>1, <3>2, <4>2
      <4> QED BY <4>1, <4>2, <4>3
    <3>3. CASE c # at
      <4>1. NameOf(c) # nm /\ NameOf(c) \in AllNames
        BY <1>1, <2>1, <3>3 DEF CheckedSoFar, nm
      <4>2. c \in PredefinedClasses \/ (c \in Ids /\ (c < at \/ c > at))
        BY <1>1, <3>3, ClassFacts DEF Classes
      <4> QED BY <2>2, <2>3, <3>1, <4>1, <4>2
    <3> QED BY <3>2, <3>3
  <2>5. CASE Named(sn) = {}
    <3>1. chain[sn] = <<>>
      <4>1. \A i \in 1 .. Len(chain[sn]) : FALSE
        <5> TAKE i \in 1 .. Len(chain[sn])
        <5>1. Holds(sn, chain[sn][i])
          BY <1>1 DEF ResolverInv
        <5> QED BY <1>1, <1>3, <2>5, <5>1 DEF Holds, Named
      <4>2. chain[sn] \in Seq(Classes \cup {Member})
        BY <1>1 DEF ClassTypeOK
      <4> QED BY <4>1, <4>2, EmptySeq
    <3>2. sn # nm
      BY <1>1, <2>5 DEF Named, nm
    <3>3. Head1(chain'[sn]) = None
      BY <1>1, <2>2, <3>1, <3>2 DEF Head1
    <3>4. SuperErrors(chain') # {}
      BY <1>1, <3>3, SuperErrorsBy DEF sn
    <3>5. ~Rules(at)
      BY <2>5 DEF Rules, Earlier, sn
    <3> QED BY <1>1, <1>2, <1>3, <3>4, <3>5, RulesKept
  <2>6. CASE Named(sn) # {}
    <3>1. PICK d \in Classes : NameOf(d) = sn
      BY <2>6 DEF Named
    <3>2. Named(sn) = {d}
      BY <1>1, <2>1, <3>1, NamedOne DEF CheckedSoFar
    <3>3. chain'[sn] = Own(d)'
      BY <2>4, <3>1
    <3>4. Len(chain'[nm]) = 2
      <4>1. PICK c : c = at
        OBVIOUS
      <4>2. chain'[nm] = Own(c)' /\ Own(c)' = <<c, c>>
        BY <1>1, <1>3, <2>3, <2>4, <4>1 DEF nm
      <4> QED BY <4>2
    <3>5. \A c : /\ Len(<<c>>) = 1 /\ Len(<<c, c>>) = 2 /\ <<c>> # <<>> /\ <<c, c>> # <<>>
                /\ Head1(<<c>>) = c /\ Head1(<<c, c>>) = c
      BY DEF Head1
    <3>6. Head1(chain'[sn]) = d /\ superclass' = d
      <4>1. Own(d)' = <<d>> \/ Own(d)' = <<d, d>>
        BY DEF Own
      <4>2. d # Member
        BY <1>1, ClassFacts
      <4> QED BY <1>3, <3>3, <3>5, <4>1, <4>2 DEF ClassOnTop
    <3>7. Earlier(at) = {s \in {d} : s \in 1 .. at \cup {ObjectClass}}
      BY <3>2 DEF Earlier, sn
    <3>8. \/ SuperErrors(chain') = {} /\ Earlier(at) = {d}
          \/ SuperErrors(chain') # {} /\ Earlier(at) = {}
      <4>1. CASE d = ObjectClass
        BY <1>1, <3>6, <3>7, <4>1, SuperErrorsBy DEF sn
      <4>2. CASE d = IntClass
        <5>1. d \notin 1 .. at \cup {ObjectClass}
          BY <4>2 DEF IntClass, ObjectClass
        <5> QED BY <1>1, <3>6, <3>7, <4>2, <5>1, SuperErrorsBy DEF sn
      <4>3. CASE d \in Ids /\ d <= at
        <5>1. d \in 1 .. at /\ Own(d)' = <<d, d>>
          BY <1>1, <1>3, <2>3, <4>3, ClassFacts DEF Ids
        <5>2. Len(chain'[sn]) = 2
          BY <3>3, <3>5, <5>1
        <5> QED BY <1>1, <3>4, <3>6, <3>7, <4>3, <5>1, <5>2, SuperErrorsBy DEF sn, nm
      <4>4. CASE d \in Ids /\ d > at
        <5>1. d \notin 1 .. at \cup {ObjectClass} /\ Own(d)' = <<d>>
          BY <1>1, <2>3, <4>4, ClassFacts DEF Ids, ObjectClass
        <5>2. Len(chain'[sn]) = 1
          BY <3>3, <3>5, <5>1
        <5>3. Len(chain'[sn]) < Len(chain'[nm])
          BY <3>4, <5>2
        <5>4. SuperErrors(chain') # {}
          BY <1>1, <3>6, <4>4, <5>3, SuperErrorsBy DEF sn, nm
        <5> QED BY <3>7, <5>1, <5>4
      <4>5. d \in Ids => d \in Nat
        BY <1>1, ClassFacts
      <4> QED BY <1>1, <4>1, <4>2, <4>3, <4>4, <4>5 DEF Classes, PredefinedClasses
    <3>9. CASE SuperErrors(chain') # {} /\ Earlier(at) = {}
      <4>1. ~Rules(at)
        BY <3>9 DEF Rules
      <4> QED BY <1>1, <1>2, <1>3, <3>9, <4>1, RulesKept
    <3>10. CASE SuperErrors(chain') = {} /\ Earlier(at) = {d}
      <4>1. errors' = {} /\ phase' = "members" /\ AtClass'
        BY <1>3, <1>5, <3>10 DEF AtClass
      <4>2. scope' = {} /\ \A k : k \in 1 .. next' - 1 => FALSE
        BY <1>1, <1>3 DEF ClassTypeOK, AtClass
      <4>3. next' <= Len(Members(at)) + 1
        <5>1. Len(Members(at)) \in Nat
          BY <1>1, ClassFacts
        <5> QED BY <1>3, <5>1
      <4>4. CheckedSoFar'
        BY <1>1, <1>3, <2>1, <2>4, <3>6, <3>10, <4>1, <4>2, <4>3, TextKept DEF CheckedSoFar
      <4> QED BY <1>2, <1>3, <4>1, <4>4, RulesKept
    <3> QED BY <3>8, <3>9, <3>10
  <2> QED BY <2>5, <2>6
<1> QED BY <1>4, <1>5

\* An error is reported of a member exactly if a check of it fails.
LEMMA ErrorsOfChecks ==
  ASSUME NEW k, NEW i
  PROVE  Error(k, i) # {} /\ \A ok \in BOOLEAN : Unless(ok, k) = {} <=> ok
<1>1. \A j : Error(k, j) # {}
  BY DEF Error
<1> QED BY <1>1 DEF Unless

LEMMA InitErrorsMean ==
  ASSUME NEW m, m.method
  PROVE  InitErrors(m) = {} <=> InitParams(at, m)
<1> DEFINE Repeats == /\ m.name = "__init__"
                      /\ \E i \in 1 .. Len(m.params) : \E a \in 1 .. Len(Members(at)) :
                           /\ ~Members(at)[a].method
                           /\ Members(at)[a].name = m.params[i].name
                           /\ Members(at)[a].type = m.params[i].type
<1>1. InitErrors(m) = Unless(~Repeats, "override")
  BY DEF InitErrors
<1>2. Repeats \in BOOLEAN
  OBVIOUS
<1> HIDE DEF Repeats
<1>3. InitErrors(m) = {} <=> ~Repeats
  BY <1>1, <1>2, ErrorsOfChecks
<1>4. \A a, b, c, d : <<a, b>> # <<c, d>> <=> ~(a = c /\ b = d)
  OBVIOUS
<1>5. InitParams(at, m) <=> ~Repeats
  BY <1>4 DEF InitParams, Repeats
<1> QED BY <1>3, <1>5

LEMMA FirstParamErrorsMean ==
  ASSUME IsProgram(prog), at \in Ids, NEW m \in MemberDecls, m.method
  PROVE  FirstParamErrors(m) = {} <=> TakesSelf(at, m)
<1> DEFINE Takes == /\ m.params # <<>> /\ m.params[1].name = "self"
                    /\ m.params[1].type = NameOf(at)
<1>1. FirstParamErrors(m) = Unless(Takes, "firstParam")
  BY DEF FirstParamErrors
<1>2. Takes \in BOOLEAN
  OBVIOUS
<1> HIDE DEF Takes
<1>3. FirstParamErrors(m) = {} <=> Takes
  BY <1>1, <1>2, ErrorsOfChecks
<1>4. m.params # <<>> => m.params[1] \in Params
  <2>1. m.params \in Seq(Params)
    BY DEF MemberDecls
  <2>2. m.params # <<>> => 1 \in 1 .. Len(m.params)
    BY <2>1, EmptySeq
  <2> QED BY <2>1, <2>2, ElementOfSeq
<1>5. \A p \in Params : \A n, t : p = [name |-> n, type |-> t] <=> p.name = n /\ p.type = t
  BY DEF Params
<1>6. NameOf(at) = prog[at].name
  BY ClassFacts
<1>7. TakesSelf(at, m) <=> Takes
  <2>1. CASE m.params = <<>>
    BY <2>1 DEF TakesSelf, Takes
  <2>2. CASE m.params # <<>>
    <3>1. PICK p \in Params : p = m.params[1]
      BY <1>4, <2>2
    <3>2. p = [name |-> "self", type |-> prog[at].name]
            <=> p.name = "self" /\ p.type = prog[at].name
      BY <1>5
    <3> QED BY <1>6, <2>2, <3>1, <3>2 DEF TakesSelf, Takes
  <2> QED BY <2>1, <2>2
<1> QED BY <1>3, <1>7

LEMMA OverrideErrorsMean ==
  ASSUME IsProgram(prog), at \in Ids, Earlier(at) = {superclass}, NEW m \in MemberDecls
  PROVE  /\ OverrideErrors(m) # {} => ~Overrides(at, m)
         /\ OverrideErrors(m) = {} /\ m.name # "__init__" /\ Declares(superclass, m.name) =>
              LET o == Members(superclass)[First(superclass, m.name)] IN
              m.method /\ o.method /\ Signature(m) = Signature(o)
<1> DEFINE o == Members(superclass)[First(superclass, m.name)]
           Agree == o.method /\ m.method /\ Signature(o) = Signature(m)
<1>1. superclass \in Classes
  BY DEF Earlier, Named
<1>2. Declares(superclass, m.name) =>
        First(superclass, m.name) \in 1 .. Len(Members(superclass)) /\ o.name = m.name
  BY <1>1, FirstFacts
<1>3. CASE m.name = "__init__" \/ ~Declares(superclass, m.name)
  BY <1>3 DEF OverrideErrors
<1>4. CASE m.name # "__init__" /\ Declares(superclass, m.name)
  <2>1. OverrideErrors(m) = IF o.method /\ m.method
                            THEN Unless(Signature(o) = Signature(m), "override")
                            ELSE Error("redefine", next)
    BY <1>4 DEF OverrideErrors
  <2>2. ~Agree => ~Overrides(at, m)
    BY <1>2, <1>4 DEF Overrides
  <2> HIDE DEF o
  <2>3. OverrideErrors(m) = {} <=> Agree
    <3>1. (Signature(o) = Signature(m)) \in BOOLEAN
      OBVIOUS
    <3>2. Unless(Signature(o) = Signature(m), "override") = {} <=> Signature(o) = Signature(m)
      BY <3>1, ErrorsOfChecks
    <3>3. Error("redefine", next) # {}
      BY ErrorsOfChecks
    <3> QED BY <2>1, <3>2, <3>3
  <2> QED BY <2>2, <2>3 DEF o
<1> QED BY <1>3, <1>4

LEMMA MemberErrorsMean ==
  ASSUME IsProgram(prog), at \in Ids, Earlier(at) = {superclass}, NEW m \in MemberDecls
  PROVE  /\ MemberErrors(m) # {} =>
              ~(TakesSelf(at, m) /\ InitParams(at, m) /\ Overrides(at, m))
         /\ MemberErrors(m) = {} =>
              /\ TakesSelf(at, m) /\ InitParams(at, m)
              /\ m.name # "__init__" /\ Declares(superclass, m.name) =>
                   LET o == Members(superclass)[First(superclass, m.name)] IN
                   m.method /\ o.method /\ Signature(m) = Signature(o)
<1>1. m.method \in BOOLEAN
  BY DEF MemberDecls
<1>2. CASE m.method
  <2>1. MemberErrors(m) = OverrideErrors(m) \cup (InitErrors(m) \cup FirstParamErrors(m))
    BY <1>2 DEF MemberErrors
  <2> QED BY <1>2, <2>1, InitErrorsMean, FirstParamErrorsMean, OverrideErrorsMean
<1>3. CASE ~m.method
  <2>1. MemberErrors(m) = OverrideErrors(m) /\ TakesSelf(at, m) /\ InitParams(at, m)
    BY <1>3 DEF MemberErrors, TakesSelf, InitParams
  <2> QED BY <2>1, OverrideErrorsMean
<1> QED BY <1>1, <1>2, <1>3

LEMMA DeclareMemberRules ==
  ASSUME RulesInv, DeclareMember
  PROVE  RulesInv'
<1> DEFINE m == Current
<1>1. /\ ClassInv /\ ClassTypeOK /\ ResolverInv /\ IsProgram(prog) /\ AtClass
      /\ phase = "members" /\ at \in Ids /\ at \in Classes /\ at \in Nat
      /\ m \in MemberDecls /\ m.name \in AllNames
      /\ Members(at) = prog[at].members /\ m = Members(at)[next]
      /\ next \in 1 .. Len(Members(at)) /\ Len(Members(at)) \in Nat
      /\ \A c \in Classes : NameOf(c) \in AllNames /\ c # Member
  BY CurrentFacts, ClassFacts DEF RulesInv, ClassInv, ClassTypeOK, DeclareMember, AtClass
<1>2. ClassInv'
  BY <1>1, DeclareMemberKeeps
<1>3. /\ prog' = prog /\ phase' = "members" /\ at' = at /\ globals' = globals
      /\ superclass' = superclass /\ next' = next + 1 /\ errors \subseteq errors'
  BY DEF DeclareMember, Report
<1> HIDE DEF m
<1>4. CASE errors # {}
  BY <1>2, <1>3, <1>4, RulesKept
<1>5. CASE errors = {}
  <2>1. CheckedSoFar
    BY <1>1, <1>5 DEF RulesInv
  <2>2. /\ Earlier(at) = {superclass} /\ scope = 1 .. next - 1
        /\ \A i \in 1 .. next - 1 : MemberChecked(at, superclass, i)
        /\ \A c, d \in Classes : NameOf(c) = NameOf(d) => c = d
        /\ \A c \in Classes : chain[NameOf(c)] = Own(c)
    BY <1>1, <2>1 DEF CheckedSoFar
  <2>3. MemberRules(at, next) =>
          /\ Named(m.name) = {} /\ \A j \in 1 .. next - 1 : Members(at)[j].name # m.name
          /\ TakesSelf(at, m) /\ InitParams(at, m) /\ Overrides(at, m)
    BY <1>1 DEF MemberRules
  <2>4. MemberErrors(m) # {} => ~MemberRules(at, next)
    BY <1>1, <2>2, <2>3, MemberErrorsMean
  <2>5. ~MemberRules(at, next) => ~Rules(at)
    BY <1>1 DEF Rules
  <2>6. CASE \E i \in scope : Members(at)[i].name = m.name
    <3>1. ~MemberRules(at, next)
      BY <2>2, <2>3, <2>6
    <3>2. errors' = errors \cup Error("dup", next) \cup MemberErrors(m)
      BY <2>6 DEF DeclareMember, Report, m
    <3>3. errors' # {}
      BY <3>2, ErrorsOfChecks
    <3> QED BY <1>1, <1>2, <1>3, <2>5, <3>1, <3>3, RulesKept
  <2>7. CASE ~ \E i \in scope : Members(at)[i].name = m.name
    <3> DEFINE Clear == \A i \in 1 .. Len(chain[m.name]) : chain[m.name][i] = Member
    <3>1. /\ errors' = errors \cup (Unless(Clear, "shadow") \cup MemberErrors(m))
          /\ scope' = scope \cup {next} /\ chain' = Pushed(m.name, Member)
      BY <2>7 DEF DeclareMember, Report, m
    <3>2. Unless(Clear, "shadow") = {} <=> Clear
      <4>1. Clear \in BOOLEAN
        OBVIOUS
      <4> QED BY <4>1, ErrorsOfChecks
    <3>3. Clear <=> Named(m.name) = {}
      <4>1. ASSUME ~Clear PROVE Named(m.name) # {}
        <5>1. PICK i \in 1 .. Len(chain[m.name]) : chain[m.name][i] # Member
          BY <4>1
        <5>2. Holds(m.name, chain[m.name][i])
          BY <1>1, <5>1 DEF ResolverInv
        <5> QED BY <5>1, <5>2 DEF Holds, Named
      <4>2. ASSUME NEW c \in Named(m.name) PROVE ~Clear
        <5>1. c \in Classes /\ NameOf(c) = m.name
          BY DEF Named
        <5>2. chain[m.name] = Own(c) /\ c # Member
          BY <1>1, <2>2, <5>1
        <5>3. Len(Own(c)) \in Nat \ {0} /\ Own(c)[1] = c
          <6>1. Own(c) = <<c>> \/ Own(c) = <<c, c>>
            BY DEF Own
          <6> QED BY <6>1
        <5> QED BY <5>2, <5>3
      <4> QED BY <4>1, <4>2
    <3> HIDE DEF Clear
    <3>4. CASE errors' # {}
      <4>1. ~MemberRules(at, next)
        BY <1>5, <2>3, <2>4, <3>1, <3>2, <3>3, <3>4
      <4> QED BY <1>1, <1>2, <1>3, <2>5, <3>4, <4>1, RulesKept
    <3>5. CASE errors' = {}
      <4>1. Named(m.name) = {} /\ MemberErrors(m) = {}
        BY <3>1, <3>2, <3>3, <3>5
      <4>2. MemberChecked(at, superclass, next)
        <5>1. \A j \in 1 .. next - 1 : Members(at)[j].name # m.name
          BY <2>2, <2>7
        <5>2. /\ TakesSelf(at, m) /\ InitParams(at, m)
              /\ m.name # "__init__" /\ Declares(superclass, m.name) =>
                   LET o == Members(superclass)[First(superclass, m.name)] IN
                   m.method /\ o.method /\ Signature(m) = Signature(o)
          BY <1>1, <2>2, <4>1, MemberErrorsMean
        <5> QED BY <1>1, <4>1, <5>1, <5>2 DEF MemberChecked
      <4>3. next' - 1 = next /\ scope' = 1 .. next' - 1 /\ next' <= Len(Members(at)) + 1
        <5>1. next \in Nat \ {0} /\ next <= Len(Members(at))
          BY <1>1
        <5>2. next' - 1 = next /\ next' <= Len(Members(at)) + 1
          BY <1>1, <1>3, <5>1
        <5>3. 1 .. next = (1 .. next - 1) \cup {next}
          BY <5>1
        <5> QED BY <2>2, <3>1, <5>2, <5>3
      <4>4. \A i \in 1 .. next' - 1 : MemberChecked(at, superclass, i)
        <5>1. \A i \in 1 .. next' - 1 : i = next \/ i \in 1 .. next - 1
          BY <1>1, <4>3
        <5> QED BY <2>2, <4>2, <5>1
      <4>5. \A c \in Classes : chain'[NameOf(c)] = chain[NameOf(c)]
        <5>1. \A c \in Classes : NameOf(c) # m.name
          BY <4>1 DEF Named
        <5> QED BY <1>1, <3>1, <5>1 DEF Pushed, ClassTypeOK
      <4>6. \A c : Own(c)' = Own(c)
        BY <1>1, <1>3, TextKept DEF Own, Entered, AtClass
      <4>7. CheckedSoFar'
        <5>1. /\ globals' = Classes' /\ \A c \in 1 .. at' - 1 : Rules(c)'
              /\ Earlier(at)' = {superclass'}
          BY <1>3, <2>1, <2>2, TextKept DEF CheckedSoFar
        <5>2. \A i \in 1 .. next' - 1 : MemberChecked(at, superclass, i)'
          BY <1>3, <4>4, TextKept
        <5> QED BY <1>3, <2>2, <4>3, <4>5, <4>6, <5>1, <5>2, TextKept DEF CheckedSoFar
      <4> QED BY <1>2, <1>3, <3>5, <4>7, RulesKept
    <3> QED BY <3>4, <3>5
  <2> QED BY <2>6, <2>7
<1> QED BY <1>4, <1>5

\* Below a class that follows the rules: no class declares a name twice.
LEMMA NamesOnce ==
  ASSUME IsProgram(prog), NEW c \in Classes,
         c \in Ids => \A i \in 1 .. Len(Members(c)) : \A j \in 1 .. i - 1 :
                        Members(c)[j].name # Members(c)[i].name,
         NEW j \in 1 .. Len(Members(c))
  PROVE  First(c, Members(c)[j].name) = j
<1> DEFINE n == Members(c)[j].name  f == First(c, n)
<1>1. Declares(c, n)
  BY DEF Declares
<1>2. f \in 1 .. Len(Members(c)) /\ Members(c)[f].name = n
  BY <1>1, FirstFacts
<1>3. Len(Members(c)) \in Nat
  BY ClassFacts DEF Classes, Members, PredefinedClasses
<1>4. CASE c \in Ids
  <2>1. ~(f < j) /\ ~(j < f)
    <3>1. f < j => f \in 1 .. j - 1
      BY <1>2, <1>3
    <3>2. j < f => j \in 1 .. f - 1
      BY <1>2, <1>3
    <3> HIDE DEF f
    <3> QED BY <1>2, <1>4, <3>1, <3>2
  <2> HIDE DEF f
  <2>2. f = j
    BY <1>2, <1>3, <2>1
  <2> QED BY <2>2 DEF f
<1>5. CASE c \in PredefinedClasses
  <2>1. Len(Members(c)) = 1
    BY <1>5 DEF Members
  <2> HIDE DEF f
  <2>2. f = j
    BY <1>2, <2>1
  <2> QED BY <2>2 DEF f
<1> QED BY <1>4, <1>5 DEF Classes

LEMMA EndMembersRules ==
  ASSUME RulesInv, EndMembers, ClassInv'
  PROVE  RulesInv'
<1>1. /\ ClassInv /\ ClassTypeOK /\ IsProgram(prog) /\ AtClass /\ at \in Ids /\ at \in Nat
      /\ phase = "members" /\ phase' = "visit" /\ next \in Nat \ {0} /\ ~(next <= Len(Members(at)))
      /\ Len(Members(at)) \in Nat /\ NameOf(at) = prog[at].name /\ at \in Classes
  BY ClassFacts DEF RulesInv, ClassInv, ClassTypeOK, EndMembers, AtClass
<1>2. UNCHANGED <<prog, at, superclass, globals, scope, chain, errors, walk, found>>
  BY DEF EndMembers
<1>3. CASE errors # {}
  BY <1>2, <1>3, RulesKept
<1>4. CASE errors = {}
  <2>1. CheckedSoFar
    BY <1>1, <1>4 DEF RulesInv
  <2>2. next = Len(Members(at)) + 1
    BY <1>1, <2>1 DEF CheckedSoFar
  <2>3. \A i \in 1 .. Len(Members(at)) : MemberChecked(at, superclass, i)
    BY <1>1, <2>1, <2>2 DEF CheckedSoFar
  <2>4. scope = 1 .. Len(Members(at)) /\ Earlier(at) = {superclass}
    BY <1>1, <2>1, <2>2 DEF CheckedSoFar
  <2>5. superclass \in Classes /\ superclass \in 1 .. at \cup {ObjectClass}
    BY <2>4 DEF Earlier, Named
  <2>6. superclass \in Ids => \A i \in 1 .. Len(Members(superclass)) : \A j \in 1 .. i - 1 :
          Members(superclass)[j].name # Members(superclass)[i].name
    <3>1. CASE superclass = at
      BY <2>3, <3>1 DEF MemberChecked
    <3>2. CASE superclass \in 1 .. at - 1
      BY <2>1, <3>2 DEF CheckedSoFar, Rules, MemberRules
    <3>3. CASE superclass = ObjectClass
      BY <1>1, <3>3, ClassFacts DEF PredefinedClasses
    <3> QED BY <1>1, <2>5, <3>1, <3>2, <3>3
  <2>7. \A i \in 1 .. Len(Members(at)) : MemberRules(at, i)
    <3> TAKE i \in 1 .. Len(Members(at))
    <3> DEFINE m == Members(at)[i]
    <3>1. MemberChecked(at, superclass, i)
      BY <2>3
    <3>2. Overrides(at, m)
      <4> HIDE DEF m
      <4> SUFFICES ASSUME m.name # "__init__", NEW j \in 1 .. Len(Members(superclass)),
                          Members(superclass)[j].name = m.name
                   PROVE  /\ m.method /\ Members(superclass)[j].method
                          /\ Signature(m) = Signature(Members(superclass)[j])
        BY <2>4 DEF Overrides
      <4>1. First(superclass, m.name) = j
        BY <1>1, <2>5, <2>6, NamesOnce
      <4>2. Declares(superclass, m.name)
        BY DEF Declares
      <4> QED BY <3>1, <4>1, <4>2 DEF MemberChecked, m
    <3> QED BY <3>1, <3>2 DEF MemberChecked, MemberRules
  <2>8. Named(prog[at].name) = {at}
    BY <1>1, <2>1, NamedOne DEF CheckedSoFar
  <2>9. Rules(at)
    BY <2>4, <2>7, <2>8 DEF Rules
  <2>10. \A c : Own(c)' = Own(c)
    BY <1>1, <1>2, TextKept DEF Own, Entered, AtClass
  <2>11. Rules(at)' /\ Earlier(at)' = {superclass'} /\ scope' = 1 .. Len(Members(at))'
    BY <1>2, <2>4, <2>9, TextKept
  <2>12. CheckedSoFar'
    BY <1>1, <1>2, <2>1, <2>10, <2>11, TextKept DEF CheckedSoFar
  <2> QED BY <1>1, <1>2, <1>4, <2>12, RulesKept
<1> QED BY <1>3, <1>4

LEMMA VisitMemberRules ==
  ASSUME RulesInv, VisitMember, ClassInv'
  PROVE  RulesInv'
<1>1. /\ phase = "visit" /\ next <= Len(Members(at))
      /\ UNCHANGED <<prog, phase, at, superclass, globals, errors, walk>>
  BY DEF VisitMember
<1>2. CASE errors # {}
  BY <1>1, <1>2, RulesKept
<1>3. CASE errors = {}
  <2>1. CheckedSoFar
    BY <1>1, <1>3 DEF RulesInv
  <2>2. next \in scope
    BY <1>1, <2>1 DEF CheckedSoFar, RulesInv, ClassInv, ClassTypeOK
  <2>3. UNCHANGED <<scope, chain>>
    BY <2>2 DEF VisitMember
  <2>4. \A c : Own(c)' = Own(c)
    BY <1>1, TextKept DEF Own, Entered, AtClass
  <2>5. CheckedSoFar'
    BY <1>1, <2>1, <2>3, <2>4, TextKept DEF CheckedSoFar, AtClass
  <2> QED BY <1>1, <1>3, <2>5, RulesKept
<1> QED BY <1>2, <1>3

LEMMA LeaveClassRules ==
  ASSUME RulesInv, LeaveClass, ClassInv'
  PROVE  RulesInv'
<1>1. /\ ClassInv /\ ClassTypeOK /\ IsProgram(prog) /\ AtClass /\ at \in Ids /\ at \in Nat
      /\ phase = "visit" /\ phase' = "enter" /\ scope' = {} /\ at' = at + 1
      /\ chain' = [n \in AllNames |-> Uncovered(chain[n])]
      /\ \A c \in Classes : NameOf(c) \in AllNames /\ c # Member /\ c \in Int
      /\ UNCHANGED <<prog, next, superclass, globals, errors, walk>>
  BY ClassFacts DEF RulesInv, ClassInv, ClassTypeOK, LeaveClass, AtClass
<1>2. CASE errors # {}
  BY <1>1, <1>2, RulesKept
<1>3. CASE errors = {}
  <2>1. CheckedSoFar
    BY <1>1, <1>3 DEF RulesInv
  <2>2. \A c \in Classes : Own(c)' = Own(c)
    <3>1. \A c \in Classes : Entered(c)' <=> Entered(c)
      BY <1>1 DEF Entered, AtClass
    <3> QED BY <1>1, <3>1, TextKept DEF Own
  <2>3. \A c \in Classes : Uncovered(Own(c)) = Own(c)
    <3> TAKE c \in Classes
    <3> DEFINE q == Own(c)
    <3>1. q \in Seq({c}) /\ \A i \in 1 .. Len(q) : q[i] # Member
      <4>1. q = <<c>> \/ q = <<c, c>>
        BY DEF Own
      <4>2. c # Member
        BY <1>1
      <4> HIDE DEF q
      <4>3. CASE q = <<c>>
        BY <4>2, <4>3
      <4>4. CASE q = <<c, c>>
        BY <4>2, <4>4
      <4> QED BY <4>1, <4>3, <4>4
    <3> HIDE DEF q
    <3>2. LET u == Uncovered(q) IN
          /\ u \in Seq({c}) /\ Len(u) <= Len(q)
          /\ \A i \in 1 .. Len(u) : u[i] = q[i]
          /\ \A i \in 1 .. Len(q) : i <= Len(u)
      BY <3>1, UncoveredFacts
    <3> DEFINE u == Uncovered(q)
    <3> HIDE DEF u
    <3>3. /\ u \in Seq({c}) /\ Len(u) <= Len(q) /\ Len(u) \in Nat /\ Len(q) \in Nat
          /\ \A i \in 1 .. Len(u) : u[i] = q[i]
          /\ \A i \in 1 .. Len(q) : i <= Len(u)
      BY <3>1, <3>2 DEF u
    <3>4. Len(u) = Len(q)
      BY <3>3
    <3>5. u = q
      BY <3>1, <3>3, <3>4, SeqEqual
    <3> QED BY <3>5 DEF u, q
  <2>4. \A c \in Classes : chain'[NameOf(c)] = Own(c)'
    BY <1>1, <2>1, <2>2, <2>3 DEF CheckedSoFar
  <2>5. \A c \in 1 .. at' - 1 : Rules(c)
    <3>1. \A c \in 1 .. at' - 1 : c = at \/ c \in 1 .. at - 1
      BY <1>1
    <3> QED BY <1>1, <2>1, <3>1 DEF CheckedSoFar
  <2>6. CheckedSoFar'
    BY <1>1, <2>1, <2>4, <2>5, TextKept DEF CheckedSoFar, AtClass
  <2> QED BY <1>1, <1>3, <2>6, RulesKept
<1> QED BY <1>2, <1>3

\* The other steps change nothing of this.
LEMMA OtherRules ==
  ASSUME RulesInv, ClassInv',
         \/ EndClasses \/ Find \/ \E c \in globals, n \in MemberNames : Access(c, n)
         \/ UNCHANGED classVars
  PROVE  RulesInv'
<1>1. UNCHANGED <<prog, at, next, superclass, globals, scope, chain, errors>>
  BY DEF EndClasses, Find, FindHere, FindAbove, FindNothing, Access, classVars
<1>2. \/ phase' = phase
      \/ phase = "enter" /\ phase' = "program" /\ at \notin Ids
  <2>1. EndClasses => phase = "enter" /\ phase' = "program" /\ at \notin Ids
    BY DEF EndClasses
  <2>2. Find => phase' = phase
    BY DEF Find, FindHere, FindAbove, FindNothing
  <2>3. \A c, n : Access(c, n) => phase' = phase
    BY DEF Access
  <2>4. UNCHANGED classVars => phase' = phase
    BY DEF classVars
  <2> QED BY <2>1, <2>2, <2>3, <2>4
<1>3. CASE errors # {}
  BY <1>1, <1>3, RulesKept
<1>4. CASE errors = {} /\ phase = "declare"
  <2>1. DeclaredSoFar' /\ phase' = "declare"
    BY <1>1, <1>2, <1>4, TextKept DEF RulesInv, DeclaredSoFar, PredefinedClasses, AllNames
  <2> QED BY <1>1, <1>4, <2>1, RulesKept
<1>5. CASE errors = {} /\ phase # "declare"
  <2>1. (AtClass' <=> AtClass) /\ phase' # "declare"
    BY <1>2, <1>5 DEF AtClass
  <2>2. \A c : Own(c)' = Own(c)
    BY <1>1, <1>5, <2>1, TextKept DEF Own, Entered
  <2>3. /\ \A c : Rules(c)' <=> Rules(c)
        /\ \A i : MemberChecked(at, superclass, i)' <=> MemberChecked(at, superclass, i)
        /\ Earlier(at)' = Earlier(at) /\ Members(at)' = Members(at) /\ (Rules(at)' <=> Rules(at))
    BY <1>1, TextKept
  <2>4. CheckedSoFar'
    BY <1>1, <1>2, <1>5, <2>1, <2>2, <2>3, TextKept DEF RulesInv, CheckedSoFar
  <2> QED BY <1>1, <1>5, <2>1, <2>4, RulesKept
<1> QED BY <1>3, <1>4, <1>5

LEMMA RulesInit ==
  ASSUME ClassInit
  PROVE  RulesInv
<1>1. ClassInv /\ IsProgram(prog)
  BY ClassInit0 DEF ClassInv, ClassTypeOK
<1>2. /\ phase = "declare" /\ at = 1 /\ globals = PredefinedClasses /\ errors = {}
      /\ chain = [n \in AllNames |-> CASE n = "object" -> <<ObjectClass>>
                                       [] n = "int" -> <<IntClass>> [] OTHER -> <<>>]
  BY DEF ClassInit
<1>3. NameOf(ObjectClass) = "object" /\ NameOf(IntClass) = "int"
  BY <1>1, ClassFacts
<1>4. /\ "object" \in AllNames /\ "int" \in AllNames
      /\ chain["object"] = <<ObjectClass>> /\ chain["int"] = <<IntClass>>
      /\ \A n \in AllNames : n # "object" /\ n # "int" => chain[n] = <<>>
  BY <1>2 DEF AllNames
<1>5. 1 .. at - 1 = {}
  BY <1>2
<1>6. DeclaredSoFar
  BY <1>2, <1>3, <1>4, <1>5 DEF DeclaredSoFar, PredefinedClasses
<1> QED BY <1>1, <1>2, <1>6 DEF RulesInv

\* A program whose analysis ends has no class error if and only if its classes
\* follow the rules, for any program and any names.
THEOREM ClassErrorsMeanRules == ClassSpec => []AcceptsWhatFollowsTheRules
<1>1. ClassInit => RulesInv
  BY RulesInit
<1>2. RulesInv /\ ClassInv' /\ [ClassNext]_classVars => RulesInv'
  BY DeclareClassRules, EndDeclareRules, EnterClassRules, DeclareMemberRules, EndMembersRules,
     VisitMemberRules, LeaveClassRules, OtherRules DEF ClassNext
<1>3. RulesInv => AcceptsWhatFollowsTheRules
  <2> SUFFICES ASSUME RulesInv, phase = "program"
               PROVE  errors = {} <=> \A c \in Ids : Rules(c)
    BY DEF AcceptsWhatFollowsTheRules
  <2>1. CASE errors # {}
    BY <2>1 DEF RulesInv
  <2>2. CASE errors = {}
    <3>1. CheckedSoFar /\ at \in 1 .. Len(prog) + 1 /\ Len(prog) \in Nat
      BY <2>2, ClassFacts DEF RulesInv, ClassInv, ClassTypeOK
    <3>2. Ids = 1 .. at - 1
      BY <3>1 DEF CheckedSoFar, Ids
    <3> QED BY <2>2, <3>1, <3>2 DEF CheckedSoFar
  <2> QED BY <2>1, <2>2
<1>4. ClassSpec => []ClassInv
  BY ClassInvariant
<1> QED BY <1>1, <1>2, <1>3, <1>4, PTL DEF ClassSpec

-----------------------------------------------------------------------------
(* The search for a member through the super-classes.                      *)

\* f gives the classes that many levels above c.
AreLevels(c, N, f) == f = [k \in 0 .. N |-> IF k = 0 THEN {c} ELSE AboveAll(f[k - 1])]

LEMMA LevelsExist ==
  ASSUME NEW N \in Nat, NEW c
  PROVE  \E f : AreLevels(c, N, f)
<1> DEFINE Bad == {n \in Nat : ~ \E f : AreLevels(c, n, f)}
<1>1. Bad = {}
  <2> SUFFICES ASSUME Bad # {} PROVE FALSE
    OBVIOUS
  <2>1. PICK n \in Bad : \A m \in Bad : n <= m
    <3>1. Bad \in SUBSET Nat
      OBVIOUS
    <3> HIDE DEF Bad
    <3> QED BY <3>1, LeastNat
  <2>2. CASE n = 0
    <3> DEFINE h == [k \in 0 .. 0 |-> {c}]
    <3>1. h = [k \in 0 .. 0 |-> IF k = 0 THEN {c} ELSE AboveAll(h[k - 1])]
      BY \A k \in 0 .. 0 : k = 0
    <3>2. AreLevels(c, 0, h)
      BY <3>1, Zenon DEF AreLevels
    <3> QED BY <2>1, <2>2, <3>2
  <2>3. CASE n # 0
    <3>1. n \in Nat /\ n - 1 \in Nat /\ n - 1 \notin Bad
      BY <2>1, <2>3
    <3>2. PICK g : AreLevels(c, n - 1, g)
      BY <3>1
    <3> DEFINE Step(f, k) == IF k = 0 THEN {c} ELSE AboveAll(f[k - 1])
               h == [k \in 0 .. n |-> IF k < n THEN g[k] ELSE Step(g, n)]
    <3>3. \A k \in 0 .. n - 1 : g[k] = Step(g, k)
      BY <3>2, Zenon DEF AreLevels
    <3>4. \A k \in 0 .. n : (k < n /\ k \in 0 .. n - 1) \/ k = n
      BY <3>1
    <3>5. \A k \in 0 .. n - 1 : h[k] = g[k]
      BY <3>1
    <3>6. \A k \in 0 .. n : k # 0 => k - 1 \in 0 .. n - 1
      BY <3>1
    <3> HIDE DEF Step
    <3>7. \A k \in 0 .. n : h[k] = Step(g, k)
      BY <3>3, <3>4
    <3>8. h = [k \in 0 .. n |-> h[k]]
      OBVIOUS
    <3> HIDE DEF h
    <3>9. \A k \in 0 .. n : Step(h, k) = Step(g, k)
      BY <3>5, <3>6 DEF Step
    <3>10. h = [k \in 0 .. n |-> Step(h, k)]
      BY <3>7, <3>8, <3>9
    <3>11. AreLevels(c, n, h)
      BY <3>10, Zenon DEF AreLevels, Step
    <3> QED BY <2>1, <3>11
  <2> QED BY <2>2, <2>3
<1> QED BY <1>1

LEMMA LevelIs ==
  ASSUME IsProgram(prog), NEW c
  PROVE  /\ Level(c) = [k \in 0 .. Len(prog) + 1 |-> Level(c)[k]]
         /\ DOMAIN Level(c) = 0 .. Len(prog) + 1
         /\ Level(c)[0] = {c}
         /\ \A k \in 1 .. Len(prog) + 1 : Level(c)[k] = AboveAll(Level(c)[k - 1])
<1> DEFINE N == Len(prog) + 1
<1>1. N \in Nat
  BY ClassFacts
<1>2. \E f : AreLevels(c, N, f)
  BY <1>1, LevelsExist
<1>3. AreLevels(c, N, Level(c))
  BY <1>2, Zenon DEF AreLevels, Level, Levels
<1>4. PICK f : f = Level(c) /\ f = [k \in 0 .. N |-> IF k = 0 THEN {c} ELSE AboveAll(f[k - 1])]
  BY <1>3, Zenon DEF AreLevels
<1>5. DOMAIN f = 0 .. N /\ f = [k \in 0 .. N |-> f[k]]
  BY <1>4
<1>6. \A k \in 0 .. N : f[k] = IF k = 0 THEN {c} ELSE AboveAll(f[k - 1])
  BY <1>4, Zenon
<1>7. 0 \in 0 .. N /\ \A k \in 1 .. N : k \in 0 .. N /\ k # 0
  BY <1>1
<1> HIDE DEF N
<1>8. f[0] = {c} /\ \A k \in 1 .. N : f[k] = AboveAll(f[k - 1])
  BY <1>6, <1>7
<1> QED BY <1>4, <1>5, <1>8 DEF N

\* The text of the program does not change, nor what is above a class.
LEMMA LevelKept ==
  ASSUME prog' = prog, NEW c
  PROVE  /\ \A d : Above(d)' = Above(d)
         /\ Level(c)' = Level(c) /\ (Distinct' <=> Distinct)
<1>1. \A d : Above(d)' = Above(d)
  BY TextKept DEF Above
<1>2. \A S : AboveAll(S)' = AboveAll(S)
  BY <1>1 DEF AboveAll
<1>3. Level(c)' = Level(c)
  BY <1>2 DEF Level, Levels
<1>4. Distinct' <=> Distinct
  BY DEF Distinct, Named, NameOf, Classes, Ids, Members
<1> QED BY <1>1, <1>3, <1>4

\* With distinct names a class has at most one class above it.
LEMMA AboveOne ==
  ASSUME IsProgram(prog), Distinct, NEW d \in Classes
  PROVE  /\ \A c \in Classes : Named(NameOf(c)) = {c}
         /\ Above(d) \in SUBSET Classes /\ (Above(d) = {} \/ \E u \in Classes : Above(d) = {u})
<1>1. \A c \in Classes : Named(NameOf(c)) = {c}
  <2> TAKE c \in Classes
  <2>1. CASE c \in Ids
    BY <2>1, ClassFacts DEF Distinct
  <2>2. CASE c \in PredefinedClasses
    <3>1. c \in Named(NameOf(c))
      BY DEF Named
    <3>2. ASSUME NEW k \in Named(NameOf(c)), k # c PROVE FALSE
      <4>1. k \in Classes /\ NameOf(k) = NameOf(c)
        BY DEF Named
      <4>2. CASE k \in Ids
        <5>1. Named(NameOf(k)) = {k}
          BY <4>2, ClassFacts DEF Distinct
        <5> QED BY <3>1, <3>2, <4>1, <5>1
      <4>3. CASE k \in PredefinedClasses
        BY <2>2, <3>2, <4>1, <4>3, ClassFacts DEF PredefinedClasses
      <4> QED BY <4>1, <4>2, <4>3 DEF Classes
    <3> QED BY <3>1, <3>2
  <2> QED BY <2>1, <2>2 DEF Classes
<1>2. \A n : Named(n) \in SUBSET Classes /\ (Named(n) = {} \/ \E u \in Classes : Named(n) = {u})
  <2> TAKE n
  <2>1. CASE Named(n) # {}
    <3>1. PICK u \in Classes : NameOf(u) = n
      BY <2>1 DEF Named
    <3> QED BY <1>1, <3>1 DEF Named
  <2> QED BY <2>1 DEF Named
<1>3. Above(d) = {} \/ \E n : Above(d) = Named(n)
  BY DEF Above
<1> QED BY <1>1, <1>2, <1>3

\* What getSuperClass finds in the resolver is what the text says.
LEMMA SuperClassAbove ==
  ASSUME ClassInv, Distinct, globals = Classes, NEW d \in Classes
  PROVE  IF SuperClass(d) = None THEN Above(d) = {} ELSE Above(d) = {SuperClass(d)}
<1>1. ClassTypeOK /\ ResolverInv /\ IsProgram(prog)
  BY DEF ClassInv, ClassTypeOK
<1>2. \A c \in Classes : Named(NameOf(c)) = {c}
  BY <1>1, AboveOne
<1>3. ASSUME NEW n \in AllNames
      PROVE  IF ClassOnTop(chain[n]) = None THEN Named(n) = {}
             ELSE Named(n) = {ClassOnTop(chain[n])}
  <2>1. \A i \in 1 .. Len(chain[n]) : chain[n][i] # Member => Named(n) = {chain[n][i]}
    <3> TAKE i \in 1 .. Len(chain[n])
    <3>1. Holds(n, chain[n][i])
      BY <1>1 DEF ResolverInv
    <3> QED BY <1>2, <3>1 DEF Holds
  <2>2. \A i \in 1 .. Len(chain[n]) : chain[n][i] = Member => Named(n) = {}
    <3> TAKE i \in 1 .. Len(chain[n])
    <3> HAVE chain[n][i] = Member
    <3>1. Holds(n, chain[n][i]) /\ Member \notin Classes
      BY <1>1, ClassFacts DEF ResolverInv
    <3>2. AtClass /\ \E m \in scope : prog[at].members[m].name = n
      BY <3>1 DEF Holds, AtClass
    <3>3. /\ at \in Ids /\ scope \in SUBSET (1 .. Len(prog[at].members))
          /\ Members(at) = prog[at].members
      BY <1>1, <3>2, ClassFacts DEF ClassTypeOK
    <3>4. PICK m \in 1 .. Len(Members(at)) : Members(at)[m].name = n
      BY <3>2, <3>3
    <3> QED BY <3>3, <3>4 DEF Distinct
  <2>3. chain[n] = <<>> => Named(n) = {}
    <3> SUFFICES ASSUME chain[n] = <<>>, NEW c \in Named(n) PROVE FALSE
      OBVIOUS
    <3>1. c \in globals /\ NameOf(c) = n
      BY DEF Named
    <3> QED BY <1>1, <3>1 DEF ResolverInv
  <2>4. chain[n] \in Seq(Classes \cup {Member})
    BY <1>1 DEF ClassTypeOK
  <2>5. CASE chain[n] = <<>>
    <3>1. ClassOnTop(chain[n]) = None
      BY <2>5, ClassFacts, <1>1 DEF ClassOnTop, Head1
    <3> QED BY <2>3, <2>5, <3>1
  <2>6. CASE chain[n] # <<>>
    <3>1. Len(chain[n]) \in 1 .. Len(chain[n]) /\ Head1(chain[n]) = chain[n][Len(chain[n])]
      BY <1>1, <2>4, <2>6, TopFacts
    <3>2. Head1(chain[n]) \in Classes \cup {Member}
      BY <2>4, <3>1, ElementOfSeq
    <3>3. None \notin Classes /\ Member # None
      BY <1>1, ClassFacts
    <3> QED BY <2>1, <2>2, <3>1, <3>2, <3>3 DEF ClassOnTop
  <2> QED BY <2>5, <2>6
<1>4. CASE d = ObjectClass
  <2>1. SuperClass(d) = None /\ Above(d) = {}
    BY <1>4 DEF SuperClass, Above, ObjectClass, IntClass
  <2> QED BY <2>1
<1>5. CASE d = IntClass
  <2>1. SuperClass(d) = ClassOnTop(chain["object"]) /\ Above(d) = Named("object")
    BY <1>5 DEF SuperClass, Above, IntClass, ObjectClass
  <2>2. "object" \in AllNames
    BY DEF AllNames
  <2> QED BY <1>3, <2>1, <2>2
<1>6. CASE d \in Ids
  <2>1. d # ObjectClass /\ d # IntClass /\ prog[d].super \in AllNames
    BY <1>1, <1>6, ClassFacts DEF PredefinedClasses
  <2>2. SuperClass(d) = ClassOnTop(chain[prog[d].super]) /\ Above(d) = Named(prog[d].super)
    BY <2>1 DEF SuperClass, Above
  <2> QED BY <1>3, <2>1, <2>2
<1> QED BY <1>4, <1>5, <1>6 DEF Classes, PredefinedClasses

\* From one number to the next, up to N.
LEMMA UpTo ==
  ASSUME NEW N \in Nat, NEW T, 0 \in T, \A n \in 0 .. N - 1 : n \in T => n + 1 \in T
  PROVE  \A n \in 0 .. N : n \in T
<1> DEFINE Bad == {n \in Nat : n <= N /\ n \notin T}
<1>1. Bad = {}
  <2> SUFFICES ASSUME Bad # {} PROVE FALSE
    OBVIOUS
  <2>1. PICK n \in Bad : \A m \in Bad : n <= m
    <3>1. Bad \in SUBSET Nat
      OBVIOUS
    <3> HIDE DEF Bad
    <3> QED BY <3>1, LeastNat
  <2>2. n # 0 /\ n - 1 \in 0 .. N - 1 /\ n - 1 \in T
    BY <2>1
  <2>3. (n - 1) + 1 \in T /\ (n - 1) + 1 = n
    BY <2>1, <2>2
  <2> QED BY <2>1, <2>3
<1> QED BY <1>1

\* The levels above a class: one class each, as long as there is one.
LEMMA LevelsOne ==
  ASSUME IsProgram(prog), Distinct, NEW c \in Classes
  PROVE  \A k \in 0 .. Len(prog) + 1 :
           /\ Level(c)[k] \in SUBSET Classes
           /\ Level(c)[k] = {} \/ \E u \in Classes : Level(c)[k] = {u}
<1> DEFINE N == Len(prog) + 1  level == Level(c)
           One(k) == /\ level[k] \in SUBSET Classes
                     /\ level[k] = {} \/ \E u \in Classes : level[k] = {u}
           T == {k \in 0 .. N : One(k)}
<1>1. N \in Nat /\ level[0] = {c} /\ \A k \in 1 .. N : level[k] = AboveAll(level[k - 1])
  BY LevelIs, ClassFacts
<1> HIDE DEF level, N
<1>2. ASSUME NEW n \in 0 .. N - 1, One(n) PROVE One(n + 1)
  <2>1. level[n + 1] = AboveAll(level[n])
    <3>1. n + 1 \in 1 .. N /\ (n + 1) - 1 = n
      BY <1>1
    <3> QED BY <1>1, <3>1
  <2>2. CASE level[n] = {}
    BY <2>1, <2>2 DEF AboveAll
  <2>3. CASE \E u \in Classes : level[n] = {u}
    <3>1. PICK u \in Classes : level[n] = {u}
      BY <2>3
    <3>2. level[n + 1] = Above(u)
      BY <2>1, <3>1 DEF AboveAll
    <3> QED BY <3>2, AboveOne
  <2> QED BY <1>2, <2>2, <2>3
<1>3. 0 \in T
  BY <1>1
<1>4. \A n \in 0 .. N - 1 : n \in T => n + 1 \in T
  <2>1. \A n \in 0 .. N - 1 : n + 1 \in 0 .. N
    BY <1>1
  <2> HIDE DEF One
  <2> QED BY <1>2, <2>1
<1>5. \A n \in 0 .. N : n \in T
  <2> HIDE DEF T
  <2> QED BY <1>1, <1>3, <1>4, UpTo
<1> QED BY <1>5 DEF level, N

\* Above a level without a class there is none.
LEMMA LevelsEnd ==
  ASSUME IsProgram(prog), NEW c, NEW k \in 0 .. Len(prog) + 1, Level(c)[k] = {},
         NEW j \in 0 .. Len(prog) + 1, k <= j
  PROVE  Level(c)[j] = {}
<1> DEFINE N == Len(prog) + 1  level == Level(c)
           T == {n \in 0 .. N : n < k \/ level[n] = {}}
<1>1. N \in Nat /\ \A n \in 1 .. N : level[n] = AboveAll(level[n - 1])
  BY LevelIs, ClassFacts
<1>2. level[k] = {} /\ k \in 0 .. N /\ j \in 0 .. N
  OBVIOUS
<1> HIDE DEF level, N
<1>3. 0 \in T
  BY <1>1, <1>2
<1>4. \A n \in 0 .. N - 1 : n \in T => n + 1 \in T
  <2> TAKE n \in 0 .. N - 1
  <2> HAVE n \in T
  <2>1. n + 1 \in 0 .. N /\ level[n + 1] = AboveAll(level[n])
    <3>1. n + 1 \in 1 .. N /\ (n + 1) - 1 = n
      BY <1>1
    <3> QED BY <1>1, <3>1
  <2>2. CASE level[n] = {}
    BY <2>1, <2>2 DEF AboveAll
  <2>3. CASE n < k
    <3>1. n + 1 < k \/ n + 1 = k
      BY <1>2, <2>3
    <3> QED BY <1>2, <2>1, <3>1
  <2> QED BY <2>2, <2>3
<1>5. \A n \in 0 .. N : n \in T
  <2> HIDE DEF T
  <2> QED BY <1>1, <1>3, <1>4, UpTo
<1> QED BY <1>2, <1>5 DEF level

\* Two equal levels are followed by equal levels.
LEMMA LevelsRepeat ==
  ASSUME IsProgram(prog), NEW c, NEW x \in 0 .. Len(prog) + 1, NEW y \in 0 .. Len(prog) + 1,
         x < y, Level(c)[x] = Level(c)[y]
  PROVE  \A m \in 0 .. Len(prog) + 1 - y : Level(c)[x + m] = Level(c)[y + m]
<1> DEFINE N == Len(prog) + 1  level == Level(c)
           T == {m \in 0 .. N - y : level[x + m] = level[y + m]}
<1>1. N \in Nat /\ \A n \in 1 .. N : level[n] = AboveAll(level[n - 1])
  BY LevelIs, ClassFacts
<1>2. level[x] = level[y] /\ x \in 0 .. N /\ y \in 0 .. N
  OBVIOUS
<1> HIDE DEF level, N
<1>3. N - y \in Nat /\ 0 \in T
  BY <1>1, <1>2
<1>4. \A m \in 0 .. (N - y) - 1 : m \in T => m + 1 \in T
  <2> TAKE m \in 0 .. (N - y) - 1
  <2> HAVE m \in T
  <2>1. /\ m + 1 \in 0 .. N - y /\ x + (m + 1) \in 1 .. N /\ y + (m + 1) \in 1 .. N
        /\ (x + (m + 1)) - 1 = x + m /\ (y + (m + 1)) - 1 = y + m
    BY <1>1, <1>2
  <2>2. level[x + (m + 1)] = AboveAll(level[x + m]) /\ level[y + (m + 1)] = AboveAll(level[y + m])
    BY <1>1, <2>1
  <2> QED BY <2>1, <2>2
<1>5. \A m \in 0 .. N - y : m \in T
  <2> HIDE DEF T
  <2> QED BY <1>3, <1>4, UpTo
<1> QED BY <1>5 DEF level, N

\* There are as many levels as classes.
LEMMA ClassesCount ==
  ASSUME IsProgram(prog)
  PROVE  IsFiniteSet(Classes) /\ Cardinality(Classes) = Len(prog) + 2
<1>1. Len(prog) \in Nat
  BY ClassFacts
<1>2. Classes = -1 .. Len(prog)
  BY <1>1 DEF Classes, Ids, PredefinedClasses, ObjectClass, IntClass
<1>3. IsFiniteSet(-1 .. Len(prog)) /\ Cardinality(-1 .. Len(prog)) = Len(prog) - (-1) + 1
  <2>1. -1 \in Int /\ Len(prog) \in Int /\ ~(-1 > Len(prog))
    BY <1>1
  <2> QED BY <2>1, FS_Interval
<1> QED BY <1>1, <1>2, <1>3

OnLevel(c, d, k) == \E j \in Levels : j <= k /\ Level(c)[j] = {d}

\* The class above that of a level is on a level: on the next one or, if that
\* was the last, on one that the search has passed.
LEMMA LevelAbove ==
  ASSUME IsProgram(prog), Distinct, NEW c \in Classes, NEW a \in Classes, NEW d \in Classes,
         NEW k \in Levels, Level(c)[k] = {a}, Above(a) = {d}
  PROVE  OnLevel(c, d, k + 1)
<1> DEFINE N == Len(prog) + 1  level == Level(c)
<1>1. N \in Nat /\ \A n \in 1 .. N : level[n] = AboveAll(level[n - 1])
  BY LevelIs, ClassFacts
<1>2. level[k] = {a} /\ k \in 0 .. N
  BY DEF Levels
<1>3. \A n \in 0 .. N : level[n] = {} \/ \E u \in Classes : level[n] = {u}
  BY LevelsOne
<1>4. \A n \in 0 .. N : level[n] = {} /\ n <= k => level[k] = {}
  BY LevelsEnd DEF Levels
<1>5. \A x, y \in 0 .. N : x < y /\ level[x] = level[y] =>
        \A m \in 0 .. N - y : level[x + m] = level[y + m]
  BY LevelsRepeat
<1>6. IsFiniteSet(Classes) /\ Cardinality(Classes) = N + 1
  BY <1>1, ClassesCount, ClassFacts
<1> HIDE DEF level, N
<1>7. \A n \in 0 .. N - 1 : level[n] = {a} => level[n + 1] = {d} /\ n + 1 \in 0 .. N
  <2> TAKE n \in 0 .. N - 1
  <2> HAVE level[n] = {a}
  <2>1. n + 1 \in 1 .. N /\ (n + 1) - 1 = n
    BY <1>1
  <2> QED BY <1>1, <2>1 DEF AboveAll
<1>8. CASE k < N
  <2>1. k \in 0 .. N - 1 /\ k + 1 <= k + 1
    BY <1>1, <1>2, <1>8
  <2>2. level[k + 1] = {d} /\ k + 1 \in 0 .. N
    BY <1>2, <1>7, <2>1
  <2> QED BY <2>1, <2>2 DEF level, N, Levels, OnLevel
<1>9. CASE k = N
  <2>1. SUFFICES ASSUME ~ \E j \in 0 .. N : level[j] = {d} PROVE FALSE
    <3>1. \A j \in 0 .. N : j <= k + 1
      BY <1>1, <1>9
    <3> QED BY <3>1 DEF level, N, Levels, OnLevel
  <2> DEFINE g == [j \in 0 .. N + 1 |->
                     IF j = N + 1 THEN d ELSE CHOOSE u \in Classes : level[j] = {u}]
  <2>2. \A j \in 0 .. N : g[j] \in Classes /\ level[j] = {g[j]}
    <3> TAKE j \in 0 .. N
    <3>1. j \in 0 .. N + 1 /\ j # N + 1 /\ j <= k
      BY <1>1, <1>9
    <3>2. \E u \in Classes : level[j] = {u}
      BY <1>2, <1>3, <1>4, <3>1
    <3>3. g[j] = CHOOSE u \in Classes : level[j] = {u}
      BY <3>1
    <3> HIDE DEF g
    <3> QED BY <3>2, <3>3, Zenon
  <2>3. N + 1 \in 0 .. N + 1 /\ g[N + 1] = d
    BY <1>1
  <2>4. g = [j \in 0 .. N + 1 |-> g[j]]
    OBVIOUS
  <2> HIDE DEF g
  <2>5. \A j \in 0 .. N + 1 : j = N + 1 \/ j \in 0 .. N
    BY <1>1
  <2>6. \A j \in 0 .. N + 1 : g[j] \in Classes
    BY <2>2, <2>3, <2>5
  <2>7. g \in [0 .. N + 1 -> Classes]
    BY <2>4, <2>6
  <2>8. IsFiniteSet(0 .. N + 1) /\ Cardinality(Classes) < Cardinality(0 .. N + 1)
    <3>1. 0 \in Int /\ N + 1 \in Int /\ ~(0 > N + 1)
      BY <1>1
    <3>2. IsFiniteSet(0 .. N + 1) /\ Cardinality(0 .. N + 1) = (N + 1) - 0 + 1
      BY <3>1, FS_Interval
    <3> QED BY <1>1, <1>6, <3>2
  <2>9. \E x, y \in 0 .. N + 1 : x # y /\ g[x] = g[y]
    <3> DEFINE S == 0 .. N + 1
    <3>1. IsFiniteSet(S) /\ Cardinality(Classes) < Cardinality(S) /\ g \in [S -> Classes]
      BY <2>7, <2>8
    <3> HIDE DEF S
    <3>2. \E x, y \in S : x # y /\ g[x] = g[y]
      BY ONLY <1>6, <3>1, FS_PigeonHole
    <3> QED BY <3>2 DEF S
  <2>10. PICK x, y \in 0 .. N + 1 : x < y /\ g[x] = g[y]
    <3>1. \A x, y \in 0 .. N + 1 : x # y => x < y \/ y < x
      BY <1>1
    <3> QED BY <2>9, <3>1
  <2>11. x \in 0 .. N
    BY <1>1, <2>10
  <2>12. y \in 0 .. N
    BY <2>1, <2>2, <2>3, <2>5, <2>10, <2>11
  <2>13. level[x] = level[y]
    BY <2>2, <2>10, <2>11, <2>12
  <2>14. /\ N - y \in 0 .. N - y /\ y + (N - y) = N /\ x + (N - y) \in 0 .. N - 1
    BY <1>1, <2>10, <2>11, <2>12
  <2>15. level[x + (N - y)] = {a}
    <3>1. \A m \in 0 .. N - y : level[x + m] = level[y + m]
      BY <1>5, <2>10, <2>11, <2>12, <2>13
    <3>2. level[x + (N - y)] = level[y + (N - y)]
      BY <2>14, <3>1
    <3> QED BY <1>2, <1>9, <2>14, <3>2
  <2> QED BY <1>7, <2>1, <2>14, <2>15
<1> QED BY <1>1, <1>2, <1>8, <1>9

LEMMA NearestKept ==
  ASSUME prog' = prog
  PROVE  /\ \A f : Nearest(f)' <=> Nearest(f)
         /\ \A w, k : SearchAt(w, k)' <=> SearchAt(w, k)
<1>1. /\ \A c : Level(c)' = Level(c) /\ Members(c)' = Members(c)
      /\ \A c, n : Declares(c, n)' <=> Declares(c, n)
      /\ Levels' = Levels
  BY TextKept, LevelKept DEF Declares, Levels
<1>2. \A c, n, k : DeclaredAt(c, n, k)' <=> DeclaredAt(c, n, k)
  BY <1>1 DEF DeclaredAt
<1>3. \A f : Nearest(f)' <=> Nearest(f)
  BY <1>1, <1>2 DEF Nearest
<1>4. \A w, k : SearchAt(w, k)' <=> SearchAt(w, k)
  BY <1>1, <1>2 DEF SearchAt
<1> QED BY <1>3, <1>4

\* A step that leaves the search alone, or forgets its result.
LEMMA SearchKept ==
  ASSUME SearchInv, ClassInv', prog' = prog, walk' = walk, found' = found \/ found' = Nothing,
         phase' = "declare" => phase = "declare",
         Distinct => globals' = DeclaredClasses'
  PROVE  SearchInv'
<1>1. /\ Classes' = Classes /\ (Distinct' <=> Distinct) /\ Idle' = Idle
      /\ Nothing' = Nothing /\ Levels' = Levels
  BY TextKept, LevelKept DEF Idle, Nothing, Levels
<1>2. NearestFound'
  BY <1>1, NearestKept DEF SearchInv, NearestFound
<1>3. \A k, w : SearchAt(w, k)' <=> SearchAt(w, k)
  BY NearestKept
<1> QED BY <1>1, <1>2, <1>3 DEF SearchInv, DeclaredClasses, PredefinedClasses

LEMMA SearchDeclares ==
  ASSUME SearchInv, ClassInv', DeclareClass \/ EndDeclare
  PROVE  SearchInv'
<1>1. /\ IsProgram(prog) /\ Len(prog) \in Nat /\ phase = "declare"
      /\ UNCHANGED <<prog, walk, found>> /\ at \in 1 .. Len(prog) + 1
  BY ClassFacts DEF SearchInv, ClassInv, ClassTypeOK, DeclareClass, EndDeclare
<1>2. Distinct => globals' = DeclaredClasses'
  <2> SUFFICES ASSUME Distinct
               PROVE  globals' = DeclaredClasses'
    OBVIOUS
  <2>1. globals = PredefinedClasses \cup 1 .. at - 1
    BY <1>1 DEF SearchInv, DeclaredClasses
  <2>2. CASE DeclareClass
    <3>1. at \in Ids /\ at' = at + 1 /\ phase' = "declare"
      BY <2>2 DEF DeclareClass
    <3>2. ~ \E c \in globals : NameOf(c) = NameOf(at)
      <4> SUFFICES ASSUME NEW c \in globals, NameOf(c) = NameOf(at) PROVE FALSE
        OBVIOUS
      <4>1. c \in Classes /\ c # at
        BY <1>1, <2>1, <3>1, ClassFacts DEF Classes, Ids
      <4>2. c \in Named(prog[at].name)
        BY <1>1, <3>1, <4>1, ClassFacts DEF Named
      <4> QED BY <3>1, <4>1, <4>2 DEF Distinct
    <3>3. globals' = globals \cup {at}
      BY <2>2, <3>2 DEF DeclareClass
    <3>4. 1 .. at' - 1 = (1 .. at - 1) \cup {at}
      BY <1>1, <3>1 DEF Ids
    <3> QED BY <2>1, <3>1, <3>3, <3>4 DEF DeclaredClasses, PredefinedClasses
  <2>3. CASE EndDeclare
    <3>1. at = Len(prog) + 1 /\ globals' = globals /\ phase' = "enter"
      BY <1>1, <2>3 DEF EndDeclare, Ids
    <3>2. 1 .. at - 1 = Ids
      BY <1>1, <3>1 DEF Ids
    <3>3. Classes' = Classes
      BY <1>1, TextKept
    <3> QED BY <2>1, <3>1, <3>2, <3>3 DEF DeclaredClasses, Classes
  <2> QED BY <2>2, <2>3
<1> QED BY <1>1, <1>2, SearchKept

LEMMA SearchWaits ==
  ASSUME SearchInv, ClassInv',
         \/ EnterClass \/ DeclareMember \/ EndMembers \/ VisitMember \/ LeaveClass \/ EndClasses
         \/ UNCHANGED classVars
  PROVE  SearchInv'
<1>1. /\ UNCHANGED <<prog, globals, walk>> /\ (found' = found \/ found' = Nothing)
      /\ (phase' = "declare" <=> phase = "declare")
      /\ (phase = "declare" => at' = at)
  BY DEF EnterClass, DeclareMember, EndMembers, VisitMember, LeaveClass, EndClasses, classVars
<1>2. Distinct => globals' = DeclaredClasses'
  BY <1>1, TextKept DEF SearchInv, DeclaredClasses, PredefinedClasses
<1> QED BY <1>1, <1>2, SearchKept

LEMMA SearchStarts ==
  ASSUME SearchInv, ClassInv', NEW c \in globals, NEW n \in MemberNames, Access(c, n)
  PROVE  SearchInv'
<1> DEFINE w == [of |-> c, name |-> n, at |-> c]
<1>1. /\ IsProgram(prog) /\ Len(prog) \in Nat /\ walk' = w /\ found' = Nothing
      /\ UNCHANGED <<prog, phase, at, globals>> /\ phase # "declare"
  BY ClassFacts DEF SearchInv, ClassInv, ClassTypeOK, Access
<1>2. w.of = c /\ w.at = c
  OBVIOUS
<1> HIDE DEF w
<1>3. SearchAt(w, 0) /\ 0 \in Levels
  <2>1. Level(c)[0] = {c} /\ \A j \in 0 .. 0 - 1 : FALSE
    BY <1>1, LevelIs
  <2> QED BY <1>1, <1>2, <2>1 DEF SearchAt, Levels
<1>4. SearchAt(w, 0)' /\ 0 \in Levels'
  BY <1>1, <1>3, NearestKept DEF Levels
<1>5. SearchAt(walk, 0)'
  BY <1>1, <1>4 DEF SearchAt
<1>6. NearestFound'
  BY <1>1 DEF NearestFound, Nothing, None
<1>7. (Distinct' <=> Distinct) /\ Classes' = Classes
  BY <1>1, TextKept, LevelKept
<1> QED BY <1>1, <1>4, <1>5, <1>6, <1>7 DEF SearchInv, DeclaredClasses, PredefinedClasses

\* A search under way, as its steps find it.
LEMMA SearchState ==
  ASSUME SearchInv, walk # Idle
  PROVE  /\ ClassInv /\ IsProgram(prog) /\ Len(prog) \in Nat /\ walk \in Walks
         /\ walk.of \in Classes /\ walk.at \in Classes /\ phase # "declare"
         /\ Distinct => globals = Classes /\ \E k \in Levels : SearchAt(walk, k)
  BY ClassFacts DEF SearchInv, DeclaredClasses, ClassInv, ClassTypeOK, Walks

\* The result is the first class on the way that has the member.
LEMMA SearchEndsHere ==
  ASSUME SearchInv, FindHere, Distinct, NEW f, found' = f
  PROVE  Nearest(f)
<1>1. /\ f = [of |-> walk.of, name |-> walk.name, class |-> walk.at,
              member |-> First(walk.at, walk.name)]
      /\ walk # Idle /\ Declares(walk.at, walk.name)
  BY DEF FindHere
<1>2. PICK k \in Levels : SearchAt(walk, k)
  BY <1>1, SearchState
<1>3. /\ f.of = walk.of /\ f.name = walk.name /\ f.class = walk.at
      /\ f.member = First(walk.at, walk.name)
  BY <1>1
<1>4. DeclaredAt(f.of, f.name, k) /\ f.class \in Level(f.of)[k]
      /\ \A j \in 0 .. k - 1 : ~DeclaredAt(f.of, f.name, j)
  BY <1>1, <1>2, <1>3 DEF SearchAt, DeclaredAt
<1>5. Members(f.class)[f.member].name = f.name
  BY <1>1, <1>3, SearchState, FirstFacts
<1> QED BY <1>4, <1>5 DEF Nearest

\* No class on the way has the member, and there is none above.
LEMMA SearchEndsNowhere ==
  ASSUME SearchInv, FindNothing, Distinct, NEW f, found' = f
  PROVE  Nearest(f)
<1>1. /\ f = [Nothing EXCEPT !.of = walk.of, !.name = walk.name]
      /\ walk # Idle /\ ~Declares(walk.at, walk.name) /\ SuperClass(walk.at) = None
  BY DEF FindNothing
<1>2. PICK k \in Levels : SearchAt(walk, k)
  BY <1>1, SearchState
<1>3. f.of = walk.of /\ f.name = walk.name /\ f.class = None
  BY <1>1 DEF Nothing
<1>4. Above(walk.at) = {}
  BY <1>1, SearchState, SuperClassAbove
<1>5. ASSUME NEW j \in Levels, k < j PROVE Level(walk.of)[j] = {}
  <2>1. /\ IsProgram(prog) /\ k \in 0 .. Len(prog) + 1 /\ j \in 0 .. Len(prog) + 1
        /\ Len(prog) \in Nat
    BY <1>1, SearchState DEF Levels
  <2>2. k + 1 \in 1 .. Len(prog) + 1 /\ (k + 1) - 1 = k /\ k + 1 <= j
    BY <1>5, <2>1
  <2>3. Level(walk.of)[k + 1] = AboveAll({walk.at})
    <3>1. PICK c : c = walk.of
      OBVIOUS
    <3>2. Level(c)[k + 1] = AboveAll(Level(c)[k])
      BY <2>1, <2>2, LevelIs
    <3> QED BY <1>2, <3>1, <3>2 DEF SearchAt
  <2>4. Level(walk.of)[k + 1] = {}
    BY <1>4, <2>3 DEF AboveAll
  <2>5. k + 1 \in 0 .. Len(prog) + 1
    BY <2>1, <2>2
  <2> QED BY <2>1, <2>2, <2>4, <2>5, LevelsEnd
<1>6. \A j \in Levels : ~DeclaredAt(f.of, f.name, j)
  <2> TAKE j \in Levels
  <2>1. CASE k < j
    BY <1>3, <1>5, <2>1 DEF DeclaredAt
  <2>2. CASE j = k
    BY <1>1, <1>2, <1>3, <2>2 DEF DeclaredAt, SearchAt
  <2>3. CASE j < k
    <3>1. j \in 0 .. k - 1
      BY <1>1, <1>2, <2>3, SearchState DEF Levels
    <3> QED BY <1>2, <1>3, <3>1 DEF SearchAt
  <2>4. j \in Nat /\ k \in Nat
    BY <1>1, SearchState DEF Levels
  <2> QED BY <2>1, <2>2, <2>3, <2>4
<1> QED BY <1>3, <1>6 DEF Nearest

\* One step up.
LEMMA SearchGoesUp ==
  ASSUME SearchInv, FindAbove, Distinct, NEW w, walk' = w
  PROVE  \E k \in Levels : SearchAt(w, k)
<1>1. /\ walk # Idle /\ w = [walk EXCEPT !.at = SuperClass(walk.at)]
      /\ ~Declares(walk.at, walk.name) /\ SuperClass(walk.at) # None
  BY DEF FindAbove
<1>2. PICK k \in Levels : SearchAt(walk, k)
  BY <1>1, SearchState
<1> DEFINE d == SuperClass(walk.at)
<1>3. w.of = walk.of /\ w.name = walk.name /\ w.at = d
  BY <1>1, SearchState DEF Walks
<1>4. Above(walk.at) = {d} /\ d \in Classes
  BY <1>1, SearchState, SuperClassAbove, AboveOne
<1> HIDE DEF d
<1>5. k \in 0 .. Len(prog) + 1 /\ Len(prog) \in Nat
  BY <1>1, SearchState DEF Levels
<1>6. PICK j \in Levels : j <= k + 1 /\ Level(walk.of)[j] = {d}
  <2>1. PICK c, a, e : c = walk.of /\ a = walk.at /\ e = d
    OBVIOUS
  <2>2. IsProgram(prog) /\ Distinct /\ c \in Classes /\ a \in Classes /\ e \in Classes
    BY <1>1, <1>4, <2>1, SearchState
  <2>3. Level(c)[k] = {a} /\ Above(a) = {e}
    BY <1>2, <1>4, <2>1 DEF SearchAt
  <2>4. OnLevel(c, e, k + 1)
    BY <2>2, <2>3, LevelAbove
  <2> QED BY <2>1, <2>4 DEF OnLevel
<1>7. \A i \in 0 .. j - 1 : ~DeclaredAt(w.of, w.name, i)
  <2> TAKE i \in 0 .. j - 1
  <2>1. i \in 0 .. k - 1 \/ i = k
    BY <1>5, <1>6 DEF Levels
  <2>2. CASE i = k
    BY <1>1, <1>2, <1>3, <2>2 DEF SearchAt, DeclaredAt
  <2>3. CASE i \in 0 .. k - 1
    BY <1>2, <1>3, <2>3 DEF SearchAt
  <2> QED BY <2>1, <2>2, <2>3
<1> QED BY <1>3, <1>6, <1>7 DEF SearchAt, Levels

LEMMA SearchFinds ==
  ASSUME SearchInv, ClassInv', Find
  PROVE  SearchInv'
<1>1. UNCHANGED <<prog, phase, at, globals>> /\ walk # Idle
  BY DEF Find, FindHere, FindAbove, FindNothing
<1>2. /\ Classes' = Classes /\ (Distinct' <=> Distinct) /\ Idle' = Idle
      /\ Nothing' = Nothing /\ Levels' = Levels
  BY <1>1, TextKept, LevelKept DEF Idle, Nothing, Levels
<1>3. Distinct => globals' = Classes
  BY <1>1, SearchState
<1>4. CASE FindHere \/ FindNothing
  <2>1. walk' = Idle
    BY <1>4 DEF FindHere, FindNothing
  <2>2. PICK f : f = found'
    OBVIOUS
  <2>3. Distinct => Nearest(f)
    BY <1>4, <2>2, SearchEndsHere, SearchEndsNowhere
  <2>4. Distinct' => Nearest(f)'
    BY <1>1, <1>2, <2>3, NearestKept
  <2>5. NearestFound'
    BY <2>2, <2>4 DEF NearestFound
  <2> QED BY <1>1, <1>2, <1>3, <2>1, <2>5, SearchState DEF SearchInv, DeclaredClasses
<1>5. CASE FindAbove
  <2>1. PICK w : w = walk'
    OBVIOUS
  <2>2. Distinct => \E k \in Levels : SearchAt(w, k)
    BY <1>5, <2>1, SearchGoesUp
  <2>3. Distinct' => \E k \in Levels' : SearchAt(w, k)'
    BY <1>1, <1>2, <2>2, NearestKept
  <2>4. Distinct' => \E k \in Levels' : SearchAt(walk, k)'
    BY <2>1, <2>3 DEF SearchAt
  <2>5. NearestFound'
    <3>1. found' = found
      BY <1>5 DEF FindAbove
    <3> QED BY <1>1, <1>2, <3>1, NearestKept DEF SearchInv, NearestFound
  <2> QED BY <1>1, <1>2, <1>3, <2>4, <2>5, SearchState DEF SearchInv, DeclaredClasses
<1> QED BY <1>4, <1>5 DEF Find

\* Whatever the program, a search for a member that ends has found the nearest
\* one by the super-classes of the text, or there is none.
THEOREM SearchFindsNearest == ClassSpec => []NearestFound
<1>1. ClassInit => SearchInv
  <2> SUFFICES ASSUME ClassInit PROVE SearchInv
    OBVIOUS
  <2>1. 1 .. at - 1 = {} /\ phase = "declare" /\ walk = Idle /\ found = Nothing
        /\ globals = PredefinedClasses
    BY DEF ClassInit
  <2> QED BY <2>1, ClassInit0 DEF SearchInv, DeclaredClasses, NearestFound
<1>2. SearchInv /\ ClassInv' /\ [ClassNext]_classVars => SearchInv'
  BY SearchDeclares, SearchWaits, SearchStarts, SearchFinds DEF ClassNext
<1>3. SearchInv => NearestFound
  BY DEF SearchInv
<1> QED BY <1>1, <1>2, <1>3, ClassInvariant, PTL DEF ClassSpec
=============================================================================
