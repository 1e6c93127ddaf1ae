-------------------------- MODULE SemaScopesProofs --------------------------
(***************************************************************************)
(* Proofs about declarations and scopes: for every set of programs the     *)
(* resolver holds a declaration as often as open scopes do, a scope pops   *)
(* only what is registered, a name is that of the innermost scope that has *)
(* it and, without errors, means what lexical scoping says, and a null     *)
(* type is cast only for a variable that is defined later.                 *)
(***************************************************************************)
EXTENDS SemaScopes, Counting

\* The scopes of q that hold d.
Holding(q, d) == {k \in 1 .. Len(q) : d \in q[k]}
Holds(q, d) == Cardinality(Holding(q, d))

\* A class that was traversed is in its chain once more.
Extra(d) == IF d \in Traversed THEN 1 ELSE 0

FrameSet == [decl : 0 .. Len(prog), phase : Phases, at : 0 .. Len(prog)]

-----------------------------------------------------------------------------
(* Counting scopes.                                                        *)

LEMMA HoldsType ==
  ASSUME NEW D, NEW q \in Seq(SUBSET D), NEW d
  PROVE  IsFiniteSet(Holding(q, d)) /\ Holds(q, d) \in Nat
<1>1. IsFiniteSet(1 .. Len(q)) /\ Holding(q, d) \in SUBSET (1 .. Len(q))
  BY FS_Interval DEF Holding
<1>2. IsFiniteSet(Holding(q, d))
  BY <1>1, FS_Subset
<1> QED BY <1>2, FS_CardinalityType DEF Holds

\* A declaration enters the innermost scope.
LEMMA HoldsAdd ==
  ASSUME NEW D, NEW q \in Seq(SUBSET D), q # <<>>, NEW e, e \notin q[Len(q)],
         NEW r \in Seq(SUBSET D), Len(r) = Len(q), r[Len(q)] = q[Len(q)] \cup {e},
         \A k \in 1 .. Len(q) : k # Len(q) => r[k] = q[k],
         NEW d
  PROVE  Holds(r, d) = Holds(q, d) + (IF d = e THEN 1 ELSE 0)
<1>1. Len(q) \in Nat /\ Len(q) > 0
  OBVIOUS
<1>2. d # e => Holding(r, d) = Holding(q, d)
  BY <1>1 DEF Holding
<1>3. Len(q) \notin Holding(q, e) /\ Holding(r, e) = Holding(q, e) \cup {Len(q)}
  BY <1>1 DEF Holding
<1>4. Holds(r, e) = Holds(q, e) + 1
  BY <1>3, HoldsType, FS_AddElement DEF Holds
<1>5. Holds(q, d) \in Nat
  BY HoldsType
<1> QED BY <1>2, <1>4, <1>5 DEF Holds

\* One leaves it.
LEMMA HoldsRemove ==
  ASSUME NEW D, NEW q \in Seq(SUBSET D), q # <<>>, NEW e, e \in q[Len(q)],
         NEW r \in Seq(SUBSET D), Len(r) = Len(q), r[Len(q)] = q[Len(q)] \ {e},
         \A k \in 1 .. Len(q) : k # Len(q) => r[k] = q[k],
         NEW d
  PROVE  Holds(q, d) = Holds(r, d) + (IF d = e THEN 1 ELSE 0)
<1>1. Len(q) \in Nat /\ Len(q) > 0
  OBVIOUS
<1>2. d # e => Holding(r, d) = Holding(q, d)
  BY <1>1 DEF Holding
<1>3. Len(q) \notin Holding(r, e) /\ Holding(q, e) = Holding(r, e) \cup {Len(q)}
  BY <1>1 DEF Holding
<1>4. Holds(q, e) = Holds(r, e) + 1
  BY <1>3, HoldsType, FS_AddElement DEF Holds
<1>5. Holds(r, d) \in Nat
  BY HoldsType
<1> QED BY <1>2, <1>4, <1>5 DEF Holds

\* An empty scope is opened.
LEMMA HoldsOpen ==
  ASSUME NEW D, NEW q \in Seq(SUBSET D), NEW d
  PROVE  /\ Append(q, {}) \in Seq(SUBSET D) /\ Len(Append(q, {})) = Len(q) + 1
         /\ Holds(Append(q, {}), d) = Holds(q, d)
<1> DEFINE r == Append(q, {})
<1>1. /\ r \in Seq(SUBSET D) /\ Len(r) = Len(q) + 1 /\ Len(q) \in Nat
      /\ r[Len(q) + 1] = {} /\ \A k \in 1 .. Len(q) : r[k] = q[k]
  OBVIOUS
<1> HIDE DEF r
<1>2. Holding(r, d) = Holding(q, d)
  BY <1>1 DEF Holding
<1>3. Holds(r, d) = Holds(q, d)
  BY <1>2 DEF Holds
<1> QED BY <1>1, <1>3 DEF r

\* One is closed.
LEMMA HoldsClose ==
  ASSUME NEW D, NEW q \in Seq(SUBSET D), q # <<>>, q[Len(q)] = {}, NEW d
  PROVE  LET r == SubSeq(q, 1, Len(q) - 1) IN
         /\ r \in Seq(SUBSET D) /\ Len(r) = Len(q) - 1
         /\ Holds(r, d) = Holds(q, d)
<1> DEFINE r == SubSeq(q, 1, Len(q) - 1)
<1>1. /\ Len(q) \in Nat /\ Len(q) > 0 /\ r \in Seq(SUBSET D) /\ Len(r) = Len(q) - 1
      /\ \A k \in 1 .. Len(q) - 1 : r[k] = q[k]
  BY Shortened
<1> HIDE DEF r
<1>2. Holding(r, d) = Holding(q, d)
  BY <1>1 DEF Holding
<1>3. Holds(r, d) = Holds(q, d)
  BY <1>2 DEF Holds
<1> QED BY <1>1, <1>3 DEF r

-----------------------------------------------------------------------------
(* The state.                                                              *)

LEMMA ProgramFacts ==
  ASSUME TypeOK
  PROVE  /\ Len(prog) \in Nat
         /\ \A i \in Ids : /\ prog[i].kind \in Kinds /\ prog[i].name \in AllNames
                           /\ prog[i].super \in AllNames /\ prog[i].up \in Nat
                           /\ prog[i].kind = "class" => prog[i].up = 0
                           /\ prog[i].kind = "nonlocal" => prog[i].up # 0
         /\ Ids \subseteq Decls /\ Predefined \subseteq Decls /\ 0 \notin Decls
         /\ \A d \in Decls : NameOf(d) \in AllNames
<1>1. prog \in Seq([kind : Kinds, name : Names, super : AllNames, up : Nat])
  BY DEF TypeOK, IsProgram
<1>2. \A i \in Ids : prog[i] \in [kind : Kinds, name : Names, super : AllNames, up : Nat]
  <2> DEFINE R == [kind : Kinds, name : Names, super : AllNames, up : Nat]
  <2> HIDE DEF R
  <2>1. prog \in Seq(R) => \A i \in 1 .. Len(prog) : prog[i] \in R
    OBVIOUS
  <2> QED BY <1>1, <2>1 DEF R, Ids
<1>3. \A i \in Ids : /\ prog[i].kind = "class" => prog[i].up = 0
                     /\ prog[i].kind = "nonlocal" => prog[i].up # 0
  BY DEF TypeOK, IsProgram, Ids
<1>4. \A d \in Decls : NameOf(d) \in AllNames
  BY <1>1, <1>2 DEF Decls, NameOf, AllNames, Predefined, ObjectClass, SpecialClass
<1> QED BY <1>1, <1>2, <1>3, <1>4
      DEF Decls, Ids, Predefined, ObjectClass, SpecialClass, AllNames

LEMMA FrameFacts ==
  ASSUME TypeOK
  PROVE  /\ Len(frames) \in Nat \ {0} /\ Len(scopes) = Len(frames) /\ scopes # <<>>
         /\ \A k \in 1 .. Len(frames) : frames[k] \in FrameSet
         /\ Top.decl \in 0 .. Len(prog) /\ Top.at \in 0 .. Len(prog)
         /\ frames[1].at \in 0 .. Len(prog)
         /\ Len(frames) = 1 <=> Top.decl = 0
         /\ Top.phase = "nested" => Top.at \in Ids
         /\ CurScope \in SUBSET Decls
<1>1. frames \in Seq(FrameSet) /\ frames # <<>> /\ Len(prog) \in Nat
  BY ProgramFacts DEF TypeOK, FramesOK, FrameSet
<1>2. Len(frames) \in Nat \ {0} /\ Len(scopes) = Len(frames)
  BY <1>1 DEF TypeOK
<1>3. scopes # <<>> /\ CurScope \in SUBSET Decls
  BY <1>2 DEF TypeOK, CurScope
<1>4. \A k \in 1 .. Len(frames) : frames[k] \in FrameSet
  BY <1>1
<1>5. Top \in FrameSet /\ frames[1] \in FrameSet
  BY <1>2, <1>4 DEF Top
<1>6. Len(frames) = 1 <=> Top.decl = 0
  BY <1>2 DEF TypeOK, FramesOK, Top
<1>7. Top.phase = "nested" => Top.at # 0
  BY <1>2 DEF TypeOK, FramesOK, Top
<1> QED BY <1>1, <1>2, <1>3, <1>4, <1>5, <1>6, <1>7 DEF FrameSet, Ids

\* The innermost traversal goes on.
LEMMA FramesMoved ==
  ASSUME TypeOK, prog' = prog, NEW ph \in Phases, NEW at \in 0 .. Len(prog),
         frames' = Moved(ph, at), ph = "nested" => at # 0
  PROVE  /\ FramesOK' /\ Len(frames') = Len(frames)
         /\ Len(frames) # 1 => frames'[1] = frames[1]
         /\ Len(frames) = 1 => frames'[1].phase = ph /\ frames'[1].at = at
<1> DEFINE n == Len(frames)
           f == [decl |-> Top.decl, phase |-> ph, at |-> at]
<1>1. /\ frames \in Seq(FrameSet) /\ n \in Nat /\ n > 0 /\ Top = frames[n]
      /\ Top \in FrameSet
  BY FrameFacts DEF TypeOK, FramesOK, FrameSet, Top
<1>2. f \in FrameSet
  BY <1>1 DEF FrameSet
<1>3. frames' = [frames EXCEPT ![n] = f]
  BY DEF Moved
<1>4. /\ frames' \in Seq(FrameSet) /\ Len(frames') = n
      /\ frames'[n] = f /\ \A k \in 1 .. n : k # n => frames'[k] = frames[k]
  <2> HIDE DEF f
  <2> QED BY <1>1, <1>2, <1>3, Replaced
<1>5. f.decl = Top.decl /\ f.phase = ph /\ f.at = at
  OBVIOUS
<1> HIDE DEF f
<1>6. frames'[1].decl = 0
  BY <1>1, <1>4, <1>5 DEF TypeOK, FramesOK
<1>7. ASSUME NEW k \in 1 .. Len(frames')
      PROVE  /\ k # 1 => frames'[k].decl # 0
             /\ frames'[k].phase = "nested" => frames'[k].at # 0
  <2>1. CASE k = n
    BY <1>1, <1>4, <1>5, <2>1 DEF TypeOK, FramesOK
  <2>2. CASE k # n
    BY <1>1, <1>4, <2>2 DEF TypeOK, FramesOK
  <2> QED BY <2>1, <2>2
<1>8. FramesOK'
  <2>1. frames' \in Seq(FrameSet)' /\ frames' # <<>>
    BY <1>1, <1>4 DEF FrameSet
  <2> QED BY ONLY <1>6, <1>7, <2>1, Zenon DEF FramesOK, FrameSet
<1> QED BY <1>1, <1>4, <1>5, <1>8

\* One is begun inside it.
LEMMA FramesPushed ==
  ASSUME TypeOK, prog' = prog, NEW ph \in Phases \ {"nested"},
         NEW at \in 0 .. Len(prog), NEW i \in Ids, NEW q \in Phases \ {"nested"},
         frames' = Append(Moved(ph, at), Frame(i, q))
  PROVE  /\ FramesOK' /\ Len(frames') = Len(frames) + 1
         /\ Len(frames) # 1 => frames'[1] = frames[1]
         /\ Len(frames) = 1 => frames'[1].phase = ph /\ frames'[1].at = at
<1> DEFINE n == Len(frames)
           f == [decl |-> Top.decl, phase |-> ph, at |-> at]
           g == Frame(i, q)
           m == [frames EXCEPT ![n] = f]
<1>1. /\ frames \in Seq(FrameSet) /\ n \in Nat /\ n > 0 /\ Top = frames[n]
      /\ Top \in FrameSet
  BY FrameFacts DEF TypeOK, FramesOK, FrameSet, Top
<1>2. f \in FrameSet /\ g \in FrameSet /\ g.decl # 0 /\ g.phase # "nested"
  BY <1>1, ProgramFacts DEF FrameSet, Frame, Ids
<1>3. frames' = Append(m, g)
  BY DEF Moved
<1>4. f.decl = Top.decl /\ f.phase = ph /\ f.at = at
  OBVIOUS
<1> HIDE DEF f, g
<1>5. /\ m \in Seq(FrameSet) /\ Len(m) = n
      /\ m[n] = f /\ \A k \in 1 .. n : k # n => m[k] = frames[k]
  BY <1>1, <1>2, Replaced
<1> HIDE DEF m
<1>6. /\ frames' \in Seq(FrameSet) /\ Len(frames') = n + 1 /\ frames'[n + 1] = g
      /\ \A k \in 1 .. n : frames'[k] = m[k]
  BY <1>2, <1>3, <1>5, Appended
<1>7. frames'[1].decl = 0
  BY <1>1, <1>4, <1>5, <1>6 DEF TypeOK, FramesOK
<1>8. ASSUME NEW k \in 1 .. Len(frames')
      PROVE  /\ k # 1 => frames'[k].decl # 0
             /\ frames'[k].phase = "nested" => frames'[k].at # 0
  <2>1. CASE k = n
    BY <1>1, <1>4, <1>5, <1>6, <2>1 DEF TypeOK, FramesOK
  <2>2. CASE k = n + 1
    BY <1>1, <1>2, <1>6, <2>2
  <2>3. CASE k # n /\ k # n + 1
    BY <1>1, <1>5, <1>6, <2>3 DEF TypeOK, FramesOK
  <2> QED BY <2>1, <2>2, <2>3
<1>9. FramesOK'
  <2>1. frames' \in Seq(FrameSet)' /\ frames' # <<>>
    BY <1>1, <1>6 DEF FrameSet
  <2> QED BY ONLY <1>7, <1>8, <2>1, Zenon DEF FramesOK, FrameSet
<1> QED BY <1>1, <1>4, <1>5, <1>6, <1>9

\* addDecl counts one more of what it adds.
LEMMA PushedOnce ==
  ASSUME TypeOK, prog' = prog, NEW d \in Decls, chain' = Pushed(d)
  PROVE  /\ ChainsOK'
         /\ \A e \in Decls : Occurrences(e)' = Occurrences(e) + (IF e = d THEN 1 ELSE 0)
<1> DEFINE n == NameOf(d)
           r == Append(chain[n], d)
<1>1. /\ chain \in [AllNames -> Seq(Decls)] /\ n \in AllNames
      /\ \A m \in AllNames : \A i \in 1 .. Len(chain[m]) : NameOf(chain[m][i]) = m
      /\ \A e \in Decls : NameOf(e) \in AllNames
  BY ProgramFacts DEF TypeOK, ChainsOK
<1>2. /\ chain[n] \in Seq(Decls) /\ r \in Seq(Decls) /\ Len(r) = Len(chain[n]) + 1
      /\ r[Len(chain[n]) + 1] = d /\ \A k \in 1 .. Len(chain[n]) : r[k] = chain[n][k]
      /\ \A x : Times(r, x) = Times(chain[n], x) + (IF d = x THEN 1 ELSE 0)
  <2>1. chain[n] \in Seq(Decls)
    BY <1>1
  <2> QED BY <2>1, Appended, TimesAppend
<1>3. /\ chain' \in [AllNames -> Seq(Decls)]
      /\ \A m \in AllNames : chain'[m] = IF m = n THEN r ELSE chain[m]
  BY <1>1, <1>2 DEF Pushed
<1> HIDE DEF r
<1>4. Decls' = Decls /\ \A e : NameOf(e)' = NameOf(e)
  BY DEF Decls, Ids, NameOf
<1>5. ASSUME NEW m \in AllNames, NEW i \in 1 .. Len(chain'[m])
      PROVE  NameOf(chain'[m][i]) = m
  <2>1. CASE m # n
    BY <1>1, <1>3, <2>1
  <2>2. CASE m = n
    <3>1. chain'[m] = r /\ Len(chain[n]) \in Nat
      BY <1>2, <1>3, <2>2
    <3>2. i \in 1 .. Len(chain[n]) \/ i = Len(chain[n]) + 1
      BY <1>2, <3>1
    <3> QED BY <1>1, <1>2, <2>2, <3>1, <3>2
  <2> QED BY <2>1, <2>2
<1>6. ChainsOK'
  BY <1>3, <1>4, <1>5 DEF ChainsOK
<1>7. ASSUME NEW e \in Decls
      PROVE  Occurrences(e)' = Occurrences(e) + (IF e = d THEN 1 ELSE 0)
  <2> DEFINE m == NameOf(e)
  <2>1. Occurrences(e) = Times(chain[m], e) /\ Occurrences(e)' = Times(chain'[m], e)
    BY <1>4 DEF Occurrences, Times, Places
  <2>2. chain[m] \in Seq(Decls) /\ m \in AllNames
    BY <1>1
  <2>3. CASE m = n
    BY <1>2, <1>3, <2>1, <2>2, <2>3
  <2>4. CASE m # n
    <3>1. e # d /\ chain'[m] = chain[m] /\ Times(chain[m], e) \in Nat
      BY <1>3, <2>2, <2>4, TimesType
    <3> QED BY <2>1, <3>1
  <2> QED BY <2>3, <2>4
<1> QED BY <1>6, <1>7

\* removeDecl counts one less of what it removes.
LEMMA RemovedOnce ==
  ASSUME TypeOK, prog' = prog, NEW d \in Decls, RemoveDecl(d)
  PROVE  /\ ChainsOK'
         /\ \A e \in Decls : Occurrences(e) = Occurrences(e)' + (IF e = d THEN 1 ELSE 0)
<1> DEFINE n == NameOf(d)
           q == chain[n]
<1>1. /\ chain \in [AllNames -> Seq(Decls)] /\ n \in AllNames
      /\ \A m \in AllNames : \A i \in 1 .. Len(chain[m]) : NameOf(chain[m][i]) = m
      /\ \A e \in Decls : NameOf(e) \in AllNames
  BY ProgramFacts DEF TypeOK, ChainsOK
<1>2. q \in Seq(Decls)
  BY <1>1
<1>3. PICK i \in 1 .. Len(q) :
        /\ q[i] = d
        /\ chain' = [chain EXCEPT ![n] = SubSeq(q, 1, i - 1) \o SubSeq(q, i + 1, Len(q))]
  BY DEF RemoveDecl, Topmost
<1> DEFINE r == SubSeq(q, 1, i - 1) \o SubSeq(q, i + 1, Len(q))
<1>4. r \in Seq(Decls) /\ \A x : Times(q, x) = Times(r, x) + (IF q[i] = x THEN 1 ELSE 0)
  BY <1>2, TimesRemove
<1>5. \A k \in 1 .. Len(r) : \E j \in 1 .. Len(q) : r[k] = q[j]
  <2>1. /\ Len(r) = Len(q) - 1 /\ Len(q) \in Nat
        /\ \A j \in 1 .. Len(r) : r[j] = IF j < i THEN q[j] ELSE q[j + 1]
    <3>1. /\ q \in Seq(Decls) /\ i \in 1 .. Len(q) /\ Len(q) \in Nat
          /\ r = SubSeq(q, 1, i - 1) \o SubSeq(q, i + 1, Len(q))
      BY <1>2
    <3> HIDE DEF q, r
    <3> QED BY ONLY <3>1, TakenOut
  <2> HIDE DEF q, r
  <2>2. \A j \in 1 .. Len(r) : j \in 1 .. Len(q) /\ j + 1 \in 1 .. Len(q)
    BY <2>1
  <2> QED BY <2>1, <2>2
<1>6. chain' = [chain EXCEPT ![n] = r]
  BY <1>3
<1> HIDE DEF r, q
<1>7. /\ chain' \in [AllNames -> Seq(Decls)]
      /\ \A m \in AllNames : chain'[m] = IF m = n THEN r ELSE chain[m]
  BY <1>1, <1>4, <1>6
<1>8. Decls' = Decls /\ \A e : NameOf(e)' = NameOf(e)
  BY DEF Decls, Ids, NameOf
<1>9. ASSUME NEW m \in AllNames, NEW k \in 1 .. Len(chain'[m])
      PROVE  NameOf(chain'[m][k]) = m
  <2>1. CASE m # n
    BY <1>1, <1>7, <2>1
  <2>2. CASE m = n
    <3>1. PICK j \in 1 .. Len(q) : r[k] = q[j]
      BY <1>5, <1>7, <2>2
    <3>2. NameOf(q[j]) = n
      BY <1>1 DEF q
    <3> QED BY <1>7, <2>2, <3>1, <3>2
  <2> QED BY <2>1, <2>2
<1>10. ChainsOK'
  BY <1>7, <1>8, <1>9 DEF ChainsOK
<1>11. ASSUME NEW e \in Decls
       PROVE  Occurrences(e) = Occurrences(e)' + (IF e = d THEN 1 ELSE 0)
  <2> DEFINE m == NameOf(e)
  <2>1. Occurrences(e) = Times(chain[m], e) /\ Occurrences(e)' = Times(chain'[m], e)
    BY <1>8 DEF Occurrences, Times, Places
  <2>2. chain[m] \in Seq(Decls) /\ m \in AllNames
    BY <1>1
  <2>3. CASE m = n
    BY <1>3, <1>4, <1>7, <2>1, <2>2, <2>3 DEF q
  <2>4. CASE m # n
    <3>1. e # d /\ chain'[m] = chain[m] /\ Times(chain[m], e) \in Nat
      BY <1>7, <2>2, <2>4, TimesType
    <3> QED BY <2>1, <3>1
  <2> QED BY <2>3, <2>4
<1> QED BY <1>10, <1>11

-----------------------------------------------------------------------------
(* What the steps of a kind have in common.                                *)

LEMMA TypesAgain ==
  ASSUME TypeOK, prog' = prog, FramesOK', ChainsOK',
         scopes' \in Seq(SUBSET Decls), Len(scopes') = Len(frames'),
         typed' \subseteq Ids, \A e \in errors' : e.decl \in Ids,
         resolved'.decl \in Decls \cup {0},
         status' \in {"running", "done", "nullType", "fatal"}
  PROVE  TypeOK'
<1>1. Decls' = Decls /\ Ids' = Ids
  BY DEF Decls, Ids
<1>2. IsProgram(prog)'
  BY DEF TypeOK, IsProgram
<1> QED BY <1>1, <1>2 DEF TypeOK

LEMMA NothingFound == Nothing.decl \in Decls \cup {0}
BY DEF Nothing

\* Counts that change alike stay balanced.
LEMMA BalanceAgain ==
  ASSUME ScopesInv, prog' = prog,
         \A d \in Decls : \E a, b, c \in Int :
            /\ Occurrences(d)' = Occurrences(d) + a
            /\ Holds(scopes', d) = Holds(scopes, d) + b
            /\ Extra(d)' = Extra(d) + c
            /\ a = b + c
  PROVE  ChainsMatchScopes'
<1>1. Decls' = Decls /\ scopes \in Seq(SUBSET Decls)
  BY DEF Decls, Ids, ScopesInv, TypeOK
<1>2. ASSUME NEW d \in Decls
      PROVE  Occurrences(d)' = Holds(scopes', d) + Extra(d)'
  <2>1. Occurrences(d) = Holds(scopes, d) + Extra(d)
    BY DEF ScopesInv, ChainsMatchScopes, Holds, Holding, Extra
  <2>2. Holds(scopes, d) \in Nat /\ Extra(d) \in Nat
    BY <1>1, HoldsType DEF Extra
  <2> HIDE DEF Occurrences
  <2> QED BY <2>1, <2>2
<1> QED BY <1>1, <1>2 DEF ChainsMatchScopes, Holds, Holding, Extra

\* Registering a declaration, which Register does once.
LEMMA RegisterKeeps ==
  ASSUME ScopesInv, prog' = prog, NEW d \in Decls, Register(d), Traversed' = Traversed
  PROVE  /\ ChainsOK' /\ scopes' \in Seq(SUBSET Decls) /\ Len(scopes') = Len(scopes)
         /\ ChainsMatchScopes'
<1>1. TypeOK /\ scopes \in Seq(SUBSET Decls) /\ scopes # <<>>
  BY FrameFacts DEF ScopesInv, TypeOK
<1>2. \A e \in Decls : Extra(e)' = Extra(e) + 0
  BY DEF Extra
<1>3. CASE d \in CurScope
  <2>1. scopes' = scopes /\ chain' = chain
    BY <1>3 DEF Register
  <2>2. ChainsOK' /\ \A e \in Decls : Occurrences(e)' = Occurrences(e)
    BY <1>1, <2>1 DEF TypeOK, ChainsOK, Occurrences, NameOf, Decls, Ids
  <2>3. \A e \in Decls : Occurrences(e) = Holds(scopes, e) + Extra(e)
    BY DEF ScopesInv, ChainsMatchScopes, Holds, Holding, Extra
  <2>4. Decls' = Decls
    BY DEF Decls, Ids
  <2>5. \A e \in Decls : Occurrences(e)' = Holds(scopes', e) + Extra(e)'
    BY <2>1, <2>2, <2>3 DEF Extra
  <2>6. ChainsMatchScopes'
    BY <2>4, <2>5 DEF ChainsMatchScopes, Holds, Holding, Extra
  <2> QED BY <1>1, <2>1, <2>2, <2>6
<1>4. CASE d \notin CurScope
  <2>1. /\ scopes' = [scopes EXCEPT ![Len(scopes)] = @ \cup {d}]
        /\ chain' = Pushed(d)
    BY <1>4 DEF Register
  <2>2. /\ ChainsOK'
        /\ \A e \in Decls : Occurrences(e)' = Occurrences(e) + (IF e = d THEN 1 ELSE 0)
    BY <1>1, <2>1, PushedOnce
  <2>3. /\ scopes' \in Seq(SUBSET Decls) /\ Len(scopes') = Len(scopes)
        /\ \A e \in Decls :
             Holds(scopes', e) = Holds(scopes, e) + (IF e = d THEN 1 ELSE 0)
    <3>1. CurScope \cup {d} \in SUBSET Decls /\ Len(scopes) \in 1 .. Len(scopes)
      BY <1>1 DEF CurScope
    <3>2. scopes' = [scopes EXCEPT ![Len(scopes)] = CurScope \cup {d}]
      BY <2>1 DEF CurScope
    <3>3. /\ scopes' \in Seq(SUBSET Decls) /\ Len(scopes') = Len(scopes)
          /\ scopes'[Len(scopes)] = CurScope \cup {d}
          /\ \A k \in 1 .. Len(scopes) : k # Len(scopes) => scopes'[k] = scopes[k]
      BY <1>1, <3>1, <3>2, Replaced
    <3> QED BY <1>1, <1>4, <3>3, HoldsAdd DEF CurScope
  <2>4. ASSUME NEW e \in Decls
        PROVE  \E a, b, c \in Int : /\ Occurrences(e)' = Occurrences(e) + a
                                    /\ Holds(scopes', e) = Holds(scopes, e) + b
                                    /\ Extra(e)' = Extra(e) + c
                                    /\ a = b + c
    <3> DEFINE a == IF e = d THEN 1 ELSE 0
    <3>1. /\ a \in Int /\ 0 \in Int /\ a = a + 0
          /\ Occurrences(e)' = Occurrences(e) + a
          /\ Holds(scopes', e) = Holds(scopes, e) + a
          /\ Extra(e)' = Extra(e) + 0
      BY <1>2, <2>2, <2>3
    <3> HIDE DEF a
    <3> QED BY <3>1
  <2>5. ChainsMatchScopes'
    BY <2>4, BalanceAgain
  <2> QED BY <2>2, <2>3, <2>5
<1> QED BY <1>3, <1>4

\* A step that leaves scopes and resolver alone.
LEMMA MovedOnly ==
  ASSUME ScopesInv, UNCHANGED <<prog, scopes, chain>>, FramesOK',
         Len(frames') = Len(frames), Traversed' = Traversed,
         typed' \subseteq Ids, \A e \in errors' : e.decl \in Ids,
         resolved'.decl \in Decls \cup {0},
         status' \in {"running", "done", "nullType", "fatal"}
  PROVE  ScopesInv'
<1>1. Decls' = Decls /\ Ids' = Ids /\ \A d : NameOf(d)' = NameOf(d)
  BY DEF Decls, Ids, NameOf
<1>2. ChainsOK'
  BY <1>1 DEF ScopesInv, TypeOK, ChainsOK
<1>3. scopes' \in Seq(SUBSET Decls) /\ Len(scopes') = Len(frames')
  BY DEF ScopesInv, TypeOK
<1>4. TypeOK'
  BY <1>2, <1>3, TypesAgain DEF ScopesInv
<1>5. \A d \in Decls : Occurrences(d)' = Occurrences(d) /\ Extra(d)' = Extra(d)
  BY <1>1 DEF Occurrences, Extra
<1>6. \A d \in Decls : Occurrences(d)' = Holds(scopes', d) + Extra(d)'
  BY <1>5 DEF ScopesInv, ChainsMatchScopes, Holds, Holding, Extra
<1>7. ChainsMatchScopes'
  BY <1>1, <1>6 DEF ChainsMatchScopes, Holds, Holding, Extra
<1> QED BY <1>4, <1>7 DEF ScopesInv

\* Declaring what belongs to the innermost traversal.
LEMMA DeclaringKeeps ==
  ASSUME ScopesInv, NEW i \in Ids, Running("declare"), AfterDeclaring(i),
         prog' = prog, UNCHANGED <<typed, status>>, resolved' = Nothing,
         \/ UNCHANGED <<scopes, chain>>
         \/ \E d \in Decls : Register(d),
         \A e \in errors' : e.decl \in Ids
  PROVE  ScopesInv'
<1> DEFINE ph == IF Kind(i) = "func" /\ Top.decl # 0 /\ Kind(Top.decl) = "func"
                 THEN "nested" ELSE "declare"
<1>1. TypeOK /\ frames' = Moved(ph, i) /\ ph \in Phases
  BY DEF ScopesInv, AfterDeclaring, Phases
<1>2. i \in 0 .. Len(prog) /\ i # 0
  BY <1>1, ProgramFacts DEF Ids
<1>3. Top.decl = 0 => ph = "declare"
  OBVIOUS
<1> HIDE DEF ph
<1>4. /\ FramesOK' /\ Len(frames') = Len(frames)
      /\ Len(frames) # 1 => frames'[1] = frames[1]
      /\ Len(frames) = 1 => frames'[1].phase = ph
  BY <1>1, <1>2, FramesMoved
<1>5. Traversed' = Traversed
  <2>1. Ids' = Ids /\ \A c : Kind(c)' = Kind(c)
    BY DEF Ids, Kind
  <2>2. CASE Len(frames) # 1
    BY <1>4, <2>1, <2>2 DEF Traversed, Visited
  <2>3. CASE Len(frames) = 1
    <3>1. frames'[1].phase = "declare" /\ frames[1].phase = "declare"
      BY <1>1, <1>3, <1>4, <2>3, FrameFacts DEF Running, Top
    <3> QED BY <2>1, <3>1 DEF Traversed, Visited
  <2> QED BY <2>2, <2>3
<1>6. /\ typed' \subseteq Ids /\ resolved'.decl \in Decls \cup {0}
      /\ status' \in {"running", "done", "nullType", "fatal"}
  BY <1>1, NothingFound DEF TypeOK
<1>7. CASE UNCHANGED <<scopes, chain>>
  BY <1>4, <1>5, <1>6, <1>7, MovedOnly
<1>8. CASE \E d \in Decls : Register(d)
  <2>1. /\ ChainsOK' /\ scopes' \in Seq(SUBSET Decls) /\ Len(scopes') = Len(scopes)
        /\ ChainsMatchScopes'
    BY <1>5, <1>8, RegisterKeeps
  <2>2. Len(scopes') = Len(frames')
    BY <1>1, <1>4, <2>1 DEF TypeOK
  <2>3. TypeOK'
    BY <1>1, <1>4, <1>6, <2>1, <2>2, TypesAgain
  <2> QED BY <2>1, <2>3 DEF ScopesInv
<1> QED BY <1>7, <1>8

\* Opening a scope, with or without an entry for what it belongs to.
LEMMA OpenedScope ==
  ASSUME ScopesInv
  PROVE  /\ Append(scopes, {}) \in Seq(SUBSET Decls)
         /\ Len(Append(scopes, {})) = Len(scopes) + 1
         /\ \A e : Holds(Append(scopes, {}), e) = Holds(scopes, e)
BY HoldsOpen DEF ScopesInv, TypeOK

LEMMA OpenedAfterEntry ==
  ASSUME ScopesInv, NEW d \in Decls, d \notin CurScope,
         scopes' = Append([scopes EXCEPT ![Len(scopes)] = @ \cup {d}], {})
  PROVE  /\ scopes' \in Seq(SUBSET Decls) /\ Len(scopes') = Len(scopes) + 1
         /\ \A e : Holds(scopes', e) = Holds(scopes, e) + (IF e = d THEN 1 ELSE 0)
<1> DEFINE r == [scopes EXCEPT ![Len(scopes)] = CurScope \cup {d}]
<1>1. /\ TypeOK /\ scopes \in Seq(SUBSET Decls) /\ scopes # <<>>
      /\ CurScope \cup {d} \in SUBSET Decls /\ Len(scopes) \in 1 .. Len(scopes)
  BY FrameFacts DEF ScopesInv, TypeOK, CurScope
<1>2. scopes' = Append(r, {})
  BY DEF CurScope
<1>3. /\ r \in Seq(SUBSET Decls) /\ Len(r) = Len(scopes)
      /\ r[Len(scopes)] = CurScope \cup {d}
      /\ \A k \in 1 .. Len(scopes) : k # Len(scopes) => r[k] = scopes[k]
  BY <1>1, Replaced
<1> HIDE DEF r
<1>4. \A e : Holds(r, e) = Holds(scopes, e) + (IF e = d THEN 1 ELSE 0)
  BY <1>1, <1>3, HoldsAdd DEF CurScope
<1>5. /\ Append(r, {}) \in Seq(SUBSET Decls) /\ Len(Append(r, {})) = Len(r) + 1
      /\ \A e : Holds(Append(r, {}), e) = Holds(r, e)
  BY <1>3, HoldsOpen
<1> QED BY <1>2, <1>3, <1>4, <1>5

\* The program's traversal, as far as f says, has begun with class c.
Begun(f, c) == \/ f.phase \in {"statements", "pop"}
               \/ f.phase = "visit" /\ f.at >= c

LEMMA SameTraversed ==
  ASSUME prog' = prog,
         \A c \in Ids : Kind(c) = "class" => (Begun(frames'[1], c) <=> Begun(frames[1], c))
  PROVE  Traversed' = Traversed
<1>1. Ids' = Ids /\ \A c : Kind(c)' = Kind(c)
  BY DEF Ids, Kind
<1>2. Traversed = {c \in Ids : Kind(c) = "class" /\ Begun(frames[1], c)}
  BY DEF Traversed, Visited, Begun
<1>3. Traversed' = {c \in Ids : Kind(c) = "class" /\ Begun(frames'[1], c)}
  BY <1>1 DEF Traversed, Visited, Begun
<1> QED BY <1>2, <1>3

\* The next declaration of the innermost traversal belongs to it.
LEMMA NextBelongs ==
  ASSUME ScopesInv, NEW i \in Ids, IsNext(i)
  PROVE  /\ prog[i].up = Top.decl /\ i > Top.at /\ i \in 0 .. Len(prog) /\ i # 0
         /\ \A c \in Ids : prog[c].up = Top.decl => c <= Top.at \/ i <= c
<1>1. i \in {j \in Ids : prog[j].up = Top.decl /\ j > Top.at}
  BY DEF IsNext
<1>2. Len(prog) \in Nat /\ Top.at \in 0 .. Len(prog)
  BY ProgramFacts, FrameFacts DEF ScopesInv
<1>3. \A c \in Ids : prog[c].up = Top.decl /\ c > Top.at => i <= c
  BY DEF IsNext
<1> QED BY <1>1, <1>2, <1>3 DEF Ids

\* Classes are declared by the program only.
LEMMA ClassesAtTop ==
  ASSUME ScopesInv, NEW c \in Ids, Kind(c) = "class"
  PROVE  prog[c].up = 0
<1>1. c \notin Predefined
  BY ProgramFacts DEF ScopesInv, Ids, Predefined, ObjectClass, SpecialClass
<1> QED BY <1>1, ProgramFacts DEF ScopesInv, Kind

\* Visiting anything but a class.
LEMMA VisitTraversed ==
  ASSUME ScopesInv, NEW i \in Ids, Running("visit"), IsNext(i), Kind(i) # "class",
         prog' = prog,
         Len(frames) # 1 => frames'[1] = frames[1],
         Len(frames) = 1 => frames'[1].phase = "visit" /\ frames'[1].at = i
  PROVE  Traversed' = Traversed
<1>1. CASE Len(frames) # 1
  BY <1>1, SameTraversed
<1>2. CASE Len(frames) = 1
  <2>1. Top = frames[1] /\ Top.decl = 0 /\ frames[1].phase = "visit"
    BY <1>2, FrameFacts DEF ScopesInv, Top, Running
  <2>2. ASSUME NEW c \in Ids, Kind(c) = "class"
        PROVE  frames[1].at >= c <=> frames'[1].at >= c
    <3>1. prog[c].up = 0 /\ c # i
      BY <2>2, ClassesAtTop
    <3>2. i > frames[1].at /\ (c <= frames[1].at \/ i <= c)
      BY <2>1, <3>1, NextBelongs
    <3>3. c \in Int /\ i \in Int /\ frames[1].at \in Int
      BY ProgramFacts, FrameFacts DEF ScopesInv, Ids
    <3> QED BY <1>2, <3>1, <3>2, <3>3
  <2> QED BY <1>2, <2>1, <2>2, SameTraversed DEF Begun
<1> QED BY <1>1, <1>2

-----------------------------------------------------------------------------
(* The actions.                                                            *)

\* Diagnostics name a declaration of the program.
LEMMA Reported ==
  ASSUME ScopesInv, NEW i \in Ids, NEW kind, Report(kind, i) \/ UNCHANGED errors
  PROVE  \A e \in errors' : e.decl \in Ids
BY DEF ScopesInv, TypeOK, Report

LEMMA InScopeIsDecl ==
  ASSUME ScopesInv, NEW n
  PROVE  InScope(GlobalScope, NameOf(n)) \subseteq Decls
<1>1. scopes \in Seq(SUBSET Decls) /\ scopes # <<>>
  BY FrameFacts DEF ScopesInv, TypeOK
<1> QED BY <1>1 DEF InScope, GlobalScope

\* Only a body inside the program's declares a variable nonlocal.
LEMMA OuterIsDecl ==
  ASSUME ScopesInv, NEW i \in Ids, IsNext(i), Kind(i) = "nonlocal"
  PROVE  Outer(i) \subseteq Decls
<1>1. /\ scopes \in Seq(SUBSET Decls) /\ Len(scopes) = Len(frames)
      /\ Len(scopes) \in Nat \ {0}
  BY FrameFacts DEF ScopesInv, TypeOK
<1>2. Top.decl # 0
  <2>1. i \notin Predefined
    BY ProgramFacts DEF ScopesInv, Ids, Predefined, ObjectClass, SpecialClass
  <2> QED BY <2>1, NextBelongs, ProgramFacts DEF ScopesInv, Kind
<1>3. Len(scopes) # 1
  BY <1>1, <1>2, FrameFacts DEF ScopesInv
<1>4. Len(scopes) - 1 \in 1 .. Len(scopes)
  BY <1>1, <1>3
<1>5. scopes[Len(scopes) - 1] \subseteq Decls
  BY <1>1, <1>4
<1> QED BY <1>5 DEF Outer, InScope

LEMMA DeclareTwiceKeeps ==
  ASSUME ScopesInv, NEW i \in Ids, DeclareTwice(i)
  PROVE  ScopesInv'
<1>1. \A e \in errors' : e.decl \in Ids
  BY Reported DEF DeclareTwice
<1> QED BY <1>1, DeclaringKeeps DEF DeclareTwice

LEMMA DeclareKeeps ==
  ASSUME ScopesInv, NEW i \in Ids, Declare(i)
  PROVE  ScopesInv'
<1>1. \A e \in errors' : e.decl \in Ids
  BY Reported DEF Declare
<1>2. i \in Decls
  BY ProgramFacts DEF ScopesInv
<1> QED BY <1>1, <1>2, DeclaringKeeps DEF Declare, Fresh

LEMMA DeclareNonlocalKeeps ==
  ASSUME ScopesInv, NEW i \in Ids, DeclareNonlocal(i)
  PROVE  ScopesInv'
<1>1. \A e \in errors' : e.decl \in Ids
  BY Reported DEF DeclareNonlocal
<1>2. UNCHANGED <<scopes, chain>> \/ \E d \in Decls : Register(d)
  BY OuterIsDecl DEF DeclareNonlocal, Fresh
<1> QED BY <1>1, <1>2, DeclaringKeeps DEF DeclareNonlocal, Fresh

LEMMA DeclareGlobalKeeps ==
  ASSUME ScopesInv, NEW i \in Ids, DeclareGlobal(i)
  PROVE  ScopesInv'
<1>1. \A e \in errors' : e.decl \in Ids
  BY Reported DEF DeclareGlobal
<1>2. UNCHANGED <<scopes, chain>> \/ \E d \in Decls : Register(d)
  BY InScopeIsDecl DEF DeclareGlobal
<1> QED BY <1>1, <1>2, DeclaringKeeps DEF DeclareGlobal, Fresh

\* A step that leaves the traversals alone as well.
LEMMA OnlyStatus ==
  ASSUME ScopesInv, UNCHANGED <<prog, frames, scopes, chain, typed, errors>>,
         resolved'.decl \in Decls \cup {0},
         status' \in {"running", "done", "nullType", "fatal"}
  PROVE  ScopesInv'
<1>1. FramesOK' /\ Traversed' = Traversed
  BY DEF ScopesInv, TypeOK, FramesOK, Traversed, Visited, Ids, Kind
<1>2. typed' \subseteq Ids /\ \A e \in errors' : e.decl \in Ids
  BY DEF ScopesInv, TypeOK
<1> QED BY <1>1, <1>2, MovedOnly

LEMMA CastNullTypeKeeps ==
  ASSUME ScopesInv, NEW i \in Ids, CastNullType(i)
  PROVE  ScopesInv'
BY OnlyStatus, NothingFound DEF CastNullType

LEMMA LookUpKeeps ==
  ASSUME ScopesInv, NEW n \in AllNames, LookUp(n)
  PROVE  ScopesInv'
<1>1. chain[n] \in Seq(Decls)
  BY DEF ScopesInv, TypeOK, ChainsOK
<1>2. Head1(n) \in Decls \cup {0}
  BY <1>1 DEF Head1
<1>3. resolved'.decl \in Decls \cup {0}
  BY <1>2, NothingFound DEF LookUp
<1>4. status' \in {"running", "done", "nullType", "fatal"}
  BY DEF LookUp, ScopesInv, TypeOK
<1> QED BY <1>3, <1>4, OnlyStatus DEF LookUp

\* Moving on without a new scope.
LEMMA MovingKeeps ==
  ASSUME ScopesInv, UNCHANGED <<prog, scopes, chain, errors, status>>,
         resolved' = Nothing, typed' \subseteq Ids,
         NEW ph \in Phases, ph # "nested", NEW at \in 0 .. Len(prog),
         frames' = Moved(ph, at), Traversed' = Traversed
  PROVE  ScopesInv'
<1>1. FramesOK' /\ Len(frames') = Len(frames)
  BY FramesMoved DEF ScopesInv
<1>2. /\ \A e \in errors' : e.decl \in Ids
      /\ status' \in {"running", "done", "nullType", "fatal"}
  BY DEF ScopesInv, TypeOK
<1> QED BY <1>1, <1>2, NothingFound, MovedOnly

LEMMA EndDeclarationsKeeps ==
  ASSUME ScopesInv, EndDeclarations
  PROVE  ScopesInv'
<1> DEFINE ph == IF Top.decl # 0 /\ Kind(Top.decl) = "func" THEN "statements" ELSE "visit"
<1>1. /\ TypeOK /\ frames' = Moved(ph, Top.decl) /\ ph \in Phases /\ ph # "nested"
      /\ Top.decl \in 0 .. Len(prog) /\ Top.phase = "declare" /\ prog' = prog
      /\ Top.decl = 0 => ph = "visit"
  BY FrameFacts DEF ScopesInv, EndDeclarations, Phases, Running
<1> HIDE DEF ph
<1>2. /\ Len(frames) # 1 => frames'[1] = frames[1]
      /\ Len(frames) = 1 => frames'[1].phase = ph /\ frames'[1].at = Top.decl
  BY <1>1, FramesMoved
<1>3. Traversed' = Traversed
  <2>1. CASE Len(frames) # 1
    BY <1>1, <1>2, <2>1, SameTraversed
  <2>2. CASE Len(frames) = 1
    <3>1. /\ frames[1].phase = "declare" /\ frames'[1].phase = "visit"
          /\ frames'[1].at = 0
      BY <1>1, <1>2, <2>2, FrameFacts DEF Top
    <3>2. \A c \in Ids : ~(0 >= c)
      BY <1>1, ProgramFacts DEF Ids
    <3> QED BY <1>1, <3>1, <3>2, SameTraversed DEF Begun
  <2> QED BY <2>1, <2>2
<1>4. typed' \subseteq Ids
  BY DEF ScopesInv, TypeOK, EndDeclarations
<1> QED BY <1>1, <1>3, <1>4, MovingKeeps DEF EndDeclarations

LEMMA VisitVarKeeps ==
  ASSUME ScopesInv, NEW i \in Ids, VisitVar(i)
  PROVE  ScopesInv'
<1>1. /\ TypeOK /\ frames' = Moved("visit", i) /\ prog' = prog
      /\ "visit" \in Phases /\ "visit" # "nested" /\ i \in 0 .. Len(prog)
  BY NextBelongs DEF ScopesInv, VisitVar, Phases
<1>2. /\ Len(frames) # 1 => frames'[1] = frames[1]
      /\ Len(frames) = 1 => frames'[1].phase = "visit" /\ frames'[1].at = i
  BY <1>1, FramesMoved
<1>3. Traversed' = Traversed
  BY <1>1, <1>2, VisitTraversed DEF VisitVar
<1>4. typed' \subseteq Ids
  BY DEF ScopesInv, TypeOK, VisitVar
<1> QED BY <1>1, <1>3, <1>4, MovingKeeps DEF VisitVar

LEMMA EndVisitKeeps ==
  ASSUME ScopesInv, EndVisit
  PROVE  ScopesInv'
<1> DEFINE ph == IF Top.decl = 0 THEN "statements" ELSE "pop"
<1>1. /\ TypeOK /\ frames' = Moved(ph, Top.at) /\ ph \in Phases /\ ph # "nested"
      /\ Top.at \in 0 .. Len(prog) /\ Top.phase = "visit" /\ prog' = prog
      /\ Top.decl = 0 => ph = "statements"
  BY FrameFacts DEF ScopesInv, EndVisit, Phases, Running
<1> HIDE DEF ph
<1>2. /\ Len(frames) # 1 => frames'[1] = frames[1]
      /\ Len(frames) = 1 => frames'[1].phase = ph /\ frames'[1].at = Top.at
  BY <1>1, FramesMoved
<1>3. Traversed' = Traversed
  <2>1. CASE Len(frames) # 1
    BY <1>1, <1>2, <2>1, SameTraversed
  <2>2. CASE Len(frames) = 1
    <3>1. /\ frames[1].phase = "visit" /\ frames'[1].phase = "statements"
          /\ Top.decl = 0 /\ Top = frames[1]
      BY <1>1, <1>2, <2>2, FrameFacts DEF Top
    <3>2. ASSUME NEW c \in Ids, Kind(c) = "class"
          PROVE  frames[1].at >= c
      <4>1. prog[c].up = 0 /\ c \in Int /\ Top.at \in Int
        BY <1>1, <3>2, ClassesAtTop DEF Ids
      <4>2. c <= Top.at
        BY <3>1, <4>1 DEF EndVisit, NoneLeft
      <4> QED BY <3>1, <4>1, <4>2
    <3> QED BY <1>1, <3>1, <3>2, SameTraversed DEF Begun
  <2> QED BY <2>1, <2>2
<1>4. typed' \subseteq Ids
  BY DEF ScopesInv, TypeOK, EndVisit
<1> QED BY <1>1, <1>3, <1>4, MovingKeeps DEF EndVisit

LEMMA EndStatementsKeeps ==
  ASSUME ScopesInv, EndStatements
  PROVE  ScopesInv'
<1>1. /\ TypeOK /\ frames' = Moved("pop", Top.at) /\ prog' = prog
      /\ "pop" \in Phases /\ "pop" # "nested"
      /\ Top.at \in 0 .. Len(prog) /\ Top.phase = "statements"
  BY FrameFacts DEF ScopesInv, EndStatements, Phases, Running
<1>2. /\ Len(frames) # 1 => frames'[1] = frames[1]
      /\ Len(frames) = 1 => frames'[1].phase = "pop"
  BY <1>1, FramesMoved
<1>3. Traversed' = Traversed
  <2>1. CASE Len(frames) # 1
    BY <1>1, <1>2, <2>1, SameTraversed
  <2>2. CASE Len(frames) = 1
    <3>1. frames[1].phase = "statements" /\ frames'[1].phase = "pop"
      BY <1>1, <1>2, <2>2 DEF Top
    <3> QED BY <1>1, <3>1, SameTraversed DEF Begun
  <2> QED BY <2>1, <2>2
<1>4. typed' \subseteq Ids
  BY DEF ScopesInv, TypeOK, EndStatements
<1> QED BY <1>1, <1>3, <1>4, MovingKeeps DEF EndStatements

LEMMA OpenFunctionKeeps ==
  ASSUME ScopesInv, NEW i \in Ids, NEW after \in Phases \ {"nested"}, prog' = prog,
         OpenFunction(i, after), Traversed' = Traversed
  PROVE  ScopesInv'
<1>1. /\ TypeOK /\ i \in 0 .. Len(prog) /\ i \in Decls
      /\ "declare" \in Phases \ {"nested"}
      /\ frames' = Append(Moved(after, i), Frame(i, "declare"))
  BY ProgramFacts DEF ScopesInv, OpenFunction, Phases, Ids
<1>2. FramesOK' /\ Len(frames') = Len(frames) + 1 /\ Len(frames) = Len(scopes)
  BY <1>1, FramesPushed DEF TypeOK
<1>3. /\ typed' \subseteq Ids /\ \A e \in errors' : e.decl \in Ids
      /\ resolved'.decl \in Decls \cup {0}
      /\ status' \in {"running", "done", "nullType", "fatal"}
  BY NothingFound DEF OpenFunction, ScopesInv, TypeOK
<1>4. \A e \in Decls : Extra(e)' = Extra(e) + 0
  BY DEF Extra
<1>5. CASE i \in CurScope
  <2>1. scopes' = Append(scopes, {}) /\ chain' = chain
    BY <1>5 DEF OpenFunction
  <2>2. ChainsOK' /\ \A e \in Decls : Occurrences(e)' = Occurrences(e)
    BY <1>1, <2>1 DEF TypeOK, ChainsOK, Occurrences, NameOf, Decls, Ids
  <2>3. /\ scopes' \in Seq(SUBSET Decls) /\ Len(scopes') = Len(scopes) + 1
        /\ \A e : Holds(scopes', e) = Holds(scopes, e)
    BY <2>1, OpenedScope
  <2>4. TypeOK'
    BY <1>1, <1>2, <1>3, <2>2, <2>3, TypesAgain
  <2>5. Decls' = Decls /\ \A e \in Decls : Occurrences(e) = Holds(scopes, e) + Extra(e)
    BY DEF ScopesInv, ChainsMatchScopes, Holds, Holding, Extra, Decls, Ids
  <2>6. \A e \in Decls : Occurrences(e)' = Holds(scopes', e) + Extra(e)'
    BY <2>2, <2>3, <2>5 DEF Extra
  <2>7. ChainsMatchScopes'
    BY <2>5, <2>6 DEF ChainsMatchScopes, Holds, Holding, Extra
  <2> QED BY <2>4, <2>7 DEF ScopesInv
<1>6. CASE i \notin CurScope
  <2>1. /\ scopes' = Append([scopes EXCEPT ![Len(scopes)] = @ \cup {i}], {})
        /\ chain' = Pushed(i)
    BY <1>6 DEF OpenFunction
  <2>2. /\ ChainsOK'
        /\ \A e \in Decls : Occurrences(e)' = Occurrences(e) + (IF e = i THEN 1 ELSE 0)
    BY <1>1, <2>1, PushedOnce
  <2>3. /\ scopes' \in Seq(SUBSET Decls) /\ Len(scopes') = Len(scopes) + 1
        /\ \A e : Holds(scopes', e) = Holds(scopes, e) + (IF e = i THEN 1 ELSE 0)
    BY <1>1, <1>6, <2>1, OpenedAfterEntry
  <2>4. TypeOK'
    BY <1>1, <1>2, <1>3, <2>2, <2>3, TypesAgain
  <2>5. ASSUME NEW e \in Decls
        PROVE  \E a, b, c \in Int : /\ Occurrences(e)' = Occurrences(e) + a
                                    /\ Holds(scopes', e) = Holds(scopes, e) + b
                                    /\ Extra(e)' = Extra(e) + c
                                    /\ a = b + c
    <3> DEFINE a == IF e = i THEN 1 ELSE 0
    <3>1. /\ a \in Int /\ 0 \in Int /\ a = a + 0
          /\ Occurrences(e)' = Occurrences(e) + a
          /\ Holds(scopes', e) = Holds(scopes, e) + a
          /\ Extra(e)' = Extra(e) + 0
      BY <1>4, <2>2, <2>3
    <3> HIDE DEF a
    <3> QED BY <3>1
  <2>6. ChainsMatchScopes'
    BY <2>5, BalanceAgain
  <2> QED BY <2>4, <2>6 DEF ScopesInv
<1> QED BY <1>5, <1>6

LEMMA VisitFunctionKeeps ==
  ASSUME ScopesInv, NEW i \in Ids, VisitFunction(i)
  PROVE  ScopesInv'
<1>1. /\ TypeOK /\ prog' = prog /\ i \in 0 .. Len(prog)
      /\ "visit" \in Phases \ {"nested"} /\ "declare" \in Phases \ {"nested"}
      /\ frames' = Append(Moved("visit", i), Frame(i, "declare"))
  BY NextBelongs DEF ScopesInv, VisitFunction, OpenFunction, Phases
<1>2. /\ Len(frames) # 1 => frames'[1] = frames[1]
      /\ Len(frames) = 1 => frames'[1].phase = "visit" /\ frames'[1].at = i
  BY <1>1, FramesPushed
<1>3. Traversed' = Traversed
  BY <1>1, <1>2, VisitTraversed DEF VisitFunction
<1> QED BY <1>1, <1>3, OpenFunctionKeeps DEF VisitFunction

LEMMA VisitNestedKeeps ==
  ASSUME ScopesInv, VisitNested
  PROVE  ScopesInv'
<1>1. /\ TypeOK /\ prog' = prog /\ Top.at \in Ids /\ Top.at \in 0 .. Len(prog)
      /\ Top.phase = "nested" /\ "declare" \in Phases \ {"nested"}
      /\ frames' = Append(Moved("declare", Top.at), Frame(Top.at, "declare"))
  BY FrameFacts DEF ScopesInv, VisitNested, OpenFunction, Phases, Running
<1>2. /\ Len(frames) # 1 => frames'[1] = frames[1]
      /\ Len(frames) = 1 => frames'[1].phase = "declare"
  BY <1>1, FramesPushed
<1>3. Traversed' = Traversed
  <2>1. CASE Len(frames) # 1
    BY <1>1, <1>2, <2>1, SameTraversed
  <2>2. CASE Len(frames) = 1
    <3>1. frames[1].phase = "nested" /\ frames'[1].phase = "declare"
      BY <1>1, <1>2, <2>2 DEF Top
    <3> QED BY <1>1, <3>1, SameTraversed DEF Begun
  <2> QED BY <2>1, <2>2
<1> QED BY <1>1, <1>3, OpenFunctionKeeps DEF VisitNested

LEMMA VisitClassKeeps ==
  ASSUME ScopesInv, NEW i \in Ids, VisitClass(i)
  PROVE  ScopesInv'
<1> DEFINE q == IF SuperError(i) = "none" THEN "declare" ELSE "visit"
<1>1. /\ TypeOK /\ prog' = prog /\ i \in 0 .. Len(prog) /\ i \in Decls
      /\ "visit" \in Phases \ {"nested"} /\ q \in Phases \ {"nested"}
      /\ frames' = Append(Moved("visit", i), Frame(i, q))
      /\ scopes' = Append(scopes, {}) /\ chain' = Pushed(i)
      /\ Top.phase = "visit" /\ Kind(i) = "class"
  BY NextBelongs, ProgramFacts DEF ScopesInv, VisitClass, Phases, Running
<1> HIDE DEF q
<1>2. /\ FramesOK' /\ Len(frames') = Len(frames) + 1 /\ Len(frames) = Len(scopes)
      /\ Len(frames) = 1 => frames'[1].phase = "visit" /\ frames'[1].at = i
  BY <1>1, FramesPushed DEF TypeOK
<1>3. Top.decl = 0 /\ Top = frames[1] /\ Len(frames) = 1
  <2>1. prog[i].up = 0 /\ prog[i].up = Top.decl
    BY <1>1, ClassesAtTop, NextBelongs DEF VisitClass
  <2> QED BY <1>1, <2>1, FrameFacts DEF Top
<1>4. Traversed' = Traversed \cup {i} /\ i \notin Traversed
  <2>1. frames'[1].phase = "visit" /\ frames'[1].at = i /\ frames[1].phase = "visit"
    BY <1>1, <1>2, <1>3
  <2>2. i > frames[1].at /\ i \in Int /\ frames[1].at \in Int
    BY <1>1, <1>3, NextBelongs, FrameFacts DEF VisitClass, Ids
  <2>3. \A c \in Ids : Kind(c) = "class" => c <= frames[1].at \/ i <= c
    BY <1>3, ClassesAtTop, NextBelongs DEF VisitClass
  <2>4. Ids' = Ids /\ \A c : Kind(c)' = Kind(c)
    BY <1>1 DEF Ids, Kind
  <2>5. Traversed = {c \in Ids : Kind(c) = "class" /\ frames[1].at >= c}
    BY <2>1 DEF Traversed, Visited
  <2>6. Traversed' = {c \in Ids : Kind(c) = "class" /\ i >= c}
    BY <2>1, <2>4 DEF Traversed, Visited
  <2>7. \A c \in Ids : c \in Int
    BY DEF Ids
  <2>8. i \notin Traversed
    BY <2>2, <2>5
  <2>9. ASSUME NEW c \in Ids, Kind(c) = "class"
        PROVE  i >= c <=> frames[1].at >= c \/ c = i
    BY <2>2, <2>3, <2>7, <2>9
  <2> QED BY <1>1, <2>5, <2>6, <2>8, <2>9
<1>5. /\ typed' \subseteq Ids /\ resolved'.decl \in Decls \cup {0}
      /\ status' \in {"running", "done", "nullType", "fatal"}
  BY NothingFound DEF VisitClass, ScopesInv, TypeOK
<1>6. \A e \in errors' : e.decl \in Ids
  BY Reported DEF VisitClass
<1>7. /\ ChainsOK'
      /\ \A e \in Decls : Occurrences(e)' = Occurrences(e) + (IF e = i THEN 1 ELSE 0)
  BY <1>1, PushedOnce
<1>8. /\ scopes' \in Seq(SUBSET Decls) /\ Len(scopes') = Len(scopes) + 1
      /\ \A e : Holds(scopes', e) = Holds(scopes, e)
  BY <1>1, OpenedScope
<1>9. TypeOK'
  BY <1>1, <1>2, <1>5, <1>6, <1>7, <1>8, TypesAgain
<1>10. ASSUME NEW e \in Decls
       PROVE  \E a, b, c \in Int : /\ Occurrences(e)' = Occurrences(e) + a
                                   /\ Holds(scopes', e) = Holds(scopes, e) + b
                                   /\ Extra(e)' = Extra(e) + c
                                   /\ a = b + c
  <2> DEFINE a == IF e = i THEN 1 ELSE 0
  <2>1. Extra(e)' = Extra(e) + a
    BY <1>4 DEF Extra
  <2>2. Holds(scopes, e) \in Nat
    BY HoldsType DEF ScopesInv, TypeOK
  <2>3. /\ a \in Int /\ 0 \in Int /\ a = 0 + a
        /\ Occurrences(e)' = Occurrences(e) + a
        /\ Holds(scopes', e) = Holds(scopes, e) + 0
    BY <1>7, <1>8, <2>2
  <2> HIDE DEF a
  <2> QED BY <2>1, <2>3
<1>11. ChainsMatchScopes'
  BY <1>1, <1>10, BalanceAgain
<1> QED BY <1>9, <1>11 DEF ScopesInv

LEMMA PopDeclKeeps ==
  ASSUME ScopesInv, NEW d \in Decls, PopDecl(d)
  PROVE  ScopesInv'
<1>1. /\ TypeOK /\ prog' = prog /\ frames' = frames /\ RemoveDecl(d) /\ d \in CurScope
      /\ scopes \in Seq(SUBSET Decls) /\ scopes # <<>>
      /\ Len(scopes) \in 1 .. Len(scopes) /\ CurScope \ {d} \in SUBSET Decls
      /\ scopes' = [scopes EXCEPT ![Len(scopes)] = CurScope \ {d}]
  BY FrameFacts DEF ScopesInv, TypeOK, PopDecl, CurScope
<1>2. /\ ChainsOK'
      /\ \A e \in Decls : Occurrences(e) = Occurrences(e)' + (IF e = d THEN 1 ELSE 0)
  BY <1>1, RemovedOnce
<1>3. /\ scopes' \in Seq(SUBSET Decls) /\ Len(scopes') = Len(scopes)
      /\ scopes'[Len(scopes)] = CurScope \ {d}
      /\ \A k \in 1 .. Len(scopes) : k # Len(scopes) => scopes'[k] = scopes[k]
  BY <1>1, Replaced
<1>4. \A e : Holds(scopes, e) = Holds(scopes', e) + (IF e = d THEN 1 ELSE 0)
  <2>1. d \in scopes[Len(scopes)] /\ scopes'[Len(scopes)] = scopes[Len(scopes)] \ {d}
    BY <1>1, <1>3 DEF CurScope
  <2>2. scopes \in Seq(SUBSET Decls) /\ scopes # <<>> /\ scopes' \in Seq(SUBSET Decls)
    BY <1>1, <1>3
  <2>3. /\ Len(scopes') = Len(scopes)
        /\ \A k \in 1 .. Len(scopes) : k # Len(scopes) => scopes'[k] = scopes[k]
    BY <1>3
  <2> QED BY ONLY <2>1, <2>2, <2>3, HoldsRemove
<1>5. FramesOK' /\ Traversed' = Traversed /\ Len(scopes') = Len(frames')
  BY <1>1, <1>3 DEF TypeOK, FramesOK, Traversed, Visited, Ids, Kind
<1>6. /\ typed' \subseteq Ids /\ \A e \in errors' : e.decl \in Ids
      /\ resolved'.decl \in Decls \cup {0}
      /\ status' \in {"running", "done", "nullType", "fatal"}
  BY DEF PopDecl, ScopesInv, TypeOK
<1>7. TypeOK'
  BY <1>1, <1>2, <1>3, <1>5, <1>6, TypesAgain
<1>8. Decls' = Decls
  BY <1>1 DEF Decls, Ids
<1>9. ASSUME NEW e \in Decls
      PROVE  Occurrences(e)' = Holds(scopes', e) + Extra(e)'
  <2>1. Occurrences(e) = Holds(scopes, e) + Extra(e)
    BY DEF ScopesInv, ChainsMatchScopes, Holds, Holding, Extra
  <2>2. Holds(scopes', e) \in Nat /\ Extra(e) \in Nat /\ Extra(e)' = Extra(e)
    BY <1>3, <1>5, HoldsType DEF Extra
  <2>3. Occurrences(e)' \in Nat
    <3>1. NameOf(e)' = NameOf(e) /\ NameOf(e) \in AllNames
      BY <1>1, ProgramFacts DEF NameOf
    <3>2. chain'[NameOf(e)] \in Seq(Decls)
      BY <1>2, <1>8, <3>1 DEF ChainsOK
    <3>3. Occurrences(e)' = Times(chain'[NameOf(e)], e)
      BY <3>1 DEF Occurrences, Times, Places
    <3> QED BY <3>2, <3>3, TimesType
  <2>4. Occurrences(e) = Occurrences(e)' + (IF e = d THEN 1 ELSE 0)
    BY <1>2
  <2>5. Holds(scopes, e) = Holds(scopes', e) + (IF e = d THEN 1 ELSE 0)
    BY <1>4
  <2> DEFINE o == Occurrences(e)'
  <2> HIDE DEF o
  <2>6. o = Holds(scopes', e) + Extra(e)
    <3>1. o + (IF e = d THEN 1 ELSE 0) =
            Holds(scopes', e) + (IF e = d THEN 1 ELSE 0) + Extra(e) /\ o \in Nat
      BY <2>1, <2>3, <2>4, <2>5 DEF o
    <3> QED BY <2>2, <3>1
  <2> QED BY <2>2, <2>6 DEF o
<1>10. ChainsMatchScopes'
  BY <1>8, <1>9 DEF ChainsMatchScopes, Holds, Holding, Extra
<1> QED BY <1>7, <1>10 DEF ScopesInv

LEMMA LeaveScopeKeeps ==
  ASSUME ScopesInv, LeaveScope
  PROVE  ScopesInv'
<1>1. CASE Len(scopes) = 1
  <2>1. UNCHANGED <<prog, frames, scopes, chain, typed, errors>>
    BY <1>1 DEF LeaveScope
  <2>2. /\ resolved'.decl \in Decls \cup {0}
        /\ status' \in {"running", "done", "nullType", "fatal"}
    BY <1>1 DEF LeaveScope, ScopesInv, TypeOK
  <2> QED BY <2>1, <2>2, OnlyStatus
<1>2. CASE Len(scopes) # 1
  <2> DEFINE n == Len(frames)
  <2>1. /\ TypeOK /\ prog' = prog /\ chain' = chain
        /\ scopes \in Seq(SUBSET Decls) /\ scopes # <<>> /\ Len(scopes) = n
        /\ scopes[Len(scopes)] = {} /\ scopes' = SubSeq(scopes, 1, Len(scopes) - 1)
        /\ frames \in Seq(FrameSet) /\ frames # <<>> /\ n \in Nat /\ n > 1
        /\ frames' = SubSeq(frames, 1, n - 1)
    <3>1. TypeOK /\ prog' = prog /\ chain' = chain
      BY DEF ScopesInv, LeaveScope
    <3>2. /\ scopes \in Seq(SUBSET Decls) /\ scopes # <<>> /\ Len(scopes) = n
          /\ n \in Nat \ {0} /\ frames \in Seq(FrameSet) /\ frames # <<>>
      BY <3>1, FrameFacts DEF TypeOK, FramesOK, FrameSet
    <3>3. /\ scopes[Len(scopes)] = {} /\ scopes' = SubSeq(scopes, 1, Len(scopes) - 1)
          /\ frames' = SubSeq(frames, 1, n - 1)
      BY <1>2 DEF LeaveScope, CurScope
    <3> QED BY <1>2, <3>1, <3>2, <3>3
  <2>2. /\ frames' \in Seq(FrameSet) /\ Len(frames') = n - 1
        /\ \A k \in 1 .. n - 1 : frames'[k] = frames[k]
    BY <2>1, Shortened
  <2>3. frames'[1] = frames[1]
    BY <2>1, <2>2
  <2>4. /\ frames' # <<>> /\ frames'[1].decl = 0
        /\ \A k \in 1 .. n - 1 : /\ k # 1 => frames'[k].decl # 0
                                 /\ frames'[k].phase = "nested" => frames'[k].at # 0
    <3>1. /\ frames[1].decl = 0
          /\ \A k \in 1 .. n : /\ k # 1 => frames[k].decl # 0
                               /\ frames[k].phase = "nested" => frames[k].at # 0
      BY <2>1 DEF TypeOK, FramesOK
    <3>2. \A k \in 1 .. n - 1 : k \in 1 .. n
      BY <2>1
    <3>3. frames' # <<>>
      <4>1. Len(frames') # 0 /\ Len(<<>>) = 0
        BY <2>1, <2>2
      <4> QED BY <4>1
    <3> QED BY <2>2, <2>3, <3>1, <3>2, <3>3
  <2>5. FramesOK'
    BY <2>1, <2>2, <2>4 DEF FramesOK, FrameSet
  <2>6. /\ scopes' \in Seq(SUBSET Decls) /\ Len(scopes') = Len(scopes) - 1
        /\ \A e : Holds(scopes', e) = Holds(scopes, e)
    BY <2>1, HoldsClose
  <2>7. ChainsOK' /\ Decls' = Decls
    BY <2>1 DEF TypeOK, ChainsOK, NameOf, Decls, Ids
  <2>8. /\ typed' \subseteq Ids /\ \A e \in errors' : e.decl \in Ids
        /\ resolved'.decl \in Decls \cup {0}
        /\ status' \in {"running", "done", "nullType", "fatal"}
    BY <1>2 DEF LeaveScope, ScopesInv, TypeOK
  <2>9. TypeOK'
    BY <2>1, <2>2, <2>5, <2>6, <2>7, <2>8, TypesAgain
  <2>10. Traversed' = Traversed
    BY <2>1, <2>3, SameTraversed
  <2>11. \A e \in Decls : Occurrences(e)' = Occurrences(e) /\ Extra(e)' = Extra(e)
    BY <2>1, <2>10 DEF Occurrences, NameOf, Extra
  <2>12. \A e \in Decls : Occurrences(e)' = Holds(scopes', e) + Extra(e)'
    BY <2>6, <2>11 DEF ScopesInv, ChainsMatchScopes, Holds, Holding, Extra
  <2>13. ChainsMatchScopes'
    BY <2>7, <2>12 DEF ChainsMatchScopes, Holds, Holding, Extra
  <2> QED BY <2>9, <2>13 DEF ScopesInv
<1> QED BY <1>1, <1>2

-----------------------------------------------------------------------------
(* Registering and popping balance.                                        *)

LEMMA InitScopes == Init => ScopesInv
<1> SUFFICES ASSUME Init PROVE ScopesInv
  OBVIOUS
<1>1. /\ IsProgram(prog) /\ frames = <<Frame(0, "declare")>> /\ scopes = <<Predefined>>
      /\ typed = {} /\ errors = {} /\ resolved = Nothing /\ status = "running"
  BY ProgramsAssumption DEF Init
<1>2. Len(prog) \in Nat
  BY <1>1 DEF IsProgram
<1>3. FramesOK
  <2> DEFINE f == Frame(0, "declare")
  <2>1. f \in FrameSet /\ f.decl = 0 /\ f.phase = "declare"
    BY <1>2 DEF FrameSet, Frame, Phases
  <2> HIDE DEF f
  <2>2. /\ frames \in Seq(FrameSet) /\ frames # <<>> /\ Len(frames) = 1 /\ frames[1] = f
    BY <1>1, <2>1 DEF f
  <2> QED BY <2>1, <2>2 DEF FramesOK, FrameSet
<1>4. Ids \subseteq Decls /\ Predefined \subseteq Decls /\ 0 \notin Predefined
  BY DEF Decls, Predefined, ObjectClass, SpecialClass
<1>5. \A n \in AllNames : chain[n] = CASE n = "object" -> <<ObjectClass>>
                                       [] n = "int" -> <<SpecialClass>>
                                       [] OTHER -> <<>>
  BY DEF Init
<1>6. ObjectClass \in Decls /\ SpecialClass \in Decls /\ ObjectClass # SpecialClass
  BY <1>4 DEF Predefined, ObjectClass, SpecialClass
<1>7. NameOf(ObjectClass) = "object" /\ NameOf(SpecialClass) = "int"
  BY <1>6 DEF NameOf
<1>8. ASSUME NEW n \in AllNames
      PROVE  /\ chain[n] \in Seq(Decls)
             /\ \A i \in 1 .. Len(chain[n]) : NameOf(chain[n][i]) = n
  <2>1. CASE n = "object"
    <3>1. chain[n] = <<ObjectClass>>
      BY <1>5, <2>1
    <3> QED BY <1>6, <1>7, <2>1, <3>1
  <2>2. CASE n = "int"
    <3>1. chain[n] = <<SpecialClass>>
      BY <1>5, <2>2
    <3> QED BY <1>6, <1>7, <2>2, <3>1
  <2>3. CASE n # "object" /\ n # "int"
    <3>1. chain[n] = <<>>
      BY <1>5, <2>3
    <3> QED BY <3>1
  <2> QED BY <2>1, <2>2, <2>3
<1>9. ChainsOK
  <2>1. chain \in [AllNames -> Seq(Decls)]
    BY <1>8 DEF Init
  <2> QED BY <1>8, <2>1 DEF ChainsOK
<1>10. scopes \in Seq(SUBSET Decls) /\ Len(scopes) = Len(frames) /\ Len(scopes) = 1
  BY <1>1, <1>4
<1>11. TypeOK
  BY <1>1, <1>3, <1>9, <1>10, NothingFound DEF TypeOK
<1>12. ASSUME NEW d \in Decls
       PROVE  Occurrences(d) = Holds(scopes, d) + Extra(d)
  <2>1. Extra(d) = 0
    BY <1>1 DEF Extra, Traversed, Visited, Frame
  <2>2. Occurrences(d) = Times(chain[NameOf(d)], d) /\ NameOf(d) \in AllNames
    BY <1>11, ProgramFacts DEF Occurrences, Times, Places
  <2>3. Holds(scopes, d) = IF d \in Predefined THEN 1 ELSE 0
    <3>1. Holding(scopes, d) = IF d \in Predefined THEN {1} ELSE {}
      BY <1>1 DEF Holding
    <3> QED BY <3>1, FS_Singleton, FS_EmptySet DEF Holds
  <2>4. CASE d = ObjectClass
    BY <1>5, <1>7, <2>1, <2>2, <2>3, <2>4, TimesSingle DEF Predefined
  <2>5. CASE d = SpecialClass
    BY <1>5, <1>7, <2>1, <2>2, <2>3, <2>5, TimesSingle DEF Predefined
  <2>6. CASE d \notin Predefined
    <3>1. d # ObjectClass /\ d # SpecialClass
      BY <2>6 DEF Predefined
    <3>2. Times(chain[NameOf(d)], d) = 0
      <4>1. CASE NameOf(d) = "object"
        BY <1>5, <2>2, <3>1, <4>1, TimesSingle
      <4>2. CASE NameOf(d) = "int"
        BY <1>5, <2>2, <3>1, <4>2, TimesSingle
      <4>3. CASE NameOf(d) # "object" /\ NameOf(d) # "int"
        BY <1>5, <2>2, <4>3, TimesEmpty
      <4> QED BY <4>1, <4>2, <4>3
    <3> QED BY <2>1, <2>2, <2>3, <2>6, <3>2
  <2> QED BY <2>4, <2>5, <2>6 DEF Predefined
<1>13. ChainsMatchScopes
  BY <1>12 DEF ChainsMatchScopes, Holds, Holding, Extra
<1> QED BY <1>11, <1>13 DEF ScopesInv

LEMMA StepScopes == ScopesInv /\ [Next]_vars => ScopesInv'
<1> SUFFICES ASSUME ScopesInv, [Next]_vars PROVE ScopesInv'
  OBVIOUS
<1>1. CASE \E i \in Ids : \/ DeclareTwice(i) \/ Declare(i) \/ DeclareNonlocal(i)
                          \/ DeclareGlobal(i) \/ CastNullType(i)
                          \/ VisitVar(i) \/ VisitFunction(i) \/ VisitClass(i)
  BY <1>1, DeclareTwiceKeeps, DeclareKeeps, DeclareNonlocalKeeps, DeclareGlobalKeeps,
     CastNullTypeKeeps, VisitVarKeeps, VisitFunctionKeeps, VisitClassKeeps
<1>2. CASE EndDeclarations
  BY <1>2, EndDeclarationsKeeps
<1>3. CASE VisitNested
  BY <1>3, VisitNestedKeeps
<1>4. CASE EndVisit
  BY <1>4, EndVisitKeeps
<1>5. CASE EndStatements
  BY <1>5, EndStatementsKeeps
<1>6. CASE \E d \in Decls : PopDecl(d)
  BY <1>6, PopDeclKeeps
<1>7. CASE LeaveScope
  BY <1>7, LeaveScopeKeeps
<1>8. CASE \E n \in AllNames : LookUp(n)
  BY <1>8, LookUpKeeps
<1>9. CASE UNCHANGED vars
  <2>1. /\ resolved'.decl \in Decls \cup {0}
        /\ status' \in {"running", "done", "nullType", "fatal"}
    BY <1>9 DEF vars, ScopesInv, TypeOK
  <2> QED BY <1>9, <2>1, OnlyStatus DEF vars
<1> QED BY <1>1, <1>2, <1>3, <1>4, <1>5, <1>6, <1>7, <1>8, <1>9 DEF Next, Progress

\* For every set of programs the resolver holds each declaration as often as
\* the open scopes do: registering in traverse... and handle... of Sema and
\* popping in actOnPopScope balance.
THEOREM ScopesInvariant == Spec => []ScopesInv
<1>1. Init => ScopesInv
  BY InitScopes
<1>2. ScopesInv /\ [Next]_vars => ScopesInv'
  BY StepScopes
<1> QED BY <1>1, <1>2, PTL DEF Spec

\* A scope pops only what the resolver holds, so removeDecl may drop the only
\* declaration of a symbol without comparing it.
THEOREM PopsOnlyRegistered == Spec => []ResolverContract
<1>1. ScopesInv => ResolverContract
  <2> SUFFICES ASSUME ScopesInv, NEW d \in CurScope PROVE Occurrences(d) > 0
    BY DEF ResolverContract
  <2>1. /\ scopes \in Seq(SUBSET Decls) /\ Len(scopes) \in 1 .. Len(scopes)
        /\ CurScope \in SUBSET Decls
    BY FrameFacts DEF ScopesInv, TypeOK
  <2>2. IsFiniteSet(Holding(scopes, d)) /\ Holds(scopes, d) \in Nat
    BY <2>1, HoldsType
  <2>3. Holding(scopes, d) # {}
    BY <2>1 DEF Holding, CurScope
  <2>4. Holds(scopes, d) # 0
    BY <2>2, <2>3, FS_EmptySet DEF Holds
  <2>5. Occurrences(d) = Holds(scopes, d) + Extra(d) /\ Extra(d) \in Nat
    BY <2>1 DEF ScopesInv, ChainsMatchScopes, Holds, Holding, Extra
  <2> QED BY <2>2, <2>4, <2>5
<1> QED BY <1>1, ScopesInvariant, PTL

-----------------------------------------------------------------------------
(* Chains as layers of scopes.                                             *)

\* p is q without its element i, r is s with its last set without e.
WithoutAt(p, q, i) ==
  /\ Len(p) = Len(q) - 1
  /\ \A j \in 1 .. Len(p) : p[j] = IF j < i THEN q[j] ELSE q[j + 1]

LastWithout(r, s, e) ==
  /\ Len(r) = Len(s) /\ r[Len(s)] = s[Len(s)] \ {e}
  /\ \A k \in 1 .. Len(s) : k # Len(s) => r[k] = s[k]

\* What the names of D cannot tell apart leaves their chain in layers.
LEMMA LayersSame ==
  ASSUME NEW X, NEW q \in Seq(X), NEW s \in Seq(SUBSET X), NEW D, Layered(q, s, D),
         \A i \in 1 .. Len(q) : q[i] \in D,
         NEW r \in Seq(SUBSET X), Len(r) = Len(s),
         \A k \in 1 .. Len(s) : r[k] \cap D = s[k] \cap D
  PROVE  Layered(q, r, D)
<1>1. PICK level \in [1 .. Len(q) -> 1 .. Len(s)] : InLayers(q, s, D, level)
  BY DEF Layered
<1>2. ASSUME NEW i \in 1 .. Len(q)
      PROVE  q[i] \in r[level[i]]
  <2>1. level[i] \in 1 .. Len(s) /\ q[i] \in D
    BY <1>1
  <2>2. q[i] \in s[level[i]]
    BY <1>1 DEF InLayers
  <2>3. r[level[i]] \cap D = s[level[i]] \cap D
    BY <2>1
  <2> QED BY ONLY <2>1, <2>2, <2>3
<1>3. InLayers(q, r, D, level)
  BY <1>1, <1>2 DEF InLayers
<1> QED BY <1>1, <1>3 DEF Layered

\* A declaration enters the innermost scope and goes on top.
LEMMA LayersPushed ==
  ASSUME NEW X, NEW q \in Seq(X), NEW s \in Seq(SUBSET X), s # <<>>,
         NEW D, Layered(q, s, D), NEW e \in X, e \notin s[Len(s)],
         NEW r \in Seq(SUBSET X), Len(r) = Len(s), r[Len(s)] = s[Len(s)] \cup {e},
         \A k \in 1 .. Len(s) : k # Len(s) => r[k] = s[k]
  PROVE  Layered(Append(q, e), r, D)
<1> DEFINE n == Len(s)
           m == Len(q)
           p == Append(q, e)
<1>1. PICK level \in [1 .. m -> 1 .. n] : InLayers(q, s, D, level)
  BY DEF Layered
<1>2. /\ n \in Nat /\ n > 0 /\ m \in Nat /\ Len(p) = m + 1 /\ p[m + 1] = e
      /\ \A i \in 1 .. m : p[i] = q[i]
  OBVIOUS
<1>3. /\ \A k \in 1 .. n : k # n => r[k] = s[k]
      /\ r[n] = s[n] \cup {e} /\ e \notin s[n] /\ Len(r) = n
  OBVIOUS
<1> HIDE DEF p, m, n
<1> DEFINE up == [i \in 1 .. m + 1 |-> IF i = m + 1 THEN n ELSE level[i]]
<1>4. /\ up \in [1 .. m + 1 -> 1 .. n] /\ up[m + 1] = n
      /\ \A i \in 1 .. m : up[i] = level[i] /\ level[i] \in 1 .. n
  <2>1. \A i \in 1 .. m : level[i] \in 1 .. n
    BY <1>1
  <2>2. n \in 1 .. n /\ m + 1 \in 1 .. m + 1 /\ \A i \in 1 .. m : i # m + 1 /\ i \in 1 .. m + 1
    BY <1>2
  <2>3. \A i \in 1 .. m + 1 : i = m + 1 \/ i \in 1 .. m
    BY <1>2
  <2> QED BY <2>1, <2>2, <2>3
<1> HIDE DEF up
<1>5. /\ \A i \in 1 .. m : q[i] \in s[level[i]]
      /\ \A i, j \in 1 .. m : i < j => level[i] <= level[j]
      /\ \A i, j \in 1 .. m : q[i] = q[j] /\ level[i] = level[j] /\ level[i] # 1 => i = j
      /\ \A k \in 1 .. n : \A d \in s[k] \cap D : \E i \in 1 .. m : q[i] = d /\ level[i] = k
  BY <1>1 DEF InLayers, m, n
<1>6. \A i \in 1 .. Len(p) : (i = m + 1 /\ i \notin 1 .. m) \/ i \in 1 .. m
  BY <1>2
<1>7. \A i \in 1 .. Len(p) : p[i] \in r[up[i]]
  <2> TAKE i \in 1 .. Len(p)
  <2>1. CASE i = m + 1
    BY <1>2, <1>4, <1>3, <2>1
  <2>2. CASE i \in 1 .. m
    <3>1. p[i] = q[i] /\ up[i] = level[i] /\ q[i] \in s[level[i]] /\ level[i] \in 1 .. n
      BY <1>2, <1>4, <1>5, <2>2
    <3>2. CASE level[i] = n
      BY <1>3, <3>1, <3>2
    <3>3. CASE level[i] # n
      BY <1>3, <3>1, <3>3
    <3> QED BY <3>2, <3>3
  <2> QED BY <1>6, <2>1, <2>2
<1>8. ASSUME NEW i \in 1 .. Len(p), NEW j \in 1 .. Len(p), i < j
      PROVE  up[i] <= up[j]
  <2>1. i \in 1 .. m /\ up[i] = level[i] /\ level[i] \in 1 .. n
    BY <1>2, <1>4, <1>8
  <2>2. CASE j = m + 1
    BY <1>2, <1>4, <2>1, <2>2
  <2>3. CASE j \in 1 .. m
    BY <1>4, <1>5, <1>8, <2>1, <2>3
  <2> QED BY <1>6, <2>2, <2>3
<1>9. \A i \in 1 .. m : q[i] = e => level[i] # n
  BY <1>5, <1>3
<1>10. ASSUME NEW i \in 1 .. Len(p), NEW j \in 1 .. Len(p),
             p[i] = p[j], up[i] = up[j], up[i] # 1
      PROVE  i = j
  <2>1. CASE i = m + 1 /\ j \in 1 .. m
    BY <1>2, <1>4, <1>9, <1>10, <2>1
  <2>2. CASE i \in 1 .. m /\ j = m + 1
    BY <1>2, <1>4, <1>9, <1>10, <2>2
  <2>3. CASE i \in 1 .. m /\ j \in 1 .. m
    <3>1. q[i] = q[j] /\ level[i] = level[j] /\ level[i] # 1
      BY <1>2, <1>4, <1>10, <2>3
    <3> QED BY <1>5, <2>3, <3>1
  <2> QED BY <1>6, <2>1, <2>2, <2>3
<1>11. ASSUME NEW k \in 1 .. Len(r), NEW d \in r[k] \cap D
      PROVE  \E i \in 1 .. Len(p) : p[i] = d /\ up[i] = k
  <2>1. CASE d = e /\ k = n
    <3>1. m + 1 \in 1 .. Len(p)
      BY <1>2
    <3> QED BY <1>2, <1>4, <2>1, <3>1
  <2>2. CASE ~(d = e /\ k = n)
    <3>1. d \in s[k] \cap D /\ k \in 1 .. n
      BY <1>3, <2>2
    <3>2. PICK i \in 1 .. m : q[i] = d /\ level[i] = k
      BY <1>5, <3>1
    <3> QED BY <1>2, <1>4, <3>2
  <2> QED BY <2>1, <2>2
<1>12. InLayers(p, r, D, up)
  BY <1>7, <1>8, <1>10, <1>11 DEF InLayers
<1>13. up \in [1 .. Len(p) -> 1 .. Len(r)]
  BY <1>2, <1>4, <1>3
<1> QED BY <1>12, <1>13 DEF Layered, p

\* A class is added once more while its scope is the only one.
LEMMA LayersAgain ==
  ASSUME NEW X, NEW q \in Seq(X), NEW s \in Seq(SUBSET X), Len(s) = 1,
         NEW D, Layered(q, s, D), NEW e \in X, e \in s[1]
  PROVE  Layered(Append(q, e), s, D)
<1> DEFINE m == Len(q)
           p == Append(q, e)
           up == [i \in 1 .. m + 1 |-> 1]
<1>1. PICK level \in [1 .. m -> 1 .. Len(s)] : InLayers(q, s, D, level)
  BY DEF Layered
<1>2. /\ m \in Nat /\ Len(p) = m + 1 /\ p[m + 1] = e
      /\ \A i \in 1 .. m : p[i] = q[i]
  OBVIOUS
<1>3. /\ up \in [1 .. m + 1 -> 1 .. Len(s)] /\ \A i \in 1 .. m + 1 : up[i] = 1
      /\ \A i \in 1 .. m : level[i] = 1
  BY <1>1, <1>2
<1> HIDE DEF up, p
<1>4. \A i \in 1 .. Len(p) : p[i] \in s[up[i]]
  BY <1>1, <1>2, <1>3 DEF InLayers
<1>5. \A i, j \in 1 .. Len(p) : i < j => up[i] <= up[j]
  BY <1>2, <1>3
<1>6. ASSUME NEW k \in 1 .. Len(s), NEW d \in s[k] \cap D
      PROVE  \E i \in 1 .. Len(p) : p[i] = d /\ up[i] = k
  <2>1. PICK i \in 1 .. m : q[i] = d
    BY <1>1 DEF InLayers
  <2>2. i \in 1 .. Len(p) /\ p[i] = d /\ up[i] = k
    BY <1>2, <1>3, <2>1
  <2> QED BY <2>2
<1>7. InLayers(p, s, D, up)
  BY <1>2, <1>3, <1>4, <1>5, <1>6 DEF InLayers
<1> QED BY <1>2, <1>3, <1>7 DEF Layered, p

\* A scope is opened.
LEMMA LayersOpened ==
  ASSUME NEW X, NEW q \in Seq(X), NEW s \in Seq(SUBSET X), NEW D, Layered(q, s, D)
  PROVE  Layered(q, Append(s, {}), D)
<1> DEFINE r == Append(s, {})
           n == Len(s)
<1>1. PICK level \in [1 .. Len(q) -> 1 .. n] : InLayers(q, s, D, level)
  BY DEF Layered
<1>2. /\ n \in Nat /\ Len(r) = n + 1 /\ r[n + 1] = {}
      /\ \A k \in 1 .. n : r[k] = s[k]
  OBVIOUS
<1> HIDE DEF r
<1>3. level \in [1 .. Len(q) -> 1 .. Len(r)]
  BY <1>1, <1>2
<1>4. \A i \in 1 .. Len(q) : q[i] \in r[level[i]]
  BY <1>1, <1>2 DEF InLayers
<1>5. \A k \in 1 .. Len(r) : \A d \in r[k] \cap D :
        \E i \in 1 .. Len(q) : q[i] = d /\ level[i] = k
  BY <1>1, <1>2 DEF InLayers
<1>6. InLayers(q, r, D, level)
  BY <1>1, <1>4, <1>5 DEF InLayers
<1> QED BY <1>3, <1>6 DEF Layered, r

\* One that is empty is closed.
LEMMA LayersClosed ==
  ASSUME NEW X, NEW q \in Seq(X), NEW s \in Seq(SUBSET X), Len(s) > 1, s[Len(s)] = {},
         NEW D, Layered(q, s, D),
         NEW r \in Seq(SUBSET X), Len(r) = Len(s) - 1,
         \A k \in 1 .. Len(s) - 1 : r[k] = s[k]
  PROVE  Layered(q, r, D)
<1> DEFINE n == Len(s)
<1>1. PICK level \in [1 .. Len(q) -> 1 .. n] : InLayers(q, s, D, level)
  BY DEF Layered
<1>2. n \in Nat /\ \A i \in 1 .. Len(q) : level[i] \in 1 .. n /\ level[i] # n
  BY <1>1 DEF InLayers
<1>3. \A i \in 1 .. Len(q) : level[i] \in 1 .. n - 1
  BY <1>2
<1>4. level \in [1 .. Len(q) -> 1 .. Len(r)]
  BY <1>1, <1>3
<1>5. \A i \in 1 .. Len(q) : q[i] \in r[level[i]]
  BY <1>1, <1>3 DEF InLayers
<1>6. \A k \in 1 .. Len(r) : \A d \in r[k] \cap D :
        \E i \in 1 .. Len(q) : q[i] = d /\ level[i] = k
  BY <1>1, <1>2 DEF InLayers
<1>7. InLayers(q, r, D, level)
  BY <1>1, <1>5, <1>6 DEF InLayers
<1> QED BY <1>4, <1>7 DEF Layered

\* A declaration of an inner scope is taken out of it and, where it is
\* topmost, out of the chain.
LEMMA LayersRemoved ==
  ASSUME NEW X, NEW q \in Seq(X), NEW s \in Seq(SUBSET X), Len(s) > 1,
         NEW D, Layered(q, s, D), NEW e \in s[Len(s)], e \in D,
         NEW i \in 1 .. Len(q), Topmost(q, e, i),
         NEW p \in Seq(X), WithoutAt(p, q, i),
         NEW r \in Seq(SUBSET X), LastWithout(r, s, e)
  PROVE  Layered(p, r, D)
<1>1. /\ q[i] = e /\ \A j \in i + 1 .. Len(q) : q[j] # e
      /\ Len(p) = Len(q) - 1
      /\ \A j \in 1 .. Len(p) : p[j] = IF j < i THEN q[j] ELSE q[j + 1]
      /\ Len(r) = Len(s) /\ r[Len(s)] = s[Len(s)] \ {e}
      /\ \A k \in 1 .. Len(s) : k # Len(s) => r[k] = s[k]
  BY DEF Topmost, WithoutAt, LastWithout
<1> DEFINE n == Len(s)
           m == Len(q)
           src(j) == IF j < i THEN j ELSE j + 1
<1>2. PICK level \in [1 .. m -> 1 .. n] : InLayers(q, s, D, level)
  BY DEF Layered
<1>3. /\ \A j \in 1 .. m : q[j] \in s[level[j]] /\ level[j] \in 1 .. n
      /\ \A j, k \in 1 .. m : j < k => level[j] <= level[k]
      /\ \A j, k \in 1 .. m : q[j] = q[k] /\ level[j] = level[k] /\ level[j] # 1 => j = k
      /\ \A k \in 1 .. n : \A d \in s[k] \cap D : \E j \in 1 .. m : q[j] = d /\ level[j] = k
  BY <1>2 DEF InLayers
<1>4. n \in Nat /\ m \in Nat /\ n > 1 /\ i \in Nat
  BY <1>1
<1>5. level[i] = n
  <2>1. PICK j \in 1 .. m : q[j] = e /\ level[j] = n
    BY <1>1, <1>3, <1>4
  <2>2. ~(j > i)
    BY <1>1, <1>4, <2>1
  <2>3. CASE j = i
    BY <2>1, <2>3
  <2>4. CASE j < i
    BY <1>3, <1>4, <2>1, <2>4
  <2> QED BY <2>2, <2>3, <2>4, <1>4
<1>6. \A j \in 1 .. Len(p) : /\ src(j) \in 1 .. m /\ src(j) # i /\ p[j] = q[src(j)]
  BY <1>1, <1>4
<1>7. \A j, k \in 1 .. Len(p) : /\ j < k => src(j) < src(k)
                                /\ src(j) = src(k) => j = k
  BY <1>4
<1>8. \A j \in 1 .. m : j # i => \E k \in 1 .. Len(p) : src(k) = j
  <2> TAKE j \in 1 .. m
  <2>1. CASE j < i
    <3>1. j \in 1 .. Len(p) /\ src(j) = j
      BY <1>1, <1>4, <2>1
    <3> QED BY <3>1
  <2>2. CASE j > i
    <3>1. j - 1 \in 1 .. Len(p) /\ src(j - 1) = j
      BY <1>1, <1>4, <2>2
    <3> QED BY <3>1
  <2> QED BY <1>4, <2>1, <2>2
<1> DEFINE down == [j \in 1 .. Len(p) |-> level[src(j)]]
<1>9. \A j \in 1 .. Len(p) : down[j] = level[src(j)]
  BY <1>1
<1>10. down \in [1 .. Len(p) -> 1 .. n]
  BY <1>3, <1>6
<1> HIDE DEF down, src
<1>11. \A j \in 1 .. Len(p) : p[j] \in r[down[j]]
  <2> TAKE j \in 1 .. Len(p)
  <2>1. src(j) \in 1 .. m /\ src(j) # i /\ p[j] = q[src(j)] /\ down[j] = level[src(j)]
    BY <1>6, <1>9
  <2>2. CASE level[src(j)] # n
    BY <1>1, <1>3, <2>1, <2>2
  <2>3. CASE level[src(j)] = n
    <3>1. q[src(j)] # e
      BY <1>1, <1>3, <1>4, <1>5, <2>1, <2>3
    <3> QED BY <1>1, <1>3, <2>1, <2>3, <3>1
  <2> QED BY <2>2, <2>3
<1>12. ASSUME NEW j \in 1 .. Len(p), NEW k \in 1 .. Len(p), j < k
       PROVE  down[j] <= down[k]
  <2>1. src(j) \in 1 .. m /\ src(k) \in 1 .. m /\ src(j) < src(k)
    BY <1>6, <1>7, <1>12
  <2> QED BY <1>3, <1>9, <2>1
<1>13. ASSUME NEW j \in 1 .. Len(p), NEW k \in 1 .. Len(p),
              p[j] = p[k], down[j] = down[k], down[j] # 1
       PROVE  j = k
  <2>1. /\ src(j) \in 1 .. m /\ src(k) \in 1 .. m
        /\ q[src(j)] = q[src(k)] /\ level[src(j)] = level[src(k)] /\ level[src(j)] # 1
    BY <1>6, <1>9, <1>13
  <2>2. src(j) = src(k)
    BY <1>3, <2>1
  <2> QED BY <1>7, <2>2
<1>14. ASSUME NEW k \in 1 .. Len(r), NEW d \in r[k] \cap D
       PROVE  \E j \in 1 .. Len(p) : p[j] = d /\ down[j] = k
  <2>1. d \in s[k] \cap D /\ k \in 1 .. n /\ ~(d = e /\ k = n)
    BY <1>1, <1>4
  <2>2. PICK j \in 1 .. m : q[j] = d /\ level[j] = k
    BY <1>3, <2>1
  <2>3. j # i
    BY <1>1, <1>5, <2>1, <2>2
  <2>4. PICK x \in 1 .. Len(p) : src(x) = j
    BY <1>8, <2>3
  <2> QED BY <1>6, <1>9, <2>2, <2>4
<1>15. InLayers(p, r, D, down)
  BY <1>11, <1>12, <1>13, <1>14 DEF InLayers
<1> QED BY <1>1, <1>10, <1>15 DEF Layered

\* The topmost entry belongs to the innermost scope that has any.
LEMMA LayersTop ==
  ASSUME NEW X, NEW q \in Seq(X), NEW s \in Seq(SUBSET X), NEW D, Layered(q, s, D),
         \A i \in 1 .. Len(q) : q[i] \in D,
         NEW k \in 1 .. Len(s), s[k] \cap D # {},
         \A j \in k + 1 .. Len(s) : s[j] \cap D = {}
  PROVE  q # <<>> /\ q[Len(q)] \in s[k]
<1> DEFINE n == Len(s)
           m == Len(q)
<1>1. PICK level \in [1 .. m -> 1 .. n] : InLayers(q, s, D, level)
  BY DEF Layered
<1>2. n \in Nat /\ m \in Nat
  OBVIOUS
<1>3. PICK i \in 1 .. m : level[i] = k
  BY <1>1 DEF InLayers
<1>4. m \in 1 .. m
  BY <1>2, <1>3
<1>5. q[m] \in s[level[m]] /\ level[m] \in 1 .. n /\ q[m] \in D
  BY <1>1, <1>4 DEF InLayers
<1>6. k <= level[m]
  <2>1. CASE i = m
    BY <1>3, <2>1
  <2>2. CASE i # m
    BY <1>1, <1>2, <1>3, <1>4, <2>2 DEF InLayers
  <2> QED BY <2>1, <2>2
<1>7. ~(level[m] > k)
  BY <1>2, <1>5
<1>8. level[m] = k
  BY <1>2, <1>5, <1>6, <1>7
<1> QED BY <1>2, <1>4, <1>5, <1>8

\* The declarations a chain may hold.
LEMMA ChainFacts ==
  ASSUME ScopesInv
  PROVE  /\ \A n \in AllNames : /\ chain[n] \in Seq(Decls)
                               /\ \A k \in 1 .. Len(chain[n]) : chain[n][k] \in Named(n)
         /\ scopes \in Seq(SUBSET Decls) /\ Len(scopes) = Len(frames)
         /\ Len(scopes) \in Nat \ {0} /\ scopes # <<>>
         /\ \A d \in Decls : NameOf(d) \in AllNames /\ d \in Named(NameOf(d))
         /\ \A d, n : d \in Named(n) => n = NameOf(d)
<1>1. \A n \in AllNames : chain[n] \in Seq(Decls)
  BY DEF ScopesInv, TypeOK, ChainsOK
<1>2. \A n \in AllNames : \A k \in 1 .. Len(chain[n]) :
        chain[n][k] \in Decls /\ NameOf(chain[n][k]) = n
  BY <1>1 DEF ScopesInv, TypeOK, ChainsOK
<1>3. \A d \in Decls : NameOf(d) \in AllNames
  BY ProgramFacts DEF ScopesInv
<1>4. /\ scopes \in Seq(SUBSET Decls) /\ Len(scopes) = Len(frames)
      /\ Len(scopes) \in Nat \ {0} /\ scopes # <<>>
  BY FrameFacts DEF ScopesInv, TypeOK
<1> QED BY <1>1, <1>2, <1>3, <1>4 DEF Named

\* The same program has the same names.
LEMMA SameProgram ==
  ASSUME prog' = prog
  PROVE  /\ Ids' = Ids /\ Decls' = Decls /\ \A n : Named(n)' = Named(n)
         /\ \A d : Kind(d)' = Kind(d) /\ NameOf(d)' = NameOf(d)
BY DEF Ids, Decls, Named, Kind, NameOf

\* What was not reported later was not reported before.
LEMMA ReportsStay ==
  ASSUME errors \subseteq errors', ~HasError("dup")'
  PROVE  ~HasError("dup")
BY DEF HasError

\* A step that moves no declaration.
LEMMA LayersKept ==
  ASSUME LookupInv, prog' = prog, UNCHANGED <<scopes, chain>>, errors \subseteq errors',
         frames[1].phase = "pop" => frames'[1].phase = "pop"
  PROVE  ChainsLayered'
<1> SUFFICES ASSUME frames'[1].phase # "pop", ~HasError("dup")', NEW n \in AllNames
             PROVE  Layered(chain[n], scopes, Named(n))
  BY SameProgram DEF ChainsLayered
<1> QED BY ReportsStay DEF LookupInv, ChainsLayered

\* A declaration enters the innermost scope and its chain.
LEMMA LayersEntered ==
  ASSUME ScopesInv, NEW d \in Decls, d \notin CurScope,
         \A n \in AllNames : Layered(chain[n], scopes, Named(n)),
         NEW r, r = [scopes EXCEPT ![Len(scopes)] = CurScope \cup {d}],
         NEW n \in AllNames
  PROVE  /\ Layered(Pushed(d)[n], r, Named(n))
         /\ r \in Seq(SUBSET Decls) /\ Len(r) = Len(scopes)
         /\ r[Len(r)] = CurScope \cup {d}
         /\ \A k \in 1 .. Len(scopes) : k # Len(scopes) => r[k] = scopes[k]
<1>1. /\ chain[n] \in Seq(Decls) /\ \A k \in 1 .. Len(chain[n]) : chain[n][k] \in Named(n)
      /\ scopes \in Seq(SUBSET Decls) /\ scopes # <<>> /\ Len(scopes) \in Nat \ {0}
      /\ d \in Named(n) => n = NameOf(d)
      /\ chain \in [AllNames -> Seq(Decls)]
  BY ChainFacts DEF ScopesInv, TypeOK, ChainsOK
<1>2. /\ CurScope \in SUBSET Decls /\ CurScope \cup {d} \in SUBSET Decls
      /\ CurScope = scopes[Len(scopes)] /\ Len(scopes) \in 1 .. Len(scopes)
  BY <1>1 DEF CurScope
<1>3. /\ r \in Seq(SUBSET Decls) /\ Len(r) = Len(scopes)
      /\ r[Len(scopes)] = CurScope \cup {d}
      /\ \A k \in 1 .. Len(scopes) : k # Len(scopes) => r[k] = scopes[k]
  BY <1>1, <1>2, Replaced
<1>4. Layered(chain[n], scopes, Named(n))
  OBVIOUS
<1>5. CASE n = NameOf(d)
  <2>1. Pushed(d)[n] = Append(chain[n], d)
    BY <1>1, <1>5 DEF Pushed
  <2>2. Layered(Append(chain[n], d), r, Named(n))
    BY <1>1, <1>2, <1>3, <1>4, LayersPushed
  <2> QED BY <1>3, <2>1, <2>2
<1>6. CASE n # NameOf(d)
  <2>1. Pushed(d)[n] = chain[n]
    BY <1>1, <1>6 DEF Pushed
  <2>2. ASSUME NEW k \in 1 .. Len(scopes)
        PROVE  r[k] \cap Named(n) = scopes[k] \cap Named(n)
    <3>1. CASE k = Len(scopes)
      <4>1. r[k] = scopes[k] \cup {d} /\ d \notin Named(n)
        BY <1>1, <1>2, <1>3, <1>6, <3>1
      <4> QED BY <4>1
    <3>2. CASE k # Len(scopes)
      BY <1>3, <3>2
    <3> QED BY <3>1, <3>2
  <2>3. Layered(chain[n], r, Named(n))
    BY <1>1, <1>3, <1>4, <2>2, LayersSame
  <2> QED BY <1>3, <2>1, <2>3
<1> QED BY <1>5, <1>6

LEMMA LayersRegistered ==
  ASSUME LookupInv, prog' = prog, NEW d \in Decls, Register(d), errors \subseteq errors',
         frames[1].phase = "pop" => frames'[1].phase = "pop"
  PROVE  ChainsLayered'
<1>1. CASE d \in CurScope
  BY <1>1, LayersKept DEF Register
<1>2. CASE d \notin CurScope
  <2> SUFFICES ASSUME frames'[1].phase # "pop", ~HasError("dup")', NEW n \in AllNames
               PROVE  Layered(chain'[n], scopes', Named(n))
    BY SameProgram DEF ChainsLayered
  <2>1. \A m \in AllNames : Layered(chain[m], scopes, Named(m))
    BY ReportsStay DEF LookupInv, ChainsLayered
  <2>2. /\ scopes' = [scopes EXCEPT ![Len(scopes)] = CurScope \cup {d}]
        /\ chain' = Pushed(d)
    BY <1>2 DEF Register, CurScope
  <2> QED BY <1>2, <2>1, <2>2, LayersEntered DEF LookupInv
<1> QED BY <1>1, <1>2

LEMMA LayersOfFunction ==
  ASSUME LookupInv, prog' = prog, NEW i \in Ids, NEW after, OpenFunction(i, after),
         frames[1].phase = "pop" => frames'[1].phase = "pop"
  PROVE  ChainsLayered'
<1> SUFFICES ASSUME frames'[1].phase # "pop", ~HasError("dup")', NEW n \in AllNames
             PROVE  Layered(chain'[n], scopes', Named(n))
  BY SameProgram DEF ChainsLayered
<1>1. \A m \in AllNames : Layered(chain[m], scopes, Named(m))
  BY ReportsStay DEF LookupInv, ChainsLayered, OpenFunction
<1>2. /\ ScopesInv /\ chain[n] \in Seq(Decls) /\ scopes \in Seq(SUBSET Decls)
      /\ i \in Decls /\ chain \in [AllNames -> Seq(Decls)] /\ NameOf(i) \in AllNames
  BY ChainFacts, ProgramFacts DEF LookupInv, ScopesInv, TypeOK, ChainsOK
<1>3. CASE i \in CurScope
  <2>1. scopes' = Append(scopes, {}) /\ chain' = chain
    BY <1>3 DEF OpenFunction
  <2> QED BY <1>1, <1>2, <2>1, LayersOpened
<1>4. CASE i \notin CurScope
  <2> DEFINE r == [scopes EXCEPT ![Len(scopes)] = CurScope \cup {i}]
  <2>1. scopes' = Append(r, {}) /\ chain' = Pushed(i)
    BY <1>4 DEF OpenFunction, CurScope
  <2>2. r = [scopes EXCEPT ![Len(scopes)] = CurScope \cup {i}]
    OBVIOUS
  <2> HIDE DEF r
  <2>3. Layered(Pushed(i)[n], r, Named(n)) /\ r \in Seq(SUBSET Decls)
    BY <1>1, <1>2, <1>4, <2>2, LayersEntered
  <2>4. Pushed(i)[n] \in Seq(Decls)
    <3>1. CASE n = NameOf(i)
      BY <1>2, <3>1 DEF Pushed
    <3>2. CASE n # NameOf(i)
      BY <1>2, <3>2 DEF Pushed
    <3> QED BY <3>1, <3>2
  <2> QED BY <2>1, <2>3, <2>4, LayersOpened
<1> QED BY <1>3, <1>4

LEMMA LayersOfClass ==
  ASSUME LookupInv, prog' = prog, NEW i \in Ids, i \in GlobalScope, Len(scopes) = 1,
         errors \subseteq errors', scopes' = Append(scopes, {}), chain' = Pushed(i),
         frames[1].phase # "pop"
  PROVE  ChainsLayered'
<1> SUFFICES ASSUME ~HasError("dup")', NEW n \in AllNames
             PROVE  Layered(chain'[n], scopes', Named(n))
  BY SameProgram DEF ChainsLayered
<1>1. Layered(chain[n], scopes, Named(n))
  BY ReportsStay DEF LookupInv, ChainsLayered
<1>2. /\ ScopesInv /\ chain[n] \in Seq(Decls) /\ scopes \in Seq(SUBSET Decls)
      /\ i \in Decls /\ chain \in [AllNames -> Seq(Decls)] /\ NameOf(i) \in AllNames
  BY ChainFacts, ProgramFacts DEF LookupInv, ScopesInv, TypeOK, ChainsOK
<1>3. Layered(chain'[n], scopes, Named(n)) /\ chain'[n] \in Seq(Decls)
  <2>1. CASE n = NameOf(i)
    <3>1. chain'[n] = Append(chain[n], i) /\ i \in scopes[1]
      BY <1>2, <2>1 DEF Pushed, GlobalScope
    <3>2. Layered(Append(chain[n], i), scopes, Named(n))
      BY <1>1, <1>2, <3>1, LayersAgain
    <3> QED BY <1>2, <3>1, <3>2
  <2>2. CASE n # NameOf(i)
    <3>1. chain'[n] = chain[n]
      BY <1>2, <2>2 DEF Pushed
    <3> QED BY <1>1, <1>2, <3>1
  <2> QED BY <2>1, <2>2
<1> QED BY <1>2, <1>3, LayersOpened

LEMMA LayersPopped ==
  ASSUME LookupInv, NEW d \in Decls, PopDecl(d)
  PROVE  ChainsLayered'
<1> SUFFICES ASSUME frames'[1].phase # "pop", ~HasError("dup")', NEW n \in AllNames
             PROVE  Layered(chain'[n], scopes', Named(n))
  BY SameProgram DEF ChainsLayered, PopDecl
<1>1. /\ ScopesInv /\ chain[n] \in Seq(Decls) /\ scopes \in Seq(SUBSET Decls)
      /\ scopes # <<>> /\ Len(scopes) \in Nat \ {0} /\ Len(scopes) = Len(frames)
      /\ chain \in [AllNames -> Seq(Decls)] /\ NameOf(d) \in AllNames
      /\ \A k \in 1 .. Len(chain[n]) : chain[n][k] \in Named(n)
      /\ d \in Named(NameOf(d)) /\ (d \in Named(n) => n = NameOf(d))
  BY ChainFacts, ProgramFacts DEF LookupInv, ScopesInv, TypeOK, ChainsOK
<1>2. Layered(chain[n], scopes, Named(n))
  BY ReportsStay DEF LookupInv, ChainsLayered, PopDecl
<1>3. /\ d \in scopes[Len(scopes)] /\ CurScope = scopes[Len(scopes)]
      /\ CurScope \ {d} \in SUBSET Decls /\ Len(scopes) \in 1 .. Len(scopes)
      /\ scopes' = [scopes EXCEPT ![Len(scopes)] = CurScope \ {d}]
  BY <1>1 DEF PopDecl, CurScope
<1>4. /\ scopes' \in Seq(SUBSET Decls) /\ Len(scopes') = Len(scopes)
      /\ scopes'[Len(scopes)] = scopes[Len(scopes)] \ {d}
      /\ \A k \in 1 .. Len(scopes) : k # Len(scopes) => scopes'[k] = scopes[k]
  BY <1>1, <1>3, Replaced
<1>5. Len(scopes) > 1
  <2>1. frames[1].phase # "pop" /\ Top.phase = "pop"
    BY DEF PopDecl, Running
  <2>2. Len(frames) # 1
    BY <2>1 DEF Top
  <2> QED BY <1>1, <2>2
<1>6. CASE n = NameOf(d)
  <2>1. PICK i \in 1 .. Len(chain[n]) :
          /\ Topmost(chain[n], d, i)
          /\ chain' = [chain EXCEPT ![n] = SubSeq(chain[n], 1, i - 1)
                                          \o SubSeq(chain[n], i + 1, Len(chain[n]))]
    BY <1>6 DEF PopDecl, RemoveDecl
  <2>2. chain'[n] = SubSeq(chain[n], 1, i - 1) \o SubSeq(chain[n], i + 1, Len(chain[n]))
    BY <1>1, <2>1
  <2> DEFINE q == chain[n]
             p == chain'[n]
  <2>3. /\ q \in Seq(Decls) /\ i \in 1 .. Len(q) /\ Layered(q, scopes, Named(n))
        /\ q[i] = d /\ \A j \in i + 1 .. Len(q) : q[j] # d
        /\ p = SubSeq(q, 1, i - 1) \o SubSeq(q, i + 1, Len(q))
    BY <1>1, <1>2, <2>1, <2>2 DEF Topmost
  <2> HIDE DEF q, p
  <2>4. /\ p \in Seq(Decls) /\ Len(p) = Len(q) - 1
        /\ \A j \in 1 .. Len(p) : p[j] = IF j < i THEN q[j] ELSE q[j + 1]
    BY ONLY <2>3, TakenOut
  <2>5. d \in Named(n)
    BY <1>1, <1>6
  <2>6. Layered(p, scopes', Named(n))
    <3> DEFINE X == Decls
               r == scopes'
               D == Named(n)
    <3>1. /\ q \in Seq(X) /\ scopes \in Seq(SUBSET X) /\ p \in Seq(X) /\ r \in Seq(SUBSET X)
          /\ Layered(q, scopes, D) /\ d \in scopes[Len(scopes)] /\ d \in D
          /\ Len(scopes) > 1 /\ i \in 1 .. Len(q)
      BY <1>1, <1>3, <1>4, <1>5, <2>3, <2>4, <2>5
    <3>2. Topmost(q, d, i) /\ WithoutAt(p, q, i) /\ LastWithout(r, scopes, d)
      BY <1>4, <2>3, <2>4 DEF Topmost, WithoutAt, LastWithout
    <3> HIDE DEF X, r, D
    <3>3. Layered(p, r, D)
      BY ONLY <3>1, <3>2, LayersRemoved
    <3> QED BY <3>3 DEF r, D
  <2> QED BY <2>6 DEF p
<1>7. CASE n # NameOf(d)
  <2>1. chain'[n] = chain[n]
    BY <1>1, <1>7 DEF PopDecl, RemoveDecl
  <2>2. ASSUME NEW k \in 1 .. Len(scopes)
        PROVE  scopes'[k] \cap Named(n) = scopes[k] \cap Named(n)
    <3>1. CASE k = Len(scopes)
      <4>1. scopes'[k] = scopes[k] \ {d} /\ d \notin Named(n)
        BY <1>1, <1>4, <1>7, <3>1
      <4> QED BY <4>1
    <3>2. CASE k # Len(scopes)
      BY <1>4, <3>2
    <3> QED BY <3>1, <3>2
  <2>3. Layered(chain[n], scopes', Named(n))
    BY <1>1, <1>2, <1>4, <2>2, LayersSame
  <2> QED BY <2>1, <2>3
<1> QED BY <1>6, <1>7

LEMMA LayersLeft ==
  ASSUME LookupInv, LeaveScope
  PROVE  ChainsLayered'
<1>1. /\ ScopesInv /\ scopes \in Seq(SUBSET Decls) /\ frames \in Seq(FrameSet)
      /\ scopes # <<>> /\ Len(scopes) \in Nat \ {0} /\ Len(scopes) = Len(frames)
      /\ frames # <<>>
  BY ChainFacts, FrameFacts DEF LookupInv, ScopesInv, TypeOK, FramesOK, FrameSet
<1>2. CASE Len(scopes) = 1
  BY <1>2, LayersKept DEF LeaveScope
<1>3. CASE Len(scopes) # 1
  <2>1. /\ scopes' = SubSeq(scopes, 1, Len(scopes) - 1) /\ scopes[Len(scopes)] = {}
        /\ frames' = SubSeq(frames, 1, Len(frames) - 1) /\ Len(scopes) > 1
        /\ chain' = chain /\ errors' = errors /\ prog' = prog
    BY <1>1, <1>3 DEF LeaveScope, CurScope
  <2>2. /\ scopes' \in Seq(SUBSET Decls) /\ Len(scopes') = Len(scopes) - 1
        /\ \A k \in 1 .. Len(scopes) - 1 : scopes'[k] = scopes[k]
    BY <1>1, <2>1, Shortened
  <2>3. \A k \in 1 .. Len(frames) - 1 : frames'[k] = frames[k]
    BY <1>1, <2>1, Shortened
  <2>4. frames'[1] = frames[1]
    BY <1>1, <2>1, <2>3
  <2> SUFFICES ASSUME frames'[1].phase # "pop", ~HasError("dup")', NEW n \in AllNames
               PROVE  Layered(chain[n], scopes', Named(n))
    BY <2>1, SameProgram DEF ChainsLayered
  <2>5. Layered(chain[n], scopes, Named(n)) /\ chain[n] \in Seq(Decls)
    BY <1>1, <2>1, <2>4, ReportsStay, ChainFacts DEF LookupInv, ChainsLayered
  <2> QED BY <1>1, <2>1, <2>2, <2>5, LayersClosed
<1> QED BY <1>2, <1>3

-----------------------------------------------------------------------------
(* What the program has registered and typed.                              *)

\* A step whose effect on the program's own traversal and scope is small.
LEMMA ProgramPart ==
  ASSUME LookupInv, prog' = prog, errors \subseteq errors', typed \subseteq typed',
         \A v \in GlobalScope' : v \in GlobalScope \/ v \notin Ids \/ Kind(v) # "var"
                                 \/ prog[v].up = 0,
         \A c \in Ids : /\ Kind(c) = "class" /\ frames'[1].phase # "pop" /\ ~HasError("dup")'
                        /\ (frames'[1].phase = "declare" => c <= frames'[1].at)
                        => \/ c \in GlobalScope'
                           \/ /\ frames[1].phase # "pop" /\ GlobalScope \subseteq GlobalScope'
                              /\ (frames[1].phase = "declare" => c <= frames[1].at),
         \A v \in Ids : prog[v].up = 0 /\ Kind(v) = "var" /\ Visited(v)'
                        => Visited(v) \/ v \in typed'
  PROVE  VisitedRegistered' /\ VisitedTyped' /\ GlobalsAtTop'
<1>1. VisitedRegistered'
  <2> SUFFICES ASSUME NEW c \in Ids, Kind(c) = "class", frames'[1].phase # "pop",
                      ~HasError("dup")', frames'[1].phase = "declare" => c <= frames'[1].at
               PROVE  c \in GlobalScope'
    BY SameProgram DEF VisitedRegistered
  <2>1. CASE c \in GlobalScope'
    BY <2>1
  <2>2. CASE /\ frames[1].phase # "pop" /\ GlobalScope \subseteq GlobalScope'
             /\ (frames[1].phase = "declare" => c <= frames[1].at)
    BY <2>2, ReportsStay DEF LookupInv, VisitedRegistered
  <2> QED BY <2>1, <2>2
<1>2. VisitedTyped'
  BY SameProgram DEF LookupInv, VisitedTyped
<1>3. GlobalsAtTop'
  BY SameProgram DEF LookupInv, GlobalsAtTop
<1> QED BY <1>1, <1>2, <1>3

\* A step of a traversal inside the program's.
LEMMA InsidePart ==
  ASSUME LookupInv, prog' = prog, errors \subseteq errors', typed \subseteq typed',
         frames'[1] = frames[1],
         \/ GlobalScope' = GlobalScope
         \/ frames[1].phase = "pop" /\ GlobalScope' \subseteq GlobalScope
  PROVE  VisitedRegistered' /\ VisitedTyped' /\ GlobalsAtTop'
<1>1. \A v : Visited(v)' <=> Visited(v)
  BY DEF Visited
<1> QED BY <1>1, ProgramPart

\* Entering a scope inside the program's leaves the program's alone.
LEMMA EnteredInside ==
  ASSUME ScopesInv, Len(frames) # 1, NEW d \in Decls,
         \/ Register(d)
         \/ \E after : OpenFunction(d, after)
  PROVE  GlobalScope' = GlobalScope
<1>1. /\ scopes \in Seq(SUBSET Decls) /\ Len(scopes) \in Nat \ {0, 1}
  BY ChainFacts
<1> DEFINE r == [scopes EXCEPT ![Len(scopes)] = @ \cup {d}]
<1>2. CurScope \cup {d} \in SUBSET Decls /\ r = [scopes EXCEPT ![Len(scopes)] = CurScope \cup {d}]
  BY <1>1 DEF CurScope
<1>3. /\ r \in Seq(SUBSET Decls) /\ Len(r) = Len(scopes) /\ r[1] = scopes[1]
  BY <1>1, <1>2, Replaced
<1> HIDE DEF r
<1>4. Append(r, {})[1] = scopes[1] /\ Append(scopes, {})[1] = scopes[1]
  BY <1>1, <1>3
<1>5. scopes' \in {scopes, r, Append(r, {}), Append(scopes, {})}
  BY DEF Register, OpenFunction, r
<1> QED BY <1>3, <1>4, <1>5 DEF GlobalScope

\* In the outermost traversal declarations are the program's.
LEMMA ProgramNext ==
  ASSUME ScopesInv, NEW i \in Ids, IsNext(i), Len(frames) = 1
  PROVE  /\ Top = frames[1] /\ Top.decl = 0 /\ prog[i].up = 0 /\ i \in Nat
         /\ frames[1].at \in Nat /\ i > frames[1].at
         /\ \A c \in Ids : prog[c].up = 0 => c <= frames[1].at \/ i <= c
         /\ \A c \in Ids : c \in Nat
         /\ Kind(i) \notin {"param", "global", "nonlocal"}
<1>1. Top = frames[1] /\ Top.decl = 0
  BY FrameFacts DEF ScopesInv, Top
<1>2. /\ prog[i].up = 0 /\ i > frames[1].at
      /\ \A c \in Ids : prog[c].up = 0 => c <= frames[1].at \/ i <= c
  BY <1>1, NextBelongs
<1>3. /\ \A c \in Ids : c \in Nat /\ frames[1].at \in Nat /\ i \in Nat
      /\ i \notin Predefined
  BY FrameFacts, ProgramFacts
     DEF ScopesInv, Ids, Predefined, ObjectClass, SpecialClass
<1>4. prog[i].kind \notin {"param", "global", "nonlocal"}
  BY <1>2 DEF ScopesInv, TypeOK, IsProgram, Ids
<1> QED BY <1>1, <1>2, <1>3, <1>4 DEF Kind

\* What a step that ends well cannot break.
LEMMA NotCast ==
  ASSUME status' # "nullType"
  PROVE  NullTypeOnlyBeforeDefinition'
BY DEF NullTypeOnlyBeforeDefinition

\* Entering the program's scope adds one declaration to it.
LEMMA EnteredProgram ==
  ASSUME ScopesInv, Len(frames) = 1, NEW d \in Decls,
         \/ Register(d)
         \/ \E after : OpenFunction(d, after)
  PROVE  GlobalScope' = GlobalScope \cup {d}
<1>1. scopes \in Seq(SUBSET Decls) /\ Len(scopes) = 1 /\ CurScope = scopes[1]
  BY ChainFacts DEF CurScope
<1> DEFINE r == [scopes EXCEPT ![Len(scopes)] = @ \cup {d}]
<1>2. CurScope \cup {d} \in SUBSET Decls /\ r = [scopes EXCEPT ![1] = CurScope \cup {d}]
  BY <1>1 DEF CurScope
<1>3. r \in Seq(SUBSET Decls) /\ Len(r) = 1 /\ r[1] = scopes[1] \cup {d}
  BY <1>1, <1>2, Replaced
<1> HIDE DEF r
<1>4. Append(r, {})[1] = r[1] /\ Append(scopes, {})[1] = scopes[1]
  BY <1>1, <1>3
<1>5. CASE d \in CurScope
  <2>1. scopes' \in {scopes, Append(scopes, {})}
    BY <1>5 DEF Register, OpenFunction
  <2> QED BY <1>1, <1>4, <1>5, <2>1 DEF GlobalScope
<1>6. CASE d \notin CurScope
  <2>1. scopes' \in {r, Append(r, {})}
    BY <1>6 DEF Register, OpenFunction, r
  <2> QED BY <1>3, <1>4, <2>1 DEF GlobalScope
<1> QED BY <1>5, <1>6

-----------------------------------------------------------------------------
(* What lookup finds, step by step.                                        *)

\* LookupInv without ScopesInv.
LookupRest ==
  /\ ProgramWaits /\ VisitedRegistered /\ VisitedTyped
  /\ GlobalsAtTop /\ ChainsLayered /\ NullTypeOnlyBeforeDefinition

\* The steps that register a declaration, or refuse to.
LEMMA DeclaringFinds ==
  ASSUME LookupInv, NEW i \in Ids, Running("declare"), IsNext(i), AfterDeclaring(i),
         prog' = prog, UNCHANGED <<typed, status>>, errors \subseteq errors',
         \/ /\ UNCHANGED <<scopes, chain>>
            /\ Len(frames) = 1 => Kind(i) # "class" \/ HasError("dup")'
         \/ \E d \in Decls : Register(d) /\ (Len(frames) = 1 => d = i)
  PROVE  LookupRest'
<1> DEFINE ph == IF Kind(i) = "func" /\ Top.decl # 0 /\ Kind(Top.decl) = "func"
                 THEN "nested" ELSE "declare"
<1>1. /\ ScopesInv /\ TypeOK /\ frames' = Moved(ph, i) /\ ph \in Phases
      /\ Top.phase = "declare" /\ Len(frames) \in Nat \ {0}
      /\ Len(frames) = 1 => Top = frames[1] /\ Top.decl = 0 /\ ph = "declare"
  BY FrameFacts DEF LookupInv, ScopesInv, AfterDeclaring, Phases, Running, Top
<1>2. i \in 0 .. Len(prog) /\ i # 0 /\ i \in Decls
  BY <1>1, ProgramFacts DEF Ids
<1> HIDE DEF ph
<1>3. /\ Len(frames') = Len(frames)
      /\ Len(frames) # 1 => frames'[1] = frames[1]
      /\ Len(frames) = 1 => frames'[1].phase = "declare" /\ frames'[1].at = i
  BY <1>1, <1>2, FramesMoved
<1>4. ProgramWaits'
  BY <1>3 DEF LookupInv, ProgramWaits
<1>5. ChainsLayered'
  <2>1. frames[1].phase = "pop" => frames'[1].phase = "pop"
    BY <1>1, <1>3
  <2> QED BY <2>1, LayersKept, LayersRegistered
<1>6. VisitedRegistered' /\ VisitedTyped' /\ GlobalsAtTop'
  <2>1. CASE Len(frames) # 1
    <3>1. GlobalScope' = GlobalScope
      BY <1>1, <2>1, EnteredInside DEF GlobalScope
    <3> QED BY <1>3, <2>1, <3>1, InsidePart
  <2>2. CASE Len(frames) = 1
    <3>1. /\ GlobalScope \subseteq GlobalScope' /\ GlobalScope' \subseteq GlobalScope \cup {i}
          /\ Kind(i) # "class" \/ HasError("dup")' \/ i \in GlobalScope'
      BY <1>1, <1>2, <2>2, EnteredProgram DEF GlobalScope
    <3>2. /\ prog[i].up = 0 /\ frames[1].phase = "declare"
          /\ \A c \in Ids : prog[c].up = 0 => c <= frames[1].at \/ i <= c
          /\ \A c \in Ids : c \in Nat /\ i \in Nat
      BY <1>1, <2>2, ProgramNext
    <3>3. frames'[1].phase = "declare" /\ frames'[1].at = i
      BY <1>3, <2>2
    <3>4. \A v : ~Visited(v)'
      BY <3>3 DEF Visited
    <3>5. ASSUME NEW c \in Ids, Kind(c) = "class", ~HasError("dup")', c <= i
          PROVE  c \in GlobalScope' \/ c <= frames[1].at
      <4>1. prog[c].up = 0
        BY <1>1, <3>5, ClassesAtTop
      <4>2. c <= frames[1].at \/ c = i
        BY <3>2, <3>5, <4>1
      <4> QED BY <3>1, <3>5, <4>2
    <3> QED BY <3>1, <3>2, <3>3, <3>4, <3>5, ProgramPart
  <2> QED BY <2>1, <2>2
<1>7. NullTypeOnlyBeforeDefinition'
  BY NotCast DEF Running
<1> QED BY <1>4, <1>5, <1>6, <1>7 DEF LookupRest

LEMMA DeclareTwiceFinds ==
  ASSUME LookupInv, NEW i \in Ids, DeclareTwice(i)
  PROVE  LookupRest'
<1> DEFINE e == [kind |-> "dup", decl |-> i]
<1>1. errors' = errors \cup {e} /\ e.kind = "dup"
  BY DEF DeclareTwice, Report
<1> HIDE DEF e
<1>2. errors \subseteq errors' /\ HasError("dup")'
  BY <1>1 DEF HasError
<1> QED BY <1>2, DeclaringFinds DEF DeclareTwice

LEMMA DeclareFinds ==
  ASSUME LookupInv, NEW i \in Ids, Declare(i)
  PROVE  LookupRest'
<1>1. errors \subseteq errors' /\ i \in Decls
  BY ProgramFacts DEF Declare, Report, LookupInv, ScopesInv
<1> QED BY <1>1, DeclaringFinds DEF Declare, Fresh

LEMMA DeclareNonlocalFinds ==
  ASSUME LookupInv, NEW i \in Ids, DeclareNonlocal(i)
  PROVE  LookupRest'
<1>1. errors \subseteq errors'
  BY DEF DeclareNonlocal, Report
<1>2. Len(frames) # 1
  BY ProgramNext DEF DeclareNonlocal, Fresh, LookupInv
<1>3. UNCHANGED <<scopes, chain>> \/ \E d \in Decls : Register(d)
  BY OuterIsDecl DEF DeclareNonlocal, Fresh, LookupInv
<1> QED BY <1>1, <1>2, <1>3, DeclaringFinds DEF DeclareNonlocal, Fresh

LEMMA DeclareGlobalFinds ==
  ASSUME LookupInv, NEW i \in Ids, DeclareGlobal(i)
  PROVE  LookupRest'
<1>1. errors \subseteq errors'
  BY DEF DeclareGlobal, Report
<1>2. Len(frames) # 1
  BY ProgramNext DEF DeclareGlobal, Fresh, LookupInv
<1>3. UNCHANGED <<scopes, chain>> \/ \E d \in Decls : Register(d)
  BY InScopeIsDecl DEF DeclareGlobal, LookupInv
<1> QED BY <1>1, <1>2, <1>3, DeclaringFinds DEF DeclareGlobal, Fresh

\* A step that leaves the traversals, the scopes and the chains alone.
LEMMA OnlyStatusFinds ==
  ASSUME LookupInv, UNCHANGED <<prog, frames, scopes, chain, typed, errors>>,
         NullTypeOnlyBeforeDefinition'
  PROVE  LookupRest'
<1>1. ChainsLayered'
  BY LayersKept
<1>2. VisitedRegistered' /\ VisitedTyped' /\ GlobalsAtTop'
  BY InsidePart DEF GlobalScope
<1>3. ProgramWaits'
  BY DEF LookupInv, ProgramWaits
<1> QED BY <1>1, <1>2, <1>3 DEF LookupRest

\* actOnVarDef is called for a global declaration of a function, while the
\* program has not visited the variable yet.
LEMMA CastNullTypeFinds ==
  ASSUME LookupInv, NEW i \in Ids, CastNullType(i)
  PROVE  LookupRest'
<1>1. PICK d \in InScope(GlobalScope, NameOf(i)) : Kind(d) = "var" /\ d \notin typed
  BY DEF CastNullType
<1>2. /\ Kind(i) = "global" /\ IsNext(i) /\ prog' = prog /\ frames' = frames
      /\ typed' = typed
  BY DEF CastNullType, Fresh
<1>3. d \in Ids /\ d \in GlobalScope /\ NameOf(d) = NameOf(i)
  <2>1. d \in Decls
    BY InScopeIsDecl DEF LookupInv
  <2>2. d \notin Predefined
    BY <1>1 DEF Kind
  <2> QED BY <2>1, <2>2 DEF Decls, InScope
<1>4. prog[d].up = 0
  BY <1>1, <1>3 DEF LookupInv, GlobalsAtTop
<1>5. ~Visited(d)
  BY <1>1, <1>3, <1>4 DEF LookupInv, VisitedTyped
<1>6. frames[1].phase = "visit"
  <2>1. Len(frames) # 1
    BY <1>2, ProgramNext DEF LookupInv
  <2> QED BY <2>1 DEF LookupInv, ProgramWaits
<1>7. d > frames[1].at
  <2>1. d \in Nat /\ frames[1].at \in Nat
    BY <1>3, FrameFacts, ProgramFacts DEF LookupInv, ScopesInv, Ids
  <2> QED BY <1>5, <1>6, <2>1 DEF Visited
<1>8. IsNext(i)'
  <2>1. Ids' = Ids /\ Top' = Top
    BY <1>2, SameProgram DEF Top
  <2> QED BY <1>2, <2>1 DEF IsNext
<1>9. NullTypeOnlyBeforeDefinition'
  <2>1. /\ i \in Ids' /\ Kind(i)' = "global" /\ d \in Ids' /\ Kind(d)' = "var"
        /\ NameOf(d)' = NameOf(i)' /\ prog'[d].up = 0 /\ d > frames'[1].at
    BY <1>1, <1>2, <1>3, <1>4, <1>7, SameProgram
  <2> QED BY <1>8, <2>1 DEF NullTypeOnlyBeforeDefinition
<1> QED BY <1>9, OnlyStatusFinds DEF CastNullType

LEMMA LookUpFinds ==
  ASSUME LookupInv, NEW n \in AllNames, LookUp(n)
  PROVE  LookupRest'
<1>1. status' # "nullType"
  BY DEF LookUp, Running
<1> QED BY <1>1, NotCast, OnlyStatusFinds DEF LookUp

\* A step of the traversal that opens no scope.
LEMMA MovingFinds ==
  ASSUME LookupInv, UNCHANGED <<prog, scopes, chain, errors, status>>,
         status = "running", NEW ph \in Phases, ph # "nested",
         NEW at \in 0 .. Len(prog), frames' = Moved(ph, at), Top.phase # "pop",
         typed \subseteq typed',
         Len(frames) = 1 =>
           /\ \A c \in Ids : /\ Kind(c) = "class" /\ ph # "pop" /\ (ph = "declare" => c <= at)
                             => (frames[1].phase = "declare" => c <= frames[1].at)
           /\ \A v \in Ids : /\ prog[v].up = 0 /\ Kind(v) = "var"
                             /\ \/ ph \in {"statements", "pop"}
                                \/ ph = "visit" /\ at >= v
                             => Visited(v) \/ v \in typed'
  PROVE  LookupRest'
<1>1. ScopesInv /\ TypeOK /\ Len(frames) \in Nat \ {0}
  BY FrameFacts DEF LookupInv, ScopesInv
<1>2. /\ Len(frames') = Len(frames)
      /\ Len(frames) # 1 => frames'[1] = frames[1]
      /\ Len(frames) = 1 => frames'[1].phase = ph /\ frames'[1].at = at
  BY <1>1, FramesMoved
<1>3. ProgramWaits'
  BY <1>2 DEF LookupInv, ProgramWaits
<1>4. Len(frames) = 1 => frames[1].phase # "pop"
  BY DEF Top
<1>5. ChainsLayered'
  BY <1>2, <1>4, LayersKept
<1>6. VisitedRegistered' /\ VisitedTyped' /\ GlobalsAtTop'
  <2>1. GlobalScope' = GlobalScope
    BY DEF GlobalScope
  <2>2. CASE Len(frames) # 1
    BY <1>2, <2>1, <2>2, InsidePart
  <2>3. CASE Len(frames) = 1
    <3>1. \A v : Visited(v)' <=> \/ ph \in {"statements", "pop"}
                                 \/ ph = "visit" /\ at >= v
      BY <1>2, <2>3 DEF Visited
    <3>2. frames'[1].phase = ph /\ frames'[1].at = at /\ frames[1].phase # "pop"
      BY <1>2, <1>4, <2>3
    <3>3. ASSUME NEW v \in Ids, prog[v].up = 0, Kind(v) = "var", Visited(v)'
          PROVE  Visited(v) \/ v \in typed'
      <4>1. \/ ph \in {"statements", "pop"}
            \/ ph = "visit" /\ at >= v
        BY <3>1, <3>3
      <4>2. prog[v].up = 0 /\ Kind(v) = "var" => Visited(v) \/ v \in typed'
        BY <2>3, <4>1, Zenon
      <4> QED BY <3>3, <4>2
    <3>4. \A c \in Ids : /\ Kind(c) = "class" /\ ph # "pop" /\ (ph = "declare" => c <= at)
                         => (frames[1].phase = "declare" => c <= frames[1].at)
      BY <2>3
    <3> QED BY <2>1, <3>2, <3>3, <3>4, ProgramPart
  <2> QED BY <2>2, <2>3
<1>7. NullTypeOnlyBeforeDefinition'
  BY NotCast
<1> QED BY <1>3, <1>5, <1>6, <1>7 DEF LookupRest

LEMMA EndDeclarationsFinds ==
  ASSUME LookupInv, EndDeclarations
  PROVE  LookupRest'
<1> DEFINE ph == IF Top.decl # 0 /\ Kind(Top.decl) = "func" THEN "statements" ELSE "visit"
<1>1. /\ ScopesInv /\ frames' = Moved(ph, Top.decl) /\ ph \in Phases /\ ph # "nested"
      /\ Top.decl \in 0 .. Len(prog) /\ Top.phase = "declare" /\ status = "running"
      /\ Top.decl = 0 => ph = "visit"
  BY FrameFacts DEF LookupInv, ScopesInv, EndDeclarations, Phases, Running
<1> HIDE DEF ph
<1>2. ASSUME Len(frames) = 1
      PROVE  /\ Top = frames[1] /\ ph = "visit" /\ Top.decl = 0
             /\ \A c \in Ids : Kind(c) = "class" => c <= frames[1].at
             /\ \A v \in Ids : ~(0 >= v)
  <2>1. Top = frames[1] /\ Top.decl = 0 /\ ph = "visit"
    BY <1>1, <1>2, FrameFacts DEF ScopesInv, Top
  <2>2. \A c \in Ids : Kind(c) = "class" => c <= frames[1].at
    BY <1>1, <2>1, ClassesAtTop DEF EndDeclarations, NoneLeft
  <2>3. \A v \in Ids : ~(0 >= v)
    BY <1>1, ProgramFacts DEF ScopesInv, Ids
  <2> QED BY <2>1, <2>2, <2>3
<1> QED BY <1>1, <1>2, MovingFinds DEF EndDeclarations

LEMMA VisitVarFinds ==
  ASSUME LookupInv, NEW i \in Ids, VisitVar(i)
  PROVE  LookupRest'
<1>1. /\ ScopesInv /\ frames' = Moved("visit", i) /\ IsNext(i)
      /\ "visit" \in Phases /\ "visit" # "nested" /\ i \in 0 .. Len(prog)
      /\ status = "running" /\ Top.phase = "visit" /\ typed' = typed \cup {i}
  BY NextBelongs DEF LookupInv, VisitVar, Phases, Running
<1>2. ASSUME Len(frames) = 1
      PROVE  /\ frames[1].phase = "visit"
             /\ \A v \in Ids : prog[v].up = 0 /\ i >= v => Visited(v) \/ v = i
  <2>1. /\ Top = frames[1] /\ frames[1].at \in Nat /\ i \in Nat
        /\ \A c \in Ids : c \in Nat /\ (prog[c].up = 0 => c <= frames[1].at \/ i <= c)
    BY <1>1, <1>2, ProgramNext
  <2>2. \A v \in Ids : prog[v].up = 0 /\ i >= v => frames[1].at >= v \/ v = i
    BY <2>1
  <2> QED BY <1>1, <2>1, <2>2 DEF Visited
<1> QED BY <1>1, <1>2, MovingFinds DEF VisitVar

LEMMA EndVisitFinds ==
  ASSUME LookupInv, EndVisit
  PROVE  LookupRest'
<1> DEFINE ph == IF Top.decl = 0 THEN "statements" ELSE "pop"
<1>1. /\ ScopesInv /\ frames' = Moved(ph, Top.at) /\ ph \in Phases /\ ph # "nested"
      /\ Top.at \in 0 .. Len(prog) /\ Top.phase = "visit" /\ status = "running"
  BY FrameFacts DEF LookupInv, ScopesInv, EndVisit, Phases, Running
<1> HIDE DEF ph
<1>2. ASSUME Len(frames) = 1
      PROVE  /\ frames[1].phase = "visit"
             /\ \A v \in Ids : prog[v].up = 0 => Visited(v)
  <2>1. Top = frames[1] /\ Top.decl = 0
    BY <1>1, <1>2, FrameFacts DEF ScopesInv, Top
  <2>2. \A v \in Ids : prog[v].up = 0 => frames[1].at >= v
    <3>1. \A v \in Ids : v \in Nat /\ frames[1].at \in Nat
      BY <1>1, <2>1, ProgramFacts DEF ScopesInv, Ids
    <3>2. \A v \in Ids : prog[v].up = 0 => v <= frames[1].at
      BY <2>1 DEF EndVisit, NoneLeft
    <3> QED BY <3>1, <3>2
  <2> QED BY <1>1, <2>1, <2>2 DEF Visited
<1> QED BY <1>1, <1>2, MovingFinds DEF EndVisit

LEMMA EndStatementsFinds ==
  ASSUME LookupInv, EndStatements
  PROVE  LookupRest'
<1>1. /\ frames' = Moved("pop", Top.at) /\ "pop" \in Phases /\ "pop" # "nested"
      /\ Top.at \in 0 .. Len(prog) /\ Top.phase = "statements" /\ status = "running"
  BY FrameFacts DEF LookupInv, ScopesInv, EndStatements, Phases, Running
<1>2. Len(frames) = 1 => frames[1].phase = "statements"
  BY <1>1 DEF Top
<1>3. Len(frames) = 1 => \A v : Visited(v)
  BY <1>2 DEF Visited
<1> QED BY <1>1, <1>2, <1>3, MovingFinds DEF EndStatements

\* Opening a function.
LEMMA OpenFunctionFinds ==
  ASSUME LookupInv, NEW i \in Ids, NEW after \in Phases \ {"nested"},
         OpenFunction(i, after), status = "running",
         Len(frames) = 1 => after = "visit" /\ frames[1].phase = "visit" /\ IsNext(i)
                            /\ Kind(i) = "func"
  PROVE  LookupRest'
<1>1. /\ ScopesInv /\ TypeOK /\ i \in 0 .. Len(prog) /\ i \in Decls /\ prog' = prog
      /\ "declare" \in Phases \ {"nested"} /\ Len(frames) \in Nat \ {0}
      /\ frames' = Append(Moved(after, i), Frame(i, "declare"))
      /\ UNCHANGED <<typed, errors, status>>
  BY ProgramFacts, FrameFacts DEF LookupInv, ScopesInv, OpenFunction, Phases, Ids
<1>2. /\ Len(frames') = Len(frames) + 1
      /\ Len(frames) # 1 => frames'[1] = frames[1]
      /\ Len(frames) = 1 => frames'[1].phase = after /\ frames'[1].at = i
  BY <1>1, FramesPushed
<1>3. ProgramWaits'
  BY <1>2 DEF LookupInv, ProgramWaits
<1>4. ChainsLayered'
  BY <1>1, <1>2, LayersOfFunction
<1>5. VisitedRegistered' /\ VisitedTyped' /\ GlobalsAtTop'
  <2>1. CASE Len(frames) # 1
    <3>1. GlobalScope' = GlobalScope
      BY <1>1, <2>1, EnteredInside
    <3> QED BY <1>1, <1>2, <2>1, <3>1, InsidePart
  <2>2. CASE Len(frames) = 1
    <3>1. GlobalScope' = GlobalScope \cup {i}
      BY <1>1, <2>2, EnteredProgram
    <3>2. /\ prog[i].up = 0 /\ frames[1].at \in Nat /\ i \in Nat
          /\ \A c \in Ids : c \in Nat /\ (prog[c].up = 0 => c <= frames[1].at \/ i <= c)
      BY <1>1, <2>2, ProgramNext
    <3>3. frames[1].phase = "visit" /\ frames'[1].phase = "visit" /\ frames'[1].at = i
      BY <1>2, <2>2
    <3>4. ASSUME NEW v \in Ids, prog[v].up = 0, Kind(v) = "var", Visited(v)'
          PROVE  Visited(v)
      <4>1. i >= v /\ v # i
        BY <2>2, <3>3, <3>4 DEF Visited
      <4>2. frames[1].at >= v
        BY <3>2, <3>4, <4>1
      <4> QED BY <3>3, <4>2 DEF Visited
    <3> QED BY <1>1, <3>1, <3>2, <3>3, <3>4, ProgramPart
  <2> QED BY <2>1, <2>2
<1>6. NullTypeOnlyBeforeDefinition'
  BY <1>1, NotCast
<1> QED BY <1>3, <1>4, <1>5, <1>6 DEF LookupRest

LEMMA VisitFunctionFinds ==
  ASSUME LookupInv, NEW i \in Ids, VisitFunction(i)
  PROVE  LookupRest'
<1>1. "visit" \in Phases \ {"nested"}
  BY DEF Phases
<1>2. Len(frames) = 1 => frames[1].phase = "visit"
  BY DEF VisitFunction, Running, Top
<1> QED BY <1>1, <1>2, OpenFunctionFinds DEF VisitFunction, Running

LEMMA VisitNestedFinds ==
  ASSUME LookupInv, VisitNested
  PROVE  LookupRest'
<1>1. "declare" \in Phases \ {"nested"} /\ Top.at \in Ids
  BY FrameFacts DEF Phases, VisitNested, Running, LookupInv, ScopesInv
<1>2. Len(frames) # 1
  BY DEF VisitNested, Running, Top, LookupInv, ProgramWaits
<1> QED BY <1>1, <1>2, OpenFunctionFinds DEF VisitNested, Running

LEMMA VisitClassFinds ==
  ASSUME LookupInv, NEW i \in Ids, VisitClass(i)
  PROVE  LookupRest'
<1> DEFINE q == IF SuperError(i) = "none" THEN "declare" ELSE "visit"
<1>1. /\ ScopesInv /\ TypeOK /\ prog' = prog /\ i \in 0 .. Len(prog) /\ i \in Decls
      /\ "visit" \in Phases \ {"nested"} /\ q \in Phases \ {"nested"}
      /\ frames' = Append(Moved("visit", i), Frame(i, q))
      /\ scopes' = Append(scopes, {}) /\ chain' = Pushed(i)
      /\ Top.phase = "visit" /\ Kind(i) = "class" /\ IsNext(i)
      /\ typed' = typed /\ status' = "running"
  BY NextBelongs, ProgramFacts DEF LookupInv, ScopesInv, VisitClass, Phases, Running
<1> HIDE DEF q
<1>2. errors \subseteq errors'
  BY DEF VisitClass, Report
<1>3. Len(frames) = 1 /\ Top = frames[1]
  <2>1. prog[i].up = 0 /\ prog[i].up = Top.decl
    BY <1>1, ClassesAtTop, NextBelongs
  <2> QED BY <1>1, <2>1, FrameFacts DEF Top
<1>4. Len(frames') = 2 /\ frames'[1].phase = "visit" /\ frames'[1].at = i
  BY <1>1, <1>3, FramesPushed
<1>5. ProgramWaits'
  BY <1>4 DEF ProgramWaits
<1>6. GlobalScope' = GlobalScope /\ Len(scopes) = 1
  <2>1. scopes \in Seq(SUBSET Decls) /\ Len(scopes) = 1
    BY <1>1, <1>3, ChainFacts
  <2> QED BY <1>1, <2>1 DEF GlobalScope
<1>7. ChainsLayered'
  <2>1. CASE HasError("dup")'
    BY <2>1 DEF ChainsLayered
  <2>2. CASE ~HasError("dup")'
    <3>1. i \in GlobalScope
      BY <1>1, <1>2, <1>3, <2>2, ReportsStay DEF LookupInv, VisitedRegistered
    <3> QED BY <1>1, <1>2, <1>3, <1>6, <3>1, LayersOfClass
  <2> QED BY <2>1, <2>2
<1>8. VisitedRegistered' /\ VisitedTyped' /\ GlobalsAtTop'
  <2>1. /\ prog[i].up = 0 /\ frames[1].at \in Nat /\ i \in Nat
        /\ \A c \in Ids : c \in Nat /\ (prog[c].up = 0 => c <= frames[1].at \/ i <= c)
    BY <1>1, <1>3, ProgramNext
  <2>2. ASSUME NEW v \in Ids, prog[v].up = 0, Kind(v) = "var", Visited(v)'
        PROVE  Visited(v)
    <3>1. i >= v /\ v # i
      BY <1>1, <1>4, <2>2 DEF Visited
    <3>2. frames[1].at >= v
      BY <2>1, <2>2, <3>1
    <3> QED BY <1>1, <1>3, <3>2 DEF Visited
  <2> QED BY <1>1, <1>2, <1>3, <1>4, <1>6, <2>2, ProgramPart
<1>9. NullTypeOnlyBeforeDefinition'
  BY <1>1, NotCast
<1> QED BY <1>5, <1>7, <1>8, <1>9 DEF LookupRest

LEMMA PopDeclFinds ==
  ASSUME LookupInv, NEW d \in Decls, PopDecl(d)
  PROVE  LookupRest'
<1>1. /\ prog' = prog /\ frames' = frames /\ typed' = typed /\ errors' = errors
      /\ Top.phase = "pop" /\ status' = "running"
      /\ scopes' = [scopes EXCEPT ![Len(scopes)] = @ \ {d}]
  BY DEF PopDecl, Running
<1>2. scopes \in Seq(SUBSET Decls) /\ Len(scopes) = Len(frames) /\ Len(scopes) \in Nat \ {0}
  BY ChainFacts DEF LookupInv
<1>3. ProgramWaits'
  BY <1>1 DEF LookupInv, ProgramWaits
<1>4. ChainsLayered'
  BY LayersPopped
<1>5. \/ GlobalScope' = GlobalScope
      \/ frames[1].phase = "pop" /\ GlobalScope' \subseteq GlobalScope
  <2>1. CASE Len(frames) = 1
    BY <1>1, <1>2, <2>1 DEF Top, GlobalScope
  <2>2. CASE Len(frames) # 1
    BY <1>1, <1>2, <2>2 DEF GlobalScope
  <2> QED BY <2>1, <2>2
<1>6. VisitedRegistered' /\ VisitedTyped' /\ GlobalsAtTop'
  BY <1>1, <1>5, InsidePart
<1>7. NullTypeOnlyBeforeDefinition'
  BY <1>1, NotCast
<1> QED BY <1>3, <1>4, <1>6, <1>7 DEF LookupRest

LEMMA LeaveScopeFinds ==
  ASSUME LookupInv, LeaveScope
  PROVE  LookupRest'
<1>1. status' # "nullType"
  BY DEF LeaveScope, Running
<1>2. CASE Len(scopes) = 1
  BY <1>1, <1>2, NotCast, OnlyStatusFinds DEF LeaveScope
<1>3. CASE Len(scopes) # 1
  <2>1. /\ ScopesInv /\ scopes \in Seq(SUBSET Decls) /\ frames \in Seq(FrameSet)
        /\ Len(scopes) \in Nat \ {0, 1} /\ Len(scopes) = Len(frames)
        /\ scopes # <<>> /\ frames # <<>>
    BY <1>3, ChainFacts, FrameFacts DEF LookupInv, ScopesInv, TypeOK, FramesOK, FrameSet
  <2>2. /\ scopes' = SubSeq(scopes, 1, Len(scopes) - 1)
        /\ frames' = SubSeq(frames, 1, Len(frames) - 1)
        /\ errors' = errors /\ prog' = prog /\ typed' = typed
    BY <1>3 DEF LeaveScope
  <2>3. /\ \A k \in 1 .. Len(scopes) - 1 : scopes'[k] = scopes[k]
        /\ \A k \in 1 .. Len(frames) - 1 : frames'[k] = frames[k]
        /\ Len(frames') = Len(frames) - 1
    BY <2>1, <2>2, Shortened
  <2>4. scopes'[1] = scopes[1] /\ frames'[1] = frames[1]
    BY <2>1, <2>3
  <2>5. ProgramWaits'
    BY <2>1, <2>3, <2>4 DEF LookupInv, ProgramWaits
  <2>6. VisitedRegistered' /\ VisitedTyped' /\ GlobalsAtTop'
    BY <2>2, <2>4, InsidePart DEF GlobalScope
  <2> QED BY <1>1, <2>5, <2>6, LayersLeft, NotCast DEF LookupRest
<1> QED BY <1>2, <1>3

LEMMA StepFinds == LookupInv /\ [Next]_vars => LookupInv'
<1> SUFFICES ASSUME LookupInv, [Next]_vars PROVE LookupInv'
  OBVIOUS
<1>1. ScopesInv'
  BY StepScopes DEF LookupInv
<1> SUFFICES LookupRest'
  BY <1>1 DEF LookupInv, LookupRest
<1>2. CASE \E i \in Ids : \/ DeclareTwice(i) \/ Declare(i) \/ DeclareNonlocal(i)
                          \/ DeclareGlobal(i) \/ CastNullType(i)
                          \/ VisitVar(i) \/ VisitFunction(i) \/ VisitClass(i)
  BY <1>2, DeclareTwiceFinds, DeclareFinds, DeclareNonlocalFinds, DeclareGlobalFinds,
     CastNullTypeFinds, VisitVarFinds, VisitFunctionFinds, VisitClassFinds
<1>3. CASE EndDeclarations
  BY <1>3, EndDeclarationsFinds
<1>4. CASE VisitNested
  BY <1>4, VisitNestedFinds
<1>5. CASE EndVisit
  BY <1>5, EndVisitFinds
<1>6. CASE EndStatements
  BY <1>6, EndStatementsFinds
<1>7. CASE \E d \in Decls : PopDecl(d)
  BY <1>7, PopDeclFinds
<1>8. CASE LeaveScope
  BY <1>8, LeaveScopeFinds
<1>9. CASE \E n \in AllNames : LookUp(n)
  BY <1>9, LookUpFinds
<1>10. CASE UNCHANGED vars
  <2>1. NullTypeOnlyBeforeDefinition'
    <3>1. Top' = Top /\ Ids' = Ids /\ \A d : Kind(d)' = Kind(d) /\ NameOf(d)' = NameOf(d)
      BY <1>10, SameProgram DEF vars, Top
    <3>2. \A g : IsNext(g)' <=> IsNext(g)
      BY <1>10, <3>1 DEF vars, IsNext
    <3> QED BY <1>10, <3>1, <3>2 DEF vars, LookupInv, NullTypeOnlyBeforeDefinition
  <2> QED BY <1>10, <2>1, OnlyStatusFinds DEF vars
<1> QED BY <1>2, <1>3, <1>4, <1>5, <1>6, <1>7, <1>8, <1>9, <1>10 DEF Next, Progress

LEMMA InitFinds == Init => LookupInv
<1> SUFFICES ASSUME Init PROVE LookupInv
  OBVIOUS
<1>1. /\ frames[1].phase = "declare" /\ frames[1].at = 0 /\ Len(frames) = 1
      /\ scopes = <<Predefined>> /\ status = "running"
  BY DEF Init, Frame
<1>2. ScopesInv
  BY InitScopes
<1>3. \A c \in Ids : ~(c <= 0) /\ c \notin Predefined
  BY <1>2, ProgramFacts DEF ScopesInv, Ids, Predefined, ObjectClass, SpecialClass
<1>4. ProgramWaits /\ VisitedRegistered /\ VisitedTyped
  BY <1>1, <1>3 DEF ProgramWaits, VisitedRegistered, VisitedTyped, Visited
<1>5. GlobalsAtTop
  BY <1>1, <1>3 DEF GlobalsAtTop, GlobalScope
<1>6. ASSUME NEW n \in AllNames
      PROVE  Layered(chain[n], scopes, Named(n))
  <2> DEFINE q == chain[n]
             level == [i \in 1 .. Len(q) |-> 1]
  <2>1. \/ Len(q) = 0 /\ n \notin {"object", "int"}
        \/ Len(q) = 1 /\ q[1] = ObjectClass /\ n = "object"
        \/ Len(q) = 1 /\ q[1] = SpecialClass /\ n = "int"
    BY DEF Init
  <2>2. Len(scopes) = 1 /\ scopes[1] = Predefined
    BY <1>1
  <2>3. \A d \in Predefined \cap Named(n) : Len(q) = 1 /\ q[1] = d
    BY <2>1 DEF Named, Predefined, NameOf, ObjectClass, SpecialClass
  <2> HIDE DEF q
  <2>4. level \in [1 .. Len(q) -> 1 .. Len(scopes)] /\ \A i \in 1 .. Len(q) : level[i] = 1
    BY <2>2
  <2> HIDE DEF level
  <2>5. InLayers(q, scopes, Named(n), level)
    BY <2>1, <2>2, <2>3, <2>4 DEF InLayers, Predefined
  <2> QED BY <2>4, <2>5 DEF Layered, q
<1>7. ChainsLayered
  BY <1>6 DEF ChainsLayered
<1>8. NullTypeOnlyBeforeDefinition
  BY <1>1 DEF NullTypeOnlyBeforeDefinition
<1> QED BY <1>2, <1>4, <1>5, <1>7, <1>8 DEF LookupInv

\* What the program has registered and typed, and the layers of the chains, are
\* invariant for every set of programs.
THEOREM LookupInvariant == Spec => []LookupInv
BY InitFinds, StepFinds, PTL DEF Spec

\* The analysis casts a null type (actOnVarDef, Sema.cpp) only where a function
\* declares a variable global that the program defines after it.
THEOREM NullTypeBeforeDefinition == Spec => []NullTypeOnlyBeforeDefinition
<1>1. LookupInv => NullTypeOnlyBeforeDefinition
  BY DEF LookupInv
<1> QED BY <1>1, LookupInvariant, PTL

\* lookupDecl and lookupName answer with the innermost open scope that has the
\* name, whatever was registered, refused and popped before.
THEOREM LookupFindsInnermost == Spec => []InnermostWins
<1>1. LookupInv => InnermostWins
  <2> SUFFICES ASSUME LookupInv, status = "running", Top.phase # "pop", ~HasError("dup"),
                      NEW n \in AllNames, NEW k \in 1 .. Len(scopes),
                      InScope(scopes[k], n) # {},
                      \A j \in k + 1 .. Len(scopes) : InScope(scopes[j], n) = {}
               PROVE  Head1(n) \in scopes[k]
    BY DEF InnermostWins
  <2>1. /\ scopes \in Seq(SUBSET Decls) /\ Len(scopes) = Len(frames)
        /\ chain[n] \in Seq(Decls) /\ Len(frames) \in Nat \ {0}
        /\ \A i \in 1 .. Len(chain[n]) : chain[n][i] \in Named(n)
    BY ChainFacts DEF LookupInv
  <2>2. frames[1].phase # "pop"
    BY <2>1 DEF LookupInv, ProgramWaits, Top
  <2>3. Layered(chain[n], scopes, Named(n))
    BY <2>2 DEF LookupInv, ChainsLayered
  <2>4. \A j \in 1 .. Len(scopes) : scopes[j] \cap Named(n) = InScope(scopes[j], n)
    BY <2>1 DEF Named, InScope
  <2>5. /\ scopes[k] \cap Named(n) # {}
        /\ \A j \in k + 1 .. Len(scopes) : scopes[j] \cap Named(n) = {}
    <3>1. k \in 1 .. Len(scopes) /\ \A j \in k + 1 .. Len(scopes) : j \in 1 .. Len(scopes)
      BY <2>1
    <3> QED BY <2>4, <3>1
  <2>6. chain[n] # <<>> /\ chain[n][Len(chain[n])] \in scopes[k]
    BY <2>1, <2>3, <2>5, LayersTop
  <2> QED BY <2>6 DEF Head1
<1> QED BY <1>1, LookupInvariant, PTL

-----------------------------------------------------------------------------
(* Lexical scoping.  Around is a recursion over bodies; that a body comes  *)
(* after the one it is in makes it one that ends.                          *)

IsAround(n, N, f) ==
  f = [p \in 0 .. N |-> IF p = 0 THEN Builtin(n)
                        ELSE Inside(n, prog[p].up, p, f[prog[p].up])]

LEMMA UpBefore ==
  ASSUME ScopesInv
  PROVE  /\ Len(prog) \in Nat
         /\ \A p \in Ids : prog[p].up \in Nat /\ prog[p].up < p /\ p \in Nat
                           /\ prog[p].up \in 0 .. Len(prog)
<1>1. Len(prog) \in Nat /\ \A p \in Ids : prog[p].up \in Nat
  BY ProgramFacts DEF ScopesInv
<1>2. \A p \in Ids : prog[p].up < p
  BY DEF ScopesInv, TypeOK, IsProgram, Ids
<1> QED BY <1>1, <1>2 DEF Ids

LEMMA AroundExists ==
  ASSUME ScopesInv, NEW n
  PROVE  \E f : IsAround(n, Len(prog), f)
<1> DEFINE Bad == {m \in Nat : m <= Len(prog) /\ ~ \E f : IsAround(n, m, f)}
<1>1. Bad = {}
  <2> SUFFICES ASSUME Bad # {} PROVE FALSE
    OBVIOUS
  <2>1. PICK m \in Bad : \A k \in Bad : m <= k
    <3>1. Bad \in SUBSET Nat
      OBVIOUS
    <3> HIDE DEF Bad
    <3> QED BY <3>1, LeastNat
  <2>2. CASE m = 0
    <3> DEFINE h == [p \in 0 .. 0 |-> Builtin(n)]
    <3>1. h = [p \in 0 .. 0 |-> IF p = 0 THEN Builtin(n)
                                ELSE Inside(n, prog[p].up, p, h[prog[p].up])]
      BY \A p \in 0 .. 0 : p = 0
    <3>2. IsAround(n, 0, h)
      BY <3>1, Zenon DEF IsAround
    <3> QED BY <2>1, <2>2, <3>2
  <2>3. CASE m # 0
    <3>1. /\ m \in Nat /\ m - 1 \in Nat /\ m - 1 \notin Bad /\ m <= Len(prog)
          /\ m - 1 <= Len(prog)
      BY <2>1, <2>3, UpBefore
    <3>2. PICK g : IsAround(n, m - 1, g)
      BY <3>1
    <3> DEFINE Step(f, p) == IF p = 0 THEN Builtin(n)
                             ELSE Inside(n, prog[p].up, p, f[prog[p].up])
               h == [p \in 0 .. m |-> IF p < m THEN g[p] ELSE Step(g, m)]
    <3>3. \A p \in 0 .. m - 1 : g[p] = Step(g, p)
      BY <3>2, Zenon DEF IsAround
    <3>4. \A p \in 0 .. m : (p < m /\ p \in 0 .. m - 1) \/ p = m
      BY <3>1
    <3>5. \A p \in 0 .. m - 1 : h[p] = g[p]
      BY <3>1
    <3>6. \A p \in 0 .. m : p # 0 => prog[p].up \in 0 .. m - 1
      <4>1. \A p \in 0 .. m : p # 0 => p \in Ids
        BY <3>1, UpBefore DEF Ids
      <4> QED BY <3>1, <4>1, UpBefore
    <3> HIDE DEF Step
    <3>7. \A p \in 0 .. m : h[p] = Step(g, p)
      BY <3>3, <3>4
    <3>8. h = [p \in 0 .. m |-> h[p]]
      OBVIOUS
    <3> HIDE DEF h
    <3>9. \A p \in 0 .. m : Step(h, p) = Step(g, p)
      BY <3>5, <3>6 DEF Step
    <3>10. h = [p \in 0 .. m |-> Step(h, p)]
      BY <3>7, <3>8, <3>9
    <3>11. IsAround(n, m, h)
      BY <3>10, Zenon DEF IsAround, Step
    <3> QED BY <2>1, <3>11
  <2> QED BY <2>2, <2>3
<1> QED BY <1>1, UpBefore

LEMMA AroundIs ==
  ASSUME ScopesInv, NEW n
  PROVE  /\ Around(n)[0] = Builtin(n)
         /\ \A p \in Ids : Around(n)[p]
                           = Inside(n, prog[p].up, p, Around(n)[prog[p].up])
<1>1. IsAround(n, Len(prog), Around(n))
  BY AroundExists, Zenon DEF IsAround, Around
<1>2. \A p \in 0 .. Len(prog) :
        Around(n)[p] = IF p = 0 THEN Builtin(n)
                       ELSE Inside(n, prog[p].up, p, Around(n)[prog[p].up])
  BY <1>1, Zenon DEF IsAround
<1>3. 0 \in 0 .. Len(prog) /\ \A p \in Ids : p \in 0 .. Len(prog) /\ p # 0
  BY UpBefore DEF Ids
<1> QED BY <1>2, <1>3, Zenon

\* What the names are does not change.
LEMMA MeaningKept ==
  ASSUME prog' = prog
  PROVE  /\ \A i : Denoted(i)' = Denoted(i) /\ Kind(i)' = Kind(i) /\ NameOf(i)' = NameOf(i)
         /\ Ids' = Ids /\ Decls' = Decls
         /\ \A f, S, G : AsWritten(f, S, G)' <=> AsWritten(f, S, G)
<1>1. /\ \A i : Kind(i)' = Kind(i) /\ NameOf(i)' = NameOf(i)
      /\ Ids' = Ids /\ Decls' = Decls
  BY DEF Kind, NameOf, Ids, Decls
<1>2. \A n, p, q : OwnBefore(n, p, q)' = OwnBefore(n, p, q)
  BY <1>1 DEF OwnBefore
<1>3. \A i, a : StandsFor(i, a)' = StandsFor(i, a)
  BY <1>1, <1>2 DEF StandsFor
<1>4. \A n, p, q, a : Inside(n, p, q, a)' = Inside(n, p, q, a)
  <2> SUFFICES ASSUME NEW n, NEW p, NEW q, NEW a
               PROVE  Inside(n, p, q, a)' = Inside(n, p, q, a)
    OBVIOUS
  <2>1. PICK c : c = CHOOSE i \in OwnBefore(n, p, q) : TRUE
    OBVIOUS
  <2>2. PICK S : S = OwnBefore(n, p, q)
    OBVIOUS
  <2>3. /\ OwnBefore(n, p, q)' = S /\ StandsFor(c, a)' = StandsFor(c, a)
        /\ c = CHOOSE i \in S : TRUE
    BY <1>2, <1>3, <2>1, <2>2
  <2>4. Inside(n, p, q, a) = IF S = {} THEN a ELSE StandsFor(c, a)
    BY <2>2, <2>3 DEF Inside
  <2>5. Inside(n, p, q, a)' = IF S = {} THEN a ELSE StandsFor(c, a)'
    BY <2>3, Zenon DEF Inside
  <2> QED BY <2>3, <2>4, <2>5
<1>5. \A n : Around(n)' = Around(n)
  BY <1>4 DEF Around
<1>6. \A i : Denoted(i)' = Denoted(i)
  BY <1>3, <1>5 DEF Denoted
<1>7. \A f : DeclaredBy(f)' = DeclaredBy(f)
  BY <1>1 DEF DeclaredBy
<1>8. \A f, S, G : AsWritten(f, S, G)' <=> AsWritten(f, S, G)
  BY <1>1, <1>6, <1>7 DEF AsWritten
<1> QED BY <1>1, <1>6, <1>8

\* As far as traversal k has come, and what n means there.
Limit(k) == IF k < Len(frames) THEN frames[k + 1].decl ELSE Len(prog)
MeansAt(n, k) == Inside(n, frames[k].decl, Limit(k), Around(n)[frames[k].decl])
OwnAt(n, k) == {i \in DeclaredBy(frames[k]) : prog[i].name = n}

\* What is under way around the innermost traversal has declared what the text
\* puts before it.
LEMMA WaitingDeclared ==
  ASSUME LexicalInv, NEW n, NEW k \in 1 .. Len(frames), k # Len(frames)
  PROVE  /\ OwnBefore(n, frames[k].decl, frames[k + 1].decl) = OwnAt(n, k)
         /\ frames[k].phase # "pop" /\ k < Len(frames) /\ k + 1 \in 1 .. Len(frames)
         /\ frames[k + 1].decl \in Ids /\ prog[frames[k + 1].decl].up = frames[k].decl
         /\ Around(n)[frames[k + 1].decl]
              = Inside(n, frames[k].decl, frames[k + 1].decl, Around(n)[frames[k].decl])
<1>1. /\ ScopesInv /\ TypeOK /\ Len(frames) \in Nat \ {0} /\ Len(prog) \in Nat
      /\ \A j \in 1 .. Len(frames) : frames[j].decl \in 0 .. Len(prog)
      /\ \A j \in 1 .. Len(frames) : j # 1 => frames[j].decl # 0
  BY FrameFacts, UpBefore
     DEF LexicalInv, LookupInv, ScopesInv, FrameSet, TypeOK, FramesOK
<1>2. k < Len(frames) /\ k + 1 \in 1 .. Len(frames) /\ k \in 1 .. Len(frames) - 1
  BY <1>1
<1>3. /\ prog[frames[k + 1].decl].up = frames[k].decl
      /\ IF IsFunction(frames[k].decl)
         THEN frames[k].phase = "declare" /\ frames[k].at = frames[k + 1].decl
         ELSE frames[k].phase = "visit"
  BY <1>2 DEF LexicalInv, FramesNest
<1>4. OwnBefore(n, frames[k].decl, frames[k + 1].decl) = OwnAt(n, k)
  BY <1>3 DEF OwnBefore, OwnAt, DeclaredBy, IsFunction
<1>5. frames[k + 1].decl \in Ids
  BY <1>1, <1>2 DEF Ids
<1>6. Around(n)[frames[k + 1].decl]
        = Inside(n, frames[k].decl, frames[k + 1].decl, Around(n)[frames[k].decl])
  BY <1>1, <1>3, <1>5, AroundIs
<1> QED BY <1>2, <1>3, <1>4, <1>5, <1>6

\* In a statement all have declared that.
LEMMA OwnDeclared ==
  ASSUME LexicalInv, Top.phase = "statements", NEW n, NEW k \in 1 .. Len(frames)
  PROVE  /\ OwnBefore(n, frames[k].decl, Limit(k)) = OwnAt(n, k)
         /\ frames[k].phase # "pop"
         /\ k < Len(frames) => Around(n)[frames[k + 1].decl] = MeansAt(n, k)
<1>1. CASE k # Len(frames)
  BY <1>1, WaitingDeclared, Zenon DEF Limit, MeansAt
<1>2. CASE k = Len(frames)
  <2>1. frames[k] = Top /\ Limit(k) = Len(prog) /\ ~(k < Len(frames))
    BY <1>2, FrameFacts DEF Top, Limit, LexicalInv, LookupInv, ScopesInv
  <2>2. \A i \in Ids : i \in Nat /\ i <= Len(prog)
    BY UpBefore DEF Ids, LexicalInv, LookupInv
  <2>3. OwnBefore(n, frames[k].decl, Limit(k)) = OwnAt(n, k)
    BY <2>1, <2>2 DEF OwnBefore, OwnAt, DeclaredBy
  <2> QED BY <2>1, <2>3
<1> QED BY <1>1, <1>2

\* A name that a body declares means what the declaration stands for.
LEMMA OwnMeans ==
  ASSUME NEW f, NEW S, NEW given, AsWritten(f, S, given), NEW n, NEW q,
         OwnBefore(n, f.decl, q) = {j \in DeclaredBy(f) : prog[j].name = n},
         NEW i \in DeclaredBy(f), prog[i].name = n
  PROVE  Inside(n, f.decl, q, Around(n)[f.decl]) = Denoted(i)
<1>1. prog[i].up = f.decl
  BY DEF DeclaredBy
<1>2. OwnBefore(n, f.decl, q) = {i}
  BY DEF AsWritten
<1>3. (CHOOSE j \in OwnBefore(n, f.decl, q) : TRUE) = i /\ OwnBefore(n, f.decl, q) # {}
  BY <1>2
<1>4. Inside(n, f.decl, q, Around(n)[f.decl]) = StandsFor(i, Around(n)[f.decl])
  BY <1>3, Zenon DEF Inside
<1> QED BY <1>1, <1>4, Zenon DEF Denoted

\* A scope with a declaration of a name says what the name means in it.
LEMMA ScopeSays ==
  ASSUME LexicalInv, errors = {}, Top.phase = "statements", NEW n \in AllNames,
         NEW k \in 1 .. Len(frames)
  PROVE  IF InScope(scopes[k], n) = {}
         THEN MeansAt(n, k) = IF k = 1 THEN 0 ELSE MeansAt(n, k - 1)
         ELSE InScope(scopes[k], n) = {MeansAt(n, k)}
<1>1. /\ ScopesInv /\ AsWritten(frames[k], scopes[k], Given(k))
      /\ OwnBefore(n, frames[k].decl, Limit(k)) = OwnAt(n, k)
  BY OwnDeclared DEF LexicalInv, LookupInv, ScopesAsWritten
<1>2. CASE OwnAt(n, k) = {}
  <2>1. InScope(scopes[k], n) = {d \in Given(k) : NameOf(d) = n}
    BY <1>1, <1>2 DEF AsWritten, InScope, OwnAt
  <2>2. MeansAt(n, k) = Around(n)[frames[k].decl]
    BY <1>1, <1>2, Zenon DEF MeansAt, Inside
  <2>3. CASE k = 1
    <3>1. frames[k].decl = 0
      BY <1>1, <2>3 DEF ScopesInv, TypeOK, FramesOK
    <3>2. MeansAt(n, k) = Builtin(n)
      BY <1>1, <2>2, <3>1, AroundIs
    <3> QED BY <2>1, <2>3, <3>2
            DEF Given, Predefined, NameOf, ObjectClass, SpecialClass, Builtin
  <2>4. CASE k # 1
    <3>1. k - 1 \in 1 .. Len(frames) /\ k - 1 < Len(frames) /\ k - 1 + 1 = k
      BY <1>1, <2>4, FrameFacts DEF ScopesInv
    <3>2. Around(n)[frames[k - 1 + 1].decl] = MeansAt(n, k - 1)
      BY <3>1, OwnDeclared
    <3>3. InScope(scopes[k], n) = {}
      BY <2>1, <2>4 DEF Given
    <3> QED BY <2>2, <2>4, <3>1, <3>2, <3>3
  <2> QED BY <2>3, <2>4
<1>3. CASE OwnAt(n, k) # {}
  <2>1. PICK i : i \in OwnAt(n, k)
    BY <1>3
  <2>2. /\ i \in DeclaredBy(frames[k]) /\ prog[i].name = n
        /\ prog[i].up = frames[k].decl
    BY <2>1 DEF OwnAt, DeclaredBy
  <2>3. OwnAt(n, k) = {i}
    BY <1>1, <2>1, <2>2 DEF AsWritten, OwnAt
  <2>4. InScope(scopes[k], n) = {Denoted(i)}
    <3>1. /\ \A d \in Given(k) : NameOf(d) # n
          /\ \A j \in DeclaredBy(frames[k]) : NameOf(Denoted(j)) = prog[j].name
          /\ scopes[k] = Given(k) \cup {Denoted(j) : j \in DeclaredBy(frames[k])}
      BY <1>1, <2>2 DEF AsWritten
    <3>2. \A j \in DeclaredBy(frames[k]) : prog[j].name = n => j = i
      BY <2>3 DEF OwnAt
    <3> QED BY <2>2, <3>1, <3>2 DEF InScope
  <2>5. MeansAt(n, k) = Denoted(i)
    BY <1>1, <2>2, OwnMeans DEF MeansAt, OwnAt
  <2> QED BY <2>4, <2>5
<1> QED BY <1>2, <1>3

\* So does the innermost one that has any.
InnermostSays(n, k) ==
  \/ /\ MeansAt(n, k) = 0 /\ \A j \in 1 .. k : InScope(scopes[j], n) = {}
  \/ \E j \in 1 .. k : /\ InScope(scopes[j], n) = {MeansAt(n, k)}
                       /\ \A l \in j + 1 .. k : InScope(scopes[l], n) = {}

LEMMA InnermostMeans ==
  ASSUME LexicalInv, errors = {}, Top.phase = "statements", NEW n \in AllNames,
         NEW k \in 1 .. Len(frames)
  PROVE  InnermostSays(n, k)
<1> DEFINE Bad == {m \in Nat : m \in 1 .. Len(frames) /\ ~InnermostSays(n, m)}
<1>1. Len(frames) \in Nat
  BY FrameFacts DEF LexicalInv, LookupInv, ScopesInv
<1>2. Bad = {}
  <2> SUFFICES ASSUME Bad # {} PROVE FALSE
    OBVIOUS
  <2>1. PICK m \in Bad : \A l \in Bad : m <= l
    <3>1. Bad \in SUBSET Nat
      OBVIOUS
    <3> HIDE DEF Bad
    <3> QED BY <3>1, LeastNat
  <2>2. m \in 1 .. Len(frames) /\ m \in Nat /\ ~InnermostSays(n, m)
    BY <2>1
  <2>3. m # 1 => m - 1 \in 1 .. Len(frames) /\ InnermostSays(n, m - 1)
    BY <1>1, <2>1
  <2> HIDE DEF Bad
  <2>4. IF InScope(scopes[m], n) = {}
        THEN MeansAt(n, m) = IF m = 1 THEN 0 ELSE MeansAt(n, m - 1)
        ELSE InScope(scopes[m], n) = {MeansAt(n, m)}
    BY <2>2, ScopeSays
  <2>5. CASE InScope(scopes[m], n) # {}
    BY <2>2, <2>4, <2>5 DEF InnermostSays
  <2>6. CASE InScope(scopes[m], n) = {} /\ m = 1
    BY <2>2, <2>4, <2>6 DEF InnermostSays
  <2>7. CASE InScope(scopes[m], n) = {} /\ m # 1
    <3>1. MeansAt(n, m) = MeansAt(n, m - 1) /\ InnermostSays(n, m - 1)
      BY <2>3, <2>4, <2>7
    <3>2. /\ \A j \in 1 .. m : j \in 1 .. m - 1 \/ j = m
          /\ \A j \in 1 .. m - 1 : j \in 1 .. m
          /\ \A j \in 1 .. m - 1 : \A l \in j + 1 .. m : l \in j + 1 .. m - 1 \/ l = m
      BY <2>2
    <3> QED BY <2>2, <2>7, <3>1, <3>2 DEF InnermostSays
  <2> QED BY <2>5, <2>6, <2>7
<1> QED BY <1>1, <1>2

LEMMA HeadMeans ==
  ASSUME LexicalInv, errors = {}, Top.phase = "statements", NEW n \in AllNames
  PROVE  Head1(n) = Meaning(n, Top.decl)
<1> DEFINE N == Len(frames)
<1>1. /\ scopes \in Seq(SUBSET Decls) /\ Len(scopes) = N
      /\ chain[n] \in Seq(Decls) /\ N \in Nat \ {0}
      /\ \A i \in 1 .. Len(chain[n]) : chain[n][i] \in Named(n)
      /\ \A d, m : d \in Named(m) => m = NameOf(d)
  BY ChainFacts DEF LexicalInv, LookupInv
<1>2. Layered(chain[n], scopes, Named(n))
  <2>1. frames[1].phase # "pop"
    <3>1. 1 \in 1 .. Len(frames)
      BY <1>1
    <3> QED BY <3>1, OwnDeclared
  <2>2. ~HasError("dup")
    BY DEF HasError
  <2> QED BY <2>1, <2>2 DEF LexicalInv, LookupInv, ChainsLayered
<1>3. N \in 1 .. N /\ InnermostSays(n, N)
  BY <1>1, InnermostMeans
<1>4. MeansAt(n, N) = Meaning(n, Top.decl)
  BY <1>1 DEF MeansAt, Meaning, Limit, Top
<1>5. \A j \in 1 .. N : scopes[j] \cap Named(n) = InScope(scopes[j], n)
  BY <1>1 DEF Named, InScope
<1>6. CASE MeansAt(n, N) = 0 /\ \A j \in 1 .. N : InScope(scopes[j], n) = {}
  <2>1. PICK level \in [1 .. Len(chain[n]) -> 1 .. N] : InLayers(chain[n], scopes, Named(n), level)
    BY <1>1, <1>2 DEF Layered
  <2>2. ASSUME NEW i \in 1 .. Len(chain[n]) PROVE FALSE
    <3>1. level[i] \in 1 .. N /\ chain[n][i] \in scopes[level[i]]
      BY <2>1 DEF InLayers
    <3> QED BY <1>1, <1>5, <1>6, <3>1
  <2>3. chain[n] = <<>>
    BY <1>1, <2>2
  <2> QED BY <1>4, <1>6, <2>3 DEF Head1
<1>7. CASE \E j \in 1 .. N : /\ InScope(scopes[j], n) = {MeansAt(n, N)}
                             /\ \A l \in j + 1 .. N : InScope(scopes[l], n) = {}
  <2>1. PICK j \in 1 .. N : /\ InScope(scopes[j], n) = {MeansAt(n, N)}
                            /\ \A l \in j + 1 .. N : InScope(scopes[l], n) = {}
    BY <1>7
  <2>2. \A l \in j + 1 .. N : l \in 1 .. N
    BY <1>1
  <2>3. /\ scopes[j] \cap Named(n) # {}
        /\ \A l \in j + 1 .. N : scopes[l] \cap Named(n) = {}
    BY <1>5, <2>1, <2>2
  <2>4. chain[n] # <<>> /\ chain[n][Len(chain[n])] \in scopes[j]
    BY <1>1, <1>2, <2>3, LayersTop
  <2>5. Len(chain[n]) \in 1 .. Len(chain[n])
    BY <1>1, <2>4
  <2>6. Head1(n) \in InScope(scopes[j], n)
    BY <1>1, <1>5, <2>4, <2>5 DEF Head1
  <2> QED BY <1>4, <2>1, <2>6
<1> QED BY <1>3, <1>6, <1>7 DEF InnermostSays

-----------------------------------------------------------------------------
(* Lexical scoping, step by step.                                          *)

\* LexicalInv without LookupInv.
LexicalRest == FramesNest /\ ScopesAsWritten /\ FoundOnTop

FrameOf(d, ph, at) == [decl |-> d, phase |-> ph, at |-> at]

\* The innermost traversal moves, the others wait.
LEMMA MovedFrames ==
  ASSUME TypeOK, NEW ph \in Phases, NEW at \in 0 .. Len(prog)
  PROVE  /\ Moved(ph, at) \in Seq(FrameSet) /\ Len(Moved(ph, at)) = Len(frames)
         /\ Moved(ph, at)[Len(frames)] = FrameOf(Top.decl, ph, at)
         /\ \A k \in 1 .. Len(frames) : k # Len(frames) => Moved(ph, at)[k] = frames[k]
<1>1. /\ frames \in Seq(FrameSet) /\ Len(frames) \in 1 .. Len(frames)
      /\ Top.decl \in 0 .. Len(prog)
  BY FrameFacts DEF TypeOK, FramesOK, FrameSet
<1>2. FrameOf(Top.decl, ph, at) \in FrameSet
  BY <1>1 DEF FrameOf, FrameSet
<1>3. Moved(ph, at) = [frames EXCEPT ![Len(frames)] = FrameOf(Top.decl, ph, at)]
  BY DEF Moved, FrameOf
<1> QED BY <1>1, <1>2, <1>3, Replaced

LEMMA MovedNests ==
  ASSUME LexicalInv, prog' = prog, NEW ph \in Phases, NEW at \in 0 .. Len(prog),
         frames' = Moved(ph, at),
         ph = "nested" =>
           IsFunction(Top.decl) /\ IsFunction(at) /\ prog[at].up = Top.decl,
         ph = "visit" => ~IsFunction(Top.decl)
  PROVE  FramesNest'
<1>1. /\ Len(frames') = Len(frames) /\ Len(frames) \in Nat \ {0}
      /\ frames'[Len(frames)] = FrameOf(Top.decl, ph, at)
      /\ \A k \in 1 .. Len(frames) : k # Len(frames) => frames'[k] = frames[k]
  BY MovedFrames, FrameFacts DEF LexicalInv, LookupInv, ScopesInv
<1>2. Top' = FrameOf(Top.decl, ph, at) /\ Top = frames[Len(frames)]
  BY <1>1 DEF Top
<1>3. \A p : IsFunction(p)' <=> IsFunction(p)
  BY MeaningKept DEF IsFunction
<1>4. \A k \in 1 .. Len(frames) : frames'[k].decl = frames[k].decl
  BY <1>1, <1>2 DEF FrameOf
<1>5. ASSUME NEW k \in 1 .. Len(frames) - 1
      PROVE  /\ prog[frames'[k + 1].decl].up = frames'[k].decl
             /\ IF IsFunction(frames'[k].decl)
                THEN frames'[k].phase = "declare" /\ frames'[k].at = frames'[k + 1].decl
                ELSE frames'[k].phase = "visit"
  <2>1. k \in 1 .. Len(frames) /\ k + 1 \in 1 .. Len(frames) /\ k # Len(frames)
    BY <1>1
  <2>2. frames'[k] = frames[k] /\ frames'[k + 1].decl = frames[k + 1].decl
    BY <1>1, <1>4, <2>1
  <2> QED BY <2>2 DEF LexicalInv, FramesNest
<1>6. Top'.phase = ph /\ Top'.at = at /\ Top'.decl = Top.decl
  BY <1>2 DEF FrameOf
<1> QED BY <1>1, <1>3, <1>5, <1>6 DEF FramesNest

LEMMA MovedWritten ==
  ASSUME LexicalInv, prog' = prog, NEW ph \in Phases, NEW at \in 0 .. Len(prog),
         frames' = Moved(ph, at), errors \subseteq errors',
         errors' = {} =>
           /\ \A k \in 1 .. Len(frames) : k # Len(frames) => scopes'[k] = scopes[k]
           /\ ph # "pop" => AsWritten(FrameOf(Top.decl, ph, at), scopes'[Len(frames)],
                                      Given(Len(frames)))
  PROVE  ScopesAsWritten'
<1>1. /\ Len(frames') = Len(frames) /\ frames'[Len(frames)] = FrameOf(Top.decl, ph, at)
      /\ \A k \in 1 .. Len(frames) : k # Len(frames) => frames'[k] = frames[k]
  BY MovedFrames DEF LexicalInv, LookupInv, ScopesInv
<1> SUFFICES ASSUME errors' = {}, NEW k \in 1 .. Len(frames), frames'[k].phase # "pop"
             PROVE  AsWritten(frames'[k], scopes'[k], Given(k))
  <2>1. \A f, S, G : AsWritten(f, S, G)' <=> AsWritten(f, S, G)
    BY MeaningKept
  <2>2. PICK F, s : F = frames' /\ s = scopes'
    OBVIOUS
  <2>3. \A k \in 1 .. Len(F) : Given(k)' = Given(k)
    BY DEF Given
  <2> QED BY <1>1, <2>1, <2>2, <2>3 DEF ScopesAsWritten, Given
<1>2. CASE k # Len(frames)
  BY <1>1, <1>2 DEF LexicalInv, ScopesAsWritten
<1>3. CASE k = Len(frames)
  <2>1. ph # "pop"
    BY <1>1, <1>3 DEF FrameOf
  <2> QED BY <1>1, <1>3, <2>1
<1> QED BY <1>2, <1>3

\* What scope a traversal wrote depends on what it is through with.
LEMMA SameWritten ==
  ASSUME NEW f, NEW g, NEW S, NEW given, AsWritten(f, S, given),
         DeclaredBy(g) = DeclaredBy(f)
  PROVE  AsWritten(g, S, given)
BY DEF AsWritten

\* The innermost scope while it is filled or looked at.
LEMMA TopWritten ==
  ASSUME LexicalInv, errors = {}, Top.phase # "pop"
  PROVE  /\ AsWritten(Top, CurScope, Given(Len(frames)))
         /\ AsWritten(Top, scopes[Len(frames)], Given(Len(frames)))
<1>1. /\ Len(frames) \in 1 .. Len(frames) /\ Len(scopes) = Len(frames)
      /\ Top = frames[Len(frames)] /\ CurScope = scopes[Len(frames)]
  BY FrameFacts DEF LexicalInv, LookupInv, ScopesInv, Top, CurScope
<1> QED BY <1>1 DEF LexicalInv, ScopesAsWritten

\* The next declaration comes after those the traversal is through with.
LEMMA NextDeclared ==
  ASSUME ScopesInv, NEW i \in Ids, IsNext(i), Top.phase = "declare", NEW ph,
         ph \in {"declare", "nested"}
  PROVE  /\ DeclaredBy(FrameOf(Top.decl, ph, i)) = DeclaredBy(Top) \cup {i}
         /\ i \notin DeclaredBy(Top)
<1>1. /\ prog[i].up = Top.decl /\ i > Top.at
      /\ \A c \in Ids : prog[c].up = Top.decl => c <= Top.at \/ i <= c
  BY NextBelongs
<1>2. Top.at \in Nat /\ \A c \in Ids : c \in Nat
  BY FrameFacts, UpBefore DEF ScopesInv, Ids
<1>3. \A c \in Ids : prog[c].up = Top.decl => (c <= i <=> c <= Top.at \/ c = i)
  BY <1>1, <1>2
<1>4. DeclaredBy(FrameOf(Top.decl, ph, i)) = {c \in Ids : prog[c].up = Top.decl /\ c <= i}
  BY DEF DeclaredBy, FrameOf
<1>5. DeclaredBy(Top) = {c \in Ids : prog[c].up = Top.decl /\ c <= Top.at}
  BY DEF DeclaredBy
<1> QED BY <1>1, <1>2, <1>3, <1>4, <1>5

\* A declaration whose name is new enters the scope as what it stands for.
LEMMA WrittenEnters ==
  ASSUME ScopesInv, NEW f, NEW g, NEW S, NEW given, AsWritten(f, S, given),
         NEW i \in Ids, DeclaredBy(g) = DeclaredBy(f) \cup {i},
         Denoted(i) \in Decls, NameOf(Denoted(i)) = prog[i].name,
         InScope(S, prog[i].name) = {}
  PROVE  AsWritten(g, S \cup {Denoted(i)}, given)
<1>1. /\ S = given \cup {Denoted(j) : j \in DeclaredBy(f)}
      /\ \A j \in DeclaredBy(f) : /\ Denoted(j) \in Decls
                                  /\ NameOf(Denoted(j)) = prog[j].name
                                  /\ \A d \in given : NameOf(d) # prog[j].name
                                  /\ \A k \in DeclaredBy(f) :
                                       prog[j].name = prog[k].name => j = k
  BY DEF AsWritten
<1>2. \A d \in S : NameOf(d) # prog[i].name
  BY DEF InScope
<1>3. \A d \in given : NameOf(d) # prog[i].name
  BY <1>1, <1>2
<1>4. \A j \in DeclaredBy(f) : prog[j].name # prog[i].name
  BY <1>1, <1>2
<1>5. S \cup {Denoted(i)} = given \cup {Denoted(j) : j \in DeclaredBy(g)}
  BY <1>1
<1>6. ASSUME NEW j \in DeclaredBy(g)
      PROVE  /\ Denoted(j) \in Decls /\ NameOf(Denoted(j)) = prog[j].name
             /\ \A d \in given : NameOf(d) # prog[j].name
             /\ \A k \in DeclaredBy(g) : prog[j].name = prog[k].name => j = k
  <2>1. CASE j = i
    BY <1>3, <1>4, <2>1
  <2>2. CASE j \in DeclaredBy(f)
    BY <1>1, <1>4, <2>2
  <2> QED BY <1>6, <2>1, <2>2
<1> QED BY <1>5, <1>6 DEF AsWritten

\* The steps that register a declaration, or refuse to.
LEMMA DeclaringWrites ==
  ASSUME LexicalInv, NEW i \in Ids, Running("declare"), IsNext(i), AfterDeclaring(i),
         prog' = prog, resolved' = Nothing, errors \subseteq errors',
         errors' = {} =>
           /\ Denoted(i) \in Decls /\ NameOf(Denoted(i)) = prog[i].name
           /\ InScope(CurScope, prog[i].name) = {} /\ Register(Denoted(i))
  PROVE  LexicalRest'
<1> DEFINE ph == IF Kind(i) = "func" /\ Top.decl # 0 /\ Kind(Top.decl) = "func"
                 THEN "nested" ELSE "declare"
<1>1. /\ ScopesInv /\ TypeOK /\ frames' = Moved(ph, i) /\ ph \in Phases
      /\ ph \in {"declare", "nested"} /\ Top.phase = "declare"
      /\ i \in 0 .. Len(prog) /\ i # 0 /\ prog[i].up = Top.decl
  BY NextBelongs DEF LexicalInv, LookupInv, ScopesInv, AfterDeclaring, Phases, Running
<1>2. ph = "nested" => IsFunction(Top.decl) /\ IsFunction(i) /\ prog[i].up = Top.decl
  BY <1>1 DEF IsFunction
<1> HIDE DEF ph
<1>3. FramesNest'
  BY <1>1, <1>2, MovedNests
<1>4. ScopesAsWritten'
  <2>1. ASSUME errors' = {}
        PROVE  /\ \A k \in 1 .. Len(frames) : k # Len(frames) => scopes'[k] = scopes[k]
               /\ AsWritten(FrameOf(Top.decl, ph, i), scopes'[Len(frames)],
                            Given(Len(frames)))
    <3>1. /\ errors = {} /\ scopes \in Seq(SUBSET Decls) /\ Len(scopes) = Len(frames)
          /\ Len(frames) \in 1 .. Len(frames) /\ CurScope \in SUBSET Decls
      BY <1>1, <2>1, FrameFacts DEF TypeOK
    <3>2. Denoted(i) \notin CurScope
      BY <2>1 DEF InScope
    <3>3. /\ scopes' = [scopes EXCEPT ![Len(frames)] = CurScope \cup {Denoted(i)}]
          /\ CurScope \cup {Denoted(i)} \in SUBSET Decls
      BY <2>1, <3>1, <3>2 DEF Register, CurScope
    <3>4. /\ scopes'[Len(frames)] = CurScope \cup {Denoted(i)}
          /\ \A k \in 1 .. Len(frames) : k # Len(frames) => scopes'[k] = scopes[k]
      BY <3>1, <3>3, Replaced
    <3>5. AsWritten(Top, CurScope, Given(Len(frames)))
      BY <1>1, <3>1, TopWritten
    <3>6. DeclaredBy(FrameOf(Top.decl, ph, i)) = DeclaredBy(Top) \cup {i}
      BY <1>1, NextDeclared
    <3>7. AsWritten(FrameOf(Top.decl, ph, i), CurScope \cup {Denoted(i)}, Given(Len(frames)))
      BY <1>1, <2>1, <3>5, <3>6, WrittenEnters
    <3> QED BY <3>4, <3>7
  <2> QED BY <1>1, <2>1, MovedWritten
<1>5. FoundOnTop'
  BY DEF FoundOnTop
<1> QED BY <1>3, <1>4, <1>5 DEF LexicalRest

LEMMA DeclareTwiceWrites ==
  ASSUME LexicalInv, NEW i \in Ids, DeclareTwice(i)
  PROVE  LexicalRest'
<1>1. errors \subseteq errors' /\ errors' # {}
  BY DEF DeclareTwice, Report
<1> QED BY <1>1, DeclaringWrites DEF DeclareTwice

\* A declaration of the program has a kind and a name of its own.
LEMMA KindAndName ==
  ASSUME ScopesInv, NEW i \in Ids
  PROVE  /\ Kind(i) = prog[i].kind /\ NameOf(i) = prog[i].name /\ i \in Decls
         /\ Kind(i) \notin {"global", "nonlocal"} => Denoted(i) = i
<1>1. i \notin Predefined /\ i # ObjectClass /\ i # SpecialClass
  BY UpBefore DEF Ids, Predefined, ObjectClass, SpecialClass
<1>2. Kind(i) = prog[i].kind /\ NameOf(i) = prog[i].name /\ i \in Decls
  BY <1>1 DEF Kind, NameOf, Decls
<1>3. Kind(i) \notin {"global", "nonlocal"} => Denoted(i) = i
  BY DEF Denoted, StandsFor
<1> QED BY <1>2, <1>3

LEMMA DeclareWrites ==
  ASSUME LexicalInv, NEW i \in Ids, Declare(i)
  PROVE  LexicalRest'
<1>1. errors \subseteq errors'
  BY DEF Declare, Report
<1>2. /\ Denoted(i) = i /\ i \in Decls /\ NameOf(i) = prog[i].name
      /\ InScope(CurScope, prog[i].name) = {} /\ Register(i)
  BY KindAndName DEF Declare, Fresh, LexicalInv, LookupInv
<1> QED BY <1>1, <1>2, DeclaringWrites DEF Declare, Fresh

\* A variable of the scope around is what a nonlocal declaration stands for.
LEMMA NonlocalDenotes ==
  ASSUME LexicalInv, errors = {}, NEW i \in Ids, IsNext(i), Kind(i) = "nonlocal",
         NEW d \in Outer(i)
  PROVE  d = Denoted(i) /\ d \in Decls /\ NameOf(d) = prog[i].name
<1> DEFINE k == Len(frames) - 1
           n == prog[i].name
<1>1. /\ ScopesInv /\ Len(scopes) = Len(frames) /\ Len(frames) \in Nat \ {0}
      /\ Kind(i) = prog[i].kind /\ NameOf(i) = n /\ prog[i].up = Top.decl
  BY FrameFacts, KindAndName, NextBelongs DEF LexicalInv, LookupInv, ScopesInv
<1>2. Top.decl # 0 /\ Len(frames) # 1 /\ Len(frames) # 2
  BY <1>1, ProgramFacts, FrameFacts DEF ScopesInv, Outer
<1>3. /\ k \in 1 .. Len(frames) /\ k # Len(frames) /\ k # 1 /\ k + 1 = Len(frames)
      /\ d \in InScope(scopes[k], n) /\ frames[k + 1] = Top
  BY <1>1, <1>2 DEF Outer, Top
<1> HIDE DEF k
<1>4. /\ OwnBefore(n, frames[k].decl, Top.decl) = OwnAt(n, k) /\ frames[k].phase # "pop"
      /\ Around(n)[Top.decl] = Inside(n, frames[k].decl, Top.decl, Around(n)[frames[k].decl])
  BY <1>3, WaitingDeclared
<1>5. AsWritten(frames[k], scopes[k], {})
  BY <1>3, <1>4 DEF LexicalInv, ScopesAsWritten, Given
<1>6. PICK j \in DeclaredBy(frames[k]) : d = Denoted(j)
  BY <1>3, <1>5 DEF AsWritten, InScope
<1>7. d \in Decls /\ NameOf(d) = prog[j].name /\ NameOf(d) = n
  BY <1>3, <1>5, <1>6 DEF AsWritten, InScope
<1>8. Inside(n, frames[k].decl, Top.decl, Around(n)[frames[k].decl]) = Denoted(j)
  <2>1. PICK f : f = frames[k]
    OBVIOUS
  <2>2. /\ AsWritten(f, scopes[k], {}) /\ j \in DeclaredBy(f) /\ prog[j].name = n
        /\ OwnBefore(n, f.decl, Top.decl) = {x \in DeclaredBy(f) : prog[x].name = n}
    BY <1>4, <1>5, <1>6, <1>7, <2>1 DEF OwnAt
  <2>3. Inside(n, f.decl, Top.decl, Around(n)[f.decl]) = Denoted(j)
    BY ONLY <2>2, OwnMeans
  <2> QED BY <2>1, <2>3
<1>9. Denoted(i) = Around(n)[prog[i].up]
  BY Zenon DEF Denoted, StandsFor
<1> QED BY <1>1, <1>4, <1>6, <1>7, <1>8, <1>9

LEMMA DeclareNonlocalWrites ==
  ASSUME LexicalInv, NEW i \in Ids, DeclareNonlocal(i)
  PROVE  LexicalRest'
<1>1. errors \subseteq errors' /\ Kind(i) = "nonlocal" /\ Fresh(i)
  BY DEF DeclareNonlocal, Report
<1>2. ASSUME errors' = {}
      PROVE  /\ Denoted(i) \in Decls /\ NameOf(Denoted(i)) = prog[i].name
             /\ InScope(CurScope, prog[i].name) = {} /\ Register(Denoted(i))
  <2>1. PICK d \in Outer(i) : Register(d)
    BY <1>2 DEF DeclareNonlocal, Report
  <2>2. d = Denoted(i) /\ d \in Decls /\ NameOf(d) = prog[i].name
    BY <1>1, <1>2, NonlocalDenotes DEF Fresh
  <2>3. InScope(CurScope, prog[i].name) = {}
    BY <1>1, KindAndName DEF Fresh, LexicalInv, LookupInv
  <2> QED BY <2>1, <2>2, <2>3
<1> QED BY <1>1, <1>2, DeclaringWrites DEF DeclareNonlocal, Fresh

\* The program's variable is what a global declaration stands for.
LEMMA GlobalDenotes ==
  ASSUME LexicalInv, errors = {}, NEW i \in Ids, IsNext(i), Kind(i) = "global",
         NEW d \in InScope(GlobalScope, NameOf(i)), Kind(d) = "var"
  PROVE  d = Denoted(i) /\ d \in Decls /\ NameOf(d) = prog[i].name
<1> DEFINE n == prog[i].name
<1>1. /\ ScopesInv /\ Len(frames) \in Nat \ {0} /\ NameOf(i) = n /\ Len(frames) # 1
  BY FrameFacts, KindAndName, ProgramNext DEF LexicalInv, LookupInv, ScopesInv
<1>2. 1 \in 1 .. Len(frames) /\ 1 # Len(frames) /\ frames[1].phase = "visit"
  BY <1>1 DEF LexicalInv, LookupInv, ProgramWaits
<1>3. AsWritten(frames[1], scopes[1], Predefined)
  BY <1>2 DEF LexicalInv, ScopesAsWritten, Given
<1>4. d \notin Predefined /\ d \in scopes[1] /\ NameOf(d) = n
  BY <1>1 DEF Kind, InScope, GlobalScope
<1>5. PICK j \in DeclaredBy(frames[1]) : d = Denoted(j)
  BY <1>3, <1>4 DEF AsWritten
<1>6. frames[1].decl = 0 /\ DeclaredBy(frames[1]) = {g \in Ids : prog[g].up = 0}
  BY <1>1, <1>2 DEF ScopesInv, TypeOK, FramesOK, DeclaredBy
<1>7. d = j
  <2>1. prog[j].kind \notin {"global", "nonlocal"}
    BY <1>1, <1>5, <1>6 DEF ScopesInv, TypeOK, IsProgram, Ids
  <2> QED BY <1>1, <1>5, <1>6, <2>1, KindAndName
<1>8. OwnBefore(n, 0, 0) = {d}
  <2>1. OwnBefore(n, 0, 0) = {g \in Ids : prog[g].up = 0 /\ prog[g].name = n}
    BY DEF OwnBefore
  <2>2. prog[d].name = n
    BY <1>1, <1>4, <1>5, <1>6, <1>7, KindAndName
  <2>3. \A g \in DeclaredBy(frames[1]) : prog[g].name = n => g = d
    BY <1>3, <1>5, <1>7, <2>2 DEF AsWritten
  <2> QED BY <1>5, <1>6, <1>7, <2>1, <2>2, <2>3
<1>9. Denoted(i) = CHOOSE g \in OwnBefore(n, 0, 0) : TRUE
  BY Zenon DEF Denoted, StandsFor
<1>10. d \in Decls
  BY <1>1, <1>5, <1>6, <1>7, KindAndName
<1> QED BY <1>4, <1>8, <1>9, <1>10

LEMMA DeclareGlobalWrites ==
  ASSUME LexicalInv, NEW i \in Ids, DeclareGlobal(i)
  PROVE  LexicalRest'
<1>1. errors \subseteq errors' /\ Kind(i) = "global" /\ Fresh(i)
  BY DEF DeclareGlobal, Report
<1>2. ASSUME errors' = {}
      PROVE  /\ Denoted(i) \in Decls /\ NameOf(Denoted(i)) = prog[i].name
             /\ InScope(CurScope, prog[i].name) = {} /\ Register(Denoted(i))
  <2>1. PICK d \in InScope(GlobalScope, NameOf(i)) : Kind(d) = "var" /\ Register(d)
    BY <1>2 DEF DeclareGlobal, Report
  <2>2. d = Denoted(i) /\ d \in Decls /\ NameOf(d) = prog[i].name
    BY <1>1, <1>2, <2>1, GlobalDenotes DEF Fresh
  <2>3. InScope(CurScope, prog[i].name) = {}
    BY <1>1, KindAndName DEF Fresh, LexicalInv, LookupInv
  <2> QED BY <2>1, <2>2, <2>3
<1> QED BY <1>1, <1>2, DeclaringWrites DEF DeclareGlobal, Fresh

\* A step that leaves the traversals and the scopes alone.
LEMMA StayingWrites ==
  ASSUME LexicalInv, UNCHANGED <<prog, frames, scopes, errors>>
  PROVE  FramesNest' /\ ScopesAsWritten'
<1>1. \A p : IsFunction(p)' <=> IsFunction(p)
  BY MeaningKept DEF IsFunction
<1>2. Top' = Top
  BY DEF Top
<1>3. FramesNest'
  BY <1>1, <1>2 DEF LexicalInv, FramesNest
<1>4. \A f, S, G : AsWritten(f, S, G)' <=> AsWritten(f, S, G)
  BY MeaningKept
<1>5. ScopesAsWritten'
  BY <1>4 DEF LexicalInv, ScopesAsWritten, Given
<1> QED BY <1>3, <1>5

LEMMA CastNullTypeWrites ==
  ASSUME LexicalInv, NEW i \in Ids, CastNullType(i)
  PROVE  LexicalRest'
BY StayingWrites DEF CastNullType, LexicalRest, FoundOnTop

LEMMA LookUpWrites ==
  ASSUME LexicalInv, NEW n \in AllNames, LookUp(n)
  PROVE  LexicalRest'
<1>1. FramesNest' /\ ScopesAsWritten'
  BY StayingWrites DEF LookUp
<1>2. Top' = Top /\ Head1(n)' = Head1(n) /\ Top.phase = "statements"
  BY DEF LookUp, Top, Head1, Running
<1>3. \/ resolved' = Nothing
      \/ resolved' = [name |-> n, decl |-> Head1(n)]
  BY DEF LookUp
<1>4. FoundOnTop'
  <2>1. CASE resolved' = Nothing
    BY <2>1 DEF FoundOnTop
  <2>2. CASE resolved' = [name |-> n, decl |-> Head1(n)]
    <3>1. resolved'.name = n /\ resolved'.decl = Head1(n)
      BY <2>2
    <3>2. chain' = chain
      BY DEF LookUp
    <3>3. Head1(resolved.name)' = Head1(n)
      BY <3>1, <3>2 DEF Head1
    <3> QED BY <1>2, <3>1, <3>3 DEF FoundOnTop
  <2> QED BY <1>3, <2>1, <2>2
<1> QED BY <1>1, <1>4 DEF LexicalRest

\* A step of the innermost traversal that opens no scope.
LEMMA MovingWrites ==
  ASSUME LexicalInv, UNCHANGED <<prog, scopes, errors>>, resolved' = Nothing,
         NEW ph \in Phases, ph # "nested", NEW at \in 0 .. Len(prog),
         frames' = Moved(ph, at), Top.phase # "pop",
         ph = "visit" => ~IsFunction(Top.decl),
         ph # "pop" => DeclaredBy(FrameOf(Top.decl, ph, at)) = DeclaredBy(Top)
  PROVE  LexicalRest'
<1>1. FramesNest'
  BY MovedNests
<1>2. ScopesAsWritten'
  <2>1. errors' = {} /\ ph # "pop" =>
          AsWritten(FrameOf(Top.decl, ph, at), scopes[Len(frames)], Given(Len(frames)))
    BY TopWritten, SameWritten
  <2> QED BY <2>1, MovedWritten
<1> QED BY <1>1, <1>2 DEF LexicalRest, FoundOnTop

LEMMA EndDeclarationsWrites ==
  ASSUME LexicalInv, EndDeclarations
  PROVE  LexicalRest'
<1> DEFINE ph == IF IsFunction(Top.decl) THEN "statements" ELSE "visit"
<1>1. /\ UNCHANGED <<prog, scopes, errors>> /\ resolved' = Nothing
      /\ frames' = Moved(ph, Top.decl) /\ Top.phase = "declare" /\ NoneLeft
      /\ Top.decl \in 0 .. Len(prog)
  BY FrameFacts DEF EndDeclarations, Running, IsFunction, LexicalInv, LookupInv, ScopesInv
<1>2. /\ ph \in Phases /\ ph \notin {"nested", "pop", "declare"}
      /\ ph = "visit" => ~IsFunction(Top.decl)
  BY DEF Phases
<1> HIDE DEF ph
<1>3. DeclaredBy(FrameOf(Top.decl, ph, Top.decl)) = DeclaredBy(Top)
  BY <1>1, <1>2 DEF DeclaredBy, FrameOf, NoneLeft
<1> QED BY <1>1, <1>2, <1>3, MovingWrites

LEMMA VisitVarWrites ==
  ASSUME LexicalInv, NEW i \in Ids, VisitVar(i)
  PROVE  LexicalRest'
<1>1. /\ UNCHANGED <<prog, scopes, errors>> /\ resolved' = Nothing
      /\ frames' = Moved("visit", i) /\ Top.phase = "visit" /\ i \in 0 .. Len(prog)
  BY NextBelongs DEF VisitVar, Running, LexicalInv, LookupInv
<1>2. ~IsFunction(Top.decl)
  BY <1>1 DEF LexicalInv, FramesNest
<1>3. DeclaredBy(FrameOf(Top.decl, "visit", i)) = DeclaredBy(Top)
  BY <1>1 DEF DeclaredBy, FrameOf
<1> QED BY <1>1, <1>2, <1>3, MovingWrites DEF Phases

LEMMA EndVisitWrites ==
  ASSUME LexicalInv, EndVisit
  PROVE  LexicalRest'
<1> DEFINE ph == IF Top.decl = 0 THEN "statements" ELSE "pop"
<1>1. /\ UNCHANGED <<prog, scopes, errors>> /\ resolved' = Nothing
      /\ frames' = Moved(ph, Top.at) /\ Top.phase = "visit" /\ Top.at \in 0 .. Len(prog)
  BY FrameFacts DEF EndVisit, Running, LexicalInv, LookupInv, ScopesInv
<1>2. ph \in Phases /\ ph \notin {"nested", "visit", "declare"}
  BY DEF Phases
<1> HIDE DEF ph
<1>3. DeclaredBy(FrameOf(Top.decl, ph, Top.at)) = DeclaredBy(Top)
  BY <1>1, <1>2 DEF DeclaredBy, FrameOf
<1> QED BY <1>1, <1>2, <1>3, MovingWrites

LEMMA EndStatementsWrites ==
  ASSUME LexicalInv, EndStatements
  PROVE  LexicalRest'
<1>1. /\ UNCHANGED <<prog, scopes, errors>> /\ resolved' = Nothing
      /\ frames' = Moved("pop", Top.at) /\ Top.phase = "statements"
      /\ Top.at \in 0 .. Len(prog)
  BY FrameFacts DEF EndStatements, Running, LexicalInv, LookupInv, ScopesInv
<1> QED BY <1>1, MovingWrites DEF Phases

\* A step that opens the scope of declaration i, a class or a function.
LEMMA OpeningWrites ==
  ASSUME LexicalInv, prog' = prog, resolved' = Nothing, errors \subseteq errors',
         NEW i \in Ids, prog[i].up = Top.decl, Top.phase # "pop",
         NEW ph, ph = (IF IsFunction(Top.decl) THEN "declare" ELSE "visit"),
         NEW q \in {"declare", "visit"}, q = "visit" => ~IsFunction(i),
         frames' = Append(Moved(ph, i), Frame(i, q)),
         DeclaredBy(FrameOf(Top.decl, ph, i)) = DeclaredBy(Top),
         errors' = {} => q = "declare" /\ scopes' = Append(scopes, {})
  PROVE  LexicalRest'
<1> DEFINE N == Len(frames)
<1>1. /\ ScopesInv /\ TypeOK /\ N \in Nat \ {0} /\ Len(scopes) = N
      /\ scopes \in Seq(SUBSET Decls) /\ Top = frames[N] /\ i \in 0 .. Len(prog) /\ i # 0
      /\ ph \in {"declare", "visit"} /\ ph \in Phases
  BY FrameFacts, UpBefore
     DEF LexicalInv, LookupInv, ScopesInv, TypeOK, Top, Ids, Phases
<1>2. /\ Moved(ph, i) \in Seq(FrameSet) /\ Len(Moved(ph, i)) = N
      /\ Moved(ph, i)[N] = FrameOf(Top.decl, ph, i)
      /\ \A k \in 1 .. N : k # N => Moved(ph, i)[k] = frames[k]
  BY <1>1, MovedFrames
<1>3. Frame(i, q) = FrameOf(i, q, i) /\ Frame(i, q) \in FrameSet
  BY <1>1 DEF Frame, FrameOf, FrameSet, Phases
<1>4. /\ Len(frames') = N + 1 /\ frames'[N + 1] = FrameOf(i, q, i)
      /\ frames'[N] = FrameOf(Top.decl, ph, i)
      /\ \A k \in 1 .. N : k # N => frames'[k] = frames[k]
  <2>1. /\ Len(frames') = N + 1 /\ frames'[N + 1] = Frame(i, q)
        /\ \A k \in 1 .. N : frames'[k] = Moved(ph, i)[k]
    BY <1>2, <1>3, Appended
  <2> QED BY <1>1, <1>2, <1>3, <2>1
<1>5. Top' = FrameOf(i, q, i)
  BY <1>4 DEF Top
<1>6. \A p : IsFunction(p)' <=> IsFunction(p)
  BY MeaningKept DEF IsFunction
<1>7. ASSUME NEW k \in 1 .. N
      PROVE  /\ prog[frames'[k + 1].decl].up = frames'[k].decl
             /\ IF IsFunction(frames'[k].decl)
                THEN frames'[k].phase = "declare" /\ frames'[k].at = frames'[k + 1].decl
                ELSE frames'[k].phase = "visit"
  <2>1. CASE k = N
    <3>1. /\ frames'[k].decl = Top.decl /\ frames'[k].phase = ph /\ frames'[k].at = i
          /\ frames'[k + 1].decl = i
      BY <1>4, <2>1 DEF FrameOf
    <3> QED BY <3>1
  <2>2. CASE k # N
    <3>1. k \in 1 .. N - 1 /\ k + 1 \in 1 .. N
      BY <1>1, <2>2
    <3>2. frames'[k] = frames[k] /\ frames'[k + 1].decl = frames[k + 1].decl
      BY <1>1, <1>4, <2>2, <3>1 DEF FrameOf
    <3> QED BY <3>1, <3>2 DEF LexicalInv, FramesNest
  <2> QED BY <2>1, <2>2
<1>8. FramesNest'
  <2>1. Top'.phase = q /\ Top'.decl = i
    BY <1>5 DEF FrameOf
  <2>2. \A k \in 1 .. Len(frames') - 1 : k \in 1 .. N
    BY <1>1, <1>4
  <2> QED BY <1>6, <1>7, <2>1, <2>2 DEF FramesNest
<1>9. ScopesAsWritten'
  <2> SUFFICES ASSUME errors' = {}, NEW k \in 1 .. N + 1
               PROVE  AsWritten(frames'[k], scopes'[k], Given(k))
    <3>1. \A f, S, G : AsWritten(f, S, G)' <=> AsWritten(f, S, G)
      BY MeaningKept
    <3> QED BY <1>4, <3>1 DEF ScopesAsWritten, Given
  <2>1. /\ scopes'[N + 1] = {} /\ \A j \in 1 .. N : scopes'[j] = scopes[j]
        /\ q = "declare" /\ errors = {}
    <3>1. {} \in SUBSET Decls
      OBVIOUS
    <3> QED BY <1>1, <3>1, Appended
  <2>2. CASE k = N + 1
    <3>1. DeclaredBy(frames'[k]) = {}
      <4>1. frames'[k].decl = i /\ frames'[k].phase = "declare" /\ frames'[k].at = i
        BY <1>4, <2>1, <2>2 DEF FrameOf
      <4>2. \A c \in Ids : prog[c].up = i => ~(c <= i)
        BY <1>1, UpBefore
      <4> QED BY <4>1, <4>2 DEF DeclaredBy
    <3>2. Given(k) = {} /\ scopes'[k] = {}
      BY <1>1, <2>1, <2>2 DEF Given
    <3> QED BY <3>1, <3>2 DEF AsWritten
  <2>3. CASE k = N
    <3>1. AsWritten(Top, scopes[N], Given(N))
      BY <2>1, TopWritten
    <3> QED BY <1>1, <1>4, <2>1, <2>3, <3>1, SameWritten
  <2>4. CASE k # N /\ k # N + 1
    <3>1. k \in 1 .. N /\ k # N
      BY <1>1, <2>4
    <3>2. frames[k].phase # "pop"
      BY <3>1, WaitingDeclared
    <3> QED BY <1>4, <2>1, <3>1, <3>2 DEF LexicalInv, ScopesAsWritten
  <2> QED BY <2>2, <2>3, <2>4
<1> QED BY <1>8, <1>9 DEF LexicalRest, FoundOnTop

\* A function that was declared is registered, without errors.
LEMMA OpenFunctionWrites ==
  ASSUME LexicalInv, NEW i \in Ids, Kind(i) = "func", prog[i].up = Top.decl,
         NEW ph, ph = (IF IsFunction(Top.decl) THEN "declare" ELSE "visit"),
         Top.phase # "pop", i \in DeclaredBy(Top), OpenFunction(i, ph),
         DeclaredBy(FrameOf(Top.decl, ph, i)) = DeclaredBy(Top)
  PROVE  LexicalRest'
<1>1. /\ prog' = prog /\ resolved' = Nothing /\ errors' = errors
      /\ frames' = Append(Moved(ph, i), Frame(i, "declare"))
  BY DEF OpenFunction
<1>2. ASSUME errors = {} PROVE scopes' = Append(scopes, {})
  <2>1. Denoted(i) = i
    BY KindAndName DEF LexicalInv, LookupInv
  <2>2. i \in CurScope
    BY <1>2, <2>1, TopWritten DEF AsWritten
  <2> QED BY <2>2 DEF OpenFunction
<1> QED BY <1>1, <1>2, OpeningWrites

LEMMA VisitFunctionWrites ==
  ASSUME LexicalInv, NEW i \in Ids, VisitFunction(i)
  PROVE  LexicalRest'
<1>1. /\ Kind(i) = "func" /\ prog[i].up = Top.decl /\ Top.phase = "visit"
      /\ OpenFunction(i, "visit")
  BY NextBelongs DEF VisitFunction, Running, LexicalInv, LookupInv
<1>2. ~IsFunction(Top.decl)
  BY <1>1 DEF LexicalInv, FramesNest
<1>3. /\ DeclaredBy(FrameOf(Top.decl, "visit", i)) = DeclaredBy(Top)
      /\ i \in DeclaredBy(Top)
  BY <1>1 DEF DeclaredBy, FrameOf
<1> QED BY <1>1, <1>2, <1>3, OpenFunctionWrites

LEMMA VisitNestedWrites ==
  ASSUME LexicalInv, VisitNested
  PROVE  LexicalRest'
<1>1. /\ Top.phase = "nested" /\ OpenFunction(Top.at, "declare") /\ Top.at \in Ids
      /\ Top.at \in Nat
  BY FrameFacts, UpBefore DEF VisitNested, Running, LexicalInv, LookupInv, ScopesInv
<1>2. IsFunction(Top.decl) /\ Kind(Top.at) = "func" /\ prog[Top.at].up = Top.decl
  BY <1>1 DEF LexicalInv, FramesNest, IsFunction
<1>3. /\ DeclaredBy(FrameOf(Top.decl, "declare", Top.at)) = DeclaredBy(Top)
      /\ Top.at \in DeclaredBy(Top)
  BY <1>1, <1>2 DEF DeclaredBy, FrameOf
<1> QED BY <1>1, <1>2, <1>3, OpenFunctionWrites

LEMMA VisitClassWrites ==
  ASSUME LexicalInv, NEW i \in Ids, VisitClass(i)
  PROVE  LexicalRest'
<1> DEFINE q == IF SuperError(i) = "none" THEN "declare" ELSE "visit"
<1>1. /\ Kind(i) = "class" /\ prog[i].up = Top.decl /\ Top.phase = "visit"
      /\ prog' = prog /\ resolved' = Nothing
      /\ frames' = Append(Moved("visit", i), Frame(i, q)) /\ scopes' = Append(scopes, {})
  BY NextBelongs DEF VisitClass, Running, LexicalInv, LookupInv
<1>2. errors \subseteq errors' /\ (errors' = {} => q = "declare")
  BY DEF VisitClass, Report
<1>3. q \in {"declare", "visit"} /\ ~IsFunction(i)
  BY <1>1 DEF IsFunction
<1> HIDE DEF q
<1>4. ~IsFunction(Top.decl)
  BY <1>1 DEF LexicalInv, FramesNest
<1>5. DeclaredBy(FrameOf(Top.decl, "visit", i)) = DeclaredBy(Top)
  BY <1>1 DEF DeclaredBy, FrameOf
<1> QED BY <1>1, <1>2, <1>3, <1>4, <1>5, OpeningWrites

\* Popping changes only the scope that is left.
LEMMA PopDeclWrites ==
  ASSUME LexicalInv, NEW d \in Decls, PopDecl(d)
  PROVE  LexicalRest'
<1>1. /\ UNCHANGED <<prog, frames, errors, resolved>> /\ Top.phase = "pop"
      /\ scopes' = [scopes EXCEPT ![Len(scopes)] = CurScope \ {d}]
  BY DEF PopDecl, Running, CurScope
<1>2. /\ scopes \in Seq(SUBSET Decls) /\ Len(scopes) = Len(frames)
      /\ Len(scopes) \in 1 .. Len(scopes) /\ CurScope \ {d} \in SUBSET Decls
      /\ Top = frames[Len(frames)]
  BY FrameFacts DEF LexicalInv, LookupInv, ScopesInv, TypeOK, Top
<1>3. \A k \in 1 .. Len(frames) : frames[k].phase # "pop" => scopes'[k] = scopes[k]
  BY <1>1, <1>2, Replaced
<1>4. Top' = Top /\ \A p : IsFunction(p)' <=> IsFunction(p)
  BY <1>1, MeaningKept DEF Top, IsFunction
<1>5. FramesNest'
  BY <1>1, <1>4 DEF LexicalInv, FramesNest
<1>6. ScopesAsWritten'
  <2>1. \A f, S, G : AsWritten(f, S, G)' <=> AsWritten(f, S, G)
    BY <1>1, MeaningKept
  <2> QED BY <1>1, <1>3, <2>1 DEF LexicalInv, ScopesAsWritten, Given
<1>7. FoundOnTop'
  BY <1>1, <1>4 DEF LexicalInv, FoundOnTop
<1> QED BY <1>5, <1>6, <1>7 DEF LexicalRest

\* The traversal around the one that is left goes on where it waited.
LEMMA LeaveScopeWrites ==
  ASSUME LexicalInv, LeaveScope
  PROVE  LexicalRest'
<1>1. /\ UNCHANGED <<prog, errors, resolved>> /\ Top.phase = "pop"
  BY DEF LeaveScope, Running
<1>2. resolved' = Nothing
  BY <1>1 DEF LexicalInv, FoundOnTop
<1>3. FoundOnTop'
  BY <1>2 DEF FoundOnTop
<1>4. CASE Len(scopes) = 1
  BY <1>1, <1>3, <1>4, StayingWrites DEF LeaveScope, LexicalRest
<1>5. CASE Len(scopes) # 1
  <2>1. /\ ScopesInv /\ scopes \in Seq(SUBSET Decls) /\ frames \in Seq(FrameSet)
        /\ Len(scopes) \in Nat \ {0, 1} /\ Len(scopes) = Len(frames)
        /\ scopes # <<>> /\ frames # <<>>
    BY <1>5, ChainFacts, FrameFacts
       DEF LexicalInv, LookupInv, ScopesInv, TypeOK, FramesOK, FrameSet
  <2> DEFINE N == Len(frames) - 1
  <2>2. /\ Len(frames') = N
        /\ \A k \in 1 .. N : scopes'[k] = scopes[k] /\ frames'[k] = frames[k]
        /\ N \in Nat \ {0}
    BY <1>5, <2>1, Shortened DEF LeaveScope
  <2>3. Top' = frames[N]
    BY <2>1, <2>2 DEF Top
  <2>4. \A k \in 1 .. N : k \in 1 .. Len(frames) /\ k # Len(frames)
    BY <2>1
  <2>5. \A p : IsFunction(p)' <=> IsFunction(p)
    BY <1>1, MeaningKept DEF IsFunction
  <2>6. FramesNest'
    <3>1. /\ N \in 1 .. Len(frames) - 1 /\ N \in 1 .. N
          /\ \A k \in 1 .. N - 1 : k \in 1 .. Len(frames) - 1 /\ k \in 1 .. N /\ k + 1 \in 1 .. N
      BY <2>1, <2>2
    <3>2. IF IsFunction(frames[N].decl)
          THEN frames[N].phase = "declare" ELSE frames[N].phase = "visit"
      BY <3>1 DEF LexicalInv, FramesNest
    <3> HIDE DEF N
    <3>3. ASSUME NEW k \in 1 .. N - 1
          PROVE  /\ prog[frames'[k + 1].decl].up = frames'[k].decl
                 /\ IF IsFunction(frames'[k].decl)
                    THEN frames'[k].phase = "declare" /\ frames'[k].at = frames'[k + 1].decl
                    ELSE frames'[k].phase = "visit"
      <4>1. frames'[k] = frames[k] /\ frames'[k + 1] = frames[k + 1]
        BY <2>2, <3>1
      <4> QED BY <3>1, <4>1 DEF LexicalInv, FramesNest
    <3> QED BY <1>1, <2>2, <2>3, <2>5, <3>2, <3>3 DEF FramesNest
  <2>7. ScopesAsWritten'
    <3>1. \A f, S, G : AsWritten(f, S, G)' <=> AsWritten(f, S, G)
      BY <1>1, MeaningKept
    <3> HIDE DEF N
    <3> QED BY <1>1, <2>2, <2>4, <3>1 DEF LexicalInv, ScopesAsWritten, Given
  <2> QED BY <1>3, <2>6, <2>7 DEF LexicalRest
<1> QED BY <1>4, <1>5

LEMMA LexicalStep == LexicalInv /\ [Next]_vars => LexicalInv'
<1> SUFFICES ASSUME LexicalInv, [Next]_vars PROVE LexicalInv'
  OBVIOUS
<1>1. LookupInv'
  BY StepFinds DEF LexicalInv
<1> SUFFICES LexicalRest'
  BY <1>1 DEF LexicalInv, LexicalRest
<1>2. CASE \E i \in Ids : \/ DeclareTwice(i) \/ Declare(i) \/ DeclareNonlocal(i)
                          \/ DeclareGlobal(i) \/ CastNullType(i)
                          \/ VisitVar(i) \/ VisitFunction(i) \/ VisitClass(i)
  BY <1>2, DeclareTwiceWrites, DeclareWrites, DeclareNonlocalWrites, DeclareGlobalWrites,
     CastNullTypeWrites, VisitVarWrites, VisitFunctionWrites, VisitClassWrites
<1>3. CASE EndDeclarations
  BY <1>3, EndDeclarationsWrites
<1>4. CASE VisitNested
  BY <1>4, VisitNestedWrites
<1>5. CASE EndVisit
  BY <1>5, EndVisitWrites
<1>6. CASE EndStatements
  BY <1>6, EndStatementsWrites
<1>7. CASE \E d \in Decls : PopDecl(d)
  BY <1>7, PopDeclWrites
<1>8. CASE LeaveScope
  BY <1>8, LeaveScopeWrites
<1>9. CASE \E n \in AllNames : LookUp(n)
  BY <1>9, LookUpWrites
<1>10. CASE UNCHANGED vars
  <2>1. FramesNest' /\ ScopesAsWritten'
    BY <1>10, StayingWrites DEF vars
  <2>2. FoundOnTop'
    BY <1>10 DEF vars, LexicalInv, FoundOnTop, Top, Head1
  <2> QED BY <2>1, <2>2 DEF LexicalRest
<1> QED BY <1>2, <1>3, <1>4, <1>5, <1>6, <1>7, <1>8, <1>9, <1>10 DEF Next, Progress

LEMMA LexicalInit == Init => LexicalInv
<1> SUFFICES ASSUME Init PROVE LexicalInv
  OBVIOUS
<1>1. LookupInv /\ ScopesInv
  BY InitFinds DEF LookupInv
<1>2. /\ frames = <<FrameOf(0, "declare", 0)>> /\ scopes = <<Predefined>>
      /\ resolved = Nothing
  BY DEF Init, Frame, FrameOf
<1>3. Len(frames) = 1 /\ frames[1] = FrameOf(0, "declare", 0) /\ scopes[1] = Predefined
      /\ Top = FrameOf(0, "declare", 0)
  BY <1>2 DEF Top
<1>4. FramesNest
  BY <1>3 DEF FramesNest, FrameOf
<1>5. DeclaredBy(frames[1]) = {}
  <2>1. \A c \in Ids : ~(c <= 0)
    BY <1>1, UpBefore DEF Ids
  <2> QED BY <1>3, <2>1 DEF DeclaredBy, FrameOf
<1>6. AsWritten(frames[1], scopes[1], Given(1))
  BY <1>3, <1>5 DEF AsWritten, Given
<1>7. ScopesAsWritten
  BY <1>3, <1>6 DEF ScopesAsWritten
<1> QED BY <1>1, <1>2, <1>4, <1>7 DEF LexicalInv, FoundOnTop

\* In a program without errors a name in a statement (lookupDecl, actOnDeclRef) is
\* the declaration that lexical scoping gives it, whatever is nested where, and
\* whatever scopes were opened and popped before.
THEOREM LookupIsLexical == Spec => []ResolvesLexically
<1>1. LexicalInv => ResolvesLexically
  BY HeadMeans DEF LexicalInv, FoundOnTop, ResolvesLexically
<1>2. Spec => []LexicalInv
  BY LexicalInit, LexicalStep, PTL DEF Spec
<1> QED BY <1>1, <1>2, PTL
=============================================================================
