------------------------------ MODULE Counting ------------------------------
(***************************************************************************)
(* How often an element occurs in a sequence, and where first: facts the   *)
(* proofs about loops, stacks of calls and declarations rest on.           *)
(***************************************************************************)
EXTENDS Integers, SequenceTheorems, FunctionTheorems, FiniteSetTheorems,
        WellFoundedInduction, TLAPS

\* A non-empty set of naturals has a least element.
LEMMA LeastNat ==
  ASSUME NEW T \in SUBSET Nat, T # {}
  PROVE  \E x \in T : \A y \in T : x <= y
<1> DEFINE R == {ss \in Nat \X Nat : ss[1] < ss[2]}
<1>1. IsWellFoundedOn(R, Nat)
  BY NatLessThanWellFounded DEF OpToRel
<1>2. PICK x \in T : \A y \in T : <<y, x>> \notin R
  <2> HIDE DEF R
  <2> QED BY <1>1, WFMin
<1>3. ASSUME NEW y \in T, y < x PROVE FALSE
  BY <1>2, <1>3
<1> QED BY <1>3

Places(q, x) == {i \in 1 .. Len(q) : q[i] = x}
Times(q, x) == Cardinality(Places(q, x))

\* A sequence has finitely many places.
LEMMA TimesType ==
  ASSUME NEW S, NEW q \in Seq(S), NEW x
  PROVE  IsFiniteSet(Places(q, x)) /\ Times(q, x) \in Nat
<1>1. IsFiniteSet(1 .. Len(q)) /\ Places(q, x) \in SUBSET (1 .. Len(q))
  BY FS_Interval DEF Places
<1>2. IsFiniteSet(Places(q, x))
  BY <1>1, FS_Subset
<1> QED BY <1>2, FS_CardinalityType DEF Times

\* What occurs in a concatenation occurs in its parts.
LEMMA TimesConcat ==
  ASSUME NEW S, NEW s \in Seq(S), NEW t \in Seq(S), NEW x
  PROVE  Times(s \o t, x) = Times(s, x) + Times(t, x)
<1> DEFINE n == Len(s)
           Shifted == {i \in n + 1 .. n + Len(t) : t[i - n] = x}
           f == [i \in Places(t, x) |-> i + n]
<1>1. /\ n \in Nat /\ Len(t) \in Nat /\ Len(s \o t) = n + Len(t)
      /\ \A i \in 1 .. n : (s \o t)[i] = s[i]
      /\ \A i \in n + 1 .. n + Len(t) : (s \o t)[i] = t[i - n]
  OBVIOUS
<1>2. Places(s \o t, x) = Places(s, x) \cup Shifted
  BY <1>1 DEF Places
<1>3. Places(s, x) \cap Shifted = {}
  BY <1>1 DEF Places
<1>4. f \in Bijection(Places(t, x), Shifted)
  <2>1. \A i \in Places(t, x) : i \in Int /\ i + n \in Shifted
    BY <1>1 DEF Places
  <2>2. f \in [Places(t, x) -> Shifted]
    BY <2>1
  <2>3. \A i, j \in Places(t, x) : f[i] = f[j] => i = j
    BY <1>1, <2>1
  <2>4. \A k \in Shifted : k - n \in Places(t, x) /\ f[k - n] = k
    BY <1>1 DEF Places
  <2>5. \A k \in Shifted : \E i \in Places(t, x) : f[i] = k
    BY <2>4
  <2> QED BY <2>2, <2>3, <2>5, Fun_IsBij
<1>5. IsFiniteSet(Places(s, x)) /\ IsFiniteSet(Places(t, x))
  BY TimesType
<1>6. IsFiniteSet(Shifted) /\ Cardinality(Shifted) = Cardinality(Places(t, x))
  <2>1. ExistsBijection(Places(t, x), Shifted)
    BY <1>4, Fun_ExistsBij
  <2> QED BY <1>5, <2>1, FS_Bijection
<1>7. /\ Cardinality(Places(s, x)) \in Nat /\ Cardinality(Shifted) \in Nat
      /\ Cardinality({}) = 0
  BY <1>5, <1>6, FS_CardinalityType, FS_EmptySet
<1> HIDE DEF Shifted
<1>8. Cardinality(Places(s, x) \cup Shifted) =
        Cardinality(Places(s, x)) + Cardinality(Shifted)
          - Cardinality(Places(s, x) \cap Shifted)
  BY <1>5, <1>6, FS_Union
<1>9. Cardinality(Places(s, x) \cap Shifted) = 0
  BY ONLY <1>3, FS_EmptySet, Zenon
<1>10. Cardinality(Places(s, x) \cup Shifted) =
         Cardinality(Places(s, x)) + Cardinality(Places(t, x))
  BY <1>6, <1>7, <1>8, <1>9
<1> QED BY <1>2, <1>10 DEF Times

LEMMA TimesSingle ==
  ASSUME NEW e, NEW x
  PROVE  Times(<<e>>, x) = IF e = x THEN 1 ELSE 0
<1>1. Places(<<e>>, x) = IF e = x THEN {1} ELSE {}
  BY DEF Places
<1> QED BY <1>1, FS_Singleton, FS_EmptySet DEF Times

LEMMA TimesEmpty ==
  ASSUME NEW x
  PROVE  Times(<<>>, x) = 0
<1>1. Places(<<>>, x) = {}
  BY DEF Places
<1> QED BY <1>1, FS_EmptySet DEF Times

\* At the end.
LEMMA TimesAppend ==
  ASSUME NEW S, NEW q \in Seq(S), NEW e \in S, NEW x
  PROVE  /\ Append(q, e) \in Seq(S)
         /\ Times(Append(q, e), x) = Times(q, x) + (IF e = x THEN 1 ELSE 0)
<1> DEFINE w == <<e>>
<1>1. w \in Seq(S) /\ Append(q, e) = q \o w /\ Append(q, e) \in Seq(S)
  OBVIOUS
<1>2. Times(w, x) = IF e = x THEN 1 ELSE 0
  BY TimesSingle
<1> HIDE DEF w
<1>3. Times(q \o w, x) = Times(q, x) + Times(w, x)
  BY <1>1, TimesConcat
<1> QED BY <1>1, <1>2, <1>3

\* In the middle.
LEMMA TimesRemove ==
  ASSUME NEW S, NEW q \in Seq(S), NEW i \in 1 .. Len(q), NEW x
  PROVE  /\ SubSeq(q, 1, i - 1) \o SubSeq(q, i + 1, Len(q)) \in Seq(S)
         /\ Times(q, x) = Times(SubSeq(q, 1, i - 1) \o SubSeq(q, i + 1, Len(q)), x)
                            + (IF q[i] = x THEN 1 ELSE 0)
<1> DEFINE s == SubSeq(q, 1, i - 1)
           t == SubSeq(q, i + 1, Len(q))
           w == <<q[i]>>
           u == w \o t
<1>1. /\ s \in Seq(S) /\ Len(s) = i - 1 /\ t \in Seq(S) /\ Len(t) = Len(q) - i
      /\ q[i] \in S /\ Len(q) \in Nat /\ i \in Nat
      /\ \A j \in 1 .. i - 1 : s[j] = q[j]
      /\ \A j \in 1 .. Len(q) - i : t[j] = q[i + j]
  OBVIOUS
<1>2. w \in Seq(S) /\ Len(w) = 1 /\ w[1] = q[i]
  BY <1>1
<1>3. Times(w, x) = IF q[i] = x THEN 1 ELSE 0
  BY TimesSingle
<1> HIDE DEF s, t, w
<1>4. /\ u \in Seq(S) /\ Len(u) = 1 + Len(t) /\ u[1] = q[i]
      /\ \A j \in 2 .. 1 + Len(t) : u[j] = t[j - 1]
  <2>1. w \in Seq(S) /\ t \in Seq(S)
    BY <1>1, <1>2
  <2>2. /\ u \in Seq(S) /\ Len(u) = Len(w) + Len(t)
        /\ \A j \in 1 .. Len(w) + Len(t) :
             u[j] = IF j <= Len(w) THEN w[j] ELSE t[j - Len(w)]
    BY ONLY <2>1, ConcatProperties, Zenon
  <2> HIDE DEF u
  <2> QED BY <1>1, <1>2, <2>2
<1>5. Times(u, x) = Times(w, x) + Times(t, x)
  BY <1>1, <1>2, TimesConcat
<1> HIDE DEF u
<1>6. \A j \in 2 .. 1 + Len(t) : u[j] = q[i + j - 1]
  <2> TAKE j \in 2 .. 1 + Len(t)
  <2>1. j - 1 \in 1 .. Len(q) - i /\ i + (j - 1) = i + j - 1
    BY <1>1
  <2>2. u[j] = t[j - 1]
    BY <1>4
  <2> QED BY <1>1, <2>1, <2>2
<1> DEFINE r == s \o u
<1>7. /\ r \in Seq(S) /\ Len(r) = Len(q)
      /\ \A j \in 1 .. Len(q) : r[j] = IF j <= i - 1 THEN s[j] ELSE u[j - (i - 1)]
  <2>1. s \in Seq(S) /\ u \in Seq(S)
    BY <1>1, <1>4
  <2>2. /\ r \in Seq(S) /\ Len(r) = Len(s) + Len(u)
        /\ \A j \in 1 .. Len(s) + Len(u) :
             r[j] = IF j <= Len(s) THEN s[j] ELSE u[j - Len(s)]
    BY ONLY <2>1, ConcatProperties, Zenon
  <2> HIDE DEF r
  <2> QED BY <1>1, <1>4, <2>2
<1>8. Times(r, x) = Times(s, x) + Times(u, x)
  BY <1>1, <1>4, TimesConcat
<1> HIDE DEF r
<1>9. \A j \in 1 .. Len(q) : r[j] = q[j]
  <2> TAKE j \in 1 .. Len(q)
  <2>1. CASE j < i
    BY <1>1, <1>7, <2>1
  <2>2. CASE j = i
    BY <1>1, <1>4, <1>7, <2>2
  <2>3. CASE j > i
    <3>1. j - (i - 1) \in 2 .. 1 + Len(t) /\ i + (j - (i - 1)) - 1 = j
      BY <1>1, <2>3
    <3>2. r[j] = u[j - (i - 1)]
      BY <1>1, <1>7, <2>3
    <3> QED BY <1>6, <3>1, <3>2
  <2>4. i \in Int /\ j \in Int
    BY <1>1
  <2> QED BY <2>1, <2>2, <2>3, <2>4
<1>10. r = q
  BY <1>7, <1>9
<1>11. s \o t \in Seq(S) /\ Times(s \o t, x) = Times(s, x) + Times(t, x)
  BY <1>1, TimesConcat
<1>12. Times(s, x) \in Nat /\ Times(t, x) \in Nat
  BY <1>1, TimesType
<1>13. Times(q, x) = Times(s \o t, x) + (IF q[i] = x THEN 1 ELSE 0)
  <2>1. Times(q, x) = Times(s, x) + (Times(w, x) + Times(t, x))
    BY <1>5, <1>8, <1>10
  <2>2. Times(w, x) \in Nat /\ Times(s \o t, x) = Times(s, x) + Times(t, x)
    BY <1>3, <1>11
  <2> QED BY <1>3, <1>12, <2>1, <2>2
<1> QED BY <1>11, <1>13 DEF s, t

\* At the beginning.
LEMMA TimesTail ==
  ASSUME NEW S, NEW q \in Seq(S), q # <<>>, NEW x
  PROVE  /\ Tail(q) \in Seq(S)
         /\ Times(q, x) = Times(Tail(q), x) + (IF q[1] = x THEN 1 ELSE 0)
<1> DEFINE w == <<q[1]>>
           t == Tail(q)
           r == w \o t
<1>1. t \in Seq(S) /\ w \in Seq(S) /\ r = q /\ q[1] \in S
  OBVIOUS
<1>2. Times(w, x) = IF q[1] = x THEN 1 ELSE 0
  BY TimesSingle
<1> HIDE DEF w, t
<1>3. Times(r, x) = Times(w, x) + Times(t, x)
  BY <1>1, TimesConcat
<1>4. Times(t, x) \in Nat
  BY <1>1, TimesType
<1> HIDE DEF r
<1>5. Times(q, x) = Times(t, x) + Times(w, x)
  <2>1. Times(w, x) \in Nat
    BY <1>2
  <2> QED BY <1>1, <1>3, <1>4, <2>1 DEF r
<1> QED BY <1>1, <1>2, <1>5 DEF t

\* Without its last element a sequence is what it was.
LEMMA Shortened ==
  ASSUME NEW S, NEW q \in Seq(S), q # <<>>
  PROVE  /\ SubSeq(q, 1, Len(q) - 1) \in Seq(S)
         /\ Len(SubSeq(q, 1, Len(q) - 1)) = Len(q) - 1
         /\ \A k \in 1 .. Len(q) - 1 : SubSeq(q, 1, Len(q) - 1)[k] = q[k]
<1>1. Len(q) \in Nat /\ Len(q) > 0 /\ \A k \in 1 .. Len(q) : q[k] \in S
  OBVIOUS
<1> DEFINE n == Len(q) - 1
           r == SubSeq(q, 1, n)
<1>2. n \in Nat /\ 1 \in Int /\ n \in Int /\ \A k \in 1 .. n : q[k] \in S
  BY <1>1
<1> HIDE DEF n
<1>3. /\ r \in Seq(S)
      /\ Len(r) = IF 1 <= n THEN n - 1 + 1 ELSE 0
      /\ \A k \in 1 .. n - 1 + 1 : r[k] = q[1 + k - 1]
  BY <1>2, SubSeqProperties, SMTT(30)
<1> HIDE DEF r
<1>5. r \in Seq(S) /\ Len(r) = n /\ \A k \in 1 .. n : r[k] = q[k]
  BY <1>2, <1>3
<1> QED BY <1>5 DEF r, n

\* Replacing an element changes no other.
LEMMA Replaced ==
  ASSUME NEW S, NEW q \in Seq(S), NEW n \in 1 .. Len(q), NEW e \in S
  PROVE  LET r == [q EXCEPT ![n] = e] IN
         /\ r \in Seq(S) /\ Len(r) = Len(q) /\ r[n] = e
         /\ \A k \in 1 .. Len(q) : k # n => r[k] = q[k]
OBVIOUS

\* Nor does appending one.
LEMMA Appended ==
  ASSUME NEW S, NEW q \in Seq(S), NEW e \in S
  PROVE  LET r == Append(q, e) IN
         /\ r \in Seq(S) /\ Len(r) = Len(q) + 1 /\ r[Len(q) + 1] = e
         /\ \A k \in 1 .. Len(q) : r[k] = q[k]
OBVIOUS

\* Taking one element out of a sequence.
LEMMA TakenOut ==
  ASSUME NEW X, NEW q \in Seq(X), NEW i \in 1 .. Len(q)
  PROVE  LET p == SubSeq(q, 1, i - 1) \o SubSeq(q, i + 1, Len(q)) IN
         /\ p \in Seq(X) /\ Len(p) = Len(q) - 1
         /\ \A j \in 1 .. Len(p) : p[j] = IF j < i THEN q[j] ELSE q[j + 1]
<1> DEFINE s == SubSeq(q, 1, i - 1)
           t == SubSeq(q, i + 1, Len(q))
           p == s \o t
<1>1. /\ s \in Seq(X) /\ Len(s) = i - 1 /\ t \in Seq(X) /\ Len(t) = Len(q) - i
      /\ \A j \in 1 .. i - 1 : s[j] = q[j]
      /\ \A j \in 1 .. Len(q) - i : t[j] = q[i + j]
  OBVIOUS
<1>2. p = s \o t
  OBVIOUS
<1> HIDE DEF s, t, p
<1>3. /\ p \in Seq(X) /\ Len(p) = Len(s) + Len(t)
      /\ \A j \in 1 .. Len(s) + Len(t) : p[j] = IF j <= Len(s) THEN s[j] ELSE t[j - Len(s)]
  <2>1. s \in Seq(X) /\ t \in Seq(X)
    BY <1>1
  <2> QED BY ONLY <1>2, <2>1, ConcatProperties, Zenon
<1>4. i \in Nat /\ Len(q) \in Nat /\ i >= 1 /\ i <= Len(q)
  OBVIOUS
<1>5. Len(p) = Len(q) - 1 /\ Len(s) + Len(t) = Len(q) - 1
  BY ONLY <1>1, <1>3, <1>4
<1>6. ASSUME NEW j \in 1 .. Len(p)
      PROVE  p[j] = IF j < i THEN q[j] ELSE q[j + 1]
  <2>1. j \in Nat /\ j \in 1 .. Len(q) - 1 /\ j \in 1 .. Len(s) + Len(t)
    BY ONLY <1>4, <1>6, <1>5
  <2>2. CASE j < i
    <3>1. j \in 1 .. i - 1 /\ j <= Len(s)
      BY <1>1, <1>4, <2>1, <2>2
    <3> QED BY <1>1, <1>3, <2>1, <2>2, <3>1
  <2>3. CASE ~(j < i)
    <3>1. j - (i - 1) \in 1 .. Len(q) - i /\ i + (j - (i - 1)) = j + 1
      BY ONLY <1>4, <2>1, <2>3
    <3>2. ~(j <= Len(s)) /\ j - Len(s) = j - (i - 1)
      BY ONLY <1>1, <1>4, <2>1, <2>3
    <3>3. p[j] = t[j - (i - 1)]
      BY <1>3, <2>1, <3>2
    <3> QED BY <1>1, <2>3, <3>1, <3>3
  <2> QED BY <2>2, <2>3
<1>7. /\ p \in Seq(X) /\ Len(p) = Len(q) - 1
      /\ \A j \in 1 .. Len(p) : p[j] = IF j < i THEN q[j] ELSE q[j + 1]
  BY <1>3, <1>6, <1>5
<1> QED BY ONLY <1>7 DEF s, t, p
=============================================================================
