---------------------------- MODULE MCSemaScopes ----------------------------
(***************************************************************************)
(* All programs of up to three declarations over two names, and those of   *)
(* four in which one declaration is nested in a function or method.        *)
(***************************************************************************)
EXTENDS SemaScopes

MCNames == {"a", "b"}

Item(k, n, s, u) == [kind |-> k, name |-> n, super |-> s, up |-> u]

\* The bodies a declaration that follows those of p can belong to: the classes
\* and functions that contain everything after them.
OpenBodies(p) ==
  {0} \cup {u \in 1 .. Len(p) : /\ p[u].kind \in {"class", "func"}
                                /\ \A j \in u + 1 .. Len(p) : p[j].up >= u}

KindsIn(p, u) ==
  IF u = 0 THEN {"var", "func", "class"}
  ELSE IF p[u].kind = "class" THEN {"var", "func"}
  ELSE {"var", "func", "global", "nonlocal"} \cup
       (IF \A i \in 1 .. Len(p) : p[i].up = u => p[i].kind = "param"
        THEN {"param"} ELSE {})

\* The first name is "a": the names are interchangeable.
ItemsAfter(p) ==
  LET names == IF p = <<>> THEN {"a"} ELSE MCNames
      supers(k) == IF k = "class" THEN MCNames \cup {"object", "int"} ELSE {"object"}
  IN  UNION {UNION {{Item(k, n, s, u) : n \in names, s \in supers(k)} :
                      k \in KindsIn(p, u)} : u \in OpenBodies(p)}

Nested(p) == \E i \in 1 .. Len(p) : p[i].up # 0 /\ p[p[i].up].up # 0

Longer(P) == UNION {{Append(p, d) : d \in ItemsAfter(p)} : p \in P}
One   == Longer({<<>>})
Two   == Longer(One)
Three == Longer(Two)
Four  == UNION {{q \in {Append(p, d) : d \in ItemsAfter(p)} : Nested(q)} : p \in Three}

MCPrograms == One \cup Two \cup Three \cup Four
=============================================================================
