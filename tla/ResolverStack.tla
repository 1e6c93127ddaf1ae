--------------------------- MODULE ResolverStack ---------------------------
(***************************************************************************)
(* What Sema expects of the identifier resolver: for every symbol a stack  *)
(* of declarations.  addDecl pushes, removeDecl takes out the topmost      *)
(* entry of a declaration that is there, and an iterator from begin        *)
(* visits the declarations of one symbol from the top down.                *)
(***************************************************************************)
EXTENDS Naturals, Sequences

CONSTANTS Decls, Symbols, SymbolOf

VARIABLES
  chain,    \* the declarations of every symbol, the innermost last
  left      \* what an iterator has still to visit, the next one last

vars == <<chain, left>>

Init == chain = [s \in Symbols |-> <<>>] /\ left = <<>>

\* The sequence without its element at position i.
Without(q, i) == [j \in 1 .. Len(q) - 1 |-> IF j < i THEN q[j] ELSE q[j + 1]]

Topmost(q, d, i) ==
  /\ i \in 1 .. Len(q) /\ q[i] = d
  /\ \A j \in i + 1 .. Len(q) : q[j] # d

Add(d) ==
  /\ chain' = [chain EXCEPT ![SymbolOf[d]] = Append(@, d)]
  /\ left' = <<>>

Remove(d) ==
  /\ \E i \in 1 .. Len(chain[SymbolOf[d]]) :
       /\ Topmost(chain[SymbolOf[d]], d, i)
       /\ chain' = [chain EXCEPT ![SymbolOf[d]] = Without(@, i)]
  /\ left' = <<>>

Begin(s) == left' = chain[s] /\ UNCHANGED chain

Advance ==
  /\ left # <<>>
  /\ left' = SubSeq(left, 1, Len(left) - 1)
  /\ UNCHANGED chain

Next ==
  \/ \E d \in Decls : Add(d) \/ Remove(d)
  \/ \E s \in Symbols : Begin(s)
  \/ Advance

Spec == Init /\ [][Next]_vars
=============================================================================
