------------------------ MODULE MCIdentifierResolver ------------------------
(* Three symbols, one of them with two declarations, and pools of two      *)
(* lists: the second pool is needed.                                       *)
EXTENDS IdentifierResolver

MCDecls    == {"x1", "x2", "y1", "z1"}
MCSymbols  == {"x", "y", "z"}
MCSymbolOf == [d \in MCDecls |-> CASE d \in {"x1", "x2"} -> "x"
                                      [] d = "y1" -> "y"
                                      [] d = "z1" -> "z"]
=============================================================================
