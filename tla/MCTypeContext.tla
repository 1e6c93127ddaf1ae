--------------------------- MODULE MCTypeContext ---------------------------
(* Two classes of the program beside the predefined ones, and room for    *)
(* four types more, such as lists of lists, of None or of a class.         *)
EXTENDS TypeContext

MCClassNames == {"A", "B"}
=============================================================================
