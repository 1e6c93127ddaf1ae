------------------------------ MODULE MCLexer ------------------------------
(* Instances of the lexer for TLC. *)
EXTENDS LexerRefinement

Strings(S, n) == UNION {[1 .. k -> S] : k \in 0 .. n}

\* All texts of 3 characters, longer ones over the characters that lay out
\* lines and over those of string literals.
MCTexts == Strings(Char, 3)
             \cup Strings({"space", "newline", "letter"}, 8)
             \cup Strings({"space", "tab", "newline", "letter"}, 5)
             \cup Strings({"hash", "feed", "space", "newline", "letter"}, 5)
             \cup Strings({"quote", "backslash", "letter", "digit"}, 5)
=============================================================================
