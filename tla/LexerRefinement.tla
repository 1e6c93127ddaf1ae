-------------------------- MODULE LexerRefinement --------------------------
(***************************************************************************)
(* The lexer implements the token stream its caller relies on.             *)
(***************************************************************************)
EXTENDS Lexer

\* The blocks open for the caller: those on the stack above the outermost
\* level, and those whose DEDENT has not been returned yet.
OpenBlocks ==
  dedentCount + (IF indentStack = <<>> THEN 0 ELSE Len(indentStack) - 1)

\* What the caller may be given next, in the terms of the token stream.
Phase ==
  IF tok \in {"none", "NEWLINE"} THEN "bol"
  ELSE IF dedentCount > 0 THEN "dedenting"
  ELSE IF indentStack = <<>> THEN "end"
  ELSE "line"

Stream == INSTANCE TokenStream WITH depth <- OpenBlocks, phase <- Phase

\* Every token returned is one the abstract stream may return at that point
\* (Lexer::lexImpl): INDENT and DEDENT are balanced, none is lost when a line
\* closes several blocks at once or the text ends inside blocks.
ImplementsTokenStream == Stream!Spec
=============================================================================
