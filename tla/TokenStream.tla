---------------------------- MODULE TokenStream ----------------------------
(***************************************************************************)
(* What the lexer promises to the parser: the token streams it can return, *)
(* whatever the text.  The parser of Source/Lib/Parser relies on this:     *)
(* blocks are well bracketed by INDENT and DEDENT, a BADENT is followed by *)
(* the DEDENTs of the blocks it closes, every line ends with a NEWLINE,    *)
(* and eof is returned only after all blocks are closed, and then always.  *)
(***************************************************************************)
EXTENDS Integers

CONSTANT Content   \* the token kinds a line is made of

VARIABLES
  tok,      \* the last token returned
  depth,    \* the number of blocks open
  phase     \* "bol": a line may begin; "dedenting": DEDENTs must follow;
            \* "line": inside a line; "end": only eof is left

vars == <<tok, depth, phase>>

Init == tok = "none" /\ depth = 0 /\ phase = "bol"

Indent ==
  /\ phase = "bol"
  /\ tok' = "INDENT" /\ depth' = depth + 1 /\ phase' = "line"

\* The last DEDENT owed opens the line, or is the last one before eof.
Dedent ==
  /\ phase \in {"bol", "dedenting"} /\ depth > 0
  /\ tok' = "DEDENT" /\ depth' = depth - 1
  /\ \/ phase' = "dedenting" /\ depth' > 0
     \/ phase' = "line"
     \/ phase' = "end" /\ depth' = 0

Badent ==
  /\ phase = "bol" /\ depth > 0
  /\ tok' = "BADENT" /\ phase' = "dedenting"
  /\ UNCHANGED depth

InLine ==
  /\ phase \in {"bol", "line"}
  /\ tok' \in Content /\ phase' = "line"
  /\ UNCHANGED depth

\* A line may be empty: one that holds only form feeds is not a blank line.
EndLine ==
  /\ phase \in {"bol", "line"}
  /\ tok' = "NEWLINE" /\ phase' = "bol"
  /\ UNCHANGED depth

End ==
  /\ phase \in {"bol", "end"} /\ depth = 0
  /\ tok' = "eof" /\ phase' = "end"
  /\ UNCHANGED depth

Next == Indent \/ Dedent \/ Badent \/ InLine \/ EndLine \/ End

Spec == Init /\ [][Next]_vars
=============================================================================
