------------------------------- MODULE Lexer -------------------------------
(***************************************************************************)
(* The scanner of Source/Lib/Lexer/Private/Lexer.cpp.                      *)
(*                                                                         *)
(* Every call of lexImpl returns one token or asks to be called again; the *)
(* caller (Lexer::lex, and through it the parser) calls for ever, since    *)
(* the end of the input can be lexed any number of times.  A call is cut   *)
(* into the iterations of its loops: pc says which loop it is in.          *)
(*                                                                         *)
(*   pc = "call"    the next thing to happen is a call of lexImpl          *)
(*   pc = "indent"  inside the loop that measures a line's indentation     *)
(*   pc = "body"    inside the loop that scans the tokens of a line        *)
(*   pc = "string"  inside the loop of handleString                        *)
(*                                                                         *)
(* Characters are abstracted to the classes the scanner tells apart; a     *)
(* "punct" stands for one whole operator or delimiter of TokenKinds.def,   *)
(* and names and keywords are one token kind.                              *)
(***************************************************************************)
EXTENDS Integers, Sequences

CONSTANT Texts     \* the source texts the scanner may be started on

\* What the indentation loop counts, and what the token loop skips: a form
\* feed or a vertical tab is only in the second.
Indenting  == {"space", "tab"}
Horizontal == {"space", "tab", "feed"}

IdentifierHead == {"letter"}
IdentifierBody == {"letter", "digit"}

Char == Horizontal \cup IdentifierBody
          \cup {"newline", "hash", "quote", "backslash", "punct", "other"}

ASSUME TextsAssumption == Texts \subseteq Seq(Char)

VARIABLES
  text,             \* CurBuf
  bufPtr,           \* BufPtr, an index of text; Len(text) + 1 is BufEnd
  ptr,              \* Ptr: where the current call of lexImpl began
  indentPtr,        \* IndentPtr
  indention,        \* Indention: the columns counted so far on this line
  indentStack,      \* IndentStack; empty once the end has been reached
  dedentCount,      \* DedentCount: DEDENT tokens still owed to the caller
  isLogLineStart,   \* IsLogLineStart: inside a logical line
  start, isId,      \* Start and IsId, the locals of handleString
  pc, tok, loc      \* control, and the kind and location of the last token

vars == <<text, bufPtr, ptr, indentPtr, indention, indentStack, dedentCount,
          isLogLineStart, start, isId, pc, tok, loc>>

Content == {"identifier", "integer_literal", "idstring", "string_literal",
            "punctuator", "unknown"}
Kind    == Content \cup {"INDENT", "DEDENT", "BADENT", "NEWLINE", "eof"}

-----------------------------------------------------------------------------
EndOfText == Len(text) + 1
IsEof     == bufPtr = EndOfText

\* The character at index i; the buffer is terminated by a NUL.
At(i) == IF i < EndOfText THEN text[i] ELSE "nul"

\* Where a loop that reads characters of S, starting at i, stops.
SkipFrom(i, S) ==
  CHOOSE j \in i .. EndOfText : /\ At(j) \notin S
                                /\ \A k \in i .. j - 1 : At(k) \in S

\* The end of the comment, or the part of a line, that starts at i.
EndOfLine(i) == SkipFrom(i, Char \ {"newline"})

Top(s) == s[Len(s)]

Init ==
  /\ text \in Texts
  /\ bufPtr = 1 /\ ptr = 1 /\ indentPtr = 1
  /\ indention = 0 /\ indentStack = <<0>> /\ dedentCount = 0
  /\ isLogLineStart = FALSE
  /\ start = 1 /\ isId = FALSE
  /\ pc = "call" /\ tok = "none" /\ loc = [from |-> 1, to |-> 1]

\* lexImpl returns the token of kind k located between from and to.
Return(k, from, to) ==
  /\ tok' = k
  /\ loc' = [from |-> from, to |-> to]
  /\ pc'  = "call"

\* The test of the loop over lines, with the read position at p.
TestLineLoop(p) ==
  IF ~isLogLineStart /\ p # EndOfText
  THEN pc' = "indent" /\ indention' = 0 /\ UNCHANGED indentPtr
  ELSE pc' = "body" /\ indentPtr' = p /\ UNCHANGED indention

-----------------------------------------------------------------------------
(* The entry of lexImpl.                                                   *)

ReturnDedent ==
  /\ pc = "call" /\ dedentCount > 0
  /\ dedentCount' = dedentCount - 1
  /\ Return("DEDENT", indentPtr, indentPtr)
  /\ UNCHANGED <<text, bufPtr, ptr, indentPtr, indention, indentStack,
                 isLogLineStart, start, isId>>

\* Mutant: Ptr is not moved to the read position.
EnterBehind ==
  /\ pc = "call" /\ dedentCount = 0
  /\ TestLineLoop(bufPtr)
  /\ UNCHANGED <<text, bufPtr, ptr, indentStack, dedentCount, isLogLineStart,
                 start, isId, tok, loc>>

Enter ==
  /\ pc = "call" /\ dedentCount = 0
  /\ ptr' = bufPtr
  /\ TestLineLoop(bufPtr)
  /\ UNCHANGED <<text, bufPtr, indentStack, dedentCount, isLogLineStart,
                 start, isId, tok, loc>>

-----------------------------------------------------------------------------
(* The loop over lines: the indentation of the next logical line.          *)

CountIndentation ==
  /\ pc = "indent" /\ At(bufPtr) \in Indenting
  /\ bufPtr' = bufPtr + 1
  /\ indention' = IF At(bufPtr) = "space" THEN indention + 1
                                          ELSE indention + (8 - (indention % 8))
  /\ UNCHANGED <<text, ptr, indentPtr, indentStack, dedentCount,
                 isLogLineStart, start, isId, pc, tok, loc>>

\* The indentation has been counted; skipping a comment leads to index p.
MeasuredTo(p) ==
  /\ pc = "indent" /\ At(bufPtr) \notin Indenting
  /\ p = IF At(bufPtr) = "hash" THEN EndOfLine(bufPtr) ELSE bufPtr

\* Mutant: the loop over lines ends after a blank one.
SkipOneBlankLine ==
  \E p \in 1 .. EndOfText :
    /\ MeasuredTo(p) /\ At(p) = "newline"
    /\ bufPtr' = p + 1 /\ indentPtr' = p + 1
    /\ pc' = "body"
    /\ UNCHANGED <<text, ptr, indention, indentStack, dedentCount,
                   isLogLineStart, start, isId, tok, loc>>

SkipBlankLine ==
  \E p \in 1 .. EndOfText :
    /\ MeasuredTo(p) /\ At(p) = "newline"
    /\ bufPtr' = p + 1
    /\ TestLineLoop(p + 1)
    /\ UNCHANGED <<text, ptr, indentStack, dedentCount, isLogLineStart,
                   start, isId, tok, loc>>

SkipLastBlankLine ==
  /\ MeasuredTo(EndOfText)
  /\ bufPtr' = EndOfText /\ indentPtr' = EndOfText
  /\ pc' = "body"
  /\ UNCHANGED <<text, ptr, indention, indentStack, dedentCount,
                 isLogLineStart, start, isId, tok, loc>>

\* Mutant: the place of the DEDENTs is not kept.
StartLineUnplaced ==
  /\ MeasuredTo(bufPtr) /\ At(bufPtr) \notin {"newline", "nul"}
  /\ isLogLineStart' = TRUE
  /\ UNCHANGED <<text, bufPtr, ptr, indentPtr, indention, start, isId>>

\* The line is neither blank nor only a comment: it starts a logical line.
StartLine ==
  /\ MeasuredTo(bufPtr) /\ At(bufPtr) \notin {"newline", "nul"}
  /\ isLogLineStart' = TRUE
  /\ indentPtr' = bufPtr
  /\ UNCHANGED <<text, bufPtr, ptr, indention, start, isId>>

StartLineAtSameIndent ==
  /\ StartLine /\ Top(indentStack) = indention
  /\ pc' = "body"
  /\ UNCHANGED <<indentStack, dedentCount, tok, loc>>

StartLineIndented ==
  /\ StartLine /\ Top(indentStack) < indention
  /\ indentStack' = Append(indentStack, indention)
  /\ Return("INDENT", ptr, bufPtr)
  /\ UNCHANGED dedentCount

\* How much of the stack the popping loop leaves.
Kept ==
  CHOOSE k \in 1 .. Len(indentStack) :
    /\ indentStack[k] <= indention
    /\ \A j \in k + 1 .. Len(indentStack) : indentStack[j] > indention

\* Mutant: the block the line belongs to is closed too.
StartLineDedentedTwice ==
  /\ StartLine /\ Top(indentStack) > indention
  /\ indentStack' = SubSeq(indentStack, 1, Kept - 1)
  /\ dedentCount' = dedentCount + (Len(indentStack) - Kept + 1)
  /\ IF indentStack[Kept] = indention
     THEN pc' = "call" /\ UNCHANGED <<tok, loc>>
     ELSE Return("BADENT", ptr, bufPtr)

StartLineDedented ==
  /\ StartLine /\ Top(indentStack) > indention
  /\ indentStack' = SubSeq(indentStack, 1, Kept)
  /\ dedentCount' = dedentCount + (Len(indentStack) - Kept)
  /\ IF indentStack[Kept] = indention
     THEN pc' = "call" /\ UNCHANGED <<tok, loc>>      \* call me again
     ELSE Return("BADENT", ptr, bufPtr)

-----------------------------------------------------------------------------
(* The loop over the tokens of a logical line.                             *)

SkipInLine ==
  /\ pc = "body" /\ At(bufPtr) \in Horizontal \cup {"hash"}
  /\ bufPtr' = IF At(bufPtr) = "hash" THEN EndOfLine(bufPtr)
                                      ELSE SkipFrom(bufPtr, Horizontal)
  /\ UNCHANGED <<text, ptr, indentPtr, indention, indentStack, dedentCount,
                 isLogLineStart, start, isId, pc, tok, loc>>

\* A token of kind k that extends to the index before p.
ScanTo(k, p) ==
  /\ pc = "body"
  /\ bufPtr' = p
  /\ Return(k, bufPtr, p)
  /\ UNCHANGED <<text, ptr, indentPtr, indention, indentStack, dedentCount,
                 isLogLineStart, start, isId>>

ScanIdentifier ==
  /\ At(bufPtr) \in IdentifierHead
  /\ ScanTo("identifier", SkipFrom(bufPtr, IdentifierBody))

ScanInteger ==
  /\ At(bufPtr) = "digit"
  /\ ScanTo("integer_literal", SkipFrom(bufPtr, {"digit"}))

ScanPunctuator == At(bufPtr) = "punct" /\ ScanTo("punctuator", bufPtr + 1)

ScanUnknown ==
  At(bufPtr) \in {"other", "backslash"} /\ ScanTo("unknown", bufPtr + 1)

OpenString ==
  /\ pc = "body" /\ At(bufPtr) = "quote"
  /\ start' = bufPtr /\ isId' = TRUE
  /\ bufPtr' = bufPtr + 1 /\ pc' = "string"
  /\ UNCHANGED <<text, ptr, indentPtr, indention, indentStack, dedentCount,
                 isLogLineStart, tok, loc>>

StringEnds == At(bufPtr) \in {"quote", "newline", "nul"}

\* One character of the string, or an escape and whatever follows it.
ReadString ==
  /\ pc = "string" /\ ~StringEnds
  /\ isId' = (isId /\ At(bufPtr) \in IdentifierBody)
  /\ bufPtr' = IF At(bufPtr) = "backslash" /\ bufPtr + 1 # EndOfText
               THEN bufPtr + 2 ELSE bufPtr + 1
  /\ UNCHANGED <<text, ptr, indentPtr, indention, indentStack, dedentCount,
                 isLogLineStart, start, pc, tok, loc>>

\* Only a string of identifier characters loses its opening quote.
CloseString ==
  /\ pc = "string" /\ StringEnds
  /\ bufPtr' = IF At(bufPtr) = "quote" THEN bufPtr + 1 ELSE bufPtr
  /\ start' = IF isId THEN start + 1 ELSE start
  /\ Return(IF isId /\ At(start + 1) \in IdentifierHead
            THEN "idstring" ELSE "string_literal", start', bufPtr)
  /\ UNCHANGED <<text, ptr, indentPtr, indention, indentStack, dedentCount,
                 isLogLineStart, isId>>

-----------------------------------------------------------------------------
(* The end of a line and the end of the text.                              *)

LineEnds == pc = "body" /\ At(bufPtr) \in {"newline", "nul"}

\* Mutant: the logical line is not ended.
ReturnNewlineOpen ==
  /\ LineEnds /\ isLogLineStart
  /\ bufPtr' = IF At(bufPtr) = "newline" THEN bufPtr + 1 ELSE bufPtr
  /\ Return("NEWLINE", bufPtr, bufPtr)
  /\ UNCHANGED <<text, ptr, indentPtr, indention, indentStack, dedentCount,
                 isLogLineStart, start, isId>>

ReturnNewline ==
  /\ LineEnds /\ isLogLineStart
  /\ isLogLineStart' = FALSE
  /\ bufPtr' = IF At(bufPtr) = "newline" THEN bufPtr + 1 ELSE bufPtr
  /\ Return("NEWLINE", bufPtr, bufPtr)
  /\ UNCHANGED <<text, ptr, indentPtr, indention, indentStack, dedentCount,
                 start, isId>>

ReturnEof ==
  /\ LineEnds /\ ~isLogLineStart /\ indentStack = <<>>
  /\ Return("eof", bufPtr, bufPtr)
  /\ UNCHANGED <<text, bufPtr, ptr, indentPtr, indention, indentStack,
                 dedentCount, isLogLineStart, start, isId>>

\* Mutant: the outermost level is closed too.
FlushAllIndents ==
  /\ LineEnds /\ ~isLogLineStart /\ indentStack # <<>>
  /\ dedentCount' = Len(indentStack)
  /\ indentStack' = <<>>
  /\ pc' = "call"
  /\ UNCHANGED <<text, bufPtr, ptr, indentPtr, indention, isLogLineStart,
                 start, isId, tok, loc>>

FlushIndents ==
  /\ LineEnds /\ ~isLogLineStart /\ indentStack # <<>>
  /\ dedentCount' = Len(indentStack) - 1
  /\ indentStack' = <<>>
  /\ pc' = "call"
  /\ UNCHANGED <<text, bufPtr, ptr, indentPtr, indention, isLogLineStart,
                 start, isId, tok, loc>>

Next ==
  \/ ReturnDedent \/ Enter
  \/ CountIndentation \/ SkipBlankLine \/ SkipLastBlankLine
  \/ StartLineAtSameIndent \/ StartLineIndented \/ StartLineDedented
  \/ SkipInLine \/ ScanIdentifier \/ ScanInteger \/ ScanPunctuator
  \/ ScanUnknown \/ OpenString \/ ReadString \/ CloseString
  \/ ReturnNewline \/ ReturnEof \/ FlushIndents

Spec == Init /\ [][Next]_vars

\* The parser calls the lexer until it has seen the end of the input.
FairSpec == Spec /\ WF_vars(Next)

-----------------------------------------------------------------------------
(* Properties.                                                             *)

\* The variables keep their types; in particular the read position never
\* passes the end of the buffer.
TypeOK ==
  /\ text \in Seq(Char)
  /\ bufPtr \in 1 .. EndOfText
  /\ ptr \in 1 .. EndOfText
  /\ indentPtr \in 1 .. EndOfText
  /\ indention \in Nat
  /\ indentStack \in Seq(Nat)
  /\ dedentCount \in Nat
  /\ isLogLineStart \in BOOLEAN
  /\ start \in 1 .. EndOfText
  /\ isId \in BOOLEAN
  /\ pc \in {"call", "indent", "body", "string"}
  /\ tok \in Kind \cup {"none"}
  /\ loc \in [from : 1 .. EndOfText, to : 1 .. EndOfText]

\* Indentation widths grow strictly from 0, so the popping loop always stops
\* at an entry that exists (Lexer.cpp:104) and never reads an empty stack.
IndentStackOrdered ==
  indentStack # <<>> =>
    /\ indentStack[1] = 0
    /\ \A i \in 1 .. Len(indentStack) - 1 : indentStack[i] < indentStack[i + 1]

\* Lexer.cpp:102 and 104 read IndentStack.back(): the stack is not empty while
\* lines are still being measured, and is emptied only at the end of the text.
StackReadIsSafe ==
  /\ pc = "indent" => indentStack # <<>>
  /\ indentStack = <<>> => IsEof /\ ~isLogLineStart

\* assert(isEof()) of Lexer.cpp:197: a line that ends outside of a logical line
\* can only be the last one.
EndOutsideLineIsEof == LineEnds /\ ~isLogLineStart => IsEof

\* Inside a logical line the innermost open indentation is the line's own, or,
\* after a BADENT, a smaller one: a block never looks deeper than its text.
BlockNotDeeperThanLine ==
  isLogLineStart => indentStack # <<>> /\ Top(indentStack) <= indention

\* The parser attaches locations to nodes and diagnostics by token order: a
\* token never starts before the end of the one returned before it.
LocationsAdvance == [][loc' # loc => loc.to <= loc'.from]_vars

\* Which loop the scanner is in says which of its variables are at rest.
ControlInv ==
  /\ pc \in {"indent", "body", "string"} => dedentCount = 0
  /\ pc = "indent" => ~isLogLineStart /\ indentStack # <<>>
  /\ pc = "body" /\ ~isLogLineStart => IsEof
  /\ pc = "string" => isLogLineStart /\ start < bufPtr
  /\ dedentCount > 0 => isLogLineStart \/ indentStack = <<>>

\* The last location stays behind every pointer the next one is built from.
LocationInv ==
  /\ loc.to <= ptr \/ (pc = "call" /\ loc.to <= bufPtr)
  /\ ptr <= bufPtr
  /\ dedentCount > 0 \/ pc = "body" => loc.to <= indentPtr
  /\ indentPtr <= bufPtr
  /\ pc = "string" => loc.to <= start

\* What the last token says about the state of the scanner.
TokenInv ==
  /\ ~isLogLineStart /\ indentStack # <<>> => tok \in {"none", "NEWLINE"}
  /\ indentStack = <<>> => tok \in {"none", "NEWLINE", "DEDENT", "eof"}
  /\ tok = "BADENT" => dedentCount > 0
  /\ tok = "eof" => indentStack = <<>> /\ dedentCount = 0

\* The inductive invariant from which the safety properties follow: it adds
\* to them what the loops know while they run.
LexerInv ==
  /\ TypeOK /\ IndentStackOrdered /\ StackReadIsSafe
  /\ BlockNotDeeperThanLine
  /\ ControlInv /\ LocationInv /\ TokenInv

\* Whatever the text, the caller eventually gets eof.
ReachesEof == <>(tok = "eof")
=============================================================================
