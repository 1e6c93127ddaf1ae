---------------------------- MODULE LexerProofs ----------------------------
(***************************************************************************)
(* Proofs about the lexer: its safety properties, and that it implements   *)
(* the token stream, for every set of texts; and about its token cache,    *)
(* that it implements lookahead, however far callers look and however many *)
(* tokens the text has.                                                    *)
(***************************************************************************)
EXTENDS LexerRefinement, CachingLexer, Counting

-----------------------------------------------------------------------------
(* The loops stop: minimal elements stand in for inductions.               *)

\* A loop that reads characters of S stops at the first other one (the inner
\* loops of Lexer::lexImpl and of its handlers).
LEMMA SkipFromStops ==
  ASSUME TypeOK, NEW S, "nul" \notin S, NEW i \in 1 .. EndOfText
  PROVE  /\ SkipFrom(i, S) \in i .. EndOfText
         /\ At(SkipFrom(i, S)) \notin S
         /\ \A k \in i .. SkipFrom(i, S) - 1 : At(k) \in S
<1> DEFINE Stops == {j \in i .. EndOfText : At(j) \notin S}
<1>1. EndOfText \in Nat
  BY DEF TypeOK, EndOfText
<1>2. EndOfText \in Stops /\ Stops \in SUBSET Nat
  BY <1>1 DEF At
<1>3. PICK j \in Stops : \A k \in Stops : j <= k
  <2> HIDE DEF Stops
  <2> QED BY <1>2, LeastNat
<1>4. \A k \in i .. j - 1 : At(k) \in S
  BY <1>1, <1>3
<1>5. \E l \in i .. EndOfText : /\ At(l) \notin S
                                /\ \A k \in i .. l - 1 : At(k) \in S
  BY <1>3, <1>4
<1> QED BY <1>5 DEF SkipFrom

\* From the read position, such a loop moves forward and stays in the text.
LEMMA SkipForward ==
  ASSUME TypeOK, NEW S, "nul" \notin S
  PROVE  SkipFrom(bufPtr, S) \in 1 .. EndOfText /\ bufPtr <= SkipFrom(bufPtr, S)
<1>1. bufPtr \in 1 .. EndOfText /\ EndOfText \in Nat
  BY DEF TypeOK, EndOfText
<1>2. SkipFrom(bufPtr, S) \in bufPtr .. EndOfText
  BY <1>1, SkipFromStops
<1> QED BY <1>1, <1>2

\* Skipping a comment stays on its line.
LEMMA EndOfLineStops ==
  ASSUME TypeOK, NEW i \in 1 .. EndOfText
  PROVE  EndOfLine(i) \in i .. EndOfText
<1>1. "nul" \notin Char \ {"newline"}
  BY DEF Char, Horizontal, IdentifierBody
<1> QED BY <1>1, SkipFromStops DEF EndOfLine

\* A character other than the terminating NUL is inside the text.
LEMMA InsideText ==
  ASSUME TypeOK, At(bufPtr) # "nul"
  PROVE  bufPtr + 1 \in 1 .. EndOfText /\ ~IsEof
BY DEF TypeOK, At, IsEof, EndOfText

\* The text itself holds no NUL: reading one means the end was reached.
LEMMA NulIsEof ==
  ASSUME TypeOK, At(bufPtr) = "nul"
  PROVE  IsEof
BY DEF TypeOK, At, IsEof, EndOfText, Char, Horizontal, IdentifierBody

\* The loop that pops the indentation stack stops above the outermost level
\* (Lexer.cpp:104).
LEMMA KeptStops ==
  ASSUME TypeOK, IndentStackOrdered, indentStack # <<>>
  PROVE  /\ Kept \in 1 .. Len(indentStack)
         /\ indentStack[Kept] <= indention
         /\ \A j \in Kept + 1 .. Len(indentStack) : indentStack[j] > indention
<1> DEFINE N == Len(indentStack)
           Left == {d \in 0 .. N - 1 : indentStack[N - d] <= indention}
<1>1. N \in Nat /\ N > 0 /\ indentStack \in [1 .. N -> Nat] /\ indention \in Nat
  BY DEF TypeOK
<1>2. N - 1 \in Left /\ Left \in SUBSET Nat
  BY <1>1 DEF IndentStackOrdered
<1>3. PICK d \in Left : \A e \in Left : d <= e
  <2> HIDE DEF Left
  <2> QED BY <1>2, LeastNat
<1>4. ASSUME NEW j \in (N - d) + 1 .. N, indentStack[j] <= indention
      PROVE FALSE
  <2>1. N - j \in 0 .. N - 1 /\ N - (N - j) = j
    BY <1>1, <1>3
  <2>2. N - j \in Left
    BY <2>1, <1>4
  <2>3. d <= N - j
    BY <2>2, <1>3
  <2> QED BY <2>3, <1>1, <1>3, <1>4
<1>5. /\ N - d \in 1 .. N /\ indentStack[N - d] <= indention
      /\ \A j \in (N - d) + 1 .. N : indentStack[j] > indention
  BY <1>1, <1>3, <1>4
<1> QED BY <1>5 DEF Kept

-----------------------------------------------------------------------------
(* The inductive invariant.                                                *)

\* The scanner starts at rest before the first character (Lexer::reset).
LEMMA InitLexerInv == Init => LexerInv
<1> SUFFICES ASSUME Init PROVE LexerInv
  OBVIOUS
<1>1. text \in Seq(Char)
  BY TextsAssumption DEF Init
<1>2. EndOfText \in Nat /\ 1 \in 1 .. EndOfText
  BY <1>1 DEF EndOfText
<1>3. TypeOK
  <2>1. indentStack \in Seq(Nat)
    BY DEF Init
  <2>2. loc \in [from : 1 .. EndOfText, to : 1 .. EndOfText]
    BY <1>2 DEF Init
  <2> QED BY <1>1, <1>2, <2>1, <2>2 DEF Init, TypeOK
<1>4. IndentStackOrdered /\ StackReadIsSafe /\ BlockNotDeeperThanLine
  BY DEF Init, IndentStackOrdered, StackReadIsSafe, BlockNotDeeperThanLine, Top
<1>5. ControlInv /\ LocationInv /\ TokenInv
  BY DEF Init, ControlInv, LocationInv, TokenInv
<1> QED BY <1>3, <1>4, <1>5 DEF LexerInv

\* Returning from lexImpl with a well-formed location keeps the types.
LEMMA TypeStep == LexerInv /\ [Next]_vars => TypeOK'
<1> SUFFICES ASSUME LexerInv, [Next]_vars PROVE TypeOK'
  OBVIOUS
<1>0. TypeOK /\ IndentStackOrdered /\ ControlInv
  BY DEF LexerInv
<1>a. EndOfText \in Nat /\ EndOfText > 0
  BY <1>0 DEF TypeOK, EndOfText
<1>b. text' = text => EndOfText' = EndOfText
  BY DEF EndOfText
<1> USE <1>0, <1>a, <1>b
<1>1. CASE ReturnDedent
  BY <1>1 DEF ReturnDedent, Return, TypeOK, Kind
<1>2. CASE Enter
  BY <1>2 DEF Enter, TestLineLoop, TypeOK
<1>3. CASE CountIndentation
  <2>1. bufPtr + 1 \in 1 .. EndOfText
    BY <1>3, InsideText DEF CountIndentation, Indenting
  <2>2. indention + 1 \in Nat /\ indention + (8 - (indention % 8)) \in Nat
    BY DEF TypeOK
  <2> QED BY <1>3, <2>1, <2>2 DEF CountIndentation, TypeOK
<1>4. CASE SkipBlankLine
  <2>1. PICK p \in 1 .. EndOfText :
          /\ At(p) = "newline" /\ bufPtr' = p + 1 /\ TestLineLoop(p + 1)
          /\ UNCHANGED <<text, ptr, indentStack, dedentCount,
                         isLogLineStart, start, isId, tok, loc>>
    BY <1>4 DEF SkipBlankLine
  <2>2. p + 1 \in 1 .. EndOfText
    BY <2>1 DEF At
  <2> QED BY <2>1, <2>2 DEF TestLineLoop, TypeOK
<1>5. CASE SkipLastBlankLine
  BY <1>5 DEF SkipLastBlankLine, TypeOK
<1>6. CASE StartLineAtSameIndent
  BY <1>6 DEF StartLineAtSameIndent, StartLine, TypeOK
<1>7. CASE StartLineIndented
  BY <1>7 DEF StartLineIndented, StartLine, Return, TypeOK, Kind
<1>8. CASE StartLineDedented
  <2>1. Kept \in 1 .. Len(indentStack)
    BY <1>8, KeptStops DEF StartLineDedented, StartLine, MeasuredTo, ControlInv
  <2>2. /\ SubSeq(indentStack, 1, Kept) \in Seq(Nat)
        /\ dedentCount + (Len(indentStack) - Kept) \in Nat
    BY <2>1 DEF TypeOK
  <2>3. /\ tok' \in Kind \cup {"none"} /\ pc' \in {"call"}
        /\ loc' \in [from : 1 .. EndOfText, to : 1 .. EndOfText]
    BY <1>8 DEF StartLineDedented, Return, TypeOK, Kind
  <2> QED BY <1>8, <2>2, <2>3 DEF StartLineDedented, StartLine, TypeOK
<1>9. CASE SkipInLine
  <2>1. bufPtr \in 1 .. EndOfText /\ "nul" \notin Horizontal
    BY DEF TypeOK, Horizontal
  <2>2. /\ EndOfLine(bufPtr) \in 1 .. EndOfText
        /\ SkipFrom(bufPtr, Horizontal) \in 1 .. EndOfText
    BY <2>1, EndOfLineStops, SkipForward
  <2>3. bufPtr' \in 1 .. EndOfText
    BY <1>9, <2>2 DEF SkipInLine
  <2> QED BY <1>9, <2>3 DEF SkipInLine, TypeOK
<1>10. ASSUME NEW k \in Content, NEW p \in 1 .. EndOfText, ScanTo(k, p)
       PROVE  TypeOK'
  BY <1>10 DEF ScanTo, Return, TypeOK, Kind
<1>11. CASE ScanIdentifier
  <2>1. SkipFrom(bufPtr, IdentifierBody) \in 1 .. EndOfText
    BY SkipForward DEF IdentifierBody
  <2> QED BY <1>11, <1>10, <2>1 DEF ScanIdentifier, Content
<1>12. CASE ScanInteger
  <2>1. SkipFrom(bufPtr, {"digit"}) \in 1 .. EndOfText
    BY SkipForward
  <2> QED BY <1>12, <1>10, <2>1 DEF ScanInteger, Content
<1>13. CASE ScanPunctuator \/ ScanUnknown
  <2>1. bufPtr + 1 \in 1 .. EndOfText
    BY <1>13, InsideText DEF ScanPunctuator, ScanUnknown
  <2> QED BY <1>13, <1>10, <2>1 DEF ScanPunctuator, ScanUnknown, Content
<1>14. CASE OpenString
  <2>1. bufPtr + 1 \in 1 .. EndOfText
    BY <1>14, InsideText DEF OpenString
  <2> QED BY <1>14, <2>1 DEF OpenString, TypeOK
<1>15. CASE ReadString
  <2>1. bufPtr + 1 \in 1 .. EndOfText
    BY <1>15, InsideText DEF ReadString, StringEnds
  <2>2. bufPtr' \in 1 .. EndOfText
    BY <1>15, <2>1 DEF ReadString, TypeOK
  <2> QED BY <1>15, <2>2 DEF ReadString, TypeOK
<1>16. CASE CloseString
  <2>1. bufPtr' \in 1 .. EndOfText
    BY <1>16, InsideText DEF CloseString, TypeOK
  <2>2. start' \in 1 .. EndOfText
    BY <1>16 DEF CloseString, ControlInv, TypeOK
  <2> QED BY <1>16, <2>1, <2>2 DEF CloseString, Return, TypeOK, Kind, Content
<1>17. CASE ReturnNewline
  <2>1. bufPtr' \in 1 .. EndOfText
    BY <1>17, InsideText DEF ReturnNewline, TypeOK
  <2> QED BY <1>17, <2>1 DEF ReturnNewline, Return, TypeOK, Kind
<1>18. CASE ReturnEof
  BY <1>18 DEF ReturnEof, Return, TypeOK, Kind
<1>19. CASE FlushIndents
  BY <1>19 DEF FlushIndents, TypeOK
<1>20. CASE UNCHANGED vars
  BY <1>20 DEF vars, TypeOK
<1> QED
  BY <1>1, <1>2, <1>3, <1>4, <1>5, <1>6, <1>7, <1>8, <1>9, <1>11, <1>12,
     <1>13, <1>14, <1>15, <1>16, <1>17, <1>18, <1>19, <1>20 DEF Next

\* The actions that scan inside a line leave the indentation alone.
Scanning ==
  \/ SkipInLine \/ ScanIdentifier \/ ScanInteger \/ ScanPunctuator
  \/ ScanUnknown \/ OpenString \/ ReadString \/ CloseString

\* What they do: read on, and possibly return a token that lies ahead of
\* everything read before it.
ScanningEffect ==
  /\ UNCHANGED <<text, ptr, indentPtr, indention, indentStack, dedentCount,
                 isLogLineStart>>
  /\ isLogLineStart /\ dedentCount = 0
  /\ bufPtr' \in Nat /\ bufPtr <= bufPtr'
  /\ \/ pc' = pc /\ pc \in {"body", "string"} /\ UNCHANGED <<tok, loc, start>>
     \/ /\ pc = "body" /\ pc' = "string" /\ start' = bufPtr /\ start' < bufPtr'
        /\ UNCHANGED <<tok, loc>>
     \/ /\ pc' = "call" /\ tok' \in Content /\ loc'.to <= bufPtr'
        /\ loc'.from \in Nat
        /\ \/ pc = "body" /\ loc'.from = bufPtr
           \/ pc = "string" /\ start <= loc'.from

\* The scanning actions have that effect (Lexer.cpp:135-182).
LEMMA ScanningFrame ==
  ASSUME TypeOK, ControlInv, Scanning
  PROVE  ScanningEffect
<1>0. bufPtr \in Nat /\ EndOfText \in Nat /\ bufPtr <= EndOfText
  BY DEF TypeOK, EndOfText
<1>1. ASSUME NEW k \in Content, NEW p \in Nat, bufPtr <= p,
             At(bufPtr) # "nul", ScanTo(k, p)
      PROVE  ScanningEffect
  <2>1. isLogLineStart /\ dedentCount = 0
    BY <1>1, InsideText DEF ScanTo, ControlInv
  <2>2. loc' = [from |-> bufPtr, to |-> p]
    BY <1>1 DEF ScanTo, Return
  <2> QED BY <1>0, <1>1, <2>1, <2>2 DEF ScanTo, Return, ScanningEffect
<1>2. CASE SkipInLine
  <2>1. bufPtr <= EndOfLine(bufPtr) /\ EndOfLine(bufPtr) \in Nat
    BY <1>0, EndOfLineStops DEF TypeOK
  <2>2. "nul" \notin Horizontal
    BY DEF Horizontal
  <2>3. bufPtr <= SkipFrom(bufPtr, Horizontal) /\ SkipFrom(bufPtr, Horizontal) \in Nat
    BY <2>2, SkipForward
  <2>4. isLogLineStart /\ dedentCount = 0
    BY <1>2, InsideText DEF SkipInLine, ControlInv, Horizontal
  <2> QED BY <1>2, <2>1, <2>3, <2>4 DEF SkipInLine, ScanningEffect
<1>3. CASE ScanIdentifier
  <2>1. /\ bufPtr <= SkipFrom(bufPtr, IdentifierBody)
        /\ SkipFrom(bufPtr, IdentifierBody) \in Nat
    BY SkipForward DEF IdentifierBody
  <2>2. /\ ScanTo("identifier", SkipFrom(bufPtr, IdentifierBody))
        /\ At(bufPtr) # "nul"
    BY <1>3 DEF ScanIdentifier, IdentifierHead
  <2> QED BY <1>1, <2>1, <2>2 DEF Content
<1>4. CASE ScanInteger
  <2>1. bufPtr <= SkipFrom(bufPtr, {"digit"}) /\ SkipFrom(bufPtr, {"digit"}) \in Nat
    BY SkipForward
  <2>2. /\ ScanTo("integer_literal", SkipFrom(bufPtr, {"digit"}))
        /\ At(bufPtr) # "nul"
    BY <1>4 DEF ScanInteger
  <2> QED BY <1>1, <2>1, <2>2 DEF Content
<1>5. CASE ScanPunctuator \/ ScanUnknown
  <2>1. ScanTo("punctuator", bufPtr + 1) \/ ScanTo("unknown", bufPtr + 1)
    BY <1>5 DEF ScanPunctuator, ScanUnknown
  <2>2. At(bufPtr) # "nul"
    BY <1>5 DEF ScanPunctuator, ScanUnknown
  <2> QED BY <1>0, <1>1, <2>1, <2>2 DEF Content
<1>6. CASE OpenString
  BY <1>0, <1>6, InsideText DEF OpenString, ControlInv, ScanningEffect
<1>7. CASE ReadString
  BY <1>0, <1>7 DEF ReadString, ControlInv, ScanningEffect
<1>8. CASE CloseString
  <2>1. start \in Nat /\ start < bufPtr
    BY <1>8 DEF CloseString, ControlInv, TypeOK
  <2>2. start' \in Nat /\ start <= start'
    BY <1>8, <2>1 DEF CloseString
  <2>3. bufPtr' \in Nat /\ bufPtr <= bufPtr'
    BY <1>0, <1>8 DEF CloseString
  <2>4. /\ pc = "string" /\ pc' = "call" /\ tok' \in Content
        /\ loc' = [from |-> start', to |-> bufPtr]
        /\ UNCHANGED <<text, ptr, indentPtr, indention, indentStack,
                       dedentCount, isLogLineStart>>
    BY <1>8 DEF CloseString, Return, Content
  <2> QED BY <2>2, <2>3, <2>4 DEF ControlInv, ScanningEffect
<1> QED BY <1>2, <1>3, <1>4, <1>5, <1>6, <1>7, <1>8 DEF Scanning

\* What starting a logical line at a smaller indentation does: some of the
\* stack is popped, and as many DEDENTs are owed (Lexer.cpp:103-120).
LEMMA DedentedEffect ==
  ASSUME LexerInv, StartLineDedented
  PROVE  /\ Kept \in 1 .. Len(indentStack) - 1
         /\ indentStack[Kept] <= indention
         /\ indentStack' = SubSeq(indentStack, 1, Kept)
         /\ Len(indentStack') = Kept
         /\ \A i \in 1 .. Kept : indentStack'[i] = indentStack[i]
         /\ dedentCount = 0 /\ dedentCount' = Len(indentStack) - Kept
<1>1. TypeOK /\ IndentStackOrdered /\ indentStack # <<>> /\ dedentCount = 0
  BY DEF LexerInv, StartLineDedented, StartLine, MeasuredTo, ControlInv
<1>2. /\ Kept \in 1 .. Len(indentStack) /\ indentStack[Kept] <= indention
      /\ Len(indentStack) \in Nat /\ indention \in Nat
  BY <1>1, KeptStops DEF TypeOK
<1>3. Kept # Len(indentStack)
  BY <1>2 DEF StartLineDedented, Top, TypeOK, LexerInv
<1>4. indentStack \in Seq(Nat)
  BY <1>1 DEF TypeOK
<1> QED BY <1>1, <1>2, <1>3, <1>4 DEF StartLineDedented

\* Pushing a larger width, popping, and clearing keep the stack ordered.
LEMMA OrderedStep == LexerInv /\ [Next]_vars => IndentStackOrdered'
<1> SUFFICES ASSUME LexerInv, [Next]_vars PROVE IndentStackOrdered'
  OBVIOUS
<1>0. TypeOK /\ IndentStackOrdered /\ ControlInv
  BY DEF LexerInv
<1>1. CASE StartLineIndented
  <2> DEFINE N == Len(indentStack)
  <2>1. /\ N \in Nat /\ N > 0 /\ indentStack \in Seq(Nat) /\ indention \in Nat
        /\ indentStack[N] < indention
        /\ indentStack' = Append(indentStack, indention)
    BY <1>0, <1>1 DEF StartLineIndented, StartLine, MeasuredTo, ControlInv,
                      TypeOK, Top
  <2>2. /\ Len(indentStack') = N + 1 /\ indentStack'[N + 1] = indention
        /\ \A i \in 1 .. N : indentStack'[i] = indentStack[i]
    BY <2>1
  <2> QED BY <1>0, <2>1, <2>2 DEF IndentStackOrdered
<1>2. CASE StartLineDedented
  <2>1. IndentStackOrdered /\ indentStack # <<>>
    BY <1>0, <1>2 DEF StartLineDedented, StartLine, MeasuredTo, ControlInv
  <2>2. Len(indentStack) \in Nat
    BY <1>0 DEF TypeOK
  <2> QED BY <1>2, <2>1, <2>2, DedentedEffect DEF IndentStackOrdered
<1>3. CASE FlushIndents
  BY <1>3 DEF FlushIndents, IndentStackOrdered
<1>4. CASE Scanning
  BY <1>0, <1>4, ScanningFrame DEF ScanningEffect, IndentStackOrdered
<1>5. CASE ReturnDedent \/ Enter \/ CountIndentation \/ StartLineAtSameIndent
             \/ ReturnNewline \/ ReturnEof \/ UNCHANGED vars
  BY <1>0, <1>5 DEF ReturnDedent, Enter, CountIndentation,
     StartLineAtSameIndent, ReturnNewline, ReturnEof, vars, IndentStackOrdered
<1>6. CASE SkipBlankLine \/ SkipLastBlankLine
  BY <1>0, <1>6 DEF SkipBlankLine, SkipLastBlankLine, IndentStackOrdered
<1> QED BY <1>1, <1>2, <1>3, <1>4, <1>5, <1>6 DEF Next, Scanning

\* Each loop is entered in the state it needs, and the indentation of a line
\* is settled before its tokens are scanned.
LEMMA ControlStep ==
  LexerInv /\ [Next]_vars
    => ControlInv' /\ StackReadIsSafe' /\ BlockNotDeeperThanLine'
<1> SUFFICES ASSUME LexerInv, [Next]_vars
             PROVE  ControlInv' /\ StackReadIsSafe' /\ BlockNotDeeperThanLine'
  OBVIOUS
<1>0. /\ TypeOK /\ ControlInv /\ StackReadIsSafe /\ BlockNotDeeperThanLine
      /\ text' = text /\ EndOfText' = EndOfText /\ EndOfText \in Nat
  <2>1. text' = text
    BY DEF Next, vars, ReturnDedent, Enter, CountIndentation, SkipBlankLine,
       SkipLastBlankLine, StartLineAtSameIndent, StartLineIndented,
       StartLineDedented, StartLine, SkipInLine, ScanIdentifier, ScanInteger,
       ScanPunctuator, ScanUnknown, ScanTo, OpenString, ReadString,
       CloseString, ReturnNewline, ReturnEof, FlushIndents
  <2> QED BY <2>1 DEF LexerInv, EndOfText, TypeOK
<1>1. CASE ReturnDedent
  BY <1>0, <1>1 DEF ReturnDedent, Return, ControlInv, StackReadIsSafe, IsEof,
     BlockNotDeeperThanLine, Top
<1>2. CASE Enter
  BY <1>0, <1>2 DEF Enter, TestLineLoop, ControlInv, StackReadIsSafe, IsEof,
     BlockNotDeeperThanLine, Top
<1>3. CASE CountIndentation
  <2>1. pc = "indent" /\ pc' = pc /\ ~isLogLineStart /\ indentStack # <<>>
    BY <1>0, <1>3 DEF CountIndentation, ControlInv
  <2> QED BY <1>0, <1>3, <2>1 DEF CountIndentation, ControlInv,
     StackReadIsSafe, BlockNotDeeperThanLine
<1>4. CASE SkipBlankLine
  <2>1. pc = "indent" /\ ~isLogLineStart /\ indentStack # <<>> /\ dedentCount = 0
    BY <1>0, <1>4 DEF SkipBlankLine, MeasuredTo, ControlInv
  <2> QED BY <1>0, <1>4, <2>1 DEF SkipBlankLine, TestLineLoop, ControlInv,
     StackReadIsSafe, BlockNotDeeperThanLine, IsEof
<1>5. CASE SkipLastBlankLine
  <2>1. pc = "indent" /\ ~isLogLineStart /\ indentStack # <<>> /\ dedentCount = 0
    BY <1>0, <1>5 DEF SkipLastBlankLine, MeasuredTo, ControlInv
  <2> QED BY <1>0, <1>5, <2>1 DEF SkipLastBlankLine, ControlInv,
     StackReadIsSafe, BlockNotDeeperThanLine, IsEof
<1>6. CASE StartLineAtSameIndent
  <2>1. pc = "indent" /\ indentStack # <<>> /\ dedentCount = 0
    BY <1>0, <1>6 DEF StartLineAtSameIndent, StartLine, MeasuredTo, ControlInv
  <2> QED BY <1>0, <1>6, <2>1 DEF StartLineAtSameIndent, StartLine, ControlInv,
     StackReadIsSafe, BlockNotDeeperThanLine, Top, TypeOK
<1>7. CASE StartLineIndented
  <2>1. /\ pc' = "call" /\ isLogLineStart' = TRUE /\ UNCHANGED indention
        /\ indentStack' = Append(indentStack, indention)
    BY <1>7 DEF StartLineIndented, StartLine, Return
  <2>2. indentStack' # <<>> /\ Top(indentStack') = indention
    BY <1>0, <2>1 DEF TypeOK, Top
  <2> QED BY <1>0, <2>1, <2>2 DEF ControlInv, StackReadIsSafe,
     BlockNotDeeperThanLine, TypeOK, Top
<1>8. CASE StartLineDedented
  <2>1. pc' = "call" /\ isLogLineStart' = TRUE /\ UNCHANGED indention
    BY <1>8 DEF StartLineDedented, StartLine, Return
  <2>2. /\ Kept \in Nat /\ Kept > 0 /\ Len(indentStack') = Kept
        /\ indentStack'[Kept] <= indention
    <3>1. /\ Kept \in 1 .. Len(indentStack) - 1
          /\ indentStack[Kept] <= indention /\ Len(indentStack') = Kept
          /\ \A i \in 1 .. Kept : indentStack'[i] = indentStack[i]
      BY <1>0, <1>8, DedentedEffect
    <3>2. Len(indentStack) \in Nat
      BY <1>0 DEF TypeOK
    <3>3. Kept \in Nat /\ Kept > 0 /\ Kept \in 1 .. Kept
      BY <3>1, <3>2
    <3> QED BY <3>1, <3>3
  <2>3. indentStack' # <<>> /\ Top(indentStack') <= indention
    BY <2>2 DEF Top
  <2> QED BY <1>0, <2>1, <2>3 DEF ControlInv, StackReadIsSafe,
     BlockNotDeeperThanLine, Top
<1>9. CASE Scanning
  <2>1. ScanningEffect /\ indentStack # <<>>
    BY <1>0, <1>9, ScanningFrame DEF ScanningEffect, BlockNotDeeperThanLine
  <2>2. pc = "string" /\ pc' = "string" => start < bufPtr /\ start' \in Nat
    BY <1>0, <2>1 DEF ControlInv, ScanningEffect, TypeOK
  <2>3. bufPtr \in Nat /\ start \in Nat
    BY <1>0 DEF TypeOK
  <2>4. ControlInv'
    BY <2>1, <2>2, <2>3 DEF ScanningEffect, ControlInv
  <2> QED BY <1>0, <2>1, <2>4 DEF ScanningEffect, ControlInv, StackReadIsSafe,
     BlockNotDeeperThanLine, Top
<1>10. CASE ReturnNewline \/ ReturnEof
  <2>1. At(bufPtr) # "newline" => IsEof
    BY <1>0, <1>10, NulIsEof DEF ReturnNewline, ReturnEof, LineEnds
  <2>2. dedentCount = 0 /\ dedentCount' = 0
    BY <1>0, <1>10 DEF ReturnNewline, ReturnEof, LineEnds, ControlInv
  <2> QED BY <1>0, <1>10, <2>1, <2>2 DEF ReturnNewline, ReturnEof, Return,
     ControlInv, StackReadIsSafe, BlockNotDeeperThanLine, IsEof, Top
<1>11. CASE FlushIndents
  <2>1. IsEof
    BY <1>0, <1>11 DEF FlushIndents, LineEnds, ControlInv
  <2> QED BY <1>0, <1>11, <2>1 DEF FlushIndents, ControlInv, StackReadIsSafe,
     BlockNotDeeperThanLine, IsEof
<1>12. CASE UNCHANGED vars
  BY <1>0, <1>12 DEF vars, ControlInv, StackReadIsSafe, IsEof,
     BlockNotDeeperThanLine, Top
<1> QED BY <1>1, <1>2, <1>3, <1>4, <1>5, <1>6, <1>7, <1>8, <1>9, <1>10, <1>11,
           <1>12 DEF Next, Scanning

\* The pointers a token's location is built from only move forward.
LEMMA LocationStep == LexerInv /\ [Next]_vars => LocationInv'
<1> SUFFICES ASSUME LexerInv, [Next]_vars PROVE LocationInv'
  OBVIOUS
<1>0. /\ TypeOK /\ ControlInv /\ LocationInv
      /\ bufPtr \in Nat /\ ptr \in Nat /\ indentPtr \in Nat /\ start \in Nat
      /\ loc.to \in Nat /\ EndOfText \in Nat
  BY DEF LexerInv, TypeOK, EndOfText
<1>1. CASE ReturnDedent
  <2>1. loc'.to = indentPtr
    BY <1>1 DEF ReturnDedent, Return
  <2> QED BY <1>0, <1>1, <2>1 DEF ReturnDedent, Return, LocationInv
<1>2. CASE Enter
  BY <1>0, <1>2 DEF Enter, TestLineLoop, LocationInv
<1>3. CASE CountIndentation
  BY <1>0, <1>3 DEF CountIndentation, LocationInv, ControlInv
<1>4. CASE SkipBlankLine
  <2>1. PICK p \in Nat : /\ bufPtr <= p /\ bufPtr' = p + 1
                         /\ TestLineLoop(p + 1)
                         /\ UNCHANGED <<ptr, dedentCount, start, loc>>
    <3>1. bufPtr <= EndOfLine(bufPtr)
      BY <1>0, EndOfLineStops DEF TypeOK
    <3> QED BY <1>0, <1>4, <3>1 DEF SkipBlankLine, MeasuredTo
  <2>2. pc = "indent" /\ dedentCount = 0
    BY <1>0, <1>4 DEF SkipBlankLine, MeasuredTo, ControlInv
  <2> QED BY <1>0, <2>1, <2>2 DEF TestLineLoop, LocationInv
<1>5. CASE SkipLastBlankLine
  <2>1. bufPtr <= EndOfText /\ pc = "indent"
    BY <1>0, <1>5 DEF TypeOK, SkipLastBlankLine, MeasuredTo
  <2> QED BY <1>0, <1>5, <2>1 DEF SkipLastBlankLine, LocationInv
<1>6. CASE StartLineAtSameIndent
  BY <1>0, <1>6 DEF StartLineAtSameIndent, StartLine, MeasuredTo, LocationInv
<1>7. CASE StartLineIndented
  <2>1. loc'.to = bufPtr
    BY <1>7 DEF StartLineIndented, Return
  <2> QED BY <1>0, <1>7, <2>1 DEF StartLineIndented, StartLine, Return,
     MeasuredTo, LocationInv
<1>8. CASE StartLineDedented
  <2>1. loc'.to = bufPtr \/ loc' = loc
    BY <1>8 DEF StartLineDedented, Return
  <2>2. /\ pc = "indent" /\ pc' = "call" /\ indentPtr' = bufPtr
        /\ UNCHANGED <<bufPtr, ptr, start>>
    BY <1>8 DEF StartLineDedented, StartLine, MeasuredTo, Return
  <2> QED BY <1>0, <2>1, <2>2 DEF LocationInv
<1>9. CASE Scanning
  BY <1>0, <1>9, ScanningFrame DEF ScanningEffect, LocationInv, ControlInv
<1>10. CASE ReturnNewline \/ ReturnEof
  <2>1. loc'.to = bufPtr /\ pc' = "call" /\ bufPtr <= bufPtr' /\ bufPtr' \in Nat
    BY <1>0, <1>10 DEF ReturnNewline, ReturnEof, Return
  <2>2. UNCHANGED <<ptr, indentPtr, dedentCount, start>> /\ dedentCount = 0
    BY <1>0, <1>10 DEF ReturnNewline, ReturnEof, ControlInv, LineEnds
  <2> QED BY <1>0, <2>1, <2>2 DEF LocationInv
<1>11. CASE FlushIndents
  BY <1>0, <1>11 DEF FlushIndents, LineEnds, LocationInv
<1>12. CASE UNCHANGED vars
  BY <1>0, <1>12 DEF vars, LocationInv
<1> QED BY <1>1, <1>2, <1>3, <1>4, <1>5, <1>6, <1>7, <1>8, <1>9, <1>10, <1>11,
           <1>12 DEF Next, Scanning

\* Which token was returned last tells where in a line the scanner is.
LEMMA TokenStep == LexerInv /\ [Next]_vars => TokenInv'
<1> SUFFICES ASSUME LexerInv, [Next]_vars PROVE TokenInv'
  OBVIOUS
<1>0. TypeOK /\ ControlInv /\ TokenInv /\ StackReadIsSafe
      /\ BlockNotDeeperThanLine /\ dedentCount \in Nat
  BY DEF LexerInv, TypeOK
<1>1. CASE ReturnDedent
  BY <1>0, <1>1 DEF ReturnDedent, Return, TokenInv, ControlInv
<1>2. CASE Enter \/ CountIndentation \/ SkipBlankLine \/ SkipLastBlankLine
  BY <1>0, <1>2 DEF Enter, CountIndentation, SkipBlankLine, SkipLastBlankLine,
     TokenInv
<1>3. CASE StartLineAtSameIndent
  BY <1>0, <1>3 DEF StartLineAtSameIndent, StartLine, TokenInv
<1>4. CASE StartLineIndented
  <2>1. indentStack' # <<>> /\ isLogLineStart' = TRUE /\ tok' = "INDENT"
    BY <1>0, <1>4 DEF StartLineIndented, StartLine, Return, TypeOK
  <2> QED BY <2>1 DEF TokenInv
<1>5. CASE StartLineDedented
  <2>1. /\ dedentCount' > 0 /\ indentStack' # <<>>
    BY <1>0, <1>5, DedentedEffect DEF TypeOK
  <2>2. isLogLineStart' = TRUE /\ tok' \in {tok, "BADENT"}
    BY <1>5 DEF StartLineDedented, StartLine, Return
  <2>3. tok # "eof"
    BY <1>0, <1>5 DEF StartLineDedented, StartLine, MeasuredTo, ControlInv,
       TokenInv
  <2> QED BY <2>1, <2>2, <2>3 DEF TokenInv
<1>6. CASE Scanning
  <2>1. ScanningEffect /\ indentStack # <<>> /\ tok \notin {"BADENT", "eof"}
    BY <1>0, <1>6, ScanningFrame DEF ScanningEffect, BlockNotDeeperThanLine,
       TokenInv
  <2>2. tok' \notin {"BADENT", "eof"}
    BY <2>1 DEF ScanningEffect, Content
  <2> QED BY <1>0, <2>1, <2>2 DEF ScanningEffect, TokenInv
<1>7. CASE ReturnNewline \/ ReturnEof \/ FlushIndents
  <2>1. dedentCount = 0
    BY <1>0, <1>7 DEF ReturnNewline, ReturnEof, FlushIndents, LineEnds, ControlInv
  <2> QED BY <1>0, <1>7, <2>1 DEF ReturnNewline, ReturnEof, FlushIndents,
     Return, LineEnds, TokenInv
<1>8. CASE UNCHANGED vars
  BY <1>0, <1>8 DEF vars, TokenInv
<1> QED BY <1>1, <1>2, <1>3, <1>4, <1>5, <1>6, <1>7, <1>8 DEF Next, Scanning

\* LexerInv is inductive: every reachable state of the scanner satisfies it,
\* whatever the texts.
THEOREM LexerInvariant == Spec => []LexerInv
<1>1. LexerInv /\ [Next]_vars => LexerInv'
  BY TypeStep, OrderedStep, ControlStep, LocationStep, TokenStep DEF LexerInv
<1> QED BY InitLexerInv, <1>1, PTL DEF Spec

-----------------------------------------------------------------------------
(* The properties.                                                         *)

\* The variables of the scanner keep their types, and the read position
\* stays inside the buffer.
THEOREM LexerTypeOK == Spec => []TypeOK
<1>1. LexerInv => TypeOK
  BY DEF LexerInv
<1> QED BY LexerInvariant, <1>1, PTL

\* The indentation stack is ordered, and never read when it is empty
\* (Lexer.cpp:102-109).
THEOREM LexerStackSafe ==
  Spec => [](IndentStackOrdered /\ StackReadIsSafe /\ BlockNotDeeperThanLine)
<1>1. LexerInv => IndentStackOrdered /\ StackReadIsSafe /\ BlockNotDeeperThanLine
  BY DEF LexerInv
<1> QED BY LexerInvariant, <1>1, PTL

\* The assertion of Lexer.cpp:197 cannot fail.
THEOREM LexerAssertHolds == Spec => []EndOutsideLineIsEof
<1>1. LexerInv => EndOutsideLineIsEof
  BY DEF LexerInv, ControlInv, LineEnds, EndOutsideLineIsEof
<1> QED BY LexerInvariant, <1>1, PTL

\* Token locations never go backwards.
THEOREM LexerLocations == Spec => LocationsAdvance
<1>1. ASSUME LexerInv, [Next]_vars
      PROVE  loc' # loc => loc.to <= loc'.from
  <2>0. /\ TypeOK /\ ControlInv /\ LocationInv
        /\ bufPtr \in Nat /\ ptr \in Nat /\ start \in Nat
        /\ loc.to \in Nat /\ indentPtr \in Nat
    BY <1>1 DEF LexerInv, TypeOK, EndOfText
  <2>1. CASE ReturnDedent
    <3>1. loc'.from = indentPtr
      BY <2>1 DEF ReturnDedent, Return
    <3> QED BY <2>0, <2>1, <3>1 DEF ReturnDedent, LocationInv
  <2>2. CASE StartLineIndented \/ StartLineDedented
    <3>1. loc' # loc => loc'.from = ptr /\ pc = "indent"
      BY <2>2 DEF StartLineIndented, StartLineDedented, StartLine, MeasuredTo,
         Return
    <3> QED BY <2>0, <3>1 DEF LocationInv
  <2>3. CASE Scanning
    BY <2>0, <2>3, ScanningFrame DEF ScanningEffect, LocationInv
  <2>4. CASE ReturnNewline \/ ReturnEof
    <3>1. loc'.from = bufPtr /\ pc = "body"
      BY <2>4 DEF ReturnNewline, ReturnEof, Return, LineEnds
    <3> QED BY <2>0, <3>1 DEF LocationInv
  <2>5. CASE Enter \/ CountIndentation \/ SkipBlankLine \/ SkipLastBlankLine
               \/ StartLineAtSameIndent \/ FlushIndents \/ UNCHANGED vars
    BY <2>5 DEF Enter, CountIndentation, SkipBlankLine, SkipLastBlankLine,
       StartLineAtSameIndent, FlushIndents, vars
  <2> QED BY <1>1, <2>1, <2>2, <2>3, <2>4, <2>5 DEF Next, Scanning
<1>2. LexerInv /\ [Next]_vars => [loc' # loc => loc.to <= loc'.from]_vars
  BY <1>1
<1> QED BY LexerInvariant, <1>2, PTL DEF Spec, LocationsAdvance

-----------------------------------------------------------------------------
(* The lexer implements the token stream.                                  *)

\* Every step of the scanner returns a token the stream allows, or none.
LEMMA StreamStep ==
  LexerInv /\ [Next]_vars => [Stream!Next]_<<tok, OpenBlocks, Phase>>
<1> SUFFICES ASSUME LexerInv, [Next]_vars
             PROVE  Stream!Next \/ UNCHANGED <<tok, OpenBlocks, Phase>>
  OBVIOUS
<1>0. /\ TypeOK /\ ControlInv /\ TokenInv /\ StackReadIsSafe
      /\ BlockNotDeeperThanLine /\ dedentCount \in Nat
      /\ Len(indentStack) \in Nat /\ (indentStack # <<>> => Len(indentStack) > 0)
  BY DEF LexerInv, TypeOK
<1>1. CASE ReturnDedent
  <2>1. tok # "eof" /\ tok' = "DEDENT" /\ dedentCount' = dedentCount - 1
        /\ UNCHANGED indentStack /\ dedentCount > 0
    BY <1>0, <1>1 DEF ReturnDedent, Return, TokenInv
  <2>2. Phase \in {"bol", "dedenting"} /\ OpenBlocks > 0
        /\ OpenBlocks' = OpenBlocks - 1
    BY <1>0, <2>1 DEF Phase, OpenBlocks
  <2>3. \/ Phase' = "dedenting" /\ OpenBlocks' > 0
        \/ Phase' = "line"
        \/ Phase' = "end" /\ OpenBlocks' = 0
    BY <1>0, <2>1 DEF Phase, OpenBlocks
  <2> QED BY <2>1, <2>2, <2>3 DEF Stream!Next, Stream!Dedent
<1>2. CASE Enter \/ CountIndentation \/ SkipBlankLine \/ SkipLastBlankLine
             \/ StartLineAtSameIndent \/ UNCHANGED vars
  BY <1>2 DEF Enter, CountIndentation, SkipBlankLine, SkipLastBlankLine,
     StartLineAtSameIndent, vars, OpenBlocks, Phase
<1>3. CASE StartLineIndented
  <2>1. /\ indentStack # <<>> /\ tok \in {"none", "NEWLINE"} /\ dedentCount = 0
        /\ dedentCount' = dedentCount /\ tok' = "INDENT"
        /\ indentStack' = Append(indentStack, indention)
    BY <1>0, <1>3 DEF StartLineIndented, StartLine, MeasuredTo, Return,
       ControlInv, TokenInv
  <2>2. indentStack \in Seq(Nat) /\ indention \in Nat
    BY <1>0 DEF TypeOK
  <2>3. Len(indentStack') = Len(indentStack) + 1 /\ indentStack' # <<>>
    BY <1>0, <2>1, <2>2
  <2>4. /\ Phase = "bol" /\ Phase' = "line"
        /\ OpenBlocks' = OpenBlocks + 1
    BY <1>0, <2>1, <2>3 DEF Phase, OpenBlocks
  <2> QED BY <2>1, <2>4 DEF Stream!Next, Stream!Indent
<1>4. CASE StartLineDedented
  <2>1. /\ indentStack # <<>> /\ tok \in {"none", "NEWLINE"}
        /\ tok' = "BADENT" \/ UNCHANGED tok
    BY <1>0, <1>4 DEF StartLineDedented, StartLine, MeasuredTo, Return,
       ControlInv, TokenInv
  <2>2. /\ Kept \in 1 .. Len(indentStack) - 1 /\ Len(indentStack') = Kept
        /\ dedentCount = 0 /\ dedentCount' = Len(indentStack) - Kept
    BY <1>0, <1>4, DedentedEffect
  <2>3. OpenBlocks' = OpenBlocks /\ OpenBlocks > 0 /\ Phase = "bol"
        /\ dedentCount' > 0
    BY <1>0, <2>1, <2>2 DEF OpenBlocks, Phase
  <2>4. \/ UNCHANGED <<tok, OpenBlocks, Phase>>
        \/ tok' = "BADENT" /\ Phase' = "dedenting"
    BY <2>1, <2>3 DEF Phase
  <2> QED BY <2>3, <2>4 DEF Stream!Next, Stream!Badent
<1>5. CASE Scanning
  <2>1. ScanningEffect /\ indentStack # <<>>
    BY <1>0, <1>5, ScanningFrame DEF ScanningEffect, BlockNotDeeperThanLine
  <2>2. OpenBlocks' = OpenBlocks /\ Phase \in {"bol", "line"}
    BY <2>1 DEF ScanningEffect, OpenBlocks, Phase
  <2>3. CASE UNCHANGED tok
    BY <2>1, <2>2, <2>3 DEF ScanningEffect, Phase
  <2>4. CASE tok' \in Content
    <3>1. Phase' = "line"
      BY <2>1, <2>4 DEF ScanningEffect, Phase, Content
    <3> QED BY <2>2, <2>4, <3>1 DEF Stream!Next, Stream!InLine
  <2> QED BY <2>1, <2>3, <2>4 DEF ScanningEffect
<1>6. CASE ReturnNewline
  <2>1. /\ dedentCount = 0 /\ indentStack # <<>> /\ tok' = "NEWLINE"
        /\ UNCHANGED <<dedentCount, indentStack>>
    BY <1>0, <1>6 DEF ReturnNewline, Return, LineEnds, ControlInv,
       BlockNotDeeperThanLine
  <2>2. OpenBlocks' = OpenBlocks /\ Phase \in {"bol", "line"} /\ Phase' = "bol"
    BY <2>1 DEF OpenBlocks, Phase
  <2> QED BY <2>1, <2>2 DEF Stream!Next, Stream!EndLine
<1>7. CASE ReturnEof
  <2>1. /\ dedentCount = 0 /\ indentStack = <<>> /\ tok' = "eof"
        /\ UNCHANGED <<dedentCount, indentStack>>
    BY <1>0, <1>7 DEF ReturnEof, Return, LineEnds, ControlInv
  <2>2. /\ OpenBlocks = 0 /\ OpenBlocks' = 0
        /\ Phase \in {"bol", "end"} /\ Phase' = "end"
    BY <2>1 DEF OpenBlocks, Phase
  <2> QED BY <2>1, <2>2 DEF Stream!Next, Stream!End
<1>8. CASE FlushIndents
  <2>1. /\ dedentCount = 0 /\ tok \in {"none", "NEWLINE"} /\ UNCHANGED tok
        /\ indentStack # <<>> /\ indentStack' = <<>>
        /\ dedentCount' = Len(indentStack) - 1
    BY <1>0, <1>8 DEF FlushIndents, LineEnds, ControlInv, TokenInv
  <2> QED BY <1>0, <2>1 DEF OpenBlocks, Phase
<1> QED BY <1>1, <1>2, <1>3, <1>4, <1>5, <1>6, <1>7, <1>8 DEF Next, Scanning

\* The lexer implements the token stream: for every text, the tokens it
\* returns are bracketed and ordered as the parser expects.
THEOREM LexerImplementsStream == Spec => ImplementsTokenStream
<1>1. Init => Stream!Init
  <2> SUFFICES ASSUME Init PROVE Stream!Init
    OBVIOUS
  <2>1. Len(<<0>>) = 1 /\ <<0>> # <<>>
    OBVIOUS
  <2> QED BY <2>1 DEF Init, Stream!Init, OpenBlocks, Phase
<1>2. LexerInv /\ [Next]_vars => [Stream!Next]_(Stream!vars)
  BY StreamStep DEF Stream!vars
<1> QED BY <1>1, <1>2, LexerInvariant, PTL
        DEF Spec, Stream!Spec, ImplementsTokenStream

-----------------------------------------------------------------------------
(* The token cache.                                                        *)

\* Appending the tokens scanned next keeps the cache the tail of the stream.
LEMMA FreshTokens ==
  ASSUME CacheInv, NEW n \in Ahead, LookPastCache(n)
  PROVE  /\ scanned' = scanned + (cachedTokenPos + (n + 1) - Len(cachedTokens))
         /\ scanned' \in Nat /\ Len(cachedTokens') <= scanned'
         /\ cachedTokens' \in Seq(Nat)
         /\ Len(cachedTokens') = cachedTokenPos + n + 1
         /\ \A i \in 1 .. Len(cachedTokens') :
               cachedTokens'[i] = scanned' - Len(cachedTokens') + i
         /\ peeked' = scanned'
<1> DEFINE missing == cachedTokenPos + (n + 1) - Len(cachedTokens)
           fresh == [i \in 1 .. missing |-> scanned + i]
<1>1. /\ n \in Nat /\ scanned \in Nat /\ cachedTokenPos \in Nat
      /\ cachedTokens \in Seq(Nat) /\ Len(cachedTokens) \in Nat
  BY AheadAssumption DEF CacheInv, CacheTypeOK
<1>2. missing \in Nat /\ missing > 0
  BY <1>1 DEF LookPastCache
<1>3. fresh \in Seq(Nat) /\ Len(fresh) = missing
  BY <1>1, <1>2
<1>4. /\ cachedTokens' = cachedTokens \o fresh /\ scanned' = scanned + missing
      /\ peeked' = cachedTokens'[Len(cachedTokens')]
  BY DEF LookPastCache, PeekAhead
<1>5. /\ cachedTokens' \in Seq(Nat)
      /\ Len(cachedTokens') = Len(cachedTokens) + missing
      /\ \A i \in 1 .. Len(cachedTokens) + missing :
            cachedTokens'[i] = IF i <= Len(cachedTokens) THEN cachedTokens[i]
                                            ELSE fresh[i - Len(cachedTokens)]
  <2> HIDE DEF fresh, missing
  <2> QED BY <1>1, <1>3, <1>4, ConcatProperties
<1>6. ASSUME NEW i \in 1 .. Len(cachedTokens')
      PROVE  cachedTokens'[i] = scanned' - Len(cachedTokens') + i
  <2>1. CASE i <= Len(cachedTokens)
    <3>1. cachedTokens'[i] = cachedTokens[i]
      BY <1>5, <2>1
    <3>2. cachedTokens[i] = scanned - Len(cachedTokens) + i
      BY <1>1, <1>5, <2>1 DEF CacheInv, CacheIsTailOfStream
    <3> QED BY <1>1, <1>2, <1>4, <1>5, <3>1, <3>2
  <2>2. CASE i > Len(cachedTokens)
    <3>1. cachedTokens'[i] = fresh[i - Len(cachedTokens)]
      <4> HIDE DEF fresh, missing
      <4> QED BY <1>1, <1>2, <1>5, <2>2
    <3>2. i - Len(cachedTokens) \in 1 .. missing
      BY <1>1, <1>2, <1>5, <2>2
    <3> QED BY <1>1, <1>2, <1>4, <1>5, <3>1, <3>2
  <2> QED BY <1>1, <1>5, <2>1, <2>2
<1>7. Len(cachedTokens') \in 1 .. Len(cachedTokens')
  BY <1>1, <1>2, <1>5
<1>8. peeked' = scanned'
  BY <1>1, <1>2, <1>4, <1>5, <1>6, <1>7
<1>9. Len(cachedTokens) <= scanned
  BY DEF CacheInv, CacheIsTailOfStream
<1>10. Len(cachedTokens') = cachedTokenPos + n + 1 /\ scanned' = scanned + missing
  <2>1. Len(cachedTokens) + missing = cachedTokenPos + n + 1
    BY <1>1
  <2> QED BY <1>4, <1>5, <2>1
<1>11. scanned' \in Nat /\ Len(cachedTokens') <= scanned'
  BY <1>1, <1>2, <1>5, <1>9, <1>10
<1> QED BY <1>5, <1>6, <1>8, <1>10, <1>11

\* The invariant of the cache is preserved by every operation.
LEMMA CacheStep == CacheInv /\ [CacheNext]_cacheVars => CacheInv'
<1> SUFFICES ASSUME CacheInv, [CacheNext]_cacheVars PROVE CacheInv'
  OBVIOUS
<1> USE DEF CacheInv, CacheTypeOK, CacheIsTailOfStream, ModesAgree,
            ScansNoFurtherThanAsked
<1>1. CASE LexRaw
  BY <1>1 DEF LexRaw
<1>2. CASE LexCached
  <2>1. cachedTokenPos + 1 \in 1 .. Len(cachedTokens)
    BY <1>2 DEF LexCached
  <2>2. cachedTokens[cachedTokenPos + 1] \in Nat
    BY <2>1
  <2>3. \E n \in Ahead : Len(cachedTokens) - cachedTokenPos <= n + 1
    BY <2>1
  <2>4. \E n \in Ahead : Len(cachedTokens) - (cachedTokenPos + 1) <= n + 1
    BY <2>3, AheadAssumption
  <2> QED BY <1>2, <2>1, <2>2, <2>4 DEF LexCached
<1>3. CASE LexPastCache
  <2>1. /\ Len(cachedTokens') = 0 /\ cachedTokens' \in Seq(Nat)
        /\ cachedTokens' = <<>> /\ cachedTokenPos' = 0
        /\ isCachingMode' = FALSE /\ callback' = "scanner"
    BY <1>3 DEF LexPastCache, ExitCachingMode
  <2>2. scanned' \in Nat /\ lexed' \in Nat /\ peeked' \in Nat
    BY <1>3 DEF LexPastCache
  <2>3. CacheTypeOK' /\ ModesAgree'
    BY <2>1, <2>2
  <2>4. CacheIsTailOfStream' /\ ScansNoFurtherThanAsked'
    <3> HIDE DEF CacheTypeOK, ModesAgree
    <3>1. Len(cachedTokens') = 0 /\ cachedTokenPos' = 0 /\ scanned' \in Nat
      BY <2>1, <2>2
    <3> QED BY <3>1
  <2> QED BY <2>3, <2>4
<1>4. ASSUME NEW n \in Ahead, LookInCache(n) PROVE CacheInv'
  <2>1. cachedTokenPos + n + 1 \in 1 .. Len(cachedTokens)
    BY <1>4, AheadAssumption DEF LookInCache
  <2> QED BY <1>4, <2>1 DEF LookInCache
<1>5. ASSUME NEW n \in Ahead, LookPastCache(n) PROVE CacheInv'
  <2>1. n \in Nat /\ Len(cachedTokens) \in Nat
    BY AheadAssumption
  <2>2. /\ cachedTokens' \in Seq(Nat) /\ Len(cachedTokens') = cachedTokenPos + n + 1
        /\ \A i \in 1 .. Len(cachedTokens') :
               cachedTokens'[i] = scanned' - Len(cachedTokens') + i
        /\ scanned' \in Nat /\ peeked' = scanned' /\ Len(cachedTokens') <= scanned'
    BY <1>5, <2>1, FreshTokens
  <2>3. /\ cachedTokenPos' = cachedTokenPos /\ lexed' = lexed
        /\ isCachingMode' = TRUE /\ callback' = "cache"
    BY <1>5 DEF LookPastCache, PeekAhead, EnterCachingMode
  <2>4. CacheTypeOK' /\ ModesAgree'
    BY <2>2, <2>3
  <2>5. CacheIsTailOfStream'
    BY <2>1, <2>2, <2>3
  <2>6. Len(cachedTokens') - cachedTokenPos' <= n + 1
    BY <2>1, <2>2, <2>3
  <2> QED BY <2>4, <2>5, <2>6
<1>6. CASE Reset
  BY <1>6 DEF Reset
<1>7. CASE UNCHANGED cacheVars
  BY <1>7 DEF cacheVars
<1> QED BY <1>1, <1>2, <1>3, <1>4, <1>5, <1>6, <1>7 DEF CacheNext

\* The cache always holds the tokens scanned last, and its two mode switches
\* agree (CachingLexer.cpp).
THEOREM CacheInvariant == CacheSpec => []CacheInv
<1>1. CacheInit => CacheInv
  BY DEF CacheInit, CacheInv, CacheTypeOK, CacheIsTailOfStream, ModesAgree,
         ScansNoFurtherThanAsked
<1> QED BY <1>1, CacheStep, PTL DEF CacheSpec

\* A token that was looked at is not passed over, and none is read from a cache
\* that is not in use (CachingLexer::lex, EnterCachingMode, ExitCachingMode).
THEOREM CacheSafety == CacheSpec => [](CacheIsTailOfStream /\ ModesAgree)
<1>1. CacheInv => CacheIsTailOfStream /\ ModesAgree
  BY DEF CacheInv
<1> QED BY <1>1, CacheInvariant, PTL

\* The scanner, and with it the order of diagnostics, is never further ahead of
\* the parser than some LookAhead asked for (CachingLexer::PeekAhead).
THEOREM CacheScansNoFurther == CacheSpec => []ScansNoFurtherThanAsked
<1>1. CacheInv => ScansNoFurtherThanAsked
  BY DEF CacheInv
<1> QED BY <1>1, CacheInvariant, PTL

\* Every operation on the cache is the operation its caller asked for.
LEMMA LookaheadStep ==
  CacheInv /\ [CacheNext]_cacheVars => [Lookahead!Next]_<<Taken, lexed, peeked>>
<1> SUFFICES ASSUME CacheInv, [CacheNext]_cacheVars
             PROVE  Lookahead!Next \/ UNCHANGED <<Taken, lexed, peeked>>
  OBVIOUS
<1>0. /\ scanned \in Nat /\ cachedTokenPos \in Nat /\ Len(cachedTokens) \in Nat
      /\ cachedTokenPos <= Len(cachedTokens)
      /\ \A i \in 1 .. Len(cachedTokens) :
            cachedTokens[i] = scanned - Len(cachedTokens) + i
      /\ callback = "scanner" => cachedTokens = <<>> /\ cachedTokenPos = 0
      /\ callback = "cache" => isCachingMode
  BY DEF CacheInv, CacheTypeOK, CacheIsTailOfStream, ModesAgree
<1>1. CASE LexRaw \/ LexPastCache
  <2>1. cachedTokenPos = Len(cachedTokens) /\ cachedTokenPos' = Len(cachedTokens')
    BY <1>0, <1>1 DEF LexRaw, LexPastCache
  <2>2. scanned' = scanned + 1 /\ lexed' = scanned + 1 /\ peeked' = peeked
    BY <1>1 DEF LexRaw, LexPastCache
  <2>3. Len(cachedTokens') = 0
    BY <1>0, <1>1 DEF LexRaw, LexPastCache
  <2>4. Taken' = Taken + 1 /\ lexed' = Taken + 1
    BY <1>0, <2>1, <2>2, <2>3 DEF Taken
  <2> QED BY <2>2, <2>4 DEF Lookahead!Next, Lookahead!Take
<1>2. CASE LexCached
  <2>1. cachedTokenPos + 1 \in 1 .. Len(cachedTokens)
    BY <1>0, <1>2 DEF LexCached
  <2>2. lexed' = scanned - Len(cachedTokens) + (cachedTokenPos + 1)
    BY <1>0, <1>2, <2>1 DEF LexCached
  <2>3. Taken' = Taken + 1 /\ lexed' = Taken + 1
    BY <1>0, <1>2, <2>2 DEF LexCached, Taken
  <2> QED BY <1>2, <2>3 DEF LexCached, Lookahead!Next, Lookahead!Take
<1>3. ASSUME NEW n \in Ahead, LookInCache(n)
      PROVE  Lookahead!Look(n)
  <2>1. cachedTokenPos + n + 1 \in 1 .. Len(cachedTokens) /\ n \in Nat
    BY <1>0, <1>3, AheadAssumption DEF LookInCache
  <2>2. peeked' = scanned - Len(cachedTokens) + (cachedTokenPos + n + 1)
    BY <1>0, <1>3, <2>1 DEF LookInCache
  <2>3. peeked' = Taken + n + 1 /\ Taken' = Taken
    BY <1>0, <1>3, <2>1, <2>2 DEF LookInCache, Taken
  <2> QED BY <1>3, <2>3 DEF LookInCache, Lookahead!Look
<1>4. ASSUME NEW n \in Ahead, LookPastCache(n)
      PROVE  Lookahead!Look(n)
  <2>1. n \in Nat
    BY AheadAssumption
  <2>2. /\ scanned' = scanned + (cachedTokenPos + (n + 1) - Len(cachedTokens))
        /\ Len(cachedTokens') = cachedTokenPos + n + 1
        /\ peeked' = scanned'
    BY <1>4, FreshTokens
  <2>3. cachedTokenPos' = cachedTokenPos /\ lexed' = lexed
    BY <1>4 DEF LookPastCache, PeekAhead
  <2>4. Taken' = Taken /\ peeked' = Taken + n + 1
    BY <1>0, <2>1, <2>2, <2>3 DEF Taken
  <2> QED BY <2>3, <2>4 DEF Lookahead!Look
<1>5. CASE Reset
  <2>1. Len(cachedTokens') = 0
    BY <1>5 DEF Reset
  <2>2. Taken' = 0 - (0 - 0)
    BY <1>5, <2>1 DEF Reset, Taken
  <2>3. Taken' = 0
    BY <2>2
  <2> QED BY <1>5, <2>3 DEF Reset, Lookahead!Next, Lookahead!Restart
<1>6. CASE UNCHANGED cacheVars
  BY <1>6 DEF cacheVars, Taken
<1> QED BY <1>1, <1>2, <1>3, <1>4, <1>5, <1>6 DEF CacheNext, Lookahead!Next

\* The parser sees every token once and in order, whatever it looked at
\* before, and what it looked at is what comes.
THEOREM CachingLexerImplementsLookahead == CacheSpec => ImplementsLookahead
<1>1. CacheInit => Lookahead!Init
  <2> SUFFICES ASSUME CacheInit PROVE Lookahead!Init
    OBVIOUS
  <2>1. Taken = 0 - (0 - 0)
    BY DEF CacheInit, Taken
  <2>2. Taken = 0
    BY <2>1
  <2> QED BY <2>2 DEF CacheInit, Lookahead!Init
<1>2. CacheInv /\ [CacheNext]_cacheVars => [Lookahead!Next]_(Lookahead!vars)
  BY LookaheadStep DEF Lookahead!vars
<1> QED BY <1>1, <1>2, CacheInvariant, PTL
        DEF CacheSpec, Lookahead!Spec, ImplementsLookahead
=============================================================================
