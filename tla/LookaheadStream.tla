-------------------------- MODULE LookaheadStream --------------------------
(***************************************************************************)
(* What the parser expects of Lexer::lex and Lexer::LookAhead: the tokens  *)
(* of the text one after the other, and a look at a later one that changes *)
(* nothing.  A token is its number in the stream lexImpl returns.          *)
(***************************************************************************)
EXTENDS Integers

CONSTANT Ahead     \* how far a caller may look ahead

VARIABLES
  consumed,    \* the number of tokens taken since the start of the text
  tok,         \* the token taken last
  peeked       \* the token LookAhead showed last

vars == <<consumed, tok, peeked>>

Init == consumed = 0 /\ tok = 0 /\ peeked = 0

\* lex: the next token, whatever has been looked at.
Take ==
  /\ tok' = consumed + 1
  /\ consumed' = consumed + 1
  /\ UNCHANGED peeked

\* LookAhead(n): the token that will be taken after n others.
Look(n) ==
  /\ peeked' = consumed + n + 1
  /\ UNCHANGED <<consumed, tok>>

\* reset: the text from its beginning.
Restart ==
  /\ consumed' = 0
  /\ UNCHANGED <<tok, peeked>>

Next == Take \/ (\E n \in Ahead : Look(n)) \/ Restart

Spec == Init /\ [][Next]_vars
=============================================================================
