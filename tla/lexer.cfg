CONSTANT
  Texts <- MCTexts
SPECIFICATION FairSpec
INVARIANT StackReadIsSafe
INVARIANT EndOutsideLineIsEof
INVARIANT LexerInv
PROPERTY LocationsAdvance
PROPERTY ReachesEof
PROPERTY ImplementsTokenStream
