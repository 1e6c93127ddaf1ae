CONSTANT
  Texts <- MCAllTexts
  Grammatical <- MCAllAccepted
  Expressions <- MCStatements
  Postorder <- MCPostorder
SPECIFICATION FairSpec
CHECK_DEADLOCK FALSE
INVARIANT ParserInv
INVARIANT OnlyGrammaticalAccepted
INVARIANT GrammaticalAccepted
INVARIANT PrecedenceRespected
PROPERTY EndsOrSpins
