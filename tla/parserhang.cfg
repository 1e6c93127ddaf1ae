CONSTANT
  Texts <- MCShortTexts
  Grammatical = {}
  Expressions = {}
  Postorder <- NoOrder
SPECIFICATION FairSpec
CHECK_DEADLOCK FALSE
PROPERTY Terminates
