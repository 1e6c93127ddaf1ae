CONSTANT
  Names <- MCNames
  Programs <- MCPrograms
SPECIFICATION FairSpec
CHECK_DEADLOCK FALSE
INVARIANT ScopesInv
INVARIANT InnermostWins
INVARIANT ResolvesLexically
INVARIANT NullTypeOnlyBeforeDefinition
PROPERTY Terminates
