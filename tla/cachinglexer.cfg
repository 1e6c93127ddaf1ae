CONSTANT
  Ahead <- MCAhead
  MaxTokens = 7
SPECIFICATION CacheSpec
INVARIANT CacheInv
PROPERTY ImplementsLookahead
INVARIANT ScansNoFurtherThanAsked
