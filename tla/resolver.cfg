CONSTANT
  Decls <- MCDecls
  Symbols <- MCSymbols
  SymbolOf <- MCSymbolOf
  PoolSize = 2
  MaxEntries = 3
SPECIFICATION Spec
INVARIANT ResolverInv
INVARIANT ListsUnshared
PROPERTY ImplementsStack
