CONSTANT
  ClassNames <- MCClassNames
  MaxTypes = 10
  MaxBrackets = 2
SPECIFICATION Spec
INVARIANT TypesUnique
INVARIANT AnnotationConverted
INVARIANT CompatibilityIsOrder
INVARIANT ContextInv
CHECK_DEADLOCK FALSE
