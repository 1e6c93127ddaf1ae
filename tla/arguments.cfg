CONSTANT
  Decl <- MCDecl
  Classes <- MCClasses
  ClassNames <- MCClassNames
  Member <- MCMember
  Samples <- MCSamples
  MaxStack = 3
  MaxBrackets = 2
SPECIFICATION Spec
INVARIANT ArgumentsChecked
CHECK_DEADLOCK FALSE
