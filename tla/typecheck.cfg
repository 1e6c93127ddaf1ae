CONSTANT
  Decl <- MCDecl
  Classes <- MCClasses
  ClassNames <- MCClassNames
  Member <- MCMember
  Samples <- MCSamples
  MaxStack = 3
  MaxBrackets = 2
SPECIFICATION Spec
INVARIANT TypeOK
INVARIANT UndeclaredReported
INVARIANT PlainNeverCrashes
INVARIANT AcceptedFits
INVARIANT ExactTypeAccepted
INVARIANT RefusedReported
CHECK_DEADLOCK FALSE
