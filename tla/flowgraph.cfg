CONSTANT
  Bodies <- MCBodies
  MaxDecisions = 4
SPECIFICATION Spec
CHECK_DEADLOCK FALSE
INVARIANT GraphInv
INVARIANT PlacedOnce
INVARIANT RunsAsWritten
INVARIANT AcceptedBodiesReturn
