SPECIFICATION Spec
CONSTANTS
  N = 2
  Runs = 1
INVARIANTS
  TypeOK
  OneAtATime
PROPERTIES
  ImplementsCoroutines
  StepEnds
  StopEnds
CHECK_DEADLOCK FALSE
