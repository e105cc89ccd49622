SPECIFICATION Spec
CONSTANTS
  N = 1
  Runs = 2
PROPERTY StepEnds
CHECK_DEADLOCK FALSE
