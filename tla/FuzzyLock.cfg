SPECIFICATION Spec
CONSTANTS
  Stoppers = {0, 2}
  Starters = {1}
INVARIANTS
  OnlyWhenTrue
  EndsAsExpected
PROPERTY LateCallIgnored
