SPECIFICATION Spec
CONSTANT N = 3
INVARIANTS
  TypeOK
  LastIsFinal
PROPERTY LastStays
