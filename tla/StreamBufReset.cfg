SPECIFICATION Spec
CONSTANT Chunks = 3
INVARIANTS
  TypeOK
  ReadsNextChunk
  OneReset
  BlocksOnStaleRead
PROPERTIES
  NothingOverwritten
  Ends
CHECK_DEADLOCK FALSE
