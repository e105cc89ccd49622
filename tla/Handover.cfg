SPECIFICATION HSpec
CONSTANTS
  N = 3
  W = 5
  Overshift = {}
  Mutexes = {"A", "B"}
  ConditionVariables = {"cv"}
  Flags = {"ready", "never"}
  Resume <- RunToPause
  Waiters <- WaitingThreads
  ClearWaiters <- ClearWaitingThreads
  Begin <- OnPermutationBegin
  Tests <- HandoverTests
  Lists <- AllLists
INVARIANT NoFalseDeadlock
CHECK_DEADLOCK FALSE
