SPECIFICATION HSpec
CONSTANTS
  N = 3
  W = 5
  Overshift = {}
  Mutexes = {"A", "B"}
  ConditionVariables = {"cv"}
  Flags = {"ready", "never"}
  Resume <- RunToPause
  Waiters <- WaitingThreads
  ClearWaiters <- ClearWaitingThreads
  Begin <- OnPermutationBegin
  Tests <- ExploreTests
  Lists <- AllLists
INVARIANTS
  TypeOK
  Aligned
  StepsNotBlocked
  RecordedSetsReplay
  AssertOnlyIfIllegal
  NoOutcomePruned
  EveryTestFinishes
  NoFalseDeadlock
  NotRunBeforeNotified
  ReplayMeetsRecord
  RecordsIfReset
  BeginsAfresh
  ReportsAnOrder
  NoneTwice
  FinishedStayUnblocked
  EveryOrderPlayed
PROPERTIES
  StepsIncrease
  ImplementsEveryPermutation
  NothingSkipped
  AssertsHold
CHECK_DEADLOCK FALSE
