SPECIFICATION Spec
CONSTANTS
  MaxQueues = 1
  Publishers = {1}
  Boots = {1}
  Bodies = {1}
  MaxIncarnation = 2
  MaxSequence = 2
  MaxGeneration = 2
  MaxEpoch = 2
  MaxLife = 2
  MaxMemo = 1
  MaxPublishers = 1
  MaxPending = 2
  JournalFaults = TRUE
INVARIANTS TypeOK AtMostOnce MemoSound MemoBounded PendingMirrorsPlans
CHECK_DEADLOCK FALSE
